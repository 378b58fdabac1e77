------------------------ MODULE MmuSeguridad_proofs ------------------------
(***************************************************************************)
(* That the tables of the CPU lose and mix nothing: a page shows its last  *)
(* write, Mmu implements MemoriaVirtual, and the clocks and FIFO choose    *)
(* the victims they should.                                                *)
(***************************************************************************)
EXTENDS Mmu_proofs

(* The copy in the cache is the last write, and so is the frame of a page   *)
(* of which there is no modified copy.                                      *)
Guarda(entrada, d) == entrada.ocupado /\ entrada.pid = d[1] /\ entrada.pagina = d[2]
Coherente(c, m, e, d) ==
    /\ \A i \in DOMAIN c : Guarda(c[i], d) => c[i].contenido = e[d]
    /\ (\A i \in DOMAIN c : Guarda(c[i], d) => ~c[i].modificado) => m[MarcoDe[d]] = e[d]
Coherencia == \A d \in Mapeadas \ perdidas : Coherente(cache, memoria_fisica, escrito, d)
\* The page that waits for the write-back is the one in its frame.
Traida == acceso.fase = "desalojo" => acceso.contenido = memoria_fisica[MarcoDe[EnCurso]]

JInv == IInv /\ Coherencia /\ Traida

LEMMA Direccion ==
    ASSUME NEW d \in Direcciones
    PROVE  d = <<d[1], d[2]>> /\ d[1] \in Pids /\ d[2] \in Paginas
BY DEF Direcciones

(* Only one page is in each frame.                                          *)
LEMMA MarcoPropio ==
    ASSUME NEW d \in Mapeadas, NEW e \in Direcciones, MarcoDe[d] = MarcoDe[e]
    PROVE  d = e
BY SupuestoMemoria DEF Mapeadas

LEMMA Recordada ==
    ASSUME NEW f, NEW X, NEW d \in Direcciones, d \notin X
    PROVE  Recordado(f, X)[d] = f[d]
BY DEF Recordado

(* What NadaSePierde says, from the coherence.                              *)
LEMMA SeVe ==
    ASSUME JInv, NEW d \in Mapeadas \ perdidas
    PROVE  Visible(d) = escrito[d]
<1>1. Coherente(cache, memoria_fisica, escrito, d) BY DEF JInv, Coherencia
<1>2. CASE EnCache(cache, d[1], d[2])
  <2> DEFINE n == config.entradas_cache
  <2>1. n \in Nat /\ cache \in [0..n - 1 -> Entradas]
    BY Configurado DEF JInv, IInv, CacheBien, CacheBuena
  <2> HIDE DEF n
  <2>2. \A p, q : EnCache(cache, p, q) =>
          /\ Primera(cache, p, q) \in DOMAIN cache /\ cache[Primera(cache, p, q)].ocupado
          /\ cache[Primera(cache, p, q)].pid = p /\ cache[Primera(cache, p, q)].pagina = q
    BY <2>1, PrimeraEs
  <2> QED BY <1>1, <1>2, <2>2 DEF Visible, Coherente, Guarda
<1>3. CASE ~EnCache(cache, d[1], d[2])
  <2>1. \A i \in DOMAIN cache : ~Guarda(cache[i], d) BY <1>3 DEF EnCache, Ocupan, Guarda
  <2> QED BY <1>1, <1>3, <2>1 DEF Visible, Coherente
<1> QED BY <1>2, <1>3

(* A step that leaves the copies, the frames and the writes as they are.    *)
LEMMA CoherenciaIgual ==
    ASSUME Coherencia,
           UNCHANGED <<cache, memoria_fisica, escrito, perdidas>>
    PROVE  Coherencia'
BY DEF Coherencia, Coherente

(* One that touches use bits only.                                          *)
MismoContenido(x, y) == MismaCopia(x, y) /\ x.contenido = y.contenido /\ x.modificado = y.modificado
LEMMA CoherenciaUsados ==
    ASSUME Coherencia, DOMAIN cache' = DOMAIN cache,
           \A i \in DOMAIN cache : MismoContenido(cache'[i], cache[i]),
           UNCHANGED <<memoria_fisica, escrito, perdidas>>
    PROVE  Coherencia'
BY DEF Coherencia, Coherente, MismoContenido, MismaCopia, MismaTraduccion, MismaPagina, Guarda

LEMMA CoherenciaAlEmpezar == Init => JInv
<1> SUFFICES ASSUME Init PROVE JInv OBVIOUS
<1>1. Traida
  <2>1. acceso.fase = "sin_pcb" BY DEF Init, Reposo
  <2> QED BY <2>1 DEF Traida
<1>2. Coherencia
  <2> SUFFICES ASSUME NEW d \in Mapeadas PROVE Coherente(cache, memoria_fisica, escrito, d)
    BY DEF Coherencia
  <2>1. MarcoDe[d] \in Marcos /\ d \in Direcciones BY SupuestoMemoria DEF Mapeadas
  <2>2. \A i \in DOMAIN cache : ~cache[i].ocupado BY DEF Init, inicializar_cache, Libre
  <2>3. memoria_fisica[MarcoDe[d]] = Ceros /\ escrito[d] = Ceros BY <2>1 DEF Init
  <2> QED BY <2>2, <2>3 DEF Coherente, Guarda
<1> QED BY <1>1, <1>2, AlEmpezar DEF JInv

(* A write in the copy of a page.                                           *)
LEMMA CoherenciaUsar ==
    ASSUME JInv, NEW pedida, pedida.pagina \in Paginas, Pid \in Pids,
           EnCache(cache, Pid, pedida.pagina), UsarEntrada(pedida),
           UNCHANGED <<memoria_fisica, perdidas>>
    PROVE  Coherencia'
<1> DEFINE i == Primera(cache, Pid, pedida.pagina)
           p == <<Pid, pedida.pagina>>
           n == config.entradas_cache
<1>1. /\ n \in Nat /\ cache \in [0..n - 1 -> Entradas] /\ DOMAIN cache = 0..n - 1 /\ SinRepetir(cache)
  BY Configurado DEF JInv, IInv, CacheBien, CacheBuena
<1>2. i \in 0..n - 1 /\ cache[i].ocupado /\ cache[i].pid = Pid /\ cache[i].pagina = pedida.pagina
  BY LaEntrada DEF JInv
<1>3. p \in Direcciones /\ p[1] = Pid /\ p[2] = pedida.pagina BY DEF Direcciones
<1>4. \A j \in 0..n - 1 : Guarda(cache[j], p) <=> j = i
  BY <1>1, <1>2, <1>3 DEF Guarda, SinRepetir, MismaPagina
<1>5. cache[i] \in Entradas /\ cache[i] # Libre BY <1>1, <1>2 DEF Libre
<1>6. CASE pedida.tipo = "WRITE"
  <2>1. /\ cache' = Escribir(cache, i, pedida.valor)
        /\ escrito' = Recordado([escrito EXCEPT ![p] = pedida.valor], perdidas)
    BY <1>6 DEF UsarEntrada
  <2> DEFINE x == [cache[i] EXCEPT !.contenido = pedida.valor, !.modificado = TRUE, !.usado = TRUE]
  <2>2. MismaCopia(x, cache[i]) /\ x.contenido = pedida.valor /\ x.modificado = TRUE
    BY <1>5 DEF Entradas, MismaCopia, MismaTraduccion, MismaPagina
  <2>3. Escribir(cache, i, pedida.valor) = [cache EXCEPT ![i] = x] BY <1>1, <1>2 DEF Escribir
  <2> HIDE DEF x, i, n, p
  <2>4. /\ DOMAIN cache' = 0..n - 1 /\ cache'[i] = x
        /\ \A j \in 0..n - 1 : j # i => cache'[j] = cache[j]
    BY <1>1, <1>2, <2>1, <2>3
  <2>5. ASSUME NEW d \in Mapeadas \ perdidas
        PROVE  Coherente(cache', memoria_fisica, escrito', d)
    <3>1. d \in Direcciones /\ escrito'[d] = [escrito EXCEPT ![p] = pedida.valor][d]
      BY <2>1, Recordada DEF Mapeadas
    <3>2. escrito \in [Direcciones -> Valores] BY DEF JInv, IInv, RestoBien
    <3>3. Coherente(cache, memoria_fisica, escrito, d) BY DEF JInv, Coherencia
    <3>4. CASE d = p
      <4>1. escrito'[d] = pedida.valor BY <1>3, <3>1, <3>2, <3>4
      <4>2. \A j \in 0..n - 1 : Guarda(cache'[j], d) => j = i
        BY <1>4, <2>4, <3>4 DEF Guarda
      <4>3. Guarda(cache'[i], d) /\ cache'[i].contenido = escrito'[d] /\ cache'[i].modificado
        BY <1>2, <1>4, <2>2, <2>4, <3>4, <4>1 DEF Guarda, MismaCopia, MismaTraduccion, MismaPagina
      <4> QED BY <1>2, <2>4, <4>2, <4>3 DEF Coherente
    <3>5. CASE d # p
      <4>1. escrito'[d] = escrito[d] BY <1>3, <3>1, <3>2, <3>5
      <4>2. ~Guarda(cache[i], d) /\ ~Guarda(cache'[i], d)
        <5>1. ~Guarda(cache[i], d)
          BY <1>2, <1>3, <3>1, <3>5, Direccion DEF Guarda
        <5> QED BY <5>1, <2>2, <2>4 DEF Guarda, MismaCopia, MismaTraduccion, MismaPagina
      <4> QED BY <1>1, <2>4, <3>3, <4>1, <4>2 DEF Coherente
    <3> QED BY <3>4, <3>5
  <2> QED BY <2>5 DEF Coherencia
<1>7. CASE pedida.tipo # "WRITE"
  <2>1. cache' = Usar(cache, i) /\ escrito' = escrito BY <1>7 DEF UsarEntrada
  <2>2. DOMAIN cache' = DOMAIN cache /\ \A j \in DOMAIN cache : MismoContenido(cache'[j], cache[j])
    BY <1>1, <1>2, <1>5, <2>1
    DEF Usar, Entradas, MismoContenido, MismaCopia, MismaTraduccion, MismaPagina
  <2> QED BY <2>1, <2>2, CoherenciaUsados DEF JInv
<1> QED BY <1>6, <1>7

----------------------------------------------------------------------------
(* Every step keeps the coherence.                                          *)
LEMMA SigueFinDeProceso == ASSUME JInv, FinDeProceso PROVE Coherencia'
<1> DEFINE n == config.entradas_cache
<1>1. n \in Nat /\ cache \in [0..n - 1 -> Entradas] /\ DOMAIN cache = 0..n - 1
  BY Configurado DEF JInv, IInv, CacheBien, CacheBuena
<1> HIDE DEF n
<1>2. /\ cache' = [i \in 0..n - 1 |-> IF cache[i].ocupado /\ cache[i].pid = Pid THEN Libre ELSE cache[i]]
      /\ perdidas' = perdidas \cup {<<Pid, cache[i].pagina>> :
                       i \in {j \in DOMAIN cache : cache[j].pid = Pid /\ cache[j].modificado}}
      /\ escrito' = Recordado(escrito, perdidas') /\ memoria_fisica' = memoria_fisica
  BY <1>1 DEF FinDeProceso, Desalojar
<1>3. ASSUME NEW d \in Mapeadas \ perdidas'
      PROVE  Coherente(cache', memoria_fisica, escrito', d)
  <2>1. d \in Direcciones /\ d \in Mapeadas \ perdidas /\ escrito'[d] = escrito[d]
    BY <1>2, Recordada DEF Mapeadas
  <2>2. Coherente(cache, memoria_fisica, escrito, d) BY <2>1 DEF JInv, Coherencia
  <2>3. ~Libre.ocupado BY DEF Libre
  <2>4. \A i \in 0..n - 1 : Guarda(cache'[i], d) => cache'[i] = cache[i] BY <1>2, <2>3 DEF Guarda
  <2>5. CASE d[1] = Pid
    <3>1. \A i \in 0..n - 1 : Guarda(cache[i], d) => ~cache[i].modificado
      <4> SUFFICES ASSUME NEW i \in 0..n - 1, Guarda(cache[i], d), cache[i].modificado PROVE FALSE
        OBVIOUS
      <4>1. d = <<Pid, cache[i].pagina>> /\ cache[i].pid = Pid
        BY <2>1, <2>5, Direccion DEF Guarda
      <4> QED BY <1>1, <1>2, <4>1
    <3>2. \A i \in 0..n - 1 : ~Guarda(cache'[i], d) BY <1>2, <2>3, <2>5 DEF Guarda
    <3> QED BY <1>1, <1>2, <2>1, <2>2, <3>1, <3>2 DEF Coherente
  <2>6. CASE d[1] # Pid
    <3>1. \A i \in 0..n - 1 : Guarda(cache[i], d) => cache'[i] = cache[i]
      BY <1>2, <2>6 DEF Guarda
    <3>2. \A i \in 0..n - 1 : Guarda(cache'[i], d) <=> Guarda(cache[i], d) BY <2>4, <3>1
    <3>3. DOMAIN cache' = 0..n - 1 BY <1>2
    <3> QED BY <1>1, <2>1, <2>2, <2>4, <3>2, <3>3 DEF Coherente
  <2> QED BY <2>5, <2>6
<1> QED BY <1>2, <1>3 DEF Coherencia

LEMMA SigueEjecutar == ASSUME JInv, Ejecutar PROVE Coherencia'
<1>1. PICK pedida \in Instrucciones :
          AccesoEnCache(pedida) \/ AccesoFueraDeLimites(pedida) \/ AccesoSinCache(pedida)
  BY DEF Ejecutar
<1>2. pedida.pagina \in Paginas BY InstruccionBien
<1>3. Pid \in Pids /\ memoria_fisica' = memoria_fisica BY DEF Ejecutar, JInv, IInv, AccesoBien
<1>4. CASE AccesoEnCache(pedida)
  BY <1>2, <1>3, <1>4, CoherenciaUsar DEF AccesoEnCache
<1>5. CASE AccesoFueraDeLimites(pedida)
  <2> DEFINE i == Primera(cache, Pid, pedida.pagina)
             n == config.entradas_cache
  <2>1. EnCache(cache, Pid, pedida.pagina) /\ cache' = Usar(cache, i) /\ escrito' = escrito /\ perdidas' = perdidas
    BY <1>5 DEF AccesoFueraDeLimites
  <2>2. cache \in [0..n - 1 -> Entradas] /\ DOMAIN cache = 0..n - 1
    BY DEF JInv, IInv, CacheBien, CacheBuena
  <2>3. i \in 0..n - 1 /\ cache[i].ocupado BY <2>1, LaEntrada DEF JInv
  <2>4. cache[i] \in Entradas /\ cache[i] # Libre BY <2>2, <2>3 DEF Libre
  <2>5. MismoContenido([cache[i] EXCEPT !.usado = TRUE], cache[i])
    BY <2>4 DEF Entradas, MismoContenido, MismaCopia, MismaTraduccion, MismaPagina
  <2>6. \A x : MismoContenido(x, x) BY DEF MismoContenido, MismaCopia, MismaTraduccion, MismaPagina
  <2>7. cache' = [cache EXCEPT ![i] = [cache[i] EXCEPT !.usado = TRUE]] BY <2>1 DEF Usar
  <2> HIDE DEF i, n
  <2>8. DOMAIN cache' = DOMAIN cache /\ \A j \in DOMAIN cache : MismoContenido(cache'[j], cache[j])
    BY <2>2, <2>3, <2>5, <2>6, <2>7
  <2> QED BY <1>3, <2>1, <2>8, CoherenciaUsados DEF JInv
<1>6. CASE AccesoSinCache(pedida)
  BY <1>3, <1>6, CoherenciaIgual DEF AccesoSinCache, tablas, JInv
<1> QED BY <1>1, <1>4, <1>5, <1>6

(* A page that was not in the cache takes the place of one that does not     *)
(* need to be written back.                                                  *)
LEMMA CoherenciaCargar ==
    ASSUME NEW n \in Nat, NEW c \in [0..n - 1 -> Entradas], NEW m, NEW e, NEW v \in 0..n - 1,
           NEW pid \in Pids, NEW pagina \in Paginas, NEW marco, NEW contenido,
           NEW d \in Direcciones, Coherente(c, m, e, d),
           ~EnCache(c, pid, pagina), SinRepetir(c),
           d = <<pid, pagina>> => contenido = m[MarcoDe[d]],
           Guarda(c[v], d) => m[MarcoDe[d]] = e[d]
    PROVE  Coherente([c EXCEPT ![v] = Nueva(pid, pagina, marco, contenido)], m, e, d)
<1> DEFINE x == Nueva(pid, pagina, marco, contenido)
           q == [c EXCEPT ![v] = x]
<1>1. /\ x.ocupado /\ x.pid = pid /\ x.pagina = pagina /\ x.contenido = contenido /\ ~x.modificado
  BY DEF Nueva
<1> HIDE DEF x
<1>2. /\ DOMAIN c = 0..n - 1 /\ DOMAIN q = 0..n - 1 /\ q[v] = x
      /\ \A i \in 0..n - 1 : i # v => q[i] = c[i]
  OBVIOUS
<1> HIDE DEF q
<1>3. CASE d = <<pid, pagina>>
  <2>1. \A i \in 0..n - 1 : ~Guarda(c[i], d) BY <1>2, <1>3 DEF EnCache, Ocupan, Guarda
  <2>2. m[MarcoDe[d]] = e[d] /\ contenido = e[d] BY <1>2, <1>3, <2>1 DEF Coherente
  <2>3. \A i \in 0..n - 1 : Guarda(q[i], d) => i = v BY <1>2, <2>1
  <2> QED BY <1>1, <1>2, <2>2, <2>3 DEF Coherente, q, x
<1>4. CASE d # <<pid, pagina>>
  <2>1. ~Guarda(x, d) BY <1>1, <1>4, Direccion DEF Guarda
  <2>2. \A i \in 0..n - 1 : Guarda(q[i], d) => i # v /\ q[i] = c[i] BY <1>2, <2>1
  <2>3. CASE Guarda(c[v], d)
    <3>1. m[MarcoDe[d]] = e[d] BY <2>3
    <3> QED BY <1>2, <2>2, <3>1 DEF Coherente, q, x
  <2>4. CASE ~Guarda(c[v], d)
    <3>1. \A i \in 0..n - 1 : Guarda(c[i], d) => i # v /\ q[i] = c[i] BY <1>2, <2>4
    <3> QED BY <1>2, <2>2, <3>1 DEF Coherente, q, x
  <2> QED BY <2>3, <2>4
<1> QED BY <1>3, <1>4

LEMMA SigueRecibirPagina == ASSUME JInv, RecibirPagina PROVE Coherencia' /\ Traida'
<1> DEFINE n == config.entradas_cache
           e == elegir_entrada(cache, puntero_clock, config.reemplazo_cache)
           contenido == LeerPagina(Pid, Pagina)
<1>1. /\ acceso.fase = "pagina" /\ memoria_fisica' = memoria_fisica /\ pcb_en_ejecucion' = pcb_en_ejecucion
      /\ escrito' = escrito /\ perdidas' = perdidas
  BY DEF RecibirPagina, historia
<1>2. IF e.cache[e.victima].modificado
      THEN /\ cache' = e.cache
           /\ acceso' = [acceso EXCEPT !.fase = "desalojo", !.contenido = contenido,
                                       !.victima = e.victima]
      ELSE /\ cache' = Cargar(e.cache, e.victima, contenido)
           /\ acceso' = [acceso EXCEPT !.fase = "acceso"]
  BY DEF RecibirPagina
<1>3. /\ n \in Nat /\ n > 0 /\ CacheBuena(cache, n, terminados)
      /\ EleccionBuena(e, cache, n)
      /\ e.cache \in [0..n - 1 -> Entradas]
      /\ CacheBuena(e.cache, n, terminados)
      /\ \A p, q : EnCache(e.cache, p, q) <=> EnCache(cache, p, q)
      /\ \A i \in 0..n - 1 : /\ MismaCopia(e.cache[i], cache[i])
                             /\ e.cache[i].modificado = cache[i].modificado
                             /\ e.cache[i].contenido = cache[i].contenido
  BY <1>1, EleccionDePagina DEF JInv
<1>4. /\ acceso \in Accesos /\ Pid \in Pids /\ Pagina \in Paginas /\ ~EnCache(cache, Pid, Pagina)
  BY <1>1 DEF JInv, IInv, AccesoBien, EnMarcha
<1>5. e.victima \in 0..n - 1 BY <1>3 DEF EleccionBuena
<1>6. contenido = memoria_fisica[MarcoDe[EnCurso]] BY DEF LeerPagina, EnCurso
<1>7. SinRepetir(e.cache) /\ DOMAIN cache = 0..n - 1 /\ DOMAIN e.cache = 0..n - 1
  BY <1>3 DEF CacheBuena
<1> HIDE DEF n, e, contenido
<1>8. \A d \in Mapeadas \ perdidas : Coherente(e.cache, memoria_fisica, escrito, d)
  BY <1>3, <1>7
  DEF JInv, Coherencia, Coherente, Guarda, MismaCopia, MismaTraduccion, MismaPagina
<1>9. CASE e.cache[e.victima].modificado
  <2>1. /\ cache' = e.cache
        /\ acceso' = [acceso EXCEPT !.fase = "desalojo", !.contenido = contenido, !.victima = e.victima]
    BY <1>2, <1>9
  <2>2. acceso'.contenido = contenido /\ acceso'.pagina = acceso.pagina
    <3>1. \A x \in Accesos : \A u, v :
             LET y == [x EXCEPT !.fase = "desalojo", !.contenido = u, !.victima = v]
             IN  y.contenido = u /\ y.pagina = x.pagina
      BY DEF Accesos
    <3> QED BY <1>4, <2>1, <3>1
  <2>3. Traida' BY <1>1, <1>6, <2>2 DEF Traida, EnCurso, Pid, Pagina
  <2>4. Coherencia' BY <1>1, <1>8, <2>1 DEF Coherencia
  <2> QED BY <2>3, <2>4
<1>10. CASE ~e.cache[e.victima].modificado
  <2>1. /\ cache' = [e.cache EXCEPT ![e.victima] = Nueva(Pid, Pagina, acceso.marco, contenido)]
        /\ acceso' = [acceso EXCEPT !.fase = "acceso"]
    BY <1>2, <1>10 DEF Cargar
  <2>2. Traida' BY <1>4, <2>1 DEF Traida, Accesos
  <2>3. ASSUME NEW d \in Mapeadas \ perdidas
        PROVE  Coherente(cache', memoria_fisica, escrito, d)
    <3>1. Coherente(e.cache, memoria_fisica, escrito, d) /\ d \in Direcciones BY <1>8 DEF Mapeadas
    <3>2. Guarda(e.cache[e.victima], d) => memoria_fisica[MarcoDe[d]] = escrito[d]
      <4> SUFFICES ASSUME Guarda(e.cache[e.victima], d)
                   PROVE  \A i \in 0..n - 1 : Guarda(e.cache[i], d) => i = e.victima
        BY <1>5, <1>7, <1>10, <3>1 DEF Coherente
      <4> QED BY <1>5, <1>7 DEF Guarda, SinRepetir, MismaPagina
    <3>3. ~EnCache(e.cache, Pid, Pagina) BY <1>3, <1>4
    <3>4. d = <<Pid, Pagina>> => contenido = memoria_fisica[MarcoDe[d]] BY <1>6 DEF EnCurso
    <3> QED BY <1>3, <1>4, <1>5, <1>7, <2>1, <3>1, <3>2, <3>3, <3>4, CoherenciaCargar
  <2>4. Coherencia' BY <1>1, <2>1, <2>3 DEF Coherencia
  <2> QED BY <2>2, <2>4
<1> QED BY <1>9, <1>10

LEMMA SigueDesalojo == ASSUME JInv, Desalojo PROVE Coherencia'
<1> DEFINE n == config.entradas_cache
           i == acceso.victima
           w == <<cache[i].pid, cache[i].pagina>>
<1>1. /\ acceso.fase = "desalojo"
      /\ cache' = [cache EXCEPT ![i] = Nueva(Pid, Pagina, acceso.marco, acceso.contenido)]
  BY DEF Desalojo, Cargar
<1>2. /\ n \in Nat /\ CacheBuena(cache, n, terminados) /\ i \in DOMAIN cache /\ cache[i].ocupado
      /\ Pid \in Pids /\ Pagina \in Paginas /\ ~EnCache(cache, Pid, Pagina)
      /\ acceso.contenido = memoria_fisica[MarcoDe[EnCurso]]
  BY <1>1, Configurado DEF JInv, IInv, AccesoBien, EnMarcha, CacheBien, Traida
<1>3. /\ cache \in [0..n - 1 -> Entradas] /\ i \in 0..n - 1 /\ DOMAIN cache = 0..n - 1 /\ SinRepetir(cache)
      /\ cache[i].marco = MarcoDe[w]
  BY <1>2 DEF CacheBuena
<1>4. cache[i] \in Entradas /\ cache[i] # Libre BY <1>2, <1>3 DEF Libre
<1>5. w \in Direcciones /\ w[1] = cache[i].pid /\ w[2] = cache[i].pagina /\ cache[i].marco \in Marcos
  BY <1>4 DEF Entradas, Direcciones
<1>6. Guarda(cache[i], w) BY <1>2, <1>5 DEF Guarda
<1>7. w # EnCurso BY <1>2, <1>3, <1>5, <1>6 DEF Guarda, EnCache, Ocupan, EnCurso
<1> HIDE DEF n, w
<1>8. ASSUME NEW d \in Direcciones, d # w PROVE ~Guarda(cache[i], d)
  BY <1>5, <1>8, Direccion DEF Guarda
<1>9. CASE EscribirMarcos({cache[i].marco}, cache[i].contenido) /\ UNCHANGED <<escrito, perdidas>>
  <2>1. memoria_fisica' = [m \in Marcos |-> IF m = MarcoDe[w] THEN cache[i].contenido ELSE memoria_fisica[m]]
    BY <1>3, <1>9 DEF EscribirMarcos
  <2>2. \A d \in Mapeadas : d # w => memoria_fisica'[MarcoDe[d]] = memoria_fisica[MarcoDe[d]]
    <3> SUFFICES ASSUME NEW d \in Mapeadas, d # w
                 PROVE  memoria_fisica'[MarcoDe[d]] = memoria_fisica[MarcoDe[d]]
      OBVIOUS
    <3>1. MarcoDe[d] # MarcoDe[w] BY <1>5, MarcoPropio
    <3>2. MarcoDe[d] \in Marcos BY SupuestoMemoria DEF Mapeadas
    <3> QED BY <2>1, <3>1, <3>2
  <2>3. memoria_fisica'[MarcoDe[w]] = cache[i].contenido BY <1>3, <1>5, <2>1
  <2>4. ASSUME NEW d \in Mapeadas \ perdidas
        PROVE  Coherente(cache', memoria_fisica', escrito, d)
    <3>1. Coherente(cache, memoria_fisica, escrito, d) /\ d \in Direcciones
      BY DEF JInv, Coherencia, Mapeadas
    <3>2. Coherente(cache, memoria_fisica', escrito, d) /\ (d = w => memoria_fisica'[MarcoDe[d]] = escrito[d])
      <4>1. CASE d = w
        <5>1. cache[i].contenido = escrito[d] BY <1>3, <1>6, <3>1, <4>1 DEF Coherente
        <5> QED BY <2>3, <3>1, <4>1, <5>1 DEF Coherente
      <4>2. CASE d # w BY <2>2, <3>1, <4>2 DEF Coherente
      <4> QED BY <4>1, <4>2
    <3>3. Guarda(cache[i], d) => memoria_fisica'[MarcoDe[d]] = escrito[d] BY <1>8, <3>1, <3>2
    <3>4. d = <<Pid, Pagina>> => acceso.contenido = memoria_fisica'[MarcoDe[d]]
      <4> SUFFICES ASSUME d = <<Pid, Pagina>> PROVE acceso.contenido = memoria_fisica'[MarcoDe[d]]
        OBVIOUS
      <4>1. d = EnCurso /\ d # w /\ d \in Mapeadas BY <1>7 DEF EnCurso
      <4> QED BY <1>2, <2>2, <4>1
    <3> QED BY <1>1, <1>2, <1>3, <3>1, <3>2, <3>3, <3>4, CoherenciaCargar
  <2> QED BY <1>9, <2>4 DEF Coherencia
<1>10. CASE /\ perdidas' = perdidas \cup {w}
            /\ escrito' = Recordado(escrito, perdidas') /\ UNCHANGED memoria_fisica
  <2>1. ASSUME NEW d \in Mapeadas \ perdidas'
        PROVE  Coherente(cache', memoria_fisica, escrito', d)
    <3>1. d \in Direcciones /\ d \in Mapeadas \ perdidas /\ d # w /\ escrito'[d] = escrito[d]
      BY <1>10, Recordada DEF Mapeadas
    <3>2. Coherente(cache, memoria_fisica, escrito', d) BY <3>1 DEF JInv, Coherencia, Coherente
    <3>3. ~Guarda(cache[i], d) BY <1>8, <3>1
    <3>4. d = <<Pid, Pagina>> => acceso.contenido = memoria_fisica[MarcoDe[d]] BY <1>2 DEF EnCurso
    <3> QED BY <1>1, <1>2, <1>3, <3>1, <3>2, <3>3, <3>4, CoherenciaCargar
  <2> QED BY <1>10, <2>1 DEF Coherencia
<1> QED BY <1>9, <1>10 DEF Desalojo, w

LEMMA SigueAccederEnMemoria == ASSUME JInv, AccederEnMemoria PROVE Coherencia'
<1> DEFINE siguiente == IF acceso.cabe THEN {} ELSE {acceso.marco + 1} \cap Marcos
<1>1. acceso.fase = "acceso" /\ cache' = cache BY DEF AccederEnMemoria, tablas
<1>2. /\ Pid \in Pids /\ Pagina \in Paginas /\ acceso.marco \in Marcos /\ acceso.marco = MarcoDe[EnCurso]
  BY <1>1 DEF JInv, IInv, AccesoBien, EnMarcha
<1>3. EnCurso \in Direcciones /\ EnCurso[1] = Pid /\ EnCurso[2] = Pagina BY <1>2 DEF EnCurso, Direcciones
<1>4. escrito \in [Direcciones -> Valores] BY DEF JInv, IInv, RestoBien
<1>5. CASE UNCHANGED <<memoria_fisica, escrito, perdidas>>
  BY <1>1, <1>5, CoherenciaIgual DEF JInv
<1>6. CASE /\ \E marcos \in {{acceso.marco}, {acceso.marco} \cup siguiente} :
                 EscribirMarcos(marcos, acceso.valor)
           /\ perdidas' = perdidas \cup Duenos(siguiente)
                         \cup (IF EnCache(cache, Pid, Pagina) THEN {EnCurso} ELSE {})
           /\ escrito' = Recordado([escrito EXCEPT ![EnCurso] = acceso.valor], perdidas')
  <2> HIDE DEF siguiente
  <2>1. PICK marcos \in {{acceso.marco}, {acceso.marco} \cup siguiente} :
            memoria_fisica' = [m \in Marcos |-> IF m \in marcos THEN acceso.valor ELSE memoria_fisica[m]]
    BY <1>6 DEF EscribirMarcos
  <2>2. ASSUME NEW d \in Mapeadas \ perdidas'
        PROVE  Coherente(cache, memoria_fisica', escrito', d)
    <3>1. /\ d \in Direcciones /\ d \in Mapeadas \ perdidas /\ MarcoDe[d] \in Marcos
          /\ escrito'[d] = [escrito EXCEPT ![EnCurso] = acceso.valor][d]
      <4>1. d \in Direcciones /\ d \in Mapeadas \ perdidas /\ MarcoDe[d] \in Marcos
        BY <1>6, SupuestoMemoria DEF Mapeadas
      <4> DEFINE f == [escrito EXCEPT ![EnCurso] = acceso.valor]
      <4>2. escrito' = Recordado(f, perdidas') BY <1>6
      <4> HIDE DEF f
      <4>3. escrito'[d] = f[d] BY <4>1, <4>2, Recordada
      <4> QED BY <4>1, <4>3 DEF f
    <3>2. MarcoDe[d] \notin siguiente BY <1>6, <3>1 DEF Duenos
    <3>3. Coherente(cache, memoria_fisica, escrito, d) BY <3>1 DEF JInv, Coherencia
    <3>4. CASE d = EnCurso
      <4>1. ~EnCache(cache, Pid, Pagina) BY <1>6, <3>4
      <4>2. \A i \in DOMAIN cache : ~Guarda(cache[i], d)
        BY <1>3, <3>4, <4>1 DEF EnCache, Ocupan, Guarda
      <4>3. escrito'[d] = acceso.valor BY <1>3, <1>4, <3>1, <3>4
      <4>4. memoria_fisica'[MarcoDe[d]] = acceso.valor BY <1>2, <2>1, <3>1, <3>4
      <4> QED BY <4>2, <4>3, <4>4 DEF Coherente
    <3>5. CASE d # EnCurso
      <4>1. escrito'[d] = escrito[d] BY <1>4, <3>1, <3>5
      <4>2. MarcoDe[d] # acceso.marco BY <1>2, <1>3, <3>1, <3>5, MarcoPropio
      <4>3. memoria_fisica'[MarcoDe[d]] = memoria_fisica[MarcoDe[d]] BY <2>1, <3>1, <3>2, <4>2
      <4> QED BY <3>3, <4>1, <4>3 DEF Coherente
    <3> QED BY <3>4, <3>5
  <2> QED BY <1>1, <2>2 DEF Coherencia
<1> QED BY <1>5, <1>6 DEF AccederEnMemoria, EnCurso

LEMMA SigueCoherencia == ASSUME EntradasDistintas PROVE JInv /\ [Next]_vars => JInv'
<1> SUFFICES ASSUME JInv, [Next]_vars PROVE JInv' OBVIOUS
<1>1. IInv' BY CadaPaso DEF JInv
<1>2. acceso \in Accesos BY DEF JInv, IInv, AccesoBien
<1> DEFINE Mas == Coherencia' /\ Traida'
<1>3. CASE RecibirPcb \/ DevolverPcb \/ ConsultarTlb \/ RecibirMarco \/ PaginaNoLlega \/ Tic \/ UNCHANGED vars
  <2>1. UNCHANGED <<cache, memoria_fisica, escrito, perdidas>>
    BY <1>3 DEF RecibirPcb, DevolverPcb, ConsultarTlb, RecibirMarco, PaginaNoLlega, Tic, vars, tablas, historia
  <2>2. Coherencia' BY <2>1, CoherenciaIgual DEF JInv
  <2>3. acceso'.fase = "desalojo" => acceso' = acceso /\ Pid' = Pid
    <3>1. CASE RecibirPcb \/ DevolverPcb BY <3>1 DEF RecibirPcb, DevolverPcb, Reposo
    <3>2. CASE ConsultarTlb \/ RecibirMarco
      <4>1. \A m : Traducida(m).fase \in {"pagina", "acceso"} BY <1>2 DEF Traducida, Accesos
      <4>2. [acceso EXCEPT !.fase = "tabla"].fase = "tabla" BY <1>2 DEF Accesos
      <4>3. Reposo.fase = "libre" BY DEF Reposo
      <4> QED BY <3>2, <4>1, <4>2, <4>3 DEF ConsultarTlb, RecibirMarco
    <3>3. CASE PaginaNoLlega
      <4>1. acceso'.fase = "acceso" BY <1>2, <3>3 DEF PaginaNoLlega, Accesos
      <4> QED BY <4>1
    <3>4. CASE Tic \/ UNCHANGED vars BY <3>4 DEF Tic, vars, Pid
    <3> QED BY <1>3, <3>1, <3>2, <3>3, <3>4
  <2>4. Traida' BY <2>1, <2>3 DEF JInv, Traida, EnCurso, Pagina, Pid
  <2> QED BY <1>1, <2>2, <2>4 DEF JInv
<1>4. CASE FinDeProceso
  <2>1. acceso'.fase = "sin_pcb" BY <1>4 DEF FinDeProceso, Reposo
  <2> QED BY <1>1, <1>4, <2>1, SigueFinDeProceso DEF JInv, Traida
<1>5. CASE Ejecutar
  <2>1. acceso'.fase # "desalojo"
    <3>1. PICK pedida \in Instrucciones :
              AccesoEnCache(pedida) \/ AccesoFueraDeLimites(pedida) \/ AccesoSinCache(pedida)
      BY <1>5 DEF Ejecutar
    <3>2. pedida \in Accesos BY InstruccionBien
    <3>3. \A m : [pedida EXCEPT !.fase = "acceso", !.marco = m].fase = "acceso" BY <3>2 DEF Accesos
    <3>4. [pedida EXCEPT !.fase = "tlb"].fase = "tlb" BY <3>2 DEF Accesos
    <3>5. acceso.fase = "libre" BY <1>5 DEF Ejecutar
    <3> QED BY <3>1, <3>3, <3>4, <3>5 DEF AccesoEnCache, AccesoFueraDeLimites, AccesoSinCache
  <2> QED BY <1>1, <1>5, <2>1, SigueEjecutar DEF JInv, Traida
<1>6. CASE RecibirPagina BY <1>1, <1>6, SigueRecibirPagina DEF JInv
<1>7. CASE Desalojo
  <2>1. acceso'.fase = "acceso" BY <1>2, <1>7 DEF Desalojo, Accesos
  <2> QED BY <1>1, <1>7, <2>1, SigueDesalojo DEF JInv, Traida
<1>8. CASE AccederEnCache
  <2>1. acceso'.fase = "libre" BY <1>8 DEF AccederEnCache, Reposo
  <2>2. Pid \in Pids /\ Pagina \in Paginas BY <1>8 DEF AccederEnCache, JInv, IInv, AccesoBien, EnMarcha
  <2>3. Coherencia' BY <1>8, <2>2, CoherenciaUsar DEF AccederEnCache, Pagina
  <2> QED BY <1>1, <2>1, <2>3 DEF JInv, Traida
<1>9. CASE AccederEnMemoria
  <2>1. acceso'.fase = "libre" BY <1>9 DEF AccederEnMemoria, Reposo
  <2> QED BY <1>1, <1>9, <2>1, SigueAccederEnMemoria DEF JInv, Traida
<1> QED BY <1>3, <1>4, <1>5, <1>6, <1>7, <1>8, <1>9 DEF Next

THEOREM CoherenciaSiempre == ASSUME EntradasDistintas PROVE Spec => []JInv
<1>1. Init => JInv BY CoherenciaAlEmpezar
<1>2. JInv /\ [Next]_vars => JInv' BY SigueCoherencia
<1> QED BY <1>1, <1>2, PTL DEF Spec

(* A page that was not lost shows the last write made in it, through any    *)
(* loads, evictions, write-backs and changes of process, for any tables.    *)
THEOREM NadaSePierdeSiempre == ASSUME EntradasDistintas PROVE Spec => []NadaSePierde
<1>1. JInv => NadaSePierde BY SeVe DEF NadaSePierde
<1> QED BY <1>1, CoherenciaSiempre, PTL

----------------------------------------------------------------------------
(* The clocks.                                                              *)

(* Only loading a page moves the phase away from "pagina".                   *)
LEMMA DesdePagina ==
    ASSUME Next, acceso.fase = "pagina"
    PROVE  RecibirPagina \/ PaginaNoLlega \/ Tic
BY DEF Next, RecibirPcb, DevolverPcb, FinDeProceso, Ejecutar, ConsultarTlb, RecibirMarco, Desalojo,
       AccederEnCache, AccederEnMemoria

(* What RecibirPagina does with the entry it chose.                          *)
LEMMA VictimaDePagina ==
    ASSUME IInv, RecibirPagina
    PROVE  LET n == config.entradas_cache
               v == elegir_entrada(cache, puntero_clock, config.reemplazo_cache).victima
           IN  /\ DOMAIN cache = 0..n - 1 /\ v \in 0..n - 1
               /\ (config.reemplazo_cache # "CLOCK-M" /\ cache[v].ocupado /\ cache[v].usado
                     => \A i \in 0..n - 1 : cache[i].usado)
               /\ (config.reemplazo_cache = "CLOCK-M" /\ cache[v].modificado
                     => \A i \in 0..n - 1 : cache[i].modificado)
               /\ acceso'.fase = "desalojo" => acceso'.victima = v /\ cache[v].modificado
               /\ \A i \in 0..n - 1 : i # v => cache'[i].pid = cache[i].pid /\ cache'[i].pagina = cache[i].pagina
               /\ acceso'.fase = "desalojo" =>
                     cache'[v].pid = cache[v].pid /\ cache'[v].pagina = cache[v].pagina
<1> DEFINE n == config.entradas_cache
           e == elegir_entrada(cache, puntero_clock, config.reemplazo_cache)
           contenido == LeerPagina(Pid, Pagina)
<1>0. acceso.fase = "pagina" /\ acceso \in Accesos BY DEF RecibirPagina, IInv, AccesoBien
<1>1. IF e.cache[e.victima].modificado
      THEN /\ cache' = e.cache
           /\ acceso' = [acceso EXCEPT !.fase = "desalojo", !.contenido = contenido,
                                       !.victima = e.victima]
      ELSE /\ cache' = Cargar(e.cache, e.victima, contenido)
           /\ acceso' = [acceso EXCEPT !.fase = "acceso"]
  BY DEF RecibirPagina
<1>2. /\ n \in Nat /\ n > 0 /\ CacheBuena(cache, n, terminados)
      /\ EleccionBuena(e, cache, n)
      /\ e.cache \in [0..n - 1 -> Entradas]
      /\ \A i \in 0..n - 1 : /\ MismaCopia(e.cache[i], cache[i])
                             /\ e.cache[i].modificado = cache[i].modificado
  BY <1>0, EleccionDePagina
<1>3. /\ cache \in [0..n - 1 -> Entradas] /\ DOMAIN cache = 0..n - 1 /\ DOMAIN e.cache = 0..n - 1
      /\ e.victima \in 0..n - 1 /\ puntero_clock \in 0..n
  BY <1>2 DEF CacheBuena, EleccionBuena, IInv, RestoBien
<1> HIDE DEF n
<1>4. /\ (config.reemplazo_cache # "CLOCK-M" /\ cache[e.victima].ocupado /\ cache[e.victima].usado
            => \A i \in 0..n - 1 : cache[i].usado)
      /\ (config.reemplazo_cache = "CLOCK-M" /\ cache[e.victima].modificado
            => \A i \in 0..n - 1 : cache[i].modificado)
  BY <1>2, <1>3, EligeEntrada
<1> HIDE DEF e, contenido
<1>5. \A i \in 0..n - 1 : e.cache[i].pid = cache[i].pid /\ e.cache[i].pagina = cache[i].pagina
  BY <1>2 DEF MismaCopia, MismaTraduccion, MismaPagina
<1>6. CASE e.cache[e.victima].modificado
  <2>1. /\ cache' = e.cache
        /\ acceso' = [acceso EXCEPT !.fase = "desalojo", !.contenido = contenido, !.victima = e.victima]
    BY <1>1, <1>6
  <2>2. acceso'.victima = e.victima
    <3>1. \A x \in Accesos : \A u, v :
             [x EXCEPT !.fase = "desalojo", !.contenido = u, !.victima = v].victima = v
      BY DEF Accesos
    <3> QED BY <1>0, <2>1, <3>1
  <2>3. cache[e.victima].modificado BY <1>2, <1>3, <1>6
  <2> QED BY <1>3, <1>4, <1>5, <2>1, <2>2, <2>3 DEF n, e
<1>7. CASE ~e.cache[e.victima].modificado
  <2>1. /\ cache' = [e.cache EXCEPT ![e.victima] = Nueva(Pid, Pagina, acceso.marco, contenido)]
        /\ acceso' = [acceso EXCEPT !.fase = "acceso"]
    BY <1>1, <1>7 DEF Cargar
  <2>2. acceso'.fase = "acceso" BY <1>0, <2>1 DEF Accesos
  <2>3. \A i \in 0..n - 1 : i # e.victima => cache'[i] = e.cache[i] BY <1>3, <2>1
  <2> QED BY <1>3, <1>4, <1>5, <2>2, <2>3 DEF n, e
<1> QED BY <1>6, <1>7

(* CLOCK-M writes a page back only when every page was modified.            *)
THEOREM ClockMSiempre == ASSUME EntradasDistintas PROVE Spec => ClockMProtegeModificadas
<1>1. ASSUME IInv, [Next]_vars, acceso.fase = "pagina", acceso'.fase = "desalojo",
             config.reemplazo_cache = "CLOCK-M"
      PROVE  \A i \in DOMAIN cache : cache[i].modificado
  <2>1. CASE RecibirPagina BY <1>1, <2>1, VictimaDePagina
  <2>2. CASE PaginaNoLlega \/ Tic \/ UNCHANGED vars
    <3>1. acceso \in Accesos BY <1>1 DEF IInv, AccesoBien
    <3>2. PaginaNoLlega => acceso'.fase = "acceso" BY <3>1 DEF PaginaNoLlega, Accesos
    <3>3. Tic \/ UNCHANGED vars => acceso' = acceso BY DEF Tic, vars
    <3> QED BY <1>1, <2>2, <3>2, <3>3
  <2> QED BY <1>1, <2>1, <2>2, DesdePagina
<1>2. IInv /\ [Next]_vars =>
        [ (/\ acceso.fase = "pagina" /\ acceso'.fase = "desalojo"
           /\ config.reemplazo_cache = "CLOCK-M")
          => \A i \in DOMAIN cache : cache[i].modificado ]_vars
  BY <1>1
<1> QED BY <1>2, Inductivo, PTL DEF Spec, ClockMProtegeModificadas

(* CLOCK takes a page in use only when all are.                              *)
THEOREM ClockSiempre == ASSUME EntradasDistintas PROVE Spec => ClockSegundaOportunidad
<1>1. ASSUME IInv, [Next]_vars, acceso.fase = "pagina", config.reemplazo_cache = "CLOCK",
             NEW i \in DOMAIN cache, cache[i].ocupado, cache[i].usado,
             \/ <<cache'[i].pid, cache'[i].pagina>> # <<cache[i].pid, cache[i].pagina>>
             \/ acceso'.fase = "desalojo" /\ acceso'.victima = i
      PROVE  \A j \in DOMAIN cache : cache[j].usado
  <2>1. CASE RecibirPagina
    <3> DEFINE v == elegir_entrada(cache, puntero_clock, config.reemplazo_cache).victima
    <3>1. i = v BY <1>1, <2>1, VictimaDePagina
    <3> QED BY <1>1, <2>1, <3>1, VictimaDePagina
  <2>2. CASE PaginaNoLlega \/ Tic \/ UNCHANGED vars
    <3>1. acceso \in Accesos BY <1>1 DEF IInv, AccesoBien
    <3>2. PaginaNoLlega => acceso'.fase = "acceso" BY <3>1 DEF PaginaNoLlega, Accesos
    <3>3. Tic \/ UNCHANGED vars => acceso' = acceso BY DEF Tic, vars
    <3>4. cache' = cache BY <2>2 DEF PaginaNoLlega, Tic, vars, tablas
    <3> QED BY <1>1, <2>2, <3>2, <3>3, <3>4
  <2> QED BY <1>1, <2>1, <2>2, DesdePagina
<1>2. IInv /\ [Next]_vars =>
        [ (acceso.fase = "pagina" /\ config.reemplazo_cache = "CLOCK" /\ ConCache)
          => \A i \in DOMAIN cache :
                (/\ cache[i].ocupado /\ cache[i].usado
                 /\ \/ <<cache'[i].pid, cache'[i].pagina>> # <<cache[i].pid, cache[i].pagina>>
                    \/ acceso'.fase = "desalojo" /\ acceso'.victima = i)
                => \A j \in DOMAIN cache : cache[j].usado ]_vars
  BY <1>1
<1> QED BY <1>2, Inductivo, PTL DEF Spec, ClockSegundaOportunidad

----------------------------------------------------------------------------
(* The order of the TLB.                                                    *)

(* The entries made since contador_orden was last put back to 0 have orders *)
(* below it, which grow along the list; of the older ones nothing is known: *)
(* the counter may have caught up with them.                                *)
EsReciente(e, R) == <<e.pid, e.pagina>> \in R
Ordenada(s, R, c) ==
    /\ \A i \in 1..Len(s) : EsReciente(s[i], R) => s[i].orden_insercion < c
    /\ \A i, j \in 1..Len(s) : i < j /\ EsReciente(s[i], R) /\ EsReciente(s[j], R) =>
          s[i].orden_insercion < s[j].orden_insercion
\* The page that the page table is asked for has no entry yet.
FaltaEnTlb == acceso.fase = "tabla" => Posiciones(tlb, Pid, Pagina) = {}
OrdenBien  == Ordenada(tlb, recientes, contador_orden) /\ FaltaEnTlb

(* Taking entries out leaves the rest in order.                             *)
LEMMA OrdenAlQuitar ==
    ASSUME NEW S, NEW s \in Seq(S), NEW r \in Seq(S), Tomada(r, s), NEW R, NEW c, Ordenada(s, R, c)
    PROVE  Ordenada(r, R, c)
<1>1. DOMAIN s = 1..Len(s) /\ DOMAIN r = 1..Len(r) BY LenProperties
<1>2. PICK f \in [DOMAIN r -> DOMAIN s] :
          /\ \A a, b \in DOMAIN r : a < b => f[a] < f[b]
          /\ \A k \in DOMAIN r : r[k] = s[f[k]]
  BY DEF Tomada
<1>3. \A k \in 1..Len(r) : f[k] \in 1..Len(s) /\ r[k] = s[f[k]] BY <1>1, <1>2
<1>4. \A a, b \in 1..Len(r) : a < b => f[a] < f[b] BY <1>1, <1>2
<1> QED BY <1>3, <1>4 DEF Ordenada

(* So does a new time, which touches neither page nor order.                *)
LEMMA OrdenAlRefrescar ==
    ASSUME NEW P, NEW G, NEW M, NEW T \in SUBSET Nat, NEW s \in Seq(EntradasTlb(P, G, M, T)),
           NEW pid, NEW pagina, NEW ahora \in T, NEW R, NEW c, Ordenada(s, R, c)
    PROVE  Ordenada(RefrescarPrimera(s, pid, pagina, ahora), R, c)
<1> DEFINE r == RefrescarPrimera(s, pid, pagina, ahora)
           E == EntradasTlb(P, G, M, T)
<1>1. DOMAIN s = 1..Len(s) /\ \A i \in 1..Len(s) : s[i] \in E BY LenProperties, ElementOfSeq
<1>2. \A i \in 1..Len(s) : r[i] = s[i] \/ r[i] = [s[i] EXCEPT !.timestamp = ahora]
  BY <1>1 DEF RefrescarPrimera
<1>3. \A e \in E : LET x == [e EXCEPT !.timestamp = ahora] IN
          x.pid = e.pid /\ x.pagina = e.pagina /\ x.orden_insercion = e.orden_insercion
  BY DEF EntradasTlb
<1>4. \A i \in 1..Len(s) : /\ r[i].pid = s[i].pid /\ r[i].pagina = s[i].pagina
                           /\ r[i].orden_insercion = s[i].orden_insercion
  BY <1>1, <1>2, <1>3
<1>5. Len(r) = Len(s) BY RefrescaSinTraducir
<1> HIDE DEF r, E
<1>6. Ordenada(r, R, c) BY <1>4, <1>5 DEF Ordenada, EsReciente
<1> QED BY <1>6 DEF r

(* A new entry goes last, with the greatest order so far.                   *)
LEMMA OrdenAlAgregar ==
    ASSUME NEW S, NEW s \in Seq(S), NEW e \in S, NEW R, NEW c \in Nat, Ordenada(s, R, c),
           \A k \in 1..Len(s) : s[k].orden_insercion \in Nat,
           \A k \in 1..Len(s) : ~EsDe(s[k], e.pid, e.pagina),
           e.orden_insercion = c
    PROVE  Ordenada(Append(s, e), R \cup {<<e.pid, e.pagina>>}, c + 1)
<1> DEFINE r == Append(s, e)
           X == R \cup {<<e.pid, e.pagina>>}
<1>1. /\ Len(r) = Len(s) + 1 /\ Len(s) \in Nat
      /\ r[Len(s) + 1] = e /\ \A k \in 1..Len(s) : r[k] = s[k]
  BY AppendProperties, LenProperties
<1>2. \A k \in 1..Len(s) : EsReciente(s[k], X) => EsReciente(s[k], R)
  BY DEF EsReciente, EsDe
<1> HIDE DEF r, X
<1>3. ASSUME NEW i \in 1..Len(r), EsReciente(r[i], X) PROVE r[i].orden_insercion < c + 1
  <2>1. CASE i = Len(s) + 1 BY <1>1, <2>1
  <2>2. CASE i \in 1..Len(s)
    <3>1. s[i].orden_insercion < c /\ s[i].orden_insercion \in Nat
      BY <1>1, <1>2, <1>3, <2>2 DEF Ordenada
    <3> QED BY <1>1, <2>2, <3>1
  <2> QED BY <1>1, <2>1, <2>2
<1>4. ASSUME NEW i \in 1..Len(r), NEW j \in 1..Len(r), i < j, EsReciente(r[i], X), EsReciente(r[j], X)
      PROVE  r[i].orden_insercion < r[j].orden_insercion
  <2>1. i \in 1..Len(s) /\ EsReciente(s[i], R) BY <1>1, <1>2, <1>4
  <2>2. CASE j = Len(s) + 1 BY <1>1, <2>1, <2>2 DEF Ordenada
  <2>3. CASE j \in 1..Len(s) BY <1>1, <1>2, <1>4, <2>1, <2>3 DEF Ordenada
  <2> QED BY <1>1, <2>2, <2>3
<1>5. Ordenada(r, X, c + 1) BY <1>3, <1>4 DEF Ordenada
<1> QED BY <1>5 DEF r, X

(* The only step that enters a page.                                        *)
LEMMA OrdenRecibirMarco ==
    ASSUME IInv, OrdenBien, RecibirMarco
    PROVE  Ordenada(tlb', recientes', contador_orden')
<1> DEFINE E == EntradasTlb(Pids, Paginas, Marcos \ {NULL}, Instantes)
<1>1. CASE UNCHANGED <<tlb, contador_orden, recientes>> BY <1>1 DEF OrdenBien
<1>2. ASSUME NEW marco \in TablaDePaginas(Pid, EntradasDe(Pagina)), marco \notin {SinMarco, NULL},
             config.entradas_tlb # 0,
             tlb' = actualizar_tlb(tlb, config.entradas_tlb, config.reemplazo_tlb,
                                   Pid, Pagina, marco, reloj, contador_orden),
             contador_orden' = IF Posiciones(tlb, Pid, Pagina) # {}
                               THEN contador_orden ELSE SiguienteOrden(contador_orden),
             recientes' = IF Posiciones(tlb, Pid, Pagina) # {} THEN recientes
                          ELSE IF contador_orden' = 0 THEN {} ELSE recientes \cup {EnCurso}
      PROVE  Ordenada(tlb', recientes', contador_orden')
  <2> DEFINE n == config.entradas_tlb
             q == ConLugar(tlb, n, config.reemplazo_tlb)
             e == [pid |-> Pid, pagina |-> Pagina, marco |-> marco, timestamp |-> reloj,
                   orden_insercion |-> contador_orden]
  <2>1. Posiciones(tlb, Pid, Pagina) = {} BY DEF OrdenBien, FaltaEnTlb, RecibirMarco
  <2>2. tlb' = Append(q, e) BY <1>2, <2>1 DEF actualizar_tlb
  <2>3. /\ n \in Nat /\ n > 0 /\ tlb \in Seq(E) /\ Len(tlb) <= n
        /\ Instantes \in SUBSET Nat /\ reloj \in Instantes /\ contador_orden \in 0..INT_MAX
        /\ contador_orden \in Nat
    BY <1>2, Configurado, SupuestoConfiguracion, SupuestoInt DEF IInv, TlbBien, RestoBien, Instantes
  <2>4. q \in Seq(E) /\ Tomada(q, tlb) BY <2>3, HaceLugar
  <2>5. e \in E
    <3>1. Pid \in Pids /\ Pagina \in Paginas BY DEF RecibirMarco, IInv, AccesoBien, EnMarcha
    <3>2. marco \in Marcos \ {NULL}
      <4>1. PICK p \in Paginas : marco = MarcoDe[<<Pid, p>>] BY <1>2 DEF TablaDePaginas
      <4> QED BY <1>2, <3>1, <4>1, SupuestoMemoria DEF Direcciones
    <3> QED BY <2>3, <3>1, <3>2 DEF EntradasTlb
  <2>6. contador_orden' = SiguienteOrden(contador_orden)
        /\ recientes' = IF contador_orden' = 0 THEN {} ELSE recientes \cup {EnCurso}
    BY <1>2, <2>1
  <2>7. CASE contador_orden' = 0
    <3>1. recientes' = {} BY <2>6, <2>7
    <3> QED BY <3>1 DEF Ordenada, EsReciente
  <2>8. CASE contador_orden' # 0
    <3>1. contador_orden' = contador_orden + 1 BY <2>6, <2>8 DEF SiguienteOrden
    <3>2. recientes' = recientes \cup {<<e.pid, e.pagina>>} BY <2>6, <2>8 DEF EnCurso
    <3>3. \A x \in E : x.orden_insercion \in Nat BY SupuestoInt DEF EntradasTlb
    <3>4. e.pid = Pid /\ e.pagina = Pagina /\ e.orden_insercion = contador_orden OBVIOUS
    <3> HIDE DEF q, e, E, n
    <3>5. Ordenada(q, recientes, contador_orden) BY <2>3, <2>4, OrdenAlQuitar DEF OrdenBien
    <3>6. \A k \in 1..Len(q) : q[k].orden_insercion \in Nat
      BY <2>4, <3>3, LenProperties, ElementOfSeq
    <3>7. \A k \in 1..Len(q) : ~EsDe(q[k], e.pid, e.pagina)
      <4>1. \A k \in 1..Len(q) : \E i \in 1..Len(tlb) : q[k] = tlb[i] BY <2>3, <2>4, Tomadas
      <4>2. DOMAIN tlb = 1..Len(tlb) BY <2>3, LenProperties
      <4> QED BY <2>1, <3>4, <4>1, <4>2 DEF Posiciones
    <3>8. Ordenada(Append(q, e), recientes \cup {<<e.pid, e.pagina>>}, contador_orden + 1)
      BY <2>3, <2>4, <2>5, <3>4, <3>5, <3>6, <3>7, OrdenAlAgregar
    <3> QED BY <2>2, <3>1, <3>2, <3>8
  <2> QED BY <2>7, <2>8
<1> QED BY <1>1, <1>2 DEF RecibirMarco

(* No step puts in the TLB the page whose access is in progress before that
   access brings its own entry (cpu.c fills the TLB only on a miss). *)
LEMMA FaltaPaso == ASSUME IInv, OrdenBien, [Next]_vars PROVE FaltaEnTlb'
<1>1. acceso \in Accesos BY DEF IInv, AccesoBien
<1>2. CASE Tic \/ UNCHANGED vars
  BY <1>2 DEF Tic, vars, tablas, OrdenBien, FaltaEnTlb, Pid, Pagina
<1>3. CASE ConsultarTlb
  <2> SUFFICES ASSUME acceso'.fase = "tabla" PROVE Posiciones(tlb', Pid', Pagina') = {}
    BY DEF FaltaEnTlb
  <2> DEFINE marco == IF config.entradas_tlb = 0 THEN NULL ELSE consultar_tlb(tlb, Pid, Pagina)
  <2>1. \A m : Traducida(m).fase # "tabla" BY <1>1 DEF Traducida, Accesos
  <2>2. marco = NULL /\ acceso' = [acceso EXCEPT !.fase = "tabla"] /\ tlb' = tlb
    BY <1>3, <2>1 DEF ConsultarTlb
  <2>3. Pid' = Pid /\ Pagina' = Pagina BY <1>1, <1>3, <2>2 DEF ConsultarTlb, Pid, Pagina, Accesos
  <2>4. Posiciones(tlb, Pid, Pagina) = {}
    <3> DEFINE S == Posiciones(tlb, Pid, Pagina)
               E == EntradasTlb(Pids, Paginas, Marcos \ {NULL}, Instantes)
    <3>1. /\ tlb \in Seq(E) /\ Len(tlb) \in Nat /\ DOMAIN tlb = 1..Len(tlb)
          /\ \A k \in 1..Len(tlb) : tlb[k] \in E
      BY LenProperties, ElementOfSeq DEF IInv, TlbBien
    <3>2. S \in SUBSET Nat /\ S \subseteq 1..Len(tlb) BY <3>1 DEF Posiciones
    <3>3. \A k \in 1..Len(tlb) : tlb[k].marco # NULL BY <3>1 DEF EntradasTlb
    <3>4. CASE config.entradas_tlb = 0
      <4>1. Len(tlb) = 0 BY <3>1, <3>4 DEF IInv, TlbBien
      <4> QED BY <3>2, <4>1
    <3>5. CASE config.entradas_tlb # 0
      <4> SUFFICES ASSUME S # {} PROVE FALSE OBVIOUS
      <4>1. tlb[CHOOSE i \in S : \A j \in S : i <= j].marco = NULL
        BY <2>2, <3>5 DEF consultar_tlb
      <4> HIDE DEF S
      <4>2. \E i \in S : \A j \in S : i <= j BY <3>2, MinimoNat
      <4>3. (CHOOSE i \in S : \A j \in S : i <= j) \in S BY <4>2
      <4> QED BY <3>2, <3>3, <4>1, <4>3
    <3> QED BY <3>4, <3>5
  <2> QED BY <2>2, <2>3, <2>4
<1>4. CASE RecibirPcb \/ DevolverPcb \/ FinDeProceso \/ AccederEnCache \/ AccederEnMemoria
  <2>1. acceso'.fase # "tabla"
    BY <1>4 DEF RecibirPcb, DevolverPcb, FinDeProceso, AccederEnCache, AccederEnMemoria, Reposo
  <2> QED BY <2>1 DEF FaltaEnTlb
<1>5. CASE RecibirMarco \/ RecibirPagina \/ PaginaNoLlega \/ Desalojo
  <2>1. \A m : Traducida(m).fase # "tabla" BY <1>1 DEF Traducida, Accesos
  <2>2. \A u, v : [acceso EXCEPT !.fase = "desalojo", !.contenido = u, !.victima = v].fase # "tabla"
    BY <1>1 DEF Accesos
  <2>3. [acceso EXCEPT !.fase = "acceso"].fase # "tabla" /\ Reposo.fase # "tabla"
    BY <1>1 DEF Accesos, Reposo
  <2>4. \/ acceso' = Reposo \/ acceso' = [acceso EXCEPT !.fase = "acceso"]
        \/ \E m : acceso' = Traducida(m)
        \/ \E u, v : acceso' = [acceso EXCEPT !.fase = "desalojo", !.contenido = u, !.victima = v]
    <3>1. CASE RecibirMarco BY <3>1, Zenon DEF RecibirMarco
    <3>2. CASE RecibirPagina BY <3>2, ZenonT(60) DEF RecibirPagina
    <3>3. CASE PaginaNoLlega \/ Desalojo BY <3>3 DEF PaginaNoLlega, Desalojo
    <3> QED BY <1>5, <3>1, <3>2, <3>3
  <2>5. acceso'.fase # "tabla" BY <2>1, <2>2, <2>3, <2>4, Zenon
  <2> QED BY <2>5 DEF FaltaEnTlb
<1>6. CASE Ejecutar
  <2>1. PICK pedida \in Instrucciones :
            AccesoEnCache(pedida) \/ AccesoFueraDeLimites(pedida) \/ AccesoSinCache(pedida)
    BY <1>6 DEF Ejecutar
  <2>2. pedida \in Accesos BY InstruccionBien
  <2>3. \A m : [pedida EXCEPT !.fase = "acceso", !.marco = m].fase = "acceso" BY <2>2 DEF Accesos
  <2>4. [pedida EXCEPT !.fase = "tlb"].fase = "tlb" BY <2>2 DEF Accesos
  <2>5. acceso'.fase # "tabla"
    BY <1>6, <2>1, <2>3, <2>4
       DEF Ejecutar, AccesoEnCache, AccesoFueraDeLimites, AccesoSinCache
  <2> QED BY <2>5 DEF FaltaEnTlb
<1> QED BY <1>2, <1>3, <1>4, <1>5, <1>6 DEF Next

(* Every step keeps the entries that are recent in the order they came: most
   leave the TLB alone, a translation refreshes or adds one entry, and the end of
   a process removes entries without moving the others. *)
LEMMA OrdenPaso == ASSUME IInv, OrdenBien, [Next]_vars PROVE OrdenBien'
<1> DEFINE E == EntradasTlb(Pids, Paginas, Marcos \ {NULL}, Instantes)
<1>0. tlb \in Seq(E) BY DEF IInv, TlbBien
<1>1. CASE UNCHANGED <<tlb, contador_orden, recientes>>
  <2>1. Ordenada(tlb', recientes', contador_orden') BY <1>1 DEF OrdenBien
  <2> QED BY <2>1, FaltaPaso DEF OrdenBien
<1>2. CASE FinDeProceso
  <2>1. tlb' \in eliminar_entradas_proceso(tlb, Pid) /\ contador_orden' = contador_orden
        /\ recientes' = recientes
    BY <1>2 DEF FinDeProceso
  <2> HIDE DEF E
  <2>2. tlb' \in Seq(E) /\ Tomada(tlb', tlb) BY <1>0, <2>1, EliminaEntradas
  <2>3. Ordenada(tlb', recientes', contador_orden')
    BY <1>0, <2>1, <2>2, OrdenAlQuitar DEF OrdenBien
  <2> QED BY <2>3, FaltaPaso DEF OrdenBien
<1>3. CASE ConsultarTlb
  <2>1. \/ tlb' = tlb
        \/ tlb' = RefrescarPrimera(tlb, Pid, Pagina, reloj)
    BY <1>3 DEF ConsultarTlb, TrasConsulta
  <2>2. contador_orden' = contador_orden /\ recientes' = recientes BY <1>3 DEF ConsultarTlb
  <2>3. reloj \in Instantes /\ Instantes \in SUBSET Nat
    BY SupuestoConfiguracion DEF IInv, RestoBien, Instantes
  <2>4. Ordenada(tlb', recientes', contador_orden')
    BY <1>0, <2>1, <2>2, <2>3, OrdenAlRefrescar DEF OrdenBien
  <2> QED BY <2>4, FaltaPaso DEF OrdenBien
<1>4. CASE RecibirMarco
  BY <1>4, OrdenRecibirMarco, FaltaPaso DEF OrdenBien
<1>5. CASE RecibirPcb \/ DevolverPcb \/ Tic \/ Ejecutar \/ RecibirPagina \/ PaginaNoLlega
           \/ Desalojo \/ AccederEnCache \/ AccederEnMemoria \/ UNCHANGED vars
  BY <1>1, <1>5
     DEF RecibirPcb, DevolverPcb, Tic, Ejecutar, AccesoEnCache, AccesoFueraDeLimites, AccesoSinCache,
         RecibirPagina, PaginaNoLlega, Desalojo, AccederEnCache, AccederEnMemoria, vars, tablas
<1> QED BY <1>2, <1>3, <1>4, <1>5 DEF Next

(* Of a list whose orders grow, FIFO's victim is the first.                 *)
LEMMA VictimaPrimera ==
    ASSUME NEW P, NEW G, NEW M, NEW T \in SUBSET Nat,
           NEW s \in Seq(EntradasTlb(P, G, M, T)), Len(s) > 0,
           \A i, j \in 1..Len(s) : i < j => s[i].orden_insercion < s[j].orden_insercion
    PROVE  encontrar_victima_fifo(s) = 1
<1>0. /\ Len(s) \in Nat /\ DOMAIN s = 1..Len(s)
      /\ \A i \in 1..Len(s) : s[i].orden_insercion \in Nat
  <2>1. Len(s) \in Nat /\ DOMAIN s = 1..Len(s) BY LenProperties
  <2>2. \A i \in 1..Len(s) : s[i] \in EntradasTlb(P, G, M, T) BY ElementOfSeq
  <2>3. \A e \in EntradasTlb(P, G, M, T) : e.orden_insercion \in Nat BY SupuestoInt DEF EntradasTlb
  <2> QED BY <2>1, <2>2, <2>3
<1> DEFINE Minima(i) == \A j \in 1..Len(s) : \/ s[i].orden_insercion < s[j].orden_insercion
                                             \/ s[i].orden_insercion = s[j].orden_insercion /\ i <= j
           v == encontrar_victima_fifo(s)
<1>1. v = CHOOSE i \in 1..Len(s) : Minima(i) BY <1>0 DEF encontrar_victima_fifo, PrimerMinimo
<1>2. Minima(1)
  <2> SUFFICES ASSUME NEW j \in 1..Len(s)
               PROVE  \/ s[1].orden_insercion < s[j].orden_insercion
                      \/ s[1].orden_insercion = s[j].orden_insercion /\ 1 <= j
    OBVIOUS
  <2>1. CASE j = 1 BY <2>1
  <2>2. CASE j > 1 BY <1>0, <2>2
  <2> QED BY <1>0, <2>1, <2>2
<1>3. v \in 1..Len(s) /\ Minima(v)
  <2>1. 1 \in 1..Len(s) BY <1>0
  <2> HIDE DEF Minima, v
  <2> QED BY <1>1, <1>2, <2>1
<1>4. CASE v = 1 BY <1>4
<1>5. CASE v > 1
  <2>1. s[1].orden_insercion < s[v].orden_insercion BY <1>0, <1>3, <1>5
  <2>2. s[v].orden_insercion <= s[1].orden_insercion BY <1>0, <1>3
  <2> QED BY <1>0, <1>3, <2>1, <2>2
<1> QED BY <1>0, <1>3, <1>4, <1>5

(* Removing the first entry of a table leaves every other one in it. *)
LEMMA SinElPrimero ==
    ASSUME NEW S, NEW s \in Seq(S), Len(s) > 0, NEW e
    PROVE  SubSeq(Append(RemoveAt(s, 1), e), 1, Len(s) - 1) = Tail(s)
  BY DEF RemoveAt

(* FIFO gives up the entry that was made first, as long as none of those it *)
(* chooses from is older than the last time the counter was put back to 0.  *)
THEOREM FifoSiempre == ASSUME EntradasDistintas PROVE Spec => FifoSacaLaMasVieja
<1>1. ASSUME IInv, OrdenBien, [Next]_vars, acceso.fase = "tabla", config.reemplazo_tlb = "FIFO",
             tlb' # tlb, Len(tlb) = config.entradas_tlb,
             \A i \in DOMAIN tlb : <<tlb[i].pid, tlb[i].pagina>> \in recientes
      PROVE  SubSeq(tlb', 1, Len(tlb) - 1) = Tail(tlb)
  <2> DEFINE E == EntradasTlb(Pids, Paginas, Marcos \ {NULL}, Instantes)
  <2>1. RecibirMarco
    <3>1. ~Tic /\ ~(UNCHANGED vars) BY <1>1 DEF Tic, vars, tablas
    <3> QED BY <1>1, <3>1
            DEF Next, RecibirPcb, DevolverPcb, FinDeProceso, Ejecutar, ConsultarTlb, RecibirPagina,
                PaginaNoLlega, Desalojo, AccederEnCache, AccederEnMemoria
  <2>2. PICK marco, orden :
            tlb' = actualizar_tlb(tlb, config.entradas_tlb, "FIFO", Pid, Pagina, marco, reloj, orden)
    BY <1>1, <2>1 DEF RecibirMarco
  <2>3. Posiciones(tlb, Pid, Pagina) = {} BY <1>1 DEF OrdenBien, FaltaEnTlb
  <2>4. config.entradas_tlb # 0 BY <1>1, <2>1 DEF RecibirMarco
  <2>5. /\ tlb \in Seq(E) /\ DOMAIN tlb = 1..Len(tlb) /\ Len(tlb) \in Nat /\ Len(tlb) > 0
        /\ Instantes \in SUBSET Nat
    BY <1>1, <2>4, LenProperties, SupuestoConfiguracion DEF IInv, TlbBien, Instantes
  <2>6. \A i, j \in 1..Len(tlb) : i < j => tlb[i].orden_insercion < tlb[j].orden_insercion
    BY <1>1, <2>5 DEF OrdenBien, Ordenada, EsReciente
  <2>7. encontrar_victima_fifo(tlb) = 1 BY <2>5, <2>6, VictimaPrimera
  <2>8. PICK e : tlb' = Append(RemoveAt(tlb, 1), e)
    BY <1>1, <2>2, <2>3, <2>5, <2>7 DEF actualizar_tlb, ConLugar
  <2> QED BY <2>5, <2>8, SinElPrimero
<1>2. Init => OrdenBien
  <2> SUFFICES ASSUME Init PROVE OrdenBien OBVIOUS
  <2>1. tlb = <<>> /\ acceso.fase = "sin_pcb" BY DEF Init, Reposo
  <2>2. Len(tlb) = 0 BY <2>1
  <2> QED BY <2>1, <2>2 DEF OrdenBien, Ordenada, FaltaEnTlb
<1>3. IInv /\ OrdenBien /\ [Next]_vars =>
        [ (/\ acceso.fase = "tabla" /\ config.reemplazo_tlb = "FIFO"
           /\ tlb' # tlb /\ Len(tlb) = config.entradas_tlb)
          => \/ SubSeq(tlb', 1, Len(tlb) - 1) = Tail(tlb)
             \/ \E i \in DOMAIN tlb : <<tlb[i].pid, tlb[i].pagina>> \notin recientes ]_vars
  BY <1>1
<1>4. IInv /\ OrdenBien /\ [Next]_vars => OrdenBien' BY OrdenPaso
<1> QED BY <1>2, <1>3, <1>4, Inductivo, PTL DEF Spec, FifoSacaLaMasVieja

----------------------------------------------------------------------------
(* Mmu implements MemoriaVirtual.                                           *)
TipoBien == EnMarcha => acceso.tipo \in {"READ", "WRITE"}
KInv == JInv /\ TipoBien

LEMMA TipoDeReposo == ~(Reposo.fase \in {"tlb", "tabla", "pagina", "desalojo", "acceso"})
BY DEF Reposo

LEMMA SigueTipo == ASSUME KInv, [Next]_vars PROVE TipoBien'
<1>1. acceso \in Accesos BY DEF KInv, JInv, IInv, AccesoBien
<1>2. CASE RecibirPcb \/ DevolverPcb \/ FinDeProceso \/ AccederEnCache \/ AccederEnMemoria
  <2>1. ~(acceso'.fase \in {"tlb", "tabla", "pagina", "desalojo", "acceso"})
    BY <1>2 DEF RecibirPcb, DevolverPcb, FinDeProceso, AccederEnCache, AccederEnMemoria, Reposo
  <2> QED BY <2>1 DEF TipoBien, EnMarcha
<1>3. CASE Tic \/ UNCHANGED vars
  BY <1>3 DEF Tic, vars, KInv, TipoBien, EnMarcha
<1>4. CASE Ejecutar
  <2>1. PICK pedida \in Instrucciones :
            AccesoEnCache(pedida) \/ AccesoFueraDeLimites(pedida) \/ AccesoSinCache(pedida)
    BY <1>4 DEF Ejecutar
  <2>2. pedida \in Accesos /\ pedida.tipo \in {"READ", "WRITE"} BY InstruccionBien
  <2>3. \A m : [pedida EXCEPT !.fase = "acceso", !.marco = m].tipo = pedida.tipo BY <2>2 DEF Accesos
  <2>4. [pedida EXCEPT !.fase = "tlb"].tipo = pedida.tipo BY <2>2 DEF Accesos
  <2> QED BY <1>4, <2>1, <2>2, <2>3, <2>4
          DEF AccesoEnCache, AccesoFueraDeLimites, AccesoSinCache, Ejecutar, TipoBien, EnMarcha
<1>5. CASE ConsultarTlb \/ RecibirMarco \/ RecibirPagina \/ PaginaNoLlega \/ Desalojo
  <2>1. acceso.tipo \in {"READ", "WRITE"}
    BY <1>5 DEF ConsultarTlb, RecibirMarco, RecibirPagina, PaginaNoLlega, Desalojo, KInv, TipoBien, EnMarcha
  <2>2. acceso' = Reposo \/ acceso'.tipo = acceso.tipo
    <3>1. CASE ConsultarTlb \/ RecibirMarco
      <4>1. \A m : Traducida(m).tipo = acceso.tipo BY <1>1 DEF Traducida, Accesos
      <4>2. [acceso EXCEPT !.fase = "tabla"].tipo = acceso.tipo BY <1>1 DEF Accesos
      <4> QED BY <3>1, <4>1, <4>2 DEF ConsultarTlb, RecibirMarco
    <3>2. CASE RecibirPagina
      <4>1. \A u, v : [acceso EXCEPT !.fase = "desalojo", !.contenido = u, !.victima = v].tipo = acceso.tipo
        BY <1>1 DEF Accesos
      <4>2. [acceso EXCEPT !.fase = "acceso"].tipo = acceso.tipo BY <1>1 DEF Accesos
      <4>3. \/ acceso' = [acceso EXCEPT !.fase = "acceso"]
            \/ \E u, v : acceso' = [acceso EXCEPT !.fase = "desalojo", !.contenido = u, !.victima = v]
        BY ZenonT(60), <3>2 DEF RecibirPagina
      <4>4. CASE acceso' = [acceso EXCEPT !.fase = "acceso"] BY <4>2, <4>4
      <4>5. ASSUME NEW u, NEW v,
                   acceso' = [acceso EXCEPT !.fase = "desalojo", !.contenido = u, !.victima = v]
            PROVE  acceso'.tipo = acceso.tipo
        BY Zenon, <4>1, <4>5
      <4> QED BY Zenon, <4>3, <4>4, <4>5
    <3>3. CASE PaginaNoLlega \/ Desalojo
      <4>1. [acceso EXCEPT !.fase = "acceso"].tipo = acceso.tipo BY <1>1 DEF Accesos
      <4> QED BY <3>3, <4>1 DEF PaginaNoLlega, Desalojo
    <3> QED BY <1>5, <3>1, <3>2, <3>3
  <2> QED BY <2>1, <2>2, TipoDeReposo DEF TipoBien, EnMarcha
<1> QED BY <1>2, <1>3, <1>4, <1>5 DEF Next

LEMMA ValorEs == JInv => ValorVirtual = [d \in Mapeadas \ perdidas |-> escrito[d]]
<1>1. JInv => \A d \in Mapeadas \ perdidas : Visible(d) = escrito[d] BY SeVe
<1> QED BY <1>1 DEF ValorVirtual

LEMMA ValorEsDespues == JInv' => ValorVirtual' = [d \in Mapeadas \ perdidas' |-> escrito'[d]]
<1>1. (JInv => ValorVirtual = [d \in Mapeadas \ perdidas |-> escrito[d]])' BY ValorEs, PTL
<1> QED BY <1>1

(* What a step leaves of the pages, when it loses some or none.              *)
LEMMA LoQueQueda ==
    ASSUME JInv, JInv', perdidas \subseteq perdidas', NEW f,
           \A d \in Mapeadas \ perdidas' : escrito'[d] = f[d]
    PROVE  Virtual!Queda(f)
<1>1. ValorVirtual = [d \in Mapeadas \ perdidas |-> escrito[d]] BY ValorEs
<1>2. ValorVirtual' = [d \in Mapeadas \ perdidas' |-> escrito'[d]] BY ValorEsDespues
<1>3. DOMAIN ValorVirtual' \subseteq DOMAIN ValorVirtual BY <1>1, <1>2
<1>4. ValorVirtual' = [d \in DOMAIN ValorVirtual' |-> f[d]] BY <1>2
<1> QED BY <1>3, <1>4 DEF Virtual!Queda

(* A step that writes and loses no page changes none.                       *)
LEMMA NadaCambia ==
    ASSUME JInv, JInv', UNCHANGED <<escrito, perdidas>>
    PROVE  ValorVirtual' = ValorVirtual
BY ValorEs, ValorEsDespues

LEMMA PedidosDistintos ==
    ASSUME NEW t \in {"READ", "WRITE"}, NEW d, NEW v
    PROVE  /\ Pedido(t, d, v) # SinPedido
           /\ Pedido(t, d, v).tipo = t /\ Pedido(t, d, v).pagina = d /\ Pedido(t, d, v).valor = v
<1>1. Pedido(t, d, v).tipo = t /\ SinPedido.tipo = "NOOP" BY DEF Pedido, SinPedido
<1>2. t # "NOOP" OBVIOUS
<1> QED BY <1>1, <1>2 DEF Pedido

LEMMA PedidoEnMarcha ==
    ASSUME KInv, EnMarcha
    PROVE  /\ PedidoVirtual = Pedido(acceso.tipo, EnCurso, acceso.valor) /\ PedidoVirtual # SinPedido
           /\ PedidoVirtual.tipo = acceso.tipo /\ PedidoVirtual.pagina = EnCurso
           /\ PedidoVirtual.valor = acceso.valor
<1>1. acceso.tipo \in {"READ", "WRITE"} BY DEF KInv, TipoBien
<1>2. PedidoVirtual = Pedido(acceso.tipo, EnCurso, acceso.valor) BY DEF PedidoVirtual
<1> QED BY <1>1, <1>2, PedidosDistintos

LEMMA PedidoDespues ==
    (EnMarcha /\ KInv)' => PedidoVirtual' # SinPedido /\ PedidoVirtual'.pagina = EnCurso'
<1>1. EnMarcha /\ KInv => PedidoVirtual # SinPedido /\ PedidoVirtual.pagina = EnCurso
  BY PedidoEnMarcha
<1>2. (EnMarcha /\ KInv => PedidoVirtual # SinPedido /\ PedidoVirtual.pagina = EnCurso)'
  BY <1>1, PTL
<1> QED BY <1>2

(* The pages with one of them written.                                      *)
LEMMA EscritaEs ==
    ASSUME JInv, NEW p \in Direcciones, NEW v, perdidas \subseteq perdidas',
           escrito' = Recordado([escrito EXCEPT ![p] = v], perdidas'), JInv'
    PROVE  Virtual!Queda(Virtual!Escrita(p, v))
<1>1. escrito \in [Direcciones -> Valores] BY DEF JInv, IInv, RestoBien
<1>2. ValorVirtual = [d \in Mapeadas \ perdidas |-> escrito[d]] BY ValorEs
<1>3. Virtual!Escrita(p, v) = [d \in Mapeadas \ perdidas |-> IF d = p THEN v ELSE escrito[d]]
  BY <1>2 DEF Virtual!Escrita
<1>4. ASSUME NEW d \in Mapeadas \ perdidas' PROVE escrito'[d] = Virtual!Escrita(p, v)[d]
  <2> DEFINE f == [escrito EXCEPT ![p] = v]
  <2>1. d \in Direcciones /\ d \in Mapeadas \ perdidas BY DEF Mapeadas
  <2>2. f[d] = IF d = p THEN v ELSE escrito[d] BY <1>1, <2>1
  <2> HIDE DEF f
  <2>3. escrito'[d] = f[d] BY <2>1, Recordada DEF f
  <2> QED BY <1>3, <2>1, <2>2, <2>3
<1> QED BY <1>4, LoQueQueda

LEMMA UsarImplementa ==
    ASSUME KInv, KInv', NEW pedida, pedida.pagina \in Paginas, Pid \in Pids, UsarEntrada(pedida),
           UNCHANGED perdidas
    PROVE  \/ pedida.tipo = "WRITE" /\ Virtual!Queda(Virtual!Escrita(<<Pid, pedida.pagina>>, pedida.valor))
           \/ pedida.tipo # "WRITE" /\ ValorVirtual' = ValorVirtual
<1>1. CASE pedida.tipo = "WRITE"
  <2>1. escrito' = Recordado([escrito EXCEPT ![<<Pid, pedida.pagina>>] = pedida.valor], perdidas')
    BY <1>1 DEF UsarEntrada
  <2>2. <<Pid, pedida.pagina>> \in Direcciones BY DEF Direcciones
  <2> QED BY <1>1, <2>1, <2>2, EscritaEs DEF KInv
<1>2. CASE pedida.tipo # "WRITE"
  <2>1. escrito' = escrito BY <1>2 DEF UsarEntrada
  <2> QED BY <1>2, <2>1, NadaCambia DEF KInv
<1> QED BY <1>1, <1>2

LEMMA SinEscribir ==
    ASSUME JInv, JInv', perdidas \subseteq perdidas', escrito' = Recordado(escrito, perdidas'),
           UNCHANGED <<Pid, PedidoVirtual>>
    PROVE  Virtual!Perder \/ UNCHANGED Virtual!vars
<1>1. ASSUME NEW d \in Mapeadas \ perdidas' PROVE escrito'[d] = ValorVirtual[d]
  <2>1. d \in Direcciones /\ d \in Mapeadas \ perdidas BY DEF Mapeadas
  <2>2. escrito'[d] = escrito[d] BY <2>1, Recordada
  <2> QED BY <2>1, <2>2, ValorEs
<1>2. Virtual!Queda(ValorVirtual) BY <1>1, LoQueQueda
<1>3. CASE DOMAIN ValorVirtual' # DOMAIN ValorVirtual BY <1>2, <1>3 DEF Virtual!Perder
<1>4. CASE DOMAIN ValorVirtual' = DOMAIN ValorVirtual
  <2>1. ValorVirtual = [d \in DOMAIN ValorVirtual |-> ValorVirtual[d]] BY DEF ValorVirtual
  <2>2. ValorVirtual' = ValorVirtual BY <1>2, <1>4, <2>1 DEF Virtual!Queda
  <2> QED BY <2>2 DEF Virtual!vars
<1> QED BY <1>3, <1>4

LEMMA ImplementaEjecutar == ASSUME KInv, KInv', Ejecutar PROVE [Virtual!Next]_Virtual!vars
<1>1. PICK pedida \in Instrucciones :
          AccesoEnCache(pedida) \/ AccesoFueraDeLimites(pedida) \/ AccesoSinCache(pedida)
  BY DEF Ejecutar
<1>2. pedida \in Accesos /\ pedida.pagina \in Paginas /\ pedida.valor \in Valores
  BY InstruccionBien
<1>3. /\ acceso.fase = "libre" /\ Pid \in Pids /\ Pid' = Pid /\ ~EnMarcha /\ PedidoVirtual = SinPedido
  BY DEF Ejecutar, Pid, KInv, JInv, IInv, AccesoBien, EnMarcha, PedidoVirtual
<1>4. CASE AccesoEnCache(pedida)
  <2>1. PedidoVirtual' = PedidoVirtual /\ perdidas' = perdidas /\ UsarEntrada(pedida)
    BY <1>3, <1>4 DEF AccesoEnCache, PedidoVirtual, EnMarcha
  <2>2. \/ pedida.tipo = "WRITE" /\ Virtual!Queda(Virtual!Escrita(<<Pid, pedida.pagina>>, pedida.valor))
        \/ ValorVirtual' = ValorVirtual
    BY <1>2, <1>3, <2>1, UsarImplementa
  <2>3. CASE ValorVirtual' = ValorVirtual BY <1>3, <2>1, <2>3 DEF Virtual!vars
  <2>4. CASE Virtual!Queda(Virtual!Escrita(<<Pid, pedida.pagina>>, pedida.valor))
    <3> DEFINE d == <<Pid, pedida.pagina>>
    <3>1. CASE d \in DOMAIN ValorVirtual
      <4>1. d[1] = Pid OBVIOUS
      <4>2. Virtual!EscribirYa BY <1>2, <1>3, <2>1, <2>4, <3>1, <4>1 DEF Virtual!EscribirYa
      <4> QED BY <4>2 DEF Virtual!Next
    <3>2. CASE d \notin DOMAIN ValorVirtual
      <4> HIDE DEF d
      <4>1. Virtual!Escrita(d, pedida.valor) = [x \in DOMAIN ValorVirtual |-> ValorVirtual[x]]
        BY <3>2 DEF Virtual!Escrita
      <4>2. DOMAIN ValorVirtual' = DOMAIN ValorVirtual
        BY <2>1, ValorEs, ValorEsDespues DEF KInv
      <4>3. ValorVirtual = [x \in DOMAIN ValorVirtual |-> ValorVirtual[x]] BY DEF ValorVirtual
      <4>4. ValorVirtual' = ValorVirtual BY <2>4, <4>1, <4>2, <4>3 DEF Virtual!Queda, d
      <4> QED BY <1>3, <2>1, <4>4 DEF Virtual!vars
    <3> QED BY <3>1, <3>2
  <2> QED BY <2>2, <2>3, <2>4
<1>5. CASE AccesoFueraDeLimites(pedida) \/ AccesoSinCache(pedida)
  <2>1. \A m : [pedida EXCEPT !.fase = "acceso", !.marco = m].fase = "acceso" BY <1>2 DEF Accesos
  <2>2. [pedida EXCEPT !.fase = "tlb"].fase = "tlb" BY <1>2 DEF Accesos
  <2>3. acceso'.fase \in {"acceso", "tlb"} /\ escrito' = escrito /\ perdidas' = perdidas
    BY <1>5, <2>1, <2>2 DEF AccesoFueraDeLimites, AccesoSinCache
  <2>5. PedidoVirtual' # SinPedido /\ PedidoVirtual'.pagina = EnCurso'
    BY <2>3, PedidoDespues DEF EnMarcha
  <2>6. PedidoVirtual'.pagina[1] = Pid BY <1>3, <2>5 DEF EnCurso
  <2>7. ValorVirtual' = ValorVirtual BY <2>3, NadaCambia DEF KInv
  <2> QED BY <1>3, <2>5, <2>6, <2>7 DEF Virtual!Next, Virtual!Pedir
<1> QED BY <1>1, <1>4, <1>5

\* The access ends: it was made, or refused.
LEMMA ImplementaAtender ==
    ASSUME KInv, KInv', acceso.fase = "acceso", acceso' = Reposo, Pid' = Pid,
           \/ acceso.tipo = "WRITE" /\ Virtual!Queda(Virtual!Escrita(EnCurso, acceso.valor))
           \/ ValorVirtual' = ValorVirtual
    PROVE  Virtual!Next
<1>1. EnMarcha BY DEF EnMarcha
<1>2. /\ PedidoVirtual # SinPedido /\ PedidoVirtual.tipo = acceso.tipo
      /\ PedidoVirtual.pagina = EnCurso /\ PedidoVirtual.valor = acceso.valor
  BY <1>1, PedidoEnMarcha
<1>3. PedidoVirtual' = SinPedido BY TipoDeReposo DEF PedidoVirtual, EnMarcha
<1>4. CASE ValorVirtual' = ValorVirtual
  <2>1. ValorVirtual' = [d \in DOMAIN ValorVirtual' |-> ValorVirtual[d]] BY <1>4 DEF ValorVirtual
  <2>2. Virtual!Queda(ValorVirtual) BY <1>4, <2>1 DEF Virtual!Queda
  <2> QED BY <1>2, <1>3, <2>2 DEF Virtual!Next, Virtual!Atender
<1>5. CASE acceso.tipo = "WRITE" /\ Virtual!Queda(Virtual!Escrita(EnCurso, acceso.valor))
  BY <1>2, <1>3, <1>5 DEF Virtual!Next, Virtual!Atender
<1> QED BY <1>4, <1>5

LEMMA ImplementaPaso == ASSUME KInv, KInv', [Next]_vars PROVE [Virtual!Next]_Virtual!vars
<1>1. acceso \in Accesos BY DEF KInv, JInv, IInv, AccesoBien
<1>2. CASE RecibirPcb
  <2>1. PedidoVirtual' = SinPedido /\ PedidoVirtual = SinPedido
    BY <1>2, TipoDeReposo DEF RecibirPcb, PedidoVirtual, EnMarcha
  <2>2. ValorVirtual' = ValorVirtual BY <1>2, NadaCambia DEF RecibirPcb, historia, KInv
  <2>3. CASE Pid' = Pid BY <2>1, <2>2, <2>3 DEF Virtual!vars
  <2>4. CASE Pid' # Pid BY <2>1, <2>2, <2>4 DEF Virtual!Next, Virtual!Cambiar
  <2> QED BY <2>3, <2>4
<1>3. CASE DevolverPcb
  <2>1. PedidoVirtual' = SinPedido /\ PedidoVirtual = SinPedido /\ Pid' = Pid
    BY <1>3 DEF DevolverPcb, PedidoVirtual, EnMarcha, Reposo, Pid
  <2>2. ValorVirtual' = ValorVirtual BY <1>3, NadaCambia DEF DevolverPcb, historia, KInv
  <2> QED BY <2>1, <2>2 DEF Virtual!vars
<1>4. CASE FinDeProceso
  <2>1. PedidoVirtual' = SinPedido /\ PedidoVirtual = SinPedido /\ Pid' = Pid
    BY <1>4 DEF FinDeProceso, PedidoVirtual, EnMarcha, Reposo, Pid
  <2>2. perdidas \subseteq perdidas' /\ escrito' = Recordado(escrito, perdidas')
    BY <1>4 DEF FinDeProceso
  <2>3. Virtual!Perder \/ UNCHANGED Virtual!vars BY <2>1, <2>2, SinEscribir DEF KInv
  <2> QED BY <2>3 DEF Virtual!Next
<1>5. CASE Tic \/ UNCHANGED vars
  <2>1. /\ acceso' = acceso /\ pcb_en_ejecucion' = pcb_en_ejecucion
        /\ escrito' = escrito /\ perdidas' = perdidas
    BY <1>5 DEF Tic, vars, historia
  <2>2. PedidoVirtual' = PedidoVirtual /\ Pid' = Pid
    BY <2>1 DEF PedidoVirtual, EnMarcha, EnCurso, Pid, Pagina
  <2>3. ValorVirtual' = ValorVirtual BY <2>1, NadaCambia DEF KInv
  <2> QED BY <2>2, <2>3 DEF Virtual!vars
<1>6. CASE Ejecutar BY <1>6, ImplementaEjecutar
<1>7. CASE ConsultarTlb \/ RecibirPagina \/ PaginaNoLlega \/ Desalojo
           \/ (RecibirMarco /\ acceso' # Reposo)
  <2>1. /\ EnMarcha /\ acceso'.fase \in {"tabla", "pagina", "desalojo", "acceso"}
        /\ acceso'.tipo = acceso.tipo /\ acceso'.pagina = acceso.pagina /\ acceso'.valor = acceso.valor
    <3> DEFINE Sigue(a) == /\ a.fase \in {"tabla", "pagina", "desalojo", "acceso"}
                           /\ a.tipo = acceso.tipo /\ a.pagina = acceso.pagina /\ a.valor = acceso.valor
    <3>1. \A m : Sigue(Traducida(m)) BY <1>1 DEF Traducida, Accesos
    <3>2. Sigue([acceso EXCEPT !.fase = "tabla"]) /\ Sigue([acceso EXCEPT !.fase = "acceso"])
      BY <1>1 DEF Accesos
    <3>3. \A u, v : Sigue([acceso EXCEPT !.fase = "desalojo", !.contenido = u, !.victima = v])
      BY <1>1 DEF Accesos
    <3>4. EnMarcha
      BY <1>7 DEF ConsultarTlb, RecibirPagina, PaginaNoLlega, Desalojo, RecibirMarco, EnMarcha
    <3> HIDE DEF Sigue
    <3>5. CASE ConsultarTlb \/ (RecibirMarco /\ acceso' # Reposo)
      <4>1. Sigue(acceso') BY <3>1, <3>2, <3>5 DEF ConsultarTlb, RecibirMarco
      <4> QED BY <3>4, <4>1 DEF Sigue
    <3>6. CASE PaginaNoLlega \/ Desalojo
      <4>1. Sigue(acceso') BY <3>2, <3>6 DEF PaginaNoLlega, Desalojo
      <4> QED BY <3>4, <4>1 DEF Sigue
    <3>7. CASE RecibirPagina
      <4>1. \/ acceso' = [acceso EXCEPT !.fase = "acceso"]
            \/ \E u, v : acceso' = [acceso EXCEPT !.fase = "desalojo", !.contenido = u, !.victima = v]
        BY ZenonT(60), <3>7 DEF RecibirPagina
      <4>2. CASE acceso' = [acceso EXCEPT !.fase = "acceso"]
        <5>1. Sigue(acceso') BY <3>2, <4>2
        <5> QED BY <3>4, <5>1 DEF Sigue
      <4>3. ASSUME NEW u, NEW v,
                   acceso' = [acceso EXCEPT !.fase = "desalojo", !.contenido = u, !.victima = v]
            PROVE  Sigue(acceso')
        BY Zenon, <3>3, <4>3
      <4>4. Sigue(acceso') BY Zenon, <3>2, <4>1, <4>3
      <4> QED BY <3>4, <4>4 DEF Sigue
    <3> QED BY <1>7, <3>5, <3>6, <3>7
  <2>2. Pid' = Pid
    BY <1>7 DEF ConsultarTlb, RecibirPagina, PaginaNoLlega, Desalojo, RecibirMarco, Pid
  <2>3. PedidoVirtual' = PedidoVirtual
    BY <2>1, <2>2 DEF PedidoVirtual, EnMarcha, EnCurso, Pagina
  <2>4. CASE UNCHANGED <<escrito, perdidas>>
    <3>1. ValorVirtual' = ValorVirtual BY <2>4, NadaCambia DEF KInv
    <3> QED BY <2>2, <2>3, <3>1 DEF Virtual!vars
  <2>5. CASE perdidas \subseteq perdidas' /\ escrito' = Recordado(escrito, perdidas')
    <3>1. Virtual!Perder \/ UNCHANGED Virtual!vars BY <2>2, <2>3, <2>5, SinEscribir DEF KInv
    <3> QED BY <3>1 DEF Virtual!Next
  <2>6. UNCHANGED <<escrito, perdidas>> \/ (perdidas \subseteq perdidas' /\ escrito' = Recordado(escrito, perdidas'))
    BY <1>7 DEF ConsultarTlb, RecibirPagina, PaginaNoLlega, Desalojo, RecibirMarco, historia
  <2> QED BY <2>4, <2>5, <2>6
<1>8. CASE RecibirMarco /\ acceso' = Reposo
  <2>1. EnMarcha /\ Pid' = Pid /\ escrito' = escrito /\ perdidas' = perdidas
    BY <1>8 DEF RecibirMarco, EnMarcha, Pid, historia
  <2>2. PedidoVirtual # SinPedido BY <2>1, PedidoEnMarcha
  <2>3. PedidoVirtual' = SinPedido BY <1>8, TipoDeReposo DEF PedidoVirtual, EnMarcha
  <2>4. ValorVirtual' = ValorVirtual BY <2>1, NadaCambia DEF KInv
  <2>5. ValorVirtual' = [d \in DOMAIN ValorVirtual' |-> ValorVirtual[d]] BY <2>4 DEF ValorVirtual
  <2>6. Virtual!Queda(ValorVirtual) BY <2>4, <2>5 DEF Virtual!Queda
  <2> QED BY <2>1, <2>2, <2>3, <2>6 DEF Virtual!Next, Virtual!Atender
<1>9. CASE AccederEnCache
  <2>1. /\ acceso.fase = "acceso" /\ acceso' = Reposo /\ Pid' = Pid /\ UsarEntrada(acceso)
        /\ perdidas' = perdidas
    BY <1>9 DEF AccederEnCache, Pid
  <2>2. acceso.pagina \in Paginas /\ Pid \in Pids
    BY <2>1 DEF KInv, JInv, IInv, AccesoBien, EnMarcha, Pagina
  <2>3. \/ acceso.tipo = "WRITE" /\ Virtual!Queda(Virtual!Escrita(<<Pid, acceso.pagina>>, acceso.valor))
        \/ ValorVirtual' = ValorVirtual
    BY <2>1, <2>2, UsarImplementa
  <2>4. Virtual!Next BY <2>1, <2>3, ImplementaAtender DEF EnCurso, Pagina
  <2> QED BY <2>4
<1>10. CASE AccederEnMemoria
  <2>1. acceso.fase = "acceso" /\ acceso' = Reposo /\ Pid' = Pid BY <1>10 DEF AccederEnMemoria, Pid
  <2>2. EnCurso \in Direcciones
    BY <2>1 DEF KInv, JInv, IInv, AccesoBien, EnMarcha, EnCurso, Direcciones
  <2>3. CASE UNCHANGED <<memoria_fisica, escrito, perdidas>>
    <3>1. ValorVirtual' = ValorVirtual BY <2>3, NadaCambia DEF KInv
    <3>2. Virtual!Next BY <2>1, <3>1, ImplementaAtender
    <3> QED BY <3>2
  <2>4. CASE /\ acceso.tipo = "WRITE" /\ perdidas \subseteq perdidas'
             /\ escrito' = Recordado([escrito EXCEPT ![EnCurso] = acceso.valor], perdidas')
    <3>1. Virtual!Queda(Virtual!Escrita(EnCurso, acceso.valor)) BY <2>2, <2>4, EscritaEs DEF KInv
    <3>2. Virtual!Next BY <2>1, <2>4, <3>1, ImplementaAtender
    <3> QED BY <3>2
  <2> QED BY <1>10, <2>3, <2>4 DEF AccederEnMemoria, EnCurso
<1> QED BY <1>2, <1>3, <1>4, <1>5, <1>6, <1>7, <1>8, <1>9, <1>10 DEF Next

LEMMA ImplementaInicio == Init => KInv /\ Virtual!Init
<1> SUFFICES ASSUME Init PROVE KInv /\ Virtual!Init OBVIOUS
<1>1. JInv BY CoherenciaAlEmpezar
<1>2. ~EnMarcha BY DEF Init, EnMarcha, Reposo
<1>3. ValorVirtual = [d \in Mapeadas |-> escrito[d]]
  <2>1. perdidas = {} BY DEF Init
  <2> QED BY <1>1, <2>1, ValorEs
<1>4. ValorVirtual \in [Mapeadas -> Valores]
  BY <1>1, <1>3 DEF JInv, IInv, RestoBien, Mapeadas
<1> QED BY <1>1, <1>2, <1>4 DEF KInv, TipoBien, Virtual!Init, PedidoVirtual

(* The tables are transparent: whatever their sizes and their replacement,  *)
(* what the processes see of their pages is the memory of MemoriaVirtual.   *)
THEOREM ImplementaMemoriaVirtual == ASSUME EntradasDistintas PROVE Spec => CumpleMemoriaVirtual
<1>1. Init => KInv /\ Virtual!Init BY ImplementaInicio
<1>2. KInv /\ [Next]_vars => KInv' BY SigueCoherencia, SigueTipo DEF KInv
<1>3. KInv /\ KInv' /\ [Next]_vars => [Virtual!Next]_Virtual!vars BY ImplementaPaso
<1> QED BY <1>1, <1>2, <1>3, PTL DEF Spec, CumpleMemoriaVirtual, Virtual!Spec
=============================================================================
