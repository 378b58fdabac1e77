----------------------- MODULE MemoriaSeguridad_proofs -----------------------
(***************************************************************************)
(* A frame has one owner; none is lost while pids are not reused; only a   *)
(* request about its own process takes the frame from an access; a promise *)
(* of room is kept; memory implements MemoriaPrivada.                      *)
(***************************************************************************)
EXTENDS Memoria_proofs, FiniteSetTheorems

(* A creation takes frames that nobody owns.                                *)
LEMMA DuenoAlCrear ==
    ASSUME TypeOK, DuenoUnico, NEW pid \in Pids, NEW tam \in Nat, NEW n, NEW f \in PrimerosLibres(n),
           CrearCon(pid, tam, f), procesos_suspendidos' = procesos_suspendidos
    PROVE  DuenoUnico'
<1> DEFINE nueva == TablaCon(f)
<1>1. /\ nueva \in [Paginas -> Marcos \cup {SinMarco}]
      /\ \A i \in Paginas : nueva[i] = SinMarco \/ (i \in DOMAIN f /\ nueva[i] = f[i])
      /\ \A i \in DOMAIN f : f[i] \in marcos_libres
      /\ \A i, j \in DOMAIN f : i < j => f[i] < f[j]
      /\ DOMAIN f = 0..n - 1
  BY TablaNueva DEF TypeOK
<1>2. \A i, j \in Paginas : nueva[i] = nueva[j] /\ nueva[i] # SinMarco => i = j
  <2> SUFFICES ASSUME NEW i \in Paginas, NEW j \in Paginas, nueva[i] = nueva[j],
                      nueva[i] # SinMarco, i # j
               PROVE  FALSE
    OBVIOUS
  <2>1. i \in DOMAIN f /\ j \in DOMAIN f /\ f[i] = f[j] /\ i \in Int /\ j \in Int
    BY <1>1 DEF Paginas
  <2>2. f[i] \in Int /\ f[j] \in Int BY <1>1, <2>1 DEF TypeOK, Marcos
  <2>3. i < j \/ j < i BY <2>1
  <2>4. f[i] < f[j] \/ f[j] < f[i] BY <1>1, <2>1, <2>3
  <2> QED BY <2>1, <2>2, <2>4
<1>3. \A p \in Pids : procesos_activos'[p].tabla = IF p = pid THEN nueva ELSE procesos_activos[p].tabla
  BY DEF CrearCon, Clave, TypeOK
<1>4. marcos_libres' = marcos_libres \ {f[i] : i \in DOMAIN f}
  BY DEF CrearCon
<1>5. \A i \in Paginas : nueva[i] # SinMarco => nueva[i] \in marcos_libres /\ nueva[i] \notin marcos_libres'
  BY <1>1, <1>4
<1>6. SinMarco \notin marcos_libres BY DEF TypeOK, Marcos, SinMarco
<1> HIDE DEF nueva
<1>7. UnDueno'
  BY <1>2, <1>3, <1>5 DEF DuenoUnico, UnDueno, LibreSinDueno
<1>8. LibreSinDueno'
  BY <1>3, <1>4, <1>5, <1>6 DEF DuenoUnico, LibreSinDueno
<1>9. SuspendidoSinMarcos'
  BY DEF DuenoUnico, SuspendidoSinMarcos
<1> QED BY <1>7, <1>8, <1>9 DEF DuenoUnico

(* Giving back the frames of one process leaves those of the others.        *)
LEMMA DuenoAlSoltar ==
    ASSUME TypeOK, DuenoUnico, NEW pid \in Pids,
           marcos_libres' = marcos_libres \cup MarcosDe(procesos_activos[pid].tabla),
           procesos_activos' = [procesos_activos EXCEPT ![pid] = SinProceso]
    PROVE  UnDueno' /\ LibreSinDueno'
<1>1. \A p \in Pids : procesos_activos'[p].tabla = IF p = pid THEN TablaVacia ELSE procesos_activos[p].tabla
  BY DEF TypeOK, SinProceso
<1>2. \A i \in Paginas : TablaVacia[i] = SinMarco BY DEF TablaVacia
<1>3. UnDueno' BY <1>1, <1>2 DEF DuenoUnico, UnDueno
<1>4. SinMarco \notin marcos_libres BY DEF TypeOK, Marcos, SinMarco
<1>5. SinMarco \notin marcos_libres' BY <1>4 DEF MarcosDe
<1>6. ASSUME NEW p \in Pids, NEW i \in Paginas
      PROVE  procesos_activos'[p].tabla[i] \notin marcos_libres'
  <2>1. CASE p = pid BY <1>1, <1>2, <1>5, <2>1
  <2>2. CASE p # pid
    <3>1. procesos_activos[p].tabla[i] \notin marcos_libres BY DEF DuenoUnico, LibreSinDueno
    <3>2. procesos_activos[p].tabla[i] \notin MarcosDe(procesos_activos[pid].tabla)
      BY <2>2 DEF DuenoUnico, UnDueno, MarcosDe
    <3> QED BY <1>1, <2>2, <3>1, <3>2
  <2> QED BY <2>1, <2>2
<1> QED BY <1>3, <1>6 DEF LibreSinDueno

LEMMA DuenoInicial == Init => DuenoUnico
<1> SUFFICES ASSUME Init PROVE DuenoUnico OBVIOUS
<1>1. \A p \in Pids, i \in Paginas : /\ procesos_activos[p].tabla[i] = SinMarco
                                    /\ procesos_suspendidos[p].tabla[i] = SinMarco
  BY DEF Init, SinProceso, TablaVacia
<1>2. SinMarco \notin marcos_libres BY DEF Init, Marcos, SinMarco
<1> QED BY <1>1, <1>2 DEF DuenoUnico, UnDueno, LibreSinDueno, SuspendidoSinMarcos

LEMMA DuenoQuieto ==
    DuenoUnico /\ UNCHANGED <<marcos_libres, procesos_activos, procesos_suspendidos>> => DuenoUnico'
  BY DEF DuenoUnico, UnDueno, LibreSinDueno, SuspendidoSinMarcos

(* One step per handler of the kernel that touches frames or tables.        *)
LEMMA DuenoPaso == TypeOK /\ DuenoUnico /\ [Next]_vars => DuenoUnico'
<1> SUFFICES ASSUME TypeOK, DuenoUnico, [Next]_vars PROVE DuenoUnico'
  OBVIOUS
<1>0. pedido \in Pedidos \cup {Nada} BY DEF TypeOK
<1>1. CASE UNCHANGED vars
  BY <1>1, DuenoQuieto DEF vars, procesos
<1>2. CASE RecibirPedido BY <1>2, DuenoQuieto DEF RecibirPedido, procesos
<1>3. CASE ConsultarEspacio BY <1>3, DuenoQuieto DEF ConsultarEspacio, procesos
<1>4. CASE CrearProceso
  <2>1. Leido(pedido.tam) \in Nat /\ Leido(pedido.pid) \in Pids
    BY <1>0, <1>4, CamposDePedido DEF CrearProceso
  <2>2. procesos_suspendidos' = procesos_suspendidos BY <1>4 DEF CrearProceso
  <2>3. CASE UNCHANGED <<marcos_libres, procesos_activos>>
    BY <2>2, <2>3, DuenoQuieto
  <2>4. CASE \E f \in PrimerosLibres(MarcosNecesarios(Leido(pedido.tam))) :
                CrearCon(Leido(pedido.pid), Leido(pedido.tam), f)
    BY <2>1, <2>2, <2>4, DuenoAlCrear
  <2> QED BY <1>4, <2>3, <2>4 DEF CrearProceso
<1>5. CASE RechazarArchivo BY <1>5, DuenoQuieto DEF RechazarArchivo, procesos
<1>6. CASE ArchivoVacio
  <2>1. \A p \in Pids : procesos_activos'[p].tabla = IF p = 0 THEN TablaVacia ELSE procesos_activos[p].tabla
    BY <1>6 DEF ArchivoVacio, TypeOK, SinProceso
  <2>2. UNCHANGED <<marcos_libres, procesos_suspendidos>> BY <1>6 DEF ArchivoVacio
  <2>3. \A i \in Paginas : TablaVacia[i] = SinMarco BY DEF TablaVacia
  <2>4. SinMarco \notin marcos_libres BY DEF TypeOK, Marcos, SinMarco
  <2> QED BY <2>1, <2>2, <2>3, <2>4 DEF DuenoUnico, UnDueno, LibreSinDueno, SuspendidoSinMarcos
<1>7. CASE CargarArchivo
  <2>1. pedido.tam \in Nat BY <1>0, <1>7, CamposDePedido DEF CargarArchivo
  <2> QED BY <1>7, <2>1, DuenoAlCrear, SupuestoPedidos DEF CargarArchivo
<1>8. CASE FinalizarProceso
  <2>1. Leido(pedido.pid) \in Pids BY <1>0, <1>8, CamposDePedido DEF FinalizarProceso, ConPid
  <2>2. UnDueno' /\ LibreSinDueno' BY <1>8, <2>1, DuenoAlSoltar DEF FinalizarProceso
  <2>3. SuspendidoSinMarcos' BY <1>8 DEF FinalizarProceso, DuenoUnico, SuspendidoSinMarcos
  <2> QED BY <2>2, <2>3 DEF DuenoUnico
<1>9. CASE SuspenderProceso
  <2> DEFINE pid == Leido(pedido.pid)
  <2>1. pid \in Pids BY <1>0, <1>9, CamposDePedido DEF SuspenderProceso, ConPid
  <2>2. CASE Hay(procesos_activos, pid)
    <3>1. UnDueno' /\ LibreSinDueno' BY <1>9, <2>1, <2>2, DuenoAlSoltar DEF SuspenderProceso
    <3>2. \A p \in Pids : procesos_suspendidos'[p].tabla =
                IF p = pid THEN TablaVacia ELSE procesos_suspendidos[p].tabla
      BY <1>9, <2>1, <2>2 DEF SuspenderProceso, TypeOK
    <3>3. SuspendidoSinMarcos' BY <3>2 DEF DuenoUnico, SuspendidoSinMarcos, TablaVacia
    <3> QED BY <3>1, <3>3 DEF DuenoUnico
  <2>3. CASE ~ Hay(procesos_activos, pid)
    BY <1>9, <2>3, DuenoQuieto DEF SuspenderProceso, procesos
  <2> QED BY <2>2, <2>3
<1>10. CASE ReactivarProceso
  <2> DEFINE pid == Leido(pedido.pid)
  <2>1. pid \in Pids BY <1>0, <1>10, CamposDePedido DEF ReactivarProceso, ConPid
  <2>2. CASE Hay(procesos_suspendidos, pid)
    <3>1. \A p \in Pids :
             /\ procesos_activos'[p].tabla =
                   IF p = pid THEN procesos_suspendidos[pid].tabla ELSE procesos_activos[p].tabla
             /\ procesos_suspendidos'[p].tabla =
                   IF p = pid THEN TablaVacia ELSE procesos_suspendidos[p].tabla
      BY <1>10, <2>1, <2>2 DEF ReactivarProceso, TypeOK, SinProceso
    <3>2. marcos_libres' = marcos_libres BY <1>10 DEF ReactivarProceso
    <3>3. \A i \in Paginas : TablaVacia[i] = SinMarco /\ procesos_suspendidos[pid].tabla[i] = SinMarco
      BY <2>1 DEF TablaVacia, DuenoUnico, SuspendidoSinMarcos
    <3>4. SinMarco \notin marcos_libres BY DEF TypeOK, Marcos, SinMarco
    <3> QED BY <3>1, <3>2, <3>3, <3>4
            DEF DuenoUnico, UnDueno, LibreSinDueno, SuspendidoSinMarcos
  <2>3. CASE ~ Hay(procesos_suspendidos, pid)
    BY <1>10, <2>3, DuenoQuieto DEF ReactivarProceso, procesos
  <2> QED BY <2>2, <2>3
<1>11. CASE DumpProceso \/ VolcarPagina BY <1>11, PasoDeDump, DuenoQuieto
<1>12. CASE AtenderCpu
  BY <1>12, DuenoQuieto
     DEF AtenderCpu, ArchivoListo, SolicitudInstruccion, PedirAcceso, CompletarLectura,
         CompletarEscritura, CpuDesconectada, procesos
<1> QED BY <1>1, <1>2, <1>3, <1>4, <1>5, <1>6, <1>7, <1>8, <1>9, <1>10, <1>11, <1>12
        DEF Next, AtenderKernel

(* Two pages never share a frame, and no page is in a free one, whatever    *)
(* the pids of the requests, reused or not.                                 *)
THEOREM MarcoConUnDueno == Spec => []DuenoUnico
<1>1. Init => TypeOK /\ DuenoUnico BY TipoInicial, DuenoInicial
<1>2. TypeOK /\ DuenoUnico /\ [Next]_vars => (TypeOK /\ DuenoUnico)' BY TipoPaso, DuenoPaso
<1> QED BY <1>1, <1>2, PTL DEF Spec

----------------------------------------------------------------------------
(* An access in progress.                                                   *)

(* A handler changes no page table but that of the process it is about, and *)
(* leaves the cpu thread alone.                                             *)
LEMMA SoloDestino ==
    ASSUME TypeOK, AtenderKernel
    PROVE  /\ cpu' = cpu
           /\ \/ procesos_activos' = procesos_activos
              \/ /\ CambiandoDiccionario
                 /\ \A p \in Pids : p # Destino(pedido) => procesos_activos'[p] = procesos_activos[p]
<1> USE DEF CambiandoDiccionario
<1>0. pedido \in Pedidos \cup {Nada} BY DEF TypeOK
<1>1. CASE RecibirPedido BY <1>1 DEF RecibirPedido, procesos
<1>2. CASE ConsultarEspacio
  BY <1>0, <1>2, CamposDePedido DEF ConsultarEspacio, Confirmar, procesos
<1>3. CASE CrearProceso
  <2>1. Destino(pedido) = Leido(pedido.pid) BY <1>0, <1>3, CamposDePedido DEF CrearProceso
  <2>2. \A p \in Pids : p # Leido(pedido.pid) => procesos_activos'[p] = procesos_activos[p]
    BY <1>3 DEF CrearProceso, CrearCon, Clave, TypeOK
  <2> QED BY <1>3, <2>1, <2>2 DEF CrearProceso
<1>4. CASE RechazarArchivo
  BY <1>0, <1>4, CamposDePedido DEF RechazarArchivo, Confirmar, procesos
<1>5. CASE ArchivoVacio
  BY <1>0, <1>5, CamposDePedido DEF ArchivoVacio, Confirmar, TypeOK
<1>6. CASE CargarArchivo
  BY <1>0, <1>6, CamposDePedido DEF CargarArchivo, CrearCon, Clave, Confirmar, TypeOK
<1>7. CASE FinalizarProceso
  BY <1>0, <1>7, CamposDePedido DEF FinalizarProceso, ConPid, TypeOK
<1>8. CASE SuspenderProceso
  <2>1. Destino(pedido) = Leido(pedido.pid) /\ pedido # Nada
    BY <1>0, <1>8, CamposDePedido DEF SuspenderProceso, ConPid
  <2>2. cpu' = cpu BY <1>8 DEF SuspenderProceso
  <2>3. \A p \in Pids : p # Leido(pedido.pid) => procesos_activos'[p] = procesos_activos[p]
    BY <1>8 DEF SuspenderProceso, TypeOK, procesos
  <2> QED BY <1>8, <2>1, <2>2, <2>3 DEF SuspenderProceso
<1>9. CASE ReactivarProceso
  <2>1. Destino(pedido) = Leido(pedido.pid) /\ pedido # Nada
    BY <1>0, <1>9, CamposDePedido DEF ReactivarProceso, ConPid
  <2>2. cpu' = cpu BY <1>9 DEF ReactivarProceso
  <2>3. \A p \in Pids : p # Leido(pedido.pid) => procesos_activos'[p] = procesos_activos[p]
    BY <1>9 DEF ReactivarProceso, TypeOK, procesos
  <2> QED BY <1>9, <2>1, <2>2, <2>3 DEF ReactivarProceso
<1>10. CASE DumpProceso \/ VolcarPagina BY <1>10, PasoDeDump
<1> QED BY <1>1, <1>2, <1>3, <1>4, <1>5, <1>6, <1>7, <1>8, <1>9, <1>10 DEF AtenderKernel

(* An access is late, or it is not, before a step and after it.             *)
LEMMA TardeONo ==
    /\ AccesoTarde = TRUE \/ AccesoTarde = FALSE
    /\ AccesoTarde' = TRUE \/ AccesoTarde' = FALSE
  BY Zenon DEF AccesoTarde

(* What moves no table and no access leaves it on time or late as it was.   *)
LEMMA TardeIgual ==
    ASSUME UNCHANGED <<procesos_activos, cpu>> PROVE AccesoTarde' = AccesoTarde
<1>1. AccesoTarde' <=> AccesoTarde
  BY DEF AccesoTarde, PaginaPresente, Traducir, MarcoDePagina
<1> QED BY <1>1, TardeONo, Zenon

(* The page of an access on time is in a frame that is nobody else's.       *)
LEMMA PerdidoEsTarde == TypeOK /\ DuenoUnico => (AccesoPerdido <=> AccesoTarde)
<1> SUFFICES ASSUME TypeOK, DuenoUnico, cpu.fase = "acceso", ~ AccesoTarde
             PROVE  ~ MarcoAjeno(MarcoDePagina(cpu.pid, cpu.dir), cpu.pid)
  BY DEF AccesoPerdido
<1>1. PICK i : i = (cpu.dir \div TAM_PAGINA) % ENTRADAS_POR_TABLA OBVIOUS
<1>2. cpu.pid \in Pids /\ i \in Paginas BY <1>1, PaginaDeDireccion DEF TypeOK, CpuT
<1>3. PICK m : m = procesos_activos[cpu.pid].tabla[i] OBVIOUS
<1>4. MarcoDePagina(cpu.pid, cpu.dir) = m BY <1>1, <1>3 DEF MarcoDePagina
<1>5. m # SinMarco BY <1>4 DEF AccesoTarde, PaginaPresente
<1>6. m \notin marcos_libres BY <1>2, <1>3 DEF DuenoUnico, LibreSinDueno
<1>7. ASSUME NEW q \in Pids \ {cpu.pid}, NEW j \in Paginas
      PROVE  procesos_activos[q].tabla[j] # m
  BY <1>2, <1>3, <1>5 DEF DuenoUnico, UnDueno
<1> QED BY <1>4, <1>6, <1>7 DEF MarcoAjeno

(* A step that makes the access late changes the access's own process.      *)
LEMMA TardePaso ==
    ASSUME TypeOK, [Next]_vars, AccesoTarde', ~ AccesoTarde
    PROVE  CambiandoDiccionario /\ Destino(pedido) = cpu'.pid
<1>1. CASE UNCHANGED <<procesos_activos, cpu>> BY <1>1, TardeIgual
<1>2. CASE AtenderKernel
  <2>1. cpu' = cpu BY <1>2, SoloDestino
  <2>2. procesos_activos'[cpu.pid] # procesos_activos[cpu.pid]
    BY <2>1 DEF AccesoTarde, PaginaPresente, Traducir, MarcoDePagina
  <2>3. cpu.pid \in Pids BY DEF TypeOK, CpuT
  <2> QED BY <1>2, <2>1, <2>2, <2>3, SoloDestino
<1>3. CASE PedirAcceso
  <2>1. procesos_activos' = procesos_activos BY <1>3 DEF PedirAcceso, procesos
  <2>2. PICK pid \in Pids, dir \in Direcciones :
            \/ /\ cpu'.pid = pid /\ cpu'.dir = dir
               /\ \/ PaginaPresente(pid, dir) /\ cpu'.fisica = Traducir(pid, dir)
                  \/ Liberando(pid)
            \/ UNCHANGED cpu
    <3>1. PICK pid \in Pids, dir \in Direcciones, op \in {"LECTURA_MEMORIA", "ESCRITURA_MEMORIA"},
               valor \in Valores :
                 \/ \E fisica \in (IF PaginaPresente(pid, dir) THEN {Traducir(pid, dir)} ELSE {})
                                   \cup (IF Liberando(pid) THEN FisicaPerdida ELSE {}) :
                       cpu' = [fase |-> "acceso", op |-> op, pid |-> pid, dir |-> dir,
                               valor |-> valor, fisica |-> fisica]
                 \/ UNCHANGED cpu
      BY <1>3, Zenon DEF PedirAcceso
    <3> QED BY <3>1
  <2>3. CASE UNCHANGED cpu BY <1>1, <2>1, <2>3
  <2>4. CASE PaginaPresente(pid, dir) /\ cpu'.fisica = Traducir(pid, dir)
             /\ cpu'.pid = pid /\ cpu'.dir = dir
    BY <2>1, <2>4 DEF AccesoTarde, PaginaPresente, Traducir, MarcoDePagina
  <2>5. CASE Liberando(pid) /\ cpu'.pid = pid
    BY <2>5 DEF Liberando, CambiandoDiccionario
  <2> QED BY <2>2, <2>3, <2>4, <2>5
<1>4. CASE AtenderCpu /\ ~ PedirAcceso
  BY <1>4 DEF AtenderCpu, ArchivoListo, SolicitudInstruccion, CompletarLectura,
       CompletarEscritura, CpuDesconectada, Responder, AccesoTarde, TypeOK, CpuT, procesos
<1> QED BY <1>1, <1>2, <1>3, <1>4 DEF Next, vars, procesos

(* The copy goes to the page that was translated, and to nobody else's,     *)
(* unless a request about that very process comes in between.               *)
THEOREM AccesoSeguro == Spec => SoloSuPedidoLoQuita
<1> DEFINE SoloEl == AccesoPerdido' /\ ~ AccesoPerdido
                     => CambiandoDiccionario /\ Destino(pedido) = cpu'.pid
<1>1. Init => TypeOK /\ DuenoUnico BY TipoInicial, DuenoInicial
<1>2. TypeOK /\ DuenoUnico /\ [Next]_vars => (TypeOK /\ DuenoUnico)' BY TipoPaso, DuenoPaso
<1>3. (TypeOK /\ DuenoUnico)' => (AccesoPerdido' <=> AccesoTarde') BY PerdidoEsTarde, PTL
<1>4. TypeOK /\ DuenoUnico /\ [Next]_vars => [SoloEl]_vars
  BY <1>2, <1>3, PerdidoEsTarde, TardePaso
<1> QED BY <1>1, <1>2, <1>4, PTL DEF Spec, SoloSuPedidoLoQuita

----------------------------------------------------------------------------
(* A promise of room.                                                       *)

(* While it can bear on a creation, the promise is of frames that are free; *)
(* the answer is forgotten when anything but a creation is asked.           *)
PromesaInv ==
    /\ pedido # Nada /\ pedido.op # "CREAR_PROCESO" => confirmacion = SinConfirmar
    /\ confirmacion.op = "CONSULTAR_ESPACIO" /\ confirmacion.ok =>
          HayEspacio(MarcosNecesarios(confirmacion.tam))

LEMMA LibresFinitos == ASSUME TypeOK PROVE Cardinality(marcos_libres) \in Nat
<1>1. TotalMarcos \in Nat BY SupuestoTamanios DEF TotalMarcos
<1>2. IsFiniteSet(Marcos) BY <1>1, FS_Interval DEF Marcos
<1> QED BY <1>2, FS_Subset, FS_CardinalityType DEF TypeOK

LEMMA MarcosNat == ASSUME NEW tam \in Nat PROVE MarcosNecesarios(tam) \in Nat
  BY SupuestoTamanios, SMT DEF MarcosNecesarios

LEMMA PromesaPaso == TypeOK /\ PromesaInv /\ [Next]_vars => PromesaInv'
<1> SUFFICES ASSUME TypeOK, PromesaInv, [Next]_vars PROVE PromesaInv'
  OBVIOUS
<1>0. pedido \in Pedidos \cup {Nada} BY DEF TypeOK
<1>1. CASE UNCHANGED <<marcos_libres, pedido, confirmacion>>
  BY <1>1 DEF PromesaInv, HayEspacio
<1>2. CASE RecibirPedido
  <2>1. marcos_libres' = marcos_libres BY <1>2 DEF RecibirPedido
  <2>2. CASE pedido'.op = "CREAR_PROCESO"
    BY <1>2, <2>1, <2>2 DEF RecibirPedido, PromesaInv, HayEspacio
  <2>3. CASE pedido'.op # "CREAR_PROCESO"
    BY <1>2, <2>3 DEF RecibirPedido, PromesaInv, SinConfirmar
  <2> QED BY <2>2, <2>3
<1>3. CASE ConsultarEspacio
  <2> DEFINE tam == Leido(pedido.tam)
             ok  == HayEspacio(MarcosNecesarios(tam))
  <2>1. Confirmar(tam, ok) /\ ok \in BOOLEAN /\ marcos_libres' = marcos_libres
    BY <1>3 DEF ConsultarEspacio, HayEspacio
  <2>2. pedido' = Nada /\ confirmacion'.ok = ok /\ confirmacion'.tam = tam BY <2>1, Confirmado
  <2> QED BY <2>1, <2>2 DEF PromesaInv, HayEspacio
<1>4. ASSUME pedido' = Nada, confirmacion'.op # "CONSULTAR_ESPACIO" PROVE PromesaInv'
  BY <1>4 DEF PromesaInv
<1>5. ASSUME NEW tam, NEW ok \in BOOLEAN, Confirmar(tam, ok), pedido.op # "CONSULTAR_ESPACIO"
      PROVE  PromesaInv'
  BY <1>4, <1>5, Confirmado
<1>6. CASE CrearProceso
  <2>1. Confirmar(Leido(pedido.tam), FALSE) \/ Confirmar(Leido(pedido.tam), TRUE)
    BY <1>6, Zenon DEF CrearProceso
  <2> QED BY <1>5, <1>6, <2>1 DEF CrearProceso
<1>7. CASE RechazarArchivo BY <1>5, <1>7 DEF RechazarArchivo
<1>8. CASE ArchivoVacio BY <1>5, <1>8 DEF ArchivoVacio
<1>9. CASE CargarArchivo BY <1>5, <1>9 DEF CargarArchivo
<1>10. CASE FinalizarProceso
  <2>1. pedido # Nada /\ pedido.op # "CREAR_PROCESO"
    BY <1>0, <1>10, CamposDePedido DEF FinalizarProceso, ConPid
  <2>2. confirmacion = SinConfirmar BY <2>1 DEF PromesaInv
  <2> QED BY <1>4, <1>10, <2>2 DEF FinalizarProceso, SinConfirmar
<1>11. CASE SuspenderProceso BY <1>5, <1>11 DEF SuspenderProceso
<1>12. CASE ReactivarProceso BY <1>5, <1>12 DEF ReactivarProceso
<1>13. CASE DumpProceso \/ VolcarPagina
  <2>1. CASE pedido' = pedido /\ confirmacion' = confirmacion BY <1>1, <1>13, <2>1, PasoDeDump
  <2>2. CASE pedido' = Nada /\ confirmacion'.op = "DUMP_MEMORY" BY <1>4, <2>2
  <2> QED BY <1>13, <2>1, <2>2, PasoDeDump
<1>14. CASE AtenderCpu
  BY <1>1, <1>14
     DEF AtenderCpu, ArchivoListo, SolicitudInstruccion, PedirAcceso, CompletarLectura,
         CompletarEscritura, CpuDesconectada
<1>15. CASE UNCHANGED vars BY <1>1, <1>15 DEF vars
<1> QED BY <1>2, <1>3, <1>6, <1>7, <1>8, <1>9, <1>10, <1>11, <1>12, <1>13, <1>14, <1>15
        DEF Next, AtenderKernel

(* Only a creation answers a creation.                                      *)
LEMMA SoloCrearResponde ==
    ASSUME TypeOK, [Next]_vars, pedido.op = "CREAR_PROCESO", pedido' = Nada
    PROVE  CrearProceso
<1>0. pedido # Nada BY CamposDePedido DEF TypeOK
<1>1. CASE AtenderCpu
  BY <1>0, <1>1
     DEF AtenderCpu, ArchivoListo, SolicitudInstruccion, PedirAcceso, CompletarLectura,
         CompletarEscritura, CpuDesconectada
<1>2. CASE AtenderKernel
  BY <1>0, <1>2 DEF AtenderKernel, RecibirPedido, ConsultarEspacio, RechazarArchivo, ArchivoVacio,
       CargarArchivo, FinalizarProceso, SuspenderProceso, ReactivarProceso, DumpProceso, VolcarPagina
<1> QED BY <1>0, <1>1, <1>2 DEF Next, vars

(* A creation that follows the promise of room for it is not refused.       *)
THEOREM PromesaCumplida == Spec => ConsultaVale
<1>1. Init => TypeOK /\ PromesaInv
  BY TipoInicial DEF Init, PromesaInv, SinConfirmar
<1>2. TypeOK /\ PromesaInv /\ [Next]_vars => (TypeOK /\ PromesaInv)'
  BY TipoPaso, PromesaPaso
<1> DEFINE Vale == (/\ pedido.op = "CREAR_PROCESO" /\ pedido' = Nada
                    /\ confirmacion.op = "CONSULTAR_ESPACIO" /\ confirmacion.ok
                    /\ confirmacion.tam = Leido(pedido.tam)) => confirmacion'.ok
<1>3. TypeOK /\ PromesaInv /\ [Next]_vars => [Vale]_vars
  <2> SUFFICES ASSUME TypeOK, PromesaInv, [Next]_vars,
                      pedido.op = "CREAR_PROCESO", pedido' = Nada,
                      confirmacion.op = "CONSULTAR_ESPACIO", confirmacion.ok,
                      confirmacion.tam = Leido(pedido.tam)
               PROVE  confirmacion'.ok
    OBVIOUS
  <2>1. CrearProceso BY SoloCrearResponde
  <2>2. HayEspacio(MarcosNecesarios(Leido(pedido.tam))) BY DEF PromesaInv
  <2>3. Leido(pedido.tam) \in Nat BY CamposDePedido DEF TypeOK
  <2>4. ~ FaltanMarcos(MarcosNecesarios(Leido(pedido.tam)))
    BY <2>2, <2>3, LibresFinitos, MarcosNat DEF HayEspacio, FaltanMarcos
  <2>5. Confirmar(Leido(pedido.tam), TRUE) BY <2>1, <2>4 DEF CrearProceso
  <2> QED BY <2>5, Confirmado
<1> QED BY <1>1, <1>2, <1>3, PTL DEF Spec, ConsultaVale
----------------------------------------------------------------------------
(* No frame is lost, while pids are not reused.                             *)

MarcoConDueno == \A m \in Marcos : m \in marcos_libres
                    \/ \E p \in Pids, i \in Paginas : procesos_activos[p].tabla[i] = m
(* A process is in one dictionary at most, and one being created in none:   *)
(* no entry that holds frames is written over.                              *)
UnDiccionario == \A p \in Pids : ~ (Hay(procesos_activos, p) /\ Hay(procesos_suspendidos, p))
PidSinUso(p)  == ~ Hay(procesos_activos, p) /\ ~ Hay(procesos_suspendidos, p)
DestinoNuevo  == pedido.op \in {"ENVIO_ARCHIVO_KERNEL", "CREAR_PROCESO"} => PidSinUso(Destino(pedido))
FugasInv      == MarcoConDueno /\ UnDiccionario /\ DestinoNuevo

(* A creation that is not refused has an entry of the table for each frame. *)
LEMMA CabeEnLaTabla ==
    ASSUME TypeOK, NEW tam \in Nat, ~ FaltanMarcos(MarcosNecesarios(tam))
    PROVE  0..MarcosNecesarios(tam) - 1 \subseteq Paginas
<1>1. TotalMarcos \in Nat /\ TotalMarcos <= ENTRADAS_POR_TABLA /\ ENTRADAS_POR_TABLA \in Nat
  BY SupuestoTamanios DEF TotalMarcos
<1>2. IsFiniteSet(Marcos) /\ Cardinality(Marcos) = TotalMarcos BY <1>1, FS_Interval DEF Marcos
<1>3. Cardinality(marcos_libres) <= TotalMarcos BY <1>2, FS_Subset DEF TypeOK
<1>4. MarcosNecesarios(tam) \in Nat /\ Cardinality(marcos_libres) \in Nat BY MarcosNat, LibresFinitos
<1>5. MarcosNecesarios(tam) <= ENTRADAS_POR_TABLA
  BY <1>1, <1>3, <1>4 DEF FaltanMarcos
<1> QED BY <1>1, <1>4, <1>5 DEF Paginas

(* A creation over an unused pid gives each frame it takes to a page.       *)
LEMMA FugasAlCrear ==
    ASSUME TypeOK, FugasInv, NEW pid \in Pids, PidSinUso(pid), NEW tam \in Nat,
           ~ FaltanMarcos(MarcosNecesarios(tam)),
           NEW f \in PrimerosLibres(MarcosNecesarios(tam)), CrearCon(pid, tam, f),
           procesos_suspendidos' = procesos_suspendidos, pedido' = Nada
    PROVE  FugasInv'
<1>1. DOMAIN f \subseteq Paginas BY CabeEnLaTabla DEF PrimerosLibres
<1>2. \A i \in DOMAIN f : TablaCon(f)[i] = f[i] BY <1>1 DEF TablaCon
<1>3. /\ procesos_activos'[pid].tabla = TablaCon(f)
      /\ \A p \in Pids : p # pid => procesos_activos'[p] = procesos_activos[p]
  BY DEF CrearCon, Clave, TypeOK
<1>4. \A i \in Paginas : procesos_activos[pid].tabla[i] = SinMarco
  BY DEF PidSinUso, Hay, SinProceso, TablaVacia
<1>5. ASSUME NEW m \in Marcos
      PROVE  m \in marcos_libres' \/ \E p \in Pids, i \in Paginas : procesos_activos'[p].tabla[i] = m
  <2>1. m # SinMarco BY SupuestoTamanios DEF Marcos, SinMarco, TotalMarcos
  <2>2. CASE m \in marcos_libres
    <3>1. m \in marcos_libres' \/ \E i \in DOMAIN f : f[i] = m BY <2>2 DEF CrearCon
    <3> QED BY <1>1, <1>2, <1>3, <3>1
  <2>3. CASE \E p \in Pids, i \in Paginas : procesos_activos[p].tabla[i] = m
    BY <1>3, <1>4, <2>1, <2>3
  <2> QED BY <2>2, <2>3 DEF FugasInv, MarcoConDueno
<1>6. UnDiccionario' BY <1>3 DEF FugasInv, UnDiccionario, PidSinUso, Hay
<1>7. DestinoNuevo' BY DEF DestinoNuevo, Nada
<1> QED BY <1>5, <1>6, <1>7 DEF FugasInv, MarcoConDueno

(* Frames given back are free, and the process has left procesos_activos.   *)
LEMMA FugasAlSoltar ==
    ASSUME TypeOK, FugasInv, NEW pid \in Pids,
           marcos_libres' = marcos_libres \cup MarcosDe(procesos_activos[pid].tabla),
           procesos_activos' = [procesos_activos EXCEPT ![pid] = SinProceso],
           \A p \in Pids : p # pid => procesos_suspendidos'[p] = procesos_suspendidos[p],
           pedido' = Nada
    PROVE  FugasInv'
<1>1. /\ procesos_activos'[pid] = SinProceso
      /\ \A p \in Pids : p # pid => procesos_activos'[p] = procesos_activos[p]
  BY DEF TypeOK
<1>2. ASSUME NEW m \in Marcos
      PROVE  m \in marcos_libres' \/ \E p \in Pids, i \in Paginas : procesos_activos'[p].tabla[i] = m
  <2>1. m # SinMarco BY SupuestoTamanios DEF Marcos, SinMarco, TotalMarcos
  <2>2. CASE m \in marcos_libres BY <2>2
  <2>3. CASE \E p \in Pids, i \in Paginas : procesos_activos[p].tabla[i] = m
    <3>1. PICK p \in Pids, i \in Paginas : procesos_activos[p].tabla[i] = m BY <2>3
    <3>2. CASE p = pid BY <2>1, <3>1, <3>2 DEF MarcosDe
    <3>3. CASE p # pid BY <1>1, <3>1, <3>3
    <3> QED BY <3>2, <3>3
  <2> QED BY <2>2, <2>3 DEF FugasInv, MarcoConDueno
<1>3. UnDiccionario' BY <1>1 DEF FugasInv, UnDiccionario, Hay
<1>4. DestinoNuevo' BY DEF DestinoNuevo, Nada
<1> QED BY <1>2, <1>3, <1>4 DEF FugasInv, MarcoConDueno

(* Steps that move no frame and no process.                                 *)
LEMMA FugasQuieto ==
    ASSUME FugasInv, UNCHANGED <<marcos_libres, procesos_activos, procesos_suspendidos>>,
           pedido' \in {pedido, Nada}
    PROVE  FugasInv'
<1>1. MarcoConDueno' /\ UnDiccionario' BY DEF FugasInv, MarcoConDueno, UnDiccionario, Hay
<1>2. CASE pedido' = Nada BY <1>1, <1>2 DEF FugasInv, DestinoNuevo, Nada
<1>3. CASE pedido' = pedido BY <1>1, <1>3 DEF FugasInv, DestinoNuevo, PidSinUso, Hay, Destino
<1> QED BY <1>2, <1>3

(* One step per handler of the kernel.                                      *)
LEMMA FugasPaso ==
    ASSUME PidsNuevos, TypeOK, DuenoUnico, FugasInv, [Next]_vars
    PROVE  FugasInv'
<1>0. pedido \in Pedidos \cup {Nada} BY DEF TypeOK
<1>1. CASE UNCHANGED vars BY <1>1, FugasQuieto DEF vars, procesos
<1>2. CASE RecibirPedido
  <2>1. UNCHANGED <<marcos_libres, procesos_activos, procesos_suspendidos>>
    BY <1>2 DEF RecibirPedido, procesos
  <2>2. DestinoNuevo' BY <1>2, <2>1 DEF RecibirPedido, DestinoNuevo, PidSinUso, Hay
  <2> QED BY <2>1, <2>2 DEF FugasInv, MarcoConDueno, UnDiccionario, Hay
<1>3. CASE ConsultarEspacio
  BY <1>3, FugasQuieto DEF ConsultarEspacio, Confirmar, procesos
<1>4. CASE CrearProceso
  <2>1. Leido(pedido.tam) \in Nat /\ Leido(pedido.pid) \in Pids /\ Destino(pedido) = Leido(pedido.pid)
    BY <1>0, <1>4, CamposDePedido DEF CrearProceso
  <2>2. pedido' = Nada
    <3>1. Confirmar(Leido(pedido.tam), FALSE) \/ Confirmar(Leido(pedido.tam), TRUE)
      BY <1>4, Zenon DEF CrearProceso
    <3> QED BY <3>1, Confirmado
  <2>3. procesos_suspendidos' = procesos_suspendidos BY <1>4 DEF CrearProceso
  <2>4. CASE UNCHANGED <<marcos_libres, procesos_activos>> BY <2>2, <2>3, <2>4, FugasQuieto
  <2>5. CASE /\ ~ FaltanMarcos(MarcosNecesarios(Leido(pedido.tam)))
             /\ \E f \in PrimerosLibres(MarcosNecesarios(Leido(pedido.tam))) :
                   CrearCon(Leido(pedido.pid), Leido(pedido.tam), f)
    <3>1. PidSinUso(Leido(pedido.pid)) BY <1>4, <2>1 DEF CrearProceso, FugasInv, DestinoNuevo
    <3> QED BY <2>1, <2>2, <2>3, <2>5, <3>1, FugasAlCrear
  <2> QED BY <1>4, <2>4, <2>5 DEF CrearProceso
<1>5. CASE RechazarArchivo BY <1>5, FugasQuieto DEF RechazarArchivo, Confirmar, procesos
<1>6. CASE ArchivoVacio
  <2>1. 0 \in Pids /\ ~ Hay(procesos_activos, 0)
    BY <1>0, <1>6, CamposDePedido, SupuestoPedidos
       DEF ArchivoVacio, FugasInv, DestinoNuevo, PidSinUso
  <2>2. procesos_activos' = procesos_activos BY <1>6, <2>1 DEF ArchivoVacio, Hay, TypeOK
  <2> QED BY <1>6, <2>2, FugasQuieto DEF ArchivoVacio, Confirmar
<1>7. CASE CargarArchivo
  <2>1. pedido.tam \in Nat /\ Destino(pedido) = 0 BY <1>0, <1>7, CamposDePedido DEF CargarArchivo
  <2>2. PidSinUso(0) BY <1>7, <2>1 DEF CargarArchivo, FugasInv, DestinoNuevo
  <2> QED BY <1>7, <2>1, <2>2, FugasAlCrear, SupuestoPedidos DEF CargarArchivo, Confirmar
<1>8. CASE FinalizarProceso
  <2>1. Leido(pedido.pid) \in Pids BY <1>0, <1>8, CamposDePedido DEF FinalizarProceso, ConPid
  <2> QED BY <1>8, <2>1, FugasAlSoltar DEF FinalizarProceso
<1>9. CASE SuspenderProceso
  <2> DEFINE pid == Leido(pedido.pid)
  <2>1. pid \in Pids BY <1>0, <1>9, CamposDePedido DEF SuspenderProceso, ConPid
  <2>2. pedido' = Nada BY <1>9, Confirmado DEF SuspenderProceso
  <2>3. CASE Hay(procesos_activos, pid)
    <3>1. \A p \in Pids : p # pid => procesos_suspendidos'[p] = procesos_suspendidos[p]
      BY <1>9, <2>3 DEF SuspenderProceso, TypeOK
    <3> QED BY <1>9, <2>1, <2>2, <2>3, <3>1, FugasAlSoltar DEF SuspenderProceso
  <2>4. CASE ~ Hay(procesos_activos, pid)
    BY <1>9, <2>2, <2>4, FugasQuieto DEF SuspenderProceso, procesos
  <2> QED BY <2>3, <2>4
<1>10. CASE ReactivarProceso
  <2> DEFINE pid == Leido(pedido.pid)
  <2>1. pid \in Pids BY <1>0, <1>10, CamposDePedido DEF ReactivarProceso, ConPid
  <2>2. pedido' = Nada BY <1>10, Confirmado DEF ReactivarProceso
  <2>3. CASE Hay(procesos_suspendidos, pid)
    <3>1. /\ procesos_suspendidos'[pid] = SinProceso
          /\ \A p \in Pids : p # pid => /\ procesos_activos'[p] = procesos_activos[p]
                                        /\ procesos_suspendidos'[p] = procesos_suspendidos[p]
          /\ marcos_libres' = marcos_libres
      BY <1>10, <2>1, <2>3 DEF ReactivarProceso, TypeOK
    <3>2. \A i \in Paginas : procesos_activos[pid].tabla[i] = SinMarco
      BY <2>1, <2>3 DEF FugasInv, UnDiccionario, Hay, SinProceso, TablaVacia
    <3>3. \A m \in Marcos : m # SinMarco BY SupuestoTamanios DEF Marcos, SinMarco, TotalMarcos
    <3>4. MarcoConDueno'
      <4> SUFFICES ASSUME NEW m \in Marcos, m \notin marcos_libres
                   PROVE  \E p \in Pids, i \in Paginas : procesos_activos'[p].tabla[i] = m
        BY <3>1 DEF MarcoConDueno
      <4>1. PICK p \in Pids, i \in Paginas : procesos_activos[p].tabla[i] = m
        BY DEF FugasInv, MarcoConDueno
      <4>2. p # pid BY <3>2, <3>3, <4>1
      <4> QED BY <3>1, <4>1, <4>2
    <3>5. UnDiccionario' BY <3>1 DEF FugasInv, UnDiccionario, Hay
    <3>6. DestinoNuevo' BY <2>2 DEF DestinoNuevo, Nada
    <3> QED BY <3>4, <3>5, <3>6 DEF FugasInv
  <2>4. CASE ~ Hay(procesos_suspendidos, pid)
    BY <1>10, <2>2, <2>4, FugasQuieto DEF ReactivarProceso, procesos
  <2> QED BY <2>3, <2>4
<1>11. CASE DumpProceso \/ VolcarPagina BY <1>11, PasoDeDump, FugasQuieto
<1>12. CASE AtenderCpu
  BY <1>12, FugasQuieto
     DEF AtenderCpu, ArchivoListo, SolicitudInstruccion, PedirAcceso, CompletarLectura,
         CompletarEscritura, CpuDesconectada, procesos
<1> QED BY <1>1, <1>2, <1>3, <1>4, <1>5, <1>6, <1>7, <1>8, <1>9, <1>10, <1>11, <1>12
        DEF Next, AtenderKernel

(* While no pid is created twice, a frame that is not free belongs to an    *)
(* active process.                                                          *)
THEOREM NingunMarcoPerdido == ASSUME PidsNuevos PROVE Spec => []SinFugas
<1>1. Init => TypeOK /\ DuenoUnico /\ FugasInv
  <2>1. Init => FugasInv
    BY DEF Init, FugasInv, MarcoConDueno, UnDiccionario, DestinoNuevo, Hay, Nada
  <2> QED BY <2>1, TipoInicial, DuenoInicial
<1>2. TypeOK /\ DuenoUnico /\ FugasInv /\ [Next]_vars => (TypeOK /\ DuenoUnico /\ FugasInv)'
  BY TipoPaso, DuenoPaso, FugasPaso
<1>3. TypeOK /\ DuenoUnico /\ FugasInv => SinFugas
  <2> SUFFICES ASSUME TypeOK, DuenoUnico, FugasInv PROVE SinFugas
    OBVIOUS
  <2>1. \A p \in Pids : MarcosDe(procesos_activos[p].tabla) \subseteq Marcos
    BY MarcosDeTabla DEF TypeOK, ProcesoT
  <2>2. \A p \in Pids : \A m \in MarcosDe(procesos_activos[p].tabla) : m \notin marcos_libres
    BY DEF DuenoUnico, LibreSinDueno, MarcosDe
  <2>3. ASSUME NEW m \in Marcos, m \notin marcos_libres
        PROVE  \E p \in Pids : m \in MarcosDe(procesos_activos[p].tabla)
    <3>1. m # SinMarco BY SupuestoTamanios DEF Marcos, SinMarco, TotalMarcos
    <3> QED BY <2>3, <3>1 DEF FugasInv, MarcoConDueno, MarcosDe
  <2> QED BY <2>1, <2>2, <2>3 DEF SinFugas
<1> QED BY <1>1, <1>2, <1>3, PTL DEF Spec

----------------------------------------------------------------------------
(* Memory implements MemoriaPrivada.                                        *)

(* A byte has one page and one offset.                                      *)
LEMMA PaginaYByte ==
    ASSUME NEW b \in Nat
    PROVE  /\ b \div TAM_PAGINA \in Nat /\ b % TAM_PAGINA \in 0..TAM_PAGINA - 1
           /\ b = (b \div TAM_PAGINA) * TAM_PAGINA + (b % TAM_PAGINA)
  BY SupuestoTamanios

(* Two ways to write a byte are one way.                                    *)
LEMMA UnaPagina ==
    ASSUME NEW i \in Nat, NEW j \in Nat, NEW k \in 0..TAM_PAGINA - 1, NEW l \in 0..TAM_PAGINA - 1,
           i * TAM_PAGINA + k = j * TAM_PAGINA + l
    PROVE  i = j /\ k = l
<1> USE SupuestoTamanios
<1>1. i * TAM_PAGINA \in Nat /\ j * TAM_PAGINA \in Nat BY ProductoNat
<1>2. ~ (i < j)
  <2> SUFFICES ASSUME i < j PROVE FALSE OBVIOUS
  <2>1. i * TAM_PAGINA + TAM_PAGINA <= j * TAM_PAGINA BY ProductoCota
  <2> QED BY <1>1, <2>1
<1>3. ~ (j < i)
  <2> SUFFICES ASSUME j < i PROVE FALSE OBVIOUS
  <2>1. j * TAM_PAGINA + TAM_PAGINA <= i * TAM_PAGINA BY ProductoCota
  <2> QED BY <1>1, <2>1
<1>4. i = j BY <1>2, <1>3
<1> QED BY <1>1, <1>4

(* The page and the offset of a byte are what it is written with.           *)
LEMMA PaginaDe ==
    ASSUME NEW i \in Nat, NEW k \in 0..TAM_PAGINA - 1
    PROVE  (i * TAM_PAGINA + k) \div TAM_PAGINA = i /\ (i * TAM_PAGINA + k) % TAM_PAGINA = k
<1> DEFINE b == i * TAM_PAGINA + k
<1>1. b \in Nat BY ProductoNat, SupuestoTamanios
<1> HIDE DEF b
<1>2. /\ b \div TAM_PAGINA \in Nat /\ b % TAM_PAGINA \in 0..TAM_PAGINA - 1
      /\ b = (b \div TAM_PAGINA) * TAM_PAGINA + (b % TAM_PAGINA)
  BY <1>1, PaginaYByte
<1>3. b = i * TAM_PAGINA + k BY DEF b
<1> DEFINE q == b \div TAM_PAGINA
           r == b % TAM_PAGINA
<1>5. q \in Nat /\ r \in 0..TAM_PAGINA - 1 /\ q * TAM_PAGINA + r = i * TAM_PAGINA + k
  BY Zenon, <1>2, <1>3
<1> HIDE DEF q, r
<1>6. q = i /\ r = k BY <1>5, UnaPagina
<1>4. b \div TAM_PAGINA = i /\ b % TAM_PAGINA = k BY <1>6 DEF q, r
<1> QED BY <1>4 DEF b

(* The bytes of n pages are on pages below n.                               *)
LEMMA PaginaBajo ==
    ASSUME NEW n \in Nat, NEW b \in 0..n * TAM_PAGINA - 1
    PROVE  b \div TAM_PAGINA \in 0..n - 1 /\ b % TAM_PAGINA \in 0..TAM_PAGINA - 1
<1> USE SupuestoTamanios
<1>1. n * TAM_PAGINA \in Nat BY ProductoNat
<1>2. b \in Nat /\ b < n * TAM_PAGINA BY <1>1
<1> DEFINE q == b \div TAM_PAGINA
           r == b % TAM_PAGINA
<1>3. q \in Nat /\ r \in 0..TAM_PAGINA - 1 /\ b = q * TAM_PAGINA + r BY <1>2, PaginaYByte
<1> HIDE DEF q, r
<1>4. q < n
  <2> SUFFICES ASSUME ~ (q < n) PROVE FALSE OBVIOUS
  <2>1. CASE q = n BY <1>1, <1>2, <1>3, <2>1
  <2>2. CASE n < q
    <3>1. n * TAM_PAGINA + TAM_PAGINA <= q * TAM_PAGINA BY <1>3, <2>2, ProductoCota
    <3>2. q * TAM_PAGINA \in Nat BY <1>3, ProductoNat
    <3> QED BY <1>1, <1>2, <1>3, <3>1, <3>2
  <2> QED BY <1>3, <2>1, <2>2
<1>5. q \in 0..n - 1 BY <1>3, <1>4
<1> QED BY <1>3, <1>5 DEF q, r

(* An int that does not cross the end of its page is in one page.           *)
LEMMA MismaPagina ==
    ASSUME NEW dir \in Nat, NEW k \in Nat, (dir % TAM_PAGINA) + k < TAM_PAGINA
    PROVE  /\ (dir + k) \div TAM_PAGINA = dir \div TAM_PAGINA
           /\ (dir + k) % TAM_PAGINA = (dir % TAM_PAGINA) + k
<1> USE SupuestoTamanios
<1> DEFINE q == dir \div TAM_PAGINA
           r == dir % TAM_PAGINA
<1>1. q \in Nat /\ r \in 0..TAM_PAGINA - 1 /\ dir = q * TAM_PAGINA + r BY PaginaYByte
<1> HIDE DEF q, r
<1>2. r + k < TAM_PAGINA BY DEF r
<1>3. r + k \in 0..TAM_PAGINA - 1 BY <1>1, <1>2
<1>4. q * TAM_PAGINA \in Nat BY <1>1, ProductoNat
<1>5. dir + k = q * TAM_PAGINA + (r + k) BY <1>1, <1>4
<1>6. (dir + k) \div TAM_PAGINA = q /\ (dir + k) % TAM_PAGINA = r + k BY <1>1, <1>3, <1>5, PaginaDe
<1> QED BY <1>6 DEF q, r

(* What the theorem leaves to the configuration and to the programs.        *)
(* The places of two pids in swap are 1000 apart (memoria.c:372), and a     *)
(* process has at most the machine's frames when it goes there: with this   *)
(* much memory no place is of two processes.                                *)
LugaresSeparados == TAM_MEMORIA <= 1000

(* leer_memoria and escribir_memoria take a whole int from the frame of its *)
(* first byte (memoria.c:276), and traducir_direccion takes the page modulo *)
(* ENTRADAS_POR_TABLA.                                                      *)
AccesosEnSuPagina ==
    \A dir \in Direcciones : /\ dir \div TAM_PAGINA < ENTRADAS_POR_TABLA
                             /\ (dir % TAM_PAGINA) + TAM_INT <= TAM_PAGINA

(* The places in swap of the pages of all processes never overlap.          *)
LEMMA LugarUnico ==
    ASSUME LugaresSeparados, NEW p \in Nat, NEW q \in Nat,
           NEW i \in 0..TotalMarcos - 1, NEW j \in 0..TotalMarcos - 1,
           NEW k \in 0..TAM_PAGINA - 1, NEW l \in 0..TAM_PAGINA - 1,
           Posicion(p, i) + k = Posicion(q, j) + l
    PROVE  p = q /\ i = j /\ k = l
<1> USE SupuestoTamanios
<1>1. TotalMarcos \in Nat /\ TotalMarcos * TAM_PAGINA <= TAM_MEMORIA BY SMT DEF TotalMarcos
<1>2. ASSUME NEW m \in 0..TotalMarcos - 1, NEW o \in 0..TAM_PAGINA - 1
      PROVE  m * TAM_PAGINA + o \in 0..999 /\ m * TAM_PAGINA \in Nat
  <2>1. m \in Nat /\ m < TotalMarcos BY <1>1
  <2>2. m * TAM_PAGINA + TAM_PAGINA <= TotalMarcos * TAM_PAGINA BY <1>1, <2>1, ProductoCota
  <2>3. m * TAM_PAGINA \in Nat /\ TotalMarcos * TAM_PAGINA \in Nat BY <1>1, <2>1, ProductoNat
  <2> QED BY <1>1, <2>2, <2>3 DEF LugaresSeparados
<1>3. /\ i * TAM_PAGINA + k \in 0..999 /\ i * TAM_PAGINA \in Nat
      /\ j * TAM_PAGINA + l \in 0..999 /\ j * TAM_PAGINA \in Nat
  <2>1. i * TAM_PAGINA + k \in 0..999 /\ i * TAM_PAGINA \in Nat BY Zenon, <1>2
  <2>2. j * TAM_PAGINA + l \in 0..999 /\ j * TAM_PAGINA \in Nat BY Zenon, <1>2
  <2> QED BY <2>1, <2>2
<1>4. p * 1000 + (i * TAM_PAGINA + k) = q * 1000 + (j * TAM_PAGINA + l) BY <1>3 DEF Posicion
<1>5. p = q /\ i * TAM_PAGINA + k = j * TAM_PAGINA + l BY <1>3, <1>4
<1>6. i \in Nat /\ j \in Nat BY <1>1
<1> QED BY <1>5, <1>6, UnaPagina

(* Writing pages of a process to swap changes those, and no page of it or   *)
(* of another process besides.                                              *)
LEMMA SwapEscrito ==
    ASSUME LugaresSeparados, NEW pid \in Pids, NEW q \in Pids, NEW tabla,
           NEW paginas, paginas \subseteq 0..TotalMarcos - 1,
           NEW j \in 0..TotalMarcos - 1, NEW l \in 0..TAM_PAGINA - 1,
           swap' = SwapCon(pid, tabla, paginas)
    PROVE  LeerSwap(q, j)'[l] = IF q = pid /\ j \in paginas THEN ByteDe(tabla, j, l)
                                                             ELSE LeerSwap(q, j)[l]
<1> DEFINE Escritos == {<<i, k>> : i \in paginas, k \in 0..TAM_PAGINA - 1}
           Lugar(e) == Posicion(pid, e[1]) + e[2]
           Byte(b)  == IF \E e \in Escritos : Lugar(e) = b
                       THEN LET e == CHOOSE e \in Escritos : Lugar(e) = b
                            IN  ByteDe(tabla, e[1], e[2])
                       ELSE swap[b]
           Dominio  == DOMAIN swap \cup {Lugar(e) : e \in Escritos}
           x        == Posicion(q, j) + l
<1>1. swap' = [b \in Dominio |-> Byte(b)] BY DEF SwapCon
<1>2. LeerSwap(q, j)[l] = IF x \in DOMAIN swap THEN swap[x] ELSE 0 BY DEF LeerSwap
<1>3. LeerSwap(q, j)'[l] = IF x \in DOMAIN swap' THEN swap'[x] ELSE 0 BY DEF LeerSwap
<1>4. ASSUME NEW e \in Escritos, Lugar(e) = x PROVE q = pid /\ j \in paginas /\ e[1] = j /\ e[2] = l
  <2>1. e[1] \in paginas /\ e[2] \in 0..TAM_PAGINA - 1 OBVIOUS
  <2>2. pid \in Nat /\ q \in Nat BY SupuestoPedidos
  <2>3. Posicion(pid, e[1]) + e[2] = Posicion(q, j) + l BY <1>4
  <2>4. pid = q /\ e[1] = j /\ e[2] = l BY <2>1, <2>2, <2>3, LugarUnico
  <2> QED BY <2>1, <2>4
<1>5. CASE q = pid /\ j \in paginas
  <2>1. \E e \in Escritos : Lugar(e) = x
    <3>1. <<j, l>> \in Escritos /\ Lugar(<<j, l>>) = x BY <1>5
    <3> HIDE DEF Escritos, Lugar, x
    <3> QED BY <3>1
  <2> DEFINE e == CHOOSE e \in Escritos : Lugar(e) = x
  <2> HIDE DEF Escritos, Lugar, x
  <2>2. e \in Escritos /\ Lugar(e) = x BY Zenon, <2>1
  <2>3. Byte(x) = ByteDe(tabla, e[1], e[2]) BY Zenon, <2>1
  <2>4. e[1] = j /\ e[2] = l BY Zenon, <1>4, <2>2
  <2>5. x \in Dominio BY <2>1
  <2> HIDE DEF e, Byte, Dominio
  <2>6. swap'[x] = ByteDe(tabla, j, l) /\ x \in DOMAIN swap' BY <1>1, <2>3, <2>4, <2>5
  <2> QED BY <1>3, <1>5, <2>6
<1>6. CASE ~ (q = pid /\ j \in paginas)
  <2>1. ~ \E e \in Escritos : Lugar(e) = x BY <1>4, <1>6
  <2>2. Byte(x) = swap[x] /\ (x \in Dominio <=> x \in DOMAIN swap) BY <2>1
  <2> HIDE DEF Escritos, Lugar, x, Byte, Dominio
  <2>3. (x \in DOMAIN swap' <=> x \in DOMAIN swap) /\ (x \in DOMAIN swap => swap'[x] = swap[x])
    BY <1>1, <2>2
  <2> QED BY <1>2, <1>3, <1>6, <2>3
<1> QED BY <1>5, <1>6

(* A process in a dictionary: its size is one that was asked for, it has at *)
(* most the frames of the machine and only the pages it needs are mapped.   *)
RegistroBien(r) ==
    /\ r.tamanio \in Nat /\ MarcosNecesarios(r.tamanio) <= TotalMarcos
    /\ MarcosNecesarios(r.tamanio) * TAM_PAGINA \in ExtensionesPosibles
    /\ \A i \in Paginas : r.tabla[i] # SinMarco => i < MarcosNecesarios(r.tamanio)
RegistrosBien ==
    \A p \in Pids : /\ Hay(procesos_activos, p) => RegistroBien(procesos_activos[p])
                    /\ Hay(procesos_suspendidos, p) => RegistroBien(procesos_suspendidos[p])
(* A dump in progress is of a process that is there.                        *)
VolcadoAbierto == /\ pedido.op = "DUMP_MEMORY" /\ volcado.pid \in Existentes
                  /\ volcado.hechas \in Nat /\ volcado.hechas < ENTRADAS_POR_TABLA
VolcadoBien  == volcado # Nada => pedido = Nada \/ VolcadoAbierto
AccesoPedido == cpu.fase = "acceso" => cpu.dir \in Direcciones
PrivadaInv   == /\ TypeOK /\ DuenoUnico /\ FugasInv
                /\ RegistrosBien /\ VolcadoBien /\ AccesoPedido

(* A table made from new frames is good.                                    *)
LEMMA RegistroNuevo ==
    ASSUME TypeOK, NEW t \in Tamanios, NEW tam \in {t, Leido(t)},
           ~ FaltanMarcos(MarcosNecesarios(tam)), NEW f \in PrimerosLibres(MarcosNecesarios(tam))
    PROVE  RegistroBien([tamanio |-> tam, tabla |-> TablaCon(f)])
<1>1. tam \in Nat BY SupuestoPedidos, LeidoNat
<1>2. MarcosNecesarios(tam) \in Nat BY <1>1, MarcosNat
<1>3. MarcosNecesarios(tam) <= TotalMarcos
  <2>1. TotalMarcos \in Nat BY SupuestoTamanios DEF TotalMarcos
  <2>2. IsFiniteSet(Marcos) /\ Cardinality(Marcos) = TotalMarcos BY <2>1, FS_Interval DEF Marcos
  <2>3. Cardinality(marcos_libres) <= TotalMarcos BY <2>2, FS_Subset DEF TypeOK
  <2>4. Cardinality(marcos_libres) \in Nat BY LibresFinitos
  <2> QED BY <1>2, <2>1, <2>3, <2>4 DEF FaltanMarcos
<1>4. MarcosNecesarios(tam) * TAM_PAGINA \in ExtensionesPosibles BY DEF ExtensionesPosibles
<1>5. DOMAIN f = 0..MarcosNecesarios(tam) - 1 BY DEF PrimerosLibres
<1>6. \A i \in Paginas : TablaCon(f)[i] # SinMarco => i \in DOMAIN f BY DEF TablaCon
<1>7. \A i \in Paginas : TablaCon(f)[i] # SinMarco => i < MarcosNecesarios(tam)
  BY <1>2, <1>5, <1>6
<1> QED BY <1>1, <1>3, <1>4, <1>7 DEF RegistroBien

(* The size a request names is one of those it may name.                    *)
LEMMA TamanioDePedido ==
    ASSUME TypeOK, pedido.op \in {"ENVIO_ARCHIVO_KERNEL", "CREAR_PROCESO"}
    PROVE  pedido.tam \in Tamanios
  BY DEF TypeOK, Pedidos, ConPid, Nada

(* What changes no process leaves them good.                                *)
LEMMA RegistrosQuietos ==
    ASSUME RegistrosBien, UNCHANGED <<procesos_activos, procesos_suspendidos>>
    PROVE  RegistrosBien'
  BY DEF RegistrosBien, Hay

(* A handler that changes one entry of each dictionary at most.             *)
LEMMA RegistrosCambian ==
    ASSUME RegistrosBien, NEW pid \in Pids,
           \A p \in Pids : p # pid => /\ procesos_activos'[p] = procesos_activos[p]
                                      /\ procesos_suspendidos'[p] = procesos_suspendidos[p],
           procesos_activos'[pid] = SinProceso \/ RegistroBien(procesos_activos'[pid]),
           procesos_suspendidos'[pid] = SinProceso \/ RegistroBien(procesos_suspendidos'[pid])
    PROVE  RegistrosBien'
<1> SUFFICES ASSUME NEW p \in Pids
             PROVE  /\ Hay(procesos_activos', p) => RegistroBien(procesos_activos'[p])
                    /\ Hay(procesos_suspendidos', p) => RegistroBien(procesos_suspendidos'[p])
  BY DEF RegistrosBien, Hay
<1>1. CASE p = pid BY <1>1 DEF Hay
<1>2. CASE p # pid BY <1>2 DEF RegistrosBien, Hay
<1> QED BY <1>1, <1>2

(* Every step leaves the processes good.                                    *)
LEMMA RegistrosPaso ==
    ASSUME PidsNuevos, TypeOK, FugasInv, RegistrosBien, [Next]_vars PROVE RegistrosBien'
<1>0. pedido \in Pedidos \cup {Nada} BY DEF TypeOK
<1> USE DEF procesos
<1>1. CASE UNCHANGED vars BY <1>1, RegistrosQuietos DEF vars
<1>2. CASE RecibirPedido BY <1>2, RegistrosQuietos DEF RecibirPedido
<1>3. CASE ConsultarEspacio BY <1>3, RegistrosQuietos DEF ConsultarEspacio
<1>a. ASSUME NEW pid \in Pids, Destino(pedido) = pid,
             pedido.op \in {"ENVIO_ARCHIVO_KERNEL", "CREAR_PROCESO"},
             NEW tam \in {pedido.tam, Leido(pedido.tam)}, ~ FaltanMarcos(MarcosNecesarios(tam)),
             NEW f \in PrimerosLibres(MarcosNecesarios(tam)), CrearCon(pid, tam, f),
             procesos_suspendidos' = procesos_suspendidos
      PROVE  RegistrosBien'
  <2>1. RegistroBien([tamanio |-> tam, tabla |-> TablaCon(f)])
    BY <1>a, TamanioDePedido, RegistroNuevo
  <2>2. procesos_activos'[pid] = [tamanio |-> tam, tabla |-> TablaCon(f)]
    BY <1>a DEF CrearCon, Clave, TypeOK
  <2>3. \A p \in Pids : p # pid => procesos_activos'[p] = procesos_activos[p]
    BY <1>a DEF CrearCon, Clave, TypeOK
  <2>4. procesos_suspendidos[pid] = SinProceso BY <1>a DEF FugasInv, DestinoNuevo, PidSinUso, Hay
  <2> QED BY <1>a, <2>1, <2>2, <2>3, <2>4, RegistrosCambian
<1>4. CASE CrearProceso
  <2>1. Leido(pedido.pid) \in Pids /\ Destino(pedido) = Leido(pedido.pid)
    BY <1>0, <1>4, CamposDePedido DEF CrearProceso
  <2>2. CASE UNCHANGED <<marcos_libres, procesos_activos>>
    BY <1>4, <2>2, RegistrosQuietos DEF CrearProceso
  <2>3. CASE /\ ~ FaltanMarcos(MarcosNecesarios(Leido(pedido.tam)))
             /\ \E f \in PrimerosLibres(MarcosNecesarios(Leido(pedido.tam))) :
                   CrearCon(Leido(pedido.pid), Leido(pedido.tam), f)
    BY <1>a, <1>4, <2>1, <2>3 DEF CrearProceso
  <2> QED BY <1>4, <2>2, <2>3 DEF CrearProceso
<1>5. CASE RechazarArchivo BY <1>5, RegistrosQuietos DEF RechazarArchivo
<1>6. CASE ArchivoVacio
  <2>1. 0 \in Pids BY SupuestoPedidos
  <2>2. procesos_activos'[0] = SinProceso /\ procesos_suspendidos' = procesos_suspendidos
    BY <1>6, <2>1 DEF ArchivoVacio, TypeOK
  <2>3. \A p \in Pids : p # 0 => procesos_activos'[p] = procesos_activos[p]
    BY <1>6 DEF ArchivoVacio, TypeOK
  <2>4. procesos_suspendidos[0] = SinProceso \/ RegistroBien(procesos_suspendidos[0])
    BY <2>1 DEF RegistrosBien, Hay
  <2> QED BY <2>1, <2>2, <2>3, <2>4, RegistrosCambian
<1>7. CASE CargarArchivo
  <2>1. 0 \in Pids /\ Destino(pedido) = 0
    BY <1>0, <1>7, CamposDePedido, SupuestoPedidos DEF CargarArchivo
  <2> QED BY <1>a, <1>7, <2>1 DEF CargarArchivo
<1>8. CASE FinalizarProceso
  <2>1. Leido(pedido.pid) \in Pids BY <1>0, <1>8, CamposDePedido DEF FinalizarProceso, ConPid
  <2> DEFINE pid == Leido(pedido.pid)
  <2>2. /\ procesos_activos'[pid] = SinProceso /\ procesos_suspendidos' = procesos_suspendidos
        /\ \A p \in Pids : p # pid => procesos_activos'[p] = procesos_activos[p]
    BY <1>8, <2>1 DEF FinalizarProceso, TypeOK
  <2>3. procesos_suspendidos[pid] = SinProceso \/ RegistroBien(procesos_suspendidos[pid])
    BY <2>1 DEF RegistrosBien, Hay
  <2> HIDE DEF pid
  <2> QED BY <2>1, <2>2, <2>3, RegistrosCambian DEF pid
<1>9. CASE SuspenderProceso
  <2> DEFINE pid == Leido(pedido.pid)
             r   == [tamanio |-> procesos_activos[pid].tamanio, tabla |-> TablaVacia]
  <2>1. pid \in Pids BY <1>0, <1>9, CamposDePedido DEF SuspenderProceso, ConPid
  <2>2. CASE Hay(procesos_activos, pid)
    <3>1. /\ procesos_activos'[pid] = SinProceso /\ procesos_suspendidos'[pid] = r
          /\ \A p \in Pids : p # pid => /\ procesos_activos'[p] = procesos_activos[p]
                                        /\ procesos_suspendidos'[p] = procesos_suspendidos[p]
      BY <1>9, <2>1, <2>2 DEF SuspenderProceso, TypeOK
    <3>2. RegistroBien(r) BY <2>1, <2>2 DEF RegistrosBien, RegistroBien, TablaVacia
    <3> HIDE DEF pid, r
    <3> QED BY <2>1, <3>1, <3>2, RegistrosCambian
  <2>3. CASE ~ Hay(procesos_activos, pid)
    BY <1>9, <2>3, RegistrosQuietos DEF SuspenderProceso
  <2> QED BY <2>2, <2>3
<1>10. CASE ReactivarProceso
  <2> DEFINE pid == Leido(pedido.pid)
  <2>1. pid \in Pids BY <1>0, <1>10, CamposDePedido DEF ReactivarProceso, ConPid
  <2>2. CASE Hay(procesos_suspendidos, pid)
    <3>1. /\ procesos_activos'[pid] = procesos_suspendidos[pid]
          /\ procesos_suspendidos'[pid] = SinProceso
          /\ \A p \in Pids : p # pid => /\ procesos_activos'[p] = procesos_activos[p]
                                        /\ procesos_suspendidos'[p] = procesos_suspendidos[p]
      BY <1>10, <2>1, <2>2 DEF ReactivarProceso, TypeOK
    <3>2. RegistroBien(procesos_suspendidos[pid]) BY <2>1, <2>2 DEF RegistrosBien
    <3> HIDE DEF pid
    <3> QED BY <2>1, <3>1, <3>2, RegistrosCambian
  <2>3. CASE ~ Hay(procesos_suspendidos, pid)
    BY <1>10, <2>3, RegistrosQuietos DEF ReactivarProceso
  <2> QED BY <2>2, <2>3
<1>11. CASE DumpProceso \/ VolcarPagina BY <1>11, PasoDeDump, RegistrosQuietos
<1>12. CASE AtenderCpu
  BY <1>12, RegistrosQuietos
     DEF AtenderCpu, ArchivoListo, SolicitudInstruccion, PedirAcceso, CompletarLectura,
         CompletarEscritura, CpuDesconectada
<1> QED BY <1>1, <1>2, <1>3, <1>4, <1>5, <1>6, <1>7, <1>8, <1>9, <1>10, <1>11, <1>12
        DEF Next, AtenderKernel

(* A dump that begins is opened with no page, or refused.                   *)
DumpAbierto(pid) ==
    volcado' = [op |-> "DUMP_MEMORY", pid |-> pid, tamano |-> TamanoVolcado(ProcesoVolcado(pid)),
                hechas |-> 0, paginas |-> <<>>]

LEMMA DumpAbreONo ==
    ASSUME DumpProceso, NEW pid, pid = Leido(pedido.pid)
    PROVE  \/ volcado' = Nada
           \/ ProcesoVolcado(pid) # SinProceso /\ DumpAbierto(pid) /\ pedido' = pedido
  BY Zenon DEF DumpProceso, DumpAbierto

(* The process that is dumped is the one memory has under its pid.          *)
LEMMA ProcesoDelVolcado ==
    ASSUME NEW p \in Pids
    PROVE  /\ ProcesoVolcado(p) = Registro(p)
           /\ ProcesoVolcado(p) # SinProceso => p \in Existentes
  BY DEF ProcesoVolcado, Registro, Existentes, Hay

(* A dump stays until the next request; an access keeps its address.        *)
LEMMA VolcadoPaso ==
    ASSUME TypeOK, VolcadoBien, AccesoPedido, [Next]_vars PROVE VolcadoBien' /\ AccesoPedido'
<1>1. ASSUME UNCHANGED <<procesos, pedido, volcado>> PROVE VolcadoBien'
  BY <1>1 DEF VolcadoBien, VolcadoAbierto, Existentes, Hay, procesos
<1>2. CASE UNCHANGED vars BY <1>1, <1>2 DEF vars, AccesoPedido
<1>3. CASE AtenderKernel
  <2>1. AccesoPedido' BY <1>3, SoloDestino DEF AccesoPedido
  <2>2. CASE pedido' = Nada BY <2>1, <2>2 DEF VolcadoBien
  <2>3. CASE RecibirPedido BY <2>1, <2>3 DEF RecibirPedido, VolcadoBien
  <2>4. CASE DumpProceso
    <3>1. PICK pid \in Pids : pid = Leido(pedido.pid)
      BY <2>4, CamposDePedido DEF DumpProceso, ConPid, TypeOK
    <3>2. UNCHANGED procesos BY <2>4 DEF DumpProceso
    <3>3. CASE volcado' = Nada BY <2>1, <3>3 DEF VolcadoBien
    <3>4. CASE ProcesoVolcado(pid) # SinProceso /\ DumpAbierto(pid) /\ pedido' = pedido
      <4>1. pid \in Existentes BY <3>4, ProcesoDelVolcado
      <4>2. pid \in Existentes' BY <3>2, <4>1 DEF Existentes, Hay, procesos
      <4>3. volcado'.pid = pid /\ volcado'.hechas = 0 BY <3>4 DEF DumpAbierto
      <4> QED BY <2>1, <2>4, <3>4, <4>2, <4>3, SupuestoTamanios
              DEF DumpProceso, VolcadoBien, VolcadoAbierto
    <3> QED BY <2>4, <3>1, <3>3, <3>4, DumpAbreONo
  <2>5. CASE VolcarPagina
    <3>1. pedido # Nada /\ volcado # Nada
      BY <2>5, CamposDePedido DEF VolcarPagina, ConPid, TypeOK
    <3>2. VolcadoAbierto BY <3>1 DEF VolcadoBien
    <3>3. volcado'.pid = volcado.pid /\ volcado'.hechas = volcado.hechas + 1
      BY <2>5 DEF VolcarPagina, ConPagina
    <3>4. UNCHANGED procesos BY <2>5 DEF VolcarPagina
    <3>5. CASE Confirmar(0, TRUE) BY <2>2, <3>5, Confirmado
    <3>6. CASE volcado'.hechas < ENTRADAS_POR_TABLA /\ pedido' = pedido
      <4>1. Existentes' = Existentes BY <3>4 DEF Existentes, Hay, procesos
      <4> QED BY <2>1, <3>2, <3>3, <3>6, <4>1 DEF VolcadoBien, VolcadoAbierto
    <3> QED BY <2>5, <3>5, <3>6 DEF VolcarPagina
  <2>6. CASE ConsultarEspacio BY <2>2, <2>6 DEF ConsultarEspacio, Confirmar
  <2>7. CASE CrearProceso
    <3>1. Confirmar(Leido(pedido.tam), FALSE) \/ Confirmar(Leido(pedido.tam), TRUE)
      BY <2>7, Zenon DEF CrearProceso
    <3> QED BY <2>2, <3>1, Confirmado
  <2>8. CASE RechazarArchivo BY <2>2, <2>8 DEF RechazarArchivo, Confirmar
  <2>9. CASE ArchivoVacio BY <2>2, <2>9 DEF ArchivoVacio, Confirmar
  <2>10. CASE CargarArchivo BY <2>2, <2>10 DEF CargarArchivo, Confirmar
  <2>11. CASE FinalizarProceso BY <2>2, <2>11 DEF FinalizarProceso
  <2>12. CASE SuspenderProceso BY <2>2, <2>12 DEF SuspenderProceso, Confirmar
  <2>13. CASE ReactivarProceso BY <2>2, <2>13 DEF ReactivarProceso, Confirmar
  <2> QED BY <1>3, <2>3, <2>4, <2>5, <2>6, <2>7, <2>8, <2>9, <2>10, <2>11, <2>12, <2>13
          DEF AtenderKernel
<1>4. CASE AtenderCpu
  <2>1. VolcadoBien'
    BY <1>1, <1>4 DEF AtenderCpu, ArchivoListo, SolicitudInstruccion, PedirAcceso,
         CompletarLectura, CompletarEscritura, CpuDesconectada
  <2>2. CASE PedirAcceso
    BY <2>1, <2>2 DEF PedirAcceso, AccesoPedido
  <2>3. CASE ~ PedirAcceso
    BY <1>4, <2>1, <2>3 DEF AtenderCpu, ArchivoListo, SolicitudInstruccion, CompletarLectura,
         CompletarEscritura, CpuDesconectada, Responder, AccesoPedido, TypeOK, CpuT
  <2> QED BY <2>1, <2>2, <2>3
<1> QED BY <1>2, <1>3, <1>4 DEF Next

(* The invariant holds at the start, ...                                    *)
LEMMA PrivadaInicial == Init => PrivadaInv
<1>1. Init => FugasInv
  BY DEF Init, FugasInv, MarcoConDueno, UnDiccionario, DestinoNuevo, Hay, Nada
<1>2. Init => RegistrosBien /\ VolcadoBien /\ AccesoPedido
  BY DEF Init, RegistrosBien, VolcadoBien, AccesoPedido, Hay
<1> QED BY <1>1, <1>2, TipoInicial, DuenoInicial DEF PrivadaInv

(* ... and every step keeps it.                                             *)
LEMMA PrivadaPaso == ASSUME PidsNuevos PROVE PrivadaInv /\ [Next]_vars => PrivadaInv'
  BY TipoPaso, DuenoPaso, FugasPaso, RegistrosPaso, VolcadoPaso DEF PrivadaInv

(* A process that exists: its pages are entries of its table and frames     *)
(* enough of the machine.                                                   *)
LEMMA RegistroDe ==
    ASSUME PrivadaInv, NEW p \in Existentes
    PROVE  /\ p \in Pids /\ RegistroBien(Registro(p))
           /\ Registro(p).tabla \in [Paginas -> Marcos \cup {SinMarco}]
           /\ MarcosNecesarios(Registro(p).tamanio) \in Nat
           /\ 0..MarcosNecesarios(Registro(p).tamanio) - 1 \subseteq 0..TotalMarcos - 1
           /\ 0..TotalMarcos - 1 \subseteq Paginas
<1>1. p \in Pids /\ RegistroBien(Registro(p))
  BY DEF PrivadaInv, RegistrosBien, Existentes, Registro
<1>2. Registro(p) \in ProcesoT BY <1>1 DEF PrivadaInv, TypeOK, Registro
<1>3. MarcosNecesarios(Registro(p).tamanio) \in Nat BY <1>1, MarcosNat DEF RegistroBien
<1>4. TotalMarcos \in Nat /\ TotalMarcos <= ENTRADAS_POR_TABLA /\ ENTRADAS_POR_TABLA \in Nat
  BY SupuestoTamanios DEF TotalMarcos
<1>5. MarcosNecesarios(Registro(p).tamanio) <= TotalMarcos BY <1>1 DEF RegistroBien
<1>6. 0..MarcosNecesarios(Registro(p).tamanio) - 1 \subseteq 0..TotalMarcos - 1 BY <1>3, <1>4, <1>5
<1>7. 0..TotalMarcos - 1 \subseteq Paginas BY <1>4 DEF Paginas
<1> QED BY <1>1, <1>2, <1>3, <1>6, <1>7 DEF ProcesoT

(* The bytes of a process are of the type of a byte.                        *)
LEMMA BytesTipo ==
    ASSUME PrivadaInv, NEW p \in Existentes
    PROVE  Extension(p) \in ExtensionesPosibles /\ BytesDe(p) \in [0..Extension(p) - 1 -> Celdas]
<1> DEFINE n == MarcosNecesarios(Registro(p).tamanio)
<1>1. /\ n \in Nat /\ n * TAM_PAGINA \in ExtensionesPosibles /\ Extension(p) = n * TAM_PAGINA
      /\ 0..n - 1 \subseteq Paginas /\ Registro(p).tabla \in [Paginas -> Marcos \cup {SinMarco}]
  BY RegistroDe DEF RegistroBien, Extension
<1> HIDE DEF n
<1>2. ASSUME NEW i \in Paginas, NEW k \in 0..TAM_PAGINA - 1 PROVE ByteVirtual(p, i, k) \in Celdas
  <2>1. CASE Registro(p).tabla[i] # SinMarco
    <3>1. Registro(p).tabla[i] \in Marcos BY <1>1, <2>1
    <3>2. Registro(p).tabla[i] * TAM_PAGINA + k \in Bytes BY <3>1, ByteDeMarco
    <3> QED BY <2>1, <3>2 DEF ByteVirtual, PrivadaInv, TypeOK
  <2>2. CASE Registro(p).tabla[i] = SinMarco
    <3>1. LeerSwap(p, i)[k] \in Celdas BY DEF LeerSwap, PrivadaInv, TypeOK, Celdas
    <3> QED BY <2>2, <3>1 DEF ByteVirtual
  <2> QED BY <2>1, <2>2
<1>3. ASSUME NEW b \in 0..n * TAM_PAGINA - 1
      PROVE  ByteVirtual(p, b \div TAM_PAGINA, b % TAM_PAGINA) \in Celdas
  <2>1. b \div TAM_PAGINA \in 0..n - 1 /\ b % TAM_PAGINA \in 0..TAM_PAGINA - 1
    BY <1>1, <1>3, PaginaBajo
  <2> QED BY <1>1, <1>2, <2>1, Zenon
<1> QED BY <1>1, <1>3 DEF BytesDe

(* The same after a step.                                                   *)
LEMMA BytesTipoDespues ==
    PrivadaInv' => \A p \in Existentes' : /\ Extension(p)' \in ExtensionesPosibles
                                          /\ BytesDe(p)' \in [0..Extension(p)' - 1 -> Celdas]
<1> DEFINE Tipo == \A p \in Existentes : /\ Extension(p) \in ExtensionesPosibles
                                         /\ BytesDe(p) \in [0..Extension(p) - 1 -> Celdas]
<1>1. PrivadaInv => Tipo BY BytesTipo
<1>2. PrivadaInv' => Tipo' BY <1>1, PTL
<1>3. Tipo' = \A p \in Existentes' : /\ Extension(p)' \in ExtensionesPosibles
                                     /\ BytesDe(p)' \in [0..Extension(p)' - 1 -> Celdas]
  BY DEF Celdas, ExtensionesPosibles
<1> QED BY <1>2, <1>3

(* The bytes of a process after a step, page by page.                       *)
LEMMA BytesIguales ==
    ASSUME PrivadaInv, NEW p \in Existentes, Extension(p)' = Extension(p),
           \A i \in 0..TotalMarcos - 1, k \in 0..TAM_PAGINA - 1 :
               ByteVirtual(p, i, k)' = ByteVirtual(p, i, k)
    PROVE  BytesDe(p)' = BytesDe(p)
<1> DEFINE n == MarcosNecesarios(Registro(p).tamanio)
<1>1. n \in Nat /\ 0..n - 1 \subseteq 0..TotalMarcos - 1 /\ Extension(p) = n * TAM_PAGINA
  BY RegistroDe DEF Extension
<1> HIDE DEF n
<1>2. ASSUME NEW b \in 0..Extension(p) - 1
      PROVE  ByteVirtual(p, b \div TAM_PAGINA, b % TAM_PAGINA)'
             = ByteVirtual(p, b \div TAM_PAGINA, b % TAM_PAGINA)
  <2>1. b \div TAM_PAGINA \in 0..n - 1 /\ b % TAM_PAGINA \in 0..TAM_PAGINA - 1
    BY <1>1, <1>2, PaginaBajo
  <2> QED BY <1>1, <2>1, Zenon
<1> QED BY <1>2 DEF BytesDe

(* A step that touches no process, byte nor swap changes nothing of them.   *)
LEMMA EspacioQuieto ==
    ASSUME UNCHANGED <<procesos, memoria_fisica, swap>>
    PROVE  /\ EspacioVisto' = EspacioVisto
           /\ volcado' = volcado => VolcadoVisto' = VolcadoVisto
<1>1. \A p : Registro(p)' = Registro(p) BY DEF Registro, Hay, procesos
<1>2. \A p : Extension(p)' = Extension(p) BY <1>1 DEF Extension
<1>3. \A p, i : LeerSwap(p, i)' = LeerSwap(p, i) BY DEF LeerSwap
<1>4. \A p, i, k : ByteVirtual(p, i, k)' = ByteVirtual(p, i, k) BY <1>1, <1>3 DEF ByteVirtual
<1>5. \A p : BytesDe(p)' = BytesDe(p) BY <1>2, <1>4 DEF BytesDe
<1>6. Existentes' = Existentes BY DEF Existentes, Hay, procesos
<1>7. EspacioVisto' = EspacioVisto BY <1>5, <1>6 DEF EspacioVisto
<1>8. volcado' = volcado => VolcadoVisto' = VolcadoVisto BY <1>2 DEF VolcadoVisto
<1> QED BY <1>7, <1>8

(* A handler other than the one that dumps finds no dump, and leaves none.  *)
LEMMA VolcadoQuieto ==
    ASSUME PrivadaInv, pedido # Nada, pedido.op # "DUMP_MEMORY", volcado' = volcado
    PROVE  VolcadoVisto = Nada /\ VolcadoVisto' = Nada
  BY DEF PrivadaInv, VolcadoBien, VolcadoAbierto, VolcadoVisto

(* An access to a process whose table has been emptied is late.             *)
LEMMA TardeSinTabla ==
    ASSUME TypeOK, NEW pid \in Pids, cpu' = cpu,
           \A p \in Pids : p # pid => procesos_activos'[p] = procesos_activos[p],
           \A i \in Paginas : procesos_activos'[pid].tabla[i] = SinMarco
    PROVE  /\ AccesoTarde => AccesoTarde'
           /\ (\A i \in Paginas : procesos_activos[pid].tabla[i] = SinMarco)
                 => (AccesoTarde' <=> AccesoTarde)
<1>1. PICK i : i = (cpu.dir \div TAM_PAGINA) % ENTRADAS_POR_TABLA OBVIOUS
<1>2. cpu.pid \in Pids /\ i \in Paginas BY <1>1, PaginaDeDireccion DEF TypeOK, CpuT
<1>3. CASE cpu.pid = pid
  <2>1. cpu.fase = "acceso" => AccesoTarde'
    BY <1>1, <1>2, <1>3 DEF AccesoTarde, PaginaPresente, MarcoDePagina
  <2>2. (\A k \in Paginas : procesos_activos[pid].tabla[k] = SinMarco) /\ cpu.fase = "acceso"
        => AccesoTarde
    BY <1>1, <1>2, <1>3 DEF AccesoTarde, PaginaPresente, MarcoDePagina
  <2> QED BY <2>1, <2>2 DEF AccesoTarde
<1>4. CASE cpu.pid # pid
  BY <1>2, <1>4 DEF AccesoTarde, PaginaPresente, Traducir, MarcoDePagina
<1> QED BY <1>3, <1>4

(* A process that no step has touched keeps its bytes.                      *)
LEMMA BytesDeOtro ==
    ASSUME PrivadaInv, NEW p \in Existentes, UNCHANGED memoria_fisica,
           procesos_activos'[p] = procesos_activos[p],
           procesos_suspendidos'[p] = procesos_suspendidos[p],
           \A i \in 0..TotalMarcos - 1, k \in 0..TAM_PAGINA - 1 :
               LeerSwap(p, i)'[k] = LeerSwap(p, i)[k]
    PROVE  BytesDe(p)' = BytesDe(p)
<1>1. Registro(p)' = Registro(p) BY DEF Registro, Hay
<1>2. Extension(p)' = Extension(p) BY <1>1 DEF Extension
<1>3. \A i \in 0..TotalMarcos - 1, k \in 0..TAM_PAGINA - 1 :
          ByteVirtual(p, i, k)' = ByteVirtual(p, i, k)
  BY <1>1 DEF ByteVirtual
<1> QED BY <1>2, <1>3, BytesIguales

(* Creation: the process is new, and its bytes whatever its frames hold.    *)
LEMMA CrearImplementa ==
    ASSUME PrivadaInv, PrivadaInv', NEW pid \in Pids, PidSinUso(pid), NEW r, RegistroBien(r),
           procesos_activos' = [procesos_activos EXCEPT ![pid] = r],
           UNCHANGED <<procesos_suspendidos, memoria_fisica, swap, respuesta, cpu>>,
           VolcadoVisto' = VolcadoVisto
    PROVE  Privada!Crear(pid)
<1>1. r # SinProceso BY DEF RegistroBien, SinProceso
<1>2. procesos_activos \in [Pids -> ProcesoT] BY DEF PrivadaInv, TypeOK
<1>3. /\ procesos_activos'[pid] = r
      /\ \A p \in Pids : p # pid => procesos_activos'[p] = procesos_activos[p]
  BY <1>2
<1>4. pid \notin Existentes BY DEF PidSinUso, Existentes
<1>5. Existentes' = Existentes \cup {pid} BY <1>1, <1>3 DEF Existentes, Hay
<1>6. ASSUME NEW p \in Existentes PROVE BytesDe(p)' = BytesDe(p)
  <2>1. p \in Pids /\ p # pid BY <1>4 DEF Existentes
  <2>2. \A i : LeerSwap(p, i)' = LeerSwap(p, i) BY DEF LeerSwap
  <2> QED BY <1>3, <2>1, <2>2, BytesDeOtro
<1>7. /\ Extension(pid)' \in ExtensionesPosibles
      /\ BytesDe(pid)' \in [0..Extension(pid)' - 1 -> Celdas]
  <2>1. pid \in Existentes' BY <1>5
  <2> QED BY <2>1, BytesTipoDespues
<1>8. EspacioVisto' = [q \in DOMAIN EspacioVisto \cup {pid} |->
                          IF q = pid THEN BytesDe(pid)' ELSE EspacioVisto[q]]
  BY <1>5, <1>6 DEF EspacioVisto
<1>9. RespuestaVista' = RespuestaVista BY DEF RespuestaVista
<1>10. pid \notin DOMAIN EspacioVisto BY <1>4 DEF EspacioVisto
<1>11. AccesoTarde' => AccesoTarde
  <2>1. PICK i : i = (cpu.dir \div TAM_PAGINA) % ENTRADAS_POR_TABLA OBVIOUS
  <2>2. cpu.pid \in Pids /\ i \in Paginas
    BY <2>1, PaginaDeDireccion DEF PrivadaInv, TypeOK, CpuT
  <2>3. CASE cpu.pid = pid
    BY <2>1, <2>2, <2>3
       DEF AccesoTarde, PaginaPresente, MarcoDePagina, PidSinUso, Hay, SinProceso, TablaVacia
  <2>4. CASE cpu.pid # pid
    BY <1>3, <2>2, <2>4 DEF AccesoTarde, PaginaPresente, Traducir, MarcoDePagina
  <2> QED BY <2>3, <2>4
<1>12. AccesoTarde' \in {AccesoTarde, FALSE} BY <1>11, TardeONo, Zenon
<1> QED BY <1>7, <1>8, <1>9, <1>10, <1>12 DEF Privada!Crear

(* Termination of an active process.                                        *)
LEMMA FinalizarImplementa ==
    ASSUME PrivadaInv, FinalizarProceso
    PROVE  [Privada!Next]_Privada!vars
<1> DEFINE pid == Leido(pedido.pid)
<1>1. pid \in Pids /\ pedido # Nada
  BY CamposDePedido DEF FinalizarProceso, ConPid, PrivadaInv, TypeOK
<1>2. VolcadoVisto' = VolcadoVisto
  <2>1. pedido.op # "DUMP_MEMORY" /\ volcado' = volcado BY DEF FinalizarProceso
  <2> QED BY <1>1, <2>1, VolcadoQuieto
<1>3. RespuestaVista' = RespuestaVista BY DEF RespuestaVista, FinalizarProceso
<1>4. procesos_activos \in [Pids -> ProcesoT] BY DEF PrivadaInv, TypeOK
<1>5. /\ procesos_activos'[pid] = SinProceso
      /\ \A p \in Pids : p # pid => procesos_activos'[p] = procesos_activos[p]
      /\ UNCHANGED <<procesos_suspendidos, memoria_fisica, swap, cpu>>
  BY <1>1, <1>4 DEF FinalizarProceso
<1>a. AccesoTarde => AccesoTarde'
  <2>1. \A i \in Paginas : procesos_activos'[pid].tabla[i] = SinMarco
    BY <1>5 DEF SinProceso, TablaVacia
  <2> HIDE DEF pid
  <2> QED BY <1>1, <1>5, <2>1, TardeSinTabla DEF PrivadaInv
<1>6. CASE Hay(procesos_activos, pid)
  <2>1. ~ Hay(procesos_suspendidos, pid) BY <1>1, <1>6 DEF PrivadaInv, FugasInv, UnDiccionario
  <2>2. Existentes' = Existentes \ {pid} /\ pid \in Existentes
    BY <1>1, <1>5, <1>6, <2>1 DEF Existentes, Hay
  <2>3. ASSUME NEW p \in Existentes, p # pid PROVE BytesDe(p)' = BytesDe(p)
    <3>1. p \in Pids BY DEF Existentes
    <3>2. \A i : LeerSwap(p, i)' = LeerSwap(p, i) BY <1>5 DEF LeerSwap
    <3> QED BY <1>5, <2>3, <3>1, <3>2, BytesDeOtro
  <2>4. EspacioVisto' = [q \in DOMAIN EspacioVisto \ {pid} |-> EspacioVisto[q]]
    BY <2>2, <2>3 DEF EspacioVisto
  <2>6. AccesoTarde' \in {AccesoTarde, TRUE} BY <1>a, TardeONo, Zenon
  <2>5. Privada!Finalizar(pid) /\ pid \in DOMAIN EspacioVisto
    BY <1>2, <1>3, <2>2, <2>4, <2>6 DEF Privada!Finalizar, EspacioVisto
  <2> HIDE DEF pid
  <2> QED BY <2>5 DEF Privada!Next
<1>7. CASE ~ Hay(procesos_activos, pid)
  <2>1. procesos_activos' = procesos_activos
    BY <1>1, <1>4, <1>7 DEF FinalizarProceso, Hay
  <2>2. EspacioVisto' = EspacioVisto BY <1>5, <2>1, EspacioQuieto DEF procesos
  <2>3. AccesoTarde' = AccesoTarde BY <1>5, <2>1, TardeIgual
  <2> QED BY <1>2, <1>3, <2>2, <2>3 DEF Privada!vars
<1> QED BY <1>6, <1>7

(* Suspension: the pages in frames go to their places in swap, and no other *)
(* place changes.                                                           *)
LEMMA SuspenderImplementa ==
    ASSUME LugaresSeparados, ~ SwapPuedeFallar, PrivadaInv, SuspenderProceso
    PROVE  [Privada!Next]_Privada!vars
<1>0. PICK pid \in Pids : pid = Leido(pedido.pid) /\ pedido # Nada
  BY CamposDePedido DEF SuspenderProceso, ConPid, PrivadaInv, TypeOK
<1>a. PICK tabla : tabla = procesos_activos[pid].tabla OBVIOUS
<1>b. PICK presentes : presentes = {i \in Paginas : tabla[i] # SinMarco} OBVIOUS
<1>1. pid \in Pids /\ pedido # Nada BY <1>0
<1>2. VolcadoVisto' = VolcadoVisto
  <2>1. pedido.op # "DUMP_MEMORY" /\ volcado' = volcado BY DEF SuspenderProceso
  <2> QED BY <1>1, <2>1, VolcadoQuieto
<1>3. RespuestaVista' = RespuestaVista /\ memoria_fisica' = memoria_fisica /\ cpu' = cpu
  BY DEF RespuestaVista, SuspenderProceso
<1>4. CASE ~ Hay(procesos_activos, pid)
  <2>1. UNCHANGED <<procesos, memoria_fisica, swap>> BY <1>0, <1>4 DEF SuspenderProceso
  <2>2. AccesoTarde' = AccesoTarde BY <1>3, <2>1, TardeIgual DEF procesos
  <2> QED BY <1>2, <1>3, <2>1, <2>2, EspacioQuieto DEF Privada!vars
<1>5. CASE Hay(procesos_activos, pid)
  <2> DEFINE r == [tamanio |-> procesos_activos[pid].tamanio, tabla |-> TablaVacia]
  <2>1. /\ procesos_activos'[pid] = SinProceso /\ procesos_suspendidos'[pid] = r
        /\ \A p \in Pids : p # pid => /\ procesos_activos'[p] = procesos_activos[p]
                                      /\ procesos_suspendidos'[p] = procesos_suspendidos[p]
    BY <1>0, <1>5 DEF SuspenderProceso, PrivadaInv, TypeOK
  <2>2. swap' = SwapCon(pid, tabla, presentes)
    BY <1>0, <1>a, <1>b, <1>5 DEF SuspenderProceso, Volcables
  <2>3. pid \in Existentes /\ Registro(pid) = procesos_activos[pid]
    BY <1>1, <1>5 DEF Existentes, Registro
  <2>4. presentes \subseteq 0..TotalMarcos - 1
    <3>1. \A i \in presentes : i < MarcosNecesarios(procesos_activos[pid].tamanio) /\ i \in Nat
      BY <1>a, <1>b, <2>3, RegistroDe DEF RegistroBien, Paginas
    <3> QED BY <2>3, <3>1, RegistroDe
  <2>5. ASSUME NEW p \in Pids, NEW i \in 0..TotalMarcos - 1, NEW k \in 0..TAM_PAGINA - 1
        PROVE  LeerSwap(p, i)'[k] = IF p = pid /\ i \in presentes THEN ByteDe(tabla, i, k)
                                                                  ELSE LeerSwap(p, i)[k]
    BY <1>1, <2>2, <2>4, SwapEscrito DEF LeerSwap
  <2>6. r # SinProceso BY <2>3, RegistroDe DEF RegistroBien, SinProceso
  <2>7. Existentes' = Existentes BY <1>1, <1>5, <2>1, <2>6 DEF Existentes, Hay
  <2>8. ASSUME NEW p \in Existentes, p # pid PROVE BytesDe(p)' = BytesDe(p)
    <3>1. p \in Pids BY DEF Existentes
    <3>2. \A i \in 0..TotalMarcos - 1, k \in 0..TAM_PAGINA - 1 :
              LeerSwap(p, i)'[k] = LeerSwap(p, i)[k]
      BY <2>5, <2>8, <3>1
    <3> QED BY <1>3, <2>1, <2>8, <3>1, <3>2, BytesDeOtro
  <2>9. BytesDe(pid)' = BytesDe(pid)
    <3>1. Registro(pid)' = r BY <2>1 DEF Registro, Hay
    <3>2. Extension(pid)' = Extension(pid) BY <2>3, <3>1 DEF Extension
    <3>3. ASSUME NEW i \in 0..TotalMarcos - 1, NEW k \in 0..TAM_PAGINA - 1
          PROVE  ByteVirtual(pid, i, k)' = ByteVirtual(pid, i, k)
      <4>1. i \in Paginas BY <2>3, RegistroDe
      <4>2. ByteVirtual(pid, i, k)' = LeerSwap(pid, i)'[k]
        BY <3>1, <4>1 DEF ByteVirtual, TablaVacia
      <4>3. i \in presentes <=> tabla[i] # SinMarco BY <1>b, <4>1
      <4>4. ByteVirtual(pid, i, k)
              = IF i \in presentes THEN ByteDe(tabla, i, k) ELSE LeerSwap(pid, i)[k]
        BY <1>a, <2>3, <4>3 DEF ByteVirtual, ByteDe
      <4> QED BY <1>1, <2>5, <4>2, <4>4
    <3> QED BY <2>3, <3>2, <3>3, BytesIguales
  <2>10. EspacioVisto' = EspacioVisto BY <2>7, <2>8, <2>9 DEF EspacioVisto
  <2>11. AccesoTarde => AccesoTarde'
    <3>1. \A i \in Paginas : procesos_activos'[pid].tabla[i] = SinMarco
      BY <2>1 DEF SinProceso, TablaVacia
    <3> QED BY <1>1, <1>3, <2>1, <3>1, TardeSinTabla DEF PrivadaInv
  <2>12. CASE AccesoTarde'
    <3>1. AccesoTarde' = TRUE BY <2>12
    <3>2. Privada!Extraviar BY <1>2, <1>3, <2>10, <3>1 DEF Privada!Extraviar
    <3> QED BY <3>2 DEF Privada!Next
  <2>13. CASE ~ AccesoTarde'
    <3>1. AccesoTarde' = AccesoTarde BY <2>11, <2>13, TardeONo, Zenon
    <3> QED BY <1>2, <1>3, <2>10, <3>1 DEF Privada!vars
  <2> QED BY <2>12, <2>13
<1> QED BY <1>4, <1>5

(* A process brought back has its bytes where it had them, in swap.         *)
LEMMA ReactivarImplementa ==
    ASSUME PrivadaInv, ReactivarProceso
    PROVE  UNCHANGED Privada!vars
<1>1. PICK pid \in Pids : pid = Leido(pedido.pid) /\ pedido # Nada
  BY CamposDePedido DEF ReactivarProceso, ConPid, PrivadaInv, TypeOK
<1>2. VolcadoVisto' = VolcadoVisto
  <2>1. pedido.op # "DUMP_MEMORY" /\ volcado' = volcado BY DEF ReactivarProceso
  <2> QED BY <1>1, <2>1, VolcadoQuieto
<1>3. RespuestaVista' = RespuestaVista /\ UNCHANGED <<memoria_fisica, swap, cpu>>
  BY DEF RespuestaVista, ReactivarProceso
<1>4. CASE ~ Hay(procesos_suspendidos, pid)
  <2>1. UNCHANGED <<procesos, memoria_fisica, swap>> BY <1>1, <1>3, <1>4 DEF ReactivarProceso
  <2>2. AccesoTarde' = AccesoTarde BY <1>3, <2>1, TardeIgual DEF procesos
  <2> QED BY <1>2, <1>3, <2>1, <2>2, EspacioQuieto DEF Privada!vars
<1>5. CASE Hay(procesos_suspendidos, pid)
  <2>1. /\ procesos_activos'[pid] = procesos_suspendidos[pid]
        /\ procesos_suspendidos'[pid] = SinProceso
        /\ \A p \in Pids : p # pid => /\ procesos_activos'[p] = procesos_activos[p]
                                      /\ procesos_suspendidos'[p] = procesos_suspendidos[p]
    BY <1>1, <1>5 DEF ReactivarProceso, PrivadaInv, TypeOK
  <2>2. ~ Hay(procesos_activos, pid) BY <1>1, <1>5 DEF PrivadaInv, FugasInv, UnDiccionario
  <2>3. \A p \in Pids : Registro(p)' = Registro(p)
    BY <1>1, <1>5, <2>1, <2>2 DEF Registro, Hay
  <2>4. Existentes' = Existentes BY <1>1, <1>5, <2>1 DEF Existentes, Hay
  <2>5. \A p, i : LeerSwap(p, i)' = LeerSwap(p, i) BY <1>3 DEF LeerSwap
  <2>6. \A p \in Pids : \A i, k : ByteVirtual(p, i, k)' = ByteVirtual(p, i, k)
    BY <1>3, <2>3, <2>5 DEF ByteVirtual
  <2>7. \A p \in Pids : BytesDe(p)' = BytesDe(p) BY <2>3, <2>6 DEF BytesDe, Extension
  <2>8. EspacioVisto' = EspacioVisto BY <2>4, <2>7 DEF EspacioVisto, Existentes
  <2>9. AccesoTarde' = AccesoTarde
    <3>1. \A i \in Paginas : procesos_activos'[pid].tabla[i] = SinMarco
      BY <1>1, <2>1 DEF PrivadaInv, DuenoUnico, SuspendidoSinMarcos
    <3>2. \A i \in Paginas : procesos_activos[pid].tabla[i] = SinMarco
      BY <2>2 DEF Hay, SinProceso, TablaVacia
    <3>3. AccesoTarde' <=> AccesoTarde
      BY <1>1, <1>3, <2>1, <3>1, <3>2, TardeSinTabla DEF PrivadaInv
    <3> QED BY <3>3
  <2> QED BY <1>2, <1>3, <2>8, <2>9 DEF Privada!vars
<1> QED BY <1>4, <1>5

(* A dump begins with no byte.                                              *)
LEMMA DumpImplementa ==
    ASSUME PrivadaInv, DumpProceso
    PROVE  [Privada!Next]_Privada!vars
<1>1. PICK pid \in Pids : pid = Leido(pedido.pid)
  BY CamposDePedido DEF DumpProceso, ConPid, PrivadaInv, TypeOK
<1>2. UNCHANGED <<procesos, memoria_fisica, swap, respuesta, cpu>> BY DEF DumpProceso
<1>3. EspacioVisto' = EspacioVisto /\ RespuestaVista' = RespuestaVista
  BY <1>2, EspacioQuieto DEF RespuestaVista
<1>4. AccesoTarde' = AccesoTarde BY <1>2, TardeIgual DEF procesos
<1>5. VolcadoVisto = Nada BY DEF DumpProceso, VolcadoVisto
<1>6. CASE volcado' = Nada
  BY <1>3, <1>4, <1>5, <1>6 DEF Privada!vars, VolcadoVisto
<1>7. CASE /\ ProcesoVolcado(pid) # SinProceso
           /\ volcado' = [op |-> "DUMP_MEMORY", pid |-> pid,
                          tamano |-> TamanoVolcado(ProcesoVolcado(pid)),
                          hechas |-> 0, paginas |-> <<>>]
  <2>1. pid \in Existentes BY <1>7, ProcesoDelVolcado
  <2>2. volcado' # Nada /\ volcado'.pid = pid /\ volcado'.hechas = 0
    <3>1. volcado'.op = "DUMP_MEMORY" /\ Nada.op = "nada" BY <1>7 DEF Nada
    <3> QED BY <1>7, <3>1
  <2>3. PICK n : n = Extension(pid)' OBVIOUS
  <2>4. PICK B : B = {b \in 0..n - 1 : b \div TAM_PAGINA < 0} OBVIOUS
  <2>5. B = {}
    <3> SUFFICES ASSUME NEW b \in 0..n - 1, b \div TAM_PAGINA < 0 PROVE FALSE BY <2>4
    <3>1. b \in Nat OBVIOUS
    <3> QED BY <3>1, PaginaYByte
  <2>6. VolcadoVisto' = [pid |-> pid, completo |-> 0 = ENTRADAS_POR_TABLA,
                         bytes |-> [b \in B |-> volcado'.paginas[b \div TAM_PAGINA][b % TAM_PAGINA]]]
    BY <2>2, <2>3, <2>4 DEF VolcadoVisto
  <2>7. [b \in B |-> volcado'.paginas[b \div TAM_PAGINA][b % TAM_PAGINA]] = <<>> BY <2>5
  <2>8. (0 = ENTRADAS_POR_TABLA) = FALSE BY SupuestoTamanios
  <2>9. VolcadoVisto' = [pid |-> pid, completo |-> FALSE, bytes |-> <<>>] BY <2>6, <2>7, <2>8
  <2>10. Privada!EmpezarVolcado(pid) /\ pid \in DOMAIN EspacioVisto
    BY <1>3, <1>4, <2>1, <2>9 DEF Privada!EmpezarVolcado, EspacioVisto
  <2> QED BY <2>10 DEF Privada!Next
<1> QED BY <1>1, <1>6, <1>7 DEF DumpProceso

(* Each page of the dump shows the bytes the process has there.             *)
LEMMA PaginaImplementa ==
    ASSUME PrivadaInv, VolcarPagina
    PROVE  [Privada!Next]_Privada!vars
<1> USE SupuestoTamanios
<1>1. VolcadoAbierto /\ volcado # Nada
  BY CamposDePedido DEF VolcarPagina, ConPid, PrivadaInv, TypeOK, VolcadoBien
<1>2. PICK pid, h : pid = volcado.pid /\ h = volcado.hechas OBVIOUS
<1>3. pid \in Existentes /\ pid \in Pids /\ h \in Nat /\ h < ENTRADAS_POR_TABLA /\ h \in Paginas
  BY <1>1, <1>2 DEF VolcadoAbierto, Existentes, Paginas
<1>4. UNCHANGED <<procesos, memoria_fisica, swap, respuesta, cpu>> BY DEF VolcarPagina
<1>5. EspacioVisto' = EspacioVisto /\ RespuestaVista' = RespuestaVista
  BY <1>4, EspacioQuieto DEF RespuestaVista
<1>6. AccesoTarde' = AccesoTarde BY <1>4, TardeIgual DEF procesos
<1>7. /\ volcado' # Nada /\ volcado'.pid = pid /\ volcado'.hechas = h + 1
      /\ volcado'.paginas = [i \in 0..h |-> IF i = h THEN PaginaVolcada(pid, Registro(pid).tabla, h)
                                                     ELSE volcado.paginas[i]]
  <2>1. volcado' = ConPagina(PaginaVolcada(pid, Registro(pid).tabla, h))
    BY <1>2, <1>3, ProcesoDelVolcado DEF VolcarPagina
  <2>2. volcado'.op = "DUMP_MEMORY" /\ Nada.op = "nada" BY <2>1 DEF ConPagina, Nada
  <2> QED BY <1>2, <2>1, <2>2 DEF ConPagina
<1>8. PICK n : n = Extension(pid) OBVIOUS
<1>9. Extension(pid)' = n BY <1>4, <1>8 DEF Extension, Registro, Hay, procesos
<1>10. PICK w : w = MarcosNecesarios(Registro(pid).tamanio) OBVIOUS
<1>11. w \in Nat /\ 0..w - 1 \subseteq Paginas /\ n = w * TAM_PAGINA
  BY <1>3, <1>8, <1>10, RegistroDe DEF Extension
<1>12. PICK A, B, M : /\ A = {b \in 0..n - 1 : b \div TAM_PAGINA < h}
                      /\ B = {b \in 0..n - 1 : b \div TAM_PAGINA < h + 1}
                      /\ M = {b \in 0..n - 1 : b \div TAM_PAGINA = h}
  OBVIOUS
<1>c. \A b \in 0..w * TAM_PAGINA - 1 : b \in Nat /\ b \div TAM_PAGINA \in 0..w - 1
                                       /\ b % TAM_PAGINA \in 0..TAM_PAGINA - 1
  <2> SUFFICES ASSUME NEW b \in 0..w * TAM_PAGINA - 1
               PROVE  b \in Nat /\ b \div TAM_PAGINA \in 0..w - 1
                      /\ b % TAM_PAGINA \in 0..TAM_PAGINA - 1
    OBVIOUS
  <2>1. w \in Nat /\ w * TAM_PAGINA \in Nat BY <1>11, ProductoNat
  <2>2. b \in Nat BY <2>1
  <2>3. b \div TAM_PAGINA \in 0..w - 1 /\ b % TAM_PAGINA \in 0..TAM_PAGINA - 1 BY <2>1, PaginaBajo
  <2> QED BY <2>2, <2>3
<1>13. \A b \in 0..n - 1 : b \in Nat /\ b \div TAM_PAGINA \in Nat
                           /\ b \div TAM_PAGINA \in Paginas /\ b % TAM_PAGINA \in 0..TAM_PAGINA - 1
  <2>1. 0..n - 1 = 0..w * TAM_PAGINA - 1 BY <1>11
  <2>2. 0..w - 1 \subseteq Nat OBVIOUS
  <2> QED BY <1>11, <1>c, <2>1, <2>2
<1>14. B = A \cup M /\ A \cap M = {} /\ A \subseteq 0..n - 1 /\ M \subseteq 0..n - 1
  BY <1>3, <1>12, <1>13
<1>15. PICK antes, ahora :
         /\ antes = [b \in A |-> volcado.paginas[b \div TAM_PAGINA][b % TAM_PAGINA]]
         /\ ahora = [b \in B |-> volcado'.paginas[b \div TAM_PAGINA][b % TAM_PAGINA]]
  OBVIOUS
<1>16. EspacioVisto[pid] = BytesDe(pid) /\ pid \in DOMAIN EspacioVisto
       /\ DOMAIN BytesDe(pid) = 0..n - 1
  BY <1>3, <1>8 DEF EspacioVisto, BytesDe
<1>17. ahora = [b \in A \cup M |-> IF b \in M THEN EspacioVisto[pid][b] ELSE antes[b]]
  <2>1. ASSUME NEW b \in M PROVE ahora[b] = EspacioVisto[pid][b]
    <3>1. PICK k : k = b % TAM_PAGINA OBVIOUS
    <3>2. b \in 0..n - 1 /\ b \div TAM_PAGINA = h /\ k \in 0..TAM_PAGINA - 1 /\ b \in B
      BY <1>12, <1>13, <1>14, <3>1
    <3>3. ahora[b] = volcado'.paginas[h][k] BY <1>15, <3>1, <3>2
    <3>4. volcado'.paginas[h] = PaginaVolcada(pid, Registro(pid).tabla, h) BY <1>3, <1>7
    <3>5. PaginaVolcada(pid, Registro(pid).tabla, h)[k] = ByteVirtual(pid, h, k)
      BY <3>2 DEF PaginaVolcada, ByteVirtual, ByteDe
    <3>6. BytesDe(pid)[b] = ByteVirtual(pid, h, k) BY <1>8, <3>1, <3>2 DEF BytesDe
    <3> QED BY <1>16, <3>3, <3>4, <3>5, <3>6
  <2>2. ASSUME NEW b \in A PROVE ahora[b] = antes[b]
    <3>1. PICK i : i = b \div TAM_PAGINA OBVIOUS
    <3>2. i \in Nat /\ i < h /\ b \in B BY <1>12, <1>13, <1>14, <3>1
    <3>3. i \in 0..h /\ i # h BY <1>3, <3>2
    <3>4. volcado'.paginas[i] = volcado.paginas[i] BY <1>7, <3>3
    <3> QED BY <1>15, <3>1, <3>2, <3>4
  <2> QED BY <1>14, <1>15, <2>1, <2>2
<1>18. VolcadoVisto = [pid |-> pid, completo |-> h = ENTRADAS_POR_TABLA, bytes |-> antes]
  BY <1>1, <1>2, <1>8, <1>12, <1>15 DEF VolcadoVisto
<1>19. VolcadoVisto' = [pid |-> pid, completo |-> h + 1 = ENTRADAS_POR_TABLA, bytes |-> ahora]
  BY <1>7, <1>9, <1>12, <1>15 DEF VolcadoVisto
<1>20. PICK fin \in BOOLEAN : fin = (h + 1 = ENTRADAS_POR_TABLA) OBVIOUS
<1>21. DOMAIN antes = A BY <1>15
<1>22. fin => A \cup M = 0..n - 1
  <2> SUFFICES ASSUME fin, NEW b \in 0..n - 1 PROVE b \in A \cup M BY <1>14
  <2>1. PICK i \in Paginas : i = b \div TAM_PAGINA BY <1>13
  <2>2. h + 1 = ENTRADAS_POR_TABLA BY <1>20
  <2>3. i < h \/ i = h BY <1>3, <2>1, <2>2 DEF Paginas
  <2> QED BY <1>12, <2>1, <2>3
<1>23. VolcadoVisto # Nada /\ VolcadoVisto.pid = pid /\ VolcadoVisto.bytes = antes
       /\ ~ VolcadoVisto.completo
  <2>1. VolcadoVisto.pid = pid /\ VolcadoVisto.bytes = antes BY <1>18
  <2>2. ~ VolcadoVisto.completo
    <3>1. VolcadoVisto.completo = (h = ENTRADAS_POR_TABLA) BY <1>18, Zenon
    <3>2. h # ENTRADAS_POR_TABLA BY <1>3
    <3> QED BY <3>1, <3>2, Zenon
  <2>3. VolcadoVisto # Nada
    <3>1. DOMAIN VolcadoVisto # DOMAIN Nada BY <1>18 DEF Nada
    <3> QED BY <3>1
  <2> QED BY <2>1, <2>2, <2>3
<1>24. M \in SUBSET (DOMAIN EspacioVisto[pid] \ DOMAIN VolcadoVisto.bytes)
  BY <1>14, <1>16, <1>21, <1>23
<1>25. /\ fin => DOMAIN VolcadoVisto.bytes \cup M = DOMAIN EspacioVisto[pid]
       /\ VolcadoVisto' = [pid |-> pid, completo |-> fin,
                           bytes |-> [b \in DOMAIN VolcadoVisto.bytes \cup M |->
                                        IF b \in M THEN EspacioVisto[pid][b]
                                                   ELSE VolcadoVisto.bytes[b]]]
  BY <1>16, <1>17, <1>19, <1>20, <1>21, <1>22, <1>23
<1>26. Privada!SeguirVolcado(pid)
  BY <1>5, <1>6, <1>23, <1>24, <1>25 DEF Privada!SeguirVolcado
<1> QED BY <1>16, <1>26 DEF Privada!Next

(* A step of the kernel thread that changes no process.                     *)
LEMMA HandlerQuieto ==
    ASSUME PrivadaInv, pedido # Nada, pedido.op # "DUMP_MEMORY",
           UNCHANGED <<procesos, memoria_fisica, swap, volcado, respuesta, cpu>>
    PROVE  UNCHANGED Privada!vars
<1>1. VolcadoVisto' = VolcadoVisto BY VolcadoQuieto
<1>2. EspacioVisto' = EspacioVisto BY EspacioQuieto
<1>3. RespuestaVista' = RespuestaVista BY DEF RespuestaVista
<1>4. AccesoTarde' = AccesoTarde BY TardeIgual DEF procesos
<1> QED BY <1>1, <1>2, <1>3, <1>4 DEF Privada!vars

(* The kernel thread.                                                       *)
LEMMA KernelImplementa ==
    ASSUME PidsNuevos, LugaresSeparados, ~ SwapPuedeFallar, PrivadaInv, PrivadaInv', AtenderKernel
    PROVE  [Privada!Next]_Privada!vars
<1>0. pedido \in Pedidos \cup {Nada} /\ TypeOK BY DEF PrivadaInv, TypeOK
<1>1. CASE RecibirPedido
  <2>1. UNCHANGED <<procesos, memoria_fisica, swap, respuesta, cpu>> /\ volcado' = Nada
    BY <1>1 DEF RecibirPedido
  <2>2. EspacioVisto' = EspacioVisto BY <2>1, EspacioQuieto
  <2>3. RespuestaVista' = RespuestaVista /\ VolcadoVisto' = Nada
    BY <2>1 DEF RespuestaVista, VolcadoVisto
  <2>4. AccesoTarde' = AccesoTarde BY <2>1, TardeIgual DEF procesos
  <2> QED BY <2>2, <2>3, <2>4 DEF Privada!Next, Privada!QuitarVolcado
<1>2. CASE ConsultarEspacio
  <2>1. pedido # Nada BY <1>0, <1>2, CamposDePedido DEF ConsultarEspacio
  <2> QED BY <1>2, <2>1, HandlerQuieto DEF ConsultarEspacio
<1>3. ASSUME NEW pid \in Pids, pid = Destino(pedido), pedido # Nada,
             pedido.op \in {"ENVIO_ARCHIVO_KERNEL", "CREAR_PROCESO"},
             NEW tam \in {pedido.tam, Leido(pedido.tam)}, ~ FaltanMarcos(MarcosNecesarios(tam)),
             NEW f \in PrimerosLibres(MarcosNecesarios(tam)), CrearCon(pid, tam, f),
             UNCHANGED <<procesos_suspendidos, memoria_fisica, swap, volcado, respuesta, cpu>>
      PROVE  Privada!Next
  <2> DEFINE r == [tamanio |-> tam, tabla |-> TablaCon(f)]
  <2>1. RegistroBien(r) BY <1>0, <1>3, TamanioDePedido, RegistroNuevo
  <2>2. PidSinUso(pid) BY <1>3 DEF PrivadaInv, FugasInv, DestinoNuevo
  <2>3. procesos_activos' = [procesos_activos EXCEPT ![pid] = r] BY <1>3 DEF CrearCon, Clave
  <2>4. VolcadoVisto' = VolcadoVisto BY <1>3, VolcadoQuieto
  <2> HIDE DEF r
  <2>5. Privada!Crear(pid) BY <1>3, <2>1, <2>2, <2>3, <2>4, CrearImplementa
  <2> QED BY <2>5 DEF Privada!Next
<1>4. CASE CrearProceso
  <2>1. Leido(pedido.pid) \in Pids /\ Destino(pedido) = Leido(pedido.pid) /\ pedido # Nada
    BY <1>0, <1>4, CamposDePedido DEF CrearProceso
  <2>2. CASE UNCHANGED <<marcos_libres, procesos_activos>>
    BY <1>4, <2>1, <2>2, HandlerQuieto DEF CrearProceso, procesos
  <2>3. CASE /\ ~ FaltanMarcos(MarcosNecesarios(Leido(pedido.tam)))
             /\ \E f \in PrimerosLibres(MarcosNecesarios(Leido(pedido.tam))) :
                   CrearCon(Leido(pedido.pid), Leido(pedido.tam), f)
    BY <1>3, <1>4, <2>1, <2>3 DEF CrearProceso
  <2> QED BY <1>4, <2>2, <2>3 DEF CrearProceso
<1>5. CASE RechazarArchivo
  <2>1. pedido # Nada BY <1>0, <1>5, CamposDePedido DEF RechazarArchivo
  <2> QED BY <1>5, <2>1, HandlerQuieto DEF RechazarArchivo
<1>6. CASE ArchivoVacio
  <2>1. pedido # Nada /\ 0 \in Pids /\ ~ Hay(procesos_activos, 0)
    BY <1>0, <1>6, CamposDePedido, SupuestoPedidos
       DEF ArchivoVacio, PrivadaInv, FugasInv, DestinoNuevo, PidSinUso
  <2>2. procesos_activos' = procesos_activos BY <1>0, <1>6, <2>1 DEF ArchivoVacio, Hay, TypeOK
  <2> QED BY <1>6, <2>1, <2>2, HandlerQuieto DEF ArchivoVacio, procesos
<1>7. CASE CargarArchivo
  <2>1. 0 \in Pids /\ Destino(pedido) = 0 /\ pedido # Nada
    BY <1>0, <1>7, CamposDePedido, SupuestoPedidos DEF CargarArchivo
  <2> QED BY <1>3, <1>7, <2>1 DEF CargarArchivo
<1>8. CASE FinalizarProceso BY <1>8, FinalizarImplementa
<1>9. CASE SuspenderProceso BY <1>9, SuspenderImplementa
<1>10. CASE ReactivarProceso BY <1>10, ReactivarImplementa
<1>11. CASE DumpProceso BY <1>11, DumpImplementa
<1>12. CASE VolcarPagina BY <1>12, PaginaImplementa
<1> QED BY <1>1, <1>2, <1>4, <1>5, <1>6, <1>7, <1>8, <1>9, <1>10, <1>11, <1>12 DEF AtenderKernel

(* A page below the process's size is the entry its number names.           *)
LEMMA MenorQueTabla ==
    ASSUME NEW i \in Nat, i < ENTRADAS_POR_TABLA PROVE i % ENTRADAS_POR_TABLA = i
  BY SupuestoTamanios

(* An access in progress is inside the process p, in one frame of it: the   *)
(* address d is at offset o of page i, which is in frame m.                 *)
AccesoEn(p, d, i, o, m) ==
    /\ p = cpu.pid /\ d = cpu.dir /\ i = d \div TAM_PAGINA /\ o = d % TAM_PAGINA
    /\ m = Registro(p).tabla[i]

(* An access that is not late is such an access.                            *)
LEMMA AccesoPropio ==
    ASSUME AccesosEnSuPagina, PrivadaInv, cpu.fase = "acceso", ~ AccesoTarde,
           NEW p, NEW d, NEW i, NEW o, NEW m, AccesoEn(p, d, i, o, m)
    PROVE  /\ p \in Existentes /\ p \in Pids /\ Hay(procesos_activos, p)
           /\ d \in Nat /\ i \in 0..TotalMarcos - 1 /\ i \in Paginas
           /\ o \in 0..TAM_PAGINA - 1 /\ o + TAM_INT <= TAM_PAGINA /\ d = i * TAM_PAGINA + o
           /\ m \in Marcos /\ cpu.fisica = m * TAM_PAGINA + o /\ EnMemoria
           /\ Extension(p) \in Nat /\ d + TAM_INT <= Extension(p)
<1> USE SupuestoTamanios DEF AccesoEn
<1>1. p \in Pids /\ d \in Direcciones /\ d \in Nat
  BY SupuestoPedidos DEF PrivadaInv, TypeOK, CpuT, AccesoPedido
<1>2. /\ i \in Nat /\ o \in 0..TAM_PAGINA - 1 /\ d = i * TAM_PAGINA + o
      /\ i < ENTRADAS_POR_TABLA /\ o + TAM_INT <= TAM_PAGINA
  BY <1>1, PaginaYByte DEF AccesosEnSuPagina
<1>3. i \in Paginas /\ (d \div TAM_PAGINA) % ENTRADAS_POR_TABLA = i
  <2>1. i \in Paginas BY <1>2 DEF Paginas
  <2>2. i % ENTRADAS_POR_TABLA = i BY <1>2, MenorQueTabla
  <2> QED BY <2>1, <2>2
<1>4. /\ procesos_activos[p].tabla[i] # SinMarco
      /\ cpu.fisica = procesos_activos[p].tabla[i] * TAM_PAGINA + o
  BY <1>3 DEF AccesoTarde, PaginaPresente, Traducir, MarcoDePagina
<1>5. Hay(procesos_activos, p) BY <1>3, <1>4 DEF Hay, SinProceso, TablaVacia
<1>6. p \in Existentes /\ Registro(p) = procesos_activos[p] BY <1>1, <1>5 DEF Existentes, Registro
<1> DEFINE n == MarcosNecesarios(Registro(p).tamanio)
<1>7. /\ n \in Nat /\ 0..n - 1 \subseteq 0..TotalMarcos - 1 /\ Extension(p) = n * TAM_PAGINA
      /\ Registro(p).tabla \in [Paginas -> Marcos \cup {SinMarco}]
      /\ \A x \in Paginas : Registro(p).tabla[x] # SinMarco => x < n
  BY <1>6, RegistroDe DEF RegistroBien, Extension
<1> HIDE DEF n
<1>8. m \in Marcos /\ cpu.fisica = m * TAM_PAGINA + o BY <1>3, <1>4, <1>6, <1>7
<1>9. i < n /\ i \in 0..TotalMarcos - 1
  <2>1. i < n BY <1>3, <1>4, <1>6, <1>7
  <2> QED BY <1>2, <1>7, <2>1
<1>10. Extension(p) \in Nat /\ d + TAM_INT <= Extension(p)
  <2>1. i * TAM_PAGINA + TAM_PAGINA <= n * TAM_PAGINA BY <1>2, <1>7, <1>9, ProductoCota
  <2>2. i * TAM_PAGINA \in Nat /\ n * TAM_PAGINA \in Nat BY <1>2, <1>7, ProductoNat
  <2> QED BY <1>2, <1>7, <2>1, <2>2
<1>11. EnMemoria
  <2>1. TotalMarcos \in Nat /\ TotalMarcos * TAM_PAGINA <= TAM_MEMORIA BY SMT DEF TotalMarcos
  <2>2. m \in Nat /\ m < TotalMarcos BY <1>8, <2>1 DEF Marcos
  <2>3. m * TAM_PAGINA + TAM_PAGINA <= TotalMarcos * TAM_PAGINA BY <2>1, <2>2, ProductoCota
  <2>4. m * TAM_PAGINA \in Nat /\ TotalMarcos * TAM_PAGINA \in Nat BY <2>1, <2>2, ProductoNat
  <2> DEFINE a == m * TAM_PAGINA
             c == TotalMarcos * TAM_PAGINA
  <2>5. a \in Nat /\ c \in Nat /\ a + TAM_PAGINA <= c /\ c <= TAM_MEMORIA /\ cpu.fisica = a + o
    BY <1>8, <2>1, <2>3, <2>4
  <2> HIDE DEF a, c
  <2>6. a + o + TAM_INT <= TAM_MEMORIA BY <1>2, <2>5
  <2> QED BY <2>5, <2>6 DEF EnMemoria
<1> QED BY <1>1, <1>2, <1>3, <1>5, <1>6, <1>8, <1>9, <1>10, <1>11

(* The bytes of an int that stays in its page are that page's.              *)
LEMMA BytesDelEntero ==
    ASSUME NEW i \in Nat, NEW o \in 0..TAM_PAGINA - 1, o + TAM_INT <= TAM_PAGINA,
           NEW j \in Nat, NEW k \in 0..TAM_PAGINA - 1
    PROVE  j * TAM_PAGINA + k \in i * TAM_PAGINA + o .. i * TAM_PAGINA + o + TAM_INT - 1
           <=> j = i /\ k \in o..o + TAM_INT - 1
<1> USE SupuestoTamanios
<1>1. i * TAM_PAGINA \in Nat /\ j * TAM_PAGINA \in Nat BY ProductoNat
<1>2. CASE j = i BY <1>1, <1>2
<1>3. CASE i < j
  <2>1. i * TAM_PAGINA + TAM_PAGINA <= j * TAM_PAGINA BY <1>3, ProductoCota
  <2> QED BY <1>1, <1>3, <2>1
<1>4. CASE j < i
  <2>1. j * TAM_PAGINA + TAM_PAGINA <= i * TAM_PAGINA BY <1>4, ProductoCota
  <2> QED BY <1>1, <1>4, <2>1
<1> QED BY <1>2, <1>3, <1>4

(* After its copy the cpu thread has no access in progress.                 *)
LEMMA TardeAlResponder ==
    ASSUME TypeOK, NEW v, Responder(v) PROVE AccesoTarde' = FALSE
<1>1. cpu'.fase = "lista" BY DEF Responder, TypeOK, CpuT
<1>2. ~ AccesoTarde' BY <1>1 DEF AccesoTarde
<1> QED BY <1>2, TardeONo, Zenon

(* Reading on time: the int the CPU is given is the process's own.          *)
LEMMA LeerImplementa ==
    ASSUME AccesosEnSuPagina, PrivadaInv, CompletarLectura, ~ AccesoTarde
    PROVE  Privada!Next
<1> USE SupuestoTamanios
<1>0. PICK p, d, i, o, m : AccesoEn(p, d, i, o, m) BY DEF AccesoEn
<1>1. cpu.fase = "acceso" /\ cpu.op = "LECTURA_MEMORIA" BY DEF CompletarLectura
<1>2. /\ p \in Existentes /\ d \in Nat /\ i \in Nat /\ i \in Paginas
      /\ o \in 0..TAM_PAGINA - 1 /\ o + TAM_INT <= TAM_PAGINA
      /\ m \in Marcos /\ cpu.fisica = m * TAM_PAGINA + o /\ EnMemoria
      /\ Extension(p) \in Nat /\ d + TAM_INT <= Extension(p)
  <2>1. /\ p \in Existentes /\ d \in Nat /\ i \in Paginas
        /\ o \in 0..TAM_PAGINA - 1 /\ o + TAM_INT <= TAM_PAGINA
        /\ m \in Marcos /\ cpu.fisica = m * TAM_PAGINA + o /\ EnMemoria
        /\ Extension(p) \in Nat /\ d + TAM_INT <= Extension(p)
    BY <1>0, <1>1, AccesoPropio
  <2> QED BY <2>1 DEF Paginas
<1>3. UNCHANGED <<procesos, memoria_fisica, swap, volcado>> BY DEF CompletarLectura
<1>4. EspacioVisto' = EspacioVisto /\ VolcadoVisto' = VolcadoVisto BY <1>3, EspacioQuieto
<1>5. respuesta' = [op |-> "LECTURA_MEMORIA", pid |-> p, dir |-> d,
                    valor |-> [k \in Enteros |-> memoria_fisica[cpu.fisica + k]]]
  BY <1>0, <1>1, <1>2 DEF CompletarLectura, Responder, AccesoEn
<1>6. DOMAIN EspacioVisto[p] = 0..Extension(p) - 1 /\ EspacioVisto[p] = BytesDe(p)
      /\ p \in DOMAIN EspacioVisto
  BY <1>2 DEF EspacioVisto, BytesDe
<1>7. ASSUME NEW k \in Enteros
      PROVE  memoria_fisica[cpu.fisica + k] = EspacioVisto[p][d + k]
  <2>1. k \in Nat /\ k < TAM_INT /\ o + k < TAM_PAGINA BY <1>2 DEF Enteros
  <2>2. (d + k) \div TAM_PAGINA = i /\ (d + k) % TAM_PAGINA = o + k
    BY <1>0, <1>2, <2>1, MismaPagina DEF AccesoEn
  <2>3. d + k \in 0..Extension(p) - 1 BY <1>2, <2>1
  <2>4. BytesDe(p)[d + k] = ByteVirtual(p, i, o + k) BY <2>2, <2>3 DEF BytesDe
  <2>5. m # SinMarco BY <1>2 DEF Marcos, SinMarco
  <2>6. m * TAM_PAGINA \in Nat /\ m * TAM_PAGINA + o + k = m * TAM_PAGINA + (o + k)
    <3>1. m \in Nat BY <1>2 DEF Marcos, TotalMarcos
    <3>2. m * TAM_PAGINA \in Nat BY <3>1, ProductoNat
    <3> QED BY <1>2, <2>1, <3>2
  <2> QED BY <1>0, <1>2, <1>6, <2>4, <2>5, <2>6 DEF ByteVirtual, AccesoEn
<1>8. respuesta' = [op |-> "LECTURA_MEMORIA", pid |-> p, dir |-> d,
                    valor |-> [k \in 0..TAM_INT - 1 |-> EspacioVisto[p][d + k]]]
  BY <1>5, <1>7 DEF Enteros
<1>9. RespuestaVista' = respuesta' BY <1>8 DEF RespuestaVista
<1>10. Privada!Entero(d) \subseteq DOMAIN EspacioVisto[p] /\ d \in DOMAIN EspacioVisto[p]
  BY <1>2, <1>6 DEF Privada!Entero
<1>11. AccesoTarde' = AccesoTarde
  <2>1. AccesoTarde' = FALSE BY TardeAlResponder DEF CompletarLectura, PrivadaInv
  <2> QED BY <2>1, TardeONo, Zenon
<1>12. Privada!Leer(p, d) BY <1>4, <1>8, <1>9, <1>10, <1>11 DEF Privada!Leer
<1> QED BY <1>6, <1>10, <1>12 DEF Privada!Next

(* Reading late: the CPU is given some int.                                 *)
LEMMA LeerTardeImplementa ==
    ASSUME PrivadaInv, CompletarLectura, AccesoTarde
    PROVE  Privada!Next
<1>1. UNCHANGED <<procesos, memoria_fisica, swap, volcado>> BY DEF CompletarLectura
<1>2. EspacioVisto' = EspacioVisto /\ VolcadoVisto' = VolcadoVisto BY <1>1, EspacioQuieto
<1>3. respuesta'.op = "LECTURA_MEMORIA" BY DEF CompletarLectura, Responder
<1>4. RespuestaVista'.op = "LECTURA_MEMORIA" BY <1>3 DEF RespuestaVista
<1>5. AccesoTarde' = FALSE BY TardeAlResponder DEF CompletarLectura, PrivadaInv
<1> QED BY <1>2, <1>4, <1>5 DEF Privada!Next, Privada!LeerTarde

(* Writing on time: the int changes, and no other byte of any process.      *)
LEMMA EscribirImplementa ==
    ASSUME AccesosEnSuPagina, PrivadaInv, CompletarEscritura, ~ AccesoTarde
    PROVE  Privada!Next
<1> USE SupuestoTamanios
<1>0. PICK p, d, i, o, m, v : AccesoEn(p, d, i, o, m) /\ v = cpu.valor BY DEF AccesoEn
<1>1. cpu.fase = "acceso" /\ cpu.op = "ESCRITURA_MEMORIA" /\ v \in Celdas
  BY <1>0 DEF CompletarEscritura, PrivadaInv, TypeOK, CpuT
<1>2. /\ p \in Existentes /\ p \in Pids /\ Hay(procesos_activos, p)
      /\ d \in Nat /\ i \in Nat /\ i \in Paginas /\ d = i * TAM_PAGINA + o
      /\ o \in 0..TAM_PAGINA - 1 /\ o + TAM_INT <= TAM_PAGINA
      /\ m \in Marcos /\ m \in Nat /\ m # SinMarco /\ cpu.fisica = m * TAM_PAGINA + o /\ EnMemoria
      /\ Extension(p) \in Nat /\ d + TAM_INT <= Extension(p)
  <2>1. /\ p \in Existentes /\ p \in Pids /\ Hay(procesos_activos, p)
        /\ d \in Nat /\ i \in Paginas /\ d = i * TAM_PAGINA + o
        /\ o \in 0..TAM_PAGINA - 1 /\ o + TAM_INT <= TAM_PAGINA
        /\ m \in Marcos /\ cpu.fisica = m * TAM_PAGINA + o /\ EnMemoria
        /\ Extension(p) \in Nat /\ d + TAM_INT <= Extension(p)
    BY <1>0, <1>1, AccesoPropio
  <2>2. i \in Nat /\ m \in Nat /\ m # SinMarco BY <2>1 DEF Paginas, Marcos, SinMarco
  <2> QED BY <2>1, <2>2
<1>3. /\ UNCHANGED <<procesos_activos, procesos_suspendidos, swap, volcado>>
      /\ memoria_fisica' = [x \in Bytes |-> IF x \in cpu.fisica..cpu.fisica + TAM_INT - 1
                                            THEN v ELSE memoria_fisica[x]]
  BY <1>0, <1>2 DEF CompletarEscritura, procesos
<1>4. \A q : Registro(q)' = Registro(q) /\ Extension(q)' = Extension(q)
  BY <1>3 DEF Registro, Hay, Extension
<1>5. VolcadoVisto' = VolcadoVisto BY <1>3, <1>4 DEF VolcadoVisto
<1>6. Existentes' = Existentes BY <1>3 DEF Existentes, Hay
<1>7. ASSUME NEW q \in Existentes, NEW j \in 0..TotalMarcos - 1, NEW k \in 0..TAM_PAGINA - 1
      PROVE  ByteVirtual(q, j, k)' = IF q = p /\ j = i /\ k \in o..o + TAM_INT - 1
                                     THEN v ELSE ByteVirtual(q, j, k)
  <2>1. j \in Paginas /\ q \in Pids /\ Registro(q).tabla \in [Paginas -> Marcos \cup {SinMarco}]
    BY RegistroDe
  <2>2. \A x : LeerSwap(q, x)' = LeerSwap(q, x) BY <1>3 DEF LeerSwap
  <2>3. CASE Registro(q).tabla[j] = SinMarco
    <3>1. ~ (q = p /\ j = i) BY <1>0, <1>2, <2>3 DEF AccesoEn
    <3> QED BY <1>4, <2>2, <2>3, <3>1 DEF ByteVirtual
  <2>4. CASE Registro(q).tabla[j] # SinMarco
    <3> DEFINE l == Registro(q).tabla[j]
    <3>1. l \in Marcos /\ l \in Nat BY <2>1, <2>4 DEF Marcos
    <3>2. Registro(q) = procesos_activos[q]
      BY <2>1, <2>4 DEF Registro, PrivadaInv, DuenoUnico, SuspendidoSinMarcos
    <3>3. Registro(p) = procesos_activos[p] BY <1>2 DEF Registro
    <3>4. l = m <=> q = p /\ j = i
      <4>1. m = procesos_activos[p].tabla[i] /\ l = procesos_activos[q].tabla[j] /\ l # SinMarco
        BY <1>0, <2>4, <3>2, <3>3 DEF AccesoEn
      <4>2. UnDueno BY DEF PrivadaInv, DuenoUnico
      <4> HIDE DEF l
      <4>3. ASSUME l = m PROVE q = p /\ j = i
        <5>1. procesos_activos[q].tabla[j] = procesos_activos[p].tabla[i]
              /\ procesos_activos[q].tabla[j] # SinMarco
          BY <4>1, <4>3
        <5>2. q \in Pids /\ p \in Pids /\ j \in Paginas /\ i \in Paginas BY <1>2, <2>1
        <5> QED BY <4>2, <5>1, <5>2 DEF UnDueno
      <4> QED BY <4>1, <4>3
    <3>5. ByteVirtual(q, j, k) = memoria_fisica[l * TAM_PAGINA + k] BY <2>4 DEF ByteVirtual
    <3>6. ByteVirtual(q, j, k)' = memoria_fisica'[l * TAM_PAGINA + k]
      BY <1>4, <2>4 DEF ByteVirtual
    <3> HIDE DEF l
    <3>7. l * TAM_PAGINA + k \in Bytes BY <3>1, ByteDeMarco
    <3>8. l * TAM_PAGINA + k \in cpu.fisica..cpu.fisica + TAM_INT - 1
          <=> l = m /\ k \in o..o + TAM_INT - 1
      BY <1>2, <3>1, BytesDelEntero
    <3> QED BY <1>3, <3>4, <3>5, <3>6, <3>7, <3>8
  <2> QED BY <2>3, <2>4
<1>8. ASSUME NEW q \in Existentes, q # p PROVE BytesDe(q)' = BytesDe(q)
  BY <1>4, <1>7, <1>8, BytesIguales
<1>9. DOMAIN BytesDe(p) = 0..Extension(p) - 1 BY DEF BytesDe
<1>10. BytesDe(p)'
         = [b \in DOMAIN BytesDe(p) |-> IF b \in Privada!Entero(d) THEN v ELSE BytesDe(p)[b]]
  <2> DEFINE n == MarcosNecesarios(Registro(p).tamanio)
  <2>1. n \in Nat /\ 0..n - 1 \subseteq 0..TotalMarcos - 1 /\ Extension(p) = n * TAM_PAGINA
    BY <1>2, RegistroDe DEF Extension
  <2> HIDE DEF n
  <2>2. ASSUME NEW b \in 0..Extension(p) - 1
        PROVE  ByteVirtual(p, b \div TAM_PAGINA, b % TAM_PAGINA)'
               = IF b \in Privada!Entero(d) THEN v ELSE BytesDe(p)[b]
    <3>1. PICK j, k : j = b \div TAM_PAGINA /\ k = b % TAM_PAGINA OBVIOUS
    <3>2. j \in 0..n - 1 /\ k \in 0..TAM_PAGINA - 1 /\ b \in Nat
      <4>1. b \in Nat /\ b \in 0..n * TAM_PAGINA - 1 BY <1>2, <2>1, <2>2
      <4> QED BY <2>1, <3>1, <4>1, PaginaBajo
    <3>3. b = j * TAM_PAGINA + k /\ j \in Nat BY <2>1, <3>1, <3>2, PaginaYByte
    <3>4. b \in Privada!Entero(d) <=> j = i /\ k \in o..o + TAM_INT - 1
      BY <1>2, <3>2, <3>3, BytesDelEntero DEF Privada!Entero
    <3>5. BytesDe(p)[b] = ByteVirtual(p, j, k) BY <2>2, <3>1 DEF BytesDe
    <3>6. ByteVirtual(p, j, k)' = IF b \in Privada!Entero(d) THEN v ELSE BytesDe(p)[b]
      BY <1>2, <1>7, <2>1, <3>2, <3>4, <3>5
    <3> QED BY <3>1, <3>6
  <2>3. BytesDe(p)' = [b \in 0..Extension(p) - 1 |->
                          ByteVirtual(p, b \div TAM_PAGINA, b % TAM_PAGINA)']
    BY <1>4 DEF BytesDe
  <2> QED BY <1>9, <2>2, <2>3
<1>11. EspacioVisto[p] = BytesDe(p) /\ p \in DOMAIN EspacioVisto BY <1>2 DEF EspacioVisto
<1>12. EspacioVisto' = [EspacioVisto EXCEPT ![p] =
                          [b \in DOMAIN @ |-> IF b \in Privada!Entero(d) THEN v ELSE @[b]]]
  BY <1>2, <1>6, <1>8, <1>10, <1>11 DEF EspacioVisto
<1>13. RespuestaVista' = [op |-> "ESCRITURA_MEMORIA", pid |-> p, dir |-> d,
                          valor |-> [k \in 0..TAM_INT - 1 |-> v]]
  <2>1. respuesta' =
          [op |-> "ESCRITURA_MEMORIA", pid |-> p, dir |-> d, valor |-> [k \in Enteros |-> v]]
    BY <1>0, <1>1 DEF CompletarEscritura, Responder, AccesoEn
  <2> QED BY <2>1 DEF RespuestaVista, Enteros
<1>14. Privada!Entero(d) \subseteq DOMAIN EspacioVisto[p] /\ d \in DOMAIN EspacioVisto[p]
  <2>1. d..d + TAM_INT - 1 \subseteq 0..Extension(p) - 1 /\ d \in 0..Extension(p) - 1 BY <1>2
  <2> QED BY <1>9, <1>11, <2>1 DEF Privada!Entero
<1>15. AccesoTarde' = AccesoTarde
  <2>1. AccesoTarde' = FALSE BY TardeAlResponder DEF CompletarEscritura, PrivadaInv
  <2> QED BY <2>1, TardeONo, Zenon
<1>16. Privada!Escribir(p, d, v) BY <1>5, <1>12, <1>13, <1>14, <1>15 DEF Privada!Escribir
<1> QED BY <1>1, <1>11, <1>14, <1>16 DEF Privada!Next

(* Writing late: the bytes it reaches take its value, the others stay.      *)
LEMMA EscribirTardeImplementa ==
    ASSUME PrivadaInv, CompletarEscritura, AccesoTarde
    PROVE  Privada!Next
<1>1. PICK v : v = cpu.valor OBVIOUS
<1>2. v \in Celdas BY <1>1 DEF PrivadaInv, TypeOK, CpuT
<1>3. /\ UNCHANGED <<procesos_activos, procesos_suspendidos, swap, volcado>>
      /\ \A x \in Bytes : memoria_fisica'[x] \in {memoria_fisica[x], v}
  BY <1>1 DEF CompletarEscritura, procesos
<1>4. \A q : Registro(q)' = Registro(q) /\ Extension(q)' = Extension(q)
  BY <1>3 DEF Registro, Hay, Extension
<1>5. VolcadoVisto' = VolcadoVisto BY <1>3, <1>4 DEF VolcadoVisto
<1>6. Existentes' = Existentes BY <1>3 DEF Existentes, Hay
<1>7. ASSUME NEW q \in Existentes, NEW j \in Paginas, NEW k \in 0..TAM_PAGINA - 1
      PROVE  ByteVirtual(q, j, k)' \in {ByteVirtual(q, j, k), v}
  <2>1. Registro(q).tabla \in [Paginas -> Marcos \cup {SinMarco}] BY RegistroDe
  <2>2. CASE Registro(q).tabla[j] = SinMarco
    <3>1. LeerSwap(q, j)' = LeerSwap(q, j) BY <1>3 DEF LeerSwap
    <3> QED BY <1>4, <2>2, <3>1 DEF ByteVirtual
  <2>3. CASE Registro(q).tabla[j] # SinMarco
    <3>1. PICK l : l = Registro(q).tabla[j] OBVIOUS
    <3>2. l \in Marcos BY <2>1, <2>3, <3>1
    <3>3. l * TAM_PAGINA + k \in Bytes BY <3>2, ByteDeMarco
    <3>4. ByteVirtual(q, j, k) = memoria_fisica[l * TAM_PAGINA + k] BY <2>3, <3>1 DEF ByteVirtual
    <3>5. ByteVirtual(q, j, k)' = memoria_fisica'[l * TAM_PAGINA + k]
      BY <1>4, <2>3, <3>1 DEF ByteVirtual
    <3> QED BY <1>3, <3>3, <3>4, <3>5
  <2> QED BY <2>2, <2>3
<1>8. ASSUME NEW q \in Existentes, NEW b \in 0..Extension(q) - 1
      PROVE  BytesDe(q)'[b] \in {BytesDe(q)[b], v}
  <2>1. PICK n : n = MarcosNecesarios(Registro(q).tamanio) OBVIOUS
  <2>2. n \in Nat /\ 0..n - 1 \subseteq Paginas /\ Extension(q) = n * TAM_PAGINA
    BY <2>1, RegistroDe DEF Extension
  <2>3. PICK j, k : j = b \div TAM_PAGINA /\ k = b % TAM_PAGINA OBVIOUS
  <2>4. j \in 0..n - 1 /\ k \in 0..TAM_PAGINA - 1 BY <1>8, <2>2, <2>3, PaginaBajo
  <2>5. BytesDe(q)[b] = ByteVirtual(q, j, k) BY <1>8, <2>3 DEF BytesDe
  <2>6. BytesDe(q)'[b] = ByteVirtual(q, j, k)' BY <1>4, <1>8, <2>3 DEF BytesDe
  <2> QED BY <1>7, <2>2, <2>4, <2>5, <2>6
<1>9. \A q \in Existentes : /\ EspacioVisto[q] = BytesDe(q) /\ EspacioVisto'[q] = BytesDe(q)'
                            /\ DOMAIN BytesDe(q) = 0..Extension(q) - 1
                            /\ DOMAIN BytesDe(q)' = 0..Extension(q) - 1
  BY <1>4, <1>6 DEF EspacioVisto, BytesDe
<1>10. DOMAIN EspacioVisto = Existentes /\ DOMAIN EspacioVisto' = Existentes
  BY <1>6 DEF EspacioVisto
<1>11. Privada!Alcanzados(v) BY <1>8, <1>9, <1>10 DEF Privada!Alcanzados
<1>12. respuesta'.op = "ESCRITURA_MEMORIA" BY DEF CompletarEscritura, Responder
<1>13. RespuestaVista'.op = "ESCRITURA_MEMORIA" BY <1>12 DEF RespuestaVista
<1>14. AccesoTarde' = FALSE BY TardeAlResponder DEF CompletarEscritura, PrivadaInv
<1>15. Privada!EscribirTarde(v) BY <1>5, <1>11, <1>13, <1>14 DEF Privada!EscribirTarde
<1> QED BY <1>2, <1>15 DEF Privada!Next

(* The cpu thread besides its copies: the last answer is gone, or stays.    *)
LEMMA CpuImplementa ==
    ASSUME AccesosEnSuPagina, PrivadaInv, AtenderCpu
    PROVE  [Privada!Next]_Privada!vars
<1>1. ASSUME UNCHANGED <<procesos, memoria_fisica, swap, volcado>>,
             ~ AccesoTarde, ~ AccesoTarde',
             respuesta' = respuesta \/ RespuestaVista' = Nada
      PROVE  [Privada!Next]_Privada!vars
  <2>1. EspacioVisto' = EspacioVisto /\ VolcadoVisto' = VolcadoVisto BY <1>1, EspacioQuieto
  <2>2. AccesoTarde' = AccesoTarde BY <1>1, TardeONo, Zenon
  <2>3. CASE respuesta' = respuesta
    BY <2>1, <2>2, <2>3 DEF RespuestaVista, Privada!vars
  <2>4. CASE RespuestaVista' = Nada BY <2>1, <2>2, <2>4 DEF Privada!Next, Privada!Callar
  <2> QED BY <1>1, <2>3, <2>4
<1>2. CASE ArchivoListo
  <2>1. ~ AccesoTarde /\ ~ AccesoTarde'
    BY <1>2 DEF ArchivoListo, AccesoTarde, PrivadaInv, TypeOK, CpuT
  <2> QED BY <1>1, <1>2, <2>1 DEF ArchivoListo
<1>3. CASE SolicitudInstruccion
  <2>1. RespuestaVista' = Nada BY <1>3 DEF SolicitudInstruccion, RespuestaVista
  <2>2. ~ AccesoTarde /\ ~ AccesoTarde'
    BY <1>3 DEF SolicitudInstruccion, AccesoTarde, PrivadaInv, TypeOK, CpuT
  <2> QED BY <1>1, <1>3, <2>1, <2>2 DEF SolicitudInstruccion
<1>4. CASE PedirAcceso
  <2>1. RespuestaVista' = Nada BY <1>4 DEF PedirAcceso, RespuestaVista
  <2>2. ~ AccesoTarde BY <1>4 DEF PedirAcceso, AccesoTarde
  <2>3. UNCHANGED <<procesos, memoria_fisica, swap, volcado>> BY <1>4 DEF PedirAcceso
  <2>4. CASE ~ AccesoTarde' BY <1>1, <2>1, <2>2, <2>3, <2>4
  <2>5. CASE AccesoTarde'
    <3>1. EspacioVisto' = EspacioVisto /\ VolcadoVisto' = VolcadoVisto BY <2>3, EspacioQuieto
    <3>2. AccesoTarde' = TRUE BY <2>5
    <3> QED BY <2>1, <3>1, <3>2 DEF Privada!Next, Privada!Extraviar
  <2> QED BY <2>4, <2>5
<1>5. CASE CompletarLectura BY <1>5, LeerImplementa, LeerTardeImplementa
<1>6. CASE CompletarEscritura BY <1>6, EscribirImplementa, EscribirTardeImplementa
<1>7. CASE CpuDesconectada
  <2>1. RespuestaVista' = Nada BY <1>7 DEF CpuDesconectada, RespuestaVista
  <2>2. ~ AccesoTarde /\ ~ AccesoTarde'
    BY <1>7 DEF CpuDesconectada, AccesoTarde, PrivadaInv, TypeOK, CpuT
  <2> QED BY <1>1, <1>7, <2>1, <2>2 DEF CpuDesconectada
<1> QED BY <1>2, <1>3, <1>4, <1>5, <1>6, <1>7 DEF AtenderCpu

(* Frames, swap, suspension and dumps are transparent: whatever the sizes   *)
(* of memory and pages, the pids and the requests, each process has bytes   *)
(* of its own, if no pid is used twice, the swap file takes what is written *)
(* to it, and the CPU's ints do not cross their page.  Only an access whose *)
(* process is taken from it before the copy escapes (AccesoSeguro).         *)
THEOREM ImplementaMemoriaPrivada ==
    ASSUME PidsNuevos, LugaresSeparados, ~ SwapPuedeFallar, AccesosEnSuPagina
    PROVE  Spec => CumpleMemoriaPrivada
<1>1. Init => PrivadaInv /\ Privada!Init
  <2> SUFFICES ASSUME Init PROVE PrivadaInv /\ Privada!Init OBVIOUS
  <2>1. PrivadaInv BY PrivadaInicial
  <2>2. Existentes = {} BY DEF Init, Existentes, Hay
  <2>3. EspacioVisto = <<>> BY <2>2 DEF EspacioVisto
  <2>4. RespuestaVista = Nada /\ VolcadoVisto = Nada BY DEF Init, RespuestaVista, VolcadoVisto, Nada
  <2>5. ~ AccesoTarde BY DEF Init, AccesoTarde
  <2>6. AccesoTarde = FALSE BY <2>5
  <2> QED BY <2>1, <2>3, <2>4, <2>6 DEF Privada!Init
<1>2. PrivadaInv /\ [Next]_vars => PrivadaInv' BY PrivadaPaso
<1>3. PrivadaInv /\ PrivadaInv' /\ [Next]_vars => [Privada!Next]_Privada!vars
  <2> SUFFICES ASSUME PrivadaInv, PrivadaInv', [Next]_vars PROVE [Privada!Next]_Privada!vars
    OBVIOUS
  <2>1. CASE AtenderKernel BY <2>1, KernelImplementa
  <2>2. CASE AtenderCpu BY <2>2, CpuImplementa
  <2>3. CASE UNCHANGED vars
    <3>1. UNCHANGED <<procesos, memoria_fisica, swap, volcado, respuesta, cpu>> BY <2>3 DEF vars
    <3>2. AccesoTarde' = AccesoTarde BY <3>1, TardeIgual DEF procesos
    <3> QED BY <3>1, <3>2, EspacioQuieto DEF RespuestaVista, Privada!vars
  <2> QED BY <2>1, <2>2, <2>3 DEF Next
<1> QED BY <1>1, <1>2, <1>3, PTL DEF Spec, CumpleMemoriaPrivada, Privada!Spec
=============================================================================
