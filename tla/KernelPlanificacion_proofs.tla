--------------------- MODULE KernelPlanificacion_proofs ---------------------
(***************************************************************************)
(* Theorems of KernelPlanificacion for every value of the constants.       *)
(***************************************************************************)
EXTENDS KernelPlanificacionPropiedades, TLAPS, SequenceTheorems, WellFoundedInduction

(***************************************************************************)
(* The operators of the community modules the queues are built from.       *)
(***************************************************************************)

\* A set of naturals that is not empty has a minimum, which Min returns.
LEMMA MinDeNaturales ==
    ASSUME NEW I, I \subseteq Nat, I # {}
    PROVE  Min(I) \in I /\ \A j \in I : Min(I) <= j
<1> DEFINE menor == {ss \in Nat \X Nat : ss[1] < ss[2]}
<1>1. OpToRel(<, Nat) = menor
  BY Zenon DEF OpToRel
<1>2. IsWellFoundedOn(menor, Nat)
  BY <1>1, NatLessThanWellFounded
<1>3. PICK m \in I : \A j \in I : <<j, m>> \notin menor
  BY <1>2, WFMin
<1>4. ASSUME NEW j \in I PROVE m <= j
  <2>1. j \in Nat /\ m \in Nat
    OBVIOUS
  <2>2. j < m => <<j, m>> \in menor
    BY <2>1
  <2> QED BY <1>3, <2>1, <2>2
<1>5. \E x \in I : \A y \in I : x <= y
  BY <1>4
<1> QED BY <1>5 DEF Min

\* RemoveAt(s, i), for an index of s, is s without its i-th element.
LEMMA QuitarPosicion ==
    ASSUME NEW S, NEW s \in Seq(S), NEW i \in 1..Len(s)
    PROVE  /\ RemoveAt(s, i) \in Seq(S)
           /\ Len(RemoveAt(s, i)) = Len(s) - 1
           /\ \A k \in 1..(Len(s) - 1) :
                 RemoveAt(s, i)[k] = IF k < i THEN s[k] ELSE s[k + 1]
<1> DEFINE a == SubSeq(s, 1, i - 1)
           b == SubSeq(s, i + 1, Len(s))
<1>1. a \in Seq(S) /\ Len(a) = i - 1 /\ \A k \in 1..(i - 1) : a[k] = s[k]
  <2>1. \A k \in 1..(i - 1) : s[k] \in S
    BY LenProperties
  <2> QED BY <2>1, SubSeqProperties, LenProperties
<1>2. b \in Seq(S) /\ Len(b) = Len(s) - i /\ \A k \in 1..(Len(s) - i) : b[k] = s[k + i]
  <2>1. \A k \in (i + 1)..Len(s) : s[k] \in S
    BY LenProperties
  <2>2. i + 1 \in Int /\ Len(s) \in Int
    BY LenProperties
  <2>3. /\ b \in Seq(S)
        /\ Len(b) = IF i + 1 <= Len(s) THEN Len(s) - (i + 1) + 1 ELSE 0
        /\ \A k \in 1..(Len(s) - (i + 1) + 1) : b[k] = s[(i + 1) + k - 1]
    BY <2>1, <2>2, SubSeqProperties
  <2> QED BY <2>2, <2>3
<1> HIDE DEF a, b
<1>3. /\ a \o b \in Seq(S)
      /\ Len(a \o b) = Len(a) + Len(b)
      /\ \A k \in 1..(Len(a) + Len(b)) :
            (a \o b)[k] = IF k <= Len(a) THEN a[k] ELSE b[k - Len(a)]
  BY <1>1, <1>2, ConcatProperties
<1>4. Len(s) \in Nat /\ i \in Nat
  BY LenProperties
<1>5. ASSUME NEW k \in 1..(Len(s) - 1)
      PROVE  (a \o b)[k] = IF k < i THEN s[k] ELSE s[k + 1]
  <2>1. CASE k < i
    BY <1>1, <1>2, <1>3, <1>4, <2>1
  <2>2. CASE ~(k < i)
    <3>1. (a \o b)[k] = b[k - (i - 1)] /\ k - (i - 1) \in 1..(Len(s) - i)
      BY <1>1, <1>2, <1>3, <1>4, <2>2
    <3>2. b[k - (i - 1)] = s[(k - (i - 1)) + i]
      BY <1>2, <3>1
    <3>3. (k - (i - 1)) + i = k + 1
      BY <1>4
    <3>4. (a \o b)[k] = s[k + 1]
      BY <3>1, <3>2, <3>3
    <3> QED BY <2>2, <3>4
  <2> QED BY <2>1, <2>2
<1>6. RemoveAt(s, i) = a \o b
  BY DEF RemoveAt, a, b
<1>7. Len(a \o b) = Len(s) - 1
  BY <1>1, <1>2, <1>3, <1>4
<1> QED BY <1>3, <1>5, <1>6, <1>7

\* RemoveFirst gives back a sequence over the same set: either s itself, when e
\* is not in it, or s without the first position that holds e.
LEMMA QuitarPrimero ==
    ASSUME NEW S, NEW s \in Seq(S), NEW e
    PROVE  /\ RemoveFirst(s, e) \in Seq(S)
           /\ (\E i \in 1..Len(s) : s[i] = e) =>
                 \E i \in 1..Len(s) :
                    /\ s[i] = e
                    /\ \A j \in 1..Len(s) : s[j] = e => i <= j
                    /\ RemoveFirst(s, e) = RemoveAt(s, i)
           /\ (~ \E i \in 1..Len(s) : s[i] = e) => RemoveFirst(s, e) = s
<1>1. CASE \E i \in 1..Len(s) : s[i] = e
  <2> DEFINE I == {i \in 1..Len(s) : s[i] = e}
  <2>1. I \subseteq Nat /\ I # {}
    BY <1>1, LenProperties
  <2>2. Min(I) \in I /\ \A j \in I : Min(I) <= j
    BY <2>1, MinDeNaturales
  <2>3. RemoveFirst(s, e) = RemoveAt(s, Min(I))
    BY <1>1, <2>1 DEF RemoveFirst, SelectInSeq
  <2>4. RemoveAt(s, Min(I)) \in Seq(S)
    BY <2>2, QuitarPosicion
  <2> QED BY <1>1, <2>2, <2>3, <2>4
<1>2. CASE ~ \E i \in 1..Len(s) : s[i] = e
  BY <1>2 DEF RemoveFirst
<1> QED BY <1>1, <1>2

----------------------------------------------------------------------------
(***************************************************************************)
(* The inductive invariant.                                                *)
(***************************************************************************)

\* Where each thread can be.
Lugares ==
    /\ pc["principal"] \in {"crear", "planificar", "consultar", "espera_consulta",
                            "espera_creacion", "publicar", "publicar_otra", "soltar", "fin"}
    /\ pc["largo"] \in {"tomar", "consultar", "espera_consulta", "espera_creacion",
                        "publicar", "releer_estado", "siguiente", "soltar"}
    /\ pc["corto"] \in {"sem_externo", "contar_cpus", "ver_pausa", "reponer", "sem_interno",
                        "buscar_cpu", "asignar", "anotar_pid"}
    /\ pc["despacho"] \in Etiquetas \ {"crear", "planificar", "publicar_otra", "fin", "tomar",
                                       "releer_estado", "sem_externo", "contar_cpus", "ver_pausa", "reponer"}

\* A thread that works on a process has one.
ProcesoElegido ==
    \A h \in Planifican :
        pc[h] \in {"planificar", "encolar_new", "consultar", "espera_consulta",
                   "espera_creacion"} => proceso[h] \in Pids

\* Until main() has filed the first process nothing else moves.
Arranque ==
    /\ En("principal", "crear") => id_proceso = 0
    /\ En("principal", "planificar") => id_proceso = 1 /\ proceso["principal"] = 0
    /\ En("principal", "crear") \/ En("principal", "planificar") =>
          /\ cola_new = <<>> /\ cola_ready = <<>> /\ cola_exec = <<>>
          /\ En("largo", "tomar")
          /\ pc["despacho"] \in {"aceptar", "esperar_archivo", "recibir", "desechar"}

TipoInv == TypeOK /\ Lugares /\ ProcesoElegido /\ Arranque

\* Adding one at a pid keeps a function of naturals.
LEMMA ContarUna ==
    ASSUME NEW P, NEW f \in [P -> Nat], NEW q
    PROVE  [f EXCEPT ![q] = @ + 1] \in [P -> Nat]
<1> DEFINE g == [f EXCEPT ![q] = @ + 1]
<1>1. g = [x \in P |-> IF x = q THEN f[q] + 1 ELSE f[x]]
  OBVIOUS
<1>2. \A x \in P : (IF x = q THEN f[q] + 1 ELSE f[x]) \in Nat
  OBVIOUS
<1> QED BY <1>1, <1>2

\* inicializar_kernel leaves every variable in its type and every thread at its start.
LEMMA TipoInicial == Init => TipoInv
<1> SUFFICES ASSUME Init PROVE TipoInv
  OBVIOUS
<1> USE DEF Init, Hilos, Planifican, Despachan, En
<1>1. /\ pc \in [Hilos -> Etiquetas]
      /\ pc["principal"] = "crear" /\ pc["largo"] = "tomar"
      /\ pc["corto"] = "sem_externo" /\ pc["despacho"] = "aceptar"
  BY DEF Etiquetas
<1>2. TypeOK
  <2>1. <<>> \in Seq(Pids) /\ <<>> \in Seq(Pedidos) /\ <<>> \in Seq(Contestaciones)
    BY EmptySeq
  <2>2. creaciones \in [Pids -> Nat] /\ proceso \in [Planifican -> PidsONinguno]
    BY DEF PidsONinguno
  <2>3. id_proceso \in Pids /\ syscalls_restantes \in Nat /\ pid_leido \in PidsONinguno
        /\ proceso_en_exec \in PidsONinguno /\ pid_proceso_actual \in PidsONinguno
    BY SupuestoCotas DEF Pids, PidsONinguno
  <2>4. hay_procesos_ready \in Nat /\ indice \in Nat \ {0} /\ ready_contados \in Nat
    OBVIOUS
  <2> QED BY <1>1, <2>1, <2>2, <2>3, <2>4, Zenon DEF TypeOK, Syscalls
<1>3. Lugares
  BY <1>1 DEF Lugares, Etiquetas
<1>4. ProcesoElegido
  BY <1>1 DEF ProcesoElegido
<1>5. Arranque
  BY <1>1 DEF Arranque
<1> QED BY <1>2, <1>3, <1>4, <1>5 DEF TipoInv

\* No step of a thread, of memory or of the CPU leaves the type invariant.
LEMMA TipoPaso == TipoInv /\ [Next]_vars => TipoInv'
<1> SUFFICES ASSUME TypeOK, Lugares, ProcesoElegido, Arranque, [Next]_vars
             PROVE  TipoInv'
  BY DEF TipoInv
<1> USE SupuestoCotas, SupuestoRespuestas
    DEF Hilos, Planifican, Despachan, PidsONinguno, NINGUNO, En, Ir, colas, cpu, memoria, locales,
        MutexNewLibre, MutexCpusLibre, HayToken, HayEnNew, Retorno
<1>1. ASSUME NEW h \in Planifican, ConsultarMemoria(h) PROVE TipoInv'
  <2>1. aMemoria' \in Seq(Pedidos)
    BY <1>1, AppendProperties DEF ConsultarMemoria, TypeOK, ProcesoElegido, Pedidos, Operaciones,
       PidsONinguno
  <2>2. TypeOK'
    BY <1>1, <2>1, SMTT(20) DEF ConsultarMemoria, TypeOK, Etiquetas
  <2>3. Lugares'
    BY <1>1 DEF ConsultarMemoria, TypeOK, Lugares, Etiquetas
  <2>4. ProcesoElegido'
    BY <1>1 DEF ConsultarMemoria, TypeOK, ProcesoElegido
  <2>5. Arranque'
    BY <1>1 DEF ConsultarMemoria, TypeOK, Arranque, Lugares
  <2> QED BY <2>2, <2>3, <2>4, <2>5 DEF TipoInv
<1>2. ASSUME NEW h \in Planifican, RecibirConsulta(h) PROVE TipoInv'
  <2>1. Head(deMemoria) \in Contestaciones /\ deMemoria' \in Seq(Contestaciones)
    BY <1>2, HeadTailProperties DEF RecibirConsulta, TypeOK
  <2>2. RespuestaPositiva \in BOOLEAN
    BY <2>1 DEF RespuestaPositiva, Contestaciones
  <2>3. [hilo |-> h, op |-> "CREAR_PROCESO", pid |-> proceso[h]] \in Pedidos
    BY <1>2 DEF RecibirConsulta, ProcesoElegido, Pedidos, Operaciones, PidsONinguno
  <2>4. aMemoria' = aMemoria \/ aMemoria' = Append(aMemoria, [hilo |-> h, op |-> "CREAR_PROCESO", pid |-> proceso[h]])
    BY <1>2, Zenon DEF RecibirConsulta
  <2>5. Append(aMemoria, [hilo |-> h, op |-> "CREAR_PROCESO", pid |-> proceso[h]]) \in Seq(Pedidos)
    BY <2>3, AppendProperties DEF TypeOK
  <2>6. aMemoria' \in Seq(Pedidos)
    BY <2>4, <2>5, Zenon DEF TypeOK
  <2>7. \/ Ir(h, "espera_creacion") \/ (Ir(h, "siguiente") /\ h = "largo") \/ Ir(h, "soltar")
    <3>1. TrasFallo(h) => (Ir(h, "siguiente") /\ h = "largo") \/ Ir(h, "soltar")
      BY DEF TrasFallo
    <3> QED BY <1>2, <3>1, Zenon DEF RecibirConsulta
  <2>8. TypeOK'
    <3>1. indice' \in Nat \ {0}
      BY <1>2 DEF RecibirConsulta, TrasFallo, TypeOK
    <3>2. pc' \in [Hilos -> Etiquetas]
      BY <2>7 DEF TypeOK, Etiquetas
    <3> QED BY <1>2, <2>1, <2>6, <3>1, <3>2, SMTT(20) DEF RecibirConsulta, TypeOK
  <2>9. Lugares'
    BY <2>7 DEF TypeOK, Lugares, Etiquetas
  <2>10. ProcesoElegido'
    BY <1>2, <2>7 DEF RecibirConsulta, TypeOK, ProcesoElegido
  <2>11. Arranque'
    BY <1>2, <2>7 DEF RecibirConsulta, TypeOK, Arranque, Lugares
  <2> QED BY <2>8, <2>9, <2>10, <2>11 DEF TipoInv
<1>3. ASSUME NEW h \in Planifican, RecibirCreacion(h) PROVE TipoInv'
  <2>1. Head(deMemoria) \in Contestaciones /\ deMemoria' \in Seq(Contestaciones)
    BY <1>3, HeadTailProperties DEF RecibirCreacion, TypeOK
  <2>2. RespuestaPositiva \in BOOLEAN
    BY <2>1 DEF RespuestaPositiva, Contestaciones
  <2>3. cola_new' \in Seq(Pids)
    BY <1>3, QuitarPrimero DEF RecibirCreacion, SacarDeNew, TypeOK
  <2>4. proceso[h] \in Pids
    BY <1>3 DEF RecibirCreacion, ProcesoElegido
  <2>5. cola_ready' = cola_ready \/ cola_ready' = Append(cola_ready, proceso[h])
    BY <1>3, Zenon DEF RecibirCreacion
  <2>6. Append(cola_ready, proceso[h]) \in Seq(Pids)
    BY <2>4, AppendProperties DEF TypeOK
  <2>7. cola_ready' \in Seq(Pids)
    BY <2>5, <2>6, Zenon DEF TypeOK
  <2>8. indice' \in Nat \ {0}
    BY <1>3 DEF RecibirCreacion, TrasFallo, TypeOK
  <2>9. \/ Ir(h, "publicar") \/ (Ir(h, "espera_mutex") /\ h = "despacho")
        \/ (Ir(h, "siguiente") /\ h = "largo") \/ Ir(h, "soltar")
    <3>1. TrasFallo(h) => (Ir(h, "siguiente") /\ h = "largo") \/ Ir(h, "soltar")
      BY DEF TrasFallo
    <3> QED BY <1>3, <3>1, Zenon DEF RecibirCreacion, ReTomaMutex
  <2>10. TypeOK'
    <3>1. pc' \in [Hilos -> Etiquetas]
      BY <2>9 DEF TypeOK, Etiquetas
    <3> QED BY <1>3, <2>1, <2>3, <2>7, <2>8, <3>1, SMTT(20) DEF RecibirCreacion, TypeOK
  <2>11. Lugares'
    BY <2>9 DEF TypeOK, Lugares, Etiquetas
  <2>12. ProcesoElegido'
    BY <1>3, <2>9 DEF RecibirCreacion, TypeOK, ProcesoElegido
  <2>13. Arranque'
    BY <1>3, <2>9 DEF RecibirCreacion, TypeOK, Arranque, Lugares
  <2> QED BY <2>10, <2>11, <2>12, <2>13 DEF TipoInv
<1>4. ASSUME NEW h \in Planifican, PublicarReady(h) PROVE TipoInv'
  <2>1. TypeOK'
    <3>1. Ir(h, "publicar_otra") \/ Ir(h, "soltar") \/ Ir(h, "siguiente")
          \/ Ir(h, "releer_estado")
      BY <1>4, Zenon DEF PublicarReady
    <3>2. pc' \in [Hilos -> Etiquetas]
      BY <3>1 DEF TypeOK, Etiquetas
    <3> QED BY <1>4, <3>2, SMTT(20) DEF PublicarReady, TypeOK
  <2>2. Lugares'
    BY <1>4 DEF PublicarReady, TypeOK, Lugares, Etiquetas
  <2>3. ProcesoElegido'
    BY <1>4 DEF PublicarReady, TypeOK, ProcesoElegido
  <2>4. Arranque'
    BY <1>4 DEF PublicarReady, TypeOK, Arranque, Lugares
  <2> QED BY <2>1, <2>2, <2>3, <2>4 DEF TipoInv
<1>5. ASSUME NEW h \in Planifican, SoltarNew(h) PROVE TipoInv'
  <2>1. TypeOK'
    BY <1>5, SMTT(20) DEF SoltarNew, TypeOK, Etiquetas
  <2>2. Lugares'
    BY <1>5 DEF SoltarNew, TypeOK, Lugares, Etiquetas
  <2>3. ProcesoElegido'
    BY <1>5 DEF SoltarNew, TypeOK, ProcesoElegido
  <2>4. Arranque'
    BY <1>5 DEF SoltarNew, TypeOK, Arranque, Lugares
  <2> QED BY <2>1, <2>2, <2>3, <2>4 DEF TipoInv
<1>6. ASSUME NEW h \in {"largo", "despacho"}, SiguienteDeNew(h) PROVE TipoInv'
  <2>1. cola_new \in Seq(Pids) /\ proceso' \in [Planifican -> PidsONinguno]
    BY <1>6, LenProperties DEF SiguienteDeNew, TypeOK
  <2>2. TypeOK'
    BY <1>6, <2>1, SMTT(20) DEF SiguienteDeNew, TypeOK, Etiquetas
  <2>3. Lugares'
    BY <1>6 DEF SiguienteDeNew, TypeOK, Lugares, Etiquetas
  <2>4. ProcesoElegido'
    BY <1>6 DEF SiguienteDeNew, TypeOK, ProcesoElegido
  <2>5. Arranque'
    BY <1>6 DEF SiguienteDeNew, TypeOK, Arranque, Lugares
  <2> QED BY <2>2, <2>3, <2>4, <2>5 DEF TipoInv
<1>6a. CASE ReleerEstado
  <2>1. TypeOK'
    BY <1>6a, SMTT(20) DEF ReleerEstado, TypeOK, Etiquetas
  <2>2. Lugares'
    BY <1>6a DEF ReleerEstado, TypeOK, Lugares, Etiquetas
  <2>3. ProcesoElegido'
    BY <1>6a DEF ReleerEstado, TypeOK, ProcesoElegido
  <2>4. Arranque'
    BY <1>6a DEF ReleerEstado, TypeOK, Arranque, Lugares
  <2> QED BY <2>1, <2>2, <2>3, <2>4 DEF TipoInv
<1>7. ASSUME NEW h \in Despachan, EsperarReadyInterno(h) PROVE TipoInv'
  <2>1. TypeOK'
    BY <1>7, SMTT(20) DEF EsperarReadyInterno, TypeOK, Etiquetas
  <2>2. Lugares'
    BY <1>7 DEF EsperarReadyInterno, TypeOK, Lugares, Etiquetas
  <2>3. ProcesoElegido'
    BY <1>7 DEF EsperarReadyInterno, TypeOK, ProcesoElegido
  <2>4. Arranque'
    BY <1>7 DEF EsperarReadyInterno, TypeOK, Arranque, Lugares
  <2> QED BY <2>1, <2>2, <2>3, <2>4 DEF TipoInv
<1>8. ASSUME NEW h \in Despachan, BuscarCpuLibre(h) PROVE TipoInv'
  <2>1. TypeOK'
    BY <1>8, SMTT(20) DEF BuscarCpuLibre, TypeOK, Etiquetas
  <2>2. Lugares'
    BY <1>8 DEF BuscarCpuLibre, TypeOK, Lugares, Etiquetas
  <2>3. ProcesoElegido'
    BY <1>8 DEF BuscarCpuLibre, TypeOK, ProcesoElegido
  <2>4. Arranque'
    BY <1>8 DEF BuscarCpuLibre, TypeOK, Arranque, Lugares
  <2> QED BY <2>1, <2>2, <2>3, <2>4 DEF TipoInv
<1>9. ASSUME NEW h \in Despachan, AsignarCpu(h) PROVE TipoInv'
  <2>1. esta_libre' \in BOOLEAN
    BY <1>9, Zenon DEF AsignarCpu, TypeOK
  <2>2. cola_ready # <<>> => Head(cola_ready) \in Pids /\ Tail(cola_ready) \in Seq(Pids) /\ Append(cola_exec, Head(cola_ready)) \in Seq(Pids)
    BY HeadTailProperties, AppendProperties DEF TypeOK
  <2>3. TypeOK'
    <3>1. CASE cola_ready # <<>> /\ cola_ready' = SacarDeReady
      <4>1. cola_ready' \in Seq(Pids)
        BY <2>2, <3>1 DEF SacarDeReady
      <4>2. cola_exec' \in Seq(Pids) /\ proceso_en_exec' \in PidsONinguno
        BY <1>9, <2>2, <3>1 DEF AsignarCpu, TypeOK
      <4>3. pc' \in [Hilos -> Etiquetas] /\ mutex_cpus' \in Despachan \cup {Nadie}
        BY <1>9, <3>1 DEF AsignarCpu, TypeOK, Etiquetas
      <4> QED BY <1>9, <2>1, <4>1, <4>2, <4>3 DEF AsignarCpu, TypeOK
    <3>2. CASE cola_ready = <<>> /\ UNCHANGED <<cola_ready, cola_exec, esta_libre, proceso_en_exec>>
      BY <1>9, <2>1, <2>2, <3>2 DEF AsignarCpu, TypeOK, Etiquetas
    <3> QED BY <1>9, <3>1, <3>2, Zenon DEF AsignarCpu
  <2>4. Lugares'
    <3>1. Ir(h, "anotar_pid") \/ Ir(h, Retorno(h))
      BY <1>9, Zenon DEF AsignarCpu
    <3> QED BY <1>9, <3>1 DEF TypeOK, Lugares, Etiquetas
  <2>5. ProcesoElegido'
    BY <1>9 DEF AsignarCpu, SacarDeReady, TypeOK, ProcesoElegido
  <2>6. Arranque'
    BY <1>9 DEF AsignarCpu, SacarDeReady, TypeOK, Arranque, Lugares
  <2> QED BY <2>3, <2>4, <2>5, <2>6 DEF TipoInv
<1>10. ASSUME NEW h \in Despachan, AnotarPidActual(h) PROVE TipoInv'
  <2>1. TypeOK'
    BY <1>10, SMTT(20) DEF AnotarPidActual, TypeOK, Etiquetas
  <2>2. Lugares'
    BY <1>10 DEF AnotarPidActual, TypeOK, Lugares, Etiquetas
  <2>3. ProcesoElegido'
    BY <1>10 DEF AnotarPidActual, TypeOK, ProcesoElegido
  <2>4. Arranque'
    BY <1>10 DEF AnotarPidActual, TypeOK, Arranque, Lugares
  <2> QED BY <2>1, <2>2, <2>3, <2>4 DEF TipoInv
<1>11. CASE VencerMutex
  <2>1. TypeOK'
    BY <1>11, SMTT(20) DEF VencerMutex, TypeOK, Etiquetas
  <2>2. Lugares'
    BY <1>11 DEF VencerMutex, TypeOK, Lugares, Etiquetas
  <2>3. ProcesoElegido'
    BY <1>11 DEF VencerMutex, TypeOK, ProcesoElegido
  <2>4. Arranque'
    BY <1>11 DEF VencerMutex, TypeOK, Arranque, Lugares
  <2> QED BY <2>1, <2>2, <2>3, <2>4 DEF TipoInv
<1>12. CASE CrearPrimero
  <2>1. id_proceso' \in Pids /\ archivo_listo' \in BOOLEAN /\ proceso' \in [Planifican -> PidsONinguno]
    BY <1>12 DEF CrearPrimero, TypeOK, Arranque, Pids
  <2>2. TypeOK'
    BY <1>12, <2>1, SMTT(20) DEF CrearPrimero, TypeOK, Etiquetas
  <2>3. Lugares'
    BY <1>12 DEF CrearPrimero, TypeOK, Lugares, Etiquetas
  <2>4. ProcesoElegido'
    BY <1>12 DEF CrearPrimero, TypeOK, ProcesoElegido
  <2>5. Arranque'
    BY <1>12 DEF CrearPrimero, TypeOK, Arranque, Lugares
  <2> QED BY <2>2, <2>3, <2>4, <2>5 DEF TipoInv
<1>13. CASE PlanificarPrimero
  <2>1. cola_new' \in Seq(Pids)
    BY <1>13, AppendProperties DEF TypeOK, PlanificarPrimero, AgregarANew, ProcesoElegido
  <2>2. TypeOK'
    BY <1>13, <2>1, SMTT(20) DEF PlanificarPrimero, TypeOK, Etiquetas
  <2>3. Lugares'
    BY <1>13 DEF PlanificarPrimero, TypeOK, Lugares, Etiquetas
  <2>4. ProcesoElegido'
    BY <1>13 DEF PlanificarPrimero, TypeOK, ProcesoElegido
  <2>5. Arranque'
    BY <1>13 DEF PlanificarPrimero, TypeOK, Arranque, Lugares
  <2> QED BY <2>2, <2>3, <2>4, <2>5 DEF TipoInv
<1>14. CASE PublicarOtra
  <2>1. TypeOK'
    BY <1>14, SMTT(20) DEF PublicarOtra, TypeOK, Etiquetas
  <2>2. Lugares'
    BY <1>14 DEF PublicarOtra, TypeOK, Lugares, Etiquetas
  <2>3. ProcesoElegido'
    BY <1>14 DEF PublicarOtra, TypeOK, ProcesoElegido
  <2>4. Arranque'
    BY <1>14 DEF PublicarOtra, TypeOK, Arranque, Lugares
  <2> QED BY <2>1, <2>2, <2>3, <2>4 DEF TipoInv
<1>15. CASE TomarNewLargo
  <2>1. Head(cola_new) \in Pids
    BY <1>15, HeadTailProperties DEF TypeOK, TomarNewLargo
  <2>2. TypeOK'
    BY <1>15, <2>1, SMTT(20) DEF TomarNewLargo, TypeOK, Etiquetas
  <2>3. Lugares'
    BY <1>15 DEF TomarNewLargo, TypeOK, Lugares, Etiquetas
  <2>4. ProcesoElegido'
    BY <1>15 DEF TomarNewLargo, TypeOK, ProcesoElegido
  <2>5. Arranque'
    BY <1>15 DEF TomarNewLargo, TypeOK, Arranque, Lugares
  <2> QED BY <2>2, <2>3, <2>4, <2>5 DEF TipoInv
<1>16. CASE EsperarReadyExterno
  <2>1. TypeOK'
    BY <1>16, SMTT(20) DEF EsperarReadyExterno, TypeOK, Etiquetas
  <2>2. Lugares'
    BY <1>16 DEF EsperarReadyExterno, TypeOK, Lugares, Etiquetas
  <2>3. ProcesoElegido'
    BY <1>16 DEF EsperarReadyExterno, TypeOK, ProcesoElegido
  <2>4. Arranque'
    BY <1>16 DEF EsperarReadyExterno, TypeOK, Arranque, Lugares
  <2> QED BY <2>1, <2>2, <2>3, <2>4 DEF TipoInv
<1>17. CASE ContarCpus
  <2>1. TypeOK'
    BY <1>17, SMTT(20) DEF ContarCpus, TypeOK, Etiquetas
  <2>2. Lugares'
    BY <1>17 DEF ContarCpus, TypeOK, Lugares, Etiquetas
  <2>3. ProcesoElegido'
    BY <1>17 DEF ContarCpus, TypeOK, ProcesoElegido
  <2>4. Arranque'
    BY <1>17 DEF ContarCpus, TypeOK, Arranque, Lugares
  <2> QED BY <2>1, <2>2, <2>3, <2>4 DEF TipoInv
<1>18. CASE VerPausa
  <2>1. TypeOK'
    BY <1>18, SMTT(20) DEF VerPausa, TypeOK, Etiquetas
  <2>2. Lugares'
    BY <1>18 DEF VerPausa, TypeOK, Lugares, Etiquetas
  <2>3. ProcesoElegido'
    BY <1>18 DEF VerPausa, TypeOK, ProcesoElegido
  <2>4. Arranque'
    BY <1>18 DEF VerPausa, TypeOK, Arranque, Lugares
  <2> QED BY <2>1, <2>2, <2>3, <2>4 DEF TipoInv
<1>19. CASE ReponerToken
  <2>1. TypeOK'
    BY <1>19, SMTT(20) DEF ReponerToken, TypeOK, Etiquetas
  <2>2. Lugares'
    BY <1>19 DEF ReponerToken, TypeOK, Lugares, Etiquetas
  <2>3. ProcesoElegido'
    BY <1>19 DEF ReponerToken, TypeOK, ProcesoElegido
  <2>4. Arranque'
    BY <1>19 DEF ReponerToken, TypeOK, Arranque, Lugares
  <2> QED BY <2>1, <2>2, <2>3, <2>4 DEF TipoInv
<1>20. CASE AceptarCpu
  <2>1. TypeOK'
    BY <1>20, SMTT(20) DEF AceptarCpu, TypeOK, Etiquetas
  <2>2. Lugares'
    BY <1>20 DEF AceptarCpu, TypeOK, Lugares, Etiquetas
  <2>3. ProcesoElegido'
    BY <1>20 DEF AceptarCpu, TypeOK, ProcesoElegido
  <2>4. Arranque'
    BY <1>20 DEF AceptarCpu, TypeOK, Arranque, Lugares
  <2> QED BY <2>1, <2>2, <2>3, <2>4 DEF TipoInv
<1>21. CASE EsperarArchivo
  <2>1. archivo_listo' \in BOOLEAN
    BY <1>21, Zenon DEF EsperarArchivo
  <2>2. TypeOK'
    BY <1>21, <2>1, SMTT(20) DEF EsperarArchivo, TypeOK, Etiquetas
  <2>3. Lugares'
    BY <1>21 DEF EsperarArchivo, TypeOK, Lugares, Etiquetas
  <2>4. ProcesoElegido'
    BY <1>21 DEF EsperarArchivo, TypeOK, ProcesoElegido
  <2>5. Arranque'
    BY <1>21 DEF EsperarArchivo, TypeOK, Arranque, Lugares
  <2> QED BY <2>2, <2>3, <2>4, <2>5 DEF TipoInv
<1>22. CASE RecibirSyscall
  <2>1. syscalls_restantes' \in Nat /\ syscall' \in Syscalls
    BY <1>22 DEF RecibirSyscall, TypeOK
  <2>2. \/ id_proceso < MaxProcesos /\ id_proceso' = id_proceso + 1 /\ proceso' = [proceso EXCEPT !["despacho"] = id_proceso]
        \/ UNCHANGED <<id_proceso, proceso>>
    BY <1>22, Zenon DEF RecibirSyscall
  <2>3. proceso' \in [Planifican -> PidsONinguno]
    BY <2>2 DEF TypeOK
  <2>4. id_proceso' \in Pids
    BY <2>2 DEF TypeOK, Pids
  <2>5. TypeOK'
    <3>1. pc' \in [Hilos -> Etiquetas]
      BY <1>22 DEF RecibirSyscall, TypeOK, Etiquetas
    <3> QED BY <1>22, <2>1, <2>3, <2>4, <3>1, SMTT(20) DEF RecibirSyscall, TypeOK
  <2>6. Lugares'
    BY <1>22 DEF RecibirSyscall, TypeOK, Lugares, Etiquetas
  <2>7. ProcesoElegido'
    BY <1>22 DEF RecibirSyscall, TypeOK, ProcesoElegido
  <2>8. Arranque'
    BY <1>22 DEF RecibirSyscall, TypeOK, Arranque, Lugares
  <2> QED BY <2>5, <2>6, <2>7, <2>8 DEF TipoInv
<1>23. CASE EncolarEnNew
  <2>1. cola_new' \in Seq(Pids)
    BY <1>23, AppendProperties DEF TypeOK, EncolarEnNew, AgregarANew, ProcesoElegido
  <2>2. TypeOK'
    BY <1>23, <2>1, SMTT(20) DEF EncolarEnNew, TypeOK, Etiquetas
  <2>3. Lugares'
    BY <1>23 DEF EncolarEnNew, TypeOK, Lugares, Etiquetas
  <2>4. ProcesoElegido'
    BY <1>23 DEF EncolarEnNew, TypeOK, ProcesoElegido
  <2>5. Arranque'
    BY <1>23 DEF EncolarEnNew, TypeOK, Arranque, Lugares
  <2> QED BY <2>2, <2>3, <2>4, <2>5 DEF TipoInv
<1>24. CASE LeerPidActual
  <2>1. TypeOK'
    BY <1>24, SMTT(20) DEF LeerPidActual, TypeOK, Etiquetas
  <2>2. Lugares'
    BY <1>24 DEF LeerPidActual, TypeOK, Lugares, Etiquetas
  <2>3. ProcesoElegido'
    BY <1>24 DEF LeerPidActual, TypeOK, ProcesoElegido
  <2>4. Arranque'
    BY <1>24 DEF LeerPidActual, TypeOK, Arranque, Lugares
  <2> QED BY <2>1, <2>2, <2>3, <2>4 DEF TipoInv
<1>25. CASE BuscarEnNew
  <2>1. TypeOK'
    BY <1>25, SMTT(20) DEF BuscarEnNew, TypeOK, Etiquetas
  <2>2. Lugares'
    BY <1>25 DEF BuscarEnNew, TypeOK, Lugares, Etiquetas
  <2>3. ProcesoElegido'
    BY <1>25 DEF BuscarEnNew, TypeOK, ProcesoElegido
  <2>4. Arranque'
    BY <1>25 DEF BuscarEnNew, TypeOK, Arranque, Lugares
  <2> QED BY <2>1, <2>2, <2>3, <2>4 DEF TipoInv
<1>26. CASE BuscarEnSuspReady
  <2>1. TypeOK'
    BY <1>26, SMTT(20) DEF BuscarEnSuspReady, TypeOK, Etiquetas
  <2>2. Lugares'
    BY <1>26 DEF BuscarEnSuspReady, TypeOK, Lugares, Etiquetas
  <2>3. ProcesoElegido'
    BY <1>26 DEF BuscarEnSuspReady, TypeOK, ProcesoElegido
  <2>4. Arranque'
    BY <1>26 DEF BuscarEnSuspReady, TypeOK, Arranque, Lugares
  <2> QED BY <2>1, <2>2, <2>3, <2>4 DEF TipoInv
<1>27. CASE LeerPidAFinalizar
  <2>1. TypeOK'
    BY <1>27, SMTT(20) DEF LeerPidAFinalizar, TypeOK, Etiquetas
  <2>2. Lugares'
    BY <1>27 DEF LeerPidAFinalizar, TypeOK, Lugares, Etiquetas
  <2>3. ProcesoElegido'
    BY <1>27 DEF LeerPidAFinalizar, TypeOK, ProcesoElegido
  <2>4. Arranque'
    BY <1>27 DEF LeerPidAFinalizar, TypeOK, Arranque, Lugares
  <2> QED BY <2>1, <2>2, <2>3, <2>4 DEF TipoInv
<1>28. CASE LiberarCpu
  <2>1. esta_libre' \in BOOLEAN /\ proceso_en_exec' \in PidsONinguno
    BY <1>28, Zenon DEF LiberarCpu, TypeOK
  <2>2. TypeOK'
    BY <1>28, <2>1, SMTT(20) DEF LiberarCpu, TypeOK, Etiquetas
  <2>3. Lugares'
    BY <1>28 DEF LiberarCpu, TypeOK, Lugares, Etiquetas
  <2>4. ProcesoElegido'
    BY <1>28 DEF LiberarCpu, TypeOK, ProcesoElegido
  <2>5. Arranque'
    BY <1>28 DEF LiberarCpu, TypeOK, Arranque, Lugares
  <2> QED BY <2>2, <2>3, <2>4, <2>5 DEF TipoInv
<1>29. CASE ContarReady
  <2>1. TypeOK'
    BY <1>29, SMTT(20) DEF ContarReady, TypeOK, Etiquetas
  <2>2. Lugares'
    BY <1>29 DEF ContarReady, TypeOK, Lugares, Etiquetas
  <2>3. ProcesoElegido'
    BY <1>29 DEF ContarReady, TypeOK, ProcesoElegido
  <2>4. Arranque'
    BY <1>29 DEF ContarReady, TypeOK, Arranque, Lugares
  <2> QED BY <2>1, <2>2, <2>3, <2>4 DEF TipoInv
<1>30. CASE CorregirSemaforo
  <2>1. TypeOK'
    BY <1>30, SMTT(20) DEF CorregirSemaforo, TypeOK, Etiquetas
  <2>2. Lugares'
    BY <1>30 DEF CorregirSemaforo, TypeOK, Lugares, Etiquetas
  <2>3. ProcesoElegido'
    BY <1>30 DEF CorregirSemaforo, TypeOK, ProcesoElegido
  <2>4. Arranque'
    BY <1>30 DEF CorregirSemaforo, TypeOK, Arranque, Lugares
  <2> QED BY <2>1, <2>2, <2>3, <2>4 DEF TipoInv
<1>31. CASE PausarPlanificador
  <2>1. TypeOK'
    BY <1>31, SMTT(20) DEF PausarPlanificador, TypeOK, Etiquetas
  <2>2. Lugares'
    BY <1>31 DEF PausarPlanificador, TypeOK, Lugares, Etiquetas
  <2>3. ProcesoElegido'
    BY <1>31 DEF PausarPlanificador, TypeOK, ProcesoElegido
  <2>4. Arranque'
    BY <1>31 DEF PausarPlanificador, TypeOK, Arranque, Lugares
  <2> QED BY <2>1, <2>2, <2>3, <2>4 DEF TipoInv
<1>32. CASE ResponderSyscall
  <2>1. TypeOK'
    BY <1>32, SMTT(20) DEF ResponderSyscall, TypeOK, Etiquetas
  <2>2. Lugares'
    BY <1>32 DEF ResponderSyscall, TypeOK, Lugares, Etiquetas
  <2>3. ProcesoElegido'
    BY <1>32 DEF ResponderSyscall, TypeOK, ProcesoElegido
  <2>4. Arranque'
    BY <1>32 DEF ResponderSyscall, TypeOK, Arranque, Lugares
  <2> QED BY <2>1, <2>2, <2>3, <2>4 DEF TipoInv
<1>33. CASE ProcesarColaNew
  <2>1. cola_new # <<>> => Head(cola_new) \in Pids
    BY <1>33, HeadTailProperties DEF TypeOK, ProcesarColaNew
  <2>2. TypeOK'
    <3>1. pc' \in [Hilos -> Etiquetas]
      BY <1>33 DEF ProcesarColaNew, TypeOK, Etiquetas
    <3>2. proceso' \in [Planifican -> PidsONinguno] /\ mutex_cola_new' \in Planifican \cup {Nadie}
      BY <1>33, <2>1 DEF ProcesarColaNew, TypeOK
    <3> QED BY <1>33, <3>1, <3>2, SMTT(20) DEF ProcesarColaNew, TypeOK
  <2>3. Lugares'
    BY <1>33 DEF ProcesarColaNew, TypeOK, Lugares, Etiquetas
  <2>4. ProcesoElegido'
    BY <1>33 DEF ProcesarColaNew, TypeOK, ProcesoElegido
  <2>5. Arranque'
    BY <1>33 DEF ProcesarColaNew, TypeOK, Arranque, Lugares
  <2> QED BY <2>2, <2>3, <2>4, <2>5 DEF TipoInv
<1>34. CASE ReanudarPlanificador
  <2>1. planificador_pausado' \in BOOLEAN
    BY <1>34, Zenon DEF ReanudarPlanificador
  <2>2. TypeOK'
    BY <1>34, <2>1, SMTT(20) DEF ReanudarPlanificador, TypeOK, Etiquetas
  <2>3. Lugares'
    BY <1>34 DEF ReanudarPlanificador, TypeOK, Lugares, Etiquetas
  <2>4. ProcesoElegido'
    BY <1>34 DEF ReanudarPlanificador, TypeOK, ProcesoElegido
  <2>5. Arranque'
    BY <1>34 DEF ReanudarPlanificador, TypeOK, Arranque, Lugares
  <2> QED BY <2>2, <2>3, <2>4, <2>5 DEF TipoInv
<1>35. CASE DesconectarCpu
  <2>1. TypeOK'
    BY <1>35, SMTT(20) DEF DesconectarCpu, TypeOK, Etiquetas
  <2>2. Lugares'
    BY <1>35 DEF DesconectarCpu, TypeOK, Lugares, Etiquetas
  <2>3. ProcesoElegido'
    BY <1>35 DEF DesconectarCpu, TypeOK, ProcesoElegido
  <2>4. Arranque'
    BY <1>35 DEF DesconectarCpu, TypeOK, Arranque, Lugares
  <2> QED BY <2>1, <2>2, <2>3, <2>4 DEF TipoInv
<1>36. CASE DesecharReady
  <2>1. cola_ready # <<>> => Head(cola_ready) \in Pids /\ Tail(cola_ready) \in Seq(Pids)
    BY HeadTailProperties DEF TypeOK
  <2>2. TypeOK'
    BY <1>36, <2>1, SMTT(20) DEF DesecharReady, SacarDeReady, TypeOK, Etiquetas
  <2>3. Lugares'
    BY <1>36 DEF DesecharReady, SacarDeReady, TypeOK, Lugares, Etiquetas
  <2>4. ProcesoElegido'
    BY <1>36 DEF DesecharReady, SacarDeReady, TypeOK, ProcesoElegido
  <2>5. Arranque'
    BY <1>36 DEF DesecharReady, SacarDeReady, TypeOK, Arranque, Lugares
  <2> QED BY <2>2, <2>3, <2>4, <2>5 DEF TipoInv
<1>37. CASE ResponderMemoria
  <2>1. Head(aMemoria) \in Pedidos /\ aMemoria' \in Seq(Pedidos)
    BY <1>37, HeadTailProperties DEF ResponderMemoria, TypeOK
  <2>2. deMemoria' \in Seq(Contestaciones)
    BY <1>37, <2>1, AppendProperties DEF ResponderMemoria, TypeOK, Pedidos, Contestaciones
  <2>3. creaciones' = creaciones \/ creaciones' = [creaciones EXCEPT ![Head(aMemoria).pid] = @ + 1]
    BY <1>37, Zenon DEF ResponderMemoria
  <2>4. creaciones' \in [Pids -> Nat]
    <3>1. [creaciones EXCEPT ![Head(aMemoria).pid] = @ + 1] \in [Pids -> Nat]
      BY ContarUna DEF TypeOK
    <3> QED BY <2>3, <3>1, Zenon DEF TypeOK
  <2>5. TypeOK'
    BY <1>37, <2>1, <2>2, <2>3, <2>4, SMTT(20) DEF ResponderMemoria, TypeOK, Etiquetas
  <2>6. Lugares'
    BY <1>37 DEF ResponderMemoria, TypeOK, Lugares, Etiquetas
  <2>7. ProcesoElegido'
    BY <1>37 DEF ResponderMemoria, TypeOK, ProcesoElegido
  <2>8. Arranque'
    BY <1>37 DEF ResponderMemoria, TypeOK, Arranque, Lugares
  <2> QED BY <2>5, <2>6, <2>7, <2>8 DEF TipoInv
<1>38. CASE UNCHANGED vars
  <2>1. TypeOK'
    BY <1>38, SMTT(20) DEF vars, TypeOK, Etiquetas
  <2>2. Lugares'
    BY <1>38 DEF vars, TypeOK, Lugares, Etiquetas
  <2>3. ProcesoElegido'
    BY <1>38 DEF vars, TypeOK, ProcesoElegido
  <2>4. Arranque'
    BY <1>38 DEF vars, TypeOK, Arranque, Lugares
  <2> QED BY <2>1, <2>2, <2>3, <2>4 DEF TipoInv
<1> QED
  BY <1>1, <1>2, <1>3, <1>4, <1>5, <1>6, <1>6a, <1>7, <1>8, <1>9, <1>10, <1>11, <1>12, <1>13,
     <1>14, <1>15, <1>16, <1>17, <1>18, <1>19, <1>20, <1>21, <1>22, <1>23, <1>24, <1>25, <1>26,
     <1>27, <1>28, <1>29, <1>30, <1>31, <1>32, <1>33, <1>34, <1>35, <1>36, <1>37, <1>38
     DEF Next, Principal, Largo, Corto, DespachoInterno, Entorno, PasarAReady, CortoPlazo
=============================================================================
