----------------------- MODULE KernelSeguridad_proofs -----------------------
(***************************************************************************)
(* Mutual exclusion in the scheduling core of the kernel and what it buys: *)
(* one conversation with memory at a time and one process per CPU; and, on *)
(* top of them, that no process is lost, copied, overtaken or run before   *)
(* memory has created it.                                                  *)
(***************************************************************************)
EXTENDS KernelPlanificacion_proofs

\* The sections a thread executes with each mutex held.
SeccionNew  == {"consultar", "espera_consulta", "espera_creacion", "espera_mutex",
                "publicar", "publicar_otra", "releer_estado", "siguiente", "soltar"}
SeccionCpus == {"asignar", "anotar_pid"}

ExclusionNew  == \A h \in Planifican : pc[h] \in SeccionNew  <=> mutex_cola_new = h
ExclusionCpus == \A h \in Despachan  : pc[h] \in SeccionCpus <=> mutex_cpus = h

\* The CPU that a thread is about to give away is free; the one it has given away
\* and not yet noted runs a process.
CpuInv ==
    /\ En("despacho", "aceptar") = ~cpu_conectada
    /\ (cpu_conectada /\ ~esta_libre) = (proceso_en_exec # NINGUNO)
    /\ \A h \in Despachan : En(h, "asignar") => cpu_conectada /\ esta_libre
    /\ proceso_en_exec # NINGUNO => cola_exec # <<>> /\ proceso_en_exec = Last(cola_exec)
    /\ proceso_en_exec # NINGUNO /\ (\A h \in Despachan : ~En(h, "anotar_pid"))
          => pid_proceso_actual = proceso_en_exec
    /\ \A h \in Despachan : En(h, "anotar_pid") => proceso_en_exec # NINGUNO

\* The conversation with memory: the thread that waits is the only one, and what
\* is on the socket is its request or the answer to it.
Esperando(h) == En(h, "espera_consulta") \/ En(h, "espera_creacion")
Pregunta(h)  == IF En(h, "espera_consulta") THEN "CONSULTAR_ESPACIO" ELSE "CREAR_PROCESO"

Conversacion ==
    /\ \A h \in Planifican : Esperando(h) =>
          /\ Len(aMemoria) + Len(deMemoria) = 1
          /\ \A i \in 1..Len(aMemoria) : aMemoria[i].hilo = h /\ aMemoria[i].op = Pregunta(h)
          /\ \A i \in 1..Len(deMemoria) : deMemoria[i].hilo = h /\ deMemoria[i].op = Pregunta(h)
    /\ (\A h \in Planifican : ~Esperando(h)) => Len(aMemoria) = 0 /\ Len(deMemoria) = 0

\* mutex_cola_new is held exactly by the thread that is between its lock and its
\* unlock: two threads are never there at once.
LEMMA ExclusionNewPaso == TipoInv /\ ExclusionNew /\ [Next]_vars => ExclusionNew'
<1> SUFFICES ASSUME TipoInv, ExclusionNew, [Next]_vars PROVE ExclusionNew'
  OBVIOUS
<1>0. /\ mutex_cola_new \in Planifican \cup {Nadie}
      /\ pc \in [Hilos -> Etiquetas] /\ Lugares
  BY DEF TipoInv, TypeOK
<1> USE <1>0 DEF Hilos, Planifican, Despachan, En, Ir, Nadie, MutexNewLibre, ExclusionNew,
     SeccionNew, Lugares, Etiquetas
<1>1. ASSUME NEW h \in Planifican, ConsultarMemoria(h) PROVE ExclusionNew'
  BY <1>1 DEF ConsultarMemoria
<1>2. ASSUME NEW h \in Planifican, RecibirConsulta(h) PROVE ExclusionNew'
  <2>1. TrasFallo(h) => pc' = [pc EXCEPT ![h] = "siguiente"] \/ pc' = [pc EXCEPT ![h] = "soltar"]
    BY DEF TrasFallo
  <2> QED BY <1>2, <2>1 DEF RecibirConsulta
<1>3. ASSUME NEW h \in Planifican, RecibirCreacion(h) PROVE ExclusionNew'
  <2>1. TrasFallo(h) => pc' = [pc EXCEPT ![h] = "siguiente"] \/ pc' = [pc EXCEPT ![h] = "soltar"]
    BY DEF TrasFallo
  <2> QED BY <1>3, <2>1 DEF RecibirCreacion
<1>4. ASSUME NEW h \in Planifican, PublicarReady(h) PROVE ExclusionNew'
  BY <1>4 DEF PublicarReady
<1>5. ASSUME NEW h \in Planifican, SoltarNew(h) PROVE ExclusionNew'
  BY <1>5 DEF SoltarNew
<1>6. ASSUME NEW h \in {"largo", "despacho"}, SiguienteDeNew(h) PROVE ExclusionNew'
  BY <1>6 DEF SiguienteDeNew
<1>6a. CASE ReleerEstado
  BY <1>6a DEF ReleerEstado
<1>7. ASSUME NEW h \in Despachan, EsperarReadyInterno(h) PROVE ExclusionNew'
  BY <1>7 DEF EsperarReadyInterno
<1>8. ASSUME NEW h \in Despachan, BuscarCpuLibre(h) PROVE ExclusionNew'
  BY <1>8 DEF BuscarCpuLibre, Retorno
<1>9. ASSUME NEW h \in Despachan, AsignarCpu(h) PROVE ExclusionNew'
  BY <1>9 DEF AsignarCpu, Retorno
<1>10. ASSUME NEW h \in Despachan, AnotarPidActual(h) PROVE ExclusionNew'
  BY <1>10 DEF AnotarPidActual, Retorno
<1>11. CASE VencerMutex
  BY <1>11 DEF VencerMutex
<1>12. CASE CrearPrimero
  BY <1>12 DEF CrearPrimero
<1>13. CASE PlanificarPrimero
  BY <1>13 DEF PlanificarPrimero
<1>14. CASE PublicarOtra
  BY <1>14 DEF PublicarOtra
<1>15. CASE TomarNewLargo
  BY <1>15 DEF TomarNewLargo
<1>16. CASE EsperarReadyExterno
  BY <1>16 DEF EsperarReadyExterno
<1>17. CASE ContarCpus
  BY <1>17 DEF ContarCpus
<1>18. CASE VerPausa
  BY <1>18 DEF VerPausa
<1>19. CASE ReponerToken
  BY <1>19 DEF ReponerToken
<1>20. CASE AceptarCpu
  BY <1>20 DEF AceptarCpu
<1>21. CASE EsperarArchivo
  BY <1>21 DEF EsperarArchivo
<1>22. CASE RecibirSyscall
  BY <1>22 DEF RecibirSyscall
<1>23. CASE EncolarEnNew
  BY <1>23 DEF EncolarEnNew
<1>24. CASE LeerPidActual
  BY <1>24 DEF LeerPidActual
<1>25. CASE BuscarEnNew
  BY <1>25 DEF BuscarEnNew
<1>26. CASE BuscarEnSuspReady
  BY <1>26 DEF BuscarEnSuspReady
<1>27. CASE LeerPidAFinalizar
  BY <1>27 DEF LeerPidAFinalizar
<1>28. CASE LiberarCpu
  BY <1>28 DEF LiberarCpu
<1>29. CASE ContarReady
  BY <1>29 DEF ContarReady
<1>30. CASE CorregirSemaforo
  BY <1>30 DEF CorregirSemaforo
<1>31. CASE PausarPlanificador
  BY <1>31 DEF PausarPlanificador
<1>32. CASE ResponderSyscall
  BY <1>32 DEF ResponderSyscall
<1>33. CASE ProcesarColaNew
  BY <1>33 DEF ProcesarColaNew
<1>34. CASE ReanudarPlanificador
  BY <1>34 DEF ReanudarPlanificador
<1>35. CASE DesconectarCpu
  BY <1>35 DEF DesconectarCpu
<1>36. CASE DesecharReady
  BY <1>36 DEF DesecharReady
<1>37. CASE ResponderMemoria
  BY <1>37 DEF ResponderMemoria
<1>38. CASE UNCHANGED vars
  BY <1>38 DEF vars
<1> QED
  BY <1>1, <1>2, <1>3, <1>4, <1>5, <1>6, <1>6a, <1>7, <1>8, <1>9, <1>10, <1>11, <1>12, <1>13, <1>14,
     <1>15, <1>16, <1>17, <1>18, <1>19, <1>20, <1>21, <1>22, <1>23, <1>24, <1>25, <1>26, <1>27,
     <1>28, <1>29, <1>30, <1>31, <1>32, <1>33, <1>34, <1>35, <1>36, <1>37, <1>38
     DEF Next, Principal, Largo, Corto, DespachoInterno, Entorno, PasarAReady, CortoPlazo

\* mutex_cpus is held exactly by the thread that assigns the CPU.
LEMMA ExclusionCpusPaso == TipoInv /\ ExclusionCpus /\ [Next]_vars => ExclusionCpus'
<1> SUFFICES ASSUME TipoInv, ExclusionCpus, [Next]_vars PROVE ExclusionCpus'
  OBVIOUS
<1>0. /\ mutex_cpus \in Despachan \cup {Nadie}
      /\ pc \in [Hilos -> Etiquetas] /\ Lugares
  BY DEF TipoInv, TypeOK
<1> USE <1>0 DEF Hilos, Planifican, Despachan, En, Ir, Nadie, MutexCpusLibre, ExclusionCpus,
     SeccionCpus, Lugares, Etiquetas
<1>1. ASSUME NEW h \in Planifican, ConsultarMemoria(h) PROVE ExclusionCpus'
  BY <1>1 DEF ConsultarMemoria
<1>2. ASSUME NEW h \in Planifican, RecibirConsulta(h) PROVE ExclusionCpus'
  <2>1. TrasFallo(h) => pc' = [pc EXCEPT ![h] = "siguiente"] \/ pc' = [pc EXCEPT ![h] = "soltar"]
    BY DEF TrasFallo
  <2> QED BY <1>2, <2>1 DEF RecibirConsulta
<1>3. ASSUME NEW h \in Planifican, RecibirCreacion(h) PROVE ExclusionCpus'
  <2>1. TrasFallo(h) => pc' = [pc EXCEPT ![h] = "siguiente"] \/ pc' = [pc EXCEPT ![h] = "soltar"]
    BY DEF TrasFallo
  <2> QED BY <1>3, <2>1 DEF RecibirCreacion
<1>4. ASSUME NEW h \in Planifican, PublicarReady(h) PROVE ExclusionCpus'
  BY <1>4 DEF PublicarReady
<1>5. ASSUME NEW h \in Planifican, SoltarNew(h) PROVE ExclusionCpus'
  BY <1>5 DEF SoltarNew
<1>6. ASSUME NEW h \in {"largo", "despacho"}, SiguienteDeNew(h) PROVE ExclusionCpus'
  BY <1>6 DEF SiguienteDeNew
<1>6a. CASE ReleerEstado
  BY <1>6a DEF ReleerEstado
<1>7. ASSUME NEW h \in Despachan, EsperarReadyInterno(h) PROVE ExclusionCpus'
  BY <1>7 DEF EsperarReadyInterno
<1>8. ASSUME NEW h \in Despachan, BuscarCpuLibre(h) PROVE ExclusionCpus'
  BY <1>8 DEF BuscarCpuLibre, Retorno
<1>9. ASSUME NEW h \in Despachan, AsignarCpu(h) PROVE ExclusionCpus'
  BY <1>9 DEF AsignarCpu, Retorno
<1>10. ASSUME NEW h \in Despachan, AnotarPidActual(h) PROVE ExclusionCpus'
  BY <1>10 DEF AnotarPidActual, Retorno
<1>11. CASE VencerMutex
  BY <1>11 DEF VencerMutex
<1>12. CASE CrearPrimero
  BY <1>12 DEF CrearPrimero
<1>13. CASE PlanificarPrimero
  BY <1>13 DEF PlanificarPrimero
<1>14. CASE PublicarOtra
  BY <1>14 DEF PublicarOtra
<1>15. CASE TomarNewLargo
  BY <1>15 DEF TomarNewLargo
<1>16. CASE EsperarReadyExterno
  BY <1>16 DEF EsperarReadyExterno
<1>17. CASE ContarCpus
  BY <1>17 DEF ContarCpus
<1>18. CASE VerPausa
  BY <1>18 DEF VerPausa
<1>19. CASE ReponerToken
  BY <1>19 DEF ReponerToken
<1>20. CASE AceptarCpu
  BY <1>20 DEF AceptarCpu
<1>21. CASE EsperarArchivo
  BY <1>21 DEF EsperarArchivo
<1>22. CASE RecibirSyscall
  BY <1>22 DEF RecibirSyscall
<1>23. CASE EncolarEnNew
  BY <1>23 DEF EncolarEnNew
<1>24. CASE LeerPidActual
  BY <1>24 DEF LeerPidActual
<1>25. CASE BuscarEnNew
  BY <1>25 DEF BuscarEnNew
<1>26. CASE BuscarEnSuspReady
  BY <1>26 DEF BuscarEnSuspReady
<1>27. CASE LeerPidAFinalizar
  BY <1>27 DEF LeerPidAFinalizar
<1>28. CASE LiberarCpu
  BY <1>28 DEF LiberarCpu
<1>29. CASE ContarReady
  BY <1>29 DEF ContarReady
<1>30. CASE CorregirSemaforo
  BY <1>30 DEF CorregirSemaforo
<1>31. CASE PausarPlanificador
  BY <1>31 DEF PausarPlanificador
<1>32. CASE ResponderSyscall
  BY <1>32 DEF ResponderSyscall
<1>33. CASE ProcesarColaNew
  BY <1>33 DEF ProcesarColaNew
<1>34. CASE ReanudarPlanificador
  BY <1>34 DEF ReanudarPlanificador
<1>35. CASE DesconectarCpu
  BY <1>35 DEF DesconectarCpu
<1>36. CASE DesecharReady
  BY <1>36 DEF DesecharReady
<1>37. CASE ResponderMemoria
  BY <1>37 DEF ResponderMemoria
<1>38. CASE UNCHANGED vars
  BY <1>38 DEF vars
<1> QED
  BY <1>1, <1>2, <1>3, <1>4, <1>5, <1>6, <1>6a, <1>7, <1>8, <1>9, <1>10, <1>11, <1>12, <1>13, <1>14,
     <1>15, <1>16, <1>17, <1>18, <1>19, <1>20, <1>21, <1>22, <1>23, <1>24, <1>25, <1>26, <1>27,
     <1>28, <1>29, <1>30, <1>31, <1>32, <1>33, <1>34, <1>35, <1>36, <1>37, <1>38
     DEF Next, Principal, Largo, Corto, DespachoInterno, Entorno, PasarAReady, CortoPlazo

\* The CPU and its bookkeeping agree whichever of the two threads dispatches.
LEMMA CpuPaso == TipoInv /\ ExclusionCpus /\ CpuInv /\ [Next]_vars => CpuInv'
<1> SUFFICES ASSUME TipoInv, ExclusionCpus, CpuInv, [Next]_vars PROVE CpuInv'
  OBVIOUS
<1>0. /\ pc \in [Hilos -> Etiquetas] /\ Lugares
      /\ cpu_conectada \in BOOLEAN /\ esta_libre \in BOOLEAN
      /\ cola_exec \in Seq(Pids) /\ cola_ready \in Seq(Pids)
  BY DEF TipoInv, TypeOK
<1> USE <1>0 DEF Hilos, Planifican, Despachan, En, Ir, CpuInv, colas, cpu
<1>1. ASSUME NEW h \in Planifican, ConsultarMemoria(h) PROVE CpuInv'
  BY <1>1 DEF ConsultarMemoria
<1>2. ASSUME NEW h \in Planifican, RecibirConsulta(h) PROVE CpuInv'
  <2>1. TrasFallo(h) => pc' = [pc EXCEPT ![h] = "siguiente"] \/ pc' = [pc EXCEPT ![h] = "soltar"]
    BY DEF TrasFallo
  <2> QED BY <1>2, <2>1 DEF RecibirConsulta
<1>3. ASSUME NEW h \in Planifican, RecibirCreacion(h) PROVE CpuInv'
  <2>1. TrasFallo(h) => pc' = [pc EXCEPT ![h] = "siguiente"] \/ pc' = [pc EXCEPT ![h] = "soltar"]
    BY DEF TrasFallo
  <2> QED BY <1>3, <2>1 DEF RecibirCreacion
<1>4. ASSUME NEW h \in Planifican, PublicarReady(h) PROVE CpuInv'
  BY <1>4 DEF PublicarReady
<1>5. ASSUME NEW h \in Planifican, SoltarNew(h) PROVE CpuInv'
  BY <1>5 DEF SoltarNew
<1>6. ASSUME NEW h \in {"largo", "despacho"}, SiguienteDeNew(h) PROVE CpuInv'
  BY <1>6 DEF SiguienteDeNew
<1>6a. CASE ReleerEstado
  BY <1>6a DEF ReleerEstado
<1>7. ASSUME NEW h \in Despachan, EsperarReadyInterno(h) PROVE CpuInv'
  BY <1>7 DEF EsperarReadyInterno
<1>8. ASSUME NEW h \in Despachan, BuscarCpuLibre(h) PROVE CpuInv'
  BY <1>8 DEF BuscarCpuLibre, MutexCpusLibre, Retorno, ExclusionCpus, SeccionCpus, Nadie
<1>9. ASSUME NEW h \in Despachan, AsignarCpu(h) PROVE CpuInv'
  <2>1. mutex_cpus = h /\ ~En("despacho", "aceptar")
        /\ \A g \in Despachan \ {h} : ~En(g, "anotar_pid") /\ ~En(g, "asignar")
    BY <1>9 DEF AsignarCpu, ExclusionCpus, SeccionCpus
  <2>2. CASE cola_ready # <<>> /\ cola_exec' = Append(cola_exec, Head(cola_ready))
    <3>1. Head(cola_ready) \in Pids
      BY <2>2, HeadTailProperties
    <3>2. cola_exec' # <<>> /\ Last(cola_exec') = Head(cola_ready)
      BY <2>2, <3>1, AppendProperties DEF Last
    <3>3. Head(cola_ready) # NINGUNO
      BY <3>1, SupuestoCotas DEF Pids, NINGUNO
    <3> QED BY <1>9, <2>1, <2>2, <3>2, <3>3 DEF AsignarCpu, Retorno
  <2>3. CASE cola_ready = <<>> /\ UNCHANGED <<cola_exec, esta_libre, proceso_en_exec>>
    BY <1>9, <2>1, <2>3 DEF AsignarCpu, Retorno
  <2> QED BY <1>9, <2>2, <2>3 DEF AsignarCpu
<1>10. ASSUME NEW h \in Despachan, AnotarPidActual(h) PROVE CpuInv'
  <2>1. \A g \in Despachan \ {h} : ~En(g, "anotar_pid")
    BY <1>10 DEF AnotarPidActual, ExclusionCpus, SeccionCpus
  <2> QED BY <1>10, <2>1 DEF AnotarPidActual, Retorno
<1>11. CASE VencerMutex
  BY <1>11 DEF VencerMutex
<1>12. CASE CrearPrimero
  BY <1>12 DEF CrearPrimero
<1>13. CASE PlanificarPrimero
  BY <1>13 DEF PlanificarPrimero
<1>14. CASE PublicarOtra
  BY <1>14 DEF PublicarOtra
<1>15. CASE TomarNewLargo
  BY <1>15 DEF TomarNewLargo
<1>16. CASE EsperarReadyExterno
  BY <1>16 DEF EsperarReadyExterno
<1>17. CASE ContarCpus
  BY <1>17 DEF ContarCpus
<1>18. CASE VerPausa
  BY <1>18 DEF VerPausa
<1>19. CASE ReponerToken
  BY <1>19 DEF ReponerToken
<1>20. CASE AceptarCpu
  <2>1. \A g \in Despachan : ~En(g, "anotar_pid") /\ ~En(g, "asignar")
    BY <1>20 DEF AceptarCpu, MutexCpusLibre, ExclusionCpus, SeccionCpus, Nadie
  <2> QED BY <1>20, <2>1 DEF AceptarCpu
<1>21. CASE EsperarArchivo
  BY <1>21 DEF EsperarArchivo
<1>22. CASE RecibirSyscall
  BY <1>22 DEF RecibirSyscall
<1>23. CASE EncolarEnNew
  BY <1>23 DEF EncolarEnNew
<1>24. CASE LeerPidActual
  BY <1>24 DEF LeerPidActual
<1>25. CASE BuscarEnNew
  BY <1>25 DEF BuscarEnNew
<1>26. CASE BuscarEnSuspReady
  BY <1>26 DEF BuscarEnSuspReady
<1>27. CASE LeerPidAFinalizar
  BY <1>27 DEF LeerPidAFinalizar
<1>28. CASE LiberarCpu
  <2>1. \A g \in Despachan : ~En(g, "anotar_pid") /\ ~En(g, "asignar")
    BY <1>28 DEF LiberarCpu, MutexCpusLibre, ExclusionCpus, SeccionCpus, Nadie
  <2> QED BY <1>28, <2>1 DEF LiberarCpu
<1>29. CASE ContarReady
  BY <1>29 DEF ContarReady
<1>30. CASE CorregirSemaforo
  BY <1>30 DEF CorregirSemaforo
<1>31. CASE PausarPlanificador
  BY <1>31 DEF PausarPlanificador
<1>32. CASE ResponderSyscall
  BY <1>32 DEF ResponderSyscall
<1>33. CASE ProcesarColaNew
  BY <1>33 DEF ProcesarColaNew
<1>34. CASE ReanudarPlanificador
  BY <1>34 DEF ReanudarPlanificador
<1>35. CASE DesconectarCpu
  BY <1>35 DEF DesconectarCpu
<1>36. CASE DesecharReady
  BY <1>36 DEF DesecharReady
<1>37. CASE ResponderMemoria
  BY <1>37 DEF ResponderMemoria
<1>38. CASE UNCHANGED vars
  BY <1>38 DEF vars
<1> QED
  BY <1>1, <1>2, <1>3, <1>4, <1>5, <1>6, <1>6a, <1>7, <1>8, <1>9, <1>10, <1>11, <1>12, <1>13, <1>14,
     <1>15, <1>16, <1>17, <1>18, <1>19, <1>20, <1>21, <1>22, <1>23, <1>24, <1>25, <1>26, <1>27,
     <1>28, <1>29, <1>30, <1>31, <1>32, <1>33, <1>34, <1>35, <1>36, <1>37, <1>38
     DEF Next, Principal, Largo, Corto, DespachoInterno, Entorno, PasarAReady, CortoPlazo

\* A thread asks memory only when nobody else is asking, and hears its own answer.
LEMMA ConversacionPaso == TipoInv /\ ExclusionNew /\ Conversacion /\ [Next]_vars => Conversacion'
<1> SUFFICES ASSUME TipoInv, ExclusionNew, Conversacion, [Next]_vars PROVE Conversacion'
  OBVIOUS
<1>0. /\ pc \in [Hilos -> Etiquetas] /\ Lugares
      /\ aMemoria \in Seq(Pedidos) /\ deMemoria \in Seq(Contestaciones)
  BY DEF TipoInv, TypeOK
<1> USE <1>0 DEF Hilos, Planifican, Despachan, En, Ir, Conversacion, Esperando, Pregunta, memoria,
        Lugares, Etiquetas
<1>1. ASSUME NEW h \in Planifican, ConsultarMemoria(h) PROVE Conversacion'
  <2>1. \A g \in Planifican \ {h} : ~Esperando(g)
    BY <1>1 DEF ConsultarMemoria, ExclusionNew, SeccionNew
  <2>2. Len(aMemoria) = 0 /\ Len(deMemoria) = 0
    BY <1>1, <2>1 DEF ConsultarMemoria
  <2>3. Len(aMemoria') = 1 /\ aMemoria'[1] = [hilo |-> h, op |-> "CONSULTAR_ESPACIO", pid |-> proceso[h]]
    BY <1>1, <2>2, AppendProperties DEF ConsultarMemoria
  <2> QED BY <1>1, <2>1, <2>2, <2>3 DEF ConsultarMemoria
<1>2. ASSUME NEW h \in Planifican, RecibirConsulta(h) PROVE Conversacion'
  <2>1. \A g \in Planifican \ {h} : ~Esperando(g)
    BY <1>2 DEF RecibirConsulta, ExclusionNew, SeccionNew
  <2>2. Len(aMemoria) = 0 /\ Len(deMemoria') = 0
    <3>1. Len(aMemoria) + Len(deMemoria) = 1
      BY <1>2 DEF RecibirConsulta
    <3>2. Len(aMemoria) \in Nat /\ Len(deMemoria) \in Nat
      BY LenProperties
    <3>3. Len(deMemoria) # 0 /\ Len(deMemoria') = Len(deMemoria) - 1
      BY <1>2, HeadTailProperties, EmptySeq DEF RecibirConsulta
    <3> QED BY <1>2, <3>1, <3>2, <3>3 DEF RecibirConsulta
  <2>3. CASE RespuestaPositiva
    <3>1. Len(aMemoria') = 1 /\ aMemoria'[1] = [hilo |-> h, op |-> "CREAR_PROCESO", pid |-> proceso[h]]
      BY <1>2, <2>2, <2>3, AppendProperties DEF RecibirConsulta
    <3> QED BY <1>2, <2>1, <2>2, <2>3, <3>1 DEF RecibirConsulta
  <2>4. CASE ~RespuestaPositiva
    <3>1. TrasFallo(h) => pc' = [pc EXCEPT ![h] = "siguiente"] \/ pc' = [pc EXCEPT ![h] = "soltar"]
      BY DEF TrasFallo
    <3> QED BY <1>2, <2>1, <2>2, <2>4, <3>1 DEF RecibirConsulta
  <2> QED BY <2>3, <2>4
<1>3. ASSUME NEW h \in Planifican, RecibirCreacion(h) PROVE Conversacion'
  <2>1. \A g \in Planifican \ {h} : ~Esperando(g)
    BY <1>3 DEF RecibirCreacion, ExclusionNew, SeccionNew
  <2>2. Len(aMemoria') = 0 /\ Len(deMemoria') = 0
    <3>1. Len(aMemoria) + Len(deMemoria) = 1
      BY <1>3 DEF RecibirCreacion
    <3>2. Len(aMemoria) \in Nat /\ Len(deMemoria) \in Nat
      BY LenProperties
    <3>3. Len(deMemoria) # 0 /\ Len(deMemoria') = Len(deMemoria) - 1
      BY <1>3, HeadTailProperties, EmptySeq DEF RecibirCreacion
    <3> QED BY <1>3, <3>1, <3>2, <3>3 DEF RecibirCreacion
  <2>3. TrasFallo(h) => pc' = [pc EXCEPT ![h] = "siguiente"] \/ pc' = [pc EXCEPT ![h] = "soltar"]
    BY DEF TrasFallo
  <2>4. \A g \in Planifican : ~Esperando(g)'
    BY <1>3, <2>1, <2>3 DEF RecibirCreacion
  <2> QED BY <2>2, <2>4
<1>4. ASSUME NEW h \in Planifican, PublicarReady(h) PROVE Conversacion'
  BY <1>4 DEF PublicarReady
<1>5. ASSUME NEW h \in Planifican, SoltarNew(h) PROVE Conversacion'
  BY <1>5 DEF SoltarNew
<1>6. ASSUME NEW h \in {"largo", "despacho"}, SiguienteDeNew(h) PROVE Conversacion'
  BY <1>6 DEF SiguienteDeNew
<1>6a. CASE ReleerEstado
  BY <1>6a DEF ReleerEstado
<1>7. ASSUME NEW h \in Despachan, EsperarReadyInterno(h) PROVE Conversacion'
  BY <1>7 DEF EsperarReadyInterno
<1>8. ASSUME NEW h \in Despachan, BuscarCpuLibre(h) PROVE Conversacion'
  BY <1>8 DEF BuscarCpuLibre, Retorno
<1>9. ASSUME NEW h \in Despachan, AsignarCpu(h) PROVE Conversacion'
  BY <1>9 DEF AsignarCpu, Retorno
<1>10. ASSUME NEW h \in Despachan, AnotarPidActual(h) PROVE Conversacion'
  BY <1>10 DEF AnotarPidActual, Retorno
<1>11. CASE VencerMutex
  BY <1>11 DEF VencerMutex
<1>12. CASE CrearPrimero
  BY <1>12 DEF CrearPrimero
<1>13. CASE PlanificarPrimero
  BY <1>13 DEF PlanificarPrimero
<1>14. CASE PublicarOtra
  BY <1>14 DEF PublicarOtra
<1>15. CASE TomarNewLargo
  BY <1>15 DEF TomarNewLargo
<1>16. CASE EsperarReadyExterno
  BY <1>16 DEF EsperarReadyExterno
<1>17. CASE ContarCpus
  BY <1>17 DEF ContarCpus
<1>18. CASE VerPausa
  BY <1>18 DEF VerPausa
<1>19. CASE ReponerToken
  BY <1>19 DEF ReponerToken
<1>20. CASE AceptarCpu
  BY <1>20 DEF AceptarCpu
<1>21. CASE EsperarArchivo
  BY <1>21 DEF EsperarArchivo
<1>22. CASE RecibirSyscall
  BY <1>22 DEF RecibirSyscall
<1>23. CASE EncolarEnNew
  BY <1>23 DEF EncolarEnNew
<1>24. CASE LeerPidActual
  BY <1>24 DEF LeerPidActual
<1>25. CASE BuscarEnNew
  BY <1>25 DEF BuscarEnNew
<1>26. CASE BuscarEnSuspReady
  BY <1>26 DEF BuscarEnSuspReady
<1>27. CASE LeerPidAFinalizar
  BY <1>27 DEF LeerPidAFinalizar
<1>28. CASE LiberarCpu
  BY <1>28 DEF LiberarCpu
<1>29. CASE ContarReady
  BY <1>29 DEF ContarReady
<1>30. CASE CorregirSemaforo
  BY <1>30 DEF CorregirSemaforo
<1>31. CASE PausarPlanificador
  BY <1>31 DEF PausarPlanificador
<1>32. CASE ResponderSyscall
  BY <1>32 DEF ResponderSyscall
<1>33. CASE ProcesarColaNew
  BY <1>33 DEF ProcesarColaNew
<1>34. CASE ReanudarPlanificador
  BY <1>34 DEF ReanudarPlanificador
<1>35. CASE DesconectarCpu
  BY <1>35 DEF DesconectarCpu
<1>36. CASE DesecharReady
  BY <1>36 DEF DesecharReady
<1>37. CASE ResponderMemoria
  <2>1. PICK ok \in Respuestas :
           deMemoria' = Append(deMemoria, [hilo |-> Head(aMemoria).hilo, op |-> Head(aMemoria).op, ok |-> ok])
    BY <1>37 DEF ResponderMemoria
  <2>2. Len(aMemoria) # 0
    BY <1>37, EmptySeq DEF ResponderMemoria
  <2>3. PICK h \in Planifican : Esperando(h)
    BY <2>2
  <2>4. Len(aMemoria) = 1 /\ Len(deMemoria) = 0
    <3>1. Len(aMemoria) \in Nat /\ Len(deMemoria) \in Nat
      BY LenProperties
    <3>2. Len(aMemoria) + Len(deMemoria) = 1
      BY <2>3, Zenon DEF Conversacion
    <3>3. \A n, m \in Nat : n + m = 1 /\ n # 0 => n = 1 /\ m = 0
      OBVIOUS
    <3> QED BY <2>2, <3>1, <3>2, <3>3, Zenon
  <2>5. Head(aMemoria) = aMemoria[1] /\ Head(aMemoria) \in Pedidos /\ Len(aMemoria') = 0
    BY <1>37, <2>4, HeadTailProperties DEF ResponderMemoria
  <2>6. [hilo |-> Head(aMemoria).hilo, op |-> Head(aMemoria).op, ok |-> ok] \in Contestaciones
    BY <2>5, SupuestoRespuestas DEF Pedidos, Contestaciones
  <2>7. Len(deMemoria') = 1 /\ deMemoria'[1] = [hilo |-> aMemoria[1].hilo, op |-> aMemoria[1].op, ok |-> ok]
    BY <2>1, <2>4, <2>5, <2>6, AppendProperties
  <2>8. pc' = pc
    BY <1>37 DEF ResponderMemoria
  <2> QED BY <2>3, <2>4, <2>5, <2>7, <2>8
<1>38. CASE UNCHANGED vars
  BY <1>38 DEF vars
<1> QED
  BY <1>1, <1>2, <1>3, <1>4, <1>5, <1>6, <1>6a, <1>7, <1>8, <1>9, <1>10, <1>11, <1>12, <1>13, <1>14,
     <1>15, <1>16, <1>17, <1>18, <1>19, <1>20, <1>21, <1>22, <1>23, <1>24, <1>25, <1>26, <1>27,
     <1>28, <1>29, <1>30, <1>31, <1>32, <1>33, <1>34, <1>35, <1>36, <1>37, <1>38
     DEF Next, Principal, Largo, Corto, DespachoInterno, Entorno, PasarAReady, CortoPlazo

----------------------------------------------------------------------------
(***************************************************************************)
(* The theorems.                                                           *)
(***************************************************************************)

\* Only AsignarCpu adds to cola_exec.
LEMMA SoloAsignarDespacha == [Next]_vars /\ cola_exec' # cola_exec => \E h \in Despachan : AsignarCpu(h)
  BY DEF Next, Principal, Largo, Corto, DespachoInterno, Entorno, PasarAReady, CortoPlazo,
     Despachan, vars, colas,
     ConsultarMemoria, RecibirConsulta, RecibirCreacion, PublicarReady, SoltarNew,
     ReleerEstado, SiguienteDeNew, EsperarReadyInterno, BuscarCpuLibre, AnotarPidActual,
     VencerMutex, CrearPrimero, PlanificarPrimero, PublicarOtra, TomarNewLargo,
     EsperarReadyExterno, ContarCpus, VerPausa, ReponerToken, AceptarCpu,
     EsperarArchivo, RecibirSyscall, EncolarEnNew, LeerPidActual, BuscarEnNew,
     BuscarEnSuspReady, LeerPidAFinalizar, LiberarCpu, ContarReady, CorregirSemaforo,
     PausarPlanificador, ResponderSyscall, ProcesarColaNew, ReanudarPlanificador, DesconectarCpu,
     DesecharReady, ResponderMemoria

\* Nobody is in a section, and nothing has been sent, when the threads start.
LEMMA SeguridadInicial == Init => ExclusionNew /\ ExclusionCpus /\ CpuInv /\ Conversacion
<1> SUFFICES ASSUME Init PROVE ExclusionNew /\ ExclusionCpus /\ CpuInv /\ Conversacion
  OBVIOUS
<1>1. /\ pc["principal"] = "crear" /\ pc["largo"] = "tomar"
      /\ pc["corto"] = "sem_externo" /\ pc["despacho"] = "aceptar"
  BY DEF Init, Hilos
<1> USE <1>1 DEF Init, Planifican, Despachan, En, Nadie
<1>2. ExclusionNew /\ ExclusionCpus
  BY DEF ExclusionNew, ExclusionCpus, SeccionNew, SeccionCpus
<1>3. CpuInv
  BY DEF CpuInv
<1>4. Conversacion
  BY EmptySeq DEF Conversacion, Esperando
<1> QED BY <1>2, <1>3, <1>4

SeguridadInv == TipoInv /\ ExclusionNew /\ ExclusionCpus /\ CpuInv /\ Conversacion

\* The inductive invariant, whose parts the lemmas above preserve.
LEMMA SeguridadSiempre == Spec => []SeguridadInv
<1>1. Init => SeguridadInv
  BY TipoInicial, SeguridadInicial DEF SeguridadInv
<1>2. SeguridadInv /\ [Next]_vars => SeguridadInv'
  BY TipoPaso, ExclusionNewPaso, ExclusionCpusPaso, CpuPaso, ConversacionPaso DEF SeguridadInv
<1> QED BY <1>1, <1>2, PTL DEF Spec

\* The variables of the kernel keep their types; no semaphore goes below zero.
THEOREM TipoCorrecto == Spec => []TypeOK
<1>1. SeguridadInv => TypeOK
  BY DEF SeguridadInv, TipoInv
<1> QED BY <1>1, SeguridadSiempre, PTL

\* No two threads are ever between the lock and the unlock of mutex_cola_new, nor
\* of mutex_cpus, although some of those sections wait for memory or time out.
THEOREM ExclusionMutua == Spec => [](ExclusionNew /\ ExclusionCpus)
<1>1. SeguridadInv => ExclusionNew /\ ExclusionCpus
  BY DEF SeguridadInv
<1> QED BY <1>1, SeguridadSiempre, PTL

\* A thread that waits on the shared socket can only read the answer to its own
\* last request, whatever memory answers and however many processes there are.
THEOREM RespuestaEsPropia == Spec => []RespuestaPropia
<1>1. SeguridadInv => RespuestaPropia
  <2> SUFFICES ASSUME SeguridadInv,
                      NEW h \in Planifican, Esperando(h)
               PROVE  /\ Len(aMemoria) + Len(deMemoria) = 1
                      /\ \A i \in DOMAIN deMemoria :
                            deMemoria[i].hilo = h /\ deMemoria[i].op = Pregunta(h)
    BY DEF RespuestaPropia, Esperando, Pregunta
  <2>1. DOMAIN deMemoria = 1..Len(deMemoria)
    BY LenProperties DEF SeguridadInv, TipoInv, TypeOK
  <2> QED BY <2>1 DEF SeguridadInv, Conversacion
<1> QED BY <1>1, SeguridadSiempre, PTL

\* Outside a dispatch the CPU is busy exactly when it names a process, which is
\* the last one dispatched and the one pid_proceso_actual names.
THEOREM CpuEsCoherente == Spec => []CpuCoherente
<1>1. SeguridadInv => CpuCoherente
  <2> SUFFICES ASSUME SeguridadInv, mutex_cpus = Nadie
               PROVE  /\ (cpu_conectada /\ ~esta_libre) = (proceso_en_exec # NINGUNO)
                      /\ proceso_en_exec # NINGUNO =>
                            proceso_en_exec = Last(cola_exec) /\ pid_proceso_actual = Last(cola_exec)
    BY DEF CpuCoherente
  <2>1. \A h \in Despachan : ~En(h, "anotar_pid")
    BY DEF SeguridadInv, ExclusionCpus, SeccionCpus, En, Despachan, Nadie
  <2> QED BY <2>1 DEF SeguridadInv, CpuInv
<1> QED BY <1>1, SeguridadSiempre, PTL

\* A PCB is sent only to a connected CPU that runs nobody.
THEOREM DespachoExclusivo == Spec => UnProcesoPorCpu
<1>1. SeguridadInv /\ [Next]_vars =>
         [cola_exec' # cola_exec => proceso_en_exec = NINGUNO /\ cpu_conectada]_vars
  <2> SUFFICES ASSUME SeguridadInv, [Next]_vars, cola_exec' # cola_exec
               PROVE  proceso_en_exec = NINGUNO /\ cpu_conectada
    OBVIOUS
  <2>1. \E h \in Despachan : AsignarCpu(h)
    BY SoloAsignarDespacha
  <2>2. cpu_conectada /\ esta_libre
    BY <2>1 DEF SeguridadInv, CpuInv, AsignarCpu
  <2>3. (cpu_conectada /\ ~esta_libre) = (proceso_en_exec # NINGUNO)
    BY DEF SeguridadInv, CpuInv
  <2> QED BY <2>2, <2>3, Zenon
<1> QED BY <1>1, SeguridadSiempre, PTL DEF UnProcesoPorCpu, Spec

----------------------------------------------------------------------------
(***************************************************************************)
(* The queues: who is in each, in which order, and whom memory created.    *)
(***************************************************************************)

\* The thread has chosen its process from cola_new and memory has not decided yet.
Tratando == {"consultar", "espera_consulta", "espera_creacion"}

\* The pids already filed are those below Tope: one may have its number and not be
\* in NEW yet.
Tope == IF En("principal", "planificar") \/ En("despacho", "encolar_new")
        THEN id_proceso - 1 ELSE id_proceso

SinRepetir(s) == \A i, j \in 1..Len(s) : s[i] = s[j] => i = j
EnOrden(s)    == \A i, j \in 1..Len(s) : i < j => s[i] < s[j]
Precede(s, t) == \A p, q \in Pids : Contains(s, p) /\ Contains(t, q) => p < q

\* Each pid filed is in one queue at most, and the process a thread works on is
\* still in NEW.
Reparto ==
    /\ SinRepetir(cola_new) /\ SinRepetir(cola_ready) /\ SinRepetir(cola_exec)
    /\ \A p \in Pids :
          /\ ~(Contains(cola_new, p) /\ Contains(cola_ready, p))
          /\ ~(Contains(cola_new, p) /\ Contains(cola_exec, p))
          /\ ~(Contains(cola_ready, p) /\ Contains(cola_exec, p))
          /\ Contains(cola_new, p) \/ Contains(cola_ready, p) \/ Contains(cola_exec, p) => p < Tope
    /\ En("despacho", "encolar_new") => id_proceso > 0 /\ proceso["despacho"] = id_proceso - 1
    /\ \A h \in Planifican : pc[h] \in Tratando => Contains(cola_new, proceso[h])

\* Without disconnections, in one at least.
Completo ==
    ~CpuPuedeCaer =>
        /\ pc["despacho"] # "desechar"
        /\ \A p \in Pids :
              p < Tope => Contains(cola_new, p) \/ Contains(cola_ready, p) \/ Contains(cola_exec, p)

\* Under FIFO, the process that may be admitted is the first of NEW: despacho, which
\* could find others, never admits any.
Orden ==
    Algoritmo = "FIFO" =>
        /\ EnOrden(cola_new) /\ EnOrden(cola_ready) /\ EnOrden(cola_exec)
        /\ Precede(cola_exec, cola_ready) /\ Precede(cola_ready, cola_new)
        /\ Precede(cola_exec, cola_new)
        /\ pc["largo"] \notin {"releer_estado", "siguiente"}
        /\ pc["despacho"] \notin {"siguiente", "publicar"}
        /\ \A h \in {"principal", "largo"} : pc[h] \in Tratando =>
              \A q \in Pids : Contains(cola_new, q) => proceso[h] <= q

\* What is asked of memory is about the process in hand, and what it confirms is noted.
Creado ==
    /\ \A p \in Pids : Contains(cola_ready, p) \/ Contains(cola_exec, p) => creaciones[p] >= 1
    /\ \A h \in Planifican : En(h, "espera_creacion") =>
          /\ \A i \in 1..Len(aMemoria) : aMemoria[i].pid = proceso[h]
          /\ \A i \in 1..Len(deMemoria) : deMemoria[i].ok => creaciones[proceso[h]] >= 1

\* Under PMCP memory has created nobody in NEW, but the process whose confirmation is
\* on the socket.
Confirmado(p) == \E h \in Planifican :
    /\ En(h, "espera_creacion") /\ proceso[h] = p
    /\ \E i \in 1..Len(deMemoria) : deMemoria[i].ok
SinCrear ==
    Algoritmo = "PMCP" =>
        /\ pc["despacho"] # "espera_mutex"
        /\ \A p \in Pids : p >= Tope \/ Contains(cola_new, p) => creaciones[p] = 0 \/ Confirmado(p)

\* What append, removal and Tail do to the members of a queue and to their order.
LEMMA Agregado ==
    ASSUME NEW s \in Seq(Pids), NEW p \in Pids
    PROVE  /\ \A q : Contains(Append(s, p), q) <=> Contains(s, q) \/ q = p
           /\ SinRepetir(s) /\ ~Contains(s, p) => SinRepetir(Append(s, p))
           /\ EnOrden(s) /\ (\A q \in Pids : Contains(s, q) => q < p) => EnOrden(Append(s, p))
<1> DEFINE t == Append(s, p)
<1>1. /\ Len(t) = Len(s) + 1 /\ Len(s) \in Nat
      /\ \A i \in 1..Len(s) : t[i] = s[i] /\ s[i] \in Pids
      /\ t[Len(s) + 1] = p
  BY AppendProperties, LenProperties, ElementOfSeq
<1> HIDE DEF t
<1>2. \A i \in 1..Len(t) : i \in 1..Len(s) \/ i = Len(s) + 1 BY <1>1
<1>3. \A i \in 1..Len(s) : i \in 1..Len(t) BY <1>1
<1>4. Len(s) + 1 \in 1..Len(t) BY <1>1
<1>5. \A q : Contains(t, q) <=> Contains(s, q) \/ q = p
  BY <1>1, <1>2, <1>3, <1>4 DEF Contains
<1>6. SinRepetir(s) /\ ~Contains(s, p) => SinRepetir(t)
  BY <1>1, <1>2 DEF Contains, SinRepetir
<1>7. ASSUME EnOrden(s), \A q \in Pids : Contains(s, q) => q < p PROVE EnOrden(t)
  <2> SUFFICES ASSUME NEW i \in 1..Len(t), NEW j \in 1..Len(t), i < j PROVE t[i] < t[j]
    BY DEF EnOrden
  <2>1. i \in 1..Len(s) BY <1>1
  <2>2. CASE j \in 1..Len(s) BY <1>1, <1>7, <2>1, <2>2 DEF EnOrden
  <2>3. CASE j = Len(s) + 1 BY <1>1, <1>7, <2>1, <2>3 DEF Contains
  <2> QED BY <1>2, <2>2, <2>3
<1> QED BY <1>5, <1>6, <1>7 DEF t

LEMMA SinElPrimero ==
    ASSUME NEW s \in Seq(Pids), s # <<>>
    PROVE  /\ Head(s) \in Pids /\ Contains(s, Head(s)) /\ Tail(s) \in Seq(Pids)
           /\ \A q : Contains(Tail(s), q) => Contains(s, q)
           /\ \A q : Contains(s, q) => Contains(Tail(s), q) \/ q = Head(s)
           /\ SinRepetir(s) => SinRepetir(Tail(s)) /\ ~Contains(Tail(s), Head(s))
           /\ EnOrden(s) => /\ EnOrden(Tail(s))
                            /\ \A q \in Pids : /\ Contains(s, q) => Head(s) <= q
                                               /\ Contains(Tail(s), q) => Head(s) < q
<1> DEFINE t == Tail(s)
           p == Head(s)
<1>1. /\ Len(s) \in Nat \ {0} /\ Len(t) = Len(s) - 1 /\ p = s[1] /\ t \in Seq(Pids) /\ p \in Pids
      /\ \A i \in 1..Len(t) : t[i] = s[i + 1]
  BY HeadTailProperties, EmptySeq
<1>2. \A i \in 1..Len(s) : s[i] \in Pids BY ElementOfSeq
<1> HIDE DEF t, p
<1>3. \A i \in 1..Len(t) : i + 1 \in 1..Len(s) /\ i + 1 > 1 BY <1>1
<1>4. \A i \in 1..Len(s) : i = 1 \/ (i - 1 \in 1..Len(t) /\ s[i] = t[i - 1]) BY <1>1
<1>5. 1 \in 1..Len(s) BY <1>1
<1>6. Contains(s, p) BY <1>1, <1>5 DEF Contains
<1>7. \A q : Contains(t, q) => Contains(s, q) BY <1>1, <1>3 DEF Contains
<1>8. \A q : Contains(s, q) => Contains(t, q) \/ q = p BY <1>1, <1>4 DEF Contains
<1>9. ASSUME SinRepetir(s) PROVE SinRepetir(t) /\ ~Contains(t, p)
  <2>1. ASSUME NEW i \in 1..Len(t), NEW j \in 1..Len(t), t[i] = t[j] PROVE i = j
    <3>1. i + 1 = j + 1 BY <1>1, <1>3, <1>9, <2>1 DEF SinRepetir
    <3> QED BY <3>1
  <2>2. ASSUME NEW i \in 1..Len(t) PROVE t[i] # p
    BY <1>1, <1>3, <1>5, <1>9 DEF SinRepetir
  <2> QED BY <2>1, <2>2 DEF SinRepetir, Contains
<1>10. ASSUME EnOrden(s)
       PROVE  /\ EnOrden(t)
              /\ \A q \in Pids : (Contains(s, q) => p <= q) /\ (Contains(t, q) => p < q)
  <2>1. ASSUME NEW i \in 1..Len(t), NEW j \in 1..Len(t), i < j PROVE t[i] < t[j]
    <3>1. i + 1 < j + 1 BY <2>1
    <3> QED BY <1>1, <1>3, <1>10, <3>1 DEF EnOrden
  <2>2. \A i \in 1..Len(t) : p < t[i] BY <1>1, <1>3, <1>5, <1>10 DEF EnOrden
  <2>3. \A q \in Pids : Contains(t, q) => p < q BY <2>2 DEF Contains
  <2>4. \A q \in Pids : Contains(s, q) => p <= q BY <1>1, <1>8, <2>3, SupuestoCotas DEF Pids
  <2> QED BY <2>1, <2>3, <2>4 DEF EnOrden
<1> QED BY <1>1, <1>6, <1>7, <1>8, <1>9, <1>10 DEF t, p

LEMMA SinUno ==
    ASSUME NEW s \in Seq(Pids), NEW p, Contains(s, p), SinRepetir(s)
    PROVE  LET t == RemoveFirst(s, p) IN
           /\ \A q : Contains(t, q) <=> Contains(s, q) /\ q # p
           /\ SinRepetir(t)
           /\ EnOrden(s) => EnOrden(t)
<1> DEFINE t == RemoveFirst(s, p)
<1>1. PICK k \in 1..Len(s) : s[k] = p /\ t = RemoveAt(s, k)
  BY QuitarPrimero DEF Contains
<1>2. /\ Len(t) = Len(s) - 1 /\ Len(s) \in Nat
      /\ \A i \in 1..(Len(s) - 1) : t[i] = IF i < k THEN s[i] ELSE s[i + 1]
  BY <1>1, QuitarPosicion, LenProperties
<1> HIDE DEF t
<1> DEFINE f(i) == IF i < k THEN i ELSE i + 1
<1>3. \A i \in 1..Len(t) : f(i) \in 1..Len(s) /\ f(i) # k /\ t[i] = s[f(i)] BY <1>2
<1>4. \A i, j \in 1..Len(t) : (i < j => f(i) < f(j)) /\ (f(i) = f(j) => i = j) BY <1>2
<1>5. \A i \in 1..Len(s) : i # k => \E j \in 1..Len(t) : f(j) = i
  <2> SUFFICES ASSUME NEW i \in 1..Len(s), i # k PROVE \E j \in 1..Len(t) : f(j) = i OBVIOUS
  <2>1. CASE i < k
    <3>1. i \in 1..Len(t) /\ f(i) = i BY <1>2, <2>1
    <3> QED BY <3>1
  <2>2. CASE i > k
    <3>1. i - 1 \in 1..Len(t) /\ f(i - 1) = i BY <1>2, <2>2
    <3> QED BY <3>1
  <2> QED BY <2>1, <2>2
<1> HIDE DEF f
<1>6. \A q : Contains(t, q) => Contains(s, q) /\ q # p
  BY <1>1, <1>3 DEF Contains, SinRepetir
<1>7. \A q : Contains(s, q) /\ q # p => Contains(t, q)
  BY <1>1, <1>3, <1>5 DEF Contains
<1>8. SinRepetir(t) BY <1>3, <1>4 DEF SinRepetir
<1>9. EnOrden(s) => EnOrden(t) BY <1>3, <1>4 DEF EnOrden
<1> QED BY <1>6, <1>7, <1>8, <1>9 DEF t


\* The labels that the invariants above speak of.
Rotulos == {"planificar", "encolar_new", "consultar", "espera_consulta", "espera_creacion",
            "espera_mutex", "publicar", "releer_estado", "siguiente", "desechar"}

\* A step that leaves the queues, memory and those labels alone.
Quieto ==
    /\ UNCHANGED <<colas, memoria, id_proceso, proceso>>
    /\ \A h \in Planifican : pc'[h] = pc[h] \/ (pc[h] \notin Rotulos /\ pc'[h] \notin Rotulos)

\* A step that does not.
Movimiento ==
    \/ \E h \in Planifican : \/ ConsultarMemoria(h) \/ RecibirConsulta(h) \/ RecibirCreacion(h)
                             \/ PublicarReady(h)
    \/ \E h \in {"largo", "despacho"} : SiguienteDeNew(h)
    \/ \E h \in Despachan : AsignarCpu(h)
    \/ CrearPrimero \/ PlanificarPrimero \/ TomarNewLargo \/ ReleerEstado \/ RecibirSyscall \/ EncolarEnNew
    \/ ProcesarColaNew \/ VencerMutex \/ DesconectarCpu \/ DesecharReady \/ ResponderMemoria

\* Every other action leaves them alone, whoever takes it.
LEMMA Quietud == SeguridadInv /\ [Next]_vars => Quieto \/ Movimiento
<1> SUFFICES ASSUME SeguridadInv, [Next]_vars, ~Movimiento PROVE Quieto
  OBVIOUS
<1>0. pc \in [Hilos -> Etiquetas] /\ Lugares
  BY DEF SeguridadInv, TipoInv, TypeOK
<1> USE <1>0 DEF Hilos, Planifican, Despachan, En, Ir, colas, memoria, Quieto, Rotulos, Lugares,
     Etiquetas
<1>1. ASSUME NEW h \in Planifican, SoltarNew(h) PROVE Quieto
  BY <1>1 DEF SoltarNew
<1>2. ASSUME NEW h \in Despachan, EsperarReadyInterno(h) PROVE Quieto
  BY <1>2 DEF EsperarReadyInterno
<1>3. ASSUME NEW h \in Despachan, BuscarCpuLibre(h) PROVE Quieto
  BY <1>3 DEF BuscarCpuLibre, Retorno
<1>4. ASSUME NEW h \in Despachan, AnotarPidActual(h) PROVE Quieto
  BY <1>4 DEF AnotarPidActual, Retorno
<1>5. CASE PublicarOtra
  BY <1>5 DEF PublicarOtra
<1>6. CASE EsperarReadyExterno
  BY <1>6 DEF EsperarReadyExterno
<1>7. CASE ContarCpus
  BY <1>7 DEF ContarCpus
<1>8. CASE VerPausa
  BY <1>8 DEF VerPausa
<1>9. CASE ReponerToken
  BY <1>9 DEF ReponerToken
<1>10. CASE AceptarCpu
  BY <1>10 DEF AceptarCpu
<1>11. CASE EsperarArchivo
  BY <1>11 DEF EsperarArchivo
<1>12. CASE LeerPidActual
  BY <1>12 DEF LeerPidActual
<1>13. CASE BuscarEnNew
  BY <1>13 DEF BuscarEnNew
<1>14. CASE BuscarEnSuspReady
  BY <1>14 DEF BuscarEnSuspReady
<1>15. CASE LeerPidAFinalizar
  BY <1>15 DEF LeerPidAFinalizar
<1>16. CASE LiberarCpu
  BY <1>16 DEF LiberarCpu
<1>17. CASE ContarReady
  BY <1>17 DEF ContarReady
<1>18. CASE CorregirSemaforo
  BY <1>18 DEF CorregirSemaforo
<1>19. CASE PausarPlanificador
  BY <1>19 DEF PausarPlanificador
<1>20. CASE ResponderSyscall
  BY <1>20 DEF ResponderSyscall
<1>21. CASE ReanudarPlanificador
  BY <1>21 DEF ReanudarPlanificador
<1>22. CASE UNCHANGED vars
  BY <1>22 DEF vars
<1> HIDE DEF En, Ir, colas, memoria, Quieto, Rotulos, Lugares, Etiquetas
<1> QED
  BY <1>1, <1>2, <1>3, <1>4, <1>5, <1>6, <1>7, <1>8, <1>9, <1>10, <1>11, <1>12, <1>13, <1>14,
     <1>15, <1>16, <1>17, <1>18, <1>19, <1>20, <1>21, <1>22
     DEF Next, Principal, Largo, Corto, DespachoInterno, Entorno, PasarAReady, CortoPlazo,
        Movimiento

\* When the queues stay and no thread takes a process, everybody stays where it was.
LEMMA RepartoIgual ==
    ASSUME Reparto, UNCHANGED <<cola_new, cola_ready, cola_exec, id_proceso, proceso>>,
           \A h \in Planifican : pc'[h] \in Tratando => pc[h] \in Tratando,
           (pc'["principal"] = "planificar") = (pc["principal"] = "planificar"),
           (pc'["despacho"] = "encolar_new") = (pc["despacho"] = "encolar_new")
    PROVE  Reparto' /\ Tope' = Tope
<1>1. Tope' = Tope BY DEF Tope, En
<1> QED BY <1>1 DEF Reparto, En

\* The pids in the queues, and that of the process in hand, stay below Tope.
LEMMA RepartoPaso == SeguridadInv /\ Reparto /\ [Next]_vars => Reparto'
<1> SUFFICES ASSUME SeguridadInv, Reparto, [Next]_vars PROVE Reparto'
  OBVIOUS
<1>0. /\ cola_new \in Seq(Pids) /\ cola_ready \in Seq(Pids) /\ cola_exec \in Seq(Pids)
      /\ pc \in [Hilos -> Etiquetas] /\ proceso \in [Planifican -> PidsONinguno]
      /\ id_proceso \in Nat /\ Lugares /\ ProcesoElegido /\ Arranque /\ ExclusionNew
  BY SupuestoCotas DEF SeguridadInv, TipoInv, TypeOK, Pids
<1>a. \A p \in Pids : p \in Int
  BY SupuestoCotas DEF Pids
<1> USE <1>0 DEF Hilos, Planifican, Despachan, En, Ir, colas, Tratando, Lugares
<1>1. CASE Quieto
  BY <1>1, RepartoIgual DEF Quieto, Rotulos
<1>2. ASSUME NEW h \in Planifican, ConsultarMemoria(h) PROVE Reparto'
  BY <1>2, RepartoIgual DEF ConsultarMemoria
<1>3. ASSUME NEW h \in Planifican, RecibirConsulta(h) PROVE Reparto'
  <2>1. TrasFallo(h) => Ir(h, "siguiente") \/ Ir(h, "soltar")
    BY DEF TrasFallo
  <2> QED BY <1>3, <2>1, RepartoIgual DEF RecibirConsulta
<1>4. ASSUME NEW h \in Planifican, RecibirCreacion(h) PROVE Reparto'
  <2>1. TrasFallo(h) => Ir(h, "siguiente") \/ Ir(h, "soltar")
    BY DEF TrasFallo
  <2>2. CASE UNCHANGED <<cola_new, cola_ready>>
    BY <1>4, <2>1, <2>2, RepartoIgual DEF RecibirCreacion
  <2>3. CASE ~UNCHANGED <<cola_new, cola_ready>>
    <3> DEFINE p == proceso[h]
    <3>1. /\ cola_new' = RemoveFirst(cola_new, p) /\ cola_ready' = Append(cola_ready, p)
          /\ pc' = [pc EXCEPT ![h] = "publicar"] /\ pc[h] = "espera_creacion"
          /\ UNCHANGED <<cola_exec, id_proceso, proceso>>
      BY <1>4, <2>3, Zenon DEF RecibirCreacion, SacarDeNew
    <3>2. p \in Pids /\ Contains(cola_new, p) /\ SinRepetir(cola_new) /\ SinRepetir(cola_ready)
          /\ ~Contains(cola_ready, p)
      BY <3>1 DEF ProcesoElegido, Reparto
    <3>3. /\ \A q : Contains(cola_new', q) <=> Contains(cola_new, q) /\ q # p
          /\ SinRepetir(cola_new')
      BY <3>1, <3>2, SinUno
    <3>4. /\ \A q : Contains(cola_ready', q) <=> Contains(cola_ready, q) \/ q = p
          /\ SinRepetir(cola_ready')
      BY <3>1, <3>2, Agregado
    <3>5. Tope' = Tope
      BY <3>1 DEF Tope
    <3>6. \A g \in Planifican : pc'[g] \in Tratando => g # h /\ pc[g] \in Tratando
      BY <3>1
    <3>7. \A g \in Planifican : pc[g] \notin Tratando \/ g = h
      BY <3>1 DEF ExclusionNew, SeccionNew
    <3>8. pc'["despacho"] = "encolar_new" => pc["despacho"] = "encolar_new"
      BY <3>1
    <3> QED BY <3>1, <3>2, <3>3, <3>4, <3>5, <3>6, <3>7, <3>8 DEF Reparto
  <2> QED BY <2>2, <2>3
<1>5. ASSUME NEW h \in Planifican, PublicarReady(h) PROVE Reparto'
  BY <1>5, RepartoIgual DEF PublicarReady
<1>6. ASSUME NEW h \in {"largo", "despacho"}, SiguienteDeNew(h) PROVE Reparto'
  <2> DEFINE i == IF h = "largo" THEN indice ELSE 1
  <2>1. CASE i <= Len(cola_new)
    <3>1. proceso' = [proceso EXCEPT ![h] = cola_new[i]] /\ pc' = [pc EXCEPT ![h] = "consultar"]
          /\ UNCHANGED <<colas, id_proceso>> /\ pc[h] = "siguiente"
      BY <1>6, <2>1 DEF SiguienteDeNew
    <3>2. i \in 1..Len(cola_new)
      BY <2>1, LenProperties DEF SeguridadInv, TipoInv, TypeOK
    <3>3. Contains(cola_new, cola_new[i])
      BY <3>2 DEF Contains
    <3>4. Tope' = Tope
      BY <3>1 DEF Tope
    <3> HIDE DEF i
    <3> QED BY <3>1, <3>3, <3>4 DEF Reparto
  <2>2. CASE ~(i <= Len(cola_new))
    BY <1>6, <2>2, RepartoIgual DEF SiguienteDeNew
  <2> QED BY <2>1, <2>2
<1>6a. CASE ReleerEstado
  BY <1>6a, RepartoIgual DEF ReleerEstado
<1>7. ASSUME NEW h \in Despachan, AsignarCpu(h) PROVE Reparto'
  <2>0. \A g \in Planifican : pc'[g] \in Tratando => pc[g] \in Tratando
    BY <1>7 DEF AsignarCpu, Retorno
  <2>a. /\ (pc'["principal"] = "planificar") = (pc["principal"] = "planificar")
        /\ (pc'["despacho"] = "encolar_new") = (pc["despacho"] = "encolar_new")
    BY <1>7 DEF AsignarCpu, Retorno
  <2>1. CASE cola_ready = <<>>
    BY <1>7, <2>0, <2>a, <2>1, RepartoIgual DEF AsignarCpu
  <2>2. CASE cola_ready # <<>>
    <3> DEFINE p == Head(cola_ready)
    <3>1. /\ cola_ready' = Tail(cola_ready) /\ cola_exec' = Append(cola_exec, p)
          /\ UNCHANGED <<cola_new, id_proceso, proceso>>
      BY <1>7, <2>2 DEF AsignarCpu, SacarDeReady
    <3>2. SinRepetir(cola_ready) /\ SinRepetir(cola_exec)
      BY DEF Reparto
    <3>3. /\ p \in Pids /\ Contains(cola_ready, p) /\ SinRepetir(cola_ready')
          /\ ~Contains(cola_ready', p)
          /\ \A q : Contains(cola_ready', q) => Contains(cola_ready, q)
      BY <2>2, <3>1, <3>2, SinElPrimero
    <3>4. ~Contains(cola_exec, p)
      BY <3>3 DEF Reparto
    <3>5. /\ \A q : Contains(cola_exec', q) <=> Contains(cola_exec, q) \/ q = p
          /\ SinRepetir(cola_exec')
      BY <3>1, <3>2, <3>3, <3>4, Agregado
    <3>6. Tope' = Tope
      BY <3>1, <2>a DEF Tope
    <3> HIDE DEF p
    <3> QED BY <2>0, <2>a, <3>1, <3>3, <3>5, <3>6 DEF Reparto
  <2> QED BY <2>1, <2>2
<1>8. CASE CrearPrimero
  <2>1. /\ proceso' = [proceso EXCEPT !["principal"] = id_proceso] /\ id_proceso' = id_proceso + 1
        /\ pc' = [pc EXCEPT !["principal"] = "planificar"] /\ pc["principal"] = "crear"
        /\ UNCHANGED colas
    BY <1>8 DEF CrearPrimero
  <2>2. pc["despacho"] # "encolar_new"
    BY <2>1 DEF Arranque
  <2>3. Tope' = Tope
    BY <2>1, <2>2 DEF Tope
  <2> QED BY <2>1, <2>2, <2>3 DEF Reparto
<1>9. CASE PlanificarPrimero
  <2> DEFINE p == proceso["principal"]
  <2>1. /\ cola_new' = Append(cola_new, p) /\ pc["principal"] = "planificar"
        /\ pc' = [pc EXCEPT !["principal"] = "consultar"]
        /\ UNCHANGED <<cola_ready, cola_exec, id_proceso, proceso>>
    BY <1>9 DEF PlanificarPrimero, AgregarANew
  <2>2. p = 0 /\ p \in Pids /\ id_proceso = 1 /\ pc["despacho"] # "encolar_new"
    BY <2>1, SupuestoCotas DEF Arranque, ProcesoElegido
  <2>3. Tope = 0 /\ Tope' = 1
    BY <2>1, <2>2 DEF Tope
  <2>4. SinRepetir(cola_new)
    BY DEF Reparto
  <2>5. \A q \in Pids :
           ~Contains(cola_new, q) /\ ~Contains(cola_ready, q) /\ ~Contains(cola_exec, q)
    BY <2>1, EmptySeq DEF Arranque, Contains
  <2>6. /\ \A q : Contains(cola_new', q) <=> Contains(cola_new, q) \/ q = p
        /\ SinRepetir(cola_new')
    BY <2>1, <2>2, <2>4, <2>5, Agregado
  <2>7. \A g \in Planifican : pc'[g] \in Tratando => g = "principal" \/ pc[g] \in Tratando
    BY <2>1
  <2> HIDE DEF p
  <2>8. \A g \in Planifican : pc'[g] \in Tratando => Contains(cola_new', proceso'[g])
    BY <2>1, <2>6, <2>7 DEF Reparto, p
  <2> QED BY <2>1, <2>2, <2>3, <2>5, <2>6, <2>8 DEF Reparto
<1>10. CASE TomarNewLargo
  <2>1. /\ proceso' = [proceso EXCEPT !["largo"] = Head(cola_new)] /\ cola_new # <<>>
        /\ pc' = [pc EXCEPT !["largo"] = "consultar"] /\ UNCHANGED <<colas, id_proceso>>
    BY <1>10 DEF TomarNewLargo, HayEnNew
  <2>2. Contains(cola_new, Head(cola_new))
    BY <2>1, SinElPrimero
  <2>3. Tope' = Tope
    BY <2>1 DEF Tope
  <2> QED BY <2>1, <2>2, <2>3 DEF Reparto
<1>11. CASE RecibirSyscall
  <2>1. CASE ~(pc' = [pc EXCEPT !["despacho"] = "encolar_new"])
    BY <1>11, <2>1, RepartoIgual DEF RecibirSyscall
  <2>2. CASE pc' = [pc EXCEPT !["despacho"] = "encolar_new"]
    <3>1. /\ proceso' = [proceso EXCEPT !["despacho"] = id_proceso] /\ id_proceso' = id_proceso + 1
          /\ UNCHANGED colas /\ pc["despacho"] = "recibir" /\ cola_exec # <<>>
      BY <1>11, <2>2 DEF RecibirSyscall
    <3>2. pc["principal"] # "planificar"
      BY <3>1 DEF Arranque
    <3>3. Tope' = Tope
      BY <2>2, <3>1, <3>2 DEF Tope
    <3> QED BY <2>2, <3>1, <3>3 DEF Reparto
  <2> QED BY <2>1, <2>2
<1>12. CASE EncolarEnNew
  <2> DEFINE p == proceso["despacho"]
  <2>1. /\ cola_new' = Append(cola_new, p) /\ pc["despacho"] = "encolar_new"
        /\ pc' = [pc EXCEPT !["despacho"] = "responder_ok"]
        /\ UNCHANGED <<cola_ready, cola_exec, id_proceso, proceso>>
    BY <1>12 DEF EncolarEnNew, AgregarANew
  <2>2. p = id_proceso - 1 /\ p \in Pids /\ pc["principal"] # "planificar"
    BY <2>1 DEF Arranque, ProcesoElegido, Reparto
  <2>3. Tope = p /\ Tope' = p + 1
    BY <2>1, <2>2 DEF Tope
  <2>4. /\ SinRepetir(cola_new)
        /\ ~Contains(cola_new, p) /\ ~Contains(cola_ready, p) /\ ~Contains(cola_exec, p)
    BY <2>2, <2>3 DEF Reparto
  <2>6. /\ \A q : Contains(cola_new', q) <=> Contains(cola_new, q) \/ q = p
        /\ SinRepetir(cola_new')
    BY <2>1, <2>2, <2>4, Agregado
  <2>7. \A g \in Planifican : pc'[g] \in Tratando => pc[g] \in Tratando
    BY <2>1
  <2>8. pc'["despacho"] # "encolar_new"
    BY <2>1
  <2> HIDE DEF p
  <2>9. \A g \in Planifican : pc'[g] \in Tratando => Contains(cola_new', proceso'[g])
    BY <2>1, <2>6, <2>7 DEF Reparto
  <2>10. \A q \in Pids :
            Contains(cola_new', q) \/ Contains(cola_ready', q) \/ Contains(cola_exec', q) => q < Tope'
    BY <1>a, <2>1, <2>2, <2>3, <2>6 DEF Reparto
  <2> QED BY <2>1, <2>4, <2>6, <2>8, <2>9, <2>10 DEF Reparto
<1>13. CASE ProcesarColaNew
  <2>1. CASE cola_new = <<>>
    BY <1>13, <2>1, RepartoIgual DEF ProcesarColaNew
  <2>2. CASE cola_new # <<>>
    <3>1. /\ proceso' = [proceso EXCEPT !["despacho"] = Head(cola_new)]
          /\ pc' = [pc EXCEPT !["despacho"] = "consultar"] /\ UNCHANGED <<colas, id_proceso>>
          /\ pc["despacho"] = "cola_new"
      BY <1>13, <2>2 DEF ProcesarColaNew
    <3>2. Contains(cola_new, Head(cola_new))
      BY <2>2, SinElPrimero
    <3>3. Tope' = Tope
      BY <3>1 DEF Tope
    <3> QED BY <3>1, <3>2, <3>3 DEF Reparto
  <2> QED BY <2>1, <2>2
<1>14. CASE VencerMutex
  BY <1>14, RepartoIgual DEF VencerMutex
<1>15. CASE DesconectarCpu
  BY <1>15, RepartoIgual DEF DesconectarCpu
<1>16. CASE DesecharReady
  <2>1. CASE cola_ready = <<>>
    BY <1>16, <2>1, RepartoIgual DEF DesecharReady
  <2>2. CASE cola_ready # <<>>
    <3>1. /\ cola_ready' = Tail(cola_ready)
          /\ UNCHANGED <<cola_new, cola_exec, id_proceso, proceso, pc>>
      BY <1>16, <2>2 DEF DesecharReady, SacarDeReady
    <3>2. SinRepetir(cola_ready') /\ \A q : Contains(cola_ready', q) => Contains(cola_ready, q)
      BY <2>2, <3>1, SinElPrimero DEF Reparto
    <3>3. Tope' = Tope
      BY <3>1 DEF Tope
    <3> QED BY <3>1, <3>2, <3>3 DEF Reparto
  <2> QED BY <2>1, <2>2
<1>17. CASE ResponderMemoria
  BY <1>17, RepartoIgual DEF ResponderMemoria
<1> HIDE DEF Hilos, Planifican, Despachan, En, Ir, colas, Tratando, Lugares
<1> QED
  BY Quietud, <1>1, <1>2, <1>3, <1>4, <1>5, <1>6, <1>6a, <1>7, <1>8, <1>9, <1>10, <1>11, <1>12,
     <1>13,
     <1>14, <1>15, <1>16, <1>17
     DEF Movimiento

\* While the CPU stays, nobody is dropped: each step that takes a process out of a
\* queue puts it in the next.
LEMMA CompletoPaso == SeguridadInv /\ Reparto /\ Completo /\ [Next]_vars => Completo'
<1> DEFINE Meta == /\ pc'["despacho"] # "desechar"
                   /\ \A p \in Pids : p < Tope' =>
                         \/ Contains(cola_new', p) \/ Contains(cola_ready', p)
                         \/ Contains(cola_exec', p)
<1> SUFFICES ASSUME SeguridadInv, Reparto, Completo, [Next]_vars, ~CpuPuedeCaer PROVE Meta
  BY DEF Completo
<1>0. /\ cola_new \in Seq(Pids) /\ cola_ready \in Seq(Pids) /\ cola_exec \in Seq(Pids)
      /\ pc \in [Hilos -> Etiquetas] /\ proceso \in [Planifican -> PidsONinguno]
      /\ id_proceso \in Nat /\ Lugares /\ ProcesoElegido /\ Arranque
  BY SupuestoCotas DEF SeguridadInv, TipoInv, TypeOK, Pids
<1>a. \A p \in Pids : p \in Int
  BY SupuestoCotas DEF Pids
<1>b. /\ pc["despacho"] # "desechar"
      /\ \A p \in Pids : p < Tope =>
            Contains(cola_new, p) \/ Contains(cola_ready, p) \/ Contains(cola_exec, p)
  BY DEF Completo
<1>c. ASSUME UNCHANGED <<cola_new, cola_ready, cola_exec, id_proceso>>,
             (pc'["principal"] = "planificar") = (pc["principal"] = "planificar"),
             (pc'["despacho"] = "encolar_new") = (pc["despacho"] = "encolar_new"),
             pc'["despacho"] # "desechar"
      PROVE  Meta
  <2>1. Tope' = Tope
    BY <1>c DEF Tope, En
  <2> QED BY <1>b, <1>c, <2>1
<1> USE <1>0 DEF Hilos, Planifican, Despachan, En, Ir, colas, Lugares
<1> HIDE DEF Meta
<1>1. CASE Quieto
  BY <1>1, <1>b, <1>c DEF Quieto, Rotulos
<1>2. ASSUME NEW h \in Planifican, ConsultarMemoria(h) PROVE Meta
  BY <1>2, <1>b, <1>c DEF ConsultarMemoria
<1>3. ASSUME NEW h \in Planifican, RecibirConsulta(h) PROVE Meta
  <2>1. TrasFallo(h) => Ir(h, "siguiente") \/ Ir(h, "soltar")
    BY DEF TrasFallo
  <2> QED BY <1>3, <1>b, <1>c, <2>1 DEF RecibirConsulta
<1>4. ASSUME NEW h \in Planifican, RecibirCreacion(h) PROVE Meta
  <2>1. TrasFallo(h) => Ir(h, "siguiente") \/ Ir(h, "soltar")
    BY DEF TrasFallo
  <2>2. CASE UNCHANGED <<cola_new, cola_ready>>
    BY <1>4, <1>b, <1>c, <2>1, <2>2 DEF RecibirCreacion
  <2>3. CASE ~UNCHANGED <<cola_new, cola_ready>>
    <3> DEFINE p == proceso[h]
    <3>1. /\ cola_new' = RemoveFirst(cola_new, p) /\ cola_ready' = Append(cola_ready, p)
          /\ pc' = [pc EXCEPT ![h] = "publicar"] /\ pc[h] = "espera_creacion"
          /\ UNCHANGED <<cola_exec, id_proceso>>
      BY <1>4, <2>3, Zenon DEF RecibirCreacion, SacarDeNew
    <3>2. p \in Pids /\ Contains(cola_new, p) /\ SinRepetir(cola_new)
      BY <3>1 DEF ProcesoElegido, Reparto, Tratando
    <3>3. \A q : Contains(cola_new', q) <=> Contains(cola_new, q) /\ q # p
      BY <3>1, <3>2, SinUno
    <3>4. \A q : Contains(cola_ready', q) <=> Contains(cola_ready, q) \/ q = p
      BY <3>1, <3>2, Agregado
    <3>5. Tope' = Tope /\ pc'["despacho"] # "desechar"
      BY <1>b, <3>1 DEF Tope
    <3> HIDE DEF p
    <3> QED BY <1>b, <3>1, <3>3, <3>4, <3>5 DEF Meta
  <2> QED BY <2>2, <2>3
<1>5. ASSUME NEW h \in Planifican, PublicarReady(h) PROVE Meta
  BY <1>5, <1>b, <1>c DEF PublicarReady
<1>6. ASSUME NEW h \in {"largo", "despacho"}, SiguienteDeNew(h) PROVE Meta
  BY <1>6, <1>b, <1>c DEF SiguienteDeNew
<1>6a. CASE ReleerEstado
  BY <1>6a, <1>b, <1>c DEF ReleerEstado
<1>7. ASSUME NEW h \in Despachan, AsignarCpu(h) PROVE Meta
  <2>1. /\ (pc'["principal"] = "planificar") = (pc["principal"] = "planificar")
        /\ (pc'["despacho"] = "encolar_new") = (pc["despacho"] = "encolar_new")
        /\ pc'["despacho"] # "desechar"
    BY <1>7, <1>b DEF AsignarCpu, Retorno
  <2>2. CASE cola_ready = <<>>
    BY <1>7, <1>c, <2>1, <2>2 DEF AsignarCpu
  <2>3. CASE cola_ready # <<>>
    <3> DEFINE p == Head(cola_ready)
    <3>1. /\ cola_ready' = Tail(cola_ready) /\ cola_exec' = Append(cola_exec, p)
          /\ UNCHANGED <<cola_new, id_proceso>>
      BY <1>7, <2>3 DEF AsignarCpu, SacarDeReady
    <3>2. p \in Pids /\ \A q : Contains(cola_ready, q) => Contains(cola_ready', q) \/ q = p
      BY <2>3, <3>1, SinElPrimero
    <3>3. \A q : Contains(cola_exec', q) <=> Contains(cola_exec, q) \/ q = p
      BY <3>1, <3>2, Agregado
    <3>4. Tope' = Tope
      BY <2>1, <3>1 DEF Tope
    <3> HIDE DEF p
    <3> QED BY <1>b, <2>1, <3>1, <3>2, <3>3, <3>4 DEF Meta
  <2> QED BY <2>2, <2>3
<1>8. CASE CrearPrimero
  <2>1. /\ id_proceso' = id_proceso + 1
        /\ pc' = [pc EXCEPT !["principal"] = "planificar"] /\ pc["principal"] = "crear"
        /\ UNCHANGED colas
    BY <1>8 DEF CrearPrimero
  <2>2. pc["despacho"] # "encolar_new"
    BY <2>1 DEF Arranque
  <2>3. Tope' = Tope /\ pc'["despacho"] # "desechar"
    BY <1>b, <2>1, <2>2 DEF Tope
  <2> QED BY <1>b, <2>1, <2>3 DEF Meta
<1>9. CASE PlanificarPrimero
  <2>1. /\ cola_new' = Append(cola_new, proceso["principal"]) /\ pc["principal"] = "planificar"
        /\ pc' = [pc EXCEPT !["principal"] = "consultar"]
        /\ UNCHANGED <<cola_ready, cola_exec, id_proceso>>
    BY <1>9 DEF PlanificarPrimero, AgregarANew
  <2>2. proceso["principal"] = 0 /\ id_proceso = 1 /\ pc["despacho"] # "encolar_new" /\ 0 \in Pids
    BY <2>1, SupuestoCotas DEF Arranque, Pids
  <2>3. Tope' = 1 /\ pc'["despacho"] # "desechar"
    BY <1>b, <2>1, <2>2 DEF Tope
  <2>4. Contains(cola_new', 0)
    BY <2>1, <2>2, Agregado
  <2>5. \A p \in Pids : p < 1 => p = 0
    BY SupuestoCotas DEF Pids
  <2> QED BY <2>3, <2>4, <2>5 DEF Meta
<1>10. CASE TomarNewLargo
  BY <1>10, <1>b, <1>c DEF TomarNewLargo
<1>11. CASE RecibirSyscall
  <2>1. CASE ~(pc' = [pc EXCEPT !["despacho"] = "encolar_new"])
    BY <1>11, <1>b, <1>c, <2>1 DEF RecibirSyscall
  <2>2. CASE pc' = [pc EXCEPT !["despacho"] = "encolar_new"]
    <3>1. id_proceso' = id_proceso + 1 /\ UNCHANGED colas /\ pc["despacho"] = "recibir"
          /\ cola_exec # <<>>
      BY <1>11, <2>2 DEF RecibirSyscall
    <3>2. pc["principal"] # "planificar"
      BY <3>1 DEF Arranque
    <3>3. Tope' = Tope /\ pc'["despacho"] # "desechar"
      BY <2>2, <3>1, <3>2 DEF Tope
    <3> QED BY <1>b, <3>1, <3>3 DEF Meta
  <2> QED BY <2>1, <2>2
<1>12. CASE EncolarEnNew
  <2> DEFINE p == proceso["despacho"]
  <2>1. /\ cola_new' = Append(cola_new, p) /\ pc["despacho"] = "encolar_new"
        /\ pc' = [pc EXCEPT !["despacho"] = "responder_ok"]
        /\ UNCHANGED <<cola_ready, cola_exec, id_proceso>>
    BY <1>12 DEF EncolarEnNew, AgregarANew
  <2>2. p = id_proceso - 1 /\ p \in Pids /\ pc["principal"] # "planificar"
    BY <2>1 DEF Arranque, ProcesoElegido, Reparto
  <2>3. Tope = p /\ Tope' = p + 1 /\ pc'["despacho"] # "desechar"
    BY <2>1, <2>2 DEF Tope
  <2>4. \A q : Contains(cola_new', q) <=> Contains(cola_new, q) \/ q = p
    BY <2>1, <2>2, Agregado
  <2> HIDE DEF p
  <2>5. \A q \in Pids : q < Tope' => q < Tope \/ q = p
    BY <1>a, <2>2, <2>3
  <2> QED BY <1>b, <2>1, <2>3, <2>4, <2>5 DEF Meta
<1>13. CASE ProcesarColaNew
  BY <1>13, <1>b, <1>c DEF ProcesarColaNew
<1>14. CASE VencerMutex
  BY <1>14, <1>b, <1>c DEF VencerMutex
<1>15. CASE DesconectarCpu
  BY <1>15 DEF DesconectarCpu
<1>16. CASE DesecharReady
  BY <1>16, <1>b DEF DesecharReady
<1>17. CASE ResponderMemoria
  BY <1>17, <1>b, <1>c DEF ResponderMemoria
<1> HIDE DEF Hilos, Planifican, Despachan, En, Ir, colas, Lugares
<1> QED
  BY Quietud, <1>1, <1>2, <1>3, <1>4, <1>5, <1>6, <1>6a, <1>7, <1>8, <1>9, <1>10, <1>11, <1>12,
     <1>13,
     <1>14, <1>15, <1>16, <1>17
     DEF Movimiento

\* Under FIFO a queue grows at its end with a pid above all those in it, and what
\* leaves it is below all those that stay.
LEMMA OrdenPaso == SeguridadInv /\ Reparto /\ Orden /\ [Next]_vars => Orden'
<1> DEFINE Ordenadas(n, r, e) ==
              /\ EnOrden(n) /\ EnOrden(r) /\ EnOrden(e)
              /\ Precede(e, r) /\ Precede(r, n) /\ Precede(e, n)
           Admiten == {"principal", "largo"}
           Lejos == /\ pc'["largo"] \notin {"releer_estado", "siguiente"}
                    /\ pc'["despacho"] \notin {"siguiente", "publicar"}
           Primero == \A h \in Admiten : pc'[h] \in Tratando =>
                         \A q \in Pids : Contains(cola_new', q) => proceso'[h] <= q
           Meta == Ordenadas(cola_new', cola_ready', cola_exec') /\ Lejos /\ Primero
<1> SUFFICES ASSUME SeguridadInv, Reparto, Orden, [Next]_vars, Algoritmo = "FIFO" PROVE Meta
  BY DEF Orden
<1>0. /\ cola_new \in Seq(Pids) /\ cola_ready \in Seq(Pids) /\ cola_exec \in Seq(Pids)
      /\ pc \in [Hilos -> Etiquetas] /\ proceso \in [Planifican -> PidsONinguno]
      /\ id_proceso \in Nat /\ Lugares /\ ProcesoElegido /\ Arranque /\ ExclusionNew
  BY SupuestoCotas DEF SeguridadInv, TipoInv, TypeOK, Pids
<1>a. \A p \in Pids : p \in Int
  BY SupuestoCotas DEF Pids
<1>b. /\ EnOrden(cola_new) /\ EnOrden(cola_ready) /\ EnOrden(cola_exec)
      /\ Precede(cola_exec, cola_ready) /\ Precede(cola_ready, cola_new)
      /\ Precede(cola_exec, cola_new)
      /\ pc["largo"] \notin {"releer_estado", "siguiente"}
      /\ pc["despacho"] \notin {"siguiente", "publicar"}
  BY DEF Orden
<1>c. \A h \in Admiten : pc[h] \in Tratando =>
         \A q \in Pids : Contains(cola_new, q) => proceso[h] <= q
  BY DEF Orden
<1>d. Ordenadas(cola_new, cola_ready, cola_exec)
  BY <1>b
<1> HIDE DEF Ordenadas, Lejos, Primero
<1> USE <1>0 DEF Hilos, Planifican, Despachan, En, Ir, colas, Lugares, Tratando
\* The queues stay, and no thread takes a process.
<1>e. ASSUME UNCHANGED <<cola_new, cola_ready, cola_exec>>, Lejos,
             \A h \in Admiten : pc'[h] \in Tratando => pc[h] \in Tratando /\ proceso'[h] = proceso[h]
      PROVE  Meta
  <2>1. Primero
    BY <1>c, <1>e DEF Primero
  <2> QED BY <1>d, <1>e, <2>1
<1>1. CASE Quieto
  <2>1. Lejos
    BY <1>1, <1>b DEF Quieto, Rotulos, Lejos
  <2> QED BY <1>1, <1>e, <2>1 DEF Quieto, Rotulos
<1>2. ASSUME NEW h \in Planifican, ConsultarMemoria(h) PROVE Meta
  <2>1. Lejos
    BY <1>2, <1>b DEF ConsultarMemoria, Lejos
  <2> QED BY <1>2, <1>e, <2>1 DEF ConsultarMemoria
<1>3. ASSUME NEW h \in Planifican, RecibirConsulta(h) PROVE Meta
  <2>1. TrasFallo(h) => Ir(h, "soltar")
    BY DEF TrasFallo
  <2>2. Lejos
    BY <1>3, <1>b, <2>1 DEF RecibirConsulta, Lejos
  <2> QED BY <1>3, <1>e, <2>1, <2>2 DEF RecibirConsulta
<1>4. ASSUME NEW h \in Planifican, RecibirCreacion(h) PROVE Meta
  <2>1. TrasFallo(h) => Ir(h, "soltar")
    BY DEF TrasFallo
  <2>2. Lejos
    BY <1>4, <1>b, <2>1 DEF RecibirCreacion, Lejos, ReTomaMutex
  <2>3. CASE UNCHANGED <<cola_new, cola_ready>>
    <3>1. pc' = [pc EXCEPT ![h] = "soltar"] \/ pc' = [pc EXCEPT ![h] = "espera_mutex"]
          \/ pc' = [pc EXCEPT ![h] = "publicar"]
      BY <1>4, <2>1, Zenon DEF RecibirCreacion
    <3>2. UNCHANGED <<cola_exec, proceso>>
      BY <1>4 DEF RecibirCreacion
    <3> QED BY <1>e, <2>2, <2>3, <3>1, <3>2
  <2>4. CASE ~UNCHANGED <<cola_new, cola_ready>>
    <3> DEFINE p == proceso[h]
    <3>1. /\ cola_new' = RemoveFirst(cola_new, p) /\ cola_ready' = Append(cola_ready, p)
          /\ pc' = [pc EXCEPT ![h] = "publicar"] /\ pc[h] = "espera_creacion"
          /\ ~ReTomaMutex(h) /\ UNCHANGED <<cola_exec, proceso>>
      BY <1>4, <2>4, Zenon DEF RecibirCreacion, SacarDeNew
    <3>2. h \in Admiten /\ p \in Pids /\ Contains(cola_new, p) /\ SinRepetir(cola_new)
      BY <3>1 DEF ProcesoElegido, Reparto, ReTomaMutex
    <3>3. /\ \A q : Contains(cola_new', q) <=> Contains(cola_new, q) /\ q # p
          /\ EnOrden(cola_new')
      BY <1>b, <3>1, <3>2, SinUno
    <3>4. \A q \in Pids : Contains(cola_ready, q) => q < p
      BY <1>b, <3>2 DEF Precede
    <3>5. /\ \A q : Contains(cola_ready', q) <=> Contains(cola_ready, q) \/ q = p
          /\ EnOrden(cola_ready')
      BY <1>b, <3>1, <3>2, <3>4, Agregado
    <3>6. \A q \in Pids : Contains(cola_new', q) => p < q
      BY <1>a, <1>c, <3>1, <3>2, <3>3
    <3>7. \A g \in Admiten : pc'[g] \notin Tratando
      BY <3>1 DEF ExclusionNew, SeccionNew
    <3>8. Primero
      BY <3>7 DEF Primero
    <3> HIDE DEF p
    <3>9. Precede(cola_exec', cola_ready') /\ Precede(cola_ready', cola_new')
          /\ Precede(cola_exec', cola_new')
      BY <1>b, <3>1, <3>2, <3>3, <3>5, <3>6 DEF Precede
    <3> QED BY <1>b, <2>2, <3>1, <3>3, <3>5, <3>8, <3>9 DEF Ordenadas
  <2> QED BY <2>3, <2>4
<1>5. ASSUME NEW h \in Planifican, PublicarReady(h) PROVE Meta
  <2>1. Lejos
    BY <1>5, <1>b DEF PublicarReady, Lejos
  <2> QED BY <1>5, <1>e, <2>1 DEF PublicarReady
<1>6. ASSUME NEW h \in {"largo", "despacho"}, SiguienteDeNew(h) PROVE Meta
  BY <1>6, <1>b DEF SiguienteDeNew
<1>6a. CASE ReleerEstado
  BY <1>6a, <1>b DEF ReleerEstado
<1>7. ASSUME NEW h \in Despachan, AsignarCpu(h) PROVE Meta
  <2>1. Lejos
    BY <1>7, <1>b DEF AsignarCpu, Retorno, Lejos
  <2>2. \A g \in Admiten : pc'[g] = pc[g] /\ proceso'[g] = proceso[g]
    BY <1>7 DEF AsignarCpu, Retorno
  <2>3. CASE cola_ready = <<>>
    BY <1>7, <1>e, <2>1, <2>2, <2>3 DEF AsignarCpu
  <2>4. CASE cola_ready # <<>>
    <3> DEFINE p == Head(cola_ready)
    <3>1. cola_ready' = Tail(cola_ready) /\ cola_exec' = Append(cola_exec, p) /\ UNCHANGED cola_new
      BY <1>7, <2>4 DEF AsignarCpu, SacarDeReady
    <3>2. /\ p \in Pids /\ Contains(cola_ready, p) /\ EnOrden(cola_ready')
          /\ \A q : Contains(cola_ready', q) => Contains(cola_ready, q)
          /\ \A q \in Pids : Contains(cola_ready', q) => p < q
      BY <1>b, <2>4, <3>1, SinElPrimero
    <3>3. \A q \in Pids : Contains(cola_exec, q) => q < p
      BY <1>b, <3>2 DEF Precede
    <3>4. /\ \A q : Contains(cola_exec', q) <=> Contains(cola_exec, q) \/ q = p
          /\ EnOrden(cola_exec')
      BY <1>b, <3>1, <3>2, <3>3, Agregado
    <3> HIDE DEF p
    <3>5. Precede(cola_exec', cola_ready') /\ Precede(cola_ready', cola_new')
          /\ Precede(cola_exec', cola_new')
      BY <1>b, <3>1, <3>2, <3>4 DEF Precede
    <3>6. Primero
      BY <1>c, <2>2, <3>1 DEF Primero
    <3> QED BY <1>b, <2>1, <3>1, <3>2, <3>4, <3>5, <3>6 DEF Ordenadas
  <2> QED BY <2>3, <2>4
<1>8. CASE CrearPrimero
  <2>1. Lejos
    BY <1>8, <1>b DEF CrearPrimero, Lejos
  <2> QED BY <1>8, <1>e, <2>1 DEF CrearPrimero
<1>9. CASE PlanificarPrimero
  <2>1. /\ cola_new' = Append(cola_new, proceso["principal"]) /\ pc["principal"] = "planificar"
        /\ pc' = [pc EXCEPT !["principal"] = "consultar"]
        /\ UNCHANGED <<cola_ready, cola_exec, proceso>>
    BY <1>9 DEF PlanificarPrimero, AgregarANew
  <2>2. /\ proceso["principal"] = 0 /\ 0 \in Pids /\ pc["largo"] = "tomar"
        /\ cola_new = <<>> /\ cola_ready = <<>> /\ cola_exec = <<>>
    BY <2>1, SupuestoCotas DEF Arranque, Pids
  <2>3. \A q \in Pids :
           ~Contains(cola_new, q) /\ ~Contains(cola_ready, q) /\ ~Contains(cola_exec, q)
    BY <2>2, EmptySeq DEF Contains
  <2>4. EnOrden(cola_new') /\ \A q : Contains(cola_new', q) <=> Contains(cola_new, q) \/ q = 0
    BY <1>b, <2>1, <2>2, <2>3, Agregado
  <2>5. Lejos
    BY <1>b, <2>1, <2>2 DEF Lejos
  <2>6. \A q \in Pids : Contains(cola_new', q) => q = 0
    BY <2>3, <2>4
  <2>7. Primero
    BY <2>1, <2>2, <2>6 DEF Primero
  <2>8. Precede(cola_exec', cola_ready') /\ Precede(cola_ready', cola_new')
        /\ Precede(cola_exec', cola_new')
    BY <2>1, <2>3 DEF Precede
  <2> QED BY <1>b, <2>1, <2>4, <2>5, <2>7, <2>8 DEF Ordenadas
<1>10. CASE TomarNewLargo
  <2>1. /\ proceso' = [proceso EXCEPT !["largo"] = Head(cola_new)] /\ cola_new # <<>>
        /\ pc' = [pc EXCEPT !["largo"] = "consultar"] /\ UNCHANGED colas
    BY <1>10 DEF TomarNewLargo, HayEnNew
  <2>2. \A q \in Pids : Contains(cola_new, q) => Head(cola_new) <= q
    BY <1>b, <2>1, SinElPrimero
  <2>3. Lejos
    BY <1>b, <2>1 DEF Lejos
  <2>4. Primero
    BY <1>c, <2>1, <2>2 DEF Primero
  <2> QED BY <1>d, <2>1, <2>3, <2>4
<1>11. CASE RecibirSyscall
  <2>1. Lejos
    BY <1>11, <1>b DEF RecibirSyscall, Lejos
  <2> QED BY <1>11, <1>e, <2>1 DEF RecibirSyscall
<1>12. CASE EncolarEnNew
  <2> DEFINE p == proceso["despacho"]
  <2>1. /\ cola_new' = Append(cola_new, p) /\ pc["despacho"] = "encolar_new"
        /\ pc' = [pc EXCEPT !["despacho"] = "responder_ok"]
        /\ UNCHANGED <<cola_ready, cola_exec, proceso>>
    BY <1>12 DEF EncolarEnNew, AgregarANew
  <2>2. p = id_proceso - 1 /\ p \in Pids /\ pc["principal"] # "planificar"
    BY <2>1 DEF Arranque, ProcesoElegido, Reparto
  <2>3. Tope = p
    BY <2>1, <2>2 DEF Tope
  <2>4. \A q \in Pids :
           Contains(cola_new, q) \/ Contains(cola_ready, q) \/ Contains(cola_exec, q) => q < p
    BY <2>3 DEF Reparto
  <2>5. EnOrden(cola_new') /\ \A q : Contains(cola_new', q) <=> Contains(cola_new, q) \/ q = p
    BY <1>b, <2>1, <2>2, <2>4, Agregado
  <2>6. Lejos
    BY <1>b, <2>1 DEF Lejos
  <2>7. \A g \in Admiten : pc'[g] \in Tratando =>
           /\ pc[g] \in Tratando /\ proceso'[g] = proceso[g]
           /\ proceso[g] \in Pids /\ Contains(cola_new, proceso[g])
    BY <2>1 DEF ProcesoElegido, Reparto
  <2> HIDE DEF p
  <2>8. Primero
    <3> SUFFICES ASSUME NEW g \in Admiten, pc'[g] \in Tratando,
                        NEW q \in Pids, Contains(cola_new', q)
                 PROVE  proceso'[g] <= q
      BY DEF Primero
    <3>1. CASE Contains(cola_new, q)
      BY <1>c, <2>7, <3>1
    <3>2. CASE q = p
      <4>1. proceso[g] \in Pids /\ proceso[g] < p
        BY <2>4, <2>7
      <4> QED BY <1>a, <2>7, <3>2, <4>1
    <3> QED BY <2>5, <3>1, <3>2
  <2>9. Precede(cola_exec', cola_ready') /\ Precede(cola_ready', cola_new')
        /\ Precede(cola_exec', cola_new')
    BY <1>b, <2>1, <2>4, <2>5 DEF Precede
  <2> QED BY <1>b, <2>1, <2>5, <2>6, <2>8, <2>9 DEF Ordenadas
<1>13. CASE ProcesarColaNew
  <2>1. Lejos
    BY <1>13, <1>b DEF ProcesarColaNew, Lejos
  <2> QED BY <1>13, <1>e, <2>1 DEF ProcesarColaNew
<1>14. CASE VencerMutex
  <2>1. Lejos
    BY <1>14, <1>b DEF VencerMutex, Lejos
  <2> QED BY <1>14, <1>e, <2>1 DEF VencerMutex
<1>15. CASE DesconectarCpu
  <2>1. Lejos
    BY <1>15, <1>b DEF DesconectarCpu, Lejos
  <2> QED BY <1>15, <1>e, <2>1 DEF DesconectarCpu
<1>16. CASE DesecharReady
  <2>1. Lejos
    BY <1>16, <1>b DEF DesecharReady, Lejos
  <2>2. CASE cola_ready = <<>>
    BY <1>16, <1>e, <2>1, <2>2 DEF DesecharReady
  <2>3. CASE cola_ready # <<>>
    <3>1. cola_ready' = Tail(cola_ready) /\ UNCHANGED <<cola_new, cola_exec, proceso, pc>>
      BY <1>16, <2>3 DEF DesecharReady, SacarDeReady
    <3>2. EnOrden(cola_ready') /\ \A q : Contains(cola_ready', q) => Contains(cola_ready, q)
      BY <1>b, <2>3, <3>1, SinElPrimero
    <3>3. Precede(cola_exec', cola_ready') /\ Precede(cola_ready', cola_new')
          /\ Precede(cola_exec', cola_new')
      BY <1>b, <3>1, <3>2 DEF Precede
    <3>4. Primero
      BY <1>c, <3>1 DEF Primero
    <3> QED BY <1>b, <2>1, <3>1, <3>2, <3>3, <3>4 DEF Ordenadas
  <2> QED BY <2>2, <2>3
<1>17. CASE ResponderMemoria
  <2>1. Lejos
    BY <1>17, <1>b DEF ResponderMemoria, Lejos
  <2> QED BY <1>17, <1>e, <2>1 DEF ResponderMemoria
<1> HIDE DEF Hilos, Planifican, Despachan, En, Ir, colas, Lugares, Tratando, Meta
<1> QED
  BY Quietud, <1>1, <1>2, <1>3, <1>4, <1>5, <1>6, <1>6a, <1>7, <1>8, <1>9, <1>10, <1>11, <1>12,
     <1>13,
     <1>14, <1>15, <1>16, <1>17
     DEF Movimiento

\* A pid enters READY only after its thread has read the confirmation, and what
\* is on the socket then is about that pid.
LEMMA CreadoPaso == SeguridadInv /\ Creado /\ [Next]_vars => Creado'
<1> DEFINE Meta == Creado'
<1> SUFFICES ASSUME SeguridadInv, Creado, [Next]_vars PROVE Meta
  OBVIOUS
<1>0. /\ cola_new \in Seq(Pids) /\ cola_ready \in Seq(Pids) /\ cola_exec \in Seq(Pids)
      /\ aMemoria \in Seq(Pedidos) /\ deMemoria \in Seq(Contestaciones)
      /\ creaciones \in [Pids -> Nat]
      /\ pc \in [Hilos -> Etiquetas] /\ proceso \in [Planifican -> PidsONinguno]
      /\ Lugares /\ ProcesoElegido /\ ExclusionNew
  BY DEF SeguridadInv, TipoInv, TypeOK
<1>a. /\ \A p \in Pids : Contains(cola_ready, p) \/ Contains(cola_exec, p) => creaciones[p] >= 1
      /\ \A h \in Planifican : pc[h] = "espera_creacion" =>
            /\ \A i \in 1..Len(aMemoria) : aMemoria[i].pid = proceso[h]
            /\ \A i \in 1..Len(deMemoria) : deMemoria[i].ok => creaciones[proceso[h]] >= 1
  BY DEF Creado, En
<1> USE <1>0 DEF Hilos, Planifican, Despachan, En, Ir, colas, memoria, Lugares
\* Memory and its confirmations stay, and no thread begins to wait for one.
<1>b. ASSUME UNCHANGED memoria,
             \A q \in Pids :
                Contains(cola_ready', q) \/ Contains(cola_exec', q) => creaciones[q] >= 1,
             \A h \in Planifican : pc'[h] = "espera_creacion" =>
                pc[h] = "espera_creacion" /\ proceso'[h] = proceso[h]
      PROVE  Meta
  BY <1>a, <1>b DEF Creado
<1> HIDE DEF Meta
<1>1. CASE Quieto
  BY <1>1, <1>a, <1>b DEF Quieto, Rotulos
<1>2. ASSUME NEW h \in Planifican, ConsultarMemoria(h) PROVE Meta
  <2>1. /\ pc[h] = "consultar" /\ pc' = [pc EXCEPT ![h] = "espera_consulta"]
        /\ UNCHANGED <<cola_ready, cola_exec, creaciones>>
    BY <1>2 DEF ConsultarMemoria
  <2>2. \A g \in Planifican : pc'[g] # "espera_creacion"
    BY <2>1 DEF ExclusionNew, SeccionNew
  <2> QED BY <1>a, <2>1, <2>2 DEF Creado, Meta
<1>3. ASSUME NEW h \in Planifican, RecibirConsulta(h) PROVE Meta
  <2>1. TrasFallo(h) => Ir(h, "siguiente") \/ Ir(h, "soltar")
    BY DEF TrasFallo
  <2>2. /\ pc[h] = "espera_consulta" /\ deMemoria # <<>> /\ deMemoria' = Tail(deMemoria)
        /\ UNCHANGED <<cola_ready, cola_exec, creaciones, proceso>>
    BY <1>3 DEF RecibirConsulta
  <2>3. \A g \in Planifican : pc[g] # "espera_creacion"
    BY <2>2 DEF ExclusionNew, SeccionNew
  <2>4. CASE RespuestaPositiva
    <3> DEFINE m == [hilo |-> h, op |-> "CREAR_PROCESO", pid |-> proceso[h]]
    <3>1. aMemoria' = Append(aMemoria, m) /\ pc' = [pc EXCEPT ![h] = "espera_creacion"]
      BY <1>3, <2>4 DEF RecibirConsulta
    <3>2. Len(aMemoria) + Len(deMemoria) = 1
      BY <2>2 DEF SeguridadInv, Conversacion, Esperando
    <3>3. Len(deMemoria) \in Nat \ {0} /\ Len(deMemoria') = Len(deMemoria) - 1 /\ Len(aMemoria) \in Nat
      BY <2>2, HeadTailProperties, LenProperties, EmptySeq
    <3>4. Len(aMemoria) = 0 /\ Len(deMemoria') = 0
      BY <3>2, <3>3
    <3>5. m \in Pedidos
      BY <2>2 DEF ProcesoElegido, Pedidos, Operaciones, PidsONinguno
    <3>6. Len(aMemoria') = 1 /\ aMemoria'[1] = m
      BY <3>1, <3>4, <3>5, AppendProperties
    <3>7. m.pid = proceso'[h]
      BY <2>2
    <3> HIDE DEF m
    <3>8. \A g \in Planifican : pc'[g] = "espera_creacion" => g = h
      BY <2>3, <3>1
    <3>9. \A i \in 1..Len(aMemoria') : aMemoria'[i].pid = proceso'[h]
      BY <3>6, <3>7
    <3>10. \A g \in Planifican : pc'[g] = "espera_creacion" =>
             /\ \A i \in 1..Len(aMemoria') : aMemoria'[i].pid = proceso'[g]
             /\ \A i \in 1..Len(deMemoria') : deMemoria'[i].ok => creaciones'[proceso'[g]] >= 1
      <4>1. 1..Len(deMemoria') = {}
        BY <3>4
      <4> QED BY <3>8, <3>9, <4>1
    <3> QED BY <1>a, <2>2, <3>10 DEF Creado, Meta
  <2>5. CASE ~RespuestaPositiva
    <3>1. \A g \in Planifican : pc'[g] # "espera_creacion"
      BY <1>3, <2>1, <2>3, <2>5 DEF RecibirConsulta
    <3> QED BY <1>a, <2>2, <3>1 DEF Creado, Meta
  <2> QED BY <2>4, <2>5
<1>4. ASSUME NEW h \in Planifican, RecibirCreacion(h) PROVE Meta
  <2>1. TrasFallo(h) => Ir(h, "siguiente") \/ Ir(h, "soltar")
    BY DEF TrasFallo
  <2>2. /\ pc[h] = "espera_creacion" /\ deMemoria # <<>>
        /\ UNCHANGED <<cola_exec, creaciones, proceso>>
    BY <1>4 DEF RecibirCreacion
  <2>3. \A g \in Planifican : pc'[g] # "espera_creacion"
    BY <1>4, <2>1, <2>2 DEF RecibirCreacion, ExclusionNew, SeccionNew
  <2>4. CASE UNCHANGED <<cola_new, cola_ready>>
    BY <1>a, <2>2, <2>3, <2>4 DEF Creado, Meta
  <2>5. CASE ~UNCHANGED <<cola_new, cola_ready>>
    <3> DEFINE p == proceso[h]
    <3>1. cola_ready' = Append(cola_ready, p) /\ RespuestaPositiva
      BY <1>4, <2>5, Zenon DEF RecibirCreacion
    <3>2. p \in Pids
      BY <2>2 DEF ProcesoElegido
    <3>3. 1 \in 1..Len(deMemoria) /\ Head(deMemoria) = deMemoria[1]
      BY <2>2, HeadTailProperties, LenProperties, EmptySeq
    <3>4. creaciones[p] >= 1
      BY <1>a, <2>2, <3>1, <3>3 DEF RespuestaPositiva
    <3>5. \A q : Contains(cola_ready', q) <=> Contains(cola_ready, q) \/ q = p
      BY <3>1, <3>2, Agregado
    <3> HIDE DEF p
    <3> QED BY <1>a, <2>2, <2>3, <3>4, <3>5 DEF Creado, Meta
  <2> QED BY <2>4, <2>5
<1>5. ASSUME NEW h \in Planifican, PublicarReady(h) PROVE Meta
  BY <1>5, <1>a, <1>b DEF PublicarReady
<1>6. ASSUME NEW h \in {"largo", "despacho"}, SiguienteDeNew(h) PROVE Meta
  BY <1>6, <1>a, <1>b DEF SiguienteDeNew
<1>6a. CASE ReleerEstado
  BY <1>6a, <1>a, <1>b DEF ReleerEstado
<1>7. ASSUME NEW h \in Despachan, AsignarCpu(h) PROVE Meta
  <2>1. \A g \in Planifican : pc'[g] = "espera_creacion" => pc[g] = "espera_creacion" /\ proceso'[g] = proceso[g]
    BY <1>7 DEF AsignarCpu, Retorno
  <2>2. UNCHANGED memoria
    BY <1>7 DEF AsignarCpu
  <2>3. CASE cola_ready = <<>>
    BY <1>7, <1>a, <1>b, <2>1, <2>2, <2>3 DEF AsignarCpu
  <2>4. CASE cola_ready # <<>>
    <3>1. cola_ready' = Tail(cola_ready) /\ cola_exec' = Append(cola_exec, Head(cola_ready))
      BY <1>7, <2>4 DEF AsignarCpu, SacarDeReady
    <3>2. /\ Head(cola_ready) \in Pids /\ Contains(cola_ready, Head(cola_ready))
          /\ \A q : Contains(cola_ready', q) => Contains(cola_ready, q)
      BY <2>4, <3>1, SinElPrimero
    <3>3. \A q : Contains(cola_exec', q) <=> Contains(cola_exec, q) \/ q = Head(cola_ready)
      BY <3>1, <3>2, Agregado
    <3> QED BY <1>a, <1>b, <2>1, <2>2, <3>2, <3>3
  <2> QED BY <2>3, <2>4
<1>8. CASE CrearPrimero
  BY <1>8, <1>a, <1>b DEF CrearPrimero
<1>9. CASE PlanificarPrimero
  BY <1>9, <1>a, <1>b DEF PlanificarPrimero
<1>10. CASE TomarNewLargo
  BY <1>10, <1>a, <1>b DEF TomarNewLargo
<1>11. CASE RecibirSyscall
  BY <1>11, <1>a, <1>b DEF RecibirSyscall
<1>12. CASE EncolarEnNew
  BY <1>12, <1>a, <1>b DEF EncolarEnNew
<1>13. CASE ProcesarColaNew
  BY <1>13, <1>a, <1>b DEF ProcesarColaNew
<1>14. CASE VencerMutex
  BY <1>14, <1>a, <1>b DEF VencerMutex
<1>15. CASE DesconectarCpu
  BY <1>15, <1>a, <1>b DEF DesconectarCpu
<1>16. CASE DesecharReady
  <2>1. CASE cola_ready = <<>>
    BY <1>16, <1>a, <1>b, <2>1 DEF DesecharReady
  <2>2. CASE cola_ready # <<>>
    <3>1. cola_ready' = Tail(cola_ready) /\ UNCHANGED <<cola_exec, memoria, proceso, pc>>
      BY <1>16, <2>2 DEF DesecharReady, SacarDeReady
    <3>2. \A q : Contains(cola_ready', q) => Contains(cola_ready, q)
      BY <2>2, <3>1, SinElPrimero
    <3> QED BY <1>a, <1>b, <3>1, <3>2
  <2> QED BY <2>1, <2>2
<1>17. CASE ResponderMemoria
  <2>1. PICK ok \in Respuestas : LET pedido == Head(aMemoria) IN
          /\ deMemoria' = Append(deMemoria, [hilo |-> pedido.hilo, op |-> pedido.op, ok |-> ok])
          /\ creaciones' = IF ok /\ pedido.op = "CREAR_PROCESO"
                           THEN [creaciones EXCEPT ![pedido.pid] = @ + 1]
                           ELSE creaciones
    BY <1>17 DEF ResponderMemoria
  <2>2. aMemoria # <<>> /\ aMemoria' = Tail(aMemoria) /\ UNCHANGED <<colas, pc, proceso>>
    BY <1>17 DEF ResponderMemoria
  <2> DEFINE pedido == Head(aMemoria)
             m == [hilo |-> pedido.hilo, op |-> pedido.op, ok |-> ok]
  <2>3. /\ Len(aMemoria) \in Nat \ {0} /\ Len(aMemoria') = Len(aMemoria) - 1
        /\ pedido = aMemoria[1] /\ pedido \in Pedidos
    BY <2>2, HeadTailProperties, LenProperties, EmptySeq
  <2>4. PICK g \in Planifican : Esperando(g)
    BY <2>3 DEF SeguridadInv, Conversacion
  <2>5. /\ Len(aMemoria) + Len(deMemoria) = 1
        /\ 1 \in 1..Len(aMemoria) => aMemoria[1].op = Pregunta(g)
    BY <2>4 DEF SeguridadInv, Conversacion
  <2>6. Len(deMemoria) = 0 /\ Len(aMemoria') = 0 /\ pedido.op = Pregunta(g)
    BY <2>3, <2>5, LenProperties
  <2>7. \A f \in Planifican : pc[f] = "espera_creacion" => f = g
    BY <2>4 DEF Esperando, ExclusionNew, SeccionNew
  <2>8. m \in Contestaciones
    BY <2>3, SupuestoRespuestas DEF Contestaciones, Pedidos
  <2>9. deMemoria' = Append(deMemoria, m)
    BY <2>1
  <2>10. Len(deMemoria') = 1 /\ deMemoria'[1] = m
    BY <2>6, <2>8, <2>9, AppendProperties
  <2>11. m.ok = ok
    OBVIOUS
  <2>12. \A q \in Pids : creaciones'[q] >= creaciones[q] /\ creaciones[q] \in Nat /\ creaciones'[q] \in Nat
    BY <2>1
  <2> HIDE DEF m
  <2>13. ASSUME pc[g] = "espera_creacion", ok PROVE creaciones'[proceso[g]] >= 1
    <3>1. pedido.op = "CREAR_PROCESO" /\ pedido.pid = proceso[g] /\ proceso[g] \in Pids
      BY <1>a, <2>3, <2>6, <2>13 DEF Pregunta, ProcesoElegido
    <3>2. creaciones' = [creaciones EXCEPT ![proceso[g]] = @ + 1]
      BY <2>1, <2>13, <3>1
    <3>3. creaciones'[proceso[g]] = creaciones[proceso[g]] + 1
      BY <3>1, <3>2
    <3> QED BY <2>12, <3>1, <3>3
  <2>14. \A f \in Planifican : pc'[f] = "espera_creacion" =>
            /\ \A i \in 1..Len(aMemoria') : aMemoria'[i].pid = proceso'[f]
            /\ \A i \in 1..Len(deMemoria') : deMemoria'[i].ok => creaciones'[proceso'[f]] >= 1
    <3>1. 1..Len(aMemoria') = {} /\ \A i \in 1..Len(deMemoria') : i = 1
      BY <2>6, <2>10
    <3>2. \A i \in 1..Len(deMemoria') : deMemoria'[i].ok => ok
      BY <2>10, <2>11, <3>1
    <3> QED BY <2>2, <2>7, <2>13, <3>1, <3>2
  <2>15. \A q \in Pids : Contains(cola_ready', q) \/ Contains(cola_exec', q) => creaciones'[q] >= 1
    BY <1>a, <2>2, <2>12
  <2> QED BY <2>14, <2>15 DEF Creado, Meta
<1> HIDE DEF Hilos, Planifican, Despachan, En, Ir, colas, memoria, Lugares
<1> QED
  BY Quietud, <1>1, <1>2, <1>3, <1>4, <1>5, <1>6, <1>6a, <1>7, <1>8, <1>9, <1>10, <1>11, <1>12,
     <1>13,
     <1>14, <1>15, <1>16, <1>17
     DEF Movimiento

\* Under PMCP the confirmation that memory sends is read by the thread that will
\* take the process out of NEW, before it does anything else.
LEMMA SinCrearPaso == SeguridadInv /\ Reparto /\ Creado /\ SinCrear /\ [Next]_vars => SinCrear'
<1> DEFINE Fuera(p) == p >= Tope \/ Contains(cola_new, p)
           Meta == /\ pc'["despacho"] # "espera_mutex"
                   /\ \A p \in Pids : Fuera(p)' => creaciones'[p] = 0 \/ Confirmado(p)'
<1> SUFFICES ASSUME SeguridadInv, Reparto, Creado, SinCrear, [Next]_vars, Algoritmo = "PMCP"
             PROVE  Meta
  BY DEF SinCrear, En
<1>0. /\ cola_new \in Seq(Pids) /\ cola_ready \in Seq(Pids) /\ cola_exec \in Seq(Pids)
      /\ aMemoria \in Seq(Pedidos) /\ deMemoria \in Seq(Contestaciones)
      /\ creaciones \in [Pids -> Nat] /\ id_proceso \in Nat
      /\ pc \in [Hilos -> Etiquetas] /\ proceso \in [Planifican -> PidsONinguno]
      /\ Lugares /\ ProcesoElegido /\ ExclusionNew /\ Arranque
  BY SupuestoCotas DEF SeguridadInv, TipoInv, TypeOK, Pids
<1>a. /\ pc["despacho"] # "espera_mutex"
      /\ \A p \in Pids : Fuera(p) => creaciones[p] = 0 \/ Confirmado(p)
  BY DEF SinCrear, En
<1>i. \A p \in Pids : p \in Int
  BY SupuestoCotas DEF Pids
<1> USE <1>0 DEF Hilos, Planifican, Despachan, En, Ir, colas, memoria, Lugares
\* Memory and its confirmations stay; the thread that waits for one still waits.
<1>b. ASSUME UNCHANGED <<deMemoria, creaciones>>, pc'["despacho"] # "espera_mutex",
             \A p \in Pids : Fuera(p)' => Fuera(p),
             \A h \in Planifican : pc[h] = "espera_creacion" =>
                pc'[h] = "espera_creacion" /\ proceso'[h] = proceso[h]
      PROVE  Meta
  <2>1. \A p \in Pids : Confirmado(p) => Confirmado(p)'
    BY <1>b DEF Confirmado
  <2> HIDE DEF Fuera
  <2> QED BY <1>a, <1>b, <2>1
\* Nobody waits, before or after.
<1>c. ASSUME UNCHANGED <<cola_new, creaciones>>, Tope' = Tope, pc'["despacho"] # "espera_mutex",
             \A p \in Pids : ~Confirmado(p)
      PROVE  Meta
  BY <1>a, <1>c
<1>d. ASSUME UNCHANGED id_proceso,
             (pc'["principal"] = "planificar") = (pc["principal"] = "planificar"),
             (pc'["despacho"] = "encolar_new") = (pc["despacho"] = "encolar_new")
      PROVE  Tope' = Tope
  BY <1>d DEF Tope
<1>e. ASSUME UNCHANGED <<cola_new, deMemoria, creaciones>>, pc'["despacho"] # "espera_mutex",
             Tope' = Tope,
             \A h \in Planifican : pc[h] = "espera_creacion" =>
                pc'[h] = "espera_creacion" /\ proceso'[h] = proceso[h]
      PROVE  Meta
  <2>1. \A p \in Pids : Fuera(p)' => Fuera(p)
    BY <1>e
  <2> HIDE DEF Meta, Fuera
  <2> QED BY <1>b, <1>e, <2>1
<1> HIDE DEF Meta
<1>1. CASE Quieto
  BY <1>1, <1>a, <1>d, <1>e DEF Quieto, Rotulos
<1>2. ASSUME NEW h \in Planifican, ConsultarMemoria(h) PROVE Meta
  BY <1>2, <1>a, <1>d, <1>e DEF ConsultarMemoria
<1>3. ASSUME NEW h \in Planifican, RecibirConsulta(h) PROVE Meta
  <2>1. TrasFallo(h) => Ir(h, "siguiente") \/ Ir(h, "soltar")
    BY DEF TrasFallo
  <2>2. \A g \in Planifican : pc[g] # "espera_creacion"
    BY <1>3 DEF RecibirConsulta, ExclusionNew, SeccionNew
  <2>3. \A p \in Pids : ~Confirmado(p)
    BY <2>2 DEF Confirmado
  <2>4. Tope' = Tope
    BY <1>3, <1>d, <2>1 DEF RecibirConsulta
  <2>5. pc'["despacho"] # "espera_mutex"
    BY <1>3, <1>a, <2>1 DEF RecibirConsulta
  <2> QED BY <1>3, <1>c, <2>3, <2>4, <2>5 DEF RecibirConsulta
<1>4. ASSUME NEW h \in Planifican, RecibirCreacion(h) PROVE Meta
  <2>1. TrasFallo(h) => Ir(h, "siguiente") \/ Ir(h, "soltar")
    BY DEF TrasFallo
  <2>2. /\ pc[h] = "espera_creacion" /\ deMemoria # <<>> /\ ~ReTomaMutex(h)
        /\ UNCHANGED <<creaciones, proceso, id_proceso>>
    BY <1>4 DEF RecibirCreacion, ReTomaMutex
  <2>3. Ir(h, "publicar") \/ Ir(h, "siguiente") \/ Ir(h, "soltar")
    BY <1>4, <2>1, <2>2, Zenon DEF RecibirCreacion
  <2>4. pc'["despacho"] # "espera_mutex"
    BY <1>a, <2>3
  <2>5. Tope' = Tope
    BY <1>d, <2>2, <2>3
  <2>6. Len(aMemoria) + Len(deMemoria) = 1
    BY <2>2 DEF SeguridadInv, Conversacion, Esperando
  <2>7. Len(deMemoria) = 1 /\ Head(deMemoria) = deMemoria[1]
    <3>1. Len(deMemoria) \in Nat /\ Len(deMemoria) # 0 /\ Len(aMemoria) \in Nat
      BY <2>2, LenProperties, EmptySeq
    <3>2. Head(deMemoria) = deMemoria[1]
      BY <2>2, HeadTailProperties
    <3>3. \A a, b \in Nat : a + b = 1 /\ b # 0 => b = 1
      OBVIOUS
    <3>4. Len(deMemoria) = 1
      BY <2>6, <3>1, <3>3, Zenon
    <3> QED BY <3>2, <3>4, Zenon
  <2>8. \A g \in Planifican : pc[g] = "espera_creacion" => g = h
    BY <2>2 DEF ExclusionNew, SeccionNew
  <2>9. \A p \in Pids : Confirmado(p) => p = proceso[h] /\ RespuestaPositiva
    BY <2>7, <2>8 DEF Confirmado, RespuestaPositiva
  <2>10. CASE ~RespuestaPositiva
    BY <1>4, <1>c, <2>4, <2>5, <2>9, <2>10 DEF RecibirCreacion
  <2>11. CASE RespuestaPositiva
    <3> DEFINE p == proceso[h]
    <3>1. cola_new' = RemoveFirst(cola_new, p)
      BY <1>4, <2>2, <2>11, Zenon DEF RecibirCreacion, SacarDeNew
    <3>2. p \in Pids /\ Contains(cola_new, p) /\ SinRepetir(cola_new) /\ p < Tope
      BY <2>2 DEF ProcesoElegido, Reparto, Tratando
    <3>3. \A q : Contains(cola_new', q) <=> Contains(cola_new, q) /\ q # p
      BY <3>1, <3>2, SinUno
    <3>4. Tope \in Int
      BY DEF Tope
    <3> HIDE DEF p
    <3>5. \A q \in Pids : Fuera(q)' => Fuera(q) /\ q # p
      BY <1>i, <2>5, <3>2, <3>3, <3>4
    <3>6. \A q \in Pids : Fuera(q)' => creaciones'[q] = 0
      BY <1>a, <2>2, <2>9, <3>5 DEF p
    <3> QED BY <2>4, <3>6 DEF Meta
  <2> QED BY <2>10, <2>11
<1>5. ASSUME NEW h \in Planifican, PublicarReady(h) PROVE Meta
  BY <1>5, <1>a, <1>d, <1>e DEF PublicarReady
<1>6. ASSUME NEW h \in {"largo", "despacho"}, SiguienteDeNew(h) PROVE Meta
  BY <1>6, <1>a, <1>d, <1>e DEF SiguienteDeNew
<1>6a. CASE ReleerEstado
  BY <1>6a, <1>a, <1>d, <1>e DEF ReleerEstado
<1>7. ASSUME NEW h \in Despachan, AsignarCpu(h) PROVE Meta
  BY <1>7, <1>a, <1>d, <1>e DEF AsignarCpu, Retorno
<1>8. CASE CrearPrimero
  <2>1. /\ id_proceso' = id_proceso + 1 /\ pc["principal"] = "crear"
        /\ pc' = [pc EXCEPT !["principal"] = "planificar"] /\ pc["despacho"] # "encolar_new"
    BY <1>8 DEF CrearPrimero, Arranque
  <2>2. Tope' = Tope
    BY <2>1 DEF Tope
  <2> QED BY <1>8, <1>a, <1>e, <2>1, <2>2 DEF CrearPrimero
<1>9. CASE PlanificarPrimero
  <2>1. /\ cola_new' = Append(cola_new, proceso["principal"]) /\ pc["principal"] = "planificar"
        /\ pc' = [pc EXCEPT !["principal"] = "consultar"]
        /\ UNCHANGED <<deMemoria, creaciones, proceso, id_proceso>>
    BY <1>9 DEF PlanificarPrimero, AgregarANew
  <2>2. proceso["principal"] = 0 /\ 0 \in Pids /\ id_proceso = 1 /\ pc["despacho"] # "encolar_new"
    BY <2>1, SupuestoCotas DEF Arranque, Pids
  <2>3. Tope = 0 /\ Tope' = 1
    BY <2>1, <2>2 DEF Tope
  <2>4. \A q : Contains(cola_new', q) <=> Contains(cola_new, q) \/ q = 0
    BY <2>1, <2>2, Agregado
  <2>5. \A q \in Pids : Fuera(q)' => Fuera(q)
    BY <1>i, <2>3, <2>4
  <2> HIDE DEF Fuera
  <2> QED BY <1>a, <1>b, <2>1, <2>5
<1>10. CASE TomarNewLargo
  BY <1>10, <1>a, <1>d, <1>e DEF TomarNewLargo
<1>11. CASE RecibirSyscall
  <2>1. Tope' = Tope
    <3>1. CASE ~(pc' = [pc EXCEPT !["despacho"] = "encolar_new"])
      BY <1>11, <1>d, <3>1 DEF RecibirSyscall
    <3>2. CASE pc' = [pc EXCEPT !["despacho"] = "encolar_new"]
      <4>1. id_proceso' = id_proceso + 1 /\ pc["despacho"] = "recibir" /\ pc["principal"] # "planificar"
        BY <1>11, <3>2 DEF RecibirSyscall, Arranque
      <4> QED BY <3>2, <4>1 DEF Tope
    <3> QED BY <3>1, <3>2
  <2> QED BY <1>11, <1>a, <1>e, <2>1 DEF RecibirSyscall
<1>12. CASE EncolarEnNew
  <2> DEFINE p == proceso["despacho"]
  <2>1. /\ cola_new' = Append(cola_new, p) /\ pc["despacho"] = "encolar_new"
        /\ pc' = [pc EXCEPT !["despacho"] = "responder_ok"]
        /\ UNCHANGED <<deMemoria, creaciones, proceso, id_proceso>>
    BY <1>12 DEF EncolarEnNew, AgregarANew
  <2>2. p = id_proceso - 1 /\ p \in Pids /\ pc["principal"] # "planificar"
    BY <2>1 DEF Arranque, ProcesoElegido, Reparto
  <2>3. Tope = p /\ Tope' = p + 1
    BY <2>1, <2>2 DEF Tope
  <2>4. \A q : Contains(cola_new', q) <=> Contains(cola_new, q) \/ q = p
    BY <2>1, <2>2, Agregado
  <2>5. pc'["despacho"] # "espera_mutex"
    BY <2>1
  <2>6. \A g \in Planifican : pc[g] = "espera_creacion" =>
           pc'[g] = "espera_creacion" /\ proceso'[g] = proceso[g]
    BY <2>1
  <2> HIDE DEF p
  <2>7. \A q \in Pids : Fuera(q)' => Fuera(q)
    BY <1>i, <2>2, <2>3, <2>4
  <2> HIDE DEF Fuera
  <2> QED BY <1>b, <2>1, <2>5, <2>6, <2>7
<1>13. CASE ProcesarColaNew
  BY <1>13, <1>a, <1>d, <1>e DEF ProcesarColaNew
<1>14. CASE VencerMutex
  BY <1>14, <1>a DEF VencerMutex
<1>15. CASE DesconectarCpu
  BY <1>15, <1>a, <1>d, <1>e DEF DesconectarCpu
<1>16. CASE DesecharReady
  BY <1>16, <1>a, <1>d, <1>e DEF DesecharReady
<1>17. CASE ResponderMemoria
  <2>1. PICK ok \in Respuestas : LET pedido == Head(aMemoria) IN
          /\ deMemoria' = Append(deMemoria, [hilo |-> pedido.hilo, op |-> pedido.op, ok |-> ok])
          /\ creaciones' = IF ok /\ pedido.op = "CREAR_PROCESO"
                           THEN [creaciones EXCEPT ![pedido.pid] = @ + 1]
                           ELSE creaciones
    BY <1>17 DEF ResponderMemoria
  <2>2. aMemoria # <<>> /\ UNCHANGED <<cola_new, id_proceso, pc, proceso>>
    BY <1>17 DEF ResponderMemoria
  <2> DEFINE pedido == Head(aMemoria)
             m == [hilo |-> pedido.hilo, op |-> pedido.op, ok |-> ok]
  <2>3. Len(aMemoria) \in Nat \ {0} /\ pedido = aMemoria[1] /\ pedido \in Pedidos
    BY <2>2, HeadTailProperties, LenProperties, EmptySeq
  <2>4. PICK g \in Planifican : Esperando(g)
    BY <2>3 DEF SeguridadInv, Conversacion
  <2>5. /\ Len(aMemoria) + Len(deMemoria) = 1
        /\ 1 \in 1..Len(aMemoria) => aMemoria[1].op = Pregunta(g)
    BY <2>4 DEF SeguridadInv, Conversacion
  <2>6. Len(deMemoria) = 0 /\ pedido.op = Pregunta(g)
    BY <2>3, <2>5, LenProperties
  <2>7. m \in Contestaciones
    BY <2>3, SupuestoRespuestas DEF Contestaciones, Pedidos
  <2>8. deMemoria' = Append(deMemoria, m)
    BY <2>1
  <2>9. Len(deMemoria') = 1 /\ deMemoria'[1] = m /\ m.ok = ok
    BY <2>6, <2>7, <2>8, AppendProperties
  <2>10. \A p \in Pids : ~Confirmado(p)
    BY <2>6 DEF Confirmado
  <2>11. Tope' = Tope /\ pc'["despacho"] # "espera_mutex"
    BY <1>a, <1>d, <2>2
  <2> HIDE DEF m
  <2>12. CASE UNCHANGED creaciones
    BY <1>c, <2>2, <2>10, <2>11, <2>12
  <2>13. CASE ~UNCHANGED creaciones
    <3>1. ok /\ pedido.op = "CREAR_PROCESO" /\ creaciones' = [creaciones EXCEPT ![pedido.pid] = @ + 1]
      BY <2>1, <2>13
    <3>2. pc[g] = "espera_creacion"
      BY <2>4, <2>6, <3>1 DEF Esperando, Pregunta
    <3>3. pedido.pid = proceso[g] /\ proceso[g] \in Pids
      BY <2>3, <3>2 DEF Creado, ProcesoElegido
    <3>4. 1 \in 1..Len(deMemoria') /\ deMemoria'[1].ok
      BY <2>9, <3>1
    <3>5. Confirmado(proceso[g])'
      BY <2>2, <3>2, <3>4 DEF Confirmado
    <3>6. \A q \in Pids : q # proceso[g] => creaciones'[q] = creaciones[q]
      BY <3>1, <3>3
    <3>7. \A q \in Pids : Fuera(q)' => Fuera(q)
      BY <2>2, <2>11
    <3>8. \A q \in Pids : Fuera(q)' => creaciones'[q] = 0 \/ Confirmado(q)'
      BY <1>a, <2>2, <2>10, <3>5, <3>6, <3>7
    <3> QED BY <2>11, <3>8 DEF Meta
  <2> QED BY <2>12, <2>13
<1> HIDE DEF Hilos, Planifican, Despachan, En, Ir, colas, memoria, Lugares
<1> QED
  BY Quietud, <1>1, <1>2, <1>3, <1>4, <1>5, <1>6, <1>6a, <1>7, <1>8, <1>9, <1>10, <1>11, <1>12,
     <1>13,
     <1>14, <1>15, <1>16, <1>17
     DEF Movimiento

\* One sequence after another.
LEMMA UnaTrasOtra ==
    ASSUME NEW s \in Seq(Pids), NEW t \in Seq(Pids)
    PROVE  /\ s \o t \in Seq(Pids)
           /\ \A q : Contains(s \o t, q) <=> Contains(s, q) \/ Contains(t, q)
           /\ SinRepetir(s) /\ SinRepetir(t)
              /\ (\A q \in Pids : ~(Contains(s, q) /\ Contains(t, q)))
                 => SinRepetir(s \o t)
<1> DEFINE u == s \o t
           n == Len(s)
<1>1. /\ u \in Seq(Pids) /\ Len(u) = n + Len(t) /\ n \in Nat /\ Len(t) \in Nat
      /\ \A i \in 1..n : u[i] = s[i] /\ s[i] \in Pids
      /\ \A i \in 1..Len(t) : u[n + i] = t[i] /\ t[i] \in Pids
  <2>1. /\ u \in Seq(Pids) /\ Len(u) = n + Len(t) /\ n \in Nat /\ Len(t) \in Nat
        /\ \A i \in 1..(n + Len(t)) : u[i] = IF i <= n THEN s[i] ELSE t[i - n]
    BY ConcatProperties, LenProperties
  <2>2. (\A i \in 1..n : s[i] \in Pids) /\ (\A i \in 1..Len(t) : t[i] \in Pids)
    BY ElementOfSeq
  <2> HIDE DEF u, n
  <2>3. ASSUME NEW i \in 1..n PROVE u[i] = s[i]
    BY <2>1
  <2>4. ASSUME NEW i \in 1..Len(t) PROVE u[n + i] = t[i]
    <3>1. n + i \in 1..(n + Len(t)) /\ ~(n + i <= n) /\ (n + i) - n = i
      BY <2>1
    <3>2. u[n + i] = t[(n + i) - n]
      BY <2>1, <3>1
    <3> QED BY <3>1, <3>2
  <2> QED BY <2>1, <2>2, <2>3, <2>4
<1> HIDE DEF u
<1>2. \A i \in 1..Len(u) : i \in 1..n \/ \E j \in 1..Len(t) : i = n + j
  <2> SUFFICES ASSUME NEW i \in 1..Len(u), i \notin 1..n PROVE \E j \in 1..Len(t) : i = n + j
    OBVIOUS
  <2>1. i - n \in 1..Len(t) /\ i = n + (i - n)
    BY <1>1
  <2> QED BY <2>1
<1>3. (\A i \in 1..n : i \in 1..Len(u)) /\ (\A j \in 1..Len(t) : n + j \in 1..Len(u))
  BY <1>1
<1>4. \A q : Contains(u, q) <=> Contains(s, q) \/ Contains(t, q)
  <2>1. ASSUME NEW q, Contains(u, q) PROVE Contains(s, q) \/ Contains(t, q)
    BY <1>1, <1>2, <2>1 DEF Contains
  <2>2. ASSUME NEW q, Contains(s, q) PROVE Contains(u, q)
    BY <1>1, <1>3, <2>2 DEF Contains
  <2>3. ASSUME NEW q, Contains(t, q) PROVE Contains(u, q)
    BY <1>1, <1>3, <2>3 DEF Contains
  <2> QED BY <2>1, <2>2, <2>3
<1>5. ASSUME SinRepetir(s), SinRepetir(t), \A q \in Pids : ~(Contains(s, q) /\ Contains(t, q))
      PROVE  SinRepetir(u)
  <2>1. \A i \in 1..n, j \in 1..Len(t) : s[i] # t[j]
    BY <1>1, <1>5 DEF Contains
  <2> SUFFICES ASSUME NEW i \in 1..Len(u), NEW j \in 1..Len(u), u[i] = u[j] PROVE i = j
    BY DEF SinRepetir
  <2>2. CASE i \in 1..n /\ j \in 1..n
    BY <1>1, <1>5, <2>2 DEF SinRepetir
  <2>3. CASE \E k, l \in 1..Len(t) : i = n + k /\ j = n + l
    BY <1>1, <1>5, <2>3 DEF SinRepetir
  <2>4. CASE i \in 1..n /\ \E l \in 1..Len(t) : j = n + l
    BY <1>1, <2>1, <2>4
  <2>5. CASE j \in 1..n /\ \E k \in 1..Len(t) : i = n + k
    BY <1>1, <2>1, <2>5
  <2> QED BY <1>2, <2>2, <2>3, <2>4, <2>5
<1> QED BY <1>1, <1>4, <1>5 DEF u

\* A sequence has no repetitions when, as a function, it is injective.
LEMMA ComoFuncion ==
    ASSUME NEW s \in Seq(Pids)
    PROVE  /\ DOMAIN s = 1..Len(s)
           /\ SinRepetir(s) => IsInjective(s)
           /\ \A q : q \in Range(s) <=> Contains(s, q)
<1>1. DOMAIN s = 1..Len(s)
  BY LenProperties
<1> QED BY <1>1 DEF SinRepetir, IsInjective, Range, Contains

\* No pid has been taken, and nobody asks memory, when the threads start.
LEMMA ColasInicial == Init => Reparto /\ Completo /\ Orden /\ Creado /\ SinCrear
<1> SUFFICES ASSUME Init PROVE Reparto /\ Completo /\ Orden /\ Creado /\ SinCrear
  OBVIOUS
<1>1. /\ pc["principal"] = "crear" /\ pc["largo"] = "tomar" /\ pc["despacho"] = "aceptar"
      /\ cola_new = <<>> /\ cola_ready = <<>> /\ cola_exec = <<>> /\ id_proceso = 0
      /\ \A p \in Pids : creaciones[p] = 0
  BY DEF Init, Hilos
<1>2. \A p : ~Contains(<<>>, p)
  BY EmptySeq DEF Contains
<1>3. SinRepetir(<<>>) /\ EnOrden(<<>>)
  BY EmptySeq DEF SinRepetir, EnOrden
<1>4. Tope = 0
  BY <1>1 DEF Tope, En
<1>5. \A h \in Planifican : pc[h] \notin Tratando
  BY <1>1 DEF Planifican, Tratando
<1>6. \A p \in Pids : ~(p < 0)
  BY SupuestoCotas DEF Pids
<1>7. Reparto
  BY <1>1, <1>2, <1>3, <1>4, <1>5 DEF Reparto, En
<1>8. Completo
  BY <1>1, <1>4, <1>6 DEF Completo
<1>9. Orden
  BY <1>1, <1>2, <1>3, <1>5 DEF Orden, Precede, Planifican
<1>10. Creado
  BY <1>1, <1>2, <1>5 DEF Creado, En, Tratando
<1>11. SinCrear
  BY <1>1 DEF SinCrear, En
<1> QED BY <1>7, <1>8, <1>9, <1>10, <1>11

ColasInv == SeguridadInv /\ Reparto /\ Completo /\ Orden /\ Creado /\ SinCrear

\* The second inductive invariant, on top of the first.
LEMMA ColasSiempre == Spec => []ColasInv
<1>1. Init => Reparto /\ Completo /\ Orden /\ Creado /\ SinCrear
  BY ColasInicial
<1>2. SeguridadInv /\ SeguridadInv' /\ (Reparto /\ Completo /\ Orden /\ Creado /\ SinCrear) /\ [Next]_vars
         => (Reparto /\ Completo /\ Orden /\ Creado /\ SinCrear)'
  BY RepartoPaso, CompletoPaso, OrdenPaso, CreadoPaso, SinCrearPaso
<1>3. SeguridadInv /\ (Reparto /\ Completo /\ Orden /\ Creado /\ SinCrear) => ColasInv
  BY DEF ColasInv
<1> QED BY <1>1, <1>2, <1>3, SeguridadSiempre, PTL DEF Spec

\* No process is ever twice in the queues, disconnected CPU or not: the three
\* threads that move processes never copy one.
THEOREM NadieSeRepite == Spec => []NadieRepetido
<1>1. ColasInv => NadieRepetido
  <2> SUFFICES ASSUME ColasInv PROVE NadieRepetido
    OBVIOUS
  <2>1. cola_new \in Seq(Pids) /\ cola_ready \in Seq(Pids) /\ cola_exec \in Seq(Pids) /\ Reparto
    BY DEF ColasInv, SeguridadInv, TipoInv, TypeOK
  <2>2. /\ SinRepetir(cola_exec \o cola_ready) /\ cola_exec \o cola_ready \in Seq(Pids)
        /\ \A q : Contains(cola_exec \o cola_ready, q) <=>
                     Contains(cola_exec, q) \/ Contains(cola_ready, q)
    BY <2>1, UnaTrasOtra DEF Reparto
  <2>3. /\ cola_exec \o cola_ready \o cola_new \in Seq(Pids)
        /\ SinRepetir(cola_exec \o cola_ready \o cola_new)
    BY <2>1, <2>2, UnaTrasOtra DEF Reparto
  <2> QED BY <2>3, ComoFuncion DEF NadieRepetido
<1> QED BY <1>1, ColasSiempre, PTL

\* While the CPU does not disconnect, every process created and filed is in one
\* queue and only in one, whatever memory answers and however the threads interleave.
THEOREM UnaSolaCola == ASSUME ~CpuPuedeCaer PROVE Spec => []EnUnaSolaCola
<1>1. ColasInv => EnUnaSolaCola
  <2> SUFFICES ASSUME ColasInv PROVE EnUnaSolaCola
    OBVIOUS
  <2> DEFINE todas == cola_exec \o cola_ready \o cola_new
             porArchivar == {p \in {proceso["principal"]} : En("principal", "planificar")}
                            \cup {p \in {proceso["despacho"]} : En("despacho", "encolar_new")}
  <2>1. /\ cola_new \in Seq(Pids) /\ cola_ready \in Seq(Pids) /\ cola_exec \in Seq(Pids)
        /\ Reparto /\ Completo /\ Arranque /\ id_proceso \in Pids
    BY DEF ColasInv, SeguridadInv, TipoInv, TypeOK
  <2>2. /\ SinRepetir(cola_exec \o cola_ready) /\ cola_exec \o cola_ready \in Seq(Pids)
        /\ \A q : Contains(cola_exec \o cola_ready, q) <=>
                     Contains(cola_exec, q) \/ Contains(cola_ready, q)
    BY <2>1, UnaTrasOtra DEF Reparto
  <2>3. /\ todas \in Seq(Pids) /\ SinRepetir(todas)
        /\ \A q : Contains(todas, q) <=>
                     Contains(cola_exec, q) \/ Contains(cola_ready, q) \/ Contains(cola_new, q)
    BY <2>1, <2>2, UnaTrasOtra DEF Reparto
  <2>4. IsInjective(todas) /\ \A q : q \in Range(todas) <=> Contains(todas, q)
    BY <2>3, ComoFuncion
  <2>5. \A q : Contains(todas, q) => q \in Pids
    <3>1. \A i \in 1..Len(todas) : todas[i] \in Pids
      BY <2>3, ElementOfSeq
    <3> HIDE DEF todas
    <3> QED BY <3>1 DEF Contains
  <2>6. \A q \in Pids : Contains(todas, q) <=> q < Tope
    BY <2>1, <2>3 DEF Reparto, Completo
  <2>7. 0..(id_proceso - 1) \ porArchivar = {q \in Pids : q < Tope}
    <3>1. CASE En("principal", "planificar")
      <4>1. id_proceso = 1 /\ proceso["principal"] = 0 /\ ~En("despacho", "encolar_new")
        BY <2>1, <3>1 DEF Arranque, En
      <4>2. Tope = 0 /\ porArchivar = {0}
        BY <3>1, <4>1 DEF Tope
      <4> QED BY <4>1, <4>2, SupuestoCotas DEF Pids
    <3>2. CASE ~En("principal", "planificar") /\ En("despacho", "encolar_new")
      <4>1. id_proceso > 0 /\ proceso["despacho"] = id_proceso - 1
        BY <2>1, <3>2 DEF Reparto
      <4>2. Tope = id_proceso - 1 /\ porArchivar = {id_proceso - 1}
        BY <3>2, <4>1 DEF Tope
      <4> HIDE DEF porArchivar
      <4> QED BY <2>1, <4>1, <4>2, SupuestoCotas DEF Pids
    <3>3. CASE ~En("principal", "planificar") /\ ~En("despacho", "encolar_new")
      <4>1. Tope = id_proceso /\ porArchivar = {}
        BY <3>3 DEF Tope
      <4> HIDE DEF porArchivar
      <4> QED BY <2>1, <4>1, SupuestoCotas DEF Pids
    <3> QED BY <3>1, <3>2, <3>3
  <2> HIDE DEF todas, porArchivar
  <2>8. Range(todas) = 0..(id_proceso - 1) \ porArchivar
    BY <2>4, <2>5, <2>6, <2>7
  <2> QED BY <2>4, <2>8 DEF EnUnaSolaCola, todas, porArchivar
<1> QED BY <1>1, ColasSiempre, PTL

\* Under FIFO, processes leave NEW and READY in the order of their pids, for any
\* number of them: the syscall thread files the next pid before any other can.
THEOREM EnOrdenDeLlegada == ASSUME Algoritmo = "FIFO" PROVE Spec => []OrdenDeLlegada
<1>1. ColasInv => OrdenDeLlegada
  <2> SUFFICES ASSUME ColasInv PROVE OrdenDeLlegada
    OBVIOUS
  <2>1. cola_new \in Seq(Pids) /\ cola_ready \in Seq(Pids) /\ cola_exec \in Seq(Pids) /\ Orden
    BY DEF ColasInv, SeguridadInv, TipoInv, TypeOK
  <2>2. ASSUME NEW s \in Seq(Pids), EnOrden(s) PROVE Creciente(s)
    BY <2>2, ComoFuncion DEF EnOrden, Creciente
  <2>3. ASSUME NEW s \in Seq(Pids), NEW t \in Seq(Pids), Precede(s, t) PROVE Antes(s, t)
    <3>1. (\A i \in 1..Len(s) : s[i] \in Pids) /\ (\A i \in 1..Len(t) : t[i] \in Pids)
      BY ElementOfSeq
    <3> QED BY <2>3, <3>1, ComoFuncion DEF Precede, Antes, Contains
  <2> QED BY <2>1, <2>2, <2>3 DEF Orden, OrdenDeLlegada
<1> QED BY <1>1, ColasSiempre, PTL

\* Memory has confirmed every process in READY and every process dispatched.
THEOREM EjecutaLoCreado == Spec => []EjecutaCreadoEnMemoria
<1>1. ColasInv => EjecutaCreadoEnMemoria
  <2> SUFFICES ASSUME ColasInv PROVE EjecutaCreadoEnMemoria
    OBVIOUS
  <2>1. cola_ready \in Seq(Pids) /\ cola_exec \in Seq(Pids) /\ Creado
    BY DEF ColasInv, SeguridadInv, TipoInv, TypeOK
  <2>2. ASSUME NEW s \in Seq(Pids), NEW p \in Range(s) PROVE p \in Pids /\ Contains(s, p)
    <3>1. \A i \in 1..Len(s) : s[i] \in Pids
      BY ElementOfSeq
    <3> QED BY <3>1, ComoFuncion DEF Contains
  <2> QED BY <2>1, <2>2 DEF Creado, EjecutaCreadoEnMemoria
<1> QED BY <1>1, ColasSiempre, PTL

\* Under PMCP, whoever lets go of cola_new leaves in it no process that memory has
\* created.
THEOREM LoCreadoPasaAReady == ASSUME Algoritmo = "PMCP" PROVE Spec => []CreadoPasaAReady
<1>1. ColasInv => CreadoPasaAReady
  <2> SUFFICES ASSUME ColasInv, mutex_cola_new = Nadie, NEW i \in DOMAIN cola_new
               PROVE  creaciones[cola_new[i]] = 0
    BY DEF CreadoPasaAReady
  <2>1. cola_new \in Seq(Pids) /\ ExclusionNew /\ SinCrear
    BY DEF ColasInv, SeguridadInv, TipoInv, TypeOK
  <2>2. i \in 1..Len(cola_new) /\ cola_new[i] \in Pids
    BY <2>1, ComoFuncion, ElementOfSeq
  <2>3. \A h \in Planifican : pc[h] # "espera_creacion"
    BY <2>1 DEF ExclusionNew, SeccionNew, Planifican, Nadie
  <2>4. ~Confirmado(cola_new[i])
    BY <2>3 DEF Confirmado, En
  <2>5. Contains(cola_new, cola_new[i])
    BY <2>2 DEF Contains
  <2> QED BY <2>1, <2>2, <2>4, <2>5 DEF SinCrear
<1> QED BY <1>1, ColasSiempre, PTL

\* What moves a process or frees the CPU.
LEMMA SoloEstasMueven ==
    [Next]_vars /\ ~UNCHANGED <<cola_new, cola_ready, cola_exec, proceso_en_exec>> =>
        \/ \E h \in Planifican : RecibirCreacion(h)
        \/ \E h \in Despachan : AsignarCpu(h)
        \/ PlanificarPrimero \/ EncolarEnNew \/ LiberarCpu \/ DesecharReady
  BY DEF Next, Principal, Largo, Corto, DespachoInterno, Entorno, PasarAReady, CortoPlazo,
     Despachan, Planifican, vars, colas, cpu,
     ConsultarMemoria, RecibirConsulta, PublicarReady, SoltarNew,
     ReleerEstado, SiguienteDeNew, EsperarReadyInterno, BuscarCpuLibre, AnotarPidActual,
     VencerMutex, CrearPrimero, PublicarOtra, TomarNewLargo,
     EsperarReadyExterno, ContarCpus, VerPausa, ReponerToken, AceptarCpu,
     EsperarArchivo, RecibirSyscall, LeerPidActual, BuscarEnNew,
     BuscarEnSuspReady, LeerPidAFinalizar, ContarReady, CorregirSemaforo,
     PausarPlanificador, ResponderSyscall, ProcesarColaNew, ReanudarPlanificador, DesconectarCpu,
     ResponderMemoria

\* The state of a process is the queue it is in.
LEMMA EstadoPorCola ==
    ASSUME TypeOK, Reparto, NEW p \in Pids
    PROVE  /\ Estado(p) = "NEW"   <=> Contains(cola_new, p)
           /\ Estado(p) = "READY" <=> Contains(cola_ready, p)
           /\ Estado(p) = "EXEC"  <=> Contains(cola_exec, p)
           /\ Estado(p) \in {"NEW", "READY", "EXEC", "SIN_CREAR"}
<1>1. /\ p \in Range(cola_new)   <=> Contains(cola_new, p)
      /\ p \in Range(cola_ready) <=> Contains(cola_ready, p)
      /\ p \in Range(cola_exec)  <=> Contains(cola_exec, p)
  BY ComoFuncion DEF TypeOK
<1> QED BY <1>1 DEF Estado, Reparto

\* A step of the kernel is a step of the life cycle of a process, or changes
\* nothing in it.
LEMMA CicloPaso ==
    ASSUME ~CpuPuedeCaer, ColasInv, ColasInv', [Next]_vars
    PROVE  [Ciclo!Next]_(Ciclo!vars)
<1> DEFINE estado == [p \in Pids |-> Estado(p)]
           n(p) == Contains(cola_new, p)
           r(p) == Contains(cola_ready, p)
           e(p) == Contains(cola_exec, p)
<1>0. /\ cola_new \in Seq(Pids) /\ cola_ready \in Seq(Pids) /\ cola_exec \in Seq(Pids)
      /\ TypeOK /\ ProcesoElegido /\ Arranque /\ CpuInv /\ Reparto /\ Completo
      /\ TypeOK' /\ Reparto'
  BY DEF ColasInv, SeguridadInv, TipoInv, TypeOK
<1>1. \A p \in Pids : /\ estado[p] = "NEW" <=> n(p)
                      /\ estado[p] = "READY" <=> r(p)
                      /\ estado[p] = "EXEC" <=> e(p)
                      /\ estado[p] \in {"NEW", "READY", "EXEC", "SIN_CREAR"}
  BY <1>0, EstadoPorCola
<1>2. \A p \in Pids : /\ estado'[p] = "NEW" <=> n(p)'
                      /\ estado'[p] = "READY" <=> r(p)'
                      /\ estado'[p] = "EXEC" <=> e(p)'
                      /\ estado'[p] \in {"NEW", "READY", "EXEC", "SIN_CREAR"}
  <2> SUFFICES ASSUME NEW p \in Pids
               PROVE  /\ estado'[p] = "NEW" <=> n(p)'
                      /\ estado'[p] = "READY" <=> r(p)'
                      /\ estado'[p] = "EXEC" <=> e(p)'
                      /\ estado'[p] \in {"NEW", "READY", "EXEC", "SIN_CREAR"}
    OBVIOUS
  <2>1. estado'[p] = Estado(p)'
    OBVIOUS
  <2>2. /\ p \in Range(cola_new')   <=> Contains(cola_new', p)
        /\ p \in Range(cola_ready') <=> Contains(cola_ready', p)
        /\ p \in Range(cola_exec')  <=> Contains(cola_exec', p)
    BY <1>0, ComoFuncion DEF TypeOK
  <2>3. /\ ~(n(p)' /\ r(p)') /\ ~(n(p)' /\ e(p)') /\ ~(r(p)' /\ e(p)')
    BY <1>0 DEF Reparto
  <2> QED BY <2>1, <2>2, <2>3 DEF Estado
\* A process that goes from one state to another, the rest staying where they were.
<1>3. ASSUME NEW p \in Pids, NEW a \in {"NEW", "READY", "EXEC"}, estado'[p] = a,
             \A q \in Pids : q # p => (n(q)' <=> n(q)) /\ (r(q)' <=> r(q)) /\ (e(q)' <=> e(q))
      PROVE  estado' = [estado EXCEPT ![p] = a]
  <2>1. \A q \in Pids : q # p => estado'[q] = estado[q]
    BY <1>1, <1>2, <1>3
  <2>2. estado = [q \in Pids |-> estado[q]] /\ estado' = [q \in Pids |-> estado'[q]]
    OBVIOUS
  <2> HIDE DEF estado
  <2> QED BY <1>3, <2>1, <2>2
<1>4. CASE UNCHANGED <<cola_new, cola_ready, cola_exec, proceso_en_exec>>
  BY <1>4 DEF Ciclo!vars, Estado
<1> HIDE DEF estado
<1>5. ASSUME NEW h \in Planifican, RecibirCreacion(h),
             ~UNCHANGED <<cola_new, cola_ready, cola_exec, proceso_en_exec>>
      PROVE  Ciclo!Next
  <2> DEFINE p == proceso[h]
  <2>1. /\ cola_new' = RemoveFirst(cola_new, p) /\ cola_ready' = Append(cola_ready, p)
        /\ pc[h] = "espera_creacion" /\ UNCHANGED <<cola_exec, proceso_en_exec>>
    BY <1>5 DEF RecibirCreacion, SacarDeNew, cpu, En
  <2>2. p \in Pids /\ n(p) /\ SinRepetir(cola_new)
    BY <1>0, <2>1 DEF ProcesoElegido, Reparto, Tratando
  <2>3. \A q : n(q)' <=> n(q) /\ q # p
    BY <1>0, <2>1, <2>2, SinUno
  <2>4. \A q : r(q)' <=> r(q) \/ q = p
    BY <1>0, <2>1, <2>2, Agregado
  <2> HIDE DEF p, n, r, e
  <2>5. \A q : e(q)' <=> e(q)
    BY <2>1 DEF e
  <2>6. estado[p] = "NEW" /\ estado'[p] = "READY"
    BY <1>1, <1>2, <2>2, <2>4
  <2>7. estado' = [estado EXCEPT ![p] = "READY"]
    BY <1>3, <2>2, <2>3, <2>4, <2>5, <2>6
  <2>8. Ciclo!Admitir(p)
    BY <2>1, <2>6, <2>7 DEF Ciclo!Admitir, Ciclo!Pasar, estado
  <2> QED BY <2>2, <2>8 DEF Ciclo!Next
<1>6. ASSUME NEW h \in Despachan, AsignarCpu(h),
             ~UNCHANGED <<cola_new, cola_ready, cola_exec, proceso_en_exec>>
      PROVE  Ciclo!Next
  <2> DEFINE p == Head(cola_ready)
  <2>1. /\ cola_ready # <<>> /\ cola_ready' = Tail(cola_ready) /\ cola_exec' = Append(cola_exec, p)
        /\ proceso_en_exec' = p /\ En(h, "asignar") /\ UNCHANGED cola_new
    BY <1>6 DEF AsignarCpu, SacarDeReady
  <2>2. SinRepetir(cola_ready)
    BY <1>0 DEF Reparto
  <2>3. /\ p \in Pids /\ r(p)
        /\ \A q : r(q)' => r(q)
        /\ \A q : r(q) => r(q)' \/ q = p
    BY <1>0, <2>1, <2>2, SinElPrimero
  <2>4. \A q : e(q)' <=> e(q) \/ q = p
    BY <1>0, <2>1, <2>3, Agregado
  <2>5. proceso_en_exec = NINGUNO
    <3>1. cpu_conectada /\ esta_libre
      BY <1>0, <2>1 DEF CpuInv
    <3>2. (cpu_conectada /\ ~esta_libre) = (proceso_en_exec # NINGUNO)
      BY <1>0 DEF CpuInv
    <3> QED BY <3>1, <3>2, Zenon
  <2> HIDE DEF p, n, r, e
  <2>6. \A q : n(q)' <=> n(q)
    BY <2>1 DEF n
  <2>7. estado[p] = "READY" /\ estado'[p] = "EXEC"
    BY <1>1, <1>2, <2>3, <2>4
  <2>8. estado' = [estado EXCEPT ![p] = "EXEC"]
    BY <1>3, <2>3, <2>4, <2>6, <2>7
  <2>9. Ciclo!Despachar(p)
    BY <2>1, <2>5, <2>7, <2>8 DEF Ciclo!Despachar, Ciclo!Pasar, estado
  <2> QED BY <2>3, <2>9 DEF Ciclo!Next
<1>7. ASSUME NEW p \in Pids, cola_new' = Append(cola_new, p), ~n(p), ~r(p), ~e(p),
             UNCHANGED <<cola_ready, cola_exec, proceso_en_exec>>
      PROVE  Ciclo!Next
  <2>1. \A q : n(q)' <=> n(q) \/ q = p
    BY <1>0, <1>7, Agregado
  <2> HIDE DEF n, r, e
  <2>2. \A q : (r(q)' <=> r(q)) /\ (e(q)' <=> e(q))
    BY <1>7 DEF r, e
  <2>3. estado[p] = "SIN_CREAR" /\ estado'[p] = "NEW"
    BY <1>1, <1>2, <1>7, <2>1
  <2>4. estado' = [estado EXCEPT ![p] = "NEW"]
    BY <1>3, <2>1, <2>2, <2>3
  <2>5. Ciclo!Crear(p)
    BY <1>7, <2>3, <2>4 DEF Ciclo!Crear, Ciclo!Pasar, estado
  <2> QED BY <2>5 DEF Ciclo!Next
<1>8. ASSUME PlanificarPrimero PROVE Ciclo!Next
  <2>1. /\ cola_new' = Append(cola_new, proceso["principal"]) /\ En("principal", "planificar")
        /\ UNCHANGED <<cola_ready, cola_exec, proceso_en_exec>>
    BY <1>8 DEF PlanificarPrimero, AgregarANew, cpu
  <2>2. proceso["principal"] \in Pids /\ cola_new = <<>> /\ cola_ready = <<>> /\ cola_exec = <<>>
    BY <1>0, <2>1, SupuestoCotas DEF Arranque, Pids
  <2>3. \A q : ~Contains(<<>>, q)
    BY EmptySeq DEF Contains
  <2> QED BY <1>7, <2>1, <2>2, <2>3
<1>9. ASSUME EncolarEnNew PROVE Ciclo!Next
  <2>1. /\ cola_new' = Append(cola_new, proceso["despacho"]) /\ En("despacho", "encolar_new")
        /\ UNCHANGED <<cola_ready, cola_exec, proceso_en_exec>>
    BY <1>9 DEF EncolarEnNew, AgregarANew, cpu
  <2>2. /\ proceso["despacho"] \in Pids /\ proceso["despacho"] = id_proceso - 1 /\ id_proceso \in Int
        /\ Tope = id_proceso - 1
    BY <1>0, <2>1, SupuestoCotas DEF Planifican, ProcesoElegido, Reparto, TypeOK, Tope, En, Pids
  <2>3. ~(proceso["despacho"] < Tope)
    BY <2>2
  <2> QED BY <1>0, <1>7, <2>1, <2>2, <2>3 DEF Reparto
<1>10. ASSUME LiberarCpu, ~UNCHANGED <<cola_new, cola_ready, cola_exec, proceso_en_exec>>
       PROVE  Ciclo!Next
  <2>1. /\ UNCHANGED <<cola_new, cola_ready, cola_exec>>
        /\ proceso_en_exec # NINGUNO /\ proceso_en_exec' = NINGUNO
    BY <1>10 DEF LiberarCpu, colas
  <2>2. estado' = estado
    BY <2>1 DEF estado, Estado
  <2> QED BY <2>1, <2>2 DEF Ciclo!Next, Ciclo!Liberar, estado
<1>11. ASSUME DesecharReady PROVE FALSE
  BY <1>0, <1>11 DEF DesecharReady, Completo, En
<1>12. ~UNCHANGED <<cola_new, cola_ready, cola_exec, proceso_en_exec>> => Ciclo!Next
  BY SoloEstasMueven, <1>5, <1>6, <1>8, <1>9, <1>10, <1>11
<1> QED BY <1>4, <1>12

\* While the CPU does not disconnect, the kernel implements the life cycle: each
\* process is created once, enters READY once and gets the CPU once, when nobody
\* has it.
THEOREM ImplementaCicloDeVida == ASSUME ~CpuPuedeCaer PROVE Spec => CumpleCicloDeVida
<1>1. Init => Ciclo!Init
  <2> SUFFICES ASSUME Init PROVE Ciclo!Init
    OBVIOUS
  <2>1. cola_new = <<>> /\ cola_ready = <<>> /\ cola_exec = <<>> /\ proceso_en_exec = NINGUNO
    BY DEF Init
  <2>2. \A p : p \notin Range(<<>>)
    BY EmptySeq DEF Range
  <2> QED BY <2>1, <2>2 DEF Ciclo!Init, Estado
<1>2. ColasInv /\ ColasInv' /\ [Next]_vars => [Ciclo!Next]_(Ciclo!vars)
  BY CicloPaso
<1> QED BY <1>1, <1>2, ColasSiempre, PTL DEF Spec, CumpleCicloDeVida, Ciclo!Spec
=============================================================================
