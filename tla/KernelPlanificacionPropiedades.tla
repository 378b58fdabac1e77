------------------ MODULE KernelPlanificacionPropiedades ------------------
(***************************************************************************)
(* What KernelPlanificacion must satisfy: a type invariant, the safety     *)
(* invariants, action properties, liveness, the refinement of CicloDeVida, *)
(* and the statements of the source that the code does not keep.           *)
(***************************************************************************)
EXTENDS KernelPlanificacion

Etiquetas == {"crear", "planificar", "consultar", "espera_consulta", "espera_creacion",
              "espera_mutex", "publicar", "publicar_otra", "releer_estado", "siguiente",
              "soltar", "fin", "tomar", "sem_interno", "buscar_cpu", "asignar", "anotar_pid",
              "sem_externo", "contar_cpus", "ver_pausa", "reponer", "aceptar", "esperar_archivo",
              "recibir", "encolar_new", "leer_pid", "metricas", "metricas_susp", "finalizar",
              "liberar_cpu", "contar_ready", "corregir_sem", "pausar", "responder_ok",
              "responder_error", "cola_new", "reanudar", "desechar"}
PidsONinguno == Pids \cup {NINGUNO}
Operaciones  == {"CONSULTAR_ESPACIO", "CREAR_PROCESO"}
Pedidos      == [hilo : Planifican, op : Operaciones, pid : PidsONinguno]
Contestaciones == [hilo : Planifican, op : Operaciones, ok : BOOLEAN]

\* Every variable keeps its type; in particular no sem_wait takes the
\* semaphore below zero.
TypeOK ==
    /\ cola_new \in Seq(Pids) /\ cola_ready \in Seq(Pids) /\ cola_exec \in Seq(Pids)
    /\ hay_procesos_ready \in Nat
    /\ planificador_pausado \in BOOLEAN
    /\ cpu_conectada \in BOOLEAN /\ esta_libre \in BOOLEAN
    /\ proceso_en_exec \in PidsONinguno /\ pid_proceso_actual \in PidsONinguno
    /\ mutex_cola_new \in Planifican \cup {Nadie} /\ mutex_cpus \in Despachan \cup {Nadie}
    /\ aMemoria \in Seq(Pedidos)
    /\ deMemoria \in Seq(Contestaciones)
    /\ creaciones \in [Pids -> Nat]
    /\ id_proceso \in Pids
    /\ archivo_listo \in BOOLEAN
    /\ syscalls_restantes \in Nat
    /\ pc \in [Hilos -> Etiquetas]
    /\ proceso \in [Planifican -> PidsONinguno]
    /\ indice \in Nat \ {0}
    /\ syscall \in Syscalls
    /\ pid_leido \in PidsONinguno /\ ready_contados \in Nat

----------------------------------------------------------------------------
(* Safety.                                                                  *)

Creciente(s)   == \A i, j \in DOMAIN s : i < j => s[i] < s[j]
Antes(s, t)    == \A i \in DOMAIN s, j \in DOMAIN t : s[i] < t[j]
Ajenas(s, t)   == \A i \in DOMAIN s, j \in DOMAIN t : s[i] # t[j]

\* Under FIFO processes are dispatched in the order they were created and none
\* overtakes another, although three threads move them and the syscall thread
\* files new ones between two rounds of the long-term scheduler.
OrdenDeLlegada ==
    /\ Creciente(cola_new) /\ Creciente(cola_ready) /\ Creciente(cola_exec)
    /\ Antes(cola_exec, cola_ready) /\ Antes(cola_ready, cola_new)
    /\ Antes(cola_exec, cola_new)

\* A process created and not being filed at this moment is in exactly one queue,
\* exactly once: no admission, dispatch or replanning after an EXIT loses it or
\* copies it (not so once the CPU has disconnected: see NadieRepetido).
EnUnaSolaCola ==
    LET todas == cola_exec \o cola_ready \o cola_new
        porArchivar == {p \in {proceso["principal"]} : En("principal", "planificar")}
                       \cup {p \in {proceso["despacho"]} : En("despacho", "encolar_new")}
    IN  /\ IsInjective(todas)
        /\ Range(todas) = 0..(id_proceso - 1) \ porArchivar

\* The threads share fd_memoria and read bare booleans from it: a thread that
\* waits for an answer can only read the answer to its own last request.
RespuestaPropia ==
    \A h \in Planifican :
        LET op == IF En(h, "espera_consulta") THEN "CONSULTAR_ESPACIO" ELSE "CREAR_PROCESO" IN
        (En(h, "espera_consulta") \/ En(h, "espera_creacion")) =>
            /\ Len(aMemoria) + Len(deMemoria) = 1
            /\ \A i \in DOMAIN deMemoria : deMemoria[i].hilo = h /\ deMemoria[i].op = op

\* No process is in READY or has been dispatched before memory confirmed it.
EjecutaCreadoEnMemoria ==
    \A p \in Range(cola_ready) \cup Range(cola_exec) : creaciones[p] >= 1

\* What buscar_cpu_libre, finalizar_proceso_actual and the syscall handlers take
\* for granted, whichever of two threads dispatched last: the CPU is busy exactly
\* when it names a process, and that process is the last one dispatched and the one
\* pid_proceso_actual names.  It speaks only of when mutex_cpus is free: in the middle
\* of a dispatch pid_proceso_actual is still the previous process's, and
\* obtener_pid_proceso_actual, which takes no lock, can read it.
CpuCoherente ==
    mutex_cpus = Nadie =>
        /\ (cpu_conectada /\ ~esta_libre) = (proceso_en_exec # NINGUNO)
        /\ proceso_en_exec # NINGUNO =>
              proceso_en_exec = Last(cola_exec) /\ pid_proceso_actual = Last(cola_exec)

\* Between two attempts, no process waits in NEW that memory has already created:
\* what a scheduler learns from memory it acts on before it lets go of cola_new.
\* True of intentar_pasar_a_ready_interno, hence under PMCP.  Under FIFO it is a
\* statement the code does not keep: intentar_pasar_a_ready logs "Inicialización
\* exitosa, moviendo a READY", cannot take the mutex its caller holds, and leaves
\* the process in NEW, to be created once more.
CreadoPasaAReady ==
    mutex_cola_new = Nadie => \A i \in DOMAIN cola_new : creaciones[cola_new[i]] = 0

\* No process is twice in the queues, even while a dispatch thread without CPU
\* discards READY processes.
NadieRepetido == IsInjective(cola_exec \o cola_ready \o cola_new)

\* A PCB is sent only to a CPU that nobody occupies, whichever of the two
\* dispatching threads sends it.
UnProcesoPorCpu ==
    [][cola_exec' # cola_exec => proceso_en_exec = NINGUNO /\ cpu_conectada]_vars

----------------------------------------------------------------------------
(* Refinement: the queues as the state of each process.                     *)

Estado(p) == CASE p \in Range(cola_new)   -> "NEW"
               [] p \in Range(cola_ready) -> "READY"
               [] p \in Range(cola_exec)  -> "EXEC"
               [] OTHER                   -> "SIN_CREAR"

Ciclo == INSTANCE CicloDeVida WITH
             Procesos <- Pids,
             estado   <- [p \in Pids |-> Estado(p)],
             enCpu    <- proceso_en_exec

\* Every step of the kernel is a step of the abstract life cycle or changes
\* nothing in it.
CumpleCicloDeVida == Ciclo!Spec

----------------------------------------------------------------------------
(* Liveness.                                                                *)

\* mutex_cola_new is held while two answers of memory are awaited, and by
\* despacho while it times out on itself; it is released every time.
ColaNewSeLibera == \A h \in Planifican :
    mutex_cola_new = h ~> mutex_cola_new # h

\* A process stays in NEW for ever only if memory keeps refusing: one that a round
\* does not try, because the loop over cola_new skipped it (ReleerEstado), is tried
\* in a later one.
NewAvanza ==
    \/ []<>(deMemoria # <<>> /\ ~Head(deMemoria).ok)
    \/ \A p \in Pids : p \in Range(cola_new) ~> p \notin Range(cola_new)

----------------------------------------------------------------------------
(* Statements of the source that the code does not keep.                    *)

\* main.c: "Variable para pausar temporalmente el planificador automático".
\* While it is paused only the EXIT's own replanning dispatches.
PausaDetieneAlCorto ==
    [][planificador_pausado /\ cola_exec' # cola_exec => En("despacho", "asignar")]_vars

\* The same comment, "temporalmente": a pause ends.
PausaTermina == planificador_pausado ~> ~planificador_pausado
=============================================================================
