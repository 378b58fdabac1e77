------------------------ MODULE KernelPlanificacion ------------------------
(***************************************************************************)
(* The scheduling core of the kernel: the four threads that move a process *)
(* from NEW to READY and from READY to the CPU.                            *)
(*                                                                         *)
(*   principal  main(): sends the first program to memory and runs         *)
(*              planificar_con_plp on the first process, once              *)
(*   largo      planificar_procesos_en_new: the long-term scheduler        *)
(*   corto      planificador_corto_plazo_hilo: the short-term scheduler    *)
(*   despacho   atender_cpu_dispatch: accepts the CPU, serves its          *)
(*              syscalls and, after an EXIT, replans by itself             *)
(*                                                                         *)
(* Memory is the other end of the one socket the threads share; the CPU is *)
(* an environment that may send any syscall once it has received a PCB.    *)
(* mutex_cola_ready, mutex_cola_exec and mutex_planificador_pausado are    *)
(* held for straight-line list or flag accesses only, so what they protect *)
(* is one step.  mutex_cola_susp_ready is taken right after mutex_cola_new *)
(* and released right after it, so holding one stands for holding both;    *)
(* cola_susp_ready itself is empty in every execution (README).            *)
(***************************************************************************)
EXTENDS Integers, Sequences, SequencesExt

CONSTANTS
    Algoritmo,       \* ALGORITMO_INGRESO_A_READY of kernel.config: "FIFO" or "PMCP"
    MaxProcesos,     \* bound: processes ever created (pids are below it)
    MaxSyscalls,     \* bound: syscalls the CPU sends
    Respuestas,      \* the answers memory may give to a request
    CpuPuedeCaer     \* whether the CPU may close its dispatch connection

ASSUME SupuestoAlgoritmo   == Algoritmo \in {"FIFO", "PMCP"}
ASSUME SupuestoCotas       == MaxProcesos \in Nat \ {0} /\ MaxSyscalls \in Nat
ASSUME SupuestoRespuestas  == Respuestas \subseteq BOOLEAN
ASSUME SupuestoCaida       == CpuPuedeCaer \in BOOLEAN

Hilos       == {"principal", "largo", "corto", "despacho"}
Planifican  == {"principal", "largo", "despacho"}   \* move processes out of NEW
Despachan   == {"corto", "despacho"}                \* call planificador_corto_plazo
Nadie       == "nadie"
NINGUNO     == -1                                   \* pid_proceso_actual before any dispatch
Pids        == 0..MaxProcesos

\* What a syscall can be, told apart by the path procesar_syscall gives it.
Syscalls == {"INIT_PROC",            \* well formed, the file exists
             "IO_SIN_DISPOSITIVO",   \* well formed IO: no device has a name, none is found
             "EXIT",
             "RECHAZADA"}            \* malformed, unknown, or DUMP_MEMORY (README)

VARIABLES
    cola_new, cola_ready, cola_exec,   \* the queues, as sequences of pids
    hay_procesos_ready,                \* value of the semaphore
    planificador_pausado,
    cpu_conectada,                     \* lista_cpus_conectadas is not empty
    esta_libre, proceso_en_exec,       \* the fields of its only element
    pid_proceso_actual,
    mutex_cola_new, mutex_cpus,        \* owner of each mutex, or Nadie
    aMemoria, deMemoria,               \* requests and answers on fd_memoria
    creaciones,                        \* per pid, CREAR_PROCESO memory confirmed
    id_proceso,                        \* next pid
    archivo_listo,                     \* sem_archivo_listo has been posted
    syscalls_restantes,                \* bound on the environment
    pc,                                \* where each thread is
    proceso,                           \* the process each thread works on
    indice,                            \* i of the PMCP loop of largo
    syscall, pid_leido, ready_contados \* locals of the dispatch thread

colas   == <<cola_new, cola_ready, cola_exec>>
cpu     == <<cpu_conectada, esta_libre, proceso_en_exec, pid_proceso_actual>>
memoria == <<aMemoria, deMemoria, creaciones>>
locales == <<syscall, pid_leido, ready_contados>>
vars    == <<colas, hay_procesos_ready, planificador_pausado, cpu,
             mutex_cola_new, mutex_cpus, memoria, id_proceso, archivo_listo,
             syscalls_restantes, pc, proceso, indice, locales>>

Ir(h, etiqueta) == pc' = [pc EXCEPT ![h] = etiqueta]
En(h, etiqueta) == pc[h] = etiqueta

Init ==
    /\ cola_new = <<>> /\ cola_ready = <<>> /\ cola_exec = <<>>
    /\ hay_procesos_ready = 0
    /\ planificador_pausado = FALSE
    /\ cpu_conectada = FALSE /\ esta_libre = FALSE
    /\ proceso_en_exec = NINGUNO /\ pid_proceso_actual = NINGUNO
    /\ mutex_cola_new = Nadie /\ mutex_cpus = Nadie
    /\ aMemoria = <<>> /\ deMemoria = <<>>
    /\ creaciones = [p \in Pids |-> 0]
    /\ id_proceso = 0
    /\ archivo_listo = FALSE
    /\ syscalls_restantes = MaxSyscalls
    /\ pc = [h \in Hilos |-> CASE h = "principal" -> "crear"
                               [] h = "largo"     -> "tomar"
                               [] h = "corto"     -> "sem_externo"
                               [] h = "despacho"  -> "aceptar"]
    /\ proceso = [h \in Planifican |-> NINGUNO]
    /\ indice = 1
    /\ syscall = "RECHAZADA" /\ pid_leido = NINGUNO /\ ready_contados = 0

----------------------------------------------------------------------------
(* From NEW to READY: intentar_pasar_a_ready_interno and its four callers.  *)
(* Every caller holds mutex_cola_new during both exchanges with memory.     *)

\* pthread_mutex_lock(&mutex_cola_new) returns (mutant: it is never locked).
MutexNewSinTomar == TRUE
MutexNewLibre    == mutex_cola_new = Nadie

\* pthread_mutex_lock(&mutex_cpus) returns (mutant: it is never locked).
MutexCpusSinTomar == TRUE
MutexCpusLibre    == mutex_cpus = Nadie

\* sem_wait(&hay_procesos_ready) returns (mutant: off by one).
HayTokenDeMas == hay_procesos_ready >= 0
HayToken      == hay_procesos_ready > 0

\* list_add on cola_new (mutant: at the front).
AgregarANewPrimero(p) == <<p>> \o cola_new
AgregarANew(p)        == Append(cola_new, p)

\* list_remove_element on cola_new (mutant: forgotten).
SacarDeNewOlvidado(p) == cola_new
SacarDeNew(p)         == RemoveFirst(cola_new, p)

\* list_remove(cola_ready, 0) (mutant: list_get in its place).
SacarDeReadyMirando == cola_ready
SacarDeReady        == Tail(cola_ready)

\* The boolean at the head of the socket (mutant: the answer is ignored).
RespuestaIgnorada == TRUE
RespuestaPositiva == Head(deMemoria).ok

\* list_is_empty(cola_new) is false (mutant: the last process is skipped).
HayMasDeUnoEnNew == Len(cola_new) > 1
HayEnNew         == cola_new # <<>>

\* Where a thread goes when the process it tried stays in NEW (mutant: an early
\* return that keeps the mutex).
TrasFalloSinSoltar(h) ==
    /\ indice' = indice
    /\ Ir(h, CASE h = "principal" -> "fin" [] h = "largo" -> "tomar" [] OTHER -> "reanudar")
TrasFallo(h) ==
    IF h = "largo" /\ Algoritmo = "PMCP"
    THEN indice' = indice + 1 /\ Ir(h, "siguiente")
    ELSE indice' = indice     /\ Ir(h, "soltar")

\* consultar_memoria_para_proceso, up to the send.
ConsultarMemoria(h) ==
    /\ En(h, "consultar")
    /\ aMemoria' = Append(aMemoria, [hilo |-> h, op |-> "CONSULTAR_ESPACIO", pid |-> proceso[h]])
    /\ Ir(h, "espera_consulta")
    /\ UNCHANGED <<colas, hay_procesos_ready, planificador_pausado, cpu, mutex_cola_new,
                   mutex_cpus, deMemoria, creaciones, id_proceso, archivo_listo,
                   syscalls_restantes, proceso, indice, locales>>

\* The recv of the space query; with space, inicializar_proceso_en_memoria sends.
RecibirConsulta(h) ==
    /\ En(h, "espera_consulta")
    /\ deMemoria # <<>>
    /\ deMemoria' = Tail(deMemoria)
    /\ IF RespuestaPositiva
       THEN /\ aMemoria' = Append(aMemoria, [hilo |-> h, op |-> "CREAR_PROCESO", pid |-> proceso[h]])
            /\ Ir(h, "espera_creacion")
            /\ UNCHANGED indice
       ELSE /\ TrasFallo(h)
            /\ UNCHANGED aMemoria
    /\ UNCHANGED <<colas, hay_procesos_ready, planificador_pausado, cpu, mutex_cola_new,
                   mutex_cpus, creaciones, id_proceso, archivo_listo, syscalls_restantes,
                   proceso, locales>>

\* procesar_cola_new_tras_liberacion calls, under FIFO, the variant that takes
\* mutex_cola_new once more; the other callers use intentar_pasar_a_ready_interno
\* (mutant: PMCP calls that variant too).
ReTomaMutexSiempre(h) == h = "despacho"
ReTomaMutex(h) == h = "despacho" /\ Algoritmo = "FIFO"

\* The recv of the creation; confirmed, the process leaves NEW for READY.
RecibirCreacion(h) ==
    /\ En(h, "espera_creacion")
    /\ deMemoria # <<>>
    /\ deMemoria' = Tail(deMemoria)
    /\ \/ /\ RespuestaPositiva /\ ~ReTomaMutex(h)
          /\ cola_new' = SacarDeNew(proceso[h])
          /\ cola_ready' = Append(cola_ready, proceso[h])
          /\ Ir(h, "publicar")
          /\ UNCHANGED indice
       \/ /\ RespuestaPositiva /\ ReTomaMutex(h)
          /\ Ir(h, "espera_mutex")
          /\ UNCHANGED <<cola_new, cola_ready, indice>>
       \/ /\ ~RespuestaPositiva
          /\ TrasFallo(h)
          /\ UNCHANGED <<cola_new, cola_ready>>
    /\ UNCHANGED <<cola_exec, hay_procesos_ready, planificador_pausado, cpu, mutex_cola_new,
                   mutex_cpus, aMemoria, creaciones, id_proceso, archivo_listo,
                   syscalls_restantes, proceso, locales>>

\* trylock fails, timedlock waits two seconds: a mutex its own caller holds is
\* never granted, so the process stays in NEW and false is returned.
VencerMutex ==
    /\ En("despacho", "espera_mutex")
    /\ mutex_cola_new # Nadie
    /\ Ir("despacho", "soltar")
    /\ UNCHANGED <<colas, hay_procesos_ready, planificador_pausado, cpu, mutex_cola_new,
                   mutex_cpus, memoria, id_proceso, archivo_listo, syscalls_restantes,
                   proceso, indice, locales>>

\* sem_post(&hay_procesos_ready) at the end of a successful admission.
PublicarReady(h) ==
    /\ En(h, "publicar")
    /\ hay_procesos_ready' = hay_procesos_ready + 1
    /\ Ir(h, CASE h = "principal"                        -> "publicar_otra"
               [] h = "largo" /\ Algoritmo = "FIFO"      -> "soltar"
               [] h = "largo" /\ Algoritmo = "PMCP"      -> "releer_estado"
               [] OTHER                                  -> "siguiente")
    /\ UNCHANGED <<colas, planificador_pausado, cpu, mutex_cola_new, mutex_cpus, memoria,
                   id_proceso, archivo_listo, syscalls_restantes, proceso, indice, locales>>

\* largo under PMCP: i-- (undone by the i++ of the for) only if proceso->estado
\* still reads READY after the sem_post, and nothing protects that read.  A thread
\* that dispatched the process in between has set it to EXEC: i moves on although
\* cola_new shrank, and the process behind is not tried in this round.  Under FIFO
\* the same read only chooses between two ways to unlock and sleep.
SigueEnReady(p) == p \notin Range(cola_exec)
ReleerEstado ==
    /\ En("largo", "releer_estado")
    /\ indice' = IF SigueEnReady(proceso["largo"]) THEN indice ELSE indice + 1
    /\ Ir("largo", "siguiente")
    /\ UNCHANGED <<colas, hay_procesos_ready, planificador_pausado, cpu, mutex_cola_new,
                   mutex_cpus, memoria, id_proceso, archivo_listo, syscalls_restantes,
                   proceso, locales>>

\* The loop heads that pick the next process of cola_new: the for of largo under
\* PMCP, and the while of intentar_procesar_cola_new_pmcp for despacho.
SiguienteDeNew(h) ==
    LET i == IF h = "largo" THEN indice ELSE 1 IN
    /\ En(h, "siguiente")
    /\ IF i <= Len(cola_new)
       THEN proceso' = [proceso EXCEPT ![h] = cola_new[i]] /\ Ir(h, "consultar")
       ELSE UNCHANGED proceso /\ Ir(h, "soltar")
    /\ UNCHANGED <<colas, hay_procesos_ready, planificador_pausado, cpu, mutex_cola_new,
                   mutex_cpus, memoria, id_proceso, archivo_listo, syscalls_restantes,
                   indice, locales>>

\* pthread_mutex_unlock of mutex_cola_new (and of mutex_cola_susp_ready).
SoltarNew(h) ==
    /\ En(h, "soltar")
    /\ mutex_cola_new' = Nadie
    /\ Ir(h, CASE h = "principal" -> "fin"
               [] h = "largo"     -> "tomar"
               [] h = "despacho"  -> "reanudar")
    /\ UNCHANGED <<colas, hay_procesos_ready, planificador_pausado, cpu, mutex_cpus, memoria,
                   id_proceso, archivo_listo, syscalls_restantes, proceso, indice, locales>>

----------------------------------------------------------------------------
(* principal: main() from crear_proceso on, and planificar_con_plp.         *)

\* crear_proceso and enviar_proceso: the first pid, and sem_archivo_listo if
\* memory confirms it loaded the program.
CrearPrimero ==
    /\ En("principal", "crear")
    /\ proceso' = [proceso EXCEPT !["principal"] = id_proceso]
    /\ id_proceso' = id_proceso + 1
    /\ archivo_listo' \in Respuestas
    /\ Ir("principal", "planificar")
    /\ UNCHANGED <<colas, hay_procesos_ready, planificador_pausado, cpu, mutex_cola_new,
                   mutex_cpus, memoria, syscalls_restantes, indice, locales>>

\* planificar_con_plp, case 1: cola_new is empty because no CPU has run yet.
PlanificarPrimero ==
    /\ En("principal", "planificar")
    /\ MutexNewLibre
    /\ mutex_cola_new' = "principal"
    /\ cola_new' = AgregarANew(proceso["principal"])
    /\ Ir("principal", "consultar")
    /\ UNCHANGED <<cola_ready, cola_exec, hay_procesos_ready, planificador_pausado, cpu,
                   mutex_cpus, memoria, id_proceso, archivo_listo, syscalls_restantes,
                   proceso, indice, locales>>

\* The second sem_post, "ejecutar planificador de corto plazo".
PublicarOtra ==
    /\ En("principal", "publicar_otra")
    /\ hay_procesos_ready' = hay_procesos_ready + 1
    /\ Ir("principal", "soltar")
    /\ UNCHANGED <<colas, planificador_pausado, cpu, mutex_cola_new, mutex_cpus, memoria,
                   id_proceso, archivo_listo, syscalls_restantes, proceso, indice, locales>>

----------------------------------------------------------------------------
(* largo: one round of planificar_procesos_en_new.  A round that finds NEW  *)
(* empty changes nothing; plani_lp is INICIADO before NEW gets its first    *)
(* process.                                                                 *)

TomarNewLargo ==
    /\ En("largo", "tomar")
    /\ MutexNewLibre
    /\ HayEnNew
    /\ mutex_cola_new' = "largo"
    /\ indice' = 1
    /\ proceso' = [proceso EXCEPT !["largo"] = Head(cola_new)]
    /\ Ir("largo", "consultar")
    /\ UNCHANGED <<colas, hay_procesos_ready, planificador_pausado, cpu, mutex_cpus, memoria,
                   id_proceso, archivo_listo, syscalls_restantes, locales>>

----------------------------------------------------------------------------
(* planificador_corto_plazo(), called by corto and by despacho.             *)

\* sem_wait(&hay_procesos_ready) inside planificador_corto_plazo.
EsperarReadyInterno(h) ==
    /\ En(h, "sem_interno")
    /\ HayToken
    /\ hay_procesos_ready' = hay_procesos_ready - 1
    /\ Ir(h, "buscar_cpu")
    /\ UNCHANGED <<colas, planificador_pausado, cpu, mutex_cola_new, mutex_cpus, memoria,
                   id_proceso, archivo_listo, syscalls_restantes, proceso, indice, locales>>

\* Where planificador_corto_plazo returns to.
Retorno(h) == IF h = "corto" THEN "sem_externo" ELSE "cola_new"

\* Lock mutex_cpus and buscar_cpu_libre; without a free CPU the token is
\* returned to the semaphore and the mutex released.
BuscarCpuLibre(h) ==
    /\ En(h, "buscar_cpu")
    /\ MutexCpusLibre
    /\ IF cpu_conectada /\ esta_libre
       THEN /\ mutex_cpus' = h
            /\ Ir(h, "asignar")
            /\ UNCHANGED hay_procesos_ready
       ELSE /\ hay_procesos_ready' = hay_procesos_ready + 1
            /\ Ir(h, Retorno(h))
            /\ UNCHANGED mutex_cpus
    /\ UNCHANGED <<colas, planificador_pausado, cpu, mutex_cola_new, memoria, id_proceso,
                   archivo_listo, syscalls_restantes, proceso, indice, locales>>

\* sacar_proceso_de_ready, the CPU is taken, the PCB is sent.  With READY empty
\* the token is lost.
AsignarCpu(h) ==
    /\ En(h, "asignar")
    /\ \/ /\ cola_ready # <<>>
          /\ cola_ready' = SacarDeReady
          /\ cola_exec' = Append(cola_exec, Head(cola_ready))
          /\ esta_libre' = FALSE
          /\ proceso_en_exec' = Head(cola_ready)
          /\ Ir(h, "anotar_pid")
          /\ UNCHANGED mutex_cpus
       \/ /\ cola_ready = <<>>
          /\ mutex_cpus' = Nadie
          /\ Ir(h, Retorno(h))
          /\ UNCHANGED <<cola_ready, cola_exec, esta_libre, proceso_en_exec>>
    /\ UNCHANGED <<cola_new, hay_procesos_ready, planificador_pausado, cpu_conectada,
                   pid_proceso_actual, mutex_cola_new, memoria, id_proceso, archivo_listo,
                   syscalls_restantes, proceso, indice, locales>>

\* pid_proceso_actual = pcb->pid, after the PCB has left; unlock mutex_cpus.
AnotarPidActual(h) ==
    /\ En(h, "anotar_pid")
    /\ pid_proceso_actual' = proceso_en_exec
    /\ mutex_cpus' = Nadie
    /\ Ir(h, Retorno(h))
    /\ UNCHANGED <<colas, hay_procesos_ready, planificador_pausado, cpu_conectada, esta_libre,
                   proceso_en_exec, mutex_cola_new, memoria, id_proceso, archivo_listo,
                   syscalls_restantes, proceso, indice, locales>>

----------------------------------------------------------------------------
(* corto: planificador_corto_plazo_hilo.                                    *)

\* The sem_wait of the thread itself; planificador_corto_plazo waits again.
EsperarReadyExterno ==
    /\ En("corto", "sem_externo")
    /\ HayToken
    /\ hay_procesos_ready' = hay_procesos_ready - 1
    /\ Ir("corto", "contar_cpus")
    /\ UNCHANGED <<colas, planificador_pausado, cpu, mutex_cola_new, mutex_cpus, memoria,
                   id_proceso, archivo_listo, syscalls_restantes, proceso, indice, locales>>

\* list_size(lista_cpus_conectadas) under mutex_cpus, for the log only.
ContarCpus ==
    /\ En("corto", "contar_cpus")
    /\ MutexCpusLibre
    /\ Ir("corto", "ver_pausa")
    /\ UNCHANGED <<colas, hay_procesos_ready, planificador_pausado, cpu, mutex_cola_new,
                   mutex_cpus, memoria, id_proceso, archivo_listo, syscalls_restantes,
                   proceso, indice, locales>>

\* The copy of planificador_pausado decides; it is not read again.
VerPausa ==
    /\ En("corto", "ver_pausa")
    /\ Ir("corto", IF planificador_pausado THEN "reponer" ELSE "sem_interno")
    /\ UNCHANGED <<colas, hay_procesos_ready, planificador_pausado, cpu, mutex_cola_new,
                   mutex_cpus, memoria, id_proceso, archivo_listo, syscalls_restantes,
                   proceso, indice, locales>>

\* Paused: sleep 10 ms and give the token back.
ReponerToken ==
    /\ En("corto", "reponer")
    /\ hay_procesos_ready' = hay_procesos_ready + 1
    /\ Ir("corto", "sem_externo")
    /\ UNCHANGED <<colas, planificador_pausado, cpu, mutex_cola_new, mutex_cpus, memoria,
                   id_proceso, archivo_listo, syscalls_restantes, proceso, indice, locales>>

----------------------------------------------------------------------------
(* despacho: atender_cpu_dispatch.                                          *)

\* accept of the only CPU, registered free.
AceptarCpu ==
    /\ En("despacho", "aceptar")
    /\ MutexCpusLibre
    /\ cpu_conectada' = TRUE
    /\ esta_libre' = TRUE
    /\ Ir("despacho", "esperar_archivo")
    /\ UNCHANGED <<colas, hay_procesos_ready, planificador_pausado, proceso_en_exec,
                   pid_proceso_actual, mutex_cola_new, mutex_cpus, memoria, id_proceso,
                   archivo_listo, syscalls_restantes, proceso, indice, locales>>

\* sem_wait(&sem_archivo_listo).
EsperarArchivo ==
    /\ En("despacho", "esperar_archivo")
    /\ archivo_listo
    /\ archivo_listo' = FALSE
    /\ Ir("despacho", "recibir")
    /\ UNCHANGED <<colas, hay_procesos_ready, planificador_pausado, cpu, mutex_cola_new,
                   mutex_cpus, memoria, id_proceso, syscalls_restantes, proceso, indice,
                   locales>>

\* recibir_operacion returns a SYSCALL: the CPU runs a program, so it has been
\* sent a PCB.  INIT_PROC enters crear_proceso, which takes the next pid.
RecibirSyscall ==
    /\ En("despacho", "recibir")
    /\ cola_exec # <<>>
    /\ syscalls_restantes > 0
    /\ syscalls_restantes' = syscalls_restantes - 1
    /\ \E s \in Syscalls :
          /\ syscall' = s
          /\ \/ /\ s = "INIT_PROC" /\ id_proceso < MaxProcesos
                /\ proceso' = [proceso EXCEPT !["despacho"] = id_proceso]
                /\ id_proceso' = id_proceso + 1
                /\ Ir("despacho", "encolar_new")
             \/ /\ s \in {"EXIT", "IO_SIN_DISPOSITIVO"}
                /\ Ir("despacho", "leer_pid")
                /\ UNCHANGED <<proceso, id_proceso>>
             \/ /\ s = "RECHAZADA"
                /\ Ir("despacho", "responder_error")
                /\ UNCHANGED <<proceso, id_proceso>>
    /\ UNCHANGED <<colas, hay_procesos_ready, planificador_pausado, cpu, mutex_cola_new,
                   mutex_cpus, memoria, archivo_listo, indice, pid_leido, ready_contados>>

\* procesar_init_proc_syscall: lock, list_add at the end, unlock.
EncolarEnNew ==
    /\ En("despacho", "encolar_new")
    /\ MutexNewLibre
    /\ cola_new' = AgregarANew(proceso["despacho"])
    /\ Ir("despacho", "responder_ok")
    /\ UNCHANGED <<cola_ready, cola_exec, hay_procesos_ready, planificador_pausado, cpu,
                   mutex_cola_new, mutex_cpus, memoria, id_proceso, archivo_listo,
                   syscalls_restantes, proceso, indice, locales>>

\* The check of pid_proceso_actual that opens procesar_exit_syscall and
\* procesar_io_syscall.
LeerPidActual ==
    /\ En("despacho", "leer_pid")
    /\ Ir("despacho", CASE pid_proceso_actual = NINGUNO -> "responder_error"
                        [] pid_proceso_actual # NINGUNO /\ syscall = "EXIT" -> "metricas"
                        [] OTHER -> "finalizar")
    /\ UNCHANGED <<colas, hay_procesos_ready, planificador_pausado, cpu, mutex_cola_new,
                   mutex_cpus, memoria, id_proceso, archivo_listo, syscalls_restantes,
                   proceso, indice, locales>>

\* log_metricas_estado: buscar_proceso_por_pid locks cola_new, finds nothing
\* there or in EXEC, and locks cola_susp_ready last.
BuscarEnNew ==
    /\ En("despacho", "metricas")
    /\ MutexNewLibre
    /\ Ir("despacho", "metricas_susp")
    /\ UNCHANGED <<colas, hay_procesos_ready, planificador_pausado, cpu, mutex_cola_new,
                   mutex_cpus, memoria, id_proceso, archivo_listo, syscalls_restantes,
                   proceso, indice, locales>>

BuscarEnSuspReady ==
    /\ En("despacho", "metricas_susp")
    /\ MutexNewLibre
    /\ Ir("despacho", "finalizar")
    /\ UNCHANGED <<colas, hay_procesos_ready, planificador_pausado, cpu, mutex_cola_new,
                   mutex_cpus, memoria, id_proceso, archivo_listo, syscalls_restantes,
                   proceso, indice, locales>>

\* finalizar_proceso_actual reads pid_proceso_actual without a lock.  Its walk of
\* cola_exec compares the first word of a t_proceso_kernel, the pointer codigo, with
\* the pid: nothing is removed.
LeerPidAFinalizar ==
    /\ En("despacho", "finalizar")
    /\ pid_leido' = pid_proceso_actual
    /\ Ir("despacho", "liberar_cpu")
    /\ UNCHANGED <<colas, hay_procesos_ready, planificador_pausado, cpu, mutex_cola_new,
                   mutex_cpus, memoria, id_proceso, archivo_listo, syscalls_restantes,
                   proceso, indice, syscall, ready_contados>>

\* Under mutex_cpus, the CPU that runs pid_leido, if any, becomes free.  An IO
\* without device then fails; an EXIT goes on.
LiberarCpu ==
    /\ En("despacho", "liberar_cpu")
    /\ MutexCpusLibre
    /\ IF proceso_en_exec # NINGUNO /\ proceso_en_exec = pid_leido
       THEN esta_libre' = TRUE /\ proceso_en_exec' = NINGUNO
       ELSE UNCHANGED <<esta_libre, proceso_en_exec>>
    /\ Ir("despacho", IF syscall = "EXIT" THEN "contar_ready" ELSE "responder_error")
    /\ UNCHANGED <<colas, hay_procesos_ready, planificador_pausado, cpu_conectada,
                   pid_proceso_actual, mutex_cola_new, mutex_cpus, memoria, id_proceso,
                   archivo_listo, syscalls_restantes, proceso, indice, locales>>

\* procesos_en_ready = list_size(cola_ready).
ContarReady ==
    /\ En("despacho", "contar_ready")
    /\ ready_contados' = Len(cola_ready)
    /\ Ir("despacho", "corregir_sem")
    /\ UNCHANGED <<colas, hay_procesos_ready, planificador_pausado, cpu, mutex_cola_new,
                   mutex_cpus, memoria, id_proceso, archivo_listo, syscalls_restantes,
                   proceso, indice, syscall, pid_leido>>

\* With the semaphore at 0, one sem_post per process counted.
CorregirSemaforo ==
    /\ En("despacho", "corregir_sem")
    /\ hay_procesos_ready' = IF hay_procesos_ready = 0 THEN ready_contados
                                                       ELSE hay_procesos_ready
    /\ Ir("despacho", "pausar")
    /\ UNCHANGED <<colas, planificador_pausado, cpu, mutex_cola_new, mutex_cpus, memoria,
                   id_proceso, archivo_listo, syscalls_restantes, proceso, indice, locales>>

\* A successful EXIT pauses the automatic scheduler.
PausarPlanificador ==
    /\ En("despacho", "pausar")
    /\ planificador_pausado' = TRUE
    /\ Ir("despacho", "responder_ok")
    /\ UNCHANGED <<colas, hay_procesos_ready, cpu, mutex_cola_new, mutex_cpus, memoria,
                   id_proceso, archivo_listo, syscalls_restantes, proceso, indice, locales>>

\* The answer to the CPU.  After that of a successful EXIT the thread replans.
ResponderSyscall ==
    /\ \/ En("despacho", "responder_ok")
          /\ Ir("despacho", IF syscall = "EXIT" THEN "sem_interno" ELSE "recibir")
       \/ En("despacho", "responder_error") /\ Ir("despacho", "recibir")
    /\ UNCHANGED <<colas, hay_procesos_ready, planificador_pausado, cpu, mutex_cola_new,
                   mutex_cpus, memoria, id_proceso, archivo_listo, syscalls_restantes,
                   proceso, indice, locales>>

\* replanificar_tras_devolucion("EXIT"), second half:
\* procesar_cola_new_tras_liberacion takes mutex_cola_new.
ProcesarColaNew ==
    /\ En("despacho", "cola_new")
    /\ MutexNewLibre
    /\ IF cola_new = <<>>
       THEN Ir("despacho", "reanudar") /\ UNCHANGED <<mutex_cola_new, proceso>>
       ELSE /\ mutex_cola_new' = "despacho"
            /\ proceso' = [proceso EXCEPT !["despacho"] = Head(cola_new)]
            /\ Ir("despacho", "consultar")
    /\ UNCHANGED <<colas, hay_procesos_ready, planificador_pausado, cpu, mutex_cpus, memoria,
                   id_proceso, archivo_listo, syscalls_restantes, indice, locales>>

ReanudarPlanificador ==
    /\ En("despacho", "reanudar")
    /\ planificador_pausado' = FALSE
    /\ Ir("despacho", "recibir")
    /\ UNCHANGED <<colas, hay_procesos_ready, cpu, mutex_cola_new, mutex_cpus, memoria,
                   id_proceso, archivo_listo, syscalls_restantes, proceso, indice, locales>>

\* recibir_operacion returns -1: the case enters a loop it never leaves.
DesconectarCpu ==
    /\ CpuPuedeCaer
    /\ En("despacho", "recibir")
    /\ Ir("despacho", "desechar")
    /\ UNCHANGED <<colas, hay_procesos_ready, planificador_pausado, cpu, mutex_cola_new,
                   mutex_cpus, memoria, id_proceso, archivo_listo, syscalls_restantes,
                   proceso, indice, locales>>

\* That loop: wait for READY, take its first process, dispatch it nowhere.
DesecharReady ==
    /\ En("despacho", "desechar")
    /\ HayToken
    /\ hay_procesos_ready' = hay_procesos_ready - 1
    /\ cola_ready' = IF cola_ready = <<>> THEN <<>> ELSE SacarDeReady
    /\ UNCHANGED <<cola_new, cola_exec, planificador_pausado, cpu, mutex_cola_new, mutex_cpus,
                   memoria, id_proceso, archivo_listo, syscalls_restantes, pc, proceso,
                   indice, locales>>

----------------------------------------------------------------------------
(* The memory module at the other end: one boolean per request, in order.   *)

ResponderMemoria ==
    /\ aMemoria # <<>>
    /\ \E ok \in Respuestas :
          LET pedido == Head(aMemoria) IN
          /\ deMemoria' = Append(deMemoria, [hilo |-> pedido.hilo, op |-> pedido.op, ok |-> ok])
          /\ creaciones' = IF ok /\ pedido.op = "CREAR_PROCESO"
                           THEN [creaciones EXCEPT ![pedido.pid] = @ + 1]
                           ELSE creaciones
    /\ aMemoria' = Tail(aMemoria)
    /\ UNCHANGED <<colas, hay_procesos_ready, planificador_pausado, cpu, mutex_cola_new,
                   mutex_cpus, id_proceso, archivo_listo, syscalls_restantes, pc, proceso,
                   indice, locales>>

----------------------------------------------------------------------------
PasarAReady(h) == \/ ConsultarMemoria(h) \/ RecibirConsulta(h) \/ RecibirCreacion(h)
                  \/ PublicarReady(h) \/ SoltarNew(h)

CortoPlazo(h) == \/ EsperarReadyInterno(h) \/ BuscarCpuLibre(h)
                 \/ AsignarCpu(h) \/ AnotarPidActual(h)

Principal == CrearPrimero \/ PlanificarPrimero \/ PasarAReady("principal") \/ PublicarOtra

Largo == \/ TomarNewLargo \/ PasarAReady("largo") \/ ReleerEstado
         \/ SiguienteDeNew("largo")

Corto == EsperarReadyExterno \/ ContarCpus \/ VerPausa \/ ReponerToken \/ CortoPlazo("corto")

DespachoInterno ==
    \/ AceptarCpu \/ EsperarArchivo \/ EncolarEnNew \/ LeerPidActual \/ BuscarEnNew
    \/ BuscarEnSuspReady \/ LeerPidAFinalizar \/ LiberarCpu \/ ContarReady
    \/ CorregirSemaforo \/ PausarPlanificador \/ ResponderSyscall \/ CortoPlazo("despacho")
    \/ ProcesarColaNew \/ PasarAReady("despacho") \/ VencerMutex
    \/ SiguienteDeNew("despacho") \/ ReanudarPlanificador \/ DesecharReady

Entorno == RecibirSyscall \/ DesconectarCpu

Next == Principal \/ Largo \/ Corto \/ DespachoInterno \/ Entorno \/ ResponderMemoria

Spec == Init /\ [][Next]_vars

\* The threads and memory are never stopped; what the CPU sends is not owed.
Equidad == /\ WF_vars(Principal) /\ WF_vars(Largo) /\ WF_vars(Corto)
           /\ WF_vars(DespachoInterno) /\ WF_vars(ResponderMemoria)

SpecJusta == Spec /\ Equidad
=============================================================================
