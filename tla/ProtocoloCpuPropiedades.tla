---------------------- MODULE ProtocoloCpuPropiedades ----------------------
(***************************************************************************)
(* What the CPU's exchanges with memory and the kernel promise.            *)
(***************************************************************************)
EXTENDS ProtocoloCpu

Codigos == {"ARCHIVO_LISTO", "SOLICITUD_INSTRUCCION", "PAQUETE", "EXIT", "SYSCALL",
            "PCB_DEVUELTO", "PCB_A_EJECUTAR", "RESPUESTA", "tam", "datos"}
Palabras == [es : Codigos, n : Nat]
Etiquetas(h) ==
    CASE h = "principal" -> {"esperar_kernel", "esperar_memoria", "terminar", "recibir_pcb",
                             "leer_pcb", "ciclo", "esperar_archivo", "pedir", "pedir_tam",
                             "esperar_respuesta", "leer_instruccion", "esperar_syscall",
                             "caida"}
      [] h = "despacho"  -> {"conectar", "esperar", "enviar", "confirmar"}
      [] h = "interrupcion" -> {"conectar", "esperar"}
      [] h = "conexion"  -> {"sin_crear", "conectar", "esperar_archivo", "fin"}
      [] h = "memoria"   -> {"aceptar", "esperar_archivo", "recibir", "cerrar", "cerrada"}
      [] h = "kernel"    -> {"aceptar", "recibir", "paquete", "responder", "responder_exit",
                             "tam", "tam_exit", "replanificar", "pcb_tam", "pcb_datos", "detenido"}
      [] OTHER           -> {"esperar", "pcb_tam", "pcb_datos"}

\* The variables keep to their sets; but for sem_cpu_kernel_hs, which two threads
\* post, the semaphores are binary.
TypeOK ==
    /\ archivo \in Programas /\ puntual \in BOOLEAN
    /\ linea \in 0..Len(archivo) /\ ejecutadas \in 0..Len(archivo)
    /\ pc \in [Hilos -> UNION {Etiquetas(h) : h \in Hilos}]
    /\ \A h \in Hilos : pc[h] \in Etiquetas(h)
    /\ sem \in [Semaforos -> 0..2]
    /\ \A s \in Semaforos \ {"sem_cpu_kernel_hs"} : sem[s] <= 1
    /\ conectado \in [{"despacho", "interrupcion"} -> BOOLEAN]
    /\ fd_abierto \in BOOLEAN /\ syscall_en_proceso \in BOOLEAN /\ esta_libre \in BOOLEAN
    /\ aMemoria \in Seq(Palabras) /\ deMemoria \in Seq(Palabras)
    /\ aKernel \in Seq(Palabras) /\ deKernel \in Seq(Palabras)
    /\ instruccion_pendiente \in [linea : 0..Len(archivo), procesada : BOOLEAN]
    /\ syscall_a_procesar \in 0..Len(archivo)
    /\ pcb_en_ejecucion \in 0..MAX_DESPACHOS /\ despachos \in 0..MAX_DESPACHOS
    /\ instrucciones_ejecutadas \in 0..MAX_INSTRUCCIONES
    /\ confirmadas \in Nat
    /\ atendidas \in Seq(1..Len(archivo))

\* instruccion_pendiente passes from hand to hand: principal waits while it is
\* announced, sent or unconfirmed, and despacho works on the line principal waits
\* for.  So it is never overwritten, and no instruction is asked for meanwhile.
ManoAMano ==
    LET enDespacho == pc["despacho"] \in {"enviar", "confirmar"} IN
    /\ syscall_en_proceso <=> En("principal", "esperar_syscall")
    /\ syscall_en_proceso <=> (\/ HayToken("sem_instruccion_lista") \/ enDespacho
                               \/ HayToken("sem_instruccion_procesada"))
    /\ ~(HayToken("sem_instruccion_lista") /\ enDespacho)
    /\ HayToken("sem_instruccion_procesada") => ~HayToken("sem_instruccion_lista") /\ ~enDespacho
    /\ syscall_en_proceso =>
          /\ instruccion_pendiente.linea = ejecutadas
          /\ instruccion_pendiente.procesada <=> HayToken("sem_instruccion_procesada")
    /\ enDespacho => syscall_a_procesar = instruccion_pendiente.linea

\* How far the CPU runs ahead of the kernel.  One word is enough for it to go on,
\* and the kernel sends two per answer and one PCB more per process dispatched.
AdelantoAcotado ==
    pcb_en_ejecucion # NINGUNO =>
        confirmadas <= 2 * Len(atendidas) + (TAM_PCB + 2) * (despachos - 1)

\* While despacho waits for the kernel's answer there is something for it to read,
\* or the kernel has the syscall and will write: no word it waits for was taken by
\* principal, which reads the same socket, and no syscall goes unanswered.
RespuestaEnCamino ==
    En("despacho", "confirmar") =>
        \/ deKernel # <<>> \/ aKernel # <<>>
        \/ pc["kernel"] \in {"paquete", "responder", "responder_exit"}

\* With pauses that are long enough, principal never waits for the answer to the
\* request it has just made: the size of ARCHIVO_LISTO, taken for an answer, made it
\* ask once more than it has read, so one answer more is always there, though memory
\* takes the size of each request for another one and drops what has arrived.  It is
\* said of programs whose WRITEs send nothing, because they end the CPU: where cpu.config
\* has a page size, a WRITE receives from the same descriptor.
LeeSinEsperar ==
    puntual /\ En("principal", "esperar_respuesta") => deMemoria # <<>> \/ Cortada

\* When the file of a process has ended the CPU returns its PCB and waits for a new
\* process (iniciar_cpu: "Esperando nuevo proceso del dispatch...", "4. Enviar PCB de
\* vuelta al kernel").
EsperaOtroProceso ==
    (pcb_en_ejecucion # NINGUNO /\ ~fd_abierto) ~> En("principal", "recibir_pcb")

\* The lines run in order and the kernel processes each syscall once, although the
\* CPU asks for lines it then ignores the size of, memory drops what it finds after
\* a request, and the CPU goes on without waiting.  Where cpu.config has a page size
\* this is said of programs without WRITE: obtener_direccion_fisica would take an
\* answer that is waiting there for the frame it has asked for.
Entrega == INSTANCE EntregaDeSyscalls WITH programa <- archivo
CumpleEntregaDeSyscalls == Entrega!Spec

\* A syscall ends for the CPU, unless the kernel is waiting for a READY process.
SyscallSeConfirma == syscall_en_proceso ~> (~syscall_en_proceso \/ En("kernel", "detenido"))

\* With pauses that are long enough, a CPU that has a process runs all the lines of
\* its file and closes, if none of them is blank nor a WRITE.  With a blank line it
\* runs the ones before it: memory takes it for the end (entregar_linea).  A WRITE
\* before that is the last line it runs.  Excepted is a kernel that is waiting for a
\* READY process.
Primera(f, tipos) ==
    LET son == {i \in 1..Len(f) : f[i] \in tipos}
    IN  IF son = {} THEN Len(f) + 1 ELSE CHOOSE i \in son : \A k \in son : i <= k
CorrioTodo  == ejecutadas = Primera(archivo, {"vacia"}) - 1 /\ ~fd_abierto
CayoEnWrite == ejecutadas = Primera(archivo, {"WRITE"}) /\ En("principal", "caida")
ProgramaTermina ==
    (puntual /\ pcb_en_ejecucion # NINGUNO) ~>
        (\/ IF Primera(archivo, {"WRITE"}) < Primera(archivo, {"vacia"})
            THEN CayoEnWrite ELSE CorrioTodo
         \/ En("kernel", "detenido"))

\* The CPU goes on after a syscall once the kernel has processed it.
SigueAtendida ==
    [][ En("principal", "esperar_syscall") /\ ~En("principal", "esperar_syscall")'
        => \E i \in DOMAIN atendidas : atendidas[i] = instruccion_pendiente.linea ]_vars
=============================================================================
