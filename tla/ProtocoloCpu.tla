---------------------------- MODULE ProtocoloCpu ----------------------------
(***************************************************************************)
(* The instruction cycle of the CPU and the words it exchanges with memory *)
(* and with the kernel's dispatch thread.                                  *)
(*                                                                         *)
(*   principal     main of cpu.c: recibir_pcb, ciclo_instruccion           *)
(*   despacho      conectar_kernel_dispatch: sends the syscalls            *)
(*   interrupcion  conectar_kernel_interrupt: only connects                *)
(*   conexion      conectar_cpu_memoria: waits for ARCHIVO_LISTO           *)
(*   memoria       atender_memoria_cpu, in the memory module               *)
(*   kernel        atender_cpu_dispatch, in the kernel                     *)
(*   corto         planificador_corto_plazo, in the kernel: sends PCBs     *)
(*                                                                         *)
(* A packet is a code, a size and its data, in that order on a socket that *)
(* keeps no boundaries: whoever reads a code only, finds the size as the   *)
(* next code.  A socket is the sequence of words not yet read; data is one *)
(* word, but for the PCB, whose fields are read one by one.  Of a line of  *)
(* the program the words carry its number.  The kernel's queues and        *)
(* semaphores are those of KernelPlanificacion: here it may or may not     *)
(* free the CPU, have a process to send, or wait for ever.                 *)
(* The configuration is the repository's cpu.config, which has no          *)
(* TAMANIO_PAGINA: a WRITE ends the CPU before it asks memory for          *)
(* anything.  What a WRITE does where there is a page size is Mmu.         *)
(***************************************************************************)
EXTENDS Integers, Sequences, SequencesExt

CONSTANTS
    Programas,           \* bound: the instruction files, as sequences of Lineas
    MAX_INSTRUCCIONES,   \* of iniciar_cpu: 1000
    TAM_PCB,             \* words of data in a PCB packet: 10
    MAX_DESPACHOS        \* bound: PCBs the kernel sends

\* What a line can be, told apart by what it makes the CPU and the kernel do.
Lineas    == {"comun", "WRITE", "vacia", "INIT_PROC", "IO", "EXIT"}
Syscalls  == {"INIT_PROC", "IO", "EXIT"}    \* es_syscall

ASSUME SupuestoProgramas == Programas \subseteq Seq(Lineas)
ASSUME SupuestoLimites ==
    /\ MAX_INSTRUCCIONES \in Nat \ {0, 1} /\ TAM_PCB \in Nat \ {0} /\ MAX_DESPACHOS \in Nat

Hilos == {"principal", "despacho", "interrupcion", "conexion", "memoria", "kernel", "corto"}
Semaforos == {"sem_cpu_kernel_hs", "sem_memoria_cpu_hs", "sem_archivo_listo_solicitado",
              "sem_instruccion_lista", "sem_instruccion_procesada"}
NINGUNO == 0    \* pcb_en_ejecucion before the first PCB; pids and lines count from 1

VARIABLES
    archivo, linea,              \* the instruction file, and the lines memory delivered
    puntual,                     \* whether the sleeps of the CPU outlast those of memory
    pc, sem,
    conectado,                   \* the CPU's descriptors of the kernel are positive
    fd_abierto,                  \* recibir_instruccion has not closed fd_memoria
    aMemoria, deMemoria,         \* the socket with memory, from the CPU's side
    aKernel, deKernel,           \* the dispatch socket
    instruccion_pendiente,
    syscall_a_procesar,          \* despacho's copy of its line
    syscall_en_proceso,
    pcb_en_ejecucion, instrucciones_ejecutadas,
    esta_libre, despachos,       \* kernel: the CPU is free; PCBs it started to send
    ejecutadas,                  \* history: the last line the CPU executed
    confirmadas,                 \* history: syscalls despacho marked as processed
    atendidas                    \* history: the syscalls the kernel processed

sockets  == <<aMemoria, deMemoria, aKernel, deKernel>>
syscalls == <<instruccion_pendiente, syscall_a_procesar, syscall_en_proceso>>
ciclo    == <<pcb_en_ejecucion, instrucciones_ejecutadas>>
kernel   == <<esta_libre, despachos>>
historia == <<ejecutadas, confirmadas, atendidas>>
fijas    == <<archivo, puntual>>
vars     == <<fijas, linea, pc, sem, conectado, fd_abierto, sockets, syscalls, ciclo, kernel,
              historia>>

En(h, etiqueta) == pc[h] = etiqueta
Ir(h, etiqueta) == pc' = [pc EXCEPT ![h] = etiqueta]
IrLosDos(h, etiqueta, k, otra) ==
    pc' = [x \in Hilos |-> IF x = h THEN etiqueta ELSE IF x = k THEN otra ELSE pc[x]]

Palabra(es, n) == [es |-> es, n |-> n]
Tam(n)         == Palabra("tam", n)
\* A packet of one word of data, and one without data (mutant: without its size).
Paquete(codigo, n) == <<Palabra(codigo, 0), Tam(1), Palabra("datos", n)>>
PaqueteSinTam(codigo) == <<Palabra(codigo, 0)>>
PaqueteVacio(codigo) == <<Palabra(codigo, 0), Tam(0)>>

\* sem_post and sem_wait.
Publicar(s) == sem' = [sem EXCEPT ![s] = @ + 1]
HayToken(s) == sem[s] > 0
Tomar(s)    == HayToken(s) /\ sem' = [sem EXCEPT ![s] = @ - 1]

\* recibir_paquete_desde_buffer waits for the size and then for the data.
HayPaquete(s) == s # <<>> /\ Len(s) > Head(s).n
Datos(s)      == s[2].n
TrasPaquete(s) == SubSeq(s, Head(s).n + 2, Len(s))

Init ==
    /\ archivo \in Programas /\ linea = 0
    /\ puntual \in BOOLEAN
    /\ pc = [h \in Hilos |-> CASE h = "principal" -> "esperar_kernel"
                               [] h = "conexion"  -> "sin_crear"
                               [] h = "corto"     -> "esperar"
                               [] h = "kernel"    -> "aceptar"
                               [] h = "memoria"   -> "aceptar"
                               [] OTHER           -> "conectar"]
    /\ sem = [s \in Semaforos |-> 0]
    /\ conectado = [h \in {"despacho", "interrupcion"} |-> FALSE]
    /\ fd_abierto = TRUE
    /\ aMemoria = <<>> /\ deMemoria = <<>> /\ aKernel = <<>> /\ deKernel = <<>>
    /\ instruccion_pendiente = [linea |-> 0, procesada |-> FALSE]
    /\ syscall_a_procesar = 0 /\ syscall_en_proceso = FALSE
    /\ pcb_en_ejecucion = NINGUNO /\ instrucciones_ejecutadas = 0
    /\ esta_libre = FALSE /\ despachos = 0
    /\ ejecutadas = 0 /\ confirmadas = 0 /\ atendidas = <<>>

----------------------------------------------------------------------------
(* The threads of the CPU connect.  principal waits once for a semaphore    *)
(* that two threads post.                                                   *)

ConectarKernel(h) ==
    /\ h \in {"despacho", "interrupcion"} /\ En(h, "conectar")
    /\ conectado' = [conectado EXCEPT ![h] = TRUE]
    /\ Publicar("sem_cpu_kernel_hs")
    /\ Ir(h, "esperar")
    /\ UNCHANGED <<fijas, linea, fd_abierto, sockets, syscalls, ciclo, kernel, historia>>

EsperarKernel ==
    /\ En("principal", "esperar_kernel")
    /\ Tomar("sem_cpu_kernel_hs")
    /\ IrLosDos("principal", "esperar_memoria", "conexion", "conectar")
    /\ UNCHANGED <<fijas, linea, conectado, fd_abierto, sockets, syscalls, ciclo, kernel, historia>>

\* The handshake: memory accepts and starts waiting for the instruction file.
ConectarMemoria ==
    /\ En("conexion", "conectar") /\ En("memoria", "aceptar")
    /\ Publicar("sem_memoria_cpu_hs")
    /\ IrLosDos("conexion", "esperar_archivo", "memoria", "esperar_archivo")
    /\ UNCHANGED <<fijas, linea, conectado, fd_abierto, sockets, syscalls, ciclo, kernel, historia>>

\* Only the code of ARCHIVO_LISTO is read: its size stays in the socket.
RecibirArchivoListo ==
    /\ En("conexion", "esperar_archivo")
    /\ deMemoria # <<>>
    /\ deMemoria' = Tail(deMemoria)
    /\ IF Head(deMemoria).es = "ARCHIVO_LISTO"
       THEN Publicar("sem_archivo_listo_solicitado") ELSE UNCHANGED sem
    /\ Ir("conexion", "fin")
    /\ UNCHANGED <<fijas, linea, conectado, fd_abierto, aMemoria, aKernel, deKernel, syscalls,
                   ciclo, kernel, historia>>

\* iniciar_cpu gets the descriptors as they are now, and returns if one is not
\* connected yet.
IniciarCpu ==
    /\ En("principal", "esperar_memoria")
    /\ Tomar("sem_memoria_cpu_hs")
    /\ Ir("principal", IF conectado["despacho"] /\ conectado["interrupcion"]
                       THEN "recibir_pcb" ELSE "terminar")
    /\ UNCHANGED <<fijas, linea, conectado, fd_abierto, sockets, syscalls, ciclo, kernel, historia>>

----------------------------------------------------------------------------
(* principal: iniciar_cpu.                                                  *)

\* recibir_pcb, its code; on another one the CPU pauses and tries again.
RecibirCodigoPcb ==
    /\ En("principal", "recibir_pcb")
    /\ deKernel # <<>>
    /\ deKernel' = Tail(deKernel)
    /\ Ir("principal", IF Head(deKernel).es = "PCB_A_EJECUTAR" THEN "leer_pcb" ELSE "recibir_pcb")
    /\ UNCHANGED <<fijas, linea, sem, conectado, fd_abierto, aMemoria, deMemoria, aKernel,
                   syscalls, ciclo, kernel, historia>>

LeerPcb ==
    /\ En("principal", "leer_pcb")
    /\ HayPaquete(deKernel)
    /\ deKernel' = TrasPaquete(deKernel)
    /\ IF Head(deKernel).n = TAM_PCB
       THEN /\ pcb_en_ejecucion' = Datos(deKernel)
            /\ instrucciones_ejecutadas' = 0
            /\ Ir("principal", "ciclo")
       ELSE /\ Ir("principal", "recibir_pcb")
            /\ UNCHANGED ciclo
    /\ UNCHANGED <<fijas, linea, sem, conectado, fd_abierto, aMemoria, deMemoria, aKernel,
                   syscalls, kernel, historia>>

\* Every call of ciclo_instruccion returns CONTINUE_EXECUTION, so only the limit
\* would end the do-while.
Termina == instrucciones_ejecutadas >= MAX_INSTRUCCIONES

\* The do-while; after it the PCB is returned.
Ciclo ==
    /\ En("principal", "ciclo")
    /\ IF Termina
       THEN /\ aKernel' = aKernel \o Paquete("PCB_DEVUELTO", pcb_en_ejecucion)
            /\ Ir("principal", "recibir_pcb")
            /\ UNCHANGED instrucciones_ejecutadas
       ELSE /\ instrucciones_ejecutadas' = instrucciones_ejecutadas + 1
            /\ Ir("principal", "esperar_archivo")
            /\ UNCHANGED aKernel
    /\ UNCHANGED <<fijas, linea, sem, conectado, fd_abierto, aMemoria, deMemoria, deKernel,
                   syscalls, pcb_en_ejecucion, kernel, historia>>

\* recibir_instruccion waits for the file, which is announced once.
EsperarArchivo ==
    /\ En("principal", "esperar_archivo")
    /\ Tomar("sem_archivo_listo_solicitado")
    /\ Ir("principal", "pedir")
    /\ UNCHANGED <<fijas, linea, conectado, fd_abierto, sockets, syscalls, ciclo, kernel, historia>>

\* enviar_paquete(SOLICITUD_INSTRUCCION): two sends; after a first one that fails
\* there is no second.  The CPU pauses for seconds between requests, memory for
\* tenths: puntual, memory has read all it was sent.
LlegaAMemoria == fd_abierto /\ ~En("memoria", "cerrada")
EnviarSolicitud ==
    /\ En("principal", "pedir")
    /\ ~syscall_en_proceso
    /\ puntual => aMemoria = <<>>
    /\ IF LlegaAMemoria
       THEN /\ aMemoria' = Append(aMemoria, Palabra("SOLICITUD_INSTRUCCION", 0))
            /\ Ir("principal", "pedir_tam")
       ELSE Ir("principal", "esperar_respuesta") /\ UNCHANGED aMemoria
    /\ UNCHANGED <<fijas, linea, sem, conectado, fd_abierto, deMemoria, aKernel, deKernel,
                   syscalls, ciclo, kernel, historia>>

EnviarTamSolicitud ==
    /\ En("principal", "pedir_tam")
    /\ aMemoria' = IF LlegaAMemoria THEN Append(aMemoria, Tam(0)) ELSE aMemoria
    /\ Ir("principal", "esperar_respuesta")
    /\ UNCHANGED <<fijas, linea, sem, conectado, fd_abierto, deMemoria, aKernel, deKernel,
                   syscalls, ciclo, kernel, historia>>

\* What recibir_operacion returns: a code, 0 for an empty size, -1 once nothing
\* more can come.
Cortada == ~fd_abierto \/ (deMemoria = <<>> /\ En("memoria", "cerrada"))
Codigo  == IF Cortada THEN "-1"
           ELSE IF Head(deMemoria) = Tam(0) THEN "0" ELSE Head(deMemoria).es
\* A 0 is the size of an empty packet: the CPU asks again (mutant: it gives up).
SeguirTrasAbandonar(c) == IF c = "PAQUETE" THEN "leer_instruccion"
                          ELSE IF c \in {"-1", "0", "EXIT"} THEN "ciclo" ELSE "pedir"
Seguir(c)              == IF c = "PAQUETE" THEN "leer_instruccion"
                          ELSE IF c \in {"-1", "EXIT"} THEN "ciclo" ELSE "pedir"
RecibirRespuesta ==
    /\ En("principal", "esperar_respuesta")
    /\ deMemoria # <<>> \/ Cortada
    /\ deMemoria' = IF Cortada THEN deMemoria ELSE Tail(deMemoria)
    /\ Ir("principal", Seguir(Codigo))
    /\ fd_abierto' = (fd_abierto /\ Seguir(Codigo) # "ciclo")     \* close(fd_memoria)
    /\ UNCHANGED <<fijas, linea, sem, conectado, aMemoria, aKernel, deKernel, syscalls, ciclo,
                   kernel, historia>>

\* The packet of the instruction and procesar_instruccion.  A syscall is left for
\* despacho, under mutex_instruccion_pendiente.  A WRITE takes atoi of the value of a
\* key that is not there: the process of the CPU ends, and no other thread of it is
\* doing anything by then.  Of NOOP, READ, GOTO and the rest only a line is printed.
ProcesarInstruccion ==
    /\ En("principal", "leer_instruccion")
    /\ HayPaquete(deMemoria)
    /\ deMemoria' = TrasPaquete(deMemoria)
    /\ ejecutadas' = Datos(deMemoria)
    /\ IF archivo[Datos(deMemoria)] \in Syscalls
       THEN /\ syscall_en_proceso' = TRUE
            /\ instruccion_pendiente' = [linea |-> Datos(deMemoria), procesada |-> FALSE]
            /\ Publicar("sem_instruccion_lista")
            /\ Ir("principal", "esperar_syscall")
       ELSE /\ Ir("principal", IF archivo[Datos(deMemoria)] = "WRITE" THEN "caida" ELSE "pedir")
            /\ UNCHANGED <<sem, syscall_en_proceso, instruccion_pendiente>>
    /\ UNCHANGED <<fijas, linea, conectado, fd_abierto, aMemoria, aKernel, deKernel,
                   syscall_a_procesar, ciclo, kernel, confirmadas, atendidas>>

\* Wait for the syscall to be processed (mutant: it does not wait).
SyscallProcesadaSinEsperar == UNCHANGED sem
SyscallProcesada           == Tomar("sem_instruccion_procesada")
EsperarSyscall ==
    /\ En("principal", "esperar_syscall")
    /\ SyscallProcesada
    /\ syscall_en_proceso' = FALSE
    /\ Ir("principal", "pedir")
    /\ UNCHANGED <<fijas, linea, conectado, fd_abierto, sockets, instruccion_pendiente,
                   syscall_a_procesar, ciclo, kernel, historia>>

----------------------------------------------------------------------------
(* despacho: the loop of conectar_kernel_dispatch.                          *)

TomarSyscall ==
    /\ En("despacho", "esperar")
    /\ Tomar("sem_instruccion_lista")
    /\ syscall_a_procesar' = instruccion_pendiente.linea
    /\ Ir("despacho", "enviar")
    /\ UNCHANGED <<fijas, linea, conectado, fd_abierto, sockets, instruccion_pendiente,
                   syscall_en_proceso, ciclo, kernel, historia>>

EnviarSyscall ==
    /\ En("despacho", "enviar")
    /\ aKernel' = aKernel \o Paquete("SYSCALL", syscall_a_procesar)
    /\ Ir("despacho", "confirmar")
    /\ UNCHANGED <<fijas, linea, sem, conectado, fd_abierto, aMemoria, deMemoria, deKernel,
                   syscalls, ciclo, kernel, historia>>

\* recibir_operacion takes one word, whatever it is: no answer of the kernel has
\* the code the CPU expects, and every case of the switch goes on (mutant: it goes
\* on without the word).
QuitarNinguna(s)  == s
QuitarPalabra(s)  == Tail(s)
\* The syscall is marked as processed and principal is woken (mutant: twice).
AvisarDosVeces == sem' = [sem EXCEPT !["sem_instruccion_procesada"] = @ + 2]
Avisar         == Publicar("sem_instruccion_procesada")
Confirmar ==
    /\ En("despacho", "confirmar")
    /\ deKernel # <<>>
    /\ deKernel' = QuitarPalabra(deKernel)
    /\ instruccion_pendiente' = [instruccion_pendiente EXCEPT !.procesada = TRUE]
    /\ Avisar
    /\ confirmadas' = confirmadas + 1
    /\ Ir("despacho", "esperar")
    /\ UNCHANGED <<fijas, linea, conectado, fd_abierto, aMemoria, deMemoria, aKernel,
                   syscall_a_procesar, syscall_en_proceso, ciclo, kernel, ejecutadas, atendidas>>

----------------------------------------------------------------------------
(* memoria: atender_memoria_cpu.                                            *)

AnunciarArchivo ==
    /\ En("memoria", "esperar_archivo")
    /\ deMemoria' = deMemoria \o PaqueteVacio("ARCHIVO_LISTO")
    /\ Ir("memoria", "recibir")
    /\ UNCHANGED <<fijas, linea, sem, conectado, fd_abierto, aMemoria, aKernel, deKernel,
                   syscalls, ciclo, kernel, historia>>

\* entregar_linea: a line of blanks is taken for the end of the file.
HayLinea == linea < Len(archivo) /\ archivo[linea + 1] # "vacia"

\* procesar_solicitud_instruccion reads no size: it is the next code, a 0.
AtenderSolicitud ==
    /\ En("memoria", "recibir")
    /\ aMemoria # <<>> /\ Head(aMemoria).es = "SOLICITUD_INSTRUCCION"
    /\ aMemoria' = Tail(aMemoria)
    /\ IF HayLinea
       THEN /\ linea' = linea + 1
            /\ deMemoria' = deMemoria \o Paquete("PAQUETE", linea + 1)
            /\ UNCHANGED pc
       ELSE /\ deMemoria' = deMemoria \o PaqueteVacio("EXIT")
            /\ Ir("memoria", "cerrar")
            /\ UNCHANGED linea
    /\ UNCHANGED <<fijas, sem, conectado, fd_abierto, aKernel, deKernel, syscalls, ciclo,
                   kernel, historia>>

\* On a 0, limpiar_buffer_completo drops whatever has arrived.
LimpiarBuffer ==
    /\ En("memoria", "recibir")
    /\ aMemoria # <<>> /\ Head(aMemoria).es # "SOLICITUD_INSTRUCCION"
    /\ aMemoria' = <<>>
    /\ UNCHANGED <<fijas, linea, pc, sem, conectado, fd_abierto, deMemoria, aKernel, deKernel,
                   syscalls, ciclo, kernel, historia>>

CerrarMemoria ==
    /\ En("memoria", "cerrar")
    /\ aMemoria' = <<>>
    /\ Ir("memoria", "cerrada")
    /\ UNCHANGED <<fijas, linea, sem, conectado, fd_abierto, deMemoria, aKernel, deKernel,
                   syscalls, ciclo, kernel, historia>>

----------------------------------------------------------------------------
(* kernel: atender_cpu_dispatch.                                            *)

AceptarCpu ==
    /\ En("kernel", "aceptar") /\ conectado["despacho"]
    /\ esta_libre' = TRUE
    /\ Ir("kernel", "recibir")
    /\ UNCHANGED <<fijas, linea, sem, conectado, fd_abierto, sockets, syscalls, ciclo,
                   despachos, historia>>

\* An unknown code (the CPU's PCB_DEVUELTO is one to the kernel) is skipped.
RecibirOperacion ==
    /\ En("kernel", "recibir")
    /\ aKernel # <<>>
    /\ aKernel' = Tail(aKernel)
    /\ Ir("kernel", IF Head(aKernel).es = "SYSCALL" THEN "paquete" ELSE "recibir")
    /\ UNCHANGED <<fijas, linea, sem, conectado, fd_abierto, aMemoria, deMemoria, deKernel,
                   syscalls, ciclo, kernel, historia>>

\* Every syscall is answered, whether it succeeds or not (mutant: an IO, that fails,
\* is not).
ContestaSiResulta(s) == IF s = "IO" THEN "recibir" ELSE "responder"
Contesta(s)          == "responder"
\* procesar_syscall.  EXIT, and an IO, whose device is never found, may free the
\* CPU (LiberarCpu of KernelPlanificacion), under mutex_cpus; only an EXIT that
\* succeeds replans.
ProcesarSyscall ==
    /\ En("kernel", "paquete")
    /\ HayPaquete(aKernel)
    /\ aKernel' = TrasPaquete(aKernel)
    /\ atendidas' = Append(atendidas, Datos(aKernel))
    /\ \/ UNCHANGED esta_libre
       \/ /\ archivo[Datos(aKernel)] \in {"IO", "EXIT"} /\ En("corto", "esperar")
          /\ esta_libre' = TRUE
    /\ \/ Ir("kernel", Contesta(archivo[Datos(aKernel)]))
       \/ archivo[Datos(aKernel)] = "EXIT" /\ Ir("kernel", "responder_exit")
    /\ UNCHANGED <<fijas, linea, sem, conectado, fd_abierto, aMemoria, deMemoria, deKernel,
                   syscalls, ciclo, despachos, ejecutadas, confirmadas>>

\* enviar_paquete(SYSCALL_OK or SYSCALL_ERROR): a send for the code (mutant: none
\* for what is not an EXIT)...
RespondeSoloExit(etiqueta) == etiqueta = "responder_exit"
Responde(etiqueta)         == etiqueta \in {"responder", "responder_exit"}
ResponderSyscall ==
    /\ Responde(pc["kernel"])
    /\ deKernel' = Append(deKernel, Palabra("RESPUESTA", 0))
    /\ Ir("kernel", IF En("kernel", "responder") THEN "tam" ELSE "tam_exit")
    /\ UNCHANGED <<fijas, linea, sem, conectado, fd_abierto, aMemoria, deMemoria, aKernel,
                   syscalls, ciclo, kernel, historia>>

\* ... and one for the size, 0.  After an EXIT it replans.
ResponderTam ==
    /\ pc["kernel"] \in {"tam", "tam_exit"}
    /\ deKernel' = Append(deKernel, Tam(0))
    /\ Ir("kernel", IF En("kernel", "tam") THEN "recibir" ELSE "replanificar")
    /\ UNCHANGED <<fijas, linea, sem, conectado, fd_abierto, aMemoria, deMemoria, aKernel,
                   syscalls, ciclo, kernel, historia>>

\* planificador_corto_plazo finds nobody to send, or waits for ever for a token
\* of hay_procesos_ready.
ReplanificarEnVano ==
    /\ En("kernel", "replanificar")
    /\ \/ Ir("kernel", "recibir")
       \/ Ir("kernel", "detenido")
    /\ UNCHANGED <<fijas, linea, sem, conectado, fd_abierto, sockets, syscalls, ciclo, kernel,
                   historia>>

----------------------------------------------------------------------------
(* planificador_corto_plazo, run by corto and, to replan, by kernel: under  *)
(* mutex_cpus, a process is given to the free CPU in three sends.  The      *)
(* answer to a syscall is sent without that mutex.                          *)

EnviandoPcb(h) == pc[h] \in {"pcb_tam", "pcb_datos"}
EnviarPcb(h) ==
    /\ <<h, pc[h]>> \in {<<"corto", "esperar">>, <<"kernel", "replanificar">>}
    /\ ~EnviandoPcb("corto") /\ ~EnviandoPcb("kernel")
    /\ esta_libre /\ despachos < MAX_DESPACHOS
    /\ esta_libre' = FALSE
    /\ despachos' = despachos + 1
    /\ deKernel' = Append(deKernel, Palabra("PCB_A_EJECUTAR", 0))
    /\ Ir(h, "pcb_tam")
    /\ UNCHANGED <<fijas, linea, sem, conectado, fd_abierto, aMemoria, deMemoria, aKernel,
                   syscalls, ciclo, historia>>

EnviarTamPcb(h) ==
    /\ En(h, "pcb_tam")
    /\ deKernel' = Append(deKernel, Tam(TAM_PCB))
    /\ Ir(h, "pcb_datos")
    /\ UNCHANGED <<fijas, linea, sem, conectado, fd_abierto, aMemoria, deMemoria, aKernel,
                   syscalls, ciclo, kernel, historia>>

EnviarDatosPcb(h) ==
    /\ En(h, "pcb_datos")
    /\ deKernel' = deKernel \o [i \in 1..TAM_PCB |-> Palabra("datos", despachos)]
    /\ Ir(h, IF h = "corto" THEN "esperar" ELSE "recibir")
    /\ UNCHANGED <<fijas, linea, sem, conectado, fd_abierto, aMemoria, deMemoria, aKernel,
                   syscalls, ciclo, kernel, historia>>

----------------------------------------------------------------------------
Principal == \/ EsperarKernel \/ IniciarCpu \/ RecibirCodigoPcb \/ LeerPcb \/ Ciclo
             \/ EsperarArchivo \/ EnviarSolicitud \/ EnviarTamSolicitud \/ RecibirRespuesta
             \/ ProcesarInstruccion \/ EsperarSyscall
Despacho  == ConectarKernel("despacho") \/ TomarSyscall \/ EnviarSyscall \/ Confirmar
Interrupcion == ConectarKernel("interrupcion")
Conexion  == ConectarMemoria \/ RecibirArchivoListo
HiloMemoria == AnunciarArchivo \/ AtenderSolicitud \/ LimpiarBuffer \/ CerrarMemoria
TerminarPcb(h) == EnviarTamPcb(h) \/ EnviarDatosPcb(h)
HiloKernel == \/ AceptarCpu \/ RecibirOperacion \/ ProcesarSyscall \/ ResponderSyscall
              \/ ResponderTam \/ ReplanificarEnVano \/ EnviarPcb("kernel") \/ TerminarPcb("kernel")
HiloCorto == EnviarPcb("corto") \/ TerminarPcb("corto")

Next == Principal \/ Despacho \/ Interrupcion \/ Conexion \/ HiloMemoria \/ HiloKernel \/ HiloCorto

Spec == Init /\ [][Next]_vars

\* No thread is ever stopped; that the kernel has a process to send is not owed,
\* but a PCB once begun is sent whole.
Equidad == /\ WF_vars(Principal) /\ WF_vars(Despacho) /\ WF_vars(Interrupcion)
           /\ WF_vars(Conexion) /\ WF_vars(HiloMemoria) /\ WF_vars(HiloKernel)
           /\ WF_vars(TerminarPcb("corto"))

SpecJusta == Spec /\ Equidad
=============================================================================
