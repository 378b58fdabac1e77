------------------------ MODULE ProtocoloCpu_proofs ------------------------
(***************************************************************************)
(* The threads of the CPU, for every program, size of PCB and number of    *)
(* dispatches: the hand-over of a syscall between the two threads, and how *)
(* far the CPU runs ahead of the kernel.                                   *)
(***************************************************************************)
EXTENDS ProtocoloCpuPropiedades, SequenceTheorems, TLAPS

----------------------------------------------------------------------------
(* The inductive invariant: where the threads are and what their            *)
(* semaphores are worth.  It says nothing of the words in the sockets.      *)

Antes == pc["principal"] \in {"esperar_kernel", "esperar_memoria", "terminar", "recibir_pcb",
                              "leer_pcb"}
Bucle == pc["principal"] \in {"pedir", "pedir_tam", "esperar_respuesta", "leer_instruccion",
                              "esperar_syscall", "caida"}

TipoControl ==
    /\ pc = [h \in Hilos |-> pc[h]]
    /\ sem \in [Semaforos -> Nat]
    /\ conectado \in [{"despacho", "interrupcion"} -> BOOLEAN]
    /\ fd_abierto \in BOOLEAN /\ syscall_en_proceso \in BOOLEAN
    /\ instrucciones_ejecutadas \in Nat

\* instruccion_pendiente keeps its fields.
PendienteBien == instruccion_pendiente = [linea     |-> instruccion_pendiente.linea,
                                          procesada |-> instruccion_pendiente.procesada]

\* ManoAMano, with the values of its two semaphores.
ManosBien ==
    /\ ManoAMano
    /\ sem["sem_instruccion_lista"] \in {0, 1} /\ sem["sem_instruccion_procesada"] \in {0, 1}

\* The file is announced once, and principal takes the announcement the first time
\* round its loop; the second time it has closed its descriptor and waits.
ArchivoTomado == sem["sem_archivo_listo_solicitado"] = 0 /\ En("conexion", "fin")
ArchivoBien ==
    /\ En("principal", "esperar_kernel") => En("conexion", "sin_crear")
    /\ sem["sem_archivo_listo_solicitado"] \in {0, 1}
    /\ sem["sem_archivo_listo_solicitado"] = 1 => En("conexion", "fin")
CicloBien ==
    /\ Antes => pcb_en_ejecucion = NINGUNO /\ fd_abierto
    /\ Bucle => instrucciones_ejecutadas = 1 /\ fd_abierto /\ ArchivoTomado
    /\ En("principal", "ciclo") =>
          \/ instrucciones_ejecutadas = 0 /\ fd_abierto
          \/ instrucciones_ejecutadas = 1 /\ ~fd_abierto /\ ArchivoTomado
    /\ En("principal", "esperar_archivo") =>
          \/ instrucciones_ejecutadas = 1 /\ fd_abierto
          \/ instrucciones_ejecutadas = 2 /\ ~fd_abierto /\ ArchivoTomado

Control == TipoControl /\ PendienteBien /\ ManosBien /\ ArchivoBien /\ CicloBien

USE DEF En, Ir, HayToken, Publicar, Tomar, IrLosDos, Contesta

LEMMA Nombres ==
    /\ {"principal", "despacho", "interrupcion", "conexion", "memoria", "kernel",
        "corto"} \subseteq Hilos
    /\ {"sem_cpu_kernel_hs", "sem_memoria_cpu_hs", "sem_archivo_listo_solicitado",
         "sem_instruccion_lista", "sem_instruccion_procesada"} \subseteq Semaforos
BY DEF Hilos, Semaforos

\* The program starts with every thread at its first step and no token.
LEMMA ControlInicial == Init => Control
<1> SUFFICES ASSUME Init PROVE Control OBVIOUS
<1>a. /\ pc["principal"] = "esperar_kernel" /\ pc["conexion"] = "sin_crear"
      /\ pc["despacho"] = "conectar"
  BY Nombres DEF Init
<1>b. \A s \in Semaforos : sem[s] = 0 BY DEF Init
<1>1. TipoControl BY DEF Init, TipoControl
<1>2. PendienteBien BY DEF Init, PendienteBien
<1>3. ManosBien BY <1>a, <1>b, Nombres DEF Init, ManosBien, ManoAMano
<1>4. ArchivoBien BY <1>a, <1>b, Nombres DEF ArchivoBien
<1>5. CicloBien BY <1>a DEF Init, CicloBien, Antes, Bucle
<1> QED BY <1>1, <1>2, <1>3, <1>4, <1>5 DEF Control

\* Every action keeps Control.
LEMMA ControlEsperarKernel == ASSUME Control, EsperarKernel PROVE Control'
<1> USE Nombres DEF EsperarKernel, fijas, sockets, syscalls, ciclo, kernel, historia
<1>1. TipoControl' BY DEF Control, TipoControl
<1>2. PendienteBien' BY DEF Control, PendienteBien
<1>3. ManosBien' BY DEF Control, TipoControl, PendienteBien, ManosBien, ManoAMano
<1>4. ArchivoBien' BY DEF Control, TipoControl, ArchivoBien
<1>5. CicloBien'
  BY SupuestoLimites DEF Control, TipoControl, ArchivoBien, CicloBien, Antes, Bucle, ArchivoTomado
<1> QED BY <1>1, <1>2, <1>3, <1>4, <1>5 DEF Control

LEMMA ControlIniciarCpu == ASSUME Control, IniciarCpu PROVE Control'
<1> USE Nombres DEF IniciarCpu, fijas, sockets, syscalls, ciclo, kernel, historia
<1>1. TipoControl' BY DEF Control, TipoControl
<1>2. PendienteBien' BY DEF Control, PendienteBien
<1>3. ManosBien' BY DEF Control, TipoControl, PendienteBien, ManosBien, ManoAMano
<1>4. ArchivoBien' BY DEF Control, TipoControl, ArchivoBien
<1>5. CicloBien'
  BY SupuestoLimites DEF Control, TipoControl, ArchivoBien, CicloBien, Antes, Bucle, ArchivoTomado
<1> QED BY <1>1, <1>2, <1>3, <1>4, <1>5 DEF Control

LEMMA ControlRecibirCodigoPcb == ASSUME Control, RecibirCodigoPcb PROVE Control'
<1> USE Nombres DEF RecibirCodigoPcb, fijas, sockets, syscalls, ciclo, kernel, historia
<1>1. TipoControl' BY DEF Control, TipoControl
<1>2. PendienteBien' BY DEF Control, PendienteBien
<1>3. ManosBien' BY DEF Control, TipoControl, PendienteBien, ManosBien, ManoAMano
<1>4. ArchivoBien' BY DEF Control, TipoControl, ArchivoBien
<1>5. CicloBien'
  BY SupuestoLimites DEF Control, TipoControl, ArchivoBien, CicloBien, Antes, Bucle, ArchivoTomado
<1> QED BY <1>1, <1>2, <1>3, <1>4, <1>5 DEF Control

LEMMA ControlLeerPcb == ASSUME Control, LeerPcb PROVE Control'
<1> USE Nombres DEF LeerPcb, fijas, sockets, syscalls, ciclo, kernel, historia
<1>1. TipoControl' BY DEF Control, TipoControl
<1>2. PendienteBien' BY DEF Control, PendienteBien
<1>3. ManosBien' BY DEF Control, TipoControl, PendienteBien, ManosBien, ManoAMano
<1>4. ArchivoBien' BY DEF Control, TipoControl, ArchivoBien
<1>5. CicloBien'
  BY SupuestoLimites DEF Control, TipoControl, ArchivoBien, CicloBien, Antes, Bucle, ArchivoTomado
<1> QED BY <1>1, <1>2, <1>3, <1>4, <1>5 DEF Control

LEMMA ControlCiclo == ASSUME Control, Ciclo PROVE Control'
<1> USE Nombres DEF Ciclo, fijas, sockets, syscalls, ciclo, kernel, historia, Termina
<1>1. TipoControl' BY DEF Control, TipoControl
<1>2. PendienteBien' BY DEF Control, PendienteBien
<1>3. ManosBien' BY DEF Control, TipoControl, PendienteBien, ManosBien, ManoAMano
<1>4. ArchivoBien' BY DEF Control, TipoControl, ArchivoBien
<1>5. CicloBien'
  BY SupuestoLimites DEF Control, TipoControl, ArchivoBien, CicloBien, Antes, Bucle, ArchivoTomado
<1> QED BY <1>1, <1>2, <1>3, <1>4, <1>5 DEF Control

LEMMA ControlEsperarArchivo == ASSUME Control, EsperarArchivo PROVE Control'
<1> USE Nombres DEF EsperarArchivo, fijas, sockets, syscalls, ciclo, kernel, historia
<1>1. TipoControl' BY DEF Control, TipoControl
<1>2. PendienteBien' BY DEF Control, PendienteBien
<1>3. ManosBien' BY DEF Control, TipoControl, PendienteBien, ManosBien, ManoAMano
<1>4. ArchivoBien' BY DEF Control, TipoControl, ArchivoBien
<1>5. CicloBien'
  BY SupuestoLimites DEF Control, TipoControl, ArchivoBien, CicloBien, Antes, Bucle, ArchivoTomado
<1> QED BY <1>1, <1>2, <1>3, <1>4, <1>5 DEF Control

LEMMA ControlEnviarSolicitud == ASSUME Control, EnviarSolicitud PROVE Control'
<1> USE Nombres DEF EnviarSolicitud, fijas, sockets, syscalls, ciclo, kernel, historia,
     LlegaAMemoria
<1>1. TipoControl' BY DEF Control, TipoControl
<1>2. PendienteBien' BY DEF Control, PendienteBien
<1>3. ManosBien' BY DEF Control, TipoControl, PendienteBien, ManosBien, ManoAMano
<1>4. ArchivoBien' BY DEF Control, TipoControl, ArchivoBien
<1>5. CicloBien'
  BY SupuestoLimites DEF Control, TipoControl, ArchivoBien, CicloBien, Antes, Bucle, ArchivoTomado
<1> QED BY <1>1, <1>2, <1>3, <1>4, <1>5 DEF Control

LEMMA ControlEnviarTamSolicitud == ASSUME Control, EnviarTamSolicitud PROVE Control'
<1> USE Nombres DEF EnviarTamSolicitud, fijas, sockets, syscalls, ciclo, kernel, historia
<1>1. TipoControl' BY DEF Control, TipoControl
<1>2. PendienteBien' BY DEF Control, PendienteBien
<1>3. ManosBien' BY DEF Control, TipoControl, PendienteBien, ManosBien, ManoAMano
<1>4. ArchivoBien' BY DEF Control, TipoControl, ArchivoBien
<1>5. CicloBien'
  BY SupuestoLimites DEF Control, TipoControl, ArchivoBien, CicloBien, Antes, Bucle, ArchivoTomado
<1> QED BY <1>1, <1>2, <1>3, <1>4, <1>5 DEF Control

LEMMA ControlRecibirRespuesta == ASSUME Control, RecibirRespuesta PROVE Control'
<1> USE Nombres DEF RecibirRespuesta, fijas, sockets, syscalls, ciclo, kernel, historia, Seguir
<1>1. TipoControl' BY DEF Control, TipoControl
<1>2. PendienteBien' BY DEF Control, PendienteBien
<1>3. ManosBien' BY DEF Control, TipoControl, PendienteBien, ManosBien, ManoAMano
<1>4. ArchivoBien' BY DEF Control, TipoControl, ArchivoBien
<1>5. CicloBien'
  BY SupuestoLimites DEF Control, TipoControl, ArchivoBien, CicloBien, Antes, Bucle, ArchivoTomado
<1> QED BY <1>1, <1>2, <1>3, <1>4, <1>5 DEF Control

LEMMA ControlProcesarInstruccion == ASSUME Control, ProcesarInstruccion PROVE Control'
<1> USE Nombres DEF ProcesarInstruccion, fijas, sockets, syscalls, ciclo, kernel, historia
<1>1. TipoControl'
  <2>1. (pc = [k \in Hilos |-> pc[k]])' BY DEF Control, TipoControl
  <2>2. (sem \in [Semaforos -> Nat])' BY DEF Control, TipoControl
  <2>3. (conectado \in [{"despacho", "interrupcion"} -> BOOLEAN])' BY DEF Control, TipoControl
  <2>4. (fd_abierto \in BOOLEAN /\ syscall_en_proceso \in BOOLEAN)' BY DEF Control, TipoControl
  <2>5. (instrucciones_ejecutadas \in Nat)' BY DEF Control, TipoControl
  <2> QED BY <2>1, <2>2, <2>3, <2>4, <2>5 DEF TipoControl
<1>2. PendienteBien' BY DEF Control, PendienteBien
<1>3. ManosBien' BY DEF Control, TipoControl, PendienteBien, ManosBien, ManoAMano
<1>4. ArchivoBien' BY DEF Control, TipoControl, ArchivoBien
<1>5. CicloBien'
  BY SupuestoLimites DEF Control, TipoControl, ArchivoBien, CicloBien, Antes, Bucle, ArchivoTomado
<1> QED BY <1>1, <1>2, <1>3, <1>4, <1>5 DEF Control

LEMMA ControlEsperarSyscall == ASSUME Control, EsperarSyscall PROVE Control'
<1> USE Nombres DEF EsperarSyscall, fijas, sockets, syscalls, ciclo, kernel, historia,
     SyscallProcesada
<1>1. TipoControl'
  <2>1. (pc = [k \in Hilos |-> pc[k]])' BY DEF Control, TipoControl
  <2>2. (sem \in [Semaforos -> Nat])' BY DEF Control, TipoControl
  <2>3. (conectado \in [{"despacho", "interrupcion"} -> BOOLEAN])' BY DEF Control, TipoControl
  <2>4. (fd_abierto \in BOOLEAN /\ syscall_en_proceso \in BOOLEAN)' BY DEF Control, TipoControl
  <2>5. (instrucciones_ejecutadas \in Nat)' BY DEF Control, TipoControl
  <2> QED BY <2>1, <2>2, <2>3, <2>4, <2>5 DEF TipoControl
<1>2. PendienteBien' BY DEF Control, PendienteBien
<1>3. ManosBien' BY DEF Control, TipoControl, PendienteBien, ManosBien, ManoAMano
<1>4. ArchivoBien' BY DEF Control, TipoControl, ArchivoBien
<1>5. CicloBien'
  BY SupuestoLimites DEF Control, TipoControl, ArchivoBien, CicloBien, Antes, Bucle, ArchivoTomado
<1> QED BY <1>1, <1>2, <1>3, <1>4, <1>5 DEF Control

LEMMA ControlConectarKernel == ASSUME NEW h, Control, ConectarKernel(h) PROVE Control'
<1> USE Nombres DEF ConectarKernel, fijas, sockets, syscalls, ciclo, kernel, historia
<1>1. TipoControl' BY DEF Control, TipoControl
<1>2. PendienteBien' BY DEF Control, PendienteBien
<1>3. ManosBien' BY DEF Control, TipoControl, PendienteBien, ManosBien, ManoAMano
<1>4. ArchivoBien' BY DEF Control, TipoControl, ArchivoBien
<1>5. CicloBien'
  BY SupuestoLimites DEF Control, TipoControl, ArchivoBien, CicloBien, Antes, Bucle, ArchivoTomado
<1> QED BY <1>1, <1>2, <1>3, <1>4, <1>5 DEF Control

LEMMA ControlTomarSyscall == ASSUME Control, TomarSyscall PROVE Control'
<1> USE Nombres DEF TomarSyscall, fijas, sockets, syscalls, ciclo, kernel, historia
<1>1. TipoControl' BY DEF Control, TipoControl
<1>2. PendienteBien' BY DEF Control, PendienteBien
<1>3. ManosBien' BY DEF Control, TipoControl, PendienteBien, ManosBien, ManoAMano
<1>4. ArchivoBien' BY DEF Control, TipoControl, ArchivoBien
<1>5. CicloBien'
  BY SupuestoLimites DEF Control, TipoControl, ArchivoBien, CicloBien, Antes, Bucle, ArchivoTomado
<1> QED BY <1>1, <1>2, <1>3, <1>4, <1>5 DEF Control

LEMMA ControlEnviarSyscall == ASSUME Control, EnviarSyscall PROVE Control'
<1> USE Nombres DEF EnviarSyscall, fijas, sockets, syscalls, ciclo, kernel, historia
<1>1. TipoControl' BY DEF Control, TipoControl
<1>2. PendienteBien' BY DEF Control, PendienteBien
<1>3. ManosBien' BY DEF Control, TipoControl, PendienteBien, ManosBien, ManoAMano
<1>4. ArchivoBien' BY DEF Control, TipoControl, ArchivoBien
<1>5. CicloBien'
  BY SupuestoLimites DEF Control, TipoControl, ArchivoBien, CicloBien, Antes, Bucle, ArchivoTomado
<1> QED BY <1>1, <1>2, <1>3, <1>4, <1>5 DEF Control

LEMMA ControlConfirmar == ASSUME Control, Confirmar PROVE Control'
<1> USE Nombres DEF Confirmar, fijas, sockets, syscalls, ciclo, kernel, historia, Avisar
<1>1. TipoControl'
  <2>1. (pc = [k \in Hilos |-> pc[k]])' BY DEF Control, TipoControl
  <2>2. (sem \in [Semaforos -> Nat])' BY DEF Control, TipoControl
  <2>3. (conectado \in [{"despacho", "interrupcion"} -> BOOLEAN])' BY DEF Control, TipoControl
  <2>4. (fd_abierto \in BOOLEAN /\ syscall_en_proceso \in BOOLEAN)' BY DEF Control, TipoControl
  <2>5. (instrucciones_ejecutadas \in Nat)' BY DEF Control, TipoControl
  <2> QED BY <2>1, <2>2, <2>3, <2>4, <2>5 DEF TipoControl
<1>2. PendienteBien' BY DEF Control, PendienteBien
<1>3. ManosBien' BY DEF Control, TipoControl, PendienteBien, ManosBien, ManoAMano
<1>4. ArchivoBien' BY DEF Control, TipoControl, ArchivoBien
<1>5. CicloBien'
  BY SupuestoLimites DEF Control, TipoControl, ArchivoBien, CicloBien, Antes, Bucle, ArchivoTomado
<1> QED BY <1>1, <1>2, <1>3, <1>4, <1>5 DEF Control

LEMMA ControlConectarMemoria == ASSUME Control, ConectarMemoria PROVE Control'
<1> USE Nombres DEF ConectarMemoria, fijas, sockets, syscalls, ciclo, kernel, historia
<1>1. TipoControl' BY DEF Control, TipoControl
<1>2. PendienteBien' BY DEF Control, PendienteBien
<1>3. ManosBien' BY DEF Control, TipoControl, PendienteBien, ManosBien, ManoAMano
<1>4. ArchivoBien' BY DEF Control, TipoControl, ArchivoBien
<1>5. CicloBien'
  BY SupuestoLimites DEF Control, TipoControl, ArchivoBien, CicloBien, Antes, Bucle, ArchivoTomado
<1> QED BY <1>1, <1>2, <1>3, <1>4, <1>5 DEF Control

LEMMA ControlRecibirArchivoListo == ASSUME Control, RecibirArchivoListo PROVE Control'
<1> USE Nombres DEF RecibirArchivoListo, fijas, sockets, syscalls, ciclo, kernel, historia
<1>1. TipoControl'
  <2>1. (pc = [k \in Hilos |-> pc[k]])' BY DEF Control, TipoControl
  <2>2. (sem \in [Semaforos -> Nat])' BY DEF Control, TipoControl
  <2>3. (conectado \in [{"despacho", "interrupcion"} -> BOOLEAN])' BY DEF Control, TipoControl
  <2>4. (fd_abierto \in BOOLEAN /\ syscall_en_proceso \in BOOLEAN)' BY DEF Control, TipoControl
  <2>5. (instrucciones_ejecutadas \in Nat)' BY DEF Control, TipoControl
  <2> QED BY <2>1, <2>2, <2>3, <2>4, <2>5 DEF TipoControl
<1>2. PendienteBien' BY DEF Control, PendienteBien
<1>3. ManosBien' BY DEF Control, TipoControl, PendienteBien, ManosBien, ManoAMano
<1>4. ArchivoBien' BY DEF Control, TipoControl, ArchivoBien
<1>5. CicloBien'
  BY SupuestoLimites DEF Control, TipoControl, ArchivoBien, CicloBien, Antes, Bucle, ArchivoTomado
<1> QED BY <1>1, <1>2, <1>3, <1>4, <1>5 DEF Control

LEMMA ControlAnunciarArchivo == ASSUME Control, AnunciarArchivo PROVE Control'
<1> USE Nombres DEF AnunciarArchivo, fijas, sockets, syscalls, ciclo, kernel, historia
<1>1. TipoControl' BY DEF Control, TipoControl
<1>2. PendienteBien' BY DEF Control, PendienteBien
<1>3. ManosBien' BY DEF Control, TipoControl, PendienteBien, ManosBien, ManoAMano
<1>4. ArchivoBien' BY DEF Control, TipoControl, ArchivoBien
<1>5. CicloBien'
  BY SupuestoLimites DEF Control, TipoControl, ArchivoBien, CicloBien, Antes, Bucle, ArchivoTomado
<1> QED BY <1>1, <1>2, <1>3, <1>4, <1>5 DEF Control

LEMMA ControlAtenderSolicitud == ASSUME Control, AtenderSolicitud PROVE Control'
<1> USE Nombres DEF AtenderSolicitud, fijas, sockets, syscalls, ciclo, kernel, historia
<1>1. TipoControl' BY DEF Control, TipoControl
<1>2. PendienteBien' BY DEF Control, PendienteBien
<1>3. ManosBien' BY DEF Control, TipoControl, PendienteBien, ManosBien, ManoAMano
<1>4. ArchivoBien' BY DEF Control, TipoControl, ArchivoBien
<1>5. CicloBien'
  BY SupuestoLimites DEF Control, TipoControl, ArchivoBien, CicloBien, Antes, Bucle, ArchivoTomado
<1> QED BY <1>1, <1>2, <1>3, <1>4, <1>5 DEF Control

LEMMA ControlLimpiarBuffer == ASSUME Control, LimpiarBuffer PROVE Control'
<1> USE Nombres DEF LimpiarBuffer, fijas, sockets, syscalls, ciclo, kernel, historia
<1>1. TipoControl' BY DEF Control, TipoControl
<1>2. PendienteBien' BY DEF Control, PendienteBien
<1>3. ManosBien' BY DEF Control, TipoControl, PendienteBien, ManosBien, ManoAMano
<1>4. ArchivoBien' BY DEF Control, TipoControl, ArchivoBien
<1>5. CicloBien'
  BY SupuestoLimites DEF Control, TipoControl, ArchivoBien, CicloBien, Antes, Bucle, ArchivoTomado
<1> QED BY <1>1, <1>2, <1>3, <1>4, <1>5 DEF Control

LEMMA ControlCerrarMemoria == ASSUME Control, CerrarMemoria PROVE Control'
<1> USE Nombres DEF CerrarMemoria, fijas, sockets, syscalls, ciclo, kernel, historia
<1>1. TipoControl' BY DEF Control, TipoControl
<1>2. PendienteBien' BY DEF Control, PendienteBien
<1>3. ManosBien' BY DEF Control, TipoControl, PendienteBien, ManosBien, ManoAMano
<1>4. ArchivoBien' BY DEF Control, TipoControl, ArchivoBien
<1>5. CicloBien'
  BY SupuestoLimites DEF Control, TipoControl, ArchivoBien, CicloBien, Antes, Bucle, ArchivoTomado
<1> QED BY <1>1, <1>2, <1>3, <1>4, <1>5 DEF Control

LEMMA ControlAceptarCpu == ASSUME Control, AceptarCpu PROVE Control'
<1> USE Nombres DEF AceptarCpu, fijas, sockets, syscalls, ciclo, kernel, historia
<1>1. TipoControl' BY DEF Control, TipoControl
<1>2. PendienteBien' BY DEF Control, PendienteBien
<1>3. ManosBien' BY DEF Control, TipoControl, PendienteBien, ManosBien, ManoAMano
<1>4. ArchivoBien' BY DEF Control, TipoControl, ArchivoBien
<1>5. CicloBien'
  BY SupuestoLimites DEF Control, TipoControl, ArchivoBien, CicloBien, Antes, Bucle, ArchivoTomado
<1> QED BY <1>1, <1>2, <1>3, <1>4, <1>5 DEF Control

LEMMA ControlRecibirOperacion == ASSUME Control, RecibirOperacion PROVE Control'
<1> USE Nombres DEF RecibirOperacion, fijas, sockets, syscalls, ciclo, kernel, historia
<1>1. TipoControl' BY DEF Control, TipoControl
<1>2. PendienteBien' BY DEF Control, PendienteBien
<1>3. ManosBien' BY DEF Control, TipoControl, PendienteBien, ManosBien, ManoAMano
<1>4. ArchivoBien' BY DEF Control, TipoControl, ArchivoBien
<1>5. CicloBien'
  BY SupuestoLimites DEF Control, TipoControl, ArchivoBien, CicloBien, Antes, Bucle, ArchivoTomado
<1> QED BY <1>1, <1>2, <1>3, <1>4, <1>5 DEF Control

LEMMA ControlProcesarSyscall == ASSUME Control, ProcesarSyscall PROVE Control'
<1> USE Nombres DEF ProcesarSyscall, fijas, sockets, syscalls, ciclo, kernel, historia
<1>1. TipoControl' BY DEF Control, TipoControl
<1>2. PendienteBien' BY DEF Control, PendienteBien
<1>3. ManosBien' BY DEF Control, TipoControl, PendienteBien, ManosBien, ManoAMano
<1>4. ArchivoBien' BY DEF Control, TipoControl, ArchivoBien
<1>5. CicloBien'
  BY SupuestoLimites DEF Control, TipoControl, ArchivoBien, CicloBien, Antes, Bucle, ArchivoTomado
<1> QED BY <1>1, <1>2, <1>3, <1>4, <1>5 DEF Control

LEMMA ControlResponderSyscall == ASSUME Control, ResponderSyscall PROVE Control'
<1> USE Nombres DEF ResponderSyscall, fijas, sockets, syscalls, ciclo, kernel, historia, Responde
<1>1. TipoControl' BY DEF Control, TipoControl
<1>2. PendienteBien' BY DEF Control, PendienteBien
<1>3. ManosBien' BY DEF Control, TipoControl, PendienteBien, ManosBien, ManoAMano
<1>4. ArchivoBien' BY DEF Control, TipoControl, ArchivoBien
<1>5. CicloBien'
  BY SupuestoLimites DEF Control, TipoControl, ArchivoBien, CicloBien, Antes, Bucle, ArchivoTomado
<1> QED BY <1>1, <1>2, <1>3, <1>4, <1>5 DEF Control

LEMMA ControlResponderTam == ASSUME Control, ResponderTam PROVE Control'
<1> USE Nombres DEF ResponderTam, fijas, sockets, syscalls, ciclo, kernel, historia
<1>1. TipoControl' BY DEF Control, TipoControl
<1>2. PendienteBien' BY DEF Control, PendienteBien
<1>3. ManosBien' BY DEF Control, TipoControl, PendienteBien, ManosBien, ManoAMano
<1>4. ArchivoBien' BY DEF Control, TipoControl, ArchivoBien
<1>5. CicloBien'
  BY SupuestoLimites DEF Control, TipoControl, ArchivoBien, CicloBien, Antes, Bucle, ArchivoTomado
<1> QED BY <1>1, <1>2, <1>3, <1>4, <1>5 DEF Control

LEMMA ControlReplanificarEnVano == ASSUME Control, ReplanificarEnVano PROVE Control'
<1> USE Nombres DEF ReplanificarEnVano, fijas, sockets, syscalls, ciclo, kernel, historia
<1>1. TipoControl' BY DEF Control, TipoControl
<1>2. PendienteBien' BY DEF Control, PendienteBien
<1>3. ManosBien' BY DEF Control, TipoControl, PendienteBien, ManosBien, ManoAMano
<1>4. ArchivoBien' BY DEF Control, TipoControl, ArchivoBien
<1>5. CicloBien'
  BY SupuestoLimites DEF Control, TipoControl, ArchivoBien, CicloBien, Antes, Bucle, ArchivoTomado
<1> QED BY <1>1, <1>2, <1>3, <1>4, <1>5 DEF Control

LEMMA ControlEnviarPcb == ASSUME NEW h \in {"kernel", "corto"}, Control, EnviarPcb(h) PROVE Control'
<1> USE Nombres DEF EnviarPcb, fijas, sockets, syscalls, ciclo, kernel, historia, EnviandoPcb
<1>1. TipoControl' BY DEF Control, TipoControl
<1>2. PendienteBien' BY DEF Control, PendienteBien
<1>3. ManosBien' BY DEF Control, TipoControl, PendienteBien, ManosBien, ManoAMano
<1>4. ArchivoBien' BY DEF Control, TipoControl, ArchivoBien
<1>5. CicloBien'
  BY SupuestoLimites DEF Control, TipoControl, ArchivoBien, CicloBien, Antes, Bucle, ArchivoTomado
<1> QED BY <1>1, <1>2, <1>3, <1>4, <1>5 DEF Control

LEMMA ControlEnviarTamPcb ==
    ASSUME NEW h \in {"kernel", "corto"}, Control, EnviarTamPcb(h) PROVE Control'
<1> USE Nombres DEF EnviarTamPcb, fijas, sockets, syscalls, ciclo, kernel, historia
<1>1. TipoControl' BY DEF Control, TipoControl
<1>2. PendienteBien' BY DEF Control, PendienteBien
<1>3. ManosBien' BY DEF Control, TipoControl, PendienteBien, ManosBien, ManoAMano
<1>4. ArchivoBien' BY DEF Control, TipoControl, ArchivoBien
<1>5. CicloBien'
  BY SupuestoLimites DEF Control, TipoControl, ArchivoBien, CicloBien, Antes, Bucle, ArchivoTomado
<1> QED BY <1>1, <1>2, <1>3, <1>4, <1>5 DEF Control

LEMMA ControlEnviarDatosPcb ==
    ASSUME NEW h \in {"kernel", "corto"}, Control, EnviarDatosPcb(h) PROVE Control'
<1> USE Nombres DEF EnviarDatosPcb, fijas, sockets, syscalls, ciclo, kernel, historia
<1>1. TipoControl' BY DEF Control, TipoControl
<1>2. PendienteBien' BY DEF Control, PendienteBien
<1>3. ManosBien' BY DEF Control, TipoControl, PendienteBien, ManosBien, ManoAMano
<1>4. ArchivoBien' BY DEF Control, TipoControl, ArchivoBien
<1>5. CicloBien'
  BY SupuestoLimites DEF Control, TipoControl, ArchivoBien, CicloBien, Antes, Bucle, ArchivoTomado
<1> QED BY <1>1, <1>2, <1>3, <1>4, <1>5 DEF Control

LEMMA ControlSinCambio == ASSUME Control, UNCHANGED vars PROVE Control'
BY DEF vars, fijas, syscalls, ciclo, kernel, historia, Control, TipoControl, PendienteBien,
       ManosBien, ManoAMano, ArchivoBien, CicloBien, Antes, Bucle, ArchivoTomado

LEMMA ControlPaso == Control /\ [Next]_vars => Control'
<1> SUFFICES ASSUME Control, [Next]_vars PROVE Control' OBVIOUS
<1>1. CASE Principal
  BY <1>1, ControlEsperarKernel, ControlIniciarCpu, ControlRecibirCodigoPcb, ControlLeerPcb,
     ControlCiclo, ControlEsperarArchivo, ControlEnviarSolicitud, ControlEnviarTamSolicitud,
     ControlRecibirRespuesta, ControlProcesarInstruccion, ControlEsperarSyscall DEF Principal
<1>2. CASE Despacho \/ Interrupcion
  BY <1>2, ControlConectarKernel, ControlTomarSyscall, ControlEnviarSyscall, ControlConfirmar
  DEF Despacho, Interrupcion
<1>3. CASE Conexion \/ HiloMemoria
  BY <1>3, ControlConectarMemoria, ControlRecibirArchivoListo, ControlAnunciarArchivo,
     ControlAtenderSolicitud, ControlLimpiarBuffer, ControlCerrarMemoria
  DEF Conexion, HiloMemoria
<1>4. CASE HiloKernel \/ HiloCorto
  BY <1>4, ControlAceptarCpu, ControlRecibirOperacion, ControlProcesarSyscall,
     ControlResponderSyscall, ControlResponderTam, ControlReplanificarEnVano, ControlEnviarPcb,
     ControlEnviarTamPcb, ControlEnviarDatosPcb
  DEF HiloKernel, HiloCorto, TerminarPcb
<1>5. CASE UNCHANGED vars BY <1>5, ControlSinCambio
<1> QED BY <1>1, <1>2, <1>3, <1>4, <1>5 DEF Next

\* The threads of the CPU, and their semaphores, are always as Control says.
THEOREM ControlSiempre == Spec => []Control
BY ControlInicial, ControlPaso, PTL DEF Spec

\* The hand-over of instruccion_pendiente between principal and despacho, whatever the
\* kernel and memory put in the sockets: it is never overwritten nor confirmed for
\* another instruction.
THEOREM ManoAManoSiempre == Spec => []ManoAMano
<1>1. Control => ManoAMano BY DEF Control, ManosBien
<1> QED BY <1>1, ControlSiempre, PTL

----------------------------------------------------------------------------
(* How far the CPU runs ahead of the kernel: an account of the words of the *)
(* dispatch socket.                                                         *)

EsSecuencia(s) == \E S : s \in Seq(S)

\* The words the kernel has still to send of what it has begun.
FaltanDelKernel ==
    IF pc["kernel"] \in {"responder", "responder_exit"} THEN 2
    ELSE IF pc["kernel"] \in {"tam", "tam_exit"} THEN 1
    ELSE IF En("kernel", "pcb_tam") THEN TAM_PCB + 1
    ELSE IF En("kernel", "pcb_datos") THEN TAM_PCB ELSE 0
FaltanDeCorto == IF En("corto", "pcb_tam") THEN TAM_PCB + 1
                 ELSE IF En("corto", "pcb_datos") THEN TAM_PCB ELSE 0
\* The words of its process principal has read, at the least.
DelPcb == IF En("principal", "leer_pcb") THEN 1 ELSE IF Antes THEN 0 ELSE TAM_PCB + 2
DePcbs == (TAM_PCB + 2) * despachos

TipoCuenta ==
    /\ deKernel \in Seq(Palabras) /\ EsSecuencia(atendidas)
    /\ despachos \in Nat /\ confirmadas \in Nat
Saldo == Len(deKernel) + FaltanDelKernel + FaltanDeCorto + confirmadas + DelPcb
             <= DePcbs + 2 * Len(atendidas)
Cuenta == TipoCuenta /\ Saldo

LEMMA CuentaInicial == Init => Cuenta
<1> SUFFICES ASSUME Init PROVE Cuenta OBVIOUS
<1>1. /\ pc["principal"] = "esperar_kernel" /\ pc["kernel"] = "aceptar"
      /\ pc["corto"] = "esperar"
  BY Nombres DEF Init
<1>2. TipoCuenta BY DEF Init, TipoCuenta, EsSecuencia
<1>3. Saldo
  BY <1>1, SupuestoLimites DEF Init, Saldo, FaltanDelKernel, FaltanDeCorto, DelPcb, Antes, DePcbs
<1> QED BY <1>2, <1>3 DEF Cuenta

\* What reading and writing do to the dispatch socket.
LEMMA LeerPalabra ==
    ASSUME NEW s \in Seq(Palabras), s # <<>>
    PROVE  /\ Head(s) \in Palabras /\ Head(s).n \in Nat
           /\ Tail(s) \in Seq(Palabras) /\ Len(Tail(s)) = Len(s) - 1 /\ Len(s) \in Nat \ {0}
<1>1. /\ Head(s) \in Palabras /\ Tail(s) \in Seq(Palabras)
      /\ Len(Tail(s)) = Len(s) - 1 /\ Len(s) \in Nat \ {0}
  BY HeadTailProperties, EmptySeq
<1> QED BY <1>1 DEF Palabras

LEMMA Sumandos ==
    /\ FaltanDelKernel \in Nat /\ FaltanDeCorto \in Nat /\ DelPcb \in Nat
    /\ TipoCuenta => DePcbs \in Nat
BY SupuestoLimites DEF FaltanDelKernel, FaltanDeCorto, DelPcb, Antes, DePcbs, TipoCuenta

LEMMA SumandosDespues ==
    /\ FaltanDelKernel' \in Nat /\ FaltanDeCorto' \in Nat /\ DelPcb' \in Nat
    /\ TipoCuenta' => DePcbs' \in Nat
BY SupuestoLimites DEF FaltanDelKernel, FaltanDeCorto, DelPcb, Antes, DePcbs, TipoCuenta

LEMMA UnDespachoMas ==
    ASSUME despachos \in Nat, despachos' = despachos + 1
    PROVE  DePcbs' = DePcbs + TAM_PCB + 2
BY SupuestoLimites DEF DePcbs

LEMMA EscribirPalabra ==
    ASSUME NEW s \in Seq(Palabras), NEW p \in Palabras
    PROVE  /\ Append(s, p) \in Seq(Palabras) /\ Len(Append(s, p)) = Len(s) + 1
           /\ Len(s) \in Nat
BY AppendProperties, LenProperties

LEMMA LeerPaquete ==
    ASSUME NEW s \in Seq(Palabras), HayPaquete(s)
    PROVE  /\ TrasPaquete(s) \in Seq(Palabras)
           /\ Len(TrasPaquete(s)) = Len(s) - Head(s).n - 1
           /\ Head(s).n \in Nat /\ Len(s) \in Nat
<1>1. Head(s).n \in Nat /\ Len(s) \in Nat BY LeerPalabra, LenProperties DEF HayPaquete
<1>2. \A i \in Head(s).n + 2 .. Len(s) : s[i] \in Palabras BY <1>1, ElementOfSeq
<1> QED BY <1>1, <1>2, SubSeqProperties DEF TrasPaquete, HayPaquete

LEMMA PalabrasDelKernel ==
    /\ Palabra("PCB_A_EJECUTAR", 0) \in Palabras /\ Palabra("RESPUESTA", 0) \in Palabras
    /\ Tam(0) \in Palabras /\ Tam(TAM_PCB) \in Palabras
    /\ \A n \in Nat : Palabra("datos", n) \in Palabras
BY SupuestoLimites DEF Palabra, Palabras, Codigos, Tam

LEMMA EscribirDatos ==
    ASSUME NEW s \in Seq(Palabras), NEW n \in Nat
    PROVE  LET datos == [i \in 1..TAM_PCB |-> Palabra("datos", n)]
           IN  s \o datos \in Seq(Palabras) /\ Len(s \o datos) = Len(s) + TAM_PCB /\ Len(s) \in Nat
<1> DEFINE datos == [i \in 1..TAM_PCB |-> Palabra("datos", n)]
<1>1. datos \in Seq(Palabras) /\ Len(datos) = TAM_PCB BY SupuestoLimites, PalabrasDelKernel
<1> HIDE DEF datos
<1>2. s \o datos \in Seq(Palabras) /\ Len(s \o datos) = Len(s) + TAM_PCB /\ Len(s) \in Nat
  BY <1>1, ConcatProperties, LenProperties
<1> QED BY <1>2 DEF datos

LEMMA AgregarUna ==
    ASSUME NEW s, NEW e, EsSecuencia(s)
    PROVE  EsSecuencia(Append(s, e)) /\ Len(Append(s, e)) = Len(s) + 1 /\ Len(s) \in Nat
<1>1. PICK S : s \in Seq(S) BY DEF EsSecuencia
<1>2. s \in Seq(S \cup {e}) BY <1>1, SeqMonotonic
<1> QED BY <1>2, AppendProperties, LenProperties DEF EsSecuencia

\* Every action keeps the account.
LEMMA CuentaEsperarKernel == ASSUME Control, Cuenta, EsperarKernel PROVE Cuenta'
<1> USE Nombres, SupuestoLimites DEF EsperarKernel, fijas, sockets, syscalls, ciclo, kernel,
     historia
<1>1. TipoCuenta' BY DEF Cuenta, TipoCuenta, EsSecuencia
<1>2. Saldo'
  BY DEF Control, TipoControl, CicloBien, Cuenta, TipoCuenta, Saldo, FaltanDelKernel,
     FaltanDeCorto, DelPcb, Antes, DePcbs
<1> QED BY <1>1, <1>2 DEF Cuenta

LEMMA CuentaIniciarCpu == ASSUME Control, Cuenta, IniciarCpu PROVE Cuenta'
<1> USE Nombres, SupuestoLimites DEF IniciarCpu, fijas, sockets, syscalls, ciclo, kernel, historia
<1>1. TipoCuenta' BY DEF Cuenta, TipoCuenta, EsSecuencia
<1>2. Saldo'
  BY DEF Control, TipoControl, CicloBien, Cuenta, TipoCuenta, Saldo, FaltanDelKernel,
     FaltanDeCorto, DelPcb, Antes, DePcbs
<1> QED BY <1>1, <1>2 DEF Cuenta

LEMMA CuentaRecibirCodigoPcb == ASSUME Control, Cuenta, RecibirCodigoPcb PROVE Cuenta'
<1> USE Nombres, SupuestoLimites DEF RecibirCodigoPcb, fijas, sockets, syscalls, ciclo, kernel,
     historia
<1>1. deKernel' \in Seq(Palabras) /\ Len(deKernel') = Len(deKernel) - 1 /\ Len(deKernel) \in Nat
  BY LeerPalabra DEF Cuenta, TipoCuenta
<1>2. TipoCuenta' BY <1>1 DEF Cuenta, TipoCuenta
<1>3. /\ FaltanDelKernel' = FaltanDelKernel /\ FaltanDeCorto' = FaltanDeCorto /\ DePcbs' = DePcbs
      /\ DelPcb' \in {DelPcb, DelPcb + 1}
  BY <1>1 DEF Control, TipoControl, CicloBien, Cuenta, TipoCuenta, FaltanDelKernel, FaltanDeCorto,
     DelPcb, Antes, DePcbs
<1>4. Saldo'
  BY <1>1, <1>3, Sumandos, SumandosDespues DEF Cuenta, TipoCuenta, Saldo
<1> QED BY <1>2, <1>4 DEF Cuenta

LEMMA CuentaLeerPcb == ASSUME Control, Cuenta, LeerPcb PROVE Cuenta'
<1> USE Nombres, SupuestoLimites DEF LeerPcb, fijas, sockets, syscalls, ciclo, kernel, historia
<1>1. /\ deKernel' \in Seq(Palabras) /\ Len(deKernel') = Len(deKernel) - Head(deKernel).n - 1
      /\ Head(deKernel).n \in Nat /\ Len(deKernel) \in Nat
  BY LeerPaquete DEF Cuenta, TipoCuenta
<1>2. TipoCuenta' BY <1>1 DEF Cuenta, TipoCuenta
<1>3. /\ FaltanDelKernel' = FaltanDelKernel /\ FaltanDeCorto' = FaltanDeCorto /\ DePcbs' = DePcbs
      /\ DelPcb = 1
      /\ \/ DelPcb' = 0
         \/ DelPcb' = TAM_PCB + 2 /\ Head(deKernel).n = TAM_PCB
  BY <1>1 DEF Control, TipoControl, CicloBien, Cuenta, TipoCuenta, FaltanDelKernel, FaltanDeCorto,
     DelPcb, Antes, DePcbs
<1>4. Len(deKernel') + DelPcb' <= Len(deKernel) + DelPcb
  BY <1>1, <1>3
<1>5. confirmadas' = confirmadas /\ atendidas' = atendidas /\ Len(deKernel') \in Nat
  BY <1>1
<1> HIDE DEF LeerPcb
<1>6. Len(atendidas) \in Nat BY LenProperties DEF Cuenta, TipoCuenta, EsSecuencia
<1>7. Saldo'
  <2> DEFINE resto == FaltanDelKernel + FaltanDeCorto + confirmadas
             haber == DePcbs + 2 * Len(atendidas)
  <2>1. resto \in Nat /\ haber \in Nat /\ Len(deKernel) + resto + DelPcb <= haber
    BY <1>1, <1>6, Sumandos DEF Cuenta, TipoCuenta, Saldo
  <2>2. Len(deKernel') + resto + DelPcb' <= haber
    <3> HIDE DEF resto, haber
    <3> QED BY <1>1, <1>4, <1>5, <2>1, Sumandos, SumandosDespues
  <2> QED BY <1>1, <1>3, <1>5, <1>6, <2>2, Sumandos, SumandosDespues DEF Cuenta, TipoCuenta, Saldo
<1> QED BY <1>2, <1>7 DEF Cuenta

LEMMA CuentaCiclo == ASSUME Control, Cuenta, Ciclo PROVE Cuenta'
<1> USE Nombres, SupuestoLimites DEF Ciclo, fijas, sockets, syscalls, ciclo, kernel, historia,
     Termina
<1>2. TipoCuenta' BY DEF Cuenta, TipoCuenta, EsSecuencia
<1>3. FaltanDelKernel' = FaltanDelKernel /\ FaltanDeCorto' = FaltanDeCorto /\ DelPcb' = DelPcb /\ DePcbs' = DePcbs
  BY DEF Control, TipoControl, CicloBien, Cuenta, TipoCuenta, FaltanDelKernel, FaltanDeCorto,
     DelPcb, Antes, DePcbs
<1>4. Saldo'
  BY <1>3, Sumandos, SumandosDespues DEF Cuenta, TipoCuenta, Saldo
<1> QED BY <1>2, <1>4 DEF Cuenta

LEMMA CuentaEsperarArchivo == ASSUME Control, Cuenta, EsperarArchivo PROVE Cuenta'
<1> USE Nombres, SupuestoLimites DEF EsperarArchivo, fijas, sockets, syscalls, ciclo, kernel,
     historia
<1>1. TipoCuenta' BY DEF Cuenta, TipoCuenta, EsSecuencia
<1>2. Saldo'
  BY DEF Control, TipoControl, CicloBien, Cuenta, TipoCuenta, Saldo, FaltanDelKernel,
     FaltanDeCorto, DelPcb, Antes, DePcbs
<1> QED BY <1>1, <1>2 DEF Cuenta

LEMMA CuentaEnviarSolicitud == ASSUME Control, Cuenta, EnviarSolicitud PROVE Cuenta'
<1> USE Nombres, SupuestoLimites DEF EnviarSolicitud, fijas, sockets, syscalls, ciclo, kernel,
     historia, LlegaAMemoria
<1>1. TipoCuenta' BY DEF Cuenta, TipoCuenta, EsSecuencia
<1>2. Saldo'
  BY DEF Control, TipoControl, CicloBien, Cuenta, TipoCuenta, Saldo, FaltanDelKernel,
     FaltanDeCorto, DelPcb, Antes, DePcbs
<1> QED BY <1>1, <1>2 DEF Cuenta

LEMMA CuentaEnviarTamSolicitud == ASSUME Control, Cuenta, EnviarTamSolicitud PROVE Cuenta'
<1> USE Nombres, SupuestoLimites DEF EnviarTamSolicitud, fijas, sockets, syscalls, ciclo, kernel,
     historia
<1>1. TipoCuenta' BY DEF Cuenta, TipoCuenta, EsSecuencia
<1>2. Saldo'
  BY DEF Control, TipoControl, CicloBien, Cuenta, TipoCuenta, Saldo, FaltanDelKernel,
     FaltanDeCorto, DelPcb, Antes, DePcbs
<1> QED BY <1>1, <1>2 DEF Cuenta

LEMMA CuentaRecibirRespuesta == ASSUME Control, Cuenta, RecibirRespuesta PROVE Cuenta'
<1> USE Nombres, SupuestoLimites DEF RecibirRespuesta, fijas, sockets, syscalls, ciclo, kernel,
     historia, Seguir
<1>1. TipoCuenta' BY DEF Cuenta, TipoCuenta, EsSecuencia
<1>2. Saldo'
  BY DEF Control, TipoControl, CicloBien, Cuenta, TipoCuenta, Saldo, FaltanDelKernel,
     FaltanDeCorto, DelPcb, Antes, DePcbs
<1> QED BY <1>1, <1>2 DEF Cuenta

LEMMA CuentaProcesarInstruccion == ASSUME Control, Cuenta, ProcesarInstruccion PROVE Cuenta'
<1> USE Nombres, SupuestoLimites DEF ProcesarInstruccion, fijas, sockets, syscalls, ciclo, kernel,
     historia
<1>1. TipoCuenta' BY DEF Cuenta, TipoCuenta, EsSecuencia
<1>2. Saldo'
  BY DEF Control, TipoControl, CicloBien, Cuenta, TipoCuenta, Saldo, FaltanDelKernel,
     FaltanDeCorto, DelPcb, Antes, DePcbs
<1> QED BY <1>1, <1>2 DEF Cuenta

LEMMA CuentaEsperarSyscall == ASSUME Control, Cuenta, EsperarSyscall PROVE Cuenta'
<1> USE Nombres, SupuestoLimites DEF EsperarSyscall, fijas, sockets, syscalls, ciclo, kernel,
     historia, SyscallProcesada
<1>1. TipoCuenta' BY DEF Cuenta, TipoCuenta, EsSecuencia
<1>2. Saldo'
  BY DEF Control, TipoControl, CicloBien, Cuenta, TipoCuenta, Saldo, FaltanDelKernel,
     FaltanDeCorto, DelPcb, Antes, DePcbs
<1> QED BY <1>1, <1>2 DEF Cuenta

LEMMA CuentaConectarKernel == ASSUME NEW h, Control, Cuenta, ConectarKernel(h) PROVE Cuenta'
<1> USE Nombres, SupuestoLimites DEF ConectarKernel, fijas, sockets, syscalls, ciclo, kernel,
     historia
<1>1. TipoCuenta' BY DEF Cuenta, TipoCuenta, EsSecuencia
<1>2. Saldo'
  BY DEF Control, TipoControl, CicloBien, Cuenta, TipoCuenta, Saldo, FaltanDelKernel,
     FaltanDeCorto, DelPcb, Antes, DePcbs
<1> QED BY <1>1, <1>2 DEF Cuenta

LEMMA CuentaTomarSyscall == ASSUME Control, Cuenta, TomarSyscall PROVE Cuenta'
<1> USE Nombres, SupuestoLimites DEF TomarSyscall, fijas, sockets, syscalls, ciclo, kernel, historia
<1>1. TipoCuenta' BY DEF Cuenta, TipoCuenta, EsSecuencia
<1>2. Saldo'
  BY DEF Control, TipoControl, CicloBien, Cuenta, TipoCuenta, Saldo, FaltanDelKernel,
     FaltanDeCorto, DelPcb, Antes, DePcbs
<1> QED BY <1>1, <1>2 DEF Cuenta

LEMMA CuentaEnviarSyscall == ASSUME Control, Cuenta, EnviarSyscall PROVE Cuenta'
<1> USE Nombres, SupuestoLimites DEF EnviarSyscall, fijas, sockets, syscalls, ciclo, kernel,
     historia
<1>1. TipoCuenta' BY DEF Cuenta, TipoCuenta, EsSecuencia
<1>2. Saldo'
  BY DEF Control, TipoControl, CicloBien, Cuenta, TipoCuenta, Saldo, FaltanDelKernel,
     FaltanDeCorto, DelPcb, Antes, DePcbs
<1> QED BY <1>1, <1>2 DEF Cuenta

LEMMA CuentaConfirmar == ASSUME Control, Cuenta, Confirmar PROVE Cuenta'
<1> USE Nombres, SupuestoLimites DEF Confirmar, fijas, sockets, syscalls, ciclo, kernel, historia,
     Avisar, QuitarPalabra
<1>1. deKernel' \in Seq(Palabras) /\ Len(deKernel') = Len(deKernel) - 1 /\ Len(deKernel) \in Nat
  BY LeerPalabra DEF Cuenta, TipoCuenta
<1>2. TipoCuenta' BY <1>1 DEF Cuenta, TipoCuenta
<1>3. FaltanDelKernel' = FaltanDelKernel /\ FaltanDeCorto' = FaltanDeCorto /\ DelPcb' = DelPcb /\ DePcbs' = DePcbs
  BY <1>1 DEF Control, TipoControl, CicloBien, Cuenta, TipoCuenta, FaltanDelKernel, FaltanDeCorto,
     DelPcb, Antes, DePcbs
<1>4. Saldo'
  BY <1>1, <1>3, Sumandos, SumandosDespues DEF Cuenta, TipoCuenta, Saldo
<1> QED BY <1>2, <1>4 DEF Cuenta

LEMMA CuentaConectarMemoria == ASSUME Control, Cuenta, ConectarMemoria PROVE Cuenta'
<1> USE Nombres, SupuestoLimites DEF ConectarMemoria, fijas, sockets, syscalls, ciclo, kernel,
     historia
<1>1. TipoCuenta' BY DEF Cuenta, TipoCuenta, EsSecuencia
<1>2. Saldo'
  BY DEF Control, TipoControl, CicloBien, Cuenta, TipoCuenta, Saldo, FaltanDelKernel,
     FaltanDeCorto, DelPcb, Antes, DePcbs
<1> QED BY <1>1, <1>2 DEF Cuenta

LEMMA CuentaRecibirArchivoListo == ASSUME Control, Cuenta, RecibirArchivoListo PROVE Cuenta'
<1> USE Nombres, SupuestoLimites DEF RecibirArchivoListo, fijas, sockets, syscalls, ciclo, kernel,
     historia
<1>1. TipoCuenta' BY DEF Cuenta, TipoCuenta, EsSecuencia
<1>2. Saldo'
  BY DEF Control, TipoControl, CicloBien, Cuenta, TipoCuenta, Saldo, FaltanDelKernel,
     FaltanDeCorto, DelPcb, Antes, DePcbs
<1> QED BY <1>1, <1>2 DEF Cuenta

LEMMA CuentaAnunciarArchivo == ASSUME Control, Cuenta, AnunciarArchivo PROVE Cuenta'
<1> USE Nombres, SupuestoLimites DEF AnunciarArchivo, fijas, sockets, syscalls, ciclo, kernel,
     historia
<1>1. TipoCuenta' BY DEF Cuenta, TipoCuenta, EsSecuencia
<1>2. Saldo'
  BY DEF Control, TipoControl, CicloBien, Cuenta, TipoCuenta, Saldo, FaltanDelKernel,
     FaltanDeCorto, DelPcb, Antes, DePcbs
<1> QED BY <1>1, <1>2 DEF Cuenta

LEMMA CuentaAtenderSolicitud == ASSUME Control, Cuenta, AtenderSolicitud PROVE Cuenta'
<1> USE Nombres, SupuestoLimites DEF AtenderSolicitud, fijas, sockets, syscalls, ciclo, kernel,
     historia
<1>1. TipoCuenta' BY DEF Cuenta, TipoCuenta, EsSecuencia
<1>2. Saldo'
  BY DEF Control, TipoControl, CicloBien, Cuenta, TipoCuenta, Saldo, FaltanDelKernel,
     FaltanDeCorto, DelPcb, Antes, DePcbs
<1> QED BY <1>1, <1>2 DEF Cuenta

LEMMA CuentaLimpiarBuffer == ASSUME Control, Cuenta, LimpiarBuffer PROVE Cuenta'
<1> USE Nombres, SupuestoLimites DEF LimpiarBuffer, fijas, sockets, syscalls, ciclo, kernel,
     historia
<1>1. TipoCuenta' BY DEF Cuenta, TipoCuenta, EsSecuencia
<1>2. Saldo'
  BY DEF Control, TipoControl, CicloBien, Cuenta, TipoCuenta, Saldo, FaltanDelKernel,
     FaltanDeCorto, DelPcb, Antes, DePcbs
<1> QED BY <1>1, <1>2 DEF Cuenta

LEMMA CuentaCerrarMemoria == ASSUME Control, Cuenta, CerrarMemoria PROVE Cuenta'
<1> USE Nombres, SupuestoLimites DEF CerrarMemoria, fijas, sockets, syscalls, ciclo, kernel,
     historia
<1>1. TipoCuenta' BY DEF Cuenta, TipoCuenta, EsSecuencia
<1>2. Saldo'
  BY DEF Control, TipoControl, CicloBien, Cuenta, TipoCuenta, Saldo, FaltanDelKernel,
     FaltanDeCorto, DelPcb, Antes, DePcbs
<1> QED BY <1>1, <1>2 DEF Cuenta

LEMMA CuentaAceptarCpu == ASSUME Control, Cuenta, AceptarCpu PROVE Cuenta'
<1> USE Nombres, SupuestoLimites DEF AceptarCpu, fijas, sockets, syscalls, ciclo, kernel, historia
<1>1. TipoCuenta' BY DEF Cuenta, TipoCuenta, EsSecuencia
<1>2. Saldo'
  BY DEF Control, TipoControl, CicloBien, Cuenta, TipoCuenta, Saldo, FaltanDelKernel,
     FaltanDeCorto, DelPcb, Antes, DePcbs
<1> QED BY <1>1, <1>2 DEF Cuenta

LEMMA CuentaRecibirOperacion == ASSUME Control, Cuenta, RecibirOperacion PROVE Cuenta'
<1> USE Nombres, SupuestoLimites DEF RecibirOperacion, fijas, sockets, syscalls, ciclo, kernel,
     historia
<1>1. TipoCuenta' BY DEF Cuenta, TipoCuenta, EsSecuencia
<1>2. Saldo'
  BY DEF Control, TipoControl, CicloBien, Cuenta, TipoCuenta, Saldo, FaltanDelKernel,
     FaltanDeCorto, DelPcb, Antes, DePcbs
<1> QED BY <1>1, <1>2 DEF Cuenta

LEMMA CuentaProcesarSyscall == ASSUME Control, Cuenta, ProcesarSyscall PROVE Cuenta'
<1> USE Nombres, SupuestoLimites DEF ProcesarSyscall, fijas, sockets, syscalls, ciclo, kernel,
     historia
<1>1. EsSecuencia(atendidas') /\ Len(atendidas') = Len(atendidas) + 1 /\ Len(atendidas) \in Nat
  BY AgregarUna DEF Cuenta, TipoCuenta
<1>2. TipoCuenta' BY <1>1 DEF Cuenta, TipoCuenta
<1>3. /\ FaltanDeCorto' = FaltanDeCorto /\ DelPcb' = DelPcb /\ DePcbs' = DePcbs
      /\ FaltanDelKernel = 0 /\ FaltanDelKernel' = 2
  BY <1>1 DEF Control, TipoControl, CicloBien, Cuenta, TipoCuenta, FaltanDelKernel, FaltanDeCorto,
     DelPcb, Antes, DePcbs
<1>4. Saldo'
  BY <1>1, <1>3, Sumandos, SumandosDespues DEF Cuenta, TipoCuenta, Saldo
<1> QED BY <1>2, <1>4 DEF Cuenta

LEMMA CuentaResponderSyscall == ASSUME Control, Cuenta, ResponderSyscall PROVE Cuenta'
<1> USE Nombres, SupuestoLimites DEF ResponderSyscall, fijas, sockets, syscalls, ciclo, kernel,
     historia, Responde
<1>1. deKernel' \in Seq(Palabras) /\ Len(deKernel') = Len(deKernel) + 1 /\ Len(deKernel) \in Nat
  BY EscribirPalabra, PalabrasDelKernel DEF Cuenta, TipoCuenta
<1>2. TipoCuenta' BY <1>1 DEF Cuenta, TipoCuenta
<1>3. Saldo'
  BY <1>1 DEF Control, TipoControl, CicloBien, Cuenta, TipoCuenta, Saldo, FaltanDelKernel,
     FaltanDeCorto, DelPcb, Antes, DePcbs
<1> QED BY <1>2, <1>3 DEF Cuenta

LEMMA CuentaResponderTam == ASSUME Control, Cuenta, ResponderTam PROVE Cuenta'
<1> USE Nombres, SupuestoLimites DEF ResponderTam, fijas, sockets, syscalls, ciclo, kernel, historia
<1>1. deKernel' \in Seq(Palabras) /\ Len(deKernel') = Len(deKernel) + 1 /\ Len(deKernel) \in Nat
  BY EscribirPalabra, PalabrasDelKernel DEF Cuenta, TipoCuenta
<1>2. TipoCuenta' BY <1>1 DEF Cuenta, TipoCuenta
<1>3. /\ FaltanDeCorto' = FaltanDeCorto /\ DelPcb' = DelPcb /\ DePcbs' = DePcbs
      /\ FaltanDelKernel = 1 /\ FaltanDelKernel' = 0
  BY <1>1 DEF Control, TipoControl, CicloBien, Cuenta, TipoCuenta, FaltanDelKernel, FaltanDeCorto,
     DelPcb, Antes, DePcbs
<1>4. Saldo'
  BY <1>1, <1>3, Sumandos, SumandosDespues DEF Cuenta, TipoCuenta, Saldo
<1> QED BY <1>2, <1>4 DEF Cuenta

LEMMA CuentaReplanificarEnVano == ASSUME Control, Cuenta, ReplanificarEnVano PROVE Cuenta'
<1> USE Nombres, SupuestoLimites DEF ReplanificarEnVano, fijas, sockets, syscalls, ciclo, kernel,
     historia
<1>1. TipoCuenta' BY DEF Cuenta, TipoCuenta, EsSecuencia
<1>2. Saldo'
  BY DEF Control, TipoControl, CicloBien, Cuenta, TipoCuenta, Saldo, FaltanDelKernel,
     FaltanDeCorto, DelPcb, Antes, DePcbs
<1> QED BY <1>1, <1>2 DEF Cuenta

LEMMA CuentaEnviarPcb ==
    ASSUME NEW h \in {"kernel", "corto"}, Control, Cuenta, EnviarPcb(h) PROVE Cuenta'
<1> USE Nombres, SupuestoLimites DEF EnviarPcb, fijas, sockets, syscalls, ciclo, kernel, historia,
     EnviandoPcb
<1>1. deKernel' \in Seq(Palabras) /\ Len(deKernel') = Len(deKernel) + 1 /\ Len(deKernel) \in Nat
  BY EscribirPalabra, PalabrasDelKernel DEF Cuenta, TipoCuenta
<1>2. TipoCuenta' BY <1>1 DEF Cuenta, TipoCuenta
<1>3. DelPcb' = DelPcb /\ DePcbs' = DePcbs + TAM_PCB + 2
  <2>1. DelPcb' = DelPcb BY DEF Control, TipoControl, DelPcb, Antes
  <2>2. despachos \in Nat /\ despachos' = despachos + 1 BY DEF Cuenta, TipoCuenta
  <2> QED BY <2>1, <2>2, UnDespachoMas
<1>4. CASE h = "kernel"
  <2>1. FaltanDelKernel = 0 /\ FaltanDelKernel' = TAM_PCB + 1 /\ FaltanDeCorto' = FaltanDeCorto
    BY <1>4 DEF Cuenta, TipoCuenta, Control, TipoControl, FaltanDelKernel, FaltanDeCorto
  <2> QED BY <1>1, <1>3, <2>1, <1>2, Sumandos, SumandosDespues DEF Cuenta, TipoCuenta, Saldo
<1>5. CASE h = "corto"
  <2>1. FaltanDeCorto = 0 /\ FaltanDeCorto' = TAM_PCB + 1 /\ FaltanDelKernel' = FaltanDelKernel
    BY <1>5 DEF Cuenta, TipoCuenta, Control, TipoControl, FaltanDelKernel, FaltanDeCorto
  <2> QED BY <1>1, <1>3, <2>1, <1>2, Sumandos, SumandosDespues DEF Cuenta, TipoCuenta, Saldo
<1> QED BY <1>4, <1>5

LEMMA CuentaEnviarTamPcb ==
    ASSUME NEW h \in {"kernel", "corto"}, Control, Cuenta, EnviarTamPcb(h) PROVE Cuenta'
<1> USE Nombres, SupuestoLimites DEF EnviarTamPcb, fijas, sockets, syscalls, ciclo, kernel, historia
<1>1. deKernel' \in Seq(Palabras) /\ Len(deKernel') = Len(deKernel) + 1 /\ Len(deKernel) \in Nat
  BY EscribirPalabra, PalabrasDelKernel DEF Cuenta, TipoCuenta
<1>2. TipoCuenta' BY <1>1 DEF Cuenta, TipoCuenta
<1>3. DelPcb' = DelPcb /\ DePcbs' = DePcbs
  BY DEF Cuenta, TipoCuenta, Control, TipoControl, DelPcb, Antes, DePcbs
<1>4. CASE h = "kernel"
  <2>1. FaltanDelKernel = TAM_PCB + 1 /\ FaltanDelKernel' = TAM_PCB /\ FaltanDeCorto' = FaltanDeCorto
    BY <1>4 DEF Cuenta, TipoCuenta, Control, TipoControl, FaltanDelKernel, FaltanDeCorto
  <2> QED BY <1>1, <1>3, <2>1, <1>2, Sumandos, SumandosDespues DEF Cuenta, TipoCuenta, Saldo
<1>5. CASE h = "corto"
  <2>1. FaltanDeCorto = TAM_PCB + 1 /\ FaltanDeCorto' = TAM_PCB /\ FaltanDelKernel' = FaltanDelKernel
    BY <1>5 DEF Cuenta, TipoCuenta, Control, TipoControl, FaltanDelKernel, FaltanDeCorto
  <2> QED BY <1>1, <1>3, <2>1, <1>2, Sumandos, SumandosDespues DEF Cuenta, TipoCuenta, Saldo
<1> QED BY <1>4, <1>5

LEMMA CuentaEnviarDatosPcb ==
    ASSUME NEW h \in {"kernel", "corto"}, Control, Cuenta, EnviarDatosPcb(h) PROVE Cuenta'
<1> USE Nombres, SupuestoLimites DEF EnviarDatosPcb, fijas, sockets, syscalls, ciclo, kernel,
     historia
<1>1. deKernel' \in Seq(Palabras) /\ Len(deKernel') = Len(deKernel) + TAM_PCB /\ Len(deKernel) \in Nat
  BY EscribirDatos DEF Cuenta, TipoCuenta
<1>2. TipoCuenta' BY <1>1 DEF Cuenta, TipoCuenta
<1>3. DelPcb' = DelPcb /\ DePcbs' = DePcbs
  BY DEF Cuenta, TipoCuenta, Control, TipoControl, DelPcb, Antes, DePcbs
<1>4. CASE h = "kernel"
  <2>1. FaltanDelKernel = TAM_PCB /\ FaltanDelKernel' = 0 /\ FaltanDeCorto' = FaltanDeCorto
    BY <1>4 DEF Cuenta, TipoCuenta, Control, TipoControl, FaltanDelKernel, FaltanDeCorto
  <2> QED BY <1>1, <1>3, <2>1, <1>2, Sumandos, SumandosDespues DEF Cuenta, TipoCuenta, Saldo
<1>5. CASE h = "corto"
  <2>1. FaltanDeCorto = TAM_PCB /\ FaltanDeCorto' = 0 /\ FaltanDelKernel' = FaltanDelKernel
    BY <1>5 DEF Cuenta, TipoCuenta, Control, TipoControl, FaltanDelKernel, FaltanDeCorto
  <2> QED BY <1>1, <1>3, <2>1, <1>2, Sumandos, SumandosDespues DEF Cuenta, TipoCuenta, Saldo
<1> QED BY <1>4, <1>5

LEMMA CuentaSinCambio == ASSUME Cuenta, UNCHANGED vars PROVE Cuenta'
BY DEF vars, sockets, kernel, historia, Cuenta, TipoCuenta, EsSecuencia, Saldo, FaltanDelKernel,
       FaltanDeCorto, DelPcb, Antes, DePcbs

LEMMA CuentaPaso == Control /\ Cuenta /\ [Next]_vars => Cuenta'
<1> SUFFICES ASSUME Control, Cuenta, [Next]_vars PROVE Cuenta' OBVIOUS
<1>1. CASE Principal
  BY <1>1, CuentaEsperarKernel, CuentaIniciarCpu, CuentaRecibirCodigoPcb, CuentaLeerPcb,
     CuentaCiclo, CuentaEsperarArchivo, CuentaEnviarSolicitud, CuentaEnviarTamSolicitud,
     CuentaRecibirRespuesta, CuentaProcesarInstruccion, CuentaEsperarSyscall DEF Principal
<1>2. CASE Despacho \/ Interrupcion
  BY <1>2, CuentaConectarKernel, CuentaTomarSyscall, CuentaEnviarSyscall, CuentaConfirmar
  DEF Despacho, Interrupcion
<1>3. CASE Conexion \/ HiloMemoria
  BY <1>3, CuentaConectarMemoria, CuentaRecibirArchivoListo, CuentaAnunciarArchivo,
     CuentaAtenderSolicitud, CuentaLimpiarBuffer, CuentaCerrarMemoria
  DEF Conexion, HiloMemoria
<1>4. CASE HiloKernel \/ HiloCorto
  BY <1>4, CuentaAceptarCpu, CuentaRecibirOperacion, CuentaProcesarSyscall,
     CuentaResponderSyscall, CuentaResponderTam, CuentaReplanificarEnVano, CuentaEnviarPcb,
     CuentaEnviarTamPcb, CuentaEnviarDatosPcb
  DEF HiloKernel, HiloCorto, TerminarPcb
<1>5. CASE UNCHANGED vars BY <1>5, CuentaSinCambio
<1> QED BY <1>1, <1>2, <1>3, <1>4, <1>5 DEF Next

LEMMA CuentaSiempre == Spec => []Cuenta
<1>1. Control /\ Cuenta /\ [Next]_vars => Cuenta' BY CuentaPaso
<1> QED BY CuentaInicial, <1>1, ControlSiempre, PTL DEF Spec

\* The account bounds the syscalls confirmed: what is in the socket and on its way is not
\* negative, and the first process was read whole.
LEMMA AdelantoDeLaCuenta == Control /\ Cuenta => AdelantoAcotado
<1> SUFFICES ASSUME Control, Cuenta, pcb_en_ejecucion # NINGUNO
             PROVE  confirmadas <= 2 * Len(atendidas) + (TAM_PCB + 2) * (despachos - 1)
  BY DEF AdelantoAcotado
<1>1. DelPcb = TAM_PCB + 2 BY DEF Control, CicloBien, DelPcb, Antes
<1>2. Len(deKernel) \in Nat BY LenProperties DEF Cuenta, TipoCuenta
<1>3. Len(atendidas) \in Nat BY LenProperties DEF Cuenta, TipoCuenta, EsSecuencia
<1>4. (TAM_PCB + 2) * (despachos - 1) = DePcbs - (TAM_PCB + 2)
  BY SupuestoLimites DEF Cuenta, TipoCuenta, DePcbs
<1>5. confirmadas + TAM_PCB + 2 <= DePcbs + 2 * Len(atendidas)
  BY <1>1, <1>2, <1>3, Sumandos, SupuestoLimites DEF Cuenta, TipoCuenta, Saldo
<1> QED BY <1>3, <1>4, <1>5, Sumandos, SupuestoLimites DEF Cuenta, TipoCuenta

\* However many words the kernel has left unread, the syscalls the CPU has taken for
\* processed exceed neither two per syscall the kernel did process nor the words of the
\* PCBs it sent after the first.
THEOREM AdelantoSiempre == Spec => []AdelantoAcotado
BY ControlSiempre, CuentaSiempre, AdelantoDeLaCuenta, PTL
=============================================================================
