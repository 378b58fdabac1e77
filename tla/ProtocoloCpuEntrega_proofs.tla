--------------------- MODULE ProtocoloCpuEntrega_proofs ---------------------
(***************************************************************************)
(* The CPU, memory and the kernel deliver the syscalls of a program as     *)
(* EntregaDeSyscalls says, every variable keeps its type, and no thread of *)
(* the CPU waits for a word that will not come, for every program, size of *)
(* PCB and number of dispatches.                                           *)
(***************************************************************************)
EXTENDS ProtocoloCpu_proofs

----------------------------------------------------------------------------
(* The inductive invariant: what is in the two sockets, and how much of it  *)
(* has been read.                                                           *)

\* The socket from memory, by the place of each word among all those memory sends:
\* the two of the announcement, three for each line and, at the end, two.
PalabraDe(w, p, lineas) ==
    /\ p = 1 => w = Palabra("ARCHIVO_LISTO", 0)
    /\ p = 2 => w = Tam(0)
    /\ \A l \in 1..lineas : /\ p = 3 * l     => w = Palabra("PAQUETE", 0)
                            /\ p = 3 * l + 1 => w = Tam(1)
                            /\ p = 3 * l + 2 => w = Palabra("datos", l)
    /\ p = 3 * lineas + 3 => w = Palabra("EXIT", 0)
    /\ p = 3 * lineas + 4 => w = Tam(0)
Enviadas == IF pc["memoria"] \in {"aceptar", "esperar_archivo"} THEN 0
            ELSE IF En("memoria", "recibir") THEN 3 * linea + 2 ELSE 3 * linea + 4
Leidas   == Enviadas - Len(deMemoria)
MemoriaBien == \A i \in 1..Len(deMemoria) : PalabraDe(deMemoria[i], Leidas + i, linea)

\* How much of it conexion and principal have read: one word, or whole packets, or the
\* code of the packet principal is reading.
LecturaBien ==
    /\ Leidas >= 0
    /\ pc["memoria"] \in {"aceptar", "esperar_archivo"} => linea = 0 /\ ~En("conexion", "fin")
    /\ ~En("conexion", "fin") => Leidas = 0 /\ ejecutadas = 0
    /\ En("conexion", "fin") /\ fd_abierto =>
          IF En("principal", "leer_instruccion")
          THEN Leidas = 3 * ejecutadas + 3 /\ ejecutadas < linea
          ELSE \/ Leidas = 1 /\ ejecutadas = 0
               \/ Leidas = 3 * ejecutadas + 2

\* The socket to the kernel: m packets, of which the kernel may have read the first
\* code; their lines follow the last syscall attended, and none up to the last one
\* executed is missing, but the one despacho has not sent yet.
CodigoLeido == IF En("kernel", "paquete") THEN 1 ELSE 0
PorEnviar   == HayToken("sem_instruccion_lista") \/ En("despacho", "enviar")
Hasta       == IF PorEnviar THEN ejecutadas - 1 ELSE ejecutadas
SinSyscalls(f, a, b) == \A k \in a..b : f[k] \notin Syscalls
LineaEnviada(k) == IF k = 0 THEN Entrega!Ultima ELSE aKernel[3 * k - CodigoLeido].n
Pendientes(m) ==
    /\ Len(aKernel) + CodigoLeido = 3 * m
    /\ m = 0 => CodigoLeido = 0
    /\ \A k \in 0..m : LineaEnviada(k) <= Hasta
    /\ SinSyscalls(archivo, LineaEnviada(m) + 1, Hasta)
    /\ \A k \in 1..m :
          /\ 3 * k - CodigoLeido > 2 => aKernel[3 * k - CodigoLeido - 2] = Palabra("SYSCALL", 0)
          /\ aKernel[3 * k - CodigoLeido - 1] = Tam(1)
          /\ LineaEnviada(k - 1) < LineaEnviada(k)
          /\ archivo[LineaEnviada(k)] \in Syscalls
          /\ SinSyscalls(archivo, LineaEnviada(k - 1) + 1, LineaEnviada(k) - 1)
SyscallsBien ==
    /\ PorEnviar => ejecutadas > 0 /\ archivo[ejecutadas] \in Syscalls
    /\ \E m \in Nat : Pendientes(m)

TipoEntrega ==
    /\ archivo \in Programas /\ linea \in 0..Len(archivo) /\ ejecutadas \in 0..Len(archivo)
    /\ deMemoria \in Seq(Palabras) /\ aKernel \in Seq(Palabras) /\ atendidas \in Seq(Nat)

EntregaBien == TipoEntrega /\ MemoriaBien /\ LecturaBien /\ SyscallsBien

USE DEF En, Ir, HayToken, Publicar, Tomar, IrLosDos, Contesta

\* Reading n words of the socket from memory moves the place of the rest.
LEMMA MemoriaLeida ==
    ASSUME TipoEntrega, MemoriaBien, NEW n \in 0..Len(deMemoria), linea' = linea,
           Enviadas' = Enviadas, Len(deMemoria') = Len(deMemoria) - n,
           \A i \in 1..Len(deMemoria') : deMemoria'[i] = deMemoria[i + n]
    PROVE  MemoriaBien' /\ Leidas' = Leidas + n
<1>1. Len(deMemoria) \in Nat /\ Enviadas \in Int
  BY LenProperties DEF TipoEntrega, Enviadas
<1>2. Leidas' = Leidas + n BY <1>1 DEF Leidas
<1>3. ASSUME NEW i \in 1..Len(deMemoria') PROVE PalabraDe(deMemoria'[i], Leidas' + i, linea')
  <2>1. i + n \in 1..Len(deMemoria) BY <1>1
  <2>2. PalabraDe(deMemoria[i + n], Leidas + (i + n), linea) BY <2>1 DEF MemoriaBien
  <2>3. Leidas + (i + n) = Leidas' + i BY <1>1, <1>2 DEF Leidas
  <2> QED BY <2>2, <2>3
<1> QED BY <1>2, <1>3 DEF MemoriaBien

LEMMA MemoriaIgual ==
    ASSUME TipoEntrega, MemoriaBien, linea' = linea, Enviadas' = Enviadas, deMemoria' = deMemoria
    PROVE  MemoriaBien' /\ Leidas' = Leidas
BY DEF MemoriaBien, Leidas

\* Writing adds the words memory sends next.
LEMMA MemoriaEscrita ==
    ASSUME TipoEntrega, TipoEntrega', MemoriaBien, Leidas >= 0, NEW q \in Seq(Palabras),
           deMemoria' = deMemoria \o q, Enviadas' = Enviadas + Len(q),
           \A w : \A p \in 1..Enviadas : PalabraDe(w, p, linea) => PalabraDe(w, p, linea'),
           \A i \in 1..Len(q) : PalabraDe(q[i], Enviadas + i, linea')
    PROVE  MemoriaBien' /\ Leidas' = Leidas
<1>1. Len(deMemoria) \in Nat /\ Enviadas \in Int /\ Len(q) \in Nat
  BY LenProperties DEF TipoEntrega, Enviadas
<1>2. Len(deMemoria') = Len(deMemoria) + Len(q) BY ConcatProperties DEF TipoEntrega
<1>3. Leidas' = Leidas BY <1>1, <1>2 DEF Leidas
<1>4. ASSUME NEW i \in 1..Len(deMemoria') PROVE PalabraDe(deMemoria'[i], Leidas' + i, linea')
  <2>1. CASE i <= Len(deMemoria)
    <3>1. deMemoria'[i] = deMemoria[i] BY <1>1, <1>2, <2>1, ConcatProperties DEF TipoEntrega
    <3>2. PalabraDe(deMemoria[i], Leidas + i, linea) BY <1>1, <1>2, <2>1 DEF MemoriaBien
    <3>3. Leidas + i \in 1..Enviadas BY <1>1, <2>1 DEF Leidas
    <3> QED BY <1>3, <3>1, <3>2, <3>3
  <2>2. CASE i > Len(deMemoria)
    <3>1. deMemoria'[i] = q[i - Len(deMemoria)]
      BY <1>1, <1>2, <2>2, ConcatProperties DEF TipoEntrega
    <3>2. i - Len(deMemoria) \in 1..Len(q) BY <1>1, <1>2, <2>2
    <3>3. Enviadas + (i - Len(deMemoria)) = Leidas' + i BY <1>1, <1>3 DEF Leidas
    <3> QED BY <3>1, <3>2, <3>3
  <2> QED BY <1>1, <1>2, <2>1, <2>2
<1> QED BY <1>3, <1>4 DEF MemoriaBien

LEMMA LineasEnviadas ==
    ASSUME TipoEntrega, NEW k \in Nat, NEW m \in Nat, k <= m, Len(aKernel) + CodigoLeido = 3 * m
    PROVE  LineaEnviada(k) \in Nat
<1>1. CASE k = 0
  <2>1. atendidas = <<>> \/ atendidas[Len(atendidas)] \in Nat BY EmptySeq,
       ElementOfSeq DEF TipoEntrega
  <2> QED BY <1>1, <2>1 DEF LineaEnviada, Entrega!Ultima
<1>2. CASE k # 0
  <2>1. Len(aKernel) \in Nat BY LenProperties DEF TipoEntrega
  <2>2. 3 * k - CodigoLeido \in 1..Len(aKernel) BY <1>2, <2>1 DEF CodigoLeido
  <2>3. aKernel[3 * k - CodigoLeido] \in Palabras BY <2>2, ElementOfSeq DEF TipoEntrega
  <2> QED BY <1>2, <2>3 DEF LineaEnviada, Palabras
<1> QED BY <1>1, <1>2

\* Going on to lines that are not syscalls leaves none behind.
LEMMA SyscallsIguales ==
    ASSUME TipoEntrega, SyscallsBien, archivo' = archivo, aKernel' = aKernel,
           atendidas' = atendidas, CodigoLeido' = CodigoLeido, Hasta \in Int, Hasta' \in Int,
           Hasta <= Hasta', SinSyscalls(archivo, Hasta + 1, Hasta'),
           PorEnviar' => ejecutadas' > 0 /\ archivo'[ejecutadas'] \in Syscalls
    PROVE  SyscallsBien'
<1>1. PICK m \in Nat : Pendientes(m) BY DEF SyscallsBien
<1>2. \A k \in 0..m : LineaEnviada(k) \in Nat BY <1>1, LineasEnviadas DEF Pendientes
<1>3. \A k \in 0..m : LineaEnviada(k)' = LineaEnviada(k) BY DEF LineaEnviada, Entrega!Ultima
<1>4. \A k \in 0..m : LineaEnviada(k)' <= Hasta' BY <1>1, <1>2, <1>3 DEF Pendientes
<1>5. SinSyscalls(archivo, LineaEnviada(m) + 1, Hasta')
  BY <1>1, <1>2 DEF Pendientes, SinSyscalls
<1>6. ASSUME NEW k \in 1..m
      PROVE  /\ 3 * k - CodigoLeido > 2 => aKernel[3 * k - CodigoLeido - 2] = Palabra("SYSCALL", 0)
             /\ aKernel[3 * k - CodigoLeido - 1] = Tam(1)
             /\ LineaEnviada(k - 1)' < LineaEnviada(k)'
             /\ archivo[LineaEnviada(k)'] \in Syscalls
             /\ SinSyscalls(archivo, LineaEnviada(k - 1)' + 1, LineaEnviada(k)' - 1)
  <2>1. k \in 0..m /\ k - 1 \in 0..m OBVIOUS
  <2> QED BY <1>1, <1>3, <2>1 DEF Pendientes
<1>7. Pendientes(m)' BY <1>1, <1>3, <1>4, <1>5, <1>6 DEF Pendientes
<1> QED BY <1>7 DEF SyscallsBien

LEMMA EntregaSyscallsQuietas ==
    ASSUME Control, EntregaBien, RecibirRespuesta \/ AnunciarArchivo \/ AtenderSolicitud
    PROVE  SyscallsBien'
<1> USE Nombres DEF fijas, sockets, syscalls, ciclo, kernel, historia
<1>1. /\ CodigoLeido' = CodigoLeido /\ (PorEnviar' <=> PorEnviar) /\ archivo' = archivo
      /\ aKernel' = aKernel /\ atendidas' = atendidas /\ ejecutadas' = ejecutadas
  BY DEF CodigoLeido, PorEnviar, Control, TipoControl, RecibirRespuesta, AnunciarArchivo,
         AtenderSolicitud
<1>2. Hasta' = Hasta /\ Hasta \in Int BY <1>1 DEF Hasta, EntregaBien, TipoEntrega
<1> QED BY <1>1, <1>2, SyscallsIguales DEF EntregaBien, SinSyscalls, SyscallsBien

LEMMA EntregaInicial == Init => EntregaBien
<1> SUFFICES ASSUME Init PROVE EntregaBien OBVIOUS
<1>0. /\ pc["principal"] = "esperar_kernel" /\ pc["conexion"] = "sin_crear"
      /\ pc["despacho"] = "conectar" /\ pc["memoria"] = "aceptar" /\ pc["kernel"] = "aceptar"
      /\ sem["sem_instruccion_lista"] = 0
  BY Nombres DEF Init
<1>1. TipoEntrega BY SupuestoProgramas DEF Init, TipoEntrega
<1>2. MemoriaBien BY DEF Init, MemoriaBien
<1>3. LecturaBien BY <1>0 DEF Init, LecturaBien, Leidas, Enviadas
<1>4. SyscallsBien
  <2>1. CodigoLeido = 0 /\ ~PorEnviar /\ Hasta = 0 /\ LineaEnviada(0) = 0 /\ Len(aKernel) = 0
    BY <1>0 DEF Init, PorEnviar, Hasta, CodigoLeido, LineaEnviada, Entrega!Ultima
  <2>2. Pendientes(0) BY <2>1 DEF Pendientes, SinSyscalls
  <2> QED BY <2>1, <2>2 DEF SyscallsBien
<1> QED BY <1>1, <1>2, <1>3, <1>4 DEF EntregaBien

LEMMA EntregaCiclo == ASSUME Control, EntregaBien, Ciclo PROVE EntregaBien'
<1> USE Nombres DEF Ciclo, fijas, sockets, syscalls, ciclo, kernel, historia
<1>0. aKernel' = aKernel
  BY SupuestoLimites DEF Termina, Control, CicloBien
<1>1. TipoEntrega' BY <1>0 DEF EntregaBien, TipoEntrega
<1>2. MemoriaBien' /\ Leidas' = Leidas
  <2>1. Enviadas' = Enviadas /\ linea' = linea /\ deMemoria' = deMemoria
    BY DEF Enviadas, Control, TipoControl
  <2> QED BY <2>1, MemoriaIgual DEF EntregaBien
<1>3. LecturaBien'
  BY <1>2 DEF EntregaBien, LecturaBien, Control, TipoControl
<1>4. SyscallsBien'
  <2>1. /\ CodigoLeido' = CodigoLeido /\ (PorEnviar' <=> PorEnviar)
        /\ archivo' = archivo /\ atendidas' = atendidas /\ ejecutadas' = ejecutadas
    BY DEF CodigoLeido, PorEnviar, Control, TipoControl
  <2>2. Hasta' = Hasta /\ Hasta \in Int BY <2>1 DEF Hasta, EntregaBien, TipoEntrega
  <2> QED BY <1>0, <2>1, <2>2, SyscallsIguales DEF EntregaBien, SinSyscalls, SyscallsBien
<1> QED BY <1>1, <1>2, <1>3, <1>4 DEF EntregaBien

\* conexion reads the first word, the code of the announcement.
LEMMA EntregaRecibirArchivoListo ==
    ASSUME Control, EntregaBien, RecibirArchivoListo PROVE EntregaBien'
<1> USE Nombres DEF RecibirArchivoListo, fijas, sockets, syscalls, ciclo, kernel, historia
<1>0. /\ deMemoria' \in Seq(Palabras) /\ Len(deMemoria) \in Nat \ {0}
      /\ Len(deMemoria') = Len(deMemoria) - 1
      /\ \A i \in 1..Len(deMemoria') : deMemoria'[i] = deMemoria[i + 1]
  BY HeadTailProperties, EmptySeq DEF EntregaBien, TipoEntrega
<1>1. TipoEntrega' BY <1>0 DEF EntregaBien, TipoEntrega
<1>2. MemoriaBien' /\ Leidas' = Leidas + 1
  <2>1. Enviadas' = Enviadas /\ linea' = linea
    BY DEF Enviadas, Control, TipoControl
  <2> QED BY <1>0, <2>1, MemoriaLeida DEF EntregaBien
<1>3. LecturaBien'
  <2>1. Leidas = 0 /\ ejecutadas = 0 /\ ~En("principal", "leer_instruccion")
    BY DEF EntregaBien, LecturaBien, Control, CicloBien, Bucle, ArchivoTomado
  <2>2. pc["memoria"] \notin {"aceptar", "esperar_archivo"}
    BY <1>0, <2>1 DEF Leidas, Enviadas
  <2> QED BY <1>2, <2>1, <2>2 DEF EntregaBien, LecturaBien, Control, TipoControl
<1>4. SyscallsBien'
  <2>1. /\ CodigoLeido' = CodigoLeido /\ (PorEnviar' <=> PorEnviar) /\ archivo' = archivo
        /\ aKernel' = aKernel /\ atendidas' = atendidas /\ ejecutadas' = ejecutadas
    BY DEF CodigoLeido, PorEnviar, Control, TipoControl
  <2>2. Hasta' = Hasta /\ Hasta \in Int BY <2>1 DEF Hasta, EntregaBien, TipoEntrega
  <2> QED BY <2>1, <2>2, SyscallsIguales DEF EntregaBien, SinSyscalls, SyscallsBien
<1> QED BY <1>1, <1>2, <1>3, <1>4 DEF EntregaBien

\* The word that answers a request: the size left by the announcement, the code of the
\* next line's packet, or the code of the end.
LEMMA EntregaRecibirRespuesta ==
    ASSUME Control, EntregaBien, RecibirRespuesta PROVE EntregaBien'
<1> USE Nombres DEF RecibirRespuesta, fijas, sockets, syscalls, ciclo, kernel, historia
<1>0. /\ fd_abierto /\ En("conexion", "fin") /\ ~En("principal", "leer_instruccion")
      /\ linea' = linea /\ ejecutadas' = ejecutadas /\ Enviadas' = Enviadas
  BY DEF Control, TipoControl, CicloBien, Bucle, ArchivoTomado, Enviadas
<1>1. CASE Cortada
  <2>1. TipoEntrega' BY <1>1 DEF EntregaBien, TipoEntrega
  <2>2. MemoriaBien' /\ Leidas' = Leidas BY <1>0, <1>1, MemoriaIgual DEF EntregaBien
  <2>3. Codigo = "-1" /\ ~fd_abierto' BY <1>1 DEF Codigo, Seguir
  <2>4. LecturaBien'
    BY <1>0, <2>2, <2>3 DEF EntregaBien, LecturaBien, Control, TipoControl
  <2> QED BY <2>1, <2>2, <2>4, EntregaSyscallsQuietas DEF EntregaBien
<1>2. CASE ~Cortada
  <2>1. deMemoria # <<>> /\ deMemoria' = Tail(deMemoria) BY <1>2
  <2>2. /\ deMemoria' \in Seq(Palabras) /\ Len(deMemoria) \in Nat \ {0}
        /\ Len(deMemoria') = Len(deMemoria) - 1
        /\ \A i \in 1..Len(deMemoria') : deMemoria'[i] = deMemoria[i + 1]
    BY <2>1, HeadTailProperties, EmptySeq DEF EntregaBien, TipoEntrega
  <2>3. TipoEntrega' BY <2>2 DEF EntregaBien, TipoEntrega
  <2>4. MemoriaBien' /\ Leidas' = Leidas + 1
    BY <1>0, <2>2, MemoriaLeida DEF EntregaBien
  <2>5. LecturaBien'
    <3>1. PalabraDe(Head(deMemoria), Leidas + 1, linea)
      <4>1. Head(deMemoria) = deMemoria[1] BY <2>1 DEF EntregaBien, TipoEntrega
      <4> QED BY <2>2, <4>1 DEF EntregaBien, MemoriaBien
    <3>2. Leidas + 1 <= Enviadas /\ Enviadas \in Nat /\ Leidas \in Int
      BY <2>2 DEF Leidas, Enviadas, EntregaBien, TipoEntrega
    <3>3. CASE Leidas = 1 /\ ejecutadas = 0
      <4>1. Head(deMemoria) = Tam(0) BY <3>1, <3>3 DEF PalabraDe
      <4>2. Codigo = "0" /\ pc'["principal"] = "pedir"
        BY <1>2, <4>1 DEF Codigo, Seguir, Control, TipoControl
      <4> QED BY <1>0, <2>4, <3>3, <4>2 DEF EntregaBien, LecturaBien, Control, TipoControl
    <3>4. CASE Leidas = 3 * ejecutadas + 2 /\ ejecutadas < linea
      <4>1. Head(deMemoria) = Palabra("PAQUETE", 0)
        <5>1. ejecutadas + 1 \in 1..linea /\ Leidas + 1 = 3 * (ejecutadas + 1)
          BY <3>4 DEF EntregaBien, TipoEntrega
        <5> QED BY <3>1, <5>1 DEF PalabraDe
      <4>2. Codigo = "PAQUETE" /\ pc'["principal"] = "leer_instruccion"
        BY <1>2, <4>1 DEF Codigo, Seguir, Palabra, Tam, Control, TipoControl
      <4> QED BY <1>0, <2>4, <3>4, <4>2 DEF EntregaBien, TipoEntrega, LecturaBien, Control,
           TipoControl
    <3>5. CASE Leidas = 3 * ejecutadas + 2 /\ ~(ejecutadas < linea)
      <4>1. ejecutadas = linea BY <3>2, <3>5 DEF Enviadas, EntregaBien, TipoEntrega
      <4>2. Head(deMemoria) = Palabra("EXIT", 0)
        BY <3>1, <3>5, <4>1 DEF PalabraDe, EntregaBien, TipoEntrega
      <4>3. Codigo = "EXIT" BY <1>2, <4>2 DEF Codigo, Palabra, Tam
      <4>4. ~fd_abierto' BY <4>3 DEF Seguir
      <4> QED BY <1>0, <2>4, <3>2, <4>4 DEF EntregaBien, LecturaBien, Control, TipoControl
    <3> QED BY <1>0, <3>3, <3>4, <3>5 DEF EntregaBien, LecturaBien
  <2> QED BY <2>3, <2>4, <2>5, EntregaSyscallsQuietas DEF EntregaBien
<1> QED BY <1>1, <1>2

\* The packet principal reads is that of the line after the last one executed.
LEMMA SiguienteInstruccion ==
    ASSUME Control, EntregaBien, ProcesarInstruccion
    PROVE  /\ fd_abierto /\ En("conexion", "fin") /\ En("principal", "leer_instruccion")
           /\ ejecutadas + 1 \in 1..linea /\ Datos(deMemoria) = ejecutadas + 1
           /\ deMemoria' \in Seq(Palabras) /\ Len(deMemoria) \in Nat /\ 2 \in 0..Len(deMemoria)
           /\ Len(deMemoria') = Len(deMemoria) - 2
           /\ \A i \in 1..Len(deMemoria') : deMemoria'[i] = deMemoria[i + 2]
<1> USE Nombres DEF ProcesarInstruccion
<1>1. fd_abierto /\ En("conexion", "fin") /\ En("principal", "leer_instruccion")
  BY DEF Control, CicloBien, Bucle, ArchivoTomado
<1>2. Leidas = 3 * ejecutadas + 3 /\ ejecutadas + 1 \in 1..linea
  BY <1>1 DEF EntregaBien, TipoEntrega, LecturaBien
<1>3. deMemoria # <<>> /\ Len(deMemoria) \in Nat \ {0} /\ deMemoria \in Seq(Palabras)
  BY EmptySeq DEF HayPaquete, EntregaBien, TipoEntrega
<1>4. Head(deMemoria) = deMemoria[1] BY <1>3
<1>5. Head(deMemoria) = Tam(1)
  <2>1. PalabraDe(deMemoria[1], Leidas + 1, linea) BY <1>3 DEF EntregaBien, MemoriaBien
  <2>2. Leidas + 1 = 3 * (ejecutadas + 1) + 1 BY <1>2 DEF EntregaBien, TipoEntrega
  <2> QED BY <1>2, <1>4, <2>1, <2>2 DEF PalabraDe
<1>6. Head(deMemoria).n = 1 BY <1>5 DEF Tam, Palabra
<1>7. Len(deMemoria) > 1 BY <1>6 DEF HayPaquete
<1>8. deMemoria[2] = Palabra("datos", ejecutadas + 1)
  <2>1. PalabraDe(deMemoria[2], Leidas + 2, linea)
    <3>1. 2 \in 1..Len(deMemoria) BY <1>3, <1>7
    <3> QED BY <3>1 DEF EntregaBien, MemoriaBien
  <2>2. Leidas + 2 = 3 * (ejecutadas + 1) + 2 BY <1>2 DEF EntregaBien, TipoEntrega
  <2> QED BY <1>2, <2>1, <2>2 DEF PalabraDe
<1>9. deMemoria' = SubSeq(deMemoria, 3, Len(deMemoria)) BY <1>6 DEF TrasPaquete
<1>10. \A i \in 3..Len(deMemoria) : deMemoria[i] \in Palabras BY <1>3, ElementOfSeq
<1>11. /\ deMemoria' \in Seq(Palabras) /\ Len(deMemoria') = Len(deMemoria) - 2
       /\ \A i \in 1..Len(deMemoria') : deMemoria'[i] = deMemoria[i + 2]
  <2> DEFINE largo == Len(deMemoria)
             resto == SubSeq(deMemoria, 3, largo)
  <2>1. /\ resto \in Seq(Palabras) /\ Len(resto) = (IF 3 <= largo THEN largo - 3 + 1 ELSE 0)
        /\ \A i \in 1..largo - 3 + 1 : resto[i] = deMemoria[3 + i - 1]
    BY <1>3, <1>10, SubSeqProperties
  <2>2. largo \in Nat /\ largo > 1 BY <1>3, <1>7
  <2>3. deMemoria' = resto BY <1>9
  <2> HIDE DEF largo, resto, ProcesarInstruccion
  <2>4. Len(resto) = largo - 2 BY <2>1, <2>2
  <2>5. \A i \in 1..Len(resto) : 3 + i - 1 = i + 2 BY <2>2, <2>4
  <2>6. \A i \in 1..Len(resto) : resto[i] = deMemoria[i + 2] BY <2>1, <2>2, <2>4, <2>5
  <2> QED BY <2>1, <2>3, <2>4, <2>6 DEF largo
<1> QED BY <1>1, <1>2, <1>3, <1>7, <1>8, <1>11 DEF Datos, Palabra

LEMMA EntregaProcesarInstruccion ==
    ASSUME Control, EntregaBien, ProcesarInstruccion PROVE EntregaBien'
<1> USE Nombres DEF fijas, sockets, syscalls, ciclo, kernel, historia
<1>0. /\ ejecutadas' = ejecutadas + 1 /\ linea' = linea /\ archivo' = archivo
      /\ aKernel' = aKernel /\ atendidas' = atendidas
      /\ pc'["conexion"] = pc["conexion"] /\ pc'["memoria"] = pc["memoria"]
      /\ pc'["kernel"] = pc["kernel"] /\ pc'["despacho"] = pc["despacho"]
      /\ pc'["principal"] \in {"pedir", "esperar_syscall", "caida"}
  BY SiguienteInstruccion DEF ProcesarInstruccion, Control, TipoControl
<1>1. TipoEntrega' BY <1>0, SiguienteInstruccion DEF EntregaBien, TipoEntrega
<1>2. MemoriaBien' /\ Leidas' = Leidas + 2
  <2>1. Enviadas' = Enviadas BY <1>0 DEF Enviadas
  <2> QED BY <1>0, <2>1, SiguienteInstruccion, MemoriaLeida DEF EntregaBien
<1>3. LecturaBien'
  BY <1>0, <1>2, SiguienteInstruccion DEF EntregaBien, TipoEntrega, LecturaBien
<1>4. SyscallsBien'
  <2>1. ~PorEnviar /\ CodigoLeido' = CodigoLeido
    BY <1>0, SiguienteInstruccion DEF PorEnviar, CodigoLeido, Control, ManosBien, ManoAMano
  <2>2. Hasta = ejecutadas /\ Hasta \in Nat BY <2>1 DEF Hasta, EntregaBien, TipoEntrega
  <2>3. CASE archivo[ejecutadas + 1] \in Syscalls
    <3>1. sem' = [sem EXCEPT !["sem_instruccion_lista"] = @ + 1]
      BY <2>3, SiguienteInstruccion DEF ProcesarInstruccion
    <3>2. PorEnviar'
      BY <3>1 DEF PorEnviar, Control, TipoControl
    <3>3. Hasta' = Hasta BY <1>0, <2>2, <3>2 DEF Hasta
    <3> QED BY <1>0, <2>1, <2>2, <2>3, <3>3, SyscallsIguales DEF EntregaBien, SinSyscalls
  <2>4. CASE archivo[ejecutadas + 1] \notin Syscalls
    <3>1. sem' = sem
      BY <2>4, SiguienteInstruccion DEF ProcesarInstruccion
    <3>2. ~PorEnviar' BY <1>0, <2>1, <3>1 DEF PorEnviar
    <3>3. Hasta' = Hasta + 1 BY <1>0, <2>2, <3>2 DEF Hasta
    <3>4. SinSyscalls(archivo, Hasta + 1, Hasta') BY <2>2, <2>4, <3>3 DEF SinSyscalls
    <3> QED BY <1>0, <2>1, <2>2, <3>2, <3>3, <3>4, SyscallsIguales DEF EntregaBien
  <2> QED BY <2>3, <2>4
<1> QED BY <1>1, <1>2, <1>3, <1>4 DEF EntregaBien

\* The announcement of the file is the first thing memory sends.
LEMMA EntregaAnunciarArchivo ==
    ASSUME Control, EntregaBien, AnunciarArchivo PROVE EntregaBien'
<1> USE Nombres DEF AnunciarArchivo, fijas, sockets, syscalls, ciclo, kernel, historia
<1> DEFINE q == PaqueteVacio("ARCHIVO_LISTO")
<1>0. /\ linea = 0 /\ linea' = 0 /\ ejecutadas' = ejecutadas /\ Leidas = 0 /\ ejecutadas = 0
      /\ ~En("conexion", "fin") /\ ~En("conexion", "fin")'
      /\ Enviadas = 0 /\ Enviadas' = 2
  BY DEF EntregaBien, LecturaBien, Control, TipoControl, Enviadas
<1>1. q \in Seq(Palabras) /\ Len(q) = 2 /\ q[1] = Palabra("ARCHIVO_LISTO", 0) /\ q[2] = Tam(0)
  BY DEF PaqueteVacio, Palabras, Codigos, Palabra, Tam
<1>2. deMemoria' = deMemoria \o q OBVIOUS
<1> HIDE DEF q
<1>3. TipoEntrega' BY <1>1, <1>2, ConcatProperties DEF EntregaBien, TipoEntrega
<1>4. MemoriaBien' /\ Leidas' = Leidas
  <2>1. \A i \in 1..Len(q) : PalabraDe(q[i], Enviadas + i, linea')
    BY <1>0, <1>1 DEF PalabraDe
  <2>2. \A w : \A p \in 1..Enviadas : PalabraDe(w, p, linea) => PalabraDe(w, p, linea')
    BY <1>0
  <2>3. Enviadas' = Enviadas + Len(q) /\ Leidas >= 0 BY <1>0, <1>1
  <2> HIDE DEF AnunciarArchivo
  <2> QED BY <1>1, <1>2, <1>3, <2>1, <2>2, <2>3, MemoriaEscrita DEF EntregaBien
<1>5. LecturaBien' BY <1>0, <1>4 DEF LecturaBien, Control, TipoControl
<1> QED BY <1>3, <1>4, <1>5, EntregaSyscallsQuietas DEF EntregaBien

\* The packet of the next line, or the one of the end.
LEMMA EntregaAtenderSolicitud ==
    ASSUME Control, EntregaBien, AtenderSolicitud PROVE EntregaBien'
<1> USE Nombres DEF AtenderSolicitud, fijas, sockets, syscalls, ciclo, kernel, historia
<1>0. /\ linea \in Nat /\ ejecutadas' = ejecutadas /\ archivo' = archivo /\ fd_abierto' = fd_abierto
      /\ pc'["conexion"] = pc["conexion"] /\ pc'["principal"] = pc["principal"]
      /\ pc["memoria"] = "recibir" /\ Enviadas = 3 * linea + 2 /\ ejecutadas \in Nat
  BY DEF EntregaBien, TipoEntrega, Control, TipoControl, Enviadas
<1>1. Leidas >= 0 BY DEF EntregaBien, LecturaBien
<1>2. CASE HayLinea
  <2> DEFINE q == Paquete("PAQUETE", linea + 1)
  <2>1. /\ linea' = linea + 1 /\ deMemoria' = deMemoria \o q /\ pc' = pc BY <1>2
  <2>2. /\ q \in Seq(Palabras) /\ Len(q) = 3 /\ q[1] = Palabra("PAQUETE", 0) /\ q[2] = Tam(1)
        /\ q[3] = Palabra("datos", linea + 1)
    BY <1>0 DEF Paquete, Palabras, Codigos, Palabra, Tam
  <2> HIDE DEF q
  <2>3. linea' \in 0..Len(archivo) /\ Enviadas' = Enviadas + 3
    <3>1. Len(archivo) \in Nat BY LenProperties, SupuestoProgramas DEF EntregaBien, TipoEntrega
    <3> QED BY <1>0, <1>2, <2>1, <3>1 DEF HayLinea, Enviadas
  <2>4. TipoEntrega' BY <1>0, <2>1, <2>2, <2>3, ConcatProperties DEF EntregaBien, TipoEntrega
  <2>5. MemoriaBien' /\ Leidas' = Leidas
    <3>1. ASSUME NEW w, NEW p \in 1..Enviadas, PalabraDe(w, p, linea)
          PROVE  PalabraDe(w, p, linea + 1)
      <4>1. p # 3 * (linea + 1) + 3 /\ p # 3 * (linea + 1) + 4 BY <1>0
      <4>2. ASSUME NEW l \in 1..linea + 1
            PROVE  l \in 1..linea \/ (p # 3 * l /\ p # 3 * l + 1 /\ p # 3 * l + 2)
        BY <1>0
      <4> QED BY <3>1, <4>1, <4>2 DEF PalabraDe
    <3>2. ASSUME NEW i \in 1..Len(q) PROVE PalabraDe(q[i], Enviadas + i, linea + 1)
      <4>1. CASE i = 1 BY <1>0, <2>2, <4>1 DEF PalabraDe
      <4>2. CASE i = 2 BY <1>0, <2>2, <4>2 DEF PalabraDe
      <4>3. CASE i = 3 BY <1>0, <2>2, <4>3 DEF PalabraDe
      <4> QED BY <2>2, <4>1, <4>2, <4>3
    <3> QED BY <1>1, <2>1, <2>2, <2>3, <2>4, <3>1, <3>2, MemoriaEscrita DEF EntregaBien
  <2>6. LecturaBien' BY <1>0, <2>1, <2>5 DEF EntregaBien, LecturaBien
  <2> QED BY <2>4, <2>5, <2>6, EntregaSyscallsQuietas DEF EntregaBien
<1>3. CASE ~HayLinea
  <2> DEFINE q == PaqueteVacio("EXIT")
  <2>1. linea' = linea /\ deMemoria' = deMemoria \o q /\ pc'["memoria"] = "cerrar"
    BY <1>3 DEF Control, TipoControl
  <2>2. q \in Seq(Palabras) /\ Len(q) = 2 /\ q[1] = Palabra("EXIT", 0) /\ q[2] = Tam(0)
    BY DEF PaqueteVacio, Palabras, Codigos, Palabra, Tam
  <2> HIDE DEF q
  <2>3. Enviadas' = Enviadas + 2 BY <1>0, <2>1 DEF Enviadas
  <2>4. TipoEntrega' BY <1>0, <2>1, <2>2, ConcatProperties DEF EntregaBien, TipoEntrega
  <2>5. MemoriaBien' /\ Leidas' = Leidas
    <3>1. ASSUME NEW i \in 1..Len(q) PROVE PalabraDe(q[i], Enviadas + i, linea)
      <4>1. CASE i = 1 BY <1>0, <2>2, <4>1 DEF PalabraDe
      <4>2. CASE i = 2 BY <1>0, <2>2, <4>2 DEF PalabraDe
      <4> QED BY <2>2, <4>1, <4>2
    <3> QED BY <1>1, <2>1, <2>2, <2>3, <2>4, <3>1, MemoriaEscrita DEF EntregaBien
  <2>6. LecturaBien' BY <1>0, <2>1, <2>5 DEF EntregaBien, LecturaBien
  <2> QED BY <2>4, <2>5, <2>6, EntregaSyscallsQuietas DEF EntregaBien
<1> QED BY <1>2, <1>3

LEMMA TresMas ==
    ASSUME NEW s \in Seq(Palabras), NEW q \in Seq(Palabras), Len(q) = 3
    PROVE  /\ Len(s) \in Nat /\ Len(s \o q) = Len(s) + 3
           /\ \A i \in 1..Len(s) : (s \o q)[i] = s[i]
           /\ (s \o q)[Len(s) + 1] = q[1] /\ (s \o q)[Len(s) + 2] = q[2]
           /\ (s \o q)[Len(s) + 3] = q[3]
<1> DEFINE t == s \o q
<1>1. Len(s) \in Nat /\ Len(t) = Len(s) + 3
      /\ \A i \in 1..Len(s) + 3 : t[i] = IF i <= Len(s) THEN s[i] ELSE q[i - Len(s)]
  <2>1. /\ Len(t) = Len(s) + Len(q)
        /\ \A i \in 1..Len(s) + Len(q) : t[i] = IF i <= Len(s) THEN s[i] ELSE q[i - Len(s)]
    BY ConcatProperties
  <2>2. Len(s) \in Nat BY LenProperties
  <2> HIDE DEF t
  <2> QED BY <2>1, <2>2
<1> HIDE DEF t
<1>2. \A i \in 1..Len(s) : t[i] = s[i] BY <1>1
<1>3. \A i \in 1..3 : t[Len(s) + i] = q[i]
  <2> TAKE i \in 1..3
  <2>1. Len(s) + i \in 1..Len(s) + 3 /\ ~(Len(s) + i <= Len(s)) /\ (Len(s) + i) - Len(s) = i BY <1>1
  <2> QED BY <1>1, <2>1
<1> QED BY <1>1, <1>2, <1>3 DEF t

\* despacho sends the line principal waits for: a packet more.
LEMMA EntregaEnviarSyscall ==
    ASSUME Control, EntregaBien, EnviarSyscall PROVE EntregaBien'
<1> USE Nombres DEF EnviarSyscall, fijas, sockets, syscalls, ciclo, kernel, historia
<1> DEFINE q == Paquete("SYSCALL", syscall_a_procesar)
           largo == Len(aKernel)
<1>0. /\ syscall_a_procesar = ejecutadas /\ PorEnviar /\ ~PorEnviar' /\ CodigoLeido' = CodigoLeido
      /\ CodigoLeido \in {0, 1}
  BY DEF PorEnviar, CodigoLeido, Control, TipoControl, ManosBien, ManoAMano
<1>1. /\ ejecutadas \in Nat \ {0} /\ archivo[ejecutadas] \in Syscalls
      /\ Hasta = ejecutadas - 1 /\ Hasta' = ejecutadas
  BY <1>0 DEF EntregaBien, TipoEntrega, SyscallsBien, Hasta
<1>2. /\ q \in Seq(Palabras) /\ Len(q) = 3 /\ q[1] = Palabra("SYSCALL", 0) /\ q[2] = Tam(1)
      /\ q[3].n = ejecutadas
  BY <1>0, <1>1 DEF Paquete, Palabras, Codigos, Palabra, Tam
<1>3. aKernel' = aKernel \o q OBVIOUS
<1> HIDE DEF q
<1>4. TipoEntrega' BY <1>2, <1>3, ConcatProperties DEF EntregaBien, TipoEntrega
<1>5. MemoriaBien' /\ Leidas' = Leidas
  <2>1. Enviadas' = Enviadas /\ linea' = linea /\ deMemoria' = deMemoria
    BY DEF Enviadas, Control, TipoControl
  <2> QED BY <2>1, MemoriaIgual DEF EntregaBien
<1>6. LecturaBien'
  BY <1>5 DEF EntregaBien, LecturaBien, Control, TipoControl
<1>7. /\ largo \in Nat /\ Len(aKernel') = largo + 3
      /\ \A i \in 1..largo : aKernel'[i] = aKernel[i]
      /\ aKernel'[largo + 1] = q[1] /\ aKernel'[largo + 2] = q[2] /\ aKernel'[largo + 3] = q[3]
  BY <1>2, <1>3, TresMas DEF EntregaBien, TipoEntrega
<1>8. atendidas' = atendidas /\ archivo' = archivo /\ ejecutadas' = ejecutadas OBVIOUS
<1> HIDE DEF largo, EnviarSyscall
<1>9. PICK m \in Nat : Pendientes(m) BY DEF EntregaBien, SyscallsBien
<1>10. largo + CodigoLeido = 3 * m BY <1>9 DEF Pendientes, largo
<1>11. \A k \in 0..m : LineaEnviada(k) \in Nat BY <1>9, LineasEnviadas DEF EntregaBien, Pendientes
<1>12. ASSUME NEW k \in 0..m PROVE LineaEnviada(k)' = LineaEnviada(k)
  <2>1. CASE k = 0 BY <1>8, <2>1 DEF LineaEnviada, Entrega!Ultima
  <2>2. CASE k # 0
    <3>1. 3 * k - CodigoLeido \in 1..largo BY <1>0, <1>7, <1>10, <2>2
    <3> QED BY <1>0, <1>7, <2>2, <3>1 DEF LineaEnviada
  <2> QED BY <2>1, <2>2
<1>13. LineaEnviada(m + 1)' = ejecutadas
  <2>1. 3 * (m + 1) - CodigoLeido = largo + 3 BY <1>0, <1>7, <1>10
  <2> QED BY <1>0, <1>2, <1>7, <2>1 DEF LineaEnviada
<1>14. SyscallsBien'
  <2>1. Len(aKernel') + CodigoLeido' = 3 * (m + 1) BY <1>0, <1>7, <1>10
  <2>2. ASSUME NEW k \in 0..m + 1 PROVE LineaEnviada(k)' <= Hasta'
    <3>1. CASE k \in 0..m
      <4>1. LineaEnviada(k) <= Hasta BY <1>9, <3>1 DEF Pendientes
      <4> QED BY <1>1, <1>11, <1>12, <3>1, <4>1
    <3>2. CASE k = m + 1 BY <1>1, <1>13, <3>2
    <3> QED BY <3>1, <3>2
  <2>3. SinSyscalls(archivo', LineaEnviada(m + 1)' + 1, Hasta')
    BY <1>1, <1>13 DEF SinSyscalls
  <2>4. ASSUME NEW k \in 1..m + 1
        PROVE  /\ 3 * k - CodigoLeido' > 2 => aKernel'[3 * k - CodigoLeido' - 2] = Palabra("SYSCALL", 0)
               /\ aKernel'[3 * k - CodigoLeido' - 1] = Tam(1)
               /\ LineaEnviada(k - 1)' < LineaEnviada(k)'
               /\ archivo'[LineaEnviada(k)'] \in Syscalls
               /\ SinSyscalls(archivo', LineaEnviada(k - 1)' + 1, LineaEnviada(k)' - 1)
    <3>1. CASE k \in 1..m
      <4>1. k \in 0..m /\ k - 1 \in 0..m BY <3>1
      <4>2. /\ 3 * k - CodigoLeido > 2 => 3 * k - CodigoLeido - 2 \in 1..largo
            /\ 3 * k - CodigoLeido - 1 \in 1..largo
        BY <1>0, <1>7, <1>10, <3>1
      <4>3. /\ 3 * k - CodigoLeido > 2 => aKernel[3 * k - CodigoLeido - 2] = Palabra("SYSCALL", 0)
            /\ aKernel[3 * k - CodigoLeido - 1] = Tam(1)
            /\ LineaEnviada(k - 1) < LineaEnviada(k)
            /\ archivo[LineaEnviada(k)] \in Syscalls
            /\ SinSyscalls(archivo, LineaEnviada(k - 1) + 1, LineaEnviada(k) - 1)
        BY <1>9, <3>1 DEF Pendientes
      <4> QED BY <1>0, <1>7, <1>8, <1>12, <4>1, <4>2, <4>3
    <3>2. CASE k = m + 1
      <4>1. 3 * k - CodigoLeido - 2 = largo + 1 /\ 3 * k - CodigoLeido - 1 = largo + 2
        BY <1>0, <1>7, <1>10, <3>2
      <4>2. k - 1 = m /\ m \in 0..m BY <3>2
      <4>3. LineaEnviada(m) <= Hasta /\ SinSyscalls(archivo, LineaEnviada(m) + 1, Hasta)
        BY <1>9 DEF Pendientes
      <4>4. LineaEnviada(k - 1)' = LineaEnviada(m) /\ LineaEnviada(k)' = ejecutadas
        BY <1>12, <1>13, <3>2, <4>2
      <4>5. LineaEnviada(m) < ejecutadas BY <1>1, <1>11, <4>2, <4>3
      <4> QED BY <1>0, <1>1, <1>2, <1>7, <1>8, <4>1, <4>3, <4>4, <4>5
    <3> QED BY <3>1, <3>2
  <2>5. Pendientes(m + 1)' BY <1>0, <2>1, <2>2, <2>3, <2>4 DEF Pendientes
  <2> QED BY <1>0, <2>5 DEF SyscallsBien
<1> QED BY <1>4, <1>5, <1>6, <1>14 DEF EntregaBien

\* What is left of the socket to the kernel after n words keeps its packets.
LEMMA EntregaRecibirOperacion ==
    ASSUME Control, EntregaBien, RecibirOperacion PROVE EntregaBien'
<1> USE Nombres DEF RecibirOperacion, fijas, sockets, syscalls, ciclo, kernel, historia
<1>0. /\ aKernel' \in Seq(Palabras) /\ Len(aKernel) \in Nat \ {0}
      /\ Len(aKernel') = Len(aKernel) - 1 /\ Head(aKernel) = aKernel[1]
      /\ \A i \in 1..Len(aKernel') : aKernel'[i] = aKernel[i + 1]
  BY HeadTailProperties, EmptySeq DEF EntregaBien, TipoEntrega
<1>1. TipoEntrega' BY <1>0 DEF EntregaBien, TipoEntrega
<1>2. MemoriaBien' /\ Leidas' = Leidas
  <2>1. Enviadas' = Enviadas /\ linea' = linea /\ deMemoria' = deMemoria
    BY DEF Enviadas, Control, TipoControl
  <2> QED BY <2>1, MemoriaIgual DEF EntregaBien
<1>3. LecturaBien'
  BY <1>2 DEF EntregaBien, LecturaBien, Control, TipoControl
<1>4. /\ CodigoLeido = 0 /\ (PorEnviar' <=> PorEnviar) /\ archivo' = archivo
      /\ atendidas' = atendidas /\ ejecutadas' = ejecutadas
  BY DEF CodigoLeido, PorEnviar, Control, TipoControl
<1>5. Hasta' = Hasta BY <1>4 DEF Hasta
<1>6. PICK m \in Nat : Pendientes(m) BY DEF EntregaBien, SyscallsBien
<1>7. Len(aKernel) = 3 * m /\ m > 0
  <2>1. Len(aKernel) + CodigoLeido = 3 * m BY <1>6 DEF Pendientes
  <2>2. Len(aKernel) \in Nat \ {0} /\ CodigoLeido = 0 BY <1>0, <1>4
  <2> HIDE DEF RecibirOperacion
  <2> QED BY <2>1, <2>2
<1>8. Head(aKernel) = Palabra("SYSCALL", 0)
  <2>1. 1 \in 1..m /\ 3 * 1 - CodigoLeido > 2 /\ 3 * 1 - CodigoLeido - 2 = 1 BY <1>4, <1>7
  <2> QED BY <1>0, <1>6, <2>1 DEF Pendientes
<1>9. CodigoLeido' = 1 BY <1>8 DEF CodigoLeido, Palabra, Control, TipoControl
<1> HIDE DEF RecibirOperacion
<1>10. ASSUME NEW k \in 0..m PROVE LineaEnviada(k)' = LineaEnviada(k)
  <2>1. CASE k = 0 BY <1>4, <2>1 DEF LineaEnviada, Entrega!Ultima
  <2>2. CASE k # 0
    <3>1. 3 * k - 1 \in 1..Len(aKernel') /\ (3 * k - 1) + 1 = 3 * k - 0 BY <1>0, <1>7, <2>2
    <3> QED BY <1>0, <1>4, <1>9, <2>2, <3>1 DEF LineaEnviada
  <2> QED BY <2>1, <2>2
<1>11. SyscallsBien'
  <2>1. Len(aKernel') + CodigoLeido' = 3 * m BY <1>0, <1>7, <1>9
  <2>2. ASSUME NEW k \in 0..m PROVE LineaEnviada(k)' <= Hasta'
    BY <1>5, <1>6, <1>10 DEF Pendientes
  <2>3. SinSyscalls(archivo', LineaEnviada(m)' + 1, Hasta')
    BY <1>4, <1>5, <1>6, <1>10 DEF Pendientes
  <2>4. ASSUME NEW k \in 1..m
        PROVE  /\ 3 * k - CodigoLeido' > 2 => aKernel'[3 * k - CodigoLeido' - 2] = Palabra("SYSCALL", 0)
               /\ aKernel'[3 * k - CodigoLeido' - 1] = Tam(1)
               /\ LineaEnviada(k - 1)' < LineaEnviada(k)'
               /\ archivo'[LineaEnviada(k)'] \in Syscalls
               /\ SinSyscalls(archivo', LineaEnviada(k - 1)' + 1, LineaEnviada(k)' - 1)
    <3>1. k \in 0..m /\ k - 1 \in 0..m OBVIOUS
    <3>2. /\ 3 * k - 1 > 2 => 3 * k - 1 - 2 \in 1..Len(aKernel') /\ (3 * k - 1 - 2) + 1 = 3 * k - 0 - 2
          /\ 3 * k - 1 - 1 \in 1..Len(aKernel') /\ (3 * k - 1 - 1) + 1 = 3 * k - 0 - 1
          /\ 3 * k - 0 > 2
      BY <1>0, <1>7
    <3>3. /\ aKernel[3 * k - 0 - 2] = Palabra("SYSCALL", 0) /\ aKernel[3 * k - 0 - 1] = Tam(1)
          /\ LineaEnviada(k - 1) < LineaEnviada(k)
          /\ archivo[LineaEnviada(k)] \in Syscalls
          /\ SinSyscalls(archivo, LineaEnviada(k - 1) + 1, LineaEnviada(k) - 1)
      BY <1>4, <1>6, <3>2 DEF Pendientes
    <3> QED BY <1>0, <1>4, <1>9, <1>10, <3>1, <3>2, <3>3
  <2>5. Pendientes(m)' BY <1>7, <2>1, <2>2, <2>3, <2>4 DEF Pendientes
  <2> QED BY <1>4, <2>5 DEF EntregaBien, SyscallsBien
<1> QED BY <1>1, <1>2, <1>3, <1>11 DEF EntregaBien

\* The syscall the kernel processes is the next one of the program.
LEMMA SiguienteSyscall ==
    ASSUME EntregaBien, En("kernel", "paquete")
    PROVE  \E m \in Nat \ {0} :
              /\ Pendientes(m) /\ Len(aKernel) = 3 * m - 1
              /\ aKernel[1] = Tam(1) /\ aKernel[2].n = LineaEnviada(1)
<1>1. PICK m \in Nat : Pendientes(m) BY DEF EntregaBien, SyscallsBien
<1>2. CodigoLeido = 1 BY DEF CodigoLeido
<1>3. m # 0 /\ Len(aKernel) + 1 = 3 * m BY <1>1, <1>2 DEF Pendientes
<1>4. Len(aKernel) \in Nat BY LenProperties DEF EntregaBien, TipoEntrega
<1>5. 1 \in 1..m /\ 3 * 1 - 1 - 1 = 1 /\ 3 * 1 - 1 = 2 BY <1>3
<1>6. aKernel[1] = Tam(1) BY <1>1, <1>2, <1>5 DEF Pendientes
<1>7. LineaEnviada(1) = aKernel[2].n BY <1>2, <1>5 DEF LineaEnviada
<1> QED BY <1>1, <1>3, <1>4, <1>6, <1>7

LEMMA EntregaProcesarSyscall ==
    ASSUME Control, EntregaBien, ProcesarSyscall PROVE EntregaBien'
<1> USE Nombres DEF ProcesarSyscall, fijas, sockets, syscalls, ciclo, kernel, historia
<1>1. PICK m \in Nat \ {0} :
            /\ Pendientes(m) /\ Len(aKernel) = 3 * m - 1
            /\ aKernel[1] = Tam(1) /\ aKernel[2].n = LineaEnviada(1)
  BY SiguienteSyscall
<1>2. /\ CodigoLeido = 1 /\ CodigoLeido' = 0 /\ (PorEnviar' <=> PorEnviar) /\ archivo' = archivo
      /\ ejecutadas' = ejecutadas /\ aKernel \in Seq(Palabras)
  BY DEF CodigoLeido, PorEnviar, Control, TipoControl, EntregaBien, TipoEntrega
<1>3. Hasta' = Hasta BY <1>2 DEF Hasta
<1>4. LineaEnviada(1) \in Nat BY <1>1, LineasEnviadas DEF EntregaBien, Pendientes
<1>5. /\ Head(aKernel).n = 1 /\ Datos(aKernel) = LineaEnviada(1)
  <2>1. Head(aKernel) = aKernel[1] OBVIOUS
  <2> QED BY <1>1, <2>1 DEF Datos, Tam, Palabra
<1>6. /\ atendidas' \in Seq(Nat) /\ atendidas' # <<>>
      /\ atendidas'[Len(atendidas')] = LineaEnviada(1)
  <2>1. atendidas' = Append(atendidas, LineaEnviada(1)) BY <1>5
  <2>2. atendidas \in Seq(Nat) BY DEF EntregaBien, TipoEntrega
  <2> HIDE DEF ProcesarSyscall
  <2> QED BY <1>4, <2>1, <2>2, AppendProperties
<1>7. /\ aKernel' \in Seq(Palabras) /\ Len(aKernel') = 3 * m - 3
      /\ \A i \in 1..Len(aKernel') : aKernel'[i] = aKernel[i + 2]
  <2> DEFINE largo == Len(aKernel)
             resto == SubSeq(aKernel, 3, largo)
  <2>1. \A i \in 3..largo : aKernel[i] \in Palabras BY <1>1, <1>2, ElementOfSeq
  <2>2. largo \in Nat /\ largo = 3 * m - 1 /\ largo > 1 BY <1>1
  <2>3. /\ resto \in Seq(Palabras) /\ Len(resto) = (IF 3 <= largo THEN largo - 3 + 1 ELSE 0)
        /\ \A i \in 1..largo - 3 + 1 : resto[i] = aKernel[3 + i - 1]
    BY <2>1, <2>2, SubSeqProperties
  <2>4. aKernel' = resto BY <1>5 DEF TrasPaquete
  <2> HIDE DEF largo, resto, ProcesarSyscall
  <2>5. Len(resto) = 3 * m - 3 BY <2>2, <2>3
  <2>6. \A i \in 1..Len(resto) : 3 + i - 1 = i + 2 /\ i \in 1..largo - 3 + 1 BY <2>2, <2>5
  <2> QED BY <2>3, <2>4, <2>5, <2>6
<1>8. TipoEntrega' BY <1>2, <1>6, <1>7 DEF EntregaBien, TipoEntrega
<1>9. MemoriaBien' /\ Leidas' = Leidas
  <2>1. Enviadas' = Enviadas /\ linea' = linea /\ deMemoria' = deMemoria
    BY DEF Enviadas, Control, TipoControl
  <2> QED BY <2>1, MemoriaIgual DEF EntregaBien
<1>10. LecturaBien'
  BY <1>9 DEF EntregaBien, LecturaBien, Control, TipoControl
<1> HIDE DEF ProcesarSyscall
<1>11. ASSUME NEW k \in 0..m - 1 PROVE LineaEnviada(k)' = LineaEnviada(k + 1)
  <2>1. CASE k = 0 BY <1>6, <2>1 DEF LineaEnviada, Entrega!Ultima
  <2>2. CASE k # 0
    <3>1. 3 * k - 0 \in 1..Len(aKernel') /\ 3 * k - 0 + 2 = 3 * (k + 1) - 1 /\ k + 1 # 0
      BY <1>7, <2>2
    <3>2. aKernel'[3 * k - 0] = aKernel[3 * (k + 1) - 1] BY <1>7, <3>1
    <3> QED BY <1>2, <2>2, <3>1, <3>2 DEF LineaEnviada
  <2> QED BY <2>1, <2>2
<1>12. SyscallsBien'
  <2>1. Len(aKernel') + CodigoLeido' = 3 * (m - 1) BY <1>2, <1>7
  <2>2. ASSUME NEW k \in 0..m - 1 PROVE LineaEnviada(k)' <= Hasta'
    BY <1>1, <1>3, <1>11 DEF Pendientes
  <2>3. SinSyscalls(archivo', LineaEnviada(m - 1)' + 1, Hasta')
    <3>1. m - 1 \in 0..m - 1 /\ (m - 1) + 1 = m OBVIOUS
    <3>2. LineaEnviada(m - 1)' = LineaEnviada(m) BY <1>11, <3>1
    <3> QED BY <1>1, <1>2, <1>3, <3>2 DEF Pendientes
  <2>4. ASSUME NEW k \in 1..m - 1
        PROVE  /\ 3 * k - CodigoLeido' > 2 => aKernel'[3 * k - CodigoLeido' - 2] = Palabra("SYSCALL", 0)
               /\ aKernel'[3 * k - CodigoLeido' - 1] = Tam(1)
               /\ LineaEnviada(k - 1)' < LineaEnviada(k)'
               /\ archivo'[LineaEnviada(k)'] \in Syscalls
               /\ SinSyscalls(archivo', LineaEnviada(k - 1)' + 1, LineaEnviada(k)' - 1)
    <3>1. /\ k \in 0..m - 1 /\ k - 1 \in 0..m - 1 /\ k + 1 \in 1..m
          /\ (k - 1) + 1 = k /\ (k + 1) - 1 = k
      OBVIOUS
    <3>2. /\ 3 * k - 0 - 2 \in 1..Len(aKernel') /\ (3 * k - 0 - 2) + 2 = 3 * (k + 1) - 1 - 2
          /\ 3 * k - 0 - 1 \in 1..Len(aKernel') /\ (3 * k - 0 - 1) + 2 = 3 * (k + 1) - 1 - 1
          /\ 3 * (k + 1) - 1 > 2
      BY <1>7
    <3>3. /\ aKernel[3 * (k + 1) - 1 - 2] = Palabra("SYSCALL", 0)
          /\ aKernel[3 * (k + 1) - 1 - 1] = Tam(1)
          /\ LineaEnviada(k) < LineaEnviada(k + 1)
          /\ archivo[LineaEnviada(k + 1)] \in Syscalls
          /\ SinSyscalls(archivo, LineaEnviada(k) + 1, LineaEnviada(k + 1) - 1)
      BY <1>1, <1>2, <3>1, <3>2 DEF Pendientes
    <3>4. LineaEnviada(k)' = LineaEnviada(k + 1) /\ LineaEnviada(k - 1)' = LineaEnviada(k)
      BY <1>11, <3>1
    <3>5. /\ aKernel'[3 * k - 0 - 2] = aKernel[3 * (k + 1) - 1 - 2]
          /\ aKernel'[3 * k - 0 - 1] = aKernel[3 * (k + 1) - 1 - 1]
      BY <1>7, <3>2
    <3> QED BY <1>2, <3>3, <3>4, <3>5
  <2>5. Pendientes(m - 1)' BY <1>2, <2>1, <2>2, <2>3, <2>4 DEF Pendientes
  <2>6. m - 1 \in Nat OBVIOUS
  <2> QED BY <1>2, <2>5, <2>6 DEF EntregaBien, SyscallsBien
<1> QED BY <1>8, <1>9, <1>10, <1>12 DEF EntregaBien

\* Every other action leaves the words where they are.
LEMMA EntregaEsperarKernel == ASSUME Control, EntregaBien, EsperarKernel PROVE EntregaBien'
<1> USE Nombres DEF EsperarKernel, fijas, sockets, syscalls, ciclo, kernel, historia
<1>1. TipoEntrega' BY DEF EntregaBien, TipoEntrega
<1>2. MemoriaBien' /\ Leidas' = Leidas
  <2>1. Enviadas' = Enviadas /\ linea' = linea /\ deMemoria' = deMemoria
    BY DEF Enviadas, Control, TipoControl
  <2> QED BY <2>1, MemoriaIgual DEF EntregaBien
<1>3. LecturaBien'
  BY <1>2 DEF EntregaBien, LecturaBien, Control, TipoControl, ArchivoBien, CicloBien, Antes, Bucle,
     ArchivoTomado
<1>4. SyscallsBien'
  <2>1. /\ CodigoLeido' = CodigoLeido /\ (PorEnviar' <=> PorEnviar)
        /\ archivo' = archivo /\ aKernel' = aKernel /\ atendidas' = atendidas /\ ejecutadas' = ejecutadas
    BY DEF CodigoLeido, PorEnviar, Control, TipoControl, ManosBien, ManoAMano
  <2>2. Hasta' = Hasta /\ Hasta \in Int BY <2>1 DEF Hasta, EntregaBien, TipoEntrega
  <2> QED BY <2>1, <2>2, SyscallsIguales DEF EntregaBien, SinSyscalls, SyscallsBien
<1> QED BY <1>1, <1>2, <1>3, <1>4 DEF EntregaBien

LEMMA EntregaIniciarCpu == ASSUME Control, EntregaBien, IniciarCpu PROVE EntregaBien'
<1> USE Nombres DEF IniciarCpu, fijas, sockets, syscalls, ciclo, kernel, historia
<1>1. TipoEntrega' BY DEF EntregaBien, TipoEntrega
<1>2. MemoriaBien' /\ Leidas' = Leidas
  <2>1. Enviadas' = Enviadas /\ linea' = linea /\ deMemoria' = deMemoria
    BY DEF Enviadas, Control, TipoControl
  <2> QED BY <2>1, MemoriaIgual DEF EntregaBien
<1>3. LecturaBien'
  BY <1>2 DEF EntregaBien, LecturaBien, Control, TipoControl, ArchivoBien, CicloBien, Antes, Bucle,
     ArchivoTomado
<1>4. SyscallsBien'
  <2>1. /\ CodigoLeido' = CodigoLeido /\ (PorEnviar' <=> PorEnviar)
        /\ archivo' = archivo /\ aKernel' = aKernel /\ atendidas' = atendidas /\ ejecutadas' = ejecutadas
    BY DEF CodigoLeido, PorEnviar, Control, TipoControl, ManosBien, ManoAMano
  <2>2. Hasta' = Hasta /\ Hasta \in Int BY <2>1 DEF Hasta, EntregaBien, TipoEntrega
  <2> QED BY <2>1, <2>2, SyscallsIguales DEF EntregaBien, SinSyscalls, SyscallsBien
<1> QED BY <1>1, <1>2, <1>3, <1>4 DEF EntregaBien

LEMMA EntregaRecibirCodigoPcb == ASSUME Control, EntregaBien, RecibirCodigoPcb PROVE EntregaBien'
<1> USE Nombres DEF RecibirCodigoPcb, fijas, sockets, syscalls, ciclo, kernel, historia
<1>1. TipoEntrega' BY DEF EntregaBien, TipoEntrega
<1>2. MemoriaBien' /\ Leidas' = Leidas
  <2>1. Enviadas' = Enviadas /\ linea' = linea /\ deMemoria' = deMemoria
    BY DEF Enviadas, Control, TipoControl
  <2> QED BY <2>1, MemoriaIgual DEF EntregaBien
<1>3. LecturaBien'
  BY <1>2 DEF EntregaBien, LecturaBien, Control, TipoControl, ArchivoBien, CicloBien, Antes, Bucle,
     ArchivoTomado
<1>4. SyscallsBien'
  <2>1. /\ CodigoLeido' = CodigoLeido /\ (PorEnviar' <=> PorEnviar)
        /\ archivo' = archivo /\ aKernel' = aKernel /\ atendidas' = atendidas /\ ejecutadas' = ejecutadas
    BY DEF CodigoLeido, PorEnviar, Control, TipoControl, ManosBien, ManoAMano
  <2>2. Hasta' = Hasta /\ Hasta \in Int BY <2>1 DEF Hasta, EntregaBien, TipoEntrega
  <2> QED BY <2>1, <2>2, SyscallsIguales DEF EntregaBien, SinSyscalls, SyscallsBien
<1> QED BY <1>1, <1>2, <1>3, <1>4 DEF EntregaBien

LEMMA EntregaLeerPcb == ASSUME Control, EntregaBien, LeerPcb PROVE EntregaBien'
<1> USE Nombres DEF LeerPcb, fijas, sockets, syscalls, ciclo, kernel, historia
<1>1. TipoEntrega' BY DEF EntregaBien, TipoEntrega
<1>2. MemoriaBien' /\ Leidas' = Leidas
  <2>1. Enviadas' = Enviadas /\ linea' = linea /\ deMemoria' = deMemoria
    BY DEF Enviadas, Control, TipoControl
  <2> QED BY <2>1, MemoriaIgual DEF EntregaBien
<1>3. LecturaBien'
  BY <1>2 DEF EntregaBien, LecturaBien, Control, TipoControl, ArchivoBien, CicloBien, Antes, Bucle,
     ArchivoTomado
<1>4. SyscallsBien'
  <2>1. /\ CodigoLeido' = CodigoLeido /\ (PorEnviar' <=> PorEnviar)
        /\ archivo' = archivo /\ aKernel' = aKernel /\ atendidas' = atendidas /\ ejecutadas' = ejecutadas
    BY DEF CodigoLeido, PorEnviar, Control, TipoControl, ManosBien, ManoAMano
  <2>2. Hasta' = Hasta /\ Hasta \in Int BY <2>1 DEF Hasta, EntregaBien, TipoEntrega
  <2> QED BY <2>1, <2>2, SyscallsIguales DEF EntregaBien, SinSyscalls, SyscallsBien
<1> QED BY <1>1, <1>2, <1>3, <1>4 DEF EntregaBien

LEMMA EntregaEsperarArchivo == ASSUME Control, EntregaBien, EsperarArchivo PROVE EntregaBien'
<1> USE Nombres DEF EsperarArchivo, fijas, sockets, syscalls, ciclo, kernel, historia
<1>1. TipoEntrega' BY DEF EntregaBien, TipoEntrega
<1>2. MemoriaBien' /\ Leidas' = Leidas
  <2>1. Enviadas' = Enviadas /\ linea' = linea /\ deMemoria' = deMemoria
    BY DEF Enviadas, Control, TipoControl
  <2> QED BY <2>1, MemoriaIgual DEF EntregaBien
<1>3. LecturaBien'
  BY <1>2 DEF EntregaBien, LecturaBien, Control, TipoControl, ArchivoBien, CicloBien, Antes, Bucle,
     ArchivoTomado
<1>4. SyscallsBien'
  <2>1. /\ CodigoLeido' = CodigoLeido /\ (PorEnviar' <=> PorEnviar)
        /\ archivo' = archivo /\ aKernel' = aKernel /\ atendidas' = atendidas /\ ejecutadas' = ejecutadas
    BY DEF CodigoLeido, PorEnviar, Control, TipoControl, ManosBien, ManoAMano
  <2>2. Hasta' = Hasta /\ Hasta \in Int BY <2>1 DEF Hasta, EntregaBien, TipoEntrega
  <2> QED BY <2>1, <2>2, SyscallsIguales DEF EntregaBien, SinSyscalls, SyscallsBien
<1> QED BY <1>1, <1>2, <1>3, <1>4 DEF EntregaBien

LEMMA EntregaEnviarSolicitud == ASSUME Control, EntregaBien, EnviarSolicitud PROVE EntregaBien'
<1> USE Nombres DEF EnviarSolicitud, fijas, sockets, syscalls, ciclo, kernel, historia,
     LlegaAMemoria
<1>1. TipoEntrega' BY DEF EntregaBien, TipoEntrega
<1>2. MemoriaBien' /\ Leidas' = Leidas
  <2>1. Enviadas' = Enviadas /\ linea' = linea /\ deMemoria' = deMemoria
    BY DEF Enviadas, Control, TipoControl
  <2> QED BY <2>1, MemoriaIgual DEF EntregaBien
<1>3. LecturaBien'
  BY <1>2 DEF EntregaBien, LecturaBien, Control, TipoControl, ArchivoBien, CicloBien, Antes, Bucle,
     ArchivoTomado
<1>4. SyscallsBien'
  <2>1. /\ CodigoLeido' = CodigoLeido /\ (PorEnviar' <=> PorEnviar)
        /\ archivo' = archivo /\ aKernel' = aKernel /\ atendidas' = atendidas /\ ejecutadas' = ejecutadas
    BY DEF CodigoLeido, PorEnviar, Control, TipoControl, ManosBien, ManoAMano
  <2>2. Hasta' = Hasta /\ Hasta \in Int BY <2>1 DEF Hasta, EntregaBien, TipoEntrega
  <2> QED BY <2>1, <2>2, SyscallsIguales DEF EntregaBien, SinSyscalls, SyscallsBien
<1> QED BY <1>1, <1>2, <1>3, <1>4 DEF EntregaBien

LEMMA EntregaEnviarTamSolicitud ==
    ASSUME Control, EntregaBien, EnviarTamSolicitud PROVE EntregaBien'
<1> USE Nombres DEF EnviarTamSolicitud, fijas, sockets, syscalls, ciclo, kernel, historia
<1>1. TipoEntrega' BY DEF EntregaBien, TipoEntrega
<1>2. MemoriaBien' /\ Leidas' = Leidas
  <2>1. Enviadas' = Enviadas /\ linea' = linea /\ deMemoria' = deMemoria
    BY DEF Enviadas, Control, TipoControl
  <2> QED BY <2>1, MemoriaIgual DEF EntregaBien
<1>3. LecturaBien'
  BY <1>2 DEF EntregaBien, LecturaBien, Control, TipoControl, ArchivoBien, CicloBien, Antes, Bucle,
     ArchivoTomado
<1>4. SyscallsBien'
  <2>1. /\ CodigoLeido' = CodigoLeido /\ (PorEnviar' <=> PorEnviar)
        /\ archivo' = archivo /\ aKernel' = aKernel /\ atendidas' = atendidas /\ ejecutadas' = ejecutadas
    BY DEF CodigoLeido, PorEnviar, Control, TipoControl, ManosBien, ManoAMano
  <2>2. Hasta' = Hasta /\ Hasta \in Int BY <2>1 DEF Hasta, EntregaBien, TipoEntrega
  <2> QED BY <2>1, <2>2, SyscallsIguales DEF EntregaBien, SinSyscalls, SyscallsBien
<1> QED BY <1>1, <1>2, <1>3, <1>4 DEF EntregaBien

LEMMA EntregaEsperarSyscall == ASSUME Control, EntregaBien, EsperarSyscall PROVE EntregaBien'
<1> USE Nombres DEF EsperarSyscall, fijas, sockets, syscalls, ciclo, kernel, historia,
     SyscallProcesada
<1>1. TipoEntrega' BY DEF EntregaBien, TipoEntrega
<1>2. MemoriaBien' /\ Leidas' = Leidas
  <2>1. Enviadas' = Enviadas /\ linea' = linea /\ deMemoria' = deMemoria
    BY DEF Enviadas, Control, TipoControl
  <2> QED BY <2>1, MemoriaIgual DEF EntregaBien
<1>3. LecturaBien'
  BY <1>2 DEF EntregaBien, LecturaBien, Control, TipoControl, ArchivoBien, CicloBien, Antes, Bucle,
     ArchivoTomado
<1>4. SyscallsBien'
  <2>1. /\ CodigoLeido' = CodigoLeido /\ (PorEnviar' <=> PorEnviar)
        /\ archivo' = archivo /\ aKernel' = aKernel /\ atendidas' = atendidas /\ ejecutadas' = ejecutadas
    BY DEF CodigoLeido, PorEnviar, Control, TipoControl, ManosBien, ManoAMano
  <2>2. Hasta' = Hasta /\ Hasta \in Int BY <2>1 DEF Hasta, EntregaBien, TipoEntrega
  <2> QED BY <2>1, <2>2, SyscallsIguales DEF EntregaBien, SinSyscalls, SyscallsBien
<1> QED BY <1>1, <1>2, <1>3, <1>4 DEF EntregaBien

LEMMA EntregaConectarKernel ==
    ASSUME NEW h, Control, EntregaBien, ConectarKernel(h) PROVE EntregaBien'
<1> USE Nombres DEF ConectarKernel, fijas, sockets, syscalls, ciclo, kernel, historia
<1>1. TipoEntrega' BY DEF EntregaBien, TipoEntrega
<1>2. MemoriaBien' /\ Leidas' = Leidas
  <2>1. Enviadas' = Enviadas /\ linea' = linea /\ deMemoria' = deMemoria
    BY DEF Enviadas, Control, TipoControl
  <2> QED BY <2>1, MemoriaIgual DEF EntregaBien
<1>3. LecturaBien'
  BY <1>2 DEF EntregaBien, LecturaBien, Control, TipoControl, ArchivoBien, CicloBien, Antes, Bucle,
     ArchivoTomado
<1>4. SyscallsBien'
  <2>1. /\ CodigoLeido' = CodigoLeido /\ (PorEnviar' <=> PorEnviar)
        /\ archivo' = archivo /\ aKernel' = aKernel /\ atendidas' = atendidas /\ ejecutadas' = ejecutadas
    BY DEF CodigoLeido, PorEnviar, Control, TipoControl, ManosBien, ManoAMano
  <2>2. Hasta' = Hasta /\ Hasta \in Int BY <2>1 DEF Hasta, EntregaBien, TipoEntrega
  <2> QED BY <2>1, <2>2, SyscallsIguales DEF EntregaBien, SinSyscalls, SyscallsBien
<1> QED BY <1>1, <1>2, <1>3, <1>4 DEF EntregaBien

LEMMA EntregaTomarSyscall == ASSUME Control, EntregaBien, TomarSyscall PROVE EntregaBien'
<1> USE Nombres DEF TomarSyscall, fijas, sockets, syscalls, ciclo, kernel, historia
<1>1. TipoEntrega' BY DEF EntregaBien, TipoEntrega
<1>2. MemoriaBien' /\ Leidas' = Leidas
  <2>1. Enviadas' = Enviadas /\ linea' = linea /\ deMemoria' = deMemoria
    BY DEF Enviadas, Control, TipoControl
  <2> QED BY <2>1, MemoriaIgual DEF EntregaBien
<1>3. LecturaBien'
  BY <1>2 DEF EntregaBien, LecturaBien, Control, TipoControl, ArchivoBien, CicloBien, Antes, Bucle,
     ArchivoTomado
<1>4. SyscallsBien'
  <2>1. /\ CodigoLeido' = CodigoLeido /\ (PorEnviar' <=> PorEnviar)
        /\ archivo' = archivo /\ aKernel' = aKernel /\ atendidas' = atendidas /\ ejecutadas' = ejecutadas
    BY DEF CodigoLeido, PorEnviar, Control, TipoControl, ManosBien, ManoAMano
  <2>2. Hasta' = Hasta /\ Hasta \in Int BY <2>1 DEF Hasta, EntregaBien, TipoEntrega
  <2> QED BY <2>1, <2>2, SyscallsIguales DEF EntregaBien, SinSyscalls, SyscallsBien
<1> QED BY <1>1, <1>2, <1>3, <1>4 DEF EntregaBien

LEMMA EntregaConfirmar == ASSUME Control, EntregaBien, Confirmar PROVE EntregaBien'
<1> USE Nombres DEF Confirmar, fijas, sockets, syscalls, ciclo, kernel, historia, Avisar
<1>1. TipoEntrega' BY DEF EntregaBien, TipoEntrega
<1>2. MemoriaBien' /\ Leidas' = Leidas
  <2>1. Enviadas' = Enviadas /\ linea' = linea /\ deMemoria' = deMemoria
    BY DEF Enviadas, Control, TipoControl
  <2> QED BY <2>1, MemoriaIgual DEF EntregaBien
<1>3. LecturaBien'
  BY <1>2 DEF EntregaBien, LecturaBien, Control, TipoControl, ArchivoBien, CicloBien, Antes, Bucle,
     ArchivoTomado
<1>4. SyscallsBien'
  <2>1. /\ CodigoLeido' = CodigoLeido /\ (PorEnviar' <=> PorEnviar)
        /\ archivo' = archivo /\ aKernel' = aKernel /\ atendidas' = atendidas /\ ejecutadas' = ejecutadas
    BY DEF CodigoLeido, PorEnviar, Control, TipoControl, ManosBien, ManoAMano
  <2>2. Hasta' = Hasta /\ Hasta \in Int BY <2>1 DEF Hasta, EntregaBien, TipoEntrega
  <2> QED BY <2>1, <2>2, SyscallsIguales DEF EntregaBien, SinSyscalls, SyscallsBien
<1> QED BY <1>1, <1>2, <1>3, <1>4 DEF EntregaBien

LEMMA EntregaConectarMemoria == ASSUME Control, EntregaBien, ConectarMemoria PROVE EntregaBien'
<1> USE Nombres DEF ConectarMemoria, fijas, sockets, syscalls, ciclo, kernel, historia
<1>1. TipoEntrega' BY DEF EntregaBien, TipoEntrega
<1>2. MemoriaBien' /\ Leidas' = Leidas
  <2>1. Enviadas' = Enviadas /\ linea' = linea /\ deMemoria' = deMemoria
    BY DEF Enviadas, Control, TipoControl
  <2> QED BY <2>1, MemoriaIgual DEF EntregaBien
<1>3. LecturaBien'
  BY <1>2 DEF EntregaBien, LecturaBien, Control, TipoControl, ArchivoBien, CicloBien, Antes, Bucle,
     ArchivoTomado
<1>4. SyscallsBien'
  <2>1. /\ CodigoLeido' = CodigoLeido /\ (PorEnviar' <=> PorEnviar)
        /\ archivo' = archivo /\ aKernel' = aKernel /\ atendidas' = atendidas /\ ejecutadas' = ejecutadas
    BY DEF CodigoLeido, PorEnviar, Control, TipoControl, ManosBien, ManoAMano
  <2>2. Hasta' = Hasta /\ Hasta \in Int BY <2>1 DEF Hasta, EntregaBien, TipoEntrega
  <2> QED BY <2>1, <2>2, SyscallsIguales DEF EntregaBien, SinSyscalls, SyscallsBien
<1> QED BY <1>1, <1>2, <1>3, <1>4 DEF EntregaBien

LEMMA EntregaLimpiarBuffer == ASSUME Control, EntregaBien, LimpiarBuffer PROVE EntregaBien'
<1> USE Nombres DEF LimpiarBuffer, fijas, sockets, syscalls, ciclo, kernel, historia
<1>1. TipoEntrega' BY DEF EntregaBien, TipoEntrega
<1>2. MemoriaBien' /\ Leidas' = Leidas
  <2>1. Enviadas' = Enviadas /\ linea' = linea /\ deMemoria' = deMemoria
    BY DEF Enviadas, Control, TipoControl
  <2> QED BY <2>1, MemoriaIgual DEF EntregaBien
<1>3. LecturaBien'
  BY <1>2 DEF EntregaBien, LecturaBien, Control, TipoControl, ArchivoBien, CicloBien, Antes, Bucle,
     ArchivoTomado
<1>4. SyscallsBien'
  <2>1. /\ CodigoLeido' = CodigoLeido /\ (PorEnviar' <=> PorEnviar)
        /\ archivo' = archivo /\ aKernel' = aKernel /\ atendidas' = atendidas /\ ejecutadas' = ejecutadas
    BY DEF CodigoLeido, PorEnviar, Control, TipoControl, ManosBien, ManoAMano
  <2>2. Hasta' = Hasta /\ Hasta \in Int BY <2>1 DEF Hasta, EntregaBien, TipoEntrega
  <2> QED BY <2>1, <2>2, SyscallsIguales DEF EntregaBien, SinSyscalls, SyscallsBien
<1> QED BY <1>1, <1>2, <1>3, <1>4 DEF EntregaBien

LEMMA EntregaCerrarMemoria == ASSUME Control, EntregaBien, CerrarMemoria PROVE EntregaBien'
<1> USE Nombres DEF CerrarMemoria, fijas, sockets, syscalls, ciclo, kernel, historia
<1>1. TipoEntrega' BY DEF EntregaBien, TipoEntrega
<1>2. MemoriaBien' /\ Leidas' = Leidas
  <2>1. Enviadas' = Enviadas /\ linea' = linea /\ deMemoria' = deMemoria
    BY DEF Enviadas, Control, TipoControl
  <2> QED BY <2>1, MemoriaIgual DEF EntregaBien
<1>3. LecturaBien'
  BY <1>2 DEF EntregaBien, LecturaBien, Control, TipoControl, ArchivoBien, CicloBien, Antes, Bucle,
     ArchivoTomado
<1>4. SyscallsBien'
  <2>1. /\ CodigoLeido' = CodigoLeido /\ (PorEnviar' <=> PorEnviar)
        /\ archivo' = archivo /\ aKernel' = aKernel /\ atendidas' = atendidas /\ ejecutadas' = ejecutadas
    BY DEF CodigoLeido, PorEnviar, Control, TipoControl, ManosBien, ManoAMano
  <2>2. Hasta' = Hasta /\ Hasta \in Int BY <2>1 DEF Hasta, EntregaBien, TipoEntrega
  <2> QED BY <2>1, <2>2, SyscallsIguales DEF EntregaBien, SinSyscalls, SyscallsBien
<1> QED BY <1>1, <1>2, <1>3, <1>4 DEF EntregaBien

LEMMA EntregaAceptarCpu == ASSUME Control, EntregaBien, AceptarCpu PROVE EntregaBien'
<1> USE Nombres DEF AceptarCpu, fijas, sockets, syscalls, ciclo, kernel, historia
<1>1. TipoEntrega' BY DEF EntregaBien, TipoEntrega
<1>2. MemoriaBien' /\ Leidas' = Leidas
  <2>1. Enviadas' = Enviadas /\ linea' = linea /\ deMemoria' = deMemoria
    BY DEF Enviadas, Control, TipoControl
  <2> QED BY <2>1, MemoriaIgual DEF EntregaBien
<1>3. LecturaBien'
  BY <1>2 DEF EntregaBien, LecturaBien, Control, TipoControl, ArchivoBien, CicloBien, Antes, Bucle,
     ArchivoTomado
<1>4. SyscallsBien'
  <2>1. /\ CodigoLeido' = CodigoLeido /\ (PorEnviar' <=> PorEnviar)
        /\ archivo' = archivo /\ aKernel' = aKernel /\ atendidas' = atendidas /\ ejecutadas' = ejecutadas
    BY DEF CodigoLeido, PorEnviar, Control, TipoControl, ManosBien, ManoAMano
  <2>2. Hasta' = Hasta /\ Hasta \in Int BY <2>1 DEF Hasta, EntregaBien, TipoEntrega
  <2> QED BY <2>1, <2>2, SyscallsIguales DEF EntregaBien, SinSyscalls, SyscallsBien
<1> QED BY <1>1, <1>2, <1>3, <1>4 DEF EntregaBien

LEMMA EntregaResponderSyscall == ASSUME Control, EntregaBien, ResponderSyscall PROVE EntregaBien'
<1> USE Nombres DEF ResponderSyscall, fijas, sockets, syscalls, ciclo, kernel, historia, Responde
<1>1. TipoEntrega' BY DEF EntregaBien, TipoEntrega
<1>2. MemoriaBien' /\ Leidas' = Leidas
  <2>1. Enviadas' = Enviadas /\ linea' = linea /\ deMemoria' = deMemoria
    BY DEF Enviadas, Control, TipoControl
  <2> QED BY <2>1, MemoriaIgual DEF EntregaBien
<1>3. LecturaBien'
  BY <1>2 DEF EntregaBien, LecturaBien, Control, TipoControl, ArchivoBien, CicloBien, Antes, Bucle,
     ArchivoTomado
<1>4. SyscallsBien'
  <2>1. /\ CodigoLeido' = CodigoLeido /\ (PorEnviar' <=> PorEnviar)
        /\ archivo' = archivo /\ aKernel' = aKernel /\ atendidas' = atendidas /\ ejecutadas' = ejecutadas
    BY DEF CodigoLeido, PorEnviar, Control, TipoControl, ManosBien, ManoAMano
  <2>2. Hasta' = Hasta /\ Hasta \in Int BY <2>1 DEF Hasta, EntregaBien, TipoEntrega
  <2> QED BY <2>1, <2>2, SyscallsIguales DEF EntregaBien, SinSyscalls, SyscallsBien
<1> QED BY <1>1, <1>2, <1>3, <1>4 DEF EntregaBien

LEMMA EntregaResponderTam == ASSUME Control, EntregaBien, ResponderTam PROVE EntregaBien'
<1> USE Nombres DEF ResponderTam, fijas, sockets, syscalls, ciclo, kernel, historia
<1>1. TipoEntrega' BY DEF EntregaBien, TipoEntrega
<1>2. MemoriaBien' /\ Leidas' = Leidas
  <2>1. Enviadas' = Enviadas /\ linea' = linea /\ deMemoria' = deMemoria
    BY DEF Enviadas, Control, TipoControl
  <2> QED BY <2>1, MemoriaIgual DEF EntregaBien
<1>3. LecturaBien'
  BY <1>2 DEF EntregaBien, LecturaBien, Control, TipoControl, ArchivoBien, CicloBien, Antes, Bucle,
     ArchivoTomado
<1>4. SyscallsBien'
  <2>1. /\ CodigoLeido' = CodigoLeido /\ (PorEnviar' <=> PorEnviar)
        /\ archivo' = archivo /\ aKernel' = aKernel /\ atendidas' = atendidas /\ ejecutadas' = ejecutadas
    BY DEF CodigoLeido, PorEnviar, Control, TipoControl, ManosBien, ManoAMano
  <2>2. Hasta' = Hasta /\ Hasta \in Int BY <2>1 DEF Hasta, EntregaBien, TipoEntrega
  <2> QED BY <2>1, <2>2, SyscallsIguales DEF EntregaBien, SinSyscalls, SyscallsBien
<1> QED BY <1>1, <1>2, <1>3, <1>4 DEF EntregaBien

LEMMA EntregaReplanificarEnVano ==
    ASSUME Control, EntregaBien, ReplanificarEnVano PROVE EntregaBien'
<1> USE Nombres DEF ReplanificarEnVano, fijas, sockets, syscalls, ciclo, kernel, historia
<1>1. TipoEntrega' BY DEF EntregaBien, TipoEntrega
<1>2. MemoriaBien' /\ Leidas' = Leidas
  <2>1. Enviadas' = Enviadas /\ linea' = linea /\ deMemoria' = deMemoria
    BY DEF Enviadas, Control, TipoControl
  <2> QED BY <2>1, MemoriaIgual DEF EntregaBien
<1>3. LecturaBien'
  BY <1>2 DEF EntregaBien, LecturaBien, Control, TipoControl, ArchivoBien, CicloBien, Antes, Bucle,
     ArchivoTomado
<1>4. SyscallsBien'
  <2>1. /\ CodigoLeido' = CodigoLeido /\ (PorEnviar' <=> PorEnviar)
        /\ archivo' = archivo /\ aKernel' = aKernel /\ atendidas' = atendidas /\ ejecutadas' = ejecutadas
    BY DEF CodigoLeido, PorEnviar, Control, TipoControl, ManosBien, ManoAMano
  <2>2. Hasta' = Hasta /\ Hasta \in Int BY <2>1 DEF Hasta, EntregaBien, TipoEntrega
  <2> QED BY <2>1, <2>2, SyscallsIguales DEF EntregaBien, SinSyscalls, SyscallsBien
<1> QED BY <1>1, <1>2, <1>3, <1>4 DEF EntregaBien

LEMMA EntregaEnviarPcb ==
    ASSUME NEW h \in {"kernel", "corto"}, Control, EntregaBien, EnviarPcb(h) PROVE EntregaBien'
<1> USE Nombres DEF EnviarPcb, fijas, sockets, syscalls, ciclo, kernel, historia, EnviandoPcb
<1>1. TipoEntrega' BY DEF EntregaBien, TipoEntrega
<1>2. MemoriaBien' /\ Leidas' = Leidas
  <2>1. Enviadas' = Enviadas /\ linea' = linea /\ deMemoria' = deMemoria
    BY DEF Enviadas, Control, TipoControl
  <2> QED BY <2>1, MemoriaIgual DEF EntregaBien
<1>3. LecturaBien'
  BY <1>2 DEF EntregaBien, LecturaBien, Control, TipoControl, ArchivoBien, CicloBien, Antes, Bucle,
     ArchivoTomado
<1>4. SyscallsBien'
  <2>1. /\ CodigoLeido' = CodigoLeido /\ (PorEnviar' <=> PorEnviar)
        /\ archivo' = archivo /\ aKernel' = aKernel /\ atendidas' = atendidas /\ ejecutadas' = ejecutadas
    BY DEF CodigoLeido, PorEnviar, Control, TipoControl, ManosBien, ManoAMano
  <2>2. Hasta' = Hasta /\ Hasta \in Int BY <2>1 DEF Hasta, EntregaBien, TipoEntrega
  <2> QED BY <2>1, <2>2, SyscallsIguales DEF EntregaBien, SinSyscalls, SyscallsBien
<1> QED BY <1>1, <1>2, <1>3, <1>4 DEF EntregaBien

LEMMA EntregaEnviarTamPcb ==
    ASSUME NEW h \in {"kernel", "corto"}, Control, EntregaBien, EnviarTamPcb(h) PROVE EntregaBien'
<1> USE Nombres DEF EnviarTamPcb, fijas, sockets, syscalls, ciclo, kernel, historia
<1>1. TipoEntrega' BY DEF EntregaBien, TipoEntrega
<1>2. MemoriaBien' /\ Leidas' = Leidas
  <2>1. Enviadas' = Enviadas /\ linea' = linea /\ deMemoria' = deMemoria
    BY DEF Enviadas, Control, TipoControl
  <2> QED BY <2>1, MemoriaIgual DEF EntregaBien
<1>3. LecturaBien'
  BY <1>2 DEF EntregaBien, LecturaBien, Control, TipoControl, ArchivoBien, CicloBien, Antes, Bucle,
     ArchivoTomado
<1>4. SyscallsBien'
  <2>1. /\ CodigoLeido' = CodigoLeido /\ (PorEnviar' <=> PorEnviar)
        /\ archivo' = archivo /\ aKernel' = aKernel /\ atendidas' = atendidas /\ ejecutadas' = ejecutadas
    BY DEF CodigoLeido, PorEnviar, Control, TipoControl, ManosBien, ManoAMano
  <2>2. Hasta' = Hasta /\ Hasta \in Int BY <2>1 DEF Hasta, EntregaBien, TipoEntrega
  <2> QED BY <2>1, <2>2, SyscallsIguales DEF EntregaBien, SinSyscalls, SyscallsBien
<1> QED BY <1>1, <1>2, <1>3, <1>4 DEF EntregaBien

LEMMA EntregaEnviarDatosPcb ==
    ASSUME NEW h \in {"kernel", "corto"}, Control, EntregaBien, EnviarDatosPcb(h)
    PROVE EntregaBien'
<1> USE Nombres DEF EnviarDatosPcb, fijas, sockets, syscalls, ciclo, kernel, historia
<1>1. TipoEntrega' BY DEF EntregaBien, TipoEntrega
<1>2. MemoriaBien' /\ Leidas' = Leidas
  <2>1. Enviadas' = Enviadas /\ linea' = linea /\ deMemoria' = deMemoria
    BY DEF Enviadas, Control, TipoControl
  <2> QED BY <2>1, MemoriaIgual DEF EntregaBien
<1>3. LecturaBien'
  BY <1>2 DEF EntregaBien, LecturaBien, Control, TipoControl, ArchivoBien, CicloBien, Antes, Bucle,
     ArchivoTomado
<1>4. SyscallsBien'
  <2>1. /\ CodigoLeido' = CodigoLeido /\ (PorEnviar' <=> PorEnviar)
        /\ archivo' = archivo /\ aKernel' = aKernel /\ atendidas' = atendidas /\ ejecutadas' = ejecutadas
    BY DEF CodigoLeido, PorEnviar, Control, TipoControl, ManosBien, ManoAMano
  <2>2. Hasta' = Hasta /\ Hasta \in Int BY <2>1 DEF Hasta, EntregaBien, TipoEntrega
  <2> QED BY <2>1, <2>2, SyscallsIguales DEF EntregaBien, SinSyscalls, SyscallsBien
<1> QED BY <1>1, <1>2, <1>3, <1>4 DEF EntregaBien

LEMMA EntregaSinCambio == ASSUME EntregaBien, UNCHANGED vars PROVE EntregaBien'
<1> USE DEF vars, fijas, sockets, syscalls, ciclo, kernel, historia
<1>1. TipoEntrega' BY DEF EntregaBien, TipoEntrega
<1>2. MemoriaBien' BY DEF EntregaBien, MemoriaBien, Leidas, Enviadas
<1>3. LecturaBien' BY DEF EntregaBien, LecturaBien, Leidas, Enviadas
<1>4. SyscallsBien'
  <2>1. PICK m \in Nat : Pendientes(m) BY DEF EntregaBien, SyscallsBien
  <2>2. Pendientes(m)'
    BY <2>1 DEF Pendientes, LineaEnviada, Entrega!Ultima, CodigoLeido, Hasta, PorEnviar
  <2> QED BY <2>2 DEF EntregaBien, SyscallsBien, PorEnviar
<1> QED BY <1>1, <1>2, <1>3, <1>4 DEF EntregaBien

LEMMA EntregaPaso == Control /\ EntregaBien /\ [Next]_vars => EntregaBien'
<1> SUFFICES ASSUME Control, EntregaBien, [Next]_vars PROVE EntregaBien' OBVIOUS
<1>1. CASE Principal
  BY <1>1, EntregaEsperarKernel, EntregaIniciarCpu, EntregaRecibirCodigoPcb, EntregaLeerPcb,
     EntregaCiclo, EntregaEsperarArchivo, EntregaEnviarSolicitud, EntregaEnviarTamSolicitud,
     EntregaRecibirRespuesta, EntregaProcesarInstruccion, EntregaEsperarSyscall
  DEF Principal
<1>2. CASE Despacho \/ Interrupcion
  BY <1>2, EntregaConectarKernel, EntregaTomarSyscall, EntregaEnviarSyscall, EntregaConfirmar
  DEF Despacho, Interrupcion
<1>3. CASE Conexion \/ HiloMemoria
  BY <1>3, EntregaConectarMemoria, EntregaRecibirArchivoListo, EntregaAnunciarArchivo,
     EntregaAtenderSolicitud, EntregaLimpiarBuffer, EntregaCerrarMemoria
  DEF Conexion, HiloMemoria
<1>4. CASE HiloKernel \/ HiloCorto
  BY <1>4, EntregaAceptarCpu, EntregaRecibirOperacion, EntregaProcesarSyscall,
     EntregaResponderSyscall, EntregaResponderTam, EntregaReplanificarEnVano, EntregaEnviarPcb,
     EntregaEnviarTamPcb, EntregaEnviarDatosPcb
  DEF HiloKernel, HiloCorto, TerminarPcb
<1>5. CASE UNCHANGED vars BY <1>5, EntregaSinCambio
<1> QED BY <1>1, <1>2, <1>3, <1>4, <1>5 DEF Next

LEMMA EntregaSiempre == Spec => []EntregaBien
BY EntregaInicial, EntregaPaso, ControlSiempre, PTL DEF Spec

----------------------------------------------------------------------------
(* The refinement.                                                          *)

\* Two actions change what EntregaDeSyscalls sees.
LEMMA LosDemasNoSeVen ==
    ASSUME Control, [Next]_vars, ~ProcesarInstruccion, ~ProcesarSyscall
    PROVE  UNCHANGED Entrega!vars
BY DEF Next, vars, fijas, historia, Entrega!vars, Principal, Despacho, Interrupcion, Conexion,
       HiloMemoria, HiloKernel, HiloCorto, TerminarPcb, EsperarKernel, IniciarCpu,
       RecibirCodigoPcb, LeerPcb, Ciclo, EsperarArchivo, EnviarSolicitud, EnviarTamSolicitud,
       RecibirRespuesta, EsperarSyscall, ConectarKernel, TomarSyscall, EnviarSyscall, Confirmar,
       ConectarMemoria, RecibirArchivoListo, AnunciarArchivo, AtenderSolicitud, LimpiarBuffer,
       CerrarMemoria, AceptarCpu, RecibirOperacion, ResponderSyscall, ResponderTam,
       ReplanificarEnVano, EnviarPcb, EnviarTamPcb, EnviarDatosPcb

LEMMA ProcesarEjecuta ==
    ASSUME Control, EntregaBien, ProcesarInstruccion PROVE Entrega!Ejecutar
<1>1. /\ ejecutadas' = ejecutadas + 1 /\ archivo' = archivo /\ atendidas' = atendidas
  BY SiguienteInstruccion DEF ProcesarInstruccion, fijas
<1>2. ejecutadas < Len(archivo)
  <2>1. Len(archivo) \in Nat BY LenProperties, SupuestoProgramas DEF EntregaBien, TipoEntrega
  <2> QED BY <2>1, SiguienteInstruccion DEF EntregaBien, TipoEntrega
<1> QED BY <1>1, <1>2 DEF Entrega!Ejecutar

LEMMA ProcesarAtiende ==
    ASSUME Control, EntregaBien, ProcesarSyscall PROVE Entrega!Atender
<1>1. PICK m \in Nat \ {0} :
            /\ Pendientes(m) /\ Len(aKernel) = 3 * m - 1
            /\ aKernel[1] = Tam(1) /\ aKernel[2].n = LineaEnviada(1)
  BY SiguienteSyscall DEF ProcesarSyscall
<1>2. archivo' = archivo /\ ejecutadas' = ejecutadas
      /\ atendidas' = Append(atendidas, LineaEnviada(1))
  BY <1>1 DEF ProcesarSyscall, fijas, Datos
<1>3. LineaEnviada(0) \in Nat /\ LineaEnviada(1) \in Nat
  BY <1>1, LineasEnviadas DEF EntregaBien, Pendientes
<1>4. Hasta \in Int /\ Hasta <= ejecutadas BY DEF Hasta, EntregaBien, TipoEntrega
<1>5. 1 \in 0..m /\ 1 \in 1..m /\ 1 - 1 = 0 OBVIOUS
<1>6. /\ LineaEnviada(1) <= Hasta /\ LineaEnviada(0) < LineaEnviada(1)
      /\ archivo[LineaEnviada(1)] \in Syscalls
      /\ SinSyscalls(archivo, LineaEnviada(0) + 1, LineaEnviada(1) - 1)
  BY <1>1, <1>5 DEF Pendientes
<1>7. LineaEnviada(0) = Entrega!Ultima BY DEF LineaEnviada
<1>8. LineaEnviada(1) \in Entrega!Ultima + 1 .. ejecutadas
  BY <1>3, <1>4, <1>6, <1>7 DEF EntregaBien, TipoEntrega
<1> QED BY <1>2, <1>6, <1>7, <1>8 DEF Entrega!Atender, SinSyscalls

LEMMA PasoDeEntrega ==
    Control /\ EntregaBien /\ [Next]_vars => [Entrega!Next]_(Entrega!vars)
BY LosDemasNoSeVen, ProcesarEjecuta, ProcesarAtiende DEF Entrega!Next

\* The lines of any program run one after another and the kernel processes each of its
\* syscalls once, in their order: every step of the CPU, memory and the kernel is a step of
\* EntregaDeSyscalls or changes nothing it sees.
THEOREM EntregaCumplida == Spec => CumpleEntregaDeSyscalls
<1>1. Init => Entrega!Init BY DEF Init, Entrega!Init
<1> QED BY <1>1, ControlSiempre, EntregaSiempre, PasoDeEntrega, PTL
        DEF Spec, CumpleEntregaDeSyscalls, Entrega!Spec

----------------------------------------------------------------------------
(* The types.                                                               *)

\* What the semaphores of the handshakes are worth.
HandshakeBien ==
    /\ sem["sem_cpu_kernel_hs"] =
          (IF En("despacho", "conectar") THEN 0 ELSE 1)
          + (IF En("interrupcion", "conectar") THEN 0 ELSE 1)
          - (IF En("principal", "esperar_kernel") THEN 0 ELSE 1)
    /\ En("conexion", "sin_crear") <=> En("principal", "esperar_kernel")
    /\ En("memoria", "aceptar") <=> pc["conexion"] \in {"sin_crear", "conectar"}
    /\ sem["sem_memoria_cpu_hs"] =
          IF ~En("memoria", "aceptar") /\ En("principal", "esperar_memoria") THEN 1 ELSE 0
    /\ En("memoria", "aceptar") => pc["principal"] \in {"esperar_kernel", "esperar_memoria"}

EtiquetasBien == \A h \in Hilos : pc[h] \in Etiquetas(h)

VariablesBien ==
    /\ puntual \in BOOLEAN /\ esta_libre \in BOOLEAN /\ aMemoria \in Seq(Palabras)
    /\ instruccion_pendiente \in [linea : 0..Len(archivo), procesada : BOOLEAN]
    /\ syscall_a_procesar \in 0..Len(archivo) /\ atendidas \in Seq(1..Len(archivo))
    /\ despachos \in 0..MAX_DESPACHOS /\ pcb_en_ejecucion \in 0..MAX_DESPACHOS
    /\ instrucciones_ejecutadas <= 2 /\ (Antes => instrucciones_ejecutadas = 0)

\* Until principal has its process the kernel serves nothing, and the dispatch socket
\* holds what is sent and not read of the first PCB.
PalabraPcb(i) == IF i = 1 THEN Palabra("PCB_A_EJECUTAR", 0)
                 ELSE IF i = 2 THEN Tam(TAM_PCB) ELSE Palabra("datos", 1)
EnviadasDelPcb == IF despachos = 0 THEN 0
                  ELSE IF En("corto", "pcb_tam") THEN 1
                  ELSE IF En("corto", "pcb_datos") THEN 2 ELSE TAM_PCB + 2
LeidasDelPcb   == IF En("principal", "leer_pcb") THEN 1 ELSE 0
PrimerPcbBien ==
    Antes =>
        /\ aKernel = <<>> /\ pc["kernel"] \in {"aceptar", "recibir"}
        /\ En("kernel", "aceptar") => ~esta_libre
        /\ despachos <= 1 /\ (esta_libre \/ En("kernel", "aceptar") => despachos = 0)
        /\ despachos = 0 => En("corto", "esperar")
        /\ Len(deKernel) + LeidasDelPcb = EnviadasDelPcb
        /\ \A i \in 1..Len(deKernel) : deKernel[i] = PalabraPcb(i + LeidasDelPcb)

Tipos == HandshakeBien /\ EtiquetasBien /\ VariablesBien /\ PrimerPcbBien

LEMMA TiposInicial == Init => Tipos
<1> SUFFICES ASSUME Init PROVE Tipos OBVIOUS
<1>0. /\ pc["principal"] = "esperar_kernel" /\ pc["conexion"] = "sin_crear"
      /\ pc["despacho"] = "conectar" /\ pc["memoria"] = "aceptar" /\ pc["kernel"] = "aceptar"
      /\ pc["interrupcion"] = "conectar" /\ pc["corto"] = "esperar"
      /\ sem["sem_cpu_kernel_hs"] = 0 /\ sem["sem_memoria_cpu_hs"] = 0
  BY Nombres DEF Init
<1>1. HandshakeBien BY <1>0 DEF HandshakeBien
<1>2. EtiquetasBien BY <1>0 DEF EtiquetasBien, Etiquetas, Hilos
<1>3. VariablesBien
  <2>1. Len(archivo) \in Nat BY LenProperties, SupuestoProgramas DEF Init
  <2>2. aMemoria \in Seq(Palabras) /\ atendidas \in Seq(1..Len(archivo)) BY DEF Init
  <2>3. instruccion_pendiente \in [linea : 0..Len(archivo), procesada : BOOLEAN]
    BY <2>1 DEF Init
  <2>4. /\ puntual \in BOOLEAN /\ esta_libre \in BOOLEAN /\ syscall_a_procesar = 0
        /\ despachos = 0 /\ pcb_en_ejecucion = 0 /\ instrucciones_ejecutadas = 0
    BY DEF Init, NINGUNO
  <2> QED BY <2>1, <2>2, <2>3, <2>4, SupuestoLimites DEF VariablesBien
<1>4. PrimerPcbBien BY <1>0 DEF Init, PrimerPcbBien, EnviadasDelPcb, LeidasDelPcb
<1> QED BY <1>1, <1>2, <1>3, <1>4 DEF Tipos

\* The place in the packet of the first PCB of what is in the dispatch socket.
LEMMA EnElPrimerPcb ==
    ASSUME Cuenta, Tipos, Antes
    PROVE  /\ Len(deKernel) \in Nat /\ LeidasDelPcb \in Nat
           /\ Len(deKernel) + LeidasDelPcb = EnviadasDelPcb
           /\ deKernel # <<>> => despachos = 1
           /\ \A i \in 1..Len(deKernel) : deKernel[i] = PalabraPcb(i + LeidasDelPcb)
<1>1. Len(deKernel) \in Nat BY LenProperties DEF Cuenta, TipoCuenta
<1>2. deKernel # <<>> => Len(deKernel) # 0 BY EmptySeq DEF Cuenta, TipoCuenta
<1> QED BY <1>1, <1>2 DEF Tipos, PrimerPcbBien, EnviadasDelPcb, LeidasDelPcb, VariablesBien

LEMMA TiposRecibirCodigoPcb ==
    ASSUME Control, EntregaBien, Cuenta, Tipos, RecibirCodigoPcb PROVE Tipos'
<1> USE Nombres, SupuestoLimites DEF RecibirCodigoPcb, fijas, sockets, syscalls, ciclo, kernel,
     historia
<1>1. HandshakeBien' BY DEF Tipos, HandshakeBien, EtiquetasBien, Control, TipoControl
<1>2. EtiquetasBien' BY DEF Tipos, EtiquetasBien, Etiquetas, Hilos, Control, TipoControl
<1>3. VariablesBien'
  <2>1. puntual' \in BOOLEAN /\ esta_libre' \in BOOLEAN
    BY DEF Tipos, VariablesBien, Control, TipoControl
  <2>2. aMemoria' \in Seq(Palabras)
    BY DEF Tipos, VariablesBien, Control, TipoControl
  <2>3. instruccion_pendiente' \in [linea : 0..Len(archivo'), procesada : BOOLEAN]
    BY DEF Tipos, VariablesBien, Control, TipoControl
  <2>4. syscall_a_procesar' \in 0..Len(archivo') /\ atendidas' \in Seq(1..Len(archivo'))
    BY DEF Tipos, VariablesBien, Control, TipoControl
  <2>5. despachos' \in 0..MAX_DESPACHOS /\ pcb_en_ejecucion' \in 0..MAX_DESPACHOS
    BY DEF Tipos, VariablesBien, Control, TipoControl
  <2>6. instrucciones_ejecutadas' <= 2 /\ (Antes' => instrucciones_ejecutadas' = 0)
    BY DEF Tipos, VariablesBien, Control, TipoControl, Antes, CicloBien
  <2> QED BY <2>1, <2>2, <2>3, <2>4, <2>5, <2>6 DEF VariablesBien
<1>4. PrimerPcbBien'
  <2>1. /\ Antes /\ LeidasDelPcb = 0 /\ pc' = [pc EXCEPT !["principal"] = pc'["principal"]]
        /\ deKernel' = Tail(deKernel) /\ deKernel # <<>>
    BY DEF Antes, LeidasDelPcb, Control, TipoControl
  <2>2. /\ deKernel[1] = PalabraPcb(1) /\ Len(deKernel) \in Nat \ {0}
        /\ Len(deKernel) = EnviadasDelPcb
        /\ \A i \in 1..Len(deKernel) : deKernel[i] = PalabraPcb(i)
    BY <2>1, EnElPrimerPcb, LeerPalabra DEF Cuenta, TipoCuenta
  <2>3. pc'["principal"] = "leer_pcb"
    BY <2>2, HeadTailProperties DEF PalabraPcb, Palabra, Cuenta, TipoCuenta, Control, TipoControl
  <2>4. /\ Len(deKernel') = Len(deKernel) - 1
        /\ \A i \in 1..Len(deKernel') : deKernel'[i] = deKernel[i + 1]
    BY <2>1, HeadTailProperties DEF Cuenta, TipoCuenta
  <2>5. LeidasDelPcb' = 1 /\ EnviadasDelPcb' = EnviadasDelPcb
    BY <2>1, <2>3 DEF LeidasDelPcb, EnviadasDelPcb, Control, TipoControl
  <2>6. \A i \in 1..Len(deKernel') : deKernel'[i] = PalabraPcb(i + 1)'
    BY <2>2, <2>4 DEF PalabraPcb
  <2>7. Len(deKernel') + 1 = EnviadasDelPcb' BY <2>2, <2>4, <2>5
  <2>8. /\ aKernel' = aKernel /\ despachos' = despachos /\ esta_libre' = esta_libre
        /\ pc'["kernel"] = pc["kernel"] /\ pc'["corto"] = pc["corto"]
    BY <2>1
  <2> HIDE DEF RecibirCodigoPcb
  <2> QED BY <2>1, <2>5, <2>6, <2>7, <2>8 DEF Tipos, PrimerPcbBien
<1> QED BY <1>1, <1>2, <1>3, <1>4 DEF Tipos

LEMMA TiposLeerPcb == ASSUME Control, EntregaBien, Cuenta, Tipos, LeerPcb PROVE Tipos'
<1> USE Nombres, SupuestoLimites DEF LeerPcb, fijas, sockets, syscalls, ciclo, kernel, historia
<1>0. /\ Head(deKernel).n = TAM_PCB /\ Datos(deKernel) = 1 /\ 1 <= MAX_DESPACHOS
      /\ pc'["principal"] = "ciclo" /\ ~Antes'
  <2>1. Antes /\ LeidasDelPcb = 1 /\ deKernel # <<>> /\ Len(deKernel) > Head(deKernel).n
    BY DEF Antes, LeidasDelPcb, HayPaquete
  <2>2. despachos = 1 /\ Len(deKernel) \in Nat BY <2>1, EnElPrimerPcb
  <2>3. 1 <= MAX_DESPACHOS BY <2>2 DEF Tipos, VariablesBien
  <2>4. Len(deKernel) \in Nat \ {0} /\ Head(deKernel) = deKernel[1]
    BY <2>1, LeerPalabra, HeadTailProperties DEF Cuenta, TipoCuenta
  <2>5. deKernel[1] = Tam(TAM_PCB) BY <2>1, <2>4, EnElPrimerPcb DEF PalabraPcb
  <2>6. Head(deKernel).n = TAM_PCB BY <2>4, <2>5 DEF Tam, Palabra
  <2>7. 2 \in 1..Len(deKernel) BY <2>1, <2>4, <2>6
  <2>8. deKernel[2] = Palabra("datos", 1) BY <2>1, <2>7, EnElPrimerPcb DEF PalabraPcb
  <2>9. pc'["principal"] = "ciclo" BY <2>6 DEF Control, TipoControl
  <2> QED BY <2>3, <2>6, <2>8, <2>9 DEF Datos, Palabra, Antes
<1>1. HandshakeBien' BY DEF Tipos, HandshakeBien, EtiquetasBien, Control, TipoControl
<1>2. EtiquetasBien' BY DEF Tipos, EtiquetasBien, Etiquetas, Hilos, Control, TipoControl
<1>3. VariablesBien'
  <2>1. puntual' \in BOOLEAN /\ esta_libre' \in BOOLEAN
    BY DEF Tipos, VariablesBien, Control, TipoControl
  <2>2. aMemoria' \in Seq(Palabras)
    BY DEF Tipos, VariablesBien, Control, TipoControl
  <2>3. instruccion_pendiente' \in [linea : 0..Len(archivo'), procesada : BOOLEAN]
    BY DEF Tipos, VariablesBien, Control, TipoControl
  <2>4. syscall_a_procesar' \in 0..Len(archivo') /\ atendidas' \in Seq(1..Len(archivo'))
    BY DEF Tipos, VariablesBien
  <2>5. despachos' \in 0..MAX_DESPACHOS /\ pcb_en_ejecucion' \in 0..MAX_DESPACHOS
    BY <1>0 DEF Tipos, VariablesBien
  <2>6. instrucciones_ejecutadas' <= 2 /\ (Antes' => instrucciones_ejecutadas' = 0)
    BY <1>0
  <2> QED BY <2>1, <2>2, <2>3, <2>4, <2>5, <2>6 DEF VariablesBien
<1>4. PrimerPcbBien' BY <1>0 DEF PrimerPcbBien
<1> QED BY <1>1, <1>2, <1>3, <1>4 DEF Tipos

LEMMA TiposCiclo == ASSUME Control, EntregaBien, Cuenta, Tipos, Ciclo PROVE Tipos'
<1> USE Nombres, SupuestoLimites DEF Ciclo, fijas, sockets, syscalls, ciclo, kernel, historia,
     Termina
<1>1. HandshakeBien' BY DEF Tipos, HandshakeBien, EtiquetasBien, Control, TipoControl
<1>2. EtiquetasBien' BY DEF Tipos, EtiquetasBien, Etiquetas, Hilos, Control, TipoControl
<1>3. VariablesBien'
  <2>1. puntual' \in BOOLEAN /\ esta_libre' \in BOOLEAN
    BY DEF Tipos, VariablesBien, Control, TipoControl
  <2>2. aMemoria' \in Seq(Palabras)
    BY DEF Tipos, VariablesBien, Control, TipoControl
  <2>3. instruccion_pendiente' \in [linea : 0..Len(archivo'), procesada : BOOLEAN]
    BY DEF Tipos, VariablesBien, Control, TipoControl
  <2>4. syscall_a_procesar' \in 0..Len(archivo') /\ atendidas' \in Seq(1..Len(archivo'))
    BY DEF Tipos, VariablesBien, Control, TipoControl
  <2>5. despachos' \in 0..MAX_DESPACHOS /\ pcb_en_ejecucion' \in 0..MAX_DESPACHOS
    BY DEF Tipos, VariablesBien, Control, TipoControl
  <2>6. instrucciones_ejecutadas' <= 2 /\ (Antes' => instrucciones_ejecutadas' = 0)
    <3>1. instrucciones_ejecutadas \in {0, 1} /\ instrucciones_ejecutadas < MAX_INSTRUCCIONES
      BY DEF Control, CicloBien
    <3>2. instrucciones_ejecutadas' = instrucciones_ejecutadas + 1 /\ pc'["principal"] = "esperar_archivo"
      BY <3>1 DEF Control, TipoControl
    <3> QED BY <3>1, <3>2 DEF Antes
  <2> QED BY <2>1, <2>2, <2>3, <2>4, <2>5, <2>6 DEF VariablesBien
<1>4. PrimerPcbBien'
  BY DEF Tipos, PrimerPcbBien, EnviadasDelPcb, LeidasDelPcb, Antes, Control, TipoControl, CicloBien,
     ManosBien, ManoAMano
<1> QED BY <1>1, <1>2, <1>3, <1>4 DEF Tipos

LEMMA TiposEnviarSolicitud ==
    ASSUME Control, EntregaBien, Cuenta, Tipos, EnviarSolicitud PROVE Tipos'
<1> USE Nombres, SupuestoLimites DEF EnviarSolicitud, fijas, sockets, syscalls, ciclo, kernel,
     historia, LlegaAMemoria
<1>1. HandshakeBien' BY DEF Tipos, HandshakeBien, EtiquetasBien, Control, TipoControl
<1>2. EtiquetasBien' BY DEF Tipos, EtiquetasBien, Etiquetas, Hilos, Control, TipoControl
<1>3. VariablesBien'
  <2>1. puntual' \in BOOLEAN /\ esta_libre' \in BOOLEAN
    BY DEF Tipos, VariablesBien, Control, TipoControl
  <2>2. aMemoria' \in Seq(Palabras)
    <3>1. Palabra("SOLICITUD_INSTRUCCION", 0) \in Palabras BY DEF Palabra, Palabras, Codigos
    <3>2. \/ aMemoria' = aMemoria
          \/ aMemoria' = Append(aMemoria, Palabra("SOLICITUD_INSTRUCCION", 0))
      OBVIOUS
    <3> HIDE DEF EnviarSolicitud
    <3> QED BY <3>1, <3>2, AppendProperties DEF Tipos, VariablesBien
  <2>3. instruccion_pendiente' \in [linea : 0..Len(archivo'), procesada : BOOLEAN]
    BY DEF Tipos, VariablesBien, Control, TipoControl
  <2>4. syscall_a_procesar' \in 0..Len(archivo') /\ atendidas' \in Seq(1..Len(archivo'))
    BY DEF Tipos, VariablesBien, Control, TipoControl
  <2>5. despachos' \in 0..MAX_DESPACHOS /\ pcb_en_ejecucion' \in 0..MAX_DESPACHOS
    BY DEF Tipos, VariablesBien, Control, TipoControl
  <2>6. instrucciones_ejecutadas' <= 2 /\ (Antes' => instrucciones_ejecutadas' = 0)
    BY DEF Tipos, VariablesBien, Control, TipoControl, Antes, CicloBien
  <2> QED BY <2>1, <2>2, <2>3, <2>4, <2>5, <2>6 DEF VariablesBien
<1>4. PrimerPcbBien'
  BY DEF Tipos, PrimerPcbBien, EnviadasDelPcb, LeidasDelPcb, Antes, Control, TipoControl, CicloBien,
     ManosBien, ManoAMano
<1> QED BY <1>1, <1>2, <1>3, <1>4 DEF Tipos

LEMMA TiposEnviarTamSolicitud ==
    ASSUME Control, EntregaBien, Cuenta, Tipos, EnviarTamSolicitud PROVE Tipos'
<1> USE Nombres, SupuestoLimites DEF EnviarTamSolicitud, fijas, sockets, syscalls, ciclo, kernel,
     historia
<1>1. HandshakeBien' BY DEF Tipos, HandshakeBien, EtiquetasBien, Control, TipoControl
<1>2. EtiquetasBien' BY DEF Tipos, EtiquetasBien, Etiquetas, Hilos, Control, TipoControl
<1>3. VariablesBien'
  <2>1. puntual' \in BOOLEAN /\ esta_libre' \in BOOLEAN
    BY DEF Tipos, VariablesBien, Control, TipoControl
  <2>2. aMemoria' \in Seq(Palabras)
    BY AppendProperties DEF Tipos, VariablesBien, Palabra, Tam, Palabras, Codigos
  <2>3. instruccion_pendiente' \in [linea : 0..Len(archivo'), procesada : BOOLEAN]
    BY DEF Tipos, VariablesBien, Control, TipoControl
  <2>4. syscall_a_procesar' \in 0..Len(archivo') /\ atendidas' \in Seq(1..Len(archivo'))
    BY DEF Tipos, VariablesBien, Control, TipoControl
  <2>5. despachos' \in 0..MAX_DESPACHOS /\ pcb_en_ejecucion' \in 0..MAX_DESPACHOS
    BY DEF Tipos, VariablesBien, Control, TipoControl
  <2>6. instrucciones_ejecutadas' <= 2 /\ (Antes' => instrucciones_ejecutadas' = 0)
    BY DEF Tipos, VariablesBien, Control, TipoControl, Antes, CicloBien
  <2> QED BY <2>1, <2>2, <2>3, <2>4, <2>5, <2>6 DEF VariablesBien
<1>4. PrimerPcbBien'
  BY DEF Tipos, PrimerPcbBien, EnviadasDelPcb, LeidasDelPcb, Antes, Control, TipoControl, CicloBien,
     ManosBien, ManoAMano
<1> QED BY <1>1, <1>2, <1>3, <1>4 DEF Tipos

LEMMA TiposProcesarInstruccion ==
    ASSUME Control, EntregaBien, Cuenta, Tipos, ProcesarInstruccion PROVE Tipos'
<1> USE Nombres, SupuestoLimites DEF ProcesarInstruccion, fijas, sockets, syscalls, ciclo, kernel,
     historia
<1>1. HandshakeBien' BY DEF Tipos, HandshakeBien, EtiquetasBien, Control, TipoControl
<1>2. EtiquetasBien' BY DEF Tipos, EtiquetasBien, Etiquetas, Hilos, Control, TipoControl
<1>3. VariablesBien'
  <2>1. puntual' \in BOOLEAN /\ esta_libre' \in BOOLEAN
    BY DEF Tipos, VariablesBien, Control, TipoControl
  <2>2. aMemoria' \in Seq(Palabras)
    BY DEF Tipos, VariablesBien, Control, TipoControl
  <2>3. instruccion_pendiente' \in [linea : 0..Len(archivo'), procesada : BOOLEAN]
    <3>1. ejecutadas' \in 0..Len(archivo') /\ archivo' = archivo
      BY EntregaProcesarInstruccion DEF EntregaBien, TipoEntrega
    <3>2. \/ instruccion_pendiente' = [linea |-> ejecutadas', procesada |-> FALSE]
          \/ instruccion_pendiente' = instruccion_pendiente
      OBVIOUS
    <3>3. instruccion_pendiente \in [linea : 0..Len(archivo'), procesada : BOOLEAN]
      BY <3>1 DEF Tipos, VariablesBien
    <3>4. [linea |-> ejecutadas', procesada |-> FALSE] \in [linea : 0..Len(archivo'),
    procesada : BOOLEAN]
      BY <3>1
    <3> QED BY <3>2, <3>3, <3>4
  <2>4. syscall_a_procesar' \in 0..Len(archivo') /\ atendidas' \in Seq(1..Len(archivo'))
    BY DEF Tipos, VariablesBien, Control, TipoControl
  <2>5. despachos' \in 0..MAX_DESPACHOS /\ pcb_en_ejecucion' \in 0..MAX_DESPACHOS
    BY DEF Tipos, VariablesBien, Control, TipoControl
  <2>6. instrucciones_ejecutadas' <= 2 /\ (Antes' => instrucciones_ejecutadas' = 0)
    <3>1. /\ instrucciones_ejecutadas' = instrucciones_ejecutadas
          /\ pc'["principal"] \in {"pedir", "esperar_syscall", "caida"}
      BY DEF Control, TipoControl
    <3> HIDE DEF ProcesarInstruccion
    <3> QED BY <3>1 DEF Tipos, VariablesBien, Antes
  <2> QED BY <2>1, <2>2, <2>3, <2>4, <2>5, <2>6 DEF VariablesBien
<1>4. PrimerPcbBien'
  BY DEF Tipos, PrimerPcbBien, EnviadasDelPcb, LeidasDelPcb, Antes, Control, TipoControl, CicloBien,
     ManosBien, ManoAMano
<1> QED BY <1>1, <1>2, <1>3, <1>4 DEF Tipos

LEMMA TiposProcesarSyscall ==
    ASSUME Control, EntregaBien, Cuenta, Tipos, ProcesarSyscall PROVE Tipos'
<1> USE Nombres, SupuestoLimites DEF ProcesarSyscall, fijas, sockets, syscalls, ciclo, kernel,
     historia
<1>1. HandshakeBien' BY DEF Tipos, HandshakeBien, EtiquetasBien, Control, TipoControl
<1>2. EtiquetasBien' BY DEF Tipos, EtiquetasBien, Etiquetas, Hilos, Control, TipoControl
<1>3. VariablesBien'
  <2>1. puntual' \in BOOLEAN /\ esta_libre' \in BOOLEAN
    BY DEF Tipos, VariablesBien, Control, TipoControl
  <2>2. aMemoria' \in Seq(Palabras)
    BY DEF Tipos, VariablesBien, Control, TipoControl
  <2>3. instruccion_pendiente' \in [linea : 0..Len(archivo'), procesada : BOOLEAN]
    BY DEF Tipos, VariablesBien, Control, TipoControl
  <2>4. syscall_a_procesar' \in 0..Len(archivo') /\ atendidas' \in Seq(1..Len(archivo'))
    <3>1. /\ archivo' = archivo /\ syscall_a_procesar' = syscall_a_procesar
          /\ ejecutadas \in 0..Len(archivo)
      BY DEF EntregaBien, TipoEntrega
    <3>2. PICK l \in Entrega!Ultima + 1 .. ejecutadas : atendidas' = Append(atendidas, l)
      BY ProcesarAtiende DEF Entrega!Atender
    <3> HIDE DEF ProcesarSyscall
    <3>3. atendidas \in Seq(1..Len(archivo)) /\ Len(archivo) \in Nat
      BY LenProperties, SupuestoProgramas DEF Tipos, VariablesBien, EntregaBien, TipoEntrega
    <3>4. Entrega!Ultima \in Nat BY <3>3, EmptySeq, ElementOfSeq, LenProperties DEF Entrega!Ultima
    <3>5. l \in 1..Len(archivo) BY <3>1, <3>2, <3>3, <3>4
    <3>6. atendidas' \in Seq(1..Len(archivo)) BY <3>2, <3>3, <3>5, AppendProperties
    <3> QED BY <3>1, <3>6 DEF Tipos, VariablesBien
  <2>5. despachos' \in 0..MAX_DESPACHOS /\ pcb_en_ejecucion' \in 0..MAX_DESPACHOS
    BY DEF Tipos, VariablesBien, Control, TipoControl
  <2>6. instrucciones_ejecutadas' <= 2 /\ (Antes' => instrucciones_ejecutadas' = 0)
    BY DEF Tipos, VariablesBien, Control, TipoControl, Antes, CicloBien
  <2> QED BY <2>1, <2>2, <2>3, <2>4, <2>5, <2>6 DEF VariablesBien
<1>4. PrimerPcbBien'
  BY DEF Tipos, PrimerPcbBien, EnviadasDelPcb, LeidasDelPcb, Antes, Control, TipoControl, CicloBien,
     ManosBien, ManoAMano
<1> QED BY <1>1, <1>2, <1>3, <1>4 DEF Tipos

\* Writing adds the words of the packet that come next.
LEMMA EscribirDelPcb ==
    ASSUME Cuenta, Tipos, Antes, NEW n \in Nat, LeidasDelPcb' = LeidasDelPcb,
           despachos' = 1, Len(deKernel') = Len(deKernel) + n,
           EnviadasDelPcb \in Nat, EnviadasDelPcb' = EnviadasDelPcb + n,
           \A i \in 1..Len(deKernel) : deKernel'[i] = deKernel[i],
           \A i \in 1..n : deKernel'[Len(deKernel) + i] = PalabraPcb(EnviadasDelPcb + i)
    PROVE  /\ Len(deKernel') + LeidasDelPcb' = EnviadasDelPcb'
           /\ \A i \in 1..Len(deKernel') : deKernel'[i] = PalabraPcb(i + LeidasDelPcb)'
<1>1. /\ Len(deKernel) \in Nat /\ LeidasDelPcb \in Nat
      /\ Len(deKernel) + LeidasDelPcb = EnviadasDelPcb
      /\ \A i \in 1..Len(deKernel) : deKernel[i] = PalabraPcb(i + LeidasDelPcb)
  BY EnElPrimerPcb
<1>2. \A i : PalabraPcb(i + LeidasDelPcb)' = PalabraPcb(i + LeidasDelPcb)
  BY DEF PalabraPcb
<1>3. ASSUME NEW i \in 1..Len(deKernel') PROVE deKernel'[i] = PalabraPcb(i + LeidasDelPcb)
  <2>1. CASE i <= Len(deKernel) BY <1>1, <2>1
  <2>2. CASE i > Len(deKernel)
    <3>1. i - Len(deKernel) \in 1..n /\ Len(deKernel) + (i - Len(deKernel)) = i BY <1>1, <2>2
    <3>2. deKernel'[i] = PalabraPcb(EnviadasDelPcb + (i - Len(deKernel))) BY <3>1
    <3>3. EnviadasDelPcb + (i - Len(deKernel)) = i + LeidasDelPcb BY <1>1
    <3> QED BY <3>2, <3>3
  <2> QED BY <1>1, <2>1, <2>2
<1>4. Len(deKernel') + LeidasDelPcb' = EnviadasDelPcb' BY <1>1
<1> QED BY <1>2, <1>3, <1>4

LEMMA TiposEnviarPcb ==
    ASSUME NEW h \in {"kernel", "corto"}, Control, EntregaBien, Cuenta, Tipos, EnviarPcb(h)
    PROVE Tipos'
<1> USE Nombres, SupuestoLimites DEF EnviarPcb, fijas, sockets, syscalls, ciclo, kernel, historia,
     EnviandoPcb
<1>1. HandshakeBien' BY DEF Tipos, HandshakeBien, EtiquetasBien, Control, TipoControl
<1>2. EtiquetasBien' BY DEF Tipos, EtiquetasBien, Etiquetas, Hilos, Control, TipoControl
<1>3. VariablesBien'
  <2>1. puntual' \in BOOLEAN /\ esta_libre' \in BOOLEAN
    BY DEF Tipos, VariablesBien, Control, TipoControl
  <2>2. aMemoria' \in Seq(Palabras)
    BY DEF Tipos, VariablesBien, Control, TipoControl
  <2>3. instruccion_pendiente' \in [linea : 0..Len(archivo'), procesada : BOOLEAN]
    BY DEF Tipos, VariablesBien, Control, TipoControl
  <2>4. syscall_a_procesar' \in 0..Len(archivo') /\ atendidas' \in Seq(1..Len(archivo'))
    BY DEF Tipos, VariablesBien, Control, TipoControl
  <2>5. despachos' \in 0..MAX_DESPACHOS /\ pcb_en_ejecucion' \in 0..MAX_DESPACHOS
    BY DEF Tipos, VariablesBien
  <2>6. instrucciones_ejecutadas' <= 2 /\ (Antes' => instrucciones_ejecutadas' = 0)
    BY DEF Tipos, VariablesBien, Antes, Control, TipoControl
  <2> QED BY <2>1, <2>2, <2>3, <2>4, <2>5, <2>6 DEF VariablesBien
<1>4. PrimerPcbBien'
  <2> SUFFICES ASSUME Antes' PROVE PrimerPcbBien' BY DEF PrimerPcbBien
  <2>1. /\ Antes /\ LeidasDelPcb' = LeidasDelPcb /\ h = "corto"
        /\ aKernel' = aKernel /\ pc'["kernel"] = pc["kernel"]
        /\ esta_libre /\ ~esta_libre' /\ despachos' = despachos + 1
        /\ pc["corto"] = "esperar" /\ pc'["corto"] = "pcb_tam"
        /\ deKernel' = Append(deKernel, Palabra("PCB_A_EJECUTAR", 0))
    BY DEF Antes, LeidasDelPcb, Tipos, PrimerPcbBien, Control, TipoControl, PalabraPcb
  <2> HIDE DEF EnviarPcb
  <2>2. /\ despachos = 0 /\ despachos' = 1 /\ aKernel = <<>> /\ pc["kernel"] = "recibir"
    BY <2>1 DEF Tipos, PrimerPcbBien
  <2>3. EnviadasDelPcb = 0 /\ EnviadasDelPcb' = 1 BY <2>1, <2>2, SupuestoLimites DEF EnviadasDelPcb
  <2>4. /\ Len(deKernel') = Len(deKernel) + 1
        /\ \A i \in 1..Len(deKernel) : deKernel'[i] = deKernel[i]
        /\ \A i \in 1..1 : deKernel'[Len(deKernel) + i] = PalabraPcb(EnviadasDelPcb + i)
    <3>1. /\ Len(deKernel') = Len(deKernel) + 1 /\ Len(deKernel) \in Nat
          /\ \A i \in 1..Len(deKernel) : deKernel'[i] = deKernel[i]
          /\ deKernel'[Len(deKernel) + 1] = Palabra("PCB_A_EJECUTAR", 0)
      BY <2>1, AppendProperties, LenProperties, PalabrasDelKernel DEF Cuenta, TipoCuenta
    <3>2. \A i \in 1..1 : i = 1 OBVIOUS
    <3> QED BY <3>1, <3>2, <2>3 DEF PalabraPcb
  <2>5. /\ Len(deKernel') + LeidasDelPcb' = EnviadasDelPcb'
        /\ \A i \in 1..Len(deKernel') : deKernel'[i] = PalabraPcb(i + LeidasDelPcb)'
    BY <2>1, <2>2, <2>3, <2>4, EscribirDelPcb
  <2> QED BY <2>1, <2>2, <2>5 DEF PrimerPcbBien
<1> QED BY <1>1, <1>2, <1>3, <1>4 DEF Tipos

LEMMA TiposEnviarTamPcb ==
    ASSUME NEW h \in {"kernel", "corto"}, Control, EntregaBien, Cuenta, Tipos, EnviarTamPcb(h)
    PROVE Tipos'
<1> USE Nombres, SupuestoLimites DEF EnviarTamPcb, fijas, sockets, syscalls, ciclo, kernel, historia
<1>1. HandshakeBien' BY DEF Tipos, HandshakeBien, EtiquetasBien, Control, TipoControl
<1>2. EtiquetasBien' BY DEF Tipos, EtiquetasBien, Etiquetas, Hilos, Control, TipoControl
<1>3. VariablesBien'
  <2>1. puntual' \in BOOLEAN /\ esta_libre' \in BOOLEAN
    BY DEF Tipos, VariablesBien, Control, TipoControl
  <2>2. aMemoria' \in Seq(Palabras)
    BY DEF Tipos, VariablesBien, Control, TipoControl
  <2>3. instruccion_pendiente' \in [linea : 0..Len(archivo'), procesada : BOOLEAN]
    BY DEF Tipos, VariablesBien, Control, TipoControl
  <2>4. syscall_a_procesar' \in 0..Len(archivo') /\ atendidas' \in Seq(1..Len(archivo'))
    BY DEF Tipos, VariablesBien, Control, TipoControl
  <2>5. despachos' \in 0..MAX_DESPACHOS /\ pcb_en_ejecucion' \in 0..MAX_DESPACHOS
    BY DEF Tipos, VariablesBien, Control, TipoControl
  <2>6. instrucciones_ejecutadas' <= 2 /\ (Antes' => instrucciones_ejecutadas' = 0)
    BY DEF Tipos, VariablesBien, Control, TipoControl, Antes, CicloBien
  <2> QED BY <2>1, <2>2, <2>3, <2>4, <2>5, <2>6 DEF VariablesBien
<1>4. PrimerPcbBien'
  <2> SUFFICES ASSUME Antes' PROVE PrimerPcbBien' BY DEF PrimerPcbBien
  <2>1. /\ Antes /\ LeidasDelPcb' = LeidasDelPcb /\ h = "corto"
        /\ aKernel' = aKernel /\ pc'["kernel"] = pc["kernel"]
        /\ esta_libre' = esta_libre /\ despachos' = despachos
        /\ pc["corto"] = "pcb_tam" /\ pc'["corto"] = "pcb_datos"
        /\ deKernel' = Append(deKernel, Tam(TAM_PCB))
    BY DEF Antes, LeidasDelPcb, Tipos, PrimerPcbBien, Control, TipoControl, PalabraPcb
  <2> HIDE DEF EnviarTamPcb
  <2>2. /\ despachos = 1 /\ despachos' = 1 /\ aKernel = <<>> /\ pc["kernel"] = "recibir"
        /\ ~esta_libre
    BY <2>1 DEF Tipos, PrimerPcbBien, VariablesBien
  <2>3. EnviadasDelPcb = 1 /\ EnviadasDelPcb' = 2 BY <2>1, <2>2, SupuestoLimites DEF EnviadasDelPcb
  <2>4. /\ Len(deKernel') = Len(deKernel) + 1
        /\ \A i \in 1..Len(deKernel) : deKernel'[i] = deKernel[i]
        /\ \A i \in 1..1 : deKernel'[Len(deKernel) + i] = PalabraPcb(EnviadasDelPcb + i)
    <3>1. /\ Len(deKernel') = Len(deKernel) + 1 /\ Len(deKernel) \in Nat
          /\ \A i \in 1..Len(deKernel) : deKernel'[i] = deKernel[i]
          /\ deKernel'[Len(deKernel) + 1] = Tam(TAM_PCB)
      BY <2>1, AppendProperties, LenProperties, PalabrasDelKernel DEF Cuenta, TipoCuenta
    <3>2. \A i \in 1..1 : i = 1 OBVIOUS
    <3> QED BY <3>1, <3>2, <2>3 DEF PalabraPcb
  <2>5. /\ Len(deKernel') + LeidasDelPcb' = EnviadasDelPcb'
        /\ \A i \in 1..Len(deKernel') : deKernel'[i] = PalabraPcb(i + LeidasDelPcb)'
    BY <2>1, <2>2, <2>3, <2>4, EscribirDelPcb
  <2> QED BY <2>1, <2>2, <2>5 DEF PrimerPcbBien
<1> QED BY <1>1, <1>2, <1>3, <1>4 DEF Tipos

LEMMA TiposEnviarDatosPcb ==
    ASSUME NEW h \in {"kernel", "corto"}, Control, EntregaBien, Cuenta, Tipos, EnviarDatosPcb(h)
    PROVE Tipos'
<1> USE Nombres, SupuestoLimites DEF EnviarDatosPcb, fijas, sockets, syscalls, ciclo, kernel,
     historia
<1>1. HandshakeBien' BY DEF Tipos, HandshakeBien, EtiquetasBien, Control, TipoControl
<1>2. EtiquetasBien' BY DEF Tipos, EtiquetasBien, Etiquetas, Hilos, Control, TipoControl
<1>3. VariablesBien'
  <2>1. puntual' \in BOOLEAN /\ esta_libre' \in BOOLEAN
    BY DEF Tipos, VariablesBien, Control, TipoControl
  <2>2. aMemoria' \in Seq(Palabras)
    BY DEF Tipos, VariablesBien, Control, TipoControl
  <2>3. instruccion_pendiente' \in [linea : 0..Len(archivo'), procesada : BOOLEAN]
    BY DEF Tipos, VariablesBien, Control, TipoControl
  <2>4. syscall_a_procesar' \in 0..Len(archivo') /\ atendidas' \in Seq(1..Len(archivo'))
    BY DEF Tipos, VariablesBien, Control, TipoControl
  <2>5. despachos' \in 0..MAX_DESPACHOS /\ pcb_en_ejecucion' \in 0..MAX_DESPACHOS
    BY DEF Tipos, VariablesBien, Control, TipoControl
  <2>6. instrucciones_ejecutadas' <= 2 /\ (Antes' => instrucciones_ejecutadas' = 0)
    BY DEF Tipos, VariablesBien, Control, TipoControl, Antes, CicloBien
  <2> QED BY <2>1, <2>2, <2>3, <2>4, <2>5, <2>6 DEF VariablesBien
<1>4. PrimerPcbBien'
  <2> SUFFICES ASSUME Antes' PROVE PrimerPcbBien' BY DEF PrimerPcbBien
  <2>1. /\ Antes /\ LeidasDelPcb' = LeidasDelPcb /\ h = "corto"
        /\ aKernel' = aKernel /\ pc'["kernel"] = pc["kernel"]
        /\ esta_libre' = esta_libre /\ despachos' = despachos
        /\ pc["corto"] = "pcb_datos" /\ pc'["corto"] = "esperar"
        /\ deKernel' = deKernel \o [i \in 1..TAM_PCB |-> Palabra("datos", despachos)]
    BY DEF Antes, LeidasDelPcb, Tipos, PrimerPcbBien, Control, TipoControl, PalabraPcb
  <2> HIDE DEF EnviarDatosPcb
  <2>2. /\ despachos = 1 /\ despachos' = 1 /\ aKernel = <<>> /\ pc["kernel"] = "recibir"
        /\ ~esta_libre
    BY <2>1 DEF Tipos, PrimerPcbBien, VariablesBien
  <2>3. EnviadasDelPcb = 2 /\ EnviadasDelPcb' = TAM_PCB + 2 BY <2>1, <2>2,
       SupuestoLimites DEF EnviadasDelPcb
  <2>4. /\ Len(deKernel') = Len(deKernel) + TAM_PCB
        /\ \A i \in 1..Len(deKernel) : deKernel'[i] = deKernel[i]
        /\ \A i \in 1..TAM_PCB : deKernel'[Len(deKernel) + i] = PalabraPcb(EnviadasDelPcb + i)
    <3> DEFINE datos == [i \in 1..TAM_PCB |-> Palabra("datos", 1)]
    <3>1. datos \in Seq(Palabras) /\ Len(datos) = TAM_PCB
      BY SupuestoLimites, PalabrasDelKernel
    <3>2. \A i \in 1..TAM_PCB : datos[i] = PalabraPcb(2 + i)
      BY SupuestoLimites DEF PalabraPcb
    <3>3. deKernel' = deKernel \o datos BY <2>1, <2>2
    <3> HIDE DEF datos
    <3>4. Len(deKernel) \in Nat /\ TAM_PCB \in Nat
      BY LenProperties, SupuestoLimites DEF Cuenta, TipoCuenta
    <3>5. /\ Len(deKernel') = Len(deKernel) + TAM_PCB
          /\ \A i \in 1..Len(deKernel') :
                deKernel'[i] = IF i <= Len(deKernel) THEN deKernel[i] ELSE datos[i - Len(deKernel)]
      BY <3>1, <3>3, ConcatProperties DEF Cuenta, TipoCuenta
    <3>6. \A i \in 1..TAM_PCB :
             /\ Len(deKernel) + i \in 1..Len(deKernel') /\ ~(Len(deKernel) + i <= Len(deKernel))
             /\ Len(deKernel) + i - Len(deKernel) = i
      BY <3>4, <3>5
    <3>7. \A i \in 1..Len(deKernel) : i \in 1..Len(deKernel') /\ i <= Len(deKernel)
      BY <3>4, <3>5
    <3>8. \A i \in 1..TAM_PCB : deKernel'[Len(deKernel) + i] = PalabraPcb(EnviadasDelPcb + i)
      BY <2>3, <3>2, <3>5, <3>6
    <3> QED BY <3>5, <3>7, <3>8
  <2>5. /\ Len(deKernel') + LeidasDelPcb' = EnviadasDelPcb'
        /\ \A i \in 1..Len(deKernel') : deKernel'[i] = PalabraPcb(i + LeidasDelPcb)'
    BY <2>1, <2>2, <2>3, <2>4, EscribirDelPcb
  <2> QED BY <2>1, <2>2, <2>5 DEF PrimerPcbBien
<1> QED BY <1>1, <1>2, <1>3, <1>4 DEF Tipos

\* Every other action keeps the types without reading the first PCB.
LEMMA TiposEsperarKernel == ASSUME Control, EntregaBien, Cuenta, Tipos, EsperarKernel PROVE Tipos'
<1> USE Nombres, SupuestoLimites DEF EsperarKernel, fijas, sockets, syscalls, ciclo, kernel,
     historia
<1>1. HandshakeBien' BY DEF Tipos, HandshakeBien, EtiquetasBien, Control, TipoControl
<1>2. EtiquetasBien' BY DEF Tipos, EtiquetasBien, Etiquetas, Hilos, Control, TipoControl
<1>3. VariablesBien' BY DEF Tipos, VariablesBien, Control, TipoControl, CicloBien, Antes
<1>4. PrimerPcbBien'
  BY DEF Tipos, PrimerPcbBien, EnviadasDelPcb, LeidasDelPcb, Antes, Control, TipoControl, CicloBien,
     ManosBien, ManoAMano
<1> QED BY <1>1, <1>2, <1>3, <1>4 DEF Tipos

LEMMA TiposIniciarCpu == ASSUME Control, EntregaBien, Cuenta, Tipos, IniciarCpu PROVE Tipos'
<1> USE Nombres, SupuestoLimites DEF IniciarCpu, fijas, sockets, syscalls, ciclo, kernel, historia
<1>1. HandshakeBien' BY DEF Tipos, HandshakeBien, EtiquetasBien, Control, TipoControl
<1>2. EtiquetasBien' BY DEF Tipos, EtiquetasBien, Etiquetas, Hilos, Control, TipoControl
<1>3. VariablesBien' BY DEF Tipos, VariablesBien, Control, TipoControl, CicloBien, Antes
<1>4. PrimerPcbBien'
  BY DEF Tipos, PrimerPcbBien, EnviadasDelPcb, LeidasDelPcb, Antes, Control, TipoControl, CicloBien,
     ManosBien, ManoAMano
<1> QED BY <1>1, <1>2, <1>3, <1>4 DEF Tipos

LEMMA TiposEsperarArchivo == ASSUME Control, EntregaBien, Cuenta, Tipos, EsperarArchivo PROVE Tipos'
<1> USE Nombres, SupuestoLimites DEF EsperarArchivo, fijas, sockets, syscalls, ciclo, kernel,
     historia
<1>1. HandshakeBien' BY DEF Tipos, HandshakeBien, EtiquetasBien, Control, TipoControl
<1>2. EtiquetasBien' BY DEF Tipos, EtiquetasBien, Etiquetas, Hilos, Control, TipoControl
<1>3. VariablesBien' BY DEF Tipos, VariablesBien, Control, TipoControl, CicloBien, Antes
<1>4. PrimerPcbBien'
  BY DEF Tipos, PrimerPcbBien, EnviadasDelPcb, LeidasDelPcb, Antes, Control, TipoControl, CicloBien,
     ManosBien, ManoAMano
<1> QED BY <1>1, <1>2, <1>3, <1>4 DEF Tipos

LEMMA TiposRecibirRespuesta ==
    ASSUME Control, EntregaBien, Cuenta, Tipos, RecibirRespuesta PROVE Tipos'
<1> USE Nombres, SupuestoLimites DEF RecibirRespuesta, fijas, sockets, syscalls, ciclo, kernel,
     historia, Seguir
<1>1. HandshakeBien' BY DEF Tipos, HandshakeBien, EtiquetasBien, Control, TipoControl
<1>2. EtiquetasBien' BY DEF Tipos, EtiquetasBien, Etiquetas, Hilos, Control, TipoControl
<1>3. VariablesBien' BY DEF Tipos, VariablesBien, Control, TipoControl, CicloBien, Antes
<1>4. PrimerPcbBien'
  BY DEF Tipos, PrimerPcbBien, EnviadasDelPcb, LeidasDelPcb, Antes, Control, TipoControl, CicloBien,
     ManosBien, ManoAMano
<1> QED BY <1>1, <1>2, <1>3, <1>4 DEF Tipos

LEMMA TiposEsperarSyscall == ASSUME Control, EntregaBien, Cuenta, Tipos, EsperarSyscall PROVE Tipos'
<1> USE Nombres, SupuestoLimites DEF EsperarSyscall, fijas, sockets, syscalls, ciclo, kernel,
     historia, SyscallProcesada
<1>1. HandshakeBien' BY DEF Tipos, HandshakeBien, EtiquetasBien, Control, TipoControl
<1>2. EtiquetasBien' BY DEF Tipos, EtiquetasBien, Etiquetas, Hilos, Control, TipoControl
<1>3. VariablesBien' BY DEF Tipos, VariablesBien, Control, TipoControl, CicloBien, Antes
<1>4. PrimerPcbBien'
  BY DEF Tipos, PrimerPcbBien, EnviadasDelPcb, LeidasDelPcb, Antes, Control, TipoControl, CicloBien,
     ManosBien, ManoAMano
<1> QED BY <1>1, <1>2, <1>3, <1>4 DEF Tipos

LEMMA TiposConectarKernel ==
    ASSUME NEW h, Control, EntregaBien, Cuenta, Tipos, ConectarKernel(h) PROVE Tipos'
<1> USE Nombres, SupuestoLimites DEF ConectarKernel, fijas, sockets, syscalls, ciclo, kernel,
     historia
<1>1. HandshakeBien' BY DEF Tipos, HandshakeBien, EtiquetasBien, Control, TipoControl
<1>2. EtiquetasBien' BY DEF Tipos, EtiquetasBien, Etiquetas, Hilos, Control, TipoControl
<1>3. VariablesBien' BY DEF Tipos, VariablesBien, Control, TipoControl, CicloBien, Antes
<1>4. PrimerPcbBien'
  BY DEF Tipos, PrimerPcbBien, EnviadasDelPcb, LeidasDelPcb, Antes, Control, TipoControl, CicloBien,
     ManosBien, ManoAMano
<1> QED BY <1>1, <1>2, <1>3, <1>4 DEF Tipos

LEMMA TiposTomarSyscall == ASSUME Control, EntregaBien, Cuenta, Tipos, TomarSyscall PROVE Tipos'
<1> USE Nombres, SupuestoLimites DEF TomarSyscall, fijas, sockets, syscalls, ciclo, kernel, historia
<1>1. HandshakeBien' BY DEF Tipos, HandshakeBien, EtiquetasBien, Control, TipoControl
<1>2. EtiquetasBien' BY DEF Tipos, EtiquetasBien, Etiquetas, Hilos, Control, TipoControl
<1>3. VariablesBien' BY DEF Tipos, VariablesBien, Control, TipoControl, CicloBien, Antes
<1>4. PrimerPcbBien'
  BY DEF Tipos, PrimerPcbBien, EnviadasDelPcb, LeidasDelPcb, Antes, Control, TipoControl, CicloBien,
     ManosBien, ManoAMano
<1> QED BY <1>1, <1>2, <1>3, <1>4 DEF Tipos

LEMMA TiposEnviarSyscall == ASSUME Control, EntregaBien, Cuenta, Tipos, EnviarSyscall PROVE Tipos'
<1> USE Nombres, SupuestoLimites DEF EnviarSyscall, fijas, sockets, syscalls, ciclo, kernel,
     historia
<1>1. HandshakeBien' BY DEF Tipos, HandshakeBien, EtiquetasBien, Control, TipoControl
<1>2. EtiquetasBien' BY DEF Tipos, EtiquetasBien, Etiquetas, Hilos, Control, TipoControl
<1>3. VariablesBien' BY DEF Tipos, VariablesBien, Control, TipoControl, CicloBien, Antes
<1>4. PrimerPcbBien'
  BY DEF Tipos, PrimerPcbBien, EnviadasDelPcb, LeidasDelPcb, Antes, Control, TipoControl, CicloBien,
     ManosBien, ManoAMano
<1> QED BY <1>1, <1>2, <1>3, <1>4 DEF Tipos

LEMMA TiposConfirmar == ASSUME Control, EntregaBien, Cuenta, Tipos, Confirmar PROVE Tipos'
<1> USE Nombres, SupuestoLimites DEF Confirmar, fijas, sockets, syscalls, ciclo, kernel, historia,
     Avisar
<1>1. HandshakeBien' BY DEF Tipos, HandshakeBien, EtiquetasBien, Control, TipoControl
<1>2. EtiquetasBien' BY DEF Tipos, EtiquetasBien, Etiquetas, Hilos, Control, TipoControl
<1>3. VariablesBien' BY DEF Tipos, VariablesBien, Control, TipoControl, CicloBien, Antes
<1>4. PrimerPcbBien'
  BY DEF Tipos, PrimerPcbBien, EnviadasDelPcb, LeidasDelPcb, Antes, Control, TipoControl, CicloBien,
     ManosBien, ManoAMano
<1> QED BY <1>1, <1>2, <1>3, <1>4 DEF Tipos

LEMMA TiposConectarMemoria ==
    ASSUME Control, EntregaBien, Cuenta, Tipos, ConectarMemoria PROVE Tipos'
<1> USE Nombres, SupuestoLimites DEF ConectarMemoria, fijas, sockets, syscalls, ciclo, kernel,
     historia
<1>1. HandshakeBien' BY DEF Tipos, HandshakeBien, EtiquetasBien, Control, TipoControl
<1>2. EtiquetasBien' BY DEF Tipos, EtiquetasBien, Etiquetas, Hilos, Control, TipoControl
<1>3. VariablesBien' BY DEF Tipos, VariablesBien, Control, TipoControl, CicloBien, Antes
<1>4. PrimerPcbBien'
  BY DEF Tipos, PrimerPcbBien, EnviadasDelPcb, LeidasDelPcb, Antes, Control, TipoControl, CicloBien,
     ManosBien, ManoAMano
<1> QED BY <1>1, <1>2, <1>3, <1>4 DEF Tipos

LEMMA TiposRecibirArchivoListo ==
    ASSUME Control, EntregaBien, Cuenta, Tipos, RecibirArchivoListo PROVE Tipos'
<1> USE Nombres, SupuestoLimites DEF RecibirArchivoListo, fijas, sockets, syscalls, ciclo, kernel,
     historia
<1>1. HandshakeBien' BY DEF Tipos, HandshakeBien, EtiquetasBien, Control, TipoControl
<1>2. EtiquetasBien' BY DEF Tipos, EtiquetasBien, Etiquetas, Hilos, Control, TipoControl
<1>3. VariablesBien' BY DEF Tipos, VariablesBien, Control, TipoControl, CicloBien, Antes
<1>4. PrimerPcbBien'
  BY DEF Tipos, PrimerPcbBien, EnviadasDelPcb, LeidasDelPcb, Antes, Control, TipoControl, CicloBien,
     ManosBien, ManoAMano
<1> QED BY <1>1, <1>2, <1>3, <1>4 DEF Tipos

LEMMA TiposAnunciarArchivo ==
    ASSUME Control, EntregaBien, Cuenta, Tipos, AnunciarArchivo PROVE Tipos'
<1> USE Nombres, SupuestoLimites DEF AnunciarArchivo, fijas, sockets, syscalls, ciclo, kernel,
     historia
<1>1. HandshakeBien' BY DEF Tipos, HandshakeBien, EtiquetasBien, Control, TipoControl
<1>2. EtiquetasBien' BY DEF Tipos, EtiquetasBien, Etiquetas, Hilos, Control, TipoControl
<1>3. VariablesBien' BY DEF Tipos, VariablesBien, Control, TipoControl, CicloBien, Antes
<1>4. PrimerPcbBien'
  BY DEF Tipos, PrimerPcbBien, EnviadasDelPcb, LeidasDelPcb, Antes, Control, TipoControl, CicloBien,
     ManosBien, ManoAMano
<1> QED BY <1>1, <1>2, <1>3, <1>4 DEF Tipos

LEMMA TiposAtenderSolicitud ==
    ASSUME Control, EntregaBien, Cuenta, Tipos, AtenderSolicitud PROVE Tipos'
<1> USE Nombres, SupuestoLimites DEF AtenderSolicitud, fijas, sockets, syscalls, ciclo, kernel,
     historia
<1>1. HandshakeBien' BY DEF Tipos, HandshakeBien, EtiquetasBien, Control, TipoControl
<1>2. EtiquetasBien' BY DEF Tipos, EtiquetasBien, Etiquetas, Hilos, Control, TipoControl
<1>3. VariablesBien' BY DEF Tipos, VariablesBien, Control, TipoControl, CicloBien, Antes
<1>4. PrimerPcbBien'
  BY DEF Tipos, PrimerPcbBien, EnviadasDelPcb, LeidasDelPcb, Antes, Control, TipoControl, CicloBien,
     ManosBien, ManoAMano
<1> QED BY <1>1, <1>2, <1>3, <1>4 DEF Tipos

LEMMA TiposLimpiarBuffer == ASSUME Control, EntregaBien, Cuenta, Tipos, LimpiarBuffer PROVE Tipos'
<1> USE Nombres, SupuestoLimites DEF LimpiarBuffer, fijas, sockets, syscalls, ciclo, kernel,
     historia
<1>1. HandshakeBien' BY DEF Tipos, HandshakeBien, EtiquetasBien, Control, TipoControl
<1>2. EtiquetasBien' BY DEF Tipos, EtiquetasBien, Etiquetas, Hilos, Control, TipoControl
<1>3. VariablesBien' BY DEF Tipos, VariablesBien, Control, TipoControl, CicloBien, Antes
<1>4. PrimerPcbBien'
  BY DEF Tipos, PrimerPcbBien, EnviadasDelPcb, LeidasDelPcb, Antes, Control, TipoControl, CicloBien,
     ManosBien, ManoAMano
<1> QED BY <1>1, <1>2, <1>3, <1>4 DEF Tipos

LEMMA TiposCerrarMemoria == ASSUME Control, EntregaBien, Cuenta, Tipos, CerrarMemoria PROVE Tipos'
<1> USE Nombres, SupuestoLimites DEF CerrarMemoria, fijas, sockets, syscalls, ciclo, kernel,
     historia
<1>1. HandshakeBien' BY DEF Tipos, HandshakeBien, EtiquetasBien, Control, TipoControl
<1>2. EtiquetasBien' BY DEF Tipos, EtiquetasBien, Etiquetas, Hilos, Control, TipoControl
<1>3. VariablesBien' BY DEF Tipos, VariablesBien, Control, TipoControl, CicloBien, Antes
<1>4. PrimerPcbBien'
  BY DEF Tipos, PrimerPcbBien, EnviadasDelPcb, LeidasDelPcb, Antes, Control, TipoControl, CicloBien,
     ManosBien, ManoAMano
<1> QED BY <1>1, <1>2, <1>3, <1>4 DEF Tipos

LEMMA TiposAceptarCpu == ASSUME Control, EntregaBien, Cuenta, Tipos, AceptarCpu PROVE Tipos'
<1> USE Nombres, SupuestoLimites DEF AceptarCpu, fijas, sockets, syscalls, ciclo, kernel, historia
<1>1. HandshakeBien' BY DEF Tipos, HandshakeBien, EtiquetasBien, Control, TipoControl
<1>2. EtiquetasBien' BY DEF Tipos, EtiquetasBien, Etiquetas, Hilos, Control, TipoControl
<1>3. VariablesBien' BY DEF Tipos, VariablesBien, Control, TipoControl, CicloBien, Antes
<1>4. PrimerPcbBien'
  BY DEF Tipos, PrimerPcbBien, EnviadasDelPcb, LeidasDelPcb, Antes, Control, TipoControl, CicloBien,
     ManosBien, ManoAMano
<1> QED BY <1>1, <1>2, <1>3, <1>4 DEF Tipos

LEMMA TiposRecibirOperacion ==
    ASSUME Control, EntregaBien, Cuenta, Tipos, RecibirOperacion PROVE Tipos'
<1> USE Nombres, SupuestoLimites DEF RecibirOperacion, fijas, sockets, syscalls, ciclo, kernel,
     historia
<1>1. HandshakeBien' BY DEF Tipos, HandshakeBien, EtiquetasBien, Control, TipoControl
<1>2. EtiquetasBien' BY DEF Tipos, EtiquetasBien, Etiquetas, Hilos, Control, TipoControl
<1>3. VariablesBien' BY DEF Tipos, VariablesBien, Control, TipoControl, CicloBien, Antes
<1>4. PrimerPcbBien'
  BY DEF Tipos, PrimerPcbBien, EnviadasDelPcb, LeidasDelPcb, Antes, Control, TipoControl, CicloBien,
     ManosBien, ManoAMano
<1> QED BY <1>1, <1>2, <1>3, <1>4 DEF Tipos

LEMMA TiposResponderSyscall ==
    ASSUME Control, EntregaBien, Cuenta, Tipos, ResponderSyscall PROVE Tipos'
<1> USE Nombres, SupuestoLimites DEF ResponderSyscall, fijas, sockets, syscalls, ciclo, kernel,
     historia, Responde
<1>1. HandshakeBien' BY DEF Tipos, HandshakeBien, EtiquetasBien, Control, TipoControl
<1>2. EtiquetasBien' BY DEF Tipos, EtiquetasBien, Etiquetas, Hilos, Control, TipoControl
<1>3. VariablesBien' BY DEF Tipos, VariablesBien, Control, TipoControl, CicloBien, Antes
<1>4. PrimerPcbBien'
  BY DEF Tipos, PrimerPcbBien, EnviadasDelPcb, LeidasDelPcb, Antes, Control, TipoControl, CicloBien,
     ManosBien, ManoAMano
<1> QED BY <1>1, <1>2, <1>3, <1>4 DEF Tipos

LEMMA TiposResponderTam == ASSUME Control, EntregaBien, Cuenta, Tipos, ResponderTam PROVE Tipos'
<1> USE Nombres, SupuestoLimites DEF ResponderTam, fijas, sockets, syscalls, ciclo, kernel, historia
<1>1. HandshakeBien' BY DEF Tipos, HandshakeBien, EtiquetasBien, Control, TipoControl
<1>2. EtiquetasBien' BY DEF Tipos, EtiquetasBien, Etiquetas, Hilos, Control, TipoControl
<1>3. VariablesBien' BY DEF Tipos, VariablesBien, Control, TipoControl, CicloBien, Antes
<1>4. PrimerPcbBien'
  BY DEF Tipos, PrimerPcbBien, EnviadasDelPcb, LeidasDelPcb, Antes, Control, TipoControl, CicloBien,
     ManosBien, ManoAMano
<1> QED BY <1>1, <1>2, <1>3, <1>4 DEF Tipos

LEMMA TiposReplanificarEnVano ==
    ASSUME Control, EntregaBien, Cuenta, Tipos, ReplanificarEnVano PROVE Tipos'
<1> USE Nombres, SupuestoLimites DEF ReplanificarEnVano, fijas, sockets, syscalls, ciclo, kernel,
     historia
<1>1. HandshakeBien' BY DEF Tipos, HandshakeBien, EtiquetasBien, Control, TipoControl
<1>2. EtiquetasBien' BY DEF Tipos, EtiquetasBien, Etiquetas, Hilos, Control, TipoControl
<1>3. VariablesBien' BY DEF Tipos, VariablesBien, Control, TipoControl, CicloBien, Antes
<1>4. PrimerPcbBien'
  BY DEF Tipos, PrimerPcbBien, EnviadasDelPcb, LeidasDelPcb, Antes, Control, TipoControl, CicloBien,
     ManosBien, ManoAMano
<1> QED BY <1>1, <1>2, <1>3, <1>4 DEF Tipos

LEMMA TiposSinCambio == ASSUME Tipos, UNCHANGED vars PROVE Tipos'
<1> USE DEF vars, fijas, sockets, syscalls, ciclo, kernel, historia
<1>1. HandshakeBien' BY DEF Tipos, HandshakeBien
<1>2. EtiquetasBien' BY DEF Tipos, EtiquetasBien
<1>3. VariablesBien' BY DEF Tipos, VariablesBien, Antes
<1>4. PrimerPcbBien'
  BY DEF Tipos, PrimerPcbBien, EnviadasDelPcb, LeidasDelPcb, Antes, PalabraPcb
<1> QED BY <1>1, <1>2, <1>3, <1>4 DEF Tipos

LEMMA TiposPaso == Control /\ EntregaBien /\ Cuenta /\ Tipos /\ [Next]_vars => Tipos'
<1> SUFFICES ASSUME Control, EntregaBien, Cuenta, Tipos, [Next]_vars PROVE Tipos' OBVIOUS
<1>1. CASE Principal
  BY <1>1, TiposEsperarKernel, TiposIniciarCpu, TiposRecibirCodigoPcb, TiposLeerPcb,
     TiposCiclo, TiposEsperarArchivo, TiposEnviarSolicitud, TiposEnviarTamSolicitud,
     TiposRecibirRespuesta, TiposProcesarInstruccion, TiposEsperarSyscall
  DEF Principal
<1>2. CASE Despacho \/ Interrupcion
  BY <1>2, TiposConectarKernel, TiposTomarSyscall, TiposEnviarSyscall, TiposConfirmar
  DEF Despacho, Interrupcion
<1>3. CASE Conexion \/ HiloMemoria
  BY <1>3, TiposConectarMemoria, TiposRecibirArchivoListo, TiposAnunciarArchivo,
     TiposAtenderSolicitud, TiposLimpiarBuffer, TiposCerrarMemoria
  DEF Conexion, HiloMemoria
<1>4. CASE HiloKernel \/ HiloCorto
  BY <1>4, TiposAceptarCpu, TiposRecibirOperacion, TiposProcesarSyscall,
     TiposResponderSyscall, TiposResponderTam, TiposReplanificarEnVano, TiposEnviarPcb,
     TiposEnviarTamPcb, TiposEnviarDatosPcb
  DEF HiloKernel, HiloCorto, TerminarPcb
<1>5. CASE UNCHANGED vars BY <1>5, TiposSinCambio
<1> QED BY <1>1, <1>2, <1>3, <1>4, <1>5 DEF Next

LEMMA TiposSiempre == Spec => []Tipos
<1>1. Control /\ EntregaBien /\ Cuenta /\ Tipos /\ [Next]_vars => Tipos' BY TiposPaso
<1> QED BY TiposInicial, <1>1, ControlSiempre, EntregaSiempre, CuentaSiempre, PTL DEF Spec

LEMMA TiposDeTodo == ASSUME Control, EntregaBien, Cuenta, Tipos PROVE TypeOK
<1>1. pc \in [Hilos -> UNION {Etiquetas(h) : h \in Hilos}] /\ \A h \in Hilos : pc[h] \in Etiquetas(h)
  <2>1. \A h \in Hilos : pc[h] \in Etiquetas(h) BY DEF Tipos, EtiquetasBien
  <2>2. pc = [h \in Hilos |-> pc[h]] BY DEF Control, TipoControl
  <2>3. \A h \in Hilos : pc[h] \in UNION {Etiquetas(k) : k \in Hilos} BY <2>1
  <2> QED BY <2>1, <2>2, <2>3
<1>2. sem \in [Semaforos -> 0..2] /\ \A s \in Semaforos \ {"sem_cpu_kernel_hs"} : sem[s] <= 1
  <2>1. sem["sem_cpu_kernel_hs"] \in 0..2
    BY Nombres DEF Control, TipoControl, Tipos, HandshakeBien
  <2>2. sem["sem_memoria_cpu_hs"] \in {0, 1} BY DEF Tipos, HandshakeBien
  <2>3. \A s \in Semaforos \ {"sem_cpu_kernel_hs"} : sem[s] \in {0, 1}
    BY <2>2 DEF Semaforos, Control, ManosBien, ArchivoBien
  <2>4. \A s \in Semaforos : sem[s] \in 0..2 BY <2>1, <2>3
  <2>5. sem = [s \in Semaforos |-> sem[s]] BY DEF Control, TipoControl
  <2> QED BY <2>3, <2>4, <2>5
<1>3. /\ conectado \in [{"despacho", "interrupcion"} -> BOOLEAN]
      /\ fd_abierto \in BOOLEAN /\ syscall_en_proceso \in BOOLEAN
  BY DEF Control, TipoControl
<1>4. /\ archivo \in Programas /\ linea \in 0..Len(archivo) /\ ejecutadas \in 0..Len(archivo)
      /\ deMemoria \in Seq(Palabras) /\ aKernel \in Seq(Palabras)
  BY DEF EntregaBien, TipoEntrega
<1>5. /\ puntual \in BOOLEAN /\ esta_libre \in BOOLEAN /\ aMemoria \in Seq(Palabras)
      /\ instruccion_pendiente \in [linea : 0..Len(archivo), procesada : BOOLEAN]
      /\ syscall_a_procesar \in 0..Len(archivo) /\ atendidas \in Seq(1..Len(archivo))
      /\ despachos \in 0..MAX_DESPACHOS /\ pcb_en_ejecucion \in 0..MAX_DESPACHOS
  BY DEF Tipos, VariablesBien
<1>6. instrucciones_ejecutadas \in 0..MAX_INSTRUCCIONES
  BY SupuestoLimites DEF Control, TipoControl, Tipos, VariablesBien
<1>7. deKernel \in Seq(Palabras) /\ confirmadas \in Nat BY DEF Cuenta, TipoCuenta
<1> QED BY <1>1, <1>2, <1>3, <1>4, <1>5, <1>6, <1>7 DEF TypeOK

\* Every variable of the exchange keeps to its set, whatever the program: the semaphores but
\* one are binary, and the first PCB reaches the CPU whole, so that its pid is one the
\* kernel sent.
THEOREM TypeOKSiempre == Spec => []TypeOK
BY ControlSiempre, EntregaSiempre, CuentaSiempre, TiposSiempre, TiposDeTodo, PTL

----------------------------------------------------------------------------
(* Nobody waits in vain.                                                    *)

\* Of the syscalls despacho has sent, the kernel has processed all but those in its
\* socket; for each of those it has written two words or is about to, and despacho has
\* taken one per syscall it confirmed.  Before the first process there are none, so
\* principal takes no word of an answer.
PorConfirmar == IF En("despacho", "confirmar") THEN 1 ELSE 0
PorResponder == IF pc["kernel"] \in {"responder", "responder_exit"} THEN 2
                ELSE IF pc["kernel"] \in {"tam", "tam_exit"} THEN 1 ELSE 0
DebidasBien ==
    /\ 3 * Len(atendidas) + Len(aKernel) + CodigoLeido = 3 * (confirmadas + PorConfirmar)
    /\ 2 * Len(atendidas) <= Len(deKernel) + PorResponder + confirmadas
    /\ Antes => atendidas = <<>>

\* Every action keeps the account.
LEMMA DebidasInicial == Init => DebidasBien
<1> SUFFICES ASSUME Init PROVE DebidasBien OBVIOUS
<1> USE Nombres DEF Init
<1>1. atendidas = <<>> /\ aKernel = <<>> /\ deKernel = <<>> /\ confirmadas = 0 OBVIOUS
<1>2. PorConfirmar = 0 /\ PorResponder = 0 /\ CodigoLeido = 0
  BY DEF PorConfirmar, PorResponder, CodigoLeido
<1> QED BY <1>1, <1>2 DEF DebidasBien

LEMMA Largos ==
    ASSUME EntregaBien, Cuenta
    PROVE  /\ Len(atendidas) \in Nat /\ Len(aKernel) \in Nat /\ Len(deKernel) \in Nat
           /\ confirmadas \in Nat /\ PorConfirmar \in {0, 1} /\ CodigoLeido \in {0, 1}
           /\ PorResponder \in {0, 1, 2}
BY LenProperties DEF EntregaBien, TipoEntrega, Cuenta, TipoCuenta, PorConfirmar, CodigoLeido,
   PorResponder

\* One packet more, and one syscall more to confirm.
LEMMA CuentaAlEnviar ==
    ASSUME EntregaBien, Cuenta,
           3 * Len(atendidas) + Len(aKernel) + CodigoLeido = 3 * confirmadas
    PROVE  3 * Len(atendidas) + (Len(aKernel) + 3) + CodigoLeido = 3 * (confirmadas + 1)
<1> DEFINE a == Len(atendidas)  k == Len(aKernel)  c == confirmadas  l == CodigoLeido
<1>1. a \in Nat /\ k \in Nat /\ c \in Nat /\ l \in {0, 1} BY Largos
<1>2. 3 * a + k + l = 3 * c OBVIOUS
<1> HIDE DEF a, k, c, l
<1>3. 3 * a + (k + 3) + l = 3 * (c + 1) BY <1>1, <1>2
<1> QED BY <1>3 DEF a, k, c, l

LEMMA DebidasQuietas ==
    ASSUME DebidasBien, aKernel' = aKernel, deKernel' = deKernel, atendidas' = atendidas,
           confirmadas' = confirmadas, pc'["kernel"] = pc["kernel"],
           pc'["despacho"] = pc["despacho"], Antes' => Antes
    PROVE  DebidasBien'
BY DEF DebidasBien, PorConfirmar, PorResponder, CodigoLeido

\* A step of the kernel or of the short-term scheduler that writes.
LEMMA DebidasAlEscribir ==
    ASSUME EntregaBien, Cuenta, DebidasBien, aKernel' = aKernel, atendidas' = atendidas,
           confirmadas' = confirmadas, PorConfirmar' = PorConfirmar, CodigoLeido' = CodigoLeido,
           Len(deKernel') \in Nat, PorResponder' \in Nat,
           Len(deKernel) + PorResponder <= Len(deKernel') + PorResponder', Antes' => Antes
    PROVE  DebidasBien'
<1>1. 2 * Len(atendidas') <= Len(deKernel') + PorResponder' + confirmadas'
  <2>1. 2 * Len(atendidas) <= Len(deKernel) + PorResponder + confirmadas BY DEF DebidasBien
  <2> QED BY <2>1, Largos
<1> QED BY <1>1 DEF DebidasBien

\* The CPU takes words of its first process while there are no answers.
LEMMA DebidasPrincipal ==
    ASSUME Control, EntregaBien, Cuenta, Tipos, DebidasBien, Principal PROVE DebidasBien'
<1> USE Nombres DEF Control, TipoControl, fijas, sockets, syscalls, ciclo, kernel, historia
<1>1. CASE EsperarKernel BY <1>1, DebidasQuietas DEF EsperarKernel, Antes
<1>2. CASE IniciarCpu BY <1>2, DebidasQuietas DEF IniciarCpu, Antes
<1>3. ASSUME Len(deKernel') \in Nat, atendidas = <<>>, aKernel' = aKernel, atendidas' = atendidas,
             confirmadas' = confirmadas, pc'["kernel"] = pc["kernel"],
             pc'["despacho"] = pc["despacho"]
      PROVE  DebidasBien'
  <2>1. /\ PorConfirmar' = PorConfirmar /\ PorResponder' = PorResponder
        /\ CodigoLeido' = CodigoLeido
    BY <1>3 DEF PorConfirmar, PorResponder, CodigoLeido
  <2>2. Len(atendidas') = 0 BY <1>3
  <2>3. 0 <= Len(deKernel') + PorResponder' + confirmadas' BY <1>3, <2>1, Largos
  <2>4. 2 * Len(atendidas') <= Len(deKernel') + PorResponder' + confirmadas' BY <2>2, <2>3
  <2> QED BY <1>3, <2>1, <2>4 DEF DebidasBien
<1>4. CASE RecibirCodigoPcb
  <2>1. Len(deKernel') \in Nat BY <1>4, LeerPalabra DEF RecibirCodigoPcb, Cuenta, TipoCuenta
  <2>2. atendidas = <<>> BY <1>4 DEF RecibirCodigoPcb, DebidasBien, Antes
  <2> QED BY <1>3, <1>4, <2>1, <2>2 DEF RecibirCodigoPcb
<1>5. CASE LeerPcb
  <2>1. Len(deKernel') \in Nat
    <3>1. deKernel' \in Seq(Palabras) BY <1>5, LeerPaquete DEF LeerPcb, Cuenta, TipoCuenta
    <3> QED BY <3>1, LenProperties
  <2>2. atendidas = <<>> BY <1>5 DEF LeerPcb, DebidasBien, Antes
  <2> QED BY <1>3, <1>5, <2>1, <2>2 DEF LeerPcb
<1>6. CASE Ciclo
  <2>1. ~ Termina BY <1>6, SupuestoLimites DEF Ciclo, Termina, CicloBien
  <2> QED BY <1>6, <2>1, DebidasQuietas DEF Ciclo, Antes
<1>7. CASE EsperarArchivo BY <1>7, DebidasQuietas DEF EsperarArchivo, Antes
<1>8. CASE EnviarSolicitud BY <1>8, DebidasQuietas DEF EnviarSolicitud, Antes
<1>9. CASE EnviarTamSolicitud BY <1>9, DebidasQuietas DEF EnviarTamSolicitud, Antes
<1>10. CASE RecibirRespuesta BY <1>10, DebidasQuietas DEF RecibirRespuesta, Antes, Seguir
<1>11. CASE ProcesarInstruccion BY <1>11, DebidasQuietas DEF ProcesarInstruccion, Antes
<1>12. CASE EsperarSyscall BY <1>12, DebidasQuietas DEF EsperarSyscall, Antes, SyscallProcesada
<1> QED BY <1>1, <1>2, <1>4, <1>5, <1>6, <1>7, <1>8, <1>9, <1>10, <1>11, <1>12 DEF Principal

\* A syscall sent, and a word taken for its answer.
LEMMA DebidasDespacho ==
    ASSUME Control, EntregaBien, Cuenta, Tipos, DebidasBien, Despacho \/ Interrupcion
    PROVE  DebidasBien'
<1> USE Nombres DEF Control, TipoControl, fijas, sockets, syscalls, ciclo, kernel, historia
<1>1. ASSUME NEW h, ConectarKernel(h) PROVE DebidasBien'
  <2>1. (pc'["despacho"] = "confirmar") = (pc["despacho"] = "confirmar")
        /\ pc'["kernel"] = pc["kernel"] /\ pc'["principal"] = pc["principal"]
    BY <1>1 DEF ConectarKernel
  <2>2. PorConfirmar' = PorConfirmar BY <2>1 DEF PorConfirmar
  <2> QED BY <1>1, <2>1, <2>2 DEF ConectarKernel, DebidasBien, PorResponder, CodigoLeido, Antes
<1>2. CASE TomarSyscall
  <2>1. PorConfirmar = 0 /\ PorConfirmar' = 0 BY <1>2 DEF TomarSyscall, PorConfirmar
  <2> QED BY <1>2, <2>1 DEF TomarSyscall, DebidasBien, PorResponder, CodigoLeido, Antes
<1>3. CASE EnviarSyscall
  <2>1. Len(aKernel') = Len(aKernel) + 3
    BY <1>3, ConcatProperties
    DEF EnviarSyscall, Paquete, EntregaBien, TipoEntrega, Tipos, VariablesBien, Palabra, Tam,
        Palabras, Codigos
  <2>2. PorConfirmar = 0 /\ PorConfirmar' = 1 BY <1>3 DEF EnviarSyscall, PorConfirmar
  <2>3. /\ PorResponder' = PorResponder /\ CodigoLeido' = CodigoLeido /\ Antes' = Antes
        /\ deKernel' = deKernel /\ atendidas' = atendidas /\ confirmadas' = confirmadas
    BY <1>3 DEF EnviarSyscall, PorResponder, CodigoLeido, Antes
  <2>4. 3 * Len(atendidas') + Len(aKernel') + CodigoLeido' = 3 * (confirmadas' + PorConfirmar')
    <3>1. 3 * Len(atendidas) + Len(aKernel) + CodigoLeido = 3 * confirmadas
      BY <2>2, Largos DEF DebidasBien
    <3>2. 3 * Len(atendidas) + (Len(aKernel) + 3) + CodigoLeido = 3 * (confirmadas + 1)
      BY <3>1, CuentaAlEnviar
    <3> QED BY <2>1, <2>2, <2>3, <3>2
  <2> QED BY <2>3, <2>4 DEF DebidasBien
<1>4. CASE Confirmar
  <2>1. Len(deKernel') = Len(deKernel) - 1 /\ Len(deKernel) \in Nat \ {0}
    BY <1>4, LeerPalabra DEF Confirmar, QuitarPalabra, Cuenta, TipoCuenta
  <2>2. PorConfirmar = 1 /\ PorConfirmar' = 0 BY <1>4 DEF Confirmar, PorConfirmar
  <2>3. /\ PorResponder' = PorResponder /\ CodigoLeido' = CodigoLeido /\ Antes' = Antes
        /\ aKernel' = aKernel /\ atendidas' = atendidas /\ confirmadas' = confirmadas + 1
    BY <1>4 DEF Confirmar, PorResponder, CodigoLeido, Antes
  <2>4. 3 * Len(atendidas') + Len(aKernel') + CodigoLeido' = 3 * (confirmadas' + PorConfirmar')
    BY <2>2, <2>3, Largos DEF DebidasBien
  <2>5. 2 * Len(atendidas') <= Len(deKernel') + PorResponder' + confirmadas'
    <3>1. 2 * Len(atendidas) <= Len(deKernel) + PorResponder + confirmadas BY DEF DebidasBien
    <3>2. 2 * Len(atendidas) <= (Len(deKernel) - 1) + PorResponder + (confirmadas + 1)
      BY <3>1, Largos
    <3> QED BY <2>1, <2>3, <3>2
  <2> QED BY <2>3, <2>4, <2>5 DEF DebidasBien
<1> QED BY <1>1, <1>2, <1>3, <1>4 DEF Despacho, Interrupcion

\* Memory and its handshake have no part in it.
LEMMA DebidasMemoria ==
    ASSUME Control, EntregaBien, Cuenta, Tipos, DebidasBien, Conexion \/ HiloMemoria
    PROVE  DebidasBien'
<1> USE Nombres DEF Control, TipoControl, fijas, sockets, syscalls, ciclo, kernel, historia
<1>1. CASE ConectarMemoria BY <1>1, DebidasQuietas DEF ConectarMemoria, Antes
<1>2. CASE RecibirArchivoListo BY <1>2, DebidasQuietas DEF RecibirArchivoListo, Antes
<1>3. CASE AnunciarArchivo BY <1>3, DebidasQuietas DEF AnunciarArchivo, Antes
<1>4. CASE AtenderSolicitud BY <1>4, DebidasQuietas DEF AtenderSolicitud, Antes
<1>5. CASE LimpiarBuffer BY <1>5, DebidasQuietas DEF LimpiarBuffer, Antes
<1>6. CASE CerrarMemoria BY <1>6, DebidasQuietas DEF CerrarMemoria, Antes
<1> QED BY <1>1, <1>2, <1>3, <1>4, <1>5, <1>6 DEF Conexion, HiloMemoria

\* The kernel takes a packet, processes it and answers it.
LEMMA DebidasKernel ==
    ASSUME Control, EntregaBien, Cuenta, Tipos, DebidasBien, HiloKernel \/ HiloCorto
    PROVE  DebidasBien'
<1> USE Nombres DEF Control, TipoControl, fijas, sockets, syscalls, ciclo, kernel, historia
<1>1. CASE AceptarCpu
  <2>1. /\ PorResponder' = PorResponder /\ CodigoLeido' = CodigoLeido
        /\ PorConfirmar' = PorConfirmar /\ Antes' = Antes
    BY <1>1 DEF AceptarCpu, PorResponder, CodigoLeido, PorConfirmar, Antes
  <2> QED BY <1>1, <2>1 DEF AceptarCpu, DebidasBien
<1>2. CASE RecibirOperacion
  <2>1. /\ Len(aKernel) \in Nat \ {0} /\ Len(aKernel') = Len(aKernel) - 1
        /\ Head(aKernel) = aKernel[1]
    BY <1>2, LeerPalabra DEF RecibirOperacion, EntregaBien, TipoEntrega
  <2>2. CodigoLeido = 0 BY <1>2 DEF RecibirOperacion, CodigoLeido
  <2>3. Head(aKernel) = Palabra("SYSCALL", 0)
    <3>1. PICK m \in Nat : Pendientes(m) BY DEF EntregaBien, SyscallsBien
    <3>2. Len(aKernel) = 3 * m BY <2>1, <2>2, <3>1 DEF Pendientes
    <3>3. 1 \in 1..m /\ 3 * 1 - CodigoLeido > 2 /\ 3 * 1 - CodigoLeido - 2 = 1
      BY <2>1, <2>2, <3>2
    <3> QED BY <2>1, <3>1, <3>3 DEF Pendientes
  <2>4. /\ CodigoLeido' = 1 /\ PorResponder = 0 /\ PorResponder' = 0
        /\ PorConfirmar' = PorConfirmar /\ Antes' = Antes
    BY <1>2, <2>3
    DEF RecibirOperacion, CodigoLeido, PorResponder, PorConfirmar, Antes, Palabra
  <2>5. /\ deKernel' = deKernel /\ atendidas' = atendidas /\ confirmadas' = confirmadas
    BY <1>2 DEF RecibirOperacion
  <2>6. 3 * Len(atendidas') + Len(aKernel') + CodigoLeido' = 3 * (confirmadas' + PorConfirmar')
    BY <2>1, <2>2, <2>4, <2>5, Largos DEF DebidasBien
  <2> QED BY <2>4, <2>5, <2>6 DEF DebidasBien
<1>3. CASE ProcesarSyscall
  <2>1. Len(aKernel') = Len(aKernel) - 2 /\ Len(aKernel) \in Nat
    <3>1. aKernel \in Seq(Palabras) BY DEF EntregaBien, TipoEntrega
    <3>2. Head(aKernel).n = 1
      <4>1. aKernel[1] = Tam(1) BY <1>3, SiguienteSyscall DEF ProcesarSyscall
      <4>2. Head(aKernel) = aKernel[1]
        BY <1>3, <3>1, HeadTailProperties DEF ProcesarSyscall, HayPaquete
      <4> QED BY <4>1, <4>2 DEF Tam, Palabra
    <3> QED BY <1>3, <3>1, <3>2, LeerPaquete DEF ProcesarSyscall
  <2>2. Len(atendidas') = Len(atendidas) + 1 /\ Len(atendidas) \in Nat
    BY <1>3, AgregarUna DEF ProcesarSyscall, Cuenta, TipoCuenta
  <2>3. /\ CodigoLeido = 1 /\ CodigoLeido' = 0 /\ PorResponder = 0 /\ PorResponder' = 2
        /\ PorConfirmar' = PorConfirmar /\ deKernel' = deKernel /\ confirmadas' = confirmadas
    BY <1>3 DEF ProcesarSyscall, CodigoLeido, PorResponder, PorConfirmar
  <2>4. ~ Antes' BY <1>3 DEF ProcesarSyscall, Antes, Tipos, PrimerPcbBien
  <2>5. 3 * Len(atendidas') + Len(aKernel') + CodigoLeido' = 3 * (confirmadas' + PorConfirmar')
    <3>1. 3 * Len(atendidas) + Len(aKernel) + 1 = 3 * (confirmadas + PorConfirmar)
      BY <2>3 DEF DebidasBien
    <3>2. 3 * (Len(atendidas) + 1) + (Len(aKernel) - 2) + 0
             = 3 * Len(atendidas) + Len(aKernel) + 1
      BY <2>1, <2>2
    <3> QED BY <2>1, <2>2, <2>3, <3>1, <3>2
  <2>6. 2 * Len(atendidas') <= Len(deKernel') + PorResponder' + confirmadas'
    BY <2>2, <2>3, Largos DEF DebidasBien
  <2> QED BY <2>4, <2>5, <2>6 DEF DebidasBien
<1>4. CASE ResponderSyscall
  <2>1. Len(deKernel') = Len(deKernel) + 1 /\ Len(deKernel) \in Nat
    BY <1>4, EscribirPalabra, PalabrasDelKernel DEF ResponderSyscall, Cuenta, TipoCuenta
  <2>2. /\ PorResponder = 2 /\ PorResponder' = 1 /\ CodigoLeido' = CodigoLeido
        /\ PorConfirmar' = PorConfirmar /\ Antes' = Antes
    BY <1>4 DEF ResponderSyscall, Responde, PorResponder, CodigoLeido, PorConfirmar, Antes
  <2> QED BY <1>4, <2>1, <2>2, DebidasAlEscribir DEF ResponderSyscall
<1>5. CASE ResponderTam
  <2>1. Len(deKernel') = Len(deKernel) + 1 /\ Len(deKernel) \in Nat
    BY <1>5, EscribirPalabra, PalabrasDelKernel DEF ResponderTam, Cuenta, TipoCuenta
  <2>2. /\ PorResponder = 1 /\ PorResponder' = 0 /\ CodigoLeido' = CodigoLeido
        /\ PorConfirmar' = PorConfirmar /\ Antes' = Antes
    BY <1>5 DEF ResponderTam, PorResponder, CodigoLeido, PorConfirmar, Antes
  <2> QED BY <1>5, <2>1, <2>2, DebidasAlEscribir DEF ResponderTam
<1>6. CASE ReplanificarEnVano
  <2>1. /\ PorResponder = 0 /\ PorResponder' = 0 /\ CodigoLeido' = CodigoLeido
        /\ PorConfirmar' = PorConfirmar /\ Antes' = Antes
    BY <1>6 DEF ReplanificarEnVano, PorResponder, CodigoLeido, PorConfirmar, Antes
  <2> QED BY <1>6, <2>1 DEF ReplanificarEnVano, DebidasBien
<1>7. ASSUME NEW h \in {"kernel", "corto"}, EnviarPcb(h) PROVE DebidasBien'
  <2>1. Len(deKernel') = Len(deKernel) + 1 /\ Len(deKernel) \in Nat
    BY <1>7, EscribirPalabra, PalabrasDelKernel DEF EnviarPcb, Cuenta, TipoCuenta
  <2>2. /\ PorResponder' = PorResponder /\ CodigoLeido' = CodigoLeido
        /\ PorConfirmar' = PorConfirmar /\ Antes' = Antes
    BY <1>7 DEF EnviarPcb, PorResponder, CodigoLeido, PorConfirmar, Antes
  <2> QED BY <1>7, <2>1, <2>2, Largos, DebidasAlEscribir DEF EnviarPcb
<1>8. ASSUME NEW h \in {"kernel", "corto"}, EnviarTamPcb(h) PROVE DebidasBien'
  <2>1. Len(deKernel') = Len(deKernel) + 1 /\ Len(deKernel) \in Nat
    BY <1>8, EscribirPalabra, PalabrasDelKernel DEF EnviarTamPcb, Cuenta, TipoCuenta
  <2>2. /\ PorResponder' = PorResponder /\ CodigoLeido' = CodigoLeido
        /\ PorConfirmar' = PorConfirmar /\ Antes' = Antes
    BY <1>8 DEF EnviarTamPcb, PorResponder, CodigoLeido, PorConfirmar, Antes
  <2> QED BY <1>8, <2>1, <2>2, Largos, DebidasAlEscribir DEF EnviarTamPcb
<1>9. ASSUME NEW h \in {"kernel", "corto"}, EnviarDatosPcb(h) PROVE DebidasBien'
  <2>1. Len(deKernel') = Len(deKernel) + TAM_PCB /\ Len(deKernel) \in Nat /\ TAM_PCB \in Nat
    BY <1>9, EscribirDatos, SupuestoLimites DEF EnviarDatosPcb, Cuenta, TipoCuenta
  <2>2. /\ PorResponder' = PorResponder /\ CodigoLeido' = CodigoLeido
        /\ PorConfirmar' = PorConfirmar /\ Antes' = Antes
    BY <1>9 DEF EnviarDatosPcb, PorResponder, CodigoLeido, PorConfirmar, Antes
  <2> QED BY <1>9, <2>1, <2>2, Largos, DebidasAlEscribir DEF EnviarDatosPcb
<1> QED BY <1>1, <1>2, <1>3, <1>4, <1>5, <1>6, <1>7, <1>8, <1>9
        DEF HiloKernel, HiloCorto, TerminarPcb

LEMMA DebidasPaso ==
    Control /\ EntregaBien /\ Cuenta /\ Tipos /\ DebidasBien /\ [Next]_vars => DebidasBien'
<1> SUFFICES ASSUME Control, EntregaBien, Cuenta, Tipos, DebidasBien, [Next]_vars
             PROVE  DebidasBien'
  OBVIOUS
<1>1. CASE UNCHANGED vars
  BY <1>1, DebidasQuietas DEF vars, sockets, historia, Antes
<1> QED BY <1>1, DebidasPrincipal, DebidasDespacho, DebidasMemoria, DebidasKernel DEF Next

LEMMA DebidasSiempre == Spec => []DebidasBien
<1>1. Control /\ EntregaBien /\ Cuenta /\ Tipos /\ DebidasBien /\ [Next]_vars => DebidasBien'
  BY DebidasPaso
<1> QED BY DebidasInicial, <1>1, ControlSiempre, EntregaSiempre, CuentaSiempre, TiposSiempre,
        PTL DEF Spec

\* despacho waits for the answer to a syscall only while a word is there for it or the
\* kernel has the syscall: neither the other thread of the CPU nor the PCBs on the same
\* socket can leave it waiting for what will not come.
THEOREM RespuestaSiempre == Spec => []RespuestaEnCamino
<1>1. ASSUME Control, EntregaBien, Cuenta, DebidasBien PROVE RespuestaEnCamino
  <2> SUFFICES ASSUME En("despacho", "confirmar"), deKernel = <<>>, aKernel = <<>>,
                      pc["kernel"] \notin {"paquete", "responder", "responder_exit"}
               PROVE  FALSE
    BY DEF RespuestaEnCamino
  <2>1. PorConfirmar = 1 /\ CodigoLeido = 0 /\ PorResponder \in {0, 1}
    BY DEF PorConfirmar, CodigoLeido, PorResponder
  <2>2. Len(aKernel) = 0 /\ Len(deKernel) = 0 OBVIOUS
  <2>3. 3 * Len(atendidas) = 3 * (confirmadas + 1) /\ 2 * Len(atendidas) <= 1 + confirmadas
    BY <1>1, <2>1, <2>2, Largos DEF DebidasBien
  <2> QED BY <1>1, <2>3, Largos
<1> QED BY <1>1, ControlSiempre, EntregaSiempre, CuentaSiempre, DebidasSiempre, PTL

----------------------------------------------------------------------------
(* Nobody waits for the answer to its own request.                          *)

\* What memory has been asked for.  Before principal enters its loop, nothing, and it
\* has left the size of the announcement unread; in the loop the socket holds at most
\* one request, whose size memory may take for another one, and the lines delivered are
\* as many as the requests memory has read: one per line executed, one more for the
\* size of the announcement, and the one principal is at.
Solicitud  == Palabra("SOLICITUD_INSTRUCCION", 0)
SinAtender == IF Len(aMemoria) > 0 /\ aMemoria[1] = Solicitud THEN 1 ELSE 0
EnEspera   ==
    \/ Len(aMemoria) = 0
    \/ Len(aMemoria) = 1 /\ aMemoria[1] = IF En("principal", "pedir_tam") THEN Solicitud
                                         ELSE Tam(0)
    \/ /\ Len(aMemoria) = 2 /\ ~En("principal", "pedir_tam")
       /\ aMemoria[1] = Solicitud /\ aMemoria[2] = Tam(0)
Pedidas    == (IF Leidas = 1 THEN 0 ELSE ejecutadas + 1)
              + (IF pc["principal"] \in {"pedir", "esperar_syscall", "caida"} THEN 0 ELSE 1)
SinPedir ==
    linea = 0 /\ aMemoria = <<>> /\ (En("conexion", "fin") => Leidas = 1)
PedidosBien ==
    puntual =>
        /\ ~Bucle /\ fd_abierto => SinPedir
        /\ Bucle /\ En("memoria", "recibir") =>
              EnEspera /\ linea + SinAtender = Pedidas

\* Every action keeps it.
LEMMA PedidosInicial == Init => PedidosBien
<1> SUFFICES ASSUME Init PROVE PedidosBien OBVIOUS
<1>1. pc["principal"] = "esperar_kernel" /\ pc["conexion"] = "sin_crear"
  BY Nombres DEF Init
<1>2. ~Bucle /\ linea = 0 /\ aMemoria = <<>> BY <1>1 DEF Init, Bucle
<1> QED BY <1>1, <1>2 DEF PedidosBien, SinPedir

\* A step that does not touch what memory and principal say to each other.
LEMMA PedidosQuietos ==
    ASSUME PedidosBien, puntual' = puntual, linea' = linea, fd_abierto' = fd_abierto,
           aMemoria' = aMemoria, deMemoria' = deMemoria, ejecutadas' = ejecutadas,
           pc'["principal"] = pc["principal"], pc'["memoria"] = pc["memoria"],
           pc'["conexion"] = pc["conexion"]
    PROVE  PedidosBien'
<1>1. Leidas' = Leidas BY DEF Leidas, Enviadas
<1>2. Bucle' = Bucle /\ SinAtender' = SinAtender /\ EnEspera' = EnEspera /\ Pedidas' = Pedidas
  BY <1>1 DEF Bucle, SinAtender, EnEspera, Pedidas
<1> QED BY <1>1, <1>2 DEF PedidosBien, SinPedir

\* A step of principal, or of the handshake, before the loop.
LEMMA PedidosFuera ==
    ASSUME PedidosBien, ~Bucle, ~Bucle', puntual' = puntual, linea' = linea,
           fd_abierto' => fd_abierto, aMemoria' = aMemoria,
           En("conexion", "fin")' => En("conexion", "fin"),
           deMemoria' = deMemoria, Enviadas' = Enviadas
    PROVE  PedidosBien'
<1>1. Leidas' = Leidas BY DEF Leidas
<1> QED BY <1>1 DEF PedidosBien, SinPedir

\* A step of principal within the loop that neither reads nor executes.
LEMMA PedidosDentro ==
    ASSUME PedidosBien, Bucle, Bucle', puntual' = puntual, linea' = linea,
           pc'["memoria"] = pc["memoria"], deMemoria' = deMemoria, ejecutadas' = ejecutadas,
           puntual /\ En("memoria", "recibir") =>
               /\ EnEspera'
               /\ SinAtender' - SinAtender =
                     (IF pc'["principal"] \in {"pedir", "esperar_syscall", "caida"} THEN 0 ELSE 1)
                     - (IF pc["principal"] \in {"pedir", "esperar_syscall", "caida"} THEN 0 ELSE 1),
           TipoEntrega
    PROVE  PedidosBien'
<1>1. Leidas' = Leidas BY DEF Leidas, Enviadas
<1>2. /\ linea \in Nat /\ ejecutadas \in Nat
      /\ SinAtender \in {0, 1} /\ SinAtender' \in {0, 1}
  BY DEF TipoEntrega, SinAtender
<1>3. ASSUME puntual, En("memoria", "recibir")
      PROVE  linea' + SinAtender' = Pedidas'
  <2>1. linea + SinAtender = Pedidas BY <1>3 DEF PedidosBien
  <2> DEFINE a == IF Leidas = 1 THEN 0 ELSE ejecutadas + 1
             b == IF pc["principal"] \in {"pedir", "esperar_syscall", "caida"} THEN 0 ELSE 1
             c == IF pc'["principal"] \in {"pedir", "esperar_syscall", "caida"} THEN 0 ELSE 1
  <2>2. a \in Nat /\ b \in {0, 1} /\ c \in {0, 1} BY <1>2
  <2>3. Pedidas = a + b /\ Pedidas' = a + c BY <1>1 DEF Pedidas
  <2>4. PICK s \in {0, 1}, t \in {0, 1} : s = SinAtender /\ t = SinAtender' BY <1>2
  <2>5. t - s = c - b /\ linea + s = a + b /\ linea \in Nat
    BY <1>2, <1>3, <2>1, <2>3, <2>4
  <2> HIDE DEF a, b, c
  <2>6. linea + t = a + c BY <2>2, <2>5
  <2> QED BY <2>3, <2>4, <2>6
<1> QED BY <1>3 DEF PedidosBien

\* principal enters the loop once, with the size of the announcement unread.
LEMMA PedidosEsperarArchivo ==
    ASSUME Control, EntregaBien, PedidosBien, EsperarArchivo PROVE PedidosBien'
<1> USE Nombres DEF EsperarArchivo, fijas, sockets, historia
<1>1. ~Bucle /\ fd_abierto /\ En("conexion", "fin")
  BY DEF Bucle, Control, ArchivoBien, CicloBien, ArchivoTomado
<1>2. Leidas' = Leidas /\ pc'["principal"] = "pedir"
  BY DEF Leidas, Enviadas, Control, TipoControl
<1>3. ASSUME puntual PROVE EnEspera' /\ linea' + SinAtender' = Pedidas'
  <2>1. linea = 0 /\ aMemoria = <<>> /\ Leidas = 1 BY <1>1, <1>3 DEF PedidosBien, SinPedir
  <2>2. SinAtender' = 0 /\ Pedidas' = 0 BY <1>2, <2>1 DEF SinAtender, Pedidas
  <2>3. Len(aMemoria') = 0 BY <2>1
  <2> QED BY <2>1, <2>2, <2>3 DEF EnEspera
<1>4. Bucle' BY <1>2 DEF Bucle
<1> QED BY <1>3, <1>4 DEF PedidosBien

LEMMA EscribirAMemoria ==
    ASSUME NEW s \in Seq(Palabras), NEW p \in {Solicitud, Tam(0)}
    PROVE  /\ Len(Append(s, p)) = Len(s) + 1 /\ Append(s, p)[Len(s) + 1] = p
           /\ \A i \in 1..Len(s) : Append(s, p)[i] = s[i]
<1>1. p \in Palabras BY DEF Solicitud, Tam, Palabra, Palabras, Codigos
<1> QED BY <1>1, AppendProperties

\* A request is sent to a memory that has read the one before.
LEMMA PedidosEnviarSolicitud ==
    ASSUME Control, EntregaBien, Tipos, PedidosBien, EnviarSolicitud PROVE PedidosBien'
<1> USE Nombres DEF EnviarSolicitud, fijas, historia
<1>1. /\ Bucle /\ Bucle' /\ fd_abierto /\ pc'["memoria"] = pc["memoria"]
      /\ pc'["principal"] \in {"pedir_tam", "esperar_respuesta"}
  BY DEF Bucle, Control, TipoControl, CicloBien
<1>2. ASSUME puntual, En("memoria", "recibir")
      PROVE  EnEspera' /\ SinAtender' - SinAtender = 1 - 0
  <2>1. aMemoria = <<>> /\ Len(aMemoria) = 0 BY <1>2
  <2>2. aMemoria' = Append(aMemoria, Solicitud) /\ pc'["principal"] = "pedir_tam"
    BY <1>1, <1>2 DEF LlegaAMemoria, Solicitud, Control, TipoControl
  <2>3. Len(aMemoria') = 1 /\ aMemoria'[1] = Solicitud
    BY <2>1, <2>2, EscribirAMemoria DEF Tipos, VariablesBien
  <2>4. SinAtender = 0 /\ SinAtender' = 1 BY <2>1, <2>3 DEF SinAtender, Solicitud
  <2> QED BY <2>2, <2>3, <2>4 DEF EnEspera, Solicitud
<1> QED BY <1>1, <1>2, PedidosDentro DEF EntregaBien

LEMMA PedidosEnviarTamSolicitud ==
    ASSUME Control, EntregaBien, Tipos, PedidosBien, EnviarTamSolicitud PROVE PedidosBien'
<1> USE Nombres DEF EnviarTamSolicitud, fijas, historia
<1>1. /\ Bucle /\ Bucle' /\ fd_abierto /\ pc'["memoria"] = pc["memoria"]
      /\ pc'["principal"] = "esperar_respuesta" /\ pc["principal"] = "pedir_tam"
  BY DEF Bucle, Control, TipoControl, CicloBien
<1>2. ASSUME puntual, En("memoria", "recibir")
      PROVE  EnEspera' /\ SinAtender' - SinAtender = 1 - 1
  <2>1. Len(aMemoria) = 0 \/ (Len(aMemoria) = 1 /\ aMemoria[1] = Solicitud)
    BY <1>1, <1>2 DEF PedidosBien, EnEspera
  <2>2. aMemoria' = Append(aMemoria, Tam(0)) BY <1>1, <1>2 DEF LlegaAMemoria
  <2>3. /\ Len(aMemoria') = Len(aMemoria) + 1 /\ aMemoria'[Len(aMemoria) + 1] = Tam(0)
        /\ \A i \in 1..Len(aMemoria) : aMemoria'[i] = aMemoria[i]
    BY <2>2, EscribirAMemoria DEF Tipos, VariablesBien
  <2>4. CASE Len(aMemoria) = 0
    <3>1. Len(aMemoria') = 1 /\ aMemoria'[1] = Tam(0) BY <2>3, <2>4
    <3>2. SinAtender = 0 /\ SinAtender' = 0
      BY <2>4, <3>1 DEF SinAtender, Solicitud, Tam, Palabra
    <3> QED BY <1>1, <3>1, <3>2 DEF EnEspera
  <2>5. CASE Len(aMemoria) = 1 /\ aMemoria[1] = Solicitud
    <3>1. Len(aMemoria') = 2 /\ aMemoria'[1] = Solicitud /\ aMemoria'[2] = Tam(0)
      BY <2>3, <2>5
    <3>2. SinAtender = 1 /\ SinAtender' = 1 BY <2>5, <3>1 DEF SinAtender, Solicitud
    <3> QED BY <1>1, <3>1, <3>2 DEF EnEspera, Solicitud
  <2> QED BY <2>1, <2>4, <2>5
<1> QED BY <1>1, <1>2, PedidosDentro DEF EntregaBien

LEMMA PedidosEsperarSyscall ==
    ASSUME Control, EntregaBien, PedidosBien, EsperarSyscall PROVE PedidosBien'
<1> USE Nombres DEF EsperarSyscall, SyscallProcesada, fijas, sockets, historia
<1>1. /\ Bucle /\ Bucle' /\ pc'["memoria"] = pc["memoria"]
      /\ pc'["principal"] = "pedir" /\ pc["principal"] = "esperar_syscall"
  BY DEF Bucle, Control, TipoControl
<1>2. SinAtender' = SinAtender /\ EnEspera' = EnEspera
  BY <1>1 DEF SinAtender, EnEspera
<1>3. SinAtender \in {0, 1} BY DEF SinAtender
<1>4. puntual /\ En("memoria", "recibir") => EnEspera BY <1>1 DEF PedidosBien
<1> QED BY <1>1, <1>2, <1>3, <1>4, PedidosDentro DEF EntregaBien

\* The first word read answers nobody: it puts the requests one ahead.
LEMMA PedidosRecibirRespuesta ==
    ASSUME Control, EntregaBien, PedidosBien, RecibirRespuesta PROVE PedidosBien'
<1> USE Nombres DEF RecibirRespuesta, fijas, historia
<1>0. /\ fd_abierto /\ En("conexion", "fin") /\ Bucle
      /\ linea' = linea /\ ejecutadas' = ejecutadas /\ Enviadas' = Enviadas
      /\ pc'["memoria"] = pc["memoria"] /\ pc'["principal"] = Seguir(Codigo)
  BY DEF Control, TipoControl, CicloBien, Bucle, ArchivoTomado, Enviadas
<1>1. CASE Seguir(Codigo) = "ciclo"
  <2>1. ~Bucle' /\ ~fd_abierto' BY <1>0, <1>1 DEF Bucle
  <2> QED BY <2>1 DEF PedidosBien
<1>2. CASE Seguir(Codigo) # "ciclo"
  <2>1. ~Cortada BY <1>2 DEF Codigo, Seguir
  <2>2. deMemoria # <<>> /\ deMemoria' = Tail(deMemoria) BY <2>1
  <2>3. /\ Len(deMemoria) \in Nat \ {0} /\ Len(deMemoria') = Len(deMemoria) - 1
        /\ Head(deMemoria) = deMemoria[1]
        /\ \A i \in 1..Len(deMemoria') : deMemoria'[i] = deMemoria[i + 1]
    BY <2>2, HeadTailProperties, EmptySeq DEF EntregaBien, TipoEntrega
  <2>4. Enviadas \in Nat /\ linea \in Nat /\ ejecutadas \in Nat
    BY DEF Enviadas, EntregaBien, TipoEntrega
  <2>5. Leidas' = Leidas + 1 BY <1>0, <2>3, MemoriaLeida DEF EntregaBien
  <2>6. SinAtender' = SinAtender /\ EnEspera' = EnEspera
        /\ pc'["principal"] \in {"pedir", "leer_instruccion"}
    BY <1>0, <1>2 DEF SinAtender, EnEspera, Seguir
  <2>7. Pedidas' = Pedidas
    <3>1. CASE Leidas = 1 /\ ejecutadas = 0
      <4>1. PalabraDe(Head(deMemoria), 2, linea)
        BY <2>3, <3>1 DEF EntregaBien, MemoriaBien
      <4>2. Head(deMemoria) = Tam(0) BY <4>1 DEF PalabraDe
      <4>3. pc'["principal"] = "pedir" BY <1>0, <2>1, <4>2 DEF Codigo, Seguir
      <4> QED BY <1>0, <2>5, <3>1, <4>3 DEF Pedidas
    <3>2. CASE Leidas = 3 * ejecutadas + 2
      <4>1. Leidas + 1 <= Enviadas BY <2>3, <2>4 DEF Leidas
      <4>2. PalabraDe(Head(deMemoria), Leidas + 1, linea)
        BY <2>3 DEF EntregaBien, MemoriaBien
      <4>3. ejecutadas <= linea BY <2>4, <3>2, <4>1 DEF Enviadas
      <4>4. Head(deMemoria) \in {Palabra("PAQUETE", 0), Palabra("EXIT", 0)}
        <5>1. CASE ejecutadas < linea
          <6>1. ejecutadas + 1 \in 1..linea /\ Leidas + 1 = 3 * (ejecutadas + 1)
            BY <2>4, <3>2, <5>1
          <6> QED BY <4>2, <6>1 DEF PalabraDe
        <5>2. CASE ejecutadas = linea
          <6>1. Leidas + 1 = 3 * linea + 3 BY <2>4, <3>2, <5>2
          <6> QED BY <4>2, <6>1 DEF PalabraDe
        <5> QED BY <2>4, <4>3, <5>1, <5>2
      <4>5. Codigo \in {"PAQUETE", "EXIT"} BY <2>1, <4>4 DEF Codigo, Palabra, Tam
      <4>6. pc'["principal"] = "leer_instruccion" BY <1>0, <1>2, <4>5 DEF Seguir
      <4>7. Leidas # 1 /\ Leidas' # 1 BY <2>4, <2>5, <3>2
      <4> QED BY <1>0, <4>6, <4>7 DEF Pedidas
    <3> QED BY <1>0, <3>1, <3>2 DEF EntregaBien, LecturaBien
  <2>8. Bucle' BY <2>6 DEF Bucle
  <2> QED BY <1>0, <2>6, <2>7, <2>8 DEF PedidosBien
<1> QED BY <1>1, <1>2

LEMMA PedidosProcesarInstruccion ==
    ASSUME Control, EntregaBien, PedidosBien, ProcesarInstruccion PROVE PedidosBien'
<1> USE Nombres
<1>0. /\ ejecutadas' = ejecutadas + 1 /\ linea' = linea /\ puntual' = puntual
      /\ aMemoria' = aMemoria /\ pc'["memoria"] = pc["memoria"]
      /\ pc["principal"] = "leer_instruccion" /\ pc'["principal"] \in {"pedir", "esperar_syscall", "caida"}
  BY SiguienteInstruccion DEF ProcesarInstruccion, Control, TipoControl, fijas
<1>1. Leidas = 3 * ejecutadas + 3 /\ ejecutadas \in Nat /\ Enviadas' = Enviadas /\ Enviadas \in Int
  BY <1>0, SiguienteInstruccion DEF EntregaBien, LecturaBien, TipoEntrega, Enviadas
<1>2. Leidas' = Leidas + 2 BY <1>1, SiguienteInstruccion DEF Leidas
<1>3. Leidas # 1 /\ Leidas' # 1 BY <1>1, <1>2
<1>4. Pedidas' = Pedidas BY <1>0, <1>1, <1>3 DEF Pedidas
<1>5. Bucle /\ Bucle' /\ SinAtender' = SinAtender /\ EnEspera' = EnEspera
  BY <1>0 DEF Bucle, SinAtender, EnEspera
<1> QED BY <1>0, <1>4, <1>5 DEF PedidosBien

\* The word that stays unread when principal enters its loop.
LEMMA PedidosRecibirArchivoListo ==
    ASSUME Control, EntregaBien, PedidosBien, RecibirArchivoListo PROVE PedidosBien'
<1> USE Nombres DEF RecibirArchivoListo, fijas, historia
<1>1. /\ ~Bucle /\ ~Bucle' /\ ~En("conexion", "fin")
      /\ Enviadas' = Enviadas /\ Enviadas \in Int
  BY DEF Bucle, Control, TipoControl, CicloBien, ArchivoTomado, Enviadas, EntregaBien, TipoEntrega
<1>2. Leidas = 0 BY <1>1 DEF EntregaBien, LecturaBien
<1>3. Len(deMemoria) \in Nat /\ Len(deMemoria') = Len(deMemoria) - 1
  BY HeadTailProperties, EmptySeq DEF EntregaBien, TipoEntrega
<1>4. Leidas' = 1 BY <1>1, <1>2, <1>3 DEF Leidas
<1> QED BY <1>1, <1>4 DEF PedidosBien, SinPedir

\* A packet of one word of data is three words.
LEMMA EscribirPaquete ==
    ASSUME NEW s \in Seq(Palabras), NEW n \in Nat
    PROVE  Len(s \o Paquete("PAQUETE", n)) = Len(s) + 3 /\ Len(s) \in Nat
<1> DEFINE q == Paquete("PAQUETE", n)
<1>1. q \in Seq(Palabras) /\ Len(q) = 3 BY DEF Paquete, Palabra, Tam, Palabras, Codigos
<1> HIDE DEF q
<1>2. s \o q \in Seq(Palabras) /\ Len(s \o q) = Len(s) + Len(q) /\ Len(s) \in Nat
  BY <1>1, ConcatProperties, LenProperties
<1> QED BY <1>1, <1>2 DEF q

\* A request answered is a line more, or the end.
LEMMA PedidosAtenderSolicitud ==
    ASSUME Control, EntregaBien, Tipos, PedidosBien, AtenderSolicitud PROVE PedidosBien'
<1> USE Nombres DEF AtenderSolicitud, fijas, historia
<1>1. /\ pc'["principal"] = pc["principal"] /\ Bucle' = Bucle
      /\ ejecutadas' = ejecutadas /\ pc["memoria"] = "recibir"
  BY DEF Control, TipoControl, Bucle
<1>2. CASE ~puntual \/ ~Bucle BY <1>1, <1>2 DEF PedidosBien, SinPedir
<1>3. CASE puntual /\ Bucle /\ ~HayLinea
  <2>1. pc'["memoria"] = "cerrar" BY <1>3 DEF Control, TipoControl
  <2> QED BY <1>1, <1>3, <2>1 DEF PedidosBien
<1>4. CASE puntual /\ Bucle /\ HayLinea
  <2>1. EnEspera /\ linea + SinAtender = Pedidas BY <1>1, <1>4 DEF PedidosBien
  <2>2. /\ Len(aMemoria) \in Nat \ {0} /\ Len(aMemoria') = Len(aMemoria) - 1
        /\ Head(aMemoria) = aMemoria[1]
        /\ \A i \in 1..Len(aMemoria') : aMemoria'[i] = aMemoria[i + 1]
    BY HeadTailProperties, EmptySeq DEF Tipos, VariablesBien
  <2>3. aMemoria[1] # Tam(0) BY <2>2 DEF Tam, Palabra
  <2>4. \/ Len(aMemoria) = 1 /\ aMemoria[1] = Solicitud
        \/ /\ Len(aMemoria) = 2 /\ ~En("principal", "pedir_tam")
           /\ aMemoria[1] = Solicitud /\ aMemoria[2] = Tam(0)
    BY <2>1, <2>2, <2>3 DEF EnEspera
  <2>5. \/ Len(aMemoria') = 0
        \/ Len(aMemoria') = 1 /\ aMemoria'[1] = Tam(0) /\ ~En("principal", "pedir_tam")
    BY <2>2, <2>4
  <2>6. SinAtender = 1 /\ SinAtender' = 0
    BY <2>4, <2>5 DEF SinAtender, Solicitud, Tam, Palabra
  <2>7. Leidas' = Leidas
    <3>1. Len(deMemoria') = Len(deMemoria) + 3 /\ Len(deMemoria) \in Nat
      BY <1>4, EscribirPaquete DEF EntregaBien, TipoEntrega
    <3>2. linea \in Nat /\ linea' = linea + 1 /\ pc' = pc
      BY <1>4 DEF EntregaBien, TipoEntrega
    <3> QED BY <1>1, <3>1, <3>2 DEF Leidas, Enviadas
  <2>8. Pedidas' = Pedidas BY <1>1, <2>7 DEF Pedidas
  <2>9. linea' + SinAtender' = Pedidas' /\ puntual' = puntual
    <3>1. linea \in Nat /\ linea' = linea + 1 BY <1>4 DEF EntregaBien, TipoEntrega
    <3> QED BY <2>1, <2>6, <2>8, <3>1
  <2>10. EnEspera' BY <1>1, <2>5 DEF EnEspera
  <2> QED BY <1>1, <1>4, <2>9, <2>10 DEF PedidosBien
<1> QED BY <1>2, <1>3, <1>4

\* Memory takes the size of a request for a code, and drops it.
LEMMA PedidosLimpiarBuffer ==
    ASSUME Control, EntregaBien, Tipos, PedidosBien, LimpiarBuffer PROVE PedidosBien'
<1> USE Nombres DEF LimpiarBuffer, fijas, historia
<1>1. /\ pc' = pc /\ Bucle' = Bucle /\ ejecutadas' = ejecutadas /\ Leidas' = Leidas
      /\ Pedidas' = Pedidas /\ linea' = linea
  BY DEF Bucle, Leidas, Enviadas, Pedidas
<1>2. aMemoria[1] # Solicitud /\ Len(aMemoria') = 0
  <2>1. Head(aMemoria) = aMemoria[1] BY DEF Tipos, VariablesBien
  <2> QED BY <2>1 DEF Solicitud, Palabra
<1>3. SinAtender = 0 /\ SinAtender' = 0 BY <1>2 DEF SinAtender
<1>4. EnEspera' BY <1>2 DEF EnEspera
<1> QED BY <1>1, <1>3, <1>4 DEF PedidosBien, SinPedir

LEMMA PedidosCerrarMemoria ==
    ASSUME Control, EntregaBien, PedidosBien, CerrarMemoria PROVE PedidosBien'
<1> USE Nombres DEF CerrarMemoria, fijas, historia
<1>1. /\ pc'["principal"] = pc["principal"] /\ pc'["conexion"] = pc["conexion"]
      /\ pc'["memoria"] = "cerrada" /\ Bucle' = Bucle /\ Leidas' = Leidas
  BY DEF Control, TipoControl, Bucle, Leidas, Enviadas
<1> QED BY <1>1 DEF PedidosBien, SinPedir

LEMMA PedidosPrincipal ==
    ASSUME Control, EntregaBien, Tipos, PedidosBien, Principal PROVE PedidosBien'
<1> USE Nombres DEF Control, TipoControl, fijas, sockets, syscalls, ciclo, kernel, historia
<1>1. CASE EsperarKernel BY <1>1, PedidosFuera DEF EsperarKernel, Bucle, Enviadas
<1>2. CASE IniciarCpu BY <1>2, PedidosFuera DEF IniciarCpu, Bucle, Enviadas
<1>3. CASE RecibirCodigoPcb BY <1>3, PedidosFuera DEF RecibirCodigoPcb, Bucle, Enviadas
<1>4. CASE LeerPcb BY <1>4, PedidosFuera DEF LeerPcb, Bucle, Enviadas
<1>5. CASE Ciclo BY <1>5, PedidosFuera DEF Ciclo, Bucle, Enviadas
<1>6. CASE EsperarArchivo BY <1>6, PedidosEsperarArchivo
<1>7. CASE EnviarSolicitud BY <1>7, PedidosEnviarSolicitud
<1>8. CASE EnviarTamSolicitud BY <1>8, PedidosEnviarTamSolicitud
<1>9. CASE RecibirRespuesta BY <1>9, PedidosRecibirRespuesta
<1>10. CASE ProcesarInstruccion BY <1>10, PedidosProcesarInstruccion
<1>11. CASE EsperarSyscall BY <1>11, PedidosEsperarSyscall
<1> QED BY <1>1, <1>2, <1>3, <1>4, <1>5, <1>6, <1>7, <1>8, <1>9, <1>10, <1>11 DEF Principal

LEMMA PedidosConexionYMemoria ==
    ASSUME Control, EntregaBien, Tipos, PedidosBien, Conexion \/ HiloMemoria PROVE PedidosBien'
<1> USE Nombres DEF fijas, sockets, historia
<1>1. CASE ConectarMemoria
  <2>1. ~Bucle /\ ~Bucle'
    BY <1>1 DEF ConectarMemoria, Bucle, Control, TipoControl, CicloBien, ArchivoTomado
  <2>2. Enviadas' = Enviadas /\ ~En("conexion", "fin")'
    BY <1>1 DEF ConectarMemoria, Enviadas, Control, TipoControl
  <2> QED BY <1>1, <2>1, <2>2, PedidosFuera DEF ConectarMemoria
<1>2. CASE RecibirArchivoListo BY <1>2, PedidosRecibirArchivoListo
<1>3. CASE AnunciarArchivo
  <2>1. ~En("conexion", "fin") /\ pc'["conexion"] = pc["conexion"]
        /\ pc'["principal"] = pc["principal"]
    BY <1>3 DEF AnunciarArchivo, EntregaBien, LecturaBien, Control, TipoControl
  <2>2. ~Bucle /\ ~Bucle' BY <2>1 DEF Bucle, Control, CicloBien, ArchivoTomado
  <2> QED BY <1>3, <2>1, <2>2 DEF AnunciarArchivo, PedidosBien, SinPedir
<1>4. CASE AtenderSolicitud BY <1>4, PedidosAtenderSolicitud
<1>5. CASE LimpiarBuffer BY <1>5, PedidosLimpiarBuffer
<1>6. CASE CerrarMemoria BY <1>6, PedidosCerrarMemoria
<1> QED BY <1>1, <1>2, <1>3, <1>4, <1>5, <1>6 DEF Conexion, HiloMemoria

LEMMA PedidosLosDemas ==
    ASSUME Control, PedidosBien, Despacho \/ Interrupcion \/ HiloKernel \/ HiloCorto
    PROVE  PedidosBien'
<1> USE Nombres DEF Control, TipoControl, fijas, sockets, syscalls, ciclo, kernel, historia
<1>1. ASSUME NEW h, ConectarKernel(h) PROVE PedidosBien'
  BY <1>1, PedidosQuietos DEF ConectarKernel
<1>2. CASE TomarSyscall BY <1>2, PedidosQuietos DEF TomarSyscall
<1>3. CASE EnviarSyscall BY <1>3, PedidosQuietos DEF EnviarSyscall
<1>4. CASE Confirmar BY <1>4, PedidosQuietos DEF Confirmar
<1>5. CASE AceptarCpu BY <1>5, PedidosQuietos DEF AceptarCpu
<1>6. CASE RecibirOperacion BY <1>6, PedidosQuietos DEF RecibirOperacion
<1>7. CASE ProcesarSyscall BY <1>7, PedidosQuietos DEF ProcesarSyscall
<1>8. CASE ResponderSyscall BY <1>8, PedidosQuietos DEF ResponderSyscall
<1>9. CASE ResponderTam BY <1>9, PedidosQuietos DEF ResponderTam
<1>10. CASE ReplanificarEnVano BY <1>10, PedidosQuietos DEF ReplanificarEnVano
<1>11. ASSUME NEW h \in {"kernel", "corto"}, EnviarPcb(h) PROVE PedidosBien'
  BY <1>11, PedidosQuietos DEF EnviarPcb
<1>12. ASSUME NEW h \in {"kernel", "corto"}, EnviarTamPcb(h) PROVE PedidosBien'
  BY <1>12, PedidosQuietos DEF EnviarTamPcb
<1>13. ASSUME NEW h \in {"kernel", "corto"}, EnviarDatosPcb(h) PROVE PedidosBien'
  BY <1>13, PedidosQuietos DEF EnviarDatosPcb
<1> QED BY <1>1, <1>2, <1>3, <1>4, <1>5, <1>6, <1>7, <1>8, <1>9, <1>10, <1>11, <1>12, <1>13
        DEF Despacho, Interrupcion, HiloKernel, HiloCorto, TerminarPcb

LEMMA PedidosPaso == Control /\ EntregaBien /\ Tipos /\ PedidosBien /\ [Next]_vars => PedidosBien'
<1> SUFFICES ASSUME Control, EntregaBien, Tipos, PedidosBien, [Next]_vars PROVE PedidosBien'
  OBVIOUS
<1>1. CASE UNCHANGED vars BY <1>1, PedidosQuietos DEF vars, fijas, sockets, historia
<1> QED BY <1>1, PedidosPrincipal, PedidosConexionYMemoria, PedidosLosDemas DEF Next

LEMMA PedidosSiempre == Spec => []PedidosBien
<1>1. Control /\ EntregaBien /\ Tipos /\ PedidosBien /\ [Next]_vars => PedidosBien' BY PedidosPaso
<1> QED BY PedidosInicial, <1>1, ControlSiempre, EntregaSiempre, TiposSiempre, PTL DEF Spec

\* With pauses that are long enough the answer principal waits for is already there,
\* or memory has closed: what memory drops is never the request that counts.
THEOREM LecturaSiempre == Spec => []LeeSinEsperar
<1>1. ASSUME Control, EntregaBien, PedidosBien PROVE LeeSinEsperar
  <2> SUFFICES ASSUME puntual, En("principal", "esperar_respuesta"), deMemoria = <<>>, ~Cortada
               PROVE  FALSE
    BY DEF LeeSinEsperar
  <2>1. fd_abierto /\ En("conexion", "fin") /\ Bucle /\ ~En("memoria", "cerrada")
    BY <1>1 DEF Control, CicloBien, Bucle, ArchivoTomado, Cortada
  <2>2. Leidas = Enviadas /\ linea \in Nat /\ ejecutadas \in Nat
    BY <1>1 DEF Leidas, Enviadas, EntregaBien, TipoEntrega
  <2>3. Enviadas = 3 * linea + 4 \/ (Enviadas = 3 * linea + 2 /\ En("memoria", "recibir"))
    BY <1>1, <2>1 DEF Enviadas, EntregaBien, LecturaBien
  <2>4. Leidas = 3 * ejecutadas + 2
    BY <1>1, <2>1, <2>2, <2>3 DEF EntregaBien, LecturaBien
  <2>5. En("memoria", "recibir") /\ linea = ejecutadas BY <2>2, <2>3, <2>4
  <2>6. Leidas # 1 BY <2>2, <2>4
  <2>7. linea + SinAtender = ejecutadas + 1 + 1
    BY <1>1, <2>1, <2>5, <2>6 DEF PedidosBien, Pedidas
  <2>8. SinAtender \in {0, 1} BY DEF SinAtender
  <2> QED BY <2>2, <2>5, <2>7, <2>8
<1> QED BY <1>1, ControlSiempre, EntregaSiempre, PedidosSiempre, PTL
=============================================================================
