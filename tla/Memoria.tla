------------------------------ MODULE Memoria ------------------------------
(***************************************************************************)
(* The memory module: frames, page tables, the two dictionaries of         *)
(* processes, physical memory, swap and the instruction file.              *)
(*                                                                         *)
(*   kernel thread  atender_memoria_kernel: one request at a time.  It is  *)
(*                  the only one that takes or frees frames and that       *)
(*                  changes a page table, so each handler is one step,     *)
(*                  from the request it received (pedido) to its answer;   *)
(*                  the dump, which only reads, is a step for each page    *)
(*   cpu thread     atender_memoria_cpu: translates an address and, after  *)
(*                  simular_retardo_memoria, copies; the kernel thread     *)
(*                  runs in between, on that process or on another.        *)
(*                  traducir_direccion takes no mutex: while a handler     *)
(*                  changes the dictionary it may miss the process, and    *)
(*                  while one frees it, read what is being freed           *)
(*                                                                         *)
(* Bytes are positions holding an abstract value; an int takes TAM_INT of  *)
(* them.  Page tables have one level (CANTIDAD_NIVELES=1, memoria.config). *)
(* A page with no frame is SinMarco: presente and marco always agree.      *)
(***************************************************************************)
EXTENDS Integers, Sequences, FiniteSets

CONSTANTS
    TAM_MEMORIA, TAM_PAGINA, ENTRADAS_POR_TABLA,   \* memoria.config
    TAM_INT,         \* sizeof(int), in the same units
    Pids, Tamanios,  \* the pids and sizes that requests name
    Archivos,        \* the instruction files ENVIO_ARCHIVO_KERNEL may name
    Valores,         \* bound: what ESCRITURA_MEMORIA writes
    Direcciones,     \* bound: the virtual addresses of the CPU's accesses
    Perdidas,        \* bound: the addresses computed from an entry already freed
    Operaciones,     \* the requests the kernel sends
    MaxPedidos,      \* bound: how many of them
    PidsNuevos,      \* whether a process is only created with a pid not in use
    EnteroCrudo,     \* whether integers arrive as their bytes rather than as text
    SwapPuedeFallar  \* whether fwrite on the swap file may fail

TotalMarcos == TAM_MEMORIA \div TAM_PAGINA
Marcos      == 0..TotalMarcos - 1
Paginas     == 0..ENTRADAS_POR_TABLA - 1
Bytes       == 0..TAM_MEMORIA - 1
Enteros     == 0..TAM_INT - 1        \* the bytes of an int
Celdas      == Valores \cup {0}
SinMarco    == -1
Inexistente == <<"inexistente">>     \* a file access() does not find

\* atoi on the first byte of an int below 256, the next one being 0.
AtoiDeBytes(n) == IF n \in 48..57 THEN n - 48 ELSE 0
\* What atoi makes of an integer of a request.
Leido(n) == IF EnteroCrudo THEN AtoiDeBytes(n) ELSE n

ASSUME SupuestoTamanios ==
    /\ TAM_MEMORIA \in Nat /\ TAM_PAGINA \in Nat \ {0} /\ TAM_INT \in Nat \ {0}
    /\ ENTRADAS_POR_TABLA \in Nat \ {0}
    /\ TotalMarcos <= ENTRADAS_POR_TABLA
ASSUME SupuestoPedidos ==
    /\ Pids \subseteq Nat /\ 0 \in Pids /\ \A p \in Pids : Leido(p) \in Pids
    /\ Tamanios \subseteq Nat /\ Direcciones \subseteq Nat /\ Perdidas \subseteq Nat
    /\ Valores \subseteq Int
    /\ MaxPedidos \in Nat
    /\ {PidsNuevos, EnteroCrudo, SwapPuedeFallar} \subseteq BOOLEAN

ConPid == {"FINALIZAR_PROCESO", "SUSPENDER_PROCESO", "REACTIVAR_PROCESO", "DUMP_MEMORY"}
Pedidos ==
    [op : {"ENVIO_ARCHIVO_KERNEL"}, pid : {0}, tam : Tamanios, archivo : Archivos]
    \cup [op : {"CONSULTAR_ESPACIO"}, pid : {0}, tam : Tamanios]   \* the pid is only logged
    \cup [op : {"CREAR_PROCESO"}, pid : Pids, tam : Tamanios]
    \cup [op : ConPid, pid : Pids]
Nada == [op |-> "nada"]
SinConfirmar == [op |-> "nada", tam |-> 0, ok |-> FALSE]

VARIABLES
    marcos_libres,           \* the frames whose flag is true
    procesos_activos,        \* per pid: size and page table,
    procesos_suspendidos,    \*   or SinProceso when the dictionary has no such key
    memoria_fisica,
    swap,                    \* the bytes of the swap file written so far
    archivo_instrucciones,   \* the lines not yet delivered
    sem_archivo_listo,
    envio_pendiente,         \* the kernel has not sent its file yet
    pedidos_restantes,       \* bound on the kernel
    pedido,                  \* the request the kernel thread is serving, or Nada
    confirmacion,            \* the last answer to the kernel, while it can bear on
                             \*   the next: until a request that is not a creation
    volcado,                 \* the dump file, being written or just written, or Nada
    cpu,                     \* the cpu thread and its access in progress
    respuesta                \* the last answer to the CPU, or Nada

procesos == <<procesos_activos, procesos_suspendidos>>
cliente  == <<envio_pendiente, pedidos_restantes>>
archivo  == <<archivo_instrucciones, sem_archivo_listo>>
vars     == <<marcos_libres, procesos, memoria_fisica, swap, archivo, cliente, pedido,
              confirmacion, volcado, cpu, respuesta>>

TablaVacia == [i \in Paginas |-> SinMarco]
SinProceso == [tamanio |-> -1, tabla |-> TablaVacia]
Hay(diccionario, pid) == diccionario[pid] # SinProceso

\* inicializar_memoria and inicializar_sincronizacion.
Init ==
    /\ marcos_libres = Marcos
    /\ procesos_activos = [p \in Pids |-> SinProceso]
    /\ procesos_suspendidos = [p \in Pids |-> SinProceso]
    /\ memoria_fisica = [b \in Bytes |-> 0]
    /\ swap = <<>>
    /\ archivo_instrucciones = <<>> /\ sem_archivo_listo = 0
    /\ envio_pendiente = TRUE /\ pedidos_restantes = MaxPedidos
    /\ pedido = Nada /\ volcado = Nada /\ respuesta = Nada
    /\ confirmacion = SinConfirmar
    /\ cpu = [fase |-> "esperando_archivo", op |-> "nada", pid |-> 0, dir |-> 0,
              valor |-> 0, fisica |-> 0]

----------------------------------------------------------------------------
(* Requests of the kernel.                                                  *)

\* The process a request is about.
Destino(q) == IF q.op = "ENVIO_ARCHIVO_KERNEL" THEN 0 ELSE Leido(q.pid)

\* recibir_operacion on the kernel's socket: whatever the CPU's thread is doing,
\* the process it is accessing included.
RecibirPedido ==
    /\ pedido = Nada /\ pedidos_restantes > 0
    /\ \E q \in Pedidos :
          /\ q.op \in Operaciones
          /\ q.op = "ENVIO_ARCHIVO_KERNEL" => envio_pendiente
          /\ PidsNuevos /\ q.op \in {"ENVIO_ARCHIVO_KERNEL", "CREAR_PROCESO"} =>
                ~ Hay(procesos_activos, Destino(q)) /\ ~ Hay(procesos_suspendidos, Destino(q))
          /\ pedido' = q
          /\ envio_pendiente' = (envio_pendiente /\ q.op # "ENVIO_ARCHIVO_KERNEL")
    /\ pedidos_restantes' = pedidos_restantes - 1
    /\ confirmacion' = IF pedido'.op = "CREAR_PROCESO" THEN confirmacion ELSE SinConfirmar
    /\ volcado' = Nada
    /\ UNCHANGED <<marcos_libres, procesos, memoria_fisica, swap, archivo_instrucciones,
                   sem_archivo_listo, cpu, respuesta>>

Confirmar(tam, ok) ==
    /\ confirmacion' = [op |-> pedido.op, tam |-> tam, ok |-> ok]
    /\ pedido' = Nada

\* ceil((double)tamanio / TAM_PAGINA).
MarcosNecesarios(tam) == (tam + TAM_PAGINA - 1) \div TAM_PAGINA

\* The two tests on contar_marcos_libres(): the one that promises room and the
\* one that creates (mutant: off by one, it refuses the last frame).
HayEspacio(n)        == Cardinality(marcos_libres) >= n
FaltanMarcosDeMas(n) == Cardinality(marcos_libres) <= n
FaltanMarcos(n)      == Cardinality(marcos_libres) < n

\* n calls of asignar_marco_libre: the lowest free frames, in order (mutant:
\* the flags are not looked at).
PrimerosMarcos(n) == {[i \in 0..n - 1 |-> i]}
PrimerosLibres(n) ==
    {f \in [0..n - 1 -> marcos_libres] :
        /\ \A i, j \in 0..n - 1 : i < j => f[i] < f[j]
        /\ \A m \in marcos_libres : (\E i \in 0..n - 1 : f[i] > m) => \E i \in 0..n - 1 : f[i] = m}

\* buscar_entrada_pagina and the assignments to the entry it returns (mutant:
\* the last page is forgotten).
TablaSinUltima(f) == [i \in Paginas |-> IF i + 1 \in DOMAIN f THEN f[i] ELSE SinMarco]
TablaCon(f) == [i \in Paginas |-> IF i \in DOMAIN f THEN f[i] ELSE SinMarco]

\* The frames liberar_tabla_paginas returns (mutant: the entry is not checked).
MarcosSinMirar(tabla) == {tabla[i] : i \in Paginas}
MarcosDe(tabla)       == {tabla[i] : i \in Paginas} \ {SinMarco}

\* The key a process is filed under (mutant: the pid is not used, as when it is
\* numbered by a local variable).
ClaveCero(pid) == 0
Clave(pid)     == pid

\* dictionary_put of a process with the frames of f.
CrearCon(pid, tam, f) ==
    /\ marcos_libres' = marcos_libres \ {f[i] : i \in DOMAIN f}
    /\ procesos_activos' =
          [procesos_activos EXCEPT ![Clave(pid)] = [tamanio |-> tam, tabla |-> TablaCon(f)]]

\* procesar_consultar_espacio.
ConsultarEspacio ==
    /\ pedido.op = "CONSULTAR_ESPACIO"
    /\ LET tam == Leido(pedido.tam) IN
          Confirmar(tam, HayEspacio(MarcosNecesarios(tam)))
    /\ UNCHANGED <<marcos_libres, procesos, memoria_fisica, swap, archivo, cliente, volcado, cpu,
                   respuesta>>

\* procesar_crear_proceso; size 0 takes no frame and is never refused.
CrearProceso ==
    /\ pedido.op = "CREAR_PROCESO"
    /\ LET tam == Leido(pedido.tam)
           n   == MarcosNecesarios(tam) IN
          \/ /\ FaltanMarcos(n)
             /\ Confirmar(tam, FALSE)
             /\ UNCHANGED <<marcos_libres, procesos_activos>>
          \/ /\ ~ FaltanMarcos(n)
             /\ \E f \in PrimerosLibres(n) : CrearCon(Leido(pedido.pid), tam, f)
             /\ Confirmar(tam, TRUE)
    /\ UNCHANGED <<procesos_suspendidos, memoria_fisica, swap, archivo, cliente, volcado, cpu,
                   respuesta>>

\* procesar_envio_archivo_kernel before the process exists: no such file, or
\* no room.  Its pid is always 0, because ultimo_pid is a local variable.
RechazarArchivo ==
    /\ pedido.op = "ENVIO_ARCHIVO_KERNEL"
    /\ pedido.archivo = Inexistente \/ FaltanMarcos(MarcosNecesarios(pedido.tam))
    /\ Confirmar(pedido.tam, FALSE)
    /\ UNCHANGED <<marcos_libres, procesos, memoria_fisica, swap, archivo, cliente, volcado, cpu,
                   respuesta>>

\* An empty file: the process is put in the dictionary and finished again, so
\* its frames come back and process 0, whichever it was, is gone.
ArchivoVacio ==
    /\ pedido.op = "ENVIO_ARCHIVO_KERNEL"
    /\ pedido.archivo = <<>> /\ ~ FaltanMarcos(MarcosNecesarios(pedido.tam))
    /\ procesos_activos' = [procesos_activos EXCEPT ![0] = SinProceso]
    /\ archivo_instrucciones' = <<>>
    /\ Confirmar(pedido.tam, FALSE)
    /\ UNCHANGED <<marcos_libres, procesos_suspendidos, memoria_fisica, swap,
                   sem_archivo_listo, cliente, volcado, cpu, respuesta>>

\* The file is loaded and sem_archivo_listo posted.
CargarArchivo ==
    /\ pedido.op = "ENVIO_ARCHIVO_KERNEL"
    /\ pedido.archivo \notin {Inexistente, <<>>}
    /\ ~ FaltanMarcos(MarcosNecesarios(pedido.tam))
    /\ \E f \in PrimerosLibres(MarcosNecesarios(pedido.tam)) : CrearCon(0, pedido.tam, f)
    /\ archivo_instrucciones' = pedido.archivo
    /\ sem_archivo_listo' = sem_archivo_listo + 1
    /\ Confirmar(pedido.tam, TRUE)
    /\ UNCHANGED <<procesos_suspendidos, memoria_fisica, swap, cliente, volcado,
                   cpu, respuesta>>

\* finalizar_proceso: looks in procesos_activos only, and answers nothing.
FinalizarProceso ==
    /\ pedido.op = "FINALIZAR_PROCESO"
    /\ LET pid == Leido(pedido.pid) IN
          /\ marcos_libres' = marcos_libres \cup MarcosDe(procesos_activos[pid].tabla)
          /\ procesos_activos' = [procesos_activos EXCEPT ![pid] = SinProceso]
    /\ pedido' = Nada
    /\ UNCHANGED <<procesos_suspendidos, memoria_fisica, swap, archivo, cliente, confirmacion,
                   volcado, cpu, respuesta>>

----------------------------------------------------------------------------
(* Swap, suspension and dump.                                               *)

\* Where a page is in the swap file (mutant: pages are one byte apart).
PosicionSinTamanio(pid, pagina) == pid * 1000 + pagina
Posicion(pid, pagina)           == pid * 1000 + pagina * TAM_PAGINA

ByteDe(tabla, pagina, k) == memoria_fisica[tabla[pagina] * TAM_PAGINA + k]

\* The swap file after escribir_pagina_swap on each of some pages.
SwapCon(pid, tabla, paginas) ==
    LET Escritos == {<<i, k>> : i \in paginas, k \in 0..TAM_PAGINA - 1}
        Lugar(e) == Posicion(pid, e[1]) + e[2] IN
    [b \in DOMAIN swap \cup {Lugar(e) : e \in Escritos} |->
        IF \E e \in Escritos : Lugar(e) = b
        THEN LET e == CHOOSE e \in Escritos : Lugar(e) = b IN ByteDe(tabla, e[1], e[2])
        ELSE swap[b]]

\* leer_pagina_swap: a hole reads as 0, a page past the end fails and the dump
\* writes zeros in its place.
LeerSwap(pid, pagina) ==
    [k \in 0..TAM_PAGINA - 1 |->
        IF Posicion(pid, pagina) + k \in DOMAIN swap THEN swap[Posicion(pid, pagina) + k] ELSE 0]

\* The pages escribir_pagina_swap manages to write; its result is not looked at.
Volcables(tabla) ==
    LET presentes == {i \in Paginas : tabla[i] # SinMarco} IN
    IF SwapPuedeFallar THEN SUBSET presentes ELSE {presentes}

\* suspender_proceso; the answer is true even when there is no such process.
SuspenderProceso ==
    /\ pedido.op = "SUSPENDER_PROCESO"
    /\ LET pid     == Leido(pedido.pid)
           proceso == procesos_activos[pid] IN
          \/ /\ Hay(procesos_activos, pid)
             /\ \E paginas \in Volcables(proceso.tabla) : swap' = SwapCon(pid, proceso.tabla, paginas)
             /\ marcos_libres' = marcos_libres \cup MarcosDe(proceso.tabla)
             /\ procesos_activos' = [procesos_activos EXCEPT ![pid] = SinProceso]
             /\ procesos_suspendidos' =
                   [procesos_suspendidos EXCEPT
                       ![pid] = [tamanio |-> proceso.tamanio, tabla |-> TablaVacia]]
          \/ /\ ~ Hay(procesos_activos, pid)
             /\ UNCHANGED <<swap, marcos_libres, procesos>>
    /\ Confirmar(0, TRUE)
    /\ UNCHANGED <<memoria_fisica, archivo, cliente, volcado, cpu, respuesta>>

\* reactivar_proceso: moves the process back, and none of its pages.
ReactivarProceso ==
    /\ pedido.op = "REACTIVAR_PROCESO"
    /\ LET pid == Leido(pedido.pid) IN
          \/ /\ Hay(procesos_suspendidos, pid)
             /\ procesos_activos' = [procesos_activos EXCEPT ![pid] = procesos_suspendidos[pid]]
             /\ procesos_suspendidos' = [procesos_suspendidos EXCEPT ![pid] = SinProceso]
          \/ ~ Hay(procesos_suspendidos, pid) /\ UNCHANGED procesos
    /\ Confirmar(0, TRUE)
    /\ UNCHANGED <<marcos_libres, memoria_fisica, swap, archivo, cliente, volcado, cpu,
                   respuesta>>

\* calcular_tamano_proceso: every entry of the table counts, assigned or not.
TamanoVolcado(proceso) ==
    IF proceso.tamanio = 0 THEN 0 ELSE ENTRADAS_POR_TABLA * TAM_PAGINA

\* A page of the dump, from memory or from swap.
PaginaVolcada(pid, tabla, i) ==
    [k \in 0..TAM_PAGINA - 1 |->
        IF tabla[i] # SinMarco THEN ByteDe(tabla, i, k) ELSE LeerSwap(pid, i)[k]]

\* The process dump_proceso finds: the active one of that pid, or the suspended.
ProcesoVolcado(pid) == IF Hay(procesos_activos, pid) THEN procesos_activos[pid]
                                                     ELSE procesos_suspendidos[pid]

\* dump_proceso up to its call to volcar_memoria_proceso.
DumpProceso ==
    /\ pedido.op = "DUMP_MEMORY" /\ volcado = Nada
    /\ LET pid == Leido(pedido.pid) IN
          \/ /\ ProcesoVolcado(pid) # SinProceso
             /\ volcado' = [op |-> "DUMP_MEMORY", pid |-> pid,
                            tamano |-> TamanoVolcado(ProcesoVolcado(pid)),
                            hechas |-> 0, paginas |-> <<>>]
             /\ UNCHANGED <<pedido, confirmacion>>
          \/ volcado' = Nada /\ Confirmar(0, FALSE)   \* no such process, or fopen fails
    /\ UNCHANGED <<marcos_libres, procesos, memoria_fisica, swap, archivo, cliente, cpu, respuesta>>

\* The dump file with one more page.
ConPagina(pagina) ==
    [op |-> "DUMP_MEMORY", pid |-> volcado.pid, tamano |-> volcado.tamano,
     hechas |-> volcado.hechas + 1,
     paginas |-> [i \in 0..volcado.hechas |->
                     IF i = volcado.hechas THEN pagina ELSE volcado.paginas[i]]]

\* One turn of volcar_memoria_proceso; mutex_procesos is held, but the CPU's copies
\* do not take it.  After the last page the kernel is answered.
VolcarPagina ==
    /\ pedido.op = "DUMP_MEMORY" /\ volcado # Nada
    /\ volcado' = ConPagina(PaginaVolcada(volcado.pid, ProcesoVolcado(volcado.pid).tabla,
                                          volcado.hechas))
    /\ \/ volcado'.hechas = ENTRADAS_POR_TABLA /\ Confirmar(0, TRUE)
       \/ volcado'.hechas < ENTRADAS_POR_TABLA /\ UNCHANGED <<pedido, confirmacion>>
    /\ UNCHANGED <<marcos_libres, procesos, memoria_fisica, swap, archivo, cliente, cpu, respuesta>>

----------------------------------------------------------------------------
(* The cpu thread.                                                          *)

\* sem_wait(&sem_archivo_listo) returns and ARCHIVO_LISTO is sent.
ArchivoListo ==
    /\ cpu.fase = "esperando_archivo" /\ sem_archivo_listo > 0
    /\ sem_archivo_listo' = sem_archivo_listo - 1
    /\ cpu' = [cpu EXCEPT !.fase = "lista"]
    /\ UNCHANGED <<marcos_libres, procesos, memoria_fisica, swap, archivo_instrucciones,
                   cliente, pedido, confirmacion, volcado, respuesta>>

\* entregar_linea: NULL at the end of the file and at a blank line alike.
HayLinea == archivo_instrucciones # <<>> /\ Head(archivo_instrucciones) # "blanco"

\* procesar_solicitud_instruccion.  Without a line the thread sends EXIT and
\* ends.  The file is open here: only this step closes it.
SolicitudInstruccion ==
    /\ cpu.fase = "lista"
    /\ \/ /\ HayLinea
          /\ archivo_instrucciones' = Tail(archivo_instrucciones)
          /\ respuesta' = [op |-> "PAQUETE"]
          /\ UNCHANGED cpu
       \/ /\ ~ HayLinea
          /\ archivo_instrucciones' = <<>>
          /\ respuesta' = [op |-> "EXIT"]
          /\ cpu' = [cpu EXCEPT !.fase = "cerrada"]
    /\ UNCHANGED <<marcos_libres, procesos, memoria_fisica, swap, sem_archivo_listo,
                   cliente, pedido, confirmacion, volcado>>

\* The frame traducir_direccion finds for an address; pagina_virtual is taken
\* modulo ENTRADAS_POR_TABLA, so the page is always one of the table's.
MarcoDePagina(pid, dir) ==
    procesos_activos[pid].tabla[(dir \div TAM_PAGINA) % ENTRADAS_POR_TABLA]

\* The address it returns then.
Traducir(pid, dir) == MarcoDePagina(pid, dir) * TAM_PAGINA + (dir % TAM_PAGINA)

\* The process is in the dictionary and its entry is present.
PaginaPresente(pid, dir) == MarcoDePagina(pid, dir) # SinMarco

\* The kernel thread may be inside dictionary_put or dictionary_remove.
CambiandoDiccionario ==
    pedido.op \in {"ENVIO_ARCHIVO_KERNEL", "CREAR_PROCESO", "FINALIZAR_PROCESO",
                   "SUSPENDER_PROCESO", "REACTIVAR_PROCESO"}

\* The kernel thread may be inside finalizar_proceso or suspender_proceso, of a
\* process looked up before dictionary_remove.  An empty file finishes the process
\* it has just put in the dictionary.
Liberando(pid) ==
    /\ pedido # Nada /\ Destino(pedido) = pid
    /\ \/ pedido.op \in {"FINALIZAR_PROCESO", "SUSPENDER_PROCESO"} /\ Hay(procesos_activos, pid)
       \/ pedido.op = "ENVIO_ARCHIVO_KERNEL" /\ pedido.archivo = <<>>

\* What the entry gives then: anything once it has been freed; marco = -1 if
\* suspender_proceso clears it after presente is read.  TAM_MEMORIA stands for all
\* the addresses out of memory, negative ones included, and Perdidas for anything.
FisicaPerdida == IF pedido.op = "SUSPENDER_PROCESO" THEN {TAM_MEMORIA} ELSE Perdidas

\* procesar_lectura and procesar_escritura up to the delay.  Without a
\* translation nothing is answered.
PedirAcceso ==
    /\ cpu.fase = "lista"
    /\ \E pid \in Pids, dir \in Direcciones, op \in {"LECTURA_MEMORIA", "ESCRITURA_MEMORIA"},
          valor \in Valores :
          \/ \E fisica \in (IF PaginaPresente(pid, dir) THEN {Traducir(pid, dir)} ELSE {})
                            \cup (IF Liberando(pid) THEN FisicaPerdida ELSE {}) :
                cpu' = [fase |-> "acceso", op |-> op, pid |-> pid, dir |-> dir, valor |-> valor,
                        fisica |-> fisica]
          \/ (~ PaginaPresente(pid, dir) \/ CambiandoDiccionario) /\ UNCHANGED cpu
    /\ respuesta' = Nada
    /\ UNCHANGED <<marcos_libres, procesos, memoria_fisica, swap, archivo, cliente, pedido,
                   confirmacion, volcado>>

\* leer_memoria and escribir_memoria refuse an int that ends past TAM_MEMORIA.
EnMemoria   == cpu.fisica + TAM_INT <= TAM_MEMORIA
Responder(v) ==
    /\ respuesta' = [op |-> cpu.op, pid |-> cpu.pid, dir |-> cpu.dir, valor |-> v]
    /\ cpu' = [cpu EXCEPT !.fase = "lista", !.op = "nada", !.pid = 0, !.dir = 0, !.valor = 0,
                          !.fisica = 0]

\* The copy of procesar_lectura, after the delay; a refused one reads as 0.
CompletarLectura ==
    /\ cpu.fase = "acceso" /\ cpu.op = "LECTURA_MEMORIA"
    /\ Responder([k \in Enteros |-> IF EnMemoria THEN memoria_fisica[cpu.fisica + k] ELSE 0])
    /\ UNCHANGED <<marcos_libres, procesos, memoria_fisica, swap, archivo, cliente, pedido,
                   confirmacion, volcado>>

\* The copy of procesar_escritura, after the delay; a refused one is answered
\* like any other.
CompletarEscritura ==
    /\ cpu.fase = "acceso" /\ cpu.op = "ESCRITURA_MEMORIA"
    /\ memoria_fisica' =
          [b \in Bytes |-> IF EnMemoria /\ b \in cpu.fisica..cpu.fisica + TAM_INT - 1
                           THEN cpu.valor ELSE memoria_fisica[b]]
    /\ Responder([k \in Enteros |-> cpu.valor])
    /\ UNCHANGED <<marcos_libres, procesos, swap, archivo, cliente, pedido, confirmacion, volcado>>

\* recibir_operacion returns -1: the CPU has gone.
CpuDesconectada ==
    /\ cpu.fase = "lista"
    /\ cpu' = [cpu EXCEPT !.fase = "cerrada"]
    /\ respuesta' = Nada
    /\ UNCHANGED <<marcos_libres, procesos, memoria_fisica, swap, archivo, cliente, pedido,
                   confirmacion, volcado>>

----------------------------------------------------------------------------
AtenderKernel ==
    \/ RecibirPedido \/ ConsultarEspacio \/ CrearProceso \/ RechazarArchivo \/ ArchivoVacio
    \/ CargarArchivo \/ FinalizarProceso \/ SuspenderProceso \/ ReactivarProceso \/ DumpProceso
    \/ VolcarPagina
AtenderCpu ==
    \/ ArchivoListo \/ SolicitudInstruccion \/ PedirAcceso \/ CompletarLectura
    \/ CompletarEscritura \/ CpuDesconectada

Next == AtenderKernel \/ AtenderCpu
Spec == Init /\ [][Next]_vars
=============================================================================
