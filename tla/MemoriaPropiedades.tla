------------------------- MODULE MemoriaPropiedades -------------------------
(***************************************************************************)
(* What memory is expected to do, and how it implements MemoriaPrivada.    *)
(***************************************************************************)
EXTENDS Memoria

\* The dictionaries, page tables, physical memory, swap, requests and the
\* access in progress hold values of their types.
ProcesoT == [tamanio : Nat \cup {-1}, tabla : [Paginas -> Marcos \cup {SinMarco}]]
CpuT     == [fase : {"esperando_archivo", "lista", "acceso", "cerrada"},
             op : {"nada", "LECTURA_MEMORIA", "ESCRITURA_MEMORIA"},
             pid : Pids, dir : Nat, valor : Celdas, fisica : Nat]
TypeOK ==
    /\ marcos_libres \subseteq Marcos
    /\ procesos_activos \in [Pids -> ProcesoT]
    /\ procesos_suspendidos \in [Pids -> ProcesoT]
    /\ memoria_fisica \in [Bytes -> Celdas]
    /\ DOMAIN swap \subseteq Nat /\ \A b \in DOMAIN swap : swap[b] \in Celdas
    /\ sem_archivo_listo \in Nat
    /\ envio_pendiente \in BOOLEAN
    /\ pedido \in Pedidos \cup {Nada}
    /\ confirmacion.ok \in BOOLEAN
    /\ cpu \in CpuT

\* Two pages, of one process or of two, never share a frame; no page is in a
\* frame that liberar_marco has given back, and a suspended process has none
\* (asignar_marco_libre, liberar_tabla_paginas, suspender_proceso).
UnDueno ==
    \A p, q \in Pids : \A i, j \in Paginas :
        /\ procesos_activos[p].tabla[i] = procesos_activos[q].tabla[j]
        /\ procesos_activos[p].tabla[i] # SinMarco
        => p = q /\ i = j
LibreSinDueno ==
    \A p \in Pids : \A i \in Paginas : procesos_activos[p].tabla[i] \notin marcos_libres
SuspendidoSinMarcos ==
    \A p \in Pids : \A i \in Paginas : procesos_suspendidos[p].tabla[i] = SinMarco
DuenoUnico == UnDueno /\ LibreSinDueno /\ SuspendidoSinMarcos

\* No frame is lost: one that is not free is in the page table of a process,
\* as long as no process is created with a pid in use.
SinFugas ==
    Marcos \ marcos_libres = UNION {MarcosDe(procesos_activos[p].tabla) : p \in Pids}

\* The access in progress has lost its process: the physical address computed
\* before the delay is no longer, or never was, that of its page.
AccesoTarde ==
    /\ cpu.fase = "acceso"
    /\ ~ (PaginaPresente(cpu.pid, cpu.dir) /\ cpu.fisica = Traducir(cpu.pid, cpu.dir))

\* The copy after the delay goes to the page that was translated, and to nobody
\* else's, unless the kernel asks memory to change that very process in the
\* meantime: no request about another process moves the page or gives its frame
\* away (procesar_lectura and procesar_escritura hold no mutex between
\* traducir_direccion and the copy).
MarcoAjeno(m, pid) ==
    \/ m \in marcos_libres
    \/ \E q \in Pids \ {pid} : \E i \in Paginas : procesos_activos[q].tabla[i] = m
AccesoPerdido ==
    AccesoTarde \/ (cpu.fase = "acceso" /\ MarcoAjeno(MarcoDePagina(cpu.pid, cpu.dir), cpu.pid))
SoloSuPedidoLoQuita ==
    [][ AccesoPerdido' /\ ~ AccesoPerdido
        => CambiandoDiccionario /\ Destino(pedido) = cpu'.pid ]_vars

\* A process that memory has said there is room for is not refused when it is
\* created by the next request (procesar_consultar_espacio counts and takes
\* nothing; procesar_crear_proceso counts again).
ConsultaVale ==
    [][ (/\ pedido.op = "CREAR_PROCESO" /\ pedido' = Nada
         /\ confirmacion.op = "CONSULTAR_ESPACIO" /\ confirmacion.ok
         /\ confirmacion.tam = Leido(pedido.tam))
        => confirmacion'.ok ]_vars

\* A process confirmed to the kernel has the size the kernel asked for.
CreadoConSuTamanio ==
    [][ (pedido.op = "CREAR_PROCESO" /\ pedido' = Nada /\ confirmacion'.ok)
        => procesos_activos'[pedido.pid].tamanio = pedido.tam ]_vars

\* An active process has all its pages in memory (reactivar_proceso: "vuelto a
\* memoria activa").
ActivoEnMemoria ==
    \A p \in Pids : \A i \in Paginas :
        i < MarcosNecesarios(procesos_activos[p].tamanio) => procesos_activos[p].tabla[i] # SinMarco

----------------------------------------------------------------------------
(* The bytes of a process are those of its frames, or of its pages in swap. *)
Existentes  == {p \in Pids : Hay(procesos_activos, p) \/ Hay(procesos_suspendidos, p)}
Registro(p) == IF Hay(procesos_activos, p) THEN procesos_activos[p] ELSE procesos_suspendidos[p]
ByteVirtual(p, pagina, k) ==
    IF Registro(p).tabla[pagina] # SinMarco
    THEN memoria_fisica[Registro(p).tabla[pagina] * TAM_PAGINA + k]
    ELSE LeerSwap(p, pagina)[k]
Extension(p) == MarcosNecesarios(Registro(p).tamanio) * TAM_PAGINA

\* A size arrives as text in the file's request, and in the others maybe not.
ExtensionesPosibles == {MarcosNecesarios(Leido(t)) * TAM_PAGINA : t \in Tamanios}
                       \cup {MarcosNecesarios(t) * TAM_PAGINA : t \in Tamanios}

\* What a client sees of memory, of the last answer and of the last dump.
BytesDe(p)     == [b \in 0..Extension(p) - 1 |->
                      ByteVirtual(p, b \div TAM_PAGINA, b % TAM_PAGINA)]
EspacioVisto   == [p \in Existentes |-> BytesDe(p)]
RespuestaVista == IF respuesta.op \in {"LECTURA_MEMORIA", "ESCRITURA_MEMORIA"}
                  THEN respuesta ELSE Nada
VolcadoVisto   == IF volcado = Nada THEN Nada
                  ELSE [pid      |-> volcado.pid,
                        completo |-> volcado.hechas = ENTRADAS_POR_TABLA,
                        bytes    |-> [b \in {b \in 0..Extension(volcado.pid) - 1 :
                                                b \div TAM_PAGINA < volcado.hechas} |->
                                         volcado.paginas[b \div TAM_PAGINA][b % TAM_PAGINA]]]

Privada == INSTANCE MemoriaPrivada WITH
    Extensiones <- ExtensionesPosibles, espacio <- EspacioVisto,
    respuesta <- RespuestaVista, volcado <- VolcadoVisto, tarde <- AccesoTarde

\* Whatever is created, suspended, brought back, dumped or finished, and in
\* whatever order with the CPU's accesses, each process reads what it wrote
\* itself, and finds in its dump what it had written when each page was dumped.
\* Excepted is an access whose process the kernel finishes or suspends before the
\* copy is made: that one reads, or writes, whatever is then in the frame.
CumpleMemoriaPrivada == Privada!Spec
=============================================================================
