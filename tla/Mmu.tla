-------------------------------- MODULE Mmu --------------------------------
(***************************************************************************)
(* The CPU's accesses to memory: the WRITE and READ of cpu/src/cpu.c over  *)
(* the page cache, the TLB and the page table that memory keeps            *)
(* (cpu/src/mmu.c).  An access goes through phases, one per exchange with  *)
(* memory, which the CPU waits for with recv:                              *)
(*                                                                         *)
(*   libre -> tlb -> tabla -> pagina -> desalojo -> acceso -> libre        *)
(*                                                                         *)
(* Memory is external: src/memoria has no handler for the requests of      *)
(* mmu.c and cache.c, so what they mean is taken from how the CPU uses     *)
(* them.  It answers or fails; the page table does not change while the    *)
(* process lives.  An address is its page and whether the datum fits in    *)
(* what is left of the page; a frame stands for its address, so frame 0 is *)
(* NULL.  The sizes of page of cache.h and of the configuration agree.     *)
(***************************************************************************)
EXTENDS Tlb, CachePaginas

CONSTANTS
    Pids, Paginas, Marcos,     \* Marcos: the frames, 0 among them
    MarcoDe,                   \* the page table of each process, in memory
    CANTIDAD_NIVELES, ENTRADAS_POR_TABLA,
    Valores,                   \* bound: the contents a page may have
    Configuraciones,           \* the ENTRADAS_ and REEMPLAZO_ keys of cpu.config
    MAX_RELOJ                  \* bound on the clock of time(NULL), in seconds

SinMarco    == -1
Instantes   == 0..MAX_RELOJ
Direcciones == Pids \X Paginas

ASSUME SupuestoMemoria ==
    /\ Marcos \subseteq Nat /\ 0 \in Marcos
    /\ Pids \subseteq Nat /\ Paginas \subseteq Nat
    /\ MarcoDe \in [Direcciones -> Marcos \cup {SinMarco}]
    /\ \A d, e \in Direcciones : MarcoDe[d] = MarcoDe[e] /\ MarcoDe[d] # SinMarco => d = e
    /\ Ceros \in Valores
    /\ CANTIDAD_NIVELES \in Nat \ {0} /\ ENTRADAS_POR_TABLA \in Nat \ {0}
ASSUME SupuestoConfiguracion ==
    /\ Configuraciones \subseteq [entradas_tlb : Nat, reemplazo_tlb : {"FIFO", "LRU"},
                                  entradas_cache : Nat, reemplazo_cache : {"CLOCK", "CLOCK-M"}]
    /\ MAX_RELOJ \in Nat

VARIABLES
    config,                  \* cpu.config, read once
    tlb, contador_orden,
    recientes,               \* history: the pages entered in the TLB since contador_orden
                             \*   was last put back to 0
    cache, puntero_clock,
    reloj,                   \* time(NULL)
    pcb_en_ejecucion,        \* its pid
    acceso,                  \* the instruction in progress and its phase
    memoria_fisica,          \* external: the contents of each frame
    terminados,              \* history: the pids that ended
    escrito,                 \* history: what each process last wrote in each page
    perdidas                 \* history: the pages whose last write did not survive

tablas   == <<tlb, contador_orden, recientes, cache, puntero_clock>>
historia == <<terminados, escrito, perdidas>>
vars     == <<config, tablas, reloj, pcb_en_ejecucion, acceso, memoria_fisica, historia>>

ConCache == cache_habilitada(cache)
Pid      == pcb_en_ejecucion
Pagina   == acceso.pagina
EnCurso  == <<Pid, Pagina>>
\* Of a lost page nothing is remembered.
Recordado(paginas, perdida) == [d \in Direcciones |-> IF d \in perdida THEN Ceros ELSE paginas[d]]
Duenos(marcos) == {d \in Direcciones : MarcoDe[d] \in marcos}

Reposo == [fase |-> "libre", tipo |-> "NOOP", pagina |-> 0, cabe |-> TRUE, valor |-> Ceros,
           marco |-> NULL, contenido |-> Ceros, victima |-> 0]

\* main and iniciar_MMU, before the first PCB.
Init ==
    /\ config \in Configuraciones
    /\ tlb = <<>> /\ contador_orden = 0 /\ recientes = {}
    /\ cache = inicializar_cache(config.entradas_cache) /\ puntero_clock = 0
    /\ reloj = 0
    /\ pcb_en_ejecucion = 0
    /\ acceso = [Reposo EXCEPT !.fase = "sin_pcb"]
    /\ memoria_fisica = [m \in Marcos |-> Ceros]
    /\ terminados = {} /\ perdidas = {}
    /\ escrito = [d \in Direcciones |-> Ceros]

----------------------------------------------------------------------------
(* iniciar_cpu: the process in the CPU.                                     *)

RecibirPcb ==
    /\ acceso.fase = "sin_pcb"
    /\ pcb_en_ejecucion' \in Pids \ terminados
    /\ acceso' = Reposo
    /\ UNCHANGED <<config, tablas, reloj, memoria_fisica, historia>>

\* The PCB goes back to the kernel; the process's entries stay.
DevolverPcb ==
    /\ acceso.fase = "libre"
    /\ acceso' = [Reposo EXCEPT !.fase = "sin_pcb"]
    /\ UNCHANGED <<config, tablas, reloj, pcb_en_ejecucion, memoria_fisica, historia>>

\* PROCESS_EXIT: limpiar_tlb_proceso evicts the process with descriptor 0, on
\* which nothing can be sent, and clears modificado all the same; the eviction
\* that iniciar_cpu then asks for with memory's socket finds nothing.
FinDeProceso ==
    /\ acceso.fase = "libre"
    /\ tlb' \in eliminar_entradas_proceso(tlb, Pid)
    /\ cache' = Desalojar(cache, Pid)
    /\ terminados' = terminados \cup {Pid}
    /\ perdidas' = perdidas \cup {<<Pid, cache[i].pagina>> :
                       i \in {j \in DOMAIN cache : cache[j].pid = Pid /\ cache[j].modificado}}
    /\ escrito' = Recordado(escrito, perdidas')
    /\ acceso' = [Reposo EXCEPT !.fase = "sin_pcb"]
    /\ UNCHANGED <<config, contador_orden, recientes, puntero_clock, reloj, pcb_en_ejecucion,
                   memoria_fisica>>

\* A second goes by; under FIFO nobody reads the time and it stands still.
Tic ==
    /\ config.reemplazo_tlb = "LRU" /\ reloj < MAX_RELOJ
    /\ reloj' = reloj + 1
    /\ UNCHANGED <<config, tablas, pcb_en_ejecucion, acceso, memoria_fisica, historia>>

----------------------------------------------------------------------------
(* WRITE and READ.                                                          *)

Instruccion(tipo, pagina, cabe, valor) ==
    [Reposo EXCEPT !.tipo = tipo, !.pagina = pagina, !.cabe = cabe, !.valor = valor]
Instrucciones ==
    {Instruccion("READ", p, c, Ceros) : p \in Paginas, c \in BOOLEAN}
    \cup {Instruccion("WRITE", p, c, v) : p \in Paginas, c \in BOOLEAN, v \in Valores}

\* escribir_en_cache or leer_de_cache on the entry of the page.
UsarEntrada(instruccion) ==
    LET i == Primera(cache, Pid, instruccion.pagina) IN
    IF instruccion.tipo = "WRITE"
    THEN /\ cache' = Escribir(cache, i, instruccion.valor)
         /\ escrito' = Recordado([escrito EXCEPT ![<<Pid, instruccion.pagina>>] = instruccion.valor],
                                 perdidas)
    ELSE cache' = Usar(cache, i) /\ UNCHANGED escrito

AccesoEnCache(instruccion) ==
    /\ EnCache(cache, Pid, instruccion.pagina) /\ instruccion.cabe
    /\ UsarEntrada(instruccion)
    /\ UNCHANGED <<acceso, tlb, contador_orden, recientes, puntero_clock, perdidas>>

\* The cache refuses what goes past the page; buscar_pagina_en_cache then gives
\* the frame, and the access is made in memory.
AccesoFueraDeLimites(instruccion) ==
    /\ EnCache(cache, Pid, instruccion.pagina) /\ ~instruccion.cabe
    /\ LET i == Primera(cache, Pid, instruccion.pagina) IN
       /\ cache' = Usar(cache, i)
       /\ acceso' = [instruccion EXCEPT !.fase = "acceso", !.marco = cache[i].marco]
    /\ UNCHANGED <<tlb, contador_orden, recientes, puntero_clock, escrito, perdidas>>

AccesoSinCache_SinBuscar(instruccion) ==
    /\ ~(EnCache(cache, Pid, instruccion.pagina) /\ instruccion.cabe)
    /\ acceso' = [instruccion EXCEPT !.fase = "tlb"]
    /\ UNCHANGED <<tablas, escrito, perdidas>>
AccesoSinCache(instruccion) ==
    /\ ~EnCache(cache, Pid, instruccion.pagina)
    /\ acceso' = [instruccion EXCEPT !.fase = "tlb"]
    /\ UNCHANGED <<tablas, escrito, perdidas>>

Ejecutar ==
    /\ acceso.fase = "libre"
    /\ \E instruccion \in Instrucciones :
          \/ AccesoEnCache(instruccion)
          \/ AccesoFueraDeLimites(instruccion)
          \/ AccesoSinCache(instruccion)
    /\ UNCHANGED <<config, reloj, pcb_en_ejecucion, memoria_fisica, terminados>>

\* obtener_direccion_fisica(_con_cache): the TLB, when there is one.
Traducida(marco) ==
    [acceso EXCEPT !.marco = marco, !.fase = IF ConCache THEN "pagina" ELSE "acceso"]
ConsultarTlb ==
    /\ acceso.fase = "tlb"
    /\ LET marco == IF config.entradas_tlb = 0 THEN NULL ELSE consultar_tlb(tlb, Pid, Pagina) IN
       IF marco = NULL
       THEN acceso' = [acceso EXCEPT !.fase = "tabla"] /\ UNCHANGED tlb
       ELSE /\ tlb' = TrasConsulta(tlb, Pid, Pagina, config.reemplazo_tlb, reloj)
            /\ acceso' = Traducida(marco)
    /\ UNCHANGED <<config, contador_orden, recientes, cache, puntero_clock, reloj,
                   pcb_en_ejecucion, memoria_fisica, historia>>

\* The entry of each level of the table that leads to a page.
calcular_entrada_nivel_Corrida(nro_pagina, nivel) ==
    (nro_pagina \div ENTRADAS_POR_TABLA ^ (CANTIDAD_NIVELES - nivel + 1)) % ENTRADAS_POR_TABLA
calcular_entrada_nivel(nro_pagina, nivel) ==
    (nro_pagina \div ENTRADAS_POR_TABLA ^ (CANTIDAD_NIVELES - nivel)) % ENTRADAS_POR_TABLA
EntradasDe(nro_pagina) ==
    [nivel \in 1..CANTIDAD_NIVELES |-> calcular_entrada_nivel(nro_pagina, nivel)]
\* external: operation 1, the page table, walked along the entries.
TablaDePaginas(pid, entradas) ==
    {SinMarco} \cup {MarcoDe[<<pid, pagina>>] : pagina \in {p \in Paginas : EntradasDe(p) = entradas}}
\* solicitar_direccion_fisica_multinivel: no answer, -1 and frame 0 are no frame.
RecibirMarco ==
    /\ acceso.fase = "tabla"
    /\ \E marco \in TablaDePaginas(Pid, EntradasDe(Pagina)) :
          IF marco \in {SinMarco, NULL}
          THEN acceso' = Reposo /\ UNCHANGED <<tlb, contador_orden, recientes>>
          ELSE /\ acceso' = Traducida(marco)
               /\ IF config.entradas_tlb = 0 THEN UNCHANGED <<tlb, contador_orden, recientes>>
                  ELSE /\ tlb' = actualizar_tlb(tlb, config.entradas_tlb, config.reemplazo_tlb,
                                                Pid, Pagina, marco, reloj, contador_orden)
                       /\ contador_orden' = IF Posiciones(tlb, Pid, Pagina) # {}
                                            THEN contador_orden ELSE SiguienteOrden(contador_orden)
                       /\ recientes' = IF Posiciones(tlb, Pid, Pagina) # {} THEN recientes
                                       ELSE IF contador_orden' = 0 THEN {}
                                       ELSE recientes \cup {EnCurso}
    /\ UNCHANGED <<config, cache, puntero_clock, reloj, pcb_en_ejecucion, memoria_fisica, historia>>

\* external: operation 5, a whole page.
LeerPagina(pid, pagina) == memoria_fisica[MarcoDe[<<pid, pagina>>]]
Cargar_EnCero(entradas, i, contenido) ==
    [entradas EXCEPT ![i] = Nueva(Pid, Pagina, acceso.marco, Ceros)]
Cargar(entradas, i, contenido) ==
    [entradas EXCEPT ![i] = Nueva(Pid, Pagina, acceso.marco, contenido)]

\* cargar_pagina_desde_memoria and cargar_pagina_en_cache, up to the write-back of
\* the victim.
RecibirPagina ==
    /\ acceso.fase = "pagina"
    /\ LET contenido == LeerPagina(Pid, Pagina)
           eleccion  == elegir_entrada(cache, puntero_clock, config.reemplazo_cache) IN
       /\ puntero_clock' = eleccion.puntero
       /\ IF eleccion.cache[eleccion.victima].modificado
          THEN /\ cache' = eleccion.cache
               /\ acceso' = [acceso EXCEPT !.fase = "desalojo", !.contenido = contenido,
                                           !.victima = eleccion.victima]
          ELSE /\ cache' = Cargar(eleccion.cache, eleccion.victima, contenido)
               /\ acceso' = [acceso EXCEPT !.fase = "acceso"]
    /\ UNCHANGED <<config, tlb, contador_orden, recientes, reloj, pcb_en_ejecucion, memoria_fisica,
                   historia>>

PaginaNoLlega ==
    /\ acceso.fase = "pagina"
    /\ acceso' = [acceso EXCEPT !.fase = "acceso"]
    /\ UNCHANGED <<config, tablas, reloj, pcb_en_ejecucion, memoria_fisica, historia>>

\* external: operations 2 and 4, a write in frames.
EscribirMarcos(marcos, valor) ==
    memoria_fisica' = [m \in Marcos |-> IF m \in marcos THEN valor ELSE memoria_fisica[m]]
\* escribir_pagina_a_memoria: the victim goes whether or not memory kept it.
Desalojo ==
    /\ acceso.fase = "desalojo"
    /\ LET victima == cache[acceso.victima] IN
       \/ EscribirMarcos({victima.marco}, victima.contenido) /\ UNCHANGED <<escrito, perdidas>>
       \/ /\ perdidas' = perdidas \cup {<<victima.pid, victima.pagina>>}
          /\ escrito' = Recordado(escrito, perdidas')
          /\ UNCHANGED memoria_fisica
    /\ cache' = Cargar(cache, acceso.victima, acceso.contenido)
    /\ acceso' = [acceso EXCEPT !.fase = "acceso"]
    /\ UNCHANGED <<config, tlb, contador_orden, recientes, puntero_clock, reloj, pcb_en_ejecucion,
                   terminados>>

\* The access itself, once there is a frame: in the cache if the page is there
\* and the datum fits, otherwise in memory.  A write that goes past the page goes
\* on in the next frame, and the copy in the cache, if any, does not see it.
AccederEnCache ==
    /\ acceso.fase = "acceso"
    /\ EnCache(cache, Pid, Pagina) /\ acceso.cabe
    /\ UsarEntrada(acceso)
    /\ acceso' = Reposo
    /\ UNCHANGED <<config, tlb, contador_orden, recientes, puntero_clock, reloj, pcb_en_ejecucion,
                   memoria_fisica, terminados, perdidas>>
\* escribir_en_memoria_simple; memory may refuse, or stop at the end of the frame.
AccederEnMemoria ==
    /\ acceso.fase = "acceso"
    /\ ~(EnCache(cache, Pid, Pagina) /\ acceso.cabe)
    /\ LET siguiente == IF acceso.cabe THEN {} ELSE {acceso.marco + 1} \cap Marcos IN
       \/ /\ acceso.tipo = "WRITE"
          /\ \E marcos \in {{acceso.marco}, {acceso.marco} \cup siguiente} :
                EscribirMarcos(marcos, acceso.valor)
          /\ perdidas' = perdidas \cup Duenos(siguiente)
                         \cup (IF EnCache(cache, Pid, Pagina) THEN {EnCurso} ELSE {})
          /\ escrito' = Recordado([escrito EXCEPT ![<<Pid, Pagina>>] = acceso.valor], perdidas')
       \/ UNCHANGED <<memoria_fisica, escrito, perdidas>>
    /\ acceso' = Reposo
    /\ UNCHANGED <<config, tablas, reloj, pcb_en_ejecucion, terminados>>

Next ==
    \/ RecibirPcb \/ DevolverPcb \/ FinDeProceso \/ Tic
    \/ Ejecutar \/ ConsultarTlb \/ RecibirMarco \/ RecibirPagina \/ PaginaNoLlega
    \/ Desalojo \/ AccederEnCache \/ AccederEnMemoria

Spec == Init /\ [][Next]_vars
=============================================================================
