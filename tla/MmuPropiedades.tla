--------------------------- MODULE MmuPropiedades ---------------------------
(***************************************************************************)
(* What the CPU's accesses to memory promise.                              *)
(***************************************************************************)
EXTENDS Mmu

Fases == {"sin_pcb", "libre", "tlb", "tabla", "pagina", "desalojo", "acceso"}
Entradas ==
    {Libre} \cup
    [ocupado : {TRUE}, pid : Pids, pagina : Paginas, marco : Marcos \ {NULL},
     usado : BOOLEAN, modificado : BOOLEAN, contenido : Valores]
Accesos ==
    [fase : Fases, tipo : {"NOOP", "WRITE", "READ"}, pagina : Paginas \cup {0}, cabe : BOOLEAN,
     valor : Valores, marco : Marcos, contenido : Valores, victima : Nat]

\* The variables keep to their sets; no table outgrows its configured size.
TypeOK ==
    /\ config \in Configuraciones
    /\ tlb \in Seq(EntradasTlb(Pids, Paginas, Marcos \ {NULL}, Instantes))
    /\ Len(tlb) <= config.entradas_tlb
    /\ contador_orden \in 0..INT_MAX /\ recientes \subseteq Direcciones
    /\ cache \in [0..config.entradas_cache - 1 -> Entradas]
    /\ puntero_clock \in 0..config.entradas_cache
    /\ reloj \in Instantes
    /\ pcb_en_ejecucion \in Pids \cup {0}
    /\ acceso \in Accesos
    /\ memoria_fisica \in [Marcos -> Valores]
    /\ terminados \subseteq Pids
    /\ escrito \in [Direcciones -> Valores]
    /\ perdidas \subseteq Direcciones

\* A page has at most one copy in the cache and one entry in the TLB:
\* cargar_pagina_en_cache does not look whether the page is already there.
SinDuplicados ==
    /\ \A i, j \in DOMAIN cache :
          cache[i].ocupado /\ cache[j].ocupado /\ cache[i].pid = cache[j].pid
             /\ cache[i].pagina = cache[j].pagina => i = j
    /\ \A i, j \in DOMAIN tlb : tlb[i].pid = tlb[j].pid /\ tlb[i].pagina = tlb[j].pagina => i = j

\* Every translation the CPU keeps is the one of the process's page table.
TraduccionFiel ==
    /\ \A i \in DOMAIN tlb : tlb[i].marco = MarcoDe[<<tlb[i].pid, tlb[i].pagina>>]
    /\ \A i \in DOMAIN cache : cache[i].ocupado => cache[i].marco = MarcoDe[<<cache[i].pid, cache[i].pagina>>]
    /\ acceso.fase \in {"pagina", "desalojo", "acceso"} => acceso.marco = MarcoDe[EnCurso]

\* What a process finds in a page: the copy in the cache before the frame.
Visible(d) ==
    IF EnCache(cache, d[1], d[2]) THEN cache[Primera(cache, d[1], d[2])].contenido
    ELSE memoria_fisica[MarcoDe[d]]
Mapeadas == {d \in Direcciones : MarcoDe[d] # SinMarco}

\* Through loads, evictions, write-backs and changes of process, a page shows
\* the last write that was made in it, unless it was lost: its write-back did not
\* reach memory, a write went past a page of which there was a copy, or its
\* process ended.
NadaSePierde == \A d \in Mapeadas \ perdidas : Visible(d) = escrito[d]

\* Nothing of a process that ended is left in the CPU's tables
\* (limpiar_tlb_proceso, desalojar_proceso_cache).
SinRastros ==
    /\ \A i \in DOMAIN tlb : tlb[i].pid \notin terminados
    /\ \A i \in DOMAIN cache : cache[i].pid \notin terminados

\* FIFO gives up the oldest entry of the TLB, which is the first of the list,
\* unless contador_orden went back to 0 while one of them was there: from then on
\* the entries it finds with a greater order are taken for newer, even after the
\* counter has caught up with them.
FifoSacaLaMasVieja ==
    [][ (/\ acceso.fase = "tabla" /\ config.reemplazo_tlb = "FIFO"
         /\ tlb' # tlb /\ Len(tlb) = config.entradas_tlb)
        => \/ SubSeq(tlb', 1, Len(tlb) - 1) = Tail(tlb)
           \/ \E i \in DOMAIN tlb : <<tlb[i].pid, tlb[i].pagina>> \notin recientes ]_vars

\* CLOCK-M writes a page back only when every page was modified, whatever the
\* use bits and the place of the hand.
ClockMProtegeModificadas ==
    [][ (/\ acceso.fase = "pagina" /\ acceso'.fase = "desalojo"
         /\ config.reemplazo_cache = "CLOCK-M")
        => \A i \in DOMAIN cache : cache[i].modificado ]_vars

\* CLOCK takes a page whose use bit is set only when all are set.
ClockSegundaOportunidad ==
    [][ (acceso.fase = "pagina" /\ config.reemplazo_cache = "CLOCK" /\ ConCache)
        => \A i \in DOMAIN cache :
              (/\ cache[i].ocupado /\ cache[i].usado
               /\ \/ <<cache'[i].pid, cache'[i].pagina>> # <<cache[i].pid, cache[i].pagina>>
                  \/ acceso'.fase = "desalojo" /\ acceso'.victima = i)
              => \A j \in DOMAIN cache : cache[j].usado ]_vars

\* The tables are transparent: the processes see the memory of MemoriaVirtual.
\* While an access is in progress, the loads, evictions and write-backs it takes
\* change no page; no process changes the pages of another.
EnMarcha == acceso.fase \in {"tlb", "tabla", "pagina", "desalojo", "acceso"}
Pedido(tipo, direccion, v) == [tipo |-> tipo, pagina |-> direccion, valor |-> v]
SinPedido == Pedido("NOOP", <<0, 0>>, Ceros)
PedidoVirtual == IF EnMarcha THEN Pedido(acceso.tipo, EnCurso, acceso.valor) ELSE SinPedido
ValorVirtual  == [d \in Mapeadas \ perdidas |-> Visible(d)]
Virtual == INSTANCE MemoriaVirtual WITH
    Direcciones <- Mapeadas, Ninguno <- SinPedido,
    proceso <- Pid, pedido <- PedidoVirtual, valor <- ValorVirtual
CumpleMemoriaVirtual == Virtual!Spec
=============================================================================
