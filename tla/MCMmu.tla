------------------------------- MODULE MCMmu -------------------------------
(***************************************************************************)
(* Instance of Mmu for TLC: two processes, one of them with a page in      *)
(* frame 0 and the other with two pages in consecutive frames.  Pages 2    *)
(* and 3 differ in the entry of the second of two levels.                  *)
(***************************************************************************)
EXTENDS MmuPropiedades, TLC

MCMarcoDe == (<<1, 2>> :> 1) @@ (<<1, 3>> :> 2) @@ (<<2, 2>> :> 3) @@ (<<2, 3>> :> 0)

Config(entradas_tlb, reemplazo_tlb, entradas_cache, reemplazo_cache) ==
    [entradas_tlb |-> entradas_tlb, reemplazo_tlb |-> reemplazo_tlb,
     entradas_cache |-> entradas_cache, reemplazo_cache |-> reemplazo_cache]
\* Each table alone, and both together.
MCConfiguraciones ==
    {Config(0, "FIFO", 2, "CLOCK"), Config(0, "FIFO", 2, "CLOCK-M"),
     Config(2, "LRU", 0, "CLOCK"), Config(2, "FIFO", 1, "CLOCK")}
=============================================================================
