-------------------------------- MODULE Tlb --------------------------------
(***************************************************************************)
(* The translation look-aside buffer of cpu/src/tlb.c: a list of entries,  *)
(* oldest first, since list_add appends.  Operators only; Mmu keeps the    *)
(* list.  A frame is its address, and NULL is 0: a translation to frame 0  *)
(* is read as no translation.                                              *)
(***************************************************************************)
EXTENDS Integers, Sequences, FiniteSets, SequencesExt

CONSTANT INT_MAX     \* the last value of contador_orden before it wraps

ASSUME SupuestoInt == INT_MAX \in Nat

NULL == 0

EntradasTlb(Pids, Paginas, Marcos, Instantes) ==
    [pid : Pids, pagina : Paginas, marco : Marcos, timestamp : Instantes,
     orden_insercion : 0..INT_MAX]

EsDe(entrada, pid, pagina) == entrada.pid = pid /\ entrada.pagina = pagina
Posiciones(tlb, pid, pagina) == {i \in DOMAIN tlb : EsDe(tlb[i], pid, pagina)}

\* consultar_tlb: the first entry of the page, whose timestamp LRU refreshes.
consultar_tlb(tlb, pid, pagina) ==
    IF Posiciones(tlb, pid, pagina) = {} THEN NULL
    ELSE LET i == CHOOSE i \in Posiciones(tlb, pid, pagina) :
                      \A j \in Posiciones(tlb, pid, pagina) : i <= j
         IN  tlb[i].marco
RefrescarPrimera(tlb, pid, pagina, ahora) ==
    [i \in DOMAIN tlb |->
        IF /\ i \in Posiciones(tlb, pid, pagina)
           /\ \A j \in Posiciones(tlb, pid, pagina) : i <= j
        THEN [tlb[i] EXCEPT !.timestamp = ahora] ELSE tlb[i]]
TrasConsulta(tlb, pid, pagina, algoritmo, ahora) ==
    IF algoritmo = "LRU" THEN RefrescarPrimera(tlb, pid, pagina, ahora) ELSE tlb

\* The first position with the least key (strict < while scanning).
PrimerMinimo(tlb, Clave(_)) ==
    CHOOSE i \in DOMAIN tlb :
        \A j \in DOMAIN tlb : \/ Clave(tlb[i]) < Clave(tlb[j])
                              \/ Clave(tlb[i]) = Clave(tlb[j]) /\ i <= j
encontrar_victima_fifo_MasNueva(tlb) == LET Orden(e) == -e.orden_insercion IN PrimerMinimo(tlb, Orden)
encontrar_victima_fifo(tlb) == LET Orden(e) == e.orden_insercion IN PrimerMinimo(tlb, Orden)
encontrar_victima_lru(tlb)  == LET Uso(e) == e.timestamp IN PrimerMinimo(tlb, Uso)

\* actualizar_tlb: in place when the page has an entry, otherwise at the end,
\* in the room of a victim when the list is full.
ConLugar_Tarde(tlb, max_entradas, algoritmo) ==
    IF Len(tlb) <= max_entradas THEN tlb ELSE Tail(tlb)
ConLugar(tlb, max_entradas, algoritmo) ==
    IF Len(tlb) < max_entradas THEN tlb
    ELSE RemoveAt(tlb, IF algoritmo = "FIFO" THEN encontrar_victima_fifo(tlb)
                       ELSE encontrar_victima_lru(tlb))
actualizar_tlb(tlb, max_entradas, algoritmo, pid, pagina, marco, ahora, contador_orden) ==
    IF Posiciones(tlb, pid, pagina) # {}
    THEN [i \in DOMAIN RefrescarPrimera(tlb, pid, pagina, ahora) |->
             LET e == RefrescarPrimera(tlb, pid, pagina, ahora)[i]
             IN  IF EsDe(e, pid, pagina) THEN [e EXCEPT !.marco = marco] ELSE e]
    ELSE Append(ConLugar(tlb, max_entradas, algoritmo),
                [pid |-> pid, pagina |-> pagina, marco |-> marco, timestamp |-> ahora,
                 orden_insercion |-> contador_orden])
\* contador_orden++, back to 0 when it becomes negative.
SiguienteOrden(contador_orden) == IF contador_orden = INT_MAX THEN 0 ELSE contador_orden + 1

\* eliminar_entradas_proceso: the list without the process's entries, in the same
\* order; the one member of this set.
eliminar_entradas_proceso(tlb, pid) ==
    LET Quedan == {i \in DOMAIN tlb : tlb[i].pid # pid} IN
    {[k \in DOMAIN lugar |-> tlb[lugar[k]]] :
        lugar \in {f \in [1..Cardinality(Quedan) -> Quedan] :
                      \A a, b \in DOMAIN f : a < b => f[a] < f[b]}}
=============================================================================
