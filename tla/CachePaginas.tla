---------------------------- MODULE CachePaginas ----------------------------
(***************************************************************************)
(* The page cache of cpu/src/cache.c: an array of entries and the hand of  *)
(* the clock.  Operators only; Mmu keeps the array.  The content of a page *)
(* is one value: what is written inside it replaces it.                    *)
(***************************************************************************)
EXTENDS Integers, FiniteSets

CONSTANT Ceros       \* the content memset leaves

Libre == [ocupado |-> FALSE, pid |-> -1, pagina |-> -1, marco |-> -1,
          usado |-> FALSE, modificado |-> FALSE, contenido |-> Ceros]
Nueva(pid, pagina, marco, contenido) ==
    [ocupado |-> TRUE, pid |-> pid, pagina |-> pagina, marco |-> marco,
     usado |-> TRUE, modificado |-> FALSE, contenido |-> contenido]

inicializar_cache(entradas) == [i \in 0..entradas - 1 |-> Libre]
cache_habilitada(cache)     == DOMAIN cache # {}

\* The entries that hold the page.
Ocupan(cache, pid, pagina) ==
    {i \in DOMAIN cache : cache[i].ocupado /\ cache[i].pid = pid /\ cache[i].pagina = pagina}
EnCache(cache, pid, pagina) == Ocupan(cache, pid, pagina) # {}
PrimerEntrada(S)            == CHOOSE i \in S : \A j \in S : i <= j
Primera(cache, pid, pagina) == PrimerEntrada(Ocupan(cache, pid, pagina))

\* buscar_pagina_en_cache and leer_de_cache set the use bit of what they find.
Usar(cache, i)        == [cache EXCEPT ![i].usado = TRUE]
\* escribir_en_cache, on the entry of the page.
Escribir_SinMarcar(cache, i, v) == [cache EXCEPT ![i].contenido = v, ![i].usado = TRUE]
Escribir(cache, i, v) == [cache EXCEPT ![i].contenido = v, ![i].modificado = TRUE,
                                       ![i].usado = TRUE]

----------------------------------------------------------------------------
(* Replacement.  Vuelta lists the entries from the hand; a lap looks at     *)
(* each once and leaves the hand after its victim.                          *)
Tamanio(cache)          == Cardinality(DOMAIN cache)
Vuelta(cache, puntero, k) == (puntero + k) % Tamanio(cache)
\* How many entries the hand passes before the first that Sirve, or all of them.
Pasadas(cache, puntero, Sirve(_)) ==
    LET Cerca == {k \in DOMAIN cache : Sirve(cache[Vuelta(cache, puntero, k)])} IN
    IF Cerca = {} THEN Tamanio(cache) ELSE PrimerEntrada(Cerca)
Eleccion(cache, victima) == [cache |-> cache, victima |-> victima,
                             puntero |-> Vuelta(cache, victima, 1)]

\* The use bits of the entries the hand passes are cleared; when all were set
\* the victim is the entry where it started.
seleccionar_victima_clock_Corrida(cache, puntero) ==
    LET SinUso(e) == ~e.usado
        n == Pasadas(cache, puntero, SinUso)
        Pasada(i) == \E k \in 0..n - 1 : i = Vuelta(cache, puntero, k)
    IN  Eleccion([i \in DOMAIN cache |->
                     IF Pasada(i) THEN [cache[i] EXCEPT !.usado = FALSE] ELSE cache[i]],
                 Vuelta(cache, puntero, n + 1))
seleccionar_victima_clock(cache, puntero) ==
    LET SinUso(e) == ~e.usado
        n == Pasadas(cache, puntero, SinUso)
        Pasada(i) == \E k \in 0..n - 1 : i = Vuelta(cache, puntero, k)
    IN  Eleccion([i \in DOMAIN cache |->
                     IF Pasada(i) THEN [cache[i] EXCEPT !.usado = FALSE] ELSE cache[i]],
                 Vuelta(cache, puntero, n))

\* One lap for an entry neither used nor modified; failing that every use bit is
\* cleared and a second lap looks for one not modified.
seleccionar_victima_clock_m_UnaVuelta(cache, puntero) ==
    LET SinUsoLimpia(e) == ~e.usado /\ ~e.modificado IN
    Eleccion([i \in DOMAIN cache |-> [cache[i] EXCEPT !.usado = FALSE]],
             Vuelta(cache, puntero, Pasadas(cache, puntero, SinUsoLimpia)))
seleccionar_victima_clock_m(cache, puntero) ==
    LET SinUsoLimpia(e) == ~e.usado /\ ~e.modificado
        Limpia(e) == ~e.modificado
        n == Pasadas(cache, puntero, SinUsoLimpia)
    IN  IF n < Tamanio(cache) THEN Eleccion(cache, Vuelta(cache, puntero, n))
        ELSE Eleccion([i \in DOMAIN cache |-> [cache[i] EXCEPT !.usado = FALSE]],
                      Vuelta(cache, puntero, Pasadas(cache, puntero, Limpia)))

\* cargar_pagina_en_cache: the first free entry, otherwise a victim.
Libres(cache) == {i \in DOMAIN cache : ~cache[i].ocupado}
elegir_entrada(cache, puntero, algoritmo) ==
    IF Libres(cache) # {}
    THEN [cache |-> cache, victima |-> PrimerEntrada(Libres(cache)), puntero |-> puntero]
    ELSE IF algoritmo = "CLOCK-M" THEN seleccionar_victima_clock_m(cache, puntero)
    ELSE seleccionar_victima_clock(cache, puntero)

\* desalojar_proceso_cache, once the process's modified pages were written back.
Desalojar_SoloLimpias(cache, pid) ==
    [i \in DOMAIN cache |-> IF cache[i].pid = pid /\ ~cache[i].modificado THEN Libre ELSE cache[i]]
Desalojar(cache, pid) ==
    [i \in DOMAIN cache |-> IF cache[i].ocupado /\ cache[i].pid = pid THEN Libre ELSE cache[i]]
=============================================================================
