--------------------------- MODULE MemoriaPrivada ---------------------------
(***************************************************************************)
(* What memory promises its clients: each process has bytes of its own,    *)
(* from the moment it is created until it is finished, that only its own   *)
(* writes change.  Frames, swap and suspension cannot be told from here.   *)
(* The bytes of a new process hold anything: frames are not cleared.       *)
(* The promise excepts an access that has lost its process (tarde).        *)
(***************************************************************************)
EXTENDS Integers

CONSTANTS
    Pids, Celdas, TAM_INT,
    Extensiones,    \* how many bytes a process may have
    Nada            \* no answer, no dump

VARIABLES
    espacio, respuesta,
    volcado,        \* the dump: whose it is, and the bytes it has so far
    tarde           \* the process of the access in progress has been taken from it
vars == <<espacio, respuesta, volcado, tarde>>

Init == espacio = <<>> /\ respuesta = Nada /\ volcado = Nada /\ tarde = FALSE

\* A late access to a pid is on time again if the new process has its frame.
Crear(p) ==
    /\ p \notin DOMAIN espacio
    /\ \E n \in Extensiones : \E bytes \in [0..n - 1 -> Celdas] :
          espacio' = [q \in DOMAIN espacio \cup {p} |-> IF q = p THEN bytes ELSE espacio[q]]
    /\ tarde' \in {tarde, FALSE}
    /\ UNCHANGED <<respuesta, volcado>>

Finalizar(p) ==
    /\ espacio' = [q \in DOMAIN espacio \ {p} |-> espacio[q]]
    /\ tarde' \in {tarde, TRUE}
    /\ UNCHANGED <<respuesta, volcado>>

\* A process is suspended under its access, or being taken away when it begins.
Extraviar ==
    /\ tarde' = TRUE /\ respuesta' \in {respuesta, Nada}
    /\ UNCHANGED <<espacio, volcado>>

Entero(dir) == dir..dir + TAM_INT - 1

Leer(p, dir) ==
    /\ ~ tarde /\ Entero(dir) \subseteq DOMAIN espacio[p]
    /\ respuesta' = [op |-> "LECTURA_MEMORIA", pid |-> p, dir |-> dir,
                     valor |-> [k \in 0..TAM_INT - 1 |-> espacio[p][dir + k]]]
    /\ UNCHANGED <<espacio, volcado, tarde>>

Escribir(p, dir, v) ==
    /\ ~ tarde /\ Entero(dir) \subseteq DOMAIN espacio[p]
    /\ espacio' = [espacio EXCEPT ![p] = [b \in DOMAIN @ |-> IF b \in Entero(dir) THEN v ELSE @[b]]]
    /\ respuesta' = [op |-> "ESCRITURA_MEMORIA", pid |-> p, dir |-> dir,
                     valor |-> [k \in 0..TAM_INT - 1 |-> v]]
    /\ UNCHANGED <<volcado, tarde>>

\* A late read returns anything; a late write may reach the bytes of anybody.
LeerTarde ==
    /\ tarde /\ tarde' = FALSE
    /\ respuesta'.op = "LECTURA_MEMORIA"
    /\ UNCHANGED <<espacio, volcado>>

Alcanzados(v) ==
    /\ DOMAIN espacio' = DOMAIN espacio
    /\ \A q \in DOMAIN espacio :
          /\ DOMAIN espacio'[q] = DOMAIN espacio[q]
          /\ \A b \in DOMAIN espacio[q] : espacio'[q][b] \in {espacio[q][b], v}

EscribirTarde(v) ==
    /\ tarde /\ tarde' = FALSE /\ Alcanzados(v)
    /\ respuesta'.op = "ESCRITURA_MEMORIA"
    /\ UNCHANGED volcado

Callar == respuesta' = Nada /\ UNCHANGED <<espacio, volcado, tarde>>

\* A dump is taken in parts, each of the bytes as they are then.
EmpezarVolcado(p) ==
    /\ volcado' = [pid |-> p, completo |-> FALSE, bytes |-> <<>>]
    /\ UNCHANGED <<espacio, respuesta, tarde>>

SeguirVolcado(p) ==
    /\ volcado # Nada /\ volcado.pid = p /\ ~ volcado.completo
    /\ \E mas \in SUBSET (DOMAIN espacio[p] \ DOMAIN volcado.bytes), fin \in BOOLEAN :
          /\ fin => DOMAIN volcado.bytes \cup mas = DOMAIN espacio[p]
          /\ volcado' = [pid |-> p, completo |-> fin,
                         bytes |-> [b \in DOMAIN volcado.bytes \cup mas |->
                                       IF b \in mas THEN espacio[p][b] ELSE volcado.bytes[b]]]
    /\ UNCHANGED <<espacio, respuesta, tarde>>

QuitarVolcado == volcado' = Nada /\ UNCHANGED <<espacio, respuesta, tarde>>

Next ==
    \/ Callar \/ QuitarVolcado \/ Extraviar \/ LeerTarde
    \/ \E v \in Celdas : EscribirTarde(v)
    \/ \E p \in Pids : Crear(p)
    \/ \E p \in DOMAIN espacio :
          \/ Finalizar(p) \/ EmpezarVolcado(p) \/ SeguirVolcado(p)
          \/ \E dir \in DOMAIN espacio[p] :
                Leer(p, dir) \/ \E v \in Celdas : Escribir(p, dir, v)

Spec == Init /\ [][Next]_vars
=============================================================================
