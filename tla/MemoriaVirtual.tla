--------------------------- MODULE MemoriaVirtual ---------------------------
(***************************************************************************)
(* What the processes should see through the CPU, without tables: each     *)
(* page holds one value, and it changes only by a write that its own       *)
(* process asked for, while it is in the CPU.  A page may be lost; then it *)
(* leaves valor, and nothing more is promised about it.                    *)
(***************************************************************************)
CONSTANTS Direcciones, Valores, Ninguno
VARIABLES
    proceso,     \* the process in the CPU
    pedido,      \* the access asked for and not yet made, or Ninguno
    valor        \* what each page not lost holds

vars == <<proceso, pedido, valor>>

Init ==
    /\ pedido = Ninguno
    /\ valor \in [Direcciones -> Valores]

Escrita(d, v) == [e \in DOMAIN valor |-> IF e = d THEN v ELSE valor[e]]
\* The pages that are left hold what `nuevo` gives them.
Queda(nuevo) ==
    /\ DOMAIN valor' \subseteq DOMAIN valor
    /\ valor' = [d \in DOMAIN valor' |-> nuevo[d]]

Cambiar ==
    /\ pedido = Ninguno
    /\ proceso' # proceso
    /\ UNCHANGED <<pedido, valor>>
Pedir ==
    /\ pedido = Ninguno
    /\ pedido' # Ninguno /\ pedido'.pagina[1] = proceso
    /\ UNCHANGED <<proceso, valor>>
\* A write that the CPU can make without asking memory.
EscribirYa ==
    /\ pedido = Ninguno
    /\ \E d \in DOMAIN valor, v \in Valores : d[1] = proceso /\ Queda(Escrita(d, v))
    /\ UNCHANGED <<proceso, pedido>>
\* The access is made, or refused.
Atender ==
    /\ pedido # Ninguno /\ pedido' = Ninguno
    /\ \/ pedido.tipo = "WRITE" /\ Queda(Escrita(pedido.pagina, pedido.valor))
       \/ Queda(valor)
    /\ UNCHANGED proceso
Perder ==
    /\ DOMAIN valor' # DOMAIN valor /\ Queda(valor)
    /\ UNCHANGED <<proceso, pedido>>

Next == Cambiar \/ Pedir \/ EscribirYa \/ Atender \/ Perder
Spec == Init /\ [][Next]_vars
=============================================================================
