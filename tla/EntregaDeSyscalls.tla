------------------------- MODULE EntregaDeSyscalls -------------------------
(***************************************************************************)
(* What the CPU and the kernel promise to a program: its lines run in      *)
(* their order, none skipped and none twice, and the kernel processes each *)
(* syscall among those run, once and in the order of the program.          *)
(***************************************************************************)
EXTENDS Integers, Sequences

CONSTANT Syscalls         \* the lines that are syscalls
VARIABLES
    programa,      \* its lines
    ejecutadas,    \* how many the CPU has run
    atendidas      \* the syscalls the kernel has processed, by their lines

vars == <<programa, ejecutadas, atendidas>>

Ultima == IF atendidas = <<>> THEN 0 ELSE atendidas[Len(atendidas)]

Init == ejecutadas = 0 /\ atendidas = <<>>

Ejecutar ==
    /\ ejecutadas < Len(programa)
    /\ ejecutadas' = ejecutadas + 1
    /\ UNCHANGED <<programa, atendidas>>

Atender ==
    /\ \E l \in Ultima + 1 .. ejecutadas :
          /\ programa[l] \in Syscalls
          /\ \A k \in Ultima + 1 .. l - 1 : programa[k] \notin Syscalls
          /\ atendidas' = Append(atendidas, l)
    /\ UNCHANGED <<programa, ejecutadas>>

Next == Ejecutar \/ Atender
Spec == Init /\ [][Next]_vars
=============================================================================
