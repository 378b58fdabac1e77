---------------------------- MODULE CicloDeVida ----------------------------
(***************************************************************************)
(* What the kernel's scheduling promises about every process, whatever the *)
(* order its threads run in: a process is created once, enters READY once, *)
(* is given the CPU once, and only when the CPU runs nobody.  The states   *)
(* are those of estado_proceso_t that a process reaches.                   *)
(***************************************************************************)
CONSTANTS Procesos, NINGUNO   \* NINGUNO names no process

VARIABLES estado, enCpu
vars == <<estado, enCpu>>

Estados == {"SIN_CREAR", "NEW", "READY", "EXEC"}

Init == estado = [p \in Procesos |-> "SIN_CREAR"] /\ enCpu = NINGUNO

Pasar(p, de, a) == estado[p] = de /\ estado' = [estado EXCEPT ![p] = a]

Crear(p)     == Pasar(p, "SIN_CREAR", "NEW") /\ UNCHANGED enCpu
Admitir(p)   == Pasar(p, "NEW", "READY") /\ UNCHANGED enCpu
Despachar(p) == Pasar(p, "READY", "EXEC") /\ enCpu = NINGUNO /\ enCpu' = p
Liberar      == enCpu # NINGUNO /\ enCpu' = NINGUNO /\ UNCHANGED estado

Next == Liberar \/ \E p \in Procesos : Crear(p) \/ Admitir(p) \/ Despachar(p)

Spec == Init /\ [][Next]_vars
=============================================================================
