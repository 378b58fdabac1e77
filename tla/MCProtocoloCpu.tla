--------------------------- MODULE MCProtocoloCpu ---------------------------
(***************************************************************************)
(* Instance of ProtocoloCpu for TLC: every program of up to two lines, and *)
(* some longer ones with two or three syscalls, that free the CPU early or *)
(* end with an EXIT.                                                       *)
(***************************************************************************)
EXTENDS ProtocoloCpuPropiedades

MCProgramas ==
    UNION {[1..n -> Lineas] : n \in 0..2} \cup
    {<<"INIT_PROC", "comun", "EXIT">>, <<"IO", "INIT_PROC", "EXIT">>,
     <<"EXIT", "INIT_PROC", "EXIT">>, <<"EXIT", "comun", "IO", "EXIT">>}

\* A program with nothing out of the ordinary.
MCProgramaComun == {<<"INIT_PROC", "comun">>}
=============================================================================
