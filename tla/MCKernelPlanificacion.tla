----------------------- MODULE MCKernelPlanificacion -----------------------
(***************************************************************************)
(* Instances of KernelPlanificacion for TLC: the answers of memory that    *)
(* the .cfg files choose from.                                             *)
(***************************************************************************)
EXTENDS KernelPlanificacionPropiedades

MCCualquierRespuesta == {TRUE, FALSE}
MCSiempreHayEspacio  == {TRUE}
=============================================================================
