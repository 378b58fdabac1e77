----------------------------- MODULE MCMemoria -----------------------------
(***************************************************************************)
(* Instances of Memoria for TLC: the files and requests the .cfg files     *)
(* choose from.                                                            *)
(***************************************************************************)
EXTENDS MemoriaPropiedades

MCArchivos == {Inexistente, <<>>, <<"instruccion">>}
MCUnArchivo == {<<"instruccion">>}
MCServidor == ConPid \cup {"ENVIO_ARCHIVO_KERNEL", "CONSULTAR_ESPACIO", "CREAR_PROCESO"}
\* The requests the kernel's code sends.
MCKernel == {"ENVIO_ARCHIVO_KERNEL", "CONSULTAR_ESPACIO", "CREAR_PROCESO"}
=============================================================================
