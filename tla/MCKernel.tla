------------------------------ MODULE MCKernel ------------------------------
(* Kernel on a small instance; MCKernel.cfg gives the constants. *)
EXTENDS Kernel
=============================================================================
