------------------------------- MODULE MCVmm64 -------------------------------
(* Vmm64 on small constants; its values are in MCVmm64.cfg. *)
EXTENDS Vmm64
=============================================================================
