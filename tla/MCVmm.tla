-------------------------------- MODULE MCVmm --------------------------------
(* Vmm on small constants; its values are in MCVmm.cfg. *)
EXTENDS Vmm
=============================================================================
