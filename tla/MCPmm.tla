-------------------------------- MODULE MCPmm --------------------------------
(***************************************************************************)
(* Pmm on seven pages of three units.  The kernel ends inside page 1.        *)
(***************************************************************************)
EXTENDS Pmm

Avail(b, l)  == [type |-> 1, base_addr |-> b, length |-> l]
Other(b, l)  == [type |-> 2, base_addr |-> b, length |-> l]
Mod(s, e)    == [mod_start |-> s, mod_end |-> e]
Rep(mm, mods) == [has_mmap |-> mm # {}, mmap |-> mm, has_mods |-> mods # {}, mods |-> mods]

(* All of memory; memory with a hole and odd boundaries; more memory than  *)
(* the bitmap covers; overlapping regions; and no map at all, each without *)
(* and with modules that start and end inside pages.                       *)
MCBoots ==
  {Rep(mm, mods) :
     mm   \in {{}, {Avail(0, 21)}, {Avail(0, 7), Other(7, 3), Avail(10, 11)},
               {Avail(4, 26)}, {Avail(2, 9), Avail(5, 9)}},
     mods \in {{}, {Mod(9, 10)}, {Mod(7, 8), Mod(13, 17)}}}
=============================================================================
