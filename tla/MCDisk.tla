------------------------------- MODULE MCDisk -------------------------------
(* Disk with 128 sectors of two words, and calls whose addresses use every *)
(* part of the registers; the writes overlap, and so do reads and writes.  *)
EXTENDS Disk

MCCall ==
  {[op |-> "read", lba |-> 91, count |-> n, data |-> <<>>] : n \in {1, 3}}
  \cup {[op |-> "read", lba |-> 27, count |-> 2, data |-> <<>>],
        [op |-> "write", lba |-> 92, count |-> 1, data |-> << << <<1, 3>>, <<1, 4>> >> >>],
        [op |-> "write", lba |-> 91, count |-> 2, data |-> << << <<1, 5>>, <<1, 6>> >>, << <<1, 7>>, <<1, 8>> >> >>]}
=============================================================================
