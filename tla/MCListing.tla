------------------------------ MODULE MCListing ------------------------------
(* Listing on both machines, for all directories of up to four names. *)
EXTENDS Listing

I386 == [size |-> 12, align |-> 4, off_at |-> 4, len_at |-> 8, name_at |-> 10]
X64  == [size |-> 24, align |-> 8, off_at |-> 8, len_at |-> 16, name_at |-> 18]

MCAbis == {I386, X64}

(* Names that leave padding after their end, and that just leave none. *)
MCDirs == UNION {[1 .. n -> {1, 6, 7}] : n \in 0 .. 4}
=============================================================================
