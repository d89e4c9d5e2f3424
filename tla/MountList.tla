------------------------------ MODULE MountList ------------------------------
(***************************************************************************)
(* What the mount table promises: a list of at most MaxMounts mounts in    *)
(* the order in which they were made.  A mount goes to the end, except     *)
(* that of the root, which takes the first place, from whatever mount has  *)
(* it; unmounting takes away the oldest mount of that path.                *)
(***************************************************************************)
EXTENDS Integers, Sequences

CONSTANTS MaxMounts, Path, Node, Root   \* Root: the path "/"

VARIABLES list

Mount(p, n) ==
  /\ p # Root
  /\ Len(list) < MaxMounts
  /\ list' = Append(list, [path |-> p, node |-> n])

MountRoot(n) ==
  list' = IF list = <<>> THEN <<[path |-> Root, node |-> n]>>
          ELSE [list EXCEPT ![1] = [path |-> Root, node |-> n]]

Umount(p) ==
  \E i \in DOMAIN list :
    /\ list[i].path = p
    /\ \A j \in 1 .. i - 1 : list[j].path # p
    /\ list' = SubSeq(list, 1, i - 1) \o SubSeq(list, i + 1, Len(list))

Init == list = <<>>

Next ==
  \/ \E p \in Path, n \in Node : Mount(p, n)
  \/ \E n \in Node : MountRoot(n)
  \/ \E p \in Path : Umount(p)

Spec == Init /\ [][Next]_list
=============================================================================
