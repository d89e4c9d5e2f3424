------------------------------ MODULE FileStore ------------------------------
(***************************************************************************)
(* What a file system promises: once it is open there is a sequence of     *)
(* files of fixed length.  A read returns the bytes it asked for, cut at   *)
(* the end of that file, and a write changes bytes of one file and of no   *)
(* other.                                                                  *)
(***************************************************************************)
EXTENDS Integers, Sequences

CONSTANTS
  New        \* what writers write

VARIABLES
  archive,   \* the contents of the files there are, as they were made
  open,      \* the file system was read
  files,     \* the contents of the files
  last       \* the last read or write: its file, offset and size, and for a
             \* read the bytes it returned

vars == <<archive, open, files, last>>

Init == ~ open /\ files = <<>> /\ last.bytes = <<>>

Open ==
  /\ ~ open
  /\ open' = TRUE
  /\ files' = archive
  /\ UNCHANGED <<archive, last>>

Cut(bytes, offset, size) ==
  SubSeq(bytes, offset + 1, IF offset + size <= Len(bytes) THEN offset + size ELSE Len(bytes))

Read ==
  /\ open
  /\ last'.file \in DOMAIN files
  /\ last'.bytes = Cut(files[last'.file], last'.offset, last'.size)
  /\ UNCHANGED <<archive, open, files>>

(* The bytes from the offset on, as many as its size says, get the value   *)
(* New, and no other byte of any file changes.                             *)
Write ==
  LET f     == last'.file
      range == last'.offset + 1 .. last'.offset + last'.size
  IN
  /\ open
  /\ f \in DOMAIN files
  /\ range \subseteq DOMAIN files[f]
  /\ files' = [files EXCEPT ![f] =
                 [i \in DOMAIN @ |-> IF i \in range THEN New ELSE @[i]]]
  /\ UNCHANGED <<archive, open>>

Next == Open \/ Read \/ Write

Spec == Init /\ [][Next]_vars
=============================================================================
