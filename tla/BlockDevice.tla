---------------------------- MODULE BlockDevice ----------------------------
(***************************************************************************)
(* What the disk driver promises to a file system: numbered sectors, and   *)
(* calls that read or write a run of them, sector after sector.            *)
(***************************************************************************)
EXTENDS Integers, Sequences

CONSTANTS Call, NoCall   \* a call: [op, lba, count, data]

VARIABLES
  sectors,   \* the contents of the disk
  call,      \* the call in progress
  done,      \* how many of its sectors are transferred
  buf        \* the sectors it has read

vars == <<sectors, call, done, buf>>

Init == call = NoCall /\ done = 0 /\ buf = <<>>

Begin(c) ==
  /\ call = NoCall
  /\ call' = c
  /\ done' = 0
  /\ buf' = <<>>
  /\ UNCHANGED sectors

ReadSector ==
  /\ call # NoCall /\ call.op = "read" /\ done < call.count
  /\ buf' = Append(buf, sectors[call.lba + done])
  /\ done' = done + 1
  /\ UNCHANGED <<sectors, call>>

WriteSector ==
  /\ call # NoCall /\ call.op = "write" /\ done < call.count
  /\ sectors' = [sectors EXCEPT ![call.lba + done] = call.data[done + 1]]
  /\ done' = done + 1
  /\ UNCHANGED <<call, buf>>

Return ==
  /\ call # NoCall
  /\ done = call.count
  /\ call' = NoCall
  /\ UNCHANGED <<sectors, done, buf>>

Next == (\E c \in Call : Begin(c)) \/ ReadSector \/ WriteSector \/ Return

Spec == Init /\ [][Next]_vars
=============================================================================
