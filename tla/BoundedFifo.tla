----------------------------- MODULE BoundedFifo -----------------------------
(***************************************************************************)
(* What the keyboard driver promises to its reader: a first-in first-out   *)
(* buffer of Capacity characters.  A character offered to a full buffer is *)
(* lost and counted; nothing else is ever lost, invented or reordered.     *)
(***************************************************************************)
EXTENDS Naturals, Sequences

CONSTANTS Item, Capacity

VARIABLES
  queue,      \* the characters waiting for the reader, oldest first
  delivered,  \* every character the reader has been given, in order
  dropped     \* how many were lost

vars == <<queue, delivered, dropped>>

Init ==
  /\ queue = <<>>
  /\ delivered = <<>>
  /\ dropped = 0

Put(c) ==
  /\ Len(queue) < Capacity
  /\ queue' = Append(queue, c)
  /\ UNCHANGED <<delivered, dropped>>

Lose ==
  /\ Len(queue) = Capacity
  /\ dropped' = dropped + 1
  /\ UNCHANGED <<queue, delivered>>

Get ==
  /\ queue # <<>>
  /\ delivered' = Append(delivered, Head(queue))
  /\ queue' = Tail(queue)
  /\ UNCHANGED dropped

Next == (\E c \in Item : Put(c)) \/ Lose \/ Get

Spec == Init /\ [][Next]_vars
=============================================================================
