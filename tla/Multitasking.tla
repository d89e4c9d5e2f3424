---------------------------- MODULE Multitasking ----------------------------
(***************************************************************************)
(* What a user of the task switcher is promised, with no stack, no TSS and *)
(* no interrupt frame in sight.  There are tasks, at most one of them has  *)
(* the processor, and a task's own progress moves only while it has it: a  *)
(* switch saves and restores every context exactly.                        *)
(***************************************************************************)
EXTENDS Integers

CONSTANTS Task, None

VARIABLES
  live,      \* the tasks that were created and have not exited
  running,   \* the task on the processor, None while the kernel boots or idles
  progress   \* for every task, how many of its own steps it has executed

vars == <<live, running, progress>>

Init ==
  /\ live = {}
  /\ running = None
  /\ progress = [t \in Task |-> 0]

(* Tasks are created before the first of them runs. *)
Spawn(t) ==
  /\ running = None
  /\ t \notin live
  /\ live' = live \cup {t}
  /\ UNCHANGED <<running, progress>>

(* Only the task on the processor makes progress. *)
Step(t) ==
  /\ running = t
  /\ progress' = [progress EXCEPT ![t] = @ + 1]
  /\ UNCHANGED <<live, running>>

(* The processor is given to a live task; nobody's progress changes. *)
Switch(t) ==
  /\ t \in live
  /\ running' = t
  /\ UNCHANGED <<live, progress>>

(* A task that exits gives the processor to a live one; when none is left *)
(* there is nothing else to run and it keeps the processor.               *)
Exit(t) ==
  /\ running = t
  /\ live' = live \ {t}
  /\ IF live' = {} THEN running' = t ELSE running' \in live'
  /\ UNCHANGED progress

Next == \E t \in Task : Spawn(t) \/ Step(t) \/ Switch(t) \/ Exit(t)

Spec == Init /\ [][Next]_vars
=============================================================================
