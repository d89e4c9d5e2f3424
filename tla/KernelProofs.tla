----------------------------- MODULE KernelProofs -----------------------------
(***************************************************************************)
(* Theorems about the two ends of the kernel, its entries and what it      *)
(* shows, for every value of the constants.                                *)
(*                                                                         *)
(* Kernel: for every number of tasks, every tick rate, every size of the   *)
(* ring and of the controller's queue, and every polling interval, each    *)
(* step of the machine with its latched requests and its waiting call is   *)
(* a step of Scheduler, or none, so that what SchedulerProofs shows holds  *)
(* of it.                                                                  *)
(*                                                                         *)
(* Shell and Console: for every screen, every size of the buffer, every    *)
(* text and every sequence of keys, what was typed is what is run, the     *)
(* terminal shows it while it is typed, and the screen shows what went     *)
(* over the serial line.                                                   *)
(***************************************************************************)
EXTENDS Kernel, Shell, FiniteSetTheorems, SequenceTheorems,
        WellFoundedInduction, TLAPS

(* Scheduler's definitions once more, now with the facts proved of them.   *)
Proved == INSTANCE SchedulerProofs

LEMMA SchedulerParameters == Proved!SchedulerAssumption
  BY KernelAssumption DEF Proved!SchedulerAssumption

(* Both instances are of one module on the same constants and variables.   *)
LEMMA SameStep ==
  ASSUME [Sched!Next]_(Sched!vars)
  PROVE  [Proved!Next]_(Proved!vars)
<1>1. CASE Sched!scheduler_init \/ Sched!task_create_user \/ Sched!sti
  BY <1>1 DEF Sched!Next, Proved!Next, Sched!scheduler_init,
       Proved!scheduler_init, Sched!task_create_user,
       Proved!task_create_user, Sched!sti, Proved!sti, Sched!NONE,
       Proved!NONE, Sched!Slot, Proved!Slot, Sched!tasks, Proved!tasks,
       Sched!clock, Proved!clock
<1>2. CASE Sched!irq0
  BY <1>2 DEF Sched!Next, Proved!Next, Sched!irq0, Proved!irq0,
       Sched!timer_handler, Proved!timer_handler, Sched!schedule,
       Proved!schedule, Sched!SavePointer, Proved!SavePointer,
       Sched!NextTask, Proved!NextTask, Sched!NoneActive, Proved!NoneActive,
       Sched!set_kernel_stack, Proved!set_kernel_stack, Sched!Resume,
       Proved!Resume, Sched!EntryStack, Proved!EntryStack, Sched!NONE,
       Proved!NONE, Sched!Slot, Proved!Slot, Sched!Stack, Proved!Stack
<1>3. CASE Sched!sys_exit
  BY <1>3 DEF Sched!Next, Proved!Next, Sched!sys_exit, Proved!sys_exit,
       Sched!timer_handler, Proved!timer_handler, Sched!schedule,
       Proved!schedule, Sched!SavePointer, Proved!SavePointer,
       Sched!NextTask, Proved!NextTask, Sched!NoneActive, Proved!NoneActive,
       Sched!set_kernel_stack, Proved!set_kernel_stack, Sched!Resume,
       Proved!Resume, Sched!EntryStack, Proved!EntryStack, Sched!NONE,
       Proved!NONE, Sched!Slot, Proved!Slot, Sched!Stack, Proved!Stack
<1>4. CASE Sched!call_and_return \/ Sched!user_step
  BY <1>4 DEF Sched!Next, Proved!Next, Sched!call_and_return,
       Proved!call_and_return, Sched!user_step, Proved!user_step,
       Sched!Resume, Proved!Resume, Sched!EntryStack, Proved!EntryStack,
       Sched!NONE, Proved!NONE, Sched!tasks, Proved!tasks, Sched!clock,
       Proved!clock
<1>5. CASE UNCHANGED Sched!vars
  BY <1>5 DEF Sched!vars, Proved!vars, Sched!tasks, Proved!tasks,
       Sched!clock, Proved!clock
<1>6. QED
  BY <1>1, <1>2, <1>3, <1>4, <1>5 DEF Sched!Next

LEMMA SameStart == Sched!Init => Proved!Init
  BY DEF Sched!Init, Proved!Init, Sched!Slot, Proved!Slot, Sched!Stack,
       Proved!Stack, Sched!NONE, Proved!NONE, Sched!Empty, Proved!Empty,
       Sched!Kmain, Proved!Kmain

-----------------------------------------------------------------------------
(* The inductive invariant.  The scheduler's part says that the task in    *)
(* ring 3 and the stack of the TSS agree when the call is made, the        *)
(* reader's part that the frame is still there when it returns.            *)
IInv == Proved!IInv /\ ReadBelongsToCaller

(* The waiting call ends where it was made. *)
LEMMA ReturnsToReader ==
  ASSUME IInv, reader # NONE, syscall_return
  PROVE  cpu' = cpu
<1>1. esp0 = reader /\ kstack[reader][1] = cpu /\ cpu.at = "user"
  BY DEF IInv, ReadBelongsToCaller
<1>2. QED
  BY <1>1 DEF syscall_return, Sched!Resume

(* sys_read_round: the scheduler's variables stay as they are. *)
LEMMA RoundIsSilent ==
  ASSUME IInv, sys_read_round
  PROVE  UNCHANGED sched
<1>1. reader # NONE /\ (syscall_return \/ UNCHANGED <<reader, cpu>>)
  BY DEF sys_read_round
<1>2. cpu' = cpu
  BY <1>1, ReturnsToReader
<1>3. QED
  BY <1>2 DEF sys_read_round, sched

(* Every step is one of the scheduler's, or leaves its variables alone.    *)
LEMMA StepRefines ==
  ASSUME IInv, [Next]_vars
  PROVE  [Sched!Next]_(Sched!vars)
<1>1. CASE UNCHANGED sched
  BY <1>1 DEF sched, tasks, clock, Sched!vars, Sched!tasks, Sched!clock
<1>2. CASE tick \/ \E byte \in Byte : key_event(byte)
  BY <1>1, <1>2 DEF tick, key_event
<1>3. CASE sys_read_round
  BY <1>1, <1>3, RoundIsSilent
<1>4. CASE irq0 \/ irq1 \/ kmain \/ user_step \/ sys_exit \/ other_call \/ sys_read
  BY <1>4 DEF irq0, irq1, kmain, user_step, sys_exit, other_call, sys_read, Sched!Next
<1>5. CASE UNCHANGED vars
  BY <1>1, <1>5 DEF vars
<1>6. QED
  BY <1>2, <1>3, <1>4, <1>5 DEF Next

(* The call itself: its frame goes to the stack of the task that makes it. *)
LEMMA CallIsKept ==
  ASSUME IInv, sys_read
  PROVE  ReadBelongsToCaller'
<1>1. /\ boot = "idle" /\ boot' = "idle"
      /\ UNCHANGED <<current_task, esp0>>
      /\ kstack' = [kstack EXCEPT ![esp0][1] = cpu]
      /\ cpu' = Sched!Resume(kstack', [stack |-> esp0, depth |-> 1])
  BY DEF sys_read, Sched!call_and_return, Sched!EntryStack, Sched!tasks
<1>2. cpu.at = "user" /\ reader' = cpu.owner
  BY DEF sys_read
<1>3. current_task = cpu.owner /\ esp0 = cpu.owner
  BY <1>2 DEF IInv, Proved!IInv, Proved!WhoRunsIsAgreed
<1>4. kstack'[esp0][1] = cpu
  BY <1>1 DEF IInv, Proved!IInv, Proved!TypeOK
<1>5. cpu' = cpu
  BY <1>1, <1>2, <1>4 DEF Sched!Resume
<1>6. QED
  BY <1>1, <1>2, <1>3, <1>4, <1>5 DEF ReadBelongsToCaller

LEMMA ReaderIsKept ==
  ASSUME IInv, [Next]_vars
  PROVE  ReadBelongsToCaller'
<1>1. CASE UNCHANGED <<sched, reader>>
  BY <1>1 DEF sched, tasks, IInv, ReadBelongsToCaller, NONE, Sched!NONE
<1>2. CASE tick \/ (\E byte \in Byte : key_event(byte)) \/ UNCHANGED vars
  BY <1>1, <1>2 DEF tick, key_event, vars, input
<1>3. CASE irq0 \/ irq1 \/ user_step \/ sys_exit \/ other_call
  <2>1. reader = NONE /\ reader' = reader
    BY <1>3 DEF irq0, irq1, user_step, sys_exit, other_call, Undisturbed,
                interrupts_on, input
  <2>2. QED
    BY <2>1 DEF ReadBelongsToCaller, NONE, Sched!NONE
<1>4. CASE kmain
  <2>1. boot # "idle" /\ reader' = reader
    BY <1>4 DEF kmain, input, Sched!scheduler_init, Sched!task_create_user, Sched!sti
  <2>2. QED
    BY <2>1 DEF IInv, ReadBelongsToCaller, NONE, Sched!NONE
<1>5. CASE sys_read
  BY <1>5, CallIsKept
<1>6. CASE sys_read_round
  <2>1. reader' = NONE \/ reader' = reader
    BY <1>6 DEF sys_read_round, syscall_return
  <2>2. CASE reader' = NONE
    BY <2>2 DEF ReadBelongsToCaller, NONE, Sched!NONE
  <2>3. QED
    BY <1>1, <1>6, <2>1, <2>2, RoundIsSilent
<1>7. QED
  BY <1>2, <1>3, <1>4, <1>5, <1>6 DEF Next

-----------------------------------------------------------------------------
LEMMA InitInvariant == Init => IInv
<1>1. Init => Proved!Init
  BY SameStart DEF Init
<1>2. Proved!Init => Proved!IInv
  BY SchedulerParameters, Proved!InitInvariant
<1>3. Init => ReadBelongsToCaller
  BY DEF Init, ReadBelongsToCaller
<1>4. QED
  BY <1>1, <1>2, <1>3 DEF IInv

LEMMA NextKeepsInvariant ==
  ASSUME IInv, [Next]_vars
  PROVE  IInv'
<1>1. [Proved!Next]_(Proved!vars)
  BY StepRefines, SameStep
<1>2. Proved!IInv'
  BY <1>1, SchedulerParameters, Proved!NextKeepsInvariant DEF IInv
<1>3. QED
  BY <1>2, ReaderIsKept DEF IInv

THEOREM Invariance == Spec => []IInv
  BY InitInvariant, NextKeepsInvariant, PTL DEF Spec

(* Whatever ticks and keys go by while a task waits for its line, the      *)
(* current task, the TSS and the frame on its stack are still the ones     *)
(* that its call of sys_read found and made.                               *)
THEOREM LineGoesToCaller == Spec => []ReadBelongsToCaller
<1>1. IInv => ReadBelongsToCaller
  BY DEF IInv
<1>2. QED
  BY <1>1, Invariance, PTL

(* Requests latched and taken by priority, stale keyboard interrupts and a *)
(* call that waits do not show in the task switcher: the machine is a      *)
(* Scheduler.                                                              *)
THEOREM Refinement == Spec => ImplementsScheduler
<1>1. Init => Sched!Init
  BY DEF Init
<1>2. IInv /\ [Next]_vars => [Sched!Next]_(Sched!vars)
  BY StepRefines
<1>3. QED
  BY <1>1, <1>2, Invariance, PTL DEF Spec, ImplementsScheduler, Sched!Spec

(* So no interrupt and no waiting call loses, mixes up or replays what a   *)
(* task has done: the machine implements Multitasking.                     *)
THEOREM TasksAreKept == Spec => Proved!ImplementsMultitasking
<1>1. Init => Proved!Init
  BY SameStart DEF Init
<1>2. IInv /\ [Next]_vars => [Proved!Next]_(Proved!vars)
  BY StepRefines, SameStep
<1>3. Spec => Proved!Spec
  BY <1>1, <1>2, Invariance, PTL DEF Spec, Proved!Spec
<1>4. Proved!Spec => Proved!ImplementsMultitasking
  BY SchedulerParameters, Proved!Refinement
<1>5. QED
  BY <1>3, <1>4

-----------------------------------------------------------------------------
(***************************************************************************)
(* Shell: what the backspaces of a line leave.                             *)
(***************************************************************************)
LEMMA CountTyped ==
  ASSUME NEW s, NEW from \in Nat, NEW to \in Nat, NEW isBs \in BOOLEAN
  PROVE  /\ IsFiniteSet({k \in from .. to : (s[k] = BS) = isBs})
         /\ Count(s, from, to, isBs) \in Nat
<1> DEFINE S == {k \in from .. to : (s[k] = BS) = isBs}
<1>1. IsFiniteSet(from .. to)
  BY FS_Interval
<1>2. S \in SUBSET (from .. to)
  OBVIOUS
<1> HIDE DEF S
<1>3. IsFiniteSet(S)
  BY <1>1, <1>2, FS_Subset
<1>4. Cardinality(S) \in Nat
  BY <1>3, FS_CardinalityType
<1>5. QED
  BY <1>3, <1>4 DEF S, Count

LEMMA CountNone ==
  ASSUME NEW s, NEW n \in Nat, NEW isBs \in BOOLEAN
  PROVE  Count(s, n + 1, n, isBs) = 0
<1>1. {k \in n + 1 .. n : (s[k] = BS) = isBs} = {}
  OBVIOUS
<1>2. QED
  BY <1>1, FS_EmptySet DEF Count

LEMMA Appended ==
  ASSUME NEW V, NEW s \in Seq(V), NEW c \in V
  PROVE  /\ Append(s, c) \in Seq(V) /\ Len(s) \in Nat /\ Len(Append(s, c)) = Len(s) + 1
         /\ Append(s, c)[Len(s) + 1] = c
         /\ \A k \in 1 .. Len(s) : Append(s, c)[k] = s[k]
  BY AppendProperties, LenProperties

LEMMA CountNext ==
  ASSUME NEW V, NEW s \in Seq(V), NEW c \in V, NEW from \in 1 .. Len(s) + 1,
         NEW isBs \in BOOLEAN
  PROVE  Count(Append(s, c), from, Len(s) + 1, isBs)
           = Count(s, from, Len(s), isBs) + (IF (c = BS) = isBs THEN 1 ELSE 0)
<1> DEFINE L == Len(s)
           t == Append(s, c)
           S == {k \in from .. L : (s[k] = BS) = isBs}
           T == {k \in from .. L + 1 : (t[k] = BS) = isBs}
<1>1. L \in Nat /\ t[L + 1] = c /\ \A k \in 1 .. L : t[k] = s[k]
  BY Appended
<1>2. IsFiniteSet(S) /\ Cardinality(S) \in Nat
  BY <1>1, CountTyped DEF Count
<1> HIDE DEF L, t
<1>3. from \in 1 .. L + 1
  BY DEF L
<1>4. \A k \in from .. L : k \in 1 .. L /\ k \in from .. L + 1 /\ k # L + 1
  BY <1>1, <1>3
<1>5. \A k \in from .. L + 1 : k = L + 1 \/ k \in from .. L
  BY <1>1, <1>3
<1>6. L + 1 \in from .. L + 1
  BY <1>1, <1>3
<1>7. L + 1 \notin S
  BY <1>4
<1>8. CASE (c = BS) = isBs
  <2>1. T = S \cup {L + 1}
    BY <1>1, <1>4, <1>5, <1>6, <1>8
  <2> HIDE DEF S, T
  <2>2. Cardinality(T) = Cardinality(S) + 1
    BY <1>2, <1>7, <2>1, FS_AddElement
  <2>3. QED
    BY <1>8, <2>2 DEF S, T, L, t, Count
<1>9. CASE (c = BS) # isBs
  <2>1. T = S
    BY <1>1, <1>4, <1>5, <1>6, <1>9
  <2> HIDE DEF S, T
  <2>2. Cardinality(T) = Cardinality(S) + 0
    BY <1>2, <2>1
  <2>3. QED
    BY <1>9, <2>2 DEF S, T, L, t, Count
<1>10. QED
  BY <1>8, <1>9

LEMMA CountSame ==
  ASSUME NEW V, NEW s \in Seq(V), NEW c \in V, NEW from \in Nat \ {0}, NEW to \in Nat,
         to <= Len(s), NEW isBs \in BOOLEAN
  PROVE  Count(Append(s, c), from, to, isBs) = Count(s, from, to, isBs)
<1> DEFINE L == Len(s)
           t == Append(s, c)
<1>1. L \in Nat /\ \A k \in 1 .. L : t[k] = s[k]
  BY Appended
<1>2. to <= L
  OBVIOUS
<1> HIDE DEF L, t
<1>3. \A k \in from .. to : k \in 1 .. L
  BY <1>1, <1>2
<1>4. {k \in from .. to : (t[k] = BS) = isBs} = {k \in from .. to : (s[k] = BS) = isBs}
  BY <1>1, <1>3
<1>5. QED
  BY <1>4 DEF Count, t

(* One more character erases nothing, or what is balanced so far. *)
Balanced(s, i) == Count(s, i + 1, Len(s), TRUE) = Count(s, i + 1, Len(s), FALSE)

LEMMA ErasedNext ==
  ASSUME NEW V, NEW s \in Seq(V), NEW c \in V
  PROVE  /\ \A i \in 1 .. Len(s) :
              Erased(Append(s, c), i) <=> Erased(s, i) \/ (c = BS /\ Balanced(s, i))
         /\ ~ Erased(Append(s, c), Len(s) + 1)
<1> DEFINE L == Len(s)
           t == Append(s, c)
<1>1. L \in Nat /\ Len(t) = L + 1 /\ t[L + 1] = c /\ \A k \in 1 .. L : t[k] = s[k]
  BY Appended
<1>2. ~ Erased(t, L + 1)
  <2>1. (L + 1) + 1 .. Len(t) = {}
    <3> HIDE DEF L, t
    <3>1. QED
      BY <1>1
  <2> HIDE DEF L, t
  <2>2. QED
    BY <2>1 DEF Erased
<1>3. ASSUME NEW i \in 1 .. L
      PROVE  Erased(t, i) <=> Erased(s, i) \/ (c = BS /\ Balanced(s, i))
  <2> DEFINE EndsAt(u, j) == u[j] = BS /\ Count(u, i + 1, j - 1, TRUE) = Count(u, i + 1, j - 1, FALSE)
  <2>1. ASSUME NEW j \in i + 1 .. L PROVE EndsAt(t, j) <=> EndsAt(s, j)
    <3>1. /\ j - 1 \in Nat /\ j - 1 <= Len(s) /\ j \in 1 .. L /\ i + 1 \in Nat \ {0}
      <4>1. i \in 1 .. L /\ L = Len(s)
        OBVIOUS
      <4> HIDE DEF L
      <4>2. QED
        BY <1>1, <4>1
    <3>2. \A isBs \in BOOLEAN : Count(t, i + 1, j - 1, isBs) = Count(s, i + 1, j - 1, isBs)
      BY <3>1, CountSame
    <3>3. t[j] = s[j]
      BY <1>1, <3>1
    <3> HIDE DEF t
    <3>4. QED
      BY <3>2, <3>3
  <2>2. EndsAt(t, L + 1) <=> c = BS /\ Balanced(s, i)
    <3>1. /\ (L + 1) - 1 = L /\ L \in Nat /\ L <= Len(s) /\ i + 1 \in Nat \ {0}
      BY <1>1
    <3>2. \A isBs \in BOOLEAN : Count(t, i + 1, L, isBs) = Count(s, i + 1, L, isBs)
      BY <3>1, CountSame
    <3> HIDE DEF t
    <3>3. QED
      BY <1>1, <3>1, <3>2 DEF Balanced
  <2>3. Erased(t, i) <=> \E j \in i + 1 .. L + 1 : EndsAt(t, j)
    <3> HIDE DEF L, t
    <3>1. QED
      BY <1>1 DEF Erased
  <2>4. Erased(s, i) <=> \E j \in i + 1 .. L : EndsAt(s, j)
    BY DEF Erased
  <2>5. L + 1 \in i + 1 .. L + 1
    BY <1>1
  <2>6. \A j : j \in i + 1 .. L + 1 <=> j = L + 1 \/ j \in i + 1 .. L
    BY <1>1
  <2> HIDE DEF EndsAt, L, t
  <2>7. QED
    BY <2>1, <2>2, <2>3, <2>4, <2>5, <2>6
<1>4. QED
  BY <1>2, <1>3

(* The w places p of what is left of s.  Behind each of them there are as  *)
(* many more characters than backspaces as places.                         *)
Left(s, p, w) ==
  /\ w \in Nat /\ p \in [1 .. w -> 1 .. Len(s)]
  /\ \A k, l \in 1 .. w : k < l => p[k] < p[l]
  /\ \A k \in 1 .. w : s[p[k]] # BS /\ ~ Erased(s, p[k])
  /\ \A i \in 1 .. Len(s) : (\A k \in 1 .. w : p[k] # i) => s[i] = BS \/ Erased(s, i)
  /\ \A k \in 1 .. w :
       Count(s, p[k] + 1, Len(s), FALSE) = Count(s, p[k] + 1, Len(s), TRUE) + (w - k)

LEMMA NothingLeft == Left(<<>>, [k \in 1 .. 0 |-> 0], 0)
<1>1. 1 .. 0 = {} /\ Len(<<>>) = 0
  OBVIOUS
<1>2. QED
  BY <1>1 DEF Left

LEMMA Pushed ==
  ASSUME NEW V, NEW s \in Seq(V), NEW c \in V, c # BS, NEW p, NEW w, Left(s, p, w)
  PROVE  Left(Append(s, c), [k \in 1 .. w + 1 |-> IF k = w + 1 THEN Len(s) + 1 ELSE p[k]], w + 1)
<1> DEFINE L == Len(s)
           t == Append(s, c)
           q == [k \in 1 .. w + 1 |-> IF k = w + 1 THEN L + 1 ELSE p[k]]
<1>1. L \in Nat /\ Len(t) = L + 1 /\ t[L + 1] = c /\ \A k \in 1 .. L : t[k] = s[k]
  BY Appended
<1>2. /\ w \in Nat /\ p \in [1 .. w -> 1 .. L]
      /\ \A k, l \in 1 .. w : k < l => p[k] < p[l]
      /\ \A k \in 1 .. w : s[p[k]] # BS /\ ~ Erased(s, p[k])
      /\ \A i \in 1 .. L : (\A k \in 1 .. w : p[k] # i) => s[i] = BS \/ Erased(s, i)
      /\ \A k \in 1 .. w :
           Count(s, p[k] + 1, L, FALSE) = Count(s, p[k] + 1, L, TRUE) + (w - k)
  BY DEF Left
<1>3. /\ \A i \in 1 .. L : Erased(t, i) <=> Erased(s, i)
      /\ ~ Erased(t, L + 1)
  BY ErasedNext
<1>4. ASSUME NEW k \in 1 .. w
      PROVE  /\ Count(t, p[k] + 1, L + 1, FALSE) = Count(s, p[k] + 1, L, FALSE) + 1
             /\ Count(t, p[k] + 1, L + 1, TRUE) = Count(s, p[k] + 1, L, TRUE)
             /\ Count(s, p[k] + 1, L, TRUE) \in Nat
  <2>1. p[k] \in 1 .. L
    BY <1>2
  <2>2. p[k] + 1 \in 1 .. Len(s) + 1 /\ p[k] + 1 \in Nat /\ L \in Nat
    BY <1>1, <2>1
  <2>3. \A isBs \in BOOLEAN : /\ Count(t, p[k] + 1, L + 1, isBs)
                                   = Count(s, p[k] + 1, L, isBs) + (IF (c = BS) = isBs THEN 1 ELSE 0)
                              /\ Count(s, p[k] + 1, L, isBs) \in Nat
    BY <2>2, CountNext, CountTyped
  <2> DEFINE new == Count(t, p[k] + 1, L + 1, TRUE)
             old == Count(s, p[k] + 1, L, TRUE)
  <2>4. new = old + 0 /\ old \in Nat
    BY <2>3
  <2> HIDE DEF t, L, new, old
  <2>5. new = old
    BY <2>4
  <2>6. QED
    BY <2>3, <2>4, <2>5 DEF new, old
<1> HIDE DEF L, t
<1>5. \A k \in 1 .. w + 1 : k = w + 1 \/ k \in 1 .. w
  BY <1>2
<1>6. \A k \in 1 .. w : k \in 1 .. w + 1 /\ k # w + 1 /\ p[k] \in 1 .. L
  BY <1>2
<1>7. w + 1 \in 1 .. w + 1 /\ q[w + 1] = L + 1 /\ \A k \in 1 .. w : q[k] = p[k]
  BY <1>2, <1>6
<1>8. q \in [1 .. w + 1 -> 1 .. L + 1]
  BY <1>1, <1>5, <1>6
<1>9. ASSUME NEW k \in 1 .. w + 1, NEW l \in 1 .. w + 1, k < l PROVE q[k] < q[l]
  <2>1. k \in 1 .. w
    BY <1>2, <1>9
  <2> HIDE DEF q
  <2>2. CASE l = w + 1
    BY <1>1, <1>6, <1>7, <2>1, <2>2
  <2>3. CASE l \in 1 .. w
    BY <1>2, <1>7, <1>9, <2>1, <2>3
  <2>4. QED
    BY <1>5, <2>2, <2>3
<1> HIDE DEF q
<1>10. ASSUME NEW k \in 1 .. w + 1 PROVE t[q[k]] # BS /\ ~ Erased(t, q[k])
  <2>1. CASE k = w + 1
    BY <1>1, <1>3, <1>7, <2>1
  <2>2. CASE k \in 1 .. w
    BY <1>1, <1>2, <1>3, <1>6, <1>7, <2>2
  <2>3. QED
    BY <1>5, <2>1, <2>2
<1>11. ASSUME NEW i \in 1 .. L + 1, \A k \in 1 .. w + 1 : q[k] # i
       PROVE  t[i] = BS \/ Erased(t, i)
  <2>1. i # L + 1
    BY <1>7, <1>11
  <2>2. i \in 1 .. L
    BY <1>1, <2>1
  <2>3. \A k \in 1 .. w : p[k] # i
    BY <1>6, <1>7, <1>11
  <2>4. s[i] = BS \/ Erased(s, i)
    BY <1>2, <2>2, <2>3
  <2>5. QED
    BY <1>1, <1>3, <2>2, <2>4
<1>12. ASSUME NEW k \in 1 .. w + 1
       PROVE  Count(t, q[k] + 1, L + 1, FALSE) = Count(t, q[k] + 1, L + 1, TRUE) + ((w + 1) - k)
  <2>1. CASE k = w + 1
    <3>1. L + 1 \in Nat /\ (w + 1) - k = 0
      BY <1>1, <1>2, <2>1
    <3>2. Count(t, (L + 1) + 1, L + 1, FALSE) = 0 /\ Count(t, (L + 1) + 1, L + 1, TRUE) = 0
      BY <3>1, CountNone
    <3>3. q[k] = L + 1
      BY <1>7, <2>1
    <3> DEFINE a == Count(t, q[k] + 1, L + 1, FALSE)
               b == Count(t, q[k] + 1, L + 1, TRUE)
    <3>4. a = 0 /\ b = 0
      BY <3>2, <3>3
    <3> HIDE DEF a, b
    <3>5. a = b + ((w + 1) - k)
      BY <3>1, <3>4
    <3>6. QED
      BY <3>5 DEF a, b
  <2>2. CASE k \in 1 .. w
    <3> DEFINE a == Count(s, p[k] + 1, L, FALSE)
               b == Count(s, p[k] + 1, L, TRUE)
    <3>1. a = b + (w - k) /\ b \in Nat
      BY <1>2, <1>4, <2>2
    <3>2. Count(t, q[k] + 1, L + 1, FALSE) = a + 1 /\ Count(t, q[k] + 1, L + 1, TRUE) = b
      BY <1>4, <1>7, <2>2
    <3> HIDE DEF a, b
    <3>3. a + 1 = b + ((w + 1) - k)
      BY <1>2, <2>2, <3>1
    <3>4. QED
      BY <3>2, <3>3
  <2>3. QED
    BY <1>5, <2>1, <2>2
<1>13. w + 1 \in Nat
  BY <1>2
<1>14. Left(t, q, w + 1)
  BY <1>1, <1>8, <1>9, <1>10, <1>11, <1>12, <1>13 DEF Left
<1>15. QED
  BY <1>14 DEF t, q, L

LEMMA Popped ==
  ASSUME NEW V, NEW s \in Seq(V), BS \in V, NEW p, NEW w, Left(s, p, w), w > 0
  PROVE  Left(Append(s, BS), [k \in 1 .. w - 1 |-> p[k]], w - 1)
<1> DEFINE L == Len(s)
           t == Append(s, BS)
           q == [k \in 1 .. w - 1 |-> p[k]]
<1>1. L \in Nat /\ Len(t) = L + 1 /\ t[L + 1] = BS /\ \A k \in 1 .. L : t[k] = s[k]
  BY Appended
<1>2. /\ w \in Nat /\ p \in [1 .. w -> 1 .. L]
      /\ \A k, l \in 1 .. w : k < l => p[k] < p[l]
      /\ \A k \in 1 .. w : s[p[k]] # BS /\ ~ Erased(s, p[k])
      /\ \A i \in 1 .. L : (\A k \in 1 .. w : p[k] # i) => s[i] = BS \/ Erased(s, i)
      /\ \A k \in 1 .. w :
           Count(s, p[k] + 1, L, FALSE) = Count(s, p[k] + 1, L, TRUE) + (w - k)
  BY DEF Left
<1>3. \A i \in 1 .. L : Erased(t, i) <=> Erased(s, i) \/ Balanced(s, i)
  BY ErasedNext
<1>4. ASSUME NEW k \in 1 .. w
      PROVE  /\ Count(t, p[k] + 1, L + 1, FALSE) = Count(s, p[k] + 1, L, FALSE)
             /\ Count(t, p[k] + 1, L + 1, TRUE) = Count(s, p[k] + 1, L, TRUE) + 1
             /\ Count(s, p[k] + 1, L, TRUE) \in Nat
             /\ Balanced(s, p[k]) <=> k = w
  <2>1. p[k] \in 1 .. L
    BY <1>2
  <2>2. p[k] + 1 \in 1 .. Len(s) + 1 /\ p[k] + 1 \in Nat /\ L \in Nat
    BY <1>1, <2>1
  <2>3. \A isBs \in BOOLEAN : /\ Count(t, p[k] + 1, L + 1, isBs)
                                   = Count(s, p[k] + 1, L, isBs) + (IF (BS = BS) = isBs THEN 1 ELSE 0)
                              /\ Count(s, p[k] + 1, L, isBs) \in Nat
    BY <2>2, CountNext, CountTyped
  <2> DEFINE a == Count(s, p[k] + 1, L, FALSE)
             b == Count(s, p[k] + 1, L, TRUE)
  <2>4. a = b + (w - k) /\ (Balanced(s, p[k]) <=> b = a) /\ a \in Nat /\ b \in Nat
    BY <1>2, <2>3 DEF Balanced
  <2> DEFINE new == Count(t, p[k] + 1, L + 1, FALSE)
             more == Count(t, p[k] + 1, L + 1, TRUE)
  <2>5. new = a + 0 /\ more = b + 1
    BY <2>3
  <2> HIDE DEF t, L, a, b, new, more
  <2>6. (b = a <=> k = w) /\ new = a
    BY <1>2, <2>4, <2>5
  <2>7. QED
    BY <2>4, <2>5, <2>6 DEF a, b, new, more
<1> HIDE DEF L, t
<1>5. \A k \in 1 .. w - 1 : k \in 1 .. w /\ k # w /\ q[k] = p[k] /\ p[k] \in 1 .. L
  BY <1>2
<1>6. w \in 1 .. w /\ p[w] \in 1 .. L /\ w - 1 \in Nat
  BY <1>2
<1>7. q \in [1 .. w - 1 -> 1 .. L + 1]
  BY <1>1, <1>5
<1> HIDE DEF q
<1>8. \A k, l \in 1 .. w - 1 : k < l => q[k] < q[l]
  BY <1>2, <1>5
<1>9. ASSUME NEW k \in 1 .. w - 1 PROVE t[q[k]] # BS /\ ~ Erased(t, q[k])
  BY <1>1, <1>2, <1>3, <1>4, <1>5
<1>10. ASSUME NEW i \in 1 .. L + 1, \A k \in 1 .. w - 1 : q[k] # i
       PROVE  t[i] = BS \/ Erased(t, i)
  <2>1. CASE i = L + 1
    BY <1>1, <2>1
  <2>2. CASE i = p[w]
    BY <1>3, <1>4, <1>6, <2>2
  <2>3. CASE i # L + 1 /\ i # p[w]
    <3>1. i \in 1 .. L
      BY <1>1, <2>3
    <3>2. ASSUME NEW k \in 1 .. w PROVE p[k] # i
      <4>1. k = w \/ k \in 1 .. w - 1
        BY <1>2
      <4>2. QED
        BY <1>5, <1>10, <2>3, <4>1
    <3>3. s[i] = BS \/ Erased(s, i)
      BY <1>2, <3>1, <3>2
    <3>4. QED
      BY <1>1, <1>3, <3>1, <3>3
  <2>4. QED
    BY <2>1, <2>2, <2>3
<1>11. ASSUME NEW k \in 1 .. w - 1
       PROVE  Count(t, q[k] + 1, L + 1, FALSE) = Count(t, q[k] + 1, L + 1, TRUE) + ((w - 1) - k)
  <2> DEFINE a == Count(s, p[k] + 1, L, FALSE)
             b == Count(s, p[k] + 1, L, TRUE)
  <2>1. a = b + (w - k) /\ b \in Nat
    BY <1>2, <1>4, <1>5
  <2>2. Count(t, q[k] + 1, L + 1, FALSE) = a /\ Count(t, q[k] + 1, L + 1, TRUE) = b + 1
    BY <1>4, <1>5
  <2> HIDE DEF a, b
  <2>3. a = (b + 1) + ((w - 1) - k)
    BY <1>2, <2>1
  <2>4. QED
    BY <2>2, <2>3
<1>12. Left(t, q, w - 1)
  BY <1>1, <1>6, <1>7, <1>8, <1>9, <1>10, <1>11 DEF Left
<1>13. QED
  BY <1>12 DEF t, q

(* A backspace to which nothing is left. *)
LEMMA Unpopped ==
  ASSUME NEW V, NEW s \in Seq(V), BS \in V, NEW p, Left(s, p, 0)
  PROVE  Left(Append(s, BS), p, 0)
<1> DEFINE L == Len(s)
           t == Append(s, BS)
<1>1. L \in Nat /\ Len(t) = L + 1 /\ t[L + 1] = BS /\ \A k \in 1 .. L : t[k] = s[k]
  BY Appended
<1>2. \A i \in 1 .. L : Erased(t, i) <=> Erased(s, i) \/ Balanced(s, i)
  BY ErasedNext
<1>3. 1 .. 0 = {}
  OBVIOUS
<1>4. /\ p \in [1 .. 0 -> 1 .. L]
      /\ \A i \in 1 .. L : s[i] = BS \/ Erased(s, i)
  BY <1>3 DEF Left
<1> HIDE DEF L, t
<1>5. p \in [1 .. 0 -> 1 .. L + 1]
  BY <1>3, <1>4
<1>6. ASSUME NEW i \in 1 .. L + 1 PROVE t[i] = BS \/ Erased(t, i)
  <2>1. i = L + 1 \/ i \in 1 .. L
    BY <1>1
  <2>2. QED
    BY <1>1, <1>2, <1>4, <2>1
<1>7. Left(t, p, 0)
  BY <1>1, <1>3, <1>5, <1>6 DEF Left
<1>8. QED
  BY <1>7 DEF t

LEMMA KeptIs ==
  ASSUME NEW s, NEW p, NEW w, Left(s, p, w), Len(s) \in Nat
  PROVE  Kept(s) = [k \in 1 .. w |-> s[p[k]]]
<1> DEFINE L == Len(s)
           left == {i \in 1 .. L : s[i] # BS /\ ~ Erased(s, i)}
           upto(n) == {i \in left : i <= p[n]}
<1>1. /\ w \in Nat /\ p \in [1 .. w -> 1 .. L]
      /\ \A k, l \in 1 .. w : k < l => p[k] < p[l]
      /\ \A k \in 1 .. w : s[p[k]] # BS /\ ~ Erased(s, p[k])
      /\ \A i \in 1 .. L : (\A k \in 1 .. w : p[k] # i) => s[i] = BS \/ Erased(s, i)
  BY DEF Left
<1> HIDE DEF L
<1>2. left = {p[k] : k \in 1 .. w}
  BY <1>1
<1> HIDE DEF left
<1>3. ASSUME NEW n \in 0 .. w
      PROVE  Cardinality({p[k] : k \in 1 .. n}) = n
  <2> DEFINE T == {p[k] : k \in 1 .. n}
             f == [k \in 1 .. n |-> p[k]]
  <2>1. \A k \in 1 .. n : k \in 1 .. w
    BY <1>1
  <2>2. \A k, l \in 1 .. n : p[k] = p[l] => k = l
    <3> SUFFICES ASSUME NEW k \in 1 .. n, NEW l \in 1 .. n, p[k] = p[l] PROVE k = l
      OBVIOUS
    <3>1. p[k] \in 1 .. L /\ p[l] \in 1 .. L /\ (k < l => p[k] < p[l]) /\ (l < k => p[l] < p[k])
      BY <1>1, <2>1
    <3>2. ~ (k < l) /\ ~ (l < k)
      BY <3>1
    <3>3. QED
      BY <3>2
  <2>3. f \in Bijection(1 .. n, T)
    BY <2>2 DEF Bijection, Injection, Surjection, IsInjective
  <2>4. ExistsBijection(1 .. n, T)
    BY <2>3 DEF ExistsBijection
  <2>5. IsFiniteSet(1 .. n) /\ Cardinality(1 .. n) = n
    <3>1. n \in Nat
      BY <1>1
    <3>2. IsFiniteSet(1 .. n) /\ Cardinality(1 .. n) = IF 1 > n THEN 0 ELSE n - 1 + 1
      BY <3>1, FS_Interval
    <3>3. QED
      BY <3>1, <3>2
  <2> HIDE DEF T
  <2>6. QED
    BY <2>4, <2>5, FS_Bijection DEF T
<1>4. Cardinality(left) = w
  <2>1. w \in 0 .. w
    BY <1>1
  <2>2. QED
    BY <1>2, <1>3, <2>1
<1>5. ASSUME NEW n \in 1 .. w PROVE Cardinality(upto(n)) = n
  <2>1. ASSUME NEW k \in 1 .. w PROVE p[k] <= p[n] <=> k <= n
    <3>1. p[k] \in 1 .. L /\ p[n] \in 1 .. L /\ (k < n => p[k] < p[n]) /\ (n < k => p[n] < p[k])
      BY <1>1
    <3>2. k < n \/ k = n \/ n < k
      BY <1>1
    <3>3. QED
      BY <3>1, <3>2
  <2>2. upto(n) = {p[k] : k \in 1 .. n}
    <3>1. \A k \in 1 .. n : k \in 1 .. w /\ k <= n
      BY <1>1
    <3>2. \A k \in 1 .. w : k <= n => k \in 1 .. n
      BY <1>1
    <3>3. QED
      BY <1>2, <2>1, <3>1, <3>2
  <2>3. n \in 0 .. w
    BY <1>1
  <2>4. QED
    BY <1>3, <2>2, <2>3
<1> HIDE DEF upto
<1>6. ASSUME NEW n \in 1 .. w
      PROVE  (CHOOSE i \in left : Cardinality({k \in left : k <= i}) = n) = p[n]
  <2>1. p[n] \in left /\ Cardinality({k \in left : k <= p[n]}) = n
    BY <1>2, <1>5 DEF upto
  <2>2. ASSUME NEW i \in left, Cardinality({k \in left : k <= i}) = n PROVE i = p[n]
    <3>1. PICK m \in 1 .. w : i = p[m]
      BY <1>2
    <3>2. Cardinality({k \in left : k <= p[m]}) = m
      BY <1>5 DEF upto
    <3>3. QED
      BY <2>2, <3>1, <3>2
  <2>3. QED
    BY <2>1, <2>2
<1>7. Kept(s) = [n \in 1 .. Cardinality(left) |->
                   s[CHOOSE i \in left : Cardinality({k \in left : k <= i}) = n]]
  BY DEF Kept, left, L
<1>8. QED
  BY <1>4, <1>6, <1>7

(* The buffer's first n bytes are what the backspaces of s leave.          *)
Holds(s, b, n) == \E p : Left(s, p, n) /\ \A k \in 1 .. n : b[k - 1] = s[p[k]]

LEMMA HoldsNothing == \A b : Holds(<<>>, b, 0)
<1>1. 1 .. 0 = {}
  OBVIOUS
<1>2. QED
  BY <1>1, NothingLeft DEF Holds

LEMMA HoldsMore ==
  ASSUME NEW V, NEW s \in Seq(V), NEW c \in V, c # BS, NEW B, NEW b \in [0 .. LEN -> B],
         NEW n \in 0 .. LEN, LEN \in Nat, Holds(s, b, n)
  PROVE  Holds(Append(s, c), [b EXCEPT ![n] = c], n + 1)
<1> DEFINE L == Len(s)
           t == Append(s, c)
           e == [b EXCEPT ![n] = c]
<1>1. L \in Nat /\ t[L + 1] = c /\ \A k \in 1 .. L : t[k] = s[k]
  BY Appended
<1>2. PICK p : Left(s, p, n) /\ \A k \in 1 .. n : b[k - 1] = s[p[k]]
  BY DEF Holds
<1> DEFINE q == [k \in 1 .. n + 1 |-> IF k = n + 1 THEN L + 1 ELSE p[k]]
<1>3. Left(t, q, n + 1)
  BY <1>2, Pushed
<1>4. \A k \in 1 .. n : p[k] \in 1 .. L
  BY <1>2 DEF Left
<1> HIDE DEF L, t
<1>5. ASSUME NEW k \in 1 .. n + 1 PROVE e[k - 1] = t[q[k]]
  <2>1. CASE k = n + 1
    BY <1>1, <2>1
  <2>2. CASE k # n + 1
    <3>1. k \in 1 .. n /\ k - 1 \in 0 .. LEN /\ k - 1 # n
      BY <2>2
    <3>2. e[k - 1] = b[k - 1] /\ q[k] = p[k]
      BY <2>2, <3>1
    <3> HIDE DEF e, q
    <3>3. QED
      BY <1>1, <1>2, <1>4, <3>1, <3>2
  <2>3. QED
    BY <2>1, <2>2
<1> HIDE DEF e, q
<1>6. QED
  BY <1>3, <1>5 DEF Holds, e, t

LEMMA HoldsLess ==
  ASSUME NEW V, NEW s \in Seq(V), BS \in V, NEW b, NEW n, Holds(s, b, n)
  PROVE  Holds(Append(s, BS), b, IF n > 0 THEN n - 1 ELSE n)
<1> DEFINE L == Len(s)
           t == Append(s, BS)
<1>1. L \in Nat /\ \A k \in 1 .. L : t[k] = s[k]
  BY Appended
<1>2. PICK p : Left(s, p, n) /\ \A k \in 1 .. n : b[k - 1] = s[p[k]]
  BY DEF Holds
<1>3. n \in Nat /\ \A k \in 1 .. n : p[k] \in 1 .. L
  BY <1>2 DEF Left
<1>4. CASE n > 0
  <2> DEFINE q == [k \in 1 .. n - 1 |-> p[k]]
  <2>1. Left(t, q, n - 1)
    BY <1>2, <1>4, Popped
  <2>2. \A k \in 1 .. n - 1 : k \in 1 .. n /\ q[k] = p[k]
    BY <1>3
  <2> HIDE DEF t, q
  <2>3. \A k \in 1 .. n - 1 : b[k - 1] = t[q[k]]
    BY <1>1, <1>2, <1>3, <2>2
  <2>4. Holds(t, b, n - 1)
    BY <2>1, <2>3 DEF Holds
  <2>5. QED
    BY <1>4, <2>4 DEF t
<1>5. CASE ~ (n > 0)
  <2>1. n = 0 /\ 1 .. n = {}
    BY <1>3, <1>5
  <2>2. Left(t, p, 0)
    BY <1>2, <2>1, Unpopped
  <2> HIDE DEF t
  <2>3. Holds(t, b, n)
    BY <2>1, <2>2 DEF Holds
  <2>4. QED
    BY <1>5, <2>3 DEF t
<1>6. QED
  BY <1>4, <1>5

LEMMA HoldsKept ==
  ASSUME NEW V, NEW s \in Seq(V), NEW b, NEW n, Holds(s, b, n)
  PROVE  /\ n \in Nat /\ Kept(s) = [k \in 1 .. n |-> b[k - 1]]
         /\ \A k \in 1 .. n : b[k - 1] \in V /\ b[k - 1] # BS
         /\ Kept(s) \in Seq(V) /\ Len(Kept(s)) = n
<1> DEFINE kept == [k \in 1 .. n |-> b[k - 1]]
<1>1. PICK p : Left(s, p, n) /\ \A k \in 1 .. n : b[k - 1] = s[p[k]]
  BY DEF Holds
<1>2. Len(s) \in Nat /\ \A k \in 1 .. Len(s) : s[k] \in V
  BY LenProperties, ElementOfSeq
<1>3. n \in Nat /\ (\A k \in 1 .. n : p[k] \in 1 .. Len(s)) /\ \A k \in 1 .. n : s[p[k]] # BS
  BY <1>1 DEF Left
<1>4. Kept(s) = [k \in 1 .. n |-> s[p[k]]]
  BY <1>1, <1>2, KeptIs
<1>5. Kept(s) = kept
  BY <1>1, <1>4
<1>6. \A k \in 1 .. n : b[k - 1] \in V /\ b[k - 1] # BS
  BY <1>1, <1>2, <1>3
<1>7. kept \in Seq(V) /\ Len(kept) = n
  BY <1>3, <1>6
<1> HIDE DEF kept
<1>8. QED
  BY <1>3, <1>5, <1>6, <1>7 DEF kept

(***************************************************************************)
(* Shell: parts of what was typed.                                         *)
(***************************************************************************)
LEMMA Part ==
  ASSUME NEW V, NEW s \in Seq(V), NEW m \in Nat \ {0}, NEW n \in Nat, n <= Len(s)
  PROVE  /\ SubSeq(s, m, n) \in Seq(V)
         /\ Len(SubSeq(s, m, n)) = IF m <= n THEN n - m + 1 ELSE 0
         /\ \A i \in 1 .. n - m + 1 : SubSeq(s, m, n)[i] = s[m + i - 1]
<1>1. Len(s) \in Nat /\ \A i \in 1 .. Len(s) : s[i] \in V
  BY LenProperties, ElementOfSeq
<1>2. m \in Int /\ n \in Int /\ \A i \in m .. n : i \in 1 .. Len(s)
  BY <1>1
<1>3. QED
  BY <1>1, <1>2, SubSeqProperties

LEMMA PartSame ==
  ASSUME NEW V, NEW s \in Seq(V), NEW c \in V, NEW m \in Nat \ {0}, NEW n \in Nat, n <= Len(s)
  PROVE  SubSeq(Append(s, c), m, n) = SubSeq(s, m, n)
<1> DEFINE L == Len(s)
           t == Append(s, c)
           u == SubSeq(t, m, n)
           v == SubSeq(s, m, n)
<1>1. t \in Seq(V) /\ L \in Nat /\ Len(t) = L + 1 /\ \A k \in 1 .. L : t[k] = s[k]
  BY Appended
<1>2. n <= L
  OBVIOUS
<1>3. n <= Len(t)
  <2> HIDE DEF L, t
  <2>1. QED
    BY <1>1, <1>2
<1>4. /\ u \in Seq(V) /\ Len(u) = IF m <= n THEN n - m + 1 ELSE 0
      /\ \A i \in 1 .. n - m + 1 : u[i] = t[m + i - 1]
  BY <1>1, <1>3, Part
<1>5. /\ v \in Seq(V) /\ Len(v) = IF m <= n THEN n - m + 1 ELSE 0
      /\ \A i \in 1 .. n - m + 1 : v[i] = s[m + i - 1]
  BY Part
<1> HIDE DEF u, v, t, L
<1>6. Len(u) = Len(v) /\ \A i \in 1 .. Len(u) : i \in 1 .. n - m + 1 /\ m + i - 1 \in 1 .. L
  BY <1>1, <1>2, <1>4, <1>5
<1>7. \A i \in 1 .. Len(u) : u[i] = v[i]
  BY <1>1, <1>4, <1>5, <1>6
<1>8. u = v
  BY <1>4, <1>5, <1>6, <1>7, SeqEqual
<1>9. QED
  BY <1>8 DEF u, v, t

LEMMA PartNext ==
  ASSUME NEW V, NEW s \in Seq(V), NEW c \in V, NEW m \in 1 .. Len(s) + 1
  PROVE  SubSeq(Append(s, c), m, Len(s) + 1) = Append(SubSeq(s, m, Len(s)), c)
<1> DEFINE L == Len(s)
           t == Append(s, c)
           u == SubSeq(t, m, L + 1)
           v == SubSeq(s, m, L)
           w == Append(v, c)
<1>1. /\ t \in Seq(V) /\ L \in Nat /\ Len(t) = L + 1 /\ t[L + 1] = c
      /\ \A k \in 1 .. L : t[k] = s[k]
  BY Appended
<1>2. m \in Nat \ {0} /\ L + 1 \in Nat /\ m <= L + 1 /\ L <= Len(s)
  BY <1>1
<1>3. /\ u \in Seq(V) /\ Len(u) = IF m <= L + 1 THEN L + 1 - m + 1 ELSE 0
      /\ \A i \in 1 .. L + 1 - m + 1 : u[i] = t[m + i - 1]
  BY <1>1, <1>2, Part
<1>4. /\ v \in Seq(V) /\ Len(v) = IF m <= L THEN L - m + 1 ELSE 0
      /\ \A i \in 1 .. L - m + 1 : v[i] = s[m + i - 1]
  BY <1>1, <1>2, Part
<1>5. /\ w \in Seq(V) /\ Len(w) = Len(v) + 1 /\ w[Len(v) + 1] = c
      /\ \A k \in 1 .. Len(v) : w[k] = v[k]
  BY <1>4, Appended
<1> HIDE DEF u, v, w, t, L
<1>6. Len(v) = L - m + 1 /\ Len(u) = L - m + 2 /\ Len(w) = Len(u)
  <2>1. L \in Nat /\ m \in Nat /\ m <= L + 1
    BY <1>1, <1>2
  <2>2. Len(v) = L - m + 1
    <3>1. Len(v) = IF m <= L THEN L - m + 1 ELSE 0
      BY <1>4
    <3>2. QED
      BY <2>1, <3>1
  <2>3. Len(u) = L - m + 2
    <3>1. Len(u) = IF m <= L + 1 THEN L + 1 - m + 1 ELSE 0
      BY <1>3
    <3>2. QED
      BY <2>1, <3>1
  <2>4. Len(w) = Len(v) + 1
    BY <1>5
  <2>5. QED
    BY <2>1, <2>2, <2>3, <2>4
<1>7. ASSUME NEW i \in 1 .. Len(u) PROVE u[i] = w[i]
  <2>1. CASE i = L - m + 2
    <3>1. i \in 1 .. L + 1 - m + 1 /\ m + i - 1 = L + 1 /\ i = Len(v) + 1
      BY <1>1, <1>2, <1>6, <2>1
    <3>2. QED
      BY <1>1, <1>3, <1>5, <3>1
  <2>2. CASE i # L - m + 2
    <3>1. i \in 1 .. L + 1 - m + 1 /\ i \in 1 .. L - m + 1 /\ m + i - 1 \in 1 .. L /\ i \in 1 .. Len(v)
      BY <1>1, <1>2, <1>6, <2>2
    <3>2. QED
      BY <1>1, <1>3, <1>4, <1>5, <3>1
  <2>3. QED
    BY <2>1, <2>2
<1>8. u = w
  BY <1>3, <1>5, <1>6, <1>7, SeqEqual
<1>9. QED
  BY <1>8 DEF u, v, w, t, L

(***************************************************************************)
(* Shell: a line, from its prompt to what is made of it.                   *)
(***************************************************************************)
Typable == Char \cup {NL, BS}

(* Neither a newline nor a full buffer among the first n characters of s.  *)
Open(s, n) == \A i \in 1 .. n : s[i] # NL /\ Len(Kept(SubSeq(s, 1, i))) < LEN

(* A line that ended, as the n bytes of the buffer b hold it. *)
Complete(s, b, n) ==
  n \in Nat \ {0} /\ Holds(s, b, n) /\ Open(s, Len(s) - 1) /\ (s[Len(s)] = NL \/ n = LEN)

LineTypes ==
  /\ pc \in {"boot", "banner", "prompt", "read", "run", "exited"}
  /\ typed \in Seq(Typable)
  /\ ends \in Seq(Nat) /\ \A n \in 1 .. Len(ends) : ends[n] <= Len(typed)
  /\ ran \in Seq(Seq(Typable))
  /\ Len(ends) = IF pc = "run" THEN Len(ran) + 1 ELSE Len(ran)
  /\ buf \in [0 .. LEN -> Char \cup {NL, NUL}]
  /\ written \in 0 .. LEN

Edited ==
  /\ pc \in {"boot", "banner", "prompt", "run"} => Start = Len(typed)
  /\ pc = "read" => written < LEN /\ Holds(Line, buf, written) /\ Open(Line, Len(Line))
  /\ pc = "run" => Complete(Input(Len(ends)), buf, written)

LineInv == LineTypes /\ Edited /\ RunsWhatWasTyped

(* The same of histories that are given. *)
In(t, e, n) == SubSeq(t, IF n = 1 THEN 1 ELSE e[n - 1] + 1, e[n])

RunAs(s, r) ==
  /\ Open(s, Len(s) - 1)
  /\ s[Len(s)] = NL \/ Len(Kept(s)) = LEN
  /\ r = SubSeq(Kept(s), 1, Len(Kept(s)) - 1)

AllRun(t, e, r) == \A n \in 1 .. Len(r) : RunAs(In(t, e, n), r[n])

LEMMA RunsAre == RunsWhatWasTyped <=> AllRun(typed, ends, ran)
  BY DEF RunsWhatWasTyped, AllRun, RunAs, Open, Input, In

LEMMA LastLine ==
  ASSUME LineTypes
  PROVE  Start \in Nat /\ Start <= Len(typed) /\ Start + 1 \in 1 .. Len(typed) + 1 /\ Len(typed) \in Nat
<1>1. Len(typed) \in Nat /\ Len(ends) \in Nat
  BY LenProperties DEF LineTypes
<1>2. CASE ends = <<>>
  BY <1>1, <1>2 DEF Start
<1>3. CASE ends # <<>>
  <2>1. Len(ends) \in 1 .. Len(ends)
    BY <1>1, <1>3, EmptySeq DEF LineTypes
  <2>2. ends[Len(ends)] \in Nat /\ ends[Len(ends)] <= Len(typed)
    BY <2>1, ElementOfSeq DEF LineTypes
  <2>3. QED
    BY <1>1, <1>3, <2>2 DEF Start
<1>4. QED
  BY <1>2, <1>3

(* What was typed into a call stays that when a key, or a call, is added.  *)
LEMMA InputStays ==
  ASSUME LineTypes, NEW c \in Typable, NEW n \in 1 .. Len(ends), NEW x \in Nat
  PROVE  /\ In(Append(typed, c), ends, n) = In(typed, ends, n)
         /\ In(Append(typed, c), Append(ends, x), n) = In(typed, ends, n)
<1>1. Len(typed) \in Nat /\ Len(ends) \in Nat
  BY LenProperties DEF LineTypes
<1>2. \A k \in 1 .. Len(ends) : /\ ends[k] \in Nat /\ ends[k] <= Len(typed)
                                /\ Append(ends, x)[k] = ends[k]
  BY ElementOfSeq, Appended DEF LineTypes
<1> DEFINE from == IF n = 1 THEN 1 ELSE ends[n - 1] + 1
<1>3. n = 1 \/ n - 1 \in 1 .. Len(ends)
  BY <1>1
<1>4. from \in Nat \ {0} /\ from = IF n = 1 THEN 1 ELSE Append(ends, x)[n - 1] + 1
  BY <1>2, <1>3
<1>5. typed \in Seq(Typable)
  BY DEF LineTypes
<1> HIDE DEF from
<1>6. SubSeq(Append(typed, c), from, ends[n]) = SubSeq(typed, from, ends[n])
  <2>1. ends[n] \in Nat /\ ends[n] <= Len(typed)
    BY <1>2
  <2>2. from \in Nat \ {0}
    BY <1>4
  <2>3. QED
    BY <1>5, <2>1, <2>2, PartSame
<1>7. /\ In(typed, ends, n) = SubSeq(typed, from, ends[n])
      /\ In(Append(typed, c), ends, n) = SubSeq(Append(typed, c), from, ends[n])
  BY DEF In, from
<1>8. In(Append(typed, c), Append(ends, x), n) = SubSeq(Append(typed, c), from, ends[n])
  BY <1>2, <1>4 DEF In
<1>9. QED
  BY <1>6, <1>7, <1>8

LEMMA OpenStays ==
  ASSUME NEW V, NEW s \in Seq(V), NEW c \in V, Open(s, Len(s))
  PROVE  Open(Append(s, c), Len(Append(s, c)) - 1)
<1>1. Len(s) \in Nat /\ Len(Append(s, c)) - 1 = Len(s) /\ \A i \in 1 .. Len(s) : Append(s, c)[i] = s[i]
  BY Appended
<1>2. ASSUME NEW i \in 1 .. Len(s)
      PROVE  SubSeq(Append(s, c), 1, i) = SubSeq(s, 1, i)
  <2>1. 1 \in Nat \ {0} /\ i \in Nat /\ i <= Len(s)
    BY <1>1
  <2>2. QED
    BY <2>1, PartSame
<1>3. QED
  BY <1>1, <1>2 DEF Open

LEMMA OpenMore ==
  ASSUME NEW V, NEW s \in Seq(V), NEW c \in V, Open(s, Len(s)), c # NL,
         Len(Kept(Append(s, c))) < LEN
  PROVE  Open(Append(s, c), Len(Append(s, c)))
<1> DEFINE t == Append(s, c)
<1>1. t \in Seq(V) /\ Len(s) \in Nat /\ Len(t) = Len(s) + 1 /\ t[Len(s) + 1] = c
  BY Appended
<1>2. Open(t, Len(t) - 1)
  BY OpenStays
<1>3. SubSeq(t, 1, Len(t)) = t
  BY <1>1, SubSeqFull
<1>4. Len(Kept(t)) < LEN
  OBVIOUS
<1> HIDE DEF t
<1>5. \A i \in 1 .. Len(t) : i = Len(t) \/ i \in 1 .. Len(t) - 1
  BY <1>1
<1>6. t[Len(t)] # NL /\ Len(Kept(SubSeq(t, 1, Len(t)))) < LEN
  BY <1>1, <1>3, <1>4
<1>7. Open(t, Len(t))
  BY <1>2, <1>5, <1>6 DEF Open
<1>8. QED
  BY <1>7 DEF t

LEMMA LineInit == ShellInit => LineInv
<1> SUFFICES ASSUME ShellInit PROVE LineInv
  OBVIOUS
<1>1. /\ pc = "boot" /\ written = 0 /\ typed = <<>> /\ ends = <<>> /\ ran = <<>>
      /\ buf \in {[k \in 0 .. LEN |-> junk] : junk \in {NUL} \cup Char}
  BY DEF ShellInit
<1>2. LEN \in Nat \ {0}
  BY ShellAssumption
<1>3. /\ typed \in Seq(Typable) /\ ends \in Seq(Nat) /\ ran \in Seq(Seq(Typable))
      /\ Len(typed) = 0 /\ Len(ends) = 0 /\ Len(ran) = 0
  BY <1>1, EmptySeq
<1>4. LineTypes
  BY <1>1, <1>2, <1>3 DEF LineTypes
<1>5. Edited
  BY <1>1, <1>3 DEF Edited, Start
<1>6. RunsWhatWasTyped
  BY <1>3 DEF RunsWhatWasTyped
<1>7. QED
  BY <1>4, <1>5, <1>6 DEF LineInv

LEMMA PromptStep == LineInv /\ prompt => LineInv'
<1> SUFFICES ASSUME LineInv, prompt PROVE LineInv'
  OBVIOUS
<1>1. /\ pc = "prompt" /\ written' = 0 /\ pc' = "read"
      /\ buf' = buf /\ typed' = typed /\ ends' = ends /\ ran' = ran
  BY DEF prompt
<1>2. LEN \in Nat \ {0}
  BY ShellAssumption
<1>3. LineTypes'
  BY <1>1, <1>2 DEF LineInv, LineTypes
<1>4. Start + 1 \in Int /\ Len(typed) \in Int /\ Len(typed) < Start + 1 /\ Start = Len(typed)
  BY <1>1, LastLine DEF LineInv, Edited
<1>5. Line = <<>> /\ Len(Line) = 0
  BY <1>4, SubSeqEmpty, EmptySeq DEF Line
<1>6. Line' = Line
  BY <1>1 DEF Line, Start
<1>7. Open(Line', Len(Line'))
  BY <1>5, <1>6 DEF Open
<1>8. Holds(Line', buf', written')
  BY <1>1, <1>5, <1>6, HoldsNothing
<1>9. Edited'
  BY <1>1, <1>2, <1>7, <1>8 DEF Edited
<1>10. RunsWhatWasTyped'
  BY <1>1 DEF LineInv, RunsWhatWasTyped, Input
<1>11. QED
  BY <1>3, <1>9, <1>10 DEF LineInv

LEMMA QuietStep ==
  LineInv /\ (kmain_clears \/ banner \/ spin \/ UNCHANGED shell_vars) => LineInv'
<1> SUFFICES ASSUME LineInv, kmain_clears \/ banner \/ spin \/ UNCHANGED shell_vars
             PROVE  LineInv'
  OBVIOUS
<1>1. /\ buf' = buf /\ written' = written /\ typed' = typed /\ ends' = ends /\ ran' = ran
      /\ \/ pc' = pc
         \/ pc = "boot" /\ pc' = "banner"
         \/ pc = "banner" /\ pc' = "prompt"
  BY DEF kmain_clears, banner, spin, shell_vars
<1>2. LineTypes'
  BY <1>1 DEF LineInv, LineTypes
<1>3. Start' = Start /\ Line' = Line /\ Input(Len(ends))' = Input(Len(ends))
  BY <1>1 DEF Start, Line, Input
<1>4. Edited'
  BY <1>1, <1>3 DEF LineInv, Edited
<1>5. RunsWhatWasTyped'
  BY <1>1 DEF LineInv, RunsWhatWasTyped, Input
<1>6. QED
  BY <1>2, <1>4, <1>5 DEF LineInv

LEMMA KeyStep ==
  ASSUME LineInv, NEW c \in Typable, read_key(c)
  PROVE  LineInv'
<1>1. pc = "read" /\ typed' = Append(typed, c) /\ ran' = ran
  BY DEF read_key
<1>2. LEN \in Nat \ {0}
  BY ShellAssumption
<1>3. /\ typed \in Seq(Typable) /\ ends \in Seq(Nat)
      /\ ran \in Seq(Seq(Typable)) /\ Len(ends) = Len(ran)
      /\ buf \in [0 .. LEN -> Char \cup {NL, NUL}]
      /\ written \in 0 .. LEN /\ written < LEN
      /\ Holds(Line, buf, written) /\ Open(Line, Len(Line))
  BY <1>1 DEF LineInv, LineTypes, Edited
<1>4. /\ Len(typed) \in Nat /\ Len(ends) \in Nat
      /\ \A n \in 1 .. Len(ends) : ends[n] \in Nat /\ ends[n] <= Len(typed)
  BY ElementOfSeq, LenProperties DEF LineInv, LineTypes
<1>5. typed' \in Seq(Typable) /\ Len(typed') = Len(typed) + 1
  BY <1>1, <1>3, Appended
<1>6. Start \in Nat /\ Start <= Len(typed) /\ Start + 1 \in 1 .. Len(typed) + 1 /\ Start + 1 \in Nat \ {0}
  BY LastLine DEF LineInv
<1>7. /\ Line \in Seq(Typable)
      /\ SubSeq(typed', Start + 1, Len(typed')) = Append(Line, c)
  <2>1. Len(typed) <= Len(typed)
    BY <1>4
  <2>2. QED
    <3>1. Line \in Seq(Typable)
      BY <1>3, <1>4, <1>6, <2>1, Part DEF Line
    <3>2. SubSeq(Append(typed, c), Start + 1, Len(typed) + 1) = Append(Line, c)
      BY <1>3, <1>6, PartNext DEF Line
    <3>3. QED
      BY <1>1, <1>5, <3>1, <3>2
<1>8. BS \in Typable
  BY DEF Typable
<1>9. LineTypes
  BY DEF LineInv
<1>10. CASE ends' = ends /\ pc' = pc
  <2>1. Line' = Append(Line, c) /\ Start' = Start
    BY <1>7, <1>10 DEF Line, Start
  <2>2. \A n \in 1 .. Len(ends) : ends[n] <= Len(typed')
    BY <1>4, <1>5
  <2>3. AllRun(typed', ends', ran')
    <3>1. AllRun(typed, ends, ran)
      BY RunsAre DEF LineInv
    <3>2. 0 \in Nat
      OBVIOUS
    <3>3. \A n \in 1 .. Len(ends) : In(typed', ends, n) = In(typed, ends, n)
      BY <1>1, <1>9, <3>2, InputStays
    <3>4. QED
      BY <1>1, <1>3, <1>10, <3>1, <3>3 DEF AllRun
  <2>4. RunsWhatWasTyped'
    BY <2>3 DEF RunsWhatWasTyped, AllRun, RunAs, Open, Input, In
  <2>5. CASE c = BS
    <3>1. buf' = buf /\ written' = IF written > 0 THEN written - 1 ELSE written
      BY <2>5 DEF read_key, backspace
    <3>2. written' \in 0 .. LEN /\ written' < LEN
      BY <1>2, <1>3, <3>1
    <3>3. LineTypes'
      BY <1>1, <1>3, <1>5, <1>10, <2>2, <3>1, <3>2 DEF LineTypes
    <3>4. Holds(Line', buf', written')
      BY <1>3, <1>7, <1>8, <2>1, <2>5, <3>1, HoldsLess
    <3>5. Len(Kept(Line')) = written'
      <4>1. Append(Line, c) \in Seq(Typable) /\ Holds(Append(Line, c), buf', written')
        BY <1>7, <2>1, <3>4, Appended
      <4>2. Len(Kept(Append(Line, c))) = written'
        BY <4>1, HoldsKept
      <4>3. QED
        BY <2>1, <4>2
    <3>6. c # NL
      BY <2>5 DEF NL, BS
    <3>7. Open(Line', Len(Line'))
      BY <1>3, <1>7, <2>1, <3>2, <3>5, <3>6, OpenMore
    <3>8. Edited'
      BY <1>1, <1>10, <3>2, <3>4, <3>7 DEF Edited
    <3>9. QED
      BY <2>4, <3>3, <3>8 DEF LineInv
  <2>6. CASE c # BS
    <3>1. /\ buf' = [buf EXCEPT ![written] = c] /\ written' = written + 1
          /\ ~ (c = NL \/ written' = LEN)
      BY <1>1, <1>10, <2>6 DEF read_key, store
    <3>2. written' \in 0 .. LEN /\ written' < LEN
      BY <1>2, <1>3, <3>1
    <3>3. c \in Char \cup {NL, NUL}
      BY <2>6 DEF Typable
    <3>4. buf' \in [0 .. LEN -> Char \cup {NL, NUL}]
      BY <1>3, <3>1, <3>3
    <3>5. LineTypes'
      BY <1>1, <1>3, <1>5, <1>10, <2>2, <3>2, <3>4 DEF LineTypes
    <3>6. Holds(Line', buf', written')
      BY <1>2, <1>3, <1>7, <2>1, <2>6, <3>1, HoldsMore
    <3>7. Len(Kept(Line')) = written'
      <4>1. Append(Line, c) \in Seq(Typable) /\ Holds(Append(Line, c), buf', written')
        BY <1>7, <2>1, <3>6, Appended
      <4>2. Len(Kept(Append(Line, c))) = written'
        BY <4>1, HoldsKept
      <4>3. QED
        BY <2>1, <4>2
    <3>8. Open(Line', Len(Line'))
      BY <1>3, <1>7, <2>1, <3>1, <3>2, <3>7, OpenMore
    <3>9. Edited'
      BY <1>1, <1>10, <3>2, <3>6, <3>8 DEF Edited
    <3>10. QED
      BY <2>4, <3>5, <3>9 DEF LineInv
  <2>7. QED
    BY <2>5, <2>6
<1>11. CASE ~ (ends' = ends /\ pc' = pc)
  <2>1. /\ c # BS /\ buf' = [buf EXCEPT ![written] = c] /\ written' = written + 1
        /\ c = NL \/ written' = LEN
        /\ pc' = "run" /\ ends' = Append(ends, Len(typed'))
    BY <1>11 DEF read_key, store, backspace
  <2>2. written' \in 0 .. LEN /\ written' \in Nat \ {0}
    BY <1>2, <1>3, <2>1
  <2>3. c \in Char \cup {NL, NUL}
    BY <2>1 DEF Typable
  <2>4. buf' \in [0 .. LEN -> Char \cup {NL, NUL}]
    BY <1>3, <2>1, <2>3
  <2>5. Len(typed') \in Nat
    BY <1>4, <1>5
  <2>6. /\ ends' \in Seq(Nat) /\ Len(ends') = Len(ends) + 1
        /\ ends'[Len(ends) + 1] = Len(typed')
        /\ \A n \in 1 .. Len(ends) : ends'[n] = ends[n]
    BY <1>3, <2>1, <2>5, Appended
  <2>7. \A n \in 1 .. Len(ends') : ends'[n] <= Len(typed')
    <3>1. \A n \in 1 .. Len(ends') : n = Len(ends) + 1 \/ n \in 1 .. Len(ends)
      BY <1>4, <2>6
    <3>2. \A n \in 1 .. Len(ends) : ends'[n] <= Len(typed')
      BY <1>4, <1>5, <2>6
    <3>3. QED
      BY <2>5, <2>6, <3>1, <3>2
  <2>8. LineTypes'
    BY <1>1, <1>3, <1>5, <2>1, <2>2, <2>4, <2>6, <2>7 DEF LineTypes
  <2>9. Start' = Len(typed')
    <3>1. ends' # <<>>
      BY <1>4, <2>6, EmptySeq
    <3>2. QED
      BY <2>6, <3>1 DEF Start
  <2>10. In(typed', ends', Len(ends')) = Append(Line, c)
    <3>1. Start + 1 = IF Len(ends') = 1 THEN 1 ELSE ends'[Len(ends') - 1] + 1
      <4>1. CASE ends = <<>>
        <5>1. Len(ends) = 0 /\ Start = 0
          BY <4>1, EmptySeq DEF Start
        <5>2. QED
          BY <2>6, <5>1
      <4>2. CASE ends # <<>>
        <5>1. Len(ends) \in 1 .. Len(ends) /\ Start = ends[Len(ends)]
          BY <1>3, <1>4, <4>2, EmptySeq DEF Start
        <5>2. Len(ends') # 1 /\ Len(ends') - 1 = Len(ends)
          BY <1>4, <2>6, <5>1
        <5>3. QED
          BY <2>6, <5>1, <5>2
      <4>3. QED
        BY <4>1, <4>2
    <3>2. ends'[Len(ends')] = Len(typed')
      BY <2>6
    <3>3. QED
      BY <1>7, <3>1, <3>2 DEF In
  <2>11. Input(Len(ends))' = Append(Line, c)
    BY <2>10 DEF Input, In
  <2>12. Complete(Append(Line, c), buf', written')
    <3>1. Holds(Append(Line, c), buf', written')
      BY <1>2, <1>3, <1>7, <2>1, HoldsMore
    <3>2. Open(Append(Line, c), Len(Append(Line, c)) - 1)
      BY <1>3, <1>7, OpenStays
    <3>3. Append(Line, c)[Len(Append(Line, c))] = c
      BY <1>7, Appended
    <3>4. QED
      BY <2>1, <2>2, <3>1, <3>2, <3>3 DEF Complete
  <2>13. Edited'
    BY <2>1, <2>9, <2>11, <2>12 DEF Edited
  <2>14. AllRun(typed', ends', ran')
    <3>1. AllRun(typed, ends, ran)
      BY RunsAre DEF LineInv
    <3>2. \A n \in 1 .. Len(ends) : In(typed', ends', n) = In(typed, ends, n)
      BY <1>1, <1>9, <2>1, <2>5, InputStays
    <3>3. QED
      BY <1>1, <1>3, <3>1, <3>2 DEF AllRun
  <2>15. RunsWhatWasTyped'
    BY <2>14 DEF RunsWhatWasTyped, AllRun, RunAs, Open, Input, In
  <2>16. QED
    BY <2>8, <2>13, <2>15 DEF LineInv
<1>12. QED
  BY <1>10, <1>11

(* The string ends where the newline was, or the last byte. *)
LEMMA StringIs ==
  ASSUME NEW b \in [0 .. LEN -> Char \cup {NL, NUL}], NEW n \in Nat \ {0}, n <= LEN,
         \A k \in 0 .. n - 2 : b[k] # NUL
  PROVE  String([b EXCEPT ![n - 1] = NUL]) = [k \in 1 .. n - 1 |-> b[k - 1]]
<1> DEFINE e == [b EXCEPT ![n - 1] = NUL]
           S == {k \in DOMAIN e : e[k] = NUL}
<1>1. LEN \in Nat
  BY ShellAssumption
<1>2. DOMAIN e = 0 .. LEN /\ n - 1 \in 0 .. LEN /\ e[n - 1] = NUL
  BY <1>1
<1>3. \A k \in 0 .. n - 2 : k \in 0 .. LEN /\ e[k] = b[k]
  BY <1>1
<1> HIDE DEF e
<1>4. n - 1 \in S
  BY <1>2
<1>5. ASSUME NEW k \in S PROVE k \in Int /\ n - 1 <= k
  <2>1. k \in 0 .. LEN /\ e[k] = NUL
    BY <1>2
  <2>2. k \notin 0 .. n - 2
    BY <1>3, <2>1
  <2>3. QED
    BY <1>1, <2>1, <2>2
<1> HIDE DEF S
<1>6. Min(S) = n - 1
  BY <1>4, <1>5 DEF Min
<1>7. String(e) = [k \in 1 .. n - 1 |-> e[k - 1]]
  BY <1>6 DEF String, S
<1>8. \A k \in 1 .. n - 1 : k - 1 \in 0 .. n - 2
  OBVIOUS
<1>9. [k \in 1 .. n - 1 |-> e[k - 1]] = [k \in 1 .. n - 1 |-> b[k - 1]]
  BY <1>3, <1>8
<1>10. QED
  BY <1>7, <1>9 DEF e

(* No key is a carriage return, so none is cut off. *)
LEMMA TerminatedIs ==
  ASSUME buf \in [0 .. LEN -> Char \cup {NL, NUL}], written \in Nat \ {0}, written <= LEN
  PROVE  terminated = [buf EXCEPT ![written - 1] = NUL]
<1> DEFINE b == [buf EXCEPT ![written - 1] = NUL]
<1>1. LEN \in Nat /\ CR \notin Char \cup {NL, NUL}
  BY ShellAssumption DEF CR, NL, NUL
<1>2. b \in [0 .. LEN -> Char \cup {NL, NUL}]
  OBVIOUS
<1> HIDE DEF b
<1>3. written > 1 => written - 2 \in 0 .. LEN
  BY <1>1
<1>4. ~ (written > 1 /\ b[written - 2] = CR)
  BY <1>1, <1>2, <1>3
<1>5. terminated = IF written > 1 /\ b[written - 2] = CR THEN [b EXCEPT ![written - 2] = NUL] ELSE b
  BY DEF terminated, b
<1>6. terminated = b
  BY <1>4, <1>5
<1>7. QED
  BY <1>6 DEF b

(* The string that is compared, and what was typed. *)
LEMMA CommandIs ==
  ASSUME LineInv, pc = "run"
  PROVE  /\ Complete(Input(Len(ends)), buf, written) /\ written \in Nat \ {0} /\ written <= LEN
         /\ terminated = [buf EXCEPT ![written - 1] = NUL]
         /\ String(terminated) \in Seq(Typable) /\ Len(String(terminated)) = written - 1
         /\ RunAs(Input(Len(ends)), String(terminated))
<1> DEFINE s == Input(Len(ends))
           r == String(terminated)
<1>2. /\ typed \in Seq(Typable) /\ ends \in Seq(Nat)
      /\ \A n \in 1 .. Len(ends) : ends[n] <= Len(typed)
      /\ ran \in Seq(Seq(Typable)) /\ Len(ends) = Len(ran) + 1
      /\ buf \in [0 .. LEN -> Char \cup {NL, NUL}] /\ written \in 0 .. LEN
      /\ Complete(s, buf, written) /\ Start = Len(typed)
  BY DEF LineInv, LineTypes, Edited
<1>3. LEN \in Nat /\ NUL \notin Typable
  BY ShellAssumption DEF Typable, NUL, NL, BS
<1>4. /\ written \in Nat \ {0} /\ written <= LEN
      /\ Holds(s, buf, written) /\ Open(s, Len(s) - 1) /\ (s[Len(s)] = NL \/ written = LEN)
  BY <1>2, <1>3 DEF Complete
<1>5. s \in Seq(Typable)
  <2>1. Len(ran) \in Nat /\ Len(typed) \in Nat /\ Len(ends) \in 1 .. Len(ends) /\ Len(ends) \in Nat
    BY <1>2, LenProperties
  <2>2. \A n \in 1 .. Len(ends) : ends[n] \in Nat
    BY <1>2, ElementOfSeq
  <2> DEFINE from == IF Len(ends) = 1 THEN 1 ELSE ends[Len(ends) - 1] + 1
  <2>3. from \in Nat \ {0} /\ ends[Len(ends)] \in Nat /\ ends[Len(ends)] <= Len(typed)
    <3>1. Len(ends) = 1 \/ Len(ends) - 1 \in 1 .. Len(ends)
      BY <2>1
    <3>2. QED
      BY <1>2, <2>1, <2>2, <3>1
  <2> HIDE DEF from
  <2>4. SubSeq(typed, from, ends[Len(ends)]) \in Seq(Typable)
    BY <1>2, <2>3, Part
  <2>5. QED
    BY <2>4 DEF Input, from
<1>6. /\ Kept(s) = [k \in 1 .. written |-> buf[k - 1]]
      /\ \A k \in 1 .. written : buf[k - 1] \in Typable
      /\ Kept(s) \in Seq(Typable) /\ Len(Kept(s)) = written
  <2> HIDE DEF s
  <2>1. QED
    BY <1>4, <1>5, HoldsKept
<1>7. r = [k \in 1 .. written - 1 |-> buf[k - 1]]
  <2>1. \A k \in 0 .. written - 2 : k + 1 \in 1 .. written /\ buf[(k + 1) - 1] = buf[k]
    BY <1>4
  <2>2. \A k \in 0 .. written - 2 : buf[k] # NUL
    BY <1>3, <1>6, <2>1
  <2>3. QED
    BY <1>2, <1>4, <2>2, StringIs, TerminatedIs
<1> HIDE DEF r
<1>8. r = SubSeq(Kept(s), 1, Len(Kept(s)) - 1) /\ r \in Seq(Typable) /\ Len(r) = written - 1
  <2> DEFINE u == SubSeq(Kept(s), 1, Len(Kept(s)) - 1)
  <2>1. 1 \in Nat \ {0} /\ written - 1 \in Nat /\ written - 1 <= Len(Kept(s))
    BY <1>4, <1>6
  <2>2. /\ u \in Seq(Typable) /\ Len(u) = IF 1 <= written - 1 THEN (written - 1) - 1 + 1 ELSE 0
        /\ \A i \in 1 .. (written - 1) - 1 + 1 : u[i] = Kept(s)[1 + i - 1]
    <3>1. u = SubSeq(Kept(s), 1, written - 1) /\ Kept(s) \in Seq(Typable)
      BY <1>6
    <3> HIDE DEF s, u
    <3>2. QED
      BY <2>1, <3>1, Part
  <2> HIDE DEF u
  <2>3. \A k \in 1 .. written - 1 : k \in 1 .. written
    BY <1>4
  <2>4. r \in Seq(Typable) /\ Len(r) = written - 1
    BY <1>6, <1>7, <2>1, <2>3
  <2>5. Len(u) = Len(r)
    BY <1>4, <2>2, <2>4
  <2>6. \A i \in 1 .. Len(u) : u[i] = r[i]
    <3>1. \A i \in 1 .. Len(u) : i \in 1 .. written - 1 /\ i \in 1 .. (written - 1) - 1 + 1 /\ 1 + i - 1 = i
      BY <1>4, <2>2
    <3>2. QED
      BY <1>6, <1>7, <2>2, <2>3, <3>1
  <2>7. u = r
    BY <2>2, <2>4, <2>5, <2>6, SeqEqual
  <2>8. QED
    BY <2>4, <2>7 DEF u
<1>9. RunAs(s, r)
  BY <1>4, <1>6, <1>8 DEF RunAs
<1>10. QED
  BY <1>2, <1>4, <1>8, <1>9, TerminatedIs DEF r

LEMMA RunStep ==
  ASSUME LineInv, run
  PROVE  LineInv'
<1> DEFINE s == Input(Len(ends))
           r == String(terminated)
<1>1. /\ pc = "run" /\ buf' = [buf EXCEPT ![written - 1] = NUL] /\ ran' = Append(ran, r)
      /\ pc' \in {"exited", "prompt"}
      /\ written' = written /\ typed' = typed /\ ends' = ends
  <2>1. pc = "run" /\ buf' = terminated
    BY DEF run
  <2>2. QED
    BY <2>1, CommandIs DEF run
<1>2. /\ typed \in Seq(Typable) /\ ends \in Seq(Nat)
      /\ \A n \in 1 .. Len(ends) : ends[n] <= Len(typed)
      /\ ran \in Seq(Seq(Typable)) /\ Len(ends) = Len(ran) + 1
      /\ buf \in [0 .. LEN -> Char \cup {NL, NUL}] /\ written \in 0 .. LEN
      /\ Start = Len(typed)
  BY <1>1 DEF LineInv, LineTypes, Edited
<1>3. LEN \in Nat
  BY ShellAssumption
<1>4. written \in Nat \ {0} /\ written <= LEN /\ r \in Seq(Typable) /\ RunAs(s, r)
  BY <1>1, CommandIs
<1> HIDE DEF r
<1>9. /\ ran' \in Seq(Seq(Typable)) /\ Len(ran') = Len(ran) + 1 /\ ran'[Len(ran) + 1] = r
      /\ Len(ran) \in Nat /\ \A n \in 1 .. Len(ran) : ran'[n] = ran[n]
  BY <1>1, <1>2, <1>4, Appended
<1>10. buf' \in [0 .. LEN -> Char \cup {NL, NUL}]
  <2>1. written - 1 \in 0 .. LEN
    BY <1>3, <1>4
  <2>2. QED
    BY <1>1, <1>2, <2>1
<1>11. LineTypes'
  <2>1. pc' \in {"boot", "banner", "prompt", "read", "run", "exited"} /\ pc' # "run"
    BY <1>1
  <2>2. QED
    BY <1>1, <1>2, <1>9, <1>10, <2>1 DEF LineTypes
<1>12. Edited'
  <2>1. Start' = Len(typed')
    BY <1>1, <1>2 DEF Start
  <2>2. pc' # "read" /\ pc' # "run"
    BY <1>1
  <2>3. QED
    BY <2>1, <2>2 DEF Edited
<1>13. RunsWhatWasTyped'
  <2>1. AllRun(typed, ends, ran)
    BY RunsAre DEF LineInv
  <2>2. RunAs(s, r)
    BY <1>4
  <2>3. s = In(typed, ends, Len(ran) + 1)
    BY <1>2 DEF Input, In
  <2>4. ASSUME NEW n \in 1 .. Len(ran') PROVE RunAs(In(typed', ends', n), ran'[n])
    <3>1. n = Len(ran) + 1 \/ n \in 1 .. Len(ran)
      BY <1>9
    <3>2. QED
      BY <1>1, <1>9, <2>1, <2>2, <2>3, <3>1 DEF AllRun
  <2>5. AllRun(typed', ends', ran')
    BY <2>4 DEF AllRun
  <2>6. QED
    BY <2>5 DEF RunsWhatWasTyped, AllRun, RunAs, Open, Input, In
<1>14. QED
  BY <1>11, <1>12, <1>13 DEF LineInv

LEMMA LineKept == ShellSpec => []LineInv
<1>1. LineInv /\ [ShellNext]_shell_vars => LineInv'
  <2> SUFFICES ASSUME LineInv, [ShellNext]_shell_vars PROVE LineInv'
    OBVIOUS
  <2>1. CASE \E c \in Char \cup {NL, BS} : read_key(c)
    BY <2>1, KeyStep DEF Typable
  <2>2. QED
    BY <2>1, QuietStep, PromptStep, RunStep DEF ShellNext
<1>2. QED
  BY <1>1, LineInit, PTL DEF ShellSpec

(* What the shell compares with its commands is what was typed: from one   *)
(* return of sys_read to the next, without what was erased, whatever the   *)
(* buffer held before.                                                     *)
THEOREM LinesAreRun == ShellSpec => []RunsWhatWasTyped
<1>1. LineInv => RunsWhatWasTyped
  BY DEF LineInv
<1>2. QED
  BY <1>1, LineKept, PTL

-----------------------------------------------------------------------------
(***************************************************************************)
(* Console: a text, character by character, and the bytes it becomes.      *)
(***************************************************************************)
LEMMA LeastExists ==
  ASSUME NEW S \in SUBSET Nat, S # {}
  PROVE  \E f \in S : \A g \in S : f <= g
<1>1. PICK f \in S : \A g \in S : ~ (<<g, f>> \in OpToRel(<, Nat))
  BY NatLessThanWellFounded, WFMin
<1>2. \A g \in S : ~ (g < f)
  BY <1>1 DEF OpToRel
<1>3. QED
  BY <1>2

(* A loop over the members of a sequence with a state in V: round k makes  *)
(* step[k][x] of x.                                                        *)
IsRun(f, V, n, a, step) ==
  /\ f \in [0 .. n -> V]
  /\ f[0] = a
  /\ \A k \in 1 .. n : f[k] = step[k][f[k - 1]]

LEMMA RunExists ==
  ASSUME NEW n \in Nat, NEW V, NEW a \in V, NEW step \in [1 .. n -> [V -> V]]
  PROVE  \E f : IsRun(f, V, n, a, step)
<1> DEFINE Runs(m) == \E f : IsRun(f, V, m, a, step)
           Stuck == {m \in Nat : m <= n /\ ~ Runs(m)}
<1> HIDE DEF Runs
<1>1. SUFFICES ASSUME Stuck # {} PROVE FALSE
  <2>1. n \notin Stuck => Runs(n)
    OBVIOUS
  <2> HIDE DEF Stuck
  <2>2. QED
    BY <2>1 DEF Runs
<1>2. PICK m \in Stuck : \A l \in Stuck : m <= l
  BY <1>1, LeastExists
<1>3. m # 0
  <2>1. IsRun([k \in 0 .. 0 |-> a], V, 0, a, step)
    BY DEF IsRun
  <2>2. Runs(0)
    BY <2>1 DEF Runs
  <2>3. QED
    BY <2>2
<1>4. m - 1 \in Nat /\ m - 1 \notin Stuck /\ m - 1 <= n
  BY <1>2, <1>3
<1>5. PICK f : IsRun(f, V, m - 1, a, step)
  BY <1>4 DEF Runs
<1> DEFINE g == [k \in 0 .. m |-> IF k = m THEN step[m][f[m - 1]] ELSE f[k]]
<1>6. f \in [0 .. m - 1 -> V] /\ f[0] = a /\ \A k \in 1 .. m - 1 : f[k] = step[k][f[k - 1]]
  BY <1>5 DEF IsRun
<1>7. step[m][f[m - 1]] \in V
  <2>1. f[m - 1] \in V /\ m \in 1 .. n
    BY <1>2, <1>3, <1>4, <1>6
  <2>2. step[m] \in [V -> V]
    BY <2>1
  <2>3. QED
    BY <2>1, <2>2
<1>8. g \in [0 .. m -> V]
  <2>1. ASSUME NEW k \in 0 .. m PROVE g[k] \in V
    <3>1. k = m \/ k \in 0 .. m - 1
      BY <1>4
    <3>2. QED
      BY <1>6, <1>7, <3>1
  <2>2. QED
    BY <2>1
<1>9. \A k \in 0 .. m - 1 : g[k] = f[k]
  BY <1>4
<1>10. \A k \in 1 .. m : g[k] = step[k][g[k - 1]]
  <2> SUFFICES ASSUME NEW k \in 1 .. m PROVE g[k] = step[k][g[k - 1]]
    OBVIOUS
  <2>1. k - 1 \in 0 .. m - 1
    BY <1>4
  <2>2. CASE k = m
    BY <1>9, <2>1, <2>2
  <2>3. CASE k # m
    <3>1. k \in 1 .. m - 1 /\ k \in 0 .. m - 1
      BY <1>4, <2>3
    <3>2. QED
      BY <1>6, <1>9, <2>1, <3>1
  <2>4. QED
    BY <2>2, <2>3
<1>11. g[0] = a
  BY <1>4, <1>6, <1>9
<1>12. IsRun(g, V, m, a, step)
  <2> HIDE DEF g
  <2> QED
    BY <1>8, <1>10, <1>11 DEF IsRun
<1>13. QED
  BY <1>2, <1>12 DEF Runs


(* All that is ever printed, or on the screen. *)
Glyph == STRING \cup {NL, CR, BS, HOME, NUL, TAB, ESC, Blank, "?", "!", "junk"}

Bytes(c) == IF c = NL THEN <<CR, NL>> ELSE <<c>>

LEMMA BytesTyped == \A c \in Glyph : Bytes(c) \in Seq(Glyph)
<1> SUFFICES ASSUME NEW c \in Glyph PROVE Bytes(c) \in Seq(Glyph)
  OBVIOUS
<1>1. CR \in Glyph /\ NL \in Glyph
  BY DEF Glyph
<1>2. <<CR, NL>> \in Seq(Glyph) /\ <<c>> \in Seq(Glyph)
  BY <1>1
<1>3. QED
  BY <1>2 DEF Bytes

(* What is sent after each of a text's characters. *)
IsSent(f, text) ==
  /\ f \in [0 .. Len(text) -> Seq(Glyph)] /\ f[0] = <<>>
  /\ \A k \in 1 .. Len(text) : f[k] = f[k - 1] \o Bytes(text[k])

LEMMA SentIs ==
  ASSUME NEW text \in Seq(Glyph)
  PROVE  \E f : IsSent(f, text) /\ f[Len(text)] = serial_printf(text)
<1> DEFINE L == Len(text)
           Defines(f) == f = [k \in 0 .. Len(text) |->
             IF k = 0 THEN <<>>
             ELSE f[k - 1] \o (IF text[k] = NL THEN <<CR, NL>> ELSE <<text[k]>>)]
           Works(f) == f = [k \in 0 .. L |-> IF k = 0 THEN <<>> ELSE f[k - 1] \o Bytes(text[k])]
           step == [k \in 1 .. L |-> [x \in Seq(Glyph) |-> x \o Bytes(text[k])]]
<1>1. serial_printf(text) = (CHOOSE f : Defines(f))[L]
  BY DEF serial_printf
<1>2. \A f : Defines(f) <=> Works(f)
  BY DEF Bytes
<1>3. L \in Nat /\ \A k \in 1 .. L : text[k] \in Glyph
  BY LenProperties, ElementOfSeq
<1> HIDE DEF L
<1>4. step \in [1 .. L -> [Seq(Glyph) -> Seq(Glyph)]]
  <2>1. ASSUME NEW k \in 1 .. L, NEW x \in Seq(Glyph) PROVE x \o Bytes(text[k]) \in Seq(Glyph)
    BY <1>3, BytesTyped, ConcatProperties
  <2>2. QED
    BY <2>1
<1>5. PICK f : IsRun(f, Seq(Glyph), L, <<>>, step)
  <2>1. <<>> \in Seq(Glyph)
    OBVIOUS
  <2> HIDE DEF step
  <2>2. QED
    BY <1>3, <1>4, <2>1, RunExists
<1>6. f \in [0 .. L -> Seq(Glyph)] /\ f[0] = <<>> /\ \A k \in 1 .. L : f[k] = step[k][f[k - 1]]
  BY <1>5 DEF IsRun
<1>7. \A k \in 1 .. L : f[k] = f[k - 1] \o Bytes(text[k])
  <2> SUFFICES ASSUME NEW k \in 1 .. L PROVE f[k] = f[k - 1] \o Bytes(text[k])
    OBVIOUS
  <2>1. k - 1 \in 0 .. L
    BY <1>3
  <2>2. f[k - 1] \in Seq(Glyph)
    BY <1>6, <2>1
  <2>3. QED
    BY <1>6, <2>2
<1>8. Works(f)
  <2>1. \A k \in 0 .. L : k = 0 \/ k \in 1 .. L
    BY <1>3
  <2>2. \A k \in 0 .. L : f[k] = IF k = 0 THEN <<>> ELSE f[k - 1] \o Bytes(text[k])
    BY <1>6, <1>7, <2>1
  <2>3. QED
    BY <1>6, <2>2
<1> DEFINE h == CHOOSE g : Defines(g)
<1>9. Works(h)
  <2> HIDE DEF Defines, Works
  <2>1. QED
    BY <1>2, <1>8
<1>10. h[L] = serial_printf(text)
  BY <1>1
<1> HIDE DEF h, Defines
<1>11. h[0] = <<>> /\ DOMAIN h = 0 .. L
  BY <1>3, <1>9
<1>12. \A k \in 1 .. L : h[k] = h[k - 1] \o Bytes(text[k])
  <2>1. \A k \in 1 .. L : k \in 0 .. L /\ k # 0
    BY <1>3
  <2>2. QED
    BY <1>9, <2>1
<1>13. \A k \in 0 .. L : h[k] \in Seq(Glyph)
  <2> DEFINE Wrong == {k \in Nat : k <= L /\ h[k] \notin Seq(Glyph)}
  <2>1. SUFFICES ASSUME Wrong # {} PROVE FALSE
    BY <1>3
  <2>2. PICK m \in Wrong : \A l \in Wrong : m <= l
    BY <2>1, LeastExists
  <2>3. m # 0
    <3>1. <<>> \in Seq(Glyph)
      OBVIOUS
    <3>2. QED
      BY <1>11, <2>2, <3>1
  <2>4. m \in 1 .. L /\ m - 1 \in Nat /\ m - 1 <= L /\ m - 1 \notin Wrong
    BY <1>3, <2>2, <2>3
  <2>5. h[m - 1] \in Seq(Glyph) /\ Bytes(text[m]) \in Seq(Glyph)
    BY <1>3, <2>4, BytesTyped
  <2>6. h[m] \in Seq(Glyph)
    BY <1>12, <2>4, <2>5, ConcatProperties
  <2>7. QED
    BY <2>2, <2>6
<1>14. h = [k \in 0 .. L |-> h[k]]
  BY <1>9
<1>15. h \in [0 .. L -> Seq(Glyph)]
  BY <1>13, <1>14
<1>16. IsSent(h, text)
  BY <1>11, <1>12, <1>15 DEF IsSent, L
<1>17. QED
  BY <1>10, <1>16 DEF L

LEMMA SentTyped ==
  ASSUME NEW text \in Seq(Glyph)
  PROVE  serial_printf(text) \in Seq(Glyph) /\ (text = <<>> => serial_printf(text) = <<>>)
<1>1. PICK f : IsSent(f, text) /\ f[Len(text)] = serial_printf(text)
  BY SentIs
<1>2. Len(text) \in 0 .. Len(text)
  BY LenProperties
<1>3. text = <<>> => Len(text) = 0
  BY EmptySeq
<1>4. QED
  BY <1>1, <1>2, <1>3 DEF IsSent

(* A text without newlines is sent as it is. *)
LEMMA SentPlain ==
  ASSUME NEW text \in Seq(Glyph), \A k \in 1 .. Len(text) : text[k] # NL
  PROVE  serial_printf(text) = text
<1> DEFINE L == Len(text)
<1>1. PICK f : IsSent(f, text) /\ f[L] = serial_printf(text)
  BY SentIs
<1>2. L \in Nat /\ \A k \in 1 .. L : text[k] \in Glyph /\ text[k] # NL
  BY LenProperties, ElementOfSeq
<1>3. /\ f \in [0 .. L -> Seq(Glyph)] /\ f[0] = <<>>
      /\ \A k \in 1 .. L : f[k] = f[k - 1] \o <<text[k]>>
  BY <1>1, <1>2 DEF IsSent, Bytes
<1> HIDE DEF L
<1> DEFINE Same(m) == Len(f[m]) = m /\ \A i \in 1 .. m : f[m][i] = text[i]
           Wrong == {m \in Nat : m <= L /\ ~ Same(m)}
<1>4. Same(0)
  BY <1>3, EmptySeq
<1>5. ASSUME NEW m \in 1 .. L, Same(m - 1) PROVE Same(m)
  <2>1. m - 1 \in 0 .. L /\ m - 1 \in Nat
    BY <1>2
  <2>2. f[m - 1] \in Seq(Glyph) /\ Len(f[m - 1]) = m - 1 /\ \A i \in 1 .. m - 1 : f[m - 1][i] = text[i]
    BY <1>3, <1>5, <2>1
  <2>3. f[m] = f[m - 1] \o <<text[m]>> /\ <<text[m]>> \in Seq(Glyph) /\ Len(<<text[m]>>) = 1 /\ <<text[m]>>[1] = text[m]
    <3>1. text[m] \in Glyph /\ f[m] = f[m - 1] \o <<text[m]>>
      BY <1>2, <1>3
    <3>2. \A x \in Glyph : <<x>> \in Seq(Glyph) /\ Len(<<x>>) = 1 /\ <<x>>[1] = x
      OBVIOUS
    <3>3. QED
      BY <3>1, <3>2
  <2> DEFINE one == <<text[m]>>
             old == f[m - 1]
             new == f[m]
  <2>4. new = old \o one /\ one \in Seq(Glyph) /\ Len(one) = 1 /\ one[1] = text[m]
    BY <2>3
  <2>5. old \in Seq(Glyph) /\ Len(old) = m - 1 /\ \A i \in 1 .. m - 1 : old[i] = text[i]
    BY <2>2
  <2> HIDE DEF one, old, new
  <2>6. /\ Len(new) = Len(old) + Len(one)
        /\ \A i \in 1 .. Len(old) + Len(one) : new[i] = IF i <= Len(old) THEN old[i] ELSE one[i - Len(old)]
    BY <2>4, <2>5, ConcatProperties
  <2>7. Len(new) = m
    BY <2>1, <2>4, <2>5, <2>6
  <2>8. ASSUME NEW i \in 1 .. m PROVE new[i] = text[i]
    <3>1. i \in 1 .. Len(old) + Len(one)
      BY <2>1, <2>4, <2>5
    <3>2. CASE i = m
      <4>1. ~ (i <= Len(old)) /\ i - Len(old) = 1
        BY <2>1, <2>5, <3>2
      <4>2. QED
        BY <2>4, <2>6, <3>1, <3>2, <4>1
    <3>3. CASE i # m
      <4>1. i <= Len(old) /\ i \in 1 .. m - 1
        BY <2>1, <2>5, <3>3
      <4>2. QED
        BY <2>5, <2>6, <3>1, <4>1
    <3>4. QED
      BY <3>2, <3>3
  <2>9. QED
    BY <2>7, <2>8 DEF new
<1> HIDE DEF Same
<1>6. Wrong = {}
  <2>1. SUFFICES ASSUME Wrong # {} PROVE FALSE
    OBVIOUS
  <2>2. PICK m \in Wrong : \A l \in Wrong : m <= l
    BY <2>1, LeastExists
  <2>3. m # 0
    BY <1>4, <2>2
  <2>4. m \in 1 .. L /\ m - 1 \in Nat /\ m - 1 <= L /\ m - 1 \notin Wrong
    BY <1>2, <2>2, <2>3
  <2>5. Same(m - 1)
    BY <2>4
  <2>6. QED
    BY <1>5, <2>2, <2>4, <2>5
<1>7. Same(L) /\ f[L] \in Seq(Glyph)
  <2>1. L \in 0 .. L /\ L <= L
    BY <1>2
  <2>2. f[L] \in Seq(Glyph)
    BY <1>3, <2>1
  <2>3. Same(L)
    BY <1>2, <1>6, <2>1
  <2>4. QED
    BY <2>2, <2>3
<1>8. f[L] = text
  BY <1>7, SeqEqual DEF Same, L
<1>9. QED
  BY <1>1, <1>8

(* A text that ends its row. *)
LEMMA SentLast ==
  ASSUME NEW text \in Seq(Glyph), text # <<>>, text[Len(text)] = NL
  PROVE  \E u \in Seq(Glyph) : serial_printf(text) = u \o <<CR, NL>>
<1>1. PICK f : IsSent(f, text) /\ f[Len(text)] = serial_printf(text)
  BY SentIs
<1>2. Len(text) \in 1 .. Len(text) /\ Len(text) - 1 \in 0 .. Len(text)
  BY LenProperties, EmptySeq
<1>3. f[Len(text)] = f[Len(text) - 1] \o <<CR, NL>> /\ f[Len(text) - 1] \in Seq(Glyph)
  BY <1>1, <1>2 DEF IsSent, Bytes
<1>4. QED
  BY <1>1, <1>3

-----------------------------------------------------------------------------
(***************************************************************************)
(* Shell: the terminal.                                                    *)
(***************************************************************************)
Terminals == [row : Seq(Glyph), col : 0 .. WIDTH]

LEMMA Columns == WIDTH \in Nat \ {0}
  BY ShellAssumption

LEMMA MaxOfTwo ==
  ASSUME NEW a \in Int, NEW b \in Int
  PROVE  Max({a, b}) = IF a >= b THEN a ELSE b
<1> DEFINE m == IF a >= b THEN a ELSE b
<1>1. m \in {a, b} /\ \A y \in {a, b} : m >= y
  OBVIOUS
<1>2. \A x \in {a, b} : (\A y \in {a, b} : x >= y) => x = m
  OBVIOUS
<1> HIDE DEF m
<1>3. (CHOOSE x \in {a, b} : \A y \in {a, b} : x >= y) = m
  BY <1>1, <1>2
<1>4. QED
  BY <1>3 DEF Max, m

LEMMA MinOfTwo ==
  ASSUME NEW a \in Int, NEW b \in Int
  PROVE  Min({a, b}) = IF a <= b THEN a ELSE b
<1> DEFINE m == IF a <= b THEN a ELSE b
<1>1. m \in {a, b} /\ \A y \in {a, b} : m <= y
  OBVIOUS
<1>2. \A x \in {a, b} : (\A y \in {a, b} : x <= y) => x = m
  OBVIOUS
<1> HIDE DEF m
<1>3. (CHOOSE x \in {a, b} : \A y \in {a, b} : x <= y) = m
  BY <1>1, <1>2
<1>4. QED
  BY <1>3 DEF Min, m

(* A tab stop is a column. *)
LEMMA StopIsColumn ==
  ASSUME NEW col \in 0 .. WIDTH
  PROVE  NextStop(col) \in 0 .. WIDTH
<1> DEFINE S == {k \in col + 1 .. WIDTH - 1 : k % TABS = 0} \cup {WIDTH - 1}
<1>1. S \subseteq Nat /\ S # {} /\ \A k \in S : k \in 0 .. WIDTH
  BY Columns
<1>2. NextStop(col) = CHOOSE x \in S : \A y \in S : x <= y
  BY DEF NextStop, Min
<1> HIDE DEF S
<1>3. PICK m \in S : \A y \in S : m <= y
  BY <1>1, LeastExists
<1>4. NextStop(col) \in S
  BY <1>2, <1>3
<1>5. QED
  BY <1>1, <1>4

(* A character that moves the cursor by one. *)
Shown(t, c) ==
  [row |-> [k \in 1 .. (IF Len(t.row) >= t.col + 1 THEN Len(t.row) ELSE t.col + 1) |->
              IF k = t.col + 1 THEN c ELSE IF k <= Len(t.row) THEN t.row[k] ELSE Blank],
   col |-> t.col + 1]

LEMMA PutShows ==
  ASSUME NEW t \in Terminals, NEW c
  PROVE  Put(t, c) = Shown(t, c)
<1>1. Len(t.row) \in Int /\ t.col + 1 \in Int
  BY LenProperties DEF Terminals
<1>2. Max({Len(t.row), t.col + 1}) = IF Len(t.row) >= t.col + 1 THEN Len(t.row) ELSE t.col + 1
  BY <1>1, MaxOfTwo
<1>3. QED
  BY <1>2 DEF Put, Shown

LEMMA TopLeftTyped == TopLeft \in Terminals
<1>1. <<>> \in Seq(Glyph) /\ 0 \in 0 .. WIDTH
  BY Columns
<1>2. QED
  BY <1>1 DEF Terminals, TopLeft

Control == {CR, NL, HOME, BS, TAB, ESC}

(* From the margin a character begins a row. *)
From(t) == IF t.col = WIDTH THEN TopLeft ELSE t

LEMMA MovesIs ==
  ASSUME NEW t \in Terminals
  PROVE  /\ Moves(t, CR) = [row |-> t.row, col |-> 0]
         /\ Moves(t, NL) = [row |-> <<>>, col |-> t.col]
         /\ Moves(t, HOME) = TopLeft
         /\ \E x \in 0 .. WIDTH :
              /\ Moves(t, BS) = [row |-> t.row, col |-> x]
              /\ t.col < WIDTH => x = IF t.col > 0 THEN t.col - 1 ELSE 0
         /\ \E x \in 0 .. WIDTH : Moves(t, TAB) = [row |-> t.row, col |-> x]
         /\ \A c : c \notin Control => Moves(t, c) = Shown(From(t), c)
<1>1. /\ t = [row |-> t.row, col |-> t.col] /\ t.row \in Seq(Glyph) /\ t.col \in 0 .. WIDTH
      /\ t.col \in Nat /\ t.col <= WIDTH /\ WIDTH \in Nat \ {0}
  BY Columns DEF Terminals
<1>2. /\ NL # CR /\ HOME # CR /\ HOME # NL /\ BS # CR /\ BS # NL /\ BS # HOME
      /\ TAB # CR /\ TAB # NL /\ TAB # HOME /\ TAB # BS
      /\ ESC \notin {CR, NL, HOME, BS, TAB}
  BY DEF NL, CR, BS, HOME, TAB, ESC
<1>3. t # Anything
  <2>1. Anything.col = -1
    BY DEF Anything
  <2>2. QED
    BY <1>1, <2>1
<1>4. Moves(t, CR) = [t EXCEPT !.col = 0]
  BY <1>2, <1>3 DEF Moves
<1>5. Moves(t, NL) = [t EXCEPT !.row = <<>>]
  BY <1>2, <1>3 DEF Moves
<1>6. Moves(t, HOME) = TopLeft
  BY <1>2, <1>3 DEF Moves
<1>7. \E x \in 0 .. WIDTH :
        /\ Moves(t, BS) = [row |-> t.row, col |-> x]
        /\ t.col < WIDTH => x = IF t.col > 0 THEN t.col - 1 ELSE 0
  <2> DEFINE m == Min({t.col, WIDTH - 1})
             x == Max({m - 1, 0})
  <2>1. Moves(t, BS) = [t EXCEPT !.col = x]
    BY <1>2, <1>3 DEF Moves
  <2>2. t.col \in Int /\ WIDTH - 1 \in Int
    BY <1>1
  <2>3. m = IF t.col <= WIDTH - 1 THEN t.col ELSE WIDTH - 1
    BY <2>2, MinOfTwo
  <2> HIDE DEF m
  <2>4. m - 1 \in Int /\ 0 \in Int
    BY <2>2, <2>3
  <2>5. x = IF m - 1 >= 0 THEN m - 1 ELSE 0
    BY <2>4, MaxOfTwo
  <2> HIDE DEF x
  <2>6. x \in 0 .. WIDTH /\ (t.col < WIDTH => x = IF t.col > 0 THEN t.col - 1 ELSE 0)
    BY <1>1, <2>3, <2>5
  <2>7. Moves(t, BS) = [row |-> t.row, col |-> x]
    BY <1>1, <2>1
  <2>8. QED
    BY <2>6, <2>7
<1>8. \E x \in 0 .. WIDTH : Moves(t, TAB) = [row |-> t.row, col |-> x]
  <2>1. Moves(t, TAB) = [t EXCEPT !.col = NextStop(t.col)]
    BY <1>2, <1>3 DEF Moves
  <2>2. Moves(t, TAB) = [row |-> t.row, col |-> NextStop(t.col)]
    BY <1>1, <2>1
  <2>3. QED
    BY <1>1, <2>2, StopIsColumn
<1>9. ASSUME NEW c, c \notin Control PROVE Moves(t, c) = Shown(From(t), c)
  <2>1. Moves(t, c) = Put(From(t), c)
    BY <1>3, <1>9 DEF Moves, Control, From
  <2>2. From(t) \in Terminals
    BY TopLeftTyped DEF From
  <2>3. QED
    BY <2>1, <2>2, PutShows
<1>10. [t EXCEPT !.col = 0] = [row |-> t.row, col |-> 0] /\ [t EXCEPT !.row = <<>>] = [row |-> <<>>, col |-> t.col]
  BY <1>1
<1>11. QED
  BY <1>4, <1>5, <1>6, <1>7, <1>8, <1>9, <1>10

LEMMA MovesTyped ==
  ASSUME NEW t \in Terminals, NEW c \in Glyph \ {ESC}
  PROVE  Moves(t, c) \in Terminals
<1>1. t.row \in Seq(Glyph) /\ t.col \in 0 .. WIDTH
  BY DEF Terminals
<1>2. <<>> \in Seq(Glyph) /\ Blank \in Glyph /\ 0 \in 0 .. WIDTH
  BY Columns DEF Glyph
<1>3. CASE c \in Control
  <2>1. \A x \in 0 .. WIDTH : [row |-> t.row, col |-> x] \in Terminals
    BY <1>1 DEF Terminals
  <2>2. [row |-> <<>>, col |-> t.col] \in Terminals
    BY <1>1, <1>2 DEF Terminals
  <2>3. c = CR \/ c = NL \/ c = HOME \/ c = BS \/ c = TAB
    BY <1>3 DEF Control
  <2>4. Moves(t, CR) \in Terminals /\ Moves(t, NL) \in Terminals /\ Moves(t, HOME) \in Terminals
    BY <1>2, <2>1, <2>2, TopLeftTyped, MovesIs
  <2>5. Moves(t, BS) \in Terminals
    BY <2>1, MovesIs
  <2>6. Moves(t, TAB) \in Terminals
    BY <2>1, MovesIs
  <2>7. QED
    BY <2>3, <2>4, <2>5, <2>6
<1>4. CASE c \notin Control
  <2> DEFINE s == From(t)
             n == IF Len(s.row) >= s.col + 1 THEN Len(s.row) ELSE s.col + 1
             e(k) == IF k = s.col + 1 THEN c ELSE IF k <= Len(s.row) THEN s.row[k] ELSE Blank
  <2>1. s \in Terminals /\ s.col # WIDTH
    BY TopLeftTyped, Columns DEF From, TopLeft
  <2> HIDE DEF s
  <2>2. /\ s.row \in Seq(Glyph) /\ s.col \in Nat /\ s.col + 1 \in 0 .. WIDTH /\ Len(s.row) \in Nat
        /\ \A k \in 1 .. Len(s.row) : s.row[k] \in Glyph
    <3>1. s.row \in Seq(Glyph) /\ s.col \in 0 .. WIDTH
      BY <2>1 DEF Terminals
    <3>2. QED
      BY <2>1, <3>1, Columns, LenProperties, ElementOfSeq
  <2>3. n \in Nat /\ \A k \in 1 .. n : e(k) \in Glyph
    BY <1>2, <2>2
  <2>4. Shown(s, c) = [row |-> [k \in 1 .. n |-> e(k)], col |-> s.col + 1]
    BY DEF Shown
  <2> HIDE DEF n, e
  <2>5. [k \in 1 .. n |-> e(k)] \in Seq(Glyph)
    BY <2>3
  <2>6. Shown(s, c) \in Terminals
    BY <2>2, <2>4, <2>5 DEF Terminals
  <2>7. QED
    BY <1>4, <2>6, MovesIs DEF s
<1>5. QED
  BY <1>3, <1>4

(* Nothing of what is sent is an escape. *)
Calm(bytes) == \A k \in 1 .. Len(bytes) : bytes[k] # ESC

LEMMA SentOn ==
  ASSUME NEW text \in Seq(Glyph), wire \in Seq(Glyph), kprintf(text)
  PROVE  wire' \in Seq(Glyph) /\ (NoEscapeSent' => NoEscapeSent /\ Calm(serial_printf(text)))
<1> DEFINE b == serial_printf(text)
           N == Len(wire)
<1>1. b \in Seq(Glyph) /\ wire' = wire \o b
  BY SentTyped DEF kprintf
<1> HIDE DEF b
<1>2. /\ wire \o b \in Seq(Glyph) /\ Len(wire \o b) = N + Len(b) /\ N \in Nat /\ Len(b) \in Nat
      /\ \A i \in 1 .. N + Len(b) : (wire \o b)[i] = IF i <= N THEN wire[i] ELSE b[i - N]
  BY <1>1, ConcatProperties, LenProperties
<1> HIDE DEF N
<1>3. ASSUME NoEscapeSent' PROVE NoEscapeSent /\ Calm(b)
  <2>1. \A i \in 1 .. N + Len(b) : (wire \o b)[i] # ESC
    BY <1>1, <1>2, <1>3 DEF NoEscapeSent
  <2>2. \A k \in 1 .. N : k \in 1 .. N + Len(b) /\ k <= N
    BY <1>2
  <2>3. \A k \in 1 .. N : wire[k] # ESC
    BY <1>2, <2>1, <2>2
  <2>4. \A k \in 1 .. Len(b) : N + k \in 1 .. N + Len(b) /\ ~ (N + k <= N) /\ (N + k) - N = k
    BY <1>2
  <2>5. \A k \in 1 .. Len(b) : b[k] # ESC
    BY <1>2, <2>1, <2>4
  <2>6. QED
    BY <2>3, <2>5 DEF NoEscapeSent, Calm, N
<1>4. QED
  BY <1>1, <1>2, <1>3 DEF b

(* The terminal behind each byte that it receives. *)
IsMoved(f, bytes) ==
  /\ f \in [0 .. Len(bytes) -> Terminals] /\ f[0] = terminal
  /\ \A k \in 1 .. Len(bytes) : f[k] = Moves(f[k - 1], bytes[k])

LEMMA MovedIs ==
  ASSUME NEW text, receive(text), terminal \in Terminals, serial_printf(text) \in Seq(Glyph),
         Calm(serial_printf(text))
  PROVE  \E f : /\ IsMoved(f, serial_printf(text))
                /\ terminal' = f[Len(serial_printf(text))]
<1> DEFINE bytes == serial_printf(text)
           L == Len(bytes)
           Defines(f) == f = [k \in 0 .. Len(serial_printf(text)) |->
             IF k = 0 THEN terminal ELSE Moves(f[k - 1], serial_printf(text)[k])]
           Works(f) == f = [k \in 0 .. L |-> IF k = 0 THEN terminal ELSE Moves(f[k - 1], bytes[k])]
           step == [k \in 1 .. L |-> [x \in Terminals |-> Moves(x, bytes[k])]]
<1>1. terminal' = (CHOOSE f : Defines(f))[L]
  BY DEF receive
<1>2. \A f : Defines(f) <=> Works(f)
  OBVIOUS
<1>3. L \in Nat /\ \A k \in 1 .. L : bytes[k] \in Glyph \ {ESC}
  BY LenProperties, ElementOfSeq DEF Calm
<1> DEFINE h == CHOOSE g : Defines(g)
<1>h. h[L] = terminal'
  BY <1>1
<1> HIDE DEF L, bytes
<1>4. step \in [1 .. L -> [Terminals -> Terminals]]
  BY <1>3, MovesTyped
<1>5. PICK f : IsRun(f, Terminals, L, terminal, step)
  <2> HIDE DEF step
  <2>1. QED
    BY <1>3, <1>4, RunExists
<1>6. f \in [0 .. L -> Terminals] /\ f[0] = terminal /\ \A k \in 1 .. L : f[k] = step[k][f[k - 1]]
  BY <1>5 DEF IsRun
<1>7. \A k \in 1 .. L : f[k] = Moves(f[k - 1], bytes[k])
  <2> SUFFICES ASSUME NEW k \in 1 .. L PROVE f[k] = Moves(f[k - 1], bytes[k])
    OBVIOUS
  <2>1. k - 1 \in 0 .. L
    BY <1>3
  <2>2. f[k - 1] \in Terminals
    BY <1>6, <2>1
  <2>3. QED
    BY <1>6, <2>2
<1>8. Works(f)
  <2>1. \A k \in 0 .. L : k = 0 \/ k \in 1 .. L
    BY <1>3
  <2>2. \A k \in 0 .. L : f[k] = IF k = 0 THEN terminal ELSE Moves(f[k - 1], bytes[k])
    BY <1>6, <1>7, <2>1
  <2>3. QED
    BY <1>6, <2>2
<1>9. Works(h)
  <2> HIDE DEF Defines, Works
  <2>1. QED
    BY <1>2, <1>8
<1> HIDE DEF h, Defines
<1>11. h[0] = terminal /\ DOMAIN h = 0 .. L
  BY <1>3, <1>9
<1>12. \A k \in 1 .. L : h[k] = Moves(h[k - 1], bytes[k])
  <2>1. \A k \in 1 .. L : k \in 0 .. L /\ k # 0
    BY <1>3
  <2>2. QED
    BY <1>9, <2>1
<1>13. \A k \in 0 .. L : h[k] \in Terminals
  <2> DEFINE Wrong == {k \in Nat : k <= L /\ h[k] \notin Terminals}
  <2>1. SUFFICES ASSUME Wrong # {} PROVE FALSE
    BY <1>3
  <2>2. PICK m \in Wrong : \A l \in Wrong : m <= l
    BY <2>1, LeastExists
  <2>3. m # 0
    BY <1>11, <2>2
  <2>4. m \in 1 .. L /\ m - 1 \in Nat /\ m - 1 <= L /\ m - 1 \notin Wrong
    BY <1>3, <2>2, <2>3
  <2>5. h[m - 1] \in Terminals
    BY <2>4
  <2>6. h[m] \in Terminals
    BY <1>3, <1>12, <2>4, <2>5, MovesTyped
  <2>7. QED
    BY <2>2, <2>6
<1>14. h = [k \in 0 .. L |-> h[k]]
  BY <1>9
<1>15. h \in [0 .. L -> Terminals]
  BY <1>13, <1>14
<1>16. IsMoved(h, bytes)
  BY <1>11, <1>12, <1>15 DEF IsMoved, L
<1>17. QED
  BY <1>h, <1>16 DEF L, bytes

(* A text that is empty leaves the cursor where it is, one that ends with a *)
(* newline at the beginning of a row.                                       *)
LEMMA RowEnds ==
  ASSUME NEW text \in Seq(Glyph), receive(text), terminal \in Terminals, Calm(serial_printf(text))
  PROVE  /\ terminal' \in Terminals
         /\ text = <<>> => terminal' = terminal
         /\ text # <<>> /\ text[Len(text)] = NL => terminal' = TopLeft
<1> DEFINE bytes == serial_printf(text)
           L == Len(bytes)
<1>1. bytes \in Seq(Glyph) /\ L \in Nat
  BY SentTyped, LenProperties
<1>2. PICK f : IsMoved(f, bytes) /\ terminal' = f[L]
  BY <1>1, MovedIs
<1>3. /\ f \in [0 .. L -> Terminals] /\ f[0] = terminal
      /\ \A k \in 1 .. L : f[k] = Moves(f[k - 1], bytes[k])
  BY <1>2 DEF IsMoved
<1>4. terminal' \in Terminals
  <2> HIDE DEF L
  <2>1. L \in 0 .. L
    BY <1>1
  <2>2. QED
    BY <1>2, <1>3, <2>1
<1>5. ASSUME text = <<>> PROVE terminal' = terminal
  <2>1. L = 0
    BY <1>5, SentTyped, EmptySeq
  <2>2. QED
    BY <1>2, <1>3, <2>1
<1>6. ASSUME text # <<>>, text[Len(text)] = NL PROVE terminal' = TopLeft
  <2>1. PICK u \in Seq(Glyph) : bytes = u \o <<CR, NL>>
    BY <1>6, SentLast
  <2> DEFINE two == <<CR, NL>>
  <2>2. two \in Seq(Glyph) /\ Len(two) = 2 /\ two[1] = CR /\ two[2] = NL
    <3>1. CR \in Glyph /\ NL \in Glyph
      BY DEF Glyph
    <3>2. QED
      BY <3>1
  <2>3. bytes = u \o two /\ Len(u) \in Nat
    BY <2>1, LenProperties
  <2> HIDE DEF two
  <2>4. /\ Len(u \o two) = Len(u) + Len(two)
        /\ \A i \in 1 .. Len(u) + Len(two) : (u \o two)[i] = IF i <= Len(u) THEN u[i] ELSE two[i - Len(u)]
    BY <2>2, ConcatProperties
  <2>5. L = Len(u) + 2
    BY <2>2, <2>3, <2>4
  <2>6. bytes[L - 1] = CR /\ bytes[L] = NL
    <3>1. bytes[Len(u) + 1] = two[1]
      <4>1. Len(u) + 1 \in 1 .. Len(u) + Len(two) /\ ~ (Len(u) + 1 <= Len(u)) /\ (Len(u) + 1) - Len(u) = 1
        BY <2>2, <2>3
      <4>2. QED
        BY <2>3, <2>4, <4>1
    <3>2. bytes[Len(u) + 2] = two[2]
      <4>1. Len(u) + 2 \in 1 .. Len(u) + Len(two) /\ ~ (Len(u) + 2 <= Len(u)) /\ (Len(u) + 2) - Len(u) = 2
        BY <2>2, <2>3
      <4>2. QED
        BY <2>3, <2>4, <4>1
    <3>3. L - 1 = Len(u) + 1
      BY <2>3, <2>5
    <3>4. QED
      BY <2>2, <2>5, <3>1, <3>2, <3>3
  <2> HIDE DEF L, bytes
  <2>7. L - 1 \in 1 .. L /\ L \in 1 .. L /\ L - 2 \in 0 .. L /\ L - 1 \in 0 .. L /\ (L - 1) - 1 = L - 2
    BY <1>1, <2>3, <2>5
  <2> DEFINE x == f[L - 2]
             y == f[L - 1]
  <2>8. x \in Terminals /\ y = Moves(x, CR) /\ y \in Terminals /\ f[L] = Moves(y, NL)
    BY <1>3, <2>6, <2>7
  <2> HIDE DEF x, y
  <2>9. y = [row |-> x.row, col |-> 0] /\ f[L] = [row |-> <<>>, col |-> y.col]
    BY <2>8, MovesIs
  <2>10. QED
    BY <1>2, <2>9 DEF TopLeft
<1>7. QED
  BY <1>4, <1>5, <1>6

(* The row of the cursor begins with the line and has only blanks behind   *)
(* it, and there the cursor is.                                            *)
LineShown(t, line) ==
  /\ t \in Terminals /\ t.col = Len(line) /\ Len(line) <= Len(t.row)
  /\ \A k \in 1 .. Len(line) : t.row[k] = line[k]
  /\ \A k \in Len(line) + 1 .. Len(t.row) : t.row[k] = Blank

Plain == Glyph \ Control

LEMMA ShownNext ==
  ASSUME NEW t, NEW line \in Seq(Glyph), NEW c \in Plain, LineShown(t, line), Len(line) < WIDTH
  PROVE  LineShown(Moves(t, c), Append(line, c))
<1> DEFINE n == Len(line)
           m == Append(line, c)
           u == Moves(t, c)
           rows == IF Len(t.row) >= t.col + 1 THEN Len(t.row) ELSE t.col + 1
<1>1. /\ t \in Terminals /\ t.col = n /\ n <= Len(t.row) /\ n \in Nat /\ Len(t.row) \in Nat
      /\ \A k \in 1 .. n : t.row[k] = line[k]
      /\ \A k \in n + 1 .. Len(t.row) : t.row[k] = Blank
  BY LenProperties DEF LineShown, Terminals
<1>2. c \in Glyph /\ c \notin Control /\ c # ESC
  BY DEF Plain, Control
<1>3. u \in Terminals /\ u = Shown(t, c)
  <2>1. From(t) = t
    BY <1>1, Columns DEF From
  <2>2. QED
    BY <1>1, <1>2, <2>1, MovesTyped, MovesIs
<1>4. Len(m) = n + 1 /\ m[n + 1] = c /\ \A k \in 1 .. n : m[k] = line[k]
  BY <1>2, Appended
<1>5. /\ u.col = n + 1 /\ rows \in Nat
      /\ u.row = [k \in 1 .. rows |-> IF k = n + 1 THEN c ELSE IF k <= Len(t.row) THEN t.row[k] ELSE Blank]
  BY <1>1, <1>3 DEF Shown
<1> HIDE DEF u, m, n
<1>6. rows = IF Len(t.row) >= n + 1 THEN Len(t.row) ELSE n + 1
  BY <1>1
<1> HIDE DEF rows
<1>7. Len(u.row) = rows
  BY <1>5
<1>8. n + 1 <= rows /\ Len(t.row) <= rows
  BY <1>1, <1>6
<1>9. \A k \in 1 .. n + 1 : u.row[k] = m[k]
  <2> SUFFICES ASSUME NEW k \in 1 .. n + 1 PROVE u.row[k] = m[k]
    OBVIOUS
  <2>1. k \in 1 .. rows
    BY <1>1, <1>5, <1>8
  <2>2. CASE k = n + 1
    BY <1>4, <1>5, <2>1, <2>2
  <2>3. CASE k # n + 1
    <3>1. k \in 1 .. n /\ k <= Len(t.row)
      BY <1>1, <2>3
    <3>2. QED
      BY <1>1, <1>4, <1>5, <2>1, <2>3, <3>1
  <2>4. QED
    BY <2>2, <2>3
<1>10. \A k \in (n + 1) + 1 .. rows : u.row[k] = Blank
  <2> SUFFICES ASSUME NEW k \in (n + 1) + 1 .. rows PROVE u.row[k] = Blank
    OBVIOUS
  <2>1. k \in 1 .. rows /\ k # n + 1 /\ (k <= Len(t.row) => k \in n + 1 .. Len(t.row))
    BY <1>1, <1>5
  <2>2. QED
    BY <1>1, <1>5, <2>1
<1>11. LineShown(u, m)
  BY <1>3, <1>4, <1>5, <1>7, <1>8, <1>9, <1>10 DEF LineShown
<1>12. QED
  BY <1>11 DEF u, m

LEMMA PlainShown ==
  ASSUME NEW text \in Seq(Plain), NEW line \in Seq(Glyph), receive(text), LineShown(terminal, line),
         Len(line) + Len(text) <= WIDTH
  PROVE  LineShown(terminal', line \o text)
<1> DEFINE L == Len(text)
           to(k) == line \o SubSeq(text, 1, k)
<1>1. /\ L \in Nat /\ text \in Seq(Glyph) /\ \A k \in 1 .. L : text[k] \in Plain /\ text[k] # NL
  <2>1. \A k \in 1 .. L : text[k] \in Plain /\ text[k] # NL
    BY ElementOfSeq DEF Plain, Control
  <2>2. Plain \subseteq Glyph
    BY DEF Plain
  <2>3. QED
    BY <2>1, <2>2, LenProperties, SeqMonotonic
<1>2. serial_printf(text) = text
  BY <1>1, SentPlain
<1>3. PICK f : IsMoved(f, text) /\ terminal' = f[L]
  <2>1. terminal \in Terminals
    BY DEF LineShown
  <2>2. Calm(text)
    BY <1>1 DEF Calm, Plain, Control
  <2>3. QED
    BY <1>1, <1>2, <2>1, <2>2, MovedIs
<1>4. f[0] = terminal /\ \A k \in 1 .. L : f[k] = Moves(f[k - 1], text[k])
  BY <1>3 DEF IsMoved
<1>5. to(0) = line
  <2>1. SubSeq(text, 1, 0) = <<>>
    BY SubSeqEmpty
  <2>2. QED
    BY <2>1, ConcatEmptySeq
<1>6. ASSUME NEW k \in 1 .. L
      PROVE  /\ to(k - 1) \in Seq(Glyph) /\ to(k) = Append(to(k - 1), text[k])
             /\ Len(to(k - 1)) < WIDTH
  <2> DEFINE before == SubSeq(text, 1, k - 1)
  <2>1. k - 1 \in Nat /\ k - 1 <= Len(text) /\ 1 \in Nat \ {0} /\ k \in 1 .. Len(text) /\ 1 \in 1 .. Len(text) /\ text[k] \in Glyph
    BY <1>1 DEF Plain
  <2>2. before \in Seq(Glyph)
    BY <1>1, <2>1, Part
  <2>3. SubSeq(text, 1, k) = before \o <<text[k]>>
    BY <1>1, <2>1, SubSeqRecursiveSecond
  <2> HIDE DEF before
  <2>4. <<text[k]>> \in Seq(Glyph)
    BY <2>1
  <2>5. line \o (before \o <<text[k]>>) = (line \o before) \o <<text[k]>>
    BY <2>2, <2>4, ConcatAssociative
  <2>6. line \o before \in Seq(Glyph)
    BY <2>2, ConcatProperties
  <2>7. Append(line \o before, text[k]) = (line \o before) \o <<text[k]>>
    BY <2>1, <2>6, AppendIsConcat
  <2>8. Len(before) = k - 1
    <3>1. Len(before) = IF 1 <= k - 1 THEN (k - 1) - 1 + 1 ELSE 0
      BY <1>1, <2>1, Part DEF before
    <3>2. QED
      BY <1>1, <3>1
  <2>9. Len(line \o before) < WIDTH
    <3>1. Len(line \o before) = Len(line) + Len(before) /\ Len(line) \in Nat
      BY <2>2, ConcatProperties, LenProperties
    <3>2. QED
      BY <1>1, <2>8, <3>1, Columns
  <2>10. QED
    BY <2>3, <2>5, <2>6, <2>7, <2>9 DEF before
<1> DEFINE Wrong == {m \in Nat : m <= L /\ ~ LineShown(f[m], to(m))}
<1> HIDE DEF L, to
<1>7. Wrong = {}
  <2>1. SUFFICES ASSUME Wrong # {} PROVE FALSE
    OBVIOUS
  <2>2. PICK m \in Wrong : \A l \in Wrong : m <= l
    BY <2>1, LeastExists
  <2>3. m # 0
    BY <1>4, <1>5, <2>2
  <2>4. m \in 1 .. L /\ m - 1 \in Nat /\ m - 1 <= L /\ m - 1 \notin Wrong
    BY <1>1, <2>2, <2>3
  <2>5. LineShown(f[m - 1], to(m - 1))
    BY <2>4
  <2>6. to(m - 1) \in Seq(Glyph) /\ text[m] \in Plain /\ Len(to(m - 1)) < WIDTH
    BY <1>1, <1>6, <2>4
  <2>7. LineShown(Moves(f[m - 1], text[m]), Append(to(m - 1), text[m]))
    BY <2>5, <2>6, ShownNext
  <2>8. LineShown(f[m], to(m))
    BY <1>4, <1>6, <2>4, <2>7
  <2>9. QED
    BY <2>2, <2>8
<1>8. LineShown(f[L], to(L))
  BY <1>1, <1>7
<1>9. to(L) = line \o text
  BY SubSeqFull DEF to, L
<1>10. QED
  BY <1>3, <1>8, <1>9

(* "\b \b" *)
LEMMA ErasedShown ==
  ASSUME NEW line \in Seq(Glyph), NEW short \in Seq(Glyph), Len(line) = Len(short) + 1,
         \A k \in 1 .. Len(short) : short[k] = line[k],
         receive(<<BS, Blank, BS>>), LineShown(terminal, line), Len(line) < WIDTH
  PROVE  LineShown(terminal', short)
<1> DEFINE text == <<BS, Blank, BS>>
           n == Len(short)
<1>1. /\ text \in Seq(Glyph) /\ Len(text) = 3 /\ text[1] = BS /\ text[2] = Blank /\ text[3] = BS
  <2>1. BS \in Glyph /\ Blank \in Glyph
    BY DEF Glyph
  <2>2. QED
    BY <2>1
<1>2. BS # NL /\ Blank # NL /\ Blank \notin Control /\ Blank \in Glyph /\ BS # ESC /\ Blank # ESC
  BY DEF BS, NL, CR, HOME, TAB, ESC, Control, Blank, Glyph
<1> HIDE DEF text
<1>3. serial_printf(text) = text
  <2>1. \A k \in 1 .. Len(text) : text[k] # NL
    <3>1. \A k \in 1 .. 3 : k = 1 \/ k = 2 \/ k = 3
      OBVIOUS
    <3>2. QED
      BY <1>1, <1>2, <3>1
  <2>2. QED
    BY <1>1, <2>1, SentPlain
<1>4. /\ terminal \in Terminals /\ terminal.col = n + 1 /\ n + 1 <= Len(terminal.row)
      /\ n \in Nat /\ Len(terminal.row) \in Nat /\ n + 1 < WIDTH
      /\ \A k \in 1 .. n : terminal.row[k] = short[k]
      /\ \A k \in (n + 1) + 1 .. Len(terminal.row) : terminal.row[k] = Blank
  BY LenProperties DEF LineShown, Terminals
<1>5. PICK f : IsMoved(f, text) /\ terminal' = f[3]
  <2>1. receive(text)
    BY DEF text
  <2>2. serial_printf(text) \in Seq(Glyph)
    BY <1>1, <1>3
  <2>c. Calm(text)
    <3>1. \A k \in 1 .. 3 : k = 1 \/ k = 2 \/ k = 3
      OBVIOUS
    <3>2. QED
      BY <1>1, <1>2, <3>1 DEF Calm
  <2>3. PICK f : IsMoved(f, serial_printf(text)) /\ terminal' = f[Len(serial_printf(text))]
    BY <1>3, <1>4, <2>1, <2>2, <2>c, MovedIs
  <2>4. IsMoved(f, text) /\ terminal' = f[3]
    BY <1>1, <1>3, <2>3
  <2>5. QED
    BY <2>4
<1>6. /\ f[0] = terminal /\ f[1] = Moves(f[0], BS) /\ f[2] = Moves(f[1], Blank) /\ f[3] = Moves(f[2], BS)
      /\ f[1] \in Terminals /\ f[2] \in Terminals /\ f[3] \in Terminals
  <2>1. /\ f \in [0 .. 3 -> Terminals] /\ f[0] = terminal
        /\ \A k \in 1 .. 3 : f[k] = Moves(f[k - 1], text[k])
    BY <1>1, <1>5 DEF IsMoved
  <2>2. f[1] = Moves(f[1 - 1], text[1]) /\ f[2] = Moves(f[2 - 1], text[2]) /\ f[3] = Moves(f[3 - 1], text[3])
    BY <2>1
  <2>3. 1 - 1 = 0 /\ 2 - 1 = 1 /\ 3 - 1 = 2 /\ 1 \in 0 .. 3 /\ 2 \in 0 .. 3 /\ 3 \in 0 .. 3
    OBVIOUS
  <2>4. QED
    BY <1>1, <2>1, <2>2, <2>3
<1> DEFINE a == f[1]
           b == f[2]
           d == f[3]
           rows == Len(terminal.row)
<1>7. a = [row |-> terminal.row, col |-> n] /\ a \in Terminals
  <2>1. PICK x \in 0 .. WIDTH :
          /\ Moves(terminal, BS) = [row |-> terminal.row, col |-> x]
          /\ terminal.col < WIDTH => x = IF terminal.col > 0 THEN terminal.col - 1 ELSE 0
    BY <1>4, MovesIs
  <2>2. x = n
    BY <1>4, <2>1, Columns
  <2>3. QED
    BY <1>6, <2>1, <2>2
<1>8. b = Shown(a, Blank) /\ b \in Terminals
  <2>1. a.col = n /\ a \in Terminals
    BY <1>7
  <2>2. From(a) = a
    BY <1>4, <2>1, Columns DEF From
  <2>3. Moves(a, Blank) = Shown(From(a), Blank)
    BY <1>2, <2>1, MovesIs
  <2>4. QED
    BY <1>6, <2>2, <2>3
<1>10. /\ b.col = n + 1
       /\ b.row = [k \in 1 .. rows |-> IF k = n + 1 THEN Blank ELSE IF k <= rows THEN terminal.row[k] ELSE Blank]
  <2> HIDE DEF a, b
  <2>1. QED
    BY <1>4, <1>7, <1>8 DEF Shown
<1>9. d = [row |-> b.row, col |-> n] /\ d \in Terminals
  <2>1. PICK x \in 0 .. WIDTH :
          /\ Moves(b, BS) = [row |-> b.row, col |-> x]
          /\ b.col < WIDTH => x = IF b.col > 0 THEN b.col - 1 ELSE 0
    BY <1>8, MovesIs
  <2>2. x = n
    BY <1>4, <1>10, <2>1, Columns
  <2>3. QED
    BY <1>6, <2>1, <2>2
<1> HIDE DEF a, b, d
<1>11. d.col = n /\ d.row = b.row
  BY <1>9
<1>12. Len(d.row) = rows
  BY <1>4, <1>10, <1>11
<1>13. \A k \in 1 .. n : d.row[k] = short[k]
  <2> SUFFICES ASSUME NEW k \in 1 .. n PROVE d.row[k] = short[k]
    OBVIOUS
  <2>1. k \in 1 .. rows /\ k # n + 1 /\ k <= rows
    BY <1>4
  <2>2. QED
    BY <1>4, <1>10, <1>11, <2>1
<1>14. \A k \in n + 1 .. rows : d.row[k] = Blank
  <2> SUFFICES ASSUME NEW k \in n + 1 .. rows PROVE d.row[k] = Blank
    OBVIOUS
  <2>1. k \in 1 .. rows /\ k <= rows /\ (k = n + 1 \/ k \in (n + 1) + 1 .. rows)
    BY <1>4
  <2>2. QED
    BY <1>4, <1>10, <1>11, <2>1
<1>15. LineShown(d, short)
  BY <1>4, <1>9, <1>11, <1>12, <1>13, <1>14 DEF LineShown
<1>16. QED
  BY <1>5, <1>15 DEF d

(* The prompt and the buffer's first n bytes. *)
ShownLine(b, n) == Prompt \o [k \in 1 .. n |-> b[k - 1]]

TerminalIs ==
  /\ terminal \in Terminals
  /\ pc \in {"boot", "banner", "prompt"} => terminal = TopLeft
  /\ pc = "read" /\ InRow(Line) => LineShown(terminal, ShownLine(buf, written))
  /\ pc = "run" => terminal = TopLeft \/ written = LEN

TerminalInv == wire \in Seq(Glyph) /\ (NoEscapeSent => TerminalIs)

LEMMA Parameters ==
  /\ LEN \in Nat \ {0, 1} /\ Prompt \in Seq(Plain) /\ Prompt \in Seq(Glyph)
  /\ Char \subseteq Glyph \ {NL, CR, BS, HOME} /\ Char \cup {NL, NUL} \subseteq Glyph /\ Typable \subseteq Glyph
  /\ \A text \in {Replies[c] : c \in DOMAIN Replies} \cup Listings \cup {Boot} :
       text \in Seq(Glyph) /\ (text = <<>> \/ text[Len(text)] = NL)
  /\ \A c \in DOMAIN Replies \cup {Ls, Exit, Clear} : Len(c) \in Nat /\ Len(c) < LEN - 1
<1>1. /\ LEN \in Nat \ {0} /\ Char \subseteq STRING \ {NL, CR, BS, HOME, NUL}
      /\ Prompt \in Seq(STRING \ {NL, CR, BS, HOME, TAB, ESC})
      /\ \A text \in {Replies[c] : c \in DOMAIN Replies} \cup Listings \cup {Boot} :
           text \in Seq(STRING \ {CR}) /\ (text = <<>> \/ text[Len(text)] = NL)
      /\ \A c \in DOMAIN Replies \cup {Ls, Exit, Clear} : c \in Seq(Char) /\ Len(c) < LEN - 1
  BY ShellAssumption
<1>2. /\ STRING \ {NL, CR, BS, HOME, TAB, ESC} \subseteq Plain
      /\ STRING \ {CR} \subseteq Glyph /\ Plain \subseteq Glyph
  BY DEF Plain, Control, Glyph
<1>3. Char \subseteq Glyph \ {NL, CR, BS, HOME} /\ Char \cup {NL, NUL} \subseteq Glyph /\ Typable \subseteq Glyph
  BY <1>1 DEF Glyph, Typable
<1>4. Prompt \in Seq(Plain) /\ Prompt \in Seq(Glyph)
  BY <1>1, <1>2, SeqMonotonic
<1>5. \A text : text \in Seq(STRING \ {CR}) => text \in Seq(Glyph)
  BY <1>2, SeqMonotonic
<1>6. \A c \in DOMAIN Replies \cup {Ls, Exit, Clear} : Len(c) \in Nat /\ Len(c) < LEN - 1
  BY <1>1, LenProperties
<1>7. LEN # 1
  BY <1>6
<1>8. QED
  BY <1>1, <1>3, <1>4, <1>5, <1>6, <1>7

(* A line in its row was there before its last key. *)
LEMMA RowBefore ==
  ASSUME NEW V, NEW s \in Seq(V), NEW c \in V, InRow(Append(s, c))
  PROVE  InRow(s) /\ c # TAB
<1> DEFINE t == Append(s, c)
<1>1. Len(s) \in Nat /\ Len(t) = Len(s) + 1 /\ t[Len(s) + 1] = c /\ \A i \in 1 .. Len(s) : t[i] = s[i]
  BY Appended
<1>2. ASSUME NEW i \in 0 .. Len(s)
      PROVE  SubSeq(t, 1, i) = SubSeq(s, 1, i)
  <2>1. 1 \in Nat \ {0} /\ i \in Nat /\ i <= Len(s)
    BY <1>1
  <2>2. QED
    BY <2>1, PartSame
<1>3. /\ \A i \in 1 .. Len(t) : t[i] # TAB
      /\ \A i \in 0 .. Len(t) : Len(Prompt) + Len(Kept(SubSeq(t, 1, i))) < WIDTH
  BY DEF InRow
<1> HIDE DEF t
<1>4. Len(s) + 1 \in 1 .. Len(t) /\ \A i \in 0 .. Len(s) : i \in 0 .. Len(t) /\ (i # 0 => i \in 1 .. Len(t))
  BY <1>1
<1>5. \A i \in 1 .. Len(s) : s[i] # TAB
  BY <1>1, <1>3, <1>4
<1>6. \A i \in 0 .. Len(s) : Len(Prompt) + Len(Kept(SubSeq(s, 1, i))) < WIDTH
  BY <1>2, <1>3, <1>4
<1>7. QED
  BY <1>1, <1>3, <1>4, <1>5, <1>6 DEF InRow

(* What is shown of it is shorter than a row. *)
LEMMA RowHasRoom ==
  ASSUME NEW s \in Seq(Typable), NEW b, NEW n \in Nat, Holds(s, b, n), InRow(s)
  PROVE  Len(Prompt) + n < WIDTH
<1>1. Len(s) \in Nat /\ Len(s) \in 0 .. Len(s) /\ SubSeq(s, 1, Len(s)) = s
  BY LenProperties, SubSeqFull
<1>2. Len(Kept(s)) = n
  BY HoldsKept
<1>3. QED
  BY <1>1, <1>2 DEF InRow

LEMMA ShownLineIs ==
  ASSUME NEW b \in [0 .. LEN -> Char \cup {NL, NUL}], NEW n \in 0 .. LEN
  PROVE  /\ ShownLine(b, n) \in Seq(Glyph) /\ Len(ShownLine(b, n)) = Len(Prompt) + n
         /\ Len(Prompt) \in Nat
         /\ \A k \in 1 .. Len(Prompt) + n :
              ShownLine(b, n)[k] = IF k <= Len(Prompt) THEN Prompt[k] ELSE b[k - Len(Prompt) - 1]
<1> DEFINE s == [k \in 1 .. n |-> b[k - 1]]
<1>1. LEN \in Nat
  BY Parameters
<1>2. \A k \in 1 .. n : k - 1 \in 0 .. LEN
  BY <1>1
<1>3. \A k \in 1 .. n : b[k - 1] \in Glyph
  BY <1>1, <1>2, Parameters
<1>4. n \in Nat /\ s \in Seq(Glyph) /\ Len(s) = n
  BY <1>1, <1>3
<1>5. \A k \in 1 .. n : s[k] = b[k - 1]
  OBVIOUS
<1>6. ShownLine(b, n) = Prompt \o s /\ Prompt \in Seq(Glyph) /\ Len(Prompt) \in Nat
  BY Parameters, LenProperties DEF ShownLine
<1> HIDE DEF s
<1>7. /\ Prompt \o s \in Seq(Glyph) /\ Len(Prompt \o s) = Len(Prompt) + Len(s)
      /\ \A k \in 1 .. Len(Prompt) + Len(s) :
           (Prompt \o s)[k] = IF k <= Len(Prompt) THEN Prompt[k] ELSE s[k - Len(Prompt)]
  BY <1>4, <1>6, ConcatProperties
<1>8. ASSUME NEW k \in 1 .. Len(Prompt) + n
      PROVE  ShownLine(b, n)[k] = IF k <= Len(Prompt) THEN Prompt[k] ELSE b[k - Len(Prompt) - 1]
  <2>1. ShownLine(b, n)[k] = IF k <= Len(Prompt) THEN Prompt[k] ELSE s[k - Len(Prompt)]
    BY <1>4, <1>6, <1>7
  <2>2. k <= Len(Prompt) \/ k - Len(Prompt) \in 1 .. n
    BY <1>4, <1>6
  <2>3. QED
    BY <1>5, <2>1, <2>2
<1>9. QED
  BY <1>4, <1>6, <1>7, <1>8

LEMMA ShownLineMore ==
  ASSUME NEW b \in [0 .. LEN -> Char \cup {NL, NUL}], NEW n \in 0 .. LEN, n < LEN,
         NEW c \in Char \cup {NL, NUL}
  PROVE  ShownLine([b EXCEPT ![n] = c], n + 1) = ShownLine(b, n) \o <<c>>
<1> DEFINE e == [b EXCEPT ![n] = c]
           P == Len(Prompt)
           old == ShownLine(b, n)
           new == ShownLine(e, n + 1)
           one == <<c>>
<1>1. LEN \in Nat /\ c \in Glyph
  BY Parameters
<1>2. /\ e \in [0 .. LEN -> Char \cup {NL, NUL}] /\ n + 1 \in 0 .. LEN /\ e[n] = c /\ n \in Nat
      /\ \A k \in 0 .. LEN : k # n => e[k] = b[k]
  BY <1>1
<1>3. /\ old \in Seq(Glyph) /\ Len(old) = P + n /\ P \in Nat
      /\ \A k \in 1 .. P + n : old[k] = IF k <= P THEN Prompt[k] ELSE b[k - P - 1]
  BY ShownLineIs
<1> HIDE DEF e
<1>4. /\ new \in Seq(Glyph) /\ Len(new) = P + (n + 1)
      /\ \A k \in 1 .. P + (n + 1) : new[k] = IF k <= P THEN Prompt[k] ELSE e[k - P - 1]
  BY <1>2, ShownLineIs
<1>5. one \in Seq(Glyph) /\ Len(one) = 1 /\ one[1] = c
  BY <1>1
<1> HIDE DEF P, old, new, one
<1>6. /\ old \o one \in Seq(Glyph) /\ Len(old \o one) = Len(old) + Len(one)
      /\ \A k \in 1 .. Len(old) + Len(one) :
           (old \o one)[k] = IF k <= Len(old) THEN old[k] ELSE one[k - Len(old)]
  BY <1>3, <1>5, ConcatProperties
<1>7. Len(new) = Len(old \o one)
  BY <1>2, <1>3, <1>4, <1>5, <1>6
<1>8. ASSUME NEW k \in 1 .. Len(new) PROVE new[k] = (old \o one)[k]
  <2>1. k \in 1 .. P + (n + 1) /\ k \in 1 .. Len(old) + Len(one)
    BY <1>4, <1>6, <1>7
  <2>2. CASE k = P + (n + 1)
    <3>1. P \in Nat /\ n \in Nat /\ Len(old) = P + n
      BY <1>2, <1>3
    <3>2. ~ (k <= P) /\ k - P - 1 = n /\ ~ (k <= P + n) /\ k - (P + n) = 1
      BY <2>2, <3>1
    <3>3. new[k] = e[n] /\ (old \o one)[k] = one[1]
      BY <1>4, <1>6, <2>1, <3>1, <3>2
    <3>4. QED
      BY <1>2, <1>5, <3>3
  <2>3. CASE k # P + (n + 1)
    <3>1. k \in 1 .. P + n /\ k <= Len(old)
      <4>1. P \in Nat /\ n \in Nat /\ Len(old) = P + n
        BY <1>2, <1>3
      <4>2. k \in 1 .. P + (n + 1) /\ k # P + (n + 1)
        BY <2>1, <2>3
      <4>3. QED
        BY <4>1, <4>2
    <3>2. ~ (k <= P) => k - P - 1 \in 0 .. LEN /\ k - P - 1 # n
      BY <1>1, <1>2, <1>3, <3>1
    <3>3. (old \o one)[k] = old[k]
      BY <1>6, <2>1, <3>1
    <3>4. QED
      BY <1>2, <1>3, <1>4, <2>1, <3>1, <3>2, <3>3
  <2>4. QED
    BY <2>2, <2>3
<1>9. new = old \o one
  BY <1>4, <1>6, <1>7, <1>8, SeqEqual
<1>10. QED
  BY <1>9 DEF e, old, new, one

LEMMA LineMore ==
  ASSUME LineTypes, NEW c \in Typable, typed' = Append(typed, c), ends' = ends
  PROVE  Line \in Seq(Typable) /\ Line' = Append(Line, c)
<1>1. typed \in Seq(Typable) /\ Len(typed') = Len(typed) + 1 /\ Len(typed) <= Len(typed)
  <2>1. typed \in Seq(Typable)
    BY DEF LineTypes
  <2>2. QED
    BY <2>1, Appended
<1>2. /\ Start \in Nat /\ Start <= Len(typed) /\ Start + 1 \in 1 .. Len(typed) + 1
      /\ Len(typed) \in Nat /\ Start + 1 \in Nat \ {0}
  BY LastLine
<1>3. Line \in Seq(Typable)
  BY <1>1, <1>2, Part DEF Line
<1>4. SubSeq(Append(typed, c), Start + 1, Len(typed) + 1) = Append(Line, c)
  BY <1>1, <1>2, PartNext DEF Line
<1>5. Start' = Start
  BY DEF Start
<1>6. QED
  BY <1>1, <1>3, <1>4, <1>5 DEF Line

LEMMA TerminalKey ==
  ASSUME LineInv, TerminalInv, NEW c \in Typable, read_key(c)
  PROVE  TerminalInv'
<1> DEFINE erase == <<BS, Blank, BS>>
<1>1. pc = "read" /\ wire \in Seq(Glyph) /\ typed' = Append(typed, c) /\ LineTypes
  BY DEF read_key, TerminalInv, LineInv
<1>2. /\ buf \in [0 .. LEN -> Char \cup {NL, NUL}] /\ written \in 0 .. LEN /\ written < LEN
      /\ LEN \in Nat /\ Len(Prompt) \in Nat
  BY <1>1, Parameters, LenProperties DEF LineInv, LineTypes, Edited
<1>3. ShownLine(buf, written) \in Seq(Glyph) /\ Len(ShownLine(buf, written)) = Len(Prompt) + written
  BY <1>2, ShownLineIs
<1>4. LineInv'
  BY KeyStep
<1>5. CASE c = BS
  <2>1. pc' = "read" /\ buf' = buf /\ ends' = ends
    BY <1>1, <1>5 DEF read_key, backspace
  <2>2. Line \in Seq(Typable) /\ Line' = Append(Line, c)
    BY <1>1, <2>1, LineMore
  <2>3. InRow(Line') => InRow(Line)
    BY <2>2, RowBefore
  <2>4. CASE written > 0
    <3>1. written' = written - 1 /\ receive(erase) /\ kprintf(erase)
      BY <1>5, <2>4 DEF read_key, backspace, echo
    <3>2. erase \in Seq(Glyph)
      <4>1. BS \in Glyph /\ Blank \in Glyph
        BY DEF Glyph
      <4>2. QED
        BY <4>1
    <3> HIDE DEF erase
    <3>3. wire' \in Seq(Glyph) /\ (NoEscapeSent' => NoEscapeSent /\ Calm(serial_printf(erase)))
      BY <1>1, <3>1, <3>2, SentOn
    <3>4. SUFFICES ASSUME NoEscapeSent' PROVE TerminalIs'
      BY <3>3 DEF TerminalInv
    <3>5. NoEscapeSent /\ Calm(serial_printf(erase)) /\ TerminalIs /\ terminal \in Terminals
      BY <3>3, <3>4 DEF TerminalInv, TerminalIs
    <3>6. terminal' \in Terminals
      BY <3>1, <3>2, <3>5, RowEnds
    <3>7. ASSUME InRow(Line') PROVE LineShown(terminal', ShownLine(buf', written'))
      <4> DEFINE line == ShownLine(buf, written)
                 short == ShownLine(buf, written - 1)
      <4>1. InRow(Line) /\ LineShown(terminal, line)
        BY <1>1, <2>3, <3>5, <3>7 DEF TerminalIs
      <4>2. written - 1 \in 0 .. LEN /\ written \in Nat
        BY <1>2, <2>4
      <4>3. /\ Len(line) = Len(Prompt) + written /\ Len(Prompt) \in Nat
            /\ \A k \in 1 .. Len(Prompt) + written :
                 line[k] = IF k <= Len(Prompt) THEN Prompt[k] ELSE buf[k - Len(Prompt) - 1]
        BY <1>2, ShownLineIs
      <4>4. /\ short \in Seq(Glyph) /\ Len(short) = Len(Prompt) + (written - 1)
            /\ \A k \in 1 .. Len(Prompt) + (written - 1) :
                 short[k] = IF k <= Len(Prompt) THEN Prompt[k] ELSE buf[k - Len(Prompt) - 1]
        BY <1>2, <4>2, ShownLineIs
      <4>5. line \in Seq(Glyph) /\ Len(line) < WIDTH
        <5>1. Holds(Line, buf, written)
          BY <1>1 DEF LineInv, Edited
        <5>2. QED
          BY <1>3, <2>2, <4>1, <4>2, <5>1, RowHasRoom
      <4> HIDE DEF line, short
      <4>6. Len(line) = Len(short) + 1 /\ \A k \in 1 .. Len(short) : short[k] = line[k]
        BY <1>2, <4>2, <4>3, <4>4
      <4>7. receive(<<BS, Blank, BS>>)
        BY <3>1 DEF erase
      <4>8. LineShown(terminal', short)
        BY <4>1, <4>4, <4>5, <4>6, <4>7, ErasedShown
      <4>9. QED
        BY <2>1, <3>1, <4>8 DEF short
    <3>8. QED
      BY <2>1, <3>6, <3>7 DEF TerminalIs
  <2>5. CASE ~ (written > 0)
    <3>1. written' = written /\ terminal' = terminal /\ wire' = wire
      BY <1>5, <2>5 DEF read_key, backspace, console
    <3>2. NoEscapeSent' => NoEscapeSent
      BY <3>1 DEF NoEscapeSent
    <3>3. NoEscapeSent' => TerminalIs'
      BY <1>1, <2>1, <2>3, <3>1, <3>2 DEF TerminalInv, TerminalIs
    <3>4. QED
      BY <1>1, <3>1, <3>3 DEF TerminalInv
  <2>6. QED
    BY <2>4, <2>5
<1>6. CASE c # BS
  <2>1. /\ buf' = [buf EXCEPT ![written] = c] /\ written' = written + 1
        /\ receive(<<c>>) /\ kprintf(<<c>>)
        /\ IF c = NL \/ written' = LEN THEN pc' = "run" ELSE pc' = "read" /\ ends' = ends
    BY <1>1, <1>6 DEF read_key, store, echo
  <2>2. c \in Char \cup {NL, NUL} /\ c \in Glyph
    BY <1>6, Parameters DEF Typable
  <2> DEFINE text == <<c>>
  <2>3. text \in Seq(Glyph) /\ Len(text) = 1 /\ text[1] = c /\ text # <<>>
    BY <2>2
  <2> HIDE DEF text
  <2>4. wire' \in Seq(Glyph) /\ (NoEscapeSent' => NoEscapeSent /\ Calm(serial_printf(text)))
    BY <1>1, <2>1, <2>3, SentOn DEF text
  <2>5. SUFFICES ASSUME NoEscapeSent' PROVE TerminalIs'
    BY <2>4 DEF TerminalInv
  <2>6. Calm(serial_printf(text)) /\ TerminalIs /\ terminal \in Terminals
    BY <2>4, <2>5 DEF TerminalInv, TerminalIs
  <2>7. terminal' \in Terminals /\ (c = NL => terminal' = TopLeft)
    BY <2>1, <2>3, <2>6, RowEnds DEF text
  <2>8. CASE pc' = "run"
    <3>1. c = NL \/ written' = LEN
      BY <2>1, <2>8
    <3>2. QED
      BY <2>7, <2>8, <3>1 DEF TerminalIs
  <2>9. CASE pc' # "run"
    <3>1. pc' = "read" /\ ends' = ends /\ c # NL
      BY <2>1, <2>9
    <3>2. Line \in Seq(Typable) /\ Line' = Append(Line, c)
      BY <1>1, <3>1, LineMore
    <3>3. ASSUME InRow(Line') PROVE LineShown(terminal', ShownLine(buf', written'))
      <4>1. InRow(Line) /\ c # TAB /\ LineShown(terminal, ShownLine(buf, written))
        BY <1>1, <2>6, <3>2, <3>3, RowBefore DEF TerminalIs
      <4>2. serial_printf(text) = text
        <5>1. \A k \in 1 .. Len(text) : text[k] # NL
          BY <2>3, <3>1
        <5>2. QED
          BY <2>3, <5>1, SentPlain
      <4>3. c # ESC
        BY <2>3, <2>6, <4>2 DEF Calm
      <4>4. c \in Plain
        BY <1>6, <2>2, <3>1, <4>1, <4>3, Parameters DEF Typable, Plain, Control
      <4>5. Len(ShownLine(buf, written)) + Len(text) <= WIDTH
        <5>1. Line' \in Seq(Typable) /\ Holds(Line', buf', written') /\ written' \in Nat
          <6>1. Line' \in Seq(Typable)
            BY <3>2, Appended
          <6>2. Holds(Line', buf', written')
            BY <1>4, <3>1 DEF LineInv, Edited
          <6>3. QED
            BY <1>2, <2>1, <6>1, <6>2
        <5>2. Len(Prompt) + written' < WIDTH
          BY <3>3, <5>1, RowHasRoom
        <5>3. QED
          BY <1>2, <1>3, <2>1, <2>3, <5>2, Columns
      <4>6. text \in Seq(Plain) /\ receive(text)
        BY <2>1, <4>4 DEF text
      <4>7. LineShown(terminal', ShownLine(buf, written) \o text)
        BY <1>3, <4>1, <4>5, <4>6, PlainShown
      <4>8. ShownLine(buf', written') = ShownLine(buf, written) \o text
        BY <1>2, <2>1, <2>2, ShownLineMore DEF text
      <4>9. QED
        BY <4>7, <4>8
    <3>4. QED
      BY <2>7, <3>1, <3>3 DEF TerminalIs
  <2>10. QED
    BY <2>8, <2>9
<1>7. QED
  BY <1>5, <1>6

LEMMA TerminalPrompt ==
  ASSUME LineInv, TerminalInv, prompt
  PROVE  TerminalInv'
<1>1. /\ pc = "prompt" /\ pc' = "read" /\ written' = 0 /\ buf' = buf /\ receive(Prompt) /\ kprintf(Prompt)
      /\ typed' = typed /\ ends' = ends /\ wire \in Seq(Glyph)
  BY DEF prompt, write, sys_write, TerminalInv
<1>2. <<>> \in Seq(Glyph) /\ Len(<<>>) = 0
  OBVIOUS
<1>3. TopLeft \in Terminals /\ TopLeft.col = 0 /\ TopLeft.row = <<>>
  BY TopLeftTyped DEF TopLeft
<1>5. Prompt \in Seq(Plain) /\ Prompt \in Seq(Glyph) /\ Len(Prompt) \in Nat
  BY Parameters, LenProperties
<1>6. wire' \in Seq(Glyph) /\ (NoEscapeSent' => NoEscapeSent /\ Calm(serial_printf(Prompt)))
  BY <1>1, <1>5, SentOn
<1>7. SUFFICES ASSUME NoEscapeSent' PROVE TerminalIs'
  BY <1>6 DEF TerminalInv
<1>8. terminal = TopLeft /\ Calm(serial_printf(Prompt))
  BY <1>1, <1>6, <1>7 DEF TerminalInv, TerminalIs
<1>4. LineShown(terminal, <<>>)
  BY <1>2, <1>3, <1>8 DEF LineShown
<1>9. terminal' \in Terminals
  BY <1>1, <1>3, <1>5, <1>8, RowEnds
<1>10. ASSUME InRow(Line') PROVE LineShown(terminal', ShownLine(buf', written'))
  <2>1. Line' \in Seq(Typable) /\ Holds(Line', buf', written')
    <3>1. LineInv'
      BY PromptStep
    <3>2. Holds(Line', buf', written')
      BY <1>1, <3>1 DEF LineInv, Edited
    <3>3. LineTypes /\ typed \in Seq(Typable) /\ Len(typed) \in Nat /\ Len(typed) <= Len(typed)
      BY LenProperties DEF LineInv, LineTypes
    <3>4. Start + 1 \in Nat \ {0}
      BY <3>3, LastLine
    <3>5. Line \in Seq(Typable) /\ Line' = Line
      BY <1>1, <3>3, <3>4, Part DEF Line, Start
    <3>6. QED
      BY <3>2, <3>5
  <2>2. Len(Prompt) + written' < WIDTH
    BY <1>1, <1>10, <2>1, RowHasRoom
  <2>3. Len(<<>>) + Len(Prompt) <= WIDTH
    BY <1>1, <1>2, <1>5, <2>2, Columns
  <2>4. LineShown(terminal', <<>> \o Prompt)
    BY <1>1, <1>2, <1>4, <1>5, <2>3, PlainShown
  <2>5. <<>> \o Prompt = Prompt /\ Prompt \o <<>> = Prompt
    BY <1>5, ConcatEmptySeq
  <2>6. [k \in 1 .. written' |-> buf'[k - 1]] = <<>>
    <3>1. 1 .. written' = {}
      BY <1>1
    <3>2. QED
      BY <3>1
  <2>7. QED
    BY <2>4, <2>5, <2>6 DEF ShownLine
<1>11. QED
  BY <1>1, <1>9, <1>10 DEF TerminalIs

LEMMA TerminalQuiet ==
  ASSUME TerminalInv, kmain_clears \/ banner \/ spin \/ UNCHANGED shell_vars
  PROVE  TerminalInv'
<1>1. CASE kmain_clears \/ spin \/ UNCHANGED shell_vars
  <2>1. /\ terminal' = terminal /\ buf' = buf /\ written' = written /\ wire' = wire
        /\ typed' = typed /\ ends' = ends
        /\ pc' = pc \/ (pc = "boot" /\ pc' = "banner")
    BY <1>1 DEF kmain_clears, kcls, spin, shell_vars, console
  <2>2. (NoEscapeSent' => NoEscapeSent) /\ Line' = Line
    BY <2>1 DEF NoEscapeSent, Line, Start
  <2>3. TerminalIs => TerminalIs'
    BY <2>1, <2>2 DEF TerminalIs
  <2>4. QED
    BY <2>1, <2>2, <2>3 DEF TerminalInv
<1>2. CASE banner
  <2>1. pc = "banner" /\ pc' = "prompt" /\ receive(Boot) /\ kprintf(Boot) /\ wire \in Seq(Glyph)
    BY <1>2 DEF banner, echo, TerminalInv
  <2>2. Boot \in Seq(Glyph) /\ (Boot = <<>> \/ Boot[Len(Boot)] = NL)
    BY Parameters
  <2>3. wire' \in Seq(Glyph) /\ (NoEscapeSent' => NoEscapeSent /\ Calm(serial_printf(Boot)))
    BY <2>1, <2>2, SentOn
  <2>4. ASSUME NoEscapeSent' PROVE TerminalIs'
    <3>1. terminal = TopLeft /\ terminal \in Terminals /\ Calm(serial_printf(Boot))
      BY <2>1, <2>3, <2>4 DEF TerminalInv, TerminalIs
    <3>2. terminal' = TopLeft /\ terminal' \in Terminals
      BY <2>1, <2>2, <3>1, RowEnds
    <3>3. QED
      BY <2>1, <3>2 DEF TerminalIs
  <2>5. QED
    BY <2>3, <2>4 DEF TerminalInv
<1>3. QED
  BY <1>1, <1>2

LEMMA UnknownIs ==
  ASSUME NEW command \in Seq(Typable)
  PROVE  /\ Unknown(command) \in Seq(Glyph) /\ Unknown(command) # <<>>
         /\ Unknown(command)[Len(Unknown(command))] = NL
<1> DEFINE a == <<"?">>
           b == <<NL>>
<1>1. a \in Seq(Glyph) /\ b \in Seq(Glyph) /\ Len(b) = 1 /\ b[1] = NL
  <2>1. "?" \in Glyph /\ NL \in Glyph
    BY DEF Glyph
  <2>2. QED
    BY <2>1
<1>2. command \in Seq(Glyph)
  BY Parameters, SeqMonotonic
<1> HIDE DEF a, b
<1> DEFINE u == a \o command
<1>3. Unknown(command) = u \o b /\ u \in Seq(Glyph)
  BY <1>1, <1>2, ConcatProperties DEF Unknown, a, b
<1> HIDE DEF u
<1>4. /\ u \o b \in Seq(Glyph) /\ Len(u \o b) = Len(u) + 1 /\ Len(u) \in Nat
      /\ \A k \in 1 .. Len(u) + 1 : (u \o b)[k] = IF k <= Len(u) THEN u[k] ELSE b[k - Len(u)]
  <2>1. Len(u) \in Nat /\ Len(u) + Len(b) = Len(u) + 1
    BY <1>1, <1>3, LenProperties
  <2>2. /\ u \o b \in Seq(Glyph) /\ Len(u \o b) = Len(u) + Len(b)
        /\ \A k \in 1 .. Len(u) + Len(b) : (u \o b)[k] = IF k <= Len(u) THEN u[k] ELSE b[k - Len(u)]
    BY <1>1, <1>3, ConcatProperties
  <2>3. QED
    BY <2>1, <2>2
<1>5. (u \o b)[Len(u) + 1] = NL
  <2>1. Len(u) + 1 \in 1 .. Len(u) + 1 /\ ~ (Len(u) + 1 <= Len(u)) /\ (Len(u) + 1) - Len(u) = 1
    BY <1>4
  <2>2. QED
    BY <1>1, <1>4, <2>1
<1>6. u \o b # <<>>
  BY <1>4, EmptySeq
<1>7. QED
  BY <1>3, <1>4, <1>5, <1>6

LEMMA TerminalRun ==
  ASSUME LineInv, TerminalInv, run
  PROVE  TerminalInv'
<1> DEFINE command == String(terminated)
<1>1. pc = "run" /\ pc' \in {"exited", "prompt"} /\ reply(command) /\ wire \in Seq(Glyph)
  BY DEF run, TerminalInv
<1>2. command \in Seq(Typable) /\ Len(command) = written - 1 /\ written \in Nat \ {0}
  BY <1>1, CommandIs
<1>3. NoEscapeSent => terminal \in Terminals /\ (terminal = TopLeft \/ written = LEN)
  BY <1>1 DEF TerminalInv, TerminalIs
<1> HIDE DEF command
<1>4. NoEscapeSent /\ command \in DOMAIN Replies \cup {Ls, Exit, Clear, <<>>} => terminal = TopLeft
  <2>1. LEN \in Nat \ {0, 1}
    BY Parameters
  <2>2. command = <<>> => Len(command) = 0
    BY EmptySeq
  <2>3. command \in DOMAIN Replies \cup {Ls, Exit, Clear} => Len(command) < LEN - 1
    BY Parameters
  <2>4. QED
    BY <1>2, <1>3, <2>1, <2>2, <2>3
<1> DEFINE Good == wire' \in Seq(Glyph) /\ (NoEscapeSent' => terminal' = TopLeft)
<1>5. ASSUME NEW text, write(text), text \in Seq(Glyph),
             text = <<>> => (NoEscapeSent => terminal = TopLeft), text # <<>> => text[Len(text)] = NL
      PROVE  Good
  <2>1. receive(text) /\ kprintf(text)
    BY <1>5 DEF write, sys_write
  <2>2. wire' \in Seq(Glyph) /\ (NoEscapeSent' => NoEscapeSent /\ Calm(serial_printf(text)))
    BY <1>1, <1>5, <2>1, SentOn
  <2>3. ASSUME NoEscapeSent' PROVE terminal' = TopLeft
    BY <1>3, <1>5, <2>1, <2>2, <2>3, RowEnds
  <2>4. QED
    BY <2>2, <2>3
<1>6. Good
  <2>1. CASE command = <<>> /\ UNCHANGED <<console, terminal>>
    <3>1. wire' = wire /\ terminal' = terminal
      BY <2>1 DEF console
    <3>2. QED
      BY <1>1, <1>4, <2>1, <3>1 DEF NoEscapeSent
  <2>2. CASE command = Clear /\ write(<<HOME>>)
    <3> DEFINE text == <<HOME>>
    <3>1. receive(text) /\ kprintf(text)
      BY <2>2 DEF write, sys_write
    <3>2. text \in Seq(Glyph) /\ Len(text) = 1 /\ text[1] = HOME
      <4>1. HOME \in Glyph
        BY DEF Glyph
      <4>2. QED
        BY <4>1
    <3> HIDE DEF text
    <3>c. wire' \in Seq(Glyph) /\ (NoEscapeSent' => NoEscapeSent /\ Calm(serial_printf(text)))
      BY <1>1, <3>1, <3>2, SentOn
    <3>d. SUFFICES ASSUME NoEscapeSent' PROVE terminal' = TopLeft
      BY <3>c
    <3>e. terminal \in Terminals /\ Calm(serial_printf(text))
      BY <1>3, <3>c, <3>d
    <3>3. serial_printf(text) = text
      <4>1. \A k \in 1 .. Len(text) : text[k] = HOME
        BY <3>2
      <4>2. HOME # NL
        BY DEF HOME, NL
      <4>3. QED
        BY <3>2, <4>1, <4>2, SentPlain
    <3>4. PICK f : IsMoved(f, text) /\ terminal' = f[1]
      <4>1. serial_printf(text) \in Seq(Glyph)
        BY <3>2, <3>3
      <4>2. PICK f : IsMoved(f, serial_printf(text)) /\ terminal' = f[Len(serial_printf(text))]
        BY <3>1, <3>e, <4>1, MovedIs
      <4>3. QED
        BY <3>2, <3>3, <4>2
    <3>5. f[0] = terminal /\ f[1] = Moves(f[0], HOME)
      <4>1. f[0] = terminal /\ \A k \in 1 .. 1 : f[k] = Moves(f[k - 1], text[k])
        BY <3>2, <3>4 DEF IsMoved
      <4>2. f[1] = Moves(f[1 - 1], text[1])
        BY <4>1
      <4>3. QED
        BY <3>2, <4>1, <4>2
    <3>6. QED
      BY <3>4, <3>5, <3>e, MovesIs
  <2>3. CASE command = Ls /\ \E text \in Listings : write(text)
    <3>1. PICK text \in Listings : write(text)
      BY <2>3
    <3>2. text \in Seq(Glyph) /\ (text = <<>> \/ text[Len(text)] = NL)
      BY Parameters
    <3> HIDE DEF Good
    <3>3. QED
      BY <1>4, <1>5, <2>3, <3>1, <3>2
  <2>4. CASE command \in DOMAIN Replies /\ write(Replies[command])
    <3>1. Replies[command] \in Seq(Glyph) /\ (Replies[command] = <<>> \/ Replies[command][Len(Replies[command])] = NL)
      BY <2>4, Parameters
    <3> HIDE DEF Good
    <3>2. QED
      BY <1>4, <1>5, <2>4, <3>1
  <2>5. CASE command = Exit /\ write(<<"!", NL>>)
    <3> DEFINE text == <<"!", NL>>
    <3>1. text \in Seq(Glyph) /\ text # <<>> /\ text[Len(text)] = NL
      <4>1. NL \in Glyph /\ "!" \in Glyph
        BY DEF Glyph
      <4>2. QED
        BY <4>1
    <3>2. write(text)
      BY <2>5
    <3> HIDE DEF text, Good
    <3>3. QED
      BY <1>5, <3>1, <3>2
  <2>6. CASE write(Unknown(command))
    <3>1. Unknown(command) \in Seq(Glyph) /\ Unknown(command) # <<>>
          /\ Unknown(command)[Len(Unknown(command))] = NL
      BY <1>2, UnknownIs
    <3> HIDE DEF Good
    <3>2. QED
      BY <1>5, <2>6, <3>1
  <2>7. QED
    <3> HIDE DEF Good
    <3>1. QED
      BY <1>1, <2>1, <2>2, <2>3, <2>4, <2>5, <2>6 DEF reply
<1>7. NoEscapeSent' => TerminalIs'
  BY <1>1, <1>6, TopLeftTyped DEF TerminalIs
<1>8. QED
  BY <1>6, <1>7 DEF TerminalInv

LEMMA TerminalKept == ShellSpec => []TerminalInv
<1>1. ShellInit => TerminalInv
  <2>1. <<>> \in Seq(Glyph)
    OBVIOUS
  <2>2. QED
    BY <2>1, TopLeftTyped DEF ShellInit, ConsoleInit, TerminalInv, TerminalIs
<1>2. LineInv /\ TerminalInv /\ [ShellNext]_shell_vars => TerminalInv'
  <2> SUFFICES ASSUME LineInv, TerminalInv, [ShellNext]_shell_vars PROVE TerminalInv'
    OBVIOUS
  <2>1. CASE \E c \in Char \cup {NL, BS} : read_key(c)
    BY <2>1, TerminalKey DEF Typable
  <2>2. QED
    BY <2>1, TerminalQuiet, TerminalPrompt, TerminalRun DEF ShellNext
<1>3. QED
  BY <1>1, <1>2, LineKept, PTL DEF ShellSpec

(* While a line without tabs is typed that does not reach the margin, the   *)
(* row of the cursor shows the prompt and what is in the buffer, whatever   *)
(* is erased; and a prompt begins a row, whatever was typed, echoed and     *)
(* printed before it, short of an escape: for every width of the terminal,  *)
(* distance of its tab stops and size of the buffer.                        *)
THEOREM PlainLineIsShown == ShellSpec => []TerminalShowsPlainLine
<1>1. LineInv /\ TerminalInv => TerminalShowsPlainLine
  <2> SUFFICES ASSUME LineInv, TerminalInv PROVE TerminalShowsPlainLine
    OBVIOUS
  <2> DEFINE line == Prompt \o [k \in 1 .. written |-> buf[k - 1]]
             n == Len(line)
  <2>1. NoEscapeSent /\ pc = "prompt" => terminal = TopLeft
    BY DEF TerminalInv, TerminalIs
  <2>2. ASSUME NoEscapeSent, pc = "read", InRow(Line)
        PROVE  /\ terminal.col = n /\ SubSeq(terminal.row, 1, n) = line
               /\ \A k \in n + 1 .. Len(terminal.row) : terminal.row[k] = Blank
    <3>1. buf \in [0 .. LEN -> Char \cup {NL, NUL}] /\ written \in 0 .. LEN
      BY DEF LineInv, LineTypes
    <3>2. line \in Seq(Glyph) /\ LineShown(terminal, line)
      BY <2>2, <3>1, ShownLineIs DEF TerminalInv, TerminalIs, ShownLine
    <3> HIDE DEF line
    <3>3. n \in Nat /\ 1 \in Nat \ {0}
      BY <3>2, LenProperties
    <3>4. /\ terminal.row \in Seq(Glyph) /\ terminal.col = n /\ n <= Len(terminal.row)
          /\ \A k \in 1 .. n : terminal.row[k] = line[k]
          /\ \A k \in n + 1 .. Len(terminal.row) : terminal.row[k] = Blank
      BY <3>2 DEF LineShown, Terminals
    <3> DEFINE row == terminal.row
               u == SubSeq(row, 1, n)
    <3>5. /\ u \in Seq(Glyph) /\ Len(u) = IF 1 <= n THEN n - 1 + 1 ELSE 0
          /\ \A i \in 1 .. n - 1 + 1 : u[i] = row[1 + i - 1]
      <4> HIDE DEF n
      <4>1. QED
        BY <3>3, <3>4, Part
    <3> HIDE DEF u, n
    <3>6. Len(u) = n /\ \A i \in 1 .. n : u[i] = line[i]
      BY <3>3, <3>4, <3>5
    <3>7. u = line
      BY <3>2, <3>5, <3>6, SeqEqual DEF n
    <3>8. QED
      BY <3>4, <3>7 DEF u
  <2>3. QED
    BY <2>1, <2>2 DEF TerminalShowsPlainLine
<1>2. QED
  BY <1>1, LineKept, TerminalKept, PTL

-----------------------------------------------------------------------------
(***************************************************************************)
(* Console: the sheet.  Rows begin at multiples of COLS.                   *)
(***************************************************************************)
LastRow == (ROWS - 1) * COLS
Base(x) == (x \div COLS) * COLS

LEMMA Sizes ==
  /\ ROWS \in Nat /\ COLS \in Nat \ {0} /\ LastRow \in Nat
  /\ ROWS * COLS = LastRow + COLS /\ CellNo = 0 .. LastRow + COLS - 1
<1>1. ROWS \in Nat \ {0, 1} /\ COLS \in Nat \ {0}
  BY ConsoleAssumption
<1>2. PICK r \in Nat : ROWS = r + 1
  <2>1. ROWS - 1 \in Nat /\ ROWS = (ROWS - 1) + 1
    BY <1>1
  <2>2. QED
    BY <2>1
<1>3. ROWS - 1 = r /\ r * COLS \in Nat /\ (r + 1) * COLS = r * COLS + COLS
  BY <1>1, <1>2
<1>4. LastRow = r * COLS
  BY <1>3 DEF LastRow
<1>5. ROWS * COLS = (r + 1) * COLS
  BY <1>2
<1>6. QED
  BY <1>1, <1>3, <1>4, <1>5 DEF CellNo

LEMMA BaseIs ==
  ASSUME NEW x \in Nat
  PROVE  x \div COLS \in Nat /\ Base(x) \in Nat /\ Base(x) <= x /\ x < Base(x) + COLS
<1> DEFINE q == x \div COLS
           r == x % COLS
<1>1. q \in Nat /\ r \in 0 .. COLS - 1 /\ x = COLS * q + r
  BY Sizes, SMTT(20)
<1>2. Base(x) = q * COLS
  BY DEF Base
<1> HIDE DEF q, r
<1>3. q * COLS = COLS * q /\ q * COLS \in Nat /\ COLS \in Nat
  BY <1>1, Sizes
<1>4. Base(x) \in Nat /\ Base(x) <= x /\ x < Base(x) + COLS
  BY <1>1, <1>2, <1>3
<1>5. QED
  BY <1>1, <1>4 DEF q

LEMMA Further ==
  ASSUME NEW a \in Nat, NEW b \in Nat, a < b
  PROVE  a * COLS \in Nat /\ b * COLS \in Nat /\ a * COLS + COLS <= b * COLS
<1>1. PICK d \in Nat : b = a + 1 + d
  <2>1. b - a - 1 \in Nat /\ b = a + 1 + (b - a - 1)
    OBVIOUS
  <2>2. QED
    BY <2>1
<1>2. b * COLS = a * COLS + COLS + d * COLS /\ d * COLS \in Nat /\ a * COLS \in Nat /\ COLS \in Nat
  BY <1>1, Sizes
<1>3. QED
  BY <1>2

LEMMA BaseUnique ==
  ASSUME NEW x \in Nat, NEW q \in Nat, q * COLS <= x, x < q * COLS + COLS
  PROVE  x \div COLS = q /\ Base(x) = q * COLS
<1> DEFINE p == x \div COLS
<1>1. p \in Nat /\ p * COLS <= x /\ x < p * COLS + COLS /\ COLS \in Nat
  BY BaseIs, Sizes DEF Base
<1> HIDE DEF p
<1>2. ~ (p < q) /\ ~ (q < p)
  <2>1. p * COLS \in Nat /\ q * COLS \in Nat
    BY <1>1
  <2>2. p < q => p * COLS + COLS <= q * COLS
    BY <1>1, Further
  <2>3. q < p => q * COLS + COLS <= p * COLS
    BY <1>1, Further
  <2>4. QED
    BY <1>1, <2>1, <2>2, <2>3
<1>3. p = q
  BY <1>1, <1>2
<1>4. QED
  BY <1>3 DEF p, Base

(* How a row compares with the last one of the screen. *)
LEMMA BaseRow ==
  ASSUME NEW x \in Nat
  PROVE  /\ (x \div COLS + 1) * COLS = Base(x) + COLS
         /\ x \div COLS >= ROWS - 1 <=> Base(x) >= LastRow
         /\ x \div COLS >= ROWS <=> Base(x) > LastRow
         /\ x \div COLS >= ROWS => (x \div COLS - ROWS + 1) * COLS = Base(x) - LastRow
         /\ Base(x) < LastRow => Base(x) + COLS <= LastRow
<1> DEFINE q == x \div COLS
           l == ROWS - 1
           B == q * COLS
           Y == l * COLS
<1>1. q \in Nat /\ l \in Nat /\ ROWS = l + 1 /\ COLS \in Nat \ {0}
  <2>1. q \in Nat
    BY BaseIs
  <2>2. l \in Nat /\ ROWS = l + 1 /\ COLS \in Nat \ {0}
    BY ConsoleAssumption
  <2>3. QED
    BY <2>1, <2>2
<1>2. Base(x) = B /\ LastRow = Y
  BY DEF Base, LastRow
<1>3. x \div COLS = q /\ ROWS - 1 = l
  OBVIOUS
<1> HIDE DEF q, l
<1>4. (q + 1) * COLS = B + COLS /\ B \in Nat /\ Y \in Nat
  BY <1>1
<1>5. (q - ROWS + 1) * COLS = B - Y
  <2>1. q - ROWS + 1 = q - l /\ q - l \in Int
    BY <1>1
  <2>2. (q - l) * COLS = B - Y
    BY <1>1
  <2>3. QED
    BY <2>1, <2>2
<1>6. (q < l => B + COLS <= Y) /\ (l < q => Y + COLS <= B) /\ (q = l => B = Y)
  BY <1>1, Further
<1> HIDE DEF B, Y
<1>7. q >= l <=> B >= Y
  BY <1>1, <1>4, <1>6
<1>8. q >= ROWS <=> B > Y
  BY <1>1, <1>4, <1>6
<1>9. B < Y => B + COLS <= Y
  BY <1>1, <1>4, <1>6
<1>10. QED
  BY <1>2, <1>3, <1>4, <1>5, <1>7, <1>8, <1>9

(* The next row, and the next cell. *)
LEMMA BaseNext ==
  ASSUME NEW x \in Nat
  PROVE  /\ Base(Base(x) + COLS) = Base(x) + COLS
         /\ x + 1 < Base(x) + COLS => Base(x + 1) = Base(x)
         /\ ~ (x + 1 < Base(x) + COLS) => x + 1 = Base(x) + COLS
<1> DEFINE q == x \div COLS
<1>1. q \in Nat /\ COLS \in Nat \ {0} /\ Base(x) = q * COLS /\ Base(x) \in Nat /\ Base(x) <= x /\ x < Base(x) + COLS
  BY BaseIs, Sizes DEF Base
<1> HIDE DEF q
<1>2. (q + 1) * COLS = Base(x) + COLS /\ q + 1 \in Nat
  BY <1>1
<1>3. Base(Base(x) + COLS) = Base(x) + COLS
  <2>1. Base(x) + COLS \in Nat /\ (q + 1) * COLS <= Base(x) + COLS /\ Base(x) + COLS < (q + 1) * COLS + COLS
    BY <1>1, <1>2
  <2>2. QED
    BY <1>2, <2>1, BaseUnique
<1>4. x + 1 < Base(x) + COLS => Base(x + 1) = Base(x)
  <2>1. x + 1 \in Nat /\ q * COLS <= x + 1
    BY <1>1
  <2>2. QED
    BY <1>1, <2>1, BaseUnique
<1>5. QED
  BY <1>1, <1>3, <1>4

(* The row that is on top of the screen while the cursor is at x. *)
Top(x) == IF Base(x) > LastRow THEN Base(x) - LastRow ELSE 0

(* Where the cursor is on the screen. *)
LEMMA CursorRow ==
  ASSUME NEW x \in Nat
  PROVE  /\ Top(x) \in Nat /\ Top(x) <= x /\ x - Top(x) \in CellNo
         /\ Base(x) >= LastRow => Base(x - Top(x)) = LastRow /\ Top(x) = Base(x) - LastRow
         /\ Base(x) < LastRow => Top(x) = 0
<1>1. Base(x) \in Nat /\ Base(x) <= x /\ x < Base(x) + COLS
  BY BaseIs
<1>2. LastRow \in Nat /\ COLS \in Nat \ {0} /\ CellNo = 0 .. LastRow + COLS - 1
  BY Sizes
<1>3. /\ Base(x) >= LastRow => Top(x) = Base(x) - LastRow
      /\ Base(x) <= LastRow => Top(x) = 0
  BY <1>1, <1>2 DEF Top
<1>4. Top(x) \in Nat /\ Top(x) <= x /\ x - Top(x) \in CellNo
  BY <1>1, <1>2, <1>3
<1>5. ASSUME Base(x) >= LastRow PROVE Base(x - Top(x)) = LastRow
  <2>1. x - Top(x) \in Nat /\ LastRow <= x - Top(x) /\ x - Top(x) < LastRow + COLS
    BY <1>1, <1>2, <1>3, <1>5
  <2>2. ROWS - 1 \in Nat /\ LastRow = (ROWS - 1) * COLS
    BY ConsoleAssumption DEF LastRow
  <2>3. QED
    BY <2>1, <2>2, BaseUnique
<1>6. QED
  BY <1>1, <1>2, <1>3, <1>4, <1>5

Screens == [vga : [CellNo -> Glyph], cursor : CellNo]

LEMMA ScrollIs ==
  ASSUME NEW vga \in [CellNo -> Glyph]
  PROVE  /\ scroll(vga) \in Screens /\ scroll(vga).cursor = LastRow
         /\ \A c \in CellNo :
              scroll(vga).vga[c] = IF c < LastRow THEN vga[c + COLS] ELSE Blank
         /\ \A c \in CellNo : c < LastRow => c + COLS \in CellNo
<1>1. LastRow \in Nat /\ COLS \in Nat \ {0} /\ CellNo = 0 .. LastRow + COLS - 1
  BY Sizes
<1>2. \A c \in CellNo : c < LastRow => c + COLS \in CellNo
  BY <1>1
<1>3. LastRow \in CellNo /\ Blank \in Glyph
  BY <1>1 DEF Glyph
<1> DEFINE next == [c \in CellNo |-> IF c < LastRow THEN vga[c + COLS] ELSE Blank]
<1>4. next \in [CellNo -> Glyph]
  BY <1>2, <1>3
<1>5. scroll(vga) = [vga |-> next, cursor |-> LastRow]
  BY DEF scroll, LastRow
<1>6. QED
  BY <1>2, <1>3, <1>4, <1>5 DEF Screens

LEMMA NewlineIs ==
  ASSUME NEW s \in Screens
  PROVE  /\ newline(s) \in Screens
         /\ newline(s) = IF Base(s.cursor) >= LastRow THEN scroll(s.vga)
                         ELSE [vga |-> s.vga, cursor |-> Base(s.cursor) + COLS]
<1>1. s = [vga |-> s.vga, cursor |-> s.cursor] /\ s.vga \in [CellNo -> Glyph] /\ s.cursor \in CellNo
  BY DEF Screens
<1>2. LastRow \in Nat /\ COLS \in Nat \ {0} /\ CellNo = 0 .. LastRow + COLS - 1
  BY Sizes
<1>3. s.cursor \in Nat
  BY <1>1, <1>2
<1> DEFINE row == s.cursor \div COLS
<1>4. (row + 1) * COLS = Base(s.cursor) + COLS /\ (row >= ROWS - 1 <=> Base(s.cursor) >= LastRow)
      /\ (Base(s.cursor) < LastRow => Base(s.cursor) + COLS <= LastRow) /\ Base(s.cursor) \in Nat
  BY <1>3, BaseRow, BaseIs
<1>5. newline(s) = IF row >= ROWS - 1 THEN scroll(s.vga) ELSE [s EXCEPT !.cursor = (row + 1) * COLS]
  BY DEF newline
<1> HIDE DEF row
<1>6. newline(s) = IF Base(s.cursor) >= LastRow THEN scroll(s.vga)
                   ELSE [vga |-> s.vga, cursor |-> Base(s.cursor) + COLS]
  BY <1>1, <1>4, <1>5
<1>7. CASE Base(s.cursor) >= LastRow
  BY <1>1, <1>6, <1>7, ScrollIs
<1>8. CASE ~ (Base(s.cursor) >= LastRow)
  <2>1. Base(s.cursor) + COLS \in CellNo
    BY <1>2, <1>4, <1>8
  <2>2. QED
    BY <1>1, <1>6, <1>8, <2>1 DEF Screens
<1>9. QED
  BY <1>7, <1>8

LEMMA PutIs ==
  ASSUME NEW s \in Screens, NEW c \in Glyph
  PROVE  /\ put(s, c) \in Screens /\ [s.vga EXCEPT ![s.cursor] = c] \in [CellNo -> Glyph]
         /\ put(s, c) = IF s.cursor + 1 >= LastRow + COLS THEN scroll([s.vga EXCEPT ![s.cursor] = c])
                        ELSE [vga |-> [s.vga EXCEPT ![s.cursor] = c], cursor |-> s.cursor + 1]
<1> DEFINE vga == [s.vga EXCEPT ![s.cursor] = c]
<1>1. s.vga \in [CellNo -> Glyph] /\ s.cursor \in CellNo
  BY DEF Screens
<1>2. LastRow \in Nat /\ COLS \in Nat \ {0} /\ CellNo = 0 .. LastRow + COLS - 1 /\ ROWS * COLS = LastRow + COLS
  BY Sizes
<1>3. vga \in [CellNo -> Glyph]
  BY <1>1
<1>4. put(s, c) = IF s.cursor + 1 >= LastRow + COLS THEN scroll(vga) ELSE [vga |-> vga, cursor |-> s.cursor + 1]
  BY <1>2 DEF put
<1> HIDE DEF vga
<1>5. CASE s.cursor + 1 >= LastRow + COLS
  BY <1>3, <1>4, <1>5, ScrollIs DEF vga
<1>6. CASE ~ (s.cursor + 1 >= LastRow + COLS)
  <2>1. s.cursor + 1 \in CellNo
    BY <1>1, <1>2, <1>6
  <2>2. put(s, c) \in Screens
    BY <1>3, <1>4, <1>6, <2>1 DEF Screens
  <2>3. QED
    BY <1>3, <1>4, <2>2 DEF vga
<1>7. QED
  BY <1>5, <1>6

-----------------------------------------------------------------------------
(***************************************************************************)
(* Console: the bytes sent so far are on the sheet.                        *)
(***************************************************************************)
NextPlace(x, c) == IF c = CR THEN x ELSE IF c = NL THEN Base(x) + COLS ELSE x + 1

(* The place of the cursor behind each byte. *)
IsPlaced(p, sent) ==
  /\ p \in [0 .. Len(sent) -> Nat] /\ p[0] = 0
  /\ \A k \in 1 .. Len(sent) : p[k] = NextPlace(p[k - 1], sent[k])

(* Byte k is drawn, and where x is. *)
DrawnAt(sent, p, k, x) == sent[k] \notin {CR, NL} /\ p[k - 1] = x

(* The cells from place top on. *)
Cells(vga, sent, p, top) ==
  \A c \in CellNo :
    /\ \A k \in 1 .. Len(sent) : DrawnAt(sent, p, k, top + c) => vga[c] = sent[k]
    /\ (\A k \in 1 .. Len(sent) : ~ DrawnAt(sent, p, k, top + c)) => vga[c] = Blank

(* No place behind the cursor was ever reached. *)
Behind(sent, p) ==
  \A k \in 1 .. Len(sent) : sent[k] \notin {CR, NL} => p[k - 1] < p[Len(sent)]

FollowsBy(s, sent, p) ==
  /\ IsPlaced(p, sent) /\ Behind(sent, p)
  /\ s.cursor = p[Len(sent)] - Top(p[Len(sent)])
  /\ Cells(s.vga, sent, p, Top(p[Len(sent)]))

Follows(s, sent) == s \in Screens /\ sent \in Seq(Glyph) /\ \E p : FollowsBy(s, sent, p)

(* The place behind one more byte. *)
Placed(p, sent, c) == [k \in 0 .. Len(sent) + 1 |->
                         IF k = Len(sent) + 1 THEN NextPlace(p[Len(sent)], c) ELSE p[k]]

LEMMA PlacedIs ==
  ASSUME NEW sent \in Seq(Glyph), NEW c \in Glyph, NEW p, IsPlaced(p, sent)
  PROVE  /\ IsPlaced(Placed(p, sent, c), Append(sent, c))
         /\ Placed(p, sent, c)[Len(sent) + 1] = NextPlace(p[Len(sent)], c)
         /\ \A k \in 0 .. Len(sent) : Placed(p, sent, c)[k] = p[k]
         /\ p[Len(sent)] \in Nat /\ NextPlace(p[Len(sent)], c) \in Nat /\ Len(sent) \in Nat
<1> DEFINE L == Len(sent)
           t == Append(sent, c)
           q == Placed(p, sent, c)
           x == p[L]
<1>1. L \in Nat /\ Len(t) = L + 1 /\ t[L + 1] = c /\ \A k \in 1 .. L : t[k] = sent[k]
  BY Appended
<1>2. /\ p \in [0 .. L -> Nat] /\ p[0] = 0
      /\ \A k \in 1 .. L : p[k] = NextPlace(p[k - 1], sent[k])
  BY DEF IsPlaced
<1>3. q = [k \in 0 .. L + 1 |-> IF k = L + 1 THEN NextPlace(x, c) ELSE p[k]]
  BY DEF Placed
<1> HIDE DEF L, t, q
<1>4. x \in Nat
  BY <1>1, <1>2
<1>5. NextPlace(x, c) \in Nat
  <2> HIDE DEF x
  <2>1. Base(x) \in Nat /\ COLS \in Nat
    BY <1>4, BaseIs, Sizes
  <2>2. QED
    BY <1>4, <2>1 DEF NextPlace
<1>6. q[L + 1] = NextPlace(x, c) /\ \A k \in 0 .. L : q[k] = p[k]
  BY <1>1, <1>3
<1>7. q \in [0 .. L + 1 -> Nat]
  <2>1. \A k \in 0 .. L + 1 : k = L + 1 \/ k \in 0 .. L
    BY <1>1
  <2>2. QED
    BY <1>2, <1>3, <1>5, <2>1
<1>8. ASSUME NEW k \in 1 .. L + 1 PROVE q[k] = NextPlace(q[k - 1], t[k])
  <2>1. k - 1 \in 0 .. L /\ (k = L + 1 \/ k \in 1 .. L) /\ (k = L + 1 => k - 1 = L)
    BY <1>1
  <2>2. CASE k = L + 1
    BY <1>1, <1>6, <2>1, <2>2
  <2>3. CASE k \in 1 .. L
    <3>1. k \in 0 .. L
      BY <1>1, <2>3
    <3>2. QED
      BY <1>1, <1>2, <1>6, <2>1, <2>3, <3>1
  <2>4. QED
    BY <2>1, <2>2, <2>3
<1>9. q[0] = 0
  BY <1>1, <1>2, <1>6
<1>10. IsPlaced(q, t)
  BY <1>1, <1>7, <1>8, <1>9 DEF IsPlaced
<1>11. QED
  BY <1>1, <1>4, <1>5, <1>6, <1>10 DEF q, t, L, x

(* What is drawn stays so. *)
LEMMA DrawnStays ==
  ASSUME NEW sent \in Seq(Glyph), NEW c \in Glyph, NEW p, IsPlaced(p, sent),
         NEW k \in 1 .. Len(sent), NEW x
  PROVE  /\ DrawnAt(Append(sent, c), Placed(p, sent, c), k, x) <=> DrawnAt(sent, p, k, x)
         /\ Append(sent, c)[k] = sent[k] /\ Placed(p, sent, c)[k - 1] = p[k - 1]
<1>1. Append(sent, c)[k] = sent[k] /\ Len(sent) \in Nat
  BY Appended
<1>2. k - 1 \in 0 .. Len(sent)
  BY <1>1
<1>3. Placed(p, sent, c)[k - 1] = p[k - 1]
  BY <1>2, PlacedIs
<1>4. QED
  BY <1>1, <1>3 DEF DrawnAt

(* One more byte that is not drawn. *)
LEMMA CellsStay ==
  ASSUME NEW sent \in Seq(Glyph), NEW c \in {CR, NL}, NEW p, IsPlaced(p, sent), NEW vga, NEW top,
         Cells(vga, sent, p, top)
  PROVE  Cells(vga, Append(sent, c), Placed(p, sent, c), top)
<1> DEFINE t == Append(sent, c)
           q == Placed(p, sent, c)
<1>1. c \in Glyph
  BY DEF Glyph
<1>2. Len(sent) \in Nat /\ Len(t) = Len(sent) + 1 /\ t[Len(sent) + 1] = c
  BY <1>1, Appended
<1>3. \A k \in 1 .. Len(sent) : \A x : (DrawnAt(t, q, k, x) <=> DrawnAt(sent, p, k, x)) /\ t[k] = sent[k]
  BY <1>1, DrawnStays
<1> HIDE DEF t, q
<1>4. \A x : ~ DrawnAt(t, q, Len(sent) + 1, x)
  BY <1>2 DEF DrawnAt
<1>5. \A k \in 1 .. Len(t) : k \in 1 .. Len(sent) \/ k = Len(sent) + 1
  BY <1>2
<1>6. \A k \in 1 .. Len(sent) : k \in 1 .. Len(t)
  BY <1>2
<1>7. SUFFICES ASSUME NEW d \in CellNo
               PROVE  /\ \A k \in 1 .. Len(t) : DrawnAt(t, q, k, top + d) => vga[d] = t[k]
                      /\ (\A k \in 1 .. Len(t) : ~ DrawnAt(t, q, k, top + d)) => vga[d] = Blank
  BY DEF Cells, t, q
<1>8. /\ \A k \in 1 .. Len(sent) : DrawnAt(sent, p, k, top + d) => vga[d] = sent[k]
      /\ (\A k \in 1 .. Len(sent) : ~ DrawnAt(sent, p, k, top + d)) => vga[d] = Blank
  BY DEF Cells
<1>9. \A k \in 1 .. Len(t) : DrawnAt(t, q, k, top + d) => vga[d] = t[k]
  BY <1>3, <1>4, <1>5, <1>8
<1>10. (\A k \in 1 .. Len(t) : ~ DrawnAt(t, q, k, top + d)) => vga[d] = Blank
  BY <1>3, <1>6, <1>8
<1>11. QED
  BY <1>9, <1>10

(* One that is. *)
LEMMA CellsPut ==
  ASSUME NEW sent \in Seq(Glyph), NEW c \in Glyph \ {CR, NL}, NEW p, IsPlaced(p, sent),
         Behind(sent, p), NEW vga \in [CellNo -> Glyph], NEW top \in Nat, NEW at \in CellNo,
         p[Len(sent)] = top + at, Cells(vga, sent, p, top)
  PROVE  Cells([vga EXCEPT ![at] = c], Append(sent, c), Placed(p, sent, c), top)
<1> DEFINE t == Append(sent, c)
           q == Placed(p, sent, c)
           v == [vga EXCEPT ![at] = c]
           L == Len(sent)
<1>1. L \in Nat /\ Len(t) = L + 1 /\ t[L + 1] = c /\ c \notin {CR, NL}
  BY Appended
<1>2. \A k \in 1 .. L : \A x : (DrawnAt(t, q, k, x) <=> DrawnAt(sent, p, k, x)) /\ t[k] = sent[k]
  BY DrawnStays
<1>3. q[L] = top + at
  <2>1. L \in 0 .. Len(sent)
    BY <1>1
  <2>2. QED
    BY <2>1, PlacedIs
<1>4. \A k \in 1 .. L : sent[k] \notin {CR, NL} => p[k - 1] < top + at
  BY DEF Behind
<1>5. at \in Nat /\ top \in Nat /\ \A d \in CellNo : d \in Nat
  BY Sizes
<1>6. \A k \in 1 .. L : ~ DrawnAt(sent, p, k, top + at)
  BY <1>4, <1>5 DEF DrawnAt
<1>7. /\ \A d \in CellNo : \A k \in 1 .. L : DrawnAt(sent, p, k, top + d) => vga[d] = sent[k]
      /\ \A d \in CellNo : (\A k \in 1 .. L : ~ DrawnAt(sent, p, k, top + d)) => vga[d] = Blank
  BY DEF Cells
<1>8. v[at] = c /\ \A d \in CellNo : d # at => v[d] = vga[d]
  OBVIOUS
<1> HIDE DEF t, q, v, L
<1>9. \A d \in CellNo : DrawnAt(t, q, L + 1, top + d) <=> d = at
  <2>1. (L + 1) - 1 = L
    BY <1>1
  <2>2. \A d \in CellNo : top + at = top + d <=> d = at
    BY <1>5
  <2>3. QED
    BY <1>1, <1>3, <2>1, <2>2 DEF DrawnAt
<1>10. \A k \in 1 .. Len(t) : k \in 1 .. L \/ k = L + 1
  BY <1>1
<1>11. L + 1 \in 1 .. Len(t) /\ \A k \in 1 .. L : k \in 1 .. Len(t)
  BY <1>1
<1>12. ASSUME NEW d \in CellNo
       PROVE  /\ \A k \in 1 .. Len(t) : DrawnAt(t, q, k, top + d) => v[d] = t[k]
              /\ (\A k \in 1 .. Len(t) : ~ DrawnAt(t, q, k, top + d)) => v[d] = Blank
  <2>1. CASE d = at
    <3>1. \A k \in 1 .. Len(t) : DrawnAt(t, q, k, top + d) => v[d] = t[k]
      BY <1>1, <1>2, <1>6, <1>8, <1>10, <2>1
    <3>2. ~ \A k \in 1 .. Len(t) : ~ DrawnAt(t, q, k, top + d)
      BY <1>9, <1>11, <2>1
    <3>3. QED
      BY <3>1, <3>2
  <2>2. CASE d # at
    <3>1. \A k \in 1 .. Len(t) : DrawnAt(t, q, k, top + d) => v[d] = t[k]
      BY <1>2, <1>7, <1>8, <1>9, <1>10, <2>2
    <3>2. (\A k \in 1 .. Len(t) : ~ DrawnAt(t, q, k, top + d)) => v[d] = Blank
      BY <1>2, <1>7, <1>8, <1>11, <2>2
    <3>3. QED
      BY <3>1, <3>2
  <2>3. QED
    BY <2>1, <2>2
<1>13. Cells(v, t, q, top)
  BY <1>12 DEF Cells
<1>14. QED
  BY <1>13 DEF v, t, q

(* The screen moves down by a row when nothing is behind its end. *)
LEMMA CellsScroll ==
  ASSUME NEW sent \in Seq(Glyph), NEW p, IsPlaced(p, sent), NEW vga \in [CellNo -> Glyph],
         NEW top \in Nat, Cells(vga, sent, p, top),
         \A k \in 1 .. Len(sent) : sent[k] \notin {CR, NL} => p[k - 1] < top + (LastRow + COLS)
  PROVE  Cells(scroll(vga).vga, sent, p, top + COLS)
<1> DEFINE v == scroll(vga).vga
<1>1. LastRow \in Nat /\ COLS \in Nat \ {0} /\ CellNo = 0 .. LastRow + COLS - 1
  BY Sizes
<1>2. /\ \A d \in CellNo : v[d] = IF d < LastRow THEN vga[d + COLS] ELSE Blank
      /\ \A d \in CellNo : d < LastRow => d + COLS \in CellNo
  BY ScrollIs
<1>3. /\ \A d \in CellNo : \A k \in 1 .. Len(sent) : DrawnAt(sent, p, k, top + d) => vga[d] = sent[k]
      /\ \A d \in CellNo : (\A k \in 1 .. Len(sent) : ~ DrawnAt(sent, p, k, top + d)) => vga[d] = Blank
  BY DEF Cells
<1> HIDE DEF v
<1>4. ASSUME NEW d \in CellNo
      PROVE  /\ \A k \in 1 .. Len(sent) : DrawnAt(sent, p, k, (top + COLS) + d) => v[d] = sent[k]
             /\ (\A k \in 1 .. Len(sent) : ~ DrawnAt(sent, p, k, (top + COLS) + d)) => v[d] = Blank
  <2>1. CASE d < LastRow
    <3>1. d + COLS \in CellNo /\ v[d] = vga[d + COLS] /\ (top + COLS) + d = top + (d + COLS)
      BY <1>1, <1>2, <2>1
    <3>2. QED
      BY <1>3, <3>1
  <2>2. CASE ~ (d < LastRow)
    <3>1. v[d] = Blank /\ (top + COLS) + d >= top + (LastRow + COLS) /\ (top + COLS) + d \in Nat
      BY <1>1, <1>2, <2>2
    <3>2. ASSUME NEW k \in 1 .. Len(sent) PROVE ~ DrawnAt(sent, p, k, (top + COLS) + d)
      <4>1. SUFFICES ASSUME DrawnAt(sent, p, k, (top + COLS) + d) PROVE FALSE
        OBVIOUS
      <4>2. sent[k] \notin {CR, NL} /\ p[k - 1] = (top + COLS) + d
        BY <4>1 DEF DrawnAt
      <4>3. (top + COLS) + d < top + (LastRow + COLS)
        BY <4>2
      <4>4. top + (LastRow + COLS) \in Nat
        BY <1>1
      <4>5. QED
        BY <3>1, <4>3, <4>4
    <3>3. QED
      BY <3>1, <3>2
  <2>3. QED
    BY <2>1, <2>2
<1>5. Cells(v, sent, p, top + COLS)
  BY <1>4 DEF Cells
<1>6. QED
  BY <1>5 DEF v

LEMMA BehindNext ==
  ASSUME NEW sent \in Seq(Glyph), NEW c \in Glyph, NEW p, IsPlaced(p, sent), Behind(sent, p)
  PROVE  /\ Behind(Append(sent, c), Placed(p, sent, c))
         /\ p[Len(sent)] <= NextPlace(p[Len(sent)], c)
<1> DEFINE t == Append(sent, c)
           q == Placed(p, sent, c)
           L == Len(sent)
           x == p[L]
           y == NextPlace(x, c)
<1>1. /\ L \in Nat /\ Len(t) = L + 1 /\ t[L + 1] = c
      /\ \A k \in 1 .. L : t[k] = sent[k]
  BY Appended
<1>2. /\ q[L + 1] = y /\ x \in Nat /\ y \in Nat
      /\ \A k \in 0 .. L : q[k] = p[k]
      /\ \A k \in 1 .. L : p[k - 1] \in Nat
  <2>1. p \in [0 .. L -> Nat]
    BY DEF IsPlaced
  <2>2. \A k \in 1 .. L : k - 1 \in 0 .. L
    BY <1>1
  <2>3. QED
    BY <2>1, <2>2, PlacedIs
<1>3. \A k \in 1 .. L : sent[k] \notin {CR, NL} => p[k - 1] < x
  BY DEF Behind
<1>4. x <= y /\ (c \notin {CR, NL} => x < y)
  <2> HIDE DEF x
  <2>1. Base(x) \in Nat /\ x < Base(x) + COLS /\ COLS \in Nat
    BY <1>2, BaseIs, Sizes
  <2>2. QED
    BY <1>2, <2>1 DEF NextPlace
<1> HIDE DEF t, q, L, y, x
<1>5. ASSUME NEW k \in 1 .. L + 1, t[k] \notin {CR, NL} PROVE q[k - 1] < y
  <2>1. k - 1 \in 0 .. L /\ (k = L + 1 \/ k \in 1 .. L) /\ (k = L + 1 => k - 1 = L)
    BY <1>1
  <2>2. CASE k = L + 1
    BY <1>1, <1>2, <1>4, <1>5, <2>1, <2>2 DEF x
  <2>3. CASE k \in 1 .. L
    <3>1. p[k - 1] < x /\ p[k - 1] \in Nat /\ q[k - 1] = p[k - 1]
      BY <1>1, <1>2, <1>3, <1>5, <2>1, <2>3
    <3>2. QED
      BY <1>2, <1>4, <3>1
  <2>4. QED
    BY <2>1, <2>2, <2>3
<1>6. Behind(t, q)
  BY <1>1, <1>2, <1>5 DEF Behind
<1>7. QED
  BY <1>4, <1>6 DEF t, q, x, y, L

LEMMA FollowsCR ==
  ASSUME NEW s, NEW sent, Follows(s, sent)
  PROVE  Follows(s, Append(sent, CR))
<1>1. s \in Screens /\ sent \in Seq(Glyph)
  BY DEF Follows
<1>2. PICK p : FollowsBy(s, sent, p)
  BY DEF Follows
<1>3. CR \in Glyph /\ CR \in {CR, NL}
  BY DEF Glyph
<1> DEFINE t == Append(sent, CR)
           q == Placed(p, sent, CR)
<1>4. /\ IsPlaced(p, sent) /\ Behind(sent, p)
      /\ s.cursor = p[Len(sent)] - Top(p[Len(sent)])
      /\ Cells(s.vga, sent, p, Top(p[Len(sent)]))
  BY <1>2 DEF FollowsBy
<1>5. /\ IsPlaced(q, t) /\ Behind(t, q)
      /\ t \in Seq(Glyph) /\ Len(t) = Len(sent) + 1
  BY <1>1, <1>3, <1>4, PlacedIs, BehindNext, Appended
<1>6. q[Len(sent) + 1] = p[Len(sent)]
  <2>1. q[Len(sent) + 1] = NextPlace(p[Len(sent)], CR)
    BY <1>1, <1>3, <1>4, PlacedIs
  <2>2. QED
    BY <2>1 DEF NextPlace
<1>7. Cells(s.vga, t, q, Top(p[Len(sent)]))
  BY <1>1, <1>3, <1>4, CellsStay
<1> HIDE DEF t, q
<1>8. FollowsBy(s, t, q)
  BY <1>4, <1>5, <1>6, <1>7 DEF FollowsBy
<1>9. QED
  BY <1>1, <1>5, <1>8 DEF Follows, t

LEMMA FollowsNL ==
  ASSUME NEW s, NEW sent, Follows(s, sent)
  PROVE  Follows(newline(s), Append(sent, NL))
<1>1. s \in Screens /\ sent \in Seq(Glyph)
  BY DEF Follows
<1>2. PICK p : FollowsBy(s, sent, p)
  BY DEF Follows
<1>3. NL \in Glyph /\ NL \in {CR, NL} /\ NL # CR
  BY DEF Glyph, NL, CR
<1> DEFINE t == Append(sent, NL)
           q == Placed(p, sent, NL)
           L == Len(sent)
           x == p[L]
           y == NextPlace(x, NL)
           n == newline(s)
<1>4. /\ IsPlaced(p, sent) /\ Behind(sent, p)
      /\ s.cursor = x - Top(x) /\ Cells(s.vga, sent, p, Top(x))
  BY <1>2 DEF FollowsBy
<1>5. /\ IsPlaced(q, t) /\ Behind(t, q) /\ t \in Seq(Glyph) /\ Len(t) = L + 1
      /\ q[L + 1] = y /\ x \in Nat /\ y \in Nat /\ L \in Nat
  BY <1>1, <1>3, <1>4, PlacedIs, BehindNext, Appended
<1>6. Cells(s.vga, t, q, Top(x))
  BY <1>1, <1>3, <1>4, CellsStay
<1>7. /\ n \in Screens
      /\ n = IF Base(s.cursor) >= LastRow THEN scroll(s.vga)
             ELSE [vga |-> s.vga, cursor |-> Base(s.cursor) + COLS]
  BY <1>1, NewlineIs
<1>8. y = Base(x) + COLS
  BY <1>3 DEF NextPlace
<1>9. s.vga \in [CellNo -> Glyph] /\ s.cursor \in CellNo
  BY <1>1 DEF Screens
<1> HIDE DEF t, q, L, x, n
<1>10. Base(x) \in Nat /\ Base(x) <= x /\ x < Base(x) + COLS /\ Base(y) = Base(x) + COLS
  BY <1>5, <1>8, BaseIs, BaseNext
<1>11. LastRow \in Nat /\ COLS \in Nat \ {0} /\ (Base(x) < LastRow => Base(x) + COLS <= LastRow)
  BY <1>5, Sizes, BaseRow
<1>12. /\ Top(x) \in Nat /\ Top(x) <= x
       /\ Base(x) >= LastRow => Base(x - Top(x)) = LastRow /\ Top(x) = Base(x) - LastRow
       /\ Base(x) < LastRow => Top(x) = 0
  BY <1>5, CursorRow
<1>13. FollowsBy(n, t, q)
  <2>1. CASE Base(x) < LastRow
    <3>1. s.cursor = x /\ Top(x) = 0
      BY <1>4, <1>5, <1>12, <2>1
    <3>2. n = [vga |-> s.vga, cursor |-> Base(x) + COLS]
      BY <1>7, <1>10, <1>11, <2>1, <3>1
    <3>3. Top(y) = 0
      BY <1>10, <1>11, <2>1 DEF Top
    <3>4. n.cursor = y - Top(y) /\ n.vga = s.vga
      BY <1>5, <1>8, <3>2, <3>3
    <3>5. Cells(n.vga, t, q, Top(y))
      BY <1>6, <3>1, <3>3, <3>4
    <3>6. QED
      BY <1>5, <3>4, <3>5 DEF FollowsBy
  <2>2. CASE ~ (Base(x) < LastRow)
    <3>1. Base(x) >= LastRow /\ Base(s.cursor) = LastRow /\ Top(x) = Base(x) - LastRow
      BY <1>4, <1>10, <1>11, <1>12, <2>2
    <3>2. n = scroll(s.vga) /\ n.cursor = LastRow
      BY <1>7, <1>9, <1>11, <3>1, ScrollIs
    <3>3. Top(y) = Top(x) + COLS /\ y - Top(y) = LastRow
      BY <1>8, <1>10, <1>11, <2>2, <3>1 DEF Top
    <3>4. \A k \in 1 .. Len(t) : t[k] \notin {CR, NL} => q[k - 1] < Top(x) + (LastRow + COLS)
      <4>1. y = Top(x) + (LastRow + COLS)
        BY <1>8, <1>10, <1>11, <3>1
      <4>2. QED
        BY <1>5, <4>1 DEF Behind
    <3>5. Cells(n.vga, t, q, Top(y))
      BY <1>5, <1>6, <1>9, <1>12, <3>2, <3>3, <3>4, CellsScroll
    <3>6. QED
      BY <1>5, <3>2, <3>3, <3>5 DEF FollowsBy
  <2>3. QED
    BY <2>1, <2>2
<1>14. QED
  BY <1>5, <1>7, <1>13 DEF Follows, t, n

LEMMA FollowsPut ==
  ASSUME NEW s, NEW sent, Follows(s, sent), NEW c \in Glyph \ {CR, NL}
  PROVE  Follows(put(s, c), Append(sent, c))
<1>1. s \in Screens /\ sent \in Seq(Glyph)
  BY DEF Follows
<1>2. PICK p : FollowsBy(s, sent, p)
  BY DEF Follows
<1>3. c \in Glyph /\ c # CR /\ c # NL
  OBVIOUS
<1> DEFINE t == Append(sent, c)
           q == Placed(p, sent, c)
           L == Len(sent)
           x == p[L]
           y == NextPlace(x, c)
           vga == [s.vga EXCEPT ![s.cursor] = c]
           n == put(s, c)
<1>4. /\ IsPlaced(p, sent) /\ Behind(sent, p)
      /\ s.cursor = x - Top(x) /\ Cells(s.vga, sent, p, Top(x))
  BY <1>2 DEF FollowsBy
<1>5. /\ IsPlaced(q, t) /\ Behind(t, q) /\ t \in Seq(Glyph) /\ Len(t) = L + 1
      /\ q[L + 1] = y /\ x \in Nat /\ y \in Nat /\ L \in Nat
  BY <1>1, <1>3, <1>4, PlacedIs, BehindNext, Appended
<1>6. s.vga \in [CellNo -> Glyph] /\ s.cursor \in CellNo
  BY <1>1 DEF Screens
<1>7. /\ n \in Screens /\ vga \in [CellNo -> Glyph]
      /\ n = IF s.cursor + 1 >= LastRow + COLS THEN scroll(vga)
             ELSE [vga |-> vga, cursor |-> s.cursor + 1]
  BY <1>1, <1>3, PutIs
<1>8. y = x + 1
  BY <1>3 DEF NextPlace
<1>9. /\ Top(x) \in Nat /\ Top(x) <= x
      /\ Base(x) >= LastRow => Top(x) = Base(x) - LastRow
      /\ Base(x) < LastRow => Top(x) = 0
  BY <1>5, CursorRow
<1>10. p[Len(sent)] = Top(x) + s.cursor
  <2> HIDE DEF x, L
  <2>1. x = Top(x) + s.cursor
    BY <1>4, <1>5, <1>9
  <2>2. QED
    BY <2>1 DEF x, L
<1>11. Cells(vga, t, q, Top(x))
  <2>1. c \in Glyph \ {CR, NL}
    OBVIOUS
  <2>2. QED
    BY <1>1, <1>4, <1>6, <1>9, <1>10, <2>1, CellsPut
<1> HIDE DEF t, q, L, x, y, n, vga
<1>12. /\ Base(x) \in Nat /\ Base(x) <= x /\ x < Base(x) + COLS
       /\ x + 1 < Base(x) + COLS => Base(y) = Base(x)
       /\ ~ (x + 1 < Base(x) + COLS) => y = Base(x) + COLS /\ Base(y) = Base(x) + COLS
  BY <1>5, <1>8, BaseIs, BaseNext
<1>13. LastRow \in Nat /\ COLS \in Nat \ {0} /\ (Base(x) < LastRow => Base(x) + COLS <= LastRow)
  BY <1>5, Sizes, BaseRow
<1>14. FollowsBy(n, t, q)
  <2>1. CASE x + 1 < Base(x) + COLS \/ Base(x) < LastRow
    <3>1. Top(y) = Top(x)
      BY <1>5, <1>9, <1>12, <1>13, <2>1 DEF Top
    <3>2. ~ (s.cursor + 1 >= LastRow + COLS)
      BY <1>4, <1>5, <1>9, <1>12, <1>13, <2>1
    <3>3. n.vga = vga /\ n.cursor = s.cursor + 1
      BY <1>7, <3>2
    <3>4. n.cursor = y - Top(y)
      BY <1>4, <1>5, <1>8, <1>9, <3>1, <3>3
    <3>5. QED
      BY <1>5, <1>11, <3>1, <3>3, <3>4 DEF FollowsBy
  <2>2. CASE ~ (x + 1 < Base(x) + COLS) /\ ~ (Base(x) < LastRow)
    <3>1. Top(x) = Base(x) - LastRow /\ s.cursor + 1 = LastRow + COLS
      BY <1>4, <1>5, <1>8, <1>9, <1>12, <1>13, <2>2
    <3>2. n = scroll(vga) /\ n.cursor = LastRow
      BY <1>7, <1>13, <3>1, ScrollIs
    <3>3. Top(y) = Top(x) + COLS /\ y - Top(y) = LastRow
      <4>1. Base(y) = Base(x) + COLS /\ y = Base(x) + COLS /\ Base(x) + COLS > LastRow
        BY <1>12, <1>13, <2>2
      <4>2. Top(y) = (Base(x) + COLS) - LastRow
        BY <4>1 DEF Top
      <4>3. QED
        BY <1>12, <1>13, <3>1, <4>1, <4>2
    <3>4. \A k \in 1 .. Len(t) : t[k] \notin {CR, NL} => q[k - 1] < Top(x) + (LastRow + COLS)
      <4>1. y = Top(x) + (LastRow + COLS)
        BY <1>12, <1>13, <2>2, <3>1
      <4>2. QED
        BY <1>5, <4>1 DEF Behind
    <3>5. Cells(n.vga, t, q, Top(y))
      BY <1>5, <1>7, <1>9, <1>11, <3>2, <3>3, <3>4, CellsScroll
    <3>6. QED
      BY <1>5, <3>2, <3>3, <3>5 DEF FollowsBy
  <2>3. QED
    BY <2>1, <2>2
<1>15. QED
  BY <1>5, <1>7, <1>14 DEF Follows, t, n

LEMMA FollowsShows ==
  ASSUME NEW s, NEW sent, Follows(s, sent)
  PROVE  Shows(s, sent)
<1> DEFINE L == Len(sent)
           next(cell, c) == CASE c = CR -> cell
                              [] c = NL -> (cell \div COLS + 1) * COLS
                              [] OTHER  -> cell + 1
           Defines(f) == f = [k \in 0 .. Len(sent) |-> IF k = 0 THEN 0 ELSE next(f[k - 1], sent[k])]
           h == CHOOSE f : Defines(f)
           first(row) == IF row >= ROWS THEN (row - ROWS + 1) * COLS ELSE 0
           in(f, top, c) == {k \in DOMAIN sent : sent[k] \notin {CR, NL} /\ f[k - 1] = top + c}
           OnSheet(f) ==
             /\ s.cursor = f[L] - first(f[L] \div COLS)
             /\ \A c \in CellNo : IF in(f, first(f[L] \div COLS), c) = {} THEN s.vga[c] = Blank
                                  ELSE \A k \in in(f, first(f[L] \div COLS), c) : s.vga[c] = sent[k]
<1>1. Shows(s, sent) <=> OnSheet(h)
  BY DEF Shows
<1>2. s \in Screens /\ sent \in Seq(Glyph) /\ L \in Nat /\ DOMAIN sent = 1 .. L
  BY LenProperties DEF Follows
<1>3. PICK p : FollowsBy(s, sent, p)
  BY DEF Follows
<1> DEFINE x == p[L]
<1>4. /\ p \in [0 .. L -> Nat] /\ p[0] = 0 /\ \A k \in 1 .. L : p[k] = NextPlace(p[k - 1], sent[k])
      /\ s.cursor = x - Top(x) /\ Cells(s.vga, sent, p, Top(x))
  BY <1>3 DEF FollowsBy, IsPlaced
<1>5. ASSUME NEW y \in Nat, NEW c PROVE next(y, c) = NextPlace(y, c)
  <2>1. (y \div COLS + 1) * COLS = Base(y) + COLS
    BY BaseRow
  <2>2. NL # CR
    BY DEF NL, CR
  <2>3. QED
    BY <2>1, <2>2 DEF NextPlace
<1> HIDE DEF next
<1> HIDE DEF L
<1>6. Defines(p)
  <2>1. ASSUME NEW k \in 0 .. L PROVE p[k] = IF k = 0 THEN 0 ELSE next(p[k - 1], sent[k])
    <3>1. CASE k = 0
      BY <1>4, <3>1
    <3>2. CASE k # 0
      <4>1. k \in 1 .. L /\ k - 1 \in 0 .. L
        BY <1>2, <3>2
      <4>2. p[k - 1] \in Nat /\ p[k] = NextPlace(p[k - 1], sent[k])
        BY <1>4, <4>1
      <4>3. QED
        BY <1>5, <3>2, <4>2
    <3>3. QED
      BY <3>1, <3>2
  <2>2. p = [k \in 0 .. L |-> p[k]]
    BY <1>4
  <2>3. p = [k \in 0 .. L |-> IF k = 0 THEN 0 ELSE next(p[k - 1], sent[k])]
    BY <2>1, <2>2
  <2>4. QED
    BY <2>3 DEF L
<1>7. Defines(h)
  <2> HIDE DEF Defines
  <2>1. QED
    BY <1>6
<1> HIDE DEF h
<1>8. h = p
  <2>1. h = [k \in 0 .. L |-> IF k = 0 THEN 0 ELSE next(h[k - 1], sent[k])]
    BY <1>7 DEF L
  <2>2. \A k \in 0 .. L : h[k] = IF k = 0 THEN 0 ELSE next(h[k - 1], sent[k])
    BY <2>1
  <2>3. \A k \in 0 .. L : p[k] = IF k = 0 THEN 0 ELSE next(p[k - 1], sent[k])
    <3>1. p = [k \in 0 .. L |-> IF k = 0 THEN 0 ELSE next(p[k - 1], sent[k])]
      BY <1>6 DEF L
    <3>2. QED
      BY <3>1
  <2> DEFINE Wrong == {m \in Nat : m <= L /\ h[m] # p[m]}
  <2>4. Wrong = {}
    <3>1. SUFFICES ASSUME Wrong # {} PROVE FALSE
      OBVIOUS
    <3>2. PICK m \in Wrong : \A l \in Wrong : m <= l
      BY <3>1, LeastExists
    <3>3. m \in 0 .. L
      BY <1>2, <3>2
    <3>4. CASE m = 0
      BY <2>2, <2>3, <3>2, <3>3, <3>4
    <3>5. CASE m # 0
      <4>1. m - 1 \in Nat /\ m - 1 <= L /\ m - 1 \notin Wrong
        BY <1>2, <3>2, <3>5
      <4>2. h[m - 1] = p[m - 1]
        BY <4>1
      <4>3. h[m] = next(h[m - 1], sent[m]) /\ p[m] = next(p[m - 1], sent[m])
        BY <2>2, <2>3, <3>3, <3>5
      <4>4. QED
        BY <3>2, <4>2, <4>3
    <3>6. QED
      BY <3>4, <3>5
  <2>5. \A k \in 0 .. L : h[k] = p[k]
    BY <1>2, <2>4
  <2>6. DOMAIN h = 0 .. L /\ h = [k \in 0 .. L |-> h[k]]
    BY <2>1
  <2>7. p = [k \in 0 .. L |-> p[k]]
    BY <1>4
  <2>8. QED
    BY <2>5, <2>6, <2>7
<1>9. x \in Nat
  <2>1. L \in 0 .. L
    BY <1>2
  <2>2. QED
    BY <1>4, <2>1
<1>10. first(x \div COLS) = Top(x)
  <2> HIDE DEF x
  <2>1. /\ x \div COLS >= ROWS <=> Base(x) > LastRow
        /\ x \div COLS >= ROWS => (x \div COLS - ROWS + 1) * COLS = Base(x) - LastRow
    BY <1>9, BaseRow
  <2>2. QED
    BY <2>1 DEF Top
<1> HIDE DEF first
<1>11. ASSUME NEW c \in CellNo
       PROVE  IF in(p, Top(x), c) = {} THEN s.vga[c] = Blank
              ELSE \A k \in in(p, Top(x), c) : s.vga[c] = sent[k]
  <2>1. /\ \A k \in 1 .. Len(sent) : DrawnAt(sent, p, k, Top(x) + c) => s.vga[c] = sent[k]
        /\ (\A k \in 1 .. Len(sent) : ~ DrawnAt(sent, p, k, Top(x) + c)) => s.vga[c] = Blank
    BY <1>4 DEF Cells
  <2>2. \A k : k \in in(p, Top(x), c) <=> k \in 1 .. Len(sent) /\ DrawnAt(sent, p, k, Top(x) + c)
    BY <1>2 DEF DrawnAt, L
  <2> HIDE DEF in
  <2>3. QED
    BY <2>1, <2>2
<1> HIDE DEF in
<1>12. OnSheet(p)
  BY <1>4, <1>10, <1>11
<1>13. QED
  BY <1>1, <1>8, <1>12

LEMMA FollowsClear ==
  ASSUME NEW s, s = [vga |-> [c \in CellNo |-> Blank], cursor |-> 0]
  PROVE  Follows(s, <<>>)
<1> DEFINE p == [k \in 0 .. 0 |-> 0]
<1>1. LastRow \in Nat /\ COLS \in Nat \ {0} /\ CellNo = 0 .. LastRow + COLS - 1
  BY Sizes
<1>2. 0 \in CellNo /\ Blank \in Glyph
  BY <1>1 DEF Glyph
<1>3. s \in Screens
  BY <1>2 DEF Screens
<1>4. <<>> \in Seq(Glyph) /\ Len(<<>>) = 0 /\ 1 .. 0 = {}
  OBVIOUS
<1>5. p[0] = 0 /\ p \in [0 .. 0 -> Nat]
  OBVIOUS
<1> HIDE DEF p
<1>6. Top(0) = 0
  <2>1. Base(0) \in Nat /\ Base(0) <= 0
    BY BaseIs
  <2>2. QED
    BY <1>1, <2>1 DEF Top
<1>7. IsPlaced(p, <<>>) /\ Behind(<<>>, p)
  BY <1>4, <1>5 DEF IsPlaced, Behind
<1>8. Cells(s.vga, <<>>, p, 0)
  BY <1>4 DEF Cells
<1>9. FollowsBy(s, <<>>, p)
  BY <1>4, <1>5, <1>6, <1>7, <1>8 DEF FollowsBy
<1>10. QED
  BY <1>3, <1>4, <1>9 DEF Follows

(* The screen behind each character of a text. *)
ShownChar(s, c) == IF c = NL THEN newline(s) ELSE put(s, c)

LEMMA WritesTo ==
  ASSUME NEW s \in Screens, NEW text \in Seq(Glyph)
  PROVE  \E f : /\ f[0] = s /\ f[Len(text)] = tty_write(s, text)
                /\ \A k \in 1 .. Len(text) : f[k] = ShownChar(f[k - 1], text[k])
<1> DEFINE L == Len(text)
           Defines(f) == f = [k \in 0 .. Len(text) |->
             IF k = 0 THEN s
             ELSE IF text[k] = NL THEN newline(f[k - 1]) ELSE put(f[k - 1], text[k])]
           Works(f) == f = [k \in 0 .. L |-> IF k = 0 THEN s ELSE ShownChar(f[k - 1], text[k])]
           step == [k \in 1 .. L |-> [x \in Screens |-> ShownChar(x, text[k])]]
<1>1. tty_write(s, text) = (CHOOSE f : Defines(f))[L]
  BY DEF tty_write
<1>2. \A f : Defines(f) <=> Works(f)
  BY DEF ShownChar
<1>3. L \in Nat /\ \A k \in 1 .. L : text[k] \in Glyph
  BY LenProperties, ElementOfSeq
<1> DEFINE h == CHOOSE g : Defines(g)
<1>h. h[L] = tty_write(s, text)
  BY <1>1
<1> HIDE DEF L
<1>4. step \in [1 .. L -> [Screens -> Screens]]
  <2>1. ASSUME NEW k \in 1 .. L, NEW x \in Screens PROVE ShownChar(x, text[k]) \in Screens
    BY <1>3, NewlineIs, PutIs DEF ShownChar
  <2>2. QED
    BY <2>1
<1>5. PICK f : IsRun(f, Screens, L, s, step)
  <2> HIDE DEF step
  <2>1. QED
    BY <1>3, <1>4, RunExists
<1>6. f \in [0 .. L -> Screens] /\ f[0] = s /\ \A k \in 1 .. L : f[k] = step[k][f[k - 1]]
  BY <1>5 DEF IsRun
<1>7. \A k \in 1 .. L : f[k] = ShownChar(f[k - 1], text[k])
  <2> SUFFICES ASSUME NEW k \in 1 .. L PROVE f[k] = ShownChar(f[k - 1], text[k])
    OBVIOUS
  <2>1. k - 1 \in 0 .. L
    BY <1>3
  <2>2. f[k - 1] \in Screens
    BY <1>6, <2>1
  <2>3. QED
    BY <1>6, <2>2
<1>8. Works(f)
  <2>1. \A k \in 0 .. L : k = 0 \/ k \in 1 .. L
    BY <1>3
  <2>2. \A k \in 0 .. L : f[k] = IF k = 0 THEN s ELSE ShownChar(f[k - 1], text[k])
    BY <1>6, <1>7, <2>1
  <2>3. QED
    BY <1>6, <2>2
<1>9. Works(h)
  <2> HIDE DEF Defines, Works
  <2>1. QED
    BY <1>2, <1>8
<1> HIDE DEF h, Defines
<1>10. h[0] = s
  BY <1>3, <1>9
<1>11. \A k \in 1 .. L : h[k] = ShownChar(h[k - 1], text[k])
  <2>1. \A k \in 1 .. L : k \in 0 .. L /\ k # 0
    BY <1>3
  <2>2. QED
    BY <1>9, <2>1
<1>12. QED
  BY <1>h, <1>10, <1>11 DEF L

(* A pair, taken apart. *)
LEMMA PairIs ==
  ASSUME NEW S, NEW x \in S, NEW y \in S
  PROVE  <<x>> \in Seq(S) /\ <<y>> \in Seq(S) /\ <<x>> \o <<y>> = <<x, y>>
<1> DEFINE a == <<x>> \o <<y>>
           b == <<x, y>>
<1>1. <<x>> \in Seq(S) /\ <<y>> \in Seq(S)
  OBVIOUS
<1>2. b \in Seq(S) /\ Len(b) = 2 /\ b[1] = x /\ b[2] = y
  OBVIOUS
<1>3. a \in Seq(S) /\ Len(a) = 2 /\ a[1] = x /\ a[2] = y
  BY <1>1, ConcatProperties
<1> HIDE DEF a, b
<1>4. \A i \in 1 .. Len(a) : a[i] = b[i]
  <2>1. \A i \in 1 .. 2 : i = 1 \/ i = 2
    OBVIOUS
  <2>2. QED
    BY <1>2, <1>3, <2>1
<1>5. a = b
  BY <1>2, <1>3, <1>4, SeqEqual
<1>6. QED
  BY <1>1, <1>5 DEF a, b

(* The two walks over a text go together. *)
LEMMA TextFollows ==
  ASSUME NEW text \in Seq(Glyph), \A k \in 1 .. Len(text) : text[k] # CR,
         kprintf(text), Follows(screen, wire)
  PROVE  Follows(screen', wire')
<1> DEFINE L == Len(text)
<1>1. L \in Nat /\ \A k \in 1 .. L : text[k] \in Glyph /\ text[k] # CR
  BY LenProperties, ElementOfSeq
<1>2. PICK f : IsSent(f, text) /\ f[L] = serial_printf(text)
  BY SentIs
<1>3. screen \in Screens /\ wire \in Seq(Glyph)
  BY DEF Follows
<1>4. PICK u : /\ u[0] = screen /\ u[L] = tty_write(screen, text)
               /\ \A k \in 1 .. L : u[k] = ShownChar(u[k - 1], text[k])
  BY <1>3, WritesTo
<1>5. wire' = wire \o f[L] /\ screen' = u[L]
  BY <1>2, <1>4 DEF kprintf
<1>6. /\ f \in [0 .. L -> Seq(Glyph)] /\ f[0] = <<>>
      /\ \A k \in 1 .. L : f[k] = f[k - 1] \o Bytes(text[k])
  BY <1>2 DEF IsSent
<1> HIDE DEF L
<1> DEFINE Good(m) == Follows(u[m], wire \o f[m])
           Wrong == {m \in Nat : m <= L /\ ~ Good(m)}
<1>7. Good(0)
  BY <1>3, <1>4, <1>6, ConcatEmptySeq
<1>8. ASSUME NEW m \in 1 .. L, Good(m - 1) PROVE Good(m)
  <2> DEFINE old == f[m - 1]
             sent == wire \o old
             c == text[m]
             s == u[m - 1]
  <2>1. m - 1 \in 0 .. L
    BY <1>1
  <2>2. old \in Seq(Glyph) /\ c \in Glyph /\ c # CR /\ f[m] = old \o Bytes(c) /\ u[m] = ShownChar(s, c)
    BY <1>1, <1>4, <1>6, <2>1
  <2>3. Follows(s, sent)
    BY <1>8
  <2> HIDE DEF old, s, c
  <2>4. sent \in Seq(Glyph)
    BY <1>3, <2>2, ConcatProperties
  <2>5. wire \o f[m] = sent \o Bytes(c)
    <3>1. Bytes(c) \in Seq(Glyph)
      BY <2>2, BytesTyped
    <3>2. wire \in Seq(Glyph) /\ old \in Seq(Glyph)
      BY <1>3, <2>2
    <3>3. (wire \o old) \o Bytes(c) = wire \o (old \o Bytes(c))
      BY <3>1, <3>2, ConcatAssociative
    <3>4. QED
      BY <2>2, <3>3
  <2> HIDE DEF sent
  <2>6. CASE c = NL
    <3>1. CR \in Glyph /\ NL \in Glyph
      BY DEF Glyph
    <3>2. sent \o <<CR, NL>> = Append(Append(sent, CR), NL)
      <4>1. <<CR>> \in Seq(Glyph) /\ <<NL>> \in Seq(Glyph) /\ <<CR>> \o <<NL>> = <<CR, NL>>
        BY <3>1, PairIs
      <4>2. (sent \o <<CR>>) \o <<NL>> = sent \o (<<CR>> \o <<NL>>)
        BY <2>4, <4>1, ConcatAssociative
      <4>3. Append(sent, CR) = sent \o <<CR>> /\ Append(sent, CR) \in Seq(Glyph)
        BY <2>4, <3>1, AppendIsConcat, AppendProperties
      <4>4. Append(Append(sent, CR), NL) = Append(sent, CR) \o <<NL>>
        BY <3>1, <4>3, AppendIsConcat
      <4>5. QED
        BY <4>1, <4>2, <4>3, <4>4
    <3>3. Follows(newline(s), Append(Append(sent, CR), NL))
      BY <2>3, FollowsCR, FollowsNL
    <3>4. QED
      BY <2>2, <2>5, <2>6, <3>2, <3>3 DEF Bytes, ShownChar
  <2>7. CASE c # NL
    <3>1. sent \o <<c>> = Append(sent, c)
      BY <2>2, <2>4, AppendIsConcat
    <3>2. c \in Glyph \ {CR, NL}
      BY <2>2, <2>7
    <3>3. Follows(put(s, c), Append(sent, c))
      BY <2>3, <3>2, FollowsPut
    <3>4. QED
      BY <2>2, <2>5, <2>7, <3>1, <3>3 DEF Bytes, ShownChar
  <2>8. QED
    BY <2>6, <2>7
<1> HIDE DEF Good
<1>9. Wrong = {}
  <2>1. SUFFICES ASSUME Wrong # {} PROVE FALSE
    OBVIOUS
  <2>2. PICK m \in Wrong : \A l \in Wrong : m <= l
    BY <2>1, LeastExists
  <2>3. m # 0
    BY <1>7, <2>2
  <2>4. m \in 1 .. L /\ m - 1 \in Nat /\ m - 1 <= L /\ m - 1 \notin Wrong
    BY <1>1, <2>2, <2>3
  <2>5. Good(m - 1)
    BY <2>4
  <2>6. QED
    BY <1>8, <2>2, <2>4, <2>5
<1>10. Good(L)
  BY <1>1, <1>9
<1>11. QED
  BY <1>5, <1>10 DEF Good

(* No text that the kernel prints, nor a program here, has a carriage      *)
(* return of its own.                                                      *)
Drawn == Glyph \ {CR}

LEMMA DrawnText ==
  ASSUME NEW text \in Seq(Drawn), kprintf(text), Follows(screen, wire)
  PROVE  Follows(screen', wire')
<1>1. Drawn \subseteq Glyph
  BY DEF Drawn
<1>2. text \in Seq(Glyph)
  BY <1>1, SeqMonotonic
<1>3. \A k \in 1 .. Len(text) : text[k] \in Drawn
  BY ElementOfSeq
<1>4. \A k \in 1 .. Len(text) : text[k] # CR
  BY <1>3 DEF Drawn
<1>5. QED
  BY <1>2, <1>4, TextFollows

LEMMA TextsDrawn ==
  /\ \A text \in {Replies[c] : c \in DOMAIN Replies} \cup Listings \cup {Boot} : text \in Seq(Drawn)
  /\ Prompt \in Seq(Drawn)
  /\ \A c \in Typable : <<c>> \in Seq(Drawn)
  /\ <<BS, Blank, BS>> \in Seq(Drawn) /\ <<HOME>> \in Seq(Drawn) /\ <<"!", NL>> \in Seq(Drawn)
  /\ \A command \in Seq(Typable) : Unknown(command) \in Seq(Drawn)
<1>1. /\ Char \subseteq STRING \ {NL, CR, BS, HOME, NUL}
      /\ Prompt \in Seq(STRING \ {NL, CR, BS, HOME, TAB, ESC})
      /\ \A text \in {Replies[c] : c \in DOMAIN Replies} \cup Listings \cup {Boot} :
           text \in Seq(STRING \ {CR})
  BY ShellAssumption
<1>2. NL # CR /\ BS # CR /\ HOME # CR /\ Blank # CR /\ "!" # CR /\ "?" # CR
  BY DEF NL, CR, BS, HOME, Blank
<1>3. /\ STRING \ {NL, CR, BS, HOME, NUL} \subseteq Drawn
      /\ STRING \ {NL, CR, BS, HOME, TAB, ESC} \subseteq Drawn /\ STRING \ {CR} \subseteq Drawn
      /\ NL \in Drawn /\ BS \in Drawn /\ HOME \in Drawn /\ Blank \in Drawn /\ "!" \in Drawn /\ "?" \in Drawn
  BY <1>2 DEF Drawn, Glyph
<1>4. Typable \subseteq Drawn
  BY <1>1, <1>3 DEF Typable
<1>5. \A text \in {Replies[c] : c \in DOMAIN Replies} \cup Listings \cup {Boot} : text \in Seq(Drawn)
  BY <1>1, <1>3, SeqMonotonic
<1>6. Prompt \in Seq(Drawn)
  BY <1>1, <1>3, SeqMonotonic
<1>7. \A c \in Typable : <<c>> \in Seq(Drawn)
  BY <1>4
<1>8. <<BS, Blank, BS>> \in Seq(Drawn) /\ <<HOME>> \in Seq(Drawn) /\ <<"!", NL>> \in Seq(Drawn)
  BY <1>3
<1>9. ASSUME NEW command \in Seq(Typable) PROVE Unknown(command) \in Seq(Drawn)
  <2>1. command \in Seq(Drawn)
    BY <1>4, SeqMonotonic
  <2>2. <<"?">> \in Seq(Drawn) /\ <<NL>> \in Seq(Drawn)
    BY <1>3
  <2>3. QED
    BY <2>1, <2>2, ConcatProperties DEF Unknown
<1>10. QED
  BY <1>5, <1>6, <1>7, <1>8, <1>9

SheetInv ==
  /\ pc = "boot" => wire = <<>>
  /\ pc # "boot" => Follows(screen, wire)

LEMMA SheetKey ==
  ASSUME LineInv, SheetInv, NEW c \in Typable, read_key(c)
  PROVE  SheetInv'
<1>1. pc = "read" /\ Follows(screen, wire)
  BY DEF SheetInv, read_key
<1>2. CASE c = BS
  <2>1. backspace
    BY <1>2 DEF read_key
  <2>2. pc' = "read" /\ (kprintf(<<BS, Blank, BS>>) \/ UNCHANGED console)
    BY <1>1, <2>1 DEF backspace, echo
  <2>3. Follows(screen', wire')
    BY <1>1, <2>2, TextsDrawn, DrawnText DEF console
  <2>4. QED
    BY <2>2, <2>3 DEF SheetInv
<1>3. CASE c # BS
  <2>1. store(c)
    BY <1>3 DEF read_key
  <2>2. pc' \in {"read", "run"} /\ kprintf(<<c>>)
    BY <1>1, <2>1 DEF store, echo
  <2>3. Follows(screen', wire')
    BY <1>1, <2>2, TextsDrawn, DrawnText
  <2>4. QED
    BY <2>2, <2>3 DEF SheetInv
<1>4. QED
  BY <1>2, <1>3

LEMMA SheetRun ==
  ASSUME LineInv, SheetInv, run
  PROVE  SheetInv'
<1> DEFINE command == String(terminated)
<1>1. pc = "run" /\ pc' \in {"exited", "prompt"} /\ reply(command)
  BY DEF run
<1>2. command \in Seq(Typable)
  BY <1>1, CommandIs
<1>3. Follows(screen, wire)
  BY <1>1 DEF SheetInv
<1> HIDE DEF command
<1>4. UNCHANGED console \/ \E text \in Seq(Drawn) : kprintf(text)
  <2>1. ASSUME NEW text, write(text) PROVE kprintf(text)
    BY <2>1 DEF write, sys_write
  <2>2. CASE UNCHANGED console
    BY <2>2
  <2>3. CASE write(<<HOME>>) \/ write(<<"!", NL>>) \/ write(Unknown(command))
    BY <1>2, <2>1, <2>3, TextsDrawn
  <2>4. CASE \E text \in Listings : write(text)
    BY <2>1, <2>4, TextsDrawn
  <2>5. CASE command \in DOMAIN Replies /\ write(Replies[command])
    BY <2>1, <2>5, TextsDrawn
  <2>6. QED
    BY <1>1, <2>2, <2>3, <2>4, <2>5 DEF reply
<1>5. Follows(screen', wire')
  <2>1. CASE UNCHANGED console
    BY <1>3, <2>1 DEF console
  <2>2. CASE \E text \in Seq(Drawn) : kprintf(text)
    BY <1>3, <2>2, DrawnText
  <2>3. QED
    BY <1>4, <2>1, <2>2
<1>6. QED
  BY <1>1, <1>5 DEF SheetInv

LEMMA SheetKept == ShellSpec => []SheetInv
<1>1. ShellInit => SheetInv
  BY DEF ShellInit, ConsoleInit, SheetInv
<1>2. LineInv /\ SheetInv /\ [ShellNext]_shell_vars => SheetInv'
  <2> SUFFICES ASSUME LineInv, SheetInv, [ShellNext]_shell_vars PROVE SheetInv'
    OBVIOUS
  <2>1. CASE kmain_clears
    <3>1. screen' = [vga |-> [c \in CellNo |-> Blank], cursor |-> 0] /\ wire' = <<>> /\ pc' = "banner"
      BY <2>1 DEF kmain_clears, kcls, SheetInv
    <3>2. Follows(screen', <<>>)
      BY <3>1, FollowsClear
    <3>3. QED
      BY <3>1, <3>2 DEF SheetInv
  <2>2. CASE banner
    <3>1. pc = "banner" /\ pc' = "prompt" /\ kprintf(Boot)
      BY <2>2 DEF banner, echo
    <3>2. Follows(screen', wire')
      BY <3>1, TextsDrawn, DrawnText DEF SheetInv
    <3>3. QED
      BY <3>1, <3>2 DEF SheetInv
  <2>3. CASE prompt
    <3>1. pc = "prompt" /\ pc' = "read" /\ kprintf(Prompt)
      BY <2>3 DEF prompt, write, sys_write
    <3>2. Follows(screen', wire')
      BY <3>1, TextsDrawn, DrawnText DEF SheetInv
    <3>3. QED
      BY <3>1, <3>2 DEF SheetInv
  <2>4. CASE \E c \in Char \cup {NL, BS} : read_key(c)
    BY <2>4, SheetKey DEF Typable
  <2>5. CASE run
    BY <2>5, SheetRun
  <2>6. CASE spin \/ UNCHANGED shell_vars
    BY <2>6 DEF spin, shell_vars, console, SheetInv
  <2>7. QED
    BY <2>1, <2>2, <2>3, <2>4, <2>5, <2>6 DEF ShellNext
<1>3. QED
  BY <1>1, <1>2, LineKept, PTL DEF ShellSpec

(* The screen shows the end of what went over the serial line, row by row, *)
(* from the moment kmain clears it: through the boot messages, the echoes  *)
(* of what is typed and erased, and the answers.                           *)
THEOREM WireIsShown == ShellSpec => []ScreenShowsWire
<1>1. SheetInv => ScreenShowsWire
  BY FollowsShows DEF SheetInv, ScreenShowsWire
<1>2. QED
  BY <1>1, SheetKept, PTL
=============================================================================
