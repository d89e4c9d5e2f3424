--------------------------- MODULE SchedulerProofs ---------------------------
(***************************************************************************)
(* Theorems about Scheduler for every number of tasks, every tick rate and *)
(* every bound on a task's steps.                                          *)
(***************************************************************************)
EXTENDS Scheduler, TLAPS

USE SchedulerAssumption

(* A remainder is below the modulus. *)
LEMMA ModRange ==
  ASSUME NEW a \in Int, NEW n \in Nat \ {0}
  PROVE  a % n \in 0 .. n - 1
  OBVIOUS

(* The round-robin loop stops at a created task whose flag is set. *)
LEMMA NextTaskIsActive ==
  ASSUME task_count \in Nat \ {0}, current_task \in Int,
         NEW t, NEW act, NextTask(t, act)
  PROVE  t \in Created /\ act[t]
<1>1. PICK i \in 1 .. task_count :
        t = (current_task + i) % task_count /\ act[t]
  BY DEF NextTask
<1>2. t \in 0 .. task_count - 1
  BY <1>1, ModRange
<1>3. QED
  BY <1>1, <1>2 DEF Created

(* What an entry stub has done when schedule() is called: the context of   *)
(* the interrupted code is in the first cell of its stack, no other stack  *)
(* was touched, and only the running task's flag may have been cleared.    *)
Entered(sp, mem, act) ==
  /\ sp \in StackPointer
  /\ sp.stack = EntryStack
  /\ sp.depth \in {1, 2}
  /\ mem \in [Stack -> [1 .. 2 -> Context]]
  /\ \A s \in Stack \ {EntryStack} : mem[s] = kstack[s]
  /\ mem[EntryStack][1] = cpu
  /\ sp.depth = 2 => /\ cpu.at = "user"
                     /\ mem[EntryStack][2].at = "task_exit"
                     /\ ~ act[current_task]
  /\ act \in [Slot -> BOOLEAN]
  /\ \A t \in Slot : t # current_task => act[t] = active[t]
  /\ \A t \in Slot : act[t] => active[t]

(* Returning on the stack the interrupt came on resumes what it stopped. *)
LEMMA ReturnToSelf ==
  ASSUME IInv, NEW sp, NEW mem, NEW act, Entered(sp, mem, act)
  PROVE  Resume(mem, sp) = cpu
<1>1. cpu.at # "task_exit"
  BY DEF IInv, BootOrder, Kmain
<1>2. CASE sp.depth = 1
  BY <1>1, <1>2 DEF Entered, Resume
<1>3. CASE sp.depth = 2
  BY <1>3 DEF Entered, Resume
<1>4. QED
  BY <1>2, <1>3 DEF Entered

(* Returning on the stack of a created task resumes that task: the frame   *)
(* just pushed if it is the one being left, its old frame otherwise.       *)
LEMMA ReturnToTask ==
  ASSUME IInv, NEW sp, NEW mem, NEW act, Entered(sp, mem, act),
         NEW t \in Created
  PROVE  Resume(mem, SavePointer(sp)[t]) =
           IF cpu.at = "user" /\ t = current_task THEN cpu ELSE kstack[t][1]
<1>1. t \in Slot /\ t # NONE
  BY DEF IInv, TypeOK, Created, Slot, NONE
<1>2. CASE cpu.at = "user" /\ t = current_task
  <2>1. SavePointer(sp)[t] = sp
    BY <1>1, <1>2 DEF IInv, TypeOK, SavePointer
  <2>2. QED
    BY <2>1, <1>2, ReturnToSelf
<1>3. CASE ~ (cpu.at = "user" /\ t = current_task)
  <2>1. t # current_task
    BY <1>1, <1>3 DEF IInv, BootOrder, Created, TypeOK
  <2>2. EntryStack # t
    BY <1>1, <2>1 DEF IInv, WhoRunsIsAgreed, EntryStack
  <2>3. mem[t] = kstack[t]
    BY <1>1, <2>2 DEF Entered, Stack
  <2>4. SavePointer(sp)[t] = stack_pointer[t]
    BY <1>1, <2>1 DEF IInv, TypeOK, SavePointer
  <2>5. SavedContext(t)
    BY <1>3 DEF IInv, WaitingContextsIntact
  <2>6. Resume(mem, stack_pointer[t]) = kstack[t][1]
    BY <2>3, <2>5 DEF SavedContext, Resume
  <2>7. QED
    BY <1>3, <2>4, <2>6
<1>4. QED
  BY <1>2, <1>3

(* What schedule() and the return from the interrupt do to the variables:  *)
(* nothing is switched, or a live task is loaded from where it stopped.    *)
LEMMA ScheduleOutcome ==
  ASSUME IInv, NEW sp, NEW mem, NEW act, Entered(sp, mem, act),
         schedule(sp, mem, act)
  PROVE  \/ /\ task_count = 0 \/ NoneActive(act)
            /\ cpu' = cpu
            /\ stack_pointer' = IF task_count = 0 THEN stack_pointer
                                                  ELSE SavePointer(sp)
            /\ UNCHANGED <<current_task, esp0>>
         \/ /\ task_count > 0
            /\ stack_pointer' = SavePointer(sp)
            /\ \E t \in Created :
                 /\ act[t]
                 /\ current_task' = t
                 /\ esp0' = t
                 /\ cpu' = IF cpu.at = "user" /\ t = current_task
                           THEN cpu ELSE kstack[t][1]
<1>1. CASE task_count = 0
  BY <1>1, ReturnToSelf DEF schedule
<1>2. CASE task_count > 0
  <2>0. task_count \in Nat \ {0} /\ current_task \in Int
    BY <1>2 DEF IInv, TypeOK, Stack, Slot, NONE
  <2>1. CASE /\ NoneActive(act)
             /\ stack_pointer' = SavePointer(sp)
             /\ cpu' = Resume(mem, sp)
             /\ UNCHANGED <<current_task, esp0>>
    BY <2>1, <1>2, ReturnToSelf
  <2>2. CASE /\ stack_pointer' = SavePointer(sp)
             /\ \E t \in Slot :
                  /\ NextTask(t, act)
                  /\ current_task' = t
                  /\ set_kernel_stack(t)
                  /\ cpu' = Resume(mem, SavePointer(sp)[t])
    <3>1. PICK t \in Slot : /\ NextTask(t, act)
                            /\ current_task' = t
                            /\ set_kernel_stack(t)
                            /\ cpu' = Resume(mem, SavePointer(sp)[t])
      BY <2>2
    <3>2. t \in Created /\ act[t]
      BY <3>1, <2>0, NextTaskIsActive
    <3>3. cpu' = IF cpu.at = "user" /\ t = current_task
                 THEN cpu ELSE kstack[t][1]
      BY <3>1, <3>2, ReturnToTask
    <3>4. QED
      BY <1>2, <2>2, <3>1, <3>2, <3>3 DEF set_kernel_stack
  <2>3. QED
    BY <1>2, <2>1, <2>2 DEF schedule
<1>3. QED
  BY <1>1, <1>2 DEF IInv, TypeOK

(* The timer counters stay in range and the interrupt is acknowledged. *)
LEMMA TimerTypes ==
  ASSUME TypeOK, timer_handler
  PROVE  /\ system_tick' \in 0 .. HZ - 1
         /\ seconds' \in 0 .. WRAP - 1
         /\ in_service' \in BOOLEAN
<1>1. system_tick' \in 0 .. HZ - 1
  BY ModRange DEF TypeOK, timer_handler
<1>2. seconds' \in 0 .. WRAP - 1
  BY ModRange DEF TypeOK, timer_handler
<1>3. QED
  BY <1>1, <1>2 DEF timer_handler

(* Whichever way schedule() goes, the invariant survives the interrupt. *)
LEMMA ScheduleKeepsInvariant ==
  ASSUME IInv, NEW sp, NEW mem, NEW act, Entered(sp, mem, act),
         schedule(sp, mem, act), timer_handler,
         boot = "idle", kstack' = mem, active' = act,
         UNCHANGED <<pid, task_count, boot>>
  PROVE  IInv'
<1>1. Created' = Created /\ Created \subseteq Slot
  BY DEF Created, IInv, TypeOK, Slot
<1>2. SavePointer(sp) \in [Slot -> StackPointer]
  BY DEF Entered, IInv, TypeOK, SavePointer
<1>3. \A t \in Created : kstack[t][1] \in Context /\ t \in Stack
  BY <1>1 DEF IInv, TypeOK, Stack
<1>4. TypeOK'
  <2>1. /\ stack_pointer' \in [Slot -> StackPointer]
        /\ current_task' \in Stack
        /\ esp0' \in Stack
        /\ cpu' \in Context
    BY <1>2, <1>3, ScheduleOutcome DEF IInv, TypeOK
  <2>2. kstack' \in [Stack -> [1 .. 2 -> Context]] /\ active' \in [Slot -> BOOLEAN]
    BY DEF Entered
  <2>3. QED
    BY <2>1, <2>2, TimerTypes DEF IInv, TypeOK
<1>5. \A t \in Created :
        \/ cpu.at = "user" /\ t = current_task
        \/ kstack[t][1].at = "user" /\ kstack[t][1].owner = t
  BY DEF IInv, WaitingContextsIntact, SavedContext
<1>6. BootOrder'
  <2>1. \A t \in Slot : active'[t] => t \in Created'
    BY <1>1 DEF Entered, IInv, BootOrder
  <2>2. cpu' = Kmain \/ cpu'.at = "user"
    BY <1>5, ScheduleOutcome DEF IInv, BootOrder
  <2>3. cpu' = Kmain /\ task_count > 0 => current_task' = NONE
    BY <1>5, ScheduleOutcome DEF IInv, BootOrder, Kmain
  <2>4. QED
    BY <1>1, <2>1, <2>2, <2>3 DEF IInv, BootOrder
<1>7. WhoRunsIsAgreed'
  <2>1. cpu'.at = "user" => /\ cpu'.owner = current_task'
                            /\ esp0' = current_task'
                            /\ current_task' \in Created
    BY <1>5, ScheduleOutcome DEF IInv, WhoRunsIsAgreed
  <2>2. \A t \in Created : t # NONE /\ pid[t] = t + 1
    BY DEF Created, NONE, IInv, BootOrder, TypeOK
  <2>3. QED
    BY <1>1, <2>1, <2>2 DEF WhoRunsIsAgreed, get_current_pid
<1>8. WaitingContextsIntact'
  <2> SUFFICES ASSUME NEW t \in Created,
                      ~ (cpu'.at = "user" /\ t = current_task')
               PROVE  SavedContext(t)'
    BY <1>1 DEF WaitingContextsIntact
  <2>1. t \in Slot /\ t # NONE /\ task_count > 0
    BY <1>1 DEF Created, NONE, IInv, TypeOK
  <2>2. stack_pointer' = SavePointer(sp)
    BY <2>1, ScheduleOutcome
  <2>3. CASE cpu.at = "user" /\ t = current_task
    <3>1. stack_pointer'[t] = sp /\ sp.stack = t
      BY <2>1, <2>2, <2>3 DEF SavePointer, Entered, EntryStack, IInv, TypeOK, WhoRunsIsAgreed
    <3>2. mem[t][1] = cpu /\ cpu.owner = t
      BY <2>3, <3>1 DEF Entered, IInv, WhoRunsIsAgreed
    <3>3. sp.depth = 2 => mem[t][2].at = "task_exit" /\ ~ act[t]
      BY <2>3, <3>1 DEF Entered
    <3>4. QED
      BY <2>3, <3>1, <3>2, <3>3 DEF SavedContext, Entered
  <2>4. CASE ~ (cpu.at = "user" /\ t = current_task)
    <3>1. t # current_task
      BY <2>1, <2>4 DEF IInv, BootOrder
    <3>2. EntryStack # t
      BY <2>1, <3>1 DEF IInv, WhoRunsIsAgreed, EntryStack
    <3>3. mem[t] = kstack[t]
      BY <2>1, <3>2 DEF Entered, Stack
    <3>4. stack_pointer'[t] = stack_pointer[t]
      BY <2>1, <2>2, <3>1 DEF SavePointer, IInv, TypeOK
    <3>5. SavedContext(t)
      BY <2>4 DEF IInv, WaitingContextsIntact
    <3>6. act[t] => active[t]
      BY <2>1 DEF Entered
    <3>7. QED
      BY <3>3, <3>4, <3>5, <3>6 DEF SavedContext
  <2>5. QED
    BY <2>3, <2>4
<1>9. ExitedRunsOnlyAlone'
  <2>1. CASE NoneActive(act)
    BY <2>1 DEF ExitedRunsOnlyAlone, NoneActive
  <2>2. CASE task_count = 0
    BY <2>2 DEF ExitedRunsOnlyAlone, NoneActive
  <2>3. CASE \E t \in Created : /\ act[t]
                                /\ cpu' = IF cpu.at = "user" /\ t = current_task
                                          THEN cpu ELSE kstack[t][1]
    <3>1. PICK t \in Created : /\ act[t]
                               /\ cpu' = IF cpu.at = "user" /\ t = current_task
                                         THEN cpu ELSE kstack[t][1]
      BY <2>3
    <3>2. cpu'.owner = t
      BY <3>1, <1>5 DEF IInv, WhoRunsIsAgreed
    <3>3. QED
      BY <3>1, <3>2 DEF ExitedRunsOnlyAlone
  <2>4. QED
    BY <2>1, <2>2, <2>3, ScheduleOutcome
<1>10. QED
  BY <1>4, <1>6, <1>7, <1>8, <1>9 DEF IInv

-----------------------------------------------------------------------------
(* irq0_stub hands schedule() the interrupted context and every flag. *)
LEMMA Irq0Enters ==
  ASSUME IInv
  PROVE  Entered([stack |-> EntryStack, depth |-> 1],
                 [kstack EXCEPT ![EntryStack][1] = cpu], active)
<1>1. EntryStack \in Stack
  BY DEF EntryStack, Stack, IInv, TypeOK
<1>2. QED
  BY <1>1 DEF Entered, IInv, TypeOK, StackPointer

(* task_exit hands it two frames on the caller's stack and clears one flag. *)
LEMMA ExitEnters ==
  ASSUME IInv, cpu.at = "user"
  PROVE  Entered([stack |-> EntryStack, depth |-> 2],
                 [kstack EXCEPT ![EntryStack][1] = cpu,
                                ![EntryStack][2] = [cpu EXCEPT !.at = "task_exit"]],
                 IF current_task # NONE
                 THEN [active EXCEPT ![current_task] = FALSE] ELSE active)
<1>1. EntryStack \in Stack
  BY DEF EntryStack, Stack, IInv, TypeOK
<1>2. current_task \in Slot /\ current_task # NONE
  BY DEF IInv, WhoRunsIsAgreed, Created, TypeOK, Slot, NONE
<1>3. [cpu EXCEPT !.at = "task_exit"] \in Context
  BY DEF IInv, TypeOK, Context
<1>4. [cpu EXCEPT !.at = "task_exit"].at = "task_exit"
  BY DEF IInv, TypeOK, Context
<1>5. QED
  BY <1>1, <1>2, <1>3, <1>4 DEF Entered, IInv, TypeOK, StackPointer

(* The inductive invariant holds when kmain starts. *)
LEMMA InitInvariant == Init => IInv
<1> SUFFICES ASSUME Init PROVE IInv
  OBVIOUS
<1> USE DEF Init
<1>1. TypeOK
  <2>1. NONE \in Stack /\ 0 \in Stack
    BY DEF Stack, Slot
  <2>2. Kmain \in Context /\ Empty \in Context
    BY <2>1 DEF Context, Kmain, Empty
  <2>3. [stack |-> NONE, depth |-> 0] \in StackPointer
    BY <2>1 DEF StackPointer
  <2>4. 0 \in 0 .. MAX_TASKS /\ 0 \in 0 .. HZ - 1 /\ 0 \in 0 .. WRAP - 1
    OBVIOUS
  <2>5. kstack \in [Stack -> [1 .. 2 -> Context]]
    BY <2>2
  <2>6. QED
    BY <2>1, <2>2, <2>3, <2>4, <2>5 DEF TypeOK
<1>2. BootOrder
  BY DEF BootOrder, Created, Kmain
<1>3. cpu.at # "user" /\ Created = {}
  BY DEF Kmain, Created
<1>4. QED
  BY <1>1, <1>2, <1>3
     DEF IInv, WhoRunsIsAgreed, WaitingContextsIntact, ExitedRunsOnlyAlone

(* scheduler_init empties the table. *)
LEMMA InitKeepsInvariant ==
  ASSUME IInv, scheduler_init
  PROVE  IInv'
<1> USE DEF IInv, scheduler_init
<1>1. TypeOK'
  BY DEF TypeOK, Stack, clock
<1>2. cpu' = Kmain /\ Created' = {}
  BY DEF BootOrder, Created
<1>3. BootOrder'
  BY <1>1, <1>2 DEF BootOrder, Kmain, TypeOK
<1>4. QED
  BY <1>1, <1>2, <1>3
     DEF Kmain, WhoRunsIsAgreed, WaitingContextsIntact, ExitedRunsOnlyAlone

(* task_create_user leaves every older task's frame where it was. *)
LEMMA CreateKeepsInvariant ==
  ASSUME IInv, task_create_user
  PROVE  IInv'
<1> USE DEF IInv, task_create_user
<1>0. task_count \in Slot /\ task_count \in Stack /\ task_count # NONE
  BY DEF TypeOK, Slot, Stack, NONE
<1>1. Created' = Created \cup {task_count} /\ task_count \notin Created
  <2>1. task_count \in Nat /\ task_count' = task_count + 1
    BY DEF TypeOK
  <2>2. \A n \in Nat : /\ 0 .. (n + 1) - 1 = (0 .. n - 1) \cup {n}
                       /\ n \notin 0 .. n - 1
    OBVIOUS
  <2> HIDE DEF IInv, task_create_user
  <2>3. QED
    BY <2>1, <2>2 DEF Created
<1>2. cpu = Kmain /\ cpu' = cpu /\ cpu.at # "user"
  <2>1. cpu.at # "user"
    BY DEF BootOrder
  <2>2. QED
    BY <2>1 DEF BootOrder
<1>3. TypeOK'
  <2>1. kstack' \in [Stack -> [1 .. 2 -> Context]]
    BY <1>0 DEF TypeOK, Context
  <2>2. stack_pointer' \in [Slot -> StackPointer]
    BY <1>0 DEF TypeOK, StackPointer
  <2>3. pid' \in [Slot -> 0 .. MAX_TASKS] /\ active' \in [Slot -> BOOLEAN]
    BY <1>0 DEF TypeOK
  <2>4. QED
    BY <2>1, <2>2, <2>3 DEF TypeOK, clock
<1>4. BootOrder'
  BY <1>0, <1>1, <1>2 DEF BootOrder, TypeOK, Kmain
<1>5. WaitingContextsIntact'
  <2> SUFFICES ASSUME NEW t \in Created' PROVE SavedContext(t)'
    BY DEF WaitingContextsIntact
  <2>1. CASE t = task_count
    BY <2>1, <1>0 DEF SavedContext, TypeOK
  <2>2. CASE t \in Created
    <3>1. SavedContext(t) /\ t # task_count
      BY <2>2, <1>1, <1>2 DEF WaitingContextsIntact
    <3>2. t \in Slot /\ t \in Stack
      BY <2>2 DEF Created, TypeOK, Slot, Stack
    <3>3. QED
      BY <3>1, <3>2, <1>0 DEF SavedContext, TypeOK
  <2>3. QED
    BY <1>1, <2>1, <2>2
<1>6. QED
  BY <1>2, <1>3, <1>4, <1>5 DEF Kmain, WhoRunsIsAgreed, ExitedRunsOnlyAlone

(* A tick keeps the invariant. *)
LEMMA Irq0KeepsInvariant ==
  ASSUME IInv, irq0
  PROVE  IInv'
BY Irq0Enters, ScheduleKeepsInvariant DEF irq0

(* So does an exit. *)
LEMMA ExitKeepsInvariant ==
  ASSUME IInv, sys_exit
  PROVE  IInv'
<1>1. boot = "idle"
  BY DEF IInv, BootOrder, sys_exit
<1>2. QED
  BY <1>1, ExitEnters, ScheduleKeepsInvariant DEF sys_exit

(* Enabling interrupts changes nothing but where kmain is. *)
LEMMA StiKeepsInvariant ==
  ASSUME IInv, sti
  PROVE  IInv'
<1> USE DEF IInv, sti, tasks, clock
<1>1. TypeOK'
  BY DEF TypeOK
<1>2. Created' = Created /\ (\A t \in Slot : SavedContext(t)' = SavedContext(t))
  BY DEF Created, SavedContext
<1>3. BootOrder'
  BY <1>2 DEF BootOrder
<1>4. WhoRunsIsAgreed' /\ ExitedRunsOnlyAlone'
  BY <1>2 DEF WhoRunsIsAgreed, ExitedRunsOnlyAlone, get_current_pid, NoneActive
<1>5. WaitingContextsIntact'
  BY <1>2 DEF WaitingContextsIntact, SavedContext
<1>6. QED
  BY <1>1, <1>3, <1>4, <1>5

(* A step of the running task moves its own registers only. *)
LEMMA StepKeepsInvariant ==
  ASSUME IInv, user_step
  PROVE  IInv'
<1> USE DEF IInv, user_step, tasks, clock
<1>1. cpu' \in Context /\ cpu'.at = "user" /\ cpu'.owner = cpu.owner
  BY DEF TypeOK, Context
<1>2. TypeOK'
  BY <1>1 DEF TypeOK
<1>3. Created' = Created
  BY DEF Created
<1>4. BootOrder'
  BY <1>1, <1>3 DEF BootOrder, Kmain
<1>5. WhoRunsIsAgreed' /\ ExitedRunsOnlyAlone'
  BY <1>1, <1>3 DEF WhoRunsIsAgreed, ExitedRunsOnlyAlone, get_current_pid, NoneActive
<1>6. WaitingContextsIntact'
  BY <1>1, <1>3 DEF WaitingContextsIntact, SavedContext
<1>7. QED
  BY <1>2, <1>4, <1>5, <1>6

(* A call that returns leaves its frame in the cell of the running task    *)
(* alone, and the processor where it was.                                  *)
LEMMA CallKeepsInvariant ==
  ASSUME IInv, call_and_return
  PROVE  IInv'
<1> DEFINE sp  == [stack |-> EntryStack, depth |-> 1]
           mem == [kstack EXCEPT ![EntryStack][1] = cpu]
<1>1. Entered(sp, mem, active)
  BY Irq0Enters
<1>2. /\ cpu' = cpu /\ kstack' = mem /\ boot = "idle"
      /\ UNCHANGED <<tasks, esp0, boot, clock>>
  BY <1>1, ReturnToSelf DEF call_and_return
<1>3. TypeOK'
  BY <1>1, <1>2 DEF Entered, IInv, TypeOK, tasks, clock
<1>4. Created' = Created
  BY <1>2 DEF Created, tasks
<1>5. BootOrder' /\ WhoRunsIsAgreed' /\ ExitedRunsOnlyAlone'
  BY <1>2, <1>4 DEF IInv, BootOrder, WhoRunsIsAgreed, ExitedRunsOnlyAlone,
                    get_current_pid, NoneActive, tasks
<1>6. WaitingContextsIntact'
  <2> SUFFICES ASSUME NEW t \in Created,
                      ~ (cpu.at = "user" /\ t = current_task)
               PROVE  SavedContext(t)'
    BY <1>2, <1>4 DEF WaitingContextsIntact, tasks
  <2>1. t \in Stack /\ t # NONE
    BY DEF Created, Stack, Slot, NONE, IInv, TypeOK
  <2>2. EntryStack # t
    BY <2>1 DEF IInv, WhoRunsIsAgreed, EntryStack
  <2>3. kstack'[t] = kstack[t]
    BY <1>1, <1>2, <2>1, <2>2 DEF Entered
  <2>4. SavedContext(t)
    BY DEF IInv, WaitingContextsIntact
  <2>5. QED
    BY <1>2, <2>3, <2>4 DEF SavedContext, tasks
<1>7. QED
  BY <1>3, <1>5, <1>6 DEF IInv

(* Stuttering. *)
LEMMA StutterKeepsInvariant ==
  ASSUME IInv, UNCHANGED vars
  PROVE  IInv'
BY DEF vars, tasks, clock, IInv, TypeOK, BootOrder, WhoRunsIsAgreed,
       WaitingContextsIntact, ExitedRunsOnlyAlone, Created, SavedContext,
       NoneActive, get_current_pid

(* Every step of the system keeps the invariant. *)
LEMMA NextKeepsInvariant ==
  ASSUME IInv, [Next]_vars
  PROVE  IInv'
<1>1. CASE scheduler_init
  BY <1>1, InitKeepsInvariant
<1>2. CASE task_create_user
  BY <1>2, CreateKeepsInvariant
<1>3. CASE sti
  BY <1>3, StiKeepsInvariant
<1>4. CASE irq0
  BY <1>4, Irq0KeepsInvariant
<1>5. CASE sys_exit
  BY <1>5, ExitKeepsInvariant
<1>6. CASE user_step
  BY <1>6, StepKeepsInvariant
<1>7. CASE UNCHANGED vars
  BY <1>7, StutterKeepsInvariant
<1>8. CASE call_and_return
  BY <1>8, CallKeepsInvariant
<1>9. QED
  BY <1>1, <1>2, <1>3, <1>4, <1>5, <1>6, <1>7, <1>8 DEF Next

(* The inductive invariant holds in every reachable state of Scheduler.    *)
THEOREM Invariance == Spec => []IInv
<1>1. Init => IInv
  BY InitInvariant
<1>2. IInv /\ [Next]_vars => IInv'
  BY NextKeepsInvariant
<1>3. QED
  BY <1>1, <1>2, PTL DEF Spec

(* Every variable of the switcher keeps its type. *)
THEOREM TypeCorrect == Spec => []TypeOK
<1>1. IInv => TypeOK
  BY DEF IInv
<1>2. QED
  BY <1>1, Invariance, PTL

(* In ring 3 current_task, the pid, the TSS and the registers name the same *)
(* task, whatever sequence of ticks and exits led there.                    *)
THEOREM Agreement == Spec => []WhoRunsIsAgreed
<1>1. IInv => WhoRunsIsAgreed
  BY DEF IInv
<1>2. QED
  BY <1>1, Invariance, PTL

(* No frame pushed on a kernel stack ever destroys the context of a task   *)
(* that waits for the processor.                                           *)
THEOREM NoContextLost == Spec => []WaitingContextsIntact
<1>1. IInv => WaitingContextsIntact
  BY DEF IInv
<1>2. QED
  BY <1>1, Invariance, PTL

(* schedule() goes on with an exited task only when no task is active. *)
THEOREM ExitedGivesWay == Spec => []ExitedRunsOnlyAlone
<1>1. IInv => ExitedRunsOnlyAlone
  BY DEF IInv
<1>2. QED
  BY <1>1, Invariance, PTL

(* Ring 3, once entered, is never left for kmain's hlt loop. *)
THEOREM NoWayBackToKmain == Spec => KmainIsLeftForGood
<1>1. ASSUME IInv, [Next]_vars, cpu.at = "user"
      PROVE  cpu'.at = "user"
  <2>1. boot = "idle"
    BY <1>1 DEF IInv, BootOrder
  <2>2. CASE irq0 \/ sys_exit
    <3>1. PICK sp, mem, act : Entered(sp, mem, act) /\ schedule(sp, mem, act)
      BY <1>1, <2>2, Irq0Enters, ExitEnters DEF irq0, sys_exit
    <3>2. \/ cpu' = cpu
          \/ \E t \in Created : cpu' = IF cpu.at = "user" /\ t = current_task
                                      THEN cpu ELSE kstack[t][1]
      BY <1>1, <3>1, ScheduleOutcome
    <3>3. QED
      BY <1>1, <3>2 DEF IInv, WaitingContextsIntact, SavedContext
  <2>3. CASE user_step
    BY <1>1, <2>3 DEF user_step, IInv, TypeOK, Context
  <2>4. CASE UNCHANGED vars
    BY <1>1, <2>4 DEF vars
  <2>5. CASE sti
    BY <1>1, <2>5 DEF sti
  <2>6. CASE call_and_return
    BY <1>1, <2>6, Irq0Enters, ReturnToSelf DEF call_and_return
  <2>7. QED
    BY <1>1, <2>1, <2>2, <2>3, <2>4, <2>5, <2>6
       DEF Next, scheduler_init, task_create_user
<1>2. IInv /\ [Next]_vars => [cpu.at = "user" => cpu'.at = "user"]_vars
  BY <1>1
<1>3. QED
  BY <1>2, Invariance, PTL DEF Spec, KmainIsLeftForGood

-----------------------------------------------------------------------------
(* The refinement.  A waiting task's progress is that of the frame at the  *)
(* top of its stack, whether a tick or task_exit stopped it.               *)
LEMMA ProgressValue ==
  ASSUME IInv, NEW t \in Slot
  PROVE  ProgressOf(t) = IF cpu.at = "user" /\ cpu.owner = t THEN cpu.step
                         ELSE IF t \in Created THEN kstack[t][1].step
                         ELSE 0
<1> SUFFICES ASSUME ~ (cpu.at = "user" /\ cpu.owner = t), t \in Created
             PROVE  Resume(kstack, stack_pointer[t]) = kstack[t][1]
  BY DEF ProgressOf
<1>1. SavedContext(t)
  BY DEF IInv, WaitingContextsIntact, WhoRunsIsAgreed
<1>2. QED
  BY <1>1 DEF SavedContext, Resume

(* No interrupt, whatever it switches to, changes anybody's progress. *)
LEMMA ScheduleKeepsProgress ==
  ASSUME IInv, IInv', NEW sp, NEW mem, NEW act, Entered(sp, mem, act),
         schedule(sp, mem, act), kstack' = mem, UNCHANGED task_count,
         NEW t \in Slot
  PROVE  ProgressOf(t)' = ProgressOf(t)
<1>1. Created' = Created
  BY DEF Created
<1>2. ProgressOf(t)' = IF cpu'.at = "user" /\ cpu'.owner = t THEN cpu'.step
                       ELSE IF t \in Created THEN mem[t][1].step
                       ELSE 0
  <2>1. ProgressOf(t)' = IF cpu'.at = "user" /\ cpu'.owner = t THEN cpu'.step
                         ELSE IF t \in Created' THEN kstack'[t][1].step
                         ELSE 0
    <3>1. CASE cpu'.at = "user" /\ cpu'.owner = t
      BY <3>1 DEF ProgressOf
    <3>2. CASE t \notin Created' /\ ~ (cpu'.at = "user" /\ cpu'.owner = t)
      BY <3>2 DEF ProgressOf
    <3>3. CASE t \in Created' /\ ~ (cpu'.at = "user" /\ cpu'.owner = t)
      <4>1. SavedContext(t)'
        BY <3>3 DEF IInv, WaitingContextsIntact, WhoRunsIsAgreed
      <4>2. Resume(kstack', stack_pointer'[t]) = kstack'[t][1]
        BY <4>1 DEF SavedContext, Resume
      <4>3. QED
        BY <3>3, <4>2 DEF ProgressOf
    <3>4. QED
      BY <3>1, <3>2, <3>3
  <2>2. QED
    BY <2>1, <1>1
<1>3. t \in Stack /\ t # NONE
  BY DEF Stack, Slot, NONE
<1>4. cpu.at = "user" => /\ cpu.owner = EntryStack
                         /\ cpu.owner = current_task
                         /\ cpu.owner \in Created
  BY DEF IInv, WhoRunsIsAgreed, EntryStack
<1>5. CASE cpu.at = "user" /\ cpu.owner = t
  <2>1. mem[t][1] = cpu /\ ProgressOf(t) = cpu.step
    BY <1>4, <1>5, ProgressValue DEF Entered
  <2>2. (cpu'.at = "user" /\ cpu'.owner = t) => cpu' = cpu
    BY <1>4, <1>5, ScheduleOutcome DEF IInv, WaitingContextsIntact, SavedContext
  <2>3. QED
    BY <1>2, <1>4, <1>5, <2>1, <2>2
<1>6. CASE ~ (cpu.at = "user" /\ cpu.owner = t)
  <2>1. mem[t] = kstack[t]
    BY <1>3, <1>4, <1>6 DEF Entered, EntryStack
  <2>2. (cpu'.at = "user" /\ cpu'.owner = t) => t \in Created /\ cpu' = kstack[t][1]
    BY <1>4, <1>6, ScheduleOutcome DEF IInv, WaitingContextsIntact, SavedContext
  <2>3. QED
    BY <1>2, <1>6, <2>1, <2>2, ProgressValue
<1>7. QED
  BY <1>5, <1>6

(* The abstract state, and what "unchanged" means for it. *)
Live    == {t \in Slot : active[t]}
Running == IF cpu.at = "user" THEN cpu.owner ELSE NONE

LEMMA AbstractStutter ==
  ASSUME Live' = Live, Running' = Running,
         \A t \in Slot : ProgressOf(t)' = ProgressOf(t)
  PROVE  UNCHANGED Tasks!vars
BY DEF Tasks!vars, Live, Running

(* The program's initial state is the abstract one. *)
LEMMA InitRefines == Init => Tasks!Init
<1> SUFFICES ASSUME Init PROVE Tasks!Init
  OBVIOUS
<1>1. cpu.at # "user" /\ Created = {}
  BY DEF Init, Kmain, Created
<1>2. \A t \in Slot : ProgressOf(t) = 0
  BY <1>1 DEF ProgressOf
<1>3. QED
  BY <1>1, <1>2 DEF Init, Tasks!Init

(* A tick is a switch to a live task, or nothing a user could see. *)
LEMMA Irq0Refines ==
  ASSUME IInv, IInv', irq0
  PROVE  Tasks!Next \/ UNCHANGED Tasks!vars
<1>1. PICK sp, mem : /\ Entered(sp, mem, active)
                     /\ schedule(sp, mem, active)
                     /\ kstack' = mem
  BY Irq0Enters DEF irq0
<1>2. UNCHANGED task_count /\ active' = active
  BY DEF irq0
<1>3. \A t \in Slot : ProgressOf(t)' = ProgressOf(t)
  BY <1>1, <1>2, ScheduleKeepsProgress
<1>4. CASE cpu' = cpu
  BY <1>2, <1>3, <1>4, AbstractStutter DEF Live, Running
<1>5. CASE \E t \in Created : /\ active[t]
                              /\ cpu' = IF cpu.at = "user" /\ t = current_task
                                        THEN cpu ELSE kstack[t][1]
  <2>1. PICK t \in Created : /\ active[t]
                             /\ cpu' = IF cpu.at = "user" /\ t = current_task
                                       THEN cpu ELSE kstack[t][1]
    BY <1>5
  <2>2. t \in Slot /\ cpu'.at = "user" /\ cpu'.owner = t
    <3>1. t \in Slot
      BY DEF Created, Slot, IInv, TypeOK
    <3>2. QED
      BY <2>1, <3>1 DEF IInv, WaitingContextsIntact, SavedContext, WhoRunsIsAgreed
  <2>3. Tasks!Switch(t)
    BY <1>2, <1>3, <2>1, <2>2 DEF Tasks!Switch
  <2>4. QED
    BY <2>2, <2>3 DEF Tasks!Next
<1>6. QED
  BY <1>1, <1>4, <1>5, ScheduleOutcome

(* An exit takes the caller out of the live tasks and switches to a live   *)
(* one, or goes on with the caller when it was the last.                   *)
LEMMA ExitRefines ==
  ASSUME IInv, IInv', sys_exit
  PROVE  Tasks!Next
<1>0. PICK me \in Slot : me = current_task /\ me \in Created
  BY DEF sys_exit, IInv, WhoRunsIsAgreed, TypeOK, Created, Slot
<1> DEFINE act == [active EXCEPT ![me] = FALSE]
<1>1. /\ cpu.at = "user" /\ cpu.owner = me
      /\ me \in Created /\ me \in Slot /\ me # NONE
  BY <1>0 DEF sys_exit, IInv, WhoRunsIsAgreed, Slot, NONE
<1>2. PICK sp, mem : /\ Entered(sp, mem, act)
                     /\ schedule(sp, mem, act)
                     /\ kstack' = mem
  BY <1>0, <1>1, ExitEnters DEF sys_exit
<1>3. UNCHANGED task_count /\ active' = act
  BY <1>0, <1>1 DEF sys_exit
<1>4. \A t \in Slot : ProgressOf(t)' = ProgressOf(t)
  BY <1>2, <1>3, ScheduleKeepsProgress
<1>5. Live' = Live \ {me}
  BY <1>1, <1>3 DEF Live, IInv, TypeOK
<1>6. Running = me
  BY <1>1 DEF Running
<1>7. IF Live' = {} THEN Running' = me ELSE Running' \in Live'
  <2>1. CASE NoneActive(act)
    <3>1. Live' = {}
      <4>1. \A t \in Slot : ~ act[t]
        BY <1>3, <2>1 DEF IInv, BootOrder, NoneActive, Created
      <4>2. QED
        BY <1>3, <4>1 DEF Live
    <3>2. cpu' = cpu
      BY <1>2, <2>1, ScheduleOutcome DEF NoneActive, Created
    <3>3. QED
      BY <1>1, <3>1, <3>2 DEF Running
  <2>2. CASE \E t \in Created : /\ act[t]
                                /\ cpu' = IF cpu.at = "user" /\ t = current_task
                                          THEN cpu ELSE kstack[t][1]
    <3>1. PICK t \in Created : /\ act[t]
                               /\ cpu' = IF cpu.at = "user" /\ t = current_task
                                         THEN cpu ELSE kstack[t][1]
      BY <2>2
    <3>2. t \in Slot /\ cpu'.at = "user" /\ cpu'.owner = t
      <4>1. t \in Slot
        BY DEF Created, Slot, IInv, TypeOK
      <4>2. QED
        BY <3>1, <4>1 DEF IInv, WaitingContextsIntact, SavedContext, WhoRunsIsAgreed
    <3>3. QED
      BY <1>3, <3>1, <3>2 DEF Live, Running
  <2>3. task_count # 0
    BY <1>1 DEF Created
  <2>4. QED
    BY <1>2, <2>1, <2>2, <2>3, ScheduleOutcome
<1>8. Tasks!Exit(me)
  BY <1>4, <1>5, <1>6, <1>7 DEF Tasks!Exit, Live, Running
<1>9. QED
  BY <1>1, <1>8 DEF Tasks!Next

(* A created task appears among the live ones with no progress made. *)
LEMMA CreateRefines ==
  ASSUME IInv, IInv', task_create_user
  PROVE  Tasks!Next
<1>0. PICK n \in Slot : n = task_count
  BY DEF task_create_user, IInv, TypeOK, Slot
<1>1. cpu' = cpu /\ cpu = Kmain /\ cpu.at # "user"
  <2>1. cpu.at # "user" /\ cpu' = cpu
    BY DEF task_create_user, IInv, BootOrder
  <2>2. QED
    BY <2>1 DEF IInv, BootOrder
<1>2. n \notin Created /\ n # NONE
  BY <1>0 DEF Created, Slot, NONE, IInv, TypeOK
<1>3. Created' = Created \cup {n}
  <2>1. task_count \in Nat /\ task_count' = task_count + 1
    BY DEF task_create_user, IInv, TypeOK
  <2>2. \A k \in Nat : 0 .. (k + 1) - 1 = (0 .. k - 1) \cup {k}
    OBVIOUS
  <2>3. QED
    BY <1>0, <2>1, <2>2 DEF Created
<1>4. \A t \in Slot : ProgressOf(t)' = ProgressOf(t)
  <2> TAKE t \in Slot
  <2>1. CASE t = n
    <3>1. ProgressOf(t) = 0
      BY <1>1, <1>2, <2>1 DEF ProgressOf
    <3>2. /\ stack_pointer'[n] = [stack |-> n, depth |-> 1]
          /\ kstack'[n][1] = [owner |-> n, at |-> "user", step |-> 0]
      BY <1>0 DEF task_create_user, IInv, TypeOK, Stack
    <3>3. Resume(kstack', stack_pointer'[n]).step = 0
      BY <3>2 DEF Resume
    <3>4. ProgressOf(t)' = 0
      BY <1>1, <1>3, <2>1, <3>3 DEF ProgressOf
    <3>5. QED
      BY <3>1, <3>4
  <2>2. CASE t # n
    <3>1. stack_pointer'[t] = stack_pointer[t]
      BY <1>0, <2>2 DEF task_create_user, IInv, TypeOK
    <3>2. CASE t \in Created
      <4>1. SavedContext(t)
        BY <1>1, <3>2 DEF IInv, WaitingContextsIntact
      <4>2. kstack'[t] = kstack[t]
        BY <1>0, <2>2 DEF task_create_user, IInv, TypeOK, Stack
      <4>3. Resume(kstack', stack_pointer'[t]) = Resume(kstack, stack_pointer[t])
        BY <3>1, <4>1, <4>2 DEF SavedContext, Resume
      <4>4. QED
        BY <1>1, <1>3, <3>2, <4>3 DEF ProgressOf
    <3>3. CASE t \notin Created
      BY <1>1, <1>3, <2>2, <3>3 DEF ProgressOf
    <3>4. QED
      BY <3>2, <3>3
  <2>3. QED
    BY <2>1, <2>2
<1>5. n \notin Live /\ Live' = Live \cup {n}
  BY <1>0, <1>2 DEF Live, task_create_user, IInv, TypeOK, BootOrder
<1>6. Running = NONE /\ Running' = NONE
  BY <1>1 DEF Running
<1>7. Tasks!Spawn(n)
  BY <1>4, <1>5, <1>6 DEF Tasks!Spawn, Live, Running
<1>8. QED
  BY <1>7 DEF Tasks!Next

(* A step of the running task is its own progress and nobody else's. *)
LEMMA StepRefines ==
  ASSUME IInv, user_step
  PROVE  Tasks!Next
<1>0. PICK me \in Slot : me = cpu.owner
  BY DEF user_step, IInv, WhoRunsIsAgreed, Created, Slot, TypeOK
<1>1. /\ cpu.at = "user" /\ cpu'.at = "user"
      /\ cpu'.owner = me /\ cpu'.step = cpu.step + 1
  BY <1>0 DEF user_step, IInv, TypeOK, Context
<1>2. Created' = Created /\ UNCHANGED <<active, kstack, stack_pointer>>
  BY DEF user_step, tasks, Created
<1>3. \A t \in Slot : ProgressOf(t)' = IF t = me THEN ProgressOf(t) + 1
                                                ELSE ProgressOf(t)
  BY <1>0, <1>1, <1>2 DEF ProgressOf, Resume
<1>4. Live' = Live /\ Running = me /\ Running' = me
  BY <1>0, <1>1, <1>2 DEF Live, Running
<1>5. Tasks!Step(me)
  BY <1>3, <1>4 DEF Tasks!Step, Live, Running
<1>6. QED
  BY <1>5 DEF Tasks!Next

(* A call that returns moves nothing a user could see. *)
LEMMA CallRefines ==
  ASSUME IInv, IInv', call_and_return
  PROVE  UNCHANGED Tasks!vars
<1> DEFINE sp  == [stack |-> EntryStack, depth |-> 1]
           mem == [kstack EXCEPT ![EntryStack][1] = cpu]
<1>1. Entered(sp, mem, active)
  BY Irq0Enters
<1>2. /\ cpu' = cpu /\ kstack' = mem
      /\ UNCHANGED <<active, task_count, current_task>>
  BY <1>1, ReturnToSelf DEF call_and_return, tasks
<1>3. Created' = Created
  BY <1>2 DEF Created
<1>4. \A t \in Slot : ProgressOf(t)' = ProgressOf(t)
  <2> TAKE t \in Slot
  <2>1. CASE cpu.at = "user" /\ cpu.owner = t
    BY <1>2, <2>1 DEF ProgressOf
  <2>2. CASE ~ (cpu.at = "user" /\ cpu.owner = t) /\ t \notin Created
    BY <1>2, <1>3, <2>2 DEF ProgressOf
  <2>3. CASE ~ (cpu.at = "user" /\ cpu.owner = t) /\ t \in Created
    <3>1. SavedContext(t) /\ SavedContext(t)'
      BY <1>2, <1>3, <2>3 DEF IInv, WaitingContextsIntact, WhoRunsIsAgreed
    <3>2. EntryStack # t /\ t \in Stack
      BY <2>3 DEF IInv, WhoRunsIsAgreed, EntryStack, Slot, NONE, Stack
    <3>3. kstack'[t] = kstack[t]
      BY <1>1, <1>2, <3>2 DEF Entered
    <3>4. /\ Resume(kstack, stack_pointer[t]) = kstack[t][1]
          /\ Resume(kstack', stack_pointer'[t]) = kstack'[t][1]
      BY <3>1 DEF SavedContext, Resume
    <3>5. QED
      BY <1>2, <1>3, <2>3, <3>3, <3>4 DEF ProgressOf
  <2>4. QED
    BY <2>1, <2>2, <2>3
<1>5. QED
  BY <1>2, <1>4, AbstractStutter DEF Live, Running

(* Every step of the program is a step of Multitasking or invisible. *)
LEMMA NextRefines ==
  ASSUME IInv, IInv', [Next]_vars
  PROVE  [Tasks!Next]_(Tasks!vars)
<1>1. CASE irq0
  BY <1>1, Irq0Refines
<1>2. CASE sys_exit
  BY <1>2, ExitRefines
<1>3. CASE task_create_user
  BY <1>3, CreateRefines
<1>4. CASE user_step
  BY <1>4, StepRefines
<1>5. CASE scheduler_init
  <2>1. UNCHANGED <<kstack, stack_pointer, cpu>> /\ Created = {} /\ Created' = {}
    BY <1>5 DEF scheduler_init, IInv, BootOrder, Created
  <2>2. \A t \in Slot : ~ active[t] /\ ~ active'[t]
    BY <1>5, <2>1 DEF scheduler_init, IInv, BootOrder
  <2>3. \A t \in Slot : ProgressOf(t)' = ProgressOf(t)
    BY <2>1 DEF ProgressOf
  <2>4. Live' = Live /\ Running' = Running
    BY <2>1, <2>2 DEF Live, Running
  <2>5. QED
    BY <2>3, <2>4, AbstractStutter
<1>6. CASE sti \/ UNCHANGED vars
  <2>1. UNCHANGED <<kstack, stack_pointer, cpu, active, task_count>>
    BY <1>6 DEF sti, vars, tasks
  <2>2. \A t \in Slot : ProgressOf(t)' = ProgressOf(t)
    BY <2>1 DEF ProgressOf, Created, Resume
  <2>3. Live' = Live /\ Running' = Running
    BY <2>1 DEF Live, Running
  <2>4. QED
    BY <2>2, <2>3, AbstractStutter
<1>7. CASE call_and_return
  BY <1>7, CallRefines
<1>8. QED
  BY <1>1, <1>2, <1>3, <1>4, <1>5, <1>6, <1>7 DEF Next

(* The switcher implements Multitasking: whatever the interleaving of      *)
(* ticks, exits and steps, no context is lost, mixed up or replayed.       *)
THEOREM Refinement == Spec => ImplementsMultitasking
<1>1. Init => Tasks!Init
  BY InitRefines
<1>2. IInv /\ IInv' /\ [Next]_vars => [Tasks!Next]_(Tasks!vars)
  BY NextRefines
<1>3. QED
  BY <1>1, <1>2, Invariance, PTL DEF Spec, ImplementsMultitasking, Tasks!Spec
=============================================================================
