------------------------------ MODULE Scheduler ------------------------------
(***************************************************************************)
(* The task switcher of ZeptoOS: kernel/core/scheduler.c with everything   *)
(* that drives it, i.e. kmain's last steps, the entry and exit halves of   *)
(* irq0_stub and syscall_stub, timer_handler, sys_exit, and the TSS field  *)
(* (esp0 on i386, rsp0 on x86_64) that tells the processor on which stack  *)
(* an interrupt taken in ring 3 lands.                                     *)
(*                                                                         *)
(* All gates are interrupt gates (idt.c: 0x8E and 0xEE), so a handler runs *)
(* with interrupts off from entry to iret and is one action.  Interrupts   *)
(* come between two user instructions, and in kmain's hlt loop.            *)
(*                                                                         *)
(* A kernel stack is memory: a frame stays in its cell until another one   *)
(* is pushed over it, which is how a wrong stack pointer loses a context.  *)
(* The registers a frame holds are abstracted to the Context they resume:  *)
(* whose code, where, and how many steps into it.                          *)
(***************************************************************************)
EXTENDS Integers

CONSTANTS
  MAX_TASKS,   \* scheduler.c:4, 10 in the code
  HZ,          \* timer ticks in a second, 100 in pic.c:23
  WRAP,        \* 2^32: `seconds' is a uint32_t
  MaxStep      \* bound: steps of its own a task executes

ASSUME SchedulerAssumption ==
  /\ MAX_TASKS \in Nat \ {0}
  /\ HZ \in Nat \ {0}
  /\ WRAP \in Nat \ {0}
  /\ MaxStep \in Nat

Slot  == 0 .. MAX_TASKS - 1
NONE  == -1                    \* current_task before the first switch
Stack == Slot \cup {NONE}      \* one kernel stack per task, and kmain's own

Context == [owner : Stack,
            at    : {"nowhere", "kmain", "user", "task_exit"},
            step  : 0 .. MaxStep]

(* A stack pointer: which stack, and how many frames are on it. *)
StackPointer == [stack : Stack, depth : 0 .. 2]
Empty        == [owner |-> NONE, at |-> "nowhere", step |-> 0]
Kmain        == [owner |-> NONE, at |-> "kmain", step |-> 0]

VARIABLES
  active,         \* tasks[t].active
  pid,            \* tasks[t].pid
  stack_pointer,  \* tasks[t].stack_pointer
  task_count,     \* task_count
  current_task,   \* current_task
  esp0,           \* tss.esp0 / tss.rsp0: the task whose stack top it names
  kstack,         \* the frames in the cells of the kernel stacks
  cpu,            \* the context the processor executes
  boot,           \* where kmain is: "start", "ready", then "idle" after sti
  system_tick, seconds,   \* the counters of timer_handler
  in_service      \* the PIC waits for an end of interrupt on the timer line

tasks == <<active, pid, stack_pointer, task_count, current_task>>
clock == <<system_tick, seconds, in_service>>
vars  == <<tasks, esp0, kstack, cpu, boot, clock>>

(* The loader cleared .bss, so current_task is 0 until scheduler_init. *)
Init ==
  /\ active = [t \in Slot |-> FALSE]
  /\ pid = [t \in Slot |-> 0]
  /\ stack_pointer = [t \in Slot |-> [stack |-> NONE, depth |-> 0]]
  /\ task_count = 0
  /\ current_task = 0
  /\ esp0 = NONE
  /\ kstack = [s \in Stack |-> [d \in 1 .. 2 |-> Empty]]
  /\ cpu = Kmain
  /\ boot = "start"
  /\ system_tick = 0
  /\ seconds = 0
  /\ in_service = FALSE

-----------------------------------------------------------------------------
(* Boot: kmain with interrupts off. *)

(* Mutant: current_task keeps the 0 of .bss. *)
scheduler_init_ZeroCurrent ==
  /\ boot = "start"
  /\ boot' = "ready"
  /\ task_count' = 0
  /\ current_task' = 0
  /\ active' = [t \in Slot |-> FALSE]
  /\ UNCHANGED <<pid, stack_pointer, esp0, kstack, cpu, clock>>

scheduler_init ==
  /\ boot = "start"
  /\ boot' = "ready"
  /\ task_count' = 0
  /\ current_task' = NONE
  /\ active' = [t \in Slot |-> FALSE]
  /\ UNCHANGED <<pid, stack_pointer, esp0, kstack, cpu, clock>>

(* A new task gets a frame that "returns" to its entry point in ring 3,    *)
(* and a stack pointer to it.  With MAX_TASKS tasks the call returns and   *)
(* nothing changes: a stuttering step.                                     *)
task_create_user ==
  LET t == task_count IN
  /\ boot = "ready"
  /\ task_count < MAX_TASKS
  /\ pid' = [pid EXCEPT ![t] = t + 1]
  /\ active' = [active EXCEPT ![t] = TRUE]
  /\ kstack' = [kstack EXCEPT ![t][1] =
                  [owner |-> t, at |-> "user", step |-> 0]]
  /\ stack_pointer' = [stack_pointer EXCEPT ![t] = [stack |-> t, depth |-> 1]]
  /\ task_count' = task_count + 1
  /\ UNCHANGED <<current_task, esp0, cpu, boot, clock>>

(* kmain enables interrupts and halts: with a first task when init was     *)
(* loaded, straight from the start when the initrd, init or its ELF header *)
(* is missing.                                                             *)
sti ==
  /\ boot = "start" \/ (boot = "ready" /\ task_count > 0)
  /\ boot' = "idle"
  /\ UNCHANGED <<tasks, esp0, kstack, cpu, clock>>

-----------------------------------------------------------------------------
(* The interrupt path. *)

(* Where the first frame of an interrupt goes: from ring 3 the processor   *)
(* takes the stack of the TSS from its top, from ring 0 it stays.          *)
EntryStack == IF cpu.at = "user" THEN esp0 ELSE NONE

(* pop the registers, iret.  A frame inside task_exit returns through      *)
(* sys_exit and syscall_handler to the end of syscall_stub, which pops the *)
(* frame above it.                                                         *)
Resume(mem, sp) ==
  LET frame == mem[sp.stack][sp.depth] IN
  IF frame.at = "task_exit" THEN mem[sp.stack][sp.depth - 1] ELSE frame

(* Mutant: the rollover tests > instead of >=. *)
timer_handler_OffByOne ==
  /\ system_tick' = IF system_tick + 1 > HZ THEN 0 ELSE system_tick + 1
  /\ seconds' = IF system_tick + 1 > HZ THEN (seconds + 1) % WRAP ELSE seconds
  /\ in_service' = FALSE

(* The counters, and the end of interrupt to the PIC. *)
timer_handler ==
  /\ system_tick' = (system_tick + 1) % HZ
  /\ seconds' = IF system_tick + 1 >= HZ THEN (seconds + 1) % WRAP ELSE seconds
  /\ in_service' = FALSE

(* Mutant: the loop looks at the current slot first. *)
NextTask_CurrentFirst(t, act) ==
  \E i \in 0 .. task_count - 1 :
    /\ t = (current_task + i) % task_count
    /\ act[t]
    /\ \A j \in 0 .. i - 1 : ~ act[(current_task + j) % task_count]

(* Mutant: the loop takes the next slot, active or not. *)
NextTask_AnyTask(t, act) ==
  /\ t = (current_task + 1) % task_count
  /\ \E u \in 0 .. task_count - 1 : act[u]

(* The slot at which the round-robin loop of schedule() stops. *)
NextTask(t, act) ==
  \E i \in 1 .. task_count :
    /\ t = (current_task + i) % task_count
    /\ act[t]
    /\ \A j \in 1 .. i - 1 : ~ act[(current_task + j) % task_count]

NoneActive(act) == \A t \in 0 .. task_count - 1 : ~ act[t]

(* Mutant: the TSS keeps the stack of the task that ran before. *)
set_kernel_stack_Stale(t) == esp0' = IF esp0 = NONE THEN t ELSE esp0

set_kernel_stack(t) == esp0' = t

(* The pointers after schedule() stored sp for the task it leaves; kmain   *)
(* is no task, and its stack pointer is stored nowhere.                    *)
SavePointer(sp) ==
  IF current_task # NONE
  THEN [stack_pointer EXCEPT ![current_task] = sp]
  ELSE stack_pointer

(* schedule(sp), called with the frames mem on the stacks and the flags    *)
(* act, and the end of irq0_stub that resumes what it returns.             *)
schedule(sp, mem, act) ==
  LET saved == SavePointer(sp) IN
  \/ /\ task_count = 0
     /\ cpu' = Resume(mem, sp)
     /\ UNCHANGED <<stack_pointer, current_task, esp0>>
  \/ /\ task_count > 0
     /\ stack_pointer' = saved
     /\ \E t \in Slot :
          /\ NextTask(t, act)
          /\ current_task' = t
          /\ set_kernel_stack(t)
          /\ cpu' = Resume(mem, saved[t])
  \/ /\ task_count > 0
     /\ NoneActive(act)
     /\ stack_pointer' = saved
     /\ cpu' = Resume(mem, sp)
     /\ UNCHANGED <<current_task, esp0>>

(* IRQ 0: irq0_stub pushes the interrupted context, calls timer_handler    *)
(* and schedule, and returns on the stack schedule names.                  *)
irq0 ==
  LET sp  == [stack |-> EntryStack, depth |-> 1]
      mem == [kstack EXCEPT ![EntryStack][1] = cpu]
  IN
  /\ boot = "idle"
  /\ ~ in_service
  /\ kstack' = mem
  /\ timer_handler
  /\ schedule(sp, mem, active)
  /\ UNCHANGED <<active, pid, task_count, boot>>

(* Syscall 1: syscall_stub pushes the caller's frame, task_exit clears the *)
(* active flag and executes int $32, whose frame goes below it on the same *)
(* stack and whose handler is irq0_stub.                                   *)
sys_exit ==
  LET sp  == [stack |-> EntryStack, depth |-> 2]
      mem == [kstack EXCEPT ![EntryStack][1] = cpu,
                            ![EntryStack][2] = [cpu EXCEPT !.at = "task_exit"]]
      act == IF current_task # NONE
             THEN [active EXCEPT ![current_task] = FALSE]
             ELSE active
  IN
  /\ cpu.at = "user"
  /\ active' = act
  /\ kstack' = mem
  /\ timer_handler
  /\ schedule(sp, mem, act)
  /\ UNCHANGED <<pid, task_count, boot>>

(* Every other entry, IRQ 1 and the rest of the system calls: the stub      *)
(* pushes a frame, calls a handler that knows nothing of tasks, and pops   *)
(* what is on top of the same stack.                                       *)
call_and_return ==
  LET sp  == [stack |-> EntryStack, depth |-> 1]
      mem == [kstack EXCEPT ![EntryStack][1] = cpu]
  IN
  /\ boot = "idle"
  /\ kstack' = mem
  /\ cpu' = Resume(mem, sp)
  /\ UNCHANGED <<tasks, esp0, boot, clock>>

(* The running task executes one more of its own steps. *)
user_step ==
  /\ cpu.at = "user"
  /\ cpu.step < MaxStep
  /\ cpu' = [cpu EXCEPT !.step = @ + 1]
  /\ UNCHANGED <<tasks, esp0, kstack, boot, clock>>

(* get_current_pid, what the kernel believes it is running. *)
get_current_pid == IF current_task = NONE THEN 0 ELSE pid[current_task]

Next ==
  \/ scheduler_init \/ task_create_user \/ sti
  \/ irq0 \/ sys_exit \/ call_and_return \/ user_step

Spec == Init /\ [][Next]_vars

(* pit_init programmed a periodic timer, so ticks keep coming while        *)
(* interrupts are on.  No task is obliged to do anything.                  *)
FairSpec == Spec /\ WF_vars(irq0)

-----------------------------------------------------------------------------
(* Type invariant. *)
TypeOK ==
  /\ active \in [Slot -> BOOLEAN]
  /\ pid \in [Slot -> 0 .. MAX_TASKS]
  /\ stack_pointer \in [Slot -> StackPointer]
  /\ task_count \in 0 .. MAX_TASKS
  /\ current_task \in Stack
  /\ esp0 \in Stack
  /\ kstack \in [Stack -> [1 .. 2 -> Context]]
  /\ cpu \in Context
  /\ boot \in {"start", "ready", "idle"}
  /\ system_tick \in 0 .. HZ - 1
  /\ seconds \in 0 .. WRAP - 1
  /\ in_service \in BOOLEAN

Created == 0 .. task_count - 1

(* In ring 3, everything the kernel believes about who runs agrees with    *)
(* who does: current_task, the pid, and the stack the TSS holds for the    *)
(* next interrupt all belong to the owner of the registers.  schedule()    *)
(* updates them one by one, far from the iret that loads the registers.    *)
WhoRunsIsAgreed ==
  cpu.at = "user" =>
    /\ cpu.owner = current_task
    /\ esp0 = current_task
    /\ current_task \in Created
    /\ get_current_pid = cpu.owner + 1

(* The frames under t's saved pointer resume t itself: either the frame of *)
(* an interrupted ring-3 context of t, or that of task_exit with the       *)
(* caller's frame above it, all on t's own stack.                          *)
SavedContext(t) ==
  LET sp == stack_pointer[t] IN
  /\ sp.stack = t
  /\ sp.depth \in {1, 2}
  /\ kstack[t][1].at = "user"
  /\ kstack[t][1].owner = t
  /\ sp.depth = 2 => kstack[t][2].at = "task_exit" /\ ~ active[t]

(* A task off the processor can be resumed: no frame pushed for another    *)
(* task, or for itself, ever landed on the one its pointer names.          *)
WaitingContextsIntact ==
  \A t \in Created : (cpu.at = "user" /\ t = current_task) \/ SavedContext(t)

(* A task that has exited keeps the processor only when there is no active *)
(* task to give it to; with one, schedule() never comes back to it.        *)
ExitedRunsOnlyAlone ==
  (cpu.at = "user" /\ ~ active[cpu.owner]) => NoneActive(active)

(* Once a task ran, kmain's hlt loop is never resumed: its stack pointer   *)
(* was saved nowhere, and no path of schedule() returns to its frame.      *)
KmainIsLeftForGood == [][cpu.at = "user" => cpu'.at = "user"]_vars

(* The order of boot: flags and pids exist for created tasks only, ring 3   *)
(* is entered after sti only, and while kmain still runs with tasks        *)
(* waiting, current_task is still the -1 of scheduler_init: were it a slot,*)
(* the first tick would store kmain's stack pointer in that slot.          *)
BootOrder ==
  /\ \A t \in Slot : active[t] => t \in Created
  /\ \A t \in Created : pid[t] = t + 1
  /\ cpu = Kmain \/ cpu.at = "user"
  /\ cpu = Kmain /\ task_count > 0 => current_task = NONE
  /\ boot = "start" => task_count = 0
  /\ boot = "ready" => current_task = NONE
  /\ cpu.at = "user" => boot = "idle"

(* The inductive invariant. *)
IInv ==
  TypeOK /\ BootOrder /\ WhoRunsIsAgreed /\ WaitingContextsIntact /\ ExitedRunsOnlyAlone

(* Refinement: what a task has done is read off the registers when it runs *)
(* and off the frames on its stack when it does not, so a switch that      *)
(* loses, mixes up or replays a context changes somebody's progress.       *)
ProgressOf(t) ==
  IF cpu.at = "user" /\ cpu.owner = t THEN cpu.step
  ELSE IF t \in Created THEN Resume(kstack, stack_pointer[t]).step
  ELSE 0

Tasks == INSTANCE Multitasking WITH
  Task     <- Slot,
  None     <- NONE,
  live     <- {t \in Slot : active[t]},
  running  <- IF cpu.at = "user" THEN cpu.owner ELSE NONE,
  progress <- [t \in Slot |-> ProgressOf(t)]

ImplementsMultitasking == Tasks!Spec

(* Liveness under FairSpec: with ticks coming, no active task is starved   *)
(* by the others, whatever they do.                                        *)
NobodyStarves ==
  \A t \in Slot :
    (boot = "idle" /\ active[t]) ~>
      (~ active[t] \/ (cpu.at = "user" /\ cpu.owner = t))
=============================================================================
