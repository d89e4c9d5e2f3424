------------------------------- MODULE Kernel -------------------------------
(***************************************************************************)
(* The task switcher, the interrupt controller and the keyboard in one     *)
(* machine: the two requests the PIC latches, which of them is taken and   *)
(* when, and sys_read, the one system call that waits.  It spins with      *)
(* interrupts off, as every gate clears the interrupt flag, so from its    *)
(* first instruction to its iret there is no tick and no other task.       *)
(*                                                                         *)
(* The variables of Scheduler are its own; the ring is the queue that      *)
(* Keyboard is shown to implement, with nothing remembered of the past, so *)
(* that behaviours need no bound on the keys and ticks in them.            *)
(***************************************************************************)
EXTENDS Integers, Sequences

CONSTANTS
  MAX_TASKS, HZ, WRAP, MaxStep,   \* of Scheduler
  CAPACITY,                       \* characters the ring holds, 255 in the code
  POLL_INTERVAL,                  \* keyboard.c:6, 100000
  DEVICE                          \* bytes the controller queues

ASSUME KernelAssumption ==
  /\ {MAX_TASKS, HZ, WRAP, CAPACITY, POLL_INTERVAL, DEVICE} \subseteq Nat \ {0}
  /\ MaxStep \in Nat

VARIABLES
  active, pid, stack_pointer, task_count, current_task,
  esp0, kstack, cpu, boot, system_tick, seconds, in_service,
  irr,            \* the requests latched by the PIC: 0 the timer, 1 the keyboard
  output_buffer,  \* the controller's queue, of what kbdus makes of each byte
  last_byte,      \* what port 0x60 returns when the queue is empty
  queue,          \* the characters in the ring
  poll_counter,
  reader          \* the task inside sys_read, or NONE

Sched == INSTANCE Scheduler

NONE   == Sched!NONE
Byte   == {"char", "newline", "none"}   \* "none": a key's release
tasks  == <<active, pid, stack_pointer, task_count, current_task>>
clock  == <<system_tick, seconds, in_service>>
sched  == <<tasks, esp0, kstack, cpu, boot, clock>>
device == <<output_buffer, last_byte>>
input  == <<device, queue, poll_counter, reader>>
vars   == <<sched, irr, input>>

(* A key hit before pic_remap waits in the controller without a request.   *)
Init ==
  /\ Sched!Init
  /\ irr = {}
  /\ output_buffer \in {<<>>, <<"char">>}
  /\ last_byte = "none"
  /\ queue = <<>>
  /\ poll_counter = 0
  /\ reader = NONE

-----------------------------------------------------------------------------
(* Mutant: sys_read runs with interrupts on. *)
interrupts_on_InRead == boot = "idle"

(* After sti, except inside a system call. *)
interrupts_on == boot = "idle" /\ reader = NONE

(* The processor takes a pending request before the next instruction of    *)
(* ring 3, also when it became pending inside the call that just ended.    *)
Undisturbed == reader = NONE /\ irr = {}

(* A tick of the PIT.  Ticks while the request is still latched are lost.  *)
tick ==
  /\ 0 \notin irr
  /\ irr' = irr \cup {0}
  /\ UNCHANGED <<sched, input>>

(* The controller takes a byte and raises its line if it had none. *)
key_event(byte) ==
  /\ Len(output_buffer) < DEVICE
  /\ output_buffer' = Append(output_buffer, byte)
  /\ irr' = IF output_buffer = <<>> THEN irr \cup {1} ELSE irr
  /\ UNCHANGED <<sched, last_byte, queue, poll_counter, reader>>

(* inb(KEYBOARD_DATA_PORT): with more bytes the line rises again, without  *)
(* one PICs differ on whether a latched request is withdrawn.              *)
port_byte == IF output_buffer = <<>> THEN last_byte ELSE Head(output_buffer)

inb_data(latched) ==
  /\ last_byte' = port_byte
  /\ output_buffer' = IF output_buffer = <<>> THEN <<>> ELSE Tail(output_buffer)
  /\ irr' \in IF output_buffer' # <<>> THEN {latched \cup {1}}
                                       ELSE {latched, latched \ {1}}

(* The ring after keyboard_handler stored what it read. *)
stored ==
  IF port_byte = "none" \/ Len(queue) = CAPACITY THEN queue
                                                 ELSE Append(queue, port_byte)

(* IRQ 0 comes before IRQ 1.  The handlers end the interrupt at the PIC     *)
(* before they return.                                                     *)
irq0 ==
  /\ interrupts_on
  /\ 0 \in irr
  /\ Sched!irq0
  /\ irr' = irr \ {0}
  /\ UNCHANGED input

irq1 ==
  /\ interrupts_on
  /\ 1 \in irr /\ 0 \notin irr
  /\ Sched!call_and_return
  /\ inb_data(irr \ {1})
  /\ queue' = stored
  /\ UNCHANGED <<poll_counter, reader>>

(* kmain's steps, and instructions of ring 3.  The int $32 inside the exit *)
(* call runs irq0_stub with nothing latched for it.                        *)
kmain ==
  /\ Sched!scheduler_init \/ Sched!task_create_user \/ Sched!sti
  /\ UNCHANGED <<irr, input>>

user_step == Undisturbed /\ Sched!user_step /\ UNCHANGED <<irr, input>>

sys_exit == Undisturbed /\ Sched!sys_exit /\ UNCHANGED <<irr, input>>

(* Every call number but 1, and 3 with descriptor 0: the dispatch calls    *)
(* something that does not wait, an unknown number nothing at all.         *)
other_call ==
  /\ Undisturbed
  /\ cpu.at = "user"
  /\ Sched!call_and_return
  /\ UNCHANGED <<irr, input>>

(* sys_read(0, buf, len > 0): the caller's frame is pushed as for any call. *)
sys_read ==
  /\ Undisturbed
  /\ cpu.at = "user"
  /\ Sched!call_and_return
  /\ reader' = cpu.owner
  /\ UNCHANGED <<irr, device, queue, poll_counter>>

(* Mutant: the handler's argument is left on the stack. *)
syscall_return_ArgumentLeft ==
  /\ reader' = NONE
  /\ cpu' = Sched!Resume(kstack, [stack |-> esp0, depth |-> 2])

(* The end of syscall_stub: pop, iret. *)
syscall_return ==
  /\ reader' = NONE
  /\ cpu' = Sched!Resume(kstack, [stack |-> esp0, depth |-> 1])

(* Mutant: a newline is stored as any other character. *)
Ends_NewlineStored(c, full) == full

(* Whether a character ends the line: a newline does, the others may fill  *)
(* the buffer or not, which stands for its length and for backspaces.      *)
Ends(c, full) == c = "newline" \/ full

(* A round of sys_read's loop around keyboard_has_char, which polls the    *)
(* controller in every POLL_INTERVAL-th call.                              *)
sys_read_round ==
  LET polled == poll_counter + 1 >= POLL_INTERVAL /\ output_buffer # <<>>
      ring   == IF polled THEN stored ELSE queue
  IN
  /\ reader # NONE
  /\ poll_counter' = IF poll_counter + 1 >= POLL_INTERVAL THEN 0
                                                          ELSE poll_counter + 1
  /\ IF polled THEN inb_data(irr) ELSE UNCHANGED <<device, irr>>
  /\ queue' = IF ring = <<>> THEN ring ELSE Tail(ring)
  /\ \E full \in BOOLEAN :
       IF ring # <<>> /\ Ends(Head(ring), full) THEN syscall_return
                                                ELSE UNCHANGED <<reader, cpu>>
  /\ UNCHANGED <<tasks, esp0, kstack, boot, clock>>

Next ==
  \/ tick
  \/ \E byte \in Byte : key_event(byte)
  \/ irq0 \/ irq1
  \/ kmain \/ user_step \/ sys_exit \/ other_call
  \/ sys_read \/ sys_read_round

Spec == Init /\ [][Next]_vars

(* The PIT is periodic, pending requests are taken while interrupts are    *)
(* on, and the processor goes on in sys_read's loop while they are off.    *)
(* No task has to do anything, and nobody has to hit a key.                *)
FairSpec ==
  Spec /\ WF_vars(tick) /\ WF_vars(irq0) /\ WF_vars(irq1) /\ WF_vars(sys_read_round)

-----------------------------------------------------------------------------
(* While a task waits for its line, however many ticks and keys go by,     *)
(* everything the kernel would need to deliver the line to it stays as the *)
(* call found it: the current task, the stack of the TSS, and the frame on *)
(* that stack.                                                             *)
ReadBelongsToCaller ==
  reader # NONE =>
    /\ boot = "idle"
    /\ cpu.at = "user"
    /\ cpu.owner = reader
    /\ current_task = reader
    /\ esp0 = reader
    /\ kstack[reader][1] = cpu

(* Refinement: with its requests latched and taken by priority, its stale  *)
(* keyboard interrupts and its waiting call, the machine is the Scheduler  *)
(* that the proofs are about, so what they show of it holds here.          *)
ImplementsScheduler == Sched!Spec

(* Liveness under FairSpec: a task that waits for a line stops all others, *)
(* so without keys they starve; but as long as newlines keep being typed,  *)
(* every active task runs in ring 3 again and again, although the ring may *)
(* be full, keys are lost, and tasks may ask for line after line.          *)
NobodyStarvesWhileTyping ==
  []<><<key_event("newline")>>_vars =>
    \A t \in Sched!Slot :
      (boot = "idle" /\ active[t]) ~>
        (~ active[t] \/ (cpu.at = "user" /\ cpu.owner = t /\ reader = NONE))
=============================================================================
