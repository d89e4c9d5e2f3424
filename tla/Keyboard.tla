------------------------------ MODULE Keyboard ------------------------------
(***************************************************************************)
(* Keyboard input, from the controller to the line sys_read returns:       *)
(* kernel/core/keyboard.c, irq1_stub, sys_read, and init's loop, the only  *)
(* caller.  Two paths feed the ring: the interrupt handler while a task is *)
(* in ring 3, and polling while sys_read spins in the kernel, where        *)
(* interrupts are off.                                                     *)
(*                                                                         *)
(* A byte of the controller is abstracted to the key event it comes from   *)
(* and to what kbdus makes of it.  The reader is at "user" (ring 3, with   *)
(* interrupts on), "wait" (about to call keyboard_has_char), "take" (that  *)
(* call returned 1) or, after init's exit command, "gone" (ring 3).        *)
(***************************************************************************)
EXTENDS Integers, Sequences

CONSTANTS
  N,              \* slots of keyboard_buffer, 256 in the code
  POLL_INTERVAL,  \* keyboard.c:6, 100000
  LEN,            \* bytes init asks sys_read for, 127
  DEVICE,         \* bytes the controller queues
  MaxKeys         \* bound: key events in a behaviour

ASSUME KeyboardAssumption ==
  /\ N \in Nat \ {0, 1}
  /\ POLL_INTERVAL \in Nat \ {0}
  /\ LEN \in Nat \ {0}
  /\ DEVICE \in Nat \ {0}
  /\ MaxKeys \in Nat

(* "none": a key release, or a key for which kbdus holds 0.  Key 0 is one  *)
(* that was hit before pic_remap.                                          *)
Byte   == [key : 0 .. MaxKeys, kind : {"char", "newline", "backspace", "none"}]
NoByte == [key |-> 0, kind |-> "none"]

VARIABLES
  output_buffer,    \* the controller's queue, read at port 0x60
  last_byte,        \* what the port returns when the queue is empty
  irr,              \* the PIC has latched a request on line 1
  keys,             \* how many key events there were
  keyboard_buffer, head, tail, poll_counter,
  reader,           \* where the task is
  buf,              \* the first `written' bytes of sys_read's buffer
  delivered,        \* history: all that keyboard_get_char returned
  dropped           \* history: characters the full ring refused

device == <<output_buffer, last_byte, irr, keys>>
ring   == <<keyboard_buffer, head, tail>>
vars   == <<device, ring, poll_counter, reader, buf, delivered, dropped>>

(* A key hit before pic_remap may be in the controller already, and the   *)
(* edge it made was lost when the PIC was initialised: keyboard_init reads *)
(* no port.                                                                *)
Init ==
  /\ output_buffer \in {<<>>} \cup {<<[key |-> 0, kind |-> k]>> : k \in {"char", "newline"}}
  /\ keys = 0
  /\ last_byte = NoByte
  /\ irr = FALSE
  /\ keyboard_buffer = [i \in 0 .. N - 1 |-> NoByte]
  /\ head = 0
  /\ tail = 0
  /\ poll_counter = 0
  /\ reader = "user"
  /\ buf = <<>>
  /\ delivered = <<>>
  /\ dropped = 0

-----------------------------------------------------------------------------
(* The controller raises line 1 when its queue becomes non-empty; the PIC  *)
(* latches the edge, whether the processor accepts interrupts or not.      *)
key_event(kind) ==
  /\ keys < MaxKeys
  /\ Len(output_buffer) < DEVICE
  /\ keys' = keys + 1
  /\ output_buffer' = Append(output_buffer, [key |-> keys', kind |-> kind])
  /\ irr' = (irr \/ output_buffer = <<>>)
  /\ UNCHANGED <<last_byte, ring, poll_counter, reader, buf, delivered, dropped>>

(* inb(KEYBOARD_DATA_PORT).  With more bytes queued the line falls and     *)
(* rises again, another edge.  Otherwise a request that was latched before *)
(* and not yet acknowledged stays or is withdrawn: PICs differ.            *)
port_byte == IF output_buffer = <<>> THEN last_byte ELSE Head(output_buffer)

inb_data(latched) ==
  /\ last_byte' = port_byte
  /\ output_buffer' = IF output_buffer = <<>> THEN <<>> ELSE Tail(output_buffer)
  /\ irr' \in IF output_buffer' # <<>> THEN {TRUE} ELSE {latched, FALSE}
  /\ UNCHANGED keys

(* Mutant: no test for a full ring. *)
put_NoFullTest(c) ==
  \/ c.kind = "none" /\ UNCHANGED <<ring, dropped>>
  \/ /\ c.kind # "none"
     /\ keyboard_buffer' = [keyboard_buffer EXCEPT ![head] = c]
     /\ head' = (head + 1) % N
     /\ UNCHANGED <<tail, dropped>>

(* A character goes into the ring unless that would make head meet tail. *)
put(c) ==
  LET next == (head + 1) % N IN
  \/ /\ c.kind = "none"
     /\ UNCHANGED <<ring, dropped>>
  \/ /\ c.kind # "none"
     /\ next # tail
     /\ keyboard_buffer' = [keyboard_buffer EXCEPT ![head] = c]
     /\ head' = next
     /\ UNCHANGED <<tail, dropped>>
  \/ /\ c.kind # "none"
     /\ next = tail
     /\ dropped' = dropped + 1
     /\ UNCHANGED ring

(* Mutant: with a full ring the handler returns before it reads the port. *)
keyboard_handler_FullFirst(latched) ==
  IF (head + 1) % N = tail
  THEN irr' = latched /\ UNCHANGED <<output_buffer, last_byte, keys, ring, dropped>>
  ELSE inb_data(latched) /\ put(port_byte)

keyboard_handler(latched) == inb_data(latched) /\ put(port_byte)

(* IRQ 1: acknowledged by the processor, handled, end of interrupt sent.   *)
(* The handler reads the port without looking at the status.               *)
irq1 ==
  /\ reader \in {"user", "gone"}
  /\ irr
  /\ keyboard_handler(FALSE)
  /\ UNCHANGED <<poll_counter, reader, buf, delivered>>

(* init's loop asks for a line. *)
sys_read ==
  /\ reader = "user"
  /\ reader' = "wait"
  /\ buf' = <<>>
  /\ UNCHANGED <<device, ring, poll_counter, delivered, dropped>>

(* Mutant: the port is read whatever the status says. *)
keyboard_poll_NoStatus ==
  /\ poll_counter' = (poll_counter + 1) % POLL_INTERVAL
  /\ IF poll_counter' = 0 THEN keyboard_handler(irr)
                          ELSE UNCHANGED <<device, ring, dropped>>

(* Mutant: the counter is not reset, and is compared with ==. *)
keyboard_poll_NoReset ==
  /\ poll_counter' = IF poll_counter < POLL_INTERVAL THEN poll_counter + 1
                                                     ELSE poll_counter
  /\ IF poll_counter = POLL_INTERVAL - 1 /\ output_buffer # <<>>
     THEN keyboard_handler(irr)
     ELSE UNCHANGED <<device, ring, dropped>>

(* Every POLL_INTERVAL-th call looks at the controller's status.  A byte   *)
(* read here leaves the request it raised with the PIC.                    *)
keyboard_poll ==
  /\ poll_counter' = IF poll_counter + 1 >= POLL_INTERVAL THEN 0
                                                          ELSE poll_counter + 1
  /\ IF poll_counter' = 0 /\ output_buffer # <<>>
     THEN keyboard_handler(irr)
     ELSE UNCHANGED <<device, ring, dropped>>

keyboard_has_char ==
  /\ reader = "wait"
  /\ keyboard_poll
  /\ reader' = IF head' # tail' THEN "take" ELSE "wait"
  /\ UNCHANGED <<buf, delivered>>

(* Mutant: only a full buffer ends the call. *)
edit_NoNewline(c) ==
  /\ buf' = IF c.kind # "backspace" THEN Append(buf, c)
            ELSE IF buf = <<>> THEN buf ELSE SubSeq(buf, 1, Len(buf) - 1)
  /\ reader' = IF Len(buf') = LEN THEN "user" ELSE "wait"

(* What sys_read does with a character: a backspace erases the last one of *)
(* the line if there is one; a newline, or a full buffer, ends the call.   *)
edit(c) ==
  /\ buf' = IF c.kind # "backspace" THEN Append(buf, c)
            ELSE IF buf = <<>> THEN buf ELSE SubSeq(buf, 1, Len(buf) - 1)
  /\ reader' = IF c.kind = "newline" \/ Len(buf') = LEN THEN "user" ELSE "wait"

(* The rest of keyboard_get_char, and one round of sys_read's loop. *)
keyboard_get_char ==
  LET c == keyboard_buffer[tail] IN
  /\ reader = "take"
  /\ tail' = (tail + 1) % N
  /\ delivered' = Append(delivered, c)
  /\ edit(c)
  /\ UNCHANGED <<device, keyboard_buffer, head, poll_counter, dropped>>

(* init's exit command: a line of its own ended by a newline.  The loop    *)
(* that follows calls the kernel no more.                                  *)
exit_command ==
  /\ reader = "user"
  /\ Len(buf) > 1
  /\ buf[Len(buf)].kind = "newline"
  /\ reader' = "gone"
  /\ UNCHANGED <<device, ring, poll_counter, buf, delivered, dropped>>

spin == reader = "gone" /\ UNCHANGED vars

Next ==
  \/ \E kind \in {"char", "newline", "backspace", "none"} : key_event(kind)
  \/ irq1 \/ sys_read \/ keyboard_has_char \/ keyboard_get_char \/ exit_command \/ spin

Spec == Init /\ [][Next]_vars

(* The processor goes on executing sys_read's loop, and takes the requests *)
(* of the PIC while interrupts are on.  Nobody has to hit a key, and init  *)
(* need not ask for another line.                                          *)
FairSpec ==
  Spec /\ WF_vars(irq1) /\ WF_vars(keyboard_has_char) /\ WF_vars(keyboard_get_char)

-----------------------------------------------------------------------------
(* Type invariant. *)
TypeOK ==
  /\ output_buffer \in Seq(Byte)
  /\ Len(output_buffer) <= DEVICE
  /\ last_byte \in Byte
  /\ irr \in BOOLEAN
  /\ keys \in 0 .. MaxKeys
  /\ keyboard_buffer \in [0 .. N - 1 -> Byte]
  /\ head \in 0 .. N - 1
  /\ tail \in 0 .. N - 1
  /\ poll_counter \in 0 .. POLL_INTERVAL - 1
  /\ reader \in {"user", "wait", "take", "gone"}
  /\ buf \in Seq(Byte)
  /\ delivered \in Seq(Byte)
  /\ dropped \in Nat

(* The characters in the ring, oldest first. *)
Contents ==
  [i \in 1 .. (head - tail) % N |-> keyboard_buffer[(tail + i - 1) % N]]

(* Refinement: the ring, its two indices and its two producers are a       *)
(* bounded FIFO of N - 1 characters, full and empty told apart.            *)
Fifo == INSTANCE BoundedFifo WITH
  Item <- Byte, Capacity <- N - 1, queue <- Contents

ImplementsFifo == Fifo!Spec

(* The characters the reader was given, those in the ring and those still  *)
(* in the controller come from key events in the order of the events, and  *)
(* one event yields two characters at most: the one that was polled, and   *)
(* the stale one the request it left behind makes irq1 read again.         *)
KeysInOrder ==
  LET all == delivered \o Contents \o output_buffer IN
  /\ \A i, j \in 1 .. Len(all) : i < j => all[i].key <= all[j].key
  /\ \A i, j \in 1 .. Len(all) : all[i].key = all[j].key => j <= i + 1

(* A byte in the controller has a request in the PIC, or else it is one    *)
(* from before pic_remap: reading by polling behind the back of the PIC    *)
(* loses no interrupt, and neither does a key hit while one is handled.    *)
RequestPending ==
  output_buffer # <<>> => irr \/ Head(output_buffer).key = 0

InController(k) == \E i \in 1 .. Len(output_buffer) : output_buffer[i].key = k

(* Liveness: every byte is read, by the handler when interrupts are on and *)
(* by polling while sys_read keeps them off, once no byte from before      *)
(* pic_remap keeps the line high; and that one, for which there will never *)
(* be an interrupt, is read by a waiting sys_read.                         *)
EveryByteIsRead ==
  /\ \A k \in 1 .. MaxKeys :
       (InController(k) /\ ~ InController(0)) ~> ~ InController(k)
  /\ (InController(0) /\ reader = "wait" /\ Contents = <<>>) ~> ~ InController(0)

(* Liveness: a newline that reached the ring ends a waiting sys_read. *)
NewlineEndsRead ==
  (reader \in {"wait", "take"} /\ \E i \in 1 .. Len(Contents) : Contents[i].kind = "newline")
    ~> reader = "user"
=============================================================================
