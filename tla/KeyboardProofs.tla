---------------------------- MODULE KeyboardProofs ----------------------------
(***************************************************************************)
(* Theorems about Keyboard for every ring size, every poll interval, every *)
(* line length and every number of key events.                             *)
(***************************************************************************)
EXTENDS Keyboard, SequenceTheorems, TLAPS

USE KeyboardAssumption

(* Remainders of the numbers the indices can reach, one turn either way. *)
LEMMA ModOneTurn ==
  ASSUME NEW n \in Nat \ {0}, NEW a \in Int, - n <= a, a < 2 * n
  PROVE  a % n = IF a < 0 THEN a + n ELSE IF a < n THEN a ELSE a - n
OBVIOUS

LEMMA ModN ==
  ASSUME NEW a \in - N .. 2 * N - 1
  PROVE  a % N = IF a < 0 THEN a + N ELSE IF a < N THEN a ELSE a - N
<1>1. N \in Nat \ {0}
  OBVIOUS
<1>2. a \in Int /\ - N <= a /\ a < 2 * N
  BY <1>1
<1>3. QED
  BY ONLY <1>1, <1>2, ModOneTurn

-----------------------------------------------------------------------------
(* Type correctness. *)
LEMMA InitTypes == Init => TypeOK
<1> SUFFICES ASSUME Init PROVE TypeOK
  OBVIOUS
<1>1. NoByte \in Byte /\ (\A k \in {"char", "newline"} : [key |-> 0, kind |-> k] \in Byte)
  BY DEF NoByte, Byte
<1>2. output_buffer \in Seq(Byte) /\ Len(output_buffer) <= DEVICE
  <2>1. CASE output_buffer = <<>>
    BY <2>1
  <2>2. CASE \E b \in Byte : output_buffer = <<b>>
    BY <2>2
  <2>3. QED
    BY <1>1, <2>1, <2>2 DEF Init
<1>3. keyboard_buffer \in [0 .. N - 1 -> Byte]
  BY <1>1 DEF Init
<1>4. 0 \in 0 .. N - 1 /\ 0 \in 0 .. POLL_INTERVAL - 1 /\ 0 \in 0 .. MaxKeys
  OBVIOUS
<1>5. buf \in Seq(Byte) /\ delivered \in Seq(Byte)
  BY DEF Init
<1>6. QED
  BY <1>1, <1>2, <1>3, <1>4, <1>5 DEF Init, TypeOK

(* Reading the port takes the oldest byte, or repeats the last one. *)
LEMMA InbTypes ==
  ASSUME TypeOK, NEW latched \in BOOLEAN, inb_data(latched)
  PROVE  /\ port_byte \in Byte
         /\ output_buffer' \in Seq(Byte)
         /\ Len(output_buffer') <= DEVICE
         /\ last_byte' \in Byte
         /\ irr' \in BOOLEAN
         /\ keys' \in 0 .. MaxKeys
<1>1. port_byte \in Byte
  BY DEF TypeOK, port_byte
<1>2. output_buffer' \in Seq(Byte) /\ Len(output_buffer') <= DEVICE
  <2>1. CASE output_buffer = <<>>
    BY <2>1 DEF TypeOK, inb_data
  <2>2. CASE output_buffer # <<>>
    BY <2>2 DEF TypeOK, inb_data
  <2>3. QED
    BY <2>1, <2>2
<1>3. QED
  BY <1>1, <1>2 DEF TypeOK, inb_data

(* The handler keeps the types of the ring. *)
LEMMA PutTypes ==
  ASSUME TypeOK, NEW c \in Byte, put(c)
  PROVE  /\ keyboard_buffer' \in [0 .. N - 1 -> Byte]
         /\ head' \in 0 .. N - 1
         /\ tail' \in 0 .. N - 1
         /\ dropped' \in Nat
<1>1. (head + 1) % N \in 0 .. N - 1
  BY DEF TypeOK
<1>2. QED
  BY <1>1 DEF TypeOK, put, ring

LEMMA HandlerTypes ==
  ASSUME TypeOK, NEW latched \in BOOLEAN, keyboard_handler(latched),
         poll_counter' \in 0 .. POLL_INTERVAL - 1,
         reader' \in {"user", "wait", "take", "gone"},
         UNCHANGED <<buf, delivered>>
  PROVE  TypeOK'
BY InbTypes, PutTypes DEF keyboard_handler, TypeOK

LEMMA NextTypes ==
  ASSUME TypeOK, [Next]_vars
  PROVE  TypeOK'
<1> USE DEF TypeOK
<1>1. CASE \E kind \in {"char", "newline", "backspace", "none"} : key_event(kind)
  <2>1. PICK kind \in {"char", "newline", "backspace", "none"} : key_event(kind)
    BY <1>1
  <2>2. [key |-> keys + 1, kind |-> kind] \in Byte /\ keys' = keys + 1
    BY <2>1 DEF key_event, Byte
  <2>3. output_buffer' \in Seq(Byte) /\ Len(output_buffer') <= DEVICE
    BY <2>1, <2>2 DEF key_event
  <2>4. QED
    BY <2>1, <2>2, <2>3 DEF key_event, ring
<1>2. CASE irq1
  BY <1>2, HandlerTypes DEF irq1
<1>3. CASE sys_read
  BY <1>3 DEF sys_read, device, ring
<1>4. CASE keyboard_has_char
  <2>1. reader' \in {"wait", "take"} /\ poll_counter' \in 0 .. POLL_INTERVAL - 1
    BY <1>4 DEF keyboard_has_char, keyboard_poll
  <2>2. CASE keyboard_handler(irr)
    BY <1>4, <2>1, <2>2, HandlerTypes DEF keyboard_has_char
  <2>3. CASE UNCHANGED <<device, ring, dropped>>
    BY <1>4, <2>1, <2>3 DEF keyboard_has_char, device, ring
  <2>4. QED
    BY <1>4, <2>2, <2>3 DEF keyboard_has_char, keyboard_poll
<1>5. CASE keyboard_get_char
  <2>1. keyboard_buffer[tail] \in Byte
    OBVIOUS
  <2>2. buf' \in Seq(Byte) /\ reader' \in {"user", "wait"}
    BY <1>5, <2>1 DEF keyboard_get_char, edit
  <2>3. delivered' \in Seq(Byte)
    BY <1>5, <2>1 DEF keyboard_get_char
  <2>4. (tail + 1) % N \in 0 .. N - 1
    OBVIOUS
  <2>5. QED
    BY <1>5, <2>2, <2>3, <2>4 DEF keyboard_get_char, device
<1>6. CASE exit_command
  BY <1>6 DEF exit_command, device, ring
<1>7. CASE UNCHANGED vars
  BY <1>7 DEF vars, device, ring
<1>8. QED
  BY <1>1, <1>2, <1>3, <1>4, <1>5, <1>6, <1>7 DEF Next, spin

(* Every variable of the input path keeps its type: the indices never      *)
(* leave the array, whatever the two producers and the reader do.          *)
THEOREM TypeCorrect == Spec => []TypeOK
<1>1. Init => TypeOK
  BY InitTypes
<1>2. TypeOK /\ [Next]_vars => TypeOK'
  BY NextTypes
<1>3. QED
  BY <1>1, <1>2, PTL DEF Spec

-----------------------------------------------------------------------------
(* The refinement.  With the next free cell h and the oldest character in  *)
(* cell t, how many characters the ring holds, and the cell of the i-th.   *)
Size(h, t) == IF t <= h THEN h - t ELSE h - t + N
Cell(t, i) == IF t + i - 1 < N THEN t + i - 1 ELSE t + i - 1 - N

LEMMA CellArithmetic ==
  ASSUME NEW h \in 0 .. N - 1, NEW t \in 0 .. N - 1
  PROVE  /\ Size(h, t) \in 0 .. N - 1
         /\ (h - t) % N = Size(h, t)
         /\ \A i \in 1 .. N : (t + i - 1) % N = Cell(t, i) /\ Cell(t, i) \in 0 .. N - 1
         /\ \A i \in 1 .. Size(h, t) : Cell(t, i) # h
         /\ Cell(t, Size(h, t) + 1) = h
<1> USE DEF Size, Cell
<1>0. N \in Nat /\ N >= 2
  OBVIOUS
<1>1. Size(h, t) \in 0 .. N - 1
  BY <1>0
<1>2. (h - t) % N = Size(h, t)
  <2>1. h - t \in - N .. 2 * N - 1
    BY <1>0
  <2>2. (h - t) % N = IF h - t < 0 THEN h - t + N ELSE IF h - t < N THEN h - t ELSE h - t - N
    BY <2>1, ModN
  <2>3. QED
    BY <1>0, <2>2
<1>3. ASSUME NEW i \in 1 .. N
      PROVE  (t + i - 1) % N = Cell(t, i) /\ Cell(t, i) \in 0 .. N - 1
  <2>1. t + i - 1 \in - N .. 2 * N - 1 /\ t + i - 1 >= 0
    BY <1>0
  <2>2. (t + i - 1) % N = IF t + i - 1 < 0 THEN t + i - 1 + N
                          ELSE IF t + i - 1 < N THEN t + i - 1 ELSE t + i - 1 - N
    BY <2>1, ModN
  <2>3. QED
    BY <1>0, <2>1, <2>2
<1>4. \A i \in 1 .. Size(h, t) : Cell(t, i) # h
  BY <1>0
<1>5. Cell(t, Size(h, t) + 1) = h
  BY <1>0
<1>6. QED
  BY <1>1, <1>2, <1>3, <1>4, <1>5

(* What one more character does to the size, and one fewer. *)
LEMMA NextIndex ==
  ASSUME NEW i \in 0 .. N - 1
  PROVE  /\ (i + 1) % N = IF i = N - 1 THEN 0 ELSE i + 1
         /\ (i + 1) % N \in 0 .. N - 1
<1>0. N \in Nat /\ N >= 2
  OBVIOUS
<1>1. i + 1 \in - N .. 2 * N - 1
  BY <1>0
<1>2. (i + 1) % N = IF i + 1 < 0 THEN i + 1 + N ELSE IF i + 1 < N THEN i + 1 ELSE i + 1 - N
  BY <1>1, ModN
<1>3. QED
  BY <1>0, <1>2

LEMMA OneMore ==
  ASSUME NEW h \in 0 .. N - 1, NEW t \in 0 .. N - 1
  PROVE  IF (h + 1) % N = t THEN Size(h, t) = N - 1
         ELSE Size((h + 1) % N, t) = Size(h, t) + 1 /\ Size(h, t) < N - 1
<1>1. (h + 1) % N = IF h = N - 1 THEN 0 ELSE h + 1
  BY NextIndex
<1>2. N \in Nat /\ N >= 2
  OBVIOUS
<1>3. QED
  BY <1>1, <1>2 DEF Size

LEMMA OneFewer ==
  ASSUME NEW h \in 0 .. N - 1, NEW t \in 0 .. N - 1, h # t
  PROVE  /\ Size(h, t) > 0
         /\ Size(h, (t + 1) % N) = Size(h, t) - 1
         /\ Cell(t, 1) = t
         /\ \A i \in 1 .. N - 1 : Cell((t + 1) % N, i) = Cell(t, i + 1)
<1>1. (t + 1) % N = IF t = N - 1 THEN 0 ELSE t + 1
  BY NextIndex
<1>2. N \in Nat /\ N >= 2
  OBVIOUS
<1>3. QED
  BY <1>1, <1>2 DEF Size, Cell

(* The abstract queue, with its remainders worked out: over constants,     *)
(* then for the state before and after a step.                             *)
LEMMA RemaindersWorkedOut ==
  ASSUME NEW h \in 0 .. N - 1, NEW t \in 0 .. N - 1,
         NEW b \in [0 .. N - 1 -> Byte]
  PROVE  LET q == [i \in 1 .. (h - t) % N |-> b[(t + i - 1) % N]] IN
         /\ q \in Seq(Byte)
         /\ Len(q) = Size(h, t)
         /\ \A i \in 1 .. Size(h, t) : q[i] = b[Cell(t, i)]
<1>0. PICK q : q = [i \in 1 .. (h - t) % N |-> b[(t + i - 1) % N]]
  OBVIOUS
<1>1. (h - t) % N = Size(h, t) /\ Size(h, t) \in 0 .. N - 1
  BY CellArithmetic
<1>2. ASSUME NEW i \in 1 .. Size(h, t)
      PROVE  /\ (t + i - 1) % N = Cell(t, i)
             /\ Cell(t, i) \in 0 .. N - 1
  <2>1. i \in 1 .. N
    BY <1>1
  <2>2. QED
    BY <2>1, CellArithmetic
<1>3. \A i \in 1 .. Size(h, t) : q[i] = b[Cell(t, i)] /\ q[i] \in Byte
  BY <1>0, <1>1, <1>2
<1>4. q \in [1 .. Size(h, t) -> Byte] /\ Size(h, t) \in Nat
  <2>1. q = [i \in 1 .. Size(h, t) |-> b[(t + i - 1) % N]]
    BY <1>0, <1>1, Zenon
  <2>2. \A i \in 1 .. Size(h, t) : b[(t + i - 1) % N] \in Byte
    BY <1>2
  <2>3. Size(h, t) \in Nat
    BY <1>1
  <2>4. QED
    BY ONLY <2>1, <2>2, <2>3, Zenon
<1>5. q \in Seq(Byte) /\ Len(q) = Size(h, t)
  <2>1. PICK n \in Nat : n = Size(h, t)
    BY <1>4
  <2>2. q \in [1 .. n -> Byte]
    BY <1>4, <2>1
  <2>3. q \in Seq(Byte)
    BY ONLY <2>2, n \in Nat, SeqDef
  <2>4. Len(q) = n
    BY ONLY <2>2, <2>3, n \in Nat, LenProperties
  <2>5. QED
    BY <2>1, <2>3, <2>4
<1>6. QED
  BY <1>0, <1>3, <1>5, Zenon

LEMMA ContentsIs ==
  ASSUME TypeOK
  PROVE  /\ Contents \in Seq(Byte)
         /\ Len(Contents) = Size(head, tail)
         /\ Size(head, tail) \in Nat
         /\ \A i \in 1 .. Size(head, tail) : Contents[i] = keyboard_buffer[Cell(tail, i)]
<1>1. /\ head \in 0 .. N - 1 /\ tail \in 0 .. N - 1
      /\ keyboard_buffer \in [0 .. N - 1 -> Byte]
  BY DEF TypeOK
<1>2. /\ Contents \in Seq(Byte)
      /\ Len(Contents) = Size(head, tail)
      /\ \A i \in 1 .. Size(head, tail) : Contents[i] = keyboard_buffer[Cell(tail, i)]
  BY <1>1, RemaindersWorkedOut, Zenon DEF Contents
<1>3. Size(head, tail) \in Nat
  <2>1. Size(head, tail) \in 0 .. N - 1
    BY <1>1, CellArithmetic
  <2>2. QED
    BY <2>1
<1>4. QED
  BY <1>2, <1>3

LEMMA ContentsAfter ==
  ASSUME TypeOK'
  PROVE  /\ Contents' \in Seq(Byte)
         /\ Len(Contents') = Size(head', tail')
         /\ \A i \in 1 .. Size(head', tail') : Contents'[i] = keyboard_buffer'[Cell(tail', i)]
<1>1. /\ head' \in 0 .. N - 1 /\ tail' \in 0 .. N - 1
      /\ keyboard_buffer' \in [0 .. N - 1 -> Byte]
  BY DEF TypeOK
<1>2. QED
  BY <1>1, RemaindersWorkedOut, Zenon DEF Contents

(* A character that goes in goes last. *)
LEMMA PutAppends ==
  ASSUME TypeOK, TypeOK', NEW c \in Byte,
         (head + 1) % N # tail,
         keyboard_buffer' = [keyboard_buffer EXCEPT ![head] = c],
         head' = (head + 1) % N,
         tail' = tail
  PROVE  Contents' = Append(Contents, c) /\ Len(Contents) < N - 1
<1>0. head \in 0 .. N - 1 /\ tail \in 0 .. N - 1
  BY DEF TypeOK
<1>1. Size(head', tail') = Size(head, tail) + 1 /\ Size(head, tail) < N - 1
  BY <1>0, OneMore
<1>2. Len(Contents') = Len(Contents) + 1
  BY <1>1, ContentsIs, ContentsAfter
<1>3. ASSUME NEW i \in 1 .. Len(Contents)
      PROVE  Contents'[i] = Contents[i]
  <2>1. i \in 1 .. Size(head, tail) /\ i \in 1 .. Size(head', tail') /\ i \in 1 .. N
    BY <1>1, ContentsIs
  <2>2. Cell(tail, i) # head /\ Cell(tail, i) \in 0 .. N - 1
    BY <1>0, <2>1, CellArithmetic
  <2>3. keyboard_buffer'[Cell(tail, i)] = keyboard_buffer[Cell(tail, i)]
    BY <2>2 DEF TypeOK
  <2>4. QED
    BY <2>1, <2>3, ContentsIs, ContentsAfter
<1>4. Contents'[Len(Contents) + 1] = c
  <2>1. Cell(tail, Size(head, tail) + 1) = head
    BY <1>0, CellArithmetic
  <2>2. Size(head, tail) + 1 \in 1 .. Size(head', tail')
    BY <1>1, ContentsIs
  <2>3. keyboard_buffer'[head] = c
    BY DEF TypeOK
  <2>4. QED
    BY <2>1, <2>2, <2>3, ContentsIs, ContentsAfter
<1>5. Contents' = Append(Contents, c)
  BY <1>2, <1>3, <1>4, ContentsIs, ContentsAfter, AppendProperties, SeqEqual
<1>6. QED
  BY <1>1, <1>5, ContentsIs

(* Nothing else the handler does changes what the ring holds. *)
LEMMA PutEffect ==
  ASSUME TypeOK, TypeOK', NEW c \in Byte, put(c)
  PROVE  \/ Contents' = Contents
         \/ c.kind # "none" /\ Contents' = Append(Contents, c)
<1>1. UNCHANGED ring => Contents' = Contents
  BY DEF ring, Contents
<1>2. QED
  BY <1>1, PutAppends DEF put

(* It is refused only by N - 1 others. *)
LEMMA PutRefines ==
  ASSUME TypeOK, TypeOK', NEW c \in Byte, put(c), UNCHANGED delivered
  PROVE  [Fifo!Next]_(Fifo!vars)
<1>0. head \in 0 .. N - 1 /\ tail \in 0 .. N - 1
  BY DEF TypeOK
<1>2. CASE c.kind = "none" /\ UNCHANGED <<ring, dropped>>
  BY <1>2 DEF ring, Fifo!vars, Contents
<1>3. CASE /\ (head + 1) % N # tail
           /\ keyboard_buffer' = [keyboard_buffer EXCEPT ![head] = c]
           /\ head' = (head + 1) % N
           /\ UNCHANGED <<tail, dropped>>
  <2>1. Contents' = Append(Contents, c) /\ Len(Contents) < N - 1
    BY <1>3, PutAppends
  <2>2. Fifo!Put(c)
    BY <1>3, <2>1 DEF Fifo!Put
  <2>3. QED
    BY <2>2 DEF Fifo!Next
<1>4. CASE (head + 1) % N = tail /\ dropped' = dropped + 1 /\ UNCHANGED ring
  <2>1. Len(Contents) = N - 1
    BY <1>0, <1>4, OneMore, ContentsIs
  <2>2. Fifo!Lose
    BY <1>4, <2>1 DEF Fifo!Lose, ring, Contents
  <2>3. QED
    BY <2>2 DEF Fifo!Next
<1>5. QED
  BY <1>2, <1>3, <1>4 DEF put

(* The reader gets the oldest character. *)
LEMMA GetRefines ==
  ASSUME TypeOK, TypeOK', keyboard_get_char, head # tail
  PROVE  Fifo!Get
<1>0. head \in 0 .. N - 1 /\ tail \in 0 .. N - 1
  BY DEF TypeOK
<1>1. /\ Size(head, tail) > 0
      /\ Size(head, (tail + 1) % N) = Size(head, tail) - 1
      /\ Cell(tail, 1) = tail
      /\ \A i \in 1 .. N - 1 : Cell((tail + 1) % N, i) = Cell(tail, i + 1)
  BY <1>0, OneFewer
<1>2. /\ tail' = (tail + 1) % N /\ head' = head
      /\ keyboard_buffer' = keyboard_buffer /\ dropped' = dropped
      /\ delivered' = Append(delivered, keyboard_buffer[tail])
  BY DEF keyboard_get_char
<1>3. Contents # <<>> /\ Head(Contents) = keyboard_buffer[tail]
  <2>1. Len(Contents) > 0 /\ Contents[1] = keyboard_buffer[tail]
    BY <1>1, ContentsIs
  <2>2. QED
    BY <2>1, ContentsIs
<1>4. Contents' = Tail(Contents)
  <2>1. Len(Contents') = Len(Contents) - 1
    BY <1>1, <1>2, ContentsIs, ContentsAfter
  <2>2. ASSUME NEW i \in 1 .. Len(Contents) - 1
        PROVE  Contents'[i] = Contents[i + 1]
    <3>1. /\ i \in 1 .. Size(head', tail')
          /\ i + 1 \in 1 .. Size(head, tail)
      BY <1>1, <1>2, <2>1, ContentsIs, ContentsAfter
    <3>2. i \in 1 .. N - 1
      <4>1. Size(head, tail) \in 0 .. N - 1
        BY <1>0, CellArithmetic
      <4>2. QED
        BY <3>1, <4>1
    <3>3. QED
      BY <1>1, <1>2, <3>1, <3>2, ContentsIs, ContentsAfter
  <2>3. QED
    BY <1>3, <2>1, <2>2, ContentsIs, ContentsAfter, HeadTailProperties, SeqEqual
<1>5. QED
  BY <1>2, <1>3, <1>4 DEF Fifo!Get

(* "take" means that keyboard_has_char saw a character. *)
TakeHasChar == reader = "take" => head # tail

LEMMA NextTakes ==
  ASSUME TypeOK, TakeHasChar, [Next]_vars
  PROVE  TakeHasChar'
<1> USE DEF TakeHasChar
<1>1. CASE \E kind \in {"char", "newline", "backspace", "none"} : key_event(kind)
  BY <1>1 DEF key_event, ring
<1>2. CASE irq1
  BY <1>2 DEF irq1
<1>3. CASE sys_read
  BY <1>3 DEF sys_read
<1>4. CASE keyboard_has_char
  BY <1>4 DEF keyboard_has_char
<1>5. CASE keyboard_get_char
  BY <1>5 DEF keyboard_get_char, edit
<1>6. CASE exit_command
  BY <1>6 DEF exit_command
<1>7. CASE UNCHANGED vars
  BY <1>7 DEF vars, ring
<1>8. QED
  BY <1>1, <1>2, <1>3, <1>4, <1>5, <1>6, <1>7 DEF Next, spin

(* The handler, called from either side, is a step of the queue. *)
LEMMA HandlerRefines ==
  ASSUME TypeOK, TypeOK', NEW latched \in BOOLEAN, keyboard_handler(latched),
         UNCHANGED delivered
  PROVE  [Fifo!Next]_(Fifo!vars)
BY InbTypes, PutRefines DEF keyboard_handler

LEMMA NextRefines ==
  ASSUME TypeOK, TypeOK', TakeHasChar, [Next]_vars
  PROVE  [Fifo!Next]_(Fifo!vars)
<1>0. UNCHANGED <<ring, delivered, dropped>> => UNCHANGED Fifo!vars
  BY DEF ring, Fifo!vars, Contents
<1>1. CASE \E kind \in {"char", "newline", "backspace", "none"} : key_event(kind)
  BY <1>0, <1>1 DEF key_event
<1>2. CASE irq1
  BY <1>2, HandlerRefines DEF irq1
<1>3. CASE sys_read
  BY <1>0, <1>3 DEF sys_read
<1>4. CASE keyboard_has_char
  <2>1. CASE keyboard_handler(irr)
    BY <1>4, <2>1, HandlerRefines DEF keyboard_has_char, TypeOK
  <2>2. CASE UNCHANGED <<device, ring, dropped>>
    BY <1>0, <1>4, <2>2 DEF keyboard_has_char
  <2>3. QED
    BY <1>4, <2>1, <2>2 DEF keyboard_has_char, keyboard_poll
<1>5. CASE keyboard_get_char
  <2>1. head # tail
    BY <1>5 DEF keyboard_get_char, TakeHasChar
  <2>2. QED
    BY <1>5, <2>1, GetRefines DEF Fifo!Next
<1>6. CASE exit_command
  BY <1>0, <1>6 DEF exit_command
<1>7. CASE UNCHANGED vars
  BY <1>0, <1>7 DEF vars
<1>8. QED
  BY <1>1, <1>2, <1>3, <1>4, <1>5, <1>6, <1>7 DEF Next, spin

(* The driver implements a bounded FIFO: whichever of interrupt and poll   *)
(* reads the bytes, wrapping included, characters are neither lost below   *)
(* N - 1 of them, nor overwritten, nor handed out twice or out of order.   *)
THEOREM Refinement == Spec => ImplementsFifo
<1>1. Init => TypeOK /\ TakeHasChar /\ Fifo!Init
  <2> SUFFICES ASSUME Init PROVE TypeOK /\ TakeHasChar /\ Fifo!Init
    OBVIOUS
  <2>1. TypeOK /\ TakeHasChar
    BY InitTypes DEF Init, TakeHasChar
  <2>2. Contents = <<>>
    <3>1. Size(head, tail) = 0
      BY DEF Init, Size
    <3>2. QED
      BY <2>1, <3>1, ContentsIs
  <2>3. QED
    BY <2>1, <2>2 DEF Init, Fifo!Init
<1>2. TypeOK /\ TakeHasChar /\ [Next]_vars => TypeOK' /\ TakeHasChar'
  BY NextTypes, NextTakes
<1>3. TypeOK /\ TypeOK' /\ TakeHasChar /\ [Next]_vars => [Fifo!Next]_(Fifo!vars)
  BY NextRefines
<1>4. QED
  BY <1>1, <1>2, <1>3, PTL DEF Spec, ImplementsFifo, Fifo!Spec

-----------------------------------------------------------------------------
(* Reading a port, by the handler or by polling, leaves a request whenever *)
(* it leaves a byte.                                                       *)
LEMMA HandlerLeavesRequest ==
  ASSUME TypeOK, RequestPending, NEW latched \in BOOLEAN, keyboard_handler(latched)
  PROVE  RequestPending'
BY DEF keyboard_handler, inb_data, RequestPending

LEMMA NextKeepsRequest ==
  ASSUME TypeOK, RequestPending, [Next]_vars
  PROVE  RequestPending'
<1>1. CASE \E kind \in {"char", "newline", "backspace", "none"} : key_event(kind)
  <2>1. PICK kind : key_event(kind)
    BY <1>1
  <2>2. CASE output_buffer = <<>>
    BY <2>1, <2>2 DEF key_event, RequestPending
  <2>3. CASE output_buffer # <<>>
    <3>1. irr' = irr /\ Head(output_buffer') = Head(output_buffer)
      BY <2>1, <2>3 DEF key_event, TypeOK
    <3>2. QED
      BY <2>3, <3>1 DEF RequestPending
  <2>4. QED
    BY <2>2, <2>3
<1>2. CASE irq1
  BY <1>2, HandlerLeavesRequest DEF irq1
<1>3. CASE keyboard_has_char
  <2>1. CASE keyboard_handler(irr)
    BY <2>1, HandlerLeavesRequest DEF TypeOK
  <2>2. CASE UNCHANGED <<device, ring, dropped>>
    BY <2>2 DEF device, RequestPending
  <2>3. QED
    BY <1>3, <2>1, <2>2 DEF keyboard_has_char, keyboard_poll
<1>4. CASE UNCHANGED device
  BY <1>4 DEF device, RequestPending
<1>5. QED
  BY <1>1, <1>2, <1>3, <1>4
     DEF Next, spin, sys_read, keyboard_get_char, exit_command, vars

(* A byte that waits in the controller has its interrupt requested, unless *)
(* it waits since before the PIC was initialised.                          *)
THEOREM NoInterruptLost == Spec => []RequestPending
<1>1. Init => TypeOK /\ RequestPending
  <2>1. Init => RequestPending
    BY DEF Init, RequestPending
  <2>2. QED
    BY <2>1, InitTypes
<1>2. TypeOK /\ RequestPending /\ [Next]_vars => TypeOK' /\ RequestPending'
  BY NextTypes, NextKeepsRequest
<1>3. QED
  BY <1>1, <1>2, PTL DEF Spec
-----------------------------------------------------------------------------
(* The order of the keys.  Read is what has been taken from the controller *)
(* and kept: what the reader was given, and what the ring still holds.     *)
Read == delivered \o Contents

Ascending(q) == \A i, j \in 1 .. Len(q) : i < j => q[i].key <= q[j].key
InPairs(q)   == \A i, j \in 1 .. Len(q) : q[i].key = q[j].key => j <= i + 1
Rising(q)    == \A i, j \in 1 .. Len(q) : i < j => q[i].key < q[j].key

(* What the port returns when the queue is empty is the newest key read.   *)
PortIsNewest ==
  /\ last_byte.key <= keys
  /\ \A i \in 1 .. Len(Read) : Read[i].key <= last_byte.key

(* The controller has newer keys only; at first the port returns no key.   *)
DeviceIsNewer ==
  /\ Rising(output_buffer)
  /\ \A i \in 1 .. Len(output_buffer) :
       /\ output_buffer[i].key <= keys
       /\ last_byte.key < output_buffer[i].key \/ last_byte = NoByte
  /\ last_byte = NoByte => Read = <<>>

(* A request with nothing to read repeats a key that was read once.        *)
StaleOnce ==
  irr /\ output_buffer = <<>> =>
    \A i, j \in 1 .. Len(Read) :
      Read[i].key = last_byte.key /\ Read[j].key = last_byte.key => i = j

OrderInv ==
  /\ Ascending(Read)
  /\ InPairs(Read)
  /\ PortIsNewest
  /\ DeviceIsNewer
  /\ StaleOnce

LEMMA KeyIsNumber == \A b \in Byte : b.key \in Nat
BY DEF Byte

(* One more key that is not older than those before, and as old as one of *)
(* them at most. *)
LEMMA AppendInOrder ==
  ASSUME NEW q \in Seq(Byte), NEW b \in Byte,
         Ascending(q), InPairs(q),
         \A i \in 1 .. Len(q) : q[i].key <= b.key,
         \A i, j \in 1 .. Len(q) : q[i].key = b.key /\ q[j].key = b.key => i = j
  PROVE  Ascending(Append(q, b)) /\ InPairs(Append(q, b))
<1> DEFINE n == Len(q)
           r == Append(q, b)
<1>1. /\ n \in Nat
      /\ Len(r) = n + 1
      /\ r[n + 1] = b
      /\ \A i \in 1 .. n : r[i] = q[i]
  BY AppendProperties
<1>2. b.key \in Nat /\ \A i \in 1 .. n : q[i].key \in Nat
  BY KeyIsNumber
<1> HIDE DEF n, r
<1>3. \A i \in 1 .. n : q[i].key <= b.key
  BY DEF n
<1>4. Ascending(r)
  <2>1. SUFFICES ASSUME NEW i \in 1 .. n + 1, NEW j \in 1 .. n + 1, i < j
                 PROVE  r[i].key <= r[j].key
    BY <1>1 DEF Ascending
  <2>2. CASE j = n + 1
    BY <1>1, <1>3, <2>1, <2>2
  <2>3. CASE j # n + 1
    BY <1>1, <2>1, <2>3 DEF Ascending, n
  <2>4. QED
    BY <2>2, <2>3
<1>5. InPairs(r)
  <2>1. SUFFICES ASSUME NEW i \in 1 .. n + 1, NEW j \in 1 .. n + 1, r[i].key = r[j].key
                 PROVE  j <= i + 1
    BY <1>1 DEF InPairs
  <2>2. CASE i <= n /\ j <= n
    BY <1>1, <2>1, <2>2 DEF InPairs, n
  <2>3. CASE i <= n /\ j = n + 1
    <3>1. q[i].key = b.key /\ q[n].key <= b.key /\ (i < n => q[i].key <= q[n].key)
      BY <1>1, <1>3, <2>1, <2>3 DEF Ascending, n
    <3>2. i < n => q[n].key = b.key
      BY <1>1, <1>2, <2>3, <3>1
    <3>3. i < n => i = n
      BY <1>1, <2>3, <3>1, <3>2 DEF n
    <3>4. QED
      BY <1>1, <2>3, <3>3
  <2>4. CASE i = n + 1
    BY <1>1, <2>4
  <2>5. QED
    BY <1>1, <2>2, <2>3, <2>4
<1>6. QED
  BY <1>4, <1>5 DEF r

LEMMA ConcatOfAppend ==
  ASSUME NEW d \in Seq(Byte), NEW q \in Seq(Byte), NEW c \in Byte
  PROVE  d \o Append(q, c) = Append(d \o q, c)
<1>1. <<c>> \in Seq(Byte) /\ d \o q \in Seq(Byte)
  BY ConcatProperties
<1>2. Append(q, c) = q \o <<c>> /\ Append(d \o q, c) = (d \o q) \o <<c>>
  BY <1>1, AppendIsConcat
<1>3. QED
  BY <1>1, <1>2, ConcatAssociative

(* The head of the second of two sequences can move to the first. *)
LEMMA HeadMoves ==
  ASSUME NEW d \in Seq(Byte), NEW q \in Seq(Byte), q # <<>>
  PROVE  Append(d, Head(q)) \o Tail(q) = d \o q
<1> DEFINE r == Append(d, Head(q))
           t == Tail(q)
<1>0. Len(d) \in Nat /\ Len(q) \in Nat
  BY LenProperties
<1>1. Head(q) \in Byte /\ Head(q) = q[1] /\ Len(q) > 0
  OBVIOUS
<1>2. /\ r \in Seq(Byte) /\ Len(r) = Len(d) + 1 /\ r[Len(d) + 1] = q[1]
      /\ \A i \in 1 .. Len(d) : r[i] = d[i]
  BY <1>1, AppendProperties
<1>3. /\ t \in Seq(Byte) /\ Len(t) = Len(q) - 1
      /\ \A i \in 1 .. Len(q) - 1 : t[i] = q[i + 1]
  BY <1>1, HeadTailProperties
<1> HIDE DEF r, t
<1>4. /\ r \o t \in Seq(Byte) /\ Len(r \o t) = Len(d) + Len(q)
      /\ \A i \in 1 .. Len(d) + Len(q) :
           (r \o t)[i] = IF i <= Len(d) + 1 THEN r[i] ELSE t[i - (Len(d) + 1)]
  <2>1. Len(r) + Len(t) = Len(d) + Len(q)
    BY <1>0, <1>2, <1>3
  <2>2. /\ r \o t \in Seq(Byte) /\ Len(r \o t) = Len(r) + Len(t)
        /\ \A i \in 1 .. Len(r) + Len(t) :
             (r \o t)[i] = IF i <= Len(r) THEN r[i] ELSE t[i - Len(r)]
    BY <1>2, <1>3, ConcatProperties
  <2>3. Len(r) = Len(d) + 1
    BY <1>2
  <2>4. QED
    BY ONLY <2>1, <2>2, <2>3, Zenon
<1>5. /\ d \o q \in Seq(Byte) /\ Len(d \o q) = Len(d) + Len(q)
      /\ \A i \in 1 .. Len(d) + Len(q) :
           (d \o q)[i] = IF i <= Len(d) THEN d[i] ELSE q[i - Len(d)]
  BY ConcatProperties
<1>6. ASSUME NEW i \in 1 .. Len(d) + Len(q)
      PROVE  (r \o t)[i] = (d \o q)[i]
  <2>1. CASE i <= Len(d)
    BY <1>2, <1>4, <1>5, <2>1
  <2>2. CASE i = Len(d) + 1
    BY <1>2, <1>4, <1>5, <2>2
  <2>3. CASE i > Len(d) + 1
    <3>1. i - (Len(d) + 1) \in 1 .. Len(q) - 1 /\ (i - (Len(d) + 1)) + 1 = i - Len(d)
      BY <1>0, <2>3
    <3>2. t[i - (Len(d) + 1)] = q[i - Len(d)]
      <4>1. \A k \in 1 .. Len(q) - 1 : t[k] = q[k + 1]
        BY <1>3
      <4>2. t[i - (Len(d) + 1)] = q[(i - (Len(d) + 1)) + 1]
        BY <3>1, <4>1
      <4>3. QED
        BY <3>1, <4>2
    <3>3. QED
      BY <1>4, <1>5, <2>3, <3>2
  <2>4. i <= Len(d) \/ i = Len(d) + 1 \/ i > Len(d) + 1
    BY <1>0
  <2>5. QED
    BY <2>1, <2>2, <2>3, <2>4, Zenon
<1>7. QED
  BY <1>4, <1>5, <1>6, SeqEqual DEF r, t

LEMMA ReadIs ==
  ASSUME TypeOK
  PROVE  Read \in Seq(Byte) /\ Len(Read) \in Nat /\ \A i \in 1 .. Len(Read) : Read[i] \in Byte
BY ContentsIs, ConcatProperties DEF Read, TypeOK

(* Only the handler changes what has been read: it may add the byte of the *)
(* port.                                                                   *)
LEMMA PutReads ==
  ASSUME TypeOK, TypeOK', NEW c \in Byte, put(c), UNCHANGED delivered
  PROVE  Read' = Read \/ (c.kind # "none" /\ Read' = Append(Read, c))
<1>1. CASE Contents' = Contents
  BY <1>1 DEF Read
<1>2. CASE c.kind # "none" /\ Contents' = Append(Contents, c)
  <2>1. delivered \o Append(Contents, c) = Append(delivered \o Contents, c)
    BY ContentsIs, ConcatOfAppend DEF TypeOK
  <2>2. QED
    BY <1>2, <2>1 DEF Read
<1>3. QED
  BY <1>1, <1>2, PutEffect

LEMMA GetReads ==
  ASSUME TypeOK, TypeOK', TakeHasChar, keyboard_get_char
  PROVE  Read' = Read
<1>1. Fifo!Get
  BY GetRefines DEF keyboard_get_char, TakeHasChar
<1>2. /\ Contents \in Seq(Byte) /\ Contents # <<>>
      /\ delivered' = Append(delivered, Head(Contents))
      /\ Contents' = Tail(Contents)
  BY <1>1, ContentsIs DEF Fifo!Get
<1>3. Append(delivered, Head(Contents)) \o Tail(Contents) = delivered \o Contents
  BY <1>2, HeadMoves DEF TypeOK
<1>4. QED
  BY <1>2, <1>3 DEF Read

(* A byte is read: the oldest of the queue, or when there is none the last *)
(* one again, and then only because of a request that is gone afterwards.  *)
LEMMA HandlerInOrder ==
  ASSUME TypeOK, TypeOK', OrderInv, NEW latched \in BOOLEAN,
         keyboard_handler(latched), UNCHANGED delivered,
         output_buffer = <<>> => irr /\ ~ latched
  PROVE  OrderInv'
<1> DEFINE c == port_byte
<1>1. c \in Byte /\ c.key \in Nat /\ last_byte' = c
  BY InbTypes, KeyIsNumber DEF keyboard_handler, inb_data
<1>2. keys' = keys /\ keys \in Nat /\ last_byte.key \in Nat
  BY KeyIsNumber DEF keyboard_handler, inb_data, TypeOK
<1>3. Read' = Read \/ (c.kind # "none" /\ Read' = Append(Read, c))
  BY <1>1, PutReads DEF keyboard_handler
<1>4. /\ Read \in Seq(Byte) /\ Len(Read) \in Nat
      /\ \A i \in 1 .. Len(Read) : Read[i] \in Byte /\ Read[i].key \in Nat
  BY ReadIs, KeyIsNumber
<1>5. CASE output_buffer = <<>>
  <2>1. c = last_byte /\ output_buffer' = <<>> /\ irr /\ ~ irr'
    BY <1>5 DEF keyboard_handler, inb_data, port_byte
  <2>2. Ascending(Read') /\ InPairs(Read')
    <3>1. CASE Read' = Read
      BY <3>1 DEF OrderInv
    <3>2. CASE Read' = Append(Read, c)
      <4>1. \A i \in 1 .. Len(Read) : Read[i].key <= c.key
        BY <2>1 DEF OrderInv, PortIsNewest
      <4>2. \A i, j \in 1 .. Len(Read) : Read[i].key = c.key /\ Read[j].key = c.key => i = j
        BY <1>5, <2>1 DEF OrderInv, StaleOnce
      <4>3. QED
        BY <1>1, <1>4, <3>2, <4>1, <4>2, AppendInOrder DEF OrderInv
    <3>3. QED
      BY <1>3, <3>1, <3>2
  <2>3. PortIsNewest'
    <3>1. CASE Read' = Read
      BY <1>1, <1>2, <2>1, <3>1 DEF OrderInv, PortIsNewest
    <3>2. CASE Read' = Append(Read, c)
      BY <1>1, <1>2, <1>4, <2>1, <3>2, AppendProperties DEF OrderInv, PortIsNewest
    <3>3. QED
      BY <1>3, <3>1, <3>2
  <2>4. DeviceIsNewer'
    <3>1. last_byte' = NoByte => Read' = <<>>
      BY <1>1, <1>3, <2>1 DEF OrderInv, DeviceIsNewer, NoByte
    <3>2. QED
      BY <2>1, <3>1 DEF DeviceIsNewer, Rising
  <2>5. QED
    BY <2>1, <2>2, <2>3, <2>4 DEF OrderInv, StaleOnce
<1>6. CASE output_buffer # <<>>
  <2>1. /\ c = output_buffer[1]
        /\ output_buffer' = Tail(output_buffer)
        /\ output_buffer \in Seq(Byte)
        /\ 1 \in 1 .. Len(output_buffer)
    BY <1>6 DEF keyboard_handler, inb_data, port_byte, TypeOK
  <2>2. /\ Len(output_buffer') = Len(output_buffer) - 1
        /\ \A i \in 1 .. Len(output_buffer') :
             /\ output_buffer'[i] = output_buffer[i + 1]
             /\ i + 1 \in 1 .. Len(output_buffer)
    BY <1>6, <2>1, HeadTailProperties
  <2>3. c.key <= keys /\ (last_byte.key < c.key \/ Read = <<>>)
    BY <2>1 DEF OrderInv, DeviceIsNewer
  <2>4. \A i \in 1 .. Len(Read) : Read[i].key < c.key
    BY <1>1, <1>2, <1>4, <2>3 DEF OrderInv, PortIsNewest
  <2>5. Ascending(Read') /\ InPairs(Read')
    <3>1. CASE Read' = Read
      BY <3>1 DEF OrderInv
    <3>2. CASE Read' = Append(Read, c)
      <4>1. \A i \in 1 .. Len(Read) : Read[i].key <= c.key /\ Read[i].key # c.key
        BY <1>1, <1>4, <2>4
      <4>2. QED
        BY <1>1, <1>4, <3>2, <4>1, AppendInOrder DEF OrderInv
    <3>3. QED
      BY <1>3, <3>1, <3>2
  <2>6. PortIsNewest'
    <3>1. CASE Read' = Read
      BY <1>1, <1>2, <1>4, <2>3, <2>4, <3>1 DEF PortIsNewest
    <3>2. CASE Read' = Append(Read, c)
      BY <1>1, <1>2, <1>4, <2>3, <2>4, <3>2, AppendProperties DEF PortIsNewest
    <3>3. QED
      BY <1>3, <3>1, <3>2
  <2>7. DeviceIsNewer'
    <3>1. Rising(output_buffer')
      BY <2>1, <2>2 DEF OrderInv, DeviceIsNewer, Rising
    <3>2. ASSUME NEW i \in 1 .. Len(output_buffer')
          PROVE  /\ output_buffer'[i].key <= keys'
                 /\ last_byte'.key < output_buffer'[i].key
      <4>1. i + 1 \in 1 .. Len(output_buffer) /\ output_buffer'[i] = output_buffer[i + 1]
        BY <2>2
      <4>2. output_buffer[1].key < output_buffer[i + 1].key
        BY <2>1, <4>1 DEF OrderInv, DeviceIsNewer, Rising
      <4>3. QED
        BY <1>1, <1>2, <2>1, <4>1, <4>2 DEF OrderInv, DeviceIsNewer
    <3>3. last_byte' = NoByte => Read' = <<>>
      <4>1. last_byte' = NoByte => Read' = Read /\ ~ (last_byte.key < c.key)
        BY <1>1, <1>2, <1>3 DEF NoByte
      <4>2. QED
        BY <2>3, <4>1
    <3>4. QED
      BY <3>1, <3>2, <3>3 DEF DeviceIsNewer
  <2>8. StaleOnce'
    <3>1. SUFFICES ASSUME NEW i \in 1 .. Len(Read'), NEW j \in 1 .. Len(Read'),
                          Read'[i].key = c.key, Read'[j].key = c.key
                   PROVE  i = j
      BY <1>1 DEF StaleOnce
    <3>2. CASE Read' = Read
      BY <1>1, <1>4, <2>4, <3>1, <3>2
    <3>3. CASE Read' = Append(Read, c)
      BY <1>1, <1>4, <2>4, <3>1, <3>3, AppendProperties
    <3>4. QED
      BY <1>3, <3>2, <3>3
  <2>9. QED
    BY <2>5, <2>6, <2>7, <2>8 DEF OrderInv
<1>7. QED
  BY <1>5, <1>6

LEMMA NextInOrder ==
  ASSUME TypeOK, TypeOK', TakeHasChar, OrderInv, [Next]_vars
  PROVE  OrderInv'
<1>0. UNCHANGED <<ring, delivered>> => Read' = Read
  BY DEF Read, ring, Contents
<1>1. CASE \E kind \in {"char", "newline", "backspace", "none"} : key_event(kind)
  <2>1. PICK kind \in {"char", "newline", "backspace", "none"} : key_event(kind)
    BY <1>1
  <2> DEFINE b == [key |-> keys + 1, kind |-> kind]
             n == Len(output_buffer)
  <2>2. /\ Read' = Read /\ last_byte' = last_byte /\ keys' = keys + 1
        /\ keys \in Nat /\ n \in Nat /\ last_byte.key \in Nat
        /\ output_buffer \in Seq(Byte)
    BY <1>0, <2>1, KeyIsNumber DEF key_event, TypeOK
  <2>3. b \in Byte /\ b.key = keys + 1
    BY <2>1 DEF key_event, Byte, TypeOK
  <2>4. output_buffer' = Append(output_buffer, b)
    BY <2>1 DEF key_event
  <2>5. /\ Len(output_buffer') = n + 1 /\ output_buffer'[n + 1] = b
        /\ \A i \in 1 .. n : output_buffer'[i] = output_buffer[i]
        /\ \A i \in 1 .. n : output_buffer[i].key \in Nat
    BY <2>2, <2>3, <2>4, AppendProperties, KeyIsNumber
  <2> HIDE DEF b, n
  <2>6. /\ \A i \in 1 .. n : output_buffer[i].key <= keys
        /\ \A i \in 1 .. n : last_byte.key < output_buffer[i].key \/ last_byte = NoByte
        /\ last_byte.key <= keys
    BY DEF OrderInv, DeviceIsNewer, PortIsNewest, n
  <2>7. Rising(output_buffer')
    <3>1. SUFFICES ASSUME NEW i \in 1 .. n + 1, NEW j \in 1 .. n + 1, i < j
                   PROVE  output_buffer'[i].key < output_buffer'[j].key
      BY <2>5 DEF Rising
    <3>2. CASE j = n + 1
      BY <2>2, <2>3, <2>5, <2>6, <3>1, <3>2
    <3>3. CASE j # n + 1
      BY <2>2, <2>5, <3>1, <3>3 DEF OrderInv, DeviceIsNewer, Rising, n
    <3>4. QED
      BY <3>2, <3>3
  <2>8. DeviceIsNewer'
    <3>1. ASSUME NEW i \in 1 .. n + 1
          PROVE  /\ output_buffer'[i].key <= keys + 1
                 /\ last_byte.key < output_buffer'[i].key \/ last_byte = NoByte
      <4>1. CASE i = n + 1
        BY <2>2, <2>3, <2>5, <2>6, <4>1
      <4>2. CASE i # n + 1
        BY <2>2, <2>5, <2>6, <4>2
      <4>3. QED
        BY <4>1, <4>2
    <3>2. last_byte = NoByte => Read = <<>>
      BY DEF OrderInv, DeviceIsNewer
    <3>3. QED
      BY <2>2, <2>5, <2>7, <3>1, <3>2 DEF DeviceIsNewer
  <2>9. Ascending(Read') /\ InPairs(Read') /\ PortIsNewest'
    BY <2>2 DEF OrderInv, PortIsNewest
  <2>10. StaleOnce'
    BY <2>2, <2>5 DEF StaleOnce
  <2>11. QED
    BY <2>8, <2>9, <2>10 DEF OrderInv
<1>2. CASE irq1
  BY <1>2, HandlerInOrder DEF irq1
<1>3. CASE keyboard_has_char
  <2>1. CASE keyboard_handler(irr) /\ output_buffer # <<>>
    BY <1>3, <2>1, HandlerInOrder DEF keyboard_has_char, TypeOK
  <2>2. CASE UNCHANGED <<device, ring, dropped>>
    BY <1>0, <1>3, <2>2
       DEF keyboard_has_char, device, OrderInv, PortIsNewest, DeviceIsNewer, StaleOnce
  <2>3. QED
    BY <1>3, <2>1, <2>2 DEF keyboard_has_char, keyboard_poll
<1>4. CASE keyboard_get_char
  <2>1. Read' = Read
    BY <1>4, GetReads
  <2>2. QED
    BY <1>4, <2>1
       DEF keyboard_get_char, device, OrderInv, PortIsNewest, DeviceIsNewer, StaleOnce
<1>5. CASE UNCHANGED <<device, ring, delivered>>
  BY <1>0, <1>5 DEF device, OrderInv, PortIsNewest, DeviceIsNewer, StaleOnce
<1>6. QED
  BY <1>1, <1>2, <1>3, <1>4, <1>5 DEF Next, spin, sys_read, exit_command, vars

LEMMA OrderInvGives ==
  ASSUME TypeOK, OrderInv
  PROVE  KeysInOrder
<1> DEFINE n == Len(Read)
           m == Len(output_buffer)
           all == delivered \o Contents \o output_buffer
<1>1. output_buffer \in Seq(Byte) /\ Read \in Seq(Byte)
  BY ReadIs DEF TypeOK
<1>2. n \in Nat /\ m \in Nat
  BY <1>1, LenProperties
<1>3. /\ Len(all) = n + m
      /\ \A i \in 1 .. n + m : all[i] = IF i <= n THEN Read[i] ELSE output_buffer[i - n]
  BY <1>1, ConcatProperties DEF Read
<1>4. /\ \A i \in 1 .. n : Read[i].key \in Nat
      /\ \A i \in 1 .. m : output_buffer[i].key \in Nat
      /\ last_byte.key \in Nat
  BY <1>1, KeyIsNumber DEF TypeOK
<1> HIDE DEF n, m, all
<1>5. ASSUME NEW i \in 1 .. n, NEW j \in 1 .. m
      PROVE  Read[i].key < output_buffer[j].key
  <2>1. Read[i].key <= last_byte.key /\ Read # <<>>
    BY <1>2 DEF OrderInv, PortIsNewest, n
  <2>2. last_byte.key < output_buffer[j].key
    BY <2>1 DEF OrderInv, DeviceIsNewer, m
  <2>3. QED
    BY <1>4, <2>1, <2>2
<1>6. ASSUME NEW i \in 1 .. n + m, NEW j \in 1 .. n + m
      PROVE  /\ i < j => all[i].key <= all[j].key
             /\ all[i].key = all[j].key => j <= i + 1
  <2>1. CASE i <= n /\ j <= n
    BY <1>2, <1>3, <2>1 DEF OrderInv, Ascending, InPairs, n
  <2>2. CASE i <= n /\ j > n
    <3>1. j - n \in 1 .. m /\ i \in 1 .. n
      BY <1>2, <2>2
    <3>2. Read[i].key < output_buffer[j - n].key
      BY <1>5, <3>1
    <3>3. all[i] = Read[i] /\ all[j] = output_buffer[j - n]
      BY <1>2, <1>3, <2>2
    <3>4. i < j /\ Read[i].key \in Nat /\ output_buffer[j - n].key \in Nat
      BY <1>2, <1>4, <2>2, <3>1
    <3>5. QED
      BY <3>2, <3>3, <3>4
  <2>3. CASE i > n /\ j <= n
    BY <1>2, <2>3
  <2>4. CASE i > n /\ j > n
    <3>1. i - n \in 1 .. m /\ j - n \in 1 .. m
      BY <1>2, <2>4
    <3>2. i < j => output_buffer[i - n].key < output_buffer[j - n].key
      BY <1>2, <3>1 DEF OrderInv, DeviceIsNewer, Rising, m
    <3>3. j < i => output_buffer[j - n].key < output_buffer[i - n].key
      BY <1>2, <3>1 DEF OrderInv, DeviceIsNewer, Rising, m
    <3>4. QED
      BY <1>2, <1>3, <1>4, <2>4, <3>1, <3>2, <3>3
  <2>5. QED
    BY <1>2, <2>1, <2>2, <2>3, <2>4
<1>7. QED
  BY <1>3, <1>6 DEF KeysInOrder, all

(* What the reader is given comes from the keys in the order they were     *)
(* hit, and no key twice but for one stale reading of the port: polling    *)
(* leaves a request behind, and the interrupt it causes reads the last     *)
(* byte again unless another key came first.                               *)
THEOREM OrderKept == Spec => []KeysInOrder
<1>1. Init => TypeOK /\ TakeHasChar /\ OrderInv
  <2> SUFFICES ASSUME Init PROVE TypeOK /\ TakeHasChar /\ OrderInv
    OBVIOUS
  <2>1. TypeOK /\ TakeHasChar
    BY InitTypes DEF Init, TakeHasChar
  <2>2. Read = <<>>
    <3>1. Size(head, tail) = 0
      BY DEF Init, Size
    <3>2. Contents = <<>>
      BY <2>1, <3>1, ContentsIs
    <3>3. QED
      BY <3>2 DEF Read, Init
  <2>3. Len(output_buffer) <= 1 /\ \A i \in 1 .. Len(output_buffer) : output_buffer[i].key = 0
    <3>1. CASE output_buffer = <<>>
      BY <3>1
    <3>2. CASE \E k \in {"char", "newline"} : output_buffer = <<[key |-> 0, kind |-> k]>>
      BY <3>2
    <3>3. QED
      BY <3>1, <3>2 DEF Init
  <2>4. last_byte.key = 0 /\ last_byte = NoByte /\ keys = 0
    BY DEF Init, NoByte
  <2>5. QED
    BY <2>1, <2>2, <2>3, <2>4
       DEF OrderInv, Ascending, InPairs, Rising, PortIsNewest, DeviceIsNewer, StaleOnce, TypeOK
<1>2. TypeOK /\ TakeHasChar /\ OrderInv /\ [Next]_vars => TypeOK' /\ TakeHasChar' /\ OrderInv'
  BY NextTypes, NextTakes, NextInOrder
<1>3. TypeOK /\ OrderInv => KeysInOrder
  BY OrderInvGives
<1>4. QED
  BY <1>1, <1>2, <1>3, PTL DEF Spec
=============================================================================
