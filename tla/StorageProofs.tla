----------------------------- MODULE StorageProofs -----------------------------
(***************************************************************************)
(* Theorems about what files are stored on.  Disk: for every geometry of   *)
(* the drive, every set of calls that stay on the disk, and every pace of  *)
(* the drive.  FileSystem: for every archive that tar writes and every     *)
(* image that mkfs and the writers of its files make.                      *)
(***************************************************************************)
EXTENDS Disk, FileSystem, SequenceTheorems, FiniteSetTheorems, WellFoundedInduction, TLAPS

(* The words there are: those the disk was delivered with, those that      *)
(* calls write, and what the port returns when there is nothing to read.   *)
Word ==
  {Junk} \cup {<<l, k>> : l \in Lba, k \in 1 .. WORDS}
    \cup UNION {{c.data[n][k] : n \in 1 .. c.count, k \in 1 .. WORDS} :
                  c \in {d \in Call : d.op = "write"}}

Sector == [1 .. WORDS -> Word]
State  == {"idle", "busy", "drq", "error"}

DriveRecord ==
  [state : State, shown : State, op : {"none", "read", "write"}, addr : Nat, left : Nat,
   sector : Sector, pos : 0 .. WORDS - 1, full : BOOLEAN]

TypeOK ==
  /\ medium \in [Lba -> Sector]
  /\ drive \in DriveRecord
  /\ pc \in {"idle", "wait_ready", "command", "wait_bsy", "wait_drq", "data", "wait_end", "return"}
  /\ call \in IF pc = "idle" THEN {NoCall} ELSE Call
  /\ s \in Nat
  /\ w \in 0 .. WORDS - 1
  /\ buf \in Seq(Word)

(* Outside a transfer the drive has nothing to do but to store the last    *)
(* sector of a write, and says so until it has.                            *)
Settled ==
  \/ drive.state = "idle" /\ ~ drive.full
  \/ drive.state = "busy" /\ drive.full /\ drive.left = 1 /\ drive.addr \in Lba

OutsideTransfer ==
  /\ pc \in {"idle", "wait_ready", "wait_end", "return"} => Settled
  /\ pc \in {"idle", "wait_ready", "return"} => (drive.full => drive.shown = "busy")
  /\ pc = "command" => drive.state = "idle" /\ ~ drive.full

(* During one, drive and driver agree on the sector that is next, and on   *)
(* the word once the drive asks for data.  A status that lags is gone with *)
(* the first reading of it.                                                *)
SameSector ==
  /\ drive.op = call.op
  /\ s < call.count
  /\ ~ drive.full => drive.addr = call.lba + s /\ drive.left = call.count - s
  /\ drive.full => /\ drive.addr + 1 = call.lba + s /\ drive.left = call.count - s + 1
                   /\ drive.state = "busy" /\ s > 0 /\ drive.op = "write"

SameWord ==
  /\ drive.state # "idle"
  /\ pc = "wait_drq" => drive.shown = drive.state
  /\ pc = "data" => drive.state = "drq"
  /\ pc # "data" => w = 0
  /\ drive.state = "drq" =>
       /\ drive.pos = w
       /\ drive.op = "read" => drive.sector = medium[drive.addr]
       /\ drive.op = "write" => \A k \in 1 .. w : drive.sector[k] = call.data[s + 1][k]

InTransfer == pc \in {"wait_bsy", "wait_drq", "data"} => SameSector /\ SameWord

(* How far the call is. *)
Progress ==
  /\ pc \in {"wait_ready", "command"} => s = 0 /\ w = 0
  /\ pc \in {"wait_end", "return"} => s = call.count /\ w = 0
  /\ pc = "wait_end" => call.op = "write"
  /\ pc # "idle" /\ call.op = "read" => Len(buf) = s * WORDS + w
  /\ pc = "data" /\ call.op = "read" =>
       \A k \in 1 .. w : buf[s * WORDS + k] = drive.sector[k]

IInv == TypeOK /\ OutsideTransfer /\ InTransfer /\ Progress

-----------------------------------------------------------------------------
(* Numbers. *)
LEMMA Sizes == BYTE \in Nat \ {0} /\ NIBBLE \in Nat \ {0} /\ WORDS \in Nat \ {0}
BY DiskAssumption

LEMMA Products ==
  ASSUME NEW a \in Nat, NEW b \in Nat
  PROVE  a * b \in Nat
OBVIOUS

LEMMA DivMod ==
  ASSUME NEW a \in Nat, NEW m \in Nat \ {0}
  PROVE  /\ a \div m \in Nat /\ a % m \in 0 .. m - 1
         /\ a = m * (a \div m) + (a % m)
OBVIOUS

(* The quotient is the only one that leaves such a remainder. *)
LEMMA DivUnique ==
  ASSUME NEW a \in Nat, NEW m \in Nat \ {0}, NEW q \in Nat, NEW r \in 0 .. m - 1,
         a = m * q + r
  PROVE  a \div m = q /\ a % m = r
<1> DEFINE p == a \div m
           t == a % m
<1>1. p \in Nat /\ t \in 0 .. m - 1 /\ m * p + t = m * q + r
  BY DivMod
<1> HIDE DEF p, t
<1>2. ASSUME NEW x \in Nat, NEW y \in Nat, x < y
      PROVE  m * y >= m * x + m
  <2>1. PICK d \in Nat : y = x + 1 + d
    <3>1. y - x - 1 \in Nat /\ y = x + 1 + (y - x - 1)
      BY <1>2
    <3>2. QED
      BY <3>1
  <2>2. m * y = m * x + m + m * d /\ m * d \in Nat /\ m * x \in Nat
    BY <2>1
  <2>3. QED
    BY <2>2
<1>3. m * p \in Nat /\ m * q \in Nat
  BY <1>1
<1>4. ~ (p < q) /\ ~ (q < p)
  BY <1>1, <1>2, <1>3
<1>5. p = q
  BY <1>1, <1>4
<1>6. t = r
  BY <1>1, <1>3, <1>5
<1>7. QED
  BY <1>5, <1>6 DEF p, t

(* Dividing twice is dividing by the product. *)
LEMMA DivTwice ==
  ASSUME NEW a \in Nat, NEW m \in Nat \ {0}, NEW n \in Nat \ {0}
  PROVE  a \div (m * n) = (a \div m) \div n
<1> DEFINE q == a \div m
           r == a % m
           p == q \div n
           t == q % n
<1>1. q \in Nat /\ r \in 0 .. m - 1 /\ a = m * q + r
  BY DivMod
<1>2. p \in Nat /\ t \in 0 .. n - 1 /\ q = n * p + t
  BY <1>1, DivMod
<1> HIDE DEF q, r, p, t
<1>3. m * n \in Nat \ {0} /\ m * t \in Nat /\ m * t <= m * n - m
  <2>1. PICK d \in Nat : n = t + 1 + d
    <3>1. n - t - 1 \in Nat /\ n = t + 1 + (n - t - 1)
      BY <1>2
    <3>2. QED
      BY <3>1
  <2>2. m * n = m * t + m + m * d /\ m * d \in Nat /\ m * t \in Nat
    BY <1>2, <2>1
  <2>3. QED
    BY <2>2
<1>4. m * t + r \in 0 .. m * n - 1
  BY <1>1, <1>3
<1>5. a = (m * n) * p + (m * t + r)
  BY <1>1, <1>2
<1>6. a \in Nat
  OBVIOUS
<1>7. a \div (m * n) = p
  BY ONLY <1>2, <1>3, <1>4, <1>5, <1>6, DivUnique
<1>8. QED
  BY <1>7 DEF p, q

(* A smaller number is its own remainder. *)
LEMMA ModSmall ==
  ASSUME NEW m \in Nat \ {0}, NEW a \in 0 .. m - 1
  PROVE  a % m = a
OBVIOUS

(* Four parts of an address, each taken from the port it went to, are the  *)
(* address again.                                                          *)
LEMMA AddressKept ==
  ASSUME NEW lba \in Lba
  PROVE  Addressed(Registers(lba)) = lba
<1> DEFINE a == lba \div BYTE
           b == a \div BYTE
           c == b \div BYTE
<1>1. BYTE \in Nat \ {0} /\ NIBBLE \in Nat \ {0} /\ lba \in Nat
  BY Sizes DEF Lba
<1>2. a \in Nat /\ b \in Nat /\ c \in Nat
  BY <1>1, DivMod
<1>3. /\ lba = BYTE * a + (lba % BYTE)
      /\ a = BYTE * b + (a % BYTE)
      /\ b = BYTE * c + (b % BYTE)
      /\ lba % BYTE \in Nat /\ a % BYTE \in Nat /\ b % BYTE \in Nat
  BY <1>1, <1>2, DivMod
<1>4. lba \div (BYTE * BYTE) = b
  BY <1>1, DivTwice
<1>5. lba \div (BYTE * BYTE * BYTE) = c
  <2>1. BYTE * BYTE \in Nat \ {0}
    BY <1>1
  <2>2. lba \div ((BYTE * BYTE) * BYTE) = (lba \div (BYTE * BYTE)) \div BYTE
    BY ONLY <1>1, <2>1, DivTwice
  <2>3. QED
    BY <1>4, <2>2
<1>6. c % NIBBLE = c
  <2>1. c < NIBBLE
    <3> DEFINE cube == BYTE * BYTE * BYTE
    <3>1. cube \in Nat \ {0} /\ lba < cube * NIBBLE
      BY <1>1 DEF Lba
    <3>2. lba = cube * c + (lba % cube) /\ lba % cube \in Nat
      <4>1. lba \div cube = c
        BY <1>5
      <4> HIDE DEF cube, c
      <4>2. lba = cube * (lba \div cube) + (lba % cube) /\ lba % cube \in Nat
        BY <1>1, <3>1, DivMod
      <4>3. QED
        BY <4>1, <4>2
    <3> HIDE DEF cube, c
    <3>3. SUFFICES ASSUME c >= NIBBLE PROVE FALSE
      BY <1>1, <1>2
    <3>4. PICK d \in Nat : c = NIBBLE + d
      <4>1. c - NIBBLE \in Nat /\ c = NIBBLE + (c - NIBBLE)
        BY <1>1, <1>2, <3>3
      <4>2. QED
        BY <4>1
    <3>5. cube * c = cube * NIBBLE + cube * d /\ cube * d \in Nat /\ cube * NIBBLE \in Nat
      BY <1>1, <3>1, <3>4
    <3>6. QED
      BY <1>1, <3>1, <3>2, <3>5
  <2>2. QED
    BY <1>1, <1>2, <2>1, ModSmall
<1>7. /\ Registers(lba).low = lba % BYTE /\ Registers(lba).mid = a % BYTE
      /\ Registers(lba).high = b % BYTE /\ Registers(lba).device = c
  BY <1>4, <1>5, <1>6 DEF Registers
<1>8. Addressed(Registers(lba)) = (lba % BYTE) + BYTE * ((a % BYTE) + BYTE * ((b % BYTE) + BYTE * c))
  BY <1>7 DEF Addressed
<1> HIDE DEF a, b, c
<1>9. (b % BYTE) + BYTE * c = b /\ (a % BYTE) + BYTE * b = a /\ (lba % BYTE) + BYTE * a = lba
  <2>1. ASSUME NEW x \in Nat, NEW y \in Nat, NEW r \in Nat, x = BYTE * y + r
        PROVE  r + BYTE * y = x
    <3>1. BYTE * y \in Nat
      BY <1>1
    <3>2. QED
      BY <2>1, <3>1
  <2>2. QED
    BY <1>1, <1>2, <1>3, <2>1
<1>10. QED
  BY <1>8, <1>9

(* Calls stay on the disk and write whole sectors. *)
LEMMA CallFacts ==
  ASSUME NEW c \in Call
  PROVE  /\ c # NoCall
         /\ c.op \in {"read", "write"}
         /\ c.lba \in Nat /\ c.count \in Nat /\ c.count >= 1
         /\ \A n \in 0 .. c.count - 1 : c.lba + n \in Lba
         /\ c.op = "write" => \A n \in 1 .. c.count : c.data[n] \in Sector
<1>1. /\ c.op \in {"read", "write"}
      /\ c.lba \in Nat /\ c.count \in Nat /\ c.count >= 1
      /\ c.lba + c.count <= BYTE * BYTE * BYTE * NIBBLE
      /\ BYTE * BYTE * BYTE * NIBBLE \in Nat
  <2>1. BYTE * BYTE \in Nat /\ NIBBLE \in Nat /\ BYTE \in Nat
    BY Sizes
  <2>2. BYTE * BYTE * BYTE \in Nat
    BY <2>1, Products
  <2>3. QED
    BY <2>1, <2>2, DiskAssumption, Products
<1>2. c # NoCall
  BY <1>1 DEF NoCall
<1>3. \A n \in 0 .. c.count - 1 : c.lba + n \in Lba
  BY <1>1 DEF Lba
<1>4. ASSUME c.op = "write", NEW n \in 1 .. c.count
      PROVE  c.data[n] \in Sector
  <2>1. c.data[n] = [k \in 1 .. WORDS |-> c.data[n][k]]
    BY <1>4, DiskAssumption
  <2>2. \A k \in 1 .. WORDS : c.data[n][k] \in Word
    BY <1>4 DEF Word
  <2>3. QED
    BY ONLY <2>1, <2>2, Zenon DEF Sector
<1>5. QED
  BY <1>1, <1>2, <1>3, <1>4

-----------------------------------------------------------------------------
(* The inductive invariant. *)
LEMMA BlankIsSector == Blank \in Sector
BY DEF Blank, Sector, Word

LEMMA InitInv == Init => IInv
<1> SUFFICES ASSUME Init PROVE IInv
  OBVIOUS
<1>1. WORDS \in Nat \ {0} /\ Blank \in Sector
  BY Sizes, BlankIsSector
<1>2. medium \in [Lba -> Sector]
  <2>1. \A l \in Lba, k \in 1 .. WORDS : <<l, k>> \in Word
    BY DEF Word
  <2>2. QED
    BY <2>1 DEF Init, Sector
<1>3. TypeOK
  <2>1. 0 \in 0 .. WORDS - 1
    BY <1>1
  <2>2. drive \in DriveRecord
    BY <1>1, <2>1 DEF Init, State, DriveRecord
  <2>3. QED
    BY <1>2, <2>1, <2>2 DEF Init, TypeOK
<1>4. OutsideTransfer /\ InTransfer /\ Progress
  BY DEF Init, OutsideTransfer, Settled, InTransfer, Progress
<1>5. QED
  BY <1>3, <1>4 DEF IInv

(* A sector the drive has to store is one of the disk, and is counted.     *)
LEMMA FullFacts ==
  ASSUME IInv, drive.full
  PROVE  drive.addr \in Lba /\ drive.left >= 1 /\ drive.state = "busy" /\ pc # "data"
<1>1. CASE pc \in {"idle", "wait_ready", "wait_end", "return"}
  BY <1>1 DEF IInv, OutsideTransfer, Settled
<1>2. CASE pc = "command"
  BY <1>2 DEF IInv, OutsideTransfer
<1>3. CASE pc \in {"wait_bsy", "wait_drq", "data"}
  <2>1. call \in Call /\ s \in Nat
    BY <1>3 DEF IInv, TypeOK, DriveRecord
  <2>2. /\ SameSector /\ SameWord
        /\ drive.addr + 1 = call.lba + s /\ drive.left = call.count - s + 1
        /\ s > 0 /\ s < call.count /\ drive.addr \in Nat
    BY <1>3 DEF IInv, InTransfer, SameSector, TypeOK, DriveRecord
  <2>3. s - 1 \in 0 .. call.count - 1 /\ drive.addr = call.lba + (s - 1)
    BY <2>1, <2>2, CallFacts
  <2>4. drive.addr \in Lba
    BY <2>1, <2>3, CallFacts
  <2>5. QED
    BY <2>1, <2>2, <2>4, CallFacts DEF SameSector, SameWord
<1>4. QED
  BY <1>1, <1>2, <1>3 DEF IInv, TypeOK, DriveRecord

LEMMA StoreInv == IInv /\ store => IInv'
<1> SUFFICES ASSUME IInv, store PROVE IInv'
  OBVIOUS
<1>1. drive.full /\ drive.addr \in Lba /\ drive.left \in Nat /\ drive.left >= 1
      /\ drive.state = "busy" /\ pc # "data"
  BY FullFacts DEF store, IInv, TypeOK, DriveRecord
<1>2. UNCHANGED <<pc, call, s, w, buf>>
  BY DEF store, driver
<1>3. /\ drive'.full = FALSE /\ drive'.addr = drive.addr + 1 /\ drive'.left = drive.left - 1
      /\ drive'.op = drive.op /\ drive'.pos = drive.pos /\ drive'.sector = drive.sector
      /\ drive'.state = IF drive.left = 1 THEN "idle" ELSE drive.state
      /\ drive'.shown = IF drive.left = 1 /\ drive.shown = drive.state THEN "idle" ELSE drive.shown
  BY <1>1 DEF store, Becomes, IInv, TypeOK, DriveRecord
<1>4. TypeOK'
  <2>1. medium' \in [Lba -> Sector]
    BY <1>1 DEF store, IInv, TypeOK, DriveRecord
  <2>2. drive' \in DriveRecord
    <3>1. [drive EXCEPT !.full = FALSE, !.addr = @ + 1, !.left = @ - 1] \in DriveRecord
      <4>1. drive.addr + 1 \in Nat /\ drive.left - 1 \in Nat
        BY <1>1 DEF IInv, TypeOK, DriveRecord
      <4>2. QED
        BY <4>1, Zenon DEF IInv, TypeOK, DriveRecord
    <3>2. QED
      BY <1>1, <3>1 DEF store, Becomes, State, DriveRecord
  <2>3. QED
    BY <1>2, <2>1, <2>2 DEF IInv, TypeOK
<1>5. OutsideTransfer'
  BY <1>1, <1>2, <1>3 DEF IInv, OutsideTransfer, Settled
<1>6. InTransfer'
  <2>1. CASE pc \in {"wait_bsy", "wait_drq"}
    <3>1. /\ drive.addr + 1 = call.lba + s /\ drive.left = call.count - s + 1
          /\ s < call.count /\ drive.op = call.op /\ call.count \in Nat /\ s \in Nat
      BY <1>1, <2>1, CallFacts DEF IInv, InTransfer, SameSector, TypeOK, DriveRecord
    <3>2. drive'.state = "busy" /\ drive'.shown = drive.shown
      BY <1>1, <1>3, <3>1
    <3>3. SameSector'
      BY <1>1, <1>2, <1>3, <3>1 DEF SameSector
    <3>4. SameWord'
      BY <1>1, <1>2, <2>1, <3>2 DEF IInv, InTransfer, SameWord
    <3>5. QED
      BY <3>3, <3>4 DEF InTransfer
  <2>2. CASE pc \notin {"wait_bsy", "wait_drq", "data"}
    BY <1>2, <2>2 DEF InTransfer
  <2>3. QED
    BY <1>1, <2>1, <2>2
<1>7. Progress'
  BY <1>1, <1>2 DEF IInv, Progress
<1>8. QED
  BY <1>4, <1>5, <1>6, <1>7 DEF IInv

(* The drive changes its state otherwise only when it is busy, and during  *)
(* a transfer. *)
LEMMA BusyFacts ==
  ASSUME IInv, drive.state = "busy", ~ drive.full
  PROVE  pc \in {"wait_bsy", "wait_drq"} /\ SameSector /\ SameWord /\ drive.addr \in Lba
<1>1. pc \in {"wait_bsy", "wait_drq"} /\ SameSector /\ SameWord
  BY DEF IInv, TypeOK, DriveRecord, OutsideTransfer, Settled, InTransfer, SameWord
<1>2. call \in Call /\ s \in 0 .. call.count - 1 /\ drive.addr = call.lba + s
  BY <1>1, CallFacts DEF IInv, TypeOK, DriveRecord, SameSector
<1>3. QED
  BY <1>1, <1>2, CallFacts

LEMMA RequestInv == IInv /\ request => IInv'
<1> SUFFICES ASSUME IInv, request PROVE IInv'
  OBVIOUS
<1>1. /\ pc \in {"wait_bsy", "wait_drq"} /\ SameSector /\ SameWord /\ drive.addr \in Lba
      /\ drive.state = "busy" /\ ~ drive.full
  BY BusyFacts DEF request
<1>2. UNCHANGED <<medium, pc, call, s, w, buf>>
  BY DEF request, driver
<1> DEFINE sector == IF drive.op = "read" THEN medium[drive.addr] ELSE Blank
<1>3. sector \in Sector
  BY <1>1, BlankIsSector DEF IInv, TypeOK, DriveRecord
<1>4. /\ drive'.full = drive.full /\ drive'.addr = drive.addr /\ drive'.left = drive.left
      /\ drive'.op = drive.op /\ drive'.pos = 0 /\ drive'.sector = sector
      /\ drive'.state = "drq"
      /\ drive'.shown = IF drive.shown = drive.state THEN "drq" ELSE drive.shown
  BY <1>1 DEF request, Becomes, IInv, TypeOK, DriveRecord
<1>5. TypeOK'
  <2>1. 0 \in 0 .. WORDS - 1
    BY Sizes
  <2>2. drive' \in DriveRecord
    BY <1>1, <1>3, <2>1 DEF request, Becomes, IInv, TypeOK, DriveRecord, State
  <2>3. QED
    BY <1>2, <2>2 DEF IInv, TypeOK
<1>6. OutsideTransfer'
  BY <1>1, <1>2 DEF OutsideTransfer
<1>7. SameSector'
  BY <1>1, <1>2, <1>4 DEF SameSector
<1>8. SameWord'
  BY <1>1, <1>2, <1>4 DEF SameWord
<1>9. Progress'
  BY <1>1, <1>2 DEF IInv, Progress
<1>10. QED
  BY <1>5, <1>6, <1>7, <1>8, <1>9 DEF IInv, InTransfer

LEMMA FailInv == IInv /\ fail => IInv'
<1> SUFFICES ASSUME IInv, fail PROVE IInv'
  OBVIOUS
<1>1. /\ pc \in {"wait_bsy", "wait_drq"} /\ SameSector /\ SameWord
      /\ drive.state = "busy" /\ ~ drive.full
  BY BusyFacts DEF fail
<1>2. UNCHANGED <<medium, pc, call, s, w, buf>>
  BY DEF fail, driver
<1>3. /\ drive'.full = drive.full /\ drive'.addr = drive.addr /\ drive'.left = drive.left
      /\ drive'.op = drive.op /\ drive'.state = "error"
      /\ drive'.shown = IF drive.shown = drive.state THEN "error" ELSE drive.shown
  BY <1>1 DEF fail, Becomes, IInv, TypeOK, DriveRecord
<1>4. TypeOK'
  BY <1>1, <1>2 DEF fail, Becomes, IInv, TypeOK, DriveRecord, State
<1>5. OutsideTransfer'
  BY <1>1, <1>2 DEF OutsideTransfer
<1>6. SameSector' /\ SameWord'
  BY <1>1, <1>2, <1>3 DEF SameSector, SameWord
<1>7. Progress'
  BY <1>1, <1>2 DEF IInv, Progress
<1>8. QED
  BY <1>4, <1>5, <1>6, <1>7 DEF IInv, InTransfer

(* Reading the status changes nothing but what lags of it. *)
LEMMA StatusFacts ==
  ASSUME IInv, NEW seen, inb_status(seen)
  PROVE  /\ drive'.state = drive.state /\ drive'.op = drive.op /\ drive'.addr = drive.addr
         /\ drive'.left = drive.left /\ drive'.sector = drive.sector /\ drive'.pos = drive.pos
         /\ drive'.full = drive.full
         /\ drive'.shown = drive.state
         /\ drive' \in DriveRecord
         /\ seen \in {drive.state, drive.shown}
BY DEF inb_status, IInv, TypeOK, DriveRecord

LEMMA WaitReadyInv == IInv /\ wait_ready => IInv'
<1> SUFFICES ASSUME IInv, wait_ready PROVE IInv'
  OBVIOUS
<1>1. PICK seen : inb_status(seen) /\ pc' = IF seen = "busy" THEN pc ELSE "command"
  BY DEF wait_ready, pata_wait_bsy
<1>2. UNCHANGED <<medium, call, s, w, buf>> /\ pc = "wait_ready"
  BY DEF wait_ready, pata_wait_bsy
<1>3. TypeOK'
  BY <1>1, <1>2, StatusFacts DEF IInv, TypeOK
<1>4. OutsideTransfer'
  BY <1>1, <1>2, StatusFacts DEF IInv, OutsideTransfer, Settled
<1>5. InTransfer' /\ Progress'
  BY <1>1, <1>2 DEF IInv, InTransfer, Progress
<1>6. QED
  BY <1>3, <1>4, <1>5 DEF IInv

LEMMA WaitEndInv == IInv /\ wait_end => IInv'
<1> SUFFICES ASSUME IInv, wait_end PROVE IInv'
  OBVIOUS
<1>1. PICK seen : inb_status(seen) /\ pc' = IF seen = "busy" THEN pc ELSE "return"
  BY DEF wait_end, pata_wait_bsy
<1>2. UNCHANGED <<medium, call, s, w, buf>> /\ pc = "wait_end"
  BY DEF wait_end, pata_wait_bsy
<1>3. TypeOK'
  BY <1>1, <1>2, StatusFacts DEF IInv, TypeOK
<1>4. OutsideTransfer'
  BY <1>1, <1>2, StatusFacts DEF IInv, OutsideTransfer, Settled
<1>5. InTransfer' /\ Progress'
  BY <1>1, <1>2 DEF IInv, InTransfer, Progress
<1>6. QED
  BY <1>3, <1>4, <1>5 DEF IInv

(* After one reading the status no longer lags, whatever it showed. *)
LEMMA WaitBsyInv == IInv /\ wait_bsy => IInv'
<1> SUFFICES ASSUME IInv, wait_bsy PROVE IInv'
  OBVIOUS
<1>1. PICK seen : inb_status(seen) /\ pc' = IF seen = "busy" THEN pc ELSE "wait_drq"
  BY DEF wait_bsy, pata_wait_bsy
<1>2. UNCHANGED <<medium, call, s, w, buf>> /\ pc = "wait_bsy"
  BY DEF wait_bsy, pata_wait_bsy
<1>3. TypeOK'
  BY <1>1, <1>2, StatusFacts DEF IInv, TypeOK
<1>4. OutsideTransfer' /\ Progress'
  BY <1>1, <1>2 DEF IInv, OutsideTransfer, Progress
<1>5. SameSector' /\ SameWord'
  BY <1>1, <1>2, StatusFacts DEF IInv, InTransfer, SameSector, SameWord
<1>6. QED
  BY <1>3, <1>4, <1>5 DEF IInv, InTransfer

LEMMA WaitDrqInv == IInv /\ wait_drq => IInv'
<1> SUFFICES ASSUME IInv, wait_drq PROVE IInv'
  OBVIOUS
<1>1. PICK seen : inb_status(seen) /\ pc' = IF seen = "drq" THEN "data" ELSE pc
  BY DEF wait_drq, pata_wait_drq
<1>2. UNCHANGED <<medium, call, s, w, buf>> /\ pc = "wait_drq"
  BY DEF wait_drq, pata_wait_drq
<1>3. TypeOK'
  BY <1>1, <1>2, StatusFacts DEF IInv, TypeOK
<1>4. SameSector /\ SameWord /\ w = 0
  BY <1>2 DEF IInv, InTransfer, SameWord
<1>5. OutsideTransfer'
  BY <1>1, <1>2 DEF OutsideTransfer
<1>6. SameSector' /\ SameWord'
  BY <1>1, <1>2, <1>4, StatusFacts DEF SameSector, SameWord
<1>7. Progress'
  BY <1>1, <1>2, <1>4 DEF IInv, Progress
<1>8. QED
  BY <1>3, <1>5, <1>6, <1>7 DEF IInv, InTransfer

LEMMA CallInv == IInv /\ call_driver => IInv'
<1> SUFFICES ASSUME IInv, call_driver PROVE IInv'
  OBVIOUS
<1>1. 0 \in 0 .. WORDS - 1 /\ 0 * WORDS = 0
  BY Sizes
<1>2. UNCHANGED <<medium, drive>> /\ pc = "idle" /\ pc' = "wait_ready"
  BY DEF call_driver
<1>3. TypeOK'
  BY <1>1, <1>2 DEF call_driver, IInv, TypeOK
<1>4. OutsideTransfer'
  BY <1>2 DEF IInv, OutsideTransfer, Settled
<1>5. InTransfer' /\ Progress'
  BY <1>1, <1>2 DEF call_driver, InTransfer, Progress
<1>6. QED
  BY <1>3, <1>4, <1>5 DEF IInv

(* The registers give the drive the driver's sector. *)
LEMMA CommandInv == IInv /\ command => IInv'
<1> SUFFICES ASSUME IInv, command PROVE IInv'
  OBVIOUS
<1>1. /\ call \in Call /\ s = 0 /\ w = 0 /\ drive.state = "idle" /\ ~ drive.full
      /\ pc = "command" /\ pc' = "wait_bsy"
      /\ UNCHANGED <<medium, call, s, w, buf>>
  BY DEF command, IInv, TypeOK, DriveRecord, OutsideTransfer, Progress
<1>2. call.lba \in Nat /\ call.count \in Nat /\ call.count >= 1 /\ call.op \in {"read", "write"}
  BY <1>1, CallFacts
<1>3. call.lba + 0 \in Lba /\ call.lba + 0 = call.lba
  BY <1>1, <1>2, CallFacts
<1>4. Addressed(Registers(call.lba)) = call.lba
  BY <1>3, AddressKept
<1>5. drive' = Accept(call.op, call.lba, call.count)
  BY <1>1, <1>4 DEF command
<1>6. 0 \in 0 .. WORDS - 1
  BY Sizes
<1>7. /\ drive'.state = "busy" /\ drive'.op = call.op /\ drive'.addr = call.lba
      /\ drive'.left = call.count /\ drive'.full = drive.full
  BY <1>5 DEF Accept, Reacts, IInv, TypeOK, DriveRecord
<1>8. drive' \in DriveRecord
  BY <1>2, <1>5, <1>6 DEF Accept, Reacts, IInv, TypeOK, DriveRecord, State
<1>9. TypeOK'
  BY <1>1, <1>8 DEF IInv, TypeOK
<1>10. OutsideTransfer' /\ Progress'
  BY <1>1 DEF IInv, OutsideTransfer, Progress
<1>11. SameSector' /\ SameWord'
  BY <1>1, <1>2, <1>7 DEF SameSector, SameWord
<1>12. QED
  BY <1>9, <1>10, <1>11 DEF IInv, InTransfer

LEMMA ReturnInv == IInv /\ return => IInv'
<1> SUFFICES ASSUME IInv, return PROVE IInv'
  OBVIOUS
<1>1. UNCHANGED <<medium, drive, s, w, buf>> /\ pc = "return" /\ pc' = "idle"
  BY DEF return
<1>2. TypeOK'
  BY <1>1 DEF return, IInv, TypeOK
<1>3. OutsideTransfer'
  BY <1>1 DEF IInv, OutsideTransfer, Settled
<1>4. InTransfer' /\ Progress'
  BY <1>1 DEF InTransfer, Progress
<1>5. QED
  BY <1>2, <1>3, <1>4 DEF IInv

(* While words are moved, drive and driver are at the same one. *)
LEMMA DataFacts ==
  ASSUME IInv, pc = "data"
  PROVE  /\ call \in Call /\ drive \in DriveRecord /\ SameSector /\ SameWord
         /\ drive.state = "drq" /\ ~ drive.full /\ drive.pos = w /\ drive.op = call.op
         /\ drive.addr = call.lba + s /\ drive.addr \in Lba /\ drive.left = call.count - s
         /\ drive.left >= 1 /\ call.lba \in Nat /\ call.count \in Nat
         /\ s \in 0 .. call.count - 1 /\ w \in 0 .. WORDS - 1
<1>1. call \in Call /\ drive \in DriveRecord /\ s \in Nat /\ w \in 0 .. WORDS - 1
  BY DEF IInv, TypeOK
<1>2. /\ SameSector /\ SameWord
      /\ drive.state = "drq" /\ drive.pos = w /\ drive.op = call.op /\ s < call.count
  BY DEF IInv, InTransfer, SameSector, SameWord
<1>3. ~ drive.full
  BY <1>2 DEF SameSector
<1>4. drive.addr = call.lba + s /\ drive.left = call.count - s
  BY <1>2, <1>3 DEF SameSector
<1>5. call.lba \in Nat /\ call.count \in Nat /\ s \in 0 .. call.count - 1
  BY <1>1, <1>2, CallFacts
<1>6. drive.addr \in Lba
  BY <1>1, <1>4, <1>5, CallFacts
<1>7. QED
  BY <1>1, <1>2, <1>3, <1>4, <1>5, <1>6

(* A word in the middle of a sector, and the last one. *)
LEMMA MovedFacts ==
  ASSUME NEW d \in DriveRecord, d.left >= 1
  PROVE  /\ Moved(d) \in DriveRecord
         /\ Moved(d).op = d.op /\ Moved(d).sector = d.sector
         /\ d.pos + 1 < WORDS =>
              /\ Moved(d).pos = d.pos + 1 /\ Moved(d).state = d.state /\ Moved(d).shown = d.shown
              /\ Moved(d).addr = d.addr /\ Moved(d).left = d.left /\ Moved(d).full = d.full
         /\ ~ (d.pos + 1 < WORDS) /\ d.op = "write" =>
              /\ Moved(d).full = TRUE /\ Moved(d).state = "busy"
              /\ Moved(d).addr = d.addr /\ Moved(d).left = d.left
         /\ ~ (d.pos + 1 < WORDS) /\ d.op # "write" =>
              /\ Moved(d).full = d.full /\ Moved(d).state = IF d.left = 1 THEN "idle" ELSE "busy"
              /\ Moved(d).addr = d.addr + 1 /\ Moved(d).left = d.left - 1
<1>1. WORDS \in Nat \ {0} /\ d.addr + 1 \in Nat /\ d.left - 1 \in Nat /\ d.pos \in Nat
  BY Sizes DEF DriveRecord
<1>2. CASE d.pos + 1 < WORDS
  <2>1. d.pos + 1 \in 0 .. WORDS - 1
    BY <1>1, <1>2
  <2>2. QED
    BY <1>1, <1>2, <2>1 DEF Moved, DriveRecord
<1>3. CASE ~ (d.pos + 1 < WORDS) /\ d.op = "write"
  BY <1>1, <1>3 DEF Moved, Reacts, DriveRecord, State
<1>4. CASE ~ (d.pos + 1 < WORDS) /\ d.op # "write"
  <2>1. Moved(d) = Reacts([d EXCEPT !.addr = @ + 1, !.left = @ - 1],
                          IF d.left = 1 THEN "idle" ELSE "busy")
    BY <1>4 DEF Moved
  <2>2. QED
    BY <1>1, <1>4, <2>1 DEF Reacts, DriveRecord, State
<1>5. QED
  BY <1>2, <1>3, <1>4

LEMMA WordIsKept ==
  ASSUME IInv, NEW d \in DriveRecord, NEW k \in 1 .. WORDS
  PROVE  d.sector[k] \in Word
BY DEF DriveRecord, Sector

LEMMA NextMultiple ==
  ASSUME NEW n \in Nat
  PROVE  (n + 1) * WORDS = n * WORDS + WORDS /\ n * WORDS \in Nat
BY Sizes

LEMMA InwInv == IInv /\ inw => IInv'
<1> SUFFICES ASSUME IInv, inw PROVE IInv'
  OBVIOUS
<1>0. pc = "data" /\ call.op = "read" /\ UNCHANGED <<medium, call>>
  BY DEF inw
<1>1. /\ call \in Call /\ drive \in DriveRecord /\ SameSector /\ SameWord
      /\ drive.state = "drq" /\ ~ drive.full /\ drive.pos = w /\ drive.op = call.op
      /\ drive.addr = call.lba + s /\ drive.addr \in Lba /\ drive.left = call.count - s
      /\ drive.left >= 1 /\ call.lba \in Nat /\ call.count \in Nat
      /\ s \in 0 .. call.count - 1 /\ w \in 0 .. WORDS - 1
  BY <1>0, DataFacts
<1> DEFINE word == drive.sector[w + 1]
<1>2. word \in Word /\ buf \in Seq(Word)
  BY <1>1, Sizes DEF DriveRecord, Sector, IInv, TypeOK
<1>3. buf' = Append(buf, word) /\ drive' = Moved(drive)
  BY <1>0, <1>1 DEF inw
<1>4. /\ buf' \in Seq(Word) /\ Len(buf') = Len(buf) + 1
      /\ buf'[Len(buf) + 1] = word
      /\ \A k \in 1 .. Len(buf) : buf'[k] = buf[k]
  BY <1>2, <1>3, AppendProperties
<1> HIDE DEF word
<1>5. s * WORDS \in Nat /\ (s + 1) * WORDS = s * WORDS + WORDS /\ WORDS \in Nat \ {0}
  BY <1>1, NextMultiple, Sizes
<1>6. Len(buf) = s * WORDS + w
  BY <1>0 DEF IInv, Progress
<1>7. CASE w + 1 < WORDS
  <2>1. w' = w + 1 /\ s' = s /\ pc' = pc
    BY <1>7 DEF inw, count_word
  <2>2. TypeOK'
    <3>1. drive' \in DriveRecord
      BY <1>1, <1>3, MovedFacts
    <3>2. w' \in 0 .. WORDS - 1
      BY <1>1, <1>5, <1>7, <2>1
    <3>3. QED
      BY <1>0, <1>4, <2>1, <3>1, <3>2 DEF IInv, TypeOK
  <2>3. SameSector' /\ SameWord'
    BY <1>0, <1>1, <1>3, <1>7, <2>1, MovedFacts DEF SameSector, SameWord
  <2>4. OutsideTransfer'
    BY <1>0, <2>1 DEF OutsideTransfer
  <2>5. Progress'
    <3>1. Len(buf') = s * WORDS + w'
      BY <1>1, <1>4, <1>5, <1>6, <2>1
    <3>2. ASSUME NEW k \in 1 .. w + 1
          PROVE  buf'[s * WORDS + k] = drive.sector[k]
      <4>1. CASE k = w + 1
        BY <1>1, <1>4, <1>5, <1>6, <4>1 DEF word
      <4>2. CASE k # w + 1
        <5>1. k \in 1 .. w /\ s * WORDS + k \in 1 .. Len(buf)
          BY <1>1, <1>5, <1>6, <4>2
        <5>2. buf[s * WORDS + k] = drive.sector[k]
          BY <1>0, <5>1 DEF IInv, Progress
        <5>3. QED
          BY <1>4, <5>1, <5>2
      <4>3. QED
        BY <4>1, <4>2
    <3>3. drive'.sector = drive.sector
      BY <1>1, <1>3, MovedFacts
    <3>4. QED
      BY <1>0, <2>1, <3>1, <3>2, <3>3 DEF Progress
  <2>6. QED
    BY <2>2, <2>3, <2>4, <2>5 DEF IInv, InTransfer
<1>8. CASE ~ (w + 1 < WORDS)
  <2>1. w' = 0 /\ s' = s + 1 /\ pc' = IF s + 1 < call.count THEN "wait_bsy" ELSE "return"
    BY <1>0, <1>8 DEF inw, count_word, AfterSector
  <2>2. w + 1 = WORDS
    BY <1>1, <1>5, <1>8
  <2>3. /\ drive'.op = drive.op /\ drive'.full = drive.full /\ drive' \in DriveRecord
        /\ drive'.state = IF drive.left = 1 THEN "idle" ELSE "busy"
        /\ drive'.addr = drive.addr + 1 /\ drive'.left = drive.left - 1
    BY <1>0, <1>1, <1>3, <1>8, MovedFacts
  <2>4. TypeOK'
    BY <1>0, <1>1, <1>4, <1>5, <2>1, <2>3 DEF IInv, TypeOK
  <2>5. OutsideTransfer'
    BY <1>1, <2>1, <2>3 DEF OutsideTransfer, Settled
  <2>6. InTransfer'
    <3>1. CASE s + 1 < call.count
      BY <1>0, <1>1, <2>1, <2>3, <3>1 DEF InTransfer, SameSector, SameWord
    <3>2. CASE ~ (s + 1 < call.count)
      BY <2>1, <3>2 DEF InTransfer
    <3>3. QED
      BY <3>1, <3>2
  <2>7. Progress'
    <3>1. Len(buf') = s' * WORDS + w'
      BY <1>1, <1>4, <1>5, <1>6, <2>1, <2>2
    <3>2. QED
      BY <1>0, <1>1, <2>1, <3>1 DEF Progress
  <2>8. QED
    BY <2>4, <2>5, <2>6, <2>7 DEF IInv
<1>9. QED
  BY <1>7, <1>8

LEMMA OutwInv == IInv /\ outw => IInv'
<1> SUFFICES ASSUME IInv, outw PROVE IInv'
  OBVIOUS
<1>0. pc = "data" /\ call.op = "write" /\ UNCHANGED <<medium, call, buf>>
  BY DEF outw
<1>1. /\ call \in Call /\ drive \in DriveRecord /\ SameSector /\ SameWord
      /\ drive.state = "drq" /\ ~ drive.full /\ drive.pos = w /\ drive.op = call.op
      /\ drive.addr = call.lba + s /\ drive.addr \in Lba /\ drive.left = call.count - s
      /\ drive.left >= 1 /\ call.lba \in Nat /\ call.count \in Nat
      /\ s \in 0 .. call.count - 1 /\ w \in 0 .. WORDS - 1
  BY <1>0, DataFacts
<1> DEFINE d == [drive EXCEPT !.sector[w + 1] = call.data[s + 1][w + 1]]
<1>2. call.data[s + 1] \in Sector /\ w + 1 \in 1 .. WORDS /\ WORDS \in Nat \ {0}
  BY <1>0, <1>1, CallFacts, Sizes
<1>3. /\ d \in DriveRecord /\ d.left = drive.left /\ d.op = drive.op /\ d.pos = drive.pos
      /\ d.state = drive.state /\ d.addr = drive.addr /\ d.full = drive.full
      /\ d.sector = [drive.sector EXCEPT ![w + 1] = call.data[s + 1][w + 1]]
      /\ d.shown = drive.shown
  BY <1>1, <1>2 DEF DriveRecord, Sector
<1>4. drive' = Moved(d)
  BY <1>0, <1>1 DEF outw
<1> HIDE DEF d
<1>5. CASE w + 1 < WORDS
  <2>1. w' = w + 1 /\ s' = s /\ pc' = pc
    BY <1>5 DEF outw, count_word
  <2>2. /\ drive' \in DriveRecord /\ drive'.op = drive.op /\ drive'.sector = d.sector
        /\ drive'.pos = w + 1 /\ drive'.state = "drq" /\ drive'.addr = drive.addr
        /\ drive'.left = drive.left /\ drive'.full = drive.full
    BY <1>1, <1>3, <1>4, <1>5, MovedFacts
  <2>3. TypeOK'
    BY <1>0, <1>1, <1>2, <1>5, <2>1, <2>2 DEF IInv, TypeOK
  <2>4. SameSector'
    BY <1>0, <1>1, <2>1, <2>2 DEF SameSector
  <2>5. SameWord'
    <3>1. ASSUME NEW k \in 1 .. w + 1
          PROVE  drive'.sector[k] = call.data[s + 1][k]
      <4>1. drive.sector \in Sector
        BY <1>1 DEF DriveRecord
      <4>2. CASE k = w + 1
        BY <1>1, <1>2, <1>3, <2>2, <4>1, <4>2 DEF Sector
      <4>3. CASE k # w + 1
        <5>1. k \in 1 .. w /\ k \in 1 .. WORDS
          BY <1>1, <1>2, <4>3
        <5>2. drive.sector[k] = call.data[s + 1][k]
          BY <1>0, <1>1, <5>1 DEF SameWord
        <5>3. QED
          BY <1>2, <1>3, <2>2, <4>1, <4>3, <5>1, <5>2 DEF Sector
      <4>4. QED
        BY <4>2, <4>3
    <3>2. QED
      BY <1>0, <1>1, <2>1, <2>2, <3>1 DEF SameWord
  <2>6. OutsideTransfer' /\ Progress'
    BY <1>0, <2>1 DEF OutsideTransfer, Progress
  <2>7. QED
    BY <2>3, <2>4, <2>5, <2>6 DEF IInv, InTransfer
<1>6. CASE ~ (w + 1 < WORDS)
  <2>1. w' = 0 /\ s' = s + 1 /\ pc' = IF s + 1 < call.count THEN "wait_bsy" ELSE "wait_end"
    BY <1>0, <1>6 DEF outw, count_word, AfterSector
  <2>2. /\ drive' \in DriveRecord /\ drive'.op = drive.op /\ drive'.full = TRUE
        /\ drive'.state = "busy" /\ drive'.addr = drive.addr /\ drive'.left = drive.left
    BY <1>0, <1>1, <1>3, <1>4, <1>6, MovedFacts
  <2>3. TypeOK'
    BY <1>0, <1>1, <1>2, <2>1, <2>2 DEF IInv, TypeOK
  <2>4. OutsideTransfer'
    BY <1>1, <2>1, <2>2 DEF OutsideTransfer, Settled
  <2>5. InTransfer'
    <3>1. CASE s + 1 < call.count
      BY <1>0, <1>1, <2>1, <2>2, <3>1 DEF InTransfer, SameSector, SameWord
    <3>2. CASE ~ (s + 1 < call.count)
      BY <2>1, <3>2 DEF InTransfer
    <3>3. QED
      BY <3>1, <3>2
  <2>6. Progress'
    BY <1>0, <1>1, <2>1 DEF Progress
  <2>7. QED
    BY <2>3, <2>4, <2>5, <2>6 DEF IInv
<1>7. QED
  BY <1>5, <1>6

LEMMA NextInv == IInv /\ [Next]_vars => IInv'
<1>1. IInv /\ UNCHANGED vars => IInv'
  BY DEF vars, driver, IInv, TypeOK, OutsideTransfer, Settled, InTransfer, SameSector, SameWord, Progress
<1>2. QED
  BY <1>1, StoreInv, RequestInv, FailInv, CallInv, WaitReadyInv, CommandInv, WaitBsyInv,
     WaitDrqInv, InwInv, OutwInv, WaitEndInv, ReturnInv DEF Next, Driver, Drive

-----------------------------------------------------------------------------
(* The refinement.  What the words in a buffer are as sectors.             *)
Sectors(b) ==
  [n \in 1 .. Len(b) \div WORDS |-> SubSeq(b, (n - 1) * WORDS + 1, n * WORDS)]

(* A multiple is not smaller than the ones before it. *)
LEMMA Multiples ==
  ASSUME NEW n \in Nat, NEW m \in Nat, m < n
  PROVE  m * WORDS + WORDS <= n * WORDS /\ m * WORDS \in Nat /\ n * WORDS \in Nat
<1>1. PICK d \in Nat : n = m + 1 + d
  <2>1. n - m - 1 \in Nat /\ n = m + 1 + (n - m - 1)
    OBVIOUS
  <2>2. QED
    BY <2>1
<1>2. WORDS \in Nat
  BY Sizes
<1>3. n * WORDS = m * WORDS + WORDS + d * WORDS /\ d * WORDS \in Nat
  BY <1>1, <1>2
<1>4. QED
  BY <1>2, <1>3, NextMultiple

LEMMA SectorsIs ==
  ASSUME NEW b \in Seq(Word), NEW n \in Nat, NEW k \in 0 .. WORDS - 1,
         Len(b) = n * WORDS + k
  PROVE  /\ Sectors(b) = [i \in 1 .. n |-> SubSeq(b, (i - 1) * WORDS + 1, i * WORDS)]
         /\ Sectors(b) \in Seq(Sector)
         /\ Len(Sectors(b)) = n
         /\ \A i \in 1 .. n, j \in 1 .. WORDS : Sectors(b)[i][j] = b[(i - 1) * WORDS + j]
<1>1. Len(b) \div WORDS = n
  <2>1. Len(b) = WORDS * n + k /\ Len(b) \in Nat /\ WORDS \in Nat \ {0}
    BY Sizes, LenProperties
  <2>2. QED
    BY <2>1, DivUnique
<1>2. Sectors(b) = [i \in 1 .. n |-> SubSeq(b, (i - 1) * WORDS + 1, i * WORDS)]
  BY <1>1 DEF Sectors
<1>3. ASSUME NEW i \in 1 .. n
      PROVE  /\ SubSeq(b, (i - 1) * WORDS + 1, i * WORDS) \in Sector
             /\ \A j \in 1 .. WORDS :
                  SubSeq(b, (i - 1) * WORDS + 1, i * WORDS)[j] = b[(i - 1) * WORDS + j]
  <2> DEFINE p == (i - 1) * WORDS
             q == i * WORDS
             r == SubSeq(b, p + 1, q)
  <2>1. p \in Nat /\ q \in Nat /\ q = p + WORDS /\ WORDS \in Nat \ {0}
    <3>1. i - 1 \in Nat /\ (i - 1) + 1 = i
      OBVIOUS
    <3>2. QED
      BY <3>1, NextMultiple, Sizes
  <2>2. q <= Len(b)
    <3>1. n * WORDS \in Nat /\ (i = n \/ i * WORDS + WORDS <= n * WORDS)
      BY NextMultiple, Multiples
    <3>2. QED
      BY <2>1, <3>1
  <2> HIDE DEF p, q
  <2>3. \A j \in p + 1 .. q : b[j] \in Word
    BY <2>1, <2>2
  <2>4. /\ r \in Seq(Word) /\ Len(r) = WORDS
        /\ \A j \in 1 .. q - (p + 1) + 1 : r[j] = b[(p + 1) + j - 1]
    BY <2>1, <2>3, SubSeqProperties
  <2>5. r \in Sector
    BY <2>1, <2>4, LenProperties DEF Sector
  <2>6. \A j \in 1 .. WORDS : r[j] = b[p + j]
    BY <2>1, <2>4
  <2>7. QED
    BY <2>5, <2>6 DEF p, q
<1>4. Sectors(b) \in [1 .. n -> Sector]
  BY <1>2, <1>3
<1>5. Sectors(b) \in Seq(Sector) /\ Len(Sectors(b)) = n
  BY <1>4, SeqDef, LenProperties
<1>6. QED
  BY <1>2, <1>3, <1>5

(* A word in the middle of a sector leaves the sectors before it alone. *)
LEMMA PartOfSector ==
  ASSUME NEW b \in Seq(Word), NEW x \in Word, NEW n \in Nat, NEW k \in 0 .. WORDS - 1,
         Len(b) = n * WORDS + k
  PROVE  \A i \in 1 .. n, j \in 1 .. WORDS :
           Append(b, x)[(i - 1) * WORDS + j] = b[(i - 1) * WORDS + j]
<1> SUFFICES ASSUME NEW i \in 1 .. n, NEW j \in 1 .. WORDS
             PROVE  Append(b, x)[(i - 1) * WORDS + j] = b[(i - 1) * WORDS + j]
  OBVIOUS
<1> DEFINE p == (i - 1) * WORDS
<1>1. p \in Nat /\ p + WORDS <= n * WORDS /\ n * WORDS \in Nat
  BY Multiples
<1> HIDE DEF p
<1>2. p + j \in 1 .. Len(b)
  BY <1>1, Sizes
<1>3. Append(b, x)[p + j] = b[p + j]
  BY <1>2, AppendProperties
<1>4. QED
  BY <1>3 DEF p

(* Sectors are equal when their words are. *)
LEMMA SameWords ==
  ASSUME NEW x \in Sector, NEW y \in Sector, \A j \in 1 .. WORDS : x[j] = y[j]
  PROVE  x = y
<1>1. x = [j \in 1 .. WORDS |-> x[j]] /\ y = [j \in 1 .. WORDS |-> y[j]]
  BY Zenon DEF Sector
<1>2. QED
  BY <1>1, Zenon

LEMMA SameSectors ==
  ASSUME NEW a \in Seq(Sector), NEW b \in Seq(Sector), Len(a) = Len(b),
         \A i \in 1 .. Len(a), j \in 1 .. WORDS : a[i][j] = b[i][j]
  PROVE  a = b
<1>1. ASSUME NEW i \in 1 .. Len(a)
      PROVE  a[i] = b[i]
  <2>1. a[i] \in Sector /\ b[i] \in Sector
    OBVIOUS
  <2>2. QED
    BY <2>1, SameWords
<1>2. QED
  BY <1>1, SeqEqual

(* The contents of the disk, as calls find them. *)
Stored == IF drive.full THEN [medium EXCEPT ![drive.addr] = drive.sector] ELSE medium

(* Steps that move no word, start no call and end none change nothing that *)
(* a caller can see.                                                       *)
LEMMA Stutters ==
  ASSUME UNCHANGED <<call, s, buf>>, Stored' = Stored
  PROVE  UNCHANGED Device!vars
BY DEF Stored, Device!vars

LEMMA StatusStutters ==
  ASSUME IInv, UNCHANGED <<medium, call, s, buf>>, NEW seen, inb_status(seen)
  PROVE  UNCHANGED Device!vars
BY StatusFacts, Stutters DEF Stored

LEMMA DriveRefines ==
  ASSUME IInv, Drive
  PROVE  UNCHANGED Device!vars
<1>1. UNCHANGED <<call, s, buf>>
  BY DEF Drive, store, request, fail, driver
<1>2. CASE store
  <2>1. drive.full /\ ~ drive'.full
    <3>1. drive.full /\ drive.left \in Nat
      BY <1>2 DEF store, IInv, TypeOK, DriveRecord
    <3>2. QED
      BY <1>2, <3>1 DEF store, Becomes, IInv, TypeOK, DriveRecord
  <2>2. Stored' = Stored
    BY <1>2, <2>1 DEF store, Stored
  <2>3. QED
    BY <1>1, <2>2, Stutters
<1>3. CASE request \/ fail
  <2>1. ~ drive.full /\ ~ drive'.full /\ medium' = medium
    BY <1>3 DEF request, fail, Becomes, IInv, TypeOK, DriveRecord
  <2>2. Stored' = Stored
    BY <2>1 DEF Stored
  <2>3. QED
    BY <1>1, <2>2, Stutters
<1>4. QED
  BY <1>2, <1>3 DEF Drive

LEMMA CallRefines ==
  ASSUME IInv, call_driver
  PROVE  \E c \in Call : Device!Begin(c)
<1>1. /\ call = NoCall /\ call' \in Call /\ s' = 0 /\ buf' = <<>>
      /\ UNCHANGED <<medium, drive>>
  BY DEF call_driver, IInv, TypeOK
<1>2. Sectors(buf') = <<>>
  <2>1. <<>> \in Seq(Word) /\ Len(<<>>) = 0 * WORDS + 0 /\ 0 \in 0 .. WORDS - 1
    BY Sizes
  <2>2. Sectors(<<>>) \in Seq(Sector) /\ Len(Sectors(<<>>)) = 0
    BY <2>1, SectorsIs
  <2>3. QED
    BY <1>1, <2>2
<1>3. QED
  BY <1>1, <1>2 DEF Device!Begin, Sectors

LEMMA ReturnRefines ==
  ASSUME IInv, return
  PROVE  Device!Return
<1>1. /\ call \in Call /\ s = call.count /\ call' = NoCall
      /\ UNCHANGED <<medium, drive, s, buf>>
  BY DEF return, IInv, TypeOK, Progress
<1>2. QED
  BY <1>1, CallFacts DEF Device!Return

LEMMA InwRefines ==
  ASSUME IInv, IInv', inw
  PROVE  Device!ReadSector \/ UNCHANGED Device!vars
<1>0. pc = "data" /\ call.op = "read" /\ UNCHANGED <<medium, call>>
  BY DEF inw
<1>1. /\ call \in Call /\ drive \in DriveRecord /\ SameSector /\ SameWord
      /\ drive.state = "drq" /\ ~ drive.full /\ drive.pos = w /\ drive.op = call.op
      /\ drive.addr = call.lba + s /\ drive.addr \in Lba /\ drive.left >= 1
      /\ s \in 0 .. call.count - 1 /\ w \in 0 .. WORDS - 1
      /\ call.lba \in Nat /\ call.count \in Nat
  BY <1>0, DataFacts
<1> DEFINE word == drive.sector[w + 1]
<1>2. /\ word \in Word /\ buf \in Seq(Word) /\ WORDS \in Nat \ {0}
      /\ drive.sector \in Sector /\ drive.sector = medium[drive.addr]
  BY <1>0, <1>1, Sizes DEF DriveRecord, Sector, IInv, TypeOK, SameWord
<1>3. buf' = Append(buf, word) /\ drive' = Moved(drive) /\ ~ drive'.full
  BY <1>0, <1>1, MovedFacts DEF inw
<1>4. Stored' = Stored /\ Stored = medium
  BY <1>0, <1>1, <1>3 DEF Stored
<1>5. Len(buf) = s * WORDS + w /\ s \in Nat
  BY <1>0, <1>1 DEF IInv, Progress
<1>6. /\ Sectors(buf) \in Seq(Sector) /\ Len(Sectors(buf)) = s
      /\ \A i \in 1 .. s, j \in 1 .. WORDS : Sectors(buf)[i][j] = buf[(i - 1) * WORDS + j]
  BY <1>1, <1>2, <1>5, SectorsIs
<1>7. /\ buf' \in Seq(Word) /\ Len(buf') = Len(buf) + 1 /\ buf'[Len(buf) + 1] = word
      /\ \A k \in 1 .. Len(buf) : buf'[k] = buf[k]
  BY <1>2, <1>3, AppendProperties
<1>8. \A i \in 1 .. s, j \in 1 .. WORDS : buf'[(i - 1) * WORDS + j] = buf[(i - 1) * WORDS + j]
  BY <1>1, <1>2, <1>3, <1>5, PartOfSector
<1>9. s * WORDS \in Nat /\ (s + 1) * WORDS = s * WORDS + WORDS
  BY <1>5, NextMultiple
<1> HIDE DEF word
<1>10. CASE w + 1 < WORDS
  <2>1. s' = s
    BY <1>10 DEF inw, count_word
  <2>2. Len(buf') = s * WORDS + (w + 1) /\ w + 1 \in 0 .. WORDS - 1
    BY <1>1, <1>2, <1>5, <1>7, <1>9, <1>10
  <2>3. /\ Sectors(buf') \in Seq(Sector) /\ Len(Sectors(buf')) = s
        /\ \A i \in 1 .. s, j \in 1 .. WORDS : Sectors(buf')[i][j] = buf'[(i - 1) * WORDS + j]
    <3>1. PICK n \in Nat : n = s
      BY <1>5
    <3>2. PICK b \in Seq(Word) : b = buf'
      BY <1>7
    <3>3. PICK k \in 0 .. WORDS - 1 : k = w + 1
      BY <2>2
    <3>4. Len(b) = n * WORDS + k
      BY <2>2, <3>1, <3>2, <3>3
    <3>5. /\ Sectors(b) \in Seq(Sector) /\ Len(Sectors(b)) = n
          /\ \A i \in 1 .. n, j \in 1 .. WORDS : Sectors(b)[i][j] = b[(i - 1) * WORDS + j]
      BY <3>4, SectorsIs
    <3>6. QED
      BY <3>1, <3>2, <3>5
  <2>4. Sectors(buf') = Sectors(buf)
    BY <1>6, <1>8, <2>3, SameSectors
  <2>5. QED
    BY <1>0, <1>4, <2>1, <2>4 DEF Device!vars, Stored, Sectors
<1>11. CASE ~ (w + 1 < WORDS)
  <2>1. s' = s + 1 /\ w + 1 = WORDS
    BY <1>1, <1>2, <1>11 DEF inw, count_word
  <2>2. Len(buf') = (s + 1) * WORDS + 0 /\ 0 \in 0 .. WORDS - 1
    <3> DEFINE p == s * WORDS
               q == (s + 1) * WORDS
    <3>1. Len(buf) = p + w /\ p \in Nat /\ q = p + WORDS
      BY <1>5, <1>9
    <3> HIDE DEF p, q
    <3>2. Len(buf') = q + 0 /\ 0 \in 0 .. WORDS - 1
      BY <1>1, <1>2, <1>7, <2>1, <3>1
    <3>3. QED
      BY <3>2 DEF q
  <2>3. /\ Sectors(buf') \in Seq(Sector) /\ Len(Sectors(buf')) = s + 1
        /\ \A i \in 1 .. s + 1, j \in 1 .. WORDS : Sectors(buf')[i][j] = buf'[(i - 1) * WORDS + j]
    <3>1. PICK n \in Nat : n = s + 1
      BY <1>5
    <3>2. PICK b \in Seq(Word) : b = buf'
      BY <1>7
    <3>3. Len(b) = n * WORDS + 0
      BY <2>2, <3>1, <3>2
    <3>4. /\ Sectors(b) \in Seq(Sector) /\ Len(Sectors(b)) = n
          /\ \A i \in 1 .. n, j \in 1 .. WORDS : Sectors(b)[i][j] = b[(i - 1) * WORDS + j]
      BY <2>2, <3>3, SectorsIs
    <3>5. QED
      BY <3>1, <3>2, <3>4
  <2> DEFINE more == Append(Sectors(buf), drive.sector)
  <2>4. /\ more \in Seq(Sector) /\ Len(more) = s + 1 /\ more[s + 1] = drive.sector
        /\ \A i \in 1 .. s : more[i] = Sectors(buf)[i]
    BY <1>2, <1>6, AppendProperties
  <2> HIDE DEF more
  <2>5. ASSUME NEW i \in 1 .. s + 1, NEW j \in 1 .. WORDS
        PROVE  Sectors(buf')[i][j] = more[i][j]
    <3>1. CASE i <= s
      BY <1>5, <1>6, <1>8, <2>3, <2>4, <3>1
    <3>2. CASE i = s + 1
      <4>1. Sectors(buf')[s + 1][j] = buf'[s * WORDS + j]
        BY <1>5, <2>3
      <4>2. CASE j = w + 1
        BY <1>1, <1>5, <1>7, <1>9, <2>4, <3>2, <4>1, <4>2 DEF word
      <4>3. CASE j # w + 1
        <5>1. j \in 1 .. w /\ s * WORDS + j \in 1 .. Len(buf)
          <6> DEFINE p == s * WORDS
          <6>1. Len(buf) = p + w /\ p \in Nat
            BY <1>5, <1>9
          <6> HIDE DEF p
          <6>2. j \in 1 .. w /\ p + j \in 1 .. Len(buf)
            BY <1>1, <1>2, <2>1, <4>3, <6>1
          <6>3. QED
            BY <6>2 DEF p
        <5>2. buf[s * WORDS + j] = drive.sector[j]
          BY <1>0, <5>1 DEF IInv, Progress
        <5>3. QED
          BY <1>7, <2>4, <3>2, <4>1, <5>1, <5>2
      <4>4. QED
        BY <4>2, <4>3
    <3>3. QED
      BY <1>5, <3>1, <3>2
  <2>6. Sectors(buf') = more
    BY <2>3, <2>4, <2>5, SameSectors
  <2>7. Sectors(buf') = Append(Sectors(buf), Stored[call.lba + s])
    BY <1>1, <1>2, <1>4, <2>6 DEF more
  <2>8. call # NoCall /\ s < call.count
    BY <1>1, CallFacts
  <2>9. Device!ReadSector
    BY <1>0, <1>4, <2>1, <2>7, <2>8 DEF Device!ReadSector, Stored, Sectors
  <2>10. QED
    BY <2>9
<1>12. QED
  BY <1>10, <1>11

LEMMA OutwRefines ==
  ASSUME IInv, IInv', outw
  PROVE  Device!WriteSector \/ UNCHANGED Device!vars
<1>0. pc = "data" /\ call.op = "write" /\ UNCHANGED <<medium, call, buf>>
  BY DEF outw
<1>1. /\ call \in Call /\ drive \in DriveRecord /\ SameSector /\ SameWord
      /\ drive.state = "drq" /\ ~ drive.full /\ drive.pos = w /\ drive.op = call.op
      /\ drive.addr = call.lba + s /\ drive.addr \in Lba /\ drive.left >= 1
      /\ s \in 0 .. call.count - 1 /\ w \in 0 .. WORDS - 1
      /\ call.lba \in Nat /\ call.count \in Nat
  BY <1>0, DataFacts
<1> DEFINE d == [drive EXCEPT !.sector[w + 1] = call.data[s + 1][w + 1]]
<1>2. call.data[s + 1] \in Sector /\ w + 1 \in 1 .. WORDS /\ WORDS \in Nat \ {0}
  BY <1>0, <1>1, CallFacts, Sizes
<1>3. /\ d \in DriveRecord /\ d.left = drive.left /\ d.op = drive.op /\ d.pos = drive.pos
      /\ d.addr = drive.addr /\ d.full = drive.full
      /\ d.sector = [drive.sector EXCEPT ![w + 1] = call.data[s + 1][w + 1]]
  BY <1>1, <1>2 DEF DriveRecord, Sector
<1>4. drive' = Moved(d)
  BY <1>0, <1>1 DEF outw
<1> HIDE DEF d
<1>5. CASE w + 1 < WORDS
  <2>1. s' = s
    BY <1>5 DEF outw, count_word
  <2>2. ~ drive'.full
    BY <1>1, <1>3, <1>4, <1>5, MovedFacts
  <2>3. Stored' = Stored
    BY <1>0, <1>1, <2>2 DEF Stored
  <2>4. QED
    BY <1>0, <2>1, <2>3, Stutters
<1>6. CASE ~ (w + 1 < WORDS)
  <2>1. s' = s + 1 /\ w + 1 = WORDS
    BY <1>1, <1>2, <1>6 DEF outw, count_word
  <2>2. drive'.full /\ drive'.addr = drive.addr /\ drive'.sector = d.sector
    BY <1>0, <1>1, <1>3, <1>4, <1>6, MovedFacts
  <2>3. d.sector = call.data[s + 1]
    <3>1. drive.sector \in Sector /\ d.sector \in Sector
      BY <1>1, <1>3 DEF DriveRecord
    <3>2. \A k \in 1 .. w : drive.sector[k] = call.data[s + 1][k]
      BY <1>0, <1>1 DEF SameWord
    <3>3. ASSUME NEW k \in 1 .. WORDS
          PROVE  d.sector[k] = call.data[s + 1][k]
      <4>1. CASE k = w + 1
        BY <1>2, <1>3, <3>1, <4>1 DEF Sector
      <4>2. CASE k # w + 1
        <5>1. k \in 1 .. w
          BY <1>1, <1>2, <2>1, <4>2
        <5>2. d.sector[k] = drive.sector[k]
          BY <1>2, <1>3, <3>1, <4>2 DEF Sector
        <5>3. QED
          BY <3>2, <5>1, <5>2
      <4>3. QED
        BY <4>1, <4>2
    <3>4. QED
      BY <1>2, <3>1, <3>3, SameWords
  <2>4. Stored' = [Stored EXCEPT ![call.lba + s] = call.data[s + 1]]
    BY <1>0, <1>1, <2>2, <2>3 DEF Stored
  <2>5. call # NoCall /\ s < call.count
    BY <1>1, CallFacts
  <2>6. Device!WriteSector
    BY <1>0, <2>1, <2>4, <2>5 DEF Device!WriteSector, Stored
  <2>7. QED
    BY <2>6
<1>7. QED
  BY <1>5, <1>6

(* Whatever the pace of the drive and however its status lags, the driver *)
(* gives its callers numbered sectors: a read returns what the sectors it  *)
(* names hold, each once and in their order, and a write changes those it  *)
(* names and no others, to what it was given.                              *)
THEOREM Refinement == Spec => ImplementsBlockDevice
<1>1. Init => IInv /\ Device!Init
  <2> SUFFICES ASSUME Init PROVE Device!Init
    BY InitInv
  <2>1. <<>> \in Seq(Word) /\ Len(<<>>) = 0 * WORDS + 0 /\ 0 \in 0 .. WORDS - 1
    BY Sizes
  <2>2. Sectors(<<>>) \in Seq(Sector) /\ Len(Sectors(<<>>)) = 0
    BY <2>1, SectorsIs
  <2>3. Sectors(buf) = <<>>
    BY <2>2 DEF Init
  <2>4. QED
    BY <2>3 DEF Init, Device!Init, Sectors
<1>2. IInv /\ [Next]_vars => IInv'
  BY NextInv
<1>3. IInv /\ IInv' /\ [Next]_vars => [Device!Next]_(Device!vars)
  <2> SUFFICES ASSUME IInv, IInv', [Next]_vars
               PROVE  [Device!Next]_(Device!vars)
    OBVIOUS
  <2>1. CASE Drive
    BY <2>1, DriveRefines
  <2>2. CASE call_driver
    BY <2>2, CallRefines DEF Device!Next
  <2>3. CASE wait_ready \/ wait_bsy \/ wait_drq \/ wait_end
    BY <2>3, StatusStutters
       DEF wait_ready, wait_bsy, wait_drq, wait_end, pata_wait_bsy, pata_wait_drq
  <2>4. CASE command
    <3>1. ~ drive.full /\ ~ drive'.full /\ UNCHANGED <<medium, call, s, buf>>
      BY <2>4 DEF command, Accept, Reacts, IInv, TypeOK, DriveRecord, OutsideTransfer
    <3>2. QED
      BY <3>1, Stutters DEF Stored
  <2>5. CASE inw
    BY <2>5, InwRefines DEF Device!Next
  <2>6. CASE outw
    BY <2>6, OutwRefines DEF Device!Next
  <2>7. CASE return
    BY <2>7, ReturnRefines DEF Device!Next
  <2>8. CASE UNCHANGED vars
    BY <2>8, Stutters DEF vars, driver, Stored
  <2>9. QED
    BY <2>1, <2>2, <2>3, <2>4, <2>5, <2>6, <2>7, <2>8 DEF Next, Driver
<1>4. QED
  BY <1>1, <1>2, <1>3, PTL DEF Spec, ImplementsBlockDevice, Device!Spec

------------------------------------------------------------------------------
(***************************************************************************)
(* Tar.                                                                    *)
(***************************************************************************)
LEMMA LeastExists ==
  ASSUME NEW S \in SUBSET Nat, S # {}
  PROVE  \E f \in S : \A g \in S : f <= g
<1>1. PICK f \in S : \A g \in S : ~ (<<g, f>> \in OpToRel(<, Nat))
  BY NatLessThanWellFounded, WFMin
<1>2. \A g \in S : ~ (g < f)
  BY <1>1 DEF OpToRel
<1>3. QED
  BY <1>2

(* A loop over the members of a sequence with a state in V: round k makes  *)
(* step[k][x] of x.                                                        *)
IsRun(f, V, n, a, step) ==
  /\ f \in [0 .. n -> V]
  /\ f[0] = a
  /\ \A k \in 1 .. n : f[k] = step[k][f[k - 1]]

LEMMA RunExists ==
  ASSUME NEW n \in Nat, NEW V, NEW a \in V, NEW step \in [1 .. n -> [V -> V]]
  PROVE  \E f : IsRun(f, V, n, a, step)
<1> DEFINE Runs(m) == \E f : IsRun(f, V, m, a, step)
           Stuck == {m \in Nat : m <= n /\ ~ Runs(m)}
<1> HIDE DEF Runs
<1>1. SUFFICES ASSUME Stuck # {} PROVE FALSE
  <2>1. n \notin Stuck => Runs(n)
    OBVIOUS
  <2> HIDE DEF Stuck
  <2>2. QED
    BY <2>1 DEF Runs
<1>2. PICK m \in Stuck : \A l \in Stuck : m <= l
  BY <1>1, LeastExists
<1>3. m # 0
  <2>1. IsRun([k \in 0 .. 0 |-> a], V, 0, a, step)
    BY DEF IsRun
  <2>2. Runs(0)
    BY <2>1 DEF Runs
  <2>3. QED
    BY <2>2
<1>4. m - 1 \in Nat /\ m - 1 \notin Stuck /\ m - 1 <= n
  BY <1>2, <1>3
<1>5. PICK f : IsRun(f, V, m - 1, a, step)
  BY <1>4 DEF Runs
<1> DEFINE g == [k \in 0 .. m |-> IF k = m THEN step[m][f[m - 1]] ELSE f[k]]
<1>6. f \in [0 .. m - 1 -> V] /\ f[0] = a /\ \A k \in 1 .. m - 1 : f[k] = step[k][f[k - 1]]
  BY <1>5 DEF IsRun
<1>7. step[m][f[m - 1]] \in V
  <2>1. f[m - 1] \in V /\ m \in 1 .. n
    BY <1>2, <1>3, <1>4, <1>6
  <2>2. step[m] \in [V -> V]
    BY <2>1
  <2>3. QED
    BY <2>1, <2>2
<1>8. g \in [0 .. m -> V]
  <2>1. ASSUME NEW k \in 0 .. m PROVE g[k] \in V
    <3>1. k = m \/ k \in 0 .. m - 1
      BY <1>4
    <3>2. QED
      BY <1>6, <1>7, <3>1
  <2>2. QED
    BY <2>1
<1>9. \A k \in 0 .. m - 1 : g[k] = f[k]
  BY <1>4
<1>10. \A k \in 1 .. m : g[k] = step[k][g[k - 1]]
  <2> SUFFICES ASSUME NEW k \in 1 .. m PROVE g[k] = step[k][g[k - 1]]
    OBVIOUS
  <2>1. k - 1 \in 0 .. m - 1
    BY <1>4
  <2>2. CASE k = m
    BY <1>9, <2>1, <2>2
  <2>3. CASE k # m
    <3>1. k \in 1 .. m - 1 /\ k \in 0 .. m - 1
      BY <1>4, <2>3
    <3>2. QED
      BY <1>6, <1>9, <2>1, <3>1
  <2>4. QED
    BY <2>2, <2>3
<1>11. g[0] = a
  BY <1>4, <1>6, <1>9
<1>12. IsRun(g, V, m, a, step)
  <2> HIDE DEF g
  <2> QED
    BY <1>8, <1>10, <1>11 DEF IsRun
<1>13. QED
  BY <1>2, <1>12 DEF Runs

LEMMA ModOfLess ==
  ASSUME NEW n \in Nat, NEW m \in Nat \ {0}, n < m
  PROVE  n % m = n
<1> DEFINE q == n \div m
           r == n % m
<1>1. q \in Int /\ r \in 0 .. m - 1 /\ n = m * q + r
  BY SMTT(20)
<1> HIDE DEF q, r
<1>2. ~ (q >= 1)
  <2>1. SUFFICES ASSUME q >= 1 PROVE FALSE
    OBVIOUS
  <2>2. m * q >= m
    BY <1>1, <2>1
  <2>3. m * q \in Int
    BY <1>1
  <2>4. QED
    BY <1>1, <2>2, <2>3
<1>3. ~ (q <= -1)
  <2>1. SUFFICES ASSUME q <= -1 PROVE FALSE
    OBVIOUS
  <2>2. m * q <= - m
    BY <1>1, <2>1
  <2>3. m * q \in Int
    BY <1>1
  <2>4. QED
    BY <1>1, <2>2, <2>3
<1>4. q = 0
  BY <1>1, <1>2, <1>3
<1>5. QED
  BY <1>1, <1>4 DEF r

(* Blocks of a size: enough, and in the padding less than one too many. *)
LEMMA BlocksHold ==
  ASSUME NEW size \in Nat
  PROVE  Blocks(size) \in Nat /\ Blocks(size) * BLOCK \in Nat /\ size <= Blocks(size) * BLOCK
<1>0. BLOCK \in Nat /\ BLOCK > 0
  BY TarAssumption
<1> DEFINE n == size + BLOCK - 1
           q == n \div BLOCK
           r == n % BLOCK
<1>1. q \in Int /\ r \in 0 .. BLOCK - 1 /\ n = BLOCK * q + r
  BY <1>0, SMTT(20)
<1> HIDE DEF q, r
<1>2. BLOCK * q \in Int /\ size <= BLOCK * q
  BY <1>0, <1>1
<1>3. q >= 0
  <2>1. SUFFICES ASSUME q <= -1 PROVE FALSE
    BY <1>1
  <2>2. BLOCK * q <= - BLOCK
    BY <1>0, <1>1, <2>1
  <2>3. QED
    BY <1>0, <1>2, <2>2
<1>4. BLOCK * q = q * BLOCK
  BY <1>0, <1>1
<1>5. QED
  BY <1>1, <1>2, <1>3, <1>4 DEF q, Blocks

-----------------------------------------------------------------------------
(* The digits of a size, each in its place. *)
Digits == Seq(-1 .. 7)

DigitStep(val) ==
  [k \in 1 .. Len(val) |-> [x \in Nat |-> IF val[k] < 0 THEN x ELSE x * 8 + val[k]]]

IsValue(f, val) ==
  f = [n \in 0 .. Len(val) |->
         IF n = 0 THEN 0 ELSE IF val[n] < 0 THEN f[n - 1] ELSE f[n - 1] * 8 + val[n]]

LEMMA DigitTyped ==
  ASSUME NEW val \in Digits
  PROVE  Len(val) \in Nat /\ \A k \in 1 .. Len(val) : val[k] \in Int /\ val[k] >= -1
<1> DEFINE Digit == -1 .. 7
<1>1. Len(val) \in Nat /\ \A k \in 1 .. Len(val) : val[k] \in Digit
  <2>1. val \in Seq(Digit)
    BY DEF Digits
  <2> HIDE DEF Digit
  <2>2. QED
    BY <2>1, ElementOfSeq, LenProperties
<1>2. \A d \in Digit : d \in Int /\ d >= -1
  OBVIOUS
<1> HIDE DEF Digit
<1>3. QED
  BY <1>1, <1>2

LEMMA ValueExists ==
  ASSUME NEW val \in Digits
  PROVE  \E f : IsValue(f, val)
<1> DEFINE L == Len(val)
<1>0. L \in Nat /\ \A k \in 1 .. L : val[k] \in Int /\ val[k] >= -1
  BY DigitTyped
<1>1. DigitStep(val) \in [1 .. L -> [Nat -> Nat]]
  <2>1. ASSUME NEW k \in 1 .. L, NEW x \in Nat
        PROVE  (IF val[k] < 0 THEN x ELSE x * 8 + val[k]) \in Nat
    BY <1>0
  <2>2. QED
    BY <2>1 DEF DigitStep
<1>2. PICK f : IsRun(f, Nat, L, 0, DigitStep(val))
  BY <1>0, <1>1, RunExists
<1>3. f \in [0 .. L -> Nat] /\ f[0] = 0 /\ \A k \in 1 .. L : f[k] = DigitStep(val)[k][f[k - 1]]
  BY <1>2 DEF IsRun
<1>4. ASSUME NEW n \in 0 .. L
      PROVE  f[n] = IF n = 0 THEN 0
                    ELSE IF val[n] < 0 THEN f[n - 1] ELSE f[n - 1] * 8 + val[n]
  <2>1. CASE n = 0
    BY <1>3, <2>1
  <2>2. CASE n # 0
    <3>1. n \in 1 .. L /\ n - 1 \in 0 .. L
      BY <1>0, <2>2
    <3>2. f[n - 1] \in Nat /\ f[n] = DigitStep(val)[n][f[n - 1]]
      BY <1>3, <3>1
    <3>3. QED
      BY <2>2, <3>1, <3>2 DEF DigitStep
  <2>3. QED
    BY <2>1, <2>2
<1>5. IsValue(f, val)
  BY <1>3, <1>4 DEF IsValue
<1>6. QED
  BY <1>5

(* A value's steps, from the definition. *)
LEMMA ValueSteps ==
  ASSUME NEW val \in Digits, NEW f, IsValue(f, val)
  PROVE  /\ f \in [0 .. Len(val) -> Nat] /\ f[0] = 0
         /\ \A k \in 1 .. Len(val) :
              f[k] = IF val[k] < 0 THEN f[k - 1] ELSE f[k - 1] * 8 + val[k]
<1> DEFINE L == Len(val)
           Wrong == {m \in Nat : m <= L /\ f[m] \notin Nat}
<1>0. L \in Nat /\ \A k \in 1 .. L : val[k] \in Int /\ val[k] >= -1
  BY DigitTyped
<1>1. f[0] = 0
  BY <1>0 DEF IsValue
<1>2. ASSUME NEW k \in 1 .. L
      PROVE  f[k] = IF val[k] < 0 THEN f[k - 1] ELSE f[k - 1] * 8 + val[k]
  <2>1. k \in 0 .. L /\ k # 0
    BY <1>0
  <2>2. f[k] = IF k = 0 THEN 0 ELSE IF val[k] < 0 THEN f[k - 1] ELSE f[k - 1] * 8 + val[k]
    BY <2>1 DEF IsValue
  <2>3. QED
    BY <2>1, <2>2
<1>3. Wrong = {}
  <2>1. SUFFICES ASSUME Wrong # {} PROVE FALSE
    OBVIOUS
  <2>2. PICK m \in Wrong : \A l \in Wrong : m <= l
    BY <2>1, LeastExists
  <2>3. m \in 1 .. L /\ m - 1 \in Nat
    BY <1>0, <1>1, <2>2
  <2>4. f[m - 1] \in Nat
    BY <2>2, <2>3
  <2>5. f[m] \in Nat
    BY <1>0, <1>2, <2>3, <2>4
  <2>6. QED
    BY <2>2, <2>5
<1>4. \A k \in 0 .. L : f[k] \in Nat
  BY <1>0, <1>3
<1>5. f = [n \in 0 .. L |-> f[n]]
  BY DEF IsValue
<1>6. QED
  BY <1>1, <1>2, <1>4, <1>5

LEMMA ValueGrows ==
  ASSUME NEW val \in Digits, NEW f, IsValue(f, val),
         NEW k \in 0 .. Len(val), NEW l \in k .. Len(val)
  PROVE  f[k] <= f[l]
<1> DEFINE L == Len(val)
           Wrong == {m \in Nat : m \in k .. L /\ f[m] < f[k]}
<1>0. L \in Nat /\ \A i \in 1 .. L : val[i] \in Int /\ val[i] >= -1
  BY DigitTyped
<1>1. /\ f \in [0 .. L -> Nat]
      /\ \A i \in 1 .. L : f[i] = IF val[i] < 0 THEN f[i - 1] ELSE f[i - 1] * 8 + val[i]
  BY ValueSteps
<1>2. SUFFICES ASSUME Wrong # {} PROVE FALSE
  <2>1. l \notin Wrong /\ l \in Nat /\ l \in k .. L
    BY <1>0, <1>2
  <2>2. f[l] \in Nat /\ f[k] \in Nat
    BY <1>0, <1>1
  <2>3. QED
    BY <2>1, <2>2
<1>3. PICK m \in Wrong : \A i \in Wrong : m <= i
  BY <1>2, LeastExists
<1>4. m # k /\ m \in 1 .. L /\ m - 1 \in k .. L /\ m - 1 \in Nat
  <2>1. k \in Nat /\ m \in Nat /\ m \in k .. L /\ f[m] < f[k]
    BY <1>0, <1>3
  <2>2. k \in 0 .. L /\ f[k] \in Nat
    BY <1>1
  <2>3. m # k
    BY <2>1, <2>2
  <2>4. QED
    BY <1>0, <2>1, <2>3
<1>5. f[m - 1] \in Nat /\ f[m] \in Nat /\ f[k] \in Nat
  <2>1. m - 1 \in 0 .. L /\ m \in 0 .. L /\ k \in 0 .. L
    BY <1>0, <1>4
  <2>2. QED
    BY <1>1, <2>1
<1>6. ~ (f[m - 1] < f[k])
  BY <1>3, <1>4
<1>7. f[m - 1] <= f[m]
  <2>1. f[m] = IF val[m] < 0 THEN f[m - 1] ELSE f[m - 1] * 8 + val[m]
    BY <1>1, <1>4
  <2>2. val[m] \in Int
    BY <1>0, <1>4
  <2>3. QED
    BY <1>5, <2>1, <2>2
<1>8. QED
  BY <1>3, <1>5, <1>6, <1>7

LEMMA SizeIsValue ==
  ASSUME NEW member, member.digits \in Digits
  PROVE  \E f : IsValue(f, member.digits) /\ SizeOf(member) = f[Len(member.digits)]
<1> DEFINE val == member.digits
           f == CHOOSE g : g = [n \in 0 .. Len(val) |->
                  IF n = 0 THEN 0 ELSE IF val[n] < 0 THEN g[n - 1] ELSE g[n - 1] * 8 + val[n]]
<1>1. \E g : IsValue(g, val)
  BY ValueExists
<1>2. IsValue(f, val)
  BY <1>1 DEF IsValue
<1>3. SizeOf(member) = f[Len(val)]
  BY DEF SizeOf
<1> HIDE DEF f
<1>4. QED
  BY <1>2, <1>3

-----------------------------------------------------------------------------
(* parse_octal stops at the first cell that is no digit, or after DIGITS. *)
Leading(val) == {n \in 0 .. Len(val) : n <= DIGITS /\ \A i \in 1 .. n : val[i] >= 0}

IsAcc(f, val) ==
  f = [n \in Leading(val) |-> IF n = 0 THEN 0 ELSE (f[n - 1] * 8 + val[n]) % WORD]

Blanks(val) ==
  /\ \A i, j \in 1 .. Len(val) : i < j /\ val[i] < 0 => val[j] < 0
  /\ \A i \in 1 .. Len(val) : i > DIGITS => val[i] < 0

LEMMA LeadingEnds ==
  ASSUME NEW val \in Digits, Blanks(val)
  PROVE  LET n == CHOOSE n \in Leading(val) : \A m \in Leading(val) : m <= n
         IN  /\ n \in Leading(val) /\ Leading(val) = 0 .. n
             /\ \A i \in n + 1 .. Len(val) : val[i] < 0
<1> DEFINE L == Len(val)
           Last(n) == n \in Leading(val) /\ \A m \in Leading(val) : m <= n
           Behind == {d \in Nat : d <= L /\ L - d \in Leading(val)}
<1>0. DIGITS \in Nat /\ L \in Nat /\ \A i \in 1 .. L : val[i] \in Int /\ val[i] >= -1
  BY DigitTyped, TarAssumption
<1>1. 0 \in Leading(val) /\ \A m \in Leading(val) : m \in 0 .. L
  BY <1>0 DEF Leading
<1>2. L \in Behind
  BY <1>0, <1>1
<1>3. PICK d \in Behind : \A e \in Behind : d <= e
  BY <1>2, LeastExists
<1>4. Last(L - d)
  <2>1. L - d \in Leading(val)
    BY <1>3
  <2>2. ASSUME NEW m \in Leading(val) PROVE m <= L - d
    <3>1. L - m \in Behind
      BY <1>0, <1>1
    <3>2. QED
      BY <1>0, <1>1, <1>3, <3>1
  <2>3. QED
    BY <2>1, <2>2
<1> DEFINE n == CHOOSE k \in Leading(val) : \A m \in Leading(val) : m <= k
<1>5. n \in Leading(val) /\ \A m \in Leading(val) : m <= n
  BY <1>4
<1> HIDE DEF n
<1>6. n \in 0 .. L /\ n <= DIGITS /\ \A i \in 1 .. n : val[i] >= 0
  BY <1>5 DEF Leading
<1>7. Leading(val) = 0 .. n
  <2>1. ASSUME NEW m \in 0 .. n PROVE m \in Leading(val)
    BY <1>0, <1>6 DEF Leading
  <2>2. ASSUME NEW m \in Leading(val) PROVE m \in 0 .. n
    <3>1. m \in 0 .. L /\ m <= n /\ n \in Int
      BY <1>1, <1>5, <1>6
    <3>2. QED
      BY <1>0, <3>1
  <2>3. QED
    BY <2>1, <2>2
<1>8. ASSUME NEW i \in n + 1 .. L PROVE val[i] < 0
  <2>1. n + 1 \notin Leading(val) /\ n + 1 \in 0 .. L /\ i \in 1 .. L /\ n + 1 <= i
    BY <1>0, <1>5, <1>6
  <2>2. CASE n + 1 > DIGITS
    <3>1. i > DIGITS
      BY <1>0, <1>6, <2>1, <2>2
    <3>2. QED
      BY <2>1, <3>1 DEF Blanks
  <2>3. CASE n + 1 <= DIGITS
    <3>1. PICK j \in 1 .. n + 1 : ~ (val[j] >= 0)
      BY <2>1, <2>3 DEF Leading
    <3>2. j = n + 1 /\ j \in 1 .. L /\ val[j] < 0
      BY <1>0, <1>6, <2>1, <3>1
    <3>3. i = j \/ j < i
      BY <1>0, <1>6, <2>1, <3>2
    <3>4. QED
      BY <2>1, <3>2, <3>3 DEF Blanks
  <2>4. QED
    BY <1>0, <1>6, <2>2, <2>3
<1>9. QED
  BY <1>5, <1>7, <1>8 DEF n

(* With nothing but blanks behind the digits and a value below 2^32 it     *)
(* returns what the digits say.                                            *)
LEMMA OctalIsRead ==
  ASSUME NEW member, member.digits \in Digits, Blanks(member.digits), SizeOf(member) < WORD
  PROVE  parse_octal(member.digits) = SizeOf(member) /\ SizeOf(member) \in Nat
<1> DEFINE val == member.digits
           L == Len(val)
           n == CHOOSE k \in Leading(val) : \A m \in Leading(val) : m <= k
<1>0. L \in Nat /\ (\A i \in 1 .. L : val[i] \in Int /\ val[i] >= -1) /\ WORD \in Nat \ {0}
  BY DigitTyped, TarAssumption
<1>1. PICK f : IsValue(f, val) /\ SizeOf(member) = f[L]
  BY SizeIsValue
<1>2. /\ f \in [0 .. L -> Nat] /\ f[0] = 0
      /\ \A k \in 1 .. L : f[k] = IF val[k] < 0 THEN f[k - 1] ELSE f[k - 1] * 8 + val[k]
  BY <1>1, ValueSteps
<1>3. /\ n \in Leading(val) /\ Leading(val) = 0 .. n
      /\ \A i \in n + 1 .. L : val[i] < 0
  BY LeadingEnds
<1>4. n \in 0 .. L /\ \A i \in 1 .. n : val[i] >= 0
  BY <1>3 DEF Leading
<1> DEFINE Defines(g) ==
             g = [k \in Leading(val) |-> IF k = 0 THEN 0 ELSE (g[k - 1] * 8 + val[k]) % WORD]
           acc == CHOOSE g : Defines(g)
<1>5. parse_octal(val) = acc[n]
  BY DEF parse_octal, Leading
<1> HIDE DEF n
<1>6. ASSUME NEW k \in 1 .. n PROVE (f[k - 1] * 8 + val[k]) % WORD = f[k]
  <2>1. k \in 1 .. L /\ k - 1 \in 0 .. L /\ k \in 0 .. L /\ L \in k .. L
    BY <1>0, <1>4
  <2>2. f[k] = f[k - 1] * 8 + val[k] /\ f[k] \in Nat
    BY <1>0, <1>2, <1>4, <2>1
  <2>3. f[k] <= f[L]
    BY <1>1, <2>1, ValueGrows
  <2>4. f[L] \in Nat /\ f[k] < WORD
    BY <1>0, <1>1, <1>2, <2>2, <2>3
  <2>5. f[k] % WORD = f[k]
    BY <1>0, <2>2, <2>4, ModOfLess
  <2>6. QED
    BY <2>2, <2>5
<1> DEFINE h == [k \in 0 .. n |-> f[k]]
<1>7. Defines(h)
  <2>1. ASSUME NEW k \in 0 .. n
        PROVE  h[k] = IF k = 0 THEN 0 ELSE (h[k - 1] * 8 + val[k]) % WORD
    <3>1. CASE k = 0
      BY <1>2, <1>4, <3>1
    <3>2. CASE k # 0
      <4>1. k \in 1 .. n /\ k - 1 \in 0 .. n
        BY <1>4, <3>2
      <4>2. QED
        BY <1>6, <3>2, <4>1
    <3>3. QED
      BY <3>1, <3>2
  <2>2. h = [k \in 0 .. n |-> h[k]]
    OBVIOUS
  <2> HIDE DEF h
  <2>3. QED
    BY <1>3, <2>1, <2>2
<1>8. Defines(acc)
  <2> HIDE DEF Defines, h
  <2>1. QED
    BY <1>7
<1>9. acc[n] = f[n]
  <2> HIDE DEF acc
  <2> DEFINE Wrong == {k \in Nat : k <= n /\ acc[k] # f[k]}
  <2>1. SUFFICES ASSUME Wrong # {} PROVE FALSE
    BY <1>4
  <2>2. PICK k \in Wrong : \A l \in Wrong : k <= l
    BY <2>1, LeastExists
  <2>3. k \in 0 .. n /\ acc[k] = IF k = 0 THEN 0 ELSE (acc[k - 1] * 8 + val[k]) % WORD
    BY <1>3, <1>4, <1>8, <2>2
  <2>4. k \in 1 .. n /\ k - 1 \in Nat /\ k - 1 <= n
    BY <1>2, <1>4, <2>2, <2>3
  <2>5. acc[k - 1] = f[k - 1]
    BY <2>2, <2>4
  <2>6. acc[k] = f[k]
    BY <1>6, <2>3, <2>4, <2>5
  <2>7. QED
    BY <2>2, <2>6
<1>10. f[n] = f[L]
  <2> DEFINE Wrong == {k \in Nat : k \in n .. L /\ f[k] # f[n]}
  <2>1. SUFFICES ASSUME Wrong # {} PROVE FALSE
    <3>1. L \in Nat /\ L \in n .. L
      BY <1>0, <1>4
    <3>2. QED
      BY <3>1
  <2>2. PICK k \in Wrong : \A l \in Wrong : k <= l
    BY <2>1, LeastExists
  <2>3. k \in n + 1 .. L /\ k \in 1 .. L /\ k - 1 \in n .. L /\ k - 1 \in Nat
    BY <1>0, <1>4, <2>2
  <2>4. f[k - 1] = f[n]
    BY <2>2, <2>3
  <2>5. f[k] = f[k - 1]
    BY <1>2, <1>3, <2>3
  <2>6. QED
    BY <2>2, <2>4, <2>5
<1>11. parse_octal(val) = f[L]
  BY <1>5, <1>9, <1>10 DEF n
<1>12. f[L] \in Nat
  BY <1>0, <1>2
<1>13. QED
  BY <1>1, <1>11, <1>12

-----------------------------------------------------------------------------
(* An archive, its members and where they are. *)
LEMMA MemberTyped ==
  ASSUME NEW a \in Archives, NEW k \in 1 .. Len(a)
  PROVE  /\ a[k].digits \in Digits /\ Blanks(a[k].digits) /\ a[k].name # ""
         /\ SizeOf(a[k]) \in Nat
<1> DEFINE Member == [name : STRING, digits : Digits]
<1>1. a \in Seq(Member)
  BY TarAssumption DEF Digits
<1>2. a[k] \in Member
  <2> HIDE DEF Member
  <2>1. QED
    BY <1>1, ElementOfSeq
<1>3. a[k].digits \in Digits
  BY <1>2
<1>4. Blanks(a[k].digits) /\ a[k].name # ""
  BY ArchivesAreTars DEF WellFormed, Blanks
<1>5. SizeOf(a[k]) \in Nat
  <2>1. PICK f : IsValue(f, a[k].digits) /\ SizeOf(a[k]) = f[Len(a[k].digits)]
    BY <1>3, SizeIsValue
  <2>2. f \in [0 .. Len(a[k].digits) -> Nat] /\ Len(a[k].digits) \in Nat
    BY <1>3, <2>1, ValueSteps, DigitTyped
  <2>3. QED
    BY <2>1, <2>2
<1>6. QED
  BY <1>3, <1>4, <1>5

LEMMA ArchiveTyped ==
  ASSUME NEW a \in Archives
  PROVE  Len(a) \in Nat /\ ADDRESS \in Nat /\ BLOCK \in Nat \ {0} /\ WORD \in Nat \ {0}
<1>1. a \in Seq([name : STRING, digits : Seq(-1 .. 7)])
  BY TarAssumption
<1>2. QED
  BY <1>1, TarAssumption, LenProperties

(* How much of the archive a member takes: its header and its blocks.      *)
Extent(member) == (1 + Blocks(SizeOf(member))) * BLOCK

LEMMA ExtentHolds ==
  ASSUME NEW a \in Archives, NEW k \in 1 .. Len(a)
  PROVE  Extent(a[k]) \in Nat /\ BLOCK + SizeOf(a[k]) <= Extent(a[k])
<1> DEFINE b == Blocks(SizeOf(a[k]))
           sz == SizeOf(a[k])
<1>1. b \in Nat /\ b * BLOCK \in Nat /\ sz \in Nat /\ sz <= b * BLOCK /\ BLOCK \in Nat
  BY MemberTyped, BlocksHold, ArchiveTyped
<1>2. Extent(a[k]) = (1 + b) * BLOCK
  BY DEF Extent
<1> HIDE DEF b, sz
<1>3. (1 + b) * BLOCK = BLOCK + b * BLOCK
  BY <1>1
<1>4. QED
  BY <1>1, <1>2, <1>3 DEF sz

LEMMA HeadersAt ==
  ASSUME NEW a \in Archives
  PROVE  /\ HeaderAt(a)[1] = ADDRESS
         /\ \A k \in 1 .. Len(a) + 1 : HeaderAt(a)[k] \in Nat
         /\ \A k \in 1 .. Len(a) : HeaderAt(a)[k + 1] = HeaderAt(a)[k] + Extent(a[k])
<1> DEFINE L == Len(a)
           ext == [k \in 1 .. L |-> Extent(a[k])]
           Defines(f) == f = [k \in 1 .. L + 1 |->
             IF k = 1 THEN ADDRESS ELSE f[k - 1] + (1 + Blocks(SizeOf(a[k - 1]))) * BLOCK]
           step == [k \in 1 .. L |-> [x \in Nat |-> x + ext[k]]]
<1>0. L \in Nat /\ ADDRESS \in Nat
  BY ArchiveTyped
<1>1. ext \in [1 .. L -> Nat]
  BY ExtentHolds
<1>2. \A k \in 1 .. L : ext[k] = (1 + Blocks(SizeOf(a[k]))) * BLOCK
  BY DEF Extent
<1>3. HeaderAt(a) = CHOOSE f : Defines(f)
  BY DEF HeaderAt
<1> HIDE DEF ext
<1>4. step \in [1 .. L -> [Nat -> Nat]]
  <2>1. ASSUME NEW k \in 1 .. L, NEW x \in Nat PROVE x + ext[k] \in Nat
    BY <1>1
  <2>2. QED
    BY <2>1
<1> HIDE DEF L
<1>5. PICK g : IsRun(g, Nat, L, ADDRESS, step)
  <2> HIDE DEF step
  <2>1. QED
    BY <1>0, <1>4, RunExists
<1>6. /\ g \in [0 .. L -> Nat] /\ g[0] = ADDRESS
      /\ \A k \in 1 .. L : g[k] = g[k - 1] + ext[k]
  <2>1. /\ g \in [0 .. L -> Nat] /\ g[0] = ADDRESS
        /\ \A k \in 1 .. L : g[k] = step[k][g[k - 1]]
    BY <1>5 DEF IsRun
  <2>2. ASSUME NEW k \in 1 .. L PROVE g[k] = g[k - 1] + ext[k]
    <3>1. k - 1 \in 0 .. L
      BY <1>0
    <3>2. g[k - 1] \in Nat
      BY <2>1, <3>1
    <3>3. QED
      BY <2>1, <3>2
  <2>3. QED
    BY <2>1, <2>2
<1> DEFINE h == [k \in 1 .. L + 1 |-> g[k - 1]]
           Goes(f) == /\ f[1] = ADDRESS
                      /\ \A k \in 1 .. L : f[k + 1] = f[k] + ext[k]
<1>7. Defines(h)
  <2>1. ASSUME NEW k \in 1 .. L + 1
        PROVE  h[k] = IF k = 1 THEN ADDRESS
                      ELSE h[k - 1] + (1 + Blocks(SizeOf(a[k - 1]))) * BLOCK
    <3>1. CASE k = 1
      BY <1>0, <1>6, <3>1
    <3>2. CASE k # 1
      <4>1. k - 1 \in 1 .. L /\ k - 1 \in 1 .. L + 1
        BY <1>0, <3>2
      <4>2. h[k] = g[k - 1] /\ h[k - 1] = g[(k - 1) - 1]
        BY <4>1
      <4>3. g[k - 1] = g[(k - 1) - 1] + ext[k - 1]
        BY <1>6, <4>1
      <4>4. QED
        BY <1>2, <3>2, <4>1, <4>2, <4>3
    <3>3. QED
      BY <3>1, <3>2
  <2>2. h = [k \in 1 .. L + 1 |-> h[k]]
    OBVIOUS
  <2> HIDE DEF h
  <2>3. QED
    BY <2>1, <2>2 DEF L
<1>8. Defines(HeaderAt(a))
  <2> HIDE DEF Defines, h
  <2>1. QED
    BY <1>3, <1>7
<1> DEFINE at == HeaderAt(a)
<1> HIDE DEF at
<1>9. at = [k \in 1 .. L + 1 |-> IF k = 1 THEN ADDRESS
                                ELSE at[k - 1] + (1 + Blocks(SizeOf(a[k - 1]))) * BLOCK]
  BY <1>8 DEF at, L
<1>10. at[1] = ADDRESS
  <2>1. 1 \in 1 .. L + 1
    BY <1>0
  <2>2. QED
    BY <1>9, <2>1
<1>11. ASSUME NEW k \in 1 .. L PROVE at[k + 1] = at[k] + ext[k]
  <2>1. k + 1 \in 1 .. L + 1 /\ k + 1 # 1 /\ (k + 1) - 1 = k
    BY <1>0
  <2>2. at[k + 1] = at[k] + (1 + Blocks(SizeOf(a[k]))) * BLOCK
    BY <1>9, <2>1
  <2>3. QED
    BY <1>2, <2>2
<1> DEFINE Wrong == {k \in Nat : k \in 1 .. L + 1 /\ at[k] \notin Nat}
<1>12. Wrong = {}
  <2>1. SUFFICES ASSUME Wrong # {} PROVE FALSE
    OBVIOUS
  <2>2. PICK k \in Wrong : \A l \in Wrong : k <= l
    BY <2>1, LeastExists
  <2>3. k # 1 /\ k - 1 \in 1 .. L /\ k - 1 \in Nat /\ k - 1 \in 1 .. L + 1 /\ (k - 1) + 1 = k
    BY <1>0, <1>10, <2>2
  <2>4. at[k - 1] \in Nat
    BY <2>2, <2>3
  <2>5. at[k] = at[k - 1] + ext[k - 1] /\ ext[k - 1] \in Nat
    BY <1>1, <1>11, <2>3
  <2>6. QED
    BY <2>2, <2>4, <2>5
<1>13. \A k \in 1 .. L : ext[k] = Extent(a[k])
  BY DEF ext, L
<1>14. \A k \in 1 .. L + 1 : at[k] \in Nat
  BY <1>12
<1>15. QED
  BY <1>10, <1>11, <1>13, <1>14 DEF at, L

(* A member's header and data end before the next header. *)
LEMMA HeadersApart ==
  ASSUME NEW a \in Archives, NEW k \in 1 .. Len(a), NEW l \in k + 1 .. Len(a) + 1
  PROVE  HeaderAt(a)[k] + Extent(a[k]) <= HeaderAt(a)[l] /\ HeaderAt(a)[k] < HeaderAt(a)[l]
<1> DEFINE L == Len(a)
           at == HeaderAt(a)
           e == Extent(a[k])
           Wrong == {m \in Nat : m \in k + 1 .. L + 1 /\ at[m] < at[k] + e}
<1>0. L \in Nat
  BY ArchiveTyped
<1>1. /\ \A m \in 1 .. L + 1 : at[m] \in Nat
      /\ \A m \in 1 .. L : at[m + 1] = at[m] + Extent(a[m])
  BY HeadersAt
<1>2. \A m \in 1 .. L : Extent(a[m]) \in Nat /\ Extent(a[m]) > 0
  <2>1. ASSUME NEW m \in 1 .. L PROVE Extent(a[m]) \in Nat /\ Extent(a[m]) > 0
    <3>1. Extent(a[m]) \in Nat /\ BLOCK + SizeOf(a[m]) <= Extent(a[m])
      BY ExtentHolds
    <3>2. SizeOf(a[m]) \in Nat /\ BLOCK \in Nat \ {0}
      BY MemberTyped, ArchiveTyped
    <3>3. QED
      BY <3>1, <3>2
  <2>2. QED
    BY <2>1
<1> HIDE DEF at, e
<1>3. at[k] \in Nat /\ e \in Nat /\ e > 0 /\ k \in Nat /\ at[l] \in Nat
  BY <1>0, <1>1, <1>2 DEF e
<1>4. Wrong = {}
  <2>1. SUFFICES ASSUME Wrong # {} PROVE FALSE
    OBVIOUS
  <2>2. PICK m \in Wrong : \A i \in Wrong : m <= i
    BY <2>1, LeastExists
  <2>3. m \in k + 1 .. L + 1 /\ at[m] < at[k] + e
    BY <2>2
  <2>4. m - 1 \in 1 .. L /\ (m - 1) + 1 = m /\ m - 1 \in Nat
    BY <1>0, <1>3, <2>3
  <2>5. at[m] = at[m - 1] + Extent(a[m - 1]) /\ at[m - 1] \in Nat /\ Extent(a[m - 1]) \in Nat
    BY <1>0, <1>1, <1>2, <2>4
  <2>6. m - 1 # k
    BY <1>3, <2>3, <2>5 DEF e
  <2>7. m - 1 \in k + 1 .. L + 1 /\ m - 1 \notin Wrong
    BY <1>0, <1>3, <2>2, <2>3, <2>4, <2>6
  <2>8. at[m - 1] >= at[k] + e
    BY <1>3, <2>4, <2>5, <2>7
  <2>9. QED
    BY <1>3, <2>3, <2>5, <2>8
<1>5. l \in Nat /\ l \notin Wrong
  BY <1>0, <1>3, <1>4
<1>6. at[k] + e <= at[l]
  BY <1>3, <1>5
<1>7. QED
  BY <1>3, <1>6 DEF at, e

LEMMA HeaderIsMember ==
  ASSUME NEW a \in Archives, NEW n \in 1 .. Len(a)
  PROVE  Header(a, HeaderAt(a)[n]) = a[n]
<1> DEFINE at == HeaderAt(a)
           L == Len(a)
<1>0. L \in Nat
  BY ArchiveTyped
<1>1. ASSUME NEW k \in 1 .. L, at[k] = at[n] PROVE k = n
  <2>1. \A i \in 1 .. L : at[i] \in Nat
    BY <1>0, HeadersAt
  <2>2. ASSUME NEW i \in 1 .. L, NEW j \in 1 .. L, i < j PROVE at[i] < at[j]
    <3>1. j \in i + 1 .. L + 1
      BY <1>0, <2>2
    <3>2. QED
      BY <3>1, HeadersApart
  <2>3. at[k] \in Nat /\ at[n] \in Nat
    BY <2>1
  <2>4. ~ (k < n) /\ ~ (n < k)
    <3> HIDE DEF at
    <3>1. QED
      BY <1>1, <2>2, <2>3
  <2>5. QED
    BY <1>0, <2>4
<1>2. (CHOOSE k \in 1 .. L : at[k] = at[n]) = n
  <2> HIDE DEF at
  <2>1. QED
    BY <1>1
<1>3. \E k \in 1 .. L : at[k] = at[n]
  OBVIOUS
<1>4. QED
  BY <1>2, <1>3 DEF Header

LEMMA ArchiveEnds ==
  ASSUME NEW a \in Archives
  PROVE  Header(a, HeaderAt(a)[Len(a) + 1]).name = ""
<1> DEFINE at == HeaderAt(a)
           L == Len(a)
<1>0. L \in Nat
  BY ArchiveTyped
<1>1. ASSUME NEW k \in 1 .. L PROVE at[k] # at[L + 1]
  <2>1. L + 1 \in k + 1 .. L + 1 /\ k \in 1 .. L + 1 /\ L + 1 \in 1 .. L + 1
    BY <1>0
  <2>2. at[k] < at[L + 1]
    BY <2>1, HeadersApart
  <2>3. at[k] \in Nat /\ at[L + 1] \in Nat
    BY <2>1, HeadersAt
  <2>4. QED
    BY <2>2, <2>3
<1>2. Header(a, at[L + 1]) = None
  BY <1>1 DEF Header
<1>3. None.name = ""
  BY DEF None
<1>4. QED
  BY <1>2, <1>3

(* In 32 bits too the header after a member's is where the archive has it. *)
LEMMA NextHeaderIs ==
  ASSUME NEW a \in Archives, NEW n \in 1 .. Len(a), current_address = HeaderAt(a)[n]
  PROVE  /\ parse_octal(a[n].digits) = SizeOf(a[n])
         /\ NextHeader(SizeOf(a[n])) = HeaderAt(a)[n + 1]
<1> DEFINE L == Len(a)
           at == HeaderAt(a)[n]
           next == HeaderAt(a)[n + 1]
           end == HeaderAt(a)[L + 1]
           sz == SizeOf(a[n])
           b == Blocks(sz)
           e == Extent(a[n])
<1>0. L \in Nat /\ BLOCK \in Nat \ {0} /\ WORD \in Nat \ {0}
  BY ArchiveTyped
<1>1. n \in 1 .. L + 1 /\ n + 1 \in 1 .. L + 1 /\ L + 1 \in 1 .. L + 1
  BY <1>0
<1>2. at \in Nat /\ next \in Nat /\ end \in Nat /\ next = at + e
  BY <1>1, HeadersAt
<1>3. end + BLOCK <= WORD
  BY ArchivesAreTars DEF WellFormed
<1>4. next <= end
  <2>1. CASE n = L
    BY <1>2, <2>1
  <2>2. CASE n # L
    <3>1. n + 1 \in 1 .. L /\ L + 1 \in (n + 1) + 1 .. L + 1
      BY <1>0, <2>2
    <3>2. next < end
      BY <3>1, HeadersApart
    <3>3. QED
      BY <1>2, <3>2
  <2>3. QED
    BY <2>1, <2>2
<1>5. e \in Nat /\ BLOCK + sz <= e /\ sz \in Nat /\ b \in Nat
  BY ExtentHolds, MemberTyped, BlocksHold
<1>6. e = (1 + b) * BLOCK
  BY DEF Extent
<1>7. b = (sz + BLOCK - 1) \div BLOCK
  BY DEF Blocks
<1> HIDE DEF at, next, end, sz, b, e
<1>8. next < WORD /\ sz < WORD /\ sz + BLOCK - 1 < WORD /\ sz + BLOCK - 1 \in Nat
  BY <1>0, <1>2, <1>3, <1>4, <1>5
<1>9. parse_octal(a[n].digits) = SizeOf(a[n])
  BY <1>8, MemberTyped, OctalIsRead DEF sz
<1>10. (sz + BLOCK - 1) % WORD = sz + BLOCK - 1 /\ next % WORD = next
  BY <1>0, <1>2, <1>8, ModOfLess
<1>11. (b + 1) * BLOCK = (1 + b) * BLOCK
  BY <1>0, <1>5
<1>12. at + (b + 1) * BLOCK = next
  BY <1>2, <1>6, <1>11
<1>13. NextHeader(sz) = (at + (((sz + BLOCK - 1) % WORD) \div BLOCK + 1) * BLOCK) % WORD
  BY DEF NextHeader, at
<1>14. NextHeader(sz) = next
  BY <1>7, <1>10, <1>12, <1>13
<1>15. QED
  BY <1>9, <1>14 DEF sz, next

-----------------------------------------------------------------------------
(* The inductive invariant.  tar_parse has been through the first n        *)
(* members and is at the header of the next; what the table has room for   *)
(* is in it.                                                               *)
AsMany(n) == IF n <= MAX_TAR_FILES THEN n ELSE MAX_TAR_FILES

EntryOf(k) ==
  [name |-> archive[k].name, address |-> HeaderAt(archive)[k] + BLOCK,
   size |-> SizeOf(archive[k])]

Parsed(n) ==
  /\ n \in 0 .. Len(archive)
  /\ current_address = HeaderAt(archive)[n + 1]
  /\ file_count = AsMany(n)
  /\ \A k \in 1 .. AsMany(n) : file_entries[k - 1] = EntryOf(k)

(* Of the tables that were built from it: the three numberings. *)
TablesBuilt ==
  \A k \in 1 .. file_count :
    /\ tar_nodes[k] = [inode |-> k - 1, flags |-> "file", length |-> SizeOf(archive[k])]
    /\ tar_dirents[k - 1] = [name |-> archive[k].name, ino |-> k]

(* The tables are written only at their entries. *)
TablesTyped ==
  /\ DOMAIN file_entries = Entry
  /\ DOMAIN tar_nodes = 0 .. MAX_TAR_FILES /\ DOMAIN tar_dirents = 0 .. MAX_TAR_FILES

ParseInv ==
  /\ archive \in Archives /\ TablesTyped
  /\ stage \in {"start", "parse", "ready"}
  /\ stage = "parse" => \E n \in Nat : Parsed(n)
  /\ stage = "ready" => Parsed(Len(archive)) /\ TablesBuilt

(* What the walk and its tables depend on. *)
parsed == <<archive, stage, current_address, file_count, tables>>

LEMMA AsManyIs ==
  ASSUME NEW n \in Nat
  PROVE  /\ AsMany(n) \in Nat /\ AsMany(n) <= n /\ AsMany(n) <= MAX_TAR_FILES
         /\ AsMany(n + 1) = IF AsMany(n) < MAX_TAR_FILES THEN AsMany(n) + 1 ELSE AsMany(n)
         /\ AsMany(n) < MAX_TAR_FILES => AsMany(n) = n
         /\ MAX_TAR_FILES \in Nat
  BY TarAssumption DEF AsMany

LEMMA ParseStarts == TarInit => ParseInv
  BY DEF TarInit, ParseInv, TablesTyped

LEMMA ParseBegins ==
  ASSUME ParseInv, tar_parse
  PROVE  ParseInv'
<1>1. /\ archive \in Archives /\ UNCHANGED <<archive, tables>>
      /\ stage' = "parse" /\ file_count' = 0 /\ current_address' = ADDRESS
  BY DEF tar_parse, ParseInv
<1>2. TablesTyped'
  BY <1>1 DEF TablesTyped, ParseInv, tables
<1>3. AsMany(0) = 0 /\ Len(archive) \in Nat /\ HeaderAt(archive)[1] = ADDRESS
  BY <1>1, TarAssumption, ArchiveTyped, HeadersAt DEF AsMany
<1>4. Parsed(0)'
  BY <1>1, <1>3 DEF Parsed
<1>5. QED
  BY <1>1, <1>2, <1>4 DEF ParseInv

LEMMA ParseGoesOn ==
  ASSUME ParseInv, parse_header
  PROVE  ParseInv'
<1>1. archive \in Archives /\ stage = "parse" /\ TablesTyped
  BY DEF ParseInv, parse_header
<1>2. PICK n \in Nat : Parsed(n)
  BY <1>1 DEF ParseInv
<1> DEFINE L == Len(archive)
           at == HeaderAt(archive)
<1>3. L \in Nat /\ n \in 0 .. L /\ current_address = at[n + 1] /\ file_count = AsMany(n)
  BY <1>1, <1>2, ArchiveTyped DEF Parsed
<1>4. n + 1 \in 1 .. L
  <2>1. Header(archive, current_address).name # ""
    BY DEF parse_header
  <2>2. n # L
    BY <1>1, <1>3, <2>1, ArchiveEnds
  <2>3. QED
    BY <1>3, <2>2
<1> DEFINE m == archive[n + 1]
<1>5. /\ Header(archive, current_address) = m
      /\ parse_octal(m.digits) = SizeOf(m)
      /\ NextHeader(SizeOf(m)) = at[(n + 1) + 1]
  BY <1>1, <1>3, <1>4, HeaderIsMember, NextHeaderIs
<1>6. /\ UNCHANGED <<archive, stage, tar_nodes, tar_dirents>>
      /\ current_address' = at[(n + 1) + 1]
      /\ IF file_count < MAX_TAR_FILES
         THEN /\ file_entries' = [file_entries EXCEPT ![file_count] =
                   [name |-> m.name, address |-> current_address + BLOCK, size |-> SizeOf(m)]]
              /\ file_count' = file_count + 1
         ELSE UNCHANGED <<file_entries, file_count>>
  BY <1>5 DEF parse_header
<1>7. EntryOf(n + 1) = [name |-> m.name, address |-> current_address + BLOCK, size |-> SizeOf(m)]
  BY <1>3 DEF EntryOf
<1> HIDE DEF m
<1>8. /\ AsMany(n) \in Nat /\ AsMany(n) <= n /\ AsMany(n) <= MAX_TAR_FILES
      /\ AsMany(n + 1) = IF AsMany(n) < MAX_TAR_FILES THEN AsMany(n) + 1 ELSE AsMany(n)
      /\ AsMany(n) < MAX_TAR_FILES => AsMany(n) = n
      /\ MAX_TAR_FILES \in Nat
  BY AsManyIs
<1>9. file_count' = AsMany(n + 1)
  BY <1>3, <1>6, <1>8
<1>10. DOMAIN file_entries = Entry /\ \A k \in 1 .. AsMany(n) : file_entries[k - 1] = EntryOf(k)
  BY <1>1, <1>2 DEF Parsed, TablesTyped
<1>11. \A k \in 1 .. AsMany(n + 1) : file_entries'[k - 1] = EntryOf(k)
  <2>1. CASE AsMany(n) < MAX_TAR_FILES
    <3>1. file_entries' = [file_entries EXCEPT ![n] = EntryOf(n + 1)] /\ n \in Entry
      BY <1>3, <1>6, <1>7, <1>8, <2>1 DEF Entry
    <3>2. \A k \in 1 .. n : k - 1 \in Entry /\ k - 1 # n
      BY <1>8, <2>1 DEF Entry
    <3>3. \A k \in 1 .. n : file_entries'[k - 1] = EntryOf(k)
      BY <1>8, <1>10, <2>1, <3>1, <3>2
    <3>4. file_entries'[(n + 1) - 1] = EntryOf(n + 1)
      BY <1>10, <3>1
    <3>5. \A k \in 1 .. AsMany(n + 1) : k \in 1 .. n \/ k = n + 1
      BY <1>8, <2>1
    <3>6. QED
      BY <3>3, <3>4, <3>5
  <2>2. CASE ~ (AsMany(n) < MAX_TAR_FILES)
    BY <1>3, <1>6, <1>8, <1>10, <2>2
  <2>3. QED
    BY <2>1, <2>2
<1>12. \A k : EntryOf(k)' = EntryOf(k)
  BY <1>6 DEF EntryOf
<1>13. Parsed(n + 1)'
  BY <1>3, <1>4, <1>6, <1>9, <1>11, <1>12 DEF Parsed
<1>14. TablesTyped'
  <2>1. DOMAIN file_entries' = DOMAIN file_entries
    BY <1>6
  <2>2. QED
    BY <1>1, <1>6, <2>1 DEF TablesTyped
<1>15. n + 1 \in Nat
  OBVIOUS
<1>16. QED
  BY <1>1, <1>6, <1>13, <1>14, <1>15 DEF ParseInv

LEMMA ParseEnds ==
  ASSUME ParseInv, parse_end
  PROVE  ParseInv'
<1>1. archive \in Archives /\ stage = "parse" /\ TablesTyped
  BY DEF ParseInv, parse_end
<1>2. PICK n \in Nat : Parsed(n)
  BY <1>1 DEF ParseInv
<1>3. Len(archive) \in Nat /\ n \in 0 .. Len(archive) /\ current_address = HeaderAt(archive)[n + 1]
  BY <1>1, <1>2, ArchiveTyped DEF Parsed
<1>4. n = Len(archive)
  <2>1. SUFFICES ASSUME n # Len(archive) PROVE FALSE
    OBVIOUS
  <2>2. n + 1 \in 1 .. Len(archive)
    BY <1>3, <2>1
  <2>3. Header(archive, current_address).name = ""
    BY DEF parse_end
  <2>4. Header(archive, current_address) = archive[n + 1] /\ archive[n + 1].name # ""
    BY <1>1, <1>3, <2>2, HeaderIsMember, MemberTyped
  <2>5. QED
    BY <2>3, <2>4
<1>5. /\ UNCHANGED <<archive, current_address, file_count, file_entries>> /\ stage' = "ready"
      /\ tar_nodes' = [i \in 0 .. MAX_TAR_FILES |->
           IF i = 0 THEN [tar_nodes[0] EXCEPT !.flags = "directory"]
           ELSE IF i <= file_count
           THEN [inode |-> i - 1, flags |-> "file", length |-> file_entries[i - 1].size]
           ELSE tar_nodes[i]]
      /\ tar_dirents' = [i \in 0 .. MAX_TAR_FILES |->
           IF i < file_count THEN [name |-> file_entries[i].name, ino |-> i + 1]
           ELSE tar_dirents[i]]
  BY DEF parse_end, build_tables
<1>6. TablesTyped'
  BY <1>1, <1>5 DEF TablesTyped
<1>7. \A k : EntryOf(k)' = EntryOf(k)
  BY <1>5 DEF EntryOf
<1>8. Parsed(Len(archive))'
  <2>1. Parsed(n)'
    BY <1>2, <1>5, <1>7 DEF Parsed
  <2>2. QED
    BY <1>4, <1>5, <2>1
<1>9. /\ file_count \in Nat /\ file_count <= MAX_TAR_FILES /\ MAX_TAR_FILES \in Nat
      /\ \A k \in 1 .. file_count : file_entries[k - 1] = EntryOf(k)
  BY <1>2, AsManyIs DEF Parsed
<1>10. ASSUME NEW k \in 1 .. file_count
       PROVE  /\ tar_nodes'[k] = [inode |-> k - 1, flags |-> "file", length |-> SizeOf(archive[k])]
              /\ tar_dirents'[k - 1] = [name |-> archive[k].name, ino |-> k]
  <2>1. /\ k \in 0 .. MAX_TAR_FILES /\ k # 0 /\ k <= file_count
        /\ k - 1 \in 0 .. MAX_TAR_FILES /\ k - 1 < file_count /\ (k - 1) + 1 = k
    BY <1>9
  <2>2. file_entries[k - 1] = EntryOf(k)
    BY <1>9
  <2>3. tar_nodes'[k] = [inode |-> k - 1, flags |-> "file", length |-> EntryOf(k).size]
    BY <1>5, <2>1, <2>2
  <2>4. tar_dirents'[k - 1] = [name |-> EntryOf(k).name, ino |-> k]
    BY <1>5, <2>1, <2>2
  <2>5. QED
    BY <2>3, <2>4 DEF EntryOf
<1>11. TablesBuilt'
  BY <1>5, <1>10 DEF TablesBuilt
<1>12. QED
  BY <1>1, <1>5, <1>6, <1>8, <1>11 DEF ParseInv

LEMMA ParseKept ==
  ASSUME ParseInv, UNCHANGED parsed
  PROVE  ParseInv'
<1>1. UNCHANGED <<archive, stage, current_address, file_count, file_entries, tar_nodes, tar_dirents>>
  BY DEF parsed, tables
<1>2. \A n : Parsed(n)' = Parsed(n)
  BY <1>1 DEF Parsed, EntryOf
<1>3. TablesBuilt' = TablesBuilt /\ TablesTyped' = TablesTyped
  BY <1>1 DEF TablesBuilt, TablesTyped
<1>4. Parsed(Len(archive))' = Parsed(Len(archive))
  BY <1>1 DEF Parsed, EntryOf
<1>5. QED
  BY <1>1, <1>2, <1>3, <1>4 DEF ParseInv

LEMMA ParseNext == ParseInv /\ [TarNext]_tar_vars => ParseInv'
<1> SUFFICES ASSUME ParseInv, [TarNext]_tar_vars PROVE ParseInv'
  OBVIOUS
<1>1. CASE UNCHANGED tar_vars
  BY <1>1, ParseKept DEF tar_vars, parsed, tables
<1>2. CASE \E node \in Nodes, r \in Reads : tar_read(node, r[1], r[2])
  BY <1>2, ParseKept DEF tar_read, parsed, tables
<1>3. CASE \E node \in Nodes, wr \in Writes : tar_write(node, wr[1], wr[2])
  BY <1>3, ParseKept DEF tar_write, parsed, tables
<1>4. CASE init_missing
  BY <1>4, ParseKept DEF init_missing, tar_vars, parsed, tables
<1>5. QED
  BY <1>1, <1>2, <1>3, <1>4, ParseBegins, ParseGoesOn, ParseEnds DEF TarNext

(* The first file of a name is the one lookup gives, with what the archive *)
(* says of it.                                                             *)
LEMMA LookupGivesFirst ==
  ASSUME ParseInv, stage = "ready", NEW k \in 1 .. file_count
  PROVE  \E j \in 1 .. k :
           /\ archive[j].name = archive[k].name
           /\ \A i \in 1 .. j - 1 : archive[i].name # archive[k].name
           /\ [inode |-> j - 1, flags |-> "file", length |-> SizeOf(archive[j])]
                \in tar_finddir(archive[k].name)
<1> DEFINE name == archive[k].name
           Same == {i \in Nat : i \in 1 .. k /\ archive[i].name = name}
<1>1. /\ Parsed(Len(archive)) /\ TablesBuilt /\ Len(archive) \in Nat
      /\ file_count \in Nat
  BY ArchiveTyped, AsManyIs DEF ParseInv, Parsed
<1>2. k \in Same
  BY <1>1
<1>3. PICK j \in Same : \A i \in Same : j <= i
  BY <1>2, LeastExists
<1>4. j \in 1 .. k /\ archive[j].name = name /\ j \in 1 .. file_count
  BY <1>1, <1>3
<1>5. \A i \in 1 .. j - 1 : archive[i].name # name
  BY <1>1, <1>3, <1>4
<1>6. \A i \in 1 .. file_count : file_entries[i - 1].name = archive[i].name
  <2>1. \A i \in 1 .. file_count : file_entries[i - 1] = EntryOf(i)
    BY <1>1 DEF Parsed
  <2>2. \A i : EntryOf(i).name = archive[i].name
    BY DEF EntryOf
  <2>3. QED
    BY <2>1, <2>2
<1>7. j - 1 \in 0 .. file_count - 1 /\ file_entries[j - 1].name = name /\ (j - 1) + 1 = j
  BY <1>1, <1>4, <1>6
<1>8. ASSUME NEW i \in 0 .. (j - 1) - 1 PROVE file_entries[i].name # name
  <2>1. i + 1 \in 1 .. j - 1 /\ i + 1 \in 1 .. file_count /\ (i + 1) - 1 = i
    BY <1>1, <1>4
  <2>2. QED
    BY <1>5, <1>6, <2>1
<1>9. tar_nodes[(j - 1) + 1] \in tar_finddir(name)
  <2> HIDE DEF name
  <2>1. QED
    BY <1>7, <1>8 DEF tar_finddir
<1>10. tar_nodes[j] = [inode |-> j - 1, flags |-> "file", length |-> SizeOf(archive[j])]
  BY <1>1, <1>4 DEF TablesBuilt
<1>11. QED
  BY <1>4, <1>5, <1>7, <1>9, <1>10

LEMMA DirectoryFollows == ParseInv => DirectoryAgrees
<1> SUFFICES ASSUME ParseInv, stage = "ready", NEW index \in 0 .. MAX_TAR_FILES,
                    NEW entry \in tar_readdir(index)
             PROVE  \E node \in tar_finddir(entry.name) :
                      /\ node.inode < Len(archive)
                      /\ archive[node.inode + 1].name = entry.name
                      /\ node.length = SizeOf(archive[node.inode + 1])
                      /\ \A k \in 1 .. node.inode : archive[k].name # entry.name
                      /\ \/ entry.ino = node.inode + 1
                         \/ \E k \in 1 .. index : archive[k].name = entry.name
  BY DEF DirectoryAgrees
<1>1. /\ TablesBuilt /\ Len(archive) \in Nat /\ file_count \in Nat /\ file_count <= Len(archive)
      /\ MAX_TAR_FILES \in Nat
  BY ArchiveTyped, AsManyIs DEF ParseInv, Parsed
<1>2. index < file_count /\ entry = tar_dirents[index]
  BY <1>1 DEF tar_readdir
<1>3. index + 1 \in 1 .. file_count /\ (index + 1) - 1 = index
  BY <1>1, <1>2
<1>4. entry.name = archive[index + 1].name /\ entry.ino = index + 1
  <2>1. tar_dirents[(index + 1) - 1] = [name |-> archive[index + 1].name, ino |-> index + 1]
    BY <1>1, <1>3 DEF TablesBuilt
  <2>2. QED
    BY <1>2, <1>3, <2>1
<1>5. PICK j \in 1 .. index + 1 :
        /\ archive[j].name = entry.name
        /\ \A i \in 1 .. j - 1 : archive[i].name # entry.name
        /\ [inode |-> j - 1, flags |-> "file", length |-> SizeOf(archive[j])]
             \in tar_finddir(entry.name)
  BY <1>3, <1>4, LookupGivesFirst
<1> DEFINE node == [inode |-> j - 1, flags |-> "file", length |-> SizeOf(archive[j])]
<1>6. node.inode = j - 1 /\ node.inode + 1 = j /\ node.length = SizeOf(archive[j])
  BY <1>5
<1>7. node.inode < Len(archive)
  BY <1>1, <1>3, <1>5, <1>6
<1>8. entry.ino = node.inode + 1 \/ \E k \in 1 .. index : archive[k].name = entry.name
  <2>1. CASE j = index + 1
    BY <1>4, <1>6, <2>1
  <2>2. CASE j # index + 1
    <3>1. j \in 1 .. index
      BY <1>1, <1>2, <2>2
    <3>2. QED
      BY <1>5, <3>1
  <2>3. QED
    BY <2>1, <2>2
<1>9. node \in tar_finddir(entry.name)
  BY <1>5
<1> HIDE DEF node
<1>10. QED
  BY <1>5, <1>6, <1>7, <1>8, <1>9

-----------------------------------------------------------------------------
(* Where the data of member k is. *)
DataOf(a, k) == HeaderAt(a)[k] + BLOCK .. HeaderAt(a)[k] + BLOCK + SizeOf(a[k]) - 1

LEMMA DataPlaced ==
  ASSUME NEW a \in Archives, NEW k \in 1 .. Len(a)
  PROVE  /\ HeaderAt(a)[k] \in Nat /\ BLOCK \in Nat /\ SizeOf(a[k]) \in Nat /\ Len(a) \in Nat
         /\ \A l \in k + 1 .. Len(a) + 1 :
              /\ HeaderAt(a)[k] + BLOCK + SizeOf(a[k]) <= HeaderAt(a)[l]
              /\ HeaderAt(a)[l] \in Nat
<1> DEFINE at == HeaderAt(a)
<1>0. Len(a) \in Nat /\ BLOCK \in Nat
  BY ArchiveTyped
<1>1. \A l \in 1 .. Len(a) + 1 : at[l] \in Nat
  BY HeadersAt
<1>2. Extent(a[k]) \in Nat /\ BLOCK + SizeOf(a[k]) <= Extent(a[k]) /\ SizeOf(a[k]) \in Nat
  BY ExtentHolds, MemberTyped
<1> HIDE DEF at
<1>3. k \in 1 .. Len(a) + 1 /\ at[k] \in Nat
  BY <1>0, <1>1
<1>4. ASSUME NEW l \in k + 1 .. Len(a) + 1
      PROVE  at[k] + BLOCK + SizeOf(a[k]) <= at[l] /\ at[l] \in Nat
  <2>1. l \in 1 .. Len(a) + 1
    BY <1>0
  <2>2. at[k] + Extent(a[k]) <= at[l] /\ at[l] \in Nat
    BY <1>1, <2>1, HeadersApart DEF at
  <2>3. QED
    BY <1>0, <1>2, <1>3, <2>2
<1>5. QED
  BY <1>0, <1>2, <1>3, <1>4 DEF at

(* What ends before q has nothing in common with what begins there. *)
LEMMA IntervalsApart ==
  ASSUME NEW p \in Nat, NEW q \in Nat, NEW b \in Nat, NEW m \in Nat, NEW n \in Nat,
         p + b + m <= q, NEW y \in p + b .. p + b + m - 1
  PROVE  y \notin q + b .. q + b + n - 1
  OBVIOUS

LEMMA DataApart ==
  ASSUME NEW a \in Archives, NEW k \in 1 .. Len(a), NEW l \in 1 .. Len(a), k # l,
         NEW x \in DataOf(a, k)
  PROVE  x \notin DataOf(a, l)
<1> DEFINE at == HeaderAt(a)
<1>1. ASSUME NEW i \in 1 .. Len(a), NEW j \in 1 .. Len(a), i < j,
             NEW y \in DataOf(a, i), y \in DataOf(a, j)
      PROVE  FALSE
  <2>1. /\ at[i] \in Nat /\ at[j] \in Nat /\ BLOCK \in Nat /\ SizeOf(a[i]) \in Nat
        /\ SizeOf(a[j]) \in Nat /\ Len(a) \in Nat
    BY DataPlaced
  <2>2. j \in i + 1 .. Len(a) + 1
    BY <1>1, <2>1
  <2>3. at[i] + BLOCK + SizeOf(a[i]) <= at[j]
    <3>1. \A m \in i + 1 .. Len(a) + 1 : at[i] + BLOCK + SizeOf(a[i]) <= at[m]
      BY DataPlaced
    <3> HIDE DEF at
    <3>2. QED
      BY <2>2, <3>1
  <2> HIDE DEF at
  <2>4. /\ y \in at[i] + BLOCK .. at[i] + BLOCK + SizeOf(a[i]) - 1
        /\ y \in at[j] + BLOCK .. at[j] + BLOCK + SizeOf(a[j]) - 1
    BY <1>1, Zenon DEF DataOf, at
  <2>5. QED
    BY <2>1, <2>3, <2>4, IntervalsApart
<1>2. CASE k < l
  BY <1>1, <1>2
<1>3. CASE l < k
  BY <1>1, <1>3
<1>4. Len(a) \in Nat
  BY ArchiveTyped
<1>5. QED
  BY <1>2, <1>3, <1>4

(* The image of the archive has the members' bytes where tar_parse looks.  *)
LEMMA ImageCell ==
  ASSUME NEW a \in Archives, NEW k \in 1 .. Len(a), NEW x \in DataOf(a, k)
  PROVE  x \in DOMAIN Image(a) /\ Image(a)[x] = <<k, x - HeaderAt(a)[k] - BLOCK>>
<1> DEFINE at == HeaderAt(a)
           L == Len(a)
           end == at[L + 1] + BLOCK
           Here(i) == x \in at[i] + BLOCK .. at[i] + BLOCK + SizeOf(a[i]) - 1
<1>1. L \in Nat /\ at[k] \in Nat /\ BLOCK \in Nat /\ SizeOf(a[k]) \in Nat
  BY DataPlaced
<1>2. L + 1 \in k + 1 .. L + 1
  BY <1>1
<1>3. at[k] + BLOCK + SizeOf(a[k]) <= at[L + 1] /\ at[L + 1] \in Nat
  BY <1>2, DataPlaced
<1>4. ADDRESS \in Nat /\ ADDRESS <= at[k]
  <2>1. at[1] = ADDRESS /\ ADDRESS \in Nat
    BY HeadersAt, ArchiveTyped
  <2>2. CASE k = 1
    BY <2>1, <2>2
  <2>3. CASE k # 1
    <3>1. 1 \in 1 .. L /\ k \in 1 + 1 .. L + 1
      BY <1>1, <2>3
    <3>2. at[1] < at[k]
      BY <3>1, HeadersApart
    <3>3. QED
      BY <1>1, <2>1, <3>2
  <2>4. QED
    BY <2>2, <2>3
<1>5. Here(k)
  BY DEF DataOf
<1>6. ASSUME NEW i \in 1 .. L, Here(i) PROVE i = k
  BY <1>6, DataApart DEF DataOf
<1>7. Image(a) = [y \in ADDRESS .. end - 1 |->
        IF \E i \in 1 .. L : y \in at[i] + BLOCK .. at[i] + BLOCK + SizeOf(a[i]) - 1
        THEN LET i == CHOOSE i \in 1 .. L : y \in at[i] + BLOCK .. at[i] + BLOCK + SizeOf(a[i]) - 1
             IN <<i, y - at[i] - BLOCK>>
        ELSE <<0, 0>>]
  BY DEF Image
<1> HIDE DEF at, L
<1>8. x \in ADDRESS .. end - 1
  <2> DEFINE p == at[k]
             sz == SizeOf(a[k])
             q == at[L + 1]
  <2>1. /\ p \in Nat /\ sz \in Nat /\ q \in Nat /\ BLOCK \in Nat /\ ADDRESS \in Nat
        /\ ADDRESS <= p /\ p + BLOCK + sz <= q /\ x \in p + BLOCK .. p + BLOCK + sz - 1
    BY <1>1, <1>3, <1>4, <1>5
  <2> HIDE DEF p, sz, q
  <2>2. x \in Int /\ ADDRESS <= x /\ x <= q + BLOCK - 1
    BY <2>1
  <2>3. end = q + BLOCK
    BY DEF q
  <2> HIDE DEF end
  <2>4. x \in ADDRESS .. end - 1
    BY <2>1, <2>2, <2>3
  <2>5. QED
    BY <2>4 DEF end
<1>9. (CHOOSE i \in 1 .. L : Here(i)) = k
  <2>1. k \in 1 .. L
    BY DEF L
  <2> HIDE DEF Here
  <2>2. QED
    BY <1>5, <1>6, <2>1
<1>10. \E i \in 1 .. L : Here(i)
  BY <1>5 DEF L
<1>11. Image(a)[x] = <<k, x - at[k] - BLOCK>>
  BY <1>7, <1>8, <1>9, <1>10
<1>12. DOMAIN Image(a) = ADDRESS .. end - 1
  BY <1>7
<1>13. QED
  BY <1>8, <1>11, <1>12 DEF at

-----------------------------------------------------------------------------
(* The memory of the initrd: as the boot loader left it until the archive  *)
(* was read, and of the same extent ever after.                            *)
MemInv ==
  /\ mem = [x \in DOMAIN Image(archive) |-> mem[x]]
  /\ stage # "ready" => mem = Image(archive)

TarIInv == ParseInv /\ MemInv

(* The initrd's part of the store's files, as its definition has them.     *)
made == SubSeq(TarMade, 1, Least(MAX_TAR_FILES, Len(TarMade)))
seen == IF stage = "ready" THEN TarFiles ELSE <<>>

FirstByte(f) == HeaderAt(archive)[f] + BLOCK
SeenFile(f)  == [o \in 1 .. SizeOf(archive[f]) |-> mem[FirstByte(f) + o - 1]]

LEMMA FilesAre ==
  ASSUME ParseInv, Parsed(Len(archive))
  PROVE  /\ file_count = AsMany(Len(archive)) /\ file_count \in Nat /\ file_count <= Len(archive)
         /\ Len(archive) \in Nat
         /\ TarFiles = [f \in 1 .. file_count |-> SeenFile(f)]
<1>1. Len(archive) \in Nat /\ file_count = AsMany(Len(archive))
  BY ArchiveTyped DEF ParseInv, Parsed
<1>2. file_count \in Nat /\ file_count <= Len(archive)
  BY <1>1, AsManyIs
<1>3. ASSUME NEW f \in 1 .. file_count
      PROVE  /\ file_entries[f - 1].size = SizeOf(archive[f])
             /\ file_entries[f - 1].address = FirstByte(f)
  <2>1. file_entries[f - 1] = EntryOf(f)
    BY <1>1 DEF Parsed
  <2>2. QED
    BY <2>1 DEF EntryOf, FirstByte
<1>4. QED
  BY <1>1, <1>2, <1>3 DEF TarFiles, SeenFile

LEMMA ByteOfFile ==
  ASSUME archive \in Archives, NEW f \in 1 .. Len(archive), NEW o \in 1 .. SizeOf(archive[f])
  PROVE  FirstByte(f) + o - 1 \in DataOf(archive, f) /\ FirstByte(f) \in Nat /\ SizeOf(archive[f]) \in Nat
<1> DEFINE p == HeaderAt(archive)[f]
           sz == SizeOf(archive[f])
<1>1. p \in Nat /\ BLOCK \in Nat /\ sz \in Nat
  BY DataPlaced
<1>2. FirstByte(f) = p + BLOCK /\ DataOf(archive, f) = p + BLOCK .. p + BLOCK + sz - 1
  BY DEF FirstByte, DataOf
<1> HIDE DEF p, sz
<1>3. o \in 1 .. sz
  BY DEF sz
<1>4. p + BLOCK + o - 1 \in p + BLOCK .. p + BLOCK + sz - 1
  BY <1>1, <1>3
<1>5. QED
  BY <1>1, <1>2, <1>4 DEF sz

(* When the archive was read the files are as they were made. *)
LEMMA FilesAsMade ==
  ASSUME ParseInv, Parsed(Len(archive)), mem = Image(archive)
  PROVE  TarFiles = made
<1> DEFINE L == Len(archive)
           n == AsMany(L)
<1>1. archive \in Archives /\ L \in Nat /\ n \in Nat /\ n <= L /\ file_count = n
      /\ MAX_TAR_FILES \in Nat
  BY FilesAre, TarAssumption DEF ParseInv
<1>2. TarFiles = [f \in 1 .. n |-> SeenFile(f)]
  BY <1>1, FilesAre
<1>3. ASSUME NEW f \in 1 .. n PROVE SeenFile(f) = TarMade[f]
  <2>1. f \in 1 .. L
    BY <1>1
  <2>2. ASSUME NEW o \in 1 .. SizeOf(archive[f]) PROVE mem[FirstByte(f) + o - 1] = <<f, o - 1>>
    <3>1. FirstByte(f) + o - 1 \in DataOf(archive, f) /\ FirstByte(f) \in Nat /\ SizeOf(archive[f]) \in Nat
      BY <1>1, <2>1, ByteOfFile
    <3>2. Image(archive)[FirstByte(f) + o - 1] = <<f, (FirstByte(f) + o - 1) - HeaderAt(archive)[f] - BLOCK>>
      BY <1>1, <2>1, <3>1, ImageCell
    <3>3. HeaderAt(archive)[f] \in Nat /\ BLOCK \in Nat
      BY <1>1, <2>1, DataPlaced
    <3>4. (FirstByte(f) + o - 1) - HeaderAt(archive)[f] - BLOCK = o - 1
      BY <3>1, <3>3 DEF FirstByte
    <3>5. QED
      BY <3>2, <3>4
  <2>3. TarMade[f] = [o \in 1 .. SizeOf(archive[f]) |-> <<f, o - 1>>]
    BY <2>1 DEF TarMade
  <2>4. QED
    BY <2>2, <2>3 DEF SeenFile
<1>4. Len(TarMade) = L
  <2>1. DOMAIN TarMade = 1 .. L /\ TarMade = [f \in 1 .. L |-> TarMade[f]]
    BY DEF TarMade
  <2>2. TarMade \in Seq({TarMade[f] : f \in 1 .. L})
    BY <1>1, <2>1
  <2>3. QED
    BY <1>1, <2>1, <2>2
<1>5. Least(MAX_TAR_FILES, L) = n
  BY <1>1 DEF Least, AsMany
<1>6. made = SubSeq(TarMade, 1, n)
  BY <1>4, <1>5 DEF made
<1>7. SubSeq(TarMade, 1, n) = [f \in 1 .. n |-> TarMade[f]]
  <2>1. SubSeq(TarMade, 1, n) = [f \in 1 .. (1 + n - 1) |-> TarMade[1 + f - 1]]
    BY <1>1
  <2>2. 1 + n - 1 = n /\ \A f \in 1 .. n : 1 + f - 1 = f
    BY <1>1
  <2>3. QED
    BY <2>1, <2>2
<1>8. QED
  BY <1>2, <1>3, <1>6, <1>7

LEMMA MemKept ==
  ASSUME MemInv, [TarNext]_tar_vars
  PROVE  MemInv'
<1>1. CASE UNCHANGED <<archive, mem>> /\ (stage' = "ready" \/ stage # "ready")
  BY <1>1 DEF MemInv
<1>2. ASSUME NEW node \in Nodes, NEW wr \in Writes, tar_write(node, wr[1], wr[2])
      PROVE  MemInv'
  <2>1. /\ archive' = archive /\ stage' = "ready"
        /\ mem' = [a \in DOMAIN mem |-> IF a \in Written(node, wr[1], wr[2]) THEN New ELSE mem[a]]
    BY <1>2 DEF tar_write
  <2>2. DOMAIN mem' = DOMAIN mem /\ mem' = [a \in DOMAIN mem' |-> mem'[a]]
    BY <2>1
  <2>3. DOMAIN mem = DOMAIN Image(archive)
    BY DEF MemInv
  <2>4. QED
    BY <2>1, <2>2, <2>3 DEF MemInv
<1>3. CASE \E node \in Nodes, r \in Reads : tar_read(node, r[1], r[2])
  BY <1>1, <1>3 DEF tar_read
<1>4. CASE tar_parse \/ parse_header \/ parse_end
  BY <1>1, <1>4 DEF tar_parse, parse_header, parse_end
<1>5. CASE init_missing
  BY <1>1, <1>5 DEF init_missing, tar_vars
<1>6. CASE UNCHANGED tar_vars
  BY <1>1, <1>6 DEF tar_vars
<1>7. QED
  BY <1>2, <1>3, <1>4, <1>5, <1>6 DEF TarNext

LEMMA TarKept == TarIInv /\ [TarNext]_tar_vars => TarIInv'
  BY ParseNext, MemKept DEF TarIInv

(* A node that a caller of vfs holds, and the entry it reads through it.   *)
LEMMA NodeIs ==
  ASSUME ParseInv, stage = "ready", NEW node \in Nodes
  PROVE  \E f \in 1 .. file_count :
           /\ f \in 1 .. Len(archive)
           /\ node.inode = f - 1 /\ node.length = SizeOf(archive[f])
           /\ file_entries[f - 1].size = SizeOf(archive[f])
           /\ file_entries[f - 1].address = FirstByte(f)
<1>1. Parsed(Len(archive)) /\ TablesBuilt
  BY DEF ParseInv
<1>2. /\ file_count = AsMany(Len(archive)) /\ file_count \in Nat /\ file_count <= Len(archive)
      /\ Len(archive) \in Nat
  BY <1>1, FilesAre
<1>3. PICK f \in 1 .. file_count : node = tar_nodes[f]
  BY DEF Nodes
<1>4. tar_nodes[f] = [inode |-> f - 1, flags |-> "file", length |-> SizeOf(archive[f])]
  BY <1>1 DEF TablesBuilt
<1>5. file_entries[f - 1] = EntryOf(f)
  BY <1>1, <1>2 DEF Parsed
<1>6. f \in 1 .. Len(archive)
  BY <1>2
<1>7. QED
  BY <1>3, <1>4, <1>5, <1>6 DEF EntryOf, FirstByte

(* n bytes of m from p on. *)
Bytes(m, p, n) == [o \in 1 .. n |-> m[p + o - 1]]

(* How many of them a read of a file of s bytes gives. *)
CutLength(sz, offset, size) ==
  IF offset >= sz THEN 0 ELSE IF offset + size > sz THEN sz - offset ELSE size

LEMMA LenOfFunction ==
  ASSUME NEW sz \in Nat, NEW f, f = [o \in 1 .. sz |-> f[o]]
  PROVE  Len(f) = sz
<1> DEFINE S == {f[o] : o \in 1 .. sz}
<1>1. f \in [1 .. sz -> S]
  OBVIOUS
<1> HIDE DEF S
<1>2. f \in Seq(S) /\ DOMAIN f = 1 .. sz
  BY <1>1
<1>3. QED
  BY <1>2

(* What tar_read copies out of bytes at p is the cut that was asked for.   *)
LEMMA CutIsCopied ==
  ASSUME NEW sz \in Nat, NEW p \in Nat, NEW m, NEW offset \in Nat, NEW size \in Nat
  PROVE  Store!Cut(Bytes(m, p, sz), offset, size)
           = Bytes(m, p + offset, CutLength(sz, offset, size))
<1> DEFINE file == [o \in 1 .. sz |-> m[p + o - 1]]
           n == CutLength(sz, offset, size)
           e == IF offset + size <= sz THEN offset + size ELSE sz
<1>1. Len(file) = sz
  <2>1. file = [o \in 1 .. sz |-> file[o]]
    OBVIOUS
  <2> HIDE DEF file
  <2>2. QED
    BY <2>1, LenOfFunction
<1>2. \A o \in 1 .. sz : file[o] = m[p + o - 1]
  OBVIOUS
<1> HIDE DEF file
<1>3. Store!Cut(file, offset, size) = SubSeq(file, offset + 1, e)
  BY <1>1 DEF Store!Cut
<1>4. e \in Nat /\ n \in Nat
  BY DEF CutLength
<1>5. 1 .. (1 + e - (offset + 1)) = 1 .. n
  BY DEF CutLength
<1>6. SubSeq(file, offset + 1, e)
        = [j \in 1 .. (1 + e - (offset + 1)) |-> file[(offset + 1) + j - 1]]
  <2> DEFINE from == offset + 1
  <2>1. from \in Nat
    OBVIOUS
  <2> HIDE DEF e, from
  <2>2. SubSeq(file, from, e) = [j \in 1 .. (1 + e - from) |-> file[from + j - 1]]
    BY <1>4, <2>1
  <2>3. QED
    BY <2>2 DEF from
<1>7. ASSUME NEW j \in 1 .. n
      PROVE  file[(offset + 1) + j - 1] = m[p + offset + j - 1]
  <2>1. (offset + 1) + j - 1 \in 1 .. sz /\ p + ((offset + 1) + j - 1) - 1 = p + offset + j - 1
    BY DEF CutLength
  <2>2. QED
    BY <1>2, <2>1
<1>8. QED
  BY <1>3, <1>5, <1>6, <1>7 DEF file, Bytes

JustRead == ParseInv /\ Parsed(Len(archive)) /\ mem = Image(archive)
AllRead  == ParseInv /\ Parsed(Len(archive))
FilesSeen == TarFiles = [f \in 1 .. file_count |-> SeenFile(f)]

(* The same of the state after a step. *)
LEMMA FilesAsMadeNext == JustRead' => (TarFiles = made)'
<1>1. JustRead => TarFiles = made
  BY FilesAsMade DEF JustRead
<1>2. QED
  BY <1>1, PTL

LEMMA FilesAreNext == AllRead' => FilesSeen'
<1>1. AllRead => FilesSeen
  BY FilesAre DEF AllRead, FilesSeen
<1>2. QED
  BY <1>1, PTL

LEMMA TarOpens ==
  ASSUME TarIInv, parse_end
  PROVE  stage = "parse" /\ stage' = "ready" /\ TarFiles' = made /\ UNCHANGED <<archive, last>>
<1>1. /\ stage = "parse" /\ stage' = "ready"
      /\ archive' = archive /\ mem' = mem /\ last' = last
  BY DEF parse_end, build_tables
<1>2. ParseInv'
  BY ParseEnds DEF TarIInv
<1>3. Parsed(Len(archive))'
  BY <1>1, <1>2 DEF ParseInv
<1>4. (mem = Image(archive))'
  BY <1>1 DEF TarIInv, MemInv
<1>5. (TarFiles = made)'
  BY <1>2, <1>3, <1>4, FilesAsMadeNext DEF JustRead
<1>6. made' = made
  BY <1>1 DEF made, TarMade
<1>7. QED
  BY <1>1, <1>5, <1>6

LEMMA FilesStay ==
  ASSUME UNCHANGED <<archive, mem, file_count, file_entries>>
  PROVE  TarFiles' = TarFiles /\ made' = made
  BY DEF TarFiles, made, TarMade

LEMMA TarReads ==
  ASSUME TarIInv, NEW node \in Nodes, NEW r \in Reads, tar_read(node, r[1], r[2])
  PROVE  /\ stage = "ready"
         /\ last'.file \in DOMAIN TarFiles
         /\ last'.bytes = Store!Cut(TarFiles[last'.file], last'.offset, last'.size)
         /\ UNCHANGED <<archive, stage, mem, file_count, file_entries>>
<1> DEFINE offset == r[1]
           size == r[2]
<1>1. /\ stage = "ready" /\ offset + size < WORD
      /\ last' = [file |-> node.inode + 1, offset |-> offset, size |-> size,
                  bytes |-> [j \in 1 .. ReadSize(node, offset, size) |->
                               mem[file_entries[node.inode].address + offset + j - 1]]]
      /\ UNCHANGED <<archive, stage, mem, file_count, file_entries>>
  BY DEF tar_read, tables
<1>2. offset \in Nat /\ size \in Nat /\ WORD \in Nat \ {0}
  BY TarAssumption
<1>3. PICK f \in 1 .. file_count :
        /\ f \in 1 .. Len(archive)
        /\ node.inode = f - 1 /\ node.length = SizeOf(archive[f])
        /\ file_entries[f - 1].size = SizeOf(archive[f])
        /\ file_entries[f - 1].address = FirstByte(f)
  BY <1>1, NodeIs DEF TarIInv
<1>4. /\ file_count \in Nat /\ TarFiles = [g \in 1 .. file_count |-> SeenFile(g)]
      /\ archive \in Archives
  BY <1>1, FilesAre DEF TarIInv, ParseInv
<1>5. HeaderAt(archive)[f] \in Nat /\ BLOCK \in Nat /\ SizeOf(archive[f]) \in Nat
  BY <1>3, <1>4, DataPlaced
<1> DEFINE sz == SizeOf(archive[f])
           p == FirstByte(f)
           n == ReadSize(node, offset, size)
<1>6. p \in Nat /\ sz \in Nat
  BY <1>5 DEF FirstByte
<1>7. n = CutLength(sz, offset, size)
  <2>1. (offset + size) % WORD = offset + size
    <3>1. offset + size \in Nat
      BY <1>2
    <3> HIDE DEF offset, size
    <3>2. QED
      BY <1>1, <1>2, <3>1, ModOfLess
  <2>2. ~ (node.inode >= file_count) /\ file_entries[node.inode].size = sz
    BY <1>3, <1>4
  <2> HIDE DEF offset, size, sz
  <2>3. QED
    BY <2>1, <2>2 DEF ReadSize, CutLength
<1>8. last'.file = f /\ last'.offset = offset /\ last'.size = size
      /\ last'.bytes = Bytes(mem, p + offset, n)
  <2>1. node.inode + 1 = f /\ file_entries[node.inode].address = p
    BY <1>3, <1>4
  <2> HIDE DEF offset, size, p, n
  <2>2. QED
    BY <1>1, <2>1 DEF n, Bytes
<1>9. f \in DOMAIN TarFiles /\ TarFiles[f] = Bytes(mem, p, sz)
  BY <1>3, <1>4 DEF SeenFile, Bytes
<1>10. Store!Cut(Bytes(mem, p, sz), offset, size) = Bytes(mem, p + offset, n)
  <2> HIDE DEF offset, size, sz, p, n
  <2>1. QED
    BY <1>2, <1>6, <1>7, CutIsCopied
<1> HIDE DEF offset, size, sz, p, n
<1>11. QED
  BY <1>1, <1>8, <1>9, <1>10

(* What tar_write does to a byte of a file: of its own, and of another.    *)
Overwritten(W) == mem' = [a \in DOMAIN mem |-> IF a \in W THEN New ELSE mem[a]]
Extends(W, p, size) == W = p .. p + size - 1
Fits(f, n) == n <= SizeOf(archive[f])

LEMMA CellWritten ==
  ASSUME archive \in Archives, DOMAIN mem = DOMAIN Image(archive),
         NEW f \in 1 .. Len(archive), NEW offset \in Nat, NEW size \in Nat,
         Fits(f, offset + size), NEW W, Extends(W, FirstByte(f) + offset, size), Overwritten(W),
         NEW g \in 1 .. Len(archive), NEW o \in 1 .. SizeOf(archive[g])
  PROVE  mem'[FirstByte(g) + o - 1] =
           IF g = f /\ o \in offset + 1 .. offset + size THEN New
           ELSE mem[FirstByte(g) + o - 1]
<1> DEFINE x == FirstByte(g) + o - 1
<1>1. x \in DataOf(archive, g) /\ FirstByte(g) \in Nat /\ SizeOf(archive[g]) \in Nat
  BY ByteOfFile
<1>2. HeaderAt(archive)[f] \in Nat /\ BLOCK \in Nat /\ SizeOf(archive[f]) \in Nat
  BY DataPlaced
<1>3. x \in DOMAIN mem
  BY <1>1, ImageCell
<1>4. mem'[x] = IF x \in W THEN New ELSE mem[x]
  <2> HIDE DEF x
  <2>1. QED
    BY <1>3 DEF Overwritten
<1>5. FirstByte(f) \in Nat /\ FirstByte(f) = HeaderAt(archive)[f] + BLOCK
  BY <1>2 DEF FirstByte
<1>6. CASE g = f
  <2> DEFINE p == FirstByte(f)
  <2>1. p \in Nat /\ W = p + offset .. p + offset + size - 1 /\ x = p + o - 1 /\ o \in Nat
    BY <1>1, <1>5, <1>6 DEF Extends
  <2> HIDE DEF p, x
  <2>2. x \in W <=> o \in offset + 1 .. offset + size
    BY <2>1
  <2>3. QED
    BY <1>4, <1>6, <2>2 DEF x
<1>7. CASE g # f
  <2>1. W \subseteq DataOf(archive, f)
    <3> DEFINE p == FirstByte(f)
               sz == SizeOf(archive[f])
    <3>1. p \in Nat /\ sz \in Nat /\ offset + size <= sz
          /\ W = p + offset .. p + offset + size - 1
          /\ DataOf(archive, f) = p .. p + sz - 1
      BY <1>2, <1>5 DEF DataOf, Extends, Fits
    <3> HIDE DEF p, sz
    <3>2. QED
      BY <3>1
  <2>2. x \notin W
    BY <1>1, <1>7, <2>1, DataApart
  <2>3. QED
    BY <1>4, <1>7, <2>2
<1>8. QED
  BY <1>6, <1>7

LEMMA TarWrites ==
  ASSUME TarIInv, NEW node \in Nodes, NEW wr \in Writes, tar_write(node, wr[1], wr[2])
  PROVE  LET f == last'.file
             range == last'.offset + 1 .. last'.offset + last'.size
         IN  /\ stage = "ready" /\ UNCHANGED <<archive, stage>>
             /\ f \in DOMAIN TarFiles
             /\ range \subseteq DOMAIN TarFiles[f]
             /\ TarFiles' = [TarFiles EXCEPT ![f] =
                               [i \in DOMAIN @ |-> IF i \in range THEN New ELSE @[i]]]
<1> DEFINE offset == wr[1]
           size == wr[2]
           range == offset + 1 .. offset + size
<1>1. /\ stage = "ready" /\ offset + size <= node.length
      /\ mem' = [a \in DOMAIN mem |-> IF a \in Written(node, offset, size) THEN New ELSE mem[a]]
      /\ last' = [file |-> node.inode + 1, offset |-> offset, size |-> size, bytes |-> <<>>]
      /\ UNCHANGED <<archive, stage, file_count, file_entries>>
  BY DEF tar_write, tables
<1>2. offset \in Nat /\ size \in Nat
  BY TarAssumption
<1>3. PICK f \in 1 .. file_count :
        /\ f \in 1 .. Len(archive)
        /\ node.inode = f - 1 /\ node.length = SizeOf(archive[f])
        /\ file_entries[f - 1].size = SizeOf(archive[f])
        /\ file_entries[f - 1].address = FirstByte(f)
  BY <1>1, NodeIs DEF TarIInv
<1>4. /\ file_count \in Nat /\ TarFiles = [g \in 1 .. file_count |-> SeenFile(g)]
      /\ archive \in Archives /\ file_count <= Len(archive) /\ Len(archive) \in Nat
  BY <1>1, FilesAre DEF TarIInv, ParseInv
<1>5. DOMAIN mem = DOMAIN Image(archive)
  BY DEF TarIInv, MemInv
<1>6. last'.file = f /\ last'.offset = offset /\ last'.size = size
  <2>1. node.inode + 1 = f
    BY <1>3, <1>4
  <2> HIDE DEF offset, size
  <2>2. QED
    BY <1>1, <2>1
<1>7. Written(node, offset, size) = FirstByte(f) + offset .. FirstByte(f) + offset + size - 1
  BY <1>3 DEF Written
<1>8. offset + size <= SizeOf(archive[f])
  BY <1>1, <1>3
<1>9. ASSUME NEW g \in 1 .. Len(archive), NEW o \in 1 .. SizeOf(archive[g])
      PROVE  mem'[FirstByte(g) + o - 1] =
               IF g = f /\ o \in range THEN New ELSE mem[FirstByte(g) + o - 1]
  <2> DEFINE W == Written(node, offset, size)
  <2>1. Extends(W, FirstByte(f) + offset, size) /\ Overwritten(W) /\ Fits(f, offset + size)
    BY <1>1, <1>7, <1>8 DEF Extends, Overwritten, Fits
  <2> HIDE DEF W, offset, size
  <2>2. QED
    BY <1>2, <1>3, <1>4, <1>5, <2>1, CellWritten
<1>10. SizeOf(archive[f]) \in Nat
  BY <1>3, <1>4, DataPlaced
<1>11. range \subseteq 1 .. SizeOf(archive[f])
  <2> HIDE DEF offset, size
  <2>1. QED
    BY <1>2, <1>8, <1>10
<1> HIDE DEF offset, size, range
<1>12. ASSUME NEW g \in 1 .. file_count
       PROVE  SeenFile(g)' = IF g = f THEN [i \in 1 .. SizeOf(archive[f]) |->
                                              IF i \in range THEN New ELSE SeenFile(f)[i]]
                             ELSE SeenFile(g)
  <2>1. g \in 1 .. Len(archive)
    BY <1>4
  <2>2. SeenFile(g)' = [o \in 1 .. SizeOf(archive[g]) |-> mem'[FirstByte(g) + o - 1]]
    BY <1>1 DEF SeenFile, FirstByte
  <2>3. SeenFile(g)' = [o \in 1 .. SizeOf(archive[g]) |->
           IF g = f /\ o \in range THEN New ELSE mem[FirstByte(g) + o - 1]]
    BY <1>9, <2>1, <2>2
  <2>4. QED
    BY <2>3 DEF SeenFile
<1>13. FilesSeen'
  <2>1. ParseInv'
    <3>1. UNCHANGED parsed
      BY DEF tar_write, parsed, tables
    <3>2. QED
      BY <3>1, ParseKept DEF TarIInv
  <2>2. Parsed(Len(archive))'
    BY <1>1, <2>1 DEF ParseInv
  <2>3. QED
    BY <2>1, <2>2, FilesAreNext DEF AllRead
<1>14. TarFiles' = [g \in 1 .. file_count |-> SeenFile(g)']
  BY <1>1, <1>13 DEF FilesSeen
<1>15. f \in DOMAIN TarFiles /\ DOMAIN TarFiles[f] = 1 .. SizeOf(archive[f])
  BY <1>3, <1>4 DEF SeenFile
<1>16. TarFiles' = [TarFiles EXCEPT ![f] =
                      [i \in DOMAIN @ |-> IF i \in range THEN New ELSE @[i]]]
  BY <1>4, <1>12, <1>14, <1>15
<1>17. QED
  BY <1>1, <1>6, <1>11, <1>15, <1>16 DEF range

-----------------------------------------------------------------------------
(* The initrd as a store of files.                                         *)
LEMMA TarStarts == TarInit => TarIInv
<1>1. ASSUME TarInit PROVE MemInv
  <2>1. mem = Image(archive) /\ stage = "start"
    BY <1>1 DEF TarInit
  <2>2. Image(archive) = [x \in DOMAIN Image(archive) |-> Image(archive)[x]]
    BY DEF Image
  <2>3. QED
    BY <2>1, <2>2 DEF MemInv
<1>2. QED
  BY <1>1, ParseStarts DEF TarIInv

(* Under the root of the archive the store is the archive's. *)
Kept == root = "tar" /\ root' = "tar"

LEMMA StoreIsTar ==
  ASSUME Kept
  PROVE  /\ Store!Open <=> /\ stage # "ready" /\ stage' = "ready"
                           /\ seen' = made /\ made' = made /\ last' = last
         /\ Store!Read <=> /\ stage = "ready"
                           /\ last'.file \in DOMAIN seen
                           /\ last'.bytes = Store!Cut(seen[last'.file], last'.offset, last'.size)
                           /\ made' = made /\ (stage' = "ready" <=> stage = "ready")
                           /\ seen' = seen
         /\ Store!Write <=> LET f == last'.file
                                range == last'.offset + 1 .. last'.offset + last'.size
                            IN  /\ stage = "ready" /\ f \in DOMAIN seen
                                /\ range \subseteq DOMAIN seen[f]
                                /\ seen' = [seen EXCEPT ![f] =
                                     [i \in DOMAIN @ |-> IF i \in range THEN New ELSE @[i]]]
                                /\ made' = made /\ (stage' = "ready" <=> stage = "ready")
         /\ UNCHANGED Store!vars <=> /\ made' = made /\ (stage' = "ready" <=> stage = "ready")
                                     /\ seen' = seen /\ last' = last
<1>1. root = "tar" /\ root' = "tar"
  BY DEF Kept
<1>2. (Store!Open <=> /\ stage # "ready" /\ stage' = "ready"
                      /\ seen' = made /\ made' = made /\ last' = last)
  BY <1>1 DEF Store!Open, seen, made
<1>3. (Store!Read <=> /\ stage = "ready"
                           /\ last'.file \in DOMAIN seen
                           /\ last'.bytes = Store!Cut(seen[last'.file], last'.offset, last'.size)
                           /\ made' = made /\ (stage' = "ready" <=> stage = "ready")
                           /\ seen' = seen)
  BY <1>1 DEF Store!Read, seen, made
<1>4. (Store!Write <=> LET f == last'.file
                                range == last'.offset + 1 .. last'.offset + last'.size
                            IN  /\ stage = "ready" /\ f \in DOMAIN seen
                                /\ range \subseteq DOMAIN seen[f]
                                /\ seen' = [seen EXCEPT ![f] =
                                     [i \in DOMAIN @ |-> IF i \in range THEN New ELSE @[i]]]
                                /\ made' = made /\ (stage' = "ready" <=> stage = "ready"))
  BY <1>1 DEF Store!Write, seen, made
<1>5. (UNCHANGED Store!vars <=> /\ made' = made /\ (stage' = "ready" <=> stage = "ready")
                                     /\ seen' = seen /\ last' = last)
  BY <1>1 DEF Store!vars, seen, made
<1>6. QED
  BY <1>2, <1>3, <1>4, <1>5

LEMMA NothingSeen ==
  ASSUME archive' = archive, stage # "ready", stage' # "ready"
  PROVE  made' = made /\ seen' = seen /\ (stage' = "ready" <=> stage = "ready")
  BY DEF made, TarMade, seen

LEMMA SameSeen ==
  ASSUME UNCHANGED <<archive, mem, file_count, file_entries, stage>>
  PROVE  made' = made /\ seen' = seen
  BY FilesStay DEF seen

LEMMA TarImplements ==
  ASSUME TarIInv, Kept, [TarNext]_tar_vars
  PROVE  [Store!Next]_(Store!vars)
<1>1. CASE tar_parse \/ parse_header
  <2>1. stage # "ready" /\ stage' # "ready" /\ archive' = archive /\ last' = last
    BY <1>1 DEF tar_parse, parse_header
  <2>2. UNCHANGED Store!vars
    BY <2>1, NothingSeen, StoreIsTar
  <2>3. QED
    BY <2>2
<1>2. CASE parse_end
  <2>1. /\ stage # "ready" /\ stage' = "ready" /\ TarFiles' = made /\ archive' = archive
        /\ last' = last
    BY <1>2, TarOpens
  <2>2. made' = made
    BY <2>1 DEF made, TarMade
  <2>3. seen' = made
    BY <2>1 DEF seen
  <2>4. Store!Open
    BY <2>1, <2>2, <2>3, StoreIsTar
  <2>5. QED
    BY <2>4 DEF Store!Next
<1>3. ASSUME NEW node \in Nodes, NEW r \in Reads, tar_read(node, r[1], r[2])
      PROVE  Store!Read
  <2>1. /\ stage = "ready"
        /\ last'.file \in DOMAIN TarFiles
        /\ last'.bytes = Store!Cut(TarFiles[last'.file], last'.offset, last'.size)
        /\ UNCHANGED <<archive, stage, mem, file_count, file_entries>>
    BY <1>3, TarReads
  <2>2. seen = TarFiles
    BY <2>1 DEF seen
  <2>3. made' = made /\ seen' = seen /\ stage' = stage
    BY <2>1, SameSeen
  <2>4. QED
    BY <2>1, <2>2, <2>3, StoreIsTar
<1>4. ASSUME NEW node \in Nodes, NEW wr \in Writes, tar_write(node, wr[1], wr[2])
      PROVE  Store!Write
  <2> DEFINE f == last'.file
             range == last'.offset + 1 .. last'.offset + last'.size
  <2>1. /\ stage = "ready" /\ archive' = archive /\ stage' = stage
        /\ f \in DOMAIN TarFiles
        /\ range \subseteq DOMAIN TarFiles[f]
        /\ TarFiles' = [TarFiles EXCEPT ![f] =
                          [i \in DOMAIN @ |-> IF i \in range THEN New ELSE @[i]]]
    BY <1>4, TarWrites
  <2>2. made' = made
    BY <2>1 DEF made, TarMade
  <2>3. seen = TarFiles /\ seen' = TarFiles'
    BY <2>1 DEF seen
  <2>4. QED
    BY <2>1, <2>2, <2>3, StoreIsTar
<1>5. CASE UNCHANGED tar_vars
  <2>1. UNCHANGED <<archive, mem, file_count, file_entries, stage>> /\ last' = last
    BY <1>5 DEF tar_vars, tables
  <2>2. UNCHANGED Store!vars
    BY <2>1, SameSeen, StoreIsTar
  <2>3. QED
    BY <2>2
<1>6. CASE init_missing
  BY <1>5, <1>6 DEF init_missing
<1>7. QED
  BY <1>1, <1>2, <1>3, <1>4, <1>5, <1>6 DEF TarNext, Store!Next

-----------------------------------------------------------------------------
(***************************************************************************)
(* Ext2.                                                                   *)
(***************************************************************************)
(* A walk that ends at n or beyond: at o it makes step[o][v] of what the   *)
(* walk from next[o] makes.                                                *)
From(a) == {o \in Nat : o >= a}

IsWalk(f, V, a, n, base, step, next) ==
  /\ f \in [From(a) -> V]
  /\ \A o \in From(a) : f[o] = IF o >= n THEN base ELSE step[o][f[next[o]]]

LEMMA WalkExists ==
  ASSUME NEW V, NEW n \in Nat, NEW base \in V,
         NEW step \in [0 .. n - 1 -> [V -> V]], NEW next \in [0 .. n - 1 -> Nat],
         \A o \in 0 .. n - 1 : next[o] > o
  PROVE  \E f : IsWalk(f, V, 0, n, base, step, next)
<1> DEFINE Has(m) == \E f : IsWalk(f, V, n - m, n, base, step, next)
           Bad == {m \in Nat : m <= n /\ ~ Has(m)}
<1>1. Has(0)
  <2> DEFINE f == [o \in From(n) |-> base]
  <2>1. f \in [From(n) -> V] /\ \A o \in From(n) : o >= n /\ f[o] = base
    BY DEF From
  <2>2. n - 0 = n
    OBVIOUS
  <2>3. IsWalk(f, V, n - 0, n, base, step, next)
    BY <2>1, <2>2 DEF IsWalk
  <2>4. QED
    BY <2>3
<1>2. ASSUME NEW m \in Nat, m < n, Has(m) PROVE Has(m + 1)
  <2> DEFINE a == n - m
             b == n - (m + 1)
  <2>1. a \in Nat /\ b \in Nat /\ a = b + 1 /\ b \in 0 .. n - 1
    BY <1>2
  <2>2. PICK f : IsWalk(f, V, a, n, base, step, next)
    BY <1>2
  <2> HIDE DEF a, b
  <2> DEFINE g == [o \in From(b) |-> IF o = b THEN step[b][f[next[b]]] ELSE f[o]]
  <2>3. f \in [From(a) -> V]
    BY <2>2 DEF IsWalk
  <2>4. next[b] \in From(a)
    BY <2>1 DEF From
  <2>5. step[b][f[next[b]]] \in V
    BY <2>1, <2>3, <2>4
  <2>6. \A o \in From(b) : o = b \/ (o # b /\ o \in From(a))
    BY <2>1 DEF From
  <2>7. g \in [From(b) -> V]
    BY <2>3, <2>5, <2>6
  <2>8. ASSUME NEW o \in From(a) PROVE o \in From(b) /\ o # b
    BY <2>1 DEF From
  <2>9. \A o \in From(a) : g[o] = f[o]
    BY <2>8
  <2>10. ASSUME NEW o \in From(b)
         PROVE  g[o] = IF o >= n THEN base ELSE step[o][g[next[o]]]
    <3>1. CASE o = b
      <4>1. g[o] = step[o][f[next[o]]] /\ g[next[o]] = f[next[o]]
        BY <2>4, <2>9, <3>1
      <4>2. ~ (o >= n)
        BY <2>1, <3>1
      <4>3. QED
        BY <4>1, <4>2
    <3>2. CASE o # b
      <4>1. o \in From(a) /\ g[o] = f[o]
        BY <2>6, <2>9, <3>2
      <4>2. g[o] = IF o >= n THEN base ELSE step[o][f[next[o]]]
        BY <2>2, <4>1 DEF IsWalk
      <4>3. CASE o >= n
        BY <4>2, <4>3
      <4>4. CASE ~ (o >= n)
        <5>1. next[o] \in From(a)
          <6>1. o \in 0 .. n - 1 /\ o >= a /\ o \in Nat
            BY <4>1, <4>4 DEF From
          <6>2. next[o] > o /\ next[o] \in Nat
            BY <6>1
          <6>3. QED
            BY <2>1, <6>1, <6>2 DEF From
        <5>2. g[next[o]] = f[next[o]]
          BY <2>9, <5>1
        <5> HIDE DEF g
        <5>3. QED
          BY <4>2, <4>4, <5>2
      <4>5. QED
        BY <4>3, <4>4
    <3>3. QED
      BY <3>1, <3>2
  <2> HIDE DEF g
  <2>11. IsWalk(g, V, b, n, base, step, next)
    BY <2>7, <2>10 DEF IsWalk
  <2>12. QED
    BY <2>11 DEF b
<1>3. ASSUME Bad # {} PROVE FALSE
  <2>1. PICK m \in Bad : \A k \in Bad : m <= k
    BY <1>3, LeastExists
  <2> HIDE DEF Has
  <2>2. m \in Nat /\ m <= n /\ m # 0 /\ ~ Has(m)
    BY <1>1, <2>1
  <2>3. m - 1 \in Nat /\ m - 1 < n /\ m - 1 \notin Bad
    BY <2>1, <2>2
  <2>4. Has(m - 1)
    BY <2>2, <2>3
  <2>5. Has((m - 1) + 1)
    BY <1>2, <2>3, <2>4
  <2>6. (m - 1) + 1 = m
    BY <2>2
  <2>7. QED
    BY <2>2, <2>5, <2>6
<1>4. Has(n)
  <2> HIDE DEF Has
  <2>1. QED
    BY <1>3
<1>5. n - n = 0
  OBVIOUS
<1>6. QED
  BY <1>4, <1>5

LEMMA ConsIs ==
  ASSUME NEW V, NEW e \in V, NEW R \in Seq(V)
  PROVE  /\ <<e>> \o R \in Seq(V) /\ Len(<<e>> \o R) = Len(R) + 1 /\ Len(R) \in Nat
         /\ (<<e>> \o R)[1] = e
         /\ \A i \in 1 .. Len(R) : (<<e>> \o R)[i + 1] = R[i]
         /\ \A k \in 1 .. Len(R) + 1 : k = 1 \/ (k - 1 \in 1 .. Len(R) /\ (<<e>> \o R)[k] = R[k - 1])
<1>1. <<e>> \in Seq(V) /\ Len(<<e>>) = 1 /\ <<e>>[1] = e
  OBVIOUS
<1>2. /\ <<e>> \o R \in Seq(V) /\ Len(<<e>> \o R) = 1 + Len(R) /\ Len(R) \in Nat
      /\ \A i \in 1 .. 1 + Len(R) : (<<e>> \o R)[i] = IF i <= 1 THEN <<e>>[i] ELSE R[i - 1]
  BY <1>1, ConcatProperties, LenProperties
<1> DEFINE C == <<e>> \o R
           L == Len(R)
<1>3. L \in Nat /\ \A i \in 1 .. 1 + L : C[i] = IF i <= 1 THEN <<e>>[i] ELSE R[i - 1]
  BY <1>2
<1> HIDE DEF C, L
<1>4. C[1] = e
  <2>1. 1 \in 1 .. 1 + L
    BY <1>3
  <2>2. QED
    BY <1>1, <1>3, <2>1
<1>5. ASSUME NEW k \in 1 .. L + 1 PROVE k = 1 \/ (k - 1 \in 1 .. L /\ C[k] = R[k - 1])
  <2>1. k \in 1 .. 1 + L /\ (k # 1 => ~ (k <= 1) /\ k - 1 \in 1 .. L)
    BY <1>3
  <2>2. QED
    BY <1>3, <2>1
<1>6. ASSUME NEW i \in 1 .. L PROVE C[i + 1] = R[i]
  <2>1. i + 1 \in 1 .. L + 1 /\ (i + 1) - 1 = i /\ i + 1 # 1
    BY <1>3
  <2>2. QED
    BY <1>5, <2>1
<1>7. QED
  BY <1>2, <1>4, <1>5, <1>6 DEF C, L

-----------------------------------------------------------------------------
(* A directory of an image: what its records list.                         *)
Rec == [inode : Nat, rec_len : Nat, name : STRING]
Rec_(im, n, o) == Ext2!Record(im, n, o)

InUse(im, n, starts) == {o \in starts : Rec_(im, n, o).inode # 0}

Chained(im, n, size, starts) ==
  /\ starts \subseteq 0 .. size - 1 /\ 0 \in starts
  /\ \A o \in starts :
       LET next == o + Rec_(im, n, o).rec_len IN
       o < next /\ next \in starts \cup {size} /\ \A p \in starts : p <= o \/ next <= p
  /\ \A o, p \in InUse(im, n, starts) : Rec_(im, n, o).name = Rec_(im, n, p).name => o = p

Names(im, n) == {<<name, im.tree[n][name]>> : name \in DOMAIN im.tree[n]}

(* Where disk and image agree about directory n. *)
SameDirectory(n) ==
  /\ Ext2!ext2_read_inode(n) = Ext2!InodeOn(image, n)
  /\ disk[Ext2!InodeOn(image, n).block[1]] = image.blocks[Ext2!InodeOn(image, n).block[1]]

(* The entries E of the records in use from offset o on. *)
Lists(E, im, n, starts, o) ==
  /\ E \in Seq(Rec)
  /\ \A i \in 1 .. Len(E) : \E p \in InUse(im, n, starts) : o <= p /\ E[i] = Rec_(im, n, p)
  /\ \A p \in InUse(im, n, starts) : o <= p => \E i \in 1 .. Len(E) : E[i] = Rec_(im, n, p)
  /\ \A i, j \in 1 .. Len(E) : E[i].name = E[j].name => i = j

LEMMA DirectoryIs ==
  ASSUME NEW im, NEW n, Ext2!IsDirectory(im, n), BS \in Nat
  PROVE  LET size == Ext2!InodeOn(im, n).size IN
         /\ size \in Nat /\ size >= 1 /\ Ext2!InodeOn(im, n).dir = TRUE
         /\ \A o \in 0 .. size - 1 : Rec_(im, n, o) \in Rec
         /\ \E starts : /\ Chained(im, n, size, starts)
                        /\ {<<Rec_(im, n, o).name, Rec_(im, n, o).inode>> : o \in InUse(im, n, starts)}
                             = Names(im, n)
<1> DEFINE size == Ext2!InodeOn(im, n).size
<1>1. size \in 1 .. BS /\ \A o \in 0 .. BS - 1 : Rec_(im, n, o) \in Rec
  BY DEF Ext2!IsDirectory, Rec_, Rec
<1>2. Ext2!InodeOn(im, n).dir = TRUE
  BY DEF Ext2!IsDirectory
<1>3. PICK starts \in SUBSET (0 .. size - 1) :
       LET used == {o \in starts : Rec_(im, n, o).inode # 0} IN
       /\ 0 \in starts
       /\ \A o \in starts :
            LET next == o + Rec_(im, n, o).rec_len IN
            o < next /\ next \in starts \cup {size} /\ \A p \in starts : p <= o \/ next <= p
       /\ \A o, p \in used : Rec_(im, n, o).name = Rec_(im, n, p).name => o = p
       /\ {<<Rec_(im, n, o).name, Rec_(im, n, o).inode>> : o \in used} = Names(im, n)
  BY DEF Ext2!IsDirectory, Rec_, Names
<1>4. Chained(im, n, size, starts)
  BY <1>3 DEF Chained, InUse
<1>5. {<<Rec_(im, n, o).name, Rec_(im, n, o).inode>> : o \in InUse(im, n, starts)} = Names(im, n)
  BY <1>3 DEF InUse
<1>6. \A o \in 0 .. size - 1 : Rec_(im, n, o) \in Rec
  BY <1>1
<1>7. QED
  BY <1>1, <1>2, <1>4, <1>5, <1>6

LEMMA EntriesWalk ==
  ASSUME NEW n, SameDirectory(n), NEW size \in Nat, size = Ext2!InodeOn(image, n).size,
         \A o \in 0 .. size - 1 : Rec_(image, n, o) \in Rec
  PROVE  \E f : /\ f \in [Nat -> Seq(Rec)] /\ f[0] = Ext2!Entries(n)
                /\ \A o \in Nat : o >= size => f[o] = <<>>
                /\ \A o \in 0 .. size - 1 :
                     LET entry == Rec_(image, n, o) IN
                     entry.rec_len # 0 =>
                       f[o] = IF entry.inode # 0 THEN <<entry>> \o f[o + entry.rec_len]
                              ELSE f[o + entry.rec_len]
<1> DEFINE rec(o) == Rec_(image, n, o)
           V == Seq(Rec)
           Defines(f) == f = [offset \in Nat |->
             IF offset >= Ext2!ext2_read_inode(n).size THEN <<>>
             ELSE LET entry == disk[Ext2!ext2_read_inode(n).block[1]][offset + 1]
                      rest  == IF entry.rec_len = 0 THEN <<>> ELSE f[offset + entry.rec_len]
                  IN  IF entry.inode # 0 /\ entry.rec_len # 0 THEN <<entry>> \o rest ELSE rest]
           Works(f) == f = [o \in Nat |->
             IF o >= size THEN <<>>
             ELSE LET rest == IF rec(o).rec_len = 0 THEN <<>> ELSE f[o + rec(o).rec_len]
                  IN  IF rec(o).inode # 0 /\ rec(o).rec_len # 0 THEN <<rec(o)>> \o rest ELSE rest]
           step == [o \in 0 .. size - 1 |-> [v \in V |->
             LET rest == IF rec(o).rec_len = 0 THEN <<>> ELSE v
             IN  IF rec(o).inode # 0 /\ rec(o).rec_len # 0 THEN <<rec(o)>> \o rest ELSE rest]]
           next == [o \in 0 .. size - 1 |-> IF rec(o).rec_len = 0 THEN o + 1 ELSE o + rec(o).rec_len]
<1>1. Ext2!Entries(n) = (CHOOSE f : Defines(f))[0]
  BY DEF Ext2!Entries
<1>2. ASSUME NEW f PROVE Defines(f) <=> Works(f)
  <2>1. Ext2!ext2_read_inode(n) = Ext2!InodeOn(image, n)
    BY DEF SameDirectory
  <2>2. \A o : disk[Ext2!ext2_read_inode(n).block[1]][o + 1] = rec(o)
    BY <2>1 DEF SameDirectory, Rec_, Ext2!Record
  <2>3. Ext2!ext2_read_inode(n).size = size
    BY <2>1
  <2> HIDE DEF rec
  <2>4. QED
    BY <2>2, <2>3
<1>3. \A o \in 0 .. size - 1 : rec(o) \in Rec /\ rec(o).rec_len \in Nat
  BY DEF Rec
<1> HIDE DEF rec
<1>4. next \in [0 .. size - 1 -> Nat] /\ \A o \in 0 .. size - 1 : next[o] > o
  BY <1>3
<1>5. step \in [0 .. size - 1 -> [V -> V]]
  <2>1. ASSUME NEW o \in 0 .. size - 1, NEW v \in V
        PROVE  (LET rest == IF rec(o).rec_len = 0 THEN <<>> ELSE v
                IN  IF rec(o).inode # 0 /\ rec(o).rec_len # 0 THEN <<rec(o)>> \o rest ELSE rest) \in V
    <3>1. <<>> \in V /\ <<rec(o)>> \o v \in V
      BY <1>3, ConsIs
    <3> HIDE DEF V
    <3>2. QED
      BY <3>1
  <2> HIDE DEF V
  <2>2. QED
    BY <2>1
<1>6. <<>> \in V
  OBVIOUS
<1> HIDE DEF V
<1>7. PICK f : IsWalk(f, V, 0, size, <<>>, step, next)
  <2> HIDE DEF step, next
  <2>1. QED
    BY <1>4, <1>5, <1>6, WalkExists
<1>8. f \in [Nat -> V] /\ \A o \in Nat : f[o] = IF o >= size THEN <<>> ELSE step[o][f[next[o]]]
  <2>1. From(0) = Nat
    BY DEF From
  <2> HIDE DEF step, next
  <2>2. QED
    BY <1>7, <2>1 DEF IsWalk
<1>9. Works(f)
  <2>1. ASSUME NEW o \in Nat
        PROVE  f[o] = IF o >= size THEN <<>>
                      ELSE LET rest == IF rec(o).rec_len = 0 THEN <<>> ELSE f[o + rec(o).rec_len]
                           IN  IF rec(o).inode # 0 /\ rec(o).rec_len # 0 THEN <<rec(o)>> \o rest ELSE rest
    <3>1. CASE o >= size
      BY <1>8, <3>1
    <3>2. CASE ~ (o >= size)
      <4>1. o \in 0 .. size - 1
        BY <3>2
      <4>2. f[o] = step[o][f[next[o]]] /\ f[next[o]] \in V
        <5> HIDE DEF step, next
        <5>1. QED
          BY <1>4, <1>8, <3>2, <4>1
      <4>3. next[o] = IF rec(o).rec_len = 0 THEN o + 1 ELSE o + rec(o).rec_len
        BY <4>1
      <4>4. \A v \in V : step[o][v] =
              LET rest == IF rec(o).rec_len = 0 THEN <<>> ELSE v
              IN  IF rec(o).inode # 0 /\ rec(o).rec_len # 0 THEN <<rec(o)>> \o rest ELSE rest
        BY <4>1
      <4> HIDE DEF step, next
      <4>5. QED
        BY <3>2, <4>2, <4>3, <4>4
    <3>3. QED
      BY <3>1, <3>2
  <2>2. QED
    BY <1>8, <2>1
<1> DEFINE h == CHOOSE g : Defines(g)
<1>10. Works(h)
  <2> HIDE DEF Defines, Works
  <2>1. QED
    BY <1>2, <1>9
<1>11. \A o \in Nat : h[o] = IF o >= size THEN <<>>
             ELSE LET rest == IF rec(o).rec_len = 0 THEN <<>> ELSE h[o + rec(o).rec_len]
                  IN  IF rec(o).inode # 0 /\ rec(o).rec_len # 0 THEN <<rec(o)>> \o rest ELSE rest
  <2> HIDE DEF h
  <2>1. QED
    BY <1>10
<1>12. h \in [Nat -> V]
  <2> DEFINE Bad == {m \in Nat : m <= size /\ h[size - m] \notin V}
  <2>1. \A o \in Nat : o >= size => h[o] \in V
    <3> HIDE DEF h
    <3>1. QED
      BY <1>6, <1>11
  <2>2. ASSUME Bad # {} PROVE FALSE
    <3>1. PICK m \in Bad : \A k \in Bad : m <= k
      BY <2>2, LeastExists
    <3> DEFINE o == size - m
    <3> HIDE DEF h
    <3>2. m \in Nat /\ m <= size /\ h[o] \notin V /\ o \in Nat
      BY <3>1
    <3>3. o < size /\ o \in 0 .. size - 1
      BY <2>1, <3>2
    <3>4. ASSUME NEW q \in Nat, q > o PROVE h[q] \in V
      <4>1. CASE q >= size
        BY <2>1, <4>1
      <4>2. CASE q < size
        <5>1. size - q \in Nat /\ size - q < m /\ size - q <= size /\ size - (size - q) = q
          BY <3>2, <3>4, <4>2
        <5>2. size - q \notin Bad
          BY <3>1, <5>1
        <5>3. QED
          BY <5>1, <5>2
      <4>3. QED
        BY <4>1, <4>2
    <3>5. rec(o) \in Rec /\ rec(o).rec_len \in Nat
      BY <1>3, <3>3
    <3>6. rec(o).rec_len # 0 => h[o + rec(o).rec_len] \in V
      <4>1. rec(o).rec_len # 0 => o + rec(o).rec_len \in Nat /\ o + rec(o).rec_len > o
        BY <3>2, <3>5
      <4>2. QED
        BY <3>4, <4>1
    <3>7. \A v \in V : <<rec(o)>> \o v \in V
      BY <3>5, ConsIs DEF V
    <3> HIDE DEF o
    <3>8. h[o] \in V
      BY <1>6, <1>11, <3>2, <3>3, <3>6, <3>7
    <3>9. QED
      BY <3>2, <3>8
  <2>3. ASSUME NEW o \in Nat PROVE h[o] \in V
    <3>1. CASE o >= size
      BY <2>1, <3>1
    <3>2. CASE o < size
      <4>1. size - o \in Nat /\ size - o <= size /\ size - (size - o) = o
        BY <3>2
      <4>2. size - o \notin Bad
        BY <2>2
      <4> HIDE DEF h
      <4>3. QED
        BY <4>1, <4>2
    <3> HIDE DEF h
    <3>3. QED
      BY <3>1, <3>2
  <2>4. h = [o \in Nat |-> h[o]]
    <3> HIDE DEF h
    <3>1. QED
      BY <1>10
  <2> HIDE DEF h
  <2>5. QED
    BY <2>3, <2>4
<1>13. h[0] = Ext2!Entries(n)
  BY <1>1
<1> HIDE DEF h
<1>14. \A o \in Nat : o >= size => h[o] = <<>>
  BY <1>11
<1>15. ASSUME NEW o \in 0 .. size - 1, rec(o).rec_len # 0
       PROVE  h[o] = IF rec(o).inode # 0 THEN <<rec(o)>> \o h[o + rec(o).rec_len]
                     ELSE h[o + rec(o).rec_len]
  <2>1. o \in Nat /\ ~ (o >= size)
    OBVIOUS
  <2>2. QED
    BY <1>11, <1>15, <2>1
<1>16. QED
  BY <1>12, <1>13, <1>14, <1>15 DEF V, rec

(* What both loops over the records of a directory meet. *)
LEMMA EntriesAre ==
  ASSUME NEW n, SameDirectory(n), NEW size \in Nat, size = Ext2!InodeOn(image, n).size,
         \A o \in 0 .. size - 1 : Rec_(image, n, o) \in Rec,
         NEW starts, Chained(image, n, size, starts)
  PROVE  Lists(Ext2!Entries(n), image, n, starts, 0)
<1> DEFINE rec(o) == Rec_(image, n, o)
           U == InUse(image, n, starts)
<1>1. PICK f : /\ f \in [Nat -> Seq(Rec)] /\ f[0] = Ext2!Entries(n)
               /\ \A o \in Nat : o >= size => f[o] = <<>>
               /\ \A o \in 0 .. size - 1 :
                    rec(o).rec_len # 0 =>
                      f[o] = IF rec(o).inode # 0 THEN <<rec(o)>> \o f[o + rec(o).rec_len]
                             ELSE f[o + rec(o).rec_len]
  BY EntriesWalk
<1>2. \A o \in 0 .. size - 1 : rec(o) \in Rec /\ rec(o).rec_len \in Nat
  BY DEF Rec
<1>3. starts \subseteq 0 .. size - 1 /\ 0 \in starts /\ U \subseteq starts
  BY DEF Chained, InUse
<1>4. \A o \in starts : /\ o < o + rec(o).rec_len
                        /\ o + rec(o).rec_len \in starts \cup {size}
                        /\ \A p \in starts : p <= o \/ o + rec(o).rec_len <= p
  BY DEF Chained
<1>5. \A o, p \in U : rec(o).name = rec(p).name => o = p
  BY DEF Chained
<1>6. \A o \in starts : o \in U <=> rec(o).inode # 0
  BY DEF InUse
<1> HIDE DEF rec, U
<1> DEFINE L(o) == /\ \A i \in 1 .. Len(f[o]) : \E p \in U : o <= p /\ f[o][i] = rec(p)
                   /\ \A p \in U : o <= p => \E i \in 1 .. Len(f[o]) : f[o][i] = rec(p)
                   /\ \A i, j \in 1 .. Len(f[o]) : f[o][i].name = f[o][j].name => i = j
<1>7. L(size)
  <2>1. f[size] = <<>> /\ Len(f[size]) = 0 /\ \A p \in U : ~ (size <= p)
    <3>1. f[size] = <<>>
      BY <1>1
    <3>2. \A p \in U : p \in 0 .. size - 1
      BY <1>3
    <3>3. QED
      BY <3>1, <3>2, EmptySeq
  <2>2. 1 .. Len(f[size]) = {}
    BY <2>1
  <2>3. QED
    BY <2>1, <2>2
<1>8. ASSUME NEW o \in starts, L(o + rec(o).rec_len) PROVE L(o)
  <2> DEFINE q == o + rec(o).rec_len
             e == rec(o)
             R == f[q]
             C == <<e>> \o R
  <2>1. o \in 0 .. size - 1 /\ e \in Rec /\ e.rec_len \in Nat /\ e.rec_len # 0 /\ q \in Nat /\ o < q
    <3>1. o \in 0 .. size - 1
      BY <1>3
    <3>2. rec(o) \in Rec /\ rec(o).rec_len \in Nat
      BY <1>2, <3>1
    <3>3. o < o + rec(o).rec_len
      BY <1>4
    <3>4. QED
      BY <3>1, <3>2, <3>3
  <2>2. f[o] = IF e.inode # 0 THEN C ELSE R
    BY <1>1, <2>1
  <2>3. \A p \in U : o <= p => p = o \/ q <= p
    <3>1. \A p \in starts : p \in Nat /\ (p <= o \/ q <= p)
      BY <1>3, <1>4
    <3>2. QED
      BY <1>3, <2>1, <3>1
  <2>4. R \in Seq(Rec)
    BY <1>1, <2>1
  <2>5. /\ \A i \in 1 .. Len(R) : \E p \in U : q <= p /\ R[i] = rec(p)
        /\ \A p \in U : q <= p => \E i \in 1 .. Len(R) : R[i] = rec(p)
        /\ \A i, j \in 1 .. Len(R) : R[i].name = R[j].name => i = j
    BY <1>8
  <2>6. \A p \in U : p \in Nat
    BY <1>3
  <2>7. CASE e.inode = 0
    <3>1. f[o] = R /\ o \notin U
      BY <1>6, <2>2, <2>7
    <3>2. \A p \in U : o <= p <=> q <= p
      BY <2>1, <2>3, <2>6, <3>1
    <3> HIDE DEF R, q
    <3>3. QED
      BY <2>5, <3>1, <3>2
  <2>8. CASE e.inode # 0
    <3>1. f[o] = C /\ o \in U
      BY <1>6, <2>2, <2>8
    <3>2. /\ Len(C) = Len(R) + 1 /\ Len(R) \in Nat /\ C[1] = e
          /\ \A i \in 1 .. Len(R) : C[i + 1] = R[i]
          /\ \A k \in 1 .. Len(R) + 1 : k = 1 \/ (k - 1 \in 1 .. Len(R) /\ C[k] = R[k - 1])
      BY <2>1, <2>4, ConsIs
    <3> HIDE DEF R, C, q
    <3>3. ASSUME NEW i \in 1 .. Len(C) PROVE \E p \in U : o <= p /\ C[i] = rec(p)
      <4>1. CASE i = 1
        <5>1. o <= o /\ C[i] = rec(o)
          BY <2>1, <3>2, <4>1
        <5>2. QED
          BY <3>1, <5>1
      <4>2. CASE i # 1
        <5>1. i - 1 \in 1 .. Len(R) /\ C[i] = R[i - 1]
          BY <3>2, <4>2
        <5>2. PICK p \in U : q <= p /\ R[i - 1] = rec(p)
          BY <2>5, <5>1
        <5>3. o <= p
          BY <2>1, <2>6, <5>2
        <5>4. QED
          BY <5>1, <5>2, <5>3
      <4>3. QED
        BY <4>1, <4>2
    <3>4. ASSUME NEW p \in U, o <= p PROVE \E i \in 1 .. Len(C) : C[i] = rec(p)
      <4>1. CASE p = o
        <5>1. 1 \in 1 .. Len(C)
          BY <3>2
        <5>2. QED
          BY <3>2, <4>1, <5>1
      <4>2. CASE p # o
        <5>1. PICK i \in 1 .. Len(R) : R[i] = rec(p)
          BY <2>3, <2>5, <3>4, <4>2
        <5>2. i + 1 \in 1 .. Len(C) /\ C[i + 1] = R[i]
          BY <3>2
        <5>3. QED
          BY <5>1, <5>2
      <4>3. QED
        BY <4>1, <4>2
    <3>5. \A i \in 1 .. Len(R) : R[i].name # e.name
      <4>1. SUFFICES ASSUME NEW i \in 1 .. Len(R), R[i].name = e.name PROVE FALSE
        OBVIOUS
      <4>2. PICK p \in U : q <= p /\ R[i] = rec(p)
        BY <2>5
      <4>3. p = o
        BY <1>5, <3>1, <4>1, <4>2
      <4>4. QED
        BY <2>1, <4>2, <4>3
    <3>6. ASSUME NEW i \in 1 .. Len(C), NEW j \in 1 .. Len(C), C[i].name = C[j].name
          PROVE  i = j
      <4>1. /\ i = 1 \/ (i - 1 \in 1 .. Len(R) /\ C[i] = R[i - 1])
            /\ j = 1 \/ (j - 1 \in 1 .. Len(R) /\ C[j] = R[j - 1])
        BY <3>2
      <4>2. CASE i = 1 /\ j = 1
        BY <4>2
      <4>3. CASE i = 1 /\ j # 1
        BY <3>2, <3>5, <3>6, <4>1, <4>3
      <4>4. CASE i # 1 /\ j = 1
        BY <3>2, <3>5, <3>6, <4>1, <4>4
      <4>5. CASE i # 1 /\ j # 1
        <5>1. i - 1 = j - 1
          BY <2>5, <3>6, <4>1, <4>5
        <5>2. i \in Nat /\ j \in Nat
          BY <3>2
        <5>3. QED
          BY <5>1, <5>2
      <4>6. QED
        BY <4>2, <4>3, <4>4, <4>5
    <3>7. QED
      BY <3>1, <3>3, <3>4, <3>6
  <2>9. QED
    BY <2>7, <2>8
<1> DEFINE Bad == {m \in Nat : m <= size /\ size - m \in starts /\ ~ L(size - m)}
<1>9. ASSUME Bad # {} PROVE FALSE
  <2>1. PICK m \in Bad : \A k \in Bad : m <= k
    BY <1>9, LeastExists
  <2> DEFINE o == size - m
             q == o + rec(o).rec_len
  <2> HIDE DEF L
  <2>2. m \in Nat /\ m <= size /\ o \in starts /\ o \in Nat /\ ~ L(o)
    BY <2>1
  <2>3. L(q)
    <3>1. o < q /\ (q \in starts \/ q = size)
      BY <1>4, <2>2
    <3>2. CASE q = size
      BY <1>7, <3>2
    <3>3. CASE q \in starts
      <4>1. q \in 0 .. size - 1
        BY <1>3, <3>3
      <4> HIDE DEF q
      <4>2. size - q \in Nat /\ size - q <= size /\ size - q < m /\ size - (size - q) = q
        BY <2>2, <3>1, <4>1
      <4>3. size - q \notin Bad
        BY <2>1, <4>2
      <4>4. QED
        BY <3>3, <4>2, <4>3
    <3>4. QED
      BY <3>1, <3>2, <3>3
  <2>4. L(o)
    BY <1>8, <2>2, <2>3
  <2>5. QED
    BY <2>2, <2>4
<1>10. L(0)
  <2>1. size \notin Bad
    BY <1>9
  <2>2. size - size = 0
    OBVIOUS
  <2> HIDE DEF L
  <2>3. QED
    BY <1>3, <2>1, <2>2
<1>11. f[0] \in Seq(Rec)
  BY <1>1
<1>12. QED
  BY <1>1, <1>10, <1>11 DEF Lists, U, rec

(* What the entries are of a directory that an image has. *)
LEMMA EntriesListed ==
  ASSUME NEW n, SameDirectory(n), Ext2!IsDirectory(image, n), BS \in Nat
  PROVE  LET E == Ext2!Entries(n) IN
         /\ E \in Seq(Rec) /\ Len(E) \in Nat
         /\ {<<E[i].name, E[i].inode>> : i \in 1 .. Len(E)} = Names(image, n)
         /\ \A i, j \in 1 .. Len(E) : E[i].name = E[j].name => i = j
<1> DEFINE size == Ext2!InodeOn(image, n).size
           E == Ext2!Entries(n)
<1>1. size \in Nat /\ \A o \in 0 .. size - 1 : Rec_(image, n, o) \in Rec
  BY DirectoryIs
<1>2. PICK starts :
        /\ Chained(image, n, size, starts)
        /\ {<<Rec_(image, n, o).name, Rec_(image, n, o).inode>> : o \in InUse(image, n, starts)}
             = Names(image, n)
  BY DirectoryIs
<1>3. Lists(E, image, n, starts, 0)
  BY <1>1, <1>2, EntriesAre
<1>4. \A p \in InUse(image, n, starts) : 0 <= p
  BY <1>1, <1>2 DEF InUse, Chained
<1>5. /\ \A i \in 1 .. Len(E) : \E p \in InUse(image, n, starts) : E[i] = Rec_(image, n, p)
      /\ \A p \in InUse(image, n, starts) : \E i \in 1 .. Len(E) : E[i] = Rec_(image, n, p)
      /\ \A i, j \in 1 .. Len(E) : E[i].name = E[j].name => i = j
      /\ E \in Seq(Rec)
  BY <1>3, <1>4 DEF Lists
<1> HIDE DEF E
<1>6. {<<E[i].name, E[i].inode>> : i \in 1 .. Len(E)} = Names(image, n)
  BY <1>2, <1>5
<1>7. Len(E) \in Nat
  BY <1>5, LenProperties
<1>8. QED
  BY <1>5, <1>6, <1>7 DEF E

(* A name is found exactly if the directory has it, with its inode. *)
LEMMA MatchesAre ==
  ASSUME NEW n, SameDirectory(n), Ext2!IsDirectory(image, n), BS \in Nat, NEW name
  PROVE  /\ Ext2!Matches(n, name) # {} <=> name \in DOMAIN image.tree[n]
         /\ \A entry \in Ext2!Matches(n, name) : entry.inode = image.tree[n][name]
<1> DEFINE E == Ext2!Entries(n)
<1>1. /\ E \in Seq(Rec) /\ Len(E) \in Nat
      /\ {<<E[i].name, E[i].inode>> : i \in 1 .. Len(E)} = Names(image, n)
      /\ \A i, j \in 1 .. Len(E) : E[i].name = E[j].name => i = j
  BY EntriesListed
<1>2. Ext2!Matches(n, name) = {E[k] : k \in {k \in 1 .. Len(E) :
         E[k].name = name /\ \A j \in 1 .. k - 1 : E[j].name # name}}
  BY DEF Ext2!Matches
<1> HIDE DEF E
<1>3. ASSUME NEW entry \in Ext2!Matches(n, name)
      PROVE  name \in DOMAIN image.tree[n] /\ entry.inode = image.tree[n][name]
  <2>1. PICK k \in 1 .. Len(E) : entry = E[k] /\ E[k].name = name
    BY <1>2
  <2>2. <<E[k].name, E[k].inode>> \in Names(image, n)
    BY <1>1
  <2>3. QED
    BY <2>1, <2>2 DEF Names
<1>4. ASSUME name \in DOMAIN image.tree[n] PROVE Ext2!Matches(n, name) # {}
  <2>1. <<name, image.tree[n][name]>> \in Names(image, n)
    BY <1>4 DEF Names
  <2>2. PICK k \in 1 .. Len(E) : <<name, image.tree[n][name]>> = <<E[k].name, E[k].inode>>
    BY <1>1, <2>1
  <2>3. E[k].name = name
    BY <2>2
  <2>4. ASSUME NEW j \in 1 .. k - 1 PROVE E[j].name # name
    <3>1. j \in 1 .. Len(E) /\ j # k
      BY <1>1
    <3>2. QED
      BY <1>1, <2>3, <3>1
  <2>5. E[k] \in Ext2!Matches(n, name)
    BY <1>2, <2>3, <2>4
  <2>6. QED
    BY <2>5
<1>5. QED
  BY <1>3, <1>4

LEMMA AsManyAsNames ==
  ASSUME NEW E, Len(E) \in Nat, NEW f,
         {<<E[i].name, E[i].inode>> : i \in 1 .. Len(E)} = {<<x, f[x]>> : x \in DOMAIN f},
         \A i, j \in 1 .. Len(E) : E[i].name = E[j].name => i = j
  PROVE  Len(E) = Cardinality(DOMAIN f)
<1> DEFINE D == DOMAIN f
           I == 1 .. Len(E)
           g == [i \in I |-> E[i].name]
<1>1. \A i \in I : E[i].name \in D
  <2> SUFFICES ASSUME NEW i \in I PROVE E[i].name \in D
    OBVIOUS
  <2>1. <<E[i].name, E[i].inode>> \in {<<x, f[x]>> : x \in DOMAIN f}
    OBVIOUS
  <2>2. QED
    BY <2>1
<1>2. \A x \in D : \E i \in I : E[i].name = x
  <2> SUFFICES ASSUME NEW x \in D PROVE \E i \in I : E[i].name = x
    OBVIOUS
  <2>1. <<x, f[x]>> \in {<<E[i].name, E[i].inode>> : i \in 1 .. Len(E)}
    OBVIOUS
  <2>2. QED
    BY <2>1
<1>3. \A i, j \in I : E[i].name = E[j].name => i = j
  OBVIOUS
<1>4. IsFiniteSet(I) /\ Cardinality(I) = Len(E)
  <2> DEFINE L == Len(E)
  <2>1. L \in Nat
    OBVIOUS
  <2> HIDE DEF L
  <2>2. IsFiniteSet(1 .. L) /\ Cardinality(1 .. L) = IF 1 > L THEN 0 ELSE L - 1 + 1
    BY <2>1, FS_Interval
  <2>3. Cardinality(1 .. L) = L
    BY <2>1, <2>2
  <2>4. QED
    BY <2>2, <2>3 DEF L
<1> HIDE DEF D, I
<1>5. g \in Bijection(I, D)
  BY <1>1, <1>2, <1>3 DEF Bijection, Injection, Surjection, IsInjective
<1>6. ExistsBijection(I, D)
  BY <1>5 DEF ExistsBijection
<1>7. QED
  BY <1>4, <1>6, FS_Bijection DEF D

-----------------------------------------------------------------------------
(* The inductive invariant.  What was mounted is an image with an ext2     *)
(* file system, and only blocks of files were written since.               *)
IsData(im, b) ==
  \E f \in DOMAIN im.files : \E o \in 0 .. Ext2!FileInode(im, f).size - 1 :
    b = Ext2!DataBlock(im, f, o)

DiskKept ==
  /\ DOMAIN disk = DOMAIN image.blocks
  /\ \A b \in DOMAIN disk : ~ IsData(image, b) => disk[b] = image.blocks[b]
  /\ \A b \in DOMAIN disk : IsData(image, b) => DOMAIN disk[b] = 1 .. BS

MountedIs ==
  /\ image.magic /\ sb = image.inodes_per_group /\ bg = image.inode_table

DiskInv ==
  /\ image \in Images
  /\ mounted # "yes" => disk = image.blocks
  /\ mounted = "yes" => MountedIs /\ DiskKept

(* The node that ext2_node_finddir makes of inode n. *)
NodeFor(n) ==
  LET inode == Ext2!InodeOn(image, n) IN
  [inode |-> n, flags |-> IF inode.dir THEN "directory" ELSE "file", length |-> inode.size]

(* The node a caller holds is the one its path leads to. *)
HeldInv ==
  /\ held.node \in {"NULL", "root", "target"}
  /\ mounted # "yes" => held.node = "NULL" /\ held.path = <<>>
  /\ held.node = "root" => held.path = <<>>
  /\ held.node = "target" => /\ Ext2!Leads(held.path) \in Ext2!Inodes(image)
                             /\ target_node = NodeFor(Ext2!Leads(held.path))
  /\ held.path # <<>> /\ held.node = "NULL" => Ext2!Leads(held.path) = 0

ExtInv == DiskInv /\ HeldInv

Mounted == DiskInv /\ mounted = "yes"

LEMMA ImageIs ==
  ASSUME Mounted
  PROVE  /\ BS \in Nat \ {0} /\ IPB \in Nat \ {0}
         /\ image.magic /\ Ext2!WellFormed(image)
         /\ image.inodes_per_group \in Nat \ {0} /\ image.inode_table \in Nat
         /\ Ext2!Inodes(image) \subseteq Nat \ {0} /\ 2 \in DOMAIN image.tree
         /\ \A n \in Ext2!Inodes(image) : Ext2!TableBlock(image, n) \in DOMAIN image.blocks
         /\ \A n \in DOMAIN image.tree : n \in Ext2!Inodes(image) /\ Ext2!IsDirectory(image, n)
         /\ \A n \in DOMAIN image.tree : \A name \in DOMAIN image.tree[n] :
              image.tree[n][name] \in Ext2!Inodes(image)
         /\ \A f \in DOMAIN image.files :
              /\ image.files[f].inode \in Ext2!Inodes(image)
              /\ Ext2!IsFile(image, f)
              /\ image.files[f].inode \notin DOMAIN image.tree
              /\ \A g \in DOMAIN image.files :
                   image.files[f].inode = image.files[g].inode => f = g
<1>1. image.magic /\ image \in Images
  BY DEF Mounted, DiskInv, MountedIs
<1>2. Ext2!WellFormed(image)
  BY <1>1, ImagesAreExt2
<1>3. /\ \A n \in DOMAIN image.tree : n \in Ext2!Inodes(image)
      /\ \A f \in DOMAIN image.files : image.files[f].inode \in Ext2!Inodes(image)
  BY DEF Ext2!Inodes
<1>4. QED
  BY <1>1, <1>2, <1>3, FileSystemAssumption DEF Ext2!WellFormed

(* The inode table and the directories are what mkfs made. *)
LEMMA InodesKept ==
  ASSUME Mounted
  PROVE  /\ \A n \in Ext2!Inodes(image) : Ext2!ext2_read_inode(n) = Ext2!InodeOn(image, n)
         /\ \A n \in DOMAIN image.tree : SameDirectory(n)
<1>1. MountedIs /\ DiskKept
  BY DEF Mounted, DiskInv
<1>2. ASSUME NEW n \in Ext2!Inodes(image), IsData(image, Ext2!TableBlock(image, n))
      PROVE  FALSE
  <2>1. PICK f \in DOMAIN image.files : \E o \in 0 .. Ext2!FileInode(image, f).size - 1 :
          Ext2!TableBlock(image, n) = Ext2!DataBlock(image, f, o)
    BY <1>2 DEF IsData
  <2>2. Ext2!IsFile(image, f)
    BY ImageIs
  <2>3. QED
    BY <2>1, <2>2 DEF Ext2!IsFile
<1>3. ASSUME NEW n \in Ext2!Inodes(image)
      PROVE  Ext2!ext2_read_inode(n) = Ext2!InodeOn(image, n)
  <2>1. disk[Ext2!TableBlock(image, n)] = image.blocks[Ext2!TableBlock(image, n)]
    BY <1>1, <1>2, ImageIs DEF DiskKept
  <2>2. sb = image.inodes_per_group /\ bg = image.inode_table
    BY <1>1 DEF MountedIs
  <2>3. QED
    BY <2>1, <2>2 DEF Ext2!ext2_read_inode, Ext2!InodeOn, Ext2!Inode, Ext2!TableBlock
<1>4. ASSUME NEW n \in DOMAIN image.tree PROVE SameDirectory(n)
  <2> DEFINE b == Ext2!InodeOn(image, n).block[1]
  <2>1. ~ IsData(image, b)
    <3>1. SUFFICES ASSUME IsData(image, b) PROVE FALSE
      OBVIOUS
    <3>2. PICK f \in DOMAIN image.files : \E o \in 0 .. Ext2!FileInode(image, f).size - 1 :
            b = Ext2!DataBlock(image, f, o)
      BY <3>1 DEF IsData
    <3>3. Ext2!IsFile(image, f)
      BY ImageIs
    <3>4. QED
      BY <3>2, <3>3 DEF Ext2!IsFile
  <2>2. disk[b] = image.blocks[b]
    <3>1. b \in DOMAIN image.blocks
      BY ImageIs DEF Ext2!IsDirectory
    <3>2. QED
      BY <1>1, <2>1, <3>1 DEF DiskKept
  <2>3. Ext2!ext2_read_inode(n) = Ext2!InodeOn(image, n)
    BY <1>3, ImageIs
  <2>4. QED
    BY <2>2, <2>3 DEF SameDirectory
<1>5. QED
  BY <1>3, <1>4

(* Which inodes are directories. *)
LEMMA Kinds ==
  ASSUME Mounted, NEW n \in Ext2!Inodes(image)
  PROVE  (NodeFor(n).flags = "directory") = (n \in DOMAIN image.tree)
<1>1. CASE n \in DOMAIN image.tree
  <2>1. Ext2!InodeOn(image, n).dir = TRUE
    BY <1>1, ImageIs DEF Ext2!IsDirectory
  <2>2. QED
    BY <1>1, <2>1 DEF NodeFor
<1>2. CASE n \notin DOMAIN image.tree
  <2>1. PICK f \in DOMAIN image.files : n = image.files[f].inode
    BY <1>2 DEF Ext2!Inodes
  <2>2. Ext2!InodeOn(image, n).dir = FALSE
    BY <2>1, ImageIs DEF Ext2!IsFile, Ext2!FileInode
  <2>3. QED
    BY <1>2, <2>2 DEF NodeFor
<1>3. QED
  BY <1>1, <1>2

-----------------------------------------------------------------------------
(* Path lookup.  A round that stands at the inode l (0: nowhere) goes to   *)
(* where the tree has the next name.                                       *)
NextLead(l, name) ==
  IF l \in DOMAIN image.tree /\ name \in DOMAIN image.tree[l] THEN image.tree[l][name] ELSE 0

Founds == [node : {"root", "target", "NULL"},
           target : {target_node} \cup {NodeFor(n) : n \in Ext2!Inodes(image)}]

Stands(l, v) ==
  /\ v \in Founds
  /\ l = 0 => v.node = "NULL"
  /\ l # 0 => /\ l \in Ext2!Inodes(image)
              /\ \/ v.node = "root" /\ l = 2
                 \/ v.node = "target" /\ v.target = NodeFor(l)

LEMMA StepFinds ==
  ASSUME Mounted, NEW l, NEW v, NEW name, Stands(l, v)
  PROVE  /\ Stands(NextLead(l, name), Ext2!finddir(v, name))
         /\ Ext2!finddir(v, name).node # "root"
<1> DEFINE r == Ext2!finddir(v, name)
           current == IF v.node = "root" THEN Ext2!Root ELSE v.target
           match == Ext2!Matches(current.inode, name)
           null == [v EXCEPT !.node = "NULL"]
<1>1. r = IF v.node = "NULL" \/ current.flags # "directory" \/ match = {} THEN null
          ELSE [node |-> "target", target |-> Ext2!NodeOf(CHOOSE entry \in match : TRUE)]
  BY DEF Ext2!finddir
<1>2. v \in Founds
  BY DEF Stands
<1>3. null \in Founds /\ null.node = "NULL"
  BY <1>2 DEF Founds
<1>4. 0 \notin Ext2!Inodes(image) /\ 0 \notin DOMAIN image.tree
  BY ImageIs
<1>5. CASE l = 0
  <2>1. v.node = "NULL" /\ NextLead(l, name) = 0
    BY <1>4, <1>5 DEF Stands, NextLead
  <2>2. r = null
    BY <1>1, <2>1
  <2>3. QED
    BY <1>3, <2>1, <2>2 DEF Stands
<1>6. CASE l # 0
  <2>1. /\ l \in Ext2!Inodes(image)
        /\ (v.node = "root" /\ l = 2) \/ (v.node = "target" /\ v.target = NodeFor(l))
    BY <1>6 DEF Stands
  <2>2. v.node # "NULL" /\ current.inode = l
        /\ (current.flags = "directory") = (l \in DOMAIN image.tree)
    <3>1. CASE v.node = "root" /\ l = 2
      <4>1. current = Ext2!Root
        BY <3>1
      <4>2. Ext2!Root.inode = 2 /\ Ext2!Root.flags = "directory"
        BY DEF Ext2!Root
      <4>3. 2 \in DOMAIN image.tree
        BY ImageIs
      <4>4. QED
        BY <3>1, <4>1, <4>2, <4>3
    <3>2. CASE v.node = "target" /\ v.target = NodeFor(l)
      <4>1. current = NodeFor(l)
        BY <3>2
      <4>2. NodeFor(l).inode = l
        BY DEF NodeFor
      <4>3. QED
        BY <2>1, <3>2, <4>1, <4>2, Kinds
    <3>3. QED
      BY <2>1, <3>1, <3>2
  <2>3. CASE l \notin DOMAIN image.tree
    <3>1. r = null /\ NextLead(l, name) = 0
      BY <1>1, <2>2, <2>3 DEF NextLead
    <3>2. QED
      BY <1>3, <3>1 DEF Stands
  <2>4. CASE l \in DOMAIN image.tree
    <3>1. SameDirectory(l) /\ Ext2!IsDirectory(image, l) /\ BS \in Nat
      BY <2>4, InodesKept, ImageIs
    <3>2. /\ Ext2!Matches(l, name) # {} <=> name \in DOMAIN image.tree[l]
          /\ \A entry \in Ext2!Matches(l, name) : entry.inode = image.tree[l][name]
      BY <3>1, MatchesAre
    <3>3. match = Ext2!Matches(l, name)
      BY <2>2
    <3>4. CASE name \notin DOMAIN image.tree[l]
      <4>1. r = null /\ NextLead(l, name) = 0
        BY <1>1, <3>2, <3>3, <3>4 DEF NextLead
      <4>2. QED
        BY <1>3, <4>1 DEF Stands
    <3>5. CASE name \in DOMAIN image.tree[l]
      <4> DEFINE m == image.tree[l][name]
                 e == CHOOSE entry \in match : TRUE
      <4>1. NextLead(l, name) = m /\ m \in Ext2!Inodes(image)
        BY <2>4, <3>5, ImageIs DEF NextLead
      <4>2. e \in match /\ e.inode = m
        BY <3>2, <3>3, <3>5
      <4>3. Ext2!NodeOf(e) = NodeFor(m)
        <5>1. Ext2!ext2_read_inode(m) = Ext2!InodeOn(image, m)
          BY <4>1, InodesKept
        <5> HIDE DEF m, e
        <5>2. QED
          BY <4>2, <5>1 DEF Ext2!NodeOf, NodeFor
      <4>4. r = [node |-> "target", target |-> NodeFor(m)]
        <5>1. match # {} /\ v.node # "NULL" /\ current.flags = "directory"
          BY <2>2, <2>4, <3>2, <3>3, <3>5
        <5> HIDE DEF current, match
        <5>2. QED
          BY <1>1, <4>3, <5>1
      <4>5. r \in Founds /\ r.node = "target" /\ r.target = NodeFor(m)
        BY <4>1, <4>4 DEF Founds
      <4> HIDE DEF r, m
      <4>6. m # 0
        BY <1>4, <4>1
      <4>7. Stands(m, r)
        BY <4>1, <4>5, <4>6 DEF Stands
      <4>8. QED
        BY <4>1, <4>5, <4>7 DEF r
    <3>6. QED
      BY <3>4, <3>5
  <2>5. QED
    BY <2>3, <2>4
<1>7. QED
  BY <1>5, <1>6

LEMMA LeadsRun ==
  ASSUME Mounted, NEW path \in Seq(STRING)
  PROVE  \E f : /\ f[0] = 2 /\ f[Len(path)] = Ext2!Leads(path) /\ Len(path) \in Nat
                /\ \A k \in 1 .. Len(path) : f[k] = NextLead(f[k - 1], path[k])
<1> DEFINE L == Len(path)
           Defines(f) == f = [k \in 0 .. Len(path) |->
             IF k = 0 THEN 2
             ELSE IF f[k - 1] \in DOMAIN image.tree /\ path[k] \in DOMAIN image.tree[f[k - 1]]
                  THEN image.tree[f[k - 1]][path[k]] ELSE 0]
           Works(f) == f = [k \in 0 .. L |-> IF k = 0 THEN 2 ELSE NextLead(f[k - 1], path[k])]
           step == [k \in 1 .. L |-> [x \in Nat |-> NextLead(x, path[k])]]
<1>1. Ext2!Leads(path) = (CHOOSE f : Defines(f))[L]
  BY DEF Ext2!Leads
<1>2. \A f : Defines(f) <=> Works(f)
  BY DEF NextLead
<1>3. L \in Nat
  BY LenProperties
<1>4. \A l, name : NextLead(l, name) \in Nat
  BY ImageIs DEF NextLead
<1> HIDE DEF L
<1>5. step \in [1 .. L -> [Nat -> Nat]]
  BY <1>4
<1>6. PICK f : IsRun(f, Nat, L, 2, step)
  <2> HIDE DEF step
  <2>1. QED
    BY <1>3, <1>5, RunExists
<1>7. f \in [0 .. L -> Nat] /\ f[0] = 2 /\ \A k \in 1 .. L : f[k] = step[k][f[k - 1]]
  BY <1>6 DEF IsRun
<1>8. \A k \in 1 .. L : f[k] = NextLead(f[k - 1], path[k])
  <2> SUFFICES ASSUME NEW k \in 1 .. L PROVE f[k] = NextLead(f[k - 1], path[k])
    OBVIOUS
  <2>1. f[k - 1] \in Nat
    <3>1. k - 1 \in 0 .. L
      BY <1>3
    <3>2. QED
      BY <1>7, <3>1
  <2>2. QED
    BY <1>7, <2>1
<1>9. Works(f)
  <2>1. \A k \in 0 .. L : k = 0 \/ k \in 1 .. L
    BY <1>3
  <2> HIDE DEF step
  <2>2. QED
    BY <1>7, <1>8, <2>1
<1> DEFINE h == CHOOSE g : Defines(g)
<1>10. Works(h)
  <2> HIDE DEF Defines, Works
  <2>1. QED
    BY <1>2, <1>9
<1>11. h[L] = Ext2!Leads(path)
  BY <1>1
<1> HIDE DEF h
<1>12. h[0] = 2 /\ \A k \in 1 .. L : h[k] = NextLead(h[k - 1], path[k])
  <2>1. 0 \in 0 .. L /\ \A k \in 1 .. L : k \in 0 .. L /\ k # 0
    BY <1>3
  <2>2. QED
    BY <1>10, <2>1
<1>13. QED
  BY <1>3, <1>11, <1>12 DEF L

(* What the rounds of vfs_resolve_path end with. *)
Found(path) ==
  LET found[k \in 0 .. Len(path)] ==
        IF k = 0 THEN [node |-> "root", target |-> target_node]
        ELSE Ext2!finddir(found[k - 1], path[k])
  IN found[Len(path)]

LEMMA Resolves ==
  ASSUME Mounted, NEW path \in Seq(STRING)
  PROVE  /\ Stands(Ext2!Leads(path), Found(path))
         /\ path # <<>> => Found(path).node # "root"
<1> DEFINE L == Len(path)
           start == [node |-> "root", target |-> target_node]
           Defines(u) == u = [k \in 0 .. Len(path) |->
             IF k = 0 THEN [node |-> "root", target |-> target_node]
             ELSE Ext2!finddir(u[k - 1], path[k])]
           step == [k \in 1 .. L |-> [v \in Founds |->
             IF Ext2!finddir(v, path[k]) \in Founds THEN Ext2!finddir(v, path[k]) ELSE v]]
<1>1. Found(path) = (CHOOSE u : Defines(u))[L]
  BY DEF Found
<1>2. PICK f : /\ f[0] = 2 /\ f[L] = Ext2!Leads(path) /\ L \in Nat
               /\ \A k \in 1 .. L : f[k] = NextLead(f[k - 1], path[k])
  BY LeadsRun
<1>3. start \in Founds /\ Stands(2, start)
  <2>1. 2 \in Ext2!Inodes(image)
    BY ImageIs
  <2>2. start \in Founds
    BY DEF Founds
  <2>3. QED
    BY <2>1, <2>2 DEF Stands
<1>4. ASSUME NEW u, u[0] = start,
             \A k \in 1 .. L : Stands(f[k - 1], u[k - 1]) => u[k] = Ext2!finddir(u[k - 1], path[k])
      PROVE  \A k \in 0 .. L : Stands(f[k], u[k]) /\ (k # 0 => u[k].node # "root")
  <2> DEFINE Good(k) == Stands(f[k], u[k]) /\ (k # 0 => u[k].node # "root")
             Bad == {k \in Nat : k <= L /\ ~ Good(k)}
  <2>1. Good(0)
    BY <1>2, <1>3, <1>4
  <2>2. ASSUME NEW k \in 1 .. L, Good(k - 1) PROVE Good(k)
    <3>1. u[k] = Ext2!finddir(u[k - 1], path[k]) /\ f[k] = NextLead(f[k - 1], path[k])
      BY <1>2, <1>4, <2>2
    <3>2. Stands(f[k - 1], u[k - 1])
      BY <2>2
    <3>3. QED
      BY <3>1, <3>2, StepFinds
  <2> HIDE DEF Good
  <2>3. ASSUME Bad # {} PROVE FALSE
    <3>1. PICK k \in Bad : \A j \in Bad : k <= j
      BY <2>3, LeastExists
    <3>2. k \in 1 .. L /\ k - 1 \in Nat /\ k - 1 <= L /\ k - 1 \notin Bad
      BY <1>2, <2>1, <3>1
    <3>3. Good(k)
      BY <2>2, <3>2
    <3>4. QED
      BY <3>1, <3>3
  <2>4. \A k \in 0 .. L : Good(k)
    BY <1>2, <2>3
  <2>5. QED
    BY <2>4 DEF Good
<1> HIDE DEF L, start
<1>5. step \in [1 .. L -> [Founds -> Founds]]
  OBVIOUS
<1>6. PICK g : IsRun(g, Founds, L, start, step)
  <2> HIDE DEF step
  <2>1. QED
    BY <1>2, <1>3, <1>5, RunExists
<1>7. g \in [0 .. L -> Founds] /\ g[0] = start /\ \A k \in 1 .. L : g[k] = step[k][g[k - 1]]
  <2> HIDE DEF step
  <2>1. QED
    BY <1>6 DEF IsRun
<1>8. ASSUME NEW k \in 1 .. L, Stands(f[k - 1], g[k - 1])
      PROVE  g[k] = Ext2!finddir(g[k - 1], path[k])
  <2>1. g[k - 1] \in Founds
    BY <1>8 DEF Stands
  <2>2. Ext2!finddir(g[k - 1], path[k]) \in Founds
    BY <1>8, StepFinds DEF Stands
  <2>3. g[k] = step[k][g[k - 1]]
    <3> HIDE DEF step
    <3>1. QED
      BY <1>7
  <2>4. step[k][g[k - 1]] = Ext2!finddir(g[k - 1], path[k])
    BY <2>1, <2>2
  <2>5. QED
    BY <2>3, <2>4
<1>9. \A k \in 1 .. L : g[k] = Ext2!finddir(g[k - 1], path[k])
  <2>1. \A k \in 0 .. L : Stands(f[k], g[k])
    <3>1. g[0] = start
      <4> HIDE DEF step
      <4>1. QED
        BY <1>7
    <3>2. QED
      BY <1>4, <1>8, <3>1
  <2>2. \A k \in 1 .. L : k - 1 \in 0 .. L
    BY <1>2
  <2>3. QED
    BY <1>8, <2>1, <2>2
<1>10. Defines(g)
  <2>1. \A k \in 0 .. L : k = 0 \/ k \in 1 .. L
    BY <1>2
  <2>2. g \in [0 .. L -> Founds] /\ g[0] = start
    <3> HIDE DEF step
    <3>1. QED
      BY <1>7
  <2>3. g = [k \in 0 .. L |-> IF k = 0 THEN start ELSE Ext2!finddir(g[k - 1], path[k])]
    BY <1>9, <2>1, <2>2
  <2>4. QED
    BY <2>3 DEF L, start
<1> DEFINE h == CHOOSE u : Defines(u)
<1>11. Defines(h)
  <2> HIDE DEF Defines
  <2>1. QED
    BY <1>10
<1>12. h[L] = Found(path)
  BY <1>1
<1> HIDE DEF h
<1>13. h = [k \in 0 .. L |-> IF k = 0 THEN start ELSE Ext2!finddir(h[k - 1], path[k])]
  BY <1>11 DEF L, start
<1>14. h[0] = start /\ \A k \in 1 .. L : h[k] = Ext2!finddir(h[k - 1], path[k])
  <2>1. 0 \in 0 .. L /\ \A k \in 1 .. L : k \in 0 .. L /\ k # 0
    BY <1>2
  <2> HIDE DEF Defines
  <2>2. QED
    BY <1>13, <2>1
<1>15. \A k \in 0 .. L : Stands(f[k], h[k]) /\ (k # 0 => h[k].node # "root")
  BY <1>4, <1>14
<1>16. L \in 0 .. L /\ (path # <<>> => L # 0)
  <2>1. L \in Nat
    BY <1>2
  <2>2. path # <<>> => Len(path) # 0
    BY EmptySeq
  <2>3. QED
    BY <2>1, <2>2 DEF L
<1>17. QED
  BY <1>2, <1>12, <1>15, <1>16

-----------------------------------------------------------------------------
(* The steps keep the invariant.                                           *)
LEMMA DataIsFull ==
  ASSUME image \in Images, image.magic, NEW b, IsData(image, b)
  PROVE  b \in DOMAIN image.blocks /\ DOMAIN image.blocks[b] = 1 .. BS
<1>1. Ext2!WellFormed(image)
  BY ImagesAreExt2
<1>2. PICK f \in DOMAIN image.files : \E o \in 0 .. Ext2!FileInode(image, f).size - 1 :
        b = Ext2!DataBlock(image, f, o)
  BY DEF IsData
<1>3. Ext2!IsFile(image, f)
  BY <1>1 DEF Ext2!WellFormed
<1>4. QED
  BY <1>2, <1>3 DEF Ext2!IsFile

LEMMA ExtStarts == Ext2!Init => ExtInv
<1> SUFFICES ASSUME Ext2!Init PROVE ExtInv
  OBVIOUS
<1>1. /\ image \in Images /\ disk = image.blocks /\ mounted = "no"
      /\ held = [path |-> <<>>, node |-> "NULL"]
  BY DEF Ext2!Init
<1>2. DiskInv
  BY <1>1 DEF DiskInv
<1>3. HeldInv
  BY <1>1 DEF HeldInv
<1>4. QED
  BY <1>2, <1>3 DEF ExtInv

LEMMA ExtMounts ==
  ASSUME ExtInv, Ext2!ext2_mount
  PROVE  ExtInv' /\ mounted # "yes" /\ UNCHANGED <<image, disk, last>>
         /\ (mounted' = "yes" => image.magic /\ disk = image.blocks)
<1>1. /\ mounted = "no" /\ mounted' \in {"yes", "refused"}
      /\ mounted' = "yes" => /\ image.magic /\ sb' = image.inodes_per_group
                             /\ bg' = image.inode_table
      /\ image' = image /\ disk' = disk /\ target_node' = target_node /\ held' = held /\ last' = last
  BY DEF Ext2!ext2_mount
<1>2. image \in Images /\ disk = image.blocks /\ held.node = "NULL" /\ held.path = <<>>
  BY <1>1 DEF ExtInv, DiskInv, HeldInv
<1>3. HeldInv'
  BY <1>1, <1>2 DEF HeldInv
<1>4. ASSUME mounted' = "yes" PROVE MountedIs' /\ DiskKept'
  <2>1. MountedIs'
    BY <1>1, <1>4 DEF MountedIs
  <2>2. \A b \in DOMAIN image.blocks : IsData(image, b) => DOMAIN image.blocks[b] = 1 .. BS
    BY <1>1, <1>2, <1>4, DataIsFull
  <2>3. disk' = image.blocks /\ image' = image
    BY <1>1, <1>2
  <2>4. QED
    BY <2>1, <2>2, <2>3 DEF DiskKept
<1>5. DiskInv'
  BY <1>1, <1>2, <1>4 DEF DiskInv
<1>6. QED
  BY <1>1, <1>2, <1>3, <1>5 DEF ExtInv

(* What HeldInv and DiskInv depend on. *)
LEMMA HeldStays ==
  ASSUME HeldInv, UNCHANGED <<image, held, target_node, mounted>>
  PROVE  HeldInv'
<1>1. \A p : Ext2!Leads(p)' = Ext2!Leads(p)
  BY DEF Ext2!Leads
<1>2. \A n : NodeFor(n)' = NodeFor(n)
  BY DEF NodeFor
<1>3. PICK p : p = held.path
  OBVIOUS
<1>4. held' = held /\ held.path = p /\ image' = image /\ target_node' = target_node
      /\ mounted' = mounted
  BY <1>3
<1>5. PICK l : l = Ext2!Leads(p)
  OBVIOUS
<1>6. Ext2!Leads(p)' = l /\ NodeFor(l)' = NodeFor(l)
  BY <1>1, <1>2, <1>5
<1>7. QED
  BY <1>4, <1>5, <1>6 DEF HeldInv

LEMMA DiskStays ==
  ASSUME DiskInv, UNCHANGED <<image, disk, sb, bg, mounted>>
  PROVE  DiskInv'
  BY DEF DiskInv, MountedIs, DiskKept

LEMMA ExtResolves ==
  ASSUME ExtInv, NEW path \in Paths, Ext2!vfs_resolve_path(path)
  PROVE  ExtInv' /\ UNCHANGED <<image, disk, sb, bg, mounted, last>>
<1>1. /\ mounted = "yes" /\ UNCHANGED <<image, disk, sb, bg, mounted, last>>
      /\ held' = [path |-> path, node |-> Found(path).node]
      /\ target_node' = Found(path).target
  BY DEF Ext2!vfs_resolve_path, Found
<1>2. Mounted /\ path \in Seq(STRING)
  BY <1>1, FileSystemAssumption DEF ExtInv, Mounted
<1>3. DiskInv'
  BY <1>1, DiskStays DEF ExtInv
<1>4. PICK l : l = Ext2!Leads(path)
  OBVIOUS
<1>5. Stands(l, Found(path)) /\ (path # <<>> => Found(path).node # "root")
  BY <1>2, <1>4, Resolves
<1>6. Ext2!Leads(path)' = l /\ NodeFor(l)' = NodeFor(l)
  BY <1>1, <1>4 DEF Ext2!Leads, NodeFor
<1>7. 0 \notin Ext2!Inodes(image)
  BY <1>2, ImageIs
<1>8. HeldInv'
  <2>1. held'.path = path /\ held'.node = Found(path).node /\ mounted' = "yes" /\ image' = image
    BY <1>1
  <2>2. Found(path).node \in {"NULL", "root", "target"}
    BY <1>5 DEF Stands, Founds
  <2>3. Found(path).node = "root" => path = <<>>
    BY <1>5
  <2>4. Found(path).node = "target" => l \in Ext2!Inodes(image) /\ target_node' = NodeFor(l)
    BY <1>1, <1>5 DEF Stands
  <2>5. Found(path).node = "NULL" => l = 0
    BY <1>5 DEF Stands
  <2>6. QED
    BY <1>6, <2>1, <2>2, <2>3, <2>4, <2>5 DEF HeldInv
<1>9. QED
  BY <1>1, <1>3, <1>8 DEF ExtInv

LEMMA PathsFollow == ExtInv => PathsResolve
<1> SUFFICES ASSUME ExtInv, mounted = "yes", held.path # <<>>
             PROVE  IF Ext2!Leads(held.path) = 0
                    THEN held.node = "NULL"
                    ELSE /\ held.node = "target"
                         /\ target_node.inode = Ext2!Leads(held.path)
                         /\ (target_node.flags = "directory")
                              = (target_node.inode \in DOMAIN image.tree)
  BY DEF PathsResolve, Ext2!PathsResolve
<1> DEFINE l == Ext2!Leads(held.path)
<1>1. Mounted /\ HeldInv
  BY DEF Mounted, ExtInv
<1>2. /\ held.node \in {"NULL", "root", "target"} /\ held.node # "root"
      /\ held.node = "target" => l \in Ext2!Inodes(image) /\ target_node = NodeFor(l)
      /\ held.node = "NULL" => l = 0
  BY <1>1 DEF HeldInv
<1>3. 0 \notin Ext2!Inodes(image)
  BY <1>1, ImageIs
<1>4. CASE held.node = "NULL"
  BY <1>2, <1>4
<1>5. CASE held.node = "target"
  <2>1. l \in Ext2!Inodes(image) /\ target_node = NodeFor(l) /\ l # 0
    BY <1>2, <1>3, <1>5
  <2>2. (NodeFor(l).flags = "directory") = (l \in DOMAIN image.tree) /\ NodeFor(l).inode = l
    BY <1>1, <2>1, Kinds DEF NodeFor
  <2> HIDE DEF l
  <2>3. QED
    BY <1>5, <2>1, <2>2 DEF l
<1>6. QED
  BY <1>2, <1>4, <1>5

LEMMA SameCardinality == ASSUME NEW S PROVE Ext2!Cardinality(S) = Cardinality(S)
  BY DEF Ext2!Cardinality, Cardinality

LEMMA ListingFollows == ExtInv => ListingAgrees
<1> SUFFICES ASSUME ExtInv, held.node # "NULL", Ext2!Held.flags = "directory"
             PROVE  LET entries == Ext2!Entries(Ext2!Held.inode)
                        names   == image.tree[Ext2!Held.inode]
                    IN
                    /\ {<<e.name, e.inode>> : e \in Ext2!ToSet(entries)}
                         = {<<n, names[n]>> : n \in DOMAIN names}
                    /\ Len(entries) = Cardinality(DOMAIN names)
  BY SameCardinality DEF ListingAgrees, Ext2!ListingAgrees
<1> DEFINE d == Ext2!Held.inode
           E == Ext2!Entries(d)
<1>1. Mounted /\ HeldInv
  BY DEF Mounted, ExtInv, HeldInv
<1>2. d \in DOMAIN image.tree
  <2>1. CASE held.node = "root"
    <3>1. d = 2
      BY <2>1 DEF Ext2!Held, Ext2!Root
    <3>2. QED
      BY <1>1, <3>1, ImageIs
  <2>2. CASE held.node # "root"
    <3>1. PICK l \in Ext2!Inodes(image) : target_node = NodeFor(l)
      BY <1>1, <2>2 DEF HeldInv
    <3>2. Ext2!Held = NodeFor(l)
      BY <2>2, <3>1 DEF Ext2!Held
    <3>3. d = l /\ NodeFor(l).flags = "directory"
      BY <3>2 DEF NodeFor
    <3>4. QED
      BY <1>1, <3>3, Kinds
  <2>3. QED
    BY <2>1, <2>2
<1>3. SameDirectory(d) /\ Ext2!IsDirectory(image, d) /\ BS \in Nat
  BY <1>1, <1>2, InodesKept, ImageIs
<1>4. /\ E \in Seq(Rec) /\ Len(E) \in Nat
      /\ {<<E[i].name, E[i].inode>> : i \in 1 .. Len(E)} = Names(image, d)
      /\ \A i, j \in 1 .. Len(E) : E[i].name = E[j].name => i = j
  BY <1>3, EntriesListed
<1> DEFINE f == image.tree[d]
<1>5. Names(image, d) = {<<x, f[x]>> : x \in DOMAIN f}
  BY DEF Names
<1>6. Len(E) = Cardinality(DOMAIN f)
  <2> HIDE DEF E, f
  <2>1. QED
    BY <1>4, <1>5, AsManyAsNames
<1>7. {<<e.name, e.inode>> : e \in Ext2!ToSet(E)} = {<<E[i].name, E[i].inode>> : i \in 1 .. Len(E)}
  <2>1. DOMAIN E = 1 .. Len(E)
    <3> HIDE DEF E
    <3>1. QED
      BY <1>4, LenProperties
  <2>2. Ext2!ToSet(E) = {E[i] : i \in DOMAIN E}
    BY DEF Ext2!ToSet
  <2> HIDE DEF E
  <2>3. QED
    BY <2>1, <2>2
<1> HIDE DEF E, f
<1>8. QED
  BY <1>4, <1>5, <1>6, <1>7 DEF E, f

-----------------------------------------------------------------------------
(* Offsets and blocks.                                                     *)
LEMMA QuotientUnique ==
  ASSUME NEW m \in Nat \ {0}, NEW q \in Int, NEW p \in Int, NEW r \in 0 .. m - 1,
         NEW t \in 0 .. m - 1, m * q + r = m * p + t
  PROVE  q = p /\ r = t
<1>1. ASSUME NEW a \in Int, NEW b \in Int, a < b, NEW c \in 0 .. m - 1, NEW d \in 0 .. m - 1,
             m * a + c = m * b + d
      PROVE  FALSE
  <2>1. b - a >= 1 /\ b - a \in Int
    BY <1>1
  <2>2. m * (b - a) >= m
    BY <2>1
  <2>3. m * (b - a) = m * b - m * a
    OBVIOUS
  <2>4. m * a \in Int /\ m * b \in Int
    OBVIOUS
  <2>5. QED
    BY <1>1, <2>2, <2>3, <2>4
<1>2. ~ (q < p) /\ ~ (p < q)
  BY <1>1
<1>3. q = p
  BY <1>2
<1>4. m * q \in Int
  OBVIOUS
<1>5. QED
  BY <1>3, <1>4

LEMMA SameBlock ==
  ASSUME NEW o \in Nat, NEW d \in Nat, NEW m \in Nat \ {0}, (o % m) + d < m
  PROVE  (o + d) \div m = o \div m /\ (o + d) % m = (o % m) + d
<1> DEFINE x == o + d
           q == o \div m
           r == o % m
           p == x \div m
           t == x % m
<1>1. x \in Nat /\ q \in Nat /\ r \in 0 .. m - 1 /\ o = m * q + r
  <2>1. q \in Nat /\ r \in 0 .. m - 1 /\ o = m * q + r
    BY DivMod
  <2>2. x \in Nat
    <3> HIDE DEF q, r, p, t
    <3>1. QED
      OBVIOUS
  <2>3. QED
    BY <2>1, <2>2
<1>2. p \in Nat /\ t \in 0 .. m - 1 /\ x = m * p + t
  BY <1>1, DivMod
<1>3. r + d < m
  OBVIOUS
<1> HIDE DEF q, r, p, t
<1>4. r + d \in 0 .. m - 1 /\ m * q \in Nat
  BY <1>1, <1>3
<1>5. m * p + t = m * q + (r + d)
  BY <1>1, <1>2, <1>4
<1>6. p = q /\ t = r + d
  BY <1>1, <1>2, <1>4, <1>5, QuotientUnique
<1>7. QED
  BY <1>6 DEF p, q, r, t

LEMMA BlockDistance ==
  ASSUME NEW x \in Nat, NEW y \in Nat, NEW m \in Nat \ {0}, x \div m = y \div m
  PROVE  x - y = (x % m) - (y % m)
<1> DEFINE q == x \div m
           r == x % m
           t == y % m
<1>1. q \in Nat /\ r \in 0 .. m - 1 /\ x = m * q + r
  BY DivMod
<1>2. t \in 0 .. m - 1 /\ y = m * q + t
  BY DivMod
<1> HIDE DEF q, r, t
<1>3. m * q \in Nat
  BY <1>1
<1>4. x - y = r - t
  BY <1>1, <1>2, <1>3
<1>5. QED
  BY <1>4 DEF r, t

LEMMA LeastOfThree ==
  ASSUME NEW a \in Int, NEW b \in Int, NEW c \in Int
  PROVE  LET m == Ext2!Min({a, b, c}) IN
         m \in Int /\ m <= a /\ m <= b /\ m <= c /\ (m = a \/ m = b \/ m = c)
<1> DEFINE S == {a, b, c}
<1>1. \E x \in S : \A y \in S : x <= y
  <2>1. CASE a <= b /\ a <= c
    BY <2>1
  <2>2. CASE b <= a /\ b <= c
    BY <2>2
  <2>3. CASE c <= a /\ c <= b
    BY <2>3
  <2>4. QED
    BY <2>1, <2>2, <2>3
<1>2. Ext2!Min(S) \in S /\ \A y \in S : Ext2!Min(S) <= y
  <2>1. Ext2!Min(S) = CHOOSE x \in S : \A y \in S : x <= y
    BY DEF Ext2!Min
  <2> HIDE DEF S
  <2>2. QED
    BY <1>1, <2>1
<1>3. QED
  BY <1>2

-----------------------------------------------------------------------------
(* Reads.  The bytes of file f that are on the disk.                       *)
FileSize(f) == Ext2!FileInode(image, f).size
FileNow(f)  == [o \in 1 .. FileSize(f) |->
                  disk[Ext2!DataBlock(image, f, o - 1)][((o - 1) % BS) + 1]]

LEMMA FilesNow ==
  ASSUME Mounted
  PROVE  /\ Ext2!Ext2Files = [f \in DOMAIN image.files |-> FileNow(f)]
         /\ \A f \in DOMAIN image.files : FileSize(f) \in Nat
<1>1. ASSUME NEW f \in DOMAIN image.files
      PROVE  /\ Ext2!ext2_read_inode(image.files[f].inode) = Ext2!FileInode(image, f)
             /\ FileSize(f) \in Nat
  <2>1. image.files[f].inode \in Ext2!Inodes(image) /\ Ext2!IsFile(image, f)
    BY ImageIs
  <2>2. Ext2!ext2_read_inode(image.files[f].inode) = Ext2!InodeOn(image, image.files[f].inode)
    BY <2>1, InodesKept
  <2>3. FileSize(f) \in Nat
    BY <2>1 DEF Ext2!IsFile, FileSize
  <2>4. QED
    BY <2>2, <2>3 DEF Ext2!FileInode
<1>2. QED
  BY <1>1 DEF Ext2!Ext2Files, FileNow, FileSize, Ext2!DataBlock

LEMMA HeldFile ==
  ASSUME Mounted, HeldInv, held.node = "target", target_node.flags = "file"
  PROVE  \E f \in DOMAIN image.files :
           /\ Ext2!FileOf(target_node.inode) = f
           /\ Ext2!ext2_read_inode(target_node.inode) = Ext2!FileInode(image, f)
<1>1. PICK l \in Ext2!Inodes(image) : target_node = NodeFor(l)
  BY DEF HeldInv
<1>2. target_node.inode = l /\ l \notin DOMAIN image.tree
  <2>1. NodeFor(l).inode = l /\ NodeFor(l).flags # "directory"
    BY <1>1 DEF NodeFor
  <2>2. QED
    BY <1>1, <2>1, Kinds
<1>3. PICK f \in DOMAIN image.files : l = image.files[f].inode
  BY <1>2 DEF Ext2!Inodes
<1>4. \A g \in DOMAIN image.files : image.files[g].inode = l => g = f
  BY <1>3, ImageIs
<1>5. Ext2!FileOf(l) = f
  BY <1>3, <1>4 DEF Ext2!FileOf
<1>6. Ext2!ext2_read_inode(l) = Ext2!FileInode(image, f)
  BY <1>3, InodesKept DEF Ext2!FileInode
<1>7. QED
  BY <1>2, <1>5, <1>6

(* What a round takes is within one block. *)
LEMMA PieceRead ==
  ASSUME Mounted, NEW f \in DOMAIN image.files, NEW o \in Nat, NEW n \in Nat,
         (o % BS) + n <= BS, o + n <= FileSize(f)
  PROVE  SubSeq(disk[Ext2!DataBlock(image, f, o)], (o % BS) + 1, (o % BS) + n)
           = Bytes(FileNow(f), o + 1, n)
<1> DEFINE b == disk[Ext2!DataBlock(image, f, o)]
           r == o % BS
<1>1. BS \in Nat \ {0}
  BY FileSystemAssumption
<1>2. r \in Nat /\ r + n <= BS
  BY <1>1, DivMod
<1>3. FileSize(f) \in Nat
  BY FilesNow
<1>4. ASSUME NEW j \in 1 .. n PROVE FileNow(f)[o + 1 + j - 1] = b[r + j]
  <2> DEFINE d == j - 1
             x == o + d
  <2>1. d \in Nat /\ r + d < BS
    <3> HIDE DEF r
    <3>1. QED
      BY <1>1, <1>2
  <2>2. x \div BS = o \div BS /\ x % BS = r + d
    <3> HIDE DEF d
    <3>1. QED
      BY <1>1, <2>1, SameBlock
  <2>3. o + 1 + j - 1 = x + 1 /\ x + 1 \in 1 .. FileSize(f) /\ (x + 1) - 1 = x /\ r + d + 1 = r + j
    BY <1>2, <1>3
  <2> HIDE DEF x
  <2>4. FileNow(f)[x + 1] = disk[Ext2!DataBlock(image, f, x)][(x % BS) + 1]
    BY <2>3 DEF FileNow
  <2>5. Ext2!DataBlock(image, f, x) = Ext2!DataBlock(image, f, o)
    BY <2>2 DEF Ext2!DataBlock
  <2> HIDE DEF d, r
  <2>6. QED
    BY <2>2, <2>3, <2>4, <2>5
<1> HIDE DEF r, b
<1>5. SubSeq(b, r + 1, r + n) = [j \in 1 .. n |-> b[r + j]]
  <2> DEFINE p == r + 1
             e == r + n
  <2>1. p \in Nat /\ e \in Nat /\ 1 + e - p = n /\ \A j \in 1 .. n : p + j - 1 = r + j
    BY <1>2
  <2> HIDE DEF p, e
  <2>2. SubSeq(b, p, e) = [j \in 1 .. (1 + e - p) |-> b[p + j - 1]]
    BY <2>1
  <2>3. QED
    BY <2>1, <2>2 DEF p, e
<1>6. QED
  BY <1>4, <1>5 DEF b, r, Bytes

LEMMA BytesJoin ==
  ASSUME NEW m, NEW p \in Nat, NEW a \in Nat, NEW b \in Nat
  PROVE  Bytes(m, p, a) \o Bytes(m, p + a, b) = Bytes(m, p, a + b)
<1> DEFINE V == {m[i] : i \in Nat}
           A == [o \in 1 .. a |-> m[p + o - 1]]
           B == [o \in 1 .. b |-> m[p + a + o - 1]]
           C == [o \in 1 .. a + b |-> m[p + o - 1]]
<1>1. A \in [1 .. a -> V]
  <2>1. \A o \in 1 .. a : p + o - 1 \in Nat
    OBVIOUS
  <2>2. QED
    BY <2>1
<1>2. B \in [1 .. b -> V]
  <2>1. \A o \in 1 .. b : p + a + o - 1 \in Nat
    OBVIOUS
  <2>2. QED
    BY <2>1
<1> HIDE DEF V
<1>3. A \in Seq(V) /\ B \in Seq(V) /\ Len(A) = a /\ Len(B) = b
  <2> HIDE DEF A, B
  <2>1. QED
    BY <1>1, <1>2
<1> DEFINE R == A \o B
<1>4. /\ R \in Seq(V) /\ Len(R) = a + b
      /\ \A i \in 1 .. a + b : R[i] = IF i <= a THEN A[i] ELSE B[i - a]
  <2> HIDE DEF A, B
  <2>1. QED
    BY <1>3, ConcatProperties
<1>5. R = [i \in 1 .. a + b |-> R[i]]
  <2> HIDE DEF R
  <2>1. DOMAIN R = 1 .. Len(R)
    BY <1>4, LenProperties
  <2>2. R \in [1 .. Len(R) -> V]
    BY <1>4, LenProperties
  <2>3. QED
    BY <1>4, <2>2
<1>6. ASSUME NEW i \in 1 .. a + b PROVE R[i] = m[p + i - 1]
  <2>1. CASE i <= a
    <3>1. i \in 1 .. a
      BY <2>1
    <3>2. A[i] = m[p + i - 1]
      BY <3>1
    <3> HIDE DEF A, B, R
    <3>3. QED
      BY <1>4, <2>1, <3>2
  <2>2. CASE ~ (i <= a)
    <3>1. i - a \in 1 .. b /\ p + a + (i - a) - 1 = p + i - 1
      BY <2>2
    <3>2. B[i - a] = m[p + i - 1]
      BY <3>1
    <3> HIDE DEF A, B, R
    <3>3. QED
      BY <1>4, <2>2, <3>2
  <2>3. QED
    BY <2>1, <2>2
<1> HIDE DEF R
<1>7. R = C
  BY <1>5, <1>6
<1>8. QED
  BY <1>7 DEF R, Bytes

LEMMA NoBytes ==
  ASSUME NEW m, NEW p
  PROVE  Bytes(m, p, 0) = <<>>
<1>1. 1 .. 0 = {}
  OBVIOUS
<1>2. Bytes(m, p, 0) \in [1 .. 0 -> {}]
  BY <1>1 DEF Bytes
<1>3. QED
  BY <1>2

(* The rounds from offset on give the bytes up to the file's end, or to    *)
(* the end of what was asked for.                                          *)
End(f, offset, size) == IF offset + size <= FileSize(f) THEN offset + size ELSE FileSize(f)

LEMMA ChunkFits ==
  ASSUME Mounted, NEW f \in DOMAIN image.files, NEW offset \in Nat, NEW size \in Nat,
         NEW o \in Nat, o < offset + size, o < FileSize(f)
  PROVE  LET n == Ext2!Chunk(Ext2!FileInode(image, f), o, offset + size) IN
         /\ n \in Nat /\ n >= 1 /\ (o % BS) + n <= BS /\ o + n <= End(f, offset, size)
         /\ o < End(f, offset, size) /\ End(f, offset, size) \in Nat
         /\ End(f, offset, size) <= FileSize(f)
<1> DEFINE n == Ext2!Chunk(Ext2!FileInode(image, f), o, offset + size)
           r == o % BS
           sz == FileSize(f)
<1>1. BS \in Nat \ {0} /\ r \in 0 .. BS - 1
  BY FileSystemAssumption, DivMod
<1>2. sz \in Nat /\ o < sz
  BY FilesNow
<1>3. n = Ext2!Min({BS - r, (offset + size) - o, sz - o})
  BY DEF Ext2!Chunk, FileSize
<1> HIDE DEF r, n, sz
<1>4. BS - r \in Int /\ (offset + size) - o \in Int /\ sz - o \in Int
      /\ BS - r >= 1 /\ (offset + size) - o >= 1 /\ sz - o >= 1
  BY <1>1, <1>2
<1>5. /\ n \in Int /\ n <= BS - r /\ n <= (offset + size) - o /\ n <= sz - o
      /\ (n = BS - r \/ n = (offset + size) - o \/ n = sz - o)
  BY <1>3, <1>4, LeastOfThree
<1>6. n \in Nat /\ n >= 1
  BY <1>4, <1>5
<1>7. r + n <= BS /\ o + n <= offset + size /\ o + n <= sz
  BY <1>1, <1>2, <1>5, <1>6
<1> DEFINE e == End(f, offset, size)
<1>8. e = IF offset + size <= sz THEN offset + size ELSE sz
  BY DEF End, sz
<1> HIDE DEF e
<1>9. o + n <= e /\ o < e /\ e \in Nat /\ e <= sz
  BY <1>2, <1>6, <1>7, <1>8
<1>10. QED
  BY <1>6, <1>7, <1>9 DEF n, r, e, sz

LEMMA ReadIs ==
  ASSUME Mounted, NEW f \in DOMAIN image.files, NEW offset \in Nat, NEW size \in Nat
  PROVE  Ext2!ext2_read_data(Ext2!FileInode(image, f), offset, size)
           = Bytes(FileNow(f), offset + 1, CutLength(FileSize(f), offset, size))
<1> DEFINE inode == Ext2!FileInode(image, f)
           N == End(f, offset, size)
           n(o) == Ext2!Chunk(inode, o, offset + size)
           piece(o) == SubSeq(disk[inode.block[o \div BS + 1]], (o % BS) + 1, (o % BS) + n(o))
           Defines(u) == u = [o \in Nat |->
             IF o >= offset + size \/ o >= inode.size THEN <<>> ELSE piece(o) \o u[o + n(o)]]
           G(o) == IF o >= N THEN <<>> ELSE Bytes(FileNow(f), o + 1, N - o)
<1>1. Ext2!ext2_read_data(inode, offset, size) = (CHOOSE u : Defines(u))[offset]
  BY DEF Ext2!ext2_read_data
<1>2. FileSize(f) \in Nat /\ inode.size = FileSize(f)
  BY FilesNow DEF FileSize
<1>3. N \in Nat /\ N = (IF offset + size <= FileSize(f) THEN offset + size ELSE FileSize(f))
  BY <1>2 DEF End
<1>4. ASSUME NEW o \in Nat
      PROVE  (o >= offset + size \/ o >= inode.size) <=> o >= N
  <2> HIDE DEF N
  <2>1. QED
    BY <1>2, <1>3
<1>5. ASSUME NEW o \in Nat, ~ (o >= N)
      PROVE  n(o) \in Nat /\ n(o) >= 1 /\ o + n(o) <= N
             /\ piece(o) = Bytes(FileNow(f), o + 1, n(o))
  <2>1. o < offset + size /\ o < FileSize(f)
    <3> HIDE DEF N
    <3>1. QED
      BY <1>2, <1>3, <1>5
  <2>2. /\ n(o) \in Nat /\ n(o) >= 1 /\ (o % BS) + n(o) <= BS /\ o + n(o) <= N
        /\ N <= FileSize(f)
    BY <2>1, ChunkFits
  <2>3. o + n(o) <= FileSize(f)
    <3> HIDE DEF N, n
    <3>1. QED
      BY <1>2, <1>3, <2>2
  <2>4. SubSeq(disk[Ext2!DataBlock(image, f, o)], (o % BS) + 1, (o % BS) + n(o))
          = Bytes(FileNow(f), o + 1, n(o))
    <3> HIDE DEF n
    <3>1. QED
      BY <2>2, <2>3, PieceRead
  <2>5. QED
    BY <2>2, <2>4 DEF Ext2!DataBlock
<1> HIDE DEF n, piece, N, inode
(* One round more gives one piece more. *)
<1>6. ASSUME NEW o \in Nat, ~ (o >= N)
      PROVE  G(o) = piece(o) \o G(o + n(o))
  <2> DEFINE a == n(o)
             b == N - (o + a)
             F == FileNow(f)
  <2>1. a \in Nat /\ a >= 1 /\ o + a <= N /\ piece(o) = Bytes(F, o + 1, a)
    BY <1>5, <1>6
  <2> HIDE DEF a, F
  <2>2. b \in Nat /\ a + b = N - o /\ (o + 1) + a = (o + a) + 1 /\ o + 1 \in Nat
    BY <1>3, <2>1
  <2>3. G(o + a) = Bytes(F, (o + a) + 1, b)
    <3>1. CASE o + a >= N
      <4>1. b = 0
        BY <1>3, <2>1, <3>1
      <4>2. G(o + a) = <<>>
        BY <3>1
      <4> HIDE DEF b, G
      <4>3. QED
        BY <4>1, <4>2, NoBytes
    <3>2. CASE ~ (o + a >= N)
      BY <3>2 DEF F
    <3>3. QED
      BY <3>1, <3>2
  <2>4. Bytes(F, o + 1, a) \o Bytes(F, (o + 1) + a, b) = Bytes(F, o + 1, a + b)
    <3> HIDE DEF b
    <3>1. QED
      BY <2>1, <2>2, BytesJoin
  <2>5. G(o) = Bytes(F, o + 1, N - o)
    BY <1>6 DEF F
  <2> HIDE DEF b, G
  <2>6. QED
    BY <2>1, <2>2, <2>3, <2>4, <2>5 DEF a
<1> DEFINE g == [o \in Nat |-> G(o)]
<1>7. Defines(g)
  <2>1. ASSUME NEW o \in Nat
        PROVE  g[o] = IF o >= offset + size \/ o >= inode.size THEN <<>>
                      ELSE piece(o) \o g[o + n(o)]
    <3>1. CASE o >= N
      <4>1. g[o] = <<>>
        BY <3>1
      <4> HIDE DEF g
      <4>2. QED
        BY <1>4, <3>1, <4>1
    <3>2. CASE ~ (o >= N)
      <4>1. o + n(o) \in Nat
        BY <1>5, <3>2
      <4>2. g[o] = G(o) /\ g[o + n(o)] = G(o + n(o))
        <5> HIDE DEF G
        <5>1. QED
          BY <4>1
      <4> HIDE DEF G, g
      <4>3. QED
        BY <1>4, <1>6, <3>2, <4>2
    <3>3. QED
      BY <3>1, <3>2
  <2>2. g = [o \in Nat |-> g[o]]
    <3> HIDE DEF G
    <3>1. QED
      OBVIOUS
  <2> HIDE DEF g, G
  <2>3. QED
    BY <2>1, <2>2
<1> DEFINE h == CHOOSE u : Defines(u)
<1>8. Defines(h)
  <2> HIDE DEF Defines
  <2>1. QED
    BY <1>7
<1>9. h[offset] = Ext2!ext2_read_data(inode, offset, size)
  BY <1>1
<1> HIDE DEF h, g
<1>10. \A o \in Nat : h[o] = IF o >= offset + size \/ o >= inode.size THEN <<>>
                             ELSE piece(o) \o h[o + n(o)]
  BY <1>8
<1> HIDE DEF Defines
<1>11. ASSUME NEW o \in Nat, o >= N PROVE h[o] = G(o)
  <2>1. h[o] = <<>>
    BY <1>4, <1>10, <1>11
  <2>2. QED
    BY <1>11, <2>1
<1> DEFINE Bad == {m \in Nat : m <= N /\ h[N - m] # G(N - m)}
<1> HIDE DEF G
<1>12. ASSUME Bad # {} PROVE FALSE
  <2>1. PICK m \in Bad : \A k \in Bad : m <= k
    BY <1>12, LeastExists
  <2> DEFINE o == N - m
  <2>2. m \in Nat /\ m <= N /\ o \in Nat /\ h[o] # G(o) /\ o + m = N
    BY <1>3, <2>1
  <2> HIDE DEF o
  <2>3. ~ (o >= N)
    BY <1>11, <2>2
  <2>4. n(o) \in Nat /\ n(o) >= 1 /\ o + n(o) <= N
    BY <1>5, <2>2, <2>3
  <2>5. m - n(o) \in Nat /\ m - n(o) < m /\ m - n(o) <= N /\ N - (m - n(o)) = o + n(o)
    BY <1>3, <2>2, <2>4
  <2>6. m - n(o) \notin Bad
    BY <2>1, <2>5
  <2>7. h[o + n(o)] = G(o + n(o))
    BY <2>5, <2>6
  <2>8. h[o] = piece(o) \o h[o + n(o)]
    BY <1>4, <1>10, <2>2, <2>3
  <2>9. QED
    BY <1>6, <2>2, <2>3, <2>7, <2>8
<1>13. h[offset] = G(offset)
  <2>1. CASE offset >= N
    BY <1>11, <2>1
  <2>2. CASE ~ (offset >= N)
    <3>1. N - offset \in Nat /\ N - offset <= N /\ N - (N - offset) = offset
      BY <1>3, <2>2
    <3>2. N - offset \notin Bad
      BY <1>12
    <3>3. QED
      BY <3>1, <3>2
  <2>3. QED
    BY <2>1, <2>2
<1>14. G(offset) = Bytes(FileNow(f), offset + 1, CutLength(FileSize(f), offset, size))
  <2>1. CASE offset >= N
    <3>1. CutLength(FileSize(f), offset, size) = 0
      BY <1>2, <1>3, <2>1 DEF CutLength
    <3>2. G(offset) = <<>>
      BY <2>1 DEF G
    <3>3. QED
      BY <3>1, <3>2, NoBytes
  <2>2. CASE ~ (offset >= N)
    <3>1. CutLength(FileSize(f), offset, size) = N - offset
      BY <1>2, <1>3, <2>2 DEF CutLength
    <3>2. QED
      BY <2>2, <3>1 DEF G
  <2>3. QED
    BY <2>1, <2>2
<1>15. QED
  BY <1>9, <1>13, <1>14 DEF inode

LEMMA ExtReads ==
  ASSUME ExtInv, NEW r \in Reads, Ext2!ext2_node_read(r[1], r[2])
  PROVE  /\ mounted = "yes" /\ ExtInv' /\ UNCHANGED <<image, disk, sb, bg, mounted>>
         /\ last'.file \in DOMAIN Ext2!Ext2Files
         /\ last'.bytes = Store!Cut(Ext2!Ext2Files[last'.file], last'.offset, last'.size)
<1> DEFINE offset == r[1]
           size == r[2]
<1>1. /\ held.node = "target" /\ target_node.flags = "file"
      /\ last' = [file |-> Ext2!FileOf(target_node.inode), offset |-> offset, size |-> size,
                  bytes |-> Ext2!ext2_read_data(Ext2!ext2_read_inode(target_node.inode), offset, size)]
      /\ UNCHANGED <<image, disk, mounted, sb, bg, target_node, held>>
  BY DEF Ext2!ext2_node_read
<1>2. offset \in Nat /\ size \in Nat
  BY TarAssumption
<1> HIDE DEF offset, size
<1>3. Mounted /\ HeldInv
  BY <1>1 DEF Mounted, ExtInv, HeldInv
<1>4. PICK f \in DOMAIN image.files :
           /\ Ext2!FileOf(target_node.inode) = f
           /\ Ext2!ext2_read_inode(target_node.inode) = Ext2!FileInode(image, f)
  BY <1>1, <1>3, HeldFile
<1> DEFINE sz == FileSize(f)
           F == FileNow(f)
<1>5. last'.bytes = Bytes(F, offset + 1, CutLength(sz, offset, size))
  BY <1>1, <1>2, <1>3, <1>4, ReadIs
<1>6. sz \in Nat /\ f \in DOMAIN Ext2!Ext2Files /\ Ext2!Ext2Files[f] = F
  BY <1>3, FilesNow
<1>7. F = Bytes(F, 1, sz)
  <2>1. F = [o \in 1 .. sz |-> F[o]]
    BY DEF FileNow
  <2>2. \A o \in 1 .. sz : 1 + o - 1 = o
    BY <1>6
  <2> HIDE DEF F, sz
  <2>3. QED
    BY <2>1, <2>2 DEF Bytes
<1> HIDE DEF F, sz
<1>8. Store!Cut(Bytes(F, 1, sz), offset, size) = Bytes(F, 1 + offset, CutLength(sz, offset, size))
  BY <1>2, <1>6, CutIsCopied
<1>9. 1 + offset = offset + 1
  BY <1>2
<1>10. last'.file = f /\ last'.offset = offset /\ last'.size = size
  BY <1>1, <1>4
<1>11. Store!Cut(F, offset, size) = last'.bytes
  BY <1>5, <1>7, <1>8, <1>9
<1>12. ExtInv'
  BY <1>1, DiskStays, HeldStays DEF ExtInv
<1>13. QED
  BY <1>1, <1>3, <1>6, <1>10, <1>11, <1>12 DEF Mounted

-----------------------------------------------------------------------------
(* Writes.                                                                 *)
FilesAreNow == Ext2!Ext2Files = [f \in DOMAIN image.files |-> FileNow(f)]

LEMMA FilesNowNext == Mounted' => FilesAreNow'
<1>1. Mounted => FilesAreNow
  BY FilesNow DEF FilesAreNow
<1>2. QED
  BY <1>1, PTL

LEMMA BlocksApart ==
  ASSUME Mounted, NEW f \in DOMAIN image.files, NEW o \in 0 .. FileSize(f) - 1,
         NEW g \in DOMAIN image.files, NEW x \in 0 .. FileSize(g) - 1,
         Ext2!DataBlock(image, g, x) = Ext2!DataBlock(image, f, o)
  PROVE  g = f /\ x \div BS = o \div BS
<1>1. Ext2!IsFile(image, f)
  BY ImageIs
<1>2. o \in 0 .. Ext2!FileInode(image, f).size - 1 /\ x \in 0 .. Ext2!FileInode(image, g).size - 1
  BY DEF FileSize
<1>3. Ext2!DataBlock(image, f, o) = Ext2!DataBlock(image, g, x) => f = g /\ o \div BS = x \div BS
  BY <1>1, <1>2 DEF Ext2!IsFile
<1>4. QED
  BY <1>3

(* What ext2_node_write does to block b: n cells from number r on. *)
BlockWritten(b, r, n) ==
  disk' = [disk EXCEPT ![b] = [k \in 1 .. BS |-> IF k \in r + 1 .. r + n THEN New ELSE @[k]]]

LEMMA ByteWritten ==
  ASSUME Mounted, NEW f \in DOMAIN image.files, NEW offset \in Nat, NEW size \in Nat,
         offset < FileSize(f), offset + size <= FileSize(f), (offset % BS) + size <= BS,
         BlockWritten(Ext2!DataBlock(image, f, offset), offset % BS, size),
         NEW g \in DOMAIN image.files, NEW x \in 0 .. FileSize(g) - 1
  PROVE  disk'[Ext2!DataBlock(image, g, x)][(x % BS) + 1] =
           IF g = f /\ x + 1 \in offset + 1 .. offset + size THEN New
           ELSE disk[Ext2!DataBlock(image, g, x)][(x % BS) + 1]
<1> DEFINE b == Ext2!DataBlock(image, f, offset)
           c == Ext2!DataBlock(image, g, x)
           r == offset % BS
           t == x % BS
<1>1. BS \in Nat \ {0} /\ FileSize(f) \in Nat /\ FileSize(g) \in Nat /\ x \in Nat
  BY FileSystemAssumption, FilesNow
<1>2. r \in 0 .. BS - 1 /\ t \in 0 .. BS - 1
  BY <1>1, DivMod
<1>3. offset \in 0 .. FileSize(f) - 1
  BY <1>1
<1>4. b \in DOMAIN disk
  <2>1. IsData(image, b)
    BY <1>3 DEF IsData, FileSize
  <2>2. image \in Images /\ image.magic /\ DOMAIN disk = DOMAIN image.blocks
    BY DEF Mounted, DiskInv, MountedIs, DiskKept
  <2> HIDE DEF b
  <2>3. QED
    BY <2>1, <2>2, DataIsFull
<1>5. CASE c = b
  <2>1. g = f /\ x \div BS = offset \div BS
    BY <1>3, <1>5, BlocksApart
  <2>2. x - offset = t - r
    BY <1>1, <2>1, BlockDistance
  <2> HIDE DEF b, c, r, t
  <2>3. disk'[b] = [k \in 1 .. BS |-> IF k \in r + 1 .. r + size THEN New ELSE disk[b][k]]
    BY <1>4 DEF BlockWritten, b, r
  <2>4. t + 1 \in 1 .. BS
    BY <1>1, <1>2
  <2>5. (t + 1 \in r + 1 .. r + size) <=> (x + 1 \in offset + 1 .. offset + size)
    BY <1>1, <1>2, <2>2
  <2>6. disk'[b][t + 1] = IF t + 1 \in r + 1 .. r + size THEN New ELSE disk[b][t + 1]
    BY <2>3, <2>4
  <2>7. disk'[c][t + 1] = IF g = f /\ x + 1 \in offset + 1 .. offset + size THEN New
                          ELSE disk[c][t + 1]
    BY <1>5, <2>1, <2>5, <2>6
  <2>8. QED
    BY <2>7 DEF c, t
<1>6. CASE c # b
  <2>1. ~ (g = f /\ x + 1 \in offset + 1 .. offset + size)
    <3>1. SUFFICES ASSUME g = f, x + 1 \in offset + 1 .. offset + size PROVE FALSE
      OBVIOUS
    <3> DEFINE d == x - offset
    <3>2. d \in Nat /\ offset + d = x /\ r + d < BS
      <4> HIDE DEF r
      <4>1. r + size <= BS
        BY DEF r
      <4>2. QED
        BY <1>1, <1>2, <3>1, <4>1
    <3> HIDE DEF d
    <3>3. (offset + d) \div BS = offset \div BS
      BY <1>1, <3>2, SameBlock
    <3>4. c = b
      BY <3>1, <3>2, <3>3 DEF Ext2!DataBlock
    <3>5. QED
      BY <1>6, <3>4
  <2>2. disk'[c] = disk[c]
    <3> HIDE DEF c
    <3>1. QED
      BY <1>6 DEF BlockWritten
  <2>3. QED
    BY <2>1, <2>2
<1>7. QED
  BY <1>5, <1>6

LEMMA WriteKeepsDisk ==
  ASSUME DiskInv, Mounted, NEW f \in DOMAIN image.files, NEW offset \in 0 .. FileSize(f) - 1,
         NEW r, NEW n, BlockWritten(Ext2!DataBlock(image, f, offset), r, n),
         UNCHANGED <<image, sb, bg, mounted>>
  PROVE  DiskInv'
<1> DEFINE b == Ext2!DataBlock(image, f, offset)
<1>1. IsData(image, b)
  BY DEF IsData, FileSize
<1> HIDE DEF b
<1>2. MountedIs /\ DiskKept /\ mounted = "yes" /\ image \in Images
  BY DEF Mounted, DiskInv
<1>3. MountedIs'
  BY <1>2 DEF MountedIs
<1>4. /\ DOMAIN disk' = DOMAIN disk
      /\ \A c \in DOMAIN disk : c # b => disk'[c] = disk[c]
      /\ b \in DOMAIN disk => DOMAIN disk'[b] = 1 .. BS
  BY DEF BlockWritten, b
<1>5. DiskKept'
  BY <1>1, <1>2, <1>4 DEF DiskKept
<1>6. QED
  BY <1>2, <1>3, <1>5 DEF DiskInv

LEMMA ExtWrites ==
  ASSUME ExtInv, NEW wr \in Writes, Ext2!ext2_node_write(wr[1], wr[2])
  PROVE  LET f == last'.file
             range == last'.offset + 1 .. last'.offset + last'.size
         IN  /\ mounted = "yes" /\ ExtInv' /\ UNCHANGED <<image, sb, bg, mounted>>
             /\ f \in DOMAIN Ext2!Ext2Files
             /\ range \subseteq DOMAIN Ext2!Ext2Files[f]
             /\ Ext2!Ext2Files' = [Ext2!Ext2Files EXCEPT ![f] =
                               [i \in DOMAIN @ |-> IF i \in range THEN New ELSE @[i]]]
<1> DEFINE offset == wr[1]
           size == wr[2]
           range == offset + 1 .. offset + size
           inode == Ext2!ext2_read_inode(target_node.inode)
<1>1. /\ held.node = "target" /\ target_node.flags = "file"
      /\ offset < inode.size /\ offset + size <= inode.size /\ (offset % BS) + size <= BS
      /\ BlockWritten(inode.block[offset \div BS + 1], offset % BS, size)
      /\ last' = [file |-> Ext2!FileOf(target_node.inode), offset |-> offset, size |-> size,
                  bytes |-> <<>>]
      /\ UNCHANGED <<image, mounted, sb, bg, target_node, held>>
  BY DEF Ext2!ext2_node_write, BlockWritten
<1>2. offset \in Nat /\ size \in Nat
  BY TarAssumption
<1> HIDE DEF offset, size, inode
<1>3. Mounted /\ HeldInv
  BY <1>1 DEF Mounted, ExtInv, HeldInv
<1>4. PICK f \in DOMAIN image.files :
           Ext2!FileOf(target_node.inode) = f /\ inode = Ext2!FileInode(image, f)
  BY <1>1, <1>3, HeldFile DEF inode
<1>5. /\ FileSize(f) \in Nat /\ offset < FileSize(f) /\ offset + size <= FileSize(f)
      /\ BlockWritten(Ext2!DataBlock(image, f, offset), offset % BS, size)
      /\ last'.file = f /\ last'.offset = offset /\ last'.size = size
  BY <1>1, <1>3, <1>4, FilesNow DEF FileSize, Ext2!DataBlock
<1>6. DiskInv'
  <2>1. offset \in 0 .. FileSize(f) - 1
    BY <1>2, <1>5
  <2>2. DiskInv
    BY DEF ExtInv
  <2>3. QED
    BY <1>1, <1>3, <1>5, <2>1, <2>2, WriteKeepsDisk
<1>7. ExtInv'
  BY <1>1, <1>3, <1>6, HeldStays DEF ExtInv
<1>8. /\ Ext2!Ext2Files = [g \in DOMAIN image.files |-> FileNow(g)]
      /\ \A g \in DOMAIN image.files : FileSize(g) \in Nat
  BY <1>3, FilesNow
<1>9. Ext2!Ext2Files' = [g \in DOMAIN image.files |-> FileNow(g)']
  <2>1. Mounted'
    BY <1>1, <1>3, <1>6 DEF Mounted
  <2>2. FilesAreNow'
    BY <2>1, FilesNowNext
  <2>3. image' = image
    BY <1>1
  <2>4. QED
    BY <2>2, <2>3 DEF FilesAreNow
<1>10. ASSUME NEW g \in DOMAIN image.files
       PROVE  FileNow(g)' = IF g = f THEN [i \in 1 .. FileSize(f) |->
                                             IF i \in range THEN New ELSE FileNow(f)[i]]
                            ELSE FileNow(g)
  <2>1. FileNow(g)' = [o \in 1 .. FileSize(g) |->
                         disk'[Ext2!DataBlock(image, g, o - 1)][((o - 1) % BS) + 1]]
    BY <1>1 DEF FileNow, FileSize
  <2>2. ASSUME NEW o \in 1 .. FileSize(g)
        PROVE  disk'[Ext2!DataBlock(image, g, o - 1)][((o - 1) % BS) + 1] =
                 IF g = f /\ o \in range THEN New
                 ELSE disk[Ext2!DataBlock(image, g, o - 1)][((o - 1) % BS) + 1]
    <3>1. o - 1 \in 0 .. FileSize(g) - 1 /\ (o - 1) + 1 = o
      BY <1>8
    <3>2. disk'[Ext2!DataBlock(image, g, o - 1)][((o - 1) % BS) + 1] =
            IF g = f /\ (o - 1) + 1 \in offset + 1 .. offset + size THEN New
            ELSE disk[Ext2!DataBlock(image, g, o - 1)][((o - 1) % BS) + 1]
      BY <1>1, <1>2, <1>3, <1>5, <3>1, ByteWritten
    <3>3. QED
      BY <3>1, <3>2
  <2> HIDE DEF range
  <2>3. QED
    BY <2>1, <2>2 DEF FileNow
<1>11. range \subseteq 1 .. FileSize(f)
  BY <1>2, <1>5
<1> HIDE DEF range
<1>12. DOMAIN FileNow(f) = 1 .. FileSize(f)
  BY DEF FileNow
<1>13. f \in DOMAIN Ext2!Ext2Files /\ DOMAIN Ext2!Ext2Files[f] = 1 .. FileSize(f)
  BY <1>8, <1>12
<1>14. Ext2!Ext2Files' = [Ext2!Ext2Files EXCEPT ![f] =
                            [i \in DOMAIN @ |-> IF i \in range THEN New ELSE @[i]]]
  BY <1>8, <1>9, <1>10, <1>12
<1>15. QED
  BY <1>1, <1>3, <1>5, <1>7, <1>11, <1>13, <1>14 DEF range, Mounted

(* Mounting shows the files as they were made. *)
LEMMA MadeAre ==
  Mounted /\ disk = image.blocks => Ext2!Ext2Files = Ext2!Ext2Made
<1> SUFFICES ASSUME Mounted, disk = image.blocks PROVE Ext2!Ext2Files = Ext2!Ext2Made
  OBVIOUS
<1>1. Ext2!Ext2Files = [f \in DOMAIN image.files |-> FileNow(f)]
  BY FilesNow
<1>2. ASSUME NEW f \in DOMAIN image.files PROVE FileNow(f) = image.files[f].contents
  <2>1. Ext2!IsFile(image, f)
    BY ImageIs
  <2>2. QED
    BY <2>1 DEF Ext2!IsFile, FileNow, FileSize
<1>3. QED
  BY <1>1, <1>2 DEF Ext2!Ext2Made

-----------------------------------------------------------------------------
(* The steps under vfs, and the invariant of the two together.             *)
Steps == [FileSystemNext]_<<root, tar, ext2, last>>

LEMMA ExtKept == ExtInv /\ Ext2!Next => ExtInv'
<1> SUFFICES ASSUME ExtInv, Ext2!Next PROVE ExtInv'
  OBVIOUS
<1>1. ASSUME UNCHANGED <<image, disk, mounted, sb, bg, target_node, held>> PROVE ExtInv'
  BY <1>1, DiskStays, HeldStays DEF ExtInv
<1>2. CASE Ext2!ext2_mount
  BY <1>2, ExtMounts
<1>3. CASE Ext2!refused
  BY <1>1, <1>3 DEF Ext2!refused, Ext2!vars
<1>4. CASE \E path \in Paths : Ext2!vfs_resolve_path(path)
  BY <1>4, ExtResolves
<1>5. CASE \E index \in 0 .. BS : Ext2!vfs_readdir(index)
  BY <1>1, <1>5 DEF Ext2!vfs_readdir
<1>6. CASE \E r \in Reads : Ext2!ext2_node_read(r[1], r[2])
  BY <1>6, ExtReads
<1>7. CASE \E wr \in Writes : Ext2!ext2_node_write(wr[1], wr[2])
  BY <1>7, ExtWrites
<1>8. QED
  BY <1>2, <1>3, <1>4, <1>5, <1>6, <1>7 DEF Ext2!Next

LEMMA ExtStays ==
  ASSUME ExtInv, UNCHANGED ext2
  PROVE  ExtInv'
<1>1. UNCHANGED <<image, disk, mounted, sb, bg, target_node, held>>
  BY DEF ext2
<1>2. QED
  BY <1>1, DiskStays, HeldStays DEF ExtInv

LEMMA TarStays ==
  ASSUME TarIInv, UNCHANGED tar
  PROVE  TarIInv'
<1>1. ParseInv'
  BY ParseKept DEF TarIInv, tar, parsed
<1>2. MemInv'
  BY DEF TarIInv, MemInv, tar
<1>3. QED
  BY <1>1, <1>2 DEF TarIInv

Still == UNCHANGED <<root, tar, ext2, last>>

LEMMA OneOrTheOther ==
  ASSUME Steps
  PROVE  \/ root = "tar" /\ root' = root /\ [TarNext]_tar_vars /\ UNCHANGED ext2
         \/ root = "ext2" /\ root' = root /\ Ext2!Next /\ UNCHANGED tar
         \/ Still
<1>1. CASE UNCHANGED <<root, tar, ext2, last>>
  BY <1>1 DEF Still
<1>2. CASE mount
  BY <1>2 DEF mount, OnTar, OnExt2, TarNext, Ext2!Next
<1>3. CASE idle
  BY <1>3 DEF idle, OnTar, OnExt2, TarNext, Ext2!Next
<1>4. CASE \E r \in Reads : vfs_read(r[1], r[2])
  BY <1>4 DEF vfs_read, OnTar, OnExt2, TarNext, Ext2!Next
<1>5. CASE \E wr \in Writes : vfs_write(wr[1], wr[2])
  BY <1>5 DEF vfs_write, OnTar, OnExt2, TarNext, Ext2!Next
<1>6. CASE \E path \in Paths : vfs_resolve_path(path)
  BY <1>6 DEF vfs_resolve_path, OnExt2, Ext2!Next
<1>7. CASE \E index \in 0 .. BS : vfs_readdir(index)
  BY <1>7 DEF vfs_readdir, OnExt2, Ext2!Next
<1>8. QED
  BY <1>1, <1>2, <1>3, <1>4, <1>5, <1>6, <1>7 DEF Steps, FileSystemNext

RootKnown == root \in {"tar", "ext2"}
BothInv   == RootKnown /\ TarIInv /\ ExtInv

LEMMA BothStart == FileSystemInit => BothInv
  BY TarStarts, ExtStarts DEF FileSystemInit, BothInv, RootKnown

LEMMA BothKept == BothInv /\ Steps => BothInv'
<1> SUFFICES ASSUME BothInv, Steps PROVE BothInv'
  OBVIOUS
<1>1. RootKnown /\ TarIInv /\ ExtInv
  BY DEF BothInv
<1>2. CASE root = "tar" /\ root' = root /\ [TarNext]_tar_vars /\ UNCHANGED ext2
  BY <1>1, <1>2, TarKept, ExtStays DEF BothInv, RootKnown
<1>3. CASE root = "ext2" /\ root' = root /\ Ext2!Next /\ UNCHANGED tar
  BY <1>1, <1>3, TarStays, ExtKept DEF BothInv, RootKnown
<1>4. CASE Still
  <2>1. root' = root /\ UNCHANGED tar /\ UNCHANGED ext2
    BY <1>4 DEF Still
  <2>2. QED
    BY <1>1, <2>1, TarStays, ExtStays DEF BothInv, RootKnown
<1>5. QED
  BY <1>2, <1>3, <1>4, OneOrTheOther

(* What the initrd's readdir lists its finddir finds, whichever file       *)
(* system is mounted at the root.                                          *)
THEOREM ArchiveDirectory == FileSystemSpec => []DirectoryAgrees
<1>1. BothInv => DirectoryAgrees
  BY DirectoryFollows DEF BothInv, TarIInv
<1>2. QED
  BY <1>1, BothStart, BothKept, PTL DEF FileSystemSpec, Steps

(* The node a caller is given is the one its path leads to, although       *)
(* ext2_node_finddir makes every node in the same static variable.         *)
THEOREM PathsLead == FileSystemSpec => []PathsResolve
<1>1. BothInv => PathsResolve
  BY PathsFollow DEF BothInv
<1>2. QED
  BY <1>1, BothStart, BothKept, PTL DEF FileSystemSpec, Steps

(* Reading a directory by index until ext2_node_readdir has no more gives  *)
(* every name of it once and none that was deleted.                        *)
THEOREM DirectoriesList == FileSystemSpec => []ListingAgrees
<1>1. BothInv => ListingAgrees
  BY ListingFollows DEF BothInv
<1>2. QED
  BY <1>1, BothStart, BothKept, PTL DEF FileSystemSpec, Steps

-----------------------------------------------------------------------------
(* Under the root of ext2 the store is what the disk holds.                *)
ext_made == Ext2!Ext2Made
ext_seen == IF mounted = "yes" THEN Ext2!Ext2Files ELSE <<>>
ExtRoot  == root = "ext2" /\ root' = "ext2"

LEMMA StoreIsExt2 ==
  ASSUME ExtRoot
  PROVE  /\ Store!Open <=> /\ mounted # "yes" /\ mounted' = "yes"
                           /\ ext_seen' = ext_made /\ ext_made' = ext_made /\ last' = last
         /\ Store!Read <=> /\ mounted = "yes"
                           /\ last'.file \in DOMAIN ext_seen
                           /\ last'.bytes = Store!Cut(ext_seen[last'.file], last'.offset, last'.size)
                           /\ ext_made' = ext_made /\ (mounted' = "yes" <=> mounted = "yes")
                           /\ ext_seen' = ext_seen
         /\ Store!Write <=> LET f == last'.file
                                range == last'.offset + 1 .. last'.offset + last'.size
                            IN  /\ mounted = "yes" /\ f \in DOMAIN ext_seen
                                /\ range \subseteq DOMAIN ext_seen[f]
                                /\ ext_seen' = [ext_seen EXCEPT ![f] =
                                     [i \in DOMAIN @ |-> IF i \in range THEN New ELSE @[i]]]
                                /\ ext_made' = ext_made /\ (mounted' = "yes" <=> mounted = "yes")
         /\ UNCHANGED Store!vars <=> /\ ext_made' = ext_made
                                     /\ (mounted' = "yes" <=> mounted = "yes")
                                     /\ ext_seen' = ext_seen /\ last' = last
<1>1. root = "ext2" /\ root' = "ext2"
  BY DEF ExtRoot
<1>2. (Store!Open <=> /\ mounted # "yes" /\ mounted' = "yes"
                      /\ ext_seen' = ext_made /\ ext_made' = ext_made /\ last' = last)
  BY <1>1 DEF Store!Open, ext_seen, ext_made
<1>3. (Store!Read <=> /\ mounted = "yes"
                      /\ last'.file \in DOMAIN ext_seen
                      /\ last'.bytes = Store!Cut(ext_seen[last'.file], last'.offset, last'.size)
                      /\ ext_made' = ext_made /\ (mounted' = "yes" <=> mounted = "yes")
                      /\ ext_seen' = ext_seen)
  BY <1>1 DEF Store!Read, ext_seen, ext_made
<1>4. (Store!Write <=> LET f == last'.file
                           range == last'.offset + 1 .. last'.offset + last'.size
                       IN  /\ mounted = "yes" /\ f \in DOMAIN ext_seen
                           /\ range \subseteq DOMAIN ext_seen[f]
                           /\ ext_seen' = [ext_seen EXCEPT ![f] =
                                [i \in DOMAIN @ |-> IF i \in range THEN New ELSE @[i]]]
                           /\ ext_made' = ext_made /\ (mounted' = "yes" <=> mounted = "yes"))
  BY <1>1 DEF Store!Write, ext_seen, ext_made
<1>5. (UNCHANGED Store!vars <=> /\ ext_made' = ext_made
                                /\ (mounted' = "yes" <=> mounted = "yes")
                                /\ ext_seen' = ext_seen /\ last' = last)
  BY <1>1 DEF Store!vars, ext_seen, ext_made
<1>6. QED
  BY <1>2, <1>3, <1>4, <1>5

JustMounted == Mounted /\ disk = image.blocks
FilesMade   == Ext2!Ext2Files = Ext2!Ext2Made

LEMMA MadeAreNext == JustMounted' => FilesMade'
<1>1. JustMounted => FilesMade
  BY MadeAre DEF JustMounted, FilesMade
<1>2. QED
  BY <1>1, PTL

LEMMA MadeStay ==
  ASSUME UNCHANGED image
  PROVE  ext_made' = ext_made
  BY DEF ext_made, Ext2!Ext2Made

LEMMA SeenStay ==
  ASSUME UNCHANGED <<image, disk, sb, bg, mounted>>
  PROVE  ext_seen' = ext_seen
<1>1. Ext2!Ext2Files' = Ext2!Ext2Files
  BY DEF Ext2!Ext2Files, Ext2!ext2_read_inode, Ext2!Inode
<1>2. QED
  BY <1>1 DEF ext_seen

LEMMA NothingRead ==
  ASSUME ExtRoot, UNCHANGED <<image, disk, sb, bg, mounted, last>>
  PROVE  UNCHANGED Store!vars
  BY MadeStay, SeenStay, StoreIsExt2

LEMMA ExtImplements ==
  ASSUME ExtInv, ExtRoot, Ext2!Next
  PROVE  [Store!Next]_(Store!vars)
<1>1. CASE Ext2!ext2_mount
  <2>1. /\ ExtInv' /\ mounted # "yes" /\ UNCHANGED <<image, disk, last>>
        /\ mounted' = "yes" => image.magic /\ disk = image.blocks
    BY <1>1, ExtMounts
  <2>2. ext_made' = ext_made
    BY <2>1, MadeStay
  <2>3. CASE mounted' = "yes"
    <3>1. (disk = image.blocks)'
      BY <2>1, <2>3
    <3>2. JustMounted'
      BY <2>1, <2>3, <3>1 DEF JustMounted, Mounted, ExtInv
    <3>3. FilesMade'
      BY <3>2, MadeAreNext
    <3>4. ext_seen' = ext_made'
      BY <2>3, <3>3 DEF ext_seen, ext_made, FilesMade
    <3>5. Store!Open
      BY <2>1, <2>2, <2>3, <3>4, StoreIsExt2
    <3>6. QED
      BY <3>5 DEF Store!Next
  <2>4. CASE mounted' # "yes"
    <3>1. ext_seen' = ext_seen
      BY <2>1, <2>4 DEF ext_seen
    <3>2. UNCHANGED Store!vars
      BY <2>1, <2>2, <2>4, <3>1, StoreIsExt2
    <3>3. QED
      BY <3>2
  <2>5. QED
    BY <2>3, <2>4
<1>2. CASE Ext2!refused
  BY <1>2, NothingRead DEF Ext2!refused, Ext2!vars
<1>3. CASE \E path \in Paths : Ext2!vfs_resolve_path(path)
  BY <1>3, ExtResolves, NothingRead
<1>4. CASE \E index \in 0 .. BS : Ext2!vfs_readdir(index)
  BY <1>4, NothingRead DEF Ext2!vfs_readdir
<1>5. ASSUME NEW r \in Reads, Ext2!ext2_node_read(r[1], r[2]) PROVE Store!Read
  <2>1. /\ mounted = "yes" /\ UNCHANGED <<image, disk, sb, bg, mounted>>
        /\ last'.file \in DOMAIN Ext2!Ext2Files
        /\ last'.bytes = Store!Cut(Ext2!Ext2Files[last'.file], last'.offset, last'.size)
    BY <1>5, ExtReads
  <2>2. ext_seen = Ext2!Ext2Files
    BY <2>1 DEF ext_seen
  <2>3. ext_made' = ext_made /\ ext_seen' = ext_seen
    BY <2>1, MadeStay, SeenStay
  <2>4. QED
    BY <2>1, <2>2, <2>3, StoreIsExt2
<1>6. ASSUME NEW wr \in Writes, Ext2!ext2_node_write(wr[1], wr[2]) PROVE Store!Write
  <2> DEFINE f == last'.file
             range == last'.offset + 1 .. last'.offset + last'.size
  <2>1. /\ mounted = "yes" /\ UNCHANGED <<image, mounted>>
        /\ f \in DOMAIN Ext2!Ext2Files
        /\ range \subseteq DOMAIN Ext2!Ext2Files[f]
        /\ Ext2!Ext2Files' = [Ext2!Ext2Files EXCEPT ![f] =
                          [i \in DOMAIN @ |-> IF i \in range THEN New ELSE @[i]]]
    BY <1>6, ExtWrites
  <2>2. ext_made' = ext_made
    BY <2>1, MadeStay
  <2>3. ext_seen = Ext2!Ext2Files /\ ext_seen' = Ext2!Ext2Files'
    BY <2>1 DEF ext_seen
  <2>4. QED
    BY <2>1, <2>2, <2>3, StoreIsExt2
<1>7. QED
  BY <1>1, <1>2, <1>3, <1>4, <1>5, <1>6 DEF Ext2!Next, Store!Next

LEMMA NothingStored ==
  ASSUME Still
  PROVE  UNCHANGED Store!vars
<1>1. /\ root' = root /\ last' = last /\ UNCHANGED <<archive, mem, file_count, file_entries, stage>>
      /\ UNCHANGED <<image, disk, sb, bg, mounted>>
  BY DEF Still, tar, tables, ext2
<1>2. TarFiles' = TarFiles /\ made' = made
  BY <1>1, FilesStay
<1>3. Ext2!Ext2Files' = Ext2!Ext2Files /\ ext_made' = ext_made
  BY <1>1, MadeStay DEF Ext2!Ext2Files, Ext2!ext2_read_inode, Ext2!Inode
<1>4. QED
  BY <1>1, <1>2, <1>3 DEF Store!vars, made, ext_made

(* Both file systems keep the promise of a store: a read returns the bytes *)
(* of the file it names, cut at its end (tar_read; ext2_read_data piece by *)
(* piece), and a write changes no byte of another file.                    *)
THEOREM VfsIsFileStore == FileSystemSpec => ImplementsFileStore
<1>1. FileSystemInit => Store!Init
  <2> SUFFICES ASSUME FileSystemInit PROVE Store!Init
    OBVIOUS
  <2>1. stage = "start" /\ last.bytes = <<>> /\ mounted = "no"
    <3>1. TarInit /\ Ext2!Init
      BY DEF FileSystemInit
    <3>2. stage = "start" /\ last.bytes = <<>>
      BY <3>1 DEF TarInit
    <3>3. mounted = "no"
      BY <3>1 DEF Ext2!Init
    <3>4. QED
      BY <3>2, <3>3
  <2>2. QED
    BY <2>1 DEF Store!Init
<1>2. BothInv /\ Steps => [Store!Next]_(Store!vars)
  <2> SUFFICES ASSUME BothInv, Steps PROVE [Store!Next]_(Store!vars)
    OBVIOUS
  <2>1. TarIInv /\ ExtInv
    BY DEF BothInv
  <2>2. CASE root = "tar" /\ root' = root /\ [TarNext]_tar_vars
    <3>1. Kept
      BY <2>2 DEF Kept
    <3>2. QED
      BY <2>1, <2>2, <3>1, TarImplements
  <2>3. CASE root = "ext2" /\ root' = root /\ Ext2!Next
    <3>1. ExtRoot
      BY <2>3 DEF ExtRoot
    <3>2. QED
      BY <2>1, <2>3, <3>1, ExtImplements
  <2>4. CASE Still
    BY <2>4, NothingStored
  <2>5. QED
    BY <2>2, <2>3, <2>4, OneOrTheOther
<1>3. QED
  BY <1>1, <1>2, BothStart, BothKept, PTL
     DEF FileSystemSpec, Steps, ImplementsFileStore, Store!Spec
==============================================================================
