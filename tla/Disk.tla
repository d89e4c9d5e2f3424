-------------------------------- MODULE Disk --------------------------------
(***************************************************************************)
(* The disk driver, kernel/core/pata.c, and a drive behind its ports.  The *)
(* drive works at its own pace and shows what it does in a status register *)
(* that lags: after a command, or after the last word of a sector, the     *)
(* first read may still see the status from before.  It may also report an *)
(* error instead of asking for data, which the driver does not look at.    *)
(*                                                                         *)
(* Words are transferred one by one.  A sector_count of 0, which means 256 *)
(* to a drive and none to the driver's loop, is left to the callers.       *)
(***************************************************************************)
EXTENDS Integers, Sequences

CONSTANTS
  BYTE,     \* values of a port's byte, 256
  NIBBLE,   \* values of the four address bits in the device register, 16
  WORDS,    \* words in a sector, 256
  Call      \* the calls: [op, lba, count, data]

ASSUME DiskAssumption ==
  /\ BYTE \in Nat \ {0} /\ NIBBLE \in Nat \ {0} /\ WORDS \in Nat \ {0}
  /\ \A c \in Call :
       /\ c.op \in {"read", "write"}
       /\ c.lba \in Nat /\ c.count \in 1 .. BYTE - 1
       /\ c.lba + c.count <= BYTE * BYTE * BYTE * NIBBLE
       /\ c.op = "write" =>
            \A n \in 1 .. c.count : c.data[n] = [k \in 1 .. WORDS |-> c.data[n][k]]

NoCall == [op |-> "none"]
Lba    == 0 .. BYTE * BYTE * BYTE * NIBBLE - 1
Junk   == <<0, 0>>   \* no word of the disk
Blank  == [k \in 1 .. WORDS |-> Junk]

VARIABLES
  medium,   \* the sectors as they are on the platters
  drive,    \* the drive, a record:
            \*   state   "idle", "busy" (BSY), "drq" (DRQ) or "error"
            \*   shown   the state the next read of the status may still show
            \*   op, addr, left   the command, its next sector, sectors to go
            \*   sector, pos      the sector buffer, words moved of it
            \*   full    the buffer is to be written to the medium
  pc,       \* where the driver is
  call,     \* the arguments of its call
  s, w,     \* its loop counters: sectors done, words of the next one
  buf       \* the words read into the caller's buffer

driver == <<pc, call, s, w, buf>>
vars   == <<medium, drive, driver>>

Init ==
  /\ medium = [l \in Lba |-> [k \in 1 .. WORDS |-> <<l, k>>]]
  /\ drive = [state |-> "idle", shown |-> "idle", op |-> "none", addr |-> 0,
              left |-> 0, sector |-> Blank, pos |-> 0, full |-> FALSE]
  /\ pc = "idle" /\ call = NoCall /\ s = 0 /\ w = 0 /\ buf = <<>>

-----------------------------------------------------------------------------
(* The drive. *)

(* It goes from one state to another by itself; a status that was up to    *)
(* date stays so.                                                          *)
Becomes(d, state) ==
  [d EXCEPT !.state = state, !.shown = IF d.shown = d.state THEN state ELSE d.shown]

(* It goes on because of what the driver did. *)
Reacts(d, state) == [d EXCEPT !.state = state, !.shown = d.state]

(* The driver wrote the command register. *)
Accept(op, addr, count) ==
  Reacts([drive EXCEPT !.op = op, !.addr = addr, !.left = count, !.pos = 0], "busy")

(* A word was moved through the data port.  The last one of a sector ends  *)
(* DRQ: there is another sector to fetch, one to store, or nothing to do.  *)
Moved(d) ==
  IF d.pos + 1 < WORDS THEN [d EXCEPT !.pos = @ + 1]
  ELSE IF d.op = "write" THEN Reacts([d EXCEPT !.full = TRUE], "busy")
  ELSE Reacts([d EXCEPT !.addr = @ + 1, !.left = @ - 1],
              IF d.left = 1 THEN "idle" ELSE "busy")

(* It stores the sector it was given. *)
store ==
  /\ drive.full
  /\ medium' = [medium EXCEPT ![drive.addr] = drive.sector]
  /\ drive' = LET d == [drive EXCEPT !.full = FALSE, !.addr = @ + 1, !.left = @ - 1]
              IN  IF d.left = 0 THEN Becomes(d, "idle") ELSE d
  /\ UNCHANGED driver

(* It asks for data, or has data. *)
request ==
  /\ drive.state = "busy" /\ ~ drive.full
  /\ drive' = Becomes([drive EXCEPT
                         !.pos = 0,
                         !.sector = IF drive.op = "read" THEN medium[drive.addr] ELSE Blank],
                      "drq")
  /\ UNCHANGED <<medium, driver>>

fail ==
  /\ drive.state = "busy" /\ ~ drive.full
  /\ drive' = Becomes(drive, "error")
  /\ UNCHANGED <<medium, driver>>

-----------------------------------------------------------------------------
(* The driver. *)

(* inb(ATA_PRIMARY_STATUS): the drive's state, or the one before it. *)
inb_status(seen) ==
  /\ seen \in {drive.state, drive.shown}
  /\ drive' = [drive EXCEPT !.shown = drive.state]

pata_wait_bsy(next) ==
  /\ \E seen \in {"idle", "busy", "drq", "error"} :
       /\ inb_status(seen)
       /\ pc' = IF seen = "busy" THEN pc ELSE next
  /\ UNCHANGED <<medium, call, s, w, buf>>

pata_wait_drq(next) ==
  /\ \E seen \in {"idle", "busy", "drq", "error"} :
       /\ inb_status(seen)
       /\ pc' = IF seen = "drq" THEN next ELSE pc
  /\ UNCHANGED <<medium, call, s, w, buf>>

(* pata_read_sectors and pata_write_sectors. *)
call_driver ==
  /\ pc = "idle"
  /\ call' \in Call
  /\ buf' = <<>>
  /\ s' = 0 /\ w' = 0
  /\ pc' = "wait_ready"
  /\ UNCHANGED <<medium, drive>>

wait_ready == pc = "wait_ready" /\ pata_wait_bsy("command")

(* How the address is split over the ports, and put together again. *)
Registers(lba) ==
  [low    |-> lba % BYTE,
   mid    |-> (lba \div BYTE) % BYTE,
   high   |-> (lba \div (BYTE * BYTE)) % BYTE,
   device |-> (lba \div (BYTE * BYTE * BYTE)) % NIBBLE]

Addressed(r) == r.low + BYTE * (r.mid + BYTE * (r.high + BYTE * r.device))

command ==
  /\ pc = "command"
  /\ drive' = IF drive.state \in {"idle", "error"}
              THEN Accept(call.op, Addressed(Registers(call.lba)), call.count)
              ELSE drive
  /\ pc' = "wait_bsy"
  /\ UNCHANGED <<medium, call, s, w, buf>>

(* Mutant: no wait for BSY before the one for DRQ. *)
wait_bsy_Skipped ==
  /\ pc = "wait_bsy"
  /\ pc' = "wait_drq"
  /\ UNCHANGED <<medium, drive, call, s, w, buf>>

wait_bsy == pc = "wait_bsy" /\ pata_wait_bsy("wait_drq")
wait_drq == pc = "wait_drq" /\ pata_wait_drq("data")

(* Mutant: the loop goes round once more. *)
AfterSector_OneMore ==
  IF s + 1 <= call.count THEN "wait_bsy" ELSE "wait_end"

(* After the last word of a sector: the next one; a write waits once more. *)
AfterSector ==
  IF s + 1 < call.count THEN "wait_bsy"
  ELSE IF call.op = "write" THEN "wait_end" ELSE "return"

(* A word goes through the data port. *)
count_word ==
  IF w + 1 < WORDS
  THEN w' = w + 1 /\ UNCHANGED <<s, pc>>
  ELSE w' = 0 /\ s' = s + 1 /\ pc' = AfterSector

(* inw and outw: without DRQ there is nothing of value, and nobody listens. *)
inw ==
  /\ pc = "data" /\ call.op = "read"
  /\ IF drive.state = "drq"
     THEN buf' = Append(buf, drive.sector[drive.pos + 1]) /\ drive' = Moved(drive)
     ELSE buf' = Append(buf, Junk) /\ UNCHANGED drive
  /\ count_word
  /\ UNCHANGED <<medium, call>>

outw ==
  /\ pc = "data" /\ call.op = "write"
  /\ drive' = IF drive.state = "drq"
              THEN Moved([drive EXCEPT !.sector[drive.pos + 1] = call.data[s + 1][w + 1]])
              ELSE drive
  /\ count_word
  /\ UNCHANGED <<medium, call, buf>>

wait_end == pc = "wait_end" /\ pata_wait_bsy("return")

return ==
  /\ pc = "return"
  /\ pc' = "idle"
  /\ call' = NoCall
  /\ UNCHANGED <<medium, drive, s, w, buf>>

Driver == \/ call_driver \/ wait_ready \/ command \/ wait_bsy \/ wait_drq
          \/ inw \/ outw \/ wait_end \/ return
Drive  == store \/ request \/ fail

Next == Driver \/ Drive

Spec == Init /\ [][Next]_vars

(* The driver polls for ever, and the drive does what it was told or says  *)
(* that it cannot.  Nobody has to call.                                    *)
FairSpec ==
  Spec /\ WF_vars(pc # "idle" /\ Driver) /\ WF_vars(Drive)

-----------------------------------------------------------------------------
(* Refinement: whatever the pace of the drive, a call moves exactly the    *)
(* sectors it names.  A sector counts as written once the drive has all of *)
(* it, since a write may return, on a status that lags, before the drive   *)
(* has stored it: later calls still find it there.                         *)
Device == INSTANCE BlockDevice WITH
  sectors <- IF drive.full THEN [medium EXCEPT ![drive.addr] = drive.sector] ELSE medium,
  done    <- s,
  buf     <- [n \in 1 .. Len(buf) \div WORDS |->
                SubSeq(buf, (n - 1) * WORDS + 1, n * WORDS)]

ImplementsBlockDevice == Device!Spec

(* Liveness under FairSpec: every call returns, unless the drive reports   *)
(* an error: driver and drive count the same sectors and words, so neither *)
(* waits for the other.                                                    *)
CallsReturn == pc # "idle" ~> (pc = "idle" \/ drive.state = "error")
=============================================================================
