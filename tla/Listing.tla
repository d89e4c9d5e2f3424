------------------------------- MODULE Listing -------------------------------
(***************************************************************************)
(* The shell's ls: sys_getdents packs directory entries of different       *)
(* lengths into the shell's buffer, and the shell walks them by the        *)
(* lengths it finds there.  The two are compiled separately and share only *)
(* the layout of struct linux_dirent, which differs between i386 and       *)
(* x86_64.  The buffer is a stack variable: before the call it holds what  *)
(* an earlier ls or anything else left in it.                              *)
(*                                                                         *)
(* One cell is one byte; a field of several bytes is in its first cell.    *)
(***************************************************************************)
EXTENDS Integers, Sequences

CONSTANTS
  COUNT,   \* sizeof(dbuf) in init.c:75, 1024
  Abis,    \* struct linux_dirent: its size and alignment and the offsets of
           \* d_off, d_reclen and d_name
  Dirs     \* the directories considered: sequences of lengths of names,
           \* each of which fits in the name[128] of a struct dirent

DirentLayout == [size : Nat, align : Nat \ {0}, off_at : Nat, len_at : Nat, name_at : Nat]

ASSUME ListingAssumption ==
  /\ COUNT \in Nat \ {0}
  /\ Abis \subseteq DirentLayout
  /\ \A abi \in Abis :
       0 < abi.off_at /\ abi.off_at < abi.len_at /\ abi.len_at < abi.name_at
       /\ abi.name_at <= abi.size
  /\ Dirs \subseteq Seq(1 .. 127)

VARIABLES
  abi, dir,     \* the machine, and the names in the root directory
  pc,           \* "prompt", "getdents" in the kernel, "print" in the shell
  pos, index,   \* the locals of sys_getdents
  dbuf,         \* the shell's buffer
  nread, bpos,  \* the locals of the shell
  printed       \* the names this ls has written, as sequences of characters

listing_vars == <<abi, dir, pc, pos, index, dbuf, nread, bpos, printed>>

Byte == {"junk", "ino", "off", "reclen", "char", "nul"} \X Nat \X Nat
Junk == <<"junk", 0, 0>>
Nul  == <<"nul", 0, 0>>

(* The characters of the name of file k. *)
Name(k) == [i \in 1 .. dir[k] |-> <<"char", k, i>>]

ListingInit ==
  /\ abi \in Abis
  /\ dir \in Dirs
  /\ pc = "prompt"
  /\ pos = 0 /\ index = 0
  /\ dbuf = [b \in 0 .. COUNT - 1 |-> Junk]
  /\ nread = 0 /\ bpos = 0
  /\ printed = <<>>

-----------------------------------------------------------------------------
(* The shell calls getdents; without a root the kernel returns -1 at once. *)
ls ==
  /\ pc = "prompt"
  /\ \/ pc' = "getdents" /\ UNCHANGED nread
     \/ pc' = "print" /\ nread' = -1
  /\ pos' = 0 /\ index' = 0
  /\ bpos' = 0 /\ printed' = <<>>
  /\ UNCHANGED <<abi, dir, dbuf>>

RoundUp(n, align) == ((n + align - 1) \div align) * align

(* How long the record of a name is. *)
reclen(len) == RoundUp(abi.size + len + 1, abi.align)

fits(k) == pos + reclen(dir[k]) <= COUNT

(* The buffer with the record of file k at pos; the padding is not written. *)
record(k) ==
  LET len == reclen(dir[k]) IN
  [b \in DOMAIN dbuf |->
     CASE b = pos                -> <<"ino", k, 0>>
       [] b = pos + abi.off_at   -> <<"off", pos + len, 0>>
       [] b = pos + abi.len_at   -> <<"reclen", len, 0>>
       [] b = pos + abi.name_at + dir[k] -> Nul
       [] b \in pos + abi.name_at .. pos + abi.name_at + dir[k] - 1 ->
            Name(k)[b - pos - abi.name_at + 1]
       [] OTHER -> dbuf[b]]

(* One round of the loop of sys_getdents. *)
sys_getdents ==
  /\ pc = "getdents"
  /\ index < Len(dir)
  /\ fits(index + 1)
  /\ dbuf' = record(index + 1)
  /\ pos' = pos + reclen(dir[index + 1])
  /\ index' = index + 1
  /\ UNCHANGED <<abi, dir, pc, nread, bpos, printed>>

(* The directory ends, or its next name does not fit. *)
sys_getdents_return ==
  /\ pc = "getdents"
  /\ index < Len(dir) => ~ fits(index + 1)
  /\ pc' = "print"
  /\ nread' = pos
  /\ UNCHANGED <<abi, dir, pos, index, dbuf, bpos, printed>>

(* The string at b: the cells up to the first NUL. *)
String(b) ==
  LET len == CHOOSE n \in 0 .. COUNT :
               /\ b + n >= COUNT \/ dbuf[b + n] = Nul
               /\ \A j \in 0 .. n - 1 : dbuf[b + j] # Nul
  IN [i \in 1 .. len |-> dbuf[b + i - 1]]

(* Mutant: the shell steps by the size of the header alone. *)
print_name_FixedStep ==
  /\ pc = "print"
  /\ bpos < nread
  /\ printed' = Append(printed, String(bpos + abi.name_at))
  /\ bpos' = bpos + RoundUp(abi.size, abi.align)
  /\ UNCHANGED <<abi, dir, pc, pos, index, dbuf, nread>>

(* One round of the shell's loop. *)
print_name ==
  /\ pc = "print"
  /\ bpos < nread
  /\ printed' = Append(printed, String(bpos + abi.name_at))
  /\ bpos' = bpos + dbuf[bpos + abi.len_at][2]
  /\ UNCHANGED <<abi, dir, pc, pos, index, dbuf, nread>>

(* Mutant: the loop ends when bpos is what getdents returned, -1 included. *)
print_end_Equal ==
  /\ pc = "print"
  /\ bpos = nread
  /\ pc' = "prompt"
  /\ UNCHANGED <<abi, dir, pos, index, dbuf, nread, bpos, printed>>

print_end ==
  /\ pc = "print"
  /\ bpos >= nread
  /\ pc' = "prompt"
  /\ UNCHANGED <<abi, dir, pos, index, dbuf, nread, bpos, printed>>

ListingNext ==
  \/ ls \/ sys_getdents \/ sys_getdents_return \/ print_name \/ print_end

ListingSpec == ListingInit /\ [][ListingNext]_listing_vars

(* The shell and the kernel go on with a command once it was given. *)
FairSpec ==
  ListingSpec /\ WF_listing_vars(sys_getdents \/ sys_getdents_return \/ print_name \/ print_end)

-----------------------------------------------------------------------------
(* Where the record of file k starts, and where that of the last one ends. *)
Start ==
  LET at[k \in 1 .. Len(dir) + 1] ==
        IF k = 1 THEN 0 ELSE at[k - 1] + reclen(dir[k - 1])
  IN at

(* What ls has printed are the first names of the directory, whole and in  *)
(* their order, whatever the buffer held before; and a finished ls has     *)
(* printed every name whose record, with those before it, fits in the      *)
(* buffer: there is no second call for the others.                         *)
PrintsWhatFits ==
  /\ Len(printed) <= Len(dir)
  /\ \A k \in 1 .. Len(printed) : printed[k] = Name(k)
  /\ (pc = "prompt" /\ nread > 0) =>
       \A k \in 1 .. Len(dir) : k <= Len(printed) <=> Start[k + 1] <= COUNT

(* Liveness: the shell's walk ends, since no record has the length 0. *)
LsEnds == pc # "prompt" ~> pc = "prompt"
=============================================================================
