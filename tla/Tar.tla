--------------------------------- MODULE Tar ---------------------------------
(***************************************************************************)
(* The initrd, kernel/fs/tar.c: tar_parse walks the headers of the archive *)
(* that the boot loader put in memory, and later reads and writes go to    *)
(* the archive's own bytes.  No call is interrupted: kmain parses before   *)
(* sti, and system calls run with interrupts off.                          *)
(*                                                                         *)
(* Memory has one cell for each byte.  A header's bytes are abstracted to  *)
(* what tar_parse takes from it: the name, and the field of the size.      *)
(* Names end in their 100 bytes; one that fills them has no NUL, and the   *)
(* code would go on copying the mode that follows.                         *)
(***************************************************************************)
EXTENDS Integers, Sequences

CONSTANTS
  MAX_TAR_FILES,  \* tar.c:3, 32
  DIGITS,         \* tar.c:100, 11: how much of a field of 12 is parsed
  BLOCK,          \* 512
  WORD,           \* 2^32, the width of every size and address
  ADDRESS,        \* where the boot loader put the archive
  Archives,       \* the archives considered: sequences of members, each a
                  \* name and the field of its size (-1: no octal digit)
  Reads, Writes   \* bound: the offsets and sizes considered

ASSUME TarAssumption ==
  /\ MAX_TAR_FILES \in Nat /\ DIGITS \in Nat /\ BLOCK \in Nat \ {0} /\ WORD \in Nat \ {0}
  /\ ADDRESS \in Nat
  /\ \A archive \in Archives : archive \in Seq([name : STRING, digits : Seq(-1 .. 7)])
  /\ Reads \cup Writes \subseteq Nat \X Nat

(* The octal number at the start of a field, up to DIGITS, in 32 bits. *)
parse_octal(val) ==
  LET Leading == {n \in 0 .. Len(val) : n <= DIGITS /\ \A i \in 1 .. n : val[i] >= 0}
      acc[n \in Leading] == IF n = 0 THEN 0 ELSE (acc[n - 1] * 8 + val[n]) % WORD
  IN acc[CHOOSE n \in Leading : \A m \in Leading : m <= n]

-----------------------------------------------------------------------------
(* The archive in memory, as tar writes it: for each member a header block *)
(* and its data padded to whole blocks, and a block of zeros at the end.   *)
(* A size is what its digits say in base 8.                                *)

SizeOf(member) ==
  LET val == member.digits
      value[n \in 0 .. Len(val)] ==
        IF n = 0 THEN 0 ELSE IF val[n] < 0 THEN value[n - 1] ELSE value[n - 1] * 8 + val[n]
  IN value[Len(val)]

New == <<-1, 0>>

Blocks(size) == (size + BLOCK - 1) \div BLOCK

HeaderAt(archive) ==
  LET at[k \in 1 .. Len(archive) + 1] ==
        IF k = 1 THEN ADDRESS
        ELSE at[k - 1] + (1 + Blocks(SizeOf(archive[k - 1]))) * BLOCK
  IN at

(* Every member has a name, nothing but blanks follows the digits of its   *)
(* size, at most DIGITS, and the whole archive has addresses.              *)
WellFormed(archive) ==
  /\ \A k \in 1 .. Len(archive) :
       LET val == archive[k].digits IN
       /\ archive[k].name # ""
       /\ \A i, j \in 1 .. Len(val) : i < j /\ val[i] < 0 => val[j] < 0
       /\ \A i \in 1 .. Len(val) : i > DIGITS => val[i] < 0
  /\ HeaderAt(archive)[Len(archive) + 1] + BLOCK <= WORD

ASSUME ArchivesAreTars == \A archive \in Archives : WellFormed(archive)

(* A cell of a member's data holds the member and the offset; any other    *)
(* cell holds <<0, 0>>, and a written one New.                             *)
Image(archive) ==
  LET at  == HeaderAt(archive)
      end == at[Len(archive) + 1] + BLOCK
  IN [a \in ADDRESS .. end - 1 |->
        IF \E k \in 1 .. Len(archive) :
             a \in at[k] + BLOCK .. at[k] + BLOCK + SizeOf(archive[k]) - 1
        THEN LET k == CHOOSE k \in 1 .. Len(archive) :
                        a \in at[k] + BLOCK .. at[k] + BLOCK + SizeOf(archive[k]) - 1
             IN <<k, a - at[k] - BLOCK>>
        ELSE <<0, 0>>]

(* What a struct tar_header at address a holds.  A block of a file's data  *)
(* may look like a header, and beyond the archive nothing is known.        *)
Stray == [name |-> "stray", digits |-> <<1>>]
None  == [name |-> "", digits |-> <<>>]

Header(archive, a) ==
  LET at == HeaderAt(archive) IN
  IF \E k \in 1 .. Len(archive) : at[k] = a
  THEN archive[CHOOSE k \in 1 .. Len(archive) : at[k] = a]
  ELSE IF a = at[Len(archive) + 1] THEN None ELSE Stray

-----------------------------------------------------------------------------
Entry == 0 .. MAX_TAR_FILES - 1

VARIABLES
  archive,          \* the archive that was loaded
  mem,              \* its bytes
  stage,               \* "start", "parse", then "ready"
  current_address,  \* the local of tar_parse
  file_count, file_entries, tar_nodes, tar_dirents,
  last              \* history: the last read or write, and the bytes it returned

tables == <<file_entries, tar_nodes, tar_dirents>>
tar_vars   == <<archive, mem, stage, current_address, file_count, tables, last>>

TarInit ==
  /\ archive \in Archives
  /\ mem = Image(archive)
  /\ stage = "start"
  /\ current_address = 0
  /\ file_count = 0
  /\ file_entries = [i \in Entry |-> [name |-> "", address |-> 0, size |-> 0]]
  /\ tar_nodes = [i \in 0 .. MAX_TAR_FILES |-> [inode |-> 0, flags |-> "none", length |-> 0]]
  /\ tar_dirents = [i \in 0 .. MAX_TAR_FILES |-> [name |-> "", ino |-> 0]]
  /\ last = [file |-> 1, offset |-> 0, size |-> 0, bytes |-> <<>>]

tar_parse ==
  /\ stage = "start"
  /\ stage' = "parse"
  /\ file_count' = 0
  /\ current_address' = ADDRESS
  /\ UNCHANGED <<archive, mem, tables, last>>

NextHeader(size) ==
  (current_address + (((size + BLOCK - 1) % WORD) \div BLOCK + 1) * BLOCK) % WORD

(* One round of the loop.  A file beyond the table's end is passed over. *)
parse_header ==
  LET header == Header(archive, current_address)
      size   == parse_octal(header.digits)
  IN
  /\ stage = "parse"
  /\ header.name # ""
  /\ IF file_count < MAX_TAR_FILES
     THEN /\ file_entries' = [file_entries EXCEPT ![file_count] =
               [name |-> header.name, address |-> current_address + BLOCK, size |-> size]]
          /\ file_count' = file_count + 1
     ELSE UNCHANGED <<file_entries, file_count>>
  /\ current_address' = NextHeader(size)
  /\ UNCHANGED <<archive, mem, stage, tar_nodes, tar_dirents, last>>

(* Mutant: the nodes are numbered like the directory entries. *)
build_tables_InodeFromOne ==
  /\ tar_nodes' = [i \in 0 .. MAX_TAR_FILES |->
       IF i = 0 THEN [tar_nodes[0] EXCEPT !.flags = "directory"]
       ELSE IF i <= file_count
       THEN [inode |-> i, flags |-> "file", length |-> file_entries[i - 1].size]
       ELSE tar_nodes[i]]
  /\ tar_dirents' = [i \in 0 .. MAX_TAR_FILES |->
       IF i < file_count THEN [name |-> file_entries[i].name, ino |-> i + 1]
       ELSE tar_dirents[i]]

(* Node 0 is the directory, node i + 1 the file of entry i. *)
build_tables ==
  /\ tar_nodes' = [i \in 0 .. MAX_TAR_FILES |->
       IF i = 0 THEN [tar_nodes[0] EXCEPT !.flags = "directory"]
       ELSE IF i <= file_count
       THEN [inode |-> i - 1, flags |-> "file", length |-> file_entries[i - 1].size]
       ELSE tar_nodes[i]]
  /\ tar_dirents' = [i \in 0 .. MAX_TAR_FILES |->
       IF i < file_count THEN [name |-> file_entries[i].name, ino |-> i + 1]
       ELSE tar_dirents[i]]

parse_end ==
  /\ stage = "parse"
  /\ Header(archive, current_address).name = ""
  /\ stage' = "ready"
  /\ build_tables
  /\ UNCHANGED <<archive, mem, current_address, file_count, file_entries, last>>

-----------------------------------------------------------------------------
(* The operations of the nodes. *)

(* The set of nodes tar_finddir may return: the first match, or none. *)
tar_finddir(name) ==
  {tar_nodes[i + 1] : i \in {i \in 0 .. file_count - 1 :
     /\ file_entries[i].name = name
     /\ \A j \in 0 .. i - 1 : file_entries[j].name # name}}

(* The set of entries tar_readdir may return. *)
tar_readdir(index) == IF index >= file_count THEN {} ELSE {tar_dirents[index]}

(* How many bytes tar_read copies. *)
ReadSize(node, offset, size) ==
  LET file_size == file_entries[node.inode].size IN
  IF node.inode >= file_count THEN 0
  ELSE IF offset >= file_size THEN 0
  ELSE IF (offset + size) % WORD > file_size THEN file_size - offset
  ELSE size

(* kmain reads init from its start.  A caller whose offset + size does not *)
(* fit in 32 bits would defeat the comparison; there is none.              *)
tar_read(node, offset, size) ==
  /\ stage = "ready"
  /\ offset + size < WORD
  /\ last' = [file |-> node.inode + 1, offset |-> offset, size |-> size,
             bytes |-> [j \in 1 .. ReadSize(node, offset, size) |->
                          mem[file_entries[node.inode].address + offset + j - 1]]]
  /\ UNCHANGED <<archive, mem, stage, current_address, file_count, tables>>

(* Mutant: the bytes go to the start of the file. *)
Written_NoOffset(node, offset, size) ==
  LET dest == file_entries[node.inode].address IN dest .. dest + size - 1

(* The cells tar_write writes. *)
Written(node, offset, size) ==
  LET dest == file_entries[node.inode].address + offset IN dest .. dest + size - 1

(* tar_write leaves it to the caller to stay within the file. *)
tar_write(node, offset, size) ==
  /\ stage = "ready"
  /\ node.inode < file_count
  /\ offset + size <= node.length
  /\ mem' = [a \in DOMAIN mem |-> IF a \in Written(node, offset, size) THEN New ELSE mem[a]]
  /\ last' = [file |-> node.inode + 1, offset |-> offset, size |-> size, bytes |-> <<>>]
  /\ UNCHANGED <<archive, stage, current_address, file_count, tables>>

Nodes == {tar_nodes[i] : i \in 1 .. file_count}

(* kmain finds no init and goes on without it. *)
init_missing == stage = "ready" /\ tar_finddir("init") = {} /\ UNCHANGED tar_vars

TarNext ==
  \/ tar_parse \/ parse_header \/ parse_end
  \/ \E node \in Nodes, r \in Reads  : tar_read(node, r[1], r[2])
  \/ \E node \in Nodes, w \in Writes : tar_write(node, w[1], w[2])
  \/ init_missing

TarSpec == TarInit /\ [][TarNext]_tar_vars

-----------------------------------------------------------------------------
(* What readdir lists, finddir finds: under each listed name lookup returns *)
(* one node, the first member's of that name with its length; and a name   *)
(* listed once leads back to the entry's own number.  Four numberings      *)
(* (entries, nodes, inodes, directory entries) have to fit together.       *)
DirectoryAgrees ==
  stage = "ready" =>
    \A index \in 0 .. MAX_TAR_FILES : \A entry \in tar_readdir(index) :
      \E node \in tar_finddir(entry.name) :
        /\ node.inode < Len(archive)
        /\ archive[node.inode + 1].name = entry.name
        /\ node.length = SizeOf(archive[node.inode + 1])
        /\ \A k \in 1 .. node.inode : archive[k].name # entry.name
        /\ \/ entry.ino = node.inode + 1
           \/ \E k \in 1 .. index : archive[k].name = entry.name

(* The files as they are seen, and as the archive has them: those that     *)
(* there is room for.                                                      *)
TarMade == [k \in 1 .. Len(archive) |-> [o \in 1 .. SizeOf(archive[k]) |-> <<k, o - 1>>]]

TarFiles ==
  [f \in 1 .. file_count |->
    [o \in 1 .. file_entries[f - 1].size |-> mem[file_entries[f - 1].address + o - 1]]]
=============================================================================
