------------------------------- MODULE Loader -------------------------------
(***************************************************************************)
(* From the initrd to a program in memory: the part of kmain that reads    *)
(* init to a fixed address, tar_read as it calls it, and elf_load of both  *)
(* machines.  One physical memory holds everything: the kernel, the        *)
(* initrd, the page tables init_paging took from the lowest free pages,    *)
(* the staging buffer and, where the file's headers say, the program.      *)
(* elf_load reads those headers in the buffer while it writes, so they are *)
(* read from memory here too, in every round in which the code does so.    *)
(*                                                                         *)
(* Memory is measured in cells, each an ELF header, a program header, a    *)
(* page, or a piece of code and data, as large as it needs to be.          *)
(***************************************************************************)
EXTENDS Integers, Sequences, FiniteSets

CONSTANTS
  MEM,         \* cells of memory
  STAGE,       \* main.c:53, 0x400000
  Layouts,     \* where a boot loader put kernel and initrd, on which machine
  Programs     \* the files init may be: sequences of cells, <<>> for none

(* tables: how many init_paging allocates, 5 on i386 and none on x86_64;   *)
(* checks: elf_load looks at class and machine, as on x86_64 only.         *)
(* Modules are loaded behind the kernel.                                   *)
Layout ==
  {l \in [kernel : Nat, initrd : Nat, tables : Nat, checks : BOOLEAN] :
     l.kernel <= l.initrd}

(* A cell of a file: an ELF header, a program header, or code and data.    *)
Ehdrs == [is : {"ehdr"}, native : BOOLEAN, phoff : Nat, phnum : Nat, entry : Nat]
Phdrs == [is : {"phdr"}, load : BOOLEAN, offset : Nat, vaddr : Nat,
          filesz : Nat, memsz : Nat]
Data  == [is : {"data"}, id : Nat]

ASSUME LoaderAssumption ==
  /\ MEM \in Nat /\ STAGE \in Nat /\ STAGE < MEM
  /\ Layouts \subseteq Layout
  /\ Programs \subseteq Seq(Ehdrs \cup Phdrs \cup Data)

Cell == 0 .. MEM - 1

VARIABLES
  memory,      \* the contents of every cell
  layout,      \* the machine, and where the boot loader put what
  init,        \* the file, as it is in the initrd
  tables,      \* the cells init_paging took
  phase,       \* what kmain is doing
  phdr,        \* elf_load's pointer to the program headers
  i, j,        \* its loop counters; j is also tar_read's
  dest, src,   \* its pointers for a segment
  entry        \* what it returned

pointers    == <<phdr, i, dest, src>>
given       == <<layout, init>>
loader_vars == <<memory, given, tables, phase, pointers, j, entry>>

Kernel    == [is |-> "kernel"]
PageTable == [is |-> "table"]
Archive   == [is |-> "archive"]   \* the initrd's own headers
Unused    == [is |-> "unused"]
Zero      == [is |-> "zero"]

(* The initrd: a header, then the file. *)
Address  == layout.initrd + 1
Initrd   == layout.initrd .. layout.initrd + Len(init)
Occupied == 0 .. layout.kernel - 1 \cup Initrd

LoaderInit ==
  /\ layout \in Layouts
  /\ init \in Programs
  /\ memory = [c \in Cell |->
       IF c < layout.kernel THEN Kernel
       ELSE IF c = layout.initrd THEN Archive
       ELSE IF c \in Initrd THEN init[c - layout.initrd]
       ELSE Unused]
  /\ tables = {}
  /\ phase = "init_paging"
  /\ phdr = 0 /\ i = 0 /\ j = 0 /\ dest = 0 /\ src = 0 /\ entry = 0

-----------------------------------------------------------------------------
(* Beyond the memory there is, writes leave nothing and reads find nothing. *)
Read(c)     == IF c \in Cell THEN memory[c] ELSE Unused
Write(c, v) == IF c \in Cell THEN [memory EXCEPT ![c] = v] ELSE memory

(* pmm_alloc_page returns the lowest free page each time. *)
LowestFree(n) ==
  LET free == Cell \ Occupied IN
  {c \in free : Cardinality({d \in free : d < c}) < n}

init_paging ==
  /\ phase = "init_paging"
  /\ tables' = LowestFree(layout.tables)
  /\ memory' = [c \in Cell |-> IF c \in tables' THEN PageTable ELSE memory[c]]
  /\ phase' = "find"
  /\ UNCHANGED <<given, pointers, j, entry>>

(* Mutant: the buffer begins lower. *)
elf_buffer_Lower == STAGE - 3

elf_buffer == STAGE

(* vfs_finddir(tar_root, "init"). *)
find_init ==
  /\ phase = "find"
  /\ phase' = IF init = <<>> THEN "missing" ELSE "tar_read"
  /\ UNCHANGED <<memory, given, tables, pointers, j, entry>>

(* A round of the loop of tar_read(init_node, 0, length, elf_buffer). *)
tar_read ==
  /\ phase = "tar_read"
  /\ IF j < Len(init)
     THEN /\ memory' = Write(elf_buffer + j, Read(Address + j))
          /\ j' = j + 1
          /\ UNCHANGED phase
     ELSE /\ phase' = "elf_load"
          /\ j' = 0
          /\ UNCHANGED memory
  /\ UNCHANGED <<given, tables, pointers, entry>>

-----------------------------------------------------------------------------
(* elf_load. *)
hdr     == Read(elf_buffer)
segment == Read(phdr + i)

(* The test of the magic number, and of class and machine on x86_64.       *)
Accepted(h) == h.is = "ehdr" /\ (layout.checks => h.native)

elf_load ==
  /\ phase = "elf_load"
  /\ IF Accepted(hdr)
     THEN phase' = "headers" /\ phdr' = elf_buffer + hdr.phoff
     ELSE phase' = "failed" /\ UNCHANGED phdr
  /\ UNCHANGED <<memory, given, tables, i, j, dest, src, entry>>

(* The headers that each of the three loops reads in a round.  Where what  *)
(* is read is none, the code goes on with whatever numbers it finds, and   *)
(* the model ends in "wild".                                               *)
HeadersRead ==
  /\ phase = "headers" =>
       hdr.is = "ehdr" /\ hdr.native /\ (i < hdr.phnum => segment.is = "phdr")
  /\ phase \in {"copy", "bss"} => segment.is = "phdr"

wild ==
  /\ phase \in {"headers", "copy", "bss"}
  /\ ~ HeadersRead
  /\ phase' = "wild"
  /\ UNCHANGED <<memory, given, tables, pointers, j, entry>>

(* A program header that is to be loaded, or is skipped. *)
next_header ==
  /\ phase = "headers"
  /\ HeadersRead
  /\ i < hdr.phnum
  /\ IF segment.load
     THEN /\ dest' = segment.vaddr
          /\ src' = elf_buffer + segment.offset
          /\ phase' = "copy"
          /\ UNCHANGED i
     ELSE /\ i' = i + 1
          /\ UNCHANGED <<dest, src, phase>>
  /\ j' = 0
  /\ UNCHANGED <<memory, given, tables, phdr, entry>>

(* Mutant: the zeros begin at the start of the segment. *)
copy_ZeroAll ==
  /\ phase = "copy"
  /\ HeadersRead
  /\ IF j < segment.filesz
     THEN /\ memory' = Write(dest + j, Read(src + j))
          /\ j' = j + 1
          /\ UNCHANGED phase
     ELSE /\ j' = 0
          /\ phase' = "bss"
          /\ UNCHANGED memory
  /\ UNCHANGED <<given, tables, pointers, entry>>

(* A round of the loop that copies, or the start of the next, at p_filesz  *)
(* as it is read then.                                                     *)
copy ==
  /\ phase = "copy"
  /\ HeadersRead
  /\ IF j < segment.filesz
     THEN /\ memory' = Write(dest + j, Read(src + j))
          /\ j' = j + 1
          /\ UNCHANGED phase
     ELSE /\ j' = segment.filesz
          /\ phase' = "bss"
          /\ UNCHANGED memory
  /\ UNCHANGED <<given, tables, pointers, entry>>

(* A round of the loop that clears, or the next header. *)
bss ==
  /\ phase = "bss"
  /\ HeadersRead
  /\ IF j < segment.memsz
     THEN /\ memory' = Write(dest + j, Zero)
          /\ j' = j + 1
          /\ UNCHANGED <<i, phase>>
     ELSE /\ i' = i + 1
          /\ phase' = "headers"
          /\ UNCHANGED <<memory, j>>
  /\ UNCHANGED <<given, tables, phdr, dest, src, entry>>

(* An entry point of 0 is taken for a failure. *)
elf_loaded ==
  /\ phase = "headers"
  /\ HeadersRead
  /\ i >= hdr.phnum
  /\ entry' = hdr.entry
  /\ phase' = IF entry' # 0 THEN "loaded" ELSE "failed"
  /\ UNCHANGED <<memory, given, tables, pointers, j>>

halted ==
  /\ phase \in {"missing", "failed", "loaded", "wild"}
  /\ UNCHANGED loader_vars

LoaderNext ==
  \/ init_paging \/ find_init \/ tar_read \/ elf_load
  \/ wild \/ next_header \/ copy \/ bss \/ elf_loaded \/ halted

LoaderSpec == LoaderInit /\ [][LoaderNext]_loader_vars

-----------------------------------------------------------------------------
(* What the file says, read off the file. *)
Size(h)    == IF h.memsz > h.filesz THEN h.memsz ELSE h.filesz
Target(h)  == h.vaddr .. h.vaddr + Size(h) - 1
Ehdr       == init[1]
Phdr(n)    == init[Ehdr.phoff + n]
Segments   == {n \in 1 .. Ehdr.phnum : Phdr(n).load}
Buffer     == STAGE .. STAGE + Len(init) - 1

(* Kernel and initrd leave room for the page tables below the buffer, and  *)
(* whatever reads as a header of the program has its place above all three. *)
Clear(c) == c >= STAGE \/ \A d \in Occupied : c > d + layout.tables
Roomy ==
  /\ \A c \in Occupied : c + layout.tables < STAGE
  /\ \A k \in 1 .. Len(init) : init[k].is = "phdr" /\ init[k].load =>
       \A c \in Target(init[k]) : Clear(c)

(* A segment the linker placed where its bytes lie in the buffer already,  *)
(* as it does with init's headers on i386.                                 *)
InPlace(h) ==
  /\ h.vaddr = STAGE + h.offset
  /\ h.memsz <= h.filesz

(* The files that are whole programs, for this machine and its memory. *)
IsProgram ==
  /\ init # <<>> /\ Ehdr.is = "ehdr" /\ Ehdr.native
  /\ Ehdr.phoff + Ehdr.phnum <= Len(init)
  /\ \A n \in 1 .. Ehdr.phnum : Phdr(n).is = "phdr"
  /\ \A n \in Segments : Phdr(n).offset + Phdr(n).filesz <= Len(init)
  /\ Buffer \subseteq Cell
  /\ \A n \in Segments : Target(Phdr(n)) \subseteq Cell

(* Of these, the programs this loader can be given: segments that neither  *)
(* overlap nor reach into the buffer, except in place.                     *)
Loadable ==
  /\ IsProgram
  /\ \A n \in Segments : InPlace(Phdr(n)) \/ Target(Phdr(n)) \cap Buffer = {}
  /\ \A n, m \in Segments : n # m => Target(Phdr(n)) \cap Target(Phdr(m)) = {}

(* The cell of the file that belongs at offset k of a segment, or zero. *)
Content(h, k) == IF k < h.filesz THEN init[h.offset + k + 1] ELSE Zero

(* When elf_load returns, the program is in memory as its headers describe *)
(* it: every segment's bytes from the file, then zeros up to its size in   *)
(* memory.  The headers were read while they could have been overwritten.  *)
LoadedExactly ==
  Roomy /\ Loadable /\ phase \in {"loaded", "failed", "wild"} =>
    /\ phase = IF Ehdr.entry # 0 THEN "loaded" ELSE "failed"
    /\ entry = Ehdr.entry
    /\ \A n \in Segments : \A k \in 0 .. Size(Phdr(n)) - 1 :
         memory[Phdr(n).vaddr + k] = Content(Phdr(n), k)

(* As long as headers are read as headers, and there is room, nothing the  *)
(* kernel needs is overwritten: its image, the page tables in use while    *)
(* the copying goes on, and the initrd it has mounted.                     *)
BootDataKept ==
  Roomy =>
    /\ \A c \in 0 .. layout.kernel - 1 : memory[c] = Kernel
    /\ \A c \in tables : memory[c] = PageTable
    /\ memory[layout.initrd] = Archive
    /\ \A k \in 1 .. Len(init) : memory[layout.initrd + k] = init[k]
=============================================================================
