----------------------------- MODULE FilesProofs -----------------------------
(***************************************************************************)
(* Theorems about three parts of the kernel through which the shell gets   *)
(* at files.  Of Loader: for memory of every size, every place of kernel   *)
(* and initrd and every file, what loading init may overwrite, and that a  *)
(* program which can be loaded is.  Of Vfs: for a mount table of every     *)
(* size, every set of paths and every file system.  Of Listing: for every  *)
(* size of the buffer, every layout of a record and every directory.       *)
(***************************************************************************)
EXTENDS Loader, Vfs, Listing, FiniteSetTheorems, SequenceTheorems,
        WellFoundedInduction, TLAPS

(***************************************************************************)
(* Loader.                                                                 *)
(***************************************************************************)
(* What can be in a cell. *)
Contents == Ehdrs \cup Phdrs \cup Data \cup {Kernel, PageTable, Archive, Unused, Zero}

(* Every program header in memory is one of the file's. *)
FromFile ==
  \A c \in Cell : memory[c].is = "phdr" => \E k \in 1 .. Len(init) : memory[c] = init[k]

(* The tables lie below the buffer, close enough behind what is occupied. *)
TablePlaced(t) ==
  /\ t \in Cell /\ t \notin Occupied /\ t < STAGE
  /\ \E d \in Occupied : t <= d + layout.tables

(* A segment that is being copied or cleared lies where there is room:     *)
(* its header says so, as long as it is still read.                        *)
CopyClear ==
  phase \in {"copy", "bss"} =>
    /\ dest \in Nat
    /\ Clear(dest) \/ (segment.is = "phdr" /\ segment.load /\ segment.vaddr = dest)

(* What holds of kernel, initrd and tables whatever file init is. *)
BootInv ==
  /\ layout \in Layouts /\ init \in Programs
  /\ memory \in [Cell -> Contents]
  /\ j \in Nat
  /\ Roomy => BootDataKept /\ (\A t \in tables : TablePlaced(t)) /\ FromFile /\ CopyClear

(* How far tar_read has filled the buffer and elf_load a segment. *)
BufferFilled(n)     == \A k \in 0 .. n - 1 : memory[STAGE + k] = init[k + 1]
SegmentFilled(h, n) == \A k \in 0 .. n - 1 : memory[h.vaddr + k] = Content(h, k)
SegmentsFilled(n) ==
  \A m \in Segments : m <= n => SegmentFilled(Phdr(m), Size(Phdr(m)))

(* Where kmain and elf_load are with a program that can be loaded.  The    *)
(* buffer holds the file through all the copying, so the headers read in   *)
(* each round are the file's.                                              *)
LoadInv ==
  /\ phase \in {"init_paging", "find", "tar_read", "elf_load",
                "headers", "copy", "bss", "loaded", "failed"}
  /\ phase \in {"init_paging", "find", "tar_read", "elf_load"} => i = 0
  /\ phase \in {"init_paging", "find", "elf_load"} => j = 0
  /\ phase = "tar_read" => j <= Len(init) /\ BufferFilled(j)
  /\ phase \in {"elf_load", "headers", "copy", "bss", "loaded", "failed"} =>
       BufferFilled(Len(init))
  /\ phase \in {"headers", "copy", "bss"} =>
       phdr = STAGE + Ehdr.phoff /\ i \in 0 .. Ehdr.phnum /\ SegmentsFilled(i)
  /\ phase \in {"copy", "bss"} =>
       /\ i + 1 \in Segments
       /\ dest = Phdr(i + 1).vaddr /\ src = STAGE + Phdr(i + 1).offset
       /\ j <= Size(Phdr(i + 1)) /\ SegmentFilled(Phdr(i + 1), j)
  /\ phase = "copy" => j <= Phdr(i + 1).filesz
  /\ phase = "bss" => Phdr(i + 1).filesz <= j
  /\ phase \in {"loaded", "failed"} =>
       /\ SegmentsFilled(Ehdr.phnum)
       /\ entry = Ehdr.entry
       /\ phase = IF Ehdr.entry # 0 THEN "loaded" ELSE "failed"

LoaderIInv == BootInv /\ (Roomy /\ Loadable => LoadInv)

-----------------------------------------------------------------------------
(* What a write leaves. *)
LEMMA WriteChanges ==
  ASSUME memory \in [Cell -> Contents], NEW c \in Int, NEW v \in Contents,
         memory' = Write(c, v)
  PROVE  /\ memory' \in [Cell -> Contents]
         /\ \A x \in Cell : memory'[x] = IF x = c THEN v ELSE memory[x]
  BY DEF Write, Cell

LEMMA ReadTyped ==
  ASSUME memory \in [Cell -> Contents], NEW c
  PROVE  Read(c) \in Contents
  BY DEF Read, Contents

LEMMA FileTyped ==
  ASSUME init \in Programs
  PROVE  /\ Len(init) \in Nat
         /\ \A k \in 1 .. Len(init) : init[k] \in Ehdrs \cup Phdrs \cup Data
  BY LoaderAssumption

LEMMA LayoutTyped ==
  ASSUME layout \in Layouts
  PROVE  /\ layout.kernel \in Nat /\ layout.initrd \in Nat /\ layout.tables \in Nat
         /\ layout.kernel <= layout.initrd
  BY LoaderAssumption DEF Layout

(* The end of kernel and initrd. *)
Top == layout.initrd + Len(init)

LEMMA TopIsLast ==
  ASSUME layout \in Layouts, init \in Programs
  PROVE  /\ Top \in Nat /\ Top \in Occupied
         /\ Occupied \subseteq 0 .. Top
  BY LayoutTyped, FileTyped DEF Top, Occupied, Initrd

(* As many free pages as there are tables lie within that many pages of    *)
(* the end of kernel and initrd.                                           *)
LEMMA TablesPlaced ==
  ASSUME layout \in Layouts, init \in Programs, Roomy,
         NEW t \in LowestFree(layout.tables)
  PROVE  TablePlaced(t)
<1> DEFINE below == {d \in Cell \ Occupied : d < t}
           gap   == Top + 1 .. t - 1
<1>1. /\ t \in Cell /\ t \in Int /\ t \notin Occupied
      /\ Cardinality(below) < layout.tables
  BY DEF LowestFree, Cell
<1>2. t <= Top + layout.tables
  <2> SUFFICES ASSUME t > Top + layout.tables PROVE FALSE
    BY <1>1, TopIsLast, LayoutTyped
  <2>1. gap \subseteq below
    BY <1>1, TopIsLast, LoaderAssumption DEF Cell
  <2>2. IsFiniteSet(below)
    <3>1. IsFiniteSet(Cell)
      BY FS_Interval, LoaderAssumption DEF Cell
    <3>2. below \subseteq Cell
      OBVIOUS
    <3>3. QED
      BY <3>1, <3>2, FS_Subset
  <2>3. Cardinality(gap) <= Cardinality(below)
    BY <2>1, <2>2, FS_Subset
  <2>4. Cardinality(gap) = t - 1 - Top
    <3>1. Top + 1 \in Int /\ t - 1 \in Int /\ ~ Top + 1 > t
      BY <1>1, TopIsLast, LayoutTyped
    <3>2. Cardinality(gap) = IF Top + 1 > t - 1 THEN 0 ELSE (t - 1) - (Top + 1) + 1
      BY <3>1, FS_Interval
    <3>3. QED
      BY <1>1, <3>1, <3>2, TopIsLast
  <2>5. Cardinality(below) \in Nat
    BY <2>2, FS_CardinalityType
  <2> HIDE DEF below, gap
  <2>6. QED
    BY <1>1, <2>3, <2>4, <2>5, TopIsLast, LayoutTyped
<1>3. t < STAGE
  BY <1>1, <1>2, TopIsLast, LayoutTyped, LoaderAssumption DEF Roomy
<1>4. QED
  BY <1>1, <1>2, <1>3, TopIsLast DEF TablePlaced

(* Where it is clear, nothing the kernel needs is, nor is it further up. *)
LEMMA ClearIsFree ==
  ASSUME BootInv, Roomy, NEW c \in Int, NEW x \in Nat, Clear(c)
  PROVE  c + x \notin Occupied /\ c + x \notin tables /\ Clear(c + x)
<1>1. Occupied \subseteq Nat /\ layout.tables \in Nat /\ STAGE \in Nat
  BY LayoutTyped, FileTyped, LoaderAssumption DEF BootInv, Occupied, Initrd
<1>2. \A d \in Occupied : d < STAGE
  <2>1. \A d \in Occupied : d + layout.tables < STAGE
    BY DEF Roomy
  <2>2. QED
    BY <1>1, <2>1
<1>3. Clear(c + x)
  BY <1>1 DEF Clear
<1>4. \A t \in tables : TablePlaced(t)
  BY DEF BootInv
<1>5. c + x \notin Occupied
  BY <1>1, <1>2 DEF Clear
<1>6. c + x \notin tables
  BY <1>1, <1>4 DEF Clear, TablePlaced
<1>7. QED
  BY <1>3, <1>5, <1>6

-----------------------------------------------------------------------------
(* The memory map does not change. *)
LEMMA SameMap ==
  ASSUME UNCHANGED given
  PROVE  /\ layout' = layout /\ init' = init
         /\ Roomy' <=> Roomy
         /\ Loadable' <=> Loadable
         /\ Occupied' = Occupied
<1>1. layout' = layout /\ init' = init
  BY DEF given
<1>2. Occupied' = Occupied
  BY <1>1 DEF Occupied, Initrd
<1>3. Roomy' <=> Roomy
  BY <1>1, <1>2 DEF Roomy, Clear, Target, Size
<1>4. Loadable' <=> Loadable
  BY <1>1 DEF Loadable, IsProgram, Segments, Buffer, Ehdr, Phdr, InPlace, Target, Size
<1>5. QED
  BY <1>1, <1>2, <1>3, <1>4

(* What kernel, tables and initrd rest on, without what elf_load is doing. *)
BootKept == BootDataKept /\ (\A t \in tables : TablePlaced(t)) /\ FromFile

LEMMA ReadFromFile ==
  ASSUME BootInv, Roomy, NEW c, Read(c).is = "phdr"
  PROVE  /\ Read(c) \in Phdrs
         /\ \E k \in 1 .. Len(init) : Read(c) = init[k]
<1>1. c \in Cell /\ Read(c) = memory[c]
  BY DEF Read, Unused
<1>2. PICK k \in 1 .. Len(init) : memory[c] = init[k]
  BY <1>1 DEF BootInv, FromFile
<1>3. init[k] \in Ehdrs \cup Phdrs \cup Data
  BY FileTyped DEF BootInv
<1>4. init[k] \in Phdrs
  BY <1>1, <1>2, <1>3 DEF Ehdrs, Data
<1>5. QED
  BY <1>1, <1>2, <1>4

(* A write to a cell that nothing needs. *)
LEMMA WriteKeeps ==
  ASSUME BootInv, Roomy, UNCHANGED <<given, tables>>,
         NEW c \in Int, c \notin Occupied, c \notin tables,
         NEW v \in Contents, memory' = Write(c, v),
         v.is = "phdr" => \E k \in 1 .. Len(init) : v = init[k]
  PROVE  BootKept'
<1>1. memory' \in [Cell -> Contents]
      /\ \A x \in Cell : memory'[x] = IF x = c THEN v ELSE memory[x]
  BY WriteChanges DEF BootInv
<1>2. layout' = layout /\ init' = init /\ Occupied' = Occupied /\ tables' = tables
  BY SameMap
<1>3. Occupied \subseteq Cell
  <2>1. \A d \in Occupied : d + layout.tables < STAGE
    BY DEF Roomy
  <2>2. Occupied \subseteq Nat /\ layout.tables \in Nat /\ STAGE \in Nat /\ MEM \in Nat /\ STAGE < MEM
    BY LayoutTyped, FileTyped, LoaderAssumption DEF BootInv, Occupied, Initrd
  <2>3. QED
    BY <2>1, <2>2 DEF Cell
<1>4. \A x \in Occupied \cup tables : memory'[x] = memory[x]
  BY <1>1, <1>3 DEF BootInv, TablePlaced
<1>5. BootDataKept'
  <2>1. /\ \A x \in 0 .. layout.kernel - 1 : memory[x] = Kernel /\ x \in Occupied
        /\ \A x \in tables : memory[x] = PageTable
    BY DEF BootInv, BootDataKept, Occupied
  <2>2. layout.initrd \in Occupied /\ memory[layout.initrd] = Archive
    BY LayoutTyped, FileTyped DEF BootInv, BootDataKept, Occupied, Initrd
  <2>3. \A k \in 1 .. Len(init) :
          layout.initrd + k \in Occupied /\ memory[layout.initrd + k] = init[k]
    BY LayoutTyped, FileTyped DEF BootInv, BootDataKept, Occupied, Initrd
  <2>4. QED
    BY <1>2, <1>4, <2>1, <2>2, <2>3 DEF BootDataKept
<1>6. \A t \in tables' : TablePlaced(t)'
  BY <1>2 DEF BootInv, TablePlaced
<1>7. FromFile'
  BY <1>1, <1>2 DEF BootInv, FromFile
<1>8. QED
  BY <1>5, <1>6, <1>7 DEF BootKept

(* A step that writes nothing. *)
LEMMA StillKept ==
  ASSUME BootInv, Roomy, UNCHANGED <<memory, given, tables>>
  PROVE  BootKept'
<1>1. layout' = layout /\ init' = init /\ Occupied' = Occupied
      /\ tables' = tables /\ memory' = memory
  BY SameMap
<1>2. BootKept
  BY DEF BootInv, BootKept
<1>3. QED
  BY <1>1, <1>2, SameMap DEF BootKept, BootDataKept, TablePlaced, FromFile

-----------------------------------------------------------------------------
LEMMA InitBoot ==
  ASSUME LoaderInit
  PROVE  BootInv
<1>1. layout \in Layouts /\ init \in Programs /\ j \in Nat
  BY DEF LoaderInit
<1>2. \A c \in Cell : c \in Initrd /\ c # layout.initrd =>
        c - layout.initrd \in 1 .. Len(init)
  BY <1>1, LayoutTyped, FileTyped DEF Initrd, Cell
<1>3. memory \in [Cell -> Contents]
  BY <1>1, <1>2, FileTyped DEF LoaderInit, Contents
<1>4. FromFile
  BY <1>2 DEF FromFile, LoaderInit, Kernel, Archive, Unused
<1>5. Roomy => BootDataKept
  <2> SUFFICES ASSUME Roomy PROVE BootDataKept
    OBVIOUS
  <2>1. \A d \in Occupied : d \in Cell
    <3>1. \A d \in Occupied : d + layout.tables < STAGE
      BY DEF Roomy
    <3>2. Occupied \subseteq Nat /\ layout.tables \in Nat /\ STAGE \in Nat /\ MEM \in Nat /\ STAGE < MEM
      BY <1>1, LayoutTyped, FileTyped, LoaderAssumption DEF Occupied, Initrd
    <3>3. QED
      BY <3>1, <3>2 DEF Cell
  <2>2. \A c \in 0 .. layout.kernel - 1 : c \in Occupied
    BY DEF Occupied
  <2>3. \A k \in 0 .. Len(init) :
          layout.initrd + k \in Initrd /\ layout.initrd + k \in Occupied
    BY <1>1, LayoutTyped, FileTyped DEF Initrd, Occupied
  <2>4. \A k \in 0 .. Len(init) : ~ layout.initrd + k < layout.kernel
    BY <1>1, LayoutTyped, FileTyped
  <2>5. \A c \in 0 .. layout.kernel - 1 : memory[c] = Kernel
    BY <1>1, LayoutTyped, <2>1, <2>2 DEF LoaderInit
  <2>6. memory[layout.initrd] = Archive
    BY <1>1, LayoutTyped, FileTyped, <2>1, <2>3, <2>4 DEF LoaderInit
  <2>7. \A k \in 1 .. Len(init) : memory[layout.initrd + k] = init[k]
    BY <1>1, LayoutTyped, FileTyped, <2>1, <2>3, <2>4 DEF LoaderInit
  <2>8. tables = {}
    BY DEF LoaderInit
  <2>9. QED
    BY <2>5, <2>6, <2>7, <2>8 DEF BootDataKept
<1>6. tables = {} /\ phase \notin {"copy", "bss"}
  BY DEF LoaderInit
<1>7. QED
  BY <1>1, <1>3, <1>4, <1>5, <1>6 DEF BootInv, CopyClear

-----------------------------------------------------------------------------
LEMMA BootAgain ==
  ASSUME BootInv, UNCHANGED given, memory' \in [Cell -> Contents], j' \in Nat,
         Roomy => BootKept' /\ CopyClear'
  PROVE  BootInv'
<1>1. layout' = layout /\ init' = init /\ (Roomy' <=> Roomy)
  BY SameMap
<1>2. Roomy' => BootDataKept' /\ (\A t \in tables' : TablePlaced(t)') /\ FromFile' /\ CopyClear'
  BY <1>1 DEF BootKept
<1>3. layout' \in Layouts /\ init' \in Programs
  BY <1>1 DEF BootInv
<1>4. QED
  BY <1>2, <1>3 DEF BootInv

LEMMA BootPaging == BootInv /\ init_paging => BootInv'
<1> SUFFICES ASSUME BootInv, init_paging PROVE BootInv'
  OBVIOUS
<1> DEFINE new == LowestFree(layout.tables)
<1>1. /\ UNCHANGED given /\ j' = j /\ phase' = "find" /\ tables' = new
      /\ memory' = [c \in Cell |-> IF c \in new THEN PageTable ELSE memory[c]]
  BY DEF init_paging
<1>2. memory' \in [Cell -> Contents]
  BY <1>1 DEF BootInv, Contents
<1>3. layout' = layout /\ init' = init /\ Occupied' = Occupied
  BY <1>1, SameMap
<1>4. ASSUME Roomy PROVE BootKept'
  <2>1. \A t \in new : TablePlaced(t)
    BY <1>4, TablesPlaced DEF BootInv
  <2>2. \A t \in new : TablePlaced(t)'
    BY <1>3, <2>1 DEF TablePlaced
  <2>3. \A c \in Occupied : c \in Cell /\ memory'[c] = memory[c]
    <3>1. \A d \in Occupied : d + layout.tables < STAGE
      BY <1>4 DEF Roomy
    <3>2. Occupied \subseteq Nat /\ layout.tables \in Nat /\ STAGE \in Nat /\ MEM \in Nat /\ STAGE < MEM
      BY LayoutTyped, FileTyped, LoaderAssumption DEF BootInv, Occupied, Initrd
    <3>3. Occupied \subseteq Cell
      BY <3>1, <3>2 DEF Cell
    <3>4. QED
      BY <1>1, <2>1, <3>3 DEF TablePlaced
  <2>4. BootDataKept'
    <3>1. BootDataKept
      BY <1>4 DEF BootInv
    <3>2. \A c \in 0 .. layout.kernel - 1 : memory'[c] = Kernel
      BY <1>4, <2>3, <3>1 DEF BootDataKept, Occupied
    <3>3. \A k \in 0 .. Len(init) : layout.initrd + k \in Occupied
      BY LayoutTyped, FileTyped DEF BootInv, Occupied, Initrd
    <3>4. memory'[layout.initrd] = Archive
      BY <1>4, <2>3, <3>1, <3>3, LayoutTyped, FileTyped DEF BootInv, BootDataKept
    <3>5. \A k \in 1 .. Len(init) : memory'[layout.initrd + k] = init[k]
      BY <1>4, <2>3, <3>1, <3>3, LayoutTyped, FileTyped DEF BootInv, BootDataKept
    <3>6. \A c \in tables' : memory'[c] = PageTable
      BY <1>1, <2>1 DEF TablePlaced
    <3>7. QED
      BY <1>3, <3>2, <3>4, <3>5, <3>6 DEF BootDataKept
  <2>5. FromFile'
    BY <1>1, <1>3, <1>4 DEF BootInv, FromFile, PageTable
  <2>6. QED
    BY <1>1, <2>2, <2>4, <2>5 DEF BootKept
<1>5. CopyClear'
  BY <1>1 DEF CopyClear
<1>6. QED
  BY <1>1, <1>2, <1>4, <1>5, BootAgain DEF BootInv

LEMMA BootTarRead == BootInv /\ tar_read => BootInv'
<1> SUFFICES ASSUME BootInv, tar_read PROVE BootInv'
  OBVIOUS
<1>1. /\ UNCHANGED <<given, tables>> /\ phase' \notin {"copy", "bss"} /\ j' \in Nat
      /\ \/ memory' = memory
         \/ memory' = Write(STAGE + j, Read(Address + j))
  BY DEF tar_read, elf_buffer, BootInv
<1>2. CopyClear'
  BY <1>1 DEF CopyClear
<1>3. STAGE + j \in Int /\ Read(Address + j) \in Contents
  BY LoaderAssumption, ReadTyped DEF BootInv
<1>4. memory' \in [Cell -> Contents]
  BY <1>1, <1>3, WriteChanges DEF BootInv
<1>5. ASSUME Roomy PROVE BootKept'
  <2>1. CASE memory' = memory
    BY <1>1, <1>5, <2>1, StillKept
  <2>2. CASE memory' = Write(STAGE + j, Read(Address + j))
    <3>1. Clear(STAGE)
      BY LoaderAssumption DEF Clear
    <3>2. STAGE + j \notin Occupied /\ STAGE + j \notin tables
      <4>1. STAGE \in Int /\ j \in Nat
        BY LoaderAssumption DEF BootInv
      <4>2. QED
        BY <1>5, <3>1, <4>1, ClearIsFree
    <3>3. Read(Address + j).is = "phdr" =>
            \E k \in 1 .. Len(init) : Read(Address + j) = init[k]
      BY <1>5, ReadFromFile
    <3>4. QED
      BY <1>1, <1>3, <1>5, <2>2, <3>2, <3>3, WriteKeeps
  <2>3. QED
    BY <1>1, <2>1, <2>2
<1>6. QED
  BY <1>1, <1>2, <1>4, <1>5, BootAgain

LEMMA BootNextHeader == BootInv /\ next_header => BootInv'
<1> SUFFICES ASSUME BootInv, next_header PROVE BootInv'
  OBVIOUS
<1>1. /\ UNCHANGED <<memory, given, tables>> /\ j' = 0 /\ j' \in Nat
      /\ segment.is = "phdr"
  BY DEF next_header, HeadersRead
<1>2. ASSUME Roomy PROVE CopyClear'
  <2>1. CASE segment.load
    <3>1. dest' = segment.vaddr /\ segment' = segment
      BY <1>1, <2>1 DEF next_header, segment, Read
    <3>2. segment \in Phdrs
      BY <1>1, <1>2, ReadFromFile DEF segment
    <3>3. dest' \in Nat
      BY <3>1, <3>2 DEF Phdrs
    <3>4. QED
      BY <1>1, <2>1, <3>1, <3>3 DEF CopyClear
  <2>2. CASE ~ segment.load
    BY <2>2 DEF next_header, CopyClear
  <2>3. QED
    BY <2>1, <2>2
<1>3. memory' \in [Cell -> Contents]
  BY <1>1 DEF BootInv
<1>4. QED
  BY <1>1, <1>2, <1>3, StillKept, BootAgain

(* A round of either loop. *)
LEMMA BootWrites ==
  ASSUME BootInv, phase \in {"copy", "bss"}, phase' = phase, UNCHANGED <<given, tables>>,
         dest' = dest, j' = j + 1, segment.is = "phdr",
         j < segment.filesz \/ j < segment.memsz,
         NEW v \in Contents, memory' = Write(dest + j, v),
         Roomy /\ v.is = "phdr" => \E k \in 1 .. Len(init) : v = init[k]
  PROVE  BootInv'
<1>1. j \in Nat /\ j' \in Nat
  BY DEF BootInv
<1>2. ASSUME Roomy PROVE dest \in Nat /\ Clear(dest)
  <2>1. dest \in Nat /\ (Clear(dest) \/ (segment.is = "phdr" /\ segment.load /\ segment.vaddr = dest))
    BY <1>2 DEF BootInv, CopyClear
  <2>2. CASE segment.is = "phdr" /\ segment.load /\ segment.vaddr = dest
    <3>1. segment \in Phdrs /\ \E k \in 1 .. Len(init) : segment = init[k]
      BY <1>2, <2>2, ReadFromFile DEF segment
    <3>2. dest \in Target(segment)
      BY <1>1, <2>1, <2>2, <3>1 DEF Target, Size, Phdrs
    <3>3. QED
      BY <1>2, <2>1, <2>2, <3>1, <3>2 DEF Roomy
  <2>3. QED
    BY <2>1, <2>2
<1>3. memory' \in [Cell -> Contents]
  BY DEF Write, BootInv, Cell
<1>4. ASSUME Roomy PROVE BootKept'
  <2>1. dest + j \in Int /\ dest + j \notin Occupied /\ dest + j \notin tables
    BY <1>1, <1>2, <1>4, ClearIsFree
  <2>2. QED
    BY <1>4, <2>1, WriteKeeps
<1>5. ASSUME Roomy PROVE CopyClear'
  <2>1. Clear(dest)'
    BY <1>2, <1>5, SameMap DEF Clear
  <2>2. QED
    BY <1>2, <1>5, <2>1 DEF CopyClear
<1>6. QED
  BY <1>1, <1>3, <1>4, <1>5, BootAgain

LEMMA BootCopy == BootInv /\ copy => BootInv'
<1> SUFFICES ASSUME BootInv, copy PROVE BootInv'
  OBVIOUS
<1>1. /\ UNCHANGED <<given, tables>> /\ phase = "copy" /\ segment.is = "phdr"
      /\ dest' = dest /\ phdr' = phdr /\ i' = i
  BY DEF copy, HeadersRead, pointers
<1>2. CASE j < segment.filesz
  <2> DEFINE v == Read(src + j)
  <2>1. memory' = Write(dest + j, v) /\ j' = j + 1 /\ phase' = phase
    BY <1>2 DEF copy
  <2>2. v \in Contents
    BY ReadTyped DEF BootInv
  <2>3. Roomy /\ v.is = "phdr" => \E k \in 1 .. Len(init) : v = init[k]
    BY ReadFromFile
  <2> HIDE DEF v
  <2>4. QED
    BY <1>1, <1>2, <2>1, <2>2, <2>3, BootWrites
<1>3. CASE ~ j < segment.filesz
  <2>1. memory' = memory /\ j' = segment.filesz /\ phase' = "bss"
    BY <1>3 DEF copy
  <2>2. segment' = segment
    BY <1>1, <2>1 DEF segment, Read
  <2>3. segment \in Phdrs
    <3>1. segment \in Contents
      BY ReadTyped DEF segment, BootInv
    <3>2. QED
      BY <1>1, <3>1 DEF Contents, Ehdrs, Data, Kernel, PageTable, Archive, Unused, Zero
  <2>4. memory' \in [Cell -> Contents] /\ j' \in Nat
    BY <2>1, <2>3 DEF BootInv, Phdrs
  <2>5. ASSUME Roomy PROVE CopyClear'
    <3>1. Clear(dest)' <=> Clear(dest)
      BY <1>1, SameMap DEF Clear
    <3>2. CopyClear
      BY <2>5 DEF BootInv
    <3>3. QED
      BY <1>1, <2>1, <2>2, <3>1, <3>2 DEF CopyClear
  <2>6. QED
    BY <1>1, <2>1, <2>4, <2>5, StillKept, BootAgain
<1>4. QED
  BY <1>2, <1>3

LEMMA BootBss == BootInv /\ bss => BootInv'
<1> SUFFICES ASSUME BootInv, bss PROVE BootInv'
  OBVIOUS
<1>1. UNCHANGED <<given, tables>> /\ phase = "bss" /\ segment.is = "phdr" /\ dest' = dest
  BY DEF bss, HeadersRead
<1>2. CASE j < segment.memsz
  <2>1. memory' = Write(dest + j, Zero) /\ j' = j + 1 /\ phase' = phase
    BY <1>2 DEF bss
  <2>2. Zero \in Contents /\ Zero.is # "phdr"
    BY DEF Contents, Zero
  <2>3. QED
    BY <1>1, <1>2, <2>1, <2>2, BootWrites
<1>3. CASE ~ j < segment.memsz
  <2>1. UNCHANGED <<memory, given, tables>> /\ phase' = "headers" /\ j' = j
    BY <1>3 DEF bss
  <2>2. CopyClear'
    BY <2>1 DEF CopyClear
  <2>3. memory' \in [Cell -> Contents] /\ j' \in Nat
    BY <2>1 DEF BootInv
  <2>4. QED
    BY <2>1, <2>2, <2>3, StillKept, BootAgain
<1>4. QED
  BY <1>2, <1>3

(* The steps that only look. *)
LEMMA BootLook ==
  BootInv /\ (find_init \/ elf_load \/ wild \/ elf_loaded \/ UNCHANGED loader_vars) => BootInv'
<1> SUFFICES ASSUME BootInv, find_init \/ elf_load \/ wild \/ elf_loaded \/ UNCHANGED loader_vars
             PROVE  BootInv'
  OBVIOUS
<1>1. UNCHANGED <<memory, given, tables, j>>
  BY DEF find_init, elf_load, wild, elf_loaded, loader_vars
<1>2. memory' \in [Cell -> Contents] /\ j' \in Nat
  BY <1>1 DEF BootInv
<1>3. ASSUME Roomy PROVE CopyClear'
  <2>1. CASE UNCHANGED loader_vars
    <3>1. Clear(dest)' <=> Clear(dest)
      BY <1>1, <2>1, SameMap DEF Clear, loader_vars, pointers
    <3>2. segment' = segment
      BY <2>1 DEF loader_vars, pointers, segment, Read
    <3>3. CopyClear
      BY <1>3 DEF BootInv
    <3>4. QED
      BY <2>1, <3>1, <3>2, <3>3 DEF CopyClear, loader_vars, pointers
  <2>2. CASE find_init \/ elf_load \/ wild \/ elf_loaded
    BY <2>2 DEF find_init, elf_load, wild, elf_loaded, CopyClear
  <2>3. QED
    BY <2>1, <2>2
<1>4. QED
  BY <1>1, <1>2, <1>3, StillKept, BootAgain

LEMMA BootNext == BootInv /\ [LoaderNext]_loader_vars => BootInv'
  BY BootPaging, BootTarRead, BootNextHeader, BootCopy, BootBss, BootLook DEF LoaderNext, halted

-----------------------------------------------------------------------------
(* The headers of a program that can be loaded, as elf_load takes them. *)
LEMMA ProgramTyped ==
  ASSUME init \in Programs, Loadable
  PROVE  /\ Len(init) \in Nat /\ 1 <= Len(init)
         /\ Ehdr \in Ehdrs /\ Ehdr.phoff \in Nat /\ Ehdr.phnum \in Nat /\ Ehdr.entry \in Nat
         /\ Ehdr.phoff + Ehdr.phnum <= Len(init)
<1>1. Len(init) \in Nat /\ init # <<>>
  BY FileTyped DEF Loadable, IsProgram
<1>2. 1 <= Len(init)
  <2>1. init \in Seq(Ehdrs \cup Phdrs \cup Data)
    BY LoaderAssumption
  <2>2. QED
    BY <1>1, <2>1
<1>3. Ehdr \in Ehdrs
  BY <1>1, <1>2, FileTyped DEF Loadable, IsProgram, Ehdr, Phdrs, Data
<1>4. QED
  BY <1>1, <1>2, <1>3 DEF Loadable, IsProgram, Ehdrs

LEMMA HeaderTyped ==
  ASSUME init \in Programs, Loadable, NEW n \in 1 .. Ehdr.phnum
  PROVE  Phdr(n) \in Phdrs
<1>1. Ehdr.phoff + n \in 1 .. Len(init)
  BY ProgramTyped
<1>2. Phdr(n) \in Ehdrs \cup Phdrs \cup Data /\ Phdr(n).is = "phdr"
  BY <1>1, FileTyped DEF Phdr, Loadable, IsProgram
<1>3. QED
  BY <1>2 DEF Ehdrs, Data

LEMMA SegmentTyped ==
  ASSUME init \in Programs, Loadable, NEW n \in Segments
  PROVE  /\ n \in 1 .. Ehdr.phnum /\ n \in Nat
         /\ Phdr(n).offset \in Nat /\ Phdr(n).vaddr \in Nat
         /\ Phdr(n).filesz \in Nat /\ Phdr(n).memsz \in Nat
         /\ Phdr(n).offset + Phdr(n).filesz <= Len(init)
         /\ Size(Phdr(n)) \in Nat
         /\ \A k \in Nat : k < Size(Phdr(n)) <=> k < Phdr(n).filesz \/ k < Phdr(n).memsz
         /\ \A k \in 0 .. Size(Phdr(n)) - 1 :
              /\ Phdr(n).vaddr + k \in Cell
              /\ Phdr(n).vaddr + k \in Target(Phdr(n))
<1>1. n \in 1 .. Ehdr.phnum /\ n \in Nat
  BY ProgramTyped DEF Segments
<1>2. /\ Phdr(n).offset \in Nat /\ Phdr(n).vaddr \in Nat
      /\ Phdr(n).filesz \in Nat /\ Phdr(n).memsz \in Nat
  BY <1>1, HeaderTyped DEF Phdrs
<1>3. Size(Phdr(n)) \in Nat
      /\ \A k \in Nat : k < Size(Phdr(n)) <=> k < Phdr(n).filesz \/ k < Phdr(n).memsz
  BY <1>2 DEF Size
<1>4. Phdr(n).offset + Phdr(n).filesz <= Len(init) /\ Target(Phdr(n)) \subseteq Cell
  BY DEF Loadable, IsProgram
<1>5. \A k \in 0 .. Size(Phdr(n)) - 1 : Phdr(n).vaddr + k \in Target(Phdr(n))
  BY <1>2, <1>3 DEF Target
<1>6. QED
  BY <1>1, <1>2, <1>3, <1>4, <1>5

(* With the file in the buffer, what is read there is the file. *)
LEMMA BufferIsRead ==
  ASSUME init \in Programs, Loadable, BufferFilled(Len(init)),
         NEW k \in 0 .. Len(init) - 1
  PROVE  /\ STAGE + k \in Cell /\ STAGE + k \in Buffer
         /\ Read(STAGE + k) = init[k + 1]
<1>1. STAGE + k \in Buffer
  BY ProgramTyped, LoaderAssumption DEF Buffer
<1>2. STAGE + k \in Cell
  BY <1>1 DEF Loadable, IsProgram
<1>3. QED
  BY <1>1, <1>2 DEF Read, BufferFilled

LEMMA HeadersAreRead ==
  ASSUME init \in Programs, Loadable, BufferFilled(Len(init))
  PROVE  /\ hdr = Ehdr /\ hdr.is = "ehdr" /\ hdr.native
         /\ phdr = STAGE + Ehdr.phoff => \A n \in 0 .. Ehdr.phnum - 1 : Read(phdr + n) = Phdr(n + 1)
<1>1. hdr = Ehdr
  <2>1. 0 \in 0 .. Len(init) - 1
    BY ProgramTyped
  <2>2. Read(STAGE + 0) = init[0 + 1]
    BY <2>1, BufferIsRead
  <2>3. QED
    BY <2>2, LoaderAssumption DEF hdr, Ehdr, elf_buffer
<1>2. ASSUME phdr = STAGE + Ehdr.phoff, NEW n \in 0 .. Ehdr.phnum - 1
      PROVE  Read(phdr + n) = Phdr(n + 1)
  <2>1. Ehdr.phoff + n \in 0 .. Len(init) - 1
    BY ProgramTyped
  <2>2. Read(STAGE + (Ehdr.phoff + n)) = init[(Ehdr.phoff + n) + 1]
    BY <2>1, BufferIsRead
  <2>3. STAGE + (Ehdr.phoff + n) = phdr + n /\ (Ehdr.phoff + n) + 1 = Ehdr.phoff + (n + 1)
    BY <1>2, ProgramTyped, LoaderAssumption
  <2>4. QED
    BY <2>2, <2>3 DEF Phdr
<1>3. Ehdr.is = "ehdr" /\ Ehdr.native
  BY DEF Loadable, IsProgram
<1>4. QED
  BY <1>1, <1>2, <1>3

LEMMA SegmentIsRead ==
  ASSUME init \in Programs, Loadable, LoadInv, phase \in {"headers", "copy", "bss"}
  PROVE  /\ hdr = Ehdr /\ i \in 0 .. Ehdr.phnum /\ Ehdr.phnum \in Nat
         /\ i < Ehdr.phnum => segment = Phdr(i + 1) /\ segment \in Phdrs /\ i + 1 \in 1 .. Ehdr.phnum
         /\ HeadersRead
<1>1. BufferFilled(Len(init)) /\ phdr = STAGE + Ehdr.phoff /\ i \in 0 .. Ehdr.phnum
  BY DEF LoadInv
<1>2. Ehdr.phnum \in Nat
  BY ProgramTyped
<1>3. hdr = Ehdr /\ hdr.is = "ehdr" /\ hdr.native
      /\ \A n \in 0 .. Ehdr.phnum - 1 : Read(phdr + n) = Phdr(n + 1)
  BY <1>1, HeadersAreRead
<1>4. ASSUME i < Ehdr.phnum
      PROVE  segment = Phdr(i + 1) /\ segment \in Phdrs /\ i + 1 \in 1 .. Ehdr.phnum
  BY <1>1, <1>2, <1>3, <1>4, HeaderTyped DEF segment
<1>5. ASSUME phase \in {"copy", "bss"} PROVE i < Ehdr.phnum
  <2>1. i + 1 \in Segments
    BY <1>5 DEF LoadInv
  <2>2. i + 1 \in 1 .. Ehdr.phnum
    BY <2>1, SegmentTyped
  <2>3. QED
    BY <1>1, <1>2, <2>2
<1>6. HeadersRead
  <2>1. i < Ehdr.phnum => segment.is = "phdr"
    BY <1>4 DEF Phdrs
  <2>2. QED
    BY <1>3, <1>5, <2>1 DEF HeadersRead
<1>7. QED
  BY <1>1, <1>2, <1>3, <1>4, <1>6

-----------------------------------------------------------------------------
(* The file does not change. *)
LEMMA SameFile ==
  ASSUME UNCHANGED given
  PROVE  /\ init' = init /\ Ehdr' = Ehdr /\ Segments' = Segments
         /\ \A n : Phdr(n)' = Phdr(n)
         /\ \A h, k : Content(h, k)' = Content(h, k)
  BY DEF given, Ehdr, Segments, Phdr, Content

(* A step that leaves memory alone leaves what is filled. *)
LEMMA SameFilled ==
  ASSUME UNCHANGED given, UNCHANGED memory
  PROVE  /\ \A n : BufferFilled(n)' <=> BufferFilled(n)
         /\ \A h, n : SegmentFilled(h, n)' <=> SegmentFilled(h, n)
         /\ \A n : SegmentsFilled(n)' <=> SegmentsFilled(n)
<1>1. \A n : BufferFilled(n)' <=> BufferFilled(n)
  BY SameFile DEF BufferFilled
<1>2. \A h, n : SegmentFilled(h, n)' <=> SegmentFilled(h, n)
  BY SameFile DEF SegmentFilled
<1>3. \A n : SegmentsFilled(n)' <=> SegmentsFilled(n)
  BY SameFile DEF SegmentsFilled, SegmentFilled
<1>4. QED
  BY <1>1, <1>2, <1>3

LEMMA InitLoad == LoaderInit => LoadInv
  BY DEF LoaderInit, LoadInv

LEMMA LoadPaging ==
  ASSUME LoadInv, init_paging
  PROVE  LoadInv'
  BY DEF LoadInv, init_paging, pointers

LEMMA LoadFind ==
  ASSUME Loadable, LoadInv, find_init, init \in Programs
  PROVE  LoadInv'
<1>1. phase = "find" /\ phase' = "tar_read" /\ i' = i /\ j' = j /\ init' = init
  BY DEF find_init, pointers, given, Loadable, IsProgram
<1>2. i = 0 /\ j = 0
  BY <1>1 DEF LoadInv
<1>3. Len(init) \in Nat
  BY ProgramTyped
<1>4. BufferFilled(j)'
  BY <1>1, <1>2 DEF BufferFilled
<1>5. QED
  BY <1>1, <1>2, <1>3, <1>4 DEF LoadInv

LEMMA LoadTarRead ==
  ASSUME BootInv, Roomy, Loadable, LoadInv, tar_read
  PROVE  LoadInv'
<1>1. phase = "tar_read" /\ UNCHANGED given /\ init' = init /\ i' = i /\ i = 0
  BY DEF tar_read, pointers, given, LoadInv
<1>2. j \in Nat /\ j <= Len(init) /\ BufferFilled(j) /\ Len(init) \in Nat /\ init \in Programs
  BY <1>1, ProgramTyped DEF LoadInv, BootInv
<1>3. CASE j < Len(init)
  <2>1. memory' = Write(STAGE + j, Read(Address + j)) /\ j' = j + 1 /\ phase' = phase
    BY <1>3 DEF tar_read, elf_buffer
  <2>2. Read(Address + j) = init[j + 1]
    <3>1. BootDataKept
      BY DEF BootInv
    <3>2. layout.initrd + (j + 1) = Address + j /\ j + 1 \in 1 .. Len(init) /\ Address + j \in Nat
      BY <1>2, <1>3, LayoutTyped DEF Address, BootInv
    <3>3. memory[layout.initrd + (j + 1)] = init[j + 1]
      BY <3>1, <3>2 DEF BootDataKept
    <3>4. Address + j \in Occupied
      BY <1>2, <1>3, LayoutTyped DEF Occupied, Initrd, Address, BootInv
    <3>5. Address + j + layout.tables < STAGE
      BY <3>4 DEF Roomy
    <3>6. Address + j \in Cell
      BY <3>2, <3>5, LayoutTyped, LoaderAssumption DEF Cell, BootInv
    <3>7. QED
      BY <3>2, <3>3, <3>6 DEF Read
  <2>3. Read(Address + j) \in Contents /\ STAGE + j \in Int /\ memory \in [Cell -> Contents]
    BY <1>2, ReadTyped, LoaderAssumption DEF BootInv
  <2>4. \A x \in Cell : memory'[x] = IF x = STAGE + j THEN init[j + 1] ELSE memory[x]
    BY <2>1, <2>2, <2>3, WriteChanges
  <2>5. \A k \in 0 .. j : STAGE + k \in Cell
    <3>1. \A k \in 0 .. j : STAGE + k \in Buffer
      BY <1>2, <1>3, LoaderAssumption DEF Buffer
    <3>2. QED
      BY <3>1 DEF Loadable, IsProgram
  <2>6. \A k \in 0 .. j : memory'[STAGE + k] = init[k + 1]
    <3>1. \A k \in 0 .. j - 1 : memory[STAGE + k] = init[k + 1]
      BY <1>2 DEF BufferFilled
    <3>2. \A k \in 0 .. j : k # j => k \in 0 .. j - 1 /\ STAGE + k # STAGE + j
      BY <1>2, LoaderAssumption
    <3>3. QED
      BY <2>4, <2>5, <3>1, <3>2
  <2>7. BufferFilled(j)'
    BY <1>1, <1>2, <2>1, <2>6 DEF BufferFilled
  <2>8. QED
    BY <1>1, <1>2, <1>3, <2>1, <2>7 DEF LoadInv
<1>4. CASE ~ j < Len(init)
  <2>1. phase' = "elf_load" /\ j' = 0 /\ memory' = memory
    BY <1>4 DEF tar_read
  <2>2. j = Len(init)
    BY <1>2, <1>4
  <2>3. BufferFilled(Len(init))'
    BY <1>1, <1>2, <2>1, <2>2 DEF BufferFilled
  <2>4. QED
    BY <1>1, <2>1, <2>3 DEF LoadInv
<1>5. QED
  BY <1>3, <1>4

LEMMA LoadElf ==
  ASSUME BootInv, Loadable, LoadInv, elf_load
  PROVE  LoadInv'
<1>1. phase = "elf_load" /\ UNCHANGED given /\ UNCHANGED <<memory, i, j, entry>>
  BY DEF elf_load
<1>2. BufferFilled(Len(init)) /\ i = 0 /\ j = 0
  BY <1>1 DEF LoadInv
<1>3. hdr = Ehdr /\ hdr.is = "ehdr" /\ hdr.native
  BY <1>2, HeadersAreRead DEF BootInv
<1>4. phase' = "headers" /\ phdr' = STAGE + Ehdr.phoff
  BY <1>1, <1>3 DEF elf_load, Accepted, elf_buffer
<1>5. BufferFilled(Len(init))' /\ init' = init /\ Ehdr' = Ehdr
  BY <1>1, <1>2, SameFile DEF BufferFilled
<1>6. SegmentsFilled(i)'
  <2>1. \A n \in Segments : ~ n <= 0
    BY ProgramTyped DEF Segments, BootInv
  <2>2. QED
    BY <1>1, <1>2, <2>1, SameFile DEF SegmentsFilled
<1>7. i' \in 0 .. Ehdr.phnum
  BY <1>1, <1>2, ProgramTyped DEF BootInv
<1>8. QED
  BY <1>4, <1>5, <1>6, <1>7 DEF LoadInv

LEMMA LoadNextHeader ==
  ASSUME BootInv, Loadable, LoadInv, next_header
  PROVE  LoadInv'
<1>1. /\ phase = "headers" /\ UNCHANGED given /\ UNCHANGED <<memory, phdr>>
      /\ i < hdr.phnum /\ j' = 0
  BY DEF next_header
<1>2. /\ hdr = Ehdr /\ i \in 0 .. Ehdr.phnum /\ Ehdr.phnum \in Nat
      /\ i < Ehdr.phnum => segment = Phdr(i + 1) /\ segment \in Phdrs /\ i + 1 \in 1 .. Ehdr.phnum
  BY <1>1, SegmentIsRead DEF BootInv
<1>3. segment = Phdr(i + 1) /\ segment \in Phdrs /\ i + 1 \in 1 .. Ehdr.phnum
  BY <1>1, <1>2
<1>4. BufferFilled(Len(init)) /\ phdr = STAGE + Ehdr.phoff /\ SegmentsFilled(i)
  BY <1>1 DEF LoadInv
<1>5. BufferFilled(Len(init))' /\ init' = init /\ Ehdr' = Ehdr /\ Segments' = Segments
      /\ phdr' = STAGE + Ehdr.phoff
  BY <1>1, <1>4, SameFile DEF BufferFilled
<1>6. CASE segment.load
  <2>1. /\ dest' = Phdr(i + 1).vaddr /\ src' = STAGE + Phdr(i + 1).offset
        /\ phase' = "copy" /\ i' = i
    BY <1>3, <1>6 DEF next_header, elf_buffer
  <2>2. i + 1 \in Segments
    BY <1>3, <1>6 DEF Segments
  <2>3. Size(Phdr(i + 1)) \in Nat /\ Phdr(i + 1).filesz \in Nat
    BY <2>2, SegmentTyped DEF BootInv
  <2>4. SegmentsFilled(i)'
    BY <1>1, <1>4, <2>1, SameFile DEF SegmentsFilled, SegmentFilled
  <2>5. SegmentFilled(Phdr(i + 1), j)'
    BY <1>1 DEF SegmentFilled
  <2>6. Phdr(i + 1)' = Phdr(i + 1)
    BY <1>1, <2>1 DEF Phdr, Ehdr, given
  <2>7. QED
    BY <1>1, <1>2, <1>5, <2>1, <2>2, <2>3, <2>4, <2>5, <2>6 DEF LoadInv
<1>7. CASE ~ segment.load
  <2>1. phase' = "headers" /\ i' = i + 1
    BY <1>1, <1>7 DEF next_header
  <2>2. i + 1 \notin Segments
    BY <1>3, <1>7 DEF Segments
  <2>3. \A n \in Segments : n <= i + 1 => n <= i
    BY <1>2, <2>2, ProgramTyped DEF Segments, BootInv
  <2>4. SegmentsFilled(i)'
    BY <1>1, <1>4, <2>1, <2>3, SameFile DEF SegmentsFilled, SegmentFilled
  <2>5. QED
    BY <1>1, <1>3, <1>5, <2>1, <2>4 DEF LoadInv
<1>8. QED
  BY <1>6, <1>7

(* A round of either loop puts what belongs there. *)
LEMMA LoadWrites ==
  ASSUME BootInv, Loadable, LoadInv, phase \in {"copy", "bss"}, phase' = phase, j' = j + 1,
         memory' = Write(dest + j, Content(Phdr(i + 1), j)),
         UNCHANGED <<given, phdr, i, dest, src>>,
         j < Size(Phdr(i + 1)), phase = "copy" => j < Phdr(i + 1).filesz
  PROVE  LoadInv'
<1> DEFINE n == i + 1
           c == Phdr(n).vaddr + j
<1>2. /\ BufferFilled(Len(init)) /\ phdr = STAGE + Ehdr.phoff /\ SegmentsFilled(i)
      /\ n \in Segments /\ dest = Phdr(n).vaddr /\ src = STAGE + Phdr(n).offset
      /\ SegmentFilled(Phdr(n), j) /\ (phase = "bss" => Phdr(n).filesz <= j)
  BY DEF LoadInv
<1>3. i \in 0 .. Ehdr.phnum /\ Ehdr.phnum \in Nat
  BY SegmentIsRead DEF BootInv
<1>4. /\ n \in 1 .. Ehdr.phnum
      /\ Phdr(n).offset \in Nat /\ Phdr(n).vaddr \in Nat
      /\ Phdr(n).filesz \in Nat /\ Phdr(n).memsz \in Nat
      /\ Phdr(n).offset + Phdr(n).filesz <= Len(init)
      /\ Size(Phdr(n)) \in Nat
      /\ \A k \in Nat : k < Size(Phdr(n)) <=> k < Phdr(n).filesz \/ k < Phdr(n).memsz
      /\ \A k \in 0 .. Size(Phdr(n)) - 1 :
           /\ Phdr(n).vaddr + k \in Cell
           /\ Phdr(n).vaddr + k \in Target(Phdr(n))
  BY <1>2, SegmentTyped DEF BootInv
<1>5. j \in Nat /\ j < Size(Phdr(n)) /\ j \in 0 .. Size(Phdr(n)) - 1
  BY <1>4 DEF BootInv
<1>6. c = dest + j /\ c \in Cell /\ c \in Target(Phdr(n)) /\ c \in Int
  BY <1>2, <1>4, <1>5
<1>7. Content(Phdr(n), j) \in Contents
  <2>1. j < Phdr(n).filesz => Phdr(n).offset + j + 1 \in 1 .. Len(init)
    <3>1. Len(init) \in Nat /\ Phdr(n).offset \in Nat /\ Phdr(n).filesz \in Nat /\ j \in Nat
      BY <1>4, <1>5, ProgramTyped DEF BootInv
    <3>2. Phdr(n).offset + Phdr(n).filesz <= Len(init)
      BY <1>4
    <3>3. QED
      BY <3>1, <3>2
  <2>2. QED
    BY <2>1, FileTyped DEF Content, Contents, BootInv
<1>8. \A x \in Cell : memory'[x] = IF x = c THEN Content(Phdr(n), j) ELSE memory[x]
  <2>1. memory \in [Cell -> Contents]
    BY DEF BootInv
  <2>2. memory' = Write(c, Content(Phdr(n), j))
    BY <1>6
  <2>3. QED
    BY <1>6, <1>7, <2>1, <2>2, WriteChanges
<1>9. \A k \in 0 .. Len(init) - 1 : memory'[STAGE + k] = init[k + 1]
  <2> TAKE k \in 0 .. Len(init) - 1
  <2>1. STAGE + k \in Cell /\ STAGE + k \in Buffer /\ memory[STAGE + k] = init[k + 1]
    BY <1>2, BufferIsRead DEF BootInv, Read
  <2>2. CASE STAGE + k = c
    <3>1. InPlace(Phdr(n))
      BY <1>2, <1>6, <2>1, <2>2 DEF Loadable
    <3>2. k \in Int /\ k = Phdr(n).offset + j /\ j < Phdr(n).filesz
      <4>1. Phdr(n).vaddr = STAGE + Phdr(n).offset /\ Phdr(n).memsz <= Phdr(n).filesz
        BY <3>1 DEF InPlace
      <4>2. k \in Int
        BY ProgramTyped DEF BootInv
      <4>3. k = Phdr(n).offset + j
        <5>1. STAGE \in Int /\ j \in Int /\ Phdr(n).offset \in Int
          BY <1>4, <1>5, LoaderAssumption
        <5>2. STAGE + k = (STAGE + Phdr(n).offset) + j
          BY <2>2, <4>1
        <5>3. QED
          BY <4>2, <5>1, <5>2
      <4>4. j < Phdr(n).filesz \/ j < Phdr(n).memsz
        BY <1>4, <1>5
      <4>5. QED
        BY <1>4, <1>5, <4>1, <4>2, <4>3, <4>4
    <3>3. Content(Phdr(n), j) = init[k + 1]
      BY <3>2 DEF Content
    <3>4. QED
      BY <1>8, <2>1, <2>2, <3>3
  <2>3. CASE STAGE + k # c
    BY <1>8, <2>1, <2>3
  <2>4. QED
    BY <2>2, <2>3
<1>10. \A m \in Segments : m <= i =>
         \A k \in 0 .. Size(Phdr(m)) - 1 :
           memory'[Phdr(m).vaddr + k] = Content(Phdr(m), k)
  <2> SUFFICES ASSUME NEW m \in Segments, m <= i, NEW k \in 0 .. Size(Phdr(m)) - 1
               PROVE  memory'[Phdr(m).vaddr + k] = Content(Phdr(m), k)
    OBVIOUS
  <2>1. Phdr(m).vaddr + k \in Cell /\ Phdr(m).vaddr + k \in Target(Phdr(m)) /\ m \in Nat
    BY SegmentTyped DEF BootInv
  <2>2. m # n
    BY <1>3, <2>1
  <2>3. Target(Phdr(n)) \cap Target(Phdr(m)) = {}
    BY <1>2, <2>2 DEF Loadable
  <2>4. Phdr(m).vaddr + k # c
    BY <1>6, <2>1, <2>3
  <2>5. memory[Phdr(m).vaddr + k] = Content(Phdr(m), k)
    BY <1>2 DEF SegmentsFilled, SegmentFilled
  <2>6. QED
    BY <1>8, <2>1, <2>4, <2>5
<1>11. \A k \in 0 .. j : memory'[Phdr(n).vaddr + k] = Content(Phdr(n), k)
  <2> TAKE k \in 0 .. j
  <2>1. Phdr(n).vaddr + k \in Cell
    BY <1>4, <1>5
  <2>2. CASE k = j
    BY <1>8, <2>1, <2>2
  <2>3. CASE k # j
    <3>1. k \in 0 .. j - 1 /\ Phdr(n).vaddr + k # c
      BY <1>4, <1>5, <2>3
    <3>2. memory[Phdr(n).vaddr + k] = Content(Phdr(n), k)
      BY <1>2, <3>1 DEF SegmentFilled
    <3>3. QED
      BY <1>8, <2>1, <3>1, <3>2
  <2>4. QED
    BY <2>2, <2>3
<1> HIDE DEF c
<1>12. /\ init' = init /\ Ehdr' = Ehdr /\ Segments' = Segments
       /\ \A m : Phdr(m)' = Phdr(m)
       /\ \A h, k : Content(h, k)' = Content(h, k)
       /\ i' = i /\ phdr' = phdr /\ dest' = dest /\ src' = src
  BY SameFile
<1>13. BufferFilled(Len(init))'
  BY <1>9, <1>12 DEF BufferFilled
<1>14. SegmentsFilled(i)'
  BY <1>10, <1>12 DEF SegmentsFilled, SegmentFilled
<1>15. Phdr(i + 1)' = Phdr(i + 1)
  BY <1>12 DEF Phdr
<1>16. SegmentFilled(Phdr(i + 1), j)'
  <2>1. \A k \in 0 .. j' - 1 : k \in 0 .. j
    BY <1>5
  <2>2. QED
    BY <1>11, <1>12, <1>15, <2>1 DEF SegmentFilled
<1>17. /\ j' <= Size(Phdr(n))
       /\ phase' = "copy" => j' <= Phdr(n).filesz
       /\ phase' = "bss" => Phdr(n).filesz <= j'
  BY <1>2, <1>4, <1>5
<1>18. QED
  BY <1>2, <1>3, <1>12, <1>13, <1>14, <1>15, <1>16, <1>17 DEF LoadInv

LEMMA LoadCopy ==
  ASSUME BootInv, Loadable, LoadInv, copy
  PROVE  LoadInv'
<1> DEFINE h == Phdr(i + 1)
<1>1. /\ phase = "copy" /\ UNCHANGED given /\ UNCHANGED <<given, phdr, i, dest, src>>
      /\ phase \in {"copy", "bss"}
  BY DEF copy, pointers
<1>2. /\ BufferFilled(Len(init)) /\ phdr = STAGE + Ehdr.phoff /\ SegmentsFilled(i)
      /\ i + 1 \in Segments /\ dest = h.vaddr /\ src = STAGE + h.offset
      /\ j <= Size(h) /\ SegmentFilled(h, j) /\ j <= h.filesz
  BY <1>1 DEF LoadInv
<1>3. /\ h.offset \in Nat /\ h.filesz \in Nat /\ h.memsz \in Nat /\ j \in Nat /\ Size(h) \in Nat
      /\ h.offset + h.filesz <= Len(init)
      /\ \A k \in Nat : k < Size(h) <=> k < h.filesz \/ k < h.memsz
  BY <1>2, SegmentTyped DEF BootInv
<1>4. segment = h /\ i \in 0 .. Ehdr.phnum
  <2>1. /\ i \in 0 .. Ehdr.phnum /\ Ehdr.phnum \in Nat
        /\ i < Ehdr.phnum => segment = h
    BY <1>1, SegmentIsRead DEF BootInv
  <2>2. i + 1 \in 1 .. Ehdr.phnum
    BY <1>2, SegmentTyped DEF BootInv
  <2>3. QED
    BY <2>1, <2>2
<1>5. CASE j < h.filesz
  <2>1. memory' = Write(dest + j, Read(src + j)) /\ j' = j + 1 /\ phase' = phase
    BY <1>4, <1>5 DEF copy
  <2>2. h.offset + j \in 0 .. Len(init) - 1
    <3>1. Len(init) \in Nat
      BY ProgramTyped DEF BootInv
    <3>2. QED
      BY <1>3, <1>5, <3>1
  <2>3. Read(STAGE + (h.offset + j)) = init[(h.offset + j) + 1]
    BY <1>2, <2>2, BufferIsRead DEF BootInv
  <2>4. STAGE + (h.offset + j) = src + j
    BY <1>2, <1>3, LoaderAssumption
  <2>5. Read(src + j) = Content(h, j)
    BY <1>5, <2>3, <2>4 DEF Content
  <2>6. j < Size(h)
    BY <1>3, <1>5
  <2>7. QED
    BY <1>1, <1>5, <2>1, <2>5, <2>6, LoadWrites
<1>6. CASE ~ j < h.filesz
  <2>1. memory' = memory /\ j' = h.filesz /\ phase' = "bss"
    BY <1>4, <1>6 DEF copy
  <2>2. j' = j
    BY <1>2, <1>3, <1>6, <2>1
  <2>3. /\ init' = init /\ Ehdr' = Ehdr /\ Segments' = Segments /\ h' = h
        /\ BufferFilled(Len(init))' /\ SegmentsFilled(i)' /\ SegmentFilled(h, j)'
    <3>1. h' = h
      BY <1>1, SameFile DEF Phdr, Ehdr, given
    <3>2. BufferFilled(Len(init))'
      BY <1>1, <1>2, <2>1, SameFile DEF BufferFilled
    <3>3. SegmentsFilled(i)'
      BY <1>1, <1>2, <2>1, SameFile DEF SegmentsFilled, SegmentFilled
    <3>4. SegmentFilled(h, j)'
      BY <1>1, <1>2, <2>1, <2>2, <3>1, SameFile DEF SegmentFilled
    <3>5. QED
      BY <1>1, <3>1, <3>2, <3>3, <3>4, SameFile
  <2>4. j' <= Size(h) /\ h.filesz <= j'
    BY <1>2, <1>3, <2>1, <2>2
  <2>5. QED
    BY <1>1, <1>2, <1>4, <2>1, <2>3, <2>4 DEF LoadInv
<1>7. QED
  BY <1>5, <1>6

LEMMA LoadBss ==
  ASSUME BootInv, Loadable, LoadInv, bss
  PROVE  LoadInv'
<1> DEFINE n == i + 1
<1>1. phase = "bss" /\ UNCHANGED given /\ phdr' = phdr /\ dest' = dest /\ src' = src
  BY DEF bss
<1>2. /\ BufferFilled(Len(init)) /\ phdr = STAGE + Ehdr.phoff /\ SegmentsFilled(i)
      /\ n \in Segments /\ SegmentFilled(Phdr(n), j) /\ j <= Size(Phdr(n)) /\ Phdr(n).filesz <= j
  BY <1>1 DEF LoadInv
<1>3. /\ n \in 1 .. Ehdr.phnum /\ Size(Phdr(n)) \in Nat /\ j \in Nat /\ Phdr(n).filesz \in Nat
      /\ \A k \in Nat : k < Size(Phdr(n)) <=> k < Phdr(n).filesz \/ k < Phdr(n).memsz
  BY <1>2, SegmentTyped DEF BootInv
<1>4. segment = Phdr(n) /\ i \in 0 .. Ehdr.phnum /\ Ehdr.phnum \in Nat
  <2>1. /\ i \in 0 .. Ehdr.phnum /\ Ehdr.phnum \in Nat
        /\ i < Ehdr.phnum => segment = Phdr(n)
    BY <1>1, SegmentIsRead DEF BootInv
  <2>2. QED
    BY <1>3, <2>1
<1>5. CASE j < Phdr(n).memsz
  <2>1. memory' = Write(dest + j, Zero) /\ j' = j + 1 /\ phase' = phase /\ i' = i
    BY <1>4, <1>5 DEF bss
  <2>2. Content(Phdr(n), j) = Zero
    BY <1>2, <1>3 DEF Content
  <2>3. j < Size(Phdr(n))
    BY <1>3, <1>5
  <2>4. QED
    BY <1>1, <2>1, <2>2, <2>3, LoadWrites
<1>6. CASE ~ j < Phdr(n).memsz
  <2>1. phase' = "headers" /\ i' = n /\ UNCHANGED memory
    BY <1>4, <1>6 DEF bss
  <2>2. j = Size(Phdr(n))
    BY <1>2, <1>3, <1>6
  <2>3. SegmentsFilled(n)
    <3>1. \A m \in Segments : m <= n => m <= i \/ m = n
      BY <1>4, ProgramTyped DEF Segments, BootInv
    <3>2. QED
      BY <1>2, <2>2, <3>1 DEF SegmentsFilled
  <2>4. /\ init' = init /\ Ehdr' = Ehdr /\ Segments' = Segments
        /\ BufferFilled(Len(init))'
    BY <1>1, <1>2, <2>1, SameFile DEF BufferFilled
  <2>5. SegmentsFilled(i)'
    BY <1>1, <2>1, <2>3, SameFile DEF SegmentsFilled, SegmentFilled
  <2>6. QED
    BY <1>1, <1>2, <1>3, <2>1, <2>4, <2>5 DEF LoadInv
<1>7. QED
  BY <1>5, <1>6

LEMMA LoadEnds ==
  ASSUME BootInv, Loadable, LoadInv, elf_loaded
  PROVE  LoadInv'
<1>1. /\ phase = "headers" /\ i >= hdr.phnum /\ entry' = hdr.entry
      /\ phase' = IF entry' # 0 THEN "loaded" ELSE "failed"
      /\ UNCHANGED memory /\ UNCHANGED given
  BY DEF elf_loaded
<1>2. hdr = Ehdr /\ i \in 0 .. Ehdr.phnum /\ Ehdr.phnum \in Nat
  BY <1>1, SegmentIsRead DEF BootInv
<1>3. BufferFilled(Len(init)) /\ SegmentsFilled(i) /\ i = Ehdr.phnum
  BY <1>1, <1>2 DEF LoadInv
<1>4. init' = init /\ Ehdr' = Ehdr /\ BufferFilled(Len(init))'
  BY <1>1, <1>3, SameFile DEF BufferFilled
<1>5. SegmentsFilled(Ehdr.phnum)'
  BY <1>1, <1>3, <1>4, SameFile DEF SegmentsFilled, SegmentFilled
<1>6. QED
  BY <1>1, <1>2, <1>4, <1>5 DEF LoadInv

LEMMA LoadNotWild == Loadable /\ LoadInv /\ init \in Programs => ~ wild
  BY SegmentIsRead DEF wild

LEMMA LoadStutter ==
  ASSUME LoadInv, UNCHANGED loader_vars
  PROVE  LoadInv'
  BY DEF LoadInv, loader_vars, given, pointers, BufferFilled, SegmentsFilled, SegmentFilled,
         Content, Phdr, Ehdr, Segments

LEMMA LoadNext ==
  ASSUME BootInv, Roomy, Loadable, LoadInv, [LoaderNext]_loader_vars
  PROVE  LoadInv'
<1>1. init \in Programs
  BY DEF BootInv
<1>2. CASE copy \/ bss
  BY <1>2, LoadCopy, LoadBss
<1>3. CASE init_paging \/ find_init \/ tar_read \/ elf_load \/ next_header \/ elf_loaded
  BY <1>1, <1>3, LoadPaging, LoadFind, LoadTarRead, LoadElf, LoadNextHeader, LoadEnds
<1>4. CASE halted \/ UNCHANGED loader_vars
  BY <1>4, LoadStutter DEF halted
<1>5. QED
  BY <1>1, <1>2, <1>3, <1>4, LoadNotWild DEF LoaderNext

-----------------------------------------------------------------------------
(* The inductive invariant holds. *)
LEMMA LoaderInvariance == LoaderSpec => []LoaderIInv
<1>1. LoaderInit => LoaderIInv
  BY InitBoot, InitLoad DEF LoaderIInv
<1>2. LoaderIInv /\ [LoaderNext]_loader_vars => LoaderIInv'
  <2> SUFFICES ASSUME LoaderIInv, [LoaderNext]_loader_vars PROVE LoaderIInv'
    OBVIOUS
  <2>1. BootInv /\ BootInv'
    BY BootNext DEF LoaderIInv
  <2>2. UNCHANGED given
    BY DEF LoaderNext, init_paging, find_init, tar_read, elf_load, wild, next_header, copy,
           bss, elf_loaded, halted, loader_vars
  <2>3. ASSUME Roomy', Loadable' PROVE LoadInv'
    <3>1. Roomy /\ Loadable
      BY <2>2, <2>3, SameMap
    <3>2. QED
      BY <2>1, <3>1, LoadNext DEF LoaderIInv
  <2>4. QED
    BY <2>1, <2>3 DEF LoaderIInv
<1>3. QED
  BY <1>1, <1>2, PTL DEF LoaderSpec

(* Wherever kernel, initrd and program lie, and whatever the file makes    *)
(* elf_load do with its own headers: with room for the page tables below   *)
(* the buffer, and the program above, tar_read and elf_load overwrite      *)
(* neither the kernel's image, nor a page table, nor the initrd.           *)
THEOREM BootDataIsKept == LoaderSpec => []BootDataKept
<1>1. LoaderIInv => BootDataKept
  BY DEF LoaderIInv, BootInv, BootDataKept
<1>2. QED
  BY <1>1, LoaderInvariance, PTL

(* Each program whose segments keep off each other and off the buffer, but  *)
(* for those that lie in place, is in memory as its headers say when       *)
(* elf_load returns, and entered at its entry point, or taken for a        *)
(* failure if that is 0.                                                   *)
THEOREM ProgramIsLoaded == LoaderSpec => []LoadedExactly
<1>1. LoaderIInv => LoadedExactly
  <2> SUFFICES ASSUME LoaderIInv, Roomy, Loadable, phase \in {"loaded", "failed", "wild"}
               PROVE  /\ phase = IF Ehdr.entry # 0 THEN "loaded" ELSE "failed"
                      /\ entry = Ehdr.entry
                      /\ \A n \in Segments : \A k \in 0 .. Size(Phdr(n)) - 1 :
                           memory[Phdr(n).vaddr + k] = Content(Phdr(n), k)
    BY DEF LoadedExactly
  <2>1. /\ phase = IF Ehdr.entry # 0 THEN "loaded" ELSE "failed"
        /\ entry = Ehdr.entry /\ SegmentsFilled(Ehdr.phnum)
    BY DEF LoaderIInv, LoadInv
  <2>2. \A n \in Segments : n <= Ehdr.phnum
    BY SegmentTyped, ProgramTyped DEF LoaderIInv, BootInv, Segments
  <2>3. QED
    BY <2>1, <2>2 DEF SegmentsFilled, SegmentFilled
<1>2. QED
  BY <1>1, LoaderInvariance, PTL

-----------------------------------------------------------------------------
(***************************************************************************)
(* Vfs.                                                                    *)
(***************************************************************************)
USE VfsAssumption

Mount == [path : Paths, node : Node \cup {NULL}]

(* Before kmain's mount nothing was mounted. *)
BootState == boot = "start" => ~ replaced /\ mount_count = 0

(* The inductive invariant. *)
IInv == TypeOK /\ BootState /\ RootIsSlotZero

LEMMA InitInvariant == Init => IInv
<1> SUFFICES ASSUME Init PROVE IInv
  OBVIOUS
<1>1. [path |-> Root, node |-> NULL] \in Mount
  BY DEF Mount
<1>2. TypeOK
  <2>1. mounts \in [Slot -> Mount]
    BY <1>1 DEF Init
  <2>2. mount_count \in 0 .. MAX_MOUNTS
    BY DEF Init
  <2>3. QED
    BY <2>1, <2>2 DEF Init, TypeOK, Mount
<1>3. BootState /\ RootIsSlotZero
  BY DEF Init, BootState, RootIsSlotZero
<1>4. QED
  BY <1>2, <1>3 DEF IInv

(* What vfs_mount leaves of the table, whoever calls it. *)
LEMMA MountKeepsTable ==
  ASSUME IInv, NEW path \in Paths, NEW node \in Node \cup {NULL}, vfs_mount(path, node)
  PROVE  /\ mounts' \in [Slot -> Mount]
         /\ mount_count' \in 0 .. MAX_MOUNTS
         /\ result' \in {-1, 0, 3}
         /\ root_node' = IF path = Root THEN node ELSE root_node
         /\ \A u \in 0 .. mount_count' - 1 :
              mounts'[u].path = Root => u = 0 /\ mounts'[u].node = root_node'
<1> USE DEF IInv, TypeOK, RootIsSlotZero, Slot
<1>1. CASE /\ path = Root
           /\ root_node' = node
           /\ mounts' = [mounts EXCEPT ![0] = [path |-> Root, node |-> node]]
           /\ mount_count' = IF mount_count = 0 THEN 1 ELSE mount_count
           /\ result' = 0
  <2>1. [path |-> Root, node |-> node] \in Mount
    BY DEF Mount
  <2>2. \A u \in 1 .. mount_count' - 1 : mounts'[u].path # Root
    BY <1>1
  <2>3. mounts'[0] = [path |-> Root, node |-> node]
    BY <1>1
  <2>4. QED
    BY <1>1, <2>1, <2>2, <2>3 DEF Mount
<1>2. CASE /\ path # Root
           /\ mount_count < MAX_MOUNTS
           /\ mounts' = [mounts EXCEPT ![mount_count] = [path |-> path, node |-> node]]
           /\ mount_count' = mount_count + 1
           /\ result' = 0
           /\ UNCHANGED root_node
  <2>1. [path |-> path, node |-> node] \in Mount
    BY DEF Mount
  <2>2. \A u \in 0 .. mount_count - 1 : mounts'[u] = mounts[u]
    BY <1>2
  <2>3. mounts'[mount_count].path = path
    BY <1>2
  <2>4. QED
    BY <1>2, <2>1, <2>2, <2>3 DEF Mount
<1>3. CASE /\ path # Root
           /\ mount_count >= MAX_MOUNTS
           /\ result' = -1
           /\ UNCHANGED <<root_node, table>>
  BY <1>3 DEF table, Mount
<1>4. QED
  BY <1>1, <1>2, <1>3 DEF vfs_mount

LEMMA UmountKeepsTable ==
  ASSUME IInv, NEW path \in Paths, vfs_umount(path)
  PROVE  /\ mounts' \in [Slot -> Mount]
         /\ mount_count' \in 0 .. mount_count
         /\ result' \in {-1, 0, 3}
         /\ \A u \in 0 .. mount_count' - 1 :
              mounts'[u].path = Root => u = 0 /\ mounts'[u].node = root_node
<1> USE DEF IInv, TypeOK, RootIsSlotZero, Slot
<1>1. CASE \E u \in 0 .. mount_count - 1 :
             /\ mounts[u].path = path
             /\ \A w \in 0 .. u - 1 : mounts[w].path # path
             /\ mounts' = Removed(u)
             /\ mount_count' = mount_count - 1
             /\ result' = 0
  <2>1. PICK u \in 0 .. mount_count - 1 :
          mounts' = Removed(u) /\ mount_count' = mount_count - 1 /\ result' = 0
    BY <1>1
  <2>2. mounts' \in [Slot -> Mount]
    BY <2>1 DEF Removed, Mount
  <2>3. ASSUME NEW k \in 0 .. mount_count' - 1, mounts'[k].path = Root
        PROVE  k = 0 /\ mounts'[k].node = root_node
    <3>1. CASE u <= k
      <4>1. mounts'[k] = mounts[k + 1] /\ k + 1 \in 0 .. mount_count - 1
        BY <2>1, <3>1 DEF Removed
      <4>2. k + 1 = 0
        BY <2>3, <4>1
      <4>3. QED
        BY <4>2
    <3>2. CASE k < u
      <4>1. mounts'[k] = mounts[k] /\ k \in 0 .. mount_count - 1
        BY <2>1, <3>2 DEF Removed
      <4>2. QED
        BY <2>3, <4>1
    <3>3. QED
      BY <2>1, <3>1, <3>2
  <2>4. mount_count' \in 0 .. mount_count /\ result' \in {-1, 0, 3}
    BY <2>1
  <2>5. QED
    BY <2>2, <2>3, <2>4
<1>2. CASE UNCHANGED table /\ result' = -1
  BY <1>2 DEF table, Mount
<1>3. QED
  BY <1>1, <1>2 DEF vfs_umount

LEMMA NextKeepsInvariant ==
  ASSUME IInv, [Next]_vars
  PROVE  IInv'
<1>1. CASE kmain_mount
  <2>1. CASE boot' = "initrd" /\ vfs_mount(Root, TarRoot)
    <3>1. TarRoot \in Node \cup {NULL} /\ Root \in Paths
      OBVIOUS
    <3>2. mounts' \in [Slot -> Mount] /\ mount_count' \in 0 .. MAX_MOUNTS
          /\ result' \in {-1, 0, 3} /\ root_node' = TarRoot
          /\ \A u \in 0 .. mount_count' - 1 :
               mounts'[u].path = Root => u = 0 /\ mounts'[u].node = root_node'
      BY <2>1, <3>1, MountKeepsTable
    <3>3. ~ replaced' /\ boot' = "initrd"
      BY <1>1, <2>1 DEF kmain_mount, IInv, BootState
    <3>4. TypeOK'
      BY <1>1, <3>1, <3>2, <3>3 DEF IInv, TypeOK, Mount, kmain_mount
    <3>5. QED
      BY <3>2, <3>3, <3>4 DEF IInv, BootState, RootIsSlotZero
  <2>2. CASE boot' = "none" /\ UNCHANGED <<root_node, table, result>>
    BY <1>1, <2>2 DEF kmain_mount, table, IInv, TypeOK, BootState, RootIsSlotZero
  <2>3. QED
    BY <1>1, <2>1, <2>2 DEF kmain_mount
<1>2. ASSUME NEW path \in Paths, sys_mount(path)
      PROVE  IInv'
  <2>1. mounts' \in [Slot -> Mount] /\ mount_count' \in 0 .. MAX_MOUNTS
        /\ result' \in {-1, 0, 3}
        /\ root_node' = (IF path = Root THEN NULL ELSE root_node)
        /\ \A u \in 0 .. mount_count' - 1 :
             mounts'[u].path = Root => u = 0 /\ mounts'[u].node = root_node'
    BY <1>2, MountKeepsTable DEF sys_mount
  <2>2. boot # "start" /\ boot' = boot /\ replaced' = (replaced \/ path = Root)
    BY <1>2 DEF sys_mount
  <2>3. TypeOK'
    BY <2>1, <2>2 DEF IInv, TypeOK, Mount
  <2>4. root_node' = IF boot' = "initrd" /\ ~ replaced' THEN TarRoot ELSE NULL
    BY <2>1, <2>2 DEF IInv, RootIsSlotZero
  <2>5. QED
    BY <2>1, <2>2, <2>3, <2>4 DEF IInv, BootState, RootIsSlotZero
<1>3. ASSUME NEW path \in Paths, sys_umount(path)
      PROVE  IInv'
  <2>1. mounts' \in [Slot -> Mount] /\ mount_count' \in 0 .. mount_count
        /\ result' \in {-1, 0, 3}
        /\ \A u \in 0 .. mount_count' - 1 :
             mounts'[u].path = Root => u = 0 /\ mounts'[u].node = root_node
    BY <1>3, UmountKeepsTable DEF sys_umount
  <2>2. boot # "start" /\ UNCHANGED <<root_node, boot, replaced>>
    BY <1>3 DEF sys_umount
  <2>3. TypeOK'
    BY <2>1, <2>2 DEF IInv, TypeOK, Mount
  <2>4. RootIsSlotZero'
    BY <2>1, <2>2 DEF IInv, RootIsSlotZero
  <2>5. QED
    BY <2>2, <2>3, <2>4 DEF IInv, BootState
<1>4. ASSUME /\ result' \in {-1, 0, 3}
             /\ UNCHANGED <<root_node, table, boot, replaced>>
      PROVE  IInv'
  BY <1>4 DEF table, IInv, TypeOK, BootState, RootIsSlotZero
<1>5. CASE sys_mkdir
  BY <1>4, <1>5 DEF sys_mkdir
<1>6. ASSUME NEW path \in Paths, sys_open(path) \/ sys_link_or_unlink(path)
      PROVE  IInv'
  BY <1>4, <1>6 DEF sys_open, sys_link_or_unlink
<1>7. CASE UNCHANGED vars
  BY <1>4, <1>7 DEF vars, IInv, TypeOK
<1>8. QED
  BY <1>1, <1>2, <1>3, <1>5, <1>6, <1>7 DEF Next

(* The mount table keeps its type and its invariant: every mount is in a   *)
(* slot of the array, and "/" in slot 0 or nowhere.                        *)
THEOREM Invariance == Spec => []IInv
<1>1. Init => IInv
  BY InitInvariant
<1>2. IInv /\ [Next]_vars => IInv'
  BY NextKeepsInvariant
<1>3. QED
  BY <1>1, <1>2, PTL DEF Spec

(* Every variable of vfs.c keeps its type: vfs_mount writes no slot beyond *)
(* the array.                                                              *)
THEOREM TypeCorrect == Spec => []TypeOK
<1>1. IInv => TypeOK
  BY DEF IInv
<1>2. QED
  BY <1>1, Invariance, PTL

(* "/" is in slot 0 or nowhere, and root_node is the initrd's root until a *)
(* program mounts "/", however vfs_umount moves the slots.                 *)
THEOREM RootStays == Spec => []RootIsSlotZero
<1>1. IInv => RootIsSlotZero
  BY DEF IInv
<1>2. QED
  BY <1>1, Invariance, PTL

-----------------------------------------------------------------------------
(* Refinement: the array as a list. *)
LEMMA ListIsSeq ==
  ASSUME NEW m \in [Slot -> Mount], NEW n \in 0 .. MAX_MOUNTS
  PROVE  /\ List(m, n) \in Seq(Mount)
         /\ Len(List(m, n)) = n
         /\ DOMAIN List(m, n) = 1 .. n
         /\ \A u \in 1 .. n : List(m, n)[u] = m[u - 1]
<1>1. \A u \in 1 .. n : u - 1 \in Slot
  BY DEF Slot
<1>2. \A u \in 1 .. n : m[u - 1] \in Mount
  BY <1>1
<1>3. QED
  BY <1>2, IsASeq DEF List

(* A mount in the next slot is one at the end of the list. *)
LEMMA AppendsToList ==
  ASSUME NEW m \in [Slot -> Mount], NEW n \in 0 .. MAX_MOUNTS, n < MAX_MOUNTS, NEW e \in Mount
  PROVE  List([m EXCEPT ![n] = e], n + 1) = Append(List(m, n), e)
<1> DEFINE m1 == [m EXCEPT ![n] = e]
<1>0. n \in Nat
  OBVIOUS
<1>1. m1 \in [Slot -> Mount] /\ n + 1 \in 0 .. MAX_MOUNTS /\ n \in Slot
  BY DEF Slot
<1>2. /\ List(m1, n + 1) \in Seq(Mount) /\ Len(List(m1, n + 1)) = n + 1
      /\ \A u \in 1 .. n + 1 : List(m1, n + 1)[u] = m1[u - 1]
  BY <1>1, ListIsSeq
<1>3. /\ List(m, n) \in Seq(Mount) /\ Len(List(m, n)) = n
      /\ \A u \in 1 .. n : List(m, n)[u] = m[u - 1]
  BY ListIsSeq
<1>4. /\ Append(List(m, n), e) \in Seq(Mount) /\ Len(Append(List(m, n), e)) = n + 1
      /\ \A u \in 1 .. n : Append(List(m, n), e)[u] = List(m, n)[u]
      /\ Append(List(m, n), e)[n + 1] = e
  BY <1>3, AppendProperties
<1>5. m1[n] = e /\ \A u \in 0 .. n - 1 : m1[u] = m[u]
  BY <1>1 DEF Slot
<1>6. \A u \in 1 .. n + 1 : List(m1, n + 1)[u] = Append(List(m, n), e)[u]
  <2> TAKE u \in 1 .. n + 1
  <2>1. CASE u = n + 1
    <3>1. n + 1 \in 1 .. n + 1 /\ (n + 1) - 1 = n
      BY <1>0
    <3>2. List(m1, n + 1)[n + 1] = m1[n]
      BY <1>2, <3>1
    <3>3. QED
      BY <1>4, <1>5, <2>1, <3>2
  <2>2. CASE u \in 1 .. n
    <3>1. u - 1 \in 0 .. n - 1
      BY <2>2
    <3>2. QED
      BY <1>2, <1>3, <1>4, <1>5, <2>2, <3>1
  <2>3. u = n + 1 \/ u \in 1 .. n
    BY <1>0
  <2>4. QED
    BY ONLY <2>1, <2>2, <2>3
<1>7. QED
  BY <1>2, <1>4, <1>6, SeqEqual

(* The slots behind k moving up take element k + 1 out of the list. *)
LEMMA RemovesFromList ==
  ASSUME NEW m \in [Slot -> Mount], NEW m1 \in [Slot -> Mount],
         NEW n \in 1 .. MAX_MOUNTS, NEW k \in 0 .. n - 1,
         \A w \in 0 .. n - 2 : m1[w] = IF k <= w THEN m[w + 1] ELSE m[w]
  PROVE  List(m1, n - 1) = SubSeq(List(m, n), 1, k) \o SubSeq(List(m, n), k + 2, n)
<1> DEFINE s == List(m, n)
           r == List(m1, n - 1)
           a == SubSeq(s, 1, k)
           b == SubSeq(s, k + 2, n)
<1>0. n \in 0 .. MAX_MOUNTS /\ n - 1 \in 0 .. MAX_MOUNTS /\ n \in Nat /\ k \in Nat /\ k < n
  OBVIOUS
<1>1. s \in Seq(Mount) /\ Len(s) = n /\ \A u \in 1 .. n : s[u] = m[u - 1]
  BY <1>0, ListIsSeq
<1>2. r \in Seq(Mount) /\ Len(r) = n - 1 /\ \A u \in 1 .. n - 1 : r[u] = m1[u - 1]
  BY <1>0, ListIsSeq
<1> HIDE DEF s, r
<1>3. a \in Seq(Mount) /\ Len(a) = k /\ \A u \in 1 .. k : a[u] = s[u]
  BY <1>0, <1>1, SubSeqProperties
<1>4. b \in Seq(Mount) /\ Len(b) = n - k - 1 /\ \A u \in 1 .. n - k - 1 : b[u] = s[k + 1 + u]
  BY <1>0, <1>1, SubSeqProperties
<1> HIDE DEF a, b
<1>5. /\ a \o b \in Seq(Mount) /\ Len(a \o b) = n - 1
      /\ \A u \in 1 .. n - 1 : (a \o b)[u] = IF u <= k THEN a[u] ELSE b[u - k]
  <2>0. a \in Seq(Mount) /\ b \in Seq(Mount)
    BY <1>3, <1>4
  <2>1. /\ a \o b \in Seq(Mount) /\ Len(a \o b) = Len(a) + Len(b)
        /\ \A u \in 1 .. Len(a) + Len(b) :
             (a \o b)[u] = IF u <= Len(a) THEN a[u] ELSE b[u - Len(a)]
    BY ONLY <2>0, ConcatProperties
  <2>2. Len(a) = k /\ Len(a) + Len(b) = n - 1
    BY <1>0, <1>3, <1>4
  <2>3. QED
    BY <2>1, <2>2
<1>6. \A u \in 1 .. n - 1 : r[u] = (a \o b)[u]
  <2> TAKE u \in 1 .. n - 1
  <2>1. r[u] = m1[u - 1] /\ u - 1 \in 0 .. n - 2
    BY <1>2
  <2>2. CASE u <= k
    <3>1. r[u] = m[u - 1]
      BY <2>1, <2>2
    <3>2. (a \o b)[u] = s[u] /\ s[u] = m[u - 1]
      BY <1>1, <1>3, <1>5, <2>2
    <3>3. QED
      BY <3>1, <3>2
  <2>3. CASE u > k
    <3>1. r[u] = m[u]
      BY <2>1, <2>3
    <3>2. u - k \in 1 .. n - k - 1 /\ k + 1 + (u - k) = u + 1 /\ u + 1 \in 1 .. n
      BY <2>3
    <3>3. (a \o b)[u] = b[u - k]
      BY <1>5, <2>3
    <3>4. b[u - k] = s[u + 1] /\ s[u + 1] = m[u]
      BY <1>1, <1>4, <3>2
    <3>5. QED
      BY <3>1, <3>3, <3>4
  <2>4. u <= k \/ u > k
    BY <1>0
  <2>5. QED
    BY ONLY <2>2, <2>3, <2>4
<1>7. r = a \o b
  BY <1>2, <1>5, <1>6, SeqEqual
<1>8. QED
  BY <1>7 DEF r, a, b, s

LEMMA ListsAre ==
  ASSUME IInv, IInv'
  PROVE  /\ list \in Seq(Mount) /\ Len(list) = mount_count /\ DOMAIN list = 1 .. mount_count
         /\ \A u \in 1 .. mount_count : list[u] = mounts[u - 1]
         /\ list' \in Seq(Mount) /\ Len(list') = mount_count' /\ DOMAIN list' = 1 .. mount_count'
         /\ \A u \in 1 .. mount_count' : list'[u] = mounts'[u - 1]
<1>1. mounts \in [Slot -> Mount] /\ mount_count \in 0 .. MAX_MOUNTS
  BY DEF IInv, TypeOK, Mount
<1>2. mounts' \in [Slot -> Mount] /\ mount_count' \in 0 .. MAX_MOUNTS
  BY DEF IInv, TypeOK, Mount
<1>3. list' = List(mounts', mount_count')
  BY DEF list, List
<1>4. QED
  BY <1>1, <1>2, <1>3, ListIsSeq DEF list

LEMMA MountRefines ==
  ASSUME IInv, IInv', NEW path \in Paths, NEW node \in Node \cup {NULL}, vfs_mount(path, node)
  PROVE  [Table!Next]_list
<1>0. mounts \in [Slot -> Mount] /\ mount_count \in 0 .. MAX_MOUNTS /\ mount_count \in Nat
  BY DEF IInv, TypeOK, Mount
<1>1. CASE /\ path = Root
           /\ root_node' = node
           /\ mounts' = [mounts EXCEPT ![0] = [path |-> Root, node |-> node]]
           /\ mount_count' = IF mount_count = 0 THEN 1 ELSE mount_count
           /\ result' = 0
  <2> DEFINE e == [path |-> Root, node |-> node]
  <2>1. e \in Mount /\ 0 \in Slot
    BY DEF Mount, Slot
  <2>2. mounts'[0] = e /\ \A u \in Slot \ {0} : mounts'[u] = mounts[u]
    BY <1>0, <1>1, <2>1
  <2>3. CASE mount_count = 0
    <3>1. list = <<>>
      BY <1>0, <2>3, ListsAre, EmptySeq
    <3>2. Len(list') = 1 /\ list' \in Seq(Mount) /\ list'[1] = e
      BY <1>1, <2>2, <2>3, ListsAre
    <3>3. <<e>> \in Seq(Mount) /\ Len(<<e>>) = 1 /\ <<e>>[1] = e
      BY <2>1
    <3>4. list' = <<e>>
      BY ONLY <3>2, <3>3, SeqEqual
    <3>5. QED
      BY <3>1, <3>4 DEF Table!Next, Table!MountRoot, list, List
  <2>4. CASE mount_count # 0
    <3> DEFINE l == [list EXCEPT ![1] = e]
    <3>1. list # <<>> /\ 1 \in DOMAIN list
      BY <1>0, <2>4, ListsAre
    <3>2. l \in Seq(Mount) /\ Len(l) = Len(list)
      BY <2>1, <3>1, ListsAre, ExceptSeq
    <3>3. \A u \in 1 .. Len(list) : l[u] = IF u = 1 THEN e ELSE list[u]
      BY <3>1, ListsAre
    <3>4. \A u \in 1 .. mount_count : list'[u] = l[u]
      <4> TAKE u \in 1 .. mount_count
      <4>1. list'[u] = mounts'[u - 1] /\ list[u] = mounts[u - 1] /\ u \in 1 .. Len(list)
        BY <1>1, <2>4, ListsAre
      <4>2. CASE u = 1
        BY <2>2, <3>3, <4>1, <4>2
      <4>3. CASE u # 1
        <5>1. u - 1 \in Slot \ {0}
          BY <1>0, <4>3 DEF Slot
        <5>2. QED
          BY <2>2, <3>3, <4>1, <4>3, <5>1
      <4>4. QED
        BY ONLY <4>2, <4>3
    <3>5. list' = l
      <4>1. list' \in Seq(Mount) /\ Len(list') = mount_count /\ Len(l) = mount_count
        BY <1>1, <2>4, <3>2, ListsAre
      <4>2. QED
        BY ONLY <3>2, <3>4, <4>1, SeqEqual
    <3>6. QED
      BY <3>1, <3>5 DEF Table!Next, Table!MountRoot, list, List
  <2>5. QED
    BY <2>3, <2>4
<1>2. CASE /\ path # Root
           /\ mount_count < MAX_MOUNTS
           /\ mounts' = [mounts EXCEPT ![mount_count] = [path |-> path, node |-> node]]
           /\ mount_count' = mount_count + 1
           /\ result' = 0
           /\ UNCHANGED root_node
  <2> DEFINE e == [path |-> path, node |-> node]
  <2>1. e \in Mount
    BY DEF Mount
  <2>2. List([mounts EXCEPT ![mount_count] = e], mount_count + 1) = Append(list, e)
    BY <1>0, <1>2, <2>1, AppendsToList DEF list
  <2>3. list' = Append(list, e)
    BY <1>2, <2>2 DEF list, List
  <2>4. Len(list) < MAX_MOUNTS
    BY <1>2, ListsAre
  <2>5. Table!Mount(path, node)
    BY <1>2, <2>3, <2>4 DEF Table!Mount, list, List
  <2>6. QED
    BY <2>5 DEF Table!Next
<1>3. CASE UNCHANGED table
  BY <1>3 DEF table, list, List
<1>4. QED
  BY <1>1, <1>2, <1>3 DEF vfs_mount, table

LEMMA UmountRefines ==
  ASSUME IInv, IInv', NEW path \in Paths, vfs_umount(path)
  PROVE  [Table!Next]_list
<1>0. mounts \in [Slot -> Mount] /\ mount_count \in 0 .. MAX_MOUNTS /\ mount_count \in Nat
      /\ mounts' \in [Slot -> Mount]
  BY DEF IInv, TypeOK, Mount
<1>1. ASSUME NEW k \in 0 .. mount_count - 1,
             mounts[k].path = path,
             \A w \in 0 .. k - 1 : mounts[w].path # path,
             mounts' = Removed(k),
             mount_count' = mount_count - 1
      PROVE  Table!Next
  <2>1. \A w \in 0 .. mount_count - 2 :
          mounts'[w] = IF k <= w THEN mounts[w + 1] ELSE mounts[w]
    BY <1>0, <1>1 DEF Removed, Slot
  <2>2. mount_count \in 1 .. MAX_MOUNTS
    BY <1>0
  <2>3. List(mounts', mount_count - 1) = SubSeq(list, 1, k) \o SubSeq(list, k + 2, mount_count)
    <3>1. PICK m : m = mounts
      OBVIOUS
    <3>2. PICK m1 : m1 = mounts'
      OBVIOUS
    <3>3. PICK n : n = mount_count
      OBVIOUS
    <3>4. /\ m \in [Slot -> Mount] /\ m1 \in [Slot -> Mount] /\ n \in 1 .. MAX_MOUNTS
          /\ k \in 0 .. n - 1
          /\ \A w \in 0 .. n - 2 : m1[w] = IF k <= w THEN m[w + 1] ELSE m[w]
      BY <1>0, <2>1, <2>2, <3>1, <3>2, <3>3
    <3>5. List(m1, n - 1) = SubSeq(List(m, n), 1, k) \o SubSeq(List(m, n), k + 2, n)
      BY ONLY <3>4, RemovesFromList
    <3>6. List(mounts', mount_count - 1) = List(m1, n - 1)
      BY <3>2, <3>3
    <3>7. List(m, n) = list
      BY <3>1, <3>3 DEF list
    <3>8. QED
      BY <3>3, <3>5, <3>6, <3>7
  <2>4. list' = SubSeq(list, 1, (k + 1) - 1) \o SubSeq(list, (k + 1) + 1, Len(list))
    <3>1. list' = List(mounts', mount_count - 1)
      BY <1>1 DEF list, List
    <3>2. Len(list) = mount_count /\ (k + 1) - 1 = k /\ (k + 1) + 1 = k + 2
      BY ListsAre
    <3>3. QED
      BY <2>3, <3>1, <3>2
  <2>5. k + 1 \in DOMAIN list /\ list[k + 1].path = path
    BY <1>0, <1>1, ListsAre
  <2>6. \A w \in 1 .. (k + 1) - 1 : list[w].path # path
    <3> TAKE w \in 1 .. (k + 1) - 1
    <3>1. w - 1 \in 0 .. k - 1 /\ w \in 1 .. mount_count
      BY <1>0
    <3>2. QED
      BY <1>1, <3>1, ListsAre
  <2>7. Table!Umount(path)
    BY <2>4, <2>5, <2>6 DEF Table!Umount, list, List
  <2>8. QED
    BY <2>7 DEF Table!Next
<1>2. CASE UNCHANGED table
  BY <1>2 DEF table, list, List
<1>3. QED
  BY <1>1, <1>2 DEF vfs_umount

LEMMA NextRefines ==
  ASSUME IInv, IInv', [Next]_vars
  PROVE  [Table!Next]_list
<1>1. CASE kmain_mount
  <2>1. CASE vfs_mount(Root, TarRoot)
    BY <2>1, MountRefines
  <2>2. CASE UNCHANGED <<root_node, table, result>>
    BY <2>2 DEF table, list, List
  <2>3. QED
    BY <1>1, <2>1, <2>2 DEF kmain_mount
<1>2. ASSUME NEW path \in Paths, sys_mount(path)
      PROVE  [Table!Next]_list
  BY <1>2, MountRefines DEF sys_mount
<1>3. ASSUME NEW path \in Paths, sys_umount(path)
      PROVE  [Table!Next]_list
  BY <1>3, UmountRefines DEF sys_umount
<1>4. CASE UNCHANGED table
  BY <1>4 DEF table, list, List
<1>5. QED
  BY <1>1, <1>2, <1>3, <1>4
  DEF Next, sys_mkdir, sys_open, sys_link_or_unlink, vars, table

(* The array with its shifting slots, and "/" written over slot 0, is a    *)
(* list of at most MAX_MOUNTS mounts.                                      *)
THEOREM Refinement == Spec => ImplementsMountList
<1>1. Init => Table!Init
  BY DEF Init, Table!Init, list, List
<1>2. IInv /\ IInv' /\ [Next]_vars => [Table!Next]_list
  BY NextRefines
<1>3. QED
  BY <1>1, <1>2, Invariance, PTL DEF Spec, ImplementsMountList, Table!Spec

HIDE VfsAssumption

(***************************************************************************)
(* Listing.                                                                *)
(***************************************************************************)
LEMMA Least ==
  ASSUME NEW S \in SUBSET Nat, S # {}
  PROVE  \E f \in S : \A g \in S : f <= g
<1>1. PICK f \in S : \A g \in S : ~ (<<g, f>> \in OpToRel(<, Nat))
  BY NatLessThanWellFounded, WFMin
<1>2. \A g \in S : ~ (g < f)
  BY <1>1 DEF OpToRel
<1>3. QED
  BY <1>2

(* The totals of the first members of s, from none of them to all. *)
IsTotal(f, n, s) ==
  f = [k \in 1 .. n + 1 |-> IF k = 1 THEN 0 ELSE f[k - 1] + s[k - 1]]

(* A total that leaves one member out goes on with it. *)
LEMMA TotalGoesOn ==
  ASSUME NEW n \in Nat, NEW s, NEW f, IsTotal(f, n, s)
  PROVE  \E g : IsTotal(g, n + 1, s)
<1> DEFINE g == [k \in 1 .. n + 2 |-> IF k = n + 2 THEN f[n + 1] + s[n + 1] ELSE f[k]]
<1>1. \A k \in 1 .. n + 1 : g[k] = f[k]
  OBVIOUS
<1>2. \A k \in 1 .. n + 1 : f[k] = IF k = 1 THEN 0 ELSE f[k - 1] + s[k - 1]
  BY DEF IsTotal
<1>3. \A k \in 1 .. n + 1 : g[k] = IF k = 1 THEN 0 ELSE g[k - 1] + s[k - 1]
  <2>1. \A k \in 1 .. n + 1 : k = 1 \/ k - 1 \in 1 .. n + 1
    OBVIOUS
  <2>2. QED
    BY <1>1, <1>2, <2>1
<1>4. g[n + 2] = g[n + 1] + s[n + 1]
  OBVIOUS
<1>5. \A k \in 1 .. (n + 1) + 1 : g[k] = IF k = 1 THEN 0 ELSE g[k - 1] + s[k - 1]
  <2>1. \A k \in 1 .. (n + 1) + 1 : k \in 1 .. n + 1 \/ k = n + 2
    OBVIOUS
  <2>2. (n + 2) - 1 = n + 1 /\ n + 2 # 1
    OBVIOUS
  <2>3. QED
    BY <1>3, <1>4, <2>1, <2>2
<1>6. g = [k \in 1 .. (n + 1) + 1 |-> g[k]]
  OBVIOUS
<1>7. IsTotal(g, n + 1, s)
  <2> HIDE DEF g
  <2> QED
    BY <1>5, <1>6 DEF IsTotal
<1>8. QED
  BY <1>7

LEMMA TotalExists ==
  ASSUME NEW n \in Nat, NEW s
  PROVE  \E f : IsTotal(f, n, s)
<1> DEFINE Missing == {m \in Nat : ~ \E f : IsTotal(f, m, s)}
<1>1. SUFFICES ASSUME Missing # {} PROVE FALSE
  OBVIOUS
<1>2. PICK m \in Missing : \A l \in Missing : m <= l
  BY <1>1, Least
<1>3. IsTotal([k \in 1 .. 1 |-> 0], 0, s)
  BY DEF IsTotal
<1>4. m # 0
  BY <1>3
<1>5. m - 1 \in Nat /\ m - 1 \notin Missing
  BY <1>2, <1>4
<1>6. PICK f : IsTotal(f, m - 1, s)
  BY <1>5
<1>7. \E g : IsTotal(g, (m - 1) + 1, s)
  BY <1>5, <1>6, TotalGoesOn
<1>8. QED
  BY <1>2, <1>7

LEMMA TotalTyped ==
  ASSUME NEW n \in Nat, NEW s \in [1 .. n -> Nat], NEW f, IsTotal(f, n, s)
  PROVE  f \in [1 .. n + 1 -> Nat]
<1> DEFINE Wrong == {m \in Nat : m \in 1 .. n + 1 /\ f[m] \notin Nat}
<1>1. SUFFICES ASSUME Wrong # {} PROVE FALSE
  <2>1. f = [k \in 1 .. n + 1 |-> f[k]]
    BY DEF IsTotal
  <2>2. QED
    BY <2>1
<1>2. PICK m \in Wrong : \A l \in Wrong : m <= l
  BY <1>1, Least
<1>3. f[m] = IF m = 1 THEN 0 ELSE f[m - 1] + s[m - 1]
  BY DEF IsTotal
<1>4. m # 1 /\ m - 1 \in 1 .. n
  BY <1>3
<1>5. f[m - 1] \in Nat
  BY <1>2, <1>4
<1>6. QED
  BY <1>3, <1>4, <1>5

(* Later totals contain the members between. *)
LEMMA TotalGrows ==
  ASSUME NEW n \in Nat, NEW s \in [1 .. n -> Nat], NEW f, IsTotal(f, n, s),
         NEW k \in 1 .. n, NEW l \in k + 1 .. n + 1
  PROVE  f[k] + s[k] <= f[l]
<1> DEFINE Wrong == {m \in Nat : m \in k + 1 .. n + 1 /\ f[m] < f[k] + s[k]}
<1>0. f \in [1 .. n + 1 -> Nat]
  BY TotalTyped
<1>1. SUFFICES ASSUME Wrong # {} PROVE FALSE
  <2>1. l \notin Wrong
    BY <1>1
  <2>2. f[l] \in Nat /\ f[k] \in Nat /\ s[k] \in Nat
    BY <1>0
  <2>3. QED
    BY <2>1, <2>2
<1>2. PICK m \in Wrong : \A y \in Wrong : m <= y
  BY <1>1, Least
<1>3. f[m] = f[m - 1] + s[m - 1]
  BY DEF IsTotal
<1>4. f[m - 1] \in Nat /\ s[m - 1] \in Nat /\ f[k] \in Nat /\ s[k] \in Nat
  BY <1>0
<1>5. m # k + 1
  <2>1. SUFFICES ASSUME m = k + 1 PROVE FALSE
    OBVIOUS
  <2>2. m - 1 = k
    BY <2>1
  <2>3. f[m] = f[k] + s[k] /\ f[m] < f[k] + s[k]
    BY <1>3, <2>2
  <2>4. QED
    BY <1>4, <2>3
<1>6. m - 1 \in k + 1 .. n + 1 /\ m - 1 \notin Wrong
  BY <1>2, <1>5
<1>7. QED
  BY <1>3, <1>4, <1>6

-----------------------------------------------------------------------------
LEMMA RoundUpGrows ==
  ASSUME NEW n \in Nat, NEW align \in Nat \ {0}
  PROVE  RoundUp(n, align) \in Nat /\ n <= RoundUp(n, align)
<1> DEFINE q == (n + align - 1) \div align
           r == (n + align - 1) % align
<1>1. q \in Int /\ r \in 0 .. align - 1
  BY SMTT(20)
<1>2. n + align - 1 = align * q + r
  BY SMTT(20)
<1>3. n <= align * q
  BY <1>1, <1>2
<1>4. q * align = align * q
  BY <1>1
<1>5. QED
  BY <1>1, <1>3, <1>4 DEF RoundUp

(* The machine and the directory are among those considered. *)
Given == abi \in Abis /\ dir \in Dirs

LEMMA GivenTyped ==
  ASSUME Given
  PROVE  /\ abi.size \in Nat /\ abi.align \in Nat \ {0}
         /\ abi.off_at \in Nat /\ abi.len_at \in Nat /\ abi.name_at \in Nat
         /\ 0 < abi.off_at /\ abi.off_at < abi.len_at /\ abi.len_at < abi.name_at
         /\ abi.name_at <= abi.size
         /\ Len(dir) \in Nat
         /\ \A k \in 1 .. Len(dir) : dir[k] \in Nat \ {0}
<1>1. abi \in DirentLayout
  BY ListingAssumption DEF Given
<1>2. /\ abi.size \in Nat /\ abi.align \in Nat \ {0}
      /\ abi.off_at \in Nat /\ abi.len_at \in Nat /\ abi.name_at \in Nat
  BY <1>1 DEF DirentLayout
<1>3. /\ 0 < abi.off_at /\ abi.off_at < abi.len_at /\ abi.len_at < abi.name_at
      /\ abi.name_at <= abi.size
  BY ListingAssumption DEF Given
<1>4. dir \in Seq(1 .. 127)
  BY ListingAssumption DEF Given
<1> DEFINE Short == 1 .. 127
<1>5. Len(dir) \in Nat /\ \A k \in 1 .. Len(dir) : dir[k] \in Short
  <2>1. dir \in Seq(Short)
    BY <1>4
  <2> HIDE DEF Short
  <2>2. QED
    BY <2>1, ElementOfSeq, LenProperties
<1>6. \A n \in Short : n \in Nat \ {0}
  OBVIOUS
<1> HIDE DEF Short
<1>7. \A k \in 1 .. Len(dir) : dir[k] \in Nat \ {0}
  BY <1>5, <1>6
<1>8. QED
  BY <1>2, <1>3, <1>5, <1>7

LEMMA ReclenTyped ==
  ASSUME Given, NEW k \in 1 .. Len(dir)
  PROVE  reclen(dir[k]) \in Nat /\ abi.name_at + dir[k] < reclen(dir[k])
<1> DEFINE n == abi.size + dir[k] + 1
<1>1. n \in Nat /\ abi.name_at + dir[k] < n
  BY GivenTyped
<1>2. RoundUp(n, abi.align) \in Nat /\ n <= RoundUp(n, abi.align)
  <2> HIDE DEF n
  <2> QED
    BY <1>1, GivenTyped, RoundUpGrows
<1>3. reclen(dir[k]) = RoundUp(n, abi.align)
  BY DEF reclen
<1>4. abi.name_at + dir[k] \in Nat
  BY GivenTyped
<1>5. QED
  <2> HIDE DEF n
  <2> QED
    BY <1>1, <1>2, <1>3, <1>4

(* The lengths of the records, of which Start is the total. *)
Lengths == [k \in 1 .. Len(dir) |-> reclen(dir[k])]

LEMMA StartIsTotal ==
  ASSUME Given
  PROVE  IsTotal(Start, Len(dir), Lengths) /\ Lengths \in [1 .. Len(dir) -> Nat]
<1> DEFINE Defines(f) ==
             f = [k \in 1 .. Len(dir) + 1 |-> IF k = 1 THEN 0 ELSE f[k - 1] + reclen(dir[k - 1])]
<1>1. Len(dir) \in Nat
  BY GivenTyped
<1>2. ASSUME NEW f PROVE IsTotal(f, Len(dir), Lengths) <=> Defines(f)
  <2>1. \A k \in 1 .. Len(dir) + 1 : k # 1 => Lengths[k - 1] = reclen(dir[k - 1])
    BY <1>1 DEF Lengths
  <2>2. QED
    BY <1>1, <2>1 DEF IsTotal
<1>3. \E f : Defines(f)
  BY <1>1, <1>2, TotalExists
<1>4. Defines(Start)
  BY <1>3 DEF Start
<1>5. QED
  BY <1>2, <1>4, ReclenTyped DEF Lengths

(* Each record starts where the one before ends, and none reaches into a   *)
(* later one.                                                              *)
LEMMA StartFacts ==
  ASSUME Given
  PROVE  /\ Start[1] = 0
         /\ \A k \in 1 .. Len(dir) + 1 : Start[k] \in Nat
         /\ \A k \in 1 .. Len(dir) : Start[k + 1] = Start[k] + reclen(dir[k])
<1>1. Len(dir) \in Nat
  BY GivenTyped
<1>2. IsTotal(Start, Len(dir), Lengths) /\ Lengths \in [1 .. Len(dir) -> Nat]
  BY StartIsTotal
<1>3. Start \in [1 .. Len(dir) + 1 -> Nat]
  BY <1>1, <1>2, TotalTyped
<1>4. Start[1] = 0
  BY <1>1, <1>2 DEF IsTotal
<1>5. ASSUME NEW k \in 1 .. Len(dir) PROVE Start[k + 1] = Start[k] + reclen(dir[k])
  <2>1. k + 1 \in 1 .. Len(dir) + 1 /\ k + 1 # 1 /\ (k + 1) - 1 = k
    BY <1>1
  <2>2. Start[k + 1] = Start[k] + Lengths[k]
    BY <1>2, <2>1 DEF IsTotal
  <2>3. QED
    BY <2>2 DEF Lengths
<1>6. QED
  BY <1>3, <1>4, <1>5

LEMMA RecordsApart ==
  ASSUME Given, NEW k \in 1 .. Len(dir), NEW l \in k + 1 .. Len(dir) + 1
  PROVE  Start[k] + reclen(dir[k]) <= Start[l] /\ Start[k] < Start[l]
<1>1. Len(dir) \in Nat
  BY GivenTyped
<1>2. IsTotal(Start, Len(dir), Lengths) /\ Lengths \in [1 .. Len(dir) -> Nat]
  BY StartIsTotal
<1>3. Start[k] + Lengths[k] <= Start[l]
  BY <1>1, <1>2, TotalGrows
<1>4. Lengths[k] = reclen(dir[k])
  BY DEF Lengths
<1>5. /\ reclen(dir[k]) \in Nat /\ 0 < reclen(dir[k])
      /\ Start[k] \in Nat /\ Start[l] \in Nat
  <2>1. abi.name_at + dir[k] \in Nat
    BY GivenTyped
  <2>2. QED
    BY <1>1, <2>1, ReclenTyped, StartFacts
<1>6. QED
  BY <1>3, <1>4, <1>5

LEMMA SameStart ==
  ASSUME UNCHANGED <<abi, dir>>
  PROVE  Start' = Start /\ \A k : reclen(dir[k])' = reclen(dir[k])
  BY DEF Start, reclen

-----------------------------------------------------------------------------
(* The record of file k as the shell reads it, whole and in its place. *)
RecordAt(k) ==
  /\ dbuf[Start[k] + abi.len_at] = <<"reclen", reclen(dir[k]), 0>>
  /\ \A x \in 1 .. dir[k] : dbuf[Start[k] + abi.name_at + x - 1] = Name(k)[x]
  /\ dbuf[Start[k] + abi.name_at + dir[k]] = Nul

(* The kernel's loop: the buffer begins with the records of the files it   *)
(* has been through, one after the other.                                  *)
Packed ==
  /\ dbuf \in [0 .. COUNT - 1 -> Byte]
  /\ index \in 0 .. Len(dir) /\ pos = Start[index + 1] /\ pos <= COUNT
  /\ \A k \in 1 .. index : RecordAt(k)

(* It stopped at the end of the directory, or at a name that does not fit. *)
Full == index < Len(dir) => Start[index + 2] > COUNT

(* The shell's loop: it is at the record behind those it has printed.      *)
Walked ==
  /\ pc \in {"prompt", "getdents", "print"}
  /\ nread \in Int
  /\ Len(printed) <= index /\ printed \in Seq({Name(k) : k \in 1 .. Len(dir)})
  /\ \A k \in 1 .. Len(printed) : printed[k] = Name(k)
  /\ pc = "getdents" => printed = <<>> /\ bpos = 0
  /\ pc = "print" => bpos = Start[Len(printed) + 1] /\ (nread = -1 \/ (nread = pos /\ Full))
  /\ (pc = "prompt" /\ nread > 0) => Len(printed) = index /\ Full

ListingIInv == Given /\ Packed /\ Walked

-----------------------------------------------------------------------------
LEMMA StringIs ==
  ASSUME NEW b \in Nat, NEW n \in Nat, b + n < COUNT,
         \A x \in 1 .. n : dbuf[b + x - 1] # Nul,
         dbuf[b + n] = Nul
  PROVE  String(b) = [x \in 1 .. n |-> dbuf[b + x - 1]]
<1> DEFINE Ends(m) ==
             /\ b + m >= COUNT \/ dbuf[b + m] = Nul
             /\ \A y \in 0 .. m - 1 : dbuf[b + y] # Nul
<1>0. COUNT \in Nat
  BY ListingAssumption
<1>1. \A y \in 0 .. n - 1 : dbuf[b + y] # Nul
  <2>1. \A y \in 0 .. n - 1 : y + 1 \in 1 .. n /\ b + (y + 1) - 1 = b + y
    OBVIOUS
  <2>2. QED
    BY <2>1
<1>2. n \in 0 .. COUNT /\ Ends(n)
  BY <1>0, <1>1
<1>3. ASSUME NEW m \in 0 .. COUNT, Ends(m) PROVE m = n
  <2>1. ~ (m < n)
    <3>1. SUFFICES ASSUME m < n PROVE FALSE
      OBVIOUS
    <3>2. b + m < COUNT /\ m \in 0 .. n - 1
      BY <1>0, <3>1
    <3>3. dbuf[b + m] # Nul
      BY <1>1, <3>2
    <3>4. ~ (b + m >= COUNT)
      BY <1>0, <3>2
    <3>5. b + m >= COUNT \/ dbuf[b + m] = Nul
      BY <1>3
    <3>6. QED
      BY <3>3, <3>4, <3>5
  <2>2. ~ (n < m)
    <3>1. SUFFICES ASSUME n < m PROVE FALSE
      OBVIOUS
    <3>2. n \in 0 .. m - 1
      BY <1>0, <3>1
    <3>3. QED
      BY <1>3, <3>2
  <2>3. QED
    BY <1>0, <2>1, <2>2
<1>4. (CHOOSE m \in 0 .. COUNT : Ends(m)) = n
  <2> HIDE DEF Ends
  <2> QED
    BY <1>2, <1>3
<1>5. QED
  BY <1>4 DEF String

(* What the shell finds in a record: the length and the name. *)
LEMMA RecordIsRead ==
  ASSUME Given, Packed, NEW k \in 1 .. index
  PROVE  /\ Start[k] + dbuf[Start[k] + abi.len_at][2] = Start[k + 1]
         /\ String(Start[k] + abi.name_at) = Name(k)
<1>1. /\ RecordAt(k) /\ k \in 1 .. Len(dir) /\ index \in 0 .. Len(dir)
      /\ Len(dir) \in Nat /\ Start[index + 1] <= COUNT
  BY GivenTyped DEF Packed
<1>2. Start[k] \in Nat /\ reclen(dir[k]) \in Nat /\ Start[k + 1] = Start[k] + reclen(dir[k])
  BY <1>1, StartFacts, ReclenTyped
<1>3. Start[k] + dbuf[Start[k] + abi.len_at][2] = Start[k + 1]
  BY <1>1, <1>2 DEF RecordAt
<1> DEFINE b == Start[k] + abi.name_at
<1>4. b \in Nat /\ dir[k] \in Nat
  <2>1. abi.name_at \in Nat /\ dir[k] \in Nat \ {0}
    BY <1>1, GivenTyped
  <2>2. QED
    BY <1>2, <2>1
<1>5. b + dir[k] < COUNT
  <2>1. Start[k] + reclen(dir[k]) <= Start[index + 1]
    BY <1>1, RecordsApart
  <2>2. Start[index + 1] \in Nat /\ COUNT \in Nat
    BY <1>1, StartFacts, ListingAssumption
  <2>3. abi.name_at + dir[k] < reclen(dir[k]) /\ abi.name_at \in Nat
    BY <1>1, ReclenTyped, GivenTyped
  <2> DEFINE at == Start[k]
             m == abi.name_at
             d == dir[k]
             len == reclen(dir[k])
             last == Start[index + 1]
  <2>4. /\ at \in Nat /\ m \in Nat /\ d \in Nat /\ len \in Nat /\ last \in Nat
        /\ at + len <= last /\ m + d < len /\ last <= COUNT
    BY <1>1, <1>2, <1>4, <2>1, <2>2, <2>3
  <2>5. (at + m) + d < COUNT
    <3> HIDE DEF at, m, d, len, last
    <3> QED
      BY <2>2, <2>4
  <2>6. QED
    BY <2>5
<1>6. \A x \in 1 .. dir[k] : dbuf[b + x - 1] = <<"char", k, x>>
  BY <1>1 DEF RecordAt, Name
<1>7. dbuf[b + dir[k]] = Nul
  BY <1>1 DEF RecordAt
<1>8. \A x \in 1 .. dir[k] : dbuf[b + x - 1] # Nul
  BY <1>6 DEF Nul
<1>9. String(b) = [x \in 1 .. dir[k] |-> dbuf[b + x - 1]]
  <2> HIDE DEF b
  <2> QED
    BY <1>4, <1>5, <1>7, <1>8, StringIs
<1>10. QED
  BY <1>3, <1>6, <1>9 DEF Name

-----------------------------------------------------------------------------
(* Where a round of sys_getdents writes: behind the records that are       *)
(* there, within its own, and within the buffer.                           *)
LEMMA RoundIsPlaced ==
  ASSUME Given, Packed, sys_getdents
  PROVE  /\ index + 1 \in 1 .. Len(dir)
         /\ pos \in Nat /\ reclen(dir[index + 1]) \in Nat /\ COUNT \in Nat
         /\ pos + reclen(dir[index + 1]) <= COUNT
         /\ abi.name_at + dir[index + 1] < reclen(dir[index + 1])
<1>1. index + 1 \in 1 .. Len(dir)
  BY GivenTyped DEF Packed, sys_getdents
<1>2. pos \in Nat
  BY <1>1, StartFacts, GivenTyped DEF Packed
<1>3. pos + reclen(dir[index + 1]) <= COUNT
  BY DEF sys_getdents, fits
<1>4. QED
  BY <1>1, <1>2, <1>3, ReclenTyped, ListingAssumption

(* What it leaves in the buffer. *)
LEMMA RoundWrites ==
  ASSUME Given, Packed, sys_getdents
  PROVE  /\ dbuf' \in [0 .. COUNT - 1 -> Byte]
         /\ \A b \in 0 .. pos - 1 : dbuf'[b] = dbuf[b]
         /\ dbuf'[pos + abi.len_at] = <<"reclen", reclen(dir[index + 1]), 0>>
         /\ \A x \in 1 .. dir[index + 1] :
              dbuf'[pos + abi.name_at + x - 1] = Name(index + 1)[x]
         /\ dbuf'[pos + abi.name_at + dir[index + 1]] = Nul
<1> DEFINE n == index + 1
           len == reclen(dir[n])
           o == abi.off_at
           l == abi.len_at
           m == abi.name_at
           d == dir[n]
           after(b) ==
             CASE b = pos     -> <<"ino", n, 0>>
               [] b = pos + o -> <<"off", pos + len, 0>>
               [] b = pos + l -> <<"reclen", len, 0>>
               [] b = pos + m + d -> Nul
               [] b \in pos + m .. pos + m + d - 1 -> Name(n)[b - pos - m + 1]
               [] OTHER -> dbuf[b]
<1>1. DOMAIN dbuf = 0 .. COUNT - 1
  BY DEF Packed
<1>2. dbuf' = [b \in 0 .. COUNT - 1 |-> after(b)]
  BY <1>1 DEF sys_getdents, record
<1>3. /\ n \in 1 .. Len(dir) /\ n \in Nat /\ pos \in Nat /\ len \in Nat /\ COUNT \in Nat
      /\ pos + len <= COUNT /\ m + d < len
  BY RoundIsPlaced, GivenTyped
<1>4. /\ d \in Nat /\ 0 < d /\ o \in Nat /\ l \in Nat /\ m \in Nat
      /\ 0 < o /\ o < l /\ l < m
  BY <1>3, GivenTyped
<1>5. \A x \in 1 .. d : Name(n)[x] = <<"char", n, x>>
  BY DEF Name
<1> HIDE DEF n, len, o, l, m, d
<1>6. ASSUME NEW b \in 0 .. COUNT - 1 PROVE after(b) \in Byte
  <2>1. dbuf[b] \in Byte
    BY DEF Packed
  <2>2. ASSUME b \in pos + m .. pos + m + d - 1
        PROVE  Name(n)[b - pos - m + 1] \in Byte
    <3>1. b - pos - m + 1 \in 1 .. d
      BY <1>3, <1>4, <2>2
    <3>2. Name(n)[b - pos - m + 1] = <<"char", n, b - pos - m + 1>>
      BY <1>5, <3>1
    <3>3. b - pos - m + 1 \in Nat
      BY <3>1, <1>4
    <3>4. QED
      BY <1>3, <3>2, <3>3 DEF Byte
  <2>3. /\ <<"ino", n, 0>> \in Byte /\ <<"off", pos + len, 0>> \in Byte
        /\ <<"reclen", len, 0>> \in Byte /\ Nul \in Byte
    BY <1>3 DEF Byte, Nul
  <2>4. QED
    BY <2>1, <2>2, <2>3
<1>7. ASSUME NEW b \in 0 .. pos - 1 PROVE dbuf'[b] = dbuf[b]
  <2>1. /\ b \in 0 .. COUNT - 1 /\ b # pos /\ b # pos + o /\ b # pos + l
        /\ b # pos + m + d /\ b \notin pos + m .. pos + m + d - 1
    BY <1>3, <1>4
  <2>3. after(b) = dbuf[b]
    BY <2>1
  <2>2. QED
    BY <1>2, <2>1, <2>3
<1>8. dbuf'[pos + l] = <<"reclen", len, 0>>
  <2> DEFINE b == pos + l
  <2>1. /\ b \in 0 .. COUNT - 1 /\ b # pos /\ b # pos + o
        /\ b # pos + m + d /\ b \notin pos + m .. pos + m + d - 1
    BY <1>3, <1>4
  <2> HIDE DEF b
  <2>2. b = pos + l => after(b) = <<"reclen", len, 0>>
    BY <2>1
  <2>3. QED
    BY <1>2, <2>1, <2>2 DEF b
<1>9. ASSUME NEW x \in 1 .. d
      PROVE  dbuf'[pos + m + x - 1] = Name(n)[x]
  <2> DEFINE b == pos + m + x - 1
  <2>1. /\ b \in 0 .. COUNT - 1 /\ b # pos /\ b # pos + o /\ b # pos + l
        /\ b # pos + m + d
        /\ b \in pos + m .. pos + m + d - 1
        /\ b - pos - m + 1 = x
    BY <1>3, <1>4
  <2> HIDE DEF b
  <2>2. after(b) = Name(n)[x]
    BY <2>1
  <2>3. dbuf'[b] = Name(n)[x]
    BY <1>2, <2>1, <2>2
  <2>4. QED
    BY <2>3 DEF b
<1>10. dbuf'[pos + m + d] = Nul
  <2> DEFINE b == pos + m + d
  <2>1. /\ b \in 0 .. COUNT - 1 /\ b # pos /\ b # pos + o /\ b # pos + l
        /\ b \notin pos + m .. pos + m + d - 1
    BY <1>3, <1>4
  <2> HIDE DEF b
  <2>2. b = pos + m + d => after(b) = Nul
    BY <2>1
  <2>3. QED
    BY <1>2, <2>1, <2>2 DEF b
<1>11. dbuf' \in [0 .. COUNT - 1 -> Byte]
  BY <1>2, <1>6
<1>12. QED
  BY <1>7, <1>8, <1>9, <1>10, <1>11 DEF n, len, l, m, d

(* Where the fields of a record lie that ends before p. *)
LEMMA WithinRecord ==
  ASSUME NEW p \in Nat, NEW d \in Nat, NEW l \in Nat, NEW m \in Nat, NEW at \in Nat, NEW len \in Nat,
         l < m, at + len <= p, m + d < len
  PROVE  /\ at + l \in 0 .. p - 1 /\ at + m + d \in 0 .. p - 1
         /\ \A x \in 1 .. d : at + m + x - 1 \in 0 .. p - 1
  OBVIOUS

LEMMA RoundPacks ==
  ASSUME Given, Packed, sys_getdents
  PROVE  Packed'
<1>1. /\ UNCHANGED <<abi, dir>> /\ index' = index + 1
      /\ pos' = pos + reclen(dir[index + 1])
  BY DEF sys_getdents
<1>2. /\ index + 1 \in 1 .. Len(dir) /\ index \in Nat /\ pos \in Nat /\ pos = Start[index + 1]
      /\ Len(dir) \in Nat /\ COUNT \in Nat
      /\ pos + reclen(dir[index + 1]) <= COUNT
  <2>1. /\ index + 1 \in 1 .. Len(dir) /\ pos \in Nat /\ COUNT \in Nat
        /\ pos + reclen(dir[index + 1]) <= COUNT
    BY RoundIsPlaced
  <2>2. Len(dir) \in Nat
    BY GivenTyped
  <2>3. index \in Nat /\ pos = Start[index + 1]
    BY <2>2 DEF Packed
  <2>4. QED
    BY <2>1, <2>2, <2>3
<1>3. Start' = Start /\ \A k : reclen(dir[k])' = reclen(dir[k])
  BY <1>1, SameStart
<1>4. pos' = Start[index' + 1]
  BY <1>1, <1>2, StartFacts
<1>5. dbuf' \in [0 .. COUNT - 1 -> Byte]
  BY RoundWrites
<1>6. ASSUME NEW k \in 1 .. index PROVE RecordAt(k)'
  <2>1. RecordAt(k) /\ k \in 1 .. Len(dir)
    BY <1>2 DEF Packed
  <2>2. /\ Start[k] + reclen(dir[k]) <= pos /\ Start[k] \in Nat /\ reclen(dir[k]) \in Nat
        /\ abi.name_at + dir[k] < reclen(dir[k])
    <3>1. index + 1 \in k + 1 .. Len(dir) + 1 /\ k \in 1 .. Len(dir) + 1
      BY <1>2
    <3>2. Start[k] + reclen(dir[k]) <= Start[index + 1]
      BY <2>1, <3>1, RecordsApart
    <3>3. Start[k] \in Nat
      BY <3>1, StartFacts
    <3>4. reclen(dir[k]) \in Nat /\ abi.name_at + dir[k] < reclen(dir[k])
      BY <2>1, ReclenTyped
    <3>5. QED
      BY <1>2, <3>2, <3>3, <3>4
  <2>3. /\ abi.len_at \in Nat /\ abi.name_at \in Nat /\ abi.len_at < abi.name_at
        /\ dir[k] \in Nat \ {0}
    BY <2>1, GivenTyped
  <2> DEFINE d == dir[k]
             l == abi.len_at
             m == abi.name_at
             at == Start[k]
             len == reclen(dir[k])
  <2>10. /\ d \in Nat /\ l \in Nat /\ m \in Nat /\ at \in Nat /\ len \in Nat
         /\ l < m /\ at + len <= pos /\ m + d < len
    BY <2>2, <2>3
  <2> HIDE DEF d, l, m, at, len
  <2>4. pos \in Nat
    BY <1>2
  <2>5. at + l \in 0 .. pos - 1 /\ at + m + d \in 0 .. pos - 1
    BY <2>4, <2>10, WithinRecord
  <2>6. \A x \in 1 .. d : at + m + x - 1 \in 0 .. pos - 1
    BY <2>4, <2>10, WithinRecord
  <2>7. \A b \in 0 .. pos - 1 : dbuf'[b] = dbuf[b]
    BY RoundWrites
  <2>8. Name(k)' = Name(k)
    BY <1>1 DEF Name
  <2>9. QED
    BY <1>1, <1>3, <2>1, <2>4, <2>5, <2>6, <2>7, <2>8 DEF RecordAt, d, l, m, at
<1>7. \A k : k = index' => RecordAt(k)'
  <2>1. PICK n \in Nat : n = index'
    BY <1>1, <1>2
  <2>2. Name(n)' = Name(n)
    BY <1>1 DEF Name
  <2>3. Start[n] = pos
    BY <1>1, <1>2, <2>1
  <2>4. /\ dbuf'[pos + abi.len_at] = <<"reclen", reclen(dir[n]), 0>>
        /\ \A x \in 1 .. dir[n] : dbuf'[pos + abi.name_at + x - 1] = Name(n)[x]
        /\ dbuf'[pos + abi.name_at + dir[n]] = Nul
    BY <1>1, <2>1, RoundWrites
  <2>5. RecordAt(n)'
    BY <1>1, <1>3, <2>2, <2>3, <2>4 DEF RecordAt
  <2>6. QED
    BY <2>1, <2>5
<1>8. \A k \in 1 .. index' : RecordAt(k)'
  <2>1. \A k \in 1 .. index' : k \in 1 .. index \/ k = index'
    BY <1>1, <1>2
  <2>2. QED
    BY <1>1, <1>6, <1>7, <2>1
<1>9. index' \in 0 .. Len(dir')
  BY <1>1, <1>2
<1>10. pos' <= COUNT
  BY <1>1, <1>2
<1>11. QED
  BY <1>3, <1>4, <1>5, <1>8, <1>9, <1>10 DEF Packed

LEMMA StillPacked ==
  ASSUME Given, Packed, UNCHANGED <<abi, dir, pos, index, dbuf>>
  PROVE  Packed'
<1>1. \A k : RecordAt(k) => RecordAt(k)'
  BY SameStart DEF RecordAt, Name
<1>2. Start' = Start
  BY SameStart
<1>3. QED
  BY <1>1, <1>2 DEF Packed

(* A new call packs anew, over what the last one left. *)
LEMMA PacksAnew ==
  ASSUME Given, dbuf' \in [0 .. COUNT - 1 -> Byte], UNCHANGED <<abi, dir>>,
         pos' = 0, index' = 0
  PROVE  Packed'
<1>1. Start'[1] = 0
  BY SameStart, StartFacts
<1>2. Len(dir) \in Nat /\ COUNT \in Nat
  BY GivenTyped, ListingAssumption
<1>3. \A k \in 1 .. index' : RecordAt(k)'
  OBVIOUS
<1>4. QED
  BY <1>1, <1>2, <1>3 DEF Packed

-----------------------------------------------------------------------------
LEMMA SameNames ==
  ASSUME UNCHANGED dir
  PROVE  \A k : Name(k)' = Name(k)
  BY DEF Name

(* The shell's variables, when a step leaves them and the directory alone. *)
LEMMA StillWalked ==
  ASSUME Given, Walked, UNCHANGED listing_vars
  PROVE  Walked'
<1>1. Start' = Start /\ \A k : Name(k)' = Name(k)
  BY SameStart, SameNames DEF listing_vars
<1>2. Full' = Full
  BY <1>1 DEF Full, listing_vars
<1>3. QED
  BY <1>1, <1>2 DEF Walked, listing_vars

LEMMA ListingStarts == ListingInit => ListingIInv
<1> SUFFICES ASSUME ListingInit PROVE ListingIInv
  OBVIOUS
<1>1. Given
  BY DEF ListingInit, Given
<1>2. Junk \in Byte
  BY DEF Junk, Byte
<1>3. Start[1] = 0 /\ Len(dir) \in Nat /\ COUNT \in Nat
  BY <1>1, StartFacts, GivenTyped, ListingAssumption
<1>4. Packed
  BY <1>2, <1>3 DEF ListingInit, Packed
<1>5. Walked
  BY <1>3 DEF ListingInit, Walked
<1>6. QED
  BY <1>1, <1>4, <1>5 DEF ListingIInv

LEMMA CallWalks ==
  ASSUME ListingIInv, ls
  PROVE  Walked'
<1>1. /\ UNCHANGED <<abi, dir>> /\ index' = 0 /\ printed' = <<>> /\ bpos' = 0
      /\ \/ pc' = "getdents" /\ nread' = nread
         \/ pc' = "print" /\ nread' = -1
  BY DEF ls
<1>2. Start'[1] = 0 /\ nread \in Int
  BY SameStart, StartFacts, <1>1 DEF ListingIInv, Walked
<1>3. Len(printed') = 0 /\ (\A k \in 1 .. Len(printed') : FALSE)
  BY <1>1
<1>4. QED
  BY <1>1, <1>2, <1>3 DEF Walked

LEMMA RoundWalks ==
  ASSUME ListingIInv, sys_getdents
  PROVE  Walked'
<1>1. /\ UNCHANGED <<abi, dir, pc, nread, bpos, printed>> /\ pc = "getdents"
      /\ index' = index + 1 /\ index \in Nat
  BY GivenTyped DEF sys_getdents, ListingIInv, Packed
<1>2. printed = <<>> /\ bpos = 0 /\ nread \in Int /\ Len(printed) = 0
  BY <1>1 DEF ListingIInv, Walked
<1>3. QED
  BY <1>1, <1>2 DEF Walked

LEMMA ReturnWalks ==
  ASSUME ListingIInv, sys_getdents_return
  PROVE  Walked'
<1>1. /\ UNCHANGED <<abi, dir, pos, index, dbuf, bpos, printed>> /\ pc = "getdents"
      /\ pc' = "print" /\ nread' = pos
      /\ index < Len(dir) => ~ fits(index + 1)
  BY DEF sys_getdents_return
<1>2. printed = <<>> /\ bpos = 0 /\ Len(printed) = 0
  BY <1>1 DEF ListingIInv, Walked
<1>3. Given /\ pos \in Nat /\ index \in 0 .. Len(dir) /\ Len(dir) \in Nat /\ pos = Start[index + 1]
  BY GivenTyped, StartFacts DEF ListingIInv, Packed
<1>4. Start' = Start /\ Start[1] = 0
  BY <1>1, <1>3, SameStart, StartFacts
<1>5. Full
  <2>1. SUFFICES ASSUME index < Len(dir) PROVE Start[index + 2] > COUNT
    BY DEF Full
  <2>2. index + 1 \in 1 .. Len(dir) /\ (index + 1) + 1 = index + 2
    BY <1>3, <2>1
  <2>3. Start[index + 2] = pos + reclen(dir[index + 1])
    BY <1>3, <2>2, StartFacts
  <2>4. ~ (pos + reclen(dir[index + 1]) <= COUNT)
    BY <1>1, <2>1 DEF fits
  <2>5. reclen(dir[index + 1]) \in Nat /\ COUNT \in Nat
    BY <1>3, <2>2, ReclenTyped, ListingAssumption
  <2>6. QED
    BY <1>3, <2>3, <2>4, <2>5
<1>6. Full'
  BY <1>1, <1>4, <1>5 DEF Full
<1>7. QED
  BY <1>1, <1>2, <1>3, <1>4, <1>6 DEF Walked

(* The shell prints the record it is at, and goes on to the next. *)
LEMMA PrintWalks ==
  ASSUME ListingIInv, print_name
  PROVE  Walked'
<1>1. /\ UNCHANGED <<abi, dir, pc, pos, index, dbuf, nread>> /\ pc = "print"
      /\ bpos < nread
      /\ printed' = Append(printed, String(bpos + abi.name_at))
      /\ bpos' = bpos + dbuf[bpos + abi.len_at][2]
  BY DEF print_name
<1>2. PICK n \in Nat : n = Len(printed)
  BY DEF ListingIInv, Walked
<1>3. /\ Given /\ Packed /\ n <= index /\ printed \in Seq({Name(k) : k \in 1 .. Len(dir)})
      /\ (\A k \in 1 .. n : printed[k] = Name(k)) /\ nread \in Int
      /\ bpos = Start[n + 1] /\ (nread = -1 \/ (nread = pos /\ Full))
      /\ index \in 0 .. Len(dir) /\ Len(dir) \in Nat /\ pos = Start[index + 1]
  BY <1>1, <1>2, GivenTyped DEF ListingIInv, Walked, Packed
<1>4. bpos \in Nat /\ nread # -1
  <2>1. bpos \in Nat
    BY <1>3, StartFacts
  <2>2. QED
    BY <1>1, <1>3, <2>1
<1>5. n + 1 \in 1 .. index
  BY <1>1, <1>3, <1>4
<1>6. /\ bpos' = Start[(n + 1) + 1]
      /\ String(bpos + abi.name_at) = Name(n + 1)
  <2>1. /\ Start[n + 1] + dbuf[Start[n + 1] + abi.len_at][2] = Start[(n + 1) + 1]
        /\ String(Start[n + 1] + abi.name_at) = Name(n + 1)
    BY <1>3, <1>5, RecordIsRead
  <2>2. QED
    BY <1>1, <1>3, <2>1
<1>7. printed' = Append(printed, Name(n + 1)) /\ Len(printed') = n + 1
  BY <1>1, <1>2, <1>3, <1>6
<1>8. printed' \in Seq({Name(k) : k \in 1 .. Len(dir)})
  <2>1. Name(n + 1) \in {Name(k) : k \in 1 .. Len(dir)}
    BY <1>3, <1>5
  <2>2. QED
    BY <1>3, <1>7, <2>1
<1>9. \A k \in 1 .. n + 1 : printed'[k] = Name(k)
  <2>1. \A k \in 1 .. n : printed'[k] = printed[k]
    BY <1>2, <1>3, <1>7
  <2>2. printed'[n + 1] = Name(n + 1)
    BY <1>2, <1>3, <1>7
  <2>3. \A k \in 1 .. n + 1 : k \in 1 .. n \/ k = n + 1
    OBVIOUS
  <2>4. QED
    BY <1>3, <2>1, <2>2, <2>3
<1>10. Start' = Start /\ (\A k : Name(k)' = Name(k))
  BY <1>1, SameStart, SameNames
<1>11. Full' = Full
  BY <1>1, <1>10 DEF Full
<1>12. printed' \in Seq({Name(k) : k \in 1 .. Len(dir)})'
  BY <1>1, <1>8, <1>10
<1>13. Len(printed') <= index'
  BY <1>1, <1>3, <1>5, <1>7
<1>14. \A k \in 1 .. Len(printed') : printed'[k] = Name(k)'
  BY <1>7, <1>9, <1>10
<1>15. bpos' = Start'[Len(printed') + 1] /\ (nread' = -1 \/ (nread' = pos' /\ Full'))
  BY <1>1, <1>3, <1>6, <1>7, <1>10, <1>11
<1>16. QED
  BY <1>1, <1>3, <1>12, <1>13, <1>14, <1>15 DEF Walked

LEMMA EndWalks ==
  ASSUME ListingIInv, print_end
  PROVE  Walked'
<1>1. /\ UNCHANGED <<abi, dir, pos, index, dbuf, nread, bpos, printed>> /\ pc = "print"
      /\ bpos >= nread /\ pc' = "prompt"
  BY DEF print_end
<1>2. PICK n \in Nat : n = Len(printed)
  BY DEF ListingIInv, Walked
<1>3. /\ Given /\ n <= index /\ bpos = Start[n + 1] /\ (nread = -1 \/ (nread = pos /\ Full))
      /\ index \in 0 .. Len(dir) /\ Len(dir) \in Nat /\ pos = Start[index + 1]
  BY <1>1, <1>2, GivenTyped DEF ListingIInv, Walked, Packed
<1>4. nread > 0 => n = index /\ Full
  <2>1. SUFFICES ASSUME nread > 0 PROVE n = index /\ Full
    OBVIOUS
  <2>2. nread = pos /\ Full
    BY <1>3, <2>1
  <2>3. SUFFICES ASSUME n < index PROVE FALSE
    BY <1>3, <2>2
  <2>4. n + 1 \in 1 .. Len(dir) /\ index + 1 \in (n + 1) + 1 .. Len(dir) + 1
    BY <1>3, <2>3
  <2>5. Start[n + 1] < Start[index + 1]
    BY <1>3, <2>4, RecordsApart
  <2>6. Start[n + 1] \in Nat /\ Start[index + 1] \in Nat
    BY <1>3, <2>4, StartFacts
  <2>7. QED
    BY <1>1, <1>3, <2>2, <2>5, <2>6
<1>5. Start' = Start /\ (\A k : Name(k)' = Name(k))
  BY <1>1, SameStart, SameNames
<1>6. Full' = Full
  BY <1>1, <1>5 DEF Full
<1>7. (pc' = "prompt" /\ nread' > 0) => Len(printed') = index' /\ Full'
  BY <1>1, <1>2, <1>4, <1>6
<1>8. QED
  BY <1>1, <1>5, <1>7 DEF ListingIInv, Walked

LEMMA ListingGoesOn == ListingIInv /\ [ListingNext]_listing_vars => ListingIInv'
<1> SUFFICES ASSUME ListingIInv, [ListingNext]_listing_vars PROVE ListingIInv'
  OBVIOUS
<1>1. UNCHANGED <<abi, dir>>
  BY DEF ListingNext, ls, sys_getdents, sys_getdents_return, print_name, print_end, listing_vars
<1>2. Given'
  BY <1>1 DEF ListingIInv, Given
<1>3. Packed'
  <2>1. CASE ls
    <3>1. dbuf' \in [0 .. COUNT - 1 -> Byte] /\ pos' = 0 /\ index' = 0
      BY <2>1 DEF ls, ListingIInv, Packed
    <3>2. QED
      BY <1>1, <3>1, PacksAnew DEF ListingIInv
  <2>2. CASE sys_getdents
    BY <2>2, RoundPacks DEF ListingIInv
  <2>3. CASE sys_getdents_return \/ print_name \/ print_end \/ UNCHANGED listing_vars
    <3>1. UNCHANGED <<abi, dir, pos, index, dbuf>>
      BY <2>3 DEF sys_getdents_return, print_name, print_end, listing_vars
    <3>2. QED
      BY <3>1, StillPacked DEF ListingIInv
  <2>4. QED
    BY <2>1, <2>2, <2>3 DEF ListingNext
<1>4. Walked'
  <2>1. CASE UNCHANGED listing_vars
    BY <2>1, StillWalked DEF ListingIInv
  <2>2. QED
    BY <2>1, CallWalks, RoundWalks, ReturnWalks, PrintWalks, EndWalks DEF ListingNext
<1>5. QED
  BY <1>2, <1>3, <1>4 DEF ListingIInv

(* Whatever the buffer held, and on both layouts of struct linux_dirent,   *)
(* what ls has printed are the first names of the directory, whole; and a  *)
(* finished ls that the kernel answered has printed every name whose       *)
(* record fits in the buffer behind those before it.                       *)
THEOREM LsPrintsWhatFits == ListingSpec => []PrintsWhatFits
<1>1. ListingIInv => PrintsWhatFits
  <2> SUFFICES ASSUME ListingIInv PROVE PrintsWhatFits
    OBVIOUS
  <2>1. /\ Given /\ index \in 0 .. Len(dir) /\ Len(dir) \in Nat /\ COUNT \in Nat
        /\ Start[index + 1] <= COUNT
        /\ Len(printed) \in Nat /\ Len(printed) <= index
        /\ \A k \in 1 .. Len(printed) : printed[k] = Name(k)
    <3>1. Given /\ COUNT \in Nat
      BY ListingAssumption DEF ListingIInv
    <3>2. index \in 0 .. Len(dir) /\ Start[index + 1] <= COUNT
      BY DEF ListingIInv, Packed
    <3>3. /\ Len(printed) \in Nat /\ Len(printed) <= index
          /\ \A k \in 1 .. Len(printed) : printed[k] = Name(k)
      BY DEF ListingIInv, Walked
    <3>4. QED
      BY <3>1, <3>2, <3>3, GivenTyped
  <2>2. ASSUME pc = "prompt", nread > 0, NEW k \in 1 .. Len(dir)
        PROVE  k <= Len(printed) <=> Start[k + 1] <= COUNT
    <3>1. Len(printed) = index /\ Full
      BY <2>2 DEF ListingIInv, Walked
    <3>2. Start[k + 1] \in Nat /\ Start[index + 1] \in Nat
      BY <2>1, StartFacts
    <3>3. CASE k < index
      <4>1. k + 1 \in 1 .. Len(dir) /\ index + 1 \in (k + 1) + 1 .. Len(dir) + 1
        BY <2>1, <3>3
      <4>2. Start[k + 1] < Start[index + 1]
        BY <2>1, <4>1, RecordsApart
      <4>3. QED
        BY <2>1, <3>1, <3>2, <3>3, <4>2
    <3>4. CASE k = index
      BY <2>1, <3>1, <3>4
    <3>5. CASE k > index
      <4>1. index < Len(dir) /\ index + 2 \in 1 .. Len(dir) + 1
        BY <2>1, <3>5
      <4>2. Start[index + 2] > COUNT /\ Start[index + 2] \in Nat
        BY <2>1, <3>1, <4>1, StartFacts DEF Full
      <4>3. Start[index + 2] <= Start[k + 1]
        <5>1. CASE k = index + 1
          BY <2>1, <4>2, <5>1
        <5>2. CASE k > index + 1
          <6>1. index + 2 \in 1 .. Len(dir) /\ k + 1 \in (index + 2) + 1 .. Len(dir) + 1
            BY <2>1, <5>2
          <6>2. Start[index + 2] < Start[k + 1]
            BY <2>1, <6>1, RecordsApart
          <6>3. QED
            BY <3>2, <4>2, <6>2
        <5>3. QED
          BY <2>1, <3>5, <5>1, <5>2
      <4>4. ~ (Start[k + 1] <= COUNT)
        BY <2>1, <3>2, <4>2, <4>3
      <4>5. QED
        BY <2>1, <3>1, <3>5, <4>4
    <3>6. QED
      BY <2>1, <3>3, <3>4, <3>5
  <2>3. Len(printed) <= Len(dir)
    BY <2>1
  <2>4. QED
    BY <2>1, <2>2, <2>3 DEF PrintsWhatFits
<1>2. QED
  BY <1>1, ListingStarts, ListingGoesOn, PTL DEF ListingSpec
=============================================================================
