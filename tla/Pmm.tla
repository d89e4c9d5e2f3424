--------------------------------- MODULE Pmm ---------------------------------
(***************************************************************************)
(* The physical memory manager, kernel/mm/pmm.c: one bit for each page     *)
(* below 16 MiB, set when the page may not be handed out.  pmm_init works  *)
(* from the boot loader's memory map; the two allocators are modelled one  *)
(* iteration of their loops at a time.  Addresses are in units of which a  *)
(* page has PAGE_SIZE, so that boundaries inside a page remain.            *)
(***************************************************************************)
EXTENDS Integers

CONSTANTS
  PMM_MAX_PAGES,   \* pmm.c:9, 4096 in the code
  PAGE_SIZE,       \* 4096
  LOW_PAGES,       \* 0x100, the pages below 1 MiB
  KERNEL_END,      \* the address _kernel_end
  Boots,           \* the boot loader's reports: flag 6 and the memory map as
                   \* has_mmap and mmap, flag 3 and the modules alike
  Counts           \* the arguments of pmm_alloc_pages that are considered

Page == 0 .. PMM_MAX_PAGES - 1

ASSUME PmmAssumption ==
  /\ PMM_MAX_PAGES \in Nat \ {0}
  /\ PAGE_SIZE \in Nat \ {0}
  /\ LOW_PAGES \in Nat
  /\ KERNEL_END \in Nat
  /\ \A mb \in Boots :
       /\ mb.has_mmap \in BOOLEAN /\ mb.has_mods \in BOOLEAN
       /\ \A r \in mb.mmap : r.type \in Nat /\ r.base_addr \in Nat /\ r.length \in Nat
       /\ \A m \in mb.mods : m.mod_start \in Nat /\ m.mod_end \in Nat
  /\ Counts \subseteq Int
  /\ 1 \in Counts

VARIABLES
  pmm_bitmap,       \* TRUE: the bit is set
  mb,               \* the report kmain passes to pmm_init
  pc,               \* "boot", "idle", in a loop of an allocator, "panic"
  i, start, found, count,   \* the locals of the allocators
  held              \* history: pages handed out and not freed

locals == <<start, found, count>>
vars   == <<pmm_bitmap, mb, pc, i, locals, held>>

Init ==
  /\ pmm_bitmap = [p \in Page |-> TRUE]
  /\ mb \in Boots
  /\ pc = "boot"
  /\ i = 0 /\ start = -1 /\ found = 0 /\ count = 0
  /\ held = {}

-----------------------------------------------------------------------------
(* The page of an address, and the first page not below it. *)
PageOf(addr) == addr \div PAGE_SIZE
PageUp(addr) == (addr + PAGE_SIZE - 1) \div PAGE_SIZE

(* Mutant: the end of a region is rounded up. *)
Available_RoundUp(p) ==
  /\ mb.has_mmap
  /\ \E r \in mb.mmap :
       /\ r.type = 1
       /\ PageOf(r.base_addr) <= p /\ p < PageUp(r.base_addr + r.length)

(* Both ends of an available region are rounded down. *)
Available(p) ==
  /\ mb.has_mmap
  /\ \E r \in mb.mmap :
       /\ r.type = 1
       /\ PageOf(r.base_addr) <= p /\ p < PageOf(r.base_addr + r.length)

(* Mutant: the end of a module is rounded down. *)
Reserved_RoundDown(p) ==
  \/ p < LOW_PAGES
  \/ LOW_PAGES <= p /\ p < PageUp(KERNEL_END)
  \/ /\ mb.has_mods
     /\ \E m \in mb.mods : PageOf(m.mod_start) <= p /\ p < PageOf(m.mod_end)

(* Low memory, the kernel from 1 MiB on, and the modules. *)
Reserved(p) ==
  \/ p < LOW_PAGES
  \/ LOW_PAGES <= p /\ p < PageUp(KERNEL_END)
  \/ /\ mb.has_mods
     /\ \E m \in mb.mods : PageOf(m.mod_start) <= p /\ p < PageUp(m.mod_end)

pmm_init ==
  /\ pc = "boot"
  /\ pc' = "idle"
  /\ pmm_bitmap' = [p \in Page |-> ~ Available(p) \/ Reserved(p)]
  /\ UNCHANGED <<mb, i, locals, held>>

-----------------------------------------------------------------------------
panic ==
  /\ pc' = "panic"
  /\ UNCHANGED <<pmm_bitmap, mb, i, locals, held>>

(* The bits of the pages in run are set, and the caller owns them. *)
hand_out(run) ==
  /\ pmm_bitmap' = [p \in Page |-> pmm_bitmap[p] \/ p \in run]
  /\ held' = held \cup run
  /\ pc' = "idle"

(* pmm_alloc: the first page whose bit is clear. *)
pmm_alloc ==
  /\ pc = "idle"
  /\ pc' = "alloc"
  /\ i' = 0
  /\ UNCHANGED <<pmm_bitmap, mb, locals, held>>

pmm_alloc_loop ==
  /\ pc = "alloc"
  /\ \/ /\ i < PMM_MAX_PAGES /\ pmm_bitmap[i]
        /\ i' = i + 1
        /\ UNCHANGED <<pmm_bitmap, mb, pc, locals, held>>
     \/ /\ i < PMM_MAX_PAGES /\ ~ pmm_bitmap[i]
        /\ hand_out({i})
        /\ UNCHANGED <<mb, i, locals>>
     \/ i = PMM_MAX_PAGES /\ panic

(* pmm_alloc_pages: the first run of n such pages. *)
pmm_alloc_pages(n) ==
  /\ pc = "idle"
  /\ pc' = "alloc_pages"
  /\ i' = 0 /\ start' = -1 /\ found' = 0 /\ count' = n
  /\ UNCHANGED <<pmm_bitmap, mb, held>>

(* Mutant: a set bit starts the run anew but not the count of its pages. *)
run_broken_NoReset ==
  /\ start' = -1
  /\ i' = i + 1
  /\ UNCHANGED <<pmm_bitmap, mb, pc, found, count, held>>

(* A set bit ends the run that was being counted. *)
run_broken ==
  /\ start' = -1 /\ found' = 0
  /\ i' = i + 1
  /\ UNCHANGED <<pmm_bitmap, mb, pc, count, held>>

pmm_alloc_pages_loop ==
  /\ pc = "alloc_pages"
  /\ \/ /\ i < PMM_MAX_PAGES /\ ~ pmm_bitmap[i]
        /\ start' = IF start = -1 THEN i ELSE start
        /\ found' = found + 1
        /\ IF found' = count
           THEN hand_out(start' .. start' + count - 1) /\ UNCHANGED <<mb, i, count>>
           ELSE i' = i + 1 /\ UNCHANGED <<pmm_bitmap, mb, pc, count, held>>
     \/ i < PMM_MAX_PAGES /\ pmm_bitmap[i] /\ run_broken
     \/ i = PMM_MAX_PAGES /\ panic

(* pmm_free has no notion of an owner: it is the caller who may only free  *)
(* what it was given.  A page beyond the bitmap is ignored.                *)
pmm_free(page) ==
  /\ pc = "idle"
  /\ pmm_bitmap' = [p \in Page |-> p # page /\ pmm_bitmap[p]]
  /\ held' = held \ {page}
  /\ UNCHANGED <<mb, pc, i, locals>>

(* panic() ends in a halt loop with interrupts off. *)
halted == pc = "panic" /\ UNCHANGED vars

Next ==
  \/ pmm_init
  \/ pmm_alloc \/ pmm_alloc_loop
  \/ (\E n \in Counts : pmm_alloc_pages(n)) \/ pmm_alloc_pages_loop
  \/ (\E page \in held \cup {PMM_MAX_PAGES} : pmm_free(page))
  \/ halted

Spec == Init /\ [][Next]_vars

-----------------------------------------------------------------------------
(* Type invariant. *)
TypeOK ==
  /\ pmm_bitmap \in [Page -> BOOLEAN]
  /\ mb \in Boots
  /\ pc \in {"boot", "idle", "alloc", "alloc_pages", "panic"}
  /\ i \in 0 .. PMM_MAX_PAGES
  /\ start \in -1 .. PMM_MAX_PAGES - 1
  /\ found \in 0 .. PMM_MAX_PAGES
  /\ count \in Counts \cup {0}
  /\ held \subseteq Page

Bytes(p) == p * PAGE_SIZE .. p * PAGE_SIZE + PAGE_SIZE - 1

(* No page that was handed out, or can be, shares a byte with low memory,  *)
(* with the kernel's image or with a boot module: neither rounding nor the *)
(* order of pmm_init's loops uncovers a boundary page.                     *)
BootDataSafe ==
  \A p \in Page : (p \in held \/ ~ pmm_bitmap[p]) =>
    \A b \in Bytes(p) :
      /\ b >= LOW_PAGES * PAGE_SIZE /\ b >= KERNEL_END
      /\ mb.has_mods => \A m \in mb.mods : ~ (m.mod_start <= b /\ b < m.mod_end)

(* Such a page lies in an available region at least with its last byte.    *)
(* Not with all of them: pmm_init rounds the start of a region down.       *)
LastByteIsMemory ==
  \A p \in Page : (p \in held \/ ~ pmm_bitmap[p]) =>
    /\ mb.has_mmap
    /\ \E r \in mb.mmap :
         /\ r.type = 1
         /\ p * PAGE_SIZE + PAGE_SIZE - 1 \in r.base_addr .. r.base_addr + r.length - 1

(* A page in use keeps its bit set through every later call, so that it is *)
(* never handed out again before it is freed.                              *)
HeldIsMarked == \A p \in held : pmm_bitmap[p]

(* What the scans have established when they look at page i. *)
ScanInvariant ==
  /\ pc = "alloc" => \A p \in Page : p < i => pmm_bitmap[p]
  /\ pc = "alloc_pages" =>
       /\ IF start = -1 THEN found = 0 ELSE found > 0 /\ start = i - found
       /\ \A p \in Page : i - found <= p /\ p < i => ~ pmm_bitmap[p]
       /\ i - found > 0 => pmm_bitmap[i - found - 1]
       /\ count >= 1 => found < count
       /\ \A s \in Page : s + count - 1 < i =>
            ~ (count >= 1 /\ \A p \in s .. s + count - 1 : ~ pmm_bitmap[p])

(* Refinement: the two scans return the lowest run that fits, and panic    *)
(* only when nothing does.                                                 *)
Allocator == INSTANCE PageAllocator WITH
  Count  <- Counts,
  free   <- {p \in Page : ~ pmm_bitmap[p]},
  wanted <- IF pc = "alloc" THEN {1} ELSE IF pc = "alloc_pages" THEN {count} ELSE {},
  dead   <- pc = "panic"

ImplementsAllocator == Allocator!Spec
=============================================================================
