--------------------------------- MODULE Vmm ---------------------------------
(***************************************************************************)
(* Page tables on i386, kernel/i386/vmm.c.  Directories and tables are     *)
(* physical frames taken from the memory manager, which does not clear     *)
(* them; the code reaches them through the identity mapping that           *)
(* init_paging makes of all memory the manager knows, 16 MiB on both sides.*)
(* The kernel makes these calls with interrupts off.  init_paging and      *)
(* vmm_clone_address_space, which allocate in a loop, are modelled one     *)
(* round at a time.                                                        *)
(*                                                                         *)
(* Addresses are page numbers: a virtual page is ENTRIES * pd_idx + pt_idx.*)
(* The TLB is left out: on i386 this code never invalidates an entry, and  *)
(* what holds of tables in memory does not hold of it.                     *)
(***************************************************************************)
EXTENDS Integers, TLC

CONSTANTS
  ENTRIES,      \* entries of a directory and of a table, 1024
  FRAMES,       \* frames of the memory manager, 4096
  Usable,       \* the frames that are free after pmm_init
  Virt,         \* bound: the pages above FRAMES that callers map
  Phys, Flags   \* bound: what they map them to

ASSUME VmmAssumption ==
  /\ ENTRIES \in Nat \ {0} /\ FRAMES \in Nat \ {0}
  /\ FRAMES % ENTRIES = 0 /\ FRAMES <= ENTRIES * ENTRIES
  /\ Usable \subseteq 0 .. FRAMES - 1
  /\ Virt \subseteq FRAMES .. ENTRIES * ENTRIES - 1
  /\ Phys \subseteq Nat /\ "rw" \in Flags

NULL  == -1
Frame == 0 .. FRAMES - 1
Index == 0 .. ENTRIES - 1

pd_idx(virt) == virt \div ENTRIES
pt_idx(virt) == virt % ENTRIES

(* An entry: the present bit, a page number, and the other flags. *)
Entry == [present : BOOLEAN, page : Nat, flags : Flags \cup {"none"}]
Zero  == [present |-> FALSE, page |-> 0, flags |-> "none"]
To(page, flags) == [present |-> TRUE, page |-> page, flags |-> flags]

ClearPage == [i \in Index |-> Zero]

(* What a frame held before it was freed. *)
Stale == [i \in Index |-> [present |-> i % 2 = 0, page |-> 1, flags |-> "rw"]]

VARIABLES
  mem,                     \* what is in each frame, read as entries
  free,                    \* the frames pmm_alloc can return
  kernel_pd, current_pd,   \* current_pd is what cr3 holds
  pc,                      \* "boot", "identity", "ready", "clone", "panic"
  addr,                    \* the local of init_paging
  src, dst, i,             \* those of vmm_clone_address_space
  spaces                   \* history: the directories that were returned

locals == <<addr, src, dst, i>>
vars   == <<mem, free, kernel_pd, current_pd, pc, locals, spaces>>

Init ==
  /\ mem = [f \in Frame |-> Stale]
  /\ free = Usable
  /\ kernel_pd = NULL /\ current_pd = NULL
  /\ pc = "boot"
  /\ addr = 0 /\ src = 0 /\ dst = 0 /\ i = 0
  /\ spaces = {}

-----------------------------------------------------------------------------
(* pmm_alloc returns the lowest free frame, or panics. *)
pmm_alloc(f) == f \in free /\ \A g \in free : f <= g

panic ==
  /\ free = {}
  /\ pc' = "panic"
  /\ UNCHANGED <<mem, free, kernel_pd, current_pd, locals, spaces>>

(* Mutant: a new table is not cleared. *)
NewTable_NotCleared(pd, virt, f) ==
  [mem EXCEPT ![pd][pd_idx(virt)] = To(f, "rw")]

(* get_page_table for an address without a table: frame f becomes one. *)
NewTable(pd, virt, f) ==
  [mem EXCEPT ![f] = ClearPage, ![pd][pd_idx(virt)] = To(f, "rw")]

(* What follows when mem was m before the entry is written. *)
SetEntry(m, pd, virt, entry) ==
  mem' = [m EXCEPT ![m[pd][pd_idx(virt)].page][pt_idx(virt)] = entry]

vmm_map_page(pd, virt, phys, flags) ==
  \/ /\ mem[pd][pd_idx(virt)].present
     /\ SetEntry(mem, pd, virt, To(phys, flags))
     /\ UNCHANGED free
  \/ /\ ~ mem[pd][pd_idx(virt)].present
     /\ \E f \in Frame :
          /\ pmm_alloc(f)
          /\ free' = free \ {f}
          /\ SetEntry(NewTable(pd, virt, f), pd, virt, To(phys, flags))

(* Mutant: memory is mapped from page 1 on. *)
init_paging_FromOne ==
  /\ pc = "boot"
  /\ \E f \in Frame :
       /\ pmm_alloc(f)
       /\ free' = free \ {f}
       /\ kernel_pd' = f
       /\ mem' = [mem EXCEPT ![f] = ClearPage]
  /\ pc' = "identity"
  /\ addr' = 1
  /\ UNCHANGED <<current_pd, src, dst, i, spaces>>

(* init_paging: a directory for the kernel, then one page after another,   *)
(* then the directory goes into cr3 and paging is switched on.             *)
init_paging ==
  /\ pc = "boot"
  /\ \E f \in Frame :
       /\ pmm_alloc(f)
       /\ free' = free \ {f}
       /\ kernel_pd' = f
       /\ mem' = [mem EXCEPT ![f] = ClearPage]
  /\ pc' = "identity"
  /\ addr' = 0
  /\ UNCHANGED <<current_pd, src, dst, i, spaces>>

identity_page ==
  /\ pc = "identity"
  /\ addr < FRAMES
  /\ vmm_map_page(kernel_pd, addr, addr, "rw")
  /\ addr' = addr + 1
  /\ UNCHANGED <<kernel_pd, current_pd, pc, src, dst, i, spaces>>

enable_paging ==
  /\ pc = "identity"
  /\ addr = FRAMES
  /\ current_pd' = kernel_pd
  /\ spaces' = {kernel_pd}
  /\ pc' = "ready"
  /\ UNCHANGED <<mem, free, kernel_pd, locals>>

-----------------------------------------------------------------------------
(* Mutant: the copy is off by one entry. *)
vmm_create_address_space_Shifted ==
  /\ pc = "ready"
  /\ \E f \in Frame :
       /\ pmm_alloc(f)
       /\ free' = free \ {f}
       /\ mem' = [mem EXCEPT ![f] =
            [k \in Index |-> IF k > 0 THEN mem[kernel_pd][k - 1] ELSE Zero]]
       /\ spaces' = spaces \cup {f}
  /\ UNCHANGED <<kernel_pd, current_pd, pc, locals>>

vmm_create_address_space ==
  /\ pc = "ready"
  /\ \E f \in Frame :
       /\ pmm_alloc(f)
       /\ free' = free \ {f}
       /\ mem' = [mem EXCEPT ![f] = mem[kernel_pd]]
       /\ spaces' = spaces \cup {f}
  /\ UNCHANGED <<kernel_pd, current_pd, pc, locals>>

vmm_switch_to(pd) ==
  /\ pc = "ready"
  /\ current_pd' = pd
  /\ UNCHANGED <<mem, free, kernel_pd, pc, locals, spaces>>

map_page(pd, virt, phys, flags) ==
  /\ pc = "ready"
  /\ vmm_map_page(pd, virt, phys, flags)
  /\ UNCHANGED <<kernel_pd, current_pd, pc, locals, spaces>>

vmm_unmap_page(pd, virt) ==
  /\ pc = "ready"
  /\ mem[pd][pd_idx(virt)].present
  /\ SetEntry(mem, pd, virt, Zero)
  /\ UNCHANGED <<free, kernel_pd, current_pd, pc, locals, spaces>>

vmm_clone_address_space(from, to) ==
  /\ pc = "ready"
  /\ src' = from /\ dst' = to /\ i' = 0
  /\ pc' = "clone"
  /\ UNCHANGED <<mem, free, kernel_pd, current_pd, addr, spaces>>

(* Mutant: the new directory gets the old table. *)
clone_table_Shared(f) ==
  mem' = [mem EXCEPT ![dst][i] = mem[src][i]]

(* The table of entry i is copied into frame f. *)
clone_table(f) ==
  LET src_pt == mem[mem[src][i].page] IN
  mem' = [mem EXCEPT ![f] = [j \in Index |-> IF src_pt[j].present THEN src_pt[j] ELSE Zero],
                     ![dst][i] = To(f, mem[src][i].flags)]

clone_entry ==
  /\ pc = "clone"
  /\ i < ENTRIES
  /\ \/ /\ mem[src][i].present
        /\ \E f \in Frame :
             /\ pmm_alloc(f)
             /\ free' = free \ {f}
             /\ clone_table(f)
     \/ ~ mem[src][i].present /\ UNCHANGED <<mem, free>>
  /\ i' = i + 1
  /\ UNCHANGED <<kernel_pd, current_pd, pc, addr, src, dst, spaces>>

clone_end ==
  /\ pc = "clone"
  /\ i = ENTRIES
  /\ pc' = "ready"
  /\ UNCHANGED <<mem, free, kernel_pd, current_pd, locals, spaces>>

(* The calls in which pmm_alloc finds nothing. *)
out_of_memory ==
  /\ \/ pc = "boot"
     \/ pc = "identity" /\ addr < FRAMES /\ ~ mem[kernel_pd][pd_idx(addr)].present
     \/ pc = "ready"
     \/ pc = "clone" /\ i < ENTRIES /\ mem[src][i].present
  /\ panic

halted == pc = "panic" /\ UNCHANGED vars

(* Callers map pages above the identity mapping only: through it this code *)
(* reaches its own tables.                                                 *)
Next ==
  \/ init_paging \/ identity_page \/ enable_paging
  \/ vmm_create_address_space
  \/ \E pd \in spaces : vmm_switch_to(pd)
  \/ \E pd \in spaces, virt \in Virt, phys \in Phys, flags \in Flags :
       map_page(pd, virt, phys, flags)
  \/ \E pd \in spaces, virt \in Virt : vmm_unmap_page(pd, virt)
  \/ \E from, to \in spaces : vmm_clone_address_space(from, to)
  \/ clone_entry \/ clone_end
  \/ out_of_memory \/ halted

Spec == Init /\ [][Next]_vars

-----------------------------------------------------------------------------
Directories == IF kernel_pd = NULL THEN {} ELSE {kernel_pd} \cup spaces

(* The frame of the table for the addresses of entry k, if there is one. *)
TableOf(pd, k) == IF mem[pd][k].present THEN {mem[pd][k].page} ELSE {}

Tables == UNION {TableOf(pd, k) : pd \in Directories, k \in Index}

(* No directory or table is in free memory, none is both, and one that two *)
(* directories use, or one of them twice, is used for the same addresses.  *)
FramesDisjoint ==
  /\ (Directories \cup Tables) \cap free = {}
  /\ Tables \cap Directories = {}
  /\ \A p, q \in Directories, k, l \in Index :
       TableOf(p, k) \cap TableOf(q, l) # {} => k = l

(* The page and flags a virtual page has in a space, or none. *)
Mapped(pd, virt) ==
  {[page |-> e.page, flags |-> e.flags] :
     e \in {x \in {mem[t][pt_idx(virt)] : t \in TableOf(pd, pd_idx(virt))} : x.present}}

(* All memory of the manager stays mapped to itself in every space, during *)
(* a clone too: it is how the kernel reaches the tables it writes.         *)
IdentityHeld ==
  \A pd \in spaces, virt \in Frame : Mapped(pd, virt) = {[page |-> virt, flags |-> "rw"]}

(* 0 for an address without a table, else the entry's page, whether or not *)
(* the entry is present.                                                   *)
vmm_get_phys_addr(pd, virt) ==
  IF mem[pd][pd_idx(virt)].present
  THEN mem[mem[pd][pd_idx(virt)].page][pt_idx(virt)].page
  ELSE 0

(* The answer of vmm_get_phys_addr, which never looks at the present bit,  *)
(* is the mapped page, and 0 when there is none: every table was cleared   *)
(* before use, and copies leave nothing of an entry that is not present.   *)
LookupIsExact ==
  \A pd \in Directories, virt \in Virt :
    vmm_get_phys_addr(pd, virt) =
      IF Mapped(pd, virt) = {} THEN 0 ELSE (CHOOSE e \in Mapped(pd, virt) : TRUE).page

(* The directories and the tables as AddressSpaces sees them. *)
Unmapped == [page |-> -1, flags |-> "none"]

Regions ==
  [pd \in Directories |-> [k \in Index |-> IF mem[pd][k].present THEN mem[pd][k].page ELSE NULL]]

Shown(e) == IF e.present THEN [page |-> e.page, flags |-> e.flags] ELSE Unmapped

Pages == [t \in Tables |-> [k \in Index |-> Shown(mem[t][k])]]

(* Refinement: frames that come back from the memory manager with old      *)
(* contents are address spaces made of regions.                            *)
Spaces == INSTANCE AddressSpaces WITH
  Space    <- Frame,
  Region   <- Frame,
  Mapping  <- [page : Frame \cup Phys, flags : Flags],
  NoRegion <- NULL,
  kernel   <- kernel_pd,
  region   <- Regions,
  page     <- Pages,
  dead     <- pc = "panic"

ImplementsSpaces == Spaces!Spec
=============================================================================
