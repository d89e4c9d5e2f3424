-------------------------------- MODULE Vmm64 --------------------------------
(***************************************************************************)
(* Page tables on x86_64, kernel/x64/vmm.c, on top of the three tables     *)
(* that boot.s filled, and the processor's TLB.  Four levels: a virtual    *)
(* page has the indices pml4, pdpt, pd and pt, and an entry of a pd either *)
(* leads to a pt or, with PS set, maps ENTRIES pages at once, as those of  *)
(* boot.s do.  The kernel makes these calls with interrupts off.           *)
(*                                                                         *)
(* Addresses are page numbers.  A frame is one page of physical memory.    *)
(***************************************************************************)
EXTENDS Integers

CONSTANTS
  ENTRIES,      \* entries of a table, 512
  Usable,       \* the frames that are free after pmm_init
  Virt,         \* bound: the pages that callers map
  Phys, Flags   \* bound: what they map them to

Pml4Table == 0   \* boot.s:11
PdptTable == 1
PdTable   == 2

(* boot.s maps as much memory to itself as one pd reaches, 1 GiB. *)
IDENTITY == ENTRIES * ENTRIES
Frame == 0 .. IDENTITY - 1
Index == 0 .. ENTRIES - 1

(* Callers keep clear of the identity mapping: next_table does not look at *)
(* PS, and would take a page of 2 MiB for a table.                         *)
ASSUME Vmm64Assumption ==
  /\ ENTRIES \in Nat \ {0, 1}
  /\ Usable \subseteq Frame \ {Pml4Table, PdptTable, PdTable}
  /\ Virt \subseteq IDENTITY .. IDENTITY * IDENTITY - 1
  /\ Phys \subseteq Nat

pml4_index(virt) == virt \div (IDENTITY * ENTRIES)
pdpt_index(virt) == (virt \div IDENTITY) % ENTRIES
pd_index(virt)   == (virt \div ENTRIES) % ENTRIES
pt_index(virt)   == virt % ENTRIES

(* An entry: the present bit, PS, a page number, and the other flags. *)
Entry == [present : BOOLEAN, ps : BOOLEAN, page : Frame \cup Phys, flags : Flags \cup {"wu", "none"}]
Zero  == [present |-> FALSE, ps |-> FALSE, page |-> 0, flags |-> "none"]
Stale == [present |-> TRUE, ps |-> FALSE, page |-> 0, flags |-> "wu"]   \* what a frame held before
To(page, flags) == [present |-> TRUE, ps |-> FALSE, page |-> page, flags |-> flags]

NULL == -1

VARIABLES
  mem,         \* what is in each frame, read as entries
  free,        \* the frames pmm_alloc can return
  kernel_pd, current_pd,   \* current_pd is what cr3 holds
  tlb,         \* a translation the processor remembers, or none
  panicked,
  spaces       \* history: the roots there are

vars == <<mem, free, kernel_pd, current_pd, tlb, panicked, spaces>>

(* setup_page_tables. *)
BootEntry(f, e) ==
  CASE f = Pml4Table -> IF e = 0 THEN To(PdptTable, "wu") ELSE Zero
    [] f = PdptTable -> IF e = 0 THEN To(PdTable, "wu") ELSE Zero
    [] f = PdTable   -> [To(ENTRIES * e, "wu") EXCEPT !.ps = TRUE]
    [] OTHER         -> Stale

(* The tables of boot.s and, in init_paging, its root found in cr3. *)
Init ==
  /\ mem = [f \in Frame |-> [e \in Index |-> BootEntry(f, e)]]
  /\ free = Usable
  /\ kernel_pd = Pml4Table /\ current_pd = Pml4Table
  /\ tlb = {}
  /\ panicked = FALSE
  /\ spaces = {Pml4Table}

-----------------------------------------------------------------------------
Lowest(f, frames) == f \in frames /\ \A g \in frames : f <= g

(* Mutant: a new table is not cleared. *)
next_table_NotCleared(s, index) ==
  IF s.panicked THEN s
  ELSE IF s.mem[s.at][index].present THEN [s EXCEPT !.at = s.mem[s.at][index].page]
  ELSE IF s.free = {} THEN [s EXCEPT !.panicked = TRUE]
  ELSE LET f == CHOOSE f \in s.free : Lowest(f, s.free) IN
       [s EXCEPT !.mem[s.at][index] = To(f, "wu"), !.free = @ \ {f}, !.at = f]

(* A step down from the table s.at: an entry that is not there yet becomes *)
(* an empty table in the lowest free frame, or the machine panics with the *)
(* tables as far as they got.                                              *)
next_table(s, index) ==
  IF s.panicked THEN s
  ELSE IF s.mem[s.at][index].present THEN [s EXCEPT !.at = s.mem[s.at][index].page]
  ELSE IF s.free = {} THEN [s EXCEPT !.panicked = TRUE]
  ELSE LET f == CHOOSE f \in s.free : Lowest(f, s.free) IN
       [s EXCEPT !.mem[s.at][index] = To(f, "wu"), !.mem[f] = [e \in Index |-> Zero],
                 !.free = @ \ {f}, !.at = f]

(* page_table with create = 1: what memory becomes, and the pt at the end. *)
page_table(root, virt) ==
  LET s == [mem |-> mem, free |-> free, at |-> root, panicked |-> FALSE] IN
  next_table(next_table(next_table(s, pml4_index(virt)), pdpt_index(virt)), pd_index(virt))

(* A walk that creates nothing: the set of the entry at index of the table *)
(* each entry leads to, empty when it leads nowhere.                       *)
Down(m, entries, index) ==
  {m[e.page][index] : e \in {x \in entries : x.present /\ ~ x.ps}}

PdEntry(m, root, virt) ==
  Down(m, Down(m, {m[root][pml4_index(virt)]}, pdpt_index(virt)), pd_index(virt))

PtEntry(m, root, virt) == Down(m, PdEntry(m, root, virt), pt_index(virt))

(* Mutant: the processor keeps the old translation. *)
invlpg_None(virt) == UNCHANGED tlb

invlpg(virt) == tlb' = {t \in tlb : t.virt # virt}

vmm_create_address_space ==
  /\ ~ panicked
  /\ \/ \E f \in Frame :
          /\ Lowest(f, free)
          /\ free' = free \ {f}
          /\ mem' = [mem EXCEPT ![f] = mem[kernel_pd]]
          /\ spaces' = spaces \cup {f}
          /\ UNCHANGED panicked
     \/ free = {} /\ panicked' = TRUE /\ UNCHANGED <<mem, free, spaces>>
  /\ UNCHANGED <<kernel_pd, current_pd, tlb>>

(* Writing cr3 empties the TLB: no page is global. *)
vmm_switch_to(root) ==
  /\ ~ panicked
  /\ current_pd' = root
  /\ tlb' = {}
  /\ UNCHANGED <<mem, free, kernel_pd, panicked, spaces>>

vmm_map_page(root, virt, phys, flags) ==
  /\ ~ panicked
  /\ LET s == page_table(root, virt) IN
       /\ free' = s.free
       /\ panicked' = s.panicked
       /\ \/ s.panicked /\ mem' = s.mem /\ UNCHANGED tlb
          \/ /\ ~ s.panicked
             /\ mem' = [s.mem EXCEPT ![s.at][pt_index(virt)] = To(phys, flags)]
             /\ invlpg(virt)
  /\ UNCHANGED <<kernel_pd, current_pd, spaces>>

(* Without a table for virt there is nothing to do. *)
vmm_unmap_page(root, virt) ==
  /\ ~ panicked
  /\ \E pde \in PdEntry(mem, root, virt) :
       pde.present /\ mem' = [mem EXCEPT ![pde.page][pt_index(virt)] = Zero]
  /\ invlpg(virt)
  /\ UNCHANGED <<free, kernel_pd, current_pd, panicked, spaces>>

(* The entries of the root are copied, not the tables below them. *)
vmm_clone_address_space(source, destination) ==
  /\ ~ panicked
  /\ mem' = [mem EXCEPT ![destination] = mem[source]]
  /\ UNCHANGED <<free, kernel_pd, current_pd, tlb, panicked, spaces>>

(* What the tables under a root map a virtual page to: a page, or nothing. *)
Translations(root, virt) ==
  {pde.page + pt_index(virt) : pde \in {e \in PdEntry(mem, root, virt) : e.present /\ e.ps}}
    \cup {pte.page : pte \in {e \in PtEntry(mem, root, virt) : e.present}}

(* The processor walks the tables at any time and remembers what it finds. *)
(* Bound: one translation, in place of any other; what happens to one does *)
(* not depend on the others there are.                                     *)
tlb_fill(virt) ==
  /\ ~ panicked
  /\ tlb' = {[virt |-> virt, page |-> p] : p \in Translations(current_pd, virt)}
  /\ UNCHANGED <<mem, free, kernel_pd, current_pd, panicked, spaces>>

halted == panicked /\ UNCHANGED vars

(* Nobody clones over the space that is current: no flush would follow.    *)
Next ==
  \/ vmm_create_address_space
  \/ \E root \in spaces : vmm_switch_to(root)
  \/ \E root \in spaces, virt \in Virt :
       \/ \E phys \in Phys, flags \in Flags : vmm_map_page(root, virt, phys, flags)
       \/ vmm_unmap_page(root, virt)
  \/ \E source \in spaces, destination \in spaces \ {current_pd} :
       vmm_clone_address_space(source, destination)
  \/ \E virt \in Virt \cup {0} : tlb_fill(virt)
  \/ halted

Spec == Init /\ [][Next]_vars

-----------------------------------------------------------------------------
(* vmm_get_phys_addr: 0 or a page, with PS looked at on the way. *)
vmm_get_phys_addr(root, virt) ==
  LET pages == Translations(root, virt) IN
  IF pages = {} THEN 0 ELSE CHOOSE p \in pages : TRUE

(* The translation the processor remembers is never out of date, though    *)
(* pages are mapped and unmapped under one root while another one that     *)
(* shares its tables is current, and clones change roots with no flush.    *)
TlbIsCurrent ==
  ~ panicked => \A t \in tlb : t.page = vmm_get_phys_addr(current_pd, t.virt)

Mapped(m, r, a) ==
  LET pde  == Down(m, {m[r][a \div IDENTITY]}, pd_index(a))
      ptes == Down(m, pde, pt_index(a))
  IN {[page |-> e.page + pt_index(a), flags |-> e.flags] : e \in {x \in pde : x.present /\ x.ps}}
       \cup {[page |-> e.page, flags |-> e.flags] : e \in {x \in ptes : x.present}}

Address  == 0 .. IDENTITY * ENTRIES - 1
Unmapped == [page |-> -1, flags |-> "none"]

(* The roots and what is below them as SharedSpaces sees them: the         *)
(* addresses below a pml4 entry are a region, named by its pdpt.           *)
Regions ==
  [s \in spaces |-> [i \in Index |-> IF mem[s][i].present THEN mem[s][i].page ELSE NULL]]

Reached(m) == {r \in Frame : \E s \in spaces, i \in Index : m[s][i].present /\ m[s][i].page = r}

Pages ==
  [r \in Reached(mem) |->
     [a \in Address |->
        IF Mapped(mem, r, a) = {} THEN Unmapped ELSE CHOOSE e \in Mapped(mem, r, a) : TRUE]]

(* boot.s maps all memory to itself. *)
Identity ==
  [a \in Address |-> IF a \in Frame THEN [page |-> a, flags |-> "wu"] ELSE Unmapped]

(* Refinement: four levels of tables in frames with old contents are       *)
(* spaces that share regions, and all memory stays mapped to itself in the *)
(* first one.                                                              *)
Shared == INSTANCE SharedSpaces WITH
  Space    <- Frame,
  Region   <- Frame,
  Mapping  <- [page : Frame \cup Phys, flags : Flags],
  Boot     <- Identity,
  NoRegion <- NULL,
  region   <- Regions,
  page     <- Pages,
  dead     <- panicked

ImplementsSharedSpaces == Shared!Spec
=============================================================================
