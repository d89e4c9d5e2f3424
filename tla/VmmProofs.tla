------------------------------ MODULE VmmProofs ------------------------------
(***************************************************************************)
(* Theorems about Vmm for every size of memory and of tables, whichever    *)
(* frames are usable, and whatever callers map.                            *)
(***************************************************************************)
EXTENDS Vmm, TLAPS

Content == [Index -> Entry]

TypeOK ==
  /\ mem \in [Frame -> Content]
  /\ free \in SUBSET Frame
  /\ kernel_pd \in Frame \cup {NULL}
  /\ current_pd \in Frame \cup {NULL}
  /\ pc \in {"boot", "identity", "ready", "clone", "panic"}
  /\ addr \in 0 .. FRAMES
  /\ i \in 0 .. ENTRIES
  /\ spaces \in SUBSET Frame

(* What there is at which point, and what the calls were given. *)
BootOrder ==
  /\ pc = "boot" => kernel_pd = NULL
  /\ kernel_pd = NULL => spaces = {}
  /\ pc = "identity" => kernel_pd # NULL /\ spaces = {}
  /\ pc \in {"ready", "clone"} => kernel_pd \in spaces
  /\ pc = "clone" => src \in spaces /\ dst \in spaces

(* FramesDisjoint, entry by entry, and with it that tables are frames.     *)
Apart ==
  /\ Directories \cap free = {}
  /\ \A p \in Directories, k \in Index : mem[p][k].present =>
       mem[p][k].page \in Frame \ (free \cup Directories)
  /\ \A p, q \in Directories, k, l \in Index :
       mem[p][k].present /\ mem[q][l].present /\ mem[p][k].page = mem[q][l].page => k = l

(* IdentityHeld, and how far init_paging has come. *)
IdentityUpTo(n) ==
  \A p \in Directories, v \in Frame :
    p \in spaces \/ v < n =>
      /\ mem[p][pd_idx(v)].present
      /\ mem[mem[p][pd_idx(v)].page][pt_idx(v)] = To(v, "rw")

IdentitySoFar == IdentityUpTo(addr)

(* Nothing is left in an entry of a table that is not present. *)
TablesAreClean ==
  \A p \in Directories, k, j \in Index :
    LET e == mem[mem[p][k].page][j] IN
    mem[p][k].present /\ ~ e.present => e.page = 0

IInv == TypeOK /\ BootOrder /\ Apart /\ IdentitySoFar /\ TablesAreClean

-----------------------------------------------------------------------------
(* Addresses. *)
LEMMA Sizes ==
  /\ ENTRIES \in Nat \ {0} /\ FRAMES \in Nat \ {0}
  /\ FRAMES % ENTRIES = 0 /\ FRAMES <= ENTRIES * ENTRIES
BY VmmAssumption

LEMMA DivMod ==
  ASSUME NEW a \in Nat
  PROVE  /\ pd_idx(a) \in Nat /\ pt_idx(a) \in Index
         /\ a = ENTRIES * pd_idx(a) + pt_idx(a)
<1>1. ENTRIES \in Nat \ {0}
  BY Sizes
<1>2. a \div ENTRIES \in Nat /\ a % ENTRIES \in 0 .. ENTRIES - 1
  BY <1>1
<1>3. a = ENTRIES * (a \div ENTRIES) + (a % ENTRIES)
  BY <1>1
<1>4. QED
  BY <1>2, <1>3 DEF pd_idx, pt_idx, Index

LEMMA Multiples ==
  ASSUME NEW x \in Nat, NEW y \in Nat, x < y
  PROVE  ENTRIES * x + ENTRIES <= ENTRIES * y
<1>1. PICK d \in Nat : y = x + 1 + d
  <2>1. y - x - 1 \in Nat /\ y = x + 1 + (y - x - 1)
    OBVIOUS
  <2>2. QED
    BY <2>1
<1>2. /\ ENTRIES * y = ENTRIES * x + ENTRIES + ENTRIES * d
      /\ ENTRIES * d \in Nat /\ ENTRIES * x \in Nat
  BY <1>1, Sizes
<1>3. QED
  BY <1>2, Sizes

(* Two indices for every address there is. *)
LEMMA Indices ==
  ASSUME NEW a \in Nat, a < ENTRIES * ENTRIES
  PROVE  pd_idx(a) \in Index /\ pt_idx(a) \in Index
<1>1. /\ pd_idx(a) \in Nat /\ pt_idx(a) \in Index /\ pt_idx(a) \in Nat
      /\ a = ENTRIES * pd_idx(a) + pt_idx(a) /\ ENTRIES \in Nat
  BY DivMod, Sizes DEF Index
<1> DEFINE q == pd_idx(a)
           r == pt_idx(a)
<1> HIDE DEF q, r
<1>2. SUFFICES ASSUME q >= ENTRIES PROVE FALSE
  BY <1>1 DEF q, Index
<1>3. ENTRIES * q >= ENTRIES * ENTRIES
  <2>1. q = ENTRIES \/ ENTRIES * ENTRIES + ENTRIES <= ENTRIES * q
    BY <1>1, <1>2, Multiples DEF q
  <2>2. ENTRIES * ENTRIES \in Nat /\ ENTRIES * q \in Nat
    BY <1>1 DEF q
  <2>3. QED
    BY <1>1, <2>1, <2>2
<1>4. ENTRIES * q \in Nat /\ r \in Nat /\ ENTRIES * ENTRIES \in Nat
  BY <1>1 DEF q, r
<1>5. a = ENTRIES * q + r
  BY <1>1 DEF q, r
<1>6. QED
  BY <1>3, <1>4, <1>5

LEMMA FrameIndices ==
  ASSUME NEW v \in Frame
  PROVE  v \in Nat /\ pd_idx(v) \in Index /\ pt_idx(v) \in Index
<1>1. v \in Nat /\ v < FRAMES
  BY Sizes DEF Frame
<1>2. ENTRIES * ENTRIES \in Nat
  BY Sizes
<1>3. v < ENTRIES * ENTRIES
  BY <1>1, <1>2, Sizes
<1>4. QED
  BY <1>1, <1>3, Indices

(* The indices tell addresses apart. *)
LEMMA IndicesTell ==
  ASSUME NEW u \in Nat, NEW v \in Nat, pd_idx(u) = pd_idx(v), pt_idx(u) = pt_idx(v)
  PROVE  u = v
BY DivMod

(* No table serves both the identity mapping and what callers map. *)
LEMMA CallersKeepClear ==
  ASSUME NEW u \in Virt, NEW v \in Frame
  PROVE  pd_idx(u) \in Index /\ pt_idx(u) \in Index /\ pd_idx(u) # pd_idx(v)
<1>1. /\ u \in Nat /\ FRAMES <= u /\ u < ENTRIES * ENTRIES /\ v \in Nat /\ v < FRAMES
      /\ FRAMES \in Nat /\ ENTRIES \in Nat \ {0}
  <2>1. ENTRIES * ENTRIES \in Nat
    BY Sizes
  <2>2. u \in FRAMES .. ENTRIES * ENTRIES - 1
    BY VmmAssumption
  <2>3. QED
    BY <2>1, <2>2, Sizes DEF Frame
<1>2. PICK m \in Nat : FRAMES = ENTRIES * m
  <2>1. FRAMES = ENTRIES * pd_idx(FRAMES) + pt_idx(FRAMES) /\ pd_idx(FRAMES) \in Nat
    BY <1>1, DivMod
  <2>2. pt_idx(FRAMES) = 0
    BY Sizes DEF pt_idx
  <2>3. ENTRIES * pd_idx(FRAMES) \in Nat
    BY <1>1, <2>1
  <2>4. FRAMES = ENTRIES * pd_idx(FRAMES)
    BY <2>1, <2>2, <2>3
  <2>5. QED
    BY <2>1, <2>4
<1>3. ASSUME NEW q \in Nat, pd_idx(u) = q, pd_idx(v) = q
      PROVE  FALSE
  <2>1. PICK x \in Index, y \in Index : u = ENTRIES * q + x /\ v = ENTRIES * q + y
    BY <1>1, <1>3, DivMod
  <2>2. ENTRIES * q \in Nat /\ ENTRIES * m \in Nat /\ x \in Nat /\ y \in Nat /\ x < ENTRIES
    BY <1>1, <2>1 DEF Index
  <2>3. ENTRIES * q < ENTRIES * m
    BY <1>1, <1>2, <2>1, <2>2
  <2>4. q < m
    <3>1. q = m => ENTRIES * q = ENTRIES * m
      OBVIOUS
    <3>2. m < q => ENTRIES * m + ENTRIES <= ENTRIES * q
      BY Multiples
    <3>3. QED
      BY <1>1, <2>2, <2>3, <3>1, <3>2
  <2>5. ENTRIES * q + ENTRIES <= ENTRIES * m
    BY <2>4, Multiples
  <2>6. QED
    BY <1>1, <1>2, <2>1, <2>2, <2>5
<1>4. pd_idx(u) \in Index /\ pt_idx(u) \in Index /\ pd_idx(u) \in Nat
  BY <1>1, Indices DEF Index
<1>5. QED
  BY <1>3, <1>4

-----------------------------------------------------------------------------
(* What the operations do to memory: an entry of a table is written, or a  *)
(* free frame becomes a table.                                             *)
WriteEntry(p, k, j, e) ==
  /\ mem[p][k].present
  /\ mem' = [mem EXCEPT ![mem[p][k].page] = [mem[mem[p][k].page] EXCEPT ![j] = e]]
  /\ UNCHANGED free

AddTable(p, k, f, flags, content) ==
  /\ f \in free
  /\ free' = free \ {f}
  /\ mem' = [mem EXCEPT ![f] = content, ![p] = [mem[p] EXCEPT ![k] = To(f, flags)]]

LEMMA ZeroIsEntry == Zero \in Entry /\ ClearPage \in Content
BY DEF Zero, Entry, ClearPage, Content

LEMMA ToIsEntry ==
  ASSUME NEW page \in Nat, NEW flags \in Flags \cup {"none"}
  PROVE  To(page, flags) \in Entry /\ To(page, flags).present /\ To(page, flags).page = page
         /\ To(page, flags).flags = flags
BY DEF To, Entry

LEMMA DirectoriesAreFrames ==
  ASSUME TypeOK
  PROVE  Directories \subseteq Frame
BY DEF TypeOK, Directories

LEMMA EntryTypes ==
  ASSUME TypeOK, NEW f \in Frame, NEW k \in Index
  PROVE  mem[f] \in Content /\ mem[f][k] \in Entry
BY DEF TypeOK, Content

(* Mapping a page is one of the two. *)
LEMMA MapIs ==
  ASSUME TypeOK, Apart, NEW p \in Directories, NEW virt, NEW phys \in Nat, NEW flags \in Flags,
         pd_idx(virt) \in Index, pt_idx(virt) \in Index,
         vmm_map_page(p, virt, phys, flags)
  PROVE  \/ WriteEntry(p, pd_idx(virt), pt_idx(virt), To(phys, flags))
         \/ /\ ~ mem[p][pd_idx(virt)].present
            /\ \E f \in Frame : AddTable(p, pd_idx(virt), f, "rw",
                                       [ClearPage EXCEPT ![pt_idx(virt)] = To(phys, flags)])
<1> DEFINE k == pd_idx(virt)
           j == pt_idx(virt)
           e == To(phys, flags)
<1>1. p \in Frame /\ k \in Index /\ j \in Index /\ p \notin free
  BY DirectoriesAreFrames DEF Apart
<1> HIDE DEF k, j, e
<1>2. CASE mem[p][k].present /\ SetEntry(mem, p, virt, e) /\ UNCHANGED free
  <2>1. mem' = [mem EXCEPT ![mem[p][k].page] = [mem[mem[p][k].page] EXCEPT ![j] = e]]
    BY <1>2 DEF SetEntry, k, j
  <2>2. QED
    BY <1>2, <2>1 DEF WriteEntry, k, j, e
<1>3. CASE /\ ~ mem[p][k].present
           /\ \E f \in Frame : /\ pmm_alloc(f)
                               /\ free' = free \ {f}
                               /\ SetEntry(NewTable(p, virt, f), p, virt, e)
  <2>1. PICK f \in Frame : /\ pmm_alloc(f)
                           /\ free' = free \ {f}
                           /\ SetEntry(NewTable(p, virt, f), p, virt, e)
    BY <1>3
  <2>2. f \in free /\ f # p
    BY <1>1, <2>1 DEF pmm_alloc
  <2> DEFINE m == NewTable(p, virt, f)
  <2>3. m = [mem EXCEPT ![f] = ClearPage, ![p] = [mem[p] EXCEPT ![k] = To(f, "rw")]]
    BY <1>1, <2>2 DEF NewTable, k, TypeOK
  <2>4. /\ m \in [Frame -> Content] /\ m[f] = ClearPage
        /\ m[p] = [mem[p] EXCEPT ![k] = To(f, "rw")]
        /\ \A g \in Frame : g # f /\ g # p => m[g] = mem[g]
    <3>1. To(f, "rw") \in Entry
      BY ToIsEntry, VmmAssumption DEF Frame
    <3>2. QED
      BY <1>1, <2>2, <2>3, <3>1, ZeroIsEntry DEF TypeOK, Content
  <2>5. m[p][k].page = f
    BY <1>1, <2>4, EntryTypes DEF Content, To
  <2>6. mem' = [m EXCEPT ![f] = [ClearPage EXCEPT ![j] = e]]
    BY <2>1, <2>4, <2>5 DEF SetEntry, k, j
  <2>7. mem' = [mem EXCEPT ![f] = [ClearPage EXCEPT ![j] = e],
                           ![p] = [mem[p] EXCEPT ![k] = To(f, "rw")]]
    BY <1>1, <2>2, <2>3, <2>6 DEF TypeOK
  <2>8. AddTable(p, k, f, "rw", [ClearPage EXCEPT ![j] = e])
    BY <2>1, <2>2, <2>7 DEF AddTable
  <2>9. QED
    BY <1>3, <2>8 DEF k, j, e
<1>4. QED
  BY <1>2, <1>3 DEF vmm_map_page, k, e

(* What an entry that is written changes: that entry of that table. *)
ChangesOnly(t, j, e) ==
  /\ mem' \in [Frame -> Content]
  /\ t \in Frame \ (free \cup Directories)
  /\ \A g \in Frame : g # t => mem'[g] = mem[g]
  /\ \A g \in Directories : mem'[g] = mem[g]
  /\ mem'[t] = [mem[t] EXCEPT ![j] = e]
  /\ mem'[t][j] = e
  /\ \A l \in Index \ {j} : mem'[t][l] = mem[t][l]

LEMMA WriteFacts ==
  ASSUME TypeOK, Apart, NEW p \in Directories, NEW k \in Index, NEW j \in Index,
         NEW e \in Entry, WriteEntry(p, k, j, e)
  PROVE  ChangesOnly(mem[p][k].page, j, e)
<1> DEFINE t == mem[p][k].page
<1>1. t \in Frame \ (free \cup Directories)
  BY DEF WriteEntry, Apart
<1>2. mem[t] \in Content /\ [mem[t] EXCEPT ![j] = e] \in Content
  BY <1>1 DEF TypeOK, Content
<1>3. mem' = [mem EXCEPT ![t] = [mem[t] EXCEPT ![j] = e]]
  BY DEF WriteEntry
<1> HIDE DEF t
<1>4. /\ mem' \in [Frame -> Content] /\ mem'[t] = [mem[t] EXCEPT ![j] = e]
      /\ \A g \in Frame : g # t => mem'[g] = mem[g]
  BY <1>1, <1>2, <1>3 DEF TypeOK
<1>5. mem'[t][j] = e /\ \A l \in Index \ {j} : mem'[t][l] = mem[t][l]
  BY <1>2, <1>4 DEF Content
<1>6. \A g \in Directories : mem'[g] = mem[g]
  BY <1>1, <1>4, DirectoriesAreFrames
<1>7. QED
  BY <1>1, <1>4, <1>5, <1>6 DEF t, ChangesOnly

(* And what a new table changes. *)
LEMMA AddFacts ==
  ASSUME TypeOK, Apart, NEW p \in Directories, NEW k \in Index, NEW f \in Frame,
         NEW flags \in Flags \cup {"none"}, NEW content \in Content,
         AddTable(p, k, f, flags, content)
  PROVE  /\ mem' \in [Frame -> Content]
         /\ f \notin Directories
         /\ mem'[f] = content
         /\ mem'[p][k] = To(f, flags)
         /\ \A l \in Index \ {k} : mem'[p][l] = mem[p][l]
         /\ \A g \in Frame : g # f /\ g # p => mem'[g] = mem[g]
         /\ \A q \in Directories, l \in Index :
              mem[q][l].present => mem[q][l].page # f
<1>1. f \in free /\ f \notin Directories /\ p \in Frame /\ f # p
  BY DirectoriesAreFrames DEF AddTable, Apart
<1>2. To(f, flags) \in Entry /\ mem[p] \in Content
  BY <1>1, ToIsEntry DEF Frame, TypeOK
<1> DEFINE d == [mem[p] EXCEPT ![k] = To(f, flags)]
<1>3. d \in Content /\ d[k] = To(f, flags) /\ \A l \in Index \ {k} : d[l] = mem[p][l]
  BY <1>2 DEF Content
<1>4. mem' = [mem EXCEPT ![f] = content, ![p] = d]
  BY DEF AddTable
<1> HIDE DEF d
<1>5. /\ mem' \in [Frame -> Content] /\ mem'[f] = content /\ mem'[p] = d
      /\ \A g \in Frame : g # f /\ g # p => mem'[g] = mem[g]
  BY <1>1, <1>3, <1>4 DEF TypeOK
<1>6. \A q \in Directories, l \in Index : mem[q][l].present => mem[q][l].page # f
  BY <1>1 DEF Apart
<1>7. QED
  BY <1>1, <1>3, <1>5, <1>6

(* A table written keeps what the invariant says of tables. *)
LEMMA WriteKeepsApart ==
  ASSUME TypeOK, Apart, NEW p \in Directories, NEW k \in Index, NEW j \in Index,
         NEW e \in Entry, WriteEntry(p, k, j, e), UNCHANGED <<kernel_pd, spaces>>
  PROVE  Directories' = Directories /\ free' = free /\ Apart'
<1>1. Directories' = Directories
  BY DEF Directories
<1>2. free' = free
  BY DEF WriteEntry
<1>3. \A g \in Directories : mem'[g] = mem[g]
  BY WriteFacts DEF ChangesOnly
<1>4. QED
  BY <1>1, <1>2, <1>3 DEF Apart

LEMMA WriteKeepsIdentity ==
  ASSUME TypeOK, Apart, NEW p \in Directories, NEW k \in Index, NEW j \in Index,
         NEW e \in Entry, WriteEntry(p, k, j, e), UNCHANGED <<kernel_pd, spaces>>,
         NEW n \in Nat, IdentityUpTo(n),
         \A v \in Frame : pd_idx(v) = k /\ pt_idx(v) = j => e = To(v, "rw")
  PROVE  IdentityUpTo(n)'
<1>0. ChangesOnly(mem[p][k].page, j, e)
  BY WriteFacts
<1>1. SUFFICES ASSUME NEW q \in Directories, NEW v \in Frame, q \in spaces \/ v < n
               PROVE  /\ mem'[q][pd_idx(v)].present
                      /\ mem'[mem'[q][pd_idx(v)].page][pt_idx(v)] = To(v, "rw")
  BY WriteKeepsApart DEF IdentityUpTo
<1> DEFINE t == mem[q][pd_idx(v)].page
<1>2. pd_idx(v) \in Index /\ pt_idx(v) \in Index
  BY FrameIndices
<1>3. mem[q][pd_idx(v)].present /\ mem[t][pt_idx(v)] = To(v, "rw")
  BY <1>1 DEF IdentityUpTo
<1>4. mem'[q] = mem[q]
  BY WriteFacts DEF ChangesOnly
<1>5. t \in Frame
  BY <1>2, <1>3 DEF Apart
<1> HIDE DEF t
<1>6. mem'[t][pt_idx(v)] = To(v, "rw")
  <2>1. CASE t # mem[p][k].page
    BY <2>1, <1>3, <1>5, <1>0 DEF ChangesOnly
  <2>2. CASE t = mem[p][k].page /\ pt_idx(v) # j
    BY <2>2, <1>2, <1>3, <1>0 DEF ChangesOnly
  <2>3. CASE t = mem[p][k].page /\ pt_idx(v) = j
    <3>1. pd_idx(v) = k
      BY <2>3, <1>2, <1>3 DEF Apart, WriteEntry, t
    <3>2. e = To(v, "rw") /\ mem'[t][j] = e
      BY <2>3, <3>1, <1>2, <1>0 DEF ChangesOnly
    <3>3. QED
      BY <2>3, <3>2
  <2>4. QED
    BY <2>1, <2>2, <2>3
<1>7. QED
  BY <1>3, <1>4, <1>6 DEF t

LEMMA WriteKeepsClean ==
  ASSUME TypeOK, Apart, NEW p \in Directories, NEW k \in Index, NEW j \in Index,
         NEW e \in Entry, WriteEntry(p, k, j, e), UNCHANGED <<kernel_pd, spaces>>,
         TablesAreClean, e.present \/ e.page = 0
  PROVE  TablesAreClean'
<1>0. ChangesOnly(mem[p][k].page, j, e)
  BY WriteFacts
<1>1. SUFFICES ASSUME NEW q \in Directories, NEW m \in Index, NEW l \in Index,
                      mem'[q][m].present, ~ mem'[mem'[q][m].page][l].present
               PROVE  mem'[mem'[q][m].page][l].page = 0
  BY WriteKeepsApart DEF TablesAreClean
<1> DEFINE t == mem[q][m].page
<1>2. mem'[q] = mem[q]
  BY WriteFacts DEF ChangesOnly
<1>3. mem[q][m].present /\ ~ mem'[t][l].present /\ t \in Frame
  BY <1>1, <1>2 DEF Apart
<1>4. ~ mem[t][l].present => mem[t][l].page = 0
  BY <1>3 DEF TablesAreClean
<1> HIDE DEF t
<1>5. mem'[t][l].page = 0
  <2>1. CASE t # mem[p][k].page
    BY <2>1, <1>3, <1>4, <1>0 DEF ChangesOnly
  <2>2. CASE t = mem[p][k].page /\ l # j
    BY <2>2, <1>3, <1>4, <1>0 DEF ChangesOnly
  <2>3. CASE t = mem[p][k].page /\ l = j
    BY <2>3, <1>3, <1>0 DEF ChangesOnly
  <2>4. QED
    BY <2>1, <2>2, <2>3
<1>6. QED
  BY <1>2, <1>5 DEF t

(* A table added is seen through one entry, and nothing else changes. *)
LEMMA AddIsSeen ==
  ASSUME TypeOK, Apart, NEW p \in Directories, NEW k \in Index, NEW f \in Frame,
         NEW flags \in Flags \cup {"none"}, NEW content \in Content,
         AddTable(p, k, f, flags, content),
         NEW q \in Directories, NEW l \in Index
  PROVE  \/ /\ q = p /\ l = k
            /\ mem'[q][l].present /\ mem'[q][l].page = f /\ mem'[f] = content
         \/ /\ q # p \/ l # k
            /\ mem'[q][l] = mem[q][l]
            /\ mem[q][l].present => mem'[mem[q][l].page] = mem[mem[q][l].page]
<1>1. /\ f \notin Directories
      /\ mem'[f] = content
      /\ mem'[p][k] = To(f, flags)
      /\ \A m \in Index \ {k} : mem'[p][m] = mem[p][m]
      /\ \A g \in Frame : g # f /\ g # p => mem'[g] = mem[g]
      /\ \A d \in Directories, m \in Index : mem[d][m].present => mem[d][m].page # f
  BY AddFacts
<1>2. q \in Frame /\ q # f
  BY <1>1, DirectoriesAreFrames
<1>3. mem[q][l].present => mem'[mem[q][l].page] = mem[mem[q][l].page]
  <2>1. mem[q][l].present =>
          mem[q][l].page \in Frame /\ mem[q][l].page # f /\ mem[q][l].page # p
    BY <1>1 DEF Apart
  <2>2. QED
    BY <1>1, <2>1
<1>4. CASE q # p \/ l # k
  <2>1. mem'[q][l] = mem[q][l]
    BY <1>1, <1>2, <1>4
  <2>2. QED
    BY <1>3, <1>4, <2>1
<1>5. CASE q = p /\ l = k
  BY <1>1, <1>5 DEF To
<1>6. QED
  BY <1>4, <1>5

(* So does a table added. *)
LEMMA AddKeepsApart ==
  ASSUME TypeOK, Apart, NEW p \in Directories, NEW k \in Index, NEW f \in Frame,
         NEW flags \in Flags \cup {"none"}, NEW content \in Content,
         AddTable(p, k, f, flags, content), UNCHANGED <<kernel_pd, spaces>>
  PROVE  Directories' = Directories /\ free' \in SUBSET Frame /\ Apart'
<1>1. Directories' = Directories
  BY DEF Directories
<1>2. free' = free \ {f} /\ f \in free
  BY DEF AddTable
<1>3. \A q \in Directories, l \in Index :
        \/ q = p /\ l = k /\ mem'[q][l].page = f
        \/ mem'[q][l] = mem[q][l]
  BY AddIsSeen
<1>4. f \notin Directories
  BY AddFacts
<1>5. Directories' \cap free' = {}
  BY <1>1, <1>2 DEF Apart
<1>6. \A q \in Directories, l \in Index : mem'[q][l].present =>
        mem'[q][l].page \in Frame \ (free' \cup Directories)
  BY <1>2, <1>3, <1>4 DEF Apart
<1>7. ASSUME NEW q \in Directories, NEW s \in Directories, NEW l \in Index, NEW m \in Index,
             mem'[q][l].present, mem'[s][m].present, mem'[q][l].page = mem'[s][m].page
      PROVE  l = m
  <2>1. \A d \in Directories, x \in Index : mem[d][x].present => mem[d][x].page # f
    BY AddFacts
  <2>2. \A d, g \in Directories, x, y \in Index :
          mem[d][x].present /\ mem[g][y].present /\ mem[d][x].page = mem[g][y].page => x = y
    BY DEF Apart
  <2>3. QED
    BY <1>3, <1>7, <2>1, <2>2
<1>8. QED
  BY <1>1, <1>2, <1>5, <1>6, <1>7 DEF Apart, TypeOK

LEMMA AddKeepsIdentity ==
  ASSUME TypeOK, Apart, NEW p \in Directories, NEW k \in Index, NEW f \in Frame,
         NEW flags \in Flags \cup {"none"}, NEW content \in Content,
         AddTable(p, k, f, flags, content), UNCHANGED <<kernel_pd, spaces>>,
         NEW n \in Nat, IdentityUpTo(n),
         \A v \in Frame : pd_idx(v) = k /\ (p \in spaces \/ v < n) =>
           content[pt_idx(v)] = To(v, "rw")
  PROVE  IdentityUpTo(n)'
<1>1. SUFFICES ASSUME NEW q \in Directories, NEW v \in Frame, q \in spaces \/ v < n
               PROVE  /\ mem'[q][pd_idx(v)].present
                      /\ mem'[mem'[q][pd_idx(v)].page][pt_idx(v)] = To(v, "rw")
  BY AddKeepsApart DEF IdentityUpTo
<1>2. pd_idx(v) \in Index
  BY FrameIndices
<1>3. mem[q][pd_idx(v)].present /\ mem[mem[q][pd_idx(v)].page][pt_idx(v)] = To(v, "rw")
  BY <1>1 DEF IdentityUpTo
<1>4. CASE q = p /\ pd_idx(v) = k
  BY <1>1, <1>2, <1>4, AddIsSeen
<1>5. CASE q # p \/ pd_idx(v) # k
  <2>1. /\ mem'[q][pd_idx(v)] = mem[q][pd_idx(v)]
        /\ mem'[mem[q][pd_idx(v)].page] = mem[mem[q][pd_idx(v)].page]
    BY <1>2, <1>3, <1>5, AddIsSeen
  <2>2. QED
    BY <1>3, <2>1
<1>6. QED
  BY <1>4, <1>5

LEMMA AddKeepsClean ==
  ASSUME TypeOK, Apart, NEW p \in Directories, NEW k \in Index, NEW f \in Frame,
         NEW flags \in Flags \cup {"none"}, NEW content \in Content,
         AddTable(p, k, f, flags, content), UNCHANGED <<kernel_pd, spaces>>,
         TablesAreClean, \A j \in Index : ~ content[j].present => content[j].page = 0
  PROVE  TablesAreClean'
<1>1. SUFFICES ASSUME NEW q \in Directories, NEW m \in Index, NEW l \in Index,
                      mem'[q][m].present, ~ mem'[mem'[q][m].page][l].present
               PROVE  mem'[mem'[q][m].page][l].page = 0
  BY AddKeepsApart DEF TablesAreClean
<1>2. CASE mem'[q][m].page = f /\ mem'[f] = content
  BY <1>1, <1>2
<1>3. CASE /\ mem'[q][m] = mem[q][m]
           /\ mem[q][m].present => mem'[mem[q][m].page] = mem[mem[q][m].page]
  BY <1>1, <1>3 DEF TablesAreClean
<1>4. QED
  BY <1>2, <1>3, AddIsSeen

-----------------------------------------------------------------------------
(* Mapping a page, then, keeps the identity mapping as far as it has come, *)
(* unless it contradicts it, and does what it is for.                      *)
LEMMA MapKeeps ==
  ASSUME TypeOK, Apart, TablesAreClean,
         NEW p \in Directories, NEW virt, NEW phys \in Nat, NEW flags \in Flags,
         pd_idx(virt) \in Index, pt_idx(virt) \in Index,
         vmm_map_page(p, virt, phys, flags), UNCHANGED <<kernel_pd, spaces>>,
         NEW n \in Nat, IdentityUpTo(n),
         \A v \in Frame : pd_idx(v) = pd_idx(virt) /\ pt_idx(v) = pt_idx(virt) =>
           To(phys, flags) = To(v, "rw")
  PROVE  /\ mem' \in [Frame -> Content] /\ free' \in SUBSET Frame
         /\ Directories' = Directories /\ Apart' /\ TablesAreClean'
         /\ IdentityUpTo(n)'
         /\ mem'[p][pd_idx(virt)].present
         /\ mem'[mem'[p][pd_idx(virt)].page][pt_idx(virt)] = To(phys, flags)
<1> DEFINE k == pd_idx(virt)
           j == pt_idx(virt)
           e == To(phys, flags)
           content == [ClearPage EXCEPT ![j] = e]
<1>1. k \in Index /\ j \in Index /\ e \in Entry /\ e.present
  BY ToIsEntry
<1>2. CASE WriteEntry(p, k, j, e)
  <2>1. ChangesOnly(mem[p][k].page, j, e)
    BY <1>1, <1>2, WriteFacts
  <2>2. mem[p][k].present
    BY <1>2 DEF WriteEntry
  <2>3. IdentityUpTo(n)'
    BY <1>1, <1>2, WriteKeepsIdentity
  <2>4. TablesAreClean'
    BY <1>1, <1>2, WriteKeepsClean
  <2>5. Directories' = Directories /\ free' = free /\ Apart'
    BY <1>1, <1>2, WriteKeepsApart
  <2>6. QED
    BY <2>1, <2>2, <2>3, <2>4, <2>5 DEF TypeOK, ChangesOnly
<1>3. CASE ~ mem[p][k].present /\ \E f \in Frame : AddTable(p, k, f, "rw", content)
  <2>1. PICK f \in Frame : AddTable(p, k, f, "rw", content)
    BY <1>3
  <2>2. /\ content \in Content /\ "rw" \in Flags \cup {"none"} /\ content[j] = e
        /\ \A l \in Index : ~ content[l].present => content[l].page = 0
    BY <1>1, VmmAssumption, ZeroIsEntry DEF Content, ClearPage, Zero
  <2> HIDE DEF content
  <2>3. mem' \in [Frame -> Content]
    BY <1>1, <2>1, <2>2, AddFacts
  <2>4. mem'[p][k].present /\ mem'[p][k].page = f /\ mem'[f][j] = e
    BY <1>1, <2>1, <2>2, AddIsSeen
  <2>5. \A v \in Frame : ~ (pd_idx(v) = k /\ (p \in spaces \/ v < n))
    BY <1>3 DEF IdentityUpTo
  <2>6. IdentityUpTo(n)'
    BY <1>1, <2>1, <2>2, <2>5, AddKeepsIdentity
  <2>7. TablesAreClean'
    BY <1>1, <2>1, <2>2, AddKeepsClean
  <2>8. Directories' = Directories /\ free' \in SUBSET Frame /\ Apart'
    BY <1>1, <2>1, <2>2, AddKeepsApart
  <2>9. QED
    BY <2>3, <2>4, <2>6, <2>7, <2>8
<1>4. QED
  BY <1>2, <1>3, MapIs

(* Cloning an entry adds a table to the new space, with what the old one   *)
(* has present.                                                            *)
Copy(t) == [j \in Index |-> IF mem[t][j].present THEN mem[t][j] ELSE Zero]

LEMMA CloneAdds ==
  ASSUME TypeOK, Apart, src \in Directories, dst \in Directories, i \in Index,
         mem[src][i].present, NEW f \in free, free' = free \ {f}, clone_table(f)
  PROVE  /\ mem[src][i].page \in Frame
         /\ mem[src][i].flags \in Flags \cup {"none"}
         /\ Copy(mem[src][i].page) \in Content
         /\ AddTable(dst, i, f, mem[src][i].flags, Copy(mem[src][i].page))
<1>1. f \in Frame /\ dst \in Frame /\ src \in Frame /\ f # dst
  BY DirectoriesAreFrames DEF TypeOK, Apart
<1>2. mem[src][i].page \in Frame
  BY DEF Apart
<1>3. mem[src][i] \in Entry
  BY <1>1, EntryTypes
<1>4. \A j \in Index : mem[mem[src][i].page][j] \in Entry
  BY <1>2, EntryTypes
<1>5. Copy(mem[src][i].page) \in Content
  BY <1>4, ZeroIsEntry DEF Copy, Content
<1>6. mem' = [mem EXCEPT ![f] = Copy(mem[src][i].page),
                         ![dst] = [mem[dst] EXCEPT ![i] = To(f, mem[src][i].flags)]]
  BY <1>1 DEF clone_table, Copy, TypeOK
<1>7. QED
  BY <1>2, <1>3, <1>5, <1>6 DEF AddTable, Entry

-----------------------------------------------------------------------------
LEMMA InitHolds == Init => IInv
<1> SUFFICES ASSUME Init PROVE IInv
  OBVIOUS
<1>1. Directories = {}
  BY DEF Init, Directories
<1>2. Stale \in Content
  <2>1. "rw" \in Flags
    BY VmmAssumption
  <2>2. QED
    BY <2>1 DEF Stale, Content, Entry
<1>3. free \in SUBSET Frame
  BY VmmAssumption DEF Init, Frame
<1>4. TypeOK
  BY <1>2, <1>3, Sizes DEF Init, TypeOK
<1>5. BootOrder
  BY DEF Init, BootOrder
<1>6. QED
  BY <1>1, <1>4, <1>5 DEF IInv, Apart, IdentitySoFar, IdentityUpTo, TablesAreClean

LEMMA BootHolds ==
  ASSUME IInv, init_paging
  PROVE  IInv'
<1>1. PICK f \in Frame : /\ pmm_alloc(f)
                         /\ free' = free \ {f}
                         /\ kernel_pd' = f
                         /\ mem' = [mem EXCEPT ![f] = ClearPage]
  BY DEF init_paging
<1>2. spaces' = {} /\ pc' = "identity" /\ addr' = 0 /\ i' = i /\ current_pd' = current_pd
  BY DEF init_paging, IInv, BootOrder
<1>3. f # NULL
  BY DEF Frame, NULL
<1>4. Directories' = {f}
  BY <1>1, <1>2, <1>3 DEF Directories
<1>5. mem' \in [Frame -> Content] /\ mem'[f] = ClearPage
  BY <1>1, ZeroIsEntry DEF IInv, TypeOK
<1>6. \A k \in Index : ~ mem'[f][k].present
  BY <1>5 DEF ClearPage, Zero
<1>7. TypeOK'
  BY <1>1, <1>2, <1>5, Sizes DEF IInv, TypeOK
<1>8. BootOrder'
  BY <1>1, <1>2, <1>3 DEF BootOrder
<1>9. Apart' /\ TablesAreClean'
  BY <1>1, <1>4, <1>6 DEF Apart, TablesAreClean
<1>10. IdentitySoFar'
  BY <1>2 DEF IdentitySoFar, IdentityUpTo, Frame
<1>11. QED
  BY <1>7, <1>8, <1>9, <1>10 DEF IInv

LEMMA IdentityHolds ==
  ASSUME IInv, identity_page
  PROVE  IInv'
<1>1. /\ kernel_pd \in Directories /\ Directories = {kernel_pd} /\ spaces = {}
      /\ UNCHANGED <<kernel_pd, current_pd, pc, i, spaces>> /\ pc = "identity"
      /\ kernel_pd # NULL
  BY DEF identity_page, IInv, BootOrder, Directories
<1>2. PICK n \in Frame : n = addr
  BY Sizes DEF identity_page, IInv, TypeOK, Frame
<1>3. addr' = n + 1 /\ vmm_map_page(kernel_pd, n, n, "rw")
  BY <1>2 DEF identity_page
<1>4. n \in Nat /\ pd_idx(n) \in Index /\ pt_idx(n) \in Index /\ "rw" \in Flags
  BY FrameIndices, VmmAssumption
<1>5. \A v \in Frame : pd_idx(v) = pd_idx(n) /\ pt_idx(v) = pt_idx(n) => v = n
  BY <1>4, IndicesTell, FrameIndices
<1>6. IdentityUpTo(n)
  BY <1>2 DEF IInv, IdentitySoFar
<1>7. PICK p \in Directories : p = kernel_pd
  BY <1>1
<1>8. /\ mem' \in [Frame -> Content] /\ free' \in SUBSET Frame
      /\ Directories' = Directories /\ Apart' /\ TablesAreClean'
      /\ IdentityUpTo(n)'
      /\ mem'[p][pd_idx(n)].present
      /\ mem'[mem'[p][pd_idx(n)].page][pt_idx(n)] = To(n, "rw")
  <2>1. vmm_map_page(p, n, n, "rw")
    BY <1>3, <1>7
  <2>2. QED
    BY <1>1, <1>4, <1>5, <1>6, <2>1, MapKeeps DEF IInv
<1>9. IdentityUpTo(n + 1)'
  <2>1. SUFFICES ASSUME NEW v \in Frame, v < n + 1
                 PROVE  /\ mem'[p][pd_idx(v)].present
                        /\ mem'[mem'[p][pd_idx(v)].page][pt_idx(v)] = To(v, "rw")
    BY <1>1, <1>7, <1>8 DEF IdentityUpTo
  <2>2. v < n \/ v = n
    BY <1>4, <2>1, FrameIndices
  <2>3. QED
    BY <1>8, <2>2 DEF IdentityUpTo
<1>10. TypeOK'
  BY <1>1, <1>3, <1>8, Sizes DEF IInv, TypeOK, Frame
<1>11. BootOrder'
  BY <1>1 DEF BootOrder
<1>12. QED
  BY <1>3, <1>8, <1>9, <1>10, <1>11 DEF IInv, IdentitySoFar

LEMMA EnableHolds ==
  ASSUME IInv, enable_paging
  PROVE  IInv'
<1>1. /\ Directories = {kernel_pd} /\ Directories' = Directories
      /\ spaces' = {kernel_pd} /\ kernel_pd # NULL
      /\ UNCHANGED <<mem, free, kernel_pd, addr, i>> /\ pc' = "ready"
      /\ current_pd' = kernel_pd
  BY DEF enable_paging, IInv, BootOrder, Directories, locals
<1>2. TypeOK'
  BY <1>1 DEF IInv, TypeOK
<1>3. BootOrder'
  BY <1>1 DEF BootOrder
<1>4. Apart' /\ TablesAreClean'
  BY <1>1 DEF IInv, Apart, TablesAreClean
<1>5. IdentitySoFar'
  <2>1. \A v \in Frame : v < addr
    BY Sizes DEF enable_paging, Frame
  <2>2. QED
    BY <1>1, <2>1 DEF IInv, IdentitySoFar, IdentityUpTo
<1>6. QED
  BY <1>2, <1>3, <1>4, <1>5 DEF IInv

LEMMA CreateHolds ==
  ASSUME IInv, vmm_create_address_space
  PROVE  IInv'
<1>1. PICK f \in Frame : /\ f \in free
                         /\ free' = free \ {f}
                         /\ mem' = [mem EXCEPT ![f] = mem[kernel_pd]]
                         /\ spaces' = spaces \cup {f}
  BY DEF vmm_create_address_space, pmm_alloc
<1>2. UNCHANGED <<kernel_pd, current_pd, pc, locals>> /\ pc = "ready"
  BY DEF vmm_create_address_space
<1>3. /\ kernel_pd \in spaces /\ kernel_pd \in Frame /\ kernel_pd # NULL
      /\ Directories = spaces /\ Directories' = spaces \cup {f}
  <2>1. kernel_pd \in spaces /\ kernel_pd \in Frame /\ kernel_pd # NULL
    BY <1>2 DEF IInv, BootOrder, TypeOK, Frame, NULL
  <2>2. QED
    BY <1>1, <1>2, <2>1 DEF Directories
<1>4. /\ f \notin spaces
      /\ \A p \in spaces, k \in Index : mem[p][k].present =>
           mem[p][k].page \in Frame \ (free \cup spaces)
  BY <1>1, <1>3 DEF IInv, Apart
<1>5. /\ mem' \in [Frame -> Content]
      /\ mem'[f] = mem[kernel_pd]
      /\ \A g \in Frame \ {f} : mem'[g] = mem[g]
  BY <1>1, <1>3 DEF IInv, TypeOK
(* Every directory is one there was, the new one being the kernel's again. *)
<1>6. \A p \in Directories' : \E q \in spaces :
        mem'[p] = mem[q] /\ (p \in spaces => q = p)
  BY <1>3, <1>4, <1>5, DirectoriesAreFrames DEF IInv
<1>7. \A q \in spaces, k \in Index : mem[q][k].present =>
        mem'[mem[q][k].page] = mem[mem[q][k].page]
  BY <1>1, <1>4, <1>5
<1>8. TypeOK'
  BY <1>1, <1>2, <1>3, <1>5 DEF IInv, TypeOK, locals
<1>9. BootOrder'
  BY <1>1, <1>2, <1>3 DEF BootOrder
<1>10. Apart'
  <2>1. Directories' \cap free' = {}
    BY <1>1, <1>3 DEF IInv, Apart
  <2>2. ASSUME NEW p \in Directories', NEW k \in Index, mem'[p][k].present
        PROVE  mem'[p][k].page \in Frame \ (free' \cup Directories')
    BY <1>1, <1>3, <1>4, <1>6, <2>2
  <2>3. ASSUME NEW p \in Directories', NEW q \in Directories', NEW k \in Index, NEW l \in Index,
               mem'[p][k].present, mem'[q][l].present, mem'[p][k].page = mem'[q][l].page
        PROVE  k = l
    BY <1>3, <1>6, <2>3 DEF IInv, Apart
  <2>4. QED
    BY <2>1, <2>2, <2>3 DEF Apart
<1>11. IdentitySoFar'
  <2>1. SUFFICES ASSUME NEW p \in Directories', NEW v \in Frame
                 PROVE  /\ mem'[p][pd_idx(v)].present
                        /\ mem'[mem'[p][pd_idx(v)].page][pt_idx(v)] = To(v, "rw")
    BY <1>2 DEF IdentitySoFar, IdentityUpTo
  <2>2. PICK q \in spaces : mem'[p] = mem[q]
    BY <1>6
  <2>3. pd_idx(v) \in Index /\ mem[q][pd_idx(v)].present
        /\ mem[mem[q][pd_idx(v)].page][pt_idx(v)] = To(v, "rw")
    BY <1>3, FrameIndices DEF IInv, IdentitySoFar, IdentityUpTo
  <2>4. QED
    BY <1>7, <2>2, <2>3
<1>12. TablesAreClean'
  <2>1. SUFFICES ASSUME NEW p \in Directories', NEW k \in Index, NEW j \in Index,
                        mem'[p][k].present, ~ mem'[mem'[p][k].page][j].present
                 PROVE  mem'[mem'[p][k].page][j].page = 0
    BY DEF TablesAreClean
  <2>2. PICK q \in spaces : mem'[p] = mem[q]
    BY <1>6
  <2>3. QED
    BY <1>3, <1>7, <2>1, <2>2 DEF IInv, TablesAreClean
<1>13. QED
  BY <1>8, <1>9, <1>10, <1>11, <1>12 DEF IInv

(* Steps that change no table. *)
LEMMA QuietHolds ==
  ASSUME IInv, UNCHANGED <<mem, free, kernel_pd, addr, spaces>>
  PROVE  Directories' = Directories /\ Apart' /\ IdentitySoFar' /\ TablesAreClean'
<1>1. Directories' = Directories
  BY DEF Directories
<1>2. QED
  BY <1>1 DEF IInv, Apart, IdentitySoFar, IdentityUpTo, TablesAreClean

(* A step after init_paging, which leaves its local alone. *)
LEMMA IdentityStays ==
  ASSUME IInv, addr' = addr, \A n \in Nat : IdentityUpTo(n) => IdentityUpTo(n)'
  PROVE  IdentitySoFar'
<1>1. PICK n \in Nat : n = addr
  BY Sizes DEF IInv, TypeOK
<1>2. IdentityUpTo(n)'
  BY <1>1 DEF IInv, IdentitySoFar
<1>3. QED
  BY <1>1, <1>2 DEF IdentitySoFar

LEMMA SwitchHolds ==
  ASSUME IInv, NEW pd \in spaces, vmm_switch_to(pd)
  PROVE  IInv'
<1>1. UNCHANGED <<mem, free, kernel_pd, pc, addr, src, dst, i, spaces>> /\ current_pd' = pd
  BY DEF vmm_switch_to, locals
<1>2. TypeOK' /\ BootOrder'
  BY <1>1 DEF IInv, TypeOK, BootOrder
<1>3. QED
  BY <1>1, <1>2, QuietHolds DEF IInv

LEMMA MapHolds ==
  ASSUME IInv, NEW pd \in spaces, NEW virt \in Virt, NEW phys \in Phys, NEW flags \in Flags,
         map_page(pd, virt, phys, flags)
  PROVE  IInv'
<1>1. /\ UNCHANGED <<kernel_pd, current_pd, pc, addr, src, dst, i, spaces>> /\ pc = "ready"
      /\ vmm_map_page(pd, virt, phys, flags)
  BY DEF map_page, locals
<1>2. pd \in Directories /\ phys \in Nat
  BY <1>1, VmmAssumption DEF IInv, BootOrder, Directories
<1>3. /\ pd_idx(virt) \in Index /\ pt_idx(virt) \in Index
      /\ \A v \in Frame : pd_idx(v) # pd_idx(virt)
  <2>1. \A v \in Frame : pd_idx(virt) # pd_idx(v)
    BY CallersKeepClear
  <2>2. 0 \in Frame
    BY Sizes DEF Frame
  <2>3. pd_idx(virt) \in Index /\ pt_idx(virt) \in Index
    BY <2>2, CallersKeepClear
  <2>4. QED
    BY <2>1, <2>3
<1>4. ASSUME NEW n \in Nat, IdentityUpTo(n)
      PROVE  /\ mem' \in [Frame -> Content] /\ free' \in SUBSET Frame
             /\ Apart' /\ TablesAreClean' /\ IdentityUpTo(n)'
  BY <1>1, <1>2, <1>3, <1>4, MapKeeps DEF IInv
<1>5. IdentityUpTo(0)
  BY <1>1 DEF IInv, IdentitySoFar, IdentityUpTo, Frame, TypeOK
<1>6. mem' \in [Frame -> Content] /\ free' \in SUBSET Frame /\ Apart' /\ TablesAreClean'
  BY <1>4, <1>5
<1>7. IdentitySoFar'
  BY <1>1, <1>4, IdentityStays
<1>8. TypeOK' /\ BootOrder'
  BY <1>1, <1>6 DEF IInv, TypeOK, BootOrder
<1>9. QED
  BY <1>6, <1>7, <1>8 DEF IInv

LEMMA UnmapHolds ==
  ASSUME IInv, NEW pd \in spaces, NEW virt \in Virt, vmm_unmap_page(pd, virt)
  PROVE  IInv'
<1> DEFINE k == pd_idx(virt)
           j == pt_idx(virt)
<1>1. UNCHANGED <<kernel_pd, current_pd, pc, addr, src, dst, i, spaces>> /\ pc = "ready"
  BY DEF vmm_unmap_page, locals
<1>2. pd \in Directories
  BY <1>1 DEF IInv, BootOrder, Directories
<1>3. k \in Index /\ j \in Index /\ \A v \in Frame : pd_idx(v) # k
  <2>1. \A v \in Frame : k # pd_idx(v)
    BY CallersKeepClear
  <2>2. 0 \in Frame
    BY Sizes DEF Frame
  <2>3. k \in Index /\ j \in Index
    BY <2>2, CallersKeepClear
  <2>4. QED
    BY <2>1, <2>3
<1>4. WriteEntry(pd, k, j, Zero)
  BY DEF vmm_unmap_page, SetEntry, WriteEntry
<1>5. Zero \in Entry /\ Zero.page = 0
  BY ZeroIsEntry DEF Zero
<1> HIDE DEF k, j
<1>6. mem' \in [Frame -> Content]
  BY <1>2, <1>3, <1>4, <1>5, WriteFacts DEF IInv, ChangesOnly
<1>7. free' = free /\ Apart'
  BY <1>1, <1>2, <1>3, <1>4, <1>5, WriteKeepsApart DEF IInv
<1>8. TablesAreClean'
  BY <1>1, <1>2, <1>3, <1>4, <1>5, WriteKeepsClean DEF IInv
<1>9. ASSUME NEW n \in Nat, IdentityUpTo(n) PROVE IdentityUpTo(n)'
  BY <1>1, <1>2, <1>3, <1>4, <1>5, <1>9, WriteKeepsIdentity DEF IInv
<1>10. IdentitySoFar'
  BY <1>1, <1>9, IdentityStays
<1>11. TypeOK' /\ BootOrder'
  BY <1>1, <1>6, <1>7 DEF IInv, TypeOK, BootOrder
<1>12. QED
  BY <1>7, <1>8, <1>10, <1>11 DEF IInv

LEMMA CloneEntryHolds ==
  ASSUME IInv, clone_entry
  PROVE  IInv'
<1>1. /\ UNCHANGED <<kernel_pd, current_pd, pc, addr, src, dst, spaces>> /\ pc = "clone"
      /\ i \in Index /\ i' = i + 1 /\ i' \in 0 .. ENTRIES
  BY Sizes DEF clone_entry, IInv, TypeOK, Index
<1>2. src \in spaces /\ src \in Directories /\ dst \in Directories
  BY <1>1 DEF IInv, BootOrder, Directories
<1>3. CASE UNCHANGED <<mem, free>>
  <2>1. TypeOK' /\ BootOrder'
    BY <1>1, <1>3 DEF IInv, TypeOK, BootOrder
  <2>2. QED
    BY <1>1, <1>3, <2>1, QuietHolds DEF IInv
<1>4. CASE /\ mem[src][i].present
           /\ \E f \in Frame : pmm_alloc(f) /\ free' = free \ {f} /\ clone_table(f)
  <2>1. PICK f \in Frame : f \in free /\ free' = free \ {f} /\ clone_table(f)
    BY <1>4 DEF pmm_alloc
  <2>2. PICK q \in Directories, p \in Directories, k \in Index : q = src /\ p = dst /\ k = i
    BY <1>1, <1>2
  <2>3. PICK t \in Frame, flags \in Flags \cup {"none"}, content \in Content :
          /\ t = mem[q][k].page /\ content = Copy(t) /\ mem[q][k].present
          /\ AddTable(p, k, f, flags, content)
    BY <1>1, <1>2, <1>4, <2>1, <2>2, CloneAdds DEF IInv
  <2>4. \A v \in Frame : pd_idx(v) = k => content[pt_idx(v)] = To(v, "rw")
    <3>1. SUFFICES ASSUME NEW v \in Frame, pd_idx(v) = k
                   PROVE  content[pt_idx(v)] = To(v, "rw")
      OBVIOUS
    <3>2. mem[t][pt_idx(v)] = To(v, "rw") /\ pt_idx(v) \in Index
      BY <1>2, <2>2, <2>3, <3>1, FrameIndices DEF IInv, IdentitySoFar, IdentityUpTo
    <3>3. content = [l \in Index |-> IF mem[t][l].present THEN mem[t][l] ELSE Zero]
      BY <2>3 DEF Copy
    <3>4. content[pt_idx(v)] = IF mem[t][pt_idx(v)].present THEN mem[t][pt_idx(v)] ELSE Zero
      BY <3>2, <3>3
    <3>5. mem[t][pt_idx(v)].present
      BY <3>2 DEF To
    <3>6. QED
      BY <3>2, <3>4, <3>5
  <2>5. \A l \in Index : ~ content[l].present => content[l].page = 0
    BY <2>3 DEF Copy, Zero
  <2>6. mem' \in [Frame -> Content]
    BY <2>3, AddFacts DEF IInv
  <2>7. free' \in SUBSET Frame /\ Apart'
    BY <1>1, <2>3, AddKeepsApart DEF IInv
  <2>8. TablesAreClean'
    BY <1>1, <2>3, <2>5, AddKeepsClean DEF IInv
  <2>9. ASSUME NEW n \in Nat, IdentityUpTo(n) PROVE IdentityUpTo(n)'
    BY <1>1, <2>3, <2>4, <2>9, AddKeepsIdentity DEF IInv
  <2>10. IdentitySoFar'
    BY <1>1, <2>9, IdentityStays
  <2>11. TypeOK' /\ BootOrder'
    BY <1>1, <2>6, <2>7 DEF IInv, TypeOK, BootOrder
  <2>12. QED
    BY <2>7, <2>8, <2>10, <2>11 DEF IInv
<1>5. QED
  BY <1>3, <1>4 DEF clone_entry

LEMMA NextHolds ==
  ASSUME IInv, [Next]_vars
  PROVE  IInv'
<1>1. CASE init_paging
  BY <1>1, BootHolds
<1>2. CASE identity_page
  BY <1>2, IdentityHolds
<1>3. CASE enable_paging
  BY <1>3, EnableHolds
<1>4. CASE vmm_create_address_space
  BY <1>4, CreateHolds
<1>5. CASE \E pd \in spaces : vmm_switch_to(pd)
  BY <1>5, SwitchHolds
<1>6. CASE \E pd \in spaces, virt \in Virt, phys \in Phys, flags \in Flags :
             map_page(pd, virt, phys, flags)
  BY <1>6, MapHolds
<1>7. CASE \E pd \in spaces, virt \in Virt : vmm_unmap_page(pd, virt)
  BY <1>7, UnmapHolds
<1>8. CASE \E from, to \in spaces : vmm_clone_address_space(from, to)
  <2>1. PICK from \in spaces, to \in spaces : vmm_clone_address_space(from, to)
    BY <1>8
  <2>2. /\ UNCHANGED <<mem, free, kernel_pd, current_pd, addr, spaces>>
        /\ pc = "ready" /\ pc' = "clone" /\ i' = 0 /\ src' = from /\ dst' = to
    BY <2>1 DEF vmm_clone_address_space
  <2>3. TypeOK' /\ BootOrder'
    BY <2>2, Sizes DEF IInv, TypeOK, BootOrder
  <2>4. QED
    BY <2>2, <2>3, QuietHolds DEF IInv
<1>9. CASE clone_entry
  BY <1>9, CloneEntryHolds
<1>10. CASE clone_end
  <2>1. UNCHANGED <<mem, free, kernel_pd, current_pd, addr, src, dst, i, spaces>>
        /\ pc = "clone" /\ pc' = "ready"
    BY <1>10 DEF clone_end, locals
  <2>2. TypeOK' /\ BootOrder'
    BY <2>1 DEF IInv, TypeOK, BootOrder
  <2>3. QED
    BY <2>1, <2>2, QuietHolds DEF IInv
<1>11. CASE out_of_memory
  <2>1. UNCHANGED <<mem, free, kernel_pd, current_pd, addr, src, dst, i, spaces>>
        /\ pc' = "panic"
    BY <1>11 DEF out_of_memory, panic, locals
  <2>2. TypeOK' /\ BootOrder'
    BY <2>1 DEF IInv, TypeOK, BootOrder
  <2>3. QED
    BY <2>1, <2>2, QuietHolds DEF IInv
<1>12. CASE UNCHANGED vars
  <2>1. UNCHANGED <<mem, free, kernel_pd, current_pd, pc, addr, src, dst, i, spaces>>
    BY <1>12 DEF vars, locals
  <2>2. TypeOK' /\ BootOrder'
    BY <2>1 DEF IInv, TypeOK, BootOrder
  <2>3. QED
    BY <2>1, <2>2, QuietHolds DEF IInv
<1>13. QED
  BY <1>1, <1>2, <1>3, <1>4, <1>5, <1>6, <1>7, <1>8, <1>9, <1>10, <1>11, <1>12 DEF Next, halted

(* The inductive invariant. *)
THEOREM Inductive == Spec => []IInv
<1>1. Init => IInv
  BY InitHolds
<1>2. IInv /\ [Next]_vars => IInv'
  BY NextHolds
<1>3. QED
  BY <1>1, <1>2, PTL DEF Spec

-----------------------------------------------------------------------------
(* vmm.c, every operation: no directory or table lies in free memory, no   *)
(* table is a directory, and two entries that share a table are entries    *)
(* for the same addresses.                                                 *)
LEMMA ApartGives == IInv => FramesDisjoint
<1> SUFFICES ASSUME IInv PROVE FramesDisjoint
  OBVIOUS
<1>1. Apart /\ Directories \subseteq Frame
  BY DirectoriesAreFrames DEF IInv
<1>2. ASSUME NEW t \in Tables
      PROVE  t \in Frame \ (free \cup Directories)
  <2>1. PICK p \in Directories, k \in Index : t \in TableOf(p, k)
    BY DEF Tables
  <2>2. mem[p][k].present /\ t = mem[p][k].page
    BY <2>1 DEF TableOf
  <2>3. QED
    BY <1>1, <2>2 DEF Apart
<1>3. ASSUME NEW p \in Directories, NEW q \in Directories, NEW k \in Index, NEW l \in Index,
             TableOf(p, k) \cap TableOf(q, l) # {}
      PROVE  k = l
  BY <1>1, <1>3 DEF TableOf, Apart
<1>4. QED
  BY <1>1, <1>2, <1>3 DEF FramesDisjoint, Apart

THEOREM FramesAreDisjoint == Spec => []FramesDisjoint
BY Inductive, ApartGives, PTL

LEMMA MappedIs ==
  ASSUME NEW p, NEW v
  PROVE  /\ ~ mem[p][pd_idx(v)].present => Mapped(p, v) = {}
         /\ mem[p][pd_idx(v)].present =>
              LET e == mem[mem[p][pd_idx(v)].page][pt_idx(v)] IN
              Mapped(p, v) = IF e.present THEN {[page |-> e.page, flags |-> e.flags]} ELSE {}
BY DEF Mapped, TableOf

(* init_paging, and whatever is created, mapped or cloned later: the whole *)
(* memory is mapped to itself in every address space.                      *)
THEOREM IdentityStaysMapped == Spec => []IdentityHeld
<1>1. IInv => IdentityHeld
  <2>1. SUFFICES ASSUME IInv, NEW p \in spaces, NEW v \in Frame
                 PROVE  Mapped(p, v) = {[page |-> v, flags |-> "rw"]}
    BY DEF IdentityHeld
  <2>2. p \in Directories
    BY <2>1 DEF IInv, BootOrder, Directories
  <2>3. /\ mem[p][pd_idx(v)].present
        /\ mem[mem[p][pd_idx(v)].page][pt_idx(v)] = To(v, "rw")
    BY <2>1, <2>2 DEF IInv, IdentitySoFar, IdentityUpTo
  <2>4. QED
    BY <2>3, MappedIs DEF To
<1>2. QED
  BY <1>1, Inductive, PTL

(* vmm_get_phys_addr: it looks at no present bit of a table and is right   *)
(* all the same.                                                           *)
THEOREM LookupStaysExact == Spec => []LookupIsExact
<1>1. IInv => LookupIsExact
  <2>1. SUFFICES ASSUME IInv, NEW p \in Directories, NEW v \in Virt
                 PROVE  vmm_get_phys_addr(p, v) =
                          IF Mapped(p, v) = {} THEN 0
                          ELSE (CHOOSE e \in Mapped(p, v) : TRUE).page
    BY DEF LookupIsExact
  <2>2. pd_idx(v) \in Index /\ pt_idx(v) \in Index
    <3>1. 0 \in Frame
      BY Sizes DEF Frame
    <3>2. QED
      BY <3>1, CallersKeepClear
  <2>3. CASE ~ mem[p][pd_idx(v)].present
    BY <2>3, MappedIs DEF vmm_get_phys_addr
  <2>4. CASE mem[p][pd_idx(v)].present
    <3> DEFINE e == mem[mem[p][pd_idx(v)].page][pt_idx(v)]
    <3>1. vmm_get_phys_addr(p, v) = e.page
      BY <2>4 DEF vmm_get_phys_addr
    <3>2. Mapped(p, v) = IF e.present THEN {[page |-> e.page, flags |-> e.flags]} ELSE {}
      BY <2>4, MappedIs
    <3>3. ~ e.present => e.page = 0
      BY <2>1, <2>2, <2>4 DEF IInv, TablesAreClean
    <3>4. e.present => (CHOOSE m \in Mapped(p, v) : TRUE) = [page |-> e.page, flags |-> e.flags]
      <4>1. \A x : (CHOOSE m \in {x} : TRUE) = x
        OBVIOUS
      <4>2. e.present => Mapped(p, v) = {[page |-> e.page, flags |-> e.flags]}
        BY <3>2
      <4> HIDE DEF e
      <4>3. QED
        BY <4>1, <4>2
    <3> HIDE DEF e
    <3>5. QED
      BY <3>1, <3>2, <3>3, <3>4
  <2>5. QED
    BY <2>3, <2>4
<1>2. QED
  BY <1>1, Inductive, PTL

-----------------------------------------------------------------------------
(* The spaces of AddressSpaces. *)
LEMMA TablesAre ==
  \A t : t \in Tables <=> \E p \in Directories, k \in Index : mem[p][k].present /\ t = mem[p][k].page
<1>1. ASSUME NEW t
      PROVE  t \in Tables <=> \E p \in Directories, k \in Index : t \in TableOf(p, k)
  BY DEF Tables
<1>2. QED
  BY <1>1 DEF TableOf

LEMMA InUseIsTables == IInv => Spaces!InUse(Regions) = Tables
<1> SUFFICES ASSUME IInv PROVE Spaces!InUse(Regions) = Tables
  OBVIOUS
<1>1. ASSUME NEW t
      PROVE  t \in Spaces!InUse(Regions) <=>
               t # NULL /\ \E p \in Directories, k \in Index : t = Regions[p][k]
  BY DEF Spaces!InUse, Regions
<1>2. \A p \in Directories, k \in Index :
        Regions[p][k] = IF mem[p][k].present THEN mem[p][k].page ELSE NULL
  BY DEF Regions
<1>3. \A p \in Directories, k \in Index : mem[p][k].present => mem[p][k].page # NULL
  BY DEF IInv, Apart, Frame, NULL
<1>4. \A t : t \in Spaces!InUse(Regions) <=> t \in Tables
  BY <1>1, <1>2, <1>3, TablesAre
<1>5. QED
  BY <1>4

LEMMA SpacesInit == Init => Spaces!Init
<1> SUFFICES ASSUME Init PROVE Spaces!Init
  OBVIOUS
<1>1. Directories = {}
  BY DEF Init, Directories
<1>2. Regions = <<>>
  BY <1>1 DEF Regions
<1>3. Tables = {}
  BY <1>1, TablesAre
<1>4. Pages = <<>>
  BY <1>3 DEF Pages
<1>5. QED
  BY <1>2, <1>4 DEF Spaces!Init, Init

(* Steps that change no table the spaces use. *)
LEMMA SpacesKeep ==
  ASSUME Directories' = Directories, UNCHANGED mem
  PROVE  Regions' = Regions /\ Tables' = Tables /\ Pages' = Pages
<1>1. Regions' = Regions
  BY DEF Regions
<1>2. Tables' = Tables
  BY DEF Tables, TableOf
<1>3. QED
  BY <1>1, <1>2 DEF Pages

LEMMA WriteMaps ==
  ASSUME IInv, NEW p \in Directories, NEW k \in Index, NEW j \in Index,
         NEW e \in Entry, WriteEntry(p, k, j, e), UNCHANGED <<kernel_pd, spaces>>,
         pc # "panic", pc' # "panic",
         Shown(e) \in [page : Frame \cup Phys, flags : Flags] \cup {Unmapped}
  PROVE  Spaces!Map(p, k, j)
<1> DEFINE t == mem[p][k].page
<1>1. ChangesOnly(t, j, e) /\ Directories' = Directories
  BY WriteFacts, WriteKeepsApart DEF IInv
<1>2. \A q \in Directories : mem'[q] = mem[q]
  BY <1>1 DEF ChangesOnly
<1>3. Regions' = Regions
  BY <1>1, <1>2 DEF Regions
<1>4. Tables' = Tables
  BY <1>1, <1>2 DEF Tables, TableOf
<1>5. t \in Tables /\ Regions[p][k] = t /\ t # NULL
  <2>1. mem[p][k].present /\ t \in Frame
    BY DEF WriteEntry, IInv, Apart
  <2>2. QED
    BY <2>1, TablesAre DEF Regions, Frame, NULL
<1> HIDE DEF t
<1>6. \A q \in Tables : q \in Frame
  BY TablesAre DEF IInv, Apart
<1>7. \A q \in Tables : Pages[q] = [l \in Index |-> Shown(mem[q][l])]
  BY DEF Pages
<1>8. \A q \in Tables : Pages'[q] = [l \in Index |-> Shown(mem'[q][l])]
  BY <1>4 DEF Pages
<1>9. \A q \in Tables \ {t} : Pages'[q] = Pages[q]
  <2>1. \A q \in Tables \ {t} : mem'[q] = mem[q]
    BY <1>1, <1>6 DEF ChangesOnly
  <2>2. QED
    BY <1>7, <1>8, <2>1
<1>10. Pages'[t] = [Pages[t] EXCEPT ![j] = Shown(e)] /\ Pages'[t][j] = Shown(e)
  <2>1. \A l \in Index : mem'[t][l] = IF l = j THEN e ELSE mem[t][l]
    BY <1>1 DEF ChangesOnly
  <2>2. \A l \in Index : Pages'[t][l] = IF l = j THEN Shown(e) ELSE Pages[t][l]
    <3>1. SUFFICES ASSUME NEW l \in Index
                   PROVE  Pages'[t][l] = IF l = j THEN Shown(e) ELSE Pages[t][l]
      OBVIOUS
    <3>2. Pages[t][l] = Shown(mem[t][l])
      BY <1>5, <1>7
    <3>3. Pages'[t][l] = Shown(mem'[t][l])
      BY <1>5, <1>8
    <3>4. CASE l = j
      BY <2>1, <3>3, <3>4
    <3>5. CASE l # j
      BY <2>1, <3>2, <3>3, <3>5
    <3>6. QED
      BY <3>4, <3>5
  <2>3. DOMAIN Pages'[t] = Index /\ DOMAIN Pages[t] = Index
    BY <1>5, <1>7, <1>8
  <2>4. Pages'[t] = [l \in Index |-> Pages'[t][l]]
    BY <1>5, <1>8
  <2>5. QED
    BY <1>5, <1>7, <2>2, <2>3, <2>4
<1>11. Pages' = [Pages EXCEPT ![t] = [Pages[t] EXCEPT ![j] = Pages'[t][j]]]
  BY <1>4, <1>5, <1>9, <1>10 DEF Pages
<1>12. QED
  BY <1>3, <1>5, <1>10, <1>11 DEF Spaces!Map

LEMMA AddIsNewRegion ==
  ASSUME IInv, IInv', NEW p \in Directories, NEW k \in Index, NEW f \in Frame,
         NEW flags \in Flags \cup {"none"}, NEW content \in Content,
         AddTable(p, k, f, flags, content), UNCHANGED <<kernel_pd, spaces>>,
         pc # "panic", pc' # "panic"
  PROVE  /\ Spaces!NewRegion(p, k, f)
         /\ Regions'[p][k] = f
         /\ Pages'[f] = [l \in Index |-> Shown(content[l])]
<1>1. Directories' = Directories
  BY AddKeepsApart DEF IInv
<1>2. /\ f \notin Directories /\ mem'[f] = content
      /\ \A g \in Frame : g # f /\ g # p => mem'[g] = mem[g]
  BY AddFacts DEF IInv
<1>3. ASSUME NEW q \in Directories, NEW l \in Index
      PROVE  \/ /\ q = p /\ l = k
                /\ mem'[q][l].present /\ mem'[q][l].page = f
             \/ /\ q # p \/ l # k
                /\ mem'[q][l] = mem[q][l]
  BY AddIsSeen DEF IInv
<1>4. ASSUME NEW q \in Directories, NEW l \in Index
      PROVE  Regions'[q][l] = IF q = p /\ l = k THEN f ELSE Regions[q][l]
  <2>1. Regions'[q][l] = IF mem'[q][l].present THEN mem'[q][l].page ELSE NULL
    BY <1>1 DEF Regions
  <2>2. Regions[q][l] = IF mem[q][l].present THEN mem[q][l].page ELSE NULL
    BY DEF Regions
  <2>3. QED
    BY <1>3, <2>1, <2>2
<1>5. Regions' = [Regions EXCEPT ![p][k] = f]
  <2>1. /\ Regions = [q \in Directories |-> [l \in Index |-> Regions[q][l]]]
        /\ Regions' = [q \in Directories |-> [l \in Index |-> Regions'[q][l]]]
    BY <1>1 DEF Regions
  <2> DEFINE new == [Regions EXCEPT ![p] = [Regions[p] EXCEPT ![k] = f]]
  <2>2. DOMAIN new = Directories
    BY <2>1
  <2>3. ASSUME NEW q \in Directories
        PROVE  Regions'[q] = new[q]
    <3>1. Regions'[q] = [l \in Index |-> Regions'[q][l]] /\ Regions[q] = [l \in Index |-> Regions[q][l]]
      BY <2>1
    <3>2. CASE q # p
      <4>1. new[q] = Regions[q]
        BY <2>1, <3>2
      <4>2. \A l \in Index : Regions'[q][l] = Regions[q][l]
        BY <1>4, <3>2
      <4>3. QED
        BY <3>1, <4>1, <4>2
    <3>3. CASE q = p
      <4>1. new[q] = [Regions[q] EXCEPT ![k] = f]
        BY <2>1, <3>3
      <4>2. \A l \in Index : Regions'[q][l] = IF l = k THEN f ELSE Regions[q][l]
        BY <1>4, <3>3
      <4>3. QED
        BY <3>1, <4>1, <4>2
    <3>4. QED
      BY <3>2, <3>3
  <2>4. Regions' = new
    <3>1. new = [q \in Directories |-> new[q]] /\ Regions' = [q \in Directories |-> Regions'[q]]
      BY <2>1, <2>2
    <3> HIDE DEF new
    <3>2. QED
      BY <2>3, <3>1
  <2>5. QED
    BY <2>4
<1>6. f \notin Tables /\ f \in Tables'
  <2>1. f \notin Tables
    BY TablesAre DEF IInv, Apart, AddTable
  <2>2. f \in TableOf(p, k)'
    BY <1>3 DEF TableOf
  <2>3. TableOf(p, k)' \subseteq Tables'
    BY <1>1 DEF Tables
  <2>4. QED
    BY <2>1, <2>2, <2>3
<1>7. ASSUME NEW t \in Tables' \ {f}
      PROVE  t \in Tables /\ mem'[t] = mem[t]
  <2>1. PICK q \in Directories, l \in Index : mem'[q][l].present /\ t = mem'[q][l].page
    <3>1. t \in Tables' => \E q \in Directories, l \in Index : t \in TableOf(q, l)'
      BY <1>1 DEF Tables
    <3>2. QED
      BY <3>1 DEF TableOf
  <2>2. mem[q][l].present /\ t = mem[q][l].page
    BY <1>3, <2>1
  <2>3. t \in Frame /\ t \notin Directories
    BY <2>2 DEF IInv, Apart
  <2>4. QED
    BY <1>2, <2>2, <2>3, TablesAre
<1>8. \A t \in Tables' : Pages'[t] = [l \in Index |-> Shown(mem'[t][l])]
  BY DEF Pages
<1>9. \A t \in Tables' \ {f} : t \in Tables /\ Pages'[t] = Pages[t]
  BY <1>7, <1>8 DEF Pages
<1>10. Pages'[f] = [l \in Index |-> Shown(content[l])]
  BY <1>2, <1>6, <1>8
<1>11. Spaces!InUse(Regions) = Tables /\ Spaces!InUse(Regions') = Tables'
  <2>1. Spaces!InUse(Regions) = Tables
    BY InUseIsTables
  <2>2. IInv' => (Spaces!InUse(Regions) = Tables)'
    BY InUseIsTables, PTL
  <2>3. QED
    BY <2>1, <2>2 DEF Spaces!InUse
<1>12. DOMAIN Pages = Tables /\ DOMAIN Pages' = Tables'
  BY DEF Pages
<1>13. Spaces!KeepsAllBut(f)
  BY <1>9, <1>11, <1>12 DEF Spaces!KeepsAllBut
<1>14. Spaces!NewRegion(p, k, f)
  BY <1>5, <1>6, <1>11, <1>13 DEF Spaces!NewRegion
<1>15. QED
  BY <1>4, <1>10, <1>14

LEMMA MapRefines ==
  ASSUME IInv, IInv', NEW p \in Directories, NEW virt,
         NEW phys \in Frame \cup Phys, NEW flags \in Flags,
         pd_idx(virt) \in Index, pt_idx(virt) \in Index,
         vmm_map_page(p, virt, phys, flags), UNCHANGED <<kernel_pd, spaces>>,
         pc # "panic", pc' # "panic"
  PROVE  \E k, j \in Index : Spaces!Map(p, k, j) \/ Spaces!MapInNewRegion(p, k, j)
<1> DEFINE k == pd_idx(virt)
           j == pt_idx(virt)
           e == To(phys, flags)
           content == [ClearPage EXCEPT ![j] = e]
<1>1. phys \in Nat /\ k \in Index /\ j \in Index
  BY VmmAssumption DEF Frame
<1>2. /\ e \in Entry
      /\ Shown(e) \in [page : Frame \cup Phys, flags : Flags]
  BY <1>1, ToIsEntry DEF Shown
<1>3. CASE WriteEntry(p, k, j, e)
  <2>1. Spaces!Map(p, k, j)
    BY <1>1, <1>2, <1>3, WriteMaps
  <2>2. QED
    BY <1>1, <2>1
<1>4. CASE ~ mem[p][k].present /\ \E f \in Frame : AddTable(p, k, f, "rw", content)
  <2>1. PICK f \in Frame : AddTable(p, k, f, "rw", content)
    BY <1>4
  <2>2. content \in Content /\ "rw" \in Flags \cup {"none"}
    BY <1>1, <1>2, VmmAssumption, ZeroIsEntry DEF Content
  <2>3. \A l \in Index : Shown(content[l]) = IF l = j THEN Shown(e) ELSE Unmapped
    <3>1. \A l \in Index : content[l] = IF l = j THEN e ELSE Zero
      BY <1>1 DEF ClearPage
    <3>2. Shown(Zero) = Unmapped
      BY DEF Shown, Zero
    <3> HIDE DEF content, e
    <3>3. QED
      BY <3>1, <3>2
  <2> HIDE DEF content, e
  <2>4. /\ Spaces!NewRegion(p, k, f)
        /\ Regions'[p][k] = f
        /\ Pages'[f] = [l \in Index |-> Shown(content[l])]
    BY <1>1, <2>1, <2>2, AddIsNewRegion
  <2>5. Pages'[f] = [l \in Index |-> IF l = j THEN Shown(e) ELSE Unmapped]
    BY <2>3, <2>4
  <2>6. Pages'[f][j] = Shown(e) /\ Pages'[f] = [Spaces!Blank EXCEPT ![j] = Pages'[f][j]]
    BY <1>1, <2>5 DEF Spaces!Blank
  <2>7. Regions[p][k] = NULL
    BY <1>1, <1>4 DEF Regions
  <2>8. Spaces!MapInNewRegion(p, k, j)
    BY <1>2, <2>4, <2>6, <2>7 DEF Spaces!MapInNewRegion
  <2>9. QED
    BY <1>1, <2>8
<1>5. QED
  BY <1>1, <1>3, <1>4, MapIs DEF IInv

LEMMA BootRefines ==
  ASSUME IInv, init_paging
  PROVE  \E s \in Frame : Spaces!Boot(s)
<1>1. PICK f \in Frame : kernel_pd' = f /\ mem' = [mem EXCEPT ![f] = ClearPage]
  BY DEF init_paging
<1>2. /\ kernel_pd = NULL /\ spaces' = {} /\ f # NULL /\ pc = "boot" /\ pc' = "identity"
  BY DEF init_paging, IInv, BootOrder, Frame, NULL
<1>3. Directories = {} /\ Directories' = {f}
  BY <1>1, <1>2 DEF Directories
<1>4. \A k \in Index : ~ mem'[f][k].present
  BY <1>1 DEF IInv, TypeOK, ClearPage, Zero
<1>5. Tables = {} /\ Tables' = {}
  BY <1>3, <1>4 DEF Tables, TableOf
<1>6. Pages' = Pages
  BY <1>5 DEF Pages
<1>7. Regions = <<>> /\ Regions' = [t \in {f} |-> [k \in Index |-> NULL]]
  <2>1. Regions = <<>>
    BY <1>3 DEF Regions
  <2>2. Regions' = [t \in {f} |-> [k \in Index |-> NULL]]
    BY <1>3, <1>4 DEF Regions
  <2>3. QED
    BY <2>1, <2>2
<1>8. Spaces!Boot(f)
  BY <1>1, <1>2, <1>6, <1>7 DEF Spaces!Boot
<1>9. QED
  BY <1>8

LEMMA CreateRefines ==
  ASSUME IInv, vmm_create_address_space
  PROVE  \E s \in Frame : Spaces!Create(s)
<1>1. PICK f \in Frame : /\ f \in free
                         /\ mem' = [mem EXCEPT ![f] = mem[kernel_pd]]
                         /\ spaces' = spaces \cup {f}
  BY DEF vmm_create_address_space, pmm_alloc
<1>2. UNCHANGED <<kernel_pd, pc>> /\ pc = "ready"
  BY DEF vmm_create_address_space
<1>3. /\ kernel_pd \in spaces /\ kernel_pd \in Frame
      /\ Directories = spaces /\ Directories' = spaces \cup {f}
  <2>1. kernel_pd \in spaces /\ kernel_pd \in Frame /\ kernel_pd # NULL
    BY <1>2 DEF IInv, BootOrder, TypeOK, Frame, NULL
  <2>2. QED
    BY <1>1, <1>2, <2>1 DEF Directories
<1>4. f \notin spaces /\ f \notin Tables /\ \A t \in Tables : t \in Frame
  BY <1>1, <1>3, TablesAre DEF IInv, Apart
<1>5. /\ mem'[f] = mem[kernel_pd]
      /\ \A g \in Frame \ {f} : mem'[g] = mem[g]
  BY <1>1, <1>3 DEF IInv, TypeOK
<1>6. spaces \subseteq Frame
  BY DEF IInv, TypeOK
<1>7. Regions' = [t \in Directories \cup {f} |-> IF t = f THEN Regions[kernel_pd] ELSE Regions[t]]
  <2>1. ASSUME NEW t \in spaces \cup {f}
        PROVE  [k \in Index |-> IF mem'[t][k].present THEN mem'[t][k].page ELSE NULL] =
                 IF t = f THEN Regions[kernel_pd] ELSE Regions[t]
    <3>1. CASE t = f
      BY <1>3, <1>5, <3>1 DEF Regions
    <3>2. CASE t # f
      BY <1>3, <1>5, <1>6, <3>2 DEF Regions
    <3>3. QED
      BY <3>1, <3>2
  <2>2. QED
    BY <1>3, <2>1 DEF Regions
<1>8. Tables' = Tables
  <2>1. \A t : t \in Tables' <=>
          \E p \in Directories', k \in Index : mem'[p][k].present /\ t = mem'[p][k].page
    <3>1. (\A t : t \in Tables <=>
             \E p \in Directories, k \in Index : mem[p][k].present /\ t = mem[p][k].page)'
      BY TablesAre, PTL
    <3>2. QED
      BY <3>1
  <2>2. \A p \in Directories' : \E q \in Directories : mem'[p] = mem[q]
    BY <1>3, <1>5, <1>6
  <2>3. \A q \in Directories : q \in Directories' /\ mem'[q] = mem[q]
    BY <1>3, <1>4, <1>5, <1>6
  <2>4. \A t : t \in Tables' <=> t \in Tables
    BY <2>1, <2>2, <2>3, TablesAre
  <2>5. QED
    BY <2>4
<1>9. Pages' = Pages
  <2>1. \A t \in Tables : mem'[t] = mem[t]
    BY <1>4, <1>5
  <2>2. QED
    BY <1>8, <2>1 DEF Pages
<1>10. Regions # <<>> /\ DOMAIN Regions = Directories
  <2>1. DOMAIN Regions = Directories
    BY DEF Regions
  <2>2. QED
    BY <1>3, <2>1
<1>11. Spaces!Create(f)
  BY <1>2, <1>3, <1>4, <1>7, <1>9, <1>10 DEF Spaces!Create
<1>12. QED
  BY <1>11

LEMMA CloneRefines ==
  ASSUME IInv, IInv', clone_entry
  PROVE  \/ \E s, d \in Directories, k \in Index : Spaces!Clone(s, d, k)
         \/ UNCHANGED Spaces!vars
<1>1. /\ UNCHANGED <<kernel_pd, pc, src, dst, spaces>> /\ pc = "clone" /\ i \in Index
      /\ src \in Directories /\ dst \in Directories
  BY Sizes DEF clone_entry, IInv, TypeOK, Index, BootOrder, Directories
<1>2. CASE UNCHANGED <<mem, free>>
  <2>1. Directories' = Directories
    BY <1>1 DEF Directories
  <2>2. QED
    BY <1>1, <1>2, <2>1, SpacesKeep DEF Spaces!vars
<1>3. CASE /\ mem[src][i].present
           /\ \E f \in Frame : pmm_alloc(f) /\ free' = free \ {f} /\ clone_table(f)
  <2>1. PICK f \in Frame : f \in free /\ free' = free \ {f} /\ clone_table(f)
    BY <1>3 DEF pmm_alloc
  <2>2. PICK q \in Directories, p \in Directories, k \in Index : q = src /\ p = dst /\ k = i
    BY <1>1
  <2>3. PICK t \in Frame, flags \in Flags \cup {"none"}, content \in Content :
          /\ t = mem[q][k].page /\ content = Copy(t) /\ mem[q][k].present
          /\ AddTable(p, k, f, flags, content)
    BY <1>1, <1>3, <2>1, <2>2, CloneAdds DEF IInv
  <2>4. /\ Spaces!NewRegion(p, k, f)
        /\ Regions'[p][k] = f
        /\ Pages'[f] = [l \in Index |-> Shown(content[l])]
    BY <1>1, <2>3, AddIsNewRegion
  <2>5. Regions[q][k] = t /\ t # NULL /\ t \in Tables
    BY <2>3, TablesAre DEF Regions, Frame, NULL
  <2>6. \A l \in Index : Shown(content[l]) = Shown(mem[t][l])
    BY <2>3 DEF Copy, Shown, Zero
  <2>7. Pages'[f] = Pages[t]
    BY <2>4, <2>5, <2>6 DEF Pages
  <2>8. Spaces!Clone(q, p, k)
    BY <2>4, <2>5, <2>7 DEF Spaces!Clone
  <2>9. QED
    BY <2>8
<1>4. QED
  BY <1>2, <1>3 DEF clone_entry

LEMMA StepRefines ==
  ASSUME IInv, IInv', [Next]_vars
  PROVE  [Spaces!Next]_Spaces!vars
<1> USE DEF Spaces!vars
<1>1. DOMAIN Regions = Directories /\ Directories \subseteq Frame
  BY DirectoriesAreFrames DEF Regions, IInv
<1>2. ASSUME Directories' = Directories, UNCHANGED <<mem, kernel_pd>>,
             (pc = "panic") <=> (pc' = "panic")
      PROVE  UNCHANGED Spaces!vars
  BY <1>2, SpacesKeep
<1>3. CASE init_paging
  <2>1. pc # "panic"
    BY <1>3 DEF init_paging
  <2>2. QED
    BY <1>3, <2>1, BootRefines DEF Spaces!Next
<1>4. CASE identity_page
  <2>1. /\ kernel_pd \in Directories /\ UNCHANGED <<kernel_pd, spaces>> /\ addr \in Frame
        /\ pc # "panic" /\ pc' # "panic" /\ vmm_map_page(kernel_pd, addr, addr, "rw")
    BY <1>4, Sizes DEF identity_page, IInv, BootOrder, TypeOK, Directories, Frame
  <2>2. PICK p \in Directories, n \in Frame : p = kernel_pd /\ n = addr
    BY <2>1
  <2>3. pd_idx(n) \in Index /\ pt_idx(n) \in Index /\ "rw" \in Flags
    BY FrameIndices, VmmAssumption
  <2>4. vmm_map_page(p, n, n, "rw")
    BY <2>1, <2>2
  <2>5. \E k, j \in Index : Spaces!Map(p, k, j) \/ Spaces!MapInNewRegion(p, k, j)
    BY <2>1, <2>3, <2>4, MapRefines
  <2>6. QED
    BY <1>1, <2>1, <2>5 DEF Spaces!Next
<1>5. CASE enable_paging
  <2>1. Directories' = Directories /\ UNCHANGED <<mem, kernel_pd>>
        /\ pc # "panic" /\ pc' # "panic"
    BY <1>5 DEF enable_paging, IInv, BootOrder, Directories
  <2>2. QED
    BY <1>2, <2>1
<1>6. CASE vmm_create_address_space
  <2>1. pc # "panic"
    BY <1>6 DEF vmm_create_address_space
  <2>2. QED
    BY <1>6, <2>1, CreateRefines DEF Spaces!Next
<1>7. CASE \E pd \in spaces : vmm_switch_to(pd)
  BY <1>2, <1>7 DEF vmm_switch_to, Directories
<1>8. CASE \E pd \in spaces, virt \in Virt, phys \in Phys, flags \in Flags :
             map_page(pd, virt, phys, flags)
  <2>1. PICK pd \in spaces, virt \in Virt, phys \in Phys, flags \in Flags :
          map_page(pd, virt, phys, flags)
    BY <1>8
  <2>2. /\ pd \in Directories /\ UNCHANGED <<kernel_pd, spaces>>
        /\ pc # "panic" /\ pc' # "panic" /\ vmm_map_page(pd, virt, phys, flags)
    BY <2>1 DEF map_page, IInv, BootOrder, Directories
  <2>3. pd_idx(virt) \in Index /\ pt_idx(virt) \in Index
    <3>1. 0 \in Frame
      BY Sizes DEF Frame
    <3>2. QED
      BY <3>1, CallersKeepClear
  <2>4. \E k, j \in Index : Spaces!Map(pd, k, j) \/ Spaces!MapInNewRegion(pd, k, j)
    BY <2>2, <2>3, MapRefines
  <2>5. QED
    BY <1>1, <2>2, <2>4 DEF Spaces!Next
<1>9. CASE \E pd \in spaces, virt \in Virt : vmm_unmap_page(pd, virt)
  <2>1. PICK pd \in spaces, virt \in Virt : vmm_unmap_page(pd, virt)
    BY <1>9
  <2>2. /\ pd \in Directories /\ UNCHANGED <<kernel_pd, spaces>>
        /\ pc # "panic" /\ pc' # "panic"
        /\ WriteEntry(pd, pd_idx(virt), pt_idx(virt), Zero)
    BY <2>1 DEF vmm_unmap_page, IInv, BootOrder, Directories, WriteEntry, SetEntry
  <2>3. pd_idx(virt) \in Index /\ pt_idx(virt) \in Index
    <3>1. 0 \in Frame
      BY Sizes DEF Frame
    <3>2. QED
      BY <3>1, CallersKeepClear
  <2>4. Zero \in Entry /\ Shown(Zero) = Unmapped
    BY ZeroIsEntry DEF Zero, Shown
  <2>5. Spaces!Map(pd, pd_idx(virt), pt_idx(virt))
    BY <2>2, <2>3, <2>4, WriteMaps
  <2>6. QED
    BY <1>1, <2>2, <2>3, <2>5 DEF Spaces!Next
<1>10. CASE \E from, to \in spaces : vmm_clone_address_space(from, to)
  BY <1>2, <1>10 DEF vmm_clone_address_space, Directories
<1>11. CASE clone_entry
  <2>1. pc # "panic"
    BY <1>11 DEF clone_entry
  <2>2. QED
    BY <1>1, <1>11, <2>1, CloneRefines DEF Spaces!Next
<1>12. CASE clone_end
  BY <1>2, <1>12 DEF clone_end, Directories
<1>13. CASE out_of_memory
  <2>1. /\ UNCHANGED <<mem, kernel_pd, spaces>> /\ pc' = "panic" /\ pc # "panic"
        /\ Directories' = Directories
    BY <1>13 DEF out_of_memory, panic, Directories
  <2>2. QED
    BY <2>1, SpacesKeep DEF Spaces!Next, Spaces!Fail
<1>14. CASE UNCHANGED vars
  BY <1>2, <1>14 DEF vars, locals, Directories
<1>15. QED
  BY <1>3, <1>4, <1>5, <1>6, <1>7, <1>8, <1>9, <1>10, <1>11, <1>12, <1>13, <1>14 DEF Next, halted

(* vmm.c as a whole: what the operations do to directories and tables is   *)
(* what AddressSpaces says happens to spaces, and nothing else happens to  *)
(* any of them.                                                            *)
THEOREM Refinement == Spec => ImplementsSpaces
<1>1. Init => Spaces!Init
  BY SpacesInit
<1>2. IInv /\ IInv' /\ [Next]_vars => [Spaces!Next]_Spaces!vars
  BY StepRefines
<1>3. QED
  BY <1>1, <1>2, Inductive, PTL DEF Spec, ImplementsSpaces, Spaces!Spec
=============================================================================
