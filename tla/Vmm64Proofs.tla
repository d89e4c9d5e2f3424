----------------------------- MODULE Vmm64Proofs -----------------------------
(***************************************************************************)
(* Theorems about Vmm64 for every number of entries in a table, whichever  *)
(* frames are usable, and whatever callers map above the identity mapping. *)
(***************************************************************************)
EXTENDS Vmm64, TLAPS, WellFoundedInduction

LEMMA Sizes ==
  /\ ENTRIES \in Nat \ {0, 1} /\ IDENTITY = ENTRIES * ENTRIES /\ IDENTITY \in Nat \ {0}
  /\ 0 \in Index /\ 0 \in Frame /\ 1 \in Frame /\ 2 \in Frame
<1>1. ENTRIES \in Nat \ {0, 1}
  BY Vmm64Assumption
<1>2. PICK d \in Nat : ENTRIES = d + 2
  <2>1. ENTRIES - 2 \in Nat /\ ENTRIES = (ENTRIES - 2) + 2
    BY <1>1
  <2>2. QED
    BY <2>1
<1>3. IDENTITY = d * d + 4 * d + 4 /\ d * d \in Nat
  BY <1>2 DEF IDENTITY
<1>4. IDENTITY \in Nat /\ IDENTITY >= 4
  BY <1>3
<1>5. QED
  BY <1>1, <1>4 DEF IDENTITY, Index, Frame

-----------------------------------------------------------------------------
(* Division. *)
LEMMA Divides ==
  ASSUME NEW d \in Nat \ {0}, NEW a \in Nat
  PROVE  /\ a \div d \in Nat /\ a % d \in 0 .. d - 1 /\ a % d \in Nat
         /\ a = d * (a \div d) + (a % d)
<1>1. a \div d \in Nat /\ a % d \in 0 .. d - 1
  OBVIOUS
<1>2. a = d * (a \div d) + (a % d)
  OBVIOUS
<1>3. QED
  BY <1>1, <1>2

LEMMA Multiples ==
  ASSUME NEW d \in Nat \ {0}, NEW x \in Nat, NEW y \in Nat, x < y
  PROVE  d * x + d <= d * y
<1>1. PICK z \in Nat : y = x + 1 + z
  <2>1. y - x - 1 \in Nat /\ y = x + 1 + (y - x - 1)
    OBVIOUS
  <2>2. QED
    BY <2>1
<1>2. d * y = d * x + d + d * z /\ d * z \in Nat /\ d * x \in Nat
  BY <1>1
<1>3. QED
  BY <1>2

LEMMA Smaller ==
  ASSUME NEW d \in Nat \ {0}, NEW x \in Nat, NEW r \in Nat, NEW y \in Nat, d * x + r < d * y
  PROVE  x < y
<1>1. SUFFICES ASSUME x >= y PROVE FALSE
  OBVIOUS
<1>2. d * x >= d * y
  <2>1. y < x => d * y + d <= d * x
    BY Multiples
  <2>2. x = y => d * x = d * y
    OBVIOUS
  <2>3. d * x \in Nat /\ d * y \in Nat
    OBVIOUS
  <2>4. QED
    BY <1>1, <2>1, <2>2, <2>3
<1>3. d * x \in Nat /\ d * y \in Nat
  OBVIOUS
<1>4. QED
  BY <1>2, <1>3

LEMMA DivisionIsUnique ==
  ASSUME NEW d \in Nat \ {0}, NEW x \in Nat, NEW r \in Nat, r < d,
         NEW y \in Nat, NEW s \in Nat, s < d, d * x + r = d * y + s
  PROVE  x = y
<1>1. d * x \in Nat /\ d * y \in Nat
  OBVIOUS
<1>2. ~ x < y
  <2>1. SUFFICES ASSUME x < y PROVE FALSE
    OBVIOUS
  <2>2. d * x + d <= d * y
    BY <2>1, Multiples
  <2>3. QED
    BY <1>1, <2>2
<1>3. ~ y < x
  <2>1. SUFFICES ASSUME y < x PROVE FALSE
    OBVIOUS
  <2>2. d * y + d <= d * x
    BY <2>1, Multiples
  <2>3. QED
    BY <1>1, <2>2
<1>4. QED
  BY <1>2, <1>3

LEMMA DivDiv ==
  ASSUME NEW a \in Nat, NEW m \in Nat \ {0}, NEW n \in Nat \ {0}
  PROVE  (a \div m) \div n = a \div (m * n)
<1>1. PICK x \in Nat, r \in Nat : x = a \div m /\ r < m /\ a = m * x + r
  BY Divides
<1>2. PICK y \in Nat, s \in Nat : y = x \div n /\ s < n /\ x = n * y + s
  BY Divides
<1>3. PICK d \in Nat \ {0} : d = m * n
  OBVIOUS
<1>4. PICK z \in Nat, t \in Nat : z = a \div d /\ t < d /\ a = d * z + t
  BY Divides
<1>5. PICK u \in Nat : u = m * s + r /\ u < d
  <2>1. m * s + m <= d
    BY <1>2, <1>3, Multiples
  <2>2. m * s \in Nat
    OBVIOUS
  <2>3. QED
    BY <1>1, <2>1, <2>2
<1>6. a = d * y + u
  <2>1. m * x = m * (n * y) + m * s
    <3>1. PICK w \in Nat : w = n * y
      OBVIOUS
    <3>2. m * (w + s) = m * w + m * s
      OBVIOUS
    <3>3. QED
      BY <1>2, <3>1, <3>2
  <2>2. m * (n * y) = d * y
    BY <1>3
  <2>3. m * s \in Nat /\ d * y \in Nat
    OBVIOUS
  <2>4. QED
    BY <1>1, <1>5, <2>1, <2>2, <2>3
<1>7. y = z
  BY <1>4, <1>5, <1>6, DivisionIsUnique
<1>8. QED
  BY <1>1, <1>2, <1>3, <1>4, <1>7

(* A page number, from its indices. *)
LEMMA Indices ==
  ASSUME NEW a \in Nat
  PROVE  \E x, y \in Nat :
           /\ a = ENTRIES * x + pt_index(a) /\ pt_index(a) \in Index
           /\ x = ENTRIES * y + pd_index(a) /\ pd_index(a) \in Index
           /\ y = ENTRIES * pml4_index(a) + pdpt_index(a) /\ pdpt_index(a) \in Index
           /\ pml4_index(a) \in Nat
           /\ y = a \div IDENTITY
<1>1. ENTRIES \in Nat \ {0} /\ IDENTITY \in Nat \ {0} /\ IDENTITY = ENTRIES * ENTRIES
  BY Sizes
<1>2. a \div IDENTITY = (a \div ENTRIES) \div ENTRIES
  BY <1>1, DivDiv
<1>3. a \div (IDENTITY * ENTRIES) = (a \div IDENTITY) \div ENTRIES
  BY <1>1, DivDiv
<1>4. PICK x \in Nat : x = a \div ENTRIES /\ a = ENTRIES * x + (a % ENTRIES) /\ a % ENTRIES \in Index
  BY <1>1, Divides DEF Index
<1>5. PICK y \in Nat : y = x \div ENTRIES /\ x = ENTRIES * y + (x % ENTRIES) /\ x % ENTRIES \in Index
  BY <1>1, Divides DEF Index
<1>6. PICK z \in Nat : z = y \div ENTRIES /\ y = ENTRIES * z + (y % ENTRIES) /\ y % ENTRIES \in Index
  BY <1>1, Divides DEF Index
<1>7. /\ pt_index(a) = a % ENTRIES /\ pd_index(a) = x % ENTRIES
      /\ y = a \div IDENTITY /\ pdpt_index(a) = y % ENTRIES /\ pml4_index(a) = z
  BY <1>2, <1>3, <1>4, <1>5, <1>6 DEF pt_index, pd_index, pdpt_index, pml4_index
<1>8. QED
  BY <1>4, <1>5, <1>6, <1>7

LEMMA IndicesTell ==
  ASSUME NEW a \in Nat, NEW b \in Nat,
         pml4_index(a) = pml4_index(b), pdpt_index(a) = pdpt_index(b),
         pd_index(a) = pd_index(b), pt_index(a) = pt_index(b)
  PROVE  a = b
BY Indices

(* What callers may map, and where the identity mapping is. *)
LEMMA CallersKeepClear ==
  ASSUME NEW v \in Virt
  PROVE  /\ v \in Nat
         /\ pml4_index(v) \in Index /\ pdpt_index(v) \in Index
         /\ pd_index(v) \in Index /\ pt_index(v) \in Index
         /\ ~ (pml4_index(v) = 0 /\ pdpt_index(v) = 0)
<1>1. /\ ENTRIES \in Nat \ {0} /\ IDENTITY \in Nat \ {0} /\ IDENTITY = ENTRIES * ENTRIES
      /\ IDENTITY * IDENTITY \in Nat
  BY Sizes
<1>2. v \in Nat /\ IDENTITY <= v /\ v < IDENTITY * IDENTITY
  BY <1>1, Vmm64Assumption
<1>3. PICK y \in Nat : /\ y = ENTRIES * pml4_index(v) + pdpt_index(v)
                       /\ pdpt_index(v) \in Index /\ pml4_index(v) \in Nat
                       /\ pd_index(v) \in Index /\ pt_index(v) \in Index
                       /\ y = v \div IDENTITY
  BY <1>2, Indices
<1>4. PICK r \in Nat : v = IDENTITY * y + r /\ r < IDENTITY
  <2>1. PICK d \in Nat \ {0} : d = IDENTITY
    BY <1>1
  <2>2. PICK r \in Nat : r < d /\ v = d * (v \div d) + r
    <3>1. v \in Nat
      BY <1>2
    <3>2. v % d \in 0 .. d - 1 /\ v = d * (v \div d) + (v % d)
      BY ONLY <3>1, d \in Nat \ {0}, Divides
    <3>3. QED
      BY <3>2
  <2>3. QED
    BY <1>3, <2>1, <2>2
<1>5. y < IDENTITY
  BY <1>1, <1>2, <1>4, Smaller
<1>6. pdpt_index(v) \in Nat
  BY <1>3, Sizes DEF Index
<1>7. pml4_index(v) < ENTRIES
  BY <1>1, <1>3, <1>5, <1>6, Smaller
<1>8. ~ (pml4_index(v) = 0 /\ pdpt_index(v) = 0)
  <2>1. SUFFICES ASSUME pml4_index(v) = 0, pdpt_index(v) = 0 PROVE FALSE
    OBVIOUS
  <2>2. y = 0
    BY <1>1, <1>3, <2>1
  <2>3. v = r
    BY <1>1, <1>4, <2>2
  <2>4. QED
    BY <1>1, <1>2, <1>4, <2>3
<1>9. QED
  BY <1>1, <1>2, <1>3, <1>7, <1>8 DEF Index

LEMMA ZeroIndices ==
  pml4_index(0) = 0 /\ pdpt_index(0) = 0 /\ pd_index(0) = 0 /\ pt_index(0) = 0
<1>1. ENTRIES \in Nat \ {0} /\ IDENTITY \in Nat \ {0} /\ IDENTITY * ENTRIES \in Nat \ {0}
  BY Sizes
<1>2. \A d \in Nat \ {0} : 0 \div d = 0 /\ 0 % d = 0
  OBVIOUS
<1>3. QED
  BY <1>1, <1>2 DEF pml4_index, pdpt_index, pd_index, pt_index

LEMMA Least ==
  ASSUME NEW S \in SUBSET Nat, S # {}
  PROVE  \E f \in S : \A g \in S : f <= g
<1>1. PICK f \in S : \A g \in S : ~ (<<g, f>> \in OpToRel(<, Nat))
  BY NatLessThanWellFounded, WFMin
<1>2. \A g \in S : ~ (g < f)
  BY <1>1 DEF OpToRel
<1>3. QED
  BY <1>2

-----------------------------------------------------------------------------
(* Where a table is in the tree: how many levels there are below its       *)
(* entries, with those of a root at 4, and the indices that lead to it.  A *)
(* frame at level 0 is no table.                                           *)
Place == [level : 0 .. 4, a : Index, b : Index, c : Index]
Nowhere == [level |-> 0, a |-> 0, b |-> 0, c |-> 0]
Root    == [level |-> 4, a |-> 0, b |-> 0, c |-> 0]

(* The place of the table that entry e of a table at leads to. *)
Below(at, e) ==
  IF at.level = 4 THEN [level |-> 3, a |-> e, b |-> 0, c |-> 0]
  ELSE IF at.level = 3 THEN [level |-> 2, a |-> at.a, b |-> e, c |-> 0]
  ELSE [level |-> 1, a |-> at.a, b |-> at.b, c |-> e]

(* Roots share the tables below them, and no other tables do. *)
OneParentEach(m, place) ==
  \A f, g \in Frame, d, e \in Index :
    /\ place[f].level \in {2, 3} /\ m[f][d].present /\ ~ m[f][d].ps
    /\ place[g].level \in {2, 3} /\ m[g][e].present /\ ~ m[g][e].ps
    /\ m[f][d].page = m[g][e].page
    => f = g /\ d = e

(* Every table has one place, whichever root it is reached from, and only  *)
(* the pd of the identity mapping has entries that map.                    *)
Tree(m, fr, roots, place) ==
  /\ place \in [Frame -> Place]
  /\ \A f \in fr : place[f].level = 0
  /\ \A f \in roots : place[f].level = 4
  /\ \A f \in Frame, e \in Index : place[f].level \in {2, 3, 4} /\ m[f][e].present =>
       \/ /\ ~ m[f][e].ps /\ m[f][e].page \in Frame
          /\ place[m[f][e].page] = Below(place[f], e)
       \/ /\ m[f][e].ps
          /\ place[f].level = 2 /\ place[f].a = 0 /\ place[f].b = 0
  /\ OneParentEach(m, place)

(* The entries the processor reads, one table after another, when each     *)
(* leads to the next.                                                      *)
E4(m, root, v) == m[root][pml4_index(v)]
E3(m, root, v) == m[E4(m, root, v).page][pdpt_index(v)]
E2(m, root, v) == m[E3(m, root, v).page][pd_index(v)]
E1(m, root, v) == m[E2(m, root, v).page][pt_index(v)]

Led(m, root, v) ==
  /\ E4(m, root, v).present /\ ~ E4(m, root, v).ps
  /\ E3(m, root, v).present /\ ~ E3(m, root, v).ps
  /\ E2(m, root, v).present

Maps(m, root, v, p) ==
  /\ Led(m, root, v)
  /\ \/ E2(m, root, v).ps /\ p = E2(m, root, v).page + pt_index(v)
     \/ ~ E2(m, root, v).ps /\ E1(m, root, v).present /\ p = E1(m, root, v).page

Content == [Index -> Entry]
Asked   == Virt \cup {0}

TypeOK ==
  /\ mem \in [Frame -> Content]
  /\ free \in SUBSET Frame
  /\ spaces \in SUBSET Frame /\ kernel_pd \in spaces /\ current_pd \in spaces
  /\ tlb \in SUBSET [virt : Asked, page : Nat]
  /\ panicked \in BOOLEAN

OnePlaceEach == \E place : Tree(mem, free, spaces, place)

(* TlbIsCurrent, as the walk that finds the translation. *)
TlbHolds == \A t \in tlb : Maps(mem, current_pd, t.virt, t.page)

IInv == TypeOK /\ (~ panicked => OnePlaceEach /\ TlbHolds)

-----------------------------------------------------------------------------
(* The walks of the model are the four entries. *)
LEMMA WalkIs ==
  ASSUME NEW m, NEW root, NEW v
  PROVE  PdEntry(m, root, v) =
           IF /\ E4(m, root, v).present /\ ~ E4(m, root, v).ps
              /\ E3(m, root, v).present /\ ~ E3(m, root, v).ps
           THEN {E2(m, root, v)} ELSE {}
<1> DEFINE e4 == E4(m, root, v)
           e3 == E3(m, root, v)
           e2 == E2(m, root, v)
           S  == Down(m, {e4}, pdpt_index(v))
<1>1. S = IF e4.present /\ ~ e4.ps THEN {e3} ELSE {}
  BY DEF Down, E3
<1>2. Down(m, {e3}, pd_index(v)) = IF e3.present /\ ~ e3.ps THEN {e2} ELSE {}
  BY DEF Down, E2
<1>3. Down(m, {}, pd_index(v)) = {}
  BY DEF Down
<1>4. PdEntry(m, root, v) = Down(m, S, pd_index(v))
  BY DEF PdEntry, E4
<1> HIDE DEF e4, e3, e2, S
<1>5. PdEntry(m, root, v) = IF e4.present /\ ~ e4.ps /\ e3.present /\ ~ e3.ps THEN {e2} ELSE {}
  BY <1>1, <1>2, <1>3, <1>4
<1>6. QED
  BY <1>5 DEF e4, e3, e2

LEMMA TranslationsAre ==
  ASSUME NEW root, NEW v, NEW p
  PROVE  /\ p \in Translations(root, v) <=> Maps(mem, root, v, p)
         /\ Maps(mem, root, v, p) => Translations(root, v) = {p}
<1> DEFINE e2 == E2(mem, root, v)
           e1 == E1(mem, root, v)
           led == /\ E4(mem, root, v).present /\ ~ E4(mem, root, v).ps
                  /\ E3(mem, root, v).present /\ ~ E3(mem, root, v).ps
           pdes == PdEntry(mem, root, v)
           ptes == PtEntry(mem, root, v)
<1>1. pdes = IF led THEN {e2} ELSE {}
  BY WalkIs
<1>2. ptes = IF led /\ e2.present /\ ~ e2.ps THEN {e1} ELSE {}
  <2>1. ptes = Down(mem, pdes, pt_index(v))
    BY DEF PtEntry
  <2>2. Down(mem, {e2}, pt_index(v)) = IF e2.present /\ ~ e2.ps THEN {e1} ELSE {}
    BY DEF Down, E1
  <2>3. Down(mem, {}, pt_index(v)) = {}
    BY DEF Down
  <2> HIDE DEF pdes, ptes, e2, e1, led
  <2>4. QED
    BY <1>1, <2>1, <2>2, <2>3
<1>3. Translations(root, v) =
        {pde.page + pt_index(v) : pde \in {e \in pdes : e.present /\ e.ps}}
          \cup {pte.page : pte \in {e \in ptes : e.present}}
  BY DEF Translations
<1>4. Maps(mem, root, v, p) <=>
        /\ led /\ e2.present
        /\ \/ e2.ps /\ p = e2.page + pt_index(v)
           \/ ~ e2.ps /\ e1.present /\ p = e1.page
  BY DEF Maps, Led
<1> HIDE DEF pdes, ptes, e2, e1, led
<1>5. CASE ~ (led /\ e2.present)
  BY <1>1, <1>2, <1>3, <1>4, <1>5
<1>6. CASE led /\ e2.present /\ e2.ps
  BY <1>1, <1>2, <1>3, <1>4, <1>6
<1>7. CASE led /\ e2.present /\ ~ e2.ps
  BY <1>1, <1>2, <1>3, <1>4, <1>7
<1>8. QED
  BY <1>5, <1>6, <1>7

LEMMA AskedIndices ==
  ASSUME NEW v \in Asked
  PROVE  /\ v \in Nat
         /\ pml4_index(v) \in Index /\ pdpt_index(v) \in Index
         /\ pd_index(v) \in Index /\ pt_index(v) \in Index
BY CallersKeepClear, ZeroIndices, Sizes DEF Asked

LEMMA PlacesBelow ==
  ASSUME NEW at \in Place, NEW e \in Index
  PROVE  Below(at, e) \in Place /\ Below(at, e).level # 0
BY Sizes DEF Below, Place

(* Where the tables of a translation are. *)
PtOf(v) == [level |-> 1, a |-> pml4_index(v), b |-> pdpt_index(v), c |-> pd_index(v)]

InPlace(m, place, root, v) ==
  /\ place[root].level = 4
  /\ E4(m, root, v).page \in Frame /\ place[E4(m, root, v).page].level = 3
  /\ E3(m, root, v).page \in Frame /\ place[E3(m, root, v).page].level = 2
  /\ ~ E2(m, root, v).ps =>
       E2(m, root, v).page \in Frame /\ place[E2(m, root, v).page] = PtOf(v)
  /\ E2(m, root, v).ps => pml4_index(v) = 0 /\ pdpt_index(v) = 0

LEMMA TreeWalk ==
  ASSUME NEW m, NEW fr, NEW roots \in SUBSET Frame, NEW place, Tree(m, fr, roots, place),
         NEW root \in roots, NEW v \in Asked, Led(m, root, v)
  PROVE  InPlace(m, place, root, v)
<1> DEFINE f4 == E4(m, root, v).page
           f3 == E3(m, root, v).page
           f2 == E2(m, root, v).page
<1>1. /\ pml4_index(v) \in Index /\ pdpt_index(v) \in Index
      /\ pd_index(v) \in Index /\ pt_index(v) \in Index
  BY AskedIndices
<1>2. root \in Frame /\ place[root].level = 4
  BY DEF Tree
<1>3. f4 \in Frame /\ place[f4] = [level |-> 3, a |-> pml4_index(v), b |-> 0, c |-> 0]
  BY <1>1, <1>2 DEF Tree, Led, E4, Below
<1>4. f3 \in Frame /\ place[f3] = [level |-> 2, a |-> pml4_index(v), b |-> pdpt_index(v), c |-> 0]
  <2>1. E3(m, root, v) = m[f4][pdpt_index(v)] /\ E3(m, root, v).present /\ ~ E3(m, root, v).ps
    BY DEF E3, Led
  <2>2. place[f4].level = 3 /\ place[f4].a = pml4_index(v)
    BY <1>3
  <2>3. f3 \in Frame /\ place[f3] = Below(place[f4], pdpt_index(v))
    BY <1>1, <1>3, <2>1, <2>2 DEF Tree
  <2>4. QED
    BY <2>2, <2>3 DEF Below
<1>5. /\ ~ E2(m, root, v).ps => f2 \in Frame /\ place[f2] = PtOf(v)
      /\ E2(m, root, v).ps => pml4_index(v) = 0 /\ pdpt_index(v) = 0
  <2>1. E2(m, root, v) = m[f3][pd_index(v)] /\ E2(m, root, v).present
    BY DEF E2, Led
  <2>2. place[f3].level = 2 /\ place[f3].a = pml4_index(v) /\ place[f3].b = pdpt_index(v)
    BY <1>4
  <2>3. /\ ~ E2(m, root, v).ps => f2 \in Frame /\ place[f2] = Below(place[f3], pd_index(v))
        /\ E2(m, root, v).ps => place[f3].a = 0 /\ place[f3].b = 0
    BY <1>1, <1>4, <2>1, <2>2 DEF Tree
  <2>4. QED
    BY <2>2, <2>3 DEF Below, PtOf
<1>6. QED
  BY <1>2, <1>3, <1>4, <1>5 DEF InPlace

(* A translation stays when the entries it reads stay. *)
LEMMA MapsStays ==
  ASSUME NEW m, NEW fr, NEW roots \in SUBSET Frame, NEW place, Tree(m, fr, roots, place),
         NEW root \in roots, NEW v \in Asked, NEW p, Maps(m, root, v, p), NEW n,
         \A f \in Frame, e \in Index :
           m[f][e].present /\ (place[f].level \in {2, 3} \/ f = root) => n[f][e] = m[f][e],
         \A f \in Frame :
           m[f][pt_index(v)].present /\ place[f] = PtOf(v) => n[f][pt_index(v)] = m[f][pt_index(v)]
  PROVE  Maps(n, root, v, p)
<1>1. /\ pml4_index(v) \in Index /\ pdpt_index(v) \in Index
      /\ pd_index(v) \in Index /\ pt_index(v) \in Index /\ root \in Frame
  BY AskedIndices
<1>2. InPlace(m, place, root, v)
  BY TreeWalk DEF Maps
<1>3. E4(n, root, v) = E4(m, root, v)
  BY <1>1 DEF E4, Maps, Led
<1>4. E3(n, root, v) = E3(m, root, v)
  BY <1>1, <1>2, <1>3 DEF E3, Maps, Led, InPlace
<1>5. E2(n, root, v) = E2(m, root, v)
  BY <1>1, <1>2, <1>4 DEF E2, Maps, Led, InPlace
<1>6. CASE E2(m, root, v).ps
  BY <1>3, <1>4, <1>5, <1>6 DEF Maps, Led
<1>7. CASE ~ E2(m, root, v).ps
  <2>1. E1(n, root, v) = E1(m, root, v)
    BY <1>1, <1>2, <1>5, <1>7 DEF E1, Maps, Led, InPlace
  <2>2. QED
    BY <1>3, <1>4, <1>5, <2>1 DEF Maps, Led
<1>8. QED
  BY <1>6, <1>7

-----------------------------------------------------------------------------
(* Regions.  What one maps an address to, as the three entries that are    *)
(* read one after another below a pml4.                                    *)
AtPdpt(m, r, a) == m[r][a \div IDENTITY]
AtPd(m, r, a)   == m[AtPdpt(m, r, a).page][pd_index(a)]
AtPt(m, r, a)   == m[AtPd(m, r, a).page][pt_index(a)]

Shows(e) == IF e.present THEN [page |-> e.page, flags |-> e.flags] ELSE Unmapped

View(m, r, a) ==
  IF AtPdpt(m, r, a).present /\ ~ AtPdpt(m, r, a).ps /\ AtPd(m, r, a).present
  THEN IF AtPd(m, r, a).ps
       THEN [page |-> AtPd(m, r, a).page + pt_index(a), flags |-> AtPd(m, r, a).flags]
       ELSE Shows(AtPt(m, r, a))
  ELSE Unmapped

LEMMA ViewIs ==
  ASSUME NEW m, NEW r, NEW a
  PROVE  (IF Mapped(m, r, a) = {} THEN Unmapped ELSE CHOOSE e \in Mapped(m, r, a) : TRUE)
           = View(m, r, a)
<1> DEFINE e3 == AtPdpt(m, r, a)
           e2 == AtPd(m, r, a)
           e1 == AtPt(m, r, a)
           pdes == Down(m, {e3}, pd_index(a))
           ptes == Down(m, pdes, pt_index(a))
<1>1. pdes = IF e3.present /\ ~ e3.ps THEN {e2} ELSE {}
  BY DEF Down, AtPd
<1>2. Down(m, {e2}, pt_index(a)) = IF e2.present /\ ~ e2.ps THEN {e1} ELSE {}
  BY DEF Down, AtPt
<1>3. Down(m, {}, pt_index(a)) = {}
  BY DEF Down
<1> DEFINE large == {[page |-> e.page + pt_index(a), flags |-> e.flags] : e \in {x \in pdes : x.present /\ x.ps}}
           small == {[page |-> e.page, flags |-> e.flags] : e \in {x \in ptes : x.present}}
<1>4. Mapped(m, r, a) = large \cup small
  BY DEF Mapped, AtPdpt
<1>5. View(m, r, a) =
        IF e3.present /\ ~ e3.ps /\ e2.present
        THEN IF e2.ps THEN [page |-> e2.page + pt_index(a), flags |-> e2.flags] ELSE Shows(e1)
        ELSE Unmapped
  BY DEF View
<1>6. ptes = IF pdes = {e2} /\ e2.present /\ ~ e2.ps THEN {e1} ELSE {}
  BY <1>1, <1>2, <1>3
<1> HIDE DEF e3, e2, e1, pdes, ptes
<1>7. CASE ~ (e3.present /\ ~ e3.ps /\ e2.present)
  <2>1. large = {} /\ small = {}
    BY <1>1, <1>6, <1>7
  <2>2. QED
    BY <1>4, <1>5, <1>7, <2>1
<1>8. CASE e3.present /\ ~ e3.ps /\ e2.present /\ e2.ps
  <2>1. large = {[page |-> e2.page + pt_index(a), flags |-> e2.flags]} /\ small = {}
    BY <1>1, <1>6, <1>8
  <2>2. QED
    BY <1>4, <1>5, <1>8, <2>1
<1>9. CASE e3.present /\ ~ e3.ps /\ e2.present /\ ~ e2.ps
  <2>1. large = {} /\ small = IF e1.present THEN {[page |-> e1.page, flags |-> e1.flags]} ELSE {}
    BY <1>1, <1>6, <1>9
  <2>2. View(m, r, a) = IF e1.present THEN [page |-> e1.page, flags |-> e1.flags] ELSE Unmapped
    BY <1>5, <1>9 DEF Shows
  <2> HIDE DEF large, small
  <2>3. QED
    BY <1>4, <2>1, <2>2
<1>10. QED
  BY <1>7, <1>8, <1>9

(* An address has a place of its own in its region. *)
LEMMA AddressIndices ==
  ASSUME NEW a \in Address
  PROVE  /\ a \in Nat
         /\ a \div IDENTITY \in Index /\ pd_index(a) \in Index /\ pt_index(a) \in Index
         /\ a = ENTRIES * (ENTRIES * (a \div IDENTITY) + pd_index(a)) + pt_index(a)
<1>1. /\ ENTRIES \in Nat \ {0} /\ IDENTITY \in Nat \ {0} /\ IDENTITY = ENTRIES * ENTRIES
      /\ IDENTITY * ENTRIES \in Nat
  BY Sizes
<1>2. a \in Nat /\ a < IDENTITY * ENTRIES
  BY <1>1 DEF Address
<1>3. PICK x, y \in Nat :
        /\ a = ENTRIES * x + pt_index(a) /\ pt_index(a) \in Index
        /\ x = ENTRIES * y + pd_index(a) /\ pd_index(a) \in Index
        /\ y = a \div IDENTITY
  BY <1>2, Indices
<1>4. y < ENTRIES
  <2>1. PICK d \in Nat \ {0} : d = IDENTITY
    BY <1>1
  <2>2. PICK q \in Nat, k \in Nat : q = a \div d /\ k = a % d /\ a = d * q + k
    BY <1>2, Divides
  <2>3. d * q + k < d * ENTRIES
    BY <1>2, <2>1, <2>2
  <2>4. q < ENTRIES
    BY <1>1, <2>3, Smaller
  <2>5. QED
    BY <1>3, <2>1, <2>2, <2>4
<1>5. QED
  BY <1>1, <1>2, <1>3, <1>4 DEF Index

LEMMA AddressOf ==
  ASSUME NEW i \in Index, NEW j \in Index, NEW k \in Index
  PROVE  \E a \in Address : a \div IDENTITY = i /\ pd_index(a) = j /\ pt_index(a) = k
<1>1. /\ ENTRIES \in Nat \ {0} /\ IDENTITY \in Nat \ {0} /\ IDENTITY = ENTRIES * ENTRIES
  BY Sizes
<1>2. /\ i \in Nat /\ i < ENTRIES /\ j \in Nat /\ j < ENTRIES /\ k \in Nat /\ k < ENTRIES
  BY <1>1 DEF Index
<1>3. PICK p \in Nat : p = ENTRIES * i + j
  BY <1>1, <1>2
<1>4. PICK a \in Nat : a = ENTRIES * p + k
  BY <1>1, <1>2
<1>5. PICK x, y \in Nat :
        /\ a = ENTRIES * x + pt_index(a) /\ pt_index(a) \in Index
        /\ x = ENTRIES * y + pd_index(a) /\ pd_index(a) \in Index
        /\ y = a \div IDENTITY
  BY Indices
<1>6. \A n \in Index : n \in Nat /\ n < ENTRIES
  BY <1>1 DEF Index
<1>7. x = p
  <2>1. PICK t \in Nat : t = pt_index(a) /\ t < ENTRIES
    BY <1>5, <1>6
  <2>2. ENTRIES * x + t = ENTRIES * p + k
    BY <1>4, <1>5, <2>1
  <2>3. QED
    BY <1>1, <1>2, <2>1, <2>2, DivisionIsUnique
<1>8. pt_index(a) = k
  <2>1. PICK c \in Nat : c = ENTRIES * p
    BY <1>1
  <2>2. PICK t \in Nat : t = pt_index(a)
    BY <1>5, <1>6
  <2>3. a = c + k /\ a = c + t
    BY <1>4, <1>5, <1>7, <2>1, <2>2
  <2>4. QED
    BY <1>2, <2>2, <2>3
<1>9. y = i
  <2>1. PICK t \in Nat : t = pd_index(a) /\ t < ENTRIES
    BY <1>5, <1>6
  <2>2. ENTRIES * y + t = ENTRIES * i + j
    BY <1>3, <1>5, <1>7, <2>1
  <2>3. QED
    BY <1>1, <1>2, <2>1, <2>2, DivisionIsUnique
<1>10. pd_index(a) = j
  <2>1. PICK c \in Nat : c = ENTRIES * i
    BY <1>1, <1>2
  <2>2. PICK t \in Nat : t = pd_index(a)
    BY <1>5, <1>6
  <2>3. p = c + j /\ p = c + t
    BY <1>3, <1>5, <1>7, <1>9, <2>1, <2>2
  <2>4. QED
    BY <1>2, <2>2, <2>3
<1>11. a \in Address
  <2>1. ENTRIES * i + ENTRIES <= ENTRIES * ENTRIES
    BY <1>1, <1>2, Multiples
  <2>2. ENTRIES * i \in Nat /\ ENTRIES * ENTRIES \in Nat
    BY <1>1, <1>2
  <2>3. p < ENTRIES * ENTRIES
    BY <1>1, <1>2, <1>3, <2>1, <2>2
  <2>4. PICK q \in Nat : q = IDENTITY /\ p < q
    BY <1>1, <2>3
  <2>5. ENTRIES * p + ENTRIES <= ENTRIES * q
    BY <1>1, <2>4, Multiples
  <2>6. ENTRIES * p \in Nat /\ ENTRIES * q \in Nat /\ ENTRIES * q = q * ENTRIES
    BY <1>1
  <2>7. a < q * ENTRIES
    BY <1>1, <1>2, <1>4, <2>5, <2>6
  <2>8. QED
    BY <2>4, <2>6, <2>7 DEF Address
<1>12. QED
  BY <1>5, <1>8, <1>9, <1>10, <1>11

-----------------------------------------------------------------------------
(* The steps of page_table down the tree.  s is where the walk has come to *)
(* and at the place of the table there.                                    *)
Walking(s, at) ==
  /\ s \in [mem : [Frame -> Content], free : SUBSET Frame, at : Frame, panicked : BOOLEAN]
  /\ \E place : Tree(s.mem, s.free, spaces, place) /\ (~ s.panicked => place[s.at] = at)

(* What was mapped before is mapped after. *)
Keeps(m, n) ==
  \A root \in spaces, v \in Asked, p \in Nat : Maps(m, root, v, p) => Maps(n, root, v, p)

LEMMA EntriesAre ==
  /\ Zero \in Entry /\ ~ Zero.present /\ [e \in Index |-> Zero] \in Content
  /\ \A f \in Frame \cup Phys, flags \in Flags \cup {"wu", "none"} :
       To(f, flags) \in Entry /\ To(f, flags).present /\ ~ To(f, flags).ps /\ To(f, flags).page = f
BY Sizes DEF Zero, To, Entry, Content

(* Memory m when frame f has become the table of entry index of table at.  *)
WithTable(m, at, index, f) ==
  [m EXCEPT ![at] = [m[at] EXCEPT ![index] = To(f, "wu")], ![f] = [e \in Index |-> Zero]]

(* That has one place, and no entry of a table changes but that one.       *)
Fits(n, m, fr, roots, place, at, index, f) ==
  /\ n \in [Frame -> Content]
  /\ \E new : Tree(n, fr \ {f}, roots, new) /\ new[f] = Below(place[at], index)
  /\ \A g \in Frame, e \in Index :
       m[g][e].present /\ place[g].level # 0 => n[g][e] = m[g][e]
  /\ \A g \in Frame \ {f}, e \in Index : g # at \/ e # index => n[g][e] = m[g][e]
  /\ n[at][index] = To(f, "wu") /\ \A e \in Index : ~ n[f][e].present

LEMMA NewTableKeepsTree ==
  ASSUME NEW m \in [Frame -> Content], NEW fr \in SUBSET Frame, NEW roots \in SUBSET Frame,
         NEW place, Tree(m, fr, roots, place),
         NEW at \in Frame, NEW index \in Index, place[at].level \in {2, 3, 4},
         NEW f \in fr, ~ m[at][index].present
  PROVE  Fits(WithTable(m, at, index, f), m, fr, roots, place, at, index, f)
<1> DEFINE n == WithTable(m, at, index, f)
           below == Below(place[at], index)
           new == [place EXCEPT ![f] = below]
<1>1. /\ place \in [Frame -> Place] /\ place[f].level = 0 /\ f \in Frame /\ f # at
      /\ f \notin roots
  BY DEF Tree
<1>2. below \in Place
  <2>1. place[at] \in Place
    BY <1>1
  <2>2. QED
    BY <2>1, PlacesBelow
<1>3. m[at] \in Content /\ To(f, "wu") \in Entry
  BY <1>1, EntriesAre
<1> HIDE DEF below
<1>4. /\ new \in [Frame -> Place] /\ new[f] = below
      /\ \A g \in Frame \ {f} : new[g] = place[g]
  BY <1>1, <1>2
<1> HIDE DEF new
<1>5. /\ n \in [Frame -> Content]
      /\ n[f] = [e \in Index |-> Zero]
      /\ n[at] = [m[at] EXCEPT ![index] = To(f, "wu")]
      /\ \A g \in Frame : g # f /\ g # at => n[g] = m[g]
  <2>1. [m[at] EXCEPT ![index] = To(f, "wu")] \in Content
    BY <1>3 DEF Content
  <2>2. [e \in Index |-> Zero] \in Content
    BY EntriesAre
  <2>3. QED
    BY <1>1, <2>1, <2>2 DEF WithTable
<1> HIDE DEF n
<1>6. /\ n[at][index] = To(f, "wu")
      /\ \A e \in Index \ {index} : n[at][e] = m[at][e]
      /\ \A e \in Index : ~ n[f][e].present
  BY <1>3, <1>5, EntriesAre DEF Content
<1>7. \A g \in fr \ {f} : new[g].level = 0
  BY <1>4 DEF Tree
<1>8. \A g \in roots : new[g].level = 4
  BY <1>1, <1>4 DEF Tree
<1>9. ASSUME NEW g \in Frame, NEW e \in Index, new[g].level \in {2, 3, 4}, n[g][e].present
      PROVE  \/ /\ ~ n[g][e].ps /\ n[g][e].page \in Frame
                /\ new[n[g][e].page] = Below(new[g], e)
             \/ /\ n[g][e].ps
                /\ new[g].level = 2 /\ new[g].a = 0 /\ new[g].b = 0
  <2>1. g # f
    BY <1>6, <1>9
  <2>2. new[g] = place[g]
    BY <1>4, <2>1
  <2>3. CASE g = at /\ e = index
    <3>1. ~ n[g][e].ps /\ n[g][e].page = f
      BY <1>1, <1>6, <2>3, EntriesAre
    <3>2. QED
      BY <1>1, <1>4, <2>2, <2>3, <3>1 DEF below
  <2>4. CASE ~ (g = at /\ e = index)
    <3>1. n[g][e] = m[g][e]
      BY <1>5, <1>6, <2>1, <2>4
    <3>2. \/ /\ ~ m[g][e].ps /\ m[g][e].page \in Frame
             /\ place[m[g][e].page] = Below(place[g], e)
          \/ /\ m[g][e].ps
             /\ place[g].level = 2 /\ place[g].a = 0 /\ place[g].b = 0
      BY <1>9, <2>2, <3>1 DEF Tree
    <3>3. Below(place[g], e).level # 0
      BY <1>1, PlacesBelow
    <3>4. QED
      BY <1>1, <1>4, <2>2, <3>1, <3>2, <3>3
  <2>5. QED
    BY <2>3, <2>4
<1>10. OneParentEach(n, new)
  <2>1. \A g \in Frame, e \in Index :
          /\ new[g].level \in {2, 3} /\ n[g][e].present /\ ~ n[g][e].ps
          => \/ g = at /\ e = index /\ n[g][e].page = f
             \/ /\ place[g].level \in {2, 3} /\ n[g][e] = m[g][e]
                /\ m[g][e].page # f
    <3>1. SUFFICES ASSUME NEW g \in Frame, NEW e \in Index,
                          new[g].level \in {2, 3}, n[g][e].present, ~ n[g][e].ps,
                          ~ (g = at /\ e = index)
                   PROVE  place[g].level \in {2, 3} /\ n[g][e] = m[g][e] /\ m[g][e].page # f
      BY <1>1, <1>6, EntriesAre
    <3>2. g # f /\ new[g] = place[g]
      BY <1>4, <1>6, <3>1
    <3>3. n[g][e] = m[g][e]
      BY <1>5, <1>6, <3>1, <3>2
    <3>4. place[m[g][e].page] = Below(place[g], e)
      BY <3>1, <3>2, <3>3 DEF Tree
    <3>5. Below(place[g], e).level # 0
      BY <1>1, PlacesBelow
    <3>6. QED
      BY <1>1, <3>1, <3>2, <3>3, <3>4, <3>5
  <2>2. OneParentEach(m, place)
    BY DEF Tree
  <2>3. QED
    BY <2>1, <2>2 DEF OneParentEach
<1>11. Tree(n, fr \ {f}, roots, new)
  BY <1>4, <1>7, <1>8, <1>9, <1>10 DEF Tree
<1>12. ASSUME NEW g \in Frame, NEW e \in Index, m[g][e].present, place[g].level # 0
       PROVE  n[g][e] = m[g][e]
  <2>1. g # f /\ ~ (g = at /\ e = index)
    BY <1>1, <1>12
  <2>2. QED
    BY <1>5, <1>6, <2>1
<1>13. QED
  <2>1. \A g \in Frame \ {f}, e \in Index : g # at \/ e # index => n[g][e] = m[g][e]
    BY <1>5, <1>6
  <2>2. QED
    BY <1>4, <1>5, <1>6, <1>11, <1>12, <2>1 DEF below, n, Fits

LEMMA OneParent ==
  ASSUME NEW m, NEW place, OneParentEach(m, place),
         NEW f \in Frame, NEW g \in Frame, NEW d \in Index, NEW e \in Index,
         place[f].level \in {2, 3}, m[f][d].present, ~ m[f][d].ps,
         place[g].level \in {2, 3}, m[g][e].present, ~ m[g][e].ps,
         m[f][d].page = m[g][e].page
  PROVE  f = g /\ d = e
BY DEF OneParentEach

LEMMA ReachedLevel ==
  ASSUME spaces \in SUBSET Frame, NEW m, NEW fr, NEW place, Tree(m, fr, spaces, place),
         NEW r \in Reached(m)
  PROVE  r \in Frame /\ place[r].level = 3
<1>1. PICK g \in spaces, e \in Index : m[g][e].present /\ m[g][e].page = r
  BY DEF Reached
<1>2. place[g].level = 4 /\ g \in Frame
  BY DEF Tree
<1>3. place[r] = Below(place[g], e)
  BY <1>1, <1>2 DEF Tree
<1>4. QED
  BY <1>2, <1>3 DEF Below, Reached

WithinRegion(m, place, r, a) ==
  /\ AtPdpt(m, r, a).present =>
       /\ ~ AtPdpt(m, r, a).ps /\ AtPdpt(m, r, a).page \in Frame
       /\ place[AtPdpt(m, r, a).page].level = 2
  /\ AtPdpt(m, r, a).present /\ AtPd(m, r, a).present /\ ~ AtPd(m, r, a).ps =>
       AtPd(m, r, a).page \in Frame /\ place[AtPd(m, r, a).page].level = 1

LEMMA RegionTables ==
  ASSUME NEW m, NEW fr, NEW roots, NEW place, Tree(m, fr, roots, place),
         NEW r \in Frame, place[r].level = 3, NEW a \in Address
  PROVE  WithinRegion(m, place, r, a)
<1>1. a \div IDENTITY \in Index /\ pd_index(a) \in Index
  BY AddressIndices
<1>2. AtPdpt(m, r, a).present =>
        /\ ~ AtPdpt(m, r, a).ps /\ AtPdpt(m, r, a).page \in Frame
        /\ place[AtPdpt(m, r, a).page].level = 2
  <2>1. SUFFICES ASSUME NEW e \in Index, m[r][e].present
                 PROVE  ~ m[r][e].ps /\ m[r][e].page \in Frame /\ place[m[r][e].page].level = 2
    BY <1>1 DEF AtPdpt
  <2>2. ~ m[r][e].ps /\ m[r][e].page \in Frame /\ place[m[r][e].page] = Below(place[r], e)
    BY <2>1 DEF Tree
  <2>3. Below(place[r], e).level = 2
    BY DEF Below
  <2>4. QED
    BY <2>2, <2>3
<1>3. ASSUME AtPdpt(m, r, a).present, AtPd(m, r, a).present, ~ AtPd(m, r, a).ps
      PROVE  AtPd(m, r, a).page \in Frame /\ place[AtPd(m, r, a).page].level = 1
  <2> DEFINE g == AtPdpt(m, r, a).page
  <2>1. g \in Frame /\ place[g].level = 2
    BY <1>2, <1>3
  <2>2. m[g][pd_index(a)].present /\ ~ m[g][pd_index(a)].ps
    BY <1>3 DEF AtPd
  <2> HIDE DEF g
  <2>3. m[g][pd_index(a)].page \in Frame /\ place[m[g][pd_index(a)].page] = Below(place[g], pd_index(a))
    BY <1>1, <2>1, <2>2 DEF Tree
  <2>4. Below(place[g], pd_index(a)).level = 1
    BY <2>1 DEF Below
  <2>5. QED
    BY <2>3, <2>4 DEF AtPd, g
<1>4. QED
  BY <1>2, <1>3 DEF WithinRegion

(* Pages stay mapped when the tables of regions stay. *)
SameTables(m, n, place) ==
  \A f \in Frame, e \in Index : place[f].level \in {1, 2, 3} => n[f][e] = m[f][e]

LEMMA ViewStays ==
  ASSUME NEW m, NEW fr, NEW roots, NEW place, Tree(m, fr, roots, place),
         NEW r \in Frame, place[r].level = 3, NEW a \in Address, NEW n,
         SameTables(m, n, place)
  PROVE  View(n, r, a) = View(m, r, a)
<1>1. a \div IDENTITY \in Index /\ pd_index(a) \in Index /\ pt_index(a) \in Index
  BY AddressIndices
<1>2. WithinRegion(m, place, r, a)
  BY RegionTables
<1>3. AtPdpt(n, r, a) = AtPdpt(m, r, a)
  BY <1>1 DEF AtPdpt, SameTables
<1>4. AtPdpt(m, r, a).present => AtPd(n, r, a) = AtPd(m, r, a)
  BY <1>1, <1>2, <1>3 DEF AtPd, WithinRegion, SameTables
<1>5. AtPdpt(m, r, a).present /\ AtPd(m, r, a).present /\ ~ AtPd(m, r, a).ps =>
        AtPt(n, r, a) = AtPt(m, r, a)
  BY <1>1, <1>2, <1>4 DEF AtPt, WithinRegion, SameTables
<1>6. QED
  BY <1>3, <1>4, <1>5 DEF View

(* A new table f, being empty, maps nothing and hides nothing. *)
MapsNothing(m, n, place, f) ==
  /\ \A r \in Frame, a \in Address : place[r].level = 3 => View(n, r, a) = View(m, r, a)
  /\ \A a \in Address : View(n, f, a) = Unmapped

LEMMA NewTableShows ==
  ASSUME NEW m, NEW n, NEW fr \in SUBSET Frame, NEW roots, NEW place, Tree(m, fr, roots, place),
         NEW at \in Frame, NEW index \in Index, place[at].level \in {2, 3, 4}, NEW f \in fr,
         ~ m[at][index].present, Fits(n, m, fr, roots, place, at, index, f)
  PROVE  MapsNothing(m, n, place, f)
<1>1. /\ f \in Frame /\ place[f].level = 0
      /\ \A g \in Frame \ {f}, e \in Index : g # at \/ e # index => n[g][e] = m[g][e]
      /\ n[at][index] = To(f, "wu") /\ \A e \in Index : ~ n[f][e].present
  BY DEF Tree, Fits
<1>2. /\ n[at][index].present /\ n[at][index].page = f
  BY <1>1 DEF To
<1>3. ASSUME NEW r \in Frame, NEW a \in Address, place[r].level = 3
      PROVE  View(n, r, a) = View(m, r, a)
  <2>1. a \div IDENTITY \in Index /\ pd_index(a) \in Index /\ pt_index(a) \in Index
    BY AddressIndices
  <2>2. WithinRegion(m, place, r, a)
    BY <1>3, RegionTables
  <2>3. r # f
    BY <1>1, <1>3
  <2>4. CASE ~ AtPdpt(m, r, a).present
    <3>1. View(m, r, a) = Unmapped
      BY <2>4 DEF View
    <3>2. CASE r = at /\ a \div IDENTITY = index
      <4>1. AtPdpt(n, r, a).page = f
        BY <1>2, <3>2 DEF AtPdpt
      <4>2. ~ AtPd(n, r, a).present
        BY <1>1, <2>1, <4>1 DEF AtPd
      <4>3. QED
        BY <3>1, <4>2 DEF View
    <3>3. CASE ~ (r = at /\ a \div IDENTITY = index)
      <4>1. AtPdpt(n, r, a) = AtPdpt(m, r, a)
        BY <1>1, <2>1, <2>3, <3>3 DEF AtPdpt
      <4>2. QED
        BY <2>4, <3>1, <4>1 DEF View
    <3>4. QED
      BY <3>2, <3>3
  <2>5. CASE AtPdpt(m, r, a).present
    <3> DEFINE p == AtPdpt(m, r, a).page
    <3>1. AtPdpt(n, r, a) = AtPdpt(m, r, a)
      BY <1>1, <2>1, <2>3, <2>5 DEF AtPdpt
    <3>2. p \in Frame /\ place[p].level = 2 /\ p # f
      BY <1>1, <2>2, <2>5 DEF WithinRegion
    <3>3. AtPd(n, r, a) = n[p][pd_index(a)] /\ AtPd(m, r, a) = m[p][pd_index(a)]
      BY <3>1 DEF AtPd
    <3> HIDE DEF p
    <3>4. CASE p = at /\ pd_index(a) = index
      <4>1. AtPd(n, r, a).page = f /\ ~ AtPd(n, r, a).ps /\ ~ AtPd(m, r, a).present
        BY <1>1, <3>3, <3>4 DEF To
      <4>2. ~ AtPt(n, r, a).present
        BY <1>1, <2>1, <4>1 DEF AtPt
      <4>3. QED
        BY <4>1, <4>2 DEF View, Shows
    <3>5. CASE ~ (p = at /\ pd_index(a) = index)
      <4>1. AtPd(n, r, a) = AtPd(m, r, a)
        BY <1>1, <2>1, <3>2, <3>3, <3>5
      <4>2. ASSUME AtPd(m, r, a).present, ~ AtPd(m, r, a).ps
            PROVE  AtPt(n, r, a) = AtPt(m, r, a)
        <5>1. PICK q \in Frame : q = AtPd(m, r, a).page /\ place[q].level = 1
          BY <2>2, <2>5, <4>2 DEF WithinRegion
        <5>2. q # f /\ q # at
          BY <1>1, <5>1
        <5>3. QED
          BY <1>1, <2>1, <4>1, <5>1, <5>2 DEF AtPt
      <4>3. QED
        BY <3>1, <4>1, <4>2 DEF View
    <3>6. QED
      BY <3>4, <3>5
  <2>6. QED
    BY <2>4, <2>5
<1>4. ASSUME NEW a \in Address
      PROVE  View(n, f, a) = Unmapped
  <2>1. ~ AtPdpt(n, f, a).present
    BY <1>1, AddressIndices DEF AtPdpt
  <2>2. QED
    BY <2>1 DEF View
<1>5. QED
  BY <1>3, <1>4 DEF MapsNothing

(* An entry of a last table is one address of one region. *)
OneEntryWritten(m, n, t, i, x) ==
  /\ \A f \in Frame : f # t => n[f] = m[f]
  /\ \A e \in Index : e # i => n[t][e] = m[t][e]
  /\ n[t][i] = x

LEMMA WriteShows ==
  ASSUME NEW m, NEW fr, NEW roots, NEW place, Tree(m, fr, roots, place),
         NEW t \in Frame, place[t].level = 1,
         NEW r \in Frame, place[r].level = 3, NEW a \in Address,
         AtPdpt(m, r, a).present, AtPd(m, r, a).present, ~ AtPd(m, r, a).ps,
         AtPd(m, r, a).page = t, NEW n, NEW x,
         OneEntryWritten(m, n, t, pt_index(a), x),
         NEW q \in Frame, place[q].level = 3, NEW b \in Address
  PROVE  View(n, q, b) = IF q = r /\ b = a THEN Shows(x) ELSE View(m, q, b)
<1>1. /\ a \div IDENTITY \in Index /\ pd_index(a) \in Index /\ pt_index(a) \in Index
      /\ b \div IDENTITY \in Index /\ pd_index(b) \in Index /\ pt_index(b) \in Index
  BY AddressIndices
<1>2. WithinRegion(m, place, r, a) /\ WithinRegion(m, place, q, b)
  BY RegionTables
<1>3. /\ AtPdpt(n, q, b) = AtPdpt(m, q, b)
      /\ AtPdpt(m, q, b).present => AtPd(n, q, b) = AtPd(m, q, b)
  <2>1. AtPdpt(n, q, b) = AtPdpt(m, q, b)
    BY DEF AtPdpt, OneEntryWritten
  <2>2. ASSUME AtPdpt(m, q, b).present PROVE AtPdpt(m, q, b).page \in Frame \ {t}
    BY <1>2, <2>2 DEF WithinRegion
  <2>3. QED
    BY <2>1, <2>2 DEF AtPd, OneEntryWritten
<1>4. CASE q = r /\ b = a
  <2>1. AtPt(n, q, b) = x
    BY <1>3, <1>4 DEF AtPt, OneEntryWritten
  <2>2. ~ AtPdpt(m, r, a).ps
    BY <1>2 DEF WithinRegion
  <2>3. QED
    BY <1>3, <1>4, <2>1, <2>2 DEF View
<1>5. CASE ~ (q = r /\ b = a)
  <2>1. SUFFICES ASSUME AtPdpt(m, q, b).present, AtPd(m, q, b).present, ~ AtPd(m, q, b).ps
                 PROVE  AtPt(n, q, b) = AtPt(m, q, b)
    BY <1>3, <1>5 DEF View
  <2>2. PICK u \in Frame : u = AtPd(m, q, b).page
    BY <1>2, <2>1 DEF WithinRegion
  <2>3. AtPt(n, q, b) = n[u][pt_index(b)] /\ AtPt(m, q, b) = m[u][pt_index(b)]
    BY <1>3, <2>1, <2>2 DEF AtPt
  <2>4. CASE u # t
    BY <2>3, <2>4 DEF OneEntryWritten
  <2>5. CASE u = t
    <3>1. PICK g \in Frame, h \in Frame :
            /\ g = AtPdpt(m, r, a).page /\ place[g].level = 2
            /\ h = AtPdpt(m, q, b).page /\ place[h].level = 2
      BY <1>2, <2>1 DEF WithinRegion
    <3>2. OneParentEach(m, place)
      BY DEF Tree
    <3>3. g = h /\ pd_index(a) = pd_index(b)
      <4>1. AtPd(m, r, a) = m[g][pd_index(a)] /\ AtPd(m, q, b) = m[h][pd_index(b)]
        BY <3>1 DEF AtPd
      <4>2. QED
        <5>1. PICK i \in Index, j \in Index : i = pd_index(a) /\ j = pd_index(b)
          BY <1>1
        <5>2. /\ m[g][i].present /\ ~ m[g][i].ps /\ m[g][i].page = t
              /\ m[h][j].present /\ ~ m[h][j].ps /\ m[h][j].page = t
          BY <2>1, <2>2, <2>5, <4>1, <5>1
        <5>3. g = h /\ i = j
          BY <3>1, <3>2, <5>2, OneParent
        <5>4. QED
          BY <5>1, <5>3
    <3>4. r = q /\ a \div IDENTITY = b \div IDENTITY
      <4>1. /\ AtPdpt(m, r, a) = m[r][a \div IDENTITY] /\ AtPdpt(m, q, b) = m[q][b \div IDENTITY]
            /\ ~ AtPdpt(m, r, a).ps /\ ~ AtPdpt(m, q, b).ps
        BY <1>2, <2>1 DEF AtPdpt, WithinRegion
      <4>2. QED
        <5>1. PICK i \in Index, j \in Index : i = a \div IDENTITY /\ j = b \div IDENTITY
          BY <1>1
        <5>2. /\ m[r][i].present /\ ~ m[r][i].ps /\ m[r][i].page = g
              /\ m[q][j].present /\ ~ m[q][j].ps /\ m[q][j].page = g
          BY <2>1, <3>1, <3>3, <4>1, <5>1
        <5>3. r = q /\ i = j
          BY <3>2, <5>2, OneParent
        <5>4. QED
          BY <5>1, <5>3
    <3>5. pt_index(a) # pt_index(b)
      BY <1>5, <3>3, <3>4, AddressIndices
    <3>6. QED
      BY <1>1, <2>3, <2>5, <3>5 DEF OneEntryWritten
  <2>6. QED
    BY <2>4, <2>5
<1>6. QED
  BY <1>4, <1>5

Leads(m, f, e, g) == m[f][e].present /\ ~ m[f][e].ps /\ m[f][e].page = g

SameViews(m, n) == \A r \in Reached(m), a \in Address : View(n, r, a) = View(m, r, a)

(* What a step down from s to u does that does not panic. *)
Stepped(s, u, index) ==
  /\ ~ s.panicked /\ s.at \notin s.free /\ u.free \subseteq s.free
  /\ Leads(u.mem, s.at, index, u.at)
  /\ \A g \in Frame \ s.free, e \in Index :
       g # s.at \/ e # index \/ s.mem[g][e].present => u.mem[g][e] = s.mem[g][e]
  /\ ~ s.mem[s.at][index].present =>
       u.at \in s.free /\ \A a \in Address : View(u.mem, u.at, a) = Unmapped
  /\ SameViews(s.mem, u.mem)
  /\ Keeps(s.mem, u.mem)

LEMMA StepDown ==
  ASSUME TypeOK, NEW s, NEW at \in Place, at.level \in {2, 3, 4}, NEW index \in Index,
         ~ (at.level = 2 /\ at.a = 0 /\ at.b = 0), Walking(s, at)
  PROVE  LET u == next_table(s, index) IN
         /\ Walking(u, Below(at, index))
         /\ IF u.panicked THEN u.mem = s.mem ELSE Stepped(s, u, index)
<1> DEFINE u == next_table(s, index)
           State == [mem : [Frame -> Content], free : SUBSET Frame, at : Frame, panicked : BOOLEAN]
<1>1. s \in State /\ s.at \in Frame /\ s.mem \in [Frame -> Content] /\ s.free \in SUBSET Frame
  BY DEF Walking
<1>2. PICK place : Tree(s.mem, s.free, spaces, place) /\ (~ s.panicked => place[s.at] = at)
  BY DEF Walking
<1>3. CASE s.panicked
  <2>1. u = s
    BY <1>3 DEF next_table
  <2>2. QED
    BY <1>1, <1>2, <1>3, <2>1 DEF Walking
<1>4. CASE ~ s.panicked /\ s.mem[s.at][index].present
  <2>1. u = [s EXCEPT !.at = s.mem[s.at][index].page]
    BY <1>4 DEF next_table
  <2>2. /\ s.mem[s.at][index].page \in Frame /\ ~ s.mem[s.at][index].ps
        /\ place[s.mem[s.at][index].page] = Below(at, index)
    BY <1>1, <1>2, <1>4 DEF Tree
  <2>3. /\ u \in State /\ u.mem = s.mem /\ u.free = s.free /\ ~ u.panicked
        /\ u.at = s.mem[s.at][index].page
    BY <1>1, <1>4, <2>1, <2>2
  <2>4. s.at \notin s.free
    BY <1>2, <1>4 DEF Tree
  <2>5. Keeps(s.mem, u.mem) /\ SameViews(s.mem, u.mem)
    BY <2>3 DEF Keeps, SameViews
  <2>6. Stepped(s, u, index)
    BY <1>4, <2>2, <2>3, <2>4, <2>5 DEF Stepped, Leads
  <2>7. QED
    BY <1>2, <2>2, <2>3, <2>6 DEF Walking
<1>5. CASE ~ s.panicked /\ ~ s.mem[s.at][index].present /\ s.free = {}
  <2>1. u = [s EXCEPT !.panicked = TRUE]
    BY <1>5 DEF next_table
  <2>2. u \in State /\ u.panicked /\ u.mem = s.mem /\ u.free = s.free
    BY <1>1, <2>1
  <2>3. QED
    BY <1>2, <2>2 DEF Walking
<1>6. CASE ~ s.panicked /\ ~ s.mem[s.at][index].present /\ s.free # {}
  <2> DEFINE f == CHOOSE f \in s.free : Lowest(f, s.free)
  <2>1. f \in s.free
    <3>1. s.free \in SUBSET Nat
      BY <1>1 DEF Frame
    <3>2. \E g \in s.free : Lowest(g, s.free)
      BY <1>6, <3>1, Least DEF Lowest
    <3>3. QED
      BY <3>2
  <2>2. u = [s EXCEPT !.mem[s.at][index] = To(f, "wu"), !.mem[f] = [e \in Index |-> Zero],
                      !.free = @ \ {f}, !.at = f]
    BY <1>6 DEF next_table
  <2> HIDE DEF f
  <2> DEFINE m == s.mem
             n == WithTable(m, s.at, index, f)
  <2>3. u = [mem |-> n, free |-> s.free \ {f}, at |-> f, panicked |-> FALSE]
    BY <1>1, <1>6, <2>2 DEF WithTable
  <2> HIDE DEF m
  <2>4. /\ spaces \in SUBSET Frame /\ place[s.at].level \in {2, 3, 4} /\ s.at \in Frame
        /\ m \in [Frame -> Content] /\ Tree(m, s.free, spaces, place) /\ s.free \in SUBSET Frame
        /\ ~ m[s.at][index].present
    BY <1>1, <1>2, <1>6 DEF TypeOK, m
  <2>5. Fits(n, m, s.free, spaces, place, s.at, index, f)
    BY <2>1, <2>4, NewTableKeepsTree
  <2> HIDE DEF n
  <2>6. u.mem = n /\ u.free = s.free \ {f} /\ u.at = f /\ ~ u.panicked /\ u \in State
    BY <1>1, <2>1, <2>3, <2>5 DEF Fits
  <2>7. Walking(u, Below(at, index))
    BY <1>2, <1>6, <2>5, <2>6 DEF Walking, Fits
  <2>8. Keeps(m, n)
    <3>1. SUFFICES ASSUME NEW root \in spaces, NEW v \in Asked, NEW p \in Nat, Maps(m, root, v, p)
                   PROVE  Maps(n, root, v, p)
      BY DEF Keeps
    <3>2. place[root].level = 4
      BY <2>4 DEF Tree
    <3>3. \A g \in Frame, e \in Index :
            m[g][e].present /\ (place[g].level \in {2, 3} \/ g = root) => n[g][e] = m[g][e]
      BY <2>5, <3>2 DEF Fits
    <3>4. \A g \in Frame :
            m[g][pt_index(v)].present /\ place[g] = PtOf(v) => n[g][pt_index(v)] = m[g][pt_index(v)]
      BY <2>5, AskedIndices DEF PtOf, Fits
    <3>5. QED
      BY <2>4, <3>1, <3>3, <3>4, MapsStays
  <2>9. /\ \A r \in Frame, a \in Address : place[r].level = 3 => View(n, r, a) = View(m, r, a)
        /\ \A a \in Address : View(n, f, a) = Unmapped
    <3>1. PICK fr \in SUBSET Frame : fr = s.free
      BY <2>4
    <3>2. PICK at0 \in Frame : at0 = s.at
      BY <2>4
    <3>3. /\ Tree(m, fr, spaces, place) /\ place[at0].level \in {2, 3, 4} /\ f \in fr
          /\ ~ m[at0][index].present /\ Fits(n, m, fr, spaces, place, at0, index, f)
      BY <2>1, <2>4, <2>5, <3>1, <3>2
    <3>4. MapsNothing(m, n, place, f)
      BY <3>3, NewTableShows
    <3>5. QED
      BY <3>4 DEF MapsNothing
  <2>10. \A r \in Reached(m) : r \in Frame /\ place[r].level = 3
    BY <2>4, ReachedLevel
  <2>11. SameViews(m, n)
    BY <2>9, <2>10 DEF SameViews
  <2>12. Leads(n, s.at, index, f)
    BY <2>5 DEF Fits, Leads, To
  <2>13. s.at \notin s.free
    BY <2>4 DEF Tree
  <2>14. \A g \in Frame \ s.free, e \in Index :
           g # s.at \/ e # index \/ m[g][e].present => n[g][e] = m[g][e]
    BY <2>1, <2>4, <2>5 DEF Fits
  <2>15. Stepped(s, u, index)
    BY <1>6, <2>1, <2>6, <2>8, <2>9, <2>11, <2>12, <2>13, <2>14 DEF Stepped, m
  <2>16. QED
    BY <2>6, <2>7, <2>15
<1>7. QED
  BY <1>3, <1>4, <1>5, <1>6

(* What is left when the walk for entry i of a root ends, or panics:       *)
(* no page was mapped or lost, and the root may have an empty region.      *)
Partly(root, i, n) ==
  /\ \A g \in spaces, e \in Index : g # root \/ e # i \/ mem[g][e].present => n[g][e] = mem[g][e]
  /\ SameViews(mem, n)
  /\ \/ n[root][i] = mem[root][i]
     \/ /\ ~ mem[root][i].present
        /\ \E r \in free : Leads(n, root, i, r) /\ \A a \in Address : View(n, r, a) = Unmapped

LEMMA PartlyGrows ==
  ASSUME NEW root \in spaces, NEW i \in Index, NEW s, NEW u, NEW index,
         Partly(root, i, s.mem), Stepped(s, u, index),
         spaces \in SUBSET Frame, s.at \notin spaces, spaces \cap s.free = {}, free \in SUBSET Frame
  PROVE  Partly(root, i, u.mem)
<1>1. \A g \in spaces, e \in Index : u.mem[g][e] = s.mem[g][e]
  BY DEF Stepped
<1>2. Reached(s.mem) = Reached(u.mem)
  BY <1>1 DEF Reached
<1>3. SameViews(s.mem, u.mem)
  BY DEF Stepped
<1>4. \A g \in spaces, e \in Index : mem[g][e].present => s.mem[g][e] = mem[g][e]
  BY DEF Partly
<1>5. Reached(mem) \subseteq Reached(s.mem)
  BY <1>4 DEF Reached
<1>6. SameViews(mem, u.mem)
  BY <1>3, <1>5 DEF SameViews, Partly
<1>7. ASSUME NEW r \in free, Leads(s.mem, root, i, r), \A a \in Address : View(s.mem, r, a) = Unmapped
      PROVE  Leads(u.mem, root, i, r) /\ \A a \in Address : View(u.mem, r, a) = Unmapped
  <2>1. r \in Reached(s.mem)
    BY <1>7 DEF Leads, Reached
  <2>2. QED
    BY <1>1, <1>3, <1>7, <2>1 DEF Leads, SameViews
<1>8. QED
  BY <1>1, <1>6, <1>7 DEF Partly

(* The tables that the walk has come through. *)
Through(m, root, virt, t) ==
  \E r, g \in Frame :
    /\ Leads(m, root, pml4_index(virt), r)
    /\ Leads(m, r, pdpt_index(virt), g)
    /\ Leads(m, g, pd_index(virt), t)

(* page_table, creating what there is not. *)
LEMMA TableFound ==
  ASSUME TypeOK, OnePlaceEach, NEW root \in spaces, NEW virt \in Virt
  PROVE  LET s == page_table(root, virt) IN
         /\ Walking(s, PtOf(virt))
         /\ Partly(root, pml4_index(virt), s.mem)
         /\ ~ s.panicked => Keeps(mem, s.mem) /\ Through(s.mem, root, virt, s.at)
<1> DEFINE s0 == [mem |-> mem, free |-> free, at |-> root, panicked |-> FALSE]
           s1 == next_table(s0, pml4_index(virt))
           s2 == next_table(s1, pdpt_index(virt))
           s3 == next_table(s2, pd_index(virt))
<1>1. /\ pml4_index(virt) \in Index /\ pdpt_index(virt) \in Index /\ pd_index(virt) \in Index
      /\ ~ (pml4_index(virt) = 0 /\ pdpt_index(virt) = 0)
  BY CallersKeepClear
<1>2. PICK place : Tree(mem, free, spaces, place)
  BY DEF OnePlaceEach
<1>3. PICK at4 \in Place : at4 = place[root] /\ at4.level = 4
  BY <1>2 DEF Tree, TypeOK
<1>4. PICK at3 \in Place : at3 = Below(at4, pml4_index(virt))
  BY <1>1, PlacesBelow
<1>5. PICK at2 \in Place : at2 = Below(at3, pdpt_index(virt))
  BY <1>1, PlacesBelow
<1>6. /\ at3.level = 3 /\ at3.a = pml4_index(virt)
      /\ at2.level = 2 /\ at2.a = pml4_index(virt) /\ at2.b = pdpt_index(virt)
      /\ Below(at2, pd_index(virt)) = PtOf(virt)
  BY <1>3, <1>4, <1>5 DEF Below, PtOf
<1>7. Walking(s0, at4)
  BY <1>2, <1>3 DEF Walking, TypeOK
<1>8. /\ s0.mem = mem /\ s0.free = free /\ s0.at = root /\ ~ s0.panicked
      /\ page_table(root, virt) = s3
  BY DEF page_table
<1> HIDE DEF s0, s1, s2, s3
<1>9. Walking(s1, at3) /\ IF s1.panicked THEN s1.mem = s0.mem ELSE Stepped(s0, s1, pml4_index(virt))
  BY <1>1, <1>3, <1>4, <1>7, StepDown DEF s1
<1>10. Walking(s2, at2) /\ IF s2.panicked THEN s2.mem = s1.mem ELSE Stepped(s1, s2, pdpt_index(virt))
  BY <1>1, <1>5, <1>6, <1>9, StepDown DEF s2
<1>11. Walking(s3, PtOf(virt)) /\ IF s3.panicked THEN s3.mem = s2.mem ELSE Stepped(s2, s3, pd_index(virt))
  BY <1>1, <1>6, <1>10, StepDown DEF s3
<1>12. ASSUME NEW s, NEW at, at.level \in {2, 3}, Walking(s, at), ~ s.panicked
       PROVE  /\ s.at \in Frame /\ s.at \notin s.free /\ s.at \notin spaces
              /\ spaces \cap s.free = {}
  BY <1>12 DEF Walking, Tree
<1>13. spaces \in SUBSET Frame /\ free \in SUBSET Frame
  BY DEF TypeOK
<1>14. Partly(root, pml4_index(virt), s1.mem)
  <2>1. CASE s1.panicked
    BY <1>8, <1>9, <2>1 DEF Partly, SameViews
  <2>2. CASE ~ s1.panicked
    <3>1. Stepped(s0, s1, pml4_index(virt))
      BY <1>9, <2>2
    <3>2. \A g \in spaces, e \in Index :
            g # root \/ e # pml4_index(virt) \/ mem[g][e].present => s1.mem[g][e] = mem[g][e]
      <4>1. spaces \cap free = {}
        BY <1>2 DEF Tree
      <4>2. QED
        BY <1>8, <1>13, <3>1, <4>1 DEF Stepped
    <3>3. QED
      BY <1>1, <1>8, <3>1, <3>2 DEF Partly, Stepped
  <2>3. QED
    BY <2>1, <2>2
<1>15. Partly(root, pml4_index(virt), s2.mem)
  <2>1. CASE s2.panicked
    BY <1>10, <1>14, <2>1
  <2>2. CASE ~ s2.panicked
    <3>1. Stepped(s1, s2, pdpt_index(virt)) /\ ~ s1.panicked
      BY <1>10, <2>2 DEF Stepped
    <3>2. s1.at \notin spaces /\ spaces \cap s1.free = {}
      BY <1>6, <1>9, <1>12, <3>1
    <3>3. QED
      BY <1>1, <1>13, <1>14, <3>1, <3>2, PartlyGrows
  <2>3. QED
    BY <2>1, <2>2
<1>16. Partly(root, pml4_index(virt), s3.mem)
  <2>1. CASE s3.panicked
    BY <1>11, <1>15, <2>1
  <2>2. CASE ~ s3.panicked
    <3>1. Stepped(s2, s3, pd_index(virt)) /\ ~ s2.panicked
      BY <1>11, <2>2 DEF Stepped
    <3>2. s2.at \notin spaces /\ spaces \cap s2.free = {}
      BY <1>6, <1>10, <1>12, <3>1
    <3>3. QED
      BY <1>1, <1>13, <1>15, <3>1, <3>2, PartlyGrows
  <2>3. QED
    BY <2>1, <2>2
<1>17. ASSUME ~ s3.panicked
       PROVE  Keeps(mem, s3.mem) /\ Through(s3.mem, root, virt, s3.at)
  <2>1. /\ Stepped(s0, s1, pml4_index(virt)) /\ Stepped(s1, s2, pdpt_index(virt))
        /\ Stepped(s2, s3, pd_index(virt)) /\ ~ s1.panicked /\ ~ s2.panicked
    BY <1>9, <1>10, <1>11, <1>17 DEF Stepped
  <2>2. Keeps(mem, s3.mem)
    BY <1>8, <2>1 DEF Stepped, Keeps
  <2>3. /\ s1.at \in Frame /\ s1.at \notin s1.free /\ s1.at \notin spaces
        /\ s2.at \in Frame /\ s2.at \notin spaces
        /\ spaces \cap s1.free = {} /\ spaces \cap s2.free = {}
    BY <1>6, <1>9, <1>10, <1>12, <2>1
  <2>4. /\ Leads(s1.mem, root, pml4_index(virt), s1.at)
        /\ Leads(s2.mem, s1.at, pdpt_index(virt), s2.at)
        /\ Leads(s3.mem, s2.at, pd_index(virt), s3.at)
    BY <1>8, <2>1 DEF Stepped
  <2>5. \A g \in spaces, e \in Index : s2.mem[g][e] = s1.mem[g][e] /\ s3.mem[g][e] = s2.mem[g][e]
    BY <1>13, <2>1, <2>3 DEF Stepped
  <2>6. Leads(s3.mem, root, pml4_index(virt), s1.at)
    BY <1>1, <2>4, <2>5 DEF Leads
  <2>7. s1.at \notin s2.free
    BY <2>1, <2>3 DEF Stepped
  <2>8. Leads(s3.mem, s1.at, pdpt_index(virt), s2.at)
    <3>1. s3.mem[s1.at][pdpt_index(virt)] = s2.mem[s1.at][pdpt_index(virt)]
      BY <1>1, <2>1, <2>3, <2>4, <2>7 DEF Stepped, Leads
    <3>2. QED
      BY <2>4, <3>1 DEF Leads
  <2>9. QED
    BY <2>2, <2>3, <2>4, <2>6, <2>8 DEF Through
<1>18. QED
  BY <1>8, <1>11, <1>16, <1>17

-----------------------------------------------------------------------------
LEMMA InitHolds == Init => IInv
<1> SUFFICES ASSUME Init PROVE IInv
  OBVIOUS
<1>1. /\ 0 \in Index /\ 0 \in Frame /\ 1 \in Frame /\ 2 \in Frame
      /\ ENTRIES \in Nat \ {0, 1} /\ IDENTITY = ENTRIES * ENTRIES
  BY Sizes
<1>2. \A e \in Index : ENTRIES * e \in Frame
  <2>1. SUFFICES ASSUME NEW e \in Index PROVE ENTRIES * e \in Frame
    OBVIOUS
  <2>2. e \in Nat /\ e < ENTRIES
    BY <1>1 DEF Index
  <2>3. ENTRIES * e + ENTRIES <= ENTRIES * ENTRIES
    BY <1>1, <2>2, Multiples
  <2>4. ENTRIES * e \in Nat /\ ENTRIES * ENTRIES \in Nat
    BY <1>1, <2>2
  <2>5. QED
    BY <1>1, <2>3, <2>4 DEF Frame
<1>3. \A f \in Frame, e \in Index : BootEntry(f, e) \in Entry
  <2>1. SUFFICES ASSUME NEW f \in Frame, NEW e \in Index
                 PROVE  BootEntry(f, e) \in Entry
    OBVIOUS
  <2>2. To(PdptTable, "wu") \in Entry /\ To(PdTable, "wu") \in Entry /\ Zero \in Entry
    BY <1>1, EntriesAre DEF PdptTable, PdTable
  <2>3. [To(ENTRIES * e, "wu") EXCEPT !.ps = TRUE] \in Entry
    BY <1>2 DEF To, Entry
  <2>4. Stale \in Entry
    BY <1>1 DEF Stale, Entry
  <2>5. QED
    BY <2>2, <2>3, <2>4 DEF BootEntry
<1>4. mem = [f \in Frame |-> [e \in Index |-> BootEntry(f, e)]]
  BY DEF Init
<1>5. mem \in [Frame -> Content]
  BY <1>3, <1>4 DEF Content
<1>6. free \subseteq Frame \ {0, 1, 2} /\ spaces = {0}
  BY Vmm64Assumption DEF Init, Pml4Table, PdptTable, PdTable
<1>7. TypeOK
  BY <1>1, <1>5, <1>6 DEF Init, TypeOK, Pml4Table
<1> DEFINE place == [f \in Frame |->
             IF f = 0 THEN Root
             ELSE IF f = 1 THEN [level |-> 3, a |-> 0, b |-> 0, c |-> 0]
             ELSE IF f = 2 THEN [level |-> 2, a |-> 0, b |-> 0, c |-> 0]
             ELSE Nowhere]
<1>8. Tree(mem, free, spaces, place)
  <2>1. place \in [Frame -> Place]
    BY <1>1 DEF Place, Root, Nowhere
  <2>2. \A f \in free : place[f].level = 0
    BY <1>6 DEF Nowhere
  <2>3. \A f \in spaces : place[f].level = 4
    BY <1>1, <1>6 DEF Root
  <2>4. ASSUME NEW f \in Frame, NEW e \in Index,
               place[f].level \in {2, 3, 4}, mem[f][e].present
        PROVE  \/ /\ ~ mem[f][e].ps /\ mem[f][e].page \in Frame
                  /\ place[mem[f][e].page] = Below(place[f], e)
               \/ /\ mem[f][e].ps
                  /\ place[f].level = 2 /\ place[f].a = 0 /\ place[f].b = 0
    <3>1. mem[f][e] = BootEntry(f, e)
      BY <1>4
    <3>2. CASE f = 0
      <4>1. BootEntry(f, e) = IF e = 0 THEN To(1, "wu") ELSE Zero
        BY <3>2 DEF BootEntry, Pml4Table, PdptTable, PdTable
      <4>2. e = 0 /\ ~ mem[f][e].ps /\ mem[f][e].page = 1
        BY <2>4, <3>1, <4>1 DEF To, Zero
      <4>3. QED
        BY <1>1, <3>2, <4>2 DEF Below, Root
    <3>3. CASE f = 1
      <4>1. BootEntry(f, e) = IF e = 0 THEN To(2, "wu") ELSE Zero
        BY <3>3 DEF BootEntry, Pml4Table, PdptTable, PdTable
      <4>2. e = 0 /\ ~ mem[f][e].ps /\ mem[f][e].page = 2
        BY <2>4, <3>1, <4>1 DEF To, Zero
      <4>3. QED
        BY <1>1, <3>3, <4>2 DEF Below
    <3>4. CASE f = 2
      <4>1. mem[f][e].ps
        BY <3>1, <3>4 DEF BootEntry, To, Pml4Table, PdptTable, PdTable
      <4>2. QED
        BY <1>1, <3>4, <4>1
    <3>5. CASE f \notin {0, 1, 2}
      BY <2>4, <3>5 DEF Nowhere
    <3>6. QED
      BY <3>2, <3>3, <3>4, <3>5
  <2>5. OneParentEach(mem, place)
    <3>1. SUFFICES ASSUME NEW f \in Frame, NEW g \in Frame, NEW d \in Index, NEW e \in Index,
                          place[f].level \in {2, 3}, mem[f][d].present, ~ mem[f][d].ps,
                          place[g].level \in {2, 3}, mem[g][e].present, ~ mem[g][e].ps
                   PROVE  f = g /\ d = e
      BY DEF OneParentEach
    <3>2. \A h \in Frame : place[h].level \in {2, 3} => h \in {1, 2}
      BY <1>1 DEF Root, Nowhere
    <3>3. \A j \in Index : BootEntry(2, j).ps /\ BootEntry(1, j) = IF j = 0 THEN To(2, "wu") ELSE Zero
      BY DEF BootEntry, To, Pml4Table, PdptTable, PdTable
    <3>4. ~ Zero.present
      BY DEF Zero
    <3>5. \A h \in Frame, j \in Index :
            place[h].level \in {2, 3} /\ mem[h][j].present /\ ~ mem[h][j].ps => h = 1 /\ j = 0
      BY <1>1, <1>4, <3>2, <3>3, <3>4
    <3> HIDE DEF place
    <3>6. QED
      BY <3>1, <3>5
  <2> HIDE DEF place
  <2>6. QED
    BY <2>1, <2>2, <2>3, <2>4, <2>5 DEF Tree
<1>9. TlbHolds
  BY DEF Init, TlbHolds
<1>10. QED
  BY <1>7, <1>8, <1>9 DEF IInv, OnePlaceEach

(* A root is filled with the entries of another one: one that is new, or   *)
(* one that is not current.                                                *)
LEMMA RootCopied ==
  ASSUME TypeOK, OnePlaceEach, TlbHolds,
         NEW from \in spaces, NEW to \in Frame, to \in free \/ to \in spaces, to # current_pd,
         mem' = [mem EXCEPT ![to] = mem[from]],
         free' = free \ {to}, spaces' = spaces \cup {to},
         UNCHANGED <<kernel_pd, current_pd, tlb>>, panicked' \in BOOLEAN
  PROVE  IInv'
<1>1. PICK place : Tree(mem, free, spaces, place)
  BY DEF OnePlaceEach
<1> DEFINE new == [place EXCEPT ![to] = Root]
<1>2. spaces \subseteq Frame /\ from \in Frame /\ place \in [Frame -> Place]
  BY <1>1 DEF TypeOK, Tree
<1>3. Root \in Place /\ Root.level = 4 /\ \A e \in Index : Below(Root, e) = [level |-> 3, a |-> e, b |-> 0, c |-> 0]
  BY Sizes DEF Root, Place, Below
<1>4. /\ new \in [Frame -> Place] /\ new[to] = Root
      /\ \A g \in Frame : g # to => new[g] = place[g]
  BY <1>2, <1>3
<1>5. /\ mem' \in [Frame -> Content] /\ mem'[to] = mem[from]
      /\ \A g \in Frame : g # to => mem'[g] = mem[g]
  BY <1>2 DEF TypeOK
<1>6. place[to].level \in {0, 4} /\ place[from].level = 4
  BY <1>1 DEF Tree
<1> HIDE DEF new
(* No entry leads to what was a root, or free. *)
<1>7. ASSUME NEW g \in Frame, NEW e \in Index, place[g].level \in {2, 3, 4}, mem[g][e].present
      PROVE  \/ /\ ~ mem[g][e].ps /\ mem[g][e].page \in Frame
                /\ new[mem[g][e].page] = Below(place[g], e)
             \/ /\ mem[g][e].ps
                /\ place[g].level = 2 /\ place[g].a = 0 /\ place[g].b = 0
  <2>1. \/ /\ ~ mem[g][e].ps /\ mem[g][e].page \in Frame
           /\ place[mem[g][e].page] = Below(place[g], e)
        \/ /\ mem[g][e].ps
           /\ place[g].level = 2 /\ place[g].a = 0 /\ place[g].b = 0
    BY <1>1, <1>7 DEF Tree
  <2>2. Below(place[g], e).level \notin {0, 4}
    BY DEF Below
  <2>3. QED
    BY <1>4, <1>6, <2>1, <2>2
<1>8. Tree(mem', free', spaces', new)
  <2>1. \A f \in free' : new[f].level = 0
    BY <1>1, <1>4 DEF Tree, TypeOK
  <2>2. \A f \in spaces' : new[f].level = 4
    BY <1>1, <1>2, <1>3, <1>4 DEF Tree
  <2>3. ASSUME NEW f \in Frame, NEW e \in Index, new[f].level \in {2, 3, 4}, mem'[f][e].present
        PROVE  \/ /\ ~ mem'[f][e].ps /\ mem'[f][e].page \in Frame
                  /\ new[mem'[f][e].page] = Below(new[f], e)
               \/ /\ mem'[f][e].ps
                  /\ new[f].level = 2 /\ new[f].a = 0 /\ new[f].b = 0
    <3>1. CASE f # to
      BY <1>4, <1>5, <1>7, <2>3, <3>1
    <3>2. CASE f = to
      <4>1. mem'[f][e] = mem[from][e] /\ mem[from][e].present
        BY <1>5, <2>3, <3>2
      <4>2. Below(place[from], e) = Below(Root, e)
        BY <1>3, <1>6 DEF Below
      <4>3. ~ mem[from][e].ps /\ mem[from][e].page \in Frame
            /\ new[mem[from][e].page] = Below(place[from], e)
        BY <1>2, <1>6, <1>7, <4>1
      <4>4. QED
        BY <1>4, <3>2, <4>1, <4>2, <4>3
    <3>3. QED
      BY <3>1, <3>2
  <2>4. PICK n : n = mem'
    OBVIOUS
  <2>5. \A g \in Frame : new[g].level \in {2, 3} => place[g].level \in {2, 3} /\ n[g] = mem[g]
    BY <1>3, <1>4, <1>5, <2>4
  <2>6. OneParentEach(n, new)
    BY <1>1, <2>5 DEF Tree, OneParentEach
  <2>7. QED
    BY <1>4, <2>1, <2>2, <2>3, <2>4, <2>6 DEF Tree
<1>9. TlbHolds'
  <2>1. SUFFICES ASSUME NEW t \in tlb PROVE Maps(mem', current_pd, t.virt, t.page)
    BY DEF TlbHolds
  <2>2. Maps(mem, current_pd, t.virt, t.page) /\ t.virt \in Asked /\ current_pd \in spaces
          /\ spaces \in SUBSET Frame
    BY DEF TlbHolds, TypeOK
  <2>3. PICK n : n = mem'
    OBVIOUS
  <2>4. \A f \in Frame, e \in Index :
          mem[f][e].present /\ (place[f].level \in {2, 3} \/ f = current_pd) => n[f][e] = mem[f][e]
    BY <1>5, <1>6, <2>3
  <2>5. \A f \in Frame : mem[f][pt_index(t.virt)].present /\ place[f] = PtOf(t.virt) =>
          n[f][pt_index(t.virt)] = mem[f][pt_index(t.virt)]
    BY <1>5, <1>6, <2>3 DEF PtOf
  <2>6. Maps(n, current_pd, t.virt, t.page)
    BY <1>1, <2>2, <2>4, <2>5, MapsStays
  <2>7. QED
    BY <2>3, <2>6
<1>10. TypeOK'
  BY <1>5 DEF TypeOK
<1>11. QED
  BY <1>8, <1>9, <1>10 DEF IInv, OnePlaceEach

LEMMA MapHolds ==
  ASSUME IInv, NEW root \in spaces, NEW virt \in Virt, NEW phys \in Phys, NEW flags \in Flags,
         vmm_map_page(root, virt, phys, flags)
  PROVE  IInv'
<1> DEFINE s == page_table(root, virt)
           n == [s.mem EXCEPT ![s.at] = [s.mem[s.at] EXCEPT ![pt_index(virt)] = To(phys, flags)]]
<1>1. /\ ~ panicked /\ TypeOK /\ OnePlaceEach /\ TlbHolds
      /\ UNCHANGED <<kernel_pd, current_pd, spaces>>
      /\ free' = s.free /\ panicked' = s.panicked
  BY DEF vmm_map_page, IInv
<1>2. Walking(s, PtOf(virt)) /\ (~ s.panicked => Keeps(mem, s.mem))
  BY <1>1, TableFound
<1>3. \/ s.panicked /\ mem' = s.mem /\ UNCHANGED tlb
      \/ ~ s.panicked /\ mem' = n /\ tlb' = {t \in tlb : t.virt # virt}
  BY DEF vmm_map_page, invlpg
<1> HIDE DEF s
<1>4. /\ s.mem \in [Frame -> Content] /\ s.free \in SUBSET Frame /\ s.at \in Frame
      /\ s.panicked \in BOOLEAN
  BY <1>2 DEF Walking
<1>5. CASE s.panicked
  <2>1. TypeOK'
    BY <1>1, <1>3, <1>4, <1>5 DEF TypeOK
  <2>2. QED
    BY <1>1, <1>5, <2>1 DEF IInv
<1>6. CASE ~ s.panicked
  <2>1. PICK place : Tree(s.mem, s.free, spaces, place) /\ place[s.at] = PtOf(virt)
    BY <1>2, <1>6 DEF Walking
  <2>2. To(phys, flags) \in Entry /\ pt_index(virt) \in Index
    BY EntriesAre, CallersKeepClear
  <2>3. /\ n \in [Frame -> Content]
        /\ \A f \in Frame : f # s.at => n[f] = s.mem[f]
        /\ \A e \in Index : e # pt_index(virt) => n[s.at][e] = s.mem[s.at][e]
    <3>1. [s.mem[s.at] EXCEPT ![pt_index(virt)] = To(phys, flags)] \in Content
      BY <1>4, <2>2 DEF Content
    <3>2. s.mem[s.at] \in [Index -> Entry]
      BY <1>4 DEF Content
    <3>3. QED
      BY <1>4, <3>1, <3>2
  <2> HIDE DEF n
  <2>4. place[s.at].level = 1
    BY <2>1 DEF PtOf
  <2>5. Tree(n, s.free, spaces, place)
    <3>1. OneParentEach(n, place)
      BY <2>1, <2>3, <2>4 DEF Tree, OneParentEach
    <3>2. QED
      BY <2>1, <2>3, <2>4, <3>1 DEF Tree
  <2>6. ASSUME NEW t \in tlb'
        PROVE  Maps(n, current_pd, t.virt, t.page)
    <3>1. t \in tlb /\ t.virt # virt
      BY <1>3, <1>6
    <3>2. /\ t.virt \in Asked /\ t.page \in Nat /\ current_pd \in spaces
          /\ spaces \in SUBSET Frame
      BY <1>1, <3>1 DEF TypeOK
    <3>3. Maps(s.mem, current_pd, t.virt, t.page)
      BY <1>1, <1>2, <1>6, <3>1, <3>2 DEF TlbHolds, Keeps
    <3>4. place[current_pd].level = 4
      BY <2>1, <3>2 DEF Tree
    <3>5. \A f \in Frame, e \in Index :
            s.mem[f][e].present /\ (place[f].level \in {2, 3} \/ f = current_pd) => n[f][e] = s.mem[f][e]
      BY <2>3, <2>4, <3>4
    <3>6. ASSUME NEW f \in Frame, place[f] = PtOf(t.virt)
          PROVE  n[f][pt_index(t.virt)] = s.mem[f][pt_index(t.virt)]
      <4>1. CASE f # s.at
        BY <2>3, <4>1
      <4>2. CASE f = s.at
        <5>1. PtOf(t.virt) = PtOf(virt)
          BY <2>1, <3>6, <4>2
        <5>2. /\ pml4_index(t.virt) = pml4_index(virt) /\ pdpt_index(t.virt) = pdpt_index(virt)
              /\ pd_index(t.virt) = pd_index(virt)
          BY <5>1 DEF PtOf
        <5>3. pt_index(t.virt) # pt_index(virt)
          BY <3>1, <3>2, <5>2, IndicesTell, AskedIndices, CallersKeepClear
        <5>4. QED
          BY <2>3, <3>2, <4>2, <5>3, AskedIndices
      <4>3. QED
        BY <4>1, <4>2
    <3>7. QED
      BY <2>1, <3>2, <3>3, <3>5, <3>6, MapsStays
  <2>7. TypeOK'
    BY <1>1, <1>3, <1>4, <1>6, <2>3 DEF TypeOK
  <2>8. TlbHolds'
    BY <1>1, <1>3, <1>6, <2>6 DEF TlbHolds
  <2>9. OnePlaceEach'
    BY <1>1, <1>3, <1>6, <2>5 DEF OnePlaceEach
  <2>10. QED
    BY <2>7, <2>8, <2>9 DEF IInv
<1>7. QED
  BY <1>5, <1>6

LEMMA UnmapHolds ==
  ASSUME IInv, NEW root \in spaces, NEW virt \in Virt, vmm_unmap_page(root, virt)
  PROVE  IInv'
<1> DEFINE pde == E2(mem, root, virt)
           t   == pde.page
<1>1. /\ ~ panicked /\ TypeOK /\ OnePlaceEach /\ TlbHolds
      /\ UNCHANGED <<kernel_pd, current_pd, spaces, free, panicked>>
      /\ tlb' = {e \in tlb : e.virt # virt}
  BY DEF vmm_unmap_page, IInv, invlpg
<1>2. Led(mem, root, virt) /\ mem' = [mem EXCEPT ![t] = [mem[t] EXCEPT ![pt_index(virt)] = Zero]]
  BY WalkIs DEF vmm_unmap_page, Led
<1>3. PICK place : Tree(mem, free, spaces, place)
  BY <1>1 DEF OnePlaceEach
<1>4. virt \in Asked /\ spaces \in SUBSET Frame
  BY <1>1 DEF Asked, TypeOK
<1>5. t \in Frame /\ place[t] = PtOf(virt)
  <2>1. /\ ~ pde.ps => t \in Frame /\ place[t] = PtOf(virt)
        /\ pde.ps => pml4_index(virt) = 0 /\ pdpt_index(virt) = 0
    <3>1. InPlace(mem, place, root, virt)
      BY <1>2, <1>3, <1>4, TreeWalk
    <3>2. QED
      BY <3>1 DEF InPlace
  <2>2. ~ (pml4_index(virt) = 0 /\ pdpt_index(virt) = 0)
    BY CallersKeepClear
  <2>3. QED
    BY <2>1, <2>2
<1>6. pt_index(virt) \in Index /\ Zero \in Entry
  BY CallersKeepClear, EntriesAre
<1> HIDE DEF pde, t
<1>7. PICK n : n = mem'
  OBVIOUS
<1>8. /\ n \in [Frame -> Content]
      /\ \A f \in Frame : f # t => n[f] = mem[f]
      /\ \A e \in Index : e # pt_index(virt) => n[t][e] = mem[t][e]
  <2>1. mem[t] \in [Index -> Entry] /\ mem \in [Frame -> Content]
    BY <1>1, <1>5 DEF TypeOK, Content
  <2>2. [mem[t] EXCEPT ![pt_index(virt)] = Zero] \in Content
    BY <1>6, <2>1 DEF Content
  <2>3. QED
    BY <1>2, <1>5, <1>7, <2>1, <2>2
<1>9. place[t].level = 1
  BY <1>5 DEF PtOf
<1>10. Tree(n, free, spaces, place)
  <2>1. OneParentEach(n, place)
    BY <1>3, <1>8, <1>9 DEF Tree, OneParentEach
  <2>2. QED
    BY <1>3, <1>8, <1>9, <2>1 DEF Tree
<1>11. ASSUME NEW e \in tlb'
       PROVE  Maps(n, current_pd, e.virt, e.page)
  <2>1. e \in tlb /\ e.virt # virt
    BY <1>1
  <2>2. e.virt \in Asked /\ current_pd \in spaces /\ Maps(mem, current_pd, e.virt, e.page)
    BY <1>1, <2>1 DEF TypeOK, TlbHolds
  <2>3. place[current_pd].level = 4
    BY <1>3, <2>2 DEF Tree
  <2>4. \A f \in Frame, j \in Index :
          mem[f][j].present /\ (place[f].level \in {2, 3} \/ f = current_pd) => n[f][j] = mem[f][j]
    BY <1>8, <1>9, <2>3
  <2>5. ASSUME NEW f \in Frame, place[f] = PtOf(e.virt)
        PROVE  n[f][pt_index(e.virt)] = mem[f][pt_index(e.virt)]
    <3>1. CASE f # t
      BY <1>8, <3>1
    <3>2. CASE f = t
      <4>1. PtOf(e.virt) = PtOf(virt)
        BY <1>5, <2>5, <3>2
      <4>2. /\ pml4_index(e.virt) = pml4_index(virt) /\ pdpt_index(e.virt) = pdpt_index(virt)
            /\ pd_index(e.virt) = pd_index(virt)
        BY <4>1 DEF PtOf
      <4>3. pt_index(e.virt) # pt_index(virt)
        BY <1>4, <2>1, <2>2, <4>2, IndicesTell, AskedIndices
      <4>4. QED
        BY <1>8, <2>2, <3>2, <4>3, AskedIndices
    <3>3. QED
      BY <3>1, <3>2
  <2>6. QED
    BY <1>3, <1>4, <2>2, <2>4, <2>5, MapsStays
<1>12. TypeOK'
  BY <1>1, <1>7, <1>8 DEF TypeOK
<1>13. TlbHolds'
  BY <1>1, <1>7, <1>11 DEF TlbHolds
<1>14. OnePlaceEach'
  BY <1>1, <1>7, <1>10 DEF OnePlaceEach
<1>15. QED
  BY <1>12, <1>13, <1>14 DEF IInv

LEMMA FillHolds ==
  ASSUME IInv, NEW virt \in Virt \cup {0}, tlb_fill(virt)
  PROVE  IInv'
<1>1. /\ ~ panicked /\ TypeOK /\ OnePlaceEach
      /\ UNCHANGED <<mem, free, kernel_pd, current_pd, panicked, spaces>>
      /\ tlb' = {[virt |-> virt, page |-> p] : p \in Translations(current_pd, virt)}
  BY DEF tlb_fill, IInv
<1>2. PICK place : Tree(mem, free, spaces, place)
  BY <1>1 DEF OnePlaceEach
<1>3. /\ virt \in Asked /\ virt \in Nat /\ pt_index(virt) \in Nat
      /\ pd_index(virt) \in Index /\ pt_index(virt) \in Index
  BY AskedIndices, Sizes DEF Asked, Index
<1>4. ASSUME NEW p \in Translations(current_pd, virt)
      PROVE  p \in Nat /\ Maps(mem, current_pd, virt, p)
  <2>1. Maps(mem, current_pd, virt, p)
    BY TranslationsAre
  <2>2. /\ E3(mem, current_pd, virt).page \in Frame
        /\ ~ E2(mem, current_pd, virt).ps => E2(mem, current_pd, virt).page \in Frame
    <3>1. InPlace(mem, place, current_pd, virt)
      BY <1>1, <1>2, <1>3, <2>1, TreeWalk DEF Maps, TypeOK
    <3>2. QED
      BY <3>1 DEF InPlace
  <2>3. E2(mem, current_pd, virt) \in Entry
    BY <1>1, <1>3, <2>2 DEF E2, TypeOK, Content
  <2>4. ~ E2(mem, current_pd, virt).ps => E1(mem, current_pd, virt) \in Entry
    BY <1>1, <1>3, <2>2 DEF E1, TypeOK, Content
  <2>5. \A e \in Entry : e.page \in Nat
    <3>1. Frame \cup Phys \subseteq Nat
      BY Vmm64Assumption, Sizes DEF Frame
    <3>2. QED
      BY <3>1 DEF Entry
  <2>6. p \in Nat
    BY <1>3, <2>1, <2>3, <2>4, <2>5 DEF Maps
  <2>7. QED
    BY <2>1, <2>6
<1>5. TypeOK'
  BY <1>1, <1>3, <1>4 DEF TypeOK
<1>6. TlbHolds'
  BY <1>1, <1>4 DEF TlbHolds
<1>7. OnePlaceEach'
  BY <1>1 DEF OnePlaceEach
<1>8. QED
  BY <1>5, <1>6, <1>7 DEF IInv

LEMMA NextHolds ==
  ASSUME IInv, [Next]_vars
  PROVE  IInv'
<1>1. CASE vmm_create_address_space
  <2>1. /\ ~ panicked /\ TypeOK /\ OnePlaceEach /\ TlbHolds
        /\ UNCHANGED <<kernel_pd, current_pd, tlb>>
    BY <1>1 DEF vmm_create_address_space, IInv
  <2>2. CASE \E f \in Frame :
               /\ Lowest(f, free)
               /\ free' = free \ {f}
               /\ mem' = [mem EXCEPT ![f] = mem[kernel_pd]]
               /\ spaces' = spaces \cup {f}
               /\ UNCHANGED panicked
    <3>1. PICK f \in Frame : /\ Lowest(f, free)
                             /\ free' = free \ {f}
                             /\ mem' = [mem EXCEPT ![f] = mem[kernel_pd]]
                             /\ spaces' = spaces \cup {f}
                             /\ UNCHANGED panicked
      BY <2>2
    <3>2. f \in free /\ kernel_pd \in spaces /\ panicked' \in BOOLEAN
      BY <2>1, <3>1 DEF Lowest, TypeOK
    <3>3. f # current_pd
      BY <2>1, <3>2 DEF OnePlaceEach, Tree, TypeOK
    <3>4. QED
      BY <2>1, <3>1, <3>2, <3>3, RootCopied
  <2>3. CASE free = {} /\ panicked' = TRUE /\ UNCHANGED <<mem, free, spaces>>
    BY <2>1, <2>3 DEF IInv, TypeOK
  <2>4. QED
    BY <1>1, <2>2, <2>3 DEF vmm_create_address_space
<1>2. CASE \E root \in spaces : vmm_switch_to(root)
  <2>1. /\ ~ panicked /\ UNCHANGED <<mem, free, kernel_pd, panicked, spaces>>
        /\ current_pd' \in spaces /\ tlb' = {}
    BY <1>2 DEF vmm_switch_to
  <2>2. QED
    BY <2>1 DEF IInv, TypeOK, OnePlaceEach, TlbHolds
<1>3. CASE \E root \in spaces, virt \in Virt, phys \in Phys, flags \in Flags :
             vmm_map_page(root, virt, phys, flags)
  BY <1>3, MapHolds
<1>4. CASE \E root \in spaces, virt \in Virt : vmm_unmap_page(root, virt)
  BY <1>4, UnmapHolds
<1>5. CASE \E source \in spaces, destination \in spaces \ {current_pd} :
             vmm_clone_address_space(source, destination)
  <2>1. PICK source \in spaces, destination \in spaces \ {current_pd} :
          vmm_clone_address_space(source, destination)
    BY <1>5
  <2>2. /\ ~ panicked /\ TypeOK /\ OnePlaceEach /\ TlbHolds
        /\ mem' = [mem EXCEPT ![destination] = mem[source]]
        /\ UNCHANGED <<free, kernel_pd, current_pd, tlb, panicked, spaces>>
    BY <2>1 DEF vmm_clone_address_space, IInv
  <2>3. destination \in Frame /\ destination \notin free
    BY <2>2 DEF OnePlaceEach, Tree, TypeOK
  <2>4. /\ free' = free \ {destination} /\ spaces' = spaces \cup {destination}
        /\ panicked' \in BOOLEAN
    BY <2>2, <2>3 DEF TypeOK
  <2>5. QED
    BY <2>1, <2>2, <2>3, <2>4, RootCopied
<1>6. CASE \E virt \in Virt \cup {0} : tlb_fill(virt)
  BY <1>6, FillHolds
<1>7. CASE UNCHANGED vars
  BY <1>7 DEF vars, IInv, TypeOK, OnePlaceEach, TlbHolds
<1>8. QED
  BY <1>1, <1>2, <1>3, <1>4, <1>5, <1>6, <1>7 DEF Next, halted

(* The inductive invariant. *)
THEOREM Inductive == Spec => []IInv
<1>1. Init => IInv
  BY InitHolds
<1>2. IInv /\ [Next]_vars => IInv'
  BY NextHolds
<1>3. QED
  BY <1>1, <1>2, PTL DEF Spec

(* vmm.c, its invlpg and cr3 writes: the processor never translates an     *)
(* address otherwise than the tables under cr3 do.                         *)
THEOREM TlbStaysCurrent == Spec => []TlbIsCurrent
<1>1. IInv => TlbIsCurrent
  <2>1. SUFFICES ASSUME IInv, ~ panicked, NEW t \in tlb
                 PROVE  t.page = vmm_get_phys_addr(current_pd, t.virt)
    BY DEF TlbIsCurrent
  <2>2. Maps(mem, current_pd, t.virt, t.page)
    BY <2>1 DEF IInv, TlbHolds
  <2>3. Translations(current_pd, t.virt) = {t.page}
    BY <2>2, TranslationsAre
  <2>4. QED
    BY <2>3 DEF vmm_get_phys_addr
<1>2. QED
  BY <1>1, Inductive, PTL
-----------------------------------------------------------------------------
(* The refinement.  What SharedSpaces calls pages are views.               *)
LEMMA PagesAreViews ==
  /\ Pages = [r \in Reached(mem) |-> [a \in Address |-> View(mem, r, a)]]
  /\ Pages' = [r \in Reached(mem)' |-> [a \in Address |-> View(mem', r, a)]]
<1>1. Pages = [r \in Reached(mem) |-> [a \in Address |-> View(mem, r, a)]]
  BY ViewIs DEF Pages
<1>2. PICK n : n = mem'
  OBVIOUS
<1>3. [r \in Reached(mem)' |->
         [a \in Address |->
            IF Mapped(n, r, a) = {} THEN Unmapped ELSE CHOOSE e \in Mapped(n, r, a) : TRUE]]
        = [r \in Reached(mem)' |-> [a \in Address |-> View(n, r, a)]]
  BY ViewIs
<1>4. QED
  BY <1>1, <1>2, <1>3 DEF Pages

LEMMA ReachedNext ==
  Reached(mem)' = {r \in Frame : \E s \in spaces', i \in Index : mem'[s][i].present /\ mem'[s][i].page = r}
BY DEF Reached

(* Addresses that boot.s maps lie in the first of a region's pds. *)
LEMMA HeldIsFirst ==
  ASSUME NEW a \in Address
  PROVE  a \in Frame <=> a \div IDENTITY = 0
<1>1. PICK d \in Nat \ {0} : d = IDENTITY
  BY Sizes
<1>2. a \in Nat
  BY AddressIndices
<1>3. PICK q \in Nat, k \in Nat : q = a \div d /\ k < d /\ a = d * q + k
  <2>1. a \div d \in Nat /\ a % d \in 0 .. d - 1 /\ a % d \in Nat /\ a = d * (a \div d) + (a % d)
    BY <1>2, Divides
  <2>2. QED
    BY <2>1
<1>4. q = 0 => a < d
  <2>1. d * 0 = 0
    BY <1>1
  <2>2. QED
    BY <1>3, <2>1
<1>5. q # 0 => ~ (a < d)
  <2>1. SUFFICES ASSUME q # 0, a < d PROVE FALSE
    OBVIOUS
  <2>2. d * q + k < d * 1
    BY <1>3, <2>1
  <2>3. q < 1
    BY <1>3, <2>2, Smaller
  <2>4. QED
    BY <2>1, <2>3
<1>6. QED
  BY <1>1, <1>2, <1>3, <1>4, <1>5 DEF Frame

LEMMA SharedInit == Init => Shared!Init
<1> SUFFICES ASSUME Init PROVE Shared!Init
  OBVIOUS
<1>1. /\ 0 \in Index /\ 0 \in Frame /\ 1 \in Frame /\ 2 \in Frame
      /\ ENTRIES \in Nat \ {0, 1} /\ IDENTITY = ENTRIES * ENTRIES
  BY Sizes
<1>2. mem = [f \in Frame |-> [e \in Index |-> BootEntry(f, e)]] /\ spaces = {0} /\ ~ panicked
  BY DEF Init, Pml4Table
<1>3. \A e \in Index :
        /\ BootEntry(0, e) = IF e = 0 THEN To(1, "wu") ELSE Zero
        /\ BootEntry(1, e) = IF e = 0 THEN To(2, "wu") ELSE Zero
        /\ BootEntry(2, e) = [To(ENTRIES * e, "wu") EXCEPT !.ps = TRUE]
  BY DEF BootEntry, Pml4Table, PdptTable, PdTable
<1>4. \A e \in Index :
        /\ mem[0][e].present <=> e = 0
        /\ mem[1][e].present <=> e = 0
        /\ mem[0][0].page = 1
        /\ mem[1][0].page = 2 /\ ~ mem[1][0].ps
        /\ mem[2][e].present /\ mem[2][e].ps /\ mem[2][e].page = ENTRIES * e /\ mem[2][e].flags = "wu"
  <2>1. \A e \in Index :
          mem[0][e] = BootEntry(0, e) /\ mem[1][e] = BootEntry(1, e) /\ mem[2][e] = BootEntry(2, e)
    BY <1>1, <1>2
  <2>2. /\ ~ Zero.present
        /\ \A p : /\ To(p, "wu").present /\ ~ To(p, "wu").ps /\ To(p, "wu").page = p
    BY DEF Zero, To
  <2>3. \A p : LET e == [To(p, "wu") EXCEPT !.ps = TRUE] IN
               e.present /\ e.ps /\ e.page = p /\ e.flags = "wu"
    BY DEF To
  <2>4. SUFFICES ASSUME NEW e \in Index
                 PROVE  /\ mem[0][e].present <=> e = 0
                        /\ mem[1][e].present <=> e = 0
                        /\ mem[0][0].page = 1
                        /\ mem[1][0].page = 2 /\ ~ mem[1][0].ps
                        /\ mem[2][e].present /\ mem[2][e].ps /\ mem[2][e].page = ENTRIES * e
                        /\ mem[2][e].flags = "wu"
    OBVIOUS
  <2>5. /\ mem[0][e].present <=> e = 0
        /\ mem[1][e].present <=> e = 0
    BY <1>3, <2>1, <2>2
  <2>6. mem[0][0] = To(1, "wu") /\ mem[1][0] = To(2, "wu")
    BY <1>1, <1>3, <2>1
  <2>7. mem[2][e] = [To(ENTRIES * e, "wu") EXCEPT !.ps = TRUE]
    BY <1>3, <2>1
  <2>8. QED
    BY <2>2, <2>3, <2>5, <2>6, <2>7
<1>5. Regions = [t \in {0} |-> [i \in Index |-> IF i = 0 THEN 1 ELSE NULL]]
  BY <1>1, <1>2, <1>4 DEF Regions
<1>6. Reached(mem) = {1}
  BY <1>1, <1>2, <1>4 DEF Reached
<1>7. ASSUME NEW a \in Address
      PROVE  View(mem, 1, a) = Identity[a]
  <2>1. a \div IDENTITY \in Index /\ pd_index(a) \in Index /\ pt_index(a) \in Index
    BY AddressIndices
  <2>2. CASE a \div IDENTITY = 0
    <3>1. AtPdpt(mem, 1, a) = mem[1][0]
      BY <2>2 DEF AtPdpt
    <3>2. AtPd(mem, 1, a) = mem[2][pd_index(a)]
      BY <1>1, <1>4, <3>1 DEF AtPd
    <3>3. View(mem, 1, a) = [page |-> ENTRIES * pd_index(a) + pt_index(a), flags |-> "wu"]
      BY <1>1, <1>4, <2>1, <3>1, <3>2 DEF View
    <3>4. ENTRIES * pd_index(a) + pt_index(a) = a
      <4>1. a = ENTRIES * (ENTRIES * 0 + pd_index(a)) + pt_index(a)
        BY <2>2, AddressIndices
      <4>2. ENTRIES * 0 = 0 /\ pd_index(a) \in Nat
        BY <1>1, <2>1 DEF Index
      <4>3. QED
        BY <4>1, <4>2
    <3>5. Identity[a] = [page |-> a, flags |-> "wu"]
      BY <2>2, HeldIsFirst DEF Identity
    <3>6. QED
      BY <3>3, <3>4, <3>5
  <2>3. CASE a \div IDENTITY # 0
    <3>1. View(mem, 1, a) = Unmapped
      BY <1>4, <2>1, <2>3 DEF View, AtPdpt
    <3>2. QED
      BY <2>3, <3>1, HeldIsFirst DEF Identity
  <2>4. QED
    BY <2>2, <2>3
<1>8. Pages = [t \in {1} |-> Identity]
  <2>1. [a \in Address |-> View(mem, 1, a)] = Identity
    BY <1>7 DEF Identity
  <2>2. QED
    BY <1>6, <2>1, PagesAreViews
<1>9. QED
  BY <1>1, <1>2, <1>5, <1>8 DEF Shared!Init

(* Roots are read and written, and no other table: regions stay.           *)
LEMMA RootCopyShows ==
  ASSUME TypeOK, NEW place, Tree(mem, free, spaces, place),
         NEW from \in spaces, NEW to \in Frame, to \in free \/ to \in spaces,
         NEW n, n = [mem EXCEPT ![to] = mem[from]]
  PROVE  SameViews(mem, n)
<1>1. \A r \in Reached(mem) : r \in Frame /\ place[r].level = 3
  BY ReachedLevel DEF TypeOK
<1>2. place[to].level \in {0, 4}
  BY DEF Tree
<1>3. \A f \in Frame, e \in Index : place[f].level \in {1, 2, 3} => n[f][e] = mem[f][e]
  BY <1>2 DEF TypeOK
<1>4. SUFFICES ASSUME NEW r \in Reached(mem), NEW a \in Address
               PROVE  View(n, r, a) = View(mem, r, a)
  BY DEF SameViews
<1>5. r \in Frame /\ place[r].level = 3
  BY <1>1
<1>6. SameTables(mem, n, place)
  BY <1>3 DEF SameTables
<1>7. QED
  BY <1>4, <1>5, <1>6, ViewStays

LEMMA CreateRefines ==
  ASSUME IInv, vmm_create_address_space
  PROVE  (\E s \in Frame : Shared!Create(s)) \/ Shared!Fail
<1>1. /\ ~ panicked /\ TypeOK /\ OnePlaceEach /\ spaces \in SUBSET Frame
      /\ kernel_pd \in spaces
  BY DEF vmm_create_address_space, IInv, TypeOK
<1>2. ASSUME NEW f \in Frame, Lowest(f, free),
             mem' = [mem EXCEPT ![f] = mem[kernel_pd]],
             spaces' = spaces \cup {f}, UNCHANGED panicked
      PROVE  Shared!Create(f)
  <2>1. PICK place : Tree(mem, free, spaces, place)
    BY <1>1 DEF OnePlaceEach
  <2>2. f \in free /\ f \notin spaces
    BY <1>1, <1>2, <2>1 DEF Lowest, Tree
  <2>3. PICK n : n = mem'
    OBVIOUS
  <2>4. /\ n[f] = mem[kernel_pd]
        /\ \A g \in spaces : n[g] = mem[g]
    BY <1>1, <1>2, <2>2, <2>3 DEF TypeOK
  <2>5. Regions' = [t \in spaces \cup {f} |-> IF t = f THEN Regions[kernel_pd] ELSE Regions[t]]
    <3>1. Regions' = [t \in spaces \cup {f} |->
                        [i \in Index |-> IF n[t][i].present THEN n[t][i].page ELSE NULL]]
      BY <1>2, <2>3 DEF Regions
    <3>2. \A t \in spaces : Regions[t] =
            [i \in Index |-> IF mem[t][i].present THEN mem[t][i].page ELSE NULL]
      BY DEF Regions
    <3>3. ASSUME NEW t \in spaces \cup {f}
          PROVE  [i \in Index |-> IF n[t][i].present THEN n[t][i].page ELSE NULL]
                   = IF t = f THEN Regions[kernel_pd] ELSE Regions[t]
      BY <1>1, <2>2, <2>4, <3>2
    <3>4. QED
      BY <3>1, <3>3
  <2>6. Reached(mem)' = Reached(mem)
    BY <1>1, <1>2, <2>3, <2>4, ReachedNext DEF Reached
  <2>7. SameViews(mem, n)
    BY <1>1, <1>2, <2>1, <2>2, <2>3, RootCopyShows
  <2>8. Pages' = Pages
    BY <2>3, <2>6, <2>7, PagesAreViews DEF SameViews
  <2>9. DOMAIN Regions = spaces
    BY DEF Regions
  <2>10. QED
    BY <1>1, <1>2, <2>2, <2>5, <2>8, <2>9 DEF Shared!Create
<1>3. ASSUME panicked' = TRUE, UNCHANGED <<mem, free, spaces>>
      PROVE  Shared!Fail
  BY <1>3 DEF Shared!Fail, Regions, Pages, Reached
<1>4. QED
  BY <1>2, <1>3 DEF vmm_create_address_space

LEMMA CloneRefines ==
  ASSUME IInv, NEW source \in spaces, NEW destination \in spaces,
         vmm_clone_address_space(source, destination)
  PROVE  Shared!Clone(source, destination)
<1>1. /\ ~ panicked /\ TypeOK /\ OnePlaceEach /\ spaces \in SUBSET Frame
      /\ UNCHANGED <<spaces, panicked>>
  BY DEF vmm_clone_address_space, IInv, TypeOK
<1>2. PICK place : Tree(mem, free, spaces, place)
  BY <1>1 DEF OnePlaceEach
<1>3. PICK n : n = mem'
  OBVIOUS
<1>4. n = [mem EXCEPT ![destination] = mem[source]]
  BY <1>3 DEF vmm_clone_address_space
<1>5. /\ n[destination] = mem[source]
      /\ \A g \in spaces : g # destination => n[g] = mem[g]
  BY <1>1, <1>4 DEF TypeOK
<1>6. Regions' = [Regions EXCEPT ![destination] = Regions[source]]
  <2>1. Regions' = [t \in spaces |->
                      [i \in Index |-> IF n[t][i].present THEN n[t][i].page ELSE NULL]]
    BY <1>1, <1>3 DEF Regions
  <2>2. \A t \in spaces : Regions[t] =
          [i \in Index |-> IF mem[t][i].present THEN mem[t][i].page ELSE NULL]
    BY DEF Regions
  <2>3. ASSUME NEW t \in spaces
        PROVE  [i \in Index |-> IF n[t][i].present THEN n[t][i].page ELSE NULL]
                 = IF t = destination THEN Regions[source] ELSE Regions[t]
    BY <1>5, <2>2
  <2>4. DOMAIN Regions = spaces /\ Regions = [t \in spaces |-> Regions[t]]
    BY DEF Regions
  <2>5. QED
    BY <2>1, <2>3, <2>4
<1>7. Reached(mem)' \subseteq Reached(mem)
  BY <1>1, <1>3, <1>5, ReachedNext DEF Reached
<1>8. SameViews(mem, n)
  BY <1>1, <1>2, <1>4, RootCopyShows
<1>9. \A r \in DOMAIN Pages' : r \in DOMAIN Pages /\ Pages'[r] = Pages[r]
  BY <1>3, <1>7, <1>8, PagesAreViews DEF SameViews
<1>10. QED
  BY <1>1, <1>6, <1>9 DEF Shared!Clone

(* What changes with an entry of the pt that virt leads to: one address in *)
(* the region it lies in, and never one that boot.s mapped.                *)
Written(m, n, root, virt, view) ==
  /\ \A g \in spaces, e \in Index : n[g][e] = m[g][e]
  /\ \E r \in Reached(m), a \in Address :
       /\ Leads(m, root, pml4_index(virt), r)
       /\ pml4_index(virt) = 0 => Identity[a] = Unmapped
       /\ \A q \in Reached(m), b \in Address :
            View(n, q, b) = IF q = r /\ b = a THEN view ELSE View(m, q, b)

LEMMA EntryWritten ==
  ASSUME spaces \in SUBSET Frame, NEW m, NEW fr, NEW place, Tree(m, fr, spaces, place),
         NEW root \in spaces, NEW virt \in Virt, NEW t \in Frame, place[t].level = 1,
         Through(m, root, virt, t), NEW x, NEW n, OneEntryWritten(m, n, t, pt_index(virt), x)
  PROVE  Written(m, n, root, virt, Shows(x))
<1>1. /\ pml4_index(virt) \in Index /\ pdpt_index(virt) \in Index
      /\ pd_index(virt) \in Index /\ pt_index(virt) \in Index
      /\ ~ (pml4_index(virt) = 0 /\ pdpt_index(virt) = 0)
  BY CallersKeepClear
<1>2. PICK r \in Frame, g \in Frame :
        /\ Leads(m, root, pml4_index(virt), r)
        /\ Leads(m, r, pdpt_index(virt), g)
        /\ Leads(m, g, pd_index(virt), t)
  BY DEF Through
<1>3. r \in Reached(m)
  BY <1>1, <1>2 DEF Reached, Leads
<1>4. \A q \in Reached(m) : q \in Frame /\ place[q].level = 3
  BY ReachedLevel
<1>5. PICK a \in Address :
        a \div IDENTITY = pdpt_index(virt) /\ pd_index(a) = pd_index(virt) /\ pt_index(a) = pt_index(virt)
  BY <1>1, AddressOf
<1>6. \A h \in spaces, e \in Index : n[h][e] = m[h][e]
  <2>1. \A h \in spaces : h \in Frame /\ h # t
    BY DEF Tree
  <2>2. QED
    BY <2>1 DEF OneEntryWritten
<1>7. /\ AtPdpt(m, r, a).present /\ AtPd(m, r, a).present /\ ~ AtPd(m, r, a).ps
      /\ AtPd(m, r, a).page = t
  BY <1>2, <1>5 DEF AtPdpt, AtPd, Leads
<1>8. pml4_index(virt) = 0 => Identity[a] = Unmapped
  BY <1>1, <1>5, HeldIsFirst DEF Identity
<1>9. ASSUME NEW q \in Reached(m), NEW b \in Address
      PROVE  View(n, q, b) = IF q = r /\ b = a THEN Shows(x) ELSE View(m, q, b)
  <2>1. q \in Frame /\ place[q].level = 3 /\ place[r].level = 3
    BY <1>3, <1>4
  <2>2. OneEntryWritten(m, n, t, pt_index(a), x)
    BY <1>5
  <2>3. View(n, q, b) = IF q = r /\ b = a THEN Shows(x) ELSE View(m, q, b)
    BY <1>7, <2>1, <2>2, WriteShows
  <2>4. QED
    BY <2>3
<1>10. QED
  BY <1>2, <1>3, <1>6, <1>8, <1>9 DEF Written

(* Roots that keep their entries keep their regions. *)
LEMMA RootsKeep ==
  ASSUME UNCHANGED spaces, \A g \in spaces, e \in Index : mem'[g][e] = mem[g][e]
  PROVE  Regions' = Regions /\ Reached(mem)' = Reached(mem)
BY DEF Regions, Reached

LEMMA UnmapRefines ==
  ASSUME IInv, NEW root \in spaces, NEW virt \in Virt, vmm_unmap_page(root, virt)
  PROVE  \E a \in Address : Shared!Map(root, pml4_index(virt), a)
<1> DEFINE pde == E2(mem, root, virt)
           t   == pde.page
           i   == pml4_index(virt)
<1>1. /\ ~ panicked /\ TypeOK /\ OnePlaceEach /\ UNCHANGED <<spaces, free, panicked>>
      /\ spaces \in SUBSET Frame /\ virt \in Asked
  BY DEF vmm_unmap_page, IInv, TypeOK, Asked
<1>2. Led(mem, root, virt) /\ mem' = [mem EXCEPT ![t] = [mem[t] EXCEPT ![pt_index(virt)] = Zero]]
  BY WalkIs DEF vmm_unmap_page, Led
<1>3. PICK place : Tree(mem, free, spaces, place)
  BY <1>1 DEF OnePlaceEach
<1>4. InPlace(mem, place, root, virt)
  BY <1>1, <1>2, <1>3, TreeWalk
<1>5. /\ ~ pde.ps /\ t \in Frame /\ place[t].level = 1
      /\ E4(mem, root, virt).page \in Frame /\ E3(mem, root, virt).page \in Frame
  BY <1>4, CallersKeepClear DEF InPlace, PtOf
<1>6. Through(mem, root, virt, t)
  <2>1. /\ Leads(mem, root, pml4_index(virt), E4(mem, root, virt).page)
        /\ Leads(mem, E4(mem, root, virt).page, pdpt_index(virt), E3(mem, root, virt).page)
        /\ Leads(mem, E3(mem, root, virt).page, pd_index(virt), t)
    BY <1>2, <1>5 DEF Led, Leads, E4, E3, E2
  <2>2. QED
    BY <1>5, <2>1 DEF Through
<1> HIDE DEF pde, t
<1>7. PICK n : n = mem'
  OBVIOUS
<1>8. OneEntryWritten(mem, n, t, pt_index(virt), Zero)
  <2>1. mem[t] \in [Index -> Entry] /\ mem \in [Frame -> Content]
    BY <1>1, <1>5 DEF TypeOK, Content
  <2>2. pt_index(virt) \in Index
    BY CallersKeepClear
  <2>3. QED
    BY <1>2, <1>5, <1>7, <2>1, <2>2 DEF OneEntryWritten
<1>9. Written(mem, n, root, virt, Shows(Zero))
  BY <1>1, <1>3, <1>5, <1>6, <1>8, EntryWritten
<1>10. Shows(Zero) = Unmapped
  BY DEF Shows, Zero
<1>11. PICK r \in Reached(mem), a \in Address :
         /\ Leads(mem, root, i, r)
         /\ i = 0 => Identity[a] = Unmapped
         /\ \A q \in Reached(mem), b \in Address :
              View(n, q, b) = IF q = r /\ b = a THEN Unmapped ELSE View(mem, q, b)
  BY <1>9, <1>10 DEF Written
<1>12. Regions' = Regions /\ Reached(mem)' = Reached(mem)
  BY <1>1, <1>7, <1>9, RootsKeep DEF Written
<1>13. Regions[root][i] = r /\ r # NULL
  <2>1. i \in Index
    BY CallersKeepClear
  <2>2. r # NULL
    BY Sizes DEF Reached, Frame, NULL
  <2>3. QED
    BY <1>11, <2>1, <2>2 DEF Regions, Leads
<1>14. Pages' = [q \in Reached(mem) |-> [b \in Address |-> View(n, q, b)]]
  BY <1>7, <1>12, PagesAreViews
<1>15. Pages = [q \in Reached(mem) |-> [b \in Address |-> View(mem, q, b)]]
  BY PagesAreViews
<1>16. Pages' = [Pages EXCEPT ![r][a] = Pages'[r][a]]
  BY <1>11, <1>14, <1>15
<1>17. Pages'[r][a] = Unmapped
  BY <1>11, <1>14
<1>18. Shared!Map(root, i, a)
  BY <1>1, <1>11, <1>12, <1>13, <1>16, <1>17 DEF Shared!Map
<1>19. QED
  BY <1>18

(* Roots of memory n are those of mem, but for entry i of one of them,     *)
(* which is an empty region.                                               *)
GotRegion(root, i, n, r) ==
  /\ r \in free /\ ~ mem[root][i].present /\ Leads(n, root, i, r)
  /\ \A g \in spaces, e \in Index : g # root \/ e # i => n[g][e] = mem[g][e]
  /\ SameViews(mem, n)
  /\ \A a \in Address : View(n, r, a) = Unmapped

LEMMA PartlyIs ==
  ASSUME NEW root \in spaces, NEW i \in Index, NEW n, Partly(root, i, n)
  PROVE  \/ (\A g \in spaces, e \in Index : n[g][e] = mem[g][e]) /\ SameViews(mem, n)
         \/ \E r \in free : GotRegion(root, i, n, r)
<1>1. CASE n[root][i] = mem[root][i]
  BY <1>1 DEF Partly
<1>2. CASE n[root][i] # mem[root][i]
  <2>1. PICK r \in free : Leads(n, root, i, r) /\ \A a \in Address : View(n, r, a) = Unmapped
    BY <1>2 DEF Partly
  <2>2. GotRegion(root, i, n, r)
    BY <1>2, <2>1 DEF Partly, GotRegion
  <2>3. QED
    BY <2>2
<1>3. QED
  BY <1>1, <1>2

(* Such an entry in memory that becomes n: what the spaces and the set of  *)
(* their regions become.                                                   *)
LEMMA RegionAdded ==
  ASSUME TypeOK, OnePlaceEach, NEW root \in spaces, NEW i \in Index, NEW r \in free,
         ~ mem[root][i].present, Leads(mem', root, i, r), UNCHANGED spaces,
         \A g \in spaces, e \in Index : g # root \/ e # i => mem'[g][e] = mem[g][e]
  PROVE  /\ Regions[root][i] = NULL
         /\ r \in Frame \ Reached(mem)
         /\ Regions' = [Regions EXCEPT ![root][i] = r]
         /\ Regions'[root][i] = r
         /\ Reached(mem)' = Reached(mem) \cup {r}
<1>1. PICK place : Tree(mem, free, spaces, place)
  BY DEF OnePlaceEach
<1>2. spaces \in SUBSET Frame /\ r \in Frame /\ place[r].level = 0
  BY <1>1 DEF TypeOK, Tree
<1>3. r \notin Reached(mem)
  BY <1>1, <1>2, ReachedLevel
<1>4. Regions[root][i] = NULL
  BY DEF Regions
<1>5. PICK n : n = mem'
  OBVIOUS
<1>6. n[root][i].present /\ n[root][i].page = r
  BY <1>5 DEF Leads
<1>7. \A g \in spaces, e \in Index : g # root \/ e # i => n[g][e] = mem[g][e]
  BY <1>5
<1>8. Regions' = [g \in spaces |-> [e \in Index |-> IF n[g][e].present THEN n[g][e].page ELSE NULL]]
  BY <1>5 DEF Regions
<1>9. Regions' = [Regions EXCEPT ![root][i] = r]
  <2> DEFINE row(m, g) == [e \in Index |-> IF m[g][e].present THEN m[g][e].page ELSE NULL]
  <2>1. row(n, root) = [row(mem, root) EXCEPT ![i] = r]
    BY <1>6, <1>7
  <2>2. \A g \in spaces : g # root => row(n, g) = row(mem, g)
    BY <1>7
  <2>3. Regions' = [g \in spaces |-> row(n, g)] /\ Regions = [g \in spaces |-> row(mem, g)]
    BY <1>8 DEF Regions
  <2> HIDE DEF row
  <2>4. QED
    BY <2>1, <2>2, <2>3
<1>10. Regions'[root][i] = r
  BY <1>6, <1>8
<1>11. Reached(mem)' = {q \in Frame : \E g \in spaces, e \in Index : n[g][e].present /\ n[g][e].page = q}
  BY <1>5, ReachedNext
<1>12. Reached(mem)' = Reached(mem) \cup {r}
  BY <1>2, <1>6, <1>7, <1>11 DEF Reached
<1>13. QED
  BY <1>2, <1>3, <1>4, <1>9, <1>10, <1>12

(* No memory is left: nothing was mapped, or there is an empty region.     *)
LEMMA PanicRefines ==
  ASSUME TypeOK, OnePlaceEach, NEW root \in spaces, NEW i \in Index,
         NEW n, Partly(root, i, n), mem' = n, UNCHANGED spaces, panicked' = TRUE
  PROVE  Shared!Fail
<1>1. Pages' = [q \in Reached(mem)' |-> [b \in Address |-> View(n, q, b)]]
  BY PagesAreViews
<1>2. Pages = [q \in Reached(mem) |-> [b \in Address |-> View(mem, q, b)]]
  BY PagesAreViews
<1>3. CASE (\A g \in spaces, e \in Index : n[g][e] = mem[g][e]) /\ SameViews(mem, n)
  <2>1. Regions' = Regions /\ Reached(mem)' = Reached(mem)
    BY <1>3, RootsKeep
  <2>2. Pages' = Pages
    BY <1>1, <1>2, <1>3, <2>1 DEF SameViews
  <2>3. QED
    BY <2>1, <2>2 DEF Shared!Fail
<1>4. CASE \E r \in free : GotRegion(root, i, n, r)
  <2>1. PICK r \in free : GotRegion(root, i, n, r)
    BY <1>4
  <2>2. /\ Regions[root][i] = NULL
        /\ r \in Frame \ Reached(mem)
        /\ Regions' = [Regions EXCEPT ![root][i] = r]
        /\ Regions'[root][i] = r
        /\ Reached(mem)' = Reached(mem) \cup {r}
    BY <2>1, RegionAdded DEF GotRegion
  <2>3. DOMAIN Pages = Reached(mem) /\ DOMAIN Pages' = Reached(mem) \cup {r}
    BY <1>1, <1>2, <2>2
  <2>4. \A q \in Reached(mem) : Pages'[q] = Pages[q]
    BY <1>1, <1>2, <2>1, <2>2 DEF GotRegion, SameViews
  <2>5. Pages'[r] = Shared!Blank
    BY <1>1, <2>1, <2>2 DEF GotRegion, Shared!Blank
  <2>6. Shared!NewRegion(root, i, r)
    BY <2>2, <2>3, <2>4 DEF Shared!NewRegion
  <2>7. DOMAIN Regions = spaces
    BY DEF Regions
  <2>8. QED
    BY <2>2, <2>5, <2>6, <2>7 DEF Shared!Fail
<1>5. QED
  BY <1>3, <1>4, PartlyIs

LEMMA MapRefines ==
  ASSUME IInv, NEW root \in spaces, NEW virt \in Virt, NEW phys \in Phys, NEW flags \in Flags,
         vmm_map_page(root, virt, phys, flags)
  PROVE  \/ Shared!Fail
         \/ \E a \in Address :
              Shared!Map(root, pml4_index(virt), a) \/ Shared!MapInNewRegion(root, pml4_index(virt), a)
<1> DEFINE s == page_table(root, virt)
           i == pml4_index(virt)
           view == Shows(To(phys, flags))
<1>1. /\ ~ panicked /\ TypeOK /\ OnePlaceEach /\ UNCHANGED spaces /\ panicked' = s.panicked
      /\ spaces \in SUBSET Frame
  BY DEF vmm_map_page, IInv, TypeOK
<1>2. /\ Walking(s, PtOf(virt)) /\ Partly(root, i, s.mem)
      /\ ~ s.panicked => Through(s.mem, root, virt, s.at)
  BY <1>1, TableFound
<1>3. i \in Index /\ pt_index(virt) \in Index
  BY CallersKeepClear
<1>4. \/ s.panicked /\ mem' = s.mem
      \/ ~ s.panicked /\ mem' = [s.mem EXCEPT ![s.at] = [s.mem[s.at] EXCEPT ![pt_index(virt)] = To(phys, flags)]]
  BY DEF vmm_map_page
<1> HIDE DEF s, i
<1>5. CASE s.panicked
  <2>1. s.panicked = TRUE
    BY <1>2, <1>5 DEF Walking
  <2>2. QED
    BY <1>1, <1>2, <1>3, <1>4, <1>5, <2>1, PanicRefines
<1>6. CASE ~ s.panicked
  <2>1. PICK m \in [Frame -> Content], t \in Frame : m = s.mem /\ t = s.at
    BY <1>2 DEF Walking
  <2>2. PICK fr, place : Tree(m, fr, spaces, place) /\ place[t] = PtOf(virt)
    BY <1>2, <1>6, <2>1 DEF Walking
  <2>3. PICK n : n = mem'
    OBVIOUS
  <2>4. OneEntryWritten(m, n, t, pt_index(virt), To(phys, flags))
    <3>1. m[t] \in [Index -> Entry]
      BY <2>1 DEF Content
    <3>2. n = [m EXCEPT ![t] = [m[t] EXCEPT ![pt_index(virt)] = To(phys, flags)]]
      BY <1>4, <1>6, <2>1, <2>3
    <3>3. QED
      BY <1>3, <2>1, <3>1, <3>2 DEF OneEntryWritten
  <2>5. place[t].level = 1 /\ Through(m, root, virt, t)
    BY <1>2, <1>6, <2>1, <2>2 DEF PtOf
  <2>6. Written(m, n, root, virt, view)
    BY <1>1, <2>1, <2>2, <2>4, <2>5, EntryWritten
  <2>7. view \in [page : Frame \cup Phys, flags : Flags]
    BY DEF Shows, To
  <2> HIDE DEF view
  <2>8. PICK r \in Reached(m), a \in Address :
          /\ Leads(m, root, i, r)
          /\ i = 0 => Identity[a] = Unmapped
          /\ \A q \in Reached(m), b \in Address :
               View(n, q, b) = IF q = r /\ b = a THEN view ELSE View(m, q, b)
    BY <2>6 DEF Written, i
  <2>9. \A g \in spaces, e \in Index : n[g][e] = m[g][e]
    BY <2>6 DEF Written
  <2>10. Pages' = [q \in Reached(mem)' |-> [b \in Address |-> View(n, q, b)]]
    BY <2>3, PagesAreViews
  <2>11. Pages = [q \in Reached(mem) |-> [b \in Address |-> View(mem, q, b)]]
    BY PagesAreViews
  <2>12. CASE (\A g \in spaces, e \in Index : m[g][e] = mem[g][e]) /\ SameViews(mem, m)
    <3>1. Regions' = Regions /\ Reached(mem)' = Reached(mem)
      BY <1>1, <2>3, <2>9, <2>12, RootsKeep
    <3>2. Reached(m) = Reached(mem)
      BY <2>12 DEF Reached
    <3>3. \A q \in Reached(mem), b \in Address :
            View(n, q, b) = IF q = r /\ b = a THEN view ELSE View(mem, q, b)
      BY <2>8, <2>12, <3>2 DEF SameViews
    <3>4. r \in Reached(mem)
      BY <3>2
    <3>5. Pages' = [Pages EXCEPT ![r][a] = Pages'[r][a]]
      BY <2>10, <2>11, <3>1, <3>3, <3>4
    <3>6. Pages'[r][a] = view
      BY <2>10, <3>1, <3>3, <3>4
    <3>7. Regions[root][i] = r /\ r # NULL
      <4>1. mem[root][i] = m[root][i]
        BY <1>3, <2>12
      <4>2. r # NULL
        BY <3>4, Sizes DEF Reached, Frame, NULL
      <4>3. QED
        BY <1>3, <2>8, <4>1, <4>2 DEF Regions, Leads
    <3>8. panicked' = panicked
      BY <1>1, <1>2, <1>6 DEF Walking, TypeOK
    <3>9. Shared!Map(root, i, a)
      BY <2>7, <2>8, <3>1, <3>5, <3>6, <3>7, <3>8 DEF Shared!Map
    <3>10. QED
      BY <3>9 DEF i
  <2>13. CASE \E q \in free : GotRegion(root, i, m, q)
    <3>1. GotRegion(root, i, m, r) /\ r \in free
      BY <2>8, <2>13 DEF GotRegion, Leads
    <3>2. /\ Leads(mem', root, i, r)
          /\ \A g \in spaces, e \in Index : g # root \/ e # i => mem'[g][e] = mem[g][e]
      BY <1>3, <2>3, <2>8, <2>9, <3>1 DEF GotRegion, Leads
    <3>3. ~ mem[root][i].present
      BY <3>1 DEF GotRegion
    <3>4. /\ Regions[root][i] = NULL
          /\ r \in Frame \ Reached(mem)
          /\ Regions' = [Regions EXCEPT ![root][i] = r]
          /\ Regions'[root][i] = r
          /\ Reached(mem)' = Reached(mem) \cup {r}
      BY <1>1, <1>3, <3>1, <3>2, <3>3, RegionAdded
    <3>5. Reached(m) = Reached(mem) \cup {r}
      <4>1. Reached(m) = {q \in Frame : \E g \in spaces, e \in Index : n[g][e].present /\ n[g][e].page = q}
        BY <2>9 DEF Reached
      <4>2. QED
        BY <1>1, <2>3, <3>4, <4>1, ReachedNext
    <3>6. \A q \in Reached(mem), b \in Address : View(n, q, b) = View(mem, q, b)
      BY <2>8, <3>1, <3>4, <3>5 DEF GotRegion, SameViews
    <3>7. \A b \in Address : View(n, r, b) = IF b = a THEN view ELSE Unmapped
      BY <2>8, <3>1 DEF GotRegion
    <3>8. DOMAIN Pages = Reached(mem) /\ DOMAIN Pages' = Reached(mem) \cup {r}
      BY <2>10, <2>11, <3>4
    <3>9. \A q \in Reached(mem) : Pages'[q] = Pages[q]
      BY <2>10, <2>11, <3>4, <3>6
    <3>10. Pages'[r] = [b \in Address |-> IF b = a THEN view ELSE Unmapped]
      BY <2>10, <3>4, <3>7
    <3>11. Pages'[r][a] = view /\ Pages'[r] = [Shared!Blank EXCEPT ![a] = Pages'[r][a]]
      BY <3>10 DEF Shared!Blank
    <3>12. Shared!NewRegion(root, i, r)
      BY <3>4, <3>8, <3>9 DEF Shared!NewRegion
    <3>13. panicked' = panicked
      BY <1>1, <1>2, <1>6 DEF Walking, TypeOK
    <3>14. Shared!MapInNewRegion(root, i, a)
      BY <2>7, <3>4, <3>11, <3>12, <3>13 DEF Shared!MapInNewRegion
    <3>15. QED
      BY <3>14 DEF i
  <2>14. QED
    BY <1>2, <1>3, <2>1, <2>12, <2>13, PartlyIs
<1>7. QED
  BY <1>5, <1>6

LEMMA StepRefines ==
  ASSUME IInv, [Next]_vars
  PROVE  [Shared!Next]_Shared!vars
<1>1. DOMAIN Regions = spaces /\ spaces \subseteq Frame
  BY DEF Regions, IInv, TypeOK
<1>2. ASSUME UNCHANGED <<mem, spaces, panicked>>
      PROVE  UNCHANGED Shared!vars
  BY <1>2 DEF Shared!vars, Regions, Pages, Reached
<1>3. CASE vmm_create_address_space
  <2>1. ~ panicked
    BY <1>3 DEF vmm_create_address_space
  <2>2. QED
    BY <1>3, <2>1, CreateRefines DEF Shared!Next
<1>4. CASE \E root \in spaces : vmm_switch_to(root)
  BY <1>2, <1>4 DEF vmm_switch_to
<1>5. CASE \E root \in spaces, virt \in Virt, phys \in Phys, flags \in Flags :
             vmm_map_page(root, virt, phys, flags)
  <2>1. PICK root \in spaces, virt \in Virt, phys \in Phys, flags \in Flags :
          vmm_map_page(root, virt, phys, flags)
    BY <1>5
  <2>2. ~ panicked
    BY <2>1 DEF vmm_map_page
  <2>3. pml4_index(virt) \in Index
    BY CallersKeepClear
  <2>4. \/ Shared!Fail
        \/ \E a \in Address :
             Shared!Map(root, pml4_index(virt), a) \/ Shared!MapInNewRegion(root, pml4_index(virt), a)
    BY <2>1, MapRefines
  <2>5. QED
    BY <1>1, <2>2, <2>3, <2>4 DEF Shared!Next
<1>6. CASE \E root \in spaces, virt \in Virt : vmm_unmap_page(root, virt)
  <2>1. PICK root \in spaces, virt \in Virt : vmm_unmap_page(root, virt)
    BY <1>6
  <2>2. ~ panicked
    BY <2>1 DEF vmm_unmap_page
  <2>3. pml4_index(virt) \in Index
    BY CallersKeepClear
  <2>4. \E a \in Address : Shared!Map(root, pml4_index(virt), a)
    BY <2>1, UnmapRefines
  <2>5. QED
    BY <1>1, <2>2, <2>3, <2>4 DEF Shared!Next
<1>7. CASE \E source \in spaces, destination \in spaces \ {current_pd} :
             vmm_clone_address_space(source, destination)
  <2>1. PICK source \in spaces, destination \in spaces \ {current_pd} :
          vmm_clone_address_space(source, destination)
    BY <1>7
  <2>2. ~ panicked
    BY <2>1 DEF vmm_clone_address_space
  <2>3. Shared!Clone(source, destination)
    BY <2>1, CloneRefines
  <2>4. QED
    BY <1>1, <2>2, <2>3 DEF Shared!Next
<1>8. CASE \E virt \in Virt \cup {0} : tlb_fill(virt)
  BY <1>2, <1>8 DEF tlb_fill
<1>9. CASE UNCHANGED vars
  BY <1>2, <1>9 DEF vars
<1>10. QED
  BY <1>3, <1>4, <1>5, <1>6, <1>7, <1>8, <1>9 DEF Next, halted

(* vmm.c as a whole: what the operations do to four levels of tables, and  *)
(* what a panic leaves of them, is what SharedSpaces says happens to       *)
(* regions and pages, and every space keeps the mapping of boot.s.         *)
THEOREM Refinement == Spec => ImplementsSharedSpaces
<1>1. Init => Shared!Init
  BY SharedInit
<1>2. IInv /\ [Next]_vars => [Shared!Next]_Shared!vars
  BY StepRefines
<1>3. QED
  BY <1>1, <1>2, Inductive, PTL DEF Spec, ImplementsSharedSpaces, Shared!Spec
=============================================================================
