------------------------------ MODULE PmmProofs ------------------------------
(***************************************************************************)
(* Theorems about Pmm for every amount of memory, every page size, every   *)
(* set of boot reports and every set of requests.                          *)
(***************************************************************************)
EXTENDS Pmm, TLAPS

USE PmmAssumption

(* Rounding down and up, in terms of products. *)
LEMMA Rounding ==
  ASSUME NEW addr \in Nat, NEW n \in Nat \ {0}, NEW p \in Nat
  PROVE  /\ p < addr \div n <=> p * n + n <= addr
         /\ addr \div n <= p <=> addr < p * n + n
         /\ p < (addr + n - 1) \div n <=> p * n < addr
         /\ (addr + n - 1) \div n <= p <=> addr <= p * n
OBVIOUS

-----------------------------------------------------------------------------
(* Pages in use or free are available and not reserved: the invariant, in  *)
(* page numbers, behind the two properties about bytes.                    *)
UsableOnly == \A p \in Page : (p \in held \/ ~ pmm_bitmap[p]) => Available(p) /\ ~ Reserved(p)

(* Nothing is held at boot; a request under way is one of Counts. *)
CallState ==
  /\ pc = "boot" => held = {}
  /\ pc = "alloc_pages" => count \in Counts

IInv == TypeOK /\ ScanInvariant /\ CallState /\ HeldIsMarked /\ UsableOnly

LEMMA InitInvariant == Init => IInv
<1> SUFFICES ASSUME Init PROVE IInv
  OBVIOUS
<1>1. TypeOK
  <2>1. -1 \in -1 .. PMM_MAX_PAGES - 1 /\ 0 \in 0 .. PMM_MAX_PAGES
    OBVIOUS
  <2>2. QED
    BY <2>1 DEF Init, TypeOK, Page
<1>2. ScanInvariant /\ CallState /\ HeldIsMarked /\ UsableOnly
  BY DEF Init, ScanInvariant, CallState, HeldIsMarked, UsableOnly, Page
<1>3. QED
  BY <1>1, <1>2 DEF IInv

LEMMA BootKeepsInvariant ==
  ASSUME IInv, pmm_init
  PROVE  IInv'
<1> USE DEF IInv, pmm_init, locals
<1>1. TypeOK'
  BY DEF TypeOK
<1>2. \A p \in Page : (Available(p) <=> Available(p)') /\ (Reserved(p) <=> Reserved(p)')
  BY DEF Available, Reserved
<1>3. held = {}
  BY DEF CallState
<1>4. UsableOnly' /\ HeldIsMarked'
  BY <1>2, <1>3 DEF UsableOnly, HeldIsMarked
<1>5. ScanInvariant' /\ CallState'
  BY DEF ScanInvariant, CallState
<1>6. QED
  BY <1>1, <1>4, <1>5

(* Steps that touch neither the bitmap nor the pages handed out. *)
LEMMA UntouchedUsable ==
  ASSUME UsableOnly, HeldIsMarked, UNCHANGED <<pmm_bitmap, mb, held>>
  PROVE  UsableOnly' /\ HeldIsMarked'
BY DEF UsableOnly, HeldIsMarked, Available, Reserved

LEMMA CallKeepsInvariant ==
  ASSUME IInv, pmm_alloc \/ \E n \in Counts : pmm_alloc_pages(n)
  PROVE  IInv'
<1>1. UsableOnly' /\ HeldIsMarked'
  BY UntouchedUsable DEF IInv, pmm_alloc, pmm_alloc_pages
<1>2. CASE pmm_alloc
  <2>1. TypeOK' /\ CallState'
    BY <1>2 DEF pmm_alloc, IInv, TypeOK, CallState, locals
  <2>2. ScanInvariant'
    BY <1>2 DEF pmm_alloc, ScanInvariant, Page
  <2>3. QED
    BY <1>1, <2>1, <2>2 DEF IInv
<1>3. CASE \E n \in Counts : pmm_alloc_pages(n)
  <2>0. PICK n \in Counts : pmm_alloc_pages(n)
    BY <1>3
  <2>1. TypeOK' /\ CallState'
    BY <2>0 DEF pmm_alloc_pages, IInv, TypeOK, CallState
  <2>2. ScanInvariant'
    BY <2>0 DEF pmm_alloc_pages, ScanInvariant, Page
  <2>3. QED
    BY <1>1, <2>1, <2>2 DEF IInv
<1>4. QED
  BY <1>2, <1>3

LEMMA PanicKeepsInvariant ==
  ASSUME IInv, panic
  PROVE  IInv'
<1>1. UsableOnly' /\ HeldIsMarked'
  BY UntouchedUsable DEF IInv, panic
<1>2. QED
  BY <1>1 DEF panic, IInv, TypeOK, CallState, ScanInvariant, locals

(* A run of free pages that is handed out. *)
LEMMA HandOut ==
  ASSUME IInv, NEW run, run \subseteq {p \in Page : ~ pmm_bitmap[p]},
         hand_out(run), UNCHANGED mb
  PROVE  /\ pmm_bitmap' \in [Page -> BOOLEAN] /\ held' \subseteq Page
         /\ pc' = "idle"
         /\ UsableOnly' /\ HeldIsMarked'
<1>1. \A p \in Page : (Available(p) <=> Available(p)') /\ (Reserved(p) <=> Reserved(p)')
  BY DEF Available, Reserved
<1>2. QED
  BY <1>1 DEF IInv, TypeOK, hand_out, UsableOnly, HeldIsMarked

LEMMA AllocKeepsInvariant ==
  ASSUME IInv, pmm_alloc_loop
  PROVE  IInv'
<1>1. CASE i < PMM_MAX_PAGES /\ pmm_bitmap[i] /\ i' = i + 1 /\ UNCHANGED <<pmm_bitmap, mb, pc, locals, held>>
  <2>1. UsableOnly' /\ HeldIsMarked'
    BY <1>1, UntouchedUsable DEF IInv
  <2>2. TypeOK' /\ CallState'
    BY <1>1 DEF IInv, TypeOK, CallState, locals, pmm_alloc_loop
  <2>3. ScanInvariant'
    BY <1>1 DEF IInv, TypeOK, ScanInvariant, Page, pmm_alloc_loop
  <2>4. QED
    BY <2>1, <2>2, <2>3 DEF IInv
<1>2. CASE i < PMM_MAX_PAGES /\ ~ pmm_bitmap[i] /\ hand_out({i}) /\ UNCHANGED <<mb, i, locals>>
  <2>1. {i} \subseteq {p \in Page : ~ pmm_bitmap[p]}
    BY <1>2 DEF IInv, TypeOK, Page
  <2>2. QED
    BY <1>2, <2>1, HandOut DEF IInv, TypeOK, CallState, ScanInvariant, locals
<1>3. CASE panic
  BY <1>3, PanicKeepsInvariant
<1>4. QED
  BY <1>1, <1>2, <1>3 DEF pmm_alloc_loop

(* The pages of the run that is being counted are free, and are a run that *)
(* starts where the code says.                                             *)
LEMMA CountedRun ==
  ASSUME IInv, pc = "alloc_pages", i < PMM_MAX_PAGES, ~ pmm_bitmap[i],
         start' = IF start = -1 THEN i ELSE start
  PROVE  /\ start' = i - found /\ start' \in Page
         /\ start' .. i \subseteq {p \in Page : ~ pmm_bitmap[p]}
<1>1. start' = i - found /\ start' \in Page
  BY DEF IInv, TypeOK, CallState, ScanInvariant, Page
<1>2. QED
  BY <1>1 DEF IInv, TypeOK, ScanInvariant, Page

LEMMA AllocPagesKeepsInvariant ==
  ASSUME IInv, pmm_alloc_pages_loop
  PROVE  IInv'
<1>1. CASE /\ i < PMM_MAX_PAGES /\ ~ pmm_bitmap[i]
           /\ start' = IF start = -1 THEN i ELSE start
           /\ found' = found + 1 /\ found' = count
           /\ hand_out(start' .. start' + count - 1) /\ UNCHANGED <<mb, i, count>>
  <2>1. start' = i - found /\ start' \in Page /\ i \in Nat /\ found \in Nat
    BY <1>1, CountedRun DEF pmm_alloc_pages_loop, IInv, TypeOK
  <2>2. start' + count - 1 = i
    <3>1. count = found + 1
      BY <1>1
    <3>2. QED
      BY <2>1, <3>1
  <2>3. start' .. start' + count - 1 \subseteq {p \in Page : ~ pmm_bitmap[p]}
    BY <1>1, <2>2, CountedRun DEF pmm_alloc_pages_loop
  <2>4. found' \in 0 .. PMM_MAX_PAGES
    BY <1>1, <2>1 DEF Page
  <2>5. pc' = "idle" /\ UsableOnly' /\ HeldIsMarked' /\ held' \subseteq Page
        /\ pmm_bitmap' \in [Page -> BOOLEAN]
    BY <1>1, <2>3, HandOut
  <2>6. QED
    BY <1>1, <2>1, <2>4, <2>5 DEF IInv, TypeOK, CallState, ScanInvariant, Page
<1>2. CASE /\ i < PMM_MAX_PAGES /\ ~ pmm_bitmap[i]
           /\ start' = IF start = -1 THEN i ELSE start
           /\ found' = found + 1 /\ found' # count
           /\ i' = i + 1 /\ UNCHANGED <<pmm_bitmap, mb, pc, count, held>>
  <2>0. pc = "alloc_pages"
    BY DEF pmm_alloc_pages_loop
  <2>1. /\ start' = i - found /\ start' \in Page /\ i \in Nat /\ found \in Nat
        /\ count \in Int
    BY <1>2, <2>0, CountedRun DEF IInv, TypeOK
  <2>2. UsableOnly' /\ HeldIsMarked'
    BY <1>2, UntouchedUsable DEF IInv
  <2>3. TypeOK'
    BY <1>2, <2>1 DEF IInv, TypeOK, Page
  <2>4. ScanInvariant'
    <3>1. i' - found' = i - found /\ start' = i' - found' /\ found' > 0 /\ start' # -1
      BY <1>2, <2>1 DEF Page
    <3>2. \A p \in Page : i' - found' <= p /\ p < i' => ~ pmm_bitmap[p]
      BY <1>2, <2>0, <2>1, <3>1 DEF IInv, TypeOK, ScanInvariant, Page
    <3>3. i' - found' > 0 => pmm_bitmap[i' - found' - 1]
      BY <2>0, <3>1 DEF IInv, ScanInvariant
    <3>4. count >= 1 => found' < count
      BY <1>2, <2>0, <2>1 DEF IInv, ScanInvariant
    <3>5. ASSUME NEW s \in Page, s + count - 1 < i', count >= 1,
                 \A p \in s .. s + count - 1 : ~ pmm_bitmap[p]
          PROVE  FALSE
      <4>1. CASE s + count - 1 < i
        BY <2>0, <3>5, <4>1 DEF IInv, ScanInvariant
      <4>2. CASE s + count - 1 = i
        <5>1. s < i - found /\ i - found > 0
          BY <2>1, <3>4, <3>5, <4>2, <1>2 DEF Page
        <5>2. i - found - 1 \in s .. s + count - 1
          BY <2>1, <3>5, <4>2, <5>1 DEF Page
        <5>3. pmm_bitmap[i - found - 1]
          BY <3>1, <3>3, <5>1
        <5>4. QED
          BY <3>5, <5>2, <5>3
      <4>3. QED
        BY <1>2, <2>1, <3>5, <4>1, <4>2 DEF Page
    <3>6. QED
      BY <1>2, <2>0, <3>1, <3>2, <3>3, <3>4, <3>5 DEF ScanInvariant
  <2>5. QED
    BY <1>2, <2>0, <2>2, <2>3, <2>4 DEF IInv, CallState
<1>3. CASE i < PMM_MAX_PAGES /\ pmm_bitmap[i] /\ run_broken
  <2>0. pc = "alloc_pages" /\ i \in Nat /\ count \in Int
    BY DEF pmm_alloc_pages_loop, IInv, TypeOK
  <2>1. UsableOnly' /\ HeldIsMarked'
    BY <1>3, UntouchedUsable DEF IInv, run_broken
  <2>2. TypeOK'
    BY <1>3 DEF IInv, TypeOK, run_broken
  <2>3. ScanInvariant'
    <3>1. ASSUME NEW s \in Page, s + count - 1 < i + 1, count >= 1,
                 \A p \in s .. s + count - 1 : ~ pmm_bitmap[p]
          PROVE  FALSE
      <4>1. s + count - 1 < i
        BY <1>3, <2>0, <3>1 DEF Page
      <4>2. QED
        BY <2>0, <3>1, <4>1 DEF IInv, ScanInvariant
    <3>2. QED
      BY <1>3, <2>0, <3>1 DEF run_broken, ScanInvariant, Page
  <2>4. QED
    BY <1>3, <2>0, <2>1, <2>2, <2>3 DEF IInv, CallState, run_broken
<1>4. CASE panic
  BY <1>4, PanicKeepsInvariant
<1>5. QED
  BY <1>1, <1>2, <1>3, <1>4 DEF pmm_alloc_pages_loop

LEMMA FreeKeepsInvariant ==
  ASSUME IInv, NEW page \in held \cup {PMM_MAX_PAGES}, pmm_free(page)
  PROVE  IInv'
<1> USE DEF pmm_free
<1>1. \A p \in Page : (Available(p) <=> Available(p)') /\ (Reserved(p) <=> Reserved(p)')
  BY DEF Available, Reserved
<1>2. UsableOnly' /\ HeldIsMarked'
  BY <1>1 DEF IInv, TypeOK, UsableOnly, HeldIsMarked, Page
<1>3. QED
  BY <1>2 DEF IInv, TypeOK, CallState, ScanInvariant, locals

LEMMA NextKeepsInvariant ==
  ASSUME IInv, [Next]_vars
  PROVE  IInv'
<1>1. CASE UNCHANGED vars
  <2>1. UsableOnly' /\ HeldIsMarked'
    BY <1>1, UntouchedUsable DEF IInv, vars
  <2>2. QED
    BY <1>1, <2>1 DEF vars, locals, IInv, TypeOK, CallState, ScanInvariant
<1>2. QED
  BY <1>1, BootKeepsInvariant, CallKeepsInvariant, AllocKeepsInvariant,
     AllocPagesKeepsInvariant, FreeKeepsInvariant DEF Next, halted

(* The inductive invariant holds in every reachable state of Pmm. *)
THEOREM Invariance == Spec => []IInv
<1>1. Init => IInv
  BY InitInvariant
<1>2. IInv /\ [Next]_vars => IInv'
  BY NextKeepsInvariant
<1>3. QED
  BY <1>1, <1>2, PTL DEF Spec

(* A page in use is marked, so that it is not handed out twice. *)
THEOREM NeverTwice == Spec => []HeldIsMarked
<1>1. IInv => HeldIsMarked
  BY DEF IInv
<1>2. QED
  BY <1>1, Invariance, PTL

-----------------------------------------------------------------------------
(* From page numbers to bytes. *)
LEMMA BytesOfUsable ==
  ASSUME IInv, NEW p \in Page, p \in held \/ ~ pmm_bitmap[p],
         NEW b \in Bytes(p)
  PROVE  /\ b >= LOW_PAGES * PAGE_SIZE /\ b >= KERNEL_END
         /\ mb.has_mods => \A m \in mb.mods : ~ (m.mod_start <= b /\ b < m.mod_end)
<1>0. /\ p \in Nat /\ b \in Nat /\ PAGE_SIZE \in Nat \ {0}
      /\ p * PAGE_SIZE <= b /\ b < p * PAGE_SIZE + PAGE_SIZE
  <2>1. p \in Nat /\ p * PAGE_SIZE \in Nat
    BY DEF Page
  <2>2. QED
    BY <2>1 DEF Bytes
<1>1. ~ Reserved(p)
  BY DEF IInv, UsableOnly
<1>2. LOW_PAGES <= p /\ PageUp(KERNEL_END) <= p
  <2>1. PageUp(KERNEL_END) \in Int
    BY DEF PageUp
  <2>2. QED
    BY <1>0, <1>1, <2>1 DEF Reserved
<1>3. LOW_PAGES * PAGE_SIZE <= p * PAGE_SIZE
  BY <1>0, <1>2
<1>4. KERNEL_END <= p * PAGE_SIZE
  BY <1>0, <1>2, Rounding DEF PageUp
<1>5. ASSUME mb.has_mods, NEW m \in mb.mods, m.mod_start <= b, b < m.mod_end
      PROVE  FALSE
  <2>1. m.mod_start \in Nat /\ m.mod_end \in Nat
    BY <1>5 DEF IInv, TypeOK
  <2>2. ~ (PageOf(m.mod_start) <= p /\ p < PageUp(m.mod_end))
    BY <1>1, <1>5 DEF Reserved
  <2>3. PageOf(m.mod_start) <= p
    BY <1>0, <1>5, <2>1, Rounding DEF PageOf
  <2>4. p < PageUp(m.mod_end)
    <3>1. p * PAGE_SIZE < m.mod_end
      BY <1>0, <1>5, <2>1
    <3>2. QED
      BY <1>0, <2>1, <3>1, Rounding DEF PageUp
  <2>5. QED
    BY <2>2, <2>3, <2>4
<1>6. QED
  BY <1>0, <1>3, <1>4, <1>5

(* What was in memory when the kernel started is never handed out. *)
THEOREM BootDataIsSafe == Spec => []BootDataSafe
<1>1. IInv => BootDataSafe
  BY BytesOfUsable DEF BootDataSafe
<1>2. QED
  BY <1>1, Invariance, PTL

LEMMA LastByteOfUsable ==
  ASSUME IInv, NEW p \in Page, p \in held \/ ~ pmm_bitmap[p]
  PROVE  /\ mb.has_mmap
         /\ \E r \in mb.mmap :
              /\ r.type = 1
              /\ p * PAGE_SIZE + PAGE_SIZE - 1 \in r.base_addr .. r.base_addr + r.length - 1
<1>1. Available(p)
  BY DEF IInv, UsableOnly
<1>2. PICK r \in mb.mmap : /\ r.type = 1
                           /\ PageOf(r.base_addr) <= p
                           /\ p < PageOf(r.base_addr + r.length)
  BY <1>1 DEF Available
<1>3. /\ mb.has_mmap /\ r.base_addr \in Nat /\ r.length \in Nat
      /\ r.base_addr + r.length \in Nat
  BY <1>1 DEF Available, IInv, TypeOK
<1>4. p \in Nat /\ PAGE_SIZE \in Nat \ {0} /\ p * PAGE_SIZE \in Nat
  BY DEF Page
<1>5. r.base_addr < p * PAGE_SIZE + PAGE_SIZE
  BY <1>2, <1>3, <1>4, Rounding DEF PageOf
<1>6. p * PAGE_SIZE + PAGE_SIZE <= r.base_addr + r.length
  BY <1>2, <1>3, <1>4, Rounding DEF PageOf
<1>7. QED
  BY <1>2, <1>3, <1>4, <1>5, <1>6

(* Every page that is handed out ends in memory. *)
THEOREM PagesAreMemory == Spec => []LastByteIsMemory
<1>1. IInv => LastByteIsMemory
  BY LastByteOfUsable DEF LastByteIsMemory
<1>2. QED
  BY <1>1, Invariance, PTL

-----------------------------------------------------------------------------
(* The refinement. *)
Free == {p \in Page : ~ pmm_bitmap[p]}

(* A run of the abstract allocator is one of the code's. *)
LEMMA FitsMeans ==
  ASSUME TypeOK, NEW s \in Page, NEW n \in Int
  PROVE  Allocator!Fits(s, n) <=>
           n >= 1 /\ \A p \in s .. s + n - 1 : p \in Page /\ ~ pmm_bitmap[p]
BY DEF Allocator!Fits, Allocator!Run

LEMMA HandOutFrees ==
  ASSUME IInv, NEW run \in SUBSET Page, hand_out(run)
  PROVE  {p \in Page : ~ pmm_bitmap'[p]} = Free \ run
BY DEF IInv, TypeOK, hand_out, Free

(* The scan of pmm_alloc grants the first free page. *)
LEMMA AllocRefines ==
  ASSUME IInv, pmm_alloc_loop
  PROVE  [Allocator!Next]_(Allocator!vars)
<1> USE DEF Allocator!vars
<1>0. pc = "alloc" /\ 1 \in Counts
  BY DEF pmm_alloc_loop
<1>1. CASE i < PMM_MAX_PAGES /\ pmm_bitmap[i] /\ i' = i + 1 /\ UNCHANGED <<pmm_bitmap, mb, pc, locals, held>>
  BY <1>1 DEF locals
<1>2. CASE i < PMM_MAX_PAGES /\ ~ pmm_bitmap[i] /\ hand_out({i}) /\ UNCHANGED <<mb, i, locals>>
  <2>0. PICK s \in Page : s = i
    BY <1>2 DEF IInv, TypeOK, Page
  <2>1. Allocator!Run(s, 1) = {s} /\ Allocator!Fits(s, 1)
    BY <1>2, <2>0, FitsMeans DEF Allocator!Run, IInv, Page
  <2>2. ASSUME NEW r \in Page, r < s, Allocator!Fits(r, 1)
        PROVE  FALSE
    <3>1. ~ pmm_bitmap[r]
      BY <2>2, FitsMeans DEF IInv, Page
    <3>2. QED
      BY <1>0, <2>0, <2>2, <3>1 DEF IInv, ScanInvariant
  <2>3. {p \in Page : ~ pmm_bitmap'[p]} = Free \ {s}
    BY <1>2, <2>0, HandOutFrees
  <2>4. held' = held \cup {s} /\ pc' = "idle"
    BY <1>2, <2>0 DEF hand_out
  <2>5. Allocator!Grant(s, 1)
    BY <1>0, <2>1, <2>2, <2>3, <2>4 DEF Allocator!Grant, Free
  <2>6. QED
    BY <1>0, <2>5 DEF Allocator!Next
<1>3. CASE i = PMM_MAX_PAGES /\ panic
  <2>1. ASSUME NEW s \in Page, Allocator!Fits(s, 1)
        PROVE  FALSE
    <3>1. ~ pmm_bitmap[s]
      BY <2>1, FitsMeans DEF IInv, Page
    <3>2. QED
      BY <1>0, <1>3, <3>1 DEF IInv, ScanInvariant, Page
  <2>2. Allocator!Fail(1)
    BY <1>0, <1>3, <2>1 DEF Allocator!Fail, panic
  <2>3. QED
    BY <1>0, <2>2 DEF Allocator!Next
<1>4. QED
  BY <1>1, <1>2, <1>3 DEF pmm_alloc_loop

(* The scan of pmm_alloc_pages grants the lowest run that fits. *)
LEMMA AllocPagesRefines ==
  ASSUME IInv, pmm_alloc_pages_loop
  PROVE  [Allocator!Next]_(Allocator!vars)
<1> USE DEF Allocator!vars
<1>0. pc = "alloc_pages" /\ i \in Nat /\ count \in Int /\ found \in Nat
  BY DEF pmm_alloc_pages_loop, IInv, TypeOK
<1>1. CASE /\ i < PMM_MAX_PAGES /\ ~ pmm_bitmap[i]
           /\ start' = IF start = -1 THEN i ELSE start
           /\ found' = found + 1 /\ found' = count
           /\ hand_out(start' .. start' + count - 1) /\ UNCHANGED <<mb, i, count>>
  <2>0. PICK s \in Page, n \in Int : s = start' /\ n = count
    BY <1>0, <1>1, CountedRun
  <2>1. s = i - found /\ n = found + 1 /\ s + n - 1 = i /\ n >= 1
    <3>1. s = i - found
      BY <1>0, <1>1, <2>0, CountedRun
    <3>2. n = found + 1
      BY <1>1, <2>0
    <3>3. QED
      BY <1>0, <3>1, <3>2
  <2>2. s .. s + n - 1 \subseteq Free
    BY <1>0, <1>1, <2>0, <2>1, CountedRun DEF Free
  <2>3. Allocator!Fits(s, n)
    BY <2>1, <2>2 DEF Free, Allocator!Fits, Allocator!Run
  <2>4. ASSUME NEW r \in Page, r < s, Allocator!Fits(r, n)
        PROVE  FALSE
    <3>1. \A p \in r .. r + n - 1 : ~ pmm_bitmap[p]
      BY <2>4, FitsMeans DEF IInv
    <3>2. r + n - 1 < i
      BY <1>0, <2>1, <2>4 DEF Page
    <3>3. QED
      BY <1>0, <2>0, <2>1, <3>1, <3>2 DEF IInv, ScanInvariant
  <2>5. n \in Counts
    BY <1>0, <2>0, <2>1 DEF IInv, TypeOK
  <2>6. {p \in Page : ~ pmm_bitmap'[p]} = Free \ (s .. s + n - 1)
    BY <1>1, <2>0, <2>2, HandOutFrees DEF Free
  <2>7. held' = held \cup (s .. s + n - 1) /\ pc' = "idle"
    BY <1>1, <2>0 DEF hand_out
  <2>8. Allocator!Grant(s, n)
    BY <1>0, <2>0, <2>3, <2>4, <2>6, <2>7 DEF Allocator!Grant, Allocator!Run, Free
  <2>9. QED
    BY <2>5, <2>8 DEF Allocator!Next
<1>2. CASE i' = i + 1 /\ UNCHANGED <<pmm_bitmap, mb, pc, count, held>>
  BY <1>2
<1>3. CASE i = PMM_MAX_PAGES /\ panic
  <2>0. PICK n \in Int : n = count
    BY <1>0
  <2>1. ASSUME NEW s \in Page, Allocator!Fits(s, n)
        PROVE  FALSE
    <3>1. n >= 1 /\ \A p \in s .. s + n - 1 : p \in Page /\ ~ pmm_bitmap[p]
      BY <2>1, FitsMeans DEF IInv
    <3>2. s + n - 1 \in Page
      BY <3>1 DEF Page
    <3>3. s + n - 1 < i
      BY <1>3, <3>2 DEF Page
    <3>4. QED
      BY <1>0, <2>0, <3>1, <3>3 DEF IInv, ScanInvariant
  <2>2. Allocator!Fail(n)
    BY <1>0, <1>3, <2>0, <2>1 DEF Allocator!Fail, panic
  <2>3. n \in Counts
    BY <1>0, <2>0 DEF IInv, CallState
  <2>4. QED
    BY <2>2, <2>3 DEF Allocator!Next
<1>4. QED
  BY <1>1, <1>2, <1>3 DEF pmm_alloc_pages_loop, run_broken

LEMMA NextRefines ==
  ASSUME IInv, [Next]_vars
  PROVE  [Allocator!Next]_(Allocator!vars)
<1>1. CASE pmm_init
  <2>1. PICK usable \in SUBSET Page : usable = {p \in Page : ~ pmm_bitmap'[p]}
    OBVIOUS
  <2>2. held = {} /\ held' = {}
    BY <1>1 DEF pmm_init, IInv, CallState
  <2>3. Allocator!Discover(usable)
    BY <1>1, <2>1, <2>2 DEF pmm_init, Allocator!Discover
  <2>4. QED
    BY <2>3 DEF Allocator!Next
<1>2. CASE pmm_alloc
  <2>1. Allocator!Request(1)
    BY <1>2 DEF pmm_alloc, Allocator!Request
  <2>2. QED
    BY <2>1 DEF Allocator!Next
<1>3. CASE \E n \in Counts : pmm_alloc_pages(n)
  <2>1. PICK n \in Counts : pmm_alloc_pages(n)
    BY <1>3
  <2>2. Allocator!Request(n)
    BY <2>1 DEF pmm_alloc_pages, Allocator!Request
  <2>3. QED
    BY <2>2 DEF Allocator!Next
<1>4. CASE \E page \in held \cup {PMM_MAX_PAGES} : pmm_free(page)
  <2>1. PICK page \in held \cup {PMM_MAX_PAGES} : pmm_free(page)
    BY <1>4
  <2>2. CASE page \in held
    <3>1. {p \in Page : ~ pmm_bitmap'[p]} = Free \cup {page} /\ page \in Page
      BY <2>1, <2>2 DEF pmm_free, IInv, TypeOK, Free
    <3>2. Allocator!Release(page)
      BY <2>1, <2>2, <3>1 DEF pmm_free, Allocator!Release, Free
    <3>3. QED
      BY <3>1, <3>2 DEF Allocator!Next
  <2>3. CASE page = PMM_MAX_PAGES
    <3>1. page \notin Page
      BY <2>3 DEF Page
    <3>2. {p \in Page : ~ pmm_bitmap'[p]} = Free /\ held' = held
      BY <2>1, <3>1 DEF pmm_free, IInv, TypeOK, Free
    <3>3. QED
      BY <2>1, <3>2 DEF pmm_free, Allocator!vars, Free, locals
  <2>4. QED
    BY <2>2, <2>3
<1>5. CASE UNCHANGED vars
  BY <1>5 DEF vars, locals, Allocator!vars
<1>6. QED
  BY <1>1, <1>2, <1>3, <1>4, <1>5, AllocRefines, AllocPagesRefines DEF Next, halted

(* Both scans do what PageAllocator promises: the lowest run that fits, a  *)
(* panic only when there is none, and no page to two callers.              *)
THEOREM Refinement == Spec => ImplementsAllocator
<1>1. Init => Allocator!Init
  BY DEF Init, Allocator!Init
<1>2. IInv /\ [Next]_vars => [Allocator!Next]_(Allocator!vars)
  BY NextRefines
<1>3. QED
  BY <1>1, <1>2, Invariance, PTL DEF Spec, ImplementsAllocator, Allocator!Spec
=============================================================================
