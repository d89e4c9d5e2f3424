---------------------------- MODULE AddressSpaces ----------------------------
(***************************************************************************)
(* What the page tables stand for.  An address space has regions, each of  *)
(* which gives pages to some of its addresses.  A new space has the        *)
(* regions of the kernel's, the very same ones; mapping in an address that *)
(* has no region gives that space a region of its own; and cloning copies  *)
(* regions, so that later changes on one side do not show on the other.    *)
(***************************************************************************)
EXTENDS Integers

CONSTANTS
  Space, Region,   \* the names of spaces and of regions
  Index,           \* a region's number in its space, an address in its region
  Mapping,         \* what an address can be mapped to
  NoRegion,        \* instead of a region
  Unmapped         \* instead of a mapping

VARIABLES
  kernel,    \* the kernel's space
  region,    \* for every space in use, its regions
  page,      \* for every region in use, what its addresses are mapped to
  dead       \* there was no memory left

vars == <<kernel, region, page, dead>>

InUse(reg) == (UNION {{reg[s][i] : i \in Index} : s \in DOMAIN reg}) \ {NoRegion}

Blank == [j \in Index |-> Unmapped]

(* The regions that stay in use keep their pages, but for r. *)
KeepsAllBut(r) ==
  /\ DOMAIN page' = InUse(region')
  /\ \A q \in DOMAIN page' \ {r} : q \in DOMAIN page /\ page'[q] = page[q]

Init == region = <<>> /\ page = <<>> /\ ~ dead

Boot(s) ==
  /\ region = <<>>
  /\ kernel' = s
  /\ region' = [t \in {s} |-> [i \in Index |-> NoRegion]]
  /\ UNCHANGED <<page, dead>>

Create(s) ==
  /\ region # <<>>
  /\ s \notin DOMAIN region
  /\ region' = [t \in DOMAIN region \cup {s} |-> IF t = s THEN region[kernel] ELSE region[t]]
  /\ UNCHANGED <<kernel, page, dead>>

(* Address j of region i of space s is mapped to something else, or to     *)
(* nothing.                                                                *)
Map(s, i, j) ==
  LET r == region[s][i] IN
  /\ r # NoRegion
  /\ UNCHANGED <<kernel, region, dead>>
  /\ page'[r][j] \in Mapping \cup {Unmapped}
  /\ page' = [page EXCEPT ![r][j] = page'[r][j]]

(* Region i of space s is r from now on, which was none before. *)
NewRegion(s, i, r) ==
  /\ r \in Region \ InUse(region)
  /\ region' = [region EXCEPT ![s][i] = r]
  /\ KeepsAllBut(r)
  /\ UNCHANGED <<kernel, dead>>

MapInNewRegion(s, i, j) ==
  LET r == region'[s][i] IN
  /\ region[s][i] = NoRegion
  /\ NewRegion(s, i, r)
  /\ page'[r][j] \in Mapping
  /\ page'[r] = [Blank EXCEPT ![j] = page'[r][j]]

(* One region of space s is copied to space d. *)
Clone(s, d, i) ==
  LET r == region'[d][i] IN
  /\ region[s][i] # NoRegion
  /\ NewRegion(d, i, r)
  /\ page'[r] = page[region[s][i]]

Fail == dead' = TRUE /\ UNCHANGED <<kernel, region, page>>

Next ==
  /\ ~ dead
  /\ \/ \E s \in Space : Boot(s) \/ Create(s)
     \/ \E s \in DOMAIN region, i, j \in Index : Map(s, i, j) \/ MapInNewRegion(s, i, j)
     \/ \E s, d \in DOMAIN region, i \in Index : Clone(s, d, i)
     \/ Fail

Spec == Init /\ [][Next]_vars
=============================================================================
