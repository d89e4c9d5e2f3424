---------------------------- MODULE SharedSpaces ----------------------------
(***************************************************************************)
(* What the page tables of x86_64 stand for.  An address space is a set of *)
(* numbered regions, and a region gives pages to addresses.  Spaces share  *)
(* regions: a new space has those of the kernel's, a clone those of its    *)
(* source, and what one of them maps in a shared region all of them see.   *)
(* Only mapping at a number that has no region gives a space its own.      *)
(* What the first region maps at the beginning stays as it is.             *)
(***************************************************************************)
EXTENDS Integers

CONSTANTS
  Space, Region,       \* the names of spaces and of regions
  Index, Address,      \* a region's number in its space, an address in a region
  Mapping,             \* what an address can be mapped to
  Boot,                \* what the first region maps at the beginning
  NoRegion, Unmapped   \* instead of a region, instead of a mapping

VARIABLES
  region,    \* for every space in use, its regions
  page,      \* for every region in use, what its addresses are mapped to
  dead       \* there was no memory left

vars == <<region, page, dead>>

Blank == [b \in Address |-> Unmapped]

(* The kernel's space has one region to begin with. *)
Init ==
  \E s \in Space, r \in Region :
    /\ region = [t \in {s} |-> [i \in Index |-> IF i = 0 THEN r ELSE NoRegion]]
    /\ page = [t \in {r} |-> Boot]
    /\ ~ dead

(* One more space, with the regions of one there is. *)
Create(s) ==
  /\ s \notin DOMAIN region
  /\ \E kernel \in DOMAIN region :
       region' = [t \in DOMAIN region \cup {s} |-> IF t = s THEN region[kernel] ELSE region[t]]
  /\ UNCHANGED <<page, dead>>

(* An address in a region is mapped to something else, or to nothing. *)
Map(s, i, a) ==
  LET r == region[s][i] IN
  /\ r # NoRegion
  /\ i = 0 => Boot[a] = Unmapped
  /\ UNCHANGED <<region, dead>>
  /\ page'[r][a] \in Mapping \cup {Unmapped}
  /\ page' = [page EXCEPT ![r][a] = page'[r][a]]

(* Region i of space s is r from now on, which was none before. *)
NewRegion(s, i, r) ==
  /\ region[s][i] = NoRegion
  /\ r \in Region \ DOMAIN page
  /\ region' = [region EXCEPT ![s][i] = r]
  /\ DOMAIN page' = DOMAIN page \cup {r}
  /\ \A q \in DOMAIN page : page'[q] = page[q]

MapInNewRegion(s, i, a) ==
  LET r == region'[s][i] IN
  /\ NewRegion(s, i, r)
  /\ page'[r][a] \in Mapping
  /\ page'[r] = [Blank EXCEPT ![a] = page'[r][a]]
  /\ UNCHANGED dead

(* The regions of space d, and those that only d had, are lost. *)
Clone(s, d) ==
  /\ region' = [region EXCEPT ![d] = region[s]]
  /\ DOMAIN page' \subseteq DOMAIN page
  /\ \A r \in DOMAIN page' : page'[r] = page[r]
  /\ UNCHANGED dead

(* There is no memory left and the machine halts, with a call half done:   *)
(* nothing is mapped or lost, but a space may have got an empty region.    *)
Fail ==
  /\ dead' = TRUE
  /\ \/ UNCHANGED <<region, page>>
     \/ \E s \in DOMAIN region, i \in Index :
          LET r == region'[s][i] IN NewRegion(s, i, r) /\ page'[r] = Blank

Next ==
  /\ ~ dead
  /\ \/ \E s \in Space : Create(s)
     \/ \E s \in DOMAIN region, i \in Index, a \in Address : Map(s, i, a) \/ MapInNewRegion(s, i, a)
     \/ \E s, d \in DOMAIN region : Clone(s, d)
     \/ Fail

Spec == Init /\ [][Next]_vars
=============================================================================
