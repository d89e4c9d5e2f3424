---------------------------- MODULE PageAllocator ----------------------------
(***************************************************************************)
(* What the physical memory manager promises: a request for n pages gets   *)
(* the lowest run of n free pages, and fails only when there is none.      *)
(***************************************************************************)
EXTENDS Integers

CONSTANTS
  Page,    \* the page numbers
  Count    \* the numbers of pages one can ask for

VARIABLES
  free,    \* the pages that can be handed out
  held,    \* the pages that were handed out and not given back
  wanted,  \* the request under way: a set with its number of pages, or empty
  dead     \* a request failed: the kernel has panicked

vars == <<free, held, wanted, dead>>

Run(s, n) == s .. s + n - 1

(* n consecutive free pages start at s. *)
Fits(s, n) == n >= 1 /\ Run(s, n) \subseteq free

Init ==
  /\ free = {}
  /\ held = {}
  /\ wanted = {}
  /\ dead = FALSE

(* Boot: the pages that may be used at all become known. *)
Discover(usable) ==
  /\ held = {} /\ wanted = {} /\ ~ dead
  /\ usable \subseteq Page
  /\ free' = usable
  /\ UNCHANGED <<held, wanted, dead>>

Request(n) ==
  /\ wanted = {} /\ ~ dead
  /\ wanted' = {n}
  /\ UNCHANGED <<free, held, dead>>

Grant(s, n) ==
  /\ wanted = {n}
  /\ Fits(s, n)
  /\ \A r \in Page : r < s => ~ Fits(r, n)
  /\ free' = free \ Run(s, n)
  /\ held' = held \cup Run(s, n)
  /\ wanted' = {}
  /\ UNCHANGED dead

Fail(n) ==
  /\ wanted = {n}
  /\ \A s \in Page : ~ Fits(s, n)
  /\ wanted' = {}
  /\ dead' = TRUE
  /\ UNCHANGED <<free, held>>

Release(p) ==
  /\ wanted = {} /\ ~ dead
  /\ p \in held
  /\ held' = held \ {p}
  /\ free' = free \cup {p}
  /\ UNCHANGED <<wanted, dead>>

Next ==
  \/ \E usable \in SUBSET Page : Discover(usable)
  \/ \E n \in Count : Request(n) \/ Fail(n)
  \/ \E s \in Page, n \in Count : Grant(s, n)
  \/ \E p \in Page : Release(p)

Spec == Init /\ [][Next]_vars
=============================================================================
