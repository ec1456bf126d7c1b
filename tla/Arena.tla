------------------------------- MODULE Arena --------------------------------
(***************************************************************************)
(* What the kernel heap promises its callers, without a block list.  The   *)
(* arena is HeapSize bytes.  Each caller holds one pointer into one region *)
(* [lo, hi) of it.  The regions in use are pairwise disjoint, and every    *)
(* one of them is held by a caller.                                        *)
(*                                                                         *)
(* A call does exactly one of three things: it hands out a new region, it  *)
(* takes one back, or it replaces one caller's region (krealloc, in place  *)
(* or moved).  No call changes a region it was not given.  A call that     *)
(* fails changes nothing.                                                  *)
(***************************************************************************)
EXTENDS Integers, FiniteSets, Functions, TLC

CONSTANT HeapSize

VARIABLES
  held,   \* pointer a caller holds -> the region it was given
  used    \* the regions in use

avars == <<held, used>>

InArena(r) == 0 <= r.lo /\ r.lo <= r.hi /\ r.hi <= HeapSize

Apart(r, s) == r.hi <= s.lo \/ s.hi <= r.lo

\* r can be handed out while the regions in others stay in use.
Fresh(r, others) == InArena(r) /\ \A s \in others : Apart(r, s)

\* The caller's pointer lies in the region it was given.
Points(p, r) == r.lo <= p /\ p <= r.hi

AInit == held = << >> /\ used = {}

Alloc ==
  \E p \in DOMAIN held', r \in used' :
    /\ p \notin DOMAIN held
    /\ Points(p, r)
    /\ Fresh(r, used)
    /\ held' = held @@ (p :> r)
    /\ used' = used \cup {r}

Free ==
  \E p \in DOMAIN held :
    /\ held' = [q \in DOMAIN held \ {p} |-> held[q]]
    /\ used' = used \ {held[p]}

Resize ==
  \E p \in DOMAIN held, q \in DOMAIN held', r \in used' :
    /\ q \notin DOMAIN held \ {p}
    /\ Points(q, r)
    /\ Fresh(r, used \ {held[p]})
    /\ held' = (q :> r) @@ [x \in DOMAIN held \ {p} |-> held[x]]
    /\ used' = (used \ {held[p]}) \cup {r}

ANext == Alloc \/ Free \/ Resize

ASpec == AInit /\ [][ANext]_avars
=============================================================================
