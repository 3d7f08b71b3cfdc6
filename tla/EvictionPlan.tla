---------------------------- MODULE EvictionPlan ----------------------------
(***************************************************************************)
(* The eviction planner (media_catalog/eviction.rs) and the policy that    *)
(* calls it (MediaCatalog::plan): which movies to drop, least recently     *)
(* used first, so that incoming bytes fit.  Pure operators.                *)
(*                                                                         *)
(* A candidate is a record [key, size, last_used_at, protected]; keys are  *)
(* numbers standing for info hashes in their order.  Sizes are u64, and    *)
(* the release build wraps on overflow, so sums are taken modulo Word.     *)
(***************************************************************************)
EXTENDS Integers, Sequences, FiniteSets, FiniteSetsExt, SequencesExt

CONSTANT Word   \* 2^64 in the code

ASSUME WordAssumption == Word \in Nat \ {0}

SaturatingSub(a, b) == IF a > b THEN a - b ELSE 0
WrappingAdd(a, b) == (a + b) % Word
Larger(a, b) == IF a > b THEN a ELSE b

TotalSize(cs) == MapThenSumSet(LAMBDA c : c.size, cs)

\* Sorted by (last_used_at, key).
Before(a, b) ==
    \/ a.last_used_at < b.last_used_at
    \/ a.last_used_at = b.last_used_at /\ a.key < b.key

Unprotected(cs) == {c \in cs : ~c.protected}

Sorted(cs) ==
    CHOOSE s \in [1..Cardinality(cs) -> cs] :
        /\ \A c \in cs : \E i \in DOMAIN s : s[i] = c
        /\ \A i, j \in DOMAIN s : i < j => Before(s[i], s[j])

\* One turn of the planner's loop: take the next candidate unless enough is freed.
\* Mistake: one more is taken when exactly enough is freed.
TakeOneMore(needed, acc, c) ==
    IF acc.freed > needed THEN acc
    ELSE [evict |-> Append(acc.evict, c), freed |-> WrappingAdd(acc.freed, c.size)]
Take(needed, acc, c) ==
    IF acc.freed >= needed THEN acc
    ELSE [evict |-> Append(acc.evict, c), freed |-> WrappingAdd(acc.freed, c.size)]

Picked(cs, needed) ==
    FoldLeft(LAMBDA acc, c : Take(needed, acc, c),
             [evict |-> <<>>, freed |-> 0],
             Sorted(Unprotected(cs)))

Ok(evict, before, after) ==
    [ok |-> TRUE, evict |-> evict, used_before |-> before, used_after |-> after]
NotEnoughSpace(needed, freeable) ==
    [ok |-> FALSE, error |-> "not_enough_space", needed |-> needed, freeable |-> freeable]
LargerThanBudget == [ok |-> FALSE, error |-> "larger_than_budget"]

\* eviction::plan
NeededBoth(used, incoming, limit, extra) ==  \* mistake: the two needs are summed
    SaturatingSub(WrappingAdd(used, incoming), limit) + extra
Needed(used, incoming, limit, extra) ==
    Larger(SaturatingSub(WrappingAdd(used, incoming), limit), extra)

plan(cs, used, incoming, limit, extra) ==
    LET needed == Needed(used, incoming, limit, extra)
        p      == Picked(cs, needed)
    IN  IF incoming > limit THEN LargerThanBudget
        ELSE IF needed = 0 THEN Ok(<<>>, used, used)
        ELSE IF p.freed < needed THEN NotEnoughSpace(needed - p.freed, p.freed)
        ELSE Ok(p.evict, used, SaturatingSub(used, p.freed))

\* MediaCatalog::plan: what must be freed beyond the budget for min_free bytes
\* to stay free once the incoming ones are on the disk.
\* Mistake: the incoming bytes are forgotten.
FloorOnly(incoming, min_free, disk_free) == SaturatingSub(min_free, disk_free)
Extra(incoming, min_free, disk_free) ==
    SaturatingSub(WrappingAdd(incoming, min_free), disk_free)

CatalogPlan(cs, used, disk_free, incoming, limit, min_free) ==
    plan(cs, used, incoming, limit, Extra(incoming, min_free, disk_free))

-----------------------------------------------------------------------------
(* What is asked of the planner: a finite set of candidates, no two with   *)
(* the same info hash, and numbers whose sums stay below 2^64.             *)

PlanCandidate == [key : Int, size : Nat, last_used_at : Int, protected : BOOLEAN]
IsLibrary(cs) ==
    /\ IsFiniteSet(cs)
    /\ cs \subseteq PlanCandidate
    /\ \A c, d \in cs : c.key = d.key => c = d

PlanInput(cs, incoming, limit, disk_free, min_free) ==
    /\ IsLibrary(cs)
    /\ {incoming, limit, disk_free, min_free} \subseteq Nat
    /\ TotalSize(cs) + limit < Word
    /\ limit + min_free < Word
=============================================================================
