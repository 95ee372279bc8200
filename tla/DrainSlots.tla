----------------------------- MODULE DrainSlots ------------------------------
(***************************************************************************)
(* What the drain controller promises about a pool, without workers,       *)
(* mutex, annotations or failures: nodes take and give back drain slots    *)
(* one at a time, and a node takes one only while its pool has one left.   *)
(***************************************************************************)
EXTENDS Integers, FiniteSets

CONSTANTS
    Node,
    Eligible,  \* nodes whose pool is well defined
    Members,   \* [Node -> SUBSET Node], the pool a node belongs to
    Limit      \* [Node -> Int], slots of that pool; -1 for no limit

VARIABLE busy  \* nodes that hold a slot

SlotInit == busy = {}

Acquire(n) ==
    /\ n \in Eligible \ busy
    /\ Limit[n] = -1 \/ Cardinality(busy \cap Members[n]) < Limit[n]
    /\ busy' = busy \cup {n}

Release(n) ==
    /\ n \in busy
    /\ busy' = busy \ {n}

SlotNext == \E n \in Node : Acquire(n) \/ Release(n)

SlotSpec == SlotInit /\ [][SlotNext]_busy

=============================================================================
