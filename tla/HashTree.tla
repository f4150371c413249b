------------------------------ MODULE HashTree ------------------------------
(***************************************************************************)
(* What the audit log is however many writers append to it at once: a tree *)
(* of entries rooted at the genesis hash.  Entries are only ever added,    *)
(* one at a time, under a fresh id, each hashed over a hash that is there  *)
(* already with a smaller id.                                              *)
(***************************************************************************)
EXTENDS Integers, Sequences

CONSTANTS Genesis, Texts

VARIABLE nodes       \* a set of [id, prev, hash]

Init == nodes = {}

Grow(n) ==
    /\ nodes' = nodes \cup {n}
    /\ \A m \in nodes : m.id # n.id
    /\ n.prev = Genesis \/ \E m \in nodes : m.hash = n.prev /\ m.id < n.id
    /\ \E t \in Texts : n.hash = Append(n.prev, t)

Next == \E n \in nodes' \ nodes : Grow(n)

Spec == Init /\ [][Next]_nodes
=============================================================================
