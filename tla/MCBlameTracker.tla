-------------------------- MODULE MCBlameTracker --------------------------
(* A small cgroup tree for TLC: a unit a with a cgroup of its own below    *)
(* it, and a slice beside it.                                              *)
EXTENDS BlameTracker, TLC

CONSTANTS root, a, sub, slice

Tree == {root, a, sub, slice}
TreeParent == [p \in {a, sub, slice} |-> IF p = sub THEN a ELSE root]
Unit == {root, a, sub}
UnitParent == [p \in {a, sub} |-> IF p = sub THEN a ELSE root]
OfEach(n) == [p \in Paths |-> IF p \in {a, sub} THEN n ELSE 1]
TwoEach == OfEach(2)
=============================================================================
