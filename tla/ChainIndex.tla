---------------------------- MODULE ChainIndex ----------------------------
(***************************************************************************)
(* What the chain analyzer promises its readers, without saying how: the   *)
(* index always describes one chain of blocks, it grows by one block at a  *)
(* time, each a child of the block before it, and it shrinks only by       *)
(* dropping the newest blocks.                                             *)
(***************************************************************************)
EXTENDS Naturals, Sequences

CONSTANT Branch

VARIABLE index      \* the newest block indexed, <<>> when nothing is

Init == index = <<>>

\* The next block of the chain is processed.
Extend == \E l \in Branch : index' = Append(index, l)

\* The newest blocks are undone: a fork, a repair, or a resync from the start.
RollBack == \E n \in 0..(Len(index) - 1) : index' = SubSeq(index, 1, n)

Next == Extend \/ RollBack

Spec == Init /\ [][Next]_index
=============================================================================
