----------------------------- MODULE MCPoolStorage -----------------------------
(***************************************************************************)
(* Instances of the proof of storage for TLC.                              *)
(***************************************************************************)
EXTENDS PoolStorage, TLC

CONSTANTS p1, p2, p3, f1, f2

HashOrder == f1 :> {<<p1, p2>>, <<p2, p3>>, <<p1, p3>>} @@ f2 :> {<<p3, p1>>, <<p1, p2>>, <<p3, p2>>}
Numbered == p1 :> 1 @@ p2 :> 2 @@ p3 :> 3
FirstSeen == [p \in Peers |-> Numbered[p]]
================================================================================
