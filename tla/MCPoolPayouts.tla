---------------------------- MODULE MCPoolPayouts ----------------------------
(***************************************************************************)
(* Instances of the payout path for TLC: four nodes, two of which share an *)
(* address, the last registered with one Core rejects.                     *)
(***************************************************************************)
EXTENDS PoolPayouts, TLC

CONSTANTS p1, p2, n1, n2, n3, n4, a1, a2, a3

Shared == n1 :> a1 @@ n2 :> a1 @@ n3 :> a2 @@ n4 :> a3
Apart  == n1 :> a1

\* Three nodes on two addresses, whose halves of an odd budget both round up, or
\* one node whose address Core rejects.
Uneven == {n1 :> 1 @@ n2 :> 1 @@ n3 :> 2, n4 :> 1}
Single == {n1 :> 1}
Funds  == {14}
Plenty == {30}
===============================================================================
