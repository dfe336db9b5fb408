--------------------------- MODULE MCPermanentPages ---------------------------
(***************************************************************************)
(* Instances of the permanent list for TLC.  Page 1 stands for page 23.     *)
(***************************************************************************)
EXTENDS PermanentPages, TLC

CONSTANTS mint, mirror, n1, c0, c1, c2, c3, c4, c5

\* The snapshot left a done page whose only row can be removed, and an open one.
Snapshot     == c0 :> 0 @@ c1 :> 1 @@ c2 :> 2
SnapshotDone == {0, 1}
SomeBatches  == {{c3}, {c4, c5}}
===============================================================================
