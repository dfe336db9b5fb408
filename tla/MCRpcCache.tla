----------------------------- MODULE MCRpcCache -----------------------------
(***************************************************************************)
(* An instance of the response cache for TLC.                              *)
(***************************************************************************)
EXTENDS RpcCache

CONSTANTS holdings, listassets, stats, a1, a2

Watching == [k \in Keys |-> IF k = holdings THEN {a1} ELSE {}]
Lifetime == [k \in Keys |-> IF k = stats THEN -1 ELSE IF k = holdings THEN 1 ELSE 0]
SomeSizes == [k \in Keys |-> IF k = holdings THEN {1, 2} ELSE {1}]
=============================================================================
