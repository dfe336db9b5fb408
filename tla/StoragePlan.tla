------------------------------ MODULE StoragePlan ------------------------------
(***************************************************************************)
(* Who the pool pays for storage (pool/StoragePlan.h): scores, the paid    *)
(* set, and the assignment of files to paid nodes by rendezvous hashing.   *)
(* Scores are thousandths.  A definition whose comment says "Mutant" is a  *)
(* mutant of the one after it.                                             *)
(***************************************************************************)
EXTENDS Integers, FiniteSets

CONSTANTS
    Peers,          \* peerIds of registered nodes
    Cids,           \* files of the permanent list
    Before,         \* [Cids -> relation on Peers]: the order of the hashes of cid|peerId
    Seniority,      \* [Peers -> Nat]: the order of firstSeen and peerId
    Replicas,       \* paid copies of a file
    MaxPaidNodes,   \* paid slots, 0: no cap
    LegacyFactor    \* weight of a node that never proves: 500

\* A sort by hash, ties by peerId, is a strict total order.
StrictTotalOrder(r, S) ==
    /\ \A n \in S : <<n, n>> \notin r
    /\ \A m, n \in S : m # n => <<m, n>> \in r \/ <<n, m>> \in r
    /\ \A k, m, n \in S : <<k, m>> \in r /\ <<m, n>> \in r => <<k, n>> \in r

ASSUME PlanConstants ==
    /\ IsFiniteSet(Peers)
    /\ \A c \in Cids : StrictTotalOrder(Before[c], Peers)
    /\ Replicas \in Nat \ {0}

ASSUME RankConstants ==
    /\ Seniority \in [Peers -> Nat] /\ MaxPaidNodes \in Nat /\ LegacyFactor \in 0 .. 1000
    /\ \A m, n \in Peers : Seniority[m] = Seniority[n] => m = n

-----------------------------------------------------------------------------
(* One node's scores: a record with reliability, coverage, score (of the    *)
(* proofs) and answered.                                                    *)

\* The moving averages: one fifth for a challenge, one tenth for a verify round.
nextProofScore(score, passed) == (4 * score + IF passed THEN 1000 ELSE 0) \div 5
nextRound(score, observed) == (9 * score + observed) \div 10

\* How surely a node holds what it is assigned.
heldScore(n) == IF n.answered > 0 THEN n.score ELSE (n.coverage * LegacyFactor) \div 1000

\* Only nodes with something to show take a slot.
Shows(n) == n.reliability > 0 /\ heldScore(n) > 0

\* m is ranked before n.
Outranks(node, m, n) ==
    \/ node[m].reliability > node[n].reliability
    \/ node[m].reliability = node[n].reliability /\ Seniority[m] < Seniority[n]

\* The top MaxPaidNodes of the eligible peers.
paidSet(node, eligible) ==
    LET showing == {n \in eligible : Shows(node[n])}
    IN  {n \in showing :
            MaxPaidNodes = 0 \/ Cardinality({m \in showing : Outranks(node, m, n)}) < MaxPaidNodes}

-----------------------------------------------------------------------------
(* Assignments.                                                             *)

\* The paid nodes whose hash for the file comes first.
Ahead(c, n, paid) == {m \in paid : <<m, n>> \in Before[c]}

\* Mutant: the order of every file is that of the first one, rotated by the
\* number of paid nodes, as taking a hash modulo the size would.
Modulo(c, paid) ==
    {n \in paid : (Cardinality(Ahead(c, n, paid)) + Cardinality(paid)) % 3 < Replicas}

assignees(c, paid) == {n \in paid : Cardinality(Ahead(c, n, paid)) < Replicas}
================================================================================
