--------------------------- MODULE PoolStorageProofs ---------------------------
(***************************************************************************)
(* Proofs about the proof of storage, for any peers, request threads,      *)
(* challenges and verify rounds, and any lost replies and restarts: first  *)
(* of the assignment of files, which is stable however the paid set        *)
(* changes, then of the verdicts and the scores.                           *)
(***************************************************************************)
EXTENDS PoolStorage, FiniteSetTheorems, WellFoundedInduction, SequenceTheorems, TLAPS

-----------------------------------------------------------------------------
(* Rendezvous hashing, for any number of nodes, files and copies and any hashes. *)

\* The nodes ahead of another are finitely many, so assignees() counts them.
LEMMA AheadFinite ==
    ASSUME NEW c \in Cids, NEW S \in SUBSET Peers, NEW n \in Peers
    PROVE  /\ IsFiniteSet(Ahead(c, n, S))
           /\ Cardinality(Ahead(c, n, S)) \in Nat
<1>1. IsFiniteSet(Peers)
  BY PlanConstants
<1>2. Ahead(c, n, S) \subseteq Peers
  BY DEF Ahead
<1>3. IsFiniteSet(Ahead(c, n, S))
  BY <1>1, <1>2, FS_Subset
<1> QED
  BY <1>3, FS_CardinalityType

\* Fewer nodes are ahead when fewer are paid.
LEMMA AheadMonotone ==
    ASSUME NEW c \in Cids, NEW S \in SUBSET Peers, NEW T \in SUBSET S, NEW n \in Peers
    PROVE  Cardinality(Ahead(c, n, T)) <= Cardinality(Ahead(c, n, S))
<1>1. Ahead(c, n, T) \subseteq Ahead(c, n, S)
  BY DEF Ahead
<1>2. IsFiniteSet(Ahead(c, n, S))
  BY AheadFinite
<1> QED
  BY <1>1, <1>2, FS_Subset

\* A node that stays paid when another is lost keeps every file it is assigned.
THEOREM StayerKeepsItsFiles ==
    ASSUME NEW c \in Cids, NEW before \in SUBSET Peers, NEW gone \in before
    PROVE  assignees(c, before) \ {gone} \subseteq assignees(c, before \ {gone})
<1> SUFFICES ASSUME NEW n \in assignees(c, before), n # gone
             PROVE  n \in assignees(c, before \ {gone})
  OBVIOUS
<1>1. /\ n \in before /\ n \in Peers
      /\ Cardinality(Ahead(c, n, before)) < Replicas
  BY DEF assignees
<1>2. Cardinality(Ahead(c, n, before \ {gone})) <= Cardinality(Ahead(c, n, before))
  BY <1>1, AheadMonotone
<1>3. /\ Cardinality(Ahead(c, n, before)) \in Nat
      /\ Cardinality(Ahead(c, n, before \ {gone})) \in Nat
  <2>1. before \ {gone} \in SUBSET Peers
    OBVIOUS
  <2> QED
    BY <1>1, <2>1, AheadFinite
<1>4. Cardinality(Ahead(c, n, before \ {gone})) < Replicas
  BY <1>1, <1>2, <1>3, PlanConstants
<1> QED
  BY <1>1, <1>4 DEF assignees

\* A node lost moves only the files it held: whoever gains a file gains it
\* because the lost node was assigned it (StoragePlan.h: "adding or losing a
\* node moves only the files that node held"). Read backwards, with gone as the
\* newcomer, it says the same of a node added.
THEOREM LossMovesOnlyItsFiles ==
    ASSUME NEW c \in Cids, NEW before \in SUBSET Peers, NEW gone \in before,
           gone \notin assignees(c, before)
    PROVE  assignees(c, before \ {gone}) = assignees(c, before)
<1> DEFINE rest == before \ {gone}
<1>0. rest \in SUBSET Peers /\ rest \in SUBSET before /\ gone \in Peers
  OBVIOUS
<1>1. assignees(c, before) \subseteq assignees(c, rest)
  BY StayerKeepsItsFiles
<1>2. Cardinality(Ahead(c, gone, before)) >= Replicas
  <2>1. ~(Cardinality(Ahead(c, gone, before)) < Replicas)
    BY DEF assignees
  <2> QED
    BY <2>1, <1>0, AheadFinite, PlanConstants
<1>3. ASSUME NEW n \in assignees(c, rest)
      PROVE  n \in assignees(c, before)
  <2>1. /\ n \in rest /\ n \in Peers /\ n # gone
        /\ Cardinality(Ahead(c, n, rest)) < Replicas
    BY DEF assignees
  <2>2. /\ IsFiniteSet(Ahead(c, n, rest)) /\ Cardinality(Ahead(c, n, rest)) \in Nat
        /\ Cardinality(Ahead(c, gone, before)) \in Nat
    BY <1>0, <2>1, AheadFinite
  <2>3. StrictTotalOrder(Before[c], Peers)
    BY PlanConstants
  <2>4. CASE <<gone, n>> \in Before[c]
    <3>1. Ahead(c, gone, before) \subseteq Ahead(c, n, rest)
      BY <1>0, <2>1, <2>3, <2>4 DEF Ahead, StrictTotalOrder
    <3>2. Cardinality(Ahead(c, gone, before)) <= Cardinality(Ahead(c, n, rest))
      BY <3>1, <2>2, FS_Subset
    <3> QED
      BY <3>2, <2>1, <2>2, <1>2, PlanConstants
  <2>5. CASE <<gone, n>> \notin Before[c]
    <3>1. Ahead(c, n, before) = Ahead(c, n, rest)
      BY <2>5 DEF Ahead
    <3> QED
      BY <3>1, <2>1 DEF assignees
  <2> QED
    BY <2>4, <2>5
<1> QED
  BY <1>1, <1>3

-----------------------------------------------------------------------------
(* Any change of the paid set. *)

\* A set of numbers has a least one.
LEMMA LeastNumber ==
    ASSUME NEW T \in SUBSET Nat, T # {}
    PROVE  \E t \in T : \A u \in T : t <= u
<1>1. PICK t \in T : \A u \in T : ~(<<u, t>> \in OpToRel(<, Nat))
  BY NatLessThanWellFounded, WFMin
<1>2. ASSUME NEW u \in T
      PROVE  t <= u
  <2>1. u \in Nat /\ t \in Nat
    OBVIOUS
  <2>2. u < t => <<u, t>> \in OpToRel(<, Nat)
    BY <2>1 DEF OpToRel
  <2>3. ~(u < t)
    BY <1>1, <2>2, Zenon
  <2> QED
    BY <2>1, <2>3
<1> QED
  BY <1>2

\* Of any peers, one has the first hash for a file.
LEMMA FirstHash ==
    ASSUME NEW c \in Cids, NEW S \in SUBSET Peers, S # {}
    PROVE  \E m \in S : Ahead(c, m, S) = {}
<1> DEFINE T == {Cardinality(Ahead(c, x, S)) : x \in S}
<1>1. \A x \in S : IsFiniteSet(Ahead(c, x, S)) /\ Cardinality(Ahead(c, x, S)) \in Nat
  BY AheadFinite
<1>2. T \in SUBSET Nat /\ T # {}
  BY <1>1
<1>3. PICK t \in T : \A u \in T : t <= u
  <2> HIDE DEF T
  <2> QED
    BY <1>2, LeastNumber
<1>4. PICK m \in S : t = Cardinality(Ahead(c, m, S))
  BY <1>3
<1>5. \A x \in S : Cardinality(Ahead(c, m, S)) <= Cardinality(Ahead(c, x, S))
  BY <1>3, <1>4
<1>6. ASSUME NEW x \in Ahead(c, m, S)
      PROVE  FALSE
  <2>1. x \in S /\ <<x, m>> \in Before[c]
    BY DEF Ahead
  <2>2. StrictTotalOrder(Before[c], Peers) /\ x \in Peers /\ m \in Peers
    BY <2>1, PlanConstants
  <2>3. Ahead(c, x, S) \subseteq Ahead(c, m, S) /\ x \notin Ahead(c, x, S)
    BY <2>1, <2>2 DEF Ahead, StrictTotalOrder
  <2>4. Cardinality(Ahead(c, x, S)) <= Cardinality(Ahead(c, m, S))
    BY <1>1, <2>3, FS_Subset
  <2>5. Cardinality(Ahead(c, m, S)) = Cardinality(Ahead(c, x, S))
    BY <1>1, <1>5, <2>1, <2>4
  <2>6. Ahead(c, m, S) = Ahead(c, x, S)
    BY <1>1, <2>3, <2>5, FS_Subset
  <2> QED
    BY <2>3, <2>6
<1> QED
  BY <1>6

\* However the paid set changes, a node that stays loses a file only to a newcomer that
\* is assigned it. Read backwards, with the old set for the new one, it gains a file only
\* from a node that is gone and was assigned it.
THEOREM OnlyNewcomersTake ==
    ASSUME NEW c \in Cids, NEW S \in SUBSET Peers, NEW T \in SUBSET Peers,
           NEW n \in S \cap T, n \in assignees(c, S), n \notin assignees(c, T)
    PROVE  \E m \in T \ S : m \in assignees(c, T)
<1> DEFINE New == Ahead(c, n, T) \ S
<1>1. /\ IsFiniteSet(Ahead(c, n, S)) /\ Cardinality(Ahead(c, n, S)) \in Nat
      /\ IsFiniteSet(Ahead(c, n, T)) /\ Cardinality(Ahead(c, n, T)) \in Nat
  BY AheadFinite
<1>2. Cardinality(Ahead(c, n, S)) < Replicas /\ ~(Cardinality(Ahead(c, n, T)) < Replicas)
  BY DEF assignees
<1>3. New # {}
  <2>1. SUFFICES ASSUME New = {} PROVE FALSE
    OBVIOUS
  <2>2. Ahead(c, n, T) \subseteq Ahead(c, n, S)
    BY <2>1 DEF Ahead
  <2>3. Cardinality(Ahead(c, n, T)) <= Cardinality(Ahead(c, n, S))
    BY <1>1, <2>2, FS_Subset
  <2> QED
    BY <1>1, <1>2, <2>3, PlanConstants
<1>4. New \in SUBSET Peers
  BY DEF Ahead
<1>5. PICK m \in New : Ahead(c, m, New) = {}
  <2> HIDE DEF New
  <2> QED
    BY <1>3, <1>4, FirstHash
<1>6. m \in T /\ m \notin S /\ m \in Peers /\ n \in Peers /\ <<m, n>> \in Before[c]
  BY <1>4, <1>5 DEF Ahead
<1>7. StrictTotalOrder(Before[c], Peers)
  BY PlanConstants
<1>8. ASSUME NEW x \in Ahead(c, m, T)
      PROVE  x \in Ahead(c, n, S)
  <2>1. x \in T /\ x \in Peers /\ <<x, m>> \in Before[c]
    BY DEF Ahead
  <2>2. <<x, n>> \in Before[c]
    BY <1>6, <1>7, <2>1 DEF StrictTotalOrder
  <2>3. x \notin New
    BY <1>5, <2>1 DEF Ahead
  <2> QED
    BY <2>1, <2>2, <2>3 DEF Ahead
<1>9. Cardinality(Ahead(c, m, T)) <= Cardinality(Ahead(c, n, S))
  BY <1>1, <1>8, FS_Subset
<1>10. Cardinality(Ahead(c, m, T)) \in Nat
  BY <1>6, AheadFinite
<1>11. m \in assignees(c, T)
  BY <1>1, <1>2, <1>6, <1>9, <1>10, PlanConstants DEF assignees
<1> QED
  BY <1>6, <1>11

-----------------------------------------------------------------------------
(* The inductive invariant. *)

Challenge == [answered : BOOLEAN, late : BOOLEAN, verdict : {"null", "pass", "fail"},
              proof : {"unheard", "sent", "lost"}]
Thousandths == 0 .. 1000
NodeRow == [reliability : Thousandths, coverage : Thousandths, score : Thousandths,
            answered : Nat, fresh : BOOLEAN, fails : Nat]

RowsTyped ==
    /\ honest \in SUBSET Peers /\ rounds \in 0 .. MaxRounds
    /\ node \in [Peers -> NodeRow] /\ \A p \in Peers : node[p].fails <= rounds
    /\ challenges \in [Peers -> Seq(Challenge)]

\* A request that issues a challenge has a peer.  One that judges has claimed the row, so
\* the verifier will not close it, and what an honest node sent is right.
RequestInv(w) ==
    /\ worker[w].call = "issue" => worker[w].peer \in Peers
    /\ worker[w].call = "judge" =>
        /\ worker[w].peer \in Peers /\ worker[w].id \in DOMAIN challenges[worker[w].peer]
        /\ challenges[worker[w].peer][worker[w].id].answered
        /\ worker[w].right \in BOOLEAN /\ (worker[w].peer \in honest => worker[w].right)

\* What nobody answered has no verdict, and what an honest node sent has been claimed by
\* the deadline.
RowInv(p, c) ==
    /\ ~c.answered => c.verdict = "null"
    /\ p \in honest /\ c.late /\ c.proof = "sent" => c.answered

StorageInv ==
    /\ RowsTyped
    /\ DOMAIN worker = Workers /\ \A w \in Workers : RequestInv(w)
    /\ \A p \in Peers : \A k \in DOMAIN challenges[p] : RowInv(p, challenges[p][k])

-----------------------------------------------------------------------------
(* The statements of the database on the rows. *)

\* An UPDATE of one row.
LEMMA UpdateRow ==
    ASSUME RowsTyped, NEW p \in Peers, NEW k \in DOMAIN challenges[p], NEW e \in Challenge,
           challenges' = [challenges EXCEPT ![p] = [@ EXCEPT ![k] = e]]
    PROVE  /\ challenges' \in [Peers -> Seq(Challenge)]
           /\ \A q \in Peers : DOMAIN challenges'[q] = DOMAIN challenges[q]
           /\ \A q \in Peers : \A j \in DOMAIN challenges[q] :
                challenges'[q][j] = IF q = p /\ j = k THEN e ELSE challenges[q][j]
<1> DEFINE s == challenges[p]
           t == [s EXCEPT ![k] = e]
<1>1. s \in Seq(Challenge) /\ k \in 1 .. Len(s)
  BY DEF RowsTyped
<1>2. /\ t \in Seq(Challenge) /\ Len(t) = Len(s)
      /\ \A j \in 1 .. Len(s) : t[j] = IF j = k THEN e ELSE s[j]
  BY <1>1, ExceptSeq
<1>3. challenges'[p] = t /\ \A q \in Peers \ {p} : challenges'[q] = challenges[q]
  BY DEF RowsTyped
<1>4. DOMAIN challenges' = Peers /\ DOMAIN s = 1 .. Len(s) /\ DOMAIN t = 1 .. Len(t)
  BY <1>1, <1>2 DEF RowsTyped
<1> HIDE DEF t
<1>5. challenges' \in [Peers -> Seq(Challenge)]
  BY <1>2, <1>3, <1>4 DEF RowsTyped
<1> QED
  BY <1>2, <1>3, <1>4, <1>5

\* An INSERT of a row.
LEMMA InsertRow ==
    ASSUME RowsTyped, NEW p \in Peers, NEW e \in Challenge,
           challenges' = [challenges EXCEPT ![p] = Append(@, e)]
    PROVE  /\ challenges' \in [Peers -> Seq(Challenge)]
           /\ \A q \in Peers \ {p} : challenges'[q] = challenges[q]
           /\ DOMAIN challenges'[p] = DOMAIN challenges[p] \cup {Len(challenges[p]) + 1}
           /\ Len(challenges[p]) + 1 \notin DOMAIN challenges[p]
           /\ \A j \in DOMAIN challenges[p] : challenges'[p][j] = challenges[p][j]
           /\ challenges'[p][Len(challenges[p]) + 1] = e
<1> DEFINE s == challenges[p]
           t == Append(s, e)
<1>1. s \in Seq(Challenge)
  BY DEF RowsTyped
<1>2. /\ t \in Seq(Challenge) /\ Len(t) = Len(s) + 1 /\ Len(s) \in Nat
      /\ \A j \in 1 .. Len(s) : t[j] = s[j]
      /\ t[Len(s) + 1] = e /\ DOMAIN s = 1 .. Len(s) /\ DOMAIN t = 1 .. Len(s) + 1
  BY <1>1
<1>3. challenges'[p] = t /\ \A q \in Peers \ {p} : challenges'[q] = challenges[q]
  BY DEF RowsTyped
<1> HIDE DEF t
<1>4. challenges' \in [Peers -> Seq(Challenge)]
  BY <1>2, <1>3 DEF RowsTyped
<1> QED
  BY <1>2, <1>3, <1>4

\* The UPDATE that closes what is overdue.
LEMMA CloseRows ==
    ASSUME RowsTyped, challenges' = Closed
    PROVE  /\ challenges' \in [Peers -> Seq(Challenge)]
           /\ \A p \in Peers : DOMAIN challenges'[p] = DOMAIN challenges[p]
           /\ \A p \in Peers : \A k \in DOMAIN challenges[p] :
                challenges'[p][k] =
                    IF k \in OverdueOf(p)
                    THEN [challenges[p][k] EXCEPT !.answered = TRUE,
                                !.verdict = IF node[p].answered > 0 THEN "fail" ELSE "null"]
                    ELSE challenges[p][k]
<1>1. \A p \in Peers : /\ challenges[p] \in Seq(Challenge)
                        /\ DOMAIN challenges[p] = 1 .. Len(challenges[p]) /\ Len(challenges[p]) \in Nat
                        /\ \A k \in DOMAIN challenges[p] : challenges[p][k] \in Challenge
  BY DEF RowsTyped
<1>2. DOMAIN challenges' = Peers /\ \A p \in Peers : DOMAIN challenges'[p] = DOMAIN challenges[p]
  BY DEF Closed
<1>3. \A p \in Peers : \A k \in DOMAIN challenges[p] :
                challenges'[p][k] =
                    IF k \in OverdueOf(p)
                    THEN [challenges[p][k] EXCEPT !.answered = TRUE,
                                !.verdict = IF node[p].answered > 0 THEN "fail" ELSE "null"]
                    ELSE challenges[p][k]
  BY DEF Closed
<1>4. ASSUME NEW p \in Peers, NEW k \in DOMAIN challenges[p]
      PROVE  challenges'[p][k] \in Challenge
  <2>1. challenges[p][k] \in Challenge
    BY <1>1
  <2>2. CASE k \in OverdueOf(p)
    BY <1>3, <2>1, <2>2 DEF Challenge
  <2>3. CASE k \notin OverdueOf(p)
    BY <1>3, <2>1, <2>3
  <2> QED
    BY <2>2, <2>3
<1>5. ASSUME NEW p \in Peers
      PROVE  challenges'[p] \in Seq(Challenge)
  <2>1. challenges'[p] = [k \in 1 .. Len(challenges[p]) |-> challenges'[p][k]]
    BY <1>1 DEF Closed
  <2>2. \A k \in 1 .. Len(challenges[p]) : challenges'[p][k] \in Challenge
    BY <1>1, <1>4
  <2> QED
    BY <1>1, <2>1, <2>2
<1>6. challenges' \in [Peers -> Seq(Challenge)]
  <2>1. challenges' = [p \in Peers |-> challenges'[p]]
    BY DEF Closed
  <2> QED
    BY <1>5, <2>1
<1> QED
  BY <1>2, <1>3, <1>6

\* A row is of its type.
LEMMA RowType ==
    ASSUME RowsTyped, NEW p \in Peers, NEW k \in DOMAIN challenges[p]
    PROVE  challenges[p][k] \in Challenge
<1>1. challenges[p] \in Seq(Challenge) /\ k \in 1 .. Len(challenges[p])
  BY DEF RowsTyped
<1> QED
  BY <1>1

\* getOpenChallenge answers one of the open challenges.
LEMMA NewestIsOne ==
    ASSUME RowsTyped, NEW p \in Peers, OpenOf(p) # {}
    PROVE  Newest(OpenOf(p)) \in OpenOf(p)
<1> DEFINE b == Len(challenges[p])
           T == {b - k : k \in OpenOf(p)}
<1>1. b \in Nat /\ \A k \in OpenOf(p) : k \in Nat /\ b - k \in Nat
  BY DEF RowsTyped, OpenOf
<1>2. T \in SUBSET Nat /\ T # {}
  BY <1>1
<1>3. PICK t \in T : \A u \in T : t <= u
  <2> HIDE DEF T
  <2> QED
    BY <1>2, LeastNumber
<1>4. PICK k \in OpenOf(p) : t = b - k
  BY <1>3
<1>5. ASSUME NEW j \in OpenOf(p)
      PROVE  j <= k
  <2>1. t <= b - j
    BY <1>3
  <2> QED
    BY <1>1, <1>4, <2>1
<1> QED
  BY <1>4, <1>5 DEF Newest

\* A moving average stays within its range.
LEMMA RoundRange ==
    ASSUME NEW s \in Thousandths, NEW o \in Thousandths
    PROVE  nextRound(s, o) \in Thousandths
BY DEF nextRound, Thousandths

\* nextProofScore, too, and a pass never lowers it.
LEMMA ProofRange ==
    ASSUME NEW s \in Thousandths
    PROVE  /\ nextProofScore(s, TRUE) \in Thousandths /\ nextProofScore(s, TRUE) >= s
           /\ nextProofScore(s, FALSE) \in Thousandths
<1>1. (4 * s + 1000) \div 5 \in Thousandths /\ (4 * s + 1000) \div 5 >= s
  BY DEF Thousandths
<1>2. (4 * s + 0) \div 5 \in Thousandths
  BY DEF Thousandths
<1> QED
  BY <1>1, <1>2 DEF nextProofScore

\* A verdict folded in leaves a row of the table, and a pass never lowers the score.
LEMMA FoldedType ==
    ASSUME NEW n \in NodeRow, NEW passed \in BOOLEAN
    PROVE  /\ Folded(n, passed) \in NodeRow
           /\ Folded(n, passed).answered = n.answered + 1 /\ Folded(n, passed).fails = n.fails
           /\ passed => Folded(n, passed).score >= n.score
<1> DEFINE x == nextProofScore(n.score, passed)
           y == n.answered + 1
<1>1. n.score \in Thousandths /\ y \in Nat
  BY DEF NodeRow
<1>2. x \in Thousandths /\ (passed => x >= n.score)
  BY <1>1, ProofRange
<1>3. Folded(n, passed) = [n EXCEPT !.score = x, !.answered = y]
  BY DEF Folded
<1> HIDE DEF x, y
<1>4. Folded(n, passed) \in NodeRow
  BY <1>1, <1>2, <1>3 DEF NodeRow
<1>5. /\ Folded(n, passed).score = x
      /\ Folded(n, passed).answered = y /\ Folded(n, passed).fails = n.fails
  BY <1>3 DEF NodeRow
<1> QED
  BY <1>2, <1>4, <1>5 DEF y

\* A verify round leaves the scores of the proofs alone.
LEMMA VerifiedType ==
    ASSUME NEW n \in NodeRow, NEW ok \in BOOLEAN, NEW seen \in Thousandths
    PROVE  /\ Verified(n, ok, seen) \in NodeRow
           /\ Verified(n, ok, seen).score = n.score /\ Verified(n, ok, seen).answered = n.answered
           /\ Verified(n, ok, seen).fails <= n.fails + 1
<1> DEFINE full == IF ok THEN 1000 ELSE 0
           fresh == n.fresh \/ ok
           fails == IF ok THEN 0 ELSE n.fails + 1
           cov == nextRound(n.coverage, seen)
           rel == nextRound(n.reliability, full)
<1>1. /\ n.coverage \in Thousandths /\ n.reliability \in Thousandths /\ n.fails \in Nat
      /\ n.fresh \in BOOLEAN
  BY DEF NodeRow
<1>2. full \in Thousandths
  BY DEF Thousandths
<1> HIDE DEF full
<1>3. cov \in Thousandths /\ rel \in Thousandths
  BY <1>1, <1>2, RoundRange
<1>4. fails \in Nat /\ fails <= n.fails + 1 /\ fresh \in BOOLEAN
  BY <1>1
<1>5. Verified(n, ok, seen) = 
        [n EXCEPT !.fresh = fresh, !.fails = fails, !.coverage = cov, !.reliability = rel]
  BY DEF Verified, full
<1> HIDE DEF fresh, fails, cov, rel
<1>6. Verified(n, ok, seen) \in NodeRow
  BY <1>3, <1>4, <1>5 DEF NodeRow
<1>7. /\ Verified(n, ok, seen).score = n.score /\ Verified(n, ok, seen).answered = n.answered
      /\ Verified(n, ok, seen).fails = fails
  BY <1>5 DEF NodeRow
<1> QED
  BY <1>4, <1>6, <1>7

-----------------------------------------------------------------------------
(* The rows along a step. *)

\* Rows are only ever added; an answer and a verdict are never taken back; and every row
\* keeps its part of the invariant.
Evolved ==
    /\ challenges' \in [Peers -> Seq(Challenge)]
    /\ \A p \in Peers : \A k \in DOMAIN challenges[p] :
        /\ k \in DOMAIN challenges'[p]
        /\ challenges[p][k].answered => challenges'[p][k].answered
        /\ challenges[p][k].verdict # "null" => challenges'[p][k].verdict # "null"
    /\ \A p \in Peers : \A k \in DOMAIN challenges'[p] : RowInv(p, challenges'[p][k])

\* A row replaced by one that has its answer and its verdict.
LEMMA UpdateEvolves ==
    ASSUME StorageInv, NEW p \in Peers, NEW k \in DOMAIN challenges[p], NEW e \in Challenge,
           challenges' = [challenges EXCEPT ![p] = [@ EXCEPT ![k] = e]],
           challenges[p][k].answered => e.answered,
           challenges[p][k].verdict # "null" => e.verdict # "null",
           RowInv(p, e)
    PROVE  Evolved
<1>1. RowsTyped
  BY DEF StorageInv
<1>2. /\ challenges' \in [Peers -> Seq(Challenge)]
      /\ \A q \in Peers : DOMAIN challenges'[q] = DOMAIN challenges[q]
      /\ \A q \in Peers : \A j \in DOMAIN challenges[q] :
            challenges'[q][j] = IF q = p /\ j = k THEN e ELSE challenges[q][j]
  BY <1>1, UpdateRow
<1>3. ASSUME NEW q \in Peers, NEW j \in DOMAIN challenges[q]
      PROVE  /\ j \in DOMAIN challenges'[q]
             /\ challenges[q][j].answered => challenges'[q][j].answered
             /\ challenges[q][j].verdict # "null" => challenges'[q][j].verdict # "null"
             /\ RowInv(q, challenges'[q][j])
  <2>1. RowInv(q, challenges[q][j])
    BY DEF StorageInv
  <2>2. CASE q = p /\ j = k
    BY <1>2, <2>2
  <2>3. CASE ~(q = p /\ j = k)
    BY <1>2, <2>1, <2>3
  <2> QED
    BY <2>2, <2>3
<1> QED
  BY <1>2, <1>3 DEF Evolved

\* No row touched.
LEMMA SameEvolves ==
    ASSUME StorageInv, challenges' = challenges
    PROVE  Evolved
BY DEF StorageInv, RowsTyped, Evolved

\* Every step takes the rows forward.
LEMMA RowsEvolve ==
    ASSUME StorageInv, [Next]_vars
    PROVE  Evolved
<1>0. RowsTyped
  BY DEF StorageInv
<1>1. ASSUME NEW w \in Workers, NEW p \in Asking, handleKeepalive(w, p)
      PROVE  Evolved
  <2>1. p \in Peers
    BY StorageConstants
  <2>2. CASE challenges' = challenges
    BY <2>2, SameEvolves
  <2>3. CASE OpenOf(p) # {}
    <3> DEFINE k == Newest(OpenOf(p))
    <3>1. k \in OpenOf(p)
      BY <1>0, <2>1, <2>3, NewestIsOne
    <3>2. PICK proof \in Replied(challenges[p][k].proof) :
              challenges' = [challenges EXCEPT ![p][k].proof = proof]
      BY <1>1, <2>3 DEF handleKeepalive
    <3> HIDE DEF k
    <3> DEFINE c == challenges[p][k]
               e == [c EXCEPT !.proof = proof]
    <3>3. k \in DOMAIN challenges[p] /\ ~c.answered /\ ~c.late /\ c \in Challenge
      BY <1>0, <2>1, <3>1, RowType DEF OpenOf, Open
    <3>4. proof \in {"unheard", "sent", "lost"}
      BY <3>3 DEF Replied, Challenge
    <3>5. challenges' = [challenges EXCEPT ![p] = [@ EXCEPT ![k] = e]]
      BY <3>2
    <3>6. /\ e \in Challenge /\ e.answered = c.answered /\ e.late = c.late
          /\ e.verdict = c.verdict
      BY <3>3, <3>4 DEF Challenge
    <3>7. RowInv(p, c)
      BY <2>1, <3>3 DEF StorageInv
    <3>8. RowInv(p, e)
      BY <3>3, <3>6, <3>7 DEF RowInv
    <3> HIDE DEF e
    <3> QED
      BY <2>1, <3>3, <3>5, <3>6, <3>8, UpdateEvolves
  <2> QED
    BY <1>1, <2>2, <2>3 DEF handleKeepalive
<1>2. ASSUME NEW w \in Workers, insertChallenge(w)
      PROVE  Evolved
  <2>1. PICK proof \in Replied("unheard") :
            challenges' = [challenges EXCEPT ![worker[w].peer] =
                                Append(@, [Issued EXCEPT !.proof = proof])]
    BY <1>2 DEF insertChallenge
  <2> DEFINE p == worker[w].peer
             e == [Issued EXCEPT !.proof = proof]
  <2>2. p \in Peers
    BY <1>2 DEF insertChallenge, StorageInv, RequestInv
  <2>3. proof \in {"unheard", "sent", "lost"}
    BY DEF Replied
  <2>4. e \in Challenge /\ RowInv(p, e)
    BY <2>3 DEF Issued, Challenge, RowInv
  <2>5. challenges' = [challenges EXCEPT ![p] = Append(@, e)]
    BY <2>1
  <2> HIDE DEF p, e
  <2>6. /\ challenges' \in [Peers -> Seq(Challenge)]
        /\ \A q \in Peers \ {p} : challenges'[q] = challenges[q]
        /\ DOMAIN challenges'[p] = DOMAIN challenges[p] \cup {Len(challenges[p]) + 1}
        /\ \A j \in DOMAIN challenges[p] : challenges'[p][j] = challenges[p][j]
        /\ challenges'[p][Len(challenges[p]) + 1] = e
    BY <1>0, <2>2, <2>4, <2>5, InsertRow
  <2> QED
    BY <2>2, <2>4, <2>6 DEF Evolved, StorageInv
<1>3. ASSUME NEW w \in Workers, NEW p \in Asking, claimChallenge(w, p)
      PROVE  Evolved
  <2>1. PICK k \in OpenOf(p) :
            challenges' = [challenges EXCEPT ![p][k].answered = TRUE]
    BY <1>3 DEF claimChallenge
  <2> DEFINE c == challenges[p][k]
             e == [c EXCEPT !.answered = TRUE]
  <2>2. p \in Peers /\ k \in DOMAIN challenges[p]
    BY StorageConstants DEF OpenOf
  <2>3. c \in Challenge
    BY <1>0, <2>2, RowType
  <2>4. e \in Challenge /\ e.answered /\ e.verdict = c.verdict
    BY <2>3 DEF Challenge
  <2>5. challenges' = [challenges EXCEPT ![p] = [@ EXCEPT ![k] = e]]
    BY <2>1
  <2>6. RowInv(p, e)
    BY <2>4 DEF RowInv
  <2> HIDE DEF e
  <2> QED
    BY <2>2, <2>4, <2>5, <2>6, UpdateEvolves
<1>4. ASSUME NEW w \in Workers, recordProofResult(w)
      PROVE  Evolved
  <2> DEFINE p == worker[w].peer
             k == worker[w].id
             v == IF worker[w].right THEN "pass" ELSE "fail"
  <2>1. CASE challenges' = challenges
    BY <2>1, SameEvolves
  <2>2. CASE challenges' = [challenges EXCEPT ![p][k].verdict = v]
    <3> DEFINE c == challenges[p][k]
               e == [c EXCEPT !.verdict = v]
    <3>1. p \in Peers /\ k \in DOMAIN challenges[p] /\ c.answered
      BY <1>4 DEF recordProofResult, StorageInv, RequestInv
    <3>2. challenges' = [challenges EXCEPT ![p] = [@ EXCEPT ![k] = e]]
      BY <2>2
    <3>3. v \in {"pass", "fail"}
      OBVIOUS
    <3> HIDE DEF p, k, v
    <3>4. c \in Challenge
      BY <1>0, <3>1, RowType
    <3>5. e \in Challenge /\ e.answered /\ e.verdict # "null"
      BY <3>1, <3>3, <3>4 DEF Challenge
    <3>6. RowInv(p, e)
      BY <3>5 DEF RowInv
    <3> HIDE DEF e
    <3> QED
      BY <3>1, <3>2, <3>5, <3>6, UpdateEvolves
  <2> QED
    BY <1>4, <2>1, <2>2 DEF recordProofResult
<1>5. CASE expireChallenges
  <2>1. /\ challenges' \in [Peers -> Seq(Challenge)]
        /\ \A p \in Peers : DOMAIN challenges'[p] = DOMAIN challenges[p]
        /\ \A p \in Peers : \A k \in DOMAIN challenges[p] :
            challenges'[p][k] =
                IF k \in OverdueOf(p)
                THEN [challenges[p][k] EXCEPT !.answered = TRUE,
                            !.verdict = IF node[p].answered > 0 THEN "fail" ELSE "null"]
                ELSE challenges[p][k]
    BY <1>0, <1>5, CloseRows DEF expireChallenges
  <2>2. ASSUME NEW p \in Peers, NEW k \in DOMAIN challenges[p]
        PROVE  /\ challenges[p][k].answered => challenges'[p][k].answered
               /\ challenges[p][k].verdict # "null" => challenges'[p][k].verdict # "null"
               /\ RowInv(p, challenges'[p][k])
    <3>1. RowInv(p, challenges[p][k]) /\ challenges[p][k] \in Challenge
      BY <1>0, RowType DEF StorageInv
    <3>2. CASE k \in OverdueOf(p)
      <4>1. ~challenges[p][k].answered /\ challenges[p][k].verdict = "null"
        BY <3>1, <3>2 DEF OverdueOf, RowInv
      <4>2. challenges'[p][k].answered
        BY <2>1, <3>1, <3>2 DEF Challenge
      <4> QED
        BY <4>1, <4>2 DEF RowInv
    <3>3. CASE k \notin OverdueOf(p)
      BY <2>1, <3>1, <3>3
    <3> QED
      BY <3>2, <3>3
  <2> QED
    BY <2>1, <2>2 DEF Evolved
<1>6. ASSUME NEW p \in Peers, Deadline(p)
      PROVE  Evolved
  <2>1. PICK k \in DOMAIN challenges[p] :
            /\ p \in honest /\ challenges[p][k].proof = "sent" => challenges[p][k].answered
            /\ challenges' = [challenges EXCEPT ![p][k].late = TRUE]
    BY <1>6 DEF Deadline
  <2> DEFINE c == challenges[p][k]
             e == [c EXCEPT !.late = TRUE]
  <2>2. c \in Challenge /\ RowInv(p, c)
    BY <1>0, RowType DEF StorageInv
  <2>3. /\ e \in Challenge /\ e.answered = c.answered /\ e.verdict = c.verdict
        /\ e.proof = c.proof
    BY <2>2 DEF Challenge
  <2>4. challenges' = [challenges EXCEPT ![p] = [@ EXCEPT ![k] = e]]
    BY <2>1
  <2>5. RowInv(p, e)
    BY <2>1, <2>2, <2>3 DEF RowInv
  <2> HIDE DEF e
  <2> QED
    BY <2>3, <2>4, <2>5, UpdateEvolves
<1>7. ASSUME NEW w \in Workers, CannotJudge(w)
      PROVE  Evolved
  BY <1>7, SameEvolves DEF CannotJudge
<1>8. CASE ExpireCut \/ Restart \/ UNCHANGED vars
  BY <1>8, SameEvolves DEF ExpireCut, Restart, vars
<1>9. ASSUME NEW p \in Peers, Verify(p) \/ Stale(p)
      PROVE  Evolved
  BY <1>9, SameEvolves DEF Verify, Stale
<1>10. ASSUME NEW p \in Peers, LoseProof(p)
       PROVE  Evolved
  <2>1. PICK k \in OpenOf(p) : challenges' = [challenges EXCEPT ![p][k].proof = "lost"]
    BY <1>10 DEF LoseProof
  <2> DEFINE c == challenges[p][k]
             e == [c EXCEPT !.proof = "lost"]
  <2>2. k \in DOMAIN challenges[p] /\ ~c.answered /\ ~c.late /\ c \in Challenge
    BY <1>0, <2>1, RowType DEF OpenOf, Open
  <2>3. /\ e \in Challenge /\ e.answered = c.answered /\ e.verdict = c.verdict
        /\ e.late = c.late
    BY <2>2 DEF Challenge
  <2>4. challenges' = [challenges EXCEPT ![p] = [@ EXCEPT ![k] = e]]
    BY <2>1
  <2>5. RowInv(p, c)
    BY <2>2 DEF StorageInv
  <2>6. RowInv(p, e)
    BY <2>2, <2>3, <2>5 DEF RowInv
  <2> HIDE DEF e
  <2> QED
    BY <2>2, <2>3, <2>4, <2>6, UpdateEvolves
<1> QED
  BY <1>1, <1>2, <1>3, <1>4, <1>5, <1>6, <1>7, <1>8, <1>9, <1>10 DEF Next

-----------------------------------------------------------------------------
(* The scores along a step. *)

\* A verdict counts once for each challenge it was reached on, and an honest node's score
\* falls only when the verifier finds one of its challenges overdue.
ScoredAt(p) ==
    /\ node'[p] \in NodeRow
    /\ node'[p].answered = node[p].answered \/
         /\ node'[p].answered = node[p].answered + 1
         /\ \/ OverdueOf(p) # {} /\ node[p].answered > 0 /\ (expireChallenges \/ ExpireCut)
            \/ \E k \in DOMAIN challenges[p] :
                challenges[p][k].verdict = "null" /\ challenges'[p][k].verdict # "null"
    /\ p \in honest /\ node'[p].score < node[p].score => OverdueOf(p) # {}

\* A score that did not fall is not less.
LEMMA NotLess ==
    ASSUME NEW x \in Thousandths, NEW y \in Thousandths
    PROVE  ~(x < x) /\ (y >= x => ~(y < x))
BY DEF Thousandths

\* What the verifier charges.
LEMMA PenalisedScores ==
    ASSUME StorageInv, node' = Penalised, expireChallenges \/ ExpireCut, NEW p \in Peers
    PROVE  ScoredAt(p) /\ node'[p].fails = node[p].fails
<1>1. node[p] \in NodeRow
  BY DEF StorageInv, RowsTyped
<1>2. CASE OverdueOf(p) # {} /\ node[p].answered > 0
  <2>1. node'[p] = Folded(node[p], FALSE)
    BY <1>2 DEF Penalised
  <2>2. /\ Folded(node[p], FALSE) \in NodeRow
        /\ Folded(node[p], FALSE).answered = node[p].answered + 1
        /\ Folded(node[p], FALSE).fails = node[p].fails
    BY <1>1, FoldedType
  <2> QED
    BY <1>2, <2>1, <2>2 DEF ScoredAt
<1>3. CASE ~(OverdueOf(p) # {} /\ node[p].answered > 0)
  <2>1. node'[p] = node[p]
    BY <1>3 DEF Penalised
  <2>2. ~(node[p].score < node[p].score)
    BY <1>1, NotLess DEF NodeRow
  <2> QED
    BY <1>1, <2>1, <2>2 DEF ScoredAt
<1> QED
  BY <1>2, <1>3

\* A row of nodes no step touches.
LEMMA SameScores ==
    ASSUME StorageInv, NEW p \in Peers, node'[p] = node[p]
    PROVE  ScoredAt(p) /\ node'[p].fails = node[p].fails
<1>1. node[p] \in NodeRow
  BY DEF StorageInv, RowsTyped
<1>2. ~(node[p].score < node[p].score)
  BY <1>1, NotLess DEF NodeRow
<1> QED
  BY <1>1, <1>2 DEF ScoredAt

Scored ==
    /\ \A p \in Peers : ScoredAt(p)
    /\ node' \in [Peers -> NodeRow] /\ rounds' \in 0 .. MaxRounds
    /\ \A p \in Peers : node'[p].fails <= rounds'

\* Every step scores by the rules, and keeps the table of nodes.
LEMMA ScoresFollow ==
    ASSUME StorageInv, [Next]_vars
    PROVE  Scored
<1> USE DEF Scored
<1>0. /\ node \in [Peers -> NodeRow] /\ rounds \in 0 .. MaxRounds
      /\ \A p \in Peers : node[p].fails <= rounds /\ node[p].fails \in Nat
  BY DEF StorageInv, RowsTyped, NodeRow
<1>1. ASSUME node' = node, rounds' = rounds
      PROVE  Scored
  BY <1>0, <1>1, SameScores
<1>2. ASSUME NEW w \in Workers, recordProofResult(w)
      PROVE  Scored
  <2> DEFINE p == worker[w].peer
             k == worker[w].id
  <2>1. /\ p \in Peers /\ k \in DOMAIN challenges[p] /\ worker[w].right \in BOOLEAN
        /\ p \in honest => worker[w].right
    BY <1>2 DEF recordProofResult, StorageInv, RequestInv
  <2>2. CASE UNCHANGED node
    BY <1>1, <1>2, <2>2 DEF recordProofResult
  <2>3. CASE /\ challenges[p][k].verdict = "null"
             /\ challenges' = [challenges EXCEPT ![p][k].verdict =
                                    IF worker[w].right THEN "pass" ELSE "fail"]
             /\ node' = [node EXCEPT ![p] = Folded(@, worker[w].right)]
    <3> DEFINE n == Folded(node[p], worker[w].right)
    <3>1. node'[p] = n /\ \A q \in Peers \ {p} : node'[q] = node[q]
      BY <1>0, <2>1, <2>3
    <3>2. /\ n \in NodeRow /\ n.answered = node[p].answered + 1 /\ n.fails = node[p].fails
          /\ worker[w].right => n.score >= node[p].score
      BY <1>0, <2>1, FoldedType
    <3>3. challenges[p][k] \in Challenge /\ DOMAIN challenges = Peers
      BY <2>1, RowType DEF StorageInv, RowsTyped
    <3>4. challenges'[p][k].verdict # "null"
      BY <2>1, <2>3, <3>3 DEF Challenge
    <3> HIDE DEF n, p, k
    <3>5. n.score \in Thousandths /\ node[p].score \in Thousandths
      BY <1>0, <2>1, <3>2 DEF NodeRow
    <3>6. p \in honest => ~(n.score < node[p].score)
      BY <2>1, <3>2, <3>5, NotLess
    <3>7. ScoredAt(p)
      BY <2>1, <2>3, <3>1, <3>2, <3>4, <3>6 DEF ScoredAt
    <3>8. \A q \in Peers : ScoredAt(q) /\ node'[q].fails = node[q].fails
      BY <3>1, <3>2, <3>7, SameScores
    <3>9. node' \in [Peers -> NodeRow]
      BY <1>0, <2>1, <2>3, <3>1, <3>2
    <3> QED
      BY <1>0, <1>2, <3>8, <3>9 DEF recordProofResult
  <2> QED
    BY <1>2, <2>2, <2>3 DEF recordProofResult
<1>3. CASE expireChallenges \/ ExpireCut
  <2>1. node' = Penalised /\ rounds' = rounds
    BY <1>3 DEF expireChallenges, ExpireCut
  <2>2. \A p \in Peers : ScoredAt(p) /\ node'[p].fails = node[p].fails
    BY <1>3, <2>1, PenalisedScores
  <2>3. node' = [p \in Peers |-> node'[p]]
    BY <2>1 DEF Penalised
  <2>4. node' \in [Peers -> NodeRow]
    BY <2>2, <2>3 DEF ScoredAt
  <2> QED
    BY <1>0, <2>1, <2>2, <2>4
<1>4. ASSUME NEW p \in Peers, Verify(p)
      PROVE  Scored
  <2>1. PICK ok \in BOOLEAN, seen \in {0, node[p].coverage, 1000} :
            node' = [node EXCEPT ![p] = Verified(@, ok, seen)]
    BY <1>4 DEF Verify
  <2> DEFINE n == Verified(node[p], ok, seen)
  <2>2. node[p] \in NodeRow /\ node[p].coverage \in Thousandths /\ node[p].score \in Thousandths
    BY <1>0 DEF NodeRow
  <2>3. seen \in Thousandths
    <3>1. 0 \in Thousandths /\ 1000 \in Thousandths
      BY DEF Thousandths
    <3> QED
      BY <2>1, <2>2, <3>1
  <2>4. /\ n \in NodeRow /\ n.score = node[p].score /\ n.answered = node[p].answered
        /\ n.fails <= node[p].fails + 1
    BY <2>2, <2>3, VerifiedType
  <2>5. node'[p] = n /\ \A q \in Peers \ {p} : node'[q] = node[q]
    BY <1>0, <2>1
  <2> HIDE DEF n
  <2>6. n.fails \in Nat
    BY <2>4 DEF NodeRow
  <2>7. ScoredAt(p)
    <3>1. ~(n.score < node[p].score)
      BY <2>2, <2>4, NotLess
    <3> QED
      BY <2>4, <2>5, <3>1 DEF ScoredAt
  <2>8. \A q \in Peers \ {p} : ScoredAt(q) /\ node'[q].fails = node[q].fails
    BY <2>5, SameScores
  <2>9. node' \in [Peers -> NodeRow]
    BY <1>0, <2>1, <2>4, <2>5
  <2>10. rounds' = rounds + 1 /\ rounds' \in 0 .. MaxRounds
    BY <1>0, <1>4, StorageConstants DEF Verify
  <2>11. \A q \in Peers : node'[q].fails <= rounds'
    BY <1>0, <2>4, <2>5, <2>6, <2>8, <2>10
  <2> QED
    BY <2>7, <2>8, <2>9, <2>10, <2>11
<1>5. ASSUME NEW p \in Peers, Stale(p)
      PROVE  Scored
  <2> DEFINE n == [node[p] EXCEPT !.fresh = FALSE]
  <2>1. node'[p] = n /\ \A q \in Peers \ {p} : node'[q] = node[q]
    BY <1>0, <1>5 DEF Stale
  <2>2. /\ n \in NodeRow /\ n.score = node[p].score /\ n.answered = node[p].answered
        /\ n.fails = node[p].fails
    BY <1>0 DEF NodeRow
  <2> HIDE DEF n
  <2>3. ScoredAt(p)
    <3>1. ~(n.score < node[p].score)
      BY <1>0, <2>2, NotLess DEF NodeRow
    <3> QED
      BY <2>1, <2>2, <3>1 DEF ScoredAt
  <2>4. \A q \in Peers : ScoredAt(q) /\ node'[q].fails = node[q].fails
    BY <2>1, <2>2, <2>3, SameScores
  <2>5. node' \in [Peers -> NodeRow]
    BY <1>0, <1>5, <2>1, <2>2 DEF Stale
  <2> QED
    BY <1>0, <1>5, <2>4, <2>5 DEF Stale
<1>6. ASSUME NEW w \in Workers, NEW p \in Asking, handleKeepalive(w, p) \/ claimChallenge(w, p)
      PROVE  Scored
  BY <1>1, <1>6 DEF handleKeepalive, claimChallenge
<1>7. ASSUME NEW w \in Workers, insertChallenge(w) \/ CannotJudge(w)
      PROVE  Scored
  BY <1>1, <1>7 DEF insertChallenge, CannotJudge
<1>8. CASE Restart \/ UNCHANGED vars
  <2>1. node' = node /\ rounds' = rounds
    BY <1>8 DEF Restart, vars
  <2> QED
    BY <1>1, <2>1
<1>9. ASSUME NEW p \in Peers, Deadline(p) \/ LoseProof(p)
      PROVE  Scored
  BY <1>1, <1>9 DEF Deadline, LoseProof
<1> HIDE DEF Scored
<1>10. CASE \E w \in Workers : \/ \E p \in Asking : handleKeepalive(w, p) \/ claimChallenge(w, p)
                               \/ insertChallenge(w) \/ recordProofResult(w) \/ CannotJudge(w)
  BY <1>2, <1>6, <1>7, <1>10
<1>11. CASE \E p \in Peers : LoseProof(p) \/ Verify(p) \/ Deadline(p) \/ Stale(p)
  BY <1>4, <1>5, <1>9, <1>11
<1> QED
  BY <1>3, <1>8, <1>10, <1>11 DEF Next

-----------------------------------------------------------------------------
(* The invariant holds. *)

\* A request that goes on finds its row as it left it.
LEMMA RequestKept ==
    ASSUME StorageInv, Evolved, honest' = honest, NEW w \in Workers, worker'[w] = worker[w]
    PROVE  RequestInv(w)'
BY DEF StorageInv, Evolved, RequestInv

\* A request that ends has nothing to keep.
LEMMA IdleRequest ==
    ASSUME NEW w, worker'[w] = Idle
    PROVE  RequestInv(w)'
BY DEF RequestInv, Idle

\* Every step keeps the invariant.
LEMMA StorageStep ==
    ASSUME StorageInv, [Next]_vars
    PROVE  StorageInv'
<1>1. Evolved /\ Scored
  BY RowsEvolve, ScoresFollow
<1>2. honest' = honest
  BY DEF Next, vars, handleKeepalive, claimChallenge, insertChallenge, recordProofResult,
         CannotJudge, expireChallenges, ExpireCut, Restart, LoseProof, Verify, Deadline, Stale
<1>3. RowsTyped'
  BY <1>1, <1>2 DEF StorageInv, RowsTyped, Evolved, Scored
<1>4. \A p \in Peers : \A k \in DOMAIN challenges'[p] : RowInv(p, challenges[p][k])'
  BY <1>1, <1>2 DEF Evolved, RowInv
<1>5. ASSUME DOMAIN worker' = Workers, \A w \in Workers : RequestInv(w)'
      PROVE  StorageInv'
  BY <1>3, <1>4, <1>5 DEF StorageInv
<1>6. DOMAIN worker = Workers
  BY DEF StorageInv
<1>7. ASSUME NEW w \in Workers, NEW e, worker' = [worker EXCEPT ![w] = e], RequestInv(w)'
      PROVE  StorageInv'
  <2>1. DOMAIN worker' = Workers /\ \A v \in Workers \ {w} : worker'[v] = worker[v]
    BY <1>6, <1>7
  <2>2. \A v \in Workers \ {w} : RequestInv(v)'
    BY <1>1, <1>2, <2>1, RequestKept
  <2> QED
    BY <1>5, <1>7, <2>1, <2>2
<1>8. ASSUME NEW w \in Workers, worker' = [worker EXCEPT ![w] = Idle]
      PROVE  StorageInv'
  <2>1. worker'[w] = Idle
    BY <1>6, <1>8
  <2> QED
    BY <1>7, <1>8, <2>1, IdleRequest
<1>9. CASE worker' = worker
  BY <1>1, <1>2, <1>5, <1>6, <1>9, RequestKept
<1>10. ASSUME NEW w \in Workers, NEW p \in Asking, handleKeepalive(w, p)
       PROVE  StorageInv'
  <2>1. CASE worker' = [worker EXCEPT ![w] = [call |-> "issue", peer |-> p]]
    <3>1. worker'[w] = [call |-> "issue", peer |-> p]
      BY <1>6, <2>1
    <3>2. RequestInv(w)'
      BY <3>1, StorageConstants DEF RequestInv
    <3> QED
      BY <1>7, <2>1, <3>2
  <2> QED
    BY <1>9, <1>10, <2>1 DEF handleKeepalive
<1>11. ASSUME NEW w \in Workers, NEW p \in Asking, claimChallenge(w, p)
       PROVE  StorageInv'
  <2>1. PICK k \in OpenOf(p), right \in BOOLEAN :
            /\ p \in honest => right
            /\ challenges' = [challenges EXCEPT ![p][k].answered = TRUE]
            /\ worker' = [worker EXCEPT ![w] = [call |-> "judge", peer |-> p, id |-> k, right |-> right]]
    BY <1>11 DEF claimChallenge
  <2>2. worker'[w] = [call |-> "judge", peer |-> p, id |-> k, right |-> right]
    BY <1>6, <2>1
  <2>3. p \in Peers /\ k \in DOMAIN challenges[p]
    BY StorageConstants DEF OpenOf
  <2>4. challenges[p][k] \in Challenge /\ DOMAIN challenges = Peers
    BY <2>3, RowType DEF StorageInv, RowsTyped
  <2>5. challenges'[p][k].answered
    BY <2>1, <2>3, <2>4 DEF Challenge
  <2>6. k \in DOMAIN challenges'[p]
    BY <1>1, <2>3 DEF Evolved
  <2>7. RequestInv(w)'
    BY <1>2, <2>1, <2>2, <2>3, <2>5, <2>6 DEF RequestInv
  <2> QED
    BY <1>7, <2>1, <2>7
<1>12. ASSUME NEW w \in Workers, insertChallenge(w) \/ recordProofResult(w) \/ CannotJudge(w)
       PROVE  StorageInv'
  BY <1>8, <1>12 DEF insertChallenge, recordProofResult, CannotJudge
<1>13. CASE ExpireCut \/ Restart
  <2>1. worker' = [w \in Workers |-> Idle]
    BY <1>13 DEF ExpireCut, Restart
  <2>2. DOMAIN worker' = Workers /\ \A w \in Workers : worker'[w] = Idle
    BY <2>1
  <2> QED
    BY <1>5, <2>2, IdleRequest
<1>14. CASE expireChallenges \/ UNCHANGED vars
  BY <1>9, <1>14 DEF expireChallenges, vars
<1>15. ASSUME NEW p \in Peers, LoseProof(p) \/ Verify(p) \/ Deadline(p) \/ Stale(p)
       PROVE  StorageInv'
  BY <1>9, <1>15 DEF LoseProof, Verify, Deadline, Stale
<1> QED
  BY <1>10, <1>11, <1>12, <1>13, <1>14, <1>15 DEF Next

\* The database starts empty.
LEMMA StorageInit ==
    ASSUME Init
    PROVE  StorageInv
<1>1. \A p \in Peers : challenges[p] = <<>>
  BY DEF Init
<1>2. challenges \in [Peers -> Seq(Challenge)]
  BY DEF Init
<1>3. node \in [Peers -> NodeRow] /\ \A p \in Peers : node[p].fails = 0
  BY DEF Init, NodeRow, Thousandths
<1>4. rounds = 0 /\ rounds \in 0 .. MaxRounds /\ honest \in SUBSET Peers
  BY StorageConstants DEF Init
<1>5. DOMAIN worker = Workers /\ \A w \in Workers : RequestInv(w)
  BY DEF Init, Idle, RequestInv
<1> QED
  BY <1>1, <1>2, <1>3, <1>4, <1>5 DEF StorageInv, RowsTyped, RowInv

\* The invariant of the rows, the requests and the scores: what a request that has
\* claimed a challenge still finds when it comes back with the verdict.
THEOREM StorageInvariance == Spec => []StorageInv
<1>1. Init => StorageInv
  BY StorageInit
<1>2. StorageInv /\ [Next]_vars => StorageInv'
  BY StorageStep
<1> QED
  BY <1>1, <1>2, PTL DEF Spec

\* Scores stay within their range, and a request's row is there when it comes back to it
\* (nextProofScore, the moving averages of a verify round, claimChallenge).
THEOREM StorageTypeCorrectness == Spec => []TypeOK
<1>1. ASSUME StorageInv
      PROVE  TypeOK
  <2>1. ASSUME NEW p \in Peers
        PROVE  /\ {node[p].score, node[p].reliability, node[p].coverage} \subseteq 0 .. 1000
               /\ node[p].answered \in Nat /\ node[p].fails \in 0 .. MaxRounds
    <3>1. /\ node[p].score \in Thousandths /\ node[p].reliability \in Thousandths
          /\ node[p].coverage \in Thousandths /\ node[p].answered \in Nat
          /\ node[p].fails \in Nat /\ node[p].fails <= rounds /\ rounds \in 0 .. MaxRounds
      BY <1>1 DEF StorageInv, RowsTyped, NodeRow
    <3> QED
      BY <3>1, StorageConstants DEF Thousandths
  <2>2. \A w \in Workers : worker[w].call = "judge" => worker[w].id \in DOMAIN challenges[worker[w].peer]
    BY <1>1 DEF StorageInv, RequestInv
  <2> QED
    BY <2>1, <2>2 DEF TypeOK
<1> QED
  BY <1>1, StorageInvariance, PTL

-----------------------------------------------------------------------------
(* A verdict is folded in once. *)

\* The rows with a verdict can be counted.
LEMMA VerdictsFinite ==
    ASSUME StorageInv, NEW p \in Peers
    PROVE  IsFiniteSet(VerdictsOf(p)) /\ Cardinality(VerdictsOf(p)) \in Nat
<1>1. challenges[p] \in Seq(Challenge)
  BY DEF StorageInv, RowsTyped
<1>2. DOMAIN challenges[p] = 1 .. Len(challenges[p]) /\ Len(challenges[p]) \in Nat
  BY <1>1
<1>3. IsFiniteSet(1 .. Len(challenges[p]))
  BY <1>2, FS_Interval
<1>4. VerdictsOf(p) \subseteq 1 .. Len(challenges[p])
  BY <1>2 DEF VerdictsOf
<1> QED
  BY <1>3, <1>4, FS_Subset, FS_CardinalityType

\* Every step adds a row with a verdict when it adds to proofAnswered.
LEMMA FoldStep ==
    ASSUME "cut" \notin Faults, StorageInv, StorageInv', FoldedOnce, [Next]_vars
    PROVE  FoldedOnce'
<1> SUFFICES ASSUME NEW p \in Peers
             PROVE  node'[p].answered <= Cardinality(VerdictsOf(p)')
  BY DEF FoldedOnce
<1>1. Evolved /\ ScoredAt(p)
  BY RowsEvolve, ScoresFollow DEF Scored
<1>2. VerdictsOf(p) \subseteq VerdictsOf(p)'
  BY <1>1 DEF Evolved, VerdictsOf
<1>3. /\ IsFiniteSet(VerdictsOf(p)) /\ Cardinality(VerdictsOf(p)) \in Nat
      /\ IsFiniteSet(VerdictsOf(p)') /\ Cardinality(VerdictsOf(p)') \in Nat
  <2>1. IsFiniteSet(VerdictsOf(p)) /\ Cardinality(VerdictsOf(p)) \in Nat
    BY VerdictsFinite
  <2>2. (IsFiniteSet(VerdictsOf(p)) /\ Cardinality(VerdictsOf(p)) \in Nat)'
    BY VerdictsFinite, PTL
  <2> QED
    BY <2>1, <2>2
<1>4. node[p].answered <= Cardinality(VerdictsOf(p)) /\ node[p].answered \in Nat
  BY DEF FoldedOnce, StorageInv, RowsTyped, NodeRow
<1>5. Cardinality(VerdictsOf(p)) <= Cardinality(VerdictsOf(p)')
  BY <1>2, <1>3, FS_Subset
<1>6. CASE node'[p].answered = node[p].answered
  BY <1>3, <1>4, <1>5, <1>6
<1>7. ASSUME NEW k, k \in VerdictsOf(p)', k \notin VerdictsOf(p),
             node'[p].answered = node[p].answered + 1
      PROVE  node'[p].answered <= Cardinality(VerdictsOf(p)')
  <2>1. Cardinality(VerdictsOf(p)') # Cardinality(VerdictsOf(p))
    BY <1>2, <1>3, <1>7, FS_Subset
  <2> QED
    BY <1>3, <1>4, <1>5, <1>7, <2>1
<1>8. ASSUME NEW k \in DOMAIN challenges[p], challenges[p][k].verdict = "null",
             challenges'[p][k].verdict # "null"
      PROVE  k \in VerdictsOf(p)' /\ k \notin VerdictsOf(p)
  BY <1>1, <1>8 DEF VerdictsOf, Evolved
<1>9. ASSUME OverdueOf(p) # {}, node[p].answered > 0, expireChallenges
      PROVE  \E k \in DOMAIN challenges[p] :
                challenges[p][k].verdict = "null" /\ challenges'[p][k].verdict # "null"
  <2>1. PICK k : k \in OverdueOf(p)
    BY <1>9
  <2>2. /\ k \in DOMAIN challenges[p] /\ ~challenges[p][k].answered
        /\ challenges[p][k].verdict = "null" /\ challenges[p][k] \in Challenge
    BY <2>1, RowType DEF OverdueOf, StorageInv, RowInv
  <2>3. challenges'[p][k] = [challenges[p][k] EXCEPT !.answered = TRUE, !.verdict = "fail"]
    BY <1>9, <2>1, <2>2, CloseRows DEF expireChallenges, StorageInv
  <2>4. challenges'[p][k].verdict = "fail"
    BY <2>2, <2>3 DEF Challenge
  <2> QED
    BY <2>2, <2>4
<1>10. ~ExpireCut
  BY DEF ExpireCut
<1> QED
  BY <1>1, <1>6, <1>7, <1>8, <1>9, <1>10 DEF ScoredAt

\* A verdict is folded into a node's score once, whatever threads claim, judge and expire
\* at the same time, as long as the process does not end between the two statements of
\* expireChallenges() (recordProofResult: "a verdict is folded in once").
THEOREM VerdictsFoldedOnce ==
    ASSUME "cut" \notin Faults
    PROVE  Spec => []FoldedOnce
<1>1. Init => FoldedOnce
  <2> SUFFICES ASSUME Init, NEW p \in Peers
               PROVE  node[p].answered <= Cardinality(VerdictsOf(p))
    BY DEF FoldedOnce
  <2>1. node[p].answered = 0 /\ VerdictsOf(p) = {}
    BY DEF Init, VerdictsOf
  <2> QED
    BY <2>1, FS_EmptySet
<1>2. StorageInv /\ StorageInv' /\ FoldedOnce /\ [Next]_vars => FoldedOnce'
  BY FoldStep
<1> QED
  BY <1>1, <1>2, StorageInvariance, PTL DEF Spec

-----------------------------------------------------------------------------
(* Action properties. *)

\* A node that holds its files and answers loses score only by a challenge whose reply or
\* whose answer was lost, never by one the pool received, with any races, restarts and
\* unreadable files of the pool (claimChallenge, recordProofResult, expireChallenges).
THEOREM HonestLoseOnlyForTheLost == Spec => OnlyForTheLost
<1>1. ASSUME StorageInv, [Next]_vars, NEW p \in honest, node'[p].score < node[p].score
      PROVE  \E k \in OverdueOf(p) : challenges[p][k].proof # "sent"
  <2>1. p \in Peers
    BY <1>1 DEF StorageInv, RowsTyped
  <2>2. OverdueOf(p) # {}
    BY <1>1, <2>1, ScoresFollow DEF Scored, ScoredAt
  <2>3. PICK k : k \in OverdueOf(p)
    BY <2>2
  <2>4. challenges[p][k].proof # "sent"
    BY <1>1, <2>1, <2>3 DEF OverdueOf, StorageInv, RowInv
  <2> QED
    BY <2>3, <2>4
<1>2. StorageInv /\ [Next]_vars =>
        [\A p \in honest : node'[p].score < node[p].score =>
            \E k \in OverdueOf(p) : challenges[p][k].proof # "sent"]_vars
  BY <1>1
<1> QED
  BY <1>2, StorageInvariance, PTL DEF Spec, OnlyForTheLost

\* Whatever verify rounds, verdicts and days of silence do to the paid set, a file moves
\* only from a node that is gone or to one that is new (StoragePlan.h: "adding or losing a
\* node moves only the files that node held").
THEOREM FilesMoveOnlyWithTheirNodes == Spec => OnlyItsFilesMove
<1> DEFINE A == \A c \in Cids : \A n \in paid \cap paid' :
        /\ n \in assignees(c, paid) \ assignees(c, paid') =>
                \E m \in paid' \ paid : m \in assignees(c, paid')
        /\ n \in assignees(c, paid') \ assignees(c, paid) =>
                \E m \in paid \ paid' : m \in assignees(c, paid)
<1>1. paid \in SUBSET Peers /\ paid' \in SUBSET Peers
  BY DEF paid, paidSet, Eligible
<1>2. A
  BY <1>1, OnlyNewcomersTake
<1>3. [A]_vars
  BY <1>2
<1> QED
  BY <1>3, PTL DEF OnlyItsFilesMove
================================================================================
