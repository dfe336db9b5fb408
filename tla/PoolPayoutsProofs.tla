-------------------------- MODULE PoolPayoutsProofs --------------------------
(***************************************************************************)
(* Proofs about the payout path, for any pools, nodes, weights, balances   *)
(* and settings, any lost answers and failed ledger writes, and a process  *)
(* that ends at any step.                                                  *)
(***************************************************************************)
EXTENDS PoolPayouts, FiniteSetTheorems, WellFoundedInduction, TLAPS

-----------------------------------------------------------------------------
(* The greatest row of a ledger. *)

\* A bounded set of numbers has the maximum that "SELECT MAX" answers.
LEMMA MaxProps ==
    ASSUME NEW S \in SUBSET Nat, S # {}, NEW b \in Nat, \A x \in S : x <= b
    PROVE  /\ Max(S) \in S
           /\ \A x \in S : x <= Max(S)
<1> DEFINE T == {b - x : x \in S}
<1>0. \A x \in S : b - x \in Nat
  OBVIOUS
<1>1. T \subseteq Nat /\ T # {}
  BY <1>0
<1>2. PICK t \in T : \A u \in T : ~(<<u, t>> \in OpToRel(<, Nat))
  BY <1>1, NatLessThanWellFounded, WFMin
<1>3. ASSUME NEW u \in T
      PROVE  t <= u
  <2>1. u \in Nat /\ t \in Nat
    BY <1>1, <1>2
  <2>2. u < t => <<u, t>> \in OpToRel(<, Nat)
    BY <2>1 DEF OpToRel
  <2>3. ~(u < t)
    BY <1>2, <2>2, Zenon
  <2> QED
    BY <2>1, <2>3
<1>4. PICK m \in S : t = b - m
  BY <1>2
<1>5. \A x \in S : m >= x
  BY <1>3, <1>4
<1> QED
  BY <1>4, <1>5 DEF Max

\* What the table holds for the arithmetic on it: rows of the past, ids below a bound.
LedgerTyped(p) ==
    /\ \E b \in Nat : \A r \in ledger[p] : r.id <= b
    /\ \A r \in ledger[p] : r.id \in Nat /\ r.owedAt \in 1 .. now

\* getLastPayoutAt is at least the time of every row, and the time of one unless it is 0.
LEMMA LastPayout ==
    ASSUME NEW p, now \in Nat, LedgerTyped(p)
    PROVE  /\ getLastPayoutAt(p) \in Nat
           /\ \A r \in ledger[p] : r.owedAt <= getLastPayoutAt(p)
<1> DEFINE S == {0} \cup {r.owedAt : r \in ledger[p]}
<1>1. S \in SUBSET Nat /\ S # {} /\ \A x \in S : x <= now
  BY DEF LedgerTyped
<1> HIDE DEF S
<1>2. Max(S) \in S /\ \A x \in S : x <= Max(S)
  BY <1>1, MaxProps
<1> QED
  BY <1>1, <1>2 DEF getLastPayoutAt, S

\* A new row's id is greater than every other.
LEMMA FreshId ==
    ASSUME NEW p, now \in Nat, LedgerTyped(p)
    PROVE  NextId(p) \in Nat \ {0} /\ \A r \in ledger[p] : r.id < NextId(p)
<1> DEFINE S == {0} \cup {r.id : r \in ledger[p]}
<1>1. PICK b \in Nat : \A r \in ledger[p] : r.id <= b
  BY DEF LedgerTyped
<1>2. S \in SUBSET Nat /\ S # {} /\ \A x \in S : x <= b
  BY <1>1 DEF LedgerTyped
<1> HIDE DEF S
<1>3. Max(S) \in S /\ \A x \in S : x <= Max(S)
  BY <1>2, MaxProps
<1> QED
  BY <1>2, <1>3 DEF NextId, S, LedgerTyped

\* When the period has elapsed, every row is at least a period old.
LEMMA ElapsedIsOld ==
    ASSUME NEW p, now \in Nat, LedgerTyped(p), Elapsed(getLastPayoutAt(p))
    PROVE  \A r \in ledger[p] : now - r.owedAt >= Period
BY LastPayout, PayoutConstants DEF Elapsed, LedgerTyped

-----------------------------------------------------------------------------
(* The shape of the state. *)

Fields == {"pc", "awaiting", "pending", "scale", "balance", "blind", "nextAttempt", "guard",
           "unlocked", "reply", "todo"}

Shape ==
    /\ now \in Nat \ {0}
    /\ DOMAIN ledger = Pools /\ DOMAIN dash = Pools
    /\ \A p \in Pools : LedgerTyped(p) /\ DOMAIN dash[p] = Fields
    /\ announce \in [Pools -> BOOLEAN] /\ locked \in [Pools -> BOOLEAN]
    /\ \E S : chain \in Seq(S)

\* The period has elapsed, or the plan was made from a failed read.
DueOrBlind(p, d) == Elapsed(getLastPayoutAt(p)) \/ d.blind = TRUE

\* planPayout sets the plan and what it was computed from, and plans only when the
\* period has elapsed or it could not read the ledger.
LEMMA PlanKeeps ==
    ASSUME NEW p, NEW d, DOMAIN d = Fields, NEW e \in Plan(p, d)
    PROVE  /\ DOMAIN e = Fields
           /\ e.pc = d.pc /\ e.awaiting = d.awaiting /\ e.nextAttempt = d.nextAttempt
           /\ e.guard = d.guard /\ e.unlocked = d.unlocked
           /\ e.reply = d.reply /\ e.todo = d.todo
           /\ e.pending # <<>> => DueOrBlind(p, e)
<1>1. PICK last, weights, balance, peers, dropped :
          e = planPayout(p, d, last, weights, balance, peers, dropped)
  BY DEF Plan
<1> DEFINE budget == computeBudget(balance, Cardinality(DOMAIN weights))
           plan == IF /\ DOMAIN weights # {} /\ Elapsed(last)
                      /\ budget > 0 /\ Total(weights) > 0
                   THEN Planned(weights, budget, UNION {PaidWithin(q) : q \in peers}, dropped)
                   ELSE <<>>
           blind == last # getLastPayoutAt(p)
<1>2. plan # <<>> => Elapsed(last)
  OBVIOUS
<1>3. e = IF plan = <<>> THEN [d EXCEPT !.pending = <<>>]
          ELSE [d EXCEPT !.pending = plan, !.scale = 100 * Total(weights), !.balance = balance,
                         !.blind = blind]
  BY <1>1 DEF planPayout
<1>4. blind = TRUE \/ last = getLastPayoutAt(p)
  OBVIOUS
<1> HIDE DEF plan, blind
<1>5. CASE plan = <<>>
  BY <1>3, <1>5 DEF Fields
<1>6. CASE plan # <<>>
  <2>1. DOMAIN e = Fields /\ e.blind = blind
    BY <1>3, <1>6 DEF Fields
  <2>2. DueOrBlind(p, e)
    BY <1>2, <1>4, <1>6, <2>1 DEF DueOrBlind
  <2> QED
    BY <1>3, <1>6, <2>2 DEF Fields
<1> QED
  BY <1>5, <1>6

\* [E] leaves the dashboard idle, and waiting for [Y] only when a payout is due.
LEMMA AfterPressE ==
    ASSUME Shape, NEW p \in Pools, PressE(p)
    PROVE  /\ DOMAIN dash' = Pools /\ \A q \in Pools \ {p} : dash'[q] = dash[q]
           /\ DOMAIN dash'[p] = Fields /\ dash'[p].pc = "idle"
           /\ dash'[p].awaiting => DueOrBlind(p, dash'[p])
<1>1. PICK d \in Plan(p, dash[p]) :
          dash' = [dash EXCEPT ![p] = [d EXCEPT !.awaiting = (d.pending # <<>>)]]
  BY DEF PressE
<1>2. DOMAIN d = Fields /\ d.pc = dash[p].pc /\ (d.pending # <<>> => DueOrBlind(p, d))
  BY <1>1, PlanKeeps DEF Shape
<1>3. dash[p].pc = "idle"
  BY DEF PressE
<1> DEFINE e == [d EXCEPT !.awaiting = (d.pending # <<>>)]
<1>4. DOMAIN e = Fields /\ e.pc = d.pc /\ e.awaiting = (d.pending # <<>>) /\ e.blind = d.blind
  BY <1>2 DEF Fields
<1>5. DOMAIN dash' = Pools /\ dash'[p] = e /\ \A q \in Pools \ {p} : dash'[q] = dash[q]
  BY <1>1 DEF Shape
<1> HIDE DEF e
<1>6. e.awaiting => DueOrBlind(p, e)
  BY <1>2, <1>4 DEF DueOrBlind
<1> QED
  BY <1>2, <1>3, <1>4, <1>5, <1>6

\* The automatic payout begins only when one is due, or the ledger could not be read.
LEMMA AfterAuto ==
    ASSUME Shape, NEW p \in Pools, maybeAutoPayout(p)
    PROVE  /\ DOMAIN dash' = Pools /\ \A q \in Pools \ {p} : dash'[q] = dash[q]
           /\ DOMAIN dash'[p] = Fields /\ dash'[p].pc \in {"idle", "unlock"}
           /\ dash'[p].pc = "unlock" => DueOrBlind(p, dash'[p])
           /\ ~dash'[p].awaiting
<1>1. PICK d \in Plan(p, [dash[p] EXCEPT !.nextAttempt = now + 1]) :
          dash' = [dash EXCEPT ![p] = [d EXCEPT !.pc = IF d.pending = <<>> THEN "idle" ELSE "unlock"]]
  BY DEF maybeAutoPayout
<1> DEFINE c == [dash[p] EXCEPT !.nextAttempt = now + 1]
           e == [d EXCEPT !.pc = IF d.pending = <<>> THEN "idle" ELSE "unlock"]
<1>2. DOMAIN c = Fields /\ c.awaiting = dash[p].awaiting
  BY DEF Shape, Fields
<1>3. d \in Plan(p, c)
  BY <1>1
<1> HIDE DEF c
<1>4. DOMAIN d = Fields /\ d.awaiting = c.awaiting /\ (d.pending # <<>> => DueOrBlind(p, d))
  <2>1. ASSUME NEW b, DOMAIN b = Fields, d \in Plan(p, b)
        PROVE  /\ DOMAIN d = Fields /\ d.awaiting = b.awaiting
               /\ d.pending # <<>> => DueOrBlind(p, d)
    BY <2>1, PlanKeeps
  <2> QED
    BY <1>2, <1>3, <2>1
<1>5. /\ DOMAIN e = Fields /\ e.pc \in {"idle", "unlock"} /\ e.awaiting = d.awaiting
      /\ e.blind = d.blind /\ (e.pc = "unlock" => d.pending # <<>>)
  BY <1>4 DEF Fields
<1>6. DOMAIN dash' = Pools /\ dash'[p] = e /\ \A q \in Pools \ {p} : dash'[q] = dash[q]
  BY <1>1 DEF Shape
<1> HIDE DEF e
<1>7. ~dash[p].awaiting
  BY DEF maybeAutoPayout, AutoDue
<1>8. e.pc = "unlock" => DueOrBlind(p, e)
  BY <1>4, <1>5 DEF DueOrBlind
<1> QED
  BY <1>2, <1>4, <1>5, <1>6, <1>7, <1>8

\* An INSERT adds the row or nothing, to the ledger of this pool only.
LEMMA InsertKeeps ==
    ASSUME Shape, NEW p \in Pools, NEW kind, NEW address, NEW sat, NEW txid,
           Insert(p, kind, address, sat, txid), now' = now
    PROVE  /\ DOMAIN ledger' = Pools
           /\ \A q \in Pools : LedgerTyped(q)'
           /\ \A q \in Pools \ {p} : ledger'[q] = ledger[q]
           /\ \/ ledger'[p] = ledger[p] \cup {Row(NextId(p), address, sat, txid)}
              \/ kind \in Faults /\ ledger' = ledger
<1> DEFINE r == Row(NextId(p), address, sat, txid)
<1>1. NextId(p) \in Nat \ {0} /\ \A s \in ledger[p] : s.id < NextId(p)
  BY FreshId DEF Shape
<1>2. r.id = NextId(p) /\ r.owedAt = now
  BY DEF Row
<1>3. CASE ledger' = [ledger EXCEPT ![p] = @ \cup {r}]
  <2>1. ledger'[p] = ledger[p] \cup {r} /\ \A q \in Pools \ {p} : ledger'[q] = ledger[q]
    BY <1>3 DEF Shape
  <2> HIDE DEF r
  <2>2. \A s \in ledger'[p] : s.id <= NextId(p) /\ s.id \in Nat /\ s.owedAt \in 1 .. now
    BY <1>1, <1>2, <2>1 DEF Shape, LedgerTyped
  <2>3. LedgerTyped(p)'
    BY <1>1, <2>2 DEF LedgerTyped
  <2>4. \A q \in Pools \ {p} : LedgerTyped(q)'
    BY <2>1 DEF LedgerTyped, Shape
  <2> QED
    BY <1>3, <2>1, <2>3, <2>4 DEF Shape, r
<1>4. CASE kind \in Faults /\ UNCHANGED ledger
  BY <1>4 DEF Shape, LedgerTyped
<1> QED
  BY <1>3, <1>4 DEF Insert

\* The batch that goes out is the last one of the chain.
LEMMA BroadcastKeeps ==
    ASSUME NEW p, NEW S, chain \in Seq(S), chain' = Broadcast(p)
    PROVE  /\ \E T : chain' \in Seq(T)
           /\ Len(chain') = Len(chain) + 1 /\ DOMAIN chain' = 1 .. Len(chain) + 1
           /\ DOMAIN chain = 1 .. Len(chain) /\ Len(chain) \in Nat
           /\ \A i \in DOMAIN chain : chain'[i] = chain[i]
           /\ chain'[Len(chain) + 1].pool = p /\ chain'[Len(chain) + 1].at = now
           /\ chain'[Len(chain) + 1].outs = Batch(dash[p])
           /\ chain'[Len(chain) + 1].balance = dash[p].balance
           /\ chain'[Len(chain) + 1].blind = dash[p].blind
           /\ chain'[Len(chain) + 1].guarded = (dash[p].guard # NoGuard)
<1> DEFINE tx == [pool |-> p, at |-> now, outs |-> Batch(dash[p]), balance |-> dash[p].balance,
                  blind |-> dash[p].blind, guarded |-> dash[p].guard # NoGuard]
<1>1. chain' = Append(chain, tx)
  BY DEF Broadcast
<1> HIDE DEF tx
<1>2. chain \in Seq(S \cup {tx}) /\ tx \in S \cup {tx}
  OBVIOUS
<1>3. /\ chain' \in Seq(S \cup {tx}) /\ Len(chain') = Len(chain) + 1
      /\ \A i \in 1 .. Len(chain) : chain'[i] = chain[i]
      /\ chain'[Len(chain) + 1] = tx
  BY <1>1, <1>2
<1>4. /\ tx.pool = p /\ tx.at = now /\ tx.outs = Batch(dash[p])
      /\ tx.balance = dash[p].balance /\ tx.blind = dash[p].blind
      /\ tx.guarded = (dash[p].guard # NoGuard)
  BY DEF tx
<1> QED
  BY <1>2, <1>3, <1>4

\* The shape is kept by every step.
LEMMA ShapeStep ==
    ASSUME Shape, [Next]_vars
    PROVE  Shape'
<1> USE DEF Shape
<1>1. CASE Tick
  <2>1. now' = now + 1 /\ UNCHANGED <<ledger, dash, announce, chain>> /\ locked' = [p \in Pools |-> TRUE]
    BY <1>1 DEF Tick
  <2>2. \A p \in Pools : LedgerTyped(p)'
    BY <2>1 DEF LedgerTyped
  <2> QED
    BY <2>1, <2>2
<1>2. ASSUME NEW p \in Pools, PressE(p)
      PROVE  Shape'
  BY <1>2, AfterPressE DEF PressE, LedgerTyped
<1>3. ASSUME NEW p \in Pools, PressY(p)
      PROVE  Shape'
  BY <1>3 DEF PressY, LedgerTyped
<1>4. ASSUME NEW p \in Pools, PressOther(p)
      PROVE  Shape'
  BY <1>4 DEF PressOther, LedgerTyped, Finished, Idle, Fields
<1>5. ASSUME NEW p \in Pools, maybeAutoPayout(p)
      PROVE  Shape'
  BY <1>5, AfterAuto DEF maybeAutoPayout, LedgerTyped
<1>6. ASSUME NEW p \in Pools, walletUnlock(p)
      PROVE  Shape'
  BY <1>6 DEF walletUnlock, LedgerTyped
<1>7. ASSUME NEW p \in Pools, beginPayoutPeriod(p)
      PROVE  Shape'
  <2>1. DOMAIN ledger' = Pools /\ \A q \in Pools : LedgerTyped(q)'
    BY <1>7, InsertKeeps DEF beginPayoutPeriod
  <2> QED
    BY <1>7, <2>1 DEF beginPayoutPeriod
<1>8. ASSUME NEW p \in Pools, sendMany(p)
      PROVE  Shape'
  <2>0. PICK S : chain \in Seq(S)
    OBVIOUS
  <2>1. \E T : chain' \in Seq(T)
    <3>1. chain' = Broadcast(p) \/ chain' = chain
      BY <1>8 DEF sendMany
    <3>2. CASE chain' = Broadcast(p)
      BY <2>0, <3>2, BroadcastKeeps
    <3> QED
      BY <2>0, <3>1, <3>2
  <2>2. DOMAIN dash' = Pools /\ \A q \in Pools : DOMAIN dash'[q] = Fields
    BY <1>8 DEF sendMany
  <2> QED
    BY <1>8, <2>1, <2>2 DEF sendMany, LedgerTyped
<1>9. ASSUME NEW p \in Pools, abortPayoutPeriod(p)
      PROVE  Shape'
  BY <1>9 DEF abortPayoutPeriod, LedgerTyped, WalletAfter, Finished, Idle, Fields
<1>10. ASSUME NEW p \in Pools, recordPayout(p)
       PROVE  Shape'
  <2>1. DOMAIN ledger' = Pools /\ \A q \in Pools : LedgerTyped(q)'
    BY <1>10, InsertKeeps DEF recordPayout
  <2> QED
    BY <1>10, <2>1 DEF recordPayout
<1>11. ASSUME NEW p \in Pools, recorded(p)
       PROVE  Shape'
  BY <1>11 DEF recorded, LedgerTyped, WalletAfter, Finished, Idle, Fields
<1>12. ASSUME NEW p \in Pools, doOnchainAnnounce(p) \/ Announced(p) \/ Restart(p)
       PROVE  Shape'
  BY <1>12 DEF doOnchainAnnounce, Announced, Restart, LedgerTyped, Idle, Fields
<1>13. CASE UNCHANGED vars
  BY <1>13 DEF vars, LedgerTyped
<1> QED
  BY <1>1, <1>2, <1>3, <1>4, <1>5, <1>6, <1>7, <1>8, <1>9, <1>10, <1>11, <1>12, <1>13
  DEF Next, Pool

\* A payout that opened the wallet finds it open, and the announce thread is out of it.
WalletInv ==
    /\ SpendUnlocked
    /\ \A p \in Pools : announce[p] => ~InPayout(p)

\* Every step keeps the wallet to one thread.
LEMMA WalletStep ==
    ASSUME Shape, WalletInv, [Next]_vars
    PROVE  WalletInv'
<1> USE DEF Shape, WalletInv, SpendUnlocked, InPayout
<1>1. CASE Tick
  BY <1>1 DEF Tick, Quiet
<1>2. ASSUME NEW p \in Pools, PressE(p)
      PROVE  WalletInv'
  BY <1>2, AfterPressE DEF PressE
<1>3. ASSUME NEW p \in Pools, maybeAutoPayout(p)
      PROVE  WalletInv'
  BY <1>3, AfterAuto DEF maybeAutoPayout
<1>4. ASSUME NEW p \in Pools, PressY(p) \/ PressOther(p)
      PROVE  WalletInv'
  <2>1. UNCHANGED <<announce, locked>> /\ DOMAIN dash' = Pools
    BY <1>4 DEF PressY, PressOther
  <2>2. dash'[p].pc \in {"idle", "unlock"} /\ \A q \in Pools \ {p} : dash'[q] = dash[q]
    BY <1>4 DEF PressY, PressOther, Finished, Idle, Fields
  <2> QED
    BY <2>1, <2>2
<1>5. ASSUME NEW p \in Pools, walletUnlock(p)
      PROVE  WalletInv'
  BY <1>5 DEF walletUnlock, WalletFree, Fields
<1>6. ASSUME NEW p \in Pools, beginPayoutPeriod(p) \/ recordPayout(p)
      PROVE  WalletInv'
  BY <1>6 DEF beginPayoutPeriod, recordPayout, Fields
<1>7. ASSUME NEW p \in Pools, sendMany(p)
      PROVE  WalletInv'
  BY <1>7 DEF sendMany, Fields
<1>8. ASSUME NEW p \in Pools, abortPayoutPeriod(p) \/ recorded(p)
      PROVE  WalletInv'
  BY <1>8 DEF abortPayoutPeriod, recorded, WalletAfter, Finished, Idle, Fields
<1>9. ASSUME NEW p \in Pools, doOnchainAnnounce(p) \/ Announced(p)
      PROVE  WalletInv'
  BY <1>9 DEF doOnchainAnnounce, Announced
<1>10. ASSUME NEW p \in Pools, Restart(p)
       PROVE  WalletInv'
  BY <1>10 DEF Restart, Idle
<1>11. CASE UNCHANGED vars
  BY <1>11 DEF vars
<1> QED
  BY <1>1, <1>2, <1>3, <1>4, <1>5, <1>6, <1>7, <1>8, <1>9, <1>10, <1>11 DEF Next, Pool

\* The state the proofs start from.
LEMMA ShapeInit ==
    ASSUME Init
    PROVE  Shape
<1>1. chain \in Seq({})
  BY DEF Init
<1>2. \A p \in Pools : ledger[p] = {} /\ dash[p] = Idle
  BY DEF Init
<1>3. \A p \in Pools : LedgerTyped(p) /\ DOMAIN dash[p] = Fields
  BY <1>2 DEF LedgerTyped, Idle, Fields
<1> QED
  BY <1>1, <1>3 DEF Init, Shape

\* The shape holds throughout.
LEMMA ShapeInvariance == Spec => []Shape
<1>1. Init => Shape
  BY ShapeInit
<1>2. Shape /\ [Next]_vars => Shape'
  BY ShapeStep
<1> QED
  BY <1>1, <1>2, PTL DEF Spec

\* The announce thread never locks the wallet under a payout that opened it
\* (poolWalletMutex, executePayout, doOnchainAnnounce).
THEOREM WalletExclusion == Spec => []SpendUnlocked
<1>1. Init => WalletInv
  BY DEF Init, WalletInv, SpendUnlocked, InPayout, Idle
<1>2. Shape /\ WalletInv /\ [Next]_vars => WalletInv'
  BY WalletStep
<1>3. WalletInv => SpendUnlocked
  BY DEF WalletInv
<1> QED
  BY <1>1, <1>2, <1>3, ShapeInvariance, PTL DEF Spec

-----------------------------------------------------------------------------
(* One batch a period. *)

\* Every guarded batch of pool p is at least a period old.
BatchesOld(p) ==
    \A i \in DOMAIN chain : chain[i].pool = p /\ chain[i].guarded => now - chain[i].at >= Period

\* The execution in hand may still take row r back.
Retractable(p, r) == dash[p].pc \in {"send", "abort"} /\ r.id = dash[p].guard

\* The guard row of the execution in hand, when it was written, is of this hour.
GuardHeld(p) ==
    dash[p].guard # NoGuard =>
        /\ \E r \in ledger[p] : r.id = dash[p].guard
        /\ \A r \in ledger[p] : r.id = dash[p].guard => r.owedAt = now

\* Pool p's ledger keeps a row of hour t.
Keeps(p, t) == \E r \in ledger[p] : r.owedAt = t /\ ~Retractable(p, r)

\* Every guarded batch has left a row of its hour that no later execution takes back, so
\* the rows tell when a payout is due.
Witnessed ==
    \A i \in DOMAIN chain :
        /\ chain[i].pool \in Pools /\ chain[i].at \in Nat
        /\ chain[i].guarded => Keeps(chain[i].pool, chain[i].at)

\* Between a check that read the ledger and the broadcast neither a row nor a guarded
\* batch of this period appears.
DueInv(p) ==
    /\ dash[p].awaiting => dash[p].pc = "idle"
    /\ dash[p].awaiting \/ dash[p].pc \in {"unlock", "guard"} =>
            dash[p].blind = TRUE \/ \A r \in ledger[p] : now - r.owedAt >= Period
    /\ dash[p].pc \in {"send", "abort"} =>
            GuardHeld(p) /\ (dash[p].blind = TRUE \/ BatchesOld(p))

PeriodInv == OncePerGuardedPeriod /\ Witnessed /\ \A p \in Pools : DueInv(p)

\* A step of pool p that broadcasts nothing has only its own ledger and its own place to
\* account for.
LEMMA PeriodFrame ==
    ASSUME Shape, PeriodInv, NEW p \in Pools, now' = now, chain' = chain,
           \A q \in Pools \ {p} : dash'[q] = dash[q] /\ ledger'[q] = ledger[q],
           \A t \in Nat : Keeps(p, t) => Keeps(p, t)',
           DueInv(p)'
    PROVE  PeriodInv'
<1>1. OncePerGuardedPeriod'
  BY DEF PeriodInv, OncePerGuardedPeriod
<1>2. \A q \in Pools \ {p} : DueInv(q)'
  BY DEF PeriodInv, DueInv, BatchesOld, GuardHeld
<1>3. ASSUME NEW q \in Pools, NEW t \in Nat, Keeps(q, t)
      PROVE  Keeps(q, t)'
  <2>1. CASE q = p
    BY <1>3, <2>1
  <2>2. CASE q # p
    BY <1>3, <2>2 DEF Keeps, Retractable
  <2> QED
    BY <2>1, <2>2
<1>4. Witnessed'
  BY <1>3 DEF PeriodInv, Witnessed
<1> QED
  BY <1>1, <1>2, <1>4 DEF PeriodInv

\* A step that takes no row back and begins no execution keeps the rows.
LEMMA RowsKept ==
    ASSUME NEW p, ledger[p] \subseteq ledger'[p],
           dash'[p].pc \in {"send", "abort"} =>
               dash[p].pc \in {"send", "abort"} /\ dash'[p].guard = dash[p].guard
    PROVE  \A t \in Nat : Keeps(p, t) => Keeps(p, t)'
BY DEF Keeps, Retractable

\* When every row of a pool is at least a period old, so is every guarded batch.
LEMMA BatchesOldWhenDue ==
    ASSUME PeriodInv, NEW p \in Pools, \A r \in ledger[p] : now - r.owedAt >= Period
    PROVE  BatchesOld(p)
BY DEF PeriodInv, Witnessed, BatchesOld, Keeps

\* Every step keeps the rows and the batches together.
LEMMA PeriodStep ==
    ASSUME Shape, PeriodInv, [Next]_vars
    PROVE  PeriodInv'
<1> USE PayoutConstants DEF Shape
<1>1. CASE Tick
  <2>1. now' = now + 1 /\ ledger' = ledger /\ dash' = dash /\ chain' = chain
    BY <1>1 DEF Tick
  <2>2. \A p \in Pools : dash[p].pc = "idle"
    BY <1>1 DEF Tick, Quiet
  <2>3. OncePerGuardedPeriod' /\ Witnessed'
    BY <2>1 DEF PeriodInv, OncePerGuardedPeriod, Witnessed, Keeps, Retractable
  <2>4. \A p \in Pools : DueInv(p)'
    BY <2>1, <2>2 DEF PeriodInv, DueInv, LedgerTyped
  <2> QED
    BY <2>3, <2>4 DEF PeriodInv
<1>2. ASSUME NEW p \in Pools, PressE(p)
      PROVE  PeriodInv'
  <2>1. DueInv(p)'
    BY <1>2, AfterPressE, ElapsedIsOld DEF PressE, DueInv, DueOrBlind
  <2> QED
    BY <1>2, <2>1, AfterPressE, RowsKept, PeriodFrame DEF PressE
<1>3. ASSUME NEW p \in Pools, PressY(p)
      PROVE  PeriodInv'
  <2>1. DueInv(p)'
    BY <1>3 DEF PressY, DueInv, PeriodInv, Fields
  <2> QED
    BY <1>3, <2>1, RowsKept, PeriodFrame DEF PressY
<1>4. ASSUME NEW p \in Pools, PressOther(p)
      PROVE  PeriodInv'
  <2>1. DueInv(p)'
    BY <1>4 DEF PressOther, DueInv, Finished, Idle
  <2>2. dash'[p].pc = "idle" /\ \A q \in Pools \ {p} : dash'[q] = dash[q]
    BY <1>4 DEF PressOther, Finished, Idle
  <2> QED
    BY <1>4, <2>1, <2>2, RowsKept, PeriodFrame DEF PressOther
<1>5. ASSUME NEW p \in Pools, maybeAutoPayout(p)
      PROVE  PeriodInv'
  <2>1. DueInv(p)'
    BY <1>5, AfterAuto, ElapsedIsOld DEF maybeAutoPayout, DueInv, DueOrBlind
  <2> QED
    BY <1>5, <2>1, AfterAuto, RowsKept, PeriodFrame DEF maybeAutoPayout
<1>6. ASSUME NEW p \in Pools, walletUnlock(p)
      PROVE  PeriodInv'
  <2>1. DueInv(p)'
    BY <1>6 DEF walletUnlock, DueInv, PeriodInv, Fields
  <2>2. dash'[p].pc = "guard" /\ \A q \in Pools \ {p} : dash'[q] = dash[q]
    BY <1>6 DEF walletUnlock, Fields
  <2> QED
    BY <1>6, <2>1, <2>2, RowsKept, PeriodFrame DEF walletUnlock
<1>7. ASSUME NEW p \in Pools, beginPayoutPeriod(p)
      PROVE  PeriodInv'
  <2> DEFINE r == Row(NextId(p), "__PERIOD_GUARD__", 0, NoTx)
  <2>1. /\ ledger'[p] = ledger[p] \cup {r} \/ ledger' = ledger
        /\ \A q \in Pools \ {p} : ledger'[q] = ledger[q]
    BY <1>7, InsertKeeps DEF beginPayoutPeriod
  <2>2. r.id = NextId(p) /\ r.owedAt = now
    BY DEF Row
  <2> HIDE DEF r
  <2>3. \A s \in ledger[p] : s.id < NextId(p) /\ s.id \in Nat
    BY FreshId DEF LedgerTyped
  <2>4. NextId(p) \in Nat /\ r \notin ledger[p]
    BY <2>2, <2>3, FreshId
  <2>5. /\ dash'[p].pc = "send" /\ dash'[p].awaiting = dash[p].awaiting
        /\ dash'[p].guard = IF ledger' = ledger THEN NoGuard ELSE NextId(p)
        /\ dash'[p].blind = dash[p].blind
        /\ \A q \in Pools \ {p} : dash'[q] = dash[q]
    BY <1>7 DEF beginPayoutPeriod, Fields
  <2>6. GuardHeld(p)'
    <3>1. CASE ledger' = ledger
      BY <2>5, <3>1 DEF GuardHeld
    <3>2. CASE ledger' # ledger
      <4>1. ledger'[p] = ledger[p] \cup {r} /\ dash'[p].guard = NextId(p) /\ now' = now
        BY <1>7, <2>1, <2>5, <3>2 DEF beginPayoutPeriod
      <4> QED
        BY <2>2, <2>3, <4>1 DEF GuardHeld
    <3> QED
      BY <3>1, <3>2
  <2>7. dash[p].blind = TRUE \/ BatchesOld(p)'
    <3>1. dash[p].blind = TRUE \/ \A s \in ledger[p] : now - s.owedAt >= Period
      BY <1>7 DEF PeriodInv, DueInv, beginPayoutPeriod
    <3> QED
      BY <1>7, <3>1, BatchesOldWhenDue DEF BatchesOld, beginPayoutPeriod
  <2>8. DueInv(p)'
    BY <1>7, <2>5, <2>6, <2>7 DEF DueInv, PeriodInv, beginPayoutPeriod
  <2>9. \A t \in Nat : Keeps(p, t) => Keeps(p, t)'
    BY <2>1, <2>3, <2>4, <2>5 DEF Keeps, Retractable, NoGuard
  <2> QED
    BY <1>7, <2>1, <2>5, <2>8, <2>9, PeriodFrame DEF beginPayoutPeriod
<1>8. ASSUME NEW p \in Pools, sendMany(p)
      PROVE  PeriodInv'
  <2>1. /\ now' = now /\ ledger' = ledger /\ \A q \in Pools \ {p} : dash'[q] = dash[q]
        /\ dash'[p].pc \in {"record", "abort"} /\ dash'[p].guard = dash[p].guard
        /\ dash'[p].awaiting = dash[p].awaiting /\ ~dash[p].awaiting
        /\ dash'[p].blind = dash[p].blind /\ dash[p].pc = "send"
    BY <1>8 DEF sendMany, Fields, PeriodInv, DueInv
  <2>2. GuardHeld(p) /\ (dash[p].blind = TRUE \/ BatchesOld(p))
    BY <2>1 DEF PeriodInv, DueInv
  <2>3. CASE chain' = chain
    <3>1. DueInv(p)'
      BY <2>1, <2>2, <2>3 DEF DueInv, BatchesOld, GuardHeld
    <3> QED
      BY <2>1, <2>3, <3>1, RowsKept, PeriodFrame
  <2>4. CASE chain' = Broadcast(p) /\ dash'[p].pc = "record"
    <3>1. PICK S : chain \in Seq(S)
      OBVIOUS
    <3>2. /\ DOMAIN chain' = 1 .. Len(chain) + 1 /\ DOMAIN chain = 1 .. Len(chain)
          /\ Len(chain) \in Nat
          /\ \A i \in DOMAIN chain : chain'[i] = chain[i]
          /\ chain'[Len(chain) + 1].pool = p /\ chain'[Len(chain) + 1].at = now
          /\ chain'[Len(chain) + 1].blind = dash[p].blind
          /\ chain'[Len(chain) + 1].guarded = (dash[p].guard # NoGuard)
      BY <2>4, <3>1, BroadcastKeeps
    <3>3. OncePerGuardedPeriod'
      <4>1. SUFFICES ASSUME NEW i \in DOMAIN chain', NEW j \in DOMAIN chain',
                            i < j, chain'[i].pool = chain'[j].pool,
                            chain'[i].guarded, ~chain'[j].blind
                     PROVE  chain'[j].at - chain'[i].at >= Period
        BY DEF OncePerGuardedPeriod
      <4>2. i \in DOMAIN chain
        BY <3>2, <4>1
      <4>3. CASE j \in DOMAIN chain
        BY <3>2, <4>1, <4>2, <4>3 DEF PeriodInv, OncePerGuardedPeriod
      <4>4. CASE j = Len(chain) + 1
        <5>1. dash[p].blind # TRUE
          BY <3>2, <4>1, <4>4
        <5>2. BatchesOld(p)
          BY <2>2, <5>1
        <5> QED
          BY <3>2, <4>1, <4>2, <4>4, <5>2 DEF BatchesOld
      <4> QED
        BY <3>2, <4>3, <4>4
    <3>4. Witnessed'
      <4>2. ASSUME NEW i \in DOMAIN chain
            PROVE  /\ chain'[i].pool \in Pools /\ chain'[i].at \in Nat
                   /\ chain'[i].guarded => Keeps(chain[i].pool, chain[i].at)'
        <5>1. /\ chain[i].pool \in Pools /\ chain[i].at \in Nat
              /\ chain[i].guarded => Keeps(chain[i].pool, chain[i].at)
          BY DEF PeriodInv, Witnessed
        <5>2. chain'[i] = chain[i]
          BY <3>2
        <5>3. chain[i].guarded => Keeps(chain[i].pool, chain[i].at)'
          <6>1. SUFFICES ASSUME chain[i].guarded PROVE Keeps(chain[i].pool, chain[i].at)'
            OBVIOUS
          <6>2. \E r \in ledger'[chain[i].pool] :
                    r.owedAt = chain[i].at
                    /\ ~(dash'[chain[i].pool].pc \in {"send", "abort"} /\ r.id = dash'[chain[i].pool].guard)
            <7>1. chain[i].pool \in Pools /\ chain[i].at \in Nat /\ Keeps(chain[i].pool, chain[i].at)
              BY <5>1, <6>1
            <7>2. PICK r \in ledger[chain[i].pool] :
                      r.owedAt = chain[i].at /\ ~Retractable(chain[i].pool, r)
              BY <7>1 DEF Keeps
            <7>3. ledger' = ledger
              BY <2>1
            <7>4. CASE chain[i].pool = p
              BY <2>1, <2>4, <7>2, <7>3, <7>4
            <7>5. CASE chain[i].pool # p
              <8>1. dash'[chain[i].pool] = dash[chain[i].pool]
                BY <2>1, <7>1, <7>5
              <8> QED
                BY <7>2, <7>3, <8>1 DEF Retractable
            <7> QED
              BY <7>4, <7>5
          <6> QED
            BY <5>2, <6>2 DEF Keeps, Retractable
        <5> QED
          BY <5>1, <5>2, <5>3
      <4>3. ASSUME NEW i, i = Len(chain) + 1
            PROVE  /\ chain'[i].pool \in Pools /\ chain'[i].at \in Nat
                   /\ chain'[i].guarded => Keeps(chain[i].pool, chain[i].at)'
        <5>1. chain'[i].pool = p /\ chain'[i].at = now /\ now \in Nat
          BY <3>2, <4>3
        <5>2. chain'[i].guarded => \E r \in ledger[p] : r.owedAt = now
          BY <2>2, <3>2, <4>3 DEF GuardHeld
        <5> QED
          BY <2>1, <2>4, <5>1, <5>2 DEF Keeps, Retractable
      <4> QED
        BY <3>2, <4>2, <4>3 DEF Witnessed
    <3>5. ASSUME NEW q \in Pools \ {p}, BatchesOld(q)
          PROVE  BatchesOld(q)'
      <4>1. SUFFICES ASSUME NEW i \in DOMAIN chain', chain'[i].pool = q, chain'[i].guarded
                     PROVE  now - chain'[i].at >= Period
        BY <2>1 DEF BatchesOld
      <4>2. i \in DOMAIN chain /\ chain'[i] = chain[i]
        BY <3>2, <4>1
      <4> QED
        BY <3>5, <4>1, <4>2 DEF BatchesOld
    <3>6. \A q \in Pools : DueInv(q)'
      BY <2>1, <2>4, <3>5 DEF PeriodInv, DueInv, GuardHeld
    <3> QED
      BY <3>3, <3>4, <3>6 DEF PeriodInv
  <2> QED
    BY <1>8, <2>3, <2>4 DEF sendMany, Fields
<1>9. ASSUME NEW p \in Pools, abortPayoutPeriod(p)
      PROVE  PeriodInv'
  <2>1. /\ now' = now /\ chain' = chain
        /\ \A q \in Pools \ {p} : dash'[q] = dash[q] /\ ledger'[q] = ledger[q]
        /\ dash[p].pc = "abort" /\ dash'[p].pc = "idle" /\ dash'[p].awaiting = FALSE
        /\ \/ ledger'[p] = {r \in ledger[p] : r.id # dash[p].guard}
           \/ ledger'[p] = ledger[p]
    BY <1>9 DEF abortPayoutPeriod, Finished, Idle
  <2>2. DueInv(p)'
    BY <2>1 DEF DueInv
  <2>3. \A t \in Nat : Keeps(p, t) => Keeps(p, t)'
    BY <2>1 DEF Keeps, Retractable
  <2> QED
    BY <2>1, <2>2, <2>3, PeriodFrame
<1>10. ASSUME NEW p \in Pools, recordPayout(p)
       PROVE  PeriodInv'
  <2>1. ledger[p] \subseteq ledger'[p] /\ \A q \in Pools \ {p} : ledger'[q] = ledger[q]
    BY <1>10, InsertKeeps DEF recordPayout
  <2>2. DueInv(p)'
    BY <1>10 DEF recordPayout, Fields, DueInv, PeriodInv
  <2>3. dash'[p].pc = "record" /\ \A q \in Pools \ {p} : dash'[q] = dash[q]
    BY <1>10 DEF recordPayout, Fields
  <2> QED
    BY <1>10, <2>1, <2>2, <2>3, RowsKept, PeriodFrame DEF recordPayout
<1>11. ASSUME NEW p \in Pools, recorded(p)
       PROVE  PeriodInv'
  <2>1. DueInv(p)'
    BY <1>11 DEF recorded, DueInv, Finished, Idle
  <2>2. dash'[p].pc = "idle" /\ \A q \in Pools \ {p} : dash'[q] = dash[q]
    BY <1>11 DEF recorded, Finished, Idle
  <2> QED
    BY <1>11, <2>1, <2>2, RowsKept, PeriodFrame DEF recorded
<1>12. ASSUME NEW p \in Pools, doOnchainAnnounce(p) \/ Announced(p)
       PROVE  PeriodInv'
  <2>1. DueInv(p)'
    BY <1>12 DEF doOnchainAnnounce, Announced, DueInv, PeriodInv, BatchesOld, GuardHeld
  <2> QED
    BY <1>12, <2>1, RowsKept, PeriodFrame DEF doOnchainAnnounce, Announced
<1>13. ASSUME NEW p \in Pools, Restart(p)
       PROVE  PeriodInv'
  <2>1. DueInv(p)'
    BY <1>13 DEF Restart, DueInv, Idle
  <2>2. dash'[p].pc = "idle" /\ \A q \in Pools \ {p} : dash'[q] = dash[q]
    BY <1>13 DEF Restart, Idle
  <2> QED
    BY <1>13, <2>1, <2>2, RowsKept, PeriodFrame DEF Restart
<1>14. CASE UNCHANGED vars
  BY <1>14 DEF vars, PeriodInv, DueInv, OncePerGuardedPeriod, Witnessed, BatchesOld, GuardHeld,
      Keeps, Retractable
<1> QED
  BY <1>1, <1>2, <1>3, <1>4, <1>5, <1>6, <1>7, <1>8, <1>9, <1>10, <1>11, <1>12, <1>13, <1>14
  DEF Next, Pool

\* "We never double-pay", with what it takes: two batches of one pool lie at least a
\* period apart, whatever answers are lost, rows of recipients fail, guards are taken back
\* and processes end, unless the earlier one had no guard row or the later one was planned
\* from a ledger that could not be read (planPayout, executePayout, beginPayoutPeriod,
\* abortPayoutPeriod).
THEOREM NeverPaidTwice == Spec => []OncePerGuardedPeriod
<1>1. Init => PeriodInv
  BY DEF Init, PeriodInv, OncePerGuardedPeriod, Witnessed, DueInv, Idle
<1>2. Shape /\ PeriodInv /\ [Next]_vars => PeriodInv'
  BY PeriodStep
<1>3. PeriodInv => OncePerGuardedPeriod
  BY DEF PeriodInv
<1> QED
  BY <1>1, <1>2, <1>3, ShapeInvariance, PTL DEF Spec

-----------------------------------------------------------------------------
(* The public ledger. *)

\* LedgerSound, for one pool.
SoundAt(p) ==
    \A r \in ledger[p] :
        r.txid # NoTx =>
            /\ chain[r.txid].pool = p
            /\ r.address \in DOMAIN chain[r.txid].outs /\ chain[r.txid].outs[r.address] = r.sat
            /\ \A s \in ledger[p] : s.txid = r.txid /\ s.address = r.address => s = r

\* A row names no transaction Core has not answered with.
TxidsKnown(p) == \A r \in ledger[p] : r.txid \in 0 .. Len(chain)

\* While the rows of a batch are written, the batch is the one that was broadcast, and
\* no row of it is there for an address still to be recorded.
Recording(p) ==
    dash[p].pc = "record" =>
        /\ dash[p].todo \subseteq DOMAIN dash[p].pending
        /\ dash[p].reply # Lost =>
            /\ dash[p].reply \in DOMAIN chain
            /\ chain[dash[p].reply].pool = p /\ chain[dash[p].reply].outs = Batch(dash[p])
            /\ \A r \in ledger[p] : r.txid = dash[p].reply => r.address \notin dash[p].todo

RecordInv == \A p \in Pools : SoundAt(p) /\ TxidsKnown(p) /\ Recording(p)

\* The chain only grows.
Grown ==
    /\ DOMAIN chain = 1 .. Len(chain) /\ DOMAIN chain' = 1 .. Len(chain')
    /\ Len(chain) \in Nat /\ Len(chain') \in Nat /\ Len(chain) <= Len(chain')
    /\ \A i \in DOMAIN chain : chain'[i] = chain[i]

\* No step changes a batch that went out.
LEMMA ChainGrows ==
    ASSUME Shape, [Next]_vars
    PROVE  Grown
<1>1. PICK S : chain \in Seq(S)
  BY DEF Shape
<1>2. CASE chain' = chain
  BY <1>1, <1>2 DEF Grown
<1>3. ASSUME NEW p \in Pools, chain' = Broadcast(p)
      PROVE  Grown
  BY <1>1, <1>3, BroadcastKeeps DEF Grown
<1>4. chain' = chain \/ \E p \in Pools : chain' = Broadcast(p)
  BY DEF Next, Pool, Tick, vars, PressE, PressY, PressOther, maybeAutoPayout, walletUnlock,
         beginPayoutPeriod, sendMany, abortPayoutPeriod, recordPayout, recorded,
         doOnchainAnnounce, Announced, Restart
<1> QED
  BY <1>2, <1>3, <1>4

\* A pool whose rows only became fewer stays sound when the chain grows.
LEMMA SoundKept ==
    ASSUME Grown, NEW p, SoundAt(p), TxidsKnown(p), ledger'[p] \subseteq ledger[p]
    PROVE  SoundAt(p)' /\ TxidsKnown(p)'
<1>1. \A r \in ledger[p] : r.txid # NoTx => r.txid \in DOMAIN chain
  BY DEF Grown, TxidsKnown, NoTx
<1>2. SoundAt(p)'
  BY <1>1 DEF SoundAt, Grown
<1>3. TxidsKnown(p)'
  BY DEF TxidsKnown, Grown
<1> QED
  BY <1>2, <1>3

\* A pool that takes no step keeps its part of the invariant.
LEMMA RecordFrame ==
    ASSUME Grown, NEW p, SoundAt(p), TxidsKnown(p), Recording(p),
           ledger'[p] = ledger[p], dash'[p] = dash[p]
    PROVE  SoundAt(p)' /\ TxidsKnown(p)' /\ Recording(p)'
<1>1. SoundAt(p)' /\ TxidsKnown(p)'
  BY SoundKept
<1>2. Batch(dash[p])' = Batch(dash[p])
  BY DEF Batch, payoutSats
<1>3. Recording(p)'
  BY <1>2 DEF Recording, Grown, Lost
<1> QED
  BY <1>1, <1>3

\* Every step keeps the ledger sound.
LEMMA RecordStep ==
    ASSUME Shape, RecordInv, [Next]_vars
    PROVE  RecordInv'
<1> USE DEF Shape
<1>1. Grown
  BY ChainGrows
<1>2. ASSUME NEW p \in Pools, ledger'[p] = ledger[p], dash'[p] = dash[p]
      PROVE  SoundAt(p)' /\ TxidsKnown(p)' /\ Recording(p)'
  BY <1>1, <1>2, RecordFrame DEF RecordInv
<1>3. ASSUME NEW p \in Pools, \A q \in Pools \ {p} : ledger'[q] = ledger[q] /\ dash'[q] = dash[q],
             SoundAt(p)' /\ TxidsKnown(p)' /\ Recording(p)'
      PROVE  RecordInv'
  BY <1>2, <1>3 DEF RecordInv
<1>4. ASSUME NEW p \in Pools, \A q \in Pools \ {p} : ledger'[q] = ledger[q] /\ dash'[q] = dash[q],
             ledger'[p] \subseteq ledger[p], dash'[p].pc # "record"
      PROVE  RecordInv'
  <2>1. SoundAt(p)' /\ TxidsKnown(p)'
    BY <1>1, <1>4, SoundKept DEF RecordInv
  <2> QED
    BY <1>3, <1>4, <2>1 DEF Recording
<1>5. CASE Tick \/ UNCHANGED vars
  BY <1>2, <1>5 DEF Tick, vars, RecordInv
<1>6. ASSUME NEW p \in Pools, PressE(p) \/ maybeAutoPayout(p)
      PROVE  RecordInv'
  BY <1>4, <1>6, AfterPressE, AfterAuto DEF PressE, maybeAutoPayout
<1>7. ASSUME NEW p \in Pools, PressY(p) \/ PressOther(p) \/ walletUnlock(p) \/ Restart(p)
      PROVE  RecordInv'
  BY <1>4, <1>7 DEF PressY, PressOther, walletUnlock, Restart, Finished, Idle, Fields
<1>8. ASSUME NEW p \in Pools, abortPayoutPeriod(p) \/ recorded(p)
      PROVE  RecordInv'
  BY <1>4, <1>8 DEF abortPayoutPeriod, recorded, Finished, Idle, Fields
<1>9. ASSUME NEW p \in Pools, doOnchainAnnounce(p) \/ Announced(p)
      PROVE  RecordInv'
  BY <1>2, <1>9 DEF doOnchainAnnounce, Announced, RecordInv
<1>10. ASSUME NEW p \in Pools, beginPayoutPeriod(p)
       PROVE  RecordInv'
  <2> DEFINE r == Row(NextId(p), "__PERIOD_GUARD__", 0, NoTx)
  <2>1. /\ \A q \in Pools \ {p} : ledger'[q] = ledger[q] /\ dash'[q] = dash[q]
        /\ ledger'[p] = ledger[p] \cup {r} \/ ledger' = ledger
        /\ dash'[p].pc = "send" /\ chain' = chain
    BY <1>10, InsertKeeps DEF beginPayoutPeriod, Fields
  <2>2. r.txid = NoTx
    BY DEF Row
  <2> HIDE DEF r
  <2>3. SoundAt(p)' /\ TxidsKnown(p)'
    BY <1>1, <2>1, <2>2 DEF SoundAt, TxidsKnown, RecordInv, NoTx, Grown
  <2> QED
    BY <1>3, <2>1, <2>3 DEF Recording
<1>11. ASSUME NEW p \in Pools, sendMany(p)
       PROVE  RecordInv'
  <2>1. /\ ledger' = ledger /\ \A q \in Pools \ {p} : dash'[q] = dash[q]
        /\ dash'[p].pending = dash[p].pending /\ dash'[p].scale = dash[p].scale
    BY <1>11 DEF sendMany, Fields
  <2>2. SoundAt(p)' /\ TxidsKnown(p)'
    BY <1>1, <2>1, SoundKept DEF RecordInv
  <2>3. CASE \/ dash'[p].pc = "abort"
             \/ dash'[p].reply = Lost /\ dash'[p].todo = DOMAIN dash[p].pending
    BY <1>3, <2>1, <2>2, <2>3 DEF Recording
  <2>4. CASE /\ chain' = Broadcast(p) /\ dash'[p].reply = Len(chain) + 1
             /\ dash'[p].todo = DOMAIN dash[p].pending
    <3>1. /\ Len(chain) \in Nat /\ Len(chain) + 1 \in DOMAIN chain'
          /\ chain'[Len(chain) + 1].pool = p /\ chain'[Len(chain) + 1].outs = Batch(dash[p])
      BY <2>4, BroadcastKeeps
    <3>2. Batch(dash[p])' = Batch(dash[p])
      BY <2>1 DEF Batch, payoutSats
    <3>3. \A r \in ledger[p] : r.txid # Len(chain) + 1
      BY <3>1 DEF RecordInv, TxidsKnown
    <3>4. Recording(p)'
      BY <2>1, <2>4, <3>1, <3>2, <3>3 DEF Recording
    <3> QED
      BY <1>3, <2>1, <2>2, <3>4
  <2>5. ASSUME NEW reply, dash' = [dash EXCEPT ![p].pc = "record", ![p].reply = reply,
                                               ![p].todo = DOMAIN dash[p].pending]
        PROVE  /\ dash'[p].pc = "record" /\ dash'[p].reply = reply
               /\ dash'[p].todo = DOMAIN dash[p].pending
    BY <2>5 DEF Fields
  <2>6. ASSUME NEW reply \in {Len(chain) + 1, Lost}, chain' = Broadcast(p),
               dash' = [dash EXCEPT ![p].pc = "record", ![p].reply = reply,
                                    ![p].todo = DOMAIN dash[p].pending]
        PROVE  RecordInv'
    <3>1. /\ dash'[p].pc = "record" /\ dash'[p].reply = reply
          /\ dash'[p].todo = DOMAIN dash[p].pending
      BY <2>5, <2>6
    <3> QED
      BY <2>3, <2>4, <2>6, <3>1, Zenon
  <2>7. CASE dash' = [dash EXCEPT ![p].pc = "record", ![p].reply = Lost,
                                  ![p].todo = DOMAIN dash[p].pending]
    <3>1. /\ dash'[p].pc = "record" /\ dash'[p].reply = Lost
          /\ dash'[p].todo = DOMAIN dash[p].pending
      BY <2>5, <2>7
    <3> QED
      BY <2>3, <3>1, Zenon
  <2>8. CASE dash' = [dash EXCEPT ![p].pc = "abort"]
    <3>1. dash'[p].pc = "abort"
      BY <2>8 DEF Fields
    <3> QED
      BY <2>3, <3>1, Zenon
  <2> QED
    BY <1>11, <2>6, <2>7, <2>8 DEF sendMany
<1>12. ASSUME NEW p \in Pools, recordPayout(p)
       PROVE  RecordInv'
  <2>1. PICK a \in dash[p].todo :
            /\ Insert(p, "record", a, Batch(dash[p])[a], IF dash[p].reply = Lost THEN NoTx ELSE dash[p].reply)
            /\ dash' = [dash EXCEPT ![p].todo = @ \ {a}]
    BY <1>12 DEF recordPayout
  <2> DEFINE tx == IF dash[p].reply = Lost THEN NoTx ELSE dash[p].reply
             r == Row(NextId(p), a, Batch(dash[p])[a], tx)
  <2>2. /\ \A q \in Pools \ {p} : ledger'[q] = ledger[q] /\ dash'[q] = dash[q]
        /\ ledger'[p] = ledger[p] \cup {r} \/ ledger' = ledger
        /\ chain' = chain
    BY <1>12, <2>1, InsertKeeps DEF recordPayout
  <2>3. /\ dash'[p].todo = dash[p].todo \ {a} /\ dash'[p].pc = "record"
        /\ dash'[p].pending = dash[p].pending /\ dash'[p].scale = dash[p].scale
        /\ dash'[p].reply = dash[p].reply /\ dash[p].pc = "record"
    BY <1>12, <2>1 DEF recordPayout, Fields
  <2>4. r.txid = tx /\ r.address = a /\ r.sat = Batch(dash[p])[a]
    BY DEF Row
  <2> HIDE DEF r
  <2>5. Recording(p) /\ SoundAt(p) /\ TxidsKnown(p)
    BY DEF RecordInv
  <2>6. Batch(dash[p])' = Batch(dash[p]) /\ DOMAIN Batch(dash[p]) = DOMAIN dash[p].pending
    BY <2>3 DEF Batch, payoutSats
  <2>7. Recording(p)'
    BY <2>2, <2>3, <2>4, <2>5, <2>6 DEF Recording
  <2>8. CASE ledger' = ledger
    BY <1>1, <1>3, <2>2, <2>5, <2>7, <2>8, SoundKept
  <2>9. CASE ledger'[p] = ledger[p] \cup {r} /\ dash[p].reply = Lost
    <3>1. SoundAt(p)' /\ TxidsKnown(p)'
      BY <1>1, <2>2, <2>4, <2>5, <2>9 DEF SoundAt, TxidsKnown, NoTx, Grown
    <3> QED
      BY <1>3, <2>2, <2>7, <3>1
  <2>10. CASE ledger'[p] = ledger[p] \cup {r} /\ dash[p].reply # Lost
    <3>1. /\ r.txid \in DOMAIN chain /\ chain[r.txid].pool = p
          /\ r.address \in DOMAIN chain[r.txid].outs
          /\ chain[r.txid].outs[r.address] = r.sat
          /\ \A s \in ledger[p] : s.txid = r.txid => s.address # r.address
      BY <2>1, <2>3, <2>4, <2>5, <2>6, <2>10 DEF Recording
    <3>2. SoundAt(p)'
      BY <2>2, <2>5, <2>10, <3>1 DEF SoundAt
    <3>3. TxidsKnown(p)'
      BY <1>1, <2>2, <2>5, <2>10, <3>1 DEF TxidsKnown, Grown
    <3> QED
      BY <1>3, <2>2, <2>7, <3>2, <3>3
  <2> QED
    BY <2>2, <2>8, <2>9, <2>10
<1> QED
  BY <1>5, <1>6, <1>7, <1>8, <1>9, <1>10, <1>11, <1>12 DEF Next, Pool

\* The public ledger is sound: a row with a txid is an output of that transaction of this
\* pool, of that amount to the satoshi, and no output is recorded twice, whichever rows
\* failed to be written and wherever the process ended (recordPayout, sendMany).
THEOREM LedgerIsSound == Spec => []LedgerSound
<1>1. Init => RecordInv
  BY DEF Init, RecordInv, SoundAt, TxidsKnown, Recording, Idle
<1>2. Shape /\ RecordInv /\ [Next]_vars => RecordInv'
  BY RecordStep
<1>3. RecordInv => LedgerSound
  BY DEF RecordInv, SoundAt, LedgerSound
<1> QED
  BY <1>1, <1>2, <1>3, ShapeInvariance, PTL DEF Spec

-----------------------------------------------------------------------------
(* No batch beyond the balance.  Sums are counts of pairs, so that they add up as sets do. *)

Pairs(f, S) == UNION {{x} \X (1 .. f[x]) : x \in S}

\* What one x adds.
LEMMA PairsOfOne ==
    ASSUME NEW f, NEW x, f[x] \in Nat
    PROVE  /\ Pairs(f, {x}) = {x} \X (1 .. f[x]) /\ IsFiniteSet(Pairs(f, {x}))
           /\ SumOver(f, {x}) = f[x]
<1> DEFINE n == f[x]
           S == {x} \X (1 .. n)
<1>1. n \in Nat
  OBVIOUS
<1>2. Pairs(f, {x}) = S
  <2>1. ASSUME NEW y PROVE y \in Pairs(f, {x}) <=> y \in S
    BY DEF Pairs
  <2> QED BY <2>1
<1>3. SumOver(f, {x}) = Cardinality(S)
  BY <1>2 DEF SumOver, Pairs
<1> HIDE DEF n
<1>4. IsFiniteSet(1 .. n) /\ Cardinality(1 .. n) = n
  <2>1. 1 \in Int /\ n \in Int
    BY <1>1
  <2>2. IsFiniteSet(1 .. n) /\ Cardinality(1 .. n) = IF 1 > n THEN 0 ELSE n - 1 + 1
    BY <2>1, FS_Interval
  <2> QED BY <1>1, <2>2
<1>5. IsFiniteSet({x}) /\ Cardinality({x}) = 1
  BY FS_Singleton
<1>6. IsFiniteSet(S) /\ Cardinality(S) = Cardinality({x}) * Cardinality(1 .. n)
  BY <1>4, <1>5, FS_Product
<1>7. Cardinality(S) = n
  BY <1>1, <1>4, <1>5, <1>6
<1> QED BY <1>2, <1>3, <1>6, <1>7 DEF n

\* A finite set of naturals adds up.
LEMMA PairsFinite ==
    ASSUME NEW S, IsFiniteSet(S), NEW f, \A x \in S : f[x] \in Nat
    PROVE  IsFiniteSet(Pairs(f, S)) /\ SumOver(f, S) \in Nat
<1> DEFINE T == {{x} \X (1 .. f[x]) : x \in S}
           g == [x \in S |-> {x} \X (1 .. f[x])]
<1>1. g \in Surjection(S, T)
  BY DEF Surjection
<1>2. IsFiniteSet(T)
  <2> HIDE DEF g, T
  <2> QED BY <1>1, FS_Surjection
<1>3. \A t \in T : IsFiniteSet(t)
  <2>1. \A x \in S : IsFiniteSet({x} \X (1 .. f[x]))
    <3>1. ASSUME NEW x \in S PROVE IsFiniteSet({x} \X (1 .. f[x]))
      <4>1. f[x] \in Nat
        OBVIOUS
      <4>2. Pairs(f, {x}) = {x} \X (1 .. f[x]) /\ IsFiniteSet(Pairs(f, {x}))
        BY <4>1, PairsOfOne
      <4> QED BY <4>2
    <3> QED BY <3>1
  <2> QED BY <2>1
<1>4. IsFiniteSet(UNION T)
  <2> HIDE DEF T
  <2> QED BY <1>2, <1>3, FS_UNION
<1>5. IsFiniteSet(Pairs(f, S)) /\ SumOver(f, S) = Cardinality(Pairs(f, S))
  BY <1>4 DEF Pairs, SumOver
<1> QED BY <1>5, FS_CardinalityType

\* The sums over two sets with nothing in common.
LEMMA SumUnion ==
    ASSUME NEW A, NEW B, IsFiniteSet(A), IsFiniteSet(B), A \cap B = {},
           NEW f, \A x \in A \cup B : f[x] \in Nat
    PROVE  SumOver(f, A \cup B) = SumOver(f, A) + SumOver(f, B)
<1>1. IsFiniteSet(Pairs(f, A)) /\ SumOver(f, A) \in Nat
  BY PairsFinite
<1>2. IsFiniteSet(Pairs(f, B)) /\ SumOver(f, B) \in Nat
  BY PairsFinite
<1>3. Pairs(f, A \cup B) = Pairs(f, A) \cup Pairs(f, B)
  <2>1. ASSUME NEW y PROVE y \in Pairs(f, A \cup B) <=> y \in Pairs(f, A) \/ y \in Pairs(f, B)
    BY DEF Pairs
  <2> QED BY <2>1
<1>4. Pairs(f, A) \cap Pairs(f, B) = {}
  BY DEF Pairs
<1>5. Cardinality(Pairs(f, A) \cup Pairs(f, B)) =
        Cardinality(Pairs(f, A)) + Cardinality(Pairs(f, B)) - Cardinality({})
  BY <1>1, <1>2, <1>4, FS_Union
<1>6. Cardinality({}) = 0
  BY FS_EmptySet
<1>7. /\ SumOver(f, A \cup B) = Cardinality(Pairs(f, A) \cup Pairs(f, B))
      /\ SumOver(f, A) = Cardinality(Pairs(f, A)) /\ SumOver(f, B) = Cardinality(Pairs(f, B))
  BY <1>3 DEF SumOver, Pairs
<1>8. SumOver(f, A \cup B) = SumOver(f, A) + SumOver(f, B) - 0
  BY <1>5, <1>6, <1>7
<1>9. SumOver(f, A) \in Nat /\ SumOver(f, B) \in Nat
  BY <1>1, <1>2
<1> QED BY <1>8, <1>9

\* A part adds up to no more than the whole.
LEMMA SumPart ==
    ASSUME NEW B, NEW A \in SUBSET B, IsFiniteSet(B), NEW f, \A x \in B : f[x] \in Nat
    PROVE  SumOver(f, A) \in Nat /\ SumOver(f, A) <= SumOver(f, B)
<1>1. IsFiniteSet(Pairs(f, B))
  BY PairsFinite
<1>2. Pairs(f, A) \in SUBSET Pairs(f, B)
  BY DEF Pairs
<1>3. IsFiniteSet(Pairs(f, A)) /\ Cardinality(Pairs(f, A)) <= Cardinality(Pairs(f, B))
  BY <1>1, <1>2, FS_Subset
<1>4. Cardinality(Pairs(f, A)) \in Nat
  BY <1>3, FS_CardinalityType
<1> QED BY <1>3, <1>4 DEF SumOver, Pairs

\* payoutSats() rounds up by half a satoshi at most.
LEMMA RoundedUp ==
    ASSUME NEW num \in Nat, NEW scale \in Nat \ {0}
    PROVE  /\ payoutSats(num, scale) \in Nat
           /\ 2 * (scale * payoutSats(num, scale)) <= 2 * num + scale
<1> DEFINE x == 2 * num + scale
           y == 2 * scale
           q == x \div y
<1>1. x \in Nat /\ y \in Nat /\ y > 0
  OBVIOUS
<1>2. q \in Nat /\ y * q <= x
  <2> HIDE DEF x, y
  <2> QED BY <1>1
<1>3. payoutSats(num, scale) = q
  BY DEF payoutSats
<1>4. 2 * (scale * q) = y * q
  <2> HIDE DEF q
  <2> QED BY <1>2
<1> QED BY <1>2, <1>3, <1>4

\* A least number of a set.
LEMMA LeastCount ==
    ASSUME NEW T \in SUBSET Nat, T # {}
    PROVE  \E t \in T : \A u \in T : t <= u
<1>1. PICK t \in T : \A u \in T : ~(<<u, t>> \in OpToRel(<, Nat))
  BY NatLessThanWellFounded, WFMin
<1>2. ASSUME NEW u \in T
      PROVE  t <= u
  <2>1. u < t => <<u, t>> \in OpToRel(<, Nat)
    BY DEF OpToRel
  <2>2. ~(u < t)
    BY <1>1, <2>1, Zenon
  <2> QED BY <2>2
<1> QED BY <1>2

\* One address more.
LEMMA RoundingAdds ==
    ASSUME NEW sc \in Nat, NEW bu \in Nat, NEW B \in Nat, NEW b \in Nat, NEW W \in Nat,
           NEW V \in Nat, NEW k \in Nat,
           2 * (sc * B) <= 2 * (bu * W) + sc * k, 2 * (sc * b) <= 2 * (bu * V) + sc
    PROVE  2 * (sc * (B + b)) <= 2 * (bu * (W + V)) + sc * (k + 1)
<1>1. /\ sc * (B + b) = sc * B + sc * b /\ bu * (W + V) = bu * W + bu * V
      /\ sc * (k + 1) = sc * k + sc
  OBVIOUS
<1>2. sc * B \in Nat /\ sc * b \in Nat /\ bu * W \in Nat /\ bu * V \in Nat /\ sc * k \in Nat
  OBVIOUS
<1> QED BY <1>1, <1>2

\* What the outputs round up adds up to half a satoshi each: by the smallest set of
\* addresses for which it would not.
LEMMA RoundingBound ==
    ASSUME NEW sc \in Nat, NEW bu \in Nat, NEW w, NEW D, IsFiniteSet(D), \A n \in D : w[n] \in Nat,
           NEW A, IsFiniteSet(A), NEW b,
           \A a \in A :
              /\ b[a] \in Nat
              /\ 2 * (sc * b[a]) <= 2 * (bu * SumOver(w, {n \in D : AddressOf[n] = a})) + sc
    PROVE  2 * (sc * SumOver(b, A)) <=
              2 * (bu * SumOver(w, {n \in D : AddressOf[n] \in A})) + sc * Cardinality(A)
<1> DEFINE At(K) == {n \in D : AddressOf[n] \in K}
           Holds(K) == 2 * (sc * SumOver(b, K)) <= 2 * (bu * SumOver(w, At(K))) + sc * Cardinality(K)
           Bad == {K \in SUBSET A : ~Holds(K)}
           T == {Cardinality(K) : K \in Bad}
<1> SUFFICES ASSUME ~Holds(A) PROVE FALSE
  OBVIOUS
<1>1. \A K \in SUBSET A : IsFiniteSet(K) /\ Cardinality(K) \in Nat
  BY FS_Subset, FS_CardinalityType
<1>2. T \in SUBSET Nat /\ T # {}
  <2>1. A \in Bad
    OBVIOUS
  <2> HIDE DEF Holds
  <2> QED BY <1>1, <2>1
<1>3. PICK K \in Bad : \A L \in Bad : Cardinality(K) <= Cardinality(L)
  <2>1. PICK t \in T : \A u \in T : t <= u
    <3> HIDE DEF T
    <3> QED BY <1>2, LeastCount
  <2> HIDE DEF Bad
  <2> QED BY <2>1
<1>4. K \in SUBSET A /\ ~Holds(K)
  OBVIOUS
<1>5. CASE K = {}
  <2>1. SumOver(b, K) = 0 /\ SumOver(w, At(K)) = 0 /\ Cardinality(K) = 0
    <3>1. Cardinality({}) = 0
      BY FS_EmptySet
    <3>2. Pairs(b, K) = {} /\ Pairs(w, At(K)) = {}
      BY <1>5 DEF Pairs
    <3> QED BY <1>5, <3>1, <3>2 DEF SumOver, Pairs
  <2> QED BY <1>4, <2>1
<1>6. CASE K # {}
  <2>1. PICK a : a \in K
    BY <1>6
  <2> DEFINE L == K \ {a}
             One == {n \in D : AddressOf[n] = a}
  <2>2. /\ IsFiniteSet(K) /\ Cardinality(K) \in Nat /\ L \in SUBSET A /\ a \in A
        /\ IsFiniteSet(L) /\ Cardinality(L) \in Nat
    BY <1>1, <1>4, <2>1
  <2>3. Cardinality(K) = Cardinality(L) + 1
    <3>1. Cardinality(L) = Cardinality(K) - 1
      BY <2>1, <2>2, FS_RemoveElement
    <3> QED BY <2>2, <3>1
  <2>4. Holds(L)
    <3> HIDE DEF Holds
    <3>1. L \notin Bad
      <4> HIDE DEF L, Bad
      <4> QED BY <1>3, <2>2, <2>3
    <3> QED BY <2>2, <3>1
  <2>5. SumOver(b, K) = SumOver(b, L) + b[a] /\ SumOver(b, L) \in Nat /\ b[a] \in Nat
    <3>1. K = L \cup {a} /\ L \cap {a} = {} /\ IsFiniteSet({a})
      BY <2>1, FS_Singleton
    <3>2. \A x \in L \cup {a} : b[x] \in Nat
      BY <2>2
    <3>3. SumOver(b, L) \in Nat /\ b[a] \in Nat
      BY <2>2, <3>2, PairsFinite
    <3>4. SumOver(b, L \cup {a}) = SumOver(b, L) + SumOver(b, {a})
      <4> HIDE DEF L
      <4> QED BY <2>2, <3>1, <3>2, SumUnion
    <3>5. SumOver(b, {a}) = b[a]
      BY <3>3, PairsOfOne
    <3> QED BY <3>1, <3>3, <3>4, <3>5
  <2>6. /\ SumOver(w, At(K)) = SumOver(w, At(L)) + SumOver(w, One)
        /\ SumOver(w, At(L)) \in Nat /\ SumOver(w, One) \in Nat
    <3>1. At(K) = At(L) \cup One /\ At(L) \cap One = {} /\ At(L) \in SUBSET D /\ One \in SUBSET D
      BY <2>1
    <3>2. IsFiniteSet(At(L)) /\ IsFiniteSet(One)
      BY <3>1, FS_Subset
    <3>3. \A x \in At(L) \cup One : w[x] \in Nat
      OBVIOUS
    <3> HIDE DEF At, One, L
    <3>4. SumOver(w, At(L)) \in Nat /\ SumOver(w, One) \in Nat
      BY <3>1, SumPart
    <3>5. SumOver(w, At(L) \cup One) = SumOver(w, At(L)) + SumOver(w, One)
      BY <3>1, <3>2, <3>3, SumUnion
    <3> QED BY <3>1, <3>4, <3>5
  <2>7. 2 * (sc * b[a]) <= 2 * (bu * SumOver(w, One)) + sc
    BY <2>2
  <2>8. Holds(K)
    <3>1. 2 * (sc * SumOver(b, L)) <= 2 * (bu * SumOver(w, At(L))) + sc * Cardinality(L)
      BY <2>4
    <3> HIDE DEF At, One, L
    <3>2. 2 * (sc * (SumOver(b, L) + b[a])) <=
            2 * (bu * (SumOver(w, At(L)) + SumOver(w, One))) + sc * (Cardinality(L) + 1)
      BY <2>2, <2>5, <2>6, <2>7, <3>1, RoundingAdds
    <3>3. 2 * (sc * SumOver(b, K)) <= 2 * (bu * SumOver(w, At(K))) + sc * Cardinality(K)
      BY <2>3, <2>5, <2>6, <3>2
    <3> QED BY <3>3
  <2> QED BY <1>4, <2>8
<1> QED BY <1>5, <1>6

\* When the balance is known, computeBudget() leaves a fee for every target.
LEMMA BudgetLeavesFees ==
    ASSUME NEW balance \in Int, NEW N \in Nat, balance >= 0, computeBudget(balance, N) > 0
    PROVE  /\ computeBudget(balance, N) \in Nat
           /\ computeBudget(balance, N) <= 100 * (balance - FeeReserve(N))
<1>1. Percent \in Nat /\ FixedSpend \in Nat /\ FeeBase \in Nat /\ FeePerOutput \in Nat
  BY PayoutConstants
<1> DEFINE cap == 100 * (balance - FeeReserve(N))
           wanted == IF Percent > 0 THEN balance * Percent ELSE 100 * FixedSpend
<1>2. cap \in Int
  <2>1. FeePerOutput * N \in Nat
    BY <1>1
  <2> QED BY <1>1, <2>1 DEF FeeReserve
<1>3. wanted \in Int
  <2>1. balance * Percent \in Int
    BY <1>1
  <2> QED BY <1>1, <2>1
<1>4. computeBudget(balance, N) = NotNegative(IF wanted > cap THEN cap ELSE wanted)
  <2>1. ~(balance < 0)
    OBVIOUS
  <2> QED BY <2>1 DEF computeBudget
<1> HIDE DEF cap, wanted
<1>5. computeBudget(balance, N) \in Nat /\ computeBudget(balance, N) <= cap
  BY <1>2, <1>3, <1>4 DEF NotNegative
<1> QED BY <1>5 DEF cap

\* The budget over the total weight, rounded up by half a satoshi an output, and the fees.
LEMMA RoundingFits ==
    ASSUME NEW T \in Nat, T > 0, NEW bu \in Nat, NEW B \in Nat, NEW W \in Nat, NEW k \in Nat,
           NEW N \in Nat, NEW balance \in Int,
           W <= T, k <= N, k <= 2 * FeeBase, bu <= 100 * (balance - FeeReserve(N)),
           2 * ((100 * T) * B) <= 2 * (bu * W) + (100 * T) * k
    PROVE  B + FeePerOutput * k <= balance
<1>1. FeeBase \in Nat /\ FeePerOutput \in Nat
  BY PayoutConstants
<1>2. bu * W <= bu * T
  OBVIOUS
<1>3. T * (200 * B) <= T * (2 * bu + 100 * k)
  <2>1. /\ 2 * ((100 * T) * B) = T * (200 * B) /\ (100 * T) * k = T * (100 * k)
        /\ 2 * (bu * T) = T * (2 * bu) /\ T * (2 * bu + 100 * k) = T * (2 * bu) + T * (100 * k)
    OBVIOUS
  <2>2. /\ bu * W \in Nat /\ bu * T \in Nat /\ T * (200 * B) \in Nat /\ T * (100 * k) \in Nat
        /\ T * (2 * bu) \in Nat
    OBVIOUS
  <2> QED BY <1>2, <2>1, <2>2
<1>4. 200 * B <= 2 * bu + 100 * k
  <2> DEFINE x == 200 * B
             y == 2 * bu + 100 * k
  <2>1. x \in Nat /\ y \in Nat /\ T * x <= T * y
    BY <1>3
  <2> HIDE DEF x, y
  <2>2. ASSUME x > y PROVE FALSE
    <3>1. T * x >= T * (y + 1)
      BY <2>1, <2>2
    <3>2. T * (y + 1) = T * y + T /\ T * y \in Nat /\ T * x \in Nat
      BY <2>1
    <3> QED BY <2>1, <3>1, <3>2
  <2> QED BY <2>1, <2>2 DEF x, y
<1>5. FeePerOutput * k <= FeePerOutput * N /\ FeePerOutput * k \in Nat /\ FeePerOutput * N \in Nat
  BY <1>1
<1>6. bu <= 100 * (balance - (FeeBase + FeePerOutput * N))
  BY DEF FeeReserve
<1> QED BY <1>1, <1>4, <1>5, <1>6

-----------------------------------------------------------------------------
(* The plan, and what is broadcast of it. *)

\* The batch planned and its fees fit the balance it was planned with.
Covered(d) ==
    d.balance >= 0 =>
        Total(Batch(d)) + FeePerOutput * Cardinality(DOMAIN d.pending) <= d.balance

\* The inductive invariant.
AffordInv ==
    Affordable /\ \A p \in Pools : dash[p].balance \in Int /\ Covered(dash[p])

\* The half satoshis of the outputs fit the base of the fee.
RoundingInBase == \A w \in Weightings : Cardinality(DOMAIN w) <= 2 * FeeBase

\* Nothing planned costs nothing.
LEMMA NothingCovered ==
    ASSUME NEW d, d.pending = <<>>, d.balance \in Int
    PROVE  Covered(d)
<1>1. DOMAIN d.pending = {}
  OBVIOUS
<1>2. DOMAIN Batch(d) = {}
  BY <1>1 DEF Batch
<1>3. Cardinality({}) = 0
  BY FS_EmptySet
<1>4. Total(Batch(d)) = 0
  BY <1>2, <1>3 DEF Total, SumOver
<1>5. FeePerOutput \in Nat
  BY PayoutConstants
<1> QED BY <1>1, <1>3, <1>4, <1>5 DEF Covered

\* What planPayout() plans is covered.
LEMMA PlannedCovered ==
    ASSUME RoundingInBase, NEW w \in Weightings, NEW balance \in Int, NEW skip, NEW dropped,
           balance >= 0, Total(w) > 0, computeBudget(balance, Cardinality(DOMAIN w)) > 0,
           NEW d, d.balance = balance, d.scale = 100 * Total(w),
           d.pending = Planned(w, computeBudget(balance, Cardinality(DOMAIN w)), skip, dropped)
    PROVE  Covered(d)
<1> DEFINE N == Cardinality(DOMAIN w)
           bu == computeBudget(balance, N)
           paid == {n \in DOMAIN w : bu * w[n] > 0}
           A == DOMAIN d.pending
           b == Batch(d)
           sc == 100 * Total(w)
           At == {n \in paid : AddressOf[n] \in A}
<1>1. /\ IsFiniteSet(DOMAIN w) /\ \A n \in DOMAIN w : w[n] \in Nat
      /\ N \in Nat /\ paid \in SUBSET DOMAIN w
  <2>1. DOMAIN w \in SUBSET Nodes /\ IsFiniteSet(Nodes) /\ \A n \in DOMAIN w : w[n] \in Nat
    BY PayoutConstants
  <2>2. IsFiniteSet(DOMAIN w)
    BY <2>1, FS_Subset
  <2> QED BY <2>1, <2>2, FS_CardinalityType
<1>2. Total(w) \in Nat /\ sc \in Nat /\ sc \in Nat \ {0}
  <2>1. Total(w) \in Nat
    BY <1>1, PairsFinite DEF Total
  <2> QED BY <2>1
<1>3. bu \in Nat /\ bu <= 100 * (balance - FeeReserve(N))
  BY <1>1, BudgetLeavesFees
<1>4. /\ A \subseteq {AddressOf[n] : n \in paid}
      /\ \A a \in A : d.pending[a] = bu * SumOver(w, {n \in paid : AddressOf[n] = a})
  BY DEF Planned, Shares
<1> HIDE DEF bu
<1>5. IsFiniteSet(paid) /\ Cardinality(paid) \in Nat /\ Cardinality(paid) <= N
  <2> HIDE DEF paid
  <2> QED BY <1>1, FS_Subset, FS_CardinalityType
<1>6. IsFiniteSet(A) /\ Cardinality(A) \in Nat /\ Cardinality(A) <= N
  <2> DEFINE S == {AddressOf[n] : n \in paid}
             g == [n \in paid |-> AddressOf[n]]
  <2> HIDE DEF paid, A, N
  <2>1. g \in Surjection(paid, S)
    BY DEF Surjection
  <2>2. A \in SUBSET S
    BY <1>4
  <2> HIDE DEF g, S
  <2>3. IsFiniteSet(S) /\ Cardinality(S) <= Cardinality(paid)
    BY <1>5, <2>1, FS_Surjection
  <2>4. IsFiniteSet(A) /\ Cardinality(A) <= Cardinality(S)
    BY <2>2, <2>3, FS_Subset
  <2>5. Cardinality(A) \in Nat /\ Cardinality(S) \in Nat
    BY <2>3, <2>4, FS_CardinalityType
  <2> QED BY <1>1, <1>5, <2>3, <2>4, <2>5
<1>7. DOMAIN b = A /\ \A a \in A : b[a] = payoutSats(d.pending[a], sc)
  BY DEF Batch
<1> HIDE DEF A, b, sc
<1>8. ASSUME NEW a \in A
      PROVE  /\ b[a] \in Nat
             /\ 2 * (sc * b[a]) <= 2 * (bu * SumOver(w, {n \in paid : AddressOf[n] = a})) + sc
  <2> DEFINE One == {n \in paid : AddressOf[n] = a}
             num == bu * SumOver(w, One)
  <2>1. One \in SUBSET DOMAIN w
    OBVIOUS
  <2>2. SumOver(w, One) \in Nat
    <3> HIDE DEF One
    <3> QED BY <1>1, <2>1, SumPart
  <2>3. num \in Nat
    <3> HIDE DEF One
    <3> QED BY <1>3, <2>2
  <2>4. b[a] = payoutSats(num, sc)
    BY <1>4, <1>7
  <2> HIDE DEF num
  <2>5. payoutSats(num, sc) \in Nat /\ 2 * (sc * payoutSats(num, sc)) <= 2 * num + sc
    BY <1>2, <2>3, RoundedUp
  <2>6. b[a] \in Nat /\ 2 * (sc * b[a]) <= 2 * num + sc
    BY <2>4, <2>5
  <2> QED BY <2>6 DEF num
<1>9. 2 * (sc * SumOver(b, A)) <= 2 * (bu * SumOver(w, At)) + sc * Cardinality(A)
  <2>1. \A n \in paid : w[n] \in Nat
    BY <1>1
  <2> HIDE DEF paid
  <2> QED BY <1>2, <1>3, <1>5, <1>6, <1>8, <2>1, RoundingBound
<1>10. SumOver(b, A) \in Nat
  BY <1>6, <1>8, PairsFinite
<1>11. SumOver(w, At) \in Nat /\ SumOver(w, At) <= Total(w)
  <2>1. At \in SUBSET DOMAIN w
    OBVIOUS
  <2> HIDE DEF At
  <2> QED BY <1>1, <2>1, SumPart DEF Total
<1>12. Cardinality(A) <= 2 * FeeBase
  <2>1. N <= 2 * FeeBase /\ FeeBase \in Nat
    BY PayoutConstants DEF RoundingInBase
  <2> HIDE DEF N
  <2> QED BY <1>1, <1>6, <2>1
<1>13. 2 * ((100 * Total(w)) * SumOver(b, A)) <=
          2 * (bu * SumOver(w, At)) + (100 * Total(w)) * Cardinality(A)
  BY <1>9 DEF sc
<1>14. SumOver(b, A) + FeePerOutput * Cardinality(A) <= balance
  <2> HIDE DEF At, N
  <2> QED BY <1>1, <1>2, <1>3, <1>6, <1>10, <1>11, <1>12, <1>13, RoundingFits
<1> QED BY <1>7, <1>14 DEF Covered, Total, b, A

\* Whatever answers its calls get, planPayout() leaves a covered plan or none.
LEMMA PlanCovered ==
    ASSUME RoundingInBase, NEW p, NEW d, DOMAIN d = Fields, d.balance \in Int, NEW e \in Plan(p, d)
    PROVE  e.balance \in Int /\ Covered(e)
<1>1. PICK w \in Weightings, balance \in Balances, peers \in SUBSET Pools, dropped \in SUBSET Invalid :
          \E last \in LastPayouts(p) : e = planPayout(p, d, last, w, balance, peers, dropped)
  BY DEF Plan
<1>0. PICK last \in LastPayouts(p) : e = planPayout(p, d, last, w, balance, peers, dropped)
  BY <1>1
<1> DEFINE bu == computeBudget(balance, Cardinality(DOMAIN w))
           made == Planned(w, bu, UNION {PaidWithin(q) : q \in peers}, dropped)
           due == DOMAIN w # {} /\ Elapsed(last) /\ bu > 0 /\ Total(w) > 0
           plan == IF due THEN made ELSE <<>>
<1>2. e = IF plan = <<>> THEN [d EXCEPT !.pending = <<>>]
          ELSE [d EXCEPT !.pending = plan, !.scale = 100 * Total(w), !.balance = balance,
                         !.blind = last # getLastPayoutAt(p)]
  BY <1>0 DEF planPayout
<1>3. balance \in Int
  BY PayoutConstants
<1>4. CASE plan = <<>>
  <2>1. e = [d EXCEPT !.pending = <<>>]
    BY <1>2, <1>4
  <2>2. e.pending = <<>> /\ e.balance \in Int
    BY <2>1 DEF Fields
  <2> QED BY <2>2, NothingCovered
<1>5. CASE plan # <<>>
  <2>1. due /\ plan = made
    BY <1>5
  <2> HIDE DEF plan, made
  <2>2. e = [d EXCEPT !.pending = plan, !.scale = 100 * Total(w), !.balance = balance,
                      !.blind = last # getLastPayoutAt(p)]
    BY <1>2, <1>5
  <2>3. e.pending = made /\ e.scale = 100 * Total(w) /\ e.balance = balance
    BY <2>1, <2>2 DEF Fields
  <2>4. ASSUME balance >= 0 PROVE Covered(e)
    BY <1>3, <2>1, <2>3, <2>4, PlannedCovered DEF made
  <2>5. ASSUME ~(balance >= 0) PROVE Covered(e)
    BY <2>3, <2>5 DEF Covered
  <2>6. e.balance \in Int
    BY <1>3, <2>3
  <2> QED BY <2>4, <2>5, <2>6
<1> QED BY <1>4, <1>5

\* What covers a plan is in three members of the dashboard.
LEMMA CoveredSame ==
    ASSUME NEW d, NEW e, Covered(d), e.pending = d.pending, e.scale = d.scale, e.balance = d.balance
    PROVE  Covered(e)
<1>1. Batch(e) = Batch(d)
  BY DEF Batch
<1> QED BY <1>1 DEF Covered

\* A step that broadcasts nothing has only its own plan to account for.
LEMMA AffordFrame ==
    ASSUME AffordInv, chain' = chain, NEW p \in Pools, \A q \in Pools \ {p} : dash'[q] = dash[q],
           \/ /\ dash'[p].pending = dash[p].pending /\ dash'[p].scale = dash[p].scale
              /\ dash'[p].balance = dash[p].balance
           \/ dash'[p].balance \in Int /\ Covered(dash'[p])
    PROVE  AffordInv'
<1>1. Affordable'
  BY DEF AffordInv, Affordable
<1>2. dash[p].balance \in Int /\ Covered(dash[p])
  BY DEF AffordInv
<1>3. dash'[p].balance \in Int /\ Covered(dash'[p])
  BY <1>2, CoveredSame
<1>4. \A q \in Pools : dash'[q].balance \in Int /\ Covered(dash'[q])
  BY <1>3 DEF AffordInv
<1> QED BY <1>1, <1>4 DEF AffordInv, Covered, Batch

\* Every step keeps every plan covered, and broadcasts nothing else.
LEMMA AffordStep ==
    ASSUME RoundingInBase, Shape, AffordInv, [Next]_vars
    PROVE  AffordInv'
<1>1. CASE Tick
  BY <1>1 DEF Tick, AffordInv, Affordable, Covered, Batch
<1>2. ASSUME NEW p \in Pools, NEW d \in Plan(p, dash[p]), chain' = chain,
             dash' = [dash EXCEPT ![p] = [d EXCEPT !.awaiting = (d.pending # <<>>)]]
      PROVE  AffordInv'
  <2>1. dash[p].balance \in Int /\ DOMAIN dash[p] = Fields
    BY DEF AffordInv, Shape
  <2>2. d.balance \in Int /\ Covered(d) /\ DOMAIN d = Fields
    BY <2>1, PlanCovered, PlanKeeps
  <2> DEFINE e == [d EXCEPT !.awaiting = (d.pending # <<>>)]
  <2>3. e.pending = d.pending /\ e.scale = d.scale /\ e.balance = d.balance
    BY <2>2 DEF Fields
  <2>4. dash'[p] = e /\ \A q \in Pools \ {p} : dash'[q] = dash[q]
    BY <1>2 DEF Shape
  <2> HIDE DEF e
  <2>5. Covered(e) /\ e.balance \in Int
    BY <2>2, <2>3, CoveredSame
  <2> QED BY <1>2, <2>4, <2>5, AffordFrame
<1>3. ASSUME NEW p \in Pools, NEW d \in Plan(p, [dash[p] EXCEPT !.nextAttempt = now + 1]), chain' = chain,
             dash' = [dash EXCEPT ![p] = [d EXCEPT !.pc = IF d.pending = <<>> THEN "idle" ELSE "unlock"]]
      PROVE  AffordInv'
  <2> DEFINE c == [dash[p] EXCEPT !.nextAttempt = now + 1]
  <2>1. c.balance \in Int /\ DOMAIN c = Fields
    BY DEF AffordInv, Shape, Fields
  <2>2. d.balance \in Int /\ Covered(d) /\ DOMAIN d = Fields
    <3> HIDE DEF c
    <3>1. d \in Plan(p, c)
      BY <1>3 DEF c
    <3> QED BY <2>1, <3>1, PlanCovered, PlanKeeps
  <2> DEFINE e == [d EXCEPT !.pc = IF d.pending = <<>> THEN "idle" ELSE "unlock"]
  <2>3. e.pending = d.pending /\ e.scale = d.scale /\ e.balance = d.balance
    BY <2>2 DEF Fields
  <2>4. dash'[p] = e /\ \A q \in Pools \ {p} : dash'[q] = dash[q]
    BY <1>3 DEF Shape
  <2> HIDE DEF e
  <2>5. Covered(e) /\ e.balance \in Int
    BY <2>2, <2>3, CoveredSame
  <2> QED BY <1>3, <2>4, <2>5, AffordFrame
<1>4. ASSUME NEW p \in Pools, chain' = chain, dash' = [dash EXCEPT ![p] = dash'[p]],
             dash'[p].pending = <<>>, dash'[p].balance = -1
      PROVE  AffordInv'
  <2>1. \A q \in Pools \ {p} : dash'[q] = dash[q]
    BY <1>4 DEF Shape
  <2>2. dash'[p].balance \in Int
    BY <1>4
  <2>3. Covered(dash'[p])
    BY <1>4, <2>2, NothingCovered
  <2> QED BY <1>4, <2>1, <2>2, <2>3, AffordFrame
<1>5. ASSUME NEW p \in Pools, PressOther(p) \/ abortPayoutPeriod(p) \/ recorded(p) \/ Restart(p)
      PROVE  AffordInv'
  <2>1. /\ chain' = chain /\ dash' = [dash EXCEPT ![p] = dash'[p]]
        /\ dash'[p].pending = <<>> /\ dash'[p].balance = -1
    BY <1>5 DEF PressOther, abortPayoutPeriod, recorded, Restart, Finished, Idle, Shape
  <2> QED BY <1>4, <2>1
<1>6. ASSUME NEW p \in Pools, chain' = chain,
             PressY(p) \/ walletUnlock(p) \/ beginPayoutPeriod(p) \/ sendMany(p) \/ recordPayout(p)
      PROVE  AffordInv'
  <2>1. /\ \A q \in Pools \ {p} : dash'[q] = dash[q]
        /\ dash'[p].pending = dash[p].pending /\ dash'[p].scale = dash[p].scale
        /\ dash'[p].balance = dash[p].balance
    BY <1>6 DEF PressY, walletUnlock, beginPayoutPeriod, sendMany, recordPayout, Shape, Fields
  <2> QED BY <1>6, <2>1, AffordFrame
<1>7. ASSUME NEW p \in Pools, sendMany(p), chain' = Broadcast(p)
      PROVE  AffordInv'
  <2>1. PICK S : chain \in Seq(S)
    BY DEF Shape
  <2>2. /\ DOMAIN chain' = 1 .. Len(chain) + 1 /\ DOMAIN chain = 1 .. Len(chain)
        /\ Len(chain) \in Nat
        /\ \A i \in DOMAIN chain : chain'[i] = chain[i]
        /\ chain'[Len(chain) + 1].outs = Batch(dash[p])
        /\ chain'[Len(chain) + 1].balance = dash[p].balance
    BY <1>7, <2>1, BroadcastKeeps
  <2>3. /\ \A q \in Pools \ {p} : dash'[q] = dash[q]
        /\ dash'[p].pending = dash[p].pending /\ dash'[p].scale = dash[p].scale
        /\ dash'[p].balance = dash[p].balance
    BY <1>7 DEF sendMany, Shape, Fields
  <2>4. \A q \in Pools : dash'[q].balance \in Int /\ Covered(dash'[q])
    <3>1. dash'[p].balance \in Int /\ Covered(dash'[p])
      BY <2>3, CoveredSame DEF AffordInv
    <3> QED BY <2>3, <3>1 DEF AffordInv
  <2>5. Affordable'
    <3>1. SUFFICES ASSUME NEW i \in DOMAIN chain', chain'[i].balance >= 0
                   PROVE  Total(chain'[i].outs) + FeePerOutput * Cardinality(DOMAIN chain'[i].outs)
                            <= chain'[i].balance
      BY DEF Affordable, Total, SumOver
    <3>2. CASE i \in DOMAIN chain
      BY <2>2, <3>1, <3>2 DEF AffordInv, Affordable
    <3>3. CASE i = Len(chain) + 1
      <4>1. DOMAIN Batch(dash[p]) = DOMAIN dash[p].pending
        BY DEF Batch
      <4>2. Covered(dash[p])
        BY DEF AffordInv
      <4> QED BY <2>2, <3>1, <3>3, <4>1, <4>2 DEF Covered
    <3> QED BY <2>2, <3>2, <3>3
  <2> QED BY <2>4, <2>5 DEF AffordInv, Covered, Batch
<1>8. ASSUME NEW p \in Pools, doOnchainAnnounce(p) \/ Announced(p)
      PROVE  AffordInv'
  <2>1. chain' = chain /\ dash' = dash
    BY <1>8 DEF doOnchainAnnounce, Announced
  <2> QED BY <2>1, AffordFrame
<1>9. CASE UNCHANGED vars
  <2>1. chain' = chain /\ dash' = dash
    BY <1>9 DEF vars
  <2> QED BY <2>1 DEF AffordInv, Affordable, Covered, Batch
<1>10. ASSUME NEW p \in Pools, PressE(p) \/ maybeAutoPayout(p)
       PROVE  AffordInv'
  BY <1>2, <1>3, <1>10 DEF PressE, maybeAutoPayout
<1>11. ASSUME NEW p \in Pools, sendMany(p)
       PROVE  AffordInv'
  <2>1. chain' = Broadcast(p) \/ chain' = chain
    BY <1>11 DEF sendMany
  <2> QED BY <1>6, <1>7, <1>11, <2>1
<1>12. ASSUME NEW p \in Pools, PressY(p) \/ walletUnlock(p) \/ beginPayoutPeriod(p) \/ recordPayout(p)
       PROVE  AffordInv'
  <2>1. chain' = chain
    BY <1>12 DEF PressY, walletUnlock, beginPayoutPeriod, recordPayout
  <2> QED BY <1>6, <1>12, <2>1
<1> QED
  BY <1>1, <1>5, <1>8, <1>9, <1>10, <1>11, <1>12 DEF Next, Pool

\* No batch is planned beyond the balance read, for any nodes, addresses, weights, balances
\* and settings, and whatever answers and rows are lost: the shares, each rounded half up,
\* and a fee for every output fit what listunspent said (computeBudget, planPayout,
\* executePayout).  The outputs round up by half a satoshi each, which the base of the fee
\* pays for: in the code a million satoshi, for two million targets.
THEOREM BatchesFitBalance ==
    ASSUME RoundingInBase
    PROVE  Spec => []Affordable
<1>1. Init => AffordInv
  <2> SUFFICES ASSUME Init PROVE AffordInv
    OBVIOUS
  <2>1. Affordable
    BY DEF Init, Affordable
  <2>2. ASSUME NEW p \in Pools PROVE dash[p].balance \in Int /\ Covered(dash[p])
    <3>1. dash[p].pending = <<>> /\ dash[p].balance \in Int
      BY DEF Init, Idle
    <3> QED BY <3>1, NothingCovered
  <2> QED BY <2>1, <2>2 DEF AffordInv
<1>2. Shape /\ AffordInv /\ [Next]_vars => AffordInv'
  BY AffordStep
<1>3. AffordInv => Affordable
  BY DEF AffordInv
<1> QED
  BY <1>1, <1>2, <1>3, ShapeInvariance, PTL DEF Spec
==============================================================================
