------------------------------ MODULE PoolPayouts ------------------------------
(***************************************************************************)
(* The payout path of the pool server: PoolDashboard::planPayout,          *)
(* executePayout and maybeAutoPayout on the dashboard thread, the ledger   *)
(* in payouts_ledger (PoolDatabase), the peers' ledgers it is compared     *)
(* with (PoolServer), and the on-chain announce thread, which drives the   *)
(* same wallet.                                                            *)
(*                                                                         *)
(* A payout spans a wallet that cannot be rolled back and a database that  *)
(* can lose a write, and the process may end between any two steps.  One   *)
(* tick of the clock is an hour: an execution is bounded by the sixty      *)
(* seconds of its slowest call, so the clock stands still during one.      *)
(***************************************************************************)
EXTENDS Integers, Sequences, FiniteSets, FiniteSetsExt

CONSTANTS
    Pools,          \* pool servers that name each other in poolpeers
    Nodes,          \* registered storage nodes
    AddressOf,      \* [Nodes -> addresses]: nodes may share a payout address
    Invalid,        \* addresses Core's validateaddress rejects
    Weightings,     \* answers of getVerifiedPayoutTargets: nodes to weights
    Balances,       \* answers of listunspent, in satoshi; -1 is an RPC error
    Percent,        \* poolpayoutpercent, 0 when poolspendperperiod decides
    FixedSpend,     \* poolspendperperiod, in satoshi
    FeeBase, FeePerOutput, Dust,    \* in satoshi
    Period,         \* poolpayoutperiodhours, at least 1
    Automatic,      \* the pools with poolautopayout=1
    Unreachable,    \* the pools whose peer API may fail to answer
    Faults,         \* ledger statements that can fail: "read", "guard", "record", "abort"
    MaxTime,        \* bound on the clock
    MaxBatches,     \* bound on the batches broadcast
    MaxRows         \* bound on the rows of a ledger a payout is planned over

ASSUME PayoutConstants ==
    /\ IsFiniteSet(Nodes) /\ DOMAIN AddressOf = Nodes /\ Balances \subseteq Int
    /\ \A w \in Weightings : DOMAIN w \subseteq Nodes /\ \A n \in DOMAIN w : w[n] \in Nat
    /\ {Percent, FixedSpend, FeeBase, FeePerOutput, Dust, MaxTime, MaxBatches, MaxRows} \subseteq Nat
    /\ Percent <= 100 /\ Period \in Nat \ {0}
    /\ Automatic \subseteq Pools /\ Unreachable \subseteq Pools
    /\ Faults \subseteq {"read", "guard", "record", "abort"}

VARIABLES
    now,        \* hours
    ledger,     \* [Pools -> set of rows of payouts_ledger]
    dash,       \* [Pools -> state of the dashboard thread]
    announce,   \* [Pools -> the announce thread spends from the wallet]
    locked,     \* [Pools -> Core's wallet is locked]
    chain       \* every batch Core broadcast, in order: the external truth

vars == <<now, ledger, dash, announce, locked, chain>>

Addresses == {AddressOf[n] : n \in Nodes}
NoTx == 0
Lost == -1      \* sendmany's TIMEOUT: the answer never came
NoGuard == -1

Row(id, address, sat, txid) ==
    [id |-> id, address |-> address, sat |-> sat, owedAt |-> now, txid |-> txid]

Idle == [pc |-> "idle", awaiting |-> FALSE, pending |-> <<>>, scale |-> 1,
         balance |-> -1, blind |-> FALSE, nextAttempt |-> 0, guard |-> NoGuard,
         unlocked |-> FALSE, reply |-> NoTx, todo |-> {}]

Init ==
    /\ now = 1
    /\ ledger = [p \in Pools |-> {}]
    /\ dash = [p \in Pools |-> Idle]
    /\ announce = [p \in Pools |-> FALSE] /\ locked = [p \in Pools |-> TRUE]
    /\ chain = <<>>

-----------------------------------------------------------------------------
(* Amounts.  The code's doubles are exact fractions here: an amount is a    *)
(* numerator over the scale 100 * totalWeight.                              *)

payoutSats(num, scale) == (2 * num + scale) \div (2 * scale)

isBelowDust(num, scale) == num < Dust * scale

FeeReserve(outputs) == FeeBase + FeePerOutput * outputs

NotNegative(x) == IF x < 0 THEN 0 ELSE x

\* Mutant: the fixed amount is not bounded by the balance.
computeBudgetUnbounded(balance, outputs) ==
    IF Percent > 0 THEN IF balance < 0 THEN -100 ELSE balance * Percent ELSE 100 * FixedSpend

\* Hundredths of a satoshi; -100 when a percentage cannot be taken.
computeBudget(balance, outputs) ==
    LET cap == 100 * (balance - FeeReserve(outputs))
        wanted == IF Percent > 0 THEN balance * Percent ELSE 100 * FixedSpend
    IN  CASE balance < 0 /\ Percent > 0 -> -100
          [] balance < 0 /\ Percent = 0 -> wanted
          [] OTHER -> NotNegative(IF wanted > cap THEN cap ELSE wanted)

\* The sum of f over S, counted: f[x] pairs for every x.
SumOver(f, S) == Cardinality(UNION {{x} \X (1 .. f[x]) : x \in S})

Total(f) == SumOver(f, DOMAIN f)

\* The shares of the addresses: nodes that share an address are one payment.
Shares(weights, budget) ==
    LET paid == {n \in DOMAIN weights : budget * weights[n] > 0}
    IN  [a \in {AddressOf[n] : n \in paid} |->
            budget * SumOver(weights, {n \in paid : AddressOf[n] = a})]

-----------------------------------------------------------------------------
(* The ledger.                                                              *)

\* Mutant: only rows of confirmed payouts count.
getLastPaidAt(p) == Max({0} \cup {r.owedAt : r \in {s \in ledger[p] : s.txid # NoTx}})

getLastPayoutAt(p) == Max({0} \cup {r.owedAt : r \in ledger[p]})

\* What a caller may get: a SELECT that fails says 0, which is "never paid".
LastPayouts(p) == {getLastPayoutAt(p)} \cup (IF "read" \in Faults THEN {0} ELSE {})

\* getRecentPayouts as the peer serves it, within the asking pool's window.
PaidWithin(q) ==
    {r.address : r \in {s \in ledger[q] : s.txid # NoTx /\ s.owedAt >= now - Period}}

Elapsed(last) == last <= 0 \/ now - last >= Period

\* An id no row of the table has.
NextId(p) == 1 + Max({0} \cup {r.id : r \in ledger[p]})

\* An INSERT: the row is written, or the statement fails.
Insert(p, kind, address, sat, txid) ==
    \/ ledger' = [ledger EXCEPT ![p] = @ \cup {Row(NextId(p), address, sat, txid)}]
    \/ kind \in Faults /\ UNCHANGED ledger

-----------------------------------------------------------------------------
(* planPayout.  The peers that answer are any of the others; validateaddress *)
(* keeps an address when its call fails.                                     *)

Planned(weights, budget, skip, dropped) ==
    LET scale == 100 * Total(weights)
        shares == Shares(weights, budget)
        kept == {a \in DOMAIN shares :
                    a \notin skip /\ a \notin dropped /\ ~isBelowDust(shares[a], scale)}
    IN  [a \in kept |-> shares[a]]

\* blind is a history: the plan was made although the ledger could not be read.
planPayout(p, d, last, weights, balance, peers, dropped) ==
    LET budget == computeBudget(balance, Cardinality(DOMAIN weights))
        plan == IF /\ DOMAIN weights # {} /\ Elapsed(last)
                   /\ budget > 0 /\ Total(weights) > 0
                THEN Planned(weights, budget, UNION {PaidWithin(q) : q \in peers}, dropped)
                ELSE <<>>
    IN  IF plan = <<>> THEN [d EXCEPT !.pending = <<>>]
        ELSE [d EXCEPT !.pending = plan, !.scale = 100 * Total(weights), !.balance = balance,
                       !.blind = last # getLastPayoutAt(p)]

\* The outcomes of the plan over every answer its calls can get.
Plan(p, d) ==
    {planPayout(p, d, last, weights, balance, peers, dropped) :
        last \in LastPayouts(p), weights \in Weightings, balance \in Balances,
        peers \in {Pools \ ({p} \cup down) : down \in SUBSET Unreachable}, dropped \in SUBSET Invalid}

\* Where statements fail one hour can see any number of payouts.
WithinBounds(p) == Len(chain) < MaxBatches /\ Cardinality(ledger[p]) < MaxRows

\* Only the time of the next attempt outlives a payout or a cancelled one.
Finished(p) == [Idle EXCEPT !.nextAttempt = dash[p].nextAttempt]

\* The operator's keys.
PressE(p) ==
    /\ dash[p].pc = "idle" /\ ~dash[p].awaiting /\ WithinBounds(p)
    /\ \E d \in Plan(p, dash[p]) :
            dash' = [dash EXCEPT ![p] = [d EXCEPT !.awaiting = (d.pending # <<>>)]]
    /\ UNCHANGED <<now, ledger, announce, locked, chain>>

PressY(p) ==
    /\ dash[p].pc = "idle" /\ dash[p].awaiting
    /\ dash' = [dash EXCEPT ![p].awaiting = FALSE, ![p].pc = "unlock"]
    /\ UNCHANGED <<now, ledger, announce, locked, chain>>

PressOther(p) ==
    /\ dash[p].pc = "idle" /\ dash[p].awaiting
    /\ dash' = [dash EXCEPT ![p] = Finished(p)]
    /\ UNCHANGED <<now, ledger, announce, locked, chain>>

\* The loop comes by every half second.
AutoDue(p, last) ==
    /\ p \in Automatic /\ dash[p].pc = "idle" /\ ~dash[p].awaiting
    /\ Elapsed(last) /\ now >= dash[p].nextAttempt

maybeAutoPayout(p) ==
    /\ WithinBounds(p) /\ \E last \in LastPayouts(p) : AutoDue(p, last)
    /\ \E d \in Plan(p, [dash[p] EXCEPT !.nextAttempt = now + 1]) :
            dash' = [dash EXCEPT ![p] =
                        [d EXCEPT !.pc = IF d.pending = <<>> THEN "idle" ELSE "unlock"]]
    /\ UNCHANGED <<now, ledger, announce, locked, chain>>

-----------------------------------------------------------------------------
(* executePayout, step by step.  poolWalletMutex is held from "unlock" on.  *)

\* Mutant: the payout does not take poolWalletMutex.
NoMutex(p) == TRUE

WalletFree(p) == ~announce[p]

InPayout(p) == dash[p].pc \in {"guard", "send", "record", "abort"}

walletUnlock(p) ==
    /\ dash[p].pc = "unlock" /\ WalletFree(p)
    /\ \E ok \in BOOLEAN :
        /\ dash' = [dash EXCEPT ![p].pc = "guard", ![p].unlocked = ok]
        /\ locked' = [locked EXCEPT ![p] = @ /\ ~ok]
    /\ UNCHANGED <<now, ledger, announce, chain>>

beginPayoutPeriod(p) ==
    /\ dash[p].pc = "guard"
    /\ Insert(p, "guard", "__PERIOD_GUARD__", 0, NoTx)
    /\ dash' = [dash EXCEPT ![p].pc = "send",
                            ![p].guard = IF ledger' = ledger THEN NoGuard ELSE NextId(p)]
    /\ UNCHANGED <<now, announce, locked, chain>>

Batch(d) == [a \in DOMAIN d.pending |-> payoutSats(d.pending[a], d.scale)]

\* Core rejects the whole batch for a locked wallet or one bad address.
Acceptable(p) == ~locked[p] /\ DOMAIN dash[p].pending \cap Invalid = {}

Broadcast(p) ==
    Append(chain, [pool |-> p, at |-> now, outs |-> Batch(dash[p]), balance |-> dash[p].balance,
                   blind |-> dash[p].blind, guarded |-> dash[p].guard # NoGuard])

\* sendmany.  The broadcast and the answer are Core's and the network's: the
\* answer of a batch that went out, or of one that did not, may be lost.
sendMany(p) ==
    /\ dash[p].pc = "send"
    /\ \/ /\ Acceptable(p)
          /\ chain' = Broadcast(p)
          /\ \E reply \in {Len(chain) + 1, Lost} :
                dash' = [dash EXCEPT ![p].pc = "record", ![p].reply = reply,
                                     ![p].todo = DOMAIN dash[p].pending]
       \/ /\ dash' = [dash EXCEPT ![p].pc = "record", ![p].reply = Lost,
                                  ![p].todo = DOMAIN dash[p].pending]
          /\ UNCHANGED chain
       \/ /\ dash' = [dash EXCEPT ![p].pc = "abort"]
          /\ UNCHANGED chain
    /\ UNCHANGED <<now, ledger, announce, locked>>

\* walletLock, only if this execution opened the wallet; the mutex is released.
WalletAfter(p) == [locked EXCEPT ![p] = @ \/ dash[p].unlocked]

abortPayoutPeriod(p) ==
    /\ dash[p].pc = "abort"
    /\ \/ ledger' = [ledger EXCEPT ![p] = {r \in @ : r.id # dash[p].guard}]
       \/ "abort" \in Faults /\ UNCHANGED ledger
    /\ dash' = [dash EXCEPT ![p] = Finished(p)] /\ locked' = WalletAfter(p)
    /\ UNCHANGED <<now, announce, chain>>

\* Mutant: the ledger row truncates what the batch rounded.
recordTruncated(p) ==
    /\ dash[p].pc = "record"
    /\ \E a \in dash[p].todo :
        /\ Insert(p, "record", a, dash[p].pending[a] \div dash[p].scale,
                  IF dash[p].reply = Lost THEN NoTx ELSE dash[p].reply)
        /\ dash' = [dash EXCEPT ![p].todo = @ \ {a}]
    /\ UNCHANGED <<now, announce, locked, chain>>

\* recordPayout after a txid, recordPendingPayout after a lost answer.
recordPayout(p) ==
    /\ dash[p].pc = "record"
    /\ \E a \in dash[p].todo :
        /\ Insert(p, "record", a, Batch(dash[p])[a], IF dash[p].reply = Lost THEN NoTx ELSE dash[p].reply)
        /\ dash' = [dash EXCEPT ![p].todo = @ \ {a}]
    /\ UNCHANGED <<now, announce, locked, chain>>

recorded(p) ==
    /\ dash[p].pc = "record" /\ dash[p].todo = {}
    /\ dash' = [dash EXCEPT ![p] = Finished(p)] /\ locked' = WalletAfter(p)
    /\ UNCHANGED <<now, ledger, announce, chain>>

-----------------------------------------------------------------------------
(* The announce thread, the process, and the clock, which passes an hour    *)
(* only when every thread has done what it does in seconds.                 *)

doOnchainAnnounce(p) ==
    /\ ~announce[p] /\ ~InPayout(p)
    /\ announce' = [announce EXCEPT ![p] = TRUE]
    /\ locked' = [locked EXCEPT ![p] = FALSE]
    /\ UNCHANGED <<now, ledger, dash, chain>>

Announced(p) ==
    /\ announce[p]
    /\ announce' = [announce EXCEPT ![p] = FALSE]
    /\ locked' = [locked EXCEPT ![p] = TRUE]
    /\ UNCHANGED <<now, ledger, dash, chain>>

Quiet(p) == dash[p].pc = "idle" /\ ~announce[p]

Tick ==
    /\ now < MaxTime /\ \A p \in Pools : Quiet(p) /\ ~AutoDue(p, getLastPayoutAt(p))
    /\ now' = now + 1
    /\ locked' = [p \in Pools |-> TRUE]     \* walletpassphrase runs out
    /\ UNCHANGED <<ledger, dash, announce, chain>>

\* The process ends, by [Q] or by a crash at any step, and is started again.
Restart(p) ==
    /\ dash' = [dash EXCEPT ![p] = Idle] /\ announce' = [announce EXCEPT ![p] = FALSE]
    /\ UNCHANGED <<now, ledger, locked, chain>>

Pool(p) ==
    \/ PressE(p) \/ PressY(p) \/ PressOther(p) \/ maybeAutoPayout(p)
    \/ walletUnlock(p) \/ beginPayoutPeriod(p) \/ sendMany(p)
    \/ abortPayoutPeriod(p) \/ recordPayout(p) \/ recorded(p)
    \/ doOnchainAnnounce(p) \/ Announced(p) \/ Restart(p)

Next == Tick \/ \E p \in Pools : Pool(p)

Spec == Init /\ [][Next]_vars

-----------------------------------------------------------------------------
(* Properties.                                                              *)

Rows == [id : Nat \ {0}, address : Addresses \cup {"__PERIOD_GUARD__"},
         sat : Nat, owedAt : 1 .. MaxTime, txid : Nat]

\* The variables keep the shapes of the table, the members and the wallet.
TypeOK ==
    /\ now \in 1 .. MaxTime
    /\ \A p \in Pools : /\ ledger[p] \subseteq Rows
                         /\ \A r \in ledger[p] : r.txid <= Len(chain)
                         /\ dash[p].pc \in {"idle", "unlock", "guard", "send", "record", "abort"}
                         /\ DOMAIN dash[p].pending \subseteq Addresses
                         /\ dash[p].todo \subseteq DOMAIN dash[p].pending
                         /\ dash[p].guard < NextId(p)
    /\ announce \in [Pools -> BOOLEAN] /\ locked \in [Pools -> BOOLEAN]

\* Two batches one pool broadcast lie at least a period apart, whatever answers
\* were lost, whatever rows of recipients failed to be written (recordPayout's
\* "could allow a re-pay" included) and wherever the process ended, except where
\* the earlier one went out without its guard row (beginPayoutPeriod returned -1)
\* or the later one was planned from a ledger that could not be read
\* (getLastPayoutAt returned 0).
OncePerGuardedPeriod ==
    \A i, j \in DOMAIN chain :
        /\ i < j /\ chain[i].pool = chain[j].pool
        /\ chain[i].guarded /\ ~chain[j].blind
        => chain[j].at - chain[i].at >= Period

\* "We never double-pay" (executePayout, planPayout), without those exceptions.
OncePerPeriod ==
    \A i, j \in DOMAIN chain :
        i < j /\ chain[i].pool = chain[j].pool => chain[j].at - chain[i].at >= Period

\* The public ledger is sound: a row with a txid is an output of that
\* transaction of this pool, of the recorded amount to the satoshi, and no
\* output is recorded twice (recordPayout, payoutSats).
LedgerSound ==
    \A p \in Pools : \A r \in {s \in ledger[p] : s.txid # NoTx} :
        /\ chain[r.txid].pool = p
        /\ r.address \in DOMAIN chain[r.txid].outs /\ chain[r.txid].outs[r.address] = r.sat
        /\ \A s \in ledger[p] : s.txid = r.txid /\ s.address = r.address => s = r

\* A batch is never planned beyond what the wallet said it can spend: its
\* rounded amounts and a fee for every output fit the balance computeBudget read.
Affordable ==
    \A i \in DOMAIN chain :
        LET tx == chain[i]
        IN  tx.balance >= 0 =>
                Total(tx.outs) + FeePerOutput * Cardinality(DOMAIN tx.outs) <= tx.balance

\* The announce thread never locks the wallet under a payout that opened it, so
\* its batch is not refused with -13 (poolWalletMutex).
SpendUnlocked ==
    \A p \in Pools : InPayout(p) /\ dash[p].unlocked => ~locked[p]

-----------------------------------------------------------------------------
(* Statements of the source's comments that the code does not keep; see the README. *)

\* An address served by two pools is paid by one of them per period: a peer's
\* ledger is asked before a batch is planned (planPayout's deduplication).
OnePoolPays ==
    \A i, j \in DOMAIN chain :
        i < j /\ chain[j].at - chain[i].at < Period
            => DOMAIN chain[i].outs \cap DOMAIN chain[j].outs = {}

\* A due automatic payout is tried, and its reason logged, every hour without
\* anyone at the console (maybeAutoPayout): no hour passes over a due payout
\* with no attempt in it.
NoSilentHour ==
    [][\A p \in Automatic : now' > now /\ Elapsed(getLastPayoutAt(p)) => dash[p].nextAttempt > now]_vars
===============================================================================
