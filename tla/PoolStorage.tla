------------------------------ MODULE PoolStorage ------------------------------
(***************************************************************************)
(* Proof of storage in the pool server: nodes register with keepalives,    *)
(* are challenged in the reply, answer on POST /proof (PoolServer), are    *)
(* verified and have their unanswered challenges closed by the verifier    *)
(* thread (PoolVerifier), and are paid by the plan of StoragePlan.         *)
(*                                                                         *)
(* Requests run on a pool of worker threads; every call of PoolDatabase    *)
(* holds its mutex and is one step, and a request's steps interleave with  *)
(* those of others.  Which file and which range a challenge is about is    *)
(* left out: an answer is right or wrong.  A definition whose comment says *)
(* "Mutant" is a mutant of the one after it.                               *)
(***************************************************************************)
EXTENDS StoragePlan, Sequences

CONSTANTS
    Workers,        \* request threads
    Asking,         \* peers whose keepalives arrive with their secret
    MaxChallenges,  \* bound on the challenges of one peer
    MaxRounds,      \* bound on the verify rounds of all peers
    Faults          \* of "lost", "lostproof", "unreadable", "restart", "cut"

ASSUME StorageConstants ==
    /\ Asking \subseteq Peers /\ {MaxChallenges, MaxRounds} \subseteq Nat
    /\ Faults \subseteq {"lost", "lostproof", "unreadable", "restart", "cut"}

VARIABLES
    honest,         \* peers that hold their files and answer what reaches them;
                    \* the others answer right, wrong or not at all
    node,           \* [Peers -> the scores of a row of nodes, and its eligibility]
    challenges,     \* [Peers -> Seq]: the rows of storage_challenges
    worker,         \* [Workers -> the request a thread is in the middle of]
    rounds

vars == <<honest, node, challenges, worker, rounds>>

\* answered: answeredAt is set; late: past the deadline; verdict: passed;
\* proof: the reply that carried it is "unheard", or the node has "sent" the one
\* post it makes for a reply, or that post is "lost".
Issued == [answered |-> FALSE, late |-> FALSE, verdict |-> "null", proof |-> "unheard"]
Idle == [call |-> "none"]

Eligible == {p \in Peers : node[p].fresh /\ node[p].fails < 3}
paid == paidSet(node, Eligible)

Init ==
    /\ honest \in SUBSET Asking
    /\ node = [p \in Peers |-> [reliability |-> 0, coverage |-> 0, score |-> 0, answered |-> 0,
                                fresh |-> FALSE, fails |-> 0]]
    /\ challenges = [p \in Peers |-> <<>>]
    /\ worker = [w \in Workers |-> Idle]
    /\ rounds = 0

-----------------------------------------------------------------------------
(* Keepalives.                                                              *)

\* Unanswered and inside the deadline.
Open(c) == ~c.answered /\ ~c.late
OpenOf(p) == {k \in DOMAIN challenges[p] : Open(challenges[p][k])}
Newest(S) == CHOOSE k \in S : \A j \in S : j <= k

\* The reply reaches the node, which posts its answer (answerStorageChallenge),
\* or is lost and leaves things as they were.
Replied(proof) == {"sent"} \cup IF "lost" \in Faults THEN {proof} ELSE {}

\* handleKeepalive and challengeFor up to getOpenChallenge: an open challenge
\* is sent again.
handleKeepalive(w, p) ==
    /\ worker[w] = Idle
    /\ IF OpenOf(p) = {}
       THEN /\ Len(challenges[p]) < MaxChallenges
            /\ worker' = [worker EXCEPT ![w] = [call |-> "issue", peer |-> p]]
            /\ UNCHANGED challenges
       ELSE /\ \E proof \in Replied(challenges[p][Newest(OpenOf(p))].proof) :
                    challenges' = [challenges EXCEPT ![p][Newest(OpenOf(p))].proof = proof]
            /\ UNCHANGED worker
    /\ UNCHANGED <<honest, node, rounds>>

insertChallenge(w) ==
    /\ worker[w].call = "issue"
    /\ \E proof \in Replied("unheard") :
            challenges' = [challenges EXCEPT ![worker[w].peer] =
                                Append(@, [Issued EXCEPT !.proof = proof])]
    /\ worker' = [worker EXCEPT ![w] = Idle]
    /\ UNCHANGED <<honest, node, rounds>>

-----------------------------------------------------------------------------
(* Proofs.                                                                  *)

\* answerStorageChallenge posts once and does not try again: the post, or the read
\* before it, fails, times out, meets a pool that is restarting, or comes too late.
\* Only a keepalive that carries the challenge again makes the node send another.
\* (A node that is not honest may send nothing anyhow.)
LoseProof(p) ==
    /\ "lostproof" \in Faults /\ p \in honest
    /\ \E k \in OpenOf(p) :
        /\ challenges[p][k].proof = "sent"
        /\ challenges' = [challenges EXCEPT ![p][k].proof = "lost"]
    /\ UNCHANGED <<honest, node, worker, rounds>>

\* claimChallenge: an open challenge is answered once.  An honest answer is right.
claimChallenge(w, p) ==
    /\ worker[w] = Idle
    /\ \E k \in OpenOf(p), right \in BOOLEAN :
        /\ challenges[p][k].proof # "unheard"
        /\ p \in honest => right /\ challenges[p][k].proof = "sent"
        /\ challenges' = [challenges EXCEPT ![p][k].answered = TRUE]
        /\ worker' = [worker EXCEPT ![w] = [call |-> "judge", peer |-> p, id |-> k, right |-> right]]
    /\ UNCHANGED <<honest, node, rounds>>

\* A verdict folded into the node's score.
Folded(n, passed) == [n EXCEPT !.score = nextProofScore(@, passed), !.answered = @ + 1]

\* recordProofResult.
recordProofResult(w) ==
    /\ worker[w].call = "judge"
    /\ LET p == worker[w].peer
           k == worker[w].id
       IN  IF challenges[p][k].verdict = "null"
           THEN /\ challenges' = [challenges EXCEPT ![p][k].verdict =
                                    IF worker[w].right THEN "pass" ELSE "fail"]
                /\ node' = [node EXCEPT ![p] = Folded(@, worker[w].right)]
           ELSE UNCHANGED <<challenges, node>>
    /\ worker' = [worker EXCEPT ![w] = Idle]
    /\ UNCHANGED <<honest, rounds>>

\* The pool cannot read its own copy: neither a pass nor a fail.
CannotJudge(w) ==
    /\ "unreadable" \in Faults /\ worker[w].call = "judge"
    /\ worker' = [worker EXCEPT ![w] = Idle]
    /\ UNCHANGED <<honest, node, challenges, rounds>>

-----------------------------------------------------------------------------
(* The verifier.                                                            *)

\* Mutant: what has no verdict counts as unanswered.
UnjudgedOf(p) == {k \in DOMAIN challenges[p] : challenges[p][k].late /\ challenges[p][k].verdict = "null"}

\* Unanswered past the deadline.
OverdueOf(p) == {k \in DOMAIN challenges[p] : challenges[p][k].late /\ ~challenges[p][k].answered}

\* A node that has answered before is scored one fail.
Penalised == [p \in Peers |->
    IF OverdueOf(p) # {} /\ node[p].answered > 0 THEN Folded(node[p], FALSE) ELSE node[p]]

\* Mutant: what is closed gets no verdict.
ClosedUnjudged == [p \in Peers |-> [k \in DOMAIN challenges[p] |->
    IF k \in OverdueOf(p) THEN [challenges[p][k] EXCEPT !.answered = TRUE] ELSE challenges[p][k]]]

\* Mutant: the challenges of a node that never answered stay open.
ClosedAnswering == [p \in Peers |-> [k \in DOMAIN challenges[p] |->
    IF k \in OverdueOf(p) /\ node[p].answered > 0
    THEN [challenges[p][k] EXCEPT !.answered = TRUE, !.verdict = "fail"] ELSE challenges[p][k]]]

\* All of them are closed, as fails if the node is one that answers.
Closed == [p \in Peers |-> [k \in DOMAIN challenges[p] |->
    IF k \in OverdueOf(p)
    THEN [challenges[p][k] EXCEPT !.answered = TRUE,
                                  !.verdict = IF node[p].answered > 0 THEN "fail" ELSE "null"]
    ELSE challenges[p][k]]]

\* expireChallenges: two statements under one lock ...
expireChallenges ==
    /\ \E p \in Peers : OverdueOf(p) # {}
    /\ node' = Penalised /\ challenges' = Closed
    /\ UNCHANGED <<honest, worker, rounds>>

\* ... but not in one transaction: the process may end between them.
ExpireCut ==
    /\ "cut" \in Faults /\ \E p \in Peers : OverdueOf(p) # {}
    /\ node' = Penalised
    /\ worker' = [w \in Workers |-> Idle]
    /\ UNCHANGED <<honest, challenges, rounds>>

\* The row of a peer after a verify round in which it was reachable or not:
\* recordVerifySuccess or recordVerifyFailure and then updateNodeScores, calls of
\* the one thread that writes these columns.
Verified(n, ok, seen) ==
    [n EXCEPT !.fresh = @ \/ ok, !.fails = IF ok THEN 0 ELSE @ + 1,
              !.coverage = nextRound(@, seen), !.reliability = nextRound(@, IF ok THEN 1000 ELSE 0)]

\* One peer of a verify round: reachable or not, seen providing the samples or
\* not, and its coverage as it was when no sample was live (nextRound(x, x) = x).
Verify(p) ==
    /\ rounds < MaxRounds /\ rounds' = rounds + 1
    /\ \E ok \in BOOLEAN, seen \in {0, node[p].coverage, 1000} :
            node' = [node EXCEPT ![p] = Verified(@, ok, seen)]
    /\ UNCHANGED <<honest, challenges, worker>>

-----------------------------------------------------------------------------
(* Time and failures.                                                       *)

\* The deadline of a challenge passes.  What an honest node sent has been claimed
\* by then, or is lost.
Deadline(p) ==
    /\ \E k \in DOMAIN challenges[p] :
        /\ ~challenges[p][k].late
        /\ p \in honest /\ challenges[p][k].proof = "sent" => challenges[p][k].answered
        /\ challenges' = [challenges EXCEPT ![p][k].late = TRUE]
    /\ UNCHANGED <<honest, node, worker, rounds>>

\* A day without a successful verification.
Stale(p) ==
    /\ node[p].fresh /\ node' = [node EXCEPT ![p].fresh = FALSE]
    /\ UNCHANGED <<honest, challenges, worker, rounds>>

\* The pool is restarted: requests are gone, the database stays.
Restart ==
    /\ "restart" \in Faults /\ \E w \in Workers : worker[w] # Idle
    /\ worker' = [w \in Workers |-> Idle]
    /\ UNCHANGED <<honest, node, challenges, rounds>>

Next ==
    \/ \E w \in Workers : \/ \E p \in Asking : handleKeepalive(w, p) \/ claimChallenge(w, p)
                          \/ insertChallenge(w) \/ recordProofResult(w) \/ CannotJudge(w)
    \/ expireChallenges \/ ExpireCut \/ Restart
    \/ \E p \in Peers : LoseProof(p) \/ Verify(p) \/ Deadline(p) \/ Stale(p)

Spec == Init /\ [][Next]_vars

\* The verifier comes round, requests end, and what an honest node sent arrives or
\* is lost.  A deadline is a time of the clock: it passes even if the challenge is
\* heard, and its answer lost, again and again.
FairSpec ==
    /\ Spec /\ WF_vars(expireChallenges)
    /\ \A p \in Peers : SF_vars(Deadline(p))
    /\ \A p \in Peers :
            WF_vars(p \in honest /\ (LoseProof(p) \/ \E w \in Workers : claimChallenge(w, p)))
    /\ \A w \in Workers : WF_vars(insertChallenge(w)) /\ WF_vars(recordProofResult(w))

-----------------------------------------------------------------------------
(* Properties.                                                              *)

VerdictsOf(p) == {k \in DOMAIN challenges[p] : challenges[p][k].verdict # "null"}

\* Scores stay within their range and requests within their rows.
TypeOK ==
    /\ \A p \in Peers : /\ {node[p].score, node[p].reliability, node[p].coverage} \subseteq 0 .. 1000
                        /\ node[p].answered \in Nat /\ node[p].fails \in 0 .. MaxRounds
    /\ \A w \in Workers : worker[w].call = "judge" => worker[w].id \in DOMAIN challenges[worker[w].peer]

\* A verdict is folded into a node's score once: proofAnswered never exceeds
\* the challenges with a verdict, whatever threads judge and expire at once
\* (recordProofResult: "a verdict is folded in once").
FoldedOnce == \A p \in Peers : node[p].answered <= Cardinality(VerdictsOf(p))

\* A node that holds its files and answers loses score only by a challenge of
\* which the last message was lost: the reply that carried it, or the post that
\* answered it.  It loses none by an answer the pool received, through files the
\* pool cannot read, restarts in the middle of a request, and races of request
\* threads with the verifier.
OnlyForTheLost ==
    [][\A p \in honest : node'[p].score < node[p].score =>
            \E k \in OverdueOf(p) : challenges[p][k].proof # "sent"]_vars

\* A file changes hands only because of the node that came or went: a node that
\* stays paid loses a file to a newcomer that now has it, and gains one from a
\* node that is gone and had it (StoragePlan.h: "moves only the files that node
\* held").
OnlyItsFilesMove ==
    [][\A c \in Cids : \A n \in paid \cap paid' :
        /\ n \in assignees(c, paid) \ assignees(c, paid') =>
                \E m \in paid' \ paid : m \in assignees(c, paid')
        /\ n \in assignees(c, paid') \ assignees(c, paid) =>
                \E m \in paid \ paid' : m \in assignees(c, paid)]_vars

\* Every challenge is closed in the end, judged or not.
EveryChallengeClosed ==
    \A p \in Peers : \A k \in 1 .. MaxChallenges :
        k \in DOMAIN challenges[p] ~> k \in DOMAIN challenges[p] /\ challenges[p][k].answered

-----------------------------------------------------------------------------
(* Statements of the source's comments that the code does not keep; see the README. *)

\* A node that never proves earns less than one that does and has passed
\* whatever it was asked (StoragePlan.h, point 4).
ProvingPays ==
    \A m, n \in Peers :
        /\ node[m].answered > 0 /\ \A k \in VerdictsOf(m) : challenges[m][k].verdict = "pass"
        /\ node[n].answered = 0
        => heldScore(node[n]) < heldScore(node[m])
================================================================================
