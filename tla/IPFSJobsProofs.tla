---------------------------- MODULE IPFSJobsProofs ----------------------------
(***************************************************************************)
(* Proofs about the job queue, for any number of workers and jobs, any     *)
(* backlog, and any timeouts, failures, busy statements and restarts.      *)
(***************************************************************************)
EXTENDS IPFSJobs, FiniteSetTheorems, WellFoundedInduction, TLAPS

-----------------------------------------------------------------------------
(* The inductive invariant behind the types. *)

\* Jobs are handed out below the next index, and a caller inserts what it announced, so the
\* table's bound is never passed.
TableOK ==
    /\ DOMAIN ipfs \subseteq JobIndex
    /\ \A j \in DOMAIN ipfs : ipfs[j] \in Row /\ j < nextIndex
    /\ nextIndex \in (Len(Backlog) + 1)..(MaxJobs + 1)

CallersOK ==
    /\ adding \subseteq Row
    /\ IsFiniteSet(adding) /\ nextIndex + Cardinality(adding) <= MaxJobs + 1
    /\ currentlyPaused \subseteq [sync : Sync \ Unordered, left : 0..RetryDelay]

AnswersOK ==
    /\ callbacks \subseteq JobIndex /\ registering \subseteq JobIndex
    /\ promise \in [JobIndex -> {"none", "pending", "content", "timeout"}]
    /\ called \subseteq JobIndex

\* A pause a worker has to note is one of RetryDelay, and of an ordered sync value.
Holding == {"lock", "work", "pause", "remove", "unlock", "call"}
WorkersOK ==
    /\ pc \in [Worker -> WorkerPc]
    /\ job \in [Worker -> Work]
    /\ \A w \in Worker :
         /\ job[w].index < nextIndex
         /\ job[w].pause <= RetryDelay
         /\ pc[w] = "pause" => job[w].sync \notin Unordered
         /\ pc[w] \in Holding => job[w].index # NoJob

BudgetOK == {timeouts, throws, busy, restarts} \subseteq Nat

JobsInv == TableOK /\ CallersOK /\ AnswersOK /\ WorkersOK /\ BudgetOK

-----------------------------------------------------------------------------
(* Records and numbers. *)

\* A set of numbers has a least one, and a bounded one a greatest.
LEMMA LeastNumber ==
    ASSUME NEW T \in SUBSET Nat, T # {}
    PROVE  \E t \in T : \A u \in T : t <= u
<1>1. PICK t \in T : \A u \in T : ~(<<u, t>> \in OpToRel(<, Nat))
  BY NatLessThanWellFounded, WFMin
<1>2. ASSUME NEW u \in T
      PROVE  t <= u
  <2>1. u \in Nat /\ t \in Nat
    OBVIOUS
  <2>2. u < t => <<u, t>> \in OpToRel(<, Nat)
    BY <2>1 DEF OpToRel
  <2>3. ~(u < t)
    BY <1>1, <2>2, Zenon
  <2> QED
    BY <2>1, <2>3
<1> QED
  BY <1>2

\* Min and Max as getNextIPFSJob() and addIPFSJob() use them.
LEMMA MinOfNumbers ==
    ASSUME NEW T \in SUBSET Nat, T # {}
    PROVE  Min(T) \in T /\ \A u \in T : Min(T) <= u
<1>1. PICK t \in T : \A u \in T : t <= u
  BY LeastNumber
<1> QED
  BY <1>1 DEF Min

\* The same for the greatest of the pauses that are left.
LEMMA MaxOfNumbers ==
    ASSUME NEW b \in Nat, NEW T \in SUBSET (0 .. b), T # {}
    PROVE  Max(T) \in T
<1> DEFINE U == {b - x : x \in T}
<1>1. \A x \in T : x \in Nat /\ b - x \in Nat
  OBVIOUS
<1>2. U \in SUBSET Nat /\ U # {}
  BY <1>1
<1>3. PICK t \in U : \A u \in U : t <= u
  <2> HIDE DEF U
  <2> QED
    BY <1>2, LeastNumber
<1>4. PICK m \in T : t = b - m
  BY <1>3
<1>5. ASSUME NEW x \in T
      PROVE  m >= x
  <2>1. t <= b - x
    BY <1>3
  <2> QED
    BY <1>1, <1>4, <2>1
<1> QED
  BY <1>4, <1>5 DEF Max

\* A row stays a row.
LEMMA RowUpdates ==
    ASSUME NEW row \in Row
    PROVE  /\ \A on \in BOOLEAN : SetLock(row, on) \in Row
           /\ \A delay \in Nat : SetPause(row, delay) \in Row
           /\ [row EXCEPT !.pause = None] \in Row
           /\ KeptRow(row) \in Row
BY DEF Row, SetLock, SetPause, KeptRow

\* What is left of a pause or a deadline a tick later.
LEMMA LaterType ==
    ASSUME NEW n \in Nat \cup {None}
    PROVE  Later(n) \in Nat \cup {None}
BY DEF Later, None

\* A row is a row a tick later, and so is a row that is still to be inserted.
LEMMA LaterRow ==
    ASSUME NEW row \in Row
    PROVE  /\ [row EXCEPT !.pause = Later(@), !.maxTime = Later(@)] \in Row
           /\ [row EXCEPT !.pause = Later(@)] \in Row
<1> DEFINE a == Later(row.pause)
           b == Later(row.maxTime)
<1>1. a \in Nat \cup {None} /\ b \in Nat \cup {None}
  BY LaterType DEF Row
<1> HIDE DEF a, b
<1>2. [row EXCEPT !.pause = a, !.maxTime = b] \in Row /\ [row EXCEPT !.pause = a] \in Row
  BY <1>1 DEF Row
<1> QED
  BY <1>2 DEF a, b

-----------------------------------------------------------------------------
(* The statements on the table. *)

\* An UPDATE of locks, pauses or deadlines: the same jobs, in the same order.
SameJobs(table) ==
    /\ DOMAIN table = DOMAIN ipfs
    /\ \A j \in DOMAIN ipfs : /\ table[j] \in Row
                              /\ table[j].sync = ipfs[j].sync
                              /\ table[j].callback = ipfs[j].callback

\* What an UPDATE does to a single row.
LEMMA RowKeepsJob ==
    ASSUME NEW row \in Row
    PROVE  /\ \A on \in BOOLEAN : /\ SetLock(row, on).sync = row.sync
                                  /\ SetLock(row, on).callback = row.callback
                                  /\ SetLock(row, on).lock = on
                                  /\ SetLock(row, on).pause = row.pause
           /\ \A delay \in Nat : /\ SetPause(row, delay).sync = row.sync
                                 /\ SetPause(row, delay).callback = row.callback
                                 /\ SetPause(row, delay).lock = FALSE
                                 /\ SetPause(row, delay).pause = delay
BY DEF Row, SetLock, SetPause

\* Locking, pausing, unlocking, clearing pauses and the passing of time are such UPDATEs.
LEMMA UpdatesKeepJobs ==
    ASSUME JobsInv, NEW w \in Worker
    PROVE  /\ SameJobs(LockJobs(w))
           /\ SameJobs(PausedJobs(w))
           /\ SameJobs(UnlockedSync(w))
           /\ SameJobs(ClearedPauses)
<1>1. \A j \in DOMAIN ipfs : ipfs[j] \in Row
  BY DEF JobsInv, TableOK
<1>2. RetryDelay \in Nat
  BY JobsAssumption
<1>3. SameJobs(LockJobs(w))
  BY <1>1, RowUpdates, RowKeepsJob DEF SameJobs, LockJobs, Update
<1>4. SameJobs(PausedJobs(w))
  <2>1. \A row \in Row : /\ SetPause(row, RetryDelay) \in Row
                         /\ SetPause(row, RetryDelay).sync = row.sync
                         /\ SetPause(row, RetryDelay).callback = row.callback
    BY <1>2, RowUpdates, RowKeepsJob
  <2> QED
    BY <1>1, <2>1 DEF SameJobs, PausedJobs, Update
<1>5. SameJobs(UnlockedSync(w))
  BY <1>1, RowUpdates, RowKeepsJob DEF SameJobs, UnlockedSync, Update
<1>6. SameJobs(ClearedPauses)
  <2>1. \A row \in Row : /\ [row EXCEPT !.pause = None] \in Row
                         /\ [row EXCEPT !.pause = None].sync = row.sync
                         /\ [row EXCEPT !.pause = None].callback = row.callback
    BY DEF Row
  <2> QED
    BY <1>1, <2>1 DEF SameJobs, ClearedPauses, Update
<1> QED
  BY <1>3, <1>4, <1>5, <1>6

\* Such an UPDATE leaves the table in order.
LEMMA SameJobsTable ==
    ASSUME JobsInv, SameJobs(ipfs'), nextIndex' = nextIndex
    PROVE  TableOK'
BY DEF JobsInv, TableOK, SameJobs

\* The job a worker is handed.
LEMMA NextJobType ==
    ASSUME JobsInv, Ready # {}
    PROVE  /\ OldestReady \in Ready /\ \A k \in Ready : OldestReady <= k
           /\ OldestReady \in DOMAIN ipfs
           /\ NextJob(OldestReady) \in Work
<1>1. Ready \in SUBSET Nat
  BY DEF JobsInv, TableOK, Ready, JobIndex
<1>2. OldestReady \in Ready /\ \A k \in Ready : OldestReady <= k
  BY <1>1, MinOfNumbers DEF OldestReady
<1>3. OldestReady \in DOMAIN ipfs
  BY <1>2 DEF Ready
<1>4. ipfs[OldestReady] \in Row /\ OldestReady \in JobIndex
  BY <1>3 DEF JobsInv, TableOK
<1>5. ASSUME NEW j \in JobIndex, NEW row \in Row, row = ipfs[j]
      PROVE  NextJob(j) \in Work
  <2>1. LastTry(row) \in BOOLEAN
    BY DEF LastTry
  <2> QED
    BY <1>5, <2>1 DEF NextJob, Work, Row
<1> QED
  BY <1>2, <1>3, <1>4, <1>5

\* A worker that gives up its job, or moves on with it.
LEMMA DropKeeps ==
    ASSUME JobsInv, NEW w \in Worker, Drop(w), nextIndex' = nextIndex
    PROVE  WorkersOK'
<1>1. NoWork \in Work
  BY DEF NoWork, Work, Sync
<1>2. NoWork.index = 0 /\ NoWork.pause = 0
  BY DEF NoWork, NoJob
<1> QED
  BY <1>1, <1>2, JobsAssumption DEF JobsInv, WorkersOK, TableOK, Drop, Goto, WorkerPc, Holding

\* A worker that goes on with the job it has.
LEMMA GotoKeeps ==
    ASSUME JobsInv, NEW w \in Worker, NEW l \in WorkerPc, Goto(w, l), l # "pause",
           l \in Holding => pc[w] \in Holding, nextIndex' = nextIndex, job' = job
    PROVE  WorkersOK'
BY DEF JobsInv, WorkersOK, Goto, WorkerPc

\* Indices are numbers.
LEMMA JobIndices ==
    ASSUME JobsInv
    PROVE  /\ \A w \in Worker : job[w].index \in Nat
           /\ \A j \in DOMAIN ipfs : j \in Nat
           /\ nextIndex \in Nat /\ Len(Backlog) \in Nat /\ nextIndex > Len(Backlog)
<1>1. \A x \in Work : x.index \in JobIndex \cup {NoJob}
  BY DEF Work
<1>2. \A i \in JobIndex \cup {NoJob} : i \in Nat
  BY JobsAssumption DEF JobIndex, NoJob
<1>3. \A w \in Worker : job[w] \in Work
  BY DEF JobsInv, WorkersOK
<1> QED
  BY <1>1, <1>2, <1>3, JobsAssumption DEF JobsInv, TableOK

-----------------------------------------------------------------------------
(* Types. *)

\* A caller announces a job (addIPFSJob): what it will insert is a row.
LEMMA AddJobTypes ==
    ASSUME JobsInv, AddJob
    PROVE  JobsInv'
<1>1. PICK kind \in Kinds : adding' = adding \cup {Inserted(kind)}
  BY DEF AddJob
<1>2. kind \in Kind
  BY JobsAssumption
<1>3. Inserted(kind) \in Row
  <2> DEFINE left == {p.left : p \in {q \in currentlyPaused : q.sync = kind.sync}}
             pause == IF left = {} THEN None ELSE Max(left)
  <2>1. left \in SUBSET (0 .. RetryDelay)
    BY DEF JobsInv, CallersOK
  <2>2. left # {} => Max(left) \in left
    <3> HIDE DEF left
    <3> QED
      BY <2>1, MaxOfNumbers, JobsAssumption
  <2>3. pause \in Nat \cup {None}
    <3> HIDE DEF left
    <3>1. RetryDelay \in Nat
      BY JobsAssumption
    <3>2. \A x \in left : x \in Nat
      BY <2>1, <3>1
    <3>3. left # {} => Max(left) \in Nat
      BY <2>2, <3>2, Zenon
    <3> QED
      BY <3>3
  <2>4. Inserted(kind) = [sync |-> kind.sync, callback |-> kind.callback, lock |-> FALSE,
                          maxTime |-> kind.maxTime, pause |-> pause]
    BY DEF Inserted
  <2>5. kind.sync \in Sync /\ kind.callback \in {"", "named", "promise"} /\ kind.maxTime \in Nat \cup {None}
    BY <1>2 DEF Kind
  <2>6. ASSUME NEW p \in Nat \cup {None}
        PROVE  [sync |-> kind.sync, callback |-> kind.callback, lock |-> FALSE,
                maxTime |-> kind.maxTime, pause |-> p] \in Row
    BY <2>5 DEF Row
  <2> HIDE DEF pause
  <2> QED
    BY <2>3, <2>4, <2>6, Zenon
<1>4. IsFiniteSet(adding') /\ Cardinality(adding') <= Cardinality(adding) + 1
  BY <1>1, FS_AddElement, FS_CardinalityType DEF JobsInv, CallersOK
<1>5. Cardinality(adding') \in Nat /\ Cardinality(adding) \in Nat
  BY <1>4, FS_CardinalityType DEF JobsInv, CallersOK
<1>6. CallersOK'
  BY <1>1, <1>3, <1>4, <1>5, JobsAssumption DEF AddJob, JobsInv, CallersOK, TableOK
<1> QED
  BY <1>6 DEF AddJob, JobsInv, TableOK, AnswersOK, WorkersOK, BudgetOK, answers, workers, budget

\* It inserts it, or the database is busy.
LEMMA InsertJobTypes ==
    ASSUME JobsInv, InsertJob
    PROVE  JobsInv'
<1>1. PICK row \in adding :
         /\ adding' = adding \ {row}
         /\ \/ /\ ipfs' = [j \in DOMAIN ipfs \cup {nextIndex} |->
                                IF j = nextIndex THEN row ELSE ipfs[j]]
               /\ nextIndex' = nextIndex + 1
               /\ IF row.callback = "promise"
                    THEN /\ registering' = registering \cup {nextIndex}
                         /\ promise' = [promise EXCEPT ![nextIndex] = "pending"]
                    ELSE UNCHANGED <<registering, promise>>
               /\ UNCHANGED busy
            \/ Busy /\ UNCHANGED <<ipfs, nextIndex, registering, promise>>
  BY DEF InsertJob
<1>2. row \in Row
  BY DEF JobsInv, CallersOK
<1>3. /\ IsFiniteSet(adding') /\ Cardinality(adding') = Cardinality(adding) - 1
      /\ Cardinality(adding) \in Nat /\ Cardinality(adding') \in Nat
  BY <1>1, FS_RemoveElement, FS_CardinalityType DEF JobsInv, CallersOK
<1>4. nextIndex \in JobIndex /\ nextIndex \in Nat
  BY <1>3, JobsAssumption DEF JobsInv, CallersOK, TableOK, JobIndex
<1>5. nextIndex' \in {nextIndex, nextIndex + 1}
  BY <1>1
<1>6. CallersOK'
  BY <1>1, <1>3, <1>4, <1>5, JobsAssumption DEF InsertJob, JobsInv, CallersOK
<1>7. TableOK'
  <2>1. CASE UNCHANGED <<ipfs, nextIndex>>
    BY <2>1 DEF JobsInv, TableOK
  <2>2. CASE /\ ipfs' = [j \in DOMAIN ipfs \cup {nextIndex} |->
                                IF j = nextIndex THEN row ELSE ipfs[j]]
             /\ nextIndex' = nextIndex + 1
    BY <1>2, <1>4, <2>2, JobsAssumption DEF JobsInv, TableOK, JobIndex
  <2> QED
    BY <1>1, <2>1, <2>2
<1>8. AnswersOK'
  BY <1>1, <1>4 DEF InsertJob, JobsInv, AnswersOK
<1>9. WorkersOK'
  <2>1. \A w \in Worker : job[w].index \in Nat
    BY JobIndices
  <2> QED
    BY <1>4, <1>5, <2>1 DEF InsertJob, JobsInv, WorkersOK, workers
<1>10. BudgetOK'
  BY <1>1 DEF InsertJob, JobsInv, BudgetOK, Busy
<1> QED
  BY <1>6, <1>7, <1>8, <1>9, <1>10 DEF JobsInv

\* What a tick makes of the table, the rows to be inserted and the jobs of the workers.
LEMMA TickTypes ==
    ASSUME JobsInv, Tick
    PROVE  JobsInv' /\ SameJobs(ipfs')
<1>1. SameJobs(ipfs')
  <2>1. \A row \in Row :
           /\ [row EXCEPT !.pause = Later(@), !.maxTime = Later(@)] \in Row
           /\ [row EXCEPT !.pause = Later(@), !.maxTime = Later(@)].sync = row.sync
           /\ [row EXCEPT !.pause = Later(@), !.maxTime = Later(@)].callback = row.callback
    BY LaterRow DEF Row
  <2> QED
    BY <2>1 DEF Tick, SameJobs, JobsInv, TableOK
<1>2. TableOK'
  BY <1>1, SameJobsTable DEF Tick
<1>3. CallersOK'
  <2> DEFINE f == [row \in adding |-> [row EXCEPT !.pause = Later(@)]]
  <2>1. adding' = {f[row] : row \in adding}
    BY DEF Tick
  <2>2. f \in Surjection(adding, adding')
    BY <2>1 DEF Surjection
  <2>3. IsFiniteSet(adding') /\ Cardinality(adding') <= Cardinality(adding)
    <3> HIDE DEF f
    <3> QED
      BY <2>2, FS_Surjection DEF JobsInv, CallersOK
  <2>4. Cardinality(adding) \in Nat /\ Cardinality(adding') \in Nat
    BY <2>3, FS_CardinalityType DEF JobsInv, CallersOK
  <2>5. adding' \subseteq Row
    BY LaterRow DEF Tick, JobsInv, CallersOK
  <2>6. currentlyPaused' \subseteq [sync : Sync \ Unordered, left : 0..RetryDelay]
    <3> DEFINE Pause == [sync : Sync \ Unordered, left : 0..RetryDelay]
    <3>1. ASSUME NEW p \in Pause
          PROVE  [p EXCEPT !.left = Later(@)] \in Pause
      <4>1. p.left \in 0 .. RetryDelay
        OBVIOUS
      <4>2. Later(p.left) \in 0 .. RetryDelay
        BY <4>1, JobsAssumption DEF Later
      <4> QED
        BY <4>2
    <3>2. currentlyPaused \subseteq Pause
      BY DEF JobsInv, CallersOK
    <3> HIDE DEF Pause
    <3>3. currentlyPaused' \subseteq Pause
      BY <3>1, <3>2 DEF Tick
    <3> QED
      BY <3>3 DEF Pause
  <2>7. nextIndex \in Nat /\ MaxJobs \in Nat /\ nextIndex' = nextIndex
    BY JobIndices, JobsAssumption DEF Tick
  <2>8. nextIndex + Cardinality(adding) <= MaxJobs + 1
    BY DEF JobsInv, CallersOK
  <2>9. nextIndex' + Cardinality(adding') <= MaxJobs + 1
    BY <2>3, <2>4, <2>7, <2>8
  <2> QED
    BY <2>3, <2>5, <2>6, <2>9 DEF CallersOK
<1>4. WorkersOK'
  <2>1. ASSUME NEW w \in Worker
        PROVE  /\ job'[w] \in Work
               /\ job'[w].index = job[w].index /\ job'[w].sync = job[w].sync
               /\ job'[w].pause <= RetryDelay
    <3> DEFINE n == Later(job[w].pause)
    <3>1. job[w] \in Work /\ job[w].pause \in Nat /\ job[w].pause <= RetryDelay
      BY DEF JobsInv, WorkersOK, Work
    <3>2. n \in Nat /\ n <= RetryDelay
      BY <3>1, JobsAssumption DEF Later
    <3>3. job'[w] = [job[w] EXCEPT !.pause = n]
      BY DEF Tick
    <3> HIDE DEF n
    <3> QED
      BY <3>1, <3>2, <3>3 DEF Work
  <2>2. job' \in [Worker -> Work]
    BY <2>1 DEF Tick
  <2> QED
    BY <2>1, <2>2 DEF Tick, JobsInv, WorkersOK
<1> QED
  BY <1>1, <1>2, <1>3, <1>4 DEF Tick, JobsInv, AnswersOK, BudgetOK, answers, budget

\* A new run of the program finds the table and nothing else.
LEMMA RestartTypes ==
    ASSUME JobsInv, Restart
    PROVE  JobsInv'
<1>1. TableOK'
  BY RowUpdates DEF Restart, JobsInv, TableOK
<1>2. CallersOK'
  BY FS_EmptySet, JobsAssumption DEF Restart, JobsInv, CallersOK, TableOK
<1>3. AnswersOK' /\ BudgetOK'
  BY DEF Restart, JobsInv, AnswersOK, BudgetOK
<1>4. WorkersOK'
  <2>1. NoWork \in Work /\ NoWork.index = 0 /\ NoWork.pause = 0
    BY DEF NoWork, Work, Sync, NoJob
  <2> QED
    BY <2>1, JobsAssumption DEF Restart, JobsInv, TableOK, WorkersOK, WorkerPc, Holding
<1> QED
  BY <1>1, <1>2, <1>3, <1>4 DEF JobsInv

\* getNextIPFSJob(): the pauses, ...
LEMMA GetClearTypes ==
    ASSUME JobsInv, NEW w \in Worker, GetClear(w)
    PROVE  JobsInv' /\ SameJobs(ipfs')
<1>1. SameJobs(ipfs)
  BY DEF SameJobs, JobsInv, TableOK
<1>2. SameJobs(ipfs')
  BY <1>1, UpdatesKeepJobs DEF GetClear
<1>3. TableOK'
  BY <1>2, SameJobsTable DEF GetClear
<1>4. WorkersOK'
  BY GotoKeeps DEF GetClear, WorkerPc, Holding
<1>5. BudgetOK'
  BY DEF GetClear, Busy, JobsInv, BudgetOK
<1>6. CallersOK' /\ AnswersOK'
  BY DEF GetClear, JobsInv, CallersOK, AnswersOK, answers
<1> QED
  BY <1>2, <1>3, <1>4, <1>5, <1>6 DEF JobsInv

\* ... the oldest ready row, ...
LEMMA GetSelectTypes ==
    ASSUME JobsInv, NEW w \in Worker, GetSelect(w)
    PROVE  JobsInv'
<1>1. WorkersOK'
  <2>1. CASE Ready = {}
    BY <2>1, DropKeeps DEF GetSelect, queue
  <2>2. CASE Ready # {}
    <3> DEFINE x == NextJob(OldestReady)
    <3>1. x \in Work /\ OldestReady \in DOMAIN ipfs
      BY <2>2, NextJobType
    <3>2. x.index = OldestReady /\ x.pause = 0
      BY DEF NextJob
    <3>3. OldestReady < nextIndex /\ OldestReady # NoJob
      BY <3>1, JobsAssumption DEF JobsInv, TableOK, JobIndex, NoJob
    <3>4. /\ pc' = [pc EXCEPT ![w] = "lock"] /\ job' = [job EXCEPT ![w] = x]
          /\ nextIndex' = nextIndex
      BY <2>2 DEF GetSelect, Goto, queue
    <3> HIDE DEF x
    <3> QED
      BY <3>1, <3>2, <3>3, <3>4, JobsAssumption DEF JobsInv, WorkersOK, WorkerPc, Holding
  <2> QED
    BY <2>1, <2>2
<1> QED
  BY <1>1 DEF GetSelect, JobsInv, TableOK, CallersOK, AnswersOK, BudgetOK, queue, answers, budget

\* ... and its lock.
LEMMA GetLockTypes ==
    ASSUME JobsInv, NEW w \in Worker, GetLock(w)
    PROVE  JobsInv' /\ SameJobs(ipfs')
<1>1. SameJobs(ipfs)
  BY DEF SameJobs, JobsInv, TableOK
<1>2. SameJobs(ipfs')
  BY <1>1, UpdatesKeepJobs DEF GetLock
<1>3. TableOK'
  BY <1>2, SameJobsTable DEF GetLock
<1>4. WorkersOK'
  <2>1. CASE Goto(w, "work") /\ job' = job
    BY <2>1, GotoKeeps DEF GetLock, WorkerPc, Holding
  <2>2. CASE Drop(w)
    BY <2>2, DropKeeps DEF GetLock
  <2> QED
    BY <2>1, <2>2 DEF GetLock
<1>5. BudgetOK'
  BY DEF GetLock, Busy, JobsInv, BudgetOK
<1>6. CallersOK' /\ AnswersOK'
  BY DEF GetLock, JobsInv, CallersOK, AnswersOK, answers
<1> QED
  BY <1>2, <1>3, <1>4, <1>5, <1>6 DEF JobsInv

\* The request is answered, ...
LEMMA WorkDoneTypes ==
    ASSUME JobsInv, NEW w \in Worker, WorkDone(w)
    PROVE  JobsInv'
<1>1. WorkersOK'
  BY GotoKeeps DEF WorkDone, WorkerPc, Holding, queue
<1> QED
  BY <1>1 DEF WorkDone, JobsInv, TableOK, CallersOK, AnswersOK, BudgetOK, queue, answers, budget

\* ... times out, ...
LEMMA WorkTimeoutTypes ==
    ASSUME JobsInv, NEW w \in Worker, WorkTimeout(w)
    PROVE  JobsInv' /\ SameJobs(ipfs')
<1>1. SameJobs(ipfs)
  BY DEF SameJobs, JobsInv, TableOK
<1>2. SameJobs(ipfs')
  BY <1>1, UpdatesKeepJobs DEF WorkTimeout
<1>3. TableOK'
  BY <1>2, SameJobsTable DEF WorkTimeout
<1>4. WorkersOK'
  <2>1. CASE Drop(w)
    BY <2>1, DropKeeps DEF WorkTimeout
  <2>2. job[w] \in Work /\ pc[w] = "work" /\ nextIndex' = nextIndex
    BY DEF WorkTimeout, JobsInv, WorkersOK
  <2>3. CASE job' = [job EXCEPT ![w].failed = TRUE] /\ Goto(w, "remove")
    <3>1. [job[w] EXCEPT !.failed = TRUE] \in Work
      BY <2>2 DEF Work
    <3> QED
      BY <2>2, <2>3, <3>1 DEF JobsInv, WorkersOK, Goto, WorkerPc, Holding
  <2>4. CASE ~PausedAlone(w) /\ Goto(w, "pause") /\ job' = [job EXCEPT ![w].pause = RetryDelay]
    <3>1. RetryDelay \in Nat
      BY JobsAssumption
    <3>2. /\ [job[w] EXCEPT !.pause = RetryDelay] \in Work
          /\ [job[w] EXCEPT !.pause = RetryDelay].pause = RetryDelay
          /\ [job[w] EXCEPT !.pause = RetryDelay].sync = job[w].sync
          /\ [job[w] EXCEPT !.pause = RetryDelay].index = job[w].index
      BY <2>2, <3>1 DEF Work
    <3> QED
      BY <2>2, <2>4, <3>1, <3>2 DEF JobsInv, WorkersOK, Goto, WorkerPc, Holding, PausedAlone
  <2> QED
    BY <2>1, <2>3, <2>4 DEF WorkTimeout
<1>5. BudgetOK'
  BY DEF WorkTimeout, Busy, JobsInv, BudgetOK
<1>6. CallersOK' /\ AnswersOK'
  BY DEF WorkTimeout, JobsInv, CallersOK, AnswersOK, answers
<1> QED
  BY <1>2, <1>3, <1>4, <1>5, <1>6 DEF JobsInv

\* ... and the pause is noted.
LEMMA NotePauseTypes ==
    ASSUME JobsInv, NEW w \in Worker, NotePause(w)
    PROVE  JobsInv'
<1>1. WorkersOK'
  BY DropKeeps DEF NotePause
<1>2. CallersOK'
  <2>1. /\ job[w].sync \in Sync \ Unordered /\ job[w].pause \in Nat
        /\ job[w].pause <= RetryDelay /\ RetryDelay \in Nat
    BY JobsAssumption DEF NotePause, JobsInv, WorkersOK, Work
  <2>2. [sync |-> job[w].sync, left |-> job[w].pause]
            \in [sync : Sync \ Unordered, left : 0..RetryDelay]
    BY <2>1
  <2> QED
    BY <2>2 DEF NotePause, JobsInv, CallersOK
<1> QED
  BY <1>1, <1>2 DEF NotePause, JobsInv, TableOK, AnswersOK, BudgetOK, answers, budget

\* Any other failure.
LEMMA WorkThrowsTypes ==
    ASSUME JobsInv, NEW w \in Worker, WorkThrows(w)
    PROVE  JobsInv'
<1>1. WorkersOK'
  BY DropKeeps DEF WorkThrows, queue
<1> QED
  BY <1>1 DEF WorkThrows, JobsInv, TableOK, CallersOK, AnswersOK, BudgetOK, queue, answers

\* removeIPFSJob() takes one row out, ...
LEMMA RemoveRowTypes ==
    ASSUME JobsInv, NEW w \in Worker, RemoveRow(w)
    PROVE  JobsInv'
<1>1. TableOK'
  BY DEF RemoveRow, RemoveFails, RemovedJob, JobsInv, TableOK
<1>2. WorkersOK'
  <2>1. CASE Goto(w, "unlock") /\ job' = job
    BY <2>1, GotoKeeps DEF RemoveRow, WorkerPc, Holding
  <2>2. CASE Drop(w)
    BY <2>2, DropKeeps DEF RemoveRow
  <2> QED
    BY <2>1, <2>2 DEF RemoveRow, RemoveFails
<1>3. BudgetOK'
  BY DEF RemoveRow, RemoveFails, Busy, JobsInv, BudgetOK
<1>4. CallersOK' /\ AnswersOK'
  BY DEF RemoveRow, JobsInv, CallersOK, AnswersOK, answers
<1> QED
  BY <1>1, <1>2, <1>3, <1>4 DEF JobsInv

\* ... and unlocks the sync value.
LEMMA RemoveUnlockTypes ==
    ASSUME JobsInv, NEW w \in Worker, RemoveUnlock(w)
    PROVE  JobsInv' /\ SameJobs(ipfs')
<1>1. SameJobs(ipfs)
  BY DEF SameJobs, JobsInv, TableOK
<1>2. SameJobs(ipfs')
  BY <1>1, UpdatesKeepJobs DEF RemoveUnlock, RemoveFails
<1>3. TableOK'
  BY <1>2, SameJobsTable DEF RemoveUnlock
<1>4. WorkersOK'
  <2>1. CASE Goto(w, "call") /\ job' = job
    BY <2>1, GotoKeeps DEF RemoveUnlock, WorkerPc, Holding
  <2>2. CASE Drop(w)
    BY <2>2, DropKeeps DEF RemoveUnlock
  <2> QED
    BY <2>1, <2>2 DEF RemoveUnlock, RemoveFails
<1>5. BudgetOK'
  BY DEF RemoveUnlock, RemoveFails, Busy, JobsInv, BudgetOK
<1>6. CallersOK' /\ AnswersOK'
  BY DEF RemoveUnlock, JobsInv, CallersOK, AnswersOK, answers
<1> QED
  BY <1>2, <1>3, <1>4, <1>5, <1>6 DEF JobsInv

\* The callback.
LEMMA CallBackTypes ==
    ASSUME JobsInv, NEW w \in Worker, CallBack(w)
    PROVE  JobsInv'
<1>1. WorkersOK'
  BY DropKeeps DEF CallBack, queue
<1>2. job[w].index \in JobIndex
  BY DEF CallBack, JobsInv, WorkersOK, Holding, Work
<1>3. AnswersOK'
  BY <1>2 DEF CallBack, JobsInv, AnswersOK
<1> QED
  BY <1>1, <1>3 DEF CallBack, JobsInv, TableOK, CallersOK, BudgetOK, queue, budget

\* Every step keeps the types.
LEMMA JobsStep ==
    ASSUME JobsInv, [Next]_vars
    PROVE  JobsInv'
<1>1. CASE UNCHANGED vars
  BY <1>1 DEF vars, queue, answers, workers, budget, JobsInv, TableOK, CallersOK, AnswersOK,
              WorkersOK, BudgetOK
<1>2. CASE RegisterCallback
  BY <1>2 DEF RegisterCallback, JobsInv, TableOK, CallersOK, AnswersOK, WorkersOK, BudgetOK,
              queue, workers, budget
<1>3. ASSUME NEW w \in Worker, MainFunction(w)
      PROVE  JobsInv'
  BY <1>3, GetClearTypes, GetSelectTypes, GetLockTypes, WorkDoneTypes, WorkTimeoutTypes,
     NotePauseTypes, WorkThrowsTypes, RemoveRowTypes, RemoveUnlockTypes, CallBackTypes, Zenon
     DEF MainFunction
<1> QED
  BY <1>1, <1>2, <1>3, AddJobTypes, InsertJobTypes, TickTypes, RestartTypes DEF Next

\* The program starts with the rows an earlier run left.
LEMMA JobsInit ==
    ASSUME Init
    PROVE  JobsInv
<1> DEFINE Left(j) == [sync |-> Backlog[j].sync, callback |-> Backlog[j].callback,
                       lock |-> FALSE, pause |-> None, maxTime |-> Backlog[j].maxTime]
<1>1. /\ Backlog \in Seq(Kind) /\ Len(Backlog) \in Nat /\ MaxJobs \in Nat
      /\ Len(Backlog) <= MaxJobs
  BY JobsAssumption
<1>2. ASSUME NEW j \in 1 .. Len(Backlog)
      PROVE  Left(j) \in Row
  <2>1. Backlog[j] \in Kind
    BY <1>1
  <2> QED
    BY <2>1 DEF Kind, Row
<1>3. ipfs = [j \in 1 .. Len(Backlog) |-> Left(j)]
  BY DEF Init
<1> HIDE DEF Left
<1>4. TableOK
  <2>1. DOMAIN ipfs = 1 .. Len(Backlog) /\ \A j \in 1 .. Len(Backlog) : ipfs[j] = Left(j)
    BY <1>3
  <2>2. nextIndex = Len(Backlog) + 1
    BY DEF Init
  <2> QED
    BY <1>1, <1>2, <2>1, <2>2 DEF TableOK, JobIndex
<1>5. CallersOK
  BY <1>1, FS_EmptySet DEF Init, CallersOK
<1>6. NoWork \in Work /\ NoWork.index = 0 /\ NoWork.pause = 0
  BY DEF NoWork, Work, Sync, NoJob
<1>7. WorkersOK
  BY <1>1, <1>6, JobsAssumption DEF Init, WorkersOK, WorkerPc, Holding
<1> QED
  BY <1>4, <1>5, <1>7 DEF Init, JobsInv, AnswersOK, BudgetOK

\* The invariant holds throughout.
LEMMA JobsAlways == Spec => []JobsInv
<1>1. Init => JobsInv
  BY JobsInit
<1>2. JobsInv /\ [Next]_vars => JobsInv'
  BY JobsStep
<1> QED
  BY <1>1, <1>2, PTL DEF Spec

\* The histories hold jobs.
HistoryOK == late \subseteq JobIndex /\ freed \subseteq JobIndex

LEMMA HistoryStep ==
    ASSUME JobsInv, HistoryOK, Next
    PROVE  HistoryOK'
<1>1. ASSUME NEW w \in Worker, NEW rows
      PROVE  FreedWith(w, rows) \subseteq JobIndex
  <2>1. \A x \in Work : x.index \in JobIndex \cup {NoJob}
    BY DEF Work
  <2>2. \A v \in Worker : Working(v) => job[v].index \in JobIndex
    BY <2>1 DEF Working, JobsInv, WorkersOK, Holding
  <2> QED
    BY <2>2 DEF FreedWith
<1>2. CASE InsertJob
  <2>1. freed' = freed
    BY <1>2 DEF InsertJob
  <2>2. CASE late' = late
    BY <2>1, <2>2 DEF HistoryOK
  <2>3. CASE late' # late
    <3>1. PICK row \in adding : ipfs' = [j \in DOMAIN ipfs \cup {nextIndex} |->
                                             IF j = nextIndex THEN row ELSE ipfs[j]]
      BY <1>2, <2>3 DEF InsertJob
    <3>2. nextIndex \in DOMAIN ipfs'
      BY <3>1
    <3>3. nextIndex \in JobIndex
      BY <1>2, <3>2, InsertJobTypes DEF JobsInv, TableOK
    <3>4. late' \subseteq late \cup {nextIndex}
      BY <1>2 DEF InsertJob
    <3> QED
      BY <2>1, <3>3, <3>4 DEF HistoryOK
  <2> QED
    BY <2>2, <2>3
<1>3. CASE Restart
  BY <1>3 DEF Restart, HistoryOK
<1>4. CASE AddJob \/ RegisterCallback \/ Tick
  BY <1>4 DEF AddJob, RegisterCallback, Tick, history, HistoryOK
<1>5. ASSUME NEW w \in Worker, WorkTimeout(w) \/ RemoveUnlock(w)
      PROVE  HistoryOK'
  BY <1>1, <1>5 DEF WorkTimeout, RemoveUnlock, HistoryOK
<1>6. ASSUME NEW w \in Worker, ~WorkTimeout(w), ~RemoveUnlock(w), MainFunction(w)
      PROVE  HistoryOK'
  BY <1>6 DEF MainFunction, GetClear, GetSelect, GetLock, WorkDone, NotePause, WorkThrows,
              RemoveRow, CallBack, history, HistoryOK
<1> QED
  BY <1>2, <1>3, <1>4, <1>5, <1>6 DEF Next

LEMMA HistoryAlways == Spec => []HistoryOK
<1>1. Init => HistoryOK
  BY DEF Init, HistoryOK
<1>2. JobsInv /\ HistoryOK /\ [Next]_vars => HistoryOK'
  BY HistoryStep DEF vars, history, HistoryOK
<1> QED
  BY <1>1, <1>2, JobsAlways, PTL DEF Spec

\* The queue keeps its types: no index passes the bound however announcing and inserting
\* interleave, and RAM only ever notes pauses of ordered sync values, none longer than
\* ipfstimeoutretry (pauseIPFSSync).
THEOREM JobsTypeCorrectness == Spec => []TypeOK
<1>1. JobsInv /\ HistoryOK => TypeOK
  BY DEF JobsInv, TableOK, CallersOK, AnswersOK, WorkersOK, BudgetOK, HistoryOK, TypeOK
<1> QED
  BY <1>1, JobsAlways, HistoryAlways, PTL

-----------------------------------------------------------------------------
(* Callbacks. *)

\* Only a promise has an empty callback or one registered for it alone.
PromisesKnown ==
    /\ \A j \in DOMAIN ipfs : ipfs[j].callback = "promise" => promise[j] # "none"
    /\ \A w \in Worker : job[w].callback = "null" =>
         job[w].index \in JobIndex /\ promise[job[w].index] # "none"

\* A job is out of the table only while removeIPFSJob() goes on, and until its callback ran.
Accounted ==
    \A j \in JobIndex : j < nextIndex =>
        \/ j \in DOMAIN ipfs \cup called
        \/ promise[j] # "none"
        \/ \E w \in Worker : pc[w] \in {"unlock", "call"} /\ job[w].index = j

CallbackInv == PromisesKnown /\ (restarts = 0 /\ busy = 0 => Accounted)

\* A future that was handed out is never taken back while the program runs.
PromisesKept == \A j \in JobIndex : promise[j] # "none" => promise'[j] # "none"

\* Only a restart forgets a future.
LEMMA FuturesStay ==
    ASSUME JobsInv, Next, ~Restart
    PROVE  PromisesKept
<1>1. CASE InsertJob
  BY <1>1 DEF InsertJob, PromisesKept, JobsInv, AnswersOK
<1>2. ASSUME NEW w \in Worker, CallBack(w)
      PROVE  PromisesKept
  BY <1>2 DEF CallBack, PromisesKept, JobsInv, AnswersOK
<1>3. CASE promise' = promise
  BY <1>3 DEF PromisesKept
<1> QED
  BY <1>1, <1>2, <1>3 DEF Next, MainFunction, AddJob, RegisterCallback, Tick, GetClear, GetSelect,
     GetLock, WorkDone, WorkTimeout, NotePause, WorkThrows, RemoveRow, RemoveUnlock, answers

\* Whoever keeps its job, or drops it, keeps the second part.
LEMMA NobodyNull ==
    ASSUME JobsInv, PromisesKnown, PromisesKept,
           \A j \in DOMAIN ipfs' : /\ j \in DOMAIN ipfs
                                   /\ ipfs'[j].callback = ipfs[j].callback,
           \A w \in Worker : \/ job'[w].index = job[w].index /\ job'[w].callback = job[w].callback
                             \/ job'[w].callback # "null"
    PROVE  PromisesKnown'
<1>1. ASSUME NEW j \in DOMAIN ipfs', ipfs'[j].callback = "promise"
      PROVE  promise'[j] # "none"
  BY <1>1 DEF PromisesKnown, PromisesKept, JobsInv, TableOK
<1>2. ASSUME NEW w \in Worker, job'[w].callback = "null"
      PROVE  job'[w].index \in JobIndex /\ promise'[job'[w].index] # "none"
  <2>1. job'[w].index = job[w].index /\ job[w].callback = "null"
    BY <1>2
  <2>2. job[w].index \in JobIndex /\ promise[job[w].index] # "none"
    BY <2>1 DEF PromisesKnown
  <2> QED
    BY <2>1, <2>2 DEF PromisesKept
<1> QED
  BY <1>1, <1>2 DEF PromisesKnown

\* The empty function is what getNextIPFSJob() finds for a promise and for nothing else.
LEMMA PromisesStep ==
    ASSUME JobsInv, PromisesKnown, Next
    PROVE  PromisesKnown'
<1> DEFINE Rows == \A j \in DOMAIN ipfs' : j \in DOMAIN ipfs /\ ipfs'[j].callback = ipfs[j].callback
           Jobs == \A w \in Worker :
                      \/ job'[w].index = job[w].index /\ job'[w].callback = job[w].callback
                      \/ job'[w].callback # "null"
<1>1. CASE Restart
  <2>1. \A row \in Row : KeptRow(row).callback = row.callback
    BY DEF Row, KeptRow
  <2>2. \A j \in DOMAIN ipfs' : ipfs'[j].callback # "promise"
    BY <1>1, <2>1 DEF Restart, JobsInv, TableOK
  <2>3. \A w \in Worker : job'[w].callback = ""
    BY <1>1 DEF Restart, NoWork
  <2> QED
    BY <2>2, <2>3 DEF PromisesKnown
<1>2. ASSUME ~Restart, Rows, Jobs
      PROVE  PromisesKnown'
  BY <1>2, FuturesStay, NobodyNull
<1>3. SameJobs(ipfs') => Rows
  BY DEF SameJobs
<1>4. ipfs' = ipfs => Rows
  OBVIOUS
<1>5. job' = job => Jobs
  OBVIOUS
<1>6. ASSUME NEW w \in Worker, Drop(w)
      PROVE  Jobs
  BY <1>6 DEF Drop, NoWork, JobsInv, WorkersOK
<1>7. CASE AddJob \/ RegisterCallback
  BY <1>7, <1>1, <1>2, <1>4, <1>5 DEF AddJob, RegisterCallback, workers, queue
<1>8. CASE Tick
  <2>1. Rows
    BY <1>3, <1>8, TickTypes
  <2>2. Jobs
    BY <1>8 DEF Tick, JobsInv, WorkersOK, Work
  <2> QED
    BY <1>1, <1>2, <2>1, <2>2
<1>9. CASE InsertJob /\ ~Restart
  <2>1. job' = job
    BY <1>9 DEF InsertJob, workers
  <2>2. PromisesKept
    BY <1>9, FuturesStay
  <2>3. ASSUME NEW j \in DOMAIN ipfs', ipfs'[j].callback = "promise"
        PROVE  promise'[j] # "none"
    <3>1. CASE j \in DOMAIN ipfs /\ ipfs'[j] = ipfs[j]
      BY <2>2, <2>3, <3>1 DEF PromisesKept, PromisesKnown, JobsInv, TableOK
    <3>2. CASE j = nextIndex /\ promise' = [promise EXCEPT ![nextIndex] = "pending"]
      <4>1. j \in JobIndex
        BY <1>9, InsertJobTypes DEF JobsInv, TableOK
      <4> QED
        BY <3>2, <4>1 DEF JobsInv, AnswersOK
    <3> QED
      BY <1>9, <2>3, <3>1, <3>2 DEF InsertJob
  <2>4. \A w \in Worker : job[w].callback = "null" =>
           job[w].index \in JobIndex /\ promise'[job[w].index] # "none"
    BY <2>2 DEF PromisesKnown, PromisesKept
  <2> QED
    BY <2>1, <2>3, <2>4 DEF PromisesKnown
<1>10. ASSUME NEW w \in Worker, GetSelect(w)
       PROVE  PromisesKnown'
  <2>1. CASE Ready = {}
    BY <1>1, <1>2, <1>4, <1>6, <1>10, <2>1 DEF GetSelect, queue
  <2>2. CASE Ready # {}
    <3>1. /\ ipfs' = ipfs /\ promise' = promise
          /\ job' = [job EXCEPT ![w] = NextJob(OldestReady)]
      BY <1>10, <2>2 DEF GetSelect, queue, answers
    <3>2. OldestReady \in DOMAIN ipfs /\ OldestReady \in JobIndex
      BY <2>2, NextJobType DEF JobsInv, TableOK
    <3>3. /\ NextJob(OldestReady).index = OldestReady
          /\ NextJob(OldestReady).callback = "null" => promise[OldestReady] # "none"
      BY <3>2 DEF NextJob, PromisesKnown, JobsInv, TableOK, Row
    <3> QED
      BY <3>1, <3>2, <3>3 DEF PromisesKnown, JobsInv, WorkersOK
  <2> QED
    BY <2>1, <2>2
<1>11. ASSUME NEW w \in Worker, GetClear(w) \/ GetLock(w) \/ RemoveUnlock(w)
       PROVE  PromisesKnown'
  <2>1. Rows
    BY <1>3, <1>11, GetClearTypes, GetLockTypes, RemoveUnlockTypes
  <2>2. Jobs
    BY <1>5, <1>6, <1>11 DEF GetClear, GetLock, RemoveUnlock, RemoveFails
  <2> QED
    BY <1>1, <1>2, <2>1, <2>2
<1>12. ASSUME NEW w \in Worker, WorkTimeout(w)
       PROVE  PromisesKnown'
  <2>1. Rows
    BY <1>3, <1>12, WorkTimeoutTypes
  <2>2. Jobs
    <3>1. CASE \/ job' = [job EXCEPT ![w].failed = TRUE]
               \/ job' = [job EXCEPT ![w].pause = RetryDelay]
      <4>1. job \in [Worker -> Work]
        BY DEF JobsInv, WorkersOK
      <4>2. \A x \in Work : /\ [x EXCEPT !.failed = TRUE].index = x.index
                            /\ [x EXCEPT !.failed = TRUE].callback = x.callback
                            /\ [x EXCEPT !.pause = RetryDelay].index = x.index
                            /\ [x EXCEPT !.pause = RetryDelay].callback = x.callback
        BY DEF Work
      <4>3. ASSUME NEW v \in Worker
            PROVE  job'[v].index = job[v].index /\ job'[v].callback = job[v].callback
        BY <3>1, <4>1, <4>2
      <4> QED
        BY <4>3
    <3> QED
      BY <1>6, <1>12, <3>1 DEF WorkTimeout
  <2> QED
    BY <1>1, <1>2, <2>1, <2>2
<1>13. ASSUME NEW w \in Worker, WorkDone(w) \/ NotePause(w) \/ WorkThrows(w) \/ CallBack(w)
       PROVE  PromisesKnown'
  BY <1>1, <1>2, <1>4, <1>5, <1>6, <1>13 DEF WorkDone, NotePause, WorkThrows, CallBack, queue
<1>14. ASSUME NEW w \in Worker, RemoveRow(w)
       PROVE  PromisesKnown'
  <2>1. Rows
    BY <1>14 DEF RemoveRow, RemoveFails, RemovedJob
  <2>2. Jobs
    BY <1>5, <1>6, <1>14 DEF RemoveRow, RemoveFails
  <2> QED
    BY <1>1, <1>2, <2>1, <2>2
<1> HIDE DEF Rows, Jobs
<1> QED
  BY <1>1, <1>7, <1>8, <1>9, <1>10, <1>11, <1>12, <1>13, <1>14 DEF Next, MainFunction

\* What does not take a job out of the table or from the worker that removed it.
LEMMA StillAccounted ==
    ASSUME JobsInv, Accounted, PromisesKept, nextIndex' = nextIndex,
           called \subseteq called', DOMAIN ipfs \subseteq DOMAIN ipfs',
           \A w \in Worker : pc[w] \in {"unlock", "call"} =>
                pc'[w] \in {"unlock", "call"} /\ job'[w].index = job[w].index
    PROVE  Accounted'
BY DEF Accounted, PromisesKept

\* A job that is removed is the worker's until its callback ran.
LEMMA AccountedStep ==
    ASSUME JobsInv, PromisesKnown, Next, restarts = 0 /\ busy = 0 => Accounted,
           restarts' = 0 /\ busy' = 0
    PROVE  Accounted'
<1> DEFINE Held == \A w \in Worker : pc[w] \in {"unlock", "call"} =>
                      pc'[w] \in {"unlock", "call"} /\ job'[w].index = job[w].index
<1>1. busy \in Nat /\ restarts \in Nat
  BY DEF JobsInv, BudgetOK
<1>2. ~Busy /\ ~Restart
  BY <1>1 DEF Busy, Restart
<1>3. Accounted
  <2>1. busy' = busy \/ Busy
    BY DEF Next, MainFunction, AddJob, InsertJob, RegisterCallback, Tick, Restart, GetClear,
           GetSelect, GetLock, WorkDone, WorkTimeout, NotePause, WorkThrows, RemoveRow,
           RemoveUnlock, RemoveFails, CallBack, budget
  <2>2. restarts' = restarts
    BY <1>2 DEF Next, MainFunction, AddJob, InsertJob, RegisterCallback, Tick, GetClear,
           GetSelect, GetLock, WorkDone, WorkTimeout, NotePause, WorkThrows, RemoveRow,
           RemoveUnlock, CallBack, budget
  <2> QED
    BY <1>2, <2>1, <2>2
<1>4. PromisesKept
  BY <1>2, FuturesStay
<1>5. SameJobs(ipfs') => DOMAIN ipfs \subseteq DOMAIN ipfs'
  BY DEF SameJobs
<1>6. ASSUME NEW w \in Worker, pc[w] \notin {"unlock", "call"},
             \E l \in WorkerPc : Goto(w, l),
             \A v \in Worker : v # w => job'[v] = job[v]
      PROVE  Held
  BY <1>6 DEF JobsInv, WorkersOK, Goto
<1>7. ASSUME NEW w \in Worker, pc[w] \notin {"unlock", "call"}, Drop(w)
      PROVE  Held
  BY <1>7 DEF JobsInv, WorkersOK, Goto, Drop
<1>8. CASE AddJob \/ RegisterCallback
  BY <1>3, <1>4, <1>8, StillAccounted DEF AddJob, RegisterCallback, queue, answers, workers
<1>9. CASE Tick
  <2>1. \A w \in Worker : job'[w].index = job[w].index
    BY <1>9 DEF Tick, JobsInv, WorkersOK, Work
  <2>2. SameJobs(ipfs')
    BY <1>9, TickTypes
  <2> QED
    BY <1>3, <1>4, <1>5, <1>9, <2>1, <2>2, StillAccounted DEF Tick, answers
<1>10. CASE InsertJob
  <2>1. /\ DOMAIN ipfs' = DOMAIN ipfs \cup {nextIndex} /\ nextIndex' = nextIndex + 1
        /\ called' = called /\ pc' = pc /\ job' = job
    BY <1>2, <1>10 DEF InsertJob, workers
  <2>2. \A j \in JobIndex : j < nextIndex' => j < nextIndex \/ j = nextIndex
    BY <2>1, JobIndices, JobsAssumption DEF JobIndex
  <2>3. ASSUME NEW j \in JobIndex, j < nextIndex'
        PROVE  \/ j \in DOMAIN ipfs' \cup called'
               \/ promise'[j] # "none"
               \/ \E w \in Worker : pc'[w] \in {"unlock", "call"} /\ job'[w].index = j
    BY <1>3, <1>4, <2>1, <2>2, <2>3 DEF Accounted, PromisesKept
  <2> QED
    BY <2>3 DEF Accounted
<1>11. ASSUME NEW w \in Worker, GetClear(w) \/ GetLock(w)
       PROVE  Accounted'
  <2>1. SameJobs(ipfs')
    BY <1>11, GetClearTypes, GetLockTypes
  <2>2. Held
    BY <1>2, <1>6, <1>11 DEF GetClear, GetLock, WorkerPc
  <2> QED
    BY <1>3, <1>4, <1>5, <1>11, <2>1, <2>2, StillAccounted DEF GetClear, GetLock, answers
<1>12. ASSUME NEW w \in Worker, GetSelect(w)
       PROVE  Accounted'
  <2>1. Held
    <3>1. CASE Ready = {}
      BY <1>7, <1>12, <3>1 DEF GetSelect
    <3>2. CASE Ready # {}
      BY <1>6, <1>12, <3>2 DEF GetSelect, WorkerPc, JobsInv, WorkersOK
    <3> QED
      BY <3>1, <3>2
  <2> QED
    BY <1>3, <1>4, <1>12, <2>1, StillAccounted DEF GetSelect, queue, answers
<1>13. ASSUME NEW w \in Worker, WorkDone(w) \/ NotePause(w) \/ WorkThrows(w)
       PROVE  Accounted'
  <2>1. Held
    BY <1>6, <1>7, <1>13 DEF WorkDone, NotePause, WorkThrows, WorkerPc
  <2> QED
    BY <1>3, <1>4, <1>13, <2>1, StillAccounted DEF WorkDone, NotePause, WorkThrows, queue, answers
<1>14. ASSUME NEW w \in Worker, WorkTimeout(w)
       PROVE  Accounted'
  <2>1. SameJobs(ipfs')
    BY <1>14, WorkTimeoutTypes
  <2>2. Held
    <3>1. CASE Drop(w)
      BY <1>7, <1>14, <3>1 DEF WorkTimeout
    <3>2. CASE Goto(w, "remove") /\ job' = [job EXCEPT ![w].failed = TRUE]
      BY <1>6, <1>14, <3>2 DEF WorkTimeout, WorkerPc, JobsInv, WorkersOK
    <3>3. CASE Goto(w, "pause") /\ job' = [job EXCEPT ![w].pause = RetryDelay]
      BY <1>6, <1>14, <3>3 DEF WorkTimeout, WorkerPc, JobsInv, WorkersOK
    <3> QED
      BY <1>14, <3>1, <3>2, <3>3 DEF WorkTimeout
  <2> QED
    BY <1>3, <1>4, <1>5, <1>14, <2>1, <2>2, StillAccounted DEF WorkTimeout, answers
<1>15. ASSUME NEW w \in Worker, RemoveRow(w)
       PROVE  Accounted'
  <2>1. /\ pc[w] = "remove" /\ pc' = [pc EXCEPT ![w] = "unlock"] /\ job' = job
        /\ DOMAIN ipfs' = DOMAIN ipfs \ {job[w].index}
        /\ called' = called /\ promise' = promise /\ nextIndex' = nextIndex
    BY <1>2, <1>15 DEF RemoveRow, RemoveFails, RemovedJob, Goto, answers
  <2>2. \A v \in Worker : pc[v] \in {"unlock", "call"} => pc'[v] \in {"unlock", "call"}
    BY <2>1 DEF JobsInv, WorkersOK
  <2>3. pc'[w] = "unlock"
    BY <2>1 DEF JobsInv, WorkersOK
  <2>4. ASSUME NEW j \in JobIndex, j < nextIndex'
        PROVE  \/ j \in DOMAIN ipfs' \cup called'
               \/ promise'[j] # "none"
               \/ \E v \in Worker : pc'[v] \in {"unlock", "call"} /\ job'[v].index = j
    BY <1>3, <2>1, <2>2, <2>3, <2>4 DEF Accounted
  <2> QED
    BY <2>4 DEF Accounted
<1>16. ASSUME NEW w \in Worker, RemoveUnlock(w)
       PROVE  Accounted'
  <2>1. SameJobs(ipfs')
    BY <1>16, RemoveUnlockTypes
  <2>2. job' = job /\ pc' = [pc EXCEPT ![w] = "call"]
    BY <1>2, <1>16 DEF RemoveUnlock, RemoveFails, Goto
  <2>3. Held
    BY <2>2 DEF JobsInv, WorkersOK
  <2> QED
    BY <1>3, <1>4, <1>5, <1>16, <2>1, <2>3, StillAccounted DEF RemoveUnlock, answers
<1>17. ASSUME NEW w \in Worker, CallBack(w)
       PROVE  Accounted'
  <2>1. /\ ipfs' = ipfs /\ nextIndex' = nextIndex
        /\ called' = IF job[w].callback = "null" THEN called ELSE called \cup {job[w].index}
        /\ pc' = [pc EXCEPT ![w] = "idle"] /\ job' = [job EXCEPT ![w] = NoWork]
    BY <1>17 DEF CallBack, Drop, Goto, queue
  <2>2. job[w].index \in called' \/ promise'[job[w].index] # "none"
    BY <1>4, <2>1 DEF PromisesKnown, PromisesKept
  <2>3. \A v \in Worker : v # w => pc'[v] = pc[v] /\ job'[v] = job[v]
    BY <2>1 DEF JobsInv, WorkersOK
  <2>4. called \subseteq called'
    BY <2>1
  <2>5. ASSUME NEW j \in JobIndex, j < nextIndex'
        PROVE  \/ j \in DOMAIN ipfs' \cup called'
               \/ promise'[j] # "none"
               \/ \E v \in Worker : pc'[v] \in {"unlock", "call"} /\ job'[v].index = j
    BY <1>3, <1>4, <2>1, <2>2, <2>3, <2>4, <2>5 DEF Accounted, PromisesKept
  <2> QED
    BY <2>5 DEF Accounted
<1> HIDE DEF Held
<1> QED
  BY <1>2, <1>8, <1>9, <1>10, <1>11, <1>12, <1>13, <1>14, <1>15, <1>16, <1>17
     DEF Next, MainFunction

\* A named callback is not lost: while the program runs and the database answers, a job leaves
\* the table only to have its callback run, whatever the other workers, the timeouts and the
\* failures of downloads do meanwhile (mainFunction).
THEOREM CallbacksRun == Spec => []CallbackRuns
<1>1. Init => CallbackInv
  <2>1. ASSUME Init
        PROVE  CallbackInv
    <3>1. \A j \in DOMAIN ipfs : ipfs[j].callback # "promise"
      BY <2>1, JobsAssumption DEF Init
    <3>2. \A w \in Worker : job[w].callback = ""
      BY <2>1 DEF Init, NoWork
    <3>3. Accounted
      BY <2>1, JobsAssumption DEF Init, Accounted, JobIndex
    <3> QED
      BY <3>1, <3>2, <3>3 DEF CallbackInv, PromisesKnown
  <2> QED
    BY <2>1
<1>2. JobsInv /\ CallbackInv /\ [Next]_vars => CallbackInv'
  <2>1. ASSUME JobsInv, CallbackInv, Next
        PROVE  CallbackInv'
    BY <2>1, PromisesStep, AccountedStep DEF CallbackInv
  <2>2. CallbackInv /\ UNCHANGED vars => CallbackInv'
    BY DEF vars, queue, answers, workers, budget, CallbackInv, PromisesKnown, Accounted
  <2> QED
    BY <2>1, <2>2
<1>3. JobsInv /\ CallbackInv => CallbackRuns
  <2>1. ASSUME JobsInv
        PROVE  \A j \in 1 .. (nextIndex - 1) : j \in JobIndex /\ j < nextIndex
    BY <2>1, JobsAssumption DEF JobsInv, TableOK, JobIndex
  <2> QED
    BY <2>1 DEF CallbackInv, Accounted, CallbackRuns
<1> QED
  BY <1>1, <1>2, <1>3, JobsAlways, PTL DEF Spec

-----------------------------------------------------------------------------
(* Locks. *)

\* From getNextIPFSJob() until its row is gone a worker has hold of a job.
At(w) == pc[w] \in {"lock", "work", "remove"}

\* The mutex of getNextIPFSJob(), and jobs that keep their sync value.
SharedInv ==
    /\ \A v, w \in Worker : pc[v] \in {"select", "lock"} /\ pc[w] \in {"select", "lock"} => v = w
    /\ \A w \in Worker : At(w) /\ job[w].index \in DOMAIN ipfs =>
         ipfs[job[w].index].sync = job[w].sync

\* The rows of an ordered sync value are locked and paused together: an older one is ready
\* whenever a younger one is that was not late.
Alike ==
    \A i, j \in DOMAIN ipfs :
        i < j /\ ipfs[i].sync = ipfs[j].sync /\ ipfs[j].sync \notin Unordered /\ j \notin late
            => /\ ipfs[i].lock = ipfs[j].lock
               /\ ipfs[i].pause = ipfs[j].pause \/ ipfs[i].pause = None

\* So what a worker has hold of is the oldest of its sync value.
AtOldest ==
    \A w \in Worker, j \in DOMAIN ipfs :
        At(w) /\ job[w].sync \notin Unordered /\ ipfs[j].sync = job[w].sync
            => job[w].index <= j \/ job[w].index \in late

\* As long as nobody else takes the lock away, the job is in the table, locked while it is
\* worked on, and in no other worker's hands.
HeldBy(w) ==
    /\ job[w].index \in DOMAIN ipfs
    /\ Working(w) => ipfs[job[w].index].lock
    /\ \A v \in Worker \ {w} : At(v) => job[v].index # job[w].index
Held == \A w \in Worker : At(w) => HeldBy(w) \/ job[w].index \in freed

\* What is about to be inserted is unlocked.
AddingUnlocked == \A row \in adding : row.lock = FALSE

LockInv == SharedInv /\ Alike /\ AtOldest /\ Held /\ AddingUnlocked

\* A step after which nobody has hold of a job it did not have hold of before, and the rows are
\* those of before or fewer.
Onwards ==
    /\ \A w \in Worker : At(w)' => /\ At(w)
                                   /\ job'[w].index = job[w].index
                                   /\ job'[w].sync = job[w].sync
    /\ \A w \in Worker : pc'[w] \in {"select", "lock"} => pc[w] \in {"select", "lock"}
    /\ late' = late /\ freed \subseteq freed'
    /\ \A row \in adding' : row.lock = FALSE
    /\ \A j \in DOMAIN ipfs' : j \in DOMAIN ipfs /\ ipfs'[j].sync = ipfs[j].sync

LEMMA OnwardsShared ==
    ASSUME LockInv, Onwards
    PROVE  SharedInv' /\ AtOldest' /\ AddingUnlocked'
<1>1. SharedInv'
  BY DEF LockInv, Onwards, SharedInv
<1>2. AtOldest'
  BY DEF LockInv, Onwards, AtOldest
<1>3. AddingUnlocked'
  BY DEF Onwards, AddingUnlocked
<1> QED
  BY <1>1, <1>2, <1>3

\* If pauses and locks of rows that were alike stay alike, so do the rows.
LEMMA OnwardsAlike ==
    ASSUME Alike, Onwards,
           \A i, j \in DOMAIN ipfs' :
               /\ ipfs[i].sync = ipfs[j].sync /\ ipfs[j].sync \notin Unordered
               /\ ipfs[i].lock = ipfs[j].lock
               /\ ipfs[i].pause = ipfs[j].pause \/ ipfs[i].pause = None
               => /\ ipfs'[i].lock = ipfs'[j].lock
                  /\ ipfs'[i].pause = ipfs'[j].pause \/ ipfs'[i].pause = None
    PROVE  Alike'
BY DEF Alike, Onwards

\* If the rows that workers work on stay in the table and locked, the jobs stay held.
LEMMA OnwardsHeld ==
    ASSUME Held, Onwards,
           \A w \in Worker : Working(w)' => Working(w),
           \A w \in Worker : At(w)' /\ job[w].index \in DOMAIN ipfs /\ job[w].index \notin freed' =>
               /\ job[w].index \in DOMAIN ipfs'
               /\ Working(w) /\ ipfs[job[w].index].lock => ipfs'[job[w].index].lock
    PROVE  Held'
<1> SUFFICES ASSUME NEW w \in Worker, At(w)', job'[w].index \notin freed'
             PROVE  HeldBy(w)'
  BY DEF Held
<1>1. At(w) /\ job'[w].index = job[w].index /\ job[w].index \notin freed
  BY DEF Onwards
<1>2. HeldBy(w)
  BY <1>1 DEF Held
<1>3. job'[w].index \in DOMAIN ipfs' /\ (Working(w)' => ipfs'[job'[w].index].lock)
  BY <1>1, <1>2 DEF HeldBy
<1>4. ASSUME NEW v \in Worker \ {w}, At(v)'
      PROVE  job'[v].index # job'[w].index
  BY <1>1, <1>2, <1>4 DEF HeldBy, Onwards
<1> QED
  BY <1>3, <1>4 DEF HeldBy

\* A step that leaves the table alone.
LEMMA OnwardsOnly ==
    ASSUME LockInv, Onwards, ipfs' = ipfs, \A w \in Worker : Working(w)' => Working(w)
    PROVE  LockInv'
<1>1. Alike' 
  BY OnwardsAlike DEF LockInv
<1>2. Held'
  BY OnwardsHeld DEF LockInv
<1> QED
  BY <1>1, <1>2, OnwardsShared DEF LockInv

\* What the steps of a worker do to its own program counter and job, and to nobody else's.
LEMMA WorkerMoves ==
    ASSUME JobsInv, NEW w \in Worker
    PROVE  /\ Drop(w) => /\ pc'[w] = "idle"
                         /\ \A v \in Worker : v # w => pc'[v] = pc[v] /\ job'[v] = job[v]
           /\ \A l \in WorkerPc : Goto(w, l) => /\ pc'[w] = l
                                                /\ \A v \in Worker : v # w => pc'[v] = pc[v]
           /\ job' = [job EXCEPT ![w].failed = TRUE] =>
                  /\ job'[w].index = job[w].index /\ job'[w].sync = job[w].sync
                  /\ \A v \in Worker : v # w => job'[v] = job[v]
           /\ job' = [job EXCEPT ![w].pause = RetryDelay] =>
                  /\ job'[w].index = job[w].index /\ job'[w].sync = job[w].sync
                  /\ \A v \in Worker : v # w => job'[v] = job[v]
<1>1. pc \in [Worker -> WorkerPc] /\ job \in [Worker -> Work]
  BY DEF JobsInv, WorkersOK
<1>2. \A x \in Work : /\ [x EXCEPT !.failed = TRUE].index = x.index
                      /\ [x EXCEPT !.failed = TRUE].sync = x.sync
                      /\ [x EXCEPT !.pause = RetryDelay].index = x.index
                      /\ [x EXCEPT !.pause = RetryDelay].sync = x.sync
  BY DEF Work
<1>3. Drop(w) => /\ pc'[w] = "idle"
                 /\ \A v \in Worker : v # w => pc'[v] = pc[v] /\ job'[v] = job[v]
  BY <1>1 DEF Drop, Goto
<1>4. \A l \in WorkerPc : Goto(w, l) => /\ pc'[w] = l
                                        /\ \A v \in Worker : v # w => pc'[v] = pc[v]
  BY <1>1 DEF Goto
<1>5. job' = [job EXCEPT ![w].failed = TRUE] =>
                  /\ job'[w].index = job[w].index /\ job'[w].sync = job[w].sync
                  /\ \A v \in Worker : v # w => job'[v] = job[v]
  BY <1>1, <1>2
<1>6. job' = [job EXCEPT ![w].pause = RetryDelay] =>
                  /\ job'[w].index = job[w].index /\ job'[w].sync = job[w].sync
                  /\ \A v \in Worker : v # w => job'[v] = job[v]
  BY <1>1, <1>2
<1> QED
  BY <1>3, <1>4, <1>5, <1>6

\* A worker that goes on with its job, or drops it.
LEMMA WorkerOnwards ==
    ASSUME JobsInv, AddingUnlocked, NEW w \in Worker,
           adding' = adding, late' = late, freed \subseteq freed',
           \A j \in DOMAIN ipfs' : j \in DOMAIN ipfs /\ ipfs'[j].sync = ipfs[j].sync,
           \/ Drop(w)
           \/ /\ job' = job
              /\ \E l \in WorkerPc : /\ Goto(w, l)
                                     /\ l \in {"lock", "work", "remove"} => At(w)
                                     /\ l \in {"select", "lock"} => pc[w] \in {"select", "lock"}
           \/ /\ job' = [job EXCEPT ![w].failed = TRUE] \/ job' = [job EXCEPT ![w].pause = RetryDelay]
              /\ \E l \in {"remove", "pause"} : Goto(w, l)
              /\ At(w)
    PROVE  Onwards
<1>1. CASE Drop(w)
  BY <1>1, WorkerMoves DEF Onwards, At, AddingUnlocked
<1>2. ASSUME job' = job, NEW l \in WorkerPc, Goto(w, l),
             l \in {"lock", "work", "remove"} => At(w),
             l \in {"select", "lock"} => pc[w] \in {"select", "lock"}
      PROVE  Onwards
  <2>1. pc'[w] = l /\ \A v \in Worker : v # w => pc'[v] = pc[v]
    BY <1>2, WorkerMoves
  <2> QED
    BY <1>2, <2>1 DEF Onwards, At, AddingUnlocked
<1>3. ASSUME job' = [job EXCEPT ![w].failed = TRUE] \/ job' = [job EXCEPT ![w].pause = RetryDelay],
             NEW l \in {"remove", "pause"}, Goto(w, l), At(w)
      PROVE  Onwards
  <2>1. l \in WorkerPc
    BY DEF WorkerPc
  <2>2. pc'[w] = l /\ \A v \in Worker : v # w => pc'[v] = pc[v]
    BY <1>3, <2>1, WorkerMoves
  <2>3. \A v \in Worker : job'[v].index = job[v].index /\ job'[v].sync = job[v].sync
    BY <1>3, WorkerMoves
  <2> QED
    BY <1>3, <2>2, <2>3 DEF Onwards, At, AddingUnlocked
<1> QED
  BY <1>1, <1>2, <1>3

\* Rows that are changed one by one, none of them removed or unlocked.
LEMMA RowsKept ==
    ASSUME LockInv, Onwards, SameJobs(ipfs'), \A w \in Worker : Working(w)' => Working(w),
           \A j \in DOMAIN ipfs : ipfs'[j].lock = ipfs[j].lock,
           \A i, j \in DOMAIN ipfs :
               ipfs[i].pause = ipfs[j].pause \/ ipfs[i].pause = None
               => ipfs'[i].pause = ipfs'[j].pause \/ ipfs'[i].pause = None
    PROVE  LockInv'
<1>1. DOMAIN ipfs' = DOMAIN ipfs
  BY DEF SameJobs
<1>2. Alike'
  BY <1>1, OnwardsAlike DEF LockInv
<1>3. Held'
  BY <1>1, OnwardsHeld DEF LockInv
<1> QED
  BY <1>2, <1>3, OnwardsShared DEF LockInv

\* What the callers, time and a restart do to the locks.
LEMMA LockCallers ==
    ASSUME JobsInv, LockInv, AddJob \/ RegisterCallback \/ Tick \/ Restart
    PROVE  LockInv'
<1>1. CASE AddJob \/ RegisterCallback
  <2>1. ipfs' = ipfs /\ pc' = pc /\ job' = job /\ late' = late /\ freed' = freed
    BY <1>1 DEF AddJob, RegisterCallback, queue, workers, history
  <2>2. \A kind \in Kinds : Inserted(kind).lock = FALSE
    BY DEF Inserted
  <2>3. \A row \in adding' : row.lock = FALSE
    BY <1>1, <2>2 DEF AddJob, RegisterCallback, queue, LockInv, AddingUnlocked
  <2> QED
    BY <2>1, <2>3, OnwardsOnly DEF Onwards, At, Working, LockInv, AddingUnlocked
<1>2. CASE Tick
  <2>1. \A row \in Row :
           /\ [row EXCEPT !.pause = Later(@), !.maxTime = Later(@)].lock = row.lock
           /\ [row EXCEPT !.pause = Later(@), !.maxTime = Later(@)].pause = Later(row.pause)
    BY DEF Row
  <2>2. /\ \A j \in DOMAIN ipfs : /\ ipfs'[j].lock = ipfs[j].lock
                                  /\ ipfs'[j].pause = Later(ipfs[j].pause)
    BY <1>2, <2>1 DEF Tick, JobsInv, TableOK
  <2>3. SameJobs(ipfs')
    BY <1>2, TickTypes
  <2>4. \A w \in Worker : job'[w].index = job[w].index /\ job'[w].sync = job[w].sync
    BY <1>2 DEF Tick, JobsInv, WorkersOK, Work
  <2>5. pc' = pc /\ late' = late /\ freed' = freed
    BY <1>2 DEF Tick, history
  <2>6. Onwards
    <3>1. \A row \in adding : [row EXCEPT !.pause = Later(@)].lock = FALSE
      BY DEF LockInv, AddingUnlocked, JobsInv, CallersOK, Row
    <3>2. \A row \in adding' : row.lock = FALSE
      BY <1>2, <3>1 DEF Tick
    <3> QED
      BY <2>3, <2>4, <2>5, <3>2 DEF Onwards, At, SameJobs
  <2>7. Later(None) = None
    BY DEF Later, None
  <2>8. \A i, j \in DOMAIN ipfs :
            ipfs[i].pause = ipfs[j].pause \/ ipfs[i].pause = None
            => ipfs'[i].pause = ipfs'[j].pause \/ ipfs'[i].pause = None
    BY <2>2, <2>7
  <2>9. \A w \in Worker : Working(w)' => Working(w)
    BY <2>5 DEF Working
  <2> QED
    BY <2>2, <2>3, <2>6, <2>8, <2>9, RowsKept
<1>3. CASE Restart
  <2>1. \A row \in Row : KeptRow(row).lock = FALSE /\ KeptRow(row).pause = None
    BY DEF Row, KeptRow
  <2>2. \A j \in DOMAIN ipfs' : ipfs'[j].lock = FALSE /\ ipfs'[j].pause = None
    BY <1>3, <2>1 DEF Restart, JobsInv, TableOK
  <2>3. \A w \in Worker : pc'[w] = "idle"
    BY <1>3 DEF Restart
  <2> QED
    <3>1. SharedInv' /\ AtOldest' /\ Held'
      BY <2>3 DEF SharedInv, AtOldest, Held, At
    <3>2. Alike'
      BY <2>2 DEF Alike
    <3>3. AddingUnlocked'
      BY <1>3 DEF Restart, AddingUnlocked
    <3> QED
      BY <3>1, <3>2, <3>3 DEF LockInv
<1> QED
  BY <1>1, <1>2, <1>3

\* A row that is inserted is younger than all others, and late if one of them is not as it is.
LEMMA LockInsert ==
    ASSUME JobsInv, LockInv, InsertJob
    PROVE  LockInv'
<1>1. pc' = pc /\ job' = job /\ freed' = freed /\ late \subseteq late'
  BY DEF InsertJob, workers
<1>2. CASE ipfs' = ipfs /\ late' = late
  <2>1. \A row \in adding' : row.lock = FALSE
    BY DEF InsertJob, LockInv, AddingUnlocked
  <2> QED
    BY <1>1, <1>2, <2>1, OnwardsOnly DEF Onwards, At, Working
<1>3. CASE ~(ipfs' = ipfs /\ late' = late)
  <2>1. PICK row \in adding :
            /\ ipfs' = [j \in DOMAIN ipfs \cup {nextIndex} |->
                            IF j = nextIndex THEN row ELSE ipfs[j]]
            /\ late' = IF Joins(row) THEN late \cup {nextIndex} ELSE late
    BY <1>3 DEF InsertJob
  <2>2. /\ nextIndex \in Nat
        /\ \A j \in DOMAIN ipfs : j \in Nat /\ j < nextIndex
        /\ \A w \in Worker : job[w].index \in Nat /\ job[w].index < nextIndex
    BY JobIndices DEF JobsInv, TableOK, WorkersOK
  <2>3. /\ DOMAIN ipfs' = DOMAIN ipfs \cup {nextIndex}
        /\ ipfs'[nextIndex] = row
        /\ \A j \in DOMAIN ipfs : ipfs'[j] = ipfs[j] /\ (j \in late' <=> j \in late)
        /\ \A w \in Worker : job[w].index \in late' <=> job[w].index \in late
    BY <2>1, <2>2
  <2>4. row.lock = FALSE
    BY DEF LockInv, AddingUnlocked
  <2>5. SharedInv'
    BY <1>1, <2>2, <2>3 DEF LockInv, SharedInv, At
  <2>6. Alike'
    <3>1. ASSUME NEW i \in DOMAIN ipfs, ipfs[i].sync = row.sync, nextIndex \notin late'
          PROVE  ipfs[i].lock = row.lock /\ ipfs[i].pause = None
      <4>1. ~Joins(row)
        BY <2>1, <3>1
      <4>2. ~ipfs[i].lock /\ ipfs[i].pause = None
        BY <3>1, <4>1 DEF Joins
      <4>3. ipfs[i].lock \in BOOLEAN
        BY DEF JobsInv, TableOK, Row
      <4> QED
        BY <2>4, <4>2, <4>3
    <3> QED
      BY <2>2, <2>3, <3>1 DEF LockInv, Alike
  <2>7. AtOldest'
    BY <1>1, <2>2, <2>3 DEF LockInv, AtOldest, At
  <2>8. Held'
    BY <1>1, <2>2, <2>3 DEF LockInv, Held, HeldBy, At, Working
  <2>9. AddingUnlocked'
    BY DEF InsertJob, LockInv, AddingUnlocked
  <2> QED
    BY <2>5, <2>6, <2>7, <2>8, <2>9 DEF LockInv
<1> QED
  BY <1>2, <1>3

\* What an UPDATE of locks or pauses does to two rows of an ordered sync value: the same.
LEMMA UpdatedTogether ==
    ASSUME JobsInv, LockInv, NEW w \in Worker
    PROVE  /\ \A j \in DOMAIN ipfs :
                /\ LockJobs(w)[j] = IF j \in Together(job[w].index, job[w].sync)
                                      THEN SetLock(ipfs[j], TRUE) ELSE ipfs[j]
                /\ PausedJobs(w)[j] = IF j \in Together(job[w].index, job[w].sync)
                                        THEN SetPause(ipfs[j], RetryDelay) ELSE ipfs[j]
                /\ UnlockedSync(w)[j] = IF ipfs[j].sync = job[w].sync
                                          THEN SetLock(ipfs[j], FALSE) ELSE ipfs[j]
           /\ At(w) => \A i, j \in DOMAIN ipfs :
                ipfs[i].sync = ipfs[j].sync /\ ipfs[j].sync \notin Unordered =>
                    (   i \in Together(job[w].index, job[w].sync)
                    <=> j \in Together(job[w].index, job[w].sync) )
<1>1. \A j \in DOMAIN ipfs :
                /\ LockJobs(w)[j] = IF j \in Together(job[w].index, job[w].sync)
                                      THEN SetLock(ipfs[j], TRUE) ELSE ipfs[j]
                /\ PausedJobs(w)[j] = IF j \in Together(job[w].index, job[w].sync)
                                        THEN SetPause(ipfs[j], RetryDelay) ELSE ipfs[j]
                /\ UnlockedSync(w)[j] = IF ipfs[j].sync = job[w].sync
                                          THEN SetLock(ipfs[j], FALSE) ELSE ipfs[j]
  BY DEF LockJobs, PausedJobs, UnlockedSync, Update
<1>2. ASSUME At(w), NEW i \in DOMAIN ipfs, NEW j \in DOMAIN ipfs,
             ipfs[i].sync = ipfs[j].sync, ipfs[j].sync \notin Unordered
      PROVE  (   i \in Together(job[w].index, job[w].sync)
             <=> j \in Together(job[w].index, job[w].sync) )
  BY <1>2 DEF Together, LockInv, SharedInv
<1> QED
  BY <1>1, <1>2

\* getNextIPFSJob() clears pauses, ...
LEMMA LockClear ==
    ASSUME JobsInv, LockInv, NEW w \in Worker, GetClear(w)
    PROVE  LockInv'
<1>1. SameJobs(ipfs')
  BY GetClearTypes
<1>2. \A j \in DOMAIN ipfs : ipfs[j] \in Row
  BY DEF JobsInv, TableOK
<1>3. \A row \in Row : /\ [row EXCEPT !.pause = None].lock = row.lock
                       /\ [row EXCEPT !.pause = None].pause = None
  BY DEF Row
<1>4. \A j \in DOMAIN ipfs : ClearedPauses[j] =
         IF ipfs[j].pause = 0 THEN [ipfs[j] EXCEPT !.pause = None] ELSE ipfs[j]
  BY DEF ClearedPauses, Update
<1>5. ipfs' = ClearedPauses \/ ipfs' = ipfs
  BY DEF GetClear
<1>6. \A j \in DOMAIN ipfs : ipfs'[j].lock = ipfs[j].lock
  BY <1>2, <1>3, <1>4, <1>5
<1>7. \A i, j \in DOMAIN ipfs :
               ipfs[i].pause = ipfs[j].pause \/ ipfs[i].pause = None
               => ipfs'[i].pause = ipfs'[j].pause \/ ipfs'[i].pause = None
  <2>1. \A j \in DOMAIN ipfs : ClearedPauses[j].pause = IF ipfs[j].pause = 0 THEN None
                                                         ELSE ipfs[j].pause
    BY <1>2, <1>3, <1>4
  <2> QED
    BY <1>5, <2>1
<1>8. pc'[w] = "select" /\ \A v \in Worker : v # w => pc'[v] = pc[v]
  BY WorkerMoves DEF GetClear, WorkerPc
<1>9. /\ job' = job /\ adding' = adding /\ late' = late /\ freed' = freed
      /\ \A v \in Worker : pc[v] \notin {"select", "lock"}
  BY DEF GetClear, MutexFree, history
<1>10. SharedInv'
  BY <1>1, <1>8, <1>9 DEF LockInv, SharedInv, At, SameJobs
<1>11. AtOldest'
  BY <1>1, <1>8, <1>9 DEF LockInv, AtOldest, At, SameJobs
<1>12. Alike'
  BY <1>1, <1>6, <1>7, <1>9 DEF LockInv, Alike, SameJobs
<1>13. Held'
  <2>1. \A v \in Worker : (At(v)' => At(v)) /\ (Working(v)' => Working(v))
    BY <1>8 DEF At, Working
  <2> QED
    BY <1>1, <1>6, <1>9, <2>1 DEF LockInv, Held, HeldBy, SameJobs
<1>14. AddingUnlocked'
  BY <1>9 DEF LockInv, AddingUnlocked
<1> QED
  BY <1>10, <1>11, <1>12, <1>13, <1>14 DEF LockInv

\* ... selects the oldest row that is ready, which nobody works on unless it was freed, ...
LEMMA LockSelect ==
    ASSUME JobsInv, LockInv, NEW w \in Worker, GetSelect(w)
    PROVE  LockInv'
<1>1. ipfs' = ipfs /\ adding' = adding /\ late' = late /\ freed' = freed /\ pc[w] = "select"
  BY DEF GetSelect, queue, history
<1>2. CASE Ready = {}
  <2>1. Drop(w)
    BY <1>2 DEF GetSelect
  <2>2. Onwards
    BY <1>1, <2>1, WorkerOnwards DEF LockInv
  <2>3. \A v \in Worker : Working(v)' => Working(v)
    BY <2>1, WorkerMoves DEF Working
  <2> QED
    BY <1>1, <2>2, <2>3, OnwardsOnly
<1>3. CASE Ready # {}
  <2>1. pc'[w] = "lock" /\ \A v \in Worker : v # w => pc'[v] = pc[v]
    BY <1>3, WorkerMoves DEF GetSelect, WorkerPc
  <2>2. job'[w] = NextJob(OldestReady) /\ \A v \in Worker : v # w => job'[v] = job[v]
    BY <1>3 DEF GetSelect, JobsInv, WorkersOK
  <2>3. job'[w].index = OldestReady /\ job'[w].sync = ipfs[OldestReady].sync
    BY <2>2 DEF NextJob
  <2>4. /\ OldestReady \in Ready /\ OldestReady \in DOMAIN ipfs
        /\ \A k \in Ready : OldestReady <= k
    BY <1>3, NextJobType
  <2>5. ~ipfs[OldestReady].lock /\ ipfs[OldestReady].pause = None
    BY <2>4 DEF Ready
  <2>6. \A v \in Worker : v # w => pc[v] \notin {"select", "lock"}
    BY <1>1 DEF LockInv, SharedInv
  <2>7. SharedInv'
    BY <1>1, <2>1, <2>2, <2>3, <2>6 DEF LockInv, SharedInv, At
  <2>8. AtOldest'
    <3>1. ASSUME NEW j \in DOMAIN ipfs, ipfs[j].sync = ipfs[OldestReady].sync,
                 ipfs[j].sync \notin Unordered, ~(OldestReady <= j), OldestReady \notin late
          PROVE  FALSE
      <4>1. j < OldestReady
        BY <2>4, <3>1, JobIndices
      <4>2. ipfs[j].lock = ipfs[OldestReady].lock /\ ipfs[j].pause = None
        BY <2>4, <2>5, <3>1, <4>1 DEF LockInv, Alike
      <4>3. j \in Ready
        BY <2>5, <3>1, <4>2 DEF Ready
      <4> QED
        BY <2>4, <3>1, <4>3
    <3>2. \A v \in Worker : v # w => At(v)' = At(v)
      BY <2>1 DEF At
    <3> QED
      BY <1>1, <2>2, <2>3, <3>1, <3>2 DEF LockInv, AtOldest
  <2>9. Held'
    <3>1. ASSUME NEW v \in Worker, v # w, At(v), job[v].index = OldestReady
          PROVE  OldestReady \in freed
      <4>1. Working(v)
        BY <2>6, <3>1 DEF At, Working
      <4> QED
        BY <2>5, <3>1, <4>1 DEF LockInv, Held, HeldBy
    <3>2. ASSUME NEW v \in Worker, At(v)', job'[v].index \notin freed
          PROVE  HeldBy(v)'
      <4>1. CASE v = w
        <5>1. ~Working(w)'
          BY <2>1 DEF Working
        <5>2. \A u \in Worker \ {w} : At(u)' => At(u) /\ job'[u].index = job[u].index
          BY <2>1, <2>2 DEF At
        <5> QED
          BY <1>1, <2>3, <2>4, <3>1, <3>2, <4>1, <5>1, <5>2 DEF HeldBy
      <4>2. CASE v # w
        <5>1. At(v) /\ job'[v] = job[v] /\ Working(v)' = Working(v)
          BY <2>1, <2>2, <3>2, <4>2 DEF At, Working
        <5>2. HeldBy(v)
          BY <1>1, <3>2, <5>1 DEF LockInv, Held
        <5>3. ASSUME NEW u \in Worker \ {v}, At(u)'
              PROVE  job'[u].index # job'[v].index
          <6>1. CASE u = w
            BY <2>3, <3>1, <3>2, <4>2, <5>1, <6>1
          <6>2. CASE u # w
            <7>1. At(u) /\ job'[u] = job[u]
              BY <2>1, <2>2, <5>3, <6>2 DEF At
            <7> QED
              BY <5>1, <5>2, <7>1 DEF HeldBy
          <6> QED
            BY <6>1, <6>2
        <5> QED
          BY <1>1, <5>1, <5>2, <5>3 DEF HeldBy
      <4> QED
        BY <4>1, <4>2
    <3> QED
      BY <1>1, <3>2 DEF Held
  <2>10. Alike' /\ AddingUnlocked'
    BY <1>1 DEF LockInv, Alike, AddingUnlocked
  <2> QED
    BY <2>7, <2>8, <2>9, <2>10 DEF LockInv
<1> QED
  BY <1>2, <1>3

\* ... and locks it, with all others of an ordered sync value.
LEMMA LockLock ==
    ASSUME JobsInv, LockInv, NEW w \in Worker, GetLock(w)
    PROVE  LockInv'
<1>1. /\ adding' = adding /\ late' = late /\ freed' = freed /\ pc[w] = "lock" /\ At(w)
      /\ SameJobs(ipfs')
  BY GetLockTypes DEF GetLock, history, At
<1>2. CASE Drop(w) /\ ipfs' = ipfs
  <2>1. Onwards
    BY <1>1, <1>2, WorkerOnwards DEF LockInv
  <2>2. \A v \in Worker : Working(v)' => Working(v)
    BY <1>2, WorkerMoves DEF Working
  <2> QED
    BY <1>2, <2>1, <2>2, OnwardsOnly
<1>3. CASE ipfs' = LockJobs(w) /\ Goto(w, "work") /\ job' = job
  <2>1. pc'[w] = "work" /\ \A v \in Worker : v # w => pc'[v] = pc[v]
    BY <1>3, WorkerMoves DEF WorkerPc
  <2>2. Onwards
    BY <1>1, <1>3, WorkerOnwards DEF LockInv, WorkerPc, SameJobs
  <2> DEFINE T == Together(job[w].index, job[w].sync)
  <2>3. \A j \in DOMAIN ipfs : /\ ipfs[j] \in Row
                               /\ ipfs'[j] = IF j \in T THEN SetLock(ipfs[j], TRUE) ELSE ipfs[j]
    BY <1>3, UpdatedTogether DEF JobsInv, TableOK
  <2>4. \A i, j \in DOMAIN ipfs :
            ipfs[i].sync = ipfs[j].sync /\ ipfs[j].sync \notin Unordered => (i \in T <=> j \in T)
    BY <1>1, UpdatedTogether
  <2>5. \A j \in T : j \in DOMAIN ipfs
    BY DEF Together
  <2>6. job[w].index \in DOMAIN ipfs => job[w].index \in T
    BY <1>1 DEF Together, LockInv, SharedInv
  <2> HIDE DEF T
  <2>7. \A j \in DOMAIN ipfs :
            /\ j \in T => ipfs'[j].lock = TRUE
            /\ j \notin T => ipfs'[j].lock = ipfs[j].lock
            /\ ipfs'[j].pause = ipfs[j].pause
    <3>1. \A row \in Row : SetLock(row, TRUE).lock = TRUE /\ SetLock(row, TRUE).pause = row.pause
      BY DEF Row, SetLock
    <3> QED
      BY <2>3, <3>1
  <2>8. Alike'
    BY <1>1, <2>2, <2>4, <2>7, OnwardsAlike DEF LockInv, SameJobs
  <2>9. Held'
    <3> SUFFICES ASSUME NEW v \in Worker, At(v)', job'[v].index \notin freed'
                 PROVE  HeldBy(v)'
      BY DEF Held
    <3>1. At(v) /\ job[v].index \notin freed
      BY <1>1, <1>3, <2>2 DEF Onwards
    <3>2. HeldBy(v)
      BY <3>1 DEF LockInv, Held
    <3>3. Working(v)' => Working(v) \/ v = w
      BY <2>1 DEF Working
    <3>4. Working(v)' => ipfs'[job[v].index].lock
      BY <2>6, <2>7, <3>2, <3>3 DEF HeldBy
    <3>5. \A u \in Worker : At(u)' => At(u)
      BY <2>2 DEF Onwards
    <3> QED
      BY <1>1, <1>3, <3>2, <3>4, <3>5 DEF HeldBy, SameJobs
  <2> QED
    BY <2>2, <2>8, <2>9, OnwardsShared DEF LockInv
<1> QED
  BY <1>2, <1>3 DEF GetLock

\* The rows that lose their lock to a worker that is done with them: those others work on are
\* freed.
LEMMA LockLifted ==
    ASSUME JobsInv, LockInv, NEW w \in Worker, Onwards, SameJobs(ipfs'),
           NEW rows, ~At(w)', freed' = freed \cup FreedWith(w, rows),
           \A v \in Worker : Working(v)' => Working(v),
           \A j \in DOMAIN ipfs \ rows : ipfs'[j].lock = ipfs[j].lock
    PROVE  Held'
<1> SUFFICES ASSUME NEW v \in Worker, At(v)', job[v].index \in DOMAIN ipfs,
                    job[v].index \notin freed', Working(v), ipfs[job[v].index].lock
             PROVE  ipfs'[job[v].index].lock
  BY OnwardsHeld DEF LockInv, SameJobs
<1>1. v # w
  OBVIOUS
<1>2. job[v].index \notin rows
  BY <1>1 DEF FreedWith
<1> QED
  BY <1>2

\* A timeout ends the job, or pauses the rows and gives the lock up.
LEMMA LockTimeout ==
    ASSUME JobsInv, LockInv, NEW w \in Worker, WorkTimeout(w)
    PROVE  LockInv'
<1>1. /\ adding' = adding /\ late' = late /\ freed \subseteq freed' /\ pc[w] = "work" /\ At(w)
      /\ SameJobs(ipfs') /\ Working(w)
  BY WorkTimeoutTypes DEF WorkTimeout, At, Working
<1>2. CASE Drop(w) /\ ipfs' = ipfs
  <2>1. Onwards
    BY <1>1, <1>2, WorkerOnwards DEF LockInv
  <2>2. \A v \in Worker : Working(v)' => Working(v)
    BY <1>2, WorkerMoves DEF Working
  <2> QED
    BY <1>2, <2>1, <2>2, OnwardsOnly
<1>3. CASE Goto(w, "remove") /\ job' = [job EXCEPT ![w].failed = TRUE] /\ ipfs' = ipfs
  <2>1. Onwards
    BY <1>1, <1>3, WorkerOnwards DEF LockInv
  <2>2. \A v \in Worker : Working(v)' => Working(v)
    BY <1>1, <1>3, WorkerMoves DEF Working, WorkerPc
  <2> QED
    BY <1>3, <2>1, <2>2, OnwardsOnly
<1>4. CASE /\ ipfs' = PausedJobs(w)
           /\ freed' = freed \cup FreedWith(w, Together(job[w].index, job[w].sync))
           /\ \/ Drop(w)
              \/ Goto(w, "pause") /\ job' = [job EXCEPT ![w].pause = RetryDelay]
  <2>1. Onwards
    BY <1>1, <1>4, WorkerOnwards DEF LockInv, SameJobs
  <2>2. pc'[w] \in {"idle", "pause"} /\ \A v \in Worker : v # w => pc'[v] = pc[v]
    BY <1>4, WorkerMoves DEF WorkerPc
  <2>3. ~At(w)' /\ \A v \in Worker : Working(v)' => Working(v)
    BY <2>2 DEF At, Working
  <2> DEFINE T == Together(job[w].index, job[w].sync)
  <2>4. \A j \in DOMAIN ipfs :
            ipfs'[j] = IF j \in T THEN SetPause(ipfs[j], RetryDelay) ELSE ipfs[j]
    BY <1>4, UpdatedTogether
  <2>5. \A i, j \in DOMAIN ipfs :
            ipfs[i].sync = ipfs[j].sync /\ ipfs[j].sync \notin Unordered => (i \in T <=> j \in T)
    BY <1>1, UpdatedTogether
  <2>6. freed' = freed \cup FreedWith(w, T)
    BY <1>4
  <2> HIDE DEF T
  <2>7. RetryDelay \in Nat /\ \A j \in DOMAIN ipfs : ipfs[j] \in Row
    BY JobsAssumption DEF JobsInv, TableOK
  <2>8. \A j \in DOMAIN ipfs :
            /\ j \in T => ipfs'[j].lock = FALSE /\ ipfs'[j].pause = RetryDelay
            /\ j \notin T => ipfs'[j].lock = ipfs[j].lock /\ ipfs'[j].pause = ipfs[j].pause
    <3>1. \A row \in Row : /\ SetPause(row, RetryDelay).lock = FALSE
                           /\ SetPause(row, RetryDelay).pause = RetryDelay
      BY <2>7 DEF Row, SetPause
    <3> QED
      BY <2>4, <2>7, <3>1
  <2>9. Alike'
    BY <1>1, <2>1, <2>5, <2>8, OnwardsAlike DEF LockInv, SameJobs
  <2>10. Held'
    BY <1>1, <2>1, <2>3, <2>6, <2>8, LockLifted
  <2> QED
    BY <2>1, <2>9, <2>10, OnwardsShared DEF LockInv
<1> QED
  BY <1>2, <1>3, <1>4 DEF WorkTimeout

\* removeIPFSJob() takes out a row that nobody else has hold of, unless it was freed, ...
LEMMA LockRemove ==
    ASSUME JobsInv, LockInv, NEW w \in Worker, RemoveRow(w)
    PROVE  LockInv'
<1>1. /\ adding' = adding /\ late' = late /\ freed' = freed /\ pc[w] = "remove" /\ At(w)
  BY DEF RemoveRow, history, At
<1>2. CASE Drop(w) /\ ipfs' = ipfs
  <2>1. Onwards
    BY <1>1, <1>2, WorkerOnwards DEF LockInv
  <2>2. \A v \in Worker : Working(v)' => Working(v)
    BY <1>2, WorkerMoves DEF Working
  <2> QED
    BY <1>2, <2>1, <2>2, OnwardsOnly
<1>3. CASE ipfs' = RemovedJob(w) /\ Goto(w, "unlock") /\ job' = job
  <2>1. /\ DOMAIN ipfs' = DOMAIN ipfs \ {job[w].index}
        /\ \A j \in DOMAIN ipfs' : ipfs'[j] = ipfs[j]
    BY <1>3 DEF RemovedJob
  <2>2. Onwards
    BY <1>1, <1>3, <2>1, WorkerOnwards DEF LockInv, WorkerPc
  <2>3. pc'[w] = "unlock" /\ \A v \in Worker : v # w => pc'[v] = pc[v]
    BY <1>3, WorkerMoves DEF WorkerPc
  <2>4. ~At(w)' /\ \A v \in Worker : Working(v)' => Working(v)
    BY <2>3 DEF At, Working
  <2>5. Alike'
    BY <2>1, <2>2, OnwardsAlike DEF LockInv
  <2>6. \A v \in Worker : At(v)' /\ job[v].index \notin freed => job[v].index # job[w].index
    BY <1>1, <2>2, <2>4 DEF LockInv, Held, HeldBy, Onwards
  <2>7. Held'
    BY <1>1, <2>1, <2>2, <2>4, <2>6, OnwardsHeld DEF LockInv
  <2> QED
    BY <2>2, <2>5, <2>7, OnwardsShared DEF LockInv
<1> QED
  BY <1>2, <1>3 DEF RemoveRow, RemoveFails

\* ... and unlocks all rows of the sync value.
LEMMA LockUnlock ==
    ASSUME JobsInv, LockInv, NEW w \in Worker, RemoveUnlock(w)
    PROVE  LockInv'
<1>1. /\ adding' = adding /\ late' = late /\ freed \subseteq freed' /\ pc[w] = "unlock"
      /\ SameJobs(ipfs')
  BY RemoveUnlockTypes DEF RemoveUnlock
<1>2. CASE Drop(w) /\ ipfs' = ipfs
  <2>1. Onwards
    BY <1>1, <1>2, WorkerOnwards DEF LockInv
  <2>2. \A v \in Worker : Working(v)' => Working(v)
    BY <1>2, WorkerMoves DEF Working
  <2> QED
    BY <1>2, <2>1, <2>2, OnwardsOnly
<1> DEFINE R == {j \in DOMAIN ipfs : ipfs[j].sync = job[w].sync}
<1>3. CASE ipfs' = UnlockedSync(w) /\ freed' = freed \cup FreedWith(w, R)
           /\ Goto(w, "call") /\ job' = job
  <2>1. Onwards
    BY <1>1, <1>3, WorkerOnwards DEF LockInv, WorkerPc, SameJobs
  <2>2. pc'[w] = "call" /\ \A v \in Worker : v # w => pc'[v] = pc[v]
    BY <1>3, WorkerMoves DEF WorkerPc
  <2>3. ~At(w)' /\ \A v \in Worker : Working(v)' => Working(v)
    BY <2>2 DEF At, Working
  <2>4. \A j \in DOMAIN ipfs : /\ ipfs[j] \in Row
                               /\ ipfs'[j] = IF j \in R THEN SetLock(ipfs[j], FALSE) ELSE ipfs[j]
    BY <1>3, UpdatedTogether DEF JobsInv, TableOK
  <2>5. \A i, j \in DOMAIN ipfs : ipfs[i].sync = ipfs[j].sync => (i \in R <=> j \in R)
    OBVIOUS
  <2> HIDE DEF R
  <2>6. \A j \in DOMAIN ipfs :
            /\ j \in R => ipfs'[j].lock = FALSE
            /\ j \notin R => ipfs'[j].lock = ipfs[j].lock
            /\ ipfs'[j].pause = ipfs[j].pause
    <3>1. \A row \in Row : SetLock(row, FALSE).lock = FALSE /\ SetLock(row, FALSE).pause = row.pause
      BY DEF Row, SetLock
    <3> QED
      BY <2>4, <3>1
  <2>7. Alike'
    BY <1>1, <2>1, <2>5, <2>6, OnwardsAlike DEF LockInv, SameJobs
  <2>8. Held'
    BY <1>1, <1>3, <2>1, <2>3, <2>6, LockLifted
  <2> QED
    BY <2>1, <2>7, <2>8, OnwardsShared DEF LockInv
<1> QED
  BY <1>2, <1>3 DEF RemoveUnlock, RemoveFails

\* The remaining steps of a worker leave the table alone.
LEMMA LockOthers ==
    ASSUME JobsInv, LockInv, NEW w \in Worker,
           WorkDone(w) \/ NotePause(w) \/ WorkThrows(w) \/ CallBack(w)
    PROVE  LockInv'
<1>1. ipfs' = ipfs /\ adding' = adding /\ late' = late /\ freed' = freed
  BY DEF WorkDone, NotePause, WorkThrows, CallBack, queue, history
<1>2. CASE Drop(w)
  <2>1. Onwards
    BY <1>1, <1>2, WorkerOnwards DEF LockInv
  <2>2. \A v \in Worker : Working(v)' => Working(v)
    BY <1>2, WorkerMoves DEF Working
  <2> QED
    BY <1>1, <2>1, <2>2, OnwardsOnly
<1>3. CASE WorkDone(w)
  <2>1. Goto(w, "remove") /\ job' = job /\ At(w) /\ Working(w)
    BY <1>3 DEF WorkDone, At, Working
  <2>2. Onwards
    BY <1>1, <2>1, WorkerOnwards DEF LockInv, WorkerPc
  <2>3. \A v \in Worker : Working(v)' => Working(v)
    BY <2>1, WorkerMoves DEF Working, WorkerPc
  <2> QED
    BY <1>1, <2>2, <2>3, OnwardsOnly
<1> QED
  BY <1>2, <1>3 DEF NotePause, WorkThrows, CallBack

\* The locks mean what they say, whatever happens.
LEMMA LocksAlways == Spec => []LockInv
<1>1. Init => LockInv
  <2>1. Init => /\ \A j \in DOMAIN ipfs : ipfs[j].lock = FALSE /\ ipfs[j].pause = None
                /\ \A w \in Worker : pc[w] = "idle"
                /\ adding = {}
    BY DEF Init
  <2> QED
    BY <2>1 DEF LockInv, SharedInv, Alike, AtOldest, Held, At, AddingUnlocked
<1>2. JobsInv /\ LockInv /\ [Next]_vars => LockInv'
  <2>1. ASSUME JobsInv, LockInv, NEW w \in Worker, MainFunction(w)
        PROVE  LockInv'
    BY <2>1, LockClear, LockSelect, LockLock, LockTimeout, LockRemove, LockUnlock, LockOthers
       DEF MainFunction
  <2>2. ASSUME JobsInv, LockInv, Next
        PROVE  LockInv'
    BY <2>1, <2>2, LockCallers, LockInsert DEF Next
  <2>3. LockInv /\ UNCHANGED vars => LockInv'
    BY DEF vars, queue, workers, history, LockInv, SharedInv, Alike, AtOldest, Held, HeldBy, At,
           Working, AddingUnlocked
  <2> QED
    BY <2>2, <2>3
<1> QED
  BY <1>1, <1>2, JobsAlways, PTL DEF Spec

\* The jobs of an ordered sync value are done in the order of their jobIndex, by any number of
\* workers, whenever they are added, through timeouts, failures, busy statements and restarts:
\* only a job that was inserted while others of its value were locked or paused may overtake,
\* since it comes into the table unlocked (addIPFSJob).
THEOREM DoneInOrder == Spec => []InOrder
<1>1. LockInv => InOrder
  BY DEF LockInv, AtOldest, InOrder, Working, At
<1> QED
  BY <1>1, LocksAlways, PTL

\* No job is handed to two workers at once, of any number of ordered and unordered jobs; only
\* the unlocking by sync value of removeIPFSJob() and pauseIPFSSync() can give away a job that
\* is being worked on.
THEOREM HandedOutOnce == Spec => []Exclusive
<1>1. LockInv => Exclusive
  BY DEF LockInv, Held, HeldBy, Exclusive, Working, At
<1> QED
  BY <1>1, LocksAlways, PTL
===============================================================================
