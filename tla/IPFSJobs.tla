------------------------------ MODULE IPFSJobs ------------------------------
(***************************************************************************)
(* The queue of IPFS jobs: the ipfs table and its callbacks                *)
(* (src/Database.cpp) and the worker threads that empty it (src/IPFS.cpp,  *)
(* run by src/Threaded.cpp with ipfsparallel workers).                     *)
(*                                                                         *)
(* Every SQL statement is a step of its own, since other workers and the   *)
(* threads that add jobs run between any two of them; only the statements  *)
(* under one of the two mutexes exclude each other.  Time is a countdown:  *)
(* a pause or a deadline of n expires after n ticks.                       *)
(*                                                                         *)
(* An operator that nothing uses and that stands just before another one   *)
(* is a mutant of it.                                                      *)
(***************************************************************************)
EXTENDS Integers, Sequences, FiniteSets, FiniteSetsExt

CONSTANTS
    Worker,           \* the job threads (ipfsparallel)
    Backlog,          \* the jobs an earlier run of the program left in the table, oldest first
    Kinds,            \* the jobs that are added
    MaxJobs,          \* bound: highest jobIndex
    RetryDelay,       \* ipfstimeoutretry, in ticks
    DownloadTimeout,  \* ipfstimeoutdownload, in ticks
    MaxTimeouts,      \* bounds on the environment
    MaxThrows,
    MaxBusy,
    MaxRestarts

\* The sync column.  "domain" stands for any value that is not special.
Sync      == {"", "pin", "unpin", "domain"}
Unordered == {"pin", "_", ""}     \* what the code does not keep in order
JobIndex  == 1..MaxJobs
NoJob     == 0
None      == -1                   \* SQL NULL: no pause, no deadline

\* What a caller asks for.  The callback is "" (do nothing), "named" (registered for good) or
\* "promise" (registered for this one job).
Kind == [sync : Sync, callback : {"", "named", "promise"}, maxTime : Nat \cup {None}]

ASSUME JobsAssumption ==
    /\ Kinds \subseteq Kind
    /\ Backlog \in Seq(Kind)
    /\ \A i \in 1..Len(Backlog) : Backlog[i].callback # "promise"
    /\ MaxJobs \in Nat /\ Len(Backlog) <= MaxJobs
    /\ {RetryDelay, DownloadTimeout} \subseteq Nat \ {0}
    /\ {MaxTimeouts, MaxThrows, MaxBusy, MaxRestarts} \subseteq Nat

VARIABLES
    ipfs,             \* the table: jobIndex -> row
    nextIndex,        \* AUTOINCREMENT
    currentlyPaused,  \* _ipfsCurrentlyPaused: what RAM knows of paused sync values
    adding,           \* rows addIPFSJob() is about to insert
    callbacks,        \* the promise callbacks registered in ipfsCallbacks()
    registering,      \* jobs whose caller has yet to register its callback
    promise,          \* what became of the future of each job
    called,           \* jobs whose callback has run
    pc, job,          \* of each worker: its next step and the job it works on
    late,             \* history: jobs inserted while jobs of their sync value were locked or paused
    freed,            \* history: jobs another worker unlocked while they were worked on
    timeouts, throws, busy, restarts

queue   == <<ipfs, nextIndex, currentlyPaused, adding>>
answers == <<callbacks, registering, promise, called>>
workers == <<pc, job>>
history == <<late, freed>>
budget  == <<timeouts, throws, busy, restarts>>
vars    == <<queue, answers, workers, history, budget>>

WorkerPc == {"idle", "select", "lock", "work", "pause", "remove", "unlock", "call"}

\* What mainFunction() keeps of its job: "null" is the empty function found where no callback
\* is registered; pause is what pauseIPFSSync() has yet to note in RAM.
NoWork == [index |-> NoJob, sync |-> "", callback |-> "", lastTry |-> FALSE, failed |-> FALSE,
           pause |-> 0]
Work   == [index : JobIndex \cup {NoJob}, sync : Sync,
           callback : {"", "named", "promise", "null"}, lastTry : BOOLEAN, failed : BOOLEAN,
           pause : Nat]

Row == [sync : Sync, callback : {"", "named", "promise"}, lock : BOOLEAN,
        pause : Nat \cup {None}, maxTime : Nat \cup {None}]

-----------------------------------------------------------------------------
(* The statements on the table. *)

\* Rows after an UPDATE of those that satisfy Test.
Update(Test(_), Change(_)) == [j \in DOMAIN ipfs |-> IF Test(j) THEN Change(ipfs[j]) ELSE ipfs[j]]

SetLock(row, on)     == [row EXCEPT !.lock = on]
SetPause(row, delay) == [row EXCEPT !.pause = delay, !.lock = FALSE]

\* The rows locked or paused together with job j: the whole sync value if that is ordered.
Together(j, sync) == {k \in DOMAIN ipfs : IF sync \in Unordered THEN k = j ELSE ipfs[k].sync = sync}

\* INSERT of a job that is paused as long as RAM says its sync value is.
InsertedUnpaused(kind) ==
    [sync |-> kind.sync, callback |-> kind.callback, lock |-> FALSE, maxTime |-> kind.maxTime,
     pause |-> None]
Inserted(kind) ==
    LET left == {p.left : p \in {q \in currentlyPaused : q.sync = kind.sync}}
    IN  [sync |-> kind.sync, callback |-> kind.callback, lock |-> FALSE, maxTime |-> kind.maxTime,
         pause |-> IF left = {} THEN None ELSE Max(left)]

\* Another connection holds the database: the statement reports SQLITE_BUSY.
Busy == busy < MaxBusy /\ busy' = busy + 1

-----------------------------------------------------------------------------
(* Callers: the chain analyzer, storage pools, RPC methods. *)

\* addIPFSJob(), for callOnDownload(), pin() and unpin(): the pauses are read, then the row is
\* inserted.
AddJob ==
    /\ nextIndex + Cardinality(adding) <= MaxJobs
    /\ \E kind \in Kinds : adding' = adding \cup {Inserted(kind)}
    /\ UNCHANGED <<ipfs, nextIndex, currentlyPaused, answers, workers, history, budget>>

\* A row that joins locked or paused ones of its sync value is neither itself, unless RAM said
\* so when the pauses were read.
Joins(row) == \E j \in DOMAIN ipfs :
    ipfs[j].sync = row.sync /\ (ipfs[j].lock \/ ipfs[j].pause # None)

\* For a promise the callback is registered only after the row is in the table
\* (addIPFSJobPromise).  A busy database is the caller's problem.
InsertJob ==
    /\ \E row \in adding :
         /\ adding' = adding \ {row}
         /\ \/ /\ ipfs' = [j \in DOMAIN ipfs \cup {nextIndex} |->
                                IF j = nextIndex THEN row ELSE ipfs[j]]
               /\ nextIndex' = nextIndex + 1
               /\ late' = IF Joins(row) THEN late \cup {nextIndex} ELSE late
               /\ IF row.callback = "promise"
                    THEN /\ registering' = registering \cup {nextIndex}
                         /\ promise' = [promise EXCEPT ![nextIndex] = "pending"]
                    ELSE UNCHANGED <<registering, promise>>
               /\ UNCHANGED busy
            \/ Busy /\ UNCHANGED <<ipfs, nextIndex, late, registering, promise>>
    /\ UNCHANGED <<currentlyPaused, callbacks, called, workers, freed, timeouts, throws, restarts>>

RegisterCallback ==
    /\ \E j \in registering :
         /\ callbacks' = callbacks \cup {j}
         /\ registering' = registering \ {j}
    /\ UNCHANGED <<queue, promise, called, workers, history, budget>>

\* Time passes.
Later(n) == IF n > 0 THEN n - 1 ELSE n
Tick ==
    /\ \/ \E j \in DOMAIN ipfs : ipfs[j].pause > 0 \/ ipfs[j].maxTime > 0
       \/ \E row \in adding : row.pause > 0
       \/ \E p \in currentlyPaused : p.left > 0
       \/ \E w \in Worker : job[w].pause > 0
    /\ ipfs' = [j \in DOMAIN ipfs |-> [ipfs[j] EXCEPT !.pause = Later(@), !.maxTime = Later(@)]]
    /\ adding' = {[row EXCEPT !.pause = Later(@)] : row \in adding}
    /\ currentlyPaused' = {[p EXCEPT !.left = Later(@)] : p \in currentlyPaused}
    /\ job' = [w \in Worker |-> [job[w] EXCEPT !.pause = Later(@)]]
    /\ UNCHANGED <<nextIndex, answers, pc, history, budget>>

\* The program is killed and started again: the constructor forgets promises, pauses and locks.
KeptRow(row) == [row EXCEPT !.pause = None, !.lock = FALSE]

Restart ==
    /\ restarts < MaxRestarts
    /\ restarts' = restarts + 1
    /\ LET kept == {j \in DOMAIN ipfs : ipfs[j].callback # "promise"}
       IN  ipfs' = [j \in kept |-> KeptRow(ipfs[j])]
    /\ currentlyPaused' = {} /\ adding' = {}
    /\ callbacks' = {} /\ registering' = {}
    /\ promise' = [j \in JobIndex |-> "none"]
    /\ pc' = [w \in Worker |-> "idle"]
    /\ job' = [w \in Worker |-> NoWork]
    /\ late' = {} /\ freed' = {}
    /\ UNCHANGED <<nextIndex, called, timeouts, throws, busy>>

-----------------------------------------------------------------------------
(* getNextIPFSJob(), under _mutexGetNextIPFSJob *)

Goto(w, l) == pc' = [pc EXCEPT ![w] = l]
Drop(w)    == Goto(w, "idle") /\ job' = [job EXCEPT ![w] = NoWork]

\* Pauses that are over are cleared, but only when RAM knows of one; a busy database keeps the
\* rows paused although RAM has forgotten them.
Expired == {p \in currentlyPaused : p.left = 0}
PausesKept == ipfs
ClearedPauses ==
    Update(LAMBDA j : ipfs[j].pause = 0, LAMBDA row : [row EXCEPT !.pause = None])

NoMutex == TRUE
MutexFree == \A w \in Worker : pc[w] \notin {"select", "lock"}

GetClear(w) ==
    /\ pc[w] = "idle"
    /\ MutexFree
    /\ currentlyPaused' = currentlyPaused \ Expired
    /\ \/ /\ ipfs' = IF Expired # {} THEN ClearedPauses ELSE ipfs
          /\ UNCHANGED busy
       \/ Expired # {} /\ Busy /\ UNCHANGED ipfs
    /\ Goto(w, "select")
    /\ UNCHANGED <<nextIndex, adding, answers, job, history, timeouts, throws, restarts>>

\* The oldest job that is neither paused nor locked, and its callback as registered now.
Ready == {j \in DOMAIN ipfs : ipfs[j].pause = None /\ ~ipfs[j].lock}
NewestReady == Max(Ready)
OldestReady == Min(Ready)

\* The time left decides whether a timeout ends the job.  A deadline that has passed comes out
\* as 0, which mainFunction() takes for no deadline.
LastTry(row) == row.maxTime > 0 /\ row.maxTime < DownloadTimeout

NextJob(j) ==
    [index |-> j, sync |-> ipfs[j].sync,
     callback |-> IF ipfs[j].callback = "promise" /\ j \notin callbacks THEN "null"
                  ELSE ipfs[j].callback,
     lastTry |-> LastTry(ipfs[j]), failed |-> FALSE, pause |-> 0]

GetSelect(w) ==
    /\ pc[w] = "select"
    /\ IF Ready = {}
         THEN Drop(w)
         ELSE Goto(w, "lock") /\ job' = [job EXCEPT ![w] = NextJob(OldestReady)]
    /\ UNCHANGED <<queue, answers, history, budget>>

LockOneJob(w) == Update(LAMBDA j : j = job[w].index, LAMBDA row : SetLock(row, TRUE))
LockJobs(w) ==
    Update(LAMBDA j : j \in Together(job[w].index, job[w].sync), LAMBDA row : SetLock(row, TRUE))

GetLock(w) ==
    /\ pc[w] = "lock"
    /\ \/ ipfs' = LockJobs(w) /\ Goto(w, "work") /\ UNCHANGED <<job, busy>>
       \/ Busy /\ Drop(w) /\ UNCHANGED ipfs
    /\ UNCHANGED <<nextIndex, currentlyPaused, adding, answers, history, timeouts, throws, restarts>>

-----------------------------------------------------------------------------
(* mainFunction(): the request to the IPFS daemon *)

Download(w) == job[w].sync \notin {"pin", "unpin"}

\* The daemon answers.  A pin or an unpin that fails counts as done as well.  A cid that is
\* invalid or known to be lost is removed without its callback; only a pin or an unpin that a
\* statement of its own put into the table can be of one, and their callback does nothing.
WorkDone(w) ==
    /\ pc[w] = "work"
    /\ Goto(w, "remove")
    /\ UNCHANGED <<queue, answers, job, history, budget>>

\* The jobs other workers are at work on that lose their lock with the given rows.
Working(w) == pc[w] \in {"work", "remove"}
FreedWith(w, rows) == {job[v].index : v \in {x \in Worker \ {w} : Working(x)}} \cap rows

\* The pause of an unordered sync value is not noted in RAM (pauseIPFSSync).
PausedAlone(w) == job[w].sync \in Unordered

PausedJobs(w) ==
    Update(LAMBDA j : j \in Together(job[w].index, job[w].sync),
           LAMBDA row : SetPause(row, RetryDelay))

\* A download is not answered in time: fail it if it was the last try, otherwise pause it
\* (pauseIPFSSync); the pause of an ordered sync value is then noted in RAM.  A busy database
\* throws, and the job stays locked.
WorkTimeout(w) ==
    /\ pc[w] = "work"
    /\ Download(w)
    /\ timeouts < MaxTimeouts
    /\ timeouts' = timeouts + 1
    /\ \/ /\ job[w].lastTry
          /\ job' = [job EXCEPT ![w].failed = TRUE]
          /\ Goto(w, "remove")
          /\ UNCHANGED <<ipfs, freed, busy>>
       \/ /\ ~job[w].lastTry
          /\ ipfs' = PausedJobs(w)
          /\ freed' = freed \cup FreedWith(w, Together(job[w].index, job[w].sync))
          /\ IF PausedAlone(w)
               THEN Drop(w)
               ELSE Goto(w, "pause") /\ job' = [job EXCEPT ![w].pause = RetryDelay]
          /\ UNCHANGED busy
       \/ ~job[w].lastTry /\ Busy /\ Drop(w) /\ UNCHANGED <<ipfs, freed>>
    /\ UNCHANGED <<nextIndex, currentlyPaused, adding, answers, late, throws, restarts>>

NotePause(w) ==
    /\ pc[w] = "pause"
    /\ currentlyPaused' = currentlyPaused \cup {[sync |-> job[w].sync, left |-> job[w].pause]}
    /\ Drop(w)
    /\ UNCHANGED <<ipfs, nextIndex, adding, answers, history, budget>>

\* Any other failure of a download (no connection, an HTTP error) leaves mainFunction() with
\* the job locked.
WorkThrows(w) ==
    /\ pc[w] = "work"
    /\ Download(w)
    /\ throws < MaxThrows
    /\ throws' = throws + 1
    /\ Drop(w)
    /\ UNCHANGED <<queue, answers, history, timeouts, busy, restarts>>

-----------------------------------------------------------------------------
(* removeIPFSJob(), under _mutexRemoveIPFSJob, and the callback *)

\* A statement that finds the database busy throws: what follows it does not happen.
RemoveFails(w) == Busy /\ Drop(w) /\ UNCHANGED ipfs

RemovedSync(w) == [j \in {k \in DOMAIN ipfs : ipfs[k].sync # job[w].sync} |-> ipfs[j]]
RemovedJob(w) == [j \in DOMAIN ipfs \ {job[w].index} |-> ipfs[j]]

RemoveRow(w) ==
    /\ pc[w] = "remove"
    /\ \A v \in Worker : pc[v] # "unlock"
    /\ \/ ipfs' = RemovedJob(w) /\ Goto(w, "unlock") /\ UNCHANGED <<job, busy>>
       \/ RemoveFails(w)
    /\ UNCHANGED <<nextIndex, currentlyPaused, adding, answers, history, timeouts, throws, restarts>>

\* Every row with the sync value is unlocked, whoever locked it.
UnlockNothing(w) == ipfs
UnlockedSync(w) == Update(LAMBDA j : ipfs[j].sync = job[w].sync, LAMBDA row : SetLock(row, FALSE))

RemoveUnlock(w) ==
    /\ pc[w] = "unlock"
    /\ \/ /\ ipfs' = UnlockedSync(w)
          /\ freed' = freed \cup FreedWith(w, {j \in DOMAIN ipfs : ipfs[j].sync = job[w].sync})
          /\ Goto(w, "call")
          /\ UNCHANGED <<job, busy>>
       \/ RemoveFails(w) /\ UNCHANGED freed
    /\ UNCHANGED <<nextIndex, currentlyPaused, adding, answers, late, timeouts, throws, restarts>>

\* A promise is kept once: setting it again, like calling an empty function, throws.
CallBack(w) ==
    /\ pc[w] = "call"
    /\ called' = IF job[w].callback = "null" THEN called ELSE called \cup {job[w].index}
    /\ promise' = IF job[w].callback = "promise" /\ promise[job[w].index] = "pending"
                    THEN [promise EXCEPT ![job[w].index] =
                             IF job[w].failed THEN "timeout" ELSE "content"]
                    ELSE promise
    /\ Drop(w)
    /\ UNCHANGED <<queue, callbacks, registering, history, budget>>

-----------------------------------------------------------------------------
Init ==
    /\ ipfs = [j \in 1..Len(Backlog) |->
                 [sync |-> Backlog[j].sync, callback |-> Backlog[j].callback, lock |-> FALSE,
                  pause |-> None, maxTime |-> Backlog[j].maxTime]]
    /\ nextIndex = Len(Backlog) + 1
    /\ currentlyPaused = {} /\ adding = {}
    /\ callbacks = {} /\ registering = {}
    /\ promise = [j \in JobIndex |-> "none"]
    /\ called = {}
    /\ pc = [w \in Worker |-> "idle"]
    /\ job = [w \in Worker |-> NoWork]
    /\ late = {} /\ freed = {}
    /\ timeouts = 0 /\ throws = 0 /\ busy = 0 /\ restarts = 0

MainFunction(w) ==
    \/ GetClear(w) \/ GetSelect(w) \/ GetLock(w)
    \/ WorkDone(w) \/ WorkTimeout(w) \/ NotePause(w) \/ WorkThrows(w)
    \/ RemoveRow(w) \/ RemoveUnlock(w) \/ CallBack(w)

Next ==
    \/ AddJob \/ InsertJob \/ RegisterCallback \/ Tick \/ Restart
    \/ \E w \in Worker : MainFunction(w)

Spec == Init /\ [][Next]_vars

\* Threaded runs mainFunction() for ever, addIPFSJob() and addIPFSJobPromise() run to their
\* end, and time passes.  The daemon answers all but MaxTimeouts requests.
FairSpec ==
    /\ Spec
    /\ \A w \in Worker : WF_vars(MainFunction(w))
    /\ WF_vars(InsertJob)
    /\ WF_vars(RegisterCallback)
    /\ WF_vars(Tick)

-----------------------------------------------------------------------------
(* Properties *)

\* The type invariant.
TypeOK ==
    /\ DOMAIN ipfs \subseteq JobIndex /\ \A j \in DOMAIN ipfs : ipfs[j] \in Row
    /\ nextIndex \in 1..(MaxJobs + 1)
    /\ adding \subseteq Row
    /\ currentlyPaused \subseteq [sync : Sync \ Unordered, left : 0..RetryDelay]
    /\ callbacks \subseteq JobIndex /\ registering \subseteq JobIndex
    /\ promise \in [JobIndex -> {"none", "pending", "content", "timeout"}]
    /\ called \subseteq JobIndex
    /\ pc \in [Worker -> WorkerPc]
    /\ job \in [Worker -> Work]
    /\ late \subseteq JobIndex /\ freed \subseteq JobIndex
    /\ {timeouts, throws, busy, restarts} \subseteq Nat

\* No job is handed to two workers at once (getNextIPFSJob locks what it hands out), unless the
\* end or the pause of another job of its sync value took its lock away (removeIPFSJob,
\* pauseIPFSSync).
Exclusive ==
    \A v, w \in Worker :
        v # w /\ Working(v) /\ Working(w) /\ job[v].index = job[w].index
            => job[w].index \in freed

\* Jobs with an ordered sync value are done in the order of their jobIndex: none is worked on
\* while an older one is still in the table (getNextIPFSJob locks the whole sync value), unless
\* it was inserted while those of its sync value were locked or paused (addIPFSJob).
InOrder ==
    \A w \in Worker, j \in DOMAIN ipfs :
        Working(w) /\ job[w].sync \notin Unordered /\ ipfs[j].sync = job[w].sync
            => job[w].index <= j \/ job[w].index \in late

\* A named callback is not lost: while the program runs and the database answers, a job leaves
\* the table only to have its callback run, failing downloads included (mainFunction).
CallbackRuns ==
    restarts = 0 /\ busy = 0 => \A j \in 1..(nextIndex - 1) :
        \/ j \in DOMAIN ipfs \cup called
        \/ promise[j] # "none"
        \/ \E w \in Worker : job[w].index = j

\* Every job of the backlog is done in the end, timeouts, promises that come in between and a
\* kill notwithstanding: no lock and no pause is left behind.  A download that fails in another
\* way, or a busy database, does leave one.
Drained == <>[](throws + busy > 0 \/ DOMAIN ipfs \cap 1..Len(Backlog) = {})

\* A caller that waits on a future gets an answer.
PromiseAnswered == \A j \in JobIndex : promise[j] = "pending" ~> promise[j] # "pending"

(* Statements of the source's comments that the code does not keep; see the README. *)

\* No job is handed to two workers at once, whatever the workers finish or pause meanwhile.
AlwaysExclusive ==
    \A v, w \in Worker : v # w /\ Working(v) /\ Working(w) => job[v].index # job[w].index

\* Jobs with an ordered sync value are done in order, whenever they are added.
AlwaysInOrder ==
    \A w \in Worker, j \in DOMAIN ipfs :
        Working(w) /\ job[w].sync \notin Unordered /\ ipfs[j].sync = job[w].sync
            => job[w].index <= j

\* A pause that is over ends: the rows it was for are lifted out of it, or are gone.
Overdue(j) == j \in DOMAIN ipfs /\ ipfs[j].pause = 0
PauseEnds == \A j \in JobIndex : Overdue(j) ~> ~Overdue(j)

\* A job whose deadline has passed is not put back to be tried again later.
NoRetryAfterDeadline ==
    [][\A j \in DOMAIN ipfs \cap DOMAIN ipfs' :
          ipfs[j].maxTime = 0 => ipfs'[j].pause <= ipfs[j].pause]_vars
=============================================================================
