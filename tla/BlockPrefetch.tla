---------------------------- MODULE BlockPrefetch ----------------------------
(***************************************************************************)
(* Pipelined sync (pipelinesync=1): a producer thread fetches the blocks   *)
(* ahead of the analyzer into a bounded queue (prefetchLoop, startPrefetch,*)
(* stopPrefetch and getNextPrefetchedBlock of DigiByteCore), and the loop  *)
(* of ChainAnalyzer::phaseSync() takes them from it while it is far behind *)
(* the tip.  Mutex, queue and the two condition variables are those of the *)
(* code: a thread that finds its condition false sleeps until it is        *)
(* notified.  How phaseSync() processes a block, and the calls a rewind is *)
(* made of, are the subject of ChainAnalyzer and one step each here.       *)
(*                                                                         *)
(* A block is the sequence of branch labels from block 1 to it.  A         *)
(* definition whose comment says "Mutant" is a mutant of the one after it. *)
(***************************************************************************)
EXTENDS Integers, Sequences

CONSTANTS
    Branch, Trunk,  \* branch labels, and that of the blocks at the start
    StartHeight,    \* Core's height at the start
    MaxHeight,      \* bound on Core's height
    MaxDepth,       \* _pfMaxDepth: 4
    BulkGap,        \* 110: further behind than this is bulk sync
    CheckEvery,     \* 100: serial bulk sync asks Core for the hash every so many blocks
    MaxReorgDepth, MaxReorgs, MaxFaults     \* bounds on the environment

ASSUME PrefetchConstants ==
    /\ Trunk \in Branch /\ StartHeight \in 1 .. MaxHeight
    /\ {MaxDepth, CheckEvery} \subseteq Nat \ {0}
    /\ {MaxHeight, BulkGap, MaxReorgDepth, MaxReorgs, MaxFaults} \subseteq Nat

VARIABLES
    tip, reorgs, deepest,       \* Core's active chain; the reorganisations so far
    queue, pfStop, producer,    \* _pfQueue, _pfStop, the producer thread
    pc, after,                  \* the analyzer: its next step, and the one after stopPrefetch()
    block, nextHash, bulkSync, active,  \* its blockData, _nextHash, bulkSync, pipelineActive
    failed,                     \* startupFunction() is due, or _lastPassFailed
    headers, rows,              \* chain.db: the header and the processed block of each height
    masked,                     \* history: a pass began at a block the rows do not lead to
    stopRequest, faults

core     == <<tip, reorgs, deepest>>
pipe     == <<queue, pfStop, producer>>
thread   == <<pc, after, block, nextHash, bulkSync, active, failed>>
database == <<headers, rows, masked>>
analyzer == <<thread, database>>
vars     == <<core, pipe, analyzer, stopRequest, faults>>

CoreHash(h) == SubSeq(tip, 1, h)

NoHash  == <<>>
NoBlock == [hash |-> NoHash, next |-> NoHash, confirmations |-> 0]
Gone    == [pc |-> "none", hash |-> NoHash, item |-> NoBlock]
Failure == [NoBlock EXCEPT !.confirmations = -2]    \* a PrefetchedBlock with its error set
EndOfChain == NoBlock                               \* one with endOfChain set

Init ==
    /\ tip = [h \in 1 .. StartHeight |-> Trunk] /\ reorgs = 0 /\ deepest = 0
    /\ queue = <<>> /\ pfStop = FALSE /\ producer = Gone
    /\ pc = "off" /\ after = "off"
    /\ block = NoBlock /\ nextHash = NoHash /\ bulkSync = FALSE /\ active = FALSE
    /\ failed = TRUE /\ headers = <<CoreHash(1)>> /\ rows = <<>> /\ masked = FALSE
    /\ stopRequest = FALSE /\ faults = 0

-----------------------------------------------------------------------------
(* DigiByte Core.                                                           *)

InChain(b) == Len(b) <= Len(tip) /\ CoreHash(Len(b)) = b

\* An orphan is known, with -1 confirmations and no nextblockhash.
GetBlock(b) ==
    [hash |-> b,
     next |-> IF InChain(b) /\ Len(b) < Len(tip) THEN CoreHash(Len(b) + 1) ELSE NoHash,
     confirmations |-> IF InChain(b) THEN Len(tip) - Len(b) + 1 ELSE -1]

CoreExtend ==
    /\ Len(tip) < MaxHeight /\ tip' = Append(tip, tip[Len(tip)])
    /\ UNCHANGED <<reorgs, deepest, pipe, analyzer, stopRequest, faults>>

\* The last d blocks lose to a longer branch.
CoreReorg ==
    /\ reorgs < MaxReorgs /\ reorgs' = reorgs + 1
    /\ \E d \in 1 .. MaxReorgDepth, label \in Branch :
        /\ d < Len(tip) /\ Len(tip) < MaxHeight /\ label # tip[Len(tip) - d + 1]
        /\ tip' = [h \in 1 .. Len(tip) + 1 |-> IF h <= Len(tip) - d THEN tip[h] ELSE label]
        /\ deepest' = IF d > deepest THEN d ELSE deepest
    /\ UNCHANGED <<pipe, analyzer, stopRequest, faults>>

-----------------------------------------------------------------------------
(* The producer: prefetchLoop().                                            *)

\* Mutant: the producer waits for space only.
SpaceOnly == Len(queue) < MaxDepth

\* Mutant: one block too many.
SpaceOffByOne == pfStop \/ Len(queue) <= MaxDepth

\* What the producer waits for.
SpaceOrStop == pfStop \/ Len(queue) < MaxDepth

\* At the top of the loop, under the mutex.
WaitForSpace ==
    /\ producer.pc = "check"
    /\ producer' = [producer EXCEPT !.pc = IF ~SpaceOrStop THEN "asleep"
                                           ELSE IF pfStop THEN "returned" ELSE "fetch"]
    /\ UNCHANGED <<core, queue, pfStop, analyzer, stopRequest, faults>>

\* The block is fetched and the next hash taken from it, or there is none, ...
FetchAhead ==
    /\ producer.pc = "fetch"
    /\ LET got == IF producer.hash = NoHash THEN EndOfChain ELSE GetBlock(producer.hash)
       IN  producer' = [pc |-> "push", hash |-> got.next, item |-> got]
    /\ UNCHANGED <<core, queue, pfStop, analyzer, stopRequest, faults>>

\* ... or the call fails.
FetchFails ==
    /\ producer.pc = "fetch" /\ producer.hash # NoHash
    /\ faults < MaxFaults /\ faults' = faults + 1
    /\ producer' = [producer EXCEPT !.pc = "push", !.item = Failure]
    /\ UNCHANGED <<core, queue, pfStop, analyzer, stopRequest>>

Terminal(item) == item \in {EndOfChain, Failure}

\* Mutant: a failed fetch ends the thread without a word.
PushBlocksOnly ==
    /\ producer.pc = "push"
    /\ queue' = IF producer.item = Failure THEN queue ELSE Append(queue, producer.item)
    /\ producer' = [producer EXCEPT !.pc = IF Terminal(producer.item) THEN "returned" ELSE "check"]
    /\ pc' = IF pc = "asleep" /\ queue' # <<>> THEN "take" ELSE pc
    /\ UNCHANGED <<core, pfStop, after, block, nextHash, bulkSync, active, failed, database,
                   stopRequest, faults>>

\* The item is queued whatever it is, and the consumer notified.
Push ==
    /\ producer.pc = "push"
    /\ queue' = Append(queue, producer.item)
    /\ producer' = [producer EXCEPT !.pc = IF Terminal(producer.item) THEN "returned" ELSE "check"]
    /\ pc' = IF pc = "asleep" THEN "take" ELSE pc
    /\ UNCHANGED <<core, pfStop, after, block, nextHash, bulkSync, active, failed, database,
                   stopRequest, faults>>

Notified(p) == IF p.pc = "asleep" THEN [p EXCEPT !.pc = "check"] ELSE p

\* A condition variable may wake its thread for no reason.
SpuriousWakeup ==
    /\ \/ producer.pc = "asleep" /\ producer' = Notified(producer) /\ UNCHANGED pc
       \/ pc = "asleep" /\ pc' = "take" /\ UNCHANGED producer
    /\ UNCHANGED <<core, queue, pfStop, after, block, nextHash, bulkSync, active, failed, database,
                   stopRequest, faults>>

-----------------------------------------------------------------------------
(* The analyzer: the loop of phaseSync().                                   *)

\* A call of stopPrefetch(), and where the caller goes on.
StopThen(step) == pc' = "stop" /\ after' = step

\* Mutant: pipelineActive outlives the pass.
LeaveStillActive == pc' = "off" /\ UNCHANGED <<after, active>>

\* The locals of phaseSync() are gone, the producer is not.
LeaveBehind == pc' = "off" /\ active' = FALSE /\ UNCHANGED after

\* The block that a row or a header continues, and the newest one processed.
Parent(b) == SubSeq(b, 1, Len(b) - 1)
index == IF rows = <<>> THEN NoHash ELSE rows[Len(rows)]

\* clearBlocksAboveHeight(): rows at and above h go, headers above h.  The pass goes on from
\* the block Core has at h, whether the rows that are left lead to it or not.
StartFrom(h) ==
    /\ headers' = SubSeq(headers, 1, h) /\ rows' = SubSeq(rows, 1, h - 1)
    /\ nextHash' = CoreHash(h)
    /\ masked' = (masked \/ index' # Parent(CoreHash(h)))

\* mainFunction(): after an error, as after a restart, from the newest header stored.
MainEnter ==
    /\ pc = "off" /\ ~stopRequest /\ pc' = "rewind" /\ failed' = FALSE
    /\ IF failed THEN StartFrom(Len(headers)) ELSE UNCHANGED <<nextHash, database>>
    /\ UNCHANGED <<core, pipe, after, block, bulkSync, active, stopRequest, faults>>

\* Mutant: the hash at the height left off is not compared with Core's.
NeverForked == FALSE

\* Is the block Core has at this height the one we expect?
Forked == CoreHash(Len(nextHash)) # nextHash

\* phaseRewind(): on a fork, back to the newest header below that Core still has.
\* phaseSync() then fetches the block.
Resume ==
    /\ pc = "rewind" /\ pc' = "loop"
    /\ IF Forked
         THEN \E h \in 1 .. Len(nextHash) - 1 :
                /\ headers[h] = CoreHash(h)
                /\ \A k \in h + 1 .. Len(nextHash) - 1 : headers[k] # CoreHash(k)
                /\ StartFrom(h)
         ELSE UNCHANGED <<nextHash, database>>
    /\ block' = GetBlock(CoreHash(Len(nextHash')))
    /\ UNCHANGED <<core, pipe, after, bulkSync, active, failed, stopRequest, faults>>

\* Mutant: the loop goes on with whatever block it was given.
AnyHash == TRUE

\* The condition of the loop.
HashExpected == block.hash = nextHash

\* Mutant: bulk sync up to the last block.
BulkToTheTip(b) == b.confirmations > 0

\* More than BulkGap behind when the block was fetched.
Bulk(b) == b.confirmations > BulkGap

\* A round: the block is processed, again if a reorganisation came and went.
Process ==
    /\ pc = "loop" /\ HashExpected /\ ~stopRequest
    /\ rows' = Append(SubSeq(rows, 1, Len(block.hash) - 1), block.hash)
    /\ bulkSync' = Bulk(block) /\ pc' = "tip"
    /\ UNCHANGED <<core, pipe, after, block, nextHash, active, failed, headers, masked,
                   stopRequest, faults>>

\* The loop ends, and the producer with it.
LoopExit ==
    /\ pc = "loop" /\ (~HashExpected \/ stopRequest)
    /\ IF active THEN StopThen("off") ELSE pc' = "off" /\ UNCHANGED after
    /\ UNCHANGED <<core, pipe, block, nextHash, bulkSync, active, failed, database, stopRequest,
                   faults>>

\* The block is still the one Core has at its height.
StillCurrent == CoreHash(Len(block.hash)) = block.hash

\* No next block: wait for one, unless the block was orphaned or a stop is asked for.
TipPoll ==
    /\ pc = "tip" /\ block.next = NoHash
    /\ \/ stopRequest /\ LeaveBehind /\ UNCHANGED block
       \/ ~stopRequest /\ StillCurrent /\ block' = GetBlock(block.hash)
          /\ UNCHANGED <<pc, after, active>>
       \/ ~stopRequest /\ ~StillCurrent /\ UNCHANGED <<block, active>>
          /\ IF active THEN StopThen("off") ELSE pc' = "off" /\ UNCHANGED after
    /\ UNCHANGED <<core, pipe, nextHash, bulkSync, failed, database, stopRequest, faults>>

\* The next block comes from the pipeline during bulk sync, otherwise from Core.
Advance ==
    /\ pc = "tip" /\ block.next # NoHash
    /\ nextHash' = block.next
    /\ IF bulkSync = active THEN pc' = (IF active THEN "take" ELSE "serial") /\ UNCHANGED after
       ELSE StopThen(IF bulkSync THEN "spawn" ELSE "serial")
    /\ UNCHANGED <<core, pipe, block, bulkSync, active, failed, database, stopRequest, faults>>

\* The header of the next block is stored when the block is fetched.
Store(item) == headers' = Append(headers, item.hash)

\* What phaseSync() does with what it took.  A Failure is thrown on.
Use(item) ==
    CASE item = Failure    -> StopThen("off") /\ failed' = TRUE /\ UNCHANGED <<block, headers>>
      [] item = EndOfChain -> StopThen("expected") /\ UNCHANGED <<block, headers, failed>>
      [] Len(item.hash) # Len(nextHash) /\ ~Terminal(item) ->
            StopThen("height") /\ UNCHANGED <<block, headers, failed>>
      [] OTHER -> block' = item /\ Store(item) /\ pc' = "loop" /\ UNCHANGED <<after, failed>>

\* getNextPrefetchedBlock(): sleep, give up, or take the oldest and notify the producer.
Take ==
    /\ pc = "take"
    /\ IF queue = <<>>
       THEN /\ IF pfStop THEN StopThen("off") ELSE pc' = "asleep" /\ UNCHANGED after
            /\ UNCHANGED <<queue, producer, block, headers, failed>>
       ELSE Use(Head(queue)) /\ queue' = Tail(queue) /\ producer' = Notified(producer)
    /\ UNCHANGED <<core, pfStop, nextHash, bulkSync, active, rows, masked, stopRequest, faults>>

\* The block comes from Core, by the expected hash or by its height.
FetchSerial ==
    /\ pc \in {"serial", "expected", "height"}
    /\ LET h == Len(nextHash)
           expected == pc = "expected" \/ (pc = "serial" /\ bulkSync /\ h % CheckEvery # 0)
       IN  block' = GetBlock(IF expected THEN nextHash ELSE CoreHash(h))
    /\ Store(block') /\ pc' = "loop"
    /\ UNCHANGED <<core, pipe, after, nextHash, bulkSync, active, failed, rows, masked,
                   stopRequest, faults>>

-----------------------------------------------------------------------------
(* stopPrefetch() and startPrefetch().                                      *)

SignalStop ==
    /\ pc = "stop"
    /\ pfStop' = TRUE /\ producer' = Notified(producer) /\ pc' = "join"
    /\ UNCHANGED <<core, queue, after, block, nextHash, bulkSync, active, failed, database,
                   stopRequest, faults>>

Join ==
    /\ pc = "join" /\ producer.pc \in {"none", "returned"}
    /\ producer' = Gone /\ queue' = <<>> /\ pfStop' = FALSE /\ active' = FALSE
    /\ pc' = after
    /\ UNCHANGED <<core, after, block, nextHash, bulkSync, failed, database, stopRequest, faults>>

\* The rest of startPrefetch(), once stopPrefetch() has returned.
Spawn ==
    /\ pc = "spawn"
    /\ producer' = [Gone EXCEPT !.pc = "check", !.hash = nextHash]
    /\ queue' = <<>> /\ pfStop' = FALSE /\ active' = TRUE /\ pc' = "take"
    /\ UNCHANGED <<core, after, block, nextHash, bulkSync, failed, database, stopRequest, faults>>

\* A call of the analyzer throws: mainFunction() starts over.
Throw ==
    /\ pc \in {"off", "rewind", "loop", "tip", "serial", "expected", "height"}
    /\ faults < MaxFaults /\ faults' = faults + 1
    /\ LeaveBehind /\ failed' = TRUE
    /\ UNCHANGED <<core, pipe, block, nextHash, bulkSync, database, stopRequest>>

\* stop() of the analyzer, and the destructor of DigiByteCore once it has returned.
RequestStop ==
    /\ ~stopRequest /\ stopRequest' = TRUE
    /\ UNCHANGED <<core, pipe, analyzer, faults>>
Destroy ==
    /\ pc = "off" /\ stopRequest /\ StopThen("gone")
    /\ UNCHANGED <<core, pipe, block, nextHash, bulkSync, active, failed, database, stopRequest,
                   faults>>

Producer == WaitForSpace \/ FetchAhead \/ Push
Analyzer ==
    \/ MainEnter \/ Resume \/ Process \/ LoopExit \/ TipPoll \/ Advance \/ Take \/ FetchSerial
    \/ SignalStop \/ Join \/ Spawn \/ Destroy
Environment == CoreExtend \/ CoreReorg \/ FetchFails \/ Throw \/ SpuriousWakeup \/ RequestStop

Next == Producer \/ Analyzer \/ Environment
Spec == Init /\ [][Next]_vars

\* Both threads keep running, and a call to Core returns.
FairSpec == Spec /\ WF_vars(Producer) /\ WF_vars(Analyzer)

-----------------------------------------------------------------------------
(* Properties.                                                              *)

Item == [hash : Seq(Branch), next : Seq(Branch), confirmations : Int]

\* Shapes, and the bound on the read-ahead.
TypeOK ==
    /\ tip \in Seq(Branch) /\ queue \in Seq(Item) /\ Len(queue) <= MaxDepth
    /\ producer.pc \in {"none", "check", "asleep", "fetch", "push", "returned"}
    /\ producer.hash \in Seq(Branch) /\ producer.item \in Item
    /\ pc \in {"off", "rewind", "loop", "tip", "take", "asleep", "serial", "expected", "height",
               "stop", "join", "spawn", "gone"}
    /\ block \in Item /\ nextHash \in Seq(Branch)
    /\ headers \in Seq(Seq(Branch)) /\ rows \in Seq(Seq(Branch))
    /\ {bulkSync, active, failed, masked, stopRequest, pfStop} \subseteq BOOLEAN

\* What the analyzer takes is the block it expects, whatever producers earlier
\* passes left running and however Core's chain moved under the producer.
Lockstep ==
    pc = "take" /\ queue # <<>> /\ ~Terminal(Head(queue)) => Head(queue).hash = nextHash

\* As long as no reorganisation is as deep as BulkGap, a block taken from the
\* pipeline is on Core's chain although nobody asks Core (phaseSync's "a reorg
\* can't reach the sync frontier").
FrontierSafe == deepest < BulkGap /\ active /\ pc = "loop" => InChain(block.hash)

Index == INSTANCE ChainIndex

\* The pipelined analyzer indexes one chain, extended by a child or cut at the
\* newest end, reorganisations deeper than the queue included - until a pass
\* begins at a block that the rows do not lead to, as mainFunction() lets it
\* when Core's chain moved around an error.
ImplementsChainIndex == Index!Init /\ [][masked' \/ Index!Next]_index

\* Whoever waits for a block gets an answer: a block, the end or the error
\* ("so an RPC failure surfaces instead of hanging", DigiByteCore.h).
EveryTakeReturns == pc \in {"take", "asleep"} ~> pc \notin {"take", "asleep"}

\* A stop ends both threads, wherever they are.
ShutdownJoins == stopRequest ~> (pc = "gone" /\ producer = Gone)

\* Unless it is stopped, or has masked a fork, the analyzer ends with the rows of
\* Core's chain, all of them and no others, orphaned blocks in the queue or not.
Indexed == rows = [h \in 1 .. Len(tip) |-> CoreHash(h)]
EventuallyIndexed == <>[](stopRequest \/ masked \/ Indexed)
=============================================================================
