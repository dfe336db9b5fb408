--------------------------- MODULE ChainAnalyzer ---------------------------
(***************************************************************************)
(* The chain analyzer thread (src/ChainAnalyzer.cpp): it follows DigiByte  *)
(* Core's active chain block by block, indexes every block into chain.db,  *)
(* rolls back on a fork, prunes, and recovers from errors and restarts.    *)
(*                                                                         *)
(* Core is the environment: it extends and reorganises its chain at any    *)
(* moment between two RPC calls of the analyzer, so every RPC answer can   *)
(* be stale when it is used.  "db" is what the analyzer's connection sees, *)
(* "disk" what is committed; they differ only inside a transaction.        *)
(*                                                                         *)
(* An operator that no action uses and that stands just before another one *)
(* is a mutant of it: the same piece of code with a plausible bug, which   *)
(* the properties have to notice.                                          *)
(***************************************************************************)
EXTENDS ChainDatabase, FiniteSetsExt

CONSTANTS
    Trunk,          \* the branch label of block 1
    AssetHeight,    \* 8432316: blocks below it carry no assets
    StoreNonAsset,  \* storenonassetutxo: process blocks below AssetHeight too
    BatchSize,      \* 100: headers per transaction in the pre-asset era
    BulkGap,        \* 110: further behind than this is bulk sync
    CheckEvery,     \* 100: bulk sync asks Core for the hash every so many blocks
    PruneAge,       \* pruneage, -1 for none
    PruneInterval,  \* how often to prune
    PruneTables,    \* which of pruneexchangehistory, pruneutxohistory, prunevotehistory are set
    RateLeniency,   \* EXCHANGE_RATE_LENIENCY
    TrackChoices,   \* the values of trackdigidollar the operator may start a node with
    SilentHeights,  \* heights whose miner published no oracle commitment
    ShorterReorgs,  \* may the branch with more work have fewer blocks?
    MaxReorgDepth,  \* bounds on the environment
    MaxReorgs,
    MaxFaults,
    MaxClearFails,
    MaxStops

ASSUME AnalyzerAssumption ==
    /\ Trunk \in Branch
    /\ AssetHeight \in Nat \ {0}
    /\ BatchSize \in Nat \ {0}
    /\ BulkGap \in Nat
    /\ CheckEvery \in Nat \ {0}
    /\ PruneAge \in Nat \cup {-1}
    /\ PruneInterval \in Nat \ {0}
    /\ PruneTables \subseteq PruneTable
    /\ RateLeniency \in Nat
    /\ TrackChoices \subseteq BOOLEAN
    /\ StoreNonAsset \in BOOLEAN
    /\ ShorterReorgs \in BOOLEAN
    /\ {MaxReorgDepth, MaxReorgs, MaxFaults, MaxClearFails, MaxStops} \subseteq Nat

VARIABLES
    tip,                                \* Core's active chain
    db, disk, transactionDepth,         \* chain.db as the analyzer sees it, as committed
    flagState,                          \* Database::_flagState, the RAM copy of the flags
    pc,                                 \* the next step of the thread
    state, height, nextHash, lastPassFailed, lastOracleEpoch,
    track, stopRequest,
    hash, next, confirmations, bulkSync, insertBatch,   \* locals of phaseSync()
    pruneStep, kept,                    \* in phasePrune(): next statement, summary read
    reorgs, faults, clearFails, stops,  \* how much of each bound is used up
    missed      \* history: the epochs whose price a later pass over their blocks leaves out

chain   == <<tip, reorgs>>
core    == <<chain, missed>>
store   == <<db, disk, transactionDepth>>
place   == <<height, nextHash>>
memory  == <<lastPassFailed, lastOracleEpoch>>
control == <<track, stopRequest>>
block   == <<hash, next, confirmations>>
round   == <<bulkSync, insertBatch>>
pruning == <<pruneStep, kept>>
budget  == <<faults, clearFails, stops>>
vars    == <<core, store, flagState, pc, state, place, memory, control, block, round,
             pruning, budget>>

Block1 == <<Trunk>>

\* shouldStoreNonAssetUTXO() || (_height >= 8432316)
NeedsAssetProcessing(h) == StoreNonAsset \/ h >= AssetHeight

StartupPc == {"startup", "repair", "backfill", "mark"}
RewindPc  == {"fork", "rewind"}
SyncPc    == {"open", "openBlock", "loop", "oracle", "process", "commit", "processed",
              "prune", "tip", "poll", "refresh", "fetch", "insert"}
Pc        == {"off", "main"} \cup StartupPc \cup RewindPc \cup SyncPc
State     == {"STOPPED", "INITIALIZING", "REWINDING", "SYNCED", "BEHIND"}

-----------------------------------------------------------------------------
(* DigiByte Core, as the RPC calls of the analyzer see it. *)

\* getblockhash.  Callers guard h <= Len(tip): beyond it the RPC fails.
CoreHash(h) == SubSeq(tip, 1, h)

InChain(b) == Len(b) <= Len(tip) /\ CoreHash(Len(b)) = b

\* getblock: nextblockhash is empty for the tip and for a block off the active chain
CoreNext(b) == IF InChain(b) /\ Len(b) < Len(tip) THEN CoreHash(Len(b) + 1) ELSE NoHash

\* getblock: confirmations is -1 for a block off the active chain
Confirmations(b) == IF InChain(b) THEN Len(tip) - Len(b) + 1 ELSE -1

\* A new block on top of the active chain.
CoreExtend ==
    /\ Len(tip) < MaxHeight
    /\ tip' = Append(tip, tip[Len(tip)])
    /\ UNCHANGED <<reorgs, missed, store, flagState, pc, state, place, memory, control, block, round,
                   pruning, budget>>

\* The last d blocks lose to another branch of n blocks.
CoreReorg ==
    /\ reorgs < MaxReorgs
    /\ reorgs' = reorgs + 1
    /\ \E d \in 1..MaxReorgDepth, n \in Heights, l \in Branch :
         LET fork == Len(tip) - d
         IN  /\ fork >= 1
             /\ fork + n <= MaxHeight
             /\ n > d \/ ShorterReorgs
             /\ l # tip[fork + 1]
             /\ tip' = [i \in 1..(fork + n) |-> IF i <= fork THEN tip[i] ELSE l]
    /\ UNCHANGED <<missed, store, flagState, pc, state, place, memory, control, block, round,
                   pruning, budget>>

-----------------------------------------------------------------------------
(* Writing to the database: outside a transaction a write commits at once. *)

Write(t) == db' = t /\ disk' = IF transactionDepth = 0 THEN t ELSE disk

\* clearBlocksAboveHeight() does not throw: when a statement fails it rolls back and logs.
\* (A failure inside a transaction that was already open, and a COMMIT that fails and leaves
\* its transaction open, are not modelled.)
ClearBlocksAboveHeight(h) ==
    \/ /\ Write(ClearAbove(db, h))
       /\ UNCHANGED clearFails
    \/ /\ clearFails < MaxClearFails
       /\ transactionDepth = 0
       /\ clearFails' = clearFails + 1
       /\ UNCHANGED <<db, disk>>

\* endTransaction(): only the outermost one commits, an unmatched one does nothing.
EndTransactionKeepsOpen ==
    /\ transactionDepth' = IF transactionDepth = 0 THEN 0 ELSE transactionDepth - 1
    /\ UNCHANGED disk
EndTransaction ==
    /\ transactionDepth' = IF transactionDepth = 0 THEN 0 ELSE transactionDepth - 1
    /\ disk' = IF transactionDepth = 1 THEN db ELSE disk

\* abortTransaction(): roll back whatever is open.
AbortSkipped == UNCHANGED <<db, transactionDepth>>
AbortTransaction == db' = disk /\ transactionDepth' = 0

SetFlagInt(f, v) ==
    /\ Write(SetFlag(db, flagState, f, v))
    /\ flagState' = CacheFlag(flagState, f, v)

\* The thread goes back to "height" and keeps _lastOracleEpoch: for captureOracleCommitment()
\* the epochs up to it have their price, those just cleared too.
Revisit ==
    missed' = missed \cup {e \in Epochs : /\ Epoch(height') <= e /\ e <= lastOracleEpoch
                                          /\ ~HasPrice(db', e)}

\* The locals of phaseSync() and phasePrune() are gone.
DropLocals ==
    /\ hash' = NoHash /\ next' = NoHash /\ confirmations' = 0
    /\ bulkSync' = FALSE /\ insertBatch' = 0
    /\ pruneStep' = 0 /\ kept' = {}

\* The catch blocks of mainFunction(): roll back and remember that the pass failed.
Catch ==
    /\ AbortTransaction
    /\ lastPassFailed' = TRUE
    /\ pc' = "main"
    /\ DropLocals
    /\ UNCHANGED <<core, disk, flagState, state, place, lastOracleEpoch, control, clearFails,
                   stops>>

-----------------------------------------------------------------------------
(* The life of the process. *)

\* main() loads the configuration and starts the thread.  Loading trackdigidollar=0 clears
\* the DigiDollar marker (setTrackDigiDollar).
ProcessStart ==
    /\ pc = "off"
    /\ pc' = "startup"
    /\ state' = "INITIALIZING"
    /\ \E t \in TrackChoices :
         /\ track' = t
         /\ IF t THEN UNCHANGED <<db, disk, flagState>> ELSE SetFlagInt("ddSyncHeight", 0)
    /\ UNCHANGED <<core, transactionDepth, place, memory, stopRequest, block, round, pruning,
                   budget>>

\* The process is gone: SQLite rolls an open transaction back, everything in RAM is lost.
ProcessEnd ==
    /\ pc' = "off"
    /\ state' = "STOPPED"
    /\ db' = disk
    /\ transactionDepth' = 0
    /\ flagState' = [f \in FlagName |-> NotCached]
    /\ height' = 1 /\ nextHash' = NoHash
    /\ lastPassFailed' = FALSE /\ lastOracleEpoch' = 0
    /\ stopRequest' = FALSE
    /\ DropLocals
    /\ UNCHANGED <<core, disk, track, faults, clearFails>>

\* The process is killed between any two steps.
Crash ==
    /\ pc # "off"
    /\ stops < MaxStops
    /\ stops' = stops + 1
    /\ ProcessEnd

\* stop() is called by another thread.
RequestStop ==
    /\ pc # "off"
    /\ ~stopRequest
    /\ stops < MaxStops
    /\ stops' = stops + 1
    /\ stopRequest' = TRUE
    /\ UNCHANGED <<core, store, flagState, pc, state, place, memory, track, block, round,
                   pruning, faults, clearFails>>

\* Threaded's loop sees the stop request before it would run mainFunction() again.
Shutdown ==
    /\ pc \in {"startup", "main"}
    /\ stopRequest
    /\ ProcessEnd
    /\ UNCHANGED stops

\* A call to Core or a statement of the database throws: startupFunction() is retried by
\* Threaded, a pass of mainFunction() ends in its catch block.  The Thaw Day check of
\* phaseSync(), which throws while Core is too old, is one such call.
Abandon ==
    \/ /\ pc \in StartupPc
       /\ pc' = "startup"
       /\ UNCHANGED <<core, store, flagState, state, place, memory, control, block, round,
                      pruning, clearFails, stops>>
    \/ /\ pc \in RewindPc \cup SyncPc
       /\ Catch

Throw ==
    /\ pc # "startup"
    /\ faults < MaxFaults
    /\ faults' = faults + 1
    /\ Abandon

\* getblockhash for a height that Core's chain has lost throws.
HeightAsked ==
    CASE pc \in {"repair", "fork", "open", "poll"}   -> height
      [] pc = "rewind" /\ hash # nextHash            -> height - 1
      [] pc = "fetch" /\ ~(bulkSync /\ height % CheckEvery # 0) -> height
      [] OTHER                                       -> 0

CoreBehind ==
    /\ HeightAsked > Len(tip)
    /\ Abandon
    /\ UNCHANGED faults

-----------------------------------------------------------------------------
(* startupFunction() *)

\* Reads where we left off and waits for Core to have that block (waitForCoreHeight).
StartupRead ==
    /\ pc = "startup"
    /\ ~stopRequest
    /\ \E h \in Heights :
         /\ IsBlockHeight(db, h)
         /\ h <= Len(tip)
         /\ height' = h
    /\ pc' = "repair"
    /\ UNCHANGED <<core, store, flagState, state, nextHash, memory, control, block, round,
                   pruning, budget>>

\* The newest epoch whose price is stored, read after the repair.
ReadLastEpochTooEarly(t) == \E e \in Epochs : IsLastEpoch(db, e) /\ lastOracleEpoch' = e
ReadLastEpoch(t) == \E e \in Epochs : IsLastEpoch(t, e) /\ lastOracleEpoch' = e

\* Takes the hash to expect from Core and clears the block we left off on.
StartupRepair ==
    /\ pc = "repair"
    /\ height <= Len(tip)
    /\ nextHash' = CoreHash(height)
    /\ ClearBlocksAboveHeight(height)
    /\ ReadLastEpoch(db')
    /\ pc' = "backfill"
    /\ UNCHANGED <<core, transactionDepth, flagState, state, height, lastPassFailed, control,
                   block, round, pruning, faults, stops>>

\* phaseDigiDollarBackfill() has work to do: DigiDollar was never indexed and can be.
BackfillDue ==
    /\ track
    /\ height >= DDHeight
    /\ FlagOf(db, flagState, "ddSyncHeight") < DDHeight
    /\ FlagOf(db, flagState, "wasPrunedUTXOHistory") < DDHeight

\* The flags it reads to find out.
BackfillReads ==
    {f \in FlagName : /\ track
                      /\ height >= DDHeight
                      /\ f = "ddSyncHeight" \/ FlagOf(db, flagState, "ddSyncHeight") < DDHeight}

\* The rewind to just below activation.  A pruned header there makes startup throw.
StartupBackfill ==
    /\ pc = "backfill"
    /\ flagState' = ReadFlags(db, flagState, BackfillReads)
    /\ IF BackfillDue
         THEN /\ height' = DDHeight - 1
              /\ ClearBlocksAboveHeight(DDHeight - 1)
              /\ IF BlockHash(db, DDHeight - 1) = NoHash
                   THEN pc' = "startup" /\ UNCHANGED <<nextHash, lastOracleEpoch>>
                   ELSE /\ pc' = "mark"
                        /\ nextHash' = BlockHash(db, DDHeight - 1)
                        /\ lastOracleEpoch' = 0
         ELSE pc' = "main" /\ UNCHANGED <<db, disk, clearFails, height, nextHash, lastOracleEpoch>>
    /\ UNCHANGED <<core, transactionDepth, state, lastPassFailed, control, block,
                   round, pruning, faults, stops>>

StartupMark ==
    /\ pc = "mark"
    /\ SetFlagInt("ddSyncHeight", DDHeight)
    /\ pc' = "main"
    /\ UNCHANGED <<core, transactionDepth, state, place, memory, control, block, round, pruning,
                   budget>>

-----------------------------------------------------------------------------
(* mainFunction() and phaseRewind() *)

\* Recovery starts over from the newest stored block, with the hash Core has there now.
RecoverGivesUp(h) == UNCHANGED <<pc, place, memory, db, disk, clearFails>>
RecoverAt(h) ==
    /\ h <= Len(tip)
    /\ height' = h
    /\ nextHash' = CoreHash(h)
    /\ ClearBlocksAboveHeight(h)
    /\ pc' = "fork"
    /\ lastPassFailed' = FALSE
    /\ UNCHANGED lastOracleEpoch

\* mainFunction(): recover if the last pass failed, then look for a fork.
MainEnter ==
    /\ pc = "main"
    /\ ~stopRequest
    /\ IF lastPassFailed
         THEN (\E h \in Heights : IsBlockHeight(db, h) /\ RecoverAt(h)) /\ Revisit
         ELSE pc' = "fork" /\ UNCHANGED <<db, disk, clearFails, place, memory, missed>>
    /\ UNCHANGED <<chain, transactionDepth, flagState, state, control, block, round, pruning,
                   faults, stops>>

\* No block is stored, or Core does not have it: startup and recovery try again and again.
Retry ==
    /\ pc = "startup" \/ (pc = "main" /\ lastPassFailed)
    /\ ~stopRequest
    /\ ~\E h \in Heights : IsBlockHeight(db, h) /\ h <= Len(tip)
    /\ UNCHANGED vars

\* Is the block Core has at this height the one we expect?
NeverForked == FALSE
Forked == CoreHash(height) # nextHash

CheckFork ==
    /\ pc = "fork"
    /\ height <= Len(tip)
    /\ IF Forked
         THEN pc' = "rewind" /\ state' = "REWINDING" /\ hash' = CoreHash(height)
         ELSE pc' = "open" /\ UNCHANGED <<state, hash>>
    /\ UNCHANGED <<core, store, flagState, place, memory, control, next, confirmations, round,
                   pruning, budget>>

\* One turn of the rewind loop, to a height whose header is still stored.
RewindStep ==
    /\ pc = "rewind"
    /\ hash # nextHash
    /\ height - 1 <= Len(tip)
    /\ BlockHash(db, height - 1) # NoHash
    /\ height' = height - 1
    /\ hash' = CoreHash(height - 1)
    /\ nextHash' = BlockHash(db, height - 1)
    /\ UNCHANGED <<core, store, flagState, pc, state, memory, control, next, confirmations,
                   round, pruning, budget>>

\* The stored and live hashes agree: drop everything at and above this height.
RewindDone ==
    /\ pc = "rewind"
    /\ hash = nextHash
    /\ ClearBlocksAboveHeight(height)
    /\ pc' = "open"
    /\ hash' = NoHash
    /\ UNCHANGED place
    /\ Revisit
    /\ UNCHANGED <<chain, transactionDepth, flagState, state, memory, control, next,
                   confirmations, round, pruning, faults, stops>>

\* exceptionDataPruned: restart().  Database::reset() begins a transaction of its own, so
\* it throws when one is open already.
RewindRestart ==
    /\ pc = "rewind"
    /\ hash # nextHash
    /\ height - 1 <= Len(tip)
    /\ BlockHash(db, height - 1) = NoHash
    /\ IF transactionDepth = 0
         THEN /\ Write(Reset(db))
              /\ height' = 1
              /\ nextHash' = Block1
              /\ hash' = NoHash
              /\ pc' = "open"
              /\ Revisit
              /\ UNCHANGED <<chain, transactionDepth, flagState, state, memory, control, next,
                             confirmations, round, pruning, budget>>
         ELSE Catch /\ UNCHANGED faults

-----------------------------------------------------------------------------
(* phaseSync() *)

OpenHash ==
    /\ pc = "open"
    /\ height <= Len(tip)
    /\ hash' = CoreHash(height)
    /\ pc' = "openBlock"
    /\ UNCHANGED <<core, store, flagState, state, place, memory, control, next, confirmations,
                   round, pruning, budget>>

\* blockData = getBlock(hash)
FetchBlock ==
    /\ next' = CoreNext(hash)
    /\ confirmations' = Confirmations(hash)

OpenBlock ==
    /\ pc = "openBlock"
    /\ FetchBlock
    /\ pc' = "loop"
    /\ UNCHANGED <<core, store, flagState, state, place, memory, control, hash, round, pruning,
                   budget>>

\* The condition of the loop, apart from a stop request.
HashExpected == hash = nextHash

\* The loop condition holds: the round's sync mode is decided by the confirmations fetched.
\* The state shown is 0 - confirmations, so a block off the active chain shows as STOPPED.
LoopEnter ==
    /\ pc = "loop"
    /\ HashExpected
    /\ ~stopRequest
    /\ state' = IF confirmations = -1 THEN "STOPPED" ELSE "BEHIND"
    /\ bulkSync' = (confirmations > BulkGap)
    /\ confirmations' = 0
    /\ pc' = "oracle"
    /\ UNCHANGED <<core, store, flagState, place, memory, control, hash, next, insertBatch,
                   pruning, budget>>

\* The loop condition fails: commit a started header batch and return.
LoopExit ==
    /\ pc = "loop"
    /\ ~HashExpected \/ stopRequest
    /\ IF insertBatch > 0 THEN EndTransaction ELSE UNCHANGED <<transactionDepth, disk>>
    /\ pc' = "main"
    /\ DropLocals
    /\ UNCHANGED <<core, db, flagState, state, place, memory, control, budget>>

\* captureOracleCommitment(), which runs before the block's transaction.  The epoch is the one
\* in the commitment, and Core takes no other than the block's own.
CaptureDue ==
    /\ track
    /\ height >= DDHeight
    /\ Epoch(height) = 0 \/ Epoch(height) > lastOracleEpoch

CaptureOracle ==
    /\ pc = "oracle"
    /\ IF CaptureDue /\ height \notin SilentHeights
         THEN /\ Write(AddDigiDollarRate(db, hash))
              /\ lastOracleEpoch' = Epoch(height)
         ELSE UNCHANGED <<db, disk, lastOracleEpoch>>
    /\ pc' = "process"
    /\ UNCHANGED <<core, transactionDepth, flagState, state, place, lastPassFailed, control,
                   block, round, pruning, budget>>

\* The coinbase cannot be read: logged, and the block is processed all the same.  The next
\* block of the epoch tries again.
CaptureFails ==
    /\ pc = "oracle"
    /\ CaptureDue
    /\ missed' = missed \cup {Epoch(height)}
    /\ faults < MaxFaults
    /\ faults' = faults + 1
    /\ pc' = "process"
    /\ UNCHANGED <<chain, store, flagState, state, place, memory, control, block, round, pruning,
                   clearFails, stops>>

\* pruneMax(): the height to prune up to after block h, 0 for not now.
PruneMax(h) ==
    IF PruneAge < 0 \/ h % PruneInterval # 0 \/ h <= PruneAge THEN 0 ELSE h - PruneAge

\* Exchange rates keep at least RateLeniency blocks.
PruneHeight(table) ==
    LET limit == height - RateLeniency
    IN  IF table = "exchange" /\ limit >= 0 /\ limit < PruneMax(height)
          THEN limit ELSE PruneMax(height)

\* The statements of pruneExchange(), pruneUTXO() and pruneVote() in the order they run.
\* The wasPruned flags of exchange rates and votes only inform RPC callers.
PruneProgram ==
    << <<"exchange", "rows">>, <<"exchange", "blocks">>, <<"exchange", "keep">>,
       <<"utxo", "rows">>, <<"utxo", "blocks">>, <<"utxo", "flag">>,
       <<"vote", "rows">>, <<"vote", "blocks">>, <<"vote", "keep">> >>

\* The statements after the n-th, for the tables that are pruned at all.
PruneDue(n) == {m \in 1..9 : m > n /\ PruneProgram[m][1] \in PruneTables}

\* startTransaction() and processTX() for every transaction of the block.
ProcessBlock ==
    /\ pc = "process"
    /\ IF NeedsAssetProcessing(height)
         THEN /\ db' = [db EXCEPT !.rows = @ \cup {hash}]
              /\ transactionDepth' = transactionDepth + 1
              /\ pc' = "commit"
         ELSE /\ pc' = "processed"
              /\ UNCHANGED <<db, transactionDepth>>
    /\ UNCHANGED <<core, disk, flagState, state, place, memory, control, block, round, pruning,
                   budget>>

CommitBlock ==
    /\ pc = "commit"
    /\ EndTransaction
    /\ pc' = "processed"
    /\ UNCHANGED <<core, db, flagState, state, place, memory, control, block, round, pruning,
                   budget>>

\* phasePrune() after the block, when it is time to.
BlockDone ==
    /\ pc = "processed"
    /\ IF PruneMax(height) > 0 /\ PruneDue(0) # {}
         THEN pc' = "prune" /\ pruneStep' = Min(PruneDue(0))
         ELSE pc' = "tip" /\ UNCHANGED pruneStep
    /\ UNCHANGED <<core, store, flagState, state, place, memory, control, block, round, kept,
                   budget>>

\* One statement of phasePrune().  Each commits by itself.
PruneStatement ==
    LET table == PruneProgram[pruneStep][1]
        what  == PruneProgram[pruneStep][2]
        h     == PruneHeight(table)
    IN  /\ pc = "prune"
        /\ \/ /\ what = "rows"
              /\ Write(PruneRows(db, table, h))
              /\ kept' = db.summary \cap {table}
              /\ UNCHANGED flagState
           \/ /\ what = "blocks"
              /\ Write(RemoveNonReachable(db, h))
              /\ UNCHANGED <<kept, flagState>>
           \/ /\ what = "keep"
              /\ IF kept # {} THEN Write(KeepSummary(db, table)) ELSE UNCHANGED <<db, disk>>
              /\ kept' = {}
              /\ UNCHANGED flagState
           \/ /\ what = "flag"
              /\ SetFlagInt("wasPrunedUTXOHistory", h)
              /\ UNCHANGED kept
        /\ IF PruneDue(pruneStep) = {}
             THEN pc' = "tip" /\ pruneStep' = 0
             ELSE pruneStep' = Min(PruneDue(pruneStep)) /\ UNCHANGED pc
        /\ UNCHANGED <<core, transactionDepth, state, place, memory, control, block, round,
                       budget>>

\* No next block yet: report SYNCED and wait.
TipWait ==
    /\ pc = "tip"
    /\ next = NoHash
    /\ ~stopRequest
    /\ state' = "SYNCED"
    /\ pc' = "poll"
    /\ UNCHANGED <<core, store, flagState, place, memory, control, block, round, pruning, budget>>

\* phaseSync() returns from inside the wait, past the cleanup at its end.
TipStop ==
    /\ pc = "tip"
    /\ next = NoHash
    /\ stopRequest
    /\ pc' = "main"
    /\ DropLocals
    /\ UNCHANGED <<core, store, flagState, state, place, memory, control, budget>>

TipPoll ==
    /\ pc = "poll"
    /\ height <= Len(tip)
    /\ IF CoreHash(height) = hash
         THEN pc' = "refresh" /\ UNCHANGED <<state, block, round, pruning>>
         ELSE pc' = "main" /\ state' = "REWINDING" /\ DropLocals
    /\ UNCHANGED <<core, store, flagState, place, memory, control, budget>>

TipRefresh ==
    /\ pc = "refresh"
    /\ next' = CoreNext(hash)
    /\ pc' = "tip"
    /\ UNCHANGED <<core, store, flagState, state, place, memory, control, hash, confirmations,
                   round, pruning, budget>>

\* The block DigiDollar activated on has just been indexed.
MarkerNeverDue == FALSE
MarkerDue == track /\ height = DDHeight

\* There is a next block: record that the DigiDollar activation block is indexed, move on.
Advance ==
    /\ pc = "tip"
    /\ next # NoHash
    /\ IF MarkerDue
         THEN SetFlagInt("ddSyncHeight", DDHeight)
         ELSE UNCHANGED <<db, disk, flagState>>
    /\ nextHash' = next
    /\ height' = height + 1
    /\ next' = NoHash
    /\ pc' = "fetch"
    /\ UNCHANGED <<core, transactionDepth, state, memory, control, hash, confirmations, round,
                   pruning, budget>>

\* In bulk sync the hash is taken from the previous block, except every CheckEvery blocks.
FetchHash ==
    /\ pc = "fetch"
    /\ IF bulkSync /\ height % CheckEvery # 0
         THEN hash' = nextHash
         ELSE height <= Len(tip) /\ hash' = CoreHash(height)
    /\ pc' = "insert"
    /\ UNCHANGED <<core, store, flagState, state, place, memory, control, next, confirmations,
                   round, pruning, budget>>

BatchFullTooLate == insertBatch + 1 > BatchSize
BatchFull == insertBatch + 1 >= BatchSize

\* The block is fetched and its header stored: at once when the round just finished was
\* asset processing, in a batch of BatchSize headers otherwise.
InsertHeader ==
    /\ pc = "insert"
    /\ FetchBlock
    /\ db' = InsertBlock(db, hash)
    /\ IF NeedsAssetProcessing(height - 1)
         THEN UNCHANGED <<transactionDepth, insertBatch>>
         ELSE LET opened == transactionDepth + (IF insertBatch = 0 THEN 1 ELSE 0)
              IN  IF BatchFull
                    THEN /\ transactionDepth' = IF opened = 0 THEN 0 ELSE opened - 1
                         /\ insertBatch' = 0
                    ELSE transactionDepth' = opened /\ insertBatch' = insertBatch + 1
    /\ disk' = IF transactionDepth' = 0 THEN db' ELSE disk
    /\ pc' = "loop"
    /\ UNCHANGED <<core, flagState, state, place, memory, control, hash, bulkSync, pruning,
                   budget>>

-----------------------------------------------------------------------------
Init ==
    /\ tip = Block1 /\ reorgs = 0 /\ missed = {}
    /\ db = FreshDatabase(Block1) /\ disk = db /\ transactionDepth = 0
    /\ flagState = [f \in FlagName |-> NotCached]
    /\ pc = "off" /\ state = "STOPPED"
    /\ height = 1 /\ nextHash = NoHash
    /\ lastPassFailed = FALSE /\ lastOracleEpoch = 0
    /\ track = TRUE /\ stopRequest = FALSE
    /\ hash = NoHash /\ next = NoHash /\ confirmations = 0
    /\ bulkSync = FALSE /\ insertBatch = 0
    /\ pruneStep = 0 /\ kept = {}
    /\ faults = 0 /\ clearFails = 0 /\ stops = 0

Startup == StartupRead \/ StartupRepair \/ StartupBackfill \/ StartupMark
Rewind  == CheckFork \/ RewindStep \/ RewindDone \/ RewindRestart
Sync    == \/ OpenHash \/ OpenBlock \/ LoopEnter \/ LoopExit \/ CaptureOracle \/ ProcessBlock
           \/ CommitBlock \/ BlockDone \/ PruneStatement \/ TipWait \/ TipStop \/ TipPoll \/ TipRefresh \/ Advance
           \/ FetchHash \/ InsertHeader

\* What the analyzer thread does by itself.
Analyzer == Startup \/ MainEnter \/ Retry \/ Rewind \/ Sync \/ CoreBehind \/ Shutdown

\* What happens to it.
Environment ==
    \/ CoreExtend \/ CoreReorg
    \/ ProcessStart \/ Crash \/ RequestStop
    \/ Throw \/ CaptureFails

Next == Analyzer \/ Environment

Spec == Init /\ [][Next]_vars

\* The thread keeps running, and somebody starts the program.
FairSpec == Spec /\ WF_vars(Analyzer) /\ WF_vars(ProcessStart)

-----------------------------------------------------------------------------
(* Properties *)

CoreTypeOK == tip \in Block /\ Len(tip) \in Heights /\ reorgs \in Nat /\ missed \subseteq Epochs
StoreTypeOK ==
    /\ db \in Contents /\ disk \in Contents /\ transactionDepth \in Nat
    /\ flagState \in [FlagName -> FlagValue \cup {NotCached}]
ThreadTypeOK ==
    /\ pc \in Pc /\ state \in State
    /\ height \in Heights /\ nextHash \in Block
    /\ lastPassFailed \in BOOLEAN /\ lastOracleEpoch \in Epochs
    /\ track \in BOOLEAN /\ stopRequest \in BOOLEAN
LocalsTypeOK ==
    /\ hash \in Block /\ next \in Block /\ confirmations \in Int
    /\ bulkSync \in BOOLEAN /\ insertBatch \in 0..(BatchSize - 1)
    /\ pruneStep \in Nat /\ kept \subseteq Summarised
BudgetTypeOK == faults \in Nat /\ clearFails \in Nat /\ stops \in Nat

\* The type invariant: in particular the thread never leaves the heights of the chain, and a
\* header batch never grows past BatchSize.
TypeOK == CoreTypeOK /\ StoreTypeOK /\ ThreadTypeOK /\ LocalsTypeOK /\ BudgetTypeOK

\* What isHeightIndexed() tells its callers: every height below the newest stored block that
\* has to be processed has been, so a missing row is an answer rather than a gap.
Indexed(t) ==
    \A k \in Stored(t), h \in Heights :
        h < k /\ NeedsAssetProcessing(h) => \E b \in t.rows : Len(b) = h

\* It holds of what RPC threads read and of what a restarted node finds, whatever reorgs,
\* errors and crashes came before.
NoGap == Indexed(db) /\ Indexed(disk)

\* Everything in the index belongs to one chain: no row of an orphaned block survives beside
\* rows of the branch that replaced it (phaseRewind).
OnePath ==
    \A a, b \in db.rows \cup db.oracle :
        Len(a) <= Len(b) => SubSeq(b, 1, Len(a)) = a

\* Between two passes of mainFunction() no transaction is open, so the next commit commits.
NothingLeftOpen == pc = "main" => transactionDepth = 0

\* The effects of a processed block are committed with it; only headers are batched.
AssetRowsDurable == pc # "commit" => db.rows \subseteq disk.rows

\* Once the activation block is indexed, every epoch with a commitment has its price, however
\* often the node rewinds, fails, is stopped, prunes or has its tracking switched off and on
\* (captureOracleCommitment, phaseDigiDollarBackfill).  Left out are the epochs a rewind or a
\* recovery went back to without lowering _lastOracleEpoch, those with a coinbase that could not
\* be read, and the node on which clearBlocksAboveHeight() failed; see the README.
OracleComplete ==
    pc \in SyncPc /\ clearFails = 0 /\ track /\ db.flags["ddSyncHeight"] = DDHeight =>
        \A h \in DDHeight..(height - 1) \ SilentHeights :
            Epoch(h) \in missed \/ HasPrice(db, Epoch(h))

\* A node that indexes past the activation block with tracking on has recorded it, so that
\* no later start rewinds to do it again.
MarkerRecorded ==
    pc \in SyncPc /\ track /\ height > DDHeight => db.flags["ddSyncHeight"] = DDHeight

\* A rewind never goes below what has been pruned: the spent rows it would have to bring
\* back would be gone.
RewindStaysAbovePruned ==
    [][pc = "rewind" /\ pc' = "open" /\ height' = height
         => \A p \in PruneTable : db.from[p] <= height]_vars

\* Pruning keeps the newest exchange rate and the vote totals of what it deletes.
SummaryKept == pc # "prune" => db.summary = Summarised

\* The newest indexed block, and the abstract specification it implements.
IndexTip ==
    IF db.rows = {} THEN NoHash
    ELSE CHOOSE b \in db.rows : \A c \in db.rows : Len(c) <= Len(b)

Index == INSTANCE ChainIndex WITH index <- IndexTip

\* Through forks, the rows change only as an index of one chain may: a child block is added,
\* or the newest blocks are dropped (phaseRewind, phaseSync, clearBlocksAboveHeight).
ImplementsChainIndex == Index!Spec

\* When Core's chain settles, the index settles on exactly that chain.
ChainIndexed ==
    db.rows = {CoreHash(h) : h \in {k \in 1..Len(tip) : NeedsAssetProcessing(k)}}
EventuallyIndexed == <>[]ChainIndexed

(* Statements of the source's comments that the code does not keep; see the README. *)

\* getBlockHeight() always finds a block: a node whose blocks table is empty cannot start.
AlwaysABlock == Stored(disk) # {}

\* The state STOPPED is shown by a node whose analyzer is not running.
StoppedMeansStopped == state = "STOPPED" => pc = "off"
=============================================================================
