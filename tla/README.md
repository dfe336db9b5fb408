# A verification project for DigiAssetWindows

DigiAssetWindows is a full node for DigiAssets and DigiDollar. It follows a DigiByte
Core node over JSON-RPC, indexes every block into a SQLite database (`chain.db`),
fetches asset metadata through an IPFS daemon, serves RPC clients from the index, and
comes with a pool server that pays nodes for storing metadata. This directory holds
TLA+ modules for the parts of it whose correctness is hard to test, the TLC
configurations that check them, and TLAPS proofs. Paths below are relative to the
repository root.

## 1. Inventory

| Component | State | Operations | Interacts with | What is hard | What makes it correct |
|---|---|---|---|---|---|
| Chain analyzer (`src/ChainAnalyzer.cpp`) | height, hash to expect, error streak, newest oracle epoch, header batch | startup repair, DigiDollar backfill, rewind, sync, prune, oracle capture, stop, recover | Core (RPC), database, job queue | Core reorganises between two RPC calls; kill or error at any step | the index describes exactly one chain, without gaps, and reaches Core's tip |
| Chain database (`src/Database.cpp`) | tables, nesting depth of transactions, RAM copy of flags | insert, clear above a height, reset, prune, flags | analyzer (writer), RPC threads (readers), job threads (same connection) | atomicity of multi-statement operations, RAM copies | what is committed is always a state a restart can continue from |
| IPFS job queue (`src/Database.cpp`, `src/IPFS.cpp`) | `ipfs` table, pauses in RAM, callbacks, promises | add, take, finish, pause, fail | analyzer, storage pools, RPC methods; 10 worker threads | several workers, timeouts, a busy database, kills | each job done by one worker, in order where asked, exactly once, eventually |
| Worker threads (`src/Threaded.cpp`) | running, stop request, sub-tasks | start, stop, loop | analyzer, IPFS, pools | start and stop racing | every start ends running, every stop returns |
| Core RPC client and prefetch (`src/DigiByteCore.cpp`) | connection, prefetched blocks | calls with retry, start/stop prefetch | analyzer | producer, consumer and stop | blocks handed out in order, none lost, no deadlock |
| Transactions and assets (`src/DigiByteTransaction.cpp`, `src/DigiAsset*.cpp`, `src/DigiDollar.cpp`, `src/KYC.cpp`, `src/DigiByteDomain.cpp`) | none of their own | decode, account, write rows | analyzer, database | transfer rules, integer widths, rounding | amounts conserved, roll back exact |
| Encoders (`src/BitIO.cpp`, `src/Base58.cpp`, `src/Blob.cpp`) | none | encode, decode | decoding | widths | decode inverts encode |
| RPC server and cache (`src/RPC/`) | cached responses | answer, invalidate | clients, analyzer | invalidation racing a slow answer | no stale answer is cached |
| Asset wallet (`src/AssetWallet.cpp`) | none | choose coins, build transactions | Core, database | boundaries | what is spent covers what is sent |
| Storage pools (`src/PermanentStoragePool/`) | pool files, reports | subscribe, report, pin | pool server, IPFS | lost and repeated calls | everything promised is pinned |
| Pool server (`pool/`) | nodes, verification results, payout ledger | register, verify, plan storage, pay | nodes, Core wallet | a crash between sending and recording | nobody is paid twice for a period |
| Instance lock, configuration, start (`src/InstanceLock.cpp`, `src/main.cpp`, `src/AppMain.cpp`, `src/Config.cpp`) | lock file | take, release | operating system | two starts at once | one instance at a time |
| Front ends (`web/`, `cli/`, `qt/`, `src/WebServer.cpp`, `src/ConsoleDashboard.cpp`, log, statistics) | presentation | show | RPC | none | not modelled |
| Vendored code (`src/sqlite3.c`, `src/jsonrpccpp/`) | | | | | not modelled |

`PROJECT.json` lists the components with their status, and the main hazards found while
reading the code, at the line where they bite; the table of section 3 has the rest.

## 2. Modules

| Module | Models |
|---|---|
| `ChainDatabase` | the history part of `Database.cpp` as operators on one value, the contents of `chain.db` |
| `ChainAnalyzer` | the analyzer thread, step by step, with Core, the operator and the operating system as its environment |
| `ChainIndex` | the abstract specification: one index of one chain, extended by a child or cut at the newest end |
| `BlockPrefetch` | the prefetch thread, its queue, and the analyzer's loop on it; implements `ChainIndex` too |
| `IPFSJobs` | the job table, callbacks, promises and worker threads |
| `AssetTransfer` | building and interpreting the transfer instructions of a transaction |
| `RpcCache` | the response cache between RPC threads and the analyzer |
| `PoolPayouts` | the pool server's payout path: plan, wallet, ledger, peers |
| `PermanentPages` | the pages of the permanent list, and the nodes that walk them |
| `StoragePlan` | pure: scores, paid set, assignment of files to nodes |
| `PoolStorage` | extends `StoragePlan`: keepalives, challenges, verdicts, verify rounds |
| `ChainAnalyzerProofs`, `BlockPrefetchProofs`, `IPFSJobsProofs`, `AssetTransferProofs`, `PoolPayoutsProofs`, `PermanentPagesProofs`, `RpcCacheProofs`, `PoolStorageProofs` | theorems about the module of the same name (section 4); `PoolStorageProofs` has those about `StoragePlan` too |
| `MCChainAnalyzer`, `MCIPFSJobs`, `MCBlockPrefetch`, `MCAssetTransfer`, `MCRpcCache`, `MCPoolPayouts`, `MCPermanentPages`, `MCPoolStorage` | values for TLC |

An operator that nothing uses and that stands just before another is a mutant of it:
the same code with a plausible bug, with which the named property must fail.

### ChainDatabase and ChainAnalyzer

A block is the sequence of branch labels from block 1 to it. Like a hash it commits to
all its ancestors, and its length is its height, so "the same block" and "an ancestor"
need no further machinery. What processing a block writes into the data tables is one
member of `rows`: the analyzer writes it in one transaction, and
`clearBlocksAboveHeight` deletes it in one. `blocks` is the headers table, `oracle` the
DigiDollar prices (`ddoracle`), `flags` the two flags that steer control, `from` and
`summary` what pruning has deleted and kept.

`db` is what the analyzer's connection (and every RPC thread, which shares it) sees,
`disk` what is committed. They differ only while `transactionDepth` is positive.
`pc` is the place in the code: one step for each RPC call and each database operation
that commits by itself, since Core may change its chain, and the process may be killed,
between any two of them.

| Actions | Code |
|---|---|
| `ProcessStart`, `StartupRead`, `StartupRepair`, `StartupBackfill`, `StartupMark` | `setTrackDigiDollar`, `startupFunction`, `waitForCoreHeight`, `phaseDigiDollarBackfill` |
| `MainEnter`, `Retry`, `Throw`, `CoreBehind` | `mainFunction`: recovery and its catch blocks; the retry of a failed startup |
| `CheckFork`, `RewindStep`, `RewindDone`, `RewindRestart` | `phaseRewind`, `restart` |
| `OpenHash`, `OpenBlock`, `LoopEnter`, `LoopExit` | the head, condition and cleanup of `phaseSync` |
| `CaptureOracle`, `CaptureFails`, `ProcessBlock`, `CommitBlock` | `captureOracleCommitment`, the block's transaction |
| `BlockDone`, `PruneStatement` | `phasePrune`, statement by statement |
| `TipWait`, `TipStop`, `TipPoll`, `TipRefresh`, `Advance`, `FetchHash`, `InsertHeader` | the rest of the loop |
| `CoreExtend`, `CoreReorg` | Core (external) |
| `Crash`, `RequestStop`, `Shutdown` | kill, `Threaded::stop`, `shutdownFunction` |

`missed` is a history variable: the oracle epochs whose price is not there and will not be
asked for before the next start. A rewind, and the recovery from an error, delete prices
without lowering `_lastOracleEpoch`; `Revisit` adds the epochs that loses, and
`CaptureFails` the one whose coinbase could not be read. `getFlagInt` keeps what it reads
in RAM (`ReadFlags`); that an RPC thread may have read a flag before the analyzer does is
left out, since it makes a difference only after `reset()`, which section 3 has anyway.

Left out on purpose: waiting times and the back-off (they only delay), the watchdog and
all output, the prefetch pipeline (a module of its own), WAL checkpoints and
performance indexes (they change no contents), the Thaw Day version check (one more
reason for `Throw`), a failure of `clearBlocksAboveHeight` inside a transaction that is
already open, a `COMMIT` that fails in `clearBlocksAboveHeight` and leaves its transaction
open (`Database.cpp:1744`), and loss of power (a kill loses no committed transaction;
relaxed durability may).

### IPFSJobs

Each SQL statement is a step, because ten worker threads (`ipfsparallel`) and the
threads that add jobs run between any two; what is under `_mutexGetNextIPFSJob` or
`_mutexRemoveIPFSJob` excludes itself. The values of the `sync` column are abstracted
to the four the code tells apart: `""`, `pin`, `unpin` and one ordered value. Time is a
countdown. `AddJob` and `InsertJob` are the two halves of `addIPFSJob`,
`RegisterCallback` the rest of `addIPFSJobPromise`; `GetClear`, `GetSelect`, `GetLock`
are `getNextIPFSJob`; `WorkDone`, `WorkTimeout`, `NotePause`, `WorkThrows` the request
and `pauseIPFSSync`; `RemoveRow`, `RemoveUnlock`, `CallBack` are `removeIPFSJob` and the
callback; `Restart` is a kill followed by the clean-up of the constructor. The
daemon and the clock are the environment. A busy database (`SQLITE_BUSY`) can meet every
writing statement; its consequence differs from place to place, as in the code. Two
history variables name what the code does to locks: `late` the jobs that were inserted
while rows of their sync value were locked or paused, `freed` those another worker's unlock
or pause took the lock of while they were worked on. A job with an invalid or lost CID
(`IPFS.cpp:135-139`) is removed by the same `removeIPFSJob` and its callback left out; since
only the repinning statement makes such jobs, whose callback is `""`, it is a `WorkDone`.


### BlockPrefetch

`prefetchLoop` (`WaitForSpace`, `FetchAhead`, `FetchFails`, `Push`), `startPrefetch`
(`Spawn`), `stopPrefetch` (`SignalStop`, `Join`) and `getNextPrefetchedBlock` (`Take`) of
`DigiByteCore.cpp`, with the loop of `phaseSync` around them (`Process`, `TipPoll`,
`Advance`, `FetchSerial`, `LoopExit`). A thread that finds its condition false sleeps
until it is notified; `SpuriousWakeup` wakes it for nothing. A reorganisation deeper than
the queue lets the producer hand out blocks that are no longer Core's, for which nobody
asks Core. `return` and an exception leave the producer behind (`LeaveBehind`), as in the
code. `MainEnter` is the start and the recovery from an error: the newest header in the
database, and the hash that Core has at that height *now* (`ChainAnalyzer.cpp:305`, `:506-508`).
`Resume` is a whole `phaseRewind` and the head of `phaseSync`, which `ChainAnalyzer` models
step by step; it finds a fork (`Forked`) only by comparing Core with that hash. `StartFrom`
sets the history variable `masked` when the hash taken from Core is not a child of the
newest row left: a fork has been masked, and the rows below it stay. Assumed:
`pipelinesync=1` and blocks that need asset processing. Left out: reorganisations to a
shorter chain, a failing `clearBlocksAboveHeight`, what `_txCache` holds, and a `stopPrefetch` from a second thread (there is
no such caller).

### AssetTransfer

A transaction is its inputs with the assets on each, the addresses of its outputs, and a
list of instructions; one step is one chunk consumed, one instruction applied or one
leftover chunk added to the change. Sums are written as counts of pairs, `SumOver`, here and in
`PoolPayouts` and `RpcCache`: a recursive sum is the same number and cannot be proved about.
`RouteToOutput`, `RouteToBurn`, `Refuse` and `Sent` are `buildTransferInstructions` and
`encodeAssetOpReturn` on an order of the wallet; what they produce is then read by the same interpreter
as what comes from the chain: `ReadInstruction`, `RemoveChunk`, `Apply`, `Truncated` are
the loop of `decodeAssetTransfer`, `Catch` its catch block, `AddChange`, `Finish`,
`ChangeFails` what follows it, `RuleFailed`, `RateUnknown` and `NotAnAssetTransaction`
the exits of `decodeAssetTX`. Asset rules pass or fail freely where they apply. Amounts
are numbers, and the products of `:447` and `:448` wrap at `Word` (2^64 in the code).

### RpcCache

The index is a version number for each address and for the list of assets; an answer is
the versions it was computed from, so "stale" is a comparison. The cache is a function of
its keys; of the timestamps only their order matters, so an entry holds the set of keys
that are older. `Miss`, `Compute` and
`addResponse` are the three places of `executeCall` between which other threads run;
`BeginTx`, `SaveTx`, `Announce` are a transaction of the analyzer in the order of
`addToDatabase` and `processTX`; `BlockDone` the end of a block, `CatchUp` the end of bulk
sync, `Undo` a rewind or a roll back. `quiet` is a history variable: nothing has happened
that the cache has no way to know of.

### PoolPayouts

`dash` is the dashboard thread, `ledger` the table `payouts_ledger`, `chain` the batches
Core really broadcast, which no part of the code can see; each remembers whether its guard
row was written (`guarded`) and whether a read of the last payout on its way had failed
(`blind`): a failed SELECT is answered with 0, "never paid" (`PoolDatabase.cpp:767-779`). `PressE`, `PressY`, `PressOther`
are the operator's keys, `maybeAutoPayout` the timer; `walletUnlock`, `beginPayoutPeriod`,
`sendMany`, `recordPayout`, `recorded` and `abortPayoutPeriod` are the steps of
`executePayout`; `doOnchainAnnounce` is the other user of the wallet, under
`poolWalletMutex`. The code's `double` amounts are exact fractions over one scale, and
`payoutSats` rounds them as the code does. A tick of the clock is an hour. `Restart` is a
crash at any step.

### PermanentPages

`BeginAdd` asks for the writable page, `insertPermanentAsset` inserts one row a step;
`removePermanentCids` deletes. A node fetches a page (`Fetch`), pins what it lists and
leaves it when it is done (`PinPage`), and starts again where `config.cfg` says
(`Restart`). `Faults` may name `"mark"`, a full page that is handed over without having been
marked done (`PoolDatabase.cpp:1001-1010` does not look at the result), and `"read"`, a SELECT
that fails and is taken for an empty answer; `PageChoices` and `Bodies` are what the two
calls then return. Pages are numbered from `StartPage` (23 in the code).

### StoragePlan and PoolStorage

Scores are thousandths. `Before` is the order in which the hashes of a file and a peer put
the peers: any strict total order for each file. `paidSet` and `assignees` are those of
`StoragePlan.h`. In `PoolStorage` two request threads and the verifier work on the same
rows: `handleKeepalive` and `insertChallenge`, `claimChallenge` and `recordProofResult` (or
`CannotJudge`) are pairs of database calls with a window between them;
`expireChallenges` closes what is overdue, `ExpireCut` is a crash between its two
statements, `Verify` a verify round (`recordVerifySuccess` or `recordVerifyFailure` and
`updateNodeScores` in one step: one thread writes these columns). `LoseProof` is a `/proof`
that fails, comes too late or meets a pool that restarts: `answerStorageChallenge` posts
once and does not try again (`mctrivia.cpp:465`). A peer is honest (it holds its files and
answers what reaches it) or not (it answers right, wrong or not at all).

## 3. Runs

Every bound is a counter in a guard. The thresholds of the code are scaled down so that
each is crossed several times: batches of 2 headers instead of 100, a hash check every 2
blocks instead of 100, epochs of 2 blocks instead of 40, pages of 2 rows, a queue of 2
blocks instead of 4. Symmetry is not used (the trunk label, the hash orders and the
seniority are not symmetric, and liveness is checked).

| Run | Bounds, and why they suffice | Shows |
|---|---|---|
| `ChainFork` | 6 heights, 2 reorganisations of up to 3 blocks, pruning every 2: rewinds that end at, above and below the prune height; a third branch would be a second reorganisation under another name | `OnePath`: rows of two branches never coexist. `ImplementsChainIndex`. `SummaryKept`, `RewindStaysAbovePruned`: pruning keeps what it must and no rewind needs what it deleted. `EventuallyIndexed`: once Core settles, the index is exactly Core's chain. |
| `ChainRecovery` | 5 heights, an error, 2 kills or stops, `trackdigidollar` may change at each start | `NothingLeftOpen`, `AssetRowsDurable`, `MarkerRecorded`, `EventuallyIndexed` |
| `ChainEverything` | 6 heights, three oracle epochs from activation on, a height without a commitment; one fork (to a shorter chain too), one error, one failing roll back, one stop, header-only era, pruning, `trackdigidollar` may change at each start. The backfill is reached on a node that has pruned, and a rewind that leaves `_lastOracleEpoch` too high is reached both by the fork and by the error alone | `TypeOK` and `NoGap` in every combination. `OracleComplete`: past activation every epoch with a commitment has its price, except those in `missed` and a node whose repair failed |
| `PrefetchHandover` | 7 heights from 5, queue of 2, bulk sync more than 2 behind, 2 reorganisations of up to 4 blocks (deeper than the queue), one failing call of either thread, with the recovery from it; a masked fork is reached | `Lockstep`: what is taken is what is expected, whatever earlier passes left running. `FrontierSafe`: while reorganisations are shallower than the bulk gap, unasked blocks are Core's. `ImplementsChainIndex` until a fork is masked, `EventuallyIndexed` unless one is. `EveryTakeReturns`, `ShutdownJoins`: nobody waits for ever. `TypeOK`: the read-ahead is bounded. |
| `JobsOrdered` | 2 workers; a backlog of an ordered job and two pins (unordered, one sync value), a fourth job, ordered or a promise, added at any time; a timeout, a failing download, a busy database, a kill. `late` and `freed` are reached: without them both properties are violated here | `InOrder`: a job overtakes an older one only if it was inserted late. `Exclusive`: a job is with two workers only if another worker freed it. `CallbackRuns`, `Drained` (unless a download failed or the database was busy) |
| `TransferConserves` | 3 assets (aggregable, hybrid, dispersed), up to 3 inputs, 3 outputs, all pairs of 41 instructions, 491 wallet orders (one without assets) | `Conserved`: every unit is at one place at every step. `LossReported`: what is stored creates nothing, and losses are reported. `RoundTrip`: what the wallet builds is what every node reads. `Compact`. |
| `CacheTrusted` | 2 threads, 3 requests (one by address, one by assets, one never cached), a transaction, an undo; a cache that holds one or two answers. Also passes with `MaxTxs = 2` | `Accounted`: the running size is exact. `FreshWhileQuiet`: a cached answer is current unless something happened that is never announced. `EveryAnswerExpires`. |
| `PayoutsOnce` | 4 nodes on 3 addresses, one invalid; an odd budget, whose halves both round up; periods of 2 hours over 3 hours, so that a second payout is due; 2 batches and 4 ledger rows, enough for a payout and its repetition; lost answers, failing reads, a failing guard, failing rows and failing release of the guard, crashes | `OncePerGuardedPeriod`: two batches are a period apart unless the earlier went out without its guard row or a read for the later failed. `LedgerSound`: each row with a txid is an output of that transaction, to the satoshi. `Affordable`, `SpendUnlocked`. |
| `PayoutsUnguarded` | one node; the guard row and the rows may fail to be written | violation of `OncePerPeriod` |
| `PagesWalked` | 6 rows, pages of 2, 4 pages, one adder, one walker, a restart, full pages that are not marked done, removals of a row that leaves its page in use and of one that empties it | `NothingBehind`: what a walker has left it has pinned. `PinnedInTheEnd`: what stays listed is pinned, unless the walker is parked on a page that was never marked done or has lost its rows. |
| `StorageJudged` | one node, 2 request threads and the verifier, 3 challenges; lost replies, lost proofs, unreadable copies, restarts | `FoldedOnce`, `OnlyForTheLost`: an honest node loses score only by a challenge whose reply or proof was lost. `EveryChallengeClosed`: none stays open. |
| `StoragePlanned` | 3 nodes for 2 paid slots, 2 files, 4 verify rounds, a challenge | `OnlyItsFilesMove`: files move only to or from the node that came or went |

Every module states its type invariant, `TypeOK`. The runs check those that say more than
shapes (the batch bound of the analyzer, the read-ahead of the pipeline); the others hold
in the same instances, when they are added to the `.cfg`.

### Disagreements between the code and its comments

**The guard row is not checked** (`PayoutsUnguarded`). `executePayout` arms a durable guard
before it broadcasts "so we never double-pay" (`pool/PoolDashboard.cpp:1009`), but ignores
the -1 by which `beginPayoutPeriod` reports that it was not written. If the rows of the
recipients fail as well (a full disk, a locked database) or the process ends first, the
next attempt pays the same period again. The comment at `pool/PoolDatabase.cpp:675-678` fears
that a row which fails to be promoted "could allow a re-pay"; with the guard row written it
cannot, because `getLastPayoutAt` counts rows of any kind.

The models reach the following with the constants named (everything else as in the
passing run of the module); no run is kept for them. `MC` definitions are named where a
value is one.

| Statement | Constants | Cause |
|---|---|---|
| `OnePath` | `MaxReorgs = 1, MaxReorgDepth = 2, MaxStops = 1` | `startupFunction` (`ChainAnalyzer.cpp:305`) asks Core, not the database, for the hash to expect, so a fork during downtime is masked: `phaseRewind` compares Core with Core, and rows of older orphaned blocks stay |
| `OnePath` | `MaxReorgs = 1, MaxFaults = 1` | recovery from an error (`ChainAnalyzer.cpp:507`) masks a fork as a start does |
| `OnePath` | `MaxReorgs = 3, MaxReorgDepth = 5, MaxHeight = 7, BulkGap = 10` | a header is stored before its hash is compared (`ChainAnalyzer.cpp:992`), so a rewind can stop at a header above rows of another branch |
| `OnePath` | `MaxReorgs = 1, MaxClearFails = 1` | a failed `clearBlocksAboveHeight` is not reported to its caller |
| `AssetRowsDurable` | `AssetHeight = 4, StoreNonAsset = FALSE, BatchSize = 4` | the header batch open when the asset era begins (block 8432315 is no multiple of 100) is closed only when `phaseSync` ends; until then nothing commits |
| `NothingLeftOpen` | the same and `MaxStops = 1` | the `return` in the tip wait skips the end of the batch |
| `ImplementsChainIndex`, `EventuallyIndexed` without `masked` (`BlockPrefetch`) | as in `PrefetchHandover` | the same masked fork after an error, on the pipeline |
| `OracleComplete` without `missed` | as in `ChainEverything`, with the fork alone or the error alone | `_lastOracleEpoch` is not lowered by a rewind or by the recovery from an error, so prices they deleted are not read again before the next start |
| `OracleComplete` without `clearFails = 0` | as in `ChainEverything` | the backfill sets the marker even if its `clearBlocksAboveHeight` failed (`ChainAnalyzer.cpp:421-428`); after a kill the old headers, indexed without tracking, are the newest ones and the marker says there is nothing to do |
| `SummaryKept` | `PruneAge = 1, MaxStops = 1` | a kill inside a prune loses the values it had to keep |
| `MarkerRecorded` | `PruneAge = 1, MaxReorgs = 1, MaxReorgDepth = 3` | `reset()` leaves the RAM copy of `ddSyncHeight` |
| `AlwaysABlock` | the same | `reset()` counts on block 1, which pruning deleted |
| `AlwaysABlock` | `PruneAge = 1, PruneTables = {"exchange", "vote"}, TrackChoices = BOOLEAN, MaxStops = 1` | the backfill looks at UTXO pruning only |
| `RewindStaysAbovePruned` | `PruneAge = 1, MaxReorgs = 1, MaxReorgDepth = 3, MaxStops = 1` | a kill between deleting rows and deleting headers |
| `StoppedMeansStopped` | `MaxReorgs = 1` | -1 confirmations are shown as STOPPED |
| `AlwaysInOrder` | as in `JobsOrdered` | a job is inserted unlocked while its sync value is locked, and overtakes |
| `Drained` without its exception | `MaxThrows = 1` | only timeouts are caught: a failed download keeps its sync value locked until a restart |
| `PromiseAnswered` | `Backlog <- NoBacklog, Kinds <- Waits` | the job is visible before its callback is registered; a quicker worker finds none |
| `AlwaysExclusive` | as in `JobsOrdered` | finishing one unordered job unlocks all of them (`Database.cpp:686`) |
| `PauseEnds` | `MaxBusy = 0` | an unordered pause is never noted in RAM, so never cleared |
| `PauseEnds` | ordered jobs, `MaxTimeouts = 1, MaxBusy = 1` | RAM forgets a pause that a busy database kept |
| `NoRetryAfterDeadline` | `Backlog <- NoBacklog, Kinds <- Waits` | a deadline that has passed is returned as 0, which means none |
| `CallbackRuns` without its exception | `MaxBusy = 1` | the second statement of `removeIPFSJob` fails after the first |
| `MalformedBurns` | as in `TransferConserves` | `docs/asset-rules-and-burns.md:83` says a malformed instruction burns everything; `DigiByteTransaction.cpp:509-551` takes back what was applied and turns all the inputs into change on the last output |
| `Conserved` | `Word` small enough to wrap | the total of a range is computed modulo 2^64 (`DigiByteTransaction.cpp:448`), and an instruction can name any amount below that (`BitIO.cpp:1131`); what keeps totals small is that supplies are |
| `OncePerPeriod` | `Faults = {"read"}` | a failed SELECT of `getLastPayoutAt` returns 0, which is "never paid" (`PoolDatabase.cpp:773-778`): the period is paid again although guard and rows are there |
| `OnePoolPays` | `Pools = {p1, p2}, Automatic = {p1, p2}` | both pools ask the other's ledger before either has paid (`PoolDashboard.cpp:870-875` prefers paying) |
| `NoSilentHour` | one pool, no faults | an unanswered confirmation holds back the automatic payout and its log line |
| `NothingBehind` | `Adders = {mint, mirror}` | the mirror of a peer (`PoolServer.cpp:1278-1285`) and an addition (`:1623-1627`) hold the same page number while one of them fills the page; the page may be done and left before the other inserts (`PoolDatabase.h:98-105` promises the opposite) |
| `NothingBehind` | `Removals = {{c1, c2}}` | `getWritablePage` (`PoolDatabase.cpp:955`) looks at the highest page that holds a row; when removals have emptied the done pages at the top it hands out a page that is done already, and walkers have left, so what is added next is never seen (`PoolDatabase.h:98-105` promises "the highest page that is NOT yet marked done") |
| `NothingBehind` | `Faults = {"mark", "read"}` | a SELECT that fails looks like an empty list or an open page (`PoolDatabase.cpp:958-998`), so rows are added behind the walkers; or like a page with fewer rows (`:1055-1066`) |
| `PinnedInTheEnd` without `Parked` | as in `PagesWalked` | a full page whose mark failed is handed over all the same (`PoolDatabase.cpp:1001-1010`), and a page that lost all its rows is answered with an error: in both cases walkers stand on it for good |
| `NothingBehind` | `PinFails = {c1}` | a pin that throws is only counted (`mctrivia.cpp:581`) and the page left |
| `ProvingPays` | `Peers = {p1, p2}, MaxPaidNodes = 2, Asking = {p1}, MaxChallenges = 1, MaxRounds = 6` | the proof score starts at 0 and gains a fifth a pass, so for its first challenges a node that proves earns less than one that never does (`StoragePlan.h:31-34` against `:97-100`) |
| `FoldedOnce` | `"cut"` in `Faults` | the two statements of `expireChallenges` are not one transaction: a crash between them scores the same challenge again |
| `NewAssetEvicts` | one thread | `newAssetIssued` is announced (`DigiByteTransaction.cpp:732`) before the asset is stored (`:736`); an answer computed in between is cached without it (`Response.h:45`) |

Three more remarks on the cache, which `FreshWhileQuiet` states by what it excludes, and for
which only `EveryAnswerExpires` holds. (A method reads the index in several calls; the model
computes an answer in one step.) An
announcement that passes an answer on its way to the cache (`Server.cpp:565-590`) leaves
that answer stale for as long as it is good for, up to 5760 blocks. Rewinds announce
nothing. Bulk sync announces nothing either, so even an answer good for no block at all
stays for its length, although the comment at `Response.cpp:50-53` says otherwise.

One remark on the pages. A truncated
snapshot lets additions begin below page 23, where no walker looks.

One comment is simply out of date: the description of `mainFunction`
(`ChainAnalyzer.cpp:435`) says the analyzer gives up after ten failures, the code
(`:481`) says and does the opposite, as `EventuallyIndexed` requires.

### Fairness

* `ChainAnalyzer`: weak fairness of the thread's own steps (`Threaded` calls
  `mainFunction` for ever and retries a failed startup) and of `ProcessStart` (somebody
  starts the program again). Nothing is assumed of Core beyond the bound on
  reorganisations, and nothing of errors beyond theirs.
* `IPFSJobs`: weak fairness of each worker, of the two halves of adding a job, and of the
  clock; a request always ends, since every call to the daemon has a time limit.
* `BlockPrefetch`: weak fairness of the two threads; a call to Core has a time limit.
* `RpcCache`: weak fairness of the analyzer (blocks keep coming). None of the RPC threads:
  requests need not come.
* `PermanentPages`: weak fairness of a walker's visits; its thread comes by every ten
  minutes. None of the adders.
* `PoolStorage`: the verifier's loop comes round, requests that began end, an honest node's
  proof arrives or is lost (weak fairness of `LoseProof` and `claimChallenge`). Strong fairness
  only of `Deadline`, which is a clock time: its guard keeps it off while a proof that was sent is
  under way, and a step that is kept off again and again needs more than weak fairness.
* `PoolPayouts`, `AssetTransfer`: none; only safety is stated.

Deadlock is not checked where the system may really stop: a decoded transaction, a
program that has shut down, or environments whose bounds are used up.

## 4. Proofs

Each theorem holds for every value of the constants that the module's `ASSUME` allows, and
for whatever further condition it states. A condition is there because the property fails
without it (section 3 says how). `TypeOK` and the inductive invariants were checked with
TLC on the instances of the runs before they were proved.

### The chain analyzer (`ChainAnalyzerProofs`)

From `DatabaseAssumption` and `AnalyzerAssumption` (any chain length, any number of
branches, forks, errors, failed repairs and stops, any settings):

* `TypeCorrectness`: `Spec => []TypeOK`;
* `NoGapInvariance`: `Spec => []NoGap`, the property `isHeightIndexed` promises its
  callers, of what readers see and of what a restart finds;
* `TransactionsEnd` and `ProcessedBlocksAreDurable`: with `storenonassetutxo` set,
  `Spec => []NothingLeftOpen` and `Spec => []AssetRowsDurable`;
* `MarkerIsRecorded`: with `storenonassetutxo` set and no pruning,
  `Spec => []MarkerRecorded`;
* `PruningKeepsSummaries` and `RewindsStayAbovePruned`:
  `Spec /\ PruningsFinish => []SummaryKept` and `... => RewindStaysAbovePruned`, an action
  property, where `PruningsFinish` says that a prune is not cut off between two statements;
* `PricesAreComplete`: `Spec => []OracleComplete`, through forks, errors, kills and pruning; the
  epochs lost on the way are named by `missed`, and a failed repair is the property's exception.

`NoGap` is not inductive: it speaks of stored headers, while the code relies on what it
has in hand. `IndexInv` adds that outside a transaction `disk = db` (`Committed`), and,
by place in the code (`PlaceInv`): all below `height` is indexed; `hash` is a block of
height `height`; `next` is one higher; and after `ProcessBlock` the block in hand is in
`rows`, so that the header stored next leaves no gap. There is a lemma per action, and
lemmas for each database operator. The last two rest on `DepthInv`: the depth is 1
exactly while a block is processed.

`MarkerIsRecorded` needs to know that `reset()` is never called, because that leaves the
RAM copy of the flag behind. `HistoryInv` says so: without pruning the headers have no
hole down to block 1, so a rewind always finds one to compare. It adds that the RAM copy
agrees with the table, and that a tracking node without the marker is not yet past
activation.

For pruning, `PruneInv` describes the database by the statement `phasePrune` is at: outside
it every table is whole (what is pruned from it lies below each stored header and below
`height`, its summary is there); inside, the table in hand is half-way. What is on disk is
whole or equal to what the analyzer sees. A rewind goes only to stored headers, which lie
above what is pruned. `DueProps` and `NextTable` are about the order of the statements,
whatever tables are chosen.

For prices, `OracleInv` says that a marked database has below each of its headers every price
or finds its epoch in `missed` (`Complete`, `PricedBelow`), in the open transaction and on disk,
so that a start may trust either; `PriceInv` adds the thread's own height to that. `EpochInv`:
every epoch from the thread's height up to `_lastOracleEpoch` has its price or is missed, and
no price lies above the thread, so that an epoch not asked for is one already stored (epochs do
not decrease with the height, `EpochMonotone`). The marker exists only while tracking is on
(`MarkerInv`), and unless it is going back the thread works on the newest header (`NewestInv`).
The step to show is the end of a rewind or of a recovery (`RevisitOracle`): the epochs whose
prices it deleted and which `_lastOracleEpoch` will not have read again are exactly those it
adds to `missed`. The invariant is carried until a repair fails (`clearFails = 0 => OracleInv`).

* `IndexIsOnePath`: `Spec /\ []Unmasked => []OnePath`;
* `AnalyzerImplementsIndex`: with `storenonassetutxo` set,
  `Spec /\ []Unmasked => ImplementsChainIndex`.

`Unmasked` says that no `clearBlocksAboveHeight` has failed and that `phaseSync` begins on a
block whose header is stored and continues the header below it (`Resumes`). That is what
`startupFunction` and the recovery of `mainFunction` take for granted when they ask Core for
the hash to expect; section 3 has a trace for each way in which it fails, and TLC finds
`OnePath` violated as soon as one of the two parts is dropped. Forks themselves are not
restricted: any number of them, of any depth, at any step.

`PathInv` has three parts, of the open transaction and of the disk. `Path`: what is written
(rows and prices) is a chain, and lies on the chain of every header above it, except that the
newest header may be a stray one, stored from a branch the index does not follow.
`BoundInv`: outside a rewind nothing is stored above the thread. `HandInv`: the block in hand
continues what is stored. A stray header is what `InsertHeader` can leave, since it stores a
header before the hash of the block is compared; the next rewind removes it, because it
compares the header below. For the refinement the abstract chain is the longest block in
`rows` (`TipOf`), and `RowInv` says that the rows are exactly its ancestors as far as blocks
have to be processed; `BlockExtends` is then the one step that extends it, and a rewind or a
roll back cuts its newest end (`TipDrops`).

### The prefetch pipeline (`BlockPrefetchProofs`)

* `PrefetchTypeCorrectness`: `Spec => []TypeOK`, the bound on the read-ahead included;
* `HeadIsExpected`: `Spec => []Lockstep`;
* `PipelineStaysOnChain`: `Spec => []FrontierSafe`;
* `PrefetchImplementsIndex`: `Spec => ImplementsChainIndex`, step by step: every step but the
  one that masks a fork, and those after it, is one of `ChainIndex`.

`PrefetchInv` says of every fetched block, however old the answer, that the next block it
names is its child (`AllSound`), and that queue and producer together continue the block
the analyzer has (`Chained`): the head follows what is expected, each item the one before
it, and what the producer asks for follows the last item. `Room` carries the bound through
the producer's unlocked fetch. The refinement rests on `IndexInv`: the database has rows up to
the newest header or the one before it (`Stored`), the analyzer asks for the block above the
newest header (`Placed`), and until a fork is masked the rows are those of one chain, of which
the block at hand is the newest or its child (`OneChain`). The steps to show are `MainEnter`
and `StartFrom`: a pass begins from a hash of Core's, and `masked` is set just when that hash
does not continue the rows. `Frontier` says that while the deepest
reorganisation is shallower than the bulk gap, what a bulk fetch names as next lies too
deep for any reorganisation to reach.

### The job queue (`IPFSJobsProofs`)

* `JobsTypeCorrectness`: `Spec => []TypeOK`;
* `CallbacksRun`: `Spec => []CallbackRuns`;
* `DoneInOrder`: `Spec => []InOrder`;
* `HandedOutOnce`: `Spec => []Exclusive`, both for any jobs, added at any time.

`CallbackInv` accounts for every job that is gone: it is with the worker that will call it, or
was called. `LockInv` is about the locks. The rows of an ordered sync value are locked and paused
alike, except those that were inserted late (`Alike`), so that what a worker has hold of is the
oldest of them, or late itself (`AtOldest`). As long as nobody else takes the lock away, a
worker's job is in the table, locked while it is worked on, and in no other worker's hands
(`Held`, `HeldBy`); what takes it away is written down in `freed`, and that is only the unlocking by
sync value of `removeIPFSJob` and `pauseIPFSSync`. What is about to be inserted is unlocked
(`AddingUnlocked`). `SharedInv` is what they rest on: one worker at a time selects and locks (the
mutex of `getNextIPFSJob`), and a job keeps its sync value.

### Payouts (`PoolPayoutsProofs`)

* `WalletExclusion`: `Spec => []SpendUnlocked`;
* `NeverPaidTwice`: `Spec => []OncePerGuardedPeriod`;
* `LedgerIsSound`: `Spec => []LedgerSound`;
* `BatchesFitBalance`: if `RoundingInBase`, `Spec => []Affordable`.

`WalletInv` adds that the announce thread is outside the wallet while a payout is in it.
For `OncePerGuardedPeriod`, `Witnessed` says that every batch that went out with its guard row has
left a row of its hour that no later execution takes back (`Keeps`), so that the ledger, when it
can be read, tells when a payout is due, and `DueInv` that between a check that read it and the
broadcast neither a row nor a guarded batch of this period appears, the guard's own row
apart. For `LedgerSound`, `Recording` says that the batch whose rows are being written is
the one that was broadcast, and has no row yet for an address still to be recorded.

`RoundingInBase` says that no payout has more targets than two for each unit of the base fee.
The base is a million satoshis (`PoolDashboard.cpp:312`), so this allows two million targets.
Each share is rounded half up (`RoundedUp`), so that a batch can exceed the budget by half a
satoshi for each address (`RoundingBound`: a least set of addresses for which it would not hold has
no last element); the reserve `computeBudget` keeps for fees is the base and the fee of each
output, so what rounding adds is taken from the base (`BudgetLeavesFees`, `RoundingFits`).
`AffordInv` carries `Covered`, the inequality for a planned batch against the balance it was planned from,
from the plan over the operator's confirmation to the broadcast.

### The permanent list (`PermanentPagesProofs`)

* `NothingLeftBehind`: with one adder, pins that do not throw and SELECTs that do not fail,
  `Spec /\ []DonePagesHeld => []NothingBehind`;
* `PagesAreHeldUntilRemoval`: without removals `Spec => []DonePagesHeld`, for any number
  of adders.

`DonePagesHeld` says that no done page lies above the highest page with rows. It is what
`getWritablePage` takes for granted, and only removals break it. `WalkInv` adds that what
an addition still has to insert goes above every done page (`AddsAhead`), which `ChoiceIsAhead`
gives whether or not the full page could be marked, that a walker
has left done pages only (`LeftDone`), and that a body that says done lacks no row of its
page (`BodyWhole`).

### The response cache (`RpcCacheProofs`)

* `CacheIsFresh`: `Spec => []FreshWhileQuiet`, for any number of threads, keys and
  addresses and any size of the cache;
* `CacheIsAccounted`: `Spec => []Accounted`, for any sizes of answers and any limit, one that
  no answer fits included.

`FreshInv` says that while `quiet` holds every cached answer, and every answer on its way
to the cache, agrees with the index except for items that are still to be announced; and
that between `newAssetIssued` and the storing of the asset, which come in that order,
nobody has an answer about the list of assets (`ListDropped`). What is evicted does not
matter: a smaller cache is as fresh.

For `Accounted` the bytes of a set of entries are counted (`Taken`), so that adding, replacing and
dropping entries adds and subtracts disjoint sets (`AccountInv`). That the loop of
`removeOldestEntries` frees enough is `EnoughEvicted`: the newest entry that stays is there
because with all that is older evicted the total fits.

### Transfers (`AssetTransferProofs`)

For any assets, transactions, orders and instructions:

* `TransferTypes`: `Spec => []TypeOK`;
* `OutputsStayCompact`: `Spec => []Compact`;
* `UnitsConserved`: if `NoWrap`, `Spec => []Conserved`;
* `LossesReported`: if `NoWrap`, `Spec => []LossReported`;
* `OrdersReadAsBuilt`: if `Sendable`, `Spec => []RoundTrip`.

`NoWrap` says that an amount, of an instruction or of a chunk on the inputs, times the number
of outputs of the transaction is below `Word`. The code does not check it, it is about ranges
only, and without it `Conserved` fails (section 3). A script can name such an amount; one that
moves what its inputs hold does not.

`Shape` is the type invariant; with it every place the interpreter looks at is there
(`FrontIsThere`, `RoutedIsThere`, `LeftoverPlace`). What the steps do to the units is a lemma
for each: a removal takes from the front of the input what the instruction gains
(`RemoveMoves`), carrying it out gives each of its outputs the amount (`ApplyMoves`,
`CountAllSpread`), a leftover moves to the last output (`ChangeMoves`), the sweep only lowers
(`SweepLowers`), and the copy of the inputs has their units although it leaves out the empty
ones (`CopiedCounts`, by counting them off, `NthInput`). `ConserveInv` adds to `Conserved`
that the total of an instruction is its amount times its outputs if they are all there
(`Exact`), for which no chunk left may be larger than those at the start. `ReportInv` adds
that an issuance that spends assets is reported from the start. The sums rest on facts about
cardinalities: equal values at other places add up to the same (`SumMoved`), one value changed
(`SumChanged`), the same added at several places (`SumSpread`).

`Sendable` is what `addInput`, `setIssuance`, `addAssetBurn` and `encodeAssetOpReturn` make of an
order: it is not on the chain yet, its version is 3, every chunk on its inputs has units (what
`Compact` promises of the outputs they spend), burns are only declared in a burn, and no asset is
put on an output without an address. `MCAssetTransfer` has TLC evaluate both hypotheses on the
instance it checks.

`RoundTrip` relates the runs of two loops, the wallet's and the interpreter's, over the same
inputs. The invariant `TripInv` says that the script has a history (`Follows`): for each instruction
the position in the inputs at which it was written (the input, the chunk on it, the units left of
that chunk) and what had been paid to each output and to the burn marker before it. While the
wallet works, its inputs are those of the order counted down to the last position
(`CountedDown`), and what is paid and what is still wanted make the order (`Owes`). While a node reads,
its inputs are those of the order with everything before the position of the next instruction
taken off (`TakenOff`), and its outputs hold what is paid at that position (`Holds`). `WalletMoves` and
`InterpreterMoves` say that an instruction moves both by the same amount: it never crosses a
chunk, so that nothing is refused, not even of a hybrid asset. At the end the history gives
the order (`Settled`), no input has a leftover (`ReadOut`), and the sweep finds nothing to take.

### Storage (`PoolStorageProofs`)

From `PlanConstants` alone (finitely many peers, a strict total order for each file, at
least one replica), what `StoragePlan.h` says of rendezvous hashing:

* `StayerKeepsItsFiles`: when a paid node is lost, a node that stays keeps every file it
  is assigned;
* `LossMovesOnlyItsFiles`: losing a node that was not assigned a file leaves that file's
  assignees as they were. Read backwards both speak of a node that is added;
* `OnlyNewcomersTake`: between any two paid sets, a node in both loses a file only to a
  newcomer that is assigned it.

The nodes ahead of `n` are a finite set (`AheadFinite`) that can only shrink with the paid
set (`AheadMonotone`), which gives the first. For the second, a node that was not assigned
a file has `Replicas` nodes ahead of it; the order being transitive, it is ahead only of
nodes that were not assigned the file either. For the third, the first of the newcomers
ahead has fewer than `Replicas` nodes ahead of it.

Of the running pool:

* `StorageTypeCorrectness`: `Spec => []TypeOK`: scores stay in their range;
* `VerdictsFoldedOnce`: unless the process ends between the two statements of
  `expireChallenges`, `Spec => []FoldedOnce`;
* `HonestLoseOnlyForTheLost`: `Spec => OnlyForTheLost`, an action property;
* `FilesMoveOnlyWithTheirNodes`: `Spec => OnlyItsFilesMove`, an action property, from
  `OnlyNewcomersTake`.

`StorageInv` says what a request that has claimed a challenge still finds when it comes
back with the verdict: the row is there and answered, so nobody else closes it; and, by
`RowInv`, that a proof an honest node sent has been claimed by the deadline or was lost.

### Only model-checked

* Liveness: it needs fairness and `ENABLED`. Every safety invariant that a passing run checks
  is stated by a theorem above, some of them under the hypotheses named there.

## 5. Not modelled

* Presentation and I/O: the dashboards, logs, statistics, the web server, the front ends,
  HTTP and socket handling, request parsing.
* What processing a block writes, table by table; KYC, domains, votes, exchange rates and
  DigiDollar rows are one member of `rows`.
* Encodings: an instruction, a hash or an amount is a value, not bits. `BitIO` and
  `Base58` are pure conversions for which a loop over inputs in a unit test does as much.
* The asset wallet's choice of coins; asset rules beyond "pass" and "fail"; IPFS metadata.
* Instance lock, configuration, start order of `AppMain`.
* Vendored code: SQLite alone is 236 000 of the 289 000 lines of C and C++ under the root,
  so the modelled code is a small share of the total and a larger one of the program's own.

## 6. Plan

1. *Done*: the modules, runs and proofs above.
2. `IndexTables`: the tables of `clearBlocksAboveHeight` separately (created/destroyed
   heights, revocations, domains and pool tables that are not rolled back), refining the
   single `rows`; roll back followed by reprocessing gives the same contents.
3. Composition of `ChainAnalyzer` and `IPFSJobs` on their shared connection: a roll back
   of a block takes back queue writes made meanwhile.
4. `ThreadedLifecycle` (`Threaded.cpp`, `UniqueTaskQueue.cpp`): start and stop racing.
5. DigiDollar accounting, the wallet's coin selection, fixed precision in `BitIO`.
