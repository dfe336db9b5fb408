------------------------------- MODULE RpcCache -------------------------------
(***************************************************************************)
(* The response cache of the RPC server: a pool of threads answers         *)
(* requests from the cache or from the index and caches what it computed   *)
(* (Server::executeCall, RPC::Cache, RPC::Response), while the analyzer    *)
(* changes the index and announces what it changed (processTX,             *)
(* addToDatabase, phaseSync).                                              *)
(*                                                                         *)
(* The index is a version number for each address and for the list of      *)
(* assets; an answer is the versions it was computed from.  Every call of  *)
(* the cache holds its mutex and is one step.  A request found in the      *)
(* cache changes nothing and is left out.  A definition whose comment says *)
(* "Mutant" is a mutant of the one after it.                               *)
(***************************************************************************)
EXTENDS Integers, FiniteSets

CONSTANTS
    Keys,           \* method and parameters of a request
    Threads,        \* rpcthreads
    Addresses,
    Watches,        \* [Keys -> SUBSET Addresses]: addInvalidateOnAddressChange
    OnNewAsset,     \* keys whose answers call setInvalidateOnNewAsset
    GoodFor,        \* [Keys -> Int]: setBlocksGoodFor, negative for never cache
    Sizes,          \* [Keys -> the sizes an answer may have]
    EntryOverhead,  \* _entryOverhead
    MaxCacheSize,   \* _maxCacheSize
    MaxTxs,         \* bound on the transactions of the analyzer
    MaxUndone       \* bound on rewinds and failed blocks

ASSUME CacheConstants ==
    /\ Watches \in [Keys -> SUBSET Addresses] /\ OnNewAsset \subseteq Keys
    /\ GoodFor \in [Keys -> Int] /\ \A k \in Keys : Sizes[k] \subseteq Nat \ {0}
    /\ {EntryOverhead, MaxCacheSize, MaxTxs, MaxUndone} \subseteq Nat
    /\ "assets" \notin Addresses

VARIABLES
    data,           \* [Items -> Nat]: the index as RPC threads read it
    cacheMap,       \* the entry of each cached key; "older" are the keys with an earlier timestamp
    currentCacheSize,
    request,        \* [Threads -> a request between its steps]
    analyzer,       \* the transaction the analyzer is in the middle of
    bulkSync,       \* more than 110 blocks behind
    quiet,          \* nothing has happened that the cache cannot know of (see FreshWhileQuiet)
    txs, undone

vars == <<data, cacheMap, currentCacheSize, request, analyzer, bulkSync, quiet, txs, undone>>

AssetList == "assets"
Items == Addresses \cup {AssetList}

\* What the answer to k depends on.
Reads(k) == Watches[k] \cup IF k \in OnNewAsset THEN {AssetList} ELSE {}

Idle   == [step |-> "idle"]
Asleep == [step |-> "idle", todo |-> {}, issuance |-> FALSE]

Init ==
    /\ data = [i \in Items |-> 0]
    /\ cacheMap = [k \in {} |-> Idle] /\ currentCacheSize = 0
    /\ request = [t \in Threads |-> Idle]
    /\ analyzer = Asleep /\ bulkSync = TRUE /\ quiet = TRUE
    /\ txs = 0 /\ undone = 0

-----------------------------------------------------------------------------
(* Requests.                                                                *)

\* isCached()
Cached(k) == k \in DOMAIN cacheMap

\* executeCall(), when isCached() finds nothing.
Miss(t, k) ==
    /\ request[t] = Idle /\ ~Cached(k)
    /\ request' = [request EXCEPT ![t] = [step |-> "compute", key |-> k]]
    /\ UNCHANGED <<data, cacheMap, currentCacheSize, analyzer, bulkSync, quiet, txs, undone>>

\* The method reads the index.
Compute(t) ==
    /\ request[t].step = "compute"
    /\ LET k == request[t].key
       IN  /\ \E size \in Sizes[k] :
                request' = [request EXCEPT ![t] =
                    [step |-> "store", key |-> k, size |-> size,
                     answer |-> [i \in Reads(k) |-> data[i]]]]
           /\ quiet' = (quiet /\ ~(analyzer.step = "save" /\ analyzer.issuance /\ k \in OnNewAsset))
    /\ UNCHANGED <<data, cacheMap, currentCacheSize, analyzer, bulkSync, txs, undone>>

isCacheable(k) == GoodFor[k] >= 0

\* Mutant: an answer that replaces another is added in full.
GrownInFull(k, size) == currentCacheSize + size + EntryOverhead

\* The running total with an answer of this size: a new entry, or the
\* difference to the one it replaces.
Grown(k, size) ==
    currentCacheSize + size - IF Cached(k) THEN cacheMap[k].size ELSE -EntryOverhead

\* What the entries of these keys take up, each byte told apart by the key of its entry.
Taken(entries, keys) ==
    Cardinality(UNION {{k} \X (1..(entries[k].size + EntryOverhead)) : k \in keys})

\* The entries of these keys without the others.
Only(entries, keys) == [k \in keys |-> [entries[k] EXCEPT !.older = @ \cap keys]]

\* The entries with a new or renewed one, the youngest.
Renewed(k, answer, size) ==
    [j \in DOMAIN cacheMap \cup {k} |->
        IF j = k THEN [answer |-> answer, size |-> size, left |-> GoodFor[k], older |-> DOMAIN cacheMap \ {k}]
        ELSE [cacheMap[j] EXCEPT !.older = @ \ {k}]]

\* removeOldestEntries(): an entry goes if the running total is still too large
\* without the older ones.
Evicted(entries, total) ==
    {k \in DOMAIN entries : total - Taken(entries, entries[k].older) > MaxCacheSize}

\* addResponse(): the entry is added or renewed, and the oldest make room.
addResponse(t) ==
    /\ request[t].step = "store"
    /\ LET k == request[t].key
           entries == Renewed(k, request[t].answer, request[t].size)
           total == Grown(k, request[t].size)
           evicted == Evicted(entries, total)
       IN  IF isCacheable(k)
           THEN /\ cacheMap' = Only(entries, DOMAIN entries \ evicted)
                /\ currentCacheSize' = total - Taken(entries, evicted)
           ELSE UNCHANGED <<cacheMap, currentCacheSize>>
    /\ request' = [request EXCEPT ![t] = Idle]
    /\ UNCHANGED <<data, analyzer, bulkSync, quiet, txs, undone>>

-----------------------------------------------------------------------------
(* Announcements.                                                           *)

\* Of these entries the ones of "kept" stay, with the running total reduced by the others.
Keep(entries, kept) ==
    /\ cacheMap' = Only(entries, kept)
    /\ currentCacheSize' = currentCacheSize - Taken(entries, DOMAIN entries \ kept)

\* Is an answer that item changes on its way to the cache?
InFlight(item) == \E t \in Threads : request[t].step = "store" /\ item \in DOMAIN request[t].answer

addressChanged(a) == Keep(cacheMap, {k \in DOMAIN cacheMap : a \notin Watches[k]})

newAssetIssued == Keep(cacheMap, DOMAIN cacheMap \ OnNewAsset)

\* Mutant: a response good for so many blocks is dropped after them and one more.
BlockAddedLate == [k \in DOMAIN cacheMap |-> [cacheMap[k] EXCEPT !.left = IF @ > 0 THEN @ - 1 ELSE @]]

\* Response::newBlockAdded(): one block less.
BlockAdded == [k \in DOMAIN cacheMap |-> [cacheMap[k] EXCEPT !.left = @ - 1]]

newBlockAdded == Keep(BlockAdded, {k \in DOMAIN cacheMap : BlockAdded[k].left >= 0})

-----------------------------------------------------------------------------
(* The analyzer.                                                            *)

\* addToDatabase() of an issuance begins with newAssetIssued(), bulk sync or not.
BeginTx ==
    /\ analyzer = Asleep /\ txs < MaxTxs /\ txs' = txs + 1
    /\ \E touched \in (SUBSET Addresses) \ {{}}, issuance \in BOOLEAN :
        /\ analyzer' = [step |-> "save", todo |-> touched, issuance |-> issuance]
        /\ IF issuance
           THEN newAssetIssued /\ quiet' = (quiet /\ ~InFlight(AssetList))
           ELSE UNCHANGED <<cacheMap, currentCacheSize, quiet>>
    /\ UNCHANGED <<data, request, bulkSync, undone>>

\* Mutant: the first of several addresses is skipped.
ToAnnounceButFirst ==
    IF Cardinality(analyzer.todo) = 1 THEN analyzer.todo
    ELSE analyzer.todo \ {CHOOSE a \in analyzer.todo : TRUE}

\* The addresses of inputs and outputs.
ToAnnounce == analyzer.todo

\* Its rows are written; in bulk sync the addresses are not announced.
SaveTx ==
    /\ analyzer.step = "save"
    /\ data' = [i \in Items |-> data[i] +
                   IF i \in analyzer.todo \/ (analyzer.issuance /\ i = AssetList) THEN 1 ELSE 0]
    /\ analyzer' = IF bulkSync THEN Asleep ELSE [analyzer EXCEPT !.step = "announce", !.todo = ToAnnounce]
    /\ quiet' = (quiet /\ ~bulkSync)
    /\ UNCHANGED <<cacheMap, currentCacheSize, request, bulkSync, txs, undone>>

\* The addresses one after the other.
Announce ==
    /\ analyzer.step = "announce"
    /\ \E a \in analyzer.todo :
        /\ addressChanged(a)
        /\ quiet' = (quiet /\ ~InFlight(a))
        /\ analyzer' = IF analyzer.todo = {a} THEN Asleep ELSE [analyzer EXCEPT !.todo = @ \ {a}]
    /\ UNCHANGED <<data, request, bulkSync, txs, undone>>

\* The end of a block; in bulk sync the cache is not told.
BlockDone ==
    /\ analyzer = Asleep /\ ~bulkSync /\ newBlockAdded
    /\ UNCHANGED <<data, request, analyzer, bulkSync, quiet, txs, undone>>

\* The analyzer comes near the tip.
CatchUp ==
    /\ analyzer = Asleep /\ bulkSync /\ bulkSync' = FALSE
    /\ UNCHANGED <<data, cacheMap, currentCacheSize, request, analyzer, quiet, txs, undone>>

\* A rewind, or the roll back of a block that failed, changes the index and
\* tells nobody.
Undo ==
    /\ undone < MaxUndone /\ undone' = undone + 1
    /\ data' = [i \in Items |-> data[i] + 1]
    /\ analyzer' = Asleep /\ quiet' = FALSE
    /\ UNCHANGED <<cacheMap, currentCacheSize, request, bulkSync, txs>>

Analyzer == BeginTx \/ SaveTx \/ Announce \/ BlockDone \/ CatchUp

Next ==
    \/ \E t \in Threads : Compute(t) \/ addResponse(t) \/ \E k \in Keys : Miss(t, k)
    \/ Analyzer \/ Undo

Spec == Init /\ [][Next]_vars

\* Blocks keep coming, so the analyzer's thread goes on.
FairSpec == Spec /\ WF_vars(Analyzer)

-----------------------------------------------------------------------------
(* Properties.                                                              *)

\* No entry that must not be cached or has expired, and one of them the oldest.
TypeOK ==
    /\ data \in [Items -> Nat] /\ currentCacheSize \in Int
    /\ DOMAIN cacheMap \subseteq Keys
    /\ \A k \in DOMAIN cacheMap : /\ cacheMap[k].size \in Sizes[k] /\ cacheMap[k].left >= 0
                                  /\ cacheMap[k].older \subseteq DOMAIN cacheMap \ {k}
                                  /\ \A j \in DOMAIN cacheMap \ {k} :
                                        j \in cacheMap[k].older <=> k \notin cacheMap[j].older
    /\ analyzer.todo \subseteq Addresses /\ {bulkSync, quiet} \subseteq BOOLEAN

\* The running total is what the entries take up, and it fits, whichever
\* threads add and renew entries and whatever is invalidated in between.
Accounted ==
    /\ currentCacheSize = Taken(cacheMap, DOMAIN cacheMap)
    /\ currentCacheSize <= MaxCacheSize

\* What is cached is what the index says, once a transaction is announced, as
\* long as the node is near the tip, nothing was undone, no announcement passed
\* an answer on its way to the cache, and no answer about the list of assets was
\* computed between newAssetIssued() and addAsset().
FreshWhileQuiet ==
    quiet /\ analyzer = Asleep =>
        \A k \in DOMAIN cacheMap : \A item \in DOMAIN cacheMap[k].answer :
            cacheMap[k].answer[item] = data[item]

\* Nothing is served from the cache for ever, stale or not: once near the tip
\* every entry goes.
EveryAnswerExpires == \A k \in Keys : Cached(k) ~> ~Cached(k)

(* Statements of the source's comments that the code does not keep; see the README. *)

\* An answer that lists the assets is evicted as soon as one is issued.
NewAssetEvicts ==
    analyzer = Asleep /\ ~bulkSync /\ undone = 0 =>
        \A k \in OnNewAsset : Cached(k) => cacheMap[k].answer[AssetList] = data[AssetList]
=============================================================================
