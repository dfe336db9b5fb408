--------------------------- MODULE RpcCacheProofs ---------------------------
(***************************************************************************)
(* The response cache serves current answers, whatever the interleaving of *)
(* the RPC threads with the analyzer, as long as nothing happened that it  *)
(* cannot know of (FreshWhileQuiet), and its running total is what its     *)
(* entries take up (Accounted), for any number of threads, requests,       *)
(* addresses and transactions and any size of the cache.                   *)
(***************************************************************************)
EXTENDS RpcCache, FiniteSetTheorems, WellFoundedInduction, TLAPS

\* A cached answer is about what its key reads.
Entry(k) == [answer : [Reads(k) -> Int], size : Sizes[k], left : Int, older : SUBSET Keys]

EntriesTyped ==
    /\ DOMAIN cacheMap \subseteq Keys
    /\ \A k \in DOMAIN cacheMap : cacheMap[k] \in Entry(k)

\* So is an answer on its way to the cache.
RequestsTyped ==
    /\ DOMAIN request = Threads
    /\ \A t \in Threads :
        /\ request[t].step \in {"compute", "store"} => request[t].key \in Keys
        /\ request[t].step = "store" => /\ request[t].answer \in [Reads(request[t].key) -> Int]
                                        /\ request[t].size \in Sizes[request[t].key]

AnalyzerTyped ==
    /\ analyzer \in [step : {"idle", "save", "announce"}, todo : SUBSET Addresses, issuance : BOOLEAN]
    /\ data \in [Items -> Int]

\* The rows of this item have changed and the cache has not been told yet.
Pending(item) == analyzer.step = "announce" /\ item \in analyzer.todo

Current(answer) == \A item \in DOMAIN answer : answer[item] = data[item] \/ Pending(item)

CacheCurrent == quiet => \A k \in DOMAIN cacheMap : Current(cacheMap[k].answer)

FlightCurrent == quiet => \A t \in Threads : request[t].step = "store" => Current(request[t].answer)

\* The list of assets is announced before it changes: until then nobody has an
\* answer about it.
ListDropped ==
    quiet /\ analyzer.step = "save" /\ analyzer.issuance =>
        DOMAIN cacheMap \cap OnNewAsset = {} /\ ~InFlight(AssetList)

FreshInv ==
    /\ EntriesTyped /\ RequestsTyped /\ AnalyzerTyped
    /\ CacheCurrent /\ FlightCurrent /\ ListDropped

-----------------------------------------------------------------------------
(* The operators.                                                           *)

\* The list of assets is read by the keys that setInvalidateOnNewAsset names, an address
\* by those that watch it.
LEMMA ReadsSplit ==
    ASSUME NEW k \in Keys
    PROVE  /\ AssetList \in Reads(k) <=> k \in OnNewAsset
           /\ \A a \in Addresses : a \in Reads(k) <=> a \in Watches[k]
           /\ Reads(k) \subseteq Items
  BY CacheConstants DEF Reads, AssetList, Items

\* Dropping entries leaves the answers of the others.
LEMMA OnlyKeeps ==
    ASSUME NEW entries, NEW keys \in SUBSET Keys, \A k \in keys : entries[k] \in Entry(k)
    PROVE  /\ DOMAIN Only(entries, keys) = keys
           /\ \A k \in keys : /\ Only(entries, keys)[k] \in Entry(k)
                              /\ Only(entries, keys)[k].answer = entries[k].answer
  BY DEF Only, Entry

-----------------------------------------------------------------------------
(* Changes of the cache: an entry is kept with its answer, or it is the one  *)
(* a request brought.                                                       *)

\* What addressChanged, newAssetIssued and newBlockAdded leave in the cache was there.
LEMMA KeepKeeps ==
    ASSUME EntriesTyped, NEW entries, NEW kept \in SUBSET DOMAIN cacheMap,
           \A k \in DOMAIN cacheMap : entries[k] \in Entry(k) /\ entries[k].answer = cacheMap[k].answer,
           Keep(entries, kept)
    PROVE  /\ EntriesTyped' /\ DOMAIN cacheMap' = kept
           /\ \A k \in kept : cacheMap'[k].answer = cacheMap[k].answer
<1>1. kept \in SUBSET Keys /\ \A k \in kept : entries[k] \in Entry(k)
  BY DEF EntriesTyped
<1>2. cacheMap' = Only(entries, kept)
  BY DEF Keep
<1>3. /\ DOMAIN cacheMap' = kept
      /\ \A k \in kept : cacheMap'[k] \in Entry(k) /\ cacheMap'[k].answer = entries[k].answer
  BY <1>1, <1>2, OnlyKeeps
<1>4. EntriesTyped'
  BY <1>1, <1>3 DEF EntriesTyped, Entry, Reads
<1> QED BY <1>3, <1>4

\* After addressChanged(a) no entry watches a.
LEMMA AddressChangedDrops ==
    ASSUME EntriesTyped, NEW a, addressChanged(a)
    PROVE  /\ EntriesTyped' /\ DOMAIN cacheMap' = {k \in DOMAIN cacheMap : a \notin Watches[k]}
           /\ \A k \in DOMAIN cacheMap' : cacheMap'[k].answer = cacheMap[k].answer
  BY KeepKeeps DEF addressChanged, EntriesTyped

\* After newAssetIssued() no entry lists the assets.
LEMMA NewAssetIssuedDrops ==
    ASSUME EntriesTyped, newAssetIssued
    PROVE  /\ EntriesTyped' /\ DOMAIN cacheMap' = DOMAIN cacheMap \ OnNewAsset
           /\ \A k \in DOMAIN cacheMap' : cacheMap'[k].answer = cacheMap[k].answer
  BY KeepKeeps DEF newAssetIssued, EntriesTyped

\* A block more changes no answer.
LEMMA NewBlockAddedDrops ==
    ASSUME EntriesTyped, newBlockAdded
    PROVE  /\ EntriesTyped' /\ DOMAIN cacheMap' \subseteq DOMAIN cacheMap
           /\ \A k \in DOMAIN cacheMap' : cacheMap'[k].answer = cacheMap[k].answer
<1> DEFINE kept == {k \in DOMAIN cacheMap : BlockAdded[k].left >= 0}
<1>1. \A k \in DOMAIN cacheMap : BlockAdded[k] \in Entry(k) /\ BlockAdded[k].answer = cacheMap[k].answer
  BY DEF EntriesTyped, BlockAdded, Entry
<1>2. kept \in SUBSET DOMAIN cacheMap
  OBVIOUS
<1>3. Keep(BlockAdded, kept)
  BY DEF newBlockAdded
<1> HIDE DEF kept
<1> QED BY <1>1, <1>2, <1>3, KeepKeeps

\* addResponse() puts one answer in; whatever else is left was there.
LEMMA AddResponsePuts ==
    ASSUME EntriesTyped, RequestsTyped, NEW t \in Threads, addResponse(t)
    PROVE  /\ EntriesTyped'
           /\ \A k \in DOMAIN cacheMap' :
                \/ k \in DOMAIN cacheMap /\ cacheMap'[k].answer = cacheMap[k].answer
                \/ k = request[t].key /\ cacheMap'[k].answer = request[t].answer
<1> DEFINE k0 == request[t].key
           entries == Renewed(k0, request[t].answer, request[t].size)
           left == DOMAIN entries \ Evicted(entries, Grown(k0, request[t].size))
<1>1. /\ request[t].step = "store" /\ k0 \in Keys /\ request[t].size \in Sizes[k0]
      /\ request[t].answer \in [Reads(k0) -> Int]
  BY DEF addResponse, RequestsTyped
<1>2. \/ cacheMap' = cacheMap
      \/ cacheMap' = Only(entries, left)
  BY DEF addResponse
<1>3. /\ DOMAIN entries = DOMAIN cacheMap \cup {k0}
      /\ entries[k0].answer = request[t].answer /\ entries[k0] \in Entry(k0)
      /\ \A k \in DOMAIN cacheMap : k # k0 => entries[k] \in Entry(k) /\ entries[k].answer = cacheMap[k].answer
  BY <1>1, CacheConstants DEF Renewed, Entry, EntriesTyped
<1>4. left \subseteq DOMAIN entries /\ left \in SUBSET Keys
  BY <1>1, <1>3 DEF EntriesTyped
<1> HIDE DEF entries, left
<1>5. CASE cacheMap' = cacheMap
  BY <1>5 DEF EntriesTyped, Entry, Reads
<1>6. CASE cacheMap' = Only(entries, left)
  <2>1. \A k \in left : entries[k] \in Entry(k)
    BY <1>3, <1>4
  <2>2. /\ DOMAIN cacheMap' = left
        /\ \A k \in left : cacheMap'[k] \in Entry(k) /\ cacheMap'[k].answer = entries[k].answer
    BY <1>4, <1>6, <2>1, OnlyKeeps
  <2>3. EntriesTyped'
    BY <1>4, <2>2 DEF EntriesTyped, Entry, Reads
  <2>4. \A k \in left : \/ k \in DOMAIN cacheMap /\ cacheMap'[k].answer = cacheMap[k].answer
                        \/ k = k0 /\ cacheMap'[k].answer = request[t].answer
    BY <1>3, <1>4, <2>2
  <2> QED BY <2>2, <2>3, <2>4
<1> QED BY <1>2, <1>5, <1>6

-----------------------------------------------------------------------------
(* The steps.                                                               *)

\* Nothing is cached and nobody asks.
LEMMA FreshInit == Init => FreshInv
  BY DEF Init, FreshInv, EntriesTyped, RequestsTyped, AnalyzerTyped, CacheCurrent, FlightCurrent,
         ListDropped, Idle, Asleep, Items

\* A request that is not answered from the cache brings no answer yet.
LEMMA MissFresh ==
    ASSUME FreshInv, NEW t \in Threads, NEW k \in Keys, Miss(t, k)
    PROVE  FreshInv'
<1> USE DEF FreshInv, Miss
<1>1. EntriesTyped' /\ AnalyzerTyped'
  BY DEF EntriesTyped, AnalyzerTyped, Entry, Reads, Items, AssetList
<1>2. RequestsTyped'
  BY DEF RequestsTyped, Reads
<1>3. CacheCurrent'
  BY DEF CacheCurrent, Current, Pending
<1>4. FlightCurrent'
  BY DEF FlightCurrent, Current, Pending, RequestsTyped
<1>5. ListDropped'
  BY DEF ListDropped, InFlight, RequestsTyped
<1> QED BY <1>1, <1>2, <1>3, <1>4, <1>5

\* A method answers with what the index says now; about the list of assets only if it is
\* not about to change.
LEMMA ComputeFresh ==
    ASSUME FreshInv, NEW t \in Threads, Compute(t)
    PROVE  FreshInv'
<1> DEFINE k == request[t].key
<1>1. k \in Keys /\ Reads(k) \subseteq Items
  BY ReadsSplit DEF FreshInv, RequestsTyped, Compute
<1>2. PICK size \in Sizes[k] :
        request' = [request EXCEPT ![t] = [step |-> "store", key |-> k, size |-> size,
                                           answer |-> [i \in Reads(k) |-> data[i]]]]
  BY DEF Compute
<1>3. /\ quiet' = (quiet /\ ~(analyzer.step = "save" /\ analyzer.issuance /\ k \in OnNewAsset))
      /\ UNCHANGED <<data, cacheMap, analyzer>>
  BY DEF Compute
<1> HIDE DEF k
<1> USE <1>1, <1>2, <1>3 DEF FreshInv
<1>4. EntriesTyped' /\ AnalyzerTyped'
  BY DEF EntriesTyped, AnalyzerTyped, Entry, Reads, Items, AssetList
<1>5. DOMAIN request' = Threads
  BY DEF RequestsTyped
<1>6. request'[t] = [step |-> "store", key |-> k, size |-> size, answer |-> [i \in Reads(k) |-> data[i]]]
  BY DEF RequestsTyped
<1>7. \A u \in Threads \ {t} : request'[u] = request[u]
  BY DEF RequestsTyped
<1>8. RequestsTyped'
  <2>1. [i \in Reads(k) |-> data[i]] \in [Reads(k) -> Int]
    BY DEF AnalyzerTyped
  <2> QED BY <1>5, <1>6, <1>7, <2>1 DEF RequestsTyped, Reads
<1>9. CacheCurrent'
  BY DEF CacheCurrent, Current, Pending
<1>10. FlightCurrent'
  BY <1>5, <1>6, <1>7 DEF FlightCurrent, Current, Pending
<1>11. ListDropped'
  <2> SUFFICES ASSUME quiet', analyzer.step = "save", analyzer.issuance
               PROVE  DOMAIN cacheMap' \cap OnNewAsset = {} /\ ~InFlight(AssetList)'
    BY DEF ListDropped
  <2>1. k \notin OnNewAsset /\ DOMAIN cacheMap \cap OnNewAsset = {} /\ ~InFlight(AssetList)
    BY DEF ListDropped
  <2>2. AssetList \notin DOMAIN request'[t].answer
    BY <1>6, <2>1, ReadsSplit
  <2> QED BY <1>7, <2>1, <2>2 DEF InFlight, AssetList
<1> QED BY <1>4, <1>8, <1>9, <1>10, <1>11

\* An answer that is put into the cache is as current as it was on its way.
LEMMA AddResponseFresh ==
    ASSUME FreshInv, NEW t \in Threads, addResponse(t)
    PROVE  FreshInv'
<1>1. /\ EntriesTyped'
      /\ \A k \in DOMAIN cacheMap' :
            \/ k \in DOMAIN cacheMap /\ cacheMap'[k].answer = cacheMap[k].answer
            \/ k = request[t].key /\ cacheMap'[k].answer = request[t].answer
  BY AddResponsePuts DEF FreshInv
<1>2. /\ request[t].step = "store" /\ request' = [request EXCEPT ![t] = Idle]
      /\ UNCHANGED <<data, analyzer, quiet>>
  BY DEF addResponse
<1>3. AnalyzerTyped'
  BY <1>2 DEF FreshInv, AnalyzerTyped, Items, AssetList
<1>4. DOMAIN request' = Threads /\ \A u \in Threads : request'[u] = IF u = t THEN Idle ELSE request[u]
  BY <1>2 DEF FreshInv, RequestsTyped
<1>5. RequestsTyped'
  BY <1>4 DEF FreshInv, RequestsTyped, Idle, Reads
<1>6. CacheCurrent'
  BY <1>1, <1>2 DEF FreshInv, CacheCurrent, FlightCurrent, Current, Pending
<1>7. FlightCurrent'
  BY <1>2, <1>4 DEF FreshInv, FlightCurrent, Current, Pending, Idle
<1>8. ListDropped'
  <2> SUFFICES ASSUME quiet, analyzer.step = "save", analyzer.issuance
               PROVE  DOMAIN cacheMap' \cap OnNewAsset = {} /\ ~InFlight(AssetList)'
    BY <1>2 DEF ListDropped
  <2>1. DOMAIN cacheMap \cap OnNewAsset = {} /\ ~InFlight(AssetList)
    BY DEF FreshInv, ListDropped
  <2>2. request[t].key \notin OnNewAsset
    BY <1>2, <2>1, ReadsSplit DEF FreshInv, RequestsTyped, InFlight
  <2> QED BY <1>1, <1>4, <2>1, <2>2 DEF InFlight, Idle, AssetList
<1> QED BY <1>1, <1>3, <1>5, <1>6, <1>7, <1>8 DEF FreshInv

\* The list of assets is announced first: the cache and the requests are rid of it, or
\* the state is no longer quiet.
LEMMA BeginTxFresh ==
    ASSUME FreshInv, BeginTx
    PROVE  FreshInv'
<1>1. PICK touched \in (SUBSET Addresses) \ {{}}, issuance \in BOOLEAN :
        /\ analyzer' = [step |-> "save", todo |-> touched, issuance |-> issuance]
        /\ IF issuance
           THEN newAssetIssued /\ quiet' = (quiet /\ ~InFlight(AssetList))
           ELSE UNCHANGED <<cacheMap, currentCacheSize, quiet>>
  BY DEF BeginTx
<1>2. analyzer = Asleep /\ UNCHANGED <<data, request>>
  BY DEF BeginTx
<1>3. AnalyzerTyped' /\ RequestsTyped'
  BY <1>1, <1>2 DEF FreshInv, AnalyzerTyped, RequestsTyped, Reads, Items, AssetList
<1>4. /\ EntriesTyped' /\ DOMAIN cacheMap' \subseteq DOMAIN cacheMap
      /\ \A k \in DOMAIN cacheMap' : cacheMap'[k].answer = cacheMap[k].answer
      /\ issuance => DOMAIN cacheMap' \cap OnNewAsset = {}
  <2>1. CASE issuance
    BY <1>1, <2>1, NewAssetIssuedDrops DEF FreshInv
  <2>2. CASE ~issuance
    BY <1>1, <2>2 DEF FreshInv, EntriesTyped, Entry, Reads
  <2> QED BY <2>1, <2>2
<1>5. quiet' => quiet
  BY <1>1
<1>6. \A item : ~Pending(item) /\ ~Pending(item)'
  BY <1>1, <1>2 DEF Pending, Asleep
<1>7. CacheCurrent'
  BY <1>2, <1>4, <1>5, <1>6 DEF FreshInv, CacheCurrent, Current
<1>8. FlightCurrent'
  BY <1>2, <1>5, <1>6 DEF FreshInv, FlightCurrent, Current
<1>9. ListDropped'
  BY <1>1, <1>2, <1>4 DEF ListDropped, InFlight, AssetList
<1> QED BY <1>3, <1>4, <1>7, <1>8, <1>9 DEF FreshInv

\* Near the tip every row that changes is one nobody has an answer about, or one that
\* will be announced.
LEMMA SaveTxFresh ==
    ASSUME FreshInv, SaveTx
    PROVE  FreshInv'
<1>1. /\ analyzer.step = "save" /\ UNCHANGED <<cacheMap, request>>
      /\ data' = [i \in Items |-> data[i] +
                    IF i \in analyzer.todo \/ (analyzer.issuance /\ i = AssetList) THEN 1 ELSE 0]
      /\ analyzer' = IF bulkSync THEN Asleep ELSE [analyzer EXCEPT !.step = "announce", !.todo = analyzer.todo]
      /\ quiet' = (quiet /\ ~bulkSync)
  BY DEF SaveTx, ToAnnounce
<1>2. EntriesTyped' /\ RequestsTyped'
  BY <1>1 DEF FreshInv, EntriesTyped, RequestsTyped, Entry, Reads, AssetList
<1>3. AnalyzerTyped'
  <2>1. data' \in [Items -> Int]
    BY <1>1 DEF FreshInv, AnalyzerTyped
  <2>2. analyzer' \in [step : {"idle", "save", "announce"}, todo : SUBSET Addresses, issuance : BOOLEAN]
    BY <1>1 DEF FreshInv, AnalyzerTyped, Asleep
  <2> QED BY <2>1, <2>2 DEF AnalyzerTyped, Items, AssetList
<1>4. analyzer'.step # "save"
  BY <1>1 DEF FreshInv, AnalyzerTyped, Asleep
<1>5. ListDropped'
  BY <1>4 DEF ListDropped
<1>6. ASSUME quiet'
      PROVE  /\ quiet /\ ~bulkSync
             /\ \A item : ~Pending(item)
             /\ \A item : Pending(item)' <=> item \in analyzer.todo
  BY <1>1, <1>6 DEF Pending, FreshInv, AnalyzerTyped
<1>7. ASSUME quiet', NEW k \in Keys, NEW answer \in [Reads(k) -> Int], Current(answer),
             analyzer.issuance => AssetList \notin Reads(k)
      PROVE  Current(answer)'
  <2>1. \A item \in Reads(k) : answer[item] = data[item]
    BY <1>6, <1>7 DEF Current
  <2>2. \A item \in Reads(k) \ analyzer.todo : data'[item] = data[item]
    BY <1>1, <1>7, ReadsSplit DEF FreshInv, AnalyzerTyped
  <2> QED BY <1>6, <1>7, <2>1, <2>2 DEF Current
<1>8. CacheCurrent'
  <2> SUFFICES ASSUME quiet', NEW k \in DOMAIN cacheMap
               PROVE  Current(cacheMap[k].answer)'
    BY <1>1 DEF CacheCurrent, Current, Pending
  <2>1. k \in Keys /\ cacheMap[k].answer \in [Reads(k) -> Int]
    BY DEF FreshInv, EntriesTyped, Entry
  <2>2. analyzer.issuance => AssetList \notin Reads(k)
    BY <1>1, <1>6, <2>1, ReadsSplit DEF FreshInv, ListDropped
  <2>3. Current(cacheMap[k].answer)
    BY <1>6 DEF FreshInv, CacheCurrent
  <2>4. \A item \in Reads(k) : cacheMap[k].answer[item] = data'[item] \/ Pending(item)'
    BY <1>7, <2>1, <2>2, <2>3 DEF Current
  <2> QED BY <1>1, <2>1, <2>4 DEF Current
<1>9. FlightCurrent'
  <2> SUFFICES ASSUME quiet', NEW t \in Threads, request[t].step = "store"
               PROVE  Current(request[t].answer)'
    BY <1>1 DEF FlightCurrent, Current, Pending
  <2>1. request[t].key \in Keys /\ request[t].answer \in [Reads(request[t].key) -> Int]
    BY DEF FreshInv, RequestsTyped
  <2>2. analyzer.issuance => AssetList \notin Reads(request[t].key)
    BY <1>1, <1>6, <2>1 DEF FreshInv, ListDropped, InFlight
  <2>3. Current(request[t].answer)
    BY <1>6 DEF FreshInv, FlightCurrent
  <2>4. \A item \in Reads(request[t].key) : request[t].answer[item] = data'[item] \/ Pending(item)'
    BY <1>7, <2>1, <2>2, <2>3 DEF Current
  <2> QED BY <1>1, <2>1, <2>4 DEF Current
<1> QED BY <1>2, <1>3, <1>5, <1>8, <1>9 DEF FreshInv

\* Once an address is announced no entry is about it, nor a request, or the state is no
\* longer quiet.
LEMMA AnnounceFresh ==
    ASSUME FreshInv, Announce
    PROVE  FreshInv'
<1>1. PICK a \in analyzer.todo :
        /\ addressChanged(a) /\ quiet' = (quiet /\ ~InFlight(a))
        /\ analyzer' = IF analyzer.todo = {a} THEN Asleep ELSE [analyzer EXCEPT !.todo = analyzer.todo \ {a}]
  BY DEF Announce
<1>2. analyzer.step = "announce" /\ a \in Addresses /\ UNCHANGED <<data, request>>
  BY DEF Announce, FreshInv, AnalyzerTyped
<1>3. AnalyzerTyped' /\ analyzer'.step # "save"
  BY <1>1, <1>2 DEF FreshInv, AnalyzerTyped, Asleep, Items, AssetList
<1>4. RequestsTyped'
  BY <1>2 DEF FreshInv, RequestsTyped, Reads
<1>5. /\ EntriesTyped' /\ DOMAIN cacheMap' = {k \in DOMAIN cacheMap : a \notin Watches[k]}
      /\ \A k \in DOMAIN cacheMap' : cacheMap'[k].answer = cacheMap[k].answer
  BY <1>1, AddressChangedDrops DEF FreshInv
<1>6. \A item : Pending(item) => item = a \/ Pending(item)'
  BY <1>1, <1>2 DEF FreshInv, AnalyzerTyped, Pending
<1>7. CacheCurrent'
  <2> SUFFICES ASSUME quiet', NEW k \in DOMAIN cacheMap',
                      NEW item \in DOMAIN cacheMap'[k].answer
               PROVE  cacheMap'[k].answer[item] = data'[item] \/ Pending(item)'
    BY DEF CacheCurrent, Current
  <2>1. k \in Keys /\ DOMAIN cacheMap[k].answer = Reads(k)
    BY <1>5 DEF FreshInv, EntriesTyped, Entry
  <2>2. item # a
    BY <1>2, <1>5, <2>1, ReadsSplit
  <2>3. cacheMap[k].answer[item] = data[item] \/ Pending(item)
    BY <1>1, <1>5 DEF FreshInv, CacheCurrent, Current
  <2> QED BY <1>2, <1>5, <1>6, <2>2, <2>3
<1>8. FlightCurrent'
  <2> SUFFICES ASSUME quiet', NEW t \in Threads, request[t].step = "store",
                      NEW item \in DOMAIN request[t].answer
               PROVE  request[t].answer[item] = data[item] \/ Pending(item)'
    BY <1>2 DEF FlightCurrent, Current
  <2>1. item # a
    BY <1>1 DEF InFlight
  <2>2. request[t].answer[item] = data[item] \/ Pending(item)
    BY <1>1 DEF FreshInv, FlightCurrent, Current
  <2> QED BY <1>6, <2>1, <2>2
<1>9. ListDropped'
  BY <1>3 DEF ListDropped
<1> QED BY <1>3, <1>4, <1>5, <1>7, <1>8, <1>9 DEF FreshInv

\* The end of a block only drops entries.
LEMMA BlockDoneFresh ==
    ASSUME FreshInv, BlockDone
    PROVE  FreshInv'
<1>1. /\ EntriesTyped' /\ DOMAIN cacheMap' \subseteq DOMAIN cacheMap
      /\ \A k \in DOMAIN cacheMap' : cacheMap'[k].answer = cacheMap[k].answer
  BY NewBlockAddedDrops DEF BlockDone, FreshInv
<1>2. analyzer = Asleep /\ UNCHANGED <<data, request, analyzer, quiet>>
  BY DEF BlockDone
<1>3. AnalyzerTyped' /\ RequestsTyped'
  BY <1>2 DEF FreshInv, AnalyzerTyped, RequestsTyped, Reads, Items, AssetList
<1>4. CacheCurrent' /\ FlightCurrent'
  BY <1>1, <1>2 DEF FreshInv, CacheCurrent, FlightCurrent, Current, Pending
<1>5. ListDropped'
  BY <1>2 DEF ListDropped, Asleep
<1> QED BY <1>1, <1>3, <1>4, <1>5 DEF FreshInv

\* What is undone is not announced, and the state is no longer quiet.
LEMMA UndoFresh ==
    ASSUME FreshInv, Undo
    PROVE  FreshInv'
<1>1. EntriesTyped' /\ RequestsTyped'
  BY DEF Undo, FreshInv, EntriesTyped, RequestsTyped, Entry, Reads, AssetList
<1>2. AnalyzerTyped'
  BY DEF Undo, FreshInv, AnalyzerTyped, Asleep, Items, AssetList
<1>3. CacheCurrent' /\ FlightCurrent' /\ ListDropped'
  BY DEF Undo, CacheCurrent, FlightCurrent, ListDropped
<1> QED BY <1>1, <1>2, <1>3 DEF FreshInv

\* Coming near the tip, or a step of something else, changes nothing of it.
LEMMA RestFresh ==
    ASSUME FreshInv, UNCHANGED <<data, cacheMap, request, analyzer, quiet>>
    PROVE  FreshInv'
  BY DEF FreshInv, EntriesTyped, RequestsTyped, AnalyzerTyped, CacheCurrent, FlightCurrent,
         ListDropped, Entry, Reads, Items, AssetList, Current, Pending, InFlight

LEMMA FreshAlways == Spec => []FreshInv
<1>1. Init => FreshInv
  BY FreshInit
<1>2. FreshInv /\ [Next]_vars => FreshInv'
  <2> SUFFICES ASSUME FreshInv, [Next]_vars
               PROVE  FreshInv'
    OBVIOUS
  <2>1. ASSUME NEW t \in Threads, Compute(t)
        PROVE  FreshInv'
    BY <2>1, ComputeFresh
  <2>2. ASSUME NEW t \in Threads, addResponse(t)
        PROVE  FreshInv'
    BY <2>2, AddResponseFresh
  <2>3. ASSUME NEW t \in Threads, NEW k \in Keys, Miss(t, k)
        PROVE  FreshInv'
    BY <2>3, MissFresh
  <2>4. CASE BeginTx
    BY <2>4, BeginTxFresh
  <2>5. CASE SaveTx
    BY <2>5, SaveTxFresh
  <2>6. CASE Announce
    BY <2>6, AnnounceFresh
  <2>7. CASE BlockDone
    BY <2>7, BlockDoneFresh
  <2>8. CASE CatchUp
    BY <2>8, RestFresh DEF CatchUp
  <2>9. CASE Undo
    BY <2>9, UndoFresh
  <2>10. CASE UNCHANGED vars
    BY <2>10, RestFresh DEF vars
  <2> QED BY <2>1, <2>2, <2>3, <2>4, <2>5, <2>6, <2>7, <2>8, <2>9, <2>10 DEF Next, Analyzer
<1> QED BY <1>1, <1>2, PTL DEF Spec

\* While nothing happens that the cache cannot know of, what it serves between two
\* transactions is what the index says, in any interleaving of requests that compute, store
\* and evict with the announcements of the analyzer (executeCall, addResponse, processTX).
THEOREM CacheIsFresh == Spec => []FreshWhileQuiet
<1>1. FreshInv => FreshWhileQuiet
  BY DEF FreshInv, CacheCurrent, Current, Pending, FreshWhileQuiet, Asleep
<1> QED BY <1>1, FreshAlways, PTL

-----------------------------------------------------------------------------
(* The running total.  Sizes are counts of bytes, so that they add up as sets do.           *)

Bytes(entries, keys) == UNION {{k} \X (1..(entries[k].size + EntryOverhead)) : k \in keys}

\* The timestamps order the entries.
Aged(entries) ==
    \A k \in DOMAIN entries :
        /\ entries[k].older \subseteq DOMAIN entries \ {k}
        /\ \A j \in entries[k].older : entries[j].older \subseteq entries[k].older

\* The inductive invariant: which entries are older decides whether enough are evicted.
AccountInv ==
    Accounted /\ Aged(cacheMap) /\ IsFiniteSet(Bytes(cacheMap, DOMAIN cacheMap))

\* Only the sizes matter.
LEMMA BytesSame ==
    ASSUME NEW u, NEW v, NEW keys, \A k \in keys : u[k].size = v[k].size
    PROVE  Bytes(u, keys) = Bytes(v, keys) /\ Taken(u, keys) = Taken(v, keys)
<1>1. Bytes(u, keys) = Bytes(v, keys)
  BY DEF Bytes
<1> QED BY <1>1 DEF Taken, Bytes

\* A part of the entries takes up its part of the total.
LEMMA BytesPart ==
    ASSUME NEW u, NEW A, NEW B, A \subseteq B, IsFiniteSet(Bytes(u, B))
    PROVE  /\ IsFiniteSet(Bytes(u, A)) /\ Taken(u, A) \in Nat /\ Taken(u, B) \in Nat
           /\ Taken(u, A) <= Taken(u, B)
           /\ Taken(u, B \ A) = Taken(u, B) - Taken(u, A)
<1>1. Bytes(u, A) \in SUBSET Bytes(u, B)
  BY DEF Bytes
<1>2. Bytes(u, B \ A) = Bytes(u, B) \ Bytes(u, A)
  <2>1. ASSUME NEW x PROVE x \in Bytes(u, B \ A) <=> x \in Bytes(u, B) /\ x \notin Bytes(u, A)
    BY DEF Bytes
  <2> QED BY <2>1
<1>3. \A K : Taken(u, K) = Cardinality(Bytes(u, K))
  BY DEF Taken, Bytes
<1>4. IsFiniteSet(Bytes(u, A)) /\ Cardinality(Bytes(u, A)) <= Cardinality(Bytes(u, B))
  BY <1>1, FS_Subset
<1>5. Cardinality(Bytes(u, B) \ Bytes(u, A)) =
        Cardinality(Bytes(u, B)) - Cardinality(Bytes(u, B) \cap Bytes(u, A))
  BY FS_Difference
<1>6. Bytes(u, B) \cap Bytes(u, A) = Bytes(u, A)
  BY <1>1
<1>7. Cardinality(Bytes(u, A)) \in Nat /\ Cardinality(Bytes(u, B)) \in Nat
  BY <1>4, FS_CardinalityType
<1> QED BY <1>2, <1>3, <1>4, <1>5, <1>6, <1>7

\* One entry more.
LEMMA BytesOne ==
    ASSUME NEW u, NEW K, NEW k, k \notin K, IsFiniteSet(Bytes(u, K)), u[k].size \in Nat
    PROVE  /\ IsFiniteSet(Bytes(u, K \cup {k}))
           /\ Taken(u, K \cup {k}) = Taken(u, K) + u[k].size + EntryOverhead
<1> DEFINE n == u[k].size + EntryOverhead
           S == {k} \X (1..n)
<1>1. n \in Nat
  BY CacheConstants
<1> HIDE DEF n
<1>2. IsFiniteSet(S) /\ Cardinality(S) = n
  <2>1. IsFiniteSet(1..n) /\ Cardinality(1..n) = n
    <3>1. 1 \in Int /\ n \in Int
      BY <1>1
    <3>2. IsFiniteSet(1..n) /\ Cardinality(1..n) = IF 1 > n THEN 0 ELSE n - 1 + 1
      BY <3>1, FS_Interval
    <3> QED BY <1>1, <3>2
  <2>2. IsFiniteSet({k}) /\ Cardinality({k}) = 1
    BY FS_Singleton
  <2>3. IsFiniteSet(S) /\ Cardinality(S) = Cardinality({k}) * Cardinality(1..n)
    BY <2>1, <2>2, FS_Product
  <2> QED BY <1>1, <2>1, <2>2, <2>3
<1>3. Bytes(u, K \cup {k}) = Bytes(u, K) \cup S
  <2>1. ASSUME NEW x PROVE x \in Bytes(u, K \cup {k}) <=> x \in Bytes(u, K) \/ x \in S
    BY DEF Bytes, n
  <2> QED BY <2>1
<1>4. Bytes(u, K) \cap S = {}
  BY DEF Bytes
<1>5. IsFiniteSet(Bytes(u, K) \cup S)
      /\ Cardinality(Bytes(u, K) \cup S) = Cardinality(Bytes(u, K)) + Cardinality(S) - Cardinality({})
  BY <1>2, <1>4, FS_Union
<1>6. Cardinality({}) = 0 /\ Cardinality(Bytes(u, K)) \in Nat
  BY FS_EmptySet, FS_CardinalityType
<1>7. /\ Taken(u, K) = Cardinality(Bytes(u, K))
      /\ Taken(u, K \cup {k}) = Cardinality(Bytes(u, K \cup {k}))
  BY DEF Taken, Bytes
<1> HIDE DEF S
<1>8. Taken(u, K \cup {k}) = Taken(u, K) + n
  <2>1. Taken(u, K \cup {k}) = Cardinality(Bytes(u, K)) + Cardinality(S) - 0
    BY <1>3, <1>5, <1>6, <1>7
  <2> QED BY <1>1, <1>2, <1>6, <1>7, <2>1
<1>9. u[k].size + EntryOverhead = n /\ EntryOverhead \in Nat /\ Taken(u, K) \in Nat
  BY <1>6, <1>7, CacheConstants DEF n
<1>10. Taken(u, K) + u[k].size + EntryOverhead = Taken(u, K) + n
  BY <1>9
<1> QED BY <1>3, <1>5, <1>8, <1>10

\* A least number of a set.
LEMMA LeastSize ==
    ASSUME NEW T \in SUBSET Nat, T # {}
    PROVE  \E t \in T : \A u \in T : t <= u
<1>1. PICK t \in T : \A u \in T : ~(<<u, t>> \in OpToRel(<, Nat))
  BY NatLessThanWellFounded, WFMin
<1>2. ASSUME NEW u \in T
      PROVE  t <= u
  <2>1. u < t => <<u, t>> \in OpToRel(<, Nat)
    BY DEF OpToRel
  <2>2. ~(u < t)
    BY <1>1, <2>1, Zenon
  <2> QED BY <2>2
<1> QED BY <1>2

\* removeOldestEntries() evicts enough: of what is left the oldest fits with all the younger.
LEMMA EnoughEvicted ==
    ASSUME NEW e, Aged(e), IsFiniteSet(Bytes(e, DOMAIN e)),
           \A k \in DOMAIN e : e[k].size \in Nat \ {0}
    PROVE  Taken(e, DOMAIN e \ Evicted(e, Taken(e, DOMAIN e))) <= MaxCacheSize
<1> DEFINE D == DOMAIN e
           total == Taken(e, D)
           L == D \ Evicted(e, total)
           T == {Taken(e, e[k].older) : k \in L}
<1>1. \A A \in SUBSET D : IsFiniteSet(Bytes(e, A)) /\ Taken(e, A) \in Nat /\ Taken(e, A) <= total
                          /\ Taken(e, D \ A) = total - Taken(e, A)
  BY BytesPart
<1>2. \A k \in D : e[k].older \in SUBSET D
  BY DEF Aged
<1>3. \A k \in L : k \in D /\ total - Taken(e, e[k].older) <= MaxCacheSize
  <2>1. \A k \in D : Taken(e, e[k].older) \in Nat /\ total \in Nat
    BY <1>1, <1>2
  <2>2. MaxCacheSize \in Nat
    BY CacheConstants
  <2> QED BY <2>1, <2>2 DEF Evicted
<1>4. L \in SUBSET D /\ T \in SUBSET Nat
  BY <1>1, <1>2
<1> HIDE DEF D, total, L
<1>5. CASE L = {}
  <2>1. Taken(e, {}) = 0
    <3>1. Bytes(e, {}) = {}
      BY DEF Bytes
    <3> QED BY <3>1, FS_EmptySet DEF Taken, Bytes
  <2>2. MaxCacheSize \in Nat /\ Taken(e, L) = 0
    BY <1>5, <2>1, CacheConstants
  <2>3. Taken(e, L) <= MaxCacheSize
    BY <2>2
  <2> QED BY <2>3 DEF L, total, D
<1>6. CASE L # {}
  <2>1. PICK k \in L : \A j \in L : Taken(e, e[k].older) <= Taken(e, e[j].older)
    <3>1. T # {}
      BY <1>6
    <3>2. PICK s \in T : \A u \in T : s <= u
      <4> HIDE DEF T
      <4> QED BY <1>4, <3>1, LeastSize
    <3>3. PICK k \in L : s = Taken(e, e[k].older)
      BY <3>2
    <3>4. \A j \in L : s <= Taken(e, e[j].older)
      BY <3>2
    <3> QED BY <3>3, <3>4
  <2>2. k \in D /\ e[k].older \in SUBSET D
    BY <1>2, <1>3, <2>1
  <2>3. ASSUME NEW j \in L, j \in e[k].older PROVE FALSE
    <3> DEFINE A == e[j].older
    <3>1. /\ j \in D /\ A \in SUBSET D /\ j \notin A /\ A \cup {j} \subseteq e[k].older
          /\ A \cup {j} \in SUBSET D
      BY <1>2, <1>4, <2>2, <2>3 DEF Aged, D
    <3>2. e[j].size \in Nat \ {0} /\ EntryOverhead \in Nat
      BY <3>1, CacheConstants DEF D
    <3>3. IsFiniteSet(Bytes(e, A)) /\ Taken(e, A) \in Nat
      BY <1>1, <3>1
    <3> HIDE DEF A
    <3>4. Taken(e, A \cup {j}) = Taken(e, A) + e[j].size + EntryOverhead
      BY <3>1, <3>2, <3>3, BytesOne
    <3>5. Taken(e, A \cup {j}) <= Taken(e, e[k].older)
      BY <1>1, <2>2, <3>1, BytesPart
    <3>6. Taken(e, e[k].older) <= Taken(e, A)
      BY <2>1, <2>3 DEF A
    <3>7. Taken(e, e[k].older) \in Nat
      BY <1>1, <2>2
    <3> QED BY <3>2, <3>3, <3>4, <3>5, <3>6, <3>7
  <2>4. L \in SUBSET (D \ e[k].older)
    BY <1>4, <2>3
  <2>5. Taken(e, L) <= Taken(e, D \ e[k].older)
    <3>1. IsFiniteSet(Bytes(e, D \ e[k].older))
      BY <1>1, <2>2
    <3> QED BY <2>4, <3>1, BytesPart
  <2>6. Taken(e, D \ e[k].older) <= MaxCacheSize /\ Taken(e, D \ e[k].older) \in Int
    <3>1. /\ Taken(e, D \ e[k].older) = total - Taken(e, e[k].older)
          /\ Taken(e, e[k].older) \in Nat
      BY <1>1, <2>2
    <3>2. total - Taken(e, e[k].older) <= MaxCacheSize
      BY <1>3, <2>1
    <3>3. total \in Nat
      BY <1>1 DEF total
    <3> QED BY <3>1, <3>2, <3>3
  <2>7. Taken(e, L) \in Nat /\ MaxCacheSize \in Nat
    BY <1>1, <1>4, CacheConstants
  <2>8. Taken(e, L) <= MaxCacheSize
    BY <2>5, <2>6, <2>7
  <2> QED BY <2>8 DEF L, total, D
<1> QED BY <1>5, <1>6

\* The entries that stay keep their sizes and their order.
LEMMA OnlyAged ==
    ASSUME NEW e, NEW keys \in SUBSET DOMAIN e, Aged(e), \A k \in DOMAIN e : e[k] \in Entry(k)
    PROVE  /\ DOMAIN Only(e, keys) = keys /\ Aged(Only(e, keys))
           /\ \A k \in keys : Only(e, keys)[k].size = e[k].size
<1> DEFINE u == Only(e, keys)
<1>1. /\ DOMAIN u = keys
      /\ \A k \in keys : u[k].size = e[k].size /\ u[k].older = e[k].older \cap keys
  BY DEF Only, Entry
<1> HIDE DEF u
<1>2. Aged(u)
  BY <1>1 DEF Aged
<1> QED BY <1>1, <1>2 DEF u

\* Dropping entries and what they take up from the running total.
LEMMA Dropped ==
    ASSUME NEW e, NEW keys \in SUBSET DOMAIN e, Aged(e), \A k \in DOMAIN e : e[k] \in Entry(k),
           IsFiniteSet(Bytes(e, DOMAIN e)), cacheMap' = Only(e, keys), Taken(e, keys) <= MaxCacheSize,
           currentCacheSize' = Taken(e, DOMAIN e) - Taken(e, DOMAIN e \ keys)
    PROVE  AccountInv'
<1>1. /\ DOMAIN cacheMap' = keys /\ Aged(cacheMap')
      /\ \A k \in keys : cacheMap'[k].size = e[k].size
  BY OnlyAged
<1>2. Bytes(cacheMap', keys) = Bytes(e, keys) /\ Taken(cacheMap', keys) = Taken(e, keys)
  BY <1>1, BytesSame
<1>3. /\ IsFiniteSet(Bytes(e, keys)) /\ Taken(e, keys) \in Nat /\ Taken(e, DOMAIN e) \in Nat
      /\ Taken(e, DOMAIN e \ keys) = Taken(e, DOMAIN e) - Taken(e, keys)
  BY BytesPart
<1>4. currentCacheSize' = Taken(e, keys)
  BY <1>3
<1>5. Accounted'
  BY <1>1, <1>2, <1>4 DEF Accounted, Taken
<1>6. Aged(cacheMap)' /\ IsFiniteSet(Bytes(cacheMap, DOMAIN cacheMap))'
  BY <1>1, <1>2, <1>3 DEF Aged, Bytes
<1> QED BY <1>5, <1>6 DEF AccountInv

\* addressChanged, newAssetIssued and newBlockAdded.
LEMMA KeepAccounts ==
    ASSUME AccountInv, EntriesTyped, NEW e, NEW keys \in SUBSET DOMAIN cacheMap, Keep(e, keys),
           DOMAIN e = DOMAIN cacheMap,
           \A k \in DOMAIN cacheMap : /\ e[k] \in Entry(k) /\ e[k].size = cacheMap[k].size
                                      /\ e[k].older = cacheMap[k].older
    PROVE  AccountInv'
<1>1. Aged(e)
  BY DEF AccountInv, Aged
<1>2. Bytes(e, DOMAIN e) = Bytes(cacheMap, DOMAIN cacheMap) /\ Taken(e, DOMAIN e) = Taken(cacheMap, DOMAIN cacheMap)
  BY BytesSame
<1>3. IsFiniteSet(Bytes(e, DOMAIN e)) /\ Taken(e, DOMAIN e) <= MaxCacheSize
  BY <1>2 DEF AccountInv, Accounted
<1>4. Taken(e, keys) <= MaxCacheSize
  <2>1. Taken(e, keys) \in Nat /\ Taken(e, DOMAIN e) \in Nat /\ Taken(e, keys) <= Taken(e, DOMAIN e)
    BY <1>3, BytesPart
  <2>2. MaxCacheSize \in Nat
    BY CacheConstants
  <2> QED BY <1>3, <2>1, <2>2
<1>5. currentCacheSize' = Taken(e, DOMAIN e) - Taken(e, DOMAIN e \ keys)
  BY <1>2 DEF Keep, AccountInv, Accounted
<1> QED BY <1>1, <1>3, <1>4, <1>5, Dropped DEF Keep

\* addResponse(): the total grows by what the answer takes up more than the one it replaces.
LEMMA AddResponseAccounts ==
    ASSUME AccountInv, EntriesTyped, RequestsTyped, NEW t \in Threads, addResponse(t)
    PROVE  AccountInv'
<1> DEFINE k == request[t].key
           size == request[t].size
           e == Renewed(k, request[t].answer, size)
           total == Grown(k, size)
           D == DOMAIN cacheMap
           R == D \ {k}
<1>1. /\ request[t].step = "store" /\ k \in Keys /\ size \in Sizes[k] /\ size \in Nat \ {0}
      /\ request[t].answer \in [Reads(k) -> Int]
  BY CacheConstants DEF addResponse, RequestsTyped
<1>2. CASE ~isCacheable(k)
  <2>1. UNCHANGED <<cacheMap, currentCacheSize>>
    BY <1>2 DEF addResponse
  <2> QED BY <2>1 DEF AccountInv, Accounted, Aged, Bytes, Taken
<1>3. CASE isCacheable(k)
  <2>1. /\ cacheMap' = Only(e, DOMAIN e \ Evicted(e, total))
        /\ currentCacheSize' = total - Taken(e, Evicted(e, total))
    BY <1>3 DEF addResponse
  <2>2. /\ DOMAIN e = D \cup {k} /\ e[k].size = size /\ e[k].older = R /\ e[k] \in Entry(k)
        /\ \A j \in R : /\ e[j].size = cacheMap[j].size /\ e[j].older = cacheMap[j].older \ {k}
                        /\ e[j] \in Entry(j)
    BY <1>1, CacheConstants DEF Renewed, Entry, EntriesTyped
  <2>3. \A j \in DOMAIN e : e[j] \in Entry(j) /\ e[j].size \in Nat \ {0}
    <3>1. \A j \in DOMAIN e : e[j] \in Entry(j) /\ j \in Keys
      BY <1>1, <2>2 DEF EntriesTyped
    <3> QED BY <3>1, CacheConstants DEF Entry
  <2> HIDE DEF e, total, k, size
  <2>4. Aged(e)
    BY <2>2 DEF AccountInv, Aged
  <2>5. IsFiniteSet(Bytes(cacheMap, R)) /\ Taken(cacheMap, R) \in Nat
    BY BytesPart DEF AccountInv
  <2>6. Bytes(e, R) = Bytes(cacheMap, R) /\ Taken(e, R) = Taken(cacheMap, R)
    BY <2>2, BytesSame
  <2>7. /\ IsFiniteSet(Bytes(e, R \cup {k}))
        /\ Taken(e, R \cup {k}) = Taken(cacheMap, R) + size + EntryOverhead
    <3>1. k \notin R /\ IsFiniteSet(Bytes(e, R)) /\ e[k].size = size /\ e[k].size \in Nat
      BY <1>1, <2>2, <2>5, <2>6
    <3> HIDE DEF R
    <3>2. /\ IsFiniteSet(Bytes(e, R \cup {k}))
          /\ Taken(e, R \cup {k}) = Taken(e, R) + e[k].size + EntryOverhead
      BY <3>1, BytesOne
    <3> QED BY <2>6, <3>1, <3>2
  <2>8. R \cup {k} = DOMAIN e
    BY <2>2
  <2>9. EntryOverhead \in Nat /\ currentCacheSize = Taken(cacheMap, D)
    BY CacheConstants DEF AccountInv, Accounted
  <2>10. total = Taken(e, DOMAIN e)
    <3>1. CASE k \notin D
      <4>1. R = D /\ total = currentCacheSize + size - (-EntryOverhead)
        BY <3>1 DEF total, Grown, Cached
      <4> QED BY <1>1, <2>5, <2>7, <2>8, <2>9, <4>1
    <3>2. CASE k \in D
      <4>1. total = currentCacheSize + size - cacheMap[k].size
        BY <3>2 DEF total, Grown, Cached
      <4>2. cacheMap[k].size \in Nat
        BY <1>1, <3>2, CacheConstants DEF EntriesTyped, Entry
      <4>3. Taken(cacheMap, R \cup {k}) = Taken(cacheMap, R) + cacheMap[k].size + EntryOverhead
        BY <2>5, <4>2, BytesOne
      <4>4. R \cup {k} = D
        BY <3>2
      <4>5. currentCacheSize = Taken(cacheMap, R) + cacheMap[k].size + EntryOverhead
        BY <2>9, <4>3, <4>4
      <4>6. Taken(e, DOMAIN e) = Taken(cacheMap, R) + size + EntryOverhead
        BY <2>7, <2>8
      <4> HIDE DEF R, D
      <4> QED BY <1>1, <2>5, <2>9, <4>1, <4>2, <4>5, <4>6
    <3> QED BY <3>1, <3>2
  <2> DEFINE out == Evicted(e, total)
             left == DOMAIN e \ out
  <2>11. left \in SUBSET DOMAIN e /\ DOMAIN e \ left = out
    BY DEF Evicted
  <2>12. IsFiniteSet(Bytes(e, DOMAIN e))
    BY <2>7, <2>8
  <2>13. Taken(e, left) <= MaxCacheSize
    BY <2>3, <2>4, <2>10, <2>12, EnoughEvicted
  <2>14. cacheMap' = Only(e, left) /\ currentCacheSize' = Taken(e, DOMAIN e) - Taken(e, DOMAIN e \ left)
    BY <2>1, <2>10, <2>11
  <2> HIDE DEF out, left
  <2> QED BY <2>3, <2>4, <2>11, <2>12, <2>13, <2>14, Dropped
<1> QED BY <1>2, <1>3

\* What the analyzer announces.
LEMMA AnnouncedAccounts ==
    ASSUME AccountInv, EntriesTyped, newAssetIssued \/ newBlockAdded \/ \E a \in Addresses : addressChanged(a)
    PROVE  AccountInv'
<1>1. \A k \in DOMAIN cacheMap : cacheMap[k] \in Entry(k)
  BY DEF EntriesTyped
<1>2. CASE newAssetIssued
  <2>1. DOMAIN cacheMap \ OnNewAsset \in SUBSET DOMAIN cacheMap
    OBVIOUS
  <2> QED BY <1>1, <1>2, <2>1, KeepAccounts DEF newAssetIssued
<1>3. CASE \E a \in Addresses : addressChanged(a)
  <2>1. PICK a \in Addresses : Keep(cacheMap, {k \in DOMAIN cacheMap : a \notin Watches[k]})
    BY <1>3 DEF addressChanged
  <2> DEFINE kept == {k \in DOMAIN cacheMap : a \notin Watches[k]}
  <2>2. kept \in SUBSET DOMAIN cacheMap
    OBVIOUS
  <2> HIDE DEF kept
  <2> QED BY <1>1, <2>1, <2>2, KeepAccounts DEF kept
<1>4. CASE newBlockAdded
  <2> DEFINE kept == {k \in DOMAIN cacheMap : BlockAdded[k].left >= 0}
             e == BlockAdded
  <2>1. kept \in SUBSET DOMAIN cacheMap /\ Keep(e, kept)
    BY <1>4 DEF newBlockAdded
  <2>2. /\ DOMAIN e = DOMAIN cacheMap
        /\ \A k \in DOMAIN cacheMap : /\ e[k] \in Entry(k) /\ e[k].size = cacheMap[k].size
                                      /\ e[k].older = cacheMap[k].older
    BY <1>1 DEF BlockAdded, Entry
  <2> HIDE DEF kept, e
  <2> QED BY <2>1, <2>2, KeepAccounts
<1> QED BY <1>2, <1>3, <1>4

\* The running total of addResponse(), removeOldestEntries() and the three announcements is at
\* all times what the entries take up, and never more than the cache may hold, for any number
\* of keys and threads, any sizes of answers and any limit, one that no answer fits included.
THEOREM CacheIsAccounted == Spec => []Accounted
<1>1. Init => AccountInv
  <2> SUFFICES ASSUME Init PROVE AccountInv
    OBVIOUS
  <2>1. DOMAIN cacheMap = {} /\ currentCacheSize = 0
    BY DEF Init
  <2>2. Bytes(cacheMap, DOMAIN cacheMap) = {}
    BY <2>1 DEF Bytes
  <2>3. Taken(cacheMap, DOMAIN cacheMap) = 0 /\ IsFiniteSet(Bytes(cacheMap, DOMAIN cacheMap))
    BY <2>2, FS_EmptySet DEF Taken, Bytes
  <2>4. Aged(cacheMap)
    BY <2>1 DEF Aged
  <2>5. Accounted
    <3>1. 0 <= MaxCacheSize
      BY CacheConstants
    <3> QED BY <2>1, <2>3, <3>1 DEF Accounted
  <2> QED BY <2>3, <2>4, <2>5 DEF AccountInv
<1>2. FreshInv /\ AccountInv /\ [Next]_vars => AccountInv'
  <2> SUFFICES ASSUME FreshInv, AccountInv, [Next]_vars
               PROVE  AccountInv'
    OBVIOUS
  <2>1. EntriesTyped /\ RequestsTyped /\ analyzer.todo \subseteq Addresses
    BY DEF FreshInv, AnalyzerTyped
  <2>2. ASSUME UNCHANGED <<cacheMap, currentCacheSize>>
        PROVE  AccountInv'
    BY <2>2 DEF AccountInv, Accounted, Aged, Bytes, Taken
  <2>3. ASSUME NEW t \in Threads, addResponse(t)
        PROVE  AccountInv'
    BY <2>1, <2>3, AddResponseAccounts
  <2>4. ASSUME NEW t \in Threads, Compute(t) \/ \E k \in Keys : Miss(t, k)
        PROVE  AccountInv'
    BY <2>2, <2>4 DEF Compute, Miss
  <2>5. CASE BeginTx \/ Announce \/ BlockDone
    <3>1. newAssetIssued \/ newBlockAdded \/ (\E a \in Addresses : addressChanged(a))
          \/ UNCHANGED <<cacheMap, currentCacheSize>>
      BY <2>1, <2>5 DEF BeginTx, Announce, BlockDone
    <3> QED BY <2>1, <2>2, <3>1, AnnouncedAccounts
  <2>6. CASE SaveTx \/ CatchUp \/ Undo \/ UNCHANGED vars
    BY <2>2, <2>6 DEF SaveTx, CatchUp, Undo, vars
  <2> QED BY <2>3, <2>4, <2>5, <2>6 DEF Next, Analyzer
<1>3. AccountInv => Accounted
  BY DEF AccountInv
<1> QED BY <1>1, <1>2, <1>3, FreshAlways, PTL DEF Spec
=============================================================================
