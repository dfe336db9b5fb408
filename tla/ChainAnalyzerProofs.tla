------------------------ MODULE ChainAnalyzerProofs ------------------------
(***************************************************************************)
(* Proofs about the chain analyzer, for every chain length, every setting  *)
(* and every number of forks, errors, failed repairs and restarts.         *)
(***************************************************************************)
EXTENDS ChainAnalyzer, SequenceTheorems, WellFoundedInduction, TLAPS

\* Every height below n that has to be processed has been.
IndexedBelow(t, n) ==
    \A h \in Heights : h < n /\ NeedsAssetProcessing(h) => \E b \in t.rows : Len(b) = h

\* The thread is at work on "height": everything below it is indexed.
AtHeight ==
    \/ pc \in {"repair", "backfill", "mark"} \cup RewindPc \cup SyncPc
    \/ pc = "main" /\ ~lastPassFailed

\* "hash" is the block at "height", and its effects are in the database.
HasBlock == pc \in SyncPc \ {"open", "fetch"}
Processed == pc \in {"commit", "processed", "prune", "tip", "poll", "refresh"}

\* Outside a transaction everything is committed.
Committed == transactionDepth = 0 => disk = db

\* Where the thread is, against what is indexed.
PlaceInv ==
    /\ AtHeight => IndexedBelow(db, height)
    /\ HasBlock => Len(hash) = height
    /\ pc = "fetch" => Len(nextHash) = height
    /\ HasBlock /\ pc \notin {"openBlock", "insert"} /\ next # NoHash =>
         Len(next) = height + 1 /\ height < MaxHeight
    /\ Processed /\ NeedsAssetProcessing(height) => hash \in db.rows

\* The inductive invariant: NoGap alone says nothing of the block in hand.
IndexInv == TypeOK /\ NoGap /\ Committed /\ PlaceInv

-----------------------------------------------------------------------------
(* What the database operators do. *)

\* A block is a sequence with a length; Core's answer for a height it has is a block of
\* that height (getblockhash).
LEMMA CoreHashProps ==
    ASSUME tip \in Block, NEW h \in Heights, h <= Len(tip)
    PROVE  CoreHash(h) \in Block /\ Len(CoreHash(h)) = h /\ CoreHash(h) # NoHash
<1>1. \A i \in 1..h : tip[i] \in Branch
  BY ElementOfSeq, LenProperties DEF Block, Heights
<1>2. CoreHash(h) \in Block /\ Len(CoreHash(h)) = h
  BY <1>1, SubSeqProperties DEF CoreHash, Block, Heights
<1> QED BY <1>2, EmptySeq DEF NoHash, Heights

\* The next block Core reports is a block one higher (getblock).
LEMMA CoreNextProps ==
    ASSUME tip \in Block, Len(tip) \in Heights, NEW c \in Block, Len(c) \in Heights
    PROVE  /\ CoreNext(c) \in Block
           /\ CoreNext(c) # NoHash => Len(CoreNext(c)) = Len(c) + 1 /\ Len(c) < MaxHeight
           /\ Confirmations(c) \in Int
<1>1. CASE InChain(c) /\ Len(c) < Len(tip)
  <2>1. Len(c) + 1 \in Heights /\ Len(c) + 1 <= Len(tip)
    BY <1>1, DatabaseAssumption DEF Heights
  <2>2. /\ CoreHash(Len(c) + 1) \in Block
        /\ Len(CoreHash(Len(c) + 1)) = Len(c) + 1
    BY <2>1, CoreHashProps
  <2>3. Len(c) < MaxHeight /\ Len(tip) - Len(c) + 1 \in Int
    BY <2>1, DatabaseAssumption DEF Heights
  <2> QED BY <1>1, <2>2, <2>3 DEF CoreNext, Confirmations
<1>2. CASE ~(InChain(c) /\ Len(c) < Len(tip))
  <2>1. NoHash \in Block
    BY EmptySeq DEF Block, NoHash
  <2>2. Len(tip) - Len(c) + 1 \in Int /\ -1 \in Int
    BY DatabaseAssumption DEF Heights
  <2> QED BY <1>2, <2>1, <2>2 DEF CoreNext, Confirmations
<1> QED BY <1>1, <1>2

\* clearBlocksAboveHeight() leaves a well-formed database.
LEMMA ClearAboveProps ==
    ASSUME NEW t \in Contents, NEW h \in Int
    PROVE  /\ ClearAbove(t, h) \in Contents
           /\ \A k \in Stored(ClearAbove(t, h)) : k \in Stored(t) /\ k <= h
           /\ \A b \in t.rows : Len(b) < h => b \in ClearAbove(t, h).rows
<1> DEFINE u == ClearAbove(t, h)
<1>1. u \in Contents
  BY EmptySeq DEF ClearAbove, Contents, Block, NoHash
<1>2. u.blocks = [k \in Heights |-> IF k > h THEN NoHash ELSE t.blocks[k]]
  BY DEF ClearAbove, Contents
<1>3. u.rows = {b \in t.rows : Len(b) < h}
  BY DEF ClearAbove, Contents
<1> HIDE DEF u
<1>4. \A k \in Stored(u) : k \in Stored(t) /\ k <= h
  BY <1>2 DEF Stored, Heights
<1> QED BY <1>1, <1>3, <1>4 DEF u

\* reset() leaves a well-formed database with at most block 1.
LEMMA ResetProps ==
    ASSUME NEW t \in Contents
    PROVE  /\ Reset(t) \in Contents
           /\ Stored(Reset(t)) \subseteq {1}
<1>1. [k \in Heights |-> IF k > 1 THEN NoHash ELSE t.blocks[k]] \in [Heights -> Block]
  BY EmptySeq DEF Contents, Block, NoHash
<1>2. [t.flags EXCEPT !["ddSyncHeight"] = 0] \in [FlagName -> FlagValue]
  <2>1. 0 \in FlagValue
    BY DatabaseAssumption DEF FlagValue
  <2> QED BY <2>1 DEF Contents
<1>3. Reset(t) \in Contents
  <2>1. [p \in PruneTable |-> 0] \in [PruneTable -> 0..MaxHeight]
    BY DatabaseAssumption
  <2> QED BY <1>1, <1>2, <2>1 DEF Contents, Reset
<1>4. Reset(t).blocks = [k \in Heights |-> IF k > 1 THEN NoHash ELSE t.blocks[k]]
  BY DEF Reset
<1> QED BY <1>3, <1>4 DEF Stored, Heights

\* insertBlock() changes one header.
LEMMA InsertBlockProps ==
    ASSUME NEW t \in Contents, NEW c \in Block, Len(c) \in Heights
    PROVE  /\ InsertBlock(t, c) \in Contents
           /\ Stored(InsertBlock(t, c)) \subseteq Stored(t) \cup {Len(c)}
           /\ InsertBlock(t, c).rows = t.rows
  BY DEF InsertBlock, Contents, Stored

\* Storing a price, a flag or a summary, and pruning, add no header and drop no row.
LEMMA OtherWritesProps ==
    ASSUME NEW t \in Contents, NEW c \in Block, NEW p, NEW h \in 0..MaxHeight, NEW f,
           NEW v \in FlagValue, NEW cache
    PROVE  \A u \in {AddDigiDollarRate(t, c), PruneRows(t, p, h), RemoveNonReachable(t, h),
                     KeepSummary(t, p), SetFlag(t, cache, f, v)} :
              u \in Contents /\ Stored(u) \subseteq Stored(t) /\ u.rows = t.rows
<1>1. /\ AddDigiDollarRate(t, c) \in Contents
      /\ AddDigiDollarRate(t, c).blocks = t.blocks
      /\ AddDigiDollarRate(t, c).rows = t.rows
  BY DEF AddDigiDollarRate, Contents
<1>2. /\ PruneRows(t, p, h) \in Contents
      /\ PruneRows(t, p, h).blocks = t.blocks
      /\ PruneRows(t, p, h).rows = t.rows
  BY DEF PruneRows, Contents
<1>3. /\ RemoveNonReachable(t, h) \in Contents
      /\ Stored(RemoveNonReachable(t, h)) \subseteq Stored(t)
      /\ RemoveNonReachable(t, h).rows = t.rows
  BY EmptySeq DEF RemoveNonReachable, Contents, Stored, NoHash, Block
<1>4. /\ KeepSummary(t, p) \in Contents
      /\ KeepSummary(t, p).blocks = t.blocks
      /\ KeepSummary(t, p).rows = t.rows
  BY DEF KeepSummary, Contents
<1>5. /\ SetFlag(t, cache, f, v) \in Contents
      /\ SetFlag(t, cache, f, v).blocks = t.blocks
      /\ SetFlag(t, cache, f, v).rows = t.rows
  BY DEF SetFlag, Contents
<1> QED BY <1>1, <1>2, <1>3, <1>4, <1>5 DEF Stored

\* The next statement of phasePrune() is the first that is due.
LEMMA DueProps ==
    ASSUME NEW n \in Int, PruneDue(n) # {}
    PROVE  /\ Min(PruneDue(n)) \in PruneDue(n) /\ Min(PruneDue(n)) \in 1..9
           /\ \A m \in PruneDue(n) : Min(PruneDue(n)) <= m
<1>1. PruneDue(n) \subseteq 1..9
  BY DEF PruneDue
<1>2. \E x \in PruneDue(n) : \A y \in PruneDue(n) : x <= y
  <2>1. PruneDue(n) \in SUBSET Nat
    BY <1>1
  <2>2. PICK x \in PruneDue(n) : \A y \in PruneDue(n) : ~(<<y, x>> \in OpToRel(<, Nat))
    BY <2>1, NatLessThanWellFounded, WFMin
  <2>3. ASSUME NEW y \in PruneDue(n)
        PROVE  x <= y
    <3>1. x \in Nat /\ y \in Nat
      BY <2>1
    <3>2. y < x => <<y, x>> \in OpToRel(<, Nat)
      BY <3>1 DEF OpToRel
    <3>3. ~(y < x)
      BY <2>2, <3>2, Zenon
    <3> QED BY <3>1, <3>3
  <2> QED BY <2>3
<1>3. Min(PruneDue(n)) = CHOOSE x \in PruneDue(n) : \A y \in PruneDue(n) : x <= y
  BY DEF Min
<1> QED BY <1>1, <1>2, <1>3

\* The values a fresh process starts from have their types.
LEMMA InitialValues ==
    /\ NoHash \in Block /\ Block1 \in Block
    /\ 1 \in Heights /\ 0 \in Epochs /\ 0 \in 0..(BatchSize - 1)
    /\ 0 \in FlagValue /\ -1 \in FlagValue /\ DDHeight \in FlagValue
    /\ [f \in FlagName |-> NotCached] \in [FlagName -> FlagValue \cup {NotCached}]
<1>1. NoHash \in Block /\ Block1 \in Block
  BY EmptySeq, AnalyzerAssumption DEF NoHash, Block, Block1
<1>2. 1 \in Heights /\ 0 \in Epochs /\ 0 \in 0..(BatchSize - 1)
  BY DatabaseAssumption, AnalyzerAssumption DEF Heights, Epochs
<1>3. 0 \in FlagValue /\ -1 \in FlagValue /\ DDHeight \in FlagValue
  BY DatabaseAssumption DEF FlagValue
<1> QED BY <1>1, <1>2, <1>3

-----------------------------------------------------------------------------
(* How a write carries the invariant over. *)

\* Headers may go and rows may come without making a gap.
LEMMA IndexedMonotonic ==
    ASSUME NEW t, NEW u, Indexed(t), Stored(u) \subseteq Stored(t), t.rows \subseteq u.rows
    PROVE  Indexed(u)
  BY DEF Indexed

\* Nor does clearBlocksAboveHeight(): a header that stays is at most h, and the rows below
\* h stay.
LEMMA IndexedClear ==
    ASSUME NEW t \in Contents, NEW h \in Int, Indexed(t)
    PROVE  Indexed(ClearAbove(t, h))
<1> SUFFICES ASSUME NEW k \in Stored(ClearAbove(t, h)), NEW m \in Heights,
                    m < k, NeedsAssetProcessing(m)
             PROVE  \E b \in ClearAbove(t, h).rows : Len(b) = m
  BY DEF Indexed
<1>1. k \in Heights /\ k <= h /\ k \in Stored(t)
  BY ClearAboveProps DEF Stored
<1>2. PICK b \in t.rows : Len(b) = m
  BY <1>1 DEF Indexed
<1>3. m < h
  BY <1>1 DEF Heights
<1> QED BY <1>2, <1>3, ClearAboveProps

\* A write that adds no header and drops no row, inside or outside a transaction.
LEMMA WriteProps ==
    ASSUME IndexInv, NEW t \in Contents, Stored(t) \subseteq Stored(db),
           db.rows \subseteq t.rows, Write(t), transactionDepth' = transactionDepth,
           flagState' \in [FlagName -> FlagValue \cup {NotCached}]
    PROVE  StoreTypeOK' /\ NoGap' /\ Committed' /\ db.rows \subseteq db'.rows
<1>1. Indexed(db) /\ Indexed(disk) /\ disk \in Contents /\ transactionDepth \in Nat
  BY DEF IndexInv, NoGap, TypeOK, StoreTypeOK
<1>2. Indexed(t)
  BY <1>1, IndexedMonotonic
<1>3. db' = t /\ disk' \in {t, disk} /\ (transactionDepth = 0 => disk' = t)
  BY DEF Write
<1> QED BY <1>1, <1>2, <1>3 DEF StoreTypeOK, NoGap, Committed

\* A repair of the database, whether its statements succeed or not.
LEMMA ClearProps ==
    ASSUME IndexInv, NEW h \in Int, ClearBlocksAboveHeight(h),
           transactionDepth' = transactionDepth,
           UNCHANGED flagState \/ flagState' \in [FlagName -> FlagValue \cup {NotCached}]
    PROVE  /\ StoreTypeOK' /\ NoGap' /\ Committed' /\ clearFails' \in Nat
           /\ \A n \in Int : n <= h /\ IndexedBelow(db, n) => IndexedBelow(db', n)
<1> DEFINE u == ClearAbove(db, h)
<1>1. /\ Indexed(db) /\ Indexed(disk) /\ db \in Contents /\ disk \in Contents
      /\ transactionDepth \in Nat /\ (transactionDepth = 0 => disk = db)
      /\ flagState \in [FlagName -> FlagValue \cup {NotCached}] /\ clearFails \in Nat
  BY DEF IndexInv, NoGap, TypeOK, StoreTypeOK, BudgetTypeOK, Committed
<1>2. Indexed(u) /\ u \in Contents /\ \A b \in db.rows : Len(b) < h => b \in u.rows
  BY <1>1, IndexedClear, ClearAboveProps
<1>3. \/ /\ db' = u /\ disk' \in {u, disk} /\ (transactionDepth = 0 => disk' = u)
         /\ clearFails' = clearFails
      \/ db' = db /\ disk' = disk /\ clearFails' = clearFails + 1
  BY DEF ClearBlocksAboveHeight, Write
<1> HIDE DEF u
<1>4. StoreTypeOK' /\ NoGap' /\ Committed' /\ clearFails' \in Nat
  BY <1>1, <1>2, <1>3 DEF StoreTypeOK, NoGap, Committed
<1>5. ASSUME NEW n \in Int, n <= h, IndexedBelow(db, n), NEW m \in Heights, m < n,
             NeedsAssetProcessing(m)
      PROVE  \E b \in db'.rows : Len(b) = m
  <2>1. PICK b \in db.rows : Len(b) = m
    BY <1>5 DEF IndexedBelow
  <2>2. m < h
    BY <1>5, DatabaseAssumption DEF Heights
  <2>3. b \in db'.rows
    BY <1>2, <1>3, <2>1, <2>2
  <2> QED BY <2>1, <2>3
<1> QED BY <1>4, <1>5 DEF IndexedBelow

\* More rows keep it.
LEMMA BelowMonotonic ==
    ASSUME NEW t, NEW u, NEW n, IndexedBelow(t, n), t.rows \subseteq u.rows
    PROVE  IndexedBelow(u, n)
  BY DEF IndexedBelow

\* A lower height needs less.
LEMMA BelowLower ==
    ASSUME NEW t, NEW n \in Int, NEW m \in Int, m <= n, IndexedBelow(t, n)
    PROVE  IndexedBelow(t, m)
  BY DatabaseAssumption DEF IndexedBelow, Heights

\* The newest stored block is where the index ends.
LEMMA BelowNewest ==
    ASSUME IndexInv, NEW h \in Heights, IsBlockHeight(db, h)
    PROVE  IndexedBelow(db, h)
  BY DEF IndexInv, NoGap, Indexed, IndexedBelow, IsBlockHeight

\* Reading a flag keeps the value in the table.
LEMMA ReadFlagsProps ==
    ASSUME NEW t \in Contents, NEW fs, NEW cache \in [FlagName -> FlagValue \cup {NotCached}]
    PROVE  /\ ReadFlags(t, cache, fs) \in [FlagName -> FlagValue \cup {NotCached}]
           /\ \A f \in FlagName : ReadFlags(t, cache, fs)[f] \in {cache[f], t.flags[f]}
<1>1. t.flags \in [FlagName -> FlagValue]
  BY DEF Contents
<1>2. \A f \in FlagName : FlagOf(t, cache, f) \in {cache[f], t.flags[f]}
  BY DEF FlagOf
<1> QED BY <1>1, <1>2 DEF ReadFlags

\* A step that leaves the database alone.
LEMMA QuietStore ==
    ASSUME IndexInv, UNCHANGED <<db, disk, transactionDepth, flagState>>
    PROVE  StoreTypeOK' /\ NoGap' /\ Committed'
  BY DEF IndexInv, TypeOK, StoreTypeOK, NoGap, Committed

\* The locals go out of scope.
LEMMA DropLocalsProps ==
    ASSUME DropLocals
    PROVE  LocalsTypeOK' /\ hash' = NoHash /\ next' = NoHash
<1>1. NoHash \in Block /\ BatchSize \in Nat \ {0}
  BY InitialValues, AnalyzerAssumption
<1>2. hash' \in Block /\ next' \in Block /\ confirmations' \in Int
  BY <1>1 DEF DropLocals
<1>3. bulkSync' \in BOOLEAN /\ kept' \subseteq Summarised
  BY DEF DropLocals
<1>4. insertBatch' \in 0..(BatchSize - 1) /\ pruneStep' \in Nat
  BY <1>1 DEF DropLocals
<1> QED BY <1>2, <1>3, <1>4 DEF LocalsTypeOK, DropLocals

-----------------------------------------------------------------------------
(* The invariant holds of every step.  One lemma per group of actions. *)

USE DEF chain, core, store, place, memory, control, block, round, pruning, budget,
        Pc, StartupPc, RewindPc, SyncPc, State

\* Core's chain moves: the analyzer's state does not.
LEMMA CoreStep ==
    ASSUME IndexInv, CoreExtend \/ CoreReorg
    PROVE  IndexInv'
<1>0. /\ tip \in Seq(Branch) /\ Len(tip) \in Heights /\ reorgs \in Nat /\ missed \subseteq Epochs
      /\ MaxHeight \in Nat \ {0} /\ Len(tip) \in Nat \ {0}
  BY DatabaseAssumption DEF IndexInv, TypeOK, CoreTypeOK, Block, Heights
<1>1. CoreTypeOK'
  <2>1. CASE CoreExtend
    <3>1. tip[Len(tip)] \in Branch
      BY <1>0, ElementOfSeq
    <3>2. /\ Append(tip, tip[Len(tip)]) \in Seq(Branch)
          /\ Len(Append(tip, tip[Len(tip)])) = Len(tip) + 1
      BY <1>0, <3>1, AppendProperties
    <3>3. tip' = Append(tip, tip[Len(tip)]) /\ reorgs' = reorgs /\ Len(tip) < MaxHeight
      BY <2>1 DEF CoreExtend
    <3>4. Len(tip) + 1 \in Heights
      BY <1>0, <3>3 DEF Heights
    <3> QED BY <1>0, <2>1, <3>2, <3>3, <3>4 DEF CoreTypeOK, Block, CoreExtend
  <2>2. CASE CoreReorg
    <3>1. PICK d \in 1..MaxReorgDepth, n \in Heights, l \in Branch :
             LET fork == Len(tip) - d
             IN  /\ fork >= 1
                 /\ fork + n <= MaxHeight
                 /\ n > d \/ ShorterReorgs
                 /\ l # tip[fork + 1]
                 /\ tip' = [i \in 1..(fork + n) |-> IF i <= fork THEN tip[i] ELSE l]
      BY <2>2 DEF CoreReorg
    <3> DEFINE fork == Len(tip) - d
               top  == fork + n
    <3>2. fork \in Nat /\ fork <= Len(tip) /\ top \in Heights /\ top \in Nat
      <4>1. MaxReorgDepth \in Nat
        BY AnalyzerAssumption
      <4> QED BY <1>0, <3>1, <4>1 DEF Heights
    <3>3. tip' = [i \in 1..top |-> IF i <= fork THEN tip[i] ELSE l]
      BY <3>1
    <3> HIDE DEF fork, top
    <3>4. ASSUME NEW i \in 1..top PROVE (IF i <= fork THEN tip[i] ELSE l) \in Branch
      BY <1>0, <3>2, ElementOfSeq
    <3>5. tip' \in [1..top -> Branch]
      BY <3>3, <3>4
    <3>6. tip' \in Seq(Branch) /\ Len(tip') = top
      BY <3>2, <3>5, SeqDef, LenProperties
    <3>7. reorgs' \in Nat
      BY <1>0, <2>2 DEF CoreReorg
    <3>8. missed' \subseteq Epochs
      BY <1>0, <2>2 DEF CoreReorg
    <3> QED BY <3>2, <3>6, <3>7, <3>8 DEF CoreTypeOK, Block
  <2> QED BY <2>1, <2>2
<1>2. UNCHANGED <<store, flagState, pc, state, place, memory, control, block, round, pruning,
                  budget>>
  BY DEF CoreExtend, CoreReorg
<1>3. StoreTypeOK' /\ NoGap' /\ Committed'
  BY <1>2, QuietStore
<1>4. ThreadTypeOK' /\ LocalsTypeOK' /\ BudgetTypeOK'
  BY <1>2 DEF IndexInv, TypeOK, ThreadTypeOK, LocalsTypeOK, BudgetTypeOK
<1>5. PlaceInv'
  BY <1>2 DEF IndexInv, PlaceInv, AtHeight, HasBlock, Processed
<1> QED BY <1>1, <1>3, <1>4, <1>5 DEF IndexInv, TypeOK

\* The process ends, in order or not: what is committed has no gap.
LEMMA ProcessEndStep ==
    ASSUME IndexInv, ProcessEnd, stops' \in Nat
    PROVE  IndexInv'
<1>1. StoreTypeOK' /\ NoGap' /\ Committed'
  BY InitialValues
  DEF ProcessEnd, IndexInv, TypeOK, StoreTypeOK, NoGap, Committed
<1>2. CoreTypeOK' /\ BudgetTypeOK'
  BY DEF ProcessEnd, IndexInv, TypeOK, CoreTypeOK, BudgetTypeOK
<1>3. ThreadTypeOK'
  BY InitialValues DEF ProcessEnd, IndexInv, TypeOK, ThreadTypeOK
<1>4. LocalsTypeOK'
  BY DropLocalsProps DEF ProcessEnd
<1>5. PlaceInv'
  BY DEF ProcessEnd, PlaceInv, AtHeight, HasBlock, Processed
<1> QED BY <1>1, <1>2, <1>3, <1>4, <1>5 DEF IndexInv, TypeOK

\* A pass is abandoned in the catch block of mainFunction().
LEMMA CatchStep ==
    ASSUME IndexInv, Catch, faults' \in Nat
    PROVE  IndexInv'
<1>1. StoreTypeOK' /\ NoGap' /\ Committed'
  BY DEF Catch, AbortTransaction, IndexInv, TypeOK, StoreTypeOK, NoGap, Committed
<1>2. CoreTypeOK' /\ BudgetTypeOK'
  BY DEF Catch, IndexInv, TypeOK, CoreTypeOK, BudgetTypeOK
<1>3. ThreadTypeOK'
  BY DEF Catch, IndexInv, TypeOK, ThreadTypeOK
<1>4. LocalsTypeOK'
  BY DropLocalsProps DEF Catch
<1>5. PlaceInv'
  BY DEF Catch, PlaceInv, AtHeight, HasBlock, Processed
<1> QED BY <1>1, <1>2, <1>3, <1>4, <1>5 DEF IndexInv, TypeOK

\* A flag is stored, in the table and in RAM (setFlagInt).
LEMMA SetFlagProps ==
    ASSUME IndexInv, NEW f \in FlagName, NEW v \in FlagValue, SetFlagInt(f, v),
           transactionDepth' = transactionDepth
    PROVE  StoreTypeOK' /\ NoGap' /\ Committed' /\ db.rows \subseteq db'.rows
<1> DEFINE u == SetFlag(db, flagState, f, v)
<1>1. db \in Contents /\ flagState \in [FlagName -> FlagValue \cup {NotCached}]
  BY DEF IndexInv, TypeOK, StoreTypeOK
<1>2. NoHash \in Block /\ 0 \in 0..MaxHeight
  BY InitialValues, DatabaseAssumption
<1>3. u \in Contents /\ Stored(u) \subseteq Stored(db) /\ u.rows = db.rows
  BY <1>1, <1>2, OtherWritesProps
<1>4. Write(u) /\ flagState' = CacheFlag(flagState, f, v)
  BY DEF SetFlagInt
<1> HIDE DEF u
<1>typed. flagState' \in [FlagName -> FlagValue \cup {NotCached}]
  BY <1>1, <1>4 DEF CacheFlag
<1> QED BY <1>3, <1>4, <1>typed, WriteProps

\* Starting the process: at most the DigiDollar marker is cleared.
LEMMA ProcessStartStep ==
    ASSUME IndexInv, ProcessStart
    PROVE  IndexInv'
<1>1. PICK t \in TrackChoices :
         /\ track' = t
         /\ IF t THEN UNCHANGED <<db, disk, flagState>> ELSE SetFlagInt("ddSyncHeight", 0)
  BY DEF ProcessStart
<1>2. StoreTypeOK' /\ NoGap' /\ Committed'
  <2>1. transactionDepth' = transactionDepth
    BY DEF ProcessStart
  <2>2. CASE UNCHANGED <<db, disk, flagState>>
    BY <2>1, <2>2, QuietStore
  <2>3. CASE SetFlagInt("ddSyncHeight", 0)
    BY <2>1, <2>3, SetFlagProps, InitialValues DEF FlagName
  <2> QED BY <1>1, <2>2, <2>3
<1>3. CoreTypeOK' /\ BudgetTypeOK' /\ LocalsTypeOK'
  BY DEF ProcessStart, IndexInv, TypeOK, CoreTypeOK, BudgetTypeOK, LocalsTypeOK
<1>4. ThreadTypeOK'
  BY <1>1, AnalyzerAssumption DEF ProcessStart, IndexInv, TypeOK, ThreadTypeOK
<1>typed. PlaceInv'
  BY DEF ProcessStart, PlaceInv, AtHeight, HasBlock, Processed
<1> QED BY <1>2, <1>3, <1>4, <1>typed DEF IndexInv, TypeOK

\* Steps that only move the thread on, or note that a stop is wanted.
LEMMA MoveStep ==
    ASSUME IndexInv,
           RequestStop \/ LoopEnter \/ CaptureFails \/ BlockDone \/ TipWait \/ TipStop
    PROVE  IndexInv'
<1>1. UNCHANGED <<db, disk, transactionDepth, flagState, tip, reorgs, height, nextHash>>
  BY DEF RequestStop, LoopEnter, CaptureFails, BlockDone, TipWait, TipStop
<1>2. StoreTypeOK' /\ NoGap' /\ Committed' /\ CoreTypeOK'
  <2>1. Epoch(height) \in Epochs
    BY DEF IndexInv, TypeOK, ThreadTypeOK, Epochs
  <2>2. missed' \subseteq missed \cup {Epoch(height)}
    BY DEF RequestStop, LoopEnter, CaptureFails, BlockDone, TipWait, TipStop
  <2> QED BY <1>1, <2>1, <2>2, QuietStore DEF IndexInv, TypeOK, CoreTypeOK
<1>3. BudgetTypeOK'
  BY DEF IndexInv, TypeOK, BudgetTypeOK, RequestStop, LoopEnter, CaptureFails, BlockDone,
         TipWait, TipStop
<1>4. ThreadTypeOK'
  BY <1>1 DEF IndexInv, TypeOK, ThreadTypeOK, RequestStop, LoopEnter, CaptureFails, BlockDone,
         TipWait, TipStop
<1>typed. LocalsTypeOK'
  <2>1. CASE RequestStop \/ CaptureFails \/ TipWait
    BY <2>1 DEF IndexInv, TypeOK, LocalsTypeOK, RequestStop, CaptureFails, TipWait
  <2>4. CASE BlockDone
    <3>1. pruneStep' = pruneStep \/ pruneStep' \in 1..9
      BY <2>4, DueProps DEF BlockDone
    <3> QED BY <2>4, <3>1 DEF IndexInv, TypeOK, LocalsTypeOK, BlockDone
  <2>2. CASE LoopEnter
    <3>1. bulkSync' \in BOOLEAN
      BY <2>2 DEF LoopEnter
    <3> QED BY <2>2, <3>1 DEF IndexInv, TypeOK, LocalsTypeOK, LoopEnter
  <2>3. CASE TipStop
    BY <2>3, DropLocalsProps DEF TipStop
  <2> QED BY <2>1, <2>2, <2>3, <2>4
<1>6. PlaceInv'
  <2>1. CASE RequestStop
    BY <1>1, <2>1 DEF IndexInv, PlaceInv, AtHeight, HasBlock, Processed, RequestStop
  <2>2. CASE LoopEnter
    BY <1>1, <2>2 DEF IndexInv, PlaceInv, AtHeight, HasBlock, Processed, LoopEnter
  <2>3. CASE CaptureFails
    BY <1>1, <2>3 DEF IndexInv, PlaceInv, AtHeight, HasBlock, Processed, CaptureFails
  <2>4. CASE BlockDone
    BY <1>1, <2>4 DEF IndexInv, PlaceInv, AtHeight, HasBlock, Processed, BlockDone
  <2>5. CASE TipWait
    BY <1>1, <2>5 DEF IndexInv, PlaceInv, AtHeight, HasBlock, Processed, TipWait
  <2>6. CASE TipStop
    BY <1>1, <2>6 DEF IndexInv, PlaceInv, AtHeight, HasBlock, Processed, TipStop
  <2> QED BY <2>1, <2>2, <2>3, <2>4, <2>5, <2>6
<1> QED BY <1>2, <1>3, <1>4, <1>typed, <1>6 DEF IndexInv, TypeOK

\* Steps that ask Core for a hash or a block, while Core's chain may have moved.
LEMMA AskStep ==
    ASSUME IndexInv,
           CheckFork \/ OpenHash \/ OpenBlock \/ TipPoll \/ TipRefresh \/ FetchHash
    PROVE  IndexInv'
<1>1. UNCHANGED <<db, disk, transactionDepth, flagState, tip, reorgs, missed, height, nextHash>>
  BY DEF CheckFork, OpenHash, OpenBlock, TipPoll, TipRefresh, FetchHash
<1>2. StoreTypeOK' /\ NoGap' /\ Committed' /\ CoreTypeOK'
  BY <1>1, QuietStore DEF IndexInv, TypeOK, CoreTypeOK
<1>3. BudgetTypeOK'
  BY DEF IndexInv, TypeOK, BudgetTypeOK, CheckFork, OpenHash, OpenBlock, TipPoll, TipRefresh,
         FetchHash
<1>4. ThreadTypeOK'
  BY <1>1 DEF IndexInv, TypeOK, ThreadTypeOK, CheckFork, OpenHash, OpenBlock, TipPoll,
         TipRefresh, FetchHash
<1>typed. height \in Heights /\ tip \in Block /\ Len(tip) \in Heights /\ hash \in Block
      /\ nextHash \in Block
  BY DEF IndexInv, TypeOK, CoreTypeOK, ThreadTypeOK, LocalsTypeOK
<1>6. height <= Len(tip) => CoreHash(height) \in Block /\ Len(CoreHash(height)) = height
  BY <1>typed, CoreHashProps
<1>7. HasBlock => /\ CoreNext(hash) \in Block
                  /\ CoreNext(hash) # NoHash =>
                       Len(CoreNext(hash)) = height + 1 /\ height < MaxHeight
                  /\ Confirmations(hash) \in Int
  BY <1>typed, CoreNextProps DEF IndexInv, PlaceInv
<1>8. CASE CheckFork
  <2>1. LocalsTypeOK'
    BY <1>6, <1>8 DEF IndexInv, TypeOK, LocalsTypeOK, CheckFork
  <2>2. PlaceInv'
    BY <1>1, <1>8 DEF IndexInv, PlaceInv, AtHeight, HasBlock, Processed, CheckFork
  <2> QED BY <1>2, <1>3, <1>4, <2>1, <2>2 DEF IndexInv, TypeOK
<1>9. CASE OpenHash
  <2>1. LocalsTypeOK'
    BY <1>6, <1>9 DEF IndexInv, TypeOK, LocalsTypeOK, OpenHash
  <2>2. PlaceInv'
    BY <1>1, <1>6, <1>9 DEF IndexInv, PlaceInv, AtHeight, HasBlock, Processed, OpenHash
  <2> QED BY <1>2, <1>3, <1>4, <2>1, <2>2 DEF IndexInv, TypeOK
<1>10. CASE OpenBlock
  <2>1. LocalsTypeOK'
    BY <1>7, <1>10 DEF IndexInv, TypeOK, LocalsTypeOK, OpenBlock, FetchBlock, HasBlock
  <2>2. PlaceInv'
    BY <1>1, <1>7, <1>10
    DEF IndexInv, PlaceInv, AtHeight, HasBlock, Processed, OpenBlock, FetchBlock
  <2> QED BY <1>2, <1>3, <1>4, <2>1, <2>2 DEF IndexInv, TypeOK
<1>11. CASE TipPoll
  <2>1. LocalsTypeOK'
    <3>1. CASE CoreHash(height) = hash
      BY <1>11, <3>1 DEF IndexInv, TypeOK, LocalsTypeOK, TipPoll
    <3>2. CASE CoreHash(height) # hash
      BY <1>11, <3>2, DropLocalsProps DEF TipPoll
    <3> QED BY <3>1, <3>2
  <2>2. PlaceInv'
    BY <1>1, <1>11 DEF IndexInv, PlaceInv, AtHeight, HasBlock, Processed, TipPoll
  <2> QED BY <1>2, <1>3, <1>4, <2>1, <2>2 DEF IndexInv, TypeOK
<1>12. CASE TipRefresh
  <2>1. LocalsTypeOK'
    BY <1>7, <1>12 DEF IndexInv, TypeOK, LocalsTypeOK, TipRefresh, HasBlock
  <2>2. PlaceInv'
    BY <1>1, <1>7, <1>12
    DEF IndexInv, PlaceInv, AtHeight, HasBlock, Processed, TipRefresh
  <2> QED BY <1>2, <1>3, <1>4, <2>1, <2>2 DEF IndexInv, TypeOK
<1>13. CASE FetchHash
  <2>1. hash' \in Block /\ Len(hash') = height
    BY <1>typed, <1>6, <1>13 DEF IndexInv, PlaceInv, FetchHash
  <2>2. LocalsTypeOK'
    BY <1>13, <2>1 DEF IndexInv, TypeOK, LocalsTypeOK, FetchHash
  <2>3. PlaceInv'
    BY <1>1, <1>13, <2>1 DEF IndexInv, PlaceInv, AtHeight, HasBlock, Processed, FetchHash
  <2> QED BY <1>2, <1>3, <1>4, <2>2, <2>3 DEF IndexInv, TypeOK
<1> QED BY <1>8, <1>9, <1>10, <1>11, <1>12, <1>13

\* A call of startupFunction() or of a pass throws, or Core lacks the block it is asked for.
LEMMA AbandonStep ==
    ASSUME IndexInv, Throw \/ CoreBehind
    PROVE  IndexInv'
<1>1. Abandon /\ faults' \in Nat
  BY DEF Throw, CoreBehind, IndexInv, TypeOK, BudgetTypeOK
<1>2. CASE /\ pc' = "startup"
           /\ UNCHANGED <<core, store, flagState, state, place, memory, control, block, round,
                          pruning, clearFails, stops>>
  <2>1. StoreTypeOK' /\ NoGap' /\ Committed'
    BY <1>2, QuietStore
  <2>2. CoreTypeOK' /\ BudgetTypeOK' /\ LocalsTypeOK'
    BY <1>1, <1>2 DEF IndexInv, TypeOK, CoreTypeOK, BudgetTypeOK, LocalsTypeOK
  <2>3. ThreadTypeOK'
    BY <1>2 DEF IndexInv, TypeOK, ThreadTypeOK
  <2>4. PlaceInv'
    BY <1>2 DEF PlaceInv, AtHeight, HasBlock, Processed
  <2> QED BY <2>1, <2>2, <2>3, <2>4 DEF IndexInv, TypeOK
<1>3. CASE Catch
  BY <1>1, <1>3, CatchStep
<1> QED BY <1>1, <1>2, <1>3 DEF Abandon

\* startupFunction(): the height comes from the newest stored block.
LEMMA StartupReadStep ==
    ASSUME IndexInv, StartupRead
    PROVE  IndexInv'
<1>1. PICK h \in Heights : IsBlockHeight(db, h) /\ height' = h
  BY DEF StartupRead
<1>2. StoreTypeOK' /\ NoGap' /\ Committed'
  BY QuietStore DEF StartupRead
<1>3. CoreTypeOK' /\ BudgetTypeOK' /\ LocalsTypeOK'
  BY DEF StartupRead, IndexInv, TypeOK, CoreTypeOK, BudgetTypeOK, LocalsTypeOK
<1>4. ThreadTypeOK'
  BY <1>1 DEF StartupRead, IndexInv, TypeOK, ThreadTypeOK
<1>typed. IndexedBelow(db, height') /\ db' = db /\ pc' = "repair"
  BY <1>1, BelowNewest DEF StartupRead
<1>6. PlaceInv'
  BY <1>typed DEF PlaceInv, AtHeight, HasBlock, Processed
<1> QED BY <1>2, <1>3, <1>4, <1>6 DEF IndexInv, TypeOK

\* Clearing the block we left off on.
LEMMA StartupRepairStep ==
    ASSUME IndexInv, StartupRepair
    PROVE  IndexInv'
<1>1. height \in Heights /\ height \in Int /\ tip \in Block /\ height <= Len(tip)
      /\ IndexedBelow(db, height)
  BY DatabaseAssumption DEF IndexInv, TypeOK, CoreTypeOK, ThreadTypeOK, StartupRepair, PlaceInv,
                            AtHeight, Heights
<1>2. ClearBlocksAboveHeight(height) /\ UNCHANGED <<transactionDepth, flagState>>
  BY DEF StartupRepair
<1>3. StoreTypeOK' /\ NoGap' /\ Committed' /\ clearFails' \in Nat /\ IndexedBelow(db', height)
  BY <1>1, <1>2, ClearProps
<1>4. CoreTypeOK' /\ BudgetTypeOK' /\ LocalsTypeOK'
  BY <1>3 DEF StartupRepair, IndexInv, TypeOK, CoreTypeOK, BudgetTypeOK, LocalsTypeOK
<1>typed. nextHash' \in Block
  BY <1>1, CoreHashProps DEF StartupRepair
<1>6. lastOracleEpoch' \in Epochs
  BY DEF StartupRepair, ReadLastEpoch
<1>7. ThreadTypeOK'
  BY <1>typed, <1>6 DEF StartupRepair, IndexInv, TypeOK, ThreadTypeOK
<1>8. pc' = "backfill" /\ height' = height
  BY DEF StartupRepair
<1>9. PlaceInv'
  BY <1>3, <1>8 DEF PlaceInv, AtHeight, HasBlock, Processed
<1> QED BY <1>3, <1>4, <1>7, <1>9 DEF IndexInv, TypeOK

\* phaseDigiDollarBackfill(): what is above the activation height goes, what is below stays.
LEMMA StartupBackfillStep ==
    ASSUME IndexInv, StartupBackfill
    PROVE  IndexInv'
<1>1. /\ height \in Heights /\ height \in Int /\ DDHeight - 1 \in Int /\ IndexedBelow(db, height)
      /\ db \in Contents
  BY DatabaseAssumption DEF IndexInv, TypeOK, StoreTypeOK, ThreadTypeOK, StartupBackfill,
                            PlaceInv, AtHeight, Heights
<1>2. CoreTypeOK' /\ LocalsTypeOK' /\ faults' = faults /\ stops' = stops
  BY DEF StartupBackfill, IndexInv, TypeOK, CoreTypeOK, LocalsTypeOK
<1>typed. flagState' \in [FlagName -> FlagValue \cup {NotCached}]
  BY ReadFlagsProps DEF StartupBackfill, IndexInv, TypeOK, StoreTypeOK
<1>3. CASE BackfillDue
  <2>1. height' = DDHeight - 1 /\ ClearBlocksAboveHeight(DDHeight - 1)
        /\ transactionDepth' = transactionDepth
    BY <1>3 DEF StartupBackfill
  <2>2. height' \in Heights /\ DDHeight - 1 <= height
    BY <1>1, <1>3, <2>1, DatabaseAssumption DEF BackfillDue, Heights
  <2>3. IndexedBelow(db, DDHeight - 1)
    BY <1>1, <2>2, BelowLower
  <2>4. StoreTypeOK' /\ NoGap' /\ Committed' /\ clearFails' \in Nat
        /\ IndexedBelow(db', DDHeight - 1)
    BY <1>1, <1>typed, <2>1, <2>3, ClearProps
  <2>5. nextHash' \in Block
    <3>1. BlockHash(db, DDHeight - 1) \in Block
      BY <1>1, <2>1, <2>2 DEF BlockHash, Contents
    <3> QED BY <1>3, <3>1 DEF StartupBackfill, IndexInv, TypeOK, ThreadTypeOK
  <2>6. lastOracleEpoch' \in Epochs
    BY <1>3, InitialValues DEF StartupBackfill, IndexInv, TypeOK, ThreadTypeOK
  <2>7. pc' \in {"startup", "mark"}
    BY <1>3 DEF StartupBackfill
  <2>8. ThreadTypeOK'
    BY <2>2, <2>5, <2>6, <2>7 DEF StartupBackfill, IndexInv, TypeOK, ThreadTypeOK
  <2>9. PlaceInv'
    BY <2>1, <2>4, <2>7 DEF PlaceInv, AtHeight, HasBlock, Processed
  <2>10. BudgetTypeOK'
    BY <1>2, <2>4 DEF IndexInv, TypeOK, BudgetTypeOK
  <2> QED BY <1>2, <2>4, <2>8, <2>9, <2>10 DEF IndexInv, TypeOK
<1>4. CASE ~BackfillDue
  <2>1. /\ UNCHANGED <<db, disk, clearFails, height, nextHash, lastOracleEpoch, transactionDepth>>
        /\ pc' = "main"
    BY <1>4 DEF StartupBackfill
  <2>2. StoreTypeOK' /\ NoGap' /\ Committed'
    BY <1>typed, <2>1 DEF IndexInv, TypeOK, StoreTypeOK, NoGap, Committed
  <2>3. ThreadTypeOK' /\ BudgetTypeOK'
    BY <1>2, <2>1 DEF StartupBackfill, IndexInv, TypeOK, ThreadTypeOK, BudgetTypeOK
  <2>4. PlaceInv'
    BY <1>1, <2>1 DEF PlaceInv, AtHeight, HasBlock, Processed
  <2> QED BY <1>2, <2>2, <2>3, <2>4 DEF IndexInv, TypeOK
<1> QED BY <1>3, <1>4

\* The backfill is recorded.
LEMMA StartupMarkStep ==
    ASSUME IndexInv, StartupMark
    PROVE  IndexInv'
<1>1. SetFlagInt("ddSyncHeight", DDHeight) /\ transactionDepth' = transactionDepth
      /\ pc' = "main" /\ height' = height
  BY DEF StartupMark
<1>2. StoreTypeOK' /\ NoGap' /\ Committed' /\ db.rows \subseteq db'.rows
  BY <1>1, SetFlagProps, InitialValues DEF FlagName
<1>3. CoreTypeOK' /\ BudgetTypeOK' /\ LocalsTypeOK'
  BY DEF StartupMark, IndexInv, TypeOK, CoreTypeOK, BudgetTypeOK, LocalsTypeOK
<1>4. ThreadTypeOK'
  BY DEF StartupMark, IndexInv, TypeOK, ThreadTypeOK
<1>5. IndexedBelow(db, height)
  BY DEF StartupMark, IndexInv, PlaceInv, AtHeight
<1>6. IndexedBelow(db', height)
  BY <1>2, <1>5, BelowMonotonic
<1>7. PlaceInv'
  BY <1>1, <1>6 DEF PlaceInv, AtHeight, HasBlock, Processed
<1> QED BY <1>2, <1>3, <1>4, <1>7 DEF IndexInv, TypeOK

\* mainFunction() starts a pass, over again from the newest stored block after a failed one.
LEMMA MainEnterStep ==
    ASSUME IndexInv, MainEnter
    PROVE  IndexInv'
<1>1. CoreTypeOK' /\ LocalsTypeOK' /\ faults' = faults /\ stops' = stops
  BY DEF MainEnter, IndexInv, TypeOK, CoreTypeOK, LocalsTypeOK, Revisit
<1>2. CASE lastPassFailed
  <2>1. PICK h \in Heights : IsBlockHeight(db, h) /\ RecoverAt(h)
    BY <1>2 DEF MainEnter
  <2>2. h \in Int /\ tip \in Block
    BY DatabaseAssumption DEF Heights, IndexInv, TypeOK, CoreTypeOK
  <2>3. IndexedBelow(db, h)
    BY <2>1, BelowNewest
  <2>4. ClearBlocksAboveHeight(h) /\ UNCHANGED <<transactionDepth, flagState>>
    BY <2>1 DEF RecoverAt, MainEnter
  <2>5. StoreTypeOK' /\ NoGap' /\ Committed' /\ clearFails' \in Nat /\ IndexedBelow(db', h)
    BY <2>2, <2>3, <2>4, ClearProps
  <2>6. nextHash' \in Block
    BY <2>1, <2>2, CoreHashProps DEF RecoverAt
  <2>7. height' = h /\ pc' = "fork" /\ lastPassFailed' = FALSE
        /\ lastOracleEpoch' = lastOracleEpoch
    BY <2>1 DEF RecoverAt
  <2>8. ThreadTypeOK'
    BY <2>6, <2>7 DEF MainEnter, IndexInv, TypeOK, ThreadTypeOK
  <2>9. PlaceInv'
    BY <2>5, <2>7 DEF PlaceInv, AtHeight, HasBlock, Processed
  <2>10. BudgetTypeOK'
    BY <1>1, <2>5 DEF IndexInv, TypeOK, BudgetTypeOK
  <2> QED BY <1>1, <2>5, <2>8, <2>9, <2>10 DEF IndexInv, TypeOK
<1>3. CASE ~lastPassFailed
  <2>1. pc = "main" /\ pc' = "fork" /\ UNCHANGED <<db, disk, transactionDepth, flagState,
                                        clearFails, place, memory>>
    BY <1>3 DEF MainEnter
  <2>2. StoreTypeOK' /\ NoGap' /\ Committed'
    BY <2>1, QuietStore
  <2>3. ThreadTypeOK' /\ BudgetTypeOK'
    BY <1>1, <2>1 DEF MainEnter, IndexInv, TypeOK, ThreadTypeOK, BudgetTypeOK
  <2>4. PlaceInv'
    BY <1>3, <2>1 DEF IndexInv, PlaceInv, AtHeight, HasBlock, Processed
  <2> QED BY <1>1, <2>2, <2>3, <2>4 DEF IndexInv, TypeOK
<1> QED BY <1>2, <1>3

\* phaseRewind(): one height down, to a header that is still stored.
LEMMA RewindStepStep ==
    ASSUME IndexInv, RewindStep
    PROVE  IndexInv'
<1>1. height \in Int /\ tip \in Block /\ db \in Contents /\ IndexedBelow(db, height)
  BY DatabaseAssumption DEF RewindStep, IndexInv, TypeOK, CoreTypeOK, StoreTypeOK, ThreadTypeOK,
                            Heights, PlaceInv, AtHeight
<1>2. height - 1 \in Heights /\ height - 1 <= Len(tip) /\ BlockHash(db, height - 1) \in Block
  BY <1>1 DEF RewindStep, BlockHash, Contents
<1>3. CoreHash(height - 1) \in Block
  BY <1>1, <1>2, CoreHashProps
<1>4. StoreTypeOK' /\ NoGap' /\ Committed'
  BY QuietStore DEF RewindStep
<1>5. CoreTypeOK' /\ BudgetTypeOK' /\ LocalsTypeOK'
  BY <1>3 DEF RewindStep, IndexInv, TypeOK, CoreTypeOK, BudgetTypeOK, LocalsTypeOK
<1>6. ThreadTypeOK'
  BY <1>2 DEF RewindStep, IndexInv, TypeOK, ThreadTypeOK
<1>7. IndexedBelow(db, height - 1)
  BY <1>1, BelowLower
<1>8. db' = db /\ height' = height - 1 /\ pc' = "rewind"
  BY DEF RewindStep
<1>9. PlaceInv'
  BY <1>7, <1>8 DEF PlaceInv, AtHeight, HasBlock, Processed
<1> QED BY <1>4, <1>5, <1>6, <1>9 DEF IndexInv, TypeOK

\* phaseRewind() found the block it agrees with Core on.
LEMMA RewindDoneStep ==
    ASSUME IndexInv, RewindDone
    PROVE  IndexInv'
<1>1. height \in Int /\ IndexedBelow(db, height)
  BY DatabaseAssumption DEF RewindDone, IndexInv, TypeOK, ThreadTypeOK, Heights, PlaceInv, AtHeight
<1>2. ClearBlocksAboveHeight(height) /\ UNCHANGED <<transactionDepth, flagState>>
  BY DEF RewindDone
<1>3. StoreTypeOK' /\ NoGap' /\ Committed' /\ clearFails' \in Nat /\ IndexedBelow(db', height)
  BY <1>1, <1>2, ClearProps
<1>4. CoreTypeOK' /\ BudgetTypeOK'
  BY <1>3 DEF RewindDone, IndexInv, TypeOK, CoreTypeOK, BudgetTypeOK, Revisit
<1>5. LocalsTypeOK'
  BY InitialValues DEF RewindDone, IndexInv, TypeOK, LocalsTypeOK
<1>6. ThreadTypeOK'
  BY DEF RewindDone, IndexInv, TypeOK, ThreadTypeOK
<1>7. pc' = "open" /\ height' = height
  BY DEF RewindDone
<1>8. PlaceInv'
  BY <1>3, <1>7 DEF PlaceInv, AtHeight, HasBlock, Processed
<1> QED BY <1>3, <1>4, <1>5, <1>6, <1>8 DEF IndexInv, TypeOK

\* restart(): an index without rows has no gap either.
LEMMA RewindRestartStep ==
    ASSUME IndexInv, RewindRestart
    PROVE  IndexInv'
<1>1. CASE transactionDepth = 0
  <2> DEFINE u == Reset(db)
  <2>1. u \in Contents /\ Stored(u) \subseteq {1}
    BY ResetProps DEF IndexInv, TypeOK, StoreTypeOK
  <2>2. db' = u /\ disk' = u /\ transactionDepth' = 0 /\ flagState' = flagState
    BY <1>1 DEF RewindRestart, Write
  <2> HIDE DEF u
  <2>3. Indexed(u)
    BY <2>1, DatabaseAssumption DEF Indexed, Heights
  <2>4. IndexedBelow(u, 1)
    BY DatabaseAssumption DEF IndexedBelow, Heights
  <2>5. StoreTypeOK' /\ NoGap' /\ Committed'
    BY <2>1, <2>2, <2>3 DEF IndexInv, TypeOK, StoreTypeOK, NoGap, Committed
  <2>6. CoreTypeOK' /\ BudgetTypeOK'
    BY <1>1 DEF RewindRestart, IndexInv, TypeOK, CoreTypeOK, BudgetTypeOK, Revisit
  <2>7. LocalsTypeOK'
    BY <1>1, InitialValues DEF RewindRestart, IndexInv, TypeOK, LocalsTypeOK
  <2>8. ThreadTypeOK'
    BY <1>1, InitialValues DEF RewindRestart, IndexInv, TypeOK, ThreadTypeOK
  <2>9. pc' = "open" /\ height' = 1
    BY <1>1 DEF RewindRestart
  <2>10. PlaceInv'
    BY <2>2, <2>4, <2>9 DEF PlaceInv, AtHeight, HasBlock, Processed
  <2> QED BY <2>5, <2>6, <2>7, <2>8, <2>10 DEF IndexInv, TypeOK
<1>2. CASE transactionDepth # 0
  BY <1>2, CatchStep DEF RewindRestart, IndexInv, TypeOK, BudgetTypeOK
<1> QED BY <1>1, <1>2

\* captureOracleCommitment() adds a price.
LEMMA CaptureOracleStep ==
    ASSUME IndexInv, CaptureOracle
    PROVE  IndexInv'
<1>1. db \in Contents /\ hash \in Block /\ Len(hash) = height /\ height \in Heights
      /\ flagState \in [FlagName -> FlagValue \cup {NotCached}]
  BY DEF CaptureOracle, IndexInv, TypeOK, StoreTypeOK, ThreadTypeOK, LocalsTypeOK, PlaceInv,
         HasBlock
<1>2. transactionDepth' = transactionDepth /\ flagState' = flagState /\ height' = height
      /\ pc = "oracle" /\ pc' = "process" /\ hash' = hash /\ next' = next
  BY DEF CaptureOracle
<1>3. StoreTypeOK' /\ NoGap' /\ Committed' /\ db.rows \subseteq db'.rows
  <2>1. CASE CaptureDue /\ height \notin SilentHeights
    <3> DEFINE u == AddDigiDollarRate(db, hash)
    <3>1. 0 \in FlagValue /\ 0 \in 0..MaxHeight
      BY InitialValues, DatabaseAssumption
    <3>2. u \in Contents /\ Stored(u) \subseteq Stored(db) /\ u.rows = db.rows
      BY <1>1, <3>1, OtherWritesProps
    <3>3. Write(u)
      BY <2>1 DEF CaptureOracle
    <3> HIDE DEF u
    <3> QED BY <1>1, <1>2, <3>2, <3>3, WriteProps
  <2>2. CASE ~(CaptureDue /\ height \notin SilentHeights)
    BY <1>2, <2>2, QuietStore DEF CaptureOracle
  <2> QED BY <2>1, <2>2
<1>4. CoreTypeOK' /\ BudgetTypeOK' /\ LocalsTypeOK'
  BY DEF CaptureOracle, IndexInv, TypeOK, CoreTypeOK, BudgetTypeOK, LocalsTypeOK
<1>5. lastOracleEpoch' \in Epochs
  BY <1>1 DEF CaptureOracle, IndexInv, TypeOK, ThreadTypeOK, Epochs
<1>6. ThreadTypeOK'
  BY <1>5 DEF CaptureOracle, IndexInv, TypeOK, ThreadTypeOK
<1>7. IndexedBelow(db', height)
  <2>1. IndexedBelow(db, height)
    BY <1>2 DEF IndexInv, PlaceInv, AtHeight
  <2> QED BY <1>3, <2>1, BelowMonotonic
<1>8. PlaceInv'
  BY <1>2, <1>7 DEF IndexInv, PlaceInv, AtHeight, HasBlock, Processed
<1> QED BY <1>3, <1>4, <1>6, <1>8 DEF IndexInv, TypeOK

\* processTX() for every transaction of the block, inside one transaction.
LEMMA ProcessBlockStep ==
    ASSUME IndexInv, ProcessBlock
    PROVE  IndexInv'
<1>1. /\ db \in Contents /\ disk \in Contents /\ hash \in Block /\ transactionDepth \in Nat
      /\ IndexedBelow(db, height) /\ Indexed(db) /\ Indexed(disk)
      /\ transactionDepth = 0 => disk = db
      /\ flagState \in [FlagName -> FlagValue \cup {NotCached}]
  BY DEF ProcessBlock, IndexInv, TypeOK, StoreTypeOK, LocalsTypeOK, PlaceInv, AtHeight, NoGap,
         Committed
<1>2. disk' = disk /\ flagState' = flagState /\ height' = height /\ hash' = hash /\ next' = next
      /\ pc = "process" /\ pc' \in {"commit", "processed"}
  BY DEF ProcessBlock
<1>3. /\ StoreTypeOK' /\ NoGap' /\ Committed' /\ db.rows \subseteq db'.rows
      /\ NeedsAssetProcessing(height) => hash \in db'.rows
  <2>1. CASE NeedsAssetProcessing(height)
    <3> DEFINE u == [db EXCEPT !.rows = @ \cup {hash}]
    <3>1. u \in Contents /\ u.blocks = db.blocks /\ u.rows = db.rows \cup {hash}
      BY <1>1 DEF Contents
    <3>2. db' = u /\ transactionDepth' = transactionDepth + 1
      BY <2>1 DEF ProcessBlock
    <3> HIDE DEF u
    <3>3. Stored(u) \subseteq Stored(db)
      BY <3>1 DEF Stored
    <3>4. Indexed(u)
      BY <1>1, <3>1, <3>3, IndexedMonotonic
    <3> QED BY <1>1, <1>2, <3>1, <3>2, <3>4 DEF StoreTypeOK, NoGap, Committed
  <2>2. CASE ~NeedsAssetProcessing(height)
    BY <1>1, <1>2, <2>2 DEF ProcessBlock, StoreTypeOK, NoGap, Committed
  <2> QED BY <2>1, <2>2
<1>4. CoreTypeOK' /\ BudgetTypeOK' /\ LocalsTypeOK'
  BY DEF ProcessBlock, IndexInv, TypeOK, CoreTypeOK, BudgetTypeOK, LocalsTypeOK
<1>5. ThreadTypeOK'
  BY <1>2 DEF ProcessBlock, IndexInv, TypeOK, ThreadTypeOK
<1>6. IndexedBelow(db', height)
  BY <1>1, <1>3, BelowMonotonic
<1>7. PlaceInv'
  BY <1>2, <1>3, <1>6 DEF IndexInv, PlaceInv, AtHeight, HasBlock, Processed
<1> QED BY <1>3, <1>4, <1>5, <1>7 DEF IndexInv, TypeOK

\* endTransaction(): what is committed is what the connection saw.
LEMMA EndTransactionProps ==
    ASSUME IndexInv, EndTransaction, db' = db, flagState' = flagState
    PROVE  StoreTypeOK' /\ NoGap' /\ Committed'
<1>1. /\ db \in Contents /\ disk \in Contents /\ transactionDepth \in Nat
      /\ Indexed(db) /\ Indexed(disk) /\ (transactionDepth = 0 => disk = db)
      /\ flagState \in [FlagName -> FlagValue \cup {NotCached}]
  BY DEF IndexInv, TypeOK, StoreTypeOK, NoGap, Committed
<1>2. transactionDepth' \in Nat /\ disk' \in {db, disk} /\ (transactionDepth' = 0 => disk' = db)
  BY <1>1 DEF EndTransaction
<1> QED BY <1>1, <1>2 DEF StoreTypeOK, NoGap, Committed

\* The block's transaction ends.
LEMMA CommitBlockStep ==
    ASSUME IndexInv, CommitBlock
    PROVE  IndexInv'
<1>1. StoreTypeOK' /\ NoGap' /\ Committed'
  BY EndTransactionProps DEF CommitBlock
<1>2. CoreTypeOK' /\ BudgetTypeOK' /\ LocalsTypeOK'
  BY DEF CommitBlock, IndexInv, TypeOK, CoreTypeOK, BudgetTypeOK, LocalsTypeOK
<1>3. ThreadTypeOK'
  BY DEF CommitBlock, IndexInv, TypeOK, ThreadTypeOK
<1>4. PlaceInv'
  BY DEF CommitBlock, IndexInv, PlaceInv, AtHeight, HasBlock, Processed
<1> QED BY <1>1, <1>2, <1>3, <1>4 DEF IndexInv, TypeOK

\* phaseSync() returns at its end.
LEMMA LoopExitStep ==
    ASSUME IndexInv, LoopExit
    PROVE  IndexInv'
<1>1. StoreTypeOK' /\ NoGap' /\ Committed'
  <2>1. CASE insertBatch > 0
    BY <2>1, EndTransactionProps DEF LoopExit
  <2>2. CASE ~(insertBatch > 0)
    BY <2>2, QuietStore DEF LoopExit
  <2> QED BY <2>1, <2>2
<1>2. CoreTypeOK' /\ BudgetTypeOK'
  BY DEF LoopExit, IndexInv, TypeOK, CoreTypeOK, BudgetTypeOK
<1>3. LocalsTypeOK'
  BY DropLocalsProps DEF LoopExit
<1>4. ThreadTypeOK'
  BY DEF LoopExit, IndexInv, TypeOK, ThreadTypeOK
<1>5. PlaceInv'
  BY DEF LoopExit, IndexInv, PlaceInv, AtHeight, HasBlock, Processed
<1> QED BY <1>1, <1>2, <1>3, <1>4, <1>5 DEF IndexInv, TypeOK

\* Pruning never goes above the chain (pruneMax).
LEMMA PruneHeightProps ==
    ASSUME height \in Heights, NEW table
    PROVE  PruneHeight(table) \in 0..MaxHeight /\ PruneHeight(table) \in FlagValue
<1>1. /\ height \in 1..MaxHeight /\ MaxHeight \in Nat /\ RateLeniency \in Nat
      /\ PruneAge \in Nat \cup {-1} /\ DDHeight \in Nat
  BY DatabaseAssumption, AnalyzerAssumption DEF Heights
<1>2. PruneMax(height) \in 0..MaxHeight
  BY <1>1 DEF PruneMax
<1>3. PruneHeight(table) \in 0..MaxHeight
  BY <1>1, <1>2 DEF PruneHeight
<1> QED BY <1>1, <1>3 DEF FlagValue

\* A statement of phasePrune() drops headers, never the record that a block is indexed.
LEMMA PruneStatementStep ==
    ASSUME IndexInv, PruneStatement
    PROVE  IndexInv'
<1> DEFINE table == PruneProgram[pruneStep][1]
           what  == PruneProgram[pruneStep][2]
           h     == PruneHeight(table)
<1>1. /\ pc = "prune" /\ pc' \in {"prune", "tip"} /\ UNCHANGED <<height, hash, next>>
      /\ transactionDepth' = transactionDepth
  BY DEF PruneStatement
<1>2. \/ Write(PruneRows(db, table, h)) /\ UNCHANGED flagState
      \/ Write(RemoveNonReachable(db, h)) /\ UNCHANGED flagState
      \/ Write(KeepSummary(db, table)) /\ UNCHANGED flagState
      \/ UNCHANGED <<db, disk, flagState>>
      \/ SetFlagInt("wasPrunedUTXOHistory", h)
  BY DEF PruneStatement
<1>3. pruneStep' \in Nat /\ kept' \subseteq Summarised
  <2>1. pruneStep \in Nat /\ kept \subseteq Summarised /\ db.summary \subseteq Summarised
    BY DEF IndexInv, TypeOK, StoreTypeOK, LocalsTypeOK, Contents
  <2>2. pruneStep' = 0 \/ pruneStep' \in 1..9
    BY <2>1, DueProps DEF PruneStatement
  <2>3. kept' \in {db.summary \cap {table}, {}, kept}
    BY DEF PruneStatement
  <2> QED BY <2>1, <2>2, <2>3
<1>4. /\ db \in Contents /\ NoHash \in Block /\ 0 \in FlagValue
      /\ flagState \in [FlagName -> FlagValue \cup {NotCached}]
      /\ height \in Heights
  BY InitialValues DEF IndexInv, TypeOK, StoreTypeOK, ThreadTypeOK
<1> HIDE DEF table, what
<1>5. h \in 0..MaxHeight /\ h \in FlagValue
  BY <1>4, PruneHeightProps
<1> HIDE DEF h
<1>6. StoreTypeOK' /\ NoGap' /\ Committed' /\ db.rows \subseteq db'.rows
  <2>1. ASSUME NEW u \in {PruneRows(db, table, h), RemoveNonReachable(db, h),
                          KeepSummary(db, table)},
               Write(u), UNCHANGED flagState
        PROVE  StoreTypeOK' /\ NoGap' /\ Committed' /\ db.rows \subseteq db'.rows
    <3>1. u \in Contents /\ Stored(u) \subseteq Stored(db) /\ u.rows = db.rows
      BY <1>4, <1>5, OtherWritesProps
    <3> QED BY <1>1, <1>4, <2>1, <3>1, WriteProps
  <2>2. CASE UNCHANGED <<db, disk, flagState>>
    BY <1>1, <2>2, QuietStore
  <2>3. CASE SetFlagInt("wasPrunedUTXOHistory", h)
    BY <1>1, <1>5, <2>3, SetFlagProps DEF FlagName
  <2> QED BY <1>2, <2>1, <2>2, <2>3
<1>7. CoreTypeOK' /\ BudgetTypeOK'
  BY DEF PruneStatement, IndexInv, TypeOK, CoreTypeOK, BudgetTypeOK
<1>8. LocalsTypeOK'
  BY <1>3 DEF PruneStatement, IndexInv, TypeOK, LocalsTypeOK
<1>9. ThreadTypeOK'
  BY <1>1 DEF PruneStatement, IndexInv, TypeOK, ThreadTypeOK
<1>10. IndexedBelow(db', height)
  <2>1. IndexedBelow(db, height)
    BY <1>1 DEF IndexInv, PlaceInv, AtHeight
  <2> QED BY <1>6, <2>1, BelowMonotonic
<1>11. PlaceInv'
  BY <1>1, <1>6, <1>10 DEF IndexInv, PlaceInv, AtHeight, HasBlock, Processed
<1> QED BY <1>6, <1>7, <1>8, <1>9, <1>11 DEF IndexInv, TypeOK

\* The thread moves on: the block it leaves has been processed if it had to be.
LEMMA AdvanceStep ==
    ASSUME IndexInv, Advance
    PROVE  IndexInv'
<1>1. /\ pc = "tip" /\ next # NoHash /\ transactionDepth' = transactionDepth
      /\ nextHash' = next /\ height' = height + 1 /\ next' = NoHash /\ pc' = "fetch"
  BY DEF Advance
<1>2. /\ height \in Heights /\ next \in Block /\ hash \in Block /\ Len(hash) = height
      /\ Len(next) = height + 1 /\ height < MaxHeight /\ IndexedBelow(db, height)
      /\ NeedsAssetProcessing(height) => hash \in db.rows
  BY <1>1 DEF IndexInv, TypeOK, ThreadTypeOK, LocalsTypeOK, PlaceInv, AtHeight, HasBlock, Processed
<1>3. StoreTypeOK' /\ NoGap' /\ Committed' /\ db.rows \subseteq db'.rows
  <2>1. CASE MarkerDue
    BY <1>1, <2>1, SetFlagProps, InitialValues DEF Advance, FlagName
  <2>2. CASE ~MarkerDue
    BY <1>1, <2>2, QuietStore DEF Advance
  <2> QED BY <2>1, <2>2
<1>4. CoreTypeOK' /\ BudgetTypeOK'
  BY DEF Advance, IndexInv, TypeOK, CoreTypeOK, BudgetTypeOK
<1>5. LocalsTypeOK'
  BY <1>1, InitialValues DEF Advance, IndexInv, TypeOK, LocalsTypeOK
<1>6. height + 1 \in Heights
  BY <1>2, DatabaseAssumption DEF Heights
<1>7. ThreadTypeOK'
  BY <1>1, <1>2, <1>6 DEF Advance, IndexInv, TypeOK, ThreadTypeOK
<1>8. IndexedBelow(db', height + 1)
  <2>1. ASSUME NEW m \in Heights, m < height + 1, NeedsAssetProcessing(m)
        PROVE  \E b \in db'.rows : Len(b) = m
    <3>1. m < height \/ m = height
      BY <1>2, <2>1, DatabaseAssumption DEF Heights
    <3>2. CASE m = height
      BY <1>2, <1>3, <2>1, <3>2
    <3>3. CASE m < height
      BY <1>2, <1>3, <2>1, <3>3 DEF IndexedBelow
    <3> QED BY <3>1, <3>2, <3>3
  <2> QED BY <2>1 DEF IndexedBelow
<1>9. PlaceInv'
  BY <1>1, <1>2, <1>8 DEF PlaceInv, AtHeight, HasBlock, Processed
<1> QED BY <1>3, <1>4, <1>5, <1>7, <1>9 DEF IndexInv, TypeOK

\* The header of the next block is stored when everything below it is indexed.
LEMMA InsertHeaderStep ==
    ASSUME IndexInv, InsertHeader
    PROVE  IndexInv'
<1> DEFINE u == InsertBlock(db, hash)
<1>1. /\ db \in Contents /\ disk \in Contents /\ transactionDepth \in Nat
      /\ Indexed(db) /\ Indexed(disk) /\ (transactionDepth = 0 => disk = db)
      /\ flagState \in [FlagName -> FlagValue \cup {NotCached}]
      /\ height \in Heights /\ hash \in Block /\ Len(hash) = height /\ IndexedBelow(db, height)
      /\ tip \in Block /\ Len(tip) \in Heights
      /\ insertBatch \in 0..(BatchSize - 1) /\ BatchSize \in Nat \ {0}
  BY AnalyzerAssumption
  DEF InsertHeader, IndexInv, TypeOK, CoreTypeOK, StoreTypeOK, ThreadTypeOK, LocalsTypeOK,
      NoGap, Committed, PlaceInv, AtHeight, HasBlock
<1>2. u \in Contents /\ Stored(u) \subseteq Stored(db) \cup {height} /\ u.rows = db.rows
  BY <1>1, InsertBlockProps
<1>3. /\ db' = u /\ disk' = IF transactionDepth' = 0 THEN u ELSE disk
      /\ UNCHANGED <<flagState, height, nextHash, hash>>
      /\ pc' = "loop" /\ next' = CoreNext(hash) /\ confirmations' = Confirmations(hash)
  BY DEF InsertHeader, FetchBlock
<1> HIDE DEF u
<1>4. transactionDepth' \in Nat /\ insertBatch' \in 0..(BatchSize - 1)
  BY <1>1 DEF InsertHeader, BatchFull
<1>5. Indexed(u)
  <2>1. ASSUME NEW k \in Stored(u), NEW m \in Heights, m < k, NeedsAssetProcessing(m)
        PROVE  \E b \in u.rows : Len(b) = m
    <3>1. CASE k \in Stored(db)
      BY <1>1, <1>2, <2>1, <3>1 DEF Indexed
    <3>2. CASE k = height
      BY <1>1, <1>2, <2>1, <3>2 DEF IndexedBelow
    <3> QED BY <1>2, <2>1, <3>1, <3>2
  <2> QED BY <2>1 DEF Indexed
<1>6. StoreTypeOK' /\ NoGap' /\ Committed'
  BY <1>1, <1>2, <1>3, <1>4, <1>5 DEF StoreTypeOK, NoGap, Committed
<1>7. /\ CoreNext(hash) \in Block /\ Confirmations(hash) \in Int
      /\ CoreNext(hash) # NoHash => Len(CoreNext(hash)) = height + 1 /\ height < MaxHeight
  BY <1>1, CoreNextProps
<1>8. CoreTypeOK' /\ BudgetTypeOK'
  BY DEF InsertHeader, IndexInv, TypeOK, CoreTypeOK, BudgetTypeOK
<1>9. LocalsTypeOK'
  BY <1>3, <1>4, <1>7 DEF InsertHeader, IndexInv, TypeOK, LocalsTypeOK
<1>10. ThreadTypeOK'
  BY <1>3 DEF InsertHeader, IndexInv, TypeOK, ThreadTypeOK
<1>11. IndexedBelow(db', height)
  BY <1>1, <1>2, <1>3 DEF IndexedBelow
<1>12. PlaceInv'
  BY <1>1, <1>3, <1>7, <1>11 DEF PlaceInv, AtHeight, HasBlock, Processed
<1> QED BY <1>6, <1>8, <1>9, <1>10, <1>12 DEF IndexInv, TypeOK

-----------------------------------------------------------------------------
(* The theorems. *)

\* The database the constructor creates has no gap.
LEMMA InitInv == ASSUME Init PROVE IndexInv
<1>1. db \in Contents
  <2>1. [h \in Heights |-> IF h = 1 THEN Block1 ELSE NoHash] \in [Heights -> Block]
    BY InitialValues
  <2>2. [f \in FlagName |-> IF f = "ddSyncHeight" THEN 0 ELSE -1] \in [FlagName -> FlagValue]
    BY InitialValues
  <2>3. [p \in PruneTable |-> 0] \in [PruneTable -> 0..MaxHeight]
    BY DatabaseAssumption
  <2> QED BY <2>1, <2>2, <2>3 DEF Init, FreshDatabase, Contents
<1>2. Stored(db) \subseteq {1}
  BY DEF Init, FreshDatabase, Stored
<1>3. Indexed(db)
  BY <1>2, DatabaseAssumption DEF Indexed, Heights
<1>4. StoreTypeOK /\ NoGap /\ Committed
  BY <1>1, <1>3, InitialValues DEF Init, StoreTypeOK, NoGap, Committed
<1>5. CoreTypeOK
  <2>1. Len(Block1) = 1
    BY DEF Block1
  <2> QED BY <2>1, InitialValues DEF Init, CoreTypeOK
<1>6. ThreadTypeOK /\ BudgetTypeOK
  BY InitialValues DEF Init, ThreadTypeOK, BudgetTypeOK
<1>7. LocalsTypeOK
  <2>1. NoHash \in Block /\ BatchSize \in Nat \ {0}
    BY InitialValues, AnalyzerAssumption
  <2>2. insertBatch \in 0..(BatchSize - 1) /\ pruneStep \in Nat /\ confirmations \in Int
    BY <2>1 DEF Init
  <2>3. bulkSync \in BOOLEAN /\ kept \subseteq Summarised
    BY DEF Init
  <2> QED BY <2>1, <2>2, <2>3 DEF Init, LocalsTypeOK
<1>8. PlaceInv
  BY DEF Init, PlaceInv, AtHeight, HasBlock, Processed
<1> QED BY <1>4, <1>5, <1>6, <1>7, <1>8 DEF IndexInv, TypeOK

\* A step that changes nothing.
LEMMA StutterStep == ASSUME IndexInv, UNCHANGED vars PROVE IndexInv'
<1>1. StoreTypeOK' /\ NoGap' /\ Committed'
  BY QuietStore DEF vars
<1>2. CoreTypeOK' /\ BudgetTypeOK' /\ ThreadTypeOK'
  BY DEF vars, IndexInv, TypeOK, CoreTypeOK, BudgetTypeOK, ThreadTypeOK
<1>3. LocalsTypeOK'
  BY DEF vars, IndexInv, TypeOK, LocalsTypeOK
<1>4. PlaceInv'
  BY DEF vars, IndexInv, PlaceInv, AtHeight, HasBlock, Processed
<1> QED BY <1>1, <1>2, <1>3, <1>4 DEF IndexInv, TypeOK

\* Crash and Shutdown end the process.
LEMMA EndStep == ASSUME IndexInv, Crash \/ Shutdown PROVE IndexInv'
  BY ProcessEndStep DEF Crash, Shutdown, IndexInv, TypeOK, BudgetTypeOK

\* The index invariant is inductive: no step of the thread, of Core, of the operator or of a
\* failing disk breaks it.
THEOREM IndexInvariance == Spec => []IndexInv
<1>1. Init => IndexInv
  BY InitInv
<1>2. IndexInv /\ [Next]_vars => IndexInv'
  <2> SUFFICES ASSUME IndexInv, [Next]_vars PROVE IndexInv'
    OBVIOUS
  <2>1. CASE Startup \/ MainEnter \/ Retry \/ Rewind
    BY <2>1, StartupReadStep, StartupRepairStep, StartupBackfillStep, StartupMarkStep,
       MainEnterStep, StutterStep, AskStep, RewindStepStep, RewindDoneStep, RewindRestartStep
    DEF Startup, Retry, Rewind
  <2>2. CASE Sync
    BY <2>2, AskStep, MoveStep, LoopExitStep, CaptureOracleStep, ProcessBlockStep,
       CommitBlockStep, PruneStatementStep, AdvanceStep, InsertHeaderStep
    DEF Sync
  <2>3. CASE CoreBehind \/ Shutdown
    BY <2>3, AbandonStep, EndStep
  <2>4. CASE Environment
    BY <2>4, CoreStep, ProcessStartStep, EndStep, MoveStep, AbandonStep DEF Environment
  <2>5. CASE UNCHANGED vars
    BY <2>5, StutterStep
  <2> QED BY <2>1, <2>2, <2>3, <2>4, <2>5 DEF Next, Analyzer
<1> QED BY <1>1, <1>2, PTL DEF Spec

\* The thread never leaves the heights of the chain and a header batch never outgrows its
\* limit, for any number of faults (phaseSync, phaseRewind, mainFunction).
THEOREM TypeCorrectness == Spec => []TypeOK
<1>1. IndexInv => TypeOK
  BY DEF IndexInv
<1> QED BY <1>1, IndexInvariance, PTL

\* isHeightIndexed() never tells a caller that a height is indexed when it is not, neither
\* now nor after the process is killed at any moment.
THEOREM NoGapInvariance == Spec => []NoGap
<1>1. IndexInv => NoGap
  BY DEF IndexInv
<1> QED BY <1>1, IndexInvariance, PTL

-----------------------------------------------------------------------------
(* Transactions.  With storenonassetutxo set no header is ever batched, and then every      *)
(* transaction ends where it should.  Without it neither property holds (see the README).   *)

\* A transaction is open exactly while a block's rows are being written.
DepthInv ==
    /\ transactionDepth = IF pc = "commit" THEN 1 ELSE 0
    /\ insertBatch = 0

\* startTransaction() and endTransaction() pair up, whatever happens in between.
LEMMA DepthStep ==
    ASSUME StoreNonAsset, DepthInv, [Next]_vars
    PROVE  DepthInv'
<1>1. CASE UNCHANGED vars
  BY <1>1 DEF DepthInv, vars
<1>2. CASE Startup \/ MainEnter \/ Retry
  BY <1>2 DEF Startup, StartupRead, StartupRepair, StartupBackfill, StartupMark, MainEnter, Retry,
     RecoverAt, DepthInv, vars
<1>3. CASE Rewind
  BY <1>3 DEF Rewind, CheckFork, RewindStep, RewindDone, RewindRestart, Catch, AbortTransaction,
     DropLocals, DepthInv
<1>4. CASE Shutdown \/ Crash
  BY <1>4 DEF Shutdown, Crash, ProcessEnd, DropLocals, DepthInv
<1>5. CASE Throw \/ CoreBehind
  <2>1. Abandon
    BY <1>5 DEF Throw, CoreBehind
  <2> QED BY <2>1 DEF Abandon, Catch, AbortTransaction, DropLocals, DepthInv
<1>6. CASE CoreExtend \/ CoreReorg \/ ProcessStart \/ RequestStop \/ CaptureFails
  BY <1>6 DEF CoreExtend, CoreReorg, ProcessStart, RequestStop, CaptureFails, DepthInv
<1>7. CASE Sync
  <2>1. CASE OpenHash \/ OpenBlock \/ LoopEnter \/ CaptureOracle \/ BlockDone
    BY <2>1 DEF OpenHash, OpenBlock, LoopEnter, CaptureOracle, BlockDone, DepthInv
  <2>2. CASE LoopExit
    BY <2>2 DEF LoopExit, DropLocals, DepthInv
  <2>3. CASE ProcessBlock
    BY <2>3 DEF ProcessBlock, NeedsAssetProcessing, DepthInv
  <2>4. CASE CommitBlock
    BY <2>4 DEF CommitBlock, EndTransaction, DepthInv
  <2>5. CASE PruneStatement
    BY <2>5 DEF PruneStatement, DepthInv
  <2>6. CASE TipWait \/ TipStop \/ TipPoll \/ TipRefresh
    BY <2>6 DEF TipWait, TipStop, TipPoll, TipRefresh, DropLocals, DepthInv
  <2>7. CASE Advance \/ FetchHash
    BY <2>7 DEF Advance, FetchHash, DepthInv
  <2>8. CASE InsertHeader
    BY <2>8 DEF InsertHeader, NeedsAssetProcessing, DepthInv
  <2> QED BY <1>7, <2>1, <2>2, <2>3, <2>4, <2>5, <2>6, <2>7, <2>8 DEF Sync
<1> QED BY <1>1, <1>2, <1>3, <1>4, <1>5, <1>6, <1>7 DEF Next, Analyzer, Environment

\* With that, whether a block's rows are committed is a question of where the thread is.
LEMMA DepthInvariance == ASSUME StoreNonAsset PROVE Spec => [](IndexInv /\ DepthInv)
<1>1. Init => DepthInv
  BY DEF Init, DepthInv
<1>2. DepthInv /\ [Next]_vars => DepthInv'
  BY DepthStep
<1> QED BY <1>1, <1>2, IndexInvariance, PTL DEF Spec

\* Between two passes of mainFunction() no transaction is open, for any number of forks,
\* errors and stops.
THEOREM TransactionsEnd == ASSUME StoreNonAsset PROVE Spec => []NothingLeftOpen
<1>1. IndexInv /\ DepthInv => NothingLeftOpen
  BY DEF DepthInv, NothingLeftOpen
<1> QED BY <1>1, DepthInvariance, PTL

\* The rows of every block but the one being written are on disk, whatever was rolled back,
\* rewound or abandoned before (phaseSync's transaction per block).
THEOREM ProcessedBlocksAreDurable == ASSUME StoreNonAsset PROVE Spec => []AssetRowsDurable
<1>1. IndexInv /\ DepthInv => AssetRowsDurable
  BY DEF IndexInv, Committed, DepthInv, AssetRowsDurable
<1> QED BY <1>1, DepthInvariance, PTL

-----------------------------------------------------------------------------
(* The DigiDollar marker, on a node that stores non-asset UTXOs and does not prune.  There   *)
(* every header down to block 1 stays, so a rewind finds one and reset() is never called.    *)

\* The blocks table has no hole, and begins with the block every chain begins with.
Unbroken ==
    /\ db.blocks[1] = Block1 /\ tip[1] = Trunk
    /\ \A k \in Stored(db), h \in Heights : h < k => h \in Stored(db)

\* The header of the block in hand is stored; between two blocks, the one below is.
HeaderInv ==
    /\ AtHeight => (IF pc \in {"fetch", "insert"} THEN height - 1 ELSE height) \in Stored(db)
    /\ AtHeight /\ pc # "repair" /\ height = 1 => nextHash = Block1
    /\ pc = "rewind" /\ height = 1 => hash = Block1
    /\ pc # "prune"

\* Headers and flags are written outside transactions, and RAM has what the table has.
FlagInv ==
    /\ disk.blocks = db.blocks /\ disk.flags = db.flags
    /\ db.flags["ddSyncHeight"] \in {0, DDHeight} /\ db.flags["wasPrunedUTXOHistory"] = -1
    /\ \A f \in FlagName : flagState[f] \in {NotCached, db.flags[f]}

\* Without the marker, a node that tracks DigiDollar has gone no further than activation.
MarkInv ==
    /\ pc \in {"repair", "backfill"} => \A k \in Stored(db) : k <= height
    /\ /\ track /\ pc \in {"main"} \cup RewindPc \cup SyncPc
       /\ db.flags["ddSyncHeight"] # DDHeight
       => height <= DDHeight /\ \A k \in Stored(db) : k <= DDHeight

HistoryInv == Unbroken /\ HeaderInv /\ FlagInv /\ MarkInv

\* The values behind it have their types.
LEMMA HistoryTypes ==
    ASSUME IndexInv
    PROVE  /\ db \in Contents /\ disk \in Contents
           /\ db.blocks \in [Heights -> Block] /\ db.flags \in [FlagName -> FlagValue]
           /\ flagState \in [FlagName -> FlagValue \cup {NotCached}]
           /\ height \in Heights /\ height \in Int /\ 1 \in Heights
           /\ tip \in Block /\ Len(tip) \in Heights
           /\ MaxHeight \in Nat /\ DDHeight \in Nat /\ DDHeight >= 2 /\ Heights = 1..MaxHeight
           /\ Stored(db) \subseteq Heights
<1>1. db \in Contents /\ disk \in Contents /\ height \in Heights /\ tip \in Block
      /\ Len(tip) \in Heights /\ flagState \in [FlagName -> FlagValue \cup {NotCached}]
  BY DEF IndexInv, TypeOK, StoreTypeOK, ThreadTypeOK, CoreTypeOK
<1>2. MaxHeight \in Nat /\ DDHeight \in Nat /\ DDHeight >= 2 /\ Heights = 1..MaxHeight
  BY DatabaseAssumption DEF Heights
<1>3. db.blocks \in [Heights -> Block] /\ db.flags \in [FlagName -> FlagValue]
  BY <1>1 DEF Contents
<1>4. height \in Int /\ 1 \in Heights
  BY <1>1, <1>2
<1> QED BY <1>1, <1>2, <1>3, <1>4 DEF Stored

\* Core's block 1, and any answer for height 1, is the block every chain begins with.
LEMMA CoreRoot ==
    ASSUME IndexInv, Unbroken
    PROVE  CoreHash(1) = Block1
<1>1. tip \in Seq(Branch) /\ Len(tip) \in Nat /\ Len(tip) >= 1 /\ tip[1] = Trunk
  BY HistoryTypes DEF Unbroken, Block
<1>2. \A i \in 1..1 : tip[i] \in Branch
  BY <1>1, ElementOfSeq
<1>3. /\ SubSeq(tip, 1, 1) \in Seq(Branch) /\ Len(SubSeq(tip, 1, 1)) = 1
      /\ SubSeq(tip, 1, 1)[1] = tip[1]
  BY <1>1, <1>2, SubSeqProperties
<1>4. <<Trunk>> \in Seq(Branch) /\ Len(<<Trunk>>) = 1 /\ <<Trunk>>[1] = Trunk
  BY AnalyzerAssumption
<1>5. SubSeq(tip, 1, 1) = <<Trunk>>
  <2>1. \A i \in 1..Len(SubSeq(tip, 1, 1)) : SubSeq(tip, 1, 1)[i] = <<Trunk>>[i]
    BY <1>1, <1>3, <1>4
  <2>2. Len(SubSeq(tip, 1, 1)) = Len(<<Trunk>>)
    BY <1>3, <1>4
  <2> QED BY <1>3, <1>4, <2>1, <2>2, SeqEqual, Zenon
<1> QED BY <1>5 DEF CoreHash, Block1

\* RAM gets no value but one of the table.
OnlyReads == \A f \in FlagName : flagState'[f] \in {flagState[f], db.flags[f]}

\* A step that writes neither headers nor flags.
SameHistory ==
    /\ db'.blocks = db.blocks /\ disk'.blocks = db.blocks
    /\ db'.flags = db.flags /\ disk'.flags = db.flags
    /\ OnlyReads /\ tip' = tip

LEMMA SameHistoryProps ==
    ASSUME HistoryInv, SameHistory
    PROVE  Unbroken' /\ FlagInv' /\ Stored(db)' = Stored(db)
<1>1. Stored(db)' = Stored(db)
  BY DEF OnlyReads, SameHistory, Stored
<1>2. Unbroken'
  BY <1>1 DEF HistoryInv, OnlyReads, SameHistory, Unbroken
<1>3. FlagInv'
  BY DEF HistoryInv, OnlyReads, SameHistory, FlagInv
<1> QED BY <1>1, <1>2, <1>3

\* Such a step that stays on the block in hand.
LEMMA SamePlace ==
    ASSUME HistoryInv, SameHistory, UNCHANGED <<height, nextHash, track>>,
           AtHeight' => AtHeight, pc # "repair",
           AtHeight' => (pc' \in {"fetch", "insert"} <=> pc \in {"fetch", "insert"}),
           pc' = "rewind" /\ height = 1 => hash' = Block1,
           pc' \notin {"prune", "repair", "backfill"},
           pc' \in {"main"} \cup RewindPc \cup SyncPc => pc \in {"main"} \cup RewindPc \cup SyncPc
    PROVE  HistoryInv'
<1>1. Unbroken' /\ FlagInv' /\ Stored(db)' = Stored(db)
  BY SameHistoryProps
<1>2. HeaderInv'
  BY <1>1 DEF HistoryInv, HeaderInv
<1>3. MarkInv'
  BY <1>1 DEF HistoryInv, MarkInv, SameHistory
<1> QED BY <1>1, <1>2, <1>3 DEF HistoryInv

\* What processing, asking and waiting do.
LEMMA QuietHistory ==
    ASSUME StoreNonAsset, PruneAge = -1, IndexInv, DepthInv, HistoryInv,
           \/ OpenHash \/ OpenBlock \/ LoopEnter \/ LoopExit \/ CaptureFails \/ ProcessBlock
           \/ CommitBlock \/ BlockDone \/ TipWait \/ TipStop \/ TipPoll \/ TipRefresh \/ FetchHash
    PROVE  HistoryInv'
<1>1. db \in Contents /\ disk \in Contents
  BY HistoryTypes
<1>2. disk.blocks = db.blocks /\ disk.flags = db.flags
  BY DEF HistoryInv, FlagInv
<1>3. CASE OpenHash \/ OpenBlock \/ LoopEnter \/ CaptureFails \/ TipWait \/ TipRefresh \/ FetchHash
  <2>1. SameHistory /\ UNCHANGED <<height, nextHash, track>>
    BY <1>2, <1>3 DEF OnlyReads, SameHistory, OpenHash, OpenBlock, LoopEnter, CaptureFails, TipWait, TipRefresh,
       FetchHash
  <2> QED BY <1>3, <2>1, SamePlace DEF AtHeight, OpenHash, OpenBlock, LoopEnter, CaptureFails,
             TipWait, TipRefresh, FetchHash
<1>4. CASE LoopExit
  <2>1. SameHistory /\ UNCHANGED <<height, nextHash, track>>
    BY <1>2, <1>4 DEF OnlyReads, SameHistory, LoopExit, EndTransaction
  <2> QED BY <1>4, <2>1, SamePlace DEF AtHeight, LoopExit
<1>5. CASE TipStop \/ TipPoll
  <2>1. SameHistory /\ UNCHANGED <<height, nextHash, track>>
    BY <1>2, <1>5 DEF OnlyReads, SameHistory, TipStop, TipPoll
  <2> QED BY <1>5, <2>1, SamePlace DEF AtHeight, TipStop, TipPoll
<1>6. CASE ProcessBlock
  <2>1. db'.blocks = db.blocks /\ db'.flags = db.flags
    BY <1>1, <1>6 DEF ProcessBlock, Contents
  <2>2. SameHistory /\ UNCHANGED <<height, nextHash, track>>
    BY <1>2, <1>6, <2>1 DEF OnlyReads, SameHistory, ProcessBlock
  <2> QED BY <1>6, <2>2, SamePlace DEF AtHeight, ProcessBlock
<1>7. CASE CommitBlock
  <2>1. SameHistory /\ UNCHANGED <<height, nextHash, track>>
    BY <1>2, <1>7 DEF OnlyReads, SameHistory, CommitBlock, EndTransaction
  <2> QED BY <1>7, <2>1, SamePlace DEF AtHeight, CommitBlock
<1>8. CASE BlockDone
  <2>1. SameHistory /\ UNCHANGED <<height, nextHash, track>>
    BY <1>2, <1>8 DEF OnlyReads, SameHistory, BlockDone
  <2>2. PruneMax(height) = 0
    BY DEF PruneMax
  <2>3. pc = "processed" /\ pc' = "tip"
    BY <1>8, <2>2 DEF BlockDone
  <2> QED BY <2>1, <2>3, SamePlace DEF AtHeight
<1> QED BY <1>3, <1>4, <1>5, <1>6, <1>7, <1>8

\* A price is stored: in the oracle table only (captureOracleCommitment).
LEMMA CaptureHistory ==
    ASSUME IndexInv, DepthInv, HistoryInv, CaptureOracle
    PROVE  HistoryInv'
<1>1. db \in Contents /\ disk.blocks = db.blocks /\ disk.flags = db.flags
  BY HistoryTypes DEF HistoryInv, FlagInv
<1>2. /\ AddDigiDollarRate(db, hash).blocks = db.blocks
      /\ AddDigiDollarRate(db, hash).flags = db.flags
  BY <1>1 DEF AddDigiDollarRate, Contents
<1>3. SameHistory /\ UNCHANGED <<height, nextHash, track>>
  BY <1>1, <1>2 DEF OnlyReads, SameHistory, CaptureOracle, Write
<1> QED BY <1>3, SamePlace DEF AtHeight, CaptureOracle

\* A pass is abandoned: the rows of the block go, the headers and flags stay.
LEMMA AbandonHistory ==
    ASSUME HistoryInv, Abandon
    PROVE  HistoryInv'
<1>1. disk.blocks = db.blocks /\ disk.flags = db.flags
  BY DEF HistoryInv, FlagInv
<1>2. CASE pc \in RewindPc \cup SyncPc /\ Catch
  <2>1. SameHistory /\ UNCHANGED <<height, nextHash, track>> /\ pc' = "main" /\ lastPassFailed'
    BY <1>1, <1>2 DEF OnlyReads, SameHistory, Catch, AbortTransaction
  <2> QED BY <1>2, <2>1, SamePlace DEF AtHeight
<1>3. CASE pc \in StartupPc /\ pc' = "startup" /\ UNCHANGED <<store, flagState, core, place, control>>
  <2>1. SameHistory
    BY <1>1, <1>3 DEF OnlyReads, SameHistory
  <2>2. Unbroken' /\ FlagInv' /\ HeaderInv' /\ MarkInv'
    BY <1>3, <2>1, SameHistoryProps DEF HeaderInv, MarkInv, AtHeight
  <2> QED BY <2>2 DEF HistoryInv
<1> QED BY <1>2, <1>3 DEF Abandon

\* The process ends: RAM forgets the flags.
LEMMA EndHistory ==
    ASSUME HistoryInv, ProcessEnd
    PROVE  HistoryInv'
<1>1. db' = disk /\ disk' = disk /\ tip' = tip /\ pc' = "off"
      /\ flagState' = [f \in FlagName |-> NotCached]
  BY DEF ProcessEnd
<1>2. disk.blocks = db.blocks /\ disk.flags = db.flags
  BY DEF HistoryInv, FlagInv
<1>3. Stored(db)' = Stored(db)
  BY <1>1, <1>2 DEF Stored
<1>4. Unbroken' /\ FlagInv'
  BY <1>1, <1>2, <1>3 DEF HistoryInv, Unbroken, FlagInv
<1>5. HeaderInv' /\ MarkInv'
  BY <1>1 DEF HeaderInv, MarkInv, AtHeight
<1> QED BY <1>4, <1>5 DEF HistoryInv

\* Core's chain moves above block 1.
LEMMA CoreHistory ==
    ASSUME IndexInv, HistoryInv, CoreExtend \/ CoreReorg
    PROVE  HistoryInv'
<1>1. UNCHANGED <<db, disk, flagState, pc, height, nextHash, lastPassFailed, track, hash>>
  BY DEF CoreExtend, CoreReorg
<1>2. tip \in Seq(Branch) /\ Len(tip) \in Nat /\ Len(tip) >= 1 /\ tip[1] = Trunk
  BY HistoryTypes DEF HistoryInv, Unbroken, Block
<1>3. tip'[1] = Trunk
  <2>1. CASE CoreExtend
    <3>1. tip[Len(tip)] \in Branch /\ tip' = Append(tip, tip[Len(tip)])
      BY <1>2, <2>1, ElementOfSeq DEF CoreExtend
    <3> QED BY <1>2, <3>1, AppendProperties
  <2>2. CASE CoreReorg
    <3>1. PICK d \in 1..MaxReorgDepth, n \in Heights, l \in Branch :
             /\ Len(tip) - d >= 1
             /\ tip' = [i \in 1..(Len(tip) - d + n) |-> IF i <= Len(tip) - d THEN tip[i] ELSE l]
      BY <2>2 DEF CoreReorg
    <3>2. d \in Nat /\ n \in Nat
      BY AnalyzerAssumption, HistoryTypes
    <3>3. 1 \in 1..(Len(tip) - d + n) /\ 1 <= Len(tip) - d
      BY <1>2, <3>1, <3>2
    <3> QED BY <1>2, <3>1, <3>3
  <2> QED BY <2>1, <2>2
<1>4. Stored(db)' = Stored(db)
  BY <1>1 DEF Stored
<1>5. Unbroken'
  BY <1>1, <1>3, <1>4 DEF HistoryInv, Unbroken
<1>6. HeaderInv' /\ FlagInv' /\ MarkInv'
  BY <1>1, <1>4 DEF HistoryInv, HeaderInv, FlagInv, MarkInv, AtHeight
<1> QED BY <1>5, <1>6 DEF HistoryInv

\* The marker is written, in the table, on disk and in RAM (setFlagInt).
LEMMA MarkerWritten ==
    ASSUME IndexInv, HistoryInv, transactionDepth = 0, NEW v \in {0, DDHeight},
           SetFlagInt("ddSyncHeight", v), tip' = tip
    PROVE  /\ Unbroken' /\ FlagInv' /\ Stored(db)' = Stored(db)
           /\ db'.flags["ddSyncHeight"] = v
<1> DEFINE f == "ddSyncHeight"
<1> DEFINE u == SetFlag(db, flagState, f, v)
<1>1. /\ db \in Contents /\ db.flags \in [FlagName -> FlagValue]
      /\ flagState \in [FlagName -> FlagValue \cup {NotCached}] /\ DDHeight \in Nat
  BY HistoryTypes
<1>2. /\ \A g \in FlagName : flagState[g] \in {NotCached, db.flags[g]}
      /\ db.flags[f] \in {0, DDHeight} /\ db.flags["wasPrunedUTXOHistory"] = -1
  BY DEF HistoryInv, FlagInv
<1>3. f \in FlagName /\ v \in FlagValue /\ v # NotCached
  BY <1>1, InitialValues DEF FlagName, NotCached
<1>4. FlagOf(db, flagState, f) = db.flags[f]
  BY <1>2, <1>3 DEF FlagOf
<1>5. u.blocks = db.blocks /\ u.flags = [db.flags EXCEPT ![f] = v]
  BY <1>1, <1>3, <1>4 DEF SetFlag, Contents
<1>6. db' = u /\ disk' = u /\ flagState' = [flagState EXCEPT ![f] = v]
  BY DEF SetFlagInt, Write, CacheFlag
<1> HIDE DEF u
<1>7. /\ u.flags[f] = v
      /\ u.flags["wasPrunedUTXOHistory"] = db.flags["wasPrunedUTXOHistory"]
      /\ \A g \in FlagName \ {f} : u.flags[g] = db.flags[g]
  BY <1>1, <1>3, <1>5 DEF FlagName
<1>8. \A g \in FlagName : flagState'[g] \in {NotCached, u.flags[g]}
  BY <1>1, <1>2, <1>3, <1>6, <1>7
<1>9. Stored(db)' = Stored(db)
  BY <1>5, <1>6 DEF Stored
<1>10. Unbroken'
  BY <1>5, <1>6, <1>9 DEF HistoryInv, Unbroken
<1>11. FlagInv'
  BY <1>2, <1>6, <1>7, <1>8 DEF FlagInv
<1> QED BY <1>6, <1>7, <1>9, <1>10, <1>11

\* Starting, with the marker cleared when DigiDollar is not tracked.
LEMMA StartHistory ==
    ASSUME IndexInv, DepthInv, HistoryInv, ProcessStart
    PROVE  HistoryInv'
<1>1. pc = "off" /\ pc' = "startup" /\ tip' = tip
  BY DEF ProcessStart
<1>2. HeaderInv' /\ MarkInv'
  BY <1>1 DEF HeaderInv, MarkInv, AtHeight
<1>3. CASE UNCHANGED <<db, disk, flagState>>
  <2>1. SameHistory
    BY <1>1, <1>3 DEF OnlyReads, SameHistory, HistoryInv, FlagInv
  <2> QED BY <1>2, <2>1, SameHistoryProps DEF HistoryInv
<1>4. CASE SetFlagInt("ddSyncHeight", 0)
  <2>1. transactionDepth = 0
    BY <1>1 DEF DepthInv
  <2> QED BY <1>1, <1>2, <1>4, <2>1, MarkerWritten DEF HistoryInv
<1> QED BY <1>3, <1>4 DEF ProcessStart

\* A repair takes headers above h only, if it works at all.
LEMMA ClearHistory ==
    ASSUME IndexInv, HistoryInv, transactionDepth = 0, NEW h \in Heights,
           ClearBlocksAboveHeight(h), OnlyReads, tip' = tip
    PROVE  /\ Unbroken' /\ FlagInv' /\ db'.flags = db.flags
           /\ Stored(db)' \subseteq Stored(db)
           /\ \A k \in Stored(db) : k <= h => k \in Stored(db)'
<1> DEFINE u == ClearAbove(db, h)
<1>1. /\ db \in Contents /\ db.blocks \in [Heights -> Block] /\ Heights = 1..MaxHeight
      /\ MaxHeight \in Nat /\ 1 \in Heights
  BY HistoryTypes
<1>2. u.blocks = [k \in Heights |-> IF k > h THEN NoHash ELSE db.blocks[k]]
      /\ u.flags = db.flags
  BY <1>1 DEF ClearAbove, Contents
<1>3. Stored(u) = {k \in Stored(db) : k <= h}
  BY <1>1, <1>2 DEF Stored
<1>4. u.blocks[1] = db.blocks[1]
  BY <1>1, <1>2
<1>5. disk.blocks = db.blocks /\ disk.flags = db.flags
  BY DEF HistoryInv, FlagInv
<1>6. (db' = u /\ disk' = u) \/ (db' = db /\ disk' = disk)
  BY DEF ClearBlocksAboveHeight, Write
<1> HIDE DEF u
<1>7. CASE db' = db /\ disk' = disk
  <2>1. SameHistory
    BY <1>5, <1>7 DEF OnlyReads, SameHistory
  <2> QED BY <1>7, <2>1, SameHistoryProps
<1>8. CASE db' = u /\ disk' = u
  <2>1. Stored(db)' = {k \in Stored(db) : k <= h}
    BY <1>3, <1>8 DEF Stored
  <2>2. FlagInv' /\ db'.flags = db.flags
    BY <1>2, <1>8 DEF HistoryInv, FlagInv, OnlyReads
  <2>3. Unbroken'
    <3>1. \A k \in Stored(db)', m \in Heights : m < k => m \in Stored(db)'
      BY <1>1, <2>1 DEF HistoryInv, Unbroken, Stored
    <3> QED BY <1>4, <1>8, <3>1 DEF HistoryInv, Unbroken
  <2> QED BY <2>1, <2>2, <2>3
<1> QED BY <1>6, <1>7, <1>8

\* startupFunction(): where we left off is the newest header, so without the marker the
\* backfill rewinds, or there is nothing to rewind.
LEMMA StartupHistory ==
    ASSUME StoreNonAsset, PruneAge = -1, IndexInv, DepthInv, HistoryInv, Startup
    PROVE  HistoryInv'
<1>1. /\ height \in Heights /\ 1 \in Heights /\ MaxHeight \in Nat /\ Heights = 1..MaxHeight
      /\ DDHeight \in Nat /\ DDHeight >= 2 /\ Stored(db) \subseteq Heights
  BY HistoryTypes
<1>2. transactionDepth = 0 /\ disk.blocks = db.blocks /\ disk.flags = db.flags
  BY DEF Startup, StartupRead, StartupRepair, StartupBackfill, StartupMark, DepthInv,
         HistoryInv, FlagInv
<1>3. CASE StartupRead
  <2>1. PICK h \in Heights : IsBlockHeight(db, h) /\ height' = h
    BY <1>3 DEF StartupRead
  <2>2. SameHistory /\ pc' = "repair"
    BY <1>2, <1>3 DEF OnlyReads, SameHistory, StartupRead
  <2>3. Unbroken' /\ FlagInv' /\ Stored(db)' = Stored(db)
    BY <2>2, SameHistoryProps
  <2>4. HeaderInv' /\ MarkInv'
    BY <1>1, <2>1, <2>2, <2>3 DEF HeaderInv, MarkInv, AtHeight, IsBlockHeight
  <2> QED BY <2>3, <2>4 DEF HistoryInv
<1>4. CASE StartupRepair
  <2>1. /\ pc = "repair" /\ pc' = "backfill" /\ height' = height /\ nextHash' = CoreHash(height)
        /\ ClearBlocksAboveHeight(height) /\ flagState' = flagState /\ tip' = tip
    BY <1>4 DEF StartupRepair
  <2>2. /\ Unbroken' /\ FlagInv' /\ Stored(db)' \subseteq Stored(db)
        /\ \A k \in Stored(db) : k <= height => k \in Stored(db)'
    BY <1>1, <1>2, <2>1, ClearHistory DEF OnlyReads
  <2>3. height \in Stored(db) /\ \A k \in Stored(db) : k <= height
    BY <2>1 DEF HistoryInv, HeaderInv, MarkInv, AtHeight
  <2>4. height' \in Stored(db)' /\ \A k \in Stored(db)' : k <= height'
    BY <1>1, <2>1, <2>2, <2>3
  <2>5. height = 1 => nextHash' = Block1
    BY <2>1, CoreRoot DEF HistoryInv
  <2>6. HeaderInv' /\ MarkInv'
    BY <2>1, <2>4, <2>5 DEF HeaderInv, MarkInv, AtHeight
  <2> QED BY <2>2, <2>6 DEF HistoryInv
<1>reads. StartupBackfill => OnlyReads
  BY HistoryTypes, ReadFlagsProps DEF StartupBackfill, OnlyReads
<1>5. CASE StartupBackfill /\ BackfillDue
  <2>1. /\ pc = "backfill" /\ height' = DDHeight - 1 /\ ClearBlocksAboveHeight(DDHeight - 1)
        /\ OnlyReads /\ tip' = tip /\ height >= DDHeight
    BY <1>5, <1>reads DEF StartupBackfill, BackfillDue
  <2>2. DDHeight - 1 \in Heights
    BY <1>1, <2>1
  <2>3. /\ Unbroken' /\ FlagInv' /\ Stored(db)' \subseteq Stored(db)
        /\ \A k \in Stored(db) : k <= DDHeight - 1 => k \in Stored(db)'
    BY <1>2, <2>1, <2>2, ClearHistory DEF OnlyReads
  <2>4. DDHeight - 1 \in Stored(db)
    <3>1. height \in Stored(db)
      BY <2>1 DEF HistoryInv, HeaderInv, AtHeight
    <3> QED BY <1>1, <2>1, <2>2, <3>1 DEF HistoryInv, Unbroken
  <2>5. DDHeight - 1 \in Stored(db)'
    BY <1>1, <2>2, <2>3, <2>4
  <2>6. BlockHash(db, DDHeight - 1) = db.blocks[DDHeight - 1]
        /\ BlockHash(db, DDHeight - 1) # NoHash
    BY <2>2, <2>4 DEF BlockHash, Stored
  <2>7. pc' = "mark" /\ nextHash' = db.blocks[DDHeight - 1]
    BY <1>5, <2>6 DEF StartupBackfill
  <2>8. HeaderInv' /\ MarkInv'
    BY <1>1, <2>1, <2>5, <2>7 DEF HistoryInv, Unbroken, HeaderInv, MarkInv, AtHeight
  <2> QED BY <2>3, <2>8 DEF HistoryInv
<1>6. CASE StartupBackfill /\ ~BackfillDue
  <2>1. /\ pc = "backfill" /\ pc' = "main"
        /\ UNCHANGED <<db, disk, tip, height, nextHash, track, lastPassFailed, hash>>
    BY <1>6 DEF StartupBackfill
  <2>2. SameHistory
    BY <1>2, <1>6, <1>reads, <2>1 DEF OnlyReads, SameHistory
  <2>3. Unbroken' /\ FlagInv' /\ Stored(db)' = Stored(db)
    BY <2>2, SameHistoryProps
  <2>4. HeaderInv'
    BY <2>1, <2>3 DEF HistoryInv, HeaderInv, AtHeight
  <2>5. MarkInv'
    <3>1. \A k \in Stored(db) : k <= height
      BY <2>1 DEF HistoryInv, MarkInv
    <3>2. /\ FlagOf(db, flagState, "ddSyncHeight") = db.flags["ddSyncHeight"]
          /\ FlagOf(db, flagState, "wasPrunedUTXOHistory") = -1
      BY DEF HistoryInv, FlagInv, FlagOf, FlagName
    <3>3. track /\ db.flags["ddSyncHeight"] # DDHeight => height < DDHeight
      BY <1>1, <1>6, <3>2 DEF BackfillDue, HistoryInv, FlagInv
    <3>4. track' /\ db'.flags["ddSyncHeight"] # DDHeight =>
            height' <= DDHeight /\ \A k \in Stored(db)' : k <= DDHeight
      BY <1>1, <2>1, <2>3, <3>1, <3>3
    <3> QED BY <2>1, <3>4 DEF MarkInv
  <2> QED BY <2>3, <2>4, <2>5 DEF HistoryInv
<1>7. CASE StartupMark
  <2>1. /\ pc = "mark" /\ pc' = "main" /\ SetFlagInt("ddSyncHeight", DDHeight) /\ tip' = tip
        /\ UNCHANGED <<height, nextHash, track, lastPassFailed, hash>>
    BY <1>7 DEF StartupMark
  <2>2. Unbroken' /\ FlagInv' /\ Stored(db)' = Stored(db) /\ db'.flags["ddSyncHeight"] = DDHeight
    BY <1>2, <2>1, MarkerWritten
  <2>3. HeaderInv' /\ MarkInv'
    BY <2>1, <2>2 DEF HistoryInv, HeaderInv, MarkInv, AtHeight
  <2> QED BY <2>2, <2>3 DEF HistoryInv
<1> QED BY <1>3, <1>4, <1>5, <1>6, <1>7 DEF Startup

\* mainFunction(): a pass begins where the last one ended, or at the newest header.
LEMMA MainHistory ==
    ASSUME StoreNonAsset, IndexInv, DepthInv, HistoryInv, MainEnter
    PROVE  HistoryInv'
<1>1. /\ height \in Heights /\ MaxHeight \in Nat /\ Heights = 1..MaxHeight
      /\ DDHeight \in Nat /\ Stored(db) \subseteq Heights
  BY HistoryTypes
<1>2. /\ transactionDepth = 0 /\ disk.blocks = db.blocks /\ disk.flags = db.flags
      /\ pc = "main" /\ flagState' = flagState /\ tip' = tip /\ track' = track
  BY DEF MainEnter, DepthInv, HistoryInv, FlagInv
<1>3. CASE ~lastPassFailed
  <2>1. SameHistory /\ pc' = "fork" /\ UNCHANGED <<height, nextHash, track>>
    BY <1>2, <1>3 DEF OnlyReads, SameHistory, MainEnter
  <2> QED BY <1>2, <1>3, <2>1, SamePlace DEF AtHeight
<1>4. CASE lastPassFailed
  <2>1. PICK h \in Heights : IsBlockHeight(db, h) /\ RecoverAt(h)
    BY <1>4 DEF MainEnter
  <2>2. /\ height' = h /\ nextHash' = CoreHash(h) /\ pc' = "fork" /\ ClearBlocksAboveHeight(h)
    BY <2>1 DEF RecoverAt
  <2>3. /\ Unbroken' /\ FlagInv' /\ Stored(db)' \subseteq Stored(db) /\ db'.flags = db.flags
        /\ \A k \in Stored(db) : k <= h => k \in Stored(db)'
    BY <1>2, <2>2, ClearHistory DEF OnlyReads
  <2>4. h \in Stored(db)
    BY <2>1 DEF IsBlockHeight
  <2>5. h \in Stored(db)' /\ (h = 1 => nextHash' = Block1)
    BY <1>1, <2>2, <2>3, <2>4, CoreRoot DEF HistoryInv
  <2>6. HeaderInv' /\ MarkInv'
    BY <1>2, <2>2, <2>3, <2>4, <2>5 DEF HistoryInv, HeaderInv, MarkInv, AtHeight
  <2> QED BY <2>3, <2>6 DEF HistoryInv
<1> QED BY <1>3, <1>4

\* phaseRewind(): there is always a header below, since block 1 never differs.
LEMMA RewindHistory ==
    ASSUME StoreNonAsset, IndexInv, DepthInv, HistoryInv, Rewind
    PROVE  HistoryInv'
<1>1. /\ height \in Heights /\ height \in Int /\ MaxHeight \in Nat /\ Heights = 1..MaxHeight
      /\ DDHeight \in Nat /\ Stored(db) \subseteq Heights /\ 1 \in Heights
  BY HistoryTypes
<1>2. /\ transactionDepth = 0 /\ disk.blocks = db.blocks /\ disk.flags = db.flags
  BY DEF Rewind, CheckFork, RewindStep, RewindDone, RewindRestart, DepthInv, HistoryInv, FlagInv
<1>3. pc \in {"fork", "rewind"} => height \in Stored(db) /\ (height = 1 => nextHash = Block1)
  BY DEF HistoryInv, HeaderInv, AtHeight
<1>4. CASE CheckFork
  <2>1. SameHistory /\ UNCHANGED <<height, nextHash, track>> /\ pc = "fork"
    BY <1>2, <1>4 DEF OnlyReads, SameHistory, CheckFork
  <2>2. pc' = "rewind" /\ height = 1 => hash' = Block1
    BY <1>4, CoreRoot DEF CheckFork, HistoryInv
  <2> QED BY <1>4, <2>1, <2>2, SamePlace DEF AtHeight, CheckFork
<1>5. pc = "rewind" /\ hash # nextHash => height - 1 \in Stored(db)
  <2> SUFFICES ASSUME pc = "rewind", hash # nextHash
               PROVE  height - 1 \in Stored(db)
    OBVIOUS
  <2>1. height # 1
    BY <1>3 DEF HistoryInv, HeaderInv
  <2>2. height - 1 \in Heights /\ height - 1 < height
    BY <1>1, <2>1
  <2> QED BY <1>3, <2>2 DEF HistoryInv, Unbroken
<1>6. CASE RewindStep
  <2>1. /\ SameHistory /\ track' = track /\ pc = "rewind" /\ pc' = "rewind" /\ height' = height - 1
        /\ hash' = CoreHash(height - 1) /\ nextHash' = BlockHash(db, height - 1)
        /\ hash # nextHash
    BY <1>2, <1>6 DEF OnlyReads, SameHistory, RewindStep
  <2>2. Unbroken' /\ FlagInv' /\ Stored(db)' = Stored(db)
    BY <2>1, SameHistoryProps
  <2>3. height - 1 = 1 => hash' = Block1 /\ nextHash' = Block1
    BY <1>1, <2>1, CoreRoot DEF HistoryInv, Unbroken, BlockHash
  <2>4. HeaderInv'
    BY <1>5, <2>1, <2>2, <2>3 DEF HeaderInv, AtHeight
  <2>5. MarkInv'
    BY <1>1, <2>1, <2>2 DEF HistoryInv, MarkInv, SameHistory
  <2> QED BY <2>2, <2>4, <2>5 DEF HistoryInv
<1>7. CASE RewindDone
  <2>1. /\ pc = "rewind" /\ pc' = "open" /\ ClearBlocksAboveHeight(height)
        /\ UNCHANGED <<height, nextHash, track, flagState, tip>>
    BY <1>7 DEF RewindDone
  <2>2. /\ Unbroken' /\ FlagInv' /\ Stored(db)' \subseteq Stored(db) /\ db'.flags = db.flags
        /\ \A k \in Stored(db) : k <= height => k \in Stored(db)'
    BY <1>1, <1>2, <2>1, ClearHistory DEF OnlyReads
  <2>3. height \in Stored(db)'
    BY <1>1, <1>3, <2>1, <2>2
  <2>4. HeaderInv' /\ MarkInv'
    BY <1>3, <2>1, <2>2, <2>3 DEF HistoryInv, HeaderInv, MarkInv, AtHeight
  <2> QED BY <2>2, <2>4 DEF HistoryInv
<1>8. ~RewindRestart
  BY <1>1, <1>5 DEF RewindRestart, BlockHash, Stored
<1> QED BY <1>4, <1>6, <1>7, <1>8 DEF Rewind

\* Moving on past the activation block sets the marker.
LEMMA AdvanceHistory ==
    ASSUME IndexInv, DepthInv, HistoryInv, Advance
    PROVE  HistoryInv'
<1>1. /\ height \in Heights /\ height \in Int /\ MaxHeight \in Nat /\ Heights = 1..MaxHeight
      /\ DDHeight \in Nat
  BY HistoryTypes
<1>2. /\ pc = "tip" /\ pc' = "fetch" /\ height' = height + 1 /\ tip' = tip /\ track' = track
      /\ transactionDepth = 0 /\ disk.blocks = db.blocks /\ disk.flags = db.flags
  BY DEF Advance, DepthInv, HistoryInv, FlagInv
<1>3. /\ Unbroken' /\ FlagInv' /\ Stored(db)' = Stored(db)
      /\ IF MarkerDue THEN db'.flags["ddSyncHeight"] = DDHeight ELSE db'.flags = db.flags
  <2>1. CASE MarkerDue
    <3>1. SetFlagInt("ddSyncHeight", DDHeight)
      BY <2>1 DEF Advance
    <3> QED BY <1>2, <2>1, <3>1, MarkerWritten
  <2>2. CASE ~MarkerDue
    <3>1. SameHistory
      BY <1>2, <2>2 DEF OnlyReads, SameHistory, Advance
    <3> QED BY <2>2, <3>1, SameHistoryProps DEF OnlyReads, SameHistory
  <2> QED BY <2>1, <2>2
<1>4. height \in Stored(db)
  BY <1>2 DEF HistoryInv, HeaderInv, AtHeight
<1>5. HeaderInv'
  BY <1>1, <1>2, <1>3, <1>4 DEF HeaderInv, AtHeight
<1>6. MarkInv'
  BY <1>1, <1>2, <1>3 DEF HistoryInv, MarkInv, MarkerDue
<1> QED BY <1>3, <1>5, <1>6 DEF HistoryInv

\* The next header is stored on top of the ones below it.
LEMMA InsertHistory ==
    ASSUME StoreNonAsset, IndexInv, DepthInv, HistoryInv, InsertHeader
    PROVE  HistoryInv'
<1>1. /\ db \in Contents /\ height \in Heights /\ height \in Int /\ MaxHeight \in Nat
      /\ Heights = 1..MaxHeight /\ DDHeight \in Nat /\ db.blocks \in [Heights -> Block]
      /\ 1 \in Heights
  BY HistoryTypes
<1>2. Len(hash) = height /\ hash # NoHash
  <2>1. Len(hash) = height /\ pc = "insert"
    BY DEF InsertHeader, IndexInv, PlaceInv, HasBlock
  <2> QED BY <1>1, <2>1, EmptySeq DEF NoHash
<1>3. /\ pc = "insert" /\ pc' = "loop" /\ transactionDepth' = 0 /\ db' = InsertBlock(db, hash)
      /\ disk' = db' /\ UNCHANGED <<tip, flagState, track, height, nextHash>>
  BY DEF InsertHeader, NeedsAssetProcessing, DepthInv
<1>4. db'.blocks = [db.blocks EXCEPT ![height] = hash] /\ db'.flags = db.flags
  BY <1>1, <1>2, <1>3 DEF InsertBlock, Contents
<1>5. Stored(db)' = Stored(db) \cup {height}
  <2>1. Stored(db)' = {h \in Heights : db'.blocks[h] # NoHash}
    BY DEF Stored
  <2> QED BY <1>1, <1>2, <1>4, <2>1 DEF Stored
<1>6. height - 1 \in Stored(db) /\ height - 1 \in Heights
  BY <1>3 DEF HistoryInv, HeaderInv, AtHeight, Stored
<1>7. Unbroken'
  <2>1. db'.blocks[1] = db.blocks[1]
    BY <1>1, <1>4, <1>6
  <2>2. ASSUME NEW k \in Stored(db)', NEW h \in Heights, h < k
        PROVE  h \in Stored(db)'
    BY <1>1, <1>5, <1>6, <2>2 DEF HistoryInv, Unbroken, Stored
  <2> QED BY <1>3, <2>1, <2>2 DEF HistoryInv, Unbroken
<1>8. FlagInv'
  BY <1>3, <1>4 DEF HistoryInv, FlagInv
<1>9. HeaderInv'
  BY <1>1, <1>3, <1>5, <1>6 DEF HeaderInv, AtHeight
<1>10. MarkInv'
  BY <1>3, <1>4, <1>5 DEF HistoryInv, MarkInv
<1> QED BY <1>7, <1>8, <1>9, <1>10 DEF HistoryInv

LEMMA HistoryInit == ASSUME Init PROVE HistoryInv
<1>1. 1 \in Heights /\ DDHeight \in Nat /\ MaxHeight \in Nat /\ Heights = 1..MaxHeight
  BY DatabaseAssumption DEF Heights
<1>2. /\ db.blocks = [h \in Heights |-> IF h = 1 THEN Block1 ELSE NoHash]
      /\ db.flags = [f \in FlagName |-> IF f = "ddSyncHeight" THEN 0 ELSE -1]
      /\ disk = db /\ tip = <<Trunk>> /\ pc = "off"
      /\ flagState = [f \in FlagName |-> NotCached]
  BY DEF Init, FreshDatabase, Block1
<1>3. Unbroken
  BY <1>1, <1>2 DEF Unbroken, Stored
<1>4. FlagInv
  BY <1>2 DEF FlagInv, FlagName
<1>5. HeaderInv /\ MarkInv
  BY <1>2 DEF HeaderInv, MarkInv, AtHeight
<1> QED BY <1>3, <1>4, <1>5 DEF HistoryInv

\* A node that tracks DigiDollar has the marker once it is past activation, whatever forks,
\* errors, failed repairs, stops and changes of trackdigidollar came before, so that no
\* later start rewinds to do it again (phaseDigiDollarBackfill, phaseSync).
THEOREM MarkerIsRecorded ==
    ASSUME StoreNonAsset, PruneAge = -1
    PROVE  Spec => []MarkerRecorded
<1>1. Init => HistoryInv
  BY HistoryInit
<1>2. IndexInv /\ DepthInv /\ HistoryInv /\ [Next]_vars => HistoryInv'
  <2> SUFFICES ASSUME IndexInv, DepthInv, HistoryInv, [Next]_vars
               PROVE  HistoryInv'
    OBVIOUS
  <2>1. CASE Startup \/ MainEnter \/ Rewind
    BY <2>1, StartupHistory, MainHistory, RewindHistory
  <2>2. CASE UNCHANGED vars
    <3>1. UNCHANGED <<db, disk, flagState, tip, pc, height, nextHash, lastPassFailed, track, hash>>
      BY <2>2 DEF vars
    <3> QED BY <3>1 DEF HistoryInv, Unbroken, HeaderInv, FlagInv, MarkInv, AtHeight, Stored
  <2>3. CASE Retry
    BY <2>2, <2>3 DEF Retry
  <2>4. CASE PruneStatement
    BY <2>4 DEF PruneStatement, HistoryInv, HeaderInv
  <2>5. CASE Sync /\ ~PruneStatement
    BY <2>5, QuietHistory, CaptureHistory, AdvanceHistory, InsertHistory DEF Sync
  <2>6. CASE Throw \/ CoreBehind
    BY <2>6, AbandonHistory DEF Throw, CoreBehind
  <2>7. CASE Shutdown \/ Crash
    BY <2>7, EndHistory DEF Shutdown, Crash
  <2>8. CASE RequestStop
    <3>1. UNCHANGED <<db, disk, flagState, tip, pc, height, nextHash, lastPassFailed, track, hash>>
      BY <2>8 DEF RequestStop
    <3> QED BY <3>1 DEF HistoryInv, Unbroken, HeaderInv, FlagInv, MarkInv, AtHeight, Stored
  <2>9. CASE CoreExtend \/ CoreReorg \/ ProcessStart \/ CaptureFails
    BY <2>9, CoreHistory, StartHistory, QuietHistory
  <2> QED BY <2>1, <2>2, <2>3, <2>4, <2>5, <2>6, <2>7, <2>8, <2>9 DEF Next, Analyzer, Environment
<1>3. IndexInv /\ HistoryInv => MarkerRecorded
  <2> SUFFICES ASSUME IndexInv, HistoryInv, pc \in SyncPc, track, height > DDHeight,
                      db.flags["ddSyncHeight"] # DDHeight
               PROVE  FALSE
    BY DEF MarkerRecorded
  <2>1. height <= DDHeight
    BY DEF HistoryInv, MarkInv
  <2> QED BY <2>1, HistoryTypes
<1> QED BY <1>1, <1>2, <1>3, DepthInvariance, PTL DEF Spec

-----------------------------------------------------------------------------
(* Pruning, in prunings that are not cut off by a kill or an error.  Each of the statements  *)
(* of phasePrune() commits by itself, so one that is cut off leaves its table half pruned    *)
(* (see the README).                                                                        *)

\* A pruning, once begun, comes to its end.
PruningsFinish == [][pc = "prune" => pc' \in {"prune", "tip"}]_vars

\* Nothing summarised is lost, and what is pruned lies below every header that is left.
Whole(t) ==
    /\ t.summary = Summarised
    /\ \A k \in Stored(t), p \in PruneTable : t.from[p] <= k

\* Between two statements of phasePrune() the summary of the table at hand is in RAM, and
\* until its headers are deleted some of them lie below what is pruned.
HalfWay(table, what) ==
    IF what = "rows" THEN Whole(db)
    ELSE /\ db.summary = Summarised \ {table} /\ kept = Summarised \cap {table}
         /\ \A k \in Stored(db), p \in PruneTable :
              \/ db.from[p] <= k
              \/ what = "blocks" /\ p = table /\ db.from[p] = PruneHeight(table)

PruneInv ==
    /\ pc # "prune" => Whole(db)
    /\ pc = "prune" => /\ pruneStep \in PruneDue(0)
                       /\ HalfWay(PruneProgram[pruneStep][1], PruneProgram[pruneStep][2])
    /\ pc # "prune" \/ transactionDepth # 0 => Whole(disk)
    /\ \A p \in PruneTable : disk.from[p] <= db.from[p]
    /\ pc \notin {"off", "startup"} => \A p \in PruneTable : db.from[p] <= height

LEMMA PruneTypes ==
    ASSUME IndexInv
    PROVE  /\ db \in Contents /\ disk \in Contents /\ hash \in Block
           /\ \A p \in PruneTable : db.from[p] \in Int /\ disk.from[p] \in Int
           /\ height \in Heights /\ height \in Int /\ Heights \subseteq Int
           /\ Stored(db) \subseteq Heights /\ Stored(disk) \subseteq Heights
<1>1. db \in Contents /\ disk \in Contents /\ height \in Heights /\ hash \in Block
  BY DEF IndexInv, TypeOK, StoreTypeOK, ThreadTypeOK, LocalsTypeOK
<1>2. MaxHeight \in Nat /\ Heights = 1..MaxHeight
  BY DatabaseAssumption DEF Heights
<1>3. db.from \in [PruneTable -> 0..MaxHeight] /\ disk.from \in [PruneTable -> 0..MaxHeight]
  BY <1>1 DEF Contents
<1> QED BY <1>1, <1>2, <1>3 DEF Stored

\* u has what t has of prunings, and no header more.
Carries(t, u) == u.summary = t.summary /\ u.from = t.from /\ Stored(u) \subseteq Stored(t)

\* Of the writes only those of phasePrune(), a new header and reset() do otherwise.
LEMMA CarriesProps ==
    ASSUME NEW t \in Contents, NEW c \in Block, NEW h \in Int, NEW f, NEW v \in FlagValue, NEW cache,
           NEW rows
    PROVE  /\ Carries(t, t) /\ Carries(t, AddDigiDollarRate(t, c)) /\ Carries(t, ClearAbove(t, h))
           /\ Carries(t, SetFlag(t, cache, f, v)) /\ Carries(t, [t EXCEPT !.rows = rows])
<1>1. Carries(t, t) /\ Carries(t, AddDigiDollarRate(t, c)) /\ Carries(t, [t EXCEPT !.rows = rows])
  BY DEF Carries, AddDigiDollarRate, Contents, Stored
<1>2. Carries(t, SetFlag(t, cache, f, v))
  BY DEF Carries, SetFlag, Contents, Stored
<1>3. Carries(t, ClearAbove(t, h))
  <2>1. Stored(ClearAbove(t, h)) \subseteq Stored(t)
    BY DEF ClearAbove, Contents, Stored
  <2> QED BY <2>1 DEF Carries, ClearAbove, Contents
<1> QED BY <1>1, <1>2, <1>3

LEMMA WholeCarried ==
    ASSUME NEW t, NEW u, Whole(t), Carries(t, u)
    PROVE  Whole(u)
  BY DEF Whole, Carries

\* A step outside phasePrune() with writes of that kind, to a height that pruning has not reached.
LEMMA CarriedStep ==
    ASSUME IndexInv, PruneInv, pc # "prune", pc' # "prune",
           Carries(db, db'), Carries(db, disk') \/ Carries(disk, disk'),
           pc' \notin {"off", "startup"} => \A p \in PruneTable : db.from[p] <= height'
    PROVE  PruneInv'
<1>1. Whole(db) /\ Whole(disk)
  BY DEF PruneInv
<1>2. Whole(db') /\ Whole(disk')
  BY <1>1, WholeCarried
<1>3. Whole(db)' /\ Whole(disk)'
  BY <1>2 DEF Whole, Stored
<1>4. \A p \in PruneTable : disk'.from[p] <= db'.from[p]
  BY PruneTypes DEF PruneInv, Carries
<1>5. pc' \notin {"off", "startup"} => \A p \in PruneTable : db'.from[p] <= height'
  BY DEF Carries
<1> QED BY <1>3, <1>4, <1>5 DEF PruneInv

\* The repair of the database outside phasePrune().
LEMMA ClearCarries ==
    ASSUME IndexInv, NEW h \in Int, ClearBlocksAboveHeight(h)
    PROVE  Carries(db, db') /\ (Carries(db, disk') \/ Carries(disk, disk'))
<1>1. db \in Contents /\ disk \in Contents /\ hash \in Block /\ 0 \in FlagValue
  BY PruneTypes, InitialValues
<1>2. Carries(db, db) /\ Carries(disk, disk) /\ Carries(db, ClearAbove(db, h))
  BY <1>1, CarriesProps
<1>3. db' \in {db, ClearAbove(db, h)} /\ disk' \in {disk, ClearAbove(db, h)}
  BY DEF ClearBlocksAboveHeight, Write
<1> QED BY <1>2, <1>3

\* So does a flag that is stored.
LEMMA FlagCarries ==
    ASSUME IndexInv, NEW f, NEW v \in FlagValue, SetFlagInt(f, v)
    PROVE  Carries(db, db') /\ (Carries(db, disk') \/ Carries(disk, disk'))
<1>1. db \in Contents /\ hash \in Block /\ height \in Int
  BY PruneTypes
<1>2. Carries(disk, disk)
  BY DEF Carries
<1>4. Carries(db, SetFlag(db, flagState, f, v))
  BY <1>1, CarriesProps
<1>3. db' = SetFlag(db, flagState, f, v) /\ disk' \in {disk, SetFlag(db, flagState, f, v)}
  BY DEF SetFlagInt, Write
<1> QED BY <1>2, <1>3, <1>4

\* And a step that leaves the database alone, or commits it.
LEMMA SameCarries ==
    ASSUME IndexInv, db' = db, disk' \in {db, disk}
    PROVE  Carries(db, db') /\ (Carries(db, disk') \/ Carries(disk, disk'))
  BY DEF Carries

\* Startup and recovery work on a stored block.
LEMMA StartupPrune ==
    ASSUME IndexInv, PruneInv, Startup \/ MainEnter \/ ProcessStart
    PROVE  PruneInv'
<1>1. /\ \A p \in PruneTable : db.from[p] \in Int /\ disk.from[p] \in Int
      /\ height \in Int /\ Heights \subseteq Int /\ db \in Contents
  BY PruneTypes
<1>2. pc # "prune" /\ pc' # "prune"
  BY DEF Startup, StartupRead, StartupRepair, StartupBackfill, StartupMark, MainEnter, RecoverAt,
     ProcessStart
<1>3. \A k \in Stored(db), p \in PruneTable : db.from[p] <= k
  BY <1>2 DEF PruneInv, Whole
<1>4. CASE StartupRead
  <2>1. Carries(db, db') /\ (Carries(db, disk') \/ Carries(disk, disk'))
    BY <1>4, SameCarries DEF StartupRead
  <2>2. height' \in Stored(db)
    BY <1>4 DEF StartupRead, IsBlockHeight
  <2> QED BY <1>2, <1>3, <2>1, <2>2, CarriedStep
<1>5. CASE StartupRepair
  <2>1. Carries(db, db') /\ (Carries(db, disk') \/ Carries(disk, disk'))
    BY <1>1, <1>5, ClearCarries DEF StartupRepair
  <2>2. \A p \in PruneTable : db.from[p] <= height'
    BY <1>5 DEF StartupRepair, PruneInv
  <2> QED BY <1>2, <2>1, <2>2, CarriedStep
<1>6. CASE StartupBackfill
  <2>1. DDHeight - 1 \in Int
    BY DatabaseAssumption
  <2>2. Carries(db, db') /\ (Carries(db, disk') \/ Carries(disk, disk'))
    BY <1>6, <2>1, ClearCarries, SameCarries DEF StartupBackfill
  <2>3. pc' # "startup" => \A p \in PruneTable : db.from[p] <= height'
    <3>1. CASE BackfillDue /\ BlockHash(db, DDHeight - 1) # NoHash
      <4>1. DDHeight - 1 \in Stored(db) /\ height' = DDHeight - 1
        BY <1>6, <3>1 DEF StartupBackfill, BlockHash, Stored
      <4> QED BY <1>3, <4>1
    <3>2. CASE BackfillDue /\ BlockHash(db, DDHeight - 1) = NoHash
      BY <1>6, <3>2 DEF StartupBackfill
    <3>3. CASE ~BackfillDue
      BY <1>6, <3>3 DEF StartupBackfill, PruneInv
    <3> QED BY <3>1, <3>2, <3>3
  <2> QED BY <1>2, <2>2, <2>3, CarriedStep
<1>7. CASE StartupMark
  <2>1. DDHeight \in FlagValue
    BY DatabaseAssumption DEF FlagValue
  <2>2. Carries(db, db') /\ (Carries(db, disk') \/ Carries(disk, disk'))
    BY <1>7, <2>1, FlagCarries DEF StartupMark
  <2>3. \A p \in PruneTable : db.from[p] <= height'
    BY <1>7 DEF StartupMark, PruneInv
  <2> QED BY <1>2, <2>2, <2>3, CarriedStep
<1>8. CASE MainEnter
  <2>1. CASE lastPassFailed
    <3>1. PICK h \in Heights : IsBlockHeight(db, h) /\ RecoverAt(h)
      BY <1>8, <2>1 DEF MainEnter
    <3>2. h \in Int /\ h \in Stored(db) /\ height' = h /\ ClearBlocksAboveHeight(h)
      BY <1>1, <3>1 DEF RecoverAt, IsBlockHeight
    <3>3. Carries(db, db') /\ (Carries(db, disk') \/ Carries(disk, disk'))
      BY <3>2, ClearCarries
    <3> QED BY <1>2, <1>3, <3>2, <3>3, CarriedStep
  <2>2. CASE ~lastPassFailed
    <3>1. Carries(db, db') /\ (Carries(db, disk') \/ Carries(disk, disk'))
      BY <1>8, <2>2, SameCarries DEF MainEnter
    <3>2. \A p \in PruneTable : db.from[p] <= height'
      BY <1>8, <2>2 DEF MainEnter, PruneInv
    <3> QED BY <1>2, <3>1, <3>2, CarriedStep
  <2> QED BY <2>1, <2>2
<1>9. CASE ProcessStart
  <2>1. Carries(db, db') /\ (Carries(db, disk') \/ Carries(disk, disk'))
    BY <1>9, FlagCarries, SameCarries, InitialValues DEF ProcessStart
  <2>2. pc' = "startup"
    BY <1>9 DEF ProcessStart
  <2> QED BY <1>2, <2>1, <2>2, CarriedStep
<1> QED BY <1>4, <1>5, <1>6, <1>7, <1>8, <1>9 DEF Startup

\* What is rolled back to was whole.
LEMMA RollBackPrune ==
    ASSUME IndexInv, PruneInv, pc # "prune", pc' # "prune", db' = disk, disk' = disk,
           pc' = "off" \/ (pc \notin {"off", "startup"} /\ height' = height)
    PROVE  PruneInv'
<1>1. Whole(disk)' /\ Whole(db)'
  BY DEF PruneInv, Whole, Stored
<1>2. \A p \in PruneTable : disk'.from[p] <= db'.from[p]
  BY PruneTypes
<1>3. pc' # "off" => \A p \in PruneTable : db'.from[p] <= height'
  BY PruneTypes DEF PruneInv
<1> QED BY <1>1, <1>2, <1>3 DEF PruneInv

\* An abandoned pass and the end of the process, outside phasePrune().
LEMMA AbandonPrune ==
    ASSUME IndexInv, PruneInv, pc # "prune", Abandon \/ ProcessEnd
    PROVE  PruneInv'
<1>1. CASE ProcessEnd
  BY <1>1, RollBackPrune DEF ProcessEnd
<1>2. CASE pc \in RewindPc \cup SyncPc /\ Catch
  BY <1>2, RollBackPrune DEF Catch, AbortTransaction
<1>3. CASE pc \in StartupPc /\ pc' = "startup" /\ UNCHANGED store
  <2>1. Carries(db, db') /\ (Carries(db, disk') \/ Carries(disk, disk'))
    BY <1>3, SameCarries
  <2> QED BY <1>3, <2>1, CarriedStep
<1> QED BY <1>1, <1>2, <1>3 DEF Abandon

\* A rewind goes down stored headers; without one reset() starts over.
LEMMA RewindPrune ==
    ASSUME IndexInv, PruneInv, Rewind
    PROVE  PruneInv'
<1>1. /\ \A p \in PruneTable : db.from[p] \in Int /\ disk.from[p] \in Int
      /\ height \in Int /\ Heights \subseteq Int /\ db \in Contents
  BY PruneTypes
<1>2. /\ pc \notin {"prune", "off", "startup"} /\ pc' # "prune"
      /\ \A p \in PruneTable : db.from[p] <= height
  BY DEF Rewind, CheckFork, RewindStep, RewindDone, RewindRestart, Catch, PruneInv
<1>3. CASE CheckFork
  <2>1. Carries(db, db') /\ (Carries(db, disk') \/ Carries(disk, disk'))
    BY <1>3, SameCarries DEF CheckFork
  <2>2. \A p \in PruneTable : db.from[p] <= height'
    BY <1>2, <1>3 DEF CheckFork
  <2> QED BY <1>2, <2>1, <2>2, CarriedStep
<1>4. CASE RewindStep
  <2>1. Carries(db, db') /\ (Carries(db, disk') \/ Carries(disk, disk'))
    BY <1>4, SameCarries DEF RewindStep
  <2>2. height' \in Stored(db)
    BY <1>4 DEF RewindStep, BlockHash, Stored
  <2>3. \A p \in PruneTable : db.from[p] <= height'
    BY <1>2, <2>2 DEF PruneInv, Whole
  <2> QED BY <1>2, <2>1, <2>3, CarriedStep
<1>5. CASE RewindDone
  <2>1. Carries(db, db') /\ (Carries(db, disk') \/ Carries(disk, disk'))
    BY <1>1, <1>5, ClearCarries DEF RewindDone
  <2>2. \A p \in PruneTable : db.from[p] <= height'
    BY <1>2, <1>5 DEF RewindDone
  <2> QED BY <1>2, <2>1, <2>2, CarriedStep
<1>6. CASE RewindRestart
  <2>1. CASE transactionDepth = 0
    <3>1. db' = Reset(db) /\ disk' = Reset(db) /\ height' = 1
      BY <1>6, <2>1 DEF RewindRestart, Write
    <3>2. /\ Reset(db).summary = Summarised /\ \A p \in PruneTable : Reset(db).from[p] = 0
          /\ Stored(Reset(db)) \subseteq {1}
      BY <1>1, ResetProps DEF Reset
    <3>3. Whole(db)' /\ Whole(disk)'
      BY <3>1, <3>2 DEF Whole, Stored
    <3> QED BY <1>2, <3>1, <3>2, <3>3 DEF PruneInv
  <2>2. CASE transactionDepth # 0
    BY <1>2, <1>6, <2>2, AbandonPrune DEF RewindRestart, Abandon
  <2> QED BY <2>1, <2>2
<1> QED BY <1>3, <1>4, <1>5, <1>6 DEF Rewind

\* What phaseSync() does apart from pruning and storing headers.
LEMMA SyncPrune ==
    ASSUME IndexInv, PruneInv,
           \/ OpenHash \/ OpenBlock \/ LoopEnter \/ LoopExit \/ CaptureOracle \/ CaptureFails
           \/ ProcessBlock \/ CommitBlock \/ TipWait \/ TipStop \/ TipPoll \/ TipRefresh \/ Advance
           \/ FetchHash
    PROVE  PruneInv'
<1>1. /\ \A p \in PruneTable : db.from[p] \in Int
      /\ height \in Int /\ db \in Contents /\ hash \in Block
  BY PruneTypes
<1>2. pc \in SyncPc \ {"prune"} /\ pc' # "prune"
  BY DEF OpenHash, OpenBlock, LoopEnter, LoopExit, CaptureOracle, CaptureFails, ProcessBlock,
     CommitBlock, TipWait, TipStop, TipPoll, TipRefresh, Advance, FetchHash
<1>3. \A p \in PruneTable : db.from[p] <= height
  BY <1>2 DEF PruneInv
<1>4. height' \in {height, height + 1}
  BY DEF OpenHash, OpenBlock, LoopEnter, LoopExit, CaptureOracle, CaptureFails, ProcessBlock,
     CommitBlock, TipWait, TipStop, TipPoll, TipRefresh, Advance, FetchHash
<1>5. \A p \in PruneTable : db.from[p] <= height'
  BY <1>1, <1>3, <1>4
<1>6. Carries(db, db') /\ (Carries(db, disk') \/ Carries(disk, disk'))
  <2>1. CASE \/ OpenHash \/ OpenBlock \/ LoopEnter \/ CaptureFails \/ TipWait \/ TipStop \/ TipPoll
             \/ TipRefresh \/ FetchHash
    BY <2>1, SameCarries DEF OpenHash, OpenBlock, LoopEnter, CaptureFails, TipWait, TipStop, TipPoll,
       TipRefresh, FetchHash
  <2>2. CASE LoopExit \/ CommitBlock
    BY <2>2, SameCarries DEF LoopExit, CommitBlock, EndTransaction
  <2>3. CASE CaptureOracle
    <3>1. Carries(db, AddDigiDollarRate(db, hash)) /\ Carries(db, db) /\ Carries(disk, disk)
      BY <1>1 DEF Carries, AddDigiDollarRate, Contents, Stored
    <3>2. db' \in {db, AddDigiDollarRate(db, hash)} /\ disk' \in {disk, AddDigiDollarRate(db, hash)}
      BY <2>3 DEF CaptureOracle, Write
    <3> QED BY <3>1, <3>2
  <2>4. CASE ProcessBlock
    BY <1>1, <2>4 DEF ProcessBlock, Carries, Contents, Stored
  <2>5. CASE Advance
    <3>1. DDHeight \in FlagValue
      BY DatabaseAssumption DEF FlagValue
    <3> QED BY <2>5, <3>1, FlagCarries, SameCarries DEF Advance
  <2> QED BY <2>1, <2>2, <2>3, <2>4, <2>5
<1> QED BY <1>2, <1>5, <1>6, CarriedStep

\* A header is stored for the height in hand, which pruning has not reached.
LEMMA InsertPrune ==
    ASSUME IndexInv, PruneInv, InsertHeader
    PROVE  PruneInv'
<1>1. /\ db \in Contents /\ hash \in Block /\ Len(hash) = height /\ height \in Heights
      /\ \A p \in PruneTable : db.from[p] \in Int /\ disk.from[p] \in Int
      /\ pc = "insert" /\ pc' = "loop" /\ height' = height
  BY PruneTypes DEF InsertHeader, IndexInv, PlaceInv, HasBlock
<1>2. Whole(db) /\ Whole(disk) /\ \A p \in PruneTable : db.from[p] <= height
  BY <1>1 DEF PruneInv
<1> DEFINE u == InsertBlock(db, hash)
<1>3. /\ u.summary = db.summary /\ u.from = db.from
      /\ Stored(u) \subseteq Stored(db) \cup {height}
  BY <1>1, InsertBlockProps DEF InsertBlock, Contents
<1>4. db' = u /\ disk' \in {u, disk}
  BY DEF InsertHeader
<1> HIDE DEF u
<1>5. Whole(u)
  BY <1>2, <1>3 DEF Whole
<1>6. Whole(db)' /\ Whole(disk)'
  BY <1>2, <1>4, <1>5 DEF Whole, Stored
<1>7. \A p \in PruneTable : disk'.from[p] <= db'.from[p] /\ db'.from[p] <= height'
  BY <1>1, <1>2, <1>3, <1>4 DEF PruneInv
<1> QED BY <1>1, <1>6, <1>7 DEF PruneInv

\* The statements for a table are one after the other: rows, blocks, then the summary or
\* the flag.
LEMMA ProgramProps ==
    ASSUME NEW n \in 1..9
    PROVE  /\ n \in {1, 4, 7} => PruneProgram[n][2] = "rows"
           /\ n \in {2, 5, 8} => PruneProgram[n][2] = "blocks"
           /\ n \in {3, 9} => PruneProgram[n][2] = "keep" /\ PruneProgram[n][1] \in Summarised
           /\ n = 6 => PruneProgram[n][2] = "flag" /\ PruneProgram[n][1] \notin Summarised
           /\ n \notin {3, 6, 9} => PruneProgram[n + 1][1] = PruneProgram[n][1]
           /\ PruneProgram[n][1] \in PruneTable
  BY DEF PruneProgram, Summarised, PruneTable

\* After the last statement for a table comes the first for another.
LEMMA NextTable ==
    ASSUME NEW n \in {0, 3, 6, 9}, PruneDue(n) # {}
    PROVE  Min(PruneDue(n)) \in {1, 4, 7} /\ Min(PruneDue(n)) \in PruneDue(0)
<1> DEFINE m == Min(PruneDue(n))
<1>1. n \in Int /\ m \in PruneDue(n) /\ m \in 1..9 /\ \A k \in PruneDue(n) : m <= k
  BY DueProps
<1>2. m > n /\ PruneProgram[m][1] \in PruneTables /\ m \in PruneDue(0)
  BY <1>1 DEF PruneDue
<1> HIDE DEF m
<1>3. ASSUME m \notin {1, 4, 7}
      PROVE  FALSE
  <2>1. m - 1 \in 1..9 /\ m - 1 > n /\ m - 1 \notin {3, 6, 9} /\ (m - 1) + 1 = m
    BY <1>1, <1>2, <1>3
  <2>2. PruneProgram[m - 1][1] = PruneProgram[m][1]
    <3> DEFINE q == m - 1
    <3>1. q \in 1..9 /\ q \notin {3, 6, 9} /\ q + 1 = m
      BY <2>1
    <3> HIDE DEF q
    <3>2. PruneProgram[q + 1][1] = PruneProgram[q][1]
      BY <3>1, ProgramProps
    <3>3. PruneProgram[q][1] = PruneProgram[m][1]
      BY <3>1, <3>2
    <3> QED BY <3>3 DEF q
  <2>3. m - 1 \in PruneDue(n)
    BY <1>2, <2>1, <2>2 DEF PruneDue
  <2> QED BY <1>1, <2>1, <2>3
<1> QED BY <1>2, <1>3 DEF m

\* Before that, the next statement for the same table.
LEMMA NextOfTable ==
    ASSUME NEW n \in PruneDue(0), n \in {1, 2, 4, 5, 7, 8}
    PROVE  /\ PruneDue(n) # {} /\ Min(PruneDue(n)) = n + 1 /\ n + 1 \in PruneDue(0)
           /\ PruneProgram[n + 1][1] = PruneProgram[n][1]
<1>1. n \in 1..9 /\ n \in Int /\ PruneProgram[n][1] \in PruneTables
  BY DEF PruneDue
<1>2. PruneProgram[n + 1][1] = PruneProgram[n][1]
  BY <1>1, ProgramProps
<1>3. n + 1 \in PruneDue(n) /\ n + 1 \in PruneDue(0)
  BY <1>1, <1>2 DEF PruneDue
<1>4. Min(PruneDue(n)) \in PruneDue(n) /\ Min(PruneDue(n)) \in 1..9 /\ Min(PruneDue(n)) <= n + 1
  BY <1>1, <1>3, DueProps
<1>5. Min(PruneDue(n)) > n
  BY <1>4 DEF PruneDue
<1> QED BY <1>1, <1>2, <1>3, <1>4, <1>5

\* Pruning begins with the rows of the first table, from a whole database.
LEMMA BlockDonePrune ==
    ASSUME IndexInv, PruneInv, BlockDone
    PROVE  PruneInv'
<1>1. pc = "processed" /\ UNCHANGED <<db, disk, transactionDepth, height>>
  BY DEF BlockDone
<1>2. /\ Whole(db) /\ Whole(disk)
      /\ \A p \in PruneTable : disk.from[p] <= db.from[p] /\ db.from[p] <= height
  BY <1>1 DEF PruneInv
<1>3. Whole(db)' /\ Whole(disk)'
  BY <1>1, <1>2 DEF Whole, Stored
<1>4. CASE pc' = "tip"
  BY <1>1, <1>2, <1>3, <1>4 DEF PruneInv
<1>5. CASE pc' = "prune" /\ PruneDue(0) # {} /\ pruneStep' = Min(PruneDue(0))
  <2>1. pruneStep' \in {1, 4, 7} /\ pruneStep' \in PruneDue(0)
    BY <1>5, NextTable
  <2>2. PruneProgram[pruneStep'][2] = "rows"
    BY <2>1, ProgramProps
  <2>3. HalfWay(PruneProgram[pruneStep][1], PruneProgram[pruneStep][2])'
    BY <1>3, <2>2 DEF HalfWay, PruneProgram
  <2>4. PruneDue(0)' = PruneDue(0)
    BY DEF PruneDue, PruneProgram
  <2> QED BY <1>1, <1>2, <1>3, <1>5, <2>1, <2>3, <2>4 DEF PruneInv
<1> QED BY <1>4, <1>5 DEF BlockDone

\* What the statements of phasePrune() do to summaries, prune heights and headers.
LEMMA StatementProps ==
    ASSUME NEW t \in Contents, NEW p \in PruneTable, NEW h \in 0..MaxHeight
    PROVE  /\ PruneRows(t, p, h).summary = t.summary \ {p}
           /\ PruneRows(t, p, h).from = [t.from EXCEPT ![p] = IF h > t.from[p] THEN h ELSE t.from[p]]
           /\ Stored(PruneRows(t, p, h)) = Stored(t)
           /\ RemoveNonReachable(t, h).summary = t.summary /\ RemoveNonReachable(t, h).from = t.from
           /\ Stored(RemoveNonReachable(t, h)) = {k \in Stored(t) : k >= h}
           /\ KeepSummary(t, p).summary = t.summary \cup ({p} \cap Summarised)
           /\ KeepSummary(t, p).from = t.from /\ Stored(KeepSummary(t, p)) = Stored(t)
<1>1. /\ PruneRows(t, p, h).summary = t.summary \ {p}
      /\ PruneRows(t, p, h).from = [t.from EXCEPT ![p] = IF h > t.from[p] THEN h ELSE t.from[p]]
      /\ PruneRows(t, p, h).blocks = t.blocks
  BY DEF PruneRows, Contents
<1>2. /\ RemoveNonReachable(t, h).summary = t.summary /\ RemoveNonReachable(t, h).from = t.from
      /\ RemoveNonReachable(t, h).blocks = [k \in Heights |-> IF k < h THEN NoHash ELSE t.blocks[k]]
  BY DEF RemoveNonReachable, Contents
<1>3. Stored(RemoveNonReachable(t, h)) = {k \in Stored(t) : k >= h}
  BY <1>2, DatabaseAssumption DEF Stored, Heights
<1>4. /\ KeepSummary(t, p).summary = t.summary \cup ({p} \cap Summarised)
      /\ KeepSummary(t, p).from = t.from /\ KeepSummary(t, p).blocks = t.blocks
  BY DEF KeepSummary, Contents
<1> QED BY <1>1, <1>2, <1>3, <1>4 DEF Stored

\* Pruning stays below the block in hand.
LEMMA PruneBelow ==
    ASSUME height \in Heights, NEW table
    PROVE  PruneHeight(table) <= height
<1>1. /\ height \in 1..MaxHeight /\ MaxHeight \in Nat /\ RateLeniency \in Nat
      /\ PruneAge \in Nat \cup {-1}
  BY DatabaseAssumption, AnalyzerAssumption DEF Heights
<1>2. PruneMax(height) \in Int /\ PruneMax(height) <= height
  BY <1>1 DEF PruneMax
<1> QED BY <1>1, <1>2 DEF PruneHeight

\* A statement of phasePrune() takes the database from one half-way state to the next, and
\* the last one for a table makes it whole.
LEMMA PruneStatementPrune ==
    ASSUME IndexInv, PruneInv, PruneStatement
    PROVE  PruneInv'
<1> DEFINE n == pruneStep
           table == PruneProgram[n][1]
           what == PruneProgram[n][2]
           h == PruneHeight(table)
<1>1. /\ pc = "prune" /\ UNCHANGED <<height, transactionDepth>>
      /\ n \in PruneDue(0) /\ HalfWay(table, what)
      /\ \A p \in PruneTable : disk.from[p] <= db.from[p] /\ db.from[p] <= height
      /\ transactionDepth # 0 => Whole(disk)
  BY DEF PruneStatement, PruneInv
<1>2. IF PruneDue(n) = {} THEN pc' = "tip" ELSE pruneStep' = Min(PruneDue(n)) /\ pc' = "prune"
  BY <1>1 DEF PruneStatement
<1>3. \/ what = "rows" /\ Write(PruneRows(db, table, h)) /\ kept' = db.summary \cap {table}
      \/ what = "blocks" /\ Write(RemoveNonReachable(db, h)) /\ kept' = kept
      \/ what = "keep" /\ IF kept # {} THEN Write(KeepSummary(db, table)) ELSE UNCHANGED <<db, disk>>
      \/ what = "flag" /\ SetFlagInt("wasPrunedUTXOHistory", h)
  BY DEF PruneStatement
<1>4. n \in 1..9 /\ table \in PruneTable /\ table \in PruneTables
  BY <1>1, ProgramProps DEF PruneDue
<1>5. h \in 0..MaxHeight /\ h \in FlagValue /\ h \in Int /\ h <= height
  <2>1. height \in Heights
    BY PruneTypes
  <2> QED BY <2>1, PruneHeightProps, PruneBelow, DatabaseAssumption
<1>6. /\ db \in Contents /\ db.summary \subseteq Summarised /\ Stored(db) \subseteq Int
      /\ db.from \in [PruneTable -> 0..MaxHeight]
      /\ \A p \in PruneTable : db.from[p] \in Int /\ disk.from[p] \in Int
  BY PruneTypes DEF Contents
<1>8. \A p : PruneHeight(p)' = PruneHeight(p)
  BY <1>1 DEF PruneHeight, PruneMax
<1>9. PruneDue(0)' = PruneDue(0) /\ PruneProgram' = PruneProgram
  BY DEF PruneDue, PruneProgram
\* What is left to show: the database, what is on disk if that is not the same, and the heights.
<1>10. ASSUME disk' = disk \/ disk' = db', transactionDepth = 0 => disk' = db',
              \A p \in PruneTable : db.from[p] <= db'.from[p] /\ db'.from[p] <= height /\ db'.from[p] \in Int,
              pc' = "tip" => Whole(db'),
              pc' = "prune" => /\ pruneStep' \in PruneDue(0)
                               /\ HalfWay(PruneProgram[pruneStep][1], PruneProgram[pruneStep][2])'
       PROVE  PruneInv'
  <2>1. \A p \in PruneTable : disk'.from[p] <= db'.from[p] /\ db'.from[p] <= height'
    BY <1>1, <1>6, <1>10
  <2>2. pc' = "tip" => Whole(db)'
    BY <1>10 DEF Whole, Stored
  <2>3. transactionDepth # 0 => Whole(disk') \/ disk' = db'
    BY <1>1, <1>10
  <2>4. pc' = "tip" => Whole(disk')
    <3>1. Whole(disk) /\ disk' = disk => Whole(disk')
      OBVIOUS
    <3> QED BY <1>1, <1>10, <3>1
  <2>5. transactionDepth # 0 /\ pc' = "prune" => disk' = disk
    BY <1>1, <1>3, <1>10 DEF Write, SetFlagInt
  <2>6. pc' = "tip" \/ transactionDepth' # 0 => Whole(disk)'
    BY <1>1, <1>2, <2>4, <2>5 DEF Whole, Stored
  <2>7. pc' \in {"tip", "prune"}
    BY <1>2
  <2> QED BY <1>9, <1>10, <2>1, <2>2, <2>6, <2>7 DEF PruneInv
<1> HIDE DEF table, what, h
<1>11. CASE n \in {1, 4, 7}
  <2>1. what = "rows" /\ Whole(db)
    BY <1>1, <1>4, <1>11, ProgramProps DEF what, HalfWay
  <2>2. /\ pc' = "prune" /\ pruneStep' = n + 1 /\ n + 1 \in PruneDue(0) /\ n + 1 \in {2, 5, 8}
        /\ PruneProgram[n + 1][1] = table /\ n + 1 \in 1..9
    BY <1>1, <1>2, <1>11, NextOfTable DEF table
  <2>3. PruneProgram[n + 1][2] = "blocks"
    BY <2>2, ProgramProps
  <2>4. Write(PruneRows(db, table, h)) /\ kept' = db.summary \cap {table}
    BY <1>3, <2>1
  <2>5. /\ db' = PruneRows(db, table, h) /\ disk' \in {disk, db'} /\ (transactionDepth = 0 => disk' = db')
        /\ db'.summary = db.summary \ {table}
        /\ db'.from = [db.from EXCEPT ![table] = IF h > db.from[table] THEN h ELSE db.from[table]]
        /\ Stored(db') = Stored(db)
    BY <1>4, <1>5, <1>6, <2>4, StatementProps DEF Write
  <2>6. \A p \in PruneTable : db.from[p] <= db'.from[p] /\ db'.from[p] <= height /\ db'.from[p] \in Int
    BY <1>1, <1>4, <1>5, <1>6, <2>5
  <2>7. \A k \in Stored(db'), p \in PruneTable : db'.from[p] <= k \/ (p = table /\ db'.from[p] = h)
    BY <1>4, <1>6, <2>1, <2>5 DEF Whole
  <2>8. db'.summary = Summarised \ {table} /\ kept' = Summarised \cap {table}
    BY <2>1, <2>4, <2>5 DEF Whole
  <2>9. HalfWay(PruneProgram[pruneStep][1], PruneProgram[pruneStep][2])'
    <3>1. PruneProgram'[pruneStep'][1] = table /\ PruneProgram'[pruneStep'][2] = "blocks"
      BY <1>9, <2>2, <2>3
    <3>2. \A k \in Stored(db)', p \in PruneTable : db'.from[p] <= k \/ (p = table /\ db'.from[p] = h)
      BY <2>7 DEF Stored
    <3> QED BY <1>8, <2>8, <3>1, <3>2 DEF HalfWay, h
  <2> QED BY <1>10, <2>2, <2>5, <2>6, <2>9
<1>12. CASE n \in {2, 5, 8}
  <2>1. /\ what = "blocks" /\ db.summary = Summarised \ {table} /\ kept = Summarised \cap {table}
        /\ \A k \in Stored(db), p \in PruneTable : db.from[p] <= k \/ (p = table /\ db.from[p] = h)
    BY <1>1, <1>4, <1>12, ProgramProps DEF what, HalfWay, h
  <2>2. /\ pc' = "prune" /\ pruneStep' = n + 1 /\ n + 1 \in PruneDue(0) /\ n + 1 \in {3, 6, 9}
        /\ PruneProgram[n + 1][1] = table /\ n + 1 \in 1..9
    BY <1>1, <1>2, <1>12, NextOfTable DEF table
  <2>3. PruneProgram[n + 1][2] \in {"keep", "flag"}
    BY <2>2, ProgramProps
  <2>4. Write(RemoveNonReachable(db, h)) /\ kept' = kept
    BY <1>3, <2>1
  <2>5. /\ db' = RemoveNonReachable(db, h) /\ disk' \in {disk, db'} /\ (transactionDepth = 0 => disk' = db')
        /\ db'.summary = db.summary /\ db'.from = db.from
        /\ Stored(db') = {k \in Stored(db) : k >= h}
    BY <1>4, <1>5, <1>6, <2>4, StatementProps DEF Write
  <2>6. \A p \in PruneTable : db.from[p] <= db'.from[p] /\ db'.from[p] <= height /\ db'.from[p] \in Int
    BY <1>1, <1>6, <2>5
  <2>7. \A k \in Stored(db'), p \in PruneTable : db'.from[p] <= k
    BY <1>5, <1>6, <2>1, <2>5
  <2>8. HalfWay(PruneProgram[pruneStep][1], PruneProgram[pruneStep][2])'
    <3>1. PruneProgram'[pruneStep'][1] = table /\ PruneProgram'[pruneStep'][2] \in {"keep", "flag"}
      BY <1>9, <2>2, <2>3
    <3>2. \A k \in Stored(db)', p \in PruneTable : db'.from[p] <= k
      BY <2>7 DEF Stored
    <3> QED BY <2>1, <2>4, <2>5, <3>1, <3>2 DEF HalfWay
  <2> QED BY <1>10, <2>2, <2>5, <2>6, <2>8
<1>13. CASE n \in {3, 6, 9}
  <2>1. /\ db.summary = Summarised \ {table} /\ kept = Summarised \cap {table}
        /\ \A k \in Stored(db), p \in PruneTable : db.from[p] <= k
    BY <1>1, <1>4, <1>13, ProgramProps DEF what, HalfWay
  <2>2. /\ db'.summary = Summarised /\ db'.from = db.from /\ Stored(db') \subseteq Stored(db)
        /\ disk' \in {disk, db'} /\ (transactionDepth = 0 => disk' = db')
    <3>1. CASE n \in {3, 9}
      <4>1. what = "keep" /\ table \in Summarised
        BY <1>4, <3>1, ProgramProps DEF what, table
      <4>2. Write(KeepSummary(db, table))
        BY <1>3, <2>1, <4>1
      <4>3. /\ KeepSummary(db, table).summary = db.summary \cup ({table} \cap Summarised)
            /\ KeepSummary(db, table).from = db.from /\ Stored(KeepSummary(db, table)) = Stored(db)
        BY <1>4, <1>5, <1>6, StatementProps
      <4>4. db' = KeepSummary(db, table) /\ disk' \in {disk, db'} /\ (transactionDepth = 0 => disk' = db')
        BY <4>2 DEF Write
      <4>5. db.summary \cup ({table} \cap Summarised) = Summarised
        BY <2>1, <4>1
      <4> QED BY <4>3, <4>4, <4>5
    <3>2. CASE n = 6
      <4>1. what = "flag" /\ table \notin Summarised
        BY <1>4, <3>2, ProgramProps DEF what, table
      <4>2. SetFlagInt("wasPrunedUTXOHistory", h)
        BY <1>3, <4>1
      <4>3. Carries(db, db')
        BY <1>5, <4>2, FlagCarries
      <4> QED BY <2>1, <4>1, <4>2, <4>3 DEF Carries, SetFlagInt, Write
    <3> QED BY <1>13, <3>1, <3>2
  <2>3. Whole(db') /\ Whole(db)'
    BY <2>1, <2>2 DEF Whole, Stored
  <2>4. \A p \in PruneTable : db.from[p] <= db'.from[p] /\ db'.from[p] <= height /\ db'.from[p] \in Int
    BY <1>1, <1>6, <2>2
  <2>5. ASSUME pc' = "prune"
        PROVE  /\ pruneStep' \in PruneDue(0)
               /\ HalfWay(PruneProgram[pruneStep][1], PruneProgram[pruneStep][2])'
    <3>1. PruneDue(n) # {} /\ pruneStep' = Min(PruneDue(n))
      BY <1>2, <2>5
    <3>2. pruneStep' \in {1, 4, 7} /\ pruneStep' \in PruneDue(0) /\ pruneStep' \in 1..9
      BY <1>13, <3>1, NextTable
    <3>3. PruneProgram'[pruneStep'][2] = "rows"
      BY <1>9, <3>2, ProgramProps
    <3> QED BY <2>3, <3>2, <3>3 DEF HalfWay
  <2> QED BY <1>10, <2>2, <2>3, <2>4, <2>5
<1> QED BY <1>4, <1>11, <1>12, <1>13

\* Core's steps and a stop request leave a pruning where it is.
LEMMA StillPrune ==
    ASSUME PruneInv, UNCHANGED <<db, disk, transactionDepth, height, pc, pruneStep, kept>>
    PROVE  PruneInv'
  BY DEF PruneInv, HalfWay, Whole, Stored, PruneHeight, PruneMax, PruneDue, PruneProgram

\* Every step but one that cuts a pruning off.
LEMMA PruneStep ==
    ASSUME IndexInv, PruneInv, [Next]_vars, [pc = "prune" => pc' \in {"prune", "tip"}]_vars
    PROVE  PruneInv'
<1>1. CASE UNCHANGED vars \/ CoreExtend \/ CoreReorg \/ RequestStop \/ Retry
  BY <1>1, StillPrune DEF vars, CoreExtend, CoreReorg, RequestStop, Retry
<1>2. CASE Startup \/ MainEnter \/ ProcessStart
  BY <1>2, StartupPrune
<1>3. CASE Rewind
  BY <1>3, RewindPrune
<1>4. CASE Sync \/ CaptureFails
  BY <1>4, SyncPrune, BlockDonePrune, PruneStatementPrune, InsertPrune DEF Sync
<1>5. CASE Crash \/ Shutdown \/ Throw \/ CoreBehind
  <2>1. Abandon \/ ProcessEnd
    BY <1>5 DEF Crash, Shutdown, Throw, CoreBehind
  <2>2. pc' \in {"off", "main", "startup"}
    BY <2>1 DEF Abandon, Catch, ProcessEnd
  <2>3. pc # "prune"
    BY <2>2 DEF vars
  <2> QED BY <2>1, <2>3, AbandonPrune
<1> QED BY <1>1, <1>2, <1>3, <1>4, <1>5 DEF Next, Analyzer, Environment

\* A database nothing was pruned from.
LEMMA PruneInit == ASSUME Init PROVE PruneInv
<1>1. /\ db.summary = Summarised /\ \A p \in PruneTable : db.from[p] = 0
      /\ disk = db /\ pc = "off"
  BY DEF Init, FreshDatabase
<1>2. Whole(db)
  BY <1>1, DatabaseAssumption DEF Whole, Stored, Heights
<1> QED BY <1>1, <1>2 DEF PruneInv

LEMMA PruneInvariance == Spec /\ PruningsFinish => [](IndexInv /\ PruneInv)
<1>1. Init => PruneInv
  BY PruneInit
<1>2. /\ IndexInv /\ PruneInv /\ [Next]_vars /\ [pc = "prune" => pc' \in {"prune", "tip"}]_vars
      => PruneInv'
  BY PruneStep
<1> QED BY <1>1, <1>2, IndexInvariance, PTL DEF Spec, PruningsFinish

\* Pruning loses no exchange rate and no vote total, through forks, errors, failed repairs,
\* stops, kills between prunings and open header batches (pruneExchange, pruneVote), if no
\* pruning is cut off.
THEOREM PruningKeepsSummaries == Spec /\ PruningsFinish => []SummaryKept
<1>1. PruneInv => SummaryKept
  BY DEF PruneInv, Whole, SummaryKept
<1> QED BY <1>1, PruneInvariance, PTL

\* Nor does a rewind end below what was pruned: the deleted headers stop it and reset() is
\* called instead (phaseRewind, removeNonReachable), if no pruning is cut off.
THEOREM RewindsStayAbovePruned == Spec /\ PruningsFinish => RewindStaysAbovePruned
<1>1. ASSUME PruneInv, pc = "rewind"
      PROVE  \A p \in PruneTable : db.from[p] <= height
  BY <1>1 DEF PruneInv
<1>2. PruneInv => [pc = "rewind" /\ pc' = "open" /\ height' = height
                     => \A p \in PruneTable : db.from[p] <= height]_vars
  BY <1>1
<1> QED BY <1>2, PruneInvariance, PTL DEF RewindStaysAbovePruned

-----------------------------------------------------------------------------
(* Oracle prices.  A rewind, and the recovery from an error, delete prices without lowering  *)
(* _lastOracleEpoch: "missed" names the epochs that loses (see the README), and this part     *)
(* shows that no other is lost.                                                               *)

Marked(t) == t.flags["ddSyncHeight"] = DDHeight

\* The price of the epoch of h is stored, at a height that repairing h does not clear.
Priced(t, h) ==
    Epoch(h) \in missed \/ \E o \in t.oracle : Len(o) <= h /\ Epoch(Len(o)) = Epoch(h)
PricedBelow(t, n) == \A h \in DDHeight..(n - 1) \ SilentHeights : Priced(t, h)

\* A node that starts from here misses no price.
Complete(t) == Marked(t) => \A k \in Stored(t) : PricedBelow(t, k)

\* RAM holds the marker, or the tables do not; and there is none without tracking.
MarkerInv ==
    /\ pc \in {"off"} \cup StartupPc => transactionDepth = 0
    /\ pc = "off" => flagState["ddSyncHeight"] = NotCached
    /\ \/ flagState["ddSyncHeight"] \in {NotCached, DDHeight}
       \/ ~Marked(db) /\ ~Marked(disk)
    /\ pc # "off" /\ (Marked(db) \/ Marked(disk)) => track

\* The thread knows its height; it works on the newest header, unless it is going back.
Working == pc \in {"repair", "backfill", "mark"} \cup RewindPc \cup SyncPc \/ (pc = "main" /\ ~lastPassFailed)
Settled == Working /\ pc # "rewind"
NewestInv ==
    /\ Settled => \A k \in Stored(db) : k <= height
    /\ pc = "mark" => track /\ height = DDHeight - 1

\* Up to _lastOracleEpoch every epoch from here on has its price or is known to be missed, and
\* no price lies above the thread.
EpochInv ==
    Settled /\ pc # "repair" =>
        /\ \A o \in db.oracle : Len(o) <= height
        /\ \A e \in Epochs : e # 0 /\ Epoch(height) <= e /\ e <= lastOracleEpoch
                                => e \in missed \/ HasPrice(db, e)

\* The prices of the blocks below the one in hand, and its own once the coinbase was read.
Captured == pc \in {"process", "commit", "processed", "prune", "tip", "poll", "refresh"}
PriceInv ==
    /\ Complete(db) /\ Complete(disk)
    /\ Working /\ Marked(db) => PricedBelow(db, height)
    /\ Captured /\ track /\ height >= DDHeight /\ height \notin SilentHeights => Priced(db, height)

OracleInv == MarkerInv /\ NewestInv /\ EpochInv /\ PriceInv

\* A later block is in no earlier epoch.
LEMMA EpochMonotone ==
    ASSUME NEW m \in Nat, NEW n \in Nat, m <= n
    PROVE  Epoch(m) \in Nat /\ Epoch(n) \in Nat /\ Epoch(m) <= Epoch(n)
<1> DEFINE L == EpochLength
<1>1. L \in Nat /\ L > 0
  BY DatabaseAssumption
<1>2. Epoch(m) = m \div L /\ Epoch(n) = n \div L
  BY DEF Epoch
<1> HIDE DEF L
<1>3. /\ m \div L \in Nat /\ n \div L \in Nat
      /\ L * (m \div L) <= m /\ n < L * (n \div L) + L
  BY <1>1
<1>4. m \div L <= n \div L
  <2> DEFINE q == m \div L
             r == n \div L
  <2>1. q \in Nat /\ r \in Nat /\ L * q <= m /\ n < L * r + L
    BY <1>3
  <2> HIDE DEF q, r
  <2>2. L * q < L * r + L
    BY <1>1, <2>1
  <2>3. q <= r
    <3>1. SUFFICES ASSUME q >= r + 1 PROVE FALSE
      BY <2>1
    <3>2. L * q >= L * (r + 1)
      BY <1>1, <2>1, <3>1
    <3>3. L * (r + 1) = L * r + L
      BY <1>1, <2>1
    <3> QED BY <1>1, <2>1, <2>2, <3>2, <3>3
  <2> QED BY <2>3 DEF q, r
<1> QED BY <1>2, <1>3, <1>4

LEMMA OracleTypes ==
    ASSUME IndexInv
    PROVE  /\ db \in Contents /\ disk \in Contents /\ hash \in Block
           /\ height \in Heights /\ height \in Nat /\ Heights \subseteq Nat
           /\ DDHeight \in Nat /\ DDHeight >= 2 /\ DDHeight \in FlagValue
           /\ Stored(db) \subseteq Heights /\ Stored(disk) \subseteq Heights
           /\ db.oracle \subseteq Block /\ \A b \in Block : Len(b) \in Nat
           /\ clearFails \in Nat /\ lastOracleEpoch \in Nat /\ Epochs \subseteq Nat
           /\ flagState \in [FlagName -> FlagValue \cup {NotCached}]
           /\ db.flags \in [FlagName -> FlagValue]
<1>1. /\ db \in Contents /\ disk \in Contents /\ hash \in Block /\ height \in Heights
      /\ clearFails \in Nat /\ lastOracleEpoch \in Epochs
      /\ flagState \in [FlagName -> FlagValue \cup {NotCached}]
  BY DEF IndexInv, TypeOK, StoreTypeOK, ThreadTypeOK, LocalsTypeOK, BudgetTypeOK
<1>2. Heights \subseteq Nat /\ DDHeight \in Nat /\ DDHeight >= 2 /\ DDHeight \in FlagValue
  BY DatabaseAssumption DEF Heights, FlagValue
<1>3. db.oracle \subseteq Block /\ db.flags \in [FlagName -> FlagValue]
  BY <1>1 DEF Contents
<1>4. \A b \in Block : Len(b) \in Nat
  BY DEF Block
<1>5. Epochs \subseteq Nat
  <2>1. \A h \in Heights : Epoch(h) \in Nat
    BY <1>2, EpochMonotone
  <2> QED BY <2>1 DEF Epochs
<1> QED BY <1>1, <1>2, <1>3, <1>4, <1>5 DEF Stored

\* u has the prices and the marker of t, and no header more.
Prices(t, u) ==
    /\ u.oracle = t.oracle /\ u.flags["ddSyncHeight"] = t.flags["ddSyncHeight"]
    /\ Stored(u) \subseteq Stored(t)

LEMMA CompleteCarried ==
    ASSUME NEW t, NEW u, Complete(t), Prices(t, u)
    PROVE  Complete(u)
  BY DEF Complete, Prices, PricedBelow, Priced, Marked

\* What is priced stays so, for an epoch once missed stays missed.
LEMMA PriceNext ==
    ASSUME missed \subseteq missed', Complete(db'), Complete(disk'),
           Working' /\ Marked(db') => PricedBelow(db', height'),
           Captured' /\ track' /\ height' >= DDHeight /\ height' \notin SilentHeights
             => Priced(db', height')
    PROVE  PriceInv'
<1>1. Complete(db)' /\ Complete(disk)'
  BY DEF Complete, Marked, Stored, PricedBelow, Priced
<1>2. Working' /\ Marked(db)' => PricedBelow(db, height)'
  BY DEF Marked, PricedBelow, Priced
<1>3. Captured' /\ track' /\ height' >= DDHeight /\ height' \notin SilentHeights => Priced(db, height)'
  BY DEF Priced
<1> QED BY <1>1, <1>2, <1>3 DEF PriceInv

\* A step that writes no price, no marker and no header.
LEMMA CarriedOracle ==
    ASSUME OracleInv, Prices(db, db'), Prices(db, disk') \/ Prices(disk, disk'),
           UNCHANGED <<track, lastOracleEpoch, missed>>,
           \/ flagState'["ddSyncHeight"] = flagState["ddSyncHeight"]
           \/ flagState'["ddSyncHeight"] = db.flags["ddSyncHeight"] /\ disk = db,
           pc # "off", pc' # "off", pc' = "mark" => pc = "mark",
           pc' \in StartupPc => pc \in StartupPc /\ transactionDepth' = transactionDepth,
           Working' => Working /\ height' = height, Settled' => Settled,
           Settled' /\ pc' # "repair" => pc # "repair", Captured' => Captured
    PROVE  OracleInv'
<1>1. MarkerInv'
  BY DEF OracleInv, MarkerInv, Prices, Marked
<1>2. Stored(db)' \subseteq Stored(db)
  BY DEF Prices, Stored
<1>3. Settled' => Working'
  BY DEF Settled
<1>4. NewestInv'
  <2>1. pc' = "mark" => Working'
    BY DEF Working
  <2> QED BY <1>2, <1>3, <2>1 DEF OracleInv, NewestInv
<1>5. EpochInv'
  <2> SUFFICES ASSUME Settled', pc' # "repair"
               PROVE  /\ \A o \in db'.oracle : Len(o) <= height'
                      /\ \A e \in Epochs : e # 0 /\ Epoch(height') <= e /\ e <= lastOracleEpoch'
                                              => e \in missed' \/ HasPrice(db', e)
    BY DEF EpochInv, HasPrice, Epoch
  <2> QED BY <1>3 DEF OracleInv, EpochInv, Prices, HasPrice
<1>6. PriceInv'
  <2>1. /\ Complete(db) /\ Complete(disk)
        /\ Working /\ Marked(db) => PricedBelow(db, height)
        /\ Captured /\ track /\ height >= DDHeight /\ height \notin SilentHeights => Priced(db, height)
    BY DEF OracleInv, PriceInv
  <2>2. Complete(db') /\ Complete(disk')
    BY <2>1, CompleteCarried
  <2>3. Working' /\ Marked(db') => PricedBelow(db', height')
    BY <2>1 DEF Prices, Marked, PricedBelow, Priced
  <2>4. Captured' => Working'
    BY DEF Captured, Working
  <2>5. Captured' /\ track' /\ height' >= DDHeight /\ height' \notin SilentHeights => Priced(db', height')
    BY <2>1, <2>4 DEF Prices, Priced
  <2> QED BY <2>2, <2>3, <2>5, PriceNext
<1> QED BY <1>1, <1>4, <1>5, <1>6 DEF OracleInv

\* Which steps those are.
LEMMA QuietOracle ==
    ASSUME IndexInv, OracleInv,
           \/ CoreExtend \/ CoreReorg \/ RequestStop \/ Retry \/ UNCHANGED vars
           \/ (MainEnter /\ ~lastPassFailed) \/ CheckFork \/ OpenHash \/ OpenBlock \/ LoopEnter
           \/ LoopExit \/ ProcessBlock \/ CommitBlock \/ BlockDone \/ TipWait \/ TipStop \/ TipPoll
           \/ TipRefresh \/ FetchHash
    PROVE  OracleInv'
<1>1. db \in Contents
  BY OracleTypes
<1>2. CASE CoreExtend \/ CoreReorg \/ RequestStop \/ Retry \/ UNCHANGED vars
  <2>1. UNCHANGED <<db, disk, transactionDepth, flagState, track, lastOracleEpoch, missed, pc, height,
                    lastPassFailed>>
    BY <1>2 DEF CoreExtend, CoreReorg, RequestStop, Retry, vars
  <2>2. MarkerInv'
    BY <2>1 DEF OracleInv, MarkerInv, Marked
  <2>3. NewestInv'
    BY <2>1 DEF OracleInv, NewestInv, Settled, Working, Stored
  <2>4. EpochInv'
    BY <2>1 DEF OracleInv, EpochInv, Settled, Working, Epoch, HasPrice
  <2>5. PriceInv'
    BY <2>1 DEF OracleInv, PriceInv, Complete, Marked, PricedBelow, Priced, Working, Captured, Stored, Epoch
  <2> QED BY <2>2, <2>3, <2>4, <2>5 DEF OracleInv
<1>3. CASE (MainEnter /\ ~lastPassFailed) \/ CheckFork \/ OpenHash \/ OpenBlock \/ LoopEnter
           \/ TipWait \/ TipStop \/ TipPoll \/ TipRefresh \/ FetchHash
  <2>1. UNCHANGED <<db, disk, flagState, track, lastOracleEpoch, missed, height>>
    BY <1>3 DEF MainEnter, CheckFork, OpenHash, OpenBlock, LoopEnter, TipWait, TipStop, TipPoll,
       TipRefresh, FetchHash
  <2>2. /\ pc # "off" /\ pc' \notin {"off", "mark", "repair"} \cup StartupPc
        /\ Settled /\ pc # "repair"
    BY <1>3 DEF Working, Settled, Captured, MainEnter, CheckFork, OpenHash, OpenBlock,
       LoopEnter, TipWait, TipStop, TipPoll, TipRefresh, FetchHash
  <2>3. Captured' => Captured
    BY <1>3 DEF Captured, MainEnter, CheckFork, OpenHash, OpenBlock, LoopEnter, TipWait, TipStop,
       TipPoll, TipRefresh, FetchHash
  <2>4. Prices(db, db') /\ Prices(disk, disk')
    BY <2>1 DEF Prices
  <2> QED BY <2>1, <2>2, <2>3, <2>4, CarriedOracle DEF Settled
<1>4. CASE LoopExit \/ CommitBlock \/ ProcessBlock \/ BlockDone
  <2>1. UNCHANGED <<flagState, track, lastOracleEpoch, missed, height>>
    BY <1>4 DEF LoopExit, CommitBlock, ProcessBlock, BlockDone
  <2>2. /\ pc # "off" /\ pc' \notin {"off", "mark", "repair"} \cup StartupPc /\ Settled /\ pc # "repair"
        /\ Captured' => Captured
    BY <1>4 DEF Working, Settled, Captured, LoopExit, CommitBlock, ProcessBlock, BlockDone
  <2>3. Prices(db, db')
    BY <1>1, <1>4 DEF Prices, LoopExit, CommitBlock, ProcessBlock, BlockDone, Contents, Stored
  <2>4. Prices(db, disk') \/ Prices(disk, disk')
    BY <1>4 DEF Prices, LoopExit, CommitBlock, ProcessBlock, BlockDone, EndTransaction
  <2> QED BY <2>1, <2>2, <2>3, <2>4, CarriedOracle DEF Settled
<1> QED BY <1>2, <1>3, <1>4

\* phasePrune() touches neither prices nor the marker.
LEMMA PruneOracle ==
    ASSUME IndexInv, OracleInv, PruneStatement
    PROVE  OracleInv'
<1> DEFINE table == PruneProgram[pruneStep][1]
           h == PruneHeight(table)
<1>1. /\ pc = "prune" /\ pc' \in {"prune", "tip"}
      /\ UNCHANGED <<track, lastOracleEpoch, missed, height>>
  BY DEF PruneStatement
<1>2. \/ Write(PruneRows(db, table, h)) /\ UNCHANGED flagState
      \/ Write(RemoveNonReachable(db, h)) /\ UNCHANGED flagState
      \/ Write(KeepSummary(db, table)) /\ UNCHANGED flagState
      \/ UNCHANGED <<db, disk, flagState>>
      \/ SetFlagInt("wasPrunedUTXOHistory", h)
  BY DEF PruneStatement
<1>3. db \in Contents /\ flagState \in [FlagName -> FlagValue \cup {NotCached}]
  BY OracleTypes
<1> HIDE DEF table, h
<1>4. flagState'["ddSyncHeight"] = flagState["ddSyncHeight"]
  BY <1>2, <1>3 DEF SetFlagInt, CacheFlag, FlagName
<1>5. Prices(db, PruneRows(db, table, h)) /\ Prices(db, KeepSummary(db, table))
  BY <1>3 DEF Prices, PruneRows, KeepSummary, Contents, Stored
<1>6. Prices(db, RemoveNonReachable(db, h))
  BY <1>3 DEF Prices, RemoveNonReachable, Contents, Stored
<1>7. Prices(db, SetFlag(db, flagState, "wasPrunedUTXOHistory", h)) /\ Prices(db, db) /\ Prices(disk, disk)
  BY <1>3 DEF Prices, SetFlag, Contents, Stored, FlagName
<1>8. Prices(db, db') /\ (Prices(db, disk') \/ Prices(disk, disk'))
  BY <1>2, <1>5, <1>6, <1>7 DEF Write, SetFlagInt
<1> QED BY <1>1, <1>4, <1>8, CarriedOracle DEF Working, Settled, Captured

\* A pass is abandoned: what readers see is what was committed, and the height means nothing.
LEMMA CatchOracle ==
    ASSUME OracleInv, Catch, pc \notin {"off"} \cup StartupPc
    PROVE  OracleInv'
<1>1. /\ pc' = "main" /\ lastPassFailed' /\ db' = disk /\ disk' = disk
      /\ UNCHANGED <<flagState, track, missed>>
  BY DEF Catch, AbortTransaction
<1>2. ~Working' /\ ~Settled' /\ ~Captured'
  BY <1>1 DEF Working, Settled, Captured
<1>3. MarkerInv'
  BY <1>1 DEF OracleInv, MarkerInv, Marked
<1>4. NewestInv' /\ EpochInv'
  BY <1>1, <1>2 DEF NewestInv, EpochInv
<1>5. PriceInv'
  BY <1>1, <1>2, PriceNext DEF OracleInv, PriceInv
<1> QED BY <1>3, <1>4, <1>5 DEF OracleInv

\* A start that is tried again, a pass that fails, and the end of the process.
LEMMA AbandonOracle ==
    ASSUME IndexInv, OracleInv, Throw \/ CoreBehind \/ Crash \/ Shutdown
    PROVE  OracleInv'
<1>1. CASE Abandon
  <2>1. CASE pc \in StartupPc /\ pc' = "startup" /\ UNCHANGED <<core, store, flagState, memory, control>>
    <3>1. Prices(db, db') /\ Prices(disk, disk')
      BY <2>1 DEF Prices
    <3> QED BY <2>1, <3>1, CarriedOracle DEF Working, Settled, Captured
  <2>2. CASE pc \in RewindPc \cup SyncPc /\ Catch
    BY <2>2, CatchOracle
  <2> QED BY <1>1, <2>1, <2>2 DEF Abandon
<1>2. CASE ProcessEnd
  <2>1. /\ pc' = "off" /\ db' = disk /\ disk' = disk /\ transactionDepth' = 0 /\ missed' = missed
        /\ flagState' = [f \in FlagName |-> NotCached]
    BY <1>2 DEF ProcessEnd
  <2>2. ~Working' /\ ~Settled' /\ ~Captured'
    BY <2>1 DEF Working, Settled, Captured
  <2>3. MarkerInv' /\ NewestInv' /\ EpochInv'
    BY <2>1, <2>2 DEF MarkerInv, NewestInv, EpochInv, FlagName
  <2>4. PriceInv'
    BY <2>1, <2>2, PriceNext DEF OracleInv, PriceInv
  <2> QED BY <2>3, <2>4 DEF OracleInv
<1> QED BY <1>1, <1>2 DEF Crash, Shutdown, Throw, CoreBehind

\* Starting without tracking takes the marker back before anything is indexed.
LEMMA StartOracle ==
    ASSUME IndexInv, OracleInv, ProcessStart
    PROVE  OracleInv'
<1>1. /\ pc = "off" /\ pc' = "startup" /\ missed' = missed /\ transactionDepth = 0
      /\ transactionDepth' = 0 /\ flagState["ddSyncHeight"] = NotCached
  BY DEF ProcessStart, OracleInv, MarkerInv
<1>2. /\ db \in Contents /\ db.flags \in [FlagName -> FlagValue] /\ DDHeight \in Nat /\ DDHeight >= 2
      /\ flagState \in [FlagName -> FlagValue \cup {NotCached}] /\ disk = db
  BY <1>1, OracleTypes DEF IndexInv, Committed
<1>3. ~Working' /\ ~Settled' /\ ~Captured'
  BY <1>1 DEF Working, Settled, Captured
<1>4. NewestInv' /\ EpochInv'
  BY <1>1, <1>3 DEF NewestInv, EpochInv
<1>5. CASE track' /\ UNCHANGED <<db, disk, flagState>>
  <2>1. MarkerInv'
    BY <1>1, <1>5 DEF MarkerInv
  <2>2. PriceInv'
    BY <1>1, <1>3, <1>5, PriceNext DEF OracleInv, PriceInv
  <2> QED BY <1>4, <2>1, <2>2 DEF OracleInv
<1>6. CASE SetFlagInt("ddSyncHeight", 0)
  <2>1. /\ db' = SetFlag(db, flagState, "ddSyncHeight", 0) /\ disk' = db'
    BY <1>1, <1>6 DEF SetFlagInt, Write
  <2>2. db'.flags["ddSyncHeight"] = 0
    BY <1>1, <1>2, <2>1 DEF SetFlag, FlagOf, Contents, FlagName
  <2>3. ~Marked(db') /\ ~Marked(disk')
    BY <1>2, <2>1, <2>2 DEF Marked
  <2>4. MarkerInv'
    BY <1>1, <2>3 DEF MarkerInv, Marked
  <2>5. PriceInv'
    BY <1>1, <1>3, <2>3, PriceNext DEF Complete
  <2> QED BY <1>4, <2>4, <2>5 DEF OracleInv
<1> QED BY <1>5, <1>6 DEF ProcessStart

\* What is cleared from height n on leaves the prices below it.
LEMMA ClearKeepsPrices ==
    ASSUME NEW t \in Contents, NEW n \in Nat, NEW m \in Nat, m <= n, PricedBelow(t, m)
    PROVE  PricedBelow(ClearAbove(t, n), m)
<1> DEFINE u == ClearAbove(t, n)
<1>1. u.oracle = {o \in t.oracle : Len(o) < n}
  BY DEF ClearAbove, Contents
<1> HIDE DEF u
<1>2. DDHeight \in Nat /\ \A o \in t.oracle : Len(o) \in Nat
  BY DatabaseAssumption DEF Contents, Block
<1>3. ASSUME NEW h \in DDHeight..(m - 1) \ SilentHeights
      PROVE  Priced(u, h)
  <2>1. CASE Epoch(h) \in missed
    BY <2>1 DEF Priced
  <2>2. CASE Epoch(h) \notin missed
    <3>1. PICK o \in t.oracle : Len(o) <= h /\ Epoch(Len(o)) = Epoch(h)
      BY <1>3, <2>2 DEF PricedBelow, Priced
    <3>2. Len(o) < n
      BY <1>2, <1>3, <3>1
    <3> QED BY <1>1, <3>1, <3>2 DEF Priced
  <2> QED BY <2>1, <2>2
<1> QED BY <1>3 DEF PricedBelow, u

\* A repair at height n: the marker stays, no header and no price is above n, and a node that
\* starts from there misses no more than before.
LEMMA ClearOracle ==
    ASSUME IndexInv, OracleInv, NEW n \in Nat, ClearBlocksAboveHeight(n), clearFails' = clearFails
    PROVE  /\ db' = ClearAbove(db, n) /\ disk' \in {db', disk}
           /\ transactionDepth = 0 => disk' = db'
           /\ db'.flags = db.flags
           /\ \A k \in Stored(db') : k \in Stored(db) /\ k <= n
           /\ db'.oracle = {o \in db.oracle : Len(o) < n}
           /\ Complete(db') /\ Complete(disk')
<1> DEFINE u == ClearAbove(db, n)
<1>1. db \in Contents /\ Stored(db) \subseteq Nat /\ clearFails \in Nat
  BY OracleTypes
<1>2. db' = u /\ disk' \in {u, disk} /\ (transactionDepth = 0 => disk' = u)
  <2>1. UNCHANGED clearFails => ~(clearFails' = clearFails + 1)
    BY <1>1
  <2> QED BY <2>1 DEF ClearBlocksAboveHeight, Write
<1>3. u.oracle = {o \in db.oracle : Len(o) < n} /\ u.flags = db.flags
  BY <1>1 DEF ClearAbove, Contents
<1>4. \A k \in Stored(u) : k \in Stored(db) /\ k <= n
  BY <1>1, ClearAboveProps
<1>5. Complete(u)
  <2> SUFFICES ASSUME Marked(u), NEW k \in Stored(u)
               PROVE  PricedBelow(u, k)
    BY DEF Complete
  <2>1. PricedBelow(db, k)
    BY <1>3, <1>4 DEF OracleInv, PriceInv, Complete, Marked
  <2>2. k \in Nat /\ k <= n
    BY <1>1, <1>4
  <2> QED BY <1>1, <2>1, <2>2, ClearKeepsPrices
<1> QED BY <1>2, <1>3, <1>4, <1>5 DEF OracleInv, PriceInv

\* startupFunction() goes back to the newest header and repairs that block.
LEMMA StartupOracle ==
    ASSUME IndexInv, OracleInv, clearFails' = clearFails, StartupRead \/ StartupRepair
    PROVE  OracleInv'
<1>1. /\ height \in Nat /\ Heights \subseteq Nat /\ Stored(db) \subseteq Heights
      /\ db.oracle \subseteq Block /\ \A b \in Block : Len(b) \in Nat
      /\ Epochs \subseteq Nat
  BY OracleTypes
<1>2. CASE StartupRead
  <2>1. /\ UNCHANGED <<db, disk, transactionDepth, flagState, track, missed, lastOracleEpoch>>
        /\ pc = "startup" /\ pc' = "repair" /\ height' \in Stored(db) /\ \A k \in Stored(db) : k <= height'
    BY <1>2 DEF StartupRead, IsBlockHeight
  <2>2. MarkerInv' /\ NewestInv' /\ EpochInv'
    BY <2>1 DEF OracleInv, MarkerInv, NewestInv, EpochInv, Marked, Stored
  <2>3. Complete(db) /\ Complete(disk) /\ (Marked(db) => PricedBelow(db, height'))
    BY <2>1 DEF OracleInv, PriceInv, Complete
  <2>4. PriceInv'
    BY <2>1, <2>3, PriceNext DEF Captured
  <2> QED BY <2>2, <2>4 DEF OracleInv
<1>3. CASE StartupRepair
  <2>1. /\ UNCHANGED <<transactionDepth, flagState, track, missed, height>>
        /\ pc = "repair" /\ pc' = "backfill" /\ ClearBlocksAboveHeight(height) /\ ReadLastEpoch(db')
    BY <1>3 DEF StartupRepair
  <2>2. /\ db' = ClearAbove(db, height) /\ disk' \in {db', disk} /\ db'.flags = db.flags
        /\ \A k \in Stored(db') : k \in Stored(db) /\ k <= height
        /\ db'.oracle = {o \in db.oracle : Len(o) < height}
        /\ Complete(db') /\ Complete(disk')
    BY <1>1, <2>1, ClearOracle
  <2>3. MarkerInv'
    BY <2>1, <2>2 DEF OracleInv, MarkerInv, Marked
  <2>4. NewestInv'
    BY <2>1, <2>2 DEF NewestInv, Stored
  <2>5. EpochInv'
    <3>1. \A o \in db'.oracle : Len(o) \in Nat /\ Len(o) <= height
      BY <1>1, <2>2
    <3>2. lastOracleEpoch' \in {0} \cup {Epoch(Len(o)) : o \in db'.oracle}
      BY <2>1 DEF ReadLastEpoch, IsLastEpoch
    <3>3. ASSUME NEW e \in Epochs, e # 0, Epoch(height) <= e, e <= lastOracleEpoch'
          PROVE  HasPrice(db', e)
      <4>1. e \in Nat
        BY <1>1
      <4>2. PICK o \in db'.oracle : lastOracleEpoch' = Epoch(Len(o))
        BY <3>2, <3>3, <4>1
      <4>3. Epoch(Len(o)) <= Epoch(height) /\ Epoch(Len(o)) \in Nat /\ Epoch(height) \in Nat
        BY <1>1, <3>1, EpochMonotone
      <4>4. Epoch(Len(o)) = e
        BY <3>3, <4>1, <4>2, <4>3
      <4> QED BY <4>4 DEF HasPrice
    <3> QED BY <2>1, <3>1, <3>3 DEF EpochInv, HasPrice, Epoch
  <2>6. Marked(db') => PricedBelow(db', height)
    <3>1. Marked(db') => PricedBelow(db, height)
      BY <2>1, <2>2 DEF OracleInv, PriceInv, Working, Marked
    <3> QED BY <1>1, <2>2, <3>1, ClearKeepsPrices, OracleTypes
  <2>7. PriceInv'
    BY <2>1, <2>2, <2>6, PriceNext DEF Captured
  <2> QED BY <2>3, <2>4, <2>5, <2>7 DEF OracleInv
<1> QED BY <1>2, <1>3

\* phaseDigiDollarBackfill(): the marker is set when nothing above activation is stored.
LEMMA BackfillOracle ==
    ASSUME IndexInv, OracleInv, clearFails' = clearFails, StartupBackfill \/ StartupMark
    PROVE  OracleInv'
<1>1. /\ db \in Contents /\ height \in Nat /\ Heights \subseteq Nat /\ DDHeight \in Nat /\ DDHeight >= 2
      /\ Stored(db) \subseteq Heights /\ db.oracle \subseteq Block /\ \A b \in Block : Len(b) \in Nat
      /\ db.flags \in [FlagName -> FlagValue] /\ Epochs \subseteq Nat
      /\ flagState \in [FlagName -> FlagValue \cup {NotCached}]
  BY OracleTypes
<1>2. disk = db /\ transactionDepth = 0
  BY DEF OracleInv, MarkerInv, IndexInv, Committed, StartupBackfill, StartupMark
<1>3. ASSUME StartupBackfill
      PROVE  flagState'["ddSyncHeight"] \in {flagState["ddSyncHeight"], db.flags["ddSyncHeight"]}
  BY <1>1, <1>3, ReadFlagsProps DEF StartupBackfill, FlagName
<1>4. CASE StartupBackfill /\ ~BackfillDue
  <2>1. /\ UNCHANGED <<db, disk, transactionDepth, track, missed, height, lastPassFailed, lastOracleEpoch>>
        /\ pc = "backfill" /\ pc' = "main"
    BY <1>4 DEF StartupBackfill
  <2>2. Prices(db, db') /\ Prices(disk, disk')
    BY <2>1 DEF Prices
  <2> QED BY <1>2, <1>3, <1>4, <2>1, <2>2, CarriedOracle DEF Working, Settled, Captured
<1>5. CASE StartupBackfill /\ BackfillDue
  <2>1. /\ UNCHANGED <<transactionDepth, track, missed>> /\ track /\ height' = DDHeight - 1
        /\ pc = "backfill" /\ pc' \in {"startup", "mark"} /\ ClearBlocksAboveHeight(DDHeight - 1)
        /\ pc' = "mark" => lastOracleEpoch' = 0
    BY <1>5 DEF StartupBackfill, BackfillDue
  <2>2. /\ disk' = db' /\ db'.flags = db.flags /\ db'.oracle = {o \in db.oracle : Len(o) < DDHeight - 1}
        /\ \A k \in Stored(db') : k \in Stored(db) /\ k <= DDHeight - 1
        /\ Complete(db') /\ Complete(disk')
    BY <1>1, <1>2, <2>1, ClearOracle
  <2>3. ~Marked(db)
    <3>1. FlagOf(db, flagState, "ddSyncHeight") < DDHeight
      BY <1>5 DEF BackfillDue
    <3>2. CASE flagState["ddSyncHeight"] \in {NotCached, DDHeight}
      <4>1. flagState["ddSyncHeight"] = NotCached
        BY <1>1, <3>1, <3>2 DEF FlagOf
      <4>2. FlagOf(db, flagState, "ddSyncHeight") = db.flags["ddSyncHeight"]
        BY <4>1 DEF FlagOf
      <4> QED BY <1>1, <3>1, <4>2 DEF Marked
    <3> QED BY <3>2 DEF OracleInv, MarkerInv
  <2>4. MarkerInv'
    BY <1>2, <2>1, <2>2, <2>3 DEF MarkerInv, Marked
  <2>5. NewestInv'
    BY <2>1, <2>2 DEF NewestInv, Settled, Working, Stored
  <2>6. EpochInv'
    <3>1. \A o \in db'.oracle : Len(o) <= height'
      BY <1>1, <2>1, <2>2
    <3>2. pc' = "startup" => ~Settled'
      BY DEF Settled, Working
    <3>3. \A e \in Epochs : ~(e # 0 /\ e <= 0)
      BY <1>1
    <3> QED BY <2>1, <3>1, <3>2, <3>3 DEF EpochInv
  <2>7. PriceInv'
    BY <2>1, <2>2, <2>3, PriceNext DEF Captured, Marked
  <2> QED BY <2>4, <2>5, <2>6, <2>7 DEF OracleInv
<1>6. CASE StartupMark
  <2> DEFINE u == SetFlag(db, flagState, "ddSyncHeight", DDHeight)
  <2>1. /\ UNCHANGED <<transactionDepth, track, missed, height, lastPassFailed, lastOracleEpoch>>
        /\ pc = "mark" /\ pc' = "main" /\ db' = u /\ disk' \in {u, disk}
        /\ flagState' = CacheFlag(flagState, "ddSyncHeight", DDHeight)
    BY <1>6 DEF StartupMark, SetFlagInt, Write
  <2>2. track /\ height = DDHeight - 1 /\ \A k \in Stored(db) : k <= height
    BY <2>1 DEF OracleInv, NewestInv, Settled, Working
  <2>3. u.oracle = db.oracle /\ Stored(u) = Stored(db)
    BY <1>1 DEF SetFlag, Contents, Stored
  <2>4. flagState'["ddSyncHeight"] = DDHeight
    BY <1>1, <2>1 DEF CacheFlag, FlagName
  <2> HIDE DEF u
  <2>5. MarkerInv'
    BY <2>1, <2>2, <2>4 DEF MarkerInv
  <2>6. NewestInv'
    BY <2>1, <2>2, <2>3 DEF NewestInv, Stored
  <2>7. EpochInv'
    <3>1. Settled' => Settled
      BY <2>1 DEF Settled, Working
    <3> QED BY <2>1, <2>3, <3>1 DEF OracleInv, EpochInv, HasPrice, Epoch
  <2>8. \A k \in Nat : k <= DDHeight => PricedBelow(u, k)
    BY <1>1 DEF PricedBelow
  <2>9. Complete(u) /\ PricedBelow(u, height)
    <3>1. \A k \in Stored(u) : k \in Nat /\ k <= DDHeight
      <4>1. \A k \in Stored(db) : k \in Nat /\ k <= DDHeight - 1 /\ DDHeight \in Nat
        BY <1>1, <2>2, OracleTypes
      <4> QED BY <2>3, <4>1
    <3> QED BY <1>1, <2>2, <2>8, <3>1 DEF Complete
  <2>10. PriceInv'
    BY <2>1, <2>9, PriceNext DEF OracleInv, PriceInv, Captured
  <2> QED BY <2>5, <2>6, <2>7, <2>10 DEF OracleInv
<1> QED BY <1>4, <1>5, <1>6

\* Going back: the prices cleared are those of later epochs, or are missed from now on.
LEMMA RevisitOracle ==
    ASSUME IndexInv, OracleInv, height' \in Nat, ClearBlocksAboveHeight(height'), clearFails' = clearFails,
           Marked(db) => PricedBelow(db, height'), Revisit, pc' \in {"fork", "open"}, pc # "off",
           UNCHANGED <<flagState, track, lastOracleEpoch>>
    PROVE  OracleInv'
<1>1. db \in Contents /\ db.oracle \subseteq Block /\ \A b \in Block : Len(b) \in Nat
  BY OracleTypes
<1>2. /\ db' = ClearAbove(db, height') /\ disk' \in {db', disk} /\ db'.flags = db.flags
      /\ \A k \in Stored(db') : k \in Stored(db) /\ k <= height'
      /\ db'.oracle = {o \in db.oracle : Len(o) < height'}
      /\ Complete(db') /\ Complete(disk')
  BY ClearOracle
<1>3. MarkerInv'
  BY <1>2 DEF OracleInv, MarkerInv, Marked
<1>4. NewestInv'
  BY <1>2 DEF NewestInv, Stored
<1>5. EpochInv'
  <2>1. \A o \in db'.oracle : Len(o) <= height'
    BY <1>1, <1>2
  <2>2. \A e \in Epochs : Epoch(height') <= e /\ e <= lastOracleEpoch' => e \in missed' \/ HasPrice(db', e)
    BY DEF Revisit
  <2> QED BY <2>1, <2>2 DEF EpochInv, HasPrice, Epoch
<1>6. Marked(db') => PricedBelow(db', height')
  BY <1>1, <1>2, ClearKeepsPrices DEF Marked
<1>7. missed \subseteq missed' /\ ~Captured'
  BY DEF Revisit, Captured
<1>8. PriceInv'
  BY <1>2, <1>6, <1>7, PriceNext
<1> QED BY <1>3, <1>4, <1>5, <1>8 DEF OracleInv

\* The recovery of mainFunction() and phaseRewind().
LEMMA BackOracle ==
    ASSUME IndexInv, OracleInv, clearFails' = clearFails,
           (MainEnter /\ lastPassFailed) \/ RewindStep \/ RewindDone \/ RewindRestart
    PROVE  OracleInv'
<1>1. /\ db \in Contents /\ height \in Nat /\ Heights \subseteq Nat /\ Stored(db) \subseteq Heights
      /\ DDHeight \in Nat /\ DDHeight >= 2
  BY OracleTypes
<1>2. CASE MainEnter /\ lastPassFailed
  <2>1. PICK h \in Heights : IsBlockHeight(db, h) /\ RecoverAt(h)
    BY <1>2 DEF MainEnter
  <2>2. /\ height' = h /\ ClearBlocksAboveHeight(h) /\ pc' = "fork" /\ pc = "main" /\ Revisit
        /\ UNCHANGED <<flagState, track, lastOracleEpoch>>
    BY <1>2, <2>1 DEF MainEnter, RecoverAt
  <2>3. Marked(db) => PricedBelow(db, h)
    BY <2>1 DEF OracleInv, PriceInv, Complete, IsBlockHeight
  <2> QED BY <1>1, <2>2, <2>3, RevisitOracle
<1>3. CASE RewindDone
  <2>1. /\ height' = height /\ ClearBlocksAboveHeight(height) /\ pc' = "open" /\ pc = "rewind" /\ Revisit
        /\ UNCHANGED <<flagState, track, lastOracleEpoch>>
    BY <1>3 DEF RewindDone
  <2>2. Marked(db) => PricedBelow(db, height)
    BY <2>1 DEF OracleInv, PriceInv, Working
  <2> QED BY <1>1, <2>1, <2>2, RevisitOracle
<1>4. CASE RewindStep
  <2>1. /\ UNCHANGED <<db, disk, transactionDepth, flagState, track, lastOracleEpoch, missed>>
        /\ pc = "rewind" /\ pc' = "rewind" /\ height' = height - 1 /\ BlockHash(db, height - 1) # NoHash
    BY <1>4 DEF RewindStep
  <2>2. MarkerInv' /\ NewestInv' /\ EpochInv'
    BY <2>1 DEF OracleInv, MarkerInv, NewestInv, EpochInv, Marked, Settled
  <2>3. height - 1 \in Nat
    BY <1>1, <2>1 DEF BlockHash
  <2>4. Marked(db) => PricedBelow(db, height)
    BY <2>1 DEF OracleInv, PriceInv, Working
  <2>5. Marked(db) => PricedBelow(db, height - 1)
    BY <1>1, <2>3, <2>4 DEF PricedBelow
  <2>6. PriceInv'
    BY <2>1, <2>5, PriceNext DEF OracleInv, PriceInv, Captured
  <2> QED BY <2>2, <2>6 DEF OracleInv
<1>5. CASE RewindRestart /\ transactionDepth = 0
  <2> DEFINE u == Reset(db)
  <2>1. /\ db' = u /\ disk' = u /\ transactionDepth' = transactionDepth /\ height' = 1 /\ pc' = "open"
        /\ pc = "rewind" /\ Revisit /\ UNCHANGED <<flagState, track, lastOracleEpoch>>
    BY <1>5 DEF RewindRestart, Write
  <2>2. Stored(u) \subseteq {1}
    BY <1>1, ResetProps
  <2>3. u.oracle = {}
    BY DEF Reset
  <2>4. u.flags["ddSyncHeight"] = 0
    BY <1>1 DEF Reset, Contents, FlagName
  <2> HIDE DEF u
  <2>5. ~Marked(u)
    BY <1>1, <2>4 DEF Marked
  <2>6. MarkerInv'
    BY <2>1, <2>5 DEF MarkerInv, Marked
  <2>7. NewestInv'
    BY <2>1, <2>2 DEF NewestInv, Stored
  <2>8. EpochInv'
    <3>1. \A e \in Epochs : Epoch(height') <= e /\ e <= lastOracleEpoch' => e \in missed' \/ HasPrice(db', e)
      BY <2>1 DEF Revisit
    <3> QED BY <2>1, <2>3, <3>1 DEF EpochInv, HasPrice, Epoch
  <2>9. PriceInv'
    <3>1. missed \subseteq missed' /\ ~Captured'
      BY <2>1 DEF Revisit, Captured
    <3> QED BY <2>1, <2>5, <3>1, PriceNext DEF Complete
  <2> QED BY <2>6, <2>7, <2>8, <2>9 DEF OracleInv
<1>6. CASE RewindRestart /\ transactionDepth # 0
  BY <1>6, CatchOracle DEF RewindRestart
<1> QED BY <1>2, <1>3, <1>4, <1>5, <1>6

\* captureOracleCommitment(): the block in hand has its price once its coinbase was read.
LEMMA CaptureKeepsOracle ==
    ASSUME IndexInv, OracleInv, CaptureOracle
    PROVE  OracleInv'
<1>1. /\ db \in Contents /\ height \in Nat /\ height \in Heights /\ DDHeight \in Nat
      /\ Stored(db) \subseteq Heights
      /\ db.oracle \subseteq Block /\ hash \in Block /\ \A b \in Block : Len(b) \in Nat
      /\ lastOracleEpoch \in Nat /\ Epochs \subseteq Nat
  BY OracleTypes
<1>2. /\ pc = "oracle" /\ pc' = "process" /\ Working /\ Settled
      /\ UNCHANGED <<transactionDepth, flagState, track, missed, height, hash>>
  BY DEF CaptureOracle, Working, Settled
<1>3. Len(hash) = height
  BY <1>2 DEF IndexInv, PlaceInv, HasBlock, SyncPc
<1>4. /\ \A k \in Stored(db) : k <= height
      /\ \A o \in db.oracle : Len(o) <= height
      /\ \A e \in Epochs : e # 0 /\ Epoch(height) <= e /\ e <= lastOracleEpoch
                              => e \in missed \/ HasPrice(db, e)
  BY <1>2 DEF OracleInv, NewestInv, EpochInv
<1>5. Epoch(height) \in Nat /\ Epoch(height) \in Epochs
  BY <1>1, EpochMonotone DEF Epochs
<1>6. /\ Complete(db) /\ Complete(disk) /\ (Marked(db) => PricedBelow(db, height))
  BY <1>2 DEF OracleInv, PriceInv
<1>7. CASE CaptureDue /\ height \notin SilentHeights
  <2> DEFINE u == AddDigiDollarRate(db, hash)
  <2>1. db' = u /\ disk' \in {u, disk} /\ lastOracleEpoch' = Epoch(height)
    BY <1>7 DEF CaptureOracle, Write
  <2>2. /\ db.oracle \subseteq u.oracle /\ u.oracle \subseteq db.oracle \cup {hash}
        /\ u.flags = db.flags /\ Stored(u) = Stored(db)
        /\ HasPrice(u, Epoch(height))
    BY <1>1, <1>3 DEF AddDigiDollarRate, HasPrice, Contents, Stored
  <2> HIDE DEF u
  <2>3. \A o \in u.oracle : Len(o) <= height
    BY <1>1, <1>3, <1>4, <2>2
  <2>4. Priced(u, height)
    BY <2>2, <2>3 DEF Priced, HasPrice
  <2>5. \A n : PricedBelow(db, n) => PricedBelow(u, n)
    BY <2>2 DEF PricedBelow, Priced
  <2>6. Complete(u) /\ Complete(disk') /\ (Marked(u) => PricedBelow(u, height))
    BY <1>6, <2>1, <2>2, <2>5 DEF Complete, Marked
  <2>7. MarkerInv'
    BY <1>2, <2>1, <2>2 DEF OracleInv, MarkerInv, Marked
  <2>8. NewestInv'
    BY <1>2, <1>4, <2>1, <2>2 DEF NewestInv, Stored
  <2>9. EpochInv'
    <3>1. ASSUME NEW e \in Epochs, Epoch(height) <= e, e <= Epoch(height)
          PROVE  HasPrice(u, e)
      <4>1. e = Epoch(height)
        BY <1>1, <1>5, <3>1
      <4> QED BY <2>2, <4>1
    <3> QED BY <1>2, <2>1, <2>3, <3>1 DEF EpochInv, HasPrice, Epoch
  <2>10. PriceInv'
    BY <1>2, <2>1, <2>4, <2>6, PriceNext
  <2> QED BY <2>7, <2>8, <2>9, <2>10 DEF OracleInv
<1>8. CASE ~(CaptureDue /\ height \notin SilentHeights)
  <2>1. UNCHANGED <<db, disk, lastOracleEpoch>>
    BY <1>8 DEF CaptureOracle
  <2>2. ASSUME track, height >= DDHeight, height \notin SilentHeights
        PROVE  Priced(db, height)
    <3>1. Epoch(height) # 0 /\ ~(Epoch(height) > lastOracleEpoch)
      BY <1>8, <2>2 DEF CaptureDue
    <3>2. Epoch(height) \in missed \/ HasPrice(db, Epoch(height))
      BY <1>1, <1>4, <1>5, <3>1
    <3> QED BY <1>4, <3>2 DEF Priced, HasPrice
  <2>3. MarkerInv' /\ NewestInv'
    BY <1>2, <1>4, <2>1 DEF OracleInv, MarkerInv, NewestInv, Marked, Stored
  <2>4. EpochInv'
    BY <1>2, <1>4, <2>1 DEF EpochInv, HasPrice, Epoch
  <2>5. PriceInv'
    BY <1>2, <1>6, <2>1, <2>2, PriceNext
  <2> QED BY <2>3, <2>4, <2>5 DEF OracleInv
<1> QED BY <1>7, <1>8

\* A coinbase that cannot be read: the epoch is missed, unless its next block has better luck.
LEMMA CaptureFailsOracle ==
    ASSUME IndexInv, OracleInv, CaptureFails
    PROVE  OracleInv'
<1>1. /\ pc = "oracle" /\ pc' = "process" /\ Working /\ Settled
      /\ missed \subseteq missed' /\ Epoch(height) \in missed'
      /\ UNCHANGED <<db, disk, transactionDepth, flagState, track, height, lastOracleEpoch>>
  BY DEF CaptureFails, Working, Settled
<1>2. MarkerInv' /\ NewestInv'
  BY <1>1 DEF OracleInv, MarkerInv, NewestInv, Marked, Stored
<1>3. EpochInv'
  BY <1>1 DEF OracleInv, EpochInv, HasPrice, Epoch
<1>4. Complete(db)' /\ Complete(disk)' /\ (Marked(db)' => PricedBelow(db, height)')
  BY <1>1 DEF OracleInv, PriceInv, Complete, Marked, Stored, PricedBelow, Priced
<1>5. Priced(db, height)'
  BY <1>1 DEF Priced, Epoch
<1> QED BY <1>2, <1>3, <1>4, <1>5 DEF OracleInv, PriceInv

\* The header of the block in hand is stored once every price below it is.
LEMMA InsertOracle ==
    ASSUME IndexInv, OracleInv, InsertHeader
    PROVE  OracleInv'
<1>1. /\ db \in Contents /\ height \in Heights /\ height \in Nat /\ Heights \subseteq Nat
      /\ Stored(db) \subseteq Heights
  BY OracleTypes
<1> DEFINE u == InsertBlock(db, hash)
<1>2. /\ pc = "insert" /\ pc' = "loop" /\ Working /\ Settled /\ ~Captured'
      /\ UNCHANGED <<flagState, track, missed, height, lastOracleEpoch>>
      /\ db' = u /\ disk' \in {u, disk}
  BY DEF InsertHeader, Working, Settled, Captured
<1>3. Len(hash) = height
  BY <1>2 DEF IndexInv, PlaceInv, HasBlock, SyncPc
<1>4. /\ u.oracle = db.oracle /\ u.flags = db.flags
      /\ Stored(u) \subseteq Stored(db) \cup {height}
  BY <1>1, <1>3 DEF InsertBlock, Contents, Stored
<1> HIDE DEF u
<1>5. MarkerInv'
  BY <1>2, <1>4 DEF OracleInv, MarkerInv, Marked
<1>6. NewestInv'
  <2>1. \A k \in Stored(db) : k <= height
    BY <1>2 DEF OracleInv, NewestInv
  <2>2. \A k \in Stored(u) : k <= height
    BY <1>1, <1>4, <2>1
  <2>3. Stored(db)' = Stored(u)
    BY <1>2 DEF Stored
  <2> QED BY <1>2, <2>2, <2>3 DEF NewestInv
<1>7. EpochInv'
  BY <1>2, <1>4 DEF OracleInv, EpochInv, HasPrice, Epoch
<1>8. Marked(u) => PricedBelow(u, height)
  BY <1>2, <1>4 DEF OracleInv, PriceInv, Marked, PricedBelow, Priced
<1>9. Complete(u)
  <2> SUFFICES ASSUME Marked(u), NEW k \in Stored(u)
               PROVE  PricedBelow(u, k)
    BY DEF Complete
  <2>1. CASE k = height
    BY <1>8, <2>1
  <2>2. CASE k \in Stored(db)
    BY <1>4, <2>2 DEF OracleInv, PriceInv, Complete, Marked, PricedBelow, Priced
  <2> QED BY <1>4, <2>1, <2>2
<1>10. PriceInv'
  BY <1>2, <1>8, <1>9, PriceNext DEF OracleInv, PriceInv
<1> QED BY <1>5, <1>6, <1>7, <1>10 DEF OracleInv

\* Going on to the next block: the marker, due at the activation block, finds its price.
LEMMA AdvanceOracle ==
    ASSUME IndexInv, OracleInv, Advance
    PROVE  OracleInv'
<1>1. /\ db \in Contents /\ height \in Nat /\ DDHeight \in Nat /\ Heights \subseteq Nat
      /\ Stored(db) \subseteq Heights /\ db.oracle \subseteq Block /\ \A b \in Block : Len(b) \in Nat
      /\ db.flags \in [FlagName -> FlagValue] /\ Epochs \subseteq Nat
      /\ flagState \in [FlagName -> FlagValue \cup {NotCached}]
      /\ lastOracleEpoch \in Nat
  BY OracleTypes
<1>2. /\ pc = "tip" /\ pc' = "fetch" /\ Working /\ Settled /\ Captured /\ ~Captured'
      /\ UNCHANGED <<transactionDepth, track, missed, lastOracleEpoch>> /\ height' = height + 1
  BY DEF Advance, Working, Settled, Captured, SyncPc
<1>3. /\ \A k \in Stored(db) : k <= height
      /\ \A o \in db.oracle : Len(o) <= height
      /\ \A e \in Epochs : e # 0 /\ Epoch(height) <= e /\ e <= lastOracleEpoch
                              => e \in missed \/ HasPrice(db, e)
  BY <1>2 DEF OracleInv, NewestInv, EpochInv
<1>4. /\ Complete(db) /\ Complete(disk) /\ (Marked(db) => track /\ PricedBelow(db, height))
      /\ track /\ height >= DDHeight /\ height \notin SilentHeights => Priced(db, height)
  BY <1>2 DEF OracleInv, PriceInv, MarkerInv
\* One block more than before is priced.
<1>5. ASSUME track, PricedBelow(db, height)
      PROVE  PricedBelow(db, height + 1)
  <2> SUFFICES ASSUME NEW h \in DDHeight..((height + 1) - 1) \ SilentHeights
               PROVE  Priced(db, h)
    BY DEF PricedBelow
  <2>1. CASE h = height
    BY <1>1, <1>4, <1>5, <2>1
  <2>2. CASE h # height
    BY <1>1, <1>5, <2>2 DEF PricedBelow
  <2> QED BY <2>1, <2>2
\* The marker is written or it is not; the rest stays.
<1>6. /\ db'.oracle = db.oracle /\ Stored(db') = Stored(db) /\ disk' \in {db', disk}
      /\ \/ track /\ height = DDHeight /\ flagState'["ddSyncHeight"] = DDHeight
         \/ UNCHANGED <<db, disk, flagState>>
  <2>1. CASE MarkerDue
    <3> DEFINE u == SetFlag(db, flagState, "ddSyncHeight", DDHeight)
    <3>1. /\ db' = u /\ disk' \in {u, disk} /\ track /\ height = DDHeight
          /\ flagState' = CacheFlag(flagState, "ddSyncHeight", DDHeight)
      BY <2>1 DEF Advance, MarkerDue, SetFlagInt, Write
    <3>2. u.oracle = db.oracle /\ Stored(u) = Stored(db)
      BY <1>1 DEF SetFlag, Contents, Stored
    <3>3. flagState'["ddSyncHeight"] = DDHeight
      BY <1>1, <3>1 DEF CacheFlag, FlagName
    <3> QED BY <3>1, <3>2, <3>3
  <2>2. CASE ~MarkerDue
    BY <2>2 DEF Advance, Stored
  <2> QED BY <2>1, <2>2
<1>7. MarkerInv'
  BY <1>2, <1>6 DEF OracleInv, MarkerInv, Marked
<1>8. NewestInv'
  <2>1. \A k \in Stored(db') : k \in Nat /\ k <= height
    BY <1>1, <1>3, <1>6
  <2> QED BY <1>1, <1>2, <2>1 DEF NewestInv, Stored
<1>9. EpochInv'
  <2>1. \A o \in db'.oracle : Len(o) <= height'
    BY <1>1, <1>2, <1>3, <1>6
  <2>2. Epoch(height) \in Nat /\ Epoch(height') \in Nat /\ Epoch(height) <= Epoch(height')
    BY <1>1, <1>2, EpochMonotone
  <2>3. ASSUME NEW e \in Epochs, e # 0, Epoch(height') <= e, e <= lastOracleEpoch
        PROVE  e \in missed \/ HasPrice(db', e)
    <3>1. e \in Nat /\ Epoch(height) <= e
      BY <1>1, <2>2, <2>3
    <3> QED BY <1>3, <1>6, <2>3, <3>1 DEF HasPrice
  <2> QED BY <1>2, <2>1, <2>3 DEF EpochInv, HasPrice, Epoch
<1>10. PriceInv'
  <2>1. \A k \in Nat : k <= DDHeight => PricedBelow(db', k)
    BY <1>1 DEF PricedBelow
  <2>2. CASE UNCHANGED <<db, disk, flagState>>
    <3>1. Marked(db) => PricedBelow(db, height + 1)
      BY <1>4, <1>5
    <3> QED BY <1>2, <1>4, <2>2, <3>1, PriceNext
  <2>3. CASE track /\ height = DDHeight
    <3>1. PricedBelow(db, height)
      BY <1>1, <2>3 DEF PricedBelow
    <3>2. PricedBelow(db', height + 1)
      BY <1>5, <1>6, <2>3, <3>1 DEF PricedBelow, Priced
    <3>3. \A k \in Stored(db') : k \in Nat /\ k <= DDHeight
      BY <1>1, <1>3, <1>6, <2>3
    <3>4. Complete(db')
      BY <2>1, <3>3 DEF Complete
    <3> QED BY <1>2, <1>4, <1>6, <3>2, <3>4, PriceNext
  <2> QED BY <1>6, <2>2, <2>3
<1> QED BY <1>7, <1>8, <1>9, <1>10 DEF OracleInv

LEMMA OracleInit == ASSUME Init PROVE OracleInv
<1>1. /\ db = FreshDatabase(Block1) /\ disk = db /\ pc = "off" /\ transactionDepth = 0
      /\ flagState = [f \in FlagName |-> NotCached]
  BY DEF Init
<1>2. ~Marked(db) /\ ~Marked(disk)
  BY <1>1, DatabaseAssumption DEF Marked, FreshDatabase, FlagName
<1>3. MarkerInv /\ NewestInv /\ EpochInv
  BY <1>1 DEF MarkerInv, NewestInv, EpochInv, Settled, Working, FlagName
<1>4. PriceInv
  BY <1>1, <1>2 DEF PriceInv, Complete, Working, Captured
<1> QED BY <1>3, <1>4 DEF OracleInv

LEMMA OracleStep ==
    ASSUME IndexInv, OracleInv, clearFails' = clearFails, [Next]_vars
    PROVE  OracleInv'
<1>1. CASE Startup
  BY <1>1, StartupOracle, BackfillOracle DEF Startup
<1>2. CASE Rewind
  BY <1>2, QuietOracle, BackOracle DEF Rewind
<1>3. CASE Sync
  BY <1>3, QuietOracle, CaptureKeepsOracle, PruneOracle, AdvanceOracle, InsertOracle DEF Sync
<1>4. CASE MainEnter \/ Retry \/ CoreBehind \/ Shutdown
  BY <1>4, QuietOracle, BackOracle, AbandonOracle
<1>5. CASE Environment
  BY <1>5, QuietOracle, AbandonOracle, StartOracle, CaptureFailsOracle DEF Environment
<1>6. CASE UNCHANGED vars
  BY <1>6, QuietOracle
<1> QED BY <1>1, <1>2, <1>3, <1>4, <1>5, <1>6 DEF Next, Analyzer

\* A repair that failed is never forgotten.
LEMMA FailsOnlyGrow ==
    ASSUME clearFails \in Nat, [Next]_vars
    PROVE  clearFails' \in {clearFails, clearFails + 1}
<1>1. \A h : ClearBlocksAboveHeight(h) => clearFails' \in {clearFails, clearFails + 1}
  BY DEF ClearBlocksAboveHeight
<1>2. CASE Startup
  BY <1>1, <1>2 DEF Startup, StartupRead, StartupRepair, StartupBackfill, StartupMark
<1>3. CASE MainEnter \/ Rewind
  BY <1>1, <1>3 DEF MainEnter, RecoverAt, Rewind, CheckFork, RewindStep, RewindDone, RewindRestart, Catch
<1>4. CASE Sync
  BY <1>4 DEF Sync, OpenHash, OpenBlock, LoopEnter, LoopExit, CaptureOracle, ProcessBlock, CommitBlock,
     BlockDone, PruneStatement, TipWait, TipStop, TipPoll, TipRefresh, Advance, FetchHash, InsertHeader
<1>5. CASE Retry \/ CoreBehind \/ Shutdown \/ Environment \/ UNCHANGED vars
  BY <1>5 DEF Retry, CoreBehind, Shutdown, ProcessEnd, Abandon, Catch, Environment, CoreExtend, CoreReorg,
     ProcessStart, Crash, RequestStop, Throw, CaptureFails, vars
<1> QED BY <1>2, <1>3, <1>4, <1>5 DEF Next, Analyzer

\* captureOracleCommitment() and phaseDigiDollarBackfill() together miss no price but those of
\* the epochs "missed" names: once the activation block is indexed, every later epoch with a
\* commitment has its price, through any forks, errors, prunings, stops, kills and changes of
\* trackdigidollar, as long as no repair has failed.
THEOREM PricesAreComplete == Spec => []OracleComplete
<1> DEFINE Inv == IndexInv /\ (clearFails = 0 => OracleInv)
<1>1. Init /\ IndexInv => Inv
  BY OracleInit
<1>2. IndexInv /\ IndexInv' /\ Inv /\ [Next]_vars => Inv'
  <2> SUFFICES ASSUME IndexInv, IndexInv', clearFails = 0 => OracleInv, [Next]_vars, clearFails' = 0
               PROVE  OracleInv'
    OBVIOUS
  <2>1. clearFails \in Nat
    BY OracleTypes
  <2>2. clearFails' = clearFails /\ clearFails = 0
    BY <2>1, FailsOnlyGrow
  <2> QED BY <2>2, OracleStep
<1>3. Inv => OracleComplete
  <2> SUFFICES ASSUME OracleInv, pc \in SyncPc, Marked(db),
                      NEW h \in DDHeight..(height - 1) \ SilentHeights
               PROVE  Epoch(h) \in missed \/ HasPrice(db, Epoch(h))
    BY DEF OracleComplete, Marked
  <2>1. PricedBelow(db, height)
    BY DEF OracleInv, PriceInv, Working
  <2> QED BY <2>1 DEF PricedBelow, Priced, HasPrice
<1> QED BY <1>1, <1>2, <1>3, IndexInvariance, PTL DEF Spec

-----------------------------------------------------------------------------
(* The index describes one chain (OnePath), and changes only as an index   *)
(* of one chain may (ImplementsChainIndex), on a node that resumes on a    *)
(* header it stored, for every number of forks, errors and stops, every    *)
(* depth of a fork and every setting.                                      *)

Parent(c) == SubSeq(c, 1, Len(c) - 1)

Ancestor(a, c) == Len(a) <= Len(c) /\ SubSeq(c, 1, Len(a)) = a

\* The blocks something in the index comes from.
Written(t) == t.rows \cup t.oracle

\* The header of height k continues the one below it, if that is still stored.
Follows(t, k) == k - 1 \in Stored(t) => t.blocks[k - 1] = Parent(t.blocks[k])

Newest(t, k) == \A j \in Stored(t) : j <= k

\* What startupFunction() and the recovery of mainFunction() do not check, and what a header
\* that is stored before its hash is compared can break: the block to go on from is the one
\* whose header is stored there, and it continues the header below.
Resumes ==
    pc = "open" => height \in Stored(db) /\ db.blocks[height] = nextHash /\ Follows(db, height)

\* No fork is masked, and no repair fails.
Unmasked == Resumes /\ clearFails = 0

\* All that is written lies on the chain of each header above it.  Only the newest header
\* may be a stray one, stored from a branch that the index does not follow.
Path(t) ==
    /\ \A k \in Stored(t) : Len(t.blocks[k]) = k
    /\ \A x, y \in Written(t) : Len(x) <= Len(y) => Ancestor(x, y)
    /\ \A k \in Stored(t) : ~Newest(t, k) \/ Follows(t, k) =>
         \A x \in Written(t) : Len(x) <= k => Ancestor(x, t.blocks[k])

\* Outside a rewind nothing is stored above the thread.
Bounded == pc \in {"backfill", "mark", "fork"} \cup SyncPc \/ (pc = "main" /\ ~lastPassFailed)
BoundInv ==
    /\ Bounded => Newest(db, height) /\ \A x \in Written(db) : Len(x) <= height
    /\ pc = "repair" => Newest(db, height)

\* In the loop of phaseSync() everything written is below the block to expect, and that is
\* the newest header or, between Advance and InsertHeader, its child.
OnBlock == SyncPc \ {"open", "fetch", "insert"}
InRound == OnBlock \ {"openBlock", "loop"}
HandInv ==
    /\ pc \in SyncPc \ {"open"} =>
         Len(nextHash) = height /\ \A x \in Written(db) : Ancestor(x, nextHash)
    /\ pc \in OnBlock => /\ height \in Stored(db)
                         /\ db.blocks[height] = nextHash \/ (pc = "loop" /\ db.blocks[height] = hash)
    /\ pc \in InRound => hash = nextHash
    /\ pc \in OnBlock \ {"openBlock"} /\ next # NoHash => Parent(next) = hash
    /\ pc \in {"fetch", "insert"} => /\ height - 1 \in Stored(db) /\ Newest(db, height - 1)
                                     /\ db.blocks[height - 1] = Parent(nextHash)
                                     /\ \A x \in Written(db) : Len(x) < height

PathInv == Path(db) /\ Path(disk) /\ BoundInv /\ HandInv

-----------------------------------------------------------------------------
(* Ancestors. *)

\* The first h blocks of a chain.
LEMMA ChainPrefix ==
    ASSUME NEW c \in Block, NEW h \in 0..Len(c)
    PROVE  /\ SubSeq(c, 1, h) \in Block /\ Len(SubSeq(c, 1, h)) = h
           /\ \A i \in 1..h : SubSeq(c, 1, h)[i] = c[i]
<1>1. c \in Seq(Branch) /\ h \in Nat
  BY LenProperties DEF Block
<1>2. \A i \in 1..h : c[i] \in Branch
  BY <1>1, ElementOfSeq, LenProperties
<1>3. /\ SubSeq(c, 1, h) \in Seq(Branch)
      /\ Len(SubSeq(c, 1, h)) = IF 1 <= h THEN h - 1 + 1 ELSE 0
      /\ \A i \in 1..(h - 1 + 1) : SubSeq(c, 1, h)[i] = c[1 + i - 1]
  BY <1>1, <1>2, SubSeqProperties
<1>4. Len(SubSeq(c, 1, h)) = h
  BY <1>1, <1>3
<1>5. \A i \in 1..h : SubSeq(c, 1, h)[i] = c[i]
  BY <1>1, <1>3
<1> QED BY <1>3, <1>4, <1>5 DEF Block

\* Ancestors, block by block.
LEMMA AncestorPoints ==
    ASSUME NEW a \in Block, NEW c \in Block
    PROVE  Ancestor(a, c) <=> Len(a) <= Len(c) /\ \A i \in 1..Len(a) : a[i] = c[i]
<1>1. a \in Seq(Branch) /\ Len(a) \in Nat /\ Len(c) \in Nat
  BY LenProperties DEF Block
<1>2. SUFFICES ASSUME Len(a) <= Len(c)
               PROVE  SubSeq(c, 1, Len(a)) = a <=> \A i \in 1..Len(a) : a[i] = c[i]
  BY DEF Ancestor
<1> DEFINE p == SubSeq(c, 1, Len(a))
<1>3. p \in Seq(Branch) /\ Len(p) = Len(a) /\ \A i \in 1..Len(a) : p[i] = c[i]
  BY <1>1, <1>2, ChainPrefix DEF Block
<1> HIDE DEF p
<1>4. (\A i \in 1..Len(a) : a[i] = c[i]) => p = a
  BY <1>1, <1>3, SeqEqual
<1>5. p = a => \A i \in 1..Len(a) : a[i] = c[i]
  BY <1>3
<1> QED BY <1>4, <1>5 DEF p

LEMMA AncestorSelf == ASSUME NEW a \in Block PROVE Ancestor(a, a)
  BY AncestorPoints, LenProperties DEF Block

LEMMA AncestorTransitive ==
    ASSUME NEW a \in Block, NEW c \in Block, NEW d \in Block, Ancestor(a, c), Ancestor(c, d)
    PROVE  Ancestor(a, d)
<1>1. Len(a) \in Nat /\ Len(c) \in Nat /\ Len(d) \in Nat
  BY LenProperties DEF Block
<1>2. /\ Len(a) <= Len(c) /\ Len(c) <= Len(d)
      /\ \A i \in 1..Len(a) : a[i] = c[i]
      /\ \A i \in 1..Len(c) : c[i] = d[i]
  BY AncestorPoints
<1>3. Len(a) <= Len(d) /\ \A i \in 1..Len(a) : a[i] = d[i]
  BY <1>1, <1>2
<1> QED BY <1>3, AncestorPoints

\* Two ancestors of one block are on one chain.
LEMMA AncestorsLinear ==
    ASSUME NEW a \in Block, NEW c \in Block, NEW d \in Block, Ancestor(a, d), Ancestor(c, d),
           Len(a) <= Len(c)
    PROVE  Ancestor(a, c) /\ (Len(a) = Len(c) => a = c)
<1>1. Len(a) \in Nat /\ Len(c) \in Nat /\ Len(d) \in Nat
  BY LenProperties DEF Block
<1>2. /\ \A i \in 1..Len(a) : a[i] = d[i]
      /\ \A i \in 1..Len(c) : c[i] = d[i]
  BY AncestorPoints
<1>3. \A i \in 1..Len(a) : a[i] = c[i]
  BY <1>1, <1>2
<1>4. Len(a) = Len(c) => a = c
  BY <1>3, SeqEqual DEF Block
<1> QED BY <1>3, <1>4, AncestorPoints

\* The parent of a block, and whose ancestors it shares.
LEMMA ParentProps ==
    ASSUME NEW c \in Block, Len(c) > 0
    PROVE  /\ Parent(c) \in Block /\ Len(Parent(c)) = Len(c) - 1 /\ Ancestor(Parent(c), c)
           /\ \A a \in Block : Ancestor(a, c) /\ Len(a) < Len(c) => Ancestor(a, Parent(c))
           /\ \A a \in Block : Ancestor(a, Parent(c)) => Ancestor(a, c)
<1>1. Len(c) \in Nat /\ Len(c) - 1 \in 0..Len(c)
  BY LenProperties DEF Block
<1>2. Parent(c) \in Block /\ Len(Parent(c)) = Len(c) - 1
  BY <1>1, ChainPrefix DEF Parent
<1>3. Ancestor(Parent(c), c)
  BY <1>1, <1>2 DEF Ancestor, Parent
<1>4. ASSUME NEW a \in Block, Ancestor(a, c), Len(a) < Len(c)
      PROVE  Ancestor(a, Parent(c))
  <2>1. Len(a) <= Len(Parent(c))
    BY <1>1, <1>2, <1>4, LenProperties DEF Block
  <2> QED BY <1>2, <1>3, <1>4, <2>1, AncestorsLinear
<1>5. ASSUME NEW a \in Block, Ancestor(a, Parent(c))
      PROVE  Ancestor(a, c)
  BY <1>2, <1>3, <1>5, AncestorTransitive
<1> QED BY <1>2, <1>3, <1>4, <1>5

\* Core names a child of the block it is asked for (getblock).
LEMMA NextIsChild ==
    ASSUME tip \in Block, Len(tip) \in Heights, NEW c \in Block, Len(c) \in Heights,
           CoreNext(c) # NoHash
    PROVE  Parent(CoreNext(c)) = c
<1>1. Len(c) < Len(tip) /\ SubSeq(tip, 1, Len(c)) = c /\ CoreNext(c) = SubSeq(tip, 1, Len(c) + 1)
  BY DEF CoreNext, InChain, CoreHash
<1>2. Len(c) \in Nat /\ Len(tip) \in Nat
  BY LenProperties DEF Block
<1> DEFINE n == SubSeq(tip, 1, Len(c) + 1)
<1>3. n \in Block /\ Len(n) = Len(c) + 1
  BY <1>1, <1>2, ChainPrefix
<1>4. Ancestor(n, tip) /\ Ancestor(c, tip)
  BY <1>1, <1>2, <1>3 DEF Ancestor
<1> HIDE DEF n
<1>5. Ancestor(c, n)
  BY <1>2, <1>3, <1>4, AncestorsLinear
<1>6. Len(n) - 1 = Len(c)
  BY <1>2, <1>3
<1> QED BY <1>1, <1>5, <1>6 DEF Ancestor, Parent, n

-----------------------------------------------------------------------------
(* What the database operators do to the path. *)

LEMMA WrittenBlocks ==
    ASSUME NEW t \in Contents
    PROVE  /\ Written(t) \subseteq Block /\ \A x \in Written(t) : Len(x) \in Nat
           /\ Stored(t) \subseteq Heights /\ Heights \subseteq Nat \ {0}
           /\ t.blocks \in [Heights -> Block]
<1>1. Written(t) \subseteq Block /\ t.blocks \in [Heights -> Block]
  BY DEF Contents, Written
<1>2. \A x \in Block : Len(x) \in Nat
  BY LenProperties DEF Block
<1>3. Heights \subseteq Nat \ {0}
  BY DatabaseAssumption DEF Heights
<1> QED BY <1>1, <1>2, <1>3 DEF Stored

\* u differs from t in nothing the path is about.
SameIndex(t, u) == u.blocks = t.blocks /\ u.rows = t.rows /\ u.oracle = t.oracle

LEMMA PathSame ==
    ASSUME NEW t, NEW u, SameIndex(t, u), Path(t)
    PROVE  Path(u) /\ Stored(u) = Stored(t) /\ Written(u) = Written(t)
<1>1. Stored(u) = Stored(t) /\ Written(u) = Written(t) /\ u.blocks = t.blocks
  BY DEF SameIndex, Stored, Written
<1> QED BY <1>1 DEF Path, Newest, Follows

\* clearBlocksAboveHeight(): the newest header left was not the newest, or is still.
LEMMA PathClear ==
    ASSUME NEW t \in Contents, NEW h \in Int, Path(t)
    PROVE  /\ Path(ClearAbove(t, h))
           /\ \A x \in Written(ClearAbove(t, h)) : x \in Written(t) /\ Len(x) < h
           /\ Newest(ClearAbove(t, h), h)
<1> DEFINE u == ClearAbove(t, h)
<1>1. u.blocks = [k \in Heights |-> IF k > h THEN NoHash ELSE t.blocks[k]]
  BY DEF ClearAbove, Contents
<1>2. /\ u.rows = {c \in t.rows : Len(c) < h} /\ u.oracle = {c \in t.oracle : Len(c) < h}
  BY DEF ClearAbove, Contents
<1> HIDE DEF u
<1>3. Stored(u) = {k \in Stored(t) : k <= h}
  BY <1>1, WrittenBlocks DEF Stored, Heights
<1>4. \A k \in Stored(u) : u.blocks[k] = t.blocks[k]
  BY <1>1, <1>3 DEF Stored, Heights
<1>5. Written(u) = {x \in Written(t) : Len(x) < h}
  BY <1>2 DEF Written
<1>6. ASSUME NEW k \in Stored(u), ~Newest(u, k) \/ Follows(u, k)
      PROVE  ~Newest(t, k) \/ Follows(t, k)
  <2>1. k \in Stored(t) /\ k <= h /\ k \in Nat
    BY <1>3, WrittenBlocks
  <2>2. CASE ~Newest(u, k)
    BY <1>3, <2>2 DEF Newest
  <2>3. CASE Follows(u, k)
    <3>1. k - 1 \in Stored(t) => k - 1 \in Stored(u)
      BY <1>3, <2>1
    <3> QED BY <1>4, <2>3, <3>1 DEF Follows
  <2> QED BY <1>6, <2>2, <2>3
<1>7. Path(u)
  <2>1. \A k \in Stored(u) : Len(u.blocks[k]) = k
    BY <1>3, <1>4 DEF Path
  <2>2. \A x, y \in Written(u) : Len(x) <= Len(y) => Ancestor(x, y)
    BY <1>5 DEF Path
  <2>3. ASSUME NEW k \in Stored(u), ~Newest(u, k) \/ Follows(u, k), NEW x \in Written(u), Len(x) <= k
        PROVE  Ancestor(x, u.blocks[k])
    <3>1. k \in Stored(t) /\ x \in Written(t) /\ u.blocks[k] = t.blocks[k]
      BY <1>3, <1>4, <1>5
    <3>2. ~Newest(t, k) \/ Follows(t, k)
      BY <1>6, <2>3
    <3> QED BY <2>3, <3>1, <3>2 DEF Path
  <2> QED BY <2>1, <2>2, <2>3 DEF Path
<1> QED BY <1>3, <1>5, <1>7 DEF Newest, u

\* reset(): nothing is written.
LEMMA PathReset ==
    ASSUME NEW t \in Contents, Path(t)
    PROVE  Path(Reset(t)) /\ Written(Reset(t)) = {} /\ Newest(Reset(t), 1)
<1> DEFINE u == Reset(t)
<1>1. /\ u.blocks = [k \in Heights |-> IF k > 1 THEN NoHash ELSE t.blocks[k]]
      /\ Written(u) = {}
  BY DEF Reset, Written
<1> HIDE DEF u
<1>2. \A k \in Stored(u) : k \in Stored(t) /\ k <= 1 /\ u.blocks[k] = t.blocks[k]
  BY <1>1, WrittenBlocks DEF Stored, Heights
<1> QED BY <1>1, <1>2 DEF Path, Newest, u

\* On the newest header, which everything written is below: its block is written, or older
\* headers are pruned.
LEMMA PathOnTop ==
    ASSUME NEW t \in Contents, NEW u \in Contents, NEW c \in Block, Path(t),
           Len(c) \in Stored(t), t.blocks[Len(c)] = c, Newest(t, Len(c)),
           \A x \in Written(t) : Ancestor(x, c), Written(u) \subseteq Written(t) \cup {c},
           \A k \in Stored(u) : k \in Stored(t) /\ u.blocks[k] = t.blocks[k]
    PROVE  Path(u) /\ \A x \in Written(u) : Ancestor(x, c)
<1>1. \A x \in Written(u) : x \in Block /\ Len(x) \in Nat /\ Ancestor(x, c)
  BY AncestorSelf, WrittenBlocks
<1>2. \A x, y \in Written(u) : Len(x) <= Len(y) => Ancestor(x, y)
  BY <1>1, AncestorsLinear
<1>3. ASSUME NEW k \in Stored(u), NEW x \in Written(u), Len(x) <= k
      PROVE  Ancestor(x, u.blocks[k])
  <2>1. k \in Stored(t) /\ k \in Nat /\ k <= Len(c) /\ u.blocks[k] = t.blocks[k] /\ Len(c) \in Nat
    BY WrittenBlocks DEF Newest
  <2>2. CASE k = Len(c)
    BY <1>1, <2>1, <2>2
  <2>3. CASE k < Len(c)
    <3>1. x \in Written(t)
      BY <1>1, <1>3, <2>1, <2>3
    <3>2. ~Newest(t, k)
      BY <2>1, <2>3 DEF Newest
    <3> QED BY <1>3, <2>1, <3>1, <3>2 DEF Path
  <2> QED BY <2>1, <2>2, <2>3
<1>4. \A k \in Stored(u) : Len(u.blocks[k]) = k
  BY DEF Path
<1> QED BY <1>1, <1>2, <1>3, <1>4 DEF Path

\* insertBlock() on top of the newest header, which everything written is below.
LEMMA PathInsert ==
    ASSUME NEW t \in Contents, NEW c \in Block, Path(t), Len(c) \in Heights,
           Len(c) - 1 \in Stored(t), Newest(t, Len(c) - 1),
           \A x \in Written(t) : Ancestor(x, t.blocks[Len(c) - 1])
    PROVE  /\ Path(InsertBlock(t, c)) /\ Newest(InsertBlock(t, c), Len(c))
           /\ Written(InsertBlock(t, c)) = Written(t)
           /\ Len(c) \in Stored(InsertBlock(t, c)) /\ InsertBlock(t, c).blocks[Len(c)] = c
<1> DEFINE u == InsertBlock(t, c)
           n == Len(c)
<1>1. u.blocks = [t.blocks EXCEPT ![n] = c] /\ Written(u) = Written(t)
  BY DEF InsertBlock, Contents, Written
<1>2. t.blocks \in [Heights -> Block] /\ n \in Heights /\ n \in Nat \ {0} /\ Heights \subseteq Nat
  BY WrittenBlocks
<1>3. c # NoHash
  BY <1>2, EmptySeq DEF NoHash
<1>4. \A x \in Written(t) : x \in Block /\ Len(x) \in Nat
  BY WrittenBlocks
<1> HIDE DEF u
<1>5. Stored(u) = Stored(t) \cup {n} /\ u.blocks[n] = c
  BY <1>1, <1>2, <1>3 DEF Stored
<1> HIDE DEF n
<1>6. ASSUME NEW k \in Stored(t) PROVE k \in Nat /\ k < n /\ u.blocks[k] = t.blocks[k]
  <2>1. k \in Heights /\ k <= n - 1
    BY DEF Newest, Stored, n
  <2> QED BY <1>1, <1>2, <2>1
<1>7. \A k \in Stored(u) : Len(u.blocks[k]) = k
  BY <1>5, <1>6 DEF Path, n
<1>8. Newest(u, n)
  BY <1>2, <1>5, <1>6 DEF Newest
<1>9. ASSUME NEW k \in Stored(u), ~Newest(u, k) \/ Follows(u, k), NEW x \in Written(t), Len(x) <= k
      PROVE  Ancestor(x, u.blocks[k])
  <2> DEFINE p == t.blocks[n - 1]
  <2>1. /\ n - 1 \in Stored(t) /\ p \in Block /\ Len(p) = n - 1 /\ Ancestor(x, p) /\ u.blocks[n - 1] = p
    BY <1>2, <1>6 DEF n, Path, Stored
  <2> HIDE DEF p
  <2>2. CASE k = n
    <3>1. Follows(u, n)
      BY <1>8, <1>9, <2>2
    <3>2. p = Parent(c)
      BY <1>5, <2>1, <3>1 DEF Follows
    <3> QED BY <1>2, <1>4, <1>5, <2>1, <2>2, <3>2, ParentProps DEF n
  <2>3. CASE k # n
    <3>1. k \in Stored(t) /\ u.blocks[k] = t.blocks[k] /\ k \in Nat /\ k < n
      BY <1>5, <1>6, <2>3
    <3>2. CASE k = n - 1
      BY <2>1, <3>1, <3>2 DEF p
    <3>3. CASE k # n - 1
      <4>1. ~Newest(t, k)
        BY <1>2, <2>1, <3>1, <3>3 DEF Newest
      <4> QED BY <1>9, <3>1, <4>1 DEF Path
    <3> QED BY <3>2, <3>3
  <2> QED BY <2>2, <2>3
<1>10. Path(u)
  BY <1>1, <1>7, <1>9 DEF Path
<1> QED BY <1>1, <1>5, <1>8, <1>10 DEF u, n

-----------------------------------------------------------------------------
(* The invariant holds of every step. *)


LEMMA PathTypes ==
    ASSUME IndexInv
    PROVE  /\ db \in Contents /\ disk \in Contents /\ tip \in Block /\ Len(tip) \in Heights
           /\ hash \in Block /\ next \in Block /\ nextHash \in Block /\ height \in Heights
           /\ Heights \subseteq Nat \ {0} /\ height \in Nat \ {0}
           /\ HasBlock => Len(hash) = height
<1>1. Heights \subseteq Nat \ {0}
  BY DatabaseAssumption DEF Heights
<1> QED BY <1>1 DEF IndexInv, TypeOK, CoreTypeOK, StoreTypeOK, ThreadTypeOK, LocalsTypeOK, PlaceInv

\* A step that writes nothing the path is about, at the same height.
LEMMA QuietPath ==
    ASSUME PathInv, SameIndex(db, db'), SameIndex(db, disk') \/ SameIndex(disk, disk'),
           UNCHANGED <<height, nextHash>>, Bounded' => Bounded, pc' = "repair" => pc = "repair",
           pc' \in SyncPc \ {"open"} => pc \in SyncPc \ {"open"},
           pc' \in OnBlock => /\ pc \in OnBlock
                              /\ pc = "loop" => (pc' = "loop" /\ hash' = hash) \/ hash = nextHash,
           pc' \in InRound => hash' = nextHash,
           pc' \in OnBlock \ {"openBlock"} /\ next' # NoHash => Parent(next') = hash',
           pc' \in {"fetch", "insert"} => pc \in {"fetch", "insert"}
    PROVE  PathInv'
<1>1. Path(db') /\ Stored(db') = Stored(db) /\ Written(db') = Written(db) /\ db'.blocks = db.blocks
  BY PathSame DEF PathInv, SameIndex
<1>2. Path(disk')
  BY PathSame DEF PathInv
<1>3. Path(db)' /\ Path(disk)'
  BY <1>1, <1>2 DEF Path, Stored, Written, Newest, Follows
<1>4. Stored(db)' = Stored(db) /\ Written(db)' = Written(db)
  BY <1>1 DEF Stored, Written
<1>5. \A k : Newest(db, k)' <=> Newest(db, k)
  BY <1>4 DEF Newest
<1>6. BoundInv'
  BY <1>4, <1>5 DEF PathInv, BoundInv
<1>7. HandInv'
  BY <1>1, <1>4, <1>5 DEF PathInv, HandInv, OnBlock, InRound, Newest
<1> QED BY <1>3, <1>6, <1>7 DEF PathInv

\* Which steps leave the whole thread alone.
LEMMA StillPath ==
    ASSUME PathInv, CoreExtend \/ CoreReorg \/ RequestStop \/ Retry \/ UNCHANGED vars
    PROVE  PathInv'
<1>1. UNCHANGED <<db, disk, pc, lastPassFailed, height, nextHash, hash, next>>
  BY DEF CoreExtend, CoreReorg, RequestStop, Retry, vars
<1>2. SameIndex(db, db') /\ SameIndex(disk, disk')
  BY <1>1 DEF SameIndex
<1>3. Bounded' => Bounded
  BY <1>1 DEF Bounded
<1>4. pc' \in OnBlock => pc \in OnBlock /\ (pc = "loop" => pc' = "loop" /\ hash' = hash)
  BY <1>1
<1>5. pc' \in InRound => hash' = nextHash
  BY <1>1 DEF PathInv, HandInv
<1>6. pc' \in OnBlock \ {"openBlock"} /\ next' # NoHash => Parent(next') = hash'
  BY <1>1 DEF PathInv, HandInv
<1> QED BY <1>1, <1>2, <1>3, <1>4, <1>5, <1>6, QuietPath

\* Steps of the thread that only ask Core, wait, commit or leave the loop.
LEMMA MovePath ==
    ASSUME IndexInv, PathInv,
           \/ CheckFork \/ OpenBlock \/ LoopEnter \/ LoopExit \/ CommitBlock \/ BlockDone
           \/ TipWait \/ TipStop \/ TipPoll \/ TipRefresh \/ FetchHash \/ CaptureFails
           \/ MainEnter /\ ~lastPassFailed
    PROVE  PathInv'
<1>1. UNCHANGED <<db, height, nextHash, lastPassFailed>> /\ disk' \in {db, disk}
  BY DEF CheckFork, OpenBlock, LoopEnter, LoopExit, CommitBlock, BlockDone, TipWait, TipStop,
     TipPoll, TipRefresh, FetchHash, CaptureFails, MainEnter, EndTransaction
<1>2. SameIndex(db, db') /\ (SameIndex(db, disk') \/ SameIndex(disk, disk'))
  BY <1>1 DEF SameIndex
<1>3. tip \in Block /\ Len(tip) \in Heights /\ hash \in Block /\ height \in Heights
  BY PathTypes
<1>4. pc \in OnBlock => Len(hash) = height
  BY PathTypes DEF OnBlock, HasBlock
<1>5. pc \in OnBlock /\ CoreNext(hash) # NoHash => Parent(CoreNext(hash)) = hash
  BY <1>3, <1>4, NextIsChild
<1>6. /\ Bounded /\ pc' # "repair"
      /\ pc' \in SyncPc \ {"open"} => pc \in SyncPc \ {"open"}
      /\ pc' \in {"fetch", "insert"} => pc \in {"fetch", "insert"}
  BY <1>1 DEF Bounded, CheckFork, OpenBlock, LoopEnter, LoopExit, CommitBlock, BlockDone, TipWait,
     TipStop, TipPoll, TipRefresh, FetchHash, CaptureFails, MainEnter
<1>7. pc' \in OnBlock => pc \in OnBlock /\ (pc = "loop" => (pc' = "loop" /\ hash' = hash) \/ hash = nextHash)
  BY DEF OnBlock, HashExpected, CheckFork, OpenBlock, LoopEnter, LoopExit, CommitBlock, BlockDone,
     TipWait, TipStop, TipPoll, TipRefresh, FetchHash, CaptureFails, MainEnter
<1>8. pc' \in InRound => hash' = nextHash
  BY DEF PathInv, HandInv, InRound, OnBlock, HashExpected, CheckFork, OpenBlock, LoopEnter, LoopExit,
     CommitBlock, BlockDone, TipWait, TipStop, TipPoll, TipRefresh, FetchHash, CaptureFails, MainEnter
<1>9. pc' \in OnBlock \ {"openBlock"} /\ next' # NoHash => Parent(next') = hash'
  <2>1. CASE OpenBlock \/ TipRefresh
    BY <1>5, <2>1 DEF OpenBlock, TipRefresh, FetchBlock, OnBlock
  <2>2. CASE LoopEnter \/ CommitBlock \/ BlockDone \/ TipWait \/ TipPoll \/ CaptureFails
    BY <2>2 DEF PathInv, HandInv, OnBlock, LoopEnter, CommitBlock, BlockDone, TipWait, TipPoll, CaptureFails
  <2>3. CASE CheckFork \/ LoopExit \/ TipStop \/ FetchHash \/ (MainEnter /\ ~lastPassFailed)
    BY <2>3 DEF OnBlock, CheckFork, LoopExit, TipStop, FetchHash, MainEnter
  <2> QED BY <2>1, <2>2, <2>3
<1> QED BY <1>1, <1>2, <1>6, <1>7, <1>8, <1>9, QuietPath

\* Writes of flags and summaries, and what is not a write in captureOracleCommitment().
LEMMA FlagPath ==
    ASSUME IndexInv, PathInv,
           ProcessStart \/ StartupMark \/ (StartupBackfill /\ ~BackfillDue)
    PROVE  PathInv'
<1>1. db \in Contents
  BY PathTypes
<1>2. \A f, v : SameIndex(db, SetFlag(db, flagState, f, v))
  BY <1>1 DEF SameIndex, SetFlag, Contents
<1>3. SameIndex(db, db') /\ (SameIndex(db, disk') \/ SameIndex(disk, disk'))
  BY <1>2 DEF SameIndex, ProcessStart, StartupMark, StartupBackfill, SetFlagInt, Write
<1>4. /\ UNCHANGED <<height, nextHash>> /\ pc' \in {"startup", "main"}
      /\ Bounded' => Bounded
  BY DEF ProcessStart, StartupMark, StartupBackfill, Bounded
<1> QED BY <1>3, <1>4, QuietPath DEF OnBlock, InRound

\* The thread is out of the loop, on a database that is cleared from its height on.
LEMMA ClearedPath ==
    ASSUME PathInv, db \in Contents, NEW h \in Heights, h \in Int, Write(ClearAbove(db, h)),
           height' = h, pc' \notin (SyncPc \ {"open"}) \cup {"repair"}
    PROVE  PathInv'
<1> DEFINE u == ClearAbove(db, h)
<1>1. /\ Path(u) /\ Newest(u, h) /\ \A x \in Written(u) : Len(x) < h
  BY PathClear DEF PathInv
<1>2. db' = u /\ disk' \in {u, disk}
  BY DEF Write
<1>3. \A x \in Written(u) : Len(x) <= h
  <2>1. \A x \in Written(u) : x \in Written(db) /\ Len(x) \in Nat /\ h \in Nat
    BY PathClear, WrittenBlocks DEF PathInv, Heights
  <2> QED BY <1>1, <2>1
<1> HIDE DEF u
<1>4. Path(db)' /\ Path(disk)'
  BY <1>1, <1>2 DEF PathInv, Path, Stored, Written, Newest, Follows
<1>5. BoundInv'
  BY <1>1, <1>2, <1>3 DEF BoundInv, Newest, Stored, Written
<1>6. HandInv'
  BY DEF HandInv, OnBlock, InRound
<1> QED BY <1>4, <1>5, <1>6 DEF PathInv

\* Startup, recovery and the end of a rewind clear the block they go on from.
LEMMA RepairPath ==
    ASSUME IndexInv, PathInv, clearFails = 0, clearFails' = 0,
           \/ StartupRead \/ StartupRepair \/ RewindDone
           \/ StartupBackfill /\ BackfillDue
           \/ MainEnter /\ lastPassFailed
    PROVE  PathInv'
<1>1. db \in Contents /\ height \in Heights /\ Heights \subseteq Nat
  BY PathTypes
<1>2. CASE StartupRead
  <2>1. UNCHANGED <<db, disk>> /\ pc' = "repair" /\ Newest(db, height')
    BY <1>2 DEF StartupRead, IsBlockHeight, Newest
  <2>2. Path(db)' /\ Path(disk)'
    BY <2>1 DEF PathInv, Path, Stored, Written, Newest, Follows
  <2>3. BoundInv'
    BY <2>1 DEF BoundInv, Bounded, Newest, Stored
  <2> QED BY <2>1, <2>2, <2>3 DEF PathInv, HandInv, OnBlock, InRound
<1>3. CASE StartupRepair
  <2>1. Write(ClearAbove(db, height)) /\ height' = height /\ pc' = "backfill"
    BY <1>3 DEF StartupRepair, ClearBlocksAboveHeight
  <2> QED BY <1>1, <2>1, ClearedPath
<1>4. CASE StartupBackfill /\ BackfillDue
  <2>1. DDHeight - 1 \in Heights
    BY <1>1, <1>4, DatabaseAssumption DEF BackfillDue, Heights
  <2>2. Write(ClearAbove(db, DDHeight - 1)) /\ height' = DDHeight - 1 /\ pc' \in {"startup", "mark"}
    BY <1>4 DEF StartupBackfill, ClearBlocksAboveHeight
  <2> QED BY <1>1, <2>1, <2>2, ClearedPath
<1>5. CASE MainEnter /\ lastPassFailed
  <2>1. PICK h \in Heights : Write(ClearAbove(db, h)) /\ height' = h /\ pc' = "fork"
    BY <1>5 DEF MainEnter, RecoverAt, ClearBlocksAboveHeight
  <2> QED BY <1>1, <2>1, ClearedPath
<1>6. CASE RewindDone
  <2>1. Write(ClearAbove(db, height)) /\ height' = height /\ pc' = "open"
    BY <1>6 DEF RewindDone, ClearBlocksAboveHeight
  <2> QED BY <1>1, <2>1, ClearedPath
<1> QED BY <1>2, <1>3, <1>4, <1>5, <1>6

\* Outside startup and the passes of mainFunction() nothing is held against the database.
LEMMA OutsidePath ==
    ASSUME Path(db'), Path(disk'),
           pc' \in {"off", "startup", "rewind"} \/ (pc' = "main" /\ lastPassFailed')
    PROVE  PathInv'
<1>1. Path(db)' /\ Path(disk)'
  BY DEF Path, Stored, Written, Newest, Follows
<1>2. BoundInv' /\ HandInv'
  BY DEF BoundInv, Bounded, HandInv, OnBlock, InRound
<1> QED BY <1>1, <1>2 DEF PathInv

\* A pass that fails, the end of the process, and a turn of the rewind loop.
LEMMA DroppedPath ==
    ASSUME PathInv, RewindStep \/ Throw \/ CoreBehind \/ Crash \/ Shutdown
    PROVE  PathInv'
<1>1. CASE RewindStep
  BY <1>1, OutsidePath DEF RewindStep, PathInv
<1>2. CASE Throw \/ CoreBehind
  <2>1. Abandon
    BY <1>2 DEF Throw, CoreBehind
  <2> QED BY <2>1, OutsidePath DEF Abandon, Catch, AbortTransaction, PathInv
<1>3. CASE Crash \/ Shutdown
  BY <1>3, OutsidePath DEF Crash, Shutdown, ProcessEnd, PathInv
<1> QED BY <1>1, <1>2, <1>3

\* restart(): the thread is on block 1, and nothing is written.
LEMMA RestartPath ==
    ASSUME IndexInv, PathInv, RewindRestart
    PROVE  PathInv'
<1>1. db \in Contents
  BY PathTypes
<1>2. CASE transactionDepth # 0
  BY <1>2, OutsidePath DEF RewindRestart, Catch, AbortTransaction, PathInv
<1>3. CASE transactionDepth = 0
  <2> DEFINE u == Reset(db)
  <2>1. Path(u) /\ Written(u) = {} /\ Newest(u, 1)
    BY <1>1, PathReset DEF PathInv
  <2>2. db' = u /\ disk' = u /\ height' = 1 /\ pc' = "open"
    BY <1>3 DEF RewindRestart, Write
  <2> HIDE DEF u
  <2>3. Path(db)' /\ Path(disk)'
    BY <2>1, <2>2 DEF Path, Stored, Written, Newest, Follows
  <2>4. BoundInv'
    BY <2>1, <2>2 DEF BoundInv, Newest, Stored, Written
  <2> QED BY <2>2, <2>3, <2>4 DEF PathInv, HandInv, OnBlock, InRound
<1> QED BY <1>2, <1>3

\* phaseSync() opens on the newest header, which continues the one below: then all that is
\* written is on the chain of that header.
LEMMA OpenPath ==
    ASSUME IndexInv, PathInv, Resumes, OpenHash
    PROVE  PathInv'
<1>1. /\ pc = "open" /\ pc' = "openBlock"
      /\ UNCHANGED <<db, disk, height, nextHash, lastPassFailed>>
  BY DEF OpenHash
<1>2. height \in Stored(db) /\ db.blocks[height] = nextHash /\ Follows(db, height)
  BY <1>1 DEF Resumes
<1>3. Newest(db, height) /\ \A x \in Written(db) : Len(x) <= height
  BY <1>1 DEF PathInv, BoundInv, Bounded
<1>4. Len(nextHash) = height /\ \A x \in Written(db) : Ancestor(x, nextHash)
  BY <1>2, <1>3 DEF PathInv, Path
<1>5. Path(db)' /\ Path(disk)'
  BY <1>1 DEF PathInv, Path, Stored, Written, Newest, Follows
<1>6. BoundInv'
  BY <1>1, <1>3 DEF BoundInv, Newest, Stored, Written
<1>7. HandInv'
  BY <1>1, <1>2, <1>4 DEF HandInv, OnBlock, InRound, Stored, Written
<1> QED BY <1>5, <1>6, <1>7 DEF PathInv

\* The block in hand: the newest header, which everything written is below.
LEMMA BlockInHand ==
    ASSUME IndexInv, PathInv, pc \in InRound
    PROVE  /\ hash \in Block /\ hash = nextHash /\ Len(hash) = height /\ height \in Stored(db)
           /\ db.blocks[height] = hash /\ Newest(db, height)
           /\ \A x \in Written(db) : Ancestor(x, hash)
<1>1. hash = nextHash /\ hash \in Block
  BY PathTypes DEF PathInv, HandInv
<1>2. /\ Len(nextHash) = height /\ \A x \in Written(db) : Ancestor(x, nextHash)
      /\ height \in Stored(db) /\ db.blocks[height] = nextHash
  BY <1>1 DEF PathInv, HandInv, InRound, OnBlock
<1>3. Newest(db, height)
  BY DEF PathInv, BoundInv, Bounded, InRound, OnBlock
<1> QED BY <1>1, <1>2, <1>3

\* A write about the block in hand.
LEMMA RoundPath ==
    ASSUME IndexInv, PathInv, pc \in InRound, NEW u \in Contents, db' = u, disk' \in {u, disk},
           Written(u) \subseteq Written(db) \cup {hash},
           \A k \in Stored(u) : k \in Stored(db) /\ u.blocks[k] = db.blocks[k],
           height \in Stored(u), pc' \in InRound,
           UNCHANGED <<height, nextHash, hash, next, lastPassFailed>>
    PROVE  PathInv'
<1>1. /\ hash \in Block /\ hash = nextHash /\ Len(hash) = height /\ height \in Stored(db)
      /\ db.blocks[height] = hash /\ Newest(db, height)
      /\ \A x \in Written(db) : Ancestor(x, hash)
  BY BlockInHand
<1>2. db \in Contents
  BY PathTypes
<1>3. Path(u) /\ \A x \in Written(u) : Ancestor(x, hash)
  BY <1>1, <1>2, PathOnTop DEF PathInv
<1>4. Newest(u, height)
  BY <1>1 DEF Newest
<1>5. \A x \in Written(u) : Len(x) <= height
  BY <1>1, <1>3 DEF Ancestor
<1>6. Path(db)' /\ Path(disk)'
  BY <1>3 DEF PathInv, Path, Stored, Written, Newest, Follows
<1>7. BoundInv'
  BY <1>4, <1>5 DEF BoundInv, InRound, OnBlock, Newest, Stored, Written
<1>8. next # NoHash => Parent(next) = hash
  BY DEF PathInv, HandInv, InRound, OnBlock
<1>9. u.blocks[height] = nextHash
  BY <1>1
<1>10. HandInv'
  <2>1. pc' \notin {"loop", "openBlock", "open", "fetch", "insert"} /\ pc' \in OnBlock
    BY DEF InRound, OnBlock
  <2>2. Stored(db)' = Stored(u) /\ Written(db)' = Written(u)
    BY DEF Stored, Written
  <2> QED BY <1>1, <1>3, <1>8, <1>9, <2>1, <2>2 DEF HandInv
<1> QED BY <1>6, <1>7, <1>10 DEF PathInv

\* captureOracleCommitment() and processTX() write about the block in hand.
LEMMA IndexPath ==
    ASSUME IndexInv, IndexInv', PathInv, CaptureOracle \/ ProcessBlock
    PROVE  PathInv'
<1> DEFINE u == db'
<1>1. db \in Contents /\ db' \in Contents /\ hash \in Block
  BY PathTypes DEF IndexInv, TypeOK, StoreTypeOK
<1>2. /\ pc \in InRound /\ pc' \in InRound
      /\ UNCHANGED <<height, nextHash, hash, next, lastPassFailed>>
  BY DEF CaptureOracle, ProcessBlock, InRound, OnBlock
<1>3. disk' \in {db', disk} /\ db'.blocks = db.blocks /\ Written(db') \subseteq Written(db) \cup {hash}
  <2>1. CASE CaptureOracle
    <3>1. db' \in {db, AddDigiDollarRate(db, hash)} /\ disk' \in {db', disk}
      BY <2>1 DEF CaptureOracle, Write
    <3>2. /\ AddDigiDollarRate(db, hash).blocks = db.blocks
          /\ AddDigiDollarRate(db, hash).rows = db.rows
          /\ AddDigiDollarRate(db, hash).oracle \subseteq db.oracle \cup {hash}
      BY <1>1 DEF AddDigiDollarRate, Contents
    <3> QED BY <3>1, <3>2 DEF Written
  <2>2. CASE ProcessBlock
    <3>1. db' \in {db, [db EXCEPT !.rows = db.rows \cup {hash}]} /\ disk' = disk
      BY <2>2 DEF ProcessBlock
    <3> QED BY <1>1, <3>1 DEF Written, Contents
  <2> QED BY <2>1, <2>2
<1>4. height \in Stored(db)
  BY <1>2, BlockInHand
<1>5. Stored(u) = Stored(db)
  BY <1>3 DEF Stored
<1> QED BY <1>1, <1>2, <1>3, <1>4, <1>5, RoundPath

\* removeNonReachable() never drops the header of the block in hand.
LEMMA PrunePath ==
    ASSUME IndexInv, IndexInv', PathInv, PruneStatement
    PROVE  PathInv'
<1> DEFINE table == PruneProgram[pruneStep][1]
           h     == PruneHeight(table)
           u     == db'
<1>1. /\ pc = "prune" /\ pc' \in {"prune", "tip"}
      /\ UNCHANGED <<height, nextHash, hash, next, lastPassFailed>>
  BY DEF PruneStatement
<1>2. \/ Write(PruneRows(db, table, h))
      \/ Write(RemoveNonReachable(db, h))
      \/ Write(KeepSummary(db, table))
      \/ UNCHANGED <<db, disk>>
      \/ Write(SetFlag(db, flagState, "wasPrunedUTXOHistory", h))
  BY DEF PruneStatement, SetFlagInt
<1>3. db \in Contents /\ db' \in Contents /\ height \in Heights /\ Heights \subseteq Nat \ {0}
  BY PathTypes DEF IndexInv, TypeOK, StoreTypeOK
<1>4. h <= height /\ h \in Nat
  <2>1. PruneMax(height) <= height /\ PruneMax(height) \in Nat
    BY <1>3, AnalyzerAssumption DEF PruneMax
  <2> QED BY <1>3, <2>1, AnalyzerAssumption DEF PruneHeight
<1> HIDE DEF table, h
<1>5. disk' \in {u, disk}
  BY <1>2 DEF Write
<1>6. Written(db') = Written(db) /\ (db'.blocks = db.blocks \/ db' = RemoveNonReachable(db, h))
  <2>1. ASSUME NEW v \in {PruneRows(db, table, h), KeepSummary(db, table), db,
                          SetFlag(db, flagState, "wasPrunedUTXOHistory", h)}
        PROVE  v.blocks = db.blocks /\ v.rows = db.rows /\ v.oracle = db.oracle
    BY <1>3 DEF PruneRows, KeepSummary, SetFlag, Contents
  <2>2. /\ RemoveNonReachable(db, h).rows = db.rows
        /\ RemoveNonReachable(db, h).oracle = db.oracle
    BY <1>3 DEF RemoveNonReachable, Contents
  <2> QED BY <1>2, <2>1, <2>2 DEF Write, Written
<1>7. height \in Stored(db)
  BY <1>1, BlockInHand DEF InRound, OnBlock
<1>8. /\ \A k \in Stored(u) : k \in Stored(db) /\ u.blocks[k] = db.blocks[k]
      /\ height \in Stored(u)
  <2>1. CASE db'.blocks = db.blocks
    BY <1>7, <2>1 DEF Stored
  <2>2. CASE db' = RemoveNonReachable(db, h)
    <3>1. db'.blocks = [k \in Heights |-> IF k < h THEN NoHash ELSE db.blocks[k]]
      BY <1>3, <2>2 DEF RemoveNonReachable, Contents
    <3>2. \A k \in Heights : db'.blocks[k] = IF k < h THEN NoHash ELSE db.blocks[k]
      BY <3>1
    <3>3. ~(height < h)
      BY <1>3, <1>4
    <3> QED BY <1>3, <1>7, <3>2, <3>3 DEF Stored
  <2> QED BY <1>6, <2>1, <2>2
<1>9. pc \in InRound /\ pc' \in InRound
  BY <1>1 DEF InRound, OnBlock
<1> QED BY <1>1, <1>3, <1>5, <1>6, <1>8, <1>9, RoundPath

\* The thread moves on to a child of the block in hand.
LEMMA AdvancePath ==
    ASSUME IndexInv, IndexInv', PathInv, Advance
    PROVE  PathInv'
<1>1. /\ pc = "tip" /\ next # NoHash /\ nextHash' = next /\ height' = height + 1 /\ pc' = "fetch"
  BY DEF Advance
<1>2. /\ hash \in Block /\ hash = nextHash /\ Len(hash) = height /\ height \in Stored(db)
      /\ db.blocks[height] = hash /\ Newest(db, height)
      /\ \A x \in Written(db) : Ancestor(x, hash)
  BY <1>1, BlockInHand DEF InRound, OnBlock
<1>3. Parent(next) = hash /\ Len(next) = height + 1
  BY <1>1 DEF PathInv, HandInv, OnBlock, IndexInv, PlaceInv, HasBlock
<1>4. db \in Contents /\ next \in Block /\ height \in Nat
  BY PathTypes
<1>5. SameIndex(db, db') /\ (SameIndex(db, disk') \/ SameIndex(disk, disk'))
  <2>1. \A f, v : SameIndex(db, SetFlag(db, flagState, f, v))
    BY <1>4 DEF SameIndex, SetFlag, Contents
  <2> QED BY <2>1 DEF SameIndex, Advance, SetFlagInt, Write
<1>6. /\ Path(db') /\ Stored(db') = Stored(db) /\ Written(db') = Written(db)
      /\ db'.blocks = db.blocks /\ Path(disk')
  BY <1>5, PathSame DEF PathInv, SameIndex
<1>7. Path(db)' /\ Path(disk)' /\ Stored(db)' = Stored(db) /\ Written(db)' = Written(db)
  BY <1>6 DEF Path, Stored, Written, Newest, Follows
<1>8. \A x \in Written(db) : Ancestor(x, next) /\ Len(x) <= height /\ Len(x) \in Nat
  <2>1. \A x \in Written(db) : x \in Block /\ Len(x) \in Nat
    BY <1>4, WrittenBlocks
  <2>2. \A a \in Block : Ancestor(a, Parent(next)) => Ancestor(a, next)
    BY <1>3, <1>4, ParentProps
  <2> QED BY <1>2, <1>3, <2>1, <2>2 DEF Ancestor
<1>9. \A k \in Stored(db) : k <= height /\ k <= height + 1
  BY <1>2, <1>4, WrittenBlocks DEF Newest
<1>10. BoundInv'
  <2>1. \A x \in Written(db) : Len(x) <= height + 1
    BY <1>4, <1>8
  <2> QED BY <1>1, <1>7, <1>9, <2>1 DEF BoundInv, Newest
<1>11. HandInv'
  <2>1. height + 1 - 1 = height /\ \A x \in Written(db) : Len(x) < height + 1
    BY <1>4, <1>8
  <2>2. Newest(db, height - 1)'
    <3>1. height' - 1 = height
      BY <1>1, <1>4
    <3>2. \A k \in Stored(db)' : k <= height' - 1
      BY <1>7, <1>9, <3>1
    <3> QED BY <3>2 DEF Newest
  <2>3. height' - 1 \in Stored(db)' /\ db'.blocks[height' - 1] = Parent(nextHash')
    BY <1>1, <1>2, <1>3, <1>6, <1>7, <2>1
  <2> QED BY <1>1, <1>3, <1>7, <1>8, <2>1, <2>2, <2>3 DEF HandInv, OnBlock, InRound
<1> QED BY <1>7, <1>10, <1>11 DEF PathInv

\* The header is stored before its hash is compared: it may be a stray one.
LEMMA InsertPath ==
    ASSUME IndexInv, PathInv, InsertHeader
    PROVE  PathInv'
<1>1. /\ pc = "insert" /\ pc' = "loop" /\ db' = InsertBlock(db, hash) /\ disk' \in {db', disk}
      /\ next' = CoreNext(hash) /\ UNCHANGED <<height, nextHash, hash>>
  BY DEF InsertHeader, FetchBlock
<1>2. /\ db \in Contents /\ hash \in Block /\ nextHash \in Block /\ height \in Heights
      /\ Len(hash) = height /\ height \in Nat \ {0} /\ tip \in Block /\ Len(tip) \in Heights
  BY <1>1, PathTypes DEF HasBlock
<1>3. /\ Len(nextHash) = height /\ \A x \in Written(db) : Ancestor(x, nextHash) /\ Len(x) < height
      /\ height - 1 \in Stored(db) /\ Newest(db, height - 1)
      /\ db.blocks[height - 1] = Parent(nextHash)
  BY <1>1 DEF PathInv, HandInv
<1>4. \A x \in Written(db) : Ancestor(x, Parent(nextHash)) /\ x \in Block /\ Len(x) \in Nat
  BY <1>2, <1>3, ParentProps, WrittenBlocks
<1> DEFINE u == InsertBlock(db, hash)
<1>5. /\ Path(u) /\ Newest(u, height) /\ Written(u) = Written(db)
      /\ height \in Stored(u) /\ u.blocks[height] = hash
  BY <1>2, <1>3, <1>4, PathInsert DEF PathInv
<1>6. next' # NoHash => Parent(next') = hash
  BY <1>1, <1>2, NextIsChild
<1>7. db' = u
  BY <1>1
<1> HIDE DEF u
<1>8. Path(db)' /\ Path(disk)'
  BY <1>1, <1>5, <1>7 DEF PathInv, Path, Stored, Written, Newest, Follows
<1>9. Stored(db)' = Stored(u) /\ Written(db)' = Written(db)
  BY <1>5, <1>7 DEF Stored, Written
<1>10. BoundInv'
  <2>1. \A x \in Written(db) : Len(x) <= height
    BY <1>2, <1>3, <1>4
  <2> QED BY <1>1, <1>5, <1>9, <2>1 DEF BoundInv, Newest
<1>11. HandInv'
  BY <1>1, <1>3, <1>5, <1>6, <1>7, <1>9 DEF HandInv, OnBlock, InRound
<1> QED BY <1>8, <1>10, <1>11 DEF PathInv

LEMMA PathInit == ASSUME Init PROVE PathInv
<1>1. db = FreshDatabase(Block1) /\ disk = db /\ pc = "off"
  BY DEF Init
<1>2. Written(db) = {} /\ db.blocks = [h \in Heights |-> IF h = 1 THEN Block1 ELSE NoHash]
  BY <1>1 DEF FreshDatabase, Written
<1>3. \A k \in Stored(db) : k = 1 /\ db.blocks[k] = Block1
  BY <1>2 DEF Stored
<1>4. Len(Block1) = 1
  BY AnalyzerAssumption DEF Block1
<1>5. Path(db)
  BY <1>2, <1>3, <1>4 DEF Path
<1>6. BoundInv /\ HandInv
  BY <1>1 DEF BoundInv, Bounded, HandInv, OnBlock, InRound
<1> QED BY <1>1, <1>5, <1>6 DEF PathInv

\* One step of anyone, on a node that no masked fork and no failed repair misleads.
LEMMA PathStep ==
    ASSUME IndexInv, IndexInv', PathInv, Unmasked, Unmasked', [Next]_vars
    PROVE  PathInv'
<1>1. Resumes /\ clearFails = 0 /\ clearFails' = 0
  BY DEF Unmasked
<1>2. CASE Startup \/ MainEnter
  <2>1. CASE StartupRead \/ StartupRepair
    BY <1>1, <2>1, RepairPath
  <2>2. CASE StartupMark
    BY <2>2, FlagPath
  <2>3. CASE StartupBackfill
    BY <1>1, <2>3, RepairPath, FlagPath
  <2>4. CASE MainEnter
    BY <1>1, <2>4, RepairPath, MovePath
  <2> QED BY <1>2, <2>1, <2>2, <2>3, <2>4 DEF Startup
<1>3. CASE Rewind
  BY <1>1, <1>3, MovePath, DroppedPath, RepairPath, RestartPath DEF Rewind
<1>4. CASE Sync
  BY <1>1, <1>4, OpenPath, MovePath, IndexPath, PrunePath, AdvancePath, InsertPath DEF Sync
<1>5. CASE Retry \/ CoreBehind \/ Shutdown
  BY <1>5, StillPath, DroppedPath
<1>6. CASE Environment
  BY <1>6, StillPath, FlagPath, DroppedPath, MovePath DEF Environment
<1>7. CASE UNCHANGED vars
  BY <1>7, StillPath
<1> QED BY <1>2, <1>3, <1>4, <1>5, <1>6, <1>7 DEF Next, Analyzer

LEMMA PathInvariance == Spec /\ []Unmasked => [](IndexInv /\ PathInv)
<1>1. Init => PathInv
  BY PathInit
<1>2. IndexInv /\ IndexInv' /\ Unmasked /\ Unmasked' /\ PathInv /\ [Next]_vars => PathInv'
  BY PathStep
<1> QED BY <1>1, <1>2, IndexInvariance, PTL DEF Spec

\* No row and no price of an orphaned block survives beside those of the branch that replaced
\* it, for any number of forks of any depth, errors, kills and restarts, with or without
\* pruning and header batches, on a node that always goes on from a header that it has stored
\* and that continues the header below, and whose repairs succeed (phaseRewind,
\* clearBlocksAboveHeight, phaseSync).
THEOREM IndexIsOnePath == Spec /\ []Unmasked => []OnePath
<1>1. PathInv => OnePath
  BY DEF PathInv, Path, OnePath, Written, Ancestor
<1> QED BY <1>1, PathInvariance, PTL

-----------------------------------------------------------------------------
(* The refinement.  The newest row stands for the whole index, since the index is one path. *)

\* The newest block of a set of rows.
TipOf(R) == IF R = {} THEN NoHash ELSE CHOOSE b \in R : \A c \in R : Len(c) <= Len(b)

Line(R) == /\ R \subseteq Block /\ \A x \in R : Len(x) <= MaxHeight
           /\ \A x, y \in R : Len(x) <= Len(y) => Ancestor(x, y)

\* What is on disk is in the database, and the rows of a chain are as high as the chain.
RowInv == disk.rows \subseteq db.rows /\ \A x \in db.rows : Len(x) <= MaxHeight

\* A least number of a set.
LEMMA LeastOf ==
    ASSUME NEW T \in SUBSET Nat, T # {}
    PROVE  \E t \in T : \A u \in T : t <= u
<1>1. PICK t \in T : \A u \in T : ~(<<u, t>> \in OpToRel(<, Nat))
  BY NatLessThanWellFounded, WFMin
<1>2. ASSUME NEW u \in T
      PROVE  t <= u
  <2>1. u < t => <<u, t>> \in OpToRel(<, Nat)
    BY DEF OpToRel
  <2>2. ~(u < t)
    BY <1>1, <2>1, Zenon
  <2> QED BY <2>2
<1> QED BY <1>2

\* A newest row exists, and is one of the rows.
LEMMA TipProps ==
    ASSUME NEW R, Line(R), R # {}
    PROVE  TipOf(R) \in R /\ \A c \in R : Len(c) <= Len(TipOf(R))
<1> DEFINE T == {MaxHeight - Len(x) : x \in R}
<1>1. MaxHeight \in Nat /\ \A x \in R : x \in Block /\ Len(x) \in Nat /\ Len(x) <= MaxHeight
  BY DatabaseAssumption, LenProperties DEF Line, Block
<1>2. T \in SUBSET Nat /\ T # {}
  BY <1>1
<1>3. PICK t \in T : \A u \in T : t <= u
  BY <1>2, LeastOf
<1>4. PICK b \in R : t = MaxHeight - Len(b)
  BY <1>3
<1>5. \A c \in R : Len(c) <= Len(b)
  <2> SUFFICES ASSUME NEW c \in R PROVE Len(c) <= Len(b)
    OBVIOUS
  <2>1. MaxHeight - Len(b) <= MaxHeight - Len(c)
    BY <1>3, <1>4
  <2> QED BY <1>1, <2>1
<1> QED BY <1>5 DEF TipOf

\* Whatever rows are dropped, the newest one left is below the one before.
LEMMA TipDrops ==
    ASSUME NEW R, NEW S, Line(R), S \subseteq R
    PROVE  TipOf(S) = TipOf(R) \/ \E n \in 0..(Len(TipOf(R)) - 1) : TipOf(S) = SubSeq(TipOf(R), 1, n)
<1> DEFINE r == TipOf(R)
           s == TipOf(S)
<1>1. CASE R = {}
  BY <1>1
<1>2. CASE R # {}
  <2>1. r \in R /\ r \in Block /\ Len(r) \in Nat
    BY <1>2, TipProps, LenProperties DEF Line, Block
  <2>2. CASE S = {}
    <3>1. s = <<>>
      BY <2>2 DEF TipOf, NoHash
    <3>2. SubSeq(r, 1, 0) \in Block /\ Len(SubSeq(r, 1, 0)) = 0
      BY <2>1, ChainPrefix
    <3>3. SubSeq(r, 1, 0) = <<>>
      BY <3>2, EmptySeq DEF Block
    <3>4. Len(r) = 0 => r = <<>>
      BY <2>1, EmptySeq DEF Block
    <3> HIDE DEF r, s
    <3>5. s = r \/ \E n \in 0..(Len(r) - 1) : s = SubSeq(r, 1, n)
      BY <2>1, <3>1, <3>3, <3>4
    <3> QED BY <3>5 DEF r, s
  <2>3. CASE S # {}
    <3>1. Line(S)
      BY DEF Line
    <3>2. s \in S /\ s \in R /\ s \in Block /\ Len(s) \in Nat /\ Len(s) <= Len(r)
      BY <1>2, <2>3, <3>1, TipProps, LenProperties DEF Line, Block
    <3>3. Ancestor(s, r)
      BY <2>1, <3>2 DEF Line
    <3>4. Len(s) = Len(r) => s = r
      BY <2>1, <3>2, <3>3, AncestorSelf, AncestorsLinear
    <3> HIDE DEF r, s
    <3>5. s = r \/ \E n \in 0..(Len(r) - 1) : s = SubSeq(r, 1, n)
      <4>1. CASE Len(s) = Len(r)
        BY <3>4, <4>1
      <4>2. CASE Len(s) # Len(r)
        <5>1. Len(s) \in 0..(Len(r) - 1) /\ s = SubSeq(r, 1, Len(s))
          BY <2>1, <3>2, <3>3, <4>2 DEF Ancestor
        <5> QED BY <5>1
      <4> QED BY <4>1, <4>2
    <3> QED BY <3>5 DEF r, s
  <2> QED BY <2>2, <2>3
<1> QED BY <1>1, <1>2

\* A block is its parent and one branch label more.
LEMMA ParentAppended ==
    ASSUME NEW c \in Block, Len(c) > 0
    PROVE  \E l \in Branch : c = Append(Parent(c), l)
<1> DEFINE p == Parent(c)
           l == c[Len(c)]
<1>1. c \in Seq(Branch) /\ Len(c) \in Nat /\ Len(c) \in 1..Len(c)
  BY LenProperties DEF Block
<1>2. l \in Branch
  BY <1>1, ElementOfSeq
<1>3. p \in Seq(Branch) /\ Len(p) = Len(c) - 1 /\ \A i \in 1..(Len(c) - 1) : p[i] = c[i]
  <2>1. Len(c) - 1 \in 0..Len(c)
    BY <1>1
  <2> QED BY <2>1, ChainPrefix DEF Parent, Block
<1> DEFINE d == Append(p, l)
<1>4. /\ d \in Seq(Branch) /\ Len(d) = Len(p) + 1
      /\ \A i \in 1..Len(p) : d[i] = p[i]
      /\ d[Len(p) + 1] = l
  <2> HIDE DEF p, l
  <2> QED BY <1>2, <1>3, AppendProperties
<1> HIDE DEF d, p
<1>5. Len(d) = Len(c) /\ \A i \in 1..Len(c) : d[i] = c[i]
  BY <1>1, <1>3, <1>4
<1>6. d = c
  BY <1>1, <1>4, <1>5, SeqEqual
<1> QED BY <1>2, <1>6 DEF d, p

\* Only processTX() adds a row.
LEMMA RowsChange ==
    ASSUME IndexInv, [Next]_vars
    PROVE  db'.rows \subseteq db.rows \/ db' = disk \/ (pc = "process" /\ db'.rows = db.rows \cup {hash})
<1>1. db \in Contents /\ hash \in Block
  BY PathTypes
<1>2. \A h : ClearAbove(db, h).rows \subseteq db.rows /\ Reset(db).rows \subseteq db.rows
  BY <1>1 DEF ClearAbove, Reset, Contents
<1>3. \A f, v : SetFlag(db, flagState, f, v).rows = db.rows
  BY <1>1 DEF SetFlag, Contents
<1>4. CASE Startup \/ MainEnter \/ Retry
  BY <1>2, <1>3, <1>4 DEF Startup, StartupRead, StartupRepair, StartupBackfill, StartupMark, MainEnter,
     RecoverAt, Retry, ClearBlocksAboveHeight, SetFlagInt, Write, vars
<1>5. CASE Rewind
  BY <1>2, <1>5 DEF Rewind, CheckFork, RewindStep, RewindDone, RewindRestart, Catch, AbortTransaction,
     ClearBlocksAboveHeight, Write
<1>6. CASE CoreBehind \/ Throw
  <2>1. Abandon
    BY <1>6 DEF CoreBehind, Throw
  <2> QED BY <2>1 DEF Abandon, Catch, AbortTransaction
<1>7. CASE Shutdown \/ Crash
  BY <1>7 DEF Shutdown, Crash, ProcessEnd
<1>8. CASE CoreExtend \/ CoreReorg \/ ProcessStart \/ RequestStop \/ CaptureFails \/ UNCHANGED vars
  BY <1>3, <1>8 DEF CoreExtend, CoreReorg, ProcessStart, RequestStop, CaptureFails, SetFlagInt, Write, vars
<1>9. CASE Sync
  <2>1. CASE CaptureOracle
    <3>1. AddDigiDollarRate(db, hash).rows = db.rows
      BY <1>1 DEF AddDigiDollarRate, Contents
    <3> QED BY <2>1, <3>1 DEF CaptureOracle, Write
  <2>2. CASE ProcessBlock
    <3>1. pc = "process" /\ (db' = db \/ db' = [db EXCEPT !.rows = db.rows \cup {hash}])
      BY <2>2 DEF ProcessBlock
    <3> QED BY <1>1, <3>1 DEF Contents
  <2>3. CASE PruneStatement
    <3>1. \A t, h : /\ PruneRows(db, t, h).rows = db.rows /\ RemoveNonReachable(db, h).rows = db.rows
                    /\ KeepSummary(db, t).rows = db.rows
      BY <1>1 DEF PruneRows, RemoveNonReachable, KeepSummary, Contents
    <3> QED BY <1>3, <2>3, <3>1 DEF PruneStatement, SetFlagInt, Write
  <2>4. CASE Advance
    BY <1>3, <2>4 DEF Advance, SetFlagInt, Write
  <2>5. CASE InsertHeader
    <3>1. InsertBlock(db, hash).rows = db.rows
      BY <1>1 DEF InsertBlock, Contents
    <3> QED BY <2>5, <3>1 DEF InsertHeader
  <2>6. CASE OpenHash \/ OpenBlock \/ LoopEnter \/ LoopExit \/ CommitBlock \/ BlockDone
    BY <2>6 DEF OpenHash, OpenBlock, LoopEnter, LoopExit, CommitBlock, BlockDone
  <2>7. CASE TipWait \/ TipStop \/ TipPoll \/ TipRefresh \/ FetchHash
    BY <2>7 DEF TipWait, TipStop, TipPoll, TipRefresh, FetchHash
  <2> QED BY <1>9, <2>1, <2>2, <2>3, <2>4, <2>5, <2>6, <2>7 DEF Sync
<1> QED BY <1>4, <1>5, <1>6, <1>7, <1>8, <1>9 DEF Next, Analyzer, Environment

\* The disk is behind only while a block's rows are being written.
LEMMA RowStep ==
    ASSUME IndexInv, IndexInv', DepthInv, DepthInv', RowInv, [Next]_vars
    PROVE  RowInv'
<1>1. pc # "commit" => disk = db
  BY DEF DepthInv, IndexInv, Committed
<1>2. disk'.rows \subseteq db'.rows
  <2>1. CASE pc' # "commit"
    BY <2>1 DEF DepthInv, IndexInv, Committed
  <2>2. CASE pc' = "commit" /\ pc # "commit"
    <3>1. ProcessBlock
      BY <2>2 DEF Next, Analyzer, Environment, Startup, Rewind, Sync, StartupRead, StartupRepair,
         StartupBackfill, StartupMark, MainEnter, RecoverAt, Retry, CheckFork, RewindStep, RewindDone,
         RewindRestart, Catch, OpenHash, OpenBlock, LoopEnter, LoopExit, CaptureOracle, CommitBlock,
         BlockDone, PruneStatement, TipWait, TipStop, TipPoll, TipRefresh, Advance, FetchHash,
         InsertHeader, CoreBehind, Shutdown, Throw, Abandon, Crash, ProcessEnd, CoreExtend, CoreReorg,
         ProcessStart, RequestStop, CaptureFails, vars
    <3>2. disk' = disk /\ db' \in {db, [db EXCEPT !.rows = db.rows \cup {hash}]}
      BY <3>1 DEF ProcessBlock
    <3>3. db.rows \subseteq db'.rows
      BY <3>2, PathTypes DEF Contents
    <3> QED BY <3>2, <3>3 DEF RowInv
  <2>3. CASE pc' = "commit" /\ pc = "commit"
    <3>1. UNCHANGED <<db, disk>>
      BY <2>3 DEF Next, Analyzer, Environment, Startup, Rewind, Sync, StartupRead, StartupRepair,
         StartupBackfill, StartupMark, MainEnter, RecoverAt, Retry, CheckFork, RewindStep, RewindDone,
         RewindRestart, Catch, OpenHash, OpenBlock, LoopEnter, LoopExit, CaptureOracle, CommitBlock,
         BlockDone, PruneStatement, TipWait, TipStop, TipPoll, TipRefresh, Advance, FetchHash,
         InsertHeader, CoreBehind, Shutdown, Throw, Abandon, Crash, ProcessEnd, CoreExtend, CoreReorg,
         ProcessStart, RequestStop, CaptureFails, ProcessBlock, vars
    <3> QED BY <3>1 DEF RowInv
  <2> QED BY <2>1, <2>2, <2>3
<1>3. \A x \in db'.rows : Len(x) <= MaxHeight
  <2>1. pc = "process" => Len(hash) <= MaxHeight
    BY PathTypes DEF HasBlock, Heights
  <2> QED BY <2>1, RowsChange DEF RowInv
<1> QED BY <1>2, <1>3 DEF RowInv

\* The block in hand extends the newest row by one block.
LEMMA BlockExtends ==
    ASSUME StoreNonAsset, IndexInv, PathInv, RowInv, pc = "process", hash \notin db.rows
    PROVE  TipOf(db.rows) = Parent(hash) /\ TipOf(db.rows \cup {hash}) = hash
<1> DEFINE R == db.rows
           r == TipOf(R)
           S == R \cup {hash}
           s == TipOf(S)
<1>1. /\ hash \in Block /\ Len(hash) = height /\ height \in Nat \ {0}
      /\ R \subseteq Block /\ \A x \in R : Ancestor(x, hash)
  BY BlockInHand, PathTypes DEF InRound, OnBlock, Written, Contents
<1>2. \A x \in Block : Len(x) \in Nat
  BY LenProperties DEF Block
<1>3. \A x \in R : Len(x) < height
  <2> SUFFICES ASSUME NEW x \in R PROVE Len(x) < height
    OBVIOUS
  <2>1. Len(x) <= Len(hash)
    BY <1>1 DEF Ancestor
  <2>2. Len(x) # Len(hash)
    BY <1>1, AncestorSelf, AncestorsLinear, <2>1
  <2> QED BY <1>1, <1>2, <2>1, <2>2
<1>4. Len(hash) <= MaxHeight
  BY <1>1, PathTypes DEF Heights
<1>5. Line(R) /\ Line(S)
  <2>1. \A x \in S : x \in Block /\ Ancestor(x, hash) /\ Len(x) <= MaxHeight
    BY <1>1, <1>4, AncestorSelf DEF RowInv
  <2>2. \A x, y \in S : Len(x) <= Len(y) => Ancestor(x, y)
    BY <1>1, <2>1, AncestorsLinear
  <2> QED BY <2>1, <2>2 DEF Line
<1>6. s = hash
  <2>1. s \in S /\ Len(hash) <= Len(s)
    BY <1>5, TipProps
  <2> QED BY <1>1, <1>2, <1>3, <2>1
<1>7. /\ Parent(hash) \in Block /\ Len(Parent(hash)) = height - 1 /\ Ancestor(Parent(hash), hash)
  BY <1>1, ParentProps
<1>8. CASE R = {}
  <2>1. height = 1
    <3>1. IndexedBelow(db, height) /\ height \in Heights
      BY PathTypes DEF IndexInv, PlaceInv, AtHeight
    <3>2. 1 \in Heights
      BY DatabaseAssumption DEF Heights
    <3>3. ~(1 < height)
      BY <1>8, <3>1, <3>2 DEF IndexedBelow, NeedsAssetProcessing
    <3> QED BY <1>1, <3>3
  <2>2. Parent(hash) = <<>>
    BY <1>7, <2>1, EmptySeq DEF Block
  <2>3. r = <<>>
    BY <1>8 DEF TipOf, NoHash
  <2> QED BY <1>6, <2>2, <2>3
<1>9. CASE R # {}
  <2>1. r \in R /\ \A c \in R : Len(c) <= Len(r)
    BY <1>5, <1>9, TipProps
  <2>2. Len(r) = height - 1
    <3>1. IndexedBelow(db, height) /\ height \in Heights
      BY PathTypes DEF IndexInv, PlaceInv, AtHeight
    <3>2. CASE height = 1
      <4>1. Len(r) < height /\ Len(r) \in Nat
        BY <1>1, <1>2, <1>3, <2>1
      <4> QED BY <3>2, <4>1
    <3>3. CASE height # 1
      <4>1. height - 1 \in Heights /\ height - 1 < height
        BY <1>1, <3>1, <3>3, DatabaseAssumption DEF Heights
      <4>2. PICK c \in R : Len(c) = height - 1
        BY <3>1, <4>1 DEF IndexedBelow, NeedsAssetProcessing
      <4>3. Len(r) < height /\ Len(r) \in Nat /\ height - 1 <= Len(r)
        BY <1>1, <1>2, <1>3, <2>1, <4>2
      <4> QED BY <1>1, <4>3
    <3> QED BY <3>2, <3>3
  <2>3. r \in Block /\ Ancestor(r, hash)
    BY <1>1, <2>1
  <2>4. Len(r) <= Len(Parent(hash))
    BY <1>1, <1>7, <2>2
  <2> HIDE DEF r
  <2>5. r = Parent(hash)
    BY <1>1, <1>7, <2>2, <2>3, <2>4, AncestorsLinear
  <2> QED BY <1>6, <2>5 DEF r
<1> QED BY <1>8, <1>9

\* Every step of the program is a step of the index, or none.
LEMMA IndexStep ==
    ASSUME StoreNonAsset, IndexInv, PathInv, RowInv, [Next]_vars
    PROVE  [Index!Next]_IndexTip
<1> DEFINE R == db.rows
           S == db'.rows
<1>1. IndexTip = TipOf(R) /\ IndexTip' = TipOf(S)
  BY DEF IndexTip, TipOf
<1>2. Line(R)
  BY PathTypes DEF PathInv, Path, Written, Line, RowInv, Contents
<1>3. CASE S \subseteq R
  <2>1. TipOf(S) = TipOf(R) \/ \E n \in 0..(Len(TipOf(R)) - 1) : TipOf(S) = SubSeq(TipOf(R), 1, n)
    BY <1>2, <1>3, TipDrops
  <2> HIDE DEF R, S
  <2> QED BY <1>1, <2>1 DEF Index!Next, Index!RollBack
<1>4. CASE pc = "process" /\ S = R \cup {hash} /\ hash \notin R
  <2>1. TipOf(R) = Parent(hash) /\ TipOf(S) = hash
    BY <1>4, BlockExtends
  <2>2. hash \in Block /\ Len(hash) > 0
    BY <1>4, PathTypes DEF HasBlock
  <2>3. \E l \in Branch : hash = Append(Parent(hash), l)
    BY <2>2, ParentAppended
  <2> HIDE DEF R, S
  <2> QED BY <1>1, <2>1, <2>3 DEF Index!Next, Index!Extend
<1> QED BY <1>3, <1>4, RowsChange DEF RowInv

\* The rows change only as an index of one chain may: each block processed is a child of the
\* newest one indexed, and a fork, a repair, a failed pass or a kill in the middle of a block
\* drops the newest blocks and nothing else, for any number of forks, errors and stops
\* (phaseSync, phaseRewind, clearBlocksAboveHeight, mainFunction's catch blocks).
THEOREM AnalyzerImplementsIndex ==
    ASSUME StoreNonAsset PROVE Spec /\ []Unmasked => ImplementsChainIndex
<1>1. Init => Index!Init /\ RowInv
  BY DEF Init, FreshDatabase, IndexTip, RowInv, Index!Init, NoHash
<1>2. IndexInv /\ IndexInv' /\ DepthInv /\ DepthInv' /\ RowInv /\ [Next]_vars => RowInv'
  BY RowStep
<1>3. IndexInv /\ PathInv /\ RowInv /\ [Next]_vars => [Index!Next]_IndexTip
  BY IndexStep
<1> QED BY <1>1, <1>2, <1>3, DepthInvariance, PathInvariance, PTL
        DEF Spec, ImplementsChainIndex, Index!Spec
=============================================================================
