--------------------------- MODULE ChainDatabase ---------------------------
(***************************************************************************)
(* The part of src/Database.cpp the chain analyzer depends on, as          *)
(* operators on one value: the contents of chain.db.                       *)
(*                                                                         *)
(* A block IS its chain: the sequence of branch labels from block 1 up to  *)
(* it.  Like a real block hash the sequence commits to every ancestor, so  *)
(* two blocks are equal exactly when their whole history is; its length is *)
(* its height.  The row effects of processing a block (utxos, assets, kyc, *)
(* votes, exchange rates, DigiDollar outputs and vaults, every table that  *)
(* clearBlocksAboveHeight covers) are one member of "rows".                *)
(***************************************************************************)
EXTENDS Integers, Sequences

CONSTANTS
    Branch,        \* labels of competing branches
    MaxHeight,     \* bound: highest block of any chain
    DDHeight,      \* DIGIDOLLAR_ACTIVATION_HEIGHT
    EpochLength    \* DIGIDOLLAR_ORACLE_EPOCH_LENGTH

ASSUME DatabaseAssumption ==
    /\ MaxHeight \in Nat \ {0}
    /\ DDHeight \in Nat \ {0, 1}
    /\ EpochLength \in Nat \ {0}

Heights == 1..MaxHeight
Block   == Seq(Branch)
NoHash  == <<>>

\* The tables phasePrune() prunes, and those that are summarised by it: the newest
\* exchange rate and the vote totals below the prune height are written back.
PruneTable   == {"exchange", "utxo", "vote"}
Summarised   == {"exchange", "vote"}

Epoch(h) == h \div EpochLength
Epochs   == {0} \cup {Epoch(h) : h \in Heights}

FlagName  == {"ddSyncHeight", "wasPrunedUTXOHistory"}
NotCached == -2
FlagValue == -1..MaxHeight \cup {DDHeight}

Contents ==
    [blocks  : [Heights -> Block],          \* blocks table: hash by height, NoHash if absent
     rows    : SUBSET Block,                \* blocks whose effects are in the data tables
     oracle  : SUBSET Block,                \* ddoracle: the block each epoch's price came from
     flags   : [FlagName -> FlagValue],     \* flags table
     from    : [PruneTable -> 0..MaxHeight],\* data below this height is pruned away
     summary : SUBSET Summarised]           \* tables whose pruned history is still summarised

\* The database the constructor creates: block 1 is there, nothing is indexed.
FreshDatabase(block1) ==
    [blocks  |-> [h \in Heights |-> IF h = 1 THEN block1 ELSE NoHash],
     rows    |-> {},
     oracle  |-> {},
     flags   |-> [f \in FlagName |-> IF f = "ddSyncHeight" THEN 0 ELSE -1],
     from    |-> [p \in PruneTable |-> 0],
     summary |-> Summarised]

-----------------------------------------------------------------------------
Stored(t) == {h \in Heights : t.blocks[h] # NoHash}

\* getBlockHash(): the stored hash, NoHash where the code throws exceptionDataPruned.
BlockHash(t, h) == IF h \in Heights THEN t.blocks[h] ELSE NoHash

\* getBlockHeight(): h is the newest block stored.  False for every h when the table is
\* empty, where the code throws exceptionFailedSelect.
IsBlockHeight(t, h) == h \in Stored(t) /\ \A k \in Stored(t) : k <= h

\* insertBlock(): INSERT OR REPLACE of the header.
InsertBlock(t, b) == [t EXCEPT !.blocks[Len(b)] = b]

\* clearBlocksAboveHeight(): data at and above h goes, headers above h go.
ClearAboveHeadersOnly(t, h) ==
    [t EXCEPT !.blocks = [k \in Heights |-> IF k > h THEN NoHash ELSE t.blocks[k]]]
ClearAboveKeepsOne(t, h) ==
    [t EXCEPT !.blocks = [k \in Heights |-> IF k > h + 1 THEN NoHash ELSE t.blocks[k]],
              !.rows   = {b \in t.rows : Len(b) < h},
              !.oracle = {b \in t.oracle : Len(b) < h}]
ClearAboveOneMore(t, h) ==
    [t EXCEPT !.blocks = [k \in Heights |-> IF k > h THEN NoHash ELSE t.blocks[k]],
              !.rows   = {b \in t.rows : Len(b) < h - 1},
              !.oracle = {b \in t.oracle : Len(b) < h - 1}]
ClearAbove(t, h) ==
    [t EXCEPT !.blocks = [k \in Heights |-> IF k > h THEN NoHash ELSE t.blocks[k]],
              !.rows   = {b \in t.rows : Len(b) < h},
              !.oracle = {b \in t.oracle : Len(b) < h}]

\* reset(): every history table is emptied and ddSyncHeight is zeroed in the table.  Block 1
\* is kept if it is still there; the wasPruned flags are not touched.
Reset(t) ==
    [blocks  |-> [k \in Heights |-> IF k > 1 THEN NoHash ELSE t.blocks[k]],
     rows    |-> {},
     oracle  |-> {},
     flags   |-> [t.flags EXCEPT !["ddSyncHeight"] = 0],
     from    |-> [p \in PruneTable |-> 0],
     summary |-> Summarised]

\* The table ddoracle has a row for the epoch.
HasPrice(t, e) == \E o \in t.oracle : Epoch(Len(o)) = e

\* addDigiDollarRate(): INSERT OR IGNORE keyed by the epoch.
AddDigiDollarRate(t, b) ==
    IF HasPrice(t, Epoch(Len(b)))
      THEN t
      ELSE [t EXCEPT !.oracle = @ \cup {b}]

\* getDigiDollarLastEpoch(): MAX(epoch), 0 for an empty table.
IsLastEpoch(t, e) ==
    LET known == {0} \cup {Epoch(Len(o)) : o \in t.oracle}
    IN  e \in known /\ \A k \in known : k <= e

\* The statements pruneExchange(), pruneUTXO() and pruneVote() are made of.
PruneRows(t, p, h) ==
    [t EXCEPT !.from[p] = IF h > @ THEN h ELSE @, !.summary = @ \ {p}]
RemoveNonReachableKeepsOne(t, h) ==
    [t EXCEPT !.blocks = [k \in Heights |-> IF k < h - 1 THEN NoHash ELSE t.blocks[k]]]
RemoveNonReachable(t, h) ==
    [t EXCEPT !.blocks = [k \in Heights |-> IF k < h THEN NoHash ELSE t.blocks[k]]]
KeepSummaryForgotten(t, p) == t
KeepSummary(t, p) ==
    [t EXCEPT !.summary = @ \cup ({p} \cap Summarised)]

\* getFlagInt() / setFlagInt(): the RAM copy wins, and a write of the value RAM already
\* holds never reaches the table.
FlagOf(t, cache, f)       == IF cache[f] # NotCached THEN cache[f] ELSE t.flags[f]
SetFlag(t, cache, f, v)   == IF FlagOf(t, cache, f) = v THEN t ELSE [t EXCEPT !.flags[f] = v]
CacheFlag(cache, f, v)    == [cache EXCEPT ![f] = v]

\* getFlagInt() keeps what it read from the table in RAM.
ReadFlags(t, cache, fs) ==
    [f \in FlagName |-> IF f \in fs THEN FlagOf(t, cache, f) ELSE cache[f]]
=============================================================================
