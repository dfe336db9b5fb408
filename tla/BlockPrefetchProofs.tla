-------------------------- MODULE BlockPrefetchProofs --------------------------
(***************************************************************************)
(* Proofs about the prefetch pipeline, for any depth of the queue, any     *)
(* chain Core may have or reorganise to, and any interleaving of producer, *)
(* analyzer, Core, failures, wakeups and a stop.                           *)
(***************************************************************************)
EXTENDS BlockPrefetch, SequenceTheorems, TLAPS

-----------------------------------------------------------------------------
(* The inductive invariant, in parts. *)

ProducerPc == {"none", "check", "asleep", "fetch", "push", "returned"}
AnalyzerPc == {"off", "rewind", "loop", "tip", "take", "asleep", "serial", "expected", "height",
               "stop", "join", "spawn", "gone"}

ProducerRec == [pc : ProducerPc, hash : Seq(Branch), item : Item]

\* The shapes of the state, records in full.
Shape ==
    /\ tip \in Seq(Branch) /\ Len(tip) >= 1
    /\ queue \in Seq(Item)
    /\ producer \in ProducerRec
    /\ pc \in AnalyzerPc /\ after \in AnalyzerPc
    /\ block \in Item /\ nextHash \in Seq(Branch)
    /\ {bulkSync, active, stopRequest, pfStop} \subseteq BOOLEAN
    /\ {reorgs, deepest, faults} \subseteq Nat

\* The producer has room for what it fetches, and is told to stop only by whoever waits for it.
Room ==
    /\ Len(queue) <= MaxDepth
    /\ producer.pc \in {"fetch", "push"} => Len(queue) < MaxDepth
    /\ pfStop => pc = "join"

\* A block that no reorganisation of fewer than BulkGap blocks has reached or will reach.
Deep(b) == b # NoHash /\ Len(b) <= Len(tip) - BulkGap + 1 /\ InChain(b)

\* What is known of a fetched block, however old the answer is: the block it names as the next
\* one is its child, and was not beyond the tip; if it was bulk, that child is deep.
Sound(item) ==
    /\ Len(item.next) <= Len(tip)
    /\ item.next # NoHash => Parent(item.next) = item.hash
    /\ deepest < BulkGap /\ Bulk(item) => Deep(item.next)

AllSound ==
    /\ Sound(block) /\ Sound(producer.item)
    /\ \A k \in 1 .. Len(queue) : Sound(queue[k])
    /\ Len(nextHash) <= Len(tip)

\* Where a caller of stopPrefetch() goes on.
Back == {"off", "spawn", "serial", "expected", "height", "gone"}

\* pipelineActive is set while the loop takes blocks from the queue, and until it has joined.
Mode ==
    /\ active => pc \in {"loop", "tip", "take", "asleep", "stop", "join"}
    /\ pc \in {"take", "asleep"} => active
    /\ after \in Back

\* While it is, queue and producer continue the block the analyzer has.
Fed == active /\ pc \in {"loop", "tip", "take", "asleep"}
Expected == IF pc \in {"take", "asleep"} THEN nextHash ELSE block.next
Newest == IF queue = <<>> THEN Expected ELSE queue[Len(queue)].next
Follows(item, hash) == Terminal(item) \/ (item.hash = hash /\ hash # NoHash)

Linked ==
    /\ queue # <<>> => Follows(queue[1], Expected)
    /\ \A k \in 1 .. Len(queue) - 1 :
          ~Terminal(queue[k]) /\ Follows(queue[k + 1], queue[k].next)
    /\ producer.pc \in {"check", "asleep", "fetch", "push"} /\ queue # <<>> =>
          ~Terminal(queue[Len(queue)])
    /\ producer.pc \in {"check", "asleep", "fetch"} => producer.hash \in {NoHash, Newest}
    /\ producer.pc = "push" => /\ Follows(producer.item, Newest)
                               /\ ~Terminal(producer.item) => producer.hash = producer.item.next

Chained == Fed => Linked

\* What it takes from the pipeline is deep.
Frontier ==
    /\ deepest < BulkGap =>
         /\ pc \in {"take", "asleep", "spawn"} => Deep(nextHash)
         /\ pc \in {"stop", "join"} /\ after = "spawn" => Deep(nextHash)
         /\ pc = "loop" /\ active => Deep(nextHash)
         /\ pc = "tip" /\ bulkSync => Deep(block.next)
    /\ pc = "loop" /\ active => block.hash = nextHash

PrefetchInv == Shape /\ Room /\ AllSound /\ Mode /\ Chained /\ Frontier

\* The database has the shapes, and rows up to the newest header or up to the one before it.
Stored ==
    /\ headers \in Seq(Seq(Branch)) /\ rows \in Seq(Seq(Branch))
    /\ failed \in BOOLEAN /\ masked \in BOOLEAN
    /\ Len(headers) \in 1 .. Len(tip) /\ Len(headers) - 1 \in 0 .. Len(rows)
    /\ Len(rows) <= Len(headers)

\* The analyzer asks for the block above the newest header.
Ahead(l) == l \in {"take", "asleep", "serial", "expected", "height", "spawn"}
Asking == Ahead(pc) \/ (pc \in {"stop", "join"} /\ Ahead(after))

\* Where it stands in the database, unless a recovery is due.
Placed ==
    /\ failed => pc \in {"off", "gone"} \/ (pc \in {"stop", "join"} /\ ~Ahead(after))
    /\ ~failed => Len(nextHash) = IF Asking THEN Len(headers) + 1 ELSE Len(headers)
    /\ Asking \/ pc = "tip" => Len(rows) = Len(headers)
    /\ pc = "tip" => block.hash = nextHash

\* Until a fork is masked, the rows are those of one chain, and the block the analyzer is at
\* is the newest of them or its child.
OneChain ==
    ~masked =>
        /\ Len(index) = Len(rows) /\ \A k \in 1 .. Len(rows) : rows[k] = SubSeq(index, 1, k)
        /\ ~failed => index \in {nextHash, Parent(nextHash)}

IndexInv == Stored /\ Placed /\ OneChain

-----------------------------------------------------------------------------
(* Chains and their blocks. *)

\* The first h blocks of a chain.
LEMMA Prefix ==
    ASSUME NEW t \in Seq(Branch), NEW h \in 0 .. Len(t)
    PROVE  /\ SubSeq(t, 1, h) \in Seq(Branch)
           /\ Len(SubSeq(t, 1, h)) = h
           /\ \A i \in 1 .. h : SubSeq(t, 1, h)[i] = t[i]
           /\ h = 0 <=> SubSeq(t, 1, h) = <<>>
<1>1. \A i \in 1 .. h : t[i] \in Branch
  BY ElementOfSeq, LenProperties
<1>2. h \in Int /\ 1 \in Int /\ h - 1 + 1 = h
  BY LenProperties
<1>3. /\ SubSeq(t, 1, h) \in Seq(Branch)
      /\ Len(SubSeq(t, 1, h)) = IF 1 <= h THEN h - 1 + 1 ELSE 0
      /\ \A i \in 1 .. h - 1 + 1 : SubSeq(t, 1, h)[i] = t[1 + i - 1]
  BY <1>1, <1>2, SubSeqProperties
<1>4. Len(SubSeq(t, 1, h)) = h
  BY <1>3, LenProperties
<1>5. \A i \in 1 .. h : SubSeq(t, 1, h)[i] = t[i]
  BY <1>2, <1>3
<1>6. h = 0 <=> SubSeq(t, 1, h) = <<>>
  BY <1>3, <1>4, EmptySeq
<1> QED
  BY <1>3, <1>4, <1>5, <1>6

\* A shorter prefix of a prefix.
LEMMA PrefixOfPrefix ==
    ASSUME NEW t \in Seq(Branch), NEW h \in 0 .. Len(t), NEW g \in 0 .. h
    PROVE  SubSeq(SubSeq(t, 1, h), 1, g) = SubSeq(t, 1, g)
<1> DEFINE p == SubSeq(t, 1, h)
<1>1. p \in Seq(Branch) /\ Len(p) = h /\ \A i \in 1 .. h : p[i] = t[i]
  BY Prefix
<1>2. g \in 0 .. Len(t) /\ g \in 0 .. Len(p)
  BY <1>1, LenProperties
<1> HIDE DEF p
<1>3. /\ SubSeq(p, 1, g) \in Seq(Branch) /\ Len(SubSeq(p, 1, g)) = g
      /\ \A i \in 1 .. g : SubSeq(p, 1, g)[i] = p[i]
  BY <1>1, <1>2, Prefix
<1>4. /\ SubSeq(t, 1, g) \in Seq(Branch) /\ Len(SubSeq(t, 1, g)) = g
      /\ \A i \in 1 .. g : SubSeq(t, 1, g)[i] = t[i]
  BY <1>2, Prefix
<1>5. \A i \in 1 .. g : SubSeq(p, 1, g)[i] = SubSeq(t, 1, g)[i]
  BY <1>1, <1>3, <1>4
<1>6. SubSeq(p, 1, g) = SubSeq(t, 1, g)
  BY <1>3, <1>4, <1>5, SeqEqual
<1> QED
  BY <1>6 DEF p

\* A block is the child of its parent.
LEMMA ChildOfParent ==
    ASSUME NEW b \in Seq(Branch), b # <<>>
    PROVE  Parent(b) \in Seq(Branch) /\ \E l \in Branch : b = Append(Parent(b), l)
<1>1. Len(b) \in Nat \ {0}
  BY EmptySeq
<1>2. Len(b) - 1 \in 0 .. Len(b) /\ Len(b) \in 1 .. Len(b)
  BY <1>1
<1>3. /\ Parent(b) \in Seq(Branch) /\ Len(Parent(b)) = Len(b) - 1
      /\ \A i \in 1 .. Len(b) - 1 : Parent(b)[i] = b[i]
  BY <1>2, Prefix DEF Parent
<1>4. b[Len(b)] \in Branch
  BY <1>2, ElementOfSeq
<1> DEFINE c == Append(Parent(b), b[Len(b)])
<1>5. /\ c \in Seq(Branch) /\ Len(c) = Len(Parent(b)) + 1
      /\ \A i \in 1 .. Len(Parent(b)) : c[i] = Parent(b)[i]
      /\ c[Len(Parent(b)) + 1] = b[Len(b)]
  BY <1>3, <1>4, AppendProperties
<1> HIDE DEF c
<1>6. Len(c) = Len(b) /\ \A i \in 1 .. Len(b) : c[i] = b[i]
  BY <1>1, <1>3, <1>5
<1>7. c = b
  BY <1>5, <1>6, SeqEqual
<1> QED
  BY <1>3, <1>4, <1>7 DEF c

\* What Core answers when it is asked for a block.
LEMMA CoreAnswers ==
    ASSUME Shape, NEW b \in Seq(Branch)
    PROVE  GetBlock(b) \in Item /\ Sound(GetBlock(b)) /\ GetBlock(b).hash = b
<1> DEFINE next == IF InChain(b) /\ Len(b) < Len(tip) THEN CoreHash(Len(b) + 1) ELSE NoHash
           conf == IF InChain(b) THEN Len(tip) - Len(b) + 1 ELSE -1
<1>1. tip \in Seq(Branch) /\ Len(tip) \in Nat /\ Len(b) \in Nat /\ BulkGap \in Nat /\ deepest \in Nat
  BY LenProperties, PrefetchConstants DEF Shape
<1>2. <<>> \in Seq(Branch) /\ Len(<<>>) = 0
  BY EmptySeq
<1>3. conf \in Int
  BY <1>1
<1>4. CASE ~(InChain(b) /\ Len(b) < Len(tip))
  <2>1. next = <<>>
    BY <1>4 DEF NoHash
  <2>2. GetBlock(b) = [hash |-> b, next |-> <<>>, confirmations |-> conf]
    BY <1>4 DEF GetBlock, NoHash
  <2>3. InChain(b) => conf <= 1
    BY <1>1, <1>4
  <2>4. ~(deepest < BulkGap /\ conf > BulkGap)
    BY <1>1, <2>3
  <2> HIDE DEF conf
  <2> QED
    BY <1>1, <1>2, <1>3, <2>2, <2>4 DEF Sound, Item, Bulk, NoHash
<1>5. CASE InChain(b) /\ Len(b) < Len(tip)
  <2>1. Len(b) + 1 \in 0 .. Len(tip) /\ Len(b) \in 0 .. Len(tip) /\ Len(b) \in 0 .. Len(b) + 1
        /\ Len(b) + 1 # 0 /\ Len(b) + 1 - 1 = Len(b)
    BY <1>1, <1>5
  <2>2. next = CoreHash(Len(b) + 1)
    BY <1>5
  <2>3. next \in Seq(Branch) /\ Len(next) = Len(b) + 1 /\ next # <<>>
    BY <1>1, <2>1, <2>2, Prefix DEF CoreHash
  <2>4. Parent(next) = b
    <3>1. SubSeq(SubSeq(tip, 1, Len(b) + 1), 1, Len(b)) = SubSeq(tip, 1, Len(b))
      BY <1>1, <2>1, PrefixOfPrefix
    <3> QED
      BY <1>5, <2>1, <2>2, <2>3, <3>1 DEF Parent, InChain, CoreHash
  <2>5. InChain(next)
    BY <2>1, <2>2, <2>3 DEF InChain
  <2>6. GetBlock(b) = [hash |-> b, next |-> next, confirmations |-> conf]
    BY DEF GetBlock
  <2>7. conf > BulkGap => Len(next) <= Len(tip) - BulkGap + 1
    BY <1>1, <1>5, <2>3
  <2> HIDE DEF conf, next
  <2> QED
    BY <1>1, <1>3, <2>1, <2>3, <2>4, <2>5, <2>6, <2>7 DEF Sound, Item, Bulk, NoHash, Deep
<1> QED
  BY <1>4, <1>5

\* The items that stand for no block.
LEMMA NoAnswers ==
    ASSUME Shape
    PROVE  /\ NoBlock \in Item /\ Failure \in Item /\ Sound(NoBlock) /\ Sound(Failure)
           /\ Gone \in ProducerRec
<1>1. <<>> \in Seq(Branch) /\ Len(<<>>) = 0 /\ Len(tip) \in Nat /\ BulkGap \in Nat
  BY EmptySeq, LenProperties, PrefetchConstants DEF Shape
<1>2. /\ NoBlock = [hash |-> <<>>, next |-> <<>>, confirmations |-> 0]
      /\ Failure = [hash |-> <<>>, next |-> <<>>, confirmations |-> -2]
  BY DEF NoBlock, Failure, NoHash
<1>3. NoBlock \in Item /\ Failure \in Item
  BY <1>1, <1>2 DEF Item
<1>4. Sound(NoBlock) /\ Sound(Failure)
  BY <1>1, <1>2 DEF Sound, NoHash, Bulk
<1>5. Gone \in ProducerRec
  BY <1>1, <1>3 DEF Gone, NoHash, ProducerPc, ProducerRec
<1> QED
  BY <1>3, <1>4, <1>5

\* Two chains that agree up to a height have the same prefix of that height.
LEMMA SamePrefix ==
    ASSUME NEW t \in Seq(Branch), NEW u \in Seq(Branch), NEW h \in 0 .. Len(t), h <= Len(u),
           \A i \in 1 .. h : t[i] = u[i]
    PROVE  SubSeq(t, 1, h) = SubSeq(u, 1, h)
<1>1. h \in 0 .. Len(u)
  BY LenProperties
<1>2. /\ SubSeq(t, 1, h) \in Seq(Branch) /\ Len(SubSeq(t, 1, h)) = h
      /\ \A i \in 1 .. h : SubSeq(t, 1, h)[i] = t[i]
  BY Prefix
<1>3. /\ SubSeq(u, 1, h) \in Seq(Branch) /\ Len(SubSeq(u, 1, h)) = h
      /\ \A i \in 1 .. h : SubSeq(u, 1, h)[i] = u[i]
  BY <1>1, Prefix
<1> QED
  BY <1>2, <1>3, SeqEqual

\* Core's chain only ever gets longer, and reorganisations of fewer than BulkGap blocks leave
\* deep blocks where they are.
LEMMA CoreGrows ==
    ASSUME Shape, CoreExtend \/ CoreReorg
    PROVE  /\ tip' \in Seq(Branch) /\ Len(tip') = Len(tip) + 1
           /\ {reorgs', deepest'} \subseteq Nat /\ deepest <= deepest'
           /\ \A b \in Seq(Branch) : deepest' < BulkGap /\ Deep(b) => Deep(b)'
<1>1. /\ tip \in Seq(Branch) /\ Len(tip) \in Nat /\ Len(tip) >= 1 /\ BulkGap \in Nat
      /\ deepest \in Nat /\ reorgs \in Nat /\ MaxReorgDepth \in Nat
  BY LenProperties, PrefetchConstants DEF Shape
<1>2. ASSUME tip' \in Seq(Branch), Len(tip') = Len(tip) + 1, deepest <= deepest',
             deepest' \in Nat,
             \A i \in 1 .. Len(tip) : i <= Len(tip) - deepest' => tip'[i] = tip[i],
             NEW b \in Seq(Branch), deepest' < BulkGap, Deep(b)
      PROVE  Deep(b)'
  <2>1. /\ b # NoHash /\ Len(b) <= Len(tip) - BulkGap + 1 /\ Len(b) <= Len(tip)
        /\ SubSeq(tip, 1, Len(b)) = b /\ Len(b) \in Nat
    BY <1>2, LenProperties DEF Deep, InChain, CoreHash
  <2>2. Len(b) \in 0 .. Len(tip) /\ Len(b) <= Len(tip')
        /\ Len(b) <= Len(tip') - BulkGap + 1
    BY <1>1, <1>2, <2>1
  <2>3. \A i \in 1 .. Len(b) : tip[i] = tip'[i]
    BY <1>1, <1>2, <2>1
  <2>4. SubSeq(tip, 1, Len(b)) = SubSeq(tip', 1, Len(b))
    BY <1>1, <1>2, <2>2, <2>3, SamePrefix
  <2> QED
    BY <2>1, <2>2, <2>4 DEF Deep, InChain, CoreHash
<1>3. CASE CoreExtend
  <2>1. tip' = Append(tip, tip[Len(tip)]) /\ deepest' = deepest /\ reorgs' = reorgs
    BY <1>3 DEF CoreExtend
  <2>2. tip[Len(tip)] \in Branch
    BY <1>1, ElementOfSeq
  <2>3. /\ tip' \in Seq(Branch) /\ Len(tip') = Len(tip) + 1
        /\ \A i \in 1 .. Len(tip) : tip'[i] = tip[i]
    BY <1>1, <2>1, <2>2, AppendProperties
  <2> QED
    BY <1>1, <1>2, <2>1, <2>3
<1>4. CASE CoreReorg
  <2>1. PICK d \in 1 .. MaxReorgDepth, label \in Branch :
           /\ d < Len(tip)
           /\ tip' = [h \in 1 .. Len(tip) + 1 |-> IF h <= Len(tip) - d THEN tip[h] ELSE label]
           /\ deepest' = IF d > deepest THEN d ELSE deepest
    BY <1>4 DEF CoreReorg
  <2>2. d \in Nat /\ deepest' \in Nat /\ deepest <= deepest' /\ d <= deepest'
    BY <1>1, <2>1
  <2>3. reorgs' \in Nat
    BY <1>1, <1>4 DEF CoreReorg
  <2>4. \A h \in 1 .. Len(tip) + 1 : (IF h <= Len(tip) - d THEN tip[h] ELSE label) \in Branch
    <3>1. \A h \in 1 .. Len(tip) : tip[h] \in Branch
      BY <1>1, ElementOfSeq
    <3> QED
      BY <1>1, <2>2, <3>1
  <2>5. tip' \in [1 .. Len(tip) + 1 -> Branch] /\ Len(tip) + 1 \in Nat
    BY <1>1, <2>1, <2>4
  <2>6. tip' \in Seq(Branch) /\ DOMAIN tip' = 1 .. Len(tip) + 1
    BY <2>5, SeqDef
  <2>7. Len(tip') = Len(tip) + 1
    BY <1>1, <2>6, LenProperties
  <2>8. \A i \in 1 .. Len(tip) : i <= Len(tip) - deepest' => tip'[i] = tip[i]
    BY <1>1, <2>1, <2>2
  <2> QED
    BY <1>2, <2>2, <2>3, <2>6, <2>7, <2>8
<1> QED
  BY <1>3, <1>4

\* An answer of Core stays sound.
LEMMA SoundStays ==
    ASSUME Shape, CoreExtend \/ CoreReorg, NEW item \in Item, Sound(item)
    PROVE  Sound(item)'
<1>1. item.next \in Seq(Branch) /\ Len(item.next) \in Nat
  BY LenProperties DEF Item
<1>2. /\ Len(tip) \in Nat /\ BulkGap \in Nat /\ deepest \in Nat
      /\ Len(tip') = Len(tip) + 1 /\ deepest' \in Nat /\ deepest <= deepest'
      /\ \A b \in Seq(Branch) : deepest' < BulkGap /\ Deep(b) => Deep(b)'
  BY CoreGrows, LenProperties, PrefetchConstants DEF Shape
<1>3. deepest' < BulkGap /\ Bulk(item) => Deep(item.next)'
  BY <1>1, <1>2 DEF Sound
<1>4. Len(item.next) <= Len(tip')
  BY <1>1, <1>2 DEF Sound
<1>5. Parent(item.next) = item.hash \/ item.next = NoHash
  BY DEF Sound
<1> QED
  BY <1>3, <1>4, <1>5 DEF Sound, Bulk

-----------------------------------------------------------------------------
(* Core and the producer. *)

\* However Core's chain moves.
LEMMA CoreKeeps ==
    ASSUME PrefetchInv, CoreExtend \/ CoreReorg
    PROVE  PrefetchInv'
<1> USE DEF PrefetchInv
<1>1. UNCHANGED <<pipe, analyzer, stopRequest, faults>>
  BY DEF CoreExtend, CoreReorg
<1>2. /\ tip' \in Seq(Branch) /\ Len(tip') = Len(tip) + 1 /\ Len(tip) \in Nat
      /\ {reorgs', deepest'} \subseteq Nat /\ deepest <= deepest'
      /\ \A b \in Seq(Branch) : deepest' < BulkGap /\ Deep(b) => Deep(b)'
  BY CoreGrows, LenProperties DEF Shape
<1>3. BulkGap \in Nat /\ deepest \in Nat /\ deepest' \in Nat
  BY <1>2, PrefetchConstants DEF Shape
<1>4. deepest' < BulkGap => deepest < BulkGap
  BY <1>2, <1>3
<1>5. Shape'
  BY <1>1, <1>2 DEF Shape, pipe, analyzer, thread
<1>6. Room' /\ Mode'
  BY <1>1 DEF Room, Mode, pipe, analyzer, thread
<1>7. Chained'
  BY <1>1 DEF Chained, Fed, Linked, Expected, Newest, pipe, analyzer, thread
<1>8. AllSound'
  <2>1. Sound(block)'
    <3>1. \A i \in Item : Sound(i) => Sound(i)'
      BY SoundStays
    <3>2. block \in Item /\ Sound(block) /\ block' = block
      BY <1>1 DEF Shape, AllSound, analyzer, thread
    <3> QED
      BY <3>1, <3>2 DEF Sound
  <2>2. Sound(producer.item)'
    <3>1. \A i \in Item : Sound(i) => Sound(i)'
      BY SoundStays
    <3>2. producer.item \in Item /\ Sound(producer.item) /\ producer' = producer
      BY <1>1 DEF Shape, AllSound, pipe, ProducerRec
    <3> QED
      BY <3>1, <3>2 DEF Sound
  <2>3. ASSUME NEW k \in 1 .. Len(queue)
        PROVE  Sound(queue[k])'
    <3>1. \A i \in Item : Sound(i) => Sound(i)'
      BY SoundStays
    <3>2. queue[k] \in Item /\ Sound(queue[k]) /\ queue' = queue
      BY <1>1, ElementOfSeq DEF Shape, AllSound, pipe
    <3> QED
      BY <3>1, <3>2 DEF Sound
  <2>4. Len(nextHash') <= Len(tip')
    BY <1>1, <1>2, LenProperties DEF AllSound, Shape, analyzer, thread
  <2> QED
    BY <1>1, <2>1, <2>2, <2>3, <2>4 DEF AllSound, pipe
<1>9. Frontier'
  <2>1. block.next \in Seq(Branch) /\ nextHash \in Seq(Branch)
    BY DEF Shape, Item
  <2>2. deepest' < BulkGap => /\ Deep(nextHash) => Deep(nextHash)'
                              /\ Deep(block.next) => Deep(block.next)'
    <3>1. ASSUME NEW b \in Seq(Branch), deepest' < BulkGap, Deep(b)
          PROVE  Deep(b)'
      BY <1>2, <3>1
    <3>2. nextHash' = nextHash /\ block' = block
      BY <1>1 DEF analyzer, thread
    <3> QED
      BY <2>1, <3>1, <3>2 DEF Deep, InChain, CoreHash
  <2> QED
    BY <1>1, <1>4, <2>2 DEF Frontier, analyzer, thread
<1> QED
  BY <1>5, <1>6, <1>7, <1>8, <1>9

\* A producer that only moves to another step.
LEMMA ProducerMoves ==
    ASSUME NEW r \in ProducerRec, NEW l \in ProducerPc
    PROVE  /\ [r EXCEPT !.pc = l] \in ProducerRec
           /\ [r EXCEPT !.pc = l].pc = l
           /\ [r EXCEPT !.pc = l].hash = r.hash /\ [r EXCEPT !.pc = l].item = r.item
BY DEF ProducerRec

\* A step of the producer that leaves queue and analyzer alone.
LEMMA ProducerOnly ==
    ASSUME PrefetchInv, UNCHANGED <<core, queue, pfStop, analyzer, stopRequest>>, faults' \in Nat,
           producer' \in ProducerRec, Sound(producer'.item),
           producer'.pc \in {"fetch", "push"} => Len(queue) < MaxDepth,
           Fed => Linked'
    PROVE  PrefetchInv'
<1> USE DEF PrefetchInv
<1>1. Shape'
  BY DEF Shape, core, analyzer, thread
<1>2. Room' /\ Mode' /\ Frontier'
  BY DEF Room, Mode, Frontier, Deep, InChain, CoreHash, core, analyzer, thread
<1>3. AllSound'
  BY DEF AllSound, Sound, Deep, InChain, CoreHash, core, analyzer, thread
<1>4. Chained'
  BY DEF Chained, Fed, analyzer, thread
<1> QED
  BY <1>1, <1>2, <1>3, <1>4

\* The producer waits for space, ...
LEMMA WaitForSpaceKeeps ==
    ASSUME PrefetchInv, WaitForSpace
    PROVE  PrefetchInv'
<1> USE DEF PrefetchInv
<1>1. PICK l \in {"asleep", "returned", "fetch"} :
         /\ producer' = [producer EXCEPT !.pc = l]
         /\ l = "fetch" => Len(queue) < MaxDepth
  BY DEF WaitForSpace, SpaceOrStop
<1>2. /\ producer' \in ProducerRec /\ producer'.pc = l
      /\ producer'.hash = producer.hash /\ producer'.item = producer.item
  <2>1. producer \in ProducerRec /\ l \in ProducerPc
    BY DEF Shape, ProducerPc
  <2> QED
    BY <1>1, <2>1, ProducerMoves
<1>3. UNCHANGED <<core, queue, pfStop, analyzer, stopRequest, faults>> /\ producer.pc = "check"
  BY DEF WaitForSpace
<1>4. Fed => Linked'
  BY <1>2, <1>3 DEF Chained, Linked, Expected, Newest, analyzer, thread
<1> QED
  BY <1>1, <1>2, <1>3, <1>4, ProducerOnly DEF Shape, AllSound

\* ... fetches the next block or finds that there is none, ...
LEMMA FetchAheadKeeps ==
    ASSUME PrefetchInv, FetchAhead
    PROVE  PrefetchInv'
<1> USE DEF PrefetchInv
<1> DEFINE got == IF producer.hash = NoHash THEN EndOfChain ELSE GetBlock(producer.hash)
<1>1. /\ producer.pc = "fetch" /\ producer' = [pc |-> "push", hash |-> got.next, item |-> got]
      /\ UNCHANGED <<core, queue, pfStop, analyzer, stopRequest, faults>>
  BY DEF FetchAhead
<1>2. producer.hash \in Seq(Branch)
  BY DEF Shape, ProducerRec
<1>3. got \in Item /\ Sound(got)
  BY <1>2, CoreAnswers, NoAnswers DEF EndOfChain
<1>4. \/ Terminal(got)
      \/ got.hash = producer.hash /\ producer.hash # NoHash
  BY <1>2, CoreAnswers DEF Terminal
<1> HIDE DEF got
<1>5. producer' \in ProducerRec
  BY <1>1, <1>3 DEF ProducerRec, Item, ProducerPc
<1>6. producer'.item = got /\ producer'.pc = "push" /\ producer'.hash = got.next
  BY <1>1
<1>7. Fed => Linked'
  BY <1>1, <1>4, <1>6 DEF Chained, Linked, Expected, Newest, Follows, analyzer, thread
<1> QED
  BY <1>1, <1>3, <1>5, <1>6, <1>7, ProducerOnly DEF Shape, Room

\* ... or fails to.
LEMMA FetchFailsKeeps ==
    ASSUME PrefetchInv, FetchFails
    PROVE  PrefetchInv'
<1> USE DEF PrefetchInv
<1>1. /\ producer.pc = "fetch" /\ producer' = [producer EXCEPT !.pc = "push", !.item = Failure]
      /\ faults' = faults + 1 /\ UNCHANGED <<core, queue, pfStop, analyzer, stopRequest>>
  BY DEF FetchFails
<1>2. Failure \in Item /\ Sound(Failure) /\ Terminal(Failure)
  BY NoAnswers DEF Terminal
<1>3. producer' \in ProducerRec /\ producer'.item = Failure /\ producer'.pc = "push"
  BY <1>1, <1>2 DEF Shape, ProducerRec, ProducerPc
<1>4. Fed => Linked'
  BY <1>1, <1>2, <1>3 DEF Chained, Linked, Expected, Newest, Follows, analyzer, thread
<1> QED
  BY <1>1, <1>2, <1>3, <1>4, ProducerOnly DEF Shape, Room

\* What it pushes continues the queue.
LEMMA PushKeeps ==
    ASSUME PrefetchInv, Push
    PROVE  PrefetchInv'
<1> USE DEF PrefetchInv
<1> DEFINE item == producer.item
           l == IF Terminal(item) THEN "returned" ELSE "check"
           n == Len(queue)
<1>1. /\ producer.pc = "push" /\ queue' = Append(queue, item)
      /\ producer' = [producer EXCEPT !.pc = l]
      /\ pc' = IF pc = "asleep" THEN "take" ELSE pc
      /\ UNCHANGED <<core, pfStop, after, block, nextHash, bulkSync, active, stopRequest, faults>>
  BY DEF Push
<1>2. /\ producer \in ProducerRec /\ item \in Item /\ l \in ProducerPc
      /\ queue \in Seq(Item) /\ n \in Nat
  BY LenProperties DEF Shape, ProducerRec, ProducerPc
<1>3. /\ producer' \in ProducerRec /\ producer'.pc = l
      /\ producer'.hash = producer.hash /\ producer'.item = item
  BY <1>1, <1>2, ProducerMoves
<1>4. /\ queue' \in Seq(Item) /\ Len(queue') = n + 1
      /\ \A k \in 1 .. n : queue'[k] = queue[k]
      /\ queue'[n + 1] = item
  BY <1>1, <1>2, AppendProperties
<1> HIDE DEF item, n
<1>5. Shape'
  BY <1>1, <1>3, <1>4 DEF Shape, core, AnalyzerPc
<1>6. Room'
  <2>1. n < MaxDepth /\ MaxDepth \in Nat
    BY <1>1, PrefetchConstants DEF Room, n
  <2> QED
    BY <1>1, <1>2, <1>3, <1>4, <2>1 DEF Room
<1>7. AllSound'
  <2>1. \A k \in 1 .. n + 1 : Sound(queue'[k])
    BY <1>2, <1>4 DEF AllSound, item, n
  <2> QED
    BY <1>1, <1>3, <1>4, <2>1 DEF AllSound, Sound, Deep, InChain, CoreHash, core, item
<1>8. Mode'
  BY <1>1 DEF Mode
<1>9. Frontier'
  BY <1>1 DEF Frontier, Deep, InChain, CoreHash, core
<1>10. Chained'
  <2>1. SUFFICES ASSUME Fed'
                 PROVE  Linked'
    BY DEF Chained
  <2>2. Fed /\ Linked
    BY <1>1, <2>1 DEF Fed, Chained
  <2>3. Expected' = Expected
    BY <1>1 DEF Expected
  <2>4. queue' # <<>> /\ n + 1 # 0 /\ (n = 0 <=> queue = <<>>)
    BY <1>2, <1>4, EmptySeq DEF n
  <2>5. Newest' = item.next
    BY <1>4, <2>4 DEF Newest
  <2>6. Follows(item, Newest) /\ (~Terminal(item) => producer.hash = item.next)
    BY <1>1, <2>2 DEF Linked, item
  <2>7. Follows(queue'[1], Expected')
    <3>1. CASE n = 0
      BY <1>4, <2>3, <2>4, <2>6, <3>1 DEF Newest
    <3>2. CASE n # 0
      BY <1>2, <1>4, <2>2, <2>3, <2>4, <3>2 DEF Linked
    <3> QED
      BY <3>1, <3>2
  <2>8. ASSUME NEW k \in 1 .. n
        PROVE  ~Terminal(queue'[k]) /\ Follows(queue'[k + 1], queue'[k].next)
    <3>1. CASE k = n
      <4>1. queue # <<>> /\ queue'[k] = queue[n] /\ queue'[k + 1] = item /\ Newest = queue[n].next
        BY <1>2, <1>4, <2>4, <3>1 DEF Newest, n
      <4>2. ~Terminal(queue[n])
        BY <1>1, <2>2, <4>1 DEF Linked, n
      <4> QED
        BY <2>6, <4>1, <4>2
    <3>2. CASE k # n
      <4>1. k \in 1 .. Len(queue) - 1 /\ queue'[k] = queue[k] /\ queue'[k + 1] = queue[k + 1]
        BY <1>2, <1>4, <3>2 DEF n
      <4> QED
        BY <2>2, <4>1 DEF Linked
    <3> QED
      BY <3>1, <3>2
  <2>9. producer'.pc \in {"check", "asleep", "fetch", "push"} =>
            /\ producer'.pc = "check" /\ ~Terminal(queue'[Len(queue')])
            /\ producer'.hash = Newest'
    BY <1>3, <1>4, <2>5, <2>6
  <2>10. Len(queue') - 1 = n
    BY <1>2, <1>4
  <2> QED
    BY <2>7, <2>8, <2>9, <2>10 DEF Linked
<1> QED
  BY <1>5, <1>6, <1>7, <1>8, <1>9, <1>10

\* A producer that was asleep, or was not, after a notification.
LEMMA NotifiedKeeps ==
    ASSUME NEW r \in ProducerRec
    PROVE  /\ Notified(r) \in ProducerRec
           /\ Notified(r).hash = r.hash /\ Notified(r).item = r.item
           /\ IF r.pc = "asleep" THEN Notified(r).pc = "check" ELSE Notified(r).pc = r.pc
BY ProducerMoves DEF Notified, ProducerPc

\* A wakeup for no reason.
LEMMA WakeupKeeps ==
    ASSUME PrefetchInv, SpuriousWakeup
    PROVE  PrefetchInv'
<1> USE DEF PrefetchInv
<1>1. UNCHANGED <<core, queue, pfStop, after, block, nextHash, bulkSync, active, failed, database,
                  stopRequest, faults>>
  BY DEF SpuriousWakeup
<1>2. CASE producer.pc = "asleep" /\ producer' = Notified(producer) /\ pc' = pc
  <2>1. /\ producer' \in ProducerRec /\ producer'.pc = "check"
        /\ producer'.hash = producer.hash /\ producer'.item = producer.item
    BY <1>2, NotifiedKeeps DEF Shape
  <2>2. Fed => Linked'
    BY <1>1, <1>2, <2>1 DEF Chained, Linked, Expected, Newest
  <2> QED
    BY <1>1, <1>2, <2>1, <2>2, ProducerOnly DEF Shape, AllSound, core, analyzer, thread
<1>3. CASE pc = "asleep" /\ pc' = "take" /\ producer' = producer
  <2>1. Shape' /\ Room' /\ Mode'
    BY <1>1, <1>3 DEF Shape, Room, Mode, core, AnalyzerPc
  <2>2. AllSound' /\ Frontier'
    BY <1>1, <1>3 DEF AllSound, Frontier, Sound, Deep, InChain, CoreHash, core
  <2>3. Chained'
    BY <1>1, <1>3 DEF Chained, Fed, Linked, Expected, Newest
  <2> QED
    BY <2>1, <2>2, <2>3
<1> QED
  BY <1>2, <1>3 DEF SpuriousWakeup

-----------------------------------------------------------------------------
(* The analyzer. *)

\* mainFunction() is entered.
LEMMA MainEnterKeeps ==
    ASSUME PrefetchInv, IndexInv, MainEnter
    PROVE  PrefetchInv'
<1> USE DEF PrefetchInv
<1>1. /\ pc = "off" /\ pc' = "rewind" /\ nextHash' \in {nextHash, CoreHash(Len(headers))}
      /\ UNCHANGED <<core, pipe, after, block, bulkSync, active, stopRequest, faults>>
  BY DEF MainEnter, StartFrom
<1>2. nextHash' \in Seq(Branch) /\ Len(nextHash') <= Len(tip)
  <2>1. tip \in Seq(Branch) /\ Len(headers) \in 0 .. Len(tip)
    BY DEF Shape, IndexInv, Stored
  <2>2. CoreHash(Len(headers)) \in Seq(Branch) /\ Len(CoreHash(Len(headers))) = Len(headers)
    BY <2>1, Prefix DEF CoreHash
  <2> QED
    BY <1>1, <2>1, <2>2 DEF Shape, AllSound
<1>3. ~active
  BY <1>1 DEF Mode
<1>4. Shape'
  BY <1>1, <1>2 DEF Shape, core, pipe, AnalyzerPc
<1>5. Room' /\ Mode' /\ Chained' /\ Frontier'
  BY <1>1, <1>3 DEF Room, Mode, Chained, Fed, Frontier, pipe
<1>6. AllSound'
  BY <1>1, <1>2 DEF AllSound, Sound, Deep, InChain, CoreHash, core, pipe
<1> QED
  BY <1>4, <1>5, <1>6

\* A pass begins at a block Core has.
LEMMA ResumeKeeps ==
    ASSUME PrefetchInv, Resume
    PROVE  PrefetchInv'
<1> USE DEF PrefetchInv
<1>1. /\ tip \in Seq(Branch) /\ Len(tip) \in Nat /\ nextHash \in Seq(Branch)
      /\ Len(nextHash) \in 0 .. Len(tip)
  BY LenProperties DEF Shape, AllSound
<1>2. nextHash' \in Seq(Branch) /\ Len(nextHash') \in 0 .. Len(tip)
  <2>1. nextHash' = nextHash \/ \E h \in 1 .. Len(nextHash) - 1 : nextHash' = CoreHash(h)
    BY DEF Resume, StartFrom
  <2>2. ASSUME NEW h \in 1 .. Len(nextHash) - 1
        PROVE  CoreHash(h) \in Seq(Branch) /\ Len(CoreHash(h)) \in 0 .. Len(tip)
    <3>1. h \in 0 .. Len(tip)
      BY <1>1
    <3> QED
      BY <1>1, <3>1, Prefix DEF CoreHash
  <2> QED
    BY <1>1, <2>1, <2>2
<1>3. CoreHash(Len(nextHash')) \in Seq(Branch)
  BY <1>1, <1>2, Prefix DEF CoreHash
<1>4. block' \in Item /\ Sound(block')
  BY <1>3, CoreAnswers DEF Resume
<1>5. /\ pc = "rewind" /\ pc' = "loop" /\ active' = active
      /\ UNCHANGED <<core, pipe, after, bulkSync, stopRequest, faults>>
  BY DEF Resume
<1>6. ~active
  BY <1>5 DEF Mode
<1>7. Shape'
  BY <1>2, <1>4, <1>5 DEF Shape, core, pipe, AnalyzerPc
<1>8. Room' /\ Mode' /\ Chained' /\ Frontier'
  BY <1>5, <1>6 DEF Room, Mode, Chained, Fed, Frontier, core, pipe
<1>9. AllSound'
  BY <1>2, <1>4, <1>5 DEF AllSound, Sound, Deep, InChain, CoreHash, core, pipe
<1> QED
  BY <1>7, <1>8, <1>9

\* The answers at hand are as sound as before when Core's chain does not move.
LEMMA SoundAsBefore ==
    ASSUME Shape, AllSound, UNCHANGED <<core, queue>>, producer'.item = producer.item,
           Sound(block'), nextHash' = nextHash \/ nextHash' = block.next
    PROVE  AllSound'
BY DEF AllSound, Sound, Deep, InChain, CoreHash, core

\* A block is processed.
LEMMA ProcessKeeps ==
    ASSUME PrefetchInv, Process
    PROVE  PrefetchInv'
<1> USE DEF PrefetchInv
<1>1. /\ pc = "loop" /\ pc' = "tip" /\ bulkSync' = Bulk(block)
      /\ UNCHANGED <<core, pipe, after, block, nextHash, active, stopRequest, faults>>
  BY DEF Process
<1>2. Shape'
  BY <1>1 DEF Shape, core, pipe, AnalyzerPc, Item, Bulk
<1>3. Room' /\ Mode'
  BY <1>1 DEF Room, Mode, pipe
<1>4. AllSound'
  BY <1>1, SoundAsBefore DEF AllSound, pipe
<1>5. Chained'
  BY <1>1 DEF Chained, Fed, Linked, Expected, Newest, pipe
<1>6. Frontier'
  BY <1>1 DEF Frontier, AllSound, Sound, Deep, InChain, CoreHash, core
<1> QED
  BY <1>2, <1>3, <1>4, <1>5, <1>6

\* The analyzer leaves the loop, with stopPrefetch() or without, or goes on without the pipeline.
LEMMA LeaveKeeps ==
    ASSUME PrefetchInv, UNCHANGED <<core, queue, pfStop, block, bulkSync>>,
           producer' = producer, pc # "join",
           nextHash' = nextHash \/ nextHash' = block.next,
           faults' \in Nat, stopRequest' \in BOOLEAN, active' \in BOOLEAN,
           after' \in Back, pc' \in {"off", "stop", "serial"}, pc' # "stop" => ~active',
           pc' = "stop" /\ after' = "spawn" /\ deepest < BulkGap => Deep(nextHash')
    PROVE  PrefetchInv'
<1> USE DEF PrefetchInv
<1>1. Shape'
  BY DEF Shape, core, AnalyzerPc, Back, Item
<1>2. Room' /\ Mode' /\ Chained'
  BY DEF Room, Mode, Chained, Fed
<1>3. AllSound'
  BY SoundAsBefore DEF AllSound
<1>4. Frontier'
  BY DEF Frontier, Deep, InChain, CoreHash, core
<1> QED
  BY <1>1, <1>2, <1>3, <1>4

\* The loop ends.
LEMMA LoopExitKeeps ==
    ASSUME PrefetchInv, LoopExit
    PROVE  PrefetchInv'
BY LeaveKeeps DEF LoopExit, StopThen, PrefetchInv, Shape, Mode, Back, core, pipe

\* A call throws.
LEMMA ThrowKeeps ==
    ASSUME PrefetchInv, Throw
    PROVE  PrefetchInv'
<1>1. /\ pc # "join" /\ pc' = "off" /\ active' = FALSE /\ after' = after /\ faults' = faults + 1
      /\ UNCHANGED <<core, pipe, block, nextHash, bulkSync, stopRequest>>
  BY DEF Throw, LeaveBehind
<1>2. after' \in Back /\ faults' \in Nat /\ stopRequest' \in BOOLEAN
  BY <1>1 DEF PrefetchInv, Shape, Mode
<1> QED
  BY <1>1, <1>2, LeaveKeeps DEF pipe

\* The destructor.
LEMMA DestroyKeeps ==
    ASSUME PrefetchInv, Destroy
    PROVE  PrefetchInv'
BY LeaveKeeps DEF Destroy, StopThen, PrefetchInv, Shape, Mode, Back, core, pipe

\* A stop is asked for.
LEMMA RequestKeeps ==
    ASSUME PrefetchInv, RequestStop
    PROVE  PrefetchInv'
BY DEF RequestStop, PrefetchInv, Shape, Room, AllSound, Sound, Mode, Chained, Fed, Linked, Expected,
       Newest, Frontier, Deep, InChain, CoreHash, core, pipe, analyzer, thread

\* At the tip: wait, leave, or find that the block was orphaned.  If the analyzer asks again,
\* then there was no next block, so the producer has nothing but the end of the chain to offer.
LEMMA TipPollKeeps ==
    ASSUME PrefetchInv, TipPoll
    PROVE  PrefetchInv'
<1> USE DEF PrefetchInv
<1>1. /\ pc = "tip" /\ block.next = NoHash
      /\ UNCHANGED <<core, pipe, nextHash, bulkSync, stopRequest, faults>>
  BY DEF TipPoll
<1>2. CASE LeaveBehind /\ block' = block
  BY <1>1, <1>2, LeaveKeeps DEF LeaveBehind, Shape, Mode, Back, core, pipe
<1>3. CASE /\ UNCHANGED <<block, active>>
           /\ IF active THEN StopThen("off") ELSE pc' = "off" /\ UNCHANGED after
  BY <1>1, <1>3, LeaveKeeps DEF StopThen, Shape, Mode, Back, core, pipe
<1>4. CASE block' = GetBlock(block.hash) /\ UNCHANGED <<pc, after, active>>
  <2>1. block.hash \in Seq(Branch)
    BY DEF Shape, Item
  <2>2. block' \in Item /\ Sound(block') /\ block'.hash = block.hash
    BY <1>4, <2>1, CoreAnswers
  <2>3. Shape'
    BY <1>1, <1>4, <2>2 DEF Shape, core, pipe
  <2>4. Room' /\ Mode'
    BY <1>1, <1>4, <2>2 DEF Room, Mode, pipe
  <2>5. AllSound'
    BY <1>1, <2>2, SoundAsBefore DEF pipe
  <2>6. Frontier'
    BY <1>1, <1>4 DEF Frontier, Deep, core
  <2>7. Chained'
    <3>1. SUFFICES ASSUME Fed'
                   PROVE  Linked'
      BY DEF Chained
    <3>2. Fed /\ Linked /\ Expected = NoHash /\ queue' = queue /\ producer' = producer
      BY <1>1, <1>4, <3>1 DEF Fed, Chained, Expected, pipe
    <3>3. queue # <<>> => Terminal(queue[1])
      BY <3>2 DEF Linked, Follows
    <3>4. CASE queue = <<>>
      <4>1. /\ Newest = NoHash
            /\ producer.pc \in {"check", "asleep", "fetch"} => producer.hash = NoHash
            /\ producer.pc = "push" => Terminal(producer.item)
        BY <3>2, <3>4 DEF Linked, Newest, Follows
      <4>2. Len(queue) - 1 < 1
        BY <3>4, EmptySeq
      <4>3. \A k \in 1 .. Len(queue') - 1 : FALSE
        BY <3>2, <3>4, <4>2
      <4> QED
        BY <3>2, <3>4, <4>1, <4>3 DEF Linked, Follows
    <3>5. CASE queue # <<>>
      <4>1. Len(queue) \in Nat \ {0}
        BY <3>5, EmptySeq DEF Shape
      <4>2. Len(queue) = 1
        <5>1. ~(1 \in 1 .. Len(queue) - 1)
          BY <3>2, <3>3, <3>5 DEF Linked
        <5>2. ASSUME NEW n \in Nat \ {0}, ~(1 \in 1 .. n - 1)
              PROVE  n = 1
          BY <5>2
        <5> QED
          BY <4>1, <5>1, <5>2
      <4>3. producer.pc \notin {"check", "asleep", "fetch", "push"}
        BY <3>2, <3>3, <3>5, <4>2 DEF Linked
      <4> QED
        BY <3>2, <3>3, <3>5, <4>2, <4>3 DEF Linked, Follows
    <3> QED
      BY <3>4, <3>5
  <2> QED
    BY <2>3, <2>4, <2>5, <2>6, <2>7
<1> QED
  BY <1>2, <1>3, <1>4 DEF TipPoll

\* The next block: from the pipeline in bulk sync, and then its hash is a deep one.
LEMMA AdvanceKeeps ==
    ASSUME PrefetchInv, Advance
    PROVE  PrefetchInv'
<1> USE DEF PrefetchInv
<1>1. /\ pc = "tip" /\ block.next # NoHash /\ nextHash' = block.next
      /\ UNCHANGED <<core, pipe, block, bulkSync, active, stopRequest, faults>>
  BY DEF Advance
<1>2. block.next \in Seq(Branch)
  BY DEF Shape, Item
<1>3. bulkSync /\ deepest < BulkGap => Deep(block.next)
  BY <1>1 DEF Frontier
<1>4. /\ bulkSync \in BOOLEAN /\ active \in BOOLEAN /\ after \in Back /\ faults \in Nat
      /\ stopRequest \in BOOLEAN
  BY DEF Shape, Mode
<1>5. CASE bulkSync /\ active
  <2>1. pc' = "take" /\ after' = after
    BY <1>4, <1>5 DEF Advance
  <2>2. Shape'
    BY <1>1, <2>1 DEF Shape, core, pipe, AnalyzerPc, Item
  <2>3. Room' /\ Mode'
    BY <1>1, <1>2, <1>5, <2>1 DEF Room, Mode, pipe
  <2>4. AllSound'
    BY <1>1, SoundAsBefore DEF AllSound, pipe
  <2>5. Frontier'
    BY <1>1, <1>3, <1>5, <2>1 DEF Frontier, Deep, InChain, CoreHash, core
  <2>6. Chained'
    BY <1>1, <2>1 DEF Chained, Fed, Linked, Expected, Newest, pipe
  <2> QED
    BY <2>2, <2>3, <2>4, <2>5, <2>6
<1>6. CASE ~bulkSync /\ ~active
  <2>1. pc' = "serial" /\ after' = after
    BY <1>4, <1>6 DEF Advance
  <2> QED
    BY <1>1, <1>2, <1>4, <1>6, <2>1, LeaveKeeps DEF pipe
<1>7. CASE bulkSync /\ ~active
  <2>1. pc' = "stop" /\ after' = "spawn"
    BY <1>4, <1>7 DEF Advance, StopThen
  <2>2. "spawn" \in Back
    BY DEF Back
  <2> QED
    BY <1>1, <1>2, <1>3, <1>4, <1>7, <2>1, <2>2, LeaveKeeps DEF pipe
<1>8. CASE ~bulkSync /\ active
  <2>1. pc' = "stop" /\ after' = "serial"
    BY <1>4, <1>8 DEF Advance, StopThen
  <2>2. "serial" \in Back
    BY DEF Back
  <2> QED
    BY <1>1, <1>2, <1>4, <1>8, <2>1, <2>2, LeaveKeeps DEF pipe
<1> QED
  BY <1>4, <1>5, <1>6, <1>7, <1>8

\* What is taken from the queue is the block that is expected, or nothing that is used.
LEMMA TakeKeeps ==
    ASSUME PrefetchInv, Take
    PROVE  PrefetchInv'
<1> USE DEF PrefetchInv
<1>1. /\ pc = "take"
      /\ UNCHANGED <<core, pfStop, nextHash, bulkSync, active, stopRequest, faults>>
  BY DEF Take
<1>2. /\ ~pfStop /\ active /\ Fed /\ Linked /\ Expected = nextHash
  BY <1>1 DEF Room, Mode, Fed, Chained, Expected
<1>3. /\ producer \in ProducerRec /\ queue \in Seq(Item) /\ active \in BOOLEAN
      /\ after \in AnalyzerPc /\ faults \in Nat /\ stopRequest \in BOOLEAN
  BY DEF Shape
<1>4. CASE queue = <<>>
  <2>1. pc' = "asleep" /\ UNCHANGED <<after, queue, producer, block>>
    BY <1>2, <1>4 DEF Take
  <2>2. Shape' /\ Room' /\ Mode'
    BY <1>1, <1>2, <2>1 DEF Shape, Room, Mode, core, AnalyzerPc
  <2>3. AllSound'
    BY <1>1, <2>1, SoundAsBefore DEF AllSound
  <2>4. Frontier'
    BY <1>1, <2>1 DEF Frontier, Deep, InChain, CoreHash, core
  <2>5. Chained'
    BY <1>1, <2>1 DEF Chained, Fed, Linked, Expected, Newest
  <2> QED
    BY <2>2, <2>3, <2>4, <2>5
<1>5. CASE queue # <<>>
  <2> DEFINE item == Head(queue)
             n == Len(queue)
  <2>1. /\ Use(item) /\ queue' = Tail(queue) /\ producer' = Notified(producer)
    BY <1>5 DEF Take
  <2>2. n \in Nat \ {0} /\ item = queue[1] /\ item \in Item /\ Sound(item)
    BY <1>3, <1>5, EmptySeq, ElementOfSeq DEF AllSound
  <2>3. /\ queue' \in Seq(Item) /\ Len(queue') = n - 1
        /\ \A k \in 1 .. n - 1 : queue'[k] = queue[k + 1]
    BY <1>3, <1>5, <2>1, HeadTailProperties
  <2>4. /\ producer' \in ProducerRec
        /\ producer'.hash = producer.hash /\ producer'.item = producer.item
        /\ IF producer.pc = "asleep" THEN producer'.pc = "check" ELSE producer'.pc = producer.pc
    BY <1>3, <2>1, NotifiedKeeps
  <2>5. Follows(item, nextHash)
    BY <1>2, <1>5, <2>2 DEF Linked
  <2> HIDE DEF item, n
  <2>6. /\ Len(queue') <= MaxDepth
        /\ producer'.pc \in {"fetch", "push"} => Len(queue') < MaxDepth
    <3>1. n <= MaxDepth /\ MaxDepth \in Nat
      BY PrefetchConstants DEF Room, n
    <3>2. n - 1 < MaxDepth
      BY <2>2, <3>1
    <3> QED
      BY <2>2, <2>3, <3>2, <3>1
  <2>7. \A k \in 1 .. Len(queue') : Sound(queue'[k])
    <3>1. \A k \in 1 .. n - 1 : Sound(queue[k + 1])
      BY <2>2 DEF AllSound, n
    <3> QED
      BY <2>3, <3>1
  <2>8. Len(nextHash) <= Len(tip) /\ Sound(block) /\ Sound(producer.item) /\ block \in Item
    BY DEF AllSound, Shape
  <2>9. ASSUME block' = block, pc' = "stop", after' \in {"off", "expected", "height"}
        PROVE  PrefetchInv'
    <3>1. Shape'
      BY <1>1, <2>3, <2>4, <2>9 DEF Shape, core, AnalyzerPc
    <3>2. Room' /\ Mode' /\ Chained'
      BY <1>1, <1>2, <2>6, <2>9 DEF Room, Mode, Back, Chained, Fed
    <3>3. AllSound'
      BY <1>1, <2>4, <2>7, <2>8, <2>9 DEF AllSound, Sound, Deep, InChain, CoreHash, core
    <3>4. Frontier'
      BY <2>9 DEF Frontier
    <3> QED
      BY <3>1, <3>2, <3>3, <3>4
  <2>10. ASSUME ~Terminal(item), block' = item, pc' = "loop", after' = after
         PROVE  PrefetchInv'
    <3>1. item.hash = nextHash
      BY <2>5, <2>10 DEF Follows
    <3>2. Shape'
      BY <1>1, <2>2, <2>3, <2>4, <2>10 DEF Shape, core, AnalyzerPc
    <3>3. Room' /\ Mode'
      BY <1>1, <1>2, <2>6, <2>10 DEF Room, Mode
    <3>4. AllSound'
      BY <1>1, <2>2, <2>4, <2>7, <2>8, <2>10 DEF AllSound, Sound, Deep, InChain, CoreHash, core
    <3>5. Frontier'
      BY <1>1, <2>10, <3>1 DEF Frontier, Deep, InChain, CoreHash, core
    <3>6. Chained'
      <4>1. Expected' = item.next
        BY <2>10 DEF Expected
      <4>2. Newest' = Newest
        <5>1. CASE n = 1
          <6>1. queue' = <<>>
            BY <2>3, <5>1, EmptySeq
          <6>2. Newest = item.next
            BY <1>5, <2>2, <5>1 DEF Newest, n
          <6> QED
            BY <4>1, <6>1, <6>2 DEF Newest
        <5>2. CASE n # 1
          <6>1. n - 1 \in Nat \ {0} /\ n - 1 \in 1 .. n - 1 /\ n - 1 + 1 = n
            BY <2>2, <5>2
          <6>2. queue' # <<>>
            BY <2>3, <6>1, EmptySeq
          <6>3. queue'[Len(queue')] = queue[n]
            BY <2>3, <6>1
          <6> QED
            BY <1>5, <6>2, <6>3 DEF Newest, n
        <5> QED
          BY <5>1, <5>2
      <4>3. queue' # <<>> => Follows(queue'[1], Expected')
        <5>1. ASSUME queue' # <<>>
              PROVE  Follows(queue'[1], Expected')
          <6>1. Len(queue') \in Nat \ {0}
            BY <2>3, <5>1, EmptySeq
          <6>2. 1 \in 1 .. n - 1
            BY <2>2, <2>3, <6>1
          <6>3. queue'[1] = queue[1 + 1] /\ Follows(queue[1 + 1], queue[1].next)
            BY <1>2, <2>3, <6>2 DEF Linked, n
          <6> QED
            BY <2>2, <4>1, <6>3
        <5> QED
          BY <5>1
      <4>4. ASSUME NEW k \in 1 .. Len(queue') - 1
            PROVE  ~Terminal(queue'[k]) /\ Follows(queue'[k + 1], queue'[k].next)
        <5>1. k + 1 \in 1 .. n - 1 /\ k \in 1 .. n - 1
          BY <2>2, <2>3
        <5>2. queue'[k] = queue[k + 1] /\ queue'[k + 1] = queue[k + 1 + 1]
          BY <2>3, <5>1
        <5> QED
          BY <1>2, <5>1, <5>2 DEF Linked, n
      <4>5. producer'.pc \in {"check", "asleep", "fetch", "push"} /\ queue' # <<>> =>
               ~Terminal(queue'[Len(queue')])
        <5>1. ASSUME queue' # <<>>
              PROVE  queue'[Len(queue')] = queue[n]
          <6>1. Len(queue') \in Nat \ {0}
            BY <2>3, <5>1, EmptySeq
          <6>2. n - 1 \in 1 .. n - 1 /\ n - 1 + 1 = n
            BY <2>2, <2>3, <6>1
          <6> QED
            BY <2>3, <6>2
        <5> QED
          BY <1>2, <1>5, <2>4, <5>1 DEF Linked, n
      <4>6. /\ producer'.pc \in {"check", "asleep", "fetch"} => producer'.hash \in {NoHash, Newest'}
            /\ producer'.pc = "push" =>
                 /\ Follows(producer'.item, Newest')
                 /\ ~Terminal(producer'.item) => producer'.hash = producer'.item.next
        BY <1>2, <2>4, <4>2 DEF Linked
      <4> QED
        BY <4>3, <4>4, <4>5, <4>6 DEF Chained, Linked
    <3> QED
      BY <3>2, <3>3, <3>4, <3>5, <3>6
  <2>11. \/ block' = block /\ pc' = "stop" /\ after' \in {"off", "expected", "height"}
         \/ ~Terminal(item) /\ block' = item /\ pc' = "loop" /\ after' = after
    BY <2>1 DEF Use, StopThen, Terminal
  <2> QED
    BY <2>9, <2>10, <2>11
<1> QED
  BY <1>4, <1>5

\* The next block from Core, by its hash or by its height.
LEMMA FetchSerialKeeps ==
    ASSUME PrefetchInv, FetchSerial
    PROVE  PrefetchInv'
<1> USE DEF PrefetchInv
<1>1. /\ pc \in {"serial", "expected", "height"} /\ pc' = "loop"
      /\ UNCHANGED <<core, pipe, after, nextHash, bulkSync, active, stopRequest, faults>>
  BY DEF FetchSerial
<1>2. ~active
  BY <1>1 DEF Mode
<1>3. nextHash \in Seq(Branch) /\ CoreHash(Len(nextHash)) \in Seq(Branch)
  <2>1. nextHash \in Seq(Branch) /\ tip \in Seq(Branch) /\ Len(nextHash) \in 0 .. Len(tip)
    BY LenProperties DEF Shape, AllSound
  <2> QED
    BY <2>1, Prefix DEF CoreHash
<1>4. PICK b \in Seq(Branch) : block' = GetBlock(b)
  BY <1>3 DEF FetchSerial
<1>5. block' \in Item /\ Sound(block')
  BY <1>4, CoreAnswers
<1>6. Shape'
  BY <1>1, <1>5 DEF Shape, core, pipe, AnalyzerPc
<1>7. Room' /\ Mode' /\ Chained' /\ Frontier'
  BY <1>1, <1>2 DEF Room, Mode, Chained, Fed, Frontier, pipe
<1>8. AllSound'
  BY <1>1, <1>5, SoundAsBefore DEF pipe
<1> QED
  BY <1>6, <1>7, <1>8

\* stopPrefetch() tells the producer, ...
LEMMA SignalStopKeeps ==
    ASSUME PrefetchInv, SignalStop
    PROVE  PrefetchInv'
<1> USE DEF PrefetchInv
<1>1. /\ pc = "stop" /\ pfStop' = TRUE /\ producer' = Notified(producer) /\ pc' = "join"
      /\ UNCHANGED <<core, queue, after, block, nextHash, bulkSync, active, stopRequest, faults>>
  BY DEF SignalStop
<1>2. /\ producer' \in ProducerRec /\ producer'.item = producer.item
      /\ producer'.pc \in {"fetch", "push"} => producer.pc \in {"fetch", "push"}
  BY <1>1, NotifiedKeeps DEF Shape
<1>3. Shape'
  BY <1>1, <1>2 DEF Shape, core, AnalyzerPc
<1>4. Room' /\ Mode' /\ Chained'
  BY <1>1, <1>2 DEF Room, Mode, Chained, Fed
<1>5. AllSound'
  BY <1>1, <1>2, SoundAsBefore DEF AllSound
<1>6. Frontier'
  BY <1>1 DEF Frontier, Deep, InChain, CoreHash, core
<1> QED
  BY <1>3, <1>4, <1>5, <1>6

\* A queue that is emptied.
LEMMA EmptyQueue ==
    ASSUME PrefetchInv, UNCHANGED <<core, block, nextHash>>, queue' = <<>>,
           Sound(producer'.item), producer'.pc \notin {"fetch", "push"}, pfStop' = FALSE
    PROVE  AllSound' /\ Room' /\ queue' \in Seq(Item)
<1>1. <<>> \in Seq(Item) /\ Len(<<>>) = 0 /\ MaxDepth \in Nat
  BY EmptySeq, PrefetchConstants
<1>2. \A k \in 1 .. Len(queue') : FALSE
  BY <1>1
<1>3. AllSound'
  BY <1>2 DEF PrefetchInv, AllSound, Sound, Deep, InChain, CoreHash, core
<1> QED
  BY <1>1, <1>3 DEF Room

\* ... waits for its end, ...
LEMMA JoinKeeps ==
    ASSUME PrefetchInv, Join
    PROVE  PrefetchInv'
<1> USE DEF PrefetchInv
<1>1. /\ pc = "join" /\ producer' = Gone /\ queue' = <<>> /\ pfStop' = FALSE /\ active' = FALSE
      /\ pc' = after
      /\ UNCHANGED <<core, after, block, nextHash, bulkSync, stopRequest, faults>>
  BY DEF Join
<1>2. Gone \in ProducerRec /\ Sound(Gone.item) /\ Gone.pc = "none"
  BY NoAnswers DEF Gone
<1>3. AllSound' /\ Room' /\ queue' \in Seq(Item)
  BY <1>1, <1>2, EmptyQueue
<1>4. Shape'
  BY <1>1, <1>2, <1>3 DEF Shape, core
<1>5. Chained'
  BY <1>1 DEF Chained, Fed
<1>6. after \notin {"take", "asleep", "loop", "tip", "stop", "join"}
  BY DEF Mode, Back
<1>7. Mode'
  BY <1>1, <1>6 DEF Mode
<1>8. Frontier'
  BY <1>1, <1>6 DEF Frontier, Deep, InChain, CoreHash, core
<1> QED
  BY <1>3, <1>4, <1>5, <1>7, <1>8

\* ... and startPrefetch() starts another one on the hash that is expected.
LEMMA SpawnKeeps ==
    ASSUME PrefetchInv, Spawn
    PROVE  PrefetchInv'
<1> USE DEF PrefetchInv
<1>1. /\ pc = "spawn" /\ producer' = [Gone EXCEPT !.pc = "check", !.hash = nextHash]
      /\ queue' = <<>> /\ pfStop' = FALSE /\ active' = TRUE /\ pc' = "take"
      /\ UNCHANGED <<core, after, block, nextHash, bulkSync, stopRequest, faults>>
  BY DEF Spawn
<1>2. Gone \in ProducerRec /\ Sound(Gone.item) /\ nextHash \in Seq(Branch)
  BY NoAnswers DEF Gone, Shape
<1>3. /\ producer' \in ProducerRec /\ producer'.item = Gone.item
      /\ producer'.pc = "check" /\ producer'.hash = nextHash
  BY <1>1, <1>2 DEF ProducerRec, ProducerPc
<1>4. AllSound' /\ Room' /\ queue' \in Seq(Item)
  BY <1>1, <1>2, <1>3, EmptyQueue
<1>5. Shape'
  BY <1>1, <1>3, <1>4 DEF Shape, core, AnalyzerPc
<1>6. Mode'
  BY <1>1 DEF Mode
<1>7. Frontier'
  BY <1>1 DEF Frontier, Deep, InChain, CoreHash, core
<1>8. Chained'
  <2>1. Newest' = nextHash
    BY <1>1 DEF Newest, Expected
  <2>2. \A k \in 1 .. Len(queue') - 1 : FALSE
    BY <1>1, EmptySeq
  <2> QED
    BY <1>1, <1>3, <2>1, <2>2 DEF Chained, Linked
<1> QED
  BY <1>4, <1>5, <1>6, <1>7, <1>8

-----------------------------------------------------------------------------
(* The rows. *)

\* Cutting a list of blocks.
LEMMA Cut ==
    ASSUME NEW s \in Seq(Seq(Branch)), NEW h \in 0 .. Len(s)
    PROVE  /\ SubSeq(s, 1, h) \in Seq(Seq(Branch)) /\ Len(SubSeq(s, 1, h)) = h
           /\ \A i \in 1 .. h : SubSeq(s, 1, h)[i] = s[i]
           /\ h = 0 <=> SubSeq(s, 1, h) = <<>>
<1>1. \A i \in 1 .. h : s[i] \in Seq(Branch)
  BY ElementOfSeq, LenProperties
<1>2. h \in Int /\ 1 \in Int /\ h - 1 + 1 = h
  BY LenProperties
<1>3. /\ SubSeq(s, 1, h) \in Seq(Seq(Branch))
      /\ Len(SubSeq(s, 1, h)) = IF 1 <= h THEN h - 1 + 1 ELSE 0
      /\ \A i \in 1 .. h - 1 + 1 : SubSeq(s, 1, h)[i] = s[1 + i - 1]
  BY <1>1, <1>2, SubSeqProperties
<1>4. Len(SubSeq(s, 1, h)) = h
  BY <1>3, LenProperties
<1>5. \A i \in 1 .. h : SubSeq(s, 1, h)[i] = s[i]
  BY <1>2, <1>3
<1>6. h = 0 <=> SubSeq(s, 1, h) = <<>>
  BY <1>3, <1>4, EmptySeq
<1> QED
  BY <1>3, <1>4, <1>5, <1>6

\* The newest row is a block.
LEMMA NewestRow ==
    ASSUME Stored
    PROVE  /\ index \in Seq(Branch) /\ Len(rows) \in Nat /\ Len(headers) \in Nat
           /\ Len(rows) # 0 => index = rows[Len(rows)]
<1>1. Len(rows) \in Nat /\ Len(headers) \in Nat /\ (rows # <<>> => Len(rows) \in Nat \ {0})
      /\ Len(<<>>) = 0
  BY LenProperties, EmptySeq DEF Stored
<1>2. CASE rows = <<>>
  BY <1>1, <1>2, EmptySeq DEF index, NoHash
<1>3. CASE rows # <<>>
  <2>1. Len(rows) \in 1 .. Len(rows)
    BY <1>1, <1>3
  <2>2. rows[Len(rows)] \in Seq(Branch)
    BY <2>1, ElementOfSeq DEF Stored
  <2> QED
    BY <1>1, <1>3, <2>2 DEF index
<1> QED
  BY <1>2, <1>3

\* Where a pass goes on after an error or a fork.
LEMMA StartFromKeeps ==
    ASSUME Shape, Stored, OneChain, NEW h \in 1 .. Len(headers), StartFrom(h), tip' = tip,
           failed' \in BOOLEAN
    PROVE  /\ Stored' /\ OneChain' /\ Len(nextHash') = Len(headers') /\ (masked => masked')
           /\ ~masked' => index' = index \/ \E n \in 0 .. (Len(index) - 1) : index' = SubSeq(index, 1, n)
<1>1. /\ headers' = SubSeq(headers, 1, h) /\ rows' = SubSeq(rows, 1, h - 1)
      /\ nextHash' = CoreHash(h) /\ masked' = (masked \/ index' # Parent(CoreHash(h)))
  BY DEF StartFrom
<1>2. /\ Len(headers) \in Nat /\ Len(rows) \in Nat /\ Len(tip) \in Nat
      /\ headers \in Seq(Seq(Branch)) /\ rows \in Seq(Seq(Branch)) /\ tip \in Seq(Branch)
      /\ Len(headers) <= Len(tip) /\ Len(headers) - 1 <= Len(rows) /\ index \in Seq(Branch)
  BY NewestRow, LenProperties DEF Stored, Shape
<1>3. /\ h \in Nat /\ h \in 0 .. Len(headers) /\ h - 1 \in 0 .. Len(rows) /\ h \in 0 .. Len(tip)
      /\ h - 1 \in Nat /\ h # 0
  BY <1>2
<1>4. headers' \in Seq(Seq(Branch)) /\ Len(headers') = h
  BY <1>1, <1>2, <1>3, Cut
<1>5. /\ rows' \in Seq(Seq(Branch)) /\ Len(rows') = h - 1
      /\ \A i \in 1 .. h - 1 : rows'[i] = rows[i]
      /\ h - 1 = 0 <=> rows' = <<>>
  BY <1>1, <1>2, <1>3, Cut
<1>6. nextHash' \in Seq(Branch) /\ Len(nextHash') = h
  BY <1>1, <1>2, <1>3, Prefix DEF CoreHash
<1>7. masked' \in BOOLEAN /\ (masked => masked')
  BY <1>1 DEF Stored
<1>8. Stored'
  BY <1>2, <1>3, <1>4, <1>5, <1>7 DEF Stored
<1>9. ASSUME ~masked'
      PROVE  /\ index' = index \/ \E n \in 0 .. (Len(index) - 1) : index' = SubSeq(index, 1, n)
             /\ Len(index') = Len(rows')
             /\ \A k \in 1 .. Len(rows') : rows'[k] = SubSeq(index', 1, k)
  <2>1. /\ Len(index) = Len(rows)
        /\ \A k \in 1 .. Len(rows) : rows[k] = SubSeq(index, 1, k)
    BY <1>7, <1>9 DEF OneChain
  <2>2. CASE h = 1
    <3>1. rows' = <<>> /\ index' = <<>> /\ Len(<<>>) = 0
      BY <1>5, <2>2, EmptySeq DEF index, NoHash
    <3>2. SubSeq(index, 1, 0) = <<>>
      BY SubSeqEmpty
    <3>3. index = <<>> \/ 0 \in 0 .. (Len(index) - 1)
      BY <1>2, EmptySeq
    <3> QED
      BY <3>1, <3>2, <3>3
  <2>3. CASE h # 1
    <3>1. h - 1 \in 1 .. Len(rows) /\ h - 1 \in 1 .. h - 1 /\ rows' # <<>> /\ h - 1 \in 0 .. Len(index)
      BY <1>2, <1>3, <1>5, <2>1, <2>3
    <3>2. index' = rows[h - 1]
      BY <1>5, <3>1 DEF index
    <3>3. index' = SubSeq(index, 1, h - 1)
      BY <2>1, <3>1, <3>2
    <3>4. Len(index') = h - 1
      BY <1>2, <3>1, <3>3, Prefix
    <3>5. ASSUME NEW k \in 1 .. h - 1
          PROVE  rows'[k] = SubSeq(index', 1, k)
      <4>1. k \in 1 .. Len(rows) /\ k \in 0 .. h - 1
        BY <1>2, <1>3
      <4>2. rows'[k] = SubSeq(index, 1, k)
        BY <1>5, <2>1, <4>1
      <4>3. SubSeq(SubSeq(index, 1, h - 1), 1, k) = SubSeq(index, 1, k)
        BY <1>2, <3>1, <4>1, PrefixOfPrefix
      <4> QED
        BY <3>3, <4>2, <4>3
    <3>6. h - 1 = Len(rows) => index' = index
      <4>1. Len(rows) # 0 => index = rows[Len(rows)]
        BY NewestRow
      <4> QED
        BY <3>1, <3>2, <4>1
    <3>7. h - 1 # Len(rows) => h - 1 \in 0 .. (Len(index) - 1)
      BY <1>2, <1>3, <2>1
    <3> QED
      BY <1>5, <3>3, <3>4, <3>5, <3>6, <3>7
  <2> QED
    BY <2>2, <2>3
<1>10. OneChain'
  BY <1>1, <1>9 DEF OneChain
<1> QED
  BY <1>4, <1>6, <1>7, <1>8, <1>9, <1>10

\* A step that leaves the database alone.
LEMMA DatabaseKept ==
    ASSUME IndexInv, UNCHANGED <<database, failed>>, Len(tip') >= Len(tip), Len(tip) \in Nat,
           Len(tip') \in Nat, Placed', nextHash' = nextHash
    PROVE  IndexInv'
<1>1. Stored'
  BY NewestRow DEF IndexInv, Stored, database
<1>2. OneChain'
  BY DEF IndexInv, OneChain, database, index
<1> QED
  BY <1>1, <1>2 DEF IndexInv

\* Core's chain moves.
LEMMA CoreKeepsIndex ==
    ASSUME PrefetchInv, IndexInv, CoreExtend \/ CoreReorg
    PROVE  IndexInv'
<1>1. Len(tip') = Len(tip) + 1 /\ Len(tip) \in Nat
  BY CoreGrows, LenProperties DEF PrefetchInv, Shape
<1>2. UNCHANGED analyzer
  BY DEF CoreExtend, CoreReorg
<1>3. Placed'
  BY <1>2 DEF IndexInv, Placed, Asking, analyzer, thread, database
<1> QED
  BY <1>1, <1>2, <1>3, DatabaseKept DEF analyzer, thread

\* A pass is entered, after an error from the newest header.
LEMMA MainEnterKeepsIndex ==
    ASSUME PrefetchInv, IndexInv, MainEnter
    PROVE  IndexInv'
<1> USE DEF IndexInv
<1>1. pc = "off" /\ pc' = "rewind" /\ failed' = FALSE /\ tip' = tip /\ after' = after
  BY DEF MainEnter, core
<1>2. ~Asking /\ ~Asking'
  BY <1>1 DEF Asking, Ahead
<1>3. CASE failed
  <2>1. StartFrom(Len(headers)) /\ Len(headers) \in 1 .. Len(headers)
    BY <1>3, NewestRow DEF MainEnter, Stored
  <2>2. Stored' /\ OneChain' /\ Len(nextHash') = Len(headers')
    BY <1>1, <2>1, StartFromKeeps DEF PrefetchInv
  <2> QED
    BY <1>1, <1>2, <2>2 DEF Placed
<1>4. CASE ~failed
  <2>1. UNCHANGED <<nextHash, database>>
    BY <1>4 DEF MainEnter
  <2>2. Placed'
    BY <1>1, <1>2, <1>4, <2>1 DEF Placed, database
  <2>3. failed' = failed
    BY <1>1, <1>4 DEF Stored
  <2>4. Len(tip) \in Nat
    BY LenProperties DEF PrefetchInv, Shape
  <2> QED
    BY <1>1, <2>1, <2>2, <2>3, <2>4, DatabaseKept
<1> QED
  BY <1>3, <1>4

\* Where phaseRewind() goes back to.
LEMMA ResumesAt ==
    ASSUME IndexInv, Resume
    PROVE  /\ UNCHANGED <<nextHash, database>> \/ \E h \in 1 .. Len(headers) : StartFrom(h)
           /\ ~failed /\ Len(nextHash) = Len(headers) /\ failed' = failed /\ tip' = tip
<1>1. pc = "rewind" /\ failed' = failed /\ tip' = tip
  BY DEF Resume, core
<1>2. ~failed /\ Len(nextHash) = Len(headers) /\ Len(headers) \in Nat
  BY <1>1, NewestRow DEF IndexInv, Placed, Asking, Ahead
<1>3. CASE UNCHANGED <<nextHash, database>>
  BY <1>1, <1>2, <1>3
<1>4. CASE ~(UNCHANGED <<nextHash, database>>)
  <2>1. PICK h \in 1 .. Len(nextHash) - 1 : StartFrom(h)
    BY <1>4 DEF Resume
  <2>2. h \in 1 .. Len(headers)
    BY <1>2, <2>1
  <2> QED
    BY <1>1, <1>2, <2>1, <2>2
<1> QED
  BY <1>3, <1>4

\* A pass begins.
LEMMA ResumeKeepsIndex ==
    ASSUME PrefetchInv, IndexInv, Resume
    PROVE  IndexInv'
<1> USE DEF IndexInv
<1>1. pc = "rewind" /\ pc' = "loop"
  BY DEF Resume
<1>2. ~Asking'
  BY <1>1 DEF Asking, Ahead
<1>3. ~failed /\ Len(nextHash) = Len(headers) /\ failed' = failed /\ tip' = tip
  BY ResumesAt
<1>4. CASE UNCHANGED <<nextHash, database>>
  <2>1. Placed'
    BY <1>1, <1>2, <1>3, <1>4 DEF Placed, database
  <2>2. Len(tip) \in Nat
    BY LenProperties DEF PrefetchInv, Shape
  <2> QED
    BY <1>3, <1>4, <2>1, <2>2, DatabaseKept
<1>5. ASSUME NEW h \in 1 .. Len(headers), StartFrom(h)
      PROVE  IndexInv'
  <2>1. Stored' /\ OneChain' /\ Len(nextHash') = Len(headers')
    BY <1>3, <1>5, StartFromKeeps DEF PrefetchInv, Stored
  <2> QED
    BY <1>1, <1>2, <1>3, <2>1 DEF Placed
<1> QED
  BY <1>4, <1>5, ResumesAt

\* A block is processed.
LEMMA ProcessKeepsIndex ==
    ASSUME PrefetchInv, IndexInv, Process
    PROVE  /\ IndexInv' /\ index' = nextHash /\ masked' = masked /\ nextHash # <<>>
           /\ nextHash \in Seq(Branch) /\ (~masked => index \in {nextHash, Parent(nextHash)})
<1> USE DEF IndexInv
<1> DEFINE l == Len(nextHash)
           r == SubSeq(rows, 1, l - 1)
<1>1. /\ pc = "loop" /\ pc' = "tip" /\ block.hash = nextHash /\ rows' = Append(r, nextHash)
      /\ UNCHANGED <<core, after, block, nextHash, failed, headers, masked>>
  BY DEF Process, HashExpected
<1>2. ~failed /\ l = Len(headers) /\ ~Asking /\ ~Asking'
  BY <1>1 DEF Placed, Asking, Ahead
<1>3. /\ l \in Nat /\ l >= 1 /\ l - 1 \in 0 .. Len(rows) /\ l - 1 \in Nat /\ Len(rows) \in Nat
      /\ Len(rows) <= l /\ nextHash \in Seq(Branch) /\ rows \in Seq(Seq(Branch))
      /\ index \in Seq(Branch)
  BY <1>2, NewestRow DEF Stored, PrefetchInv, Shape
<1>4. /\ r \in Seq(Seq(Branch)) /\ Len(r) = l - 1 /\ \A i \in 1 .. l - 1 : r[i] = rows[i]
  BY <1>3, Cut
<1> HIDE DEF r
<1>5. /\ rows' \in Seq(Seq(Branch)) /\ Len(rows') = Len(r) + 1 /\ rows' # <<>>
      /\ \A i \in 1 .. Len(r) : rows'[i] = r[i]
      /\ rows'[Len(r) + 1] = nextHash
  BY <1>1, <1>3, <1>4, AppendProperties
<1>6. Len(rows') = l /\ rows'[l] = nextHash /\ \A i \in 1 .. l - 1 : rows'[i] = rows[i]
  BY <1>3, <1>4, <1>5
<1>7. index' = nextHash
  BY <1>5, <1>6 DEF index
<1>8. ~masked => index \in {nextHash, Parent(nextHash)}
  BY <1>2 DEF OneChain
<1>9. nextHash # <<>>
  BY <1>3, EmptySeq
<1>10. Stored'
  BY <1>1, <1>2, <1>3, <1>5, <1>6 DEF Stored, core
<1>11. Placed'
  BY <1>1, <1>2, <1>6 DEF Placed
<1>12. ASSUME ~masked, NEW k \in 1 .. l
       PROVE  rows'[k] = SubSeq(nextHash, 1, k)
  <2>1. CASE k = l
    BY <1>3, <1>6, <2>1, SubSeqFull
  <2>2. CASE k # l
    <3>1. k \in 1 .. l - 1 /\ k \in 1 .. Len(rows) /\ k \in 0 .. l - 1 /\ l - 1 \in 0 .. Len(nextHash)
      BY <1>3, <2>2
    <3>2. rows'[k] = SubSeq(index, 1, k)
      BY <1>6, <1>12, <3>1 DEF OneChain
    <3>3. SubSeq(SubSeq(nextHash, 1, l - 1), 1, k) = SubSeq(nextHash, 1, k)
      BY <1>3, <3>1, PrefixOfPrefix
    <3> QED
      BY <1>8, <1>12, <3>2, <3>3 DEF Parent
  <2> QED
    BY <2>1, <2>2
<1>13. OneChain'
  BY <1>1, <1>6, <1>7, <1>12 DEF OneChain
<1> QED
  BY <1>1, <1>3, <1>7, <1>8, <1>9, <1>10, <1>11, <1>13

\* The next block is asked for.
LEMMA AdvanceKeepsIndex ==
    ASSUME PrefetchInv, IndexInv, Advance
    PROVE  IndexInv'
<1> USE DEF IndexInv
<1>1. /\ pc = "tip" /\ block.next # NoHash /\ nextHash' = block.next /\ tip' = tip
      /\ UNCHANGED <<database, failed>>
      /\ Ahead(pc') \/ (pc' = "stop" /\ Ahead(after'))
  BY DEF Advance, StopThen, core, Ahead
<1>2. Asking' /\ pc' # "tip"
  BY <1>1 DEF Asking, Ahead
<1>3. ~failed /\ Len(nextHash) = Len(headers) /\ Len(rows) = Len(headers) /\ block.hash = nextHash
  BY <1>1 DEF Placed, Asking, Ahead
<1>4. block.next \in Seq(Branch) /\ block.next # <<>> /\ Parent(block.next) = nextHash
  BY <1>1, <1>3 DEF PrefetchInv, AllSound, Sound, Shape, Item, NoHash
<1>5. Len(block.next) = Len(headers) + 1 /\ Len(Parent(nextHash)) # Len(nextHash)
  <2>1. /\ Len(nextHash) \in Nat \ {0} /\ Len(block.next) \in Nat \ {0} /\ nextHash \in Seq(Branch)
        /\ Len(headers) \in Nat
    <3>1. Len(headers) >= 1
      BY DEF Stored
    <3> QED
      BY <1>3, <1>4, <3>1, NewestRow, EmptySeq, LenProperties DEF PrefetchInv, Shape
  <2>2. Len(block.next) - 1 \in 0 .. Len(block.next) /\ Len(nextHash) - 1 \in 0 .. Len(nextHash)
    BY <2>1
  <2>3. Len(Parent(block.next)) = Len(block.next) - 1 /\ Len(Parent(nextHash)) = Len(nextHash) - 1
    BY <1>4, <2>1, <2>2, Prefix DEF Parent
  <2>4. Len(block.next) - 1 = Len(nextHash)
    BY <1>4, <2>3
  <2> HIDE DEF IndexInv
  <2> QED
    BY <1>3, <2>1, <2>3, <2>4
<1>6. Placed'
  BY <1>1, <1>2, <1>3, <1>5 DEF Placed, database
<1>7. ~masked => index = nextHash
  BY <1>3, <1>5 DEF OneChain
<1>8. OneChain'
  BY <1>1, <1>4, <1>7 DEF OneChain, database, index
<1>9. Stored'
  BY <1>1 DEF Stored, database
<1> QED
  BY <1>6, <1>8, <1>9

\* The header of the block that was asked for is stored.
LEMMA StoreKeepsIndex ==
    ASSUME PrefetchInv, IndexInv, Asking, NEW b \in Seq(Branch), headers' = Append(headers, b),
           pc' = "loop", UNCHANGED <<core, nextHash, failed, rows, masked>>
    PROVE  IndexInv'
<1> USE DEF IndexInv
<1>1. ~failed /\ Len(nextHash) = Len(headers) + 1 /\ Len(rows) = Len(headers)
  BY DEF Placed, Asking, Ahead
<1>2. /\ headers' \in Seq(Seq(Branch)) /\ Len(headers') = Len(headers) + 1
  BY AppendProperties DEF Stored
<1>3. /\ Len(headers) \in Nat /\ Len(headers) >= 1 /\ Len(tip) \in Nat /\ Len(nextHash) <= Len(tip)
  BY NewestRow, LenProperties DEF Stored, PrefetchInv, AllSound, Shape
<1>4. Stored'
  BY <1>1, <1>2, <1>3 DEF Stored, core
<1>5. Placed'
  BY <1>1, <1>2 DEF Placed, Asking, Ahead
<1>6. OneChain'
  BY DEF OneChain, index
<1> QED
  BY <1>4, <1>5, <1>6

\* What is taken from the queue, ...
LEMMA TakeKeepsIndex ==
    ASSUME PrefetchInv, IndexInv, Take
    PROVE  IndexInv'
<1> USE DEF IndexInv
<1>1. pc = "take" /\ UNCHANGED <<core, nextHash, rows, masked>> /\ Asking /\ ~failed
  BY DEF Take, Asking, Ahead, Placed
<1>2. ~pfStop /\ Len(tip) \in Nat /\ tip' = tip
  BY <1>1, LenProperties DEF PrefetchInv, Room, Shape, core
<1>3. Len(nextHash) = Len(headers) + 1 /\ Len(rows) = Len(headers)
  BY <1>1 DEF Placed
<1>4. CASE queue = <<>>
  <2>1. pc' = "asleep" /\ headers' = headers /\ failed' = failed
    BY <1>2, <1>4 DEF Take
  <2>2. Placed'
    BY <1>1, <1>3, <2>1 DEF Placed, Asking, Ahead
  <2> QED
    BY <1>1, <1>2, <2>1, <2>2, DatabaseKept DEF database
<1>5. CASE queue # <<>>
  <2> DEFINE item == Head(queue)
  <2>1. Use(item) /\ item \in Item
    BY <1>5, HeadTailProperties DEF Take, PrefetchInv, Shape
  <2> HIDE DEF item
  <2>2. CASE pc' = "stop" /\ after' = "off" /\ failed' = TRUE /\ headers' = headers
    <3>1. Stored'
      BY <1>1, <1>2, <2>2 DEF Stored
    <3>2. Placed'
      BY <1>3, <2>2 DEF Placed, Asking, Ahead
    <3>3. OneChain'
      BY <1>1, <2>2 DEF OneChain, index
    <3> QED
      BY <3>1, <3>2, <3>3
  <2>3. CASE pc' = "stop" /\ after' \in {"expected", "height"} /\ failed' = failed /\ headers' = headers
    <3>1. Placed'
      BY <1>1, <1>3, <2>3 DEF Placed, Asking, Ahead
    <3> QED
      BY <1>1, <1>2, <2>3, <3>1, DatabaseKept DEF database
  <2>4. CASE pc' = "loop" /\ headers' = Append(headers, item.hash) /\ failed' = failed
    <3>1. item.hash \in Seq(Branch)
      BY <2>1 DEF Item
    <3> QED
      BY <1>1, <2>4, <3>1, StoreKeepsIndex
  <2> QED
    BY <2>1, <2>2, <2>3, <2>4 DEF Use, StopThen, Store
<1> QED
  BY <1>4, <1>5

\* ... or asked of Core.
LEMMA FetchSerialKeepsIndex ==
    ASSUME PrefetchInv, IndexInv, FetchSerial
    PROVE  IndexInv'
<1>1. /\ pc \in {"serial", "expected", "height"} /\ pc' = "loop"
      /\ headers' = Append(headers, block'.hash)
      /\ UNCHANGED <<core, nextHash, failed, rows, masked>>
  BY DEF FetchSerial, Store
<1>2. block'.hash \in Seq(Branch)
  BY FetchSerialKeeps DEF PrefetchInv, Shape, Item
<1>3. Asking
  BY <1>1 DEF Asking, Ahead
<1> QED
  BY <1>1, <1>2, <1>3, StoreKeepsIndex

\* A call throws: recovery is due.
LEMMA ThrowKeepsIndex ==
    ASSUME PrefetchInv, IndexInv, Throw
    PROVE  IndexInv'
<1>1. pc' = "off" /\ failed' = TRUE /\ tip' = tip /\ UNCHANGED database
  BY DEF Throw, LeaveBehind, core
<1>2. Stored' /\ Placed' /\ OneChain'
  BY <1>1 DEF IndexInv, Stored, Placed, OneChain, Asking, Ahead, database, index
<1> QED
  BY <1>2 DEF IndexInv

\* The steps that leave the database and what the analyzer asks for as they are.
LEMMA OthersKeepIndex ==
    ASSUME PrefetchInv, IndexInv,
           \/ Producer \/ FetchFails \/ SpuriousWakeup \/ RequestStop
           \/ LoopExit \/ TipPoll \/ SignalStop \/ Join \/ Spawn \/ Destroy
    PROVE  IndexInv'
<1>1. UNCHANGED <<database, failed, nextHash, core>>
  BY DEF Producer, WaitForSpace, FetchAhead, Push, FetchFails, SpuriousWakeup, RequestStop,
     LoopExit, TipPoll, SignalStop, Join, Spawn, Destroy, analyzer, thread
<1>2. Len(tip) \in Nat /\ tip' = tip
  BY <1>1, LenProperties DEF PrefetchInv, Shape, core
<1>3. UNCHANGED <<headers, rows>>
  BY <1>1 DEF database
<1>4. Placed
  BY DEF IndexInv
<1>5. CASE Producer \/ FetchFails \/ SpuriousWakeup \/ RequestStop
  <2>1. pc' = pc \/ (pc = "asleep" /\ pc' = "take")
    BY <1>5 DEF Producer, WaitForSpace, FetchAhead, Push, FetchFails, SpuriousWakeup, RequestStop,
       analyzer, thread
  <2>2. after' = after /\ block' = block
    BY <1>5 DEF Producer, WaitForSpace, FetchAhead, Push, FetchFails, SpuriousWakeup, RequestStop,
       analyzer, thread
  <2>3. Placed'
    BY <1>1, <1>3, <1>4, <2>1, <2>2 DEF Placed, Asking, Ahead
  <2> QED
    BY <1>1, <1>2, <2>3, DatabaseKept
<1>6. CASE LoopExit \/ Destroy
  <2>1. /\ pc \in {"loop", "off"} /\ pc' \in {"off", "stop"}
        /\ pc' = "stop" => after' \in {"off", "gone"}
        /\ pc = "loop" => ~failed
    BY <1>4, <1>6 DEF LoopExit, Destroy, StopThen, Placed
  <2>2. Placed'
    BY <1>1, <1>3, <1>4, <2>1 DEF Placed, Asking, Ahead
  <2> QED
    BY <1>1, <1>2, <2>2, DatabaseKept
<1>7. CASE TipPoll
  <2>1. pc = "tip" /\ block.hash \in Seq(Branch)
    BY <1>7 DEF TipPoll, PrefetchInv, Shape, Item
  <2>2. \/ pc' \in {"off", "stop"} /\ (pc' = "stop" => after' = "off")
        \/ pc' = "tip" /\ block'.hash = block.hash
    BY <1>7, <2>1, CoreAnswers DEF TipPoll, LeaveBehind, StopThen, PrefetchInv
  <2>3. Placed'
    BY <1>1, <1>3, <1>4, <2>1, <2>2 DEF Placed, Asking, Ahead
  <2> QED
    BY <1>1, <1>2, <2>3, DatabaseKept
<1>8. CASE SignalStop \/ Join \/ Spawn
  <2>1. after \in Back /\ after' = after
    BY <1>8 DEF SignalStop, Join, Spawn, PrefetchInv, Mode
  <2>2. \/ pc = "stop" /\ pc' = "join"
        \/ pc = "join" /\ pc' = after
        \/ pc = "spawn" /\ pc' = "take"
    BY <1>8 DEF SignalStop, Join, Spawn
  <2>3. Placed'
    BY <1>1, <1>3, <1>4, <2>1, <2>2 DEF Placed, Asking, Ahead, Back
  <2> QED
    BY <1>1, <1>2, <2>3, DatabaseKept
<1> QED
  BY <1>5, <1>6, <1>7, <1>8

\* Every step keeps the invariant.
LEMMA PrefetchStep ==
    ASSUME PrefetchInv, IndexInv, [Next]_vars
    PROVE  PrefetchInv'
<1>1. CASE UNCHANGED vars
  BY <1>1 DEF vars, PrefetchInv, Shape, Room, AllSound, Sound, Mode, Chained, Fed, Linked, Expected,
       Newest, Frontier, Deep, InChain, CoreHash, core, pipe, analyzer, thread
<1>2. CASE Producer
  BY <1>2, WaitForSpaceKeeps, FetchAheadKeeps, PushKeeps DEF Producer
<1>3. CASE Analyzer
  BY <1>3, MainEnterKeeps, ResumeKeeps, ProcessKeeps, LoopExitKeeps, TipPollKeeps, AdvanceKeeps, TakeKeeps,
     FetchSerialKeeps, SignalStopKeeps, JoinKeeps, SpawnKeeps, DestroyKeeps DEF Analyzer
<1>4. CASE Environment
  BY <1>4, CoreKeeps, FetchFailsKeeps, ThrowKeeps, WakeupKeeps, RequestKeeps DEF Environment
<1> QED
  BY <1>1, <1>2, <1>3, <1>4 DEF Next

\* The analyzer starts with nothing indexed and no producer.
LEMMA PrefetchInit ==
    ASSUME Init
    PROVE  PrefetchInv
<1>1. /\ StartHeight \in Nat /\ StartHeight >= 1 /\ Trunk \in Branch /\ MaxDepth \in Nat
      /\ BulkGap \in Nat
  BY PrefetchConstants
<1>2. tip \in [1 .. StartHeight -> Branch]
  BY <1>1 DEF Init
<1>3. tip \in Seq(Branch) /\ Len(tip) = StartHeight
  <2>1. tip \in Seq(Branch)
    BY <1>1, <1>2, SeqDef
  <2>2. DOMAIN tip = 1 .. Len(tip) /\ DOMAIN tip = 1 .. StartHeight /\ Len(tip) \in Nat
    BY <1>2, <2>1, LenProperties
  <2>3. ASSUME NEW m \in Nat, NEW n \in Nat, 1 .. m = 1 .. n
        PROVE  m = n
    <3>1. \A i \in Int : i \in 1 .. m <=> i \in 1 .. n
      BY <2>3
    <3> QED
      BY <3>1
  <2> QED
    BY <1>1, <2>1, <2>2, <2>3
<1>4. /\ <<>> \in Seq(Branch) /\ <<>> \in Seq(Item) /\ Len(<<>>) = 0
  BY EmptySeq
<1>5. NoBlock \in Item /\ Gone \in ProducerRec
  BY <1>4 DEF NoBlock, Gone, NoHash, Item, ProducerRec, ProducerPc
<1>6. Shape
  <2>1. /\ queue = <<>> /\ producer = Gone /\ pc = "off" /\ after = "off" /\ block = NoBlock
        /\ nextHash = <<>>
    BY DEF Init, NoHash
  <2>2. {bulkSync, active, stopRequest, pfStop} \subseteq BOOLEAN
    BY Zenon DEF Init
  <2>3. {reorgs, deepest, faults} \subseteq Nat
    <3>1. reorgs = 0 /\ deepest = 0 /\ faults = 0
      BY DEF Init
    <3> QED
      BY <3>1
  <2> QED
    BY <1>1, <1>3, <1>4, <1>5, <2>1, <2>2, <2>3 DEF Shape, AnalyzerPc
<1>7. Sound(NoBlock) /\ Gone.item = NoBlock /\ Gone.pc = "none"
  BY <1>6, NoAnswers DEF Gone
<1>8. \A k \in 1 .. Len(queue) : FALSE
  BY <1>4 DEF Init
<1>9. AllSound
  BY <1>1, <1>3, <1>4, <1>7, <1>8 DEF Init, AllSound, NoHash
<1>10. Room /\ Mode /\ Chained /\ Frontier
  BY <1>1, <1>4, <1>7 DEF Init, Room, Mode, Back, Chained, Fed, Frontier
<1> QED
  BY <1>6, <1>9, <1>10 DEF PrefetchInv

\* The database starts with the header of block 1.
LEMMA IndexInit ==
    ASSUME Init
    PROVE  IndexInv
<1>1. Shape
  BY PrefetchInit DEF PrefetchInv
<1>2. /\ headers = <<CoreHash(1)>> /\ rows = <<>> /\ failed = TRUE /\ masked = FALSE /\ pc = "off"
  BY DEF Init
<1>3. CoreHash(1) \in Seq(Branch) /\ Len(tip) \in Nat /\ Len(tip) >= 1
  <2>1. tip \in Seq(Branch) /\ Len(tip) \in Nat /\ 1 \in 0 .. Len(tip)
    BY <1>1, LenProperties DEF Shape
  <2> QED
    BY <2>1, Prefix DEF CoreHash
<1>4. headers \in Seq(Seq(Branch)) /\ Len(headers) = 1
  <2>1. <<>> \in Seq(Seq(Branch)) /\ Len(<<>>) = 0
    BY EmptySeq
  <2>2. headers = Append(<<>>, CoreHash(1))
    BY <1>2
  <2> QED
    BY <1>3, <2>1, <2>2, AppendProperties
<1>5. rows \in Seq(Seq(Branch)) /\ Len(rows) = 0 /\ index = <<>>
  BY <1>2, EmptySeq DEF index, NoHash
<1>6. Stored
  <2>1. failed \in BOOLEAN /\ masked \in BOOLEAN
    BY <1>2, Zenon
  <2>2. /\ Len(headers) \in 1 .. Len(tip) /\ Len(headers) - 1 \in 0 .. Len(rows)
        /\ Len(rows) <= Len(headers)
    BY <1>3, <1>4, <1>5
  <2> QED
    BY <1>4, <1>5, <2>1, <2>2 DEF Stored
<1>7. Placed
  BY <1>2 DEF Placed, Asking, Ahead
<1>8. OneChain
  <2>1. \A k \in 1 .. Len(rows) : FALSE
    BY <1>5
  <2> QED
    BY <1>2, <1>5, <2>1, EmptySeq DEF OneChain
<1> QED
  BY <1>6, <1>7, <1>8 DEF IndexInv

\* Every step keeps what is known of the database.
LEMMA IndexStep ==
    ASSUME PrefetchInv, IndexInv, [Next]_vars
    PROVE  IndexInv'
<1>1. CASE UNCHANGED vars
  BY <1>1 DEF vars, IndexInv, Stored, Placed, OneChain, Asking, index, core, analyzer, thread, database
<1>2. CASE Producer
  BY <1>2, OthersKeepIndex
<1>3. CASE Analyzer
  BY <1>3, MainEnterKeepsIndex, ResumeKeepsIndex, ProcessKeepsIndex, AdvanceKeepsIndex,
     TakeKeepsIndex, FetchSerialKeepsIndex, OthersKeepIndex DEF Analyzer
<1>4. CASE Environment
  BY <1>4, CoreKeepsIndex, ThrowKeepsIndex, OthersKeepIndex DEF Environment
<1> QED
  BY <1>1, <1>2, <1>3, <1>4 DEF Next

\* The invariant holds throughout.
LEMMA PrefetchAlways == Spec => [](PrefetchInv /\ IndexInv)
<1>1. Init => PrefetchInv /\ IndexInv
  BY PrefetchInit, IndexInit
<1>2. PrefetchInv /\ IndexInv /\ [Next]_vars => (PrefetchInv /\ IndexInv)'
  BY PrefetchStep, IndexStep
<1> QED
  BY <1>1, <1>2, PTL DEF Spec

-----------------------------------------------------------------------------
(* Results. *)

\* The pipeline keeps its types, and the producer never reads ahead of the analyzer by more than
\* _pfMaxDepth blocks, whatever the two threads do in between (prefetchLoop).
THEOREM PrefetchTypeCorrectness == Spec => []TypeOK
<1>1. PrefetchInv /\ IndexInv => TypeOK
  BY DEF PrefetchInv, Shape, Room, TypeOK, ProducerRec, ProducerPc, AnalyzerPc, IndexInv, Stored
<1> QED
  BY <1>1, PrefetchAlways, PTL

\* The block at the head of the queue is the one the analyzer expects, however Core's chain moved
\* under the producer and whatever producers earlier passes left running
\* (getNextPrefetchedBlock, phaseSync).
THEOREM HeadIsExpected == Spec => []Lockstep
<1>1. PrefetchInv => Lockstep
  BY DEF PrefetchInv, Mode, Chained, Fed, Linked, Expected, Follows, Lockstep
<1> QED
  BY <1>1, PrefetchAlways, PTL

\* A block that comes through the pipeline is on Core's chain although nobody asks Core, as long
\* as no reorganisation is as deep as the gap that makes a sync a bulk sync (phaseSync).
THEOREM PipelineStaysOnChain == Spec => []FrontierSafe
<1>1. PrefetchInv => FrontierSafe
  BY DEF PrefetchInv, Frontier, FrontierSafe, Deep
<1> QED
  BY <1>1, PrefetchAlways, PTL

\* The pipelined analyzer implements the index it promises its readers, one chain of blocks, each
\* the child of the one before it, cut only at its newest end, until a pass begins at a block the
\* rows do not lead to (mainFunction after an error).
THEOREM PrefetchImplementsIndex == Spec => ImplementsChainIndex
<1>1. Init => Index!Init
  BY DEF Init, Index!Init, index, NoHash
<1>2. PrefetchInv /\ IndexInv /\ [Next]_vars => [masked' \/ Index!Next]_index
  <2>1. ASSUME PrefetchInv, IndexInv, Process
        PROVE  [masked' \/ Index!Next]_index
    <3>1. /\ index' = nextHash /\ nextHash # <<>> /\ nextHash \in Seq(Branch) /\ masked' = masked
          /\ ~masked => index \in {nextHash, Parent(nextHash)}
      BY <2>1, ProcessKeepsIndex
    <3>2. \E l \in Branch : nextHash = Append(Parent(nextHash), l)
      BY <3>1, ChildOfParent
    <3> QED
      BY <3>1, <3>2 DEF Index!Next, Index!Extend
  <2>2. ASSUME PrefetchInv, IndexInv, NEW h \in 1 .. Len(headers), StartFrom(h), tip' = tip,
               failed' \in BOOLEAN
        PROVE  [masked' \/ Index!Next]_index
    <3>1. ~masked' => index' = index \/ \E n \in 0 .. (Len(index) - 1) : index' = SubSeq(index, 1, n)
      BY <2>2, StartFromKeeps DEF PrefetchInv, IndexInv
    <3> QED
      BY <3>1 DEF Index!Next, Index!RollBack
  <2>3. ASSUME PrefetchInv, IndexInv, MainEnter \/ Resume
        PROVE  [masked' \/ Index!Next]_index
    <3>1. CASE UNCHANGED database
      BY <3>1 DEF database, index
    <3>2. CASE MainEnter /\ ~UNCHANGED database
      <4>1. /\ StartFrom(Len(headers)) /\ Len(headers) \in 1 .. Len(headers) /\ tip' = tip
            /\ failed' \in BOOLEAN
        <5>1. Len(headers) \in Nat /\ Len(headers) \in 1 .. Len(tip)
          BY <2>3, NewestRow DEF IndexInv, Stored
        <5>2. failed' = FALSE /\ tip' = tip
          BY <3>2 DEF MainEnter, core
        <5>3. StartFrom(Len(headers))
          BY <3>2 DEF MainEnter
        <5>4. failed' \in BOOLEAN
          BY <5>2, Zenon
        <5> QED
          BY <5>1, <5>2, <5>3, <5>4
      <4> QED
        BY <2>2, <2>3, <4>1
    <3>3. CASE Resume /\ ~UNCHANGED database
      <4>1. PICK h \in 1 .. Len(headers) : StartFrom(h)
        BY <2>3, <3>3, ResumesAt
      <4>2. tip' = tip /\ failed' \in BOOLEAN
        BY <2>3, <3>3, ResumesAt DEF IndexInv, Stored
      <4> QED
        BY <2>2, <2>3, <4>1, <4>2
    <3> QED
      BY <2>3, <3>1, <3>2, <3>3
  <2>4. ASSUME [Next]_vars, ~Process, ~MainEnter, ~Resume
        PROVE  index' = index
    <3>1. rows' = rows
      BY <2>4 DEF Next, Producer, Analyzer, Environment, WaitForSpace, FetchAhead, Push, LoopExit,
         TipPoll, Advance, Take, FetchSerial, SignalStop, Join, Spawn, Destroy, CoreExtend, CoreReorg,
         FetchFails, Throw, SpuriousWakeup, RequestStop, analyzer, thread, database, vars
    <3> QED
      BY <3>1 DEF index
  <2> QED
    BY <2>1, <2>3, <2>4
<1> QED
  BY <1>1, <1>2, PrefetchAlways, PTL DEF Spec, ImplementsChainIndex
================================================================================
