----------------------------- MODULE AssetTransfer -----------------------------
(***************************************************************************)
(* Where a transaction's assets go: the transfer instructions the wallet   *)
(* writes into an OP_RETURN (DigiByteTransaction::buildTransferInstructions)*)
(* and the interpreter every node runs over them (decodeAssetTX and        *)
(* decodeAssetTransfer), up to the point where addToDatabase stores the    *)
(* outputs.                                                                *)
(*                                                                         *)
(* Instructions are records, not bits; a stream that ends inside an        *)
(* instruction is one with cut set.  Inputs are consumed strictly front to *)
(* back, one chunk a step.  A definition whose comment says "Mutant" is a  *)
(* mutant of the one after it.                                             *)
(***************************************************************************)
EXTENDS Integers, Sequences, SequencesExt, FiniteSets, FiniteSetsExt

CONSTANTS
    Assets,         \* asset indexes
    Aggregation,    \* [Assets -> {"aggregable", "hybrid", "dispersed"}]
    Ruled,          \* assets with rules
    Transactions,   \* transactions on the chain (see IsTransaction)
    Instructions,   \* what one may carry
    MaxInstructions,\* bound on the instructions of one transaction
    Orders,         \* transactions the wallet is asked to build
    Word            \* the values of uint64_t: 2^64 in the code

OpReturn == ""      \* the address of an output without one
BurnOutput == 31

Chunk == [asset : Assets, count : Nat]

\* type, version, inputs with their owners, the addresses of the outputs; the
\* asset issued and whether the node knows its index; the outputs and the
\* burns the wallet wants.
IsTransaction(t) ==
    /\ t.type \in {"issuance", "transfer", "burn"} /\ t.version \in 1 .. 3
    /\ Len(t.inputs) \in Nat /\ DOMAIN t.inputs = 1 .. Len(t.inputs)
    /\ \A i \in DOMAIN t.inputs : t.inputs[i].assets \in Seq(Chunk)
    /\ Len(t.addresses) \in Nat \ {0} /\ DOMAIN t.addresses = 1 .. Len(t.addresses)
    /\ t.issued \in Chunk /\ t.indexed \in BOOLEAN
    /\ t.outputs \in Seq(Seq(Chunk)) /\ t.burns \in Seq(Chunk)
    /\ Len(t.outputs) <= Len(t.addresses)

ASSUME TransferConstants ==
    /\ Aggregation \in [Assets -> {"aggregable", "hybrid", "dispersed"}]
    /\ Ruled \subseteq Assets /\ MaxInstructions \in Nat /\ Word \in Nat \ {0}
    /\ \A t \in Transactions \cup Orders : IsTransaction(t)
    /\ Instructions \subseteq [skip : BOOLEAN, range : BOOLEAN, cut : BOOLEAN,
                               percent : 0 .. 256, output : Nat, amount : Nat]

VARIABLES
    tx,             \* the transaction
    phase,          \* "build", "read", "remove", "done", "refused"
    script,         \* the instructions not yet read
    wanted,         \* what the wallet still has to assign: outputs and burns
    inputs,         \* the copy of the inputs' assets that is consumed
    index,          \* the input consumed next
    allowSkip,
    now,            \* the instruction at work, its asset and what is left to remove
    outputs,        \* _outputs[].assets
    burned,         \* [Assets -> Nat]: what instructions to the burn marker took
    unintentional,  \* _unintentionalBurn
    txType,         \* _txType
    malformed,      \* an instruction could not be carried out
    stored          \* addToDatabase went through

vars == <<tx, phase, script, wanted, inputs, index, allowSkip, now, outputs,
          burned, unintentional, txType, malformed, stored>>

-----------------------------------------------------------------------------
(* Amounts.                                                                 *)

\* The sum of f over S, counted: f[x] pairs for every x.
SumOver(f, S) == Cardinality(UNION {{x} \X (1 .. f[x]) : x \in S})

Count(chunks, a) ==
    SumOver([k \in DOMAIN chunks |-> IF chunks[k].asset = a THEN chunks[k].count ELSE 0], DOMAIN chunks)

CountAll(lists, a) == SumOver([i \in DOMAIN lists |-> Count(lists[i], a)], DOMAIN lists)

_assetFound == \E i \in DOMAIN tx.inputs : tx.inputs[i].assets # <<>>

\* A transfer or burn without assets on the inputs is none.
_moves == tx.type = "issuance" \/ _assetFound

\* The lists of the places that belong to an address.
SelectAt(lists, places, address) ==
    [i \in DOMAIN lists |-> IF places[i] = address THEN lists[i] ELSE <<>>]

\* The inputs with assets, and the k-th of them.
Full(t) == {i \in DOMAIN t.inputs : t.inputs[i].assets # <<>>}
Nth(t, k) == CHOOSE i \in Full(t) : Cardinality({j \in Full(t) : j <= i}) = k

\* The non-empty inputs; an issuance moves the new asset only.
Copied(t) ==
    IF t.type = "issuance" THEN << <<t.issued>> >>
    ELSE [k \in 1 .. Cardinality(Full(t)) |-> t.inputs[Nth(t, k)].assets]

Nothing == [a \in Assets |-> 0]
Empty(t) == [o \in DOMAIN t.addresses |-> <<>>]
NoInstruction == [skip |-> FALSE, range |-> FALSE, output |-> 0, amount |-> 0,
                  total |-> 0, asset |-> CHOOSE a \in Assets : TRUE, left |-> 0]

Init ==
    /\ \/ /\ tx \in Transactions
          /\ script \in BoundedSeq(Instructions, MaxInstructions)
          /\ phase = "read"
       \/ /\ tx \in Orders /\ script = <<>> /\ phase = "build"
    /\ wanted = [outputs |-> tx.outputs, burns |-> tx.burns]
    /\ inputs = Copied(tx) /\ index = 1 /\ allowSkip = TRUE
    /\ now = NoInstruction
    /\ outputs = Empty(tx) /\ burned = Nothing
    /\ unintentional = (tx.type = "issuance" /\ _assetFound)
    /\ txType = "standard" /\ malformed = FALSE /\ stored = FALSE

-----------------------------------------------------------------------------
(* buildTransferInstructions.                                               *)

HasUnits(chunk) == chunk.count > 0

\* Mutant: the inputs are routed from the back.
RoutedLast == SelectLastInSeq(inputs, LAMBDA chunks : \E k \in DOMAIN chunks : HasUnits(chunks[k]))

\* The chunk being routed: the first with something left, and the input it is on.
Routed == SelectInSeq(inputs, LAMBDA chunks : \E k \in DOMAIN chunks : HasUnits(chunks[k]))
Place == SelectInSeq(inputs[Routed], HasUnits)
RoutedChunk == inputs[Routed][Place]

Wants(chunk, w) == w.count > 0 /\ w.asset = chunk.asset

\* The output served next, 0 when none wants the asset.
Served(chunk) ==
    SelectInSeq(wanted.outputs, LAMBDA ws : \E k \in DOMAIN ws : Wants(chunk, ws[k]))

Least(m, n) == IF m <= n THEN m ELSE n

\* An instruction of the wallet: no skip, no range, no percentage.
Plain(output, amount) == [skip |-> FALSE, range |-> FALSE, cut |-> FALSE,
                          percent |-> 0, output |-> output, amount |-> amount]

Take(chunk, w) == Least(chunk.count, w.count)

\* The inputs with n fewer on the chunk being routed.
Less(n) == [inputs EXCEPT ![Routed][Place].count = @ - n]

\* An instruction has five bits for the output, and a burn keeps the last value.
Reachable(o) == o - 1 <= BurnOutput /\ ~(o - 1 = BurnOutput /\ tx.type = "burn")

RouteToOutput ==
    /\ phase = "build" /\ Routed # 0
    /\ LET chunk == RoutedChunk
           o == Served(chunk)
           k == SelectInSeq(wanted.outputs[o], LAMBDA w : Wants(chunk, w))
           n == Take(chunk, wanted.outputs[o][k])
       IN  /\ o # 0 /\ Reachable(o)
           /\ script' = Append(script, Plain(o - 1, n))
           /\ wanted' = [wanted EXCEPT !.outputs[o][k].count = @ - n]
           /\ inputs' = Less(n)
    /\ UNCHANGED <<tx, phase, index, allowSkip, now, outputs, burned, unintentional, txType, malformed, stored>>

\* What no output wants goes to the burn marker if it was declared.
RouteToBurn ==
    /\ phase = "build" /\ Routed # 0
    /\ LET chunk == RoutedChunk
           k == SelectInSeq(wanted.burns, LAMBDA w : Wants(chunk, w))
           n == Least(chunk.count, wanted.burns[k].count)
       IN  /\ Served(chunk) = 0 /\ k # 0
           /\ script' = Append(script, Plain(BurnOutput, n))
           /\ wanted' = [wanted EXCEPT !.burns[k].count = @ - n]
           /\ inputs' = Less(n)
    /\ UNCHANGED <<tx, phase, index, allowSkip, now, outputs, burned, unintentional, txType, malformed, stored>>

Unmet == \E a \in Assets : CountAll(wanted.outputs, a) + Count(wanted.burns, a) > 0

\* "No assets to build transfer instructions for", "Input assets not fully
\* assigned", "requests more assets than inputs provide".
Refuse ==
    /\ phase = "build"
    /\ \/ Routed = 0 /\ (inputs = <<>> \/ Unmet)
       \/ Routed # 0 /\ LET o == Served(RoutedChunk) IN
            IF o # 0 THEN ~Reachable(o)
            ELSE SelectInSeq(wanted.burns, LAMBDA w : Wants(RoutedChunk, w)) = 0
    /\ phase' = "refused"
    /\ UNCHANGED <<tx, script, wanted, inputs, index, allowSkip, now, outputs, burned,
                   unintentional, txType, malformed, stored>>

\* The transaction is on the chain and every node decodes it.
Sent ==
    /\ phase = "build" /\ Routed = 0 /\ inputs # <<>> /\ ~Unmet
    /\ phase' = "read" /\ inputs' = Copied(tx)
    /\ UNCHANGED <<tx, script, wanted, index, allowSkip, now, outputs, burned, unintentional,
                   txType, malformed, stored>>

-----------------------------------------------------------------------------
(* decodeAssetTransfer: one instruction.                                    *)

Exhausted(i) == i > Len(inputs) \/ (i <= Len(inputs) /\ inputs[i] = <<>>)

\* Versions before 3 leave everything to the change when input 0 is empty.
LegacyStop == tx.version < 3 /\ tx.type # "issuance" /\ tx.inputs[1].assets = <<>>

\* The catch: nothing stays assigned, the inputs are whole, no more is read.
Catch ==
    /\ outputs' = Empty(tx) /\ burned' = Nothing /\ inputs' = Copied(tx)
    /\ script' = <<>> /\ now' = NoInstruction /\ phase' = "read"
    /\ malformed' = TRUE
    /\ UNCHANGED <<tx, wanted, index, allowSkip, unintentional, txType, stored>>

\* decodeAssetTX gives up: storeUnknown makes it a standard transaction and
\* addToDatabase stores the outputs as they are.
GiveUp(ok) ==
    /\ phase' = "done" /\ txType' = "standard" /\ stored' = ok
    /\ UNCHANGED <<tx, script, wanted, inputs, index, allowSkip, now, burned, malformed>>

\* The amount of one output, then of the whole instruction.
Amount(i) == IF i.percent > 0 THEN ((inputs[index][1].count * i.percent) % Word) \div 256 ELSE i.amount

\* Mutant: a range counts one output too few.
TotalOneShort(i) == IF i.range THEN (i.output * Amount(i)) % Word ELSE Amount(i)

Total(i) == IF i.range THEN ((i.output + 1) * Amount(i)) % Word ELSE Amount(i)

ReadInstruction ==
    /\ phase = "read" /\ script # <<>> /\ ~Head(script).cut /\ ~LegacyStop /\ _moves
    /\ IF Exhausted(index) THEN Catch
       ELSE LET i == Head(script) IN
            /\ now' = [skip |-> i.skip, range |-> i.range, output |-> i.output,
                       amount |-> Amount(i), total |-> Total(i),
                       asset |-> inputs[index][1].asset, left |-> Total(i)]
            /\ script' = Tail(script) /\ phase' = "remove"
            /\ UNCHANGED <<tx, wanted, inputs, index, allowSkip, outputs, burned, unintentional,
                           txType, malformed, stored>>

\* One chunk at the front of the input.
RemoveChunk ==
    /\ phase = "remove" /\ now.left > 0
    /\ IF \/ Exhausted(index)
          \/ inputs[index][1].asset # now.asset
          \/ /\ inputs[index][1].count < now.left
             /\ Aggregation[now.asset] = "hybrid"
       THEN Catch
       ELSE LET have == inputs[index][1].count
                used == have <= now.left
                emptied == used /\ Len(inputs[index]) = 1
                rest == IF used THEN Tail(inputs[index])
                        ELSE [inputs[index] EXCEPT ![1].count = have - now.left]
            IN  /\ now' = [now EXCEPT !.left = IF used THEN @ - have ELSE 0]
                /\ inputs' = [inputs EXCEPT ![index] = rest]
                /\ index' = IF emptied THEN index + 1 ELSE index
                /\ allowSkip' = ~emptied
                /\ UNCHANGED <<tx, phase, script, wanted, outputs, burned, unintentional, txType, malformed, stored>>

\* Mutant: an aggregable asset is not merged with what the output holds.
AppendOnly(held, chunk) == Append(held, chunk)

\* addAssetToOutput: only aggregable assets merge.
addAssetToOutput(held, chunk) ==
    LET k == SelectInSeq(held, LAMBDA h : h.asset = chunk.asset)
    IN  IF Aggregation[chunk.asset] = "aggregable" /\ k # 0
        THEN [held EXCEPT ![k].count = held[k].count + chunk.count]
        ELSE Append(held, chunk)

Targets == (IF now.range THEN 0 ELSE now.output) .. now.output
IsBurn == tx.type = "burn" /\ ~now.range /\ now.output = BurnOutput

\* skip is ignored when the instruction emptied the input.
Skipped == IF now.skip /\ allowSkip THEN index + 1 ELSE index

\* Everything is removed: the outputs get it, the rest of the input may be skipped.
Apply ==
    /\ phase = "remove" /\ now.left = 0
    /\ IF now.total > 0 /\ ~IsBurn /\ now.output >= Len(outputs) THEN Catch
       ELSE /\ outputs' = [o \in DOMAIN outputs |->
                    IF now.total > 0 /\ ~IsBurn /\ o - 1 \in Targets
                    THEN addAssetToOutput(outputs[o], [asset |-> now.asset, count |-> now.amount])
                    ELSE outputs[o]]
            /\ burned' = [burned EXCEPT ![now.asset] = @ + IF IsBurn THEN now.total ELSE 0]
            /\ index' = Skipped
            /\ allowSkip' = (allowSkip \/ now.skip)
            /\ now' = NoInstruction /\ phase' = "read"
            /\ UNCHANGED <<tx, script, wanted, inputs, unintentional, txType, malformed, stored>>

\* The stream ends inside an instruction: out_of_range passes the catch of the
\* loop.  A transfer stops where it is; from an issuance it leaves the decoder.
Truncated ==
    /\ phase = "read" /\ _moves /\ script # <<>> /\ Head(script).cut
    /\ GiveUp(tx.type # "issuance")
    /\ UNCHANGED <<outputs, unintentional>>

\* No asset on any input: not an asset transaction.
NotAnAssetTransaction ==
    /\ phase = "read" /\ ~_moves
    /\ GiveUp(TRUE)
    /\ UNCHANGED <<outputs, unintentional>>

-----------------------------------------------------------------------------
(* decodeAssetTransfer: the end.                                             *)

ReadAll == phase = "read" /\ _moves /\ (script = <<>> \/ (script # <<>> /\ LegacyStop /\ ~Head(script).cut))

LastOutput == Len(outputs)

\* The input with the next leftover, 0 when all are gone through.
Leftover == SelectInSeq(inputs, LAMBDA chunks : chunks # <<>>)

\* An aggregable leftover is compared by index with what is there, and a new
\* asset has none yet.
UnknownIndex ==
    /\ tx.type = "issuance" /\ ~tx.indexed /\ Aggregation[tx.issued.asset] = "aggregable"
    /\ HasUnits(Head(inputs[Leftover])) /\ outputs[LastOutput] # <<>>

\* What is left over, the last output takes, chunk by chunk.
AddChange ==
    /\ ReadAll /\ Leftover # 0 /\ ~UnknownIndex
    /\ LET chunk == Head(inputs[Leftover])
       IN  outputs' = IF HasUnits(chunk)
                      THEN [outputs EXCEPT ![LastOutput] = addAssetToOutput(@, chunk)] ELSE outputs
    /\ inputs' = [inputs EXCEPT ![Leftover] = Tail(@)]
    /\ UNCHANGED <<tx, phase, script, wanted, index, allowSkip, now, burned, unintentional,
                   txType, malformed, stored>>

\* exceptionUnknownAssetIndex: a standard transaction with asset outputs, which
\* createUTXO cannot store.
ChangeFails ==
    /\ ReadAll /\ Leftover # 0 /\ UnknownIndex
    /\ GiveUp(FALSE)
    /\ UNCHANGED <<outputs, unintentional>>

\* What an address gains of an asset.
Gain(outs, address, a) ==
    CountAll(SelectAt(outs, tx.addresses, address), a)
    - CountAll(SelectAt([i \in DOMAIN tx.inputs |-> tx.inputs[i].assets],
                        [i \in DOMAIN tx.inputs |-> tx.inputs[i].owner], address), a)

\* Rules apply when an asset with rules moved anywhere.
RulesApply(outs) ==
    \E a \in Ruled : /\ CountAll(Copied(tx), a) > 0
                     /\ \E o \in DOMAIN tx.addresses : Gain(outs, tx.addresses[o], a) > 0

\* No asset stays on an OP_RETURN output.
Sweep(outs) == [o \in DOMAIN outs |-> IF tx.addresses[o] = OpReturn THEN <<>> ELSE outs[o]]

\* Mutant: what the sweep takes is not reported.
FinishUnreported ==
    /\ ReadAll /\ Leftover = 0
    /\ outputs' = Sweep(outputs) /\ UNCHANGED unintentional
    /\ phase' = "done" /\ txType' = tx.type /\ stored' = TRUE
    /\ UNCHANGED <<tx, script, wanted, inputs, index, allowSkip, now, burned, malformed>>

\* After the change the rules, then the sweep: the transaction is what it says.
Finish ==
    /\ ReadAll /\ Leftover = 0
    /\ outputs' = Sweep(outputs)
    /\ unintentional' = (unintentional \/ Sweep(outputs) # outputs)
    /\ phase' = "done" /\ txType' = tx.type /\ stored' = TRUE
    /\ UNCHANGED <<tx, script, wanted, inputs, index, allowSkip, now, burned, malformed>>

\* exceptionRuleFailed: every asset output is destroyed, the change too.
RuleFailed ==
    /\ ReadAll /\ Leftover = 0 /\ tx.type # "issuance" /\ RulesApply(outputs)
    /\ outputs' = Empty(tx) /\ unintentional' = TRUE
    /\ GiveUp(TRUE)

\* An exchange rate is not known: the outputs stay, not swept.
RateUnknown ==
    /\ ReadAll /\ Leftover = 0 /\ tx.type # "issuance" /\ RulesApply(outputs)
    /\ GiveUp(TRUE)
    /\ UNCHANGED <<outputs, unintentional>>

Next ==
    \/ RouteToOutput \/ RouteToBurn \/ Refuse \/ Sent
    \/ ReadInstruction \/ RemoveChunk \/ Apply \/ Truncated \/ NotAnAssetTransaction
    \/ AddChange \/ ChangeFails \/ Finish \/ RuleFailed \/ RateUnknown

Spec == Init /\ [][Next]_vars

-----------------------------------------------------------------------------
(* What the theorems on amounts and on orders assume of an instance.        *)

Bounded(lists, n) == \A i \in DOMAIN lists : \A k \in DOMAIN lists[i] : n * lists[i][k].count < Word

\* The products of decodeAssetTransfer stay below 2^64: an amount, of an
\* instruction or of a chunk, times the number of the transaction's outputs.
NoWrap ==
    \A t \in Transactions : /\ \A i \in Instructions : Len(t.addresses) * i.amount < Word
                            /\ Bounded(Copied(t), Len(t.addresses))

\* An order as addInput, setIssuance and addAssetBurn make them: not yet on the
\* chain, of the version that is written, with units on every chunk, a burn if
\* anything is to be burnt, and nothing wanted on an output without an address.
Sendable ==
    /\ Orders \cap Transactions = {}
    /\ \A t \in Orders :
         /\ t.version = 3
         /\ \A i \in DOMAIN Copied(t) : \A k \in DOMAIN Copied(t)[i] : HasUnits(Copied(t)[i][k])
         /\ t.burns # <<>> => t.type = "burn"
         /\ \A o \in DOMAIN t.outputs : t.addresses[o] = OpReturn => t.outputs[o] = <<>>

-----------------------------------------------------------------------------
(* Properties.                                                              *)

\* Counts, positions and phases keep their shapes; the interpreter never
\* works on a chunk that is not there.
TypeOK ==
    /\ phase \in {"build", "read", "remove", "done", "refused"}
    /\ \A o \in DOMAIN outputs : outputs[o] \in Seq(Chunk)
    /\ \A i \in DOMAIN inputs : inputs[i] \in Seq(Chunk)
    /\ index \in Nat \ {0} /\ now.left \in 0 .. now.total
    /\ txType \in {"standard", "issuance", "transfer", "burn"}

InFlight(a) == IF a = now.asset THEN now.total - now.left ELSE 0

\* While the instructions run and the change is added, every unit of every asset
\* is at exactly one place: still on an input, in the instruction at work, on an
\* output, or burnt on purpose - over chunks, ranges, percentages, skips and the
\* catch.
Conserved ==
    phase \in {"read", "remove"} =>
        \A a \in Assets : CountAll(inputs, a) + InFlight(a) + CountAll(outputs, a) + burned[a]
                            = CountAll(Copied(tx), a)

isUnintentionalBurn == unintentional \/ (txType = "standard" /\ _assetFound)

Supply(a) == CountAll([i \in DOMAIN tx.inputs |-> tx.inputs[i].assets], a)
             + IF tx.type = "issuance" THEN Count(<<tx.issued>>, a) ELSE 0

\* A transaction that is stored creates nothing, and what it destroys beyond
\* its burn instructions isUnintentionalBurn() reports
\* (docs/asset-rules-and-burns.md: "reports all but the first").
LossReported ==
    phase = "done" /\ stored =>
        \A a \in Assets :
            LET held == CountAll(outputs, a)
            IN  /\ held + burned[a] <= Supply(a)
                /\ held + burned[a] < Supply(a) => isUnintentionalBurn

\* What the wallet builds is what every node reads: with the rules kept, each
\* output holds what was ordered and the burns are those declared
\* (buildTransferInstructions "mirrors the consumption logic").
RoundTrip ==
    phase = "done" /\ tx \in Orders /\ txType # "standard" =>
        \A a \in Assets :
            /\ burned[a] = Count(tx.burns, a)
            /\ \A o \in DOMAIN outputs :
                Count(outputs[o], a) = IF o \in DOMAIN tx.outputs THEN Count(tx.outputs[o], a) ELSE 0

\* An output never holds an aggregable asset twice, nor zero of an asset: a
\* chunk of zero would be the front of a later transfer's input.
Compact ==
    \A o \in DOMAIN outputs : \A j, k \in DOMAIN outputs[o] :
        /\ outputs[o][k].count > 0
        /\ j # k /\ outputs[o][j].asset = outputs[o][k].asset
                => Aggregation[outputs[o][k].asset] # "aggregable"

-----------------------------------------------------------------------------
(* Statements of the source's comments that the code does not keep; see the README. *)

\* A transfer instruction that cannot be carried out destroys everything
\* (docs/asset-rules-and-burns.md, case 5).
MalformedBurns ==
    phase = "done" /\ malformed => \A a \in Assets : CountAll(outputs, a) = 0
=================================================================================
