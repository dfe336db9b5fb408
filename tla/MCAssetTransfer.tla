---------------------------- MODULE MCAssetTransfer ----------------------------
(***************************************************************************)
(* Instances of the transfer interpreter for TLC.                          *)
(***************************************************************************)
EXTENDS AssetTransfer, TLC

CONSTANTS gold, card, deed

Kinds == gold :> "aggregable" @@ card :> "hybrid" @@ deed :> "dispersed"

Of(a, n) == [asset |-> a, count |-> n]
Own(who, chunks) == [owner |-> who, assets |-> chunks]

\* A transaction on the chain: nothing was ordered from this wallet.
OnChain(type, version, ins, addresses, issued, indexed) ==
    [type |-> type, version |-> version, inputs |-> ins, addresses |-> addresses,
     issued |-> issued, indexed |-> indexed, outputs |-> <<>>, burns |-> <<>>]

Holdings == {<< Own("ann", <<Of(gold, 3)>>), Own("ann", <<>>), Own("bob", <<Of(gold, 2), Of(card, 2)>>) >>,
             << Own("ann", <<>>), Own("ann", <<Of(card, 2)>>), Own("bob", <<Of(card, 1), Of(deed, 2)>>) >>,
             << Own("ann", <<Of(deed, 2)>>), Own("bob", <<Of(deed, 1), Of(gold, 4)>>) >>}

Places == {<<"ann", "bob", OpReturn>>, <<"bob", OpReturn, "ann">>}

ChainTransactions ==
    {OnChain(type, version, ins, addresses, Of(gold, 1), TRUE) :
        type \in {"transfer", "burn"}, version \in {2, 3}, ins \in Holdings, addresses \in Places}
    \cup {OnChain("issuance", 3, ins, addresses, Of(a, 4), indexed) :
            ins \in {<< Own("ann", <<>>) >>, << Own("ann", <<Of(deed, 1)>>) >>},
            addresses \in Places \cup {<<OpReturn, "ann">>}, a \in {gold, card}, indexed \in BOOLEAN}
    \cup {OnChain("transfer", 3, << Own("ann", <<>>) >>, <<"ann", OpReturn>>, Of(gold, 1), TRUE)}

ChainInstructions ==
    {[skip |-> skip, range |-> range, cut |-> FALSE, percent |-> percent,
      output |-> output, amount |-> amount] :
        skip \in BOOLEAN, range \in BOOLEAN, percent \in {0}, output \in {1, 3, 31}, amount \in {0, 1, 3}}
    \cup {[skip |-> FALSE, range |-> range, cut |-> FALSE, percent |-> percent, output |-> 1, amount |-> 0] :
            range \in BOOLEAN, percent \in {128, 256}}
    \cup {[skip |-> FALSE, range |-> FALSE, cut |-> TRUE, percent |-> 0, output |-> 0, amount |-> 0]}

\* Orders: the outputs and burns the wallet is asked for, some impossible.
Order(type, ins, outs, burns) ==
    [type |-> type, version |-> 3, inputs |-> ins,
     addresses |-> <<"cy", "ann", OpReturn>>, issued |-> Of(gold, 4), indexed |-> FALSE,
     outputs |-> outs, burns |-> burns]

Asked == {<<>>, <<Of(gold, 2)>>, <<Of(gold, 3)>>, <<Of(gold, 1), Of(card, 2)>>, <<Of(card, 1), Of(gold, 1)>>,
          <<Of(deed, 2), Of(card, 1)>>, <<Of(card, 3)>>}

WalletOrders ==
    {Order(type, ins, <<first, second>>, burns) :
        type \in {"burn"}, ins \in Holdings, first \in Asked, second \in Asked,
        burns \in {<<Of(gold, 1)>>, <<Of(gold, 2), Of(card, 1)>>}}
    \cup {Order("transfer", ins, <<first, second>>, <<>>) :
            ins \in Holdings, first \in Asked, second \in Asked}
    \cup {Order("issuance", <<Own("ann", <<>>)>>, <<first, second>>, <<>>) :
            first \in Asked, second \in Asked}
    \cup {Order("transfer", <<Own("ann", <<>>)>>, << <<>>, <<>> >>, <<>>)}

\* The hypotheses of the theorems hold here.
ASSUME TheoremsApply == NoWrap /\ Sendable
================================================================================
