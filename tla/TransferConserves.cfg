SPECIFICATION Spec
CONSTANTS
    gold = gold
    card = card
    deed = deed
    Assets = {gold, card, deed}
    Aggregation <- Kinds
    Ruled = {gold}
    Transactions <- ChainTransactions
    Instructions <- ChainInstructions
    MaxInstructions = 2
    Orders <- WalletOrders
    Word = 1000
INVARIANTS
    Conserved
    LossReported
    RoundTrip
    Compact
CHECK_DEADLOCK FALSE
