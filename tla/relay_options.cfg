SPECIFICATION FairSpec
CONSTANTS
    a = a  b = b
    a1 = a1  a2 = a2  c1 = c1  z0 = z0  big = big  b0 = b0  high = high  blk = blk
    Nil = Nil
    TxFrom <- MCTxFrom
    TxNonce <- MCTxNonce
    Account = {a}
    Req = {r1, r2}
    Tx = {a1, c1}
    Options <- EveryOption
    CancelTx = {c1}
    ZeroTipTx = {}
    OversizeTx = {}
    OFACTx = {}
    BlockedTx = {}
    MaxTime = 0
    MaxMined = 0
    DebugModes = {FALSE}
    Faults = {"relay", "node", "bundle"}
    KeyTTL = 2
    MaxNonceTTL = 1
    ResendAfter = 1
    NonceLimit = 3
INVARIANTS
    OnlyVettedRelayed
    ExclusiveOutcomes
PROPERTIES
    HangsOnlyOutside
    RequestsAdvance
    Forwards
