SPECIFICATION Spec
CONSTANTS
    a = a  b = b
    a1 = a1  a2 = a2  c1 = c1  z0 = z0  big = big  b0 = b0  high = high  blk = blk
    Nil = Nil
    TxFrom <- MCTxFrom
    TxNonce <- MCTxNonce
    Account = {a}
    Req = {r1, r2}
    Tx = {a1, a2, c1}
    Options <- OnlyPlain
    CancelTx = {c1}
    ZeroTipTx = {}
    OversizeTx = {}
    OFACTx = {}
    BlockedTx = {}
    MaxTime = 2
    MaxMined = 0
    DebugModes = {FALSE}
    Faults = {"redisGet", "redisSet", "status"}
    KeyTTL = 2
    MaxNonceTTL = 1
    ResendAfter = 1
    NonceLimit = 3
SYMMETRY Permute
VIEW Observed
INVARIANTS
    NoNonceGap
    ResendNeedsReason
    SuccessIsBacked
    CancelTargetsAdmitted
PROPERTIES
    Forwards
