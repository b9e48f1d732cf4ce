SPECIFICATION Spec
CONSTANTS
    a = a  b = b
    a1 = a1  a2 = a2  c1 = c1  z0 = z0  big = big  b0 = b0  high = high  blk = blk
    Nil = Nil
    TxFrom <- MCTxFrom
    TxNonce <- MCTxNonce
    Account = {a, b}
    Req = {r1, r2, r3}
    Tx = {a1, a2, c1, z0, big, b0, high, blk}
    Options <- OnlyPlain
    CancelTx = {c1}
    ZeroTipTx = {z0}
    OversizeTx = {big}
    OFACTx = {b0}
    BlockedTx = {blk}
    MaxTime = 0
    MaxMined = 1
    DebugModes = {TRUE, FALSE}
    Faults = {"relay"}
    KeyTTL = 2
    MaxNonceTTL = 1
    ResendAfter = 1
    NonceLimit = 3
SYMMETRY Permute
VIEW Observed
INVARIANTS
    TypeOK
    NoNonceGap
    SuccessIsBacked
    CancelTargetsAdmitted
    OnlyVettedRelayed
