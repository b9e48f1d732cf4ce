SPECIFICATION EndpointSpec
CONSTANTS
    a = a  a0 = a0  a1 = a1  a2 = a2
    Nil = Nil
    TxFrom <- MCTxFrom
    TxNonce <- MCTxNonce
    Account = {a}
    Req = {r1}
    Client = {w1, w2}
    Tx = {a1}
    Options <- Plain
    CancelTx = {}
    ZeroTipTx = {}
    OversizeTx = {}
    OFACTx = {}
    BlockedTx = {}
    MaxTime = 0
    MaxMined = 0
    MaxPending = 3
    FixLimit = 4
    DebugModes = {FALSE}
    Faults = {}
    KeyTTL = 2
    MaxNonceTTL = 1
    ResendAfter = 1
    NonceLimit = 3
INVARIANTS
    AtMostFourWrongNonces
