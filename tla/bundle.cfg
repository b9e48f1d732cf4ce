SPECIFICATION BundleSpec
CONSTANTS
    Adder = {w1, w2, w3}
    SignedTx = {t1, t2, t3}
    TrimStop = 1
    BundleTTL = 2
    MaxFaults = 2
SYMMETRY Permute
INVARIANTS
    BundleBounded
    BundleExpires
    NewestListed
    CopiesBounded
