SPECIFICATION BundleSpec
CONSTANTS
    Adder = {w1}
    SignedTx = {t1, t2, t3, t4, t5, t6, t7, t8, t9, t10, t11, t12, t13, t14, t15, t16}
    TrimStop = 15
    BundleTTL = 1
    MaxFaults = 0
VIEW Sizes
INVARIANTS
    LimitedAsCommented
