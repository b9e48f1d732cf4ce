SPECIFICATION PreferencesSpec
CONSTANTS
    Address = {"0xa", "0xb", "0xc"}
    Zero = "0x0"
    Who = {"0xa", "0xb", "0xc", "0x0", "origin", "0xzz"}
    Caller = {"p1", "p2"}
    Sender <- MCSender
    CallerUrls <- MCUrls
    Headers <- MCHeaders
    PresetUrls <- MCPresets
    CustomerUrls <- MCCustomers
    BuilderLists <- MCLists
    MaxRefreshes = 1
    Lower <- MCLower
    Sourced = {TRUE, FALSE}
INVARIANTS
    RefundsAsAsked
    FastToFetchedBuilders
    SameParametersInAnyCase
    UnreportedIsKnown
CHECK_DEADLOCK FALSE
