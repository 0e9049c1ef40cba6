\* Two clients share the map: two tokens of one and a half ticks each, evicted after three idle
\* ticks, just when full; cleanups every second tick.
SPECIFICATION LimiterSpec
CONSTANTS
    k1 = k1
    k2 = k2
    Clients = {k1, k2}
    Burst = 2
    Cost = 3
    Rate = 2
    IdleTTL = 3
    Period = 2
    MaxTime = 6
    NoBucket = NoBucket
SYMMETRY ClientSymmetry
CHECK_DEADLOCK FALSE
INVARIANTS
    WindowIsBounded
    MapHoldsRecentClients
PROPERTIES
    ImplementsBudget
