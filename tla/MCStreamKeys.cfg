\* Two keys of two owners, two concurrent validate requests, expiries of
\* 0 and 1 tick and none, over a clock of 2 ticks.
CONSTANTS
    Keys = {k1, k2}
    Owners = {o1, o2}
    Handlers = {h1, h2}
    TTLs <- MCTTLs
    MaxTime = 2
    MaxUses = 2
    NoExpiry = NoExpiry
SPECIFICATION Spec
SYMMETRY MCHandlerSymmetry
INVARIANTS
    TypeOK
    IndexMatchesKeys
