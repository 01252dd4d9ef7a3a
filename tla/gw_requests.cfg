CONSTANTS
    Reqs = {r1, r2, r3, r4}
    Clients = {c1, c2}
    Class = {"anon", "bad", "good"}
    Cost = 3
    Rate = 2
    Burst = 1
    CleanupEvery = 2
    EntryTTL = 1
    RingSize = 2
    MaxLag = 1
    MaxTime = 4
SYMMETRY Symmetry
SPECIFICATION Spec
INVARIANTS
    RateBound
    GrantsAccounted
    RecentExact
CHECK_DEADLOCK FALSE
