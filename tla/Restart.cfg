SPECIFICATION Spec
CONSTANTS
    s1 = s1
    s2 = s2
    u1 = u1
    u2 = u2
    u3 = u3
    u4 = u4
    u5 = u5
    NoUser = NoUser
    Services <- TwoServices
    Objects <- TwoObjects
    Users = {u1, u2, u3, u4}
    PoolSize = 1
    ManagerCap = 6
    CreatorCap = 6
    MaxCrashes = 1
    MaxFailures = 0
    MaxChanges = 1
    MaxDeletes = 1
    MaxReleases = 0
    MaxFlips = 0
INVARIANT SettledNoLeak
INVARIANT SettledNoExtra
INVARIANT NoSharedUser
INVARIANT ReconcileInv
INVARIANT ReconcileInformed
INVARIANT ReconcileOnce
\* The process may rest: it waits for events.
CHECK_DEADLOCK FALSE
