SPECIFICATION FairSpec
CONSTANTS
    s1 = s1
    s2 = s2
    u1 = u1
    u2 = u2
    u3 = u3
    u4 = u4
    u5 = u5
    NoUser = NoUser
    Services <- TwoServices
    Objects <- TwoObjects
    Users = {u1, u2, u3, u4}
    PoolSize = 1
    ManagerCap = 3
    CreatorCap = 3
    MaxCrashes = 0
    MaxFailures = 0
    MaxChanges = 0
    MaxDeletes = 0
    MaxReleases = 5
    MaxFlips = 0
PROPERTY ReleaseHandled
\* The process may rest: it waits for events.
CHECK_DEADLOCK FALSE
