SPECIFICATION FairSpec
CONSTANTS
    s1 = s1
    s2 = s2
    u1 = u1
    u2 = u2
    u3 = u3
    u4 = u4
    u5 = u5
    NoUser = NoUser
    Services <- TwoServices
    Objects <- TwoObjects
    Users = {u1, u2, u3, u4}
    PoolSize = 2
    ManagerCap = 6
    CreatorCap = 6
    MaxCrashes = 0
    MaxFailures = 0
    MaxChanges = 1
    MaxDeletes = 0
    MaxReleases = 1
    MaxFlips = 0
INVARIANT ReconcileServesFound
PROPERTY CandidateServed
PROPERTY ReleaseHandled
PROPERTY Quiesces
\* The process may rest: it waits for events.
CHECK_DEADLOCK FALSE
