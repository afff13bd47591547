-------------------------- MODULE IdentityProtocol --------------------------
(***************************************************************************)
(* What the parts of the Identity Service process share: its constants,    *)
(* the messages of its two channels and the state of every part.  The      *)
(* parts are CandidateWatcher, IdentityManager and IdentityCreator; module *)
(* IdentityService composes them.                                          *)
(*                                                                         *)
(* A service stands for a (namespace, name) pair, i.e. a service_id.  A    *)
(* user stands for a service-user uuid.  A ServiceIdentity is the user it  *)
(* holds; NoUser means there is no object (or no map entry).               *)
(***************************************************************************)
EXTENDS Integers, Sequences, FiniteSets

CONSTANTS
    Services,      \* service ids
    Users,         \* uuids the creator may draw for new service users
    NoUser,        \* absence of a user
    Objects,       \* the candidate objects <<watcher, service>> that can exist
    PoolSize,      \* CREDENTIALS_POOL_SIZE, and the 10 of needs_new_credentials
    ManagerCap,    \* capacity of the Identity Manager's channel (50)
    CreatorCap,    \* capacity of the Identity Creator's channel (50)
    MaxCrashes,    \* bound: restarts of the process
    MaxFailures,   \* bound: calls to Kubernetes or the controller that fail
    MaxChanges,    \* bound: creations and updates of candidate objects
    MaxDeletes,    \* bound: deletions of candidate objects
    MaxReleases,   \* bound: pod deletions seen by the Pod watcher
    MaxFlips       \* bound: changes of a namespace's injection label

Watchers == {"Deployment", "SDPService"}

\* Faulty: one of the watchers is not counted.
N_WATCHERS_One == 1

\* Faulty: a watcher that never notifies is counted.
N_WATCHERS_Three == 3

N_WATCHERS == 2

ASSUME ConstantsAssumption ==
    /\ NoUser \notin Users
    /\ Objects \subseteq Watchers \X Services
    /\ PoolSize \in Nat
    /\ ManagerCap \in Nat \ {0}
    /\ CreatorCap \in Nat \ {0}
    /\ MaxCrashes \in Nat /\ MaxFailures \in Nat
    /\ MaxChanges \in Nat /\ MaxDeletes \in Nat
    /\ MaxReleases \in Nat /\ MaxFlips \in Nat

MaybeUser == Users \cup {NoUser}

(***************************************************************************)
(* The messages of IdentityManagerProtocol and IdentityCreatorProtocol.    *)
(* The watcher tag w of DeploymentWatcherReady is not in the code; it only *)
(* lets a property say whose notification it is.                           *)
(***************************************************************************)
FoundServiceCandidate(s) == [type |-> "FoundServiceCandidate", s |-> s]
FoundServiceUser(u, on) == [type |-> "FoundServiceUser", u |-> u, activated |-> on]
DeploymentWatcherReady(w) == [type |-> "DeploymentWatcherReady", w |-> w]
IdentityCreatorReady == [type |-> "IdentityCreatorReady"]
IdentityManagerReady == [type |-> "IdentityManagerReady"]

CandidateMsg ==
    [type : {"RequestServiceIdentity", "DeletedServiceCandidate",
             "ReleaseDeviceId"}, s : Services]
FoundCandidateMsg == {FoundServiceCandidate(s) : s \in Services}
FoundUserMsg ==
    {FoundServiceUser(u, TRUE) : u \in Users}
        \cup {FoundServiceUser(u, FALSE) : u \in Users}
ActivatedMsg == [type : {"ActivatedServiceUser"}, s : Services, u : Users]
DeleteMsg == [type : {"DeleteServiceIdentity"}, s : Services, u : Users]
WatcherReadyMsg == {DeploymentWatcherReady(w) : w \in Watchers}

ManagerMsg ==
    CandidateMsg \cup FoundCandidateMsg \cup FoundUserMsg \cup ActivatedMsg
        \cup DeleteMsg \cup WatcherReadyMsg
        \cup {IdentityCreatorReady, IdentityManagerReady}

CreatorMsg ==
         [type : {"StartService", "CreateIdentity", "ReconcileSDPUsers"}]
    \cup [type : {"DeleteServiceUser", "ActivateServiceUser"},
          s : Services, u : Users]
    \cup [type : {"DeleteSDPUser", "ReleaseDeviceId"}, u : Users]

\* A send the Identity Manager still has to complete before its handler ends.
ManagerSend ==
         [to : {"manager"}, m : DeleteMsg \cup {IdentityManagerReady}]
    \cup [to : {"creator"}, m : CreatorMsg]

\* What the Identity Creator still has to do before its handler ends.
CreatorStep ==
         [op : {"notify"}, m : FoundUserMsg \cup ActivatedMsg]
    \cup [op : {"secrets"}, s : Services, u : Users]

\* An event of the watch stream of a candidate watcher.
WatchEvent == [op : {"Apply", "Delete"}, s : Services]

ReconcileStages ==
    {"none", "extra", "users", "stale", "missing"}

VARIABLES
    \* The Kubernetes API
    objs,          \* candidate objects that exist, a subset of Objects
    labelled,      \* services whose namespace is labelled for injection
    events,        \* watch events not yet read by each candidate watcher
    crd,           \* the ServiceIdentity object of each service
    svcSecret,     \* whose credentials the service's own Secret holds
    secret,        \* users whose password is in the global Secret
    \* The SDP controller
    sdp,           \* life of each user: fresh, disabled, enabled, deleted
    \* The candidate watchers
    wphase,        \* list -> found -> wait -> run
    listed,        \* listed objects still to be examined
    applied,       \* the keys of the local `applied` set
    released,      \* IdentityManagerReady has been broadcast
    \* The channels
    imq, icq,
    \* The Identity Manager
    imphase,       \* init -> run
    services,      \* registered identities
    pool,          \* free users
    existing, missing,             \* candidates found at start-up
    activated, deactivated,        \* users found at start-up
    creatorReady, watchersReady,   \* readiness seen so far
    todo,          \* sends the current handler still has to complete
    stage, batch,  \* progress of identity_manager_ready
    \* The Identity Creator
    icphase,       \* wait -> scan -> fill -> run
    scan, known, nMissing,         \* progress of initialize
    ictodo,        \* what the current handler still has to do
    \* Bounds on the environment
    crashes, failures, changes, deletes, releases, flips

apiVars == <<crd, svcSecret, secret, sdp>>
clusterVars == <<objs, labelled, events>>
watcherVars == <<wphase, listed, applied>>
startupVars == <<existing, missing, activated, deactivated>>
readyVars == <<creatorReady, watchersReady>>
stageVars == <<stage, batch>>
managerVars == <<imphase, services, pool, startupVars, readyVars, todo, stageVars>>
scanVars == <<scan, known, nMissing>>
creatorVars == <<icphase, scanVars, ictodo>>
envVars == <<crashes, changes, deletes, releases, flips>>

vars == <<apiVars, clusterVars, watcherVars, released, imq, icq, managerVars,
          creatorVars, envVars, failures>>

-----------------------------------------------------------------------------
(***************************************************************************)
(* Calls to Kubernetes or to the controller may fail; the code logs the    *)
(* error and goes on unless said otherwise.  `failures` counts the steps   *)
(* in which one or more calls fail.                                        *)
(***************************************************************************)
CallSucceeds == UNCHANGED failures

CallFails ==
    /\ failures < MaxFailures
    /\ failures' = failures + 1

SendToManager(m) ==
    /\ Len(imq) < ManagerCap
    /\ imq' = Append(imq, m)

SendToCreator(m) ==
    /\ Len(icq) < CreatorCap
    /\ icq' = Append(icq, m)

ToManager(m) == [to |-> "manager", m |-> m]
ToCreator(m) == [to |-> "creator", m |-> m]
=============================================================================
