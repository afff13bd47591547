-------------------------- MODULE IdentityService ---------------------------
(***************************************************************************)
(* The Identity Service process of the SDP Kubernetes Injector: the two    *)
(* candidate watchers, the Identity Manager and the Identity Creator run   *)
(* as concurrent tasks over two bounded channels, and two stores survive a *)
(* restart of the process: the Kubernetes API (candidate objects,          *)
(* ServiceIdentity objects, Secrets) and the SDP controller (users).       *)
(***************************************************************************)
EXTENDS CandidateWatcher, IdentityManager, IdentityCreator

-----------------------------------------------------------------------------
(***************************************************************************)
(* The environment: candidate objects come and go, and the process may     *)
(* stop at any point and be started again by Kubernetes.                   *)
(***************************************************************************)
\* A watch event reaches a watcher only once its stream is open.
Emit(w, op, s) ==
    events' = IF wphase[w] = "run"
              THEN [events EXCEPT ![w] = Append(@, [op |-> op, s |-> s])]
              ELSE events

ApplyObject(w, s) ==
    /\ changes < MaxChanges
    /\ changes' = changes + 1
    /\ objs' = objs \cup {<<w, s>>}
    /\ Emit(w, "Apply", s)
    /\ UNCHANGED <<apiVars, labelled, watcherVars, released, imq, icq,
                   managerVars, creatorVars, crashes, deletes, releases, flips,
                   failures>>

DeleteObject(w, s) ==
    /\ deletes < MaxDeletes
    /\ deletes' = deletes + 1
    /\ <<w, s>> \in objs
    /\ objs' = objs \ {<<w, s>>}
    /\ Emit(w, "Delete", s)
    /\ UNCHANGED <<apiVars, labelled, watcherVars, released, imq, icq,
                   managerVars, creatorVars, crashes, changes, releases, flips,
                   failures>>

\* The namespace of s gains or loses its label; no object changes with it.
FlipLabel(s) ==
    /\ flips < MaxFlips
    /\ flips' = flips + 1
    /\ labelled' = IF s \in labelled THEN labelled \ {s} ELSE labelled \cup {s}
    /\ UNCHANGED <<apiVars, objs, events, watcherVars, released, imq, icq,
                   managerVars, creatorVars, crashes, changes, deletes,
                   releases, failures>>

\* The Pod watcher waits for nobody: it reports deleted pods from the start.
PodWatcherRelease(s) ==
    /\ releases < MaxReleases
    /\ releases' = releases + 1
    /\ SendToManager([type |-> "ReleaseDeviceId", s |-> s])
    /\ UNCHANGED <<apiVars, clusterVars, watcherVars, released, icq,
                   managerVars, creatorVars, crashes, changes, deletes, flips,
                   failures>>

\* The memory of a process that has just been started.
ProcessInit ==
    /\ events = [w \in Watchers |-> <<>>]
    /\ wphase = [w \in Watchers |-> "list"]
    /\ listed = [w \in Watchers |-> {}]
    /\ applied = [w \in Watchers |-> {}]
    /\ released = FALSE
    /\ imq = <<>> /\ icq = <<>>
    /\ imphase = "init"
    /\ services = [s \in Services |-> NoUser]
    /\ pool = <<>>
    /\ existing = {} /\ missing = {}
    /\ activated = {} /\ deactivated = {}
    /\ creatorReady = FALSE
    /\ watchersReady = 0
    /\ todo = <<>>
    /\ stage = "none"
    /\ batch = {}
    /\ icphase = "wait"
    /\ scan = {} /\ known = {} /\ nMissing = 0
    /\ ictodo = <<>>

\* The process is replaced by one that has just been started.
Restart ==
    /\ events' = [w \in Watchers |-> <<>>]
    /\ wphase' = [w \in Watchers |-> "list"]
    /\ listed' = [w \in Watchers |-> {}]
    /\ applied' = [w \in Watchers |-> {}]
    /\ released' = FALSE
    /\ imq' = <<>> /\ icq' = <<>>
    /\ imphase' = "init"
    /\ services' = [s \in Services |-> NoUser]
    /\ pool' = <<>>
    /\ existing' = {} /\ missing' = {}
    /\ activated' = {} /\ deactivated' = {}
    /\ creatorReady' = FALSE
    /\ watchersReady' = 0
    /\ todo' = <<>>
    /\ stage' = "none"
    /\ batch' = {}
    /\ icphase' = "wait"
    /\ scan' = {} /\ known' = {} /\ nMissing' = 0
    /\ ictodo' = <<>>

\* The process stops (a panic in any task exits) and is started again.
Crash ==
    /\ crashes < MaxCrashes
    /\ crashes' = crashes + 1
    /\ Restart
    /\ UNCHANGED <<apiVars, objs, labelled, changes, deletes, releases, flips,
                   failures>>

\* An error of create_user during initialize is a panic.
CreatorFillPanics ==
    /\ icphase = "fill"
    /\ ictodo = <<>>
    /\ nMissing > 0
    /\ CreateUserFails
    /\ Restart
    /\ UNCHANGED <<crd, svcSecret, objs, labelled, crashes, changes, deletes,
                   releases, flips>>

-----------------------------------------------------------------------------
\* A first installation, in a cluster that may have candidates already.
Init ==
    /\ objs \in SUBSET Objects
    /\ labelled = Services
    /\ crd = [s \in Services |-> NoUser]
    /\ svcSecret = [s \in Services |-> NoUser]
    /\ secret = {}
    /\ sdp = [u \in Users |-> "fresh"]
    /\ crashes = 0 /\ failures = 0
    /\ changes = 0 /\ deletes = 0 /\ releases = 0 /\ flips = 0
    /\ ProcessInit

EnvironmentNext ==
    \/ \E o \in Objects : ApplyObject(o[1], o[2]) \/ DeleteObject(o[1], o[2])
    \/ \E s \in Services : PodWatcherRelease(s) \/ FlipLabel(s)
    \/ Crash
    \/ CreatorFillPanics

Next ==
    \/ \E w \in Watchers : WatcherNext(w)
    \/ ManagerNext
    \/ CreatorNext
    \/ EnvironmentNext

Spec == Init /\ [][Next]_vars

\* The tasks of the process run on the tokio scheduler and their calls
\* return, so a task that can go on does; the environment owes nothing.
Fairness ==
    /\ \A w \in Watchers : WF_vars(WatcherNext(w))
    /\ WF_vars(ManagerNext)
    /\ WF_vars(CreatorNext)

FairSpec == Spec /\ Fairness

-----------------------------------------------------------------------------
(***************************************************************************)
(* Types, one part for each owner of state.                                *)
(***************************************************************************)
StoresTypeOK ==
    /\ objs \subseteq Objects
    /\ labelled \subseteq Services
    /\ crd \in [Services -> MaybeUser]
    /\ svcSecret \in [Services -> MaybeUser]
    /\ secret \subseteq Users
    /\ sdp \in [Users -> {"fresh", "disabled", "enabled", "deleted"}]

WatchersTypeOK ==
    /\ events \in [Watchers -> Seq(WatchEvent)]
    /\ wphase \in [Watchers -> {"list", "found", "wait", "run"}]
    /\ listed \in [Watchers -> SUBSET Services]
    /\ applied \in [Watchers -> SUBSET Services]
    /\ released \in BOOLEAN

ChannelsTypeOK ==
    /\ imq \in Seq(ManagerMsg) /\ Len(imq) <= ManagerCap
    /\ icq \in Seq(CreatorMsg) /\ Len(icq) <= CreatorCap

\* In the first and the third stage the batch holds registered identities.
BatchTypeOK ==
    /\ imphase = "init" => stage = "none"
    /\ stage \in {"extra", "stale"} =>
           batch \subseteq {s \in Services : services[s] \in Users}
    /\ stage = "users" => batch \subseteq Users
    /\ stage = "missing" => batch \subseteq Services

ManagerTypeOK ==
    /\ imphase \in {"init", "run"}
    /\ services \in [Services -> MaybeUser]
    /\ pool \in Seq(Users)
    /\ existing \subseteq Services /\ missing \subseteq Services
    /\ activated \subseteq Users /\ deactivated \subseteq Users
    /\ creatorReady \in BOOLEAN
    /\ watchersReady \in Nat
    /\ todo \in Seq(ManagerSend)
    /\ stage \in ReconcileStages
    /\ BatchTypeOK

CreatorTypeOK ==
    /\ icphase \in {"wait", "scan", "fill", "run"}
    /\ scan \subseteq Users /\ known \subseteq Users
    /\ nMissing \in 0..PoolSize
    /\ ictodo \in Seq(CreatorStep)

BoundsTypeOK ==
    /\ crashes \in 0..MaxCrashes /\ failures \in 0..MaxFailures
    /\ changes \in 0..MaxChanges /\ deletes \in 0..MaxDeletes
    /\ releases \in 0..MaxReleases /\ flips \in 0..MaxFlips

\* Every variable has its type; neither channel exceeds its capacity.
TypeOK ==
    /\ StoresTypeOK
    /\ WatchersTypeOK
    /\ ChannelsTypeOK
    /\ ManagerTypeOK
    /\ CreatorTypeOK
    /\ BoundsTypeOK

-----------------------------------------------------------------------------
InQueue(q, m) == \E i \in 1..Len(q) : q[i] = m

\* Nothing is in flight and every task waits for something to happen.
Settled ==
    /\ imq = <<>> /\ icq = <<>>
    /\ Idle
    /\ icphase = "run" /\ ictodo = <<>>
    /\ \A w \in Watchers : wphase[w] = "run" /\ events[w] = <<>>

\* The reconciliation never works on a partial picture. While
\* identity_manager_ready runs, both watchers have reported every candidate
\* they listed and wait for the broadcast, no FoundServiceCandidate is left in
\* the channel, and every user the creator recovered in initialize has been
\* recorded: otherwise it would delete the identity of a candidate that
\* exists, or a user that is in use.
ReconcileInformed ==
    stage # "none" =>
        /\ \A w \in Watchers : wphase[w] = "wait" /\ listed[w] = {}
        /\ \A i \in 1..Len(imq) : imq[i].type # "FoundServiceCandidate"
        /\ icphase = "run"
        /\ known \subseteq activated \cup deactivated

\* identity_manager_ready runs once per process. Both identity_creator_ready
\* and deployment_watcher_ready can send IdentityManagerReady; whatever the
\* order of the three notifications, no second one is queued or about to be
\* sent once the reconciliation has started.
ReconcileOnce ==
    released \/ stage # "none" =>
        /\ ~InQueue(imq, IdentityManagerReady)
        /\ ~InQueue(todo, ToManager(IdentityManagerReady))

\* Two ServiceIdentity objects never hold one service user (README: "1 Service
\* User license is consumed per Kubernetes workload"): what next_identity
\* takes from the pool is in nobody's object.
NoSharedUser ==
    \A s, t \in Services : s # t /\ crd[s] # NoUser => crd[s] # crd[t]

\* The pool of the Identity Manager holds each user once, and only users that
\* exist in the controller, are disabled, have their password in the global
\* Secret and are held by no identity, in memory or in Kubernetes.
PoolIsFree ==
    \A i \in 1..Len(pool) :
        /\ sdp[pool[i]] = "disabled"
        /\ pool[i] \in secret
        /\ \A s \in Services : services[s] # pool[i] /\ crd[s] # pool[i]
        /\ \A j \in 1..Len(pool) : pool[i] = pool[j] => i = j

\* Once everything has been handled, the manager's memory, the object, the
\* Secret of the service and the controller agree on every identity, whatever
\* the interleaving of activation, deletion and re-creation.  (A call that
\* failed is not repeated, so nothing is promised after one.)
SettledIdentities ==
    Settled /\ failures = 0 =>
        \A s \in Services : crd[s] # NoUser =>
            /\ services[s] = crd[s]
            /\ svcSecret[s] = crd[s]
            /\ sdp[crd[s]] = "enabled"

\* Once everything has been handled, every enabled user of the controller is
\* held by a ServiceIdentity: no license is consumed for nobody.
SettledNoLeak ==
    Settled => \A u \in Users : sdp[u] = "enabled" => \E s \in Services : crd[s] = u

\* Once everything has been handled, every ServiceIdentity belongs to a
\* candidate some watcher still tracks: deletions and the reconciliation leave
\* no identity behind.
SettledNoExtra ==
    Settled => \A s \in Services :
        crd[s] # NoUser => \E w \in Watchers : s \in applied[w]

\* Once everything has been handled, the pool is full again: each user taken
\* by request_service_identity is replaced through CreateIdentity, unless a
\* call failed.
SettledPool == Settled /\ failures = 0 => Len(pool) >= PoolSize

\* The service has an identity that works.
Served(s) ==
    /\ crd[s] # NoUser
    /\ sdp[crd[s]] = "enabled"
    /\ svcSecret[s] = crd[s]

\* A candidate a watcher tracks gets an identity whose user is enabled and
\* whose Secret holds that user's credentials, unless the watcher stops
\* tracking it (README: "it requests the Identity Manager to create a new
\* ServiceIdentity").
CandidateServed ==
    \A o \in Objects :
        o[2] \in applied[o[1]] ~> Served(o[2]) \/ o[2] \notin applied[o[1]]

\* The identity of a candidate that its watcher stopped tracking, or that was
\* gone at start-up, is removed (deleted_service_candidate, the first stage of
\* identity_manager_ready), unless the candidate comes back.
IdentityRemoved ==
    \A o \in Objects :
        (wphase[o[1]] = "run" /\ o[2] \notin applied[o[1]])
            ~> (crd[o[2]] = NoUser \/ o[2] \in applied[o[1]])

\* The handshake of the three tasks ends after every restart: the creator
\* fills the pool, the manager reconciles and releases the watchers, and none
\* of them blocks the others on a full channel.
StartupCompletes == <>[](\A w \in Watchers : wphase[w] = "run")

\* The process always comes back to rest: no two tasks wait for each other's
\* channel for ever and no message makes its handlers work without end.
Quiesces == []<>Settled

\* The comment in identity_manager_ready: "Request ServiceIdentity for
\* candidates that dont have it." At the end of the reconciliation every
\* candidate found at start-up is registered.
ReconcileServesFound ==
    InStage("missing") /\ batch = {} =>
        \A s \in existing \cup missing : Registered(s)

\* The release of the device id of a deleted pod does not stay in the
\* manager's channel for ever (README: "On Pod deletion, the Device ID
\* assigned to it is [...] released and added back into the pool.").
ReleaseHandled ==
    \A s \in Services :
        LET m == [type |-> "ReleaseDeviceId", s |-> s]
        IN  InQueue(imq, m) ~> ~InQueue(imq, m)

-----------------------------------------------------------------------------
(***************************************************************************)
(* The inductive invariant behind ReconcileInformed and ReconcileOnce.     *)
(* Every part announces its readiness behind what it reported, in the same *)
(* FIFO channel, and the manager turns the last announcement into a single *)
(* IdentityManagerReady.                                                   *)
(***************************************************************************)
\* m is in q at most once.
Once(q, m) == \A i, j \in 1..Len(q) : q[i] = m /\ q[j] = m => i = j

\* Every member of K in q is followed by a member of M.
FollowedBy(q, K, M) ==
    \A i \in 1..Len(q) : q[i] \in K =>
        \E j \in 1..Len(q) : j > i /\ q[j] \in M

Notified(w) == wphase[w] \in {"wait", "run"}

\* A watcher notifies when it has examined every object it listed.
AllExamined == \A w \in Watchers : Notified(w) => listed[w] = {}

\* The manager has counted the watcher's notification.
Counted(w) == Notified(w) /\ ~InQueue(imq, DeploymentWatcherReady(w))

\* The manager's count is the number of notifications it consumed, a candidate
\* reported at start-up is queued ahead of a notification, and the watchers
\* run only when released.
WatcherOrder ==
    /\ \A w \in Watchers : InQueue(imq, DeploymentWatcherReady(w)) =>
           wphase[w] = "wait" /\ Once(imq, DeploymentWatcherReady(w))
    /\ watchersReady = (IF Counted("Deployment") THEN 1 ELSE 0)
                       + (IF Counted("SDPService") THEN 1 ELSE 0)
    /\ (\A w \in Watchers : Notified(w)) =>
           FollowedBy(imq, FoundCandidateMsg, WatcherReadyMsg)
    /\ \A w \in Watchers : wphase[w] = "run" => released

\* A member of K is in q ahead of m.
Ahead(q, K, m) == \E i, j \in 1..Len(q) : i < j /\ q[i] \in K /\ q[j] = m

UserReports(u) == {FoundServiceUser(u, TRUE), FoundServiceUser(u, FALSE)}

\* The user is recorded, or its report is queued; once initialize is over, it
\* is queued ahead of IdentityCreatorReady.
Reported(u) ==
    \/ u \in activated \cup deactivated
    \/ IF icphase = "run"
       THEN Ahead(imq, UserReports(u), IdentityCreatorReady)
       ELSE \E m \in UserReports(u) : InQueue(imq, m)

\* IdentityCreatorReady is sent once, when initialize is over, and behind the
\* reports of all known users.
CreatorOrder ==
    /\ InQueue(imq, IdentityCreatorReady) =>
           /\ icphase = "run" /\ ~creatorReady
           /\ Once(imq, IdentityCreatorReady)
    /\ creatorReady => icphase = "run"
    /\ \A u \in known : Reported(u)

\* IdentityManagerReady is on its way.
ReadyQueued == InQueue(imq, IdentityManagerReady)
ReadyPending == todo = SelfReady

\* There is a single IdentityManagerReady per process: about to be sent,
\* queued, being handled (stage) or handled (released), and only once all
\* three parts have announced their readiness.
ReadyToken ==
    /\ Once(imq, IdentityManagerReady)
    /\ todo # SelfReady => ~InQueue(todo, ToManager(IdentityManagerReady))
    /\ ~(ReadyQueued /\ ReadyPending)
    /\ ReadyQueued \/ ReadyPending => stage = "none" /\ ~released
    /\ ~(stage # "none" /\ released)
    /\ ReadyQueued \/ ReadyPending \/ stage # "none" \/ released =>
           watchersReady = N_WATCHERS /\ creatorReady

\* The inductive invariant that proves ReconcileInformed and ReconcileOnce:
\* types, the order of the announcements and the single IdentityManagerReady.
ReconcileInv ==
    TypeOK /\ AllExamined /\ WatcherOrder /\ CreatorOrder /\ ReadyToken

-----------------------------------------------------------------------------
(***************************************************************************)
(* The inductive invariant behind PoolIsFree and NoSharedUser.  A user is  *)
(* offered to the pool at most once, and from the pool it goes to a single *)
(* service, through the manager's memory, the object and the messages of   *)
(* its activation.                                                         *)
(***************************************************************************)
\* The user waits in the pool, or a message brings it there.
Report(u) == FoundServiceUser(u, FALSE)
ActiveReport(u) == FoundServiceUser(u, TRUE)
Announced(u) == InQueue(imq, Report(u))
Notifying(u) == InQueue(ictodo, [op |-> "notify", m |-> Report(u)])
Pooled(u) == InQueue(pool, u)
Offered(u) == Announced(u) \/ Notifying(u) \/ Pooled(u)

\* The activation of u for s is on its way.
Activate(s, u) == [type |-> "ActivateServiceUser", s |-> s, u |-> u]
Activation(s, u) == [type |-> "ActivatedServiceUser", s |-> s, u |-> u]
Activating(s, u) ==
    \/ InQueue(todo, ToCreator(Activate(s, u)))
    \/ InQueue(icq, Activate(s, u))
    \/ InQueue(ictodo, [op |-> "notify", m |-> Activation(s, u)])
    \/ InQueue(imq, Activation(s, u))

\* The service s has the user, in memory or in Kubernetes, or will have it.
Held(s, u) == services[s] = u \/ crd[s] = u \/ Activating(s, u)

\* The deletion of u is on its way.
Deletion(s, u) == [type |-> "DeleteServiceUser", s |-> s, u |-> u]
Removal(s, u) == [type |-> "DeleteServiceIdentity", s |-> s, u |-> u]
DeleteOnly(u) == [type |-> "DeleteSDPUser", u |-> u]
Doomed(u) ==
    \E s \in Services :
        \/ InQueue(todo, ToCreator(Deletion(s, u))) \/ InQueue(icq, Deletion(s, u))
        \/ InQueue(todo, ToManager(Removal(s, u))) \/ InQueue(imq, Removal(s, u))

\* A user is offered once: a second offer would give it to two services.
SingleOffer ==
    \A u \in Users :
        /\ Once(imq, Report(u)) /\ Once(pool, u)
        /\ Notifying(u) => ictodo = NotifyFree(u) /\ ~Announced(u) /\ ~Pooled(u)
        /\ ~(Announced(u) /\ Pooled(u))

\* initialize reports a user once, before new users are created, and what it
\* reported is not cleaned from the global Secret.
ScanOrder ==
    /\ icphase \in {"wait", "scan"} => ictodo = <<>>
    /\ icphase = "wait" => \A u \in Users : ~Offered(u)
    /\ icphase = "scan" => \A u \in Users : Offered(u) => u \in known \ scan
    /\ icphase # "scan" => scan = {}
    /\ \A u \in scan : Exists(u)

\* A uuid that was never used is nowhere.
FreshUnknown ==
    \A u \in Users : sdp[u] = "fresh" =>
        /\ ~Offered(u) /\ ~Doomed(u) /\ u \notin scan
        /\ \A s \in Services : ~Held(s, u)

\* What the manager found in the pool it also recorded as deactivated.
PoolRecorded == \A u \in Users : Pooled(u) => u \in deactivated

\* Until the reconciliation requests identities nothing is activated and the
\* manager's memory is what it restored.
Requesting == released \/ stage = "missing"
Unrequested ==
    ~Requesting =>
        /\ \A s \in Services :
              ~InQueue(imq, [type |-> "RequestServiceIdentity", s |-> s])
        /\ \A s \in Services, u \in Users : ~Activating(s, u)
        /\ services = IF imphase = "run" THEN crd ELSE [s \in Services |-> NoUser]

\* In the first process, an offered user is free; nobody has a user before the
\* reconciliation, and no active user is ever found.
FirstProcess ==
    /\ \A u \in Users : Offered(u) =>
          /\ sdp[u] = "disabled" /\ u \in secret
          /\ ~Doomed(u) /\ \A s \in Services : ~Held(s, u)
    /\ ~released /\ stage = "none" =>
          \A u \in Users : /\ sdp[u] # "enabled" /\ ~Doomed(u)
                           /\ \A s \in Services : ~Held(s, u)
    /\ activated = {} /\ (stage = "users" => batch = {})
    /\ \A u \in Users :
          /\ ~InQueue(imq, ActiveReport(u))
          /\ ~InQueue(ictodo, [op |-> "notify", m |-> ActiveReport(u)])
          /\ ~InQueue(icq, DeleteOnly(u)) /\ ~InQueue(todo, ToCreator(DeleteOnly(u)))

\* After a restart a user that is offered may have a service, whose activation
\* the restart has cut off: the manager learns of it before the reconciliation,
\* which has yet to delete the identity.
ToReconcile(s) ==
    CASE stage = "none" -> TRUE
      [] stage = "extra" -> s \in batch \cup existing
      [] stage = "users" -> s \in existing
      [] stage = "stale" -> s \in batch
      [] OTHER -> FALSE

OffersReconciled ==
    \A s \in Services, u \in Users : Offered(u) /\ Held(s, u) =>
        /\ ~released /\ ToReconcile(s)
        /\ ~Notifying(u)
        /\ Announced(u) =>
              icphase # "run" \/ Ahead(imq, {Report(u)}, IdentityCreatorReady)

SingleHolder ==
    \A s, t \in Services, u \in Users : Held(s, u) /\ Held(t, u) => s = t

\* The inductive invariant that proves PoolIsFree, and NoSharedUser unless both
\* a restart and a failed call have happened.
UserInv ==
    /\ SingleOffer /\ ScanOrder /\ FreshUnknown /\ PoolRecorded /\ Unrequested
    /\ crashes = 0 => FirstProcess
    /\ failures = 0 => OffersReconciled
    /\ crashes = 0 \/ failures = 0 => SingleHolder

\* The life of the users that a reader of the controller and of the manager
\* sees.
Lifecycle ==
    INSTANCE UserLifecycle WITH
        running <- (icphase = "run"),
        life <- sdp,
        free <- {u \in Users : Offered(u)},
        holders <- [u \in Users |-> {s \in Services : Held(s, u)}]

\* As long as the process is not restarted by force, the three tasks move users
\* as UserLifecycle does, in which nothing is ever on its way: next_identity
\* gives a user to one service for good, the creator enables it while this
\* service has it, and no message brings it back to the pool.
FollowsLifecycle == Lifecycle!LifecycleSpec
=============================================================================
