-------------------------- MODULE IdentityManager ---------------------------
(***************************************************************************)
(* The Identity Manager: one task, one message at a time.  A handler's     *)
(* sends wait for room in the channel; until they are done the manager     *)
(* reads no other message.                                                 *)
(***************************************************************************)
EXTENDS IdentityProtocol

\* What no step of the manager changes.
ManagerFrame ==
    UNCHANGED <<svcSecret, secret, sdp, clusterVars, watcherVars, creatorVars,
                envVars>>

\* Faulty: the manager reads nothing before the creator is ready.
Idle_WhenReady == imphase = "run" /\ todo = <<>> /\ stage = "none" /\ creatorReady

Idle == imphase = "run" /\ todo = <<>> /\ stage = "none"

\* Consume the message m at the head of the manager's channel.
Receive(m) ==
    /\ Idle
    /\ imq # <<>>
    /\ m = Head(imq)
    /\ imq' = Tail(imq)

\* Faulty: a user is handed out and kept.
pop_Peek(p) == p

\* The pool without the user that next_identity takes.
pop(p) == Tail(p)

\* Faulty: off by one.
needs_new_credentials_Late(p) == Len(p) + 1 < PoolSize

needs_new_credentials(p) == Len(p) < PoolSize

Registered(s) == services[s] # NoUser

\* initialize: restore the identities, then wake the creator.
ManagerInitialize ==
    /\ imphase = "init"
    /\ services' = crd
    /\ SendToCreator([type |-> "StartService"])
    /\ imphase' = "run"
    /\ ManagerFrame
    /\ UNCHANGED <<crd, released, imq, pool, startupVars, readyVars, todo,
                   stageVars, failures>>

\* Complete the next pending send of the current handler.
ManagerSendNext ==
    /\ imphase = "run"
    /\ todo # <<>>
    /\ \/ /\ Head(todo).to = "creator"
          /\ SendToCreator(Head(todo).m)
          /\ UNCHANGED imq
       \/ /\ Head(todo).to = "manager"
          /\ SendToManager(Head(todo).m)
          /\ UNCHANGED icq
    /\ todo' = Tail(todo)
    /\ ManagerFrame
    /\ UNCHANGED <<crd, released, imphase, services, pool, startupVars,
                   readyVars, stageVars, failures>>

\* next_identity, create and the messages of request_service_identity.  A
\* failed create leaves the identity registered in memory only.
RequestIdentity(s) ==
    IF Registered(s) \/ pool = <<>>
    THEN /\ UNCHANGED <<services, pool, crd, todo>>
         /\ CallSucceeds
    ELSE LET u == Head(pool)
             rest == pop(pool)
             sends == (IF needs_new_credentials(rest)
                       THEN <<ToCreator([type |-> "CreateIdentity"])>>
                       ELSE <<>>)
                      \o <<ToCreator([type |-> "ActivateServiceUser",
                                      s |-> s, u |-> u])>>
         IN  /\ pool' = rest
             /\ services' = [services EXCEPT ![s] = u]
             /\ \/ /\ crd[s] = NoUser
                   /\ crd' = [crd EXCEPT ![s] = u]
                   /\ todo' = sends
                   /\ CallSucceeds
                \/ /\ crd[s] # NoUser     \* the API server answers 409
                   /\ UNCHANGED <<crd, todo>>
                   /\ CallSucceeds
                \/ /\ CallFails
                   /\ UNCHANGED <<crd, todo>>

\* delete_service_identity for the identity of s that held u.  A failed
\* delete leaves it registered and tells the creator nothing.
DeleteIdentity(s, u) ==
    \/ /\ crd[s] # NoUser
       /\ crd' = [crd EXCEPT ![s] = NoUser]
       /\ services' = [services EXCEPT ![s] = NoUser]
       /\ todo' = <<ToCreator([type |-> "DeleteServiceUser",
                               s |-> s, u |-> u])>>
       /\ CallSucceeds
    \/ /\ crd[s] = NoUser                \* the API server answers 404
       /\ UNCHANGED <<crd, services, todo>>
       /\ CallSucceeds
    \/ /\ CallFails
       /\ UNCHANGED <<crd, services, todo>>

\* update: replace the object's spec, or create the object if it is gone.
UpdateIdentity(s, u) ==
    \/ /\ crd' = [crd EXCEPT ![s] = u]
       /\ CallSucceeds
    \/ /\ CallFails
       /\ UNCHANGED crd

found_service_candidate(s) ==
    /\ Receive(FoundServiceCandidate(s))
    /\ IF Registered(s)
       THEN existing' = existing \cup {s} /\ UNCHANGED missing
       ELSE missing' = missing \cup {s} /\ UNCHANGED existing
    /\ ManagerFrame
    /\ UNCHANGED <<crd, released, icq, imphase, services, pool, activated,
                   deactivated, readyVars, todo, stageVars, failures>>

found_service_user(u, on) ==
    /\ Receive(FoundServiceUser(u, on))
    /\ IF on
       THEN /\ activated' = activated \cup {u}
            /\ UNCHANGED <<deactivated, pool>>
       ELSE /\ deactivated' = deactivated \cup {u}
            /\ pool' = Append(pool, u)
            /\ UNCHANGED activated
    /\ ManagerFrame
    /\ UNCHANGED <<crd, released, icq, imphase, services, existing, missing,
                   readyVars, todo, stageVars, failures>>

SelfReady == <<ToManager(IdentityManagerReady)>>

\* Faulty: the other side's readiness is not checked.
ReadyIf_Always(ready) == SelfReady

\* Both readiness handlers send IdentityManagerReady to the manager's own
\* channel when the other side is ready already.
ReadyIf(ready) == IF ready THEN SelfReady ELSE <<>>

identity_creator_ready ==
    /\ Receive(IdentityCreatorReady)
    /\ creatorReady' = TRUE
    /\ todo' = ReadyIf(watchersReady = N_WATCHERS)
    /\ ManagerFrame
    /\ UNCHANGED <<crd, released, icq, imphase, services, pool, startupVars,
                   watchersReady, stageVars, failures>>

deployment_watcher_ready(w) ==
    /\ Receive(DeploymentWatcherReady(w))
    /\ watchersReady' = watchersReady + 1
    /\ todo' = ReadyIf(watchersReady + 1 = N_WATCHERS /\ creatorReady)
    /\ ManagerFrame
    /\ UNCHANGED <<crd, released, icq, imphase, services, pool, startupVars,
                   creatorReady, stageVars, failures>>

request_service_identity(s) ==
    /\ Receive([type |-> "RequestServiceIdentity", s |-> s])
    /\ RequestIdentity(s)
    /\ ManagerFrame
    /\ UNCHANGED <<released, icq, imphase, startupVars, readyVars, stageVars>>

\* Faulty: the deletion is forgotten.
DeletionOf_Nothing(s) == <<>>

\* The identity is not deleted at once: its deletion is queued behind whatever
\* is in the manager's own channel.
DeletionOf(s) ==
    IF Registered(s)
    THEN <<ToManager([type |-> "DeleteServiceIdentity",
                      s |-> s, u |-> services[s]])>>
    ELSE <<>>

deleted_service_candidate(s) ==
    /\ Receive([type |-> "DeletedServiceCandidate", s |-> s])
    /\ todo' = DeletionOf(s)
    /\ ManagerFrame
    /\ UNCHANGED <<crd, released, icq, imphase, services, pool, startupVars,
                   readyVars, stageVars, failures>>

delete_service_identity(s, u) ==
    /\ Receive([type |-> "DeleteServiceIdentity", s |-> s, u |-> u])
    /\ DeleteIdentity(s, u)
    /\ ManagerFrame
    /\ UNCHANGED <<released, icq, imphase, pool, startupVars, readyVars,
                   stageVars>>

\* The identity takes the user of the message, whatever user it held.
activated_service_user(s, u) ==
    /\ Receive([type |-> "ActivatedServiceUser", s |-> s, u |-> u])
    /\ IF Registered(s)
       THEN /\ services' = [services EXCEPT ![s] = u]
            /\ UpdateIdentity(s, u)
       ELSE /\ UNCHANGED <<services, crd>>
            /\ CallSucceeds
    /\ ManagerFrame
    /\ UNCHANGED <<released, icq, imphase, pool, startupVars, readyVars, todo,
                   stageVars>>

\* The device ids themselves are in module DeviceIds; what matters here is
\* the write of the object and the message to the creator.
release_device_id(s) ==
    /\ Receive([type |-> "ReleaseDeviceId", s |-> s])
    /\ LET u == services[s]
       IN  \/ /\ Registered(s)
              /\ crd' = [crd EXCEPT ![s] = u]
              /\ todo' = <<ToCreator([type |-> "ReleaseDeviceId", u |-> u])>>
              /\ CallSucceeds
           \/ /\ Registered(s)
              /\ CallFails                   \* the `?` ends the handler
              /\ UNCHANGED <<crd, todo>>
           \/ /\ ~Registered(s)
              /\ CallSucceeds
              /\ UNCHANGED <<crd, todo>>
    /\ ManagerFrame
    /\ UNCHANGED <<released, icq, imphase, services, pool, startupVars,
                   readyVars, stageVars>>

(***************************************************************************)
(* identity_manager_ready, the reconciliation: delete the identities of    *)
(* unknown candidates, the active users no identity holds and the          *)
(* identities that hold a deactivated user, then request an identity for   *)
(* every candidate found without one, and release the watchers.  Each      *)
(* stage works through a batch computed when the stage starts.             *)
(***************************************************************************)
\* Faulty: registration is not checked; nothing is ever extra.
extra_service_identities_Any == {s \in Services : s \notin existing}
extra_service_identities_None == {}

extra_service_identities == {s \in Services : Registered(s) /\ s \notin existing}

\* Faulty: active users are left alone.
orphan_service_users_None == {}

orphan_service_users == activated \ {services[s] : s \in Services}

\* Faulty: identities with a deactivated user are left alone.
orphan_service_identities_None == {}

\* Every identity of the first stage is in removed_service_identities, also
\* when its deletion failed, so this stage only sees candidates that exist.
orphan_service_identities ==
    {s \in existing : Registered(s) /\ services[s] \in deactivated}

ReconcileStart ==
    /\ Receive(IdentityManagerReady)
    /\ stage' = "extra"
    /\ batch' = extra_service_identities
    /\ ManagerFrame
    /\ UNCHANGED <<crd, released, icq, imphase, services, pool, startupVars,
                   readyVars, todo, failures>>

InStage(st) == imphase = "run" /\ todo = <<>> /\ stage = st

\* One deletion of the first or of the third stage.
ReconcileDelete(s) ==
    /\ InStage("extra") \/ InStage("stale")
    /\ s \in batch
    /\ DeleteIdentity(s, services[s])
    /\ batch' = batch \ {s}
    /\ ManagerFrame
    /\ UNCHANGED <<released, imq, icq, imphase, pool, startupVars, readyVars,
                   stage>>

ReconcileExtraDone ==
    /\ InStage("extra")
    /\ batch = {}
    /\ stage' = "users"
    /\ batch' = orphan_service_users
    /\ ManagerFrame
    /\ UNCHANGED <<crd, released, imq, icq, imphase, services, pool,
                   startupVars, readyVars, todo, failures>>

ReconcileUser(u) ==
    /\ InStage("users")
    /\ u \in batch
    /\ SendToCreator([type |-> "DeleteSDPUser", u |-> u])
    /\ batch' = batch \ {u}
    /\ ManagerFrame
    /\ UNCHANGED <<crd, released, imq, imphase, services, pool, startupVars,
                   readyVars, todo, stage, failures>>

ReconcileUsersDone ==
    /\ InStage("users")
    /\ batch = {}
    /\ stage' = "stale"
    /\ batch' = orphan_service_identities
    /\ ManagerFrame
    /\ UNCHANGED <<crd, released, imq, icq, imphase, services, pool,
                   startupVars, readyVars, todo, failures>>

ReconcileStaleDone ==
    /\ InStage("stale")
    /\ batch = {}
    /\ SendToCreator([type |-> "ReconcileSDPUsers"])
    /\ stage' = "missing"
    /\ batch' = missing
    /\ ManagerFrame
    /\ UNCHANGED <<crd, released, imq, imphase, services, pool, startupVars,
                   readyVars, todo, failures>>

ReconcileMissing(s) ==
    /\ InStage("missing")
    /\ s \in batch
    /\ RequestIdentity(s)
    /\ batch' = batch \ {s}
    /\ ManagerFrame
    /\ UNCHANGED <<released, imq, icq, imphase, startupVars, readyVars,
                   stage>>

\* Faulty: the watchers are not released.
ReconcileDone_Silent ==
    /\ InStage("missing")
    /\ batch = {}
    /\ stage' = "none"
    /\ ManagerFrame
    /\ UNCHANGED <<crd, released, imq, icq, imphase, services, pool, startupVars,
                   readyVars, todo, batch, failures>>

ReconcileDone ==
    /\ InStage("missing")
    /\ batch = {}
    /\ released' = TRUE
    /\ stage' = "none"
    /\ ManagerFrame
    /\ UNCHANGED <<crd, imq, icq, imphase, services, pool, startupVars,
                   readyVars, todo, batch, failures>>

ManagerNext ==
    \/ ManagerInitialize
    \/ ManagerSendNext
    \/ \E s \in Services :
          \/ found_service_candidate(s)
          \/ request_service_identity(s)
          \/ deleted_service_candidate(s)
          \/ release_device_id(s)
          \/ ReconcileDelete(s)
          \/ ReconcileMissing(s)
    \/ \E u \in Users, on \in BOOLEAN : found_service_user(u, on)
    \/ \E s \in Services, u \in Users :
          \/ delete_service_identity(s, u)
          \/ activated_service_user(s, u)
    \/ identity_creator_ready
    \/ \E w \in Watchers : deployment_watcher_ready(w)
    \/ ReconcileStart
    \/ ReconcileExtraDone
    \/ \E u \in Users : ReconcileUser(u)
    \/ ReconcileUsersDone
    \/ ReconcileStaleDone
    \/ ReconcileDone
=============================================================================
