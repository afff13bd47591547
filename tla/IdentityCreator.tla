-------------------------- MODULE IdentityCreator ---------------------------
(***************************************************************************)
(* The Identity Creator.                                                   *)
(***************************************************************************)
EXTENDS IdentityProtocol

\* What no step of the creator changes.
CreatorFrame ==
    UNCHANGED <<crd, clusterVars, watcherVars, released, managerVars, envVars>>

Exists(u) == sdp[u] \in {"disabled", "enabled"}

\* Uuid::new_v4: some uuid never used before.
NewUser == CHOOSE u \in Users : sdp[u] = "fresh"

HasFresh == \E u \in Users : sdp[u] = "fresh"

\* Faulty: the password is not saved.
CreateUser_Unsaved(u) ==
    /\ sdp' = [sdp EXCEPT ![u] = "disabled"]
    /\ UNCHANGED secret

\* create_user: the user is created disabled, then its password is saved.
CreateUser(u) ==
    /\ sdp' = [sdp EXCEPT ![u] = "disabled"]
    /\ secret' = secret \cup {u}

\* The client profile of the cluster cannot be found or created, or the user is
\* refused.  A profile that was created is found by its name the next time.
NoUserCreated == UNCHANGED <<sdp, secret>>

\* The user was created, and its password cannot be saved.
PasswordNotSaved ==
    /\ HasFresh
    /\ sdp' = [sdp EXCEPT ![NewUser] = "disabled"]
    /\ UNCHANGED secret

CreateUserFails == CallFails /\ (NoUserCreated \/ PasswordNotSaved)

\* delete_sdp_user: the password first (an error there ends it), then the user.
RemoveFromController(u) ==
    sdp' = IF Exists(u) THEN [sdp EXCEPT ![u] = "deleted"] ELSE sdp

UserDeleted(u) ==
    /\ secret' = secret \ {u}
    /\ RemoveFromController(u)

DeletionFailed(u) ==
    /\ secret' \in {secret, secret \ {u}}
    /\ UNCHANGED sdp

DeleteUser(u) ==
    \/ UserDeleted(u) /\ CallSucceeds
    \/ DeletionFailed(u) /\ CallFails

\* The password of the user can be read from the global Secret.
Restored(u) == u \in secret

\* Before StartService every message is read and dropped; with it, the users
\* known to the controller are fetched.
CreatorStart ==
    /\ icphase = "wait"
    /\ icq # <<>>
    /\ icq' = Tail(icq)
    /\ IF Head(icq).type = "StartService"
       THEN /\ icphase' = "scan"
            /\ scan' = {u \in Users : Exists(u)}
            /\ known' = {}
            /\ nMissing' = PoolSize
       ELSE UNCHANGED <<icphase, scanVars>>
    /\ CreatorFrame
    /\ UNCHANGED <<svcSecret, secret, sdp, imq, ictodo, failures>>

\* initialize, for one user of the controller: report it if its password can
\* be read from the global Secret, delete it otherwise.  A fetched user has no
\* password, so delete_sdp_user leaves the Secret alone here.
CreatorScan(u) ==
    /\ icphase = "scan"
    /\ u \in scan
    /\ scan' = scan \ {u}
    /\ \/ /\ Restored(u)
          /\ SendToManager(FoundServiceUser(u, sdp[u] = "enabled"))
          /\ known' = known \cup {u}
          /\ nMissing' = IF sdp[u] = "disabled" /\ nMissing > 0
                         THEN nMissing - 1
                         ELSE nMissing
          /\ UNCHANGED sdp
          /\ CallSucceeds
       \/ /\ ~Restored(u)
          /\ RemoveFromController(u)
          /\ UNCHANGED <<imq, known, nMissing>>
          /\ CallSucceeds
       \/ /\ CallFails              \* reading the Secret, or the deletion, fails
          /\ \/ Restored(u) /\ RemoveFromController(u)
             \/ UNCHANGED sdp
          /\ UNCHANGED <<imq, known, nMissing>>
    /\ CreatorFrame
    /\ UNCHANGED <<svcSecret, secret, icq, icphase, ictodo>>

\* cleanup_secret_entries.
CreatorClean ==
    /\ icphase = "scan"
    /\ scan = {}
    /\ secret' = secret \cap known
    /\ icphase' = "fill"
    /\ CreatorFrame
    /\ UNCHANGED <<svcSecret, sdp, imq, icq, scanVars, ictodo, failures>>

\* Faulty: the manager is not told.
NotifyFree_Nobody(u) == <<>>

NotifyFree(u) ==
    <<[op |-> "notify", m |-> FoundServiceUser(u, FALSE)]>>

CreatorFill ==
    /\ icphase = "fill"
    /\ ictodo = <<>>
    /\ nMissing > 0
    /\ HasFresh
    /\ CreateUser(NewUser)
    /\ ictodo' = NotifyFree(NewUser)
    /\ nMissing' = nMissing - 1
    /\ CreatorFrame
    /\ UNCHANGED <<svcSecret, imq, icq, icphase, scan, known, failures>>

CreatorReady ==
    /\ icphase = "fill"
    /\ ictodo = <<>>
    /\ nMissing = 0
    /\ SendToManager(IdentityCreatorReady)
    /\ icphase' = "run"
    /\ CreatorFrame
    /\ UNCHANGED <<svcSecret, secret, sdp, icq, scanVars, ictodo, failures>>

\* Complete the next pending step of the current handler.
CreatorNotify ==
    /\ ictodo # <<>>
    /\ Head(ictodo).op = "notify"
    /\ SendToManager(Head(ictodo).m)
    /\ ictodo' = Tail(ictodo)
    /\ CreatorFrame
    /\ UNCHANGED <<svcSecret, secret, sdp, icq, icphase, scanVars, failures>>

CreatorSecrets ==
    /\ ictodo # <<>>
    /\ Head(ictodo).op = "secrets"
    /\ \/ /\ svcSecret' = [svcSecret EXCEPT ![Head(ictodo).s] = Head(ictodo).u]
          /\ CallSucceeds
       \/ /\ CallFails
          /\ UNCHANGED svcSecret
    /\ ictodo' = Tail(ictodo)
    /\ CreatorFrame
    /\ UNCHANGED <<secret, sdp, imq, icq, icphase, scanVars>>

\* Consume the message m at the head of the creator's channel.
CreatorReceive(m) ==
    /\ icphase = "run"
    /\ ictodo = <<>>
    /\ icq # <<>>
    /\ m = Head(icq)
    /\ icq' = Tail(icq)

CreateIdentity ==
    /\ CreatorReceive([type |-> "CreateIdentity"])
    /\ \/ /\ HasFresh
          /\ CreateUser(NewUser)
          /\ ictodo' = NotifyFree(NewUser)
          /\ CallSucceeds
       \/ /\ ~HasFresh                     \* the controller refuses
          /\ UNCHANGED <<sdp, secret, ictodo>>
          /\ CallSucceeds
       \/ /\ CreateUserFails
          /\ UNCHANGED ictodo
    /\ CreatorFrame
    /\ UNCHANGED <<svcSecret, imq, icphase, scanVars>>

\* The service's Secret and ConfigMap are deleted by their names, whoever's
\* credentials they hold.
SecretsDeleted(s) == svcSecret' = [svcSecret EXCEPT ![s] = NoUser]

DeleteServiceUser(s, u) ==
    /\ CreatorReceive([type |-> "DeleteServiceUser", s |-> s, u |-> u])
    /\ \/ /\ UserDeleted(u)
          /\ SecretsDeleted(s)
          /\ CallSucceeds
       \/ /\ UserDeleted(u) \/ DeletionFailed(u)
          /\ SecretsDeleted(s) \/ UNCHANGED svcSecret
          /\ CallFails
    /\ CreatorFrame
    /\ UNCHANGED <<imq, creatorVars>>

\* Faulty: the Secret of the service is not written.
ActivationSteps_NoSecret(s, u) ==
    <<[op |-> "notify", m |-> [type |-> "ActivatedServiceUser",
                               s |-> s, u |-> u]]>>

\* What follows an activation.
ActivationSteps(s, u) ==
    <<[op |-> "notify", m |-> [type |-> "ActivatedServiceUser",
                               s |-> s, u |-> u]],
      [op |-> "secrets", s |-> s, u |-> u]>>

\* The manager is told that the user is active also when the controller
\* refused to modify it.
ActivateServiceUser(s, u) ==
    /\ CreatorReceive([type |-> "ActivateServiceUser", s |-> s, u |-> u])
    /\ \/ /\ sdp' = IF Exists(u) THEN [sdp EXCEPT ![u] = "enabled"] ELSE sdp
          /\ CallSucceeds
       \/ /\ CallFails
          /\ UNCHANGED sdp
    /\ ictodo' = ActivationSteps(s, u)
    /\ CreatorFrame
    /\ UNCHANGED <<svcSecret, secret, imq, icphase, scanVars>>

DeleteSDPUser(u) ==
    /\ CreatorReceive([type |-> "DeleteSDPUser", u |-> u])
    /\ DeleteUser(u)
    /\ CreatorFrame
    /\ UNCHANGED <<svcSecret, imq, creatorVars>>

\* ReconcileSDPUsers, ReleaseDeviceId: only device registrations change.
CreatorDevices ==
    /\ \/ CreatorReceive([type |-> "ReconcileSDPUsers"])
       \/ \E u \in Users : CreatorReceive([type |-> "ReleaseDeviceId", u |-> u])
    /\ CreatorFrame
    /\ UNCHANGED <<svcSecret, secret, sdp, imq, creatorVars, failures>>

CreatorNext ==
    \/ CreatorStart
    \/ \E u \in Users : CreatorScan(u) \/ DeleteSDPUser(u)
    \/ CreatorClean
    \/ CreatorFill
    \/ CreatorReady
    \/ CreatorNotify
    \/ CreatorSecrets
    \/ CreateIdentity
    \/ \E s \in Services, u \in Users :
          \/ DeleteServiceUser(s, u)
          \/ ActivateServiceUser(s, u)
    \/ CreatorDevices
=============================================================================
