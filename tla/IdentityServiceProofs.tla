----------------------- MODULE IdentityServiceProofs ------------------------
(***************************************************************************)
(* Types, ReconcileInformed and ReconcileOnce for any sets of services and *)
(* users, any capacity of the channels and any bounds on the environment.  *)
(***************************************************************************)
EXTENDS IdentityService, TLAPS

\* Every message the tasks send to the manager is a ManagerMsg.
LEMMA ManagerMessages ==
    /\ \A s \in Services :
          /\ FoundServiceCandidate(s) \in ManagerMsg
          /\ [type |-> "RequestServiceIdentity", s |-> s] \in ManagerMsg
          /\ [type |-> "DeletedServiceCandidate", s |-> s] \in ManagerMsg
          /\ [type |-> "ReleaseDeviceId", s |-> s] \in ManagerMsg
    /\ \A w \in Watchers : DeploymentWatcherReady(w) \in ManagerMsg
    /\ \A u \in Users, on \in BOOLEAN : FoundServiceUser(u, on) \in ManagerMsg
    /\ IdentityCreatorReady \in ManagerMsg
    /\ IdentityManagerReady \in ManagerMsg
<1>1. \A s \in Services : FoundServiceCandidate(s) \in FoundCandidateMsg
  BY DEF FoundCandidateMsg
<1>2. \A w \in Watchers : DeploymentWatcherReady(w) \in WatcherReadyMsg
  BY DEF WatcherReadyMsg
<1>3. ASSUME NEW u \in Users, NEW on \in BOOLEAN
      PROVE  FoundServiceUser(u, on) \in FoundUserMsg
  <2>1. FoundServiceUser(u, TRUE) \in FoundUserMsg
    BY DEF FoundUserMsg
  <2>2. FoundServiceUser(u, FALSE) \in FoundUserMsg
    BY DEF FoundUserMsg
  <2>3. on = TRUE \/ on = FALSE
    OBVIOUS
  <2>4. QED BY Zenon, <2>1, <2>2, <2>3
<1>4. \A s \in Services :
          /\ [type |-> "RequestServiceIdentity", s |-> s] \in CandidateMsg
          /\ [type |-> "DeletedServiceCandidate", s |-> s] \in CandidateMsg
          /\ [type |-> "ReleaseDeviceId", s |-> s] \in CandidateMsg
  BY DEF CandidateMsg
<1>5. QED BY <1>1, <1>2, <1>3, <1>4 DEF ManagerMsg

\* Every message the manager sends to the creator is a CreatorMsg.
LEMMA CreatorMessages ==
    /\ [type |-> "StartService"] \in CreatorMsg
    /\ [type |-> "CreateIdentity"] \in CreatorMsg
    /\ [type |-> "ReconcileSDPUsers"] \in CreatorMsg
    /\ \A s \in Services, u \in Users :
          /\ [type |-> "DeleteServiceUser", s |-> s, u |-> u] \in CreatorMsg
          /\ [type |-> "ActivateServiceUser", s |-> s, u |-> u] \in CreatorMsg
    /\ \A u \in Users :
          /\ [type |-> "DeleteSDPUser", u |-> u] \in CreatorMsg
          /\ [type |-> "ReleaseDeviceId", u |-> u] \in CreatorMsg
BY DEF CreatorMsg

\* The sends of the manager that are still pending, and what they carry.
LEMMA PendingSends ==
    /\ \A m \in CreatorMsg : ToCreator(m) \in ManagerSend
    /\ ToManager(IdentityManagerReady) \in ManagerSend
    /\ \A s \in Services, u \in Users :
          ToManager([type |-> "DeleteServiceIdentity", s |-> s, u |-> u])
              \in ManagerSend
    /\ \A x \in ManagerSend :
          /\ x.to = "creator" => x.m \in CreatorMsg
          /\ x.to = "manager" => x.m \in DeleteMsg \cup {IdentityManagerReady}
          /\ x.to = "manager" => x.m \in ManagerMsg
<1>1. \A m \in CreatorMsg : ToCreator(m) \in ManagerSend
  BY DEF ToCreator, ManagerSend
<1>2. ToManager(IdentityManagerReady) \in ManagerSend
  BY DEF ToManager, ManagerSend
<1>3. \A s \in Services, u \in Users :
          [type |-> "DeleteServiceIdentity", s |-> s, u |-> u] \in DeleteMsg
  BY DEF DeleteMsg
<1>4. \A m \in DeleteMsg : ToManager(m) \in ManagerSend
  BY DEF ToManager, ManagerSend
<1>5. \A x \in ManagerSend :
          /\ x.to = "creator" => x.m \in CreatorMsg
          /\ x.to = "manager" => x.m \in DeleteMsg \cup {IdentityManagerReady}
  BY DEF ManagerSend
<1>6. DeleteMsg \cup {IdentityManagerReady} \subseteq ManagerMsg
  BY DEF ManagerMsg
<1>7. QED BY <1>1, <1>2, <1>3, <1>4, <1>5, <1>6

\* The steps of the creator that are still pending, and what they carry.
LEMMA PendingSteps ==
    /\ \A u \in Users :
          [op |-> "notify", m |-> FoundServiceUser(u, FALSE)] \in CreatorStep
    /\ \A s \in Services, u \in Users :
          /\ [op |-> "notify", m |-> [type |-> "ActivatedServiceUser",
                                      s |-> s, u |-> u]] \in CreatorStep
          /\ [op |-> "secrets", s |-> s, u |-> u] \in CreatorStep
    /\ \A x \in CreatorStep :
          /\ x.op = "notify" => x.m \in FoundUserMsg \cup ActivatedMsg
          /\ x.op = "notify" => x.m \in ManagerMsg
          /\ x.op = "secrets" => x.s \in Services /\ x.u \in Users
<1>1. \A u \in Users : FoundServiceUser(u, FALSE) \in FoundUserMsg
  BY DEF FoundUserMsg
<1>2. \A s \in Services, u \in Users :
          [type |-> "ActivatedServiceUser", s |-> s, u |-> u] \in ActivatedMsg
  BY DEF ActivatedMsg
<1>3. \A m \in FoundUserMsg \cup ActivatedMsg :
          [op |-> "notify", m |-> m] \in CreatorStep
  BY DEF CreatorStep
<1>4. \A s \in Services, u \in Users :
          [op |-> "secrets", s |-> s, u |-> u] \in CreatorStep
  BY DEF CreatorStep
<1>5. \A x \in CreatorStep :
          /\ x.op = "notify" => x.m \in FoundUserMsg \cup ActivatedMsg
          /\ x.op = "secrets" => x.s \in Services /\ x.u \in Users
  BY DEF CreatorStep
<1>6. FoundUserMsg \cup ActivatedMsg \subseteq ManagerMsg
  BY DEF ManagerMsg
<1>7. QED BY <1>1, <1>2, <1>3, <1>4, <1>5, <1>6

\* Typing of the initial state.
LEMMA TypeInit == Init => TypeOK
<1> SUFFICES ASSUME Init PROVE TypeOK
  OBVIOUS
<1> USE ConstantsAssumption DEF Init, ProcessInit
<1>1. StoresTypeOK
  BY DEF StoresTypeOK, MaybeUser
<1>b. released \in BOOLEAN /\ creatorReady \in BOOLEAN
  OBVIOUS
<1>e. /\ <<>> \in Seq(WatchEvent)
      /\ todo \in Seq(ManagerSend)
  OBVIOUS
<1>2. WatchersTypeOK
  BY <1>b, <1>e DEF WatchersTypeOK
<1>3. ChannelsTypeOK
  BY DEF ChannelsTypeOK
<1>4. ManagerTypeOK
  BY <1>b, <1>e DEF ManagerTypeOK, BatchTypeOK, ReconcileStages, MaybeUser
<1>5. CreatorTypeOK
  BY DEF CreatorTypeOK
<1>6. BoundsTypeOK
  BY DEF BoundsTypeOK
<1>7. QED BY <1>1, <1>2, <1>3, <1>4, <1>5, <1>6 DEF TypeOK

\* A send to the manager keeps the types of the channels.
LEMMA ManagerSendTyped ==
    ASSUME ChannelsTypeOK, NEW m \in ManagerMsg, SendToManager(m), UNCHANGED icq
    PROVE  ChannelsTypeOK'
BY ConstantsAssumption DEF ChannelsTypeOK, SendToManager

\* A send to the creator keeps the types of the channels.
LEMMA CreatorSendTyped ==
    ASSUME ChannelsTypeOK, NEW m \in CreatorMsg, SendToCreator(m), UNCHANGED imq
    PROVE  ChannelsTypeOK'
BY ConstantsAssumption DEF ChannelsTypeOK, SendToCreator

\* So does the removal of a message.
LEMMA ReceiveTyped ==
    ASSUME ChannelsTypeOK,
           \/ imq # <<>> /\ imq' = Tail(imq) /\ UNCHANGED icq
           \/ icq # <<>> /\ icq' = Tail(icq) /\ UNCHANGED imq
    PROVE  ChannelsTypeOK'
<1> USE ConstantsAssumption DEF ChannelsTypeOK
<1>1. CASE imq # <<>> /\ imq' = Tail(imq) /\ UNCHANGED icq
  BY <1>1
<1>2. CASE icq # <<>> /\ icq' = Tail(icq) /\ UNCHANGED imq
  BY <1>2
<1>3. QED BY <1>1, <1>2

\* A call, whether it succeeds or fails, stays within the bound on failures.
LEMMA CallTyped ==
    ASSUME BoundsTypeOK, CallSucceeds \/ CallFails, UNCHANGED envVars
    PROVE  BoundsTypeOK'
BY ConstantsAssumption DEF BoundsTypeOK, CallSucceeds, CallFails, envVars

\* A step of a candidate watcher keeps the types.
LEMMA WatcherTypes ==
    ASSUME TypeOK, NEW w \in Watchers, WatcherNext(w)
    PROVE  TypeOK'
<1> USE DEF TypeOK
<1>f. ASSUME WatcherFrame
      PROVE  /\ StoresTypeOK' /\ ManagerTypeOK' /\ CreatorTypeOK'
             /\ UNCHANGED <<released, icq, envVars>>
  BY <1>f DEF WatcherFrame, StoresTypeOK, ManagerTypeOK, BatchTypeOK,
              CreatorTypeOK, apiVars, managerVars, startupVars, readyVars,
              stageVars, creatorVars, scanVars, envVars
<1>q. ASSUME UNCHANGED <<imq, icq>> PROVE ChannelsTypeOK'
  BY <1>q DEF ChannelsTypeOK
<1>c. ASSUME CallSucceeds \/ CallFails, UNCHANGED envVars PROVE BoundsTypeOK'
  BY <1>c, CallTyped
<1>l. \A s \in Services :
         /\ InLabelledNamespace(s) => CallSucceeds
         /\ NotInLabelledNamespace(s) => CallSucceeds \/ CallFails
  BY DEF InLabelledNamespace, NotInLabelledNamespace
<1>1. CASE WatcherList(w)
  <2>1. WatchersTypeOK'
    BY <1>1, <1>f DEF WatcherList, WatchersTypeOK
  <2>2. QED BY <1>1, <1>f, <1>q, <1>c, <2>1 DEF WatcherList, CallSucceeds
<1>2. CASE WatcherNotify(w)
  <2>1. WatchersTypeOK'
    BY <1>2, <1>f DEF WatcherNotify, WatchersTypeOK
  <2>2. ChannelsTypeOK'
    BY <1>2, <1>f, ManagerMessages, ManagerSendTyped DEF WatcherNotify
  <2>3. QED BY <1>2, <1>f, <1>c, <2>1, <2>2 DEF WatcherNotify, CallSucceeds
<1>3. CASE WatcherStart(w)
  <2>1. WatchersTypeOK'
    BY <1>3, <1>f DEF WatcherStart, WatchersTypeOK
  <2>2. QED BY <1>3, <1>f, <1>q, <1>c, <2>1 DEF WatcherStart, CallSucceeds
<1>4. CASE WatcherRelist(w)
  <2>1. WatchersTypeOK'
    BY <1>4, <1>f DEF WatcherRelist, WatchersTypeOK
  <2>2. QED BY <1>4, <1>f, <1>q, <1>c, <2>1 DEF WatcherRelist
<1>5. ASSUME NEW s \in Services, WatcherInitialized(w, s) PROVE TypeOK'
  <2>1. WatchersTypeOK'
    BY <1>5, <1>f DEF WatcherInitialized, WatchersTypeOK
  <2>2. ChannelsTypeOK' /\ BoundsTypeOK'
    BY <1>5, <1>f, <1>q, <1>c, <1>l, ManagerMessages, ManagerSendTyped
       DEF WatcherInitialized
  <2>3. QED BY <1>5, <1>f, <2>1, <2>2 DEF WatcherInitialized
<1>e. ASSUME NEW op, NEW s \in Services, WatcherEvent(w, op, s),
             applied' \in [Watchers -> SUBSET Services]
      PROVE  /\ StoresTypeOK' /\ WatchersTypeOK' /\ ManagerTypeOK'
             /\ CreatorTypeOK' /\ UNCHANGED <<icq, envVars>>
  BY <1>e, <1>f DEF WatcherEvent, WatchersTypeOK
<1>6. ASSUME NEW s \in Services, WatcherApply(w, s) PROVE TypeOK'
  <2>1. applied' \in [Watchers -> SUBSET Services]
    BY <1>6 DEF WatcherApply, WatchersTypeOK
  <2>2. WatcherEvent(w, "Apply", s) /\ UNCHANGED <<icq, envVars>>
    BY <1>6, <1>f DEF WatcherApply, WatcherEvent
  <2>3. ChannelsTypeOK' /\ BoundsTypeOK'
    BY <1>6, <1>q, <1>c, <1>l, <2>2, ManagerMessages, ManagerSendTyped
       DEF WatcherApply, CallSucceeds
  <2>4. QED BY <1>e, <2>1, <2>2, <2>3
<1>7. ASSUME NEW s \in Services, WatcherDelete(w, s) PROVE TypeOK'
  <2>1. applied' \in [Watchers -> SUBSET Services]
    BY <1>7 DEF WatcherDelete, WatchersTypeOK
  <2>2. WatcherEvent(w, "Delete", s) /\ UNCHANGED <<icq, envVars>>
    BY <1>7, <1>f DEF WatcherDelete, WatcherEvent
  <2>3. ChannelsTypeOK' /\ BoundsTypeOK'
    BY <1>7, <1>q, <1>c, <1>l, <2>2, ManagerMessages, ManagerSendTyped
       DEF WatcherDelete
  <2>4. QED BY <1>e, <2>1, <2>2, <2>3
<1>8. QED
  BY <1>1, <1>2, <1>3, <1>4, <1>5, <1>6, <1>7 DEF WatcherNext

\* What request_service_identity does to one service keeps the types.
LEMMA RequestTypes ==
    ASSUME TypeOK, NEW s \in Services, RequestIdentity(s)
    PROVE  /\ services' \in [Services -> MaybeUser]
           /\ crd' \in [Services -> MaybeUser]
           /\ pool' \in Seq(Users)
           /\ todo' \in Seq(ManagerSend)
           /\ CallSucceeds \/ CallFails
<1> USE DEF TypeOK, StoresTypeOK, ManagerTypeOK
<1>1. CASE Registered(s) \/ pool = <<>>
  BY <1>1 DEF RequestIdentity
<1>2. CASE ~(Registered(s) \/ pool = <<>>)
  <2> DEFINE u == Head(pool)
             rest == pop(pool)
             more == IF needs_new_credentials(rest)
                     THEN <<ToCreator([type |-> "CreateIdentity"])>>
                     ELSE <<>>
             act == ToCreator([type |-> "ActivateServiceUser",
                               s |-> s, u |-> u])
  <2>1. u \in Users /\ rest \in Seq(Users)
    BY <1>2 DEF pop
  <2>2. act \in ManagerSend /\ <<act>> \in Seq(ManagerSend)
    <3>1. act \in ManagerSend
      BY <2>1, CreatorMessages, PendingSends
    <3> HIDE DEF act
    <3>2. QED BY <3>1
  <2>3. more \in Seq(ManagerSend)
    <3>1. ToCreator([type |-> "CreateIdentity"]) \in ManagerSend
      BY CreatorMessages, PendingSends
    <3>2. QED BY <3>1
  <2>4. /\ pool' = rest
        /\ services' = [services EXCEPT ![s] = u]
        /\ \/ crd' = [crd EXCEPT ![s] = u] /\ todo' = more \o <<act>>
           \/ UNCHANGED <<crd, todo>>
        /\ CallSucceeds \/ CallFails
    BY <1>2 DEF RequestIdentity
  <2> HIDE DEF u, rest, more, act
  <2>5. more \o <<act>> \in Seq(ManagerSend)
    BY <2>2, <2>3
  <2>6. QED BY <2>1, <2>4, <2>5 DEF MaybeUser
<1>3. QED BY <1>1, <1>2

\* What delete_service_identity does to one service keeps the types.
LEMMA DeleteTypes ==
    ASSUME TypeOK, NEW s \in Services, NEW u \in Users, DeleteIdentity(s, u)
    PROVE  /\ services' \in [Services -> MaybeUser]
           /\ \A t \in Services \ {s} : services'[t] = services[t]
           /\ crd' \in [Services -> MaybeUser]
           /\ todo' \in Seq(ManagerSend)
           /\ CallSucceeds \/ CallFails
<1> USE DEF TypeOK, StoresTypeOK, ManagerTypeOK
<1> DEFINE del == ToCreator([type |-> "DeleteServiceUser", s |-> s, u |-> u])
<1>1. del \in ManagerSend
  BY CreatorMessages, PendingSends
<1>2. /\ \/ /\ crd' = [crd EXCEPT ![s] = NoUser]
            /\ services' = [services EXCEPT ![s] = NoUser]
            /\ todo' = <<del>>
         \/ UNCHANGED <<crd, services, todo>>
      /\ CallSucceeds \/ CallFails
  BY DEF DeleteIdentity
<1> HIDE DEF del
<1>3. <<del>> \in Seq(ManagerSend)
  BY <1>1
<1>4. QED BY <1>2, <1>3 DEF MaybeUser

\* A step of the Identity Manager keeps the types.
LEMMA ManagerTypes ==
    ASSUME TypeOK, ManagerNext
    PROVE  TypeOK'
<1> USE DEF TypeOK
<1>f. ASSUME ManagerFrame, crd' \in [Services -> MaybeUser],
             released' \in BOOLEAN
      PROVE  /\ StoresTypeOK' /\ WatchersTypeOK' /\ CreatorTypeOK'
             /\ UNCHANGED envVars
  BY <1>f DEF ManagerFrame, StoresTypeOK, WatchersTypeOK, CreatorTypeOK,
              clusterVars, watcherVars, creatorVars, scanVars, envVars
<1>c. ASSUME CallSucceeds \/ CallFails, UNCHANGED envVars PROVE BoundsTypeOK'
  BY <1>c, CallTyped
<1>q. ASSUME UNCHANGED <<imq, icq>> PROVE ChannelsTypeOK'
  BY <1>q DEF ChannelsTypeOK
<1>r. ASSUME NEW m, Receive(m), UNCHANGED icq
      PROVE  /\ ChannelsTypeOK'
             /\ imphase = "run" /\ stage = "none" /\ todo = <<>>
  BY <1>r, ReceiveTyped DEF Receive, Idle
<1>s. /\ crd \in [Services -> MaybeUser]
      /\ released \in BOOLEAN
      /\ todo \in Seq(ManagerSend)
  BY DEF StoresTypeOK, WatchersTypeOK, ManagerTypeOK
<1>e. <<>> \in Seq(ManagerSend) /\ SelfReady \in Seq(ManagerSend)
  <2>1. ToManager(IdentityManagerReady) \in ManagerSend
    BY PendingSends
  <2>2. QED BY <2>1 DEF SelfReady
<1> USE <1>s, <1>e
<1>1. CASE ManagerInitialize
  <2>1. ManagerTypeOK'
    BY <1>1 DEF ManagerInitialize, ManagerTypeOK, BatchTypeOK, startupVars,
                readyVars, stageVars
  <2>2. ChannelsTypeOK'
    BY <1>1, CreatorMessages, CreatorSendTyped DEF ManagerInitialize
  <2>3. QED BY <1>1, <1>f, <1>c, <2>1, <2>2 DEF ManagerInitialize, CallSucceeds
<1>2. CASE ManagerSendNext
  <2>1. ManagerTypeOK'
    BY <1>2 DEF ManagerSendNext, ManagerTypeOK, BatchTypeOK, startupVars,
                readyVars, stageVars
  <2>2. Head(todo) \in ManagerSend
    BY <1>2 DEF ManagerSendNext
  <2>3. ChannelsTypeOK'
    BY <1>2, <2>2, PendingSends, CreatorSendTyped, ManagerSendTyped
       DEF ManagerSendNext
  <2>4. QED BY <1>2, <1>f, <1>c, <2>1, <2>3 DEF ManagerSendNext, CallSucceeds
<1>3. ASSUME NEW s \in Services, found_service_candidate(s) PROVE TypeOK'
  <2>1. ManagerTypeOK'
    BY <1>3, <1>r DEF found_service_candidate, ManagerTypeOK, BatchTypeOK,
                      readyVars, stageVars
  <2>2. QED BY <1>3, <1>f, <1>c, <1>r, <2>1
            DEF found_service_candidate, CallSucceeds
<1>4. ASSUME NEW u \in Users, NEW on \in BOOLEAN, found_service_user(u, on)
      PROVE  TypeOK'
  <2>1. /\ activated' \subseteq Users /\ deactivated' \subseteq Users
        /\ pool' \in Seq(Users)
    <3>1. CASE on
      BY <1>4, <3>1 DEF found_service_user, ManagerTypeOK
    <3>2. CASE ~on
      <4>1. /\ deactivated' = deactivated \cup {u}
            /\ pool' = Append(pool, u)
            /\ UNCHANGED activated
        BY <1>4, <3>2, Zenon DEF found_service_user
      <4>2. QED BY <4>1 DEF ManagerTypeOK
    <3>3. QED BY <3>1, <3>2
  <2>m. ManagerTypeOK'
    BY <1>4, <1>r, <2>1 DEF found_service_user, ManagerTypeOK, BatchTypeOK,
                            readyVars, stageVars
  <2>2. QED BY <1>4, <1>f, <1>c, <1>r, <2>m
            DEF found_service_user, CallSucceeds
<1>5. CASE identity_creator_ready
  <2>1. todo' \in Seq(ManagerSend) /\ creatorReady' \in BOOLEAN
    BY <1>5 DEF identity_creator_ready, ReadyIf
  <2>2. ManagerTypeOK'
    BY <1>5, <1>r, <2>1 DEF identity_creator_ready, ManagerTypeOK, BatchTypeOK,
                            startupVars, stageVars
  <2>3. QED BY <1>5, <1>f, <1>c, <1>r, <2>2
            DEF identity_creator_ready, CallSucceeds
<1>6. ASSUME NEW w \in Watchers, deployment_watcher_ready(w) PROVE TypeOK'
  <2>1. todo' \in Seq(ManagerSend)
    BY <1>6 DEF deployment_watcher_ready, ReadyIf
  <2>2. ManagerTypeOK'
    BY <1>6, <1>r, <2>1 DEF deployment_watcher_ready, ManagerTypeOK,
                            BatchTypeOK, startupVars, stageVars
  <2>3. QED BY <1>6, <1>f, <1>c, <1>r, <2>2
            DEF deployment_watcher_ready, CallSucceeds
<1>7. ASSUME NEW s \in Services, request_service_identity(s) PROVE TypeOK'
  <2>1. ManagerTypeOK'
    BY <1>7, <1>r, RequestTypes
       DEF request_service_identity, ManagerTypeOK, BatchTypeOK, startupVars,
           readyVars, stageVars
  <2>2. QED BY <1>7, <1>f, <1>c, <1>r, <2>1, RequestTypes
            DEF request_service_identity
<1>8. ASSUME NEW s \in Services, deleted_service_candidate(s) PROVE TypeOK'
  <2>1. todo' \in Seq(ManagerSend)
    <3>1. CASE Registered(s)
      <4> DEFINE x == ToManager([type |-> "DeleteServiceIdentity",
                                 s |-> s, u |-> services[s]])
      <4>1. services[s] \in Users
        BY <3>1 DEF Registered, ManagerTypeOK, MaybeUser
      <4>2. x \in ManagerSend
        BY <4>1, PendingSends
      <4>3. todo' = <<x>>
        BY <1>8, <3>1 DEF deleted_service_candidate, DeletionOf
      <4> HIDE DEF x
      <4>4. QED BY <4>2, <4>3
    <3>2. CASE ~Registered(s)
      BY <1>8, <3>2 DEF deleted_service_candidate, DeletionOf
    <3>3. QED BY <3>1, <3>2
  <2>2. ManagerTypeOK'
    BY <1>8, <1>r, <2>1 DEF deleted_service_candidate, ManagerTypeOK,
                            BatchTypeOK, startupVars, readyVars, stageVars
  <2>3. QED BY <1>8, <1>f, <1>c, <1>r, <2>2
            DEF deleted_service_candidate, CallSucceeds
<1>9. ASSUME NEW s \in Services, NEW u \in Users, delete_service_identity(s, u)
      PROVE  TypeOK'
  <2>1. ManagerTypeOK'
    BY <1>9, <1>r, DeleteTypes
       DEF delete_service_identity, ManagerTypeOK, BatchTypeOK, startupVars,
           readyVars, stageVars
  <2>2. QED BY <1>9, <1>f, <1>c, <1>r, <2>1, DeleteTypes
            DEF delete_service_identity
<1>10. ASSUME NEW s \in Services, NEW u \in Users, activated_service_user(s, u)
       PROVE  TypeOK'
  <2>1. /\ services' \in [Services -> MaybeUser]
        /\ crd' \in [Services -> MaybeUser]
        /\ CallSucceeds \/ CallFails
    BY <1>10 DEF activated_service_user, UpdateIdentity, ManagerTypeOK,
                 MaybeUser
  <2>2. ManagerTypeOK'
    BY <1>10, <1>r, <2>1 DEF activated_service_user, ManagerTypeOK,
                             BatchTypeOK, startupVars, readyVars, stageVars
  <2>3. QED BY <1>10, <1>f, <1>c, <1>r, <2>1, <2>2 DEF activated_service_user
<1>11. ASSUME NEW s \in Services, release_device_id(s) PROVE TypeOK'
  <2>1. services[s] \in MaybeUser
    BY DEF ManagerTypeOK
  <2>2. crd' \in [Services -> MaybeUser] /\ (CallSucceeds \/ CallFails)
    BY <1>11, <2>1 DEF release_device_id
  <2>3. todo' \in Seq(ManagerSend)
    <3> DEFINE x == ToCreator([type |-> "ReleaseDeviceId", u |-> services[s]])
    <3>1. CASE Registered(s)
      <4>1. services[s] \in Users
        BY <2>1, <3>1 DEF Registered, MaybeUser
      <4>2. x \in ManagerSend
        BY <4>1, CreatorMessages, PendingSends
      <4>3. todo' = <<x>> \/ UNCHANGED todo
        BY <1>11 DEF release_device_id
      <4> HIDE DEF x
      <4>4. <<x>> \in Seq(ManagerSend)
        BY <4>2
      <4>5. QED BY <4>3, <4>4
    <3>2. CASE ~Registered(s)
      BY <1>11, <3>2 DEF release_device_id
    <3>3. QED BY <3>1, <3>2
  <2>4. ManagerTypeOK'
    BY <1>11, <1>r, <2>3 DEF release_device_id, ManagerTypeOK, BatchTypeOK,
                             startupVars, readyVars, stageVars
  <2>5. QED BY <1>11, <1>f, <1>c, <1>r, <2>2, <2>4 DEF release_device_id
<1>12. CASE ReconcileStart
  <2>1. ManagerTypeOK'
    BY <1>12, <1>r DEF ReconcileStart, ManagerTypeOK, BatchTypeOK,
                       ReconcileStages, extra_service_identities, Registered,
                       MaybeUser, startupVars, readyVars
  <2>2. QED BY <1>12, <1>f, <1>c, <1>r, <2>1 DEF ReconcileStart, CallSucceeds
<1>13. ASSUME NEW s \in Services, ReconcileDelete(s) PROVE TypeOK'
  <2>1. services[s] \in Users
    BY <1>13 DEF ReconcileDelete, InStage, ManagerTypeOK, BatchTypeOK
  <2>2. ManagerTypeOK'
    BY <1>13, <2>1, DeleteTypes
       DEF ReconcileDelete, InStage, ManagerTypeOK, BatchTypeOK, startupVars,
           readyVars
  <2>3. QED BY <1>13, <1>f, <1>c, <1>q, <2>1, <2>2, DeleteTypes
            DEF ReconcileDelete
<1>14. CASE ReconcileExtraDone
  <2>1. ManagerTypeOK'
    BY <1>14 DEF ReconcileExtraDone, InStage, ManagerTypeOK, BatchTypeOK,
                 ReconcileStages, orphan_service_users, startupVars, readyVars
  <2>2. QED BY <1>14, <1>f, <1>c, <1>q, <2>1
            DEF ReconcileExtraDone, CallSucceeds
<1>15. ASSUME NEW u \in Users, ReconcileUser(u) PROVE TypeOK'
  <2>1. ManagerTypeOK'
    BY <1>15 DEF ReconcileUser, InStage, ManagerTypeOK, BatchTypeOK,
                 startupVars, readyVars
  <2>2. ChannelsTypeOK'
    BY <1>15, CreatorMessages, CreatorSendTyped DEF ReconcileUser
  <2>3. QED BY <1>15, <1>f, <1>c, <2>1, <2>2 DEF ReconcileUser, CallSucceeds
<1>16. CASE ReconcileUsersDone
  <2>1. ManagerTypeOK'
    BY <1>16 DEF ReconcileUsersDone, InStage, ManagerTypeOK, BatchTypeOK,
                 ReconcileStages, orphan_service_identities, Registered,
                 MaybeUser, startupVars, readyVars
  <2>2. QED BY <1>16, <1>f, <1>c, <1>q, <2>1
            DEF ReconcileUsersDone, CallSucceeds
<1>17. CASE ReconcileStaleDone
  <2>1. ManagerTypeOK'
    BY <1>17 DEF ReconcileStaleDone, InStage, ManagerTypeOK, BatchTypeOK,
                 ReconcileStages, startupVars, readyVars
  <2>2. ChannelsTypeOK'
    BY <1>17, CreatorMessages, CreatorSendTyped DEF ReconcileStaleDone
  <2>3. QED BY <1>17, <1>f, <1>c, <2>1, <2>2
            DEF ReconcileStaleDone, CallSucceeds
<1>18. ASSUME NEW s \in Services, ReconcileMissing(s) PROVE TypeOK'
  <2>1. ManagerTypeOK'
    BY <1>18, RequestTypes
       DEF ReconcileMissing, InStage, ManagerTypeOK, BatchTypeOK, startupVars,
           readyVars
  <2>2. QED BY <1>18, <1>f, <1>c, <1>q, <2>1, RequestTypes
            DEF ReconcileMissing
<1>19. CASE ReconcileDone
  <2>1. ManagerTypeOK'
    BY <1>19 DEF ReconcileDone, InStage, ManagerTypeOK, BatchTypeOK,
                 ReconcileStages, startupVars, readyVars
  <2>2. released' \in BOOLEAN
    BY <1>19 DEF ReconcileDone
  <2>3. QED BY <1>19, <1>f, <1>c, <1>q, <2>1, <2>2
            DEF ReconcileDone, CallSucceeds
<1>20. QED
  BY <1>1, <1>2, <1>3, <1>4, <1>5, <1>6, <1>7, <1>8, <1>9, <1>10, <1>11,
     <1>12, <1>13, <1>14, <1>15, <1>16, <1>17, <1>18, <1>19 DEF ManagerNext

\* Creating, deleting and failing to delete a user keep the types.
LEMMA UserTypes ==
    ASSUME StoresTypeOK
    PROVE  /\ HasFresh => NewUser \in Users
           /\ \A u \in Users : CreateUser(u) =>
                 /\ sdp' \in [Users -> {"fresh", "disabled", "enabled", "deleted"}]
                 /\ secret' \subseteq Users
           /\ CreateUserFails =>
                 /\ sdp' \in [Users -> {"fresh", "disabled", "enabled", "deleted"}]
                 /\ secret' \subseteq Users
                 /\ CallFails
           /\ \A u \in Users : RemoveFromController(u) =>
                 sdp' \in [Users -> {"fresh", "disabled", "enabled", "deleted"}]
           /\ \A u \in Users : UserDeleted(u) \/ DeletionFailed(u) =>
                 /\ sdp' \in [Users -> {"fresh", "disabled", "enabled", "deleted"}]
                 /\ secret' \subseteq Users
<1>1. HasFresh => NewUser \in Users
  BY DEF HasFresh, NewUser
<1>2. \A u \in Users : RemoveFromController(u) =>
          sdp' \in [Users -> {"fresh", "disabled", "enabled", "deleted"}]
  BY DEF RemoveFromController, StoresTypeOK
<1>3. QED
  BY <1>1, <1>2
     DEF StoresTypeOK, CreateUser, CreateUserFails, NoUserCreated,
         PasswordNotSaved, UserDeleted, DeletionFailed

\* A step of the Identity Creator keeps the types.
LEMMA CreatorTypes ==
    ASSUME TypeOK, CreatorNext
    PROVE  TypeOK'
<1> USE DEF TypeOK
<1> DEFINE Lives == [Users -> {"fresh", "disabled", "enabled", "deleted"}]
<1>f. ASSUME CreatorFrame, sdp' \in Lives, secret' \subseteq Users,
             svcSecret' \in [Services -> MaybeUser]
      PROVE  /\ StoresTypeOK' /\ WatchersTypeOK' /\ ManagerTypeOK'
             /\ UNCHANGED envVars
  BY <1>f DEF CreatorFrame, StoresTypeOK, WatchersTypeOK, ManagerTypeOK,
              BatchTypeOK, clusterVars, watcherVars, managerVars, startupVars,
              readyVars, stageVars, envVars
<1>c. ASSUME CallSucceeds \/ CallFails, UNCHANGED envVars PROVE BoundsTypeOK'
  BY <1>c, CallTyped
<1>q. ASSUME UNCHANGED <<imq, icq>> PROVE ChannelsTypeOK'
  BY <1>q DEF ChannelsTypeOK
<1>r. ASSUME NEW m, CreatorReceive(m), UNCHANGED imq PROVE ChannelsTypeOK'
  BY <1>r, ReceiveTyped DEF CreatorReceive
<1>s. /\ sdp \in Lives /\ secret \subseteq Users
      /\ svcSecret \in [Services -> MaybeUser]
  BY DEF StoresTypeOK
<1>t. ASSUME UNCHANGED creatorVars PROVE CreatorTypeOK'
  BY <1>t DEF CreatorTypeOK, creatorVars, scanVars
<1>k. ASSUME UNCHANGED <<icphase, scanVars>>, ictodo' \in Seq(CreatorStep)
      PROVE  CreatorTypeOK'
  BY <1>k DEF CreatorTypeOK, scanVars
<1>n. ASSUME NEW u \in Users PROVE NotifyFree(u) \in Seq(CreatorStep)
  <2> DEFINE x == [op |-> "notify", m |-> FoundServiceUser(u, FALSE)]
  <2>1. x \in CreatorStep
    BY PendingSteps
  <2>2. NotifyFree(u) = <<x>>
    BY DEF NotifyFree
  <2> HIDE DEF x
  <2>3. QED BY <2>1, <2>2
<1>e. ictodo \in Seq(CreatorStep)
  BY DEF CreatorTypeOK
<1>u. /\ HasFresh => NewUser \in Users
      /\ \A u \in Users :
            CreateUser(u) => sdp' \in Lives /\ secret' \subseteq Users
      /\ CreateUserFails =>
            sdp' \in Lives /\ secret' \subseteq Users /\ CallFails
      /\ \A u \in Users : RemoveFromController(u) => sdp' \in Lives
      /\ \A u \in Users : UserDeleted(u) \/ DeletionFailed(u) =>
            sdp' \in Lives /\ secret' \subseteq Users
  BY UserTypes
<1> HIDE DEF Lives
<1> USE <1>s, <1>e
<1>1. CASE CreatorStart
  <2>1. CreatorTypeOK'
    BY <1>1, ConstantsAssumption DEF CreatorStart, CreatorTypeOK, scanVars
  <2>2. ChannelsTypeOK'
    BY <1>1, ReceiveTyped DEF CreatorStart
  <2>3. QED BY <1>1, <1>f, <1>c, <2>1, <2>2 DEF CreatorStart, CallSucceeds
<1>2. ASSUME NEW u \in Users, CreatorScan(u) PROVE TypeOK'
  <2>1. CreatorTypeOK'
    BY <1>2, ConstantsAssumption DEF CreatorScan, CreatorTypeOK
  <2>2. FoundServiceUser(u, sdp[u] = "enabled") \in ManagerMsg
    <3>1. (sdp[u] = "enabled") \in BOOLEAN
      OBVIOUS
    <3>2. QED BY <3>1, ManagerMessages, Zenon
  <2>3. ChannelsTypeOK'
    BY <1>2, <1>q, <2>2, ManagerSendTyped DEF CreatorScan
  <2>4. sdp' \in Lives /\ (CallSucceeds \/ CallFails)
    BY <1>2, <1>u DEF CreatorScan
  <2>5. QED BY <1>2, <1>f, <1>c, <2>1, <2>3, <2>4 DEF CreatorScan
<1>3. CASE CreatorClean
  <2>1. CreatorTypeOK'
    BY <1>3 DEF CreatorClean, CreatorTypeOK, scanVars
  <2>2. QED BY <1>3, <1>f, <1>c, <1>q, <2>1 DEF CreatorClean, CallSucceeds
<1>4. CASE CreatorFill
  <2>1. NewUser \in Users /\ CreateUser(NewUser) /\ ictodo' = NotifyFree(NewUser)
    BY <1>4, <1>u DEF CreatorFill
  <2>2. ictodo' \in Seq(CreatorStep)
    BY <1>n, <2>1
  <2>3. CreatorTypeOK'
    BY <1>4, <2>2, ConstantsAssumption DEF CreatorFill, CreatorTypeOK
  <2>4. QED BY <1>4, <1>f, <1>c, <1>q, <1>u, <2>1, <2>3
            DEF CreatorFill, CallSucceeds
<1>5. CASE CreatorReady
  <2>1. CreatorTypeOK'
    BY <1>5 DEF CreatorReady, CreatorTypeOK, scanVars
  <2>2. ChannelsTypeOK'
    BY <1>5, ManagerMessages, ManagerSendTyped DEF CreatorReady
  <2>3. QED BY <1>5, <1>f, <1>c, <2>1, <2>2 DEF CreatorReady, CallSucceeds
<1>6. CASE CreatorNotify
  <2>1. Head(ictodo) \in CreatorStep /\ Tail(ictodo) \in Seq(CreatorStep)
    BY <1>6 DEF CreatorNotify
  <2>2. ChannelsTypeOK'
    BY <1>6, <2>1, PendingSteps, ManagerSendTyped DEF CreatorNotify
  <2>3. QED BY <1>6, <1>f, <1>c, <1>k, <2>1, <2>2
            DEF CreatorNotify, CallSucceeds
<1>7. CASE CreatorSecrets
  <2>1. Head(ictodo) \in CreatorStep /\ Tail(ictodo) \in Seq(CreatorStep)
    BY <1>7 DEF CreatorSecrets
  <2>2. svcSecret' \in [Services -> MaybeUser] /\ (CallSucceeds \/ CallFails)
    BY <1>7, <2>1, PendingSteps DEF CreatorSecrets, MaybeUser
  <2>3. QED BY <1>7, <1>f, <1>c, <1>k, <1>q, <2>1, <2>2 DEF CreatorSecrets
<1>8. CASE CreateIdentity
  <2>1. /\ sdp' \in Lives /\ secret' \subseteq Users
        /\ ictodo' \in Seq(CreatorStep)
        /\ CallSucceeds \/ CallFails
    BY <1>8, <1>n, <1>u DEF CreateIdentity
  <2>2. QED BY <1>8, <1>f, <1>c, <1>k, <1>r, <2>1 DEF CreateIdentity
<1>9. ASSUME NEW s \in Services, NEW u \in Users, DeleteServiceUser(s, u)
      PROVE  TypeOK'
  <2>1. /\ sdp' \in Lives /\ secret' \subseteq Users
        /\ svcSecret' \in [Services -> MaybeUser]
        /\ CallSucceeds \/ CallFails
    BY <1>9, <1>u DEF DeleteServiceUser, SecretsDeleted, MaybeUser
  <2>2. QED BY <1>9, <1>f, <1>c, <1>r, <1>t, <2>1 DEF DeleteServiceUser
<1>10. ASSUME NEW s \in Services, NEW u \in Users, ActivateServiceUser(s, u)
       PROVE  TypeOK'
  <2>1. sdp' \in Lives /\ (CallSucceeds \/ CallFails)
    BY <1>10 DEF ActivateServiceUser, Lives
  <2>2. ictodo' \in Seq(CreatorStep)
    <3> DEFINE x == [op |-> "notify", m |-> [type |-> "ActivatedServiceUser",
                                             s |-> s, u |-> u]]
               y == [op |-> "secrets", s |-> s, u |-> u]
    <3>1. x \in CreatorStep /\ y \in CreatorStep
      BY PendingSteps
    <3>2. ictodo' = <<x, y>>
      BY <1>10 DEF ActivateServiceUser, ActivationSteps
    <3> HIDE DEF x, y
    <3>3. QED BY <3>1, <3>2
  <2>3. QED BY <1>10, <1>f, <1>c, <1>k, <1>r, <2>1, <2>2
            DEF ActivateServiceUser
<1>11. ASSUME NEW u \in Users, DeleteSDPUser(u) PROVE TypeOK'
  <2>1. /\ sdp' \in Lives /\ secret' \subseteq Users
        /\ CallSucceeds \/ CallFails
    BY <1>11, <1>u DEF DeleteSDPUser, DeleteUser
  <2>2. QED BY <1>11, <1>f, <1>c, <1>r, <1>t, <2>1 DEF DeleteSDPUser
<1>12. CASE CreatorDevices
  <2>1. ChannelsTypeOK'
    BY <1>12, <1>r DEF CreatorDevices
  <2>2. QED BY <1>12, <1>f, <1>c, <1>t, <2>1 DEF CreatorDevices, CallSucceeds
<1>13. QED
  BY <1>1, <1>2, <1>3, <1>4, <1>5, <1>6, <1>7, <1>8, <1>9, <1>10, <1>11, <1>12
     DEF CreatorNext

\* A restarted process has its types.
LEMMA RestartTypes ==
    ASSUME Restart
    PROVE  WatchersTypeOK' /\ ChannelsTypeOK' /\ ManagerTypeOK' /\ CreatorTypeOK'
<1> USE ConstantsAssumption DEF Restart
<1>b. released' \in BOOLEAN /\ creatorReady' \in BOOLEAN
  OBVIOUS
<1>e. <<>> \in Seq(WatchEvent) /\ todo' \in Seq(ManagerSend)
  OBVIOUS
<1>1. WatchersTypeOK'
  BY <1>b, <1>e DEF WatchersTypeOK
<1>2. ChannelsTypeOK'
  BY DEF ChannelsTypeOK
<1>3. ManagerTypeOK'
  BY <1>b, <1>e DEF ManagerTypeOK, BatchTypeOK, ReconcileStages, MaybeUser
<1>4. CreatorTypeOK'
  BY DEF CreatorTypeOK
<1>5. QED BY <1>1, <1>2, <1>3, <1>4

\* A step of the environment keeps the types.
LEMMA EnvironmentTypes ==
    ASSUME TypeOK, EnvironmentNext
    PROVE  TypeOK'
<1> USE DEF TypeOK
<1>m. ASSUME UNCHANGED managerVars PROVE ManagerTypeOK'
  BY <1>m DEF ManagerTypeOK, BatchTypeOK, managerVars, startupVars, readyVars,
              stageVars
<1>k. ASSUME UNCHANGED creatorVars PROVE CreatorTypeOK'
  BY <1>k DEF CreatorTypeOK, creatorVars, scanVars
<1>q. ASSUME UNCHANGED <<imq, icq>> PROVE ChannelsTypeOK'
  BY <1>q DEF ChannelsTypeOK
<1>e. ASSUME NEW w \in Watchers, NEW s \in Services, NEW op \in {"Apply", "Delete"},
             Emit(w, op, s), UNCHANGED <<watcherVars, released>>
      PROVE  WatchersTypeOK'
  <2> DEFINE x == [op |-> op, s |-> s]
  <2>1. x \in WatchEvent
    BY DEF WatchEvent
  <2>2. events' = IF wphase[w] = "run"
                  THEN [events EXCEPT ![w] = Append(@, x)] ELSE events
    BY <1>e DEF Emit
  <2> HIDE DEF x
  <2>3. events' \in [Watchers -> Seq(WatchEvent)]
    BY <2>1, <2>2 DEF WatchersTypeOK
  <2>4. QED BY <1>e, <2>3 DEF WatchersTypeOK, watcherVars
<1>1. ASSUME NEW o \in Objects, ApplyObject(o[1], o[2]) PROVE TypeOK'
  <2>1. o[1] \in Watchers /\ o[2] \in Services /\ <<o[1], o[2]>> \in Objects
    BY ConstantsAssumption
  <2>2. StoresTypeOK' /\ BoundsTypeOK'
    BY <1>1, <2>1, ConstantsAssumption
       DEF ApplyObject, StoresTypeOK, BoundsTypeOK, apiVars
  <2>3. QED BY <1>1, <1>e, <1>k, <1>m, <1>q, <2>1, <2>2 DEF ApplyObject
<1>2. ASSUME NEW o \in Objects, DeleteObject(o[1], o[2]) PROVE TypeOK'
  <2>1. o[1] \in Watchers /\ o[2] \in Services
    BY ConstantsAssumption
  <2>2. StoresTypeOK' /\ BoundsTypeOK'
    BY <1>2, ConstantsAssumption
       DEF DeleteObject, StoresTypeOK, BoundsTypeOK, apiVars
  <2>3. QED BY <1>2, <1>e, <1>k, <1>m, <1>q, <2>1, <2>2 DEF DeleteObject
<1>3. ASSUME NEW s \in Services, PodWatcherRelease(s) PROVE TypeOK'
  <2>1. StoresTypeOK' /\ BoundsTypeOK'
    BY <1>3, ConstantsAssumption
       DEF PodWatcherRelease, StoresTypeOK, BoundsTypeOK, apiVars, clusterVars
  <2>2. ChannelsTypeOK'
    BY <1>3, ManagerMessages, ManagerSendTyped DEF PodWatcherRelease
  <2>3. WatchersTypeOK'
    BY <1>3 DEF PodWatcherRelease, WatchersTypeOK, clusterVars, watcherVars
  <2>4. QED BY <1>3, <1>k, <1>m, <2>1, <2>2, <2>3 DEF PodWatcherRelease
<1>4. ASSUME NEW s \in Services, FlipLabel(s) PROVE TypeOK'
  <2>1. StoresTypeOK' /\ BoundsTypeOK'
    BY <1>4, ConstantsAssumption
       DEF FlipLabel, StoresTypeOK, BoundsTypeOK, apiVars
  <2>2. WatchersTypeOK'
    BY <1>4 DEF FlipLabel, WatchersTypeOK, watcherVars
  <2>3. QED BY <1>4, <1>k, <1>m, <1>q, <2>1, <2>2 DEF FlipLabel
<1>5. CASE Crash
  <2>1. StoresTypeOK' /\ BoundsTypeOK'
    BY <1>5, ConstantsAssumption DEF Crash, StoresTypeOK, BoundsTypeOK, apiVars
  <2>2. QED BY <1>5, <2>1, RestartTypes DEF Crash
<1>6. CASE CreatorFillPanics
  <2>1. StoresTypeOK'
    BY <1>6, UserTypes DEF CreatorFillPanics, StoresTypeOK
  <2>2. BoundsTypeOK'
    BY <1>6, UserTypes, ConstantsAssumption
       DEF CreatorFillPanics, CallFails, BoundsTypeOK
  <2>3. QED BY <1>6, <2>1, <2>2, RestartTypes DEF CreatorFillPanics
<1>7. QED BY <1>1, <1>2, <1>3, <1>4, <1>5, <1>6 DEF EnvironmentNext

\* Every step keeps the types.
LEMMA TypeStep == TypeOK /\ [Next]_vars => TypeOK'
<1> SUFFICES ASSUME TypeOK, [Next]_vars PROVE TypeOK'
  OBVIOUS
<1>1. CASE Next
  BY <1>1, WatcherTypes, ManagerTypes, CreatorTypes, EnvironmentTypes DEF Next
<1>2. CASE UNCHANGED vars
  BY <1>2
     DEF TypeOK, StoresTypeOK, WatchersTypeOK, ChannelsTypeOK, ManagerTypeOK,
         BatchTypeOK, CreatorTypeOK, BoundsTypeOK, vars, apiVars, clusterVars,
         watcherVars, managerVars, startupVars, readyVars, stageVars,
         creatorVars, scanVars, envVars
<1>3. QED BY <1>1, <1>2

\* Type correctness of the Identity Service: among others, a batch of deletions
\* only holds registered identities, and the channels keep to their capacity.
THEOREM Typing == Spec => []TypeOK
<1>1. TypeOK /\ [Next]_vars => TypeOK'
  BY TypeStep
<1>2. QED BY <1>1, TypeInit, PTL DEF Spec
=============================================================================
