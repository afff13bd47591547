--------------------------- MODULE UserPoolProofs ---------------------------
(***************************************************************************)
(* UserInv is an inductive invariant of the Identity Service: the pool of  *)
(* the Identity Manager holds free users only, and no two ServiceIdentity  *)
(* objects ever share a user, for any number of services and users and     *)
(* whatever the channels hold.                                             *)
(***************************************************************************)
EXTENDS ReconcileProofs

-----------------------------------------------------------------------------
(***************************************************************************)
(* The messages about users, told apart by type and contents.              *)
(***************************************************************************)
Notify(m) == [op |-> "notify", m |-> m]

\* A report is one of the two messages of its user, and of no other.
LEMMA ReportKinds ==
    /\ \A u : /\ Report(u).type = "FoundServiceUser" /\ Report(u).u = u
              /\ ActiveReport(u).type = "FoundServiceUser"
              /\ ActiveReport(u).u = u
    /\ \A u, v : Report(u) = Report(v) => u = v
    /\ \A u, v : ActiveReport(u) # Report(v)
    /\ \A u, on : FoundServiceUser(u, on).type = "FoundServiceUser"
<1>1. \A u, on : /\ FoundServiceUser(u, on).type = "FoundServiceUser"
                 /\ FoundServiceUser(u, on).u = u
  BY DEF FoundServiceUser
<1>2. \A u : ActiveReport(u).activated = TRUE
  BY DEF FoundServiceUser, ActiveReport
<1>3. \A u : Report(u).activated = FALSE
  BY DEF FoundServiceUser, Report, ActiveReport
<1>4. \A u, v : ActiveReport(u) # Report(v)
  <2> SUFFICES ASSUME NEW u, NEW v, ActiveReport(u) = Report(v)
               PROVE  FALSE
    OBVIOUS
  <2>1. ActiveReport(u).activated = Report(v).activated
    BY Zenon
  <2>2. QED BY <1>2, <1>3, <2>1, Zenon
<1>5. \A u : /\ Report(u).type = "FoundServiceUser" /\ Report(u).u = u
            /\ ActiveReport(u).type = "FoundServiceUser"
            /\ ActiveReport(u).u = u
  BY DEF FoundServiceUser, Report, ActiveReport
<1>6. \A u, v : Report(u) = Report(v) => u = v
  BY <1>5
<1>7. QED BY <1>1, <1>4, <1>5, <1>6, Zenon

\* The messages of an activation and of a deletion.
LEMMA TokenKinds ==
    /\ \A s, u : /\ Activate(s, u).type = "ActivateServiceUser"
                 /\ Activate(s, u).s = s /\ Activate(s, u).u = u
                 /\ Activation(s, u).type = "ActivatedServiceUser"
                 /\ Activation(s, u).s = s /\ Activation(s, u).u = u
                 /\ Deletion(s, u).type = "DeleteServiceUser"
                 /\ Deletion(s, u).s = s /\ Deletion(s, u).u = u
                 /\ Removal(s, u).type = "DeleteServiceIdentity"
                 /\ Removal(s, u).s = s /\ Removal(s, u).u = u
    /\ \A u : DeleteOnly(u).type = "DeleteSDPUser" /\ DeleteOnly(u).u = u
BY DEF Activate, Activation, Deletion, Removal, DeleteOnly

\* Pending sends and steps are told apart by what they carry.
LEMMA WrapKinds ==
    /\ \A m, n : ToCreator(m) # ToManager(n)
    /\ \A m, n : ToCreator(m) = ToCreator(n) => m = n
    /\ \A m, n : ToManager(m) = ToManager(n) => m = n
    /\ \A m, n : Notify(m) = Notify(n) => m = n
    /\ \A m : Notify(m).op = "notify" /\ Notify(m).m = m
    /\ \A m : ToCreator(m).to = "creator" /\ ToCreator(m).m = m
    /\ \A m : ToManager(m).to = "manager" /\ ToManager(m).m = m
<1>1. /\ \A m : Notify(m).op = "notify" /\ Notify(m).m = m
      /\ \A m : ToCreator(m).to = "creator" /\ ToCreator(m).m = m
      /\ \A m : ToManager(m).to = "manager" /\ ToManager(m).m = m
  BY DEF Notify, ToCreator, ToManager
<1>2. \A m, n : ToCreator(m) # ToManager(n)
  <2>1. "creator" # "manager" OBVIOUS
  <2>2. QED BY <1>1, <2>1
<1>3. QED BY <1>1, <1>2

-----------------------------------------------------------------------------
(***************************************************************************)
(* Steps that neither offer a user nor take one.                           *)
(***************************************************************************)
NoNewHeld == \A s \in Services, u \in Users : Held(s, u)' => Held(s, u)
NoNewDoomed ==
    \A u \in Users : Doomed(u)' => Doomed(u) \/ \E s \in Services : Held(s, u)

\* What the channel of the manager says about offered and active users.
SameReports ==
    \A u \in Users :
        /\ Announced(u)' <=> Announced(u)
        /\ Once(imq, Report(u)) => Once(imq', Report(u))
        /\ InQueue(imq', ActiveReport(u))
               => InQueue(imq, ActiveReport(u))
        /\ Ahead(imq, {Report(u)}, IdentityCreatorReady)
               => Ahead(imq', {Report(u)}, IdentityCreatorReady)

\* A message that is no report enters or leaves the channel.
LEMMA ReportsKept ==
    ASSUME imq \in Seq(ManagerMsg),
           \/ imq' = imq
           \/ imq # <<>> /\ imq' = Tail(imq) /\ Head(imq).type # "FoundServiceUser"
           \/ \E m \in ManagerMsg :
                 imq' = Append(imq, m) /\ m.type # "FoundServiceUser"
    PROVE  SameReports
<1> USE ReportKinds
<1>1. CASE imq' = imq
  BY <1>1 DEF SameReports, Announced
<1>2. CASE imq # <<>> /\ imq' = Tail(imq) /\ Head(imq).type # "FoundServiceUser"
  <2>1. \A u : Head(imq) # Report(u) /\ Head(imq) \notin {Report(u)}
    BY <1>2
  <2>2. QED BY <1>2, <2>1, ManagerTail DEF SameReports, Announced
<1>3. ASSUME NEW m \in ManagerMsg, imq' = Append(imq, m),
             m.type # "FoundServiceUser"
      PROVE  SameReports
  <2>1. \A u : m # Report(u) /\ m # ActiveReport(u)
    BY <1>3
  <2>2. QED BY <1>3, <2>1, ManagerAppend DEF SameReports, Announced
<1>4. QED BY <1>1, <1>2, <1>3

\* The other messages about users that FirstProcess excludes.
NoNewActive ==
    \A u \in Users :
        /\ InQueue(ictodo', Notify(ActiveReport(u)))
               => InQueue(ictodo, Notify(ActiveReport(u)))
        /\ InQueue(icq', DeleteOnly(u)) => InQueue(icq, DeleteOnly(u))
               \/ InQueue(todo, ToCreator(DeleteOnly(u)))
        /\ InQueue(todo', ToCreator(DeleteOnly(u)))
               => InQueue(todo, ToCreator(DeleteOnly(u)))

\* A step that offers nothing and takes nothing keeps the invariant, if it
\* keeps the stages of the reconciliation in order.
LEMMA UsersKept ==
    ASSUME UserInv, SameReports, NoNewHeld, NoNewDoomed, crashes = 0 => NoNewActive,
           Unrequested', pool' = pool,
           \A u \in Users : Notifying(u)' <=> Notifying(u),
           (\E u \in Users : Notifying(u)) \/ icphase \in {"wait", "scan"}
               => ictodo' = ictodo,
           UNCHANGED <<sdp, secret, scan, known, icphase, crashes>>,
           crashes = 0 => activated' = activated,
           deactivated \subseteq deactivated',
           failures' = 0 => failures = 0,
           ~released' /\ stage' = "none" => ~released /\ stage = "none",
           crashes = 0 /\ stage' = "users" => batch' = {},
           failures' = 0 => \A s \in Services, u \in Users :
               Offered(u) /\ Held(s, u)' => ~released' /\ ToReconcile(s)'
    PROVE  UserInv'
<1>1. \A u \in Users : /\ Pooled(u)' <=> Pooled(u)
                       /\ Announced(u)' <=> Announced(u)
                       /\ Offered(u)' <=> Offered(u)
  BY DEF Pooled, Offered, SameReports
<1>2. SingleOffer'
  BY <1>1 DEF UserInv, SingleOffer, SameReports, NotifyFree
<1>3. ScanOrder'
  BY <1>1 DEF UserInv, ScanOrder, Exists
<1>4. FreshUnknown'
  BY <1>1 DEF UserInv, FreshUnknown, NoNewHeld, NoNewDoomed
<1>5. PoolRecorded'
  BY <1>1 DEF UserInv, PoolRecorded
<1>6. ASSUME crashes = 0 PROVE FirstProcess'
  <2> USE <1>6 DEF UserInv
  <2>1. \A u \in Users : Offered(u)' =>
            /\ sdp'[u] = "disabled" /\ u \in secret'
            /\ ~Doomed(u)' /\ \A s \in Services : ~Held(s, u)'
    BY <1>1 DEF FirstProcess, NoNewHeld, NoNewDoomed
  <2>2. ~released' /\ stage' = "none" =>
            \A u \in Users : /\ sdp'[u] # "enabled" /\ ~Doomed(u)'
                             /\ \A s \in Services : ~Held(s, u)'
    BY DEF FirstProcess, NoNewHeld, NoNewDoomed
  <2>3. \A u \in Users :
          /\ ~InQueue(imq', ActiveReport(u))
          /\ ~InQueue(ictodo', Notify(ActiveReport(u)))
          /\ ~InQueue(icq', DeleteOnly(u))
          /\ ~InQueue(todo', ToCreator(DeleteOnly(u)))
    BY DEF FirstProcess, SameReports, NoNewActive, Notify
  <2>4. activated' = {} /\ (stage' = "users" => batch' = {})
    BY DEF FirstProcess
  <2>5. QED BY <2>1, <2>2, <2>3, <2>4 DEF FirstProcess, Notify
<1>7. ASSUME failures' = 0 PROVE OffersReconciled'
  <2>1. OffersReconciled BY <1>7 DEF UserInv
  <2>2. QED BY <1>1, <1>7, <2>1 DEF OffersReconciled, NoNewHeld, SameReports
<1>8. crashes' = 0 \/ failures' = 0 => SingleHolder'
  BY DEF UserInv, SingleHolder, NoNewHeld
<1>9. QED BY <1>2, <1>3, <1>4, <1>5, <1>6, <1>7, <1>8 DEF UserInv

-----------------------------------------------------------------------------
(***************************************************************************)
(* Where the messages about users come from.                               *)
(***************************************************************************)
ImqFlow ==
    \A s \in Services, u \in Users :
        /\ InQueue(imq', Activation(s, u)) => Activating(s, u)
        /\ InQueue(imq', Removal(s, u)) => Doomed(u)
IcqFlow ==
    \A s \in Services, u \in Users :
        /\ InQueue(icq', Activate(s, u)) => Activating(s, u)
        /\ InQueue(icq', Deletion(s, u)) => Doomed(u)
StepFlow ==
    \A s \in Services, u \in Users :
        InQueue(ictodo', Notify(Activation(s, u))) => Activating(s, u)
SendFlow ==
    \A s \in Services, u \in Users :
        /\ InQueue(todo', ToCreator(Activate(s, u))) => Activating(s, u)
        /\ (InQueue(todo', ToCreator(Deletion(s, u)))
                \/ InQueue(todo', ToManager(Removal(s, u))))
               => Doomed(u) \/ \E t \in Services : Held(t, u)
StoreFlow ==
    \A s \in Services, u \in Users :
        services'[s] = u \/ crd'[s] = u => Held(s, u)

\* All of them together: nobody gets a user or loses one for no reason.
LEMMA FlowKeeps ==
    ASSUME ImqFlow, IcqFlow, StepFlow, SendFlow, StoreFlow
    PROVE  /\ NoNewHeld /\ NoNewDoomed
           /\ \A s \in Services, u \in Users : Activating(s, u)' => Activating(s, u)
<1>1. ASSUME NEW s \in Services, NEW u \in Users, Activating(s, u)'
      PROVE  Activating(s, u)
  BY <1>1 DEF Activating, ImqFlow, IcqFlow, StepFlow, SendFlow, Notify
<1>2. NoNewHeld
  BY <1>1 DEF NoNewHeld, Held, StoreFlow
<1>3. NoNewDoomed
  <2> SUFFICES ASSUME NEW u \in Users, Doomed(u)'
               PROVE  Doomed(u) \/ \E s \in Services : Held(s, u)
    BY DEF NoNewDoomed
  <2>1. PICK s \in Services :
            \/ InQueue(todo', ToCreator(Deletion(s, u)))
            \/ InQueue(icq', Deletion(s, u))
            \/ InQueue(todo', ToManager(Removal(s, u)))
            \/ InQueue(imq', Removal(s, u))
    BY DEF Doomed
  <2>2. QED BY <2>1 DEF ImqFlow, IcqFlow, SendFlow
<1>4. QED BY <1>1, <1>2, <1>3

\* The manager's channel, when a message leaves or one of another kind enters.
LEMMA ImqFlows ==
    ASSUME imq \in Seq(ManagerMsg),
           \/ imq' = imq
           \/ imq # <<>> /\ imq' = Tail(imq)
           \/ \E m \in ManagerMsg :
                 /\ imq' = Append(imq, m)
                 /\ m.type \notin {"ActivatedServiceUser", "DeleteServiceIdentity"}
    PROVE  ImqFlow
<1>1. \A s, u : /\ InQueue(imq', Activation(s, u)) => InQueue(imq, Activation(s, u))
                /\ InQueue(imq', Removal(s, u)) => InQueue(imq, Removal(s, u))
  <2>1. CASE imq' = imq BY <2>1
  <2>2. CASE imq # <<>> /\ imq' = Tail(imq) BY <2>2, ManagerTail
  <2>3. ASSUME NEW m \in ManagerMsg, imq' = Append(imq, m),
               m.type \notin {"ActivatedServiceUser", "DeleteServiceIdentity"}
        PROVE  \A s, u :
                  /\ InQueue(imq', Activation(s, u)) => InQueue(imq, Activation(s, u))
                  /\ InQueue(imq', Removal(s, u)) => InQueue(imq, Removal(s, u))
    <3>1. \A s, u : m # Activation(s, u) /\ m # Removal(s, u)
      BY <2>3, TokenKinds
    <3>2. QED BY <2>3, <3>1, ManagerAppend
  <2>4. QED BY <2>1, <2>2, <2>3
<1>2. QED BY <1>1 DEF ImqFlow, Activating, Doomed

\* Membership in the creator's channel when a message enters.
LEMMA CreatorAppend ==
    ASSUME icq \in Seq(CreatorMsg), NEW e \in CreatorMsg, icq' = Append(icq, e)
    PROVE  \A m : InQueue(icq', m) <=> InQueue(icq, m) \/ e = m
BY AppendFacts

\* Membership in the creator's channel when a message leaves.
LEMMA CreatorTail ==
    ASSUME icq \in Seq(CreatorMsg), icq # <<>>, icq' = Tail(icq)
    PROVE  \A m : InQueue(icq, m) <=> Head(icq) = m \/ InQueue(icq', m)
BY TailFacts

\* The creator's channel, likewise.
LEMMA IcqFlows ==
    ASSUME icq \in Seq(CreatorMsg),
           \/ icq' = icq
           \/ icq # <<>> /\ icq' = Tail(icq)
           \/ \E m \in CreatorMsg :
                 /\ icq' = Append(icq, m)
                 /\ m.type \in {"StartService", "CreateIdentity",
                                "ReconcileSDPUsers", "ReleaseDeviceId"}
    PROVE  /\ IcqFlow
           /\ \A u : InQueue(icq', DeleteOnly(u)) => InQueue(icq, DeleteOnly(u))
<1> DEFINE Less == \A s, u :
                      /\ InQueue(icq', Activate(s, u)) => InQueue(icq, Activate(s, u))
                      /\ InQueue(icq', Deletion(s, u)) => InQueue(icq, Deletion(s, u))
                      /\ InQueue(icq', DeleteOnly(u)) => InQueue(icq, DeleteOnly(u))
<1>1. CASE icq' = icq
  BY <1>1 DEF IcqFlow, Activating, Doomed
<1>2. CASE icq # <<>> /\ icq' = Tail(icq)
  <2>1. Less BY <1>2, CreatorTail
  <2>2. QED BY <2>1 DEF IcqFlow, Activating, Doomed
<1>3. ASSUME NEW m \in CreatorMsg, icq' = Append(icq, m),
             m.type \in {"StartService", "CreateIdentity", "ReconcileSDPUsers",
                         "ReleaseDeviceId"}
      PROVE  /\ IcqFlow
             /\ \A u : InQueue(icq', DeleteOnly(u)) => InQueue(icq, DeleteOnly(u))
  <2>1. ASSUME NEW s, NEW u
        PROVE  m # Activate(s, u) /\ m # Deletion(s, u) /\ m # DeleteOnly(u)
    BY <1>3, TokenKinds
  <2>2. \A n : InQueue(icq', n) <=> InQueue(icq, n) \/ m = n
    BY <1>3, CreatorAppend
  <2>3. Less BY <2>1, <2>2
  <2>4. QED BY <2>3 DEF IcqFlow, Activating, Doomed
<1>4. QED BY <1>1, <1>2, <1>3

\* The pending steps of the creator.
LEMMA StepFlows ==
    ASSUME ictodo \in Seq(CreatorStep),
           \/ ictodo' = ictodo
           \/ ictodo # <<>> /\ ictodo' = Tail(ictodo)
    PROVE  /\ StepFlow
           /\ \A m : InQueue(ictodo', m) => InQueue(ictodo, m)
<1>1. \A m : InQueue(ictodo', m) => InQueue(ictodo, m)
  BY TailFacts
<1>2. QED BY <1>1 DEF StepFlow, Activating, Notify

\* The pending sends of the manager.
LEMMA SendFlows ==
    ASSUME todo \in Seq(ManagerSend),
           \/ todo' = todo
           \/ todo # <<>> /\ todo' = Tail(todo)
           \/ todo' = <<>>
           \/ todo' = SelfReady
           \/ \E u : todo' = <<ToCreator([type |-> "ReleaseDeviceId", u |-> u])>>
    PROVE  /\ SendFlow
           /\ \A u : InQueue(todo', ToCreator(DeleteOnly(u)))
                         => InQueue(todo, ToCreator(DeleteOnly(u)))
<1> DEFINE Less == \A s, u :
              /\ \A x \in {ToCreator(Activate(s, u)), ToCreator(Deletion(s, u)),
                           ToManager(Removal(s, u)), ToCreator(DeleteOnly(u))} :
                    InQueue(todo', x) => InQueue(todo, x)
<1>1. Less
  <2>1. CASE todo' = todo BY <2>1
  <2>2. CASE todo # <<>> /\ todo' = Tail(todo) BY <2>2, TailFacts
  <2>3. CASE todo' = <<>> BY <2>3, ShortQueues
  <2>4. CASE todo' = SelfReady
    <3>1. \A s, u : Removal(s, u) # IdentityManagerReady
      BY TokenKinds, Kinds
    <3>2. \A s, u :
            \A x \in {ToCreator(Activate(s, u)), ToCreator(Deletion(s, u)),
                      ToManager(Removal(s, u)), ToCreator(DeleteOnly(u))} :
                ToManager(IdentityManagerReady) # x
      BY <3>1, WrapKinds
    <3>3. QED BY <2>4, <3>2, ShortQueues DEF SelfReady
  <2>5. ASSUME NEW v, todo' = <<ToCreator([type |-> "ReleaseDeviceId", u |-> v])>>
        PROVE  Less
    <3> DEFINE m == [type |-> "ReleaseDeviceId", u |-> v]
    <3>1. m.type = "ReleaseDeviceId" OBVIOUS
    <3> HIDE DEF m
    <3>2. \A s, u : m # Activate(s, u) /\ m # Deletion(s, u) /\ m # DeleteOnly(u)
      BY <3>1, TokenKinds
    <3>3. \A s, u :
            \A x \in {ToCreator(Activate(s, u)), ToCreator(Deletion(s, u)),
                      ToManager(Removal(s, u)), ToCreator(DeleteOnly(u))} :
                ToCreator(m) # x
      BY <3>2, WrapKinds
    <3>4. todo' = <<ToCreator(m)>> BY <2>5 DEF m
    <3>5. QED BY <3>3, <3>4, ShortQueues
  <2>6. QED BY <2>1, <2>2, <2>3, <2>4, <2>5
<1>2. QED BY <1>1 DEF SendFlow, Activating, Doomed

-----------------------------------------------------------------------------
(***************************************************************************)
(* The candidate watchers, the Pod watcher and the cluster.                *)
(***************************************************************************)
RequestMsg(s) == [type |-> "RequestServiceIdentity", s |-> s]

\* Nothing is requested early by a message that leaves or enters.
LEMMA UnrequestedKept ==
    ASSUME imq \in Seq(ManagerMsg), Unrequested, Requesting => Requesting',
           \/ imq' = imq
           \/ imq # <<>> /\ imq' = Tail(imq)
           \/ \E m \in ManagerMsg :
                 /\ imq' = Append(imq, m)
                 /\ m.type = "RequestServiceIdentity" => Requesting,
           \A s \in Services, u \in Users : Activating(s, u)' => Activating(s, u),
           UNCHANGED <<services, crd, imphase>>
    PROVE  Unrequested'
<1> SUFFICES ASSUME ~Requesting' PROVE Unrequested'
  BY DEF Unrequested
<1>1. ~Requesting OBVIOUS
<1>2. \A s : RequestMsg(s).type = "RequestServiceIdentity"
  BY DEF RequestMsg
<1>3. \A s \in Services : ~InQueue(imq, RequestMsg(s))
  BY <1>1 DEF Unrequested, RequestMsg
<1>4. \A s \in Services : ~InQueue(imq', RequestMsg(s))
  <2>1. CASE imq' = imq BY <1>3, <2>1
  <2>2. CASE imq # <<>> /\ imq' = Tail(imq) BY <1>3, <2>2, ManagerTail
  <2>3. ASSUME NEW m \in ManagerMsg, imq' = Append(imq, m),
               m.type = "RequestServiceIdentity" => Requesting
        PROVE  \A s \in Services : ~InQueue(imq', RequestMsg(s))
    <3>1. \A s : m # RequestMsg(s) BY <1>1, <1>2, <2>3
    <3>2. QED BY <1>3, <2>3, <3>1, ManagerAppend
  <2>4. QED BY <2>1, <2>2, <2>3
<1>5. QED BY <1>1, <1>4 DEF Unrequested, RequestMsg

\* The messages that concern neither offers nor activations nor deletions.
Harmless ==
    {m \in ManagerMsg :
        m.type \notin {"FoundServiceUser", "ActivatedServiceUser",
                       "DeleteServiceIdentity"}}

\* A step outside the manager and the creator, which may send the manager a
\* message about a candidate.
LEMMA OutsideKept ==
    ASSUME TypeOK, UserInv,
           UNCHANGED <<crd, secret, sdp, released, icq, managerVars, creatorVars,
                       crashes>>,
           failures' = 0 => failures = 0,
           \/ imq' = imq
           \/ \E m \in Harmless :
                 /\ imq' = Append(imq, m)
                 /\ m.type = "RequestServiceIdentity" => Requesting
    PROVE  UserInv'
<1> USE DEF managerVars, creatorVars, startupVars, stageVars, readyVars, scanVars
<1>1. /\ imq \in Seq(ManagerMsg) /\ icq \in Seq(CreatorMsg)
      /\ ictodo \in Seq(CreatorStep) /\ todo \in Seq(ManagerSend)
  BY DEF TypeOK, ChannelsTypeOK, ManagerTypeOK, CreatorTypeOK
<1>2. SameReports
  BY <1>1, ReportsKept DEF Harmless
<1>3. ImqFlow
  BY <1>1, ImqFlows DEF Harmless
<1>4. IcqFlow /\ StepFlow /\ SendFlow
  BY <1>1, IcqFlows, StepFlows, SendFlows
<1>5. StoreFlow
  BY DEF StoreFlow, Held
<1>6. /\ NoNewHeld /\ NoNewDoomed
      /\ \A s \in Services, u \in Users : Activating(s, u)' => Activating(s, u)
  BY <1>3, <1>4, <1>5, FlowKeeps
<1>7. NoNewActive
  BY DEF NoNewActive
<1>8. Unrequested'
  <2>1. Requesting => Requesting' BY DEF Requesting
  <2>2. Unrequested BY DEF UserInv
  <2>3. QED BY <1>1, <1>6, <2>1, <2>2, UnrequestedKept DEF Harmless
<1>9. \A u \in Users : Notifying(u)' <=> Notifying(u)
  BY DEF Notifying
<1>10. crashes = 0 /\ stage' = "users" => batch' = {}
  BY DEF UserInv, FirstProcess
<1>11. failures' = 0 => \A s \in Services, u \in Users :
           Offered(u) /\ Held(s, u)' => ~released' /\ ToReconcile(s)'
  BY <1>6 DEF NoNewHeld, UserInv, OffersReconciled, ToReconcile
<1>12. QED
  BY <1>2, <1>6, <1>7, <1>8, <1>9, <1>10, <1>11, UsersKept

\* A call succeeds or fails; failures are counted.
LEMMA CallCounted ==
    ASSUME TypeOK, CallSucceeds \/ CallFails
    PROVE  failures' = 0 => failures = 0
BY ConstantsAssumption DEF TypeOK, BoundsTypeOK, CallSucceeds, CallFails

\* The messages of the watchers concern no user.
LEMMA WatcherMessages ==
    /\ \A s \in Services : /\ FoundServiceCandidate(s) \in Harmless
                           /\ FoundServiceCandidate(s).type = "FoundServiceCandidate"
    /\ \A w \in Watchers : /\ DeploymentWatcherReady(w) \in Harmless
                           /\ DeploymentWatcherReady(w).type = "DeploymentWatcherReady"
    /\ \A s \in Services :
          \A t \in {"RequestServiceIdentity", "DeletedServiceCandidate",
                    "ReleaseDeviceId"} :
             /\ [type |-> t, s |-> s] \in Harmless
             /\ [type |-> t, s |-> s].type = t
<1>1. \A s \in Services : /\ FoundServiceCandidate(s) \in Harmless
                          /\ FoundServiceCandidate(s).type = "FoundServiceCandidate"
  BY Kinds, ManagerMessages DEF Harmless
<1>2. \A w \in Watchers : /\ DeploymentWatcherReady(w) \in Harmless
                          /\ DeploymentWatcherReady(w).type = "DeploymentWatcherReady"
  BY Kinds, ManagerMessages DEF Harmless
<1>3. ASSUME NEW s \in Services,
             NEW t \in {"RequestServiceIdentity", "DeletedServiceCandidate",
                        "ReleaseDeviceId"}
      PROVE  /\ [type |-> t, s |-> s] \in Harmless
             /\ [type |-> t, s |-> s].type = t
  BY DEF Harmless, ManagerMsg, CandidateMsg
<1>4. QED BY <1>1, <1>2, <1>3

\* The candidate watchers: a request is sent only by a watcher that has been
\* released.
LEMMA WatcherUsers ==
    ASSUME ReconcileInv, UserInv, NEW w \in Watchers, WatcherNext(w)
    PROVE  UserInv'
<1> DEFINE Quiet == \/ imq' = imq
                    \/ \E m \in Harmless :
                          /\ imq' = Append(imq, m)
                          /\ m.type = "RequestServiceIdentity" => Requesting
<1>t. TypeOK BY DEF ReconcileInv
<1>o. ASSUME WatcherFrame, failures' = 0 => failures = 0, Quiet PROVE UserInv'
  BY <1>o, <1>t, OutsideKept DEF WatcherFrame, apiVars, envVars
<1>c. CallSucceeds \/ CallFails => (failures' = 0 => failures = 0)
  BY <1>t, CallCounted
<1>1. CASE WatcherList(w) \/ WatcherStart(w) \/ WatcherRelist(w)
  BY <1>1, <1>o, <1>c DEF WatcherList, WatcherStart, WatcherRelist
<1>2. CASE WatcherNotify(w)
  <2>1. /\ imq' = Append(imq, DeploymentWatcherReady(w)) /\ WatcherFrame
        /\ failures' = failures
    BY <1>2 DEF WatcherNotify, SendToManager
  <2>2. QED BY <1>o, <2>1, WatcherMessages
<1>3. ASSUME NEW s \in Services, WatcherInitialized(w, s) PROVE UserInv'
  <2>1. /\ imq' = imq \/ imq' = Append(imq, FoundServiceCandidate(s))
        /\ WatcherFrame /\ (CallSucceeds \/ CallFails)
    BY <1>3 DEF WatcherInitialized, SendToManager, InLabelledNamespace,
                NotInLabelledNamespace
  <2>2. QED BY <1>c, <1>o, <2>1, WatcherMessages
<1>4. ASSUME NEW s \in Services, WatcherApply(w, s) PROVE UserInv'
  <2>1. /\ \/ imq' = imq
           \/ imq' = Append(imq, [type |-> "RequestServiceIdentity", s |-> s])
        /\ WatcherFrame /\ wphase[w] = "run" /\ (CallSucceeds \/ CallFails)
    BY <1>4 DEF WatcherApply, WatcherEvent, SendToManager, InLabelledNamespace,
                NotInLabelledNamespace, CallSucceeds
  <2>2. Requesting
    BY <2>1 DEF ReconcileInv, WatcherOrder, Requesting
  <2>3. QED BY <1>c, <1>o, <2>1, <2>2, WatcherMessages
<1>5. ASSUME NEW s \in Services, WatcherDelete(w, s) PROVE UserInv'
  <2>1. /\ \/ imq' = imq
           \/ imq' = Append(imq, [type |-> "DeletedServiceCandidate", s |-> s])
        /\ WatcherFrame /\ (CallSucceeds \/ CallFails)
    BY <1>5 DEF WatcherDelete, WatcherEvent, SendToManager, InLabelledNamespace,
                NotInLabelledNamespace
  <2> DEFINE m == [type |-> "DeletedServiceCandidate", s |-> s]
  <2>2. m \in Harmless /\ m.type # "RequestServiceIdentity"
    BY WatcherMessages
  <2> HIDE DEF m
  <2>3. Quiet BY <2>1, <2>2 DEF m
  <2>4. QED BY <1>c, <1>o, <2>1, <2>3
<1>6. QED
  BY <1>1, <1>2, <1>3, <1>4, <1>5 DEF WatcherNext

\* Objects, labels and deleted pods.
LEMMA ClusterUsers ==
    ASSUME TypeOK, UserInv,
           \/ \E o \in Objects : ApplyObject(o[1], o[2]) \/ DeleteObject(o[1], o[2])
           \/ \E s \in Services : PodWatcherRelease(s) \/ FlipLabel(s)
    PROVE  UserInv'
<1> USE DEF apiVars
<1>1. ASSUME NEW o \in Objects, ApplyObject(o[1], o[2]) \/ DeleteObject(o[1], o[2])
      PROVE  UserInv'
  BY <1>1, OutsideKept DEF ApplyObject, DeleteObject
<1>2. ASSUME NEW s \in Services, FlipLabel(s) PROVE UserInv'
  BY <1>2, OutsideKept DEF FlipLabel
<1>3. ASSUME NEW s \in Services, PodWatcherRelease(s) PROVE UserInv'
  <2> DEFINE m == [type |-> "ReleaseDeviceId", s |-> s]
  <2>1. m \in Harmless /\ m.type # "RequestServiceIdentity"
    BY WatcherMessages
  <2>2. imq' = Append(imq, m)
    BY <1>3 DEF PodWatcherRelease, SendToManager
  <2> HIDE DEF m
  <2>3. QED BY <1>3, <2>1, <2>2, OutsideKept DEF PodWatcherRelease
<1>4. QED BY <1>1, <1>2, <1>3

-----------------------------------------------------------------------------
(***************************************************************************)
(* The Identity Manager.                                                   *)
(***************************************************************************)
\* A step of the manager that leaves the pool alone and sends, stores and
\* reads only what was on its way already.
LEMMA ManagerKept ==
    ASSUME TypeOK, UserInv, ManagerFrame,
           pool' = pool, deactivated \subseteq deactivated',
           crashes = 0 => activated' = activated,
           failures' = 0 => failures = 0,
           SameReports, ImqFlow, IcqFlow, SendFlow, StoreFlow,
           crashes = 0 => \A u \in Users :
               /\ InQueue(icq', DeleteOnly(u)) => InQueue(icq, DeleteOnly(u))
                      \/ InQueue(todo, ToCreator(DeleteOnly(u)))
               /\ InQueue(todo', ToCreator(DeleteOnly(u)))
                      => InQueue(todo, ToCreator(DeleteOnly(u))),
           Unrequested',
           ~released' /\ stage' = "none" => ~released /\ stage = "none",
           crashes = 0 /\ stage' = "users" => batch' = {},
           NoNewHeld /\ failures' = 0 => \A s \in Services, u \in Users :
               Offered(u) /\ Held(s, u)' => ~released' /\ ToReconcile(s)'
    PROVE  UserInv'
<1>1. UNCHANGED <<secret, sdp, scan, known, icphase, ictodo, crashes>>
  BY DEF ManagerFrame, creatorVars, scanVars, envVars
<1>2. ictodo \in Seq(CreatorStep)
  BY DEF TypeOK, CreatorTypeOK
<1>3. StepFlow
  BY <1>1, <1>2, StepFlows
<1>4. NoNewHeld /\ NoNewDoomed
  BY <1>3, FlowKeeps
<1>5. \A u \in Users : Notifying(u)' <=> Notifying(u)
  BY <1>1 DEF Notifying
<1>6. crashes = 0 => NoNewActive
  BY <1>1 DEF NoNewActive
<1>7. QED BY <1>1, <1>4, <1>5, <1>6, UsersKept

\* What Held and Activating are before the reconciliation makes requests.
LEMMA RestoredOnly ==
    ASSUME UserInv, ~Requesting, imphase = "run",
           NEW s \in Services, NEW u \in Users, Held(s, u)
    PROVE  services[s] = u /\ crd[s] = u
BY DEF UserInv, Unrequested, Held

\* While the reconciliation runs, an offered user is in the pool.
LEMMA OfferedPooled ==
    ASSUME ReconcileInv, UserInv, failures = 0, creatorReady,
           NEW s \in Services, NEW u \in Users, Offered(u), Held(s, u)
    PROVE  Pooled(u) /\ u \in deactivated
<1>1. icphase = "run" /\ ~InQueue(imq, IdentityCreatorReady)
  BY DEF ReconcileInv, CreatorOrder
<1>2. ~Ahead(imq, {Report(u)}, IdentityCreatorReady)
  BY <1>1 DEF Ahead, InQueue
<1>3. ~Announced(u) /\ ~Notifying(u)
  BY <1>1, <1>2 DEF UserInv, OffersReconciled
<1>4. QED BY <1>3 DEF Offered, UserInv, PoolRecorded

\* A handler of one message that only reads or stores.
LEMMA HandlerKept ==
    ASSUME TypeOK, UserInv, ManagerFrame, NEW m, Receive(m),
           m.type # "FoundServiceUser",
           UNCHANGED <<pool, activated, deactivated, released, icq, imphase,
                       stageVars>>,
           failures' = 0 => failures = 0,
           SendFlow, StoreFlow,
           \A u \in Users : InQueue(todo', ToCreator(DeleteOnly(u)))
                      => InQueue(todo, ToCreator(DeleteOnly(u))),
           ~Requesting => services' = crd'
    PROVE  UserInv'
<1>1. /\ imq \in Seq(ManagerMsg) /\ icq \in Seq(CreatorMsg)
      /\ ictodo \in Seq(CreatorStep)
  BY DEF TypeOK, ChannelsTypeOK, CreatorTypeOK
<1>2. /\ imq # <<>> /\ m = Head(imq) /\ imq' = Tail(imq) /\ stage = "none"
      /\ stage' = "none" /\ imphase = "run" /\ imphase' = "run"
  BY DEF Receive, Idle, stageVars
<1>3. SameReports BY <1>1, <1>2, ReportsKept
<1>4. ImqFlow BY <1>1, <1>2, ImqFlows
<1>5. IcqFlow BY <1>1, IcqFlows
<1>6. StepFlow BY <1>1, StepFlows DEF ManagerFrame, creatorVars
<1>7. \A s \in Services, u \in Users : Activating(s, u)' => Activating(s, u)
  BY <1>4, <1>5, <1>6, FlowKeeps
<1>8. Unrequested'
  <2>1. \A s : InQueue(imq', RequestMsg(s)) => InQueue(imq, RequestMsg(s))
    BY <1>1, <1>2, ManagerTail
  <2>2. QED
    BY <1>2, <1>7, <2>1 DEF UserInv, Unrequested, Requesting, RequestMsg
<1>9. NoNewHeld /\ failures' = 0 => \A s \in Services, u \in Users :
          Offered(u) /\ Held(s, u)' => ~released' /\ ToReconcile(s)'
  BY <1>2 DEF UserInv, OffersReconciled, NoNewHeld, ToReconcile
<1>10. QED
  BY <1>2, <1>3, <1>4, <1>5, <1>8, <1>9, ManagerKept

\* A pending send of the manager to itself, and the pending deletion.
LEMMA OneSend ==
    /\ \A x, m : InQueue(<<x>>, m) <=> x = m
    /\ \A m : ~InQueue(<<>>, m)
BY DEF InQueue

\* The handlers of the manager that take nothing from the pool.
LEMMA HandlerUsers ==
    ASSUME ReconcileInv, UserInv,
           \/ identity_creator_ready
           \/ \E w \in Watchers : deployment_watcher_ready(w)
           \/ \E s \in Services :
                 \/ found_service_candidate(s) \/ deleted_service_candidate(s)
                 \/ release_device_id(s)
           \/ \E s \in Services, u \in Users :
                 delete_service_identity(s, u) \/ activated_service_user(s, u)
    PROVE  UserInv'
<1> USE DEF startupVars
<1>t. /\ TypeOK /\ todo \in Seq(ManagerSend) /\ imq \in Seq(ManagerMsg)
      /\ services \in [Services -> MaybeUser] /\ crd \in [Services -> MaybeUser]
  BY DEF ReconcileInv, TypeOK, ManagerTypeOK, ChannelsTypeOK, StoresTypeOK
<1>c. CallSucceeds \/ CallFails => (failures' = 0 => failures = 0)
  BY <1>t, CallCounted
<1>r. ASSUME NEW m, Receive(m)
      PROVE  todo = <<>> /\ imphase = "run" /\ InQueue(imq, m)
  <2>1. imq # <<>> /\ m = Head(imq) /\ imq' = Tail(imq)
    BY <1>r DEF Receive
  <2>2. QED BY <1>r, <1>t, <2>1, ManagerTail DEF Receive, Idle
<1>u. ASSUME imphase = "run", ~Requesting
      PROVE  /\ services = crd
             /\ \A s \in Services, u \in Users : ~Activating(s, u)
  BY <1>u DEF UserInv, Unrequested
\* A handler that leaves the identities alone.
<1>h. ASSUME NEW m, Receive(m), m.type # "FoundServiceUser", ManagerFrame,
             UNCHANGED <<crd, services, pool, activated, deactivated, released,
                         icq, imphase, stageVars, failures>>,
             todo' = todo \/ todo' = <<>> \/ todo' = SelfReady
      PROVE  UserInv'
  <2>1. /\ SendFlow
        /\ \A u \in Users : InQueue(todo', ToCreator(DeleteOnly(u)))
                                => InQueue(todo, ToCreator(DeleteOnly(u)))
    BY <1>h, <1>t, SendFlows
  <2>2. StoreFlow BY <1>h DEF StoreFlow, Held
  <2>3. ~Requesting => services' = crd'
    BY <1>h, <1>r, <1>u
  <2>4. QED BY <1>h, <1>t, <2>1, <2>2, <2>3, HandlerKept
<1>1. CASE identity_creator_ready
  BY <1>1, <1>h, Kinds DEF identity_creator_ready, ReadyIf
<1>2. ASSUME NEW w \in Watchers, deployment_watcher_ready(w) PROVE UserInv'
  BY <1>2, <1>h, WatcherMessages DEF deployment_watcher_ready, ReadyIf
<1>3. ASSUME NEW s \in Services, found_service_candidate(s) PROVE UserInv'
  BY <1>3, <1>h, WatcherMessages DEF found_service_candidate
<1>4. ASSUME NEW s \in Services, deleted_service_candidate(s) PROVE UserInv'
  <2> DEFINE m == [type |-> "DeletedServiceCandidate", s |-> s]
  <2>1. m.type = "DeletedServiceCandidate" OBVIOUS
  <2>2. /\ Receive(m) /\ ManagerFrame /\ todo' = DeletionOf(s)
        /\ UNCHANGED <<crd, services, pool, activated, deactivated, released,
                       icq, imphase, stageVars, failures>>
    BY <1>4 DEF deleted_service_candidate
  <2> HIDE DEF m
  <2>3. CASE ~Registered(s)
    BY <1>h, <2>1, <2>2, <2>3 DEF DeletionOf
  <2>4. CASE Registered(s)
    <3>1. todo' = <<ToManager(Removal(s, services[s]))>>
      BY <2>2, <2>4 DEF DeletionOf, Removal
    <3>2. SendFlow
      <4>1. ASSUME NEW t \in Services, NEW u \in Users
            PROVE  /\ ~InQueue(todo', ToCreator(Activate(t, u)))
                   /\ ~InQueue(todo', ToCreator(Deletion(t, u)))
                   /\ InQueue(todo', ToManager(Removal(t, u))) => services[s] = u
        BY <3>1, OneSend, WrapKinds, TokenKinds
      <4>2. QED BY <4>1 DEF SendFlow, Held
    <3>3. \A u \in Users : ~InQueue(todo', ToCreator(DeleteOnly(u)))
      BY <3>1, OneSend, WrapKinds
    <3>4. StoreFlow BY <2>2 DEF StoreFlow, Held
    <3>5. ~Requesting => services' = crd' BY <1>r, <1>u, <2>2
    <3>6. QED BY <1>t, <2>1, <2>2, <3>2, <3>3, <3>4, <3>5, HandlerKept
  <2>5. QED BY <2>3, <2>4
<1>5. ASSUME NEW s \in Services, release_device_id(s) PROVE UserInv'
  <2> DEFINE m == [type |-> "ReleaseDeviceId", s |-> s]
  <2>1. m.type = "ReleaseDeviceId" OBVIOUS
  <2>2. /\ Receive(m) /\ ManagerFrame
        /\ UNCHANGED <<services, pool, activated, deactivated, released,
                       icq, imphase, stageVars>>
        /\ CallSucceeds \/ CallFails
        /\ crd' = crd \/ crd' = [crd EXCEPT ![s] = services[s]]
        /\ \/ todo' = todo
           \/ \E u : todo' = <<ToCreator([type |-> "ReleaseDeviceId", u |-> u])>>
    BY <1>5 DEF release_device_id
  <2> HIDE DEF m
  <2>3. /\ SendFlow
        /\ \A u \in Users : InQueue(todo', ToCreator(DeleteOnly(u)))
                                => InQueue(todo, ToCreator(DeleteOnly(u)))
    BY <1>t, <2>2, SendFlows
  <2>4. StoreFlow BY <1>t, <2>2 DEF StoreFlow, Held
  <2>5. ~Requesting => services' = crd' BY <1>r, <1>t, <1>u, <2>2
  <2>6. QED BY <1>c, <1>t, <2>1, <2>2, <2>3, <2>4, <2>5, HandlerKept
<1>6. ASSUME NEW s \in Services, NEW v \in Users, delete_service_identity(s, v)
      PROVE  UserInv'
  <2>1. /\ Receive(Removal(s, v)) /\ ManagerFrame
        /\ UNCHANGED <<pool, activated, deactivated, released, icq, imphase,
                       stageVars>>
        /\ CallSucceeds \/ CallFails
        /\ \/ UNCHANGED <<crd, services, todo>>
           \/ /\ crd' = [crd EXCEPT ![s] = NoUser]
              /\ services' = [services EXCEPT ![s] = NoUser]
              /\ todo' = <<ToCreator(Deletion(s, v))>>
    BY <1>6 DEF delete_service_identity, DeleteIdentity, Removal, Deletion
  <2>2. Doomed(v) BY <1>r, <2>1 DEF Doomed
  <2>3. /\ SendFlow
        /\ \A u \in Users : InQueue(todo', ToCreator(DeleteOnly(u)))
                                => InQueue(todo, ToCreator(DeleteOnly(u)))
    <3>1. CASE todo' = todo BY <1>t, <3>1, SendFlows
    <3>2. CASE todo' = <<ToCreator(Deletion(s, v))>>
      <4>1. ASSUME NEW t \in Services, NEW u \in Users
            PROVE  /\ ~InQueue(todo', ToCreator(Activate(t, u)))
                   /\ ~InQueue(todo', ToManager(Removal(t, u)))
                   /\ ~InQueue(todo', ToCreator(DeleteOnly(u)))
                   /\ InQueue(todo', ToCreator(Deletion(t, u))) => u = v
        BY <3>2, OneSend, WrapKinds, TokenKinds
      <4>2. SendFlow BY <2>2, <4>1 DEF SendFlow
      <4>3. QED BY <4>1, <4>2
    <3>3. QED BY <2>1, <3>1, <3>2
  <2>4. StoreFlow
    BY <1>t, <2>1, ConstantsAssumption DEF StoreFlow, Held
  <2>5. ~Requesting => services' = crd' BY <1>r, <1>t, <1>u, <2>1
  <2>6. QED BY <1>c, <1>t, <2>1, <2>3, <2>4, <2>5, TokenKinds, HandlerKept
<1>7. ASSUME NEW s \in Services, NEW v \in Users, activated_service_user(s, v)
      PROVE  UserInv'
  <2>1. /\ Receive(Activation(s, v)) /\ ManagerFrame
        /\ UNCHANGED <<pool, activated, deactivated, released, icq, imphase,
                       stageVars, todo>>
        /\ CallSucceeds \/ CallFails
        /\ services' = services \/ services' = [services EXCEPT ![s] = v]
        /\ crd' = crd \/ crd' = [crd EXCEPT ![s] = v]
    BY <1>7 DEF activated_service_user, UpdateIdentity, Activation
  <2>2. Activating(s, v) BY <1>r, <2>1 DEF Activating
  <2>3. /\ SendFlow
        /\ \A u \in Users : InQueue(todo', ToCreator(DeleteOnly(u)))
                                => InQueue(todo, ToCreator(DeleteOnly(u)))
    BY <1>t, <2>1, SendFlows
  <2>4. StoreFlow BY <1>t, <2>1, <2>2 DEF StoreFlow, Held
  <2>5. Requesting BY <1>r, <1>u, <2>1, <2>2
  <2>6. QED BY <1>c, <1>t, <2>1, <2>3, <2>4, <2>5, TokenKinds, HandlerKept
<1>8. QED BY <1>1, <1>2, <1>3, <1>4, <1>5, <1>6, <1>7

\* A send that completes a handler moves a message from one queue to the other.
LEMMA SendNextFlows ==
    ASSUME TypeOK, ManagerSendNext
    PROVE  /\ SameReports /\ ImqFlow /\ IcqFlow /\ StepFlow /\ SendFlow /\ StoreFlow
           /\ \A u \in Users :
                 /\ InQueue(icq', DeleteOnly(u)) => InQueue(icq, DeleteOnly(u))
                        \/ InQueue(todo, ToCreator(DeleteOnly(u)))
                 /\ InQueue(todo', ToCreator(DeleteOnly(u)))
                        => InQueue(todo, ToCreator(DeleteOnly(u)))
           /\ \/ imq' = imq
              \/ \E m \in ManagerMsg :
                    imq' = Append(imq, m) /\ m.type # "RequestServiceIdentity"
<1>t. /\ todo \in Seq(ManagerSend) /\ imq \in Seq(ManagerMsg)
      /\ icq \in Seq(CreatorMsg) /\ ictodo \in Seq(CreatorStep)
  BY DEF TypeOK, ManagerTypeOK, ChannelsTypeOK, CreatorTypeOK
<1> DEFINE x == Head(todo)
<1>1. /\ todo # <<>> /\ todo' = Tail(todo)
      /\ UNCHANGED <<crd, services, ictodo>>
      /\ \/ x.to = "creator" /\ icq' = Append(icq, x.m) /\ imq' = imq
         \/ x.to = "manager" /\ imq' = Append(imq, x.m) /\ icq' = icq
  BY DEF ManagerSendNext, SendToManager, SendToCreator, ManagerFrame, creatorVars
<1>2. x \in ManagerSend
  BY <1>t, <1>1
<1>3. InQueue(todo, x)
  BY <1>t, <1>1, TailFacts
<1>4. /\ x.to = "creator" => x = ToCreator(x.m) /\ x.m \in CreatorMsg
      /\ x.to = "manager" => /\ x = ToManager(x.m) /\ x.m \in ManagerMsg
                             /\ x.m \in DeleteMsg \cup {IdentityManagerReady}
  <2>1. /\ x.to = "creator" => x = ToCreator(x.m)
        /\ x.to = "manager" => x = ToManager(x.m)
    BY <1>2 DEF ManagerSend, ToCreator, ToManager
  <2>2. QED BY <1>2, <2>1, PendingSends
<1> HIDE DEF x
<1>5. x.to = "manager" =>
          /\ x.m.type \notin {"FoundServiceUser", "ActivatedServiceUser",
                              "RequestServiceIdentity"}
          /\ \A s, u : x.m # Activation(s, u)
  BY <1>4, OtherKinds, Kinds, TokenKinds
<1>6. SameReports
  BY <1>t, <1>1, <1>4, <1>5, ReportsKept
<1>7. ImqFlow
  <2>1. CASE imq' = imq BY <2>1, <1>t, ImqFlows
  <2>2. CASE x.to = "manager" /\ imq' = Append(imq, x.m)
    <3>1. \A m : InQueue(imq', m) <=> InQueue(imq, m) \/ x.m = m
      BY <1>t, <1>4, <2>2, ManagerAppend
    <3>2. \A s, u : InQueue(imq', Activation(s, u)) => InQueue(imq, Activation(s, u))
      BY <1>5, <2>2, <3>1
    <3>3. \A s, u : InQueue(imq', Removal(s, u)) =>
              InQueue(imq, Removal(s, u)) \/ InQueue(todo, ToManager(Removal(s, u)))
      BY <1>3, <1>4, <2>2, <3>1
    <3>4. QED BY <3>2, <3>3 DEF ImqFlow, Activating, Doomed
  <2>3. QED BY <1>1, <2>1, <2>2
<1>8. /\ IcqFlow
      /\ \A u \in Users : InQueue(icq', DeleteOnly(u)) =>
             \/ InQueue(icq, DeleteOnly(u))
             \/ InQueue(todo, ToCreator(DeleteOnly(u)))
  <2>1. CASE icq' = icq BY <2>1, <1>t, IcqFlows
  <2>2. CASE x.to = "creator" /\ icq' = Append(icq, x.m)
    <3>1. \A m : InQueue(icq', m) <=> InQueue(icq, m) \/ x.m = m
      BY <1>t, <1>4, <2>2, CreatorAppend
    <3>2. \A m : InQueue(icq', m) => InQueue(icq, m) \/ InQueue(todo, ToCreator(m))
      BY <1>3, <1>4, <2>2, <3>1
    <3>3. QED BY <3>2 DEF IcqFlow, Activating, Doomed
  <2>3. QED BY <1>1, <2>1, <2>2
<1>9. /\ SendFlow
      /\ \A u \in Users : InQueue(todo', ToCreator(DeleteOnly(u)))
                              => InQueue(todo, ToCreator(DeleteOnly(u)))
  BY <1>t, <1>1, SendFlows
<1>10. StoreFlow BY <1>1 DEF StoreFlow, Held
<1>11. StepFlow BY <1>t, <1>1, StepFlows
<1>12. \/ imq' = imq
       \/ \E m \in ManagerMsg :
             imq' = Append(imq, m) /\ m.type # "RequestServiceIdentity"
  BY <1>1, <1>4, <1>5
<1>13. QED
  BY <1>6, <1>7, <1>8, <1>9, <1>10, <1>11, <1>12

\* The start of the manager, and the sends that complete a handler.
LEMMA SendUsers ==
    ASSUME ReconcileInv, UserInv, ManagerInitialize \/ ManagerSendNext
    PROVE  UserInv'
<1> USE DEF startupVars, stageVars
<1>t. /\ TypeOK /\ todo \in Seq(ManagerSend) /\ imq \in Seq(ManagerMsg)
      /\ icq \in Seq(CreatorMsg)
  BY DEF ReconcileInv, TypeOK, ManagerTypeOK, ChannelsTypeOK
<1>s. ASSUME ManagerFrame PROVE StepFlow
  BY <1>s, <1>t, StepFlows DEF ManagerFrame, creatorVars, TypeOK, CreatorTypeOK
<1>u. crashes = 0 /\ stage = "users" => batch = {}
  BY DEF UserInv, FirstProcess
<1>o. ASSUME UNCHANGED <<released, stage, batch, existing>>,
             failures' = failures, NoNewHeld
      PROVE  failures' = 0 => \A s \in Services, u \in Users :
                 Offered(u) /\ Held(s, u)' => ~released' /\ ToReconcile(s)'
  BY <1>o DEF NoNewHeld, UserInv, OffersReconciled, ToReconcile
<1>1. CASE ManagerInitialize
  <2> DEFINE m == [type |-> "StartService"]
  <2>1. m \in CreatorMsg /\ m.type = "StartService"
    BY CreatorMessages
  <2>2. /\ imphase = "init" /\ imphase' = "run" /\ services' = crd
        /\ icq' = Append(icq, m) /\ ManagerFrame
        /\ UNCHANGED <<crd, released, imq, pool, existing, missing, activated,
                       deactivated, todo, stage, batch, failures>>
    BY <1>1 DEF ManagerInitialize, SendToCreator
  <2> HIDE DEF m
  <2>3. /\ IcqFlow
        /\ \A u : InQueue(icq', DeleteOnly(u)) => InQueue(icq, DeleteOnly(u))
    BY <1>t, <2>1, <2>2, IcqFlows
  <2>4. ImqFlow /\ SendFlow /\ SameReports
    BY <1>t, <2>2, ImqFlows, SendFlows, ReportsKept
  <2>5. StoreFlow BY <2>2 DEF StoreFlow, Held
  <2>6. \A s \in Services, u \in Users : Activating(s, u)' => Activating(s, u)
    BY <1>s, <2>2, <2>3, <2>4, <2>5, FlowKeeps
  <2>7. Unrequested'
    BY <2>2, <2>6 DEF UserInv, Unrequested, Requesting
  <2>8. QED
    BY <1>o, <1>t, <1>u, <2>2, <2>3, <2>4, <2>5, <2>7, ManagerKept
       DEF ManagerFrame, envVars
<1>2. CASE ManagerSendNext
  <2>1. /\ ManagerFrame
        /\ UNCHANGED <<crd, released, imphase, services, pool, existing, missing,
                       activated, deactivated, stage, batch, failures>>
    BY <1>2 DEF ManagerSendNext
  <2>2. \A s \in Services, u \in Users : Activating(s, u)' => Activating(s, u)
    BY <1>2, <1>t, SendNextFlows, FlowKeeps
  <2>3. Unrequested'
    <3>1. Unrequested /\ (Requesting => Requesting')
      BY <2>1 DEF UserInv, Requesting
    <3>2. QED BY <1>2, <1>t, <2>1, <2>2, <3>1, SendNextFlows, UnrequestedKept
  <2>4. QED
    BY <1>2, <1>o, <1>t, <1>u, <2>1, <2>3, SendNextFlows, ManagerKept
<1>3. QED BY <1>1, <1>2

\* The stages of the reconciliation that take nothing from the pool.  What was
\* offered and held at the start is deleted by the end of the third stage: an
\* identity is either extra, or it belongs to a found candidate and holds a
\* user that has been recorded as deactivated.
LEMMA StageUsers ==
    ASSUME ReconcileInv, UserInv,
           \/ ReconcileStart \/ ReconcileExtraDone \/ ReconcileUsersDone
           \/ ReconcileStaleDone \/ ReconcileDone
           \/ \E u \in Users : ReconcileUser(u)
           \/ \E s \in Services : ReconcileDelete(s)
    PROVE  UserInv'
<1> USE DEF startupVars
<1>t. /\ TypeOK /\ todo \in Seq(ManagerSend) /\ imq \in Seq(ManagerMsg)
      /\ icq \in Seq(CreatorMsg)
      /\ services \in [Services -> MaybeUser] /\ crd \in [Services -> MaybeUser]
  BY DEF ReconcileInv, TypeOK, ManagerTypeOK, ChannelsTypeOK, StoresTypeOK
<1>s. ASSUME ManagerFrame PROVE StepFlow
  BY <1>s, <1>t, StepFlows DEF ManagerFrame, creatorVars, TypeOK, CreatorTypeOK
<1>a. stage # "none" => creatorReady /\ ~released
  BY DEF ReconcileInv, ReadyToken
<1>b. ReadyQueued => creatorReady /\ ~released
  BY DEF ReconcileInv, ReadyToken
<1>c. crashes = 0 => activated = {} /\ (stage = "users" => batch = {})
  BY DEF UserInv, FirstProcess
<1>h. ASSUME failures = 0, NEW s \in Services, NEW u \in Users,
             Offered(u), Held(s, u)
      PROVE  ~released /\ ToReconcile(s)
  BY <1>h DEF UserInv, OffersReconciled
\* A step to another stage, or one that sends the creator a message.
<1>k. ASSUME ManagerFrame, imphase = "run",
             UNCHANGED <<crd, services, imphase, pool, activated, deactivated,
                         todo, failures>>,
             \/ imq' = imq
             \/ imq # <<>> /\ imq' = Tail(imq) /\ Head(imq).type # "FoundServiceUser",
             IcqFlow,
             crashes = 0 => \A u \in Users :
                 InQueue(icq', DeleteOnly(u)) => InQueue(icq, DeleteOnly(u)),
             Requesting => Requesting',
             ~released' /\ stage' = "none" => ~released /\ stage = "none",
             crashes = 0 /\ stage' = "users" => batch' = {},
             failures = 0 => \A s \in Services, u \in Users :
                 Offered(u) /\ Held(s, u) => ~released' /\ ToReconcile(s)'
      PROVE  UserInv'
  <2>1. SameReports BY <1>k, <1>t, ReportsKept
  <2>2. ImqFlow BY <1>k, <1>t, ImqFlows
  <2>3. SendFlow BY <1>k, <1>t, SendFlows
  <2>4. StoreFlow BY <1>k DEF StoreFlow, Held
  <2>5. /\ NoNewHeld
        /\ \A s \in Services, u \in Users : Activating(s, u)' => Activating(s, u)
    BY <1>k, <1>s, <2>2, <2>3, <2>4, FlowKeeps
  <2>6. Unrequested'
    BY <1>k, <1>t, <2>5, UnrequestedKept DEF UserInv
  <2>7. NoNewHeld /\ failures' = 0 => \A s \in Services, u \in Users :
            Offered(u) /\ Held(s, u)' => ~released' /\ ToReconcile(s)'
    BY <1>k DEF NoNewHeld
  <2>8. QED BY <1>k, <1>t, <2>1, <2>2, <2>3, <2>4, <2>6, <2>7, ManagerKept
\* The creator's channel when nothing about a user is sent.
<1>q. ASSUME \/ icq' = icq
             \/ \E m \in CreatorMsg : /\ icq' = Append(icq, m)
                                      /\ m.type = "ReconcileSDPUsers"
      PROVE  /\ IcqFlow
             /\ \A u \in Users :
                   InQueue(icq', DeleteOnly(u)) => InQueue(icq, DeleteOnly(u))
  BY <1>q, <1>t, IcqFlows
<1>1. CASE ReconcileStart
  <2>1. /\ imq # <<>> /\ imq' = Tail(imq) /\ Head(imq) = IdentityManagerReady
        /\ stage = "none" /\ stage' = "extra" /\ imphase = "run"
        /\ batch' = extra_service_identities /\ ManagerFrame
        /\ UNCHANGED <<crd, services, imphase, pool, activated, deactivated,
                       todo, failures, released, icq, existing>>
    BY <1>1 DEF ReconcileStart, Receive, Idle
  <2>2. ReadyQueued
    BY <1>t, <2>1, ManagerTail DEF ReadyQueued
  <2>3. ~released /\ ~Requesting
    BY <1>b, <2>1, <2>2 DEF Requesting
  <2>4. failures = 0 => \A s \in Services, u \in Users :
            Offered(u) /\ Held(s, u) => ~released' /\ ToReconcile(s)'
    BY <2>1, <2>3, RestoredOnly, ConstantsAssumption
       DEF ToReconcile, extra_service_identities, Registered
  <2>5. Head(imq).type # "FoundServiceUser"
    BY <2>1, Kinds
  <2>6. QED BY <1>k, <1>q, <2>1, <2>3, <2>4, <2>5
<1>2. CASE ReconcileExtraDone
  <2>1. /\ stage = "extra" /\ stage' = "users" /\ imphase = "run" /\ batch = {}
        /\ batch' = orphan_service_users /\ ManagerFrame
        /\ UNCHANGED <<crd, services, imphase, pool, activated, deactivated,
                       todo, failures, released, icq, imq, existing>>
    BY <1>2 DEF ReconcileExtraDone, InStage
  <2>2. failures = 0 => \A s \in Services, u \in Users :
            Offered(u) /\ Held(s, u) => ~released' /\ ToReconcile(s)'
    BY <1>h, <2>1 DEF ToReconcile
  <2>3. crashes = 0 => batch' = {}
    BY <1>c, <2>1 DEF orphan_service_users
  <2>4. ~Requesting BY <1>a, <2>1 DEF Requesting
  <2>5. QED BY <1>k, <1>q, <2>1, <2>2, <2>3, <2>4
<1>3. CASE ReconcileUsersDone
  <2>1. /\ stage = "users" /\ stage' = "stale" /\ imphase = "run"
        /\ batch' = orphan_service_identities /\ ManagerFrame
        /\ UNCHANGED <<crd, services, imphase, pool, activated, deactivated,
                       todo, failures, released, icq, imq, existing>>
    BY <1>3 DEF ReconcileUsersDone, InStage
  <2>2. ~Requesting /\ ~released /\ creatorReady BY <1>a, <2>1 DEF Requesting
  <2>3. ASSUME failures = 0, NEW s \in Services, NEW u \in Users,
               Offered(u), Held(s, u)
        PROVE  ~released' /\ ToReconcile(s)'
    <3>1. s \in existing BY <1>h, <2>1, <2>3 DEF ToReconcile
    <3>2. u \in deactivated BY <2>2, <2>3, OfferedPooled
    <3>3. services[s] = u BY <2>1, <2>2, <2>3, RestoredOnly
    <3>4. s \in batch'
      BY <2>1, <3>1, <3>2, <3>3, ConstantsAssumption
         DEF orphan_service_identities, Registered
    <3>5. QED BY <2>1, <2>2, <3>4 DEF ToReconcile
  <2>4. QED BY <1>k, <1>q, <2>1, <2>2, <2>3
<1>4. CASE ReconcileStaleDone
  <2> DEFINE m == [type |-> "ReconcileSDPUsers"]
  <2>1. m \in CreatorMsg /\ m.type = "ReconcileSDPUsers" BY CreatorMessages
  <2>2. /\ stage = "stale" /\ stage' = "missing" /\ imphase = "run" /\ batch = {}
        /\ ManagerFrame /\ icq' = Append(icq, m)
        /\ UNCHANGED <<crd, services, imphase, pool, activated, deactivated,
                       todo, failures, released, imq, existing>>
    BY <1>4 DEF ReconcileStaleDone, InStage, SendToCreator
  <2> HIDE DEF m
  <2>3. failures = 0 => \A s \in Services, u \in Users : ~(Offered(u) /\ Held(s, u))
    BY <1>h, <2>2 DEF ToReconcile
  <2>4. Requesting' BY <2>2 DEF Requesting
  <2>5. QED BY <1>k, <1>q, <2>1, <2>2, <2>3, <2>4
<1>5. CASE ReconcileDone
  <2>1. /\ stage = "missing" /\ stage' = "none" /\ imphase = "run" /\ released' = TRUE
        /\ ManagerFrame
        /\ UNCHANGED <<crd, services, imphase, pool, activated, deactivated,
                       todo, failures, icq, imq, existing>>
    BY <1>5 DEF ReconcileDone, InStage
  <2>2. failures = 0 => \A s \in Services, u \in Users : ~(Offered(u) /\ Held(s, u))
    BY <1>h, <2>1 DEF ToReconcile
  <2>3. Requesting' BY <2>1 DEF Requesting
  <2>4. QED BY <1>k, <1>q, <2>1, <2>2, <2>3
<1>6. ASSUME NEW v \in Users, ReconcileUser(v) PROVE UserInv'
  <2>1. /\ stage = "users" /\ stage' = "users" /\ imphase = "run" /\ v \in batch
        /\ ManagerFrame /\ icq' = Append(icq, DeleteOnly(v)) /\ batch' = batch \ {v}
        /\ UNCHANGED <<crd, services, imphase, pool, activated, deactivated,
                       todo, failures, released, imq, existing>>
    BY <1>6 DEF ReconcileUser, InStage, SendToCreator, DeleteOnly
  <2>2. DeleteOnly(v) \in CreatorMsg BY CreatorMessages DEF DeleteOnly
  <2>3. IcqFlow
    <3>1. \A m : InQueue(icq', m) <=> InQueue(icq, m) \/ DeleteOnly(v) = m
      BY <1>t, <2>1, <2>2, CreatorAppend
    <3>2. ASSUME NEW s, NEW u
          PROVE  DeleteOnly(v) # Activate(s, u) /\ DeleteOnly(v) # Deletion(s, u)
      BY TokenKinds
    <3>3. \A s, u : /\ InQueue(icq', Activate(s, u)) => InQueue(icq, Activate(s, u))
                    /\ InQueue(icq', Deletion(s, u)) => InQueue(icq, Deletion(s, u))
      BY <3>1, <3>2
    <3>4. QED BY <3>3 DEF IcqFlow, Activating, Doomed
  <2>4. crashes # 0 BY <1>c, <2>1
  <2>5. failures = 0 => \A s \in Services, u \in Users :
            Offered(u) /\ Held(s, u) => ~released' /\ ToReconcile(s)'
    BY <1>h, <2>1 DEF ToReconcile
  <2>6. Requesting => Requesting' BY <2>1 DEF Requesting
  <2>7. QED BY <1>k, <2>1, <2>3, <2>4, <2>5, <2>6
<1>7. ASSUME NEW s \in Services, ReconcileDelete(s) PROVE UserInv'
  <2>1. /\ stage \in {"extra", "stale"} /\ stage' = stage /\ imphase = "run"
        /\ batch' = batch \ {s} /\ ManagerFrame
        /\ UNCHANGED <<imphase, pool, activated, deactivated, released, imq, icq,
                       existing>>
        /\ \/ UNCHANGED <<crd, services, todo>> /\ crd[s] = NoUser /\ CallSucceeds
           \/ UNCHANGED <<crd, services, todo>> /\ CallFails
           \/ /\ crd' = [crd EXCEPT ![s] = NoUser]
              /\ services' = [services EXCEPT ![s] = NoUser]
              /\ todo' = <<ToCreator(Deletion(s, services[s]))>>
              /\ CallSucceeds
    BY <1>7 DEF ReconcileDelete, InStage, DeleteIdentity, Deletion
  <2>2. ~Requesting /\ ~released BY <1>a, <2>1 DEF Requesting
  <2>3. services = crd /\ \A t \in Services, u \in Users : ~Activating(t, u)
    BY <2>1, <2>2 DEF UserInv, Unrequested
  <2>4. SameReports /\ ImqFlow /\ IcqFlow /\ StepFlow
    BY <1>q, <1>s, <1>t, <2>1, ReportsKept, ImqFlows
  <2>5. /\ SendFlow
        /\ \A u \in Users : InQueue(todo', ToCreator(DeleteOnly(u)))
                                => InQueue(todo, ToCreator(DeleteOnly(u)))
    <3>1. CASE todo' = todo BY <1>t, <3>1, SendFlows
    <3>2. CASE todo' = <<ToCreator(Deletion(s, services[s]))>>
      <4>1. ASSUME NEW t \in Services, NEW u \in Users
            PROVE  /\ ~InQueue(todo', ToCreator(Activate(t, u)))
                   /\ ~InQueue(todo', ToManager(Removal(t, u)))
                   /\ ~InQueue(todo', ToCreator(DeleteOnly(u)))
                   /\ InQueue(todo', ToCreator(Deletion(t, u))) => services[s] = u
        BY <3>2, OneSend, WrapKinds, TokenKinds
      <4>2. SendFlow BY <4>1 DEF SendFlow, Held
      <4>3. QED BY <4>1, <4>2
    <3>3. QED BY <2>1, <3>1, <3>2
  <2>6. StoreFlow BY <1>t, <2>1, ConstantsAssumption DEF StoreFlow, Held
  <2>7. \A t \in Services, u \in Users : Activating(t, u)' => Activating(t, u)
    BY <2>4, <2>5, <2>6, FlowKeeps
  <2>8. Unrequested'
    <3>1. services' = crd' BY <1>t, <2>1, <2>3
    <3>2. QED BY <2>1, <2>2, <2>7, <3>1 DEF UserInv, Unrequested, Requesting
  <2>9. failures' = 0 => failures = 0 BY <1>t, <2>1, CallCounted
  <2>10. ASSUME NoNewHeld, failures' = 0, NEW t \in Services, NEW u \in Users,
                Offered(u), Held(t, u)'
         PROVE  ~released' /\ ToReconcile(t)'
    <3>1. Held(t, u) BY <2>10 DEF NoNewHeld
    <3>2. ToReconcile(t) BY <1>h, <2>9, <2>10, <3>1
    <3>3. ~CallFails
      BY <1>t, <2>10, ConstantsAssumption DEF CallFails, TypeOK, BoundsTypeOK
    <3>4. crd'[s] = NoUser /\ services'[s] = NoUser
      BY <1>t, <2>1, <2>3, <3>3
    <3>5. t # s
      BY <2>3, <2>7, <2>10, <3>4, ConstantsAssumption DEF Held
    <3>6. QED BY <2>1, <2>2, <3>2, <3>5 DEF ToReconcile
  <2>11. QED
    BY <1>t, <2>1, <2>4, <2>5, <2>6, <2>8, <2>9, <2>10, ManagerKept
<1>8. QED BY <1>1, <1>2, <1>3, <1>4, <1>5, <1>6, <1>7

\* found_service_user: an active user is recorded, another goes to the pool.
LEMMA FoundUser ==
    ASSUME ReconcileInv, UserInv, NEW u \in Users, NEW on \in BOOLEAN,
           found_service_user(u, on)
    PROVE  UserInv'
<1> USE DEF startupVars, stageVars
<1>t. /\ TypeOK /\ todo \in Seq(ManagerSend) /\ imq \in Seq(ManagerMsg)
      /\ icq \in Seq(CreatorMsg) /\ ictodo \in Seq(CreatorStep)
      /\ pool \in Seq(Users)
  BY DEF ReconcileInv, TypeOK, ManagerTypeOK, ChannelsTypeOK, CreatorTypeOK
<1>1. /\ imq # <<>> /\ Head(imq) = FoundServiceUser(u, on) /\ imq' = Tail(imq)
      /\ stage = "none" /\ ManagerFrame
      /\ UNCHANGED <<crd, released, icq, imphase, services, existing, missing,
                     todo, stage, batch, failures>>
  BY DEF found_service_user, Receive, Idle
<1>2. UNCHANGED <<secret, sdp, scan, known, icphase, ictodo, crashes>>
  BY <1>1 DEF ManagerFrame, creatorVars, scanVars, envVars
<1>3. ImqFlow /\ IcqFlow /\ StepFlow /\ SendFlow
  BY <1>t, <1>1, <1>2, ImqFlows, IcqFlows, StepFlows, SendFlows
<1>4. StoreFlow BY <1>1 DEF StoreFlow, Held
<1>5. /\ NoNewHeld /\ NoNewDoomed
      /\ \A s \in Services, v \in Users : Activating(s, v)' => Activating(s, v)
  BY <1>3, <1>4, FlowKeeps
<1>6. Unrequested'
  <2>1. Unrequested /\ (Requesting => Requesting')
    BY <1>1 DEF UserInv, Requesting
  <2>2. QED BY <1>t, <1>1, <1>5, <2>1, UnrequestedKept
<1>7. CASE on
  <2>1. /\ Head(imq) = ActiveReport(u) /\ pool' = pool
        /\ deactivated' = deactivated
    <3>1. on = TRUE BY <1>7
    <3>2. Head(imq) = FoundServiceUser(u, TRUE) BY <1>1, <3>1, Zenon
    <3>3. QED BY <1>7, <3>2 DEF found_service_user, ActiveReport
  <2>2. crashes # 0
    BY <1>t, <1>1, <2>1, ManagerTail DEF UserInv, FirstProcess
  <2>3. \A v : Head(imq) # Report(v) /\ Head(imq) \notin {Report(v)}
    BY <2>1, ReportKinds
  <2>4. SameReports
    BY <1>t, <1>1, <2>3, ManagerTail DEF SameReports, Announced
  <2>5. NoNewHeld /\ failures' = 0 => \A s \in Services, v \in Users :
            Offered(v) /\ Held(s, v)' => ~released' /\ ToReconcile(s)'
    BY <1>1 DEF UserInv, OffersReconciled, NoNewHeld, ToReconcile
  <2>6. QED
    BY <1>t, <1>1, <1>3, <1>4, <1>6, <2>1, <2>2, <2>4, <2>5, ManagerKept
<1>8. CASE ~on
  <2>1. /\ Head(imq) = Report(u) /\ pool' = Append(pool, u)
        /\ deactivated' = deactivated \cup {u} /\ activated' = activated
    <3>1. on = FALSE BY <1>8
    <3>2. Head(imq) = FoundServiceUser(u, FALSE) BY <1>1, <3>1, Zenon
    <3>3. QED BY <1>8, <3>2 DEF found_service_user, Report
  <2>2. /\ \A v : Head(imq) = Report(v) <=> u = v
        /\ \A v : Head(imq) \in {Report(v)} <=> u = v
        /\ \A v : Head(imq) # ActiveReport(v)
    BY <2>1, ReportKinds
  <2>3. \A v \in Users : Once(imq, Report(v)) /\ Once(pool, v)
    BY DEF UserInv, SingleOffer
  <2>4. \A m : InQueue(imq, m) <=> Head(imq) = m \/ InQueue(imq', m)
    BY <1>t, <1>1, ManagerTail
  <2>5. /\ Announced(u) /\ ~Announced(u)'
        /\ \A v \in Users \ {u} : Announced(v)' <=> Announced(v)
    <3>1. ~InQueue(imq', Report(u))
      BY <1>t, <1>1, <2>1, <2>3, ManagerTail
    <3>2. QED BY <2>1, <2>2, <2>4, <3>1 DEF Announced
  <2>6. ~Notifying(u) /\ ~Pooled(u)
    BY <2>5 DEF UserInv, SingleOffer
  <2>7. \A v : InQueue(pool', v) <=> InQueue(pool, v) \/ u = v
    BY <1>t, <2>1, AppendFacts
  <2>8. /\ \A v \in Users : Pooled(v)' <=> Pooled(v) \/ v = u
        /\ \A v \in Users : Notifying(v)' <=> Notifying(v)
    BY <1>2, <2>7 DEF Pooled, Notifying
  <2>9. \A v \in Users : Offered(v)' <=> Offered(v)
    BY <2>5, <2>8 DEF Offered
  <2>10. SingleOffer'
    <3>1. \A v \in Users : Once(imq', Report(v))
      BY <1>t, <1>1, <2>3, ManagerTail
    <3>2. \A v \in Users : Once(pool', v)
      <4>1. \A v : Once(pool, v) /\ ~(u = v /\ InQueue(pool, v)) => Once(pool', v)
        BY <1>t, <2>1, AppendFacts
      <4>2. QED BY <2>3, <2>6, <4>1 DEF Pooled
    <3>3. \A v \in Users : Notifying(v)' =>
              ictodo' = NotifyFree(v) /\ ~Announced(v)' /\ ~Pooled(v)'
      BY <1>2, <2>5, <2>6, <2>8 DEF UserInv, SingleOffer
    <3>4. \A v \in Users : ~(Announced(v)' /\ Pooled(v)')
      BY <2>5, <2>8 DEF UserInv, SingleOffer
    <3>5. QED BY <3>1, <3>2, <3>3, <3>4 DEF SingleOffer, NotifyFree
  <2>11. ScanOrder' BY <1>2, <2>9 DEF UserInv, ScanOrder, Exists
  <2>12. FreshUnknown'
    BY <1>2, <1>5, <2>9 DEF UserInv, FreshUnknown, NoNewHeld, NoNewDoomed
  <2>13. PoolRecorded' BY <2>1, <2>8 DEF UserInv, PoolRecorded
  <2>14. ASSUME crashes' = 0 PROVE FirstProcess'
    <3> USE <1>2, <2>14 DEF UserInv
    <3>1. \A v \in Users : Offered(v)' =>
              /\ sdp'[v] = "disabled" /\ v \in secret'
              /\ ~Doomed(v)' /\ \A s \in Services : ~Held(s, v)'
      BY <1>5, <2>9 DEF FirstProcess, NoNewHeld, NoNewDoomed
    <3>2. ~released' /\ stage' = "none" =>
              \A v \in Users : /\ sdp'[v] # "enabled" /\ ~Doomed(v)'
                               /\ \A s \in Services : ~Held(s, v)'
      BY <1>1, <1>5 DEF FirstProcess, NoNewHeld, NoNewDoomed
    <3>3. \A v \in Users :
            /\ ~InQueue(imq', ActiveReport(v))
            /\ ~InQueue(ictodo', Notify(ActiveReport(v)))
            /\ ~InQueue(icq', DeleteOnly(v))
            /\ ~InQueue(todo', ToCreator(DeleteOnly(v)))
      BY <1>1, <2>4 DEF FirstProcess, Notify
    <3>4. activated' = {} /\ (stage' = "users" => batch' = {})
      BY <1>1, <2>1 DEF FirstProcess
    <3>5. QED BY <3>1, <3>2, <3>3, <3>4 DEF FirstProcess, Notify
  <2>15. ASSUME failures' = 0 PROVE OffersReconciled'
    <3>1. OffersReconciled BY <1>1, <2>15 DEF UserInv
    <3>2. \A v \in Users \ {u} : Ahead(imq, {Report(v)}, IdentityCreatorReady)
              => Ahead(imq', {Report(v)}, IdentityCreatorReady)
      BY <1>t, <1>1, <2>2, ManagerTail
    <3>3. QED
      BY <1>1, <1>2, <1>5, <2>5, <2>8, <2>9, <3>1, <3>2
         DEF OffersReconciled, NoNewHeld, ToReconcile
  <2>16. crashes' = 0 \/ failures' = 0 => SingleHolder'
    BY <1>1, <1>2, <1>5 DEF UserInv, SingleHolder, NoNewHeld
  <2>17. QED
    BY <1>6, <2>10, <2>11, <2>12, <2>13, <2>14, <2>15, <2>16 DEF UserInv
<1>9. QED BY <1>7, <1>8

\* What RequestIdentity changes.
LEMMA RequestCases ==
    ASSUME NEW s, RequestIdentity(s)
    PROVE  \/ UNCHANGED <<services, pool, crd, todo, failures>>
           \/ /\ pool # <<>> /\ pool' = Tail(pool) /\ services[s] = NoUser
              /\ services' = [services EXCEPT ![s] = Head(pool)]
              /\ crd' = crd \/ crd' = [crd EXCEPT ![s] = Head(pool)]
              /\ CallSucceeds \/ CallFails
              /\ \/ todo' = todo
                 \/ \E p : /\ p = <<>> \/ p = <<ToCreator([type |-> "CreateIdentity"])>>
                           /\ todo' = p \o <<ToCreator(Activate(s, Head(pool)))>>
BY DEF RequestIdentity, Registered, pop, Activate, CallSucceeds

\* The sends of a request: one activation, and no deletion.
LEMMA RequestSends ==
    ASSUME NEW s, NEW u, NEW p,
           p = <<>> \/ p = <<ToCreator([type |-> "CreateIdentity"])>>,
           todo' = p \o <<ToCreator(Activate(s, u))>>
    PROVE  /\ \A t, v : InQueue(todo', ToCreator(Activate(t, v))) => t = s /\ v = u
           /\ \A t, v : /\ ~InQueue(todo', ToCreator(Deletion(t, v)))
                        /\ ~InQueue(todo', ToManager(Removal(t, v)))
           /\ \A v : ~InQueue(todo', ToCreator(DeleteOnly(v)))
<1> DEFINE c == [type |-> "CreateIdentity"]
           x == ToCreator(c)
           y == ToCreator(Activate(s, u))
<1>1. c.type = "CreateIdentity" OBVIOUS
<1> HIDE DEF c
<1>2. ASSUME NEW t, NEW v
      PROVE  /\ x # ToCreator(Activate(t, v)) /\ x # ToCreator(Deletion(t, v))
             /\ x # ToManager(Removal(t, v)) /\ x # ToCreator(DeleteOnly(v))
             /\ y = ToCreator(Activate(t, v)) => t = s /\ v = u
             /\ y # ToCreator(Deletion(t, v)) /\ y # ToManager(Removal(t, v))
             /\ y # ToCreator(DeleteOnly(v))
  <2>1. /\ c # Activate(t, v) /\ c # Deletion(t, v) /\ c # DeleteOnly(v)
        /\ Activate(s, u) # Deletion(t, v) /\ Activate(s, u) # DeleteOnly(v)
        /\ Activate(s, u) = Activate(t, v) => t = s /\ v = u
    BY <1>1, TokenKinds
  <2>2. QED BY <2>1, WrapKinds
<1>3. todo' = <<>> \o <<y>> \/ todo' = <<x>> \o <<y>>
  BY DEF c
<1> HIDE DEF x, y
<1>4. \A m : x # m /\ y # m => ~InQueue(todo', m)
  BY <1>3, ShortQueues
<1>5. QED BY <1>2, <1>4

\* next_identity: the user that leaves the pool was nobody's, and is now held
\* by the service that asked and by no other.
LEMMA RequestUsers ==
    ASSUME ReconcileInv, UserInv, NEW s \in Services, RequestIdentity(s),
           Requesting, todo = <<>>, ManagerFrame, imphase = "run",
           UNCHANGED <<released, icq, imphase, existing, missing, activated,
                       deactivated, stage>>,
           stage # "users",
           \/ imq' = imq
           \/ imq # <<>> /\ imq' = Tail(imq) /\ Head(imq).type # "FoundServiceUser"
    PROVE  UserInv'
<1>t. /\ TypeOK /\ todo \in Seq(ManagerSend) /\ imq \in Seq(ManagerMsg)
      /\ icq \in Seq(CreatorMsg) /\ ictodo \in Seq(CreatorStep)
      /\ pool \in Seq(Users)
      /\ services \in [Services -> MaybeUser] /\ crd \in [Services -> MaybeUser]
  BY DEF ReconcileInv, TypeOK, ManagerTypeOK, ChannelsTypeOK, CreatorTypeOK,
         StoresTypeOK
<1>1. UNCHANGED <<secret, sdp, scan, known, icphase, ictodo, crashes>>
  BY DEF ManagerFrame, creatorVars, scanVars, envVars
<1>2. SameReports /\ ImqFlow /\ IcqFlow /\ StepFlow
  BY <1>t, <1>1, ReportsKept, ImqFlows, IcqFlows, StepFlows
<1>3. Requesting' BY DEF Requesting
<1>4. Unrequested' BY <1>3 DEF Unrequested
\* Nobody has a user that is on offer.
<1>5. ASSUME failures = 0 \/ crashes = 0, NEW t \in Services, NEW v \in Users
      PROVE  ~(Offered(v) /\ Held(t, v))
  <2>1. CASE crashes = 0
    BY <2>1 DEF UserInv, FirstProcess
  <2>2. CASE failures = 0
    BY <2>2 DEF UserInv, OffersReconciled, Requesting, ToReconcile
  <2>3. QED BY <1>5, <2>1, <2>2
<1>6. CASE UNCHANGED <<services, pool, crd, todo, failures>>
  <2>1. /\ SendFlow
        /\ \A u \in Users : InQueue(todo', ToCreator(DeleteOnly(u)))
                                => InQueue(todo, ToCreator(DeleteOnly(u)))
    BY <1>t, <1>6, SendFlows
  <2>2. StoreFlow BY <1>6 DEF StoreFlow, Held
  <2>3. NoNewHeld /\ failures' = 0 => \A t \in Services, v \in Users :
            Offered(v) /\ Held(t, v)' => ~released' /\ ToReconcile(t)'
    BY <1>5, <1>6 DEF NoNewHeld
  <2>4. QED
    BY <1>t, <1>1, <1>2, <1>3, <1>4, <1>6, <2>1, <2>2, <2>3, ManagerKept
       DEF Requesting
<1>7. ASSUME pool # <<>>, pool' = Tail(pool),
             services' = [services EXCEPT ![s] = Head(pool)],
             crd' = crd \/ crd' = [crd EXCEPT ![s] = Head(pool)],
             CallSucceeds \/ CallFails,
             \/ todo' = todo
             \/ \E p : /\ p = <<>> \/ p = <<ToCreator([type |-> "CreateIdentity"])>>
                       /\ todo' = p \o <<ToCreator(Activate(s, Head(pool)))>>
      PROVE  UserInv'
  <2>u. PICK u \in Users : u = Head(pool)
    BY <1>t, <1>7
  <2>1. /\ u \in Users
        /\ \A v : InQueue(pool, v) <=> u = v \/ InQueue(pool', v)
        /\ \A v : Once(pool, v) => Once(pool', v)
        /\ \A v : Once(pool, v) /\ u = v => ~InQueue(pool', v)
    BY <1>t, <1>7, <2>u, TailFacts
  <2>2. failures' = 0 => failures = 0 BY <1>t, <1>7, CallCounted
  <2>3. Pooled(u) /\ Offered(u) BY <2>1 DEF Pooled, Offered
  <2>4. ~Announced(u) /\ ~Notifying(u) /\ Once(pool, u)
    BY <2>1, <2>3 DEF UserInv, SingleOffer
  <2>5. /\ ~Pooled(u)'
        /\ \A v \in Users \ {u} : Pooled(v)' <=> Pooled(v)
        /\ \A v \in Users : Notifying(v)' <=> Notifying(v)
        /\ \A v \in Users : Announced(v)' <=> Announced(v)
    BY <1>1, <1>2, <2>1, <2>4 DEF Pooled, Notifying, SameReports
  <2>6. /\ ~Offered(u)'
        /\ \A v \in Users \ {u} : Offered(v)' <=> Offered(v)
    BY <2>1, <2>4, <2>5 DEF Offered
  <2>7. /\ \A t \in Services, v \in Users :
              InQueue(todo', ToCreator(Activate(t, v))) => t = s /\ v = u
        /\ \A t \in Services, v \in Users :
              /\ ~InQueue(todo', ToCreator(Deletion(t, v)))
              /\ ~InQueue(todo', ToManager(Removal(t, v)))
        /\ \A v \in Users : ~InQueue(todo', ToCreator(DeleteOnly(v)))
    <3>1. CASE todo' = todo BY <3>1, OneSend
    <3>2. ASSUME NEW p, p = <<>> \/ p = <<ToCreator([type |-> "CreateIdentity"])>>,
                 todo' = p \o <<ToCreator(Activate(s, u))>>
          PROVE  /\ \A t, v : InQueue(todo', ToCreator(Activate(t, v))) => t = s /\ v = u
                 /\ \A t, v : /\ ~InQueue(todo', ToCreator(Deletion(t, v)))
                              /\ ~InQueue(todo', ToManager(Removal(t, v)))
                 /\ \A v : ~InQueue(todo', ToCreator(DeleteOnly(v)))
      BY <3>2, RequestSends
    <3>3. QED BY <1>7, <2>u, <3>1, <3>2
  <2>8. ASSUME NEW t \in Services, NEW v \in Users, Held(t, v)'
        PROVE  Held(t, v) \/ (t = s /\ v = u)
    <3>1. CASE Activating(t, v)'
      BY <1>2, <2>7, <3>1 DEF Activating, Held, ImqFlow, IcqFlow, StepFlow, Notify
    <3>2. CASE services'[t] = v \/ crd'[t] = v
      BY <1>t, <1>7, <2>u, <3>2 DEF Held
    <3>3. QED BY <2>8, <3>1, <3>2 DEF Held
  <2>9. \A v \in Users : Doomed(v)' => Doomed(v)
    <3>1. SUFFICES ASSUME NEW v \in Users, Doomed(v)' PROVE Doomed(v)
      OBVIOUS
    <3>2. PICK t \in Services :
              \/ InQueue(todo', ToCreator(Deletion(t, v)))
              \/ InQueue(icq', Deletion(t, v))
              \/ InQueue(todo', ToManager(Removal(t, v)))
              \/ InQueue(imq', Removal(t, v))
      BY <3>1 DEF Doomed
    <3>3. QED BY <1>2, <2>7, <3>2 DEF ImqFlow, IcqFlow
  <2>10. SingleOffer'
    <3>1. \A v \in Users : Once(imq', Report(v)) /\ Once(pool', v)
      BY <1>2, <2>1 DEF UserInv, SingleOffer, SameReports
    <3>2. \A v \in Users : Notifying(v)' =>
              ictodo' = NotifyFree(v) /\ ~Announced(v)' /\ ~Pooled(v)'
      BY <1>1, <2>5 DEF UserInv, SingleOffer
    <3>3. \A v \in Users : ~(Announced(v)' /\ Pooled(v)')
      BY <2>5 DEF UserInv, SingleOffer
    <3>4. QED BY <3>1, <3>2, <3>3 DEF SingleOffer, NotifyFree
  <2>11. ScanOrder' BY <1>1, <2>6 DEF UserInv, ScanOrder, Exists
  <2>12. FreshUnknown'
    <3>1. sdp[u] # "fresh" BY <2>1, <2>3 DEF UserInv, FreshUnknown
    <3>2. QED BY <1>1, <2>6, <2>8, <2>9, <3>1 DEF UserInv, FreshUnknown
  <2>13. PoolRecorded' BY <2>5 DEF UserInv, PoolRecorded
  <2>14. ASSUME crashes' = 0 PROVE FirstProcess'
    <3> USE <1>1, <2>14 DEF UserInv
    <3>1. \A v \in Users : Offered(v)' =>
              /\ sdp'[v] = "disabled" /\ v \in secret'
              /\ ~Doomed(v)' /\ \A t \in Services : ~Held(t, v)'
      BY <2>6, <2>8, <2>9 DEF FirstProcess
    <3>2. \A v \in Users :
            /\ ~InQueue(imq', ActiveReport(v))
            /\ ~InQueue(ictodo', Notify(ActiveReport(v)))
            /\ ~InQueue(icq', DeleteOnly(v))
            /\ ~InQueue(todo', ToCreator(DeleteOnly(v)))
      BY <1>2, <2>7 DEF FirstProcess, Notify, SameReports
    <3>3. activated' = {} /\ stage' # "users"
      BY DEF FirstProcess
    <3>4. ~(~released' /\ stage' = "none")
      BY <1>3 DEF Requesting
    <3>5. QED BY <3>1, <3>2, <3>3, <3>4 DEF FirstProcess, Notify
  <2>15. failures' = 0 => OffersReconciled'
    BY <1>5, <2>2, <2>6, <2>8 DEF OffersReconciled
  <2>16. crashes' = 0 \/ failures' = 0 => SingleHolder'
    BY <1>1, <1>5, <2>1, <2>2, <2>3, <2>8 DEF UserInv, SingleHolder
  <2>17. QED
    BY <1>4, <2>10, <2>11, <2>12, <2>13, <2>14, <2>15, <2>16 DEF UserInv
<1>8. QED BY <1>6, <1>7, RequestCases

\* Every step of the Identity Manager.
LEMMA ManagerUsers ==
    ASSUME ReconcileInv, UserInv, ManagerNext
    PROVE  UserInv'
<1> USE DEF startupVars, stageVars
<1>1. ASSUME NEW s \in Services, request_service_identity(s) PROVE UserInv'
  <2>1. /\ imq # <<>> /\ Head(imq) = RequestMsg(s) /\ imq' = Tail(imq)
        /\ todo = <<>> /\ stage = "none" /\ RequestIdentity(s) /\ ManagerFrame
        /\ imphase = "run"
        /\ UNCHANGED <<released, icq, imphase, existing, missing, activated,
                       deactivated, stage>>
    BY <1>1 DEF request_service_identity, Receive, Idle, RequestMsg
  <2>2. InQueue(imq, RequestMsg(s))
    BY <2>1, ManagerTail DEF ReconcileInv, TypeOK, ChannelsTypeOK
  <2>3. Requesting BY <2>2 DEF UserInv, Unrequested, RequestMsg
  <2>4. Head(imq).type # "FoundServiceUser" BY <2>1 DEF RequestMsg
  <2>5. QED BY <2>1, <2>3, <2>4, RequestUsers
<1>2. ASSUME NEW s \in Services, ReconcileMissing(s) PROVE UserInv'
  <2>1. /\ stage = "missing" /\ todo = <<>> /\ RequestIdentity(s) /\ ManagerFrame
        /\ imphase = "run"
        /\ UNCHANGED <<released, imq, icq, imphase, existing, missing, activated,
                       deactivated, stage>>
    BY <1>2 DEF ReconcileMissing, InStage
  <2>2. Requesting BY <2>1 DEF Requesting
  <2>3. QED BY <2>1, <2>2, RequestUsers
<1>3. QED
  BY <1>1, <1>2, SendUsers, HandlerUsers, StageUsers, FoundUser DEF ManagerNext

-----------------------------------------------------------------------------
(***************************************************************************)
(* The Identity Creator.                                                   *)
(***************************************************************************)
\* What a step of the creator has to keep: it changes nothing of the manager.
LEMMA CreatorKept ==
    ASSUME TypeOK, UserInv, CreatorFrame, failures' = 0 => failures = 0,
           ImqFlow, IcqFlow, StepFlow,
           \A s \in Services : InQueue(imq', RequestMsg(s)) => InQueue(imq, RequestMsg(s)),
           \A u \in Users : InQueue(icq', DeleteOnly(u)) => InQueue(icq, DeleteOnly(u)),
           SingleOffer', ScanOrder',
           \A u \in Users : sdp'[u] = "fresh" =>
               sdp[u] = "fresh" /\ ~Offered(u)' /\ u \notin scan',
           crashes = 0 => \A u \in Users :
               /\ Offered(u)' =>
                     /\ sdp'[u] = "disabled" /\ u \in secret'
                     /\ ~Doomed(u) /\ \A s \in Services : ~Held(s, u)
               /\ sdp'[u] = "enabled" => sdp[u] = "enabled" \/ Requesting
               /\ ~InQueue(imq', ActiveReport(u))
               /\ ~InQueue(ictodo', Notify(ActiveReport(u))),
           failures' = 0 => OffersReconciled'
    PROVE  UserInv'
<1>1. UNCHANGED <<crd, released, imphase, services, pool, existing, missing,
                  activated, deactivated, todo, stage, batch, crashes>>
  BY DEF CreatorFrame, managerVars, startupVars, stageVars, envVars
<1>2. SendFlow
  BY <1>1, SendFlows DEF TypeOK, ManagerTypeOK
<1>3. StoreFlow BY <1>1 DEF StoreFlow, Held
<1>4. /\ NoNewHeld /\ NoNewDoomed
      /\ \A s \in Services, u \in Users : Activating(s, u)' => Activating(s, u)
  BY <1>2, <1>3, FlowKeeps
<1>5. FreshUnknown'
  BY <1>4 DEF UserInv, FreshUnknown, NoNewHeld, NoNewDoomed
<1>6. PoolRecorded'
  BY <1>1 DEF UserInv, PoolRecorded, Pooled
<1>7. Unrequested'
  BY <1>1, <1>4 DEF UserInv, Unrequested, Requesting, RequestMsg
<1>8. ASSUME crashes' = 0 PROVE FirstProcess'
  <2> USE <1>1, <1>8 DEF UserInv
  <2>1. \A u \in Users : Offered(u)' =>
            /\ sdp'[u] = "disabled" /\ u \in secret'
            /\ ~Doomed(u)' /\ \A s \in Services : ~Held(s, u)'
    BY <1>4 DEF NoNewHeld, NoNewDoomed
  <2>2. ~released' /\ stage' = "none" =>
            \A u \in Users : /\ sdp'[u] # "enabled" /\ ~Doomed(u)'
                             /\ \A s \in Services : ~Held(s, u)'
    BY <1>4 DEF FirstProcess, Requesting, NoNewHeld, NoNewDoomed
  <2>3. \A u \in Users :
          /\ ~InQueue(icq', DeleteOnly(u))
          /\ ~InQueue(todo', ToCreator(DeleteOnly(u)))
    BY DEF FirstProcess
  <2>4. activated' = {} /\ (stage' = "users" => batch' = {})
    BY DEF FirstProcess
  <2>5. QED BY <2>1, <2>2, <2>3, <2>4 DEF FirstProcess, Notify
<1>9. crashes' = 0 \/ failures' = 0 => SingleHolder'
  BY <1>1, <1>4 DEF UserInv, SingleHolder, NoNewHeld
<1>10. QED BY <1>5, <1>6, <1>7, <1>8, <1>9 DEF UserInv

\* A step of the creator that offers no user: what is said about the offers
\* stays, except for a user that may change in the controller.
LEMMA NoOffer ==
    ASSUME TypeOK, UserInv, CreatorFrame, failures' = 0 => failures = 0,
           ImqFlow, IcqFlow, StepFlow, SameReports,
           \A s \in Services : InQueue(imq', RequestMsg(s)) => InQueue(imq, RequestMsg(s)),
           \A u \in Users : InQueue(icq', DeleteOnly(u)) => InQueue(icq, DeleteOnly(u)),
           \A u \in Users :
               /\ Notifying(u)' <=> Notifying(u)
               /\ Notifying(u) => ictodo' = ictodo
               /\ InQueue(ictodo', Notify(ActiveReport(u)))
                      => InQueue(ictodo, Notify(ActiveReport(u))),
           ScanOrder', scan' \subseteq scan,
           icphase' = "run" => icphase = "run",
           \A u \in Users : sdp'[u] = "fresh" => sdp[u] = "fresh",
           crashes = 0 => \A u \in Users :
               /\ Offered(u) => /\ sdp'[u] = sdp[u]
                                /\ u \in secret => u \in secret'
               /\ sdp'[u] = "enabled" => sdp[u] = "enabled" \/ Requesting
    PROVE  UserInv'
<1>1. UNCHANGED <<crd, released, imphase, services, pool, existing, missing,
                  activated, deactivated, todo, stage, batch, crashes>>
  BY DEF CreatorFrame, managerVars, startupVars, stageVars, envVars
<1>2. \A u \in Users : /\ Pooled(u)' <=> Pooled(u)
                       /\ Announced(u)' <=> Announced(u)
                       /\ Offered(u)' <=> Offered(u)
  BY <1>1 DEF Pooled, Offered, SameReports
<1>3. SingleOffer'
  BY <1>1, <1>2 DEF UserInv, SingleOffer, SameReports, NotifyFree
<1>4. SendFlow /\ StoreFlow
  BY <1>1, SendFlows DEF TypeOK, ManagerTypeOK, StoreFlow, Held
<1>5. NoNewHeld BY <1>4, FlowKeeps
<1>6. \A u \in Users : sdp'[u] = "fresh" =>
          sdp[u] = "fresh" /\ ~Offered(u)' /\ u \notin scan'
  BY <1>2 DEF UserInv, FreshUnknown
<1>7. crashes = 0 => \A u \in Users :
          /\ Offered(u)' =>
                /\ sdp'[u] = "disabled" /\ u \in secret'
                /\ ~Doomed(u) /\ \A s \in Services : ~Held(s, u)
          /\ sdp'[u] = "enabled" => sdp[u] = "enabled" \/ Requesting
          /\ ~InQueue(imq', ActiveReport(u))
          /\ ~InQueue(ictodo', Notify(ActiveReport(u)))
  BY <1>2 DEF UserInv, FirstProcess, SameReports, Notify
<1>8. ASSUME failures' = 0 PROVE OffersReconciled'
  <2>1. OffersReconciled BY <1>8 DEF UserInv
  <2>2. QED
    BY <1>1, <1>2, <1>5, <2>1
       DEF OffersReconciled, NoNewHeld, SameReports, ToReconcile
<1>9. QED BY <1>3, <1>6, <1>7, <1>8, CreatorKept

\* The types that the steps of the creator rely on.
LEMMA CreatorBasics ==
    ASSUME TypeOK
    PROVE  /\ imq \in Seq(ManagerMsg) /\ icq \in Seq(CreatorMsg)
           /\ ictodo \in Seq(CreatorStep) /\ sdp \in [Users -> {"fresh", "disabled",
                                                     "enabled", "deleted"}]
BY DEF TypeOK, ChannelsTypeOK, CreatorTypeOK, StoresTypeOK

\* A message the creator receives was in its channel.
LEMMA CreatorReceived ==
    ASSUME TypeOK, NEW m, CreatorReceive(m)
    PROVE  /\ icphase = "run" /\ ictodo = <<>> /\ icq # <<>> /\ icq' = Tail(icq)
           /\ InQueue(icq, m)
<1>1. icphase = "run" /\ ictodo = <<>> /\ icq # <<>> /\ icq' = Tail(icq) /\ m = Head(icq)
  BY DEF CreatorReceive
<1>2. QED BY <1>1, CreatorBasics, CreatorTail

\* A handler of the creator that offers no user.  It may delete a user that is
\* doomed, or enable one that is held.
LEMMA CreatorHandlerKept ==
    ASSUME TypeOK, UserInv, CreatorFrame, failures' = 0 => failures = 0,
           NEW m, CreatorReceive(m), UNCHANGED <<imq, icphase, scan, known>>,
           StepFlow,
           \A u \in Users :
               /\ ~InQueue(ictodo', Notify(Report(u)))
               /\ ~InQueue(ictodo', Notify(ActiveReport(u))),
           \A u \in Users : sdp'[u] = "fresh" => sdp[u] = "fresh",
           crashes = 0 => \A u \in Users :
               /\ Offered(u) => /\ sdp'[u] = sdp[u]
                                /\ u \in secret => u \in secret'
               /\ sdp'[u] = "enabled" => sdp[u] = "enabled" \/ Requesting
    PROVE  UserInv'
<1>1. icphase = "run" /\ ictodo = <<>> /\ icq # <<>> /\ icq' = Tail(icq)
  BY CreatorReceived
<1>2. SameReports /\ ImqFlow BY CreatorBasics, ReportsKept, ImqFlows
<1>3. /\ IcqFlow
      /\ \A u \in Users : InQueue(icq', DeleteOnly(u)) => InQueue(icq, DeleteOnly(u))
  BY <1>1, CreatorBasics, IcqFlows
<1>4. \A u \in Users : ~Notifying(u) /\ ~Notifying(u)'
  BY <1>1, OneSend DEF Notifying, Notify
<1>5. ScanOrder' BY <1>1 DEF UserInv, ScanOrder
<1>6. QED BY <1>1, <1>2, <1>3, <1>4, <1>5, NoOffer

\* Deletions, activations and the release of devices.
LEMMA CreatorHandlerUsers ==
    ASSUME ReconcileInv, UserInv,
           \/ CreatorDevices
           \/ \E u \in Users : DeleteSDPUser(u)
           \/ \E s \in Services, u \in Users :
                 DeleteServiceUser(s, u) \/ ActivateServiceUser(s, u)
    PROVE  UserInv'
<1>t. TypeOK BY DEF ReconcileInv
<1>c. CallSucceeds \/ CallFails => (failures' = 0 => failures = 0)
  BY <1>t, CallCounted
<1>q. ASSUME ictodo = <<>>, ictodo' = ictodo
      PROVE  /\ StepFlow
             /\ \A u \in Users :
                   /\ ~InQueue(ictodo', Notify(Report(u)))
                   /\ ~InQueue(ictodo', Notify(ActiveReport(u)))
  BY <1>q, OneSend DEF StepFlow
<1>1. CASE CreatorDevices
  <2>1. PICK m : /\ CreatorReceive(m) /\ CreatorFrame
                 /\ UNCHANGED <<imq, icphase, scan, known, ictodo, sdp, secret,
                                failures>>
    BY <1>1 DEF CreatorDevices, creatorVars, scanVars
  <2>2. QED BY <1>q, <1>t, <2>1, CreatorHandlerKept, CreatorReceived
<1>2. ASSUME NEW v \in Users, DeleteSDPUser(v) PROVE UserInv'
  <2>1. /\ CreatorReceive(DeleteOnly(v)) /\ CreatorFrame
        /\ UNCHANGED <<imq, icphase, scan, known, ictodo>>
        /\ CallSucceeds \/ CallFails
        /\ sdp' = sdp \/ (Exists(v) /\ sdp' = [sdp EXCEPT ![v] = "deleted"])
    BY <1>2 DEF DeleteSDPUser, DeleteUser, UserDeleted, DeletionFailed,
                RemoveFromController, DeleteOnly, creatorVars, scanVars
  <2>2. crashes # 0
    BY <1>t, <2>1, CreatorReceived DEF UserInv, FirstProcess
  <2>3. \A u \in Users : sdp'[u] = "fresh" => sdp[u] = "fresh"
    BY <1>t, <2>1, CreatorBasics
  <2>4. QED BY <1>c, <1>q, <1>t, <2>1, <2>2, <2>3, CreatorHandlerKept, CreatorReceived
<1>3. ASSUME NEW s \in Services, NEW v \in Users, DeleteServiceUser(s, v)
      PROVE  UserInv'
  <2>1. /\ CreatorReceive(Deletion(s, v)) /\ CreatorFrame
        /\ UNCHANGED <<imq, icphase, scan, known, ictodo>>
        /\ CallSucceeds \/ CallFails
        /\ sdp' = sdp \/ (Exists(v) /\ sdp' = [sdp EXCEPT ![v] = "deleted"])
        /\ secret' = secret \/ secret' = secret \ {v}
    BY <1>3 DEF DeleteServiceUser, UserDeleted, DeletionFailed,
                RemoveFromController, Deletion, creatorVars, scanVars
  <2>2. Doomed(v) BY <1>t, <2>1, CreatorReceived DEF Doomed
  <2>3. crashes = 0 => \A u \in Users :
          /\ Offered(u) => /\ sdp'[u] = sdp[u]
                           /\ u \in secret => u \in secret'
          /\ sdp'[u] = "enabled" => sdp[u] = "enabled" \/ Requesting
    BY <1>t, <2>1, <2>2, CreatorBasics DEF UserInv, FirstProcess
  <2>4. \A u \in Users : sdp'[u] = "fresh" => sdp[u] = "fresh"
    BY <1>t, <2>1, CreatorBasics
  <2>5. QED BY <1>c, <1>q, <1>t, <2>1, <2>3, <2>4, CreatorHandlerKept, CreatorReceived
<1>4. ASSUME NEW s \in Services, NEW v \in Users, ActivateServiceUser(s, v)
      PROVE  UserInv'
  <2> DEFINE x == [op |-> "secrets", s |-> s, u |-> v]
  <2>1. /\ CreatorReceive(Activate(s, v)) /\ CreatorFrame
        /\ UNCHANGED <<imq, icphase, scan, known, secret>>
        /\ ictodo' = <<Notify(Activation(s, v)), x>>
        /\ CallSucceeds \/ CallFails
        /\ sdp' = sdp \/ (Exists(v) /\ sdp' = [sdp EXCEPT ![v] = "enabled"])
    BY <1>4 DEF ActivateServiceUser, ActivationSteps, Activate, Activation, Notify,
                scanVars
  <2>2. x.op = "secrets" OBVIOUS
  <2> HIDE DEF x
  <2>3. Activating(s, v) BY <1>t, <2>1, CreatorReceived DEF Activating
  <2>4. Requesting BY <2>3 DEF UserInv, Unrequested
  <2>5. \A m : InQueue(ictodo', m) <=> Notify(Activation(s, v)) = m \/ x = m
    BY <2>1 DEF InQueue
  <2>6. \A m : InQueue(ictodo', Notify(m)) <=> Activation(s, v) = m
    BY <2>2, <2>5, WrapKinds
  <2>7. StepFlow
    <3>1. \A t, u : Activation(s, v) = Activation(t, u) => t = s /\ u = v
      BY TokenKinds
    <3>2. QED BY <2>3, <2>6, <3>1 DEF StepFlow
  <2>8. \A u \in Users :
          /\ ~InQueue(ictodo', Notify(Report(u)))
          /\ ~InQueue(ictodo', Notify(ActiveReport(u)))
    <3>1. ASSUME NEW u
          PROVE  Activation(s, v) # Report(u) /\ Activation(s, v) # ActiveReport(u)
      BY TokenKinds, ReportKinds
    <3>2. QED BY <2>6, <3>1
  <2>9. crashes = 0 => \A u \in Users :
          /\ Offered(u) => /\ sdp'[u] = sdp[u]
                           /\ u \in secret => u \in secret'
          /\ sdp'[u] = "enabled" => sdp[u] = "enabled" \/ Requesting
    BY <1>t, <2>1, <2>3, <2>4, CreatorBasics DEF UserInv, FirstProcess, Held
  <2>10. \A u \in Users : sdp'[u] = "fresh" => sdp[u] = "fresh"
    BY <1>t, <2>1, CreatorBasics
  <2>11. QED BY <1>c, <1>t, <2>1, <2>7, <2>8, <2>9, <2>10, CreatorHandlerKept
<1>5. QED BY <1>1, <1>2, <1>3, <1>4

\* CreateIdentity and initialize: a new user is offered, and nobody knows it.
LEMMA NewUserOffered ==
    ASSUME TypeOK, UserInv, CreatorFrame, HasFresh, CreateUser(NewUser),
           ictodo = <<>>, ictodo' = NotifyFree(NewUser),
           UNCHANGED <<imq, icphase, scan, known, failures>>,
           icphase \in {"fill", "run"},
           icq' = icq \/ (icq # <<>> /\ icq' = Tail(icq))
    PROVE  UserInv'
<1>1. PICK n \in Users : n = NewUser /\ sdp[n] = "fresh"
  BY DEF HasFresh, NewUser
<1>2. /\ sdp' = [sdp EXCEPT ![n] = "disabled"] /\ secret' = secret \cup {n}
      /\ ictodo' = <<Notify(Report(n))>>
  BY <1>1 DEF CreateUser, NotifyFree, Notify, Report
<1>3. /\ ~Offered(n) /\ ~Doomed(n) /\ n \notin scan
      /\ \A s \in Services : ~Held(s, n)
  BY <1>1 DEF UserInv, FreshUnknown
<1>4. UNCHANGED <<crd, released, imphase, services, pool, existing, missing,
                  activated, deactivated, todo, stage, batch, crashes>>
  BY DEF CreatorFrame, managerVars, startupVars, stageVars, envVars
<1>5. \A m : InQueue(ictodo', Notify(m)) <=> Report(n) = m
  BY <1>2, OneSend, WrapKinds
<1>6. /\ \A u \in Users : ~Notifying(u) /\ (Notifying(u)' <=> u = n)
      /\ \A u \in Users : Announced(u)' <=> Announced(u)
      /\ \A u \in Users : Pooled(u)' <=> Pooled(u)
  BY <1>4, <1>5, OneSend, ReportKinds DEF Notifying, Announced, Pooled, Notify
<1>7. \A u \in Users : Offered(u)' <=> Offered(u) \/ u = n
  BY <1>6 DEF Offered
<1>8. ImqFlow /\ IcqFlow
      /\ \A u \in Users : InQueue(icq', DeleteOnly(u)) => InQueue(icq, DeleteOnly(u))
  BY CreatorBasics, ImqFlows, IcqFlows
<1>9. StepFlow
  <2>1. \A s, u : Report(n) # Activation(s, u)
    BY TokenKinds, ReportKinds
  <2>2. QED BY <1>5, <2>1 DEF StepFlow
<1>10. SendFlow /\ StoreFlow
  BY <1>4, SendFlows DEF TypeOK, ManagerTypeOK, StoreFlow, Held
<1>11. NoNewHeld BY <1>8, <1>9, <1>10, FlowKeeps
<1>12. SingleOffer'
  <2>1. \A u \in Users : Once(imq', Report(u)) /\ Once(pool', u)
    BY <1>4 DEF UserInv, SingleOffer
  <2>2. \A u \in Users : Notifying(u)' =>
            ictodo' = NotifyFree(u) /\ ~Announced(u)' /\ ~Pooled(u)'
    BY <1>1, <1>3, <1>6 DEF Offered
  <2>3. \A u \in Users : ~(Announced(u)' /\ Pooled(u)')
    BY <1>6 DEF UserInv, SingleOffer
  <2>4. QED BY <2>1, <2>2, <2>3 DEF SingleOffer, NotifyFree
<1>13. ScanOrder'
  BY DEF UserInv, ScanOrder
<1>14. \A u \in Users : sdp'[u] = "fresh" =>
           sdp[u] = "fresh" /\ ~Offered(u)' /\ u \notin scan'
  BY <1>2, <1>7, CreatorBasics DEF UserInv, FreshUnknown
<1>15. crashes = 0 => \A u \in Users :
           /\ Offered(u)' =>
                 /\ sdp'[u] = "disabled" /\ u \in secret'
                 /\ ~Doomed(u) /\ \A s \in Services : ~Held(s, u)
           /\ sdp'[u] = "enabled" => sdp[u] = "enabled" \/ Requesting
           /\ ~InQueue(imq', ActiveReport(u))
           /\ ~InQueue(ictodo', Notify(ActiveReport(u)))
  <2>1. \A u : Report(n) # ActiveReport(u) BY ReportKinds
  <2>2. \A u \in Users : ~InQueue(ictodo', Notify(ActiveReport(u)))
    BY <1>5, <2>1
  <2>3. sdp'[n] = "disabled" /\ \A u \in Users \ {n} : sdp'[u] = sdp[u]
    BY <1>2, CreatorBasics
  <2>4. QED BY <1>2, <1>3, <1>7, <2>2, <2>3 DEF UserInv, FirstProcess
<1>16. ASSUME failures' = 0 PROVE OffersReconciled'
  <2>1. OffersReconciled BY <1>16 DEF UserInv
  <2>2. QED
    BY <1>3, <1>4, <1>6, <1>7, <1>11, <2>1
       DEF OffersReconciled, NoNewHeld, ToReconcile
<1>17. QED
  BY <1>8, <1>9, <1>12, <1>13, <1>14, <1>15, <1>16, CreatorKept

\* CreateIdentity: a call that fails may leave a disabled user behind, which
\* nobody is told of.
LEMMA CreateUsers ==
    ASSUME ReconcileInv, UserInv, CreateIdentity \/ CreatorFill
    PROVE  UserInv'
<1>t. TypeOK BY DEF ReconcileInv
<1>1. CASE CreatorFill
  BY <1>1, <1>t, NewUserOffered DEF CreatorFill
<1>2. CASE CreateIdentity
  <2> DEFINE m == [type |-> "CreateIdentity"]
  <2>1. /\ CreatorReceive(m) /\ CreatorFrame
        /\ UNCHANGED <<imq, icphase, scan, known>>
        /\ \/ HasFresh /\ CreateUser(NewUser) /\ ictodo' = NotifyFree(NewUser)
                /\ CallSucceeds
           \/ UNCHANGED <<sdp, secret, ictodo>> /\ CallSucceeds
           \/ CreateUserFails /\ UNCHANGED ictodo
    BY <1>2 DEF CreateIdentity, scanVars
  <2> HIDE DEF m
  <2>2. icphase = "run" /\ ictodo = <<>> /\ icq # <<>> /\ icq' = Tail(icq)
    BY <1>t, <2>1, CreatorReceived
  <2>3. CASE HasFresh /\ CreateUser(NewUser) /\ ictodo' = NotifyFree(NewUser)
                /\ CallSucceeds
    BY <1>t, <2>1, <2>2, <2>3, NewUserOffered DEF CallSucceeds
  <2>4. CASE /\ UNCHANGED ictodo /\ (CallSucceeds \/ CallFails)
             /\ \/ UNCHANGED <<sdp, secret>>
                \/ /\ HasFresh /\ sdp' = [sdp EXCEPT ![NewUser] = "disabled"]
                   /\ UNCHANGED secret
    <3>1. PICK n : \/ UNCHANGED <<sdp, secret>>
                   \/ /\ n \in Users /\ sdp[n] = "fresh" /\ UNCHANGED secret
                      /\ sdp' = [sdp EXCEPT ![n] = "disabled"]
      BY <2>4 DEF HasFresh, NewUser
    <3>2. \A u \in Users : sdp[u] = "fresh" => ~Offered(u)
      BY DEF UserInv, FreshUnknown
    <3>3. /\ \A u \in Users : Offered(u) => sdp'[u] = sdp[u]
          /\ \A u \in Users : sdp'[u] \in {"fresh", "enabled"} => sdp'[u] = sdp[u]
          /\ secret' = secret
      BY <1>t, <3>1, <3>2, CreatorBasics
    <3>4. /\ StepFlow
          /\ \A u \in Users : /\ ~InQueue(ictodo', Notify(Report(u)))
                              /\ ~InQueue(ictodo', Notify(ActiveReport(u)))
      BY <2>2, <2>4, OneSend DEF StepFlow
    <3>5. failures' = 0 => failures = 0 BY <1>t, <2>4, CallCounted
    <3>6. QED BY <1>t, <2>1, <3>3, <3>4, <3>5, CreatorHandlerKept
  <2>5. QED
    BY <2>1, <2>3, <2>4 DEF CreateUserFails, NoUserCreated, PasswordNotSaved
<1>3. QED BY <1>1, <1>2

\* The creator is not ready until initialize is over, so the reconciliation
\* has not started.
LEMMA NotReady ==
    ASSUME ReconcileInv, UserInv, icphase # "run"
    PROVE  /\ ~released /\ stage = "none"
           /\ \A s : ToReconcile(s)
           /\ crashes = 0 => \A u \in Users : /\ sdp[u] # "enabled" /\ ~Doomed(u)
                                              /\ \A s \in Services : ~Held(s, u)
<1>1. ~creatorReady BY DEF ReconcileInv, CreatorOrder
<1>2. ~released /\ stage = "none" BY <1>1 DEF ReconcileInv, ReadyToken
<1>3. QED BY <1>2 DEF ToReconcile, UserInv, FirstProcess

\* The steps of initialize.
LEMMA InitializeUsers ==
    ASSUME ReconcileInv, UserInv,
           \/ CreatorStart \/ CreatorClean \/ CreatorReady
           \/ \E u \in Users : CreatorScan(u)
    PROVE  UserInv'
<1>t. TypeOK BY DEF ReconcileInv
<1>b. /\ imq \in Seq(ManagerMsg) /\ icq \in Seq(CreatorMsg)
      /\ ictodo \in Seq(CreatorStep)
      /\ sdp \in [Users -> {"fresh", "disabled", "enabled", "deleted"}]
  BY <1>t, CreatorBasics
<1>c. CallSucceeds \/ CallFails => (failures' = 0 => failures = 0)
  BY <1>t, CallCounted
<1>f. ASSUME CreatorFrame
      PROVE  UNCHANGED <<crd, released, imphase, services, pool, existing, missing,
                         activated, deactivated, todo, stage, batch, crashes>>
  BY <1>f DEF CreatorFrame, managerVars, startupVars, stageVars, envVars
<1>e. icphase \in {"wait", "scan"} => ictodo = <<>>
  BY DEF UserInv, ScanOrder
<1>1. CASE CreatorStart
  <2>1. /\ icphase = "wait" /\ icq # <<>> /\ icq' = Tail(icq) /\ CreatorFrame
        /\ UNCHANGED <<secret, sdp, imq, ictodo, failures>>
        /\ \/ UNCHANGED <<icphase, scan, known>>
           \/ icphase' = "scan" /\ scan' = {u \in Users : Exists(u)}
    BY <1>1 DEF CreatorStart, scanVars
  <2>2. \A u \in Users : ~Offered(u) /\ ~Offered(u)'
    BY <1>f, <2>1 DEF UserInv, ScanOrder, Offered, Announced, Notifying, Pooled
  <2>3. ImqFlow /\ IcqFlow /\ StepFlow
        /\ \A u \in Users : InQueue(icq', DeleteOnly(u)) => InQueue(icq, DeleteOnly(u))
    BY <1>b, <2>1, ImqFlows, IcqFlows, StepFlows
  <2>4. SingleOffer'
    BY <1>f, <2>1, <2>2 DEF UserInv, SingleOffer, Offered
  <2>5. ScanOrder'
    BY <1>e, <2>1, <2>2 DEF UserInv, ScanOrder, Exists
  <2>6. \A u \in Users : sdp'[u] = "fresh" =>
            sdp[u] = "fresh" /\ ~Offered(u)' /\ u \notin scan'
    BY <2>1, <2>2 DEF UserInv, FreshUnknown, Exists
  <2>7. crashes = 0 => \A u \in Users :
            /\ ~InQueue(imq', ActiveReport(u))
            /\ ~InQueue(ictodo', Notify(ActiveReport(u)))
    BY <2>1 DEF UserInv, FirstProcess, Notify
  <2>8. OffersReconciled' BY <2>2 DEF OffersReconciled
  <2>9. QED
    BY <1>t, <2>1, <2>2, <2>3, <2>4, <2>5, <2>6, <2>7, <2>8, CreatorKept
<1>2. CASE CreatorClean
  <2>1. /\ icphase = "scan" /\ icphase' = "fill" /\ scan = {} /\ CreatorFrame
        /\ secret' = secret \cap known
        /\ UNCHANGED <<sdp, imq, icq, scan, known, ictodo, failures>>
    BY <1>2 DEF CreatorClean, scanVars
  <2>2. \A u \in Users : Offered(u) => u \in known
    BY <2>1 DEF UserInv, ScanOrder
  <2>3. ImqFlow /\ IcqFlow /\ StepFlow /\ SameReports
        /\ \A u \in Users : InQueue(icq', DeleteOnly(u)) => InQueue(icq, DeleteOnly(u))
    BY <1>b, <2>1, ImqFlows, IcqFlows, StepFlows, ReportsKept
  <2>4. ScanOrder' BY <2>1 DEF ScanOrder
  <2>5. \A u \in Users : Notifying(u)' <=> Notifying(u) BY <2>1 DEF Notifying
  <2>6. QED BY <1>t, <2>1, <2>2, <2>3, <2>4, <2>5, NoOffer
<1>3. CASE CreatorReady
  <2>1. /\ icphase = "fill" /\ icphase' = "run" /\ ictodo = <<>> /\ CreatorFrame
        /\ imq' = Append(imq, IdentityCreatorReady)
        /\ UNCHANGED <<secret, sdp, icq, scan, known, ictodo, failures>>
    BY <1>3 DEF CreatorReady, SendToManager, scanVars
  <2>2. /\ IdentityCreatorReady \in ManagerMsg
        /\ IdentityCreatorReady.type = "IdentityCreatorReady"
    BY ManagerMessages, Kinds
  <2>3. ImqFlow /\ IcqFlow /\ StepFlow /\ SameReports
        /\ \A u \in Users : InQueue(icq', DeleteOnly(u)) => InQueue(icq, DeleteOnly(u))
    BY <1>b, <2>1, <2>2, ImqFlows, IcqFlows, StepFlows, ReportsKept
  <2>4. \A s \in Services : InQueue(imq', RequestMsg(s)) => InQueue(imq, RequestMsg(s))
    <3>1. \A s : IdentityCreatorReady # RequestMsg(s) BY <2>2 DEF RequestMsg
    <3>2. QED BY <1>b, <2>1, <2>2, <3>1, ManagerAppend
  <2>5. /\ \A u \in Users : Announced(u)' <=> Announced(u)
        /\ \A u \in Users : ~Notifying(u) /\ ~Notifying(u)'
        /\ \A u \in Users : Offered(u)' <=> Offered(u)
    BY <1>f, <2>1, <2>3, OneSend DEF SameReports, Notifying, Offered, Pooled
  <2>6. SingleOffer'
    BY <1>f, <2>1, <2>3, <2>5 DEF UserInv, SingleOffer, SameReports, Pooled
  <2>7. ScanOrder' BY <2>1 DEF UserInv, ScanOrder
  <2>8. \A u \in Users : sdp'[u] = "fresh" =>
            sdp[u] = "fresh" /\ ~Offered(u)' /\ u \notin scan'
    BY <2>1, <2>5 DEF UserInv, FreshUnknown
  <2>9. crashes = 0 => \A u \in Users :
            /\ Offered(u)' =>
                  /\ sdp'[u] = "disabled" /\ u \in secret'
                  /\ ~Doomed(u) /\ \A s \in Services : ~Held(s, u)
            /\ ~InQueue(imq', ActiveReport(u))
            /\ ~InQueue(ictodo', Notify(ActiveReport(u)))
    BY <2>1, <2>3, <2>5 DEF UserInv, FirstProcess, SameReports, Notify
  <2>10. OffersReconciled'
    <3>1. ASSUME NEW u \in Users, Announced(u)'
          PROVE  Ahead(imq', {Report(u)}, IdentityCreatorReady)
      BY <1>b, <2>1, <2>2, <2>5, <3>1, ManagerAppend DEF Announced
    <3>2. ~released' /\ \A s : ToReconcile(s)'
      BY <1>f, <2>1, NotReady DEF ToReconcile
    <3>3. QED BY <2>5, <3>1, <3>2 DEF OffersReconciled
  <2>11. QED
    BY <1>t, <2>1, <2>3, <2>4, <2>6, <2>7, <2>8, <2>9, <2>10, CreatorKept
<1>4. ASSUME NEW v \in Users, CreatorScan(v) PROVE UserInv'
  <2>1. /\ icphase = "scan" /\ v \in scan /\ scan' = scan \ {v} /\ CreatorFrame
        /\ UNCHANGED <<secret, icq, icphase, ictodo>>
        /\ CallSucceeds \/ CallFails
        /\ \/ /\ v \in secret /\ UNCHANGED sdp /\ known' = known \cup {v}
              /\ imq' = Append(imq, FoundServiceUser(v, sdp[v] = "enabled"))
           \/ /\ UNCHANGED <<imq, known>>
              /\ sdp' = sdp \/ sdp' = [sdp EXCEPT ![v] = "deleted"]
    BY <1>4 DEF CreatorScan, SendToManager, Restored, RemoveFromController
  <2>2. /\ ~Offered(v) /\ Exists(v) /\ ictodo = <<>>
        /\ \A u \in Users : Offered(u) => u \in known \ scan
    BY <1>e, <2>1 DEF UserInv, ScanOrder
  <2>3. failures' = 0 => failures = 0 BY <1>c, <2>1
  <2>4. IcqFlow /\ StepFlow
        /\ \A u \in Users : InQueue(icq', DeleteOnly(u)) => InQueue(icq, DeleteOnly(u))
    BY <1>b, <2>1, IcqFlows, StepFlows
  <2>5. \A u \in Users : ~Notifying(u) /\ ~Notifying(u)'
    BY <2>1, <2>2, OneSend DEF Notifying
  <2>6. CASE /\ UNCHANGED <<imq, known>>
             /\ sdp' = sdp \/ sdp' = [sdp EXCEPT ![v] = "deleted"]
    <3>1. ImqFlow /\ SameReports BY <1>b, <2>6, ImqFlows, ReportsKept
    <3>2. \A u \in Users : Offered(u)' <=> Offered(u)
      BY <1>f, <2>1, <2>5, <2>6 DEF Offered, Announced, Pooled
    <3>3. \A u \in Users : u # v => sdp'[u] = sdp[u] BY <1>b, <2>6
    <3>4. ScanOrder'
      BY <1>t, <2>1, <2>2, <2>6, <3>2, <3>3
         DEF UserInv, ScanOrder, Exists, TypeOK, CreatorTypeOK
    <3>5. /\ \A u \in Users : sdp'[u] \in {"fresh", "enabled"} => sdp[u] = sdp'[u]
          /\ \A u \in Users : Offered(u) => sdp'[u] = sdp[u]
      BY <1>b, <2>2, <2>6
    <3>6. QED
      BY <1>t, <2>1, <2>3, <2>4, <2>5, <2>6, <3>1, <3>4, <3>5, NoOffer
  <2>7. CASE /\ v \in secret /\ UNCHANGED sdp /\ known' = known \cup {v}
             /\ imq' = Append(imq, FoundServiceUser(v, sdp[v] = "enabled"))
    <3>1. PICK m \in ManagerMsg :
              /\ imq' = Append(imq, m)
              /\ sdp[v] = "enabled" => m = ActiveReport(v)
              /\ sdp[v] # "enabled" => m = Report(v)
      <4>1. CASE sdp[v] = "enabled"
        <5>1. (sdp[v] = "enabled") = TRUE BY <4>1
        <5>2. imq' = Append(imq, FoundServiceUser(v, TRUE)) BY <2>7, <5>1, Zenon
        <5>3. QED BY <4>1, <5>2, ManagerMessages DEF ActiveReport
      <4>2. CASE sdp[v] # "enabled"
        <5>1. (sdp[v] = "enabled") = FALSE BY <4>2
        <5>2. imq' = Append(imq, FoundServiceUser(v, FALSE)) BY <2>7, <5>1, Zenon
        <5>3. QED BY <4>2, <5>2, ManagerMessages DEF Report
      <4>3. QED BY <4>1, <4>2
    <3>2. m.type = "FoundServiceUser" BY <3>1, ReportKinds
    <3>3. /\ \A n : InQueue(imq', n) <=> InQueue(imq, n) \/ m = n
          /\ \A n : Once(imq, n) /\ ~(m = n /\ InQueue(imq, n)) => Once(imq', n)
      BY <1>b, <3>1, ManagerAppend
    <3>4. ImqFlow BY <1>b, <3>1, <3>2, ImqFlows
    <3>5. \A s \in Services : InQueue(imq', RequestMsg(s)) => InQueue(imq, RequestMsg(s))
      <4>1. \A s : m # RequestMsg(s) BY <3>2 DEF RequestMsg
      <4>2. QED BY <3>3, <4>1
    <3>6. \A u : m = Report(u) => u = v BY <3>1, ReportKinds
    <3>7. /\ \A u \in Users : Announced(u)' => Announced(u) \/ (u = v /\ m = Report(u))
          /\ \A u \in Users : Announced(u) => Announced(u)'
          /\ \A u \in Users : Pooled(u)' <=> Pooled(u)
      BY <1>f, <2>1, <3>3, <3>6 DEF Announced, Pooled
    <3>8. \A u \in Users : Offered(u)' => Offered(u) \/ (u = v /\ m = Report(u))
      BY <2>5, <3>7 DEF Offered
    <3>9. SingleOffer'
      <4>1. \A u \in Users : Once(imq', Report(u)) /\ Once(pool', u)
        BY <1>f, <2>1, <2>2, <3>3, <3>6 DEF UserInv, SingleOffer, Offered, Announced
      <4>2. \A u \in Users : ~(Announced(u)' /\ Pooled(u)')
        BY <2>2, <3>7 DEF UserInv, SingleOffer, Offered
      <4>3. QED BY <2>5, <4>1, <4>2 DEF SingleOffer
    <3>10. ScanOrder'
      BY <2>1, <2>2, <2>7, <3>8 DEF UserInv, ScanOrder, Exists
    <3>11. \A u \in Users : sdp'[u] = "fresh" =>
               sdp[u] = "fresh" /\ ~Offered(u)' /\ u \notin scan'
      BY <2>1, <2>2, <2>7, <3>8 DEF UserInv, FreshUnknown, Exists
    <3>12. crashes = 0 => \A u \in Users :
               /\ Offered(u)' =>
                     /\ sdp'[u] = "disabled" /\ u \in secret'
                     /\ ~Doomed(u) /\ \A s \in Services : ~Held(s, u)
               /\ ~InQueue(imq', ActiveReport(u))
               /\ ~InQueue(ictodo', Notify(ActiveReport(u)))
      <4>1. SUFFICES ASSUME crashes = 0, NEW u \in Users
                     PROVE  /\ Offered(u)' =>
                               /\ sdp'[u] = "disabled" /\ u \in secret'
                               /\ ~Doomed(u) /\ \A s \in Services : ~Held(s, u)
                            /\ ~InQueue(imq', ActiveReport(u))
                            /\ ~InQueue(ictodo', Notify(ActiveReport(u)))
        OBVIOUS
      <4>2. /\ sdp[v] # "enabled" /\ ~Doomed(v)
            /\ \A s \in Services : ~Held(s, v)
        BY <2>1, <4>1, NotReady
      <4>3. m = Report(v) /\ sdp[v] = "disabled" BY <2>2, <3>1, <4>2 DEF Exists
      <4>4. ~InQueue(imq', ActiveReport(u)) /\ ~InQueue(ictodo', Notify(ActiveReport(u)))
        BY <2>1, <3>3, <4>1, <4>3, ReportKinds DEF UserInv, FirstProcess, Notify
      <4>5. QED BY <2>1, <2>7, <3>8, <4>1, <4>2, <4>3, <4>4 DEF UserInv, FirstProcess
    <3>13. OffersReconciled'
      <4>1. ~released' /\ \A s : ToReconcile(s)'
        BY <1>f, <2>1, NotReady DEF ToReconcile
      <4>2. QED BY <2>1, <2>5, <4>1 DEF OffersReconciled
    <3>14. QED
      BY <1>t, <2>1, <2>3, <2>4, <2>7, <3>4, <3>5, <3>9, <3>10, <3>11, <3>12, <3>13,
         CreatorKept
  <2>8. QED BY <2>1, <2>6, <2>7
<1>5. QED BY <1>1, <1>2, <1>3, <1>4

\* The pending steps of the creator: an offer or an activation reaches the
\* channel, or the Secret of a service is written.
LEMMA StepUsers ==
    ASSUME ReconcileInv, UserInv, CreatorNotify \/ CreatorSecrets
    PROVE  UserInv'
<1>t. TypeOK BY DEF ReconcileInv
<1>b. /\ imq \in Seq(ManagerMsg) /\ icq \in Seq(CreatorMsg)
      /\ ictodo \in Seq(CreatorStep)
  BY <1>t, CreatorBasics
<1>1. PICK x \in CreatorStep :
          /\ ictodo # <<>> /\ x = Head(ictodo) /\ ictodo' = Tail(ictodo)
          /\ CreatorFrame /\ (CallSucceeds \/ CallFails)
          /\ UNCHANGED <<secret, sdp, icq, icphase, scan, known>>
          /\ \/ x.op = "secrets" /\ imq' = imq
             \/ x.op = "notify" /\ imq' = Append(imq, x.m) /\ CallSucceeds
  BY <1>b DEF CreatorNotify, CreatorSecrets, SendToManager, CallSucceeds, scanVars
<1>2. UNCHANGED <<crd, released, imphase, services, pool, existing, missing,
                  activated, deactivated, todo, stage, batch, crashes>>
  BY <1>1 DEF CreatorFrame, managerVars, startupVars, stageVars, envVars
<1>3. \A y : InQueue(ictodo, y) <=> x = y \/ InQueue(ictodo', y)
  BY <1>b, <1>1, TailFacts
<1>4. IcqFlow /\ StepFlow
      /\ \A u \in Users : InQueue(icq', DeleteOnly(u)) => InQueue(icq, DeleteOnly(u))
  BY <1>b, <1>1, IcqFlows, StepFlows
<1>5. failures' = 0 => failures = 0 BY <1>t, <1>1, CallCounted
<1>6. icphase \notin {"wait", "scan"}
  BY <1>1 DEF UserInv, ScanOrder
<1>7. ASSUME NEW u \in Users, Notifying(u)
      PROVE  x = Notify(Report(u)) /\ ictodo' = <<>>
  <2>1. ictodo = NotifyFree(u) BY <1>7 DEF UserInv, SingleOffer
  <2>2. ictodo = <<Notify(Report(u))>> BY <2>1 DEF NotifyFree, Notify, Report
  <2>3. QED BY <1>1, <2>2
<1>8. \A u \in Users : ~Notifying(u)'
  BY <1>3, <1>7, OneSend DEF Notifying
<1>9. CASE x.op = "secrets" /\ imq' = imq
  <2>1. \A m : x # Notify(m) BY <1>9, WrapKinds
  <2>2. \A u \in Users : ~Notifying(u) BY <1>7, <2>1
  <2>3. ImqFlow /\ SameReports BY <1>b, <1>9, ImqFlows, ReportsKept
  <2>4. ScanOrder' BY <1>1, <1>6 DEF UserInv, ScanOrder, Exists
  <2>5. QED
    BY <1>t, <1>1, <1>3, <1>4, <1>5, <1>8, <1>9, <2>2, <2>3, <2>4, NoOffer
<1>10. CASE x.op = "notify" /\ imq' = Append(imq, x.m) /\ CallSucceeds
  <2>1. PICK m : m = x.m /\ x = Notify(m) /\ m \in ManagerMsg
                 /\ m \in FoundUserMsg \cup ActivatedMsg
    <3>1. x = Notify(x.m) BY <1>10 DEF CreatorStep, Notify
    <3>2. QED BY <1>10, <3>1, PendingSteps
  <2>2. imq' = Append(imq, m) /\ InQueue(ictodo, Notify(m))
    BY <1>3, <1>10, <2>1
  <2>3. m.type \in {"FoundServiceUser", "ActivatedServiceUser"} BY <2>1, OtherKinds
  <2>4. /\ \A n : InQueue(imq', n) <=> InQueue(imq, n) \/ m = n
        /\ \A n : Once(imq, n) /\ ~(m = n /\ InQueue(imq, n)) => Once(imq', n)
        /\ \A K, n : Ahead(imq, K, n) => Ahead(imq', K, n)
    BY <1>b, <2>1, <2>2, ManagerAppend
  <2>5. ImqFlow
    <3>1. \A s, u : InQueue(imq', Removal(s, u)) => InQueue(imq, Removal(s, u))
      <4>1. \A s, u : m # Removal(s, u) BY <2>3, TokenKinds
      <4>2. QED BY <2>4, <4>1
    <3>2. \A s, u : InQueue(imq', Activation(s, u)) =>
              \/ InQueue(imq, Activation(s, u))
              \/ InQueue(ictodo, Notify(Activation(s, u)))
      BY <2>2, <2>4
    <3>3. QED BY <3>1, <3>2 DEF ImqFlow, Activating, Doomed, Notify
  <2>6. \A s \in Services : InQueue(imq', RequestMsg(s)) => InQueue(imq, RequestMsg(s))
    <3>1. \A s : m # RequestMsg(s) BY <2>3 DEF RequestMsg
    <3>2. QED BY <2>4, <3>1
  <2>7. \A u \in Users : Notifying(u) <=> m = Report(u)
    <3>1. \A u \in Users : m = Report(u) => Notifying(u)
      BY <2>2 DEF Notifying, Notify
    <3>2. \A u \in Users : Notifying(u) => m = Report(u)
      BY <1>7, <2>1, WrapKinds
    <3>3. QED BY <3>1, <3>2
  <2>8. /\ \A u \in Users : Announced(u)' <=> Announced(u) \/ Notifying(u)
        /\ \A u \in Users : Pooled(u)' <=> Pooled(u)
        /\ \A u \in Users : Offered(u)' <=> Offered(u)
    BY <1>2, <1>8, <2>4, <2>7 DEF Announced, Pooled, Offered
  <2>9. SingleOffer'
    <3>1. \A u \in Users : Once(imq', Report(u)) /\ Once(pool', u)
      BY <1>2, <2>4, <2>7 DEF UserInv, SingleOffer, Announced
    <3>2. \A u \in Users : ~(Announced(u)' /\ Pooled(u)')
      BY <2>8 DEF UserInv, SingleOffer
    <3>3. QED BY <1>8, <3>1, <3>2 DEF SingleOffer
  <2>10. ScanOrder' BY <1>1, <1>6 DEF UserInv, ScanOrder, Exists
  <2>11. \A u \in Users : sdp'[u] = "fresh" =>
             sdp[u] = "fresh" /\ ~Offered(u)' /\ u \notin scan'
    BY <1>1, <2>8 DEF UserInv, FreshUnknown
  <2>12. crashes = 0 => \A u \in Users :
             /\ Offered(u)' =>
                   /\ sdp'[u] = "disabled" /\ u \in secret'
                   /\ ~Doomed(u) /\ \A s \in Services : ~Held(s, u)
             /\ ~InQueue(imq', ActiveReport(u))
             /\ ~InQueue(ictodo', Notify(ActiveReport(u)))
    BY <1>1, <1>3, <2>2, <2>4, <2>8 DEF UserInv, FirstProcess, Notify
  <2>13. ASSUME failures' = 0 PROVE OffersReconciled'
    <3>1. OffersReconciled BY <1>5, <2>13 DEF UserInv
    <3>2. SendFlow /\ StoreFlow
      BY <1>2, <1>t, SendFlows DEF TypeOK, ManagerTypeOK, StoreFlow, Held
    <3>3. NoNewHeld BY <1>4, <2>5, <3>2, FlowKeeps
    <3>4. QED
      BY <1>1, <1>2, <1>8, <2>4, <2>8, <3>1, <3>3
         DEF OffersReconciled, NoNewHeld, ToReconcile
  <2>14. QED
    BY <1>t, <1>1, <1>4, <1>5, <2>5, <2>6, <2>9, <2>10, <2>11, <2>12, <2>13, CreatorKept
<1>11. QED BY <1>1, <1>9, <1>10

-----------------------------------------------------------------------------
(***************************************************************************)
(* Restarts, and the theorems.                                             *)
(***************************************************************************)
\* A first installation.
LEMMA UserInvInit == Init => UserInv
<1> SUFFICES ASSUME Init PROVE UserInv
  OBVIOUS
<1>1. /\ imq = <<>> /\ icq = <<>> /\ ictodo = <<>> /\ todo = <<>> /\ pool = <<>>
      /\ icphase = "wait" /\ scan = {} /\ activated = {} /\ stage = "none"
      /\ imphase = "init" /\ services = [s \in Services |-> NoUser]
      /\ crd = [s \in Services |-> NoUser] /\ sdp = [u \in Users |-> "fresh"]
  BY DEF Init, ProcessInit
<1>2. \A u \in Users : ~Offered(u) /\ ~Notifying(u) /\ ~Announced(u) /\ ~Pooled(u)
  BY <1>1, OneSend DEF Offered, Announced, Notifying, Pooled
<1>3. \A u \in Users : ~Doomed(u) BY <1>1, OneSend DEF Doomed
<1>4. \A s \in Services, u \in Users : ~Activating(s, u)
  BY <1>1, OneSend DEF Activating
<1>5. \A s \in Services, u \in Users : ~Held(s, u)
  BY <1>1, <1>4, ConstantsAssumption DEF Held
<1>6. SingleOffer BY <1>1, <1>2 DEF SingleOffer, Once
<1>7. ScanOrder /\ FreshUnknown /\ PoolRecorded
  BY <1>1, <1>2, <1>3, <1>5 DEF ScanOrder, FreshUnknown, PoolRecorded
<1>8. Unrequested BY <1>1, <1>4, OneSend DEF Unrequested
<1>9. FirstProcess
  BY <1>1, <1>2, <1>3, <1>5, OneSend DEF FirstProcess
<1>10. OffersReconciled /\ SingleHolder
  BY <1>2, <1>5 DEF OffersReconciled, SingleHolder
<1>11. QED BY <1>6, <1>7, <1>8, <1>9, <1>10 DEF UserInv

\* A process that has just been restarted offers nothing, and only the objects
\* hold users.
LEMMA RestartUsers ==
    ASSUME UserInv, Restart, crd' = crd,
           \A u \in Users : sdp'[u] = "fresh" => sdp[u] = "fresh",
           crashes' = 0 => \A u \in Users :
               sdp'[u] # "enabled" /\ \A s \in Services : ~Held(s, u),
           crashes' = 0 \/ failures' = 0 => crashes = 0 \/ failures = 0
    PROVE  UserInv'
<1>1. /\ imq' = <<>> /\ icq' = <<>> /\ ictodo' = <<>> /\ todo' = <<>> /\ pool' = <<>>
      /\ icphase' = "wait" /\ scan' = {} /\ activated' = {} /\ stage' = "none"
      /\ imphase' = "init" /\ services' = [s \in Services |-> NoUser]
  BY DEF Restart
<1>2. \A u \in Users : ~Offered(u)' /\ ~Notifying(u)' /\ ~Announced(u)' /\ ~Pooled(u)'
  BY <1>1, OneSend DEF Offered, Announced, Notifying, Pooled
<1>3. \A u \in Users : ~Doomed(u)' BY <1>1, OneSend DEF Doomed
<1>4. \A s \in Services, u \in Users : ~Activating(s, u)'
  BY <1>1, OneSend DEF Activating
<1>5. \A s \in Services, u \in Users : Held(s, u)' => Held(s, u)
  BY <1>1, <1>4, ConstantsAssumption DEF Held
<1>6. SingleOffer' BY <1>1, <1>2 DEF SingleOffer, Once
<1>7. ScanOrder' /\ PoolRecorded'
  BY <1>1, <1>2 DEF ScanOrder, PoolRecorded
<1>8. FreshUnknown'
  BY <1>1, <1>2, <1>3, <1>5 DEF UserInv, FreshUnknown
<1>9. Unrequested' BY <1>1, <1>4, OneSend DEF Unrequested
<1>10. crashes' = 0 => FirstProcess'
  BY <1>1, <1>2, <1>3, <1>5, OneSend DEF FirstProcess
<1>11. OffersReconciled' BY <1>2 DEF OffersReconciled
<1>12. crashes' = 0 \/ failures' = 0 => SingleHolder'
  BY <1>5 DEF UserInv, SingleHolder
<1>13. QED BY <1>6, <1>7, <1>8, <1>9, <1>10, <1>11, <1>12 DEF UserInv

\* Every step keeps UserInv.
LEMMA UserInvStep == ReconcileInv /\ UserInv /\ [Next]_vars => UserInv'
<1> SUFFICES ASSUME ReconcileInv, UserInv, [Next]_vars PROVE UserInv'
  OBVIOUS
<1>t. /\ TypeOK /\ crashes \in Nat /\ failures \in Nat
      /\ sdp \in [Users -> {"fresh", "disabled", "enabled", "deleted"}]
  BY ConstantsAssumption DEF ReconcileInv, TypeOK, BoundsTypeOK, StoresTypeOK
<1>1. CASE \E w \in Watchers : WatcherNext(w)
  BY <1>1, WatcherUsers
<1>2. CASE ManagerNext
  BY <1>2, ManagerUsers
<1>3. CASE CreatorNext
  BY <1>3, CreatorHandlerUsers, CreateUsers, InitializeUsers, StepUsers
     DEF CreatorNext
<1>4. CASE Crash
  BY <1>4, <1>t, RestartUsers DEF Crash, apiVars
<1>5. CASE CreatorFillPanics
  <2>1. /\ icphase = "fill" /\ Restart /\ CreateUserFails
        /\ UNCHANGED <<crd, crashes>>
    BY <1>5 DEF CreatorFillPanics
  <2>2. failures' # 0 BY <1>t, <2>1 DEF CreateUserFails, CallFails
  <2>3. \A u \in Users : sdp'[u] \in {"fresh", "enabled"} => sdp[u] = sdp'[u]
    <3>1. PICK n : sdp' = sdp \/ (n \in Users /\ sdp' = [sdp EXCEPT ![n] = "disabled"])
      BY <2>1 DEF CreateUserFails, NoUserCreated, PasswordNotSaved, HasFresh, NewUser
    <3>2. QED BY <1>t, <3>1
  <2>4. crashes' = 0 => \A u \in Users :
            sdp'[u] # "enabled" /\ \A s \in Services : ~Held(s, u)
    BY <2>1, <2>3, NotReady
  <2>5. QED BY <2>1, <2>2, <2>3, <2>4, RestartUsers
<1>6. CASE EnvironmentNext /\ ~Crash /\ ~CreatorFillPanics
  BY <1>6, <1>t, ClusterUsers DEF EnvironmentNext
<1>7. CASE UNCHANGED vars
  BY <1>7, <1>t, OutsideKept DEF vars, apiVars, envVars
<1>8. QED BY <1>1, <1>2, <1>3, <1>4, <1>5, <1>6, <1>7 DEF Next, EnvironmentNext

\* The invariant, of every behaviour: a user is offered to the pool at most
\* once and held by a single service, whatever the interleaving of the
\* watchers, the manager and the creator.
THEOREM UserInvariant == Spec => []UserInv
<1>1. Init => ReconcileInv /\ UserInv
  BY ReconcileInvInit, UserInvInit
<1>2. (ReconcileInv /\ UserInv) /\ [Next]_vars => (ReconcileInv /\ UserInv)'
  BY ReconcileInvStep, UserInvStep
<1>3. QED BY <1>1, <1>2, PTL DEF Spec

\* In a process that has not been restarted by force, every user in the pool of
\* the Identity Manager exists, is disabled, has its password in the global
\* Secret, is there once and belongs to nobody; calls may fail.
THEOREM PoolIsFreeAlways == Spec => [](crashes = 0 => PoolIsFree)
<1>1. ReconcileInv /\ UserInv => (crashes = 0 => PoolIsFree)
  <2> SUFFICES ASSUME ReconcileInv, UserInv, crashes = 0, NEW i \in 1..Len(pool)
               PROVE  /\ sdp[pool[i]] = "disabled"
                      /\ pool[i] \in secret
                      /\ \A s \in Services : services[s] # pool[i] /\ crd[s] # pool[i]
                      /\ \A j \in 1..Len(pool) : pool[i] = pool[j] => i = j
    BY DEF PoolIsFree
  <2>1. pool[i] \in Users
    BY DEF ReconcileInv, TypeOK, ManagerTypeOK
  <2>2. Offered(pool[i]) BY DEF Offered, Pooled, InQueue
  <2>3. \A j \in 1..Len(pool) : pool[i] = pool[j] => i = j
    BY <2>1 DEF UserInv, SingleOffer, Once
  <2>4. QED BY <2>1, <2>2, <2>3 DEF UserInv, FirstProcess, Held
<1>2. QED BY <1>1, UserInvariant, ReconcileInvariant, PTL

\* No two ServiceIdentity objects hold the same user, unless the process was
\* restarted by force and a call to Kubernetes or the controller failed too.
THEOREM NoSharedUserAlways ==
    Spec => [](crashes = 0 \/ failures = 0 => NoSharedUser)
<1>1. ReconcileInv /\ UserInv => (crashes = 0 \/ failures = 0 => NoSharedUser)
  <2> SUFFICES ASSUME ReconcileInv, UserInv, crashes = 0 \/ failures = 0,
                      NEW s \in Services, NEW t \in Services, s # t,
                      crd[s] # NoUser
               PROVE  crd[s] # crd[t]
    BY DEF NoSharedUser
  <2>1. crd[s] \in Users
    BY DEF ReconcileInv, TypeOK, StoresTypeOK, MaybeUser
  <2>2. QED BY <2>1 DEF UserInv, SingleHolder, Held
<1>2. QED BY <1>1, UserInvariant, ReconcileInvariant, PTL

-----------------------------------------------------------------------------
(***************************************************************************)
(* The Identity Service implements UserLifecycle as long as it is not      *)
(* restarted by force.  Most steps are quiet: they touch no user.          *)
(***************************************************************************)
\* The messages to the creator that name no user to enable or to delete.
Plain == {"StartService", "CreateIdentity", "ReconcileSDPUsers", "ReleaseDeviceId"}

ImqQuiet ==
    \/ imq' = imq
    \/ imq # <<>> /\ imq' = Tail(imq) /\ Head(imq) \in Harmless
    \/ \E m \in Harmless : imq' = Append(imq, m)
IcqQuiet ==
    \/ icq' = icq
    \/ icq # <<>> /\ icq' = Tail(icq) /\ Head(icq).type \in Plain
    \/ \E m \in CreatorMsg : icq' = Append(icq, m) /\ m.type \in Plain
TodoQuiet ==
    \/ todo' = todo
    \/ /\ todo = <<>>
       /\ \/ todo' = SelfReady
          \/ \E u : todo' = <<ToCreator([type |-> "ReleaseDeviceId", u |-> u])>>
          \/ \E t \in Services :
                /\ services[t] # NoUser
                /\ todo' = <<ToManager(Removal(t, services[t]))>>

Quiet ==
    /\ UNCHANGED <<svcSecret, sdp, pool, ictodo, icphase>>
    /\ \A t \in Services :
          /\ services'[t] \in {services[t], crd[t]}
          /\ crd'[t] = crd[t] \/ (imphase = "run" /\ crd'[t] = services[t])
    /\ ImqQuiet /\ IcqQuiet /\ TodoQuiet

\* The watchers, the cluster and the pods.
LEMMA OutsideQuiet ==
    ASSUME TypeOK,
           \/ \E w \in Watchers : WatcherNext(w)
           \/ EnvironmentNext /\ ~Crash /\ ~CreatorFillPanics
           \/ UNCHANGED vars
    PROVE  Quiet
<1> USE DEF ImqQuiet, IcqQuiet, TodoQuiet
<1>o. ASSUME UNCHANGED <<crd, svcSecret, sdp, icq, managerVars, creatorVars>>, ImqQuiet
      PROVE  Quiet
  BY <1>o DEF Quiet, managerVars, creatorVars
<1>w. ASSUME WatcherFrame, ImqQuiet PROVE Quiet
  BY <1>w, <1>o DEF WatcherFrame, apiVars
<1>1. ASSUME NEW w \in Watchers, WatcherNext(w) PROVE Quiet
  <2>1. CASE WatcherList(w) \/ WatcherStart(w) \/ WatcherRelist(w)
    BY <2>1, <1>w DEF WatcherList, WatcherStart, WatcherRelist
  <2>2. CASE WatcherNotify(w)
    BY <2>2, <1>w, WatcherMessages DEF WatcherNotify, SendToManager
  <2>3. ASSUME NEW s \in Services, WatcherInitialized(w, s) PROVE Quiet
    BY <2>3, <1>w, WatcherMessages DEF WatcherInitialized, SendToManager
  <2>4. ASSUME NEW s \in Services, WatcherApply(w, s) PROVE Quiet
    <3> DEFINE m == [type |-> "RequestServiceIdentity", s |-> s]
    <3>1. m \in Harmless BY WatcherMessages
    <3>2. WatcherFrame /\ (imq' = imq \/ imq' = Append(imq, m))
      BY <2>4 DEF WatcherApply, WatcherEvent, SendToManager
    <3> HIDE DEF m
    <3>3. QED BY <1>w, <3>1, <3>2
  <2>5. ASSUME NEW s \in Services, WatcherDelete(w, s) PROVE Quiet
    <3> DEFINE m == [type |-> "DeletedServiceCandidate", s |-> s]
    <3>1. m \in Harmless BY WatcherMessages
    <3>2. WatcherFrame /\ (imq' = imq \/ imq' = Append(imq, m))
      BY <2>5 DEF WatcherDelete, WatcherEvent, SendToManager
    <3> HIDE DEF m
    <3>3. QED BY <1>w, <3>1, <3>2
  <2>6. QED BY <1>1, <2>1, <2>2, <2>3, <2>4, <2>5 DEF WatcherNext
<1>2. ASSUME NEW o \in Objects, ApplyObject(o[1], o[2]) \/ DeleteObject(o[1], o[2])
      PROVE  Quiet
  BY <1>2, <1>o DEF ApplyObject, DeleteObject, apiVars
<1>3. ASSUME NEW s \in Services, FlipLabel(s) PROVE Quiet
  BY <1>3, <1>o DEF FlipLabel, apiVars
<1>4. ASSUME NEW s \in Services, PodWatcherRelease(s) PROVE Quiet
  <2> DEFINE m == [type |-> "ReleaseDeviceId", s |-> s]
  <2>1. m \in Harmless BY WatcherMessages
  <2>2. imq' = Append(imq, m) BY <1>4 DEF PodWatcherRelease, SendToManager
  <2> HIDE DEF m
  <2>3. QED BY <1>4, <1>o, <2>1, <2>2 DEF PodWatcherRelease, apiVars
<1>5. CASE UNCHANGED vars
  BY <1>5, <1>o DEF vars, apiVars
<1>6. QED BY <1>1, <1>2, <1>3, <1>4, <1>5 DEF EnvironmentNext

\* The steps of the manager that touch no user.  In the first process no active
\* user is found.
LEMMA ManagerQuiet ==
    ASSUME ReconcileInv, UserInv, crashes = 0,
           \/ ManagerInitialize
           \/ identity_creator_ready
           \/ \E w \in Watchers : deployment_watcher_ready(w)
           \/ \E s \in Services :
                 \/ found_service_candidate(s) \/ deleted_service_candidate(s)
                 \/ release_device_id(s)
           \/ ReconcileStart \/ ReconcileExtraDone \/ ReconcileUsersDone
           \/ ReconcileStaleDone \/ ReconcileDone
           \/ \E u \in Users : ReconcileUser(u)
    PROVE  Quiet
<1> USE DEF ImqQuiet, IcqQuiet, TodoQuiet
<1>t. /\ services \in [Services -> MaybeUser] /\ crd \in [Services -> MaybeUser]
  BY DEF ReconcileInv, TypeOK, ManagerTypeOK, StoresTypeOK
<1>o. ASSUME ManagerFrame, pool' = pool,
             \A t \in Services :
                /\ services'[t] \in {services[t], crd[t]}
                /\ crd'[t] = crd[t] \/ (imphase = "run" /\ crd'[t] = services[t]),
             ImqQuiet, IcqQuiet, TodoQuiet
      PROVE  Quiet
  BY <1>o DEF Quiet, ManagerFrame, creatorVars
<1>r. ASSUME NEW m \in Harmless, Receive(m)
      PROVE  ImqQuiet /\ todo = <<>> /\ imphase = "run"
  BY <1>r DEF Receive, Idle
<1>m. IdentityCreatorReady \in Harmless /\ IdentityManagerReady \in Harmless
  BY ManagerMessages, Kinds DEF Harmless
<1>1. CASE ManagerInitialize
  <2> DEFINE m == [type |-> "StartService"]
  <2>1. m \in CreatorMsg /\ m.type \in Plain BY CreatorMessages DEF Plain
  <2>2. /\ services' = crd /\ icq' = Append(icq, m) /\ ManagerFrame
        /\ UNCHANGED <<crd, imq, pool, todo>>
    BY <1>1 DEF ManagerInitialize, SendToCreator
  <2> HIDE DEF m
  <2>3. QED BY <1>o, <2>1, <2>2
<1>2. CASE identity_creator_ready
  BY <1>2, <1>m, <1>o, <1>r DEF identity_creator_ready, ReadyIf
<1>3. ASSUME NEW w \in Watchers, deployment_watcher_ready(w) PROVE Quiet
  BY <1>3, <1>o, <1>r, WatcherMessages DEF deployment_watcher_ready, ReadyIf
<1>4. ASSUME NEW s \in Services, found_service_candidate(s) PROVE Quiet
  BY <1>4, <1>o, <1>r, WatcherMessages DEF found_service_candidate
<1>5. ASSUME NEW s \in Services, deleted_service_candidate(s) PROVE Quiet
  <2> DEFINE m == [type |-> "DeletedServiceCandidate", s |-> s]
  <2>1. m \in Harmless BY WatcherMessages
  <2>2. /\ Receive(m) /\ ManagerFrame /\ todo' = DeletionOf(s)
        /\ UNCHANGED <<crd, services, pool, icq>>
    BY <1>5 DEF deleted_service_candidate
  <2> HIDE DEF m
  <2>3. ImqQuiet /\ todo = <<>> BY <1>r, <2>1, <2>2
  <2>4. TodoQuiet BY <2>2, <2>3 DEF DeletionOf, Registered, Removal
  <2>5. QED BY <1>o, <2>2, <2>3, <2>4
<1>6. ASSUME NEW s \in Services, release_device_id(s) PROVE Quiet
  <2> DEFINE m == [type |-> "ReleaseDeviceId", s |-> s]
  <2>1. m \in Harmless BY WatcherMessages
  <2>2. /\ Receive(m) /\ ManagerFrame
        /\ UNCHANGED <<services, pool, icq>>
        /\ crd' = crd \/ crd' = [crd EXCEPT ![s] = services[s]]
        /\ \/ todo' = todo
           \/ \E u : todo' = <<ToCreator([type |-> "ReleaseDeviceId", u |-> u])>>
    BY <1>6 DEF release_device_id
  <2> HIDE DEF m
  <2>3. ImqQuiet /\ todo = <<>> /\ imphase = "run" BY <1>r, <2>1, <2>2
  <2>4. QED BY <1>o, <1>t, <2>2, <2>3
<1>7. CASE ReconcileStart
  BY <1>7, <1>m, <1>o, <1>r DEF ReconcileStart
<1>8. CASE ReconcileExtraDone \/ ReconcileUsersDone \/ ReconcileDone
  BY <1>8, <1>o DEF ReconcileExtraDone, ReconcileUsersDone, ReconcileDone
<1>9. CASE ReconcileStaleDone
  <2> DEFINE m == [type |-> "ReconcileSDPUsers"]
  <2>1. m \in CreatorMsg /\ m.type \in Plain BY CreatorMessages DEF Plain
  <2>2. /\ icq' = Append(icq, m) /\ ManagerFrame
        /\ UNCHANGED <<crd, services, imq, pool, todo>>
    BY <1>9 DEF ReconcileStaleDone, SendToCreator
  <2> HIDE DEF m
  <2>3. QED BY <1>o, <2>1, <2>2
<1>10. ~ \E u \in Users : ReconcileUser(u)
  BY DEF ReconcileUser, InStage, UserInv, FirstProcess
<1>11. QED
  BY <1>1, <1>2, <1>3, <1>4, <1>5, <1>6, <1>7, <1>8, <1>9, <1>10

\* The service s is registered with the user u in this step.
Gets(s, u) == services[s] = NoUser /\ services'[s] = u

\* What a step may do to a user: a service without user gets it, only while it is
\* on offer and the start-up is over, it is offered when it is new, and it is
\* enabled while a service has it.
UserMove(u) ==
    /\ \A s \in Services : Held(s, u)' =>
          Held(s, u) \/ (Offered(u) /\ icphase = "run" /\ Gets(s, u))
    /\ Offered(u)' => Offered(u) \/ sdp[u] = "fresh" \/ icphase # "run"
    /\ Offered(u) =>
          Offered(u)' \/ icphase # "run" \/ \E s \in Services : Held(s, u)'
    /\ \/ sdp'[u] = sdp[u]
       \/ sdp[u] = "fresh" /\ sdp'[u] = "disabled"
       \/ /\ sdp[u] = "disabled" /\ sdp'[u] = "enabled"
          /\ \E s \in Services : Held(s, u) /\ Held(s, u)'
       \/ sdp[u] \in {"disabled", "enabled"} /\ sdp'[u] = "deleted" /\ ~Offered(u)

UserMoves == \A u \in Users : UserMove(u)

\* A step that neither offers a user nor changes one in the controller.
LEMMA NoMove ==
    ASSUME ImqFlow, IcqFlow, StepFlow, SendFlow, StoreFlow, sdp' = sdp,
           icphase = "run" => \A u \in Users : Offered(u)' <=> Offered(u)
    PROVE  UserMoves
BY FlowKeeps DEF UserMoves, UserMove, NoNewHeld

\* A quiet step sends nothing that gives a user to a service.
LEMMA QuietFlows ==
    ASSUME TypeOK, Quiet
    PROVE  /\ ImqFlow /\ IcqFlow /\ StepFlow /\ SendFlow /\ StoreFlow /\ SameReports
           /\ \A u \in Users : Offered(u)' <=> Offered(u)
<1>t. /\ todo \in Seq(ManagerSend) /\ imq \in Seq(ManagerMsg)
      /\ icq \in Seq(CreatorMsg) /\ ictodo \in Seq(CreatorStep)
  BY DEF TypeOK, ManagerTypeOK, ChannelsTypeOK, CreatorTypeOK
<1>1. SameReports /\ ImqFlow
  BY <1>t, ReportsKept, ImqFlows DEF Quiet, ImqQuiet, Harmless
<1>2. IcqFlow BY <1>t, IcqFlows DEF Quiet, IcqQuiet, Plain
<1>3. StepFlow BY <1>t, StepFlows DEF Quiet
<1>4. StoreFlow BY DEF Quiet, StoreFlow, Held
<1>5. SendFlow
  <2>1. CASE \/ todo' = todo \/ todo' = SelfReady
             \/ \E u : todo' = <<ToCreator([type |-> "ReleaseDeviceId", u |-> u])>>
    BY <1>t, <2>1, SendFlows
  <2>2. ASSUME NEW t \in Services, todo' = <<ToManager(Removal(t, services[t]))>>
        PROVE  SendFlow
    <3>1. ASSUME NEW s \in Services, NEW u \in Users
          PROVE  /\ ~InQueue(todo', ToCreator(Activate(s, u)))
                 /\ ~InQueue(todo', ToCreator(Deletion(s, u)))
                 /\ InQueue(todo', ToManager(Removal(s, u))) => services[t] = u
      BY <2>2, OneSend, WrapKinds, TokenKinds
    <3>2. QED BY <3>1 DEF SendFlow, Held
  <2>3. QED BY <2>1, <2>2 DEF Quiet, TodoQuiet
<1>6. \A u \in Users : Offered(u)' <=> Offered(u)
  BY <1>1 DEF Quiet, Offered, Pooled, Notifying, SameReports
<1>7. QED BY <1>1, <1>2, <1>3, <1>4, <1>5, <1>6

\* The manager: only next_identity gives a user to a service.
LEMMA ManagerMoves ==
    ASSUME ReconcileInv, UserInv, crashes = 0, ManagerNext
    PROVE  UserMoves
<1>t. /\ TypeOK /\ todo \in Seq(ManagerSend) /\ imq \in Seq(ManagerMsg)
      /\ icq \in Seq(CreatorMsg) /\ ictodo \in Seq(CreatorStep)
      /\ pool \in Seq(Users)
      /\ services \in [Services -> MaybeUser] /\ crd \in [Services -> MaybeUser]
  BY DEF ReconcileInv, TypeOK, ManagerTypeOK, ChannelsTypeOK, CreatorTypeOK,
         StoresTypeOK
<1>f. ASSUME ManagerFrame PROVE UNCHANGED <<sdp, ictodo, icphase>> /\ StepFlow
  BY <1>f, <1>t, StepFlows DEF ManagerFrame, creatorVars
<1>q. ASSUME Quiet PROVE UserMoves
  BY <1>q, <1>t, QuietFlows, NoMove DEF Quiet
<1>1. CASE ManagerSendNext
  <2>1. ManagerFrame /\ pool' = pool BY <1>1 DEF ManagerSendNext
  <2>2. \A u \in Users : Offered(u)' <=> Offered(u)
    BY <1>1, <1>f, <1>t, <2>1, SendNextFlows
       DEF Offered, Pooled, Notifying, SameReports
  <2>3. QED BY <1>1, <1>f, <1>t, <2>1, <2>2, SendNextFlows, NoMove
<1>2. ASSUME NEW s \in Services, NEW u \in Users, DeleteIdentity(s, u),
             ManagerFrame, todo = <<>>, UNCHANGED <<pool, icq>>,
             \/ imq' = imq
             \/ imq # <<>> /\ imq' = Tail(imq) /\ Head(imq).type # "FoundServiceUser",
             Doomed(u) \/ Held(s, u)
      PROVE  UserMoves
  <2>1. /\ \/ UNCHANGED <<crd, services, todo>>
           \/ /\ crd' = [crd EXCEPT ![s] = NoUser]
              /\ services' = [services EXCEPT ![s] = NoUser]
              /\ todo' = <<ToCreator(Deletion(s, u))>>
    BY <1>2 DEF DeleteIdentity, Deletion
  <2>2. SameReports /\ ImqFlow /\ IcqFlow
    BY <1>2, <1>t, ReportsKept, ImqFlows, IcqFlows
  <2>3. SendFlow
    <3>1. CASE todo' = todo BY <1>t, <3>1, SendFlows
    <3>2. CASE todo' = <<ToCreator(Deletion(s, u))>>
      <4>1. ASSUME NEW t \in Services, NEW v \in Users
            PROVE  /\ ~InQueue(todo', ToCreator(Activate(t, v)))
                   /\ ~InQueue(todo', ToManager(Removal(t, v)))
                   /\ InQueue(todo', ToCreator(Deletion(t, v))) => v = u
        BY <3>2, OneSend, WrapKinds, TokenKinds
      <4>2. QED BY <1>2, <4>1 DEF SendFlow
    <3>3. QED BY <2>1, <3>1, <3>2
  <2>4. StoreFlow BY <1>t, <2>1, ConstantsAssumption DEF StoreFlow, Held
  <2>5. \A v \in Users : Offered(v)' <=> Offered(v)
    BY <1>2, <1>f, <2>2 DEF Offered, Pooled, Notifying, SameReports
  <2>6. QED BY <1>2, <1>f, <2>2, <2>3, <2>4, <2>5, NoMove
<1>3. ASSUME NEW s \in Services, NEW u \in Users, delete_service_identity(s, u)
      PROVE  UserMoves
  <2>1. /\ imq # <<>> /\ Head(imq) = Removal(s, u) /\ imq' = Tail(imq)
        /\ todo = <<>> /\ DeleteIdentity(s, u) /\ ManagerFrame
        /\ UNCHANGED <<pool, icq>>
    BY <1>3 DEF delete_service_identity, Receive, Idle, Removal
  <2>2. Doomed(u) BY <1>t, <2>1, ManagerTail DEF Doomed
  <2>3. Head(imq).type # "FoundServiceUser" BY <2>1, TokenKinds
  <2>4. QED BY <1>2, <2>1, <2>2, <2>3
<1>4. ASSUME NEW s \in Services, ReconcileDelete(s) PROVE UserMoves
  <2>1. /\ s \in batch /\ stage \in {"extra", "stale"} /\ todo = <<>>
        /\ DeleteIdentity(s, services[s]) /\ ManagerFrame
        /\ UNCHANGED <<pool, icq, imq>>
    BY <1>4 DEF ReconcileDelete, InStage
  <2>2. services[s] \in Users
    BY <1>t, <2>1 DEF TypeOK, ManagerTypeOK, BatchTypeOK
  <2>3. Held(s, services[s]) BY DEF Held
  <2>4. QED BY <1>2, <2>1, <2>2, <2>3
<1>5. ASSUME NEW s \in Services, NEW u \in Users, activated_service_user(s, u)
      PROVE  UserMoves
  <2>1. /\ imq # <<>> /\ Head(imq) = Activation(s, u) /\ imq' = Tail(imq)
        /\ ManagerFrame /\ UNCHANGED <<pool, icq, todo>>
        /\ services' = services \/ services' = [services EXCEPT ![s] = u]
        /\ crd' = crd \/ crd' = [crd EXCEPT ![s] = u]
    BY <1>5 DEF activated_service_user, UpdateIdentity, Receive, Idle, Activation
  <2>2. Activating(s, u) BY <1>t, <2>1, ManagerTail DEF Activating
  <2>3. Head(imq).type # "FoundServiceUser" BY <2>1, TokenKinds
  <2>4. SameReports /\ ImqFlow /\ IcqFlow /\ SendFlow
    BY <1>t, <2>1, <2>3, ReportsKept, ImqFlows, IcqFlows, SendFlows
  <2>5. StoreFlow BY <1>t, <2>1, <2>2 DEF StoreFlow, Held
  <2>6. \A v \in Users : Offered(v)' <=> Offered(v)
    BY <1>f, <2>1, <2>4 DEF Offered, Pooled, Notifying, SameReports
  <2>7. QED BY <1>f, <2>1, <2>4, <2>5, <2>6, NoMove
<1>6. ASSUME NEW u \in Users, NEW on \in BOOLEAN, found_service_user(u, on)
      PROVE  UserMoves
  <2>1. /\ imq # <<>> /\ Head(imq) = FoundServiceUser(u, on) /\ imq' = Tail(imq)
        /\ ManagerFrame /\ UNCHANGED <<crd, services, icq, todo>>
    BY <1>6 DEF found_service_user, Receive, Idle
  <2>2. ImqFlow /\ IcqFlow /\ SendFlow
    BY <1>t, <2>1, ImqFlows, IcqFlows, SendFlows
  <2>3. StoreFlow BY <2>1 DEF StoreFlow, Held
  <2>4. ~on
    <3>1. ASSUME on = TRUE PROVE InQueue(imq, ActiveReport(u))
      <4>1. Head(imq) = FoundServiceUser(u, TRUE) BY <2>1, <3>1, Zenon
      <4>2. QED BY <1>t, <2>1, <4>1, ManagerTail DEF ActiveReport
    <3>2. QED BY <3>1 DEF UserInv, FirstProcess
  <2>5. Head(imq) = Report(u) /\ pool' = Append(pool, u)
    <3>1. on = FALSE BY <2>4
    <3>2. Head(imq) = FoundServiceUser(u, FALSE) BY <2>1, <3>1, Zenon
    <3>3. QED BY <1>6, <2>4, <3>2 DEF found_service_user, Report
  <2>6. \A v : Head(imq) = Report(v) <=> u = v
    BY <2>5, ReportKinds
  <2>7. /\ \A m : InQueue(imq, m) <=> Head(imq) = m \/ InQueue(imq', m)
        /\ \A v : InQueue(pool', v) <=> InQueue(pool, v) \/ u = v
    <3>1. \A m : InQueue(imq, m) <=> Head(imq) = m \/ InQueue(imq', m)
      BY <1>t, <2>1, ManagerTail
    <3>2. \A v : InQueue(pool', v) <=> InQueue(pool, v) \/ u = v
      BY <1>t, <2>5, AppendFacts
    <3>3. QED BY <3>1, <3>2
  <2>8. \A v \in Users : Offered(v)' <=> Offered(v)
    BY <1>f, <2>1, <2>6, <2>7 DEF Offered, Announced, Pooled, Notifying
  <2>9. QED BY <1>f, <2>1, <2>2, <2>3, <2>8, NoMove
<1>7. ASSUME NEW s \in Services, RequestIdentity(s), Requesting, ManagerFrame,
             todo = <<>>, icq' = icq,
             \/ imq' = imq
             \/ imq # <<>> /\ imq' = Tail(imq) /\ Head(imq).type # "FoundServiceUser"
      PROVE  UserMoves
  <2>1. SameReports /\ ImqFlow /\ IcqFlow
    BY <1>7, <1>t, ReportsKept, ImqFlows, IcqFlows
  <2>2. icphase = "run" BY <1>7, NotReady DEF Requesting
  <2>3. CASE UNCHANGED <<services, pool, crd, todo>>
    <3>1. SendFlow /\ StoreFlow BY <1>t, <2>3, SendFlows DEF StoreFlow, Held
    <3>2. \A v \in Users : Offered(v)' <=> Offered(v)
      BY <1>7, <1>f, <2>1, <2>3 DEF Offered, Pooled, Notifying, SameReports
    <3>3. QED BY <1>7, <1>f, <2>1, <3>1, <3>2, NoMove
  <2>4. ASSUME NEW u \in Users, u = Head(pool), pool # <<>>, pool' = Tail(pool),
               services[s] = NoUser, services' = [services EXCEPT ![s] = u],
               crd' = crd \/ crd' = [crd EXCEPT ![s] = u],
               \/ todo' = todo
               \/ \E p : /\ p = <<>> \/ p = <<ToCreator([type |-> "CreateIdentity"])>>
                         /\ todo' = p \o <<ToCreator(Activate(s, u))>>
        PROVE  UserMoves
    <3>1. \A v : InQueue(pool, v) <=> u = v \/ InQueue(pool', v)
      BY <1>t, <2>4, TailFacts
    <3>2. Offered(u) BY <3>1 DEF Offered, Pooled
    <3>3. \A v \in Users : v # u => (Offered(v)' <=> Offered(v))
      BY <1>7, <1>f, <2>1, <3>1 DEF Offered, Pooled, Notifying, SameReports
    <3>4. \A t \in Services, v \in Users :
              InQueue(todo', ToCreator(Activate(t, v))) => t = s /\ v = u
      <4>1. CASE todo' = todo BY <1>7, <4>1, OneSend
      <4>2. ASSUME NEW p, p = <<>> \/ p = <<ToCreator([type |-> "CreateIdentity"])>>,
                   todo' = p \o <<ToCreator(Activate(s, u))>>
            PROVE  \A t, v : InQueue(todo', ToCreator(Activate(t, v))) => t = s /\ v = u
        BY <4>2, RequestSends
      <4>3. QED BY <2>4, <4>1, <4>2
    <3>5. ASSUME NEW t \in Services, NEW v \in Users, Held(t, v)'
          PROVE  Held(t, v) \/ (v = u /\ t = s)
      <4>1. CASE Activating(t, v)'
        BY <1>7, <1>f, <2>1, <3>4, <4>1
           DEF Activating, Held, ImqFlow, IcqFlow, StepFlow, Notify
      <4>2. CASE services'[t] = v \/ crd'[t] = v
        BY <1>t, <2>4, <4>2 DEF Held
      <4>3. QED BY <3>5, <4>1, <4>2 DEF Held
    <3>6. Held(s, u)' /\ Gets(s, u) BY <1>t, <2>4 DEF Held, Gets
    <3>7. sdp' = sdp BY <1>7, <1>f
    <3>8. SUFFICES ASSUME NEW v \in Users PROVE UserMove(v)
      BY DEF UserMoves
    <3>9. CASE v = u
      <4>1. \A t \in Services : Held(t, v)' =>
                Held(t, v) \/ (Offered(v) /\ icphase = "run" /\ Gets(t, v))
        BY <2>2, <3>2, <3>5, <3>6, <3>9
      <4>2. QED BY <3>2, <3>6, <3>7, <3>9, <4>1 DEF UserMove
    <3>10. CASE v # u
      <4>1. \A t \in Services : Held(t, v)' => Held(t, v) BY <3>5, <3>10
      <4>2. QED BY <3>3, <3>7, <3>10, <4>1 DEF UserMove
    <3>11. QED BY <3>9, <3>10
  <2>5. pool # <<>> => Head(pool) \in Users BY <1>t
  <2>6. QED BY <1>7, <2>3, <2>4, <2>5, RequestCases
<1>8. ASSUME NEW s \in Services, request_service_identity(s) PROVE UserMoves
  <2>1. /\ imq # <<>> /\ Head(imq) = RequestMsg(s) /\ imq' = Tail(imq)
        /\ todo = <<>> /\ RequestIdentity(s) /\ ManagerFrame /\ icq' = icq
    BY <1>8 DEF request_service_identity, Receive, Idle, RequestMsg
  <2>2. InQueue(imq, RequestMsg(s)) BY <1>t, <2>1, ManagerTail
  <2>3. Requesting BY <2>2 DEF UserInv, Unrequested, RequestMsg
  <2>4. Head(imq).type # "FoundServiceUser" BY <2>1 DEF RequestMsg
  <2>5. QED BY <1>7, <2>1, <2>3, <2>4
<1>9. ASSUME NEW s \in Services, ReconcileMissing(s) PROVE UserMoves
  <2>1. /\ stage = "missing" /\ todo = <<>> /\ RequestIdentity(s) /\ ManagerFrame
        /\ UNCHANGED <<imq, icq>>
    BY <1>9 DEF ReconcileMissing, InStage
  <2>2. QED BY <1>7, <2>1 DEF Requesting
<1>10. QED
  BY <1>q, <1>1, <1>3, <1>4, <1>5, <1>6, <1>8, <1>9, ManagerQuiet DEF ManagerNext

\* The creator: it enables a user whose activation is on its way, deletes one
\* that is not on offer, and offers one that is new or, at start-up, found.
LEMMA CreatorMoves ==
    ASSUME ReconcileInv, UserInv, crashes = 0, CreatorNext
    PROVE  UserMoves
<1>t. /\ TypeOK /\ todo \in Seq(ManagerSend) /\ imq \in Seq(ManagerMsg)
      /\ icq \in Seq(CreatorMsg) /\ ictodo \in Seq(CreatorStep)
      /\ sdp \in [Users -> {"fresh", "disabled", "enabled", "deleted"}]
  BY DEF ReconcileInv, TypeOK, ManagerTypeOK, ChannelsTypeOK, CreatorTypeOK,
         StoresTypeOK
<1>f. ASSUME CreatorFrame
      PROVE  UNCHANGED <<crd, services, pool, todo>> /\ SendFlow /\ StoreFlow
  BY <1>f, <1>t, SendFlows DEF CreatorFrame, managerVars, StoreFlow, Held
\* Steps that change a single user in the controller, if any.
<1>g. ASSUME CreatorFrame, ImqFlow, IcqFlow, StepFlow, NEW v \in Users, NEW to,
             icphase = "run" => \A u \in Users \ {v} : Offered(u)' <=> Offered(u),
             icphase = "run" => (Offered(v) => Offered(v)')
                                /\ (Offered(v)' => Offered(v) \/ sdp[v] = "fresh"),
             \/ sdp' = sdp
             \/ /\ sdp' = [sdp EXCEPT ![v] = to]
                /\ \/ sdp[v] = "fresh" /\ to = "disabled"
                   \/ sdp[v] = "enabled" /\ to = "enabled"
                   \/ /\ sdp[v] = "disabled" /\ to = "enabled"
                      /\ \E s \in Services : Held(s, v) /\ Held(s, v)'
                   \/ Exists(v) /\ to = "deleted" /\ ~Offered(v)
      PROVE  UserMoves
  <2>1. NoNewHeld BY <1>f, <1>g, FlowKeeps
  <2>2. \A u \in Users \ {v} : sdp'[u] = sdp[u]
    BY <1>g, <1>t
  <2>3. \/ sdp'[v] = sdp[v]
        \/ sdp[v] = "fresh" /\ sdp'[v] = "disabled"
        \/ /\ sdp[v] = "disabled" /\ sdp'[v] = "enabled"
           /\ \E s \in Services : Held(s, v) /\ Held(s, v)'
        \/ sdp[v] \in {"disabled", "enabled"} /\ sdp'[v] = "deleted" /\ ~Offered(v)
    BY <1>g, <1>t DEF Exists
  <2>4. SUFFICES ASSUME NEW u \in Users PROVE UserMove(u)
    BY DEF UserMoves
  <2>5. CASE u = v BY <1>g, <2>1, <2>3, <2>5 DEF UserMove, NoNewHeld
  <2>6. CASE u # v BY <1>g, <2>1, <2>2, <2>6 DEF UserMove, NoNewHeld
  <2>7. QED BY <2>5, <2>6
\* A message the creator receives names no user to be offered.
<1>h. ASSUME NEW m, CreatorReceive(m), CreatorFrame, imq' = imq
      PROVE  /\ icphase = "run" /\ ictodo = <<>> /\ ImqFlow /\ IcqFlow
             /\ (\A u \in Users : ~InQueue(ictodo', Notify(Report(u))))
                    => \A u \in Users : Offered(u)' <=> Offered(u)
  <2>1. icphase = "run" /\ ictodo = <<>> /\ icq # <<>> /\ icq' = Tail(icq)
    BY <1>h, <1>t, CreatorReceived
  <2>2. ImqFlow /\ IcqFlow BY <1>h, <1>t, <2>1, ImqFlows, IcqFlows
  <2>3. \A u \in Users : ~Notifying(u) BY <2>1, OneSend DEF Notifying
  <2>4. QED
    BY <1>f, <1>h, <2>1, <2>2, <2>3 DEF Offered, Announced, Pooled, Notifying, Notify
<1>s. ASSUME ictodo' = ictodo
      PROVE  StepFlow /\ (ictodo = <<>> => \A m : ~InQueue(ictodo', m))
  BY <1>s, <1>t, StepFlows, OneSend
<1>1. CASE CreatorDevices
  <2>1. PICK m : /\ CreatorReceive(m) /\ CreatorFrame
                 /\ UNCHANGED <<imq, ictodo, sdp>>
    BY <1>1 DEF CreatorDevices, creatorVars
  <2>2. QED BY <1>f, <1>h, <1>s, <2>1, NoMove
<1>2. ~ \E u \in Users : DeleteSDPUser(u)
  BY <1>t, CreatorReceived DEF DeleteSDPUser, DeleteOnly, UserInv, FirstProcess
<1>3. ASSUME NEW s \in Services, NEW v \in Users, DeleteServiceUser(s, v)
      PROVE  UserMoves
  <2>1. /\ CreatorReceive(Deletion(s, v)) /\ CreatorFrame
        /\ UNCHANGED <<imq, ictodo>>
        /\ sdp' = sdp \/ (Exists(v) /\ sdp' = [sdp EXCEPT ![v] = "deleted"])
    BY <1>3 DEF DeleteServiceUser, UserDeleted, DeletionFailed,
                RemoveFromController, Deletion, creatorVars
  <2>2. Doomed(v) BY <1>t, <2>1, CreatorReceived DEF Doomed
  <2>3. ~Offered(v) BY <2>2 DEF UserInv, FirstProcess
  <2>4. QED BY <1>g, <1>h, <1>s, <2>1, <2>3
<1>4. ASSUME NEW s \in Services, NEW v \in Users, ActivateServiceUser(s, v)
      PROVE  UserMoves
  <2> DEFINE x == [op |-> "secrets", s |-> s, u |-> v]
  <2>1. /\ CreatorReceive(Activate(s, v)) /\ CreatorFrame /\ imq' = imq
        /\ ictodo' = <<Notify(Activation(s, v)), x>>
        /\ sdp' = sdp \/ (Exists(v) /\ sdp' = [sdp EXCEPT ![v] = "enabled"])
    BY <1>4 DEF ActivateServiceUser, ActivationSteps, Activate, Activation, Notify
  <2>2. x.op = "secrets" OBVIOUS
  <2> HIDE DEF x
  <2>3. Activating(s, v) BY <1>t, <2>1, CreatorReceived DEF Activating
  <2>4. \A m : InQueue(ictodo', m) <=> Notify(Activation(s, v)) = m \/ x = m
    BY <2>1 DEF InQueue
  <2>5. \A m : InQueue(ictodo', Notify(m)) <=> Activation(s, v) = m
    BY <2>2, <2>4, WrapKinds
  <2>6. StepFlow
    <3>1. \A t, u : Activation(s, v) = Activation(t, u) => t = s /\ u = v
      BY TokenKinds
    <3>2. QED BY <2>3, <2>5, <3>1 DEF StepFlow
  <2>7. \A u \in Users : ~InQueue(ictodo', Notify(Report(u)))
    <3>1. \A u : Activation(s, v) # Report(u) BY TokenKinds, ReportKinds
    <3>2. QED BY <2>5, <3>1
  <2>8. Held(s, v) /\ Held(s, v)'
    BY <2>3, <2>5 DEF Held, Activating, Notify
  <2>9. QED BY <1>g, <1>h, <2>1, <2>6, <2>7, <2>8 DEF Exists
\* A new user, of which the manager is told or not.
<1>5. ASSUME CreatorFrame, NEW n \in Users, sdp[n] = "fresh", ImqFlow, IcqFlow,
             sdp' = [sdp EXCEPT ![n] = "disabled"], ictodo = <<>>, imq' = imq,
             ictodo' = ictodo \/ ictodo' = <<Notify(Report(n))>>
      PROVE  UserMoves
  <2>1. \A m : InQueue(ictodo', Notify(m)) => Report(n) = m
    BY <1>5, OneSend, WrapKinds
  <2>2. StepFlow
    <3>1. \A s, u : Report(n) # Activation(s, u) BY TokenKinds, ReportKinds
    <3>2. QED BY <2>1, <3>1 DEF StepFlow
  <2>3. \A u \in Users : ~Notifying(u) /\ (Notifying(u)' => u = n)
    BY <1>5, <2>1, OneSend, ReportKinds DEF Notifying, Notify
  <2>4. /\ \A u \in Users \ {n} : Offered(u)' <=> Offered(u)
        /\ ~Offered(n)
    BY <1>5, <1>f, <2>3
       DEF Offered, Announced, Pooled, UserInv, FreshUnknown
  <2>5. QED BY <1>5, <1>g, <2>2, <2>4
<1>6. CASE CreateIdentity
  <2> DEFINE m == [type |-> "CreateIdentity"]
  <2>1. /\ CreatorReceive(m) /\ CreatorFrame /\ imq' = imq
        /\ \/ HasFresh /\ CreateUser(NewUser) /\ ictodo' = NotifyFree(NewUser)
           \/ UNCHANGED <<sdp, ictodo>>
           \/ PasswordNotSaved /\ UNCHANGED ictodo
    BY <1>6 DEF CreateIdentity, CreateUserFails, NoUserCreated
  <2> HIDE DEF m
  <2>2. CASE UNCHANGED <<sdp, ictodo>> BY <1>f, <1>h, <1>s, <2>1, <2>2, NoMove
  <2>3. CASE HasFresh /\ sdp' = [sdp EXCEPT ![NewUser] = "disabled"]
             /\ (ictodo' = ictodo \/ ictodo' = NotifyFree(NewUser))
    <3>1. PICK n \in Users : n = NewUser /\ sdp[n] = "fresh"
      BY <2>3 DEF HasFresh, NewUser
    <3>2. ictodo' = ictodo \/ ictodo' = <<Notify(Report(n))>>
      BY <2>3, <3>1 DEF NotifyFree, Notify, Report
    <3>3. QED BY <1>5, <1>h, <2>1, <2>3, <3>1, <3>2
  <2>4. QED BY <2>1, <2>2, <2>3 DEF CreateUser, PasswordNotSaved
<1>7. CASE CreatorFill
  <2>1. /\ CreatorFrame /\ ictodo = <<>> /\ UNCHANGED <<imq, icq>> /\ HasFresh
        /\ sdp' = [sdp EXCEPT ![NewUser] = "disabled"]
        /\ ictodo' = NotifyFree(NewUser)
    BY <1>7 DEF CreatorFill, CreateUser
  <2>2. PICK n \in Users : n = NewUser /\ sdp[n] = "fresh"
    BY <2>1 DEF HasFresh, NewUser
  <2>3. ictodo' = <<Notify(Report(n))>>
    BY <2>1, <2>2 DEF NotifyFree, Notify, Report
  <2>4. ImqFlow /\ IcqFlow BY <1>t, <2>1, ImqFlows, IcqFlows
  <2>5. QED BY <1>5, <2>1, <2>2, <2>3, <2>4
\* The other steps of initialize.
<1>8. CASE CreatorStart \/ CreatorClean \/ CreatorReady
  <2>1. /\ CreatorFrame /\ icphase # "run" /\ UNCHANGED <<sdp, ictodo>>
        /\ icq' = icq \/ (icq # <<>> /\ icq' = Tail(icq))
        /\ imq' = imq \/ imq' = Append(imq, IdentityCreatorReady)
    BY <1>8 DEF CreatorStart, CreatorClean, CreatorReady, SendToManager
  <2>2. ImqFlow BY <1>t, <2>1, ManagerMessages, Kinds, ImqFlows
  <2>3. QED BY <1>f, <1>s, <1>t, <2>1, <2>2, IcqFlows, NoMove
<1>9. ASSUME NEW v \in Users, CreatorScan(v) PROVE UserMoves
  <2>1. /\ CreatorFrame /\ icphase = "scan" /\ v \in scan
        /\ UNCHANGED <<icq, ictodo>>
        /\ \/ UNCHANGED sdp /\ \E on \in BOOLEAN :
                                  imq' = Append(imq, FoundServiceUser(v, on))
           \/ imq' = imq /\ (sdp' = sdp \/ sdp' = [sdp EXCEPT ![v] = "deleted"])
    BY <1>9 DEF CreatorScan, SendToManager, RemoveFromController
  <2>2. ~Offered(v) /\ Exists(v) BY <2>1 DEF UserInv, ScanOrder
  <2>3. ImqFlow BY <1>t, <2>1, ManagerMessages, ReportKinds, ImqFlows
  <2>4. IcqFlow BY <1>t, <2>1, IcqFlows
  <2>5. QED BY <1>g, <1>s, <2>1, <2>2, <2>3, <2>4
\* The pending steps of a handler: an offer stays an offer.
<1>10. CASE CreatorSecrets
  <2>1. /\ CreatorFrame /\ ictodo # <<>> /\ ictodo' = Tail(ictodo)
        /\ Head(ictodo).op = "secrets" /\ UNCHANGED <<sdp, imq, icq>>
    BY <1>10 DEF CreatorSecrets
  <2>2. \A y : InQueue(ictodo, y) <=> Head(ictodo) = y \/ InQueue(ictodo', y)
    BY <1>t, <2>1, TailFacts
  <2>3. \A u : Head(ictodo) # Notify(Report(u)) BY <2>1, WrapKinds
  <2>4. \A u \in Users : Offered(u)' <=> Offered(u)
    BY <1>f, <2>1, <2>2, <2>3 DEF Offered, Announced, Pooled, Notifying, Notify
  <2>5. ImqFlow /\ IcqFlow /\ StepFlow BY <1>t, <2>1, ImqFlows, IcqFlows, StepFlows
  <2>6. QED BY <1>f, <2>1, <2>4, <2>5, NoMove
<1>11. CASE CreatorNotify
  <2> DEFINE x == Head(ictodo)
  <2>1. /\ CreatorFrame /\ ictodo # <<>> /\ ictodo' = Tail(ictodo)
        /\ x.op = "notify" /\ imq' = Append(imq, x.m) /\ UNCHANGED <<sdp, icq>>
    BY <1>11 DEF CreatorNotify, SendToManager
  <2>2. x \in CreatorStep BY <1>t, <2>1
  <2>3. PICK m : m = x.m /\ x = Notify(m) /\ m \in ManagerMsg
                 /\ m \in FoundUserMsg \cup ActivatedMsg
    <3>1. x = Notify(x.m) BY <2>1, <2>2 DEF CreatorStep, Notify
    <3>2. QED BY <2>1, <2>2, <3>1, PendingSteps
  <2>4. \A y : InQueue(ictodo, y) <=> x = y \/ InQueue(ictodo', y)
    BY <1>t, <2>1, TailFacts
  <2> HIDE DEF x
  <2>5. imq' = Append(imq, m) /\ InQueue(ictodo, Notify(m))
    BY <2>1, <2>3, <2>4
  <2>6. \A n : InQueue(imq', n) <=> InQueue(imq, n) \/ m = n
    BY <1>t, <2>3, <2>5, ManagerAppend
  <2>7. ImqFlow
    <3>1. m.type \in {"FoundServiceUser", "ActivatedServiceUser"}
      BY <2>3, OtherKinds
    <3>2. \A s, u : m # Removal(s, u) BY <3>1, TokenKinds
    <3>3. \A s, u : InQueue(imq', Activation(s, u)) =>
              \/ InQueue(imq, Activation(s, u))
              \/ InQueue(ictodo, Notify(Activation(s, u)))
      BY <2>5, <2>6
    <3>4. \A s, u : InQueue(imq', Removal(s, u)) => InQueue(imq, Removal(s, u))
      BY <2>6, <3>2
    <3>5. QED BY <3>3, <3>4 DEF ImqFlow, Activating, Doomed, Notify
  <2>8. \A u \in Users : Offered(u)' <=> Offered(u)
    <3>1. \A u : x = Notify(Report(u)) <=> m = Report(u) BY <2>3, WrapKinds
    <3>2. QED
      BY <1>f, <2>1, <2>4, <2>6, <3>1 DEF Offered, Announced, Pooled, Notifying, Notify
  <2>9. IcqFlow /\ StepFlow BY <1>t, <2>1, IcqFlows, StepFlows
  <2>10. QED BY <1>f, <2>1, <2>7, <2>8, <2>9, NoMove
<1>12. QED
  BY <1>1, <1>2, <1>3, <1>4, <1>6, <1>7, <1>8, <1>9, <1>10, <1>11 DEF CreatorNext

\* Every step of the first process moves users as UserMove says, and the start-up
\* does not begin anew once it is over.
LEMMA MovesStep ==
    ASSUME ReconcileInv, UserInv, [Next]_vars, crashes = 0, crashes' = 0
    PROVE  UserMoves /\ (icphase = "run" => icphase' = "run")
<1>t. /\ TypeOK /\ crashes \in Nat
      /\ sdp \in [Users -> {"fresh", "disabled", "enabled", "deleted"}]
  BY ConstantsAssumption DEF ReconcileInv, TypeOK, BoundsTypeOK, StoresTypeOK
<1>1. CASE \/ \E w \in Watchers : WatcherNext(w)
           \/ EnvironmentNext /\ ~Crash /\ ~CreatorFillPanics
           \/ UNCHANGED vars
  <2>1. Quiet BY <1>1, <1>t, OutsideQuiet
  <2>2. QED BY <1>t, <2>1, QuietFlows, NoMove DEF Quiet
<1>2. CASE ManagerNext
  <2>1. ManagerFrame
    BY <1>2 DEF ManagerNext, ManagerInitialize, ManagerSendNext,
       found_service_candidate, request_service_identity, deleted_service_candidate,
       release_device_id, ReconcileDelete, ReconcileMissing, found_service_user,
       delete_service_identity, activated_service_user, identity_creator_ready,
       deployment_watcher_ready, ReconcileStart, ReconcileExtraDone, ReconcileUser,
       ReconcileUsersDone, ReconcileStaleDone, ReconcileDone
  <2>2. QED BY <1>2, <2>1, ManagerMoves DEF ManagerFrame, creatorVars
<1>3. CASE CreatorNext
  <2>1. icphase = "run" => icphase' = "run"
    BY <1>3 DEF CreatorNext, CreatorStart, CreatorScan, DeleteSDPUser, CreatorClean,
       CreatorFill, CreatorReady, CreatorNotify, CreatorSecrets, CreateIdentity,
       DeleteServiceUser, ActivateServiceUser, CreatorDevices, creatorVars
  <2>2. QED BY <1>3, <2>1, CreatorMoves
<1>4. ~Crash BY <1>t DEF Crash
<1>5. CASE CreatorFillPanics
  <2>1. icphase = "fill" /\ Restart /\ CreateUserFails /\ crd' = crd
    BY <1>5 DEF CreatorFillPanics
  <2>2. \A s \in Services, u \in Users : Held(s, u)' => Held(s, u)
    <3>1. \A s \in Services, u \in Users : ~Activating(s, u)'
      BY <2>1, OneSend DEF Restart, Activating
    <3>2. QED BY <2>1, <3>1, ConstantsAssumption DEF Restart, Held
  <2>3. PICK n : \/ sdp' = sdp
                 \/ /\ n \in Users /\ sdp[n] = "fresh"
                    /\ sdp' = [sdp EXCEPT ![n] = "disabled"]
    BY <2>1 DEF CreateUserFails, NoUserCreated, PasswordNotSaved, HasFresh, NewUser
  <2>4. \A u \in Users : \/ sdp'[u] = sdp[u]
                         \/ sdp[u] = "fresh" /\ sdp'[u] = "disabled"
    BY <1>t, <2>3
  <2>5. QED BY <2>1, <2>2, <2>4 DEF UserMoves, UserMove
<1>6. QED BY <1>1, <1>2, <1>3, <1>4, <1>5 DEF Next, EnvironmentNext

\* A step of the first process is a step of UserLifecycle.
LEMMA LifecycleStep ==
    ASSUME ReconcileInv, UserInv, [Next]_vars, crashes = 0,
           ReconcileInv', UserInv', crashes' = 0
    PROVE  [Lifecycle!LifecycleNext]_(Lifecycle!lifecycleVars)
<1>1. UserMoves /\ (icphase = "run" => icphase' = "run") BY MovesStep
<1>2. ASSUME NEW u \in Users PROVE Lifecycle!Moves(u)
  <2> DEFINE H == {s \in Services : Held(s, u)}
             K == {s \in Services : Held(s, u)'}
  <2>h. /\ [v \in Users |-> {s \in Services : Held(s, v)}][u] = H
        /\ [v \in Users |-> {s \in Services : Held(s, v)}]'[u] = K
    OBVIOUS
  <2>f. /\ u \in {v \in Users : Offered(v)} <=> Offered(u)
        /\ u \in {v \in Users : Offered(v)}' <=> Offered(u)'
    OBVIOUS
  <2>1. UserMove(u) BY <1>1 DEF UserMoves
  <2>2. /\ Offered(u) => sdp[u] = "disabled" /\ H = {}
        /\ Offered(u)' => sdp'[u] = "disabled" /\ K = {}
    BY DEF UserInv, FirstProcess
  <2>3. /\ sdp[u] = "fresh" => ~Offered(u) /\ H = {}
        /\ sdp'[u] = "fresh" => ~Offered(u)'
    BY DEF UserInv, FreshUnknown
  <2>4. icphase # "run" => H = {} BY NotReady
  <2>5. /\ \A s \in H : H = {s}
        /\ \A s \in K : K = {s}
    BY DEF UserInv, SingleHolder
  <2>6. ~Offered(u) \/ icphase # "run" => K \subseteq H
    BY <2>1 DEF UserMove
  <2>7. ~Offered(u) => K = H \/ K = {}
    BY <2>5, <2>6
  <2> USE DEF Lifecycle!Moves, Lifecycle!Stays, Lifecycle!Created,
              Lifecycle!Forgotten, Lifecycle!Recovered, Lifecycle!Taken,
              Lifecycle!Enabled, Lifecycle!Dropped, Lifecycle!Deleted
  <2> HIDE DEF H, K
  <2>8. CASE sdp'[u] = sdp[u]
    <3>1. CASE Offered(u) /\ Offered(u)'
      <4>1. H = {} /\ K = {} BY <2>2, <3>1
      <4>2. Lifecycle!Stays(u) BY <2>8, <3>1, <2>h, <2>f, <4>1
      <4>3. QED BY <4>2
    <3>2. CASE Offered(u) /\ ~Offered(u)'
      <4>1. H = {} /\ sdp[u] = "disabled" BY <2>2, <3>2
      <4>2. CASE icphase # "run"
        <5>1. K = {} BY <2>6, <4>1, <4>2
        <5>2. Lifecycle!Forgotten(u)
          BY <2>8, <3>2, <2>h, <2>f, <4>1, <4>2, <5>1
        <5>3. QED BY <5>2
      <4>3. CASE icphase = "run"
        <5>1. \E s \in K : s \in Services
          BY <2>1, <2>8, <3>2, <4>1, <4>3 DEF UserMove, H, K
        <5>2. \E s \in Services : K = {s} BY <5>1, <2>5
        <5>3. Lifecycle!Taken(u)
          BY <2>8, <3>2, <2>h, <2>f, <4>1, <4>3, <5>2
        <5>4. QED BY <5>3
      <4>4. QED BY <4>2, <4>3
    <3>3. CASE ~Offered(u) /\ Offered(u)'
      <4>1. sdp[u] = "disabled" /\ K = {} BY <2>2, <2>8, <3>3
      <4>2. icphase # "run"
        BY <2>1, <2>8, <3>3, <4>1 DEF UserMove
      <4>3. H = {} BY <2>4, <4>2
      <4>4. Lifecycle!Recovered(u)
        BY <2>8, <3>3, <2>h, <2>f, <4>1, <4>2, <4>3
      <4>5. QED BY <4>4
    <3>4. CASE ~Offered(u) /\ ~Offered(u)'
      <4>1. CASE K = H
        <5>1. Lifecycle!Stays(u) BY <2>8, <3>4, <2>h, <2>f, <4>1
        <5>2. QED BY <5>1
      <4>2. CASE K = {} /\ H # {}
        <5>1. Lifecycle!Dropped(u) BY <2>8, <3>4, <2>h, <2>f, <4>2
        <5>2. QED BY <5>1
      <4>3. QED BY <2>7, <3>4, <4>1, <4>2
    <3>5. QED BY <3>1, <3>2, <3>3, <3>4
  <2>9. CASE sdp[u] = "fresh" /\ sdp'[u] = "disabled"
    <3>1. H = {} /\ K = {} BY <2>3, <2>6, <2>9
    <3>2. Lifecycle!Created(u) BY <2>9, <2>h, <3>1
    <3>3. QED BY <3>2
  <2>10. CASE /\ sdp[u] = "disabled" /\ sdp'[u] = "enabled"
              /\ \E s \in Services : Held(s, u) /\ Held(s, u)'
    <3>1. PICK s \in Services : s \in H /\ s \in K BY <2>10 DEF H, K
    <3>2. H = {s} /\ K = {s} BY <2>5, <3>1
    <3>3. ~Offered(u) /\ ~Offered(u)' BY <2>2, <3>1
    <3>4. Lifecycle!Enabled(u) BY <2>10, <2>h, <2>f, <3>2, <3>3
    <3>5. QED BY <3>4
  <2>11. CASE /\ sdp[u] \in {"disabled", "enabled"} /\ sdp'[u] = "deleted"
              /\ ~Offered(u)
    <3>1. ~Offered(u)' BY <2>2, <2>11
    <3>2. Lifecycle!Deleted(u) BY <2>7, <2>11, <2>h, <2>f, <3>1
    <3>3. QED BY <3>2
  <2>12. QED BY <2>1, <2>8, <2>9, <2>10, <2>11 DEF UserMove
<1>3. QED BY <1>1, <1>2 DEF Lifecycle!LifecycleNext

\* As long as the process is not restarted by force, whatever the interleaving
\* of the watchers, the manager and the creator and whichever calls fail, its
\* steps are steps of UserLifecycle: next_identity gives a user to one service
\* for good, a user is enabled while this service has it, and no user comes
\* back to the pool.
THEOREM FollowsLifecycleAlways == Spec /\ [](crashes = 0) => FollowsLifecycle
<1>1. Init => Lifecycle!LifecycleInit
  <2> SUFFICES ASSUME Init PROVE Lifecycle!LifecycleInit
    OBVIOUS
  <2>1. UserInv BY UserInvInit
  <2>2. sdp = [u \in Users |-> "fresh"] /\ icphase = "wait"
    BY DEF Init, ProcessInit
  <2>3. \A u \in Users : ~Offered(u) /\ \A s \in Services : ~Held(s, u)
    BY <2>1, <2>2 DEF UserInv, FreshUnknown
  <2>4. QED BY <2>2, <2>3 DEF Lifecycle!LifecycleInit
<1> DEFINE Uncrashed == crashes = 0
<1>2. ReconcileInv /\ UserInv /\ Uncrashed /\ [Next]_vars
      /\ ReconcileInv' /\ UserInv' /\ Uncrashed'
          => [Lifecycle!LifecycleNext]_(Lifecycle!lifecycleVars)
  BY LifecycleStep
<1> HIDE DEF Uncrashed
<1>3. Spec /\ []Uncrashed => FollowsLifecycle
  BY <1>1, <1>2, UserInvariant, ReconcileInvariant, PTL
     DEF Spec, FollowsLifecycle, Lifecycle!LifecycleSpec
<1>4. QED BY <1>3 DEF Uncrashed
=============================================================================
