--------------------------- MODULE SettledProofs ----------------------------
(***************************************************************************)
(* What holds when the Identity Service has come to rest, for any number   *)
(* of services, restarts, deletions and re-creations: a ServiceIdentity    *)
(* belongs to a candidate that a watcher tracks, the pool is full and, in  *)
(* the first process, the object of a service, its Secret and the          *)
(* controller agree on its user and, up to the first deletion of a         *)
(* candidate, no user is enabled for nobody.  And what holds when its      *)
(* first reconciliation ends: the candidates found at start-up are         *)
(* registered.                                                             *)
(***************************************************************************)
EXTENDS UserPoolProofs, FiniteSetTheorems

Tracked(s) == \E w \in Watchers : s \in applied[w]

Requested(s) == [type |-> "RequestServiceIdentity", s |-> s]
Gone(s) == [type |-> "DeletedServiceCandidate", s |-> s]

\* The deletion of the identity of s is on its way: the candidate's deletion
\* was reported, or turned into the message that deletes the identity.
Leaving(s) ==
    \/ InQueue(imq, Gone(s))
    \/ \E u \in Users : \/ InQueue(imq, Removal(s, u))
                        \/ InQueue(todo, ToManager(Removal(s, u)))

\* The manager's map is the objects, as long as no call has failed.
MemoryIsObject == imphase = "run" => services = crd

\* Before the broadcast: only tracked candidates are found, none is requested,
\* and after the first stage no identity is left without its candidate.
Starting ==
    ~released =>
        /\ \A s \in Services :
              /\ s \in existing \cup missing \/ InQueue(imq, FoundServiceCandidate(s))
                     => Tracked(s)
              /\ ~InQueue(imq, Requested(s))
              /\ crd[s] # NoUser =>
                    /\ stage = "extra" => s \in batch \cup existing
                    /\ stage \in {"users", "stale", "missing"} => Tracked(s)
        /\ stage = "missing" => batch \subseteq missing

\* After it: the identity of a candidate that is no longer tracked is on its
\* way out, and a request for it that is still queued is followed by the report
\* that the candidate is gone.
Running ==
    released =>
        \A s \in Services : ~Tracked(s) =>
            /\ crd[s] # NoUser => Leaving(s)
            /\ FollowedBy(imq, {Requested(s)}, {Gone(s)})

Removals == MemoryIsObject /\ Starting /\ Running

\* The inductive form of SettledNoExtra.
RemovalInv == failures = 0 => Removals

-----------------------------------------------------------------------------
\* What the invariant reads of the channels is as it was.
SameMessages ==
    \A s \in Services :
        /\ InQueue(imq', FoundServiceCandidate(s))
               => InQueue(imq, FoundServiceCandidate(s))
        /\ InQueue(imq', Requested(s)) => InQueue(imq, Requested(s))
        /\ Leaving(s) => Leaving(s)'
        /\ FollowedBy(imq, {Requested(s)}, {Gone(s)})
               => FollowedBy(imq', {Requested(s)}, {Gone(s)})

\* The types of the messages about one service.
LEMMA ServiceKinds ==
    /\ \A s : /\ Requested(s).type = "RequestServiceIdentity" /\ Requested(s).s = s
              /\ Gone(s).type = "DeletedServiceCandidate" /\ Gone(s).s = s
              /\ FoundServiceCandidate(s).type = "FoundServiceCandidate"
              /\ FoundServiceCandidate(s).s = s
    /\ \A s, u : Removal(s, u).type = "DeleteServiceIdentity" /\ Removal(s, u).s = s
    /\ \A s \in Services : /\ Requested(s) \in ManagerMsg /\ Gone(s) \in ManagerMsg
                           /\ FoundServiceCandidate(s) \in ManagerMsg
BY DEF Requested, Gone, FoundServiceCandidate, Removal, ManagerMsg, CandidateMsg,
       FoundCandidateMsg

\* A message of another kind is sent to the manager.
LEMMA OtherSent ==
    ASSUME imq \in Seq(ManagerMsg), NEW m \in ManagerMsg, imq' = Append(imq, m),
           m.type \notin {"FoundServiceCandidate", "RequestServiceIdentity"},
           todo' = todo
    PROVE  SameMessages
<1> SUFFICES ASSUME NEW s \in Services
             PROVE  /\ InQueue(imq', FoundServiceCandidate(s))
                           => InQueue(imq, FoundServiceCandidate(s))
                    /\ InQueue(imq', Requested(s)) => InQueue(imq, Requested(s))
                    /\ Leaving(s) => Leaving(s)'
                    /\ FollowedBy(imq, {Requested(s)}, {Gone(s)})
                           => FollowedBy(imq', {Requested(s)}, {Gone(s)})
  BY DEF SameMessages
<1>1. m # FoundServiceCandidate(s) /\ m # Requested(s)
  BY ServiceKinds
<1>2. Leaving(s) => Leaving(s)'
  BY ManagerAppend DEF Leaving
<1>3. m \notin {Requested(s)}
  BY <1>1
<1>4. QED BY <1>1, <1>2, <1>3, ManagerAppend

\* A message of another kind is consumed.
LEMMA OtherReceived ==
    ASSUME imq \in Seq(ManagerMsg), imq # <<>>, imq' = Tail(imq), todo = <<>>,
           Head(imq).type \notin {"DeletedServiceCandidate", "DeleteServiceIdentity"}
    PROVE  SameMessages
<1> SUFFICES ASSUME NEW s \in Services
             PROVE  /\ InQueue(imq', FoundServiceCandidate(s))
                           => InQueue(imq, FoundServiceCandidate(s))
                    /\ InQueue(imq', Requested(s)) => InQueue(imq, Requested(s))
                    /\ Leaving(s) => Leaving(s)'
                    /\ FollowedBy(imq, {Requested(s)}, {Gone(s)})
                           => FollowedBy(imq', {Requested(s)}, {Gone(s)})
  BY DEF SameMessages
<1>1. Head(imq) # Gone(s) /\ \A u : Head(imq) # Removal(s, u)
  BY ServiceKinds
<1>2. \A m : ~InQueue(todo, m)
  BY OneSend
<1>3. Leaving(s) => Leaving(s)'
  BY <1>1, <1>2, ManagerTail DEF Leaving
<1>4. QED BY <1>3, ManagerTail

\* The report or the deletion of s is consumed: nothing changes for the others.
LEMMA OwnReceived ==
    ASSUME imq \in Seq(ManagerMsg), imq # <<>>, imq' = Tail(imq), todo = <<>>,
           NEW s \in Services, NEW u, Head(imq) = Gone(s) \/ Head(imq) = Removal(s, u),
           NEW t \in Services, t # s
    PROVE  Leaving(t) => Leaving(t)'
<1>1. Head(imq) # Gone(t) /\ \A v : Head(imq) # Removal(t, v)
  BY ServiceKinds
<1>2. \A m : ~InQueue(todo, m)
  BY OneSend
<1>3. QED BY <1>1, <1>2, ManagerTail DEF Leaving

\* A step that adds no identity and changes no candidate.
LEMMA RemovalShrinks ==
    ASSUME Removals, MemoryIsObject',
           UNCHANGED <<existing, missing, stage, batch, released, applied>>,
           \A t \in Services :
               /\ InQueue(imq', FoundServiceCandidate(t))
                      => InQueue(imq, FoundServiceCandidate(t))
               /\ InQueue(imq', Requested(t)) => InQueue(imq, Requested(t))
               /\ FollowedBy(imq, {Requested(t)}, {Gone(t)})
                      => FollowedBy(imq', {Requested(t)}, {Gone(t)})
               /\ crd'[t] # NoUser => crd[t] # NoUser /\ (Leaving(t) => Leaving(t)')
    PROVE  Removals'
<1>1. \A s : Tracked(s)' <=> Tracked(s)
  BY DEF Tracked
<1>2. Starting'
  BY <1>1 DEF Removals, Starting
<1>3. Running'
  BY <1>1 DEF Removals, Running
<1>4. QED BY <1>2, <1>3 DEF Removals

\* A step that changes no identity and no candidate.
LEMMA RemovalKept ==
    ASSUME Removals, SameMessages,
           UNCHANGED <<crd, services, imphase, existing, missing, stage, batch,
                       released, applied>>
    PROVE  Removals'
<1>1. MemoryIsObject'
  BY DEF Removals, MemoryIsObject
<1>2. QED BY <1>1, RemovalShrinks DEF SameMessages

\* Nothing is sent or received.
LEMMA NothingSent == ASSUME UNCHANGED <<imq, todo>> PROVE SameMessages
BY DEF SameMessages, Leaving

-----------------------------------------------------------------------------
(***************************************************************************)
(* The watchers.                                                           *)
(***************************************************************************)
\* A candidate found at start-up is tracked from then on.
LEMMA FoundTracked ==
    ASSUME TypeOK, Removals, NEW w \in Watchers, NEW s \in Services,
           WatcherInitialized(w, s)
    PROVE  Removals'
<1>t. imq \in Seq(ManagerMsg) /\ applied \in [Watchers -> SUBSET Services]
  BY DEF TypeOK, ChannelsTypeOK, WatchersTypeOK
<1>1. /\ applied' = [applied EXCEPT ![w] = @ \cup {s}]
      /\ UNCHANGED <<crd, services, imphase, existing, missing, stage, batch,
                     released, todo>>
      /\ imq' = imq \/ imq' = Append(imq, FoundServiceCandidate(s))
  BY DEF WatcherInitialized, WatcherFrame, apiVars, managerVars, startupVars,
         stageVars, SendToManager
<1>2. Tracked(s)' /\ \A t : Tracked(t) => Tracked(t)'
  BY <1>t, <1>1 DEF Tracked
<1>3. \A t \in Services :
         /\ t # s => (InQueue(imq', FoundServiceCandidate(t))
                          => InQueue(imq, FoundServiceCandidate(t)))
         /\ InQueue(imq', Requested(t)) => InQueue(imq, Requested(t))
         /\ Leaving(t) => Leaving(t)'
         /\ FollowedBy(imq, {Requested(t)}, {Gone(t)})
                => FollowedBy(imq', {Requested(t)}, {Gone(t)})
  <2> TAKE t \in Services
  <2>1. CASE imq' = imq
    BY <1>1, <2>1 DEF Leaving
  <2>2. CASE imq' = Append(imq, FoundServiceCandidate(s))
    <3>1. /\ FoundServiceCandidate(s) # Requested(t)
          /\ FoundServiceCandidate(s) \notin {Requested(t)}
          /\ t # s => FoundServiceCandidate(s) # FoundServiceCandidate(t)
          /\ FoundServiceCandidate(s) \in ManagerMsg
      BY ServiceKinds
    <3>2. Leaving(t) => Leaving(t)'
      BY <1>t, <1>1, <2>2, <3>1, ManagerAppend DEF Leaving
    <3>3. QED BY <1>t, <2>2, <3>1, <3>2, ManagerAppend
  <2>3. QED BY <1>1, <2>1, <2>2
<1>4. MemoryIsObject'
  BY <1>1 DEF Removals, MemoryIsObject
<1>5. Starting'
  BY <1>1, <1>2, <1>3 DEF Removals, Starting
<1>6. Running'
  BY <1>1, <1>2, <1>3 DEF Removals, Running
<1>7. QED BY <1>4, <1>5, <1>6 DEF Removals

\* A candidate that appears is tracked and requested; one that goes away is
\* reported behind its request.
LEMMA EventRemovals ==
    ASSUME TypeOK, Removals, NEW w \in Watchers, NEW s \in Services, released,
           UNCHANGED <<crd, services, imphase, existing, missing, stage, batch,
                       released, todo>>,
           \/ /\ imq' = Append(imq, Requested(s))
              /\ applied' = [applied EXCEPT ![w] = @ \cup {s}]
           \/ /\ imq' = Append(imq, Gone(s))
              /\ applied' = [applied EXCEPT ![w] = @ \ {s}]
    PROVE  Removals'
<1>t. imq \in Seq(ManagerMsg) /\ applied \in [Watchers -> SUBSET Services]
  BY DEF TypeOK, ChannelsTypeOK, WatchersTypeOK
<1>1. MemoryIsObject' /\ Starting'
  BY DEF Removals, MemoryIsObject, Starting
<1>2. ASSUME NEW t \in Services, ~Tracked(t)',
             imq' = Append(imq, Requested(s)),
             applied' = [applied EXCEPT ![w] = @ \cup {s}]
      PROVE  /\ crd'[t] # NoUser => Leaving(t)'
             /\ FollowedBy(imq', {Requested(t)}, {Gone(t)})
  <2>1. t # s /\ ~Tracked(t)
    BY <1>2, <1>t DEF Tracked
  <2>2. Requested(s) \notin {Requested(t)} /\ Requested(s) \in ManagerMsg
    BY <2>1, ServiceKinds
  <2>3. Leaving(t) => Leaving(t)'
    BY <1>2, <1>t, <2>2, ManagerAppend DEF Leaving
  <2>4. QED BY <1>2, <1>t, <2>1, <2>2, <2>3, ManagerAppend DEF Removals, Running
<1>3. ASSUME NEW t \in Services, ~Tracked(t)',
             imq' = Append(imq, Gone(s)),
             applied' = [applied EXCEPT ![w] = @ \ {s}]
      PROVE  /\ crd'[t] # NoUser => Leaving(t)'
             /\ FollowedBy(imq', {Requested(t)}, {Gone(t)})
  <2>1. Gone(s) \notin {Requested(t)} /\ Gone(s) \in ManagerMsg
    BY ServiceKinds
  <2>2. CASE t = s
    <3>1. Leaving(t)'
      BY <1>3, <1>t, <2>1, <2>2, ManagerAppend DEF Leaving
    <3>2. Gone(s) \in {Gone(t)}
      BY <2>2
    <3>3. QED BY <1>3, <1>t, <2>1, <3>1, <3>2, ManagerAppend
  <2>3. CASE t # s
    <3>1. ~Tracked(t)
      BY <1>3, <1>t, <2>3 DEF Tracked
    <3>2. Leaving(t) => Leaving(t)'
      BY <1>3, <1>t, <2>1, ManagerAppend DEF Leaving
    <3>3. QED BY <1>3, <1>t, <2>1, <3>1, <3>2, ManagerAppend DEF Removals, Running
  <2>4. QED BY <2>2, <2>3
<1>4. Running'
  BY <1>2, <1>3 DEF Running
<1>5. QED BY <1>1, <1>4 DEF Removals

\* The steps of a candidate watcher.
LEMMA WatcherRemovals ==
    ASSUME ReconcileInv, Removals, NEW w \in Watchers, WatcherNext(w)
    PROVE  Removals'
<1>t. TypeOK /\ imq \in Seq(ManagerMsg)
  BY DEF ReconcileInv, TypeOK, ChannelsTypeOK
<1>f. ASSUME WatcherFrame
      PROVE  UNCHANGED <<crd, services, imphase, existing, missing, stage, batch,
                         released, todo>>
  BY <1>f DEF WatcherFrame, apiVars, managerVars, startupVars, stageVars
<1>o. ASSUME WatcherFrame, UNCHANGED <<applied, imq>> PROVE Removals'
  BY <1>f, <1>o, NothingSent, RemovalKept
<1>1. CASE WatcherList(w) \/ WatcherStart(w) \/ WatcherRelist(w)
  BY <1>1, <1>o DEF WatcherList, WatcherStart, WatcherRelist
<1>2. CASE WatcherNotify(w)
  <2>1. /\ DeploymentWatcherReady(w) \in ManagerMsg
        /\ DeploymentWatcherReady(w).type = "DeploymentWatcherReady"
    BY DEF DeploymentWatcherReady, ManagerMsg, WatcherReadyMsg
  <2>2. /\ WatcherFrame /\ UNCHANGED applied
        /\ imq' = Append(imq, DeploymentWatcherReady(w))
    BY <1>2 DEF WatcherNotify, SendToManager
  <2>3. SameMessages
    BY <1>f, <1>t, <2>1, <2>2, OtherSent
  <2>4. QED BY <1>f, <2>2, <2>3, RemovalKept
<1>3. ASSUME NEW s \in Services, WatcherInitialized(w, s) PROVE Removals'
  BY <1>3, <1>t, FoundTracked
<1>4. ASSUME NEW s \in Services, WatcherApply(w, s) \/ WatcherDelete(w, s)
      PROVE  Removals'
  <2>1. WatcherFrame /\ released
    BY <1>4 DEF WatcherApply, WatcherDelete, WatcherEvent, ReconcileInv, WatcherOrder
  <2>2. \/ UNCHANGED <<applied, imq>>
        \/ /\ imq' = Append(imq, Requested(s))
           /\ applied' = [applied EXCEPT ![w] = @ \cup {s}]
        \/ /\ imq' = Append(imq, Gone(s))
           /\ applied' = [applied EXCEPT ![w] = @ \ {s}]
    BY <1>4 DEF WatcherApply, WatcherDelete, SendToManager, Requested, Gone
  <2>3. QED BY <1>f, <1>o, <1>t, <2>1, <2>2, EventRemovals
<1>5. QED BY <1>1, <1>2, <1>3, <1>4 DEF WatcherNext

-----------------------------------------------------------------------------
(***************************************************************************)
(* The creator and the environment.                                        *)
(***************************************************************************)
\* The creator writes no identity, and sends reports of users only.
LEMMA CreatorRemovals ==
    ASSUME TypeOK, Removals, CreatorNext
    PROVE  Removals'
<1>t. imq \in Seq(ManagerMsg) /\ ictodo \in Seq(CreatorStep)
  BY DEF TypeOK, ChannelsTypeOK, CreatorTypeOK
<1>f. ASSUME CreatorFrame
      PROVE  UNCHANGED <<crd, services, imphase, existing, missing, stage, batch,
                         released, applied, todo>>
  BY <1>f DEF CreatorFrame, watcherVars, managerVars, startupVars, stageVars
<1>o. ASSUME CreatorFrame, UNCHANGED imq PROVE Removals'
  BY <1>f, <1>o, NothingSent, RemovalKept
<1>s. ASSUME CreatorFrame, NEW m \in ManagerMsg, imq' = Append(imq, m),
             m.type \notin {"FoundServiceCandidate", "RequestServiceIdentity"}
      PROVE  Removals'
  <2>1. SameMessages
    BY <1>f, <1>s, <1>t, OtherSent
  <2>2. QED BY <1>f, <1>s, <2>1, RemovalKept
<1>1. CASE CreatorStart \/ CreatorClean \/ CreatorFill \/ CreatorSecrets
           \/ CreateIdentity \/ CreatorDevices
  BY <1>1, <1>o DEF CreatorStart, CreatorClean, CreatorFill, CreatorSecrets,
                    CreateIdentity, CreatorDevices
<1>2. ASSUME NEW s \in Services, NEW u \in Users,
             DeleteServiceUser(s, u) \/ ActivateServiceUser(s, u)
      PROVE  Removals'
  BY <1>2, <1>o DEF DeleteServiceUser, ActivateServiceUser
<1>3. ASSUME NEW u \in Users, DeleteSDPUser(u) PROVE Removals'
  BY <1>3, <1>o DEF DeleteSDPUser
<1>4. CASE CreatorReady
  <2>1. /\ CreatorFrame /\ imq' = Append(imq, IdentityCreatorReady)
        /\ IdentityCreatorReady \in ManagerMsg
        /\ IdentityCreatorReady.type = "IdentityCreatorReady"
    BY <1>4, ManagerMessages, Kinds DEF CreatorReady, SendToManager
  <2>2. QED BY <1>s, <2>1
<1>5. CASE CreatorNotify
  <2>1. Head(ictodo) \in CreatorStep
    BY <1>5, <1>t DEF CreatorNotify
  <2>2. /\ CreatorFrame
        /\ imq' = Append(imq, Head(ictodo).m) /\ Head(ictodo).op = "notify"
    BY <1>5 DEF CreatorNotify, SendToManager
  <2>3. /\ Head(ictodo).m \in ManagerMsg
        /\ Head(ictodo).m.type \in {"FoundServiceUser", "ActivatedServiceUser"}
    BY <2>1, <2>2, PendingSteps, OtherKinds
  <2>4. QED BY <1>s, <2>2, <2>3
<1>6. ASSUME NEW u \in Users, CreatorScan(u) PROVE Removals'
  <2>1. CreatorFrame
    BY <1>6 DEF CreatorScan
  <2>2. CASE UNCHANGED imq
    BY <1>o, <2>1, <2>2
  <2>3. CASE imq' = Append(imq, FoundServiceUser(u, sdp[u] = "enabled"))
    <3> DEFINE m == FoundServiceUser(u, sdp[u] = "enabled")
    <3>1. m = FoundServiceUser(u, TRUE) \/ m = FoundServiceUser(u, FALSE)
      <4>1. (sdp[u] = "enabled") = TRUE \/ (sdp[u] = "enabled") = FALSE
        OBVIOUS
      <4>2. QED BY <4>1, Zenon
    <3>2. /\ FoundServiceUser(u, TRUE) \in ManagerMsg
          /\ FoundServiceUser(u, FALSE) \in ManagerMsg
      BY ManagerMessages, Zenon
    <3>3. imq' = Append(imq, m)
      BY <2>3
    <3>4. m.type = "FoundServiceUser"
      BY ReportKinds
    <3> HIDE DEF m
    <3>5. m \in ManagerMsg
      BY <3>1, <3>2, Zenon
    <3>6. QED BY <1>s, <2>1, <3>3, <3>4, <3>5
  <2>4. QED BY <1>6, <2>2, <2>3 DEF CreatorScan, SendToManager
<1>7. QED BY <1>1, <1>2, <1>3, <1>4, <1>5, <1>6 DEF CreatorNext

\* A process that has just been started has found and requested nothing.
LEMMA RestartRemovals == Restart => Removals'
<1> SUFFICES ASSUME Restart PROVE Removals'
  OBVIOUS
<1>1. \A m : ~InQueue(imq', m)
  BY DEF Restart, InQueue
<1>2. imphase' = "init" /\ released' = FALSE /\ stage' = "none"
      /\ existing' = {} /\ missing' = {}
  BY DEF Restart
<1>3. QED BY <1>1, <1>2 DEF Removals, MemoryIsObject, Starting, Running

\* The steps of users, pods and crashes.
LEMMA EnvironmentRemovals ==
    ASSUME TypeOK, Removals, EnvironmentNext
    PROVE  Removals'
<1>t. imq \in Seq(ManagerMsg)
  BY DEF TypeOK, ChannelsTypeOK
<1> USE DEF apiVars, watcherVars, managerVars, startupVars, stageVars
<1>1. ASSUME NEW o \in Objects, ApplyObject(o[1], o[2]) \/ DeleteObject(o[1], o[2])
      PROVE  Removals'
  BY <1>1, NothingSent, RemovalKept DEF ApplyObject, DeleteObject
<1>2. ASSUME NEW s \in Services, FlipLabel(s) PROVE Removals'
  BY <1>2, NothingSent, RemovalKept DEF FlipLabel
<1>3. ASSUME NEW s \in Services, PodWatcherRelease(s) PROVE Removals'
  <2> DEFINE m == [type |-> "ReleaseDeviceId", s |-> s]
  <2>1. m \in ManagerMsg /\ m.type = "ReleaseDeviceId"
    BY DEF ManagerMsg, CandidateMsg
  <2>2. imq' = Append(imq, m) /\ todo' = todo
    BY <1>3 DEF PodWatcherRelease, SendToManager
  <2> HIDE DEF m
  <2>3. SameMessages
    BY <1>t, <2>1, <2>2, OtherSent
  <2>4. QED BY <1>3, <2>3, RemovalKept DEF PodWatcherRelease
<1>4. CASE Crash \/ CreatorFillPanics
  BY <1>4, RestartRemovals DEF Crash, CreatorFillPanics
<1>5. QED BY <1>1, <1>2, <1>3, <1>4 DEF EnvironmentNext

-----------------------------------------------------------------------------
(***************************************************************************)
(* The manager.                                                            *)
(***************************************************************************)
\* A pending send to the manager itself arrives in its channel.
LEMMA SendRemovals ==
    ASSUME TypeOK, Removals, ManagerInitialize \/ ManagerSendNext
    PROVE  Removals'
<1>t. imq \in Seq(ManagerMsg) /\ todo \in Seq(ManagerSend)
  BY DEF TypeOK, ChannelsTypeOK, ManagerTypeOK
<1> USE DEF ManagerFrame, watcherVars, startupVars, stageVars
<1>1. CASE ManagerInitialize
  <2>1. MemoryIsObject'
    BY <1>1 DEF ManagerInitialize, MemoryIsObject
  <2>2. SameMessages
    BY <1>1, NothingSent DEF ManagerInitialize
  <2>3. QED BY <1>1, <2>1, <2>2, RemovalShrinks
            DEF ManagerInitialize, SameMessages
<1>2. CASE ManagerSendNext
  <2> DEFINE m == Head(todo).m
  <2>1. /\ todo # <<>> /\ todo' = Tail(todo) /\ Head(todo) \in ManagerSend
        /\ UNCHANGED <<crd, services, imphase, existing, missing, stage, batch,
                       released, applied>>
        /\ \/ Head(todo).to = "creator" /\ imq' = imq
           \/ Head(todo).to = "manager" /\ imq' = Append(imq, m)
    BY <1>2, <1>t DEF ManagerSendNext, SendToManager
  <2>2. \A n : InQueue(todo, n) <=> Head(todo) = n \/ InQueue(todo', n)
    BY <1>t, <2>1, TailFacts
  <2>3. CASE Head(todo).to = "creator" /\ imq' = imq
    <3>1. \A n : Head(todo) # ToManager(n)
      BY <2>3, WrapKinds
    <3>2. \A s \in Services : Leaving(s) => Leaving(s)'
      BY <2>2, <2>3, <3>1 DEF Leaving
    <3>3. SameMessages
      BY <2>3, <3>2 DEF SameMessages
    <3>4. QED BY <2>1, <3>3, RemovalKept
  <2>4. CASE Head(todo).to = "manager" /\ imq' = Append(imq, m)
    <3>1. m \in DeleteMsg \cup {IdentityManagerReady}
      BY <2>1, <2>4 DEF ManagerSend
    <3>2. /\ m \in ManagerMsg
          /\ m.type \in {"DeleteServiceIdentity", "IdentityManagerReady"}
      BY <3>1, OtherKinds, Kinds DEF ManagerMsg
    <3>3. imq' = Append(imq, m)
      BY <2>4
    <3>4. \A n : Head(todo) = ToManager(n) => m = n
      BY WrapKinds
    <3> HIDE DEF m
    <3>5. ASSUME NEW s \in Services, Leaving(s) PROVE Leaving(s)'
      BY <1>t, <2>2, <3>2, <3>3, <3>4, <3>5, ManagerAppend DEF Leaving
    <3>6. ASSUME NEW s \in Services
          PROVE  /\ m # FoundServiceCandidate(s) /\ m # Requested(s)
                 /\ m \notin {Requested(s)}
      BY <3>2, ServiceKinds
    <3>7. SameMessages
      BY <1>t, <3>2, <3>3, <3>5, <3>6, ManagerAppend DEF SameMessages
    <3>8. QED BY <2>1, <3>7, RemovalKept
  <2>5. QED BY <2>1, <2>3, <2>4
<1>3. QED BY <1>1, <1>2

\* Handlers that add no identity.
LEMMA HandlerRemovals ==
    ASSUME TypeOK, Removals, failures = 0, failures' = 0,
           \/ identity_creator_ready
           \/ \E w \in Watchers : deployment_watcher_ready(w)
           \/ \E u \in Users, on \in BOOLEAN : found_service_user(u, on)
           \/ \E s \in Services : release_device_id(s)
           \/ \E s \in Services, u \in Users : activated_service_user(s, u)
    PROVE  Removals'
<1>t. /\ imq \in Seq(ManagerMsg)
      /\ crd \in [Services -> MaybeUser] /\ services \in [Services -> MaybeUser]
  BY DEF TypeOK, ChannelsTypeOK, StoresTypeOK, ManagerTypeOK
<1> USE DEF ManagerFrame, watcherVars, startupVars, stageVars
<1>n. ~CallFails
  BY DEF CallFails
<1>o. ASSUME NEW m, Receive(m),
             m.type \notin {"DeletedServiceCandidate", "DeleteServiceIdentity"}
      PROVE  SameMessages /\ services = crd /\ imphase = "run"
  <2>1. services = crd /\ imphase = "run" /\ todo = <<>>
    BY <1>o DEF Receive, Idle, Removals, MemoryIsObject
  <2>2. QED BY <1>o, <1>t, <2>1, OtherReceived DEF Receive
<1>1. CASE identity_creator_ready
  <2>1. SameMessages
    BY <1>1, <1>o, Kinds DEF identity_creator_ready
  <2>2. QED BY <1>1, <2>1, RemovalKept DEF identity_creator_ready
<1>2. ASSUME NEW w \in Watchers, deployment_watcher_ready(w) PROVE Removals'
  <2>1. SameMessages
    BY <1>2, <1>o, Kinds DEF deployment_watcher_ready
  <2>2. QED BY <1>2, <2>1, RemovalKept DEF deployment_watcher_ready
<1>3. ASSUME NEW u \in Users, NEW on \in BOOLEAN, found_service_user(u, on)
      PROVE  Removals'
  <2>1. SameMessages
    BY <1>3, <1>o, ReportKinds DEF found_service_user
  <2>2. QED BY <1>3, <2>1, RemovalKept DEF found_service_user
<1>4. ASSUME NEW s \in Services, release_device_id(s) PROVE Removals'
  <2>1. SameMessages /\ services = crd
    BY <1>4, <1>o DEF release_device_id
  <2>2. crd' = crd
    <3>1. crd' = crd \/ crd' = [crd EXCEPT ![s] = services[s]]
      BY <1>4 DEF release_device_id
    <3>2. QED BY <1>t, <2>1, <3>1
  <2>3. QED BY <1>4, <2>1, <2>2, RemovalKept DEF release_device_id
<1>5. ASSUME NEW s \in Services, NEW u \in Users, activated_service_user(s, u)
      PROVE  Removals'
  <2>1. SameMessages /\ services = crd /\ imphase = "run"
    BY <1>5, <1>o DEF activated_service_user
  <2>2. /\ UNCHANGED <<existing, missing, stage, batch, released, applied, imphase>>
        /\ \/ UNCHANGED <<services, crd>>
           \/ /\ Registered(s)
              /\ services' = [services EXCEPT ![s] = u]
              /\ crd' = [crd EXCEPT ![s] = u]
    BY <1>5, <1>n DEF activated_service_user, UpdateIdentity
  <2>3. MemoryIsObject'
    BY <2>1, <2>2 DEF MemoryIsObject
  <2>4. \A t \in Services : crd'[t] # NoUser => crd[t] # NoUser
    BY <1>t, <2>1, <2>2 DEF Registered
  <2>5. QED BY <2>1, <2>2, <2>3, <2>4, RemovalShrinks DEF SameMessages
<1>6. QED BY <1>1, <1>2, <1>3, <1>4, <1>5

\* A candidate found at start-up is recorded.
LEMMA FoundRemovals ==
    ASSUME TypeOK, Removals, NEW s \in Services, found_service_candidate(s)
    PROVE  Removals'
<1>t. imq \in Seq(ManagerMsg)
  BY DEF TypeOK, ChannelsTypeOK
<1>1. /\ imq # <<>> /\ Head(imq) = FoundServiceCandidate(s) /\ imq' = Tail(imq)
      /\ todo = <<>> /\ stage = "none"
      /\ UNCHANGED <<crd, services, imphase, stage, batch, released, applied>>
      /\ existing' \cup missing' = existing \cup missing \cup {s}
  BY DEF found_service_candidate, Receive, Idle, ManagerFrame, watcherVars, stageVars
<1>2. SameMessages
  BY <1>t, <1>1, ServiceKinds, OtherReceived
<1>3. InQueue(imq, FoundServiceCandidate(s))
  BY <1>t, <1>1, ManagerTail
<1>4. \A t : Tracked(t)' <=> Tracked(t)
  BY <1>1 DEF Tracked
<1>5. MemoryIsObject'
  BY <1>1 DEF Removals, MemoryIsObject
<1>6. Starting'
  BY <1>1, <1>2, <1>3, <1>4 DEF Removals, Starting, SameMessages
<1>7. Running'
  BY <1>1, <1>2, <1>4 DEF Removals, Running, SameMessages
<1>8. QED BY <1>5, <1>6, <1>7 DEF Removals

\* The report that a candidate is gone becomes the deletion of its identity.
LEMMA GoneRemovals ==
    ASSUME TypeOK, Removals, NEW s \in Services, deleted_service_candidate(s)
    PROVE  Removals'
<1>t. /\ imq \in Seq(ManagerMsg) /\ services \in [Services -> MaybeUser]
  BY DEF TypeOK, ChannelsTypeOK, ManagerTypeOK
<1>1. /\ imq # <<>> /\ Head(imq) = Gone(s) /\ imq' = Tail(imq)
      /\ todo = <<>> /\ todo' = DeletionOf(s) /\ services = crd
      /\ UNCHANGED <<crd, services, imphase, existing, missing, stage, batch,
                     released, applied>>
  BY DEF deleted_service_candidate, Receive, Idle, ManagerFrame, watcherVars,
         startupVars, stageVars, Gone, Removals, MemoryIsObject
<1>2. crd[s] # NoUser => Leaving(s)'
  <2> SUFFICES ASSUME crd[s] # NoUser PROVE Leaving(s)'
    OBVIOUS
  <2>1. services[s] \in Users /\ todo' = <<ToManager(Removal(s, services[s]))>>
    BY <1>t, <1>1 DEF DeletionOf, Registered, Removal, MaybeUser
  <2>2. QED BY <2>1, OneSend DEF Leaving
<1>3. \A t \in Services : t # s => (Leaving(t) => Leaving(t)')
  BY <1>t, <1>1, OwnReceived
<1>4. MemoryIsObject'
  BY <1>1 DEF Removals, MemoryIsObject
<1>5. QED BY <1>t, <1>1, <1>2, <1>3, <1>4, ManagerTail, RemovalShrinks

\* What a deletion that does not fail does to the identities.
LEMMA DeletionClears ==
    ASSUME TypeOK, failures = 0, failures' = 0, services = crd,
           NEW s \in Services, NEW u, DeleteIdentity(s, u)
    PROVE  /\ services' = crd' /\ crd'[s] = NoUser
           /\ \A t \in Services : t # s => crd'[t] = crd[t]
<1>1. crd \in [Services -> MaybeUser]
  BY DEF TypeOK, StoresTypeOK
<1>2. QED BY <1>1 DEF DeleteIdentity, CallFails

\* An identity is deleted.
LEMMA DeleteRemovals ==
    ASSUME TypeOK, Removals, failures = 0, failures' = 0,
           NEW s \in Services, NEW u \in Users, delete_service_identity(s, u)
    PROVE  Removals'
<1>t. imq \in Seq(ManagerMsg)
  BY DEF TypeOK, ChannelsTypeOK
<1>1. /\ imq # <<>> /\ Head(imq) = Removal(s, u) /\ imq' = Tail(imq)
      /\ todo = <<>> /\ services = crd /\ DeleteIdentity(s, u)
      /\ UNCHANGED <<imphase, existing, missing, stage, batch, released, applied>>
  BY DEF delete_service_identity, Receive, Idle, ManagerFrame, watcherVars,
         startupVars, stageVars, Removal, Removals, MemoryIsObject
<1>2. /\ services' = crd' /\ crd'[s] = NoUser
      /\ \A t \in Services : t # s => crd'[t] = crd[t]
  BY <1>1, DeletionClears
<1>3. \A t \in Services : t # s => (Leaving(t) => Leaving(t)')
  BY <1>t, <1>1, OwnReceived
<1>4. MemoryIsObject'
  BY <1>2 DEF MemoryIsObject
<1>5. QED BY <1>t, <1>1, <1>2, <1>3, <1>4, ManagerTail, RemovalShrinks

\* What a request does to the identities when no call fails: the object is
\* there if and only if the manager knows it, so none is in the way.
LEMMA RequestAdds ==
    ASSUME TypeOK, failures = 0, failures' = 0, services = crd,
           NEW s \in Services, RequestIdentity(s)
    PROVE  /\ services' = crd'
           /\ \A t \in Services : t # s => crd'[t] = crd[t]
<1>1. crd \in [Services -> MaybeUser]
  BY DEF TypeOK, StoresTypeOK
<1>2. \/ UNCHANGED <<services, crd>>
      \/ /\ services' = [services EXCEPT ![s] = Head(pool)]
         /\ crd' = [crd EXCEPT ![s] = Head(pool)]
  BY DEF RequestIdentity, CallFails, Registered
<1>3. QED BY <1>1, <1>2

\* The head of a queue that must be followed is followed in the rest of it.
LEMMA FollowedHead ==
    ASSUME imq \in Seq(ManagerMsg), imq # <<>>, imq' = Tail(imq),
           NEW y, FollowedBy(imq, {Head(imq)}, {y})
    PROVE  InQueue(imq', y)
<1>1. /\ Len(imq) \in Nat \ {0} /\ Len(imq') = Len(imq) - 1 /\ imq[1] = Head(imq)
      /\ \A i \in 2..Len(imq) : imq[i] = imq'[i - 1]
  BY TailShape
<1>2. PICK j \in 1..Len(imq) : j > 1 /\ imq[j] = y
  BY <1>1 DEF FollowedBy
<1>3. j - 1 \in 1..Len(imq') /\ imq'[j - 1] = y
  BY <1>1, <1>2
<1>4. QED BY <1>3 DEF InQueue

\* An identity is created for a candidate that appeared: if it is gone again,
\* the report is behind.
LEMMA RequestRemovals ==
    ASSUME TypeOK, Removals, failures = 0, failures' = 0,
           NEW s \in Services, request_service_identity(s)
    PROVE  Removals'
<1>t. imq \in Seq(ManagerMsg)
  BY DEF TypeOK, ChannelsTypeOK
<1>1. /\ imq # <<>> /\ Head(imq) = Requested(s) /\ imq' = Tail(imq)
      /\ todo = <<>> /\ services = crd /\ RequestIdentity(s)
      /\ UNCHANGED <<imphase, existing, missing, stage, batch, released, applied>>
  BY DEF request_service_identity, Receive, Idle, ManagerFrame, watcherVars,
         startupVars, stageVars, Requested, Removals, MemoryIsObject
<1>2. /\ services' = crd' /\ \A t \in Services : t # s => crd'[t] = crd[t]
  BY <1>1, RequestAdds
<1>3. SameMessages
  BY <1>t, <1>1, ServiceKinds, OtherReceived
<1>4. released
  <2>1. InQueue(imq, Requested(s))
    BY <1>t, <1>1, ManagerTail
  <2>2. QED BY <2>1 DEF Removals, Starting
<1>5. \A t : Tracked(t)' <=> Tracked(t)
  BY <1>1 DEF Tracked
<1>6. ~Tracked(s) => Leaving(s)'
  <2> SUFFICES ASSUME ~Tracked(s) PROVE Leaving(s)'
    OBVIOUS
  <2>1. FollowedBy(imq, {Head(imq)}, {Gone(s)})
    BY <1>1, <1>4 DEF Removals, Running
  <2>2. QED BY <1>t, <1>1, <2>1, FollowedHead DEF Leaving
<1>7. MemoryIsObject' /\ Starting'
  BY <1>1, <1>2, <1>4 DEF MemoryIsObject, Starting
<1>8. Running'
  BY <1>1, <1>2, <1>3, <1>4, <1>5, <1>6 DEF Removals, Running, SameMessages
<1>9. QED BY <1>7, <1>8 DEF Removals

\* The reconciliation: its first stage leaves no identity without a candidate,
\* its last one creates identities of candidates only.
LEMMA ReconcileRemovals ==
    ASSUME ReconcileInv, Removals, failures = 0, failures' = 0,
           \/ ReconcileStart
           \/ ReconcileExtraDone \/ ReconcileUsersDone \/ ReconcileStaleDone
           \/ \E s \in Services : ReconcileDelete(s) \/ ReconcileMissing(s)
           \/ \E u \in Users : ReconcileUser(u)
           \/ ReconcileDone
    PROVE  Removals'
<1>t. TypeOK /\ imq \in Seq(ManagerMsg)
  BY DEF ReconcileInv, TypeOK, ChannelsTypeOK
<1> USE DEF ManagerFrame, watcherVars, startupVars, stageVars
<1>s. ASSUME InStage("extra") \/ InStage("users") \/ InStage("stale")
             \/ InStage("missing")
      PROVE  /\ services = crd /\ ~released /\ todo = <<>> /\ imphase = "run"
  BY <1>s DEF InStage, Removals, MemoryIsObject, ReconcileInv, ReadyToken
<1>k. ASSUME UNCHANGED <<crd, services, imphase, existing, missing, applied,
                         imq, todo>>
      PROVE  /\ MemoryIsObject' /\ SameMessages
             /\ \A t : Tracked(t)' <=> Tracked(t)
  BY <1>k, NothingSent DEF Removals, MemoryIsObject, Tracked
<1>1. CASE ReconcileStart
  <2>1. /\ imq # <<>> /\ Head(imq) = IdentityManagerReady /\ imq' = Tail(imq)
        /\ todo = <<>> /\ services = crd /\ stage' = "extra"
        /\ batch' = extra_service_identities
        /\ UNCHANGED <<crd, services, imphase, existing, missing, released, applied>>
    BY <1>1 DEF ReconcileStart, Receive, Idle, Removals, MemoryIsObject
  <2>2. SameMessages
    BY <1>t, <2>1, Kinds, OtherReceived
  <2>3. \A t : Tracked(t)' <=> Tracked(t)
    BY <2>1 DEF Tracked
  <2>4. MemoryIsObject'
    BY <2>1 DEF Removals, MemoryIsObject
  <2>5. Starting'
    BY <2>1, <2>2, <2>3
       DEF Removals, Starting, SameMessages, extra_service_identities, Registered
  <2>6. Running'
    BY <2>1, <2>2, <2>3 DEF Removals, Running, SameMessages
  <2>7. QED BY <2>4, <2>5, <2>6 DEF Removals
<1>2. CASE ReconcileExtraDone \/ ReconcileUsersDone \/ ReconcileStaleDone
  <2>1. /\ UNCHANGED <<crd, services, imphase, existing, missing, applied,
                       imq, todo, released>>
        /\ ~released
        /\ stage' = "missing" => batch' = missing
        /\ stage' # "extra"
        /\ stage = "extra" => batch = {}
        /\ stage \in {"extra", "users", "stale"}
    BY <1>2, <1>s DEF ReconcileExtraDone, ReconcileUsersDone, ReconcileStaleDone,
                      InStage
  <2>2. /\ MemoryIsObject' /\ SameMessages /\ \A t : Tracked(t)' <=> Tracked(t)
    BY <1>k, <2>1
  <2>3. Starting'
    BY <2>1, <2>2 DEF Removals, Starting, SameMessages
  <2>4. QED BY <2>1, <2>2, <2>3 DEF Removals, Running
<1>3. ASSUME NEW u \in Users, ReconcileUser(u) PROVE Removals'
  <2>1. /\ UNCHANGED <<crd, services, imphase, existing, missing, applied,
                       imq, todo, released, stage>>
        /\ ~released /\ stage = "users"
    BY <1>3, <1>s DEF ReconcileUser, InStage
  <2>2. /\ MemoryIsObject' /\ SameMessages /\ \A t : Tracked(t)' <=> Tracked(t)
    BY <1>k, <2>1
  <2>3. Starting'
    BY <2>1, <2>2 DEF Removals, Starting, SameMessages
  <2>4. QED BY <2>1, <2>2, <2>3 DEF Removals, Running
<1>4. ASSUME NEW s \in Services, ReconcileDelete(s) PROVE Removals'
  <2>1. /\ ~released /\ services = crd /\ DeleteIdentity(s, services[s])
        /\ batch' = batch \ {s} /\ stage \in {"extra", "stale"}
        /\ UNCHANGED <<imphase, existing, missing, applied, imq, released, stage>>
    BY <1>4, <1>s DEF ReconcileDelete, InStage
  <2>2. /\ services' = crd' /\ crd'[s] = NoUser
        /\ \A t \in Services : t # s => crd'[t] = crd[t]
    BY <1>t, <2>1, DeletionClears
  <2>3. \A t : Tracked(t)' <=> Tracked(t)
    BY <2>1 DEF Tracked
  <2>4. Starting'
    BY <2>1, <2>2, <2>3 DEF Removals, Starting
  <2>5. QED BY <2>1, <2>2, <2>4 DEF Removals, MemoryIsObject, Running
<1>5. ASSUME NEW s \in Services, ReconcileMissing(s) PROVE Removals'
  <2>1. /\ ~released /\ services = crd /\ RequestIdentity(s)
        /\ batch' = batch \ {s} /\ stage = "missing" /\ s \in batch
        /\ UNCHANGED <<imphase, existing, missing, applied, imq, released, stage>>
    BY <1>5, <1>s DEF ReconcileMissing, InStage
  <2>2. /\ services' = crd' /\ \A t \in Services : t # s => crd'[t] = crd[t]
    BY <1>t, <2>1, RequestAdds
  <2>3. \A t : Tracked(t)' <=> Tracked(t)
    BY <2>1 DEF Tracked
  <2>4. Tracked(s)
    BY <2>1 DEF Removals, Starting
  <2>5. Starting'
    BY <2>1, <2>2, <2>3, <2>4 DEF Removals, Starting
  <2>6. QED BY <2>1, <2>2, <2>5 DEF Removals, MemoryIsObject, Running
<1>6. CASE ReconcileDone
  <2>1. /\ UNCHANGED <<crd, services, imphase, existing, missing, applied,
                       imq, todo>>
        /\ ~released /\ released' = TRUE /\ stage = "missing"
    BY <1>6, <1>s DEF ReconcileDone, InStage
  <2>2. /\ MemoryIsObject' /\ SameMessages /\ \A t : Tracked(t)' <=> Tracked(t)
    BY <1>k, <2>1
  <2>3. ASSUME NEW t \in Services, ~Tracked(t)
        PROVE  crd[t] = NoUser /\ FollowedBy(imq, {Requested(t)}, {Gone(t)})
    BY <2>1, <2>3 DEF Removals, Starting, FollowedBy, InQueue
  <2>4. Running'
    BY <2>1, <2>2, <2>3 DEF Running
  <2>5. QED BY <2>1, <2>2, <2>4 DEF Removals, Starting
<1>7. QED BY <1>1, <1>2, <1>3, <1>4, <1>5, <1>6

-----------------------------------------------------------------------------
\* RemovalInv holds at first.
LEMMA RemovalInit == Init => RemovalInv
<1> SUFFICES ASSUME Init PROVE Removals
  BY DEF RemovalInv
<1>1. \A m : ~InQueue(imq, m)
  BY DEF Init, ProcessInit, InQueue
<1>2. QED BY <1>1 DEF Init, ProcessInit, Removals, MemoryIsObject, Starting, Running

\* Each step counts at most one failure, and none is forgotten.
LEMMA FailuresGrow ==
    ASSUME TypeOK, [Next]_vars, failures' = 0
    PROVE  failures = 0
<1> DEFINE Counts == CallSucceeds \/ CallFails
<1>c. Counts => failures = 0
  BY CallCounted
<1>1. ASSUME NEW w \in Watchers, WatcherNext(w) PROVE Counts
  BY <1>1 DEF WatcherNext, WatcherList, WatcherNotify, WatcherStart, WatcherRelist,
              WatcherInitialized, WatcherApply, WatcherDelete, InLabelledNamespace,
              NotInLabelledNamespace, CallSucceeds
<1>2. CASE ManagerNext
  <2>1. \A s, u : DeleteIdentity(s, u) \/ UpdateIdentity(s, u) => Counts
    BY DEF DeleteIdentity, UpdateIdentity
  <2>2. \A s : RequestIdentity(s) => Counts
    BY DEF RequestIdentity
  <2>3. ASSUME \/ ManagerInitialize \/ ManagerSendNext \/ identity_creator_ready
               \/ \E w \in Watchers : deployment_watcher_ready(w)
               \/ ReconcileStart \/ ReconcileExtraDone \/ ReconcileUsersDone
               \/ ReconcileStaleDone \/ ReconcileDone
               \/ \E u \in Users : ReconcileUser(u)
               \/ \E u \in Users, on \in BOOLEAN : found_service_user(u, on)
        PROVE  Counts
    BY <2>3 DEF ManagerInitialize, ManagerSendNext, identity_creator_ready,
                deployment_watcher_ready, ReconcileStart, ReconcileExtraDone,
                ReconcileUsersDone, ReconcileStaleDone, ReconcileDone,
                ReconcileUser, found_service_user, CallSucceeds
  <2>4. ASSUME NEW s \in Services,
               \/ found_service_candidate(s) \/ request_service_identity(s)
               \/ deleted_service_candidate(s) \/ release_device_id(s)
               \/ ReconcileDelete(s) \/ ReconcileMissing(s)
        PROVE  Counts
    BY <2>1, <2>2, <2>4
       DEF found_service_candidate, request_service_identity,
           deleted_service_candidate, release_device_id, ReconcileDelete,
           ReconcileMissing, CallSucceeds
  <2>5. ASSUME NEW s \in Services, NEW u \in Users,
               delete_service_identity(s, u) \/ activated_service_user(s, u)
        PROVE  Counts
    BY <2>1, <2>5 DEF delete_service_identity, activated_service_user
  <2>6. Counts
    BY <1>2, <2>3, <2>4, <2>5 DEF ManagerNext
  <2>7. QED BY <1>c, <2>6
<1>3. CASE CreatorNext
  <2>1. Counts
    BY <1>3 DEF CreatorNext, CreatorStart, CreatorScan, DeleteSDPUser, DeleteUser,
                CreatorClean, CreatorFill, CreatorReady, CreatorNotify,
                CreatorSecrets, CreateIdentity, CreateUserFails, DeleteServiceUser,
                ActivateServiceUser, CreatorDevices, CallSucceeds
  <2>2. QED BY <1>c, <2>1
<1>4. CASE EnvironmentNext
  <2>1. Counts
    BY <1>4 DEF EnvironmentNext, ApplyObject, DeleteObject, PodWatcherRelease,
                FlipLabel, Crash, CreatorFillPanics, CreateUserFails, CallSucceeds
  <2>2. QED BY <1>c, <2>1
<1>5. CASE UNCHANGED vars
  BY <1>5 DEF vars
<1>6. QED BY <1>c, <1>1, <1>2, <1>3, <1>4, <1>5 DEF Next

\* Every step keeps RemovalInv.
LEMMA RemovalStep == ReconcileInv /\ RemovalInv /\ [Next]_vars => RemovalInv'
<1> SUFFICES ASSUME ReconcileInv, RemovalInv, [Next]_vars, failures' = 0
             PROVE  Removals'
  BY DEF RemovalInv
<1>1. TypeOK /\ failures = 0 /\ Removals
  BY FailuresGrow DEF ReconcileInv, RemovalInv
<1>2. ASSUME NEW w \in Watchers, WatcherNext(w) PROVE Removals'
  BY <1>1, <1>2, WatcherRemovals
<1>3. CASE ManagerNext
  BY <1>1, <1>3, SendRemovals, HandlerRemovals, FoundRemovals, GoneRemovals,
     DeleteRemovals, RequestRemovals, ReconcileRemovals DEF ManagerNext
<1>4. CASE CreatorNext
  BY <1>1, <1>4, CreatorRemovals
<1>5. CASE EnvironmentNext
  BY <1>1, <1>5, EnvironmentRemovals
<1>6. CASE UNCHANGED vars
  BY <1>1, <1>6, NothingSent, RemovalKept
     DEF vars, apiVars, watcherVars, managerVars, startupVars, stageVars
<1>7. QED BY <1>2, <1>3, <1>4, <1>5, <1>6 DEF Next

\* The invariant, of every behaviour.
LEMMA RemovalAlways == Spec => []RemovalInv
<1>1. QED BY RemovalInit, RemovalStep, ReconcileInvariant, PTL DEF Spec

\* When the process has come to rest, every ServiceIdentity belongs to a
\* candidate that a watcher tracks, for any number of candidates that came and
\* went and of restarts at any point, as long as no call to Kubernetes or to
\* the controller failed: deleted_service_candidate and the first stage of
\* identity_manager_ready leave nothing behind.
THEOREM SettledNoExtraAlways == Spec => [](failures = 0 => SettledNoExtra)
<1>1. ReconcileInv /\ RemovalInv => (failures = 0 => SettledNoExtra)
  <2> SUFFICES ASSUME ReconcileInv, RemovalInv, failures = 0, Settled,
                      NEW s \in Services, crd[s] # NoUser
               PROVE  Tracked(s)
    BY DEF SettledNoExtra, Tracked
  <2>1. released
    BY DEF Settled, ReconcileInv, WatcherOrder, Watchers
  <2>2. ~Leaving(s)
    BY OneSend DEF Settled, Idle, Leaving
  <2>3. QED BY <2>1, <2>2 DEF RemovalInv, Removals, Running
<1>2. QED BY <1>1, ReconcileInvariant, RemovalAlways, PTL

-----------------------------------------------------------------------------
(***************************************************************************)
(* The pool: users that are in it, on their way to it or ordered.          *)
(***************************************************************************)
\* How many elements of q are in K.
Places(q, K) == {i \in 1..Len(q) : q[i] \in K}
Occurs(q, K) == Cardinality(Places(q, K))

Order == [type |-> "CreateIdentity"]
FreeReports == {Report(u) : u \in Users}
FreeSteps == {[op |-> "notify", m |-> m] : m \in FreeReports}

\* The users that initialize has yet to find or to create.
Outstanding ==
    CASE icphase = "wait" -> PoolSize
      [] icphase = "run" -> 0
      [] OTHER -> nMissing

\* The users of the pool, on their way to it, or yet to be created for it.
Stock == Len(pool)
Announcements == Occurs(imq, FreeReports)
Notifications == Occurs(ictodo, FreeSteps)
Orders == Occurs(icq, {Order})
Ordering == Occurs(todo, {ToCreator(Order)})

Supply ==
    Stock + Announcements + Notifications + Orders + Ordering + Outstanding

\* The inductive form of SettledPool: what is taken from the pool is ordered.
\* (Users stands for the uuids; while one is left, the controller accepts.)
SupplyInv == failures = 0 /\ HasFresh => Supply >= PoolSize

\* Counting is of finite sets.
LEMMA PlacesFinite ==
    ASSUME NEW S, NEW q \in Seq(S), NEW K
    PROVE  IsFiniteSet(Places(q, K)) /\ Occurs(q, K) \in Nat
<1>1. Len(q) \in Nat /\ Places(q, K) \in SUBSET (1..Len(q))
  BY DEF Places
<1>2. IsFiniteSet(1..Len(q))
  BY <1>1, FS_Interval
<1>3. IsFiniteSet(Places(q, K))
  BY <1>1, <1>2, FS_Subset
<1>4. QED BY <1>3, FS_CardinalityType DEF Occurs

\* Nothing occurs in the empty sequence.
LEMMA OccursEmpty == ASSUME NEW K PROVE Occurs(<<>>, K) = 0
<1>1. Places(<<>>, K) = {}
  BY DEF Places
<1>2. QED BY <1>1, FS_EmptySet DEF Occurs

\* One more element.
LEMMA OccursAppend ==
    ASSUME NEW S, NEW q \in Seq(S), NEW e \in S, NEW K, NEW r, r = Append(q, e)
    PROVE  Occurs(r, K) = IF e \in K THEN Occurs(q, K) + 1 ELSE Occurs(q, K)
<1>1. /\ Len(q) \in Nat /\ Len(r) = Len(q) + 1 /\ r[Len(q) + 1] = e
      /\ \A i \in 1..Len(q) : r[i] = q[i]
  BY AppendShape
<1>2. Len(q) + 1 \notin Places(q, K)
  BY <1>1 DEF Places
<1>3. CASE e \in K
  <2>1. Places(r, K) = Places(q, K) \cup {Len(q) + 1}
    BY <1>1, <1>3 DEF Places
  <2>2. QED BY <1>2, <1>3, <2>1, PlacesFinite, FS_AddElement DEF Occurs
<1>4. CASE e \notin K
  <2>1. Places(r, K) = Places(q, K)
    BY <1>1, <1>4 DEF Places
  <2>2. QED BY <1>4, <2>1 DEF Occurs
<1>5. QED BY <1>3, <1>4

\* One element less: the others move up.
LEMMA OccursTail ==
    ASSUME NEW S, NEW q \in Seq(S), q # <<>>, NEW K, NEW r, r = Tail(q)
    PROVE  Occurs(r, K) = IF Head(q) \in K THEN Occurs(q, K) - 1 ELSE Occurs(q, K)
<1> DEFINE P == Places(q, K)
           R == Places(r, K)
           f == [i \in R |-> i + 1]
<1>1. /\ Len(q) \in Nat \ {0} /\ Len(r) = Len(q) - 1 /\ q[1] = Head(q)
      /\ \A i \in 1..Len(r) : r[i] = q[i + 1]
      /\ \A i \in 2..Len(q) : q[i] = r[i - 1]
  BY TailShape
<1>2. r \in Seq(S)
  OBVIOUS
<1>3. IsFiniteSet(P) /\ IsFiniteSet(R)
  BY <1>2, PlacesFinite
<1>4. f \in Bijection(R, P \ {1})
  <2>1. \A i \in R : i \in Nat \ {0} /\ i + 1 \in P \ {1}
    BY <1>1 DEF Places
  <2>2. \A j \in P \ {1} : j - 1 \in R /\ j \in Nat
    BY <1>1 DEF Places
  <2>3. f \in [R -> P \ {1}]
    BY <2>1
  <2>4. \A i, j \in R : f[i] = f[j] => i = j
    BY <2>1
  <2>5. \A j \in P \ {1} : \E i \in R : f[i] = j
    BY <2>2
  <2>6. QED BY <2>3, <2>4, <2>5 DEF Bijection, Injection, Surjection, IsInjective
<1>5. Cardinality(P \ {1}) = Cardinality(R)
  BY <1>3, <1>4, FS_Bijection DEF ExistsBijection
<1>6. 1 \in P <=> Head(q) \in K
  BY <1>1 DEF Places
<1>7. Cardinality(P \ {1}) = IF 1 \in P THEN Cardinality(P) - 1 ELSE Cardinality(P)
  BY <1>3, FS_RemoveElement
<1>8. Cardinality(P) \in Nat
  BY <1>3, FS_CardinalityType
<1>9. QED BY <1>5, <1>6, <1>7, <1>8 DEF Occurs

\* What the counts tell apart.
LEMMA FreeKinds ==
    /\ \A m : m.type # "FoundServiceUser" => m \notin FreeReports
    /\ \A u \in Users : Report(u) \in FreeReports
    /\ \A u : ActiveReport(u) \notin FreeReports
    /\ \A m : Notify(m) \in FreeSteps <=> m \in FreeReports
    /\ \A m : m.op # "notify" => m \notin FreeSteps
    /\ \A m : ToCreator(m) \in {ToCreator(Order)} <=> m \in {Order}
    /\ \A m : m.to # "creator" => m \notin {ToCreator(Order)}
    /\ \A m : m.type # "CreateIdentity" => m \notin {Order}
<1>1. \A m : Notify(m).op = "notify" /\ Notify(m).m = m
  BY WrapKinds
<1>2. \A m : m \in FreeSteps <=> \E n \in FreeReports : m = Notify(n)
  BY DEF FreeSteps, Notify
<1>3. \A m : Notify(m) \in FreeSteps <=> m \in FreeReports
  BY <1>1, <1>2
<1>4. \A m : m.op # "notify" => m \notin FreeSteps
  BY <1>1, <1>2
<1>5. \A m : m \in FreeReports <=> \E u \in Users : m = Report(u)
  BY DEF FreeReports
<1>6. /\ \A m : m.type # "FoundServiceUser" => m \notin FreeReports
      /\ \A u \in Users : Report(u) \in FreeReports
      /\ \A u : ActiveReport(u) \notin FreeReports
  BY <1>5, ReportKinds
<1>7. /\ \A m : ToCreator(m) \in {ToCreator(Order)} <=> m \in {Order}
      /\ \A m : m.to # "creator" => m \notin {ToCreator(Order)}
  BY WrapKinds
<1>8. \A m : m.type # "CreateIdentity" => m \notin {Order}
  BY DEF Order
<1>9. QED BY <1>3, <1>4, <1>6, <1>7, <1>8

\* Every term of the sum is a number.
SupplyTerms ==
    /\ Stock \in Nat /\ Announcements \in Nat /\ Notifications \in Nat
    /\ Orders \in Nat /\ Ordering \in Nat /\ Outstanding \in Nat

\* Occurrences are counted in finite sequences.
LEMMA SupplyTyped == TypeOK => SupplyTerms
<1> SUFFICES ASSUME TypeOK PROVE SupplyTerms
  OBVIOUS
<1>1. /\ imq \in Seq(ManagerMsg) /\ icq \in Seq(CreatorMsg) /\ pool \in Seq(Users)
      /\ todo \in Seq(ManagerSend) /\ ictodo \in Seq(CreatorStep)
      /\ PoolSize \in Nat /\ nMissing \in 0..PoolSize
  BY ConstantsAssumption DEF TypeOK, ChannelsTypeOK, ManagerTypeOK, CreatorTypeOK
<1>2. Stock \in Nat /\ Outstanding \in Nat
  BY <1>1 DEF Stock, Outstanding
<1>3. QED BY <1>1, <1>2, PlacesFinite
          DEF SupplyTerms, Announcements, Notifications, Orders, Ordering

\* A step changes each term at least by this much.
Moves(p, a, n, o, d, i) ==
    /\ Stock' >= Stock + p
    /\ Announcements' >= Announcements + a
    /\ Notifications' >= Notifications + n
    /\ Orders' >= Orders + o
    /\ Ordering' >= Ordering + d
    /\ Outstanding' >= Outstanding + i

\* Users are only moved from one term to another.
LEMMA SupplyMoved ==
    ASSUME TypeOK, TypeOK', Supply >= PoolSize,
           NEW p \in Int, NEW a \in Int, NEW n \in Int, NEW o \in Int, NEW d \in Int,
           NEW i \in Int, p + a + n + o + d + i = 0, Moves(p, a, n, o, d, i)
    PROVE  Supply' >= PoolSize
<1>1. SupplyTerms /\ SupplyTerms' /\ PoolSize \in Nat
  BY SupplyTyped, ConstantsAssumption, PTL
<1> DEFINE S == Supply         S1 == Supply'          P == Stock    P1 == Stock'
           A == Announcements  A1 == Announcements'   O == Orders   O1 == Orders'
           N == Notifications  N1 == Notifications'
           D == Ordering       D1 == Ordering'
           I == Outstanding    I1 == Outstanding'
<1>2. /\ S = P + A + N + O + D + I /\ S1 = P1 + A1 + N1 + O1 + D1 + I1
      /\ P \in Nat /\ A \in Nat /\ N \in Nat /\ O \in Nat /\ D \in Nat /\ I \in Nat
      /\ P1 \in Nat /\ A1 \in Nat /\ N1 \in Nat /\ O1 \in Nat /\ D1 \in Nat
      /\ I1 \in Nat /\ PoolSize \in Nat
  BY <1>1 DEF Supply, SupplyTerms
<1>3. /\ S >= PoolSize /\ P1 >= P + p /\ A1 >= A + a /\ N1 >= N + n
      /\ O1 >= O + o /\ D1 >= D + d /\ I1 >= I + i
  BY DEF Moves
<1> HIDE DEF S, S1, P, P1, A, A1, N, N1, O, O1, D, D1, I, I1
<1>4. S1 >= PoolSize
  BY <1>2, <1>3
<1>5. QED BY <1>4 DEF S1

\* What is enough by itself.
LEMMA SupplyEnough ==
    ASSUME TypeOK', Stock' >= PoolSize \/ Outstanding' >= PoolSize
    PROVE  Supply' >= PoolSize
<1>1. SupplyTerms' /\ PoolSize \in Nat
  BY SupplyTyped, ConstantsAssumption, PTL
<1> DEFINE S == Supply'  P == Stock'  A == Announcements'  N == Notifications'
           O == Orders'  D == Ordering'  I == Outstanding'
<1>2. /\ S = P + A + N + O + D + I
      /\ P \in Nat /\ A \in Nat /\ N \in Nat /\ O \in Nat /\ D \in Nat /\ I \in Nat
      /\ PoolSize \in Nat
      /\ P >= PoolSize \/ I >= PoolSize
  BY <1>1 DEF Supply, SupplyTerms
<1> HIDE DEF S, P, A, N, O, D, I
<1>3. S >= PoolSize
  BY <1>2
<1>4. QED BY <1>3 DEF S

\* The manager's channel when no report of a user is sent or received.
LEMMA AnnouncementsKept ==
    ASSUME imq \in Seq(ManagerMsg),
           \/ imq' = imq
           \/ imq # <<>> /\ imq' = Tail(imq) /\ Head(imq).type # "FoundServiceUser"
           \/ \E m \in ManagerMsg :
                 imq' = Append(imq, m) /\ m.type # "FoundServiceUser"
    PROVE  Announcements' = Announcements
<1>1. CASE imq' = imq
  BY <1>1 DEF Announcements
<1>2. CASE imq # <<>> /\ imq' = Tail(imq) /\ Head(imq).type # "FoundServiceUser"
  BY <1>2, OccursTail, FreeKinds DEF Announcements
<1>3. ASSUME NEW m \in ManagerMsg, imq' = Append(imq, m), m.type # "FoundServiceUser"
      PROVE  Announcements' = Announcements
  <2>1. m \notin FreeReports
    BY <1>3, FreeKinds
  <2>2. Occurs(imq', FreeReports) = Occurs(imq, FreeReports)
    BY <1>3, <2>1, OccursAppend
  <2>3. QED BY <2>2 DEF Announcements
<1>4. QED BY <1>1, <1>2, <1>3

\* The creator's channel when no order is sent or received.
LEMMA OrdersKept ==
    ASSUME icq \in Seq(CreatorMsg),
           \/ icq' = icq
           \/ icq # <<>> /\ icq' = Tail(icq) /\ Head(icq).type # "CreateIdentity"
           \/ \E m \in CreatorMsg :
                 icq' = Append(icq, m) /\ m.type # "CreateIdentity"
    PROVE  Orders' = Orders
<1>1. CASE icq' = icq
  BY <1>1 DEF Orders
<1>2. CASE icq # <<>> /\ icq' = Tail(icq) /\ Head(icq).type # "CreateIdentity"
  BY <1>2, OccursTail, FreeKinds DEF Orders
<1>3. ASSUME NEW m \in CreatorMsg, icq' = Append(icq, m), m.type # "CreateIdentity"
      PROVE  Orders' = Orders
  <2>1. m \notin {Order}
    BY <1>3, FreeKinds
  <2>2. Occurs(icq', {Order}) = Occurs(icq, {Order})
    BY <1>3, <2>1, OccursAppend
  <2>3. QED BY <2>2 DEF Orders
<1>4. QED BY <1>1, <1>2, <1>3

\* A message is sent to the manager.
LEMMA AnnouncementSent ==
    ASSUME imq \in Seq(ManagerMsg), NEW m \in ManagerMsg, imq' = Append(imq, m)
    PROVE  Announcements' = IF m \in FreeReports THEN Announcements + 1
                            ELSE Announcements
<1>1. Occurs(imq', FreeReports)
          = IF m \in FreeReports THEN Occurs(imq, FreeReports) + 1
            ELSE Occurs(imq, FreeReports)
  BY OccursAppend
<1>2. QED BY <1>1 DEF Announcements

\* Between two handlers nothing waits to be sent.
LEMMA NothingPending ==
    /\ todo = <<>> => Ordering = 0
    /\ ictodo = <<>> => Notifications = 0
BY OccursEmpty DEF Ordering, Notifications

\* Nothing is added to the pool or taken from it, and nothing is ordered.
LEMMA SupplyKept ==
    ASSUME TypeOK, TypeOK', Supply >= PoolSize,
           UNCHANGED <<pool, icphase, nMissing>>,
           Announcements' = Announcements, Orders' = Orders,
           todo' = todo \/ todo = <<>>, ictodo' = ictodo \/ ictodo = <<>>
    PROVE  Supply' >= PoolSize
<1>1. SupplyTerms /\ SupplyTerms'
  BY SupplyTyped, PTL
<1>2. Stock' = Stock /\ Outstanding' = Outstanding
  BY DEF Stock, Outstanding
<1>3. todo' = todo => Ordering' = Ordering
  BY DEF Ordering
<1>4. ictodo' = ictodo => Notifications' = Notifications
  BY DEF Notifications
<1>5. Ordering' >= Ordering /\ Notifications' >= Notifications
  BY <1>1, <1>3, <1>4, NothingPending DEF SupplyTerms
<1>6. Moves(0, 0, 0, 0, 0, 0)
  BY <1>1, <1>2, <1>5 DEF Moves, SupplyTerms
<1>7. QED BY <1>6, SupplyMoved

\* The watchers and the environment, as long as the process goes on.
LEMMA OutsideSupply ==
    ASSUME TypeOK, TypeOK', Supply >= PoolSize,
           UNCHANGED <<icq, pool, todo, icphase, nMissing, ictodo>>,
           \/ imq' = imq
           \/ \E m \in ManagerMsg :
                 imq' = Append(imq, m) /\ m.type # "FoundServiceUser"
    PROVE  Supply' >= PoolSize
<1>1. imq \in Seq(ManagerMsg) /\ icq \in Seq(CreatorMsg)
  BY DEF TypeOK, ChannelsTypeOK
<1>2. Announcements' = Announcements
  BY <1>1, AnnouncementsKept
<1>3. Orders' = Orders
  BY <1>1, OrdersKept
<1>4. QED BY <1>2, <1>3, SupplyKept

\* The watchers send nothing about users.
LEMMA WatcherSupply ==
    ASSUME TypeOK, TypeOK', Supply >= PoolSize, NEW w \in Watchers, WatcherNext(w)
    PROVE  Supply' >= PoolSize
<1>1. UNCHANGED <<icq, pool, todo, icphase, nMissing, ictodo>>
  BY DEF WatcherNext, WatcherList, WatcherNotify, WatcherStart, WatcherRelist,
         WatcherInitialized, WatcherApply, WatcherDelete, WatcherEvent, WatcherFrame,
         managerVars, creatorVars, scanVars
<1>2. ASSUME NEW m, SendToManager(m), m \in Harmless
      PROVE  \E n \in ManagerMsg : imq' = Append(imq, n) /\ n.type # "FoundServiceUser"
  BY <1>2 DEF SendToManager, Harmless
<1>3. \/ imq' = imq
      \/ \E m \in Harmless : SendToManager(m)
  BY WatcherMessages
     DEF WatcherNext, WatcherList, WatcherNotify, WatcherStart, WatcherRelist,
         WatcherInitialized, WatcherApply, WatcherDelete
<1>4. QED BY <1>1, <1>2, <1>3, OutsideSupply

\* The environment, a restart included.
LEMMA EnvironmentSupply ==
    ASSUME TypeOK, TypeOK', Supply >= PoolSize, EnvironmentNext
    PROVE  Supply' >= PoolSize
<1> USE DEF managerVars, creatorVars, scanVars
<1>1. ASSUME NEW o \in Objects, ApplyObject(o[1], o[2]) \/ DeleteObject(o[1], o[2])
      PROVE  Supply' >= PoolSize
  BY <1>1, OutsideSupply DEF ApplyObject, DeleteObject
<1>2. ASSUME NEW s \in Services, FlipLabel(s) PROVE Supply' >= PoolSize
  BY <1>2, OutsideSupply DEF FlipLabel, clusterVars
<1>3. ASSUME NEW s \in Services, PodWatcherRelease(s) PROVE Supply' >= PoolSize
  <2> DEFINE m == [type |-> "ReleaseDeviceId", s |-> s]
  <2>1. m \in ManagerMsg /\ m.type # "FoundServiceUser"
    BY ManagerMessages
  <2>2. imq' = Append(imq, m)
    BY <1>3 DEF PodWatcherRelease, SendToManager
  <2>3. UNCHANGED <<icq, pool, todo, icphase, nMissing, ictodo>>
    BY <1>3 DEF PodWatcherRelease
  <2> HIDE DEF m
  <2>4. QED BY <2>1, <2>2, <2>3, OutsideSupply
<1>4. CASE Restart
  \* A new process has its whole pool yet to find or to create.
  <2>1. Outstanding' = PoolSize
    BY <1>4 DEF Restart, Outstanding
  <2>2. QED BY <2>1, SupplyEnough, ConstantsAssumption
<1>5. QED BY <1>1, <1>2, <1>3, <1>4 DEF EnvironmentNext, Crash, CreatorFillPanics

-----------------------------------------------------------------------------
\* A pending send: an order goes from the handler to the creator's channel.
LEMMA SendSupply ==
    ASSUME TypeOK, TypeOK', Supply >= PoolSize, ManagerInitialize \/ ManagerSendNext
    PROVE  Supply' >= PoolSize
<1>t. /\ imq \in Seq(ManagerMsg) /\ icq \in Seq(CreatorMsg)
      /\ todo \in Seq(ManagerSend)
  BY DEF TypeOK, ChannelsTypeOK, ManagerTypeOK
<1>n. SupplyTerms /\ SupplyTerms'
  BY SupplyTyped, PTL
<1> USE DEF ManagerFrame, creatorVars, scanVars
<1>1. CASE ManagerInitialize
  <2> DEFINE m == [type |-> "StartService"]
  <2>1. m \in CreatorMsg /\ m.type # "CreateIdentity"
    BY DEF CreatorMsg
  <2>2. /\ icq' = Append(icq, m) /\ imq' = imq
        /\ UNCHANGED <<pool, todo, icphase, nMissing, ictodo>>
    BY <1>1 DEF ManagerInitialize, SendToCreator
  <2> HIDE DEF m
  <2>3. Orders' = Orders
    BY <1>t, <2>1, <2>2, OrdersKept
  <2>4. Announcements' = Announcements
    BY <1>t, <2>2, AnnouncementsKept
  <2>5. QED BY <2>2, <2>3, <2>4, SupplyKept
<1>2. CASE ManagerSendNext
  <2> DEFINE m == Head(todo).m
  <2>1. /\ todo # <<>> /\ todo' = Tail(todo) /\ Head(todo) \in ManagerSend
        /\ UNCHANGED <<pool, icphase, nMissing, ictodo>>
        /\ \/ Head(todo).to = "creator" /\ imq' = imq /\ icq' = Append(icq, m)
           \/ Head(todo).to = "manager" /\ icq' = icq /\ imq' = Append(imq, m)
    BY <1>2, <1>t DEF ManagerSendNext, SendToManager, SendToCreator
  <2>2. /\ Stock' = Stock /\ Outstanding' = Outstanding
        /\ Notifications' = Notifications
    BY <2>1 DEF Stock, Outstanding, Notifications
  <2>3. Ordering' = IF Head(todo) \in {ToCreator(Order)} THEN Ordering - 1 ELSE Ordering
    BY <1>t, <2>1, OccursTail DEF Ordering
  <2>4. CASE Head(todo).to = "creator" /\ imq' = imq /\ icq' = Append(icq, m)
    <3>1. m \in CreatorMsg /\ Head(todo) = ToCreator(m)
      BY <2>1, <2>4 DEF ManagerSend, ToCreator
    <3>2. icq' = Append(icq, m)
      BY <2>4
    <3> HIDE DEF m
    <3>3. Orders' = IF m \in {Order} THEN Orders + 1 ELSE Orders
      BY <1>t, <3>1, <3>2, OccursAppend DEF Orders
    <3>4. Announcements' = Announcements
      BY <2>4 DEF Announcements
    <3>5. Head(todo) \in {ToCreator(Order)} <=> m \in {Order}
      BY <3>1, FreeKinds
    <3>6. CASE m \in {Order}
      <4>1. Orders' = Orders + 1 /\ Ordering' = Ordering - 1
        BY <2>3, <3>3, <3>5, <3>6
      <4>2. Moves(0, 0, 0, 1, -1, 0)
        BY <1>n, <2>2, <3>4, <4>1 DEF Moves, SupplyTerms
      <4>3. QED BY <4>2, SupplyMoved
    <3>7. CASE m \notin {Order}
      <4>1. Orders' = Orders /\ Ordering' = Ordering
        BY <2>3, <3>3, <3>5, <3>7
      <4>2. Moves(0, 0, 0, 0, 0, 0)
        BY <1>n, <2>2, <3>4, <4>1 DEF Moves, SupplyTerms
      <4>3. QED BY <4>2, SupplyMoved
    <3>8. QED BY <3>6, <3>7
  <2>5. CASE Head(todo).to = "manager" /\ icq' = icq /\ imq' = Append(imq, m)
    <3>1. m \in DeleteMsg \cup {IdentityManagerReady}
      BY <2>1, <2>5 DEF ManagerSend
    <3>2. m \in ManagerMsg /\ m.type # "FoundServiceUser"
      BY <3>1, OtherKinds, Kinds DEF ManagerMsg
    <3>3. imq' = Append(imq, m)
      BY <2>5
    <3> HIDE DEF m
    <3>4. Announcements' = Announcements
      BY <1>t, <3>2, <3>3, AnnouncementsKept
    <3>5. Orders' = Orders
      BY <2>5 DEF Orders
    <3>6. Ordering' = Ordering
      BY <2>3, <2>5, FreeKinds
    <3>7. Moves(0, 0, 0, 0, 0, 0)
      BY <1>n, <2>2, <3>4, <3>5, <3>6 DEF Moves, SupplyTerms
    <3>8. QED BY <3>7, SupplyMoved
  <2>6. QED BY <2>1, <2>4, <2>5
<1>3. QED BY <1>1, <1>2

\* A handler that leaves the pool alone.
LEMMA ReceiveSupply ==
    ASSUME TypeOK, TypeOK', Supply >= PoolSize, ManagerFrame, UNCHANGED <<pool, icq>>,
           NEW m, Receive(m), m.type # "FoundServiceUser"
    PROVE  Supply' >= PoolSize
<1>1. imq \in Seq(ManagerMsg) /\ icq \in Seq(CreatorMsg)
  BY DEF TypeOK, ChannelsTypeOK
<1>2. imq # <<>> /\ m = Head(imq) /\ imq' = Tail(imq) /\ todo = <<>>
  BY DEF Receive, Idle
<1>3. Announcements' = Announcements
  BY <1>1, <1>2, AnnouncementsKept
<1>4. Orders' = Orders
  BY DEF Orders
<1>5. UNCHANGED <<icphase, nMissing, ictodo>>
  BY DEF ManagerFrame, creatorVars, scanVars
<1>6. QED BY <1>2, <1>3, <1>4, <1>5, SupplyKept

\* The handlers that leave the pool alone.
LEMMA HandlerSupply ==
    ASSUME TypeOK, TypeOK', Supply >= PoolSize,
           \/ identity_creator_ready
           \/ \E w \in Watchers : deployment_watcher_ready(w)
           \/ \E s \in Services : \/ found_service_candidate(s)
                                  \/ deleted_service_candidate(s)
                                  \/ release_device_id(s)
           \/ \E s \in Services, u \in Users : \/ delete_service_identity(s, u)
                                               \/ activated_service_user(s, u)
           \/ ReconcileStart
    PROVE  Supply' >= PoolSize
<1>1. CASE identity_creator_ready \/ ReconcileStart
  BY <1>1, Kinds, ReceiveSupply DEF identity_creator_ready, ReconcileStart
<1>2. ASSUME NEW w \in Watchers, deployment_watcher_ready(w) PROVE Supply' >= PoolSize
  <2>1. DeploymentWatcherReady(w).type # "FoundServiceUser"
    BY Kinds
  <2>2. QED BY <1>2, <2>1, ReceiveSupply DEF deployment_watcher_ready
<1>3. ASSUME NEW s \in Services, found_service_candidate(s) PROVE Supply' >= PoolSize
  <2>1. FoundServiceCandidate(s).type # "FoundServiceUser"
    BY Kinds
  <2>2. QED BY <1>3, <2>1, ReceiveSupply DEF found_service_candidate
<1>4. ASSUME NEW s \in Services, deleted_service_candidate(s) PROVE Supply' >= PoolSize
  <2>1. Gone(s).type # "FoundServiceUser"
    BY ServiceKinds
  <2>2. QED BY <1>4, <2>1, ReceiveSupply DEF deleted_service_candidate, Gone
<1>5. ASSUME NEW s \in Services, release_device_id(s) PROVE Supply' >= PoolSize
  <2> DEFINE m == [type |-> "ReleaseDeviceId", s |-> s]
  <2>1. m.type # "FoundServiceUser" /\ Receive(m)
    BY <1>5 DEF release_device_id
  <2> HIDE DEF m
  <2>2. QED BY <1>5, <2>1, ReceiveSupply DEF release_device_id
<1>6. ASSUME NEW s \in Services, NEW u \in Users,
             delete_service_identity(s, u) \/ activated_service_user(s, u)
      PROVE  Supply' >= PoolSize
  <2>1. /\ Removal(s, u).type # "FoundServiceUser"
        /\ Activation(s, u).type # "FoundServiceUser"
    BY ServiceKinds, TokenKinds
  <2>2. QED BY <1>6, <2>1, ReceiveSupply
            DEF delete_service_identity, activated_service_user, Removal, Activation
<1>7. QED BY <1>1, <1>2, <1>3, <1>4, <1>5, <1>6

\* A free user that was reported enters the pool.
LEMMA FoundSupply ==
    ASSUME TypeOK, TypeOK', Supply >= PoolSize, NEW u \in Users, NEW on \in BOOLEAN,
           found_service_user(u, on)
    PROVE  Supply' >= PoolSize
<1>t. imq \in Seq(ManagerMsg) /\ pool \in Seq(Users)
  BY DEF TypeOK, ChannelsTypeOK, ManagerTypeOK
<1>n. SupplyTerms /\ SupplyTerms'
  BY SupplyTyped, PTL
<1>1. /\ imq # <<>> /\ Head(imq) = FoundServiceUser(u, on) /\ imq' = Tail(imq)
      /\ UNCHANGED <<icq, todo, icphase, nMissing, ictodo>>
      /\ \/ on = TRUE /\ pool' = pool
         \/ on = FALSE /\ pool' = Append(pool, u)
  BY DEF found_service_user, Receive, ManagerFrame, creatorVars, scanVars
<1>2. Announcements' = IF Head(imq) \in FreeReports THEN Announcements - 1
                       ELSE Announcements
  BY <1>t, <1>1, OccursTail DEF Announcements
<1>3. /\ Notifications' = Notifications /\ Orders' = Orders
      /\ Ordering' = Ordering /\ Outstanding' = Outstanding
  BY <1>1 DEF Notifications, Orders, Ordering, Outstanding
<1>4. CASE on = TRUE /\ pool' = pool
  <2>1. Head(imq) = ActiveReport(u)
    BY <1>1, <1>4 DEF ActiveReport
  <2>2. Announcements' = Announcements
    BY <1>2, <2>1, FreeKinds
  <2>3. Stock' = Stock
    BY <1>4 DEF Stock
  <2>4. Moves(0, 0, 0, 0, 0, 0)
    BY <1>n, <1>3, <2>2, <2>3 DEF Moves, SupplyTerms
  <2>5. QED BY <2>4, SupplyMoved
<1>5. CASE on = FALSE /\ pool' = Append(pool, u)
  <2>1. Announcements' >= Announcements + (-1)
    BY <1>n, <1>2 DEF SupplyTerms
  <2>2. Stock' = Stock + 1
    BY <1>t, <1>5, AppendShape DEF Stock
  <2>3. Moves(1, -1, 0, 0, 0, 0)
    BY <1>n, <1>3, <2>1, <2>2 DEF Moves, SupplyTerms
  <2>4. QED BY <2>3, SupplyMoved
<1>6. QED BY <1>1, <1>4, <1>5

\* A user is taken from the pool and ordered again, unless the pool is full.
LEMMA TakenSupply ==
    ASSUME TypeOK, TypeOK', Supply >= PoolSize, failures = 0, failures' = 0,
           services = crd, NEW s \in Services, RequestIdentity(s), todo = <<>>,
           Announcements' = Announcements,
           UNCHANGED <<icq, icphase, nMissing, ictodo>>
    PROVE  Supply' >= PoolSize
<1>t. pool \in Seq(Users) /\ todo' \in Seq(ManagerSend) /\ PoolSize \in Nat
  BY ConstantsAssumption DEF TypeOK, ManagerTypeOK
<1>n. SupplyTerms /\ SupplyTerms'
  BY SupplyTyped, PTL
<1>1. Orders' = Orders
  BY DEF Orders
<1> DEFINE first == ToCreator(Order)
           second == ToCreator(Activate(s, Head(pool)))
           sends == (IF needs_new_credentials(pop(pool)) THEN <<first>> ELSE <<>>)
                        \o <<second>>
<1>2. \/ pool' = pool
      \/ pool # <<>> /\ pool' = Tail(pool) /\ todo' = sends
  <2>1. CASE Registered(s) \/ pool = <<>>
    BY <2>1 DEF RequestIdentity
  <2>2. CASE ~(Registered(s) \/ pool = <<>>)
    <3>1. crd[s] = NoUser /\ ~CallFails
      BY <2>2 DEF Registered, CallFails
    <3>2. pool # <<>> /\ pool' = pop(pool) /\ todo' = sends
      BY <2>2, <3>1 DEF RequestIdentity, Order, Activate
    <3>3. QED BY <3>2 DEF pop
  <2>3. QED BY <2>1, <2>2
<1>3. CASE pool' = pool
  BY <1>1, <1>3, SupplyKept
<1>4. CASE pool # <<>> /\ pool' = Tail(pool)
  <2>1. Stock' = Stock - 1 /\ Len(pool') = Stock' /\ Stock' \in Nat
    BY <1>t, <1>4, TailShape DEF Stock
  <2>2. CASE Len(pool') < PoolSize
    <3>1. todo' = <<first>> \o <<second>>
      <4>1. pool' # pool
        BY <1>n, <2>1 DEF Stock, SupplyTerms
      <4>2. needs_new_credentials(pop(pool))
        BY <1>4, <2>2 DEF needs_new_credentials, pop
      <4> HIDE DEF first, second
      <4>3. sends = <<first>> \o <<second>>
        BY <4>2
      <4>4. QED BY <1>2, <4>1, <4>3
    <3>2. todo' # <<>> /\ Head(todo') = first /\ Tail(todo') \in Seq(ManagerSend)
      <4> HIDE DEF first, second
      <4>1. Len(todo') = 2 /\ todo'[1] = first
        BY <3>1
      <4>2. todo' # <<>>
        BY <4>1
      <4>3. Tail(todo') \in Seq(ManagerSend)
        BY <1>t, <4>2
      <4>4. Head(todo') = todo'[1]
        BY <1>t, <4>2, TailShape
      <4>5. QED BY <4>1, <4>2, <4>3, <4>4
    <3>3. Head(todo') \in {ToCreator(Order)}
      BY <3>2
    <3>4. Occurs(Tail(todo'), {ToCreator(Order)}) \in Nat
      BY <3>2, PlacesFinite
    <3>5. Occurs(Tail(todo'), {ToCreator(Order)}) = Ordering' - 1
      BY <1>t, <3>2, <3>3, OccursTail DEF Ordering
    <3>6. Ordering' >= 1
      BY <1>n, <3>4, <3>5 DEF SupplyTerms
    <3>7. Ordering = 0
      BY NothingPending
    <3>8. Notifications' = Notifications /\ Outstanding' = Outstanding
      BY DEF Notifications, Outstanding
    <3>9. Moves(-1, 0, 0, 0, 1, 0)
      BY <1>n, <1>1, <2>1, <3>6, <3>7, <3>8 DEF Moves, SupplyTerms
    <3>10. QED BY <3>9, SupplyMoved
  <2>3. CASE ~(Len(pool') < PoolSize)
    <3>1. Stock' >= PoolSize
      BY <1>t, <2>1, <2>3
    <3>2. QED BY <3>1, SupplyEnough
  <2>4. QED BY <2>2, <2>3
<1>5. QED BY <1>2, <1>3, <1>4

\* The requests of a watcher and of the last stage of the reconciliation.
LEMMA RequestSupply ==
    ASSUME TypeOK, TypeOK', Supply >= PoolSize, failures = 0, failures' = 0, Removals,
           NEW s \in Services, request_service_identity(s) \/ ReconcileMissing(s)
    PROVE  Supply' >= PoolSize
<1>t. imq \in Seq(ManagerMsg)
  BY DEF TypeOK, ChannelsTypeOK
<1>1. /\ services = crd /\ RequestIdentity(s) /\ todo = <<>>
      /\ UNCHANGED <<icq, icphase, nMissing, ictodo>>
  BY DEF request_service_identity, ReconcileMissing, Receive, Idle, InStage,
         Removals, MemoryIsObject, ManagerFrame, creatorVars, scanVars
<1>2. \/ imq' = imq
      \/ imq # <<>> /\ imq' = Tail(imq) /\ Head(imq) = Requested(s)
  BY DEF request_service_identity, ReconcileMissing, Receive, Requested
<1>3. Announcements' = Announcements
  BY <1>t, <1>2, ServiceKinds, AnnouncementsKept
<1>4. QED BY <1>1, <1>3, TakenSupply

\* The other stages: the creator is told to delete users, none is ordered.
LEMMA ReconcileSupply ==
    ASSUME TypeOK, TypeOK', Supply >= PoolSize,
           \/ ReconcileExtraDone \/ ReconcileUsersDone \/ ReconcileStaleDone
           \/ ReconcileDone
           \/ \E s \in Services : ReconcileDelete(s)
           \/ \E u \in Users : ReconcileUser(u)
    PROVE  Supply' >= PoolSize
<1>t. icq \in Seq(CreatorMsg)
  BY DEF TypeOK, ChannelsTypeOK
<1>1. /\ UNCHANGED <<imq, pool, icphase, nMissing, ictodo>>
      /\ todo = <<>>
  BY DEF ReconcileExtraDone, ReconcileUsersDone, ReconcileStaleDone, ReconcileDone,
         ReconcileDelete, ReconcileUser, InStage, ManagerFrame, creatorVars, scanVars
<1>2. /\ [type |-> "ReconcileSDPUsers"] \in CreatorMsg
      /\ [type |-> "ReconcileSDPUsers"].type # "CreateIdentity"
      /\ \A u \in Users : DeleteOnly(u) \in CreatorMsg /\ DeleteOnly(u).type # "CreateIdentity"
  BY DEF CreatorMsg, DeleteOnly
<1>3. \/ icq' = icq
      \/ icq' = Append(icq, [type |-> "ReconcileSDPUsers"])
      \/ \E u \in Users : icq' = Append(icq, DeleteOnly(u))
  BY DEF ReconcileExtraDone, ReconcileUsersDone, ReconcileStaleDone, ReconcileDone,
         ReconcileDelete, ReconcileUser, SendToCreator, DeleteOnly
<1>4. Orders' = Orders
  BY <1>t, <1>2, <1>3, OrdersKept
<1>5. Announcements' = Announcements
  BY <1>1 DEF Announcements
<1>6. QED BY <1>1, <1>4, <1>5, SupplyKept

\* The single report of a user that was just created.
LEMMA OneFree ==
    ASSUME NEW u \in Users
    PROVE  Occurs(<<Notify(Report(u))>>, FreeSteps) = 1
<1> DEFINE e == Notify(Report(u))
<1>1. e \in FreeSteps
  BY FreeKinds
<1> HIDE DEF e
<1>2. Places(<<e>>, FreeSteps) = {1}
  BY <1>1 DEF Places
<1>3. Occurs(<<e>>, FreeSteps) = 1
  BY <1>2, FS_Singleton DEF Occurs
<1>4. QED BY <1>3 DEF e

-----------------------------------------------------------------------------
\* The steps of initialize: a user that is reported, or created, is no longer
\* outstanding.
LEMMA InitializeSupply ==
    ASSUME TypeOK, TypeOK', Supply >= PoolSize, failures = 0, failures' = 0,
           \/ CreatorStart \/ CreatorClean \/ CreatorFill \/ CreatorReady
           \/ \E u \in Users : CreatorScan(u)
    PROVE  Supply' >= PoolSize
<1>t. /\ imq \in Seq(ManagerMsg) /\ icq \in Seq(CreatorMsg)
      /\ nMissing \in 0..PoolSize /\ nMissing' \in 0..PoolSize /\ PoolSize \in Nat
  BY ConstantsAssumption DEF TypeOK, ChannelsTypeOK, CreatorTypeOK
<1>n. SupplyTerms /\ SupplyTerms'
  BY SupplyTyped, PTL
<1>f. UNCHANGED <<pool, todo>> /\ Stock' = Stock /\ Ordering' = Ordering
  BY DEF CreatorStart, CreatorClean, CreatorFill, CreatorReady, CreatorScan,
         CreatorFrame, managerVars, Stock, Ordering
<1>1. CASE CreatorStart
  <2>1. Outstanding' = PoolSize
    BY <1>1 DEF CreatorStart, Outstanding, scanVars
  <2>2. QED BY <1>t, <2>1, SupplyEnough
<1>2. CASE CreatorClean
  <2>1. /\ Announcements' = Announcements /\ Notifications' = Notifications
        /\ Orders' = Orders /\ Outstanding' = Outstanding
    BY <1>2 DEF CreatorClean, scanVars, Announcements, Notifications, Orders,
                Outstanding
  <2>2. Moves(0, 0, 0, 0, 0, 0)
    BY <1>n, <1>f, <2>1 DEF Moves, SupplyTerms
  <2>3. QED BY <2>2, SupplyMoved
<1>3. CASE CreatorFill
  <2>1. Announcements' = Announcements /\ Orders' = Orders
    BY <1>3 DEF CreatorFill, Announcements, Orders
  <2>2. Outstanding' = Outstanding - 1
    BY <1>t, <1>3 DEF CreatorFill, Outstanding
  <2>3. Notifications' = 1 /\ Notifications = 0
    <3>1. NewUser \in Users /\ ictodo = <<>> /\ ictodo' = <<Notify(Report(NewUser))>>
      BY <1>3 DEF CreatorFill, HasFresh, NewUser, NotifyFree, Notify, Report
    <3>2. QED BY <3>1, OneFree, NothingPending DEF Notifications
  <2>4. Moves(0, 0, 1, 0, 0, -1)
    BY <1>n, <1>f, <2>1, <2>2, <2>3 DEF Moves, SupplyTerms
  <2>5. QED BY <2>4, SupplyMoved
<1>4. CASE CreatorReady
  <2>1. imq' = Append(imq, IdentityCreatorReady) /\ UNCHANGED <<icq, ictodo>>
    BY <1>4 DEF CreatorReady, SendToManager
  <2>2. Announcements' = Announcements
    BY <1>t, <2>1, ManagerMessages, Kinds, AnnouncementsKept
  <2>3. Notifications' = Notifications /\ Orders' = Orders
    BY <2>1 DEF Notifications, Orders
  <2>4. Outstanding = 0 /\ Outstanding' = 0
    BY <1>4 DEF CreatorReady, Outstanding
  <2>5. Moves(0, 0, 0, 0, 0, 0)
    BY <1>n, <1>f, <2>2, <2>3, <2>4 DEF Moves, SupplyTerms
  <2>6. QED BY <2>5, SupplyMoved
<1>5. ASSUME NEW u \in Users, CreatorScan(u) PROVE Supply' >= PoolSize
  <2>1. Notifications' = Notifications /\ Orders' = Orders
    BY <1>5 DEF CreatorScan, Notifications, Orders
  <2>2. CASE UNCHANGED <<imq, nMissing>>
    <3>1. Announcements' = Announcements /\ Outstanding' = Outstanding
      BY <1>5, <2>2 DEF CreatorScan, Announcements, Outstanding
    <3>2. Moves(0, 0, 0, 0, 0, 0)
      BY <1>n, <1>f, <2>1, <3>1 DEF Moves, SupplyTerms
    <3>3. QED BY <3>2, SupplyMoved
  <2>3. CASE ~UNCHANGED <<imq, nMissing>>
    <3> DEFINE m == FoundServiceUser(u, sdp[u] = "enabled")
    <3>1. /\ imq' = Append(imq, m)
          /\ nMissing' = IF sdp[u] = "disabled" /\ nMissing > 0 THEN nMissing - 1
                         ELSE nMissing
      BY <1>5, <2>3 DEF CreatorScan, SendToManager, CallFails
    <3>2. Outstanding = nMissing /\ Outstanding' = nMissing'
      BY <1>5 DEF CreatorScan, Outstanding
    <3>3. CASE sdp[u] = "disabled"
      <4>1. m = Report(u)
        <5>1. (sdp[u] = "enabled") = FALSE
          BY <3>3
        <5>2. QED BY <5>1, Zenon DEF Report
      <4>2. imq' = Append(imq, Report(u)) /\ Report(u) \in ManagerMsg
            /\ Report(u) \in FreeReports
        BY <3>1, <4>1, ManagerMessages, FreeKinds DEF Report
      <4>3. Announcements' = Announcements + 1
        BY <1>t, <4>2, AnnouncementSent
      <4>4. Outstanding' >= Outstanding + (-1)
        BY <1>t, <3>1, <3>2
      <4>5. Moves(0, 1, 0, 0, 0, -1)
        BY <1>n, <1>f, <2>1, <4>3, <4>4 DEF Moves, SupplyTerms
      <4>6. QED BY <4>5, SupplyMoved
    <3>4. CASE sdp[u] # "disabled"
      <4>1. m = FoundServiceUser(u, TRUE) \/ m = FoundServiceUser(u, FALSE)
        <5>1. (sdp[u] = "enabled") = TRUE \/ (sdp[u] = "enabled") = FALSE
          OBVIOUS
        <5>2. QED BY <5>1, Zenon
      <4>2. /\ FoundServiceUser(u, TRUE) \in ManagerMsg
            /\ FoundServiceUser(u, FALSE) \in ManagerMsg
        BY ManagerMessages, Zenon
      <4>3. imq' = Append(imq, m)
        BY <3>1
      <4> HIDE DEF m
      <4>4. m \in ManagerMsg
        BY <4>1, <4>2, Zenon
      <4>5. Announcements' = IF m \in FreeReports THEN Announcements + 1
                             ELSE Announcements
        BY <1>t, <4>3, <4>4, AnnouncementSent
      <4>6. Announcements' >= Announcements /\ Outstanding' = Outstanding
        BY <1>n, <3>1, <3>2, <3>4, <4>5 DEF SupplyTerms
      <4>7. Moves(0, 0, 0, 0, 0, 0)
        BY <1>n, <1>f, <2>1, <4>6 DEF Moves, SupplyTerms
      <4>8. QED BY <4>7, SupplyMoved
    <3>5. QED BY <3>3, <3>4
  <2>4. QED BY <2>2, <2>3
<1>6. QED BY <1>1, <1>2, <1>3, <1>4, <1>5

\* A pending step of the creator: a report goes into the manager's channel.
LEMMA StepSupply ==
    ASSUME TypeOK, TypeOK', Supply >= PoolSize, CreatorNotify \/ CreatorSecrets
    PROVE  Supply' >= PoolSize
<1>t. imq \in Seq(ManagerMsg) /\ ictodo \in Seq(CreatorStep)
  BY DEF TypeOK, ChannelsTypeOK, CreatorTypeOK
<1>n. SupplyTerms /\ SupplyTerms'
  BY SupplyTyped, PTL
<1> DEFINE m == Head(ictodo).m
<1>1. /\ ictodo # <<>> /\ ictodo' = Tail(ictodo) /\ Head(ictodo) \in CreatorStep
      /\ UNCHANGED <<pool, todo, icq, icphase, nMissing>>
      /\ \/ Head(ictodo).op = "notify" /\ imq' = Append(imq, m)
         \/ Head(ictodo).op = "secrets" /\ imq' = imq
  BY <1>t DEF CreatorNotify, CreatorSecrets, SendToManager, CreatorFrame, managerVars,
              scanVars
<1>2. /\ Stock' = Stock /\ Orders' = Orders /\ Ordering' = Ordering
      /\ Outstanding' = Outstanding
  BY <1>1 DEF Stock, Orders, Ordering, Outstanding
<1>3. Notifications' = IF Head(ictodo) \in FreeSteps THEN Notifications - 1
                       ELSE Notifications
  BY <1>t, <1>1, OccursTail DEF Notifications
<1>4. CASE Head(ictodo).op = "notify" /\ imq' = Append(imq, m)
  <2>1. m \in ManagerMsg
    BY <1>1, <1>4, PendingSteps
  <2>2. Head(ictodo) = Notify(m)
    BY <1>1, <1>4 DEF CreatorStep, Notify
  <2>3. imq' = Append(imq, m)
    BY <1>4
  <2> HIDE DEF m
  <2>4. Announcements' = IF m \in FreeReports THEN Announcements + 1
                         ELSE Announcements
    BY <1>t, <2>1, <2>3, AnnouncementSent
  <2>5. Head(ictodo) \in FreeSteps <=> m \in FreeReports
    BY <2>2, FreeKinds
  <2>6. CASE m \in FreeReports
    <3>1. Announcements' = Announcements + 1 /\ Notifications' = Notifications - 1
      BY <1>3, <2>4, <2>5, <2>6
    <3>2. Moves(0, 1, -1, 0, 0, 0)
      BY <1>n, <1>2, <3>1 DEF Moves, SupplyTerms
    <3>3. QED BY <3>2, SupplyMoved
  <2>7. CASE m \notin FreeReports
    <3>1. Announcements' = Announcements /\ Notifications' = Notifications
      BY <1>3, <2>4, <2>5, <2>7
    <3>2. Moves(0, 0, 0, 0, 0, 0)
      BY <1>n, <1>2, <3>1 DEF Moves, SupplyTerms
    <3>3. QED BY <3>2, SupplyMoved
  <2>8. QED BY <2>6, <2>7
<1>5. CASE Head(ictodo).op = "secrets" /\ imq' = imq
  <2>1. Notifications' = Notifications
    BY <1>3, <1>5, FreeKinds
  <2>2. Announcements' = Announcements
    BY <1>5 DEF Announcements
  <2>3. Moves(0, 0, 0, 0, 0, 0)
    BY <1>n, <1>2, <2>1, <2>2 DEF Moves, SupplyTerms
  <2>4. QED BY <2>3, SupplyMoved
<1>6. QED BY <1>1, <1>4, <1>5

\* The creator's handlers: an order is carried out while there is a fresh uuid,
\* and the others order nothing.
LEMMA OrderSupply ==
    ASSUME TypeOK, TypeOK', Supply >= PoolSize, HasFresh, failures = 0, failures' = 0,
           \/ CreateIdentity \/ CreatorDevices
           \/ \E u \in Users : DeleteSDPUser(u)
           \/ \E s \in Services, u \in Users :
                 DeleteServiceUser(s, u) \/ ActivateServiceUser(s, u)
    PROVE  Supply' >= PoolSize
<1>t. icq \in Seq(CreatorMsg)
  BY DEF TypeOK, ChannelsTypeOK
<1>n. SupplyTerms /\ SupplyTerms'
  BY SupplyTyped, PTL
<1>1. /\ UNCHANGED <<imq, pool, todo, icphase, nMissing>>
      /\ ictodo = <<>> /\ icq # <<>> /\ icq' = Tail(icq)
  BY DEF CreateIdentity, CreatorDevices, DeleteSDPUser, DeleteServiceUser,
         ActivateServiceUser, CreatorReceive, CreatorFrame, managerVars, creatorVars,
         scanVars
<1>2. Announcements' = Announcements
  BY <1>1 DEF Announcements
<1>3. CASE CreateIdentity
  <2>1. /\ Stock' = Stock /\ Ordering' = Ordering /\ Outstanding' = Outstanding
    BY <1>1 DEF Stock, Ordering, Outstanding
  <2>2. Orders' = IF Head(icq) \in {Order} THEN Orders - 1 ELSE Orders
    BY <1>t, <1>1, OccursTail DEF Orders
  <2>3. Orders' = Orders - 1
    BY <1>3, <2>2 DEF CreateIdentity, CreatorReceive, Order
  <2>4. Notifications' = 1 /\ Notifications = 0
    <3>1. NewUser \in Users /\ ictodo' = <<Notify(Report(NewUser))>>
      <4>1. NewUser \in Users
        BY DEF HasFresh, NewUser
      <4>2. ~CreateUserFails
        BY DEF CreateUserFails, CallFails
      <4>3. ictodo' = NotifyFree(NewUser)
        BY <1>3, <4>2 DEF CreateIdentity
      <4>4. QED BY <4>1, <4>3 DEF NotifyFree, Notify, Report
    <3>2. QED BY <1>1, <3>1, OneFree, NothingPending DEF Notifications
  <2>5. Moves(0, 0, 1, -1, 0, 0)
    BY <1>n, <1>2, <2>1, <2>3, <2>4 DEF Moves, SupplyTerms
  <2>6. QED BY <2>5, SupplyMoved
<1>4. CASE ~CreateIdentity
  <2>1. Head(icq).type # "CreateIdentity"
    <3>1. CASE CreatorDevices
      <4>1. \/ Head(icq) = [type |-> "ReconcileSDPUsers"]
            \/ \E u \in Users : Head(icq) = [type |-> "ReleaseDeviceId", u |-> u]
        BY <3>1 DEF CreatorDevices, CreatorReceive
      <4>2. [type |-> "ReconcileSDPUsers"].type # "CreateIdentity"
        OBVIOUS
      <4>3. \A u : [type |-> "ReleaseDeviceId", u |-> u].type # "CreateIdentity"
        OBVIOUS
      <4>4. QED BY <4>1, <4>2, <4>3, Zenon
    <3>2. ASSUME NEW u \in Users, DeleteSDPUser(u)
          PROVE  Head(icq).type # "CreateIdentity"
      BY <3>2 DEF DeleteSDPUser, CreatorReceive
    <3>3. ASSUME NEW s \in Services, NEW u \in Users,
                 DeleteServiceUser(s, u) \/ ActivateServiceUser(s, u)
          PROVE  Head(icq).type # "CreateIdentity"
      BY <3>3 DEF DeleteServiceUser, ActivateServiceUser, CreatorReceive
    <3>4. QED BY <1>4, <3>1, <3>2, <3>3
  <2>2. Orders' = Orders
    BY <1>t, <1>1, <2>1, OrdersKept
  <2>3. QED BY <1>1, <1>2, <2>2, SupplyKept
<1>5. QED BY <1>3, <1>4

\* No step makes a used uuid fresh again.
LEMMA FreshShrinks ==
    ASSUME TypeOK, [Next]_vars, HasFresh'
    PROVE  HasFresh
<1> DEFINE Shrinks == \A u \in Users : sdp'[u] = "fresh" => sdp[u] = "fresh"
<1>t. sdp \in [Users -> {"fresh", "disabled", "enabled", "deleted"}]
  BY DEF TypeOK, StoresTypeOK
<1>1. ASSUME UNCHANGED sdp PROVE Shrinks
  BY <1>1
<1>2. ASSUME NEW u, NEW v, v # "fresh", sdp' = [sdp EXCEPT ![u] = v] PROVE Shrinks
  BY <1>t, <1>2
<1>3. \A u : RemoveFromController(u) => Shrinks
  BY <1>1, <1>2 DEF RemoveFromController
<1>4. \A u : CreateUser(u) => Shrinks
  BY <1>2 DEF CreateUser
<1>5. CreateUserFails => Shrinks
  BY <1>1, <1>2 DEF CreateUserFails, NoUserCreated, PasswordNotSaved
<1>6. \A u : UserDeleted(u) \/ DeletionFailed(u) => Shrinks
  BY <1>1, <1>3 DEF UserDeleted, DeletionFailed
<1>7. ASSUME CreatorNext PROVE Shrinks
  <2>1. ASSUME NEW s \in Services, NEW u \in Users, ActivateServiceUser(s, u)
        PROVE  Shrinks
    BY <1>1, <1>2, <2>1 DEF ActivateServiceUser
  <2>2. ASSUME NEW s \in Services, NEW u \in Users, DeleteServiceUser(s, u)
        PROVE  Shrinks
    BY <1>6, <2>2 DEF DeleteServiceUser
  <2>3. ASSUME NEW u \in Users, CreatorScan(u) PROVE Shrinks
    BY <1>1, <1>3, <2>3 DEF CreatorScan
  <2>4. ASSUME NEW u \in Users, DeleteSDPUser(u) PROVE Shrinks
    BY <1>6, <2>4 DEF DeleteSDPUser, DeleteUser
  <2>5. CASE CreatorFill \/ CreateIdentity
    BY <1>1, <1>4, <1>5, <2>5 DEF CreatorFill, CreateIdentity
  <2>6. CASE CreatorStart \/ CreatorClean \/ CreatorReady \/ CreatorNotify
             \/ CreatorSecrets \/ CreatorDevices
    BY <1>1, <2>6 DEF CreatorStart, CreatorClean, CreatorReady, CreatorNotify,
                      CreatorSecrets, CreatorDevices
  <2>7. QED BY <1>7, <2>1, <2>2, <2>3, <2>4, <2>5, <2>6 DEF CreatorNext
<1>8. ASSUME CreatorFillPanics PROVE Shrinks
  BY <1>5, <1>8 DEF CreatorFillPanics
<1>9. ASSUME ~CreatorNext, ~CreatorFillPanics PROVE Shrinks
  <2>1. UNCHANGED sdp
    BY <1>9 DEF Next, vars, apiVars, WatcherNext, WatcherList, WatcherNotify,
           WatcherStart, WatcherRelist, WatcherInitialized, WatcherApply,
           WatcherDelete, WatcherEvent, WatcherFrame, ManagerNext, ManagerInitialize,
           ManagerSendNext, found_service_candidate, found_service_user,
           identity_creator_ready, deployment_watcher_ready,
           request_service_identity, deleted_service_candidate,
           delete_service_identity, activated_service_user, release_device_id,
           ReconcileStart, ReconcileDelete, ReconcileExtraDone, ReconcileUser,
           ReconcileUsersDone, ReconcileStaleDone, ReconcileMissing, ReconcileDone,
           ManagerFrame, EnvironmentNext, ApplyObject, DeleteObject, FlipLabel,
           PodWatcherRelease, Crash
  <2>2. QED BY <1>1, <2>1
<1>10. QED BY <1>7, <1>8, <1>9 DEF HasFresh

\* Every step keeps the supply.
LEMMA SupplyStep ==
    ReconcileInv /\ RemovalInv /\ SupplyInv /\ [Next]_vars => SupplyInv'
<1> SUFFICES ASSUME ReconcileInv, RemovalInv, SupplyInv, [Next]_vars,
                    failures' = 0, HasFresh'
             PROVE  Supply' >= PoolSize
  BY DEF SupplyInv
<1>1. /\ TypeOK /\ TypeOK' /\ failures = 0 /\ HasFresh
      /\ Removals /\ Supply >= PoolSize
  BY TypeStep, FailuresGrow, FreshShrinks DEF ReconcileInv, RemovalInv, SupplyInv
<1>2. ASSUME NEW w \in Watchers, WatcherNext(w) PROVE Supply' >= PoolSize
  BY <1>1, <1>2, WatcherSupply
<1>3. CASE ManagerNext
  BY <1>1, <1>3, SendSupply, HandlerSupply, FoundSupply, RequestSupply,
     ReconcileSupply DEF ManagerNext
<1>4. CASE CreatorNext
  BY <1>1, <1>4, InitializeSupply, StepSupply, OrderSupply DEF CreatorNext
<1>5. CASE EnvironmentNext
  BY <1>1, <1>5, EnvironmentSupply
<1>6. CASE UNCHANGED vars
  BY <1>1, <1>6, OutsideSupply DEF vars, managerVars, creatorVars, scanVars
<1>7. QED BY <1>2, <1>3, <1>4, <1>5, <1>6 DEF Next

\* At the start the whole pool is outstanding.
LEMMA SupplyInit == Init => SupplyInv
<1> SUFFICES ASSUME Init PROVE Supply >= PoolSize
  BY DEF SupplyInv
<1>1. SupplyTerms
  BY TypeInit, SupplyTyped
<1>2. Outstanding = PoolSize
  BY DEF Init, ProcessInit, Outstanding
<1>3. QED BY <1>1, <1>2, ConstantsAssumption DEF Supply, SupplyTerms

\* When the process has come to rest and no call failed, the pool is as large
\* as at the start, whatever was requested and deleted and however often the
\* process was restarted: needs_new_credentials orders a user for each one
\* next_identity takes below the limit, initialize counts the free users it
\* recovers and creates the others, and no order or report is lost.  (Users is
\* finite in the model; the code draws a new uuid whenever it needs one.)
THEOREM SettledPoolAlways == Spec => [](HasFresh => SettledPool)
<1>1. TypeOK /\ SupplyInv => (HasFresh => SettledPool)
  <2> SUFFICES ASSUME TypeOK, Supply >= PoolSize, Settled PROVE Len(pool) >= PoolSize
    BY DEF SettledPool, SupplyInv
  <2>1. Announcements = 0 /\ Orders = 0 /\ Ordering = 0 /\ Notifications = 0
    BY OccursEmpty DEF Settled, Idle, Announcements, Orders, Ordering, Notifications
  <2>2. Outstanding = 0
    BY DEF Settled, Outstanding
  <2>3. Supply = Stock /\ Stock = Len(pool)
    BY <2>1, <2>2, SupplyTyped DEF Supply, SupplyTerms, Stock
  <2>4. QED BY <2>3
<1>2. QED BY <1>1, SupplyInit, SupplyStep, ReconcileInvariant, RemovalAlways, Typing,
          PTL DEF Spec

-----------------------------------------------------------------------------
(***************************************************************************)
(* The identities: which user a service ends up with, followed through the *)
(* sends of the manager, the two channels and the steps of the creator.    *)
(***************************************************************************)
\* No element of q is in K; the last one that is, is m.
NoneIn(q, K) == \A i \in 1..Len(q) : q[i] \notin K
LastIn(q, K, m) ==
    \E i \in 1..Len(q) : q[i] = m /\ \A j \in 1..Len(q) : j > i => q[j] \notin K

\* What q says about K, r says as well.
Keeps(q, r, K) ==
    /\ NoneIn(q, K) => NoneIn(r, K)
    /\ \A m \in K : LastIn(q, K, m) => LastIn(r, K, m)

\* Queues that are empty, and queues as sets.
LEMMA LastFacts ==
    /\ \A K, m : NoneIn(<<>>, K) /\ ~LastIn(<<>>, K, m)
    /\ \A q, K, m : LastIn(q, K, m) => InQueue(q, m)
    /\ \A q, K, m : NoneIn(q, K) /\ m \in K => ~InQueue(q, m)
    /\ \A x, K : x \notin K => NoneIn(<<x>>, K)
    /\ \A q, K : (\A m \in K : ~InQueue(q, m)) => NoneIn(q, K)
    /\ \A q, K : Keeps(q, q, K)
    /\ \A q, K : NoneIn(q, K) => Keeps(<<>>, q, K)
BY DEF NoneIn, LastIn, InQueue, Keeps

\* The last element enters.
LEMMA AppendLast ==
    ASSUME NEW S, NEW q \in Seq(S), NEW e \in S, NEW r, r = Append(q, e), NEW K
    PROVE  /\ LastIn(r, K, e)
           /\ e \notin K => Keeps(q, r, K)
<1>1. /\ Len(q) \in Nat /\ Len(r) = Len(q) + 1 /\ r[Len(q) + 1] = e
      /\ \A i \in 1..Len(q) : r[i] = q[i]
  BY AppendShape
<1>2. LastIn(r, K, e)
  <2>1. Len(q) + 1 \in 1..Len(r) BY <1>1
  <2>2. \A j \in 1..Len(r) : ~(j > Len(q) + 1) BY <1>1
  <2>3. QED BY <1>1, <2>1, <2>2 DEF LastIn
<1>3. ASSUME e \notin K PROVE Keeps(q, r, K)
  <2>1. \A i \in 1..Len(r) : i \in 1..Len(q) \/ i = Len(q) + 1
    BY <1>1
  <2>2. NoneIn(q, K) => NoneIn(r, K)
    BY <1>1, <1>3, <2>1 DEF NoneIn
  <2>3. ASSUME NEW m \in K, LastIn(q, K, m) PROVE LastIn(r, K, m)
    <3>1. PICK i \in 1..Len(q) : q[i] = m /\ \A j \in 1..Len(q) : j > i => q[j] \notin K
      BY <2>3 DEF LastIn
    <3>2. i \in 1..Len(r) /\ r[i] = m BY <1>1, <3>1
    <3>3. \A j \in 1..Len(r) : j > i => r[j] \notin K
      BY <1>1, <1>3, <2>1, <3>1
    <3>4. QED BY <3>2, <3>3 DEF LastIn
  <2>4. QED BY <2>2, <2>3 DEF Keeps
<1>4. QED BY <1>2, <1>3

\* The first element leaves.
LEMMA TailLast ==
    ASSUME NEW S, NEW q \in Seq(S), q # <<>>, NEW r, r = Tail(q), NEW K
    PROVE  /\ NoneIn(q, K) => NoneIn(r, K) /\ Head(q) \notin K
           /\ \A m : LastIn(q, K, m) =>
                 LastIn(r, K, m) \/ (Head(q) = m /\ NoneIn(r, K))
           /\ Head(q) \notin K => Keeps(q, r, K)
<1>1. /\ Len(q) \in Nat \ {0} /\ Len(r) = Len(q) - 1 /\ q[1] = Head(q)
      /\ \A i \in 1..Len(r) : r[i] = q[i + 1]
      /\ \A i \in 2..Len(q) : q[i] = r[i - 1]
  BY TailShape
<1>2. NoneIn(q, K) => NoneIn(r, K) /\ Head(q) \notin K
  <2>1. \A i \in 1..Len(r) : i + 1 \in 1..Len(q) BY <1>1
  <2>2. 1 \in 1..Len(q) BY <1>1
  <2>3. QED BY <1>1, <2>1, <2>2 DEF NoneIn
<1>3. ASSUME NEW m, LastIn(q, K, m)
      PROVE  LastIn(r, K, m) \/ (Head(q) = m /\ NoneIn(r, K))
  <2>1. PICK i \in 1..Len(q) : q[i] = m /\ \A j \in 1..Len(q) : j > i => q[j] \notin K
    BY <1>3 DEF LastIn
  <2>2. \A j \in 1..Len(r) : j + 1 \in 1..Len(q) /\ (j > i - 1 => j + 1 > i)
    BY <1>1
  <2>3. \A j \in 1..Len(r) : j > i - 1 => r[j] \notin K
    BY <1>1, <2>1, <2>2
  <2>4. CASE i = 1
    <3>1. \A j \in 1..Len(r) : j > i - 1 BY <1>1, <2>4
    <3>2. QED BY <1>1, <2>1, <2>3, <2>4, <3>1 DEF NoneIn
  <2>5. CASE i # 1
    <3>1. i \in 2..Len(q) /\ i - 1 \in 1..Len(r) BY <1>1, <2>5
    <3>2. r[i - 1] = m BY <1>1, <2>1, <3>1
    <3>3. QED BY <2>3, <3>1, <3>2 DEF LastIn
  <2>6. QED BY <2>4, <2>5
<1>4. QED BY <1>2, <1>3 DEF Keeps

\* What concerns the service s in each queue.
ServiceMsgs(s) ==
    {m \in CreatorMsg :
        m.type \in {"ActivateServiceUser", "DeleteServiceUser"} /\ m.s = s}
Sends(s) == {x \in ManagerSend : x.to = "creator" /\ x.m \in ServiceMsgs(s)}
Activations(s) ==
    {m \in ManagerMsg : m.type = "ActivatedServiceUser" /\ m.s = s}
Secrets(s, u) == [op |-> "secrets", s |-> s, u |-> u]
ServiceSteps(s) ==
    {x \in CreatorStep : \/ x.op = "secrets" /\ x.s = s
                         \/ x.op = "notify" /\ x.m \in Activations(s)}

\* The user u of t is about to be deleted, or the identity that held it is.
Deleting(t, u) ==
    InQueue(todo, ToCreator(Deletion(t, u))) \/ InQueue(icq, Deletion(t, u))
Removing(t, u) ==
    InQueue(todo, ToManager(Removal(t, u))) \/ InQueue(imq, Removal(t, u))

\* The user exists and nothing is on its way that deletes it.
Safe(u) == Exists(u) /\ \A t \in Services : ~Deleting(t, u)

\* The creator has still to enable u for s, and nothing about s comes after.
Waiting(s, u) ==
    \/ LastIn(todo, Sends(s), ToCreator(Activate(s, u)))
    \/ /\ LastIn(icq, ServiceMsgs(s), Activate(s, u))
       /\ NoneIn(todo, Sends(s))

\* The user u is enabled, and nothing else is asked for about s.
Handled(s, u) ==
    /\ sdp[u] = "enabled"
    /\ NoneIn(icq, ServiceMsgs(s)) /\ NoneIn(todo, Sends(s))

\* The Secret of s has the credentials of u, or is about to.
Written(s, u) ==
    \/ ictodo = <<Secrets(s, u)>>
    \/ svcSecret[s] = u /\ NoneIn(ictodo, ServiceSteps(s))

\* The object of s has the user u, or is about to.
Informed(s, u) ==
    \/ LastIn(imq, Activations(s), Activation(s, u))
    \/ crd[s] = u /\ NoneIn(imq, Activations(s))

\* Everything leads to s having u.
Following(s, u) ==
    \/ Waiting(s, u)
    \/ Handled(s, u) /\ ictodo = ActivationSteps(s, u)
    \/ Handled(s, u) /\ Written(s, u) /\ Informed(s, u)

\* The identity that is about to be deleted is the only one with its user.
RemovalOwn ==
    \A s, t \in Services, u \in Users : Removing(t, u) /\ Held(s, u) => s = t

\* The inductive form of SettledIdentities: every identity has a user that it
\* will have when all is handled, possibly not the one it has now, since an
\* activation that was asked for before a deletion arrives after it.
FollowInv ==
    crashes = 0 /\ failures = 0 =>
        /\ \A s \in Services : crd[s] # NoUser =>
              \E u \in Users : Safe(u) /\ Following(s, u)
        /\ RemovalOwn

\* Membership in these sets, read from the messages.
LEMMA OwnMessages ==
    /\ \A s \in Services, u \in Users :
          /\ Activate(s, u) \in CreatorMsg /\ Deletion(s, u) \in CreatorMsg
          /\ Activation(s, u) \in ManagerMsg /\ Removal(s, u) \in ManagerMsg
          /\ Activate(s, u) \in ServiceMsgs(s) /\ Deletion(s, u) \in ServiceMsgs(s)
          /\ ToCreator(Activate(s, u)) \in Sends(s)
          /\ Activation(s, u) \in Activations(s)
          /\ Secrets(s, u) \in ServiceSteps(s)
          /\ Notify(Activation(s, u)) \in ServiceSteps(s)
    /\ \A s, t, u : /\ Activate(t, u) \in ServiceMsgs(s) => s = t
                    /\ Deletion(t, u) \in ServiceMsgs(s) => s = t
                    /\ ToCreator(Deletion(t, u)) \in Sends(s) => s = t
                    /\ ToCreator(Activate(t, u)) \in Sends(s) => s = t
                    /\ Activation(t, u) \in Activations(s) => s = t
                    /\ Secrets(t, u) \in ServiceSteps(s) => s = t
                    /\ Notify(Activation(t, u)) \in ServiceSteps(s) => s = t
                    /\ Secrets(t, u).op = "secrets" /\ Secrets(t, u).s = t
                    /\ Secrets(t, u).u = u
    /\ \A s, m : /\ ToManager(m) \notin Sends(s)
                 /\ ToCreator(m) \in Sends(s) => m \in ServiceMsgs(s)
                 /\ Notify(m) \in ServiceSteps(s) => m \in Activations(s)
                 /\ m.type \in Plain => m \notin ServiceMsgs(s)
                 /\ m.type # "ActivatedServiceUser" => m \notin Activations(s)
    /\ \A s, u : Report(u) \notin Activations(s)
<1>1. \A t, u : /\ Secrets(t, u).op = "secrets" /\ Secrets(t, u).s = t
                /\ Secrets(t, u).u = u
  BY DEF Secrets
<1>2. ASSUME NEW s \in Services, NEW u \in Users
      PROVE  /\ Activate(s, u) \in CreatorMsg /\ Deletion(s, u) \in CreatorMsg
             /\ Activation(s, u) \in ManagerMsg /\ Removal(s, u) \in ManagerMsg
             /\ ToCreator(Activate(s, u)) \in ManagerSend
             /\ Secrets(s, u) \in CreatorStep /\ Notify(Activation(s, u)) \in CreatorStep
  <2>1. Activate(s, u) \in CreatorMsg /\ Deletion(s, u) \in CreatorMsg
    BY CreatorMessages DEF Activate, Deletion
  <2>2. Secrets(s, u) \in CreatorStep /\ Notify(Activation(s, u)) \in CreatorStep
    BY PendingSteps DEF Secrets, Notify, Activation
  <2>3. Activation(s, u) \in ManagerMsg
    BY DEF ManagerMsg, ActivatedMsg, Activation
  <2>4. Removal(s, u) \in ManagerMsg
    BY DEF ManagerMsg, DeleteMsg, Removal
  <2>5. QED BY <2>1, <2>2, <2>3, <2>4, PendingSends
<1>3. ASSUME NEW s \in Services, NEW u \in Users
      PROVE  /\ Activate(s, u) \in ServiceMsgs(s) /\ Deletion(s, u) \in ServiceMsgs(s)
             /\ ToCreator(Activate(s, u)) \in Sends(s)
             /\ Activation(s, u) \in Activations(s)
             /\ Secrets(s, u) \in ServiceSteps(s)
             /\ Notify(Activation(s, u)) \in ServiceSteps(s)
  <2>1. /\ Activate(s, u) \in ServiceMsgs(s) /\ Deletion(s, u) \in ServiceMsgs(s)
        /\ Activation(s, u) \in Activations(s)
    BY <1>2, TokenKinds DEF ServiceMsgs, Activations
  <2>2. ToCreator(Activate(s, u)) \in Sends(s)
    BY <1>2, <2>1, WrapKinds DEF Sends
  <2>3. Secrets(s, u) \in ServiceSteps(s) BY <1>1, <1>2 DEF ServiceSteps
  <2>4. Notify(Activation(s, u)) \in ServiceSteps(s)
    BY <1>2, <2>1, WrapKinds DEF ServiceSteps
  <2>5. QED BY <2>1, <2>2, <2>3, <2>4
<1>4. ASSUME NEW s, NEW m
      PROVE  /\ ToManager(m) \notin Sends(s)
             /\ ToCreator(m) \in Sends(s) => m \in ServiceMsgs(s)
             /\ Notify(m) \in ServiceSteps(s) => m \in Activations(s)
             /\ m.type \in Plain => m \notin ServiceMsgs(s)
             /\ m.type # "ActivatedServiceUser" => m \notin Activations(s)
  <2>1. ToManager(m) \notin Sends(s) BY WrapKinds DEF Sends
  <2>2. ToCreator(m) \in Sends(s) => m \in ServiceMsgs(s) BY WrapKinds DEF Sends
  <2>3. Notify(m) \in ServiceSteps(s) => m \in Activations(s)
    BY WrapKinds DEF ServiceSteps
  <2>4. m.type \in Plain => m \notin ServiceMsgs(s) BY DEF ServiceMsgs, Plain
  <2>5. m.type # "ActivatedServiceUser" => m \notin Activations(s)
    BY DEF Activations
  <2>6. QED BY <2>1, <2>2, <2>3, <2>4, <2>5
<1>5. ASSUME NEW s, NEW t, NEW u
      PROVE  /\ Activate(t, u) \in ServiceMsgs(s) => s = t
             /\ Deletion(t, u) \in ServiceMsgs(s) => s = t
             /\ Activation(t, u) \in Activations(s) => s = t
             /\ Secrets(t, u) \in ServiceSteps(s) => s = t
  <2>1. /\ Activate(t, u) \in ServiceMsgs(s) => s = t
        /\ Deletion(t, u) \in ServiceMsgs(s) => s = t
        /\ Activation(t, u) \in Activations(s) => s = t
    BY TokenKinds DEF ServiceMsgs, Activations
  <2>2. Secrets(t, u) \in ServiceSteps(s) => s = t BY <1>1 DEF ServiceSteps
  <2>3. QED BY <2>1, <2>2
<1>6. \A s, u : Report(u) \notin Activations(s)
  BY ReportKinds DEF Activations
<1>7. QED BY <1>1, <1>2, <1>3, <1>4, <1>5, <1>6

\* Where deletions come from: the identity of t is deleted with the user it has,
\* and then the user is.
DeletionsFrom ==
    \A t \in Services, u \in Users :
        /\ Removing(t, u)' => Removing(t, u) \/ services[t] = u
        /\ Deleting(t, u)' =>
              \/ Deleting(t, u)
              \/ crd'[t] = NoUser /\ (Removing(t, u) \/ services[t] = u)

\* A message that names nothing to delete enters a queue, or any one leaves.
LEMMA ChannelDeletions ==
    ASSUME TypeOK,
           \/ imq' = imq
           \/ imq # <<>> /\ imq' = Tail(imq)
           \/ \E m \in ManagerMsg : imq' = Append(imq, m)
                                    /\ m.type # "DeleteServiceIdentity",
           \/ icq' = icq
           \/ icq # <<>> /\ icq' = Tail(icq)
           \/ \E m \in CreatorMsg : icq' = Append(icq, m) /\ m.type \in Plain
    PROVE  \A t, u :
              /\ InQueue(imq', Removal(t, u)) => InQueue(imq, Removal(t, u))
              /\ InQueue(icq', Deletion(t, u)) => InQueue(icq, Deletion(t, u))
<1>t. imq \in Seq(ManagerMsg) /\ icq \in Seq(CreatorMsg)
  BY DEF TypeOK, ChannelsTypeOK
<1>1. \A t, u : InQueue(imq', Removal(t, u)) => InQueue(imq, Removal(t, u))
  <2>1. CASE imq' = imq BY <2>1
  <2>2. CASE imq # <<>> /\ imq' = Tail(imq) BY <1>t, <2>2, ManagerTail
  <2>3. ASSUME NEW m \in ManagerMsg, imq' = Append(imq, m),
               m.type # "DeleteServiceIdentity"
        PROVE  \A t, u : InQueue(imq', Removal(t, u)) => InQueue(imq, Removal(t, u))
    <3>1. \A t, u : m # Removal(t, u) BY <2>3, TokenKinds
    <3>2. QED BY <1>t, <2>3, <3>1, ManagerAppend
  <2>4. QED BY <2>1, <2>2, <2>3
<1>2. \A t, u : InQueue(icq', Deletion(t, u)) => InQueue(icq, Deletion(t, u))
  <2>1. CASE icq' = icq BY <2>1
  <2>2. CASE icq # <<>> /\ icq' = Tail(icq) BY <1>t, <2>2, CreatorTail
  <2>3. ASSUME NEW m \in CreatorMsg, icq' = Append(icq, m), m.type \in Plain
        PROVE  \A t, u : InQueue(icq', Deletion(t, u)) => InQueue(icq, Deletion(t, u))
    <3>1. \A t, u : m # Deletion(t, u) BY <2>3, TokenKinds DEF Plain
    <3>2. QED BY <1>t, <2>3, <3>1, CreatorAppend
  <2>4. QED BY <2>1, <2>2, <2>3
<1>3. QED BY <1>1, <1>2

\* A quiet step: the deletion of a candidate names the user of its identity.
LEMMA QuietDeletions ==
    ASSUME TypeOK, Quiet
    PROVE  DeletionsFrom
<1> DEFINE Less == \A t, u :
              /\ InQueue(imq', Removal(t, u)) => InQueue(imq, Removal(t, u))
              /\ InQueue(icq', Deletion(t, u)) => InQueue(icq, Deletion(t, u))
<1>1. Less
  BY ChannelDeletions DEF Quiet, ImqQuiet, IcqQuiet, Harmless
<1>2. CASE todo' = todo BY <1>1, <1>2 DEF DeletionsFrom, Removing, Deleting
<1>3. CASE todo' = SelfReady
  <2>1. \A t, u : ToManager(IdentityManagerReady) # ToManager(Removal(t, u))
    BY WrapKinds, TokenKinds, Kinds
  <2>2. \A t, u : /\ ~InQueue(todo', ToManager(Removal(t, u)))
                  /\ ~InQueue(todo', ToCreator(Deletion(t, u)))
    BY <1>3, <2>1, OneSend, WrapKinds DEF SelfReady
  <2>3. QED BY <1>1, <2>2 DEF DeletionsFrom, Removing, Deleting
<1>4. ASSUME NEW v, todo' = <<ToCreator([type |-> "ReleaseDeviceId", u |-> v])>>
      PROVE  DeletionsFrom
  <2> DEFINE m == [type |-> "ReleaseDeviceId", u |-> v]
  <2>1. m.type = "ReleaseDeviceId" OBVIOUS
  <2>2. todo' = <<ToCreator(m)>> BY <1>4
  <2> HIDE DEF m
  <2>3. \A t, u : m # Deletion(t, u) BY <2>1, TokenKinds
  <2>4. \A t, u : /\ ~InQueue(todo', ToManager(Removal(t, u)))
                  /\ ~InQueue(todo', ToCreator(Deletion(t, u)))
    BY <2>2, <2>3, OneSend, WrapKinds
  <2>5. QED BY <1>1, <2>4 DEF DeletionsFrom, Removing, Deleting
<1>5. ASSUME NEW v \in Services, todo' = <<ToManager(Removal(v, services[v]))>>
      PROVE  DeletionsFrom
  <2>1. \A t, u : /\ InQueue(todo', ToManager(Removal(t, u)))
                         => t = v /\ u = services[v]
                  /\ ~InQueue(todo', ToCreator(Deletion(t, u)))
    BY <1>5, OneSend, WrapKinds, TokenKinds
  <2>2. QED BY <1>1, <2>1 DEF DeletionsFrom, Removing, Deleting
<1>6. QED BY <1>2, <1>3, <1>4, <1>5 DEF Quiet, TodoQuiet

\* A pending send of the manager is completed.
LEMMA SendDeletions ==
    ASSUME TypeOK, ManagerSendNext
    PROVE  DeletionsFrom
<1> DEFINE x == Head(todo)
<1>t. /\ todo \in Seq(ManagerSend) /\ imq \in Seq(ManagerMsg)
      /\ icq \in Seq(CreatorMsg)
  BY DEF TypeOK, ManagerTypeOK, ChannelsTypeOK
<1>1. /\ todo # <<>> /\ todo' = Tail(todo)
      /\ \/ x.to = "creator" /\ icq' = Append(icq, x.m) /\ imq' = imq
         \/ x.to = "manager" /\ imq' = Append(imq, x.m) /\ icq' = icq
  BY DEF ManagerSendNext, SendToCreator, SendToManager
<1>2. x \in ManagerSend BY <1>t, <1>1
<1>3. \A y : InQueue(todo, y) <=> x = y \/ InQueue(todo', y)
  BY <1>t, <1>1, TailFacts
<1> HIDE DEF x
<1>4. CASE x.to = "creator" /\ icq' = Append(icq, x.m) /\ imq' = imq
  <2>1. x = ToCreator(x.m) /\ x.m \in CreatorMsg
    BY <1>2, <1>4, PendingSends DEF ManagerSend, ToCreator
  <2>2. \A m : InQueue(icq', m) <=> InQueue(icq, m) \/ x.m = m
    BY <1>t, <1>4, <2>1, CreatorAppend
  <2>3. QED BY <1>3, <1>4, <2>1, <2>2 DEF DeletionsFrom, Removing, Deleting
<1>5. CASE x.to = "manager" /\ imq' = Append(imq, x.m) /\ icq' = icq
  <2>1. x = ToManager(x.m) /\ x.m \in ManagerMsg
    BY <1>2, <1>5, PendingSends DEF ManagerSend, ToManager
  <2>2. \A m : InQueue(imq', m) <=> InQueue(imq, m) \/ x.m = m
    BY <1>t, <1>5, <2>1, ManagerAppend
  <2>3. QED BY <1>3, <1>5, <2>1, <2>2 DEF DeletionsFrom, Removing, Deleting
<1>6. QED BY <1>1, <1>4, <1>5

\* Who follows a user has it, or will have it.
LEMMA FollowedHeld ==
    ASSUME NEW s \in Services, NEW c \in Users, Following(s, c)
    PROVE  Held(s, c)
<1>1. CASE Waiting(s, c)
  BY <1>1, LastFacts DEF Waiting, Held, Activating
<1>2. CASE ictodo = ActivationSteps(s, c)
  <2>1. Len(ictodo) = 2 /\ ictodo[1] = Notify(Activation(s, c))
    BY <1>2 DEF ActivationSteps, Notify, Activation
  <2>2. InQueue(ictodo, Notify(Activation(s, c))) BY <2>1 DEF InQueue
  <2>3. QED BY <2>2 DEF Held, Activating, Notify
<1>3. CASE Informed(s, c)
  BY <1>3, LastFacts DEF Informed, Held, Activating
<1>4. QED BY <1>1, <1>2, <1>3 DEF Following

\* A step that concerns another service, or none.
LEMMA FollowKept ==
    ASSUME NEW s \in Services, NEW c \in Users, Following(s, c),
           ictodo' = ictodo, sdp'[c] = sdp[c], svcSecret'[s] = svcSecret[s],
           crd'[s] = crd[s],
           Keeps(todo, todo', Sends(s)), Keeps(icq, icq', ServiceMsgs(s)),
           Keeps(imq, imq', Activations(s))
    PROVE  Following(s, c)'
<1>1. /\ Waiting(s, c) => Waiting(s, c)'
      /\ Handled(s, c) => Handled(s, c)'
      /\ Informed(s, c) => Informed(s, c)'
  BY OwnMessages DEF Waiting, Handled, Informed, Keeps
<1>2. Written(s, c) => Written(s, c)' BY DEF Written
<1>3. QED BY <1>1, <1>2 DEF Following

\* A quiet step.
LEMMA QuietFollow ==
    ASSUME TypeOK, Quiet, MemoryIsObject,
           NEW s \in Services, NEW c \in Users, Following(s, c)
    PROVE  Following(s, c)'
<1>t. imq \in Seq(ManagerMsg) /\ icq \in Seq(CreatorMsg)
  BY DEF TypeOK, ChannelsTypeOK
<1>1. crd'[s] = crd[s] BY DEF Quiet, MemoryIsObject
<1>2. Keeps(imq, imq', Activations(s))
  <2>1. \A m \in Harmless : m \notin Activations(s) /\ m \in ManagerMsg
    BY DEF Harmless, Activations
  <2>2. CASE imq' = imq BY <2>2, LastFacts
  <2>3. CASE imq # <<>> /\ imq' = Tail(imq) /\ Head(imq) \in Harmless
    BY <1>t, <2>1, <2>3, TailLast
  <2>4. CASE \E m \in Harmless : imq' = Append(imq, m)
    BY <1>t, <2>1, <2>4, AppendLast
  <2>5. QED BY <2>2, <2>3, <2>4 DEF Quiet, ImqQuiet
<1>3. Keeps(icq, icq', ServiceMsgs(s))
  <2>1. \A m : m.type \in Plain => m \notin ServiceMsgs(s) BY OwnMessages
  <2>2. CASE icq' = icq BY <2>2, LastFacts
  <2>3. CASE icq # <<>> /\ icq' = Tail(icq) /\ Head(icq).type \in Plain
    BY <1>t, <2>1, <2>3, TailLast
  <2>4. CASE \E m \in CreatorMsg : icq' = Append(icq, m) /\ m.type \in Plain
    BY <1>t, <2>1, <2>4, AppendLast
  <2>5. QED BY <2>2, <2>3, <2>4 DEF Quiet, IcqQuiet
<1>4. Keeps(todo, todo', Sends(s))
  <2>1. ASSUME NEW x, x \notin Sends(s), todo = <<>>, todo' = <<x>>
        PROVE  Keeps(todo, todo', Sends(s))
    BY <2>1, LastFacts
  <2>2. CASE todo' = todo BY <2>2, LastFacts
  <2>3. ASSUME NEW m, todo = <<>>, todo' = <<ToManager(m)>>
        PROVE  Keeps(todo, todo', Sends(s))
    BY <2>1, <2>3, OwnMessages
  <2>4. ASSUME NEW u, todo = <<>>,
               todo' = <<ToCreator([type |-> "ReleaseDeviceId", u |-> u])>>
        PROVE  Keeps(todo, todo', Sends(s))
    <3> DEFINE m == [type |-> "ReleaseDeviceId", u |-> u]
    <3>1. m.type \in Plain BY DEF Plain
    <3>2. todo' = <<ToCreator(m)>> BY <2>4
    <3> HIDE DEF m
    <3>3. ToCreator(m) \notin Sends(s) BY <3>1, OwnMessages
    <3>4. QED BY <2>1, <2>4, <3>2, <3>3
  <2>5. QED BY <2>2, <2>3, <2>4 DEF Quiet, TodoQuiet, SelfReady
<1>5. QED BY <1>1, <1>2, <1>3, <1>4, FollowKept DEF Quiet

\* A pending send of the manager is completed.
LEMMA SendFollow ==
    ASSUME TypeOK, ManagerSendNext,
           NEW s \in Services, NEW c \in Users, Following(s, c)
    PROVE  Following(s, c)'
<1> DEFINE x == Head(todo)
<1>t. /\ todo \in Seq(ManagerSend) /\ imq \in Seq(ManagerMsg)
      /\ icq \in Seq(CreatorMsg)
  BY DEF TypeOK, ManagerTypeOK, ChannelsTypeOK
<1>1. /\ todo # <<>> /\ todo' = Tail(todo)
      /\ UNCHANGED <<ictodo, sdp, svcSecret, crd>>
      /\ \/ x.to = "creator" /\ icq' = Append(icq, x.m) /\ imq' = imq
         \/ x.to = "manager" /\ imq' = Append(imq, x.m) /\ icq' = icq
  BY DEF ManagerSendNext, SendToCreator, SendToManager, ManagerFrame, creatorVars
<1>2. x \in ManagerSend BY <1>t, <1>1
<1>3. /\ NoneIn(todo, Sends(s)) => NoneIn(todo', Sends(s)) /\ x \notin Sends(s)
      /\ \A y : LastIn(todo, Sends(s), y) =>
            LastIn(todo', Sends(s), y) \/ (x = y /\ NoneIn(todo', Sends(s)))
      /\ x \notin Sends(s) => Keeps(todo, todo', Sends(s))
  BY <1>t, <1>1, TailLast
<1> HIDE DEF x
<1>4. CASE x.to = "manager" /\ imq' = Append(imq, x.m) /\ icq' = icq
  <2>1. x \notin Sends(s) /\ x.m \in ManagerMsg /\ x.m.type # "ActivatedServiceUser"
    BY <1>2, <1>4, PendingSends, OtherKinds, Kinds DEF Sends
  <2>2. Keeps(imq, imq', Activations(s))
    BY <1>t, <1>4, <2>1, AppendLast, OwnMessages
  <2>3. QED BY <1>1, <1>3, <1>4, <2>1, <2>2, LastFacts, FollowKept
<1>5. CASE x.to = "creator" /\ icq' = Append(icq, x.m) /\ imq' = imq
  <2>1. x = ToCreator(x.m) /\ x.m \in CreatorMsg
    BY <1>2, <1>5, PendingSends DEF ManagerSend, ToCreator
  <2>2. LastIn(icq', ServiceMsgs(s), x.m) BY <1>t, <1>5, <2>1, AppendLast
  <2>3. x \notin Sends(s) => Keeps(icq, icq', ServiceMsgs(s))
    <3>1. x \notin Sends(s) => x.m \notin ServiceMsgs(s)
      BY <1>2, <1>5 DEF Sends
    <3>2. QED BY <1>t, <1>5, <2>1, <3>1, AppendLast
  <2>4. CASE x \notin Sends(s)
    BY <1>1, <1>3, <1>5, <2>3, <2>4, LastFacts, FollowKept
  <2>5. CASE x \in Sends(s)
    <3>1. LastIn(todo, Sends(s), ToCreator(Activate(s, c)))
      BY <1>3, <2>5 DEF Following, Waiting, Handled
    <3>2. CASE LastIn(todo', Sends(s), ToCreator(Activate(s, c)))
      BY <3>2 DEF Following, Waiting
    <3>3. CASE x = ToCreator(Activate(s, c)) /\ NoneIn(todo', Sends(s))
      <4>1. x.m = Activate(s, c) BY <3>3, WrapKinds
      <4>2. QED BY <2>2, <3>3, <4>1 DEF Following, Waiting
    <3>4. QED BY <1>3, <3>1, <3>2, <3>3
  <2>6. QED BY <2>4, <2>5
<1>6. QED BY <1>1, <1>4, <1>5

\* A user that was activated, or found, is reported.
LEMMA ReportFollow ==
    ASSUME TypeOK, MemoryIsObject, failures = 0, failures' = 0,
           NEW t \in Services, NEW u \in Users,
           \/ activated_service_user(t, u)
           \/ \E on \in BOOLEAN : found_service_user(u, on),
           NEW s \in Services, NEW c \in Users, Following(s, c), crd[s] # NoUser
    PROVE  Following(s, c)'
<1>t. imq \in Seq(ManagerMsg) /\ crd \in [Services -> MaybeUser]
  BY DEF TypeOK, ChannelsTypeOK, StoresTypeOK
<1>1. ASSUME NEW on \in BOOLEAN, found_service_user(u, on) PROVE Following(s, c)'
  <2> DEFINE m == FoundServiceUser(u, on)
  <2>1. /\ imq # <<>> /\ Head(imq) = m /\ imq' = Tail(imq)
        /\ UNCHANGED <<ictodo, sdp, svcSecret, crd, todo, icq>>
    BY <1>1 DEF found_service_user, Receive, ManagerFrame, creatorVars
  <2>2. m.type # "ActivatedServiceUser" BY ReportKinds
  <2> HIDE DEF m
  <2>3. Keeps(imq, imq', Activations(s))
    BY <1>t, <2>1, <2>2, TailLast, OwnMessages
  <2>4. QED BY <2>1, <2>3, LastFacts, FollowKept
<1>2. CASE activated_service_user(t, u)
  <2>1. /\ imq # <<>> /\ Head(imq) = Activation(t, u) /\ imq' = Tail(imq)
        /\ UNCHANGED <<ictodo, sdp, svcSecret, todo, icq>> /\ services = crd
        /\ crd[t] # NoUser => crd' = [crd EXCEPT ![t] = u]
        /\ crd[t] = NoUser => crd' = crd
    <3>1. /\ imq # <<>> /\ Head(imq) = Activation(t, u) /\ imq' = Tail(imq)
          /\ UNCHANGED <<ictodo, sdp, svcSecret, todo, icq>> /\ services = crd
      BY <1>2 DEF activated_service_user, Receive, Idle, ManagerFrame,
                  creatorVars, Activation, MemoryIsObject
    <3>2. /\ services[t] # NoUser => UpdateIdentity(t, u)
          /\ services[t] = NoUser => crd' = crd
      BY <1>2 DEF activated_service_user, Registered
    <3>3. QED BY <3>1, <3>2 DEF UpdateIdentity, CallFails
  <2>2. CASE t # s
    <3>1. Keeps(imq, imq', Activations(s))
      <4>1. Head(imq) \notin Activations(s) BY <2>1, <2>2, OwnMessages
      <4>2. QED BY <1>t, <2>1, <4>1, TailLast
    <3>2. crd'[s] = crd[s] BY <1>t, <2>1, <2>2
    <3>3. QED BY <2>1, <3>1, <3>2, LastFacts, FollowKept
  <2>3. CASE t = s
    <3>1. crd'[s] = u BY <1>t, <2>1, <2>3
    <3>2. Activation(t, u) \in Activations(s) BY <2>3, OwnMessages
    <3>3. Informed(s, c) => Informed(s, c)'
      <4>1. ~NoneIn(imq, Activations(s)) BY <1>t, <2>1, <3>2, TailLast
      <4>2. SUFFICES ASSUME LastIn(imq, Activations(s), Activation(s, c))
                     PROVE  Informed(s, c)'
        BY <4>1 DEF Informed
      <4>3. CASE LastIn(imq', Activations(s), Activation(s, c))
        BY <4>3 DEF Informed
      <4>4. CASE Head(imq) = Activation(s, c) /\ NoneIn(imq', Activations(s))
        <5>1. u = c BY <2>1, <4>4, TokenKinds
        <5>2. QED BY <3>1, <4>4, <5>1 DEF Informed
      <4>5. QED BY <1>t, <2>1, <4>2, <4>3, <4>4, TailLast
    <3>4. /\ Waiting(s, c) => Waiting(s, c)'
          /\ Handled(s, c) => Handled(s, c)'
          /\ Written(s, c) => Written(s, c)'
      BY <2>1 DEF Waiting, Handled, Written
    <3>5. QED BY <2>1, <3>3, <3>4 DEF Following
  <2>4. QED BY <2>2, <2>3
<1>3. QED BY <1>1, <1>2

\* The identity of another service is deleted.
LEMMA DeleteFollow ==
    ASSUME TypeOK, services = crd, failures = 0, failures' = 0, todo = <<>>,
           NEW t \in Services, NEW u \in Users, DeleteIdentity(t, u),
           ManagerFrame, icq' = icq,
           \/ imq' = imq
           \/ imq # <<>> /\ imq' = Tail(imq) /\ Head(imq) = Removal(t, u)
    PROVE  /\ \A s \in Services, c \in Users :
                  Following(s, c) /\ s # t => Following(s, c)'
           /\ Removing(t, u) \/ services[t] = u => DeletionsFrom
<1>t. imq \in Seq(ManagerMsg) BY DEF TypeOK, ChannelsTypeOK
<1>1. todo' = todo \/ todo' = <<ToCreator(Deletion(t, u))>>
  BY DEF DeleteIdentity, Deletion
<1>2. /\ crd'[t] = NoUser
      /\ \A s \in Services : s # t => crd'[s] = crd[s]
  BY DeletionClears
<1>3. ASSUME NEW s \in Services, NEW c \in Users, Following(s, c), s # t
      PROVE  Following(s, c)'
  <2>1. Keeps(imq, imq', Activations(s))
    <3>1. Removal(t, u) \notin Activations(s) BY TokenKinds, OwnMessages
    <3>2. QED BY <1>t, <3>1, TailLast, LastFacts
  <2>2. Keeps(todo, todo', Sends(s))
    <3>1. ToCreator(Deletion(t, u)) \notin Sends(s) BY <1>3, OwnMessages
    <3>2. QED BY <1>1, <3>1, LastFacts
  <2>3. QED BY <1>2, <1>3, <2>1, <2>2, LastFacts, FollowKept
            DEF ManagerFrame, creatorVars
<1>4. ASSUME Removing(t, u) \/ services[t] = u PROVE DeletionsFrom
  <2>1. \A v, w : InQueue(imq', Removal(v, w)) => InQueue(imq, Removal(v, w))
    BY <1>t, ManagerTail
  <2>2. \A v, w : /\ ~InQueue(todo', ToManager(Removal(v, w)))
                  /\ InQueue(todo', ToCreator(Deletion(v, w))) => v = t /\ w = u
    BY <1>1, OneSend, WrapKinds, TokenKinds
  <2>3. QED BY <1>2, <1>4, <2>1, <2>2 DEF DeletionsFrom, Removing, Deleting
<1>5. QED BY <1>3, <1>4

\* The sends of a request end with the activation.
LEMMA RequestLast ==
    ASSUME NEW s \in Services, NEW u \in Users, NEW p,
           p = <<>> \/ p = <<ToCreator([type |-> "CreateIdentity"])>>,
           NEW r, r = p \o <<ToCreator(Activate(s, u))>>
    PROVE  /\ LastIn(r, Sends(s), ToCreator(Activate(s, u)))
           /\ \A t \in Services : t # s => NoneIn(r, Sends(t))
<1> DEFINE m == [type |-> "CreateIdentity"]
           x == ToCreator(m)
           y == ToCreator(Activate(s, u))
<1>1. m.type \in Plain BY DEF Plain
<1>2. (p = <<>> \/ p = <<x>>) /\ r = p \o <<y>> OBVIOUS
<1> HIDE DEF m
<1>3. \A t : x \notin Sends(t) BY <1>1, OwnMessages
<1>4. \A t : y \in Sends(t) => t = s BY OwnMessages
<1> HIDE DEF x, y
<1>5. /\ Len(r) \in {1, 2} /\ r[Len(r)] = y
      /\ \A i \in 1..Len(r) : r[i] = x \/ r[i] = y
  <2>1. CASE p = <<>>
    <3>1. r = <<y>> BY <1>2, <2>1
    <3>2. QED BY <3>1
  <2>2. CASE p = <<x>>
    <3>1. Len(r) = 2 /\ r[1] = x /\ r[2] = y BY <1>2, <2>2
    <3>2. QED BY <3>1
  <2>3. QED BY <1>2, <2>1, <2>2
<1>6. LastIn(r, Sends(s), y)
  <2>1. Len(r) \in 1..Len(r) /\ \A j \in 1..Len(r) : ~(j > Len(r)) BY <1>5
  <2>2. QED BY <1>5, <2>1 DEF LastIn
<1>7. \A t \in Services : t # s => NoneIn(r, Sends(t))
  BY <1>3, <1>4, <1>5 DEF NoneIn
<1>8. QED BY <1>6, <1>7 DEF y

\* A request: the service that gets an identity follows the user of the pool.
LEMMA RequestFollow ==
    ASSUME TypeOK, services = crd, failures = 0, failures' = 0, todo = <<>>,
           NEW t \in Services, RequestIdentity(t), ManagerFrame, icq' = icq,
           \/ imq' = imq
           \/ imq # <<>> /\ imq' = Tail(imq) /\ Head(imq) = Requested(t)
    PROVE  /\ \A s \in Services, c \in Users :
                  Following(s, c) /\ crd[s] # NoUser => Following(s, c)'
           /\ \A s \in Services : crd[s] = NoUser /\ crd'[s] # NoUser =>
                  \E u \in Users : InQueue(pool, u) /\ Following(s, u)'
           /\ DeletionsFrom
<1>t. /\ imq \in Seq(ManagerMsg) /\ crd \in [Services -> MaybeUser]
      /\ pool \in Seq(Users) /\ (pool # <<>> => Head(pool) \in Users)
  BY DEF TypeOK, ChannelsTypeOK, StoresTypeOK, ManagerTypeOK
<1>1. \/ UNCHANGED <<crd, todo>>
      \/ /\ pool # <<>> /\ crd[t] = NoUser
         /\ crd' = [crd EXCEPT ![t] = Head(pool)]
         /\ \E p : /\ p = <<>> \/ p = <<ToCreator([type |-> "CreateIdentity"])>>
                   /\ todo' = p \o <<ToCreator(Activate(t, Head(pool)))>>
  BY DEF RequestIdentity, Registered, CallFails, Activate
<1>2. \A s \in Services : crd[s] # NoUser => crd'[s] = crd[s]
  BY <1>t, <1>1
<1>3. ASSUME NEW s \in Services, NEW c \in Users, Following(s, c), crd[s] # NoUser
      PROVE  Following(s, c)'
  <2>1. Keeps(imq, imq', Activations(s))
    <3>1. Requested(t).type # "ActivatedServiceUser" BY DEF Requested
    <3>2. Requested(t) \notin Activations(s) BY <3>1, OwnMessages
    <3>3. QED BY <1>t, <3>2, TailLast, LastFacts
  <2>2. Keeps(todo, todo', Sends(s))
    <3>1. CASE UNCHANGED <<crd, todo>> BY <3>1, LastFacts
    <3>2. CASE pool # <<>> /\ crd[t] = NoUser
               /\ \E p : /\ p = <<>> \/ p = <<ToCreator([type |-> "CreateIdentity"])>>
                         /\ todo' = p \o <<ToCreator(Activate(t, Head(pool)))>>
      <4>1. NoneIn(todo', Sends(s)) BY <1>t, <1>3, <3>2, RequestLast
      <4>2. QED BY <4>1, LastFacts
    <3>3. QED BY <1>1, <3>1, <3>2
  <2>3. QED BY <1>2, <1>3, <2>1, <2>2, LastFacts, FollowKept
            DEF ManagerFrame, creatorVars
<1>4. ASSUME NEW s \in Services, crd[s] = NoUser, crd'[s] # NoUser
      PROVE  \E u \in Users : InQueue(pool, u) /\ Following(s, u)'
  <2>1. s = t /\ pool # <<>>
        /\ \E p : /\ p = <<>> \/ p = <<ToCreator([type |-> "CreateIdentity"])>>
                  /\ todo' = p \o <<ToCreator(Activate(t, Head(pool)))>>
    BY <1>t, <1>1, <1>4
  <2>2. PICK u \in Users : u = Head(pool) BY <1>t, <2>1
  <2>3. LastIn(todo', Sends(s), ToCreator(Activate(s, u)))
    BY <2>1, <2>2, RequestLast
  <2>4. Following(s, u)' BY <2>3 DEF Following, Waiting
  <2>5. InQueue(pool, u) BY <1>t, <2>1, <2>2, TailFacts
  <2>6. QED BY <2>4, <2>5
<1>5. DeletionsFrom
  <2>1. \A v, w : InQueue(imq', Removal(v, w)) => InQueue(imq, Removal(v, w))
    BY <1>t, ManagerTail
  <2>2. \A v, w : /\ ~InQueue(todo', ToManager(Removal(v, w)))
                  /\ ~InQueue(todo', ToCreator(Deletion(v, w)))
    BY <1>1, OneSend, RequestSends
  <2>3. QED BY <2>1, <2>2 DEF DeletionsFrom, Removing, Deleting
<1>6. QED BY <1>3, <1>4, <1>5

\* The creator handles a message that concerns another service, or none.
LEMMA OtherFollow ==
    ASSUME TypeOK, CreatorFrame, imq' = imq, ictodo = <<>>,
           icq # <<>>, icq' = Tail(icq),
           NEW s \in Services, NEW c \in Users, Following(s, c),
           Head(icq) \notin ServiceMsgs(s), NoneIn(ictodo', ServiceSteps(s)),
           sdp[c] = "enabled" => sdp'[c] = "enabled",
           svcSecret'[s] = svcSecret[s]
    PROVE  Following(s, c)'
<1>t. icq \in Seq(CreatorMsg) BY DEF TypeOK, ChannelsTypeOK
<1>1. UNCHANGED <<crd, todo>> BY DEF CreatorFrame, managerVars
<1>2. Keeps(icq, icq', ServiceMsgs(s)) BY <1>t, TailLast
<1>3. /\ Waiting(s, c) => Waiting(s, c)'
      /\ Handled(s, c) => Handled(s, c)'
      /\ Informed(s, c) => Informed(s, c)'
  BY <1>1, <1>2, OwnMessages DEF Waiting, Handled, Informed, Keeps
<1>4. Written(s, c) => Written(s, c)'
  <2>1. ictodo # <<Secrets(s, c)>>
    <3>1. Len(<<Secrets(s, c)>>) = 1 /\ Len(<<>>) = 0 OBVIOUS
    <3>2. QED BY <3>1
  <2>2. QED BY <2>1 DEF Written
<1>5. ictodo # ActivationSteps(s, c)
  <2>1. Len(ActivationSteps(s, c)) = 2 /\ Len(<<>>) = 0 BY DEF ActivationSteps
  <2>2. QED BY <2>1
<1>6. QED BY <1>3, <1>4, <1>5 DEF Following

\* The creator handles a message about the service: the activation it follows
\* is still to come, or is this one.
LEMMA OwnFollow ==
    ASSUME TypeOK, CreatorFrame, icq # <<>>, icq' = Tail(icq),
           NEW s \in Services, NEW c \in Users, Following(s, c),
           Head(icq) \in ServiceMsgs(s)
    PROVE  \/ Following(s, c)'
           \/ /\ Head(icq) = Activate(s, c)
              /\ NoneIn(icq', ServiceMsgs(s)) /\ NoneIn(todo', Sends(s))
<1>t. icq \in Seq(CreatorMsg) BY DEF TypeOK, ChannelsTypeOK
<1>1. todo' = todo BY DEF CreatorFrame, managerVars
<1>2. Waiting(s, c) BY <1>t, TailLast DEF Following, Handled
<1>3. CASE LastIn(todo, Sends(s), ToCreator(Activate(s, c)))
  BY <1>1, <1>3 DEF Following, Waiting
<1>4. CASE /\ LastIn(icq, ServiceMsgs(s), Activate(s, c))
           /\ NoneIn(todo, Sends(s))
  <2>1. CASE LastIn(icq', ServiceMsgs(s), Activate(s, c))
    BY <1>1, <1>4, <2>1 DEF Following, Waiting
  <2>2. QED BY <1>t, <1>1, <1>4, <2>1, TailLast
<1>5. QED BY <1>2, <1>3, <1>4 DEF Waiting

\* The elements of the two steps that follow an activation.
LEMMA ActivationShape ==
    ASSUME NEW s, NEW u, NEW r, r = ActivationSteps(s, u)
    PROVE  /\ r # <<>> /\ Head(r) = Notify(Activation(s, u))
           /\ Tail(r) = <<Secrets(s, u)>>
           /\ \A t : t # s => NoneIn(r, ServiceSteps(t))
<1> DEFINE x == Notify(Activation(s, u))
           y == Secrets(s, u)
<1>1. r = <<x, y>>
  BY DEF ActivationSteps, Notify, Activation, Secrets
<1>2. \A t : t # s => x \notin ServiceSteps(t) /\ y \notin ServiceSteps(t)
  BY OwnMessages
<1> HIDE DEF x, y
<1>3. r # <<>> /\ Head(r) = x /\ Tail(r) = <<y>> BY <1>1
<1>4. \A t : t # s => NoneIn(r, ServiceSteps(t)) BY <1>1, <1>2 DEF NoneIn
<1>5. QED BY <1>3, <1>4 DEF x, y

\* The handlers of the creator.
LEMMA CreatorFollow ==
    ASSUME ReconcileInv, UserInv, crashes = 0, failures = 0, failures' = 0,
           \/ CreateIdentity \/ CreatorDevices
           \/ \E t \in Services, u \in Users :
                 DeleteServiceUser(t, u) \/ ActivateServiceUser(t, u),
           NEW s \in Services, NEW c \in Users, Safe(c), Following(s, c)
    PROVE  Exists(c)' /\ Following(s, c)'
<1>t. /\ TypeOK /\ icq \in Seq(CreatorMsg)
      /\ svcSecret \in [Services -> MaybeUser]
      /\ sdp \in [Users -> {"fresh", "disabled", "enabled", "deleted"}]
  BY DEF ReconcileInv, TypeOK, ChannelsTypeOK, StoresTypeOK
<1>f. ~CallFails BY DEF CallFails
<1>s. NoneIn(<<>>, ServiceSteps(s)) BY LastFacts
<1>r. ASSUME NEW m, CreatorReceive(m)
      PROVE  ictodo = <<>> /\ icq # <<>> /\ icq' = Tail(icq) /\ Head(icq) = m
  BY <1>r DEF CreatorReceive
<1>1. CASE CreatorDevices
  <2>1. PICK m : /\ CreatorReceive(m) /\ m.type \in Plain /\ CreatorFrame
                 /\ UNCHANGED <<imq, ictodo, sdp, svcSecret>>
    BY <1>1 DEF CreatorDevices, creatorVars, Plain
  <2>2. Head(icq) \notin ServiceMsgs(s) BY <1>r, <2>1, OwnMessages
  <2>3. Following(s, c)' BY <1>r, <1>s, <1>t, <2>1, <2>2, OtherFollow
  <2>4. QED BY <2>1, <2>3 DEF Safe, Exists
<1>2. CASE CreateIdentity
  <2> DEFINE m == [type |-> "CreateIdentity"]
  <2>1. /\ CreatorReceive(m) /\ CreatorFrame /\ UNCHANGED <<imq, svcSecret>>
        /\ \/ /\ HasFresh /\ sdp' = [sdp EXCEPT ![NewUser] = "disabled"]
              /\ ictodo' = NotifyFree(NewUser)
           \/ UNCHANGED <<sdp, ictodo>>
    BY <1>2, <1>f DEF CreateIdentity, CreateUser, CreateUserFails
  <2>2. m.type \in Plain BY DEF Plain
  <2> HIDE DEF m
  <2>3. Head(icq) \notin ServiceMsgs(s) BY <1>r, <2>1, <2>2, OwnMessages
  <2>4. sdp'[c] = sdp[c]
    <3>1. HasFresh => sdp[NewUser] = "fresh" BY DEF HasFresh, NewUser
    <3>2. sdp[c] # "fresh" BY DEF Safe, Exists
    <3>3. QED BY <1>t, <2>1, <3>1, <3>2
  <2>5. NoneIn(ictodo', ServiceSteps(s))
    <3>1. \A u : Notify(Report(u)) \notin ServiceSteps(s) BY OwnMessages
    <3>2. \A u : NotifyFree(u) = <<Notify(Report(u))>> BY DEF NotifyFree, Notify, Report
    <3>3. QED BY <1>r, <1>s, <2>1, <3>1, <3>2, LastFacts
  <2>6. Following(s, c)' BY <1>r, <1>t, <2>1, <2>3, <2>4, <2>5, OtherFollow
  <2>7. QED BY <2>4, <2>6 DEF Safe, Exists
<1>3. ASSUME NEW t \in Services, NEW u \in Users, DeleteServiceUser(t, u)
      PROVE  Exists(c)' /\ Following(s, c)'
  <2>1. /\ CreatorReceive(Deletion(t, u)) /\ CreatorFrame
        /\ UNCHANGED <<imq, ictodo>>
        /\ RemoveFromController(u) /\ svcSecret' = [svcSecret EXCEPT ![t] = NoUser]
    BY <1>3, <1>f DEF DeleteServiceUser, UserDeleted, SecretsDeleted, Deletion,
                      creatorVars
  <2>2. u # c
    <3>1. InQueue(icq, Deletion(t, u)) BY <1>t, <2>1, CreatorReceived
    <3>2. QED BY <3>1 DEF Safe, Deleting
  <2>3. sdp'[c] = sdp[c] BY <1>t, <2>1, <2>2 DEF RemoveFromController
  <2>4. CASE t # s
    <3>1. Head(icq) \notin ServiceMsgs(s) BY <1>r, <2>1, <2>4, OwnMessages
    <3>2. svcSecret'[s] = svcSecret[s] BY <1>t, <2>1, <2>4
    <3>3. Following(s, c)' BY <1>r, <1>s, <1>t, <2>1, <2>3, <3>1, <3>2, OtherFollow
    <3>4. QED BY <2>3, <3>3 DEF Safe, Exists
  <2>5. CASE t = s
    <3>1. Head(icq) \in ServiceMsgs(s) BY <1>r, <2>1, <2>5, OwnMessages
    <3>2. Head(icq) # Activate(s, c) BY <1>r, <2>1, TokenKinds
    <3>3. Following(s, c)' BY <1>r, <1>t, <2>1, <3>1, <3>2, OwnFollow
    <3>4. QED BY <2>3, <3>3 DEF Safe, Exists
  <2>6. QED BY <2>4, <2>5
<1>4. ASSUME NEW t \in Services, NEW u \in Users, ActivateServiceUser(t, u)
      PROVE  Exists(c)' /\ Following(s, c)'
  <2>1. /\ CreatorReceive(Activate(t, u)) /\ CreatorFrame
        /\ UNCHANGED <<imq, svcSecret>> /\ ictodo' = ActivationSteps(t, u)
        /\ sdp' = IF Exists(u) THEN [sdp EXCEPT ![u] = "enabled"] ELSE sdp
    BY <1>4, <1>f DEF ActivateServiceUser, Activate
  <2>2. /\ sdp'[c] = "enabled" \/ (u # c /\ sdp'[c] = sdp[c])
        /\ Exists(c)'
    BY <1>t, <2>1 DEF Safe, Exists
  <2>3. CASE t # s
    <3>1. Head(icq) \notin ServiceMsgs(s) BY <1>r, <2>1, <2>3, OwnMessages
    <3>2. NoneIn(ictodo', ServiceSteps(s)) BY <2>1, <2>3, ActivationShape
    <3>3. QED BY <1>r, <1>t, <2>1, <2>2, <3>1, <3>2, OtherFollow
  <2>4. CASE t = s
    <3>1. Head(icq) \in ServiceMsgs(s) BY <1>r, <2>1, <2>4, OwnMessages
    <3>2. CASE /\ Head(icq) = Activate(s, c)
               /\ NoneIn(icq', ServiceMsgs(s)) /\ NoneIn(todo', Sends(s))
      <4>1. u = c BY <1>r, <2>1, <3>2, TokenKinds
      <4>2. QED BY <2>1, <2>2, <2>4, <3>2, <4>1 DEF Following, Handled
    <3>3. QED BY <1>r, <1>t, <2>1, <2>2, <3>1, <3>2, OwnFollow
  <2>5. QED BY <2>3, <2>4
<1>5. QED BY <1>1, <1>2, <1>3, <1>4

\* The pending steps of a handler of the creator.
LEMMA PendingFollow ==
    ASSUME TypeOK, failures = 0, failures' = 0, CreatorNotify \/ CreatorSecrets,
           NEW s \in Services, NEW c \in Users, Following(s, c)
    PROVE  Following(s, c)' /\ sdp' = sdp
<1> DEFINE x == Head(ictodo)
<1>t. /\ imq \in Seq(ManagerMsg) /\ ictodo \in Seq(CreatorStep)
      /\ svcSecret \in [Services -> MaybeUser]
  BY DEF TypeOK, ChannelsTypeOK, CreatorTypeOK, StoresTypeOK
<1>1. /\ ictodo # <<>> /\ ictodo' = Tail(ictodo) /\ CreatorFrame
      /\ UNCHANGED <<sdp, icq>>
      /\ \/ /\ x.op = "notify" /\ imq' = Append(imq, x.m) /\ svcSecret' = svcSecret
         \/ /\ x.op = "secrets" /\ imq' = imq
            /\ svcSecret' = [svcSecret EXCEPT ![x.s] = x.u]
  BY DEF CreatorNotify, CreatorSecrets, SendToManager, CallFails
<1>2. UNCHANGED <<crd, todo>> BY <1>1 DEF CreatorFrame, managerVars
<1>3. x \in CreatorStep BY <1>t, <1>1
<1>4. NoneIn(ictodo, ServiceSteps(s)) =>
          NoneIn(ictodo', ServiceSteps(s)) /\ x \notin ServiceSteps(s)
  BY <1>t, <1>1, TailLast
<1>5. /\ Waiting(s, c) => Waiting(s, c)'
      /\ Handled(s, c) => Handled(s, c)'
  BY <1>1, <1>2 DEF Waiting, Handled
<1>6. CASE ictodo = ActivationSteps(s, c) /\ Handled(s, c)
  <2>1. x = Notify(Activation(s, c)) /\ ictodo' = <<Secrets(s, c)>>
    BY <1>1, <1>6, ActivationShape
  <2>2. x.op = "notify" /\ x.m = Activation(s, c) BY <2>1, WrapKinds
  <2>3. LastIn(imq', Activations(s), Activation(s, c))
    BY <1>t, <1>1, <2>2, AppendLast, OwnMessages
  <2>4. QED BY <1>1, <1>5, <1>6, <2>1, <2>3 DEF Following, Written, Informed
<1>7. CASE Handled(s, c) /\ Written(s, c) /\ Informed(s, c)
  <2>1. CASE ictodo = <<Secrets(s, c)>>
    <3>1. x = Secrets(s, c) /\ ictodo' = <<>> BY <1>1, <2>1
    <3>2. x.op = "secrets" /\ x.s = s /\ x.u = c BY <3>1, OwnMessages
    <3>3. svcSecret'[s] = c /\ imq' = imq BY <1>t, <1>1, <3>2
    <3>4. Written(s, c)' BY <3>1, <3>3, LastFacts DEF Written
    <3>5. Informed(s, c)' BY <1>2, <1>7, <3>3 DEF Informed
    <3>6. QED BY <1>1, <1>5, <1>7, <3>4, <3>5 DEF Following
  <2>2. CASE svcSecret[s] = c /\ NoneIn(ictodo, ServiceSteps(s))
    <3>1. CASE x.op = "notify" /\ imq' = Append(imq, x.m) /\ svcSecret' = svcSecret
      <4>1. x.m \in ManagerMsg BY <1>3, <3>1, PendingSteps
      <4>2. x.m \notin Activations(s) BY <1>3, <1>4, <2>2, <3>1 DEF ServiceSteps
      <4>3. Keeps(imq, imq', Activations(s)) BY <1>t, <3>1, <4>1, <4>2, AppendLast
      <4>4. Informed(s, c)' BY <1>2, <1>7, <4>3, OwnMessages DEF Informed, Keeps
      <4>5. Written(s, c)' BY <1>4, <2>2, <3>1 DEF Written
      <4>6. QED BY <1>1, <1>5, <1>7, <4>4, <4>5 DEF Following
    <3>2. CASE /\ x.op = "secrets" /\ imq' = imq
               /\ svcSecret' = [svcSecret EXCEPT ![x.s] = x.u]
      <4>1. x.s # s BY <1>3, <1>4, <2>2, <3>2 DEF ServiceSteps
      <4>2. svcSecret'[s] = c BY <1>t, <2>2, <3>2, <4>1
      <4>3. Written(s, c)' BY <1>4, <2>2, <4>2 DEF Written
      <4>4. Informed(s, c)' BY <1>2, <1>7, <3>2 DEF Informed
      <4>5. QED BY <1>1, <1>5, <1>7, <4>3, <4>4 DEF Following
    <3>3. QED BY <1>1, <3>1, <3>2
  <2>3. QED BY <1>7, <2>1, <2>2 DEF Written
<1>8. CASE Waiting(s, c) BY <1>1, <1>5, <1>8 DEF Following
<1>9. QED BY <1>6, <1>7, <1>8 DEF Following

\* No step of the creator asks for a deletion.
LEMMA CreatorDeletions ==
    ASSUME TypeOK, CreatorNext
    PROVE  DeletionsFrom
<1>k. /\ \A u, on : FoundServiceUser(u, on).type # "DeleteServiceIdentity"
      /\ \A u \in Users, on \in BOOLEAN : FoundServiceUser(u, on) \in ManagerMsg
      /\ IdentityCreatorReady \in ManagerMsg
      /\ IdentityCreatorReady.type # "DeleteServiceIdentity"
  BY ReportKinds, ManagerMessages, Kinds
<1>1. todo' = todo /\ services' = services
  BY DEF CreatorNext, CreatorStart, CreatorScan, DeleteSDPUser, CreatorClean,
         CreatorFill, CreatorReady, CreatorNotify, CreatorSecrets, CreateIdentity,
         DeleteServiceUser, ActivateServiceUser, CreatorDevices, CreatorFrame,
         managerVars
<1>2. icq' = icq \/ (icq # <<>> /\ icq' = Tail(icq))
  BY DEF CreatorNext, CreatorStart, CreatorScan, DeleteSDPUser, CreatorClean,
         CreatorFill, CreatorReady, CreatorNotify, CreatorSecrets, CreateIdentity,
         DeleteServiceUser, ActivateServiceUser, CreatorDevices, CreatorReceive
<1>3. imq' = imq \/ \E m \in ManagerMsg : imq' = Append(imq, m)
                                          /\ m.type # "DeleteServiceIdentity"
  <2>1. ASSUME NEW u \in Users, CreatorScan(u)
        PROVE  imq' = imq \/ \E on \in BOOLEAN :
                                imq' = Append(imq, FoundServiceUser(u, on))
    BY <2>1 DEF CreatorScan, SendToManager
  <2>2. CASE CreatorNotify
    <3>1. Head(ictodo) \in CreatorStep /\ Head(ictodo).op = "notify"
          /\ imq' = Append(imq, Head(ictodo).m)
      BY <2>2 DEF CreatorNotify, SendToManager, TypeOK, CreatorTypeOK
    <3>2. Head(ictodo).m \in FoundUserMsg \cup ActivatedMsg
          /\ Head(ictodo).m \in ManagerMsg
      BY <3>1, PendingSteps
    <3>3. Head(ictodo).m.type # "DeleteServiceIdentity" BY <3>2, OtherKinds
    <3>4. QED BY <3>1, <3>2, <3>3
  <2>3. CASE CreatorReady BY <1>k, <2>3 DEF CreatorReady, SendToManager
  <2>4. ASSUME NEW u \in Users, CreatorScan(u)
        PROVE  imq' = imq \/ \E m \in ManagerMsg :
                                imq' = Append(imq, m) /\ m.type # "DeleteServiceIdentity"
    BY <1>k, <2>1, <2>4
  <2>5. CASE \/ CreatorStart \/ CreatorClean \/ CreatorFill \/ CreatorSecrets
             \/ CreateIdentity \/ CreatorDevices
             \/ \E u \in Users : DeleteSDPUser(u)
             \/ \E s \in Services, u \in Users :
                   DeleteServiceUser(s, u) \/ ActivateServiceUser(s, u)
    BY <2>5 DEF CreatorStart, DeleteSDPUser, CreatorClean, CreatorFill,
                CreatorSecrets, CreateIdentity, DeleteServiceUser,
                ActivateServiceUser, CreatorDevices
  <2>6. QED BY <2>2, <2>3, <2>4, <2>5 DEF CreatorNext
<1>4. QED BY <1>1, <1>2, <1>3, ChannelDeletions DEF DeletionsFrom, Removing, Deleting

\* The service s will have a user after the step, which it had or which was free.
Led(s) ==
    \E c \in Users : /\ Exists(c)' /\ Following(s, c)'
                     /\ (Safe(c) /\ Following(s, c)) \/ (Offered(c) /\ crd[s] = NoUser)

\* A quiet step.
LEMMA QuietLeads ==
    ASSUME ReconcileInv, Removals, FollowInv, Quiet, crashes = 0, failures = 0
    PROVE  DeletionsFrom /\ \A s \in Services : crd'[s] # NoUser => Led(s)
<1>t. TypeOK /\ MemoryIsObject BY DEF ReconcileInv, Removals
<1>1. DeletionsFrom BY <1>t, QuietDeletions
<1>2. \A s \in Services : crd'[s] = crd[s] BY <1>t DEF Quiet, MemoryIsObject
<1>3. \A s \in Services, c \in Users : Following(s, c) => Following(s, c)'
  BY <1>t, QuietFollow
<1>4. ASSUME NEW s \in Services, crd'[s] # NoUser PROVE Led(s)
  <2>1. PICK c \in Users : Safe(c) /\ Following(s, c) BY <1>2, <1>4 DEF FollowInv
  <2>2. Exists(c)' BY <2>1 DEF Safe, Exists, Quiet
  <2>3. QED BY <1>3, <2>1, <2>2 DEF Led
<1>5. QED BY <1>1, <1>4

\* The manager, in the first process and without failures.
LEMMA ManagerLeads ==
    ASSUME ReconcileInv, UserInv, Removals, FollowInv, ManagerNext,
           crashes = 0, failures = 0, failures' = 0
    PROVE  DeletionsFrom /\ \A s \in Services : crd'[s] # NoUser => Led(s)
<1>t. /\ TypeOK /\ imq \in Seq(ManagerMsg) /\ MemoryIsObject
      /\ crd \in [Services -> MaybeUser] /\ services \in [Services -> MaybeUser]
  BY DEF ReconcileInv, TypeOK, ChannelsTypeOK, StoresTypeOK, ManagerTypeOK, Removals
<1> DEFINE Leads == DeletionsFrom /\ \A s \in Services : crd'[s] # NoUser => Led(s)
\* Steps that give no service its first user.
<1>k. ASSUME DeletionsFrom, sdp' = sdp,
             \A s \in Services : crd'[s] # NoUser => crd[s] # NoUser,
             \A s \in Services, c \in Users :
                 Following(s, c) /\ crd[s] # NoUser /\ crd'[s] # NoUser
                     => Following(s, c)'
      PROVE  Leads
  <2> SUFFICES ASSUME NEW s \in Services, crd'[s] # NoUser PROVE Led(s)
    BY <1>k
  <2>1. PICK c \in Users : Safe(c) /\ Following(s, c) BY <1>k DEF FollowInv
  <2>2. Exists(c)' BY <1>k, <2>1 DEF Safe, Exists
  <2>3. QED BY <1>k, <2>1, <2>2 DEF Led
<1>q. ASSUME Quiet PROVE Leads
  BY <1>q, QuietLeads
<1>1. CASE ManagerSendNext
  <2>1. DeletionsFrom BY <1>1, <1>t, SendDeletions
  <2>2. sdp' = sdp /\ crd' = crd BY <1>1 DEF ManagerSendNext, ManagerFrame
  <2>3. \A s \in Services, c \in Users : Following(s, c) => Following(s, c)'
    BY <1>1, <1>t, SendFollow
  <2>4. QED BY <1>k, <2>1, <2>2, <2>3
<1>2. ASSUME NEW t \in Services, NEW u \in Users, DeleteIdentity(t, u),
             services = crd, todo = <<>>, ManagerFrame, icq' = icq,
             \/ imq' = imq
             \/ imq # <<>> /\ imq' = Tail(imq) /\ Head(imq) = Removal(t, u),
             Removing(t, u) \/ services[t] = u
      PROVE  Leads
  <2>1. DeletionsFrom BY <1>2, <1>t, DeleteFollow
  <2>2. \A s \in Services, c \in Users : Following(s, c) /\ s # t => Following(s, c)'
    BY <1>2, <1>t, DeleteFollow
  <2>3. /\ crd'[t] = NoUser /\ \A s \in Services : s # t => crd'[s] = crd[s]
    BY <1>2, <1>t, DeletionClears
  <2>4. sdp' = sdp BY <1>2 DEF ManagerFrame
  <2>5. QED BY <1>k, <2>1, <2>2, <2>3, <2>4
<1>3. ASSUME NEW t \in Services, NEW u \in Users, delete_service_identity(t, u)
      PROVE  Leads
  <2>1. /\ imq # <<>> /\ Head(imq) = Removal(t, u) /\ imq' = Tail(imq)
        /\ todo = <<>> /\ DeleteIdentity(t, u) /\ ManagerFrame /\ icq' = icq
        /\ services = crd
    BY <1>3, <1>t DEF delete_service_identity, Receive, Idle, Removal, MemoryIsObject
  <2>2. Removing(t, u) BY <1>t, <2>1, ManagerTail DEF Removing
  <2>3. QED BY <1>2, <2>1, <2>2
<1>4. ASSUME NEW t \in Services, ReconcileDelete(t) PROVE Leads
  <2>1. /\ t \in batch /\ stage \in {"extra", "stale"} /\ todo = <<>>
        /\ DeleteIdentity(t, services[t]) /\ ManagerFrame
        /\ UNCHANGED <<icq, imq>> /\ services = crd
    BY <1>4, <1>t DEF ReconcileDelete, InStage, MemoryIsObject
  <2>2. services[t] \in Users
    BY <1>t, <2>1 DEF TypeOK, ManagerTypeOK, BatchTypeOK
  <2>3. QED BY <1>2, <2>1, <2>2
<1>5. ASSUME NEW t \in Services, NEW u \in Users,
             \/ activated_service_user(t, u)
             \/ \E on \in BOOLEAN : found_service_user(u, on)
      PROVE  Leads
  <2>1. /\ imq # <<>> /\ imq' = Tail(imq) /\ icq' = icq /\ todo' = todo
        /\ services = crd /\ ManagerFrame
        /\ crd' = crd \/ (services[t] # NoUser /\ crd' = [crd EXCEPT ![t] = u])
    BY <1>5, <1>t DEF activated_service_user, found_service_user, UpdateIdentity,
                      Receive, Idle, Registered, MemoryIsObject
  <2>2. DeletionsFrom
    BY <1>t, <2>1, ChannelDeletions DEF DeletionsFrom, Removing, Deleting
  <2>3. \A s \in Services : crd'[s] # NoUser => crd[s] # NoUser BY <1>t, <2>1
  <2>4. \A s \in Services, c \in Users :
            Following(s, c) /\ crd[s] # NoUser => Following(s, c)'
    BY <1>5, <1>t, ReportFollow
  <2>5. sdp' = sdp BY <2>1 DEF ManagerFrame
  <2>6. QED BY <1>k, <2>2, <2>3, <2>4, <2>5
<1>6. ASSUME NEW t \in Services, RequestIdentity(t), services = crd, todo = <<>>,
             ManagerFrame, icq' = icq,
             \/ imq' = imq
             \/ imq # <<>> /\ imq' = Tail(imq) /\ Head(imq) = Requested(t)
      PROVE  Leads
  <2>1. /\ \A s \in Services, c \in Users :
              Following(s, c) /\ crd[s] # NoUser => Following(s, c)'
        /\ \A s \in Services : crd[s] = NoUser /\ crd'[s] # NoUser =>
              \E u \in Users : InQueue(pool, u) /\ Following(s, u)'
        /\ DeletionsFrom
    BY <1>6, <1>t, RequestFollow
  <2>2. sdp' = sdp BY <1>6 DEF ManagerFrame
  <2>3. ASSUME NEW s \in Services, crd'[s] # NoUser PROVE Led(s)
    <3>1. CASE crd[s] # NoUser
      <4>1. PICK c \in Users : Safe(c) /\ Following(s, c) BY <3>1 DEF FollowInv
      <4>2. Exists(c)' BY <2>2, <4>1 DEF Safe, Exists
      <4>3. QED BY <2>1, <3>1, <4>1, <4>2 DEF Led
    <3>2. CASE crd[s] = NoUser
      <4>1. PICK u \in Users : InQueue(pool, u) /\ Following(s, u)'
        BY <2>1, <2>3, <3>2
      <4>2. Offered(u) BY <4>1 DEF Offered, Pooled
      <4>3. Exists(u)' BY <2>2, <4>2 DEF UserInv, FirstProcess, Exists
      <4>4. QED BY <3>2, <4>1, <4>2, <4>3 DEF Led
    <3>3. QED BY <3>1, <3>2
  <2>4. QED BY <2>1, <2>3
<1>7. ASSUME NEW t \in Services, request_service_identity(t) PROVE Leads
  <2>1. /\ imq # <<>> /\ Head(imq) = Requested(t) /\ imq' = Tail(imq)
        /\ todo = <<>> /\ RequestIdentity(t) /\ ManagerFrame /\ icq' = icq
        /\ services = crd
    BY <1>7, <1>t DEF request_service_identity, Receive, Idle, Requested, MemoryIsObject
  <2>2. QED BY <1>6, <2>1
<1>8. ASSUME NEW t \in Services, ReconcileMissing(t) PROVE Leads
  <2>1. /\ todo = <<>> /\ RequestIdentity(t) /\ ManagerFrame
        /\ UNCHANGED <<imq, icq>> /\ services = crd
    BY <1>8, <1>t DEF ReconcileMissing, InStage, MemoryIsObject
  <2>2. QED BY <1>6, <2>1
\* There may be no service at all.
<1>9. ASSUME NEW u \in Users, NEW on \in BOOLEAN, found_service_user(u, on)
      PROVE  Leads
  <2>1. CASE Services = {} BY <2>1 DEF DeletionsFrom
  <2>2. QED BY <1>5, <1>9, <2>1
<1>10. QED
  BY <1>q, <1>1, <1>3, <1>4, <1>5, <1>7, <1>8, <1>9, ManagerQuiet DEF ManagerNext

\* The creator: it handles messages only once the start-up is over.
LEMMA CreatorLeads ==
    ASSUME ReconcileInv, UserInv, FollowInv, CreatorNext,
           crashes = 0, failures = 0, failures' = 0
    PROVE  DeletionsFrom /\ \A s \in Services : crd'[s] # NoUser => Led(s)
<1>t. /\ TypeOK /\ icq \in Seq(CreatorMsg) /\ crd \in [Services -> MaybeUser]
  BY DEF ReconcileInv, TypeOK, ChannelsTypeOK, StoresTypeOK
<1>1. DeletionsFrom BY <1>t, CreatorDeletions
<1>2. crd' = crd
  BY DEF CreatorNext, CreatorStart, CreatorScan, DeleteSDPUser, CreatorClean,
         CreatorFill, CreatorReady, CreatorNotify, CreatorSecrets, CreateIdentity,
         DeleteServiceUser, ActivateServiceUser, CreatorDevices, CreatorFrame
<1>3. ASSUME NEW s \in Services, crd'[s] # NoUser PROVE Led(s)
  <2>1. PICK c \in Users : Safe(c) /\ Following(s, c) BY <1>2, <1>3 DEF FollowInv
  <2>2. Held(s, c) BY <2>1, FollowedHeld
  <2>3. icphase = "run" BY <2>2, NotReady
  <2>4. ~ \E u \in Users : DeleteSDPUser(u)
    BY <1>t, CreatorReceived DEF DeleteSDPUser, DeleteOnly, UserInv, FirstProcess
  <2>5. CASE \/ CreateIdentity \/ CreatorDevices
             \/ \E t \in Services, u \in Users :
                   DeleteServiceUser(t, u) \/ ActivateServiceUser(t, u)
    BY <2>1, <2>5, CreatorFollow DEF Led
  <2>6. CASE CreatorNotify \/ CreatorSecrets
    <3>1. Following(s, c)' /\ sdp' = sdp BY <1>t, <2>1, <2>6, PendingFollow
    <3>2. Exists(c)' BY <2>1, <3>1 DEF Safe, Exists
    <3>3. QED BY <2>1, <3>1, <3>2 DEF Led
  <2>7. ~(CreatorStart \/ (\E u \in Users : CreatorScan(u)) \/ CreatorClean
          \/ CreatorFill \/ CreatorReady)
    BY <2>3 DEF CreatorStart, CreatorScan, CreatorClean, CreatorFill, CreatorReady
  <2>8. QED BY <2>4, <2>5, <2>6, <2>7 DEF CreatorNext
<1>4. QED BY <1>1, <1>3

\* A forced restart is counted, and none is forgotten.
LEMMA CrashesGrow ==
    ASSUME TypeOK, [Next]_vars, crashes' = 0
    PROVE  crashes = 0 /\ ~Crash
<1>t. crashes \in Nat
  BY ConstantsAssumption DEF TypeOK, BoundsTypeOK
<1>0. SUFFICES ~Crash => crashes = 0 BY <1>t DEF Crash
<1>1. ASSUME NEW w \in Watchers, WatcherNext(w) PROVE crashes' = crashes
  <2>1. CASE WatcherList(w) \/ WatcherNotify(w) \/ WatcherStart(w) \/ WatcherRelist(w)
    BY <2>1 DEF WatcherList, WatcherNotify, WatcherStart, WatcherRelist,
                WatcherFrame, envVars
  <2>2. ASSUME NEW s \in Services,
               WatcherInitialized(w, s) \/ WatcherApply(w, s) \/ WatcherDelete(w, s)
        PROVE  crashes' = crashes
    BY <2>2 DEF WatcherInitialized, WatcherApply, WatcherDelete, WatcherEvent,
                WatcherFrame, envVars
  <2>3. QED BY <1>1, <2>1, <2>2 DEF WatcherNext
<1>2. CASE ManagerNext
  BY <1>2 DEF ManagerNext, ManagerInitialize, ManagerSendNext,
     found_service_candidate, request_service_identity, deleted_service_candidate,
     release_device_id, ReconcileDelete, ReconcileMissing, found_service_user,
     delete_service_identity, activated_service_user, identity_creator_ready,
     deployment_watcher_ready, ReconcileStart, ReconcileExtraDone, ReconcileUser,
     ReconcileUsersDone, ReconcileStaleDone, ReconcileDone, ManagerFrame, envVars
<1>3. CASE CreatorNext
  BY <1>3 DEF CreatorNext, CreatorStart, CreatorScan, DeleteSDPUser, CreatorClean,
     CreatorFill, CreatorReady, CreatorNotify, CreatorSecrets, CreateIdentity,
     DeleteServiceUser, ActivateServiceUser, CreatorDevices, CreatorFrame, envVars
<1>4. CASE EnvironmentNext
  BY <1>4, <1>t DEF EnvironmentNext, ApplyObject, DeleteObject, PodWatcherRelease,
     FlipLabel, CreatorFillPanics
<1>5. CASE UNCHANGED vars BY <1>5 DEF vars, envVars
<1>6. QED BY <1>1, <1>2, <1>3, <1>4, <1>5 DEF Next

\* Every step of the first process, without failures.
LEMMA StepLeads ==
    ASSUME ReconcileInv, UserInv, Removals, FollowInv, [Next]_vars,
           crashes = 0, failures = 0, crashes' = 0, failures' = 0
    PROVE  DeletionsFrom /\ \A s \in Services : crd'[s] # NoUser => Led(s)
<1>t. TypeOK BY DEF ReconcileInv
<1>1. CASE \/ \E w \in Watchers : WatcherNext(w)
           \/ EnvironmentNext /\ ~Crash /\ ~CreatorFillPanics
           \/ UNCHANGED vars
  BY <1>1, <1>t, OutsideQuiet, QuietLeads
<1>2. CASE ManagerNext BY <1>2, ManagerLeads
<1>3. CASE CreatorNext BY <1>3, CreatorLeads
<1>4. ~Crash BY <1>t, CrashesGrow
<1>5. ~CreatorFillPanics BY DEF CreatorFillPanics, CreateUserFails, CallFails
<1>6. QED BY <1>1, <1>2, <1>3, <1>4, <1>5 DEF Next

\* What FollowInv says of a service that keeps its user, or gets one.
LEMMA LedSafe ==
    ASSUME ReconcileInv, UserInv, RemovalOwn, DeletionsFrom, crashes = 0,
           SingleHolder, NEW s \in Services, crd'[s] # NoUser, Led(s)
    PROVE  \E u \in Users : Safe(u)' /\ Following(s, u)'
<1>1. PICK c \in Users :
          /\ Exists(c)' /\ Following(s, c)'
          /\ (Safe(c) /\ Following(s, c)) \/ (Offered(c) /\ crd[s] = NoUser)
  BY DEF Led
<1>2. Offered(c) => /\ \A t \in Services : ~Held(t, c) /\ ~Deleting(t, c)
                                           /\ ~Removing(t, c)
  BY DEF UserInv, FirstProcess, Doomed, Deleting, Removing
<1>3. ASSUME NEW t \in Services, Deleting(t, c)' PROVE FALSE
  <2>1. ~Deleting(t, c) BY <1>1, <1>2 DEF Safe
  <2>2. crd'[t] = NoUser /\ (Removing(t, c) \/ services[t] = c)
    BY <1>3, <2>1 DEF DeletionsFrom
  <2>3. CASE Offered(c) BY <1>2, <2>2, <2>3 DEF Held
  <2>4. CASE Following(s, c)
    <3>1. Held(s, c) BY <2>4, FollowedHeld
    <3>2. t = s BY <2>2, <3>1 DEF RemovalOwn, SingleHolder, Held
    <3>3. QED BY <2>2, <3>2
  <2>5. QED BY <1>1, <2>3, <2>4
<1>4. Safe(c)' BY <1>1, <1>3 DEF Safe
<1>5. QED BY <1>1, <1>4

\* Only the identity that is deleted has its user.
LEMMA RemovalOwnKept ==
    ASSUME UserInv, RemovalOwn, DeletionsFrom, UserMoves, crashes = 0, SingleHolder
    PROVE  RemovalOwn'
<1> SUFFICES ASSUME NEW s \in Services, NEW t \in Services, NEW u \in Users,
                    Removing(t, u)', Held(s, u)'
             PROVE  s = t
  BY DEF RemovalOwn
<1>1. Removing(t, u) \/ services[t] = u BY DEF DeletionsFrom
<1>2. Held(s, u) \/ Offered(u) BY DEF UserMoves, UserMove
<1>3. ~Offered(u)
  BY <1>1 DEF UserInv, FirstProcess, Doomed, Removing, Held
<1>4. QED BY <1>1, <1>2, <1>3 DEF RemovalOwn, SingleHolder, Held

\* Every step keeps FollowInv.
LEMMA FollowStep ==
    ReconcileInv /\ UserInv /\ RemovalInv /\ FollowInv /\ [Next]_vars => FollowInv'
<1> SUFFICES ASSUME ReconcileInv, UserInv, RemovalInv, FollowInv, [Next]_vars,
                    crashes' = 0, failures' = 0
             PROVE  /\ \A s \in Services : crd'[s] # NoUser =>
                          \E u \in Users : Safe(u)' /\ Following(s, u)'
                    /\ RemovalOwn'
  BY DEF FollowInv
<1>1. crashes = 0 /\ failures = 0
  BY CrashesGrow, FailuresGrow DEF ReconcileInv
<1>2. Removals /\ SingleHolder /\ RemovalOwn
  BY <1>1 DEF RemovalInv, UserInv, FollowInv
<1>3. DeletionsFrom /\ \A s \in Services : crd'[s] # NoUser => Led(s)
  BY <1>1, <1>2, StepLeads
<1>4. UserMoves BY <1>1, MovesStep
<1>5. RemovalOwn' BY <1>1, <1>2, <1>3, <1>4, RemovalOwnKept
<1>6. ASSUME NEW s \in Services, crd'[s] # NoUser
      PROVE  \E u \in Users : Safe(u)' /\ Following(s, u)'
  BY <1>1, <1>2, <1>3, <1>6, LedSafe
<1>7. QED BY <1>5, <1>6

\* At the start no service has an identity, and nothing is on its way.
LEMMA FollowInit == Init => FollowInv
<1> SUFFICES ASSUME Init PROVE FollowInv
  OBVIOUS
<1>1. \A s \in Services : crd[s] = NoUser BY DEF Init
<1>2. \A t, u : ~Removing(t, u)
  BY DEF Init, ProcessInit, InQueue, Removing
<1>3. QED BY <1>1, <1>2 DEF FollowInv, RemovalOwn

\* The invariant, of every behaviour.
LEMMA FollowAlways == Spec => []FollowInv
<1>1. QED
  BY FollowInit, FollowStep, ReconcileInvariant, UserInvariant, RemovalAlways, PTL
     DEF Spec

\* When the process has come to rest, the manager's map, the object and the
\* Secret of a service name the same user, and the controller has it enabled,
\* however often candidates were deleted and created again and whatever order
\* the two channels delivered activations and deletions in: the service may have
\* got the user that an earlier activation asked for, but then everything names
\* that one.  It holds of the first process, as long as no call failed.
THEOREM SettledIdentitiesAlways == Spec => [](crashes = 0 => SettledIdentities)
<1>1. ReconcileInv /\ RemovalInv /\ FollowInv => (crashes = 0 => SettledIdentities)
  <2> SUFFICES ASSUME ReconcileInv, RemovalInv, FollowInv, crashes = 0,
                      Settled, failures = 0,
                      NEW s \in Services, crd[s] # NoUser
               PROVE  /\ services[s] = crd[s] /\ svcSecret[s] = crd[s]
                      /\ sdp[crd[s]] = "enabled"
    BY DEF SettledIdentities
  <2>1. PICK u \in Users : Following(s, u) BY DEF FollowInv
  <2>2. /\ imq = <<>> /\ icq = <<>> /\ todo = <<>> /\ ictodo = <<>>
        /\ imphase = "run"
    BY DEF Settled, Idle
  <2>3. services = crd BY <2>2 DEF RemovalInv, Removals, MemoryIsObject
  <2>4. Handled(s, u) /\ Written(s, u) /\ Informed(s, u)
    BY <2>1, <2>2, LastFacts DEF Following, Waiting, ActivationSteps
  <2>5. svcSecret[s] = u BY <2>2, <2>4 DEF Written
  <2>6. crd[s] = u BY <2>2, <2>4, LastFacts DEF Informed
  <2>7. QED BY <2>3, <2>4, <2>5, <2>6 DEF Handled
<1>2. QED BY <1>1, ReconcileInvariant, RemovalAlways, FollowAlways, PTL

-----------------------------------------------------------------------------
(***************************************************************************)
(* The candidates found at start-up: the pool that identity_manager_ready  *)
(* draws from is full, so as many of them get an identity.                 *)
(***************************************************************************)
NoOrders == ~InQueue(icq, Order) /\ ~InQueue(todo, ToCreator(Order))

\* Every free user of initialize is reported ahead of IdentityCreatorReady.
ReportsFirst ==
    icphase = "run" /\ ~creatorReady =>
        /\ \A u \in Users : ~Notifying(u)
        /\ FollowedBy(imq, FreeReports, {IdentityCreatorReady})

\* Until identities are requested there is none, nothing was ordered, and the
\* pool is full as soon as the manager knows that the creator is ready.
Untaken ==
    ~Requesting =>
        /\ \A s \in Services : crd[s] = NoUser
        /\ NoOrders /\ ReportsFirst
        /\ creatorReady /\ HasFresh => Len(pool) >= PoolSize

\* While they are requested, what is missing in the pool has been given to the
\* candidates that were handled, and all of them got an identity if the pool
\* was large enough.
Taken == {s \in Services : Registered(s)}

Giving ==
    /\ imphase # "run" => stage = "none"
    /\ ~released => existing = {}
    /\ IsFiniteSet(missing)
    /\ stage = "missing" =>
          /\ Taken \subseteq missing \ batch
          /\ HasFresh => Len(pool) + Cardinality(Taken) >= PoolSize
          /\ HasFresh /\ Cardinality(missing) <= PoolSize
                 => missing \ batch \subseteq Taken

\* The inductive form of ReconcileServesFound.
ServeInv == crashes = 0 /\ failures = 0 => Untaken /\ Giving

\* Nothing of K occurs.
LEMMA OccursNone ==
    ASSUME NEW q, NEW K, \A m \in K : ~InQueue(q, m)
    PROVE  Occurs(q, K) = 0
<1>1. Places(q, K) = {} BY DEF Places, InQueue
<1>2. QED BY <1>1, FS_EmptySet DEF Occurs

\* Steps that give no identity.
LEMMA ServeKept ==
    ASSUME TypeOK, TypeOK', Untaken, Giving, HasFresh' => HasFresh,
           UNCHANGED <<crd, released, creatorReady>>,
           services' = services \/ stage # "missing",
           ~released => existing' = existing,
           missing' = missing \/ (stage # "missing" /\ \E s : missing' = missing \cup {s}),
           UNCHANGED <<stage, batch>> \/ (stage # "missing" /\ stage' # "missing"),
           imphase' = "run" \/ UNCHANGED <<imphase, stage>>,
           Len(pool') >= Len(pool),
           ~Requesting /\ NoOrders => NoOrders',
           ~Requesting /\ NoOrders /\ ReportsFirst => ReportsFirst'
    PROVE  Untaken' /\ Giving'
<1>t. /\ Len(pool) \in Nat /\ Len(pool') \in Nat /\ PoolSize \in Nat
  BY ConstantsAssumption DEF TypeOK, ManagerTypeOK
<1>1. Requesting' <=> Requesting BY DEF Requesting
<1>2. Untaken' BY <1>t, <1>1 DEF Untaken
<1>3. IsFiniteSet(missing') BY FS_AddElement DEF Giving
<1>4. CASE stage' = "missing"
  <2>1. UNCHANGED <<stage, batch, services, missing>> /\ Taken' = Taken
    BY <1>4 DEF Taken, Registered
  <2>2. IsFiniteSet(missing \ batch) BY FS_Difference DEF Giving
  <2>3. IsFiniteSet(Taken) BY <1>4, <2>1, <2>2, FS_Subset DEF Giving
  <2>4. Cardinality(Taken) \in Nat BY <2>3, FS_CardinalityType
  <2>5. HasFresh' => Len(pool') + Cardinality(Taken') >= PoolSize
    BY <1>t, <1>4, <2>1, <2>4 DEF Giving
  <2>6. QED BY <1>2, <1>3, <1>4, <2>1, <2>5 DEF Giving
<1>5. CASE stage' # "missing" BY <1>2, <1>3, <1>5 DEF Giving
<1>6. QED BY <1>4, <1>5

\* Once the watchers are released, nothing is claimed.
LEMMA ServeReleased ==
    ASSUME Giving, released', stage' # "missing", missing' = missing,
           imphase' = "run"
    PROVE  Untaken' /\ Giving'
BY DEF Untaken, Giving, Requesting

\* What keeps the order of the reports.
LEMMA ReportsFirstKept ==
    ASSUME imq \in Seq(ManagerMsg), ReportsFirst, icphase' = icphase,
           creatorReady' = creatorReady,
           \A u \in Users : Notifying(u)' => Notifying(u),
           \/ imq' = imq
           \/ imq # <<>> /\ imq' = Tail(imq)
           \/ \E m \in ManagerMsg : imq' = Append(imq, m) /\ m.type # "FoundServiceUser"
    PROVE  ReportsFirst'
<1> SUFFICES ASSUME icphase = "run", ~creatorReady
             PROVE  FollowedBy(imq', FreeReports, {IdentityCreatorReady})
  BY DEF ReportsFirst
<1>1. FollowedBy(imq, FreeReports, {IdentityCreatorReady}) BY DEF ReportsFirst
<1>2. CASE imq' = imq BY <1>1, <1>2
<1>3. CASE imq # <<>> /\ imq' = Tail(imq) BY <1>1, <1>3, ManagerTail
<1>4. ASSUME NEW m \in ManagerMsg, imq' = Append(imq, m), m.type # "FoundServiceUser"
      PROVE  FollowedBy(imq', FreeReports, {IdentityCreatorReady})
  <2>1. m \notin FreeReports BY <1>4, FreeKinds
  <2>2. QED BY <1>1, <1>4, <2>1, ManagerAppend
<1>5. QED BY <1>2, <1>3, <1>4

\* The watchers and the cluster.
LEMMA ServeOutside ==
    ASSUME TypeOK, TypeOK', Untaken, Giving,
           UNCHANGED <<crd, sdp, released, icq, managerVars, creatorVars>>,
           imq' = imq \/ \E m \in ManagerMsg :
                             imq' = Append(imq, m) /\ m.type # "FoundServiceUser"
    PROVE  Untaken' /\ Giving'
<1>1. UNCHANGED <<services, pool, existing, missing, creatorReady, imphase, todo,
                  stage, batch, icphase, ictodo>>
  BY DEF managerVars, startupVars, readyVars, stageVars, creatorVars
<1>2. ReportsFirst => ReportsFirst'
  BY <1>1, ReportsFirstKept DEF TypeOK, ChannelsTypeOK, Notifying
<1>3. NoOrders => NoOrders' BY <1>1 DEF NoOrders
<1>4. HasFresh' => HasFresh BY DEF HasFresh
<1>5. Len(pool') >= Len(pool) BY <1>1 DEF TypeOK, ManagerTypeOK
<1>6. QED BY <1>1, <1>2, <1>3, <1>4, <1>5, ServeKept

\* The watchers and the environment, as long as the process goes on.
LEMMA OutsideServe ==
    ASSUME TypeOK, TypeOK', Untaken, Giving,
           \/ \E w \in Watchers : WatcherNext(w)
           \/ EnvironmentNext /\ ~Crash /\ ~CreatorFillPanics
           \/ UNCHANGED vars
    PROVE  Untaken' /\ Giving'
<1> DEFINE Sent == imq' = imq \/ \E m \in ManagerMsg :
                       imq' = Append(imq, m) /\ m.type # "FoundServiceUser"
<1>s. ASSUME NEW m \in Harmless, SendToManager(m) PROVE Sent
  BY <1>s DEF SendToManager, Harmless
<1>1. ASSUME NEW w \in Watchers, WatcherNext(w) PROVE Untaken' /\ Giving'
  <2>1. WatcherFrame
    BY <1>1 DEF WatcherNext, WatcherList, WatcherNotify, WatcherStart, WatcherRelist,
                WatcherInitialized, WatcherApply, WatcherDelete, WatcherEvent
  <2>2. imq' = imq \/ \E m \in Harmless : SendToManager(m)
    BY <1>1, WatcherMessages
       DEF WatcherNext, WatcherList, WatcherNotify, WatcherStart, WatcherRelist,
           WatcherInitialized, WatcherApply, WatcherDelete
  <2>3. Sent BY <1>s, <2>2
  <2>4. UNCHANGED <<crd, sdp, released, icq, managerVars, creatorVars>>
    BY <2>1 DEF WatcherFrame, apiVars
  <2>5. QED BY <2>3, <2>4, ServeOutside
<1>2. ASSUME NEW o \in Objects, ApplyObject(o[1], o[2]) \/ DeleteObject(o[1], o[2])
      PROVE  Untaken' /\ Giving'
  BY <1>2, ServeOutside DEF ApplyObject, DeleteObject, apiVars
<1>3. ASSUME NEW s \in Services, FlipLabel(s) PROVE Untaken' /\ Giving'
  BY <1>3, ServeOutside DEF FlipLabel, apiVars
<1>4. ASSUME NEW s \in Services, PodWatcherRelease(s) PROVE Untaken' /\ Giving'
  <2> DEFINE m == [type |-> "ReleaseDeviceId", s |-> s]
  <2>1. m \in Harmless BY WatcherMessages
  <2>2. SendToManager(m)
        /\ UNCHANGED <<crd, sdp, released, icq, managerVars, creatorVars>>
    BY <1>4 DEF PodWatcherRelease, apiVars
  <2> HIDE DEF m
  <2>3. QED BY <1>s, <2>1, <2>2, ServeOutside
<1>5. CASE UNCHANGED vars
  BY <1>5, ServeOutside DEF vars, apiVars
<1>6. QED BY <1>1, <1>2, <1>3, <1>4, <1>5 DEF EnvironmentNext

\* Before identities are requested the manager has none in its map.
LEMMA NoneTaken ==
    ASSUME UserInv, Untaken, Giving, ~Requesting
    PROVE  Taken = {} /\ existing = {} /\ \A s \in Services : ~Registered(s)
BY ConstantsAssumption
   DEF UserInv, Unrequested, Untaken, Giving, Requesting, Taken, Registered

\* The manager's steps that neither give nor take an identity.
LEMMA ManagerServe ==
    ASSUME TypeOK, TypeOK', Untaken, Giving, ManagerFrame, imphase' = "run",
           UNCHANGED <<released, creatorReady>>,
           crd' = crd \/ (released /\ stage = "none"),
           services' = services \/ stage # "missing",
           ~released => existing' = existing,
           missing' = missing \/ (stage # "missing" /\ \E s : missing' = missing \cup {s}),
           UNCHANGED <<stage, batch>> \/ (stage # "missing" /\ stage' # "missing"),
           pool' = pool \/ \E u \in Users : pool' = Append(pool, u),
           \/ imq' = imq
           \/ imq # <<>> /\ imq' = Tail(imq)
           \/ \E m \in ManagerMsg : imq' = Append(imq, m) /\ m.type # "FoundServiceUser",
           ~Requesting /\ NoOrders => NoOrders'
    PROVE  Untaken' /\ Giving'
<1>t. imq \in Seq(ManagerMsg) /\ pool \in Seq(Users) /\ PoolSize \in Nat
  BY ConstantsAssumption DEF TypeOK, ChannelsTypeOK, ManagerTypeOK
<1>1. UNCHANGED <<icphase, ictodo, sdp>> BY DEF ManagerFrame, creatorVars
<1>2. HasFresh' => HasFresh BY <1>1 DEF HasFresh
<1>3. Len(pool') >= Len(pool)
  <2>1. CASE pool' = pool BY <1>t, <2>1
  <2>2. ASSUME NEW u \in Users, pool' = Append(pool, u) PROVE Len(pool') >= Len(pool)
    BY <1>t, <2>2, AppendShape
  <2>3. QED BY <2>1, <2>2
<1>4. ReportsFirst => ReportsFirst'
  BY <1>t, <1>1, ReportsFirstKept DEF Notifying
<1>5. CASE crd' = crd
  BY <1>2, <1>3, <1>4, <1>5, ServeKept
<1>6. CASE crd' # crd
  <2>1. released /\ stage = "none" BY <1>6
  <2>2. stage' # "missing" /\ IsFiniteSet(missing')
    BY <2>1, FS_AddElement DEF Giving
  <2>3. QED BY <2>1, <2>2 DEF Untaken, Giving, Requesting
<1>7. QED BY <1>5, <1>6

\* Handlers that send nothing, or one message that orders no user.
LEMMA NoOrderSent ==
    ASSUME NoOrders,
           \/ icq' = icq
           \/ icq \in Seq(CreatorMsg) /\ \E m \in CreatorMsg :
                 icq' = Append(icq, m) /\ m.type # "CreateIdentity",
           \/ todo' = todo \/ todo' = <<>> \/ todo' = SelfReady
           \/ \E s, u : todo' = <<ToManager(Removal(s, u))>>
           \/ \E u : todo' = <<ToCreator([type |-> "ReleaseDeviceId", u |-> u])>>
    PROVE  NoOrders'
<1>1. ~InQueue(icq', Order)
  <2>1. CASE icq' = icq BY <2>1 DEF NoOrders
  <2>2. ASSUME icq \in Seq(CreatorMsg), NEW m \in CreatorMsg, icq' = Append(icq, m),
               m.type # "CreateIdentity"
        PROVE  ~InQueue(icq', Order)
    <3>1. m # Order BY <2>2 DEF Order
    <3>2. QED BY <2>2, <3>1, CreatorAppend DEF NoOrders
  <2>3. QED BY <2>1, <2>2
<1>2. ~InQueue(todo', ToCreator(Order))
  <2>1. CASE todo' = todo BY <2>1 DEF NoOrders
  <2>2. CASE todo' = <<>> \/ todo' = SelfReady
             \/ \E s, u : todo' = <<ToManager(Removal(s, u))>>
    BY <2>2, OneSend, WrapKinds DEF SelfReady
  <2>3. ASSUME NEW u, todo' = <<ToCreator([type |-> "ReleaseDeviceId", u |-> u])>>
        PROVE  ~InQueue(todo', ToCreator(Order))
    <3> DEFINE m == [type |-> "ReleaseDeviceId", u |-> u]
    <3>1. m.type # "CreateIdentity" OBVIOUS
    <3>2. todo' = <<ToCreator(m)>> BY <2>3
    <3> HIDE DEF m
    <3>3. m # Order BY <3>1 DEF Order
    <3>4. QED BY <3>2, <3>3, OneSend, WrapKinds
  <2>4. QED BY <2>1, <2>2, <2>3
<1>3. QED BY <1>1, <1>2 DEF NoOrders

\* The start of the manager and its pending sends.
LEMMA SendServe ==
    ASSUME TypeOK, TypeOK', Untaken, Giving, ManagerInitialize \/ ManagerSendNext
    PROVE  Untaken' /\ Giving'
<1>t. /\ imq \in Seq(ManagerMsg) /\ icq \in Seq(CreatorMsg)
      /\ todo \in Seq(ManagerSend)
  BY DEF TypeOK, ChannelsTypeOK, ManagerTypeOK
<1>1. CASE ManagerInitialize
  <2> DEFINE m == [type |-> "StartService"]
  <2>1. m \in CreatorMsg /\ m.type # "CreateIdentity"
    BY DEF CreatorMsg
  <2>2. /\ icq' = Append(icq, m) /\ imphase' = "run" /\ ManagerFrame
        /\ UNCHANGED <<crd, released, imq, pool, existing, missing, creatorReady,
                       todo, stage, batch>>
        /\ imphase # "run"
    BY <1>1 DEF ManagerInitialize, SendToCreator, startupVars, readyVars, stageVars
  <2> HIDE DEF m
  <2>3. NoOrders => NoOrders' BY <1>t, <2>1, <2>2, NoOrderSent
  <2>4. stage # "missing" BY <2>2 DEF Giving
  <2>5. QED BY <2>2, <2>3, <2>4, ManagerServe
<1>2. CASE ManagerSendNext
  <2> DEFINE x == Head(todo)
  <2>1. /\ todo # <<>> /\ todo' = Tail(todo) /\ imphase = "run" /\ ManagerFrame
        /\ UNCHANGED <<crd, released, imphase, services, pool, existing, missing,
                       creatorReady, stage, batch>>
        /\ \/ x.to = "creator" /\ icq' = Append(icq, x.m) /\ imq' = imq
           \/ x.to = "manager" /\ imq' = Append(imq, x.m) /\ icq' = icq
    BY <1>2 DEF ManagerSendNext, SendToCreator, SendToManager, startupVars,
                readyVars, stageVars
  <2>2. x \in ManagerSend BY <1>t, <2>1
  <2>3. \A y : InQueue(todo, y) <=> x = y \/ InQueue(todo', y)
    BY <1>t, <2>1, TailFacts
  <2> HIDE DEF x
  <2>4. CASE x.to = "creator" /\ icq' = Append(icq, x.m) /\ imq' = imq
    <3>1. x = ToCreator(x.m) /\ x.m \in CreatorMsg
      BY <2>2, <2>4, PendingSends DEF ManagerSend, ToCreator
    <3>2. \A m : InQueue(icq', m) <=> InQueue(icq, m) \/ x.m = m
      BY <1>t, <2>4, <3>1, CreatorAppend
    <3>3. NoOrders => NoOrders' BY <2>3, <3>1, <3>2 DEF NoOrders
    <3>4. QED BY <2>1, <2>4, <3>3, ManagerServe
  <2>5. CASE x.to = "manager" /\ imq' = Append(imq, x.m) /\ icq' = icq
    <3>1. x.m \in DeleteMsg \cup {IdentityManagerReady} /\ x.m \in ManagerMsg
      BY <2>2, <2>5, PendingSends DEF ManagerSend
    <3>2. x.m.type # "FoundServiceUser" BY <3>1, OtherKinds, Kinds
    <3>3. NoOrders => NoOrders' BY <2>3, <2>5 DEF NoOrders
    <3>4. QED BY <2>1, <2>5, <3>1, <3>2, <3>3, ManagerServe
  <2>6. QED BY <2>1, <2>4, <2>5
<1>3. QED BY <1>1, <1>2

\* The handlers that neither request an identity nor learn that the creator is
\* ready, and the deleting stages of the reconciliation.
LEMMA HandlerServe ==
    ASSUME ReconcileInv, UserInv, TypeOK', Untaken, Giving, failures = 0, failures' = 0,
           \/ \E s \in Services :
                 \/ found_service_candidate(s) \/ deleted_service_candidate(s)
                 \/ release_device_id(s) \/ ReconcileDelete(s)
           \/ \E s \in Services, u \in Users :
                 delete_service_identity(s, u) \/ activated_service_user(s, u)
           \/ \E u \in Users, on \in BOOLEAN : found_service_user(u, on)
           \/ \E w \in Watchers : deployment_watcher_ready(w)
           \/ ReconcileStart \/ ReconcileExtraDone \/ ReconcileUsersDone
           \/ \E u \in Users : ReconcileUser(u)
    PROVE  Untaken' /\ Giving'
<1> USE DEF startupVars, readyVars, stageVars
<1>t. /\ TypeOK /\ imq \in Seq(ManagerMsg) /\ icq \in Seq(CreatorMsg)
      /\ crd \in [Services -> MaybeUser]
  BY DEF ReconcileInv, TypeOK, ChannelsTypeOK, StoresTypeOK
<1>r. \A m : Receive(m) => /\ imphase = "run" /\ todo = <<>> /\ stage = "none"
                           /\ imq # <<>> /\ imq' = Tail(imq)
  BY DEF Receive, Idle
<1>f. ~CallFails BY DEF CallFails
<1>q. ~released /\ stage = "none" =>
          /\ ~Requesting
          /\ \A s \in Services : ~Registered(s) /\ crd[s] = NoUser
  BY NoneTaken DEF Requesting, Untaken
<1>g. stage \in {"extra", "users", "stale"} =>
          ~released /\ ~Requesting /\ \A s \in Services : crd[s] = NoUser
  BY DEF ReconcileInv, ReadyToken, Requesting, Untaken
<1>1. ASSUME NEW s \in Services, found_service_candidate(s) PROVE Untaken' /\ Giving'
  <2>1. /\ Receive(FoundServiceCandidate(s)) /\ ManagerFrame
        /\ UNCHANGED <<crd, released, icq, imphase, services, pool, creatorReady,
                       todo, stage, batch>>
        /\ ~Registered(s) => existing' = existing
        /\ missing' = missing \/ missing' = missing \cup {s}
    BY <1>1 DEF found_service_candidate
  <2>2. ~released => existing' = existing BY <1>q, <1>r, <2>1
  <2>3. NoOrders => NoOrders' BY <2>1, NoOrderSent
  <2>4. QED BY <1>r, <1>t, <2>1, <2>2, <2>3, ManagerServe
<1>2. ASSUME NEW s \in Services, deleted_service_candidate(s)
      PROVE  Untaken' /\ Giving'
  <2>1. /\ \E m : Receive(m)
        /\ ManagerFrame /\ todo' = DeletionOf(s)
        /\ UNCHANGED <<crd, released, icq, imphase, services, pool, creatorReady,
                       existing, missing, stage, batch>>
    BY <1>2 DEF deleted_service_candidate
  <2>2. todo' = <<>> \/ todo' = <<ToManager(Removal(s, services[s]))>>
    BY <2>1 DEF DeletionOf, Removal
  <2>3. NoOrders => NoOrders' BY <2>1, <2>2, NoOrderSent
  <2>4. QED BY <1>r, <1>t, <2>1, <2>3, ManagerServe
<1>3. ASSUME NEW s \in Services, release_device_id(s) PROVE Untaken' /\ Giving'
  <2>1. /\ \E m : Receive(m)
        /\ ManagerFrame
        /\ UNCHANGED <<released, icq, imphase, services, pool, creatorReady,
                       existing, missing, stage, batch>>
        /\ \/ /\ Registered(s)
              /\ todo' = <<ToCreator([type |-> "ReleaseDeviceId", u |-> services[s]])>>
           \/ UNCHANGED <<crd, todo>>
    BY <1>3 DEF release_device_id
  <2>2. NoOrders => NoOrders' BY <2>1, NoOrderSent
  <2>3. ~released => crd' = crd BY <1>q, <1>r, <2>1
  <2>4. QED BY <1>r, <1>t, <2>1, <2>2, <2>3, ManagerServe
<1>d. ASSUME NEW s \in Services, NEW u, DeleteIdentity(s, u), NoOrders, icq' = icq,
             crd[s] = NoUser
      PROVE  NoOrders' /\ UNCHANGED <<crd, services>>
  <2>1. UNCHANGED <<crd, services, todo>> BY <1>f, <1>d DEF DeleteIdentity
  <2>2. QED BY <1>d, <2>1, NoOrderSent
<1>4. ASSUME NEW s \in Services, ReconcileDelete(s) PROVE Untaken' /\ Giving'
  <2>1. /\ imphase = "run" /\ stage \in {"extra", "stale"}
        /\ DeleteIdentity(s, services[s]) /\ ManagerFrame
        /\ UNCHANGED <<released, imq, icq, imphase, pool, creatorReady,
                       existing, missing, stage>>
    BY <1>4 DEF ReconcileDelete, InStage
  <2>2. NoOrders BY <1>g, <2>1 DEF Untaken
  <2>3. NoOrders' /\ UNCHANGED <<crd, services>> BY <1>d, <1>g, <2>1, <2>2
  <2>4. QED BY <1>t, <2>1, <2>3, ManagerServe
<1>5. ASSUME NEW s \in Services, NEW u \in Users, delete_service_identity(s, u)
      PROVE  Untaken' /\ Giving'
  <2>1. /\ \E m : Receive(m)
        /\ DeleteIdentity(s, u) /\ ManagerFrame
        /\ UNCHANGED <<released, icq, imphase, pool, creatorReady,
                       existing, missing, stage, batch>>
    BY <1>5 DEF delete_service_identity
  <2>2. CASE released BY <1>r, <2>1, <2>2, ServeReleased
  <2>3. CASE ~released
    <3>1. NoOrders /\ crd[s] = NoUser BY <1>q, <1>r, <2>1, <2>3 DEF Untaken
    <3>2. NoOrders' /\ UNCHANGED <<crd, services>> BY <1>d, <2>1, <3>1
    <3>3. QED BY <1>r, <1>t, <2>1, <3>2, ManagerServe
  <2>4. QED BY <2>2, <2>3
<1>6. ASSUME NEW s \in Services, NEW u \in Users, activated_service_user(s, u)
      PROVE  Untaken' /\ Giving'
  <2>1. /\ \E m : Receive(m)
        /\ ManagerFrame
        /\ UNCHANGED <<released, icq, imphase, pool, creatorReady, todo,
                       existing, missing, stage, batch>>
        /\ ~Registered(s) => UNCHANGED <<crd, services>>
    BY <1>6 DEF activated_service_user
  <2>2. CASE released BY <1>r, <2>1, <2>2, ServeReleased
  <2>3. CASE ~released
    <3>1. UNCHANGED <<crd, services>> BY <1>q, <1>r, <2>1, <2>3
    <3>2. NoOrders => NoOrders' BY <2>1, NoOrderSent
    <3>3. QED BY <1>r, <1>t, <2>1, <3>1, <3>2, ManagerServe
  <2>4. QED BY <2>2, <2>3
<1>7. ASSUME NEW u \in Users, NEW on \in BOOLEAN, found_service_user(u, on)
      PROVE  Untaken' /\ Giving'
  <2>1. /\ \E m : Receive(m)
        /\ ManagerFrame
        /\ UNCHANGED <<crd, released, icq, imphase, services, creatorReady, todo,
                       existing, missing, stage, batch>>
        /\ pool' = pool \/ pool' = Append(pool, u)
    BY <1>7 DEF found_service_user
  <2>2. NoOrders => NoOrders' BY <2>1, NoOrderSent
  <2>3. QED BY <1>r, <1>t, <2>1, <2>2, ManagerServe
<1>8. ASSUME NEW w \in Watchers, deployment_watcher_ready(w)
      PROVE  Untaken' /\ Giving'
  <2>1. /\ \E m : Receive(m)
        /\ ManagerFrame
        /\ UNCHANGED <<crd, released, icq, imphase, services, pool, creatorReady,
                       existing, missing, stage, batch>>
        /\ todo' = SelfReady \/ todo' = <<>>
    BY <1>8 DEF deployment_watcher_ready, ReadyIf
  <2>2. NoOrders => NoOrders' BY <2>1, NoOrderSent
  <2>3. QED BY <1>r, <1>t, <2>1, <2>2, ManagerServe
<1>9. CASE ReconcileStart \/ ReconcileExtraDone \/ ReconcileUsersDone
  <2>1. /\ ManagerFrame /\ imphase = "run"
        /\ imq' = imq \/ (imq # <<>> /\ imq' = Tail(imq))
        /\ UNCHANGED <<crd, released, icq, imphase, services, pool, creatorReady,
                       existing, missing, todo>>
        /\ stage # "missing" /\ stage' # "missing"
    BY <1>9, <1>r DEF ReconcileStart, ReconcileExtraDone, ReconcileUsersDone, InStage
  <2>2. NoOrders => NoOrders' BY <2>1, NoOrderSent
  <2>3. QED BY <1>t, <2>1, <2>2, ManagerServe
<1>10. ASSUME NEW u \in Users, ReconcileUser(u) PROVE Untaken' /\ Giving'
  <2> DEFINE m == [type |-> "DeleteSDPUser", u |-> u]
  <2>1. m \in CreatorMsg /\ m.type # "CreateIdentity" BY DEF CreatorMsg
  <2>2. /\ ManagerFrame /\ imphase = "run" /\ icq' = Append(icq, m)
        /\ UNCHANGED <<crd, released, imq, imphase, services, pool, creatorReady,
                       existing, missing, todo, stage>>
        /\ stage # "missing"
    BY <1>10 DEF ReconcileUser, InStage, SendToCreator
  <2> HIDE DEF m
  <2>3. NoOrders => NoOrders' BY <1>t, <2>1, <2>2, NoOrderSent
  <2>4. QED BY <1>t, <2>2, <2>3, ManagerServe
<1>11. QED BY <1>1, <1>2, <1>3, <1>4, <1>5, <1>6, <1>7, <1>8, <1>9, <1>10

\* When the manager learns that the creator is ready, no free user is on its
\* way any more: all that initialize found or created are in the pool.
LEMMA ReadyServe ==
    ASSUME ReconcileInv, UserInv, SupplyInv, Untaken, Giving, failures = 0,
           identity_creator_ready
    PROVE  Untaken' /\ Giving'
<1>t. TypeOK /\ imq \in Seq(ManagerMsg) /\ PoolSize \in Nat
  BY ConstantsAssumption DEF ReconcileInv, TypeOK, ChannelsTypeOK
<1>1. /\ imq # <<>> /\ Head(imq) = IdentityCreatorReady /\ todo = <<>>
      /\ stage = "none" /\ imphase = "run" /\ creatorReady' = TRUE
      /\ UNCHANGED <<crd, sdp, released, icq, imphase, services, pool, existing,
                     missing, stage, batch>>
      /\ todo' = SelfReady \/ todo' = <<>>
  BY DEF identity_creator_ready, Receive, Idle, ReadyIf, ManagerFrame, startupVars,
         stageVars
<1>2. Len(imq) \in Nat \ {0} /\ imq[1] = IdentityCreatorReady
  BY <1>t, <1>1, TailShape
<1>3. InQueue(imq, IdentityCreatorReady) BY <1>2 DEF InQueue
<1>4. icphase = "run" /\ ~creatorReady /\ Once(imq, IdentityCreatorReady)
  BY <1>3 DEF ReconcileInv, CreatorOrder
<1>5. ~released /\ ~Requesting
  BY <1>1, <1>4 DEF ReconcileInv, ReadyToken, Requesting
<1>6. /\ NoOrders /\ \A u \in Users : ~Notifying(u)
      /\ FollowedBy(imq, FreeReports, {IdentityCreatorReady})
      /\ \A s \in Services : crd[s] = NoUser
  BY <1>4, <1>5 DEF Untaken, ReportsFirst
<1>7. \A i \in 1..Len(imq) : imq[i] \notin FreeReports
  <2> SUFFICES ASSUME NEW i \in 1..Len(imq), imq[i] \in FreeReports PROVE FALSE
    OBVIOUS
  <2>1. PICK j \in 1..Len(imq) : j > i /\ imq[j] = IdentityCreatorReady
    BY <1>6 DEF FollowedBy
  <2>2. j = 1 BY <1>2, <1>4, <2>1 DEF Once
  <2>3. QED BY <1>2, <2>1, <2>2
<1>8. Announcements = 0 BY <1>7, OccursNone DEF Announcements, InQueue
<1>9. Notifications = 0
  <2>1. \A x \in FreeSteps : ~InQueue(ictodo, x)
    BY <1>6 DEF FreeSteps, FreeReports, Notifying
  <2>2. QED BY <2>1, OccursNone DEF Notifications
<1>10. Orders = 0 /\ Ordering = 0
  <2>1. Orders = 0 BY <1>6, OccursNone DEF NoOrders, Orders
  <2>2. Ordering = 0 BY <1>6, OccursNone DEF NoOrders, Ordering
  <2>3. QED BY <2>1, <2>2
<1>11. HasFresh => Len(pool) >= PoolSize
  <2>1. Outstanding = 0 BY <1>4 DEF Outstanding
  <2>2. Supply = Stock /\ Stock = Len(pool)
    BY <1>t, <1>8, <1>9, <1>10, <2>1, SupplyTyped DEF Supply, SupplyTerms, Stock
  <2>3. QED BY <2>2 DEF SupplyInv
<1>12. NoOrders' BY <1>1, <1>6, NoOrderSent
<1>13. Untaken'
  BY <1>1, <1>6, <1>11, <1>12 DEF Untaken, ReportsFirst, HasFresh
<1>14. QED BY <1>1, <1>13 DEF Giving

\* A candidate that appeared: identities are requested after the start-up only.
LEMMA RequestServe ==
    ASSUME TypeOK, UserInv, Giving, NEW s \in Services, request_service_identity(s)
    PROVE  Untaken' /\ Giving'
<1>t. imq \in Seq(ManagerMsg) BY DEF TypeOK, ChannelsTypeOK
<1> DEFINE m == [type |-> "RequestServiceIdentity", s |-> s]
<1>1. /\ imq # <<>> /\ m = Head(imq) /\ stage = "none" /\ imphase = "run"
      /\ UNCHANGED <<released, imphase, missing, stage>>
  BY DEF request_service_identity, Receive, Idle, startupVars, stageVars
<1>2. Requesting => released BY <1>1 DEF Requesting
<1>3. ~Requesting => ~InQueue(imq, m) BY DEF UserInv, Unrequested
<1> HIDE DEF m
<1>4. InQueue(imq, m) BY <1>1, <1>t, TailFacts
<1>5. QED BY <1>1, <1>2, <1>3, <1>4, ServeReleased

\* The last stage gives what is in the pool: it is empty only if more
\* candidates than PoolSize were found.
LEMMA MissingServe ==
    ASSUME ReconcileInv, Removals, Giving, failures = 0, failures' = 0,
           NEW s \in Services, ReconcileMissing(s)
    PROVE  Untaken' /\ Giving'
<1>t. /\ pool \in Seq(Users) /\ services \in [Services -> MaybeUser]
      /\ PoolSize \in Nat /\ NoUser \notin Users
  BY ConstantsAssumption DEF ReconcileInv, TypeOK, ManagerTypeOK
<1>1. /\ stage = "missing" /\ imphase = "run" /\ s \in batch /\ batch' = batch \ {s}
      /\ UNCHANGED <<sdp, released, imphase, existing, missing, stage>>
      /\ RequestIdentity(s)
  BY DEF ReconcileMissing, InStage, ManagerFrame, startupVars
<1>2. ~released /\ batch \subseteq missing /\ services = crd
  BY <1>1 DEF ReconcileInv, ReadyToken, Removals, Starting, MemoryIsObject
<1>3. /\ Taken \subseteq missing \ batch /\ IsFiniteSet(missing)
      /\ HasFresh => Len(pool) + Cardinality(Taken) >= PoolSize
      /\ HasFresh /\ Cardinality(missing) <= PoolSize
             => missing \ batch \subseteq Taken
  BY <1>1 DEF Giving
<1>4. ~Registered(s) /\ s \notin Taken /\ s \in missing
  BY <1>1, <1>2, <1>3 DEF Taken
<1>5. /\ IsFiniteSet(Taken) /\ Cardinality(Taken) \in Nat
      /\ Cardinality(missing) \in Nat
      /\ Cardinality(Taken) <= Cardinality(missing)
      /\ Cardinality(Taken) = Cardinality(missing) => Taken = missing
  BY <1>3, FS_Subset, FS_CardinalityType
<1>6. HasFresh' <=> HasFresh BY <1>1 DEF HasFresh
<1>7. SUFFICES /\ Taken' \subseteq missing \ batch'
               /\ HasFresh => Len(pool') + Cardinality(Taken') >= PoolSize
               /\ HasFresh /\ Cardinality(missing) <= PoolSize
                      => missing \ batch' \subseteq Taken'
  BY <1>1, <1>2, <1>3, <1>6 DEF Untaken, Giving, Requesting
<1>8. CASE pool = <<>>
  <2>1. UNCHANGED <<services, pool>> BY <1>8 DEF RequestIdentity, ReconcileMissing
  <2>2. Taken' = Taken BY <2>1 DEF Taken, Registered
  <2>3. HasFresh => ~(Cardinality(missing) <= PoolSize)
    <3> SUFFICES ASSUME HasFresh, Cardinality(missing) <= PoolSize PROVE FALSE
      OBVIOUS
    <3>1. Cardinality(Taken) >= PoolSize BY <1>3, <1>5, <1>8
    <3>2. Taken = missing BY <1>t, <1>5, <3>1
    <3>3. QED BY <1>4, <3>2
  <2>4. QED BY <1>1, <1>3, <2>1, <2>2, <2>3
<1>9. CASE pool # <<>>
  <2>1. pool' = Tail(pool) /\ services' = [services EXCEPT ![s] = Head(pool)]
    BY <1>1, <1>4, <1>9 DEF RequestIdentity, pop
  <2>2. Head(pool) \in Users /\ Len(pool') = Len(pool) - 1 /\ Len(pool) \in Nat
    BY <1>t, <1>9, <2>1
  <2>3. Taken' = Taken \cup {s} BY <1>t, <2>1, <2>2 DEF Taken, Registered
  <2>4. Cardinality(Taken') = Cardinality(Taken) + 1
    BY <1>4, <1>5, <2>3, FS_AddElement
  <2>5. QED BY <1>t, <1>1, <1>3, <1>4, <1>5, <2>2, <2>3, <2>4
<1>10. QED BY <1>8, <1>9

\* The other two steps of the reconciliation that change the stage.
LEMMA StageServe ==
    ASSUME ReconcileInv, UserInv, Untaken, Giving, ReconcileStaleDone \/ ReconcileDone
    PROVE  Untaken' /\ Giving'
<1>1. CASE ReconcileStaleDone
  <2>1. /\ stage = "stale" /\ stage' = "missing" /\ batch' = missing
        /\ imphase = "run"
        /\ UNCHANGED <<sdp, released, imphase, existing, missing, services, pool>>
    BY <1>1 DEF ReconcileStaleDone, InStage, ManagerFrame, startupVars
  <2>2. ~released /\ creatorReady /\ ~Requesting
    BY <2>1 DEF ReconcileInv, ReadyToken, Requesting
  <2>3. Taken = {} /\ Taken' = Taken
    BY <2>1, <2>2, NoneTaken DEF Taken, Registered
  <2>4. HasFresh' => Len(pool') >= PoolSize BY <2>1, <2>2 DEF Untaken, HasFresh
  <2>5. Cardinality(Taken') = 0 BY <2>3, FS_EmptySet
  <2>6. Len(pool') + Cardinality(Taken') = Len(pool')
    <3>1. Len(pool') \in Nat
      BY <2>1 DEF ReconcileInv, TypeOK, ManagerTypeOK
    <3>2. QED BY <2>5, <3>1
  <2>7. Untaken' BY <2>1 DEF Untaken, Requesting
  <2>8. QED BY <2>1, <2>3, <2>4, <2>6, <2>7 DEF Giving
<1>2. CASE ReconcileDone
  BY <1>2, ServeReleased DEF ReconcileDone, InStage, startupVars
<1>3. QED BY <1>1, <1>2

\* The creator: it reports every free user of initialize before it is ready,
\* and before identities are requested it is asked for nothing.
LEMMA CreatorServe ==
    ASSUME TypeOK, TypeOK', UserInv, Untaken, Giving, CreatorNext
    PROVE  Untaken' /\ Giving'
<1>t. /\ imq \in Seq(ManagerMsg) /\ icq \in Seq(CreatorMsg)
      /\ ictodo \in Seq(CreatorStep) /\ pool \in Seq(Users)
  BY DEF TypeOK, ChannelsTypeOK, CreatorTypeOK, ManagerTypeOK
<1>1. UNCHANGED <<crd, released, creatorReady, services, existing, missing, stage,
                  batch, imphase, pool, todo>>
  <2>1. CreatorFrame
    BY DEF CreatorNext, CreatorStart, CreatorScan, CreatorClean, CreatorFill,
           CreatorReady, CreatorNotify, CreatorSecrets, CreateIdentity,
           DeleteServiceUser, ActivateServiceUser, DeleteSDPUser, CreatorDevices
  <2>2. QED BY <2>1 DEF CreatorFrame, managerVars, startupVars, readyVars, stageVars
<1>2. icq' = icq \/ (icq # <<>> /\ icq' = Tail(icq))
  BY DEF CreatorNext, CreatorStart, CreatorScan, CreatorClean, CreatorFill,
         CreatorReady, CreatorNotify, CreatorSecrets, CreateIdentity,
         DeleteServiceUser, ActivateServiceUser, DeleteSDPUser, CreatorDevices,
         CreatorReceive
<1>3. NoOrders => NoOrders' BY <1>t, <1>1, <1>2, CreatorTail DEF NoOrders
<1>4. HasFresh' => HasFresh BY FreshShrinks DEF Next
<1>5. ASSUME ~Requesting, NoOrders, ReportsFirst PROVE ReportsFirst'
  <2>1. CASE CreatorStart \/ CreatorClean \/ CreatorFill
             \/ \E u \in Users : CreatorScan(u)
    <3>1. icphase' # "run"
      BY <2>1 DEF CreatorStart, CreatorScan, CreatorClean, CreatorFill
    <3>2. QED BY <3>1 DEF ReportsFirst
  <2>2. CASE CreatorReady
    <3>1. ictodo' = <<>> /\ imq' = Append(imq, IdentityCreatorReady)
      BY <2>2 DEF CreatorReady, SendToManager
    <3>2. /\ IdentityCreatorReady \in ManagerMsg
          /\ IdentityCreatorReady \notin FreeReports
      BY FreeKinds, Kinds, ManagerMessages
    <3>3. FollowedBy(imq', FreeReports, {IdentityCreatorReady})
      BY <1>t, <3>1, <3>2, ManagerAppend
    <3>4. \A u \in Users : ~Notifying(u)' BY <3>1, OneSend DEF Notifying
    <3>5. QED BY <3>3, <3>4 DEF ReportsFirst
  <2>3. CASE CreatorNotify \/ CreatorSecrets
    <3> SUFFICES ASSUME icphase = "run", ~creatorReady
                 PROVE  /\ \A u \in Users : ~Notifying(u)'
                        /\ FollowedBy(imq', FreeReports, {IdentityCreatorReady})
      BY <1>1, <2>3 DEF ReportsFirst, CreatorNotify, CreatorSecrets
    <3>1. /\ \A u \in Users : ~Notifying(u)
          /\ FollowedBy(imq, FreeReports, {IdentityCreatorReady})
      BY <1>5 DEF ReportsFirst
    <3>2. ictodo # <<>> /\ ictodo' = Tail(ictodo) /\ Head(ictodo) \in CreatorStep
      BY <1>t, <2>3 DEF CreatorNotify, CreatorSecrets
    <3>3. \A x : InQueue(ictodo, x) <=> Head(ictodo) = x \/ InQueue(ictodo', x)
      BY <1>t, <3>2, TailFacts
    <3>4. \A u \in Users : ~Notifying(u)' BY <3>1, <3>3 DEF Notifying
    <3>5. CASE CreatorSecrets
      BY <3>1, <3>4, <3>5 DEF CreatorSecrets
    <3>6. CASE CreatorNotify
      <4> DEFINE m == Head(ictodo).m
      <4>1. imq' = Append(imq, m) /\ Head(ictodo).op = "notify"
        BY <3>6 DEF CreatorNotify, SendToManager
      <4>2. m \in ManagerMsg BY <3>2, <4>1, PendingSteps
      <4>3. Head(ictodo) = [op |-> "notify", m |-> m]
        BY <3>2, <4>1 DEF CreatorStep
      <4>4. m \notin FreeReports
        BY <3>1, <3>3, <4>3 DEF FreeReports, Notifying
      <4> HIDE DEF m
      <4>5. FollowedBy(imq', FreeReports, {IdentityCreatorReady})
        BY <1>t, <3>1, <4>1, <4>2, <4>4, ManagerAppend
      <4>6. QED BY <3>4, <4>5
    <3>7. QED BY <2>3, <3>5, <3>6
  <2>4. CASE CreatorDevices \/ (\E u \in Users : DeleteSDPUser(u))
             \/ \E s \in Services, u \in Users : DeleteServiceUser(s, u)
    <3>1. UNCHANGED <<imq, icphase, ictodo>>
      BY <2>4 DEF CreatorDevices, DeleteSDPUser, DeleteServiceUser, creatorVars
    <3>2. QED BY <1>1, <1>5, <3>1 DEF ReportsFirst, Notifying
  <2>5. ~CreateIdentity
    <3> SUFFICES ASSUME CreateIdentity PROVE FALSE
      OBVIOUS
    <3>1. icq # <<>> /\ Head(icq) = Order /\ icq' = Tail(icq)
      BY DEF CreateIdentity, CreatorReceive, Order
    <3>2. QED BY <1>t, <1>5, <3>1, CreatorTail DEF NoOrders
  <2>6. ASSUME NEW s \in Services, NEW u \in Users, ActivateServiceUser(s, u)
        PROVE  FALSE
    <3>1. icq # <<>> /\ Head(icq) = Activate(s, u) /\ icq' = Tail(icq)
      BY <2>6 DEF ActivateServiceUser, CreatorReceive, Activate
    <3>2. InQueue(icq, Activate(s, u)) BY <1>t, <3>1, CreatorTail
    <3>3. QED BY <1>5, <3>2 DEF UserInv, Unrequested, Activating
  <2>7. QED BY <2>1, <2>2, <2>3, <2>4, <2>5, <2>6 DEF CreatorNext
<1>6. Len(pool') >= Len(pool) BY <1>t, <1>1
<1>7. QED BY <1>1, <1>3, <1>4, <1>5, <1>6, ServeKept

\* Every step keeps ServeInv.
LEMMA ServeStep ==
    /\ ReconcileInv /\ UserInv /\ RemovalInv /\ SupplyInv /\ ServeInv
    /\ [Next]_vars
    => ServeInv'
<1> SUFFICES ASSUME ReconcileInv, UserInv, RemovalInv, SupplyInv, ServeInv,
                    [Next]_vars, crashes' = 0, failures' = 0
             PROVE  Untaken' /\ Giving'
  BY DEF ServeInv
<1>1. /\ TypeOK /\ TypeOK' /\ crashes = 0 /\ failures = 0 /\ ~Crash
  BY TypeStep, CrashesGrow, FailuresGrow DEF ReconcileInv
<1>2. Removals /\ Untaken /\ Giving
  BY <1>1 DEF RemovalInv, ServeInv
<1>3. ~CreatorFillPanics
  BY <1>1 DEF CreatorFillPanics, CreateUserFails, CallFails
<1>4. CASE ManagerNext
  <2>1. CASE ManagerInitialize \/ ManagerSendNext
    BY <1>1, <1>2, <2>1, SendServe
  <2>2. CASE identity_creator_ready BY <1>1, <1>2, <2>2, ReadyServe
  <2>3. ASSUME NEW s \in Services, request_service_identity(s)
        PROVE  Untaken' /\ Giving'
    BY <1>1, <1>2, <2>3, RequestServe
  <2>4. ASSUME NEW s \in Services, ReconcileMissing(s) PROVE Untaken' /\ Giving'
    BY <1>1, <1>2, <2>4, MissingServe
  <2>5. CASE ReconcileStaleDone \/ ReconcileDone BY <1>2, <2>5, StageServe
  <2>6. QED BY <1>1, <1>2, <1>4, <2>1, <2>2, <2>3, <2>4, <2>5, HandlerServe
           DEF ManagerNext
<1>5. CASE CreatorNext BY <1>1, <1>2, <1>5, CreatorServe
<1>6. QED BY <1>1, <1>2, <1>3, <1>4, <1>5, OutsideServe DEF Next

\* At the start nothing is found, nothing is sent and no service has an identity.
LEMMA ServeInit == Init => ServeInv
<1> SUFFICES ASSUME Init PROVE Untaken /\ Giving
  BY DEF ServeInv
<1>1. /\ \A s \in Services : crd[s] = NoUser
      /\ icq = <<>> /\ todo = <<>> /\ icphase = "wait" /\ creatorReady = FALSE
      /\ imphase = "init" /\ stage = "none" /\ existing = {} /\ missing = {}
  BY DEF Init, ProcessInit
<1>2. NoOrders BY <1>1, OneSend DEF NoOrders
<1>3. IsFiniteSet(missing) BY <1>1, FS_EmptySet
<1>4. QED BY <1>1, <1>2, <1>3 DEF Untaken, Giving, ReportsFirst

\* The invariants, of every behaviour.
LEMMA SupplyAlways == Spec => []SupplyInv
<1>1. QED
  BY SupplyInit, SupplyStep, ReconcileInvariant, RemovalAlways, PTL DEF Spec

LEMMA ServeAlways == Spec => []ServeInv
<1>1. QED
  BY ServeInit, ServeStep, ReconcileInvariant, UserInvariant, RemovalAlways,
     SupplyAlways, PTL DEF Spec

\* What the comment in identity_manager_ready promises, and for whom it is kept:
\* in the first process, when no call failed and no more candidates were found
\* at start-up than initialize creates users, every one of them is registered
\* when the reconciliation ends, and none of the requests drops a candidate
\* because the pool is empty.  HasFresh is about the model's finite set of
\* uuids.  (The run StaleIdentity shows that it is not kept after a restart;
\* without the bound a request meets an empty pool and is dropped.)
THEOREM ReconcileServesFoundAlways ==
    Spec => [](crashes = 0 /\ failures = 0 /\ HasFresh
                   /\ Cardinality(missing) <= PoolSize
               => ReconcileServesFound)
<1>1. ReconcileInv /\ ServeInv
      => (crashes = 0 /\ failures = 0 /\ HasFresh
              /\ Cardinality(missing) <= PoolSize
          => ReconcileServesFound)
  <2> SUFFICES ASSUME ReconcileInv, Giving, HasFresh,
                      Cardinality(missing) <= PoolSize,
                      stage = "missing", batch = {}, NEW s \in existing \cup missing
               PROVE  Registered(s)
    BY DEF ServeInv, ReconcileServesFound, InStage
  <2>1. ~released BY DEF ReconcileInv, ReadyToken
  <2>2. s \in Taken BY <2>1 DEF Giving
  <2>3. QED BY <2>2 DEF Taken
<1>2. QED BY <1>1, ServeAlways, ReconcileInvariant, PTL

-----------------------------------------------------------------------------
(***************************************************************************)
(* The users: one that is enabled, or that a service has, is one that a    *)
(* service ends up with, or its deletion is on its way.  An identity is    *)
(* deleted for each deletion of a candidate, at most.                      *)
(***************************************************************************)
\* The deletion of a candidate in the watch, in the channel and in the manager.
DeleteEvents == {e \in WatchEvent : e.op = "Delete"}
Departing ==
    {m \in ManagerMsg : m.type \in {"DeletedServiceCandidate", "DeleteServiceIdentity"}}
DepartingSends == {x \in ManagerSend : x.to = "manager" /\ x.m \in Departing}

Unread(w) == Occurs(events[w], DeleteEvents)
Queued == Occurs(imq, Departing)
Resent == Occurs(todo, DepartingSends)

Departures == Unread("Deployment") + Unread("SDPService") + Queued + Resent

\* Every departure is of a candidate that was deleted, once.
Departs ==
    Departures' + deletes <= Departures + deletes' /\ deletes <= deletes'

\* The counts are numbers.
DepartureTerms ==
    /\ Unread("Deployment") \in Nat /\ Unread("SDPService") \in Nat
    /\ Queued \in Nat /\ Resent \in Nat /\ deletes \in Nat

\* What a typed state counts is a number.
LEMMA DeparturesTyped == TypeOK => DepartureTerms
<1> SUFFICES ASSUME TypeOK PROVE DepartureTerms
  OBVIOUS
<1>1. /\ events["Deployment"] \in Seq(WatchEvent)
      /\ events["SDPService"] \in Seq(WatchEvent)
      /\ imq \in Seq(ManagerMsg) /\ todo \in Seq(ManagerSend)
      /\ deletes \in Nat
  BY ConstantsAssumption DEF TypeOK, WatchersTypeOK, ChannelsTypeOK, ManagerTypeOK,
                             BoundsTypeOK, Watchers
<1>2. Unread("Deployment") \in Nat /\ Unread("SDPService") \in Nat
  BY <1>1, PlacesFinite DEF Unread
<1>3. Queued \in Nat /\ Resent \in Nat
  BY <1>1, PlacesFinite DEF Queued, Resent
<1>4. QED BY <1>1, <1>2, <1>3 DEF DepartureTerms

\* No count grows.
LEMMA DepartsLess ==
    ASSUME TypeOK, TypeOK', deletes' = deletes,
           \A w \in Watchers : Unread(w)' <= Unread(w),
           Queued' <= Queued, Resent' <= Resent
    PROVE  Departs
<1>1. DepartureTerms /\ DepartureTerms'
  BY DeparturesTyped, PTL
<1>2. /\ Unread("Deployment")' <= Unread("Deployment")
      /\ Unread("SDPService")' <= Unread("SDPService")
  BY DEF Watchers
<1>3. QED BY <1>1, <1>2 DEF Departs, Departures, DepartureTerms

\* A message leaves the channel of the manager, or one of another kind enters.
LEMMA QueuedLess ==
    ASSUME TypeOK,
           \/ imq' = imq
           \/ imq # <<>> /\ imq' = Tail(imq)
           \/ \E m \in ManagerMsg : imq' = Append(imq, m) /\ m \notin Departing
    PROVE  Queued' <= Queued
<1>t. imq \in Seq(ManagerMsg) /\ Queued \in Nat
  BY DeparturesTyped DEF TypeOK, ChannelsTypeOK, DepartureTerms
<1>1. CASE imq' = imq BY <1>t, <1>1 DEF Queued
<1>2. CASE imq # <<>> /\ imq' = Tail(imq)
  <2>1. Occurs(imq', Departing) = IF Head(imq) \in Departing
                                  THEN Occurs(imq, Departing) - 1
                                  ELSE Occurs(imq, Departing)
    BY <1>t, <1>2, OccursTail
  <2>2. QED BY <1>t, <2>1 DEF Queued
<1>3. ASSUME NEW m \in ManagerMsg, imq' = Append(imq, m), m \notin Departing
      PROVE  Queued' <= Queued
  <2>1. Occurs(imq', Departing) = Occurs(imq, Departing)
    BY <1>t, <1>3, OccursAppend
  <2>2. QED BY <1>t, <2>1 DEF Queued
<1>4. QED BY <1>1, <1>2, <1>3

\* The handler sends nothing that deletes an identity.
LEMMA ResentLess ==
    ASSUME TypeOK, todo' = todo \/ \A x \in DepartingSends : ~InQueue(todo', x)
    PROVE  Resent' <= Resent
<1>1. Resent \in Nat BY DeparturesTyped DEF DepartureTerms
<1>2. CASE todo' = todo BY <1>1, <1>2 DEF Resent
<1>3. CASE \A x \in DepartingSends : ~InQueue(todo', x)
  <2>1. Occurs(todo', DepartingSends) = 0 BY <1>3, OccursNone
  <2>2. QED BY <1>1, <2>1 DEF Resent
<1>4. QED BY <1>2, <1>3

\* The messages of other kinds.
LEMMA DepartingKinds ==
    /\ \A m : m.type \notin {"DeletedServiceCandidate", "DeleteServiceIdentity"}
                  => m \notin Departing
    /\ \A s \in Services : Gone(s) \in Departing
    /\ \A s \in Services, u \in Users :
          Removal(s, u) \in Departing /\ ToManager(Removal(s, u)) \in DepartingSends
    /\ \A m : ToCreator(m) \notin DepartingSends
    /\ \A m : ToManager(m) \in DepartingSends => m \in Departing
    /\ \A s : /\ FoundServiceCandidate(s) \notin Departing
              /\ Requested(s) \notin Departing
    /\ \A w \in Watchers : DeploymentWatcherReady(w) \notin Departing
    /\ IdentityCreatorReady \notin Departing /\ IdentityManagerReady \notin Departing
    /\ \A m \in FoundUserMsg \cup ActivatedMsg : m \notin Departing
    /\ \A u, on : FoundServiceUser(u, on) \notin Departing
<1>1. \A m : m.type \notin {"DeletedServiceCandidate", "DeleteServiceIdentity"}
                  => m \notin Departing
  BY DEF Departing
<1>2. \A s \in Services : Gone(s) \in Departing
  BY ServiceKinds DEF Departing
<1>3. ASSUME NEW s \in Services, NEW u \in Users
      PROVE  Removal(s, u) \in Departing /\ ToManager(Removal(s, u)) \in DepartingSends
  <2>1. Removal(s, u) \in Departing BY OwnMessages, TokenKinds DEF Departing
  <2>2. ToManager(Removal(s, u)) \in ManagerSend BY PendingSends DEF Removal
  <2>3. QED BY <2>1, <2>2, WrapKinds DEF DepartingSends
<1>4. /\ \A m : ToCreator(m) \notin DepartingSends
      /\ \A m : ToManager(m) \in DepartingSends => m \in Departing
  BY WrapKinds DEF DepartingSends
<1>5. /\ \A s : FoundServiceCandidate(s) \notin Departing
      /\ \A s : Requested(s) \notin Departing
  BY <1>1, ServiceKinds
<1>6. /\ \A w \in Watchers : DeploymentWatcherReady(w) \notin Departing
      /\ IdentityCreatorReady \notin Departing /\ IdentityManagerReady \notin Departing
  BY <1>1, WatcherMessages, Kinds
<1>7. /\ \A m \in FoundUserMsg \cup ActivatedMsg : m \notin Departing
      /\ \A u, on : FoundServiceUser(u, on) \notin Departing
  BY <1>1, OtherKinds, ReportKinds
<1>8. QED BY <1>1, <1>2, <1>3, <1>4, <1>5, <1>6, <1>7

\* What the manager sends itself, and what it may send the creator.
LEMMA DepartingSent ==
    /\ \A x \in DepartingSends :
          \E s \in Services, u \in Users : x = ToManager(Removal(s, u))
    /\ \A q : (\A s, u : ~InQueue(q, ToManager(Removal(s, u))))
                  => \A x \in DepartingSends : ~InQueue(q, x)
<1>1. ASSUME NEW x \in DepartingSends
      PROVE  \E s \in Services, u \in Users : x = ToManager(Removal(s, u))
  <2>1. /\ x \in ManagerSend /\ x.to = "manager" /\ x = ToManager(x.m)
        /\ x.m.type # "IdentityManagerReady"
    BY <1>1 DEF DepartingSends, Departing, ManagerSend, ToManager
  <2>2. x.m \in DeleteMsg BY <2>1, PendingSends, Kinds
  <2>3. PICK s \in Services, u \in Users :
            x.m = [type |-> "DeleteServiceIdentity", s |-> s, u |-> u]
    BY <2>2 DEF DeleteMsg
  <2>4. QED BY <2>1, <2>3 DEF Removal
<1>2. QED BY <1>1

\* The watch streams: an event is read, or appended.
LEMMA EventRead ==
    ASSUME TypeOK, NEW w \in Watchers, events[w] # <<>>,
           events' = [events EXCEPT ![w] = Tail(@)]
    PROVE  \A v \in Watchers :
              Unread(v)' = IF v = w /\ Head(events[w]) \in DeleteEvents
                           THEN Unread(v) - 1 ELSE Unread(v)
<1>t. events \in [Watchers -> Seq(WatchEvent)] BY DEF TypeOK, WatchersTypeOK
<1>1. /\ events[w] \in Seq(WatchEvent) /\ events'[w] = Tail(events[w])
      /\ \A v \in Watchers : v # w => events'[v] = events[v]
  BY <1>t
<1>2. Occurs(events'[w], DeleteEvents) =
         IF Head(events[w]) \in DeleteEvents
         THEN Occurs(events[w], DeleteEvents) - 1 ELSE Occurs(events[w], DeleteEvents)
  BY <1>1, OccursTail
<1>3. QED BY <1>1, <1>2 DEF Unread

\* A change of a candidate appends an event to the watch, or none.
LEMMA EventEmitted ==
    ASSUME TypeOK, NEW w \in Watchers, NEW s \in Services,
           NEW op \in {"Apply", "Delete"}, Emit(w, op, s)
    PROVE  \A v \in Watchers :
              \/ Unread(v)' = Unread(v)
              \/ v = w /\ op = "Delete" /\ Unread(v)' = Unread(v) + 1
<1>t. events \in [Watchers -> Seq(WatchEvent)] BY DEF TypeOK, WatchersTypeOK
<1> DEFINE e == [op |-> op, s |-> s]
<1>1. e \in WatchEvent /\ e.op = op BY DEF WatchEvent
<1>2. events' = events \/ events' = [events EXCEPT ![w] = Append(@, e)]
  BY DEF Emit
<1> HIDE DEF e
<1>3. CASE events' = events BY <1>3 DEF Unread
<1>4. CASE events' = [events EXCEPT ![w] = Append(@, e)]
  <2>1. /\ events[w] \in Seq(WatchEvent) /\ events'[w] = Append(events[w], e)
        /\ \A v \in Watchers : v # w => events'[v] = events[v]
    BY <1>t, <1>4
  <2>2. ASSUME NEW q \in Seq(WatchEvent), NEW x \in WatchEvent, NEW r, r = Append(q, x)
        PROVE  Occurs(r, DeleteEvents) = IF x \in DeleteEvents
                                         THEN Occurs(q, DeleteEvents) + 1
                                         ELSE Occurs(q, DeleteEvents)
    BY <2>2, OccursAppend
  <2>5. Occurs(events'[w], DeleteEvents) =
           IF e \in DeleteEvents
           THEN Occurs(events[w], DeleteEvents) + 1 ELSE Occurs(events[w], DeleteEvents)
    BY <1>1, <2>1, <2>2
  <2>3. e \in DeleteEvents => op = "Delete" BY <1>1 DEF DeleteEvents
  <2>4. QED BY <2>1, <2>3, <2>5 DEF Unread
<1>5. QED BY <1>2, <1>3, <1>4

\* A watcher turns the deletion of a candidate into a report, at most.
LEMMA WatcherDeparts ==
    ASSUME TypeOK, TypeOK', NEW w \in Watchers, WatcherNext(w)
    PROVE  Departs
<1>t. imq \in Seq(ManagerMsg) /\ events \in [Watchers -> Seq(WatchEvent)]
      /\ DepartureTerms /\ DepartureTerms'
      /\ \A v \in Watchers : Unread(v) \in Nat
  <2>1. DepartureTerms /\ DepartureTerms' BY DeparturesTyped, PTL
  <2>2. QED BY <2>1 DEF TypeOK, ChannelsTypeOK, WatchersTypeOK, DepartureTerms, Watchers
<1>o. ASSUME WatcherFrame, Queued' <= Queued,
             \A v \in Watchers : Unread(v)' <= Unread(v)
      PROVE  Departs
  <2>1. deletes' = deletes /\ Resent' <= Resent
    BY <1>o, ResentLess DEF WatcherFrame, envVars, managerVars
  <2>2. QED BY <1>o, <2>1, DepartsLess
<1>q. \A m \in ManagerMsg :
          imq' = imq \/ (imq' = Append(imq, m) /\ m \notin Departing) => Queued' <= Queued
  BY QueuedLess
<1>e. events' = events => \A v \in Watchers : Unread(v)' <= Unread(v)
  BY <1>t DEF Unread
<1>1. CASE WatcherList(w) \/ WatcherStart(w) \/ WatcherNotify(w)
  <2>1. /\ WatcherFrame /\ events' = events
        /\ imq' = imq \/ imq' = Append(imq, DeploymentWatcherReady(w))
    BY <1>1 DEF WatcherList, WatcherStart, WatcherNotify, SendToManager
  <2>2. Queued' <= Queued
    BY <1>q, <2>1, DepartingKinds, WatcherMessages DEF Harmless
  <2>3. QED BY <1>e, <1>o, <2>1, <2>2
<1>2. ASSUME NEW s \in Services, WatcherInitialized(w, s) PROVE Departs
  <2>1. /\ WatcherFrame /\ events' = events
        /\ imq' = imq \/ imq' = Append(imq, FoundServiceCandidate(s))
    BY <1>2 DEF WatcherInitialized, SendToManager
  <2>2. Queued' <= Queued
    BY <1>q, <2>1, DepartingKinds, WatcherMessages DEF Harmless
  <2>3. QED BY <1>e, <1>o, <2>1, <2>2
<1>3. CASE WatcherRelist(w)
  <2>1. WatcherFrame /\ imq' = imq /\ events' = [events EXCEPT ![w] = <<>>]
    BY <1>3 DEF WatcherRelist
  <2>2. Queued' <= Queued BY <2>1, QueuedLess
  <2>3. ASSUME NEW v \in Watchers PROVE Unread(v)' <= Unread(v)
    <3>1. events'[v] = events[v] \/ events'[v] = <<>> BY <1>t, <2>1
    <3>2. QED BY <1>t, <3>1, OccursEmpty DEF Unread
  <2>4. QED BY <1>o, <2>1, <2>2, <2>3
<1>4. ASSUME NEW s \in Services, WatcherApply(w, s) PROVE Departs
  <2>1. /\ WatcherFrame /\ events[w] # <<>>
        /\ events' = [events EXCEPT ![w] = Tail(@)]
        /\ imq' = imq \/ imq' = Append(imq, Requested(s))
    BY <1>4 DEF WatcherApply, WatcherEvent, SendToManager, Requested
  <2>2. Queued' <= Queued
    BY <1>q, <2>1, DepartingKinds, WatcherMessages DEF Harmless, Requested
  <2>3. \A v \in Watchers : Unread(v)' = Unread(v) - 1 \/ Unread(v)' = Unread(v)
    BY <2>1, EventRead
  <2>4. \A v \in Watchers : Unread(v)' <= Unread(v) BY <1>t, <2>3
  <2>5. QED BY <1>o, <2>1, <2>2, <2>4
<1>5. ASSUME NEW s \in Services, WatcherDelete(w, s) PROVE Departs
  <2>1. /\ WatcherFrame /\ events[w] # <<>>
        /\ events' = [events EXCEPT ![w] = Tail(@)]
        /\ Head(events[w]) = [op |-> "Delete", s |-> s]
        /\ imq' = imq \/ imq' = Append(imq, Gone(s))
    BY <1>5 DEF WatcherDelete, WatcherEvent, SendToManager, Gone
  <2>2. Head(events[w]) \in DeleteEvents BY <2>1 DEF DeleteEvents, WatchEvent
  <2>3. \A v \in Watchers :
            Unread(v)' = IF v = w THEN Unread(v) - 1 ELSE Unread(v)
    BY <2>1, <2>2, EventRead
  <2>4. Queued' <= Queued + 1
    <3>1. CASE imq' = imq BY <1>t, <3>1 DEF Queued, DepartureTerms
    <3>2. CASE imq' = Append(imq, Gone(s))
      <4>1. Gone(s) \in ManagerMsg BY DepartingKinds DEF Departing
      <4>2. ASSUME NEW m \in ManagerMsg, imq' = Append(imq, m)
            PROVE  Queued' <= Queued + 1
        <5> imq \in Seq(ManagerMsg) BY <1>t
        <5>1. Occurs(imq', Departing) = IF m \in Departing
                                        THEN Occurs(imq, Departing) + 1
                                        ELSE Occurs(imq, Departing)
          BY <4>2, OccursAppend
        <5>2. QED BY <1>t, <5>1 DEF Queued, DepartureTerms
      <4>3. QED BY <3>2, <4>1, <4>2
    <3>3. QED BY <2>1, <3>1, <3>2
  <2>5. deletes' = deletes /\ Resent' = Resent
    BY <2>1 DEF WatcherFrame, envVars, managerVars, Resent
  <2>6. Unread("Deployment")' + Unread("SDPService")' =
           Unread("Deployment") + Unread("SDPService") - 1
    BY <1>t, <2>3 DEF Watchers
  <2>7. /\ Unread("Deployment") \in Nat /\ Unread("SDPService") \in Nat
        /\ Queued \in Nat /\ Resent \in Nat /\ deletes \in Nat
        /\ (Unread("Deployment") \in Nat /\ Unread("SDPService") \in Nat
            /\ Queued \in Nat)'
    BY <1>t DEF DepartureTerms
  <2>8. QED BY <2>4, <2>5, <2>6, <2>7 DEF Departs, Departures
<1>6. QED BY <1>1, <1>2, <1>3, <1>4, <1>5 DEF WatcherNext

\* A candidate is deleted, and then it departs.
LEMMA EnvironmentDeparts ==
    ASSUME TypeOK, TypeOK', EnvironmentNext
    PROVE  Departs
<1>t. imq \in Seq(ManagerMsg) /\ DepartureTerms /\ DepartureTerms'
      /\ \A v \in Watchers : Unread(v) \in Nat
  <2>1. DepartureTerms /\ DepartureTerms' BY DeparturesTyped, PTL
  <2>2. QED BY <2>1 DEF TypeOK, ChannelsTypeOK, DepartureTerms, Watchers
<1>o. ASSUME events' = events, todo' = todo, deletes' = deletes, Queued' <= Queued
      PROVE  Departs
  <2>1. \A v \in Watchers : Unread(v)' <= Unread(v) BY <1>o, <1>t DEF Unread
  <2>2. QED BY <1>o, <2>1, ResentLess, DepartsLess
<1>w. \A o \in Objects : o[1] \in Watchers /\ o[2] \in Services
  BY ConstantsAssumption
<1>1. ASSUME NEW o \in Objects, ApplyObject(o[1], o[2]) PROVE Departs
  <2>1. /\ Emit(o[1], "Apply", o[2]) /\ imq' = imq /\ todo' = todo
        /\ deletes' = deletes
    BY <1>1 DEF ApplyObject, managerVars
  <2>2. \A v \in Watchers : Unread(v)' <= Unread(v)
    BY <1>t, <1>w, <2>1, EventEmitted
  <2>3. QED BY <2>1, <2>2, QueuedLess, ResentLess, DepartsLess
<1>2. ASSUME NEW o \in Objects, DeleteObject(o[1], o[2]) PROVE Departs
  <2>1. /\ Emit(o[1], "Delete", o[2]) /\ imq' = imq /\ todo' = todo
        /\ deletes' = deletes + 1
    BY <1>2 DEF DeleteObject, managerVars
  <2>2. \A v \in Watchers : \/ Unread(v)' = Unread(v)
                            \/ v = o[1] /\ Unread(v)' = Unread(v) + 1
    BY <1>w, <2>1, EventEmitted
  <2>3. Queued' = Queued /\ Resent' = Resent BY <2>1 DEF Queued, Resent
  <2>4. Unread("Deployment")' + Unread("SDPService")' <=
           Unread("Deployment") + Unread("SDPService") + 1
    BY <1>t, <2>2 DEF Watchers
  <2>5. QED BY <1>t, <2>1, <2>3, <2>4 DEF Departs, Departures, DepartureTerms
<1>3. ASSUME NEW s \in Services, FlipLabel(s) PROVE Departs
  BY <1>3, <1>o, QueuedLess DEF FlipLabel, managerVars
<1>4. ASSUME NEW s \in Services, PodWatcherRelease(s) PROVE Departs
  <2> DEFINE m == [type |-> "ReleaseDeviceId", s |-> s]
  <2>1. m \in ManagerMsg /\ m \notin Departing
    BY WatcherMessages, DepartingKinds DEF Harmless
  <2>2. imq' = Append(imq, m) BY <1>4 DEF PodWatcherRelease, SendToManager
  <2> HIDE DEF m
  <2>3. QED BY <1>4, <1>o, <2>1, <2>2, QueuedLess
            DEF PodWatcherRelease, managerVars, clusterVars
<1>5. CASE Crash \/ CreatorFillPanics
  <2>1. /\ events' = [w \in Watchers |-> <<>>] /\ imq' = <<>> /\ todo' = <<>>
        /\ deletes' = deletes
    BY <1>5 DEF Crash, CreatorFillPanics, Restart
  <2>2. \A v \in Watchers : Unread(v)' <= Unread(v)
    BY <1>t, <2>1, OccursEmpty DEF Unread
  <2>3. Queued' <= Queued /\ Resent' <= Resent
    BY <1>t, <2>1, OccursEmpty DEF Queued, Resent, DepartureTerms
  <2>4. QED BY <2>1, <2>2, <2>3, DepartsLess
<1>6. QED BY <1>1, <1>2, <1>3, <1>4, <1>5 DEF EnvironmentNext

\* What the creator tells the manager.
LEMMA CreatorReports ==
    ASSUME TypeOK, CreatorNext
    PROVE  \/ imq' = imq
           \/ \E m \in ManagerMsg :
                 /\ imq' = Append(imq, m)
                 /\ m.type \in {"FoundServiceUser", "ActivatedServiceUser",
                                "IdentityCreatorReady"}
<1> DEFINE Tells == \/ imq' = imq
                    \/ \E m \in ManagerMsg :
                          /\ imq' = Append(imq, m)
                          /\ m.type \in {"FoundServiceUser", "ActivatedServiceUser",
                                         "IdentityCreatorReady"}
<1>k. /\ \A u, on : FoundServiceUser(u, on).type = "FoundServiceUser"
      /\ \A u \in Users, on \in BOOLEAN : FoundServiceUser(u, on) \in ManagerMsg
      /\ IdentityCreatorReady \in ManagerMsg
      /\ IdentityCreatorReady.type = "IdentityCreatorReady"
  BY ReportKinds, ManagerMessages, Kinds
<1>1. ASSUME NEW u \in Users, CreatorScan(u) PROVE Tells
  <2>1. imq' = imq \/ \E on \in BOOLEAN : imq' = Append(imq, FoundServiceUser(u, on))
    BY <1>1 DEF CreatorScan, SendToManager
  <2>2. QED BY <1>k, <2>1
<1>2. CASE CreatorNotify
  <2>1. Head(ictodo) \in CreatorStep /\ Head(ictodo).op = "notify"
        /\ imq' = Append(imq, Head(ictodo).m)
    BY <1>2 DEF CreatorNotify, SendToManager, TypeOK, CreatorTypeOK
  <2>2. Head(ictodo).m \in FoundUserMsg \cup ActivatedMsg
        /\ Head(ictodo).m \in ManagerMsg
    BY <2>1, PendingSteps
  <2>3. Head(ictodo).m.type \in {"FoundServiceUser", "ActivatedServiceUser"}
    BY <2>2, OtherKinds
  <2>4. QED BY <2>1, <2>2, <2>3
<1>3. CASE CreatorReady BY <1>k, <1>3 DEF CreatorReady, SendToManager
<1>4. CASE \/ CreatorStart \/ CreatorClean \/ CreatorFill \/ CreatorSecrets
           \/ CreateIdentity \/ CreatorDevices
           \/ \E u \in Users : DeleteSDPUser(u)
           \/ \E s \in Services, u \in Users :
                 DeleteServiceUser(s, u) \/ ActivateServiceUser(s, u)
  BY <1>4 DEF CreatorStart, DeleteSDPUser, CreatorClean, CreatorFill,
              CreatorSecrets, CreateIdentity, DeleteServiceUser,
              ActivateServiceUser, CreatorDevices
<1>5. QED BY <1>1, <1>2, <1>3, <1>4 DEF CreatorNext

\* Nobody but the cluster makes a candidate depart.
LEMMA CreatorDeparts ==
    ASSUME TypeOK, TypeOK', CreatorNext
    PROVE  Departs
<1>1. UNCHANGED <<events, todo, deletes>>
  BY DEF CreatorNext, CreatorStart, CreatorScan, DeleteSDPUser, CreatorClean,
     CreatorFill, CreatorReady, CreatorNotify, CreatorSecrets, CreateIdentity,
     DeleteServiceUser, ActivateServiceUser, CreatorDevices, CreatorFrame, envVars,
     clusterVars, managerVars
<1>2. Queued' <= Queued
  <2>1. \A m : m.type \in {"FoundServiceUser", "ActivatedServiceUser",
                           "IdentityCreatorReady"} => m \notin Departing
    BY DepartingKinds
  <2>2. QED BY <2>1, CreatorReports, QueuedLess
<1>3. \A w \in Watchers : Unread(w)' <= Unread(w)
  <2>1. DepartureTerms BY DeparturesTyped
  <2>2. QED BY <1>1, <2>1 DEF Unread, DepartureTerms, Watchers
<1>4. QED BY <1>1, <1>2, <1>3, ResentLess, DepartsLess

\* The manager: what it consumes it may send on, once.
LEMMA SendDeparts ==
    ASSUME TypeOK, TypeOK', ManagerSendNext
    PROVE  Departs
<1> DEFINE x == Head(todo)
<1>t. /\ todo \in Seq(ManagerSend) /\ imq \in Seq(ManagerMsg)
  BY DEF TypeOK, ManagerTypeOK, ChannelsTypeOK
<1>1. /\ todo # <<>> /\ todo' = Tail(todo) /\ events' = events /\ deletes' = deletes
      /\ \/ x.to = "creator" /\ imq' = imq
         \/ x.to = "manager" /\ imq' = Append(imq, x.m)
  BY DEF ManagerSendNext, SendToManager, ManagerFrame, clusterVars, envVars
<1>2. x \in ManagerSend BY <1>t, <1>1
<1>3. Occurs(todo', DepartingSends) = IF x \in DepartingSends
                                      THEN Occurs(todo, DepartingSends) - 1
                                      ELSE Occurs(todo, DepartingSends)
  BY <1>t, <1>1, OccursTail
<1> HIDE DEF x
<1>4. (Unread("Deployment")' = Unread("Deployment"))
      /\ (Unread("SDPService")' = Unread("SDPService"))
  BY <1>1 DEF Unread
<1>5. Queued' = IF x \in DepartingSends THEN Queued + 1 ELSE Queued
  <2>1. CASE x.to = "creator" /\ imq' = imq
    BY <2>1 DEF Queued, DepartingSends
  <2>2. CASE x.to = "manager" /\ imq' = Append(imq, x.m)
    <3>1. x.m \in ManagerMsg /\ (x \in DepartingSends <=> x.m \in Departing)
      BY <1>2, <2>2, PendingSends DEF DepartingSends
    <3>2. ASSUME NEW m \in ManagerMsg, imq' = Append(imq, m)
          PROVE  Occurs(imq', Departing) = IF m \in Departing
                                           THEN Occurs(imq, Departing) + 1
                                           ELSE Occurs(imq, Departing)
      BY <1>t, <3>2, OccursAppend
    <3>3. QED BY <2>2, <3>1, <3>2 DEF Queued
  <2>3. QED BY <1>1, <2>1, <2>2
<1>6. DepartureTerms BY DeparturesTyped
<1>7. QED
  BY <1>1, <1>3, <1>4, <1>5, <1>6 DEF Departs, Departures, DepartureTerms, Resent

\* A handler that sends the manager nothing.
LEMMA HandlerDeparts ==
    ASSUME TypeOK, TypeOK', ManagerFrame,
           imq' = imq \/ (imq # <<>> /\ imq' = Tail(imq)),
           todo' = todo \/ \A s, u : ~InQueue(todo', ToManager(Removal(s, u)))
    PROVE  Departs
<1>1. events' = events /\ deletes' = deletes
  BY DEF ManagerFrame, clusterVars, envVars
<1>2. \A w \in Watchers : Unread(w)' <= Unread(w)
  <2>1. DepartureTerms BY DeparturesTyped
  <2>2. QED BY <1>1, <2>1 DEF Unread, DepartureTerms, Watchers
<1>3. Queued' <= Queued BY QueuedLess
<1>4. Resent' <= Resent BY DepartingSent, ResentLess
<1>5. QED BY <1>1, <1>2, <1>3, <1>4, DepartsLess

\* The deletion of a candidate becomes that of its identity.
LEMMA GoneDeparts ==
    ASSUME TypeOK, TypeOK', NEW s \in Services, deleted_service_candidate(s)
    PROVE  Departs
<1>t. /\ imq \in Seq(ManagerMsg) /\ services \in [Services -> MaybeUser]
  BY DEF TypeOK, ManagerTypeOK, ChannelsTypeOK
<1>1. /\ imq # <<>> /\ Head(imq) = Gone(s) /\ imq' = Tail(imq)
      /\ todo = <<>> /\ todo' = DeletionOf(s) /\ events' = events /\ deletes' = deletes
  BY DEF deleted_service_candidate, Receive, Idle, Gone, ManagerFrame, clusterVars,
         envVars
<1>2. Occurs(imq', Departing) = Occurs(imq, Departing) - 1
  <2>1. Head(imq) \in Departing BY <1>1, DepartingKinds
  <2>2. Occurs(imq', Departing) = IF Head(imq) \in Departing
                                  THEN Occurs(imq, Departing) - 1
                                  ELSE Occurs(imq, Departing)
    BY <1>t, <1>1, OccursTail
  <2>3. QED BY <2>1, <2>2
<1>3. Resent = 0 BY <1>1, OccursEmpty DEF Resent
<1>4. Resent' <= 1
  <2>1. CASE todo' = <<>> BY <2>1, OccursEmpty DEF Resent
  <2>2. ASSUME NEW x \in ManagerSend, todo' = <<x>> PROVE Resent' <= 1
    <3>1. <<>> \in Seq(ManagerSend) /\ todo' = Append(<<>>, x) BY <2>2
    <3>2. Occurs(todo', DepartingSends) = IF x \in DepartingSends
                                          THEN Occurs(<<>>, DepartingSends) + 1
                                          ELSE Occurs(<<>>, DepartingSends)
      BY <3>1, OccursAppend
    <3>3. QED BY <3>2, OccursEmpty DEF Resent
  <2>3. todo' = <<>> \/ \E x \in ManagerSend : todo' = <<x>>
    BY <1>t, <1>1, PendingSends DEF DeletionOf, Registered, MaybeUser
  <2>4. QED BY <2>1, <2>2, <2>3
<1>5. DepartureTerms /\ DepartureTerms' BY DeparturesTyped, PTL
<1>6. (Unread("Deployment")' = Unread("Deployment"))
      /\ (Unread("SDPService")' = Unread("SDPService"))
  BY <1>1 DEF Unread
<1>7. Queued' = Queued - 1 BY <1>2 DEF Queued
<1>8. QED
  BY <1>1, <1>3, <1>4, <1>5, <1>6, <1>7 DEF Departs, Departures, DepartureTerms

\* The other steps of the manager.
LEMMA ManagerDeparts ==
    ASSUME TypeOK, TypeOK', ManagerNext
    PROVE  Departs
<1> DEFINE NoneSent == todo' = todo \/ \A s, u : ~InQueue(todo', ToManager(Removal(s, u)))
           Less == imq' = imq \/ (imq # <<>> /\ imq' = Tail(imq))
<1>h. ManagerFrame /\ Less /\ NoneSent => Departs BY HandlerDeparts
<1>s. /\ todo' = todo \/ todo' = <<>> \/ todo' = SelfReady => NoneSent
      /\ \A m : todo' = <<ToCreator(m)>> => NoneSent
  <2>1. \A s, u : ToManager(IdentityManagerReady) # ToManager(Removal(s, u))
    BY WrapKinds, TokenKinds, Kinds
  <2>2. todo' = todo \/ todo' = <<>> \/ todo' = SelfReady => NoneSent
    BY <2>1, OneSend DEF SelfReady
  <2>3. \A m : todo' = <<ToCreator(m)>> => NoneSent
    BY OneSend, WrapKinds
  <2>4. QED BY <2>2, <2>3
<1>1. CASE ManagerSendNext BY <1>1, SendDeparts
<1>2. ASSUME NEW s \in Services, deleted_service_candidate(s) PROVE Departs
  BY <1>2, GoneDeparts
<1>3. CASE \/ ManagerInitialize
           \/ \E s \in Services : found_service_candidate(s)
           \/ \E u \in Users, on \in BOOLEAN : found_service_user(u, on)
           \/ \E s \in Services, u \in Users : activated_service_user(s, u)
           \/ ReconcileStart \/ ReconcileExtraDone \/ ReconcileUsersDone
           \/ ReconcileStaleDone \/ ReconcileDone
           \/ \E u \in Users : ReconcileUser(u)
  <2>1. ManagerFrame /\ Less /\ todo' = todo
    BY <1>3 DEF ManagerInitialize, found_service_candidate, found_service_user,
                activated_service_user, ReconcileStart, ReconcileExtraDone,
                ReconcileUsersDone, ReconcileStaleDone, ReconcileDone, ReconcileUser,
                Receive
  <2>2. QED BY <1>h, <2>1
<1>4. CASE identity_creator_ready \/ \E w \in Watchers : deployment_watcher_ready(w)
  <2>1. ManagerFrame /\ Less /\ (todo' = <<>> \/ todo' = SelfReady)
    BY <1>4 DEF identity_creator_ready, deployment_watcher_ready, ReadyIf, Receive
  <2>2. NoneSent BY <1>s, <2>1
  <2>3. QED BY <1>h, <2>1, <2>2
<1>5. ASSUME NEW s \in Services, request_service_identity(s) \/ ReconcileMissing(s)
      PROVE  Departs
  <2>1. ManagerFrame /\ Less /\ RequestIdentity(s)
    BY <1>5 DEF request_service_identity, ReconcileMissing, Receive
  <2>2. NoneSent BY <2>1, RequestCases, RequestSends
  <2>3. QED BY <1>h, <2>1, <2>2
<1>6. ASSUME NEW s \in Services, NEW u, DeleteIdentity(s, u), ManagerFrame, Less
      PROVE  Departs
  <2>1. todo' = todo \/ \E m : todo' = <<ToCreator(m)>>
    BY <1>6 DEF DeleteIdentity
  <2>2. NoneSent BY <1>s, <2>1
  <2>3. QED BY <1>h, <1>6, <2>2
<1>7. ASSUME NEW s \in Services,
             ReconcileDelete(s) \/ \E u \in Users : delete_service_identity(s, u)
      PROVE  Departs
  BY <1>6, <1>7 DEF ReconcileDelete, delete_service_identity, Receive
<1>8. ASSUME NEW s \in Services, release_device_id(s) PROVE Departs
  <2>1. ManagerFrame /\ Less
        /\ (todo' = todo \/ \E m : todo' = <<ToCreator(m)>>)
    BY <1>8 DEF release_device_id, Receive
  <2>2. NoneSent BY <1>s, <2>1
  <2>3. QED BY <1>h, <2>1, <2>2
<1>9. QED
  BY <1>1, <1>2, <1>3, <1>4, <1>5, <1>7, <1>8 DEF ManagerNext

\* Every step.
LEMMA DepartStep == ASSUME TypeOK, TypeOK', [Next]_vars PROVE Departs
<1>1. CASE UNCHANGED vars
  <2>1. UNCHANGED <<events, imq, todo, deletes>>
    BY <1>1 DEF vars, clusterVars, managerVars, envVars
  <2>2. DepartureTerms BY DeparturesTyped
  <2>3. \A w \in Watchers : Unread(w)' <= Unread(w)
    BY <2>1, <2>2 DEF Unread, DepartureTerms, Watchers
  <2>4. QED BY <2>1, <2>3, QueuedLess, ResentLess, DepartsLess
<1>2. QED
  BY <1>1, WatcherDeparts, ManagerDeparts, CreatorDeparts, EnvironmentDeparts DEF Next

\* An identity that is deleted has departed.
LEMMA DeletionDeparts ==
    ASSUME TypeOK, TypeOK', NEW s \in Services, NEW u \in Users,
           delete_service_identity(s, u)
    PROVE  Departures' < Departures /\ deletes' = deletes
<1>t. imq \in Seq(ManagerMsg) BY DEF TypeOK, ChannelsTypeOK
<1>1. /\ imq # <<>> /\ Head(imq) = Removal(s, u) /\ imq' = Tail(imq)
      /\ todo = <<>> /\ events' = events /\ deletes' = deletes
      /\ todo' = todo \/ \E m : todo' = <<ToCreator(m)>>
  BY DEF delete_service_identity, Receive, Idle, Removal, ManagerFrame, clusterVars,
         envVars, DeleteIdentity
<1>2. Occurs(imq', Departing) = Occurs(imq, Departing) - 1
  <2>1. Head(imq) \in Departing BY <1>1, DepartingKinds
  <2>2. Occurs(imq', Departing) = IF Head(imq) \in Departing
                                  THEN Occurs(imq, Departing) - 1
                                  ELSE Occurs(imq, Departing)
    BY <1>t, <1>1, OccursTail
  <2>3. QED BY <2>1, <2>2
<1>3. Queued' = Queued - 1 BY <1>2 DEF Queued
<1>4. Resent' <= Resent
  <2>1. todo' = todo \/ \A v, w : ~InQueue(todo', ToManager(Removal(v, w)))
    BY <1>1, OneSend, WrapKinds
  <2>2. QED BY <2>1, DepartingSent, ResentLess
<1>5. (Unread("Deployment")' = Unread("Deployment"))
      /\ (Unread("SDPService")' = Unread("SDPService"))
  BY <1>1 DEF Unread
<1>6. DepartureTerms /\ DepartureTerms' BY DeparturesTyped, PTL
<1>7. QED BY <1>1, <1>3, <1>4, <1>5, <1>6 DEF Departures, DepartureTerms

-----------------------------------------------------------------------------
(***************************************************************************)
(* A service is followed to one user, loses it by a deletion only, and a   *)
(* deletion that is on its way arrives.                                    *)
(***************************************************************************)
\* The last one is one.
LEMMA LastUnique ==
    ASSUME NEW S, NEW q \in Seq(S), NEW K, NEW m \in K, NEW n \in K,
           LastIn(q, K, m), LastIn(q, K, n)
    PROVE  m = n
<1>1. PICK i \in 1..Len(q) : q[i] = m /\ \A j \in 1..Len(q) : j > i => q[j] \notin K
  BY DEF LastIn
<1>2. PICK k \in 1..Len(q) : q[k] = n /\ \A j \in 1..Len(q) : j > k => q[j] \notin K
  BY DEF LastIn
<1>3. ~(k > i) /\ ~(i > k) BY <1>1, <1>2
<1>4. i = k BY <1>3
<1>5. QED BY <1>1, <1>2, <1>4

\* Everything leads to one user.
LEMMA FollowUnique ==
    ASSUME TypeOK, NEW s \in Services, NEW c \in Users, NEW d \in Users,
           Following(s, c), Following(s, d)
    PROVE  c = d
<1>t. /\ todo \in Seq(ManagerSend) /\ icq \in Seq(CreatorMsg)
  BY DEF TypeOK, ManagerTypeOK, ChannelsTypeOK
<1> DEFINE A(u) == LastIn(todo, Sends(s), ToCreator(Activate(s, u)))
           B(u) == LastIn(icq, ServiceMsgs(s), Activate(s, u))
           X == NoneIn(todo, Sends(s))
           Y == NoneIn(icq, ServiceMsgs(s))
           F(u) == ictodo = ActivationSteps(s, u)
           W(u) == ictodo = <<Secrets(s, u)>>
           Z(u) == svcSecret[s] = u /\ NoneIn(ictodo, ServiceSteps(s))
<1>1. ASSUME NEW u \in Users, Following(s, u)
      PROVE  A(u) \/ (B(u) /\ X) \/ (X /\ Y /\ (F(u) \/ W(u) \/ Z(u)))
  BY <1>1 DEF Following, Waiting, Handled, Written
<1>2. ASSUME NEW u \in Users PROVE (A(u) => ~X) /\ (B(u) => ~Y)
  BY LastFacts, OwnMessages
<1>3. A(c) /\ A(d) => c = d
  <2>1. ToCreator(Activate(s, c)) \in Sends(s) /\ ToCreator(Activate(s, d)) \in Sends(s)
    BY OwnMessages
  <2>2. A(c) /\ A(d) => ToCreator(Activate(s, c)) = ToCreator(Activate(s, d))
    BY <1>t, <2>1, LastUnique
  <2>3. QED BY <2>2, WrapKinds, TokenKinds
<1>4. B(c) /\ B(d) => c = d
  <2>1. Activate(s, c) \in ServiceMsgs(s) /\ Activate(s, d) \in ServiceMsgs(s)
    BY OwnMessages
  <2>2. B(c) /\ B(d) => Activate(s, c) = Activate(s, d)
    BY <1>t, <2>1, LastUnique
  <2>3. QED BY <2>2, TokenKinds
<1>5. ASSUME NEW u \in Users, NEW v \in Users
      PROVE  /\ F(u) /\ F(v) => u = v
             /\ W(u) /\ W(v) => u = v
             /\ Z(u) /\ Z(v) => u = v
             /\ ~(F(u) /\ W(v)) /\ ~(F(u) /\ Z(v)) /\ ~(W(u) /\ Z(v))
  <2>1. F(u) /\ F(v) => u = v
    <3>1. F(u) /\ F(v) => Notify(Activation(s, u)) = Notify(Activation(s, v))
      BY ActivationShape
    <3>2. QED BY <3>1, WrapKinds, TokenKinds
  <2>2. W(u) /\ W(v) => u = v
    <3>1. W(u) /\ W(v) => Secrets(s, u) = Secrets(s, v) BY OneSend
    <3>2. QED BY <3>1, OwnMessages
  <2>3. Z(u) /\ Z(v) => u = v OBVIOUS
  <2>4. F(u) => /\ Len(ictodo) = 2 /\ ictodo[1] = Notify(Activation(s, u))
    BY DEF ActivationSteps, Notify, Activation
  <2>5. W(v) => Len(ictodo) = 1 /\ ictodo[1] = Secrets(s, v) OBVIOUS
  <2>6. ~(F(u) /\ W(v)) BY <2>4, <2>5
  <2>7. ~(F(u) /\ Z(v))
    <3>1. Notify(Activation(s, u)) \in ServiceSteps(s) BY OwnMessages
    <3>2. QED BY <2>4, <3>1 DEF NoneIn
  <2>8. ~(W(u) /\ Z(v))
    <3>1. Secrets(s, u) \in ServiceSteps(s) BY OwnMessages
    <3>2. W(u) => Len(ictodo) = 1 /\ ictodo[1] = Secrets(s, u) OBVIOUS
    <3>3. QED BY <3>1, <3>2 DEF NoneIn
  <2>9. QED BY <2>1, <2>2, <2>3, <2>6, <2>7, <2>8
<1> HIDE DEF A, B, X, Y, F, W, Z
<1>6. QED BY <1>1, <1>2, <1>3, <1>4, <1>5

\* The map of the manager and the objects; before the requests there are none.
MapsAgree == \A s \in Services : services[s] = crd[s]

\* The manager begins before it releases the watchers.
Begun == released => imphase = "run"

\* Before the manager has restored its map no object exists to restore.
LEMMA MapsEqual ==
    TypeOK /\ UserInv /\ Removals /\ Untaken /\ Begun => MapsAgree
<1> SUFFICES ASSUME TypeOK, UserInv, Removals, Untaken, Begun,
                    NEW s \in Services
             PROVE  services[s] = crd[s]
  BY DEF MapsAgree
<1>1. CASE imphase = "run" BY <1>1 DEF Removals, MemoryIsObject
<1>2. CASE imphase # "run"
  <2>1. ~Requesting
    BY <1>2 DEF Requesting, Begun, TypeOK, ManagerTypeOK, BatchTypeOK
  <2>2. QED BY <1>2, <2>1 DEF UserInv, Unrequested, Untaken
<1>3. QED BY <1>1, <1>2

\* In the first process the manager does not begin again.
LEMMA BegunStep ==
    ASSUME TypeOK, Begun, [Next]_vars, failures = 0, failures' = 0,
           crashes = 0, crashes' = 0
    PROVE  Begun'
<1>1. ASSUME NEW w \in Watchers, WatcherNext(w) PROVE Begun'
  <2>1. WatcherFrame
    BY <1>1 DEF WatcherNext, WatcherList, WatcherNotify, WatcherStart, WatcherRelist,
                WatcherInitialized, WatcherApply, WatcherDelete, WatcherEvent
  <2>2. QED BY <2>1 DEF Begun, WatcherFrame, managerVars
<1>2. CASE ManagerNext
  <2>1. \/ released' = released /\ (imphase' = imphase \/ imphase' = "run")
        \/ imphase = "run" /\ imphase' = imphase
    BY <1>2 DEF ManagerNext, ManagerInitialize, ManagerSendNext,
       found_service_candidate, request_service_identity, deleted_service_candidate,
       release_device_id, ReconcileDelete, ReconcileMissing, found_service_user,
       delete_service_identity, activated_service_user, identity_creator_ready,
       deployment_watcher_ready, ReconcileStart, ReconcileExtraDone, ReconcileUser,
       ReconcileUsersDone, ReconcileStaleDone, ReconcileDone, InStage
  <2>2. QED BY <2>1 DEF Begun
<1>3. CASE CreatorNext
  <2>1. CreatorFrame
    BY <1>3 DEF CreatorNext, CreatorStart, CreatorScan, DeleteSDPUser, CreatorClean,
       CreatorFill, CreatorReady, CreatorNotify, CreatorSecrets, CreateIdentity,
       DeleteServiceUser, ActivateServiceUser, CreatorDevices
  <2>2. QED BY <2>1 DEF Begun, CreatorFrame, managerVars
<1>4. CASE EnvironmentNext
  <2>1. ~Crash BY CrashesGrow
  <2>2. ~CreatorFillPanics BY DEF CreatorFillPanics, CreateUserFails, CallFails
  <2>3. QED
    BY <1>4, <2>1, <2>2 DEF EnvironmentNext, ApplyObject, DeleteObject, FlipLabel,
       PodWatcherRelease, watcherVars, managerVars, Begun
<1>5. CASE UNCHANGED vars BY <1>5 DEF vars, managerVars, Begun
<1>6. QED BY <1>1, <1>2, <1>3, <1>4, <1>5 DEF Next

\* In the first process only the deletion of its candidate takes an identity away.
LEMMA LosesIdentity ==
    ASSUME ReconcileInv, UserInv, MapsAgree, Untaken, [Next]_vars,
           failures = 0, failures' = 0, crashes = 0, crashes' = 0,
           NEW s \in Services, crd[s] # NoUser, crd'[s] = NoUser
    PROVE  \E u \in Users : delete_service_identity(s, u)
<1>t. /\ TypeOK /\ crd \in [Services -> MaybeUser] /\ pool \in Seq(Users)
  BY DEF ReconcileInv, TypeOK, StoresTypeOK, ManagerTypeOK
<1>q. ~Quiet BY DEF Quiet, MapsAgree
<1>1. ~ \E w \in Watchers : WatcherNext(w) BY <1>t, <1>q, OutsideQuiet
<1>2. ~UNCHANGED vars BY <1>t, <1>q, OutsideQuiet
<1>3. ~EnvironmentNext
  <2>1. ~Crash BY <1>t, CrashesGrow
  <2>2. ~CreatorFillPanics BY DEF CreatorFillPanics, CreateUserFails, CallFails
  <2>3. QED BY <1>t, <1>q, <2>1, <2>2, OutsideQuiet
<1>4. ~CreatorNext
  BY DEF CreatorNext, CreatorStart, CreatorScan, DeleteSDPUser, CreatorClean,
         CreatorFill, CreatorReady, CreatorNotify, CreatorSecrets, CreateIdentity,
         DeleteServiceUser, ActivateServiceUser, CreatorDevices, CreatorFrame
<1>5. ManagerNext BY <1>1, <1>2, <1>3, <1>4 DEF Next
<1>6. ~ManagerSendNext BY DEF ManagerSendNext
<1>7. ~ \E u \in Users, on \in BOOLEAN : found_service_user(u, on)
  BY DEF found_service_user
<1>8. ASSUME NEW t \in Services, NEW u \in Users, activated_service_user(t, u)
      PROVE  FALSE
  <2>1. crd' = crd \/ crd' = [crd EXCEPT ![t] = u]
    BY <1>8 DEF activated_service_user, UpdateIdentity
  <2>2. QED BY <1>t, <2>1, ConstantsAssumption
<1>9. ASSUME NEW t \in Services, request_service_identity(t) \/ ReconcileMissing(t)
      PROVE  FALSE
  <2>1. RequestIdentity(t) BY <1>9 DEF request_service_identity, ReconcileMissing
  <2>2. crd' = crd \/ (pool # <<>> /\ crd' = [crd EXCEPT ![t] = Head(pool)])
    BY <2>1, RequestCases
  <2>3. pool # <<>> => Head(pool) \in Users BY <1>t
  <2>4. QED BY <1>t, <2>2, <2>3, ConstantsAssumption
<1>10. ASSUME NEW t \in Services, ReconcileDelete(t) PROVE FALSE
  <2>1. stage \in {"extra", "stale"} BY <1>10 DEF ReconcileDelete, InStage
  <2>2. ~Requesting BY <2>1 DEF ReconcileInv, ReadyToken, Requesting
  <2>3. QED BY <2>2 DEF Untaken
<1>11. PICK t \in Services, u \in Users : delete_service_identity(t, u)
  BY <1>q, <1>5, <1>6, <1>7, <1>8, <1>9, <1>10, ManagerQuiet DEF ManagerNext
<1>12. t = s
  <2>1. crd' = crd \/ crd' = [crd EXCEPT ![t] = NoUser]
    BY <1>11 DEF delete_service_identity, DeleteIdentity
  <2>2. QED BY <1>t, <2>1
<1>13. QED BY <1>11, <1>12

\* A user whose deletion is on its way is deleted, or its deletion stays on its way.
LEMMA DeletingKept ==
    ASSUME ReconcileInv, UserInv, [Next]_vars,
           failures = 0, failures' = 0, crashes = 0, crashes' = 0,
           NEW t \in Services, NEW u \in Users, Deleting(t, u)
    PROVE  Deleting(t, u)' \/ ~Exists(u)'
<1> DEFINE d == Deletion(t, u)
<1>t. /\ TypeOK /\ icq \in Seq(CreatorMsg) /\ todo \in Seq(ManagerSend)
      /\ sdp \in [Users -> {"fresh", "disabled", "enabled", "deleted"}]
  BY DEF ReconcileInv, TypeOK, ChannelsTypeOK, ManagerTypeOK, StoresTypeOK
<1>d. d \in CreatorMsg /\ d.type \notin Plain BY OwnMessages, TokenKinds DEF Plain
<1>e. InQueue(todo, ToCreator(d)) => todo # <<>> BY OneSend
<1>h. (InQueue(todo, ToCreator(d)) \/ InQueue(icq, d))
      /\ ((InQueue(todo', ToCreator(d)) \/ InQueue(icq', d)) => Deleting(t, u)')
  BY DEF Deleting
<1> HIDE DEF d
<1>1. CASE Quiet
  <2>1. InQueue(todo, ToCreator(d)) => InQueue(todo', ToCreator(d))
    BY <1>1, <1>e DEF Quiet, TodoQuiet
  <2>2. InQueue(icq, d) => InQueue(icq', d)
    <3>1. CASE icq' = icq BY <3>1
    <3>2. CASE icq # <<>> /\ icq' = Tail(icq) /\ Head(icq).type \in Plain
      BY <1>d, <1>t, <3>2, CreatorTail
    <3>3. CASE \E m \in CreatorMsg : icq' = Append(icq, m) /\ m.type \in Plain
      BY <1>t, <3>3, CreatorAppend
    <3>4. QED BY <1>1, <3>1, <3>2, <3>3 DEF Quiet, IcqQuiet
  <2>3. QED BY <1>h, <2>1, <2>2
<1>2. CASE ManagerSendNext
  <2> DEFINE x == Head(todo)
  <2>1. /\ todo # <<>> /\ todo' = Tail(todo)
        /\ \/ x.to = "creator" /\ icq' = Append(icq, x.m)
           \/ x.to = "manager" /\ icq' = icq
    BY <1>2 DEF ManagerSendNext, SendToCreator
  <2>2. /\ x \in ManagerSend
        /\ \A y : InQueue(todo, y) <=> x = y \/ InQueue(todo', y)
    <3>1. x \in ManagerSend BY <1>t, <2>1
    <3>2. \A y : InQueue(todo, y) <=> x = y \/ InQueue(todo', y)
      BY <1>t, <2>1, TailFacts
    <3>3. QED BY <3>1, <3>2
  <2> HIDE DEF x
  <2>3. InQueue(icq, d) => InQueue(icq', d)
    BY <1>t, <2>1, <2>2, PendingSends, CreatorAppend
  <2>4. x = ToCreator(d) => InQueue(icq', d)
    BY <1>d, <1>t, <2>1, WrapKinds, CreatorAppend
  <2>5. QED BY <1>h, <2>2, <2>3, <2>4
<1>3. CASE \/ \E s \in Services : \/ request_service_identity(s)
                                  \/ ReconcileDelete(s) \/ ReconcileMissing(s)
           \/ \E v \in Users, on \in BOOLEAN : found_service_user(v, on)
           \/ \E s \in Services, v \in Users :
                 delete_service_identity(s, v) \/ activated_service_user(s, v)
  <2>1. todo = <<>> /\ icq' = icq
    BY <1>3 DEF request_service_identity, ReconcileDelete, ReconcileMissing,
                found_service_user, delete_service_identity, activated_service_user,
                Receive, Idle, InStage
  <2>2. QED BY <1>e, <1>h, <2>1
<1>4. CASE ManagerNext
  BY <1>1, <1>2, <1>3, <1>4, ManagerQuiet DEF ManagerNext
<1>5. CASE CreatorNext
  <2>1. todo' = todo
    BY <1>5 DEF CreatorNext, CreatorStart, CreatorScan, DeleteSDPUser, CreatorClean,
         CreatorFill, CreatorReady, CreatorNotify, CreatorSecrets, CreateIdentity,
         DeleteServiceUser, ActivateServiceUser, CreatorDevices, CreatorFrame,
         managerVars
  <2>2. ~CreatorStart
    <3>1. Doomed(u) BY DEF Deleting, Doomed
    <3>2. QED BY <3>1, NotReady DEF CreatorStart
  <2>3. ASSUME NEW m, CreatorReceive(m), m # d, InQueue(icq, d) PROVE InQueue(icq', d)
    BY <1>t, <2>3, CreatorTail DEF CreatorReceive
  <2>4. ASSUME NEW s \in Services, NEW v \in Users, DeleteServiceUser(s, v),
               Deletion(s, v) = d
        PROVE  ~Exists(u)'
    <3>1. v = u BY <2>4, TokenKinds DEF d
    <3>2. RemoveFromController(u)
      BY <2>4, <3>1 DEF DeleteServiceUser, CallFails, UserDeleted
    <3>3. QED BY <1>t, <3>2 DEF RemoveFromController, Exists
  <2>5. ASSUME NEW s \in Services, NEW v \in Users, DeleteServiceUser(s, v),
               Deletion(s, v) # d, InQueue(icq, d)
        PROVE  InQueue(icq', d)
    <3>1. CreatorReceive(Deletion(s, v)) BY <2>5 DEF DeleteServiceUser, Deletion
    <3>2. QED BY <2>3, <2>5, <3>1
  <2>6. ASSUME NEW s \in Services, NEW v \in Users, ActivateServiceUser(s, v),
               InQueue(icq, d)
        PROVE  InQueue(icq', d)
    <3>1. CreatorReceive(Activate(s, v)) BY <2>6 DEF ActivateServiceUser, Activate
    <3>2. Activate(s, v) # d BY TokenKinds DEF d
    <3>3. QED BY <2>3, <2>6, <3>1, <3>2
  <2>7. ASSUME CreateIdentity \/ CreatorDevices, InQueue(icq, d)
        PROVE  InQueue(icq', d)
    <3>1. \A m : CreatorReceive(m) /\ m.type \in Plain => InQueue(icq', d)
      BY <1>d, <2>3, <2>7
    <3>2. CASE CreateIdentity
      BY <3>1, <3>2 DEF CreateIdentity, Plain
    <3>3. CASE CreatorDevices
      BY <3>1, <3>3 DEF CreatorDevices, Plain
    <3>4. QED BY <2>7, <3>2, <3>3
  <2>8. ASSUME NEW v \in Users, DeleteSDPUser(v), InQueue(icq, d)
        PROVE  InQueue(icq', d)
    <3>1. CreatorReceive(DeleteOnly(v)) BY <2>8 DEF DeleteSDPUser, DeleteOnly
    <3>2. DeleteOnly(v) # d BY TokenKinds DEF d
    <3>3. QED BY <2>3, <2>8, <3>1, <3>2
  <2>9. CASE \/ CreatorClean \/ CreatorFill \/ CreatorReady \/ CreatorNotify
             \/ CreatorSecrets \/ \E v \in Users : CreatorScan(v)
    <3>1. icq' = icq
      BY <2>9 DEF CreatorClean, CreatorFill, CreatorReady, CreatorNotify,
                  CreatorSecrets, CreatorScan
    <3>2. QED BY <1>h, <2>1, <3>1
  <2>10. QED
    BY <1>5, <1>h, <2>1, <2>2, <2>4, <2>5, <2>6, <2>7, <2>8, <2>9 DEF CreatorNext
<1>6. ~Crash /\ ~CreatorFillPanics
  BY <1>t, CrashesGrow DEF CreatorFillPanics, CreateUserFails, CallFails
<1>7. QED BY <1>t, <1>1, <1>4, <1>5, <1>6, OutsideQuiet DEF Next

\* The identity that is deleted was removed, and its user will be deleted.
LEMMA RemovedDeleting ==
    ASSUME TypeOK, NEW s \in Services, NEW u \in Users, delete_service_identity(s, u),
           crd[s] # NoUser, crd'[s] = NoUser
    PROVE  Removing(s, u) /\ Deleting(s, u)'
<1>t. imq \in Seq(ManagerMsg) /\ crd \in [Services -> MaybeUser]
  BY DEF TypeOK, ChannelsTypeOK, StoresTypeOK
<1>1. /\ imq # <<>> /\ Head(imq) = Removal(s, u) /\ imq' = Tail(imq)
      /\ todo' = <<ToCreator(Deletion(s, u))>>
  BY DEF delete_service_identity, Receive, Removal, DeleteIdentity, Deletion
<1>2. InQueue(imq, Removal(s, u)) BY <1>t, <1>1, ManagerTail
<1>3. InQueue(todo', ToCreator(Deletion(s, u))) BY <1>1, OneSend
<1>4. QED BY <1>2, <1>3 DEF Removing, Deleting

-----------------------------------------------------------------------------
(***************************************************************************)
(* No user is left enabled for nobody, as long as one candidate is         *)
(* deleted: a second one can make the manager delete an identity whose     *)
(* user another one holds.                                                 *)
(***************************************************************************)
\* Until an identity is deleted, what is known of the user of a service agrees.
Kept ==
    Departures = deletes =>
        \A s \in Services, u \in Users : Held(s, u) \/ Removing(s, u) => crd[s] = u

\* The user is enabled or a service has it; everything leads to an identity
\* with it; its deletion is on its way.
Claimed(u) == Exists(u) /\ (sdp[u] = "enabled" \/ \E s \in Services : Held(s, u))
Followed(u) == \E s \in Services : crd[s] # NoUser /\ Following(s, u)
Departed(u) == \E s \in Services : Deleting(s, u)

NoneLost ==
    deletes <= 1 => \A u \in Users : Claimed(u) => Followed(u) \/ Departed(u)

\* The inductive form of SettledNoLeak.
LeakInv ==
    crashes = 0 /\ failures = 0 =>
        Begun /\ Departures <= deletes /\ Kept /\ NoneLost

\* FollowedHeld, of the state after a step as well.
FollowersHold == \A s \in Services, c \in Users : Following(s, c) => Held(s, c)

\* It holds in every state.
LEMMA FollowersAlwaysHold == TRUE => FollowersHold
BY FollowedHeld DEF FollowersHold

\* What one step of the first process does.
LeakMoves ==
    /\ ReconcileInv /\ UserInv /\ FollowInv /\ Untaken /\ SingleHolder
    /\ MapsAgree /\ MapsAgree' /\ TypeOK /\ TypeOK'
    /\ crashes = 0 /\ crashes' = 0 /\ failures = 0 /\ failures' = 0
    /\ UserMoves /\ DeletionsFrom /\ Departs
    /\ \A s \in Services : crd'[s] # NoUser => Led(s)
    /\ Departures <= deletes /\ Kept /\ NoneLost

\* As long as no identity is deleted, every service keeps its user.
LEMMA KeptStep == ASSUME LeakMoves, [Next]_vars PROVE Kept'
<1> USE DEF LeakMoves
<1>t. /\ services \in [Services -> MaybeUser] /\ crd \in [Services -> MaybeUser]
      /\ crd' \in [Services -> MaybeUser] /\ NoUser \notin Users
      /\ DepartureTerms /\ DepartureTerms'
  <2>1. DepartureTerms /\ DepartureTerms' BY DeparturesTyped, PTL
  <2>2. QED BY <2>1, ConstantsAssumption DEF TypeOK, StoresTypeOK, ManagerTypeOK
<1>n. Departures \in Nat /\ Departures' \in Nat /\ deletes \in Nat /\ deletes' \in Nat
  BY <1>t DEF DepartureTerms, Departures
<1> SUFFICES ASSUME Departures' = deletes', NEW s \in Services, NEW u \in Users
             PROVE  (Held(s, u) \/ Removing(s, u))' => crd'[s] = u
  BY DEF Kept
<1>1. Departures = deletes
  <2>1. Departures' + deletes <= Departures + deletes' /\ Departures <= deletes
        /\ Departures' = deletes'
    BY DEF Departs
  <2>2. ASSUME NEW a \in Nat, NEW b \in Nat, NEW c \in Nat, NEW d \in Nat,
               a + c <= b + d, a = d, b <= c
        PROVE  b = c
    BY <2>2
  <2> HIDE DEF LeakMoves
  <2>3. QED BY <1>n, <2>1, <2>2
<1>2. ASSUME Held(s, u) \/ Removing(s, u) PROVE crd'[s] = u
  <2>1. crd[s] = u /\ services[s] = u BY <1>1, <1>2 DEF Kept, MapsAgree
  <2>2. crd'[s] # NoUser
    <3> SUFFICES ASSUME crd'[s] = NoUser PROVE FALSE
      OBVIOUS
    <3>1. PICK v \in Users : delete_service_identity(s, v)
      BY <1>t, <2>1, LosesIdentity
    <3>2. Departures' < Departures /\ deletes' = deletes BY <3>1, DeletionDeparts
    <3>3. QED BY <1>1, <1>n, <3>2
  <2>3. PICK v \in Users : crd'[s] = v BY <1>t, <2>2 DEF MaybeUser
  <2>4. Held(s, v)' BY <2>3 DEF Held
  <2>5. Held(s, v) \/ Gets(s, v) BY <2>4 DEF UserMoves, UserMove
  <2>6. Held(s, v) BY <1>t, <2>1, <2>5 DEF Gets
  <2>7. QED BY <1>1, <2>1, <2>3, <2>6 DEF Kept
<1>3. ASSUME Held(s, u)' PROVE crd'[s] = u
  <2>1. Held(s, u) \/ Gets(s, u) BY <1>3 DEF UserMoves, UserMove
  <2>2. Gets(s, u) => crd'[s] = u BY DEF Gets, MapsAgree
  <2>3. QED BY <1>2, <2>1, <2>2
<1>4. ASSUME Removing(s, u)' PROVE crd'[s] = u
  <2>1. Removing(s, u) \/ services[s] = u BY <1>4 DEF DeletionsFrom
  <2>2. QED BY <1>2, <2>1 DEF Held
<1>5. QED BY <1>3, <1>4

\* A user that a service gets in this step is the one everything leads to.
LEMMA NewClaim ==
    ASSUME LeakMoves, deletes <= 1, NEW s \in Services, NEW u \in Users,
           Offered(u), Gets(s, u)
    PROVE  Followed(u)'
<1> USE DEF LeakMoves
<1>t. NoUser \notin Users BY ConstantsAssumption
<1>1. crd[s] = NoUser /\ crd'[s] = u BY DEF Gets, MapsAgree
<1>2. PICK c \in Users :
          /\ Following(s, c)'
          /\ (Safe(c) /\ Following(s, c)) \/ (Offered(c) /\ crd[s] = NoUser)
  BY <1>t, <1>1 DEF Led
<1>3. CASE Offered(c)
  <2>1. FollowersHold' BY FollowersAlwaysHold, PTL
  <2>2. Held(s, c)' BY <1>2, <2>1 DEF FollowersHold
  <2>3. ~Held(s, c) BY <1>3 DEF UserInv, FirstProcess
  <2>4. Gets(s, c) BY <2>2, <2>3 DEF UserMoves, UserMove
  <2>5. c = u BY <2>4 DEF Gets
  <2>6. QED BY <1>t, <1>1, <1>2, <2>5 DEF Followed
<1>4. CASE Safe(c) /\ Following(s, c)
  <2>1. Held(s, c) BY <1>4, FollowedHeld
  <2>2. Claimed(c) BY <1>4, <2>1 DEF Claimed, Safe
  <2>3. ~Departed(c) BY <1>4 DEF Departed, Safe
  <2>4. PICK t \in Services : crd[t] # NoUser /\ Following(t, c)
    BY <2>2, <2>3 DEF NoneLost, Followed
  <2>5. Held(t, c) BY <2>4, FollowedHeld
  <2>6. t = s BY <2>1, <2>5 DEF SingleHolder
  <2>7. QED BY <1>1, <2>4, <2>6
<1>5. QED BY <1>2, <1>3, <1>4

\* The identity of a user is deleted: it was the one with that user.
LEMMA OwnDeparture ==
    ASSUME LeakMoves, [Next]_vars, deletes <= 1, NEW s \in Services, NEW u \in Users,
           Following(s, u), crd[s] # NoUser, crd'[s] = NoUser
    PROVE  Departed(u)'
<1> USE DEF LeakMoves
<1>1. PICK v \in Users : delete_service_identity(s, v) BY LosesIdentity
<1>2. Removing(s, v) /\ Deleting(s, v)' BY <1>1, RemovedDeleting
<1>3. Departures = deletes
  <2>1. Departures' < Departures /\ deletes' = deletes BY <1>1, DeletionDeparts
  <2>2. DepartureTerms /\ DepartureTerms' BY DeparturesTyped, PTL
  <2>3. Departures \in Nat /\ Departures' \in Nat /\ deletes \in Nat
    BY <2>2 DEF DepartureTerms, Departures
  <2>4. QED BY <2>1, <2>3
<1>4. Held(s, u) BY FollowedHeld
<1>5. crd[s] = u /\ crd[s] = v BY <1>2, <1>3, <1>4 DEF Kept
<1>6. QED BY <1>2, <1>5 DEF Departed

\* A claimed user stays followed, or its deletion stays on its way.
LEMMA ClaimStep == ASSUME LeakMoves, [Next]_vars PROVE NoneLost'
<1> USE DEF LeakMoves
<1>t. /\ NoUser \notin Users
      /\ sdp \in [Users -> {"fresh", "disabled", "enabled", "deleted"}]
  BY ConstantsAssumption DEF TypeOK, StoresTypeOK
<1> SUFFICES ASSUME deletes' <= 1, NEW u \in Users, Claimed(u)'
             PROVE  Followed(u)' \/ Departed(u)'
  BY DEF NoneLost
<1>1. deletes <= 1
  <2>1. DepartureTerms /\ DepartureTerms' BY DeparturesTyped, PTL
  <2>2. deletes \in Nat /\ deletes' \in Nat BY <2>1 DEF DepartureTerms
  <2>3. QED BY <2>2 DEF Departs
<1>2. /\ Exists(u)'
      /\ sdp'[u] = "enabled" \/ \E s \in Services : Held(s, u)'
  BY DEF Claimed
<1>3. UserMove(u) BY DEF UserMoves
<1>4. Exists(u) \/ sdp[u] = "fresh" BY <1>2, <1>3 DEF UserMove, Exists
<1>5. CASE ~Claimed(u)
  <2>1. \A s \in Services : ~Held(s, u)
    BY <1>4, <1>5 DEF Claimed, UserInv, FreshUnknown
  <2>2. sdp'[u] # "enabled"
    <3>1. sdp[u] # "enabled" BY <1>5 DEF Claimed, Exists
    <3>2. QED BY <1>3, <2>1, <3>1 DEF UserMove
  <2>3. PICK s \in Services : Held(s, u)' BY <1>2, <2>2
  <2>4. Offered(u) /\ Gets(s, u) BY <1>3, <2>1, <2>3 DEF UserMove
  <2>5. QED BY <1>1, <2>4, NewClaim
<1>6. CASE Claimed(u) /\ Departed(u)
  <2>1. PICK t \in Services : Deleting(t, u) BY <1>6 DEF Departed
  <2>2. Deleting(t, u)' BY <1>2, <2>1, DeletingKept
  <2>3. QED BY <2>2 DEF Departed
<1>7. CASE Claimed(u) /\ ~Departed(u)
  <2>1. PICK s \in Services : crd[s] # NoUser /\ Following(s, u)
    BY <1>1, <1>7 DEF NoneLost, Followed
  <2>2. CASE crd'[s] = NoUser BY <1>1, <2>1, <2>2, OwnDeparture
  <2>3. CASE crd'[s] # NoUser
    <3>1. PICK c \in Users : Following(s, c)' /\ Following(s, c)
      BY <2>1, <2>3 DEF Led
    <3>2. c = u BY <2>1, <3>1, FollowUnique
    <3>3. QED BY <2>3, <3>1, <3>2 DEF Followed
  <2>4. QED BY <2>2, <2>3
<1>8. QED BY <1>5, <1>6, <1>7
\* Every step keeps LeakInv.
LEMMA LeakStep ==
    /\ ReconcileInv /\ UserInv /\ RemovalInv /\ FollowInv /\ ServeInv /\ LeakInv
    /\ (ReconcileInv /\ UserInv /\ RemovalInv /\ ServeInv)'
    /\ [Next]_vars
    => LeakInv'
<1> SUFFICES ASSUME ReconcileInv, UserInv, RemovalInv, FollowInv, ServeInv, LeakInv,
                    ReconcileInv', UserInv', RemovalInv', ServeInv',
                    [Next]_vars, crashes' = 0, failures' = 0
             PROVE  Begun' /\ Departures' <= deletes' /\ Kept' /\ NoneLost'
  BY DEF LeakInv
<1>1. TypeOK /\ TypeOK' /\ crashes = 0 /\ failures = 0
  BY CrashesGrow, FailuresGrow DEF ReconcileInv
<1>2. /\ Removals /\ Untaken /\ SingleHolder
      /\ Begun /\ Departures <= deletes /\ Kept /\ NoneLost
  BY <1>1 DEF RemovalInv, ServeInv, UserInv, LeakInv
<1>3. Removals' /\ Untaken' BY DEF RemovalInv, ServeInv
<1>4. Begun' BY <1>1, <1>2, BegunStep
<1>5. MapsAgree BY <1>1, <1>2, MapsEqual
<1>6. MapsAgree' BY <1>1, <1>3, <1>4, MapsEqual, PTL
<1>7. Departs BY <1>1, DepartStep
<1>8. UserMoves BY <1>1, MovesStep
<1>9. DeletionsFrom /\ \A s \in Services : crd'[s] # NoUser => Led(s)
  BY <1>1, <1>2, StepLeads
<1>10. LeakMoves
  BY <1>1, <1>2, <1>5, <1>6, <1>7, <1>8, <1>9 DEF LeakMoves
<1>11. Departures' <= deletes'
  <2>1. DepartureTerms /\ DepartureTerms' BY <1>1, DeparturesTyped, PTL
  <2>2. /\ Departures \in Nat /\ Departures' \in Nat
        /\ deletes \in Nat /\ deletes' \in Nat
    BY <2>1 DEF DepartureTerms, Departures
  <2>3. ASSUME NEW a \in Nat, NEW b \in Nat, NEW c \in Nat, NEW d \in Nat,
               a + c <= b + d, b <= c
        PROVE  a <= d
    BY <2>3
  <2>4. Departures' + deletes <= Departures + deletes' BY <1>7 DEF Departs
  <2>5. QED BY <1>2, <2>2, <2>3, <2>4
<1>12. QED BY <1>4, <1>10, <1>11, KeptStep, ClaimStep

\* At the start nothing is on its way and no user exists.
LEMMA LeakInit == Init => LeakInv
<1> SUFFICES ASSUME Init PROVE LeakInv
  OBVIOUS
<1>1. /\ \A s \in Services : crd[s] = NoUser /\ services[s] = NoUser
      /\ \A u \in Users : sdp[u] = "fresh"
      /\ \A w \in Watchers : events[w] = <<>>
      /\ imq = <<>> /\ icq = <<>> /\ todo = <<>> /\ ictodo = <<>>
      /\ deletes = 0 /\ released = FALSE
  BY DEF Init, ProcessInit
<1>2. NoUser \notin Users BY ConstantsAssumption
<1>3. Begun BY <1>1 DEF Begun
<1>4. Departures = 0
  <2>1. /\ Unread("Deployment") = 0 /\ Unread("SDPService") = 0
        /\ Queued = 0 /\ Resent = 0
    BY <1>1, OccursEmpty DEF Unread, Queued, Resent, Watchers
  <2>2. QED BY <2>1 DEF Departures
<1>5. ASSUME NEW s \in Services, NEW u \in Users
      PROVE  ~Held(s, u) /\ ~Removing(s, u)
  BY <1>1, <1>2, OneSend DEF Held, Activating, Removing
<1>6. \A u \in Users : ~Exists(u) BY <1>1 DEF Exists
<1>7. QED BY <1>1, <1>3, <1>4, <1>5, <1>6 DEF LeakInv, Kept, NoneLost, Claimed

\* The invariant, of every behaviour.
LEMMA LeakAlways == Spec => []LeakInv
<1>1. QED
  BY LeakInit, LeakStep, ReconcileInvariant, UserInvariant, RemovalAlways,
     FollowAlways, ServeAlways, PTL DEF Spec

\* No user of the controller stays enabled for nobody, whatever order the two
\* channels deliver activations and deletions in and however often candidates
\* appear again: it holds of the first process, as long as no call failed and
\* at most one candidate was deleted.  With two deletions it is lost: the report
\* of an activation that arrives late writes the user of an earlier request back
\* into the identity, and the second deletion names that user only.
THEOREM SettledNoLeakAlways ==
    Spec => [](crashes = 0 /\ failures = 0 /\ deletes <= 1 => SettledNoLeak)
<1>1. LeakInv => (crashes = 0 /\ failures = 0 /\ deletes <= 1 => SettledNoLeak)
  <2> SUFFICES ASSUME NoneLost, deletes <= 1, Settled,
                      NEW u \in Users, sdp[u] = "enabled"
               PROVE  \E s \in Services : crd[s] = u
    BY DEF LeakInv, SettledNoLeak
  <2>1. imq = <<>> /\ icq = <<>> /\ todo = <<>> /\ ictodo = <<>>
    BY DEF Settled, Idle
  <2>2. ~Departed(u) BY <2>1, OneSend DEF Departed, Deleting
  <2>3. Claimed(u) BY DEF Claimed, Exists
  <2>4. PICK s \in Services : Following(s, u)
    BY <2>2, <2>3 DEF NoneLost, Followed
  <2>5. Informed(s, u)
    BY <2>1, <2>4, LastFacts DEF Following, Waiting, ActivationSteps
  <2>6. crd[s] = u BY <2>1, <2>5, LastFacts DEF Informed
  <2>7. QED BY <2>6
<1>2. QED BY <1>1, LeakAlways, PTL
=============================================================================
