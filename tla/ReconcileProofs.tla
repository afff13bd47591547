-------------------------- MODULE ReconcileProofs ---------------------------
(***************************************************************************)
(* ReconcileInv is an inductive invariant of the Identity Service, and     *)
(* ReconcileInformed and ReconcileOnce follow from it: for any number of   *)
(* services, users, restarts, failing calls and messages in the channels,  *)
(* the reconciliation runs once per process and on complete information.   *)
(***************************************************************************)
EXTENDS IdentityServiceProofs

-----------------------------------------------------------------------------
(***************************************************************************)
(* Queues: what an append and the removal of the head do.                  *)
(***************************************************************************)
\* The elements of Append(q, e).
LEMMA AppendShape ==
    ASSUME NEW S, NEW q \in Seq(S), NEW e \in S, NEW r, r = Append(q, e)
    PROVE  /\ Len(q) \in Nat /\ Len(r) = Len(q) + 1 /\ r[Len(q) + 1] = e
           /\ \A i \in 1..Len(q) : r[i] = q[i]
OBVIOUS

\* The elements of Tail(q).
LEMMA TailShape ==
    ASSUME NEW S, NEW q \in Seq(S), q # <<>>, NEW r, r = Tail(q)
    PROVE  /\ Len(q) \in Nat \ {0} /\ Len(r) = Len(q) - 1 /\ q[1] = Head(q)
           /\ \A i \in 1..Len(r) : r[i] = q[i + 1]
           /\ \A i \in 2..Len(q) : q[i] = r[i - 1]
OBVIOUS

\* Membership, uniqueness and order in an appended queue.
LEMMA AppendFacts ==
    ASSUME NEW S, NEW q \in Seq(S), NEW e \in S, NEW r, r = Append(q, e)
    PROVE  /\ \A m : InQueue(r, m) <=> InQueue(q, m) \/ e = m
           /\ \A m : Once(q, m) /\ ~(e = m /\ InQueue(q, m)) => Once(r, m)
           /\ \A K, M : FollowedBy(q, K, M) /\ e \notin K => FollowedBy(r, K, M)
           /\ \A K, M : e \in M /\ e \notin K => FollowedBy(r, K, M)
           /\ \A K, m : Ahead(q, K, m) => Ahead(r, K, m)
           /\ \A K, k : k \in K /\ InQueue(q, k) => Ahead(r, K, e)
<1> USE AppendShape
<1>1. \A m : InQueue(r, m) <=> InQueue(q, m) \/ e = m
  BY DEF InQueue
<1>2. \A m : Once(q, m) /\ ~(e = m /\ InQueue(q, m)) => Once(r, m)
  BY DEF InQueue, Once
<1>3. \A K, M : FollowedBy(q, K, M) /\ e \notin K => FollowedBy(r, K, M)
  BY DEF FollowedBy
<1>4. \A K, M : e \in M /\ e \notin K => FollowedBy(r, K, M)
  BY DEF FollowedBy
<1>5. \A K, m : Ahead(q, K, m) => Ahead(r, K, m)
  BY DEF Ahead
<1>6. \A K, k : k \in K /\ InQueue(q, k) => Ahead(r, K, e)
  BY DEF InQueue, Ahead
<1>7. QED BY <1>1, <1>2, <1>3, <1>4, <1>5, <1>6

\* The same for a queue whose head was removed.
LEMMA TailFacts ==
    ASSUME NEW S, NEW q \in Seq(S), q # <<>>, NEW r, r = Tail(q)
    PROVE  /\ \A m : InQueue(q, m) <=> Head(q) = m \/ InQueue(r, m)
           /\ \A m : Once(q, m) => Once(r, m)
           /\ \A m : Once(q, m) /\ Head(q) = m => ~InQueue(r, m)
           /\ \A K, M : FollowedBy(q, K, M) => FollowedBy(r, K, M)
           /\ \A K, m : Ahead(q, K, m) /\ Head(q) \notin K => Ahead(r, K, m)
<1> USE TailShape
<1>1. \A m : InQueue(q, m) <=> Head(q) = m \/ InQueue(r, m)
  <2> TAKE m
  <2>1. InQueue(r, m) => InQueue(q, m)
    BY DEF InQueue
  <2>2. Head(q) = m => InQueue(q, m)
    BY DEF InQueue
  <2>3. InQueue(q, m) => Head(q) = m \/ InQueue(r, m)
    BY DEF InQueue
  <2>4. QED BY <2>1, <2>2, <2>3
<1>2. \A m : Once(q, m) => Once(r, m)
  BY DEF Once
<1>3. \A m : Once(q, m) /\ Head(q) = m => ~InQueue(r, m)
  BY DEF Once, InQueue
<1>4. ASSUME NEW K, NEW M, FollowedBy(q, K, M) PROVE FollowedBy(r, K, M)
  <2> SUFFICES ASSUME NEW i \in 1..Len(r), r[i] \in K
               PROVE  \E j \in 1..Len(r) : j > i /\ r[j] \in M
    BY DEF FollowedBy
  <2>1. i + 1 \in 1..Len(q) /\ q[i + 1] \in K
    OBVIOUS
  <2>2. PICK j \in 1..Len(q) : j > i + 1 /\ q[j] \in M
    BY <1>4, <2>1 DEF FollowedBy
  <2>3. j - 1 \in 1..Len(r) /\ j - 1 > i /\ r[j - 1] \in M
    BY <2>2
  <2>4. QED BY <2>3
<1>5. ASSUME NEW K, NEW m, Ahead(q, K, m), Head(q) \notin K
      PROVE  Ahead(r, K, m)
  <2>1. PICK i, j \in 1..Len(q) : i < j /\ q[i] \in K /\ q[j] = m
    BY <1>5 DEF Ahead
  <2>2. i # 1
    BY <1>5, <2>1
  <2>3. /\ i - 1 \in 1..Len(r) /\ j - 1 \in 1..Len(r) /\ i - 1 < j - 1
        /\ r[i - 1] \in K /\ r[j - 1] = m
    BY <2>1, <2>2
  <2>4. QED BY <2>3 DEF Ahead
<1>6. QED BY <1>1, <1>2, <1>3, <1>4, <1>5

\* AppendFacts for the manager's channel.
LEMMA ManagerAppend ==
    ASSUME imq \in Seq(ManagerMsg), NEW e \in ManagerMsg, imq' = Append(imq, e)
    PROVE  /\ \A m : InQueue(imq', m) <=> InQueue(imq, m) \/ e = m
           /\ \A m : Once(imq, m) /\ ~(e = m /\ InQueue(imq, m)) => Once(imq', m)
           /\ \A K, M : FollowedBy(imq, K, M) /\ e \notin K
                            => FollowedBy(imq', K, M)
           /\ \A K, M : e \in M /\ e \notin K => FollowedBy(imq', K, M)
           /\ \A K, m : Ahead(imq, K, m) => Ahead(imq', K, m)
           /\ \A K, k : k \in K /\ InQueue(imq, k) => Ahead(imq', K, e)
BY AppendFacts

\* TailFacts for the manager's channel.
LEMMA ManagerTail ==
    ASSUME imq \in Seq(ManagerMsg), imq # <<>>, imq' = Tail(imq)
    PROVE  /\ \A m : InQueue(imq, m) <=> Head(imq) = m \/ InQueue(imq', m)
           /\ \A m : Once(imq, m) => Once(imq', m)
           /\ \A m : Once(imq, m) /\ Head(imq) = m => ~InQueue(imq', m)
           /\ \A K, M : FollowedBy(imq, K, M) => FollowedBy(imq', K, M)
           /\ \A K, m : Ahead(imq, K, m) /\ Head(imq) \notin K
                            => Ahead(imq', K, m)
BY TailFacts

-----------------------------------------------------------------------------
(***************************************************************************)
(* Messages are told apart by their type.                                  *)
(***************************************************************************)
\* The type of each message that the invariant mentions.
LEMMA Kinds ==
    /\ \A w \in Watchers :
          /\ DeploymentWatcherReady(w) \in WatcherReadyMsg
          /\ DeploymentWatcherReady(w).w = w
    /\ \A m \in WatcherReadyMsg :
          /\ m.type = "DeploymentWatcherReady"
          /\ \E w \in Watchers : m = DeploymentWatcherReady(w)
    /\ \A m \in FoundCandidateMsg : m.type = "FoundServiceCandidate"
    /\ \A s \in Services : FoundServiceCandidate(s).type = "FoundServiceCandidate"
    /\ \A u : \A m \in UserReports(u) : m.type = "FoundServiceUser" /\ m.u = u
    /\ \A u : FoundServiceUser(u, TRUE) \in UserReports(u)
    /\ \A u : FoundServiceUser(u, FALSE) \in UserReports(u)
    /\ IdentityCreatorReady.type = "IdentityCreatorReady"
    /\ IdentityManagerReady.type = "IdentityManagerReady"
<1>1. \A w \in Watchers :
          /\ DeploymentWatcherReady(w) \in WatcherReadyMsg
          /\ DeploymentWatcherReady(w).w = w
  BY DEF DeploymentWatcherReady, WatcherReadyMsg
<1>2. \A m \in WatcherReadyMsg :
          /\ m.type = "DeploymentWatcherReady"
          /\ \E w \in Watchers : m = DeploymentWatcherReady(w)
  BY DEF DeploymentWatcherReady, WatcherReadyMsg
<1>3. /\ \A m \in FoundCandidateMsg : m.type = "FoundServiceCandidate"
      /\ \A s \in Services :
            FoundServiceCandidate(s).type = "FoundServiceCandidate"
  BY DEF FoundServiceCandidate, FoundCandidateMsg
<1>4. \A u : \A m \in UserReports(u) : m.type = "FoundServiceUser" /\ m.u = u
  BY DEF FoundServiceUser, UserReports
<1>5. \A u : /\ FoundServiceUser(u, TRUE) \in UserReports(u)
             /\ FoundServiceUser(u, FALSE) \in UserReports(u)
  BY DEF UserReports
<1>6. /\ IdentityCreatorReady.type = "IdentityCreatorReady"
      /\ IdentityManagerReady.type = "IdentityManagerReady"
  BY DEF IdentityCreatorReady, IdentityManagerReady
<1>7. QED BY <1>1, <1>2, <1>3, <1>4, <1>5, <1>6

\* The messages the invariant does not mention.
LEMMA OtherKinds ==
    /\ \A m \in CandidateMsg :
          m.type \in {"RequestServiceIdentity", "DeletedServiceCandidate",
                      "ReleaseDeviceId"}
    /\ \A m \in ActivatedMsg : m.type = "ActivatedServiceUser"
    /\ \A m \in DeleteMsg : m.type = "DeleteServiceIdentity"
    /\ \A m \in FoundUserMsg : m.type = "FoundServiceUser"
BY DEF CandidateMsg, ActivatedMsg, DeleteMsg, FoundUserMsg, FoundServiceUser

-----------------------------------------------------------------------------
(***************************************************************************)
(* Steps that keep one part of the invariant.                              *)
(***************************************************************************)
\* WatcherOrder only depends on the candidates and notifications in the
\* channel and on the watchers' phases.
LEMMA WatcherOrderKept ==
    ASSUME imq \in Seq(ManagerMsg), WatcherOrder,
           UNCHANGED <<wphase, watchersReady>>, released => released',
           \/ imq' = imq
           \/ /\ imq # <<>> /\ imq' = Tail(imq)
              /\ Head(imq).type # "DeploymentWatcherReady"
           \/ \E m \in ManagerMsg :
                 /\ imq' = Append(imq, m)
                 /\ m.type # "DeploymentWatcherReady"
                 /\ m.type = "FoundServiceCandidate" =>
                       \E w \in Watchers : ~Notified(w)
    PROVE  WatcherOrder'
<1> USE Kinds
<1>1. \A w \in Watchers : Notified(w)' <=> Notified(w)
  BY DEF Notified
<1>2. /\ \A w \in Watchers : InQueue(imq', DeploymentWatcherReady(w))
                                 <=> InQueue(imq, DeploymentWatcherReady(w))
      /\ \A w \in Watchers : Once(imq, DeploymentWatcherReady(w))
                                 => Once(imq', DeploymentWatcherReady(w))
      /\ \/ FollowedBy(imq, FoundCandidateMsg, WatcherReadyMsg)
                => FollowedBy(imq', FoundCandidateMsg, WatcherReadyMsg)
         \/ \E w \in Watchers : ~Notified(w)
  <2>1. CASE imq' = imq
    BY <2>1
  <2>2. CASE /\ imq # <<>> /\ imq' = Tail(imq)
             /\ Head(imq).type # "DeploymentWatcherReady"
    BY <2>2, ManagerTail
  <2>3. ASSUME NEW m \in ManagerMsg, imq' = Append(imq, m),
               m.type # "DeploymentWatcherReady",
               m.type = "FoundServiceCandidate" =>
                   \E w \in Watchers : ~Notified(w)
        PROVE  /\ \A w \in Watchers : InQueue(imq', DeploymentWatcherReady(w))
                                 <=> InQueue(imq, DeploymentWatcherReady(w))
               /\ \A w \in Watchers : Once(imq, DeploymentWatcherReady(w))
                                 => Once(imq', DeploymentWatcherReady(w))
               /\ \/ FollowedBy(imq, FoundCandidateMsg, WatcherReadyMsg)
                      => FollowedBy(imq', FoundCandidateMsg, WatcherReadyMsg)
                  \/ \E w \in Watchers : ~Notified(w)
    BY <2>3, ManagerAppend
  <2>4. QED BY <2>1, <2>2, <2>3
<1>3. \A w \in Watchers : Counted(w)' <=> Counted(w)
  BY <1>1, <1>2 DEF Counted
<1>4. "Deployment" \in Watchers /\ "SDPService" \in Watchers
  BY DEF Watchers
<1>5. QED BY <1>1, <1>2, <1>3, <1>4 DEF WatcherOrder

\* CreatorOrder depends on the reports of users and IdentityCreatorReady.
LEMMA CreatorOrderKept ==
    ASSUME imq \in Seq(ManagerMsg), CreatorOrder,
           UNCHANGED <<icphase, creatorReady, known>>,
           activated \subseteq activated', deactivated \subseteq deactivated',
           \/ imq' = imq
           \/ /\ imq # <<>> /\ imq' = Tail(imq)
              /\ Head(imq).type # "IdentityCreatorReady"
              /\ \A u \in known : Head(imq) \in UserReports(u) =>
                                  u \in activated' \cup deactivated'
           \/ \E m \in ManagerMsg :
                 imq' = Append(imq, m) /\ m.type # "IdentityCreatorReady"
    PROVE  CreatorOrder'
<1> USE Kinds
<1>1. CASE imq' = imq
  BY <1>1 DEF CreatorOrder, Reported
<1>2. CASE /\ imq # <<>> /\ imq' = Tail(imq)
           /\ Head(imq).type # "IdentityCreatorReady"
           /\ \A u \in known : Head(imq) \in UserReports(u) =>
                               u \in activated' \cup deactivated'
  <2>1. ASSUME NEW u \in known, Reported(u) PROVE Reported(u)'
    BY <1>2, <2>1, ManagerTail DEF Reported
  <2>2. /\ InQueue(imq', IdentityCreatorReady) => InQueue(imq, IdentityCreatorReady)
        /\ Once(imq, IdentityCreatorReady) => Once(imq', IdentityCreatorReady)
    BY <1>2, ManagerTail
  <2>3. QED BY <2>1, <2>2 DEF CreatorOrder
<1>3. ASSUME NEW m \in ManagerMsg, imq' = Append(imq, m),
             m.type # "IdentityCreatorReady"
      PROVE  CreatorOrder'
  <2>1. ASSUME NEW u \in known, Reported(u) PROVE Reported(u)'
    BY <1>3, <2>1, ManagerAppend DEF Reported
  <2>2. /\ InQueue(imq', IdentityCreatorReady) => InQueue(imq, IdentityCreatorReady)
        /\ Once(imq, IdentityCreatorReady) => Once(imq', IdentityCreatorReady)
    BY <1>3, ManagerAppend
  <2>3. QED BY <2>1, <2>2 DEF CreatorOrder
<1>4. QED BY <1>1, <1>2, <1>3

\* SelfReady is the one-element queue of the send to the manager itself.
LEMMA SelfReadyQueue == InQueue(SelfReady, ToManager(IdentityManagerReady))
BY DEF SelfReady, InQueue

\* ReadyToken depends on IdentityManagerReady, sent or about to be.
LEMMA ReadyTokenKept ==
    ASSUME imq \in Seq(ManagerMsg), ReadyToken,
           UNCHANGED <<released, watchersReady, creatorReady>>,
           stage' = stage \/ (stage # "none" /\ stage' # "none"),
           \/ todo' = todo
           \/ /\ todo # SelfReady
              /\ ~InQueue(todo', ToManager(IdentityManagerReady)),
           \/ imq' = imq
           \/ /\ imq # <<>> /\ imq' = Tail(imq)
              /\ Head(imq).type # "IdentityManagerReady"
           \/ \E m \in ManagerMsg :
                 imq' = Append(imq, m) /\ m.type # "IdentityManagerReady"
    PROVE  ReadyToken'
<1>1. /\ InQueue(imq', IdentityManagerReady) <=> InQueue(imq, IdentityManagerReady)
      /\ Once(imq, IdentityManagerReady) => Once(imq', IdentityManagerReady)
  BY Kinds, ManagerTail, ManagerAppend
<1>2. ReadyQueued' <=> ReadyQueued
  BY <1>1 DEF ReadyQueued
<1>3. /\ todo' = SelfReady => todo = SelfReady
      /\ todo' # SelfReady /\ (todo # SelfReady =>
              ~InQueue(todo, ToManager(IdentityManagerReady)))
            => ~InQueue(todo', ToManager(IdentityManagerReady))
  BY SelfReadyQueue
<1>4. ReadyPending' => ReadyPending
  BY <1>3 DEF ReadyPending, SelfReady
<1>5. QED BY <1>1, <1>2, <1>3, <1>4 DEF ReadyToken, SelfReady

\* A step about none of the announcements keeps all three parts.
LEMMA OrderKept ==
    ASSUME ReconcileInv,
           UNCHANGED <<wphase, watchersReady, released, icphase, creatorReady,
                       known, activated, deactivated>>,
           stage' = stage \/ (stage # "none" /\ stage' # "none"),
           \/ todo' = todo
           \/ /\ todo # SelfReady
              /\ ~InQueue(todo', ToManager(IdentityManagerReady)),
           \/ imq' = imq
           \/ /\ imq # <<>> /\ imq' = Tail(imq)
              /\ Head(imq).type \notin
                    {"DeploymentWatcherReady", "FoundServiceUser",
                     "IdentityCreatorReady", "IdentityManagerReady"}
           \/ \E m \in ManagerMsg :
                 /\ imq' = Append(imq, m)
                 /\ m.type \notin
                       {"DeploymentWatcherReady", "FoundServiceCandidate",
                        "IdentityCreatorReady", "IdentityManagerReady"}
    PROVE  WatcherOrder' /\ CreatorOrder' /\ ReadyToken'
<1>1. imq \in Seq(ManagerMsg)
  BY DEF ReconcileInv, TypeOK, ChannelsTypeOK
<1>2. WatcherOrder'
  BY <1>1, WatcherOrderKept DEF ReconcileInv
<1>3. CreatorOrder'
  BY <1>1, Kinds, CreatorOrderKept DEF ReconcileInv
<1>4. ReadyToken'
  BY <1>1, ReadyTokenKept DEF ReconcileInv
<1>5. QED BY <1>2, <1>3, <1>4

-----------------------------------------------------------------------------
(***************************************************************************)
(* The steps of each part.                                                 *)
(***************************************************************************)
\* All notifications have been counted once two of them have been.
LEMMA AllCounted ==
    ASSUME WatcherOrder, watchersReady = N_WATCHERS
    PROVE  \A w \in Watchers :
               Notified(w) /\ ~InQueue(imq, DeploymentWatcherReady(w))
BY DEF WatcherOrder, N_WATCHERS, Counted, Watchers

\* The steps of a candidate watcher: a watcher reports candidates only before
\* its notification, and starts only after the broadcast.
LEMMA WatcherOrders ==
    ASSUME ReconcileInv, NEW w \in Watchers, WatcherNext(w)
    PROVE  WatcherOrder' /\ CreatorOrder' /\ ReadyToken'
<1> USE DEF ReconcileInv
<1>t. imq \in Seq(ManagerMsg) /\ wphase \in [Watchers -> {"list", "found", "wait", "run"}]
  BY DEF TypeOK, ChannelsTypeOK, WatchersTypeOK
<1>f. ASSUME WatcherFrame
      PROVE  UNCHANGED <<watchersReady, released, icphase, creatorReady, known,
                         activated, deactivated, stage, todo>>
  BY <1>f DEF WatcherFrame, managerVars, startupVars, readyVars, stageVars,
              creatorVars, scanVars
<1>k. "Deployment" \in Watchers /\ "SDPService" \in Watchers
  BY DEF Watchers
<1>1. CASE WatcherList(w)
  <2>1. /\ wphase' = [wphase EXCEPT ![w] = "found"] /\ wphase[w] = "list"
        /\ UNCHANGED <<watchersReady, released, imq>>
    BY <1>1, <1>f DEF WatcherList
  <2>2. \A v \in Watchers : Notified(v)' <=> Notified(v)
    BY <1>t, <2>1 DEF Notified
  <2>3. \A v \in Watchers : Counted(v)' <=> Counted(v)
    BY <2>1, <2>2 DEF Counted
  <2>4. WatcherOrder'
    BY <1>t, <1>k, <2>1, <2>2, <2>3 DEF WatcherOrder
  <2>5. CreatorOrder' /\ ReadyToken'
    BY <1>1, <1>f, <1>t, CreatorOrderKept, ReadyTokenKept DEF WatcherList
  <2>6. QED BY <2>4, <2>5
<1>2. CASE WatcherNotify(w)
  <2> DEFINE e == DeploymentWatcherReady(w)
  <2>1. /\ wphase' = [wphase EXCEPT ![w] = "wait"] /\ wphase[w] = "found"
        /\ UNCHANGED <<watchersReady, released>>
        /\ imq' = Append(imq, e) /\ e \in ManagerMsg
        /\ e.type = "DeploymentWatcherReady"
    BY <1>2, <1>f, ManagerMessages, Kinds DEF WatcherNotify, SendToManager
  <2>2. /\ ~InQueue(imq, e) /\ Once(imq, e)
    BY <2>1 DEF WatcherOrder, InQueue, Once
  <2>3. \A v \in Watchers \ {w} : DeploymentWatcherReady(v) # e
    BY Kinds
  <2>4. /\ \A v \in Watchers \ {w} : Notified(v)' <=> Notified(v)
        /\ ~Notified(w) /\ Notified(w)'
    BY <1>t, <2>1 DEF Notified
  <2> HIDE DEF e
  <2>5. /\ \A v \in Watchers \ {w} : InQueue(imq', DeploymentWatcherReady(v))
              <=> InQueue(imq, DeploymentWatcherReady(v))
        /\ InQueue(imq', e)
    BY <1>t, <2>1, <2>3, ManagerAppend
  <2>6. \A v \in Watchers : Counted(v)' <=> Counted(v)
    BY <2>4, <2>5 DEF Counted, e
  <2>7. FollowedBy(imq', FoundCandidateMsg, WatcherReadyMsg)
    <3>1. e \in WatcherReadyMsg /\ e \notin FoundCandidateMsg
      BY <2>1, Kinds DEF e
    <3>2. QED BY <1>t, <2>1, <3>1, ManagerAppend
  <2>8. \A v \in Watchers : InQueue(imq', DeploymentWatcherReady(v)) =>
            wphase'[v] = "wait" /\ Once(imq', DeploymentWatcherReady(v))
    <3>1. Once(imq', e)
      BY <1>t, <2>1, <2>2, ManagerAppend
    <3>2. ASSUME NEW v \in Watchers \ {w},
                 InQueue(imq', DeploymentWatcherReady(v))
          PROVE  wphase'[v] = "wait" /\ Once(imq', DeploymentWatcherReady(v))
      <4>1. wphase[v] = "wait" /\ Once(imq, DeploymentWatcherReady(v))
        BY <2>5, <3>2 DEF WatcherOrder
      <4>2. Once(imq', DeploymentWatcherReady(v))
        BY <1>t, <2>1, <2>3, <4>1, ManagerAppend
      <4>3. QED BY <1>t, <2>1, <4>1, <4>2
    <3>3. QED BY <1>t, <2>1, <3>1, <3>2 DEF e
  <2>9. \A v \in Watchers : wphase'[v] = "run" => released'
    BY <1>t, <2>1 DEF WatcherOrder
  <2>10. WatcherOrder'
    BY <1>k, <2>1, <2>6, <2>7, <2>8, <2>9 DEF WatcherOrder
  <2>11. CreatorOrder' /\ ReadyToken'
    BY <1>2, <1>f, <1>t, <2>1, CreatorOrderKept, ReadyTokenKept
       DEF WatcherNotify
  <2>12. QED BY <2>10, <2>11
<1>3. CASE WatcherStart(w)
  <2>1. /\ wphase' = [wphase EXCEPT ![w] = "run"] /\ wphase[w] = "wait"
        /\ released
        /\ UNCHANGED <<watchersReady, released, imq>>
    BY <1>3, <1>f DEF WatcherStart
  <2>2. ~InQueue(imq, DeploymentWatcherReady(w))
    BY <2>1, AllCounted DEF ReadyToken
  <2>3. \A v \in Watchers : Notified(v)' <=> Notified(v)
    BY <1>t, <2>1 DEF Notified
  <2>4. \A v \in Watchers : Counted(v)' <=> Counted(v)
    BY <2>1, <2>3 DEF Counted
  <2>5. WatcherOrder'
    BY <1>t, <1>k, <2>1, <2>2, <2>3, <2>4 DEF WatcherOrder
  <2>6. CreatorOrder' /\ ReadyToken'
    BY <1>3, <1>f, <1>t, CreatorOrderKept, ReadyTokenKept DEF WatcherStart
  <2>7. QED BY <2>5, <2>6
<1>4. CASE WatcherRelist(w)
  BY <1>4, <1>f, OrderKept DEF WatcherRelist
<1>5. ASSUME NEW s \in Services, WatcherInitialized(w, s)
      PROVE  WatcherOrder' /\ CreatorOrder' /\ ReadyToken'
  <2>1. /\ ~Notified(w) /\ UNCHANGED wphase
        /\ \/ UNCHANGED imq
           \/ imq' = Append(imq, FoundServiceCandidate(s))
    BY <1>5 DEF WatcherInitialized, SendToManager, Notified
  <2>2. WatcherFrame
    BY <1>5 DEF WatcherInitialized
  <2> DEFINE m == FoundServiceCandidate(s)
  <2>3. m \in ManagerMsg /\ m.type = "FoundServiceCandidate"
    BY Kinds, ManagerMessages
  <2> HIDE DEF m
  <2>4. UNCHANGED imq \/ imq' = Append(imq, m)
    BY <2>1 DEF m
  <2>5. WatcherOrder'
    BY <1>f, <1>t, <2>1, <2>2, <2>3, <2>4, WatcherOrderKept
  <2>6. CreatorOrder'
    BY <1>f, <1>t, <2>2, <2>3, <2>4, CreatorOrderKept
  <2>7. ReadyToken'
    BY <1>f, <1>t, <2>2, <2>3, <2>4, ReadyTokenKept
  <2>8. QED BY <2>5, <2>6, <2>7
<1>6. ASSUME NEW s \in Services, WatcherApply(w, s)
      PROVE  WatcherOrder' /\ CreatorOrder' /\ ReadyToken'
  <2> DEFINE m == [type |-> "RequestServiceIdentity", s |-> s]
  <2>1. m \in ManagerMsg /\ m.type = "RequestServiceIdentity"
    BY ManagerMessages
  <2>2. /\ WatcherFrame /\ UNCHANGED wphase
        /\ UNCHANGED imq \/ imq' = Append(imq, m)
    BY <1>6 DEF WatcherApply, WatcherEvent, SendToManager
  <2> HIDE DEF m
  <2>3. QED BY <1>f, <2>1, <2>2, OrderKept
<1>7. ASSUME NEW s \in Services, WatcherDelete(w, s)
      PROVE  WatcherOrder' /\ CreatorOrder' /\ ReadyToken'
  <2> DEFINE m == [type |-> "DeletedServiceCandidate", s |-> s]
  <2>1. m \in ManagerMsg /\ m.type = "DeletedServiceCandidate"
    BY ManagerMessages
  <2>2. /\ WatcherFrame /\ UNCHANGED wphase
        /\ UNCHANGED imq \/ imq' = Append(imq, m)
    BY <1>7 DEF WatcherDelete, WatcherEvent, SendToManager
  <2> HIDE DEF m
  <2>3. QED BY <1>f, <2>1, <2>2, OrderKept
<1>8. QED
  BY <1>1, <1>2, <1>3, <1>4, <1>5, <1>6, <1>7 DEF WatcherNext

\* Short queues of pending sends, element by element.
LEMMA ShortQueues ==
    /\ \A m : ~InQueue(<<>>, m)
    /\ \A x, m : x # m => ~InQueue(<<x>>, m)
    /\ \A x, y, m : x # m /\ y # m => ~InQueue(<<x>> \o <<y>>, m)
    /\ \A y, m : y # m => ~InQueue(<<>> \o <<y>>, m)
    /\ \A m : ToCreator(m) # ToManager(IdentityManagerReady)
<1>1. \A m : ToCreator(m) # ToManager(IdentityManagerReady)
  <2>1. \A m : ToCreator(m).to = "creator"
    BY DEF ToCreator
  <2>2. ToManager(IdentityManagerReady).to = "manager"
    BY DEF ToManager
  <2>3. QED BY <2>1, <2>2
<1>2. /\ \A m : ~InQueue(<<>>, m)
      /\ \A x, m : x # m => ~InQueue(<<x>>, m)
      /\ \A y, m : y # m => ~InQueue(<<>> \o <<y>>, m)
  BY DEF InQueue
<1>3. ASSUME NEW x, NEW y, NEW m, x # m, y # m
      PROVE  ~InQueue(<<x>> \o <<y>>, m)
  <2>1. <<x>> \in Seq({x, y}) /\ <<y>> \in Seq({x, y})
    OBVIOUS
  <2>2. /\ Len(<<x>> \o <<y>>) = 2
        /\ (<<x>> \o <<y>>)[1] = x /\ (<<x>> \o <<y>>)[2] = y
    BY <2>1
  <2>3. QED BY <1>3, <2>2 DEF InQueue
<1>4. QED BY <1>1, <1>2, <1>3

\* Requests and deletions of identities only make the manager write to the
\* creator.
LEMMA IdentitySends ==
    /\ \A s : RequestIdentity(s) =>
          todo' = todo \/ ~InQueue(todo', ToManager(IdentityManagerReady))
    /\ \A s, u : DeleteIdentity(s, u) =>
          todo' = todo \/ ~InQueue(todo', ToManager(IdentityManagerReady))
<1>1. ASSUME NEW s, RequestIdentity(s), todo' # todo
      PROVE  ~InQueue(todo', ToManager(IdentityManagerReady))
  <2> DEFINE x == ToCreator([type |-> "CreateIdentity"])
             y == ToCreator([type |-> "ActivateServiceUser",
                             s |-> s, u |-> Head(pool)])
  <2>1. todo' = <<x>> \o <<y>> \/ todo' = <<>> \o <<y>>
    BY <1>1 DEF RequestIdentity
  <2>2. x # ToManager(IdentityManagerReady) /\ y # ToManager(IdentityManagerReady)
    BY ShortQueues
  <2> HIDE DEF x, y
  <2>3. QED BY <2>1, <2>2, ShortQueues
<1>2. ASSUME NEW s, NEW u, DeleteIdentity(s, u), todo' # todo
      PROVE  ~InQueue(todo', ToManager(IdentityManagerReady))
  <2> DEFINE x == ToCreator([type |-> "DeleteServiceUser", s |-> s, u |-> u])
  <2>1. todo' = <<x>>
    BY <1>2 DEF DeleteIdentity
  <2>2. x # ToManager(IdentityManagerReady)
    BY ShortQueues
  <2> HIDE DEF x
  <2>3. QED BY <2>1, <2>2, ShortQueues
<1>3. QED BY <1>1, <1>2

\* The steps of the Identity Manager other than the reconciliation: the last of
\* the three announcements, and only it, leads to IdentityManagerReady.
LEMMA HandlerOrders ==
    ASSUME ReconcileInv,
           \/ ManagerInitialize
           \/ ManagerSendNext
           \/ identity_creator_ready
           \/ \E w \in Watchers : deployment_watcher_ready(w)
           \/ \E s \in Services :
                 \/ found_service_candidate(s) \/ request_service_identity(s)
                 \/ deleted_service_candidate(s) \/ release_device_id(s)
           \/ \E u \in Users, on \in BOOLEAN : found_service_user(u, on)
           \/ \E s \in Services, u \in Users :
                 delete_service_identity(s, u) \/ activated_service_user(s, u)
    PROVE  WatcherOrder' /\ CreatorOrder' /\ ReadyToken'
<1> USE DEF ReconcileInv
<1> DEFINE Goal == WatcherOrder' /\ CreatorOrder' /\ ReadyToken'
           Ready == ToManager(IdentityManagerReady)
<1>t. /\ imq \in Seq(ManagerMsg) /\ todo \in Seq(ManagerSend)
      /\ watchersReady \in Nat
  BY DEF TypeOK, ChannelsTypeOK, ManagerTypeOK
<1>f. ASSUME ManagerFrame PROVE UNCHANGED <<wphase, icphase, known>>
  BY <1>f DEF ManagerFrame, watcherVars, creatorVars, scanVars
<1>r. ASSUME NEW m, Receive(m)
      PROVE  /\ imq # <<>> /\ m = Head(imq) /\ imq' = Tail(imq)
             /\ todo = <<>> /\ stage = "none" /\ InQueue(imq, m)
  <2>1. /\ imq # <<>> /\ m = Head(imq) /\ imq' = Tail(imq)
        /\ todo = <<>> /\ stage = "none"
    BY <1>r DEF Receive, Idle
  <2>2. QED BY <1>t, <2>1, ManagerTail
<1>e. <<>> # SelfReady /\ ~InQueue(<<>>, Ready)
  BY ShortQueues DEF SelfReady
\* A handler of a message about none of the announcements.
<1>o. ASSUME NEW m, Receive(m),
             m.type \notin {"DeploymentWatcherReady", "FoundServiceUser",
                            "IdentityCreatorReady", "IdentityManagerReady"},
             ManagerFrame,
             UNCHANGED <<released, readyVars, activated, deactivated, stage>>,
             todo' = todo \/ ~InQueue(todo', Ready)
      PROVE  Goal
  BY <1>e, <1>f, <1>o, <1>r, OrderKept DEF readyVars
<1>1. CASE ManagerInitialize
  BY <1>1, <1>f, OrderKept DEF ManagerInitialize, startupVars, readyVars, stageVars
<1>2. CASE ManagerSendNext
  <2>1. /\ todo # <<>> /\ todo' = Tail(todo)
        /\ UNCHANGED <<wphase, watchersReady, released, icphase, creatorReady,
                       known, activated, deactivated, stage>>
    BY <1>2, <1>f DEF ManagerSendNext, startupVars, readyVars, stageVars
  <2>2. Head(todo) \in ManagerSend /\ Tail(todo) \in Seq(ManagerSend)
    BY <1>t, <2>1
  <2>3. \A x : InQueue(todo, x) <=> Head(todo) = x \/ InQueue(todo', x)
    BY <1>t, <2>1, TailFacts
  <2>4. CASE todo = SelfReady
    <3>1. Head(todo) = Ready /\ todo' = <<>>
      BY <2>1, <2>4 DEF SelfReady
    <3>2. imq' = Append(imq, IdentityManagerReady)
      BY <1>2, <3>1 DEF ManagerSendNext, SendToManager, ToManager
    <3>3. /\ IdentityManagerReady \in ManagerMsg
          /\ IdentityManagerReady.type = "IdentityManagerReady"
      BY ManagerMessages, Kinds
    <3>4. WatcherOrder'
      BY <1>t, <2>1, <3>2, <3>3, WatcherOrderKept
    <3>5. CreatorOrder'
      BY <1>t, <2>1, <3>2, <3>3, CreatorOrderKept
    <3>6. ~InQueue(imq, IdentityManagerReady)
      BY <2>4 DEF ReadyToken, ReadyQueued, ReadyPending
    <3>7. Once(imq', IdentityManagerReady)
      BY <1>t, <3>2, <3>3, <3>6, ManagerAppend DEF ReadyToken
    <3>8. ReadyToken'
      BY <1>e, <2>1, <2>4, <3>1, <3>7
         DEF ReadyToken, ReadyQueued, ReadyPending, SelfReady
    <3>9. QED BY <3>4, <3>5, <3>8
  <2>5. CASE todo # SelfReady
    <3>1. Head(todo) # Ready /\ ~InQueue(todo', Ready)
      BY <2>3, <2>5 DEF ReadyToken
    <3>2. CASE Head(todo).to = "creator" /\ UNCHANGED imq
      BY <2>1, <2>5, <3>1, <3>2, OrderKept
    <3>3. CASE Head(todo).to = "manager" /\ imq' = Append(imq, Head(todo).m)
      <4>1. Head(todo).m # IdentityManagerReady
        BY <2>2, <3>1, <3>3 DEF ManagerSend, ToManager
      <4>2. /\ Head(todo).m \in ManagerMsg
            /\ Head(todo).m.type = "DeleteServiceIdentity"
        BY <2>2, <3>3, <4>1, PendingSends, OtherKinds
      <4>3. QED BY <2>1, <2>5, <3>1, <3>3, <4>2, OrderKept
    <3>4. QED BY <1>2, <3>2, <3>3 DEF ManagerSendNext, SendToManager
  <2>6. QED BY <2>4, <2>5
<1>3. CASE identity_creator_ready
  <2>1. /\ imq # <<>> /\ imq' = Tail(imq) /\ Head(imq) = IdentityCreatorReady
        /\ stage = "none" /\ todo = <<>> /\ InQueue(imq, IdentityCreatorReady)
        /\ creatorReady' = TRUE
        /\ todo' = IF watchersReady = N_WATCHERS THEN SelfReady ELSE <<>>
        /\ UNCHANGED <<wphase, watchersReady, released, icphase, known,
                       activated, deactivated, stage>>
    BY <1>3, <1>f, <1>r DEF identity_creator_ready, ReadyIf, startupVars, stageVars
  <2>2. IdentityCreatorReady.type = "IdentityCreatorReady"
    BY Kinds
  <2>3. WatcherOrder'
    BY <1>t, <2>1, <2>2, WatcherOrderKept
  <2>4. icphase = "run" /\ ~creatorReady /\ Once(imq, IdentityCreatorReady)
    BY <2>1 DEF CreatorOrder
  <2>5. ~InQueue(imq', IdentityCreatorReady)
    BY <1>t, <2>1, <2>4, ManagerTail
  <2>6. ASSUME NEW u, Reported(u) PROVE Reported(u)'
    <3>1. Head(imq) \notin UserReports(u)
      BY <2>1, <2>2, Kinds
    <3>2. QED BY <1>t, <2>1, <2>4, <2>6, <3>1, ManagerTail DEF Reported
  <2>7. CreatorOrder'
    BY <2>1, <2>4, <2>5, <2>6 DEF CreatorOrder
  <2>8. ~ReadyQueued /\ ~released
    BY <2>4 DEF ReadyToken
  <2>9. ~ReadyQueued'
    BY <1>t, <2>1, <2>8, ManagerTail DEF ReadyQueued
  <2>10. Once(imq', IdentityManagerReady)
    BY <1>t, <2>1, ManagerTail DEF ReadyToken
  <2>11. ReadyToken'
    BY <1>e, <2>1, <2>8, <2>9, <2>10 DEF ReadyToken, ReadyPending, SelfReady
  <2>12. QED BY <2>3, <2>7, <2>11
<1>4. ASSUME NEW w \in Watchers, deployment_watcher_ready(w) PROVE Goal
  <2> DEFINE e == DeploymentWatcherReady(w)
  <2>1. /\ imq # <<>> /\ imq' = Tail(imq) /\ Head(imq) = e
        /\ stage = "none" /\ todo = <<>> /\ InQueue(imq, e)
        /\ watchersReady' = watchersReady + 1
        /\ todo' = IF watchersReady + 1 = N_WATCHERS /\ creatorReady
                   THEN SelfReady ELSE <<>>
        /\ UNCHANGED <<wphase, creatorReady, released, icphase, known,
                       activated, deactivated, stage>>
    BY <1>4, <1>f, <1>r DEF deployment_watcher_ready, ReadyIf, startupVars, stageVars
  <2>2. /\ e.type = "DeploymentWatcherReady"
        /\ \A v \in Watchers \ {w} : DeploymentWatcherReady(v) # e
    BY Kinds
  <2>3. CreatorOrder'
    <3>1. \A u \in known : Head(imq) \notin UserReports(u)
      BY <2>1, <2>2, Kinds
    <3> HIDE DEF e
    <3>2. QED BY <1>t, <2>1, <2>2, <3>1, CreatorOrderKept
  <2>4. wphase[w] = "wait" /\ Once(imq, e)
    BY <2>1 DEF WatcherOrder
  <2>5. ~InQueue(imq', e)
    BY <1>t, <2>1, <2>4, ManagerTail
  <2>6. \A v \in Watchers \ {w} : InQueue(imq', DeploymentWatcherReady(v))
            <=> InQueue(imq, DeploymentWatcherReady(v))
    BY <1>t, <2>1, <2>2, ManagerTail
  <2>7. \A v \in Watchers : Notified(v)' <=> Notified(v)
    BY <2>1 DEF Notified
  <2>8. /\ ~Counted(w) /\ Counted(w)'
        /\ \A v \in Watchers \ {w} : Counted(v)' <=> Counted(v)
    BY <2>1, <2>4, <2>5, <2>6, <2>7 DEF Counted, Notified
  <2>9. \A v \in Watchers : InQueue(imq', DeploymentWatcherReady(v)) =>
            wphase'[v] = "wait" /\ Once(imq', DeploymentWatcherReady(v))
    BY <1>t, <2>1, <2>5, <2>6, ManagerTail DEF WatcherOrder
  <2>10. (\A v \in Watchers : Notified(v)') =>
             FollowedBy(imq', FoundCandidateMsg, WatcherReadyMsg)
    BY <1>t, <2>1, <2>7, ManagerTail DEF WatcherOrder
  <2>11. watchersReady' = (IF Counted("Deployment")' THEN 1 ELSE 0)
                          + (IF Counted("SDPService")' THEN 1 ELSE 0)
    BY <2>1, <2>8 DEF WatcherOrder, Watchers
  <2>12. WatcherOrder'
    BY <2>1, <2>9, <2>10, <2>11 DEF WatcherOrder
  <2>13. watchersReady # N_WATCHERS
    BY <2>1, AllCounted
  <2>14. ~ReadyQueued /\ ~released
    BY <2>13 DEF ReadyToken
  <2>15. ~ReadyQueued'
    BY <1>t, <2>1, <2>14, ManagerTail DEF ReadyQueued
  <2>16. Once(imq', IdentityManagerReady)
    BY <1>t, <2>1, ManagerTail DEF ReadyToken
  <2>17. ReadyToken'
    BY <1>e, <2>1, <2>14, <2>15, <2>16 DEF ReadyToken, ReadyPending, SelfReady
  <2>18. QED BY <2>3, <2>12, <2>17
<1>5. ASSUME NEW s \in Services, found_service_candidate(s) PROVE Goal
  BY <1>5, <1>o, Kinds DEF found_service_candidate, stageVars
<1>6. ASSUME NEW s \in Services, request_service_identity(s) PROVE Goal
  BY <1>6, <1>o, IdentitySends
     DEF request_service_identity, startupVars, stageVars
<1>7. ASSUME NEW s \in Services, deleted_service_candidate(s) PROVE Goal
  <2> DEFINE x == ToManager([type |-> "DeleteServiceIdentity",
                             s |-> s, u |-> services[s]])
  <2>1. x # Ready
    BY Kinds DEF ToManager
  <2>2. todo' = <<x>> \/ todo' = <<>>
    BY <1>7 DEF deleted_service_candidate, DeletionOf
  <2> HIDE DEF x
  <2>3. ~InQueue(todo', Ready)
    BY <2>1, <2>2, ShortQueues
  <2>4. QED BY <1>7, <1>o, <2>3
            DEF deleted_service_candidate, startupVars, stageVars
<1>8. ASSUME NEW s \in Services, release_device_id(s) PROVE Goal
  <2> DEFINE x == ToCreator([type |-> "ReleaseDeviceId", u |-> services[s]])
  <2>1. x # Ready
    BY ShortQueues
  <2>2. todo' = <<x>> \/ todo' = todo
    BY <1>8 DEF release_device_id
  <2> HIDE DEF x
  <2>3. todo' = todo \/ ~InQueue(todo', Ready)
    BY <2>1, <2>2, ShortQueues
  <2>4. QED BY <1>8, <1>o, <2>3 DEF release_device_id, startupVars, stageVars
<1>9. ASSUME NEW u \in Users, NEW on \in BOOLEAN, found_service_user(u, on)
      PROVE  Goal
  <2> DEFINE m == FoundServiceUser(u, on)
  <2>1. Receive(m) /\ ManagerFrame
    BY <1>9 DEF found_service_user
  <2>2. /\ UNCHANGED <<watchersReady, creatorReady, released, todo, stage>>
        /\ activated \subseteq activated' /\ deactivated \subseteq deactivated'
        /\ u \in activated' \cup deactivated'
    <3>1. IF on THEN activated' = activated \cup {u} /\ UNCHANGED deactivated
                ELSE deactivated' = deactivated \cup {u} /\ UNCHANGED activated
      BY <1>9, Zenon DEF found_service_user
    <3>2. UNCHANGED <<watchersReady, creatorReady, released, todo, stage>>
      BY <1>9 DEF found_service_user, readyVars, stageVars
    <3>3. QED BY <3>1, <3>2
  <2>3. m.type = "FoundServiceUser" /\ m.u = u
    BY DEF FoundServiceUser
  <2>4. \A v : m \in UserReports(v) => v = u
    BY <2>3, Kinds
  <2> HIDE DEF m
  <2>5. WatcherOrder'
    BY <1>f, <1>r, <1>t, <2>1, <2>2, <2>3, WatcherOrderKept
  <2>6. CreatorOrder'
    BY <1>f, <1>r, <1>t, <2>1, <2>2, <2>3, <2>4, CreatorOrderKept
  <2>7. ReadyToken'
    BY <1>r, <1>t, <2>1, <2>2, <2>3, ReadyTokenKept
  <2>8. QED BY <2>5, <2>6, <2>7
<1>10. ASSUME NEW s \in Services, NEW u \in Users, delete_service_identity(s, u)
       PROVE  Goal
  BY <1>10, <1>o, IdentitySends
     DEF delete_service_identity, startupVars, stageVars
<1>11. ASSUME NEW s \in Services, NEW u \in Users, activated_service_user(s, u)
       PROVE  Goal
  BY <1>11, <1>o DEF activated_service_user, startupVars, stageVars
<1>12. QED
  BY <1>1, <1>2, <1>3, <1>4, <1>5, <1>6, <1>7, <1>8, <1>9, <1>10, <1>11

\* The steps of the reconciliation: it consumes IdentityManagerReady and ends
\* with the broadcast.
LEMMA ReconcileOrders ==
    ASSUME ReconcileInv,
           \/ ReconcileStart
           \/ ReconcileExtraDone \/ ReconcileUsersDone \/ ReconcileStaleDone
           \/ \E s \in Services : ReconcileDelete(s) \/ ReconcileMissing(s)
           \/ \E u \in Users : ReconcileUser(u)
           \/ ReconcileDone
    PROVE  WatcherOrder' /\ CreatorOrder' /\ ReadyToken'
<1> USE DEF ReconcileInv
<1> DEFINE Goal == WatcherOrder' /\ CreatorOrder' /\ ReadyToken'
           Ready == ToManager(IdentityManagerReady)
<1>t. imq \in Seq(ManagerMsg)
  BY DEF TypeOK, ChannelsTypeOK
<1>f. ASSUME ManagerFrame PROVE UNCHANGED <<wphase, icphase, known>>
  BY <1>f DEF ManagerFrame, watcherVars, creatorVars, scanVars
<1>e. <<>> # SelfReady /\ ~InQueue(<<>>, Ready)
  BY ShortQueues DEF SelfReady
\* A step within the reconciliation.
<1>o. ASSUME ManagerFrame, stage # "none", stage' # "none", todo = <<>>,
             UNCHANGED <<imq, released, readyVars, startupVars>>,
             todo' = todo \/ ~InQueue(todo', Ready)
      PROVE  Goal
  BY <1>e, <1>f, <1>o, OrderKept DEF readyVars, startupVars
<1>1. CASE ReconcileStart
  <2>1. /\ imq # <<>> /\ imq' = Tail(imq) /\ Head(imq) = IdentityManagerReady
        /\ todo = <<>> /\ todo' = <<>> /\ stage' = "extra"
        /\ UNCHANGED <<wphase, watchersReady, released, icphase, creatorReady,
                       known, activated, deactivated>>
    BY <1>1, <1>f DEF ReconcileStart, Receive, Idle, startupVars, readyVars
  <2>2. IdentityManagerReady.type = "IdentityManagerReady"
    BY Kinds
  <2>3. WatcherOrder'
    BY <1>t, <2>1, <2>2, WatcherOrderKept
  <2>4. CreatorOrder'
    <3>1. \A u \in known : Head(imq) \notin UserReports(u)
      BY <2>1, <2>2, Kinds
    <3>2. QED BY <1>t, <2>1, <2>2, <3>1, CreatorOrderKept
  <2>5. /\ ReadyQueued /\ Once(imq, IdentityManagerReady)
        /\ Once(imq', IdentityManagerReady)
    BY <1>t, <2>1, ManagerTail DEF ReadyQueued, ReadyToken
  <2>6. ~ReadyQueued'
    BY <1>t, <2>1, <2>5, ManagerTail DEF ReadyQueued
  <2>7. ReadyToken'
    BY <1>e, <2>1, <2>5, <2>6 DEF ReadyToken, ReadyPending, SelfReady
  <2>8. QED BY <2>3, <2>4, <2>7
<1>2. CASE ReconcileExtraDone
  BY <1>2, <1>o DEF ReconcileExtraDone, InStage
<1>3. CASE ReconcileUsersDone
  BY <1>3, <1>o DEF ReconcileUsersDone, InStage
<1>4. CASE ReconcileStaleDone
  BY <1>4, <1>o DEF ReconcileStaleDone, InStage
<1>5. ASSUME NEW s \in Services, ReconcileDelete(s) PROVE Goal
  BY <1>5, <1>o, IdentitySends DEF ReconcileDelete, InStage
<1>6. ASSUME NEW s \in Services, ReconcileMissing(s) PROVE Goal
  BY <1>6, <1>o, IdentitySends DEF ReconcileMissing, InStage
<1>7. ASSUME NEW u \in Users, ReconcileUser(u) PROVE Goal
  BY <1>7, <1>o DEF ReconcileUser, InStage
<1>8. CASE ReconcileDone
  <2>1. /\ stage = "missing" /\ stage' = "none" /\ released' = TRUE
        /\ UNCHANGED <<imq, todo, wphase, watchersReady, icphase, creatorReady,
                       known, activated, deactivated>>
    BY <1>8, <1>f DEF ReconcileDone, InStage, startupVars, readyVars
  <2>2. WatcherOrder'
    BY <1>t, <2>1, WatcherOrderKept
  <2>3. CreatorOrder'
    BY <1>t, <2>1, CreatorOrderKept
  <2>4. ReadyToken'
    BY <2>1 DEF ReadyToken, ReadyQueued, ReadyPending, SelfReady
  <2>5. QED BY <2>2, <2>3, <2>4
<1>9. QED BY <1>1, <1>2, <1>3, <1>4, <1>5, <1>6, <1>7, <1>8

\* The steps of the Identity Creator: the reports of recovered users go ahead
\* of IdentityCreatorReady.
LEMMA CreatorOrders ==
    ASSUME ReconcileInv, CreatorNext
    PROVE  WatcherOrder' /\ CreatorOrder' /\ ReadyToken'
<1> USE DEF ReconcileInv
<1> DEFINE Goal == WatcherOrder' /\ CreatorOrder' /\ ReadyToken'
<1>t. imq \in Seq(ManagerMsg) /\ ictodo \in Seq(CreatorStep)
  BY DEF TypeOK, ChannelsTypeOK, CreatorTypeOK
<1>f. ASSUME CreatorFrame
      PROVE  UNCHANGED <<wphase, watchersReady, released, creatorReady,
                         activated, deactivated, todo, stage>>
  BY <1>f DEF CreatorFrame, watcherVars, managerVars, startupVars, readyVars,
              stageVars
\* A step that sends nothing and reports nothing.
<1>o. ASSUME CreatorFrame, UNCHANGED <<imq, icphase, known>> PROVE Goal
  BY <1>f, <1>o, OrderKept
\* WatcherOrder and ReadyToken do not depend on the creator's state.
<1>w. ASSUME CreatorFrame,
             \/ imq' = imq
             \/ \E m \in ManagerMsg :
                   /\ imq' = Append(imq, m)
                   /\ m.type \in {"FoundServiceUser", "IdentityCreatorReady"}
      PROVE  WatcherOrder' /\ ReadyToken'
  <2>1. WatcherOrder'
    BY <1>f, <1>t, <1>w, WatcherOrderKept
  <2>2. ReadyToken'
    BY <1>f, <1>t, <1>w, ReadyTokenKept
  <2>3. QED BY <2>1, <2>2
<1>1. CASE CreatorStart
  <2>1. /\ CreatorFrame /\ UNCHANGED imq /\ icphase = "wait"
        /\ \/ icphase' = "scan" /\ known' = {}
           \/ UNCHANGED <<icphase, known>>
    BY <1>1 DEF CreatorStart, scanVars
  <2>2. CASE icphase' = "scan" /\ known' = {}
    <3>1. CreatorOrder'
      BY <1>f, <2>1, <2>2 DEF CreatorOrder
    <3>2. QED BY <1>w, <2>1, <3>1
  <2>3. QED BY <1>o, <2>1, <2>2
<1>2. ASSUME NEW u \in Users, CreatorScan(u) PROVE Goal
  <2>1. CreatorFrame /\ UNCHANGED icphase /\ icphase = "scan"
    BY <1>2 DEF CreatorScan
  <2>2. CASE UNCHANGED <<imq, known>>
    BY <1>o, <2>1, <2>2
  <2>3. CASE /\ known' = known \cup {u}
             /\ imq' = Append(imq, FoundServiceUser(u, sdp[u] = "enabled"))
    <3> DEFINE m == FoundServiceUser(u, sdp[u] = "enabled")
    <3>1. m \in ManagerMsg /\ m \in UserReports(u) /\ m.type = "FoundServiceUser"
      <4>1. (sdp[u] = "enabled") = TRUE \/ (sdp[u] = "enabled") = FALSE
        OBVIOUS
      <4>2. m = FoundServiceUser(u, TRUE) \/ m = FoundServiceUser(u, FALSE)
        BY <4>1, Zenon
      <4>3. /\ FoundServiceUser(u, TRUE) \in ManagerMsg
            /\ FoundServiceUser(u, FALSE) \in ManagerMsg
        BY ManagerMessages, Zenon
      <4> HIDE DEF m
      <4>4. m \in ManagerMsg
        BY <4>2, <4>3, Zenon
      <4>5. m \in UserReports(u)
        BY <4>2 DEF UserReports
      <4>6. QED BY <4>4, <4>5, Kinds
    <3>2. imq' = Append(imq, m)
      BY <2>3
    <3> HIDE DEF m
    <3>3. WatcherOrder' /\ ReadyToken'
      BY <1>w, <2>1, <3>1, <3>2
    <3>4. ~InQueue(imq, IdentityCreatorReady) /\ ~creatorReady
      BY <2>1 DEF CreatorOrder
    <3>5. m # IdentityCreatorReady
      BY <3>1, Kinds
    <3>6. ~InQueue(imq', IdentityCreatorReady) /\ InQueue(imq', m)
      BY <1>t, <3>1, <3>2, <3>4, <3>5, ManagerAppend
    <3>7. Reported(u)'
      BY <2>1, <3>1, <3>6 DEF Reported
    <3>8. ASSUME NEW v \in known PROVE Reported(v)'
      <4>1. Reported(v)
        BY DEF CreatorOrder
      <4>2. QED BY <1>f, <1>t, <2>1, <3>1, <3>2, <4>1, ManagerAppend
                DEF Reported
    <3>9. CreatorOrder'
      BY <1>f, <2>1, <2>3, <3>4, <3>6, <3>7, <3>8 DEF CreatorOrder
    <3>10. QED BY <3>3, <3>9
  <2>4. QED BY <1>2, <2>2, <2>3 DEF CreatorScan, SendToManager
<1>3. CASE CreatorClean
  <2>1. /\ CreatorFrame /\ UNCHANGED <<imq, known>>
        /\ icphase = "scan" /\ icphase' = "fill"
    BY <1>3 DEF CreatorClean, scanVars
  <2>2. CreatorOrder'
    BY <1>f, <2>1 DEF CreatorOrder, Reported
  <2>3. QED BY <1>w, <2>1, <2>2
<1>4. CASE CreatorFill
  BY <1>4, <1>o DEF CreatorFill
<1>5. CASE CreatorReady
  <2>1. /\ CreatorFrame /\ UNCHANGED known
        /\ icphase = "fill" /\ icphase' = "run"
        /\ imq' = Append(imq, IdentityCreatorReady)
        /\ IdentityCreatorReady \in ManagerMsg
        /\ IdentityCreatorReady.type = "IdentityCreatorReady"
    BY <1>5, ManagerMessages, Kinds DEF CreatorReady, SendToManager, scanVars
  <2>2. ~InQueue(imq, IdentityCreatorReady) /\ ~creatorReady
    BY <2>1 DEF CreatorOrder
  <2>3. Once(imq', IdentityCreatorReady)
    <3>1. Once(imq, IdentityCreatorReady)
      BY <2>2 DEF InQueue, Once
    <3>2. QED BY <1>t, <2>1, <2>2, <3>1, ManagerAppend
  <2>4. ASSUME NEW u \in known PROVE Reported(u)'
    <3>1. u \in activated \cup deactivated
          \/ \E m \in UserReports(u) : InQueue(imq, m)
      BY <2>1 DEF CreatorOrder, Reported
    <3>2. QED BY <1>f, <1>t, <2>1, <3>1, ManagerAppend DEF Reported
  <2>5. CreatorOrder'
    BY <1>f, <2>1, <2>2, <2>3, <2>4 DEF CreatorOrder
  <2>6. QED BY <1>w, <2>1, <2>5
<1>6. CASE CreatorNotify
  <2>1. Head(ictodo) \in CreatorStep
    BY <1>6, <1>t DEF CreatorNotify
  <2>2. /\ CreatorFrame /\ UNCHANGED <<icphase, known>>
        /\ imq' = Append(imq, Head(ictodo).m) /\ Head(ictodo).op = "notify"
    BY <1>6 DEF CreatorNotify, SendToManager, scanVars
  <2>3. /\ Head(ictodo).m \in ManagerMsg
        /\ Head(ictodo).m.type \in {"FoundServiceUser", "ActivatedServiceUser"}
    BY <2>1, <2>2, PendingSteps, OtherKinds
  <2>4. QED BY <1>f, <2>2, <2>3, OrderKept
<1>7. CASE CreatorSecrets
  BY <1>7, <1>o DEF CreatorSecrets, scanVars
<1>8. CASE CreateIdentity
  BY <1>8, <1>o DEF CreateIdentity, scanVars
<1>9. ASSUME NEW s \in Services, NEW u \in Users, DeleteServiceUser(s, u)
      PROVE  Goal
  BY <1>9, <1>o DEF DeleteServiceUser, creatorVars, scanVars
<1>10. ASSUME NEW s \in Services, NEW u \in Users, ActivateServiceUser(s, u)
       PROVE  Goal
  BY <1>10, <1>o DEF ActivateServiceUser, scanVars
<1>11. ASSUME NEW u \in Users, DeleteSDPUser(u) PROVE Goal
  BY <1>11, <1>o DEF DeleteSDPUser, creatorVars, scanVars
<1>12. CASE CreatorDevices
  BY <1>12, <1>o DEF CreatorDevices, creatorVars, scanVars
<1>13. QED
  BY <1>1, <1>2, <1>3, <1>4, <1>5, <1>6, <1>7, <1>8, <1>9, <1>10, <1>11, <1>12
     DEF CreatorNext

\* A process that has just been started satisfies the invariant.
LEMMA FreshOrder ==
    ASSUME wphase = [w \in Watchers |-> "list"], released = FALSE, imq = <<>>,
           creatorReady = FALSE, watchersReady = 0, todo = <<>>,
           stage = "none", icphase = "wait", known = {}
    PROVE  WatcherOrder /\ CreatorOrder /\ ReadyToken
<1>1. /\ \A m : ~InQueue(imq, m) /\ Once(imq, m)
      /\ \A m : ~InQueue(todo, m)
      /\ todo # SelfReady
  BY DEF InQueue, Once, SelfReady
<1>2. \A w \in Watchers : ~Notified(w) /\ ~Counted(w)
  BY DEF Notified, Counted
<1>3. WatcherOrder
  BY <1>1, <1>2 DEF WatcherOrder, Watchers
<1>4. CreatorOrder
  BY <1>1 DEF CreatorOrder
<1>5. ReadyToken
  BY <1>1 DEF ReadyToken, ReadyQueued, ReadyPending
<1>6. QED BY <1>3, <1>4, <1>5

\* So does one that replaces a process that stopped.
LEMMA RestartOrders ==
    ASSUME Restart
    PROVE  WatcherOrder' /\ CreatorOrder' /\ ReadyToken'
<1>1. /\ \A m : ~InQueue(imq', m) /\ Once(imq', m)
      /\ \A m : ~InQueue(todo', m)
      /\ todo' # SelfReady
  BY DEF Restart, InQueue, Once, SelfReady
<1>2. \A w \in Watchers : ~Notified(w)' /\ ~Counted(w)' /\ wphase'[w] = "list"
  BY DEF Restart, Notified, Counted
<1>3. /\ watchersReady' = 0 /\ creatorReady' = FALSE /\ released' = FALSE
      /\ known' = {} /\ stage' = "none"
  BY DEF Restart
<1>4. WatcherOrder'
  BY <1>1, <1>2, <1>3 DEF WatcherOrder, Watchers
<1>5. CreatorOrder'
  BY <1>1, <1>3 DEF CreatorOrder
<1>6. ReadyToken'
  BY <1>1, <1>3 DEF ReadyToken, ReadyQueued, ReadyPending, SelfReady
<1>7. QED BY <1>4, <1>5, <1>6

\* The steps of the environment.
LEMMA EnvironmentOrders ==
    ASSUME ReconcileInv, EnvironmentNext
    PROVE  WatcherOrder' /\ CreatorOrder' /\ ReadyToken'
<1> DEFINE Goal == WatcherOrder' /\ CreatorOrder' /\ ReadyToken'
<1>o. ASSUME UNCHANGED <<watcherVars, released, managerVars, creatorVars>>
      PROVE  UNCHANGED <<wphase, watchersReady, released, icphase, creatorReady,
                         known, activated, deactivated, stage, todo>>
  BY <1>o DEF watcherVars, managerVars, startupVars, readyVars, stageVars,
              creatorVars, scanVars
<1>1. ASSUME NEW o \in Objects, ApplyObject(o[1], o[2]) PROVE Goal
  BY <1>1, <1>o, OrderKept DEF ApplyObject
<1>2. ASSUME NEW o \in Objects, DeleteObject(o[1], o[2]) PROVE Goal
  BY <1>2, <1>o, OrderKept DEF DeleteObject
<1>3. ASSUME NEW s \in Services, PodWatcherRelease(s) PROVE Goal
  <2> DEFINE m == [type |-> "ReleaseDeviceId", s |-> s]
  <2>1. m \in ManagerMsg /\ m.type = "ReleaseDeviceId"
    BY ManagerMessages
  <2>2. imq' = Append(imq, m)
    BY <1>3 DEF PodWatcherRelease, SendToManager
  <2> HIDE DEF m
  <2>3. QED BY <1>3, <1>o, <2>1, <2>2, OrderKept DEF PodWatcherRelease
<1>4. ASSUME NEW s \in Services, FlipLabel(s) PROVE Goal
  BY <1>4, <1>o, OrderKept DEF FlipLabel
<1>5. CASE Crash
  BY <1>5, RestartOrders DEF Crash
<1>6. CASE CreatorFillPanics
  BY <1>6, RestartOrders DEF CreatorFillPanics
<1>7. QED BY <1>1, <1>2, <1>3, <1>4, <1>5, <1>6 DEF EnvironmentNext

-----------------------------------------------------------------------------
\* AllExamined: only the watchers, and a restart, change what it is about.
LEMMA AllExaminedStep ==
    ASSUME ReconcileInv, [Next]_vars
    PROVE  AllExamined'
<1>t. /\ AllExamined
      /\ wphase \in [Watchers -> {"list", "found", "wait", "run"}]
      /\ listed \in [Watchers -> SUBSET Services]
  BY DEF ReconcileInv, TypeOK, WatchersTypeOK
<1>u. ASSUME UNCHANGED watcherVars PROVE AllExamined'
  BY <1>t, <1>u DEF watcherVars, AllExamined, Notified
<1>r. ASSUME Restart PROVE AllExamined'
  BY <1>r DEF Restart, AllExamined, Notified
<1>1. ASSUME NEW w \in Watchers, WatcherNext(w) PROVE AllExamined'
  <2> USE <1>t DEF AllExamined, Notified
  <2>1. CASE WatcherList(w)
    BY <2>1 DEF WatcherList
  <2>2. CASE WatcherNotify(w)
    BY <2>2 DEF WatcherNotify
  <2>3. CASE WatcherStart(w)
    BY <2>3 DEF WatcherStart
  <2>4. CASE WatcherRelist(w)
    BY <2>4 DEF WatcherRelist
  <2>5. ASSUME NEW s \in Services, WatcherInitialized(w, s) PROVE AllExamined'
    BY <2>5 DEF WatcherInitialized
  <2>6. ASSUME NEW s \in Services, WatcherApply(w, s) \/ WatcherDelete(w, s)
        PROVE  AllExamined'
    BY <2>6 DEF WatcherApply, WatcherDelete, WatcherEvent
  <2>7. QED BY <1>1, <2>1, <2>2, <2>3, <2>4, <2>5, <2>6 DEF WatcherNext
<1>2. CASE ManagerNext
  <2>1. ManagerFrame
    BY <1>2 DEF ManagerNext, ManagerInitialize, ManagerSendNext,
       found_service_candidate, request_service_identity,
       deleted_service_candidate, release_device_id, ReconcileDelete,
       ReconcileMissing, found_service_user, delete_service_identity,
       activated_service_user, identity_creator_ready,
       deployment_watcher_ready, ReconcileStart, ReconcileExtraDone,
       ReconcileUser, ReconcileUsersDone, ReconcileStaleDone, ReconcileDone
  <2>2. QED BY <1>u, <2>1 DEF ManagerFrame
<1>3. CASE CreatorNext
  <2>1. CreatorFrame
    BY <1>3 DEF CreatorNext, CreatorStart, CreatorScan, DeleteSDPUser,
       CreatorClean, CreatorFill, CreatorReady, CreatorNotify, CreatorSecrets,
       CreateIdentity, DeleteServiceUser, ActivateServiceUser, CreatorDevices
  <2>2. QED BY <1>u, <2>1 DEF CreatorFrame
<1>4. CASE EnvironmentNext
  BY <1>4, <1>u, <1>r DEF EnvironmentNext, ApplyObject, DeleteObject,
     PodWatcherRelease, FlipLabel, Crash, CreatorFillPanics
<1>5. CASE UNCHANGED vars
  BY <1>5, <1>u DEF vars
<1>6. QED BY <1>1, <1>2, <1>3, <1>4, <1>5 DEF Next

\* ReconcileInv holds initially.
LEMMA ReconcileInvInit == Init => ReconcileInv
<1> SUFFICES ASSUME Init PROVE ReconcileInv
  OBVIOUS
<1>1. AllExamined
  BY DEF Init, ProcessInit, AllExamined
<1>2. QED BY <1>1, TypeInit, FreshOrder DEF Init, ProcessInit, ReconcileInv

\* Every step keeps ReconcileInv.
LEMMA ReconcileInvStep == ReconcileInv /\ [Next]_vars => ReconcileInv'
<1> SUFFICES ASSUME ReconcileInv, [Next]_vars PROVE ReconcileInv'
  OBVIOUS
<1>1. TypeOK' /\ AllExamined'
  BY TypeStep, AllExaminedStep DEF ReconcileInv
<1>2. CASE \E w \in Watchers : WatcherNext(w)
  BY <1>1, <1>2, WatcherOrders DEF ReconcileInv
<1>3. CASE ManagerNext
  <2>1. WatcherOrder' /\ CreatorOrder' /\ ReadyToken'
    BY <1>3, HandlerOrders, ReconcileOrders DEF ManagerNext
  <2>2. QED BY <1>1, <2>1 DEF ReconcileInv
<1>4. CASE CreatorNext
  BY <1>1, <1>4, CreatorOrders DEF ReconcileInv
<1>5. CASE EnvironmentNext
  BY <1>1, <1>5, EnvironmentOrders DEF ReconcileInv
<1>6. CASE UNCHANGED vars
  <2>1. UNCHANGED <<imq, wphase, watchersReady, released, icphase, creatorReady,
                    known, activated, deactivated, stage, todo>>
    BY <1>6 DEF vars, watcherVars, managerVars, startupVars, readyVars,
                stageVars, creatorVars, scanVars
  <2>2. QED BY <1>1, <2>1, OrderKept DEF ReconcileInv
<1>7. QED BY <1>2, <1>3, <1>4, <1>5, <1>6 DEF Next

\* The invariant, of every behaviour.
THEOREM ReconcileInvariant == Spec => []ReconcileInv
<1>1. QED BY ReconcileInvInit, ReconcileInvStep, PTL DEF Spec

\* While identity_manager_ready runs, every listed candidate and every user
\* recovered by the creator has been recorded.
THEOREM ReconcileInformedAlways == Spec => []ReconcileInformed
<1>1. ReconcileInv => ReconcileInformed
  <2> SUFFICES ASSUME ReconcileInv, stage # "none" PROVE ReconcileInformed
    BY DEF ReconcileInformed
  <2> USE DEF ReconcileInv
  <2>1. watchersReady = N_WATCHERS /\ creatorReady /\ ~released
    BY DEF ReadyToken
  <2>2. \A w \in Watchers :
            Notified(w) /\ ~InQueue(imq, DeploymentWatcherReady(w))
    BY <2>1, AllCounted
  <2>3. \A w \in Watchers : wphase[w] = "wait" /\ listed[w] = {}
    BY <2>1, <2>2 DEF AllExamined, Notified, WatcherOrder
  <2>4. ASSUME NEW i \in 1..Len(imq), imq[i].type = "FoundServiceCandidate"
        PROVE  FALSE
    <3>1. imq \in Seq(ManagerMsg) /\ imq[i] \in ManagerMsg
      BY DEF TypeOK, ChannelsTypeOK
    <3>2. imq[i] \in FoundCandidateMsg
      BY <2>4, <3>1, Kinds, OtherKinds DEF ManagerMsg
    <3>3. PICK j \in 1..Len(imq) : imq[j] \in WatcherReadyMsg
      BY <2>2, <3>2 DEF WatcherOrder, FollowedBy
    <3>4. PICK w \in Watchers : imq[j] = DeploymentWatcherReady(w)
      BY <3>3, Kinds
    <3>5. QED BY <2>2, <3>4 DEF InQueue
  <2>5. icphase = "run"
    BY <2>1 DEF CreatorOrder
  <2>6. known \subseteq activated \cup deactivated
    <3>1. ~InQueue(imq, IdentityCreatorReady)
      BY <2>1 DEF CreatorOrder
    <3>2. QED BY <2>5, <3>1 DEF CreatorOrder, Reported, Ahead, InQueue
  <2>7. QED BY <2>3, <2>4, <2>5, <2>6 DEF ReconcileInformed
<1>2. QED BY <1>1, ReconcileInvariant, PTL

\* identity_manager_ready runs once per process.
THEOREM ReconcileOnceAlways == Spec => []ReconcileOnce
<1>1. ReconcileInv => ReconcileOnce
  BY SelfReadyQueue
     DEF ReconcileInv, ReconcileOnce, ReadyToken, ReadyQueued, ReadyPending
<1>2. QED BY <1>1, ReconcileInvariant, PTL
=============================================================================
