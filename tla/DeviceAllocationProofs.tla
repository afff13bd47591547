----------------------- MODULE DeviceAllocationProofs -----------------------
(***************************************************************************)
(* Three more results about the device ids of a service, for any number of *)
(* pods and devices: what is in the pool was released, also across         *)
(* restarts; what was released comes back to the pool, if nothing is lost; *)
(* and without restarts DeviceIds implements DeviceAllocation.             *)
(***************************************************************************)
EXTENDS DeviceIdsProofs

\* Ids of pods that have ended.
Ended == {d \in Devices : \E p \in Pods :
             dev[p] = d /\ pod[p] \in {"evicted", "gone"}}

\* ReleasedInv, in terms of Ended.
LEMMA ReleasedByEnded ==
    ReleasedInv <=> /\ DeviceTypeOK
                    /\ \A d \in Devices : d \in Carried \cup seen \cup free
                                              => d \in Ended
BY DEF ReleasedInv, Ended

\* A pod that has ended keeps its id, and stays ended.
LEMMA EndedGrows ==
    ASSUME DeviceTypeOK, [DeviceNext]_deviceVars
    PROVE  Ended \subseteq Ended'
<1> SUFFICES ASSUME NEW p \in Pods, pod[p] \in {"evicted", "gone"}
             PROVE  dev'[p] = dev[p] /\ pod'[p] \in {"evicted", "gone"}
  BY DEF Ended
<1>t. pod \in [Pods -> {"none", "asked", "patched", "running", "evicted", "gone"}]
      /\ dev \in [Pods -> Devices \cup {NoDevice}]
  BY DEF DeviceTypeOK
<1>1. CASE ManagerStep
  BY <1>1 DEF ManagerStep, CreateServiceIdentity, activated_service_user,
     release_device_id, ManagerFrame
<1>2. CASE CreatorStep
  BY <1>2 DEF CreatorStep, ActivateServiceUser, CreatorReleaseDeviceId, kubeVars
<1>3. CASE ProviderStep
  BY <1>3, <1>t DEF ProviderStep, register_or_update, unregister_service,
     DeviceIdNotFound, pop_device_id, kubeVars
<1>4. CASE \/ DeleteServiceIdentity \/ DeviceIdsCommand
           \/ IdentityServiceRestart \/ StreamRelist
  BY <1>4 DEF DeleteServiceIdentity, DeviceIdsCommand, IdentityServiceRestart,
     StreamRelist, kubeVars
<1>5. CASE InjectorRestart
  BY <1>5, <1>t DEF InjectorRestart
<1>6. ASSUME NEW q \in Pods, PodStep(q)
      PROVE  dev'[p] = dev[p] /\ pod'[p] \in {"evicted", "gone"}
  BY <1>6, <1>t DEF PodStep, RequestDeviceId, RequestTimeout, PodStarts,
     PodRejected, PodEvicted, PodDeleted
<1>7. CASE UNCHANGED deviceVars
  BY <1>7 DEF deviceVars, kubeVars
<1>8. QED BY <1>1, <1>2, <1>3, <1>4, <1>5, <1>6, <1>7 DEF DeviceNext

\* Nothing is released at the start.
LEMMA ReleasedInit == DeviceInit => ReleasedInv
BY DeviceTypeInit, DeviceConstants
   DEF DeviceInit, ReleasedInv, Carried, None

\* Every step keeps what is carried, seen and free among the ids of ended pods.
LEMMA ReleasedStep == ReleasedInv /\ [DeviceNext]_deviceVars => ReleasedInv'
<1> SUFFICES ASSUME ReleasedInv, [DeviceNext]_deviceVars
             PROVE  \A d \in Devices : d \in Carried' \cup seen' \cup free'
                                           => d \in Ended'
  BY DeviceTypeStep, ReleasedByEnded DEF ReleasedInv, Ended
<1>t. DeviceTypeOK /\ DeviceTypeOK' /\ Ended \subseteq Ended'
  BY DeviceTypeStep, EndedGrows DEF ReleasedInv
<1>q. /\ imq \in Seq(Message) /\ stream \in Seq(StreamEvent)
      /\ NoDevice \notin Devices
      /\ Carried \subseteq Devices /\ Carried' \subseteq Devices
  BY <1>t, DeviceConstants DEF DeviceTypeOK, Carried
<1>e. \A d \in Devices : d \in Carried \cup seen \cup free => d \in Ended
  BY ReleasedByEnded
<1>f. ASSUME Carried' \subseteq Carried, UNCHANGED storeVars
      PROVE  \A d \in Devices : d \in Carried' \cup seen' \cup free'
                                    => d \in Ended'
  BY <1>f, <1>t, <1>e DEF storeVars
<1>a. ASSUME NEW ids \in SUBSET Devices, stream' = Append(stream, Event(ids))
      PROVE  \A i \in 1..Len(stream') :
                \/ stream'[i].ids = ids
                \/ (i \in 1..Len(stream) /\ stream'[i] = stream[i])
  <2>1. Event(ids) \in StreamEvent /\ Event(ids).ids = ids
    BY MessageTypes DEF Event
  <2>2. \A i \in 1..Len(stream') :
           stream'[i] = Event(ids) \/ (i \in 1..Len(stream) /\ stream'[i] = stream[i])
    BY <1>a, <1>q, <2>1, AppendElements
  <2>3. QED BY <2>1, <2>2
<1>m. ASSUME imq # <<>>, imq' = Tail(imq)
      PROVE  /\ Head(imq).ids \in SUBSET Devices
             /\ \A d \in Devices :
                   \/ d \in Head(imq).ids
                   \/ \E i \in 1..Len(imq') : d \in imq'[i].ids
                   => \E i \in 1..Len(imq) : d \in imq[i].ids
  BY <1>m, <1>q, TailElements, MessageTypes
<1>1. CASE CreateServiceIdentity
  <2>1. /\ identity' = {} /\ imq' = imq /\ UNCHANGED storeVars
        /\ \/ crd' = {} /\ stream' = Append(stream, Event({}))
           \/ UNCHANGED <<crd, stream>>
    BY <1>1 DEF CreateServiceIdentity
  <2>2. Carried' \subseteq Carried BY <1>a, <2>1 DEF Carried
  <2>3. QED BY <1>f, <2>1, <2>2
<1>2. CASE activated_service_user \/ release_device_id
  <2>1. imq # <<>> /\ imq' = Tail(imq) /\ UNCHANGED storeVars
    BY <1>2 DEF activated_service_user, release_device_id, Receive, ManagerFrame
  <2>2. /\ identity' \in {identity, Head(imq).ids, identity \cup Head(imq).ids}
        /\ identity = None => identity' = None
        /\ \/ UNCHANGED <<crd, stream>>
           \/ /\ identity # None /\ crd' = identity'
              /\ stream' = Append(stream, Event(identity'))
    BY <1>2 DEF activated_service_user, release_device_id, Update, UpdateFails
  <2>3. \A d \in Devices : d \in identity' => d \in Carried
    BY <1>m, <2>1, <2>2 DEF Carried
  <2>4. CASE UNCHANGED <<crd, stream>>
    <3>1. Carried' \subseteq Carried BY <1>m, <2>1, <2>3, <2>4 DEF Carried
    <3>2. QED BY <1>f, <2>1, <3>1
  <2>5. CASE /\ identity # None /\ crd' = identity'
             /\ stream' = Append(stream, Event(identity'))
    <3>1. identity' \in SUBSET Devices
      BY <1>t, <1>m, <2>1, <2>2, <2>5 DEF DeviceTypeOK
    <3>2. Carried' \subseteq Carried
      BY <1>a, <1>m, <2>1, <2>3, <2>5, <3>1 DEF Carried
    <3>3. QED BY <1>f, <2>1, <3>2
  <2>6. QED BY <2>2, <2>4, <2>5
<1>3. CASE CreatorStep
  <2>1. CASE ActivateServiceUser
    <3>1. /\ imq' = Append(imq, Activated) /\ UNCHANGED storeVars
          /\ UNCHANGED <<crd, identity, stream>>
      BY <2>1 DEF ActivateServiceUser, kubeVars, injectorVars
    <3>2. Activated \in Message /\ Activated.ids = {}
      BY MessageTypes DEF Activated
    <3>3. \A i \in 1..Len(imq') :
             imq'[i] = Activated \/ (i \in 1..Len(imq) /\ imq'[i] = imq[i])
      BY <1>q, <3>1, <3>2, AppendElements
    <3>4. Carried' \subseteq Carried BY <3>1, <3>2, <3>3 DEF Carried
    <3>5. QED BY <1>f, <3>1, <3>4
  <2>2. CASE CreatorReleaseDeviceId
    <3>1. UNCHANGED <<crd, identity, imq, stream>> /\ UNCHANGED storeVars
      BY <2>2 DEF CreatorReleaseDeviceId, injectorVars
    <3>2. Carried' = Carried BY <3>1 DEF Carried
    <3>3. QED BY <1>f, <3>1, <3>2
  <2>3. QED BY <1>3, <2>1, <2>2 DEF CreatorStep
<1>4. CASE register_or_update
  <2>1. /\ stream # <<>> /\ stream' = Tail(stream)
        /\ UNCHANGED <<crd, identity, imq>>
        /\ \A d \in Devices : d \in seen' \cup free' =>
              d \in seen \cup free \cup Head(stream).ids
    BY <1>4 DEF register_or_update, kubeVars, managerVars
  <2>2. Head(stream).ids \subseteq Carried
    BY <1>q, <2>1, TailElements, MessageTypes DEF Carried
  <2>3. Carried' \subseteq Carried
    BY <1>q, <2>1, TailElements DEF Carried
  <2>4. QED BY <1>t, <1>e, <2>1, <2>2, <2>3
<1>5. CASE unregister_service
  <2>1. /\ stream # <<>> /\ stream' = Tail(stream)
        /\ UNCHANGED <<crd, identity, imq>>
        /\ seen' = {NoDevice} /\ free' = {}
    BY <1>5 DEF unregister_service, kubeVars, managerVars, None
  <2>2. Carried' \subseteq Carried
    BY <1>q, <2>1, TailElements DEF Carried
  <2>3. QED BY <1>t, <1>q, <1>e, <2>1, <2>2
<1>6. ASSUME NEW p \in Pods, DeviceIdNotFound(p)
      PROVE  \A d \in Devices : d \in Carried' \cup seen' \cup free' => d \in Ended'
  <2>1. UNCHANGED <<crd, identity, imq, stream>> /\ UNCHANGED storeVars
    BY <1>6 DEF DeviceIdNotFound, managerVars
  <2>2. Carried' = Carried BY <2>1 DEF Carried
  <2>3. QED BY <1>f, <2>1, <2>2
<1>7. ASSUME NEW p \in Pods, NEW c \in Devices, pop_device_id(p, c)
      PROVE  \A d \in Devices : d \in Carried' \cup seen' \cup free' => d \in Ended'
  <2>1. UNCHANGED <<crd, identity, imq, stream, seen>> /\ free' \subseteq free
    BY <1>7 DEF pop_device_id, Pop, managerVars
  <2>2. Carried' = Carried BY <2>1 DEF Carried
  <2>3. QED BY <1>t, <1>e, <2>1, <2>2
<1>8. CASE DeleteServiceIdentity
  <2>1. /\ identity' = {NoDevice} /\ crd' = {NoDevice} /\ imq' = imq
        /\ stream' = Append(stream, DeletedEvent) /\ UNCHANGED storeVars
    BY <1>8 DEF DeleteServiceIdentity, None
  <2>2. DeletedEvent \in StreamEvent /\ DeletedEvent.ids = {}
    BY MessageTypes DEF DeletedEvent
  <2>3. \A i \in 1..Len(stream') :
           stream'[i] = DeletedEvent \/ (i \in 1..Len(stream) /\ stream'[i] = stream[i])
    BY <1>q, <2>1, <2>2, AppendElements
  <2>4. Carried' \subseteq Carried BY <1>q, <2>1, <2>2, <2>3 DEF Carried
  <2>5. QED BY <1>f, <2>1, <2>4
<1>c. CASE DeviceIdsCommand
  <2>1. UNCHANGED <<crd, identity, imq, stream>> /\ UNCHANGED storeVars
    BY <1>c DEF DeviceIdsCommand, managerVars, injectorVars
  <2>2. Carried' = Carried BY <2>1 DEF Carried
  <2>3. QED BY <1>f, <2>1, <2>2
<1>9. CASE IdentityServiceRestart
  <2>1. /\ identity' = crd /\ imq' = <<>> /\ UNCHANGED <<crd, stream>>
        /\ UNCHANGED storeVars
    BY <1>9 DEF IdentityServiceRestart, kubeVars, injectorVars
  <2>2. Carried' \subseteq Carried BY <2>1 DEF Carried
  <2>3. QED BY <1>f, <2>1, <2>2
<1>10. CASE InjectorRestart
  <2>1. /\ UNCHANGED <<crd, identity, imq>> /\ seen' = {NoDevice} /\ free' = {}
        /\ stream' = IF crd = None THEN <<>> ELSE <<Event(crd)>>
    BY <1>10 DEF InjectorRestart, managerVars, None
  <2>2. \A i \in 1..Len(stream') : stream'[i].ids = crd
    BY <2>1 DEF Event
  <2>3. Carried' \subseteq Carried BY <2>1, <2>2 DEF Carried
  <2>4. QED BY <1>t, <1>q, <1>e, <2>1, <2>3
<1>11. CASE StreamRelist
  <2>1. stream' = <<>> /\ UNCHANGED <<crd, identity, imq>> /\ UNCHANGED storeVars
    BY <1>11 DEF StreamRelist, kubeVars, managerVars
  <2>2. Carried' \subseteq Carried BY <2>1 DEF Carried
  <2>3. QED BY <1>f, <2>1, <2>2
<1>12. ASSUME NEW p \in Pods,
              \/ RequestDeviceId(p) \/ RequestTimeout(p)
              \/ PodStarts(p) \/ PodRejected(p)
       PROVE  \A d \in Devices : d \in Carried' \cup seen' \cup free' => d \in Ended'
  <2>1. UNCHANGED <<crd, identity, imq, stream>> /\ UNCHANGED storeVars
    BY <1>12 DEF RequestDeviceId, RequestTimeout, PodStarts, PodRejected,
       managerVars, injectorVars
  <2>2. Carried' = Carried BY <2>1 DEF Carried
  <2>3. QED BY <1>f, <2>1, <2>2
<1>13. ASSUME NEW p \in Pods, PodEvicted(p) \/ PodDeleted(p)
       PROVE  \A d \in Devices : d \in Carried' \cup seen' \cup free' => d \in Ended'
  <2>1. /\ UNCHANGED <<crd, identity, stream, dev>> /\ UNCHANGED storeVars
        /\ imq' = Append(imq, Release(dev[p]))
        /\ dev[p] \in Devices /\ pod'[p] \in {"evicted", "gone"}
    BY <1>13, <1>t DEF PodEvicted, PodDeleted, injectorVars, DeviceTypeOK
  <2>2. Release(dev[p]) \in Message /\ Release(dev[p]).ids = {dev[p]}
    BY <2>1, MessageTypes DEF Release
  <2>3. \A i \in 1..Len(imq') : \/ imq'[i] = Release(dev[p])
                                \/ (i \in 1..Len(imq) /\ imq'[i] = imq[i])
    BY <1>q, <2>1, <2>2, AppendElements
  <2>4. Carried' \subseteq Carried \cup {dev[p]} BY <2>1, <2>2, <2>3 DEF Carried
  <2>5. dev[p] \in Ended' BY <2>1 DEF Ended
  <2>6. QED BY <1>t, <1>e, <2>1, <2>4, <2>5 DEF storeVars
<1>14. CASE UNCHANGED deviceVars
  <2>1. UNCHANGED <<crd, identity, imq, stream>> /\ UNCHANGED storeVars
    BY <1>14 DEF deviceVars, kubeVars, managerVars, injectorVars
  <2>2. Carried' = Carried BY <2>1 DEF Carried
  <2>3. QED BY <1>f, <2>1, <2>2
<1>15. QED
  BY <1>1, <1>2, <1>3, <1>4, <1>5, <1>6, <1>7, <1>8, <1>9, <1>10, <1>11, <1>12,
     <1>13, <1>14, <1>c
     DEF DeviceNext, ManagerStep, ProviderStep, PodStep

\* An id is in the pool only when a pod that held it has ended, whatever
\* restarts, deletions of the identity, crashes and faults happened.
THEOREM FreeWasReleasedAlways == DeviceSpec => []FreeWasReleased
<1>1. ReleasedInv => FreeWasReleased
  BY DEF ReleasedInv, FreeWasReleased, DeviceTypeOK
<1>2. QED BY <1>1, ReleasedInit, ReleasedStep, PTL DEF DeviceSpec

-----------------------------------------------------------------------------
\* Messages and events before a step are there after it, but for the head of a
\* queue that was read.
LEMMA QueueKept ==
    ASSUME NEW S, NEW q \in Seq(S), NEW i \in 1..Len(q)
    PROVE  /\ \A e \in S : /\ Append(q, e)[i] = q[i]
                           /\ i \in 1..Len(Append(q, e))
                           /\ Append(q, e)[Len(q) + 1] = e
                           /\ Len(q) + 1 \in 1..Len(Append(q, e))
           /\ \/ q[i] = Head(q)
              \/ /\ i - 1 \in 1..Len(Tail(q))
                 /\ Tail(q)[i - 1] = q[i]
OBVIOUS

\* Nothing has happened yet.
LEMMA ReturnInit == DeviceInit => ReturnInv
BY ReleasedInit, DeviceConstants
   DEF DeviceInit, ReturnInv, OnItsWay, OnlyFound

\* A pod has an id exactly when it is past admission.
LEMMA DeviceOfPod ==
    ASSUME DeviceTypeOK, [DeviceNext]_deviceVars,
           \A p \in Pods : dev[p] = NoDevice <=> pod[p] \in {"none", "asked"}
    PROVE  \A p \in Pods : dev'[p] = NoDevice <=> pod'[p] \in {"none", "asked"}
<1> SUFFICES ASSUME NEW p \in Pods
             PROVE  dev'[p] = NoDevice <=> pod'[p] \in {"none", "asked"}
  OBVIOUS
<1>t. pod \in [Pods -> {"none", "asked", "patched", "running", "evicted", "gone"}]
      /\ dev \in [Pods -> Devices \cup {NoDevice}] /\ NoDevice \notin Devices
  BY DeviceConstants DEF DeviceTypeOK
<1>1. CASE ManagerStep
  BY <1>1 DEF ManagerStep, CreateServiceIdentity, activated_service_user,
     release_device_id, ManagerFrame
<1>2. CASE CreatorStep
  BY <1>2 DEF CreatorStep, ActivateServiceUser, CreatorReleaseDeviceId, kubeVars
<1>3. CASE ProviderStep
  <2>1. CASE register_or_update \/ unregister_service
    BY <2>1 DEF register_or_update, unregister_service, kubeVars
  <2>2. ASSUME NEW q \in Pods, DeviceIdNotFound(q)
        PROVE  dev'[p] = NoDevice <=> pod'[p] \in {"none", "asked"}
    BY <1>t, <2>2 DEF DeviceIdNotFound
  <2>3. ASSUME NEW q \in Pods, NEW d \in Devices, pop_device_id(q, d)
        PROVE  dev'[p] = NoDevice <=> pod'[p] \in {"none", "asked"}
    BY <1>t, <2>3 DEF pop_device_id
  <2>4. QED BY <1>3, <2>1, <2>2, <2>3 DEF ProviderStep
<1>4. CASE \/ DeleteServiceIdentity \/ DeviceIdsCommand
           \/ IdentityServiceRestart \/ StreamRelist
  BY <1>4 DEF DeleteServiceIdentity, DeviceIdsCommand, IdentityServiceRestart,
     StreamRelist, kubeVars
<1>5. CASE InjectorRestart
  BY <1>5, <1>t DEF InjectorRestart
<1>6. ASSUME NEW q \in Pods, PodStep(q)
      PROVE  dev'[p] = NoDevice <=> pod'[p] \in {"none", "asked"}
  BY <1>6, <1>t DEF PodStep, RequestDeviceId, RequestTimeout, PodStarts,
     PodRejected, PodEvicted, PodDeleted
<1>7. CASE UNCHANGED deviceVars
  BY <1>7 DEF deviceVars, kubeVars
<1>8. QED BY <1>1, <1>2, <1>3, <1>4, <1>5, <1>6, <1>7 DEF DeviceNext

\* The steps of a calm behaviour: every other one leaves a trace in a counter.
LEMMA CalmSteps ==
    ASSUME DeviceTypeOK, [DeviceNext]_deviceVars, Calm'
    PROVE  /\ Calm
           /\ \A ids : ~FaultLosing(ids)
           /\ \/ ManagerStep \/ CreatorStep \/ ProviderStep
              \/ \E p \in Pods : \/ RequestDeviceId(p) \/ PodStarts(p)
                                 \/ PodEvicted(p) \/ PodDeleted(p)
              \/ UNCHANGED deviceVars
<1>t. /\ restarts \in Nat /\ recreations \in Nat /\ crashes \in Nat /\ faults \in Nat
      /\ restarts' = 0 /\ recreations' = 0 /\ crashes' = 0 /\ faults' = 0
  BY DeviceConstants DEF DeviceTypeOK, Calm, Undisturbed
<1>u. \A ids : ~FaultLosing(ids) BY <1>t DEF FaultLosing
<1>f. ~Fault BY <1>u DEF Fault
<1>1. /\ ~DeleteServiceIdentity /\ ~DeviceIdsCommand /\ ~IdentityServiceRestart
      /\ ~InjectorRestart /\ ~StreamRelist
      /\ \A p \in Pods : ~RequestTimeout(p) /\ ~PodRejected(p)
  BY <1>t, <1>f DEF DeleteServiceIdentity, DeviceIdsCommand,
     IdentityServiceRestart, InjectorRestart, StreamRelist, RequestTimeout,
     PodRejected
<1>2. \/ ManagerStep \/ CreatorStep \/ ProviderStep
      \/ \E p \in Pods : \/ RequestDeviceId(p) \/ PodStarts(p)
                         \/ PodEvicted(p) \/ PodDeleted(p)
      \/ UNCHANGED deviceVars
  BY <1>1 DEF DeviceNext, PodStep
<1>3. UNCHANGED boundVars
  <2>1. CASE ManagerStep
    BY <1>f, <1>u, <2>1 DEF ManagerStep, CreateServiceIdentity,
       activated_service_user, release_device_id, ManagerFrame, Update,
       UpdateFails, NoFault, boundVars
  <2>2. CASE CreatorStep
    BY <1>u, <2>2 DEF CreatorStep, ActivateServiceUser, CreatorReleaseDeviceId,
       NoFault, boundVars
  <2>3. CASE ProviderStep
    BY <2>3 DEF ProviderStep, register_or_update, unregister_service,
       DeviceIdNotFound, pop_device_id
  <2>4. CASE \E p \in Pods : \/ RequestDeviceId(p) \/ PodStarts(p)
                             \/ PodEvicted(p) \/ PodDeleted(p)
    BY <1>f, <2>4 DEF RequestDeviceId, PodStarts, PodEvicted, PodDeleted, NoFault,
       boundVars
  <2>5. CASE UNCHANGED deviceVars BY <2>5 DEF deviceVars
  <2>6. QED BY <1>2, <2>1, <2>2, <2>3, <2>4, <2>5
<1>4. Calm BY <1>t, <1>3 DEF Calm, Undisturbed, boundVars
<1>5. QED BY <1>u, <1>2, <1>4

\* Steps that end no pod, give no id to one and lose no release.
LEMMA OnItsWayFrame ==
    ASSUME OnItsWay, UNCHANGED <<dev, seen, free>>,
           \A p \in Pods : pod'[p] \in {"evicted", "gone"} =>
                              pod[p] \in {"evicted", "gone"},
           \A p \in Pods : Returning(dev[p]) => Returning(dev[p])'
    PROVE  OnItsWay'
<1> SUFFICES ASSUME NEW p \in Pods, pod'[p] \in {"evicted", "gone"}, Sole(p)'
             PROVE  /\ dev'[p] \in free' \/ Returning(dev[p])'
                    /\ dev'[p] \in seen' => dev'[p] \in free'
  BY DEF OnItsWay
<1>1. Sole(p) /\ dev'[p] = dev[p] BY DEF Sole
<1>2. QED BY <1>1 DEF OnItsWay

\* An event that arrives brings the id to the pool, unless it was there before.
LEMMA OnItsWayRegister ==
    ASSUME DeviceTypeOK, OnItsWay, register_or_update
    PROVE  OnItsWay'
<1> SUFFICES ASSUME NEW p \in Pods, pod'[p] \in {"evicted", "gone"}, Sole(p)'
             PROVE  /\ dev'[p] \in free' \/ Returning(dev[p])'
                    /\ dev'[p] \in seen' => dev'[p] \in free'
  BY DEF OnItsWay
<1>1. /\ stream # <<>> /\ stream' = Tail(stream)
      /\ UNCHANGED <<pod, dev, imq>>
      /\ free' = free \cup (Head(stream).ids \ (IF seen = None THEN {} ELSE seen))
      /\ seen' = (IF seen = None THEN {} ELSE seen) \cup Head(stream).ids
  BY DEF register_or_update, kubeVars, managerVars
<1>2. Sole(p) /\ dev'[p] = dev[p] BY <1>1 DEF Sole
<1>3. /\ dev[p] \in free \/ Returning(dev[p])
      /\ dev[p] \in seen => dev[p] \in free
  BY <1>1, <1>2 DEF OnItsWay
<1>4. dev[p] \in Head(stream).ids => dev[p] \in free'
  BY <1>1, <1>3
<1>5. ASSUME NEW i \in 1..Len(stream), dev[p] \in stream[i].ids,
             dev[p] \notin Head(stream).ids
      PROVE  \E j \in 1..Len(stream') : dev[p] \in stream'[j].ids
  <2>1. stream \in Seq(StreamEvent) BY DEF DeviceTypeOK
  <2>2. i - 1 \in 1..Len(Tail(stream)) /\ Tail(stream)[i - 1] = stream[i]
    BY <2>1, <1>5, QueueKept
  <2>3. QED BY <1>1, <1>5, <2>2
<1>6. Returning(dev[p]) => dev[p] \in free' \/ Returning(dev[p])'
  BY <1>1, <1>4, <1>5 DEF Returning
<1>7. QED BY <1>1, <1>2, <1>3, <1>4, <1>6

\* An id leaves the pool for a pod, and is then no longer that of one pod only.
LEMMA OnItsWayPop ==
    ASSUME DeviceTypeOK, OnItsWay, NEW q \in Pods, NEW d \in Devices,
           pop_device_id(q, d),
           \A p \in Pods : dev[p] = NoDevice <=> pod[p] \in {"none", "asked"},
           \A i \in 1..Len(asks) : asks[i] = "waiting"
    PROVE  OnItsWay'
<1> SUFFICES ASSUME NEW p \in Pods, pod'[p] \in {"evicted", "gone"}, Sole(p)'
             PROVE  /\ dev'[p] \in free' \/ Returning(dev[p])'
                    /\ dev'[p] \in seen' => dev'[p] \in free'
  BY DEF OnItsWay
<1>1. Head(asks) = "waiting"
  <2>1. asks # <<>> /\ asks \in Seq({"waiting", "abandoned"})
    BY DEF pop_device_id, DeviceTypeOK
  <2>2. Head(asks) = asks[1] /\ 1 \in 1..Len(asks) BY <2>1
  <2>3. QED BY <2>2
<1>2. /\ pod[q] = "asked"
      /\ pod' = [pod EXCEPT ![q] = "patched"]
      /\ dev' = [dev EXCEPT ![q] = d]
      /\ UNCHANGED <<imq, stream, seen>>
      /\ free' \in {free, free \ {d}}
  BY <1>1 DEF pop_device_id, managerVars, Pop
<1>3. p # q /\ pod[p] \in {"evicted", "gone"} /\ dev'[p] = dev[p] /\ dev'[q] = d
  BY <1>2 DEF DeviceTypeOK
<1>4. dev[p] # d BY <1>3 DEF Sole
<1>5. Sole(p)
  <2>1. dev[q] = NoDevice /\ dev[p] # NoDevice BY <1>2, <1>3
  <2>2. \A r \in Pods \ {p} : r # q => dev'[r] = dev[r]
    BY <1>2 DEF DeviceTypeOK
  <2>3. QED BY <1>3, <2>1, <2>2 DEF Sole
<1>6. Returning(dev[p]) => Returning(dev[p])'
  BY <1>2, <1>3 DEF Returning
<1>7. QED BY <1>2, <1>3, <1>4, <1>5, <1>6 DEF OnItsWay

\* The end of a pod sends the release.
LEMMA OnItsWayEnd ==
    ASSUME ReleasedInv, OnItsWay, NEW q \in Pods, PodEvicted(q) \/ PodDeleted(q)
    PROVE  OnItsWay'
<1> SUFFICES ASSUME NEW p \in Pods, pod'[p] \in {"evicted", "gone"}, Sole(p)'
             PROVE  /\ dev'[p] \in free' \/ Returning(dev[p])'
                    /\ dev'[p] \in seen' => dev'[p] \in free'
  BY DEF OnItsWay
<1>t. imq \in Seq(Message) /\ DeviceTypeOK BY DEF ReleasedInv, DeviceTypeOK
<1>1. /\ pod[q] \in {"running", "evicted"}
      /\ imq' = Append(imq, Release(dev[q]))
      /\ UNCHANGED <<dev, seen, free, stream>>
      /\ \A r \in Pods \ {q} : pod'[r] = pod[r]
  BY <1>t DEF PodEvicted, PodDeleted, injectorVars, storeVars, DeviceTypeOK
<1>2. Sole(p) /\ dev'[p] = dev[p] BY <1>1 DEF Sole
<1>3. dev[q] \in Devices BY <1>t, <1>1 DEF DeviceTypeOK
<1>4. Release(dev[q]) \in Message BY <1>3, MessageTypes
<1>5. ASSUME NEW i \in 1..Len(imq)
      PROVE  i \in 1..Len(imq') /\ imq'[i] = imq[i]
  BY <1>t, <1>1, <1>4
<1>6. Returning(dev[p]) => Returning(dev[p])'
  BY <1>1, <1>2, <1>5 DEF Returning
<1>7. Returning(dev[q])'
  <2>1. /\ Len(imq) + 1 \in 1..Len(imq')
        /\ imq'[Len(imq) + 1] = Release(dev[q])
    BY <1>t, <1>1, <1>4
  <2>2. /\ Release(dev[q]).type = "ReleaseDeviceId"
        /\ dev[q] \in Release(dev[q]).ids
    BY DEF Release
  <2>3. dev'[q] = dev[q] BY <1>1
  <2>4. QED BY <2>1, <2>2, <2>3 DEF Returning
<1>8. CASE p # q
  BY <1>1, <1>2, <1>6, <1>8 DEF OnItsWay
<1>9. CASE p = q /\ pod[q] = "evicted"
  BY <1>1, <1>2, <1>6, <1>9 DEF OnItsWay
<1>10. CASE p = q /\ pod[q] = "running"
  <2>1. dev[q] \notin seen
    <3>1. SUFFICES ASSUME dev[q] \in seen PROVE FALSE
      OBVIOUS
    <3>2. PICK r \in Pods : dev[r] = dev[q] /\ pod[r] \in {"evicted", "gone"}
      BY <1>3, <3>1 DEF ReleasedInv
    <3>3. QED BY <1>2, <1>10, <3>2 DEF Sole
  <2>2. QED BY <1>1, <1>2, <1>7, <1>10, <2>1
<1>11. QED BY <1>1, <1>8, <1>9, <1>10

\* The queues of the manager and of the injector lose no release: the manager
\* passes on the one it reads, when there is an identity.
LEMMA ReleasePassedOn ==
    ASSUME DeviceTypeOK, NEW d,
           activated_service_user \/ release_device_id,
           \A ids : ~FaultLosing(ids),
           identity # None, Returning(d)
    PROVE  \/ \E i \in 1..Len(imq') :
                 imq'[i].type = "ReleaseDeviceId" /\ d \in imq'[i].ids
           \/ \E i \in 1..Len(stream') : d \in stream'[i].ids
<1>t. imq \in Seq(Message) /\ stream \in Seq(StreamEvent)
  BY DEF DeviceTypeOK
<1>1. /\ imq # <<>> /\ imq' = Tail(imq)
      /\ \/ Head(imq).type = "ActivatedServiceUser"
         \/ /\ Head(imq).type = "ReleaseDeviceId"
            /\ Head(imq).ids \subseteq identity'
      /\ crd' = identity' /\ stream' = Append(stream, Event(identity'))
  BY DEF activated_service_user, release_device_id, Receive, Update, UpdateFails
<1>2. identity' \in SUBSET Devices
  <2>1. Head(imq).ids \in SUBSET Devices
    BY <1>t, <1>1, TailElements, MessageTypes
  <2>2. identity \in SUBSET Devices BY DEF DeviceTypeOK
  <2>3. identity' \in {Head(imq).ids, identity \cup Head(imq).ids}
    BY DEF activated_service_user, release_device_id
  <2>4. QED BY <2>1, <2>2, <2>3
<1>3. Event(identity') \in StreamEvent /\ Event(identity').ids = identity'
  BY <1>2, MessageTypes DEF Event
<1>4. \A i \in 1..Len(stream) : i \in 1..Len(stream') /\ stream'[i] = stream[i]
  BY <1>t, <1>1, <1>3
<1>5. /\ Len(stream) + 1 \in 1..Len(stream')
      /\ stream'[Len(stream) + 1] = Event(identity')
  BY <1>t, <1>1, <1>3
<1>6. ASSUME NEW i \in 1..Len(imq), imq[i].type = "ReleaseDeviceId",
             d \in imq[i].ids
      PROVE  \/ d \in identity'
             \/ \E j \in 1..Len(imq') :
                   imq'[j].type = "ReleaseDeviceId" /\ d \in imq'[j].ids
  <2>1. CASE imq[i] = Head(imq)
    BY <1>1, <1>6, <2>1
  <2>2. CASE imq[i] # Head(imq)
    <3>1. i - 1 \in 1..Len(Tail(imq)) /\ Tail(imq)[i - 1] = imq[i]
      BY <1>t, <2>2, QueueKept
    <3>2. QED BY <1>1, <1>6, <3>1
  <2>3. QED BY <2>1, <2>2
<1>7. QED BY <1>3, <1>4, <1>5, <1>6 DEF Returning

\* What a calm step keeps besides OnItsWay.
CalmFacts ==
    /\ OnlyFound
    /\ \A i \in 1..Len(asks) : asks[i] = "waiting"
    /\ identity = None => /\ seen = None /\ stream = <<>>
                          /\ \A p \in Pods : dev[p] = NoDevice

\* A new event of the identity is not a deletion.
LEMMA StillFound ==
    ASSUME DeviceTypeOK, OnlyFound, NEW ids \in SUBSET Devices,
           stream' = Append(stream, Event(ids))
    PROVE  OnlyFound'
<1>1. Event(ids) \in StreamEvent /\ Event(ids).op = "Found"
  BY MessageTypes DEF Event
<1>2. stream \in Seq(StreamEvent) BY DEF DeviceTypeOK
<1>3. \A i \in 1..Len(stream') :
         stream'[i] = Event(ids) \/ (i \in 1..Len(stream) /\ stream'[i] = stream[i])
  BY <1>1, <1>2, AppendElements
<1>4. QED BY <1>1, <1>3 DEF OnlyFound

\* Without disturbances every step keeps ReturnInv.
LEMMA ReturnStep == ReturnInv /\ [DeviceNext]_deviceVars => ReturnInv'
<1> SUFFICES ASSUME ReturnInv, [DeviceNext]_deviceVars, Calm'
             PROVE  CalmFacts' /\ OnItsWay'
  BY ReleasedStep, DeviceOfPod DEF ReturnInv, CalmFacts, ReleasedInv
<1>t. DeviceTypeOK /\ DeviceTypeOK' /\ ReleasedInv
  BY DeviceTypeStep DEF ReturnInv, ReleasedInv
<1>c. Calm /\ \A ids : ~FaultLosing(ids) BY <1>t, CalmSteps
<1>i. /\ CalmFacts /\ OnItsWay
      /\ \A p \in Pods : dev[p] = NoDevice <=> pod[p] \in {"none", "asked"}
  BY <1>c DEF ReturnInv, CalmFacts
<1>q. /\ imq \in Seq(Message) /\ stream \in Seq(StreamEvent)
      /\ asks \in Seq({"waiting", "abandoned"})
      /\ NoDevice \notin Devices
      /\ \A ids \in SUBSET Devices : ids # None
  BY <1>t, DeviceConstants DEF DeviceTypeOK, None
<1>1. CASE CreateServiceIdentity
  <2>1. /\ identity' = {} /\ stream' = Append(stream, Event({}))
        /\ UNCHANGED <<pod, dev, imq, seen, free, asks>>
    BY <1>1, <1>c DEF CreateServiceIdentity, Fault, storeVars
  <2>2. OnlyFound' BY <1>t, <1>i, <2>1, StillFound DEF CalmFacts
  <2>3. Event({}) \in StreamEvent BY MessageTypes
  <2>4. \A i \in 1..Len(stream) : i \in 1..Len(stream') /\ stream'[i] = stream[i]
    BY <1>q, <2>1, <2>3
  <2>5. \A p \in Pods : Returning(dev[p]) => Returning(dev[p])'
    BY <2>1, <2>4 DEF Returning
  <2>6. OnItsWay' BY <1>i, <2>1, <2>5, OnItsWayFrame
  <2>7. QED BY <1>i, <1>q, <2>1, <2>2, <2>6 DEF CalmFacts
<1>2. CASE activated_service_user \/ release_device_id
  <2>1. UNCHANGED <<pod, dev, seen, free, asks>>
    BY <1>2 DEF activated_service_user, release_device_id, ManagerFrame, storeVars
  <2>2. CASE identity = None
    <3>1. UNCHANGED <<identity, stream>>
      BY <1>2, <2>2 DEF activated_service_user, release_device_id
    <3>2. \A p \in Pods : pod'[p] \notin {"evicted", "gone"}
      BY <1>i, <2>1, <2>2 DEF CalmFacts
    <3>3. OnItsWay' BY <3>2 DEF OnItsWay
    <3>4. QED BY <1>i, <2>1, <3>1, <3>3 DEF CalmFacts, OnlyFound
  <2>3. CASE identity # None
    <3>1. stream' = Append(stream, Event(identity')) /\ imq # <<>>
          /\ identity' \in {Head(imq).ids, identity \cup Head(imq).ids}
      BY <1>2, <1>c, <2>3 DEF activated_service_user, release_device_id, Update,
         UpdateFails, Receive
    <3>2. identity' \in SUBSET Devices
      <4>1. Head(imq).ids \in SUBSET Devices
        BY <1>q, <3>1, TailElements, MessageTypes
      <4>2. identity \in SUBSET Devices BY <1>t, <2>3 DEF DeviceTypeOK
      <4>3. QED BY <3>1, <4>1, <4>2
    <3>3. OnlyFound' BY <1>t, <1>i, <3>1, <3>2, StillFound DEF CalmFacts
    <3>4. \A p \in Pods : Returning(dev[p]) => Returning(dev[p])'
      BY <1>t, <1>2, <1>c, <2>1, <2>3, ReleasePassedOn DEF Returning
    <3>5. OnItsWay' BY <1>i, <2>1, <3>4, OnItsWayFrame
    <3>6. QED BY <1>i, <1>q, <2>1, <3>2, <3>3, <3>5 DEF CalmFacts
  <2>4. QED BY <2>2, <2>3
<1>3. CASE ActivateServiceUser
  <2>1. /\ imq' = Append(imq, Activated)
        /\ UNCHANGED <<pod, dev, identity, stream, seen, free, asks>>
    BY <1>3 DEF ActivateServiceUser, kubeVars, injectorVars, storeVars
  <2>2. \A i \in 1..Len(imq) : i \in 1..Len(imq') /\ imq'[i] = imq[i]
    BY <1>q, <2>1, MessageTypes
  <2>3. \A p \in Pods : Returning(dev[p]) => Returning(dev[p])'
    BY <2>1, <2>2 DEF Returning
  <2>4. OnItsWay' BY <1>i, <2>1, <2>3, OnItsWayFrame
  <2>5. QED BY <1>i, <2>1, <2>4 DEF CalmFacts, OnlyFound
<1>4. CASE \/ CreatorReleaseDeviceId \/ UNCHANGED deviceVars
           \/ \E q \in Pods : PodStarts(q)
  <2>1. /\ UNCHANGED <<dev, identity, imq, stream, seen, free, asks>>
        /\ \A p \in Pods : pod'[p] \in {"evicted", "gone"} => pod'[p] = pod[p]
    BY <1>4, <1>t DEF CreatorReleaseDeviceId, PodStarts, deviceVars, kubeVars,
       managerVars, injectorVars, storeVars, DeviceTypeOK
  <2>2. \A p \in Pods : Returning(dev[p]) => Returning(dev[p])'
    BY <2>1 DEF Returning
  <2>3. OnItsWay' BY <1>i, <2>1, <2>2, OnItsWayFrame
  <2>4. QED BY <1>i, <2>1, <2>3 DEF CalmFacts, OnlyFound
<1>5. CASE register_or_update
  <2>1. /\ stream # <<>> /\ stream' = Tail(stream)
        /\ UNCHANGED <<dev, identity, asks>>
    BY <1>5 DEF register_or_update, kubeVars, managerVars
  <2>2. OnlyFound' BY <1>i, <1>q, <2>1, TailElements DEF CalmFacts, OnlyFound
  <2>3. OnItsWay' BY <1>t, <1>i, <1>5, OnItsWayRegister
  <2>4. QED BY <1>i, <2>1, <2>2, <2>3 DEF CalmFacts
<1>6. ~unregister_service
  <2>1. stream # <<>> => Head(stream).op = "Found"
    BY <1>i, <1>q, TailElements DEF CalmFacts, OnlyFound
  <2>2. QED BY <2>1 DEF unregister_service
<1>7. ASSUME NEW q \in Pods, DeviceIdNotFound(q) PROVE CalmFacts' /\ OnItsWay'
  <2>1. /\ UNCHANGED <<dev, identity, imq, stream, seen, free>>
        /\ asks # <<>> /\ asks' = Tail(asks)
        /\ \A p \in Pods : pod'[p] \in {"evicted", "gone"} => pod'[p] = pod[p]
    BY <1>7, <1>t DEF DeviceIdNotFound, managerVars, storeVars, DeviceTypeOK
  <2>2. \A p \in Pods : Returning(dev[p]) => Returning(dev[p])'
    BY <2>1 DEF Returning
  <2>3. OnItsWay' BY <1>i, <2>1, <2>2, OnItsWayFrame
  <2>4. \A i \in 1..Len(asks') : asks'[i] = "waiting"
    BY <1>i, <1>q, <2>1, TailElements DEF CalmFacts
  <2>5. QED BY <1>i, <2>1, <2>3, <2>4 DEF CalmFacts, OnlyFound
<1>8. ASSUME NEW q \in Pods, NEW d \in Devices, pop_device_id(q, d)
      PROVE  CalmFacts' /\ OnItsWay'
  <2>1. /\ UNCHANGED <<identity, stream, seen>> /\ seen # None
        /\ asks # <<>> /\ asks' = Tail(asks)
    BY <1>8 DEF pop_device_id, managerVars
  <2>2. OnItsWay' BY <1>t, <1>i, <1>8, OnItsWayPop DEF CalmFacts
  <2>3. \A i \in 1..Len(asks') : asks'[i] = "waiting"
    BY <1>i, <1>q, <2>1, TailElements DEF CalmFacts
  <2>4. QED BY <1>i, <2>1, <2>2, <2>3 DEF CalmFacts, OnlyFound
<1>9. ASSUME NEW q \in Pods, RequestDeviceId(q) PROVE CalmFacts' /\ OnItsWay'
  <2>1. /\ UNCHANGED <<dev, identity, imq, stream, seen, free>>
        /\ asks' = Append(asks, "waiting")
        /\ \A p \in Pods : pod'[p] \in {"evicted", "gone"} => pod'[p] = pod[p]
    BY <1>9, <1>t DEF RequestDeviceId, managerVars, storeVars, DeviceTypeOK
  <2>2. \A p \in Pods : Returning(dev[p]) => Returning(dev[p])'
    BY <2>1 DEF Returning
  <2>3. OnItsWay' BY <1>i, <2>1, <2>2, OnItsWayFrame
  <2>4. \A i \in 1..Len(asks') : asks'[i] = "waiting"
    BY <1>i, <1>q, <2>1, AppendElements DEF CalmFacts
  <2>5. QED BY <1>i, <2>1, <2>3, <2>4 DEF CalmFacts, OnlyFound
<1>10. ASSUME NEW q \in Pods, PodEvicted(q) \/ PodDeleted(q)
       PROVE  CalmFacts' /\ OnItsWay'
  <2>1. UNCHANGED <<dev, identity, stream, seen, asks>>
    BY <1>10 DEF PodEvicted, PodDeleted, injectorVars, storeVars
  <2>2. OnItsWay' BY <1>t, <1>i, <1>10, OnItsWayEnd
  <2>3. QED BY <1>i, <2>1, <2>2 DEF CalmFacts, OnlyFound
<1>11. QED
  BY <1>1, <1>2, <1>3, <1>4, <1>5, <1>6, <1>7, <1>8, <1>9, <1>10, <1>t, CalmSteps
     DEF ManagerStep, CreatorStep, ProviderStep

\* Where the released id of a deleted pod is: on its way, or in the pool.
THEOREM ReturnInvariant == DeviceSpec => []ReturnInv
BY ReturnInit, ReturnStep, PTL DEF DeviceSpec

\* The id of a deleted pod that no other pod ever held is in the pool once
\* everything has been handled, for any number of pods and devices, unless a
\* restart, a deletion of the identity or a fault came between.
THEOREM FirstReleaseReturnedAlways == DeviceSpec => []FirstReleaseReturned
<1>1. ReturnInv => FirstReleaseReturned
  <2> SUFFICES ASSUME ReturnInv, DevicesSettled,
                      restarts + crashes + recreations + faults = 0,
                      NEW p \in Pods, pod[p] = "gone", Sole(p)
               PROVE  dev[p] \in free
    BY DEF FirstReleaseReturned, Sole
  <2>1. Calm
    <3>1. /\ restarts \in Nat /\ recreations \in Nat
          /\ crashes \in Nat /\ faults \in Nat
      BY DeviceConstants DEF ReturnInv, ReleasedInv, DeviceTypeOK
    <3>2. QED BY <3>1 DEF Calm, Undisturbed
  <2>2. dev[p] \in free \/ Returning(dev[p])
    BY <2>1 DEF ReturnInv, OnItsWay
  <2>3. ~Returning(dev[p]) BY DEF DevicesSettled, Returning
  <2>4. QED BY <2>2, <2>3
<1>2. QED BY <1>1, ReturnInvariant, PTL

-----------------------------------------------------------------------------
\* The holder of the refinement mapping.
Holder == [p \in Pods |-> IF Holds(p) THEN dev[p] ELSE NoDevice]

\* A pod that holds an id in DeviceIds does so in DeviceAllocation.
LEMMA HolderOf ==
    ASSUME DeviceTypeOK
    PROVE  \A p \in Pods : /\ Holds(p) => Holder[p] = dev[p] /\ dev[p] \in Devices
                           /\ ~Holds(p) => Holder[p] = NoDevice
BY DEF Holder, DeviceTypeOK, Holds

\* Steps that the allocation does not see.
LEMMA AllocationStutters ==
    ASSUME UNCHANGED <<free, drawn>>,
           \A p \in Pods : /\ Holds(p)' <=> Holds(p)
                           /\ Holds(p) => dev'[p] = dev[p]
    PROVE  UNCHANGED Allocation!allocationVars
BY DEF Allocation!allocationVars, Holds

\* A pod stops holding its id.
LEMMA AllocationCeases ==
    ASSUME DeviceTypeOK, NEW p \in Pods, Holds(p), ~Holds(p)',
           UNCHANGED <<free, drawn>>,
           \A q \in Pods \ {p} : /\ Holds(q)' <=> Holds(q)
                                 /\ Holds(q) => dev'[q] = dev[q]
    PROVE  Allocation!Cease(p)
<1>1. Holder[p] # NoDevice
  BY HolderOf, DeviceConstants
<1>2. Holder' = [Holder EXCEPT ![p] = NoDevice]
  BY DEF Holder, Holds
<1>3. QED BY <1>1, <1>2 DEF Allocation!Cease, Holder

\* An answer of the provider takes an id from the pool, or a new one.
LEMMA AllocationTakes ==
    ASSUME DeviceTypeOK, Circulation,
           NEW p \in Pods, NEW d \in Devices, pop_device_id(p, d)
    PROVE  Allocation!Acquire(p, d) \/ Allocation!Discard(d)
<1>1. Allocation!Take(d)
  <2>1. CASE d \in free /\ free' = free \ {d} /\ drawn' = drawn
    <3>1. d \in drawn BY <2>1 DEF Circulation
    <3>2. QED BY <2>1, <3>1 DEF Allocation!Take
  <2>2. CASE /\ free = {} /\ d \notin drawn
             /\ drawn' = drawn \cup {d} /\ free' = free
    BY <2>2 DEF Allocation!Take
  <2>3. QED BY <2>1, <2>2 DEF pop_device_id, Pop
<1>2. CASE UNCHANGED <<pod, dev>>
  <2>1. Holder' = Holder BY <1>2 DEF Holder, Holds
  <2>2. QED BY <1>1, <2>1 DEF Allocation!Discard, Holder
<1>3. CASE /\ pod[p] = "asked"
           /\ pod' = [pod EXCEPT ![p] = "patched"]
           /\ dev' = [dev EXCEPT ![p] = d]
  <2>1. Holder[p] = NoDevice BY <1>3, HolderOf DEF Holds
  <2>2. Holder' = [Holder EXCEPT ![p] = d]
    BY <1>3 DEF Holder, Holds, DeviceTypeOK
  <2>3. QED BY <1>1, <2>1, <2>2 DEF Allocation!Acquire, Holder
<1>4. QED BY <1>2, <1>3 DEF pop_device_id

\* An event returns ids that no pod holds and that are not in the pool.
LEMMA AllocationReturns ==
    ASSUME DeviceTypeOK, Circulation, register_or_update
    PROVE  \E ids \in SUBSET Devices : Allocation!Return(ids)
<1> DEFINE ids == Head(stream).ids
           new == ids \ (IF seen = None THEN {} ELSE seen)
<1>1. /\ free' = free \cup new /\ stream # <<>>
      /\ UNCHANGED <<pod, dev, drawn>>
  BY DEF register_or_update, kubeVars
<1>2. stream \in Seq(StreamEvent) BY DEF DeviceTypeOK
<1>3. ids \subseteq Devices
  BY <1>1, <1>2, MessageTypes, TailElements
<1>4. ids \subseteq Carried
  BY <1>1, <1>2, <1>3, TailElements DEF Carried
<1>5. new \subseteq Devices /\ new \cap seen = {}
  BY <1>3, DeviceConstants DEF None
<1>6. new \subseteq drawn /\ new \cap free = {}
  BY <1>4, <1>5 DEF Circulation
<1>7. \A p \in Pods : Holder[p] # NoDevice => Holder[p] \notin new
  BY <1>4, <1>5, HolderOf DEF Circulation
<1>8. new \cap Allocation!Held = {}
  BY <1>7 DEF Allocation!Held, Holder
<1>9. Holder' = Holder BY <1>1 DEF Holder, Holds
<1>10. Allocation!Return(new)
  BY <1>1, <1>6, <1>8, <1>9 DEF Allocation!Return, Holder
<1>11. QED BY <1>5, <1>10

\* Every step is a step of the allocation, or one it does not see.
LEMMA AllocationStep ==
    ASSUME DeviceInv, Undisturbed, Undisturbed', [DeviceNext]_deviceVars
    PROVE  [Allocation!AllocationNext]_(Allocation!allocationVars)
<1> DEFINE Goal == [Allocation!AllocationNext]_(Allocation!allocationVars)
<1>t. DeviceTypeOK /\ OnlyFound /\ Circulation BY DEF DeviceInv
<1>p. pod \in [Pods -> {"none", "asked", "patched", "running", "evicted", "gone"}]
      /\ dev \in [Pods -> Devices \cup {NoDevice}]
  BY <1>t DEF DeviceTypeOK
<1>s. restarts \in Nat /\ recreations \in Nat
  BY <1>t DEF DeviceTypeOK
<1>a. ASSUME Allocation!AllocationNext PROVE Goal
  BY <1>a
<1>b. ASSUME UNCHANGED Allocation!allocationVars PROVE Goal
  BY <1>b
<1>1. CASE \/ ManagerStep \/ CreatorStep \/ DeviceIdsCommand
           \/ IdentityServiceRestart \/ StreamRelist \/ UNCHANGED deviceVars
  <2>1. UNCHANGED <<pod, dev, free, drawn>>
    BY <1>1 DEF ManagerStep, CreateServiceIdentity, activated_service_user,
       release_device_id, ManagerFrame, CreatorStep, ActivateServiceUser,
       CreatorReleaseDeviceId, DeviceIdsCommand, IdentityServiceRestart,
       StreamRelist, kubeVars, injectorVars, storeVars, deviceVars
  <2>2. QED BY <1>b, <2>1, AllocationStutters DEF Holds
<1>2. CASE register_or_update
  BY <1>2, <1>a, <1>t, AllocationReturns DEF Allocation!AllocationNext
<1>3. CASE unregister_service
  <2>1. stream \in Seq(StreamEvent) /\ stream # <<>> /\ Head(stream).op = "Deleted"
    BY <1>3, <1>t DEF unregister_service, DeviceTypeOK
  <2>2. QED BY <1>t, <2>1, TailElements DEF OnlyFound
<1>4. ASSUME NEW p \in Pods, DeviceIdNotFound(p) PROVE Goal
  <2>1. /\ UNCHANGED <<dev, free, drawn>>
        /\ \A q \in Pods : Holds(q)' <=> Holds(q)
    BY <1>4, <1>p DEF DeviceIdNotFound, storeVars, Holds
  <2>2. QED BY <1>b, <2>1, AllocationStutters
<1>5. ASSUME NEW p \in Pods, NEW d \in Devices, pop_device_id(p, d) PROVE Goal
  BY <1>5, <1>a, <1>t, AllocationTakes DEF Allocation!AllocationNext
<1>6. CASE DeleteServiceIdentity \/ InjectorRestart
  BY <1>6, <1>s DEF DeleteServiceIdentity, InjectorRestart, Undisturbed
<1>7. ASSUME NEW p \in Pods, RequestDeviceId(p) \/ RequestTimeout(p) \/ PodStarts(p)
      PROVE  Goal
  <2>1. /\ UNCHANGED <<dev, free, drawn>>
        /\ \A q \in Pods : Holds(q)' <=> Holds(q)
    BY <1>7, <1>p DEF RequestDeviceId, RequestTimeout, PodStarts, storeVars,
       injectorVars, Holds
  <2>2. QED BY <1>b, <2>1, AllocationStutters
<1>8. ASSUME NEW p \in Pods,
             PodRejected(p) \/ (Holds(p) /\ (PodEvicted(p) \/ PodDeleted(p)))
      PROVE  Goal
  <2>1. /\ Holds(p) /\ ~Holds(p)' /\ UNCHANGED <<free, drawn>>
        /\ \A q \in Pods \ {p} : /\ Holds(q)' <=> Holds(q)
                                 /\ Holds(q) => dev'[q] = dev[q]
    BY <1>8, <1>p DEF PodRejected, PodEvicted, PodDeleted, storeVars,
       injectorVars, Holds
  <2>2. Allocation!Cease(p) BY <1>t, <2>1, AllocationCeases
  <2>3. QED BY <1>a, <2>2 DEF Allocation!AllocationNext
<1>9. ASSUME NEW p \in Pods, ~Holds(p), PodEvicted(p) \/ PodDeleted(p) PROVE Goal
  <2>1. /\ UNCHANGED <<dev, free, drawn>>
        /\ \A q \in Pods : Holds(q)' <=> Holds(q)
    BY <1>9, <1>p DEF PodEvicted, PodDeleted, storeVars, injectorVars, Holds
  <2>2. QED BY <1>b, <2>1, AllocationStutters
<1>10. QED
  BY <1>1, <1>2, <1>3, <1>4, <1>5, <1>6, <1>7, <1>8, <1>9
     DEF DeviceNext, ProviderStep, PodStep

\* DeviceIds implements DeviceAllocation, for any number of pods, crashes of
\* the Identity Service and faults, when the injector is never restarted and
\* the ServiceIdentity never deleted.
THEOREM AllocatesAlways ==
    ASSUME MaxDisturbances = 0
    PROVE  DeviceSpec => Allocates
<1>1. DeviceInit => Allocation!AllocationInit
  BY DEF DeviceInit, Allocation!AllocationInit, Holds
<1>2. DeviceInv => Undisturbed
  BY DEF DeviceInv, DeviceTypeOK, Undisturbed
<1>3. DeviceInv /\ Undisturbed /\ Undisturbed' /\ [DeviceNext]_deviceVars
          => [Allocation!AllocationNext]_(Allocation!allocationVars)
  BY AllocationStep
<1>4. QED
  BY <1>1, <1>2, <1>3, DeviceInvInit, DeviceInvStep, PTL
     DEF DeviceSpec, Allocates, Allocation!AllocationSpec
=============================================================================
