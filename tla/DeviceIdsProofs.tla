-------------------------- MODULE DeviceIdsProofs ---------------------------
(***************************************************************************)
(* DistinctDevices for any number of pods and devices and any bounds: the  *)
(* invariant DeviceInv is inductive.                                       *)
(***************************************************************************)
EXTENDS DeviceIds, TLAPS

\* What the messages and events carry.
LEMMA MessageTypes ==
    /\ \A d \in Devices : Release(d) \in Message
    /\ Activated \in Message
    /\ \A m \in Message : m.ids \in SUBSET Devices
    /\ \A ids \in SUBSET Devices : Event(ids) \in StreamEvent
    /\ DeletedEvent \in StreamEvent
    /\ \A e \in StreamEvent : e.ids \in SUBSET Devices
BY DEF Release, Activated, Message, Event, DeletedEvent, StreamEvent

\* A step with or without a fault keeps the types of what counts faults.
LEMMA FaultTypes ==
    ASSUME DeviceTypeOK, NEW ids \in SUBSET Devices, FaultLosing(ids) \/ NoFault
    PROVE  faults' \in 0..MaxFaults /\ lost' \subseteq Devices
<1>1. CASE FaultLosing(ids)
  <2>1. /\ restarts \in Nat /\ recreations \in Nat /\ faults \in Nat
        /\ restarts + recreations + faults < MaxFaults /\ faults' = faults + 1
        /\ lost' = lost \cup ids
    BY <1>1, DeviceConstants DEF FaultLosing, Troubles, DeviceTypeOK
  <2>2. QED BY <2>1, DeviceConstants DEF DeviceTypeOK
<1>2. CASE NoFault
  BY <1>2 DEF NoFault, DeviceTypeOK
<1>3. QED BY <1>1, <1>2

\* Typing of the initial state.
LEMMA DeviceTypeInit == DeviceInit => DeviceTypeOK
BY DeviceConstants DEF DeviceInit, DeviceTypeOK, None

\* Every step keeps the types.
LEMMA DeviceTypeStep == DeviceTypeOK /\ [DeviceNext]_deviceVars => DeviceTypeOK'
<1> SUFFICES ASSUME DeviceTypeOK, [DeviceNext]_deviceVars PROVE DeviceTypeOK'
  OBVIOUS
<1> USE DeviceConstants, MessageTypes DEF DeviceTypeOK, None
<1>n. ASSUME Fault \/ NoFault
      PROVE  faults' \in 0..MaxFaults /\ lost' \subseteq Devices
  BY <1>n, FaultTypes DEF Fault
<1>1. CASE CreateServiceIdentity
  <2>1. /\ identity' = {} /\ crd' \in {crd, {}}
        /\ activating' \in {activating, activating + 1}
        /\ stream' \in {stream, Append(stream, Event({}))}
        /\ Fault \/ NoFault
    BY <1>1 DEF CreateServiceIdentity
  <2>2. stream' \in Seq(StreamEvent)
    <3>1. stream \in Seq(StreamEvent) /\ Event({}) \in StreamEvent OBVIOUS
    <3>2. Append(stream, Event({})) \in Seq(StreamEvent) BY <3>1
    <3>3. QED BY <2>1, <3>1, <3>2
  <2>3. /\ faults' \in 0..MaxFaults /\ lost' \subseteq Devices
        /\ activating' \in Nat
        /\ crd' \in (SUBSET Devices) \cup {None}
    BY <1>n, <2>1
  <2>4. UNCHANGED <<pod, dev, registered, imq, unregister, seen, free, asks,
                    drawn, restarts, crashes, recreations>>
    BY <1>1 DEF CreateServiceIdentity, storeVars
  <2>5. QED BY <2>1, <2>2, <2>3, <2>4
<1>m. ASSUME imq # <<>>
      PROVE  Head(imq).ids \in SUBSET Devices /\ Tail(imq) \in Seq(Message)
  BY <1>m
<1>u. ASSUME NEW ids \in SUBSET Devices, NEW gone \in SUBSET Devices,
             Update(ids) \/ UpdateFails(gone)
      PROVE  /\ crd' \in (SUBSET Devices) \cup {None}
             /\ stream' \in Seq(StreamEvent)
             /\ faults' \in 0..MaxFaults /\ lost' \subseteq Devices
  <2>1. CASE Update(ids)
    <3>1. Event(ids) \in StreamEvent OBVIOUS
    <3>2. crd' = ids /\ stream' = Append(stream, Event(ids)) /\ NoFault
      BY <2>1 DEF Update
    <3>3. QED BY <1>n, <3>1, <3>2
  <2>2. CASE UpdateFails(gone)
    BY <2>2, FaultTypes DEF UpdateFails
  <2>3. QED BY <1>u, <2>1, <2>2
<1>f. ASSUME ManagerFrame,
             crd' \in (SUBSET Devices) \cup {None},
             identity' \in (SUBSET Devices) \cup {None},
             imq' \in Seq(Message),
             unregister' \in Seq(SUBSET Devices),
             stream' \in Seq(StreamEvent),
             faults' \in 0..MaxFaults, lost' \subseteq Devices
      PROVE  DeviceTypeOK'
  BY <1>f DEF ManagerFrame, storeVars
<1>2. CASE activated_service_user
  <2>1. /\ Head(imq).ids \in SUBSET Devices
        /\ imq' \in Seq(Message)
        /\ unregister' \in Seq(SUBSET Devices)
        /\ ManagerFrame
    BY <1>2, <1>m DEF activated_service_user, Receive
  <2>2. CASE identity # None
    <3>1. identity' = Head(imq).ids /\ (Update(Head(imq).ids) \/ UpdateFails({}))
      BY <1>2, <2>2 DEF activated_service_user
    <3>2. {} \in SUBSET Devices OBVIOUS
    <3>3. /\ crd' \in (SUBSET Devices) \cup {None}
          /\ stream' \in Seq(StreamEvent)
          /\ faults' \in 0..MaxFaults /\ lost' \subseteq Devices
      BY <1>u, <2>1, <3>1, <3>2
    <3>4. QED BY <1>f, <2>1, <3>1, <3>3
  <2>3. CASE identity = None
    <3>1. UNCHANGED <<identity, crd, stream>> /\ NoFault
      BY <1>2, <2>3 DEF activated_service_user
    <3>2. QED BY <1>f, <1>n, <2>1, <3>1
  <2>4. QED BY <2>2, <2>3
<1>3. CASE release_device_id
  <2>1. /\ Head(imq).ids \in SUBSET Devices
        /\ imq' \in Seq(Message)
        /\ ManagerFrame
    BY <1>3, <1>m DEF release_device_id, Receive
  <2>2. CASE identity # None
    <3>1. /\ identity' = identity \cup Head(imq).ids
          /\ Update(identity') \/ UpdateFails(Head(imq).ids)
          /\ \/ UNCHANGED unregister
             \/ unregister' = Append(unregister, Head(imq).ids)
      BY <1>3, <2>2 DEF release_device_id
    <3>2. identity' \in SUBSET Devices BY <2>1, <2>2, <3>1
    <3>3. unregister' \in Seq(SUBSET Devices)
      <4>1. Append(unregister, Head(imq).ids) \in Seq(SUBSET Devices) BY <2>1
      <4>2. QED BY <3>1, <4>1
    <3>4. QED BY <1>f, <1>u, <2>1, <3>1, <3>2, <3>3
  <2>3. CASE identity = None
    <3>1. UNCHANGED <<identity, crd, stream, unregister>> /\ NoFault
      BY <1>3, <2>3 DEF release_device_id
    <3>2. QED BY <1>f, <1>n, <2>1, <3>1
  <2>4. QED BY <2>2, <2>3
<1>4. CASE ActivateServiceUser
  BY <1>4 DEF ActivateServiceUser, kubeVars, injectorVars,
              storeVars, boundVars
<1>5. CASE CreatorReleaseDeviceId
  <2>1. /\ Head(unregister) \in SUBSET Devices
        /\ unregister' \in Seq(SUBSET Devices)
    BY <1>5 DEF CreatorReleaseDeviceId
  <2>2. NoFault \/ FaultLosing(Head(unregister))
    BY <1>5 DEF CreatorReleaseDeviceId
  <2>3. faults' \in 0..MaxFaults /\ lost' \subseteq Devices
    BY <2>1, <2>2, FaultTypes
  <2>4. registered' \subseteq Devices
    BY <1>5 DEF CreatorReleaseDeviceId
  <2>5. QED
    BY <1>5, <2>1, <2>3, <2>4 DEF CreatorReleaseDeviceId, injectorVars, storeVars
<1>6. CASE register_or_update
  BY <1>6 DEF register_or_update, kubeVars, managerVars, boundVars
<1>7. CASE unregister_service
  BY <1>7 DEF unregister_service, kubeVars, managerVars, boundVars
<1>8. ASSUME NEW p \in Pods, DeviceIdNotFound(p) PROVE DeviceTypeOK'
  BY <1>8 DEF DeviceIdNotFound, managerVars, storeVars, boundVars
<1>9. ASSUME NEW p \in Pods, NEW d \in Devices, pop_device_id(p, d)
      PROVE  DeviceTypeOK'
  <2>1. free' \subseteq Devices /\ drawn' \subseteq Devices
    BY <1>9 DEF pop_device_id, Pop
  <2>2. asks' \in Seq({"waiting", "abandoned"})
    BY <1>9 DEF pop_device_id
  <2>3. QED BY <1>9, <2>1, <2>2 DEF pop_device_id, managerVars, boundVars
<1>10. CASE DeleteServiceIdentity
  <2>1. unregister' \in Seq(SUBSET Devices)
    <3>1. PICK ids \in {{}, Devices} : unregister' = Append(unregister, ids)
      BY <1>10 DEF DeleteServiceIdentity
    <3>2. ids \in SUBSET Devices OBVIOUS
    <3>3. QED BY <3>1, <3>2
  <2>2. restarts' + recreations' \in 0..MaxDisturbances /\ recreations' \in Nat
    <3>1. restarts \in Nat /\ recreations \in Nat /\ faults \in Nat OBVIOUS
    <3>2. /\ restarts + recreations + faults < MaxDisturbances
          /\ recreations' = recreations + 1 /\ restarts' = restarts
      BY <1>10 DEF DeleteServiceIdentity, Troubles
    <3>3. QED BY <3>1, <3>2
  <2>3. QED BY <1>10, <2>1, <2>2 DEF DeleteServiceIdentity, storeVars
<1>c. CASE DeviceIdsCommand
  BY <1>c, <1>n DEF DeviceIdsCommand, managerVars, injectorVars, storeVars
<1>11. CASE IdentityServiceRestart
  BY <1>11 DEF IdentityServiceRestart, kubeVars, injectorVars, storeVars
<1>12. CASE InjectorRestart
  <2>1. restarts' + recreations' \in 0..MaxDisturbances /\ restarts' \in Nat
    <3>1. restarts \in Nat /\ recreations \in Nat /\ faults \in Nat OBVIOUS
    <3>2. /\ restarts + recreations + faults < MaxDisturbances
          /\ restarts' = restarts + 1 /\ recreations' = recreations
      BY <1>12 DEF InjectorRestart, Troubles
    <3>3. QED BY <3>1, <3>2
  <2>2. QED BY <1>12, <2>1 DEF InjectorRestart, managerVars
<1>13. CASE StreamRelist
  BY <1>13, <1>n DEF StreamRelist, kubeVars, managerVars, storeVars
<1>14. ASSUME NEW p \in Pods, RequestDeviceId(p) PROVE DeviceTypeOK'
  BY <1>14 DEF RequestDeviceId, managerVars, storeVars, boundVars
<1>15. ASSUME NEW p \in Pods, RequestTimeout(p) PROVE DeviceTypeOK'
  BY <1>15, <1>n DEF RequestTimeout, managerVars, storeVars
<1>16. ASSUME NEW p \in Pods, PodStarts(p) PROVE DeviceTypeOK'
  BY <1>16 DEF PodStarts, managerVars, injectorVars, storeVars, boundVars
<1>17. ASSUME NEW p \in Pods, PodRejected(p) PROVE DeviceTypeOK'
  BY <1>17, <1>n DEF PodRejected, managerVars, injectorVars, storeVars
<1>18. ASSUME NEW p \in Pods, PodEvicted(p) PROVE DeviceTypeOK'
  <2>1. Release(dev[p]) \in Message
    BY <1>18 DEF PodEvicted
  <2>2. Fault \/ NoFault BY <1>18 DEF PodEvicted
  <2>3. imq' \in Seq(Message) BY <1>18, <2>1 DEF PodEvicted
  <2>4. QED BY <1>18, <1>n, <2>2, <2>3 DEF PodEvicted, injectorVars, storeVars
<1>19. ASSUME NEW p \in Pods, PodDeleted(p) PROVE DeviceTypeOK'
  BY <1>19 DEF PodDeleted, injectorVars, storeVars, boundVars
<1>20. CASE UNCHANGED deviceVars
  BY <1>20 DEF deviceVars, kubeVars, managerVars, injectorVars, storeVars,
               boundVars
<1>21. QED
  BY <1>1, <1>2, <1>3, <1>4, <1>5, <1>6, <1>7, <1>8, <1>9, <1>10, <1>11, <1>12,
     <1>13, <1>14, <1>15, <1>16, <1>17, <1>18, <1>19, <1>20, <1>c
     DEF DeviceNext, ManagerStep, CreatorStep, ProviderStep, PodStep

-----------------------------------------------------------------------------
\* Every queue starts empty and no pod has a device id.
LEMMA DeviceInvInit == DeviceInit => DeviceInv
<1> SUFFICES ASSUME DeviceInit PROVE DeviceInv
  OBVIOUS
<1>1. DeviceTypeOK BY DeviceTypeInit
<1>2. OnlyFound /\ Circulation
  BY <1>1, DeviceConstants DEF DeviceInit, DeviceTypeOK, OnlyFound,
     Circulation, Carried, Has, Holds, None
<1>3. QED BY <1>1, <1>2 DEF DeviceInv

\* Steps that put nothing in circulation and give no pod a device id.
LEMMA CirculationFrame ==
    ASSUME DeviceTypeOK, DeviceTypeOK', Circulation,
           seen' = seen, free' = free, drawn' = drawn,
           Carried' \subseteq Carried,
           \A p \in Pods : Has(p)' => /\ Has(p) /\ dev'[p] = dev[p]
                                      /\ pod'[p] = "evicted" <=> pod[p] = "evicted"
    PROVE  Circulation'
BY DEF Circulation, Has, Holds, DeviceTypeOK

\* The elements of a queue after its head was read.
LEMMA TailElements ==
    ASSUME NEW S, NEW q \in Seq(S), q # <<>>
    PROVE  /\ Head(q) = q[1] /\ 1 \in 1..Len(q)
           /\ \A i \in 1..Len(Tail(q)) :
                 i + 1 \in 1..Len(q) /\ Tail(q)[i] = q[i + 1]
OBVIOUS

\* The elements of a queue after a message was added.
LEMMA AppendElements ==
    ASSUME NEW S, NEW q \in Seq(S), NEW e \in S, NEW r, r = Append(q, e)
    PROVE  \A i \in 1..Len(r) : r[i] = e \/ (i \in 1..Len(q) /\ r[i] = q[i])
OBVIOUS

\* A pod that has ended puts its id in circulation again.
LEMMA CirculationRelease ==
    ASSUME DeviceTypeOK, DeviceTypeOK', Circulation,
           seen' = seen, free' = free, drawn' = drawn, dev' = dev,
           NEW p \in Pods, Has(p), ~Holds(p)',
           Carried' \subseteq Carried \cup {dev[p]},
           pod'[p] # "none", pod'[p] # "asked",
           \A q \in Pods \ {p} : pod'[q] = pod[q]
    PROVE  Circulation'
<1>1. \A q \in Pods : Has(q)' => Has(q)
  BY DEF Has
<1>2. \A q \in Pods : Holds(q)' => q # p /\ Holds(q)
  BY DEF Holds
<1>3. \A q \in Pods : Holds(q)' /\ dev[q] = dev[p] => dev[q] \in seen
  BY <1>2 DEF Circulation
<1>4. dev[p] \in drawn
  BY DEF Circulation
<1>5. \A q \in Pods : pod[q] = "evicted" /\ Has(q)' => pod'[q] = "evicted"
  BY DEF Has, Holds, DeviceTypeOK
<1>6. QED
  BY <1>1, <1>2, <1>3, <1>4, <1>5 DEF Circulation, DeviceTypeOK

\* An event adds to the pool only ids no pod holds.
LEMMA CirculationRegister ==
    ASSUME DeviceTypeOK, DeviceTypeOK', Circulation, register_or_update
    PROVE  Circulation'
<1> DEFINE ids == Head(stream).ids
           current == IF seen = None THEN {} ELSE seen
<1>1. /\ seen' = current \cup ids
      /\ free' = free \cup (ids \ current)
      /\ stream # <<>> /\ stream' = Tail(stream)
      /\ UNCHANGED <<crd, pod, dev, identity, imq, drawn>>
  BY DEF register_or_update, kubeVars, managerVars
<1>2. stream \in Seq(StreamEvent) BY DEF DeviceTypeOK
<1>3. ids \subseteq Devices
  BY <1>1, <1>2, MessageTypes, TailElements
<1>4. ids \subseteq Carried
  BY <1>1, <1>2, <1>3, TailElements DEF Carried
<1>5. Carried' \subseteq Carried
  BY <1>1, <1>2, TailElements DEF Carried
<1>6. current \subseteq seen /\ seen \ {NoDevice} \subseteq current
  BY DEF None, DeviceTypeOK
<1>7. seen' \ {NoDevice} \subseteq seen \cup Carried
  BY <1>1, <1>4, <1>6
<1>8. \A p \in Pods : Has(p) => dev[p] \in Devices /\ dev[p] # NoDevice
  BY DeviceConstants DEF DeviceTypeOK, Has
<1>9. \A p \in Pods : Holds(p) => Has(p)
  BY DEF Holds, Has
<1>10. free' \subseteq seen'
  BY <1>1, <1>6, DeviceConstants DEF Circulation, DeviceTypeOK
<1>11. \A d \in Devices : d \in Carried' \/ d \in seen' => d \in drawn'
  BY <1>1, <1>4, <1>5, <1>6, <1>7 DEF Circulation
<1>12. \A p \in Pods : Holds(p) =>
          dev[p] \notin free' /\ (dev[p] \in Carried' => dev[p] \in seen')
  BY <1>1, <1>4, <1>5, <1>6, <1>8, <1>9 DEF Circulation
<1>13. \A p \in Pods : Has(p) /\ dev[p] \in seen => dev[p] \in seen'
  BY <1>1, <1>6, <1>8
<1>14. QED
  BY <1>1, <1>9, <1>10, <1>11, <1>12, <1>13 DEF Circulation, Has, Holds

\* A pod is given an id that was free, or that nobody ever had.
LEMMA CirculationPop ==
    ASSUME DeviceTypeOK, DeviceTypeOK', Circulation,
           NEW p \in Pods, NEW d \in Devices, pop_device_id(p, d)
    PROVE  Circulation'
<1>1. /\ UNCHANGED <<crd, identity, imq, stream, seen>>
      /\ seen # None
      /\ Pop(d)
  BY DEF pop_device_id, managerVars
<1>2. Carried' = Carried BY <1>1 DEF Carried
<1>3. /\ free' \subseteq free /\ d \notin free'
      /\ drawn \subseteq drawn' /\ d \in drawn'
  BY <1>1, Zenon DEF Pop, Circulation
<1>4. \A q \in Pods : Holds(q) => Has(q) /\ dev[q] # d
  BY <1>1 DEF Pop, Circulation, Holds, Has
<1>5. \A q \in Pods : Has(q) /\ dev[q] = d => d \in seen
  BY <1>1 DEF Pop, Circulation
<1>6. d \in Carried => d \in seen
  BY <1>1 DEF Pop, Circulation
<1>7. CASE UNCHANGED <<pod, dev>>
  BY <1>1, <1>2, <1>3, <1>7 DEF Circulation, Holds, Has
<1>8. CASE /\ pod[p] = "asked"
           /\ pod' = [pod EXCEPT ![p] = "patched"]
           /\ dev' = [dev EXCEPT ![p] = d]
  <2>1. pod'[p] = "patched" /\ dev'[p] = d
    BY <1>8 DEF DeviceTypeOK
  <2>2. \A q \in Pods \ {p} : pod'[q] = pod[q] /\ dev'[q] = dev[q]
    BY <1>8 DEF DeviceTypeOK
  <2>3. \A q \in Pods : Has(q)' => dev'[q] \in drawn'
    BY <1>3, <2>1, <2>2 DEF Circulation, Has
  <2>4. \A q \in Pods : Holds(q)' =>
           dev'[q] \notin free' /\ (dev'[q] \in Carried' => dev'[q] \in seen')
    BY <1>1, <1>2, <1>3, <1>6, <2>1, <2>2 DEF Circulation, Holds
  <2>5. ASSUME NEW a \in Pods, NEW b \in Pods, a # b, dev'[a] = dev'[b],
               Has(a)', Holds(b)'
        PROVE  pod'[a] = "evicted" /\ dev'[b] \in seen'
    <3>1. CASE a = p
      BY <1>4, <2>1, <2>2, <2>5, <3>1 DEF Holds
    <3>2. CASE b = p
      <4>1. Has(a) /\ dev[a] = d BY <2>1, <2>2, <2>5, <3>2 DEF Has
      <4>2. QED BY <1>1, <1>4, <1>5, <2>1, <2>2, <2>5, <3>2, <4>1 DEF Has, Holds
    <3>3. CASE a # p /\ b # p
      BY <1>1, <2>2, <2>5, <3>3 DEF Circulation, Has, Holds
    <3>4. QED BY <3>1, <3>2, <3>3
  <2>6. QED
    BY <1>1, <1>2, <1>3, <2>3, <2>4, <2>5 DEF Circulation
<1>9. QED BY <1>7, <1>8 DEF pop_device_id

\* Every step keeps the invariant.
LEMMA DeviceInvStep == DeviceInv /\ [DeviceNext]_deviceVars => DeviceInv'
<1> SUFFICES ASSUME DeviceInv, [DeviceNext]_deviceVars, Undisturbed'
             PROVE  OnlyFound' /\ Circulation'
  BY DeviceTypeStep DEF DeviceInv
<1>t. DeviceTypeOK /\ DeviceTypeOK'
  BY DeviceTypeStep DEF DeviceInv
<1>q. imq \in Seq(Message) /\ stream \in Seq(StreamEvent)
  BY <1>t DEF DeviceTypeOK
<1>s. restarts \in Nat /\ recreations \in Nat
  BY <1>t DEF DeviceTypeOK
<1> DEFINE Same == seen' = seen /\ free' = free /\ drawn' = drawn
           Quiet == /\ Same /\ dev' = dev
                    /\ \A p \in Pods : Has(p)' => pod'[p] = pod[p]
<1>f. ASSUME Circulation, Quiet, Carried' \subseteq Carried PROVE Circulation'
  <2>1. \A p \in Pods : Has(p)' => /\ Has(p) /\ dev'[p] = dev[p]
                                   /\ pod'[p] = "evicted" <=> pod[p] = "evicted"
    BY <1>f DEF Has
  <2>2. QED BY <1>t, <1>f, <2>1, CirculationFrame
<1>o. ASSUME OnlyFound, stream # <<>>, stream' = Tail(stream) PROVE OnlyFound'
  BY <1>o, <1>q, TailElements DEF OnlyFound
<1>a. ASSUME OnlyFound, NEW ids \in SUBSET Devices,
             stream' = Append(stream, Event(ids))
      PROVE  /\ OnlyFound'
             /\ \A i \in 1..Len(stream') :
                   stream'[i].ids = ids \/ (i \in 1..Len(stream) /\ stream'[i] = stream[i])
  <2>1. Event(ids) \in StreamEvent /\ Event(ids).op = "Found" /\ Event(ids).ids = ids
    BY MessageTypes DEF Event
  <2>2. \A i \in 1..Len(stream') :
           stream'[i] = Event(ids) \/ (i \in 1..Len(stream) /\ stream'[i] = stream[i])
    <3>1. Event(ids) \in StreamEvent BY <2>1
    <3>2. QED BY <1>a, <1>q, <3>1, AppendElements
  <2>3. QED BY <2>1, <2>2, <1>a DEF OnlyFound
<1>u. ASSUME Undisturbed => OnlyFound /\ Circulation,
             UNCHANGED <<restarts, recreations>>
      PROVE  OnlyFound /\ Circulation
  BY <1>u DEF Undisturbed
<1>1. CASE CreateServiceIdentity
  <2>1. OnlyFound /\ Circulation
    BY <1>1, <1>u DEF CreateServiceIdentity, DeviceInv
  <2>2. identity' = {} /\ imq' = imq /\ Quiet
    BY <1>1 DEF CreateServiceIdentity, storeVars
  <2>3. CASE crd' = {} /\ stream' = Append(stream, Event({}))
    <3>1. Carried' \subseteq Carried
      BY <1>a, <2>1, <2>2, <2>3 DEF Carried
    <3>2. QED BY <1>a, <1>f, <2>1, <2>2, <2>3, <3>1
  <2>4. CASE UNCHANGED <<crd, stream>>
    <3>1. Carried' \subseteq Carried
      BY <2>2, <2>4 DEF Carried
    <3>2. QED BY <1>f, <2>1, <2>2, <2>4, <3>1 DEF OnlyFound
  <2>5. QED BY <1>1, <2>3, <2>4 DEF CreateServiceIdentity
<1>m. ASSUME imq # <<>>, imq' = Tail(imq)
      PROVE  /\ Head(imq).ids \in SUBSET Devices
             /\ \A d \in Devices :
                   \/ d \in Head(imq).ids
                   \/ \E i \in 1..Len(imq') : d \in imq'[i].ids
                   => \E i \in 1..Len(imq) : d \in imq[i].ids
  BY <1>m, <1>q, TailElements, MessageTypes
<1>2. CASE activated_service_user
  <2>1. OnlyFound /\ Circulation
    BY <1>2, <1>u DEF activated_service_user, ManagerFrame, DeviceInv
  <2>2. imq # <<>> /\ imq' = Tail(imq) /\ Quiet
    BY <1>2 DEF activated_service_user, Receive, ManagerFrame, storeVars
  <2>3. CASE /\ identity' = Head(imq).ids
             /\ crd' = Head(imq).ids
             /\ stream' = Append(stream, Event(Head(imq).ids))
    <3>1. Head(imq).ids \in SUBSET Devices BY <1>m, <2>2
    <3>2. Carried' \subseteq Carried
      BY <1>a, <1>m, <2>1, <2>2, <2>3, <3>1 DEF Carried
    <3>3. QED BY <1>a, <1>f, <2>1, <2>2, <2>3, <3>1, <3>2
  <2>4. CASE identity' \in {identity, Head(imq).ids} /\ UNCHANGED <<crd, stream>>
    <3>1. Carried' \subseteq Carried
      BY <1>m, <2>2, <2>4 DEF Carried
    <3>2. QED BY <1>f, <2>1, <2>2, <2>4, <3>1 DEF OnlyFound
  <2>5. QED
    BY <1>2, <2>3, <2>4 DEF activated_service_user, Update, UpdateFails
<1>3. CASE release_device_id
  <2>1. OnlyFound /\ Circulation
    BY <1>3, <1>u DEF release_device_id, ManagerFrame, DeviceInv
  <2>2. imq # <<>> /\ imq' = Tail(imq) /\ Quiet
    BY <1>3 DEF release_device_id, Receive, ManagerFrame, storeVars
  <2>3. CASE /\ identity # None
             /\ identity' = identity \cup Head(imq).ids
             /\ crd' = identity'
             /\ stream' = Append(stream, Event(identity'))
    <3>1. identity' \in SUBSET Devices
      BY <1>m, <1>t, <2>2, <2>3 DEF DeviceTypeOK
    <3>2. OnlyFound' /\ \A i \in 1..Len(stream') :
             \/ stream'[i].ids = identity'
             \/ (i \in 1..Len(stream) /\ stream'[i] = stream[i])
      BY <1>a, <2>1, <2>3, <3>1
    <3>3. Carried' \subseteq Carried
      BY <1>m, <2>2, <2>3, <3>2 DEF Carried
    <3>4. QED BY <1>f, <2>1, <2>2, <3>2, <3>3
  <2>4. CASE /\ identity' \in {identity, identity \cup Head(imq).ids}
             /\ UNCHANGED <<crd, stream>>
    <3>1. Carried' \subseteq Carried
      BY <1>m, <2>2, <2>4 DEF Carried
    <3>2. QED BY <1>f, <2>1, <2>2, <2>4, <3>1 DEF OnlyFound
  <2>5. QED
    BY <1>3, <2>3, <2>4 DEF release_device_id, Update, UpdateFails
<1>4. CASE ActivateServiceUser
  <2>1. OnlyFound /\ Circulation
    BY <1>4, <1>u DEF ActivateServiceUser, boundVars, DeviceInv
  <2>2. /\ imq' = Append(imq, Activated) /\ Quiet
        /\ UNCHANGED <<crd, identity, stream>>
    BY <1>4 DEF ActivateServiceUser, kubeVars, injectorVars, storeVars
  <2>3. \A i \in 1..Len(imq') :
           imq'[i].ids = {} \/ (i \in 1..Len(imq) /\ imq'[i] = imq[i])
    <3>1. Activated \in Message /\ Activated.ids = {}
      BY MessageTypes DEF Activated
    <3>2. \A i \in 1..Len(imq') :
             imq'[i] = Activated \/ (i \in 1..Len(imq) /\ imq'[i] = imq[i])
      BY <1>q, <2>2, <3>1, AppendElements
    <3>3. QED BY <3>1, <3>2
  <2>4. Carried' \subseteq Carried
    BY <2>2, <2>3 DEF Carried
  <2>5. QED BY <1>f, <2>1, <2>2, <2>4 DEF OnlyFound
<1>p. ASSUME UNCHANGED <<crd, identity, imq, stream, restarts, recreations>>, Quiet
      PROVE  OnlyFound' /\ Circulation'
  <2>1. OnlyFound /\ Circulation BY <1>p, <1>u DEF DeviceInv
  <2>2. Carried' = Carried BY <1>p DEF Carried
  <2>3. QED BY <1>f, <1>p, <2>1, <2>2 DEF OnlyFound
<1>5. CASE CreatorReleaseDeviceId
  BY <1>5, <1>p DEF CreatorReleaseDeviceId, injectorVars, storeVars
<1>6. CASE register_or_update
  <2>1. OnlyFound /\ Circulation
    BY <1>6, <1>u DEF register_or_update, boundVars, DeviceInv
  <2>2. QED BY <1>6, <1>t, <1>o, <2>1, CirculationRegister DEF register_or_update
<1>7. CASE unregister_service
  <2>1. OnlyFound BY <1>7, <1>u DEF unregister_service, boundVars, DeviceInv
  <2>2. QED BY <1>7, <1>q, <2>1, TailElements DEF unregister_service, OnlyFound
<1>8. ASSUME NEW p \in Pods, DeviceIdNotFound(p) PROVE OnlyFound' /\ Circulation'
  <2>1. Quiet BY <1>8, <1>t DEF DeviceIdNotFound, storeVars, DeviceTypeOK, Has
  <2>2. QED BY <1>8, <1>p, <2>1 DEF DeviceIdNotFound, managerVars, boundVars
<1>9. ASSUME NEW p \in Pods, NEW d \in Devices, pop_device_id(p, d)
      PROVE  OnlyFound' /\ Circulation'
  <2>1. OnlyFound /\ Circulation
    BY <1>9, <1>u DEF pop_device_id, boundVars, DeviceInv
  <2>2. OnlyFound' BY <1>9, <2>1 DEF pop_device_id, OnlyFound
  <2>3. QED BY <1>9, <1>t, <2>1, <2>2, CirculationPop
<1>10. CASE DeleteServiceIdentity
  BY <1>10, <1>s DEF DeleteServiceIdentity, Undisturbed
<1>c. CASE DeviceIdsCommand
  BY <1>c, <1>p DEF DeviceIdsCommand, managerVars, injectorVars, storeVars
<1>11. CASE IdentityServiceRestart
  <2>1. OnlyFound /\ Circulation
    BY <1>11, <1>u DEF IdentityServiceRestart, DeviceInv
  <2>2. /\ identity' = crd /\ imq' = <<>> /\ Quiet
        /\ UNCHANGED <<crd, stream>>
    BY <1>11 DEF IdentityServiceRestart, kubeVars, injectorVars, storeVars
  <2>3. Carried' \subseteq Carried BY <2>2 DEF Carried
  <2>4. QED BY <1>f, <2>1, <2>2, <2>3 DEF OnlyFound
<1>12. CASE InjectorRestart
  BY <1>12, <1>s DEF InjectorRestart, Undisturbed
<1>13. CASE StreamRelist
  <2>1. OnlyFound /\ Circulation
    BY <1>13, <1>u DEF StreamRelist, DeviceInv
  <2>2. stream' = <<>> /\ Quiet /\ UNCHANGED <<crd, identity, imq>>
    BY <1>13 DEF StreamRelist, kubeVars, managerVars, storeVars
  <2>3. Carried' \subseteq Carried BY <2>2 DEF Carried
  <2>4. QED BY <1>f, <2>1, <2>2, <2>3 DEF OnlyFound
<1>14. ASSUME NEW p \in Pods, RequestDeviceId(p) PROVE OnlyFound' /\ Circulation'
  <2>1. Quiet BY <1>14, <1>t DEF RequestDeviceId, storeVars, DeviceTypeOK, Has
  <2>2. QED BY <1>14, <1>p, <2>1 DEF RequestDeviceId, managerVars, boundVars
<1>15. ASSUME NEW p \in Pods, RequestTimeout(p) PROVE OnlyFound' /\ Circulation'
  <2>1. Quiet BY <1>15, <1>t DEF RequestTimeout, storeVars, DeviceTypeOK, Has
  <2>2. QED BY <1>15, <1>p, <2>1 DEF RequestTimeout, managerVars
<1>r. ASSUME UNCHANGED <<crd, identity, imq, stream, restarts, recreations>>, Same,
             \A q \in Pods : Has(q)' => /\ Has(q) /\ dev'[q] = dev[q]
                                        /\ pod'[q] = "evicted" <=> pod[q] = "evicted"
      PROVE  OnlyFound' /\ Circulation'
  <2>1. OnlyFound /\ Circulation BY <1>r, <1>u DEF DeviceInv
  <2>2. Carried' = Carried BY <1>r DEF Carried
  <2>3. QED BY <1>r, <1>t, <2>1, <2>2, CirculationFrame DEF OnlyFound
<1>16. ASSUME NEW p \in Pods, PodStarts(p) PROVE OnlyFound' /\ Circulation'
  BY <1>16, <1>r, <1>t DEF PodStarts, managerVars, injectorVars, storeVars,
     boundVars, DeviceTypeOK, Has
<1>17. ASSUME NEW p \in Pods, PodRejected(p) PROVE OnlyFound' /\ Circulation'
  BY <1>17, <1>r, <1>t DEF PodRejected, managerVars, injectorVars, storeVars,
     DeviceTypeOK, Has
<1>e. ASSUME NEW p \in Pods, Has(p), dev' = dev, Same,
             UNCHANGED <<crd, identity, stream, restarts, recreations>>,
             imq' = Append(imq, Release(dev[p])),
             pod'[p] \in {"evicted", "gone"},
             \A q \in Pods \ {p} : pod'[q] = pod[q]
      PROVE  OnlyFound' /\ Circulation'
  <2>1. OnlyFound /\ Circulation BY <1>e, <1>u DEF DeviceInv
  <2>2. \A i \in 1..Len(imq') :
           imq'[i].ids = {dev[p]} \/ (i \in 1..Len(imq) /\ imq'[i] = imq[i])
    <3>1. Release(dev[p]) \in Message /\ Release(dev[p]).ids = {dev[p]}
      BY <1>t, <1>e, MessageTypes DEF DeviceTypeOK, Has, Release
    <3>2. \A i \in 1..Len(imq') : \/ imq'[i] = Release(dev[p])
                                  \/ (i \in 1..Len(imq) /\ imq'[i] = imq[i])
      BY <1>q, <1>e, <3>1, AppendElements
    <3>3. QED BY <3>1, <3>2
  <2>3. Carried' \subseteq Carried \cup {dev[p]} BY <1>e, <2>2 DEF Carried
  <2>4. ~Holds(p)' BY <1>e DEF Holds
  <2>5. Circulation' BY <1>e, <1>t, <2>1, <2>3, <2>4, CirculationRelease
  <2>6. QED BY <1>e, <2>1, <2>5 DEF OnlyFound
<1>18. ASSUME NEW p \in Pods, PodEvicted(p) PROVE OnlyFound' /\ Circulation'
  BY <1>18, <1>e, <1>t DEF PodEvicted, injectorVars, storeVars,
     DeviceTypeOK, Has
<1>19. ASSUME NEW p \in Pods, PodDeleted(p) PROVE OnlyFound' /\ Circulation'
  BY <1>19, <1>e, <1>t DEF PodDeleted, injectorVars, storeVars, boundVars,
     DeviceTypeOK, Has
<1>20. CASE UNCHANGED deviceVars
  BY <1>20, <1>p DEF deviceVars, kubeVars, managerVars, injectorVars, storeVars,
     boundVars, Has
<1>21. QED
  BY <1>1, <1>2, <1>3, <1>4, <1>5, <1>6, <1>7, <1>8, <1>9, <1>10, <1>11, <1>12,
     <1>13, <1>14, <1>15, <1>16, <1>17, <1>18, <1>19, <1>20, <1>c
     DEF DeviceNext, ManagerStep, CreatorStep, ProviderStep, PodStep

-----------------------------------------------------------------------------
\* Every state of the device id model is well typed, and a pod past admission
\* has a device id.
THEOREM DeviceTyping == DeviceSpec => []DeviceTypeOK
BY DeviceTypeInit, DeviceTypeStep, PTL DEF DeviceSpec

\* Where device ids are while the injector and the identity last: an id in the
\* pool, or again with a pod, is one the store has seen.
THEOREM DeviceInvariant == DeviceSpec => []DeviceInv
BY DeviceInvInit, DeviceInvStep, PTL DEF DeviceSpec

\* As long as neither the injector restarts nor the ServiceIdentity is deleted,
\* no two pods hold one device id, for any number of pods, whatever timeouts,
\* evictions, lost events, failed updates and Identity Service restarts occur.
THEOREM DistinctDevicesAlways ==
    DeviceSpec => [](Undisturbed => DistinctDevices)
<1>1. DeviceInv => (Undisturbed => DistinctDevices)
  BY DEF DeviceInv, Circulation, DistinctDevices, Holds, Has
<1>2. QED
  BY <1>1, DeviceInvariant, PTL
=============================================================================
