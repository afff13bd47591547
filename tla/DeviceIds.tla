----------------------------- MODULE DeviceIds ------------------------------
(***************************************************************************)
(* The device ids of one service, from the injector that hands them to     *)
(* pods to the Identity Service that takes them back:                      *)
(*                                                                         *)
(*   pod deleted -> Pod watcher -> Identity Manager: the id is added to    *)
(*   the ServiceIdentity, and only then is the Identity Creator asked to   *)
(*   unregister it -> ServiceIdentity watcher of the injector -> pool of   *)
(*   the DeviceIdProvider -> next pod.                                     *)
(*                                                                         *)
(* A device stands for a uuid.  The order of ids in a list or a pool is    *)
(* left out: no property depends on which free id a pod gets.              *)
(***************************************************************************)
EXTENDS Integers, Sequences, FiniteSets

CONSTANTS
    Pods,            \* admissions of pods of the service
    Devices,         \* uuids
    NoDevice,
    MaxDisturbances, \* bound: restarts of the injector, deletions of the
                     \* identity (with the faults)
    MaxCrashes,      \* bound: restarts of the Identity Service
    MaxFaults        \* bound: timeouts, failed calls, rejected pods, broken
                     \* streams, commands, second reports of an eviction
                     \* (with the disturbances)

ASSUME DeviceConstants ==
    /\ NoDevice \notin Devices
    /\ MaxDisturbances \in Nat /\ MaxCrashes \in Nat /\ MaxFaults \in Nat

\* There is no ServiceIdentity (in a store, in Kubernetes).
None == {NoDevice}

VARIABLES
    \* Kubernetes and the controller
    crd,         \* device_ids of the ServiceIdentity object, or None
    pod,         \* none -> asked -> patched -> running -> (evicted ->) gone
    dev,         \* the device id in each pod's annotation
    registered,  \* device ids registered in the controller
    \* The Identity Service
    identity,    \* device_ids of the registered ServiceIdentity, or None
    imq,         \* messages about device ids in the manager's channel
    activating,  \* ActivateServiceUser messages in the creator's channel
    unregister,  \* ids to unregister, of messages in the creator's channel
    \* The injector
    stream,      \* ServiceIdentity events on their way to the provider
    seen,        \* device_ids of the stored identity, or None
    free,        \* its RegisteredDeviceId
    asks,        \* RequestDeviceId messages: is the requester still there?
    drawn,       \* uuids drawn so far
    restarts, crashes, recreations, faults,
    \* History: ids that an error kept from being unregistered.
    lost

kubeVars == <<crd, pod, dev, registered>>
managerVars == <<identity, imq, activating, unregister>>
storeVars == <<seen, free>>
injectorVars == <<stream, storeVars, asks, drawn>>
boundVars == <<restarts, crashes, recreations, faults, lost>>
deviceVars == <<kubeVars, managerVars, injectorVars, boundVars>>

StreamEvent == [op : {"Found", "Deleted"}, ids : SUBSET Devices]
Message == [type : {"ReleaseDeviceId", "ActivatedServiceUser"},
            ids : SUBSET Devices]

\* An event for the injector's ServiceIdentity watcher.
Event(ids) == [op |-> "Found", ids |-> ids]
DeletedEvent == [op |-> "Deleted", ids |-> {}]
\* A message for the manager's channel.
Release(d) == [type |-> "ReleaseDeviceId", ids |-> {d}]
\* ActivatedServiceUser carries the user as it was in the pool: no device ids.
Activated == [type |-> "ActivatedServiceUser", ids |-> {}]

\* Disturbances and faults so far: the bounds of both limit their sum.
Troubles == restarts + recreations + faults

\* A fault that keeps some ids from being unregistered, any other fault, none.
FaultLosing(ids) ==
    /\ Troubles < MaxFaults
    /\ faults' = faults + 1
    /\ lost' = lost \cup ids

Fault == FaultLosing({})
NoFault == UNCHANGED <<faults, lost>>

-----------------------------------------------------------------------------
(***************************************************************************)
(* Identity Manager and Identity Creator.                                  *)
(***************************************************************************)
\* next_identity and create, with a user of the pool.  If create fails, the
\* identity is in the manager's memory only.
CreateServiceIdentity ==
    /\ identity = None /\ crd = None
    /\ identity' = {}
    /\ \/ /\ crd' = {}
          /\ activating' = activating + 1
          /\ stream' = Append(stream, Event({}))
          /\ NoFault
       \/ Fault /\ UNCHANGED <<crd, activating, stream>>
    /\ UNCHANGED <<pod, dev, registered, imq, unregister, storeVars, asks,
                   drawn, restarts, crashes, recreations>>

\* DeleteServiceUser makes the creator unregister the devices found under the
\* user's name: all of the service, or none if that is still its pool name.
DeleteServiceIdentity ==
    /\ Troubles < MaxDisturbances
    /\ recreations' = recreations + 1
    /\ identity # None /\ crd # None
    /\ identity' = None
    /\ crd' = None
    /\ stream' = Append(stream, DeletedEvent)
    /\ \E ids \in {{}, Devices} : unregister' = Append(unregister, ids)
    /\ UNCHANGED <<pod, dev, registered, imq, activating, storeVars, asks,
                   drawn, restarts, crashes, faults, lost>>

\* The creator activates the user and notifies the manager.
ActivateServiceUser ==
    /\ activating > 0
    /\ activating' = activating - 1
    /\ imq' = Append(imq, Activated)
    /\ UNCHANGED <<kubeVars, identity, unregister, injectorVars, boundVars>>

\* Consume the head of the manager's channel.
Receive(type) ==
    /\ imq # <<>>
    /\ Head(imq).type = type
    /\ imq' = Tail(imq)

\* What both handlers leave alone.
ManagerFrame ==
    UNCHANGED <<pod, dev, registered, activating, storeVars, asks, drawn,
                restarts, crashes, recreations>>

\* Faulty: the object is written back as it was.
Update_Stale(ids) ==
    /\ stream' = Append(stream, Event(crd))
    /\ NoFault
    /\ UNCHANGED crd

\* service_identity_api.update: the object takes the ids, and its watchers see it.
Update(ids) ==
    /\ crd' = ids
    /\ stream' = Append(stream, Event(ids))
    /\ NoFault

\* An update that fails ends the handler, which then does not ask for ids.
UpdateFails(ids) == FaultLosing(ids) /\ UNCHANGED <<crd, stream>>

\* The identity takes the user of the message, with its device ids.
activated_service_user ==
    /\ Receive("ActivatedServiceUser")
    /\ \/ /\ identity # None
          /\ identity' = Head(imq).ids
          /\ Update(Head(imq).ids) \/ UpdateFails({})
       \/ /\ identity = None
          /\ NoFault
          /\ UNCHANGED <<identity, crd, stream>>
    /\ UNCHANGED unregister
    /\ ManagerFrame

\* The id stays in the manager's copy when the update fails.
release_device_id ==
    /\ Receive("ReleaseDeviceId")
    /\ \/ /\ identity # None
          /\ identity' = identity \cup Head(imq).ids
          /\ Update(identity')
          /\ unregister' = Append(unregister, Head(imq).ids)
       \/ /\ identity # None
          /\ identity' = identity \cup Head(imq).ids
          /\ UpdateFails(Head(imq).ids)
          /\ UNCHANGED unregister
       \/ /\ identity = None
          /\ NoFault
          /\ UNCHANGED <<identity, crd, stream, unregister>>
    /\ ManagerFrame

\* Faulty: the controller is not told.
CreatorReleaseDeviceId_Lost ==
    /\ unregister # <<>>
    /\ unregister' = Tail(unregister)
    /\ UNCHANGED <<kubeVars, identity, imq, activating, injectorVars, boundVars>>

\* The creator unregisters the device id from the controller; after an error
\* the request is logged and lost.
CreatorReleaseDeviceId ==
    /\ unregister # <<>>
    /\ \/ registered' = registered \ Head(unregister) /\ NoFault
       \/ UNCHANGED registered /\ FaultLosing(Head(unregister))
    /\ unregister' = Tail(unregister)
    /\ UNCHANGED <<crd, pod, dev, identity, imq, activating, injectorVars,
                   restarts, crashes, recreations>>

\* The command device-ids: an operator unregisters devices of the service that
\* were last seen before some time, up to the first error; pods may use them.
DeviceIdsCommand ==
    /\ Fault
    /\ \E ids \in SUBSET registered :
          ids # {} /\ registered' = registered \ ids
    /\ UNCHANGED <<crd, pod, dev, managerVars, injectorVars, restarts, crashes,
                   recreations>>

\* The Identity Service restarts: messages are lost, the identity is restored.
IdentityServiceRestart ==
    /\ crashes < MaxCrashes
    /\ crashes' = crashes + 1
    /\ identity' = crd
    /\ imq' = <<>> /\ unregister' = <<>>
    /\ activating' = 0
    /\ UNCHANGED <<kubeVars, injectorVars, restarts, recreations, faults, lost>>

-----------------------------------------------------------------------------
(***************************************************************************)
(* DeviceIdProvider and its InMemoryIdentityStore.                         *)
(***************************************************************************)
\* Faulty: every id of the object goes to the pool again.
register_or_update_Again ==
    /\ stream # <<>>
    /\ Head(stream).op = "Found"
    /\ LET ids == Head(stream).ids
       IN  /\ seen' = (IF seen = None THEN {} ELSE seen) \cup ids
           /\ free' = free \cup ids
    /\ stream' = Tail(stream)
    /\ UNCHANGED <<kubeVars, managerVars, asks, drawn, boundVars>>

\* FoundServiceIdentity: ids not among those of the stored identity go to the
\* pool, and join the identity.
register_or_update ==
    /\ stream # <<>>
    /\ Head(stream).op = "Found"
    /\ LET ids == Head(stream).ids
           current == IF seen = None THEN {} ELSE seen
       IN  /\ seen' = current \cup ids
           /\ free' = free \cup (ids \ current)
    /\ stream' = Tail(stream)
    /\ UNCHANGED <<kubeVars, managerVars, asks, drawn, boundVars>>

unregister_service ==
    /\ stream # <<>>
    /\ Head(stream).op = "Deleted"
    /\ seen' = None
    /\ free' = {}
    /\ stream' = Tail(stream)
    /\ UNCHANGED <<kubeVars, managerVars, asks, drawn, boundVars>>

\* The watch stream breaks; what it missed comes as InitApply and is ignored.
StreamRelist ==
    /\ stream # <<>>
    /\ Fault
    /\ stream' = <<>>
    /\ UNCHANGED <<kubeVars, managerVars, storeVars, asks, drawn, restarts,
                   crashes, recreations>>

\* The webhook asks for a device id; attempts_store is locked until it answers,
\* so one request at a time is waited for.
RequestDeviceId(p) ==
    /\ pod[p] = "none"
    /\ \A q \in Pods : pod[q] # "asked"
    /\ pod' = [pod EXCEPT ![p] = "asked"]
    /\ asks' = Append(asks, "waiting")
    /\ UNCHANGED <<crd, dev, registered, managerVars, stream, storeVars, drawn,
                   boundVars>>

\* The requester gives up after 5 seconds; its message stays in the channel.
RequestTimeout(p) ==
    /\ pod[p] = "asked"
    /\ Fault
    /\ pod' = [pod EXCEPT ![p] = "none"]
    /\ asks' = [i \in 1..Len(asks) |-> "abandoned"]
    /\ UNCHANGED <<crd, dev, registered, managerVars, stream, storeVars, drawn,
                   restarts, crashes, recreations>>

\* Faulty: the id stays in the pool.
Pop_Peek(d) ==
    \/ /\ d \in free
       /\ UNCHANGED <<free, drawn>>
    \/ /\ free = {}
       /\ d \notin drawn
       /\ drawn' = drawn \cup {d}
       /\ UNCHANGED free

\* Faulty: a fresh id enters the pool, too.
Pop_Shared(d) ==
    \/ /\ d \in free
       /\ free' = free \ {d}
       /\ UNCHANGED drawn
    \/ /\ free = {}
       /\ d \notin drawn
       /\ drawn' = drawn \cup {d}
       /\ free' = {d}

\* RegisteredDeviceId::pop: an id of the pool, or else a fresh one.
Pop(d) ==
    \/ /\ d \in free
       /\ free' = free \ {d}
       /\ UNCHANGED drawn
    \/ /\ free = {}
       /\ d \notin drawn
       /\ drawn' = drawn \cup {d}
       /\ UNCHANGED free

\* An answer nobody waits for is dropped together with the device id.
pop_device_id(p, d) ==
    /\ asks # <<>>
    /\ seen # None
    /\ Pop(d)
    /\ \/ /\ Head(asks) = "waiting"
          /\ pod[p] = "asked"
          /\ pod' = [pod EXCEPT ![p] = "patched"]
          /\ dev' = [dev EXCEPT ![p] = d]
       \/ /\ Head(asks) = "abandoned"
          /\ UNCHANGED <<pod, dev>>
    /\ asks' = Tail(asks)
    /\ UNCHANGED <<crd, registered, managerVars, stream, seen, boundVars>>

\* NotFound: the webhook rejects the pod, whose owner will try again.
DeviceIdNotFound(p) ==
    /\ asks # <<>>
    /\ seen = None
    /\ pod' = IF Head(asks) = "waiting" /\ pod[p] = "asked"
              THEN [pod EXCEPT ![p] = "none"]
              ELSE pod
    /\ asks' = Tail(asks)
    /\ UNCHANGED <<crd, dev, registered, managerVars, stream, storeVars, drawn,
                   boundVars>>

\* The injector restarts with an empty store and lists the identities.
InjectorRestart ==
    /\ Troubles < MaxDisturbances
    /\ restarts' = restarts + 1
    /\ seen' = None /\ free' = {}
    /\ asks' = <<>>
    /\ stream' = IF crd = None THEN <<>> ELSE <<Event(crd)>>
    /\ pod' = [p \in Pods |-> IF pod[p] = "asked" THEN "none" ELSE pod[p]]
    /\ UNCHANGED <<crd, dev, registered, managerVars, drawn, crashes,
                   recreations, faults, lost>>

-----------------------------------------------------------------------------
(***************************************************************************)
(* Pods, and the Pod watcher that reports their end.                       *)
(***************************************************************************)
\* The patched pod is stored and its client registers the device.
PodStarts(p) ==
    /\ pod[p] = "patched"
    /\ pod' = [pod EXCEPT ![p] = "running"]
    /\ registered' = registered \cup {dev[p]}
    /\ UNCHANGED <<crd, dev, managerVars, injectorVars, boundVars>>

\* The patched pod is refused (a patch error, a quota): the id is lost.
PodRejected(p) ==
    /\ pod[p] = "patched"
    /\ Fault
    /\ pod' = [pod EXCEPT ![p] = "none"]
    /\ dev' = [dev EXCEPT ![p] = NoDevice]
    /\ UNCHANGED <<crd, registered, managerVars, injectorVars, restarts,
                   crashes, recreations>>

\* An evicted pod no longer runs, but stays until it is deleted; each of its
\* updates releases the id again.
PodEvicted(p) ==
    /\ \/ pod[p] = "running" /\ NoFault
       \/ pod[p] = "evicted" /\ Fault
    /\ pod' = [pod EXCEPT ![p] = "evicted"]
    /\ imq' = Append(imq, Release(dev[p]))
    /\ UNCHANGED <<crd, dev, registered, identity, activating, unregister,
                   injectorVars, restarts, crashes, recreations>>

PodDeleted(p) ==
    /\ pod[p] \in {"running", "evicted"}
    /\ pod' = [pod EXCEPT ![p] = "gone"]
    /\ imq' = Append(imq, Release(dev[p]))
    /\ UNCHANGED <<crd, dev, registered, identity, activating, unregister,
                   injectorVars, boundVars>>

-----------------------------------------------------------------------------
DeviceInit ==
    /\ crd = None /\ identity = None /\ seen = None
    /\ pod = [p \in Pods |-> "none"]
    /\ dev = [p \in Pods |-> NoDevice]
    /\ registered = {} /\ free = {} /\ drawn = {}
    /\ imq = <<>> /\ unregister = <<>> /\ stream = <<>> /\ asks = <<>>
    /\ activating = 0
    /\ restarts = 0 /\ crashes = 0 /\ recreations = 0 /\ faults = 0
    /\ lost = {}

ManagerStep ==
    \/ CreateServiceIdentity
    \/ activated_service_user
    \/ release_device_id

CreatorStep ==
    \/ ActivateServiceUser
    \/ CreatorReleaseDeviceId

ProviderStep ==
    \/ register_or_update
    \/ unregister_service
    \/ \E p \in Pods :
          \/ DeviceIdNotFound(p)
          \/ \E d \in Devices : pop_device_id(p, d)

PodStep(p) ==
    \/ RequestDeviceId(p)
    \/ RequestTimeout(p)
    \/ PodStarts(p)
    \/ PodRejected(p)
    \/ PodEvicted(p)
    \/ PodDeleted(p)

DeviceNext ==
    \/ ManagerStep
    \/ CreatorStep
    \/ ProviderStep
    \/ DeleteServiceIdentity
    \/ DeviceIdsCommand
    \/ IdentityServiceRestart
    \/ InjectorRestart
    \/ StreamRelist
    \/ \E p \in Pods : PodStep(p)

DeviceSpec == DeviceInit /\ [][DeviceNext]_deviceVars

\* The tasks of both processes go on as long as they can.
DeviceFairSpec ==
    /\ DeviceSpec
    /\ WF_deviceVars(ManagerStep)
    /\ WF_deviceVars(CreatorStep)
    /\ WF_deviceVars(ProviderStep)

-----------------------------------------------------------------------------
\* Every variable of the device id model has its type.
DeviceTypeOK ==
    /\ crd \in (SUBSET Devices) \cup {None}
    /\ identity \in (SUBSET Devices) \cup {None}
    /\ seen \in (SUBSET Devices) \cup {None}
    /\ pod \in [Pods -> {"none", "asked", "patched", "running", "evicted",
                         "gone"}]
    /\ dev \in [Pods -> Devices \cup {NoDevice}]
    /\ \A p \in Pods : pod[p] \in {"patched", "running", "evicted"} =>
                           dev[p] \in Devices
    /\ registered \subseteq Devices /\ lost \subseteq Devices
    /\ free \subseteq Devices
    /\ drawn \subseteq Devices
    /\ imq \in Seq(Message)
    /\ activating \in Nat
    /\ unregister \in Seq(SUBSET Devices)
    /\ stream \in Seq(StreamEvent)
    /\ asks \in Seq({"waiting", "abandoned"})
    /\ restarts \in Nat /\ recreations \in Nat
    /\ restarts + recreations \in 0..MaxDisturbances
    /\ crashes \in 0..MaxCrashes /\ faults \in 0..MaxFaults

-----------------------------------------------------------------------------
\* The pod has been given a device id and may be using it.
Holds(p) == pod[p] \in {"patched", "running"}

\* No two pods hold one device id.  The pool of the DeviceIdProvider, the list
\* in the ServiceIdentity and the manager's copy of it are updated by three
\* tasks of two processes, and an id comes back up to twice (eviction and
\* deletion of one pod): register_or_update must push it once.
DistinctDevices ==
    \A p, q \in Pods : Holds(p) /\ Holds(q) /\ dev[p] = dev[q] => p = q

\* The allocation a reader of the pods and the pool sees.
Allocation ==
    INSTANCE DeviceAllocation WITH
        holder <- [p \in Pods |-> IF Holds(p) THEN dev[p] ELSE NoDevice],
        pool <- free,
        used <- drawn

\* As long as neither the injector restarts nor the ServiceIdentity is deleted,
\* the protocol of the three tasks (pop_device_id, register_or_update and
\* release_device_id) gives ids out and takes them back as DeviceAllocation
\* does, in which nothing is ever on its way.
Allocates == Allocation!AllocationSpec

\* An id is in the pool only when a pod that held it has ended, also after
\* restarts of the injector and deletions of the ServiceIdentity: nothing but
\* release_device_id puts ids into circulation.
FreeWasReleased ==
    \A d \in free : \E p \in Pods :
        dev[p] = d /\ pod[p] \in {"evicted", "gone"}

\* Nothing about device ids is in flight.
DevicesSettled ==
    /\ imq = <<>> /\ stream = <<>> /\ unregister = <<>> /\ asks = <<>>
    /\ activating = 0
    /\ seen # None

\* The id of a deleted pod that only this pod ever held is in the pool once
\* everything has been handled, whatever the interleaving with the activation
\* of the user, which resets the list of the ServiceIdentity.  (Not promised
\* when a message, an update or an event was lost, or the identity deleted.)
FirstReleaseReturned ==
    DevicesSettled /\ restarts + crashes + recreations + faults = 0 =>
        \A p \in Pods :
            pod[p] = "gone" /\ (\A q \in Pods \ {p} : dev[q] # dev[p])
                => dev[p] \in free

\* README: "On Pod deletion, the Device ID assigned to it is unregistered from
\* controller [...]".  As long as no message is lost, and unless another pod
\* has been given the id meanwhile or the ServiceIdentity is deleted.  The
\* request passes through two channels, behind releases and activations; an
\* update of the object or a call that fails (lost) ends it, other faults (a
\* timeout, a broken stream, a failed create, ...) do not.
DeletedUnregistered ==
    \A p \in Pods :
        pod[p] = "gone" ~>
            \/ dev[p] \notin registered
            \/ dev[p] \in lost
            \/ \E q \in Pods \ {p} : dev[q] = dev[p]
            \/ recreations > 0

-----------------------------------------------------------------------------
(***************************************************************************)
(* The inductive invariant behind DistinctDevices.  A released id travels  *)
(* through the manager's channel, its copy, the object and the stream; it  *)
(* enters the pool at most once, because `seen` keeps it.                  *)
(***************************************************************************)
Carried ==
    {d \in Devices :
        \/ \E i \in 1..Len(imq) : d \in imq[i].ids
        \/ d \in identity
        \/ d \in crd
        \/ \E i \in 1..Len(stream) : d \in stream[i].ids}

Undisturbed == restarts = 0 /\ recreations = 0

\* The identity is never deleted.
OnlyFound == \A i \in 1..Len(stream) : stream[i].op = "Found"

Has(p) == pod[p] \in {"patched", "running", "evicted"}

\* An id a pod got from the pool, or a second time, is in `seen`.
Circulation ==
    /\ free \subseteq seen
    /\ \A d \in Devices : d \in Carried \/ d \in seen => d \in drawn
    /\ \A p \in Pods : Has(p) => dev[p] \in drawn
    /\ \A p \in Pods : Holds(p) =>
           /\ dev[p] \notin free
           /\ dev[p] \in Carried => dev[p] \in seen
    /\ \A p, q \in Pods :
           p # q /\ dev[p] = dev[q] /\ Has(p) /\ Holds(q)
               => pod[p] = "evicted" /\ dev[q] \in seen

\* What is on its way to the pool, or was there, belonged to a pod that ended:
\* the inductive form of FreeWasReleased.
ReleasedInv ==
    /\ DeviceTypeOK
    /\ \A d \in Devices : d \in Carried \cup seen \cup free =>
          \E p \in Pods : dev[p] = d /\ pod[p] \in {"evicted", "gone"}

\* Types, and circulation as long as the injector and the identity last.
DeviceInv == DeviceTypeOK /\ (Undisturbed => OnlyFound /\ Circulation)

\* No restart, no deletion of the identity, and no fault so far.
Calm == Undisturbed /\ crashes = 0 /\ faults = 0

\* No other pod was ever given the pod's id.
Sole(p) == \A q \in Pods \ {p} : dev[q] # dev[p]

\* The release of the id has not reached the injector's store yet.
Returning(d) ==
    \/ \E i \in 1..Len(imq) :
          imq[i].type = "ReleaseDeviceId" /\ d \in imq[i].ids
    \/ \E i \in 1..Len(stream) : d \in stream[i].ids

\* The id of a pod that ended is on its way or in the pool, where it stays
\* until another pod gets it; and it does not enter `seen` without the pool.
OnItsWay ==
    \A p \in Pods : pod[p] \in {"evicted", "gone"} /\ Sole(p) =>
        /\ dev[p] \in free \/ Returning(dev[p])
        /\ dev[p] \in seen => dev[p] \in free

\* The inductive form of FirstReleaseReturned.  A release that meets no
\* identity would be dropped: no pod has an id before there is one.
ReturnInv ==
    /\ ReleasedInv
    /\ \A p \in Pods : dev[p] = NoDevice <=> pod[p] \in {"none", "asked"}
    /\ Calm =>
          /\ OnlyFound
          /\ \A i \in 1..Len(asks) : asks[i] = "waiting"
          /\ identity = None => /\ seen = None /\ stream = <<>>
                                /\ \A p \in Pods : dev[p] = NoDevice
          /\ OnItsWay
=============================================================================
