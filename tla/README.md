# SDP Kubernetes Injector: TLA+ models and proofs

This directory models the SDP Kubernetes Injector (the Rust workspace under
`src/`): how workloads of a cluster get a service user of the SDP controller,
how their pods get device ids, and how the webhook turns a new pod into one
with the SDP client. The modules are checked with TLC on small
instances, and the results that matter most are proved with TLAPS for every
value of the constants. `PROJECT.json` lists the runs, the mutants that show
each property can fail, the source lines behind each definition, the hazards,
the findings and the theorems.

## 1. Inventory

The system is two processes, the **Identity Service** and the **Injector**,
which never talk to each other directly. They share the Kubernetes API, above
all the `ServiceIdentity` objects, and both depend on the SDP controller.

| Component | State | Operations | Interacts with |
|---|---|---|---|
| Candidate watchers (`watcher.rs`, `service_candidate_watcher.rs`), one for Deployments and one for SDPServices | the set `applied` of keys it has reported | list and report, notify, wait, then one message per watch event | send to the Identity Manager; wait for its broadcast |
| Pod watcher (`pod_watcher.rs`) | none | report the device id of a deleted or evicted pod | sends to the Identity Manager from the start |
| Identity Manager (`identity_manager.rs`) | registered identities, pool of free users, what was found at start-up, readiness | one handler per message; the reconciliation `identity_manager_ready` | reads one bounded channel, sends to the creator and to *itself*, writes ServiceIdentity objects, broadcasts |
| Identity Creator (`identity_creator.rs`) | none that outlives a message, apart from `initialize` | create, activate and delete users; write and clean Secrets; unregister devices | reads one bounded channel, sends to the manager, calls the controller and Kubernetes |
| Controller client (`sdp/system.rs`, `sdp/auth.rs`) | login token | HTTP calls | SDP controller |
| Device id provider (`deviceid.rs`) | stored identities, free device ids of each service | register, unregister, pop | fed by the ServiceIdentity watcher; answers the webhook |
| ServiceIdentity watcher (`service_identity_watcher.rs`) | `applied` | events to messages | device id provider |
| Admission webhook (`injector.rs`) | failed attempts per service, under one lock | look up the DNS service, patch a pod or a Deployment, answer | Kubernetes asks it about each new pod and Deployment; it asks the provider for a device id with a timeout of 5 seconds |
| Certificate reload (`main.rs`, `files_watcher.rs`) | reload flag | set on file change, clear on reload | accept loop |
| Injection strategy, names (`service.rs`, `traits.rs`, `annotations.rs`) | none | pure functions | watchers, webhook |
| DNS scripts (`assets/sdp-dnsmasq-set-dns` and others) | configuration file, backup, lock | set, test, restart, roll back | dnsmasq |

What is hard in this code:

- **Ordering at start-up.** The reconciliation deletes whatever it has not been
  told about. It is safe only because reports travel ahead of the readiness
  notifications in one FIFO channel, and because exactly one of two handlers
  starts it.
- **Crashes.** Any panic ends the process (`main.rs:104`). The controller, the
  global Secret, the services' Secrets and the ServiceIdentity objects are
  changed by separate calls; after a restart they have to be brought together.
- **Bounded channels.** The manager sends to itself and to the creator, the
  creator sends to the manager; a full channel blocks the sender.
- **Stale messages.** Activations and deletions carry the user an identity had
  when they were sent.
- **Partial failure.** Most failed calls are logged and not repeated.
- **Three writers of device ids.** Manager, object and injector each keep a
  list; ids come back twice, late, or while a pod uses them.
- **Decisions taken twice.** The webhook decides about a Deployment from its
  namespace, writes the decision down, and later it and the Identity Service
  read it from different objects; the namespace may have changed meanwhile.
- **A lock held across a wait.** Requests of all pods queue behind the one that
  waits for its device id, share a counter per service, and may be dropped by
  Kubernetes at any point.
- **Files that change while they are read.** Certificate and key are read one
  after the other, and the flag that asks for it is cleared afterwards.

## 2. Modules

| Module | What it is |
|---|---|
| `IdentityProtocol` | constants, messages, variables and sends shared by the parts of the Identity Service |
| `CandidateWatcher` | the two candidate watchers |
| `IdentityManager` | the manager's handlers and the reconciliation |
| `IdentityCreator` | the creator's start-up and handlers |
| `IdentityService` | composition with the environment (objects, labels, pod releases, crashes), specification, fairness, properties |
| `UserLifecycle` | what `IdentityService` promises about users: their life without tasks and messages |
| `DeviceIds` | the device ids of one service through both processes |
| `DeviceAllocation` | what `DeviceIds` promises: an allocator of device ids without messages |
| `InjectionStrategy` | decisions from annotations, the patch of a Deployment, names |
| `PodPatch` | the patch of a pod and its validation (extends `InjectionStrategy`) |
| `Admission` | the webhook's requests, lock, attempts and answers, with Kubernetes and users around it (extends `PodPatch`) |
| `CertReload` | file watcher, reload flag and accept loop |
| `MCIdentityService`, `MCDeviceIds`, `MCAdmission` | instances for TLC |
| `IdentityServiceProofs` | types of the Identity Service |
| `ReconcileProofs` | the start-up handshake |
| `UserPoolProofs` | the way of a user from the creator through the pool to one identity; `IdentityService` implements `UserLifecycle` |
| `SettledProofs` | a process at rest: no identity without candidate, a full pool, memory, object, Secret and controller agree, no user enabled for nobody; the candidates found at start-up are registered |
| `DeviceIdsProofs` | distinct device ids |
| `AdmissionProofs` | admissions without patch; one decision for a Deployment and its pods |
| `WebhookProofs` | the lock of the webhook, the service a device id is asked for, the patched pod |
| `DeviceAllocationProofs` | the pool holds released ids only; a first release comes back; `DeviceIds` implements `DeviceAllocation` |

### Identity Service

*State.* `objs`, `labelled`, `events`, `crd`, `svcSecret`, `secret` are
Kubernetes: the candidate objects, the labelled namespaces, the undelivered
watch events, the ServiceIdentity objects, the services' Secrets and the users
whose password is in the global Secret. `sdp` is the controller. They survive a
crash. The rest is memory: `imq`, `icq` (the two channels), `wphase`, `listed`,
`applied` (watchers), `services`, `pool`, `existing`, `missing`, `activated`,
`deactivated`, `creatorReady`, `watchersReady` (fields of `IdentityManager`),
and the program counters `imphase`, `stage`, `batch`, `todo` (manager) and
`icphase`, `scan`, `known`, `nMissing`, `ictodo` (creator). `released` is the
broadcast.

*Data.* A service is a service id, i.e. a namespace and a name; a user is a
uuid; an identity is the user it holds. Names, passwords, labels, profile urls
and log messages are left out. `svcSecret` stands for the service's Secret and
ConfigMap, which are written and deleted together. A candidate is an object in
a labelled namespace; an object that opts out by annotation is never reported
and is not in `Objects`.

*Steps.* One action per message, named after the handler. What a handler does
before its first `send` is one step together with reading the message; each
`send` that may have to wait for room is a step of its own, kept in `todo` or
`ictodo`, so other tasks run in between, and no other message is read until
the handler has ended. This matches tokio: a task can be suspended only at an
`await`. The calls to the API between two sends are one step: only this
process writes these objects, so no other task can tell. A call fails by
choice (`CallFails`), up to `MaxFailures` times; the branches are those of the
code: which early return, what stays registered, what is still sent.
`identity_manager_ready` has one stage per loop of the code.

*The watch.* `WatcherStart` opens the stream; events exist for a watcher only
from then on, and a broken stream (`WatcherRelist`) loses what was not read,
because `watch` ignores `Init`, `InitApply` and `InitDone` (`watcher.rs:192`).

*Crash.* Any state may be followed by a restart with empty memory. A failed
`create_user` during `initialize` is a panic and is a crash of its own
(`CreatorFillPanics`), since it may leave a user behind.

*Life of a user.* `UserLifecycle` says what all this does to a user, without
tasks and messages: it is created disabled (`Created`), free until one service
takes it (`Taken`), enabled while that service has it (`Enabled`), given up
(`Dropped`) and deleted (`Deleted`), in steps that move each user at most one
step on. `IdentityService` maps to it with the controller's view `sdp` as the
life, the users in the pool or reported to it as the free ones, and the services
that have the user in memory, in the object or in a message of its activation as
its holders; `running` is the end of `initialize`, before which a panic may
forget free users (`Forgotten`) that the next process finds (`Recovered`). What
cannot happen in it is the content: a user is never free again after a service
took it, never goes to a second service, and is not enabled for nobody. The
property `FollowsLifecycle` is that refinement.

### Device ids

One service, because neither process relates the ids of two services. `pod`
is the life of each admission, `dev` the id in its annotation, `crd`, `identity`
and `seen` the id lists in the object, in the manager and in the injector's
store, `free` the injector's pool, `stream` the watch events on their way,
`asks` the requests in the provider's channel, `registered` the devices known
to the controller. The channels of the Identity Service are reduced to the
messages about this service; `activating` and `unregister` are two parts of
the creator's channel whose mutual order is left open (more behaviours than the
code, none fewer). The lock on `attempts_store` is held while the webhook waits,
so one request is waited for at a time; an abandoned one stays in the channel.
Fresh uuids are never drawn twice. A fault is any call or wait that goes wrong,
up to `MaxFaults`: the object is not created and the manager keeps the identity
in memory only, an update of the object or a call of the creator fails and its
request is lost, the watch breaks, a pod is refused, the webhook gives up, an
evicted pod is applied again and releases its id again. The history variable
`lost` has the ids whose unregistration ended with such a failure;
`DeletedUnregistered` excepts them and must hold after every other
fault. `DeviceIdsCommand` is the command
`device-ids`: it unregisters devices of the service, which ones depends on when
the controller last saw them, so any set is possible.

`DeviceAllocation` has three variables: the free ids, the ids ever drawn, and
the id each pod holds. A pod takes a free id or a new one (`Acquire`), an id is
taken and lost (`Discard`, the webhook gave up), a pod ceases to hold its id
(`Cease`), and ids that nobody holds come back (`Return`). `DeviceIds` maps to
it with `free`, `drawn` and "the id of a pod that is patched or running";
everything between a pod's end and the return of its id is a stutter. The
property `Allocates` is that refinement.

### Admission

*State.* `nsAnn`, `workload`, `pod`, `dns` are Kubernetes: the annotations of
the namespaces, the stored Deployments and other workloads, the stored pods, the
address of the DNS service. `identities` are the services the provider knows.
Each request is a task with a program counter `task` and its locals `object`,
`found` (the DNS address) and `reply`; `queue` is the lock of `attempts_store`,
a tokio mutex, which is FIFO; `attempts` is its content. `streak` and
`annotations` are history for the properties.

*Data.* The annotations are a record with the values the code tells apart
(several spellings of true). A name is the sequence of its parts between dashes
and a domain the sequence of its labels, so "join with a dash" is concatenation
and two pairs of names can really collide. Of a pod the model keeps what the
patch reads or writes: names of containers, init containers and volumes, the
variables of the sidecars, search domains, sysctls, DNS policy.

*Steps.* `injector_handler` and `mutate` await at three places: the lookup of
the DNS service, the lock, and the provider's answer. The steps are the
stretches between: `dns_service_discover`, then one of `AllowPod`,
`PatchFromPod`, `AskDeviceId`, `PatchDeployment` with the lock, then
`DeviceIdAnswered` or `DeviceIdTimeout`. Every answer counts the attempt or
resets the counter (`CountAttempt`, `Succeed`) and releases the lock.
`DropRequest` is a connection that ends: the task and its place in the queue
are gone. Kubernetes stores what it was answered (`Deliver`), and a controller
creates a rejected pod again (`CreatePod`). The webhook is configured for CREATE
of pods and Deployments only: annotating a Deployment that exists (`Annotate`)
and workloads of other kinds (`CreateOther`) do not reach it. The namespace of
a Deployment is read with the lock held; the provider's answer depends only on
whether it knows the service, since the ids are the subject of `DeviceIds`.

### Certificate reload

A rotation replaces both files at once, as Kubernetes does for a mounted Secret.
The poller blocks while its channel of one event is full. Reading the
certificate, reading the key and clearing the flag are separate steps, since
the watcher's tasks run on other threads; the pair is used only if it fits, which
`with_single_cert` checks.

## 3. Runs

All runs use `-workers 2` and finish within five minutes. Deadlock
checking is off: a process with nothing to do rests.

| Run | Shows |
|---|---|
| `Churn` | `TypeOK`, `PoolIsFree`, `NoSharedUser` while objects come, change and go, a label changes and one call fails; `SettledIdentities`, `SettledPool` when none fails; the refinement `FollowsLifecycle` in both cases |
| `Restart` | `ReconcileInv`, `ReconcileInformed`, `ReconcileOnce` (start-up) and `SettledNoLeak`, `SettledNoExtra`, `NoSharedUser` (its outcome) with a crash at any point |
| `Serving` | `CandidateServed`, `ReleaseHandled`, `Quiesces` (liveness) and `ReconcileServesFound` |
| `Removal` | `UserInv` (the inductive form of `PoolIsFree` and `NoSharedUser`), `IdentityRemoved`, `StartupCompletes` (liveness) with a crash |
| `DeviceIds` | `DeviceInv`, `DistinctDevices`, `FirstReleaseReturned` and the refinement `Allocates` for three pods and two device ids, with a restart of the Identity Service and a fault |
| `DeviceUnregister` | `FreeWasReleased`, `ReturnInv` (the inductive form of `FirstReleaseReturned`) and `DeletedUnregistered` (liveness) with a restart of the injector, a deletion of the identity or a fault |
| `Admission` | `AdmissionTypeOK` (the lock), `SameDecision`, `AsksForOwnService`, `PatchedPod`, `UnpatchedAfterFailures`, `PodDecided` (liveness) with a fault and a change of the cluster |
| `DeleteRecreate`, `StaleIdentity`, `FullChannel`, `InjectorRestart`, `LostReload` | the findings of section 6, each a counterexample |

*Bounds.* Two services, one a Deployment and one an SDPService, are enough for
every property about a pair of identities and for the two notifications; the
initial states are all subsets of the two objects. The pool holds one or two
users instead of ten: one makes it run empty, two lets both services be served
at once. Four users are enough for two identities, a full pool and one
replacement. Channels of six messages are never full in the passing runs except
by the backlog of start-up; `FullChannel` uses three to fill one with few
releases, where the code has fifty. The creations, deletions, label changes,
failures, crashes and releases are counted and bounded by the `Max` constants,
one or two each, chosen so that the events a hazard needs occur in one run.
Three pods are the smallest number for "an id released twice is given to two
others"; pods and devices are interchangeable, so these runs use symmetry,
except the one with a liveness property. Two device ids for three pods make the
third one depend on an id that came back. `MaxDisturbances` limits restarts of
the injector and deletions of the identity: `DistinctDevices` and `Allocates`
hold only without them. They share their budget with the faults (`Troubles`):
in `DeviceUnregister` one of the three occurs, at any point.

`Admission` has one Deployment with two pods and one other workload with one
pod, in namespaces and with names that join to the same string ("a-b" and "c",
"a" and "b-c"). Two pods of one service are needed to interleave attempts on
one counter; with `MAX_PATCH_ATTEMPTS` 1 (15 in the code) two failures exceed it.
The template of the Deployment may bring annotations of its own (the strategy,
`enabled`, credentials, search domains), which the patch of the Deployment
overwrites or keeps.
One fault (timeout, failed lookup, dropped request) and one change (namespace,
Deployment, DNS service, identity) come at any point; an identity that is not
there yet gives failures without a fault. `LostReload` needs two rotations.

*Fairness.* `FairSpec` has weak fairness of each task: a watcher, the manager,
the creator. Tasks run on the tokio scheduler, which serves every runnable
task, and calls return. The environment owes nothing. `DeviceFairSpec` is the
same for manager, creator and provider; pods need not do anything.
`AdmissionFairSpec` has weak fairness of each request's task, which includes
that Kubernetes takes the answer, and of the controllers that create missing
pods. Faults are bounded, so timeouts end; users owe nothing.

*What the passing bounds leave out.* `CandidateServed` and
`ReconcileServesFound` are checked with a pool of two and without deletions or
crashes: with them the code does not have the property (section 6). For the
same reason `SettledNoLeak` is checked with one creation and one deletion, and
proved for at most one deletion,
`NoSharedUser` with a crash or with a failing call but not both, and
`DistinctDevices` without restarts of the injector. `SameDecision` excepts
Deployments annotated after their creation, and the pod of the other workload in
`Admission` carries the annotation `pod-name`, as the README asks for; without
it `PodDecided` and `AsksForOwnService` fail (section 6).

## 4. Proofs

All theorems hold for any sets of services, users, objects, pods and devices
and for any bounds, under named assumptions that TLC evaluates in the runs:

- `ConstantsAssumption`, `DeviceConstants`, `AdmissionAssumption`: the constants
  are numbers of the right sign, the null values are not members, an object is a
  watcher and a service, pods are not workloads, annotations are records of one
  shape.
- `NamingAssumption`: the parts of a name do not contain "_", which Kubernetes
  forbids and `service_id` joins with; namespace and name tell workloads apart;
  workloads other than Deployments carry the annotation `pod-name`, as the
  repository's README asks for (without it: section 6), and the templates of
  Deployments do not, being named after their ReplicaSets.
- `TemplateAssumption`: a pod template has a container and none with the name of
  a sidecar. `SDPPod::patch` takes a pod that has one for patched already.
- `SidecarsAssumption`: the sidecar configuration is the chart's: the client's
  service container is among the sidecars, and the default search domains list
  the parent of the first one (`k8s/chart/values.yaml:107`: "svc.cluster.local",
  "cluster.local"; for other lists see section 6).

- **`Typing`** (`IdentityServiceProofs`): `Spec => []TypeOK`. Beyond types, this
  says the channels never exceed their capacity and that the batch of a deleting
  stage contains registered identities only, which is what makes the
  message `DeleteServiceUser` carry a user. That part is the strengthening
  needed for the induction (`BatchTypeOK`).
- **`ReconcileInvariant`**, **`ReconcileInformedAlways`**,
  **`ReconcileOnceAlways`** (`ReconcileProofs`): the start-up handshake.
  `ReconcileInformed` is not inductive: nothing in it says why the reports are
  ahead. `ReconcileInv` adds `AllExamined` (a watcher that has notified has
  examined all it listed), `WatcherOrder` (the manager's count is the number
  of notifications consumed; once both watchers have notified, each report in
  the channel is followed by a notification), `CreatorOrder` (a recovered user
  is recorded, or its report is ahead of `IdentityCreatorReady`) and
  `ReadyToken` (at most one `IdentityManagerReady` is pending, queued, being
  handled or handled, and then all three announcements were consumed). From
  it: when a stage runs, the count is two and the creator is ready, so no
  notification is in the channel, so no report is either.
- **`UserInvariant`**, **`PoolIsFreeAlways`**, **`NoSharedUserAlways`**
  (`UserPoolProofs`): `[](crashes = 0 => PoolIsFree)` and
  `[](crashes = 0 \/ failures = 0 => NoSharedUser)`. Neither is inductive: a user
  gets to the pool, and from there to a service, by messages. `UserInv` follows it.
  It is *offered* while the creator is about to report it, the report is in the
  channel, or it is in the pool; it is *held* by a service that has it in
  memory, in the object, or in a message of its activation. `SingleOffer`: a
  user is offered once. `SingleHolder`: it is held by one service.
  `ScanOrder`, `FreshUnknown`, `PoolRecorded`, `Unrequested` say why a second
  report never comes: the scan reports each user once and before any is
  created, a fresh uuid is nowhere, and nothing is activated before the
  reconciliation requests identities. That last fact needs `ReconcileInv`, so
  the induction is on both together. Until the first crash an offered user is free
  (`FirstProcess`). After one it may be the user of an identity whose activation
  was cut off; `OffersReconciled` says that the reconciliation has yet to
  delete that identity, and that no user is taken from the pool before. A failed
  call can break exactly this, and TLC shows that with a crash *and* a failed
  deletion two services do get one user (section 6), so the hypothesis cannot be
  dropped.
- **`SettledNoExtraAlways`** (`SettledProofs`):
  `[](failures = 0 => SettledNoExtra)`, for any number of restarts. The
  invariant `RemovalInv` says that the manager's map is the objects
  (`MemoryIsObject`); that before the broadcast only tracked candidates are found
  and that after the first stage of the reconciliation no identity is left without
  its candidate (`Starting`); and that afterwards the identity of a candidate no
  longer tracked has its deletion on the way, while a request for it that is
  still queued is followed by the report that the candidate is gone (`Running`).
  The last part is what an interleaving could break: the request would be handled
  after the deletion. `failures = 0` is needed, since a failed delete is logged
  and not repeated.
- **`SettledPoolAlways`** (`SettledProofs`): `[](HasFresh => SettledPool)`. The
  inductive form is a sum, `Supply`: the users in the pool, reported to it,
  about to be reported, ordered in the creator's channel, about to be ordered,
  and outstanding in `initialize`, are never fewer than the pool size. Each step
  moves one user from one term to another (`Moves`) or starts a process whose
  whole pool is outstanding. A request of a service whose object exists but is not
  in memory would take a user without ordering one; `MemoryIsObject` excludes it.
  The lemmas count occurrences in a sequence (`OccursAppend`, `OccursTail`).
  `HasFresh` is about the model only: its uuids are a finite set.
- **`FollowsLifecycleAlways`** (`UserPoolProofs`):
  `Spec /\ [](crashes = 0) => FollowsLifecycle`, whatever calls fail. Each step
  of the service is split by what it does to one user (`Moves`); the steps that
  touch no place of it are `Stays`. `FirstProcess` is what makes a taken user
  disabled and held by nobody, `SingleHolder` what makes the holder of an
  enabled user the service of the message, `FreshUnknown` what makes a created
  one new. After a forced restart the pool may be filled from an identity whose
  activation was cut off, which is not a step of `UserLifecycle`, so the
  hypothesis stays.
- **`SettledIdentitiesAlways`** (`SettledProofs`):
  `[](crashes = 0 => SettledIdentities)`, for any number of deletions and
  re-creations. When a candidate is deleted and created again the messages of
  the old and of the new user cross: a late `ActivatedServiceUser` gives the
  identity the old user back (`identity_manager.rs:711`), and a deletion carries
  the user the identity had when it was queued. The invariant `FollowInv` names
  the user an identity *follows*, not always the one it has now: the user of the
  last message about the service in the creator's channel, which must be an
  activation (`Waiting`; a deletion behind it would delete the Secret by its
  name), or, when there is none, the user that is enabled (`Handled`), whose
  credentials the Secret gets last (`Written`) and the object gets last
  (`Informed`). This user is `Safe`: it exists and no deletion of it is on its
  way. `RemovalOwn` is why it stays safe: an identity that is about to be deleted
  is the only one with the user its deletion carries. At rest nothing
  is on its way, so what is followed is what is there.
- **`ReconcileServesFoundAlways`** (`SettledProofs`): for the first process,
  as long as no call failed and no more candidates were found at start-up than
  the pool is large. The invariant `ServeInv` says that no order is queued before
  requests are made (`NoOrders`), that the reports of users are ahead of
  `IdentityCreatorReady` (`ReportsFirst`), hence with `Supply` all users of
  `initialize` are in the pool when the stages begin (`Untaken`), and that each
  service of `missing` is in the batch or took one user from it (`Taken`,
  `Giving`): pool and batch shrink together, so no request meets an empty pool.
- **`SettledNoLeakAlways`** (`SettledProofs`): for the first process, as long as
  no call failed and at most one candidate was deleted; with two deletions TLC
  finds a leak (section 6), so the hypothesis is exact. A user leaks when the
  deletion of an identity carries another user than the one it has, and that
  needs an identity deleted before: a late report of an activation writes the
  deleted user back. `LeakInv` counts the deletions that are still on their way
  (`Departures`: the two watches, the manager's channel and its sends), never
  more than `deletes`; as long as both are equal no identity has been deleted,
  and all that is known of the user of a service agrees with its object (`Kept`).
  The one deletion that is allowed therefore carries the right user, and
  every user that is enabled or held is `Followed` by an identity or is
  `Departed`, its deletion being on its way (`NoneLost`). The step uses
  `FollowInv`, `UserMoves` and that the manager's map and the objects agree in
  the first process at all times (`MapsEqual`).
- **`DeviceInvariant`**, **`DistinctDevicesAlways`** (`DeviceIdsProofs`):
  `[](Undisturbed => DistinctDevices)`, where `Undisturbed` means that neither
  the injector was restarted nor the ServiceIdentity deleted. The invariant
  `DeviceInv` adds `Circulation`: an id that is free, or that was ever carried
  back while a pod holds it, is in `seen`, so `register_or_update` does not
  push it again. The fact holds across restarts of the Identity Service, lost
  events, failed updates, timeouts and rejected pods.
- **`FreeWasReleasedAlways`** (`DeviceAllocationProofs`): across any number of
  restarts, deletions and faults. `FreeWasReleased` is not inductive, since an
  id reaches the pool through a message, the manager, the object and an event;
  `ReleasedInv` says the same of all these places (`Carried`, `seen`), and
  `EndedGrows` that a pod that ended stays so.
- **`ReturnInvariant`**, **`FirstReleaseReturnedAlways`**
  (`DeviceAllocationProofs`): the id of a pod that ended, if no other pod ever had
  it, is in the pool once everything was handled. `ReturnInv` says where it is
  until then (`OnItsWay`): in a `ReleaseDeviceId` to the manager, in an event of
  the watch, or in the pool; and that it never enters `seen` without the pool,
  since `register_or_update` would not push it again. It also says that no pod
  has an id before there is an identity: a release that meets none is dropped. Only
  `Calm` behaviours promise this (no restart, deletion or fault), because each of
  these loses a message or an event for good.
- **`AllocatesAlways`**: with `MaxDisturbances = 0`, every step of `DeviceIds` is
  a step of `DeviceAllocation` or a stutter. `Circulation` is what makes
  `register_or_update` a `Return` of ids that nobody holds.
- **`DeviceTyping`**: types of `DeviceIds`.
- **`UnpatchedAfterFailuresAlways`** (`AdmissionProofs`): the inductive fact
  `CountInv` is that the counter in `attempts_store` equals the failures since
  the last admission and never exceeds the limit; only `CountAttempt` at the
  limit answers "exceeded". The limit is positive, as in the code (15): with
  zero, a pod whose service is a fresh uuid would be admitted at once.
- **`SameDecisionAlways`** (`AdmissionProofs`): `SameDecision` speaks of stored
  objects only; `Decided` follows the decision through its whole way. A request
  for a Deployment finds none stored, so no pod of it was asked for yet; the
  answer writes one decision in both places (`DeploymentConsistent`), whatever
  the namespace says later; a pod takes it over from the template, and the patch
  of the pod takes the same one again from what it wrote (`PatchKeeps`).
  The hypothesis `annotations = 0` is needed: `kubectl annotate` on a Deployment
  that exists changes what the watcher reads and not what its pods carry.
- **`AdmissionTyping`** (`WebhookProofs`): beyond types, the queue of
  `attempts_store` holds exactly the tasks that wait for the lock or have it, each
  once, and only the head waits for a device id. `LockInv` is inductive
  as it stands; the lemmas are about a task that joins, leaves from the middle
  (a dropped request) or releases the lock. The counters stay within the limit by
  `CountInv` of `AdmissionProofs`.
- **`PatchedPodAlways`**, **`AsksForOwnServiceAlways`** (`WebhookProofs`): a
  stored pod has all of the patch or nothing of it. `PatchInv` follows a pod from
  its template through the request to the answer: up to the answer the object
  of the request is what the controller made (`Unpatched`), from then on it is
  complete or has no sidecar (`AllOrNothing`). `PatchComplete` shows that
  one application of `patch` to an unpatched candidate gives a complete pod: it
  validates, keeps its own containers in order, and names its workload's service
  (`NamedByWorkload`), so the Pod watcher releases the device id for that
  service. `ServiceIdInjective` is the reason the webhook asks for no other
  service's id: namespace and name joined by "_" can be taken apart again,
  while joined by "-" they can not (`JoinParts`, about sequences around a
  separator).

Invariants behind these theorems are checked by the runs too (`ReconcileInv` in
`Restart`, `UserInv` in `Removal`, `DeviceInv` in `DeviceIds`, `ReturnInv`
in `DeviceUnregister`).

Only model-checked: liveness, which is out of the prover's reach
(`CandidateServed`, `ReleaseHandled`, `Quiesces`, `IdentityRemoved`,
`StartupCompletes`, `DeletedUnregistered`, `PodDecided`); and `SettledNoLeak`
after a crash, which `Restart` checks within its bounds.

## 5. Not modelled

- API version negotiation and the expiry of the login token: a login that
  fails is a call that fails (`CallFails`), and nothing else depends on it. The
  client profile is created once and found by name afterwards.
- The DNS scripts and the scripts that start the SDP client: what they do is
  decided by dnsmasq, dbus and the client, which are not in the repository.
- `/validate`: no webhook configuration of the repository calls it; what it
  checks is the operator `validate`, part of `PatchedPod`.
- The `crd` command prints a definition. Macros and test support have no state.
- Two replicas of the injector; two services with one object name
  (`traits.rs:38`) in the Identity Service, whose services are distinct here.
- A rotation of the certificate before the file watcher has started.
- `src/src/bin/sdp-injector` and `sdp-injector/src/watchers.rs` are not built.

## 6. Where code and documentation differ

Kept as runs, with the quoted lines in `PROJECT.json`:

- `DeleteRecreate`: a candidate deleted and created again ends without
  identity, because the deletion is queued behind the new request.
- `StaleIdentity`: after a crash between the creation of an identity and the
  activation of its user, the reconciliation deletes the identity of an existing
  candidate and does not request another.
- `FullChannel`: the manager waits for room in its own channel.
- `InjectorRestart`: a restarted injector hands out ids in use.
- `LostReload`: a certificate that changes between the reading of the files and
  the clearing of the flag is not served until the next change.

Met while choosing bounds, not kept as runs:

- An object created between the list and the opening of the stream is not
  reported until its next update (`watcher.rs:192`; README line 498).
- An object that is listed while its namespace has no label is remembered as
  applied all the same (`watcher.rs:113`); when the label is set later its updates
  count as repeated and it is not served until the next start
  (`CandidateServed` in `Serving` with `MaxFlips = 1`).
- A request that finds the pool empty is dropped (`identity_manager.rs:654`).
- A late `ActivatedServiceUser` replaces the user of an identity deleted and
  created again meanwhile; the replaced user stays enabled
  (`identity_manager.rs:711`; README line 54). Needs two creations and two
  deletions: `Restart` with `MaxChanges = 2`, `MaxDeletes = 2`, five users.
- With a crash *and* a failed delete in the third stage, the pool hands the
  user of the surviving identity to another service (`NoSharedUser` with
  `MaxCrashes = 1`, `MaxFailures = 1`).
- A crash after the controller enabled a user and before its Secret is written
  leaves an active identity without Secret, which the reconciliation keeps
  (`SettledIdentities` with `MaxCrashes = 1`; `identity_creator.rs:505`).
- The second release of an id does not bring it back (`deviceid.rs:155`), and
  a pod that got a released id may be unregistered by the release of its
  predecessor, because the object is updated before the controller is asked
  (`identity_manager.rs:991`); README line 502 states the opposite order.
- Annotating a Deployment that exists has no effect on its pods: the webhook
  sees CREATE only and the watcher ignores the update; the Identity Service
  decides by the new annotation after its next start (`SameDecision` with
  `annotations > 0`; README lines 296 and 302).
- `patch_deployment` compares the annotation `enabled` with "true" only
  (`injector.rs:861`), `is_injection_enabled` also accepts "1" and "True": a
  Deployment enabled by "1" is disabled by its own patch.
- Two services with colliding names (`traits.rs:38`) share one ServiceIdentity
  object name, Secret and ConfigMap; the service id tells them apart.
- A pod of a StatefulSet or DaemonSet without the annotation `pod-name`: with a
  name of one part it is named by a fresh uuid at every attempt, so its counter
  never exceeds the limit and it is never admitted; with a name of two parts
  the last one is taken for a hash, and "web-v2" gets the identity of the
  Deployment "web" (`kubernetes.rs:57`).
- A pod is admitted unpatched at its first attempt when attempts of other pods
  of its service have used up the limit (`injector.rs:113`).
- The device id is taken before it is known whether the pod can be patched
  (`injector.rs:1002`); it is lost when the DNS service is not found.
- `from_pod` reads the profile url from the field of the password
  (`injector.rs:412`).
- With custom search domains whose parent is missing, `dns_config` adds the
  parent and not the domain of the namespace (`injector.rs:798`).
- The connection that is accepted when the reload flag is set is still served
  with the old certificate, since the flag is looked at before the accept.

## 7. Plan

1. Done: Identity Service with the abstract life cycle of its users, device ids
   with their abstract allocator, webhook, certificate reload, the theorems
   above.
2. Open: `SettledNoLeak` after a restart of the Identity Service, which only the
   run `Restart` covers.
