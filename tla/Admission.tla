------------------------------ MODULE Admission -----------------------------
(***************************************************************************)
(* The admission webhook of the injector.  Kubernetes asks it about every  *)
(* Deployment and every pod created in a labelled namespace; each request  *)
(* is a task of its own:                                                   *)
(*                                                                         *)
(*   discover the DNS service -> wait for the lock of attempts_store ->    *)
(*   (pods) ask the DeviceIdProvider for a device id -> patch -> answer.   *)
(*                                                                         *)
(* The lock is held until the answer, and is a FIFO queue.  Kubernetes may *)
(* drop a request at any point: the task ends there.  A rejected pod is    *)
(* created again by its controller.                                        *)
(***************************************************************************)
EXTENDS PodPatch, FiniteSets

CONSTANTS
    Deployments,         \* Deployments that users create
    Workloads,           \* these, and owners of pods of other kinds
    Pods,                \* pods, each of one workload
    OwnerOf,             \* [Pods -> Workloads]
    NamespaceOf,         \* [Workloads -> names]
    NameOf,              \* [Workloads -> names]
    SpecOf,              \* containers, init containers, ... of their templates
    NsAnnotations,       \* what users annotate a namespace with
    OwnAnnotations,      \* ... a Deployment with
    TemplateAnnotations, \* ... the template of each workload with
    Addresses,           \* addresses the DNS service may have, or Absent
    MAX_PATCH_ATTEMPTS,
    MaxFaults,           \* bound: timeouts, failed calls, dropped requests
    MaxChanges           \* bound: changes of annotations, DNS and identities

ASSUME AdmissionAssumption ==
    /\ Deployments \subseteq Workloads
    /\ OwnerOf \in [Pods -> Workloads]
    /\ Pods \cap Workloads = {}
    /\ MAX_PATCH_ATTEMPTS \in Nat \ {0}
    /\ \A a \in NsAnnotations \cup OwnAnnotations :
          DOMAIN a = DOMAIN NoAnnotations
    /\ \A w \in Workloads : \A a \in TemplateAnnotations[w] :
          DOMAIN a = DOMAIN NoAnnotations
    /\ MaxFaults \in Nat /\ MaxChanges \in Nat

\* Names as Kubernetes admits them; namespace and name tell workloads apart;
\* and (README) the annotation pod-name names the SDPService of a workload
\* that is no Deployment, and only of these.
ASSUME NamingAssumption ==
    /\ \A w \in Workloads :
          /\ IsList(NamespaceOf[w]) /\ "_" \notin Names(NamespaceOf[w])
          /\ IsList(NameOf[w]) /\ "_" \notin Names(NameOf[w])
          /\ NameOf[w] # <<>>
    /\ \A v, w \in Workloads :
          NamespaceOf[v] = NamespaceOf[w] /\ NameOf[v] = NameOf[w] => v = w
    /\ \A w \in Workloads : \A a \in TemplateAnnotations[w] :
          a.podName = IF w \in Deployments THEN <<>> ELSE NameOf[w]

\* A template has containers, and none with the name of a sidecar.
ASSUME TemplateAssumption ==
    \A w \in Workloads :
        /\ IsList(SpecOf[w].containers) /\ SpecOf[w].containers # <<>>
        /\ Names(SpecOf[w].containers) \cap Names(Sidecars) = {}
        /\ IsList(SpecOf[w].init) /\ IsList(SpecOf[w].volumes)

VARIABLES
    \* Kubernetes
    nsAnn,       \* annotations of each namespace
    workload,    \* the stored workload: [meta, template], or NoObject
    pod,         \* the stored pod, or NoObject
    dns,         \* cluster address of the DNS service, or Absent
    \* The injector
    identities,  \* services whose identity the DeviceIdProvider has
    task,        \* request -> none, dns, lock, asking, answered
    object,      \* the object in the request, then in the answer
    found,       \* the DNS address the task has found
    queue,       \* tasks waiting for attempts_store; the first one has it
    attempts,    \* attempts_store: failed attempts per service
    reply,       \* the answer of a task
    \* Counters
    streak,      \* failed answers for a service since the last admission
    annotations, \* annotations of Deployments that exist
    faults, changes

clusterVars == <<nsAnn, workload, pod, dns, identities>>
storeVars == <<attempts, streak>>
taskVars == <<task, object, found, queue, reply>>
counters == <<faults, changes, annotations>>
admissionVars == <<clusterVars, storeVars, taskVars, counters>>

Requests == Deployments \cup Pods
Namespaces == {NamespaceOf[w] : w \in Workloads}
NoObject == <<>>

\* The service of a workload, and the one a pod is taken to belong to.
ServiceOf(w) == service_id(NamespaceOf[w], NameOf[w])
PodService(p, o) == service_id(NamespaceOf[OwnerOf[p]], Named(o))
Services == {ServiceOf(w) : w \in Workloads}

Fault == faults < MaxFaults /\ faults' = faults + 1
Change == changes < MaxChanges /\ changes' = changes + 1

-----------------------------------------------------------------------------
(***************************************************************************)
(* Users, controllers and Kubernetes.                                      *)
(***************************************************************************)
Request(r, o) ==
    /\ task[r] = "none"
    /\ task' = [task EXCEPT ![r] = "dns"]
    /\ object' = [object EXCEPT ![r] = o]
    /\ UNCHANGED <<clusterVars, storeVars, found, queue, reply, counters>>

CreateDeployment(d) ==
    /\ workload[d] = NoObject
    /\ \E a \in OwnAnnotations, t \in TemplateAnnotations[d] :
          Request(d, [meta |-> a, template |-> t])

\* Workloads of other kinds are not shown to the webhook.
CreateOther(w) ==
    /\ workload[w] = NoObject
    /\ \E a \in TemplateAnnotations[w] :
          workload' = [workload EXCEPT
                          ![w] = [meta |-> NoAnnotations, template |-> a]]
    /\ UNCHANGED <<nsAnn, pod, dns, identities, storeVars, taskVars, counters>>

\* The pod of a Deployment is named by its ReplicaSet: "<name>-<hash>-".
NewPod(p, template) ==
    LET w == OwnerOf[p]
        spec == SpecOf[w]
        hash == IF w \in Deployments THEN <<"hash">> ELSE <<>>
    IN  [annotations |-> template,
         generateName |-> NameOf[w] \o hash \o <<"">>, name |-> <<>>,
         containers |-> spec.containers, init |-> spec.init,
         volumes |-> spec.volumes, sysctls |-> spec.sysctls,
         env |-> <<>>, image |-> Absent, searches |-> <<>>,
         dnsPolicy |-> "ClusterFirst"]

\* The controller creates the pod, and tries again when it was rejected.
CreatePod(p) ==
    /\ workload[OwnerOf[p]] # NoObject
    /\ pod[p] = NoObject
    /\ Request(p, NewPod(p, workload[OwnerOf[p]].template))

\* kubectl annotate on a Deployment that exists is no CREATE: no webhook.
Annotate(d) ==
    /\ Change
    /\ annotations' = annotations + 1
    /\ workload[d] # NoObject
    /\ \E a \in OwnAnnotations :
          workload' = [workload EXCEPT ![d].meta.enabled = a.enabled]
    /\ UNCHANGED <<nsAnn, pod, dns, identities, storeVars, taskVars, faults>>

AnnotateNamespace(n) ==
    /\ Change
    /\ \E a \in NsAnnotations : nsAnn' = [nsAnn EXCEPT ![n] = a]
    /\ UNCHANGED <<workload, pod, dns, identities, storeVars, taskVars, faults,
                   annotations>>

DnsServiceChanges ==
    /\ Change
    /\ dns' \in Addresses
    /\ UNCHANGED <<nsAnn, workload, pod, identities, storeVars, taskVars,
                   faults, annotations>>

\* The DeviceIdProvider learns of an identity, or of its deletion.
IdentityChanges(s) ==
    /\ Change
    /\ identities' = IF s \in identities THEN identities \ {s}
                                         ELSE identities \cup {s}
    /\ UNCHANGED <<nsAnn, workload, pod, dns, storeVars, taskVars, faults,
                   annotations>>

\* The task ends, with its local variables.
End(r) ==
    /\ task' = [task EXCEPT ![r] = "none"]
    /\ object' = [object EXCEPT ![r] = NoObject]
    /\ found' = [found EXCEPT ![r] = Absent]
    /\ reply' = [reply EXCEPT ![r] = "none"]

\* Faulty: the lock is not released.
DropRequest_Locked(r) ==
    /\ task[r] # "none"
    /\ Fault
    /\ End(r)
    /\ UNCHANGED <<queue, clusterVars, storeVars, changes, annotations>>

\* The task leaves the queue of the lock, wherever it is in it.
Leave(r) ==
    \/ /\ r \notin Names(queue)
       /\ UNCHANGED queue
    \/ \E k \in DOMAIN queue :
          /\ queue[k] = r
          /\ queue' = [i \in 1..(Len(queue) - 1) |->
                          queue[IF i < k THEN i ELSE i + 1]]

\* Kubernetes gives up on the request, or loses its answer: the task is dropped
\* with its place in the queue, or with the lock.
DropRequest(r) ==
    /\ task[r] # "none"
    /\ Fault
    /\ End(r)
    /\ Leave(r)
    /\ UNCHANGED <<clusterVars, storeVars, changes, annotations>>

-----------------------------------------------------------------------------
(***************************************************************************)
(* injector_handler and mutate.                                            *)
(***************************************************************************)
\* The DNS service is looked up before the lock is taken; an error of the
\* lookup is no address.
dns_service_discover(r) ==
    /\ task[r] = "dns"
    /\ \/ /\ found' = [found EXCEPT ![r] = dns]
          /\ UNCHANGED faults
       \/ /\ found' = [found EXCEPT ![r] = Absent]
          /\ Fault
    /\ task' = [task EXCEPT ![r] = "lock"]
    /\ queue' = Append(queue, r)
    /\ UNCHANGED <<clusterVars, storeVars, object, reply, changes, annotations>>

\* The task has the lock.
Locked(r) == queue # <<>> /\ Head(queue) = r

\* The task answers and releases the lock.
Answer(r, kind, o) ==
    /\ task' = [task EXCEPT ![r] = "answered"]
    /\ reply' = [reply EXCEPT ![r] = kind]
    /\ object' = [object EXCEPT ![r] = o]
    /\ queue' = Tail(queue)
    /\ UNCHANGED <<clusterVars, found, changes, annotations>>

\* Faulty: attempts are not counted.
CountAttempt_Forgets(p) ==
    /\ Answer(p, "retry", object[p])
    /\ UNCHANGED storeVars

\* A failed attempt is counted for the service, also for other pods of it.  A
\* service named by a fresh uuid is never seen again.
CountAttempt(p) ==
    LET s == PodService(p, object[p])
        n == (IF s \in Services THEN attempts[s] ELSE 0) + 1
    IN  /\ Answer(p, IF n > MAX_PATCH_ATTEMPTS THEN "exceeded" ELSE "retry",
                  object[p])
        /\ IF s \in Services
           THEN /\ attempts' = [attempts EXCEPT
                       ![s] = IF n > MAX_PATCH_ATTEMPTS THEN 0 ELSE n]
                /\ streak' = [streak EXCEPT
                       ![s] = IF n > MAX_PATCH_ATTEMPTS THEN 0 ELSE @ + 1]
           ELSE UNCHANGED storeVars

\* Faulty: the counter goes on.
Succeed_Counting(p, o) ==
    LET s == PodService(p, object[p])
    IN  /\ Answer(p, "allow", o)
        /\ UNCHANGED attempts
        /\ streak' = IF s \in Services THEN [streak EXCEPT ![s] = 0] ELSE streak

\* A patch that succeeds removes the counter.
Succeed(p, o) ==
    LET s == PodService(p, object[p])
    IN  /\ Answer(p, "allow", o)
        /\ attempts' = IF s \in Services THEN [attempts EXCEPT ![s] = 0]
                                         ELSE attempts
        /\ streak' = IF s \in Services THEN [streak EXCEPT ![s] = 0] ELSE streak

\* patch_pod with the environment it has got.
PatchWith(p, env) ==
    IF patch_ok(object[p], found[p])
    THEN Succeed(p, patch(object[p], env, NamespaceOf[OwnerOf[p]], found[p]))
    ELSE CountAttempt(p)

\* A pod that is no candidate is allowed as it is.
AllowPod(p) ==
    /\ Locked(p) /\ task[p] = "lock"
    /\ ~needs_injection(object[p].annotations)
    /\ Answer(p, "allow", object[p])
    /\ UNCHANGED <<storeVars, faults>>

\* The pod brings its credentials.
PatchFromPod(p) ==
    /\ Locked(p) /\ task[p] = "lock"
    /\ needs_injection(object[p].annotations)
    /\ object[p].annotations.secrets # Absent
    /\ PatchWith(p, from_pod(object[p], NamespaceOf[OwnerOf[p]], "uuid"))
    /\ UNCHANGED faults

\* Ask the DeviceIdProvider, with the lock held.
AskDeviceId(p) ==
    /\ Locked(p) /\ task[p] = "lock"
    /\ needs_injection(object[p].annotations)
    /\ object[p].annotations.secrets = Absent
    /\ task' = [task EXCEPT ![p] = "asking"]
    /\ UNCHANGED <<clusterVars, storeVars, object, found, queue, reply,
                   counters>>

\* The provider answers with a device id of the service, or NotFound.
DeviceIdAnswered(p) ==
    /\ task[p] = "asking"
    /\ IF PodService(p, object[p]) \in identities
       THEN PatchWith(p, from_identity_store(object[p],
                             NamespaceOf[OwnerOf[p]], "assigned"))
       ELSE CountAttempt(p)
    /\ UNCHANGED faults

\* The answer takes more than 5 seconds.
DeviceIdTimeout(p) ==
    /\ task[p] = "asking"
    /\ Fault
    /\ CountAttempt(p)

\* Deployments are patched with the annotations their namespace has now; an
\* error of the lookup rejects the Deployment.
PatchDeployment(d) ==
    /\ Locked(d) /\ task[d] = "lock"
    /\ \/ /\ Answer(d, "allow", patch_deployment(object[d],
                                                 nsAnn[NamespaceOf[d]]))
          /\ UNCHANGED faults
       \/ /\ Fault
          /\ Answer(d, "error", object[d])
    /\ UNCHANGED storeVars

\* Kubernetes stores the object of an answer that allows it.
Admits(kind) == kind \in {"allow", "exceeded"}

Deliver(r) ==
    /\ task[r] = "answered"
    /\ End(r)
    /\ workload' = IF r \in Deployments /\ Admits(reply[r])
                   THEN [workload EXCEPT ![r] = object[r]] ELSE workload
    /\ pod' = IF r \in Pods /\ Admits(reply[r])
              THEN [pod EXCEPT ![r] = object[r]] ELSE pod
    /\ UNCHANGED <<nsAnn, dns, identities, storeVars, queue, counters>>

-----------------------------------------------------------------------------
AdmissionInit ==
    /\ nsAnn = [n \in Namespaces |-> NoAnnotations]
    /\ workload = [w \in Workloads |-> NoObject]
    /\ pod = [p \in Pods |-> NoObject]
    /\ dns \in Addresses
    /\ identities = {}
    /\ task = [r \in Requests |-> "none"]
    /\ object = [r \in Requests |-> NoObject]
    /\ found = [r \in Requests |-> Absent]
    /\ queue = <<>>
    /\ attempts = [s \in Services |-> 0]
    /\ reply = [r \in Requests |-> "none"]
    /\ streak = [s \in Services |-> 0]
    /\ faults = 0 /\ changes = 0 /\ annotations = 0

TaskStep(r) ==
    \/ dns_service_discover(r)
    \/ r \in Deployments /\ PatchDeployment(r)
    \/ r \in Pods /\ \/ AllowPod(r)
                     \/ PatchFromPod(r)
                     \/ AskDeviceId(r)
                     \/ DeviceIdAnswered(r)
                     \/ DeviceIdTimeout(r)
    \/ Deliver(r)

ClusterStep ==
    \/ \E d \in Deployments : CreateDeployment(d) \/ Annotate(d)
    \/ \E w \in Workloads \ Deployments : CreateOther(w)
    \/ \E n \in Namespaces : AnnotateNamespace(n)
    \/ \E s \in Services : IdentityChanges(s)
    \/ DnsServiceChanges

AdmissionNext ==
    \/ \E r \in Requests : TaskStep(r) \/ DropRequest(r)
    \/ \E p \in Pods : CreatePod(p)
    \/ ClusterStep

AdmissionSpec == AdmissionInit /\ [][AdmissionNext]_admissionVars

\* Tasks run, Kubernetes takes answers, and controllers create missing pods.
AdmissionFairSpec ==
    /\ AdmissionSpec
    /\ \A r \in Requests : WF_admissionVars(TaskStep(r))
    /\ \A p \in Pods : WF_admissionVars(CreatePod(p))

-----------------------------------------------------------------------------
TaskStates == {"none", "dns", "lock", "asking", "answered"}

\* Every variable has its type; the queue holds the tasks that wait for the
\* lock or have it, each once, and only its head asks for a device id.
AdmissionTypeOK ==
    /\ task \in [Requests -> TaskStates]
    /\ found \in [Requests -> Addresses \cup {Absent}]
    /\ queue \in Seq(Requests)
    /\ \A i, j \in DOMAIN queue : queue[i] = queue[j] => i = j
    /\ Names(queue) = {r \in Requests : task[r] \in {"lock", "asking"}}
    /\ \A r \in Requests : task[r] = "asking" => r \in Pods /\ Locked(r)
    /\ attempts \in [Services -> 0..MAX_PATCH_ATTEMPTS]
    /\ reply \in [Requests -> {"none", "allow", "exceeded", "retry", "error"}]
    /\ identities \subseteq Services
    /\ dns \in Addresses
    /\ faults \in 0..MaxFaults /\ changes \in 0..MaxChanges
    /\ annotations \in Nat

\* attempt_patch! admits a candidate unpatched only when the attempts of its
\* service failed MAX_PATCH_ATTEMPTS times in a row, and then once more, no
\* matter how requests of several pods interleave or are dropped.
UnpatchedAfterFailures ==
    [][\A p \in Pods :
          task[p] # "answered" /\ task'[p] = "answered" /\ reply'[p] = "exceeded"
              => streak[PodService(p, object[p])] = MAX_PATCH_ATTEMPTS]_admissionVars

Stored(p) == pod[p] # NoObject
Injected(p) == Stored(p) /\ has_any_sidecars(pod[p])

\* The Identity Service and the webhook take the same decision, from different
\* objects at different times: a Deployment is a candidate of the watcher
\* (Deployment::is_candidate) exactly if its pods are candidates of the webhook
\* (Pod::is_candidate), whatever happened to the namespace since, unless the
\* Deployment was annotated after its creation.
SameDecision ==
    annotations = 0 =>
        \A p \in Pods : LET w == OwnerOf[p] IN
            Stored(p) /\ w \in Deployments =>
                (needs_injection(pod[p].annotations)
                    <=> needs_injection(workload[w].meta))

\* README: the Injector reads the ServiceIdentity "to inject the correct
\* credentials and device ID into the pod".  The device id is asked for under
\* the service of the pod's own workload, and of no other one.
AsksForOwnService ==
    \A p \in Pods : task[p] = "asking" =>
        \A w \in Workloads :
            PodService(p, object[p]) = ServiceOf(w) <=> w = OwnerOf[p]

\* The patched pod validates, a second call of the webhook would leave it
\* alone, its own containers and init containers are still there in their
\* order, its first search domain is the one of its namespace (unless the pod
\* brings its own), and the Pod watcher will release its device id for the
\* right service.
Complete(p, o) ==
    LET spec == SpecOf[OwnerOf[p]]
    IN  /\ validate(o) /\ ~needs_patching(o)
        /\ \E i \in 0..1 : SubSeq(o.init, 1 + i, Len(o.init) - i) = spec.init
        /\ SubSeq(o.containers, 1, Len(spec.containers)) = spec.containers
        /\ \/ Head(Head(o.searches)) = NamespaceOf[OwnerOf[p]]
           \/ o.annotations.searches # <<>>
        /\ o.env[SDP_SERVICE_CONTAINER_NAME].dns # Absent
        /\ needs_injection(o.annotations)
        /\ o.annotations.device # Absent
        /\ PodService(p, o) = ServiceOf(OwnerOf[p])

\* A pod is stored with all of the patch or with nothing of it, also after
\* failed attempts and when the cluster changes while its request waits for the
\* lock: every stored pod with a sidecar of SDPPod::patch is complete.
PatchedPod == \A p \in Pods : Injected(p) => Complete(p, pod[p])

\* A pod whose creation was asked for is created in the end, patched or, when
\* patching keeps failing, unpatched (comment in injector_handler: "Object
\* patch failed, too many attempts so we accept the resource as it is"): no
\* task waits for ever, and no pod is rejected for ever.
PodDecided == \A p \in Pods : task[p] = "dns" ~> Stored(p)
=============================================================================
