-------------------------- MODULE AdmissionProofs ---------------------------
(***************************************************************************)
(* Proofs about the admission webhook: when it admits a candidate without  *)
(* patching it, and that it decides as the Identity Service does.          *)
(***************************************************************************)
EXTENDS Admission, TLAPS

Replies == {"none", "allow", "exceeded", "retry", "error"}

(***************************************************************************)
(* The attempts counter.                                                   *)
(***************************************************************************)
\* The counter of a service is the number of failed answers since the last
\* admission, and never above the limit.
CountInv ==
    /\ task \in [Requests -> TaskStates]
    /\ reply \in [Requests -> Replies]
    /\ attempts \in [Services -> 0..MAX_PATCH_ATTEMPTS]
    /\ streak = attempts

\* The counters start at zero.
LEMMA CountInit == AdmissionInit => CountInv
BY AdmissionAssumption DEF AdmissionInit, CountInv, TaskStates, Replies

\* An answer keeps the types of tasks and replies.
LEMMA AnswerTypes ==
    ASSUME CountInv, NEW r \in Requests, NEW kind \in Replies, NEW o,
           Answer(r, kind, o)
    PROVE  /\ task' = [task EXCEPT ![r] = "answered"]
           /\ reply' = [reply EXCEPT ![r] = kind]
           /\ task' \in [Requests -> TaskStates]
           /\ reply' \in [Requests -> Replies]
BY DEF Answer, CountInv, TaskStates

\* A failed attempt keeps the invariant, and admits the pod only at the limit.
LEMMA CountAttemptKeeps ==
    ASSUME CountInv, NEW p \in Pods, CountAttempt(p)
    PROVE  /\ CountInv'
           /\ task' = [task EXCEPT ![p] = "answered"]
           /\ \A q \in Pods \ {p} : reply'[q] = reply[q]
           /\ reply'[p] = "exceeded" =>
                  streak[PodService(p, object[p])] = MAX_PATCH_ATTEMPTS
<1> DEFINE s == PodService(p, object[p])
           n == (IF s \in Services THEN attempts[s] ELSE 0) + 1
           kind == IF n > MAX_PATCH_ATTEMPTS THEN "exceeded" ELSE "retry"
<1>a. MAX_PATCH_ATTEMPTS \in Nat \ {0} /\ p \in Requests
  BY AdmissionAssumption DEF Requests
<1>1. Answer(p, kind, object[p])
  BY DEF CountAttempt
<1>2. kind \in Replies BY DEF Replies
<1>3. /\ task' = [task EXCEPT ![p] = "answered"]
      /\ reply' = [reply EXCEPT ![p] = kind]
      /\ task' \in [Requests -> TaskStates]
      /\ reply' \in [Requests -> Replies]
  BY <1>a, <1>1, <1>2, AnswerTypes
<1>n. n \in Nat BY <1>a DEF CountInv
<1>4. CASE s \in Services
  <2>1. /\ attempts' = [attempts EXCEPT
                           ![s] = IF n > MAX_PATCH_ATTEMPTS THEN 0 ELSE n]
        /\ streak' = [streak EXCEPT
                           ![s] = IF n > MAX_PATCH_ATTEMPTS THEN 0 ELSE @ + 1]
    BY <1>4 DEF CountAttempt
  <2>2. n = attempts[s] + 1 /\ attempts[s] \in 0..MAX_PATCH_ATTEMPTS
    BY <1>4 DEF CountInv
  <2> HIDE DEF n, s
  <2>3. attempts' \in [Services -> 0..MAX_PATCH_ATTEMPTS] /\ streak' = attempts'
    BY <1>4, <1>a, <1>n, <2>1, <2>2 DEF CountInv
  <2>4. n > MAX_PATCH_ATTEMPTS => streak[s] = MAX_PATCH_ATTEMPTS
    BY <1>a, <2>2 DEF CountInv
  <2>5. reply'[p] = "exceeded" => n > MAX_PATCH_ATTEMPTS
    BY <1>a, <1>3 DEF CountInv
  <2>6. QED BY <1>a, <1>3, <2>3, <2>4, <2>5 DEF CountInv, Requests, s
<1>5. CASE s \notin Services
  <2>1. UNCHANGED storeVars BY <1>5 DEF CountAttempt
  <2>2. n = 1 BY <1>5
  <2>3. reply'[p] = "retry" BY <1>a, <1>3, <2>2 DEF CountInv
  <2>4. QED BY <1>a, <1>3, <2>1, <2>3 DEF CountInv, storeVars, Requests
<1>6. QED BY <1>4, <1>5

\* A success keeps the invariant and is no admission by the limit.
LEMMA SucceedKeeps ==
    ASSUME CountInv, NEW p \in Pods, NEW o, Succeed(p, o)
    PROVE  /\ CountInv'
           /\ task' = [task EXCEPT ![p] = "answered"]
           /\ \A q \in Pods \ {p} : reply'[q] = reply[q]
           /\ reply'[p] = "allow"
<1>a. MAX_PATCH_ATTEMPTS \in Nat /\ p \in Requests /\ "allow" \in Replies
  BY AdmissionAssumption DEF Requests, Replies
<1>1. Answer(p, "allow", o) BY DEF Succeed
<1>2. /\ task' = [task EXCEPT ![p] = "answered"]
      /\ reply' = [reply EXCEPT ![p] = "allow"]
      /\ task' \in [Requests -> TaskStates]
      /\ reply' \in [Requests -> Replies]
  BY <1>a, <1>1, AnswerTypes
<1>3. attempts' \in [Services -> 0..MAX_PATCH_ATTEMPTS] /\ streak' = attempts'
  BY <1>a DEF Succeed, CountInv
<1>4. QED BY <1>a, <1>2, <1>3 DEF CountInv, Requests

\* What every step does: it keeps the invariant, and the pod it answers with
\* "exceeded" is the one that reached the limit.
AtLimit ==
    \A p \in Pods :
        task[p] # "answered" /\ task'[p] = "answered" /\ reply'[p] = "exceeded"
            => streak[PodService(p, object[p])] = MAX_PATCH_ATTEMPTS

\* Every step keeps the counters, and admits a pod unpatched only at the limit.
LEMMA CountStep ==
    ASSUME CountInv, [AdmissionNext]_admissionVars
    PROVE  CountInv' /\ AtLimit
<1>p. Pods \subseteq Requests BY DEF Requests
<1>e. ASSUME NEW r \in Requests, End(r), UNCHANGED storeVars
      PROVE  CountInv' /\ AtLimit
  BY <1>e, <1>p DEF CountInv, AtLimit, End, storeVars, TaskStates, Replies
<1>s. ASSUME NEW r \in Requests, NEW t \in TaskStates, t # "answered",
             task' = [task EXCEPT ![r] = t], UNCHANGED <<reply, storeVars>>
      PROVE  CountInv' /\ AtLimit
  BY <1>s, <1>p DEF CountInv, AtLimit, storeVars
<1>a. ASSUME NEW r \in Requests, NEW kind \in Replies, kind # "exceeded", NEW o,
             Answer(r, kind, o), UNCHANGED storeVars
      PROVE  CountInv' /\ AtLimit
  <2>1. /\ task' = [task EXCEPT ![r] = "answered"]
        /\ reply' = [reply EXCEPT ![r] = kind]
        /\ task' \in [Requests -> TaskStates]
        /\ reply' \in [Requests -> Replies]
    BY <1>a, AnswerTypes
  <2>2. QED BY <1>a, <1>p, <2>1 DEF CountInv, AtLimit, storeVars
<1>u. ASSUME UNCHANGED <<task, reply, storeVars>> PROVE CountInv' /\ AtLimit
  BY <1>u DEF CountInv, AtLimit, storeVars
<1>c. ASSUME NEW p \in Pods, CountAttempt(p) PROVE CountInv' /\ AtLimit
  <2>1. task \in [Requests -> TaskStates] BY DEF CountInv
  <2>2. QED BY <1>c, <1>p, <2>1, CountAttemptKeeps DEF AtLimit
<1>w. ASSUME NEW p \in Pods, NEW o, Succeed(p, o) PROVE CountInv' /\ AtLimit
  <2>1. task \in [Requests -> TaskStates] BY DEF CountInv
  <2>2. QED BY <1>w, <1>p, <2>1, SucceedKeeps DEF AtLimit
<1>k. /\ "allow" \in Replies /\ "error" \in Replies
      /\ "dns" \in TaskStates /\ "lock" \in TaskStates /\ "asking" \in TaskStates
  BY DEF Replies, TaskStates
<1>1. ASSUME NEW r \in Requests, dns_service_discover(r) PROVE CountInv' /\ AtLimit
  BY <1>1, <1>k, <1>s DEF dns_service_discover
<1>2. ASSUME NEW r \in Requests, DropRequest(r) \/ Deliver(r)
      PROVE  CountInv' /\ AtLimit
  BY <1>2, <1>e DEF DropRequest, Deliver
<1>3. ASSUME NEW d \in Deployments, PatchDeployment(d) PROVE CountInv' /\ AtLimit
  <2>1. d \in Requests BY DEF Requests
  <2>2. QED BY <1>3, <1>k, <1>a, <2>1 DEF PatchDeployment
<1>4. ASSUME NEW p \in Pods, AllowPod(p) PROVE CountInv' /\ AtLimit
  BY <1>4, <1>k, <1>a, <1>p DEF AllowPod
<1>5. ASSUME NEW p \in Pods, AskDeviceId(p) PROVE CountInv' /\ AtLimit
  BY <1>5, <1>k, <1>s, <1>p DEF AskDeviceId
<1>6. ASSUME NEW p \in Pods,
             PatchFromPod(p) \/ DeviceIdAnswered(p) \/ DeviceIdTimeout(p)
      PROVE  CountInv' /\ AtLimit
  BY <1>6, <1>c, <1>w
     DEF PatchFromPod, DeviceIdAnswered, DeviceIdTimeout, PatchWith
<1>7. ASSUME NEW r \in Requests, NEW o, Request(r, o) PROVE CountInv' /\ AtLimit
  BY <1>7, <1>k, <1>s DEF Request
<1>8. ASSUME ClusterStep PROVE CountInv' /\ AtLimit
  <2>1. CASE \E d \in Deployments : CreateDeployment(d)
    BY <2>1, <1>7 DEF CreateDeployment, Requests
  <2>2. QED BY <1>8, <1>u, <2>1 DEF ClusterStep, Annotate, CreateOther,
           AnnotateNamespace, IdentityChanges, DnsServiceChanges, taskVars
<1>9. CASE UNCHANGED admissionVars
  BY <1>9, <1>u DEF admissionVars, taskVars
<1>10. ASSUME NEW p \in Pods, CreatePod(p) PROVE CountInv' /\ AtLimit
  BY <1>10, <1>7, <1>p DEF CreatePod
<1>11. QED
  BY <1>1, <1>2, <1>3, <1>4, <1>5, <1>6, <1>8, <1>9, <1>10
     DEF AdmissionNext, TaskStep

\* attempt_patch! admits a candidate unpatched only after MAX_PATCH_ATTEMPTS
\* failures of its service in a row, for any number of pods and services,
\* whatever requests are dropped or time out.
THEOREM UnpatchedAfterFailuresAlways == AdmissionSpec => UnpatchedAfterFailures
<1>1. CountInv /\ [AdmissionNext]_admissionVars
          => CountInv' /\ [AtLimit]_admissionVars
  BY CountStep
<1>2. AdmissionSpec => [][AtLimit]_admissionVars
  BY <1>1, CountInit, PTL DEF AdmissionSpec
<1>3. QED BY <1>2 DEF AtLimit, UnpatchedAfterFailures

-----------------------------------------------------------------------------
(***************************************************************************)
(* The decision to inject, taken once from the Deployment and its namespace *)
(* and read twice: by the watcher in the Deployment, by the webhook in its  *)
(* pods.                                                                   *)
(***************************************************************************)
\* What needs_injection reads is there.
HasKeys(a) == "strategy" \in DOMAIN a /\ "enabled" \in DOMAIN a

\* A Deployment whose own annotations and template take the same decision.
Consistent(o) ==
    HasKeys(o.template) /\ (needs_injection(o.meta) <=> needs_injection(o.template))

\* A pod takes the decision of the stored workload w.
Follows(o, w) ==
    /\ "annotations" \in DOMAIN o /\ HasKeys(o.annotations)
    /\ workload[w] # NoObject
    /\ needs_injection(o.annotations) <=> needs_injection(workload[w].meta)

DeploymentInv(d) ==
    /\ task[d] # "none" => workload[d] = NoObject
    /\ task[d] \in {"dns", "lock"} =>
           HasKeys(object[d].meta) /\ HasKeys(object[d].template)
    /\ task[d] = "answered" /\ Admits(reply[d]) => Consistent(object[d])
    /\ workload[d] # NoObject => Consistent(workload[d])

PodInv(p) ==
    /\ task[p] # "none" => Follows(object[p], OwnerOf[p])
    /\ pod[p] # NoObject => Follows(pod[p], OwnerOf[p])

\* While no Deployment that exists was annotated: a request for a Deployment
\* finds none stored, so no pod of it was asked for yet; a Deployment that is
\* or will be stored is consistent; and its pods follow it.
Decided ==
    /\ DOMAIN object = Requests /\ DOMAIN workload = Workloads /\ DOMAIN pod = Pods
    /\ \A d \in Deployments : DeploymentInv(d)
    /\ \A p \in Pods : OwnerOf[p] \in Deployments => PodInv(p)

DecisionInv == CountInv /\ annotations \in Nat /\ (annotations = 0 => Decided)

\* The patch of a Deployment writes the same decision in both places.
LEMMA DeploymentConsistent ==
    ASSUME NEW o, NEW ns, HasKeys(o.meta), HasKeys(o.template)
    PROVE  Consistent(patch_deployment(o, ns))
<1> DEFINE n == patch_deployment(o, ns)
<1>1. /\ n.meta.strategy = n.template.strategy
      /\ n.meta.enabled = n.template.enabled
      /\ HasKeys(n.template)
  BY DEF patch_deployment, HasKeys
<1>2. QED
  BY <1>1 DEF Consistent, needs_injection, injection_strategy,
     is_injection_enabled, is_injection_disabled

\* The patch of a pod takes the decision again from what it wrote.
LEMMA AnnotationsKeep ==
    ASSUME NEW o, NEW env, HasKeys(o.annotations)
    PROVE  /\ HasKeys(PatchAnnotations(o, env))
           /\ needs_injection(PatchAnnotations(o, env))
                  <=> needs_injection(o.annotations)
<1> DEFINE a == o.annotations
           b == PatchAnnotations(o, env)
<1>1. /\ HasKeys(b)
      /\ b.strategy = injection_strategy(a)
      /\ b.enabled = IF a.enabled # Absent THEN a.enabled
                     ELSE ToString(injection_strategy(a) = "enabledByDefault")
  BY DEF PatchAnnotations, HasKeys
<1>2. injection_strategy(a) \in {"enabledByDefault", "disabledByDefault"}
  BY DEF injection_strategy
<1> HIDE DEF a, b
<1>3. injection_strategy(b) = injection_strategy(a)
  BY <1>1, <1>2 DEF injection_strategy
<1>4. needs_injection(b) <=> needs_injection(a)
  BY <1>1, <1>2, <1>3 DEF needs_injection, is_injection_enabled,
     is_injection_disabled, ToString, Absent
<1>5. QED BY <1>1, <1>4 DEF a, b

\* So does patch, which leaves a pod alone that needs no patching.
LEMMA PatchKeeps ==
    ASSUME NEW o, NEW env, NEW ns, NEW ip,
           "annotations" \in DOMAIN o, HasKeys(o.annotations)
    PROVE  LET n == patch(o, env, ns, ip)
           IN  /\ "annotations" \in DOMAIN n
               /\ HasKeys(n.annotations)
               /\ needs_injection(n.annotations) <=> needs_injection(o.annotations)
<1>1. CASE needs_patching(o)
  <2>1. patch(o, env, ns, ip) = PatchSpec(o, env, ns, ip)
    BY <1>1 DEF patch
  <2>2. /\ "annotations" \in DOMAIN PatchSpec(o, env, ns, ip)
        /\ PatchSpec(o, env, ns, ip).annotations = PatchAnnotations(o, env)
    BY DEF PatchSpec
  <2>3. QED BY <2>1, <2>2, AnnotationsKeep
<1>2. CASE ~needs_patching(o)
  BY <1>2 DEF patch
<1>3. QED BY <1>1, <1>2

\* Nothing is stored or asked for at first.
LEMMA DecisionInit == AdmissionInit => DecisionInv
<1> SUFFICES ASSUME AdmissionInit PROVE DecisionInv
  OBVIOUS
<1>1. CountInv BY CountInit
<1>2. annotations = 0 /\ DOMAIN object = Requests /\ DOMAIN workload = Workloads
      /\ DOMAIN pod = Pods
  BY DEF AdmissionInit
<1>3. ASSUME NEW d \in Deployments PROVE DeploymentInv(d)
  BY AdmissionAssumption DEF AdmissionInit, DeploymentInv, Requests
<1>4. ASSUME NEW p \in Pods PROVE PodInv(p)
  BY DEF AdmissionInit, PodInv, Requests
<1>5. QED BY <1>1, <1>2, <1>3, <1>4 DEF DecisionInv, Decided

\* What a step of the task of r has to show when it stores nothing.
LEMMA TaskKeeps ==
    ASSUME Decided, NEW r \in Requests, UNCHANGED <<workload, pod>>,
           DOMAIN object' = Requests,
           \A q \in Requests \ {r} :
               task'[q] = task[q] /\ object'[q] = object[q] /\ reply'[q] = reply[q],
           r \in Deployments => DeploymentInv(r)',
           r \in Pods /\ OwnerOf[r] \in Deployments => PodInv(r)'
    PROVE  Decided'
<1>1. ASSUME NEW d \in Deployments PROVE DeploymentInv(d)'
  <2>1. CASE d = r BY <2>1
  <2>2. CASE d # r
    <3>1. task'[d] = task[d] /\ object'[d] = object[d] /\ reply'[d] = reply[d]
      BY <2>2 DEF Requests
    <3>2. QED BY <3>1 DEF Decided, DeploymentInv
  <2>3. QED BY <2>1, <2>2
<1>2. ASSUME NEW p \in Pods, OwnerOf[p] \in Deployments PROVE PodInv(p)'
  <2>1. CASE p = r BY <1>2, <2>1
  <2>2. CASE p # r
    <3>1. task'[p] = task[p] /\ object'[p] = object[p]
      BY <2>2 DEF Requests
    <3>2. QED BY <1>2, <3>1 DEF Decided, PodInv, Follows
  <2>3. QED BY <2>1, <2>2
<1>3. QED BY <1>1, <1>2 DEF Decided

\* A pod's task that keeps or patches its object.
LEMMA PodAnswerKeeps ==
    ASSUME CountInv, Decided, NEW p \in Pods, task[p] # "none",
           NEW kind, NEW o, Answer(p, kind, o),
           o = object[p] \/ \E env, ns, ip : o = patch(object[p], env, ns, ip)
    PROVE  Decided'
<1>1. p \in Requests /\ p \notin Deployments
  BY AdmissionAssumption DEF Requests
<1>2. /\ UNCHANGED <<workload, pod>> /\ DOMAIN object' = Requests
      /\ object'[p] = o
      /\ \A q \in Requests \ {p} :
            task'[q] = task[q] /\ object'[q] = object[q] /\ reply'[q] = reply[q]
  BY <1>1 DEF Answer, clusterVars, Decided, CountInv
<1>3. ASSUME OwnerOf[p] \in Deployments PROVE PodInv(p)'
  <2>1. Follows(object[p], OwnerOf[p]) BY <1>3 DEF Decided, PodInv
  <2>2. Follows(o, OwnerOf[p])
    BY <2>1, PatchKeeps DEF Follows
  <2>3. QED BY <1>2, <1>3, <2>2 DEF Decided, PodInv, Follows
<1>4. QED BY <1>1, <1>2, <1>3, TaskKeeps

\* The answers to a pod's request.
LEMMA PodTaskKeeps ==
    ASSUME CountInv, Decided, NEW p \in Pods,
           \/ AllowPod(p) \/ PatchFromPod(p)
           \/ DeviceIdAnswered(p) \/ DeviceIdTimeout(p)
    PROVE  Decided'
<1>1. task[p] # "none"
  BY DEF AllowPod, PatchFromPod, DeviceIdAnswered, DeviceIdTimeout
<1>c. ASSUME CountAttempt(p) PROVE Decided'
  BY <1>c, <1>1, PodAnswerKeeps DEF CountAttempt
<1>w. ASSUME NEW env, PatchWith(p, env) PROVE Decided'
  BY <1>w, <1>c, <1>1, PodAnswerKeeps DEF PatchWith, Succeed
<1>2. CASE AllowPod(p)
  BY <1>2, <1>1, PodAnswerKeeps DEF AllowPod
<1>3. QED
  BY <1>2, <1>c, <1>w DEF PatchFromPod, DeviceIdAnswered, DeviceIdTimeout

\* The answer to a Deployment's request.
LEMMA DeploymentAnswerKeeps ==
    ASSUME CountInv, Decided, NEW d \in Deployments, PatchDeployment(d)
    PROVE  Decided'
<1>1. d \in Requests /\ d \notin Pods
  BY AdmissionAssumption DEF Requests
<1>2. PICK kind, o : /\ Answer(d, kind, o)
                     /\ \/ kind = "error"
                        \/ o = patch_deployment(object[d], nsAnn[NamespaceOf[d]])
  BY DEF PatchDeployment
<1>3. /\ UNCHANGED <<workload, pod>> /\ DOMAIN object' = Requests
      /\ object'[d] = o /\ task'[d] = "answered" /\ reply'[d] = kind
      /\ \A q \in Requests \ {d} :
            task'[q] = task[q] /\ object'[q] = object[q] /\ reply'[q] = reply[q]
  BY <1>1, <1>2 DEF Answer, clusterVars, Decided, CountInv
<1>4. /\ workload[d] = NoObject
      /\ HasKeys(object[d].meta) /\ HasKeys(object[d].template)
  BY DEF PatchDeployment, Decided, DeploymentInv
<1>5. Admits(kind) => Consistent(o)
  BY <1>2, <1>4, DeploymentConsistent DEF Admits
<1>6. DeploymentInv(d)'
  BY <1>3, <1>4, <1>5 DEF DeploymentInv, Admits
<1>7. QED BY <1>1, <1>3, <1>6, TaskKeeps

\* A request moves to the lock, or to the DeviceIdProvider.
LEMMA WaitKeeps ==
    ASSUME CountInv, Decided, NEW r \in Requests,
           \/ dns_service_discover(r)
           \/ r \in Pods /\ AskDeviceId(r)
    PROVE  Decided'
<1>1. PICK t \in {"lock", "asking"} :
          /\ task' = [task EXCEPT ![r] = t]
          /\ t = "lock" => task[r] = "dns"
          /\ t = "asking" => r \in Pods
  BY DEF dns_service_discover, AskDeviceId
<1>2. UNCHANGED <<workload, pod, object, reply>> /\ task[r] # "none"
  BY DEF dns_service_discover, AskDeviceId, clusterVars
<1>3. \A q \in Requests \ {r} : task'[q] = task[q]
  BY <1>1 DEF CountInv
<1>4. task'[r] = t BY <1>1 DEF CountInv
<1>5. ASSUME r \in Deployments PROVE DeploymentInv(r)'
  <2>1. r \notin Pods BY <1>5, AdmissionAssumption
  <2>2. QED BY <1>1, <1>2, <1>4, <1>5, <2>1 DEF Decided, DeploymentInv
<1>6. ASSUME r \in Pods, OwnerOf[r] \in Deployments PROVE PodInv(r)'
  BY <1>2, <1>4, <1>6 DEF Decided, PodInv, Follows
<1>7. QED BY <1>2, <1>3, <1>5, <1>6, TaskKeeps DEF Decided

\* A new request.
LEMMA RequestKeeps ==
    ASSUME CountInv, Decided, NEW r \in Requests, NEW o, Request(r, o),
           r \in Deployments =>
               /\ workload[r] = NoObject
               /\ HasKeys(o.meta) /\ HasKeys(o.template),
           r \in Pods /\ OwnerOf[r] \in Deployments => Follows(o, OwnerOf[r])
    PROVE  Decided'
<1>1. /\ UNCHANGED <<workload, pod, reply>> /\ DOMAIN object' = Requests
      /\ object'[r] = o /\ task'[r] = "dns"
      /\ \A q \in Requests \ {r} : task'[q] = task[q] /\ object'[q] = object[q]
  BY DEF Request, clusterVars, Decided, CountInv
<1>2. r \in Deployments => DeploymentInv(r)'
  BY <1>1 DEF DeploymentInv
<1>3. r \in Pods /\ OwnerOf[r] \in Deployments => PodInv(r)'
  BY <1>1 DEF Decided, PodInv, Follows
<1>4. QED BY <1>1, <1>2, <1>3, TaskKeeps

\* The requests of users and controllers.
LEMMA CreateKeeps ==
    ASSUME CountInv, Decided
    PROVE  /\ \A d \in Deployments : CreateDeployment(d) => Decided'
           /\ \A p \in Pods : CreatePod(p) => Decided'
<1>1. ASSUME NEW d \in Deployments, CreateDeployment(d) PROVE Decided'
  <2>1. PICK a \in OwnAnnotations, t \in TemplateAnnotations[d] :
            Request(d, [meta |-> a, template |-> t])
    BY <1>1 DEF CreateDeployment
  <2>2. HasKeys(a) /\ HasKeys(t)
    BY AdmissionAssumption DEF HasKeys, NoAnnotations
  <2>3. d \in Requests /\ d \notin Pods /\ workload[d] = NoObject
    BY <1>1, AdmissionAssumption DEF Requests, CreateDeployment
  <2> DEFINE o == [meta |-> a, template |-> t]
  <2>4. o.meta = a /\ o.template = t
    OBVIOUS
  <2> HIDE DEF o
  <2>5. QED BY <2>1, <2>2, <2>3, <2>4, RequestKeeps DEF o
<1>2. ASSUME NEW p \in Pods, CreatePod(p) PROVE Decided'
  <2> DEFINE o == NewPod(p, workload[OwnerOf[p]].template)
  <2>1. Request(p, o) /\ workload[OwnerOf[p]] # NoObject
    BY <1>2 DEF CreatePod
  <2>2. p \in Requests /\ p \notin Deployments
    BY AdmissionAssumption DEF Requests
  <2>3. /\ "annotations" \in DOMAIN o
        /\ o.annotations = workload[OwnerOf[p]].template
    BY DEF NewPod
  <2> HIDE DEF o
  <2>4. OwnerOf[p] \in Deployments => Follows(o, OwnerOf[p])
    BY <2>1, <2>3 DEF Follows, Decided, DeploymentInv, Consistent
  <2>5. QED BY <2>1, <2>2, <2>4, RequestKeeps
<1>3. QED BY <1>1, <1>2

\* A request that Kubernetes drops.
LEMMA DropKeeps ==
    ASSUME CountInv, Decided, NEW r \in Requests, DropRequest(r)
    PROVE  Decided'
<1>1. /\ UNCHANGED <<workload, pod>> /\ DOMAIN object' = Requests
      /\ task'[r] = "none"
      /\ \A q \in Requests \ {r} :
            task'[q] = task[q] /\ object'[q] = object[q] /\ reply'[q] = reply[q]
  BY DEF DropRequest, End, clusterVars, Decided, CountInv
<1>2. r \in Deployments => DeploymentInv(r)'
  BY <1>1 DEF Decided, DeploymentInv
<1>3. r \in Pods /\ OwnerOf[r] \in Deployments => PodInv(r)'
  BY <1>1 DEF Decided, PodInv, Follows
<1>4. QED BY <1>1, <1>2, <1>3, TaskKeeps

\* Kubernetes stores an answer: of a Deployment while nothing of it exists, of
\* a pod that follows its Deployment.
LEMMA DeliverKeeps ==
    ASSUME CountInv, Decided, NEW r \in Requests, Deliver(r)
    PROVE  Decided'
<1>1. /\ DOMAIN object' = Requests
      /\ task[r] = "answered" /\ task'[r] = "none"
      /\ \A q \in Requests \ {r} :
            task'[q] = task[q] /\ object'[q] = object[q] /\ reply'[q] = reply[q]
  BY DEF Deliver, End, Decided, CountInv
<1>2. CASE r \in Pods
  <2>1. r \notin Deployments BY <1>2, AdmissionAssumption
  <2>2. workload' = workload BY <2>1 DEF Deliver
  <2>3. DOMAIN pod' = Pods /\ \A p \in Pods \ {r} : pod'[p] = pod[p]
    BY DEF Deliver, Decided
  <2>4. pod'[r] = pod[r] \/ pod'[r] = object[r]
    BY <1>2 DEF Deliver, Decided
  <2>5. ASSUME NEW d \in Deployments PROVE DeploymentInv(d)'
    BY <1>1, <2>1, <2>2 DEF Requests, Decided, DeploymentInv
  <2>6. ASSUME NEW p \in Pods, OwnerOf[p] \in Deployments PROVE PodInv(p)'
    <3>1. PodInv(p) BY <2>6 DEF Decided
    <3>2. CASE p = r
      BY <1>1, <2>2, <2>4, <3>1, <3>2 DEF PodInv, Follows
    <3>3. CASE p # r
      BY <1>1, <2>2, <2>3, <3>1, <3>3 DEF Requests, PodInv, Follows
    <3>4. QED BY <3>2, <3>3
  <2>7. QED BY <1>1, <2>2, <2>3, <2>5, <2>6 DEF Decided
<1>3. CASE r \in Deployments
  <2>1. r \notin Pods /\ r \in Workloads BY <1>3, AdmissionAssumption
  <2>2. pod' = pod BY <2>1 DEF Deliver
  <2>3. /\ DOMAIN workload' = Workloads
        /\ \A w \in Workloads \ {r} : workload'[w] = workload[w]
    BY DEF Deliver, Decided
  <2>4. workload[r] = NoObject BY <1>1, <1>3 DEF Decided, DeploymentInv
  <2>5. workload'[r] = NoObject \/ (Admits(reply[r]) /\ workload'[r] = object[r])
    BY <1>3, <2>1, <2>4 DEF Deliver, Decided
  <2>6. ASSUME NEW d \in Deployments PROVE DeploymentInv(d)'
    <3>1. DeploymentInv(d) BY DEF Decided
    <3>2. CASE d = r
      BY <1>1, <2>5, <3>1, <3>2 DEF DeploymentInv
    <3>3. CASE d # r
      <4>1. d \in Workloads /\ d \in Requests BY AdmissionAssumption DEF Requests
      <4>2. QED BY <1>1, <2>3, <3>1, <3>3, <4>1 DEF DeploymentInv
    <3>4. QED BY <3>2, <3>3
  <2>7. ASSUME NEW p \in Pods, OwnerOf[p] \in Deployments PROVE PodInv(p)'
    <3>1. PodInv(p) BY <2>7 DEF Decided
    <3>2. /\ p # r /\ p \in Requests /\ OwnerOf[p] \in Workloads
      BY <2>1, AdmissionAssumption DEF Requests
    <3>3. CASE OwnerOf[p] = r
      BY <1>1, <2>2, <2>4, <3>1, <3>2, <3>3 DEF PodInv, Follows
    <3>4. CASE OwnerOf[p] # r
      BY <1>1, <2>2, <2>3, <3>1, <3>2, <3>4 DEF PodInv, Follows
    <3>5. QED BY <3>3, <3>4
  <2>8. QED BY <1>1, <2>2, <2>3, <2>6, <2>7 DEF Decided
<1>4. QED BY <1>2, <1>3 DEF Requests

\* A workload of another kind has no Deployment's pods.
LEMMA OtherKeeps ==
    ASSUME Decided, NEW w \in Workloads \ Deployments, CreateOther(w)
    PROVE  Decided'
<1>1. UNCHANGED <<task, object, reply, pod>>
  BY DEF CreateOther, taskVars
<1>2. /\ DOMAIN workload' = Workloads
      /\ \A v \in Deployments : workload'[v] = workload[v]
  BY AdmissionAssumption DEF CreateOther, Decided
<1>3. ASSUME NEW d \in Deployments PROVE DeploymentInv(d)'
  BY <1>1, <1>2 DEF Decided, DeploymentInv
<1>4. ASSUME NEW p \in Pods, OwnerOf[p] \in Deployments PROVE PodInv(p)'
  BY <1>1, <1>2, <1>4 DEF Decided, PodInv, Follows
<1>5. QED BY <1>1, <1>2, <1>3, <1>4 DEF Decided

\* A step that changes nothing the decision depends on.
LEMMA FrameKeeps ==
    ASSUME Decided, UNCHANGED <<task, object, reply, workload, pod>>
    PROVE  Decided'
<1>1. ASSUME NEW d \in Deployments PROVE DeploymentInv(d)'
  BY DEF Decided, DeploymentInv
<1>2. ASSUME NEW p \in Pods, OwnerOf[p] \in Deployments PROVE PodInv(p)'
  BY <1>2 DEF Decided, PodInv, Follows
<1>3. QED BY <1>1, <1>2 DEF Decided

\* Only Annotate changes `annotations`.
LEMMA AnnotationsGrow ==
    ASSUME annotations \in Nat, [AdmissionNext]_admissionVars
    PROVE  \/ annotations' = annotations
           \/ annotations' = annotations + 1 /\ \E d \in Deployments : Annotate(d)
<1>1. ASSUME NEW p \in Pods,
             PatchFromPod(p) \/ DeviceIdAnswered(p) \/ DeviceIdTimeout(p)
      PROVE  annotations' = annotations
  BY <1>1 DEF PatchFromPod, DeviceIdAnswered, DeviceIdTimeout, PatchWith,
     Succeed, CountAttempt, Answer
<1>2. ASSUME NEW r \in Requests, TaskStep(r) \/ DropRequest(r)
      PROVE  annotations' = annotations
  BY <1>2, <1>1 DEF TaskStep, DropRequest, dns_service_discover, PatchDeployment,
     AllowPod, AskDeviceId, Deliver, Answer, counters
<1>3. ASSUME NEW p \in Pods, CreatePod(p) PROVE annotations' = annotations
  BY <1>3 DEF CreatePod, Request, counters
<1>4. ASSUME NEW d \in Deployments, CreateDeployment(d)
      PROVE  annotations' = annotations
  BY <1>4 DEF CreateDeployment, Request, counters
<1>5. ASSUME NEW d \in Deployments, Annotate(d) PROVE annotations' = annotations + 1
  BY <1>5 DEF Annotate
<1>6. ASSUME \/ \E w \in Workloads \ Deployments : CreateOther(w)
             \/ \E n \in Namespaces : AnnotateNamespace(n)
             \/ \E s \in Services : IdentityChanges(s)
             \/ DnsServiceChanges
      PROVE  annotations' = annotations
  BY <1>6 DEF CreateOther, AnnotateNamespace, IdentityChanges,
     DnsServiceChanges, counters
<1>7. CASE UNCHANGED admissionVars
  BY <1>7 DEF admissionVars, counters
<1>8. QED BY <1>2, <1>3, <1>4, <1>5, <1>6, <1>7 DEF AdmissionNext, ClusterStep

\* Every step keeps the invariant.
LEMMA DecisionStep ==
    ASSUME DecisionInv, [AdmissionNext]_admissionVars
    PROVE  DecisionInv'
<1>1. CountInv /\ CountInv' BY CountStep DEF DecisionInv
<1>2. annotations' \in Nat BY AnnotationsGrow DEF DecisionInv
<1>3. ASSUME annotations' = 0 PROVE Decided'
  <2>1. annotations = 0 /\ ~\E d \in Deployments : Annotate(d)
    <3>1. ASSUME NEW d \in Deployments, Annotate(d) PROVE annotations' # 0
      BY <3>1 DEF Annotate, DecisionInv
    <3>2. QED BY <1>3, <3>1, AnnotationsGrow DEF DecisionInv
  <2>2. Decided BY <2>1 DEF DecisionInv
  <2>3. ASSUME NEW r \in Requests, TaskStep(r) PROVE Decided'
    BY <1>1, <2>2, <2>3, PodTaskKeeps, DeploymentAnswerKeeps, WaitKeeps,
       DeliverKeeps DEF TaskStep
  <2>4. ASSUME ClusterStep PROVE Decided'
    <3>1. CASE \E d \in Deployments : CreateDeployment(d)
      BY <1>1, <2>2, <3>1, CreateKeeps
    <3>2. CASE \E w \in Workloads \ Deployments : CreateOther(w)
      BY <2>2, <3>2, OtherKeeps
    <3>3. CASE \/ \E n \in Namespaces : AnnotateNamespace(n)
               \/ \E s \in Services : IdentityChanges(s)
               \/ DnsServiceChanges
      BY <2>2, <3>3, FrameKeeps DEF AnnotateNamespace, IdentityChanges,
         DnsServiceChanges, taskVars
    <3>4. QED BY <2>1, <2>4, <3>1, <3>2, <3>3 DEF ClusterStep
  <2>5. CASE UNCHANGED admissionVars
    BY <2>2, <2>5, FrameKeeps DEF admissionVars, taskVars, clusterVars
  <2>6. QED
    BY <1>1, <2>2, <2>3, <2>4, <2>5, DropKeeps, CreateKeeps DEF AdmissionNext
<1>4. QED BY <1>1, <1>2, <1>3 DEF DecisionInv

\* The watcher of Deployments (Deployment::is_candidate) and the webhook
\* (Pod::is_candidate) take the same decision about a Deployment and its pods,
\* for any annotations, namespaces and numbers of Deployments and pods, as long
\* as nobody annotates a Deployment that exists.
THEOREM SameDecisionAlways == AdmissionSpec => []SameDecision
<1>1. DecisionInv /\ [AdmissionNext]_admissionVars => DecisionInv'
  BY DecisionStep
<1>2. DecisionInv => SameDecision
  BY DEF DecisionInv, Decided, PodInv, Follows, SameDecision, Stored
<1>3. QED BY <1>1, <1>2, DecisionInit, PTL DEF AdmissionSpec
=============================================================================
