---------------------------- MODULE WebhookProofs ---------------------------
(***************************************************************************)
(* More proofs about the admission webhook, for any number of workloads,   *)
(* pods and faults: the lock of attempts_store, the service a device id is *)
(* asked for, and the pod that the patch produces.                         *)
(***************************************************************************)
EXTENDS AdmissionProofs, SequenceTheorems

(***************************************************************************)
(* The lock: its queue holds the tasks that wait for it, each once.        *)
(***************************************************************************)
Waits(r) == task[r] \in {"lock", "asking"}

LockInv ==
    /\ task \in [Requests -> TaskStates]
    /\ queue \in Seq(Requests)
    /\ \A i, j \in DOMAIN queue : queue[i] = queue[j] => i = j
    /\ Names(queue) = {r \in Requests : Waits(r)}
    /\ \A r \in Requests : task[r] = "asking" => r \in Pods /\ Locked(r)

\* A task that neither waits nor begins to.
LEMMA LockFrame ==
    ASSUME LockInv, NEW r \in Requests, NEW t \in TaskStates,
           task' = [task EXCEPT ![r] = t], queue' = queue,
           ~Waits(r), t \notin {"lock", "asking"}
    PROVE  LockInv'
<1>1. task' \in [Requests -> TaskStates] /\ task'[r] = t
      /\ \A q \in Requests \ {r} : task'[q] = task[q]
  BY DEF LockInv
<1>2. \A q \in Requests : Waits(q)' <=> Waits(q)
  BY <1>1 DEF Waits
<1>3. Names(queue)' = Names(queue) BY DEF Names
<1>4. \A q \in Requests : task'[q] = "asking" => task[q] = "asking"
  BY <1>1
<1>5. QED BY <1>1, <1>2, <1>3, <1>4 DEF LockInv, Locked

\* A task gets in line, behind all others.
LEMMA LockAppend ==
    ASSUME LockInv, NEW r \in Requests, task[r] = "dns",
           task' = [task EXCEPT ![r] = "lock"], queue' = Append(queue, r)
    PROVE  LockInv'
<1>1. /\ task' \in [Requests -> TaskStates] /\ task'[r] = "lock"
      /\ \A q \in Requests \ {r} : task'[q] = task[q]
  BY DEF LockInv, TaskStates
<1>2. r \notin Names(queue) BY DEF LockInv, Waits
<1>3. /\ queue \in Seq(Requests) /\ queue' \in Seq(Requests)
      /\ Len(queue') = Len(queue) + 1 /\ queue'[Len(queue) + 1] = r
      /\ \A i \in 1..Len(queue) : queue'[i] = queue[i]
      /\ DOMAIN queue = 1..Len(queue) /\ DOMAIN queue' = 1..Len(queue')
      /\ Len(queue) \in Nat
  BY DEF LockInv
<1>4. \A i \in 1..Len(queue) : queue[i] # r BY <1>2, <1>3 DEF Names
<1>5. \A i, j \in DOMAIN queue' : queue'[i] = queue'[j] => i = j
  <2> SUFFICES ASSUME NEW i \in 1..(Len(queue) + 1), NEW j \in 1..(Len(queue) + 1),
                      queue'[i] = queue'[j]
               PROVE  i = j
    BY <1>3
  <2>1. CASE i \in 1..Len(queue) /\ j \in 1..Len(queue)
    BY <1>3, <2>1 DEF LockInv
  <2>2. CASE i = Len(queue) + 1 \/ j = Len(queue) + 1
    BY <1>3, <1>4, <2>2
  <2>3. QED BY <1>3, <2>1, <2>2
<1>6. Names(queue)' = Names(queue) \cup {r}
  <2>1. \A i \in 1..(Len(queue) + 1) : i \in 1..Len(queue) \/ i = Len(queue) + 1
    BY <1>3
  <2>2. Len(queue) + 1 \in 1..(Len(queue) + 1)
        /\ \A i \in 1..Len(queue) : i \in 1..(Len(queue) + 1)
    BY <1>3
  <2>3. QED BY <1>3, <2>1, <2>2 DEF Names
<1>7. Names(queue)' = {q \in Requests : Waits(q)'}
  BY <1>1, <1>6 DEF LockInv, Waits
<1>8. ASSUME NEW q \in Requests, task'[q] = "asking"
      PROVE  q \in Pods /\ Locked(q)'
  <2>1. task[q] = "asking" BY <1>1, <1>8
  <2>2. q \in Pods /\ queue # <<>> /\ Head(queue) = q
    BY <2>1 DEF LockInv, Locked
  <2>3. queue' # <<>> /\ Head(queue') = Head(queue) BY <1>3, <2>2
  <2>4. QED BY <2>2, <2>3 DEF Locked
<1>9. QED BY <1>1, <1>3, <1>5, <1>7, <1>8 DEF LockInv

\* Nobody but the head of the queue asks for a device id.
LEMMA OneAsks ==
    ASSUME LockInv, NEW r \in Requests, Locked(r)
    PROVE  \A q \in Requests \ {r} : task[q] # "asking"
BY DEF LockInv, Locked

\* The task that has the lock leaves.
LEMMA LockRelease ==
    ASSUME LockInv, NEW r \in Requests, Locked(r),
           task' = [task EXCEPT ![r] = "answered"], queue' = Tail(queue)
    PROVE  LockInv'
<1>1. /\ task' \in [Requests -> TaskStates] /\ task'[r] = "answered"
      /\ \A q \in Requests \ {r} : task'[q] = task[q]
  BY DEF LockInv, TaskStates
<1>2. /\ queue \in Seq(Requests) /\ queue # <<>> /\ queue' \in Seq(Requests)
      /\ Len(queue) \in Nat \ {0} /\ Len(queue') = Len(queue) - 1
      /\ queue[1] = r
      /\ \A i \in 1..Len(queue') : queue'[i] = queue[i + 1]
      /\ DOMAIN queue = 1..Len(queue) /\ DOMAIN queue' = 1..Len(queue')
  BY DEF LockInv, Locked
<1>3. \A i, j \in DOMAIN queue' : queue'[i] = queue'[j] => i = j
  <2> SUFFICES ASSUME NEW i \in 1..Len(queue'), NEW j \in 1..Len(queue'),
                      queue'[i] = queue'[j]
               PROVE  i = j
    BY <1>2
  <2>1. i + 1 \in DOMAIN queue /\ j + 1 \in DOMAIN queue /\ queue[i + 1] = queue[j + 1]
    BY <1>2
  <2>2. i + 1 = j + 1 BY <2>1 DEF LockInv
  <2>3. QED BY <2>2
<1>4. Names(queue)' = Names(queue) \ {r}
  <2>1. ASSUME NEW i \in 1..Len(queue') PROVE queue'[i] \in Names(queue) \ {r}
    <3>1. i + 1 \in DOMAIN queue /\ 1 \in DOMAIN queue /\ i + 1 # 1 BY <1>2
    <3>2. queue[i + 1] # queue[1] BY <3>1 DEF LockInv
    <3>3. QED BY <1>2, <3>1, <3>2 DEF Names
  <2>2. ASSUME NEW i \in 1..Len(queue), queue[i] # r
        PROVE  queue[i] \in Names(queue)'
    <3>1. i # 1 /\ i - 1 \in 1..Len(queue') /\ queue'[i - 1] = queue[i]
      BY <1>2, <2>2
    <3>2. QED BY <1>2, <3>1 DEF Names
  <2>3. QED BY <1>2, <2>1, <2>2 DEF Names
<1>5. Names(queue)' = {q \in Requests : Waits(q)'}
  BY <1>1, <1>4 DEF LockInv, Waits
<1>6. \A q \in Requests : task'[q] # "asking"
  BY <1>1, OneAsks
<1>7. QED BY <1>1, <1>2, <1>3, <1>5, <1>6 DEF LockInv

\* The task that has the lock asks for a device id.
LEMMA LockAsk ==
    ASSUME LockInv, NEW p \in Pods, p \in Requests, Locked(p), task[p] = "lock",
           task' = [task EXCEPT ![p] = "asking"], queue' = queue
    PROVE  LockInv'
<1>1. /\ task' \in [Requests -> TaskStates] /\ task'[p] = "asking"
      /\ \A q \in Requests \ {p} : task'[q] = task[q]
  BY DEF LockInv, TaskStates
<1>2. \A q \in Requests : Waits(q)' <=> Waits(q) BY <1>1 DEF Waits
<1>3. Names(queue)' = Names(queue) /\ Locked(p)' BY DEF Names, Locked
<1>4. \A q \in Requests : task'[q] = "asking" => q = p
  BY <1>1, OneAsks
<1>5. QED BY <1>1, <1>2, <1>3, <1>4 DEF LockInv

\* A task that is dropped leaves the queue, wherever it is.
LEMMA LockLeave ==
    ASSUME LockInv, NEW r \in Requests,
           task' = [task EXCEPT ![r] = "none"], Leave(r)
    PROVE  LockInv'
<1>1. /\ task' \in [Requests -> TaskStates] /\ task'[r] = "none"
      /\ \A q \in Requests \ {r} : task'[q] = task[q]
  BY DEF LockInv, TaskStates
<1>2. CASE r \notin Names(queue) /\ queue' = queue
  <2>1. ~Waits(r) BY <1>2 DEF LockInv
  <2>2. "none" \in TaskStates BY DEF TaskStates
  <2>3. QED BY <1>2, <2>1, <2>2, LockFrame
<1>3. ASSUME NEW k \in DOMAIN queue, queue[k] = r,
             queue' = [i \in 1..(Len(queue) - 1) |->
                          queue[IF i < k THEN i ELSE i + 1]]
      PROVE  LockInv'
  <2>1. /\ queue \in Seq(Requests) /\ Len(queue) \in Nat
        /\ DOMAIN queue = 1..Len(queue) /\ k \in 1..Len(queue)
    BY <1>3 DEF LockInv
  <2> DEFINE at(i) == IF i < k THEN i ELSE i + 1
  <2>2. \A i \in 1..(Len(queue) - 1) : at(i) \in 1..Len(queue) /\ at(i) # k
    BY <2>1
  <2>3. \A i, j \in 1..(Len(queue) - 1) : at(i) = at(j) => i = j
    BY <2>1
  <2>4. \A i \in 1..Len(queue) : i # k =>
           \E j \in 1..(Len(queue) - 1) : at(j) = i
    <3> SUFFICES ASSUME NEW i \in 1..Len(queue), i # k
                 PROVE  \E j \in 1..(Len(queue) - 1) : at(j) = i
      OBVIOUS
    <3>1. CASE i < k
      <4>1. i \in 1..(Len(queue) - 1) /\ at(i) = i BY <2>1, <3>1
      <4>2. QED BY <4>1
    <3>2. CASE i > k
      <4>1. i - 1 \in 1..(Len(queue) - 1) /\ at(i - 1) = i BY <2>1, <3>2
      <4>2. QED BY <4>1
    <3>3. QED BY <2>1, <3>1, <3>2
  <2>5. /\ Len(queue) - 1 \in Nat
        /\ \A i \in 1..(Len(queue) - 1) : queue[at(i)] \in Requests
    BY <2>1, <2>2
  <2>6. /\ queue' \in Seq(Requests) /\ Len(queue') = Len(queue) - 1
        /\ DOMAIN queue' = 1..(Len(queue) - 1)
        /\ \A i \in 1..(Len(queue) - 1) : queue'[i] = queue[at(i)]
    BY <1>3, <2>5
  <2> HIDE DEF at
  <2>7. \A i, j \in DOMAIN queue' : queue'[i] = queue'[j] => i = j
    BY <2>1, <2>2, <2>3, <2>6 DEF LockInv
  <2>8. Names(queue)' = Names(queue) \ {r}
    <3>1. ASSUME NEW i \in 1..(Len(queue) - 1)
          PROVE  queue'[i] \in Names(queue) \ {r}
      <4>1. queue[at(i)] # queue[k] BY <2>1, <2>2 DEF LockInv
      <4>2. QED BY <1>3, <2>1, <2>2, <2>6, <4>1 DEF Names
    <3>2. ASSUME NEW i \in 1..Len(queue), queue[i] # r
          PROVE  queue[i] \in Names(queue)'
      <4>1. PICK j \in 1..(Len(queue) - 1) : at(j) = i BY <1>3, <2>4, <3>2
      <4>2. QED BY <2>6, <4>1 DEF Names
    <3>3. QED BY <2>1, <2>6, <3>1, <3>2 DEF Names
  <2>9. Names(queue)' = {q \in Requests : Waits(q)'}
    BY <1>1, <2>8 DEF LockInv, Waits
  <2>10. ASSUME NEW q \in Requests, task'[q] = "asking"
         PROVE  q \in Pods /\ Locked(q)'
    <3>1. q # r /\ task[q] = "asking" BY <1>1, <2>10
    <3>2. q \in Pods /\ queue[1] = q /\ queue # <<>>
      BY <2>1, <3>1 DEF LockInv, Locked
    <3>3. k # 1 BY <1>3, <3>1, <3>2
    <3>4. 1 \in 1..(Len(queue) - 1) /\ at(1) = 1
      BY <2>1, <3>3 DEF at
    <3>5. queue' # <<>> /\ queue'[1] = q BY <2>6, <3>2, <3>4
    <3>6. QED BY <2>6, <3>2, <3>5 DEF Locked
  <2>11. QED BY <1>1, <2>6, <2>7, <2>9, <2>10 DEF LockInv
<1>4. QED BY <1>2, <1>3 DEF Leave

\* The answer to a request is given with the lock held.
LEMMA AnswerHasLock ==
    ASSUME LockInv, NEW p \in Pods, NEW kind, NEW o, Answer(p, kind, o),
           (Locked(p) /\ task[p] = "lock") \/ task[p] = "asking"
    PROVE  LockInv'
<1>1. p \in Requests BY DEF Requests
<1>2. Locked(p) BY <1>1 DEF LockInv
<1>3. task' = [task EXCEPT ![p] = "answered"] /\ queue' = Tail(queue)
  BY DEF Answer
<1>4. QED BY <1>1, <1>2, <1>3, LockRelease

\* What the answers to a pod are.
LEMMA PodAnswers ==
    ASSUME NEW p \in Pods,
           \/ AllowPod(p) \/ PatchFromPod(p)
           \/ DeviceIdAnswered(p) \/ DeviceIdTimeout(p)
    PROVE  /\ \E kind, o : Answer(p, kind, o)
           /\ (Locked(p) /\ task[p] = "lock") \/ task[p] = "asking"
BY DEF AllowPod, PatchFromPod, DeviceIdAnswered, DeviceIdTimeout, PatchWith,
   Succeed, CountAttempt

\* Every step keeps the queue.
LEMMA LockStep ==
    ASSUME LockInv, [AdmissionNext]_admissionVars
    PROVE  LockInv'
<1>u. ASSUME UNCHANGED <<task, queue>> PROVE LockInv'
  BY <1>u DEF LockInv, Waits, Locked, Names
<1>k. {"none", "dns", "answered"} \subseteq TaskStates BY DEF TaskStates
<1>r. ASSUME NEW r \in Requests, NEW o, Request(r, o) PROVE LockInv'
  <2>1. task[r] = "none" /\ task' = [task EXCEPT ![r] = "dns"] /\ queue' = queue
    BY <1>r DEF Request
  <2>2. QED BY <1>k, <2>1, LockFrame DEF Waits
<1>1. ASSUME NEW r \in Requests, dns_service_discover(r) PROVE LockInv'
  BY <1>1, LockAppend DEF dns_service_discover
<1>2. ASSUME NEW d \in Deployments, PatchDeployment(d) PROVE LockInv'
  <2>1. d \in Requests BY DEF Requests
  <2>2. /\ Locked(d) /\ task' = [task EXCEPT ![d] = "answered"]
        /\ queue' = Tail(queue)
    BY <1>2 DEF PatchDeployment, Answer
  <2>3. QED BY <2>1, <2>2, LockRelease
<1>3. ASSUME NEW p \in Pods, \/ AllowPod(p) \/ PatchFromPod(p)
                             \/ DeviceIdAnswered(p) \/ DeviceIdTimeout(p)
      PROVE  LockInv'
  BY <1>3, PodAnswers, AnswerHasLock
<1>4. ASSUME NEW p \in Pods, AskDeviceId(p) PROVE LockInv'
  BY <1>4, LockAsk DEF AskDeviceId, Requests
<1>5. ASSUME NEW r \in Requests, Deliver(r) PROVE LockInv'
  <2>1. /\ task[r] = "answered" /\ task' = [task EXCEPT ![r] = "none"]
        /\ queue' = queue
    BY <1>5 DEF Deliver, End
  <2>2. QED BY <1>k, <2>1, LockFrame DEF Waits
<1>6. ASSUME NEW r \in Requests, DropRequest(r) PROVE LockInv'
  BY <1>6, LockLeave DEF DropRequest, End
<1>7. ASSUME NEW p \in Pods, CreatePod(p) PROVE LockInv'
  BY <1>7, <1>r DEF CreatePod, Requests
<1>8. ASSUME ClusterStep PROVE LockInv'
  <2>1. CASE \E d \in Deployments : CreateDeployment(d)
    BY <2>1, <1>r DEF CreateDeployment, Requests
  <2>2. QED BY <1>8, <1>u, <2>1 DEF ClusterStep, Annotate, CreateOther,
           AnnotateNamespace, IdentityChanges, DnsServiceChanges, taskVars
<1>9. CASE UNCHANGED admissionVars
  BY <1>9, <1>u DEF admissionVars, taskVars
<1>10. QED
  BY <1>1, <1>2, <1>3, <1>4, <1>5, <1>6, <1>7, <1>8, <1>9
     DEF AdmissionNext, TaskStep

\* The other variables with a type of their own.
CounterInv ==
    /\ found \in [Requests -> Addresses \cup {Absent}]
    /\ identities \subseteq Services
    /\ dns \in Addresses
    /\ faults \in 0..MaxFaults /\ changes \in 0..MaxChanges
    /\ annotations \in Nat

\* Every step keeps them.
LEMMA CounterStep ==
    ASSUME CounterInv, [AdmissionNext]_admissionVars
    PROVE  CounterInv'
<1> USE AdmissionAssumption
<1>f. Fault => faults' \in 0..MaxFaults BY DEF Fault, CounterInv
<1>c. Change => changes' \in 0..MaxChanges BY DEF Change, CounterInv
<1>a. ASSUME NEW r \in Requests, NEW kind, NEW o, Answer(r, kind, o),
             faults' = faults \/ Fault
      PROVE  CounterInv'
  BY <1>a, <1>f DEF CounterInv, Answer, clusterVars
<1>e. ASSUME NEW r \in Requests, End(r), UNCHANGED <<dns, identities, changes>>,
             faults' = faults \/ Fault, annotations' = annotations
      PROVE  CounterInv'
  BY <1>e, <1>f DEF CounterInv, End
<1>r. ASSUME NEW r \in Requests, NEW o, Request(r, o) PROVE CounterInv'
  BY <1>r DEF CounterInv, Request, clusterVars, counters
<1>1. ASSUME NEW r \in Requests, dns_service_discover(r) PROVE CounterInv'
  <2>1. found' \in [Requests -> Addresses \cup {Absent}]
    BY <1>1 DEF dns_service_discover, CounterInv
  <2>2. QED BY <1>1, <1>f, <2>1 DEF dns_service_discover, CounterInv, clusterVars
<1>2. ASSUME NEW d \in Deployments, PatchDeployment(d) PROVE CounterInv'
  <2>1. d \in Requests BY DEF Requests
  <2>2. QED BY <1>2, <1>a, <2>1 DEF PatchDeployment
<1>3. ASSUME NEW p \in Pods, \/ AllowPod(p) \/ PatchFromPod(p)
                             \/ DeviceIdAnswered(p) \/ DeviceIdTimeout(p)
      PROVE  CounterInv'
  <2>1. p \in Requests BY DEF Requests
  <2>2. faults' = faults \/ Fault
    BY <1>3 DEF AllowPod, PatchFromPod, DeviceIdAnswered, DeviceIdTimeout
  <2>3. QED BY <1>3, <1>a, <2>1, <2>2, PodAnswers
<1>4. ASSUME NEW p \in Pods, AskDeviceId(p) PROVE CounterInv'
  BY <1>4 DEF AskDeviceId, CounterInv, clusterVars, counters
<1>5. ASSUME NEW r \in Requests, Deliver(r) PROVE CounterInv'
  BY <1>5, <1>e DEF Deliver, counters
<1>6. ASSUME NEW r \in Requests, DropRequest(r) PROVE CounterInv'
  BY <1>6, <1>e DEF DropRequest, clusterVars
<1>7. ASSUME NEW p \in Pods, CreatePod(p) PROVE CounterInv'
  BY <1>7, <1>r DEF CreatePod, Requests
<1>8. ASSUME ClusterStep PROVE CounterInv'
  <2>1. CASE \E d \in Deployments : CreateDeployment(d)
    BY <2>1, <1>r DEF CreateDeployment, Requests
  <2>2. CASE \E d \in Deployments : Annotate(d)
    BY <2>2, <1>c DEF Annotate, CounterInv, taskVars
  <2>3. CASE \E w \in Workloads \ Deployments : CreateOther(w)
    BY <2>3 DEF CreateOther, CounterInv, taskVars, counters
  <2>4. CASE \E n \in Namespaces : AnnotateNamespace(n)
    BY <2>4, <1>c DEF AnnotateNamespace, CounterInv, taskVars
  <2>5. CASE \E s \in Services : IdentityChanges(s)
    BY <2>5, <1>c DEF IdentityChanges, CounterInv, taskVars
  <2>6. CASE DnsServiceChanges
    BY <2>6, <1>c DEF DnsServiceChanges, CounterInv, taskVars
  <2>7. QED BY <1>8, <2>1, <2>2, <2>3, <2>4, <2>5, <2>6 DEF ClusterStep
<1>9. CASE UNCHANGED admissionVars
  BY <1>9 DEF admissionVars, CounterInv, clusterVars, taskVars, counters
<1>10. QED
  BY <1>1, <1>2, <1>3, <1>4, <1>5, <1>6, <1>7, <1>8, <1>9
     DEF AdmissionNext, TaskStep

\* The types, in the parts above.
LEMMA AdmissionTypes == LockInv /\ CounterInv /\ CountInv => AdmissionTypeOK
BY DEF LockInv, CounterInv, CountInv, AdmissionTypeOK, Waits, Replies

\* The parts hold at first.
LEMMA AdmissionTypesInit == AdmissionInit => LockInv /\ CounterInv /\ CountInv
<1> SUFFICES ASSUME AdmissionInit PROVE LockInv /\ CounterInv
  BY CountInit
<1>1. LockInv
  BY DEF AdmissionInit, LockInv, TaskStates, Waits, Names
<1>2. CounterInv
  BY AdmissionAssumption DEF AdmissionInit, CounterInv
<1>3. QED BY <1>1, <1>2

\* Every state of the webhook is well typed: the queue of the lock holds the
\* tasks that wait for it or have it, each once, also when Kubernetes drops
\* requests; only the task that has the lock asks for a device id; and the
\* counters of attempts_store stay within the limit.
THEOREM AdmissionTyping == AdmissionSpec => []AdmissionTypeOK
<1>1. LockInv /\ CounterInv /\ CountInv /\ [AdmissionNext]_admissionVars
          => LockInv' /\ CounterInv' /\ CountInv'
  BY LockStep, CounterStep, CountStep
<1>2. QED BY <1>1, AdmissionTypes, AdmissionTypesInit, PTL DEF AdmissionSpec

-----------------------------------------------------------------------------
(***************************************************************************)
(* Names: the service of a pod is the one of its workload.                 *)
(***************************************************************************)
\* Two lists joined by a part between them.
LEMMA JoinParts ==
    ASSUME NEW S, NEW x \in S, NEW a \in Seq(S), NEW b \in Seq(S),
           NEW s, s = a \o <<x>> \o b
    PROVE  /\ s \in Seq(S) /\ Len(s) = Len(a) + 1 + Len(b)
           /\ \A i \in 1..Len(a) : s[i] = a[i]
           /\ s[Len(a) + 1] = x
           /\ \A i \in 1..Len(b) : s[Len(a) + 1 + i] = b[i]
<1> DEFINE m == a \o <<x>>
<1>1. <<x>> \in Seq(S) /\ Len(<<x>>) = 1 /\ <<x>>[1] = x OBVIOUS
<1>2. Len(a) \in Nat /\ Len(b) \in Nat BY LenProperties
<1>3. /\ m \in Seq(S) /\ Len(m) = Len(a) + 1
      /\ \A i \in 1..(Len(a) + 1) :
            m[i] = IF i <= Len(a) THEN a[i] ELSE <<x>>[i - Len(a)]
  BY <1>1, ConcatProperties
<1>4. (\A i \in 1..Len(a) : m[i] = a[i]) /\ m[Len(a) + 1] = x
  BY <1>1, <1>2, <1>3
<1>5. s = m \o b OBVIOUS
<1> HIDE DEF m
<1>6. /\ s \in Seq(S) /\ Len(s) = Len(m) + Len(b)
      /\ \A i \in 1..Len(m) + Len(b) :
            s[i] = IF i <= Len(m) THEN m[i] ELSE b[i - Len(m)]
  BY <1>3, <1>5, ConcatProperties
<1>7. (\A i \in 1..Len(a) : s[i] = a[i]) /\ s[Len(a) + 1] = x
  BY <1>2, <1>3, <1>4, <1>6
<1>8. \A i \in 1..Len(b) : s[Len(a) + 1 + i] = b[i]
  BY <1>2, <1>3, <1>6
<1>9. QED BY <1>2, <1>3, <1>6, <1>7, <1>8

\* A list is a sequence over any set that has its elements.
LEMMA ListIn ==
    ASSUME NEW s, IsList(s), NEW S, Names(s) \subseteq S
    PROVE  s \in Seq(S)
BY SeqMonotonic DEF IsList

\* The separator of service_id is no part of the name.
NoSeparator(a) == "_" \notin Names(a)

\* service_id keeps what it joins: "_" is in no namespace.
LEMMA ServiceIdInjective ==
    ASSUME NEW a, NEW b, NEW c, NEW d,
           IsList(a), IsList(b), IsList(c), IsList(d),
           NoSeparator(a), NoSeparator(c),
           service_id(a, b) = service_id(c, d)
    PROVE  a = c /\ b = d
<1>1. PICK x : x = "_" OBVIOUS
<1>2. x \notin Names(a) /\ x \notin Names(c)
  BY <1>1, Zenon DEF NoSeparator
<1> DEFINE S == Names(a) \cup Names(b) \cup Names(c) \cup Names(d) \cup {x}
<1>3. /\ a \in Seq(S) /\ b \in Seq(S) /\ c \in Seq(S) /\ d \in Seq(S)
      /\ x \in S
  BY ListIn
<1> HIDE DEF S
<1>4. PICK s : s = a \o <<x>> \o b OBVIOUS
<1>5. PICK t : t = c \o <<x>> \o d OBVIOUS
<1>6. s = t BY <1>1, <1>4, <1>5, Zenon DEF service_id
<1>7. /\ Len(s) = Len(a) + 1 + Len(b) /\ s[Len(a) + 1] = x
      /\ \A i \in 1..Len(a) : s[i] = a[i]
      /\ \A i \in 1..Len(b) : s[Len(a) + 1 + i] = b[i]
  BY <1>3, <1>4, JoinParts
<1>8. /\ Len(t) = Len(c) + 1 + Len(d) /\ t[Len(c) + 1] = x
      /\ \A i \in 1..Len(c) : t[i] = c[i]
      /\ \A i \in 1..Len(d) : t[Len(c) + 1 + i] = d[i]
  BY <1>3, <1>5, JoinParts
<1>9. /\ Len(a) \in Nat /\ Len(b) \in Nat /\ Len(c) \in Nat /\ Len(d) \in Nat
      /\ \A i \in 1..Len(a) : a[i] # x
      /\ \A i \in 1..Len(c) : c[i] # x
  BY <1>2, <1>3, LenProperties DEF Names
<1>10. ~(Len(a) < Len(c))
  <2> SUFFICES ASSUME Len(a) < Len(c) PROVE FALSE
    OBVIOUS
  <2>1. Len(a) + 1 \in 1..Len(c) BY <1>9
  <2>2. QED BY <1>6, <1>7, <1>8, <1>9, <2>1
<1>11. ~(Len(c) < Len(a))
  <2> SUFFICES ASSUME Len(c) < Len(a) PROVE FALSE
    OBVIOUS
  <2>1. Len(c) + 1 \in 1..Len(a) BY <1>9
  <2>2. QED BY <1>6, <1>7, <1>8, <1>9, <2>1
<1>12. Len(a) = Len(c) /\ Len(b) = Len(d)
  BY <1>6, <1>7, <1>8, <1>9, <1>10, <1>11
<1>13. \A i \in 1..Len(a) : a[i] = c[i] BY <1>6, <1>7, <1>8, <1>12
<1>14. \A i \in 1..Len(b) : b[i] = d[i] BY <1>6, <1>7, <1>8, <1>12
<1>15. a = c BY <1>3, <1>12, <1>13, SeqEqual
<1>16. b = d BY <1>3, <1>12, <1>14, SeqEqual
<1>17. QED BY <1>15, <1>16

\* A name with two more parts, and the name again.
LEMMA TwoMoreParts ==
    ASSUME NEW a, IsList(a), a # <<>>, NEW x, NEW y,
           NEW g, g = a \o <<x>> \o <<y>>
    PROVE  g # <<>> /\ Len(g) > 2 /\ SubSeq(g, 1, Len(g) - 2) = a
<1> DEFINE S == Names(a) \cup {x, y}
<1>1. a \in Seq(S) /\ x \in S /\ y \in S BY ListIn
<1> HIDE DEF S
<1>2. <<y>> \in Seq(S) /\ Len(<<y>>) = 1 BY <1>1
<1>3. Len(a) \in Nat \ {0} BY <1>1, EmptySeq
<1>4. /\ g \in Seq(S) /\ Len(g) = Len(a) + 2
      /\ \A i \in 1..Len(a) : g[i] = a[i]
  BY <1>1, <1>2, <1>3, JoinParts
<1>5. g # <<>> /\ Len(g) > 2 /\ Len(g) - 2 = Len(a) BY <1>3, <1>4
<1> DEFINE n == Len(a)
           u == SubSeq(g, 1, n)
<1>6. \A i \in 1..n : g[i] \in S BY <1>1, <1>4, ElementOfSeq
<1>7. /\ u \in Seq(S)
      /\ Len(u) = IF 1 <= n THEN n - 1 + 1 ELSE 0
      /\ \A i \in 1..(n - 1 + 1) : u[i] = g[1 + i - 1]
  BY <1>3, <1>6, SubSeqProperties
<1> HIDE DEF u
<1>8. Len(u) = n /\ \A i \in 1..n : u[i] = g[i] BY <1>3, <1>7
<1>9. u = a BY <1>1, <1>4, <1>7, <1>8, SeqEqual
<1>10. QED BY <1>5, <1>9 DEF u

\* Annotations of the pods of w: the README asks for pod-name where the webhook
\* cannot tell the name of the workload from the generated one.
Template(w, a) ==
    /\ DOMAIN a = DOMAIN NoAnnotations
    /\ a.podName = IF w \in Deployments THEN <<>> ELSE NameOf[w]

\* The name of a pod as it is requested is the name of its workload.
LEMMA NamedByWorkload ==
    ASSUME NEW p \in Pods, NEW a, Template(OwnerOf[p], a)
    PROVE  Named(NewPod(p, a)) = NameOf[OwnerOf[p]]
<1> DEFINE w == OwnerOf[p]
           o == NewPod(p, a)
<1>1. w \in Workloads /\ IsList(NameOf[w]) /\ NameOf[w] # <<>>
  BY AdmissionAssumption, NamingAssumption
<1>2. /\ o.annotations = a
      /\ w \in Deployments => o.generateName = NameOf[w] \o <<"hash">> \o <<"">>
  BY DEF NewPod
<1> HIDE DEF w, o
<1>3. CASE w \notin Deployments
  <2>1. a.podName = NameOf[w] BY <1>3 DEF Template, w
  <2>2. QED BY <1>1, <1>2, <2>1 DEF Named, w, o
<1>4. CASE w \in Deployments
  <2>1. a.podName = <<>> BY <1>4 DEF Template, w
  <2>2. PICK g : g = o.generateName OBVIOUS
  <2>3. g = NameOf[w] \o <<"hash">> \o <<"">> BY <1>2, <1>4, <2>2, Zenon
  <2>4. g # <<>> /\ Len(g) > 2 /\ SubSeq(g, 1, Len(g) - 2) = NameOf[w]
    BY <1>1, <2>3, TwoMoreParts, Zenon
  <2>5. Named(o) = NameOf[w] BY <1>2, <2>1, <2>2, <2>4 DEF Named
  <2>6. QED BY <2>5 DEF w, o
<1>5. QED BY <1>3, <1>4

\* Services tell workloads apart.
LEMMA ServiceTellsWorkload ==
    ASSUME NEW v \in Workloads, NEW w \in Workloads, ServiceOf(v) = ServiceOf(w)
    PROVE  v = w
<1>1. NamespaceOf[v] = NamespaceOf[w] /\ NameOf[v] = NameOf[w]
  <2>1. service_id(NamespaceOf[v], NameOf[v]) = service_id(NamespaceOf[w], NameOf[w])
    BY DEF ServiceOf
  <2>2. /\ IsList(NamespaceOf[v]) /\ IsList(NameOf[v])
        /\ IsList(NamespaceOf[w]) /\ IsList(NameOf[w])
        /\ NoSeparator(NamespaceOf[v]) /\ NoSeparator(NamespaceOf[w])
    BY NamingAssumption DEF NoSeparator
  <2>3. QED BY <2>1, <2>2, ServiceIdInjective
<1>2. QED BY <1>1, NamingAssumption

-----------------------------------------------------------------------------
(***************************************************************************)
(* The patched pod.                                                        *)
(***************************************************************************)
\* The names of two lists behind one another.
LEMMA JoinedNames ==
    ASSUME NEW a, NEW b, IsList(a), IsList(b)
    PROVE  /\ Names(a) \subseteq Names(a \o b) /\ Names(b) \subseteq Names(a \o b)
           /\ Len(a \o b) = Len(a) + Len(b)
           /\ SubSeq(a \o b, 1, Len(a)) = a
<1> DEFINE S == Names(a) \cup Names(b)
           s == a \o b
<1>1. a \in Seq(S) /\ b \in Seq(S) BY ListIn
<1> HIDE DEF S
<1>2. /\ Len(a) \in Nat /\ Len(b) \in Nat
      /\ DOMAIN a = 1..Len(a) /\ DOMAIN b = 1..Len(b)
  BY <1>1, LenProperties
<1>3. /\ s \in Seq(S) /\ Len(s) = Len(a) + Len(b)
      /\ \A i \in 1..Len(a) + Len(b) :
            s[i] = IF i <= Len(a) THEN a[i] ELSE b[i - Len(a)]
  BY <1>1, ConcatProperties
<1>4. DOMAIN s = 1..(Len(a) + Len(b)) BY <1>3, LenProperties
<1> HIDE DEF s
<1>5. \A i \in 1..Len(a) : i \in DOMAIN s /\ s[i] = a[i] BY <1>2, <1>3, <1>4
<1>6. \A i \in 1..Len(b) : Len(a) + i \in DOMAIN s /\ s[Len(a) + i] = b[i]
  BY <1>2, <1>3, <1>4
<1> DEFINE n == Len(a)
           u == SubSeq(s, 1, n)
<1>7. \A i \in 1..n : s[i] \in S BY <1>1, <1>5, ElementOfSeq
<1>8. /\ u \in Seq(S)
      /\ Len(u) = IF 1 <= n THEN n - 1 + 1 ELSE 0
      /\ \A i \in 1..(n - 1 + 1) : u[i] = s[1 + i - 1]
  BY <1>2, <1>7, SubSeqProperties
<1> HIDE DEF u
<1>9. Len(u) = n /\ \A i \in 1..n : u[i] = a[i] BY <1>2, <1>5, <1>8
<1>10. u = a BY <1>1, <1>8, <1>9, SeqEqual
<1>11. Names(a) \subseteq Names(s) BY <1>2, <1>5 DEF Names
<1>12. Names(b) \subseteq Names(s) BY <1>2, <1>6 DEF Names
<1>13. QED BY <1>3, <1>10, <1>11, <1>12 DEF s, u

\* A list between two parts, and the list again.
LEMMA BetweenParts ==
    ASSUME NEW a, IsList(a), NEW x, NEW y, NEW g, g = <<x>> \o a \o <<y>>
    PROVE  SubSeq(g, 2, Len(g) - 1) = a
<1> DEFINE S == Names(a) \cup {x, y}
           m == <<x>> \o a
<1>1. a \in Seq(S) /\ x \in S /\ y \in S BY ListIn
<1> HIDE DEF S
<1>2. /\ <<x>> \in Seq(S) /\ Len(<<x>>) = 1
      /\ <<y>> \in Seq(S) /\ Len(<<y>>) = 1
  BY <1>1
<1>3. Len(a) \in Nat BY <1>1, LenProperties
<1>4. /\ m \in Seq(S) /\ Len(m) = Len(<<x>>) + Len(a)
      /\ \A i \in 1..Len(<<x>>) + Len(a) :
            m[i] = IF i <= Len(<<x>>) THEN <<x>>[i] ELSE a[i - Len(<<x>>)]
  BY <1>1, <1>2, ConcatProperties
<1>5. Len(m) = 1 + Len(a) /\ \A i \in 1..Len(a) : m[i + 1] = a[i]
  BY <1>2, <1>3, <1>4
<1> HIDE DEF m
<1>6. LET h == m \o <<y>>
      IN  /\ h \in Seq(S) /\ Len(h) = Len(m) + Len(<<y>>)
          /\ \A i \in 1..Len(m) + Len(<<y>>) :
                h[i] = IF i <= Len(m) THEN m[i] ELSE <<y>>[i - Len(m)]
  BY <1>2, <1>4, ConcatProperties
<1>7. /\ g \in Seq(S) /\ Len(g) = Len(m) + Len(<<y>>)
      /\ \A i \in 1..Len(m) + Len(<<y>>) :
            g[i] = IF i <= Len(m) THEN m[i] ELSE <<y>>[i - Len(m)]
  BY <1>6, Zenon DEF m
<1>8. Len(g) = Len(a) + 2 /\ \A i \in 1..Len(a) : g[i + 1] = a[i]
  BY <1>2, <1>3, <1>5, <1>7
<1> DEFINE n == Len(a) + 1
           u == SubSeq(g, 2, n)
<1>9. \A i \in 2..n : g[i] \in S
  BY <1>3, <1>7, <1>8, ElementOfSeq
<1>10. /\ u \in Seq(S)
       /\ Len(u) = IF 2 <= n THEN n - 2 + 1 ELSE 0
       /\ \A i \in 1..(n - 2 + 1) : u[i] = g[2 + i - 1]
  BY <1>3, <1>9, SubSeqProperties
<1> HIDE DEF u
<1>11. Len(u) = Len(a) /\ \A i \in 1..Len(a) : u[i] = a[i]
  BY <1>3, <1>8, <1>10
<1>12. u = a BY <1>1, <1>10, <1>11, SeqEqual
<1>13. Len(g) - 1 = n BY <1>3, <1>8
<1>14. QED BY <1>12, <1>13 DEF u

\* Without search domains of its own, the pod looks first in its namespace.
LEMMA FirstSearch ==
    ASSUME NEW ns PROVE Head(Head(dns_config(ns, <<>>))) = ns
<1> DEFINE d == DefaultSearches
           first == Head(d)
<1>1. /\ IsList(d) /\ d # <<>> /\ IsList(first) /\ first # <<>>
      /\ Tail(first) \in Names(d)
  BY SidecarsAssumption
<1> HIDE DEF d, first
<1>2. dns_config(ns, <<>>) = IF Head(first) # ns
                             THEN <<<<ns>> \o first>> \o d ELSE d
  BY <1>1 DEF dns_config, d, first
<1>3. CASE Head(first) = ns
  BY <1>2, <1>3 DEF first
<1>4. CASE Head(first) # ns
  <2> DEFINE x == <<ns>> \o first
             S == Names(first) \cup {ns}
             T == Names(d) \cup {x}
  <2>1. first \in Seq(S) /\ ns \in S BY <1>1, ListIn
  <2>2. d \in Seq(T) /\ x \in T BY <1>1, ListIn
  <2> HIDE DEF S, T
  <2>3. x # <<>> /\ Head(x) = ns BY <2>1
  <2> HIDE DEF x
  <2>4. Head(<<x>> \o d) = x BY <2>2
  <2>5. QED BY <1>2, <1>4, <2>3, <2>4 DEF x
<1>5. QED BY <1>3, <1>4

\* What is requested: a pod with its own containers and no sidecar.
LEMMA NewPodPlain ==
    ASSUME NEW p \in Pods, NEW a
    PROVE  LET o == NewPod(p, a)
           IN  /\ o.annotations = a
               /\ o.containers = SpecOf[OwnerOf[p]].containers
               /\ o.init = SpecOf[OwnerOf[p]].init
               /\ o.volumes = SpecOf[OwnerOf[p]].volumes
               /\ needs_patching(o) /\ ~has_any_sidecars(o)
<1> DEFINE o == NewPod(p, a)
           spec == SpecOf[OwnerOf[p]]
<1>1. /\ o.annotations = a /\ o.containers = spec.containers
      /\ o.init = spec.init /\ o.volumes = spec.volumes
  BY DEF NewPod
<1>2. /\ IsList(spec.containers) /\ spec.containers # <<>>
      /\ Names(spec.containers) \cap Names(Sidecars) = {}
  BY AdmissionAssumption, TemplateAssumption
<1> HIDE DEF o, spec
<1>3. Len(o.containers) > 0 BY <1>1, <1>2 DEF IsList
<1>4. QED BY <1>1, <1>2, <1>3 DEF needs_patching, has_any_sidecars, sidecars, o, spec

\* What PatchSpec writes, and what it leaves alone.
LEMMA PatchedFields ==
    ASSUME NEW p \in Pods, NEW a, DOMAIN a = DOMAIN NoAnnotations,
           NEW env, NEW ns, NEW ip
    PROVE  LET o == NewPod(p, a)
               n == PatchSpec(o, env, ns, ip)
           IN  /\ n.annotations = PatchAnnotations(o, env)
               /\ n.annotations.device = env.device
               /\ n.annotations.podName = env.podName
               /\ n.annotations.searches = a.searches
               /\ n.containers = o.containers \o Sidecars
               /\ n.volumes = o.volumes \o SidecarVolumes
               /\ n.init = PatchInitContainers(o)
               /\ n.searches = dns_config(ns, a.searches)
               /\ n.env[SDP_SERVICE_CONTAINER_NAME].dns = ip
<1> DEFINE o == NewPod(p, a)
           n == PatchSpec(o, env, ns, ip)
<1>1. /\ o.annotations = a
      /\ {"annotations", "containers", "volumes", "init", "searches", "env"}
             \subseteq DOMAIN o
  BY DEF NewPod
<1> HIDE DEF o
<1>2. /\ n.annotations = PatchAnnotations(o, env)
      /\ n.containers = o.containers \o Sidecars
      /\ n.volumes = o.volumes \o SidecarVolumes
      /\ n.init = PatchInitContainers(o)
      /\ n.searches = dns_config(ns, a.searches)
      /\ n.env = [c \in Names(Sidecars) |->
                     variables(env, c, Len(o.containers), ip)]
  BY <1>1 DEF PatchSpec
<1>3. n.env[SDP_SERVICE_CONTAINER_NAME].dns = ip
  <2>1. SDP_SERVICE_CONTAINER_NAME \in Names(Sidecars) BY SidecarsAssumption
  <2>2. n.env[SDP_SERVICE_CONTAINER_NAME] =
           variables(env, SDP_SERVICE_CONTAINER_NAME, Len(o.containers), ip)
    BY <1>2, <2>1, Zenon
  <2>3. QED BY <2>2 DEF variables
<1>4. LET b == PatchAnnotations(o, env)
      IN  /\ b.device = env.device /\ b.podName = env.podName
          /\ b.searches = a.searches
  BY <1>1 DEF PatchAnnotations, NoAnnotations
<1>5. QED BY <1>2, <1>3, <1>4, Zenon DEF o

\* The patch of a candidate, with a known address of the DNS service and a
\* device id, is complete.
LEMMA PatchComplete ==
    ASSUME NEW p \in Pods, NEW a, Template(OwnerOf[p], a), needs_injection(a),
           NEW ip, ip # Absent,
           NEW env, env.podName = NameOf[OwnerOf[p]], env.device # Absent
    PROVE  Complete(p, PatchSpec(NewPod(p, a), env, NamespaceOf[OwnerOf[p]], ip))
<1> DEFINE w == OwnerOf[p]
           spec == SpecOf[w]
           o == NewPod(p, a)
           n == PatchSpec(o, env, NamespaceOf[w], ip)
<1>1. w \in Workloads BY AdmissionAssumption
<1>2. /\ n.annotations = PatchAnnotations(o, env)
      /\ n.annotations.device = env.device
      /\ n.annotations.podName = env.podName
      /\ n.annotations.searches = a.searches
      /\ n.containers = o.containers \o Sidecars
      /\ n.volumes = o.volumes \o SidecarVolumes
      /\ n.init = PatchInitContainers(o)
      /\ n.searches = dns_config(NamespaceOf[w], a.searches)
      /\ n.env[SDP_SERVICE_CONTAINER_NAME].dns = ip
  BY PatchedFields DEF Template
<1>3. /\ o.annotations = a /\ o.containers = spec.containers
      /\ o.init = spec.init /\ o.volumes = spec.volumes
  BY NewPodPlain
<1>4. /\ IsList(spec.containers) /\ IsList(spec.init) /\ IsList(spec.volumes)
      /\ IsList(Sidecars) /\ IsList(SidecarVolumes)
      /\ SDP_SERVICE_CONTAINER_NAME \in Names(Sidecars)
  BY <1>1, TemplateAssumption, SidecarsAssumption
<1> HIDE DEF o, n, spec, w
<1>5. /\ Names(Sidecars) \subseteq Names(n.containers)
      /\ SubSeq(n.containers, 1, Len(spec.containers)) = spec.containers
      /\ Names(SidecarVolumes) \subseteq Names(n.volumes)
  <2>1. n.containers = spec.containers \o Sidecars BY <1>2, <1>3
  <2>2. n.volumes = spec.volumes \o SidecarVolumes BY <1>2, <1>3
  <2>3. /\ Names(Sidecars) \subseteq Names(spec.containers \o Sidecars)
        /\ SubSeq(spec.containers \o Sidecars, 1, Len(spec.containers))
               = spec.containers
    BY <1>4, JoinedNames, Zenon
  <2>4. Names(SidecarVolumes) \subseteq Names(spec.volumes \o SidecarVolumes)
    BY <1>4, JoinedNames, Zenon
  <2>5. QED BY <2>1, <2>2, <2>3, <2>4, Zenon
<1>6. validate(n) /\ ~needs_patching(n)
  <2>1. sidecars(n) = Names(Sidecars) BY <1>5 DEF sidecars
  <2>2. Names(Sidecars) # {} BY <1>4
  <2>3. validate(n) BY <1>5, <2>1 DEF validate
  <2>4. has_any_sidecars(n) BY <2>1, <2>2 DEF has_any_sidecars
  <2>5. QED BY <2>3, <2>4 DEF needs_patching
<1>7. \E i \in 0..1 : SubSeq(n.init, 1 + i, Len(n.init) - i) = spec.init
  <2>1. CASE n.init = spec.init
    <3>1. SubSeq(n.init, 1, Len(n.init)) = spec.init
      BY <1>4, <2>1, SubSeqFull DEF IsList
    <3>2. Len(n.init) \in Nat BY <1>4, <2>1 DEF IsList
    <3>3. 1 + 0 = 1 /\ Len(n.init) - 0 = Len(n.init) BY <3>2
    <3>4. QED BY <3>1, <3>3
  <2>2. CASE n.init = <<"sdp-init-container-0">> \o spec.init
                          \o <<"sdp-init-container-f">>
    <3>1. PICK x, y, z : z = spec.init /\ n.init = <<x>> \o z \o <<y>>
      BY <2>2, Zenon
    <3>2. PICK g : g = <<x>> \o z \o <<y>> OBVIOUS
    <3>3. IsList(z) BY <1>4, <3>1
    <3>4. SubSeq(g, 2, Len(g) - 1) = z
      BY <3>2, <3>3, BetweenParts
    <3>5. n.init = g BY <3>1, <3>2
    <3>6. 1 + 1 = 2 OBVIOUS
    <3>7. QED BY <3>1, <3>4, <3>5, <3>6
  <2>3. QED BY <1>2, <1>3, <2>1, <2>2 DEF PatchInitContainers
<1>8. \/ Head(Head(n.searches)) = NamespaceOf[w]
      \/ n.annotations.searches # <<>>
  BY <1>2, FirstSearch
<1>9. needs_injection(n.annotations)
  <2>1. HasKeys(o.annotations) BY <1>3 DEF HasKeys, Template, NoAnnotations
  <2>2. QED BY <1>2, <1>3, <2>1, AnnotationsKeep
<1>10. PodService(p, n) = ServiceOf(w)
  <2>1. NameOf[w] # <<>> BY <1>1, NamingAssumption
  <2>2. Named(n) = NameOf[w] BY <1>2, <2>1 DEF Named, w
  <2>3. QED BY <2>2 DEF PodService, ServiceOf, w
<1>11. QED
  BY <1>2, <1>5, <1>6, <1>7, <1>8, <1>9, <1>10 DEF Complete, spec, n, o, w

\* A workload with the annotations its pods need.
HasTemplate(w, o) == "template" \in DOMAIN o /\ Template(w, o.template)

\* A pod as its controller asks for it.
Unpatched(p, o) == Template(OwnerOf[p], o.annotations) /\ o = NewPod(p, o.annotations)

\* A pod with all of the patch, or with nothing of it.
AllOrNothing(p, o) == ~has_any_sidecars(o) \/ Complete(p, o)

PodRequest(p) ==
    /\ task[p] \in {"dns", "lock", "asking"} => Unpatched(p, object[p])
    /\ task[p] = "asking" => needs_injection(object[p].annotations)
    /\ task[p] = "answered" => AllOrNothing(p, object[p])

\* The inductive form of PatchedPod and AsksForOwnService: the object of a
\* request is what the controller made, up to its answer.
PatchInv ==
    /\ DOMAIN workload = Workloads /\ DOMAIN object = Requests /\ DOMAIN pod = Pods
    /\ \A w \in Workloads : workload[w] # NoObject => HasTemplate(w, workload[w])
    /\ \A d \in Deployments : task[d] # "none" => HasTemplate(d, object[d])
    /\ \A p \in Pods : PodRequest(p)
    /\ \A p \in Pods : pod[p] # NoObject => AllOrNothing(p, pod[p])

\* Nothing is stored or asked for at first.
LEMMA PatchInit == AdmissionInit => PatchInv
BY AdmissionAssumption DEF AdmissionInit, PatchInv, PodRequest, Requests

\* What a step of the task of r has to show when it stores nothing.
LEMMA PatchFrame ==
    ASSUME PatchInv, NEW r \in Requests, UNCHANGED <<workload, pod>>,
           DOMAIN object' = Requests,
           \A q \in Requests \ {r} : task'[q] = task[q] /\ object'[q] = object[q],
           r \in Deployments /\ task'[r] # "none" => HasTemplate(r, object'[r]),
           r \in Pods => PodRequest(r)'
    PROVE  PatchInv'
<1>1. \A d \in Deployments : task'[d] # "none" => HasTemplate(d, object'[d])
  BY DEF PatchInv, Requests
<1>2. ASSUME NEW p \in Pods PROVE PodRequest(p)'
  <2>1. CASE p = r BY <2>1
  <2>2. CASE p # r
    <3>1. task'[p] = task[p] /\ object'[p] = object[p] BY <2>2 DEF Requests
    <3>2. QED BY <3>1 DEF PatchInv, PodRequest
  <2>3. QED BY <2>1, <2>2
<1>3. \A w \in Workloads : workload'[w] # NoObject => HasTemplate(w, workload'[w])
  BY DEF PatchInv
<1>4. \A p \in Pods : pod'[p] # NoObject => AllOrNothing(p, pod'[p])
  BY DEF PatchInv
<1>5. QED BY <1>1, <1>2, <1>3, <1>4 DEF PatchInv

\* An answer to a pod's request.
LEMMA PatchAnswer ==
    ASSUME CountInv, PatchInv, NEW p \in Pods, NEW kind, NEW o,
           Answer(p, kind, o), AllOrNothing(p, o)
    PROVE  PatchInv'
<1>1. p \in Requests /\ p \notin Deployments BY AdmissionAssumption DEF Requests
<1>2. /\ UNCHANGED <<workload, pod>> /\ DOMAIN object' = Requests
      /\ object'[p] = o /\ task'[p] = "answered"
      /\ \A q \in Requests \ {p} : task'[q] = task[q] /\ object'[q] = object[q]
  BY <1>1 DEF Answer, clusterVars, PatchInv, CountInv
<1>3. PodRequest(p)' BY <1>2 DEF PodRequest
<1>4. QED BY <1>1, <1>2, <1>3, PatchFrame

\* A pod whose attempt fails goes back as it came.
LEMMA PatchFails ==
    ASSUME CountInv, PatchInv, NEW p \in Pods, CountAttempt(p),
           Unpatched(p, object[p])
    PROVE  PatchInv'
<1>1. ~has_any_sidecars(object[p])
  BY NewPodPlain DEF Unpatched
<1>2. PICK kind : Answer(p, kind, object[p]) BY DEF CountAttempt
<1>3. QED BY <1>1, <1>2, PatchAnswer DEF AllOrNothing

\* A candidate that is patched, or fails for want of a DNS service.
LEMMA PatchSucceeds ==
    ASSUME CountInv, PatchInv, NEW p \in Pods, NEW env, PatchWith(p, env),
           Unpatched(p, object[p]), needs_injection(object[p].annotations),
           env.podName = NameOf[OwnerOf[p]], env.device # Absent
    PROVE  PatchInv'
<1>1. CASE ~patch_ok(object[p], found[p])
  <2>1. CountAttempt(p) BY <1>1 DEF PatchWith
  <2>2. QED BY <2>1, PatchFails
<1>2. CASE patch_ok(object[p], found[p])
  <2> DEFINE ns == NamespaceOf[OwnerOf[p]]
             n == patch(object[p], env, ns, found[p])
  <2>1. Succeed(p, n) BY <1>2 DEF PatchWith
  <2>2. PICK a : Template(OwnerOf[p], a) /\ object[p] = NewPod(p, a)
                 /\ needs_injection(a)
    BY DEF Unpatched
  <2>3. needs_patching(object[p]) BY <2>2, NewPodPlain
  <2>4. found[p] # Absent BY <1>2, <2>3 DEF patch_ok
  <2>5. n = PatchSpec(NewPod(p, a), env, ns, found[p])
    BY <2>2, <2>3 DEF patch
  <2>6. Complete(p, n) BY <2>2, <2>4, <2>5, PatchComplete
  <2> HIDE DEF n
  <2>7. Answer(p, "allow", n) BY <2>1 DEF Succeed
  <2>8. QED BY <2>6, <2>7, PatchAnswer DEF AllOrNothing
<1>3. QED BY <1>1, <1>2

\* The answers to a pod's request.
LEMMA PatchPod ==
    ASSUME CountInv, PatchInv, NEW p \in Pods,
           \/ AllowPod(p) \/ PatchFromPod(p)
           \/ DeviceIdAnswered(p) \/ DeviceIdTimeout(p)
    PROVE  PatchInv'
<1>1. task[p] \in {"lock", "asking"} /\ Unpatched(p, object[p])
  BY DEF AllowPod, PatchFromPod, DeviceIdAnswered, DeviceIdTimeout, PatchInv,
     PodRequest
<1>2. Named(object[p]) = NameOf[OwnerOf[p]]
  BY <1>1, NamedByWorkload DEF Unpatched
<1>3. CASE AllowPod(p)
  <2>1. Answer(p, "allow", object[p]) BY <1>3 DEF AllowPod
  <2>2. ~has_any_sidecars(object[p]) BY <1>1, NewPodPlain DEF Unpatched
  <2>3. QED BY <2>1, <2>2, PatchAnswer DEF AllOrNothing
<1>4. CASE PatchFromPod(p)
  <2> DEFINE env == from_pod(object[p], NamespaceOf[OwnerOf[p]], "uuid")
  <2>1. env.podName = NameOf[OwnerOf[p]] /\ env.device # Absent
    BY <1>2 DEF from_pod, Absent
  <2>2. PatchWith(p, env) /\ needs_injection(object[p].annotations)
    BY <1>4 DEF PatchFromPod
  <2> HIDE DEF env
  <2>3. QED BY <1>1, <2>1, <2>2, PatchSucceeds
<1>5. CASE DeviceIdAnswered(p)
  <2> DEFINE env == from_identity_store(object[p], NamespaceOf[OwnerOf[p]],
                                        "assigned")
  <2>1. env.podName = NameOf[OwnerOf[p]] /\ env.device # Absent
    BY <1>2 DEF from_identity_store, Absent
  <2>2. needs_injection(object[p].annotations)
    BY <1>5 DEF DeviceIdAnswered, PatchInv, PodRequest
  <2>3. PatchWith(p, env) \/ CountAttempt(p) BY <1>5 DEF DeviceIdAnswered
  <2> HIDE DEF env
  <2>4. QED BY <1>1, <2>1, <2>2, <2>3, PatchSucceeds, PatchFails
<1>6. CASE DeviceIdTimeout(p)
  BY <1>1, <1>6, PatchFails DEF DeviceIdTimeout
<1>7. QED BY <1>3, <1>4, <1>5, <1>6

\* The answer to a Deployment's request.
LEMMA PatchOfDeployment ==
    ASSUME CountInv, PatchInv, NEW d \in Deployments, PatchDeployment(d)
    PROVE  PatchInv'
<1>1. d \in Requests /\ d \notin Pods BY AdmissionAssumption DEF Requests
<1>2. PICK kind, o : /\ Answer(d, kind, o)
                     /\ \/ o = object[d]
                        \/ o = patch_deployment(object[d], nsAnn[NamespaceOf[d]])
  BY DEF PatchDeployment
<1>3. HasTemplate(d, object[d]) BY DEF PatchDeployment, PatchInv
<1>4. HasTemplate(d, o)
  <2>1. ASSUME NEW ns PROVE HasTemplate(d, patch_deployment(object[d], ns))
    BY <1>3 DEF HasTemplate, Template, patch_deployment, NoAnnotations
  <2>2. QED BY <1>2, <1>3, <2>1
<1>5. /\ UNCHANGED <<workload, pod>> /\ DOMAIN object' = Requests
      /\ object'[d] = o
      /\ \A q \in Requests \ {d} : task'[q] = task[q] /\ object'[q] = object[q]
  BY <1>1, <1>2 DEF Answer, clusterVars, PatchInv, CountInv
<1>6. QED BY <1>1, <1>4, <1>5, PatchFrame

\* Requests of users and controllers.
LEMMA PatchRequests ==
    ASSUME CountInv, PatchInv
    PROVE  /\ \A d \in Deployments : CreateDeployment(d) => PatchInv'
           /\ \A p \in Pods : CreatePod(p) => PatchInv'
<1>r. ASSUME NEW r \in Requests, NEW o, Request(r, o)
      PROVE  /\ UNCHANGED <<workload, pod>> /\ DOMAIN object' = Requests
             /\ object'[r] = o /\ task'[r] = "dns"
             /\ \A q \in Requests \ {r} : task'[q] = task[q] /\ object'[q] = object[q]
  BY <1>r DEF Request, clusterVars, PatchInv, CountInv
<1>1. ASSUME NEW d \in Deployments, CreateDeployment(d) PROVE PatchInv'
  <2>1. PICK a \in OwnAnnotations, t \in TemplateAnnotations[d] :
            Request(d, [meta |-> a, template |-> t])
    BY <1>1 DEF CreateDeployment
  <2>2. d \in Requests /\ d \notin Pods BY AdmissionAssumption DEF Requests
  <2>3. HasTemplate(d, [meta |-> a, template |-> t])
    <3>1. Template(d, t)
      BY AdmissionAssumption, NamingAssumption DEF Template
    <3>2. QED BY <3>1 DEF HasTemplate
  <2>4. PICK o : Request(d, o) /\ HasTemplate(d, o) BY <2>1, <2>3
  <2>5. QED BY <1>r, <2>2, <2>4, PatchFrame
<1>2. ASSUME NEW p \in Pods, CreatePod(p) PROVE PatchInv'
  <2> DEFINE a == workload[OwnerOf[p]].template
             o == NewPod(p, a)
  <2>1. Request(p, o) /\ Template(OwnerOf[p], a)
    BY <1>2, AdmissionAssumption DEF CreatePod, PatchInv, HasTemplate
  <2>2. p \in Requests /\ p \notin Deployments BY AdmissionAssumption DEF Requests
  <2>3. Unpatched(p, o) BY <2>1, NewPodPlain DEF Unpatched
  <2> HIDE DEF o
  <2>4. PodRequest(p)' BY <1>r, <2>1, <2>2, <2>3 DEF PodRequest
  <2>5. QED BY <1>r, <2>1, <2>2, <2>4, PatchFrame
<1>3. QED BY <1>1, <1>2

\* A request moves on to the lock or to the DeviceIdProvider, or is dropped.
LEMMA PatchWaits ==
    ASSUME CountInv, PatchInv, NEW r \in Requests,
           dns_service_discover(r) \/ DropRequest(r) \/ (r \in Pods /\ AskDeviceId(r))
    PROVE  PatchInv'
<1>1. CASE dns_service_discover(r)
  <2>1. /\ UNCHANGED <<workload, pod, object>>
        /\ task[r] = "dns" /\ task'[r] = "lock"
        /\ \A q \in Requests \ {r} : task'[q] = task[q]
    BY <1>1 DEF dns_service_discover, clusterVars, CountInv
  <2>2. r \in Pods => PodRequest(r)' BY <2>1 DEF PatchInv, PodRequest
  <2>3. QED BY <2>1, <2>2, PatchFrame DEF PatchInv
<1>2. CASE DropRequest(r)
  <2>1. /\ UNCHANGED <<workload, pod>> /\ DOMAIN object' = Requests
        /\ task'[r] = "none"
        /\ \A q \in Requests \ {r} : task'[q] = task[q] /\ object'[q] = object[q]
    BY <1>2 DEF DropRequest, End, clusterVars, PatchInv, CountInv
  <2>2. PodRequest(r)' BY <2>1 DEF PodRequest
  <2>3. QED BY <2>1, <2>2, PatchFrame
<1>3. CASE r \in Pods /\ AskDeviceId(r)
  <2>1. /\ UNCHANGED <<workload, pod, object>>
        /\ task[r] = "lock" /\ task'[r] = "asking"
        /\ \A q \in Requests \ {r} : task'[q] = task[q]
        /\ needs_injection(object[r].annotations)
    BY <1>3 DEF AskDeviceId, clusterVars, CountInv
  <2>2. PodRequest(r)' BY <1>3, <2>1 DEF PatchInv, PodRequest
  <2>3. r \notin Deployments BY <1>3, AdmissionAssumption
  <2>4. QED BY <2>1, <2>2, <2>3, PatchFrame DEF PatchInv
<1>4. QED BY <1>1, <1>2, <1>3

\* Kubernetes stores an answer.
LEMMA PatchStored ==
    ASSUME CountInv, PatchInv, NEW r \in Requests, Deliver(r)
    PROVE  PatchInv'
<1>1. /\ DOMAIN object' = Requests
      /\ task[r] = "answered" /\ task'[r] = "none"
      /\ \A q \in Requests \ {r} : task'[q] = task[q] /\ object'[q] = object[q]
  BY DEF Deliver, End, PatchInv, CountInv
<1>2. /\ DOMAIN workload' = Workloads /\ DOMAIN pod' = Pods
      /\ \A w \in Workloads : \/ workload'[w] = workload[w]
                              \/ w = r /\ r \in Deployments /\ workload'[w] = object[r]
      /\ \A p \in Pods : \/ pod'[p] = pod[p]
                         \/ p = r /\ pod'[p] = object[r]
  BY DEF Deliver, PatchInv
<1>3. \A w \in Workloads : workload'[w] # NoObject => HasTemplate(w, workload'[w])
  BY <1>1, <1>2 DEF PatchInv
<1>4. \A p \in Pods : pod'[p] # NoObject => AllOrNothing(p, pod'[p])
  BY <1>1, <1>2 DEF PatchInv, PodRequest
<1>5. \A d \in Deployments : task'[d] # "none" => HasTemplate(d, object'[d])
  BY <1>1 DEF PatchInv, Requests
<1>6. ASSUME NEW p \in Pods PROVE PodRequest(p)'
  <2>1. CASE p = r BY <1>1, <2>1 DEF PodRequest
  <2>2. CASE p # r
    <3>1. task'[p] = task[p] /\ object'[p] = object[p]
      BY <1>1, <2>2 DEF Requests
    <3>2. QED BY <3>1 DEF PatchInv, PodRequest
  <2>3. QED BY <2>1, <2>2
<1>7. QED BY <1>1, <1>2, <1>3, <1>4, <1>5, <1>6 DEF PatchInv

\* What users do to workloads that exist, and create beside Deployments.
LEMMA PatchCluster ==
    ASSUME PatchInv,
           \/ \E d \in Deployments : Annotate(d)
           \/ \E w \in Workloads \ Deployments : CreateOther(w)
    PROVE  PatchInv'
<1>1. UNCHANGED <<task, object, pod>>
  BY DEF Annotate, CreateOther, taskVars
<1>2. /\ DOMAIN workload' = Workloads
      /\ \A w \in Workloads : workload'[w] # NoObject => HasTemplate(w, workload'[w])
  <2>1. ASSUME NEW d \in Deployments, Annotate(d)
        PROVE  /\ DOMAIN workload' = Workloads
               /\ \A w \in Workloads :
                     workload'[w] # NoObject => HasTemplate(w, workload'[w])
    <3>1. /\ DOMAIN workload' = Workloads /\ workload[d] # NoObject
          /\ \A w \in Workloads \ {d} : workload'[w] = workload[w]
      BY <2>1 DEF Annotate, PatchInv
    <3>2. d \in Workloads BY AdmissionAssumption
    <3>3. HasTemplate(d, workload[d]) BY <3>1, <3>2 DEF PatchInv
    <3>4. HasTemplate(d, workload'[d])
      <4>1. PICK v : workload' = [workload EXCEPT ![d] = [@ EXCEPT !.meta = v]]
        BY <2>1 DEF Annotate
      <4>2. workload'[d] = [workload[d] EXCEPT !.meta = v]
        BY <3>2, <4>1 DEF PatchInv
      <4>3. QED BY <3>3, <4>2 DEF HasTemplate
    <3>5. QED BY <3>1, <3>4 DEF PatchInv
  <2>2. ASSUME NEW v \in Workloads \ Deployments, CreateOther(v)
        PROVE  /\ DOMAIN workload' = Workloads
               /\ \A w \in Workloads :
                     workload'[w] # NoObject => HasTemplate(w, workload'[w])
    <3>1. PICK a \in TemplateAnnotations[v] :
              workload' = [workload EXCEPT
                              ![v] = [meta |-> NoAnnotations, template |-> a]]
      BY <2>2 DEF CreateOther
    <3>2. Template(v, a)
      BY AdmissionAssumption, NamingAssumption DEF Template
    <3>3. HasTemplate(v, [meta |-> NoAnnotations, template |-> a])
      BY <3>2 DEF HasTemplate
    <3>4. QED BY <3>1, <3>3 DEF PatchInv
  <2>3. QED BY <2>1, <2>2
<1>3. \A p \in Pods : PodRequest(p)' BY <1>1 DEF PatchInv, PodRequest
<1>4. QED BY <1>1, <1>2, <1>3 DEF PatchInv

\* Every step keeps the invariant.
LEMMA PatchStep ==
    ASSUME CountInv, PatchInv, [AdmissionNext]_admissionVars
    PROVE  PatchInv'
<1>u. ASSUME UNCHANGED <<task, object, workload, pod>> PROVE PatchInv'
  <2>1. \A p \in Pods : PodRequest(p)' BY <1>u DEF PatchInv, PodRequest
  <2>2. QED BY <1>u, <2>1 DEF PatchInv
<1>1. ASSUME NEW r \in Requests, TaskStep(r) \/ DropRequest(r) PROVE PatchInv'
  BY <1>1, PatchWaits, PatchOfDeployment, PatchPod, PatchStored DEF TaskStep
<1>2. ASSUME ClusterStep PROVE PatchInv'
  <2>1. CASE \/ \E n \in Namespaces : AnnotateNamespace(n)
             \/ \E s \in Services : IdentityChanges(s)
             \/ DnsServiceChanges
    BY <1>u, <2>1 DEF AnnotateNamespace, IdentityChanges, DnsServiceChanges, taskVars
  <2>2. QED BY <1>2, <2>1, PatchRequests, PatchCluster DEF ClusterStep
<1>3. CASE UNCHANGED admissionVars
  BY <1>3, <1>u DEF admissionVars, taskVars, clusterVars
<1>4. QED BY <1>1, <1>2, <1>3, PatchRequests DEF AdmissionNext

\* Both invariants hold.
LEMMA PatchInvariant == AdmissionSpec => [](CountInv /\ PatchInv)
<1>1. CountInv /\ PatchInv /\ [AdmissionNext]_admissionVars => CountInv' /\ PatchInv'
  BY CountStep, PatchStep
<1>2. QED BY <1>1, CountInit, PatchInit, PTL DEF AdmissionSpec

\* Every stored pod with a sidecar is complete, for any templates, any number
\* of pods and workloads, and whatever is dropped, times out or changes while
\* the request waits.
THEOREM PatchedPodAlways == AdmissionSpec => []PatchedPod
<1>1. PatchInv => PatchedPod
  BY DEF PatchInv, PatchedPod, AllOrNothing, Injected, Stored
<1>2. QED BY <1>1, PatchInvariant, PTL

\* A device id is asked for under the service of the pod's own workload, and of
\* no other one, for any names without "_" that tell workloads apart.
THEOREM AsksForOwnServiceAlways == AdmissionSpec => []AsksForOwnService
<1>1. PatchInv => AsksForOwnService
  <2> SUFFICES ASSUME PatchInv, NEW p \in Pods, task[p] = "asking",
                      NEW w \in Workloads
               PROVE  PodService(p, object[p]) = ServiceOf(w) <=> w = OwnerOf[p]
    BY DEF AsksForOwnService
  <2>1. Named(object[p]) = NameOf[OwnerOf[p]]
    BY NamedByWorkload DEF PatchInv, PodRequest, Unpatched
  <2>2. PodService(p, object[p]) = ServiceOf(OwnerOf[p])
    BY <2>1 DEF PodService, ServiceOf
  <2>3. OwnerOf[p] \in Workloads BY AdmissionAssumption
  <2>4. QED BY <2>2, <2>3, ServiceTellsWorkload
<1>2. QED BY <1>1, PatchInvariant, PTL
=============================================================================
