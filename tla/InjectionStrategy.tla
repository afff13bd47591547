------------------------- MODULE InjectionStrategy --------------------------
(***************************************************************************)
(* How annotations decide whether a resource is injected, what the webhook *)
(* writes into a new Deployment, and how resources are named.              *)
(*                                                                         *)
(* The annotations of a namespace, a Deployment, a pod template or a pod   *)
(* are a record; a field is Absent (<<>> for names and search lists) when  *)
(* the annotation is not set, and has the values the code tells apart.     *)
(***************************************************************************)
EXTENDS Integers, Sequences

Absent == "absent"

StrategyValues == {Absent, "enabledByDefault", "disabledByDefault", "other"}

\* "True" is any spelling of true that is not in lower case.
EnabledValues ==
    {Absent, "true", "True", "1", "false", "0", "disabled", "other"}

\* No annotations at all, or no namespace object.
NoAnnotations ==
    [strategy |-> Absent, enabled |-> Absent, disableInit |-> Absent,
     version |-> Absent, secrets |-> Absent, device |-> Absent,
     podName |-> <<>>, searches |-> <<>>]

\* Values of strategy other than the two names fall back to `enabled`.
injection_strategy(a) ==
    IF a.strategy \in {"enabledByDefault", "disabledByDefault"}
    THEN a.strategy
    ELSE IF a.enabled = "disabled" THEN "disabledByDefault"
                                   ELSE "enabledByDefault"

is_injection_disabled(a) == a.enabled \in {"false", "0"}
is_injection_enabled(a) == a.enabled \in {"true", "True", "1"}

needs_injection(a) ==
    IF injection_strategy(a) = "enabledByDefault"
    THEN ~is_injection_disabled(a)
    ELSE is_injection_enabled(a)

-----------------------------------------------------------------------------
(***************************************************************************)
(* The patch of a Deployment: [meta, template] are its own annotations and *)
(* those of its pod template, ns those of its namespace.                   *)
(***************************************************************************)
ToString(b) == IF b THEN "true" ELSE "false"

\* The annotation of the Deployment, or else of the namespace.
Inherited(meta, ns, key) == IF meta[key] # Absent THEN meta[key] ELSE ns[key]

injection_enabled(meta, ns) ==
    LET v == Inherited(meta, ns, "enabled")
    IN  IF v = Absent THEN injection_strategy(ns) = "enabledByDefault"
                      ELSE v = "true"

disable_init_containers(meta, ns) ==
    Inherited(meta, ns, "disableInit") \in {"true", "True"}

\* Faulty: the decision is not written to the template.
patch_deployment_MetaOnly(d, ns) ==
    [d EXCEPT !.meta.strategy = injection_strategy(ns),
              !.meta.enabled = ToString(injection_enabled(d.meta, ns))]

\* Strategy and decision go to the Deployment and to its template, the rest to
\* the template only.
patch_deployment(d, ns) ==
    LET strategy == injection_strategy(ns)
        enabled == ToString(injection_enabled(d.meta, ns))
        version == Inherited(d.meta, ns, "version")
    IN  [meta |-> [d.meta EXCEPT !.strategy = strategy, !.enabled = enabled],
         template |->
            [d.template EXCEPT
                !.strategy = strategy,
                !.enabled = enabled,
                !.disableInit = ToString(disable_init_containers(d.meta, ns)),
                !.version = IF version = Absent THEN @ ELSE version]]

-----------------------------------------------------------------------------
(***************************************************************************)
(* Names.  A name is the sequence of its parts between dashes, so that     *)
(* joining two names with "-" is concatenation; "_" is in no name.         *)
(***************************************************************************)
\* A new uuid: the name of no workload.
FreshName == <<"uuid">>

\* The pod-name annotation, or the generated name without the hash of the
\* ReplicaSet and the empty part behind the last dash, or the pod's own name.
Named(pod) ==
    LET g == pod.generateName
    IN  IF pod.annotations.podName # <<>> THEN pod.annotations.podName
        ELSE IF g = <<>> THEN pod.name
        ELSE IF Len(g) > 2 THEN SubSeq(g, 1, Len(g) - 2)
        ELSE FreshName

service_name(ns, name) == ns \o name

\* Faulty: the separator is one that names contain.
service_id_Dashed(ns, name) == ns \o name

service_id(ns, name) == ns \o <<"_">> \o name
=============================================================================
