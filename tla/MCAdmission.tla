---------------------------- MODULE MCAdmission -----------------------------
(* Instances of Admission for TLC: a Deployment with two pods and a workload *)
(* of another kind, whose namespaces and names join to the same string.      *)
EXTENDS Admission

CONSTANTS d1, s1, p1, p2, p3

MCNamespaceOf == [w \in Workloads |-> IF w = d1 THEN <<"a", "b">> ELSE <<"a">>]
MCNameOf == [w \in Workloads |-> IF w = d1 THEN <<"c">> ELSE <<"b", "c">>]
MCOwnerOf == [p \in Pods |-> IF p = p3 THEN s1 ELSE d1]

MCSidecars == <<"sdp-service", "sdp-dnsmasq">>
MCVolumes == <<"run-sdp">>
MCSearches == <<<<<<"svc">>, <<"local">>>>, <<<<"local">>>>>>

\* A template with init containers, one without.
MCSpecOf == [w \in Workloads |->
    [containers |-> <<"app", "log">>, volumes |-> <<>>, sysctls |-> <<>>,
     init |-> IF w = d1 THEN <<"init">> ELSE <<>>]]

Strategy(v) == [NoAnnotations EXCEPT !.strategy = v]
Enabled(v) == [NoAnnotations EXCEPT !.enabled = v]

MCNsAnnotations == {Strategy("disabledByDefault"), Enabled("disabled")}
MCOwnAnnotations == {NoAnnotations, Enabled("true"), Enabled("false")}

\* README: the annotation pod-name names the SDPService of a workload that is
\* no Deployment.  A template of the Deployment may bring its credentials and
\* search domains, and a decision of its own, which the webhook overwrites.
MCTemplates == [w \in Workloads |->
    IF w \in Deployments
    THEN {NoAnnotations,
          [NoAnnotations EXCEPT !.strategy = "disabledByDefault",
                                !.enabled = "false",
                                !.disableInit = "true",
                                !.secrets = "given",
                                !.searches = <<<<<<"corp">>, <<"net">>>>>>]}
    ELSE {[NoAnnotations EXCEPT !.podName = <<"b", "c">>]}]
=============================================================================
