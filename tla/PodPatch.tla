------------------------------ MODULE PodPatch ------------------------------
(***************************************************************************)
(* The patch that turns an admitted pod into one with the SDP client, and  *)
(* its validation.  A pod is a record of what the patch reads and writes:  *)
(* annotations, name and generateName, the names of its containers, init   *)
(* containers and volumes, its search domains, sysctls, and the variables  *)
(* of the injected containers.  A domain is the sequence of its labels, a  *)
(* label is a name.                                                        *)
(***************************************************************************)
EXTENDS InjectionStrategy

CONSTANTS
    Sidecars,         \* names of the containers in sdp-sidecars.json
    SidecarVolumes,   \* names of its volumes
    DefaultSearches,  \* its dnsConfig.searches
    ServerVersion     \* minor version of the Kubernetes API server

\* The container that runs the SDP client.
SDP_SERVICE_CONTAINER_NAME == "sdp-service"

K8S_VERSION_FOR_SAFE_SYSCTL == 22

Names(s) == {s[i] : i \in DOMAIN s}

IsList(s) == s \in Seq(Names(s))

\* The file the chart installs (configmap-sidecar.yaml): the SDP client is one
\* of the sidecars, and the parent of the first search domain is listed, too.
ASSUME SidecarsAssumption ==
    /\ IsList(Sidecars) /\ IsList(SidecarVolumes)
    /\ SDP_SERVICE_CONTAINER_NAME \in Names(Sidecars)
    /\ IsList(DefaultSearches) /\ DefaultSearches # <<>>
    /\ IsList(Head(DefaultSearches)) /\ Head(DefaultSearches) # <<>>
    /\ Tail(Head(DefaultSearches)) \in Names(DefaultSearches)

-----------------------------------------------------------------------------
\* The containers of the pod that are sidecars.
sidecars(pod) == Names(pod.containers) \cap Names(Sidecars)

has_any_sidecars(pod) == sidecars(pod) # {}

needs_patching(pod) == Len(pod.containers) > 0 /\ ~has_any_sidecars(pod)

-----------------------------------------------------------------------------
(***************************************************************************)
(* ServiceEnvironment: what the containers are told about the service.     *)
(***************************************************************************)
\* With the annotation client-secrets, nothing is asked from the provider.
\* The profile url is read from the field of the password.
from_pod(pod, ns, uuid) ==
    [podName |-> Named(pod),
     serviceId |-> service_id(ns, Named(pod)),
     serviceName |-> service_name(ns, Named(pod)),
     secret |-> pod.annotations.secrets, urlKey |-> "password",
     device |-> IF pod.annotations.device = Absent THEN uuid
                                                   ELSE pod.annotations.device]

\* The device id comes with the identity of the service, whose Secret it is.
from_identity_store(pod, ns, device) ==
    [podName |-> Named(pod),
     serviceId |-> service_id(ns, Named(pod)),
     serviceName |-> service_name(ns, Named(pod)),
     secret |-> "identity", urlKey |-> "url", device |-> device]

\* The environment variables of one container.
variables(env, container, nContainers, dns) ==
    [nContainers |-> nContainers, service |-> env.serviceId, dns |-> dns,
     device |-> IF container = SDP_SERVICE_CONTAINER_NAME THEN env.device
                                                          ELSE Absent,
     secret |-> IF container = SDP_SERVICE_CONTAINER_NAME
                THEN <<env.secret, env.urlKey>> ELSE <<>>]

-----------------------------------------------------------------------------
\* Faulty: the search list is used as it is.
dns_config_Plain(ns, custom) ==
    IF custom # <<>> THEN custom ELSE DefaultSearches

\* The parent of the first domain is added behind it, unless it is there; then
\* the first domain is looked up below the namespace before anything else.
dns_config(ns, custom) ==
    LET searches == IF custom # <<>> THEN custom ELSE DefaultSearches
        first == Head(searches)
        rest == Tail(first)
    IN  IF rest \notin Names(searches)
        THEN <<first, rest>> \o Tail(searches)
        ELSE IF Head(first) # ns
             THEN <<<<ns>> \o first>> \o searches
             ELSE searches

\* What the Pod watcher and a second call of the webhook will read.
PatchAnnotations(pod, env) ==
    [pod.annotations EXCEPT
        !.strategy = injection_strategy(pod.annotations),
        !.enabled = IF @ # Absent THEN @ ELSE
            ToString(injection_strategy(pod.annotations) = "enabledByDefault"),
        !.device = env.device,
        !.podName = env.podName]

\* Extra init containers at the head and at the tail, if the pod has some.
PatchInitContainers(pod) ==
    IF pod.init = <<>> \/ pod.annotations.disableInit \in {"true", "True"}
    THEN pod.init
    ELSE <<"sdp-init-container-0">> \o pod.init \o <<"sdp-init-container-f">>

PatchSysctls(pod) ==
    IF ServerVersion >= K8S_VERSION_FOR_SAFE_SYSCTL
    THEN <<"net.ipv4.ip_unprivileged_port_start">> \o pod.sysctls
    ELSE pod.sysctls

\* The patched pod; the address of the DNS service must be known.
PatchSpec(pod, env, ns, dns) ==
    [pod EXCEPT
        !.annotations = PatchAnnotations(pod, env),
        !.containers = @ \o Sidecars,
        !.env = [c \in Names(Sidecars) |->
                    variables(env, c, Len(pod.containers), dns)],
        !.image = IF pod.annotations.version # Absent
                  THEN pod.annotations.version ELSE "default",
        !.init = PatchInitContainers(pod),
        !.volumes = @ \o SidecarVolumes,
        !.searches = dns_config(ns, pod.annotations.searches),
        !.dnsPolicy = "None",
        !.sysctls = PatchSysctls(pod)]

\* SDPPod::patch succeeds; a pod that needs no patching is left alone.
patch_ok(pod, dns) == needs_patching(pod) => dns # Absent

patch(pod, env, ns, dns) ==
    IF needs_patching(pod) THEN PatchSpec(pod, env, ns, dns) ELSE pod

-----------------------------------------------------------------------------
\* SDPPod::validate: every sidecar and every volume is there.
validate(pod) ==
    /\ Names(Sidecars) \subseteq sidecars(pod)
    /\ Names(SidecarVolumes) \subseteq Names(pod.volumes)
=============================================================================
