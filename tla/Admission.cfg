SPECIFICATION AdmissionFairSpec
CONSTANTS
    d1 = d1
    s1 = s1
    p1 = p1
    p2 = p2
    p3 = p3
    Deployments = {d1}
    Workloads = {d1, s1}
    Pods = {p1, p2, p3}
    OwnerOf <- MCOwnerOf
    NamespaceOf <- MCNamespaceOf
    NameOf <- MCNameOf
    SpecOf <- MCSpecOf
    NsAnnotations <- MCNsAnnotations
    OwnAnnotations <- MCOwnAnnotations
    TemplateAnnotations <- MCTemplates
    Addresses = {"absent", "ip1"}
    Sidecars <- MCSidecars
    SidecarVolumes <- MCVolumes
    DefaultSearches <- MCSearches
    ServerVersion = 22
    MAX_PATCH_ATTEMPTS = 1
    MaxFaults = 1
    MaxChanges = 1
INVARIANT AdmissionTypeOK
INVARIANT SameDecision
INVARIANT AsksForOwnService
INVARIANT PatchedPod
PROPERTY UnpatchedAfterFailures
PROPERTY PodDecided
\* The cluster may be at rest.
CHECK_DEADLOCK FALSE
