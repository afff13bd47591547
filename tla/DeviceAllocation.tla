-------------------------- MODULE DeviceAllocation --------------------------
(***************************************************************************)
(* What the device ids of a service promise, without the messages between  *)
(* the two processes: an id is given to one pod at a time, and comes back  *)
(* to the pool only when no pod has it.  DeviceIds implements this as long *)
(* as the injector is not restarted and the ServiceIdentity not deleted.   *)
(***************************************************************************)
CONSTANTS
    Pods,
    Devices,
    NoDevice

VARIABLES
    holder,  \* the device id each pod may use, or NoDevice
    pool,    \* ids that can be given to a pod again
    used     \* ids that were given out at some time

allocationVars == <<holder, pool, used>>

Held == {holder[p] : p \in Pods} \ {NoDevice}

AllocationInit ==
    /\ holder = [p \in Pods |-> NoDevice]
    /\ pool = {}
    /\ used = {}

\* An id of the pool or, when that is empty, one nobody ever had.
Take(d) ==
    /\ d \in pool \/ (pool = {} /\ d \notin used)
    /\ pool' = pool \ {d}
    /\ used' = used \cup {d}

Acquire(p, d) ==
    /\ holder[p] = NoDevice
    /\ Take(d)
    /\ holder' = [holder EXCEPT ![p] = d]

\* The id is taken for a request that nobody waits for any more.
Discard(d) ==
    /\ Take(d)
    /\ UNCHANGED holder

\* The pod ends, or is refused.
Cease(p) ==
    /\ holder[p] # NoDevice
    /\ holder' = [holder EXCEPT ![p] = NoDevice]
    /\ UNCHANGED <<pool, used>>

\* Ids that no pod has come back, some time after their pods have ended.
Return(ids) ==
    /\ ids \subseteq used \ (pool \cup Held)
    /\ pool' = pool \cup ids
    /\ UNCHANGED <<holder, used>>

AllocationNext ==
    \/ \E p \in Pods : Cease(p) \/ (\E d \in Devices : Acquire(p, d))
    \/ \E d \in Devices : Discard(d)
    \/ \E ids \in SUBSET Devices : Return(ids)

AllocationSpec == AllocationInit /\ [][AllocationNext]_allocationVars
=============================================================================
