--------------------------- MODULE UserLifecycle ----------------------------
(***************************************************************************)
(* What the Identity Service promises about service users, without its     *)
(* tasks and messages: a user is created disabled and free, one service    *)
(* takes it, it is enabled for that service only, and once taken it is     *)
(* neither free again nor given to another service.  IdentityService       *)
(* implements this as long as its process is not restarted by force.  One  *)
(* step of the service may move several users.                             *)
(***************************************************************************)
CONSTANTS Services, Users

VARIABLES
    running,  \* the start-up of the creator is over
    life,     \* fresh, disabled, enabled or deleted, in the controller
    free,     \* users that can be given to a service
    holders   \* the services that have, or will have, each user

lifecycleVars == <<running, life, free, holders>>

LifecycleInit ==
    /\ running = FALSE
    /\ life = [u \in Users |-> "fresh"]
    /\ free = {}
    /\ holders = [u \in Users |-> {}]

Stays(u) ==
    /\ life'[u] = life[u]
    /\ holders'[u] = holders[u]
    /\ u \in free' <=> u \in free

\* The user is free, unless its password could not be saved.
Created(u) ==
    /\ life[u] = "fresh" /\ life'[u] = "disabled"
    /\ holders[u] = {} /\ holders'[u] = {}

\* The creation of a user failed during the start-up, which begins anew.
Forgotten(u) ==
    /\ ~running
    /\ u \in free /\ u \notin free'
    /\ life'[u] = life[u]
    /\ holders[u] = {} /\ holders'[u] = {}

\* A user of the start-up that failed is found.
Recovered(u) ==
    /\ ~running
    /\ u \notin free /\ u \in free'
    /\ life[u] = "disabled" /\ life'[u] = "disabled"
    /\ holders[u] = {} /\ holders'[u] = {}

\* A service takes a free user.
Taken(u) ==
    /\ running
    /\ u \in free /\ u \notin free'
    /\ life[u] = "disabled" /\ life'[u] = "disabled"
    /\ holders[u] = {} /\ \E s \in Services : holders'[u] = {s}

\* The user is enabled for the service that has it.
Enabled(u) ==
    /\ life[u] = "disabled" /\ life'[u] = "enabled"
    /\ u \notin free /\ u \notin free'
    /\ \E s \in Services : holders[u] = {s} /\ holders'[u] = {s}

\* The service has the user no more.
Dropped(u) ==
    /\ life'[u] = life[u]
    /\ u \notin free /\ u \notin free'
    /\ holders[u] # {} /\ holders'[u] = {}

\* A user is deleted when it is not free.
Deleted(u) ==
    /\ life[u] \in {"disabled", "enabled"} /\ life'[u] = "deleted"
    /\ u \notin free /\ u \notin free'
    /\ holders'[u] \in {holders[u], {}}

Moves(u) ==
    \/ Stays(u) \/ Created(u) \/ Forgotten(u) \/ Recovered(u)
    \/ Taken(u) \/ Enabled(u) \/ Dropped(u) \/ Deleted(u)

LifecycleNext ==
    /\ running => running'
    /\ \A u \in Users : Moves(u)

LifecycleSpec == LifecycleInit /\ [][LifecycleNext]_lifecycleVars
=============================================================================
