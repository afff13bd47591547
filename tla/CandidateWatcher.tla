-------------------------- MODULE CandidateWatcher --------------------------
(***************************************************************************)
(* The watchers of Deployments and SDPServices.  `watch` lists the         *)
(* objects, reports each candidate as FoundServiceCandidate, notifies      *)
(* DeploymentWatcherReady, waits for the broadcast and only then opens the *)
(* event stream, whose initial replay (Init, InitApply, InitDone) it       *)
(* ignores: what happens to an object between the list and the opening of  *)
(* the stream is never reported.                                           *)
(*                                                                         *)
(* An object is a candidate while its namespace carries the label          *)
(* sdp-injection=enabled; the label is read when the object is handled.    *)
(* (Objects that opt out with their own annotation are left out of         *)
(* Objects: they are never reported.)                                      *)
(***************************************************************************)
EXTENDS IdentityProtocol

\* What no step of a candidate watcher changes.
WatcherFrame ==
    UNCHANGED <<apiVars, objs, labelled, released, icq, managerVars, creatorVars,
                envVars>>

\* The label is looked up for each object; a failed lookup counts as no label.
InLabelledNamespace(s) == s \in labelled /\ CallSucceeds

NotInLabelledNamespace(s) ==
    \/ s \notin labelled /\ CallSucceeds
    \/ CallFails

WatcherList(w) ==
    /\ wphase[w] = "list"
    /\ listed' = [listed EXCEPT ![w] = {s \in Services : <<w, s>> \in objs}]
    /\ wphase' = [wphase EXCEPT ![w] = "found"]
    /\ WatcherFrame
    /\ UNCHANGED <<events, applied, imq, failures>>

\* Every listed object counts as applied, also one that is not a candidate.
WatcherInitialized(w, s) ==
    /\ wphase[w] = "found"
    /\ s \in listed[w]
    /\ \/ /\ InLabelledNamespace(s)
          /\ SendToManager(FoundServiceCandidate(s))
       \/ /\ NotInLabelledNamespace(s)
          /\ UNCHANGED imq
    /\ listed' = [listed EXCEPT ![w] = @ \ {s}]
    /\ applied' = [applied EXCEPT ![w] = @ \cup {s}]
    /\ WatcherFrame
    /\ UNCHANGED <<events, wphase>>

\* Faulty: the notification does not wait for the reports.
WatcherNotify_Early(w) ==
    /\ wphase[w] = "found"
    /\ SendToManager(DeploymentWatcherReady(w))
    /\ wphase' = [wphase EXCEPT ![w] = "wait"]
    /\ WatcherFrame
    /\ UNCHANGED <<events, listed, applied, failures>>

WatcherNotify(w) ==
    /\ wphase[w] = "found"
    /\ listed[w] = {}
    /\ SendToManager(DeploymentWatcherReady(w))
    /\ wphase' = [wphase EXCEPT ![w] = "wait"]
    /\ WatcherFrame
    /\ UNCHANGED <<events, listed, applied, failures>>

WatcherStart(w) ==
    /\ wphase[w] = "wait"
    /\ released
    /\ wphase' = [wphase EXCEPT ![w] = "run"]
    /\ WatcherFrame
    /\ UNCHANGED <<events, listed, applied, imq, failures>>

\* Consume the event at the head of the stream.
WatcherEvent(w, op, s) ==
    /\ wphase[w] = "run"
    /\ events[w] # <<>>
    /\ Head(events[w]) = [op |-> op, s |-> s]
    /\ events' = [events EXCEPT ![w] = Tail(@)]
    /\ WatcherFrame
    /\ UNCHANGED <<wphase, listed>>

\* Event::Apply.  A key in `applied` makes it a re-apply, for which nothing is
\* sent; only an Apply that was sent enters the key.
WatcherApply(w, s) ==
    /\ WatcherEvent(w, "Apply", s)
    /\ \/ /\ s \notin applied[w]
          /\ InLabelledNamespace(s)
          /\ SendToManager([type |-> "RequestServiceIdentity", s |-> s])
          /\ applied' = [applied EXCEPT ![w] = @ \cup {s}]
       \/ /\ s \notin applied[w]
          /\ NotInLabelledNamespace(s)
          /\ UNCHANGED <<imq, applied>>
       \/ /\ s \in applied[w]
          /\ UNCHANGED <<imq, applied, failures>>

\* Event::Delete.  Only a Delete that was sent removes the key.
WatcherDelete(w, s) ==
    /\ WatcherEvent(w, "Delete", s)
    /\ \/ /\ InLabelledNamespace(s)
          /\ SendToManager([type |-> "DeletedServiceCandidate", s |-> s])
          /\ applied' = [applied EXCEPT ![w] = @ \ {s}]
       \/ /\ NotInLabelledNamespace(s)
          /\ UNCHANGED <<imq, applied>>

\* The stream breaks and the watcher lists again: unread events are lost, the
\* objects come as InitApply, which is ignored.
WatcherRelist(w) ==
    /\ wphase[w] = "run"
    /\ events[w] # <<>>
    /\ CallFails
    /\ events' = [events EXCEPT ![w] = <<>>]
    /\ WatcherFrame
    /\ UNCHANGED <<wphase, listed, applied, imq>>

WatcherNext(w) ==
    \/ WatcherList(w)
    \/ WatcherNotify(w)
    \/ WatcherStart(w)
    \/ WatcherRelist(w)
    \/ \E s \in Services :
          \/ WatcherInitialized(w, s)
          \/ WatcherApply(w, s)
          \/ WatcherDelete(w, s)
=============================================================================
