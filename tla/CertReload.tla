----------------------------- MODULE CertReload -----------------------------
(***************************************************************************)
(* The TLS certificates of the injector.  Three tasks share a flag:        *)
(*                                                                         *)
(*   - the PollWatcher compares certificate and key with what it saw last, *)
(*     and sends an event for each change through a channel of one place;  *)
(*   - watch_files receives the events and sets reload_certs;              *)
(*   - the accept loop of main looks at the flag before each connection,   *)
(*     reads both files, replaces the acceptor and clears the flag.        *)
(*                                                                         *)
(* The content of a file is the number of its rotation; Kubernetes swaps   *)
(* both files at once.                                                     *)
(***************************************************************************)
EXTENDS Integers, Sequences

CONSTANTS
    MaxRotations,  \* bound: renewals of the certificate
    MaxFaults      \* bound: errors of the watcher, contended locks

Files == {"cert", "key"}

VARIABLES
    file,      \* the rotation the files are from
    polled,    \* the rotation of each file at the last poll that saw it
    channel,   \* events on their way to watch_files
    flag,      \* reload_certs
    loop,      \* accept -> check (-> cert -> key (-> clear)) -> accept
    loaded,    \* the certificate load_ssl has read
    acceptor,  \* the rotation connections are served with
    faults

certVars == <<file, polled, channel, flag, loop, loaded, acceptor, faults>>

Fault == faults < MaxFaults /\ faults' = faults + 1

Rotate ==
    /\ file < MaxRotations
    /\ file' = file + 1
    /\ UNCHANGED <<polled, channel, flag, loop, loaded, acceptor, faults>>

\* The poll thread blocks until the channel has room.
Poll(f) ==
    /\ channel = <<>>
    /\ \/ /\ polled[f] # file
          /\ polled' = [polled EXCEPT ![f] = file]
          /\ channel' = <<"modify">>
          /\ UNCHANGED faults
       \/ /\ Fault
          /\ channel' = <<"error">>
          /\ UNCHANGED polled
    /\ UNCHANGED <<file, flag, loop, loaded, acceptor>>

\* Only a modification sets the flag.
watch_files ==
    /\ channel # <<>>
    /\ flag' = (flag \/ Head(channel) = "modify")
    /\ channel' = Tail(channel)
    /\ UNCHANGED <<file, polled, loop, loaded, acceptor, faults>>

\* The next connection is accepted, with the acceptor there is.
Accept ==
    /\ loop = "accept"
    /\ loop' = "check"
    /\ UNCHANGED <<file, polled, channel, flag, loaded, acceptor, faults>>

\* should_reload: the lock that is not free within 10 ms counts as no.
CheckFlag ==
    /\ loop = "check"
    /\ \/ /\ loop' = IF flag THEN "cert" ELSE "accept"
          /\ UNCHANGED faults
       \/ /\ Fault
          /\ loop' = "accept"
    /\ UNCHANGED <<file, polled, channel, flag, loaded, acceptor>>

\* load_ssl reads the certificate, then the key.
LoadCert ==
    /\ loop = "cert"
    /\ loaded' = file
    /\ loop' = "key"
    /\ UNCHANGED <<file, polled, channel, flag, acceptor, faults>>

\* A key that does not fit is an error; the flag stays set.
LoadKey ==
    /\ loop = "key"
    /\ \/ /\ loaded = file
          /\ acceptor' = loaded
          /\ loop' = "clear"
       \/ /\ loaded # file
          /\ loop' = "accept"
          /\ UNCHANGED acceptor
    /\ UNCHANGED <<file, polled, channel, flag, loaded, faults>>

ClearFlag ==
    /\ loop = "clear"
    /\ flag' = FALSE
    /\ loop' = "accept"
    /\ UNCHANGED <<file, polled, channel, loaded, acceptor, faults>>

\* load_ssl succeeded before the loop, which then looks at the flag.
CertInit ==
    /\ file = 0 /\ loaded = 0 /\ acceptor = 0
    /\ polled = [f \in Files |-> 0]
    /\ channel = <<>>
    /\ flag = FALSE
    /\ loop = "check"
    /\ faults = 0

AcceptLoop == CheckFlag \/ LoadCert \/ LoadKey \/ ClearFlag

CertNext ==
    \/ Rotate
    \/ \E f \in Files : Poll(f)
    \/ watch_files
    \/ Accept
    \/ AcceptLoop

CertSpec == CertInit /\ [][CertNext]_certVars

-----------------------------------------------------------------------------
\* The comment in main: "Reload the TLS certificates if the file watcher
\* signalled a change."  When every change has been signalled and no reload is
\* left to do, the acceptor has the certificate that is in the file.
ReloadNotLost ==
    (\A f \in Files : polled[f] = file) /\ channel = <<>> /\ ~flag
        => acceptor = file
=============================================================================
