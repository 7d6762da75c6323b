----------------------------- MODULE Reconciler ------------------------------
(***************************************************************************)
(* What the network manager promises to the coordinator that calls it,     *)
(* without commands, namespaces or ports: a call first provides what it is *)
(* asked for, and only when all of it is attached does it remove what an   *)
(* earlier call had attached (make before break).  NetworkManager          *)
(* implements this, and HostSync relies on it: its Reconcile and           *)
(* ReconcileFails are the calls that end in "ok" and in "error".           *)
(***************************************************************************)

CONSTANT Endpoints   \* records with the interface (veth), the port and the address

VARIABLES
    attached,   \* the endpoints in place on the host
    want,       \* what the current or last call was asked for
    known,      \* what the last call that succeeded had attached, in this process
    status      \* "none", "providing", "removing", "ok" or "error"

vars == <<attached, want, known, status>>

Interfaces(eps) == {e.veth : e \in eps}

\* Two endpoints of one list with the same interface overwrite each other.
Sole(e) == e \in want /\ \A f \in want : f.veth = e.veth => f = e

Gained == attached' \ attached
Lost == attached \ attached'

\* One endpoint per interface that was asked for is in place.
Provided(eps) == eps \subseteq want \cap attached /\ Interfaces(eps) = Interfaces(want)

TypeOK ==
    /\ attached \subseteq Endpoints /\ want \subseteq Endpoints /\ known \subseteq Endpoints
    /\ status \in {"none", "providing", "removing", "ok", "error"}

Init == attached = {} /\ want = {} /\ known = {} /\ status = "none"

\* ReconcileEndpoints with a list, or Cleanup, which wants nothing.
Begin ==
    /\ status \notin {"providing", "removing"}
    /\ want' \subseteq Endpoints
    /\ status' = "providing" \/ (want' = {} /\ status' = "removing")
    /\ UNCHANGED <<attached, known>>

\* Only ports that were asked for become attached, and only their interfaces are
\* touched; what is asked for and attached stays so.  An error may end the call.
Provide ==
    /\ status = "providing" /\ status' \in {"providing", "error"}
    /\ attached' \subseteq Endpoints
    /\ \A e \in Gained : \E f \in want : f.veth = e.veth /\ f.port = e.port
    /\ \A e \in Lost : e.veth \in Interfaces(want) /\ ~Sole(e)
    /\ UNCHANGED <<want, known>>

Turn ==
    /\ status = "providing" /\ status' = "removing"
    /\ Provided(want \cap attached)
    /\ UNCHANGED <<attached, want, known>>

\* Removing touches only interfaces that this process attached and nobody wants.
Remove ==
    /\ status = "removing" /\ status' = "removing"
    /\ Gained = {}
    /\ Interfaces(Lost) \subseteq Interfaces(known) \ Interfaces(want)
    /\ UNCHANGED <<want, known>>

Done ==
    /\ status = "removing" /\ status' = "ok"
    /\ Provided(known')
    /\ UNCHANGED <<attached, want>>

\* The process restarts; a reboot of the host takes the endpoints along.
Crash ==
    /\ want' = {} /\ known' = {} /\ status' = "none"
    /\ attached' \in {attached, {}}

Next == Begin \/ Provide \/ Turn \/ Remove \/ Done \/ Crash

Spec == Init /\ [][Next]_vars
=============================================================================
