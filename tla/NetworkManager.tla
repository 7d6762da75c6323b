--------------------------- MODULE NetworkManager ---------------------------
(***************************************************************************)
(* The network manager of the compute agent (pkg/network): it brings the   *)
(* compute host to the set of Host Network Endpoints that the control      *)
(* service wants, by running `ip` and `ovs-vsctl` one command at a time.   *)
(*                                                                         *)
(* Each action is one external command, or one step of the loops around    *)
(* them.  A command succeeds, is refused by the kernel because of the      *)
(* state of the host, or fails for a reason of its own (killed after its   *)
(* timeout, context cancelled, fork failed), in which case it may or may   *)
(* not have taken effect.  ReconcileEndpoints gives up at the first error  *)
(* while it provisions and ignores every error while it removes.  The      *)
(* process can be restarted and the host rebooted between any two steps.   *)
(*                                                                         *)
(* The mutex of NetworkManager admits one call at a time, so a call is a   *)
(* sequence of steps and `pc` says which command comes next.               *)
(***************************************************************************)
EXTENDS Naturals, FiniteSets

CONSTANTS
    Veths,        \* host interface names ("net" + short network id)
    NetNSs,       \* tenant network namespaces ("dcgm-" + short network id)
    NSOf,         \* the namespace of an endpoint's interface, or "root"
    Ports,        \* Neutron ports: the port id and the MAC that comes with it
    Addrs,        \* addresses in CIDR form
    Endpoints,    \* the endpoints the control service may ask for
    MaxFaults,    \* bound: commands that fail for a reason of their own
    MaxRestarts   \* bound: process restarts and host reboots

NoEndpoint == [veth |-> "none", port |-> "none", addr |-> "none"]

\* A port without an IPv4 address gives an endpoint whose address is "none".
ASSUME EndpointAssumption ==
    Endpoints \subseteq [veth : Veths, port : Ports, addr : Addrs \cup {"none"}]

\* Interface and namespace names are derived from the same short network id.
ASSUME NSOfAssumption ==
    /\ NSOf \in [Veths -> NetNSs \cup {"root"}]
    /\ \A v, w \in Veths : NSOf[v] = NSOf[w] /\ NSOf[v] # "root" => v = w

ASSUME NameAssumption ==
    /\ "root" \notin NetNSs /\ "absent" \notin NetNSs /\ "lost" \notin NetNSs
    /\ "none" \notin Ports /\ "unbound" \notin Ports
    /\ "none" \notin Veths /\ "none" \notin Addrs

ASSUME BoundAssumption == MaxFaults \in Nat /\ MaxRestarts \in Nat

VARIABLES
    nss,       \* a namespace: "none", "down" (loopback down) or "up"
    link,      \* a veth pair: where the host end is and how both are set up
    ovs,       \* an OVS port: "none", "unbound" or the iface-id it carries
    pc,        \* the next command of the call in progress, or "idle"
    req,       \* the endpoints the current or last call was asked for
    todo,      \* those of them not yet provisioned
    cur,       \* the endpoint being provisioned or removed
    desired,   \* the local map `desired` of the call, as a set of endpoints
    active,    \* the field activeVeths, as a set of endpoints
    stale,     \* the obsolete endpoints not yet removed
    outcome,   \* what the last call returned, or "running"
    calm,      \* history: no command of the current call has failed by itself
    faults,    \* history: commands that failed by themselves, up to MaxFaults
    restarts   \* history: restarts and reboots so far, up to MaxRestarts

host == <<nss, link, ovs>>
call == <<req, todo, cur, desired, active, stale>>
vars == <<nss, link, ovs, pc, req, todo, cur, desired, active, stale,
          outcome, calm, faults, restarts>>

\* The host end of a pair is absent, in a namespace (NetNSs), in "root", or
\* "lost" in a namespace whose name was deleted while sockets kept it alive.
Places == NetNSs \cup {"root", "absent", "lost"}

NoLink == [place |-> "absent", mac |-> "none", addrs |-> {},
           up |-> FALSE, peerUp |-> FALSE]

Link == [place : Places, mac : Ports \cup {"none"}, addrs : SUBSET Addrs,
         up : BOOLEAN, peerUp : BOOLEAN]

VethsOf(eps) == {e.veth : e \in eps}

ns == NSOf[cur.veth]
Isolated == ns # "root"
Present == link[cur.veth].place # "absent"

EnsurePCs == {"listNS", "addNS", "loUp", "showInNS", "showInRoot", "linkAdd",
              "move", "setMAC", "hostUp", "peerUp", "addrReplace",
              "addPort", "setIface"}
PrunePCs == {"delPort", "showPeer", "delPeer", "showHost", "delHost",
             "listStaleNS", "delNS"}
PCs == {"idle", "ensure", "prune"} \cup EnsurePCs \cup PrunePCs

TypeOK ==
    /\ nss \in [NetNSs -> {"none", "down", "up"}]
    /\ link \in [Veths -> Link]
    /\ ovs \in [Veths -> Ports \cup {"none", "unbound"}]
    /\ pc \in PCs
    /\ req \subseteq Endpoints
    /\ todo \subseteq req
    /\ cur \in Endpoints \cup {NoEndpoint}
    /\ desired \subseteq req
    /\ active \subseteq Endpoints
    /\ stale \subseteq active
    /\ outcome \in {"none", "running", "ok", "error"}
    /\ calm \in BOOLEAN
    /\ faults \in 0..MaxFaults
    /\ restarts \in 0..MaxRestarts
    /\ pc \in EnsurePCs => cur \in req
    /\ pc \in PrunePCs => cur \in active

Init ==
    /\ nss = [n \in NetNSs |-> "none"]
    /\ link = [v \in Veths |-> NoLink]
    /\ ovs = [v \in Veths |-> "none"]
    /\ pc = "idle"
    /\ req = {} /\ todo = {} /\ desired = {} /\ active = {} /\ stale = {}
    /\ cur = NoEndpoint
    /\ outcome = "none"
    /\ calm = TRUE
    /\ faults = 0
    /\ restarts = 0

-----------------------------------------------------------------------------
(* How a command ends.                                                     *)

Goto(l) == pc' = l /\ UNCHANGED <<call, outcome, calm, faults, restarts>>

Fault ==
    /\ faults < MaxFaults
    /\ faults' = faults + 1
    /\ calm' = FALSE
    /\ UNCHANGED restarts

\* Mutant: the endpoints done so far replace activeVeths also when the call fails.
ReturnError_Records ==
    /\ pc' = "idle"
    /\ outcome' = "error"
    /\ active' = desired
    /\ todo' = {} /\ desired' = {} /\ stale' = {}
    /\ cur' = NoEndpoint
    /\ UNCHANGED req

\* ReconcileEndpoints returns the error; activeVeths keeps its old value.
ReturnError ==
    /\ pc' = "idle"
    /\ outcome' = "error"
    /\ todo' = {} /\ desired' = {} /\ stale' = {}
    /\ cur' = NoEndpoint
    /\ UNCHANGED <<req, active>>

\* A command of the provisioning phase: an error of its own ends the call.
Command(at, effect, next) ==
    /\ pc = at
    /\ \/ effect /\ Goto(next)
       \/ (effect \/ UNCHANGED host) /\ Fault /\ ReturnError

\* A query of the provisioning phase: yes and no lead to different commands.
Query(at, answer, yes, no) ==
    Command(at, UNCHANGED host, IF answer THEN yes ELSE no)

\* A command of the removal phase: the error is ignored, the next step is `err`.
PruneCommand(at, effect, next, err) ==
    /\ pc = at
    /\ \/ effect /\ Goto(next)
       \/ /\ effect \/ UNCHANGED host
          /\ Fault
          /\ pc' = err
          /\ UNCHANGED <<call, outcome>>

SetNS(n, state) == nss' = [nss EXCEPT ![n] = state] /\ UNCHANGED <<link, ovs>>
SetLink(l) == link' = [link EXCEPT ![cur.veth] = l] /\ UNCHANGED <<nss, ovs>>
SetPort(p) == ovs' = [ovs EXCEPT ![cur.veth] = p] /\ UNCHANGED <<nss, link>>

-----------------------------------------------------------------------------
(* ReconcileEndpoints: the call and its first loop.                        *)

\* Mutant: the map of desired endpoints is not a fresh one.
ReconcileEndpoints_KeepsMap(eps) ==
    /\ pc = "idle"
    /\ pc' = "ensure"
    /\ req' = eps /\ todo' = eps /\ desired' = active
    /\ outcome' = "running"
    /\ calm' = TRUE
    /\ UNCHANGED <<host, cur, active, stale, faults, restarts>>

\* Mutant: an interface this process has provisioned before is not looked at again.
ReconcileEndpoints_Remembers(eps) ==
    /\ pc = "idle"
    /\ pc' = "ensure"
    /\ req' = eps /\ todo' = {e \in eps : e.veth \notin VethsOf(active)}
    /\ desired' = {e \in eps : e.veth \in VethsOf(active)}
    /\ outcome' = "running"
    /\ calm' = TRUE
    /\ UNCHANGED <<host, cur, active, stale, faults, restarts>>

ReconcileEndpoints(eps) ==
    /\ pc = "idle"
    /\ pc' = "ensure"
    /\ req' = eps /\ todo' = eps /\ desired' = {}
    /\ outcome' = "running"
    /\ calm' = TRUE
    /\ UNCHANGED <<host, cur, active, stale, faults, restarts>>

\* The list has no order here: every order of the endpoints is explored.
NextEndpoint ==
    /\ pc = "ensure"
    /\ \E e \in todo :
         /\ todo' = todo \ {e}
         /\ cur' = e
         /\ pc' = IF NSOf[e.veth] # "root" THEN "listNS" ELSE "showInRoot"
    /\ UNCHANGED <<host, req, desired, active, stale, outcome, calm, faults,
                   restarts>>

\* desired[hostIf] = ep, once the last command of the endpoint succeeded.
Record ==
    /\ desired' = {e \in desired : e.veth # cur.veth} \cup {cur}
    /\ pc' = "ensure"
    /\ cur' = NoEndpoint
    /\ UNCHANGED <<req, todo, active, stale, outcome, calm, faults, restarts>>

\* Mutant: an endpoint is obsolete when its record changed, not when its name is gone.
EnsuresDone_ByRecord ==
    /\ pc = "ensure" /\ todo = {}
    /\ stale' = {e \in active : e \notin desired}
    /\ pc' = "prune"
    /\ UNCHANGED <<host, req, todo, cur, desired, active, outcome, calm,
                   faults, restarts>>

EnsuresDone ==
    /\ pc = "ensure" /\ todo = {}
    /\ stale' = {e \in active : e.veth \notin VethsOf(desired)}
    /\ pc' = "prune"
    /\ UNCHANGED <<host, req, todo, cur, desired, active, outcome, calm,
                   faults, restarts>>

-----------------------------------------------------------------------------
(* EnsureNetNS                                                             *)

ListNetNS == Query("listNS", nss[ns] # "none", "loUp", "addNS")

NetNSAdd == Command("addNS", SetNS(ns, "down"), "loUp")

LoopbackUp == Command("loUp", SetNS(ns, "up"), "showInNS")

-----------------------------------------------------------------------------
(* EnsureVethPair                                                          *)

\* Mutant: a pair that is already in its namespace is taken to be configured.
ShowInNS_Trusting == Query("showInNS", link[cur.veth].place = ns, "addPort", "showInRoot")

\* Mutant: the root namespace is not searched for a half-built pair.
ShowInNS_Only == Query("showInNS", link[cur.veth].place = ns, "setMAC", "linkAdd")

ShowInNS == Query("showInNS", link[cur.veth].place = ns, "setMAC", "showInRoot")

\* Mutant: a new pair is configured before it is moved.
AfterCreate_NoMove == "setMAC"

AfterCreate == IF Isolated THEN "move" ELSE "setMAC"

ShowInRoot ==
    Query("showInRoot", link[cur.veth].place = "root", AfterCreate, "linkAdd")

LinkAdd ==
    /\ pc = "linkAdd" /\ ~Present
    /\ Command("linkAdd", SetLink([NoLink EXCEPT !.place = "root"]), AfterCreate)

\* The kernel refuses the pair: its OVS end still exists in the root namespace,
\* because the host end lives on in a deleted namespace.
LinkAddRefused ==
    /\ pc = "linkAdd" /\ Present
    /\ ReturnError
    /\ UNCHANGED <<host, faults, restarts, calm>>

\* A device that changes namespace loses its addresses and goes down.
MoveToNS ==
    Command("move",
            SetLink([link[cur.veth] EXCEPT !.place = ns, !.addrs = {}, !.up = FALSE]),
            "setMAC")

SetMAC == Command("setMAC", SetLink([link[cur.veth] EXCEPT !.mac = cur.port]), "hostUp")

AfterHostUp == IF ~Isolated THEN "peerUp"
               ELSE IF cur.addr # "none" THEN "addrReplace" ELSE "peerUp"

HostUp == Command("hostUp", SetLink([link[cur.veth] EXCEPT !.up = TRUE]), AfterHostUp)

\* In the root namespace the peer comes up before the address is assigned.
AfterPeerUp == IF ~Isolated /\ cur.addr # "none" THEN "addrReplace" ELSE "addPort"

PeerUp == Command("peerUp", SetLink([link[cur.veth] EXCEPT !.peerUp = TRUE]), AfterPeerUp)

\* `ip addr replace` adds the address or refreshes it; others stay.
AddrReplace ==
    Command("addrReplace",
            SetLink([link[cur.veth] EXCEPT !.addrs = @ \cup {cur.addr}]),
            IF Isolated THEN "peerUp" ELSE "addPort")

-----------------------------------------------------------------------------
(* EnsurePort                                                              *)

AddPort ==
    Command("addPort",
            SetPort(IF ovs[cur.veth] = "none" THEN "unbound" ELSE ovs[cur.veth]),
            "setIface")

SetIfaceID ==
    /\ pc = "setIface"
    /\ \/ SetPort(cur.port) /\ Record
       \/ (SetPort(cur.port) \/ UNCHANGED host) /\ Fault /\ ReturnError

-----------------------------------------------------------------------------
(* The removal of obsolete endpoints: every error is dropped.              *)

PruneNext ==
    /\ pc = "prune"
    /\ \E e \in stale :
         /\ stale' = stale \ {e}
         /\ cur' = e
    /\ pc' = "delPort"
    /\ UNCHANGED <<host, req, todo, desired, active, outcome, calm, faults, restarts>>

DelPort == PruneCommand("delPort", SetPort("none"), "showPeer", "showPeer")

\* Mutant: a removed endpoint leaves its namespace behind.
AfterVeth_KeepsNS == "prune"

AfterVeth == IF Isolated THEN "listStaleNS" ELSE "prune"

\* DeleteVethPair looks for the OVS end first; an error counts as "not there".
ShowPeer ==
    PruneCommand("showPeer", UNCHANGED host,
                 IF Present THEN "delPeer" ELSE "showHost", "showHost")

DelPeer == PruneCommand("delPeer", SetLink(NoLink), AfterVeth, AfterVeth)

ShowHost ==
    PruneCommand("showHost", UNCHANGED host,
                 IF link[cur.veth].place = ns THEN "delHost" ELSE AfterVeth,
                 AfterVeth)

DelHost == PruneCommand("delHost", SetLink(NoLink), AfterVeth, AfterVeth)

ListStaleNS ==
    PruneCommand("listStaleNS", UNCHANGED host,
                 IF nss[ns] # "none" THEN "delNS" ELSE "prune", "prune")

\* Deleting the name destroys the namespace and the pair in it, unless sockets
\* (pooled connections to guests) keep the namespace alive without a name.
DropNS(place) ==
    /\ nss' = [nss EXCEPT ![ns] = "none"]
    /\ link' = IF link[cur.veth].place # ns THEN link
               ELSE [link EXCEPT ![cur.veth] =
                       IF place = "lost" THEN [@ EXCEPT !.place = "lost"] ELSE NoLink]
    /\ UNCHANGED ovs

DelNetNS ==
    \E place \in {"absent", "lost"} :
        PruneCommand("delNS", DropNS(place), "prune", "prune")

PruneDone ==
    /\ pc = "prune" /\ stale = {}
    /\ active' = desired
    /\ pc' = "idle"
    /\ outcome' = "ok"
    /\ desired' = {}
    /\ cur' = NoEndpoint
    /\ UNCHANGED <<host, req, todo, stale, calm, faults, restarts>>

\* Cleanup runs the same removals over all of activeVeths, then empties it.
Cleanup ==
    /\ pc = "idle"
    /\ pc' = "prune"
    /\ req' = {} /\ todo' = {} /\ desired' = {}
    /\ stale' = active
    /\ outcome' = "running"
    /\ calm' = TRUE
    /\ UNCHANGED <<host, cur, active, faults, restarts>>

-----------------------------------------------------------------------------
(* The host around the agent.                                              *)

\* The last socket of a nameless namespace closes and the kernel reaps it.
Reap ==
    /\ \E v \in Veths :
         /\ link[v].place = "lost"
         /\ link' = [link EXCEPT ![v] = NoLink]
    /\ UNCHANGED <<nss, ovs, pc, call, outcome, calm, faults, restarts>>

NewProcess ==
    /\ restarts < MaxRestarts
    /\ restarts' = restarts + 1
    /\ pc' = "idle"
    /\ req' = {} /\ todo' = {} /\ desired' = {} /\ active' = {} /\ stale' = {}
    /\ cur' = NoEndpoint
    /\ outcome' = "none"
    /\ calm' = TRUE
    /\ UNCHANGED faults

\* The agent is restarted: the host keeps what was built, the map is lost.
Restart == NewProcess /\ UNCHANGED host

\* The host reboots: links and namespaces are gone, the OVS database is not.
Reboot ==
    /\ NewProcess
    /\ nss' = [n \in NetNSs |-> "none"]
    /\ link' = [v \in Veths |-> NoLink]
    /\ UNCHANGED ovs

-----------------------------------------------------------------------------

Provision ==
    \/ NextEndpoint \/ EnsuresDone
    \/ ListNetNS \/ NetNSAdd \/ LoopbackUp
    \/ ShowInNS \/ ShowInRoot \/ LinkAdd \/ LinkAddRefused \/ MoveToNS
    \/ SetMAC \/ HostUp \/ AddrReplace \/ PeerUp
    \/ AddPort \/ SetIfaceID

Prune ==
    \/ PruneNext \/ PruneDone
    \/ DelPort \/ ShowPeer \/ DelPeer \/ ShowHost \/ DelHost
    \/ ListStaleNS \/ DelNetNS

Sync == \E eps \in SUBSET Endpoints : ReconcileEndpoints(eps)

Next ==
    \/ Sync
    \/ Cleanup
    \/ Provision
    \/ Prune
    \/ Reap
    \/ Restart
    \/ Reboot

Spec == Init /\ [][Next]_vars

\* The goroutine of a call keeps running and every command ends by its timeout;
\* Host Sync calls again after every interval; idle sockets are closed.
FairSpec == Spec /\ WF_vars(Provision) /\ WF_vars(Prune) /\ WF_vars(Sync) /\ WF_vars(Reap)

-----------------------------------------------------------------------------
(* Properties.                                                             *)

\* The endpoint is in place: its pair is in its namespace with MAC, address and
\* both ends up, and the OVS end carries the iface-id of its Neutron port.
Attached(e) ==
    /\ link[e.veth].place = NSOf[e.veth]
    /\ NSOf[e.veth] # "root" => nss[NSOf[e.veth]] = "up"
    /\ link[e.veth].mac = e.port
    /\ link[e.veth].up /\ link[e.veth].peerUp
    /\ e.addr # "none" => e.addr \in link[e.veth].addrs
    /\ ovs[e.veth] = e.port

\* ReconcileEndpoints that returns nil has attached an endpoint for every
\* interface it was asked for, whatever half-built state earlier errors, restarts
\* and reboots had left, and its own removals took none of them apart again.
ReconcileAttachesAll ==
    outcome = "ok" =>
        /\ active \subseteq req /\ VethsOf(active) = VethsOf(req)
        /\ \A e \in active : Attached(e)

\* While a call runs, in the middle as well as at the end and also when commands
\* fail, an endpoint that it was asked for and that is attached stays attached:
\* reconciling is no outage for the networks that do not change.  (Two endpoints
\* of one list with the same interface name overwrite each other.)
Sole(e, eps) == \A f \in eps : f.veth = e.veth => f = e
KeepsWanted ==
    [][outcome = "running" /\ restarts' = restarts
         => \A e \in req : Sole(e, req) /\ Attached(e) => Attached(e)']_vars

\* A call none of whose commands failed by itself returns nil, so every leftover
\* is repaired by the next Host Sync; the one exception is a pair caught in a
\* deleted namespace, whose OVS end makes `ip link add` fail until it is reaped.
OnlyFaultsFail ==
    [][outcome' = "error" /\ outcome # "error"
         => ~calm' \/ link[cur.veth].place = "lost"]_vars

\* ADR-0002: an endpoint of a tenant network never carries an address in the
\* root namespace, at no point of its construction or removal.
TenantAddressesConfined ==
    \A v \in Veths : link[v].addrs # {} => link[v].place \in {NSOf[v], "lost"}

\* As long as nothing has failed, the host holds exactly the endpoints of the
\* last list between calls: obsolete pairs, ports and namespaces are gone.
ExactWithoutFaults ==
    pc = "idle" /\ faults = 0 /\ restarts = 0 =>
        /\ \A v \in Veths : link[v] # NoLink <=> v \in VethsOf(active)
        /\ \A v \in Veths : ovs[v] # "none" <=> v \in VethsOf(active)
        /\ \A n \in NetNSs : nss[n] # "none" <=> \E e \in active : NSOf[e.veth] = n

\* The comment on Cleanup: it "removes all active veth pairs and OVS ports managed
\* by this instance".  After a Cleanup none of whose commands failed, no endpoint
\* that this process attached is still attached.
CleanupDetachesAll ==
    outcome = "ok" /\ calm /\ restarts = 0 /\ req = {} =>
        \A e \in Endpoints : ~Attached(e)

\* Once Host Sync keeps asking for the same list, its endpoints end up attached
\* and stay so: failed commands, restarts, a reboot and a pair caught in a deleted
\* namespace delay this but never prevent it.
Converges(eps) ==
    <>[][outcome' = "running" /\ outcome # "running" => req' = eps]_vars
        => <>[](\A e \in eps : Attached(e))

-----------------------------------------------------------------------------
(* The promise to the coordinator.                                         *)

AttachedEndpoints == {e \in Endpoints : Attached(e)}

Status == IF outcome # "running" THEN outcome
          ELSE IF pc \in PrunePCs \cup {"prune"} THEN "removing" ELSE "providing"

Promise == INSTANCE Reconciler
             WITH attached <- AttachedEndpoints, want <- req, known <- active, status <- Status

\* The commands, with their faults, restarts and reboots, implement the contract that
\* SyncOnce relies on: make before break, nothing touched that is not this process's,
\* and activeVeths replaced only by a list that is attached.
ImplementsReconciler == Promise!Spec
=============================================================================
