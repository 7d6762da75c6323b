------------------------------- MODULE HostSync -------------------------------
(***************************************************************************)
(* Host Sync: the compute agents' coordinators (pkg/coordinator), the      *)
(* handler of the Control Service (pkg/controller) and its OpenStack       *)
(* client (pkg/openstack).  Nova and Neutron are external: every API call  *)
(* may fail, and a create request that the client has given up may still   *)
(* be executed.  A handler whose agent gave up or restarted goes on to its *)
(* end, beside those of other hosts and the next one of its own: it never  *)
(* reads the request's body, and only a server that has come to the end of *)
(* the body notices that the client is gone.  One action per API call.     *)
(*                                                                         *)
(* Reads of what does not change here (the flavor and the ports of a       *)
(* server, the subnet of a network) are part of the step that uses them.   *)
(* The agent's NetworkManager is reduced to what NetworkManager.tla shows  *)
(* of a reconcile: everything asked for is attached when it succeeds, and  *)
(* when it fails any part of it that includes what was in place before.    *)
(***************************************************************************)
EXTENDS Naturals, FiniteSets

CONSTANTS
    Hosts,          \* Compute Hosts, each with one agent
    VMs,            \* Nova servers
    Nets,           \* Neutron networks
    NetsOf,         \* [VMs -> SUBSET Nets]: the networks of a server's ports
    Primary,        \* [VMs -> Nets \cup {NoNet}]: that of its first IPv4 address
    NoNet,
    GPU,            \* the servers whose flavor asks for a GPU
    Short,          \* [Nets -> ...]: the first eight characters of an id
    Rank,           \* [Nets -> Nat]: the place of an id in the sorted list
    Slash24,        \* networks whose subnet is a /24
    Slots,          \* handlers of the Control Service at one time (bound)
    MaxPorts,       \* Neutron ports ever created (bound)
    MaxMoves,       \* servers started, stopped or migrated (bound)
    MaxFaults,      \* failed calls, timeouts and lost answers (bound)
    MaxRestarts     \* restarts of an agent or of the Control Service (bound)

ASSUME InventoryAssumption ==
    /\ NoNet \notin Nets /\ "none" \notin Hosts /\ GPU \subseteq VMs /\ Slash24 \subseteq Nets
    /\ NetsOf \in [VMs -> SUBSET Nets]
    /\ Primary \in [VMs -> Nets \cup {NoNet}]
    /\ \A v \in VMs : Primary[v] # NoNet => Primary[v] \in NetsOf[v]
    /\ Rank \in [Nets -> Nat] /\ \A m, n \in Nets : Rank[m] = Rank[n] => m = n

ASSUME SlotsAssumption == IsFiniteSet(Slots)

ASSUME LimitsAssumption == /\ MaxPorts \in Nat /\ MaxMoves \in Nat
                           /\ MaxFaults \in Nat /\ MaxRestarts \in Nat

VARIABLES
    on,         \* the host a server is active on, or "off"
    ports,      \* the host ports in Neutron
    pending,    \* create requests on their way to Neutron
    subnets,    \* the networks in subnetCache
    h,          \* the handlers of the Control Service
    agent,      \* where an agent's sync loop is
    resp,       \* the response it works on
    targets,    \* the coordinator's targets
    desired,    \* the endpoints of the last reconcile that succeeded (activeVeths)
    attached,   \* the networks whose endpoints are in place on the host
    failed,     \* whether the last reconcile failed
    moves, faults, restarts

openstack == <<on, ports, pending>>
agents == <<agent, resp, targets, desired, attached, failed>>
counters == <<moves, faults, restarts>>
vars == <<openstack, subnets, h, agents, counters>>

Port == [id : 1..MaxPorts, host : Hosts, net : Nets]

\* Mutant: the host is not part of the name of a port.
Name_NoHost(host, net) == Short[net]


\* The name dcgm-<host>-<short id> is all that identifies a host port.
Name(host, net) == <<host, Short[net]>>

\* An endpoint: its network, its port, and whether its prefix length is the right one.
Endpoint == [net : Nets, port : 1..MaxPorts, exact : BOOLEAN]

Response == [found : SUBSET VMs, eps : SUBSET Endpoint]
NoResponse == [found |-> {}, eps |-> {}]

\* A handler: the host it serves, whether its client still waits, the servers left to
\* look at, the targets found, the networks left, the network and port in hand and the
\* endpoints so far.
Handler == [pc : {"free", "list", "servers", "ports", "create", "await", "format"},
            host : Hosts \cup {"none"}, live : BOOLEAN, todo : SUBSET VMs, found : SUBSET VMs,
            nets : SUBSET Nets, net : Nets \cup {NoNet}, port : 0..MaxPorts,
            eps : SUBSET Endpoint]

\* No handler: the slot is free.
Free == [pc |-> "free", host |-> "none", live |-> FALSE, todo |-> {}, found |-> {},
               nets |-> {}, net |-> NoNet, port |-> 0, eps |-> {}]

TypeOK ==
    /\ on \in [VMs -> Hosts \cup {"off"}]
    /\ ports \subseteq Port /\ pending \subseteq Port
    /\ subnets \subseteq Nets
    /\ h \in [Slots -> Handler]
    /\ \A s \in Slots : h[s].pc # "free" => h[s].host \in Hosts
    /\ agent \in [Hosts -> {"idle", "waiting", "reconcile", "publish"}]
    /\ resp \in [Hosts -> Response]
    /\ targets \in [Hosts -> SUBSET VMs]
    /\ desired \in [Hosts -> SUBSET Endpoint]
    /\ attached \in [Hosts -> SUBSET Nets]
    /\ failed \in [Hosts -> BOOLEAN]
    /\ moves \in 0..MaxMoves /\ faults \in 0..MaxFaults /\ restarts \in 0..MaxRestarts

Init ==
    /\ on = [v \in VMs |-> "off"]
    /\ ports = {} /\ pending = {} /\ subnets = {}
    /\ h = [s \in Slots |-> Free]
    /\ agent = [a \in Hosts |-> "idle"]
    /\ resp = [a \in Hosts |-> NoResponse]
    /\ targets = [a \in Hosts |-> {}]
    /\ desired = [a \in Hosts |-> {}]
    /\ attached = [a \in Hosts |-> {}]
    /\ failed = [a \in Hosts |-> FALSE]
    /\ moves = 0 /\ faults = 0 /\ restarts = 0

\* One more call that fails, or answer that is lost.
Fault == faults < MaxFaults /\ faults' = faults + 1 /\ UNCHANGED <<moves, restarts>>
NoFault == UNCHANGED counters

NetsIn(eps) == {e.net : e \in eps}

-----------------------------------------------------------------------------
(* The agent sends a request; it may give up before the answer.            *)

\* Mutant: the handler goes on without the host of the client's certificate.
Send_Anonymous(a) ==
    /\ agent[a] = "idle"
    /\ \E s \in Slots :
         /\ h[s].pc = "free"
         /\ h' = [h EXCEPT ![s] = [Free EXCEPT !.pc = "list", !.live = TRUE]]
    /\ agent' = [agent EXCEPT ![a] = "waiting"]
    /\ NoFault
    /\ UNCHANGED <<openstack, subnets, resp, targets, desired, attached, failed>>

\* SyncOnce, at start and at every tick.
Send(a) ==
    /\ agent[a] = "idle"
    /\ \E s \in Slots :
         /\ h[s].pc = "free"
         /\ h' = [h EXCEPT ![s] = [Free EXCEPT !.pc = "list", !.host = a, !.live = TRUE]]
    /\ agent' = [agent EXCEPT ![a] = "waiting"]
    /\ NoFault
    /\ UNCHANGED <<openstack, subnets, resp, targets, desired, attached, failed>>

\* A handler whose client is gone: only its answer is lost.
Abandoned(a) == [s \in Slots |-> IF h[s].host = a THEN [h[s] EXCEPT !.live = FALSE] ELSE h[s]]

\* SyncTimeout, or a connection that breaks.
GiveUp(a) ==
    /\ agent[a] = "waiting"
    /\ h' = Abandoned(a)
    /\ agent' = [agent EXCEPT ![a] = "idle"]
    /\ Fault
    /\ UNCHANGED <<openstack, subnets, resp, targets, desired, attached, failed>>

-----------------------------------------------------------------------------
(* HandleSync.                                                             *)

At(s, pc) == h[s].pc = pc

\* Mutant: a network whose port cannot be ensured is left out of the answer.
Refuse_Continues(s) ==
    /\ h' = [h EXCEPT ![s].pc = "ports", ![s].net = NoNet, ![s].port = 0, ![s].nets = {}]
    /\ UNCHANGED agents

\* 500: an agent that still waits records the error and keeps what it has.
Refuse(s) ==
    /\ h' = [h EXCEPT ![s] = Free]
    /\ agent' = [a \in Hosts |-> IF h[s].live /\ a = h[s].host THEN "idle" ELSE agent[a]]
    /\ UNCHANGED <<resp, targets, desired, attached, failed>>

\* DiscoverComputeVMs: the active servers of the host.
ListServers(s) ==
    /\ At(s, "list")
    /\ h' = [h EXCEPT ![s].pc = "servers",
                      ![s].todo = {v \in VMs : on[v] = h[s].host}]
    /\ NoFault
    /\ UNCHANGED <<openstack, subnets, agents>>

\* A server without a GPU or an IPv4 address is no target; one whose flavor or ports
\* cannot be read is skipped, and the response does not show it.
SkipServer(s) ==
    /\ At(s, "servers")
    /\ \E v \in h[s].todo :
         /\ v \in GPU /\ Primary[v] # NoNet => Fault
         /\ ~(v \in GPU /\ Primary[v] # NoNet) => NoFault
         /\ h' = [h EXCEPT ![s].todo = @ \ {v}]
    /\ UNCHANGED <<openstack, subnets, agents>>

AddTarget(s) ==
    /\ At(s, "servers")
    /\ \E v \in h[s].todo \cap GPU :
         /\ Primary[v] # NoNet
         /\ h' = [h EXCEPT ![s].todo = @ \ {v}, ![s].found = @ \cup {v}]
    /\ NoFault
    /\ UNCHANGED <<openstack, subnets, agents>>

\* The unique networks of all targets.
CollectNetworks(s) ==
    /\ At(s, "servers") /\ h[s].todo = {}
    /\ h' = [h EXCEPT ![s].pc = "ports",
                      ![s].nets = UNION {NetsOf[v] : v \in h[s].found}]
    /\ NoFault
    /\ UNCHANGED <<openstack, subnets, agents>>

\* The list is sorted.
First(nets) == {n \in nets : \A m \in nets : Rank[n] <= Rank[m]}

\* Mutant: the search never sees the ports of earlier calls.
FindPort_Blind(s) ==
    /\ At(s, "ports")
    /\ \E n \in First(h[s].nets) :
         h' = [h EXCEPT ![s].pc = "create", ![s].net = n, ![s].nets = @ \ {n}]
    /\ NoFault
    /\ UNCHANGED <<openstack, subnets, agents>>

\* EnsureHostPorts, the next network: the first port of the right name, or none.
FindPort(s) ==
    /\ At(s, "ports")
    /\ \E n \in First(h[s].nets) :
         LET same == {p \in ports : Name(p.host, p.net) = Name(h[s].host, n)}
         IN  \/ /\ same = {}
                /\ h' = [h EXCEPT ![s].pc = "create", ![s].net = n, ![s].nets = @ \ {n}]
             \/ \E p \in same :
                  h' = [h EXCEPT ![s].pc = "format", ![s].net = n, ![s].nets = @ \ {n},
                                 ![s].port = p.id]
    /\ NoFault
    /\ UNCHANGED <<openstack, subnets, agents>>

UsedIds == {p.id : p \in ports \cup pending}

\* The id stands for the one Neutron will give the port.
CreatePort(s) ==
    /\ At(s, "create")
    /\ \E i \in 1..MaxPorts :
         /\ i \notin UsedIds /\ 1..(i - 1) \subseteq UsedIds
         /\ pending' = pending \cup {[id |-> i, host |-> h[s].host, net |-> h[s].net]}
         /\ h' = [h EXCEPT ![s].pc = "await", ![s].port = i]
    /\ NoFault
    /\ UNCHANGED <<on, ports, subnets, agents>>

\* Neutron executes a request, whether or not its client still waits.
ExecuteCreate ==
    /\ \E p \in pending : ports' = ports \cup {p} /\ pending' = pending \ {p}
    /\ NoFault
    /\ UNCHANGED <<on, subnets, h, agents>>

Created(s) ==
    /\ At(s, "await")
    /\ \E p \in ports : p.id = h[s].port
    /\ h' = [h EXCEPT ![s].pc = "format"]
    /\ NoFault
    /\ UNCHANGED <<openstack, subnets, agents>>

\* A create that fails: refused, or executed now or later with its answer lost.
CreateFails(s) ==
    /\ At(s, "await")
    /\ pending' \in {pending, {p \in pending : p.id # h[s].port}}
    /\ Refuse(s)
    /\ Fault
    /\ UNCHANGED <<on, ports, subnets>>

\* Mutant: a list of servers that fails is taken for an empty one.
CallFails_Empty(s) ==
    /\ At(s, "list")
    /\ h' = [h EXCEPT ![s].pc = "servers"]
    /\ Fault
    /\ UNCHANGED <<openstack, subnets, agents>>

\* Listing servers or searching a port fails.
CallFails(s) ==
    /\ At(s, "list") \/ (At(s, "ports") /\ h[s].nets # {})
    /\ Refuse(s)
    /\ Fault
    /\ UNCHANGED <<openstack, subnets>>

\* The prefix length is that of the subnet of the port in hand, which is in another
\* network if the ids of two agree in their first eight characters.  It comes from the
\* cache, from Neutron, or is taken to be 24.
Subnets(s) == {p.net : p \in {q \in ports : q.id = h[s].port}}

AddEndpoint(s, exact) ==
    h' = [h EXCEPT ![s].pc = "ports", ![s].net = NoNet, ![s].port = 0,
                   ![s].eps = @ \cup {[net |-> h[s].net, port |-> h[s].port, exact |-> exact]}]

\* Mutant: prefix lengths are not cached.
FormatPort_Uncached(s) ==
    /\ At(s, "format")
    /\ AddEndpoint(s, TRUE)
    /\ NoFault
    /\ UNCHANGED <<openstack, subnets, agents>>

FormatPort(s) ==
    /\ At(s, "format")
    /\ AddEndpoint(s, TRUE)
    /\ subnets' = subnets \cup Subnets(s)
    /\ NoFault
    /\ UNCHANGED <<openstack, agents>>

SubnetFails(s) ==
    /\ At(s, "format")
    /\ \E n \in Subnets(s) \ subnets : AddEndpoint(s, n \in Slash24)
    /\ Fault
    /\ UNCHANGED <<openstack, subnets, agents>>

Reply(s) ==
    /\ At(s, "ports") /\ h[s].nets = {}
    /\ \/ /\ h[s].live
          /\ resp' = [resp EXCEPT ![h[s].host] = [found |-> h[s].found, eps |-> h[s].eps]]
          /\ agent' = [agent EXCEPT ![h[s].host] = "reconcile"]
       \/ ~h[s].live /\ UNCHANGED <<resp, agent>>
    /\ h' = [h EXCEPT ![s] = Free]
    /\ NoFault
    /\ UNCHANGED <<openstack, subnets, targets, desired, attached, failed>>

-----------------------------------------------------------------------------
(* The agent applies the response.                                         *)

\* Of what was attached and is no longer asked for, what is in `desired` is removed
\* unless a command fails, which the manager ignores; the rest it does not know.
Kept(a) == LET stale == attached[a] \ NetsIn(resp[a].eps)
           IN  {L \in SUBSET stale : stale \ NetsIn(desired[a]) \subseteq L}

Reconcile(a) ==
    /\ agent[a] = "reconcile"
    /\ \E L \in Kept(a) : attached' = [attached EXCEPT ![a] = NetsIn(resp[a].eps) \cup L]
    /\ desired' = [desired EXCEPT ![a] = resp[a].eps]
    /\ failed' = [failed EXCEPT ![a] = FALSE]
    /\ agent' = [agent EXCEPT ![a] = "publish"]
    /\ NoFault
    /\ UNCHANGED <<openstack, subnets, h, resp, targets>>

\* The networks that stay attached during a reconcile: their ports are as the last one,
\* which succeeded, left them, and are asked for again (KeepsWanted of NetworkManager).
Steady(a) == IF failed[a] THEN {} ELSE NetsIn(desired[a] \cap resp[a].eps)

\* An error ends the reconcile; SyncOnce logs it and goes on.  What is not asked for is
\* untouched, and a port that replaces another may have broken it.
ReconcileFails(a) ==
    /\ agent[a] = "reconcile" /\ resp[a].eps # {}
    /\ \E S \in SUBSET NetsIn(resp[a].eps) :
         /\ Steady(a) \subseteq S
         /\ attached' = [attached EXCEPT ![a] = (@ \ NetsIn(resp[a].eps)) \cup S]
    /\ failed' = [failed EXCEPT ![a] = TRUE]
    /\ agent' = [agent EXCEPT ![a] = "publish"]
    /\ Fault
    /\ UNCHANGED <<openstack, subnets, h, resp, targets, desired>>

\* Mutant: an empty list of targets is taken for a failed discovery and ignored.
Publish_KeepsOnEmpty(a) ==
    /\ agent[a] = "publish"
    /\ targets' = [targets EXCEPT ![a] = IF resp[a].found = {} THEN @ ELSE resp[a].found]
    /\ agent' = [agent EXCEPT ![a] = "idle"]
    /\ resp' = [resp EXCEPT ![a] = NoResponse]
    /\ NoFault
    /\ UNCHANGED <<openstack, subnets, h, desired, attached, failed>>

Publish(a) ==
    /\ agent[a] = "publish"
    /\ targets' = [targets EXCEPT ![a] = resp[a].found]
    /\ agent' = [agent EXCEPT ![a] = "idle"]
    /\ resp' = [resp EXCEPT ![a] = NoResponse]
    /\ NoFault
    /\ UNCHANGED <<openstack, subnets, h, desired, attached, failed>>

-----------------------------------------------------------------------------
(* Restarts and the inventory.                                             *)

Restart == restarts < MaxRestarts /\ restarts' = restarts + 1 /\ UNCHANGED <<moves, faults>>

\* The agent keeps nothing on disk; what is attached stays attached.
RestartAgent(a) ==
    /\ h' = Abandoned(a)
    /\ agent' = [agent EXCEPT ![a] = "idle"]
    /\ resp' = [resp EXCEPT ![a] = NoResponse]
    /\ targets' = [targets EXCEPT ![a] = {}]
    /\ desired' = [desired EXCEPT ![a] = {}]
    /\ failed' = [failed EXCEPT ![a] = FALSE]
    /\ Restart
    /\ UNCHANGED <<openstack, subnets, attached>>

RestartControl ==
    /\ h' = [s \in Slots |-> Free]
    /\ subnets' = {}
    /\ agent' = [a \in Hosts |-> IF agent[a] = "waiting" THEN "idle" ELSE agent[a]]
    /\ Restart
    /\ UNCHANGED <<openstack, resp, targets, desired, attached, failed>>

\* A server is started, stopped or migrated.
Move ==
    /\ moves < MaxMoves
    /\ \E v \in VMs, x \in Hosts \cup {"off"} : x # on[v] /\ on' = [on EXCEPT ![v] = x]
    /\ moves' = moves + 1
    /\ UNCHANGED <<ports, pending, subnets, h, agents, faults, restarts>>

-----------------------------------------------------------------------------

Handle(s) ==
    \/ ListServers(s) \/ SkipServer(s) \/ AddTarget(s) \/ CollectNetworks(s)
    \/ FindPort(s) \/ CreatePort(s) \/ Created(s) \/ CreateFails(s) \/ CallFails(s)
    \/ FormatPort(s) \/ SubnetFails(s) \/ Reply(s)

Apply(a) == Reconcile(a) \/ ReconcileFails(a) \/ Publish(a)

Next ==
    \/ \E a \in Hosts : Send(a) \/ GiveUp(a) \/ Apply(a) \/ RestartAgent(a)
    \/ \E s \in Slots : Handle(s)
    \/ ExecuteCreate \/ RestartControl \/ Move

Spec == Init /\ [][Next]_vars

-----------------------------------------------------------------------------
(* Properties.                                                             *)

\* Every endpoint an agent has attached has a Neutron port that is bound to this very
\* host and has the endpoint's name, whichever handlers created or found it, abandoned
\* ones included.  Unless the ids of two networks agree in their first eight characters,
\* the name is the network's alone and the port is one of that very network.
EndpointsBound ==
    \A a \in Hosts : \A e \in desired[a] :
        \E p \in ports : p.id = e.port /\ p.host = a /\ Short[p.net] = Short[e.net]

\* After a sync whose reconcile succeeded, the endpoint of every target's network is in
\* place: the targets and the endpoints of a response fit together, skipped servers or
\* not.
TargetsReachable ==
    \A a \in Hosts : agent[a] = "idle" /\ ~failed[a] =>
        \A v \in targets[a] : Primary[v] \in attached[a]

\* gophercloud.go:230, README.md:58: one persistent host port per host and network.
OnePortPerNetwork ==
    \A p, q \in ports : p.host = q.host /\ p.net = q.net => p = q

\* Searching and creating a port are two calls, handlers of one host overlap when one is
\* abandoned, and a create may be executed long after.  Yet each lost answer or restart
\* leaves at most one port too many of any name, however many syncs follow; while there
\* is none, there is one port per host and network.
DuplicatesExplained ==
    \A a \in Hosts, n \in Nets :
        Cardinality({p \in ports : p.host = a /\ Short[p.net] = Short[n]})
            <= 1 + faults + restarts

\* Once an agent has the right prefix length of an endpoint it is never given the fallback
\* instead, which would add a second address to its interface.  (A Control Service that
\* restarts has lost its cache, and one failing call gives the fallback.)
PrefixKept ==
    [][restarts = 0 => \A a \in Hosts : \A e \in desired[a], f \in desired'[a] :
                          e.net = f.net /\ e.port = f.port /\ e.exact => f.exact]_vars

\* What an agent of this host should end with (Deployment): its GPU servers.
Wanted(a) == {v \in GPU : on[v] = a /\ Primary[v] # NoNet}
=============================================================================
