--------------------------- MODULE HostSync_proofs ---------------------------
(***************************************************************************)
(* Proofs about HostSync for every set of hosts, servers and networks and  *)
(* any number of handlers, faults and restarts.  A handler that waits for  *)
(* a create owns the port it asked for (AwaitApart), the networks of the   *)
(* targets it found are done, in hand or to do (HandlerOK), and an agent   *)
(* that has reconciled has attached the networks it is about to publish    *)
(* targets for (AgentOK).  Only one handler of a host has a waiting client *)
(* (OneWaits), and a length an agent has from Neutron is in the cache that *)
(* every later handler of its host asks first (Prefixes).  Ports of one    *)
(* name are counted with the handlers that may yet create one (Counted).   *)
(***************************************************************************)
EXTENDS HostSync, FiniteSetTheorems, TLAPS

PortOf(x) == [id |-> x.port, host |-> x.host, net |-> x.net]

\* The port of this id is bound to the host and has the name of the network.
Named(i, a, n) == \E p \in ports : p.id = i /\ p.host = a /\ Short[p.net] = Short[n]

Bound(a, eps) == \A e \in eps : Named(e.port, a, e.net)

InHand == {"create", "await", "format"}

\* What a handler's locals have to do with Neutron's ports and with each other.
HandlerOK(x) ==
    /\ x.pc # "free" => x.host \in Hosts
    /\ x.pc \in InHand => x.net \in Nets
    /\ x.pc = "await" => PortOf(x) \in ports \cup pending
    /\ x.pc = "format" => x.port \in 1..MaxPorts /\ Named(x.port, x.host, x.net)
    /\ Bound(x.host, x.eps)
    /\ \A v \in x.found : Primary[v] # NoNet
    /\ x.pc = "ports" =>
           \A v \in x.found : NetsOf[v] \subseteq NetsIn(x.eps) \cup x.nets
    /\ x.pc \in InHand =>
           \A v \in x.found : NetsOf[v] \subseteq NetsIn(x.eps) \cup x.nets \cup {x.net}

HandlersOK == \A s \in Slots : HandlerOK(h[s])

AwaitApart ==
    \A s, t \in Slots :
        h[s].pc = "await" /\ h[t].pc = "await" /\ h[s].port = h[t].port => s = t

UniqueIds == \A p, q \in ports \cup pending : p.id = q.id => p = q

AgentOK(a) ==
    /\ Bound(a, resp[a].eps) /\ Bound(a, desired[a])
    /\ \A v \in resp[a].found : Primary[v] \in NetsIn(resp[a].eps)
    /\ agent[a] = "publish" /\ ~failed[a] => NetsIn(resp[a].eps) \subseteq attached[a]
    /\ agent[a] # "publish" /\ ~failed[a] => \A v \in targets[a] : Primary[v] \in attached[a]

Inv ==
    /\ TypeOK
    /\ HandlersOK
    /\ AwaitApart
    /\ UniqueIds
    /\ \A a \in Hosts : AgentOK(a)

\* A handler whose client waits is the only one of its host's agent, which waits.
OneWaits ==
    /\ \A s \in Slots : h[s].live => h[s].host \in Hosts /\ agent[h[s].host] = "waiting"
    /\ \A s, t \in Slots :
           h[s].live /\ h[t].live /\ h[s].host = h[t].host => s = t

-----------------------------------------------------------------------------
(* Types of records, and steps that concern one handler only.              *)

LEMMA FreeOK == /\ Free \in Handler /\ HandlerOK(Free)
                /\ Free.pc = "free" /\ Free.eps = {} /\ Free.found = {}
  BY LimitsAssumption DEF Free, Handler, HandlerOK, Bound, Named, InHand

LEMMA NetsInAdd == ASSUME NEW S, NEW e PROVE NetsIn(S \cup {e}) = NetsIn(S) \cup {e.net}
  BY DEF NetsIn

LEMMA NoResponseTyped == NoResponse \in Response /\ NoResponse.eps = {} /\ NoResponse.found = {}
  BY DEF NoResponse, Response

LEMMA CountersTyped == ASSUME TypeOK, NoFault \/ Fault \/ Restart
                       PROVE  /\ moves' \in 0..MaxMoves /\ faults' \in 0..MaxFaults
                              /\ restarts' \in 0..MaxRestarts
  BY LimitsAssumption DEF TypeOK, NoFault, Fault, Restart, counters

LEMMA InitInv == Init => Inv
<1> SUFFICES ASSUME Init PROVE Inv
  OBVIOUS
<1>1. TypeOK
  BY FreeOK, NoResponseTyped, LimitsAssumption DEF Init, TypeOK
<1>2. HandlersOK /\ AwaitApart /\ UniqueIds
  BY FreeOK DEF Init, HandlersOK, AwaitApart, UniqueIds
<1>3. \A a \in Hosts : AgentOK(a)
  BY NoResponseTyped DEF Init, AgentOK, Bound, Named
<1> QED
  BY <1>1, <1>2, <1>3 DEF Inv

LEMMA Untouched ==
    ASSUME NEW t \in Slots, HandlerOK(h[t]), h'[t] = h[t], ports' = ports, pending' = pending
    PROVE  HandlerOK(h[t])'
  BY DEF HandlerOK, InHand, Bound, Named, PortOf

\* What agents rely on survives when ports are added and agents do nothing.
LEMMA AgentsKept ==
    ASSUME Inv, UNCHANGED agents, ports \subseteq ports'
    PROVE  \A a \in Hosts : AgentOK(a)'
  BY DEF Inv, agents, AgentOK, Bound, Named

\* A handler's new locals are in order, and nothing else has changed.
LEMMA HandlerStep ==
    ASSUME Inv, NEW s \in Slots, NEW x \in Handler, h' = [h EXCEPT ![s] = x],
           UNCHANGED <<openstack, agents>>, subnets' \subseteq Nets, NoFault \/ Fault,
           x.pc # "await", HandlerOK(x)
    PROVE  Inv'
<1> USE DEF Inv, openstack
<1>1. HandlerOK(x)'
  BY DEF HandlerOK, PortOf, Bound, Named
<1>2. HandlersOK'
  <2> SUFFICES ASSUME NEW t \in Slots, t # s PROVE HandlerOK(h[t])'
    BY <1>1 DEF HandlersOK, TypeOK
  <2>1. h'[t] = h[t] /\ HandlerOK(h[t])
    BY DEF HandlersOK, TypeOK
  <2> QED
    BY <2>1 DEF HandlerOK, PortOf, Bound, Named
<1>3. TypeOK'
  BY <1>1, CountersTyped DEF TypeOK, agents, HandlerOK
<1>4. AwaitApart' /\ UniqueIds'
  BY DEF AwaitApart, UniqueIds, TypeOK
<1> QED
  BY <1>2, <1>3, <1>4, AgentsKept

-----------------------------------------------------------------------------
(* The steps of a handler.                                                 *)

LEMMA ListServersInv == ASSUME Inv, NEW s \in Slots, ListServers(s) PROVE Inv'
<1> DEFINE S == {v \in VMs : on[v] = h[s].host}
<1> DEFINE x == [h[s] EXCEPT !.pc = "servers", !.todo = S]
<1>1. h[s] \in Handler /\ HandlerOK(h[s]) /\ h[s].pc = "list"
  BY DEF Inv, TypeOK, HandlersOK, ListServers, At
<1>2. /\ x \in Handler /\ x.pc = "servers" /\ x.host = h[s].host /\ x.found = h[s].found
      /\ x.eps = h[s].eps
  BY <1>1 DEF Handler
<1>3. HandlerOK(x)
  BY <1>1, <1>2 DEF HandlerOK, InHand, Bound, Named
<1>4. h' = [h EXCEPT ![s] = x]
  BY DEF ListServers, Inv, TypeOK
<1> QED
  BY <1>2, <1>3, <1>4, HandlerStep DEF ListServers, Inv, TypeOK

LEMMA SkipServerInv == ASSUME Inv, NEW s \in Slots, SkipServer(s) PROVE Inv'
<1> PICK v \in h[s].todo : /\ h' = [h EXCEPT ![s].todo = @ \ {v}]
                           /\ NoFault \/ Fault
  BY DEF SkipServer
<1> DEFINE x == [h[s] EXCEPT !.todo = @ \ {v}]
<1>1. h[s] \in Handler /\ HandlerOK(h[s]) /\ h[s].pc = "servers"
  BY DEF Inv, TypeOK, HandlersOK, SkipServer, At
<1>2. /\ x \in Handler /\ x.pc = "servers" /\ x.host = h[s].host /\ x.found = h[s].found
      /\ x.eps = h[s].eps
  BY <1>1 DEF Handler
<1>3. HandlerOK(x)
  BY <1>1, <1>2 DEF HandlerOK, InHand, Bound, Named
<1>4. h' = [h EXCEPT ![s] = x]
  BY DEF Inv, TypeOK
<1> QED
  BY <1>2, <1>3, <1>4, HandlerStep DEF SkipServer, Inv, TypeOK

LEMMA AddTargetInv == ASSUME Inv, NEW s \in Slots, AddTarget(s) PROVE Inv'
<1> PICK v \in h[s].todo \cap GPU :
        /\ Primary[v] # NoNet
        /\ h' = [h EXCEPT ![s].todo = @ \ {v}, ![s].found = @ \cup {v}]
  BY DEF AddTarget
<1> DEFINE x == [h[s] EXCEPT !.todo = @ \ {v}, !.found = @ \cup {v}]
<1>1. h[s] \in Handler /\ HandlerOK(h[s]) /\ h[s].pc = "servers"
  BY DEF Inv, TypeOK, HandlersOK, AddTarget, At
<1>2. /\ x \in Handler /\ x.pc = "servers" /\ x.host = h[s].host /\ x.eps = h[s].eps
      /\ x.found = h[s].found \cup {v}
  BY <1>1 DEF Handler
<1>3. HandlerOK(x)
  BY <1>1, <1>2 DEF HandlerOK, InHand, Bound, Named
<1>4. h' = [h EXCEPT ![s] = x]
  BY DEF Inv, TypeOK
<1> QED
  BY <1>2, <1>3, <1>4, HandlerStep DEF AddTarget, Inv, TypeOK

LEMMA CollectNetworksInv == ASSUME Inv, NEW s \in Slots, CollectNetworks(s) PROVE Inv'
<1> DEFINE N == UNION {NetsOf[v] : v \in h[s].found}
<1> DEFINE x == [h[s] EXCEPT !.pc = "ports", !.nets = N]
<1>1. h[s] \in Handler /\ HandlerOK(h[s]) /\ h[s].pc = "servers"
  BY DEF Inv, TypeOK, HandlersOK, CollectNetworks, At
<1>2. N \in SUBSET Nets
  BY <1>1, InventoryAssumption DEF Handler
<1>3. /\ x \in Handler /\ x.pc = "ports" /\ x.host = h[s].host /\ x.eps = h[s].eps
      /\ x.found = h[s].found /\ x.nets = N
  BY <1>1, <1>2 DEF Handler
<1>4. HandlerOK(x)
  BY <1>1, <1>3 DEF HandlerOK, InHand, Bound, Named
<1>5. h' = [h EXCEPT ![s] = x]
  BY DEF CollectNetworks, Inv, TypeOK
<1> QED
  BY <1>3, <1>4, <1>5, HandlerStep DEF CollectNetworks, Inv, TypeOK

\* The port found has the name of this host and network.
LEMMA FindPortInv == ASSUME Inv, NEW s \in Slots, FindPort(s) PROVE Inv'
<1>1. h[s] \in Handler /\ HandlerOK(h[s]) /\ h[s].pc = "ports" /\ h[s].host \in Hosts
  BY DEF Inv, TypeOK, HandlersOK, FindPort, At, HandlerOK
<1>a. First(h[s].nets) \subseteq h[s].nets
  BY DEF First
<1>2. ASSUME NEW n \in h[s].nets,
             h' = [h EXCEPT ![s].pc = "create", ![s].net = n, ![s].nets = @ \ {n}]
      PROVE  Inv'
  <2> DEFINE x == [h[s] EXCEPT !.pc = "create", !.net = n, !.nets = @ \ {n}]
  <2>1. /\ x \in Handler /\ x.pc = "create" /\ x.host = h[s].host /\ x.eps = h[s].eps
        /\ x.found = h[s].found /\ x.nets = h[s].nets \ {n} /\ x.net = n /\ n \in Nets
    BY <1>1 DEF Handler
  <2>2. HandlerOK(x)
    BY <1>1, <2>1 DEF HandlerOK, InHand, Bound, Named
  <2>3. h' = [h EXCEPT ![s] = x]
    BY <1>2 DEF Inv, TypeOK
  <2> QED
    BY <2>1, <2>2, <2>3, HandlerStep DEF FindPort, Inv, TypeOK
<1>3. ASSUME NEW n \in h[s].nets, NEW p \in ports, Name(p.host, p.net) = Name(h[s].host, n),
             h' = [h EXCEPT ![s].pc = "format", ![s].net = n, ![s].nets = @ \ {n},
                            ![s].port = p.id]
      PROVE  Inv'
  <2> DEFINE x == [h[s] EXCEPT !.pc = "format", !.net = n, !.nets = @ \ {n}, !.port = p.id]
  <2>1. p \in Port /\ p.id \in 1..MaxPorts /\ p.host \in Hosts /\ p.net \in Nets
        /\ p = [id |-> p.id, host |-> p.host, net |-> p.net] /\ p.id \in 0..MaxPorts
    BY LimitsAssumption DEF Inv, TypeOK, Port
  <2>2. /\ x \in Handler /\ x.pc = "format" /\ x.host = h[s].host /\ x.eps = h[s].eps
        /\ x.found = h[s].found /\ x.nets = h[s].nets \ {n} /\ x.net = n /\ n \in Nets
        /\ x.port = p.id
    BY <1>1, <2>1 DEF Handler
  <2>3. Named(x.port, x.host, x.net)
    BY <1>1, <1>3, <2>1, <2>2 DEF Name, Named
  <2>4. HandlerOK(x)
    BY <1>1, <2>1, <2>2, <2>3 DEF HandlerOK, InHand, Bound, Named
  <2>5. h' = [h EXCEPT ![s] = x]
    BY <1>3 DEF Inv, TypeOK
  <2> QED
    BY <2>2, <2>4, <2>5, HandlerStep DEF FindPort, Inv, TypeOK
<1> QED
  BY <1>a, <1>2, <1>3 DEF FindPort

LEMMA CreatedInv == ASSUME Inv, NEW s \in Slots, Created(s) PROVE Inv'
<1> DEFINE x == [h[s] EXCEPT !.pc = "format"]
<1>1. h[s] \in Handler /\ HandlerOK(h[s]) /\ h[s].pc = "await"
  BY DEF Inv, TypeOK, HandlersOK, Created, At
<1>2. /\ x \in Handler /\ x.pc = "format" /\ x.host = h[s].host /\ x.eps = h[s].eps
      /\ x.found = h[s].found /\ x.nets = h[s].nets /\ x.net = h[s].net /\ x.port = h[s].port
  BY <1>1 DEF Handler
<1>3. PICK p \in ports : p.id = h[s].port
  BY DEF Created
<1>4. PortOf(h[s]) = p /\ p.id \in 1..MaxPorts
  BY <1>1, <1>3 DEF HandlerOK, PortOf, Inv, UniqueIds, TypeOK, Port
<1>5. Named(x.port, x.host, x.net)
  BY <1>2, <1>3, <1>4 DEF PortOf, Named
<1>6. HandlerOK(x)
  BY <1>1, <1>2, <1>3, <1>4, <1>5 DEF HandlerOK, InHand, Bound, Named
<1>7. h' = [h EXCEPT ![s] = x]
  BY DEF Created, Inv, TypeOK
<1> QED
  BY <1>2, <1>6, <1>7, HandlerStep DEF Created, Inv, TypeOK

LEMMA AddEndpointInv ==
    ASSUME Inv, NEW s \in Slots, At(s, "format"), NEW exact \in BOOLEAN, AddEndpoint(s, exact),
           UNCHANGED <<openstack, agents>>, subnets' \subseteq Nets, NoFault \/ Fault
    PROVE  Inv'
<1>1. h[s] \in Handler /\ HandlerOK(h[s]) /\ h[s].pc = "format"
  BY DEF Inv, TypeOK, HandlersOK, At
<1> DEFINE ep == [net |-> h[s].net, port |-> h[s].port, exact |-> exact]
<1> DEFINE E == h[s].eps \cup {ep}
<1> DEFINE x == [h[s] EXCEPT !.pc = "ports", !.net = NoNet, !.port = 0, !.eps = E]
<1>2. ep \in Endpoint /\ ep.net = h[s].net /\ ep.port = h[s].port
  BY <1>1 DEF HandlerOK, InHand, Endpoint
<1>3. E \in SUBSET Endpoint
  BY <1>1, <1>2 DEF Handler
<1>4. Bound(h[s].host, E)
  BY <1>1, <1>2 DEF HandlerOK, Bound
<1>5. NetsIn(E) = NetsIn(h[s].eps) \cup {h[s].net}
  BY <1>2, NetsInAdd
<1>6. /\ x \in Handler /\ x.pc = "ports" /\ x.host = h[s].host /\ x.eps = E
      /\ x.found = h[s].found /\ x.nets = h[s].nets
  <2>1. 0 \in 0..MaxPorts
    BY LimitsAssumption
  <2> HIDE DEF E
  <2> QED
    BY <1>1, <1>3, <2>1 DEF Handler
<1>7. HandlerOK(x)
  BY <1>1, <1>4, <1>5, <1>6 DEF HandlerOK, InHand
<1>8. h' = [h EXCEPT ![s] = x]
  BY DEF AddEndpoint, Inv, TypeOK
<1> QED
  BY <1>6, <1>7, <1>8, HandlerStep

LEMMA FormatInv == ASSUME Inv, NEW s \in Slots, FormatPort(s) \/ SubnetFails(s) PROVE Inv'
<1>1. At(s, "format") /\ UNCHANGED <<openstack, agents>> /\ (NoFault \/ Fault)
  BY DEF FormatPort, SubnetFails
<1>2. subnets' \subseteq Nets
  <2>1. subnets \subseteq Nets /\ Subnets(s) \subseteq Nets
    BY DEF Subnets, Inv, TypeOK, Port
  <2>2. subnets' = subnets \/ subnets' = subnets \cup Subnets(s)
    BY DEF FormatPort, SubnetFails
  <2> QED
    BY <2>1, <2>2
<1>3. CASE AddEndpoint(s, TRUE)
  BY <1>1, <1>2, <1>3, AddEndpointInv
<1>4. CASE \E n \in Subnets(s) : AddEndpoint(s, n \in Slash24)
  <2> PICK n \in Subnets(s) : AddEndpoint(s, n \in Slash24)
    BY <1>4
  <2>1. (n \in Slash24) \in BOOLEAN
    OBVIOUS
  <2> QED
    BY <1>1, <1>2, <2>1, AddEndpointInv
<1> QED
  BY <1>3, <1>4 DEF FormatPort, SubnetFails

\* The agents' part of a step in which one agent gets other locals.
LEMMA AgentStep ==
    ASSUME Inv, NEW a \in Hosts, ports' = ports, AgentOK(a)',
           \A b \in Hosts \ {a} : /\ agent'[b] = agent[b] /\ resp'[b] = resp[b]
                                 /\ targets'[b] = targets[b] /\ desired'[b] = desired[b]
                                 /\ attached'[b] = attached[b] /\ failed'[b] = failed[b]
    PROVE  \A b \in Hosts : AgentOK(b)'
<1> SUFFICES ASSUME NEW b \in Hosts \ {a} PROVE AgentOK(b)'
  OBVIOUS
<1> QED
  BY DEF Inv, AgentOK, Bound, Named

\* The handlers' part of a step in which handlers are freed or lose their clients.
LEMMA Dismissed ==
    ASSUME Inv, ports' = ports, pending' = pending,
           h' \in [Slots -> Handler],
           \A s \in Slots : \/ h'[s] = Free
                           \/ h'[s] = h[s]
                           \/ h'[s] = [h[s] EXCEPT !.live = FALSE]
    PROVE  HandlersOK' /\ AwaitApart' /\ UniqueIds'
<1>1. ASSUME NEW s \in Slots PROVE HandlerOK(h[s])' /\ (h'[s].pc = "await" =>
                                     h[s].pc = "await" /\ h'[s].port = h[s].port)
  <2>1. h[s] \in Handler /\ HandlerOK(h[s])
    BY DEF Inv, TypeOK, HandlersOK
  <2>2. CASE h'[s] = Free
    BY <2>2, FreeOK DEF HandlerOK, InHand, Bound, Named, PortOf
  <2>3. CASE h'[s] = h[s]
    BY <2>1, <2>3 DEF HandlerOK, InHand, Bound, Named, PortOf
  <2>4. CASE h'[s] = [h[s] EXCEPT !.live = FALSE]
    <3>1. /\ h'[s].pc = h[s].pc /\ h'[s].host = h[s].host /\ h'[s].net = h[s].net
          /\ h'[s].port = h[s].port /\ h'[s].eps = h[s].eps /\ h'[s].found = h[s].found
          /\ h'[s].nets = h[s].nets
      BY <2>1, <2>4 DEF Handler
    <3> QED
      BY <2>1, <3>1 DEF HandlerOK, InHand, Bound, Named, PortOf
  <2> QED
    BY <2>2, <2>3, <2>4
<1>2. HandlersOK'
  BY <1>1 DEF HandlersOK
<1>3. AwaitApart'
  BY <1>1 DEF AwaitApart, Inv
<1>4. UniqueIds'
  BY DEF UniqueIds, Inv
<1> QED
  BY <1>2, <1>3, <1>4

LEMMA AbandonedTyped ==
    ASSUME TypeOK, NEW a \in Hosts
    PROVE  /\ Abandoned(a) \in [Slots -> Handler]
           /\ \A s \in Slots : /\ \/ Abandoned(a)[s] = h[s]
                                 \/ Abandoned(a)[s] = [h[s] EXCEPT !.live = FALSE]
                              /\ Abandoned(a)[s].pc = h[s].pc
                              /\ Abandoned(a)[s].host = h[s].host
<1>1. ASSUME NEW s \in Slots
      PROVE  /\ [h[s] EXCEPT !.live = FALSE] \in Handler
             /\ [h[s] EXCEPT !.live = FALSE].pc = h[s].pc
             /\ [h[s] EXCEPT !.live = FALSE].host = h[s].host
  <2>1. h[s] \in Handler
    BY DEF TypeOK
  <2> QED
    BY <2>1 DEF Handler
<1> QED
  BY <1>1 DEF Abandoned, TypeOK

LEMMA GiveUpInv == ASSUME Inv, NEW a \in Hosts, GiveUp(a) PROVE Inv'
<1> USE DEF GiveUp, openstack
<1>1. TypeOK'
  BY AbandonedTyped, CountersTyped DEF Inv, TypeOK
<1>2. HandlersOK' /\ AwaitApart' /\ UniqueIds'
  BY AbandonedTyped, Dismissed DEF Inv
<1>3. \A b \in Hosts : AgentOK(b)'
  <2>1. AgentOK(a)'
    BY DEF Inv, AgentOK, Bound, Named, TypeOK
  <2> QED
    BY <2>1, AgentStep DEF Inv, TypeOK
<1> QED
  BY <1>1, <1>2, <1>3 DEF Inv

LEMMA RestartAgentInv == ASSUME Inv, NEW a \in Hosts, RestartAgent(a) PROVE Inv'
<1> USE DEF RestartAgent, openstack
<1>1. TypeOK'
  BY AbandonedTyped, CountersTyped, NoResponseTyped DEF Inv, TypeOK
<1>2. HandlersOK' /\ AwaitApart' /\ UniqueIds'
  BY AbandonedTyped, Dismissed DEF Inv
<1>3. \A b \in Hosts : AgentOK(b)'
  <2>1. AgentOK(a)'
    BY NoResponseTyped DEF Inv, AgentOK, Bound, Named, TypeOK
  <2> QED
    BY <2>1, AgentStep DEF Inv, TypeOK
<1> QED
  BY <1>1, <1>2, <1>3 DEF Inv

LEMMA RestartControlInv == ASSUME Inv, RestartControl PROVE Inv'
<1> USE DEF RestartControl, openstack
<1>1. h' \in [Slots -> Handler] /\ \A s \in Slots : h'[s] = Free
  BY FreeOK
<1>2. TypeOK'
  BY <1>1, FreeOK, CountersTyped DEF Inv, TypeOK
<1>3. HandlersOK' /\ AwaitApart' /\ UniqueIds'
  BY <1>1, Dismissed
<1>4. \A a \in Hosts : AgentOK(a)'
  BY DEF Inv, AgentOK, Bound, Named, TypeOK
<1> QED
  BY <1>2, <1>3, <1>4 DEF Inv

LEMMA MoveInv == ASSUME Inv, Move PROVE Inv'
<1> USE DEF Move
<1>1. TypeOK'
  <2>1. moves' \in 0..MaxMoves
    BY LimitsAssumption DEF Inv, TypeOK
  <2>2. on' \in [VMs -> Hosts \cup {"off"}]
    BY DEF Inv, TypeOK
  <2> QED
    BY <2>1, <2>2 DEF Inv, TypeOK, agents
<1>2. HandlersOK' /\ AwaitApart' /\ UniqueIds'
  BY Dismissed DEF Inv, TypeOK
<1> QED
  BY <1>1, <1>2, AgentsKept DEF Inv

LEMMA SendInv == ASSUME Inv, NEW a \in Hosts, Send(a) PROVE Inv'
<1> PICK s \in Slots :
        h' = [h EXCEPT ![s] = [Free EXCEPT !.pc = "list", !.host = a, !.live = TRUE]]
  BY DEF Send
<1> DEFINE x == [Free EXCEPT !.pc = "list", !.host = a, !.live = TRUE]
<1> USE DEF Send, openstack
<1>1. /\ x \in Handler /\ x.pc = "list" /\ x.host = a /\ x.eps = {} /\ x.found = {}
  BY FreeOK DEF Handler
<1>2. HandlerOK(x)'
  BY <1>1 DEF HandlerOK, InHand, Bound, Named
<1> HIDE DEF x
<1>3. h' = [h EXCEPT ![s] = x]
  BY DEF x
<1>4. TypeOK'
  BY <1>1, <1>3, CountersTyped DEF Inv, TypeOK
<1>5. ASSUME NEW t \in Slots, t # s PROVE HandlerOK(h[t])' /\ h'[t] = h[t]
  <2>1. h'[t] = h[t] /\ HandlerOK(h[t])
    BY <1>3, <1>5 DEF Inv, TypeOK, HandlersOK
  <2>2. ports' = ports /\ pending' = pending
    OBVIOUS
  <2>3. HandlerOK(h[t])'
    BY <2>1, <2>2, Untouched
  <2> QED
    BY <2>1, <2>3
<1>6. h'[s] = x
  BY <1>3 DEF Inv, TypeOK
<1>7. HandlersOK'
  BY <1>2, <1>5, <1>6 DEF HandlersOK
<1>8. AwaitApart' /\ UniqueIds'
  BY <1>1, <1>5, <1>6 DEF AwaitApart, UniqueIds, Inv
<1>9. \A b \in Hosts : AgentOK(b)'
  <2>1. AgentOK(a)'
    BY DEF Inv, AgentOK, Bound, Named, TypeOK
  <2> QED
    BY <2>1, AgentStep DEF Inv, TypeOK
<1> QED
  BY <1>4, <1>7, <1>8, <1>9 DEF Inv

\* A handler that answers with an error, to an agent that waits or to none.
LEMMA RefuseStep ==
    ASSUME Inv, OneWaits, NEW s \in Slots, Refuse(s)
    PROVE  /\ h' \in [Slots -> Handler] /\ h'[s] = Free /\ \A t \in Slots \ {s} : h'[t] = h[t]
           /\ agent' \in [Hosts -> {"idle", "waiting", "reconcile", "publish"}]
           /\ ports' = ports => \A b \in Hosts : AgentOK(b)'
<1>1. h' \in [Slots -> Handler] /\ h'[s] = Free /\ \A t \in Slots \ {s} : h'[t] = h[t]
  BY FreeOK DEF Inv, TypeOK, Refuse
<1>2. /\ agent' \in [Hosts -> {"idle", "waiting", "reconcile", "publish"}]
      /\ \A b \in Hosts : agent'[b] = agent[b] \/ (agent'[b] = "idle" /\ agent[b] = "waiting")
  BY DEF Inv, TypeOK, Refuse, OneWaits
<1>3. UNCHANGED <<resp, targets, desired, attached, failed>>
  BY DEF Refuse
<1>4. ASSUME ports' = ports, NEW b \in Hosts PROVE AgentOK(b)'
  <2>1. AgentOK(b)
    BY DEF Inv
  <2> QED
    BY <1>2, <1>3, <1>4, <2>1 DEF AgentOK, Bound, Named
<1> QED
  BY <1>1, <1>2, <1>4

LEMMA CallFailsInv == ASSUME Inv, OneWaits, NEW s \in Slots, CallFails(s) PROVE Inv'
<1>1. /\ UNCHANGED <<openstack, subnets>> /\ Fault /\ Refuse(s)
      /\ UNCHANGED <<resp, targets, desired, attached, failed>>
  BY DEF CallFails, Refuse
<1>2. /\ h' \in [Slots -> Handler] /\ h'[s] = Free /\ \A t \in Slots \ {s} : h'[t] = h[t]
      /\ agent' \in [Hosts -> {"idle", "waiting", "reconcile", "publish"}]
      /\ \A b \in Hosts : AgentOK(b)'
  BY <1>1, RefuseStep DEF openstack
<1>3. TypeOK'
  BY <1>1, <1>2, FreeOK, CountersTyped DEF Inv, TypeOK, openstack
<1>4. HandlersOK' /\ AwaitApart' /\ UniqueIds'
  BY <1>1, <1>2, Dismissed DEF openstack
<1> QED
  BY <1>2, <1>3, <1>4 DEF Inv

\* The request that is dropped is the handler's own: no other handler awaits it.
LEMMA CreateFailsInv == ASSUME Inv, OneWaits, NEW s \in Slots, CreateFails(s) PROVE Inv'
<1>1. Refuse(s) /\ h[s].pc = "await"
  BY DEF CreateFails, At
<1>2. /\ UNCHANGED <<on, ports, subnets>> /\ Fault
      /\ UNCHANGED <<resp, targets, desired, attached, failed>>
  BY DEF CreateFails, Refuse
<1>3. pending' \subseteq pending /\ \A p \in pending : p.id # h[s].port => p \in pending'
  BY DEF CreateFails
<1>4. /\ h' \in [Slots -> Handler] /\ h'[s] = Free /\ \A t \in Slots \ {s} : h'[t] = h[t]
      /\ agent' \in [Hosts -> {"idle", "waiting", "reconcile", "publish"}]
      /\ \A b \in Hosts : AgentOK(b)'
  BY <1>1, <1>2, RefuseStep
<1>5. TypeOK'
  BY <1>2, <1>3, <1>4, FreeOK, CountersTyped DEF Inv, TypeOK
<1>6. ASSUME NEW t \in Slots, t # s PROVE HandlerOK(h[t])'
  <2>1. h'[t] = h[t] /\ HandlerOK(h[t]) /\ ports' = ports
    BY <1>2, <1>4, <1>6 DEF Inv, HandlersOK
  <2>2. h[t].pc = "await" => h[t].port # h[s].port
    BY <1>1, <1>6 DEF Inv, AwaitApart
  <2>3. h[t].pc = "await" => PortOf(h[t]) \in ports' \cup pending'
    BY <1>3, <2>1, <2>2 DEF HandlerOK, PortOf
  <2> QED
    BY <2>1, <2>3 DEF HandlerOK, InHand, Bound, Named, PortOf
<1>7. HandlerOK(h[s])'
  BY <1>4, FreeOK DEF HandlerOK, InHand, Bound, Named
<1>8. HandlersOK' /\ AwaitApart' /\ UniqueIds'
  <2>1. HandlersOK'
    BY <1>6, <1>7 DEF HandlersOK
  <2>2. AwaitApart'
    BY <1>4, FreeOK DEF Inv, AwaitApart
  <2>3. UniqueIds'
    BY <1>2, <1>3 DEF Inv, UniqueIds
  <2> QED
    BY <2>1, <2>2, <2>3
<1> QED
  BY <1>4, <1>5, <1>8 DEF Inv

\* Neutron gives every port an id of its own.
LEMMA CreatePortInv == ASSUME Inv, NEW s \in Slots, CreatePort(s) PROVE Inv'
<1>1. h[s] \in Handler /\ HandlerOK(h[s]) /\ h[s].pc = "create"
  BY DEF Inv, TypeOK, HandlersOK, CreatePort, At
<1>2. PICK i \in 1..MaxPorts :
          /\ i \notin UsedIds
          /\ pending' = pending \cup {[id |-> i, host |-> h[s].host, net |-> h[s].net]}
          /\ h' = [h EXCEPT ![s].pc = "await", ![s].port = i]
  BY DEF CreatePort
<1>3. UNCHANGED <<on, ports, subnets, agents>> /\ NoFault
  BY DEF CreatePort
<1> DEFINE p == [id |-> i, host |-> h[s].host, net |-> h[s].net]
<1> DEFINE x == [h[s] EXCEPT !.pc = "await", !.port = i]
<1>4. i \in 0..MaxPorts /\ p \in Port /\ p.id = i
  BY <1>1, LimitsAssumption DEF HandlerOK, InHand, Port
<1>5. /\ x \in Handler /\ x.pc = "await" /\ x.host = h[s].host /\ x.eps = h[s].eps
      /\ x.found = h[s].found /\ x.nets = h[s].nets /\ x.net = h[s].net /\ x.port = i
  BY <1>1, <1>4 DEF Handler
<1>6. PortOf(x) = p
  BY <1>5 DEF PortOf
<1>7. h' = [h EXCEPT ![s] = x]
  BY <1>2 DEF Inv, TypeOK
<1>8. pending' = pending \cup {p}
  BY <1>2
<1> HIDE DEF p, x
<1>9. h'[s] = x /\ \A t \in Slots \ {s} : h'[t] = h[t]
  BY <1>7 DEF Inv, TypeOK
<1>10. TypeOK'
  BY <1>1, <1>3, <1>4, <1>5, <1>7, <1>8, CountersTyped DEF Inv, TypeOK, agents, HandlerOK
<1>11. HandlersOK'
  <2>1. HandlerOK(h[s])'
    BY <1>1, <1>3, <1>5, <1>6, <1>8, <1>9 DEF HandlerOK, InHand, Bound, Named, PortOf
  <2>2. ASSUME NEW t \in Slots \ {s} PROVE HandlerOK(h[t])'
    <3>1. h'[t] = h[t] /\ HandlerOK(h[t])
      BY <1>9 DEF Inv, HandlersOK
    <3> QED
      BY <1>3, <1>8, <3>1 DEF HandlerOK, InHand, Bound, Named, PortOf
  <2> QED
    BY <2>1, <2>2 DEF HandlersOK
<1>12. UniqueIds'
  BY <1>2, <1>3, <1>4, <1>8 DEF Inv, UniqueIds, UsedIds
<1>13. AwaitApart'
  <2>1. ASSUME NEW t \in Slots \ {s}, h[t].pc = "await" PROVE h[t].port # i
    <3>1. PortOf(h[t]) \in ports \cup pending
      BY <2>1 DEF Inv, HandlersOK, HandlerOK
    <3>2. PortOf(h[t]).id = h[t].port
      BY DEF PortOf
    <3> QED
      BY <1>2, <3>1, <3>2 DEF UsedIds
  <2> QED
    BY <1>5, <1>9, <2>1 DEF Inv, AwaitApart
<1> QED
  BY <1>3, <1>10, <1>11, <1>12, <1>13, AgentsKept DEF Inv

LEMMA ExecuteCreateInv == ASSUME Inv, ExecuteCreate PROVE Inv'
<1>1. /\ ports \subseteq ports' /\ ports' \cup pending' = ports \cup pending
      /\ UNCHANGED <<on, subnets, h, agents>> /\ NoFault
  BY DEF ExecuteCreate
<1>2. TypeOK'
  BY <1>1, CountersTyped DEF Inv, TypeOK, agents
<1>3. HandlersOK'
  <2> SUFFICES ASSUME NEW s \in Slots PROVE HandlerOK(h[s])'
    BY DEF HandlersOK
  <2>1. h'[s] = h[s] /\ HandlerOK(h[s])
    BY <1>1 DEF Inv, HandlersOK
  <2> QED
    BY <1>1, <2>1 DEF HandlerOK, InHand, Bound, Named, PortOf
<1>4. AwaitApart' /\ UniqueIds'
  BY <1>1 DEF Inv, AwaitApart, UniqueIds
<1> QED
  BY <1>1, <1>2, <1>3, <1>4, AgentsKept DEF Inv

\* Every network of the answer is done, so every target's first one is among them.
LEMMA ReplyInv == ASSUME Inv, OneWaits, NEW s \in Slots, Reply(s) PROVE Inv'
<1>1. /\ h[s] \in Handler /\ HandlerOK(h[s]) /\ h[s].pc = "ports" /\ h[s].nets = {}
      /\ h[s].host \in Hosts
  BY DEF Inv, TypeOK, HandlersOK, Reply, At
<1>2. PICK a \in Hosts : a = h[s].host
  BY <1>1
<1> DEFINE r == [found |-> h[s].found, eps |-> h[s].eps]
<1>3. r \in Response /\ r.found = h[s].found /\ r.eps = h[s].eps
  BY <1>1 DEF Handler, Response
<1>4. \A v \in r.found : Primary[v] \in NetsIn(r.eps)
  BY <1>1, <1>3, InventoryAssumption DEF HandlerOK, Handler
<1>5. /\ \/ /\ h[s].live
            /\ resp' = [resp EXCEPT ![a] = r] /\ agent' = [agent EXCEPT ![a] = "reconcile"]
         \/ UNCHANGED <<resp, agent>>
      /\ h' = [h EXCEPT ![s] = Free] /\ NoFault
      /\ UNCHANGED <<openstack, subnets, targets, desired, attached, failed>>
  BY <1>2 DEF Reply
<1> HIDE DEF r
<1>6. h' \in [Slots -> Handler] /\ h'[s] = Free /\ \A t \in Slots \ {s} : h'[t] = h[t]
  BY <1>5, FreeOK DEF Inv, TypeOK
<1>7. TypeOK'
  <2>1. resp' \in [Hosts -> Response] /\ agent' \in [Hosts -> {"idle", "waiting", "reconcile", "publish"}]
    BY <1>3, <1>5 DEF Inv, TypeOK
  <2> QED
    BY <1>5, <1>6, <2>1, FreeOK, CountersTyped DEF Inv, TypeOK, openstack
<1>8. HandlersOK' /\ AwaitApart' /\ UniqueIds'
  BY <1>5, <1>6, Dismissed DEF openstack
<1>9. \/ /\ resp'[a] = r /\ agent'[a] = "reconcile" /\ agent[a] = "waiting"
         /\ \A b \in Hosts \ {a} : agent'[b] = agent[b] /\ resp'[b] = resp[b]
      \/ UNCHANGED <<resp, agent>>
  BY <1>1, <1>2, <1>5 DEF Inv, TypeOK, OneWaits
<1>10. AgentOK(a)'
  <2>1. Bound(a, r.eps)
    BY <1>1, <1>2, <1>3 DEF HandlerOK
  <2>2. AgentOK(a)
    BY DEF Inv
  <2> QED
    BY <1>4, <1>5, <1>9, <2>1, <2>2 DEF AgentOK, Bound, Named, openstack
<1>11. \A b \in Hosts : AgentOK(b)'
  BY <1>5, <1>9, <1>10, AgentStep DEF openstack
<1> QED
  BY <1>7, <1>8, <1>11 DEF Inv

-----------------------------------------------------------------------------
(* The steps of an agent.                                                  *)

\* A step of one agent that leaves the handlers and Neutron alone.
LEMMA LocalStep ==
    ASSUME Inv, UNCHANGED <<openstack, subnets, h>>, TypeOK', NEW a \in Hosts, AgentOK(a)',
           \A b \in Hosts \ {a} : /\ agent'[b] = agent[b] /\ resp'[b] = resp[b]
                                 /\ targets'[b] = targets[b] /\ desired'[b] = desired[b]
                                 /\ attached'[b] = attached[b] /\ failed'[b] = failed[b]
    PROVE  Inv'
<1>1. HandlersOK' /\ AwaitApart' /\ UniqueIds'
  BY Dismissed DEF Inv, TypeOK, openstack
<1>2. \A b \in Hosts : AgentOK(b)'
  BY AgentStep DEF openstack
<1> QED
  BY <1>1, <1>2 DEF Inv

LEMMA NetsTyped == ASSUME NEW eps \in SUBSET Endpoint PROVE NetsIn(eps) \subseteq Nets
  BY DEF NetsIn, Endpoint

LEMMA ReconcileInv == ASSUME Inv, NEW a \in Hosts, Reconcile(a) PROVE Inv'
<1> DEFINE N == NetsIn(resp[a].eps)
<1>1. PICK L \in Kept(a) : attached' = [attached EXCEPT ![a] = N \cup L]
  BY DEF Reconcile
<1>2. resp[a] \in Response /\ resp[a].eps \in SUBSET Endpoint /\ attached[a] \subseteq Nets
  BY DEF Inv, TypeOK, Response
<1>3. N \subseteq Nets /\ L \subseteq Nets
  BY <1>2, NetsTyped DEF Kept
<1> HIDE DEF N
<1>4. /\ desired' = [desired EXCEPT ![a] = resp[a].eps]
      /\ failed' = [failed EXCEPT ![a] = FALSE]
      /\ agent' = [agent EXCEPT ![a] = "publish"]
      /\ NoFault /\ UNCHANGED <<openstack, subnets, h, resp, targets>>
  BY DEF Reconcile
<1>5. TypeOK'
  BY <1>1, <1>2, <1>3, <1>4, CountersTyped DEF Inv, TypeOK, openstack
<1>6. AgentOK(a)'
  <2>1. /\ desired'[a] = resp[a].eps /\ agent'[a] = "publish" /\ attached'[a] = N \cup L
        /\ resp' = resp /\ ports' = ports
    BY <1>1, <1>4 DEF Inv, TypeOK, openstack
  <2>2. AgentOK(a)
    BY DEF Inv
  <2> QED
    BY <2>1, <2>2 DEF AgentOK, Bound, Named, N
<1> QED
  BY <1>1, <1>4, <1>5, <1>6, LocalStep DEF Inv, TypeOK

LEMMA ReconcileFailsInv == ASSUME Inv, NEW a \in Hosts, ReconcileFails(a) PROVE Inv'
<1>1. PICK S \in SUBSET NetsIn(resp[a].eps) :
        attached' = [attached EXCEPT ![a] = (@ \ NetsIn(resp[a].eps)) \cup S]
  BY DEF ReconcileFails
<1>2. resp[a] \in Response /\ resp[a].eps \in SUBSET Endpoint
  BY DEF Inv, TypeOK, Response
<1>3. S \subseteq Nets
  BY <1>2, NetsTyped
<1>4. /\ failed' = [failed EXCEPT ![a] = TRUE]
      /\ agent' = [agent EXCEPT ![a] = "publish"]
      /\ Fault /\ UNCHANGED <<openstack, subnets, h, resp, targets, desired>>
  BY DEF ReconcileFails
<1>5. TypeOK'
  BY <1>1, <1>3, <1>4, CountersTyped DEF Inv, TypeOK, openstack
<1>6. AgentOK(a)'
  <2>1. failed'[a] /\ UNCHANGED <<resp, desired, ports>> /\ AgentOK(a)
    BY <1>4 DEF Inv, TypeOK, openstack
  <2> QED
    BY <2>1 DEF AgentOK, Bound, Named
<1> QED
  BY <1>1, <1>4, <1>5, <1>6, LocalStep DEF Inv, TypeOK

LEMMA PublishInv == ASSUME Inv, NEW a \in Hosts, Publish(a) PROVE Inv'
<1>1. /\ agent[a] = "publish"
      /\ targets' = [targets EXCEPT ![a] = resp[a].found]
      /\ agent' = [agent EXCEPT ![a] = "idle"]
      /\ resp' = [resp EXCEPT ![a] = NoResponse]
      /\ NoFault /\ UNCHANGED <<openstack, subnets, h, desired, attached, failed>>
  BY DEF Publish
<1>2. resp[a].found \in SUBSET VMs
  BY DEF Inv, TypeOK, Response
<1>3. TypeOK'
  BY <1>1, <1>2, NoResponseTyped, CountersTyped DEF Inv, TypeOK, openstack
<1>4. AgentOK(a)'
  <2>1. targets'[a] = resp[a].found /\ agent'[a] = "idle" /\ resp'[a] = NoResponse
        /\ UNCHANGED <<desired, attached, failed, ports>> /\ AgentOK(a)
    BY <1>1 DEF Inv, TypeOK, openstack
  <2> QED
    BY <1>1, <2>1, NoResponseTyped DEF AgentOK, Bound, Named
<1> QED
  BY <1>1, <1>3, <1>4, LocalStep DEF Inv, TypeOK

-----------------------------------------------------------------------------
(* One handler with a waiting client per agent.                            *)

\* No handler gets a client or a host by a step that lets agents wait as they do.
LEMMA NoNewClient ==
    ASSUME OneWaits, agent' = agent,
           \A t \in Slots : h'[t].live => h[t].live /\ h'[t].host = h[t].host
    PROVE  OneWaits'
  BY DEF OneWaits

\* The agent of a handler stops waiting once that handler is gone.
LEMMA ClientServed ==
    ASSUME OneWaits, TypeOK, NEW s \in Slots, h'[s] = Free,
           \A t \in Slots \ {s} : h'[t] = h[t],
           \A b \in Hosts : (h[s].live /\ b = h[s].host) \/ agent'[b] = agent[b]
    PROVE  OneWaits'
  BY DEF OneWaits, Free

LEMMA OneWaitsHandle == ASSUME TypeOK, OneWaits, NEW s \in Slots, Handle(s) PROVE OneWaits'
<1>1. /\ h[s] \in Handler /\ h \in [Slots -> Handler]
      /\ agent \in [Hosts -> {"idle", "waiting", "reconcile", "publish"}]
  BY DEF TypeOK
<1>2. Free.live = FALSE
  BY DEF Free
<1> USE DEF agents
<1>4. CASE ListServers(s) \/ SkipServer(s) \/ AddTarget(s) \/ CollectNetworks(s)
  <2>1. agent' = agent
    BY <1>4 DEF ListServers, SkipServer, AddTarget, CollectNetworks
  <2>2. CASE ListServers(s) \/ CollectNetworks(s)
    BY <1>1, <2>1, <2>2, NoNewClient DEF Handler, ListServers, CollectNetworks
  <2>3. CASE SkipServer(s)
    BY <1>1, <2>1, <2>3, NoNewClient DEF Handler, SkipServer
  <2>4. CASE AddTarget(s)
    BY <1>1, <2>1, <2>4, NoNewClient DEF Handler, AddTarget
  <2> QED
    BY <1>4, <2>2, <2>3, <2>4
<1>5. CASE FindPort(s)
  BY <1>1, <1>5, NoNewClient DEF Handler, FindPort
<1>6. CASE CreatePort(s) \/ Created(s)
  BY <1>1, <1>6, NoNewClient DEF Handler, CreatePort, Created
<1>7. CASE FormatPort(s) \/ SubnetFails(s)
  BY <1>1, <1>7, NoNewClient DEF Handler, FormatPort, SubnetFails, AddEndpoint
<1>8. CASE CreateFails(s) \/ CallFails(s)
  BY <1>1, <1>8, ClientServed DEF CreateFails, CallFails, Refuse
<1>9. CASE Reply(s)
  BY <1>1, <1>9, ClientServed DEF Reply
<1> QED
  BY <1>4, <1>5, <1>6, <1>7, <1>8, <1>9 DEF Handle

LEMMA OneWaitsLeaves ==
    ASSUME TypeOK, OneWaits, NEW a \in Hosts, h' = Abandoned(a),
           \A b \in Hosts \ {a} : agent'[b] = agent[b]
    PROVE  OneWaits'
<1>1. ASSUME NEW t \in Slots, h'[t].live
      PROVE  h[t].live /\ h'[t].host = h[t].host /\ h[t].host # a
  <2>1. h[t] \in Handler
    BY DEF TypeOK
  <2> QED
    BY <1>1, <2>1 DEF Abandoned, Handler
<1> QED
  BY <1>1 DEF OneWaits

LEMMA OneWaitsAgent ==
    ASSUME TypeOK, OneWaits, NEW a \in Hosts, Send(a) \/ GiveUp(a) \/ Apply(a) \/ RestartAgent(a)
    PROVE  OneWaits'
<1>1. CASE Send(a)
  <2> PICK s \in Slots :
          h' = [h EXCEPT ![s] = [Free EXCEPT !.pc = "list", !.host = a, !.live = TRUE]]
    BY <1>1 DEF Send
  <2> DEFINE x == [Free EXCEPT !.pc = "list", !.host = a, !.live = TRUE]
  <2>1. x.host = a
    BY DEF Free
  <2> HIDE DEF x
  <2>2. h'[s] = x /\ \A t \in Slots \ {s} : h'[t] = h[t]
    BY DEF TypeOK, x
  <2>3. agent[a] = "idle" /\ agent' = [agent EXCEPT ![a] = "waiting"]
    BY <1>1 DEF Send
  <2>4. agent'[a] = "waiting" /\ \A b \in Hosts \ {a} : agent'[b] = agent[b]
    BY <2>3 DEF TypeOK
  <2>5. \A t \in Slots \ {s} : h[t].live => h[t].host # a
    BY <2>3 DEF OneWaits
  <2> QED
    BY <2>1, <2>2, <2>4, <2>5 DEF OneWaits
<1>2. CASE GiveUp(a) \/ RestartAgent(a)
  BY <1>2, OneWaitsLeaves DEF GiveUp, RestartAgent, TypeOK
<1>3. CASE Apply(a)
  <2>1. h' = h /\ agent[a] # "waiting" /\ \A b \in Hosts \ {a} : agent'[b] = agent[b]
    BY <1>3 DEF Apply, Reconcile, ReconcileFails, Publish, TypeOK
  <2> QED
    BY <2>1 DEF OneWaits
<1> QED
  BY <1>1, <1>2, <1>3

LEMMA OneWaitsStep == ASSUME TypeOK, OneWaits, [Next]_vars PROVE OneWaits'
<1>1. CASE \E a \in Hosts : Send(a) \/ GiveUp(a) \/ Apply(a) \/ RestartAgent(a)
  BY <1>1, OneWaitsAgent
<1>2. CASE \E s \in Slots : Handle(s)
  BY <1>2, OneWaitsHandle
<1>3. CASE ExecuteCreate \/ Move \/ UNCHANGED vars
  BY <1>3, NoNewClient DEF ExecuteCreate, Move, vars, agents
<1>4. CASE RestartControl
  BY <1>4 DEF RestartControl, OneWaits, Free
<1> QED
  BY <1>1, <1>2, <1>3, <1>4 DEF Next

-----------------------------------------------------------------------------
(* The invariants of the specification.                                    *)

LEMMA HandleInv == ASSUME Inv, OneWaits, NEW s \in Slots, Handle(s) PROVE Inv'
  BY ListServersInv, SkipServerInv, AddTargetInv, CollectNetworksInv, FindPortInv,
     CreatePortInv, CreatedInv, CreateFailsInv, CallFailsInv, FormatInv, ReplyInv DEF Handle

LEMMA AgentInv ==
    ASSUME Inv, NEW a \in Hosts, Send(a) \/ GiveUp(a) \/ Apply(a) \/ RestartAgent(a)
    PROVE  Inv'
  BY SendInv, GiveUpInv, ReconcileInv, ReconcileFailsInv, PublishInv, RestartAgentInv DEF Apply

LEMMA StutterInv == ASSUME Inv, UNCHANGED vars PROVE Inv'
<1>1. UNCHANGED <<on, ports, pending, subnets, h>> /\ UNCHANGED agents /\ UNCHANGED counters
  BY DEF vars, openstack, agents, counters
<1>2. TypeOK'
  BY <1>1 DEF Inv, TypeOK, agents, counters
<1>3. HandlersOK' /\ AwaitApart' /\ UniqueIds'
  BY <1>1, Dismissed DEF Inv, TypeOK
<1> QED
  BY <1>1, <1>2, <1>3, AgentsKept DEF Inv

LEMMA StepInv == ASSUME Inv, OneWaits, [Next]_vars PROVE Inv' /\ OneWaits'
<1>1. Inv'
  BY HandleInv, AgentInv, ExecuteCreateInv, RestartControlInv, MoveInv, StutterInv DEF Next
<1>2. OneWaits'
  BY OneWaitsStep DEF Inv
<1> QED
  BY <1>1, <1>2

LEMMA Invariance == Spec => [](Inv /\ OneWaits)
<1>1. Init => Inv /\ OneWaits
  BY InitInv DEF Init, OneWaits, Free
<1>2. Inv /\ OneWaits /\ [Next]_vars => (Inv /\ OneWaits)'
  BY StepInv
<1> QED
  BY <1>1, <1>2, PTL DEF Spec

\* Every variable keeps its type, for any number of hosts, handlers, faults and restarts.
THEOREM TypeCorrect == Spec => []TypeOK
<1>1. Inv /\ OneWaits => TypeOK
  BY DEF Inv
<1> QED
  BY <1>1, Invariance, PTL

\* After a reconcile that succeeded, HandleSync's targets and endpoints fit together on the
\* agent: the network of every target is attached, whatever failed or restarted before.
THEOREM TargetsAttached == Spec => []TargetsReachable
<1>1. Inv /\ OneWaits => TargetsReachable
  BY DEF Inv, AgentOK, TargetsReachable
<1> QED
  BY <1>1, Invariance, PTL

\* EnsureHostPorts: every endpoint an agent attached has a Neutron port that is bound to
\* its host and has its name, whatever ids the networks have, and however many abandoned
\* handlers create ports beside the one the agent waits for.
THEOREM EndpointsOwned == Spec => []EndpointsBound
<1>1. Inv /\ OneWaits => EndpointsBound
  BY DEF Inv, AgentOK, Bound, Named, EndpointsBound
<1> QED
  BY <1>1, Invariance, PTL

-----------------------------------------------------------------------------
(* Prefix lengths.                                                         *)

\* A length that is taken to be 24 is right for a /24, and any other that is right was
\* read from Neutron, so that it is in the cache for the network of the port.
Truthful(eps) ==
    \A e \in eps : \E p \in ports : /\ p.id = e.port
                                    /\ p.net \in Slash24 => e.exact
                                    /\ e.exact => p.net \in Slash24 \cup subnets

OnePerNet(eps) == \A e, f \in eps : e.net = f.net => e = f

\* What the endpoints of a newer list are compared with those of an older one.
NotWorse(old, new) ==
    \A e \in old, f \in new : e.net = f.net /\ e.port = f.port /\ e.exact => f.exact

\* A handler formats each network once.
HandlerPrefixes(x) ==
    /\ Truthful(x.eps) /\ OnePerNet(x.eps)
    /\ x.pc \in {"list", "servers"} => x.eps = {}
    /\ NetsIn(x.eps) \cap x.nets = {}
    /\ x.pc \in InHand => x.net \notin NetsIn(x.eps) \cup x.nets
    /\ x.live => NotWorse(desired[x.host], x.eps)

AgentPrefixes(a) ==
    /\ Truthful(resp[a].eps) /\ OnePerNet(resp[a].eps)
    /\ Truthful(desired[a]) /\ OnePerNet(desired[a])
    /\ NotWorse(desired[a], resp[a].eps)

Prefixes ==
    /\ \A s \in Slots : HandlerPrefixes(h[s])
    /\ \A a \in Hosts : AgentPrefixes(a)

PrefixInv == restarts = 0 => Prefixes

\* A step that touches no list of endpoints and leaves live handlers as they are.
LEMMA PrefixQuiet ==
    ASSUME Prefixes, UNCHANGED <<resp, desired, subnets>>, ports \subseteq ports',
           \A t \in Slots : \/ h'[t] = h[t]
                            \/ HandlerPrefixes(h[t])'
    PROVE  Prefixes'
<1>1. \A t \in Slots : HandlerPrefixes(h[t])'
  BY DEF Prefixes, HandlerPrefixes, Truthful
<1>2. \A a \in Hosts : AgentPrefixes(a)'
  BY DEF Prefixes, AgentPrefixes, Truthful
<1> QED
  BY <1>1, <1>2 DEF Prefixes

\* One handler gets other locals, and the cache may grow.
LEMMA PrefixLocal ==
    ASSUME Inv, Prefixes, NEW s \in Slots, NEW x, h' = [h EXCEPT ![s] = x],
           UNCHANGED <<ports, resp, desired>>, subnets \subseteq subnets', HandlerPrefixes(x)'
    PROVE  Prefixes'
<1>1. h'[s] = x /\ \A t \in Slots \ {s} : h'[t] = h[t]
  BY DEF Inv, TypeOK
<1>2. ASSUME NEW t \in Slots PROVE HandlerPrefixes(h[t])'
  <2>1. CASE t = s
    BY <1>1, <2>1 DEF HandlerPrefixes, Truthful
  <2>2. CASE t # s
    <3>1. h'[t] = h[t] /\ HandlerPrefixes(h[t])
      BY <1>1, <2>2 DEF Prefixes
    <3> QED
      BY <3>1 DEF HandlerPrefixes, Truthful
  <2> QED
    BY <2>1, <2>2
<1>3. ASSUME NEW a \in Hosts PROVE AgentPrefixes(a)'
  BY DEF Prefixes, AgentPrefixes, Truthful
<1> QED
  BY <1>2, <1>3 DEF Prefixes

\* A handler goes on without another endpoint.
LEMMA PrefixMove ==
    ASSUME Inv, Prefixes, NEW s \in Slots, NEW x, h' = [h EXCEPT ![s] = x],
           UNCHANGED <<ports, resp, desired, subnets>>,
           x.eps = h[s].eps, x.host = h[s].host, x.live = h[s].live,
           x.pc \in {"list", "servers"} => x.eps = {},
           NetsIn(x.eps) \cap x.nets = {},
           x.pc \in InHand => x.net \notin NetsIn(x.eps) \cup x.nets
    PROVE  Prefixes'
<1>1. HandlerPrefixes(h[s])
  BY DEF Prefixes
<1>2. HandlerPrefixes(x)'
  BY <1>1 DEF HandlerPrefixes, Truthful
<1> QED
  BY <1>2, PrefixLocal

LEMMA FreePrefixes == HandlerPrefixes(Free) /\ HandlerPrefixes(Free)'
  BY DEF HandlerPrefixes, Free, Truthful, OnePerNet, NetsIn, InHand

LEMMA ListServersPrefixes == ASSUME Inv, Prefixes, NEW s \in Slots, ListServers(s) PROVE Prefixes'
<1>1. h[s] \in Handler /\ HandlerPrefixes(h[s])
  BY DEF Inv, TypeOK, Prefixes
<1> USE DEF openstack, agents
<1> PICK x : x = [h[s] EXCEPT !.pc = "servers", !.todo = {v \in VMs : on[v] = h[s].host}]
  OBVIOUS
<1>2. h' = [h EXCEPT ![s] = x] /\ UNCHANGED <<ports, resp, desired, subnets>>
  BY DEF ListServers, Inv, TypeOK
<1>3. /\ x.eps = h[s].eps /\ x.host = h[s].host /\ x.live = h[s].live
      /\ h[s].pc = "list" /\ x.pc = "servers" /\ x.nets = h[s].nets
  BY <1>1 DEF Handler, ListServers, At
<1>4. /\ x.pc \in {"list", "servers"} => x.eps = {}
      /\ NetsIn(x.eps) \cap x.nets = {}
      /\ x.pc \in InHand => x.net \notin NetsIn(x.eps) \cup x.nets
  BY <1>1, <1>3 DEF HandlerPrefixes, InHand, NetsIn
<1> QED
  BY <1>2, <1>3, <1>4, PrefixMove

LEMMA SkipServerPrefixes == ASSUME Inv, Prefixes, NEW s \in Slots, SkipServer(s) PROVE Prefixes'
<1>1. h[s] \in Handler /\ HandlerPrefixes(h[s])
  BY DEF Inv, TypeOK, Prefixes
<1> USE DEF openstack, agents
<1>2. PICK v \in h[s].todo : h' = [h EXCEPT ![s].todo = @ \ {v}]
  BY DEF SkipServer
<1>3. PICK x : x = [h[s] EXCEPT !.todo = @ \ {v}]
  OBVIOUS
<1>4. h' = [h EXCEPT ![s] = x] /\ UNCHANGED <<ports, resp, desired, subnets>>
  BY <1>2, <1>3 DEF SkipServer, Inv, TypeOK
<1>5. /\ x.eps = h[s].eps /\ x.host = h[s].host /\ x.live = h[s].live
      /\ x.pc = h[s].pc /\ x.nets = h[s].nets /\ x.net = h[s].net
  BY <1>1, <1>3 DEF Handler, SkipServer, At
<1>6. /\ x.pc \in {"list", "servers"} => x.eps = {}
      /\ NetsIn(x.eps) \cap x.nets = {}
      /\ x.pc \in InHand => x.net \notin NetsIn(x.eps) \cup x.nets
  BY <1>1, <1>5 DEF HandlerPrefixes, InHand, NetsIn
<1> QED
  BY <1>4, <1>5, <1>6, PrefixMove

LEMMA AddTargetPrefixes == ASSUME Inv, Prefixes, NEW s \in Slots, AddTarget(s) PROVE Prefixes'
<1>1. h[s] \in Handler /\ HandlerPrefixes(h[s])
  BY DEF Inv, TypeOK, Prefixes
<1> USE DEF openstack, agents
<1>2. PICK v \in h[s].todo : h' = [h EXCEPT ![s].todo = @ \ {v}, ![s].found = @ \cup {v}]
  BY DEF AddTarget
<1>3. PICK x : x = [h[s] EXCEPT !.todo = @ \ {v}, !.found = @ \cup {v}]
  OBVIOUS
<1>4. h' = [h EXCEPT ![s] = x] /\ UNCHANGED <<ports, resp, desired, subnets>>
  BY <1>2, <1>3 DEF AddTarget, Inv, TypeOK
<1>5. /\ x.eps = h[s].eps /\ x.host = h[s].host /\ x.live = h[s].live
      /\ x.pc = h[s].pc /\ x.nets = h[s].nets /\ x.net = h[s].net
  BY <1>1, <1>3 DEF Handler, AddTarget, At
<1>6. /\ x.pc \in {"list", "servers"} => x.eps = {}
      /\ NetsIn(x.eps) \cap x.nets = {}
      /\ x.pc \in InHand => x.net \notin NetsIn(x.eps) \cup x.nets
  BY <1>1, <1>5 DEF HandlerPrefixes, InHand, NetsIn
<1> QED
  BY <1>4, <1>5, <1>6, PrefixMove

LEMMA CollectNetworksPrefixes == ASSUME Inv, Prefixes, NEW s \in Slots, CollectNetworks(s) PROVE Prefixes'
<1>1. h[s] \in Handler /\ HandlerPrefixes(h[s])
  BY DEF Inv, TypeOK, Prefixes
<1> USE DEF openstack, agents
<1> PICK x : x = [h[s] EXCEPT !.pc = "ports", !.nets = UNION {NetsOf[v] : v \in h[s].found}]
  OBVIOUS
<1>2. h' = [h EXCEPT ![s] = x] /\ UNCHANGED <<ports, resp, desired, subnets>>
  BY DEF CollectNetworks, Inv, TypeOK
<1>3. /\ x.eps = h[s].eps /\ x.host = h[s].host /\ x.live = h[s].live
      /\ h[s].pc = "servers" /\ x.pc = "ports"
  BY <1>1 DEF Handler, CollectNetworks, At
<1>4. /\ x.pc \in {"list", "servers"} => x.eps = {}
      /\ NetsIn(x.eps) \cap x.nets = {}
      /\ x.pc \in InHand => x.net \notin NetsIn(x.eps) \cup x.nets
  BY <1>1, <1>3 DEF HandlerPrefixes, InHand, NetsIn
<1> QED
  BY <1>2, <1>3, <1>4, PrefixMove

\* The network in hand is taken from those that are left.
LEMMA FindPortPrefixes == ASSUME Inv, Prefixes, NEW s \in Slots, FindPort(s) PROVE Prefixes'
<1>1. h[s] \in Handler /\ HandlerPrefixes(h[s])
  BY DEF Inv, TypeOK, Prefixes
<1> USE DEF openstack, agents
<1>2. PICK n \in h[s].nets :
        \/ h' = [h EXCEPT ![s].pc = "create", ![s].net = n, ![s].nets = @ \ {n}]
        \/ \E p \in ports : h' = [h EXCEPT ![s].pc = "format", ![s].net = n, ![s].nets = @ \ {n},
                                          ![s].port = p.id]
  BY DEF FindPort, First
<1>3. UNCHANGED <<ports, resp, desired, subnets>>
  BY DEF FindPort
<1>4. ASSUME NEW x, h' = [h EXCEPT ![s] = x], x.eps = h[s].eps, x.host = h[s].host, x.live = h[s].live,
             x.pc \in {"create", "format"}, x.net = n, x.nets = h[s].nets \ {n}
      PROVE  Prefixes'
  <2>1. NetsIn(x.eps) \cap x.nets = {} /\ x.net \notin NetsIn(x.eps) \cup x.nets
    BY <1>1, <1>4 DEF HandlerPrefixes
  <2> QED
    BY <1>3, <1>4, <2>1, PrefixMove
<1>5. CASE h' = [h EXCEPT ![s].pc = "create", ![s].net = n, ![s].nets = @ \ {n}]
  <2> PICK x : x = [h[s] EXCEPT !.pc = "create", !.net = n, !.nets = @ \ {n}]
    OBVIOUS
  <2>1. h' = [h EXCEPT ![s] = x]
    BY <1>5 DEF Inv, TypeOK
  <2>2. /\ x.eps = h[s].eps /\ x.host = h[s].host /\ x.live = h[s].live
        /\ x.pc \in {"create", "format"} /\ x.net = n /\ x.nets = h[s].nets \ {n}
    BY <1>1 DEF Handler
  <2> QED
    BY <1>4, <2>1, <2>2
<1>6. CASE \E p \in ports : h' = [h EXCEPT ![s].pc = "format", ![s].net = n, ![s].nets = @ \ {n},
                                        ![s].port = p.id]
  <2> PICK p \in ports : h' = [h EXCEPT ![s].pc = "format", ![s].net = n, ![s].nets = @ \ {n},
                                       ![s].port = p.id]
    BY <1>6
  <2> PICK x : x = [h[s] EXCEPT !.pc = "format", !.net = n, !.nets = @ \ {n}, !.port = p.id]
    OBVIOUS
  <2>1. h' = [h EXCEPT ![s] = x]
    BY DEF Inv, TypeOK
  <2>2. /\ x.eps = h[s].eps /\ x.host = h[s].host /\ x.live = h[s].live
        /\ x.pc \in {"create", "format"} /\ x.net = n /\ x.nets = h[s].nets \ {n}
    BY <1>1 DEF Handler
  <2> QED
    BY <1>4, <2>1, <2>2
<1> QED
  BY <1>2, <1>5, <1>6

LEMMA CreatePortPrefixes == ASSUME Inv, Prefixes, NEW s \in Slots, CreatePort(s) PROVE Prefixes'
<1>1. h[s] \in Handler /\ HandlerPrefixes(h[s])
  BY DEF Inv, TypeOK, Prefixes
<1> USE DEF openstack, agents
<1>2. PICK i \in 1..MaxPorts : h' = [h EXCEPT ![s].pc = "await", ![s].port = i]
  BY DEF CreatePort
<1>3. PICK x : x = [h[s] EXCEPT !.pc = "await", !.port = i]
  OBVIOUS
<1>4. h' = [h EXCEPT ![s] = x] /\ UNCHANGED <<ports, resp, desired, subnets>>
  BY <1>2, <1>3 DEF CreatePort, Inv, TypeOK
<1>5. /\ x.eps = h[s].eps /\ x.host = h[s].host /\ x.live = h[s].live
      /\ h[s].pc = "create" /\ x.pc = "await" /\ x.nets = h[s].nets /\ x.net = h[s].net
  BY <1>1, <1>3 DEF Handler, CreatePort, At
<1>6. /\ x.pc \in {"list", "servers"} => x.eps = {}
      /\ NetsIn(x.eps) \cap x.nets = {}
      /\ x.pc \in InHand => x.net \notin NetsIn(x.eps) \cup x.nets
  BY <1>1, <1>5 DEF HandlerPrefixes, InHand, NetsIn
<1> QED
  BY <1>4, <1>5, <1>6, PrefixMove

LEMMA CreatedPrefixes == ASSUME Inv, Prefixes, NEW s \in Slots, Created(s) PROVE Prefixes'
<1>1. h[s] \in Handler /\ HandlerPrefixes(h[s])
  BY DEF Inv, TypeOK, Prefixes
<1> USE DEF openstack, agents
<1> PICK x : x = [h[s] EXCEPT !.pc = "format"]
  OBVIOUS
<1>2. h' = [h EXCEPT ![s] = x] /\ UNCHANGED <<ports, resp, desired, subnets>>
  BY DEF Created, Inv, TypeOK
<1>3. /\ x.eps = h[s].eps /\ x.host = h[s].host /\ x.live = h[s].live
      /\ h[s].pc = "await" /\ x.pc = "format" /\ x.nets = h[s].nets /\ x.net = h[s].net
  BY <1>1 DEF Handler, Created, At
<1>4. /\ x.pc \in {"list", "servers"} => x.eps = {}
      /\ NetsIn(x.eps) \cap x.nets = {}
      /\ x.pc \in InHand => x.net \notin NetsIn(x.eps) \cup x.nets
  BY <1>1, <1>3 DEF HandlerPrefixes, InHand, NetsIn
<1> QED
  BY <1>2, <1>3, <1>4, PrefixMove

\* A lookup that fails has not been in the cache, so that the agent never had its length
\* from Neutron; one that succeeds is in the cache from then on.
LEMMA FormatPrefixes ==
    ASSUME Inv, Prefixes, NEW s \in Slots, FormatPort(s) \/ SubnetFails(s) PROVE Prefixes'
<1>1. /\ h[s] \in Handler /\ HandlerPrefixes(h[s]) /\ h[s].pc = "format"
      /\ h[s].host \in Hosts /\ h[s].net \in Nets
  BY DEF Inv, TypeOK, Prefixes, FormatPort, SubnetFails, At, HandlersOK, HandlerOK, InHand
<1>a. PICK p \in ports : p.id = h[s].port
  BY <1>1 DEF Inv, HandlersOK, HandlerOK, Named
<1>b. Subnets(s) = {p.net}
  BY <1>a DEF Subnets, Inv, UniqueIds
<1>c. \E exact \in BOOLEAN :
        /\ AddEndpoint(s, exact)
        /\ \/ exact = TRUE /\ subnets' = subnets \cup {p.net}
           \/ (exact <=> p.net \in Slash24) /\ p.net \notin subnets /\ subnets' = subnets
  <2>1. CASE FormatPort(s)
    <3> WITNESS TRUE \in BOOLEAN
    <3> QED
      BY <1>b, <2>1 DEF FormatPort
  <2>2. CASE SubnetFails(s)
    <3>1. p.net \notin subnets /\ subnets' = subnets /\ AddEndpoint(s, p.net \in Slash24)
      BY <1>b, <2>2 DEF SubnetFails
    <3>2. CASE p.net \in Slash24
      <4> WITNESS TRUE \in BOOLEAN
      <4> QED
        BY <3>1, <3>2 DEF AddEndpoint
    <3>3. CASE p.net \notin Slash24
      <4>1. (p.net \in Slash24) = FALSE
        BY <3>3
      <4>2. AddEndpoint(s, FALSE)
        BY <3>1, <4>1, Zenon
      <4> WITNESS FALSE \in BOOLEAN
      <4> QED
        BY <3>1, <3>3, <4>2
    <3> QED
      BY <3>2, <3>3
  <2> QED
    BY <2>1, <2>2
<1>d. PICK exact \in BOOLEAN :
        /\ AddEndpoint(s, exact)
        /\ \/ exact = TRUE /\ subnets' = subnets \cup {p.net}
           \/ (exact <=> p.net \in Slash24) /\ p.net \notin subnets /\ subnets' = subnets
  BY <1>c
<1>e. PICK e : e = [net |-> h[s].net, port |-> h[s].port, exact |-> exact]
  OBVIOUS
<1>f. PICK x : x = [h[s] EXCEPT !.pc = "ports", !.net = NoNet, !.port = 0, !.eps = @ \cup {e}]
  OBVIOUS
<1>2. h' = [h EXCEPT ![s] = x]
  BY <1>d, <1>e, <1>f DEF AddEndpoint, Inv, TypeOK
<1>3. UNCHANGED <<ports, resp, desired>> /\ subnets \subseteq subnets'
  BY <1>d DEF FormatPort, SubnetFails, agents, openstack
<1>4. /\ x.pc = "ports" /\ x.eps = h[s].eps \cup {e} /\ x.host = h[s].host
      /\ x.live = h[s].live /\ x.nets = h[s].nets
  BY <1>1, <1>f DEF Handler
<1>5. /\ e.net = h[s].net /\ e.port = p.id /\ e.exact = exact
      /\ p.net \in Slash24 => e.exact
      /\ e.exact => p.net \in Slash24 \cup subnets'
      /\ e.exact \/ p.net \notin Slash24 \cup subnets
  BY <1>a, <1>d, <1>e
<1>6. e.net \notin NetsIn(h[s].eps) \cup h[s].nets
  BY <1>1, <1>5 DEF HandlerPrefixes, InHand
<1>7. Truthful(x.eps)'
  <2> PICK old : old = h[s].eps
    OBVIOUS
  <2>1. \A f \in old : \E q \in ports : /\ q.id = f.port
                                        /\ q.net \in Slash24 => f.exact
                                        /\ f.exact => q.net \in Slash24 \cup subnets
    BY <1>1 DEF HandlerPrefixes, Truthful
  <2>2. x.eps = old \cup {e} /\ p \in ports'
    BY <1>3, <1>4
  <2> SUFFICES ASSUME NEW f \in x.eps
               PROVE  \E q \in ports' : /\ q.id = f.port
                                        /\ q.net \in Slash24 => f.exact
                                        /\ f.exact => q.net \in Slash24 \cup subnets'
    BY DEF Truthful
  <2>3. CASE f = e
    BY <1>5, <2>2, <2>3
  <2>4. CASE f \in old
    BY <1>3, <2>1, <2>4
  <2> QED
    BY <2>2, <2>3, <2>4
<1>8. OnePerNet(x.eps)
  BY <1>1, <1>4, <1>6 DEF HandlerPrefixes, OnePerNet, NetsIn
<1>9. NetsIn(x.eps) \cap x.nets = {}
  BY <1>1, <1>4, <1>6, NetsInAdd DEF HandlerPrefixes
<1>10. x.live => NotWorse(desired[x.host], x.eps)
  <2> SUFFICES ASSUME x.live, NEW d \in desired[x.host], NEW f \in x.eps,
                      d.net = f.net, d.port = f.port, d.exact
               PROVE  f.exact
    BY DEF NotWorse
  <2>1. CASE f = e
    <3>1. PICK q \in ports : q.id = d.port /\ q.net \in Slash24 \cup subnets
      <4>1. Truthful(desired[x.host])
        BY <1>1, <1>4 DEF Prefixes, AgentPrefixes
      <4> QED
        BY <4>1 DEF Truthful
    <3>2. q = p
      BY <1>5, <2>1, <3>1 DEF Inv, UniqueIds
    <3> QED
      BY <1>5, <2>1, <3>1, <3>2
  <2>2. CASE f # e
    BY <1>1, <1>4, <2>2 DEF HandlerPrefixes, NotWorse
  <2> QED
    BY <2>1, <2>2
<1>11. HandlerPrefixes(x)'
  <2>1. (x.live => NotWorse(desired[x.host], x.eps))'
    BY <1>3, <1>10 DEF NotWorse
  <2> HIDE DEF Truthful, NotWorse, OnePerNet
  <2> QED
    BY <1>4, <1>8, <1>7, <1>9, <2>1 DEF HandlerPrefixes, InHand, OnePerNet
<1> QED
  BY <1>2, <1>3, <1>11, PrefixLocal

LEMMA DropPrefixes ==
    ASSUME Inv, Prefixes, NEW s \in Slots, CreateFails(s) \/ CallFails(s) PROVE Prefixes'
<1>1. h' = [h EXCEPT ![s] = Free] /\ UNCHANGED <<ports, resp, desired, subnets>>
  BY DEF CreateFails, CallFails, Refuse, agents, openstack
<1> QED
  BY <1>1, FreePrefixes, PrefixLocal

LEMMA ReplyPrefixes == ASSUME Inv, Prefixes, NEW s \in Slots, Reply(s) PROVE Prefixes'
<1> PICK a : a = h[s].host
  OBVIOUS
<1> PICK eps : eps = h[s].eps
  OBVIOUS
<1>1. /\ h[s] \in Handler /\ HandlerPrefixes(h[s]) /\ a \in Hosts
  BY DEF Inv, TypeOK, Prefixes, Reply, At
<1>2. /\ UNCHANGED <<ports, desired, subnets>> /\ h' = [h EXCEPT ![s] = Free]
      /\ \/ h[s].live /\ resp' = [resp EXCEPT ![a] = [found |-> h[s].found, eps |-> eps]]
         \/ resp' = resp
  BY DEF Reply, openstack
<1>3. h'[s] = Free /\ \A t \in Slots \ {s} : h'[t] = h[t]
  BY <1>2 DEF Inv, TypeOK
<1>4. ASSUME NEW t \in Slots PROVE HandlerPrefixes(h[t])'
  <2>1. CASE t = s
    BY <1>3, <2>1, FreePrefixes
  <2>2. CASE t # s
    BY <1>2, <1>3, <2>2 DEF Prefixes, HandlerPrefixes, Truthful
  <2> QED
    BY <2>1, <2>2
<1>5. ASSUME NEW b \in Hosts PROVE AgentPrefixes(b)'
  <2>1. AgentPrefixes(b)
    BY DEF Prefixes
  <2>2. CASE b = a /\ resp' # resp
    <3>1. resp'[b].eps = eps /\ h[s].live
      BY <1>1, <1>2, <2>2 DEF Inv, TypeOK
    <3>2. Truthful(eps) /\ OnePerNet(eps) /\ NotWorse(desired[b], eps)
      BY <1>1, <2>2, <3>1 DEF HandlerPrefixes
    <3> QED
      BY <1>2, <2>1, <3>1, <3>2 DEF AgentPrefixes, Truthful
  <2>3. CASE b # a \/ resp' = resp
    <3>1. resp'[b] = resp[b]
      BY <1>2, <2>3 DEF Inv, TypeOK
    <3> QED
      BY <1>2, <2>1, <3>1 DEF AgentPrefixes, Truthful
  <2> QED
    BY <2>2, <2>3
<1> QED
  BY <1>4, <1>5 DEF Prefixes

\* A handler that an agent is reconciling by has no client any more, so every other
\* answer to this agent is yet to be formatted.
LEMMA ReconcilePrefixes == ASSUME Inv, OneWaits, Prefixes, NEW a \in Hosts, Reconcile(a) PROVE Prefixes'
<1>1. /\ agent[a] = "reconcile" /\ UNCHANGED <<ports, resp, subnets, h>>
      /\ desired'[a] = resp[a].eps /\ \A b \in Hosts \ {a} : desired'[b] = desired[b]
  BY DEF Reconcile, Inv, TypeOK, openstack
<1>2. ASSUME NEW t \in Slots PROVE HandlerPrefixes(h[t])'
  <2>1. HandlerPrefixes(h[t])
    BY DEF Prefixes
  <2>2. h[t].live => h[t].host \in Hosts \ {a}
    BY <1>1 DEF OneWaits
  <2> QED
    BY <1>1, <2>1, <2>2 DEF HandlerPrefixes, Truthful
<1>3. ASSUME NEW b \in Hosts PROVE AgentPrefixes(b)'
  <2>1. AgentPrefixes(b)
    BY DEF Prefixes
  <2>2. CASE b = a
    <3>1. NotWorse(resp[a].eps, resp[a].eps)
      BY <2>1, <2>2 DEF AgentPrefixes, OnePerNet, NotWorse
    <3> QED
      BY <1>1, <2>1, <2>2, <3>1 DEF AgentPrefixes, Truthful
  <2>3. CASE b # a
    BY <1>1, <2>1, <2>3 DEF AgentPrefixes, Truthful
  <2> QED
    BY <2>2, <2>3
<1> QED
  BY <1>2, <1>3 DEF Prefixes

LEMMA PublishPrefixes == ASSUME Inv, Prefixes, NEW a \in Hosts, Publish(a) PROVE Prefixes'
<1>1. /\ UNCHANGED <<ports, desired, subnets, h>>
      /\ resp'[a].eps = {} /\ \A b \in Hosts \ {a} : resp'[b] = resp[b]
  BY NoResponseTyped DEF Publish, Inv, TypeOK, openstack
<1>2. ASSUME NEW t \in Slots PROVE HandlerPrefixes(h[t])'
  BY <1>1 DEF Prefixes, HandlerPrefixes, Truthful
<1>3. ASSUME NEW b \in Hosts PROVE AgentPrefixes(b)'
  <2>1. AgentPrefixes(b)
    BY DEF Prefixes
  <2>2. CASE b = a
    BY <1>1, <2>1, <2>2 DEF AgentPrefixes, Truthful, OnePerNet, NotWorse
  <2>3. CASE b # a
    BY <1>1, <2>1, <2>3 DEF AgentPrefixes, Truthful
  <2> QED
    BY <2>2, <2>3
<1> QED
  BY <1>2, <1>3 DEF Prefixes

LEMMA SendPrefixes == ASSUME Inv, Prefixes, NEW a \in Hosts, Send(a) PROVE Prefixes'
<1> PICK s \in Slots :
        h' = [h EXCEPT ![s] = [Free EXCEPT !.pc = "list", !.host = a, !.live = TRUE]]
  BY DEF Send
<1> PICK x : x = [Free EXCEPT !.pc = "list", !.host = a, !.live = TRUE]
  OBVIOUS
<1>1. x.pc = "list" /\ x.eps = {}
  BY DEF Free
<1>2. HandlerPrefixes(x)'
  BY <1>1 DEF HandlerPrefixes, Truthful, OnePerNet, NetsIn, NotWorse, InHand
<1> QED
  BY <1>2, PrefixLocal DEF Send, openstack

LEMMA GiveUpPrefixes == ASSUME Inv, Prefixes, NEW a \in Hosts, GiveUp(a) PROVE Prefixes'
<1>1. UNCHANGED <<ports, resp, desired, subnets>> /\ h' = Abandoned(a)
  BY DEF GiveUp, openstack
<1>2. ASSUME NEW t \in Slots PROVE h'[t] = h[t] \/ HandlerPrefixes(h[t])'
  <2>1. h[t] \in Handler /\ HandlerPrefixes(h[t])
    BY DEF Inv, TypeOK, Prefixes
  <2>2. CASE h'[t] = [h[t] EXCEPT !.live = FALSE]
    <3>1. /\ ~h'[t].live /\ h'[t].pc = h[t].pc /\ h'[t].eps = h[t].eps /\ h'[t].nets = h[t].nets
          /\ h'[t].net = h[t].net
      BY <2>1, <2>2 DEF Handler
    <3> QED
      BY <1>1, <2>1, <3>1 DEF HandlerPrefixes, Truthful
  <2> QED
    BY <1>1, <2>2 DEF Abandoned
<1> QED
  BY <1>1, <1>2, PrefixQuiet

LEMMA PrefixStep ==
    ASSUME Inv, OneWaits, restarts = 0 => Prefixes, [Next]_vars
    PROVE  (restarts = 0 => Prefixes)'
<1> SUFFICES ASSUME restarts' = 0 PROVE Prefixes'
  OBVIOUS
<1>1. restarts \in Nat
  BY LimitsAssumption DEF Inv, TypeOK
<1>2. ~Restart
  BY <1>1 DEF Restart
<1>3. CASE \E s \in Slots : Handle(s)
  <2>1. UNCHANGED restarts
    BY <1>3 DEF Handle, ListServers, SkipServer, AddTarget, CollectNetworks, FindPort, CreatePort,
       Created, CreateFails, CallFails, FormatPort, SubnetFails, Reply, Fault, NoFault, counters
  <2> QED
    BY <1>3, <2>1, ListServersPrefixes, SkipServerPrefixes, AddTargetPrefixes,
       CollectNetworksPrefixes, FindPortPrefixes, CreatePortPrefixes, CreatedPrefixes, FormatPrefixes,
       DropPrefixes, ReplyPrefixes DEF Handle
<1>4. CASE \E a \in Hosts : Send(a) \/ GiveUp(a) \/ Apply(a)
  <2>1. UNCHANGED restarts
    BY <1>4 DEF Send, GiveUp, Apply, Reconcile, ReconcileFails, Publish, Fault, NoFault, counters
  <2>2. ASSUME NEW a \in Hosts, ReconcileFails(a) PROVE Prefixes'
    BY <2>1, <2>2, PrefixQuiet DEF ReconcileFails, openstack
  <2> QED
    BY <1>4, <2>1, <2>2, SendPrefixes, GiveUpPrefixes, ReconcilePrefixes, PublishPrefixes DEF Apply
<1>5. CASE ExecuteCreate \/ Move \/ UNCHANGED vars
  BY <1>5, PrefixQuiet DEF ExecuteCreate, Move, vars, agents, openstack, NoFault, counters
<1> QED
  BY <1>2, <1>3, <1>4, <1>5 DEF Next, RestartAgent, RestartControl

\* getSubnetPrefixLength falls back to 24 when Neutron fails, yet as long as nothing is
\* restarted no agent that had the right length of an endpoint is given another: the
\* handlers of an agent follow each other, and its length is in the cache by then.
THEOREM PrefixesKept == Spec => PrefixKept
<1>1. Init => (restarts = 0 => Prefixes)
  BY FreePrefixes, NoResponseTyped DEF Init, Prefixes, AgentPrefixes, Truthful, OnePerNet, NotWorse
<1>2. Inv /\ OneWaits /\ (restarts = 0 => Prefixes) /\ [Next]_vars => (restarts = 0 => Prefixes)'
  BY PrefixStep
<1>3. ASSUME Inv, OneWaits, Prefixes, [Next]_vars, NEW a \in Hosts,
             NEW e \in desired[a], NEW f \in desired'[a],
             e.net = f.net, e.port = f.port, e.exact
      PROVE  f.exact
  <2>1. AgentPrefixes(a)
    BY <1>3 DEF Prefixes
  <2>2. CASE desired'[a] = desired[a]
    BY <1>3, <2>1, <2>2 DEF AgentPrefixes, OnePerNet
  <2>3. CASE desired'[a] = resp[a].eps
    BY <1>3, <2>1, <2>3 DEF AgentPrefixes, NotWorse
  <2>4. CASE desired'[a] = {}
    BY <2>4
  <2>5. \A b \in Hosts : Reconcile(b) => desired'[a] = desired[a] \/ desired'[a] = resp[a].eps
    BY <1>3 DEF Reconcile, Inv, TypeOK
  <2>6. \A b \in Hosts : RestartAgent(b) => desired'[a] = desired[a] \/ desired'[a] = {}
    BY <1>3 DEF RestartAgent, Inv, TypeOK
  <2>7. \A s \in Slots : Handle(s) => desired' = desired
    BY DEF Handle, ListServers, SkipServer, AddTarget, CollectNetworks, FindPort, CreatePort, Created,
       CreateFails, CallFails, Refuse, FormatPort, SubnetFails, Reply, agents
  <2>8. \A b \in Hosts : Send(b) \/ GiveUp(b) \/ ReconcileFails(b) \/ Publish(b) => desired' = desired
    BY DEF Send, GiveUp, ReconcileFails, Publish
  <2>9. ExecuteCreate \/ RestartControl \/ Move \/ UNCHANGED vars => desired' = desired
    BY DEF ExecuteCreate, RestartControl, Move, vars, agents
  <2> QED
    BY <1>3, <2>2, <2>3, <2>4, <2>5, <2>6, <2>7, <2>8, <2>9 DEF Next, Apply
<1>4. Inv /\ OneWaits /\ (restarts = 0 => Prefixes) /\ [Next]_vars =>
        [restarts = 0 => \A a \in Hosts : \A e \in desired[a], f \in desired'[a] :
                          e.net = f.net /\ e.port = f.port /\ e.exact => f.exact]_vars
  BY <1>3
<1> QED
  BY <1>1, <1>2, <1>4, Invariance, PTL DEF Spec, PrefixKept

-----------------------------------------------------------------------------
(* Ports of one name.                                                      *)

Visible(a, c) == \E p \in ports : p.host = a /\ Short[p.net] = c

\* The ports of a host and a shortened network id, those on their way included.
Class(a, c) == {p \in ports \cup pending : p.host = a /\ Short[p.net] = c}

Awaits(x, c) == x.pc = "await" /\ Short[x.net] = c

\* A handler that will create another port of the class unless it finds one: it has
\* searched in vain, or the class has no port yet and the handler may get to it.
MayCreate(x, c) ==
    \/ x.pc = "create" /\ Short[x.net] = c
    \/ /\ ~Visible(x.host, c) /\ ~Awaits(x, c)
       /\ x.pc \in {"list", "servers"} \/ (x.pc # "free" /\ \E n \in x.nets : Short[n] = c)

Makers(a, c) == {s \in Slots : h[s].host = a /\ MayCreate(h[s], c)}

\* The class has its first port, or a handler that is not abandoned is to create it.
Covered(a, c) ==
    \/ Visible(a, c)
    \/ \E s \in Slots : /\ h[s].live /\ h[s].host = a
                        /\ MayCreate(h[s], c) \/ Awaits(h[s], c)

\* Ports made or to be made beyond the first are as many as handlers were abandoned.
Counted(a, c) ==
    LET made == Cardinality(Class(a, c)) + Cardinality(Makers(a, c))
    IN  \/ made <= faults + restarts
        \/ Covered(a, c) /\ made <= faults + restarts + 1

PortsCounted == IsFiniteSet(ports \cup pending) /\ \A a \in Hosts, n \in Nets : Counted(a, Short[n])

LEMMA CountedSum ==
    ASSUME NEW a, NEW c, NEW m \in Nat, NEW n \in Nat, m = Cardinality(Class(a, c)),
           n = Cardinality(Makers(a, c))
    PROVE  Counted(a, c) <=> \/ m + n <= faults + restarts
                             \/ Covered(a, c) /\ m + n <= faults + restarts + 1
  BY DEF Counted

LEMMA AddOne ==
    ASSUME NEW S, IsFiniteSet(S), NEW x
    PROVE  IsFiniteSet(S \cup {x}) /\ Cardinality(S \cup {x}) <= Cardinality(S) + 1
<1>1. Cardinality(S) \in Nat
  BY FS_CardinalityType
<1>2. CASE x \in S
  <2>1. S \cup {x} = S
    BY <1>2
  <2>2. IsFiniteSet(S \cup {x}) /\ Cardinality(S \cup {x}) = Cardinality(S)
    BY <2>1, Zenon
  <2> QED
    BY <1>1, <2>2
<1>3. CASE x \notin S
  BY <1>1, <1>3, FS_AddElement
<1> QED
  BY <1>2, <1>3

LEMMA FiniteClasses ==
    ASSUME IsFiniteSet(ports \cup pending), NEW a, NEW c
    PROVE  /\ IsFiniteSet(Class(a, c)) /\ Cardinality(Class(a, c)) \in Nat
           /\ IsFiniteSet(Makers(a, c)) /\ Cardinality(Makers(a, c)) \in Nat
<1>1. Class(a, c) \subseteq ports \cup pending /\ Makers(a, c) \subseteq Slots
  BY DEF Class, Makers
<1> QED
  BY <1>1, SlotsAssumption, FS_Subset, FS_CardinalityType

LEMMA FaultsTyped == ASSUME TypeOK PROVE faults \in Nat /\ restarts \in Nat
  BY LimitsAssumption DEF TypeOK

\* Nothing is added, and the first port or its maker stays or a handler was abandoned.
LEMMA CountKept ==
    ASSUME IsFiniteSet(ports \cup pending), TypeOK, TypeOK', NEW a, NEW c, Counted(a, c),
           Class(a, c)' \subseteq Class(a, c), Makers(a, c)' \subseteq Makers(a, c),
           \/ /\ Covered(a, c) => Covered(a, c)'
              /\ faults + restarts <= faults' + restarts'
           \/ faults + restarts + 1 <= faults' + restarts'
    PROVE  Counted(a, c)'
<1>1. /\ Cardinality(Class(a, c)') <= Cardinality(Class(a, c))
      /\ Cardinality(Class(a, c)') \in Nat /\ Cardinality(Class(a, c)) \in Nat
  BY FiniteClasses, FS_Subset, FS_CardinalityType
<1>2. /\ Cardinality(Makers(a, c)') <= Cardinality(Makers(a, c))
      /\ Cardinality(Makers(a, c)') \in Nat /\ Cardinality(Makers(a, c)) \in Nat
  BY FiniteClasses, FS_Subset, FS_CardinalityType
<1>3. faults \in Nat /\ restarts \in Nat /\ faults' \in Nat /\ restarts' \in Nat
  BY FaultsTyped, LimitsAssumption DEF TypeOK
<1> PICK m \in Nat : m = Cardinality(Class(a, c))
  BY <1>1
<1> PICK n \in Nat : n = Cardinality(Makers(a, c))
  BY <1>2
<1> PICK k \in Nat : k = Cardinality(Class(a, c)')
  BY <1>1
<1> PICK l \in Nat : l = Cardinality(Makers(a, c)')
  BY <1>2
<1> PICK b \in Nat : b = faults + restarts
  BY <1>3
<1> PICK f \in Nat : f = faults'
  BY <1>3
<1> PICK r \in Nat : r = restarts'
  BY <1>3
<1>4. m + n <= b \/ (Covered(a, c) /\ m + n <= b + 1)
  BY DEF Counted
<1>5. k <= m /\ l <= n
  BY <1>1, <1>2
<1>6. b + 1 <= f + r \/ ((Covered(a, c) => Covered(a, c)') /\ b <= f + r)
  OBVIOUS
<1>7. k + l <= f + r \/ (Covered(a, c)' /\ k + l <= f + r + 1)
  BY <1>4, <1>5, <1>6
<1> QED
  BY <1>7 DEF Counted

\* One maker is gone and creates no port, so the first port may be missing again.
LEMMA CountDropped ==
    ASSUME IsFiniteSet(ports \cup pending), TypeOK, TypeOK', NEW a, NEW c, Counted(a, c),
           Class(a, c)' \subseteq Class(a, c), NEW s \in Makers(a, c),
           Makers(a, c)' \subseteq Makers(a, c) \ {s},
           faults + restarts <= faults' + restarts'
    PROVE  Counted(a, c)'
<1>1. /\ Cardinality(Class(a, c)') <= Cardinality(Class(a, c))
      /\ Cardinality(Class(a, c)') \in Nat /\ Cardinality(Class(a, c)) \in Nat
  BY FiniteClasses, FS_Subset, FS_CardinalityType
<1>2. /\ IsFiniteSet(Makers(a, c) \ {s})
      /\ Cardinality(Makers(a, c) \ {s}) = Cardinality(Makers(a, c)) - 1
  BY FiniteClasses, FS_RemoveElement
<1>3. /\ Cardinality(Makers(a, c)') <= Cardinality(Makers(a, c)) - 1
      /\ Cardinality(Makers(a, c)') \in Nat /\ Cardinality(Makers(a, c)) \in Nat
  BY <1>2, FiniteClasses, FS_Subset, FS_CardinalityType
<1>4. faults \in Nat /\ restarts \in Nat /\ faults' \in Nat /\ restarts' \in Nat
  BY FaultsTyped, LimitsAssumption DEF TypeOK
<1> PICK m \in Nat : m = Cardinality(Class(a, c))
  BY <1>1
<1> PICK n \in Nat : n = Cardinality(Makers(a, c))
  BY <1>3
<1> PICK k \in Nat : k = Cardinality(Class(a, c)')
  BY <1>1
<1> PICK l \in Nat : l = Cardinality(Makers(a, c)')
  BY <1>3
<1> PICK b \in Nat : b = faults + restarts
  BY <1>4
<1> PICK f \in Nat : f = faults'
  BY <1>4
<1> PICK r \in Nat : r = restarts'
  BY <1>4
<1>8. m + n <= b \/ (Covered(a, c) /\ m + n <= b + 1)
  BY DEF Counted
<1>9. k <= m /\ l + 1 <= n /\ b <= f + r
  BY <1>1, <1>3
<1>10. k + l <= f + r \/ (Covered(a, c)' /\ k + l <= f + r + 1)
  BY <1>8, <1>9
<1> QED
  BY <1>10 DEF Counted

\* A new handler of an agent that had none becomes the maker of the first port.
LEMMA CountAdded ==
    ASSUME IsFiniteSet(ports \cup pending), TypeOK, TypeOK', NEW a, NEW c, Counted(a, c),
           Class(a, c)' \subseteq Class(a, c), NEW s \in Slots,
           Makers(a, c)' \subseteq Makers(a, c) \cup {s}, ~Covered(a, c), Covered(a, c)',
           faults + restarts <= faults' + restarts'
    PROVE  Counted(a, c)'
<1>1. /\ Cardinality(Class(a, c)') <= Cardinality(Class(a, c))
      /\ Cardinality(Class(a, c)') \in Nat /\ Cardinality(Class(a, c)) \in Nat
  BY FiniteClasses, FS_Subset, FS_CardinalityType
<1>2. /\ IsFiniteSet(Makers(a, c) \cup {s})
      /\ Cardinality(Makers(a, c) \cup {s}) <= Cardinality(Makers(a, c)) + 1
  BY FiniteClasses, AddOne
<1>3. /\ Cardinality(Makers(a, c)') <= Cardinality(Makers(a, c) \cup {s})
      /\ Cardinality(Makers(a, c)') \in Nat /\ Cardinality(Makers(a, c)) \in Nat
      /\ Cardinality(Makers(a, c) \cup {s}) \in Nat
  BY <1>2, FiniteClasses, FS_Subset, FS_CardinalityType
<1>4. faults \in Nat /\ restarts \in Nat /\ faults' \in Nat /\ restarts' \in Nat
  BY FaultsTyped, LimitsAssumption DEF TypeOK
<1> PICK m \in Nat : m = Cardinality(Class(a, c))
  BY <1>1
<1> PICK n \in Nat : n = Cardinality(Makers(a, c))
  BY <1>3
<1> PICK k \in Nat : k = Cardinality(Class(a, c)')
  BY <1>1
<1> PICK l \in Nat : l = Cardinality(Makers(a, c)')
  BY <1>3
<1> PICK b \in Nat : b = faults + restarts
  BY <1>4
<1> PICK f \in Nat : f = faults'
  BY <1>4
<1> PICK r \in Nat : r = restarts'
  BY <1>4
<1>8. m + n <= b \/ (Covered(a, c) /\ m + n <= b + 1)
  BY DEF Counted
<1>9. k <= m /\ l <= n + 1 /\ b <= f + r /\ ~Covered(a, c) /\ Covered(a, c)'
  BY <1>1, <1>2, <1>3
<1>10. k + l <= f + r \/ (Covered(a, c)' /\ k + l <= f + r + 1)
  BY <1>8, <1>9
<1> QED
  BY <1>10 DEF Counted

\* A maker has made its port.
LEMMA CountMade ==
    ASSUME IsFiniteSet(ports \cup pending), TypeOK, TypeOK', NEW a, NEW c, Counted(a, c), NEW p,
           Class(a, c)' \subseteq Class(a, c) \cup {p}, NEW s \in Makers(a, c),
           Makers(a, c)' \subseteq Makers(a, c) \ {s}, Covered(a, c) => Covered(a, c)',
           faults + restarts <= faults' + restarts'
    PROVE  Counted(a, c)'
<1>1. /\ IsFiniteSet(Class(a, c) \cup {p})
      /\ Cardinality(Class(a, c) \cup {p}) <= Cardinality(Class(a, c)) + 1
  BY FiniteClasses, AddOne
<1>2. /\ Cardinality(Class(a, c)') <= Cardinality(Class(a, c) \cup {p})
      /\ Cardinality(Class(a, c)') \in Nat /\ Cardinality(Class(a, c)) \in Nat
      /\ Cardinality(Class(a, c) \cup {p}) \in Nat
  BY <1>1, FiniteClasses, FS_Subset, FS_CardinalityType
<1>3. /\ IsFiniteSet(Makers(a, c) \ {s})
      /\ Cardinality(Makers(a, c) \ {s}) = Cardinality(Makers(a, c)) - 1
  BY FiniteClasses, FS_RemoveElement
<1>4. /\ Cardinality(Makers(a, c)') <= Cardinality(Makers(a, c)) - 1
      /\ Cardinality(Makers(a, c)') \in Nat /\ Cardinality(Makers(a, c)) \in Nat
  BY <1>3, FiniteClasses, FS_Subset, FS_CardinalityType
<1>5. faults \in Nat /\ restarts \in Nat /\ faults' \in Nat /\ restarts' \in Nat
  BY FaultsTyped, LimitsAssumption DEF TypeOK
<1> PICK m \in Nat : m = Cardinality(Class(a, c))
  BY <1>2
<1> PICK n \in Nat : n = Cardinality(Makers(a, c))
  BY <1>4
<1> PICK k \in Nat : k = Cardinality(Class(a, c)')
  BY <1>2
<1> PICK l \in Nat : l = Cardinality(Makers(a, c)')
  BY <1>4
<1> PICK b \in Nat : b = faults + restarts
  BY <1>5
<1> PICK f \in Nat : f = faults'
  BY <1>5
<1> PICK r \in Nat : r = restarts'
  BY <1>5
<1>8. m + n <= b \/ (Covered(a, c) /\ m + n <= b + 1)
  BY DEF Counted
<1>9. k <= m + 1 /\ l + 1 <= n /\ b <= f + r /\ (Covered(a, c) => Covered(a, c)')
  BY <1>1, <1>2, <1>4
<1>10. k + l <= f + r \/ (Covered(a, c)' /\ k + l <= f + r + 1)
  BY <1>8, <1>9
<1> QED
  BY <1>10 DEF Counted

LEMMA BudgetGrows ==
    ASSUME TypeOK, NoFault \/ Fault \/ Restart
    PROVE  faults + restarts <= faults' + restarts'
<1>1. CASE NoFault
  BY <1>1, FaultsTyped DEF NoFault, counters
<1>2. CASE Fault
  BY <1>2, FaultsTyped DEF Fault
<1>3. CASE Restart
  BY <1>3, FaultsTyped DEF Restart
<1> QED
  BY <1>1, <1>2, <1>3

LEMMA BudgetSpent ==
    ASSUME TypeOK, Fault \/ Restart
    PROVE  faults + restarts + 1 <= faults' + restarts'
<1>1. CASE Fault
  BY <1>1, FaultsTyped DEF Fault
<1>2. CASE Restart
  BY <1>2, FaultsTyped DEF Restart
<1> QED
  BY <1>1, <1>2

\* A step that concerns neither handlers nor ports.
LEMMA CountQuiet ==
    ASSUME IsFiniteSet(ports \cup pending), TypeOK, TypeOK', NEW a, NEW c, Counted(a, c),
           h' = h, ports' = ports, pending' = pending,
           faults + restarts <= faults' + restarts'
    PROVE  Counted(a, c)'
<1>1. Class(a, c)' = Class(a, c)
  BY DEF Class
<1>2. Makers(a, c)' = Makers(a, c)
  BY DEF Makers, MayCreate, Awaits, Visible
<1>3. Covered(a, c) => Covered(a, c)'
  BY DEF Covered, MayCreate, Awaits, Visible
<1>4. Class(a, c)' \subseteq Class(a, c) /\ Makers(a, c)' \subseteq Makers(a, c)
  BY <1>1, <1>2
<1> QED
  BY <1>3, <1>4, CountKept

\* Handlers are freed or lose their clients by a fault or a restart.
LEMMA CountDismissed ==
    ASSUME IsFiniteSet(ports \cup pending), TypeOK, TypeOK', NEW a \in Hosts, NEW c, Counted(a, c),
           \A t \in Slots : \/ h'[t] = Free
                            \/ h'[t] = h[t]
                            \/ h'[t] = [h[t] EXCEPT !.live = FALSE],
           ports' = ports, pending' \subseteq pending, Fault \/ Restart
    PROVE  Counted(a, c)'
<1>1. Class(a, c)' \subseteq Class(a, c)
  BY DEF Class
<1>2. ASSUME NEW t \in Slots, h'[t].host = a, MayCreate(h[t], c)'
      PROVE  h[t].host = a /\ MayCreate(h[t], c)
  <2>1. h[t] \in Handler
    BY DEF TypeOK
  <2>2. CASE h'[t] = Free
    BY <1>2, <2>2 DEF MayCreate, Free
  <2>3. CASE h'[t] = h[t]
    BY <1>2, <2>3 DEF MayCreate, Awaits, Visible
  <2>4. CASE h'[t] = [h[t] EXCEPT !.live = FALSE]
    <3>1. /\ h'[t].pc = h[t].pc /\ h'[t].host = h[t].host /\ h'[t].net = h[t].net
          /\ h'[t].nets = h[t].nets
      BY <2>1, <2>4 DEF Handler
    <3> QED
      BY <1>2, <3>1 DEF MayCreate, Awaits, Visible
  <2> QED
    BY <2>2, <2>3, <2>4
<1>3. Makers(a, c)' \subseteq Makers(a, c)
  BY <1>2 DEF Makers
<1> QED
  BY <1>1, <1>3, BudgetSpent, CountKept

\* One handler gets other locals, and may create a port of the class as before or finds one.
LEMMA CountLocal ==
    ASSUME IsFiniteSet(ports \cup pending), TypeOK, TypeOK', NEW a, NEW c, Counted(a, c),
           NEW s \in Slots, NEW x, h' = [h EXCEPT ![s] = x], UNCHANGED <<ports, pending>>,
           NoFault \/ Fault, x.host = h[s].host, x.live = h[s].live,
           x.host = a /\ MayCreate(x, c) => MayCreate(h[s], c),
           x.host = a /\ (MayCreate(h[s], c) \/ Awaits(h[s], c)) =>
               MayCreate(x, c) \/ Awaits(x, c) \/ Visible(a, c)
    PROVE  Counted(a, c)'
<1>1. h'[s] = x /\ \A t \in Slots \ {s} : h'[t] = h[t]
  BY DEF TypeOK
<1>2. Class(a, c)' \subseteq Class(a, c)
  BY DEF Class
<1>3. \A y : (MayCreate(y, c)' <=> MayCreate(y, c)) /\ (Awaits(y, c)' <=> Awaits(y, c))
  BY DEF MayCreate, Awaits, Visible
<1>4. ASSUME NEW t \in Slots PROVE MayCreate(h[t], c)' <=> MayCreate(h'[t], c)
  BY DEF MayCreate, Awaits, Visible
<1>5. ASSUME NEW t \in Slots PROVE Awaits(h[t], c)' <=> Awaits(h'[t], c)
  BY DEF Awaits
<1>6. Makers(a, c)' \subseteq Makers(a, c)
  <2> SUFFICES ASSUME NEW t \in Slots, h'[t].host = a, MayCreate(h'[t], c)
               PROVE  h[t].host = a /\ MayCreate(h[t], c)
    BY <1>4 DEF Makers
  <2> QED
    BY <1>1
<1>7. Covered(a, c) => Covered(a, c)'
  <2>1. Visible(a, c) => Visible(a, c)'
    BY DEF Visible
  <2>2. ASSUME NEW t \in Slots, h[t].live, h[t].host = a, MayCreate(h[t], c) \/ Awaits(h[t], c),
               ~Visible(a, c)
        PROVE  h'[t].live /\ h'[t].host = a /\ (MayCreate(h'[t], c) \/ Awaits(h'[t], c))
    BY <1>1, <2>2
  <2> QED
    BY <1>4, <1>5, <2>1, <2>2 DEF Covered
<1> QED
  BY <1>2, <1>6, <1>7, BudgetGrows, CountKept

\* Locals that have no part in which ports a handler may create.
LEMMA CountSame ==
    ASSUME IsFiniteSet(ports \cup pending), TypeOK, TypeOK', NEW a, NEW c, Counted(a, c),
           NEW s \in Slots, NEW x, h' = [h EXCEPT ![s] = x], UNCHANGED <<ports, pending>>,
           NoFault \/ Fault, x.host = h[s].host, x.live = h[s].live, x.net = h[s].net,
           x.nets = h[s].nets, x.pc = h[s].pc \/ (h[s].pc = "list" /\ x.pc = "servers")
    PROVE  Counted(a, c)'
<1>1. /\ MayCreate(x, c) <=> MayCreate(h[s], c)
      /\ Awaits(x, c) <=> Awaits(h[s], c)
  BY DEF MayCreate, Awaits, Visible
<1> QED
  BY <1>1, CountLocal

LEMMA ServersCounted ==
    ASSUME Inv, TypeOK', IsFiniteSet(ports \cup pending), NEW a \in Hosts, NEW c, Counted(a, c),
           NEW s \in Slots, ListServers(s) \/ SkipServer(s) \/ AddTarget(s)
    PROVE  Counted(a, c)'
<1>1. TypeOK /\ h[s] \in Handler
  BY DEF Inv, TypeOK
<1>2. UNCHANGED <<ports, pending>> /\ (NoFault \/ Fault)
  BY DEF ListServers, SkipServer, AddTarget, openstack
<1>3. CASE ListServers(s)
  <2> PICK x : x = [h[s] EXCEPT !.pc = "servers", !.todo = {v \in VMs : on[v] = h[s].host}]
    OBVIOUS
  <2>1. h' = [h EXCEPT ![s] = x]
    BY <1>3, <1>1 DEF ListServers, TypeOK
  <2>2. /\ x.host = h[s].host /\ x.live = h[s].live /\ x.net = h[s].net /\ x.nets = h[s].nets
        /\ h[s].pc = "list" /\ x.pc = "servers"
    BY <1>1, <1>3 DEF Handler, ListServers, At
  <2> QED
    BY <1>1, <1>2, <2>1, <2>2, CountSame
<1>4. CASE SkipServer(s)
  <2>1. PICK v \in h[s].todo : h' = [h EXCEPT ![s].todo = @ \ {v}]
    BY <1>4 DEF SkipServer
  <2> PICK x : x = [h[s] EXCEPT !.todo = @ \ {v}]
    OBVIOUS
  <2>2. h' = [h EXCEPT ![s] = x]
    BY <1>1, <2>1 DEF TypeOK
  <2>3. /\ x.host = h[s].host /\ x.live = h[s].live /\ x.net = h[s].net /\ x.nets = h[s].nets
        /\ x.pc = h[s].pc
    BY <1>1 DEF Handler
  <2> QED
    BY <1>1, <1>2, <2>2, <2>3, CountSame
<1>5. CASE AddTarget(s)
  <2>1. PICK v \in h[s].todo : h' = [h EXCEPT ![s].todo = @ \ {v}, ![s].found = @ \cup {v}]
    BY <1>5 DEF AddTarget
  <2> PICK x : x = [h[s] EXCEPT !.todo = @ \ {v}, !.found = @ \cup {v}]
    OBVIOUS
  <2>2. h' = [h EXCEPT ![s] = x]
    BY <1>1, <2>1 DEF TypeOK
  <2>3. /\ x.host = h[s].host /\ x.live = h[s].live /\ x.net = h[s].net /\ x.nets = h[s].nets
        /\ x.pc = h[s].pc
    BY <1>1 DEF Handler
  <2> QED
    BY <1>1, <1>2, <2>2, <2>3, CountSame
<1> QED
  BY <1>3, <1>4, <1>5

\* None of the targets may be on the network any more.
LEMMA CollectCounted ==
    ASSUME Inv, TypeOK', IsFiniteSet(ports \cup pending), NEW a \in Hosts, NEW c, Counted(a, c),
           NEW s \in Slots, CollectNetworks(s)
    PROVE  Counted(a, c)'
<1>1. TypeOK /\ h[s] \in Handler /\ h[s].pc = "servers"
  BY DEF Inv, TypeOK, CollectNetworks, At
<1>2. ports' = ports /\ pending' = pending /\ NoFault
  BY DEF CollectNetworks, openstack
<1>x. PICK x : x = [h[s] EXCEPT !.pc = "ports", !.nets = UNION {NetsOf[v] : v \in h[s].found}]
  OBVIOUS
<1>3. h' = [h EXCEPT ![s] = x]
  BY <1>1, <1>x DEF CollectNetworks, TypeOK
<1>4. x.host = h[s].host /\ x.live = h[s].live /\ x.net = h[s].net /\ x.pc = "ports"
  BY <1>1, <1>x DEF Handler
<1>5. MayCreate(x, c) => MayCreate(h[s], c)
  BY <1>1, <1>4 DEF MayCreate, Awaits, Visible
<1>6. ~Awaits(h[s], c)
  BY <1>1 DEF Awaits
<1>7. CASE ~(x.host = a /\ MayCreate(h[s], c) /\ ~MayCreate(x, c))
  <2>1. /\ x.host = a /\ MayCreate(x, c) => MayCreate(h[s], c)
        /\ x.host = a /\ (MayCreate(h[s], c) \/ Awaits(h[s], c)) =>
               MayCreate(x, c) \/ Awaits(x, c) \/ Visible(a, c)
    BY <1>5, <1>6, <1>7
  <2> QED
    BY <1>1, <1>2, <1>3, <1>4, <2>1, CountLocal
<1>8. CASE x.host = a /\ MayCreate(h[s], c) /\ ~MayCreate(x, c)
  <2>1. h'[s] = x /\ \A t \in Slots \ {s} : h'[t] = h[t]
    BY <1>1, <1>3 DEF TypeOK
  <2>2. Class(a, c)' \subseteq Class(a, c)
    BY <1>2 DEF Class
  <2>3. \A t \in Slots : MayCreate(h[t], c)' <=> MayCreate(h'[t], c)
    BY <1>2 DEF MayCreate, Awaits, Visible
  <2>4. s \in Makers(a, c) /\ Makers(a, c)' \subseteq Makers(a, c) \ {s}
    BY <1>4, <1>8, <2>1, <2>3 DEF Makers
  <2> QED
    BY <1>1, <1>2, <2>2, <2>4, BudgetGrows, CountDropped
<1> QED
  BY <1>7, <1>8

\* A search that is in vain shows that the class has no port, so this handler was to
\* create one before; one that is not shows that it has.
LEMMA FindCounted ==
    ASSUME Inv, TypeOK', IsFiniteSet(ports \cup pending), NEW a \in Hosts, NEW c, Counted(a, c),
           NEW s \in Slots, FindPort(s)
    PROVE  Counted(a, c)'
<1>1. TypeOK /\ h[s] \in Handler /\ h[s].pc = "ports"
  BY DEF Inv, TypeOK, FindPort, At
<1>2. UNCHANGED <<ports, pending>> /\ NoFault
  BY DEF FindPort, openstack
<1>3. PICK n \in h[s].nets :
        \/ /\ \A p \in ports : Name(p.host, p.net) # Name(h[s].host, n)
           /\ h' = [h EXCEPT ![s].pc = "create", ![s].net = n, ![s].nets = @ \ {n}]
        \/ \E p \in ports :
             /\ Name(p.host, p.net) = Name(h[s].host, n)
             /\ h' = [h EXCEPT ![s].pc = "format", ![s].net = n, ![s].nets = @ \ {n},
                               ![s].port = p.id]
  BY DEF FindPort, First
<1>4. CASE /\ \A p \in ports : Name(p.host, p.net) # Name(h[s].host, n)
           /\ h' = [h EXCEPT ![s].pc = "create", ![s].net = n, ![s].nets = @ \ {n}]
  <2>x. PICK x : x = [h[s] EXCEPT !.pc = "create", !.net = n, !.nets = @ \ {n}]
    OBVIOUS
  <2>1. h' = [h EXCEPT ![s] = x]
    BY <1>1, <1>4, <2>x DEF TypeOK
  <2>2. /\ x.host = h[s].host /\ x.live = h[s].live /\ x.pc = "create" /\ x.net = n
        /\ x.nets = h[s].nets \ {n}
    BY <1>1, <2>x DEF Handler
  <2>3. ~Visible(h[s].host, Short[n])
    BY <1>4 DEF Visible, Name
  <2>4. MayCreate(x, c) => MayCreate(h[s], c)
    BY <1>1, <2>2, <2>3 DEF MayCreate, Awaits, Visible
  <2>5. ~Awaits(h[s], c) /\ ~Awaits(x, c)
    BY <1>1, <2>2 DEF Awaits
  <2>6. MayCreate(h[s], c) => MayCreate(x, c)
    BY <1>1, <2>2, <2>5 DEF MayCreate, Visible
  <2>7. /\ x.host = a /\ MayCreate(x, c) => MayCreate(h[s], c)
        /\ x.host = a /\ (MayCreate(h[s], c) \/ Awaits(h[s], c)) =>
               MayCreate(x, c) \/ Awaits(x, c) \/ Visible(a, c)
    BY <2>2, <2>4, <2>5, <2>6
  <2> QED
    BY <1>1, <1>2, <2>1, <2>2, <2>7, CountLocal
<1>5. CASE \E p \in ports :
             /\ Name(p.host, p.net) = Name(h[s].host, n)
             /\ h' = [h EXCEPT ![s].pc = "format", ![s].net = n, ![s].nets = @ \ {n},
                               ![s].port = p.id]
  <2>p. PICK p \in ports :
             /\ Name(p.host, p.net) = Name(h[s].host, n)
             /\ h' = [h EXCEPT ![s].pc = "format", ![s].net = n, ![s].nets = @ \ {n},
                               ![s].port = p.id]
    BY <1>5
  <2>x. PICK x : x = [h[s] EXCEPT !.pc = "format", !.net = n, !.nets = @ \ {n}, !.port = p.id]
    OBVIOUS
  <2>1. h' = [h EXCEPT ![s] = x]
    BY <1>1, <2>p, <2>x DEF TypeOK
  <2>2. /\ x.host = h[s].host /\ x.live = h[s].live /\ x.pc = "format" /\ x.net = n
        /\ x.nets = h[s].nets \ {n}
    BY <1>1, <2>x DEF Handler
  <2>3. Visible(h[s].host, Short[n])
    BY <2>p DEF Visible, Name
  <2>4. MayCreate(x, c) => MayCreate(h[s], c)
    BY <1>1, <2>2 DEF MayCreate, Awaits, Visible
  <2>5. ~Awaits(h[s], c) /\ ~Awaits(x, c)
    BY <1>1, <2>2 DEF Awaits
  <2>6. MayCreate(h[s], c) => MayCreate(x, c) \/ Visible(h[s].host, c)
    BY <1>1, <2>2, <2>3, <2>5 DEF MayCreate, Visible
  <2>7. /\ x.host = a /\ MayCreate(x, c) => MayCreate(h[s], c)
        /\ x.host = a /\ (MayCreate(h[s], c) \/ Awaits(h[s], c)) =>
               MayCreate(x, c) \/ Awaits(x, c) \/ Visible(a, c)
    BY <2>2, <2>4, <2>5, <2>6
  <2> QED
    BY <1>1, <1>2, <2>1, <2>2, <2>7, CountLocal
<1> QED
  BY <1>3, <1>4, <1>5

\* The handler was counted as a maker, its request is counted from now on.
LEMMA CreateCounted ==
    ASSUME Inv, TypeOK', IsFiniteSet(ports \cup pending), NEW a \in Hosts, NEW c, Counted(a, c),
           NEW s \in Slots, CreatePort(s)
    PROVE  Counted(a, c)'
<1>1. TypeOK /\ h[s] \in Handler /\ h[s].pc = "create"
  BY DEF Inv, TypeOK, CreatePort, At
<1>2. ports' = ports /\ NoFault
  BY DEF CreatePort
<1>3. PICK i : /\ pending' = pending \cup {[id |-> i, host |-> h[s].host, net |-> h[s].net]}
               /\ h' = [h EXCEPT ![s].pc = "await", ![s].port = i]
  BY DEF CreatePort
<1> PICK p : p = [id |-> i, host |-> h[s].host, net |-> h[s].net]
  OBVIOUS
<1> PICK x : x = [h[s] EXCEPT !.pc = "await", !.port = i]
  OBVIOUS
<1>4. pending' = pending \cup {p} /\ p.host = h[s].host /\ p.net = h[s].net
  BY <1>3
<1>5. h' = [h EXCEPT ![s] = x]
  BY <1>1, <1>3 DEF TypeOK
<1>6. /\ x.host = h[s].host /\ x.live = h[s].live /\ x.pc = "await" /\ x.net = h[s].net
      /\ x.nets = h[s].nets
  BY <1>1 DEF Handler
<1>7. h'[s] = x /\ \A t \in Slots \ {s} : h'[t] = h[t]
  BY <1>1, <1>5 DEF TypeOK
<1>8. \A t \in Slots : /\ MayCreate(h[t], c)' <=> MayCreate(h'[t], c)
                       /\ Awaits(h[t], c)' <=> Awaits(h'[t], c)
  BY <1>2 DEF MayCreate, Awaits, Visible
<1>9. /\ MayCreate(x, c) => MayCreate(h[s], c) /\ Short[h[s].net] # c
      /\ MayCreate(h[s], c) => MayCreate(x, c) \/ Awaits(x, c)
      /\ ~Awaits(h[s], c)
  BY <1>1, <1>6 DEF MayCreate, Awaits, Visible
<1>10. Covered(a, c) => Covered(a, c)'
  <2>1. Visible(a, c) => Visible(a, c)'
    BY <1>2 DEF Visible
  <2>2. ASSUME NEW t \in Slots, h[t].live, h[t].host = a, MayCreate(h[t], c) \/ Awaits(h[t], c)
        PROVE  h'[t].live /\ h'[t].host = a /\ (MayCreate(h'[t], c) \/ Awaits(h'[t], c))
    BY <1>6, <1>7, <1>9, <2>2
  <2> QED
    BY <1>8, <2>1, <2>2 DEF Covered
<1>11. CASE h[s].host = a /\ Short[h[s].net] = c
  <2>1. Class(a, c)' \subseteq Class(a, c) \cup {p}
    BY <1>2, <1>4 DEF Class
  <2>2. s \in Makers(a, c)
    BY <1>1, <1>11 DEF Makers, MayCreate
  <2>3. Makers(a, c)' \subseteq Makers(a, c) \ {s}
    BY <1>7, <1>8, <1>9, <1>11 DEF Makers
  <2> QED
    BY <1>1, <1>2, <1>10, <2>1, <2>2, <2>3, BudgetGrows, CountMade
<1>12. CASE ~(h[s].host = a /\ Short[h[s].net] = c)
  <2>1. Class(a, c)' \subseteq Class(a, c)
    BY <1>2, <1>4, <1>12 DEF Class
  <2>2. Makers(a, c)' \subseteq Makers(a, c)
    BY <1>6, <1>7, <1>8, <1>9 DEF Makers
  <2> QED
    BY <1>1, <1>2, <1>10, <2>1, <2>2, BudgetGrows, CountKept
<1> QED
  BY <1>11, <1>12

LEMMA CreatedCounted ==
    ASSUME Inv, TypeOK', IsFiniteSet(ports \cup pending), NEW a \in Hosts, NEW c, Counted(a, c),
           NEW s \in Slots, Created(s)
    PROVE  Counted(a, c)'
<1>1. TypeOK /\ h[s] \in Handler /\ HandlerOK(h[s]) /\ h[s].pc = "await"
  BY DEF Inv, TypeOK, HandlersOK, Created, At
<1>2. UNCHANGED <<ports, pending>> /\ NoFault
  BY DEF Created, openstack
<1>x. PICK x : x = [h[s] EXCEPT !.pc = "format"]
  OBVIOUS
<1>3. h' = [h EXCEPT ![s] = x]
  BY <1>1, <1>x DEF Created, TypeOK
<1>4. /\ x.host = h[s].host /\ x.live = h[s].live /\ x.net = h[s].net /\ x.nets = h[s].nets
      /\ x.pc = "format"
  BY <1>1, <1>x DEF Handler
<1>5. Visible(h[s].host, Short[h[s].net])
  <2>1. PICK p \in ports : p.id = h[s].port
    BY DEF Created
  <2>2. PortOf(h[s]) \in ports \cup pending
    BY <1>1 DEF HandlerOK
  <2>3. PortOf(h[s]).id = h[s].port /\ PortOf(h[s]).host = h[s].host /\ PortOf(h[s]).net = h[s].net
    BY DEF PortOf
  <2>4. PortOf(h[s]) = p
    BY <2>1, <2>2, <2>3 DEF Inv, UniqueIds
  <2> QED
    BY <2>1, <2>3, <2>4 DEF Visible
<1>6. MayCreate(x, c) => MayCreate(h[s], c)
  BY <1>1, <1>4, <1>5 DEF MayCreate, Awaits
<1>7. MayCreate(h[s], c) \/ Awaits(h[s], c) => MayCreate(x, c) \/ Visible(h[s].host, c)
  BY <1>1, <1>4, <1>5 DEF MayCreate, Awaits
<1>8. /\ x.host = a /\ MayCreate(x, c) => MayCreate(h[s], c)
      /\ x.host = a /\ (MayCreate(h[s], c) \/ Awaits(h[s], c)) =>
             MayCreate(x, c) \/ Awaits(x, c) \/ Visible(a, c)
  BY <1>4, <1>6, <1>7
<1> QED
  BY <1>1, <1>2, <1>3, <1>4, <1>8, CountLocal

LEMMA FormatCounted ==
    ASSUME Inv, TypeOK', IsFiniteSet(ports \cup pending), NEW a \in Hosts, NEW c, Counted(a, c),
           NEW s \in Slots, FormatPort(s) \/ SubnetFails(s)
    PROVE  Counted(a, c)'
<1>1. TypeOK /\ h[s] \in Handler /\ h[s].pc = "format"
  BY DEF Inv, TypeOK, FormatPort, SubnetFails, At
<1>2. UNCHANGED <<ports, pending>> /\ (NoFault \/ Fault)
  BY DEF FormatPort, SubnetFails, openstack
<1>3. PICK e : h' = [h EXCEPT ![s].pc = "ports", ![s].net = NoNet, ![s].port = 0,
                              ![s].eps = @ \cup {e}]
  BY DEF FormatPort, SubnetFails, AddEndpoint
<1>x. PICK x : x = [h[s] EXCEPT !.pc = "ports", !.net = NoNet, !.port = 0, !.eps = @ \cup {e}]
  OBVIOUS
<1>4. h' = [h EXCEPT ![s] = x]
  BY <1>1, <1>3, <1>x DEF TypeOK
<1>5. /\ x.host = h[s].host /\ x.live = h[s].live /\ x.nets = h[s].nets /\ x.pc = "ports"
  BY <1>1, <1>x DEF Handler
<1>6. /\ MayCreate(x, c) <=> MayCreate(h[s], c)
      /\ ~Awaits(h[s], c)
  BY <1>1, <1>5 DEF MayCreate, Awaits, Visible
<1>7. /\ x.host = a /\ MayCreate(x, c) => MayCreate(h[s], c)
      /\ x.host = a /\ (MayCreate(h[s], c) \/ Awaits(h[s], c)) =>
             MayCreate(x, c) \/ Awaits(x, c) \/ Visible(a, c)
  BY <1>6
<1> QED
  BY <1>1, <1>2, <1>4, <1>5, <1>7, CountLocal

LEMMA FailsCounted ==
    ASSUME Inv, TypeOK', IsFiniteSet(ports \cup pending), NEW a \in Hosts, NEW c, Counted(a, c),
           NEW s \in Slots, CreateFails(s) \/ CallFails(s)
    PROVE  Counted(a, c)'
<1>1. \A t \in Slots : h'[t] = Free \/ h'[t] = h[t]
  BY DEF CreateFails, CallFails, Refuse, Inv, TypeOK
<1>2. ports' = ports /\ pending' \subseteq pending /\ Fault
  BY DEF CreateFails, CallFails, openstack
<1> QED
  BY <1>1, <1>2, CountDismissed DEF Inv

\* A handler that has done all networks is no maker.
LEMMA ReplyCounted ==
    ASSUME Inv, TypeOK', IsFiniteSet(ports \cup pending), NEW a \in Hosts, NEW c, Counted(a, c),
           NEW s \in Slots, Reply(s)
    PROVE  Counted(a, c)'
<1>1. TypeOK /\ ~MayCreate(h[s], c) /\ ~Awaits(h[s], c)
  BY DEF Inv, Reply, At, MayCreate, Awaits
<1>2. ports' = ports /\ pending' = pending /\ NoFault
  BY DEF Reply, openstack
<1>3. h'[s] = Free /\ \A t \in Slots \ {s} : h'[t] = h[t]
  BY DEF Reply, Inv, TypeOK
<1>4. ~MayCreate(Free, c)
  BY DEF MayCreate, Free
<1>5. \A t \in Slots : /\ MayCreate(h[t], c)' <=> MayCreate(h'[t], c)
                       /\ Awaits(h[t], c)' <=> Awaits(h'[t], c)
  BY <1>2 DEF MayCreate, Awaits, Visible
<1>6. Class(a, c)' \subseteq Class(a, c)
  BY <1>2 DEF Class
<1>7. Makers(a, c)' \subseteq Makers(a, c)
  BY <1>3, <1>4, <1>5 DEF Makers
<1>8. Covered(a, c) => Covered(a, c)'
  <2>1. Visible(a, c) => Visible(a, c)'
    BY <1>2 DEF Visible
  <2>2. ASSUME NEW t \in Slots, MayCreate(h[t], c) \/ Awaits(h[t], c) PROVE h'[t] = h[t]
    BY <1>1, <1>3, <2>2
  <2> QED
    BY <1>5, <2>1, <2>2 DEF Covered
<1> QED
  BY <1>1, <1>2, <1>6, <1>7, <1>8, BudgetGrows, CountKept

LEMMA ExecuteCounted ==
    ASSUME Inv, TypeOK', IsFiniteSet(ports \cup pending), NEW a \in Hosts, NEW c, Counted(a, c),
           ExecuteCreate
    PROVE  Counted(a, c)'
<1>1. /\ ports \subseteq ports' /\ ports' \cup pending' = ports \cup pending
      /\ h' = h /\ NoFault
  BY DEF ExecuteCreate
<1>2. Class(a, c)' \subseteq Class(a, c)
  BY <1>1 DEF Class
<1>3. \A b : Visible(b, c) => Visible(b, c)'
  BY <1>1 DEF Visible
<1>4. Makers(a, c)' \subseteq Makers(a, c)
  BY <1>1, <1>3 DEF Makers, MayCreate, Awaits
<1>5. Covered(a, c) => Covered(a, c)'
  BY <1>1, <1>3 DEF Covered, MayCreate, Awaits
<1> QED
  BY <1>1, <1>2, <1>4, <1>5, BudgetGrows, CountKept DEF Inv

\* An agent that sends a request has no other handler that is not abandoned: the new one
\* is to create the first port of a class that has none.
LEMMA SendCounted ==
    ASSUME Inv, OneWaits, TypeOK', IsFiniteSet(ports \cup pending), NEW a \in Hosts, NEW c,
           Counted(a, c), NEW b \in Hosts, Send(b)
    PROVE  Counted(a, c)'
<1>1. PICK s \in Slots :
          /\ h[s].pc = "free"
          /\ h' = [h EXCEPT ![s] = [Free EXCEPT !.pc = "list", !.host = b, !.live = TRUE]]
  BY DEF Send
<1>2. TypeOK /\ ports' = ports /\ pending' = pending /\ NoFault /\ agent[b] = "idle"
  BY DEF Send, Inv, openstack
<1>x. PICK x : x = [Free EXCEPT !.pc = "list", !.host = b, !.live = TRUE]
  OBVIOUS
<1>3. x.pc = "list" /\ x.host = b /\ x.live = TRUE
  BY <1>x DEF Free
<1>4. h'[s] = x /\ \A t \in Slots \ {s} : h'[t] = h[t]
  BY <1>1, <1>2, <1>x DEF TypeOK
<1>5. \A t \in Slots : /\ MayCreate(h[t], c)' <=> MayCreate(h'[t], c)
                       /\ Awaits(h[t], c)' <=> Awaits(h'[t], c)
  BY <1>2 DEF MayCreate, Awaits, Visible
<1>6. Class(a, c)' \subseteq Class(a, c)
  BY <1>2 DEF Class
<1>7. ~MayCreate(h[s], c) /\ ~Awaits(h[s], c)
  BY <1>1 DEF MayCreate, Awaits
<1>8. MayCreate(x, c) <=> ~Visible(b, c)
  BY <1>3 DEF MayCreate, Awaits
<1>9. CASE a = b /\ ~Visible(b, c)
  <2>1. Makers(a, c)' \subseteq Makers(a, c) \cup {s}
    BY <1>4, <1>5 DEF Makers
  <2>2. ~Covered(a, c)
    BY <1>2, <1>9 DEF Covered, OneWaits
  <2>3. h'[s].live /\ h'[s].host = a /\ MayCreate(h[s], c)'
    BY <1>3, <1>4, <1>5, <1>8, <1>9
  <2>4. Covered(a, c)'
    BY <2>3 DEF Covered
  <2> QED
    BY <1>2, <1>6, <2>1, <2>2, <2>4, BudgetGrows, CountAdded
<1>10. CASE ~(a = b /\ ~Visible(b, c))
  <2>1. Makers(a, c)' \subseteq Makers(a, c)
    BY <1>3, <1>4, <1>5, <1>8, <1>10 DEF Makers
  <2>2. Covered(a, c) => Covered(a, c)'
    <3>1. Visible(a, c) => Visible(a, c)'
      BY <1>2 DEF Visible
    <3>2. ASSUME NEW t \in Slots, MayCreate(h[t], c) \/ Awaits(h[t], c) PROVE h'[t] = h[t]
      BY <1>4, <1>7, <3>2
    <3> QED
      BY <1>5, <3>1, <3>2 DEF Covered
  <2> QED
    BY <1>2, <1>6, <2>1, <2>2, BudgetGrows, CountKept
<1> QED
  BY <1>9, <1>10

LEMMA LeaveCounted ==
    ASSUME Inv, TypeOK', IsFiniteSet(ports \cup pending), NEW a \in Hosts, NEW c, Counted(a, c),
           NEW b \in Hosts, GiveUp(b) \/ RestartAgent(b)
    PROVE  Counted(a, c)'
<1>1. h' = Abandoned(b) /\ ports' = ports /\ pending' = pending /\ (Fault \/ Restart)
  BY DEF GiveUp, RestartAgent, openstack
<1>2. \A t \in Slots : h'[t] = h[t] \/ h'[t] = [h[t] EXCEPT !.live = FALSE]
  BY <1>1 DEF Abandoned
<1> QED
  BY <1>1, <1>2, CountDismissed DEF Inv

LEMMA CountStep ==
    ASSUME Inv, OneWaits, TypeOK', IsFiniteSet(ports \cup pending), NEW a \in Hosts, NEW c,
           Counted(a, c), [Next]_vars
    PROVE  Counted(a, c)'
<1>1. CASE \E s \in Slots : Handle(s)
  BY <1>1, ServersCounted, CollectCounted, FindCounted, CreateCounted, CreatedCounted, FormatCounted,
     FailsCounted, ReplyCounted DEF Handle
<1>2. ASSUME NEW b \in Hosts, Apply(b) PROVE Counted(a, c)'
  <2>1. h' = h /\ ports' = ports /\ pending' = pending /\ (NoFault \/ Fault)
    BY <1>2 DEF Apply, Reconcile, ReconcileFails, Publish, openstack
  <2> QED
    BY <2>1, BudgetGrows, CountQuiet DEF Inv
<1>3. CASE RestartControl
  <2>1. \A t \in Slots : h'[t] = Free
    BY <1>3 DEF RestartControl
  <2>2. ports' = ports /\ pending' = pending /\ Restart
    BY <1>3 DEF RestartControl, openstack
  <2> QED
    BY <2>1, <2>2, CountDismissed DEF Inv
<1>4. CASE Move \/ UNCHANGED vars
  <2>1. h' = h /\ ports' = ports /\ pending' = pending /\ faults' = faults /\ restarts' = restarts
    BY <1>4 DEF Move, vars, openstack, counters
  <2>2. faults + restarts <= faults' + restarts'
    BY <2>1, FaultsTyped DEF Inv
  <2> QED
    BY <2>1, <2>2, CountQuiet DEF Inv
<1> QED
  BY <1>1, <1>2, <1>3, <1>4, SendCounted, LeaveCounted, ExecuteCounted DEF Next

LEMMA FiniteStep ==
    ASSUME IsFiniteSet(ports \cup pending), [Next]_vars
    PROVE  IsFiniteSet(ports \cup pending)'
<1>1. CASE \E s \in Slots : CreatePort(s)
  <2>1. PICK p : ports' = ports /\ pending' = pending \cup {p}
    BY <1>1 DEF CreatePort
  <2>2. ports' \cup pending' = (ports \cup pending) \cup {p}
    BY <2>1
  <2>3. IsFiniteSet((ports \cup pending) \cup {p})
    BY FS_AddElement
  <2> QED
    BY <2>2, <2>3, Zenon
<1>2. CASE ~\E s \in Slots : CreatePort(s)
  <2>1. ports' \cup pending' \subseteq ports \cup pending
    BY <1>2 DEF Next, vars, openstack, Handle, Apply, ListServers, SkipServer, AddTarget,
       CollectNetworks, FindPort, Created, CreateFails, CallFails, FormatPort, SubnetFails, Reply,
       Send, GiveUp, Reconcile, ReconcileFails, Publish, RestartAgent, ExecuteCreate,
       RestartControl, Move
  <2> QED
    BY <2>1, FS_Subset
<1> QED
  BY <1>1, <1>2

\* EnsureHostPorts searches before it creates, in two calls, and handlers whose agent has
\* gone run beside its next one: however many syncs follow, a host has at most one port
\* of a name and one more for every lost answer or restart.
THEOREM DuplicatesCounted == Spec => []DuplicatesExplained
<1>1. Init => PortsCounted
  <2> SUFFICES ASSUME Init PROVE PortsCounted
    OBVIOUS
  <2>1. ports = {} /\ pending = {} /\ faults = 0 /\ restarts = 0
    BY DEF Init
  <2>2. ports \cup pending = {} /\ IsFiniteSet({}) /\ Cardinality({}) = 0
    BY <2>1, FS_EmptySet
  <2>3. IsFiniteSet(ports \cup pending)
    BY <2>2, Zenon
  <2>4. ASSUME NEW a \in Hosts, NEW c PROVE Counted(a, c)
    <3>1. Class(a, c) = {}
      BY <2>1 DEF Class
    <3>2. Makers(a, c) = {}
      BY DEF Init, Makers, MayCreate, Free
    <3>3. Cardinality(Class(a, c)) = 0 /\ Cardinality(Makers(a, c)) = 0
      BY <2>2, <3>1, <3>2, Zenon
    <3> QED
      BY <2>1, <3>3 DEF Counted
  <2> QED
    BY <2>3, <2>4 DEF PortsCounted
<1>2. (Inv /\ OneWaits) /\ (Inv /\ OneWaits)' /\ PortsCounted /\ [Next]_vars => PortsCounted'
  <2> SUFFICES ASSUME Inv, OneWaits, TypeOK', PortsCounted, [Next]_vars PROVE PortsCounted'
    BY DEF Inv
  <2>1. ASSUME NEW a \in Hosts, NEW n \in Nets PROVE Counted(a, Short[n])'
    BY CountStep DEF PortsCounted
  <2>2. IsFiniteSet(ports \cup pending)'
    BY FiniteStep DEF PortsCounted
  <2> QED
    BY <2>1, <2>2 DEF PortsCounted
<1>3. Inv /\ PortsCounted => DuplicatesExplained
  <2> SUFFICES ASSUME Inv, PortsCounted, NEW a \in Hosts, NEW n \in Nets
               PROVE  Cardinality({p \in ports : p.host = a /\ Short[p.net] = Short[n]})
                        <= 1 + faults + restarts
    BY DEF DuplicatesExplained
  <2> PICK P : P = {p \in ports : p.host = a /\ Short[p.net] = Short[n]}
    OBVIOUS
  <2>1. P \subseteq Class(a, Short[n])
    BY DEF Class
  <2>2. IsFiniteSet(ports \cup pending) /\ Counted(a, Short[n])
    BY DEF PortsCounted
  <2>3. /\ IsFiniteSet(Class(a, Short[n])) /\ Cardinality(Class(a, Short[n])) \in Nat
        /\ Cardinality(Makers(a, Short[n])) \in Nat
    BY <2>2, FiniteClasses
  <2>4. Cardinality(P) <= Cardinality(Class(a, Short[n])) /\ Cardinality(P) \in Nat
    BY <2>1, <2>3, FS_Subset, FS_CardinalityType
  <2>5. faults \in Nat /\ restarts \in Nat
    BY FaultsTyped DEF Inv
  <2>6. Cardinality(P) <= 1 + faults + restarts
    BY <2>2, <2>3, <2>4, <2>5 DEF Counted
  <2> QED
    BY <2>6
<1> QED
  BY <1>1, <1>2, <1>3, Invariance, PTL DEF Spec
=============================================================================
