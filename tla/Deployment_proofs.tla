-------------------------- MODULE Deployment_proofs --------------------------
(***************************************************************************)
(* Proofs about Deployment: the configured programs do nothing that        *)
(* HostSync does not allow, so what HostSync_proofs shows of its endpoints *)
(* and targets holds for them; and the targets an agent applies are what   *)
(* its host had meanwhile, which the handler it waits for (TraceOK) and    *)
(* the answer it works on (AnswerOK) carry along.                          *)
(***************************************************************************)
EXTENDS Deployment, HostSync_proofs

DStatusOK ==
    /\ config \in [Hosts -> AgentConfigs] /\ control \in ControlConfigs
    /\ synced \in [Hosts -> BOOLEAN] /\ lastError \in [Hosts -> BOOLEAN]
    /\ stayed \in [Hosts -> SUBSET VMs] /\ seen \in [Hosts -> SUBSET VMs]

-----------------------------------------------------------------------------

\* A step of the configured programs is one of Host Sync, or changes only their status.
LEMMA StepImplements == [DNext]_all => [Next]_vars
<1> SUFFICES ASSUME [DNext]_all PROVE [Next]_vars
  OBVIOUS
<1>1. CASE UNCHANGED all
  BY <1>1 DEF all
<1>2. CASE \E a \in Hosts : NoController(a) \/ NoRequest(a) \/ Unauthorized(a)
  BY <1>2 DEF NoController, NoRequest, Unauthorized, all
<1>3. CASE \E a \in Hosts : Request(a)
  BY <1>3 DEF Request, Next
<1>4. CASE \E a \in Hosts : StartAgent(a)
  BY <1>4 DEF StartAgent, Next
<1>5. CASE Work
  BY <1>5 DEF Work, Next
<1>6. CASE StartControl
  BY <1>6 DEF StartControl, Next
<1> QED
  BY <1>1, <1>2, <1>3, <1>4, <1>5, <1>6 DEF DNext

\* coordinator.go, handler.go: whatever the programs are configured with and however often
\* they start, they keep to the protocol of HostSync.
THEOREM KeepsProtocol == DSpec => Spec
<1>1. DInit => Init
  BY DEF DInit
<1> QED
  BY <1>1, StepImplements, PTL DEF DSpec, Spec

\* HostSync's results, for programs as they are configured: endpoints are ports of their
\* own host and have its name, however handlers of different lives of an agent overlap.
THEOREM ConfiguredEndpointsOwned == DSpec => []EndpointsBound
  BY KeepsProtocol, EndpointsOwned, PTL

\* The networks of an agent's targets are attached after a reconcile that succeeded.
THEOREM ConfiguredTargetsAttached == DSpec => []TargetsReachable
  BY KeepsProtocol, TargetsAttached, PTL

-----------------------------------------------------------------------------

LEMMA WantedTyped == ASSUME NEW a PROVE Wanted(a) \subseteq VMs /\ Wanted(a)' \subseteq VMs
  BY InventoryAssumption DEF Wanted

\* Recorded and Watched keep the types of what they record.
LEMMA AddedOK ==
    ASSUME DStatusOK, Watched
    PROVE  /\ stayed' \in [Hosts -> SUBSET VMs] /\ seen' \in [Hosts -> SUBSET VMs]
           /\ Recorded => synced' \in [Hosts -> BOOLEAN] /\ lastError' \in [Hosts -> BOOLEAN]
<1>1. stayed' \in [Hosts -> SUBSET VMs]
  BY WantedTyped DEF Watched
<1>2. seen' \in [Hosts -> SUBSET VMs]
  BY WantedTyped DEF Watched, DStatusOK
<1>3. Recorded => synced' \in [Hosts -> BOOLEAN] /\ lastError' \in [Hosts -> BOOLEAN]
  BY DEF DStatusOK, Recorded
<1> QED
  BY <1>1, <1>2, <1>3

LEMMA StatusStep == ASSUME DStatusOK, [DNext]_all PROVE DStatusOK'
<1>1. CASE UNCHANGED all
  BY <1>1 DEF all, status, history, DStatusOK
<1>2. CASE \E a \in Hosts : NoController(a)
  BY <1>2 DEF NoController, DStatusOK, history
<1>3. CASE \E a \in Hosts : NoRequest(a)
  BY <1>3 DEF NoRequest, all, status, history, DStatusOK
<1>4. CASE \E a \in Hosts : Request(a)
  BY <1>4, AddedOK DEF Request, status, DStatusOK
<1>5. CASE \E a \in Hosts : Unauthorized(a)
  BY <1>5 DEF Unauthorized, DStatusOK, history
<1>6. CASE \E a \in Hosts : StartAgent(a)
  <2>1. stayed' \in [Hosts -> SUBSET VMs] /\ seen' \in [Hosts -> SUBSET VMs]
    BY <1>6, AddedOK DEF StartAgent
  <2> QED
    BY <1>6, <2>1 DEF StartAgent, DStatusOK
<1>7. CASE Work
  BY <1>7, AddedOK DEF Work, Added, DStatusOK
<1>8. CASE StartControl
  BY <1>8, AddedOK DEF StartControl, DStatusOK
<1> QED
  BY <1>1, <1>2, <1>3, <1>4, <1>5, <1>6, <1>7, <1>8 DEF DNext

\* The types of the status, of the configurations and of HostSync's state.
THEOREM DTypeCorrect == DSpec => []DTypeOK
<1>1. DInit => DStatusOK
  BY DEF DInit, DStatusOK
<1>2. DStatusOK /\ [DNext]_all => DStatusOK'
  BY StatusStep
<1>3. DSpec => []DStatusOK
  BY <1>1, <1>2, PTL DEF DSpec
<1>4. TypeOK /\ DStatusOK => DTypeOK
  BY DEF DTypeOK, DStatusOK
<1> QED
  BY <1>3, <1>4, KeepsProtocol, TypeCorrect, PTL

-----------------------------------------------------------------------------
(* What an agent applies is what its host had meanwhile.                   *)

\* The handler an agent waits for: what it has found has been seen, and what stayed is
\* found, or yet to be looked at.
TraceOK(x) ==
    x.live =>
      /\ x.pc = "list" => x.found = {}
      /\ x.found \subseteq seen[x.host]
      /\ x.pc = "servers" =>
            /\ stayed[x.host] \subseteq x.todo \cup x.found
            /\ {v \in x.todo \cap GPU : Primary[v] # NoNet} \subseteq seen[x.host]
      /\ x.pc \notin {"list", "servers"} => stayed[x.host] \subseteq x.found

AnswerOK(a) ==
    /\ stayed[a] \subseteq Wanted(a)
    /\ agent[a] # "idle" => Wanted(a) \subseteq seen[a]
    /\ agent[a] \in {"reconcile", "publish"} =>
          stayed[a] \subseteq resp[a].found /\ resp[a].found \subseteq seen[a]

Traced == (\A s \in Slots : TraceOK(h[s])) /\ (\A a \in Hosts : AnswerOK(a))

\* While an agent is busy, what stayed can only shrink and what was seen only grow.
LEMMA WatchedBusy ==
    ASSUME Watched, NEW a \in Hosts, agent[a] # "idle", agent'[a] # "idle"
    PROVE  /\ stayed'[a] \subseteq stayed[a] \ Skipped(a) /\ seen[a] \subseteq seen'[a]
           /\ stayed'[a] \subseteq Wanted(a)' /\ Wanted(a)' \subseteq seen'[a]
<1>1. stayed'[a] = Wanted(a)' \ ((VMs \ stayed[a]) \cup Skipped(a))
  BY DEF Watched
<1>2. seen'[a] = seen[a] \cup Wanted(a)'
  BY DEF Watched
<1> QED
  BY <1>1, <1>2, WantedTyped

LEMMA WatchedIdle ==
    ASSUME Watched, NEW a \in Hosts
    PROVE  /\ agent'[a] = "idle" => stayed'[a] = {}
           /\ agent[a] = "idle" /\ agent'[a] # "idle" =>
                 stayed'[a] = Wanted(a)' /\ Wanted(a)' \subseteq seen'[a]
  BY DEF Watched

\* Any step keeps what an agent works on in order, unless it is the one that answers it.
LEMMA AnswerKept ==
    ASSUME Watched, NEW a \in Hosts, AnswerOK(a),
           agent'[a] \in {"reconcile", "publish"} =>
               agent[a] \in {"reconcile", "publish"} /\ resp'[a] = resp[a]
    PROVE  AnswerOK(a)'
<1>1. CASE agent'[a] = "idle"
  BY <1>1, WatchedIdle DEF AnswerOK
<1>2. CASE agent'[a] # "idle" /\ agent[a] = "idle"
  BY <1>2, WatchedIdle DEF AnswerOK
<1>3. CASE agent'[a] # "idle" /\ agent[a] # "idle"
  BY <1>3, WatchedBusy DEF AnswerOK
<1> QED
  BY <1>1, <1>2, <1>3

\* A handler that goes on, or is left alone, in a step its agent waits through.
LEMMA TraceKept ==
    ASSUME Watched, NEW s \in Slots, TraceOK(h[s]), h'[s] = h[s],
           h[s].live => h[s].host \in Hosts /\ agent[h[s].host] # "idle" /\ agent'[h[s].host] # "idle"
    PROVE  TraceOK(h[s])'
<1> SUFFICES ASSUME h[s].live PROVE TraceOK(h[s])'
  BY DEF TraceOK
<1>1. /\ stayed'[h[s].host] \subseteq stayed[h[s].host]
      /\ seen[h[s].host] \subseteq seen'[h[s].host]
  BY WatchedBusy
<1> QED
  BY <1>1 DEF TraceOK

\* The five ways in which a handler goes on; it keeps its host and its client.
LEMMA HandlerGoesOn ==
    ASSUME TypeOK, NEW s \in Slots, Handle(s), h'[s].live
    PROVE  /\ h[s].live /\ h'[s].host = h[s].host
           /\ \/ /\ h[s].pc = "list" /\ h'[s].pc = "servers" /\ h'[s].found = h[s].found
                 /\ h'[s].todo = {v \in VMs : on[v] = h[s].host}
              \/ /\ h[s].pc = "servers" /\ h'[s].pc = "servers" /\ h'[s].found = h[s].found
                 /\ h'[s].todo \subseteq h[s].todo
              \/ \E v \in h[s].todo \cap GPU :
                 /\ h[s].pc = "servers" /\ h'[s].pc = "servers" /\ Primary[v] # NoNet
                 /\ h'[s].todo = h[s].todo \ {v} /\ h'[s].found = h[s].found \cup {v}
              \/ /\ h[s].pc = "servers" /\ h[s].todo = {} /\ h'[s].found = h[s].found
                 /\ h'[s].pc \notin {"list", "servers"}
              \/ /\ h[s].pc \notin {"list", "servers"} /\ h'[s].pc \notin {"list", "servers"}
                 /\ h'[s].found = h[s].found
<1>1. h[s] \in Handler /\ h \in [Slots -> Handler]
  BY DEF TypeOK
<1>2. CASE ListServers(s)
  BY <1>1, <1>2 DEF ListServers, At, Handler
<1>3. CASE SkipServer(s)
  BY <1>1, <1>3 DEF SkipServer, At, Handler
<1>4. CASE AddTarget(s)
  BY <1>1, <1>4 DEF AddTarget, At, Handler
<1>5. CASE CollectNetworks(s)
  BY <1>1, <1>5 DEF CollectNetworks, At, Handler
<1>6. CASE FindPort(s)
  BY <1>1, <1>6 DEF FindPort, At, Handler
<1>7. CASE CreatePort(s) \/ Created(s)
  BY <1>1, <1>7 DEF CreatePort, Created, At, Handler
<1>8. CASE FormatPort(s) \/ SubnetFails(s)
  BY <1>1, <1>8 DEF FormatPort, SubnetFails, AddEndpoint, At, Handler
<1>9. CASE CreateFails(s) \/ CallFails(s) \/ Reply(s)
  <2>1. h'[s] = Free
    BY <1>1, <1>9 DEF CreateFails, CallFails, Refuse, Reply
  <2> QED
    BY <2>1 DEF Free
<1> QED
  BY <1>2, <1>3, <1>4, <1>5, <1>6, <1>7, <1>8, <1>9 DEF Handle

LEMMA HandleFrame ==
    ASSUME TypeOK, NEW s \in Slots, Handle(s)
    PROVE  /\ on' = on /\ targets' = targets /\ \A t \in Slots \ {s} : h'[t] = h[t]
           /\ \/ agent' = agent /\ resp' = resp
              \/ /\ resp' = resp
                 /\ \A b \in Hosts : agent'[b] = agent[b] \/ agent'[b] = "idle"
              \/ /\ h[s].live /\ h[s].pc = "ports"
                 /\ resp' = [resp EXCEPT ![h[s].host] = [found |-> h[s].found, eps |-> h[s].eps]]
                 /\ agent' = [agent EXCEPT ![h[s].host] = "reconcile"]
<1> USE DEF TypeOK, openstack, agents
<1>1. CASE ListServers(s) \/ SkipServer(s) \/ AddTarget(s) \/ CollectNetworks(s) \/ FindPort(s)
  BY <1>1 DEF ListServers, SkipServer, AddTarget, CollectNetworks, FindPort
<1>2. CASE CreatePort(s) \/ Created(s) \/ FormatPort(s) \/ SubnetFails(s)
  BY <1>2 DEF CreatePort, Created, FormatPort, SubnetFails, AddEndpoint
<1>3. CASE CreateFails(s) \/ CallFails(s)
  BY <1>3 DEF CreateFails, CallFails, Refuse
<1>4. CASE Reply(s)
  BY <1>4 DEF Reply, At
<1> QED
  BY <1>1, <1>2, <1>3, <1>4 DEF Handle

\* What the handler leaves out is no longer among what stayed, so that all that stayed is
\* found by the time it has looked at every server.
LEMMA TraceGoesOn ==
    ASSUME Inv, OneWaits, OneWaits', Watched, NEW s \in Slots, Handle(s), TraceOK(h[s]),
           \A a \in Hosts : AnswerOK(a)
    PROVE  TraceOK(h[s])'
<1> SUFFICES ASSUME h'[s].live PROVE TraceOK(h[s])'
  BY DEF TraceOK
<1>1. PICK x \in Handler : x = h[s]
  BY DEF Inv, TypeOK
<1>2. PICK y : y = h'[s]
  OBVIOUS
<1>3. x.live /\ y.host = x.host /\ y.live
  BY <1>1, <1>2, HandlerGoesOn DEF Inv
<1>4. PICK a \in Hosts : a = x.host
  BY <1>1, <1>3 DEF OneWaits
<1>5. agent[a] # "idle" /\ agent'[a] # "idle"
  BY <1>1, <1>2, <1>3, <1>4 DEF OneWaits
<1>6. /\ stayed'[a] \subseteq stayed[a] \ Skipped(a) /\ seen[a] \subseteq seen'[a]
      /\ stayed'[a] \subseteq Wanted(a)' /\ Wanted(a)' \subseteq seen'[a]
  BY <1>5, WatchedBusy
<1>7. Wanted(a)' = {v \in GPU : on[v] = a /\ Primary[v] # NoNet}
  BY HandleFrame DEF Wanted, Inv
<1>8. x.pc = "servers" => x.todo \ (y.todo \cup y.found) \subseteq Skipped(a)
  BY <1>1, <1>2, <1>3, <1>4 DEF Skipped
<1>9. /\ x.pc = "list" => x.found = {}
      /\ x.found \subseteq seen[a]
      /\ x.pc = "servers" =>
            /\ stayed[a] \subseteq x.todo \cup x.found
            /\ {v \in x.todo \cap GPU : Primary[v] # NoNet} \subseteq seen[a]
      /\ x.pc \notin {"list", "servers"} => stayed[a] \subseteq x.found
  BY <1>1, <1>3, <1>4 DEF TraceOK
<1>10. \/ /\ x.pc = "list" /\ y.pc = "servers" /\ y.found = x.found
          /\ y.todo = {v \in VMs : on[v] = a}
       \/ /\ x.pc = "servers" /\ y.pc = "servers" /\ y.found = x.found /\ y.todo \subseteq x.todo
       \/ \E v \in x.todo \cap GPU :
             /\ x.pc = "servers" /\ y.pc = "servers" /\ Primary[v] # NoNet
             /\ y.todo = x.todo \ {v} /\ y.found = x.found \cup {v}
       \/ /\ x.pc = "servers" /\ x.todo = {} /\ y.found = x.found
          /\ y.pc \notin {"list", "servers"}
       \/ /\ x.pc \notin {"list", "servers"} /\ y.pc \notin {"list", "servers"}
          /\ y.found = x.found
  BY <1>1, <1>2, <1>4, HandlerGoesOn DEF Inv
<1>11. /\ y.pc # "list"
       /\ y.found \subseteq seen'[a]
       /\ y.pc = "servers" =>
             /\ stayed'[a] \subseteq y.todo \cup y.found
             /\ {v \in y.todo \cap GPU : Primary[v] # NoNet} \subseteq seen'[a]
       /\ y.pc \notin {"list", "servers"} => stayed'[a] \subseteq y.found
  <2>1. CASE /\ x.pc = "list" /\ y.pc = "servers" /\ y.found = x.found
             /\ y.todo = {v \in VMs : on[v] = a}
    BY <1>6, <1>7, <1>9, <2>1, InventoryAssumption
  <2>2. CASE x.pc = "servers" /\ y.pc = "servers" /\ y.found = x.found /\ y.todo \subseteq x.todo
    BY <1>6, <1>8, <1>9, <2>2
  <2>3. CASE \E v \in x.todo \cap GPU :
               /\ x.pc = "servers" /\ y.pc = "servers" /\ Primary[v] # NoNet
               /\ y.todo = x.todo \ {v} /\ y.found = x.found \cup {v}
    BY <1>6, <1>8, <1>9, <2>3
  <2>4. CASE /\ x.pc = "servers" /\ x.todo = {} /\ y.found = x.found
             /\ y.pc \notin {"list", "servers"}
    BY <1>6, <1>9, <2>4
  <2>5. CASE /\ x.pc \notin {"list", "servers"} /\ y.pc \notin {"list", "servers"}
             /\ y.found = x.found
    BY <1>6, <1>9, <2>5
  <2> QED
    BY <1>10, <2>1, <2>2, <2>3, <2>4, <2>5
<1> QED
  BY <1>2, <1>3, <1>4, <1>11 DEF TraceOK

\* A handler's step, with the answer of the one the agent waits for.
LEMMA TracedHandle ==
    ASSUME Inv, OneWaits, OneWaits', Traced, Watched, NEW s \in Slots, Handle(s)
    PROVE  Traced'
<1>1. ASSUME NEW t \in Slots PROVE TraceOK(h[t])'
  <2>1. CASE t = s
    BY <2>1, TraceGoesOn DEF Traced
  <2>2. CASE t # s
    <3>1. h'[t] = h[t] /\ TraceOK(h[t])
      BY <2>2, HandleFrame DEF Inv, Traced
    <3>2. h[t].live => h[t].host \in Hosts /\ agent[h[t].host] # "idle" /\ agent'[h[t].host] # "idle"
      BY <3>1 DEF OneWaits
    <3> QED
      BY <3>1, <3>2, TraceKept
  <2> QED
    BY <2>1, <2>2
<1>2. ASSUME NEW a \in Hosts PROVE AnswerOK(a)'
  <2>1. AnswerOK(a)
    BY DEF Traced
  <2>2. CASE agent'[a] \in {"reconcile", "publish"} =>
               agent[a] \in {"reconcile", "publish"} /\ resp'[a] = resp[a]
    BY <2>1, <2>2, AnswerKept
  <2>3. CASE ~(agent'[a] \in {"reconcile", "publish"} =>
                 agent[a] \in {"reconcile", "publish"} /\ resp'[a] = resp[a])
    <3>1. /\ h[s].live /\ h[s].pc = "ports" /\ h[s].host = a
          /\ resp' = [resp EXCEPT ![a] = [found |-> h[s].found, eps |-> h[s].eps]]
          /\ agent' = [agent EXCEPT ![a] = "reconcile"]
      BY <2>3, HandleFrame DEF Inv, TypeOK
    <3>2. resp'[a].found = h[s].found /\ agent[a] = "waiting" /\ agent'[a] = "reconcile"
      BY <3>1 DEF Inv, TypeOK, OneWaits
    <3>3. TraceOK(h[s])
      BY DEF Traced
    <3>4. stayed[a] \subseteq h[s].found /\ h[s].found \subseteq seen[a]
      BY <3>1, <3>3 DEF TraceOK
    <3>5. /\ stayed'[a] \subseteq stayed[a] \ Skipped(a) /\ seen[a] \subseteq seen'[a]
          /\ stayed'[a] \subseteq Wanted(a)' /\ Wanted(a)' \subseteq seen'[a]
      BY <3>2, WatchedBusy
    <3> QED
      BY <3>2, <3>4, <3>5 DEF AnswerOK
  <2> QED
    BY <2>2, <2>3
<1> QED
  BY <1>1, <1>2 DEF Traced

\* A step of which no handler that is waited for is part.
LEMMA TracedApart ==
    ASSUME OneWaits, OneWaits', Traced, Watched,
           \A t \in Slots : h'[t].live => h'[t] = h[t],
           \A a \in Hosts : agent'[a] \in {"reconcile", "publish"} =>
               agent[a] \in {"reconcile", "publish"} /\ resp'[a] = resp[a]
    PROVE  Traced'
<1>1. ASSUME NEW t \in Slots PROVE TraceOK(h[t])'
  <2>1. CASE h'[t].live
    <3>1. h'[t] = h[t] /\ TraceOK(h[t])
      BY <2>1 DEF Traced
    <3>2. h[t].live => h[t].host \in Hosts /\ agent[h[t].host] # "idle" /\ agent'[h[t].host] # "idle"
      BY <3>1 DEF OneWaits
    <3> QED
      BY <3>1, <3>2, TraceKept
  <2>2. CASE ~h'[t].live
    BY <2>2 DEF TraceOK
  <2> QED
    BY <2>1, <2>2
<1>2. ASSUME NEW a \in Hosts PROVE AnswerOK(a)'
  BY AnswerKept DEF Traced
<1> QED
  BY <1>1, <1>2 DEF Traced

LEMMA TracedSend ==
    ASSUME Inv, OneWaits, OneWaits', Traced, Watched, NEW a \in Hosts, Send(a)
    PROVE  Traced'
<1>1. PICK s \in Slots :
          h' = [h EXCEPT ![s] = [Free EXCEPT !.pc = "list", !.host = a, !.live = TRUE]]
  BY DEF Send
<1>2. h'[s].pc = "list" /\ h'[s].found = {} /\ \A t \in Slots \ {s} : h'[t] = h[t]
  BY <1>1 DEF Inv, TypeOK, Free
<1>3. ASSUME NEW t \in Slots PROVE TraceOK(h[t])'
  <2>1. CASE t = s
    BY <1>2, <2>1 DEF TraceOK
  <2>2. CASE t # s
    <3>1. h'[t] = h[t] /\ TraceOK(h[t])
      BY <1>2, <2>2 DEF Traced
    <3>2. h[t].live => h[t].host \in Hosts /\ agent[h[t].host] # "idle" /\ agent'[h[t].host] # "idle"
      BY <3>1 DEF OneWaits
    <3> QED
      BY <3>1, <3>2, TraceKept
  <2> QED
    BY <2>1, <2>2
<1>4. ASSUME NEW b \in Hosts PROVE AnswerOK(b)'
  <2>1. agent'[b] \in {"reconcile", "publish"} =>
            agent[b] \in {"reconcile", "publish"} /\ resp'[b] = resp[b]
    BY DEF Send, Inv, TypeOK
  <2> QED
    BY <2>1, AnswerKept DEF Traced
<1> QED
  BY <1>3, <1>4 DEF Traced

LEMMA TracedStep ==
    ASSUME Inv, OneWaits, OneWaits', Traced, [DNext]_all
    PROVE  Traced'
<1>1. CASE UNCHANGED <<vars, history>>
  BY <1>1 DEF vars, agents, openstack, history, Traced, TraceOK, AnswerOK, Wanted
<1>2. CASE \E a \in Hosts : NoController(a) \/ NoRequest(a) \/ Unauthorized(a)
  BY <1>1, <1>2 DEF NoController, NoRequest, Unauthorized, all
<1>3. CASE \E a \in Hosts : Request(a)
  BY <1>3, TracedSend DEF Request
<1>4. CASE \E a \in Hosts : StartAgent(a)
  <2>1. PICK a \in Hosts : RestartAgent(a) /\ Watched
    BY <1>4 DEF StartAgent
  <2>2. \A t \in Slots : h'[t].live => h'[t] = h[t]
    BY <2>1, AbandonedTyped DEF RestartAgent, Abandoned, Inv, TypeOK, Handler
  <2>3. \A b \in Hosts : agent'[b] \in {"reconcile", "publish"} =>
               agent[b] \in {"reconcile", "publish"} /\ resp'[b] = resp[b]
    BY <2>1 DEF RestartAgent, Inv, TypeOK
  <2> QED
    BY <2>1, <2>2, <2>3, TracedApart
<1>5. CASE Work
  <2>1. Watched
    BY <1>5 DEF Work, Added
  <2>2. CASE \E s \in Slots : Handle(s)
    BY <2>1, <2>2, TracedHandle
  <2>3. ASSUME NEW a \in Hosts, GiveUp(a) PROVE Traced'
    <3>1. \A t \in Slots : h'[t].live => h'[t] = h[t]
      BY <2>3 DEF GiveUp, Abandoned, Inv, TypeOK, Handler
    <3>2. \A b \in Hosts : agent'[b] \in {"reconcile", "publish"} =>
               agent[b] \in {"reconcile", "publish"} /\ resp'[b] = resp[b]
      BY <2>3 DEF GiveUp, Inv, TypeOK
    <3> QED
      BY <2>1, <3>1, <3>2, TracedApart
  <2>4. ASSUME NEW a \in Hosts, Apply(a) PROVE Traced'
    <3>1. h' = h
      BY <2>4 DEF Apply, Reconcile, ReconcileFails, Publish
    <3>2. \A b \in Hosts : agent'[b] \in {"reconcile", "publish"} =>
               agent[b] \in {"reconcile", "publish"} /\ resp'[b] = resp[b]
      BY <2>4 DEF Apply, Reconcile, ReconcileFails, Publish, Inv, TypeOK
    <3> QED
      BY <2>1, <3>1, <3>2, TracedApart
  <2>5. CASE ExecuteCreate \/ Move
    BY <2>1, <2>5, TracedApart DEF ExecuteCreate, Move, agents
  <2> QED
    BY <1>5, <2>2, <2>3, <2>4, <2>5 DEF Work
<1>6. CASE StartControl
  <2>1. Watched /\ \A t \in Slots : h'[t] = Free
    BY <1>6 DEF StartControl, RestartControl
  <2>2. \A b \in Hosts : agent'[b] \in {"reconcile", "publish"} =>
               agent[b] \in {"reconcile", "publish"} /\ resp'[b] = resp[b]
    BY <1>6 DEF StartControl, RestartControl
  <2> QED
    BY <2>1, <2>2, TracedApart DEF Free
<1> QED
  BY <1>1, <1>2, <1>3, <1>4, <1>5, <1>6 DEF DNext, all

\* An agent's targets change by an answer it applies, or by a restart.
LEMMA TargetsChange ==
    ASSUME Inv, [DNext]_all, NEW a \in Hosts, restarts' = restarts, targets'[a] # targets[a]
    PROVE  agent[a] = "publish" /\ targets'[a] = resp[a].found
<1>1. ~Restart
  <2>1. restarts \in Nat
    BY FaultsTyped DEF Inv
  <2> QED
    BY <2>1 DEF Restart
<1>2. ~UNCHANGED vars
  BY DEF vars, agents
<1>3. ~(\E b \in Hosts : NoController(b) \/ NoRequest(b) \/ Unauthorized(b) \/ StartAgent(b))
  BY <1>1, <1>2 DEF NoController, NoRequest, Unauthorized, StartAgent, RestartAgent, all
<1>4. ~StartControl /\ ~UNCHANGED all
  BY <1>1, <1>2 DEF StartControl, RestartControl, all
<1>5. ~(\E b \in Hosts : Request(b))
  BY DEF Request, Send
<1>6. Work
  BY <1>3, <1>4, <1>5 DEF DNext
<1>7. ~(\E s \in Slots : Handle(s))
  BY HandleFrame DEF Inv
<1>8. PICK b \in Hosts : Publish(b)
  BY <1>6, <1>7 DEF Work, GiveUp, Apply, Reconcile, ReconcileFails, ExecuteCreate, Move, agents
<1> QED
  BY <1>8 DEF Publish, Inv, TypeOK

\* compute_node_agent_guide.md, "Control Service Outage": the targets change only when an
\* answer is applied, and then to servers the host had since the agent asked, with all
\* that stayed: no failing sync, no abandoned handler and no earlier answer drops one or
\* brings one back, for any number of hosts, handlers, moves, faults and starts.
THEOREM TargetsFollow == DSpec => TargetsCurrent
<1>1. Inv /\ OneWaits /\ [DNext]_all => (Inv /\ OneWaits)'
  BY StepImplements, StepInv
<1>2. DInit => Inv /\ OneWaits
  BY InitInv DEF DInit, Init, OneWaits, Free
<1>3. DInit => Traced
  BY DEF DInit, Init, Traced, TraceOK, AnswerOK, Free
<1>4. Inv /\ OneWaits /\ (Inv /\ OneWaits)' /\ Traced /\ [DNext]_all => Traced'
  BY TracedStep
<1>5. Inv /\ Traced /\ [DNext]_all =>
        [\A a \in Hosts : restarts' = restarts =>
            \/ targets'[a] = targets[a]
            \/ agent[a] = "publish" /\ stayed[a] \subseteq targets'[a] /\ targets'[a] \subseteq seen[a]]_all
  <2> SUFFICES ASSUME Inv, Traced, [DNext]_all, NEW a \in Hosts, restarts' = restarts,
                      targets'[a] # targets[a]
               PROVE  agent[a] = "publish" /\ stayed[a] \subseteq targets'[a] /\ targets'[a] \subseteq seen[a]
    OBVIOUS
  <2>1. agent[a] = "publish" /\ targets'[a] = resp[a].found
    BY TargetsChange
  <2>2. AnswerOK(a)
    BY DEF Traced
  <2> QED
    BY <2>1, <2>2 DEF AnswerOK
<1> QED
  BY <1>1, <1>2, <1>3, <1>4, <1>5, PTL DEF DSpec, TargetsCurrent
=============================================================================
