----------------------- MODULE NetworkManager_refines -----------------------
(***************************************************************************)
(* NetworkManager implements Reconciler: every step of the commands and    *)
(* loops is a step of the contract or leaves it alone.  Besides the        *)
(* invariant Inv it takes that a pair in its tenant namespace is in one    *)
(* whose loopback is up, so that bringing it up attaches nothing.          *)
(***************************************************************************)
EXTENDS NetworkManager_proofs

HomesUp == \A v \in Veths : NSOf[v] # "root" /\ link[v].place = NSOf[v] => nss[NSOf[v]] = "up"

USE EndpointAssumption, NSOfAssumption, NameAssumption, BoundAssumption

-----------------------------------------------------------------------------
(* HomesUp is inductive relative to Inv.                                   *)

LEMMA InitHomes == Init => HomesUp
  BY DEF Init, HomesUp, NoLink

\* A local step has to answer for the interface of `cur` only.
LEMMA HomesFrame ==
    ASSUME HomesUp, Local, cur \in Endpoints,
           Isolated /\ link'[cur.veth].place = ns => nss'[ns] = "up"
    PROVE  HomesUp'
<1> SUFFICES ASSUME NEW v \in Veths, NSOf[v] # "root", link'[v].place = NSOf[v]
             PROVE  nss'[NSOf[v]] = "up"
  BY DEF HomesUp
<1>1. CASE v = cur.veth
  BY <1>1 DEF ns, Isolated
<1>2. CASE v # cur.veth
  <2>1. link'[v] = link[v] /\ NSOf[v] \in NetNSs /\ NSOf[v] # ns
    BY <1>2 DEF Local, ns
  <2> QED
    BY <2>1 DEF Local, HomesUp
<1> QED
  BY <1>1, <1>2

LEMMA HomesSame == HomesUp /\ UNCHANGED host => HomesUp'
  BY DEF HomesUp, host

LEMMA HomesProvision ==
    ASSUME Inv, HomesUp, Provision
    PROVE  HomesUp'
<1>1. pc \in EPs \/ UNCHANGED host
  BY DEF Provision, NextEndpoint, EnsuresDone, ListNetNS, NetNSAdd, LoopbackUp, ShowInNS,
     ShowInRoot, LinkAdd, LinkAddRefused, MoveToNS, SetMAC, HostUp, AddrReplace, PeerUp, AddPort,
     SetIfaceID, Command, Query, EPs, EnsurePCs
<1> SUFFICES ASSUME pc \in EPs, ~UNCHANGED host, Isolated, link'[cur.veth].place = ns
             PROVE  nss'[ns] = "up"
  BY <1>1, HomesSame, HomesFrame, CurTyped, ProvisionLocal
<1>2. cur.veth \in Veths /\ ns \in NetNSs /\ HostOK /\ link[cur.veth] \in Link
      /\ cur.port \in Ports /\ (link[cur.veth].place = ns => nss[ns] = "up")
  BY CurTyped DEF Isolated, HomesUp, ns
<1>3. ~NextEndpoint /\ ~EnsuresDone /\ ~ListNetNS /\ ~ShowInNS /\ ~ShowInRoot /\ ~LinkAddRefused
  BY DEF NextEndpoint, EnsuresDone, ListNetNS, ShowInNS, ShowInRoot, LinkAddRefused, Query, Command
<1>4. CASE NetNSAdd
  <2>1. nss[ns] = "none" /\ UNCHANGED link
    BY <1>4 DEF NetNSAdd, Command, SetNS, Inv, Ladder
  <2> QED
    BY <1>2, <2>1
<1>5. CASE LoopbackUp
  BY <1>2, <1>5 DEF LoopbackUp, Command, SetNS, HostOK
<1>6. CASE LinkAdd
  <2>1. link'[cur.veth] = [NoLink EXCEPT !.place = "root"]
    BY <1>2, <1>6 DEF LinkAdd, Command, SetLink, HostOK
  <2> QED
    BY <2>1 DEF NoLink, Isolated
<1>7. CASE MoveToNS
  <2>1. nss[ns] = "up" /\ UNCHANGED nss
    BY <1>7 DEF MoveToNS, Command, SetLink, Inv, Ladder, EPs, EnsurePCs
  <2> QED
    BY <2>1
<1>8. CASE SetMAC \/ HostUp \/ PeerUp \/ AddrReplace
  <2>1. link[cur.veth].place = ns
    BY <1>8 DEF SetMAC, HostUp, PeerUp, AddrReplace, Command, Inv, Ladder
  <2>2. UNCHANGED nss
    BY <1>8 DEF SetMAC, HostUp, PeerUp, AddrReplace, Command, SetLink
  <2> QED
    BY <1>2, <2>1, <2>2
<1>9. CASE AddPort \/ SetIfaceID
  <2>1. UNCHANGED <<link, nss>>
    BY <1>9 DEF AddPort, SetIfaceID, Command, SetPort
  <2> QED
    BY <1>2, <2>1
<1> QED
  BY <1>3, <1>4, <1>5, <1>6, <1>7, <1>8, <1>9 DEF Provision

LEMMA HomesPrune ==
    ASSUME Inv, HomesUp, Prune
    PROVE  HomesUp'
<1>1. pc \in PrunePCs \/ UNCHANGED host
  BY DEF Prune, PruneNext, PruneDone, DelPort, ShowPeer, DelPeer, ShowHost, DelHost,
     ListStaleNS, DelNetNS, PruneCommand, PrunePCs
<1> SUFFICES ASSUME pc \in PrunePCs, ~UNCHANGED host, Isolated, link'[cur.veth].place = ns
             PROVE  nss'[ns] = "up"
  BY <1>1, HomesSame, HomesFrame, CurTyped, PruneLocal
<1>2. cur.veth \in Veths /\ ns \in NetNSs /\ HostOK /\ link[cur.veth] \in Link
      /\ (link[cur.veth].place = ns => nss[ns] = "up")
  BY CurTyped DEF Isolated, HomesUp, ns
<1>3. ~PruneNext /\ ~PruneDone /\ ~ShowPeer /\ ~ShowHost /\ ~ListStaleNS
  BY DEF PruneNext, PruneDone, ShowPeer, ShowHost, ListStaleNS, PruneCommand
<1>4. CASE DelPort
  <2>1. UNCHANGED <<link, nss>>
    BY <1>4 DEF DelPort, PruneCommand, SetPort
  <2> QED
    BY <1>2, <2>1
<1>5. ~DelPeer /\ ~DelHost
  <2>1. ~SetLink(NoLink)
    BY <1>2, NoLinkTyped DEF SetLink, HostOK
  <2> QED
    BY <2>1 DEF DelPeer, DelHost, PruneCommand
<1>6. ~DelNetNS
  <2> SUFFICES ASSUME NEW place \in {"absent", "lost"}, DropNS(place) PROVE FALSE
    BY DEF DelNetNS, PruneCommand
  <2>1. \/ link'[cur.veth] = link[cur.veth] /\ link[cur.veth].place # ns
        \/ link'[cur.veth] = [link[cur.veth] EXCEPT !.place = "lost"]
        \/ link'[cur.veth] = NoLink
    BY <1>2 DEF DropNS, HostOK
  <2> QED
    BY <1>2, <2>1, NoLinkTyped DEF Link
<1> QED
  BY <1>3, <1>4, <1>5, <1>6 DEF Prune

LEMMA HomesStep == Inv /\ HomesUp /\ [Next]_vars => HomesUp'
<1> SUFFICES ASSUME Inv, HomesUp, [Next]_vars PROVE HomesUp'
  OBVIOUS
<1>1. CASE Sync \/ Cleanup \/ Restart \/ UNCHANGED vars
  BY <1>1, HomesSame DEF Sync, ReconcileEndpoints, Cleanup, Restart, vars, host
<1>2. CASE Reap
  <2> PICK v \in Veths : link[v].place = "lost" /\ link' = [link EXCEPT ![v] = NoLink]
    BY <1>2 DEF Reap
  <2>1. UNCHANGED nss /\ link \in [Veths -> Link]
    BY <1>2 DEF Reap, Inv, TypeOK
  <2>2. \A w \in Veths : link'[w].place = NSOf[w] => link[w].place = NSOf[w]
    BY <2>1, NoLinkTyped
  <2> QED
    BY <2>1, <2>2 DEF HomesUp
<1>3. CASE Reboot
  BY <1>3, NoLinkTyped DEF Reboot, HomesUp
<1> QED
  BY <1>1, <1>2, <1>3, HomesProvision, HomesPrune DEF Next

-----------------------------------------------------------------------------
(* What a command can attach and detach.                                   *)

\* A provisioning command attaches nothing but an endpoint with the interface and
\* the port of the one in progress.
LEMMA AttachesOnlyCur ==
    ASSUME Inv, HomesUp, Provision, pc \in EPs, NEW e \in Endpoints,
           e.veth = cur.veth, Attached(e)', ~Attached(e)
    PROVE  e.port = cur.port
<1>1. /\ cur.veth \in Veths /\ NSOf[cur.veth] = ns /\ ns \in NetNSs \cup {"root"} /\ HostOK
      /\ link[cur.veth] \in Link /\ cur.port \in Ports /\ e.port \in Ports
      /\ (Isolated /\ link[cur.veth].place = ns => nss[ns] = "up")
  BY CurTyped DEF Isolated, HomesUp, ns
<1>2. /\ link'[cur.veth].place = ns /\ link'[cur.veth].mac = e.port
      /\ link'[cur.veth].up /\ ovs'[cur.veth] = e.port
      /\ (Isolated => nss'[ns] = "up")
  BY <1>1 DEF Attached, Isolated
<1>3. ~UNCHANGED host
  BY AttachedSame
<1>4. ~NextEndpoint /\ ~EnsuresDone /\ ~ListNetNS /\ ~ShowInNS /\ ~ShowInRoot /\ ~LinkAddRefused
  BY <1>3 DEF NextEndpoint, EnsuresDone, ListNetNS, ShowInNS, ShowInRoot, LinkAddRefused, Query, Command
<1>5. ~NetNSAdd
  <2> SUFFICES ASSUME NetNSAdd, SetNS(ns, "down") PROVE FALSE
    BY <1>3 DEF NetNSAdd, Command
  <2>1. Isolated
    <3>1. pc = "addNS" /\ nss' # nss
      BY <1>3 DEF NetNSAdd, Command, SetNS, host
    <3>2. pc = "addNS" => nss[ns] = "none"
      BY DEF Inv, Ladder
    <3>3. CASE ns \notin NetNSs
      BY <1>1, <3>1, <3>3 DEF SetNS, HostOK
    <3> QED
      BY <3>3 DEF Isolated
  <2>2. nss'[ns] = "down"
    BY <1>1, <2>1 DEF SetNS, HostOK, Isolated
  <2> QED
    BY <1>2, <2>1, <2>2
<1>6. ~LoopbackUp
  <2> SUFFICES ASSUME SetNS(ns, "up") PROVE FALSE
    BY <1>3 DEF LoopbackUp, Command
  <2>1. UNCHANGED <<link, ovs>>
    BY DEF SetNS
  <2>2. Isolated => nss[ns] = "up"
    BY <1>1, <1>2, <2>1
  <2> QED
    BY <1>1, <2>1, <2>2 DEF Attached, Isolated
<1>7. ~LinkAdd /\ ~MoveToNS
  <2>1. ASSUME NEW k \in Link, SetLink(k), ~k.up PROVE FALSE
    BY <1>1, <1>2, <2>1 DEF SetLink, HostOK
  <2>2. [NoLink EXCEPT !.place = "root"] \in Link
    BY DEF NoLink, Link, Places
  <2>3. [link[cur.veth] EXCEPT !.place = ns, !.addrs = {}, !.up = FALSE] \in Link
    BY <1>1 DEF Link, Places
  <2>4. ~[NoLink EXCEPT !.place = "root"].up
    BY DEF NoLink
  <2>5. ~[link[cur.veth] EXCEPT !.place = ns, !.addrs = {}, !.up = FALSE].up
    BY <1>1 DEF Link
  <2> QED
    BY <1>3, <2>1, <2>2, <2>3, <2>4, <2>5 DEF LinkAdd, MoveToNS, Command
<1>8. CASE SetMAC
  <2>1. link'[cur.veth] = [link[cur.veth] EXCEPT !.mac = cur.port]
    BY <1>1, <1>3, <1>8 DEF SetMAC, Command, SetLink, HostOK
  <2> QED
    BY <1>1, <1>2, <2>1 DEF Link
<1>9. CASE HostUp \/ PeerUp \/ AddrReplace
  <2>1. link[cur.veth].mac = cur.port
    BY <1>9 DEF HostUp, PeerUp, AddrReplace, Command, Inv, Ladder
  <2>2. link'[cur.veth].mac = link[cur.veth].mac
    <3>1. \/ link' = [link EXCEPT ![cur.veth] = [link[cur.veth] EXCEPT !.up = TRUE]]
          \/ link' = [link EXCEPT ![cur.veth] = [link[cur.veth] EXCEPT !.peerUp = TRUE]]
          \/ link' = [link EXCEPT ![cur.veth] = [link[cur.veth] EXCEPT !.addrs = @ \cup {cur.addr}]]
      BY <1>3, <1>9 DEF HostUp, PeerUp, AddrReplace, Command, SetLink
    <3> QED
      BY <1>1, <3>1 DEF HostOK, Link
  <2> QED
    BY <1>2, <2>1, <2>2
<1>10. CASE AddPort
  <2>1. UNCHANGED <<link, nss>>
    BY <1>10 DEF AddPort, Command, SetPort, host
  <2>2. ovs'[cur.veth] = ovs[cur.veth] \/ ovs'[cur.veth] = "unbound"
    BY <1>1, <1>3, <1>10 DEF AddPort, Command, SetPort, HostOK
  <2> QED
    BY <1>1, <1>2, <2>1, <2>2 DEF Attached
<1>11. CASE SetIfaceID
  <2>1. ovs'[cur.veth] = cur.port
    BY <1>1, <1>3, <1>11 DEF SetIfaceID, SetPort, HostOK
  <2> QED
    BY <1>2, <2>1
<1> QED
  BY <1>4, <1>5, <1>6, <1>7, <1>8, <1>9, <1>10, <1>11 DEF Provision

\* A removal command attaches nothing.
LEMMA PruneAttachesNothing ==
    ASSUME Inv, Prune, pc \in PrunePCs, NEW e \in Endpoints, Attached(e)'
    PROVE  Attached(e)
<1>1. CASE e.veth # cur.veth
  BY <1>1, CurTyped, PruneLocal, AttachedFrame
<1>2. CASE e.veth = cur.veth
  <2>1. /\ cur.veth \in Veths /\ NSOf[cur.veth] = ns /\ ns \in NetNSs \cup {"root"} /\ HostOK
        /\ link[cur.veth] \in Link /\ e.port \in Ports
    BY CurTyped DEF ns
  <2>2. link'[cur.veth].place = ns /\ ovs'[cur.veth] = e.port
    BY <1>2, <2>1 DEF Attached
  <2>3. UNCHANGED host
    <3>1. ~SetPort("none")
      BY <2>1, <2>2 DEF SetPort, HostOK
    <3>2. ~SetLink(NoLink)
      BY <2>1, <2>2, NoLinkTyped DEF SetLink, HostOK
    <3>3. ASSUME NEW place \in {"absent", "lost"}, DropNS(place) PROVE UNCHANGED link /\ UNCHANGED ovs
      <4>1. link[cur.veth].place # ns
        <5> SUFFICES ASSUME link[cur.veth].place = ns PROVE FALSE
          OBVIOUS
        <5>1. link'[cur.veth].place \in {"absent", "lost"}
          BY <2>1, <3>3, NoLinkTyped DEF DropNS, HostOK, Link
        <5> QED
          BY <2>1, <2>2, <5>1
      <4> QED
        BY <3>3, <4>1 DEF DropNS
    <3>4. ASSUME NEW place \in {"absent", "lost"}, DropNS(place) PROVE FALSE
      <4>1. link[cur.veth].place = ns
        BY <2>2, <3>3, <3>4
      <4>2. link'[cur.veth].place \in {"absent", "lost"}
        BY <2>1, <3>4, <4>1, NoLinkTyped DEF DropNS, HostOK, Link
      <4> QED
        BY <2>1, <2>2, <4>2
    <3> QED
      BY <3>1, <3>2, <3>4 DEF Prune, PruneNext, PruneDone, DelPort, ShowPeer, DelPeer, ShowHost,
         DelHost, ListStaleNS, DelNetNS, PruneCommand
  <2> QED
    BY <2>3, AttachedSame
<1> QED
  BY <1>1, <1>2

-----------------------------------------------------------------------------
(* The step simulation.                                                    *)

LEMMA AttachedSetSame ==
    ASSUME UNCHANGED host
    PROVE  AttachedEndpoints' = AttachedEndpoints
  BY AttachedSame DEF AttachedEndpoints

LEMMA InitRefines == Init => Promise!Init
<1> SUFFICES ASSUME Init PROVE Promise!Init
  OBVIOUS
<1>1. AttachedEndpoints = {}
  <2> SUFFICES ASSUME NEW e \in Endpoints, Attached(e) PROVE FALSE
    BY DEF AttachedEndpoints
  <2>1. link[e.veth] = NoLink /\ e.port \in Ports
    BY DEF Init
  <2>2. NoLink.mac = "none"
    BY DEF NoLink
  <2> QED
    BY <2>1, <2>2 DEF Attached
<1> QED
  BY <1>1 DEF Init, Promise!Init, Status

LEMMA BeginRefines == Inv /\ (Sync \/ Cleanup) => Promise!Begin
<1> SUFFICES ASSUME Inv, Sync \/ Cleanup PROVE Promise!Begin
  OBVIOUS
<1>1. pc = "idle" /\ UNCHANGED host /\ UNCHANGED active /\ outcome' = "running"
  BY DEF Sync, ReconcileEndpoints, Cleanup
<1>2. Status \notin {"providing", "removing"}
  BY <1>1 DEF Inv, TypeOK, Busy, Status
<1>3. /\ req' \subseteq Endpoints
      /\ (pc' = "ensure" \/ (req' = {} /\ pc' = "prune"))
  BY DEF Sync, ReconcileEndpoints, Cleanup
<1>4. Status' = IF pc' = "prune" THEN "removing" ELSE "providing"
  BY <1>1, <1>3 DEF Status, PrunePCs
<1> QED
  BY <1>1, <1>2, <1>3, <1>4, AttachedSetSame DEF Promise!Begin

\* One endpoint per interface that was asked for is attached when the loops are through.
LEMMA DesiredProvided ==
    ASSUME Inv, pc \in {"ensure", "prune"}, todo = {}
    PROVE  desired \subseteq req \cap AttachedEndpoints /\ VethsOf(desired) = VethsOf(req)
<1>1. pc \notin EPs
  BY DEF EPs, EnsurePCs
<1>2. desired \subseteq req /\ req \subseteq Endpoints /\ \A e \in desired : Attached(e)
  BY <1>1 DEF Inv, TypeOK, DesiredAttached
<1>3. VethsOf(req) = VethsOf(desired)
  BY DEF Inv, Covered, Removing, VethsOf
<1> QED
  BY <1>2, <1>3 DEF AttachedEndpoints

LEMMA ProvisionRefines ==
    ASSUME Inv, HomesUp, Provision
    PROVE  Promise!Provide \/ Promise!Turn \/ UNCHANGED Promise!vars
<1>1. pc # "idle" /\ pc \notin PrunePCs \cup {"prune"} /\ outcome = "running"
  BY DEF Provision, NextEndpoint, EnsuresDone, ListNetNS, NetNSAdd, LoopbackUp, ShowInNS,
     ShowInRoot, LinkAdd, LinkAddRefused, MoveToNS, SetMAC, HostUp, AddrReplace, PeerUp, AddPort,
     SetIfaceID, Command, Query, PrunePCs, Inv, Busy
<1>2. Status = "providing"
  BY <1>1 DEF Status
<1>3. CASE NextEndpoint
  <2>1. UNCHANGED <<req, active, outcome>> /\ UNCHANGED host
    BY <1>3 DEF NextEndpoint
  <2>2. pc' \in {"listNS", "showInRoot"}
    BY <1>3 DEF NextEndpoint
  <2>3. Status' = "providing"
    BY <1>1, <2>1, <2>2 DEF Status, PrunePCs
  <2> QED
    BY <1>2, <2>1, <2>3, AttachedSetSame DEF Promise!vars
<1>4. CASE EnsuresDone
  <2>1. UNCHANGED <<req, active, outcome>> /\ UNCHANGED host /\ pc = "ensure" /\ todo = {} /\ pc' = "prune"
    BY <1>4 DEF EnsuresDone
  <2>2. Status' = "removing"
    BY <1>1, <2>1 DEF Status
  <2>3. desired \subseteq req \cap AttachedEndpoints /\ VethsOf(desired) = VethsOf(req)
    BY <2>1, DesiredProvided
  <2>4. Promise!Provided(req \cap AttachedEndpoints)
    BY <2>3 DEF Promise!Provided, Promise!Interfaces, VethsOf
  <2> QED
    BY <1>2, <2>1, <2>2, <2>4, AttachedSetSame DEF Promise!Turn
<1>5. CASE ~NextEndpoint /\ ~EnsuresDone
  <2>1. pc \in EPs
    BY <1>5 DEF Provision, ListNetNS, NetNSAdd, LoopbackUp, ShowInNS,
       ShowInRoot, LinkAdd, LinkAddRefused, MoveToNS, SetMAC, HostUp, AddrReplace, PeerUp, AddPort,
       SetIfaceID, Command, Query, EPs, EnsurePCs
  <2>2. cur \in req /\ cur \in Endpoints
    BY <2>1, CurTyped DEF Inv, TypeOK, EPs
  <2>3. UNCHANGED <<req, active>> /\ Status' \in {"providing", "error"}
    <3>1. CASE ReturnError
      BY <3>1 DEF ReturnError, Status
    <3>2. CASE ~ReturnError
      <4>1. Record \/ \E l \in EPs : Goto(l)
        BY <1>5, <3>2 DEF Provision, ListNetNS, NetNSAdd, LoopbackUp, ShowInNS,
           ShowInRoot, LinkAdd, LinkAddRefused, MoveToNS, SetMAC, HostUp, AddrReplace, PeerUp, AddPort,
           SetIfaceID, Command, Query, EPs, EnsurePCs, AfterCreate, AfterHostUp, AfterPeerUp
      <4>2. UNCHANGED <<req, active, outcome>> /\ pc' \in EPs \cup {"ensure"}
        BY <4>1 DEF Record, Goto, call
      <4> QED
        BY <1>1, <4>2 DEF Status, PrunePCs, EPs, EnsurePCs
    <3> QED
      BY <3>1, <3>2
  <2>4. ASSUME NEW e \in AttachedEndpoints' \ AttachedEndpoints
        PROVE  \E f \in req : f.veth = e.veth /\ f.port = e.port
    <3>1. e \in Endpoints /\ Attached(e)' /\ ~Attached(e)
      BY <2>4 DEF AttachedEndpoints
    <3>2. e.veth = cur.veth
      BY <2>2, <3>1, ProvisionLocal, AttachedFrame
    <3> QED
      BY <2>1, <2>2, <3>1, <3>2, AttachesOnlyCur
  <2>5. ASSUME NEW e \in AttachedEndpoints \ AttachedEndpoints'
        PROVE  e.veth \in VethsOf(req) /\ ~(e \in req /\ \A f \in req : f.veth = e.veth => f = e)
    <3>1. e \in Endpoints /\ Attached(e) /\ ~Attached(e)'
      BY <2>5 DEF AttachedEndpoints
    <3>2. e.veth = cur.veth
      BY <2>2, <3>1, ProvisionLocal, AttachedFrame
    <3>3. e # cur
      BY <2>1, <3>1, RefreshKeeps
    <3> QED
      BY <2>2, <3>2, <3>3 DEF VethsOf
  <2>6. AttachedEndpoints' \subseteq Endpoints
    BY DEF AttachedEndpoints
  <2> QED
    BY <1>2, <2>3, <2>4, <2>5, <2>6
    DEF Promise!Provide, Promise!Gained, Promise!Lost, Promise!Sole, Promise!Interfaces, VethsOf
<1> QED
  BY <1>3, <1>4, <1>5

LEMMA PruneRefines ==
    ASSUME Inv, Prune
    PROVE  Promise!Remove \/ Promise!Done \/ UNCHANGED Promise!vars
<1>1. pc \in PrunePCs \cup {"prune"} /\ outcome = "running"
  BY DEF Prune, PruneNext, PruneDone, DelPort, ShowPeer, DelPeer, ShowHost, DelHost,
     ListStaleNS, DelNetNS, PruneCommand, PrunePCs, Inv, Busy
<1>2. Status = "removing"
  BY <1>1 DEF Status
<1>3. CASE PruneNext
  <2>1. UNCHANGED <<req, active, outcome>> /\ UNCHANGED host /\ pc' = "delPort"
    BY <1>3 DEF PruneNext
  <2>2. Status' = "removing"
    BY <1>1, <2>1 DEF Status, PrunePCs
  <2> QED
    BY <1>2, <2>1, <2>2, AttachedSetSame DEF Promise!vars
<1>4. CASE PruneDone
  <2>1. UNCHANGED req /\ UNCHANGED host /\ outcome' = "ok" /\ active' = desired /\ pc = "prune"
    BY <1>4 DEF PruneDone
  <2>2. Status' = "ok"
    BY <2>1 DEF Status
  <2>3. VethsOf(req) = VethsOf(desired) /\ desired \subseteq req /\ req \subseteq Endpoints
        /\ \A e \in desired : Attached(e)
    BY <2>1 DEF Inv, Covered, Removing, TypeOK, DesiredAttached, EPs, EnsurePCs
  <2>4. Promise!Provided(active')
    BY <2>1, <2>3 DEF Promise!Provided, Promise!Interfaces, VethsOf, AttachedEndpoints
  <2> QED
    BY <1>2, <2>1, <2>2, <2>4, AttachedSetSame DEF Promise!Done
<1>5. CASE ~PruneNext /\ ~PruneDone
  <2>1. pc \in PrunePCs
    BY <1>5 DEF Prune, DelPort, ShowPeer, DelPeer, ShowHost, DelHost, ListStaleNS, DelNetNS,
       PruneCommand, PrunePCs
  <2>2. cur \in active /\ cur \in Endpoints /\ cur.veth \notin VethsOf(req)
    BY <2>1, CurTyped DEF Inv, TypeOK, Covered, StaleApart, Removing
  <2>3. UNCHANGED <<req, active, outcome>> /\ pc' \in PrunePCs \cup {"prune"}
    BY <1>5 DEF Prune, DelPort, ShowPeer, DelPeer, ShowHost, DelHost, ListStaleNS, DelNetNS,
       PruneCommand, PrunePCs, Goto, call, AfterVeth
  <2>4. Status' = "removing"
    BY <1>1, <2>3 DEF Status
  <2>5. AttachedEndpoints' \ AttachedEndpoints = {}
    BY <2>1, PruneAttachesNothing DEF AttachedEndpoints
  <2>6. ASSUME NEW e \in AttachedEndpoints \ AttachedEndpoints'
        PROVE  e.veth = cur.veth
    BY <2>2, <2>6, PruneLocal, AttachedFrame DEF AttachedEndpoints
  <2> QED
    BY <1>2, <2>2, <2>3, <2>4, <2>5, <2>6
    DEF Promise!Remove, Promise!Gained, Promise!Lost, Promise!Interfaces, VethsOf
<1> QED
  BY <1>3, <1>4, <1>5

\* A pair that is reaped was not attached, nor does its absence attach anything.
LEMMA ReapRefines == Inv /\ Reap => UNCHANGED Promise!vars
<1> SUFFICES ASSUME Inv, Reap PROVE UNCHANGED Promise!vars
  OBVIOUS
<1>1. UNCHANGED <<nss, ovs, pc, req, active, outcome>>
  BY DEF Reap, call
<1>2. ASSUME NEW e \in Endpoints, Attached(e)' PROVE Attached(e)
  <2> PICK v \in Veths : link[v].place = "lost" /\ link' = [link EXCEPT ![v] = NoLink]
    BY DEF Reap
  <2>1. link \in [Veths -> Link] /\ e.veth \in Veths
    BY DEF Inv, TypeOK
  <2>2. e.veth # v
    <3>1. CASE e.veth = v
      <4>1. link'[v] = NoLink /\ e.port \in Ports
        BY <2>1
      <4>2. NoLink.mac = "none"
        BY DEF NoLink
      <4> QED
        BY <1>2, <3>1, <4>1, <4>2 DEF Attached
    <3> QED
      BY <3>1
  <2> QED
    BY <1>1, <1>2, <2>1, <2>2 DEF Attached
<1>3. AttachedEndpoints' = AttachedEndpoints
  BY <1>2, ReapKeeps DEF AttachedEndpoints
<1> QED
  BY <1>1, <1>3 DEF Promise!vars, Status

LEMMA CrashRefines == Inv /\ (Restart \/ Reboot) => Promise!Crash
<1> SUFFICES ASSUME Inv, Restart \/ Reboot PROVE Promise!Crash
  OBVIOUS
<1>1. req' = {} /\ active' = {} /\ Status' = "none"
  BY DEF Restart, Reboot, NewProcess, Status
<1>2. CASE Restart
  BY <1>1, <1>2, AttachedSetSame DEF Restart, Promise!Crash
<1>3. CASE Reboot
  <2>1. AttachedEndpoints' = {}
    <3> SUFFICES ASSUME NEW e \in Endpoints, Attached(e)' PROVE FALSE
      BY DEF AttachedEndpoints
    <3>1. link'[e.veth] = NoLink /\ e.port \in Ports
      BY <1>3 DEF Reboot
    <3>2. NoLink.mac = "none"
      BY DEF NoLink
    <3> QED
      BY <3>1, <3>2 DEF Attached
  <2> QED
    BY <1>1, <2>1 DEF Promise!Crash
<1> QED
  BY <1>2, <1>3

LEMMA StutterRefines == UNCHANGED vars => UNCHANGED Promise!vars
<1> SUFFICES ASSUME UNCHANGED vars PROVE UNCHANGED Promise!vars
  OBVIOUS
<1>1. UNCHANGED host /\ UNCHANGED <<pc, req, active, outcome>>
  BY DEF vars, host
<1> QED
  BY <1>1, AttachedSetSame DEF Promise!vars, Status

LEMMA StepRefines == Inv /\ HomesUp /\ [Next]_vars => [Promise!Next]_Promise!vars
<1> SUFFICES ASSUME Inv, HomesUp, [Next]_vars PROVE [Promise!Next]_Promise!vars
  OBVIOUS
<1> QED
  BY BeginRefines, ProvisionRefines, PruneRefines, ReapRefines, CrashRefines, StutterRefines
  DEF Next, Promise!Next

\* The network manager keeps the contract of Reconciler, for every set of networks and
\* endpoints and every number of failing commands, restarts and reboots.
THEOREM KeepsPromise == Spec => ImplementsReconciler
<1>1. Spec => [](Inv /\ HomesUp)
  <2>1. Inv /\ HomesUp /\ [Next]_vars => HomesUp'
    BY HomesStep
  <2> QED
    BY <2>1, InitHomes, Invariance, PTL DEF Spec
<1> QED
  BY <1>1, InitRefines, StepRefines, PTL DEF Spec, ImplementsReconciler, Promise!Spec
=============================================================================
