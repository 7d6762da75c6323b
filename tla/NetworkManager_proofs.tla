----------------------- MODULE NetworkManager_proofs ------------------------
(***************************************************************************)
(* Proofs about NetworkManager for every set of networks, endpoints and    *)
(* every number of faults and restarts.  The inductive invariant says how  *)
(* far the endpoint in progress has come (Ladder), that the endpoints of   *)
(* `desired` are attached (DesiredAttached), that none is forgotten        *)
(* (Covered), and that the removals concern other interfaces (StaleApart). *)
(* A second one, for the runs without a failure, says of every interface   *)
(* whether it is complete, absent or at which command it is (Neat).        *)
(***************************************************************************)
EXTENDS NetworkManager, TLAPS

EPs == EnsurePCs
Removing == pc \in PrunePCs \cup {"prune"}

\* What the commands already run for `cur` have established.
Ladder ==
    /\ pc \in {"listNS", "addNS", "loUp", "showInNS", "move"} => Isolated
    /\ pc = "addNS" => nss[ns] = "none"
    /\ pc \in EPs \ {"listNS", "addNS", "loUp"} => (Isolated => nss[ns] = "up")
    /\ pc \in {"showInRoot", "linkAdd", "move"} => (Isolated => link[cur.veth].place # ns)
    /\ pc = "linkAdd" => link[cur.veth].place \notin {ns, "root"}
    /\ pc \in {"setMAC", "hostUp", "peerUp", "addrReplace", "addPort", "setIface"}
         => link[cur.veth].place = ns
    /\ pc \in {"hostUp", "peerUp", "addrReplace", "addPort", "setIface"}
         => link[cur.veth].mac = cur.port
    /\ pc \in {"peerUp", "addrReplace", "addPort", "setIface"} => link[cur.veth].up
    /\ pc \in {"addPort", "setIface"} \/ (pc = "addrReplace" /\ ~Isolated)
         => link[cur.veth].peerUp
    /\ pc \in {"addPort", "setIface"} \/ (pc = "peerUp" /\ Isolated)
         => (cur.addr # "none" => cur.addr \in link[cur.veth].addrs)
    /\ pc = "addrReplace" => cur.addr # "none"

DesiredAttached ==
    \A e \in desired : (pc \in EPs /\ e.veth = cur.veth) \/ Attached(e)

\* Every interface asked for is done, in progress or still to do.
Covered ==
    /\ pc \in EPs => VethsOf(req) = VethsOf(desired) \cup VethsOf(todo) \cup {cur.veth}
    /\ pc = "ensure" => VethsOf(req) = VethsOf(desired) \cup VethsOf(todo)
    /\ Removing => VethsOf(req) = VethsOf(desired)

StaleApart ==
    /\ Removing => \A e \in stale : e.veth \notin VethsOf(desired)
    /\ pc \in PrunePCs => cur.veth \notin VethsOf(desired)

Busy == outcome = "running" <=> pc # "idle"

PlacesOK == \A v \in Veths : link[v].place \in {NSOf[v], "root", "absent", "lost"}

Inv ==
    /\ TypeOK
    /\ Busy
    /\ Ladder
    /\ DesiredAttached
    /\ Covered
    /\ StaleApart
    /\ PlacesOK
    /\ TenantAddressesConfined
    /\ ReconcileAttachesAll

USE EndpointAssumption, NSOfAssumption, NameAssumption, BoundAssumption

LEMMA InitInv == Init => Inv
  BY DEF Init, Inv, TypeOK, Busy, Ladder, DesiredAttached, Covered, StaleApart, PlacesOK,
     TenantAddressesConfined, ReconcileAttachesAll, Removing, PrunePCs, EnsurePCs, EPs, PCs, NoLink,
     NoEndpoint, Link, Places

-----------------------------------------------------------------------------
(* Steps that touch one interface only.                                    *)

\* The typed state of the host, with what is known of every pair.
HostOK ==
    /\ nss \in [NetNSs -> {"none", "down", "up"}]
    /\ link \in [Veths -> Link]
    /\ ovs \in [Veths -> Ports \cup {"none", "unbound"}]
    /\ PlacesOK
    /\ TenantAddressesConfined

\* A step leaves every interface but that of `cur` and its namespace alone.
Local ==
    /\ \A v \in Veths \ {cur.veth} : link'[v] = link[v] /\ ovs'[v] = ovs[v]
    /\ \A n \in NetNSs \ {ns} : nss'[n] = nss[n]

\* An endpoint on another interface is attached after a local step if it was before:
\* no two interfaces share a namespace.
LEMMA AttachedFrame ==
    ASSUME NEW e \in Endpoints, cur \in Endpoints, e.veth # cur.veth, Local
    PROVE  Attached(e)' <=> Attached(e)
<1>1. /\ e.veth \in Veths /\ cur.veth \in Veths
      /\ NSOf[e.veth] \in NetNSs \cup {"root"}
      /\ NSOf[e.veth] = NSOf[cur.veth] => NSOf[e.veth] = "root"
  OBVIOUS
<1>2. /\ link'[e.veth] = link[e.veth] /\ ovs'[e.veth] = ovs[e.veth]
      /\ NSOf[e.veth] # "root" => nss'[NSOf[e.veth]] = nss[NSOf[e.veth]]
  BY <1>1 DEF Local, ns
<1> QED
  BY <1>2 DEF Attached

\* A provisioning command that succeeded keeps the invariant if it leads to the
\* right rung of the ladder.
LEMMA EnsureStep ==
    ASSUME Inv, pc \in EPs, Local, HostOK', Ladder', NEW l \in EPs, Goto(l)
    PROVE  Inv'
<1>1. cur \in Endpoints /\ cur' = cur
  BY DEF Inv, TypeOK, EPs, Goto, call
<1>2. DesiredAttached'
  <2> SUFFICES ASSUME NEW e \in desired, e.veth # cur.veth
               PROVE  Attached(e)'
    BY <1>1 DEF DesiredAttached, Goto, call
  <2> QED
    BY <1>1, AttachedFrame DEF Inv, DesiredAttached, TypeOK
<1> QED
  BY <1>1, <1>2
  DEF Inv, HostOK, TypeOK, Busy, Covered, StaleApart, Removing, ReconcileAttachesAll, Goto, call,
      EPs, EnsurePCs, PrunePCs, PCs, VethsOf

LEMMA FaultTyped ==
    ASSUME Inv, Fault \/ UNCHANGED <<calm, faults, restarts>>
    PROVE  calm' \in BOOLEAN /\ faults' \in 0..MaxFaults /\ restarts' \in 0..MaxRestarts
<1>1. CASE Fault
  <2>1. calm' \in BOOLEAN
    BY <1>1 DEF Fault
  <2>2. faults \in 0..MaxFaults /\ restarts \in 0..MaxRestarts
    BY DEF Inv, TypeOK
  <2>3. faults < MaxFaults /\ faults' = faults + 1 /\ restarts' = restarts
    BY <1>1 DEF Fault
  <2> QED
    BY <2>1, <2>2, <2>3
<1>2. CASE UNCHANGED <<calm, faults, restarts>>
  BY <1>2 DEF Inv, TypeOK
<1> QED
  BY <1>1, <1>2

\* A call that returns an error keeps the invariant.
LEMMA ErrorStep ==
    ASSUME Inv, pc \in EPs, HostOK', ReturnError, Fault \/ UNCHANGED <<calm, faults, restarts>>
    PROVE  Inv'
<1>1. /\ pc' = "idle" /\ outcome' = "error" /\ UNCHANGED <<req, active>>
      /\ todo' = {} /\ desired' = {} /\ stale' = {} /\ cur' = NoEndpoint
  BY DEF ReturnError
<1>2. calm' \in BOOLEAN /\ faults' \in 0..MaxFaults /\ restarts' \in 0..MaxRestarts
  BY FaultTyped
<1>3. TypeOK'
  BY <1>1, <1>2 DEF Inv, HostOK, TypeOK, EnsurePCs, PrunePCs, PCs
<1> QED
  BY <1>1, <1>3 DEF Inv, HostOK, Busy, Ladder, DesiredAttached, Covered, StaleApart, Removing,
     ReconcileAttachesAll, EPs, EnsurePCs, PrunePCs

\* A removal command keeps the invariant, whether it succeeds or not.
LEMMA PruneStep ==
    ASSUME Inv, pc \in PrunePCs, Local, HostOK',
           NEW l \in PrunePCs \cup {"prune"},
           Goto(l) \/ (Fault /\ pc' = l /\ UNCHANGED <<call, outcome>>)
    PROVE  Inv'
<1>1. cur \in Endpoints /\ cur' = cur /\ UNCHANGED call
  BY DEF Inv, TypeOK, Goto, call
<1>2. DesiredAttached'
  <2> SUFFICES ASSUME NEW e \in desired
               PROVE  Attached(e)'
    BY <1>1 DEF DesiredAttached, call
  <2>1. e.veth # cur.veth /\ e \in Endpoints
    BY DEF Inv, StaleApart, TypeOK, VethsOf
  <2> QED
    BY <1>1, <2>1, AttachedFrame DEF Inv, DesiredAttached, TypeOK, EPs, EnsurePCs, PrunePCs
<1>3. pc' \in PrunePCs \cup {"prune"} /\ pc' = l
  BY DEF Goto
<1>4. TypeOK' /\ Busy'
  <2>1. calm' \in BOOLEAN /\ faults' \in 0..MaxFaults /\ restarts' \in 0..MaxRestarts
    BY FaultTyped DEF Goto
  <2>2. UNCHANGED outcome
    BY DEF Goto
  <2> QED
    BY <1>1, <1>3, <2>1, <2>2 DEF Inv, HostOK, TypeOK, Busy, call, EnsurePCs, PrunePCs, PCs
<1>5. Ladder' /\ Covered' /\ StaleApart'
  BY <1>1, <1>3 DEF Inv, Ladder, Covered, StaleApart, Removing, call, EPs, EnsurePCs, PrunePCs, VethsOf
<1>6. ReconcileAttachesAll'
  BY DEF Inv, ReconcileAttachesAll, Busy, Goto, PrunePCs
<1> QED
  BY <1>2, <1>4, <1>5, <1>6 DEF Inv, HostOK

-----------------------------------------------------------------------------
(* The effects of commands on the host.                                    *)

LEMMA CurTyped ==
    ASSUME Inv, pc \in EPs \cup PrunePCs
    PROVE  /\ cur \in Endpoints /\ cur.veth \in Veths /\ cur.port \in Ports
           /\ cur.addr \in Addrs \cup {"none"}
           /\ ns \in NetNSs \cup {"root"}
           /\ link[cur.veth] \in Link
           /\ HostOK
<1>1. cur \in Endpoints
  BY DEF Inv, TypeOK, EPs
<1> QED
  BY <1>1 DEF Inv, TypeOK, HostOK, ns

LEMMA SetLinkLocal ==
    ASSUME Inv, pc \in EPs \cup PrunePCs, NEW l \in Link, SetLink(l),
           l.place \in {ns, "root", "absent", "lost"},
           l.addrs # {} => l.place \in {ns, "lost"}
    PROVE  Local /\ HostOK'
  BY CurTyped DEF SetLink, Local, HostOK, PlacesOK, TenantAddressesConfined, ns

LEMMA SetNSLocal ==
    ASSUME Inv, pc \in EPs \cup PrunePCs, NEW x \in {"none", "down", "up"}, SetNS(ns, x)
    PROVE  Local /\ HostOK'
  BY CurTyped DEF SetNS, Local, HostOK, PlacesOK, TenantAddressesConfined, ns

LEMMA SetPortLocal ==
    ASSUME Inv, pc \in EPs \cup PrunePCs, NEW x \in Ports \cup {"none", "unbound"}, SetPort(x)
    PROVE  Local /\ HostOK'
  BY CurTyped DEF SetPort, Local, HostOK, PlacesOK, TenantAddressesConfined, ns

LEMMA HostLocal ==
    ASSUME Inv, UNCHANGED host
    PROVE  Local /\ HostOK'
  BY DEF Inv, TypeOK, host, Local, HostOK, PlacesOK, TenantAddressesConfined, ns

-----------------------------------------------------------------------------
(* The provisioning commands, one lemma each.                              *)

\* What is left to show of a command that succeeds is the next rung; one that fails
\* has changed the host in the same way or not at all.
LEMMA ListNetNSInv == Inv /\ ListNetNS => Inv'
<1> SUFFICES ASSUME Inv, ListNetNS PROVE Inv'
  OBVIOUS
<1>1. pc = "listNS" /\ UNCHANGED host
  BY DEF ListNetNS, Query, Command
<1>2. Local /\ HostOK' /\ pc \in EPs
  BY <1>1, HostLocal DEF EPs, EnsurePCs
<1> DEFINE l == IF nss[ns] # "none" THEN "loUp" ELSE "addNS"
<1>3. CASE Goto(l)
  <2>1. l \in EPs
    BY DEF EPs, EnsurePCs
  <2>2. Ladder'
    BY <1>1, <1>3 DEF Inv, Ladder, Goto, call, host, Isolated, ns, EPs, EnsurePCs
  <2> QED
    BY <1>2, <1>3, <2>1, <2>2, EnsureStep
<1>4. CASE Fault /\ ReturnError
  BY <1>2, <1>4, ErrorStep
<1> QED
  BY <1>3, <1>4 DEF ListNetNS, Query, Command

LEMMA NetNSAddInv == Inv /\ NetNSAdd => Inv'
<1> SUFFICES ASSUME Inv, NetNSAdd PROVE Inv'
  OBVIOUS
<1>1. pc = "addNS" /\ (SetNS(ns, "down") \/ UNCHANGED host)
  BY DEF NetNSAdd, Command
<1>2. Local /\ HostOK' /\ pc \in EPs
  BY <1>1, HostLocal, SetNSLocal DEF EPs, EnsurePCs
<1>3. CASE SetNS(ns, "down") /\ Goto("loUp")
  <2>1. "loUp" \in EPs
    BY DEF EPs, EnsurePCs
  <2>2. Ladder'
    BY <1>1, <1>3 DEF Inv, Ladder, Goto, call, SetNS, Isolated, ns, EPs, EnsurePCs
  <2> QED
    BY <1>2, <1>3, <2>1, <2>2, EnsureStep
<1>4. CASE Fault /\ ReturnError
  BY <1>2, <1>4, ErrorStep
<1> QED
  BY <1>3, <1>4 DEF NetNSAdd, Command

LEMMA LoopbackUpInv == Inv /\ LoopbackUp => Inv'
<1> SUFFICES ASSUME Inv, LoopbackUp PROVE Inv'
  OBVIOUS
<1>1. pc = "loUp" /\ (SetNS(ns, "up") \/ UNCHANGED host)
  BY DEF LoopbackUp, Command
<1>2. Local /\ HostOK' /\ pc \in EPs
  BY <1>1, HostLocal, SetNSLocal DEF EPs, EnsurePCs
<1>3. CASE SetNS(ns, "up") /\ Goto("showInNS")
  <2>1. "showInNS" \in EPs
    BY DEF EPs, EnsurePCs
  <2>2. Ladder'
    BY <1>1, <1>3, CurTyped DEF Inv, TypeOK, Ladder, Goto, call, SetNS, Isolated, ns, EPs, EnsurePCs
  <2> QED
    BY <1>2, <1>3, <2>1, <2>2, EnsureStep
<1>4. CASE Fault /\ ReturnError
  BY <1>2, <1>4, ErrorStep
<1> QED
  BY <1>3, <1>4 DEF LoopbackUp, Command

LEMMA ShowInNSInv == Inv /\ ShowInNS => Inv'
<1> SUFFICES ASSUME Inv, ShowInNS PROVE Inv'
  OBVIOUS
<1>1. pc = "showInNS" /\ UNCHANGED host
  BY DEF ShowInNS, Query, Command
<1>2. Local /\ HostOK' /\ pc \in EPs
  BY <1>1, HostLocal DEF EPs, EnsurePCs
<1> DEFINE l == IF link[cur.veth].place = ns THEN "setMAC" ELSE "showInRoot"
<1>3. CASE Goto(l)
  <2>1. l \in EPs
    BY DEF EPs, EnsurePCs
  <2>2. Ladder'
    BY <1>1, <1>3, CurTyped DEF Inv, Ladder, Goto, call, host, Isolated, ns, EPs, EnsurePCs
  <2> QED
    BY <1>2, <1>3, <2>1, <2>2, EnsureStep
<1>4. CASE Fault /\ ReturnError
  BY <1>2, <1>4, ErrorStep
<1> QED
  BY <1>3, <1>4 DEF ShowInNS, Query, Command

LEMMA ShowInRootInv == Inv /\ ShowInRoot => Inv'
<1> SUFFICES ASSUME Inv, ShowInRoot PROVE Inv'
  OBVIOUS
<1>1. pc = "showInRoot" /\ UNCHANGED host
  BY DEF ShowInRoot, Query, Command
<1>2. Local /\ HostOK' /\ pc \in EPs
  BY <1>1, HostLocal DEF EPs, EnsurePCs
<1> DEFINE l == IF link[cur.veth].place = "root" THEN AfterCreate ELSE "linkAdd"
<1>3. CASE Goto(l)
  <2>1. l \in EPs
    BY DEF EPs, EnsurePCs, AfterCreate
  <2>2. Ladder'
    BY <1>1, <1>3, CurTyped DEF Inv, Ladder, Goto, call, host, Isolated, ns, EPs, EnsurePCs, AfterCreate
  <2> QED
    BY <1>2, <1>3, <2>1, <2>2, EnsureStep
<1>4. CASE Fault /\ ReturnError
  BY <1>2, <1>4, ErrorStep
<1> QED
  BY <1>3, <1>4 DEF ShowInRoot, Query, Command

LEMMA LinkAddInv == Inv /\ LinkAdd => Inv'
<1> SUFFICES ASSUME Inv, LinkAdd PROVE Inv'
  OBVIOUS
<1> DEFINE k == [NoLink EXCEPT !.place = "root"]
           n == AfterCreate
<1>1. pc = "linkAdd" /\ (SetLink(k) \/ UNCHANGED host)
  BY DEF LinkAdd, Command
<1>2. pc \in EPs
  BY <1>1 DEF EPs, EnsurePCs
<1>3. k \in Link /\ k.place \in {ns, "root", "absent", "lost"}
      /\ (k.addrs # {} => k.place \in {ns, "lost"})
  BY <1>1, <1>2, CurTyped DEF Inv, Ladder, HostOK, TenantAddressesConfined, Link, NoLink, Places, ns
<1>4. Local /\ HostOK'
  BY <1>1, <1>2, <1>3, HostLocal, SetLinkLocal
<1>5. CASE SetLink(k) /\ Goto(n)
  <2>1. n \in EPs
    BY DEF EPs, EnsurePCs, AfterCreate
  <2>2. link'[cur.veth] = k
    BY <1>2, <1>5, CurTyped DEF SetLink, HostOK
  <2>3. Ladder'
    BY <1>1, <1>2, <1>5, <2>2, CurTyped
    DEF Inv, Ladder, Goto, call, SetLink, Isolated, ns, Link, NoLink, EPs, EnsurePCs, AfterCreate
  <2> QED
    BY <1>2, <1>4, <1>5, <2>1, <2>3, EnsureStep
<1>6. CASE Fault /\ ReturnError
  BY <1>2, <1>4, <1>6, ErrorStep
<1> QED
  BY <1>1, <1>5, <1>6 DEF LinkAdd, Command

LEMMA LinkAddRefusedInv == Inv /\ LinkAddRefused => Inv'
<1> SUFFICES ASSUME Inv, LinkAddRefused PROVE Inv'
  OBVIOUS
<1>1. pc \in EPs /\ HostOK'
  BY HostLocal DEF LinkAddRefused, EPs, EnsurePCs
<1> QED
  BY <1>1, ErrorStep DEF LinkAddRefused

LEMMA MoveToNSInv == Inv /\ MoveToNS => Inv'
<1> SUFFICES ASSUME Inv, MoveToNS PROVE Inv'
  OBVIOUS
<1> DEFINE k == [link[cur.veth] EXCEPT !.place = ns, !.addrs = {}, !.up = FALSE]
           n == "setMAC"
<1>1. pc = "move" /\ (SetLink(k) \/ UNCHANGED host)
  BY DEF MoveToNS, Command
<1>2. pc \in EPs
  BY <1>1 DEF EPs, EnsurePCs
<1>3. k \in Link /\ k.place \in {ns, "root", "absent", "lost"}
      /\ (k.addrs # {} => k.place \in {ns, "lost"})
  BY <1>1, <1>2, CurTyped DEF Inv, Ladder, HostOK, TenantAddressesConfined, Link, NoLink, Places, ns
<1>4. Local /\ HostOK'
  BY <1>1, <1>2, <1>3, HostLocal, SetLinkLocal
<1>5. CASE SetLink(k) /\ Goto(n)
  <2>1. n \in EPs
    BY DEF EPs, EnsurePCs
  <2>2. link'[cur.veth] = k
    BY <1>2, <1>5, CurTyped DEF SetLink, HostOK
  <2>3. link'[cur.veth].place = ns
    BY <1>2, <2>2, CurTyped DEF Link
  <2>4. /\ pc' = "setMAC" /\ cur' = cur /\ nss' = nss
        /\ Isolated => nss[ns] = "up"
    BY <1>1, <1>5 DEF Inv, Ladder, Goto, call, SetLink, EPs, EnsurePCs
  <2>5. Ladder'
    BY <2>3, <2>4 DEF Ladder, Isolated, ns, EPs, EnsurePCs
  <2> QED
    BY <1>2, <1>4, <1>5, <2>1, <2>5, EnsureStep
<1>6. CASE Fault /\ ReturnError
  BY <1>2, <1>4, <1>6, ErrorStep
<1> QED
  BY <1>1, <1>5, <1>6 DEF MoveToNS, Command

LEMMA SetMACInv == Inv /\ SetMAC => Inv'
<1> SUFFICES ASSUME Inv, SetMAC PROVE Inv'
  OBVIOUS
<1> DEFINE k == [link[cur.veth] EXCEPT !.mac = cur.port]
           n == "hostUp"
<1>1. pc = "setMAC" /\ (SetLink(k) \/ UNCHANGED host)
  BY DEF SetMAC, Command
<1>2. pc \in EPs
  BY <1>1 DEF EPs, EnsurePCs
<1>3. k \in Link /\ k.place \in {ns, "root", "absent", "lost"}
      /\ (k.addrs # {} => k.place \in {ns, "lost"})
  BY <1>1, <1>2, CurTyped DEF Inv, Ladder, HostOK, TenantAddressesConfined, Link, NoLink, Places, ns
<1>4. Local /\ HostOK'
  BY <1>1, <1>2, <1>3, HostLocal, SetLinkLocal
<1>5. CASE SetLink(k) /\ Goto(n)
  <2>1. n \in EPs
    BY DEF EPs, EnsurePCs
  <2>2. link'[cur.veth] = k
    BY <1>2, <1>5, CurTyped DEF SetLink, HostOK
  <2>3. Ladder'
    BY <1>1, <1>2, <1>5, <2>2, CurTyped
    DEF Inv, Ladder, Goto, call, SetLink, Isolated, ns, Link, NoLink, EPs, EnsurePCs
  <2> QED
    BY <1>2, <1>4, <1>5, <2>1, <2>3, EnsureStep
<1>6. CASE Fault /\ ReturnError
  BY <1>2, <1>4, <1>6, ErrorStep
<1> QED
  BY <1>1, <1>5, <1>6 DEF SetMAC, Command

LEMMA HostUpInv == Inv /\ HostUp => Inv'
<1> SUFFICES ASSUME Inv, HostUp PROVE Inv'
  OBVIOUS
<1> DEFINE k == [link[cur.veth] EXCEPT !.up = TRUE]
           n == AfterHostUp
<1>1. pc = "hostUp" /\ (SetLink(k) \/ UNCHANGED host)
  BY DEF HostUp, Command
<1>2. pc \in EPs
  BY <1>1 DEF EPs, EnsurePCs
<1>3. k \in Link /\ k.place \in {ns, "root", "absent", "lost"}
      /\ (k.addrs # {} => k.place \in {ns, "lost"})
  BY <1>1, <1>2, CurTyped DEF Inv, Ladder, HostOK, TenantAddressesConfined, Link, NoLink, Places, ns
<1>4. Local /\ HostOK'
  BY <1>1, <1>2, <1>3, HostLocal, SetLinkLocal
<1>5. CASE SetLink(k) /\ Goto(n)
  <2>1. n \in EPs
    BY DEF EPs, EnsurePCs, AfterHostUp
  <2>2. link'[cur.veth] = k
    BY <1>2, <1>5, CurTyped DEF SetLink, HostOK
  <2>3. Ladder'
    BY <1>1, <1>2, <1>5, <2>2, CurTyped
    DEF Inv, Ladder, Goto, call, SetLink, Isolated, ns, Link, NoLink, EPs, EnsurePCs, AfterHostUp
  <2> QED
    BY <1>2, <1>4, <1>5, <2>1, <2>3, EnsureStep
<1>6. CASE Fault /\ ReturnError
  BY <1>2, <1>4, <1>6, ErrorStep
<1> QED
  BY <1>1, <1>5, <1>6 DEF HostUp, Command

LEMMA PeerUpInv == Inv /\ PeerUp => Inv'
<1> SUFFICES ASSUME Inv, PeerUp PROVE Inv'
  OBVIOUS
<1> DEFINE k == [link[cur.veth] EXCEPT !.peerUp = TRUE]
           n == AfterPeerUp
<1>1. pc = "peerUp" /\ (SetLink(k) \/ UNCHANGED host)
  BY DEF PeerUp, Command
<1>2. pc \in EPs
  BY <1>1 DEF EPs, EnsurePCs
<1>3. k \in Link /\ k.place \in {ns, "root", "absent", "lost"}
      /\ (k.addrs # {} => k.place \in {ns, "lost"})
  BY <1>1, <1>2, CurTyped DEF Inv, Ladder, HostOK, TenantAddressesConfined, Link, NoLink, Places, ns
<1>4. Local /\ HostOK'
  BY <1>1, <1>2, <1>3, HostLocal, SetLinkLocal
<1>5. CASE SetLink(k) /\ Goto(n)
  <2>1. n \in EPs
    BY DEF EPs, EnsurePCs, AfterPeerUp
  <2>2. link'[cur.veth] = k
    BY <1>2, <1>5, CurTyped DEF SetLink, HostOK
  <2>3. Ladder'
    BY <1>1, <1>2, <1>5, <2>2, CurTyped
    DEF Inv, Ladder, Goto, call, SetLink, Isolated, ns, Link, NoLink, EPs, EnsurePCs, AfterPeerUp
  <2> QED
    BY <1>2, <1>4, <1>5, <2>1, <2>3, EnsureStep
<1>6. CASE Fault /\ ReturnError
  BY <1>2, <1>4, <1>6, ErrorStep
<1> QED
  BY <1>1, <1>5, <1>6 DEF PeerUp, Command

LEMMA AddrReplaceInv == Inv /\ AddrReplace => Inv'
<1> SUFFICES ASSUME Inv, AddrReplace PROVE Inv'
  OBVIOUS
<1> DEFINE k == [link[cur.veth] EXCEPT !.addrs = @ \cup {cur.addr}]
           n == IF Isolated THEN "peerUp" ELSE "addPort"
<1>1. pc = "addrReplace" /\ (SetLink(k) \/ UNCHANGED host)
  BY DEF AddrReplace, Command
<1>2. pc \in EPs
  BY <1>1 DEF EPs, EnsurePCs
<1>3. k \in Link /\ k.place \in {ns, "root", "absent", "lost"}
      /\ (k.addrs # {} => k.place \in {ns, "lost"})
  BY <1>1, <1>2, CurTyped DEF Inv, Ladder, HostOK, TenantAddressesConfined, Link, NoLink, Places, ns
<1>4. Local /\ HostOK'
  BY <1>1, <1>2, <1>3, HostLocal, SetLinkLocal
<1>5. CASE SetLink(k) /\ Goto(n)
  <2>1. n \in EPs
    BY DEF EPs, EnsurePCs
  <2>2. link'[cur.veth] = k
    BY <1>2, <1>5, CurTyped DEF SetLink, HostOK
  <2>3. Ladder'
    BY <1>1, <1>2, <1>5, <2>2, CurTyped
    DEF Inv, Ladder, Goto, call, SetLink, Isolated, ns, Link, NoLink, EPs, EnsurePCs
  <2> QED
    BY <1>2, <1>4, <1>5, <2>1, <2>3, EnsureStep
<1>6. CASE Fault /\ ReturnError
  BY <1>2, <1>4, <1>6, ErrorStep
<1> QED
  BY <1>1, <1>5, <1>6 DEF AddrReplace, Command

LEMMA AddPortInv == Inv /\ AddPort => Inv'
<1> SUFFICES ASSUME Inv, AddPort PROVE Inv'
  OBVIOUS
<1> DEFINE x == IF ovs[cur.veth] = "none" THEN "unbound" ELSE ovs[cur.veth]
<1>1. pc = "addPort" /\ (SetPort(x) \/ UNCHANGED host)
  BY DEF AddPort, Command
<1>2. pc \in EPs
  BY <1>1 DEF EPs, EnsurePCs
<1>3. x \in Ports \cup {"none", "unbound"}
  BY <1>2, CurTyped DEF HostOK
<1>4. Local /\ HostOK'
  BY <1>1, <1>2, <1>3, HostLocal, SetPortLocal
<1>5. CASE SetPort(x) /\ Goto("setIface")
  <2>1. "setIface" \in EPs
    BY DEF EPs, EnsurePCs
  <2>2. Ladder'
    BY <1>1, <1>5 DEF Inv, Ladder, Goto, call, SetPort, Isolated, ns, EPs, EnsurePCs
  <2> QED
    BY <1>2, <1>4, <1>5, <2>1, <2>2, EnsureStep
<1>6. CASE Fault /\ ReturnError
  BY <1>2, <1>4, <1>6, ErrorStep
<1> QED
  BY <1>1, <1>5, <1>6 DEF AddPort, Command

\* The last command of an endpoint: all rungs are climbed, so it is attached.
LEMMA SetIfaceIDInv == Inv /\ SetIfaceID => Inv'
<1> SUFFICES ASSUME Inv, SetIfaceID PROVE Inv'
  OBVIOUS
<1>1. pc = "setIface" /\ (SetPort(cur.port) \/ UNCHANGED host)
  BY DEF SetIfaceID
<1>2. pc \in EPs
  BY <1>1 DEF EPs, EnsurePCs
<1>3. Local /\ HostOK'
  BY <1>1, <1>2, HostLocal, SetPortLocal, CurTyped
<1>4. CASE SetPort(cur.port) /\ Record
  <2>1. cur \in req /\ cur \in Endpoints /\ cur.veth \in Veths
    BY <1>2, CurTyped DEF Inv, TypeOK, EPs
  <2>2. ASSUME NEW c \in Endpoints, c = cur PROVE Attached(c)'
    <3>1. /\ link[cur.veth].place = NSOf[cur.veth]
          /\ NSOf[cur.veth] # "root" => nss[NSOf[cur.veth]] = "up"
          /\ link[cur.veth].mac = cur.port
          /\ link[cur.veth].up /\ link[cur.veth].peerUp
          /\ cur.addr # "none" => cur.addr \in link[cur.veth].addrs
      BY <1>1, <1>2 DEF Inv, Ladder, Isolated, ns, EPs, EnsurePCs
    <3>2. UNCHANGED <<link, nss>> /\ ovs'[cur.veth] = cur.port
      BY <1>2, <1>4, <2>1, CurTyped DEF SetPort, HostOK
    <3>3. /\ link'[cur.veth].place = NSOf[cur.veth]
          /\ NSOf[cur.veth] # "root" => nss'[NSOf[cur.veth]] = "up"
          /\ link'[cur.veth].mac = cur.port
          /\ link'[cur.veth].up /\ link'[cur.veth].peerUp
          /\ cur.addr # "none" => cur.addr \in link'[cur.veth].addrs
          /\ ovs'[cur.veth] = cur.port
      BY <3>1, <3>2
    <3> QED
      BY <2>2, <3>3 DEF Attached
  <2>3. ASSUME NEW e \in desired' PROVE Attached(e)'
    <3>1. CASE e = cur
      BY <2>1, <2>2, <3>1
    <3>2. CASE e # cur
      <4>1. e \in desired /\ e \in Endpoints /\ e.veth # cur.veth
        BY <1>4, <3>2 DEF Record, Inv, TypeOK
      <4>2. Attached(e)
        BY <4>1 DEF Inv, DesiredAttached
      <4> QED
        BY <1>3, <2>1, <4>1, <4>2, AttachedFrame
    <3> QED
      BY <3>1, <3>2
  <2>4. /\ pc' = "ensure" /\ cur' = NoEndpoint
        /\ desired' = {e \in desired : e.veth # cur.veth} \cup {cur}
        /\ UNCHANGED <<req, todo, active, stale, outcome, calm, faults, restarts>>
    BY <1>4 DEF Record
  <2>5. TypeOK'
    BY <1>3, <2>1, <2>4 DEF Inv, HostOK, TypeOK, EnsurePCs, PrunePCs, PCs
  <2>6. Covered'
    <3>1. VethsOf(req) = VethsOf(desired) \cup VethsOf(todo) \cup {cur.veth}
      BY <1>2 DEF Inv, Covered
    <3>2. VethsOf(desired') \cup {cur.veth} = VethsOf(desired) \cup {cur.veth}
          /\ cur.veth \in VethsOf(desired')
      BY <2>4 DEF VethsOf
    <3>3. VethsOf(req) = VethsOf(desired') \cup VethsOf(todo)
      BY <3>1, <3>2
    <3> QED
      BY <2>4, <3>3 DEF Covered, VethsOf, Removing, EPs, EnsurePCs, PrunePCs
  <2>7. Busy' /\ Ladder' /\ StaleApart' /\ DesiredAttached' /\ ReconcileAttachesAll'
    BY <1>1, <2>3, <2>4 DEF Inv, Busy, Ladder, StaleApart, DesiredAttached, ReconcileAttachesAll,
       Removing, EPs, EnsurePCs, PrunePCs
  <2> QED
    BY <1>3, <2>5, <2>6, <2>7 DEF Inv, HostOK
<1>5. CASE Fault /\ ReturnError
  BY <1>2, <1>3, <1>5, ErrorStep
<1> QED
  BY <1>4, <1>5 DEF SetIfaceID

-----------------------------------------------------------------------------
(* The loops around the commands.                                          *)

LEMMA AttachedSame ==
    ASSUME NEW e, UNCHANGED host
    PROVE  Attached(e)' <=> Attached(e)
  BY DEF host, Attached

LEMMA NextEndpointInv == Inv /\ NextEndpoint => Inv'
<1> SUFFICES ASSUME Inv, NEW e \in todo,
                    pc = "ensure", todo' = todo \ {e}, cur' = e,
                    pc' = IF NSOf[e.veth] # "root" THEN "listNS" ELSE "showInRoot",
                    UNCHANGED <<host, req, desired, active, stale, outcome, calm, faults, restarts>>
             PROVE  Inv'
  BY DEF NextEndpoint
<1>1. e \in req /\ e \in Endpoints
  BY DEF Inv, TypeOK
<1>2. HostOK'
  BY HostLocal
<1>3. TypeOK'
  BY <1>1, <1>2 DEF Inv, TypeOK, HostOK, EnsurePCs, PrunePCs, PCs
<1>4. DesiredAttached'
  BY AttachedSame DEF Inv, DesiredAttached, EPs, EnsurePCs
<1>5. Covered'
  <2>1. VethsOf(req) = VethsOf(desired) \cup VethsOf(todo)
    BY DEF Inv, Covered
  <2>2. VethsOf(todo) = VethsOf(todo') \cup {e.veth}
    BY DEF VethsOf
  <2> QED
    BY <2>1, <2>2 DEF Covered, VethsOf, Removing, EPs, EnsurePCs, PrunePCs
<1>6. Ladder'
  BY DEF Ladder, Isolated, ns, EPs, EnsurePCs
<1> QED
  BY <1>2, <1>3, <1>4, <1>5, <1>6
  DEF Inv, HostOK, Busy, StaleApart, Removing, ReconcileAttachesAll, EPs, EnsurePCs, PrunePCs

\* Everything asked for is in `desired` now; what is not is removed.
LEMMA EnsuresDoneInv == Inv /\ EnsuresDone => Inv'
<1> SUFFICES ASSUME Inv, EnsuresDone PROVE Inv'
  OBVIOUS
<1>1. /\ pc = "ensure" /\ todo = {} /\ pc' = "prune"
      /\ stale' = {e \in active : e.veth \notin VethsOf(desired)}
      /\ UNCHANGED <<host, req, todo, cur, desired, active, outcome, calm, faults, restarts>>
  BY DEF EnsuresDone
<1>2. HostOK'
  BY <1>1, HostLocal
<1>3. TypeOK'
  BY <1>1, <1>2 DEF Inv, TypeOK, HostOK, EnsurePCs, PrunePCs, PCs
<1>4. DesiredAttached'
  BY <1>1, AttachedSame DEF Inv, DesiredAttached, EPs, EnsurePCs
<1>5. Covered' /\ StaleApart' /\ Ladder'
  BY <1>1 DEF Inv, Covered, StaleApart, Ladder, VethsOf, Removing, EPs, EnsurePCs, PrunePCs
<1> QED
  BY <1>1, <1>2, <1>3, <1>4, <1>5 DEF Inv, HostOK, Busy, ReconcileAttachesAll

LEMMA PruneNextInv == Inv /\ PruneNext => Inv'
<1> SUFFICES ASSUME Inv, NEW e \in stale, pc = "prune", stale' = stale \ {e}, cur' = e,
                    pc' = "delPort",
                    UNCHANGED <<host, req, todo, desired, active, outcome, calm, faults, restarts>>
             PROVE  Inv'
  BY DEF PruneNext
<1>1. e \in active /\ e.veth \notin VethsOf(desired)
  BY DEF Inv, TypeOK, StaleApart, Removing
<1>2. HostOK'
  BY HostLocal
<1>3. TypeOK'
  BY <1>1, <1>2 DEF Inv, TypeOK, HostOK, EnsurePCs, PrunePCs, PCs
<1>4. DesiredAttached'
  BY AttachedSame DEF Inv, DesiredAttached, EPs, EnsurePCs
<1>5. Covered' /\ StaleApart' /\ Ladder'
  BY <1>1 DEF Inv, Covered, StaleApart, Ladder, Removing, EPs, EnsurePCs, PrunePCs
<1> QED
  BY <1>2, <1>3, <1>4, <1>5 DEF Inv, HostOK, Busy, ReconcileAttachesAll

LEMMA PruneDoneInv == Inv /\ PruneDone => Inv'
<1> SUFFICES ASSUME Inv, PruneDone PROVE Inv'
  OBVIOUS
<1>1. /\ pc = "prune" /\ stale = {} /\ active' = desired /\ pc' = "idle" /\ outcome' = "ok"
      /\ desired' = {} /\ cur' = NoEndpoint
      /\ UNCHANGED <<host, req, todo, stale, calm, faults, restarts>>
  BY DEF PruneDone
<1>2. HostOK'
  BY <1>1, HostLocal
<1>3. TypeOK'
  BY <1>1, <1>2 DEF Inv, TypeOK, HostOK, EnsurePCs, PrunePCs, PCs
<1>4. ReconcileAttachesAll'
  <2>1. VethsOf(req) = VethsOf(desired) /\ desired \subseteq req
    BY <1>1 DEF Inv, TypeOK, Covered, Removing
  <2>2. \A e \in desired : Attached(e)'
    BY <1>1, AttachedSame DEF Inv, DesiredAttached, EPs, EnsurePCs
  <2> QED
    BY <1>1, <2>1, <2>2 DEF ReconcileAttachesAll, VethsOf
<1> QED
  BY <1>1, <1>2, <1>3, <1>4
  DEF Inv, HostOK, Busy, Ladder, Covered, StaleApart, DesiredAttached, Removing, EPs, EnsurePCs, PrunePCs

LEMMA SyncInv == Inv /\ Sync => Inv'
<1> SUFFICES ASSUME Inv, NEW eps \in SUBSET Endpoints, ReconcileEndpoints(eps) PROVE Inv'
  BY DEF Sync
<1>1. /\ pc = "idle" /\ pc' = "ensure" /\ req' = eps /\ todo' = eps /\ desired' = {}
      /\ outcome' = "running" /\ calm' = TRUE
      /\ UNCHANGED <<host, cur, active, stale, faults, restarts>>
  BY DEF ReconcileEndpoints
<1>2. HostOK'
  BY <1>1, HostLocal
<1>3. TypeOK'
  BY <1>1, <1>2 DEF Inv, TypeOK, HostOK, EnsurePCs, PrunePCs, PCs
<1> QED
  BY <1>1, <1>2, <1>3
  DEF Inv, HostOK, Busy, Ladder, Covered, StaleApart, DesiredAttached, ReconcileAttachesAll,
      VethsOf, Removing, EPs, EnsurePCs, PrunePCs

LEMMA CleanupInv == Inv /\ Cleanup => Inv'
<1> SUFFICES ASSUME Inv, Cleanup PROVE Inv'
  OBVIOUS
<1>1. /\ pc = "idle" /\ pc' = "prune" /\ req' = {} /\ todo' = {} /\ desired' = {}
      /\ stale' = active /\ outcome' = "running" /\ calm' = TRUE
      /\ UNCHANGED <<host, cur, active, faults, restarts>>
  BY DEF Cleanup
<1>2. HostOK'
  BY <1>1, HostLocal
<1>3. TypeOK'
  BY <1>1, <1>2 DEF Inv, TypeOK, HostOK, EnsurePCs, PrunePCs, PCs
<1> QED
  BY <1>1, <1>2, <1>3
  DEF Inv, HostOK, Busy, Ladder, Covered, StaleApart, DesiredAttached, ReconcileAttachesAll,
      VethsOf, Removing, EPs, EnsurePCs, PrunePCs

-----------------------------------------------------------------------------
(* The removal commands and the host.                                      *)

LEMMA NoLinkTyped == NoLink \in Link /\ NoLink.place = "absent" /\ NoLink.addrs = {}
  BY DEF NoLink, Link, Places

LEMMA DelPortInv == Inv /\ DelPort => Inv'
<1> SUFFICES ASSUME Inv, DelPort PROVE Inv'
  OBVIOUS
<1>1. pc = "delPort" /\ (SetPort("none") \/ UNCHANGED host)
  BY DEF DelPort, PruneCommand
<1>2. pc \in PrunePCs
  BY <1>1 DEF PrunePCs
<1>3. Local /\ HostOK'
  BY <1>1, <1>2, HostLocal, SetPortLocal
<1>4. PICK l \in PrunePCs \cup {"prune"} :
        Goto(l) \/ (Fault /\ pc' = l /\ UNCHANGED <<call, outcome>>)
  BY DEF DelPort, PruneCommand, PrunePCs
<1> QED
  BY <1>2, <1>3, <1>4, PruneStep

LEMMA ShowPeerInv == Inv /\ ShowPeer => Inv'
<1> SUFFICES ASSUME Inv, ShowPeer PROVE Inv'
  OBVIOUS
<1>1. pc = "showPeer" /\ UNCHANGED host
  BY DEF ShowPeer, PruneCommand
<1>2. pc \in PrunePCs
  BY <1>1 DEF PrunePCs
<1>3. Local /\ HostOK'
  BY <1>1, <1>2, HostLocal
<1>4. PICK l \in PrunePCs \cup {"prune"} :
        Goto(l) \/ (Fault /\ pc' = l /\ UNCHANGED <<call, outcome>>)
  BY DEF ShowPeer, PruneCommand, PrunePCs
<1> QED
  BY <1>2, <1>3, <1>4, PruneStep

LEMMA DelPeerInv == Inv /\ DelPeer => Inv'
<1> SUFFICES ASSUME Inv, DelPeer PROVE Inv'
  OBVIOUS
<1>1. pc = "delPeer" /\ (SetLink(NoLink) \/ UNCHANGED host)
  BY DEF DelPeer, PruneCommand
<1>2. pc \in PrunePCs
  BY <1>1 DEF PrunePCs
<1>3. Local /\ HostOK'
  BY <1>1, <1>2, HostLocal, SetLinkLocal, NoLinkTyped
<1>4. PICK l \in PrunePCs \cup {"prune"} :
        Goto(l) \/ (Fault /\ pc' = l /\ UNCHANGED <<call, outcome>>)
  BY DEF DelPeer, PruneCommand, PrunePCs, AfterVeth
<1> QED
  BY <1>2, <1>3, <1>4, PruneStep

LEMMA ShowHostInv == Inv /\ ShowHost => Inv'
<1> SUFFICES ASSUME Inv, ShowHost PROVE Inv'
  OBVIOUS
<1>1. pc = "showHost" /\ UNCHANGED host
  BY DEF ShowHost, PruneCommand
<1>2. pc \in PrunePCs
  BY <1>1 DEF PrunePCs
<1>3. Local /\ HostOK'
  BY <1>1, <1>2, HostLocal
<1>4. PICK l \in PrunePCs \cup {"prune"} :
        Goto(l) \/ (Fault /\ pc' = l /\ UNCHANGED <<call, outcome>>)
  BY DEF ShowHost, PruneCommand, PrunePCs, AfterVeth
<1> QED
  BY <1>2, <1>3, <1>4, PruneStep

LEMMA DelHostInv == Inv /\ DelHost => Inv'
<1> SUFFICES ASSUME Inv, DelHost PROVE Inv'
  OBVIOUS
<1>1. pc = "delHost" /\ (SetLink(NoLink) \/ UNCHANGED host)
  BY DEF DelHost, PruneCommand
<1>2. pc \in PrunePCs
  BY <1>1 DEF PrunePCs
<1>3. Local /\ HostOK'
  BY <1>1, <1>2, HostLocal, SetLinkLocal, NoLinkTyped
<1>4. PICK l \in PrunePCs \cup {"prune"} :
        Goto(l) \/ (Fault /\ pc' = l /\ UNCHANGED <<call, outcome>>)
  BY DEF DelHost, PruneCommand, PrunePCs, AfterVeth
<1> QED
  BY <1>2, <1>3, <1>4, PruneStep

LEMMA ListStaleNSInv == Inv /\ ListStaleNS => Inv'
<1> SUFFICES ASSUME Inv, ListStaleNS PROVE Inv'
  OBVIOUS
<1>1. pc = "listStaleNS" /\ UNCHANGED host
  BY DEF ListStaleNS, PruneCommand
<1>2. pc \in PrunePCs
  BY <1>1 DEF PrunePCs
<1>3. Local /\ HostOK'
  BY <1>1, <1>2, HostLocal
<1>4. PICK l \in PrunePCs \cup {"prune"} :
        Goto(l) \/ (Fault /\ pc' = l /\ UNCHANGED <<call, outcome>>)
  BY DEF ListStaleNS, PruneCommand, PrunePCs
<1> QED
  BY <1>2, <1>3, <1>4, PruneStep

LEMMA DropNSLocal ==
    ASSUME Inv, pc \in PrunePCs, NEW place \in {"absent", "lost"}, DropNS(place)
    PROVE  Local /\ HostOK'
<1>1. /\ nss' = [nss EXCEPT ![ns] = "none"] /\ ovs' = ovs
      /\ \/ link' = link
         \/ link' = [link EXCEPT ![cur.veth] = NoLink]
         \/ link' = [link EXCEPT ![cur.veth] = [link[cur.veth] EXCEPT !.place = "lost"]]
  BY DEF DropNS
<1>2. [link[cur.veth] EXCEPT !.place = "lost"] \in Link
  BY CurTyped DEF Link, Places
<1>3. nss' \in [NetNSs -> {"none", "down", "up"}]
  BY <1>1, CurTyped DEF HostOK
<1>4. link' \in [Veths -> Link]
  BY <1>1, <1>2, NoLinkTyped, CurTyped DEF HostOK
<1>5. \A v \in Veths : link'[v] = link[v]
         \/ (v = cur.veth /\ (link'[v] = NoLink \/ link'[v].place = "lost"))
  BY <1>1, <1>2, CurTyped DEF HostOK, Link
<1>6. PlacesOK' /\ TenantAddressesConfined'
  BY <1>5, NoLinkTyped, CurTyped DEF HostOK, PlacesOK, TenantAddressesConfined
<1>7. Local
  BY <1>1, <1>5, CurTyped DEF Local, HostOK
<1> QED
  BY <1>1, <1>3, <1>4, <1>6, <1>7, CurTyped DEF HostOK

LEMMA DelNetNSInv == Inv /\ DelNetNS => Inv'
<1> SUFFICES ASSUME Inv, NEW place \in {"absent", "lost"},
                    PruneCommand("delNS", DropNS(place), "prune", "prune")
             PROVE  Inv'
  BY DEF DelNetNS
<1>1. pc = "delNS" /\ (DropNS(place) \/ UNCHANGED host)
  BY DEF PruneCommand
<1>2. pc \in PrunePCs
  BY <1>1 DEF PrunePCs
<1>3. Local /\ HostOK'
  BY <1>1, <1>2, HostLocal, DropNSLocal
<1>4. Goto("prune") \/ (Fault /\ pc' = "prune" /\ UNCHANGED <<call, outcome>>)
  BY DEF PruneCommand
<1> QED
  BY <1>2, <1>3, <1>4, PruneStep

\* A pair that is reaped was attached to nothing.
LEMMA ReapKeeps ==
    ASSUME Inv, Reap
    PROVE  HostOK' /\ \A e \in Endpoints : Attached(e) => Attached(e)'
<1> PICK v \in Veths : link[v].place = "lost" /\ link' = [link EXCEPT ![v] = NoLink]
  BY DEF Reap
<1>1. UNCHANGED <<nss, ovs>>
  BY DEF Reap
<1>2. HostOK'
  BY <1>1, NoLinkTyped DEF Inv, TypeOK, HostOK, PlacesOK, TenantAddressesConfined
<1>3. ASSUME NEW e \in Endpoints, Attached(e) PROVE Attached(e)'
  <2>1. e.veth # v /\ e.veth \in Veths
    BY <1>3 DEF Attached
  <2>2. link'[e.veth] = link[e.veth]
    BY <2>1 DEF Inv, TypeOK
  <2> QED
    BY <1>1, <1>3, <2>2 DEF Attached
<1> QED
  BY <1>2, <1>3

LEMMA ReapInv == Inv /\ Reap => Inv'
<1> SUFFICES ASSUME Inv, Reap PROVE Inv'
  OBVIOUS
<1>1. UNCHANGED <<nss, ovs, pc, req, todo, cur, desired, active, stale, outcome, calm, faults, restarts>>
  BY DEF Reap, call
<1>2. TypeOK' /\ PlacesOK' /\ TenantAddressesConfined'
  BY <1>1, ReapKeeps DEF Inv, TypeOK, HostOK
<1>3. DesiredAttached' /\ ReconcileAttachesAll'
  BY <1>1, ReapKeeps DEF Inv, TypeOK, DesiredAttached, ReconcileAttachesAll
<1>4. Ladder'
  <2>1. CASE pc \in EPs
    <3>1. cur.veth \in Veths /\ ns \in NetNSs \cup {"root"}
      BY <2>1, CurTyped
    <3>2. link'[cur.veth] = link[cur.veth]
          \/ (link[cur.veth].place = "lost" /\ link'[cur.veth] = NoLink)
      BY <3>1 DEF Reap, Inv, TypeOK
    <3>3. CASE link'[cur.veth] = link[cur.veth]
      BY <1>1, <3>3 DEF Inv, Ladder, Isolated, ns
    <3>4. CASE link[cur.veth].place = "lost" /\ link'[cur.veth] = NoLink
      BY <1>1, <3>1, <3>4, NoLinkTyped DEF Inv, Ladder, Isolated, ns
    <3> QED
      BY <3>2, <3>3, <3>4
  <2>2. CASE pc \notin EPs
    BY <1>1, <2>2 DEF Ladder, EPs, EnsurePCs
  <2> QED
    BY <2>1, <2>2
<1> QED
  BY <1>1, <1>2, <1>3, <1>4 DEF Inv, Busy, Covered, StaleApart, Removing

LEMMA NewProcessInv ==
    ASSUME Inv, NewProcess, HostOK'
    PROVE  Inv'
<1>1. /\ pc' = "idle" /\ req' = {} /\ todo' = {} /\ desired' = {} /\ active' = {} /\ stale' = {}
      /\ cur' = NoEndpoint /\ outcome' = "none" /\ calm' = TRUE /\ faults' = faults
  BY DEF NewProcess
<1>2. restarts' \in 0..MaxRestarts
  <2>1. restarts \in 0..MaxRestarts /\ restarts < MaxRestarts /\ restarts' = restarts + 1
    BY DEF Inv, TypeOK, NewProcess
  <2> QED
    BY <2>1
<1>3. TypeOK'
  BY <1>1, <1>2 DEF Inv, TypeOK, HostOK, EnsurePCs, PrunePCs, PCs
<1> QED
  BY <1>1, <1>3
  DEF Inv, HostOK, Busy, Ladder, Covered, StaleApart, DesiredAttached, ReconcileAttachesAll,
      Removing, EPs, EnsurePCs, PrunePCs

LEMMA RestartInv == Inv /\ Restart => Inv'
  BY NewProcessInv, HostLocal DEF Restart

LEMMA RebootInv == Inv /\ Reboot => Inv'
<1> SUFFICES ASSUME Inv, Reboot PROVE Inv'
  OBVIOUS
<1>1. HostOK'
  BY NoLinkTyped DEF Reboot, Inv, TypeOK, HostOK, PlacesOK, TenantAddressesConfined
<1> QED
  BY <1>1, NewProcessInv DEF Reboot

LEMMA StutterInv == Inv /\ UNCHANGED vars => Inv'
  BY DEF vars, Inv, TypeOK, Busy, Ladder, DesiredAttached, Covered, StaleApart, PlacesOK,
     TenantAddressesConfined, ReconcileAttachesAll, Attached, Removing, Isolated, ns

-----------------------------------------------------------------------------
(* The theorems.                                                           *)

LEMMA StepInv == Inv /\ [Next]_vars => Inv'
<1> SUFFICES ASSUME Inv, [Next]_vars PROVE Inv'
  OBVIOUS
<1>1. CASE Sync
  BY <1>1, SyncInv
<1>2. CASE Cleanup
  BY <1>2, CleanupInv
<1>3. CASE Provision
  BY <1>3, NextEndpointInv, EnsuresDoneInv, ListNetNSInv, NetNSAddInv, LoopbackUpInv, ShowInNSInv,
     ShowInRootInv, LinkAddInv, LinkAddRefusedInv, MoveToNSInv, SetMACInv, HostUpInv,
     AddrReplaceInv, PeerUpInv, AddPortInv, SetIfaceIDInv DEF Provision
<1>4. CASE Prune
  BY <1>4, PruneNextInv, PruneDoneInv, DelPortInv, ShowPeerInv, DelPeerInv, ShowHostInv,
     DelHostInv, ListStaleNSInv, DelNetNSInv DEF Prune
<1>5. CASE Reap
  BY <1>5, ReapInv
<1>6. CASE Restart
  BY <1>6, RestartInv
<1>7. CASE Reboot
  BY <1>7, RebootInv
<1>8. CASE UNCHANGED vars
  BY <1>8, StutterInv
<1> QED
  BY <1>1, <1>2, <1>3, <1>4, <1>5, <1>6, <1>7, <1>8 DEF Next

LEMMA Invariance == Spec => []Inv
  BY InitInv, StepInv, PTL DEF Spec

\* Every variable of the manager and of the host keeps its type (NetworkManager).
THEOREM TypeCorrect == Spec => []TypeOK
  BY Invariance, PTL DEF Inv

\* A ReconcileEndpoints that returns nil has attached an endpoint for every interface
\* it was asked for, from any leftover of earlier calls (manager.go ReconcileEndpoints).
THEOREM ReconcileCorrect == Spec => []ReconcileAttachesAll
  BY Invariance, PTL DEF Inv

\* No tenant address is ever on an interface in the root namespace (EnsureVethPair).
THEOREM Confinement == Spec => []TenantAddressesConfined
  BY Invariance, PTL DEF Inv

-----------------------------------------------------------------------------
(* Action properties.                                                      *)

LEMMA RefusedOnlyWhenLost == Inv /\ LinkAddRefused => link[cur.veth].place = "lost"
<1> SUFFICES ASSUME Inv, LinkAddRefused PROVE link[cur.veth].place = "lost"
  OBVIOUS
<1>1. pc = "linkAdd" /\ link[cur.veth].place # "absent" /\ pc \in EPs
  BY DEF LinkAddRefused, Present, EPs, EnsurePCs
<1>2. link[cur.veth].place \in {ns, "root", "absent", "lost"}
  BY <1>1, CurTyped DEF HostOK, PlacesOK, ns
<1>3. link[cur.veth].place \notin {ns, "root"}
  BY <1>1 DEF Inv, Ladder
<1> QED
  BY <1>1, <1>2, <1>3

\* A call that returns an error met a command that failed by itself, or a pair whose
\* host end is caught in a deleted namespace (EnsureVethPair's `ip link add`).
THEOREM RepairsLeftovers == Spec => OnlyFaultsFail
<1>1. Inv /\ [Next]_vars =>
        [outcome' = "error" /\ outcome # "error" => ~calm' \/ link[cur.veth].place = "lost"]_vars
  <2> SUFFICES ASSUME Inv, Next, outcome' = "error", outcome # "error", calm'
               PROVE  link[cur.veth].place = "lost"
    OBVIOUS
  <2>1. ~Fault
    BY DEF Fault
  <2>2. ~Sync /\ ~Cleanup /\ ~Reap /\ ~Restart /\ ~Reboot
    BY DEF Sync, ReconcileEndpoints, Cleanup, Reap, Restart, Reboot, NewProcess
  <2>3. ~Prune
    BY <2>1 DEF Prune, PruneNext, PruneDone, DelPort, ShowPeer, DelPeer, ShowHost, DelHost, ListStaleNS,
       DelNetNS, PruneCommand, Goto
  <2>4. ASSUME Provision, ~LinkAddRefused PROVE FALSE
    BY <2>1, <2>4 DEF Provision, NextEndpoint, EnsuresDone, ListNetNS, NetNSAdd, LoopbackUp, ShowInNS,
       ShowInRoot, LinkAdd, MoveToNS, SetMAC, HostUp, AddrReplace, PeerUp, AddPort, SetIfaceID,
       Command, Query, Goto, Record
  <2> QED
    BY <2>2, <2>3, <2>4, RefusedOnlyWhenLost DEF Next
<1> QED
  BY <1>1, Invariance, PTL DEF Spec, OnlyFaultsFail

\* Running the provisioning commands again for an endpoint that is attached repeats
\* what is there: nothing is created, moved or taken down.
LEMMA RefreshKeeps ==
    ASSUME Inv, Provision, pc \in EPs, NEW e \in Endpoints,
           cur.veth = e.veth, cur.port = e.port, cur.addr = e.addr, Attached(e)
    PROVE  Attached(e)'
<1>1. /\ e.veth \in Veths /\ ns = NSOf[e.veth] /\ link[e.veth] \in Link /\ HostOK
      /\ ns \in NetNSs \cup {"root"} /\ e.addr \in Addrs \cup {"none"} /\ e.port \in Ports
  BY CurTyped DEF ns
<1>2. /\ link[e.veth].place = ns /\ link[e.veth].mac = e.port
      /\ link[e.veth].up /\ link[e.veth].peerUp
      /\ e.addr # "none" => e.addr \in link[e.veth].addrs
      /\ ovs[e.veth] = e.port
      /\ Isolated => nss[ns] = "up"
  BY <1>1 DEF Attached, Isolated
<1>2b. ovs[cur.veth] = e.port /\ link[cur.veth].place = ns /\ ns # "absent" /\ e.port # "none"
  <2>1. ovs[e.veth] = e.port /\ link[e.veth].place = ns
    BY <1>2
  <2>2. ns # "absent" /\ e.port # "none"
    BY <1>1
  <2> QED
    BY <2>1, <2>2
<1>3. CASE UNCHANGED host
  BY <1>3, AttachedSame
<1>4. CASE pc = "loUp" /\ SetNS(ns, "up")
  <2>1. UNCHANGED <<link, ovs>> /\ (ns # "root" => nss'[ns] = "up")
    BY <1>1, <1>4 DEF SetNS, HostOK
  <2> QED
    BY <1>1, <1>2, <2>1 DEF Attached
<1>5. ASSUME NEW k \in Link, SetLink(k), k.place = ns, k.mac = e.port, k.up, k.peerUp,
             e.addr # "none" => e.addr \in k.addrs
      PROVE  Attached(e)'
  <2>1. link'[e.veth] = k /\ UNCHANGED <<nss, ovs>>
    BY <1>1, <1>5 DEF SetLink, HostOK
  <2> QED
    BY <1>1, <1>2, <1>5, <2>1 DEF Attached, Isolated
<1>6. ASSUME NEW x, x = e.port, SetPort(x) PROVE Attached(e)'
  <2>1. ovs'[e.veth] = e.port /\ UNCHANGED <<nss, link>>
    BY <1>1, <1>6 DEF SetPort, HostOK
  <2> QED
    BY <1>1, <1>2, <2>1 DEF Attached, Isolated
<1>7. CASE SetMAC
  <2> DEFINE k == [link[e.veth] EXCEPT !.mac = e.port]
  <2>1. UNCHANGED host \/ SetLink(k)
    BY <1>7 DEF SetMAC, Command
  <2>2. k \in Link /\ k.place = ns /\ k.mac = e.port /\ k.up /\ k.peerUp /\ k.addrs = link[e.veth].addrs
    BY <1>1, <1>2 DEF Link
  <2> QED
    BY <1>2, <1>3, <1>5, <2>1, <2>2
<1>8. CASE HostUp
  <2> DEFINE k == [link[e.veth] EXCEPT !.up = TRUE]
  <2>1. UNCHANGED host \/ SetLink(k)
    BY <1>8 DEF HostUp, Command
  <2>2. k \in Link /\ k.place = ns /\ k.mac = e.port /\ k.up /\ k.peerUp /\ k.addrs = link[e.veth].addrs
    BY <1>1, <1>2 DEF Link
  <2> QED
    BY <1>2, <1>3, <1>5, <2>1, <2>2
<1>9. CASE PeerUp
  <2> DEFINE k == [link[e.veth] EXCEPT !.peerUp = TRUE]
  <2>1. UNCHANGED host \/ SetLink(k)
    BY <1>9 DEF PeerUp, Command
  <2>2. k \in Link /\ k.place = ns /\ k.mac = e.port /\ k.up /\ k.peerUp /\ k.addrs = link[e.veth].addrs
    BY <1>1, <1>2 DEF Link
  <2> QED
    BY <1>2, <1>3, <1>5, <2>1, <2>2
<1>10. CASE AddrReplace
  <2> DEFINE k == [link[e.veth] EXCEPT !.addrs = @ \cup {e.addr}]
  <2>1. pc = "addrReplace" /\ (UNCHANGED host \/ SetLink(k))
    BY <1>10 DEF AddrReplace, Command
  <2>2. e.addr \in Addrs
    BY <1>1, <2>1 DEF Inv, Ladder
  <2>3. k \in Link /\ k.place = ns /\ k.mac = e.port /\ k.up /\ k.peerUp /\ e.addr \in k.addrs
    BY <1>1, <1>2, <2>2 DEF Link
  <2> QED
    BY <1>3, <1>5, <2>1, <2>3
<1>11. CASE AddPort
  <2> DEFINE x == IF ovs[cur.veth] = "none" THEN "unbound" ELSE ovs[cur.veth]
  <2>1. x = e.port
    BY <1>2b
  <2>2. UNCHANGED host \/ SetPort(x)
    BY <1>11 DEF AddPort, Command
  <2> QED
    BY <1>3, <1>6, <2>1, <2>2
<1>12. CASE SetIfaceID
  BY <1>3, <1>6, <1>12 DEF SetIfaceID
<1>13. ~NetNSAdd /\ ~LinkAdd /\ ~MoveToNS
  <2>1. /\ pc \in {"addNS", "move"} => Isolated
        /\ pc = "addNS" => nss[ns] = "none"
        /\ pc = "move" /\ Isolated => link[cur.veth].place # ns
    BY DEF Inv, Ladder
  <2>2. pc # "addNS" /\ pc # "move"
    BY <1>2, <2>1
  <2>3. Present
    BY <1>2b DEF Present
  <2> QED
    BY <2>2, <2>3 DEF NetNSAdd, LinkAdd, MoveToNS, Command
<1>14. CASE NextEndpoint \/ EnsuresDone
  BY <1>14 DEF NextEndpoint, EnsuresDone, EPs, EnsurePCs
<1>15. CASE ListNetNS \/ ShowInNS \/ ShowInRoot \/ LinkAddRefused
  BY <1>3, <1>15 DEF ListNetNS, ShowInNS, ShowInRoot, LinkAddRefused, Query, Command
<1>16. CASE LoopbackUp
  BY <1>3, <1>4, <1>16 DEF LoopbackUp, Command
<1> QED
  BY <1>7, <1>8, <1>9, <1>10, <1>11, <1>12, <1>13, <1>14, <1>15, <1>16 DEF Provision

LEMMA EffectLocal ==
    ASSUME Inv, \/ UNCHANGED host
                \/ \E x : SetNS(ns, x)
                \/ \E k : SetLink(k)
                \/ \E x : SetPort(x)
    PROVE  Local
  BY DEF Inv, TypeOK, host, SetNS, SetLink, SetPort, Local

LEMMA ProvisionLocal == Inv /\ Provision => Local
<1> SUFFICES ASSUME Inv, Provision PROVE Local
  OBVIOUS
<1>1. CASE NextEndpoint \/ EnsuresDone \/ ListNetNS \/ ShowInNS \/ ShowInRoot \/ LinkAddRefused
  BY <1>1, EffectLocal DEF NextEndpoint, EnsuresDone, ListNetNS, ShowInNS, ShowInRoot, LinkAddRefused,
     Query, Command
<1>2. CASE NetNSAdd
  BY <1>2, EffectLocal DEF NetNSAdd, Command
<1>3. CASE LoopbackUp
  BY <1>3, EffectLocal DEF LoopbackUp, Command
<1>4. CASE LinkAdd
  BY <1>4, EffectLocal DEF LinkAdd, Command
<1>5. CASE MoveToNS
  BY <1>5, EffectLocal DEF MoveToNS, Command
<1>6. CASE SetMAC
  BY <1>6, EffectLocal DEF SetMAC, Command
<1>7. CASE HostUp
  BY <1>7, EffectLocal DEF HostUp, Command
<1>8. CASE PeerUp
  BY <1>8, EffectLocal DEF PeerUp, Command
<1>9. CASE AddrReplace
  BY <1>9, EffectLocal DEF AddrReplace, Command
<1>10. CASE AddPort
  BY <1>10, EffectLocal DEF AddPort, Command
<1>11. CASE SetIfaceID
  BY <1>11, EffectLocal DEF SetIfaceID
<1> QED
  BY <1>1, <1>2, <1>3, <1>4, <1>5, <1>6, <1>7, <1>8, <1>9, <1>10, <1>11 DEF Provision

LEMMA PruneLocal == Inv /\ Prune => Local
<1> SUFFICES ASSUME Inv, Prune PROVE Local
  OBVIOUS
<1>1. CASE PruneNext \/ PruneDone \/ ShowPeer \/ ShowHost \/ ListStaleNS
  BY <1>1, EffectLocal DEF PruneNext, PruneDone, ShowPeer, ShowHost, ListStaleNS, PruneCommand
<1>2. CASE DelPort
  BY <1>2, EffectLocal DEF DelPort, PruneCommand
<1>3. CASE DelPeer \/ DelHost
  BY <1>3, EffectLocal DEF DelPeer, DelHost, PruneCommand
<1>4. CASE DelNetNS
  <2>1. PICK place \in {"absent", "lost"} : DropNS(place) \/ UNCHANGED host
    BY <1>4 DEF DelNetNS, PruneCommand
  <2>2. pc \in PrunePCs
    BY <1>4 DEF DelNetNS, PruneCommand, PrunePCs
  <2> QED
    BY <2>1, <2>2, DropNSLocal, EffectLocal
<1> QED
  BY <1>1, <1>2, <1>3, <1>4 DEF Prune

\* Reconciling takes down no endpoint that it was asked for and that is attached
\* (ReconcileEndpoints: provisioning repeats itself, removal concerns other names).
THEOREM SteadyEndpoints == Spec => KeepsWanted
<1>1. Inv /\ [Next]_vars =>
        [outcome = "running" /\ restarts' = restarts
           => \A e \in req : Sole(e, req) /\ Attached(e) => Attached(e)']_vars
  <2> SUFFICES ASSUME Inv, Next, outcome = "running", restarts' = restarts,
                      NEW e \in req, Sole(e, req), Attached(e)
               PROVE  Attached(e)'
    OBVIOUS
  <2>1. e \in Endpoints /\ restarts \in Nat
    BY DEF Inv, TypeOK
  <2>2. ~Restart /\ ~Reboot
    BY <2>1 DEF Restart, Reboot, NewProcess
  <2>3. ~Sync /\ ~Cleanup
    BY DEF Inv, Busy, Sync, ReconcileEndpoints, Cleanup
  <2>4. CASE Reap
    BY <2>1, <2>4, ReapKeeps
  <2>5. CASE Prune
    <3>1. pc \in PrunePCs \/ UNCHANGED host
      BY <2>5 DEF Prune, PruneNext, PruneDone, DelPort, ShowPeer, DelPeer, ShowHost, DelHost,
         ListStaleNS, DelNetNS, PruneCommand, PrunePCs
    <3>2. CASE pc \in PrunePCs
      <4>1. cur.veth \notin VethsOf(req) /\ cur \in Endpoints
        BY <3>2, CurTyped DEF Inv, Covered, StaleApart, Removing
      <4>2. e.veth # cur.veth
        BY <4>1 DEF VethsOf
      <4> QED
        BY <2>1, <2>5, <4>1, <4>2, PruneLocal, AttachedFrame
    <3>3. CASE UNCHANGED host
      BY <3>3, AttachedSame
    <3> QED
      BY <3>1, <3>2, <3>3
  <2>6. CASE Provision
    <3>1. pc \in EPs \/ UNCHANGED host
      BY <2>6 DEF Provision, NextEndpoint, EnsuresDone, ListNetNS, NetNSAdd, LoopbackUp, ShowInNS,
         ShowInRoot, LinkAdd, LinkAddRefused, MoveToNS, SetMAC, HostUp, AddrReplace, PeerUp, AddPort,
         SetIfaceID, Command, Query, EPs, EnsurePCs
    <3>2. CASE pc \in EPs /\ cur.veth # e.veth
      BY <2>1, <2>6, <3>2, CurTyped, ProvisionLocal, AttachedFrame
    <3>3. CASE pc \in EPs /\ cur.veth = e.veth
      <4>1. cur \in req
        BY <3>3 DEF Inv, TypeOK, EPs
      <4>2. cur.port = e.port /\ cur.addr = e.addr
        BY <3>3, <4>1 DEF Sole
      <4> QED
        BY <2>1, <2>6, <3>3, <4>2, RefreshKeeps
    <3>4. CASE UNCHANGED host
      BY <3>4, AttachedSame
    <3> QED
      BY <3>1, <3>2, <3>3, <3>4
  <2> QED
    BY <2>2, <2>3, <2>4, <2>5, <2>6 DEF Next
<1> QED
  BY <1>1, Invariance, PTL DEF Spec, KeepsWanted

-----------------------------------------------------------------------------
(* What the host holds as long as nothing has failed.                      *)

\* The interfaces that are complete: those of the last list, those this call has done,
\* and in the removal phase those it keeps and those it has not come to.
Kept == IF Removing THEN VethsOf(desired) \cup VethsOf(stale)
        ELSE VethsOf(active) \cup VethsOf(desired)

Whole(v) ==
    /\ link[v].place = NSOf[v] /\ ovs[v] # "none"
    /\ NSOf[v] # "root" => nss[NSOf[v]] # "none"

Bare(v) ==
    /\ link[v] = NoLink /\ ovs[v] = "none"
    /\ NSOf[v] # "root" => nss[NSOf[v]] = "none"

InHand(v) == pc \in EPs \cup PrunePCs /\ v = cur.veth

\* How much there is of an interface that is being built or removed.
Unlinked == {"listNS", "addNS", "loUp", "showInNS", "showInRoot", "linkAdd", "listStaleNS", "delNS"}
Half ==
    /\ Isolated => (nss[ns] = "none" <=> pc \in {"listNS", "addNS"})
    /\ IF pc \in Unlinked THEN link[cur.veth] = NoLink
       ELSE link[cur.veth].place = IF pc = "move" THEN "root" ELSE ns
    /\ ovs[cur.veth] = "none" <=> pc \notin {"setIface", "delPort"}
    /\ pc \notin {"showHost", "delHost"}
    /\ pc \in {"listStaleNS", "delNS"} => Isolated

OneEach(eps) == \A e, f \in eps : e.veth = f.veth => e = f

Neat ==
    /\ \A v \in Kept : Whole(v)
    /\ \A v \in Veths \ Kept : IF InHand(v) THEN Half ELSE Bare(v)
    /\ \A n \in NetNSs : nss[n] # "none" => \E v \in Veths : NSOf[v] = n
    /\ OneEach(active) /\ OneEach(desired)
    /\ pc \in PrunePCs => cur.veth \notin VethsOf(stale)
    /\ pc = "idle" => desired = {}

LEMMA NeatInit == Init => Neat
  BY DEF Init, Neat, Kept, VethsOf, Bare, InHand, OneEach, Removing, EPs, EnsurePCs, PrunePCs

LEMMA KeptVeths == ASSUME Inv PROVE Kept \subseteq Veths
<1>1. desired \subseteq Endpoints /\ stale \subseteq Endpoints /\ active \subseteq Endpoints
  BY DEF Inv, TypeOK
<1> QED
  BY <1>1 DEF Kept, VethsOf

\* A pair is not lost as long as nothing has failed.
LEMMA NeatPlaces == ASSUME Inv, Neat, NEW v \in Veths PROVE link[v].place # "lost"
<1>1. NSOf[v] # "lost"
  OBVIOUS
<1>2. CASE v \in Kept
  BY <1>1, <1>2 DEF Neat, Whole
<1>3. CASE v \notin Kept /\ InHand(v)
  <2>1. Half /\ v = cur.veth
    BY <1>3 DEF Neat, InHand
  <2> QED
    BY <1>1, <2>1, NoLinkTyped DEF Half, ns
<1>4. CASE v \notin Kept /\ ~InHand(v)
  BY <1>4, NoLinkTyped DEF Neat, Bare
<1> QED
  BY <1>2, <1>3, <1>4

\* A local step leaves every other interface as complete or as absent as it was.
LEMMA OthersSame ==
    ASSUME Inv, Local, pc \in EPs \cup PrunePCs, NEW v \in Veths, v # cur.veth
    PROVE  (Whole(v)' <=> Whole(v)) /\ (Bare(v)' <=> Bare(v))
<1>1. /\ cur.veth \in Veths /\ NSOf[v] \in NetNSs \cup {"root"}
      /\ NSOf[v] = NSOf[cur.veth] => NSOf[v] = "root"
  BY CurTyped
<1>2. /\ link'[v] = link[v] /\ ovs'[v] = ovs[v]
      /\ NSOf[v] # "root" => nss'[NSOf[v]] = nss[NSOf[v]]
  BY <1>1 DEF Local, ns
<1> QED
  BY <1>2 DEF Whole, Bare

\* A command keeps the host neat if it leaves its own interface as the next command
\* expects it.
LEMMA NeatStep ==
    ASSUME Inv, Neat, Local, pc \in EPs \cup PrunePCs, NEW l, Goto(l),
           pc \in EPs => l \in EPs,
           pc \in PrunePCs => l \in PrunePCs \cup {"prune"},
           cur.veth \in Kept => Whole(cur.veth)',
           cur.veth \notin Kept => IF l = "prune" THEN Bare(cur.veth)' ELSE Half'
    PROVE  Neat'
<1>1. /\ pc' = l /\ UNCHANGED <<req, todo, cur, desired, active, stale>>
  BY DEF Goto, call
<1>2. Kept' = Kept
  BY <1>1 DEF Kept, Removing, VethsOf, EPs, EnsurePCs, PrunePCs
<1>3. ASSUME NEW v \in Kept PROVE Whole(v)'
  <2>1. v \in Veths /\ Whole(v)
    BY KeptVeths DEF Neat
  <2> QED
    BY <1>1, <2>1, OthersSame
<1>4. ASSUME NEW v \in Veths \ Kept PROVE IF InHand(v)' THEN Half' ELSE Bare(v)'
  <2>1. CASE v = cur.veth
    <3>1. InHand(v)' <=> l # "prune"
      BY <1>1, <2>1 DEF InHand, EPs, EnsurePCs, PrunePCs
    <3> QED
      BY <1>1, <2>1, <3>1
  <2>2. CASE v # cur.veth
    <3>1. ~InHand(v) /\ ~InHand(v)'
      BY <1>1, <2>2 DEF InHand
    <3> QED
      BY <2>2, <3>1, OthersSame DEF Neat
  <2> QED
    BY <2>1, <2>2
<1>5. ASSUME NEW n \in NetNSs, nss'[n] # "none" PROVE \E v \in Veths : NSOf[v] = n
  <2>1. cur.veth \in Veths /\ ns = NSOf[cur.veth]
    BY CurTyped DEF ns
  <2>2. CASE n = ns
    BY <2>1, <2>2
  <2>3. CASE n # ns
    BY <1>5, <2>3 DEF Local, Neat
  <2> QED
    BY <2>2, <2>3
<1>6. pc' \in PrunePCs => cur'.veth \notin VethsOf(stale')
  BY <1>1 DEF Neat, VethsOf, EPs, EnsurePCs, PrunePCs
<1>7. pc' # "idle"
  BY <1>1 DEF EPs, EnsurePCs, PrunePCs
<1> QED
  BY <1>1, <1>2, <1>3, <1>4, <1>5, <1>6, <1>7 DEF Neat, OneEach

\* The interface in hand, if it was complete before, and if it was not.
LEMMA NeatCur ==
    ASSUME Inv, Neat, pc \in EPs \cup PrunePCs
    PROVE  /\ cur.veth \in Kept => Whole(cur.veth) /\ pc \in EPs
           /\ cur.veth \notin Kept => Half
<1>1. cur.veth \in Veths
  BY CurTyped
<1>2. pc \in PrunePCs => cur.veth \notin Kept
  BY DEF Neat, Inv, StaleApart, Kept, Removing
<1> QED
  BY <1>1, <1>2 DEF Neat, InHand

-----------------------------------------------------------------------------
(* The provisioning commands, as long as nothing has failed.               *)

LEMMA NoFault == ASSUME Inv, faults' = faults PROVE ~Fault
  BY DEF Fault, Inv, TypeOK

LEMMA ListNetNSNeat == ASSUME Inv, Neat, ListNetNS, faults' = faults PROVE Neat'
<1> DEFINE l == IF nss[ns] # "none" THEN "loUp" ELSE "addNS"
<1>1. pc = "listNS" /\ UNCHANGED host /\ Goto(l)
  BY NoFault DEF ListNetNS, Query, Command
<1>2. pc \in EPs /\ pc \notin PrunePCs /\ Local
  BY <1>1, HostLocal DEF EPs, EnsurePCs, PrunePCs
<1>3. l \in EPs
  BY DEF EPs, EnsurePCs
<1>4. UNCHANGED <<nss, link, ovs, cur>> /\ pc' = l
  BY <1>1 DEF host, Goto, call
<1>5. cur.veth \in Kept => Whole(cur.veth)'
  BY <1>2, <1>4, NeatCur DEF Whole
<1>6. cur.veth \notin Kept => Half'
  BY <1>1, <1>2, <1>4, NeatCur, NoLinkTyped DEF Half, Isolated, ns, Unlinked
<1> QED
  BY <1>1, <1>2, <1>3, <1>5, <1>6, NeatStep DEF EPs, EnsurePCs

LEMMA ShowInNSNeat == ASSUME Inv, Neat, ShowInNS, faults' = faults PROVE Neat'
<1> DEFINE l == IF link[cur.veth].place = ns THEN "setMAC" ELSE "showInRoot"
<1>1. pc = "showInNS" /\ UNCHANGED host /\ Goto(l)
  BY NoFault DEF ShowInNS, Query, Command
<1>2. pc \in EPs /\ pc \notin PrunePCs /\ Local
  BY <1>1, HostLocal DEF EPs, EnsurePCs, PrunePCs
<1>3. l \in EPs
  BY DEF EPs, EnsurePCs
<1>4. UNCHANGED <<nss, link, ovs, cur>> /\ pc' = l
  BY <1>1 DEF host, Goto, call
<1>5. cur.veth \in Kept => Whole(cur.veth)'
  BY <1>2, <1>4, NeatCur DEF Whole
<1>6. cur.veth \notin Kept => Half'
  BY <1>1, <1>2, <1>4, NeatCur, NoLinkTyped, CurTyped DEF Half, Isolated, ns, Unlinked
<1> QED
  BY <1>1, <1>2, <1>3, <1>5, <1>6, NeatStep DEF EPs, EnsurePCs

LEMMA ShowInRootNeat == ASSUME Inv, Neat, ShowInRoot, faults' = faults PROVE Neat'
<1> DEFINE l == IF link[cur.veth].place = "root" THEN AfterCreate ELSE "linkAdd"
<1>1. pc = "showInRoot" /\ UNCHANGED host /\ Goto(l)
  BY NoFault DEF ShowInRoot, Query, Command
<1>2. pc \in EPs /\ pc \notin PrunePCs /\ Local
  BY <1>1, HostLocal DEF EPs, EnsurePCs, PrunePCs
<1>3. l \in EPs
  BY DEF EPs, EnsurePCs, AfterCreate
<1>4. UNCHANGED <<nss, link, ovs, cur>> /\ pc' = l
  BY <1>1 DEF host, Goto, call
<1>5. cur.veth \in Kept => Whole(cur.veth)'
  BY <1>2, <1>4, NeatCur DEF Whole
<1>6. cur.veth \notin Kept => Half'
  BY <1>1, <1>2, <1>4, NeatCur, NoLinkTyped DEF Half, Isolated, ns, Unlinked, AfterCreate
<1> QED
  BY <1>1, <1>2, <1>3, <1>5, <1>6, NeatStep DEF EPs, EnsurePCs

LEMMA NetNSAddNeat == ASSUME Inv, Neat, NetNSAdd, faults' = faults PROVE Neat'
<1>1. pc = "addNS" /\ SetNS(ns, "down") /\ Goto("loUp")
  BY NoFault DEF NetNSAdd, Command
<1>2. pc \in EPs /\ pc \notin PrunePCs /\ "loUp" \in EPs
  BY <1>1 DEF EPs, EnsurePCs, PrunePCs
<1>3. Local
  BY <1>1, <1>2, SetNSLocal
<1>4. Isolated /\ nss[ns] = "none"
  BY <1>1 DEF Inv, Ladder
<1>5. cur.veth \notin Kept
  BY <1>2, <1>4, NeatCur DEF Whole, Isolated, ns
<1>6. UNCHANGED <<link, ovs, cur>> /\ pc' = "loUp" /\ nss'[ns] = "down"
  BY <1>1, <1>2, <1>4, CurTyped DEF SetNS, Goto, call, HostOK, Isolated
<1>7. Half'
  BY <1>1, <1>2, <1>5, <1>6, NeatCur DEF Half, Isolated, ns, Unlinked
<1> QED
  BY <1>1, <1>2, <1>3, <1>5, <1>7, NeatStep DEF EPs, EnsurePCs

LEMMA LoopbackUpNeat == ASSUME Inv, Neat, LoopbackUp, faults' = faults PROVE Neat'
<1>1. pc = "loUp" /\ SetNS(ns, "up") /\ Goto("showInNS")
  BY NoFault DEF LoopbackUp, Command
<1>2. pc \in EPs /\ pc \notin PrunePCs /\ "showInNS" \in EPs
  BY <1>1 DEF EPs, EnsurePCs, PrunePCs
<1>3. Local
  BY <1>1, <1>2, SetNSLocal
<1>4. UNCHANGED <<link, ovs, cur>> /\ pc' = "showInNS" /\ (Isolated => nss'[ns] = "up")
  BY <1>1, <1>2, CurTyped DEF SetNS, Goto, call, HostOK, Isolated
<1>5. cur.veth \in Kept => Whole(cur.veth)'
  BY <1>2, <1>4, NeatCur DEF Whole, Isolated, ns
<1>6. cur.veth \notin Kept => Half'
  BY <1>1, <1>2, <1>4, NeatCur DEF Half, Isolated, ns, Unlinked
<1> QED
  BY <1>1, <1>2, <1>3, <1>5, <1>6, NeatStep DEF EPs, EnsurePCs

\* A command that sets up a pair that is there, and goes on to one that expects it in
\* its namespace.
LEMMA SetLinkNeat ==
    ASSUME Inv, Neat, pc \in EPs \ {"listNS", "addNS", "setIface"},
           NEW k \in Link, SetLink(k), k.place = ns,
           NEW l \in EPs \ (Unlinked \cup {"move", "setIface"}), Goto(l)
    PROVE  Neat'
<1>1. pc \notin PrunePCs /\ cur.veth \in Veths
  BY CurTyped DEF EPs, EnsurePCs, PrunePCs
<1>2. Local
  BY SetLinkLocal
<1>3. UNCHANGED <<nss, ovs, cur>> /\ pc' = l /\ link'[cur.veth] = k
  BY <1>1, CurTyped DEF SetLink, Goto, call, HostOK
<1>4. cur.veth \in Kept => Whole(cur.veth)'
  BY <1>3, NeatCur DEF Whole, ns
<1>5. cur.veth \notin Kept => Half'
  BY <1>1, <1>3, NeatCur DEF Half, Isolated, ns, Unlinked, EPs, EnsurePCs
<1> QED
  BY <1>1, <1>2, <1>4, <1>5, NeatStep DEF EPs, EnsurePCs

LEMMA LinkAddNeat == ASSUME Inv, Neat, LinkAdd, faults' = faults PROVE Neat'
<1> DEFINE k == [NoLink EXCEPT !.place = "root"]
           l == AfterCreate
<1>1. pc = "linkAdd" /\ SetLink(k) /\ Goto(l)
  BY NoFault DEF LinkAdd, Command
<1>2. pc \in EPs /\ pc \notin PrunePCs /\ l \in EPs
  BY <1>1 DEF EPs, EnsurePCs, PrunePCs, AfterCreate
<1>3. k \in Link /\ k.place = "root" /\ k.addrs = {}
  BY DEF Link, NoLink, Places
<1>4. Local
  BY <1>1, <1>2, <1>3, SetLinkLocal
<1>5. UNCHANGED <<nss, ovs, cur>> /\ pc' = l /\ link'[cur.veth] = k
  BY <1>1, <1>2, CurTyped DEF SetLink, Goto, call, HostOK
<1>6. cur.veth \notin Kept
  BY <1>1, <1>2, NeatCur DEF Inv, Ladder, Whole, ns
<1>7. Half'
  BY <1>1, <1>2, <1>3, <1>5, <1>6, NeatCur DEF Half, Isolated, ns, Unlinked, AfterCreate
<1> QED
  BY <1>1, <1>2, <1>4, <1>6, <1>7, NeatStep DEF EPs, EnsurePCs

\* The pair that `ip link add` trips over would be a lost one.
LEMMA LinkAddRefusedNeat == ASSUME Inv, Neat, LinkAddRefused PROVE FALSE
<1>1. pc \in EPs
  BY DEF LinkAddRefused, EPs, EnsurePCs
<1> QED
  BY <1>1, CurTyped, RefusedOnlyWhenLost, NeatPlaces

LEMMA MoveToNSNeat == ASSUME Inv, Neat, MoveToNS, faults' = faults PROVE Neat'
<1> DEFINE k == [link[cur.veth] EXCEPT !.place = ns, !.addrs = {}, !.up = FALSE]
           l == "setMAC"
<1>1. pc = "move" /\ SetLink(k) /\ Goto(l)
  BY NoFault DEF MoveToNS, Command
<1>2. pc \in EPs /\ pc \notin {"listNS", "addNS", "setIface"}
      /\ l \in EPs \ (Unlinked \cup {"move", "setIface"})
  BY <1>1 DEF EPs, EnsurePCs, Unlinked
<1>3. k \in Link /\ k.place = ns
  BY <1>1, <1>2, CurTyped DEF Inv, Ladder, Link, Places
<1> HIDE DEF k, l
<1> QED
  BY <1>1, <1>2, <1>3, SetLinkNeat

LEMMA SetMACNeat == ASSUME Inv, Neat, SetMAC, faults' = faults PROVE Neat'
<1> DEFINE k == [link[cur.veth] EXCEPT !.mac = cur.port]
           l == "hostUp"
<1>1. pc = "setMAC" /\ SetLink(k) /\ Goto(l)
  BY NoFault DEF SetMAC, Command
<1>2. pc \in EPs /\ pc \notin {"listNS", "addNS", "setIface"}
      /\ l \in EPs \ (Unlinked \cup {"move", "setIface"})
  BY <1>1 DEF EPs, EnsurePCs, Unlinked
<1>3. k \in Link /\ k.place = ns
  BY <1>1, <1>2, CurTyped DEF Inv, Ladder, Link, Places
<1> HIDE DEF k, l
<1> QED
  BY <1>1, <1>2, <1>3, SetLinkNeat

LEMMA HostUpNeat == ASSUME Inv, Neat, HostUp, faults' = faults PROVE Neat'
<1> DEFINE k == [link[cur.veth] EXCEPT !.up = TRUE]
           l == AfterHostUp
<1>1. pc = "hostUp" /\ SetLink(k) /\ Goto(l)
  BY NoFault DEF HostUp, Command
<1>2. pc \in EPs /\ pc \notin {"listNS", "addNS", "setIface"}
      /\ l \in EPs \ (Unlinked \cup {"move", "setIface"})
  BY <1>1 DEF EPs, EnsurePCs, Unlinked, AfterHostUp
<1>3. k \in Link /\ k.place = ns
  BY <1>1, <1>2, CurTyped DEF Inv, Ladder, Link, Places
<1> HIDE DEF k, l
<1> QED
  BY <1>1, <1>2, <1>3, SetLinkNeat

LEMMA PeerUpNeat == ASSUME Inv, Neat, PeerUp, faults' = faults PROVE Neat'
<1> DEFINE k == [link[cur.veth] EXCEPT !.peerUp = TRUE]
           l == AfterPeerUp
<1>1. pc = "peerUp" /\ SetLink(k) /\ Goto(l)
  BY NoFault DEF PeerUp, Command
<1>2. pc \in EPs /\ pc \notin {"listNS", "addNS", "setIface"}
      /\ l \in EPs \ (Unlinked \cup {"move", "setIface"})
  BY <1>1 DEF EPs, EnsurePCs, Unlinked, AfterPeerUp
<1>3. k \in Link /\ k.place = ns
  BY <1>1, <1>2, CurTyped DEF Inv, Ladder, Link, Places
<1> HIDE DEF k, l
<1> QED
  BY <1>1, <1>2, <1>3, SetLinkNeat

LEMMA AddrReplaceNeat == ASSUME Inv, Neat, AddrReplace, faults' = faults PROVE Neat'
<1> DEFINE k == [link[cur.veth] EXCEPT !.addrs = @ \cup {cur.addr}]
           l == IF Isolated THEN "peerUp" ELSE "addPort"
<1>1. pc = "addrReplace" /\ SetLink(k) /\ Goto(l)
  BY NoFault DEF AddrReplace, Command
<1>2. pc \in EPs /\ pc \notin {"listNS", "addNS", "setIface"}
      /\ l \in EPs \ (Unlinked \cup {"move", "setIface"})
  BY <1>1 DEF EPs, EnsurePCs, Unlinked
<1>3. k \in Link /\ k.place = ns
  BY <1>1, <1>2, CurTyped DEF Inv, Ladder, Link, Places
<1> HIDE DEF k, l
<1> QED
  BY <1>1, <1>2, <1>3, SetLinkNeat

LEMMA AddPortNeat == ASSUME Inv, Neat, AddPort, faults' = faults PROVE Neat'
<1> DEFINE x == IF ovs[cur.veth] = "none" THEN "unbound" ELSE ovs[cur.veth]
<1>1. pc = "addPort" /\ SetPort(x) /\ Goto("setIface")
  BY NoFault DEF AddPort, Command
<1>2. pc \in EPs /\ pc \notin PrunePCs /\ "setIface" \in EPs
  BY <1>1 DEF EPs, EnsurePCs, PrunePCs
<1>3. x \in Ports \cup {"none", "unbound"} /\ x # "none"
  BY <1>2, CurTyped DEF HostOK
<1>4. Local
  BY <1>1, <1>2, <1>3, SetPortLocal
<1>5. UNCHANGED <<nss, link, cur>> /\ pc' = "setIface" /\ ovs'[cur.veth] = x
  BY <1>1, <1>2, CurTyped DEF SetPort, Goto, call, HostOK
<1>6. cur.veth \in Kept => Whole(cur.veth)'
  BY <1>2, <1>3, <1>5, NeatCur DEF Whole
<1>7. cur.veth \notin Kept => Half'
  BY <1>1, <1>2, <1>3, <1>5, NeatCur DEF Half, Isolated, ns, Unlinked
<1> QED
  BY <1>1, <1>2, <1>4, <1>6, <1>7, NeatStep DEF EPs, EnsurePCs

\* The last command of an endpoint makes its interface complete.
LEMMA SetIfaceIDNeat == ASSUME Inv, Neat, SetIfaceID, faults' = faults PROVE Neat'
<1> PICK c : c = cur.veth
  OBVIOUS
<1>1. pc = "setIface" /\ SetPort(cur.port) /\ Record
  BY NoFault DEF SetIfaceID
<1>2. pc \in EPs
  BY <1>1 DEF EPs, EnsurePCs
<1>3. c \in Veths /\ cur.port # "none" /\ Local
  BY <1>1, <1>2, CurTyped, SetPortLocal
<1>4. /\ pc' = "ensure" /\ UNCHANGED <<nss, link, active, stale>>
      /\ desired' = {e \in desired : e.veth # c} \cup {cur}
      /\ ovs'[c] = cur.port
  BY <1>1, <1>2, CurTyped DEF SetPort, Record, HostOK
<1>5. Kept' = Kept \cup {c}
  BY <1>1, <1>4 DEF Kept, Removing, VethsOf, PrunePCs
<1>6. Whole(c)'
  <2>1. link[c].place = NSOf[c] /\ (NSOf[c] # "root" => nss[NSOf[c]] = "up")
    BY <1>1 DEF Inv, Ladder, Isolated, ns, EPs, EnsurePCs
  <2> QED
    BY <1>3, <1>4, <2>1 DEF Whole
<1>7. ASSUME NEW v \in Kept' PROVE Whole(v)'
  BY <1>2, <1>3, <1>5, <1>6, OthersSame, KeptVeths DEF Neat
<1>8. ASSUME NEW v \in Veths \ Kept' PROVE ~InHand(v)' /\ Bare(v)'
  <2>1. v # c /\ v \notin Kept /\ ~InHand(v)
    BY <1>5 DEF InHand
  <2>2. Bare(v)
    BY <2>1 DEF Neat
  <2> QED
    BY <1>2, <1>3, <1>4, <2>1, <2>2, OthersSame DEF InHand, EPs, EnsurePCs, PrunePCs
<1>9. OneEach(desired')
  BY <1>4 DEF Neat, OneEach
<1> QED
  BY <1>4, <1>7, <1>8, <1>9 DEF Neat, OneEach, PrunePCs

-----------------------------------------------------------------------------
(* The removals, as long as nothing has failed.                            *)

LEMMA AfterVethNext ==
    ASSUME Inv, Neat, pc \in PrunePCs, pc \notin {"listStaleNS", "delNS"}, Local, Goto(AfterVeth),
           UNCHANGED nss, link'[cur.veth] = NoLink, ovs'[cur.veth] = "none"
    PROVE  Neat'
<1>1. cur.veth \notin Kept /\ Half /\ pc \notin EPs /\ UNCHANGED cur /\ pc' = AfterVeth
  BY NeatCur DEF EPs, EnsurePCs, PrunePCs, Goto, call
<1>2. CASE Isolated
  <2>1. Half' /\ AfterVeth = "listStaleNS"
    BY <1>1, <1>2 DEF AfterVeth, Half, Isolated, ns, Unlinked, PrunePCs
  <2> QED
    BY <1>1, <2>1, NeatStep DEF PrunePCs
<1>3. CASE ~Isolated
  <2>1. Bare(cur.veth)' /\ AfterVeth = "prune"
    BY <1>1, <1>3 DEF AfterVeth, Bare, Isolated, ns
  <2> QED
    BY <1>1, <2>1, NeatStep
<1> QED
  BY <1>2, <1>3

LEMMA DelPortNeat == ASSUME Inv, Neat, DelPort, faults' = faults PROVE Neat'
<1>1. pc = "delPort" /\ SetPort("none") /\ Goto("showPeer")
  BY NoFault DEF DelPort, PruneCommand
<1>2. pc \in PrunePCs /\ pc \notin EPs /\ "showPeer" \in PrunePCs
  BY <1>1 DEF EPs, EnsurePCs, PrunePCs
<1>3. cur.veth \notin Kept /\ Half /\ Local
  BY <1>1, <1>2, NeatCur, SetPortLocal
<1>4. UNCHANGED <<nss, link, cur>> /\ pc' = "showPeer" /\ ovs'[cur.veth] = "none"
  BY <1>1, <1>2, CurTyped DEF SetPort, Goto, call, HostOK
<1>5. Half'
  BY <1>1, <1>3, <1>4 DEF Half, Isolated, ns, Unlinked
<1> QED
  BY <1>1, <1>2, <1>3, <1>5, NeatStep DEF PrunePCs

LEMMA ShowPeerNeat == ASSUME Inv, Neat, ShowPeer, faults' = faults PROVE Neat'
<1>1. pc = "showPeer" /\ UNCHANGED host /\ Goto(IF Present THEN "delPeer" ELSE "showHost")
  BY NoFault DEF ShowPeer, PruneCommand
<1>2. pc \in PrunePCs /\ pc \notin EPs /\ "delPeer" \in PrunePCs
  BY <1>1 DEF EPs, EnsurePCs, PrunePCs
<1>3. cur.veth \notin Kept /\ Half /\ Local
  BY <1>1, <1>2, NeatCur, HostLocal
<1>4. Present
  BY <1>1, <1>2, <1>3, CurTyped DEF Half, Present, Unlinked
<1>5. UNCHANGED <<nss, link, ovs, cur>> /\ pc' = "delPeer" /\ Goto("delPeer")
  BY <1>1, <1>4 DEF Goto, call, host
<1>6. Half'
  BY <1>1, <1>3, <1>5 DEF Half, Isolated, ns, Unlinked
<1> QED
  BY <1>2, <1>3, <1>5, <1>6, NeatStep DEF PrunePCs

LEMMA DelPeerNeat == ASSUME Inv, Neat, DelPeer, faults' = faults PROVE Neat'
<1>1. pc = "delPeer" /\ SetLink(NoLink) /\ Goto(AfterVeth)
  BY NoFault DEF DelPeer, PruneCommand
<1>2. pc \in PrunePCs
  BY <1>1 DEF PrunePCs
<1>3. Half /\ Local
  BY <1>1, <1>2, NeatCur, SetLinkLocal, NoLinkTyped DEF EPs, EnsurePCs
<1>4. UNCHANGED nss /\ link'[cur.veth] = NoLink /\ ovs'[cur.veth] = "none"
  BY <1>1, <1>2, <1>3, CurTyped DEF SetLink, HostOK, Half
<1> QED
  BY <1>1, <1>2, <1>3, <1>4, AfterVethNext

\* The host end is never looked for: the pair goes with its OVS end.
LEMMA HostEndNeat == ASSUME Inv, Neat, ShowHost \/ DelHost PROVE FALSE
<1>1. pc \in {"showHost", "delHost"} /\ pc \in PrunePCs /\ pc \notin EPs
  BY DEF ShowHost, DelHost, PruneCommand, EPs, EnsurePCs, PrunePCs
<1> QED
  BY <1>1, NeatCur DEF Half

LEMMA ListStaleNSNeat == ASSUME Inv, Neat, ListStaleNS, faults' = faults PROVE Neat'
<1>1. pc = "listStaleNS" /\ UNCHANGED host /\ Goto(IF nss[ns] # "none" THEN "delNS" ELSE "prune")
  BY NoFault DEF ListStaleNS, PruneCommand
<1>2. pc \in PrunePCs /\ pc \notin EPs /\ "delNS" \in PrunePCs
  BY <1>1 DEF EPs, EnsurePCs, PrunePCs
<1>3. cur.veth \notin Kept /\ Half /\ Local
  BY <1>1, <1>2, NeatCur, HostLocal
<1>4. nss[ns] # "none"
  BY <1>1, <1>3 DEF Half
<1>5. UNCHANGED <<nss, link, ovs, cur>> /\ pc' = "delNS" /\ Goto("delNS")
  BY <1>1, <1>4 DEF Goto, call, host
<1>6. Half'
  BY <1>1, <1>3, <1>5 DEF Half, Isolated, ns, Unlinked
<1> QED
  BY <1>2, <1>3, <1>5, <1>6, NeatStep DEF PrunePCs

\* The namespace is empty when its name is deleted, so nothing can keep the pair alive.
LEMMA DelNetNSNeat == ASSUME Inv, Neat, DelNetNS, faults' = faults PROVE Neat'
<1>1. PICK place \in {"absent", "lost"} : pc = "delNS" /\ DropNS(place) /\ Goto("prune")
  BY NoFault DEF DelNetNS, PruneCommand
<1>2. pc \in PrunePCs /\ pc \notin EPs
  BY <1>1 DEF EPs, EnsurePCs, PrunePCs
<1>3. cur.veth \notin Kept /\ Half /\ Local
  BY <1>1, <1>2, NeatCur, DropNSLocal
<1>4. link[cur.veth] = NoLink /\ ovs[cur.veth] = "none" /\ Isolated
  BY <1>1, <1>3 DEF Half, Unlinked
<1>5. link[cur.veth].place # ns
  BY <1>2, <1>4, CurTyped, NoLinkTyped
<1>6. nss' = [nss EXCEPT ![ns] = "none"] /\ UNCHANGED <<link, ovs, cur>> /\ ns \in NetNSs
  BY <1>1, <1>2, <1>4, <1>5, CurTyped DEF DropNS, Goto, call, Isolated
<1>7. nss'[ns] = "none"
  BY <1>2, <1>6, CurTyped DEF HostOK
<1>8. Bare(cur.veth)'
  BY <1>4, <1>6, <1>7 DEF Bare, ns
<1> QED
  BY <1>1, <1>2, <1>3, <1>8, NeatStep

-----------------------------------------------------------------------------
(* The loops, and the theorem.                                             *)

LEMMA WholeSame == ASSUME UNCHANGED host PROVE \A v : (Whole(v)' <=> Whole(v)) /\ (Bare(v)' <=> Bare(v))
  BY DEF host, Whole, Bare

LEMMA NextEndpointNeat == ASSUME Inv, Neat, NextEndpoint PROVE Neat'
<1>1. PICK e \in todo : /\ pc = "ensure" /\ cur' = e
                        /\ pc' = IF NSOf[e.veth] # "root" THEN "listNS" ELSE "showInRoot"
                        /\ UNCHANGED <<host, desired, active, stale>>
  BY DEF NextEndpoint
<1>2. pc' \in {"listNS", "showInRoot"} /\ pc' = (IF Isolated' THEN "listNS" ELSE "showInRoot")
  BY <1>1 DEF Isolated, ns
<1>3. Kept' = Kept
  BY <1>1, <1>2 DEF Kept, Removing, VethsOf, PrunePCs
<1>4. ASSUME NEW v \in Kept PROVE Whole(v)'
  BY <1>1, WholeSame DEF Neat
<1>5. ASSUME NEW v \in Veths \ Kept PROVE Bare(v)'
  BY <1>1, WholeSame DEF Neat, InHand, EPs, EnsurePCs, PrunePCs
<1>6. ASSUME NEW v \in Veths \ Kept, InHand(v)' PROVE Half'
  <2>1. /\ v = cur'.veth /\ link'[v] = NoLink /\ ovs'[v] = "none"
        /\ NSOf[v] # "root" => nss'[NSOf[v]] = "none"
    BY <1>5, <1>6 DEF InHand, Bare
  <2> QED
    BY <1>2, <2>1 DEF Half, Isolated, ns, Unlinked
<1>7. \A n \in NetNSs : nss'[n] # "none" => \E v \in Veths : NSOf[v] = n
  BY <1>1 DEF Neat, host
<1> QED
  BY <1>1, <1>2, <1>3, <1>4, <1>5, <1>6, <1>7 DEF Neat, OneEach, PrunePCs

\* A step between two commands: no interface is in hand, and as many are complete.
LEMMA NeatLoop ==
    ASSUME Inv, Neat, UNCHANGED host, pc \notin EPs \cup PrunePCs, pc' \notin EPs \cup PrunePCs,
           Kept' = Kept, OneEach(active'), OneEach(desired'), pc' = "idle" => desired' = {}
    PROVE  Neat'
<1>1. \A v \in Kept : Whole(v)'
  BY WholeSame DEF Neat
<1>2. \A v \in Veths \ Kept : Bare(v)' /\ ~InHand(v)'
  BY WholeSame DEF Neat, InHand
<1>3. \A n \in NetNSs : nss'[n] # "none" => \E v \in Veths : NSOf[v] = n
  BY DEF Neat, host
<1> QED
  BY <1>1, <1>2, <1>3 DEF Neat, OneEach

LEMMA EnsuresDoneNeat == ASSUME Inv, Neat, EnsuresDone PROVE Neat'
<1>1. /\ pc = "ensure" /\ pc' = "prune" /\ UNCHANGED <<host, desired, active>>
      /\ stale' = {e \in active : e.veth \notin VethsOf(desired)}
  BY DEF EnsuresDone
<1>2. Kept' = Kept
  <2>1. Kept = VethsOf(active) \cup VethsOf(desired) /\ Kept' = VethsOf(desired) \cup VethsOf(stale')
    BY <1>1 DEF Kept, Removing, VethsOf, PrunePCs
  <2>2. VethsOf(stale') = VethsOf(active) \ VethsOf(desired)
    BY <1>1 DEF VethsOf
  <2> QED
    BY <2>1, <2>2
<1> QED
  BY <1>1, <1>2, NeatLoop DEF Neat, OneEach, EPs, EnsurePCs, PrunePCs

LEMMA PruneDoneNeat == ASSUME Inv, Neat, PruneDone PROVE Neat'
<1>1. /\ pc = "prune" /\ pc' = "idle" /\ stale = {} /\ UNCHANGED <<host, stale>>
      /\ active' = desired /\ desired' = {}
  BY DEF PruneDone
<1>2. Kept' = Kept
  BY <1>1 DEF Kept, Removing, VethsOf, PrunePCs
<1> QED
  BY <1>1, <1>2, NeatLoop DEF Neat, OneEach, EPs, EnsurePCs, PrunePCs

LEMMA SyncNeat == ASSUME Inv, Neat, Sync PROVE Neat'
<1>1. /\ pc = "idle" /\ pc' = "ensure" /\ desired' = {} /\ UNCHANGED <<host, active>>
  BY DEF Sync, ReconcileEndpoints
<1>2. Kept' = Kept
  BY <1>1 DEF Neat, Kept, Removing, VethsOf, PrunePCs
<1> QED
  BY <1>1, <1>2, NeatLoop DEF Neat, OneEach, EPs, EnsurePCs, PrunePCs

LEMMA CleanupNeat == ASSUME Inv, Neat, Cleanup PROVE Neat'
<1>1. /\ pc = "idle" /\ pc' = "prune" /\ desired' = {} /\ stale' = active /\ UNCHANGED <<host, active>>
  BY DEF Cleanup
<1>2. Kept' = Kept
  BY <1>1 DEF Neat, Kept, Removing, VethsOf, PrunePCs
<1> QED
  BY <1>1, <1>2, NeatLoop DEF Neat, OneEach, EPs, EnsurePCs, PrunePCs

\* The endpoint that is removed next is complete, and no other has its interface.
LEMMA PruneNextNeat == ASSUME Inv, Neat, PruneNext PROVE Neat'
<1>1. PICK e \in stale : /\ pc = "prune" /\ pc' = "delPort" /\ cur' = e /\ stale' = stale \ {e}
                         /\ UNCHANGED <<host, desired, active>>
  BY DEF PruneNext
<1>2. stale \subseteq active /\ e.veth \notin VethsOf(desired) /\ e.veth \in Veths
  BY <1>1 DEF Inv, TypeOK, StaleApart, Removing
<1>3. e.veth \notin VethsOf(stale')
  BY <1>1, <1>2 DEF Neat, OneEach, VethsOf
<1>4. Kept' = Kept \ {e.veth} /\ e.veth \in Kept
  <2>1. Kept = VethsOf(desired) \cup VethsOf(stale) /\ Kept' = VethsOf(desired) \cup VethsOf(stale')
    BY <1>1 DEF Kept, Removing, VethsOf, PrunePCs
  <2>2. VethsOf(stale) = VethsOf(stale') \cup {e.veth}
    BY <1>1 DEF VethsOf
  <2> QED
    BY <1>2, <1>3, <2>1, <2>2
<1>5. ASSUME NEW v \in Kept' PROVE Whole(v)'
  BY <1>1, <1>4, WholeSame DEF Neat
<1>6. ASSUME NEW v \in Veths \ Kept', v # e.veth PROVE Bare(v)' /\ ~InHand(v)'
  <2>1. v \notin Kept /\ ~InHand(v)
    BY <1>1, <1>4, <1>6 DEF InHand, EPs, EnsurePCs, PrunePCs
  <2> QED
    BY <1>1, <1>6, <2>1, WholeSame DEF Neat, InHand
<1>7. Half' /\ InHand(e.veth)'
  <2>1. Whole(e.veth)' /\ cur' = e /\ pc' = "delPort"
    BY <1>1, <1>4, WholeSame DEF Neat
  <2> QED
    BY <2>1 DEF Whole, Half, Isolated, ns, Unlinked, InHand, PrunePCs
<1>8. \A n \in NetNSs : nss'[n] # "none" => \E v \in Veths : NSOf[v] = n
  BY <1>1 DEF Neat, host
<1> QED
  BY <1>1, <1>3, <1>5, <1>6, <1>7, <1>8 DEF Neat, OneEach

\* Nothing is reaped, because nothing is lost.
LEMMA ReapNeat == ASSUME Inv, Neat, Reap PROVE FALSE
  BY NeatPlaces DEF Reap

Tidy == faults = 0 /\ restarts = 0 => Neat

LEMMA FaultsCounted ==
    ASSUME Inv, [Next]_vars, faults' = 0, restarts' = 0
    PROVE  faults' = faults /\ restarts = 0 /\ ~Restart /\ ~Reboot
<1>1. faults \in Nat /\ restarts \in Nat
  BY DEF Inv, TypeOK
<1>2. ~Restart /\ ~Reboot
  BY <1>1 DEF Restart, Reboot, NewProcess
<1>3. ~Fault
  BY <1>1 DEF Fault
<1>4. faults' = faults /\ restarts' = restarts
  <2>1. CASE Provision
    BY <1>3, <2>1 DEF Provision, NextEndpoint, EnsuresDone, ListNetNS, NetNSAdd, LoopbackUp, ShowInNS,
       ShowInRoot, LinkAdd, LinkAddRefused, MoveToNS, SetMAC, HostUp, AddrReplace, PeerUp, AddPort,
       SetIfaceID, Command, Query, Goto, Record
  <2>2. CASE Prune
    BY <1>3, <2>2 DEF Prune, PruneNext, PruneDone, DelPort, ShowPeer, DelPeer, ShowHost, DelHost,
       ListStaleNS, DelNetNS, PruneCommand, Goto
  <2>3. CASE Sync \/ Cleanup \/ Reap \/ UNCHANGED vars
    BY <2>3 DEF Sync, ReconcileEndpoints, Cleanup, Reap, vars
  <2> QED
    BY <1>2, <2>1, <2>2, <2>3 DEF Next
<1> QED
  BY <1>2, <1>4

LEMMA NeatStutter == ASSUME Neat, UNCHANGED vars PROVE Neat'
  BY DEF vars, Neat, Kept, VethsOf, Whole, Bare, InHand, Half, OneEach, Removing, Isolated, ns

LEMMA TidyStep == Inv /\ Tidy /\ [Next]_vars => Tidy'
<1> SUFFICES ASSUME Inv, Tidy, [Next]_vars, faults' = 0, restarts' = 0 PROVE Neat'
  BY DEF Tidy
<1>1. Neat /\ faults' = faults /\ ~Restart /\ ~Reboot
  BY FaultsCounted DEF Tidy
<1>2. CASE Provision
  BY <1>1, <1>2, NextEndpointNeat, EnsuresDoneNeat, ListNetNSNeat, NetNSAddNeat, LoopbackUpNeat,
     ShowInNSNeat, ShowInRootNeat, LinkAddNeat, LinkAddRefusedNeat, MoveToNSNeat, SetMACNeat,
     HostUpNeat, AddrReplaceNeat, PeerUpNeat, AddPortNeat, SetIfaceIDNeat DEF Provision
<1>3. CASE Prune
  BY <1>1, <1>3, PruneNextNeat, PruneDoneNeat, DelPortNeat, ShowPeerNeat, DelPeerNeat, HostEndNeat,
     ListStaleNSNeat, DelNetNSNeat DEF Prune
<1>4. CASE Sync \/ Cleanup \/ Reap \/ UNCHANGED vars
  BY <1>1, <1>4, SyncNeat, CleanupNeat, ReapNeat, NeatStutter
<1> QED
  BY <1>1, <1>2, <1>3, <1>4 DEF Next

LEMMA TidyInvariance == Spec => []Tidy
  BY NeatInit, TidyStep, Invariance, PTL DEF Spec, Tidy

\* As long as nothing has failed, the host holds between calls exactly the pairs, ports
\* and namespaces of the last list (ReconcileEndpoints): nothing is left behind.
THEOREM NoLeftovers == Spec => []ExactWithoutFaults
<1>1. Inv /\ Tidy => ExactWithoutFaults
  <2> SUFFICES ASSUME Inv, Neat, pc = "idle"
               PROVE  /\ \A v \in Veths : link[v] # NoLink <=> v \in VethsOf(active)
                      /\ \A v \in Veths : ovs[v] # "none" <=> v \in VethsOf(active)
                      /\ \A n \in NetNSs : nss[n] # "none" <=> \E e \in active : NSOf[e.veth] = n
    BY DEF Tidy, ExactWithoutFaults
  <2>1. Kept = VethsOf(active) /\ \A v : ~InHand(v)
    BY DEF Neat, Kept, VethsOf, Removing, InHand, EPs, EnsurePCs, PrunePCs
  <2>2. ASSUME NEW v \in Veths, v \in VethsOf(active)
        PROVE  /\ link[v] # NoLink /\ ovs[v] # "none"
               /\ NSOf[v] # "root" => nss[NSOf[v]] # "none"
    <3>1. Whole(v) /\ NSOf[v] # "absent"
      BY <2>1, <2>2 DEF Neat
    <3> QED
      BY <3>1, NoLinkTyped DEF Whole
  <2>3. ASSUME NEW v \in Veths, v \notin VethsOf(active)
        PROVE  /\ link[v] = NoLink /\ ovs[v] = "none"
               /\ NSOf[v] # "root" => nss[NSOf[v]] = "none"
    BY <2>1, <2>3 DEF Neat, Bare
  <2>4. ASSUME NEW n \in NetNSs PROVE nss[n] # "none" <=> \E e \in active : NSOf[e.veth] = n
    <3>1. n # "root" /\ \A e \in active : e.veth \in Veths /\ e.veth \in VethsOf(active)
      BY DEF Inv, TypeOK, VethsOf
    <3>2. ASSUME NEW e \in active, NSOf[e.veth] = n PROVE nss[n] # "none"
      BY <2>2, <3>1, <3>2
    <3>3. ASSUME nss[n] # "none" PROVE \E e \in active : NSOf[e.veth] = n
      <4>1. PICK v \in Veths : NSOf[v] = n
        BY <3>3 DEF Neat
      <4>2. v \in VethsOf(active)
        BY <2>3, <3>1, <3>3, <4>1
      <4> QED
        BY <4>1, <4>2 DEF VethsOf
    <3> QED
      BY <3>2, <3>3
  <2> QED
    BY <2>2, <2>3, <2>4
<1> QED
  BY <1>1, Invariance, TidyInvariance, PTL
=============================================================================
