------------------------ MODULE GuestTransport_proofs ------------------------
(***************************************************************************)
(* For any guests, networks, addresses and number of failures: no client   *)
(* loses a connection, and what GetMetrics returns for a target is what    *)
(* this target exposes, or, for one without a namespace, what a guest at   *)
(* its address exposes where a thread has strayed.                         *)
(*                                                                         *)
(* A call between the lookup of its client and its end has the one client  *)
(* of its target's namespace, and the connections of a client are in the   *)
(* namespace of that client, in whatever generation of it, or, without     *)
(* one, in the root namespace or where a thread has strayed (Where).  A    *)
(* call that gets an answer then has it from the guest at its address      *)
(* there, and no two guests are at the same place.                         *)
(***************************************************************************)
EXTENDS GuestTransport, TLAPS

Working == {"do", "dial", "reply"}

\* A call has the client that the map has for the namespace of its target.
CallsBound ==
    \A g \in Guests : scrape[g].pc \in Working =>
        /\ clients[place[g].ns] # 0
        /\ scrape[g].client = ClientOf(place[g].ns)

\* Where the connections of a client may be.
Where(n) == IF n = "root" THEN {Root} \cup strayed ELSE {sp \in Spaces : sp.ns = n}

CallsConfined ==
    \A g \in Guests : scrape[g].pc \in {"dial", "reply"} => scrape[g].space \in Where(place[g].ns)

PoolConfined ==
    \A c \in pool :
        /\ clients[c.client.ns] # 0
        /\ c.client = ClientOf(c.client.ns)
        /\ c.space \in Where(c.client.ns)

IInv == TypeOK /\ CallsBound /\ CallsConfined /\ PoolConfined

-----------------------------------------------------------------------------
(* Records.                                                                *)

Call == [pc : {"idle", "lookup", "create", "do", "dial", "reply", "done"},
         client : Client, space : Spaces]

\* The root namespace is a space, and so is every namespace that has a name.
LEMMA SpaceType == TypeOK => \A n \in named \cup {"root"} : Space(n) \in Spaces /\ Space(n).ns = n
  BY TransportAssumption DEF TypeOK, Space, Spaces, Root, Namespaces

LEMMA IdleType == Idle \in Call /\ Returned \in Call /\ Root \in Spaces
  BY TransportAssumption DEF Idle, Returned, Call, Client, Namespaces, Root, Spaces

\* What a dial connects in is where the connections of its client may be, and what has
\* strayed since does not take anything from it.
LEMMA PlacesType ==
    ASSUME TypeOK, NEW n PROVE Places(n) \subseteq Spaces \cap Where(n)
  BY SpaceType, IdleType DEF Places, Where, TypeOK

LEMMA WhereGrows ==
    ASSUME strayed \subseteq strayed', NEW n PROVE Where(n) \subseteq Where(n)'
  BY DEF Where

\* The namespace of a guest is one that clients can be for.
LEMMA PlaceType == TypeOK => \A g \in Guests : place[g].ns \in Namespaces /\ place[g].addr \in Addrs
  BY PlacementAssumption DEF TypeOK, Namespaces

\* A call's connection belongs to the pool that the map knows.
LEMMA ConnType ==
    ASSUME IInv, NEW g \in Guests, scrape[g].pc \in {"dial", "reply"}
    PROVE  /\ ConnOf(g) \in Conn
           /\ clients[ConnOf(g).client.ns] # 0
           /\ ConnOf(g).client = ClientOf(ConnOf(g).client.ns)
           /\ ConnOf(g).space \in Where(ConnOf(g).client.ns)
<1>1. scrape[g] \in Call
  BY DEF IInv, TypeOK, Call
<1>2. scrape[g].client = ClientOf(place[g].ns) /\ clients[place[g].ns] # 0
  BY DEF IInv, CallsBound, Working
<1>3. scrape[g].space \in Where(place[g].ns)
  BY DEF IInv, CallsConfined
<1>4. scrape[g].client.ns = place[g].ns
  BY <1>2 DEF ClientOf
<1> QED BY <1>1, <1>2, <1>3, <1>4, PlaceType DEF ConnOf, Conn, Call, IInv

-----------------------------------------------------------------------------
(* The invariant is inductive.                                             *)

LEMMA InitInv == Init => IInv
<1> SUFFICES ASSUME Init PROVE IInv
  OBVIOUS
<1>1. TypeOK
  BY IdleType, TransportAssumption DEF Init, TypeOK, Call, Namespaces, Conn
<1>2. CallsBound /\ CallsConfined /\ PoolConfined
  BY DEF Init, CallsBound, CallsConfined, PoolConfined, Working, Idle
<1> QED BY <1>1, <1>2 DEF IInv

\* A step of one call that leaves the network and the map alone: the call keeps its
\* client, stays in its namespace, and what it adds to the pool is its own connection.
LEMMA OneCall ==
    ASSUME IInv, NEW g \in Guests, NEW s \in Call, Step(g, s),
           UNCHANGED <<place, network, clients>>,
           s.pc \in Working => scrape[g].pc \in Working /\ s.client = scrape[g].client,
           s.pc \in {"dial", "reply"} => s.space \in Where(place[g].ns),
           pool' \subseteq pool \/ (scrape[g].pc \in {"dial", "reply"} /\ pool' \subseteq pool \cup {ConnOf(g)}),
           result' \in [Guests -> {Failed} \cup UNION {Payloads[x] : x \in Guests}],
           faults' \in 0..MaxFaults
    PROVE  IInv'
<1>1. /\ scrape' \in [Guests -> Call] /\ scrape'[g] = s
      /\ \A x \in Guests : x # g => scrape'[x] = scrape[x]
  BY DEF Step, IInv, TypeOK, Call
<1>2. \A c \in pool' : /\ c \in Conn /\ clients[c.client.ns] # 0
                       /\ c.client = ClientOf(c.client.ns) /\ c.space \in Where(c.client.ns)
  BY ConnType DEF IInv, TypeOK, PoolConfined
<1>3. TypeOK'
  BY <1>1, <1>2 DEF IInv, TypeOK, network, Call
<1>4. CallsBound'
  <2> SUFFICES ASSUME NEW x \in Guests, scrape'[x].pc \in Working
               PROVE  clients[place[x].ns] # 0 /\ scrape'[x].client = ClientOf(place[x].ns)
    BY DEF CallsBound, ClientOf
  <2> QED BY <1>1 DEF IInv, CallsBound
<1>5. CallsConfined'
  <2> SUFFICES ASSUME NEW x \in Guests, scrape'[x].pc \in {"dial", "reply"}
               PROVE  scrape'[x].space \in Where(place[x].ns)
    BY DEF CallsConfined, Where, network
  <2> QED BY <1>1 DEF IInv, CallsConfined
<1>6. PoolConfined'
  BY <1>2 DEF PoolConfined, ClientOf, Where, network
<1> QED BY <1>3, <1>4, <1>5, <1>6 DEF IInv

\* A call returns; its connection may join the pool.
LEMMA Returns ==
    ASSUME IInv, NEW g \in Guests, NEW r \in {Failed} \cup UNION {Payloads[x] : x \in Guests},
           Return(g, r), UNCHANGED <<place, network, clients>>,
           pool' \subseteq pool \/ (scrape[g].pc \in {"dial", "reply"} /\ pool' \subseteq pool \cup {ConnOf(g)}),
           faults' \in 0..MaxFaults
    PROVE  IInv'
<1>1. Returned \in Call /\ Returned.pc = "done"
  BY IdleType DEF Returned, Idle
<1>2. result' \in [Guests -> {Failed} \cup UNION {Payloads[x] : x \in Guests}]
  BY DEF Return, IInv, TypeOK
<1> QED BY <1>1, <1>2, OneCall DEF Return, Working

\* The one number of failures that is counted.
LEMMA FaultType == IInv /\ (Fault \/ UNCHANGED faults) => faults' \in 0..MaxFaults
  BY TransportAssumption DEF Fault, IInv, TypeOK

\* A call that gets a client: afterwards the map has this client for the namespace of its
\* target, and nobody else's client has changed.
LEMMA GetsClient ==
    ASSUME IInv, NEW g \in Guests, NEW c \in Nat, c # 0,
           clients' = [clients EXCEPT ![place[g].ns] = c],
           clients[place[g].ns] \in {0, c},
           With(g, [ns |-> place[g].ns, no |-> c]),
           UNCHANGED <<place, network, pool, result, faults>>
    PROVE  IInv'
<1> DEFINE s == [Idle EXCEPT !.pc = "do", !.client = [ns |-> place[g].ns, no |-> c]]
<1>1. s \in Call /\ s.pc = "do" /\ s.client = [ns |-> place[g].ns, no |-> c]
  BY IdleType, PlaceType DEF Call, Idle, Client, IInv
<1>2. /\ scrape' \in [Guests -> Call] /\ scrape'[g] = s
      /\ \A x \in Guests : x # g => scrape'[x] = scrape[x]
  BY <1>1 DEF With, Step, IInv, TypeOK, Call
<1> HIDE DEF s
<1>3. /\ clients' \in [Namespaces -> Nat]
      /\ clients'[place[g].ns] = c
      /\ \A n \in Namespaces : clients[n] # 0 => clients'[n] = clients[n]
  BY PlaceType DEF IInv, TypeOK
<1>4. TypeOK'
  BY <1>2, <1>3 DEF IInv, TypeOK, network, Call
<1>5. CallsBound'
  <2> SUFFICES ASSUME NEW x \in Guests, scrape'[x].pc \in Working
               PROVE  /\ clients'[place[x].ns] # 0
                      /\ scrape'[x].client = [ns |-> place[x].ns, no |-> clients'[place[x].ns]]
    BY DEF CallsBound, ClientOf
  <2>1. CASE x = g
    BY <2>1, <1>1, <1>2, <1>3
  <2>2. CASE x # g
    BY <2>2, <1>2, <1>3, PlaceType DEF IInv, CallsBound, ClientOf
  <2> QED BY <2>1, <2>2
<1>6. CallsConfined'
  <2> SUFFICES ASSUME NEW x \in Guests, scrape'[x].pc \in {"dial", "reply"}
               PROVE  scrape'[x].space \in Where(place[x].ns)
    BY DEF CallsConfined, Where, network
  <2> QED BY <1>1, <1>2 DEF IInv, CallsConfined
<1>7. PoolConfined'
  <2> SUFFICES ASSUME NEW k \in pool
               PROVE  /\ clients'[k.client.ns] # 0
                      /\ k.client = [ns |-> k.client.ns, no |-> clients'[k.client.ns]]
                      /\ k.space \in Where(k.client.ns)
    BY DEF PoolConfined, ClientOf, Where, network
  <2>1. k.client.ns \in Namespaces
    BY DEF IInv, TypeOK, Conn, Client
  <2> QED BY <2>1, <1>3 DEF IInv, PoolConfined, ClientOf
<1> QED BY <1>4, <1>5, <1>6, <1>7 DEF IInv

-----------------------------------------------------------------------------

\* No action of a call breaks the invariant.
LEMMA CallStep == IInv /\ (\E g \in Guests : GetMetrics(g)) => IInv'
<1> SUFFICES ASSUME IInv, NEW g \in Guests, GetMetrics(g) PROVE IInv'
  OBVIOUS
<1>1. /\ scrape[g] \in Call
      /\ result \in [Guests -> {Failed} \cup UNION {Payloads[x] : x \in Guests}]
      /\ clients \in [Namespaces -> Nat] /\ place[g].ns \in Namespaces
  BY PlaceType DEF IInv, TypeOK, Call
<1>2. scrape[g].pc \in Working => scrape[g].client = ClientOf(place[g].ns)
                                  /\ scrape[g].client.ns = place[g].ns
  BY DEF IInv, CallsBound, ClientOf
<1>3. scrape[g].pc \in {"dial", "reply"} => scrape[g].space \in Where(place[g].ns)
  BY DEF IInv, CallsConfined
<1>4. UNCHANGED faults => faults' \in 0..MaxFaults
  BY FaultType
<1>5. CASE Lookup(g)
  <2>1. CASE clients[place[g].ns] # 0
    <3>1. clients' = [clients EXCEPT ![place[g].ns] = clients[place[g].ns]]
      BY <1>5, <1>1 DEF Lookup
    <3> QED BY <1>5, <1>1, <2>1, <3>1, GetsClient DEF Lookup, ClientOf
  <2>2. CASE clients[place[g].ns] = 0
    <3>1. [Idle EXCEPT !.pc = "create"] \in Call /\ [Idle EXCEPT !.pc = "create"].pc = "create"
      BY IdleType DEF Idle, Call
    <3> QED BY <1>5, <1>1, <1>4, <2>2, <3>1, OneCall DEF Lookup, Working
  <2> QED BY <2>1, <2>2
<1>6. CASE Create(g)
  <2> DEFINE c == IF clients[place[g].ns] = 0 THEN 1 ELSE clients[place[g].ns]
  <2>1. c \in Nat /\ c # 0 /\ clients[place[g].ns] \in {0, c}
    BY <1>1
  <2>2. clients' = [clients EXCEPT ![place[g].ns] = c] /\ With(g, [ns |-> place[g].ns, no |-> c])
    BY <1>6 DEF Create
  <2> QED BY <1>6, <2>1, <2>2, GetsClient DEF Create
<1>7. CASE Reuse(g)
  <2>1. PICK c \in Usable(g) : pool' = pool \ {c}
                               /\ Step(g, [scrape[g] EXCEPT !.pc = "reply", !.space = c.space])
    BY <1>7 DEF Reuse
  <2>2. c \in pool /\ c.client = scrape[g].client /\ c.space \in Spaces
        /\ c.space \in Where(c.client.ns)
    BY <2>1 DEF Usable, IInv, TypeOK, Conn, PoolConfined
  <2> DEFINE s == [scrape[g] EXCEPT !.pc = "reply", !.space = c.space]
  <2>3. s \in Call /\ s.client = scrape[g].client /\ s.pc = "reply" /\ s.space = c.space
    BY <1>1, <2>2 DEF Call
  <2>4. scrape[g].pc \in Working
    BY <1>7 DEF Reuse, Working
  <2> HIDE DEF s
  <2>5. Step(g, s)
    BY <2>1 DEF s
  <2> QED BY <1>7, <1>1, <1>2, <1>4, <2>1, <2>2, <2>3, <2>4, <2>5, OneCall DEF Reuse
<1>8. CASE Dial(g)
  <2>1. ASSUME NEW sp \in Places(scrape[g].client.ns),
               Step(g, [scrape[g] EXCEPT !.pc = "dial", !.space = sp]), UNCHANGED result
        PROVE  IInv'
    <3> DEFINE s == [scrape[g] EXCEPT !.pc = "dial", !.space = sp]
    <3>1. sp \in Spaces /\ sp \in Where(scrape[g].client.ns)
      BY PlacesType DEF IInv
    <3>2. s \in Call /\ s.client = scrape[g].client /\ s.pc = "dial" /\ s.space = sp
      BY <1>1, <3>1 DEF Call
    <3>3. scrape[g].pc \in Working
      BY <1>8 DEF Dial, Working
    <3>4. Step(g, s) /\ UNCHANGED result
      BY <2>1
    <3> HIDE DEF s
    <3> QED BY <1>8, <1>1, <1>2, <1>4, <3>1, <3>2, <3>3, <3>4, OneCall DEF Dial
  <2>2. CASE Return(g, Failed)
    BY <1>8, <2>2, <1>4, Returns DEF Dial
  <2> QED BY <1>8, <2>1, <2>2 DEF Dial
<1>9. CASE Connected(g)
  <2> DEFINE s == [scrape[g] EXCEPT !.pc = "reply"]
  <2>1. s \in Call /\ s.client = scrape[g].client /\ s.pc = "reply" /\ s.space = scrape[g].space
    BY <1>1 DEF Call
  <2>2. scrape[g].pc = "dial" /\ Step(g, s)
    BY <1>9 DEF Connected
  <2> HIDE DEF s
  <2> QED BY <1>9, <1>1, <1>3, <1>4, <2>1, <2>2, OneCall DEF Connected, Working
<1>10. CASE DialFails(g)
  BY <1>10, FaultType, Returns DEF DialFails
<1>11. CASE Answered(g)
  BY <1>11, <1>4, Returns DEF Answered
<1>12. CASE Refused(g)
  BY <1>12, FaultType, Returns DEF Refused
<1>13. CASE TimedOut(g)
  BY <1>13, FaultType, Returns DEF TimedOut
<1> QED
  BY <1>5, <1>6, <1>7, <1>8, <1>9, <1>10, <1>11, <1>12, <1>13 DEF GetMetrics

\* Calls that begin or are collected leave the others and their connections as they are.
LEMMA CallerStep ==
    ASSUME IInv, NEW gs \in SUBSET Guests, NEW s \in Call, s.pc \notin Working,
           scrape' = [g \in Guests |-> IF g \in gs THEN s ELSE scrape[g]],
           result' \in [Guests -> {Failed} \cup UNION {Payloads[x] : x \in Guests}],
           UNCHANGED <<place, network, clients, pool, faults>>
    PROVE  IInv'
<1>1. TypeOK'
  BY DEF IInv, TypeOK, network, Call
<1>2. CallsBound'
  BY DEF IInv, CallsBound, ClientOf
<1>3. CallsConfined'
  <2> SUFFICES ASSUME NEW x \in Guests, scrape'[x].pc \in {"dial", "reply"}
               PROVE  scrape'[x].space \in Where(place[x].ns)
    BY DEF CallsConfined, Where, network
  <2> QED BY DEF IInv, CallsConfined, Working
<1>4. PoolConfined'
  BY DEF IInv, PoolConfined, ClientOf, Where, network
<1> QED BY <1>1, <1>2, <1>3, <1>4 DEF IInv

\* What happens to namespaces, threads and idle connections leaves every call where it is.
LEMMA AroundStep ==
    ASSUME IInv, TypeOK', UNCHANGED <<place, clients, scrape>>,
           pool' \subseteq pool, strayed \subseteq strayed'
    PROVE  IInv'
<1>1. CallsBound'
  BY DEF IInv, CallsBound, ClientOf
<1>2. CallsConfined'
  <2> SUFFICES ASSUME NEW x \in Guests, scrape[x].pc \in {"dial", "reply"}
               PROVE  scrape[x].space \in Where(place[x].ns)'
    BY DEF CallsConfined, Where
  <2> QED BY WhereGrows DEF IInv, CallsConfined
<1>3. PoolConfined'
  <2> SUFFICES ASSUME NEW k \in pool
               PROVE  /\ clients[k.client.ns] # 0
                      /\ k.client = ClientOf(k.client.ns)
                      /\ k.space \in Where(k.client.ns)'
    BY DEF PoolConfined, ClientOf, Where
  <2> QED BY WhereGrows DEF IInv, PoolConfined
<1> QED BY <1>1, <1>2, <1>3 DEF IInv

\* Neither do the callers, the network manager, strayed threads and idle connections.
LEMMA OtherStep ==
    ASSUME IInv, (\E gs \in SUBSET Guests : Request(gs) \/ Collect(gs)) \/ Surroundings
    PROVE  IInv'
<1>1. ASSUME NEW gs \in SUBSET Guests, Request(gs) PROVE IInv'
  <2> DEFINE s == [Idle EXCEPT !.pc = "lookup"]
  <2>1. s \in Call /\ s.pc \notin Working
    BY IdleType DEF Idle, Call, Working
  <2> HIDE DEF s
  <2>2. scrape' = [g \in Guests |-> IF g \in gs THEN s ELSE scrape[g]]
    BY <1>1 DEF Request, s
  <2> QED BY <1>1, <2>1, <2>2, CallerStep DEF Request, IInv, TypeOK
<1>2. ASSUME NEW gs \in SUBSET Guests, Collect(gs) PROVE IInv'
  <2>1. Idle \in Call /\ Idle.pc \notin Working
    BY IdleType DEF Idle, Working
  <2> QED BY <1>2, <2>1, CallerStep DEF Collect, IInv, TypeOK
<1>3. ASSUME NEW c \in pool, IdleClose(c) PROVE IInv'
  BY <1>3, AroundStep DEF IdleClose, IInv, TypeOK, network
<1>4. ASSUME NEW n \in Names, AddNetNS(n) PROVE IInv'
  <2>1. gen' \in [Names -> 0..MaxGen] /\ \A x \in named' : gen'[x] > 0
    BY <1>4, TransportAssumption DEF AddNetNS, IInv, TypeOK
  <2> QED BY <1>4, <2>1, AroundStep DEF AddNetNS, IInv, TypeOK, calls
<1>5. ASSUME NEW n \in Names, Attach(n) PROVE IInv'
  <2>1. Space(n) \in Spaces
    BY <1>5, SpaceType DEF Attach, IInv
  <2> QED BY <1>5, <2>1, AroundStep DEF Attach, IInv, TypeOK, calls
<1>6. ASSUME NEW n \in Names, DeleteNetNS(n) PROVE IInv'
  BY <1>6, AroundStep DEF DeleteNetNS, IInv, TypeOK, calls
<1>7. ASSUME NEW g \in Guests, Stray(g) PROVE IInv'
  BY <1>7, AroundStep DEF Stray, IInv, TypeOK, calls
<1> QED BY <1>1, <1>2, <1>3, <1>4, <1>5, <1>6, <1>7 DEF Surroundings

LEMMA StepInv == IInv /\ [Next]_vars => IInv'
<1>1. CASE UNCHANGED vars
  BY <1>1, AroundStep DEF vars, network, calls, IInv, TypeOK
<1>2. CASE Next
  BY <1>2, CallStep, OtherStep DEF Next
<1> QED BY <1>1, <1>2

THEOREM Invariance == Spec => []IInv
  BY InitInv, StepInv, PTL DEF Spec

\* The type invariant of the transport.
THEOREM TypeCorrect == Spec => []TypeOK
<1>1. IInv => TypeOK
  BY DEF IInv
<1> QED BY <1>1, Invariance, PTL

\* transport.go:53: every connection belongs to the one client of its namespace.
THEOREM ConnectionsOwned == Spec => []OnePool
<1>1. IInv => OnePool
  <2> SUFFICES ASSUME IInv, NEW c \in pool \cup InUse PROVE c.client = ClientOf(c.client.ns)
    BY DEF OnePool
  <2>1. CASE c \in pool
    BY <2>1 DEF IInv, PoolConfined
  <2>2. CASE c \in InUse
    BY <2>2, ConnType DEF InUse
  <2> QED BY <2>1, <2>2
<1> QED BY <1>1, Invariance, PTL

-----------------------------------------------------------------------------
(* Answers.                                                                *)

\* Whoever answers a call is the target of the call, or has its address where a thread
\* has strayed.
LEMMA Answers ==
    ASSUME IInv, OwnAnswer, NEW g \in Guests, Answered(g)
    PROVE  OwnAnswer'
<1>1. PICK h \in Guests : /\ place[h] = [ns |-> scrape[g].space.ns, addr |-> place[g].addr]
                          /\ \E p \in Payloads[h] : Return(g, p)
  BY DEF Answered
<1>2. scrape[g].space \in Where(place[g].ns)
  BY DEF IInv, CallsConfined, Answered
<1>3. place[h].ns = scrape[g].space.ns /\ place[h].addr = place[g].addr
  BY <1>1
<1>4. place[h].ns = place[g].ns => h = g
  <2> SUFFICES ASSUME place[h].ns = place[g].ns PROVE h = g
    OBVIOUS
  <2>0. \A x \in Guests : place[x] = [ns |-> place[x].ns, addr |-> place[x].addr]
    BY PlacementAssumption DEF IInv, TypeOK
  <2>1. place[h] = place[g]
    BY <1>3, <2>0
  <2> QED BY <2>1, PlacementAssumption DEF IInv, TypeOK
<1>5. h \in {g} \cup Mistaken(g)
  <2>1. CASE scrape[g].space \in strayed /\ place[g].ns = "root"
    BY <2>1, <1>3 DEF Mistaken
  <2>2. CASE ~(scrape[g].space \in strayed /\ place[g].ns = "root")
    BY <2>2, <1>2, <1>3, <1>4 DEF Where, Root
  <2> QED BY <2>1, <2>2
<1>6. \A x \in Guests : Mistaken(x)' = Mistaken(x)
  BY DEF Answered, network, Mistaken
<1> QED BY <1>1, <1>5, <1>6 DEF Return, OwnAnswer, IInv, TypeOK

\* Threads stray and do not come back.
LEMMA MistakenGrows == [Next]_vars => \A g \in Guests : Mistaken(g) \subseteq Mistaken(g)'
<1>1. [Next]_vars => place' = place /\ strayed \subseteq strayed'
  BY DEF Next, vars, network, GetMetrics, Surroundings, Lookup, Create, Reuse, Dial, Connected,
         DialFails, Answered, Refused, TimedOut, Request, Collect, IdleClose, AddNetNS, Attach,
         DeleteNetNS, Stray
<1> QED BY <1>1 DEF Mistaken

\* What GetMetrics returns for a target is what this target exposes, and for a target
\* without a namespace, where a thread has strayed, what a guest at its address exposes.
THEOREM OwnAnswers == Spec => []OwnAnswer
<1>1. Init => OwnAnswer
  BY DEF Init, OwnAnswer
<1>2. IInv /\ OwnAnswer /\ [Next]_vars => OwnAnswer'
  <2> SUFFICES ASSUME IInv, OwnAnswer, [Next]_vars PROVE OwnAnswer'
    OBVIOUS
  <2>0. \A g \in Guests : result[g] = Failed \/ \E h \in {g} \cup Mistaken(g)' : result[g] \in Payloads[h]
    BY MistakenGrows DEF OwnAnswer
  <2>1. ASSUME NEW g \in Guests, Return(g, Failed) PROVE OwnAnswer'
    BY <2>0, <2>1 DEF Return, OwnAnswer, IInv, TypeOK
  <2>2. ASSUME UNCHANGED result PROVE OwnAnswer'
    BY <2>0, <2>2 DEF OwnAnswer
  <2>3. ASSUME NEW g \in Guests, GetMetrics(g) PROVE OwnAnswer'
    BY <2>3, <2>1, <2>2, Answers
       DEF GetMetrics, Lookup, Create, Reuse, Dial, Connected, DialFails, Refused, TimedOut
  <2>4. ASSUME NEW gs \in SUBSET Guests, Collect(gs) PROVE OwnAnswer'
    BY <2>0, <2>4 DEF Collect, OwnAnswer
  <2>5. ASSUME NEW gs \in SUBSET Guests, Request(gs) PROVE OwnAnswer'
    BY <2>5, <2>2 DEF Request
  <2>6. CASE Surroundings
    BY <2>6, <2>2 DEF Surroundings, IdleClose, AddNetNS, Attach, DeleteNetNS, Stray, calls
  <2>7. CASE UNCHANGED vars
    BY <2>7, <2>2 DEF vars, calls
  <2> QED BY <2>3, <2>4, <2>5, <2>6, <2>7 DEF Next
<1> QED BY <1>1, <1>2, Invariance, PTL DEF Spec
=============================================================================
