--------------------------- MODULE GuestTransport ----------------------------
(***************************************************************************)
(* HTTPTransport.GetMetrics (pkg/transport/transport.go): one HTTP client  *)
(* per network namespace, created on first use, whose idle connections     *)
(* outlive the scrape, the target and even the name of the namespace.      *)
(* Guests of different tenants may have the same address: only the         *)
(* namespace a connection was opened in tells them apart.                  *)
(*                                                                         *)
(* A dial is one step that opens the namespace by name and one that        *)
(* connects in it, which is what NetNSDialer shows of DialContext.  A dial *)
(* without a namespace connects from the thread it runs on, which an       *)
(* earlier dial may have left in a tenant namespace.  The network manager  *)
(* around it creates, attaches and deletes namespaces; a space is a        *)
(* namespace as the kernel knows it, a name with a generation.             *)
(***************************************************************************)
EXTENDS Naturals

CONSTANTS
    Guests,       \* the Target VMs, each scraped by one worker at a time
    Names,        \* names of tenant namespaces
    Addrs,        \* addresses, which tenants may share
    Placements,   \* where the guests may be: namespace ("root" if empty) and address
    Payloads,     \* what a guest may answer that GetMetrics returns without an error
    Failed,       \* what GetMetrics returns with an error
    MaxGen,       \* bound: how often a namespace is created
    MaxFaults     \* bound: failures that neither deletion nor absence explains

\* On one network no two guests have the same address.
ASSUME PlacementAssumption ==
    /\ Placements \subseteq [Guests -> [ns : Names \cup {"root"}, addr : Addrs]]
    /\ \A p \in Placements : \A g, h \in Guests : p[g] = p[h] => g = h

ASSUME TransportAssumption ==
    /\ "root" \notin Names /\ "none" \notin Names \cup {"root"}
    /\ MaxGen \in Nat /\ MaxFaults \in Nat

VARIABLES
    place,      \* where the guests are
    gen,        \* how often a name has been created
    named,      \* the names that exist
    live,       \* the spaces that are connected to their network
    clients,    \* the map `clients`: the number of the client of a name, 0 if absent
    pool,       \* the idle connections
    scrape,     \* the GetMetrics call for a guest
    result,     \* what it returned
    strayed,    \* the spaces that dials have left a thread of the agent in
    faults      \* history: own failures so far, up to MaxFaults

network == <<gen, named, live, strayed>>
calls == <<clients, pool, scrape, result>>
vars == <<place, network, calls, faults>>

Namespaces == Names \cup {"root"}
Spaces == {sp \in [ns : Namespaces, gen : 0..MaxGen] : sp.ns = "root" <=> sp.gen = 0}
Root == [ns |-> "root", gen |-> 0]
Space(n) == IF n = "root" THEN Root ELSE [ns |-> n, gen |-> gen[n]]

\* An HTTP client: the namespace it dials in, and how many there were before it.
Client == [ns : Namespaces, no : Nat]
Conn == [client : Client, addr : Addrs, space : Spaces]

Idle == [pc |-> "idle", client |-> [ns |-> "root", no |-> 0], space |-> Root]
Returned == [Idle EXCEPT !.pc = "done"]

TypeOK ==
    /\ place \in Placements
    /\ gen \in [Names -> 0..MaxGen]
    /\ named \subseteq Names /\ \A n \in named : gen[n] > 0
    /\ live \subseteq Spaces
    /\ clients \in [Namespaces -> Nat]
    /\ pool \subseteq Conn
    /\ scrape \in [Guests -> [pc : {"idle", "lookup", "create", "do", "dial", "reply", "done"},
                              client : Client, space : Spaces]]
    /\ result \in [Guests -> {Failed} \cup UNION {Payloads[g] : g \in Guests}]
    /\ strayed \subseteq Spaces \ {Root}
    /\ faults \in 0..MaxFaults

Init ==
    /\ place \in Placements
    /\ gen = [n \in Names |-> 0] /\ named = {} /\ live = {Root}
    /\ clients = [n \in Namespaces |-> 0]
    /\ pool = {}
    /\ scrape = [g \in Guests |-> Idle]
    /\ result = [g \in Guests |-> Failed]
    /\ strayed = {}
    /\ faults = 0

-----------------------------------------------------------------------------
(* getClient.                                                              *)

ClientOf(n) == [ns |-> n, no |-> clients[n]]
Step(g, s) == scrape' = [scrape EXCEPT ![g] = s]
With(g, client) == Step(g, [Idle EXCEPT !.pc = "do", !.client = client])

\* Under the read lock.
Lookup(g) ==
    /\ scrape[g].pc = "lookup"
    /\ LET n == place[g].ns
       IN  IF clients[n] # 0 THEN With(g, ClientOf(n)) ELSE Step(g, [Idle EXCEPT !.pc = "create"])
    /\ UNCHANGED <<place, network, clients, pool, result, faults>>

\* Mutant: the map is not looked at again under the write lock.
Create_Unchecked(g) ==
    /\ scrape[g].pc = "create"
    /\ LET n == place[g].ns
       IN  /\ clients' = [clients EXCEPT ![n] = @ + 1]
           /\ With(g, [ns |-> n, no |-> clients[n] + 1])
    /\ UNCHANGED <<place, network, pool, result, faults>>

\* Under the write lock: another call may have created the client meanwhile.
Create(g) ==
    /\ scrape[g].pc = "create"
    /\ LET n == place[g].ns
       IN  /\ clients' = [clients EXCEPT ![n] = IF @ = 0 THEN 1 ELSE @]
           /\ With(g, [ns |-> n, no |-> IF clients[n] = 0 THEN 1 ELSE clients[n]])
    /\ UNCHANGED <<place, network, pool, result, faults>>

-----------------------------------------------------------------------------
(* client.Do: an idle connection of the client to the address, or a dial.  *)

ConnOf(g) == [client |-> scrape[g].client, addr |-> place[g].addr, space |-> scrape[g].space]

\* Mutant: one pool for all namespaces.
Usable_Any(g) == {c \in pool : c.addr = place[g].addr}

Usable(g) == {c \in pool : c.addr = place[g].addr /\ c.client = scrape[g].client}

Reuse(g) ==
    /\ scrape[g].pc = "do"
    /\ \E c \in Usable(g) :
         /\ pool' = pool \ {c}
         /\ Step(g, [scrape[g] EXCEPT !.pc = "reply", !.space = c.space])
    /\ UNCHANGED <<place, network, clients, result, faults>>

Fault == faults < MaxFaults /\ faults' = faults + 1

Return(g, r) == Step(g, Returned) /\ result' = [result EXCEPT ![g] = r]

\* Mutant: an error of opening the namespace is ignored.
Dial_Unchecked(g) ==
    /\ scrape[g].pc = "do" /\ Usable(g) = {}
    /\ Step(g, [scrape[g] EXCEPT !.pc = "dial", !.space = Space(scrape[g].client.ns)])
    /\ UNCHANGED <<place, network, clients, pool, result, faults>>

\* Where a client may connect: without a namespace, from wherever its thread is.
Places(n) ==
    IF n = "root" THEN {Root} \cup strayed ELSE {Space(m) : m \in named \cap {n}}

\* The namespace is opened by its name, which may be missing.
Dial(g) ==
    /\ scrape[g].pc = "do" /\ Usable(g) = {}
    /\ LET places == Places(scrape[g].client.ns)
       IN  \/ /\ \E sp \in places : Step(g, [scrape[g] EXCEPT !.pc = "dial", !.space = sp])
              /\ UNCHANGED result
           \/ places = {} /\ Return(g, Failed)
    /\ UNCHANGED <<place, network, clients, pool, faults>>

\* The namespace stays open while its name may be deleted or created again.
Connected(g) ==
    /\ scrape[g].pc = "dial" /\ scrape[g].space \in live
    /\ Step(g, [scrape[g] EXCEPT !.pc = "reply"])
    /\ UNCHANGED <<place, network, clients, pool, result, faults>>

\* The dial fails or is given up; given up, its connection may still join the pool.
DialFails(g) ==
    /\ scrape[g].pc = "dial"
    /\ \/ scrape[g].space \notin live /\ UNCHANGED <<pool, faults>>
       \/ scrape[g].space \in live /\ Fault /\ pool' \in {pool, pool \cup {ConnOf(g)}}
    /\ Return(g, Failed)
    /\ UNCHANGED <<place, network, clients>>

-----------------------------------------------------------------------------
(* The response.                                                           *)

\* A body that was read to its end leaves the connection to others; one that was cut
\* at maxBytesRead is returned all the same, but its connection is closed.
Answered(g) ==
    /\ scrape[g].pc = "reply" /\ scrape[g].space \in live
    /\ \E h \in Guests :
         /\ place[h] = [ns |-> scrape[g].space.ns, addr |-> place[g].addr]
         /\ \E p \in Payloads[h] : Return(g, p)
    /\ pool' \in {pool, pool \cup {ConnOf(g)}}
    /\ UNCHANGED <<place, network, clients, faults>>

\* Another status than 200: the body is closed unread.
Refused(g) ==
    /\ scrape[g].pc = "reply" /\ scrape[g].space \in live /\ Fault
    /\ Return(g, Failed)
    /\ pool' \in {pool, pool \cup {ConnOf(g)}}
    /\ UNCHANGED <<place, network, clients>>

\* Mutant: a connection that times out goes back to the pool.
TimedOut_Keeps(g) ==
    /\ scrape[g].pc = "reply"
    /\ \/ scrape[g].space \notin live /\ UNCHANGED faults
       \/ scrape[g].space \in live /\ Fault
    /\ Return(g, Failed)
    /\ pool' = pool \cup {ConnOf(g)}
    /\ UNCHANGED <<place, network, clients>>

\* No answer within the timeout, or a connection that breaks: it is closed.
TimedOut(g) ==
    /\ scrape[g].pc = "reply"
    /\ \/ scrape[g].space \notin live /\ UNCHANGED faults
       \/ scrape[g].space \in live /\ Fault
    /\ Return(g, Failed)
    /\ UNCHANGED <<place, network, clients, pool>>

\* Mutant: idle connections are kept for ever.
IdleClose_Never(c) == FALSE /\ UNCHANGED vars

\* IdleConnTimeout, or the guest closes the connection.
IdleClose(c) ==
    /\ c \in pool
    /\ pool' = pool \ {c}
    /\ UNCHANGED <<place, network, clients, scrape, result, faults>>

-----------------------------------------------------------------------------
(* The callers of GetMetrics, and the network manager.                     *)

\* The workers of the scraper call GetMetrics for targets, and their results are collected.
Request(gs) ==
    /\ \A g \in gs : scrape[g].pc = "idle"
    /\ scrape' = [g \in Guests |-> IF g \in gs THEN [Idle EXCEPT !.pc = "lookup"] ELSE scrape[g]]
    /\ UNCHANGED <<place, network, clients, pool, result, faults>>

Collect(gs) ==
    /\ \A g \in gs : scrape[g].pc = "done"
    /\ scrape' = [g \in Guests |-> IF g \in gs THEN Idle ELSE scrape[g]]
    /\ result' = [g \in Guests |-> IF g \in gs THEN Failed ELSE result[g]]
    /\ UNCHANGED <<place, network, clients, pool, faults>>

AddNetNS(n) ==
    /\ n \notin named /\ gen[n] < MaxGen
    /\ named' = named \cup {n}
    /\ gen' = [gen EXCEPT ![n] = @ + 1]
    /\ UNCHANGED <<place, live, strayed, calls, faults>>

Attach(n) ==
    /\ n \in named
    /\ live' = live \cup {Space(n)}
    /\ UNCHANGED <<place, gen, named, strayed, calls, faults>>

\* The port and the pair are removed with the name, unless their removal failed.
DeleteNetNS(n) ==
    /\ n \in named
    /\ named' = named \ {n}
    /\ live' \in {live, live \ {Space(n)}}
    /\ UNCHANGED <<place, gen, strayed, calls, faults>>

\* While a dial has the main thread in its namespace, another one, perhaps of a call that
\* has given up, takes this namespace for the one to return to (NetNSDialer.Note).
Stray(g) ==
    /\ scrape[g].pc = "dial" /\ scrape[g].space # Root
    /\ strayed' = strayed \cup {scrape[g].space}
    /\ UNCHANGED <<place, gen, named, live, calls, faults>>

-----------------------------------------------------------------------------

GetMetrics(g) ==
    \/ Lookup(g) \/ Create(g) \/ Reuse(g) \/ Dial(g) \/ Connected(g) \/ DialFails(g)
    \/ Answered(g) \/ Refused(g) \/ TimedOut(g)

Surroundings ==
    \/ \E c \in pool : IdleClose(c)
    \/ \E n \in Names : AddNetNS(n) \/ Attach(n) \/ DeleteNetNS(n)
    \/ \E g \in Guests : Stray(g)

Next ==
    \/ \E gs \in SUBSET Guests : Request(gs) \/ Collect(gs)
    \/ \E g \in Guests : GetMetrics(g)
    \/ Surroundings

Spec == Init /\ [][Next]_vars

-----------------------------------------------------------------------------
(* Properties.                                                             *)

\* No connection is lost to the clients: each belongs to the client that the next
\* scrape of its namespace gets, so it is used again or closed.
InUse == {ConnOf(g) : g \in {h \in Guests : scrape[h].pc \in {"dial", "reply"}}}
OnePool == \A c \in pool \cup InUse : c.client = ClientOf(c.client.ns)

\* The guests of tenants that a dial without a namespace may take for this target: they
\* have its address where a thread has strayed.
Mistaken(g) ==
    {h \in Guests : /\ place[g].ns = "root" /\ place[h].addr = place[g].addr
                    /\ \E sp \in strayed : sp.ns = place[h].ns}

\* README "per-netns connection pooling": what GetMetrics returns for a target in a tenant
\* namespace is what this target exposes, although a guest of another tenant has the same
\* address, the connection is an old one and the namespace was deleted and created again.
\* For a target without one this holds until a thread has strayed to its address.
OwnAnswer ==
    \A g \in Guests :
        result[g] = Failed \/ \E h \in {g} \cup Mistaken(g) : result[g] \in Payloads[h]
=============================================================================
