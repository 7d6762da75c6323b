----------------------------- MODULE LiveScrape ------------------------------
(***************************************************************************)
(* One live scrape of /metrics from the targets to the page: a handler     *)
(* calls GetMetrics for every target (pkg/scraper, GuestTransport), and    *)
(* when all calls have returned it makes the page of their results         *)
(* (pkg/server, Exposition).  The deadlines and the workers of the pool    *)
(* are in TelemetryServer.                                                 *)
(***************************************************************************)
EXTENDS GuestTransport, Exposition

\* GetMetrics is asked for the targets the page is about, and returns what they expose.
ASSUME ResultsAssumption ==
    /\ Targets = Guests /\ "collector" \notin Guests /\ Failed = Failure
    /\ \A g \in Guests : \A r \in Payloads[g] :
         /\ r \in [ok : {TRUE}, clean : BOOLEAN, samples : SUBSET Sample(g)]
         /\ ~r.clean => r.samples = {}

VARIABLES
    merged,   \* the targets whose results have been merged
    fams,     \* combinedFamilies
    page      \* what this step answers, if it does

all == <<vars, merged, fams, page>>

NoPage == [kind |-> "none", samples |-> {}]

LInit == Init /\ merged = {} /\ fams = NoFamilies /\ page = NoPage

\* The targets of the handler at work.
Scraped == {g \in Guests : scrape[g].pc # "idle"}

\* ScrapeAll hands every target of the list to a worker.  (TelemetryServer has the list
\* without targets, which is answered with an error.)
Begin ==
    /\ Scraped = {}
    /\ \E ts \in SUBSET Guests \ {{}} : Request(ts)
    /\ page' = NoPage /\ UNCHANGED <<merged, fams>>

Fetch(g) == GetMetrics(g) /\ page' = NoPage /\ UNCHANGED <<merged, fams>>

\* wg.Wait() is over.
AllDone == Scraped # {} /\ \A g \in Scraped : scrape[g].pc = "done"

\* The results are merged in any order.
Merge(g) ==
    /\ AllDone /\ g \in Scraped \ merged
    /\ merged' = merged \cup {g}
    /\ fams' = AddResult(fams, g, result[g])
    /\ page' = NoPage /\ UNCHANGED vars

Results == [g \in Scraped |-> result[g]]

\* The page is made, or the encoder fails and the answer is a 500.
Answer ==
    /\ AllDone /\ merged = Scraped
    /\ LET combined == MergeFamilies(fams, CollectorFamilies(Results))
       IN  page' = IF Encodes(combined) THEN [kind |-> "page", samples |-> Samples(combined)]
                   ELSE [kind |-> "error", samples |-> {}]
    /\ merged' = {} /\ fams' = NoFamilies
    /\ Collect(Scraped)

Around == Surroundings /\ page' = NoPage /\ UNCHANGED <<merged, fams>>

LNext == Begin \/ (\E g \in Guests : Fetch(g) \/ Merge(g)) \/ Answer \/ Around

LSpec == LInit /\ [][LNext]_all

\* Calls end by their timeouts, Prometheus keeps scraping, and a connection that stays
\* idle is closed; the only client of a namespace is its first (OnePool).
First(n) == [ns |-> n, no |-> 1]
LFairSpec ==
    /\ LSpec /\ WF_all(Begin) /\ WF_all(Answer)
    /\ \A g \in Guests : WF_all(Fetch(g)) /\ WF_all(Merge(g))
    /\ \A sp \in Spaces \ {Root}, x \in Addrs :
         WF_all(IdleClose([client |-> First(sp.ns), addr |-> x, space |-> sp])
                  /\ page' = NoPage /\ UNCHANGED <<merged, fams>>)

-----------------------------------------------------------------------------
(* Properties.                                                             *)

\* README "authoritative Hypervisor Metadata": a sample carries the labels of the target it
\* was scraped for, wherever the hypervisor knows them, whatever the guest has set; and
\* this target is the guest that exposed it, unless a thread has strayed (OwnAnswer).
LabelsTrue ==
    \A s \in page.samples :
        s.from # "collector" =>
            \E g \in Guests :
                /\ s.from \in {g} \cup Mistaken(g)
                /\ \A l \in MetaLabels : Meta[g][l] # "none" => s.labels[l] = Meta[g][l]

\* A page has every sample of every payload that parses, and for each target one sample
\* that says whether its scrape succeeded, whatever order the results are taken in.
PageComplete ==
    [][page'.kind = "page" =>
        \A g \in Scraped :
            /\ \A s \in result[g].samples :
                 EnrichMetric(s, g) \in page'.samples
            /\ Collector("scrape_success", Meta[g], result[g].ok) \in page'.samples
            /\ Collector("scrape_success", Meta[g], ~result[g].ok) \notin page'.samples]_all

\* Only two payloads that use one family name with different types, or one that does so
\* with a family of the collector, cost the others their page.
Conflict ==
    \E s, t \in (UNION {result[g].samples : g \in Scraped}) \cup Samples(CollectorFamilies(Results)) :
        s.name = t.name /\ s.type # t.type
FailsOnlyOnConflict == [][page'.kind = "error" => Conflict]_all

\* A guest whose network is attached and stays so is soon scraped well for good, however many
\* connections into an earlier namespace of that name are left in the pool; without a
\* namespace, if no thread has strayed.
Reachable(g) ==
    IF place[g].ns = "root" THEN strayed = {}
    ELSE Space(place[g].ns) \in live /\ place[g].ns \in named
FailureOf(g) == Collector("scrape_success", Meta[g], FALSE)
Recovers ==
    \A g \in Guests : <>[]Reachable(g) => <>[](FailureOf(g) \notin page.samples)

\* A namespace that lost its name and its network is given up by the pool, so that the
\* kernel reaps it unless a thread has strayed there: NetworkManager relies on this (WF of
\* Reap).
Nameless(sp) == sp.ns # "root" /\ (sp.ns \notin named \/ sp.gen < gen[sp.ns])
Released ==
    \A sp \in Spaces \ {Root} :
        (Nameless(sp) /\ sp \notin live) ~>
            (sp \in strayed \/ \A c \in pool \cup InUse : c.space # sp)
=============================================================================
