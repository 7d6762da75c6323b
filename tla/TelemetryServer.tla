--------------------------- MODULE TelemetryServer ---------------------------
(***************************************************************************)
(* The serving side of the compute agent: the handlers of /metrics and     *)
(* /status (pkg/server), the scraper's worker pool and status map          *)
(* (pkg/scraper) and the target list that Host Sync replaces under them    *)
(* (pkg/coordinator).  Handlers run concurrently; they share the response  *)
(* cache, the status map and the target list, each under its own mutex, so *)
(* every access under a lock is one action.                                *)
(*                                                                         *)
(* Time passes only while requests wait for guests: computing takes none.  *)
(* A unit is the largest that divides the timeouts of the instance.        *)
(***************************************************************************)
EXTENDS Naturals, FiniteSets

CONSTANTS
    VMs,             \* the Target VMs that may ever be on this host
    Reqs,            \* concurrent GET /metrics handlers (bound)
    Polls,           \* concurrent GET /status handlers (bound)
    Workers,         \* maxWorkers of the scraper
    ScrapeTimeout,   \* of one scrape
    RequestTimeout,  \* of the whole of handleMetrics' live scrape
    CacheTTL,        \* of the cached exposition
    Answers          \* what a guest may do: answer ("ok"), "fail", or be "slow"

ASSUME TimeAssumption ==
    /\ ScrapeTimeout \in Nat \ {0} /\ RequestTimeout \in Nat \ {0} /\ CacheTTL \in Nat \ {0}
    /\ Workers \in Nat \ {0}

ASSUME VMsAssumption == IsFiniteSet(VMs)

ASSUME AnswersAssumption ==
    Answers \in [VMs -> (SUBSET {"ok", "fail", "slow"}) \ {{}}]

VARIABLES
    targets,    \* the coordinator's targets
    status,     \* exporterStatus: "none", "up", "stale" (failed after a success) or "down"
    cache,      \* cachedData (as `body`) and the age of lastScrape
    mpc,        \* where a /metrics handler is
    clock,      \* time since the handler read `now`
    gone,       \* its client has disconnected
    tgts,       \* its snapshot of the targets
    queue,      \* targets in its channel
    busy,       \* scrapes in flight in its workers
    spent,      \* the time they have taken so far
    results,    \* its results: "none", "ok" or "fail"
    answer,     \* what this step answers to a client of /metrics, if it does
    ppc,        \* where a /status handler is
    snap,       \* its snapshot of the targets
    listed      \* the VMs its last answer lists

shared == <<targets, status, cache>>
requests == <<mpc, clock, gone, tgts, queue, busy, spent, results>>
polls == <<ppc, snap, listed>>
vars == <<shared, requests, answer, polls>>

\* An exposition: the targets it reports on and those that were scraped well.
Body == [of : SUBSET VMs, ok : SUBSET VMs]
NoBody == [of |-> {}, ok |-> {}]

Atmost(n, max) == IF n < max THEN n ELSE max

TypeOK ==
    /\ targets \subseteq VMs
    /\ status \in [VMs -> {"none", "up", "stale", "down"}]
    /\ cache \in [body : Body, age : 0..CacheTTL, sampled : 0..CacheTTL]
    /\ mpc \in [Reqs -> {"idle", "targets", "prune", "scrape", "store"}]
    /\ clock \in [Reqs -> Nat]
    /\ gone \in [Reqs -> BOOLEAN]
    /\ tgts \in [Reqs -> SUBSET VMs]
    /\ \A r \in Reqs : queue[r] \subseteq tgts[r] /\ busy[r] \subseteq tgts[r] \ queue[r]
    /\ queue \in [Reqs -> SUBSET VMs] /\ busy \in [Reqs -> SUBSET VMs]
    /\ spent \in [Reqs -> [VMs -> 0..ScrapeTimeout]]
    /\ results \in [Reqs -> [VMs -> {"none", "ok", "fail"}]]
    /\ answer \in [kind : {"none", "cached", "live", "error"}, body : Body, sampled : Nat]
    /\ ppc \in [Polls -> {"idle", "prune", "read"}]
    /\ snap \in [Polls -> SUBSET VMs]
    /\ listed \in [Polls -> SUBSET VMs]

Silence == [kind |-> "none", body |-> NoBody, sampled |-> 0]

Init ==
    /\ targets = {}
    /\ status = [v \in VMs |-> "none"]
    /\ cache = [body |-> NoBody, age |-> CacheTTL, sampled |-> CacheTTL]
    /\ mpc = [r \in Reqs |-> "idle"]
    /\ clock = [r \in Reqs |-> 0]
    /\ gone = [r \in Reqs |-> FALSE]
    /\ tgts = [r \in Reqs |-> {}]
    /\ queue = [r \in Reqs |-> {}]
    /\ busy = [r \in Reqs |-> {}]
    /\ spent = [r \in Reqs |-> [v \in VMs |-> 0]]
    /\ results = [r \in Reqs |-> [v \in VMs |-> "none"]]
    /\ answer = Silence
    /\ ppc = [p \in Polls |-> "idle"]
    /\ snap = [p \in Polls |-> {}]
    /\ listed = [p \in Polls |-> {}]

-----------------------------------------------------------------------------
(* handleMetrics.                                                          *)

\* A step that answers no client of /metrics.
Silent == answer' = Silence

\* The locals of the handler, its context and its channel end with it.
Return(r) ==
    /\ mpc' = [mpc EXCEPT ![r] = "idle"]
    /\ clock' = [clock EXCEPT ![r] = 0]
    /\ gone' = [gone EXCEPT ![r] = FALSE]
    /\ tgts' = [tgts EXCEPT ![r] = {}]
    /\ results' = [results EXCEPT ![r] = [v \in VMs |-> "none"]]

\* Under the read lock: a fresh cache is the answer, otherwise scrape.
Fresh == cache.body # NoBody /\ cache.age < CacheTTL

ServeCached(r) ==
    /\ mpc[r] = "idle" /\ Fresh
    /\ answer' = [kind |-> "cached", body |-> cache.body, sampled |-> cache.sampled]
    /\ UNCHANGED <<shared, requests, polls>>

StartLive(r) ==
    /\ mpc[r] = "idle" /\ ~Fresh
    /\ mpc' = [mpc EXCEPT ![r] = "targets"]
    /\ Silent
    /\ UNCHANGED <<shared, clock, gone, tgts, queue, busy, spent, results, polls>>

ReadTargets(r) ==
    /\ mpc[r] = "targets"
    /\ tgts' = [tgts EXCEPT ![r] = targets]
    /\ mpc' = [mpc EXCEPT ![r] = "prune"]
    /\ Silent
    /\ UNCHANGED <<shared, clock, gone, queue, busy, spent, results, polls>>

\* Mutant: nothing is pruned.
Pruned_Nothing(active) == status

Pruned(active) == [v \in VMs |-> IF v \in active THEN status[v] ELSE "none"]

\* Mutant: the channel is filled from a second reading of the target list.
ScrapeAll_Rereads(r) ==
    /\ mpc[r] = "prune"
    /\ status' = Pruned(tgts[r])
    /\ queue' = [queue EXCEPT ![r] = targets]
    /\ mpc' = [mpc EXCEPT ![r] = "scrape"]
    /\ Silent
    /\ UNCHANGED <<targets, cache, clock, gone, tgts, busy, spent, results, polls>>

\* ScrapeAll prunes the status map, fills the channel and starts the workers.
ScrapeAll(r) ==
    /\ mpc[r] = "prune"
    /\ status' = Pruned(tgts[r])
    /\ queue' = [queue EXCEPT ![r] = tgts[r]]
    /\ mpc' = [mpc EXCEPT ![r] = "scrape"]
    /\ Silent
    /\ UNCHANGED <<targets, cache, clock, gone, tgts, busy, spent, results, polls>>

\* Mutant: the context of the request is given the timeout of a scrape.
CtxDone_ScrapeTimeout(r) == gone[r] \/ clock[r] >= ScrapeTimeout

CtxDone(r) == gone[r] \/ clock[r] >= RequestTimeout

\* recordStatus keeps the time of the last success when a scrape fails.
Record(r, v, res) ==
    /\ results' = [results EXCEPT ![r][v] = res]
    /\ status' = [status EXCEPT ![v] =
                    IF res = "ok" THEN "up"
                    ELSE IF @ \in {"up", "stale"} THEN "stale" ELSE "down"]

IdleWorker(r) == Cardinality(busy[r]) < Workers

\* A worker takes the next target from the channel.
StartScrape(r) ==
    /\ mpc[r] = "scrape" /\ IdleWorker(r) /\ ~CtxDone(r)
    /\ \E v \in queue[r] :
         /\ queue' = [queue EXCEPT ![r] = @ \ {v}]
         /\ busy' = [busy EXCEPT ![r] = @ \cup {v}]
    /\ Silent
    /\ UNCHANGED <<shared, mpc, clock, gone, tgts, spent, results, polls>>

\* Mutant: a target met after the end of the context is dropped without a result.
SkipTarget_NoResult(r) ==
    /\ mpc[r] = "scrape" /\ IdleWorker(r) /\ CtxDone(r)
    /\ \E v \in queue[r] : queue' = [queue EXCEPT ![r] = @ \ {v}]
    /\ Silent
    /\ UNCHANGED <<shared, mpc, clock, gone, tgts, busy, spent, results, polls>>

\* Once the context is done, what is left in the channel is recorded as failed.
SkipTarget(r) ==
    /\ mpc[r] = "scrape" /\ IdleWorker(r) /\ CtxDone(r)
    /\ \E v \in queue[r] :
         /\ queue' = [queue EXCEPT ![r] = @ \ {v}]
         /\ Record(r, v, "fail")
    /\ Silent
    /\ UNCHANGED <<targets, cache, mpc, clock, gone, tgts, busy, spent, polls>>

\* Mutant: the HTTP request carries no context.
ScrapeExpired_Never(r, v) == FALSE

\* A scrape's context ends with its own timeout or with the request's.
ScrapeExpired(r, v) == CtxDone(r) \/ spent[r][v] >= ScrapeTimeout

\* Mutant: a worker does not report that it is done.
FinishScrape_NoDone(r) ==
    /\ mpc[r] = "scrape"
    /\ \E v \in busy[r] :
         /\ ScrapeExpired(r, v)
         /\ spent' = [spent EXCEPT ![r][v] = 0]
         /\ Record(r, v, "fail")
    /\ Silent
    /\ UNCHANGED <<targets, cache, mpc, clock, gone, tgts, queue, busy, polls>>

FinishScrape(r) ==
    /\ mpc[r] = "scrape"
    /\ \E v \in busy[r] :
         /\ busy' = [busy EXCEPT ![r] = @ \ {v}]
         /\ spent' = [spent EXCEPT ![r][v] = 0]
         /\ \/ "ok" \in Answers[v] /\ ~ScrapeExpired(r, v) /\ Record(r, v, "ok")
            \/ "fail" \in Answers[v] /\ Record(r, v, "fail")
            \/ ScrapeExpired(r, v) /\ Record(r, v, "fail")
    /\ Silent
    /\ UNCHANGED <<targets, cache, mpc, clock, gone, tgts, queue, polls>>

NewBody(r) == [of |-> {v \in tgts[r] : results[r][v] # "none"},
               ok |-> {v \in tgts[r] : results[r][v] = "ok"}]

\* wg.Wait() is over.
AllDone(r) == mpc[r] = "scrape" /\ queue[r] = {} /\ busy[r] = {}

\* The encoder refuses a family without samples, and without results
\* dcgm_collector_scrape_success is one.
EncodeError(r) ==
    /\ AllDone(r) /\ NewBody(r).of = {}
    /\ answer' = [Silence EXCEPT !.kind = "error"]
    /\ Return(r)
    /\ UNCHANGED <<shared, queue, busy, spent, polls>>

Encode(r) ==
    /\ AllDone(r) /\ NewBody(r).of # {}
    /\ mpc' = [mpc EXCEPT ![r] = "store"]
    /\ Silent
    /\ UNCHANGED <<shared, clock, gone, tgts, queue, busy, spent, results, polls>>

\* Mutant: lastScrape is the time of storing.
Stored_AtEnd(r) == [body |-> NewBody(r), age |-> 0, sampled |-> Atmost(clock[r], CacheTTL)]

\* lastScrape = now, the time read at the start, not the time of storing.
Stored(r) == [body |-> NewBody(r), age |-> Atmost(clock[r], CacheTTL),
              sampled |-> Atmost(clock[r], CacheTTL)]

\* A client that has left receives nothing; the cache is stored all the same.
Store(r) ==
    /\ mpc[r] = "store"
    /\ cache' = Stored(r)
    /\ answer' = IF gone[r] THEN Silence
                 ELSE [kind |-> "live", body |-> NewBody(r), sampled |-> clock[r]]
    /\ Return(r)
    /\ UNCHANGED <<targets, status, queue, busy, spent, polls>>

\* The client goes away and its request context is cancelled; the handler goes on.
Disconnect(r) ==
    /\ mpc[r] # "idle" /\ ~gone[r]
    /\ gone' = [gone EXCEPT ![r] = TRUE]
    /\ Silent
    /\ UNCHANGED <<shared, mpc, clock, tgts, queue, busy, spent, results, polls>>

-----------------------------------------------------------------------------
(* handleStatus: three accesses, each under its own lock.                  *)

PollTargets(p) ==
    /\ ppc[p] = "idle"
    /\ snap' = [snap EXCEPT ![p] = targets]
    /\ ppc' = [ppc EXCEPT ![p] = "prune"]
    /\ Silent
    /\ UNCHANGED <<shared, requests, listed>>

PollPrune(p) ==
    /\ ppc[p] = "prune"
    /\ status' = Pruned(snap[p])
    /\ ppc' = [ppc EXCEPT ![p] = "read"]
    /\ Silent
    /\ UNCHANGED <<targets, cache, requests, snap, listed>>

GetStatus(p) ==
    /\ ppc[p] = "read"
    /\ listed' = [listed EXCEPT ![p] = {v \in VMs : status[v] # "none"}]
    /\ ppc' = [ppc EXCEPT ![p] = "idle"]
    /\ Silent
    /\ UNCHANGED <<shared, requests, snap>>

-----------------------------------------------------------------------------
(* Host Sync and the clock.                                                *)

\* The coordinator publishes the targets of a Host Sync.
SetTargets ==
    /\ \E ts \in SUBSET VMs : targets' = ts
    /\ Silent
    /\ UNCHANGED <<status, cache, requests, polls>>

\* A handler that has nothing to do before time passes.
Waiting(r) ==
    \/ mpc[r] = "idle"
    \/ /\ mpc[r] = "scrape" /\ busy[r] # {}
       /\ queue[r] = {} \/ ~IdleWorker(r)
       /\ \A v \in busy[r] : "slow" \in Answers[v] /\ ~ScrapeExpired(r, v)

Tick ==
    /\ \A r \in Reqs : Waiting(r)
    /\ clock' = [r \in Reqs |-> IF mpc[r] = "idle" THEN 0 ELSE clock[r] + 1]
    /\ spent' = [r \in Reqs |-> [v \in VMs |-> IF v \in busy[r] THEN spent[r][v] + 1 ELSE 0]]
    /\ cache' = [cache EXCEPT !.age = Atmost(@ + 1, CacheTTL), !.sampled = Atmost(@ + 1, CacheTTL)]
    /\ Silent
    /\ UNCHANGED <<targets, status, mpc, gone, tgts, queue, busy, results, polls>>

-----------------------------------------------------------------------------

Handle(r) ==
    \/ ReadTargets(r) \/ ScrapeAll(r) \/ StartScrape(r) \/ SkipTarget(r)
    \/ FinishScrape(r) \/ EncodeError(r) \/ Encode(r) \/ Store(r)

Poll(p) == PollTargets(p) \/ PollPrune(p) \/ GetStatus(p)

Next ==
    \/ \E r \in Reqs : ServeCached(r) \/ StartLive(r) \/ Handle(r) \/ Disconnect(r)
    \/ \E p \in Polls : Poll(p)
    \/ SetTargets
    \/ Tick

Spec == Init /\ [][Next]_vars

-----------------------------------------------------------------------------
(* Properties.                                                             *)

\* ScrapeAll reports on every target of its snapshot, also when the client leaves or
\* the deadline passes while targets are still in the channel.
ResultsComplete ==
    \A r \in Reqs : mpc[r] = "store" => NewBody(r).of = tgts[r] /\ tgts[r] # {}

\* A cached exposition is younger than cacheTTL counted from the first sample in it,
\* however long the scrape took and whichever of several handlers stored last.
CachedIsFresh ==
    answer.kind = "cached" => answer.sampled < CacheTTL

\* However many guests hang, a handler is done when its ten seconds are over: no
\* scrape outlives the request's context and the rest of the channel is skipped.
RequestsMeetDeadline == \A r \in Reqs : clock[r] <= RequestTimeout

\* README "Fault Isolation": a slow or failing guest does not block or degrade
\* scrapes for other Target VMs.  Unless the guests that hang can keep all workers
\* busy until the deadline, a guest that always answers at once is never reported as
\* failed to a client that waits for its answer.
Hanging == {v \in VMs : "slow" \in Answers[v]}
FaultIsolation ==
    answer.kind = "live" /\ (Cardinality(Hanging) \div Workers) * ScrapeTimeout < RequestTimeout =>
        \A v \in answer.body.of : Answers[v] = {"ok"} => v \in answer.body.ok

\* README, HTTP endpoints: /metrics serves guest metrics "plus Collector Metrics",
\* the target counts included.  It never answers with an error.
AlwaysServed == answer.kind # "error"

\* A VM that Host Sync removed may reappear in /status after it was pruned, through a
\* scrape in flight, but not for ever: some later answer is the last that lists it.
GhostsVanish ==
    \A v \in VMs, p \in Polls : <>[](v \notin targets) => <>[](v \notin listed[p])

\* Every handler of /metrics answers.
RequestsReturn == \A r \in Reqs : mpc[r] # "idle" ~> mpc[r] = "idle"
=============================================================================
