----------------------- MODULE TelemetryServer_proofs -----------------------
(***************************************************************************)
(* Proofs about TelemetryServer for every set of VMs, every number of      *)
(* requests, polls and workers, every choice of timeouts and every         *)
(* behaviour of the guests.  A target of a request is in its channel, in a *)
(* worker or has its result, in exactly one of them (Accounted).  A worker *)
(* that is late has had its whole timeout of ticks in every poll of its    *)
(* request, so guests that answer are not kept waiting by others.          *)
(***************************************************************************)
EXTENDS Shutdown, FiniteSetTheorems, TLAPS

Done(r) == {v \in VMs : results[r][v] # "none"}

\* Outside ScrapeAll the channel is empty and no worker runs.
Quiet ==
    \A r \in Reqs : /\ mpc[r] # "scrape" => queue[r] = {} /\ busy[r] = {}
                    /\ mpc[r] \in {"idle", "targets", "prune"} => Done(r) = {}

\* Every target is in the channel, in a worker or done, in one of them only.
Accounted ==
    \A r \in Reqs : mpc[r] \in {"scrape", "store"} =>
        /\ tgts[r] = queue[r] \cup busy[r] \cup Done(r)
        /\ (queue[r] \cup busy[r]) \cap Done(r) = {}

\* lastScrape is the time of the first sample in the cache.
Stamped == cache.sampled = cache.age

Inv == /\ TypeOK /\ Quiet /\ Accounted /\ Stamped
       /\ ResultsComplete /\ CachedIsFresh /\ RequestsMeetDeadline

USE TimeAssumption, AnswersAssumption

-----------------------------------------------------------------------------
(* The invariant holds initially and is preserved by every action.         *)

LEMMA InitInv == Init => Inv
  BY DEF Init, Inv, TypeOK, Quiet, Accounted, Stamped, ResultsComplete, CachedIsFresh,
         RequestsMeetDeadline, Done, NoBody, Body, Silence, NewBody

\* The body a handler makes of its results is an exposition.
LEMMA NewBodyTyped == ASSUME TypeOK, NEW r \in Reqs PROVE NewBody(r) \in Body
  BY DEF TypeOK, NewBody, Body

LEMMA SilenceTyped ==
    /\ Silence \in [kind : {"none", "cached", "live", "error"}, body : Body, sampled : Nat]
    /\ Silence.kind = "none"
  BY DEF Silence, NoBody, Body

LEMMA PrunedTyped == ASSUME TypeOK, NEW S
                     PROVE Pruned(S) \in [VMs -> {"none", "up", "stale", "down"}]
  BY DEF TypeOK, Pruned

LEMMA ServeCachedInv == ASSUME Inv, NEW r \in Reqs, ServeCached(r) PROVE Inv'
<1> USE DEF Inv, ServeCached, Fresh, shared, requests, polls
<1>1. TypeOK'
  BY DEF TypeOK
<1>2. CachedIsFresh'
  BY DEF TypeOK, Stamped, CachedIsFresh
<1>3. Quiet' /\ Accounted' /\ Stamped' /\ ResultsComplete' /\ RequestsMeetDeadline'
  BY DEF Quiet, Accounted, Stamped, ResultsComplete, RequestsMeetDeadline, Done, NewBody
<1> QED
  BY <1>1, <1>2, <1>3

\* What a step that answers nobody and does not touch the cache leaves to be shown.
LEMMA SilentStep ==
    ASSUME Inv, Silent, UNCHANGED cache
    PROVE  /\ CachedIsFresh' /\ Stamped'
           /\ answer' \in [kind : {"none", "cached", "live", "error"}, body : Body, sampled : Nat]
  BY SilenceTyped DEF Silent, CachedIsFresh, Inv, Stamped

LEMMA StartLiveInv == ASSUME Inv, NEW r \in Reqs, StartLive(r) PROVE Inv'
<1> USE DEF Inv, StartLive, shared, polls
<1>1. TypeOK'
  BY SilentStep DEF TypeOK
<1>2. Quiet' /\ Accounted' /\ ResultsComplete' /\ RequestsMeetDeadline'
  BY DEF TypeOK, Quiet, Accounted, ResultsComplete, RequestsMeetDeadline, Done, NewBody
<1> QED
  BY <1>1, <1>2, SilentStep

LEMMA ReadTargetsInv == ASSUME Inv, NEW r \in Reqs, ReadTargets(r) PROVE Inv'
<1> USE DEF Inv, ReadTargets, shared, polls
<1>1. TypeOK'
  BY SilentStep DEF TypeOK, Quiet
<1>2. Quiet' /\ Accounted' /\ ResultsComplete' /\ RequestsMeetDeadline'
  BY DEF TypeOK, Quiet, Accounted, ResultsComplete, RequestsMeetDeadline, Done, NewBody
<1> QED
  BY <1>1, <1>2, SilentStep

LEMMA ScrapeAllInv == ASSUME Inv, NEW r \in Reqs, ScrapeAll(r) PROVE Inv'
<1> USE DEF Inv, ScrapeAll, shared, polls
<1>1. TypeOK'
  BY SilentStep, PrunedTyped DEF TypeOK, Quiet
<1>2. Quiet' /\ Accounted' /\ ResultsComplete' /\ RequestsMeetDeadline'
  BY DEF TypeOK, Quiet, Accounted, ResultsComplete, RequestsMeetDeadline, Done, NewBody
<1> QED
  BY <1>1, <1>2, SilentStep

LEMMA StartScrapeInv == ASSUME Inv, NEW r \in Reqs, StartScrape(r) PROVE Inv'
<1> PICK v \in queue[r] : /\ queue' = [queue EXCEPT ![r] = @ \ {v}]
                          /\ busy' = [busy EXCEPT ![r] = @ \cup {v}]
  BY DEF StartScrape
<1> USE DEF Inv, StartScrape, shared, polls
<1>1. TypeOK'
  BY SilentStep DEF TypeOK
<1>2. Quiet' /\ Accounted' /\ ResultsComplete' /\ RequestsMeetDeadline'
  BY DEF TypeOK, Quiet, Accounted, ResultsComplete, RequestsMeetDeadline, Done, NewBody
<1> QED
  BY <1>1, <1>2, SilentStep

\* A result moves a target of a request to those that are done.
LEMMA RecordEffect ==
    ASSUME TypeOK, NEW r \in Reqs, NEW v \in VMs, NEW res \in {"ok", "fail"}, Record(r, v, res)
    PROVE  /\ results' \in [Reqs -> [VMs -> {"none", "ok", "fail"}]]
           /\ status' \in [VMs -> {"none", "up", "stale", "down"}]
           /\ Done(r)' = Done(r) \cup {v}
           /\ \A q \in Reqs \ {r} : results'[q] = results[q]
  BY DEF TypeOK, Record, Done

LEMMA SkipTargetInv == ASSUME Inv, NEW r \in Reqs, SkipTarget(r) PROVE Inv'
<1> PICK v \in queue[r] : queue' = [queue EXCEPT ![r] = @ \ {v}] /\ Record(r, v, "fail")
  BY DEF SkipTarget
<1> USE DEF Inv, SkipTarget, polls
<1>1. v \in VMs
  BY DEF TypeOK
<1>2. /\ results' \in [Reqs -> [VMs -> {"none", "ok", "fail"}]]
      /\ status' \in [VMs -> {"none", "up", "stale", "down"}]
      /\ Done(r)' = Done(r) \cup {v}
      /\ \A q \in Reqs \ {r} : Done(q)' = Done(q)
  BY <1>1, RecordEffect DEF Done
<1>3. TypeOK'
  BY <1>1, <1>2, SilentStep DEF TypeOK
<1>4. Quiet' /\ Accounted' /\ RequestsMeetDeadline'
  BY <1>1, <1>2 DEF TypeOK, Quiet, Accounted, RequestsMeetDeadline
<1>5. ResultsComplete'
  <2> SUFFICES ASSUME NEW q \in Reqs, mpc[q] = "store"
               PROVE  NewBody(q)' = NewBody(q) /\ tgts' = tgts
    BY DEF ResultsComplete
  <2>1. q # r /\ tgts' = tgts
    OBVIOUS
  <2>2. results'[q] = results[q]
    BY <1>1, <2>1, RecordEffect
  <2> QED
    BY <2>1, <2>2 DEF NewBody
<1> QED
  BY <1>3, <1>4, <1>5, SilentStep

LEMMA FinishScrapeInv == ASSUME Inv, NEW r \in Reqs, FinishScrape(r) PROVE Inv'
<1> PICK v \in busy[r], res \in {"ok", "fail"} :
        /\ busy' = [busy EXCEPT ![r] = @ \ {v}]
        /\ spent' = [spent EXCEPT ![r][v] = 0]
        /\ Record(r, v, res)
  BY DEF FinishScrape
<1> USE DEF Inv, FinishScrape, polls
<1>1. v \in VMs
  BY DEF TypeOK
<1>2. /\ results' \in [Reqs -> [VMs -> {"none", "ok", "fail"}]]
      /\ status' \in [VMs -> {"none", "up", "stale", "down"}]
      /\ Done(r)' = Done(r) \cup {v}
      /\ \A q \in Reqs \ {r} : Done(q)' = Done(q)
  BY <1>1, RecordEffect DEF Done
<1>3. TypeOK'
  <2>1. spent' \in [Reqs -> [VMs -> 0..ScrapeTimeout]]
    BY <1>1 DEF TypeOK
  <2> QED
    BY <1>1, <1>2, <2>1, SilentStep DEF TypeOK
<1>4. Quiet' /\ Accounted' /\ RequestsMeetDeadline'
  BY <1>1, <1>2 DEF TypeOK, Quiet, Accounted, RequestsMeetDeadline
<1>5. ResultsComplete'
  <2> SUFFICES ASSUME NEW q \in Reqs, mpc[q] = "store"
               PROVE  NewBody(q)' = NewBody(q) /\ tgts' = tgts
    BY DEF ResultsComplete
  <2>1. q # r /\ tgts' = tgts
    OBVIOUS
  <2>2. results'[q] = results[q]
    BY <1>1, <2>1, RecordEffect
  <2> QED
    BY <2>1, <2>2 DEF NewBody
<1> QED
  BY <1>3, <1>4, <1>5, SilentStep

\* A handler that returns leaves nothing behind and does not touch the others.
LEMMA ReturnStep ==
    ASSUME Inv, NEW r \in Reqs, queue[r] = {}, busy[r] = {}, Return(r),
           UNCHANGED <<queue, busy, spent, polls>>
    PROVE  /\ mpc' \in [Reqs -> {"idle", "targets", "prune", "scrape", "store"}]
           /\ clock' \in [Reqs -> Nat] /\ gone' \in [Reqs -> BOOLEAN]
           /\ tgts' \in [Reqs -> SUBSET VMs]
           /\ \A q \in Reqs : /\ queue'[q] \subseteq tgts'[q]
                              /\ busy'[q] \subseteq tgts'[q] \ queue'[q]
           /\ results' \in [Reqs -> [VMs -> {"none", "ok", "fail"}]]
           /\ Quiet' /\ Accounted' /\ ResultsComplete' /\ RequestsMeetDeadline'
<1> USE DEF Inv, TypeOK, Return
<1>1. /\ mpc' \in [Reqs -> {"idle", "targets", "prune", "scrape", "store"}]
      /\ clock' \in [Reqs -> Nat] /\ gone' \in [Reqs -> BOOLEAN]
      /\ tgts' \in [Reqs -> SUBSET VMs]
      /\ \A q \in Reqs : queue'[q] \subseteq tgts'[q] /\ busy'[q] \subseteq tgts'[q] \ queue'[q]
      /\ results' \in [Reqs -> [VMs -> {"none", "ok", "fail"}]]
  OBVIOUS
<1>2. Done(r)' = {} /\ \A q \in Reqs \ {r} : Done(q)' = Done(q) /\ NewBody(q)' = NewBody(q)
  BY DEF Done, NewBody
<1>3. Quiet' /\ Accounted'
  BY <1>2 DEF Quiet, Accounted
<1>4. ResultsComplete'
  BY <1>2 DEF ResultsComplete
<1>5. RequestsMeetDeadline'
  BY DEF RequestsMeetDeadline
<1> QED
  BY <1>1, <1>3, <1>4, <1>5

LEMMA EncodeErrorInv == ASSUME Inv, NEW r \in Reqs, EncodeError(r) PROVE Inv'
<1> USE DEF Inv, EncodeError, AllDone, shared, polls
<1>1. CachedIsFresh' /\ Stamped'
      /\ answer' \in [kind : {"none", "cached", "live", "error"}, body : Body, sampled : Nat]
  BY SilenceTyped DEF CachedIsFresh, Stamped, Silence
<1>2. TypeOK'
  BY <1>1, ReturnStep DEF TypeOK
<1> QED
  BY <1>1, <1>2, ReturnStep

LEMMA EncodeInv == ASSUME Inv, NEW r \in Reqs, Encode(r) PROVE Inv'
<1> USE DEF Inv, Encode, AllDone, shared, polls
<1>1. TypeOK'
  BY SilentStep DEF TypeOK
<1>2. Quiet' /\ Accounted' /\ RequestsMeetDeadline'
  BY DEF TypeOK, Quiet, Accounted, RequestsMeetDeadline, Done
<1>3. ResultsComplete'
  <2>1. tgts[r] = Done(r)
    BY DEF Accounted
  <2>2. NewBody(r).of = tgts[r] /\ tgts[r] # {}
    BY <2>1 DEF Done, NewBody
  <2> QED
    BY <2>2 DEF ResultsComplete, NewBody, TypeOK
<1> QED
  BY <1>1, <1>2, <1>3, SilentStep

LEMMA StoreInv == ASSUME Inv, NEW r \in Reqs, Store(r) PROVE Inv'
<1> USE DEF Inv, Store, polls
<1>1. queue[r] = {} /\ busy[r] = {}
  BY DEF Quiet
<1>2. clock[r] \in Nat /\ Atmost(clock[r], CacheTTL) \in 0..CacheTTL
  BY DEF TypeOK, Atmost
<1>3. cache' \in [body : Body, age : 0..CacheTTL, sampled : 0..CacheTTL] /\ Stamped'
  BY <1>2, NewBodyTyped DEF Stored, Stamped
<1>4. answer' \in [kind : {"none", "cached", "live", "error"}, body : Body, sampled : Nat]
      /\ answer'.kind # "cached"
  BY <1>2, NewBodyTyped, SilenceTyped
<1>5. TypeOK'
  BY <1>1, <1>3, <1>4, ReturnStep DEF TypeOK
<1> QED
  BY <1>1, <1>3, <1>4, <1>5, ReturnStep DEF CachedIsFresh

LEMMA DisconnectInv == ASSUME Inv, NEW r \in Reqs, Disconnect(r) PROVE Inv'
<1> USE DEF Inv, Disconnect, shared, polls
<1>1. TypeOK'
  BY SilentStep DEF TypeOK
<1>2. Quiet' /\ Accounted' /\ ResultsComplete' /\ RequestsMeetDeadline'
  BY DEF TypeOK, Quiet, Accounted, ResultsComplete, RequestsMeetDeadline, Done, NewBody
<1> QED
  BY <1>1, <1>2, SilentStep

LEMMA PollInv == ASSUME Inv, NEW p \in Polls, Poll(p) PROVE Inv'
<1>1. Silent /\ UNCHANGED cache /\ UNCHANGED requests /\ UNCHANGED targets
  BY DEF Poll, PollTargets, PollPrune, GetStatus, shared
<1>2. TypeOK'
  <2> USE DEF Inv, requests
  <2>1. CASE PollTargets(p)
    BY <1>1, <2>1, SilentStep DEF TypeOK, PollTargets, shared
  <2>2. CASE PollPrune(p)
    BY <1>1, <2>2, SilentStep, PrunedTyped DEF TypeOK, PollPrune
  <2>3. CASE GetStatus(p)
    BY <1>1, <2>3, SilentStep DEF TypeOK, GetStatus, shared
  <2> QED
    BY <2>1, <2>2, <2>3 DEF Poll
<1>3. Quiet' /\ Accounted' /\ ResultsComplete' /\ RequestsMeetDeadline'
  BY <1>1 DEF Inv, requests, Quiet, Accounted, ResultsComplete, RequestsMeetDeadline, Done, NewBody
<1> QED
  BY <1>1, <1>2, <1>3, SilentStep DEF Inv

LEMMA SetTargetsInv == ASSUME Inv, SetTargets PROVE Inv'
<1> USE DEF Inv, SetTargets, requests, polls
<1>1. TypeOK'
  BY SilentStep DEF TypeOK
<1>2. Quiet' /\ Accounted' /\ ResultsComplete' /\ RequestsMeetDeadline'
  BY DEF Quiet, Accounted, ResultsComplete, RequestsMeetDeadline, Done, NewBody
<1> QED
  BY <1>1, <1>2, SilentStep

\* Time passes only while no deadline has been reached.
LEMMA TickInv == ASSUME Inv, Tick PROVE Inv'
<1> USE DEF Inv, Tick, polls
<1>1. ASSUME NEW r \in Reqs, mpc[r] # "idle"
      PROVE  clock[r] < RequestTimeout /\ \A v \in busy[r] : spent[r][v] < ScrapeTimeout
  <2>1. Waiting(r) /\ busy[r] # {} /\ \A v \in busy[r] : ~ScrapeExpired(r, v)
    BY <1>1 DEF Waiting
  <2>2. \A v \in busy[r] : v \in VMs /\ spent[r][v] \in 0..ScrapeTimeout /\ clock[r] \in Nat
    BY DEF TypeOK
  <2> QED
    BY <2>1, <2>2 DEF ScrapeExpired, CtxDone
<1>2. clock' \in [Reqs -> Nat] /\ RequestsMeetDeadline'
  BY <1>1 DEF TypeOK, RequestsMeetDeadline
<1>3. spent' \in [Reqs -> [VMs -> 0..ScrapeTimeout]]
  <2> SUFFICES ASSUME NEW r \in Reqs, NEW v \in busy[r] PROVE spent[r][v] + 1 \in 0..ScrapeTimeout
    BY DEF TypeOK
  <2>1. mpc[r] # "idle"
    BY DEF Quiet
  <2> QED
    BY <1>1, <2>1 DEF TypeOK
<1>4. cache' \in [body : Body, age : 0..CacheTTL, sampled : 0..CacheTTL] /\ Stamped'
  <2>1. /\ cache.body \in Body /\ cache.age \in 0..CacheTTL /\ cache.sampled = cache.age
        /\ cache = [body |-> cache.body, age |-> cache.age, sampled |-> cache.sampled]
    BY DEF TypeOK, Stamped
  <2>2. Atmost(cache.age + 1, CacheTTL) \in 0..CacheTTL
    BY <2>1 DEF Atmost
  <2>3. cache' = [body |-> cache.body, age |-> Atmost(cache.age + 1, CacheTTL),
                  sampled |-> Atmost(cache.age + 1, CacheTTL)]
    BY <2>1
  <2> QED
    BY <2>1, <2>2, <2>3 DEF Stamped
<1>5. answer' = Silence
  BY DEF Silent
<1>6. TypeOK' /\ CachedIsFresh'
  BY <1>2, <1>3, <1>4, <1>5, SilenceTyped DEF TypeOK, CachedIsFresh
<1>7. Quiet' /\ Accounted' /\ ResultsComplete'
  BY DEF Quiet, Accounted, ResultsComplete, Done, NewBody
<1> QED
  BY <1>2, <1>4, <1>6, <1>7

LEMMA StutterInv == ASSUME Inv, UNCHANGED vars PROVE Inv'
  BY DEF Inv, vars, shared, requests, polls, TypeOK, Quiet, Accounted, Stamped,
         ResultsComplete, CachedIsFresh, RequestsMeetDeadline, Done, NewBody

LEMMA StepInv == Inv /\ [Next]_vars => Inv'
<1> SUFFICES ASSUME Inv, [Next]_vars PROVE Inv'
  OBVIOUS
<1>1. ASSUME NEW r \in Reqs, Handle(r) PROVE Inv'
  BY <1>1, ReadTargetsInv, ScrapeAllInv, StartScrapeInv, SkipTargetInv, FinishScrapeInv,
     EncodeErrorInv, EncodeInv, StoreInv DEF Handle
<1>2. ASSUME NEW r \in Reqs, ServeCached(r) \/ StartLive(r) \/ Disconnect(r) PROVE Inv'
  BY <1>2, ServeCachedInv, StartLiveInv, DisconnectInv
<1>3. ASSUME NEW p \in Polls, Poll(p) PROVE Inv'
  BY <1>3, PollInv
<1>4. CASE SetTargets \/ Tick \/ UNCHANGED vars
  BY <1>4, SetTargetsInv, TickInv, StutterInv
<1> QED
  BY <1>1, <1>2, <1>3, <1>4 DEF Next

LEMMA Invariance == Spec => []Inv
  BY InitInv, StepInv, PTL DEF Spec

-----------------------------------------------------------------------------

\* The shared state and the locals of all handlers stay typed; in particular a
\* worker's target comes from its own request's snapshot (handleMetrics, ScrapeAll).
THEOREM TypeCorrect == Spec => []TypeOK
<1>1. Inv => TypeOK
  BY DEF Inv
<1> QED
  BY <1>1, Invariance, PTL

\* ScrapeAll has a result for every target of its snapshot when it returns, for any
\* number of workers and whatever ends first: the scrapes, the deadline, the client.
THEOREM CompleteResults == Spec => []ResultsComplete
<1>1. Inv => ResultsComplete
  BY DEF Inv
<1> QED
  BY <1>1, Invariance, PTL

\* No answer from the cache of handleMetrics contains a sample older than cacheTTL.
THEOREM FreshAnswers == Spec => []CachedIsFresh
<1>1. Inv => CachedIsFresh
  BY DEF Inv
<1> QED
  BY <1>1, Invariance, PTL

\* No live scrape of handleMetrics takes longer than the request's timeout.
THEOREM Deadlines == Spec => []RequestsMeetDeadline
<1>1. Inv => RequestsMeetDeadline
  BY DEF Inv
<1> QED
  BY <1>1, Invariance, PTL
-----------------------------------------------------------------------------
(* Fault isolation.  While targets wait in the channel, every worker is    *)
(* busy with a guest that hangs, and no guest is scraped twice: after k    *)
(* rounds of ScrapeTimeout, at least k * Workers of them are over or in    *)
(* their last round, so the guests that hang bound the time others wait.   *)

\* The guests that hang and have their result, and the scrapes in flight that began
\* when the round had not yet, `rem` ago.
HangDone(r) == {v \in Hanging : results[r][v] # "none"}
Old(r, rem) == {v \in busy[r] : spent[r][v] >= rem}

\* The longest that a target can wait for a worker.
Delay == (Cardinality(Hanging) \div Workers) * ScrapeTimeout

\* Only a guest that hangs makes time pass, and only during ScrapeAll.
SpentHanging(r) == \A v \in VMs : spent[r][v] > 0 => v \in busy[r] /\ v \in Hanging
Early(r) == mpc[r] \in {"idle", "targets", "prune"} => clock[r] = 0

\* The handler is in round p + 1, and the rounds so far have used up their guests.
Round(r, p) ==
    /\ p * ScrapeTimeout < clock[r] /\ clock[r] <= (p + 1) * ScrapeTimeout
    /\ Workers * (p + 1) <=
         Cardinality(HangDone(r)) + Cardinality(Old(r, clock[r] - p * ScrapeTimeout))

Rounds(r) == mpc[r] = "scrape" /\ queue[r] # {} /\ clock[r] > 0 => \E p \in Nat : Round(r, p)

\* A worker has taken a guest that does not hang in time.
InTime(r) == mpc[r] = "scrape" /\ ~(busy[r] \subseteq Hanging) => clock[r] <= Delay

\* No result blames a guest that always answers.
NoBlame(r) ==
    Delay < RequestTimeout /\ ~gone[r] =>
        \A v \in VMs : Answers[v] = {"ok"} => results[r][v] # "fail"

Isolated(r) == SpentHanging(r) /\ Early(r) /\ Rounds(r) /\ InTime(r) /\ NoBlame(r)
Isolation == (\A r \in Reqs : Isolated(r)) /\ FaultIsolation

LEMMA Multiply ==
    ASSUME NEW a \in Nat, NEW b \in Nat, NEW s \in Nat, a <= b
    PROVE  a * s <= b * s
  OBVIOUS

LEMMA Distribute ==
    ASSUME NEW a \in Nat, NEW s \in Nat
    PROVE  (a + 1) * s = a * s + s /\ s * (a + 1) = s * a + s /\ a * s \in Nat
  OBVIOUS

LEMMA Divide ==
    ASSUME NEW n \in Nat, NEW w \in Nat \ {0}, NEW k \in Nat, w * k <= n
    PROVE  k <= n \div w /\ n \div w \in Nat
<1> DEFINE q == n \div w
<1>1. q \in Nat /\ n < w * (q + 1)
  OBVIOUS
<1>2. ASSUME q + 1 <= k PROVE FALSE
  <2>1. (q + 1) * w <= k * w
    BY <1>1, <1>2, Multiply
  <2> QED
    BY <1>1, <2>1
<1> QED
  BY <1>1, <1>2

LEMMA Counted ==
    ASSUME Inv, NEW r \in Reqs
    PROVE  /\ IsFiniteSet(Hanging) /\ Cardinality(Hanging) \in Nat
           /\ IsFiniteSet(busy[r]) /\ Cardinality(busy[r]) \in Nat
           /\ IsFiniteSet(HangDone(r)) /\ Cardinality(HangDone(r)) \in Nat
           /\ \A rem : IsFiniteSet(Old(r, rem)) /\ Cardinality(Old(r, rem)) \in Nat
           /\ Delay \in Nat
<1>1. /\ Hanging \in SUBSET VMs /\ busy[r] \in SUBSET VMs
      /\ HangDone(r) \in SUBSET VMs /\ \A rem : Old(r, rem) \in SUBSET VMs
  BY DEF Inv, TypeOK, Hanging, HangDone, Old
<1>2. \A S \in SUBSET VMs : IsFiniteSet(S) /\ Cardinality(S) \in Nat
  BY VMsAssumption, FS_Subset, FS_CardinalityType
<1>3. Cardinality(Hanging) \div Workers \in Nat
  BY <1>1, <1>2
<1>4. Delay \in Nat
  BY <1>3 DEF Delay
<1> QED
  BY <1>1, <1>2, <1>4

LEMMA RoundBegun ==
    ASSUME Inv, NEW r \in Reqs, NEW p \in Nat, Round(r, p)
    PROVE  clock[r] - p * ScrapeTimeout \in Int /\ clock[r] - p * ScrapeTimeout > 0
<1>1. p * ScrapeTimeout \in Nat /\ clock[r] \in Nat
  BY DEF Inv, TypeOK
<1> QED
  BY <1>1 DEF Round

\* The rounds that have been used up are no more than the guests that hang allow.
LEMMA RoundInTime ==
    ASSUME Inv, NEW r \in Reqs, SpentHanging(r), mpc[r] = "scrape", NEW p \in Nat, Round(r, p)
    PROVE  clock[r] <= Delay
<1> DEFINE rem == clock[r] - p * ScrapeTimeout
           D == HangDone(r)
           O == Old(r, rem)
<1>1. clock[r] \in Nat /\ rem > 0 /\ rem \in Int
  <2>1. p * ScrapeTimeout \in Nat
    OBVIOUS
  <2> QED
    BY <2>1 DEF Round, Inv, TypeOK
<1>2. D \subseteq Hanging /\ O \subseteq Hanging /\ D \cap O = {}
  <2>1. \A v \in O : v \in VMs /\ v \in busy[r] /\ spent[r][v] > 0
    BY <1>1 DEF Old, Inv, TypeOK
  <2>2. O \subseteq Hanging
    BY <2>1 DEF SpentHanging
  <2>3. busy[r] \cap Done(r) = {}
    BY DEF Inv, Accounted
  <2> QED
    BY <2>1, <2>2, <2>3 DEF HangDone, Done, Hanging
<1>3. Cardinality(D) + Cardinality(O) <= Cardinality(Hanging)
  <2> HIDE DEF D, O
  <2>1. IsFiniteSet(Hanging) /\ Cardinality(Hanging) \in Nat
    BY Counted
  <2>2. IsFiniteSet(D) /\ IsFiniteSet(O) /\ Cardinality(D) \in Nat /\ Cardinality(O) \in Nat
    BY Counted DEF D, O
  <2>3. Cardinality(D \cup O) = Cardinality(D) + Cardinality(O) - Cardinality({})
    BY <1>2, <2>2, FS_Union
  <2>4. Cardinality(D \cup O) <= Cardinality(Hanging)
    BY <1>2, <2>1, FS_Subset
  <2> QED
    BY <2>2, <2>3, <2>4, FS_EmptySet
<1>4. Workers * (p + 1) <= Cardinality(Hanging)
  <2>1. /\ Cardinality(D) \in Nat /\ Cardinality(O) \in Nat /\ Cardinality(Hanging) \in Nat
    BY Counted
  <2>2. Workers * (p + 1) <= Cardinality(D) + Cardinality(O) /\ Workers * (p + 1) \in Nat
    BY DEF Round
  <2> QED
    BY <1>3, <2>1, <2>2
<1>5. /\ p + 1 <= Cardinality(Hanging) \div Workers
      /\ Cardinality(Hanging) \div Workers \in Nat
  <2>1. Cardinality(Hanging) \in Nat /\ p + 1 \in Nat
    BY Counted
  <2> QED
    BY <1>4, <2>1, Divide
<1>6. (p + 1) * ScrapeTimeout <= Delay
  <2>1. p + 1 \in Nat /\ ScrapeTimeout \in Nat
    OBVIOUS
  <2> QED
    BY <1>5, <2>1, Multiply DEF Delay
<1>7. clock[r] <= (p + 1) * ScrapeTimeout /\ (p + 1) * ScrapeTimeout \in Nat
  BY DEF Round
<1>8. Delay \in Nat
  BY Counted
<1> HIDE DEF rem, D, O
<1> QED
  BY <1>1, <1>6, <1>7, <1>8


\* A target waits in the channel no longer than Delay.
LEMMA QueueInTime ==
    ASSUME Inv, NEW r \in Reqs, Isolated(r), mpc[r] = "scrape", queue[r] # {}
    PROVE  clock[r] <= Delay
<1>1. CASE clock[r] > 0
  BY <1>1, RoundInTime DEF Isolated, Rounds
<1>2. CASE clock[r] = 0
  BY <1>2, Counted
<1> QED
  BY <1>1, <1>2 DEF Inv, TypeOK

LEMMA InitIsolation == Init => Isolation
  BY DEF Init, Isolation, Isolated, SpentHanging, Early, Rounds, InTime, NoBlame, FaultIsolation, Silence

\* A handler that a step does not touch stays isolated.
Same(r) ==
    /\ mpc'[r] = mpc[r] /\ clock'[r] = clock[r] /\ gone'[r] = gone[r] /\ queue'[r] = queue[r]
    /\ busy'[r] = busy[r] /\ spent'[r] = spent[r] /\ results'[r] = results[r]

LEMMA SameIsolated ==
    ASSUME NEW r \in Reqs, Isolated(r), Same(r)
    PROVE  Isolated(r)'
<1>1. HangDone(r)' = HangDone(r) /\ \A rem : Old(r, rem)' = Old(r, rem)
  BY DEF Same, HangDone, Old
<1>2. Rounds(r)'
  BY <1>1 DEF Same, Isolated, Rounds, Round
<1> QED
  BY <1>2 DEF Same, Isolated, SpentHanging, Early, InTime, NoBlame

LEMMA OneHandler ==
    ASSUME Isolation, NEW r \in Reqs, \A q \in Reqs \ {r} : Same(q), Isolated(r)', FaultIsolation'
    PROVE  Isolation'
  BY SameIsolated DEF Isolation

LEMMA SilentIsolated == Silent => FaultIsolation'
  BY DEF Silent, Silence, FaultIsolation

\* Before ScrapeAll has begun, and after it, nothing is in a worker or in the channel.
LEMMA BeginsIsolated ==
    ASSUME Inv, Isolation, NEW r \in Reqs, ReadTargets(r) \/ StartLive(r) \/ ScrapeAll(r)
    PROVE  Isolation'
<1>1. /\ Silent /\ \A q \in Reqs \ {r} : Same(q)
      /\ mpc[r] \in {"idle", "targets", "prune"} /\ mpc'[r] \in {"targets", "prune", "scrape"}
      /\ UNCHANGED <<clock, gone, busy, spent, results>>
  BY DEF Inv, TypeOK, ReadTargets, StartLive, ScrapeAll, Same
<1>2. clock[r] = 0 /\ busy[r] = {}
  BY <1>1 DEF Isolation, Isolated, Early, Inv, Quiet
<1>3. Isolated(r)'
  BY <1>1, <1>2 DEF Isolation, Isolated, SpentHanging, Early, Rounds, InTime, NoBlame
<1> QED
  BY <1>1, <1>3, OneHandler, SilentIsolated

LEMMA EncodeIsolated ==
    ASSUME Inv, Isolation, NEW r \in Reqs, Encode(r) \/ Disconnect(r)
    PROVE  Isolation'
<1>1. /\ Silent /\ \A q \in Reqs \ {r} : Same(q)
      /\ UNCHANGED <<clock, busy, spent, results, queue>>
      /\ mpc'[r] = mpc[r] \/ mpc'[r] = "store"
      /\ ~gone'[r] => ~gone[r]
  BY DEF Inv, TypeOK, Encode, Disconnect, Same, shared
<1>2. HangDone(r)' = HangDone(r) /\ \A rem : Old(r, rem)' = Old(r, rem)
  BY <1>1 DEF HangDone, Old
<1>3. Isolated(r)'
  BY <1>1, <1>2 DEF Isolation, Isolated, SpentHanging, Early, Rounds, Round, InTime, NoBlame
<1> QED
  BY <1>1, <1>3, OneHandler, SilentIsolated

\* A handler that returns starts anew.
LEMMA ReturnIsolated ==
    ASSUME Inv, Isolation, NEW r \in Reqs, queue[r] = {}, busy[r] = {}, Return(r),
           UNCHANGED <<queue, busy, spent>>
    PROVE  Isolated(r)' /\ \A q \in Reqs \ {r} : Same(q)
<1>1. /\ mpc'[r] = "idle" /\ clock'[r] = 0 /\ results'[r] = [v \in VMs |-> "none"]
      /\ \A q \in Reqs \ {r} : Same(q)
  BY DEF Inv, TypeOK, Return, Same
<1> QED
  BY <1>1 DEF Isolation, Isolated, SpentHanging, Early, Rounds, InTime, NoBlame

\* A client that still waits gets what no guest was blamed for.
LEMMA StoreIsolated == ASSUME Inv, Isolation, NEW r \in Reqs, Store(r) PROVE Isolation'
<1>1. queue[r] = {} /\ busy[r] = {}
  BY DEF Store, Inv, Quiet
<1>2. FaultIsolation'
  <2> SUFFICES ASSUME ~gone[r], Delay < RequestTimeout,
                      NEW v \in NewBody(r).of, Answers[v] = {"ok"}
               PROVE  v \in NewBody(r).ok
    BY DEF Store, Silence, FaultIsolation, Delay
  <2>1. v \in tgts[r] /\ v \in VMs /\ results[r][v] \in {"none", "ok", "fail"} /\ results[r][v] # "none"
    BY DEF NewBody, Inv, TypeOK
  <2>2. results[r][v] # "fail"
    BY <2>1 DEF Isolation, Isolated, NoBlame
  <2> QED
    BY <2>1, <2>2 DEF NewBody
<1> QED
  BY <1>1, <1>2, ReturnIsolated, OneHandler DEF Store

LEMMA EncodeErrorIsolated == ASSUME Inv, Isolation, NEW r \in Reqs, EncodeError(r) PROVE Isolation'
<1>1. queue[r] = {} /\ busy[r] = {} /\ FaultIsolation'
  BY DEF EncodeError, AllDone, Silence, FaultIsolation
<1> QED
  BY <1>1, ReturnIsolated, OneHandler DEF EncodeError

\* A worker that takes a target is not in a scrape that counts.
LEMMA StartScrapeIsolated == ASSUME Inv, Isolation, NEW r \in Reqs, StartScrape(r) PROVE Isolation'
<1> PICK v \in queue[r] : /\ queue' = [queue EXCEPT ![r] = @ \ {v}]
                          /\ busy' = [busy EXCEPT ![r] = @ \cup {v}]
  BY DEF StartScrape
<1>1. /\ Silent /\ \A q \in Reqs \ {r} : Same(q)
      /\ UNCHANGED <<mpc, clock, gone, spent, results>>
      /\ queue'[r] = queue[r] \ {v} /\ busy'[r] = busy[r] \cup {v} /\ mpc[r] = "scrape"
  BY DEF Inv, TypeOK, StartScrape, Same
<1>2. v \in VMs /\ v \notin busy[r] /\ spent[r][v] \in Nat
  BY DEF Inv, TypeOK
<1>3. spent[r][v] = 0
  BY <1>2 DEF Isolation, Isolated, SpentHanging
<1>4. HangDone(r)' = HangDone(r)
  BY <1>1 DEF HangDone
<1>4a. \A rem \in Int : rem > 0 => Old(r, rem)' = Old(r, rem)
  BY <1>1, <1>3 DEF Old
<1>5. ASSUME NEW p \in Nat, Round(r, p) PROVE Round(r, p)'
  <2>1. clock[r] - p * ScrapeTimeout \in Int /\ clock[r] - p * ScrapeTimeout > 0
    BY <1>5, RoundBegun
  <2>2. Old(r, clock[r] - p * ScrapeTimeout)' = Old(r, clock[r] - p * ScrapeTimeout)
    BY <1>1, <1>4a, <2>1 DEF Old
  <2> QED
    BY <1>1, <1>4, <1>5, <2>2 DEF Round
<1>6. Rounds(r)'
  BY <1>1, <1>5 DEF Isolation, Isolated, Rounds
<1>7. clock[r] <= Delay
  BY <1>1, QueueInTime DEF Isolation
<1>8. Isolated(r)'
  BY <1>1, <1>6, <1>7 DEF Isolation, Isolated, SpentHanging, Early, InTime, NoBlame
<1> QED
  BY <1>1, <1>8, OneHandler, SilentIsolated

\* While a target waits in the channel the request is in time: nothing is skipped.
LEMMA SkipTargetIsolated == ASSUME Inv, Isolation, NEW r \in Reqs, SkipTarget(r) PROVE Isolation'
<1> PICK v \in queue[r] : queue' = [queue EXCEPT ![r] = @ \ {v}] /\ Record(r, v, "fail")
  BY DEF SkipTarget
<1>1. v \in VMs
  BY DEF Inv, TypeOK
<1>2. /\ Done(r)' = Done(r) \cup {v}
      /\ \A q \in Reqs \ {r} : results'[q] = results[q]
  BY <1>1, RecordEffect DEF Inv
<1>3. /\ Silent /\ \A q \in Reqs \ {r} : Same(q)
      /\ UNCHANGED <<mpc, clock, gone, busy, spent>>
      /\ queue'[r] = queue[r] \ {v} /\ mpc[r] = "scrape"
  BY <1>2 DEF Inv, TypeOK, SkipTarget, Same
<1>4. ~(Delay < RequestTimeout /\ ~gone[r])
  <2>1. clock[r] <= Delay /\ clock[r] \in Nat /\ Delay \in Nat
    BY <1>3, QueueInTime, Counted DEF Isolation, Inv, TypeOK
  <2> QED
    BY <2>1 DEF SkipTarget, CtxDone
<1>5. ASSUME NEW p \in Nat, Round(r, p) PROVE Round(r, p)'
  <2> DEFINE O == Old(r, clock[r] - p * ScrapeTimeout)
  <2>1. Old(r, clock[r] - p * ScrapeTimeout)' = O
    BY <1>3 DEF Old
  <2>2. HangDone(r)' \in SUBSET VMs /\ HangDone(r) \in SUBSET HangDone(r)'
    BY <1>2 DEF HangDone, Done, Hanging
  <2>3. IsFiniteSet(HangDone(r)') /\ Cardinality(HangDone(r)) <= Cardinality(HangDone(r)')
        /\ Cardinality(HangDone(r)') \in Nat
    BY <2>2, VMsAssumption, FS_Subset, FS_CardinalityType
  <2>4. Cardinality(HangDone(r)) \in Nat /\ Cardinality(O) \in Nat /\ Workers * (p + 1) \in Nat
    BY Counted
  <2>5. Workers * (p + 1) <= Cardinality(HangDone(r)) + Cardinality(O)
    BY <1>5 DEF Round
  <2> HIDE DEF O
  <2>6. Workers * (p + 1) <= Cardinality(HangDone(r)') + Cardinality(O)
    BY <2>3, <2>4, <2>5
  <2> QED
    BY <1>3, <1>5, <2>1, <2>6 DEF Round
<1>6. Rounds(r)'
  BY <1>3, <1>5 DEF Isolation, Isolated, Rounds
<1>7. NoBlame(r)'
  BY <1>3, <1>4 DEF NoBlame, Delay, Hanging
<1>8. Isolated(r)'
  BY <1>3, <1>6, <1>7 DEF Isolation, Isolated, SpentHanging, Early, InTime
<1> QED
  BY <1>3, <1>8, OneHandler, SilentIsolated

\* A guest that hangs goes from the scrapes in flight to those that have their result;
\* one that always answers has taken no time.
LEMMA FinishScrapeIsolated == ASSUME Inv, Isolation, NEW r \in Reqs, FinishScrape(r) PROVE Isolation'
<1> PICK v \in busy[r], res \in {"ok", "fail"} :
        /\ busy' = [busy EXCEPT ![r] = @ \ {v}]
        /\ spent' = [spent EXCEPT ![r][v] = 0]
        /\ Record(r, v, res)
        /\ res = "fail" => "fail" \in Answers[v] \/ ScrapeExpired(r, v)
  BY DEF FinishScrape
<1>1. v \in VMs /\ mpc[r] = "scrape"
  BY DEF Inv, TypeOK, FinishScrape
<1>2. /\ results'[r] = [results[r] EXCEPT ![v] = res]
      /\ \A q \in Reqs \ {r} : results'[q] = results[q]
  BY <1>1, RecordEffect DEF Inv, TypeOK, Record
<1>3. /\ Silent /\ \A q \in Reqs \ {r} : Same(q)
      /\ UNCHANGED <<mpc, clock, gone, queue>>
      /\ busy'[r] = busy[r] \ {v} /\ spent'[r] = [spent[r] EXCEPT ![v] = 0]
  <2>1. Silent /\ UNCHANGED <<mpc, clock, gone, queue>>
    BY DEF FinishScrape
  <2>2. busy'[r] = busy[r] \ {v} /\ \A q \in Reqs \ {r} : busy'[q] = busy[q]
    BY DEF Inv, TypeOK
  <2>3. spent'[r] = [spent[r] EXCEPT ![v] = 0] /\ \A q \in Reqs \ {r} : spent'[q] = spent[q]
    BY DEF Inv, TypeOK
  <2> QED
    BY <1>2, <2>1, <2>2, <2>3 DEF Same
<1>4. results[r][v] = "none"
  <2>1. v \notin Done(r)
    BY <1>1 DEF Inv, Accounted
  <2> QED
    BY <1>1, <2>1 DEF Done
<1>5. spent[r] \in [VMs -> 0..ScrapeTimeout] /\ results[r] \in [VMs -> {"none", "ok", "fail"}]
  BY DEF Inv, TypeOK
<1>6. SpentHanging(r)'
  BY <1>3, <1>5 DEF Isolation, Isolated, SpentHanging
<1>6a. ASSUME NEW x PROVE Old(r, x)' = Old(r, x) \ {v}
  <2>1. \A w \in busy[r] \ {v} : spent'[r][w] = spent[r][w]
    BY <1>3, <1>5 DEF Inv, TypeOK
  <2> QED
    BY <1>3, <2>1 DEF Old
<1>7. ASSUME NEW p \in Nat, Round(r, p) PROVE Round(r, p)'
  <2> DEFINE rem == clock[r] - p * ScrapeTimeout
             D == HangDone(r)
             O == Old(r, rem)
  <2>1. rem \in Int /\ rem > 0
    BY <1>7, RoundBegun
  <2>2. Old(r, rem)' = O \ {v}
    BY <1>3, <1>6a DEF Old
  <2>3. HangDone(r)' = IF v \in Hanging THEN D \cup {v} ELSE D
    BY <1>1, <1>2, <1>5, <1>4 DEF HangDone, Hanging
  <2>4. v \notin D /\ (v \notin Hanging => v \notin O)
    <3>1. v \notin Hanging => spent[r][v] = 0
      BY <1>1, <1>5 DEF Isolation, Isolated, SpentHanging
    <3> HIDE DEF rem
    <3> QED
      BY <1>4, <2>1, <3>1 DEF HangDone, Old
  <2>5. /\ IsFiniteSet(D) /\ Cardinality(D) \in Nat
        /\ IsFiniteSet(O) /\ Cardinality(O) \in Nat
    BY Counted
  <2> HIDE DEF rem, D, O
  <2>6. /\ Cardinality(O \ {v}) = IF v \in O THEN Cardinality(O) - 1 ELSE Cardinality(O)
        /\ Cardinality(D \cup {v}) = Cardinality(D) + 1
    BY <2>4, <2>5, FS_AddElement, FS_RemoveElement
  <2>7. Cardinality(HangDone(r)') + Cardinality(O \ {v}) >= Cardinality(D) + Cardinality(O)
    BY <2>3, <2>4, <2>5, <2>6
  <2>8. /\ Workers * (p + 1) <= Cardinality(D) + Cardinality(O) /\ Workers * (p + 1) \in Nat
    BY <1>7 DEF Round, rem, D, O
  <2>9. Cardinality(HangDone(r)') \in Nat /\ Cardinality(O \ {v}) \in Nat
    BY <2>3, <2>4, <2>5, <2>6, FS_RemoveElement, FS_CardinalityType
  <2>10. Workers * (p + 1) <= Cardinality(HangDone(r)') + Cardinality(O \ {v})
    BY <2>5, <2>7, <2>8, <2>9
  <2> QED
    BY <1>3, <1>7, <2>2, <2>10 DEF Round, rem
<1>8. Rounds(r)'
  BY <1>3, <1>7 DEF Isolation, Isolated, Rounds
<1>9. NoBlame(r)'
  <2> SUFFICES ASSUME Delay < RequestTimeout, ~gone[r], NEW w \in VMs, Answers[w] = {"ok"}
               PROVE  results'[r][w] # "fail"
    BY <1>3 DEF NoBlame, Delay, Hanging
  <2>1. results[r][w] # "fail"
    BY DEF Isolation, Isolated, NoBlame
  <2>2. CASE w = v /\ res = "fail"
    <3>1. v \notin Hanging /\ "fail" \notin Answers[v]
      BY <2>2 DEF Hanging
    <3>2. spent[r][v] = 0
      BY <1>1, <1>5, <3>1 DEF Isolation, Isolated, SpentHanging
    <3>3. clock[r] <= Delay /\ clock[r] \in Nat /\ Delay \in Nat
      BY <1>1, <3>1, Counted DEF Isolation, Isolated, InTime, Inv, TypeOK
    <3>4. ~ScrapeExpired(r, v)
      BY <3>2, <3>3 DEF ScrapeExpired, CtxDone
    <3> QED
      BY <2>2, <3>1, <3>4
  <2> QED
    BY <1>2, <1>5, <2>1, <2>2
<1>10. Isolated(r)'
  BY <1>3, <1>6, <1>8, <1>9 DEF Isolation, Isolated, Early, InTime
<1> QED
  BY <1>3, <1>10, OneHandler, SilentIsolated

\* A unit of time, in a round or at the end of one: then all workers have new guests.
LEMMA RoundPasses ==
    ASSUME Inv, NEW r \in Reqs, Isolated(r), mpc[r] = "scrape", queue[r] # {},
           \A v \in busy[r] : spent[r][v] < ScrapeTimeout,
           Workers <= Cardinality(busy[r]),
           clock'[r] = clock[r] + 1, results'[r] = results[r], busy'[r] = busy[r],
           \A v \in busy[r] : spent'[r][v] = spent[r][v] + 1
    PROVE  \E p \in Nat : Round(r, p)'
<1> DEFINE D == Cardinality(HangDone(r))
<1>1. /\ clock[r] \in Nat /\ \A v \in busy[r] : spent[r][v] \in Nat
      /\ D \in Nat /\ Cardinality(busy[r]) \in Nat
  BY Counted DEF Inv, TypeOK
<1>2. HangDone(r)' = HangDone(r)
  BY DEF HangDone
<1>3. Old(r, 1)' = busy[r]
  BY <1>1 DEF Old
<1>4. \A x \in Int : Old(r, x + 1)' = Old(r, x)
  BY <1>1 DEF Old
\* The next round begins when all scrapes of this one are over.
<1>5. ASSUME NEW k \in Nat, clock[r] = k * ScrapeTimeout, Workers * k <= D
      PROVE  Round(r, k)'
  <2>1. /\ k * ScrapeTimeout < clock[r] + 1 /\ clock[r] + 1 <= (k + 1) * ScrapeTimeout
        /\ (clock[r] + 1) - k * ScrapeTimeout = 1
    <3>1. (k + 1) * ScrapeTimeout = k * ScrapeTimeout + ScrapeTimeout /\ k * ScrapeTimeout \in Nat
      BY Distribute
    <3> QED
      BY <1>1, <1>5, <3>1
  <2>2. Workers * (k + 1) = Workers * k + Workers /\ Workers * k \in Nat
    BY Distribute
  <2>3. Workers * (k + 1) <= D + Cardinality(busy[r])
    BY <1>1, <1>5, <2>2
  <2>4. Old(r, clock[r] - k * ScrapeTimeout)' = busy[r]
    BY <1>3, <2>1 DEF Old
  <2> QED
    BY <1>2, <2>1, <2>3, <2>4 DEF Round
<1>6. CASE clock[r] = 0
  BY <1>1, <1>5, <1>6
<1>7. CASE clock[r] > 0
  <2>1. PICK p \in Nat : Round(r, p)
    BY <1>7 DEF Isolated, Rounds
  <2>2. /\ (p + 1) * ScrapeTimeout = p * ScrapeTimeout + ScrapeTimeout
        /\ p * ScrapeTimeout \in Nat
    BY Distribute
  <2>3. /\ p * ScrapeTimeout < clock[r] /\ clock[r] <= (p + 1) * ScrapeTimeout
        /\ Workers * (p + 1) <= D + Cardinality(Old(r, clock[r] - p * ScrapeTimeout))
    BY <2>1 DEF Round
  <2> PICK rem \in Int : rem = clock[r] - p * ScrapeTimeout
    BY <1>1, <2>2
  <2>4. CASE clock[r] < (p + 1) * ScrapeTimeout
    <3>1. Old(r, clock[r] - p * ScrapeTimeout)' = Old(r, rem)
      <4>1. Old(r, rem + 1)' = Old(r, rem)
        BY <1>4
      <4>2. rem + 1 = clock'[r] - p * ScrapeTimeout
        BY <1>1, <2>2
      <4> QED
        BY <4>1, <4>2 DEF Old
    <3>2. p * ScrapeTimeout < clock[r] + 1 /\ clock[r] + 1 <= (p + 1) * ScrapeTimeout
      BY <1>1, <2>2, <2>3, <2>4
    <3> QED
      BY <1>2, <2>3, <3>1, <3>2 DEF Round
  <2>5. CASE clock[r] = (p + 1) * ScrapeTimeout
    <3>1. rem = ScrapeTimeout
      BY <2>2, <2>5
    <3>2. Old(r, rem) = {}
      BY <1>1, <3>1 DEF Old
    <3>3. Workers * (p + 1) <= D
      <4>1. Cardinality(Old(r, rem)) = 0
        BY <3>2, FS_EmptySet
      <4> QED
        BY <1>1, <2>3, <4>1
    <3> QED
      BY <1>5, <2>5, <3>3
  <2> QED
    BY <1>1, <2>2, <2>3, <2>4, <2>5
<1> QED
  BY <1>1, <1>6, <1>7

LEMMA TickIsolated == ASSUME Inv, Isolation, Tick PROVE Isolation'
<1>1. ASSUME NEW r \in Reqs PROVE Isolated(r)'
  <2>1. /\ UNCHANGED <<mpc, gone, queue, busy, results>>
        /\ clock'[r] = IF mpc[r] = "idle" THEN 0 ELSE clock[r] + 1
        /\ spent'[r] = [v \in VMs |-> IF v \in busy[r] THEN spent[r][v] + 1 ELSE 0]
        /\ busy[r] \subseteq VMs
    BY DEF Tick, Inv, TypeOK
  <2>2. NoBlame(r)'
    BY <2>1 DEF Isolation, Isolated, NoBlame, Delay, Hanging
  <2>3. CASE mpc[r] = "idle"
    <3>1. busy[r] = {}
      BY <2>3 DEF Inv, Quiet
    <3> QED
      BY <2>1, <2>2, <2>3, <3>1 DEF Isolated, SpentHanging, Early, Rounds, InTime
  <2>4. CASE mpc[r] # "idle"
    <3>1. /\ mpc[r] = "scrape" /\ (queue[r] = {} \/ ~IdleWorker(r))
          /\ \A v \in busy[r] : "slow" \in Answers[v] /\ ~ScrapeExpired(r, v)
      BY <2>4 DEF Tick, Waiting
    <3>2. \A v \in busy[r] : v \in Hanging /\ spent[r][v] < ScrapeTimeout
      <4>1. \A v \in busy[r] : spent[r][v] \in 0..ScrapeTimeout
        BY DEF Inv, TypeOK
      <4> QED
        BY <2>1, <3>1, <4>1 DEF Hanging, ScrapeExpired
    <3>3. SpentHanging(r)'
      BY <2>1, <3>2 DEF SpentHanging, Hanging
    <3>4. Rounds(r)'
      <4> SUFFICES ASSUME queue[r] # {} PROVE \E p \in Nat : Round(r, p)'
        BY <2>1 DEF Rounds
      <4>1. Workers <= Cardinality(busy[r])
        BY <3>1, Counted DEF IdleWorker
      <4>2. mpc[r] = "scrape"
        BY <2>4 DEF Tick, Waiting
      <4> QED
        BY <2>1, <2>4, <3>2, <4>1, <4>2, RoundPasses DEF Isolation
    <3>5. InTime(r)'
      BY <2>1, <3>2 DEF InTime, Hanging
    <3>6. Early(r)'
      BY <2>1, <2>4, <3>1 DEF Early, Tick, Waiting
    <3> QED
      BY <2>2, <3>3, <3>4, <3>5, <3>6 DEF Isolated
  <2> QED
    BY <2>3, <2>4
<1> QED
  BY <1>1, SilentIsolated DEF Tick, Isolation

\* The steps that concern no handler at work.
LEMMA ApartIsolated ==
    ASSUME Isolation, UNCHANGED requests,
           FaultIsolation'
    PROVE  Isolation'
<1>1. \A r \in Reqs : Same(r)
  BY DEF requests, Same
<1> QED
  BY <1>1, SameIsolated DEF Isolation

LEMMA StepIsolated == Inv /\ Isolation /\ [Next]_vars => Isolation'
<1> SUFFICES ASSUME Inv, Isolation, [Next]_vars PROVE Isolation'
  OBVIOUS
<1>1. ASSUME NEW r \in Reqs, Handle(r) PROVE Isolation'
  BY <1>1, BeginsIsolated, StartScrapeIsolated, SkipTargetIsolated, FinishScrapeIsolated,
     EncodeErrorIsolated, EncodeIsolated, StoreIsolated DEF Handle
<1>2. ASSUME NEW r \in Reqs, StartLive(r) \/ Disconnect(r) PROVE Isolation'
  BY <1>2, BeginsIsolated, EncodeIsolated
<1>3. ASSUME NEW r \in Reqs, ServeCached(r) PROVE Isolation'
  <2>1. FaultIsolation'
    BY <1>3 DEF ServeCached, FaultIsolation
  <2> QED
    BY <1>3, <2>1, ApartIsolated DEF ServeCached
<1>4. ASSUME NEW p \in Polls, Poll(p) PROVE Isolation'
  BY <1>4, ApartIsolated, SilentIsolated DEF Poll, PollTargets, PollPrune, GetStatus
<1>5. CASE SetTargets
  BY <1>5, ApartIsolated, SilentIsolated DEF SetTargets
<1>6. CASE Tick
  BY <1>6, TickIsolated
<1>7. CASE UNCHANGED vars
  <2>1. FaultIsolation'
    BY <1>7 DEF vars, Isolation, FaultIsolation, Hanging
  <2> QED
    BY <1>7, <2>1, ApartIsolated DEF vars
<1> QED
  BY <1>1, <1>2, <1>3, <1>4, <1>5, <1>6, <1>7 DEF Next

\* README "Fault Isolation", for any number of guests, workers and requests: unless the
\* guests that hang can keep all workers of ScrapeAll busy until the deadline, no client
\* that waits is told that a guest failed which always answers.
THEOREM GuestsIsolated == Spec => []FaultIsolation
<1>1. Isolation => FaultIsolation
  BY DEF Isolation
<1> QED
  BY <1>1, InitIsolation, StepIsolated, Invariance, PTL DEF Spec

-----------------------------------------------------------------------------
(* The end of the program.  Until it, Shutdown takes no step that          *)
(* TelemetryServer does not; no handler begins after the signal, so those  *)
(* at work are at least as old as the shutdown (Older).                    *)

Older == phase = "draining" => \A r \in Reqs : mpc[r] # "idle" => clock[r] >= waited

Promises == ResultsComplete /\ CachedIsFresh /\ RequestsMeetDeadline /\ FaultIsolation

Ending ==
    /\ phase \in {"serving", "draining", "exited"} /\ waited \in 0..ShutdownTimeout
    /\ phase = "serving" => waited = 0
    /\ phase # "exited" => Inv /\ Isolation /\ Older
    /\ Promises

LEMMA PromisesKept == Inv /\ Isolation => Promises
  BY DEF Inv, Isolation, Promises

LEMMA EndingInit == SInit => Ending
<1> SUFFICES ASSUME SInit PROVE Ending
  OBVIOUS
<1>1. Inv /\ Isolation /\ Older
  BY InitInv, InitIsolation DEF SInit, Older
<1> QED
  BY <1>1, PromisesKept, ShutdownAssumption DEF SInit, Ending

\* What goes on in handlers and around them is as before the signal.
LEMMA ProgramSteps ==
    ASSUME Accept \/ Surroundings \/ (\E r \in Reqs : ContinueRequest(r)) \/ (\E p \in Polls : ContinuePoll(p))
    PROVE  phase # "exited" /\ UNCHANGED program /\ [Next]_vars
  BY DEF Accept, Surroundings, ContinueRequest, ContinuePoll, Next, Poll

\* After the signal a handler only begins to work, or ends, as its clock says.
LEMMA HandlersAge ==
    ASSUME Inv, Older, Surroundings \/ (\E r \in Reqs : ContinueRequest(r)) \/ (\E p \in Polls : ContinuePoll(p))
    PROVE  Older'
<1>1. UNCHANGED program
  BY DEF Surroundings, ContinueRequest, ContinuePoll
<1>2. ASSUME NEW r \in Reqs, NEW q \in Reqs, Handle(q), mpc'[r] # "idle"
      PROVE  mpc[r] # "idle" /\ clock'[r] = clock[r]
  <2>1. CASE ReadTargets(q) \/ ScrapeAll(q) \/ Encode(q)
    BY <1>2, <2>1 DEF ReadTargets, ScrapeAll, AllDone, Encode, Inv, TypeOK
  <2>2. CASE StartScrape(q) \/ SkipTarget(q) \/ FinishScrape(q)
    BY <1>2, <2>2 DEF StartScrape, SkipTarget, FinishScrape
  <2>3. CASE EncodeError(q) \/ Store(q)
    BY <1>2, <2>3 DEF EncodeError, Store, Return, Inv, TypeOK
  <2> QED
    BY <1>2, <2>1, <2>2, <2>3 DEF Handle
<1>3. CASE \E q \in Reqs : ContinueRequest(q)
  BY <1>1, <1>2, <1>3 DEF ContinueRequest, Older, program
<1>4. CASE Surroundings \/ (\E p \in Polls : ContinuePoll(p))
  <2>1. UNCHANGED <<mpc, clock>>
    BY <1>4 DEF Surroundings, SetTargets, Disconnect, ContinuePoll, PollPrune, GetStatus, requests
  <2> QED
    BY <1>1, <2>1 DEF Older, program
<1> QED
  BY <1>3, <1>4

LEMMA PassOlder == ASSUME Ending, Inv, Older, Pass PROVE Older'
<1>1. waited \in Nat /\ clock \in [Reqs -> Nat]
  BY ShutdownAssumption DEF Ending, Inv, TypeOK
<1>2. CASE phase = "draining"
  <2>1. waited' = waited + 1 /\ UNCHANGED mpc /\ phase' = phase
    BY <1>2 DEF Pass, Tick
  <2>2. ASSUME NEW r \in Reqs, mpc[r] # "idle" PROVE clock'[r] >= waited + 1
    <3>1. clock'[r] = clock[r] + 1 /\ clock[r] >= waited
      BY <1>2, <2>2 DEF Pass, Tick, Older
    <3> QED
      BY <1>1, <3>1
  <2> QED
    BY <2>1, <2>2 DEF Older
<1>3. CASE phase # "draining"
  BY <1>3 DEF Pass, Older
<1> QED
  BY <1>2, <1>3

LEMMA EndingStep == Ending /\ [SNext]_all => Ending'
<1> SUFFICES ASSUME Ending, [SNext]_all PROVE Ending'
  OBVIOUS
<1>1. ASSUME phase # "exited", [Next]_vars PROVE Inv' /\ Isolation' /\ Promises'
  <2>1. Inv' /\ Isolation'
    BY <1>1, StepInv, StepIsolated DEF Ending
  <2>2. Inv' /\ Isolation' => Promises'
    BY PromisesKept, PTL
  <2> QED
    BY <2>1, <2>2
<1>2. CASE Accept \/ Surroundings \/ (\E r \in Reqs : ContinueRequest(r)) \/ (\E p \in Polls : ContinuePoll(p))
  <2>1. Inv' /\ Isolation' /\ Promises' /\ UNCHANGED program /\ phase # "exited"
    BY <1>1, <1>2, ProgramSteps
  <2>2. Older'
    <3>1. CASE Accept
      BY <2>1, <3>1 DEF Accept, Older, program
    <3>2. CASE ~Accept
      BY <1>2, <2>1, <3>2, HandlersAge DEF Ending
    <3> QED
      BY <3>1, <3>2
  <2> QED
    BY <2>1, <2>2 DEF Ending, program
<1>3. CASE Pass
  <2>1. phase # "exited" /\ Next
    BY <1>3 DEF Pass, Next
  <2>2. Inv' /\ Isolation' /\ Promises'
    BY <1>1, <2>1
  <2>3. Older'
    BY <1>3, <2>1, PassOlder DEF Ending
  <2>4. waited' \in 0..ShutdownTimeout /\ phase' = phase /\ (phase' = "serving" => waited' = 0)
    BY <1>3, ShutdownAssumption DEF Ending, Pass
  <2> QED
    BY <2>2, <2>3, <2>4 DEF Ending
<1>4. CASE Signal
  <2>1. phase = "serving" /\ phase' = "draining" /\ waited' = waited /\ UNCHANGED vars
    BY <1>4 DEF Signal
  <2>2. Inv' /\ Isolation' /\ Promises'
    BY <1>1, <2>1
  <2>3. Older'
    BY <2>1 DEF Ending, Older, Inv, TypeOK, vars, requests
  <2> QED
    BY <2>1, <2>2, <2>3 DEF Ending
<1>5. CASE Exit
  <2>1. phase' = "exited" /\ UNCHANGED <<waited, clock, answer>> /\ \A r \in Reqs : mpc'[r] = "idle"
    BY <1>5 DEF Exit, Gone
  <2>2. Promises'
    BY <2>1 DEF Ending, Promises, ResultsComplete, CachedIsFresh, RequestsMeetDeadline, FaultIsolation,
                Hanging
  <2> QED
    BY <2>1, <2>2 DEF Ending
<1>6. CASE UNCHANGED all
  <2>1. UNCHANGED vars /\ UNCHANGED program
    BY <1>6 DEF all
  <2>2. phase # "exited" => Inv' /\ Isolation' /\ Older'
    BY <1>1, <2>1 DEF Ending, Older, vars, requests, program
  <2>3. Promises'
    BY <2>1 DEF Ending, Promises, ResultsComplete, CachedIsFresh, RequestsMeetDeadline, FaultIsolation,
                Hanging, NewBody, vars, requests
  <2> QED
    BY <2>1, <2>2, <2>3 DEF Ending, program
<1> QED
  BY <1>2, <1>3, <1>4, <1>5, <1>6 DEF SNext

LEMMA EndingInvariance == SSpec => []Ending
  BY EndingInit, EndingStep, PTL DEF SSpec

\* The end of the program breaks nothing that handleMetrics promises: until it, and in what
\* has been answered by then, results are complete, cached pages fresh, deadlines met and
\* guests isolated from each other.
THEOREM KeptToTheEnd ==
    SSpec => [](ResultsComplete /\ CachedIsFresh /\ RequestsMeetDeadline /\ FaultIsolation)
<1>1. Ending => ResultsComplete /\ CachedIsFresh /\ RequestsMeetDeadline /\ FaultIsolation
  BY DEF Ending, Promises
<1> QED
  BY <1>1, EndingInvariance, PTL

\* A handler that is cut off has worked for as long as the shutdown, and no longer than a
\* request may.
LEMMA CutOff ==
    ASSUME Ending, [SNext]_all, phase' = "exited", phase # "exited", NEW r \in Reqs, mpc[r] # "idle"
    PROVE  waited = ShutdownTimeout /\ waited <= clock[r] /\ clock[r] <= RequestTimeout /\ clock[r] \in Nat
<1>1. ~(Accept \/ Surroundings \/ (\E q \in Reqs : ContinueRequest(q)) \/ (\E p \in Polls : ContinuePoll(p)))
  BY ProgramSteps DEF program
<1>2. Exit
  BY <1>1 DEF SNext, Signal, Pass, all, program
<1>3. phase = "draining" /\ waited = ShutdownTimeout
  BY <1>2 DEF Exit, Idle
<1> QED
  BY <1>3, ShutdownAssumption DEF Ending, Older, Inv, TypeOK, RequestsMeetDeadline

\* main.go:85 gives the shutdown the 10 s that server.go:125 gives a request.  That is
\* enough for every client but one whose request began with the signal and whose guests
\* hang until its deadline.
THEOREM GracefulEnd == ASSUME RequestTimeout <= ShutdownTimeout PROVE SSpec => GracefulExit
<1>1. ASSUME Ending, [SNext]_all, phase' = "exited", phase # "exited", NEW r \in Reqs, mpc[r] # "idle"
      PROVE  clock[r] = waited /\ waited = ShutdownTimeout
  BY <1>1, CutOff, ShutdownAssumption
<1>2. Ending /\ [SNext]_all =>
        [phase' = "exited" /\ phase # "exited" =>
           \A r \in Reqs : mpc[r] # "idle" /\ ~gone[r] => clock[r] = waited /\ waited = ShutdownTimeout]_all
  BY <1>1
<1> QED
  BY <1>2, EndingInvariance, PTL DEF SSpec, GracefulExit
=============================================================================
