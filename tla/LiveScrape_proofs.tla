-------------------------- MODULE LiveScrape_proofs --------------------------
(***************************************************************************)
(* A live scrape only calls the transport and collects what it returns, so *)
(* what is proved of GuestTransport holds of it (UsesTransport).  The page *)
(* then follows from an invariant of the loop that merges the results:     *)
(* combinedFamilies is well formed and holds the enriched samples of the   *)
(* results taken so far, in whatever order they are taken (Gathered).      *)
(***************************************************************************)
EXTENDS LiveScrape, GuestTransport_proofs

\* A handler of /metrics uses HTTPTransport only through GetMetrics.
THEOREM UsesTransport == LSpec => Spec
<1>1. LInit => Init
  BY DEF LInit
<1>2. ASSUME [LNext]_all PROVE [Next]_vars
  <2>1. CASE Begin
    BY <2>1 DEF Begin, Next
  <2>2. CASE Answer
    <3>1. Scraped \in SUBSET Guests
      BY DEF Scraped
    <3> QED BY <2>2, <3>1 DEF Answer, Next
  <2>3. CASE \E g \in Guests : Fetch(g)
    BY <2>3 DEF Fetch, Next
  <2>4. CASE \E g \in Guests : Merge(g)
    BY <2>4 DEF Merge
  <2>5. CASE Around
    BY <2>5 DEF Around, Next
  <2>6. CASE UNCHANGED all
    BY <2>6 DEF all
  <2> QED BY <1>2, <2>1, <2>2, <2>3, <2>4, <2>5, <2>6 DEF LNext
<1> QED BY <1>1, <1>2, PTL DEF LSpec, Spec

\* In a live scrape too, the result of a target is what this target exposes, or, without a
\* namespace, what a guest at its address exposes where a thread has strayed.
THEOREM PageOfOwnAnswers == LSpec => []OwnAnswer
  BY UsesTransport, OwnAnswers, PTL

\* In a live scrape too, each connection belongs to the client of its namespace.
THEOREM PageOfOwnConnections == LSpec => []OnePool
  BY UsesTransport, ConnectionsOwned, PTL

-----------------------------------------------------------------------------
(* Families.                                                               *)

\* A family has samples, one of them of its type, and all of them have its name.
WellFormed(f) ==
    /\ f = [n \in DOMAIN f |-> f[n]]
    /\ \A n \in DOMAIN f :
         /\ f[n] = [type |-> f[n].type, samples |-> f[n].samples]
         /\ \E s \in f[n].samples : s.type = f[n].type
         /\ \A s \in f[n].samples : s.name = n

LEMMA NoFamiliesFormed == WellFormed(NoFamilies) /\ Samples(NoFamilies) = {}
  BY DEF WellFormed, NoFamilies, Samples

\* A sample of families is a sample of one of them.
LEMMA SamplesOf ==
    ASSUME NEW F PROVE \A x : x \in Samples(F) <=> \E n \in DOMAIN F : x \in F[n].samples
  BY DEF Samples

\* The parser groups samples by name and loses none.
LEMMA FamiliesFormed ==
    ASSUME NEW S
    PROVE  WellFormed(Families(S)) /\ Samples(Families(S)) = S
<1> DEFINE F == Families(S)
<1>1. /\ DOMAIN F = {s.name : s \in S}
      /\ F = [n \in DOMAIN F |-> F[n]]
      /\ \A n \in DOMAIN F : F[n] = [type |-> (CHOOSE s \in S : s.name = n).type,
                                     samples |-> {s \in S : s.name = n}]
  BY DEF Families
<1> HIDE DEF F
<1>2. ASSUME NEW n \in DOMAIN F
      PROVE  /\ F[n] = [type |-> F[n].type, samples |-> F[n].samples]
             /\ F[n].samples = {s \in S : s.name = n}
             /\ \E s \in F[n].samples : s.type = F[n].type
  <2> DEFINE c == CHOOSE s \in S : s.name = n
  <2>1. \E s \in S : s.name = n
    BY <1>1
  <2>2. c \in S /\ c.name = n
    BY <2>1
  <2>3. F[n] = [type |-> c.type, samples |-> {s \in S : s.name = n}]
    BY <1>1
  <2> HIDE DEF c
  <2>4. F[n].type = c.type /\ F[n].samples = {s \in S : s.name = n}
    BY <2>3
  <2>5. c \in F[n].samples
    BY <2>2, <2>4
  <2> QED
    BY <2>3, <2>4, <2>5
<1>3. WellFormed(F)
  <2>1. ASSUME NEW n \in DOMAIN F, NEW s \in F[n].samples PROVE s.name = n
    BY <1>2
  <2> QED
    BY <1>1, <1>2, <2>1 DEF WellFormed
<1>4. Samples(F) = S
  <2>1. ASSUME NEW x \in S PROVE x \in Samples(F)
    <3>1. x.name \in DOMAIN F
      BY <1>1
    <3>2. x \in F[x.name].samples
      BY <1>2, <3>1
    <3> QED
      BY <3>1, <3>2, SamplesOf
  <2>2. ASSUME NEW x \in Samples(F) PROVE x \in S
    <3>1. PICK n \in DOMAIN F : x \in F[n].samples
      BY SamplesOf
    <3> QED
      BY <1>2, <3>1
  <2> QED
    BY <2>1, <2>2
<1> QED
  BY <1>3, <1>4 DEF F

\* The samples of one name in families.
SamplesAt(f, n) == IF n \in DOMAIN f THEN f[n].samples ELSE {}

\* Merging loses no sample and adds none.
LEMMA MergeFormed ==
    ASSUME NEW f, NEW g, WellFormed(f), WellFormed(g)
    PROVE  /\ WellFormed(MergeFamilies(f, g))
           /\ Samples(MergeFamilies(f, g)) = Samples(f) \cup Samples(g)
<1> DEFINE F == MergeFamilies(f, g)
<1>1. /\ DOMAIN F = DOMAIN f \cup DOMAIN g
      /\ F = [n \in DOMAIN F |-> F[n]]
  BY DEF MergeFamilies
<1>2. ASSUME NEW n \in DOMAIN F
      PROVE  /\ F[n] = [type |-> F[n].type, samples |-> F[n].samples]
             /\ \E s \in F[n].samples : s.type = F[n].type
             /\ F[n].samples = SamplesAt(f, n) \cup SamplesAt(g, n)
  <2>1. CASE n \notin DOMAIN f
    <3>1. n \in DOMAIN g /\ F[n] = g[n]
      BY <1>1, <2>1 DEF MergeFamilies
    <3> QED
      BY <2>1, <3>1 DEF WellFormed, SamplesAt
  <2>2. CASE n \in DOMAIN f /\ n \notin DOMAIN g
    <3>1. F[n] = f[n]
      BY <1>1, <2>2 DEF MergeFamilies
    <3> QED
      BY <2>2, <3>1 DEF WellFormed, SamplesAt
  <2>3. CASE n \in DOMAIN f /\ n \in DOMAIN g
    <3>1. F[n] = [f[n] EXCEPT !.samples = @ \cup g[n].samples]
      BY <1>1, <2>3 DEF MergeFamilies
    <3>2. f[n] = [type |-> f[n].type, samples |-> f[n].samples]
      BY <2>3 DEF WellFormed
    <3>3. F[n] = [type |-> f[n].type, samples |-> f[n].samples \cup g[n].samples]
      BY <3>1, <3>2
    <3>4. \E s \in f[n].samples : s.type = f[n].type
      BY <2>3 DEF WellFormed
    <3> QED
      BY <2>3, <3>3, <3>4 DEF SamplesAt
  <2> QED
    BY <1>1, <2>1, <2>2, <2>3
<1> HIDE DEF F
<1>3. WellFormed(F)
  <2>1. ASSUME NEW n \in DOMAIN F, NEW s \in F[n].samples PROVE s.name = n
    <3>1. s \in SamplesAt(f, n) \/ s \in SamplesAt(g, n)
      BY <1>2
    <3> QED
      BY <3>1 DEF WellFormed, SamplesAt
  <2> QED
    BY <1>1, <1>2, <2>1 DEF WellFormed
<1>4. Samples(F) = Samples(f) \cup Samples(g)
  <2>1. ASSUME NEW x \in Samples(F) PROVE x \in Samples(f) \cup Samples(g)
    <3>1. PICK n \in DOMAIN F : x \in F[n].samples
      BY SamplesOf
    <3>2. x \in SamplesAt(f, n) \/ x \in SamplesAt(g, n)
      BY <1>2, <3>1
    <3> QED
      BY <3>2, SamplesOf DEF SamplesAt
  <2>2. ASSUME NEW x \in Samples(f) PROVE x \in Samples(F)
    <3>1. PICK n \in DOMAIN f : x \in f[n].samples
      BY SamplesOf
    <3>2. n \in DOMAIN F /\ x \in F[n].samples
      BY <1>1, <1>2, <3>1 DEF SamplesAt
    <3> QED
      BY <3>2, SamplesOf
  <2>3. ASSUME NEW x \in Samples(g) PROVE x \in Samples(F)
    <3>1. PICK n \in DOMAIN g : x \in g[n].samples
      BY SamplesOf
    <3>2. n \in DOMAIN F /\ x \in F[n].samples
      BY <1>1, <1>2, <3>1 DEF SamplesAt
    <3> QED
      BY <3>2, SamplesOf
  <2> QED
    BY <2>1, <2>2, <2>3
<1> QED
  BY <1>3, <1>4 DEF F

-----------------------------------------------------------------------------
(* What a result holds.                                                    *)

\* A text that is not empty parses or its result has no samples, and its samples are of
\* the guest that was asked, or of one it may be taken for.
LEMMA ResultShape ==
    ASSUME OwnAnswer, NEW g \in Guests
    PROVE  /\ result[g].ok \in BOOLEAN
           /\ \E h \in Guests \cap ({g} \cup Mistaken(g)) : result[g].samples \subseteq Sample(h)
           /\ result[g].samples # {} => Parses(result[g])
<1>1. CASE result[g] = Failed
  BY <1>1, ResultsAssumption DEF Failure
<1>2. ASSUME NEW h \in Guests \cap ({g} \cup Mistaken(g)), result[g] \in Payloads[h]
      PROVE  /\ result[g].ok \in BOOLEAN
             /\ result[g].samples \subseteq Sample(h)
             /\ result[g].samples # {} => Parses(result[g])
  <2>1. /\ result[g] \in [ok : {TRUE}, clean : BOOLEAN, samples : SUBSET Sample(h)]
        /\ ~result[g].clean => result[g].samples = {}
    BY <1>2, ResultsAssumption
  <2> QED
    BY <2>1 DEF Parses
<1>3. Mistaken(g) \subseteq Guests
  BY DEF Mistaken
<1> QED
  BY <1>1, <1>2, <1>3 DEF OwnAnswer

\* Enriching a sample changes its labels and nothing else.
LEMMA EnrichKeeps ==
    ASSUME NEW g \in Guests, NEW h \in Guests, NEW s \in Sample(h)
    PROVE  /\ EnrichMetric(s, g).name = s.name
           /\ EnrichMetric(s, g).type = s.type
           /\ EnrichMetric(s, g).from = h
           /\ \A l \in MetaLabels : Meta[g][l] # "none" => EnrichMetric(s, g).labels[l] = Meta[g][l]
<1>1. s = [name |-> s.name, type |-> s.type, labels |-> s.labels, from |-> h]
  BY DEF Sample
<1>2. EnrichMetric(s, g) =
        [name |-> s.name, type |-> s.type, from |-> h,
         labels |-> [l \in MetaLabels |-> IF Meta[g][l] # "none" THEN Meta[g][l] ELSE s.labels[l]]]
  BY <1>1 DEF EnrichMetric
<1> QED
  BY <1>2

\* What the result of a target adds to the page.
Enriched(g) == {EnrichMetric(s, g) : s \in result[g].samples}

\* One turn of the loop adds the enriched samples of one result.
LEMMA TurnFormed ==
    ASSUME OwnAnswer, WellFormed(fams), NEW g \in Guests
    PROVE  /\ WellFormed(AddResult(fams, g, result[g]))
           /\ Samples(AddResult(fams, g, result[g])) = Samples(fams) \cup Enriched(g)
<1>1. CASE Parses(result[g])
  <2> DEFINE F == EnrichTargetMetrics(result[g].samples, g)
  <2>1. WellFormed(F) /\ Samples(F) = Enriched(g)
    BY FamiliesFormed DEF EnrichTargetMetrics, Enriched
  <2>2. AddResult(fams, g, result[g]) = MergeFamilies(fams, F)
    BY <1>1 DEF AddResult
  <2> HIDE DEF F
  <2> QED
    BY <2>1, <2>2, MergeFormed
<1>2. CASE ~Parses(result[g])
  <2>1. Enriched(g) = {}
    BY <1>2, ResultShape DEF Enriched
  <2> QED
    BY <1>2, <2>1 DEF AddResult
<1> QED
  BY <1>1, <1>2

-----------------------------------------------------------------------------
(* The collector's own samples.                                            *)

Success(g) == Collector("scrape_success", Meta[g], result[g].ok)
Total == Collector("targets_total", [l \in MetaLabels |-> "none"], TRUE)
Own == {Success(g) : g \in Scraped} \cup {Total}

LEMMA CollectorFormed ==
    ASSUME Scraped # {}
    PROVE  /\ WellFormed(CollectorFamilies(Results))
           /\ Samples(CollectorFamilies(Results)) = Own
<1> DEFINE C == CollectorFamilies(Results)
<1>1. /\ DOMAIN C = {"scrape_success", "targets_total"}
      /\ C = [n \in DOMAIN C |-> C[n]]
      /\ C["scrape_success"] = [type |-> "gauge", samples |-> {Success(g) : g \in Scraped}]
      /\ C["targets_total"] = [type |-> "gauge", samples |-> {Total}]
  BY DEF CollectorFamilies, Results, Success, Total
<1> HIDE DEF C
<1>2. /\ \A g : Success(g).type = "gauge" /\ Success(g).name = "scrape_success"
      /\ Total.type = "gauge" /\ Total.name = "targets_total"
  BY DEF Success, Total, Collector
<1>3. WellFormed(C)
  <2>1. ASSUME NEW n \in DOMAIN C
        PROVE  /\ C[n] = [type |-> C[n].type, samples |-> C[n].samples]
               /\ \E s \in C[n].samples : s.type = C[n].type
               /\ \A s \in C[n].samples : s.name = n
    <3>1. CASE n = "scrape_success"
      BY <1>1, <1>2, <3>1
    <3>2. CASE n = "targets_total"
      BY <1>1, <1>2, <3>2
    <3> QED
      BY <1>1, <3>1, <3>2
  <2> QED
    BY <1>1, <2>1 DEF WellFormed
<1>4. Samples(C) = Own
  <2>1. ASSUME NEW x PROVE x \in Samples(C) <=> x \in Own
    BY <1>1, SamplesOf DEF Own
  <2> QED
    BY <2>1
<1> QED
  BY <1>3, <1>4 DEF C

-----------------------------------------------------------------------------
(* The loop over the results.                                              *)

\* Results are merged when all of them are there.
MergedDone == merged \subseteq Scraped /\ (merged # {} => \A g \in Scraped : scrape[g].pc = "done")

\* combinedFamilies is what the results merged so far add to the page.
Gathered == WellFormed(fams) /\ Samples(fams) = UNION {Enriched(g) : g \in merged}

Loop == MergedDone /\ Gathered

LEMMA LoopInit == LInit => Loop
  BY NoFamiliesFormed DEF LInit, Loop, MergedDone, Gathered

\* A step before the first result is merged.
LEMMA LoopBefore ==
    ASSUME Loop, merged = {}, UNCHANGED <<merged, fams>> PROVE Loop'
  BY DEF Loop, MergedDone, Gathered, WellFormed, Samples

LEMMA LoopMerge ==
    ASSUME Loop, OwnAnswer, NEW g \in Guests, Merge(g) PROVE Loop'
<1>1. /\ g \in Scraped /\ merged' = merged \cup {g} /\ fams' = AddResult(fams, g, result[g])
      /\ UNCHANGED <<scrape, result>> /\ \A h \in Scraped : scrape[h].pc = "done"
  BY DEF Merge, AllDone, vars, calls
<1>2. MergedDone'
  BY <1>1 DEF Loop, MergedDone, Scraped
<1>3. \A h : Enriched(h)' = Enriched(h)
  BY <1>1 DEF Enriched
<1>4. WellFormed(fams') /\ Samples(fams') = Samples(fams) \cup Enriched(g)
  BY <1>1, TurnFormed DEF Loop, Gathered
<1>5. Samples(fams') = UNION {Enriched(h) : h \in merged'}
  BY <1>1, <1>4 DEF Loop, Gathered
<1>6. Gathered'
  <2>1. UNION {Enriched(h)' : h \in merged'} = UNION {Enriched(h) : h \in merged'}
    BY <1>3
  <2> QED
    BY <1>4, <1>5, <2>1 DEF Gathered, WellFormed, Samples
<1> QED
  BY <1>2, <1>6 DEF Loop

LEMMA LoopStep == Loop /\ OwnAnswer /\ [LNext]_all => Loop'
<1> SUFFICES ASSUME Loop, OwnAnswer, [LNext]_all PROVE Loop'
  OBVIOUS
<1>1. CASE Begin
  <2>1. merged = {} /\ UNCHANGED <<merged, fams>>
    BY <1>1 DEF Begin, Loop, MergedDone
  <2> QED
    BY <2>1, LoopBefore
<1>2. ASSUME NEW g \in Guests, Fetch(g) PROVE Loop'
  <2>1. scrape[g].pc \notin {"idle", "done"}
    BY <1>2 DEF Fetch, GetMetrics, Lookup, Create, Reuse, Dial, Connected, DialFails, Answered, Refused, TimedOut
  <2>2. merged = {} /\ UNCHANGED <<merged, fams>>
    BY <1>2, <2>1 DEF Fetch, Loop, MergedDone, Scraped
  <2> QED
    BY <2>2, LoopBefore
<1>3. ASSUME NEW g \in Guests, Merge(g) PROVE Loop'
  BY <1>3, LoopMerge
<1>4. CASE Answer
  <2>1. merged' = {} /\ fams' = NoFamilies
    BY <1>4 DEF Answer
  <2>2. WellFormed(fams') /\ Samples(fams') = {}
    BY <2>1, NoFamiliesFormed
  <2>3. Gathered'
    BY <2>1, <2>2 DEF Gathered, WellFormed, Samples
  <2> QED
    BY <2>1, <2>3 DEF Loop, MergedDone
<1>5. CASE Around \/ UNCHANGED all
  <2>1. UNCHANGED <<scrape, result, merged, fams>>
    BY <1>5 DEF Around, Surroundings, IdleClose, AddNetNS, Attach, DeleteNetNS, Stray, calls, all, vars
  <2>2. MergedDone'
    BY <2>1 DEF Loop, MergedDone, Scraped
  <2>3. UNION {Enriched(h)' : h \in merged'} = UNION {Enriched(h) : h \in merged}
    BY <2>1 DEF Enriched
  <2>4. Gathered'
    BY <2>1, <2>3 DEF Loop, Gathered, WellFormed, Samples
  <2> QED
    BY <2>2, <2>4 DEF Loop
<1> QED
  BY <1>1, <1>2, <1>3, <1>4, <1>5 DEF LNext

\* combinedFamilies holds the samples of the results merged so far, in any order.
THEOREM LoopInvariance == LSpec => []Loop
<1>1. LSpec => []OwnAnswer
  BY PageOfOwnAnswers
<1> QED
  BY <1>1, LoopInit, LoopStep, PTL DEF LSpec

-----------------------------------------------------------------------------
(* The page.                                                               *)

\* What the handler answers: the families of the results and its own, encoded or refused.
Combined == MergeFamilies(fams, CollectorFamilies(Results))
Expected == (UNION {Enriched(g) : g \in Scraped}) \cup Own

LEMMA Answers200 ==
    ASSUME Loop, Answer
    PROVE  /\ WellFormed(Combined) /\ Samples(Combined) = Expected
           /\ page' = IF Encodes(Combined) THEN [kind |-> "page", samples |-> Expected]
                      ELSE [kind |-> "error", samples |-> {}]
<1>1. Scraped # {} /\ merged = Scraped
  BY DEF Answer, AllDone
<1>2. WellFormed(fams) /\ Samples(fams) = UNION {Enriched(g) : g \in Scraped}
  BY <1>1 DEF Loop, Gathered
<1>3. WellFormed(Combined) /\ Samples(Combined) = Expected
  BY <1>1, <1>2, CollectorFormed, MergeFormed DEF Combined, Expected
<1>4. page' = IF Encodes(Combined) THEN [kind |-> "page", samples |-> Samples(Combined)]
              ELSE [kind |-> "error", samples |-> {}]
  BY DEF Answer, Combined
<1> QED
  BY <1>3, <1>4

\* Every other step answers nothing, or leaves the answer alone.
LEMMA NoAnswer == [LNext]_all => Answer \/ page' = NoPage \/ UNCHANGED all
  BY DEF LNext, Begin, Fetch, Merge, Around

\* A sample that comes from a guest was scraped for it, or for one it was mistaken for,
\* and enriched for that target.
LEMMA FromGuest ==
    ASSUME OwnAnswer, NEW s \in Expected, s.from # "collector"
    PROVE  \E g \in Guests : \E h \in Guests \cap ({g} \cup Mistaken(g)) :
             \E r \in Sample(h) : s = EnrichMetric(r, g)
<1>1. s \notin Own
  BY DEF Own, Success, Total, Collector
<1>2. PICK g \in Scraped : s \in Enriched(g)
  BY <1>1 DEF Expected
<1>3. g \in Guests
  BY DEF Scraped
<1>4. PICK r \in result[g].samples : s = EnrichMetric(r, g)
  BY <1>2 DEF Enriched
<1> QED
  BY <1>3, <1>4, ResultShape

\* Answering moves no guest and no thread.
LEMMA AnswerLeaves == Answer => \A g \in Guests : Mistaken(g)' = Mistaken(g)
  BY DEF Answer, Collect, network, Mistaken

\* authoritative Hypervisor Metadata: whatever a guest has set, its samples carry the
\* labels the hypervisor knows of the target they were scraped for, which is the guest
\* itself unless a thread has strayed, for any payloads of any targets.
THEOREM LabelsAuthoritative == LSpec => []LabelsTrue
<1>1. LInit => LabelsTrue
  BY DEF LInit, NoPage, LabelsTrue
<1>2. Loop /\ OwnAnswer /\ LabelsTrue /\ [LNext]_all => LabelsTrue'
  <2> SUFFICES ASSUME Loop, OwnAnswer, LabelsTrue, [LNext]_all PROVE LabelsTrue'
    OBVIOUS
  <2>1. CASE Answer
    <3> SUFFICES ASSUME NEW s \in page'.samples, s.from # "collector"
                 PROVE  \E g \in Guests :
                          /\ s.from \in {g} \cup Mistaken(g)
                          /\ \A l \in MetaLabels : Meta[g][l] # "none" => s.labels[l] = Meta[g][l]
      BY <2>1, AnswerLeaves DEF LabelsTrue
    <3>1. s \in Expected
      BY <2>1, Answers200
    <3>2. PICK g \in Guests, h \in Guests : /\ h \in {g} \cup Mistaken(g)
                                            /\ \E r \in Sample(h) : s = EnrichMetric(r, g)
      BY <3>1, FromGuest
    <3> QED
      BY <3>2, EnrichKeeps
  <2>2. CASE page' = NoPage
    BY <2>2 DEF NoPage, LabelsTrue
  <2>3. CASE UNCHANGED all
    BY <2>3 DEF all, vars, network, LabelsTrue, Mistaken
  <2> QED
    BY <2>1, <2>2, <2>3, NoAnswer
<1> QED
  BY <1>1, <1>2, LoopInvariance, PageOfOwnAnswers, PTL DEF LSpec

\* The sample of a target that says whether it was scraped is that of no other result.
LEMMA OneVerdict ==
    ASSUME OwnAnswer, NEW g \in Scraped
    PROVE  /\ Success(g) \in Expected
           /\ Collector("scrape_success", Meta[g], ~result[g].ok) \notin Expected
<1> DEFINE wrong == Collector("scrape_success", Meta[g], ~result[g].ok)
<1>1. g \in Guests /\ result[g].ok \in BOOLEAN
  BY ResultShape DEF Scraped
<1>2. wrong.from = "collector" /\ wrong.name = "scrape_success" /\ wrong.labels = Meta[g]
      /\ wrong.value = ~result[g].ok
  BY DEF Collector
<1>3. ASSUME NEW h \in Scraped PROVE wrong \notin Enriched(h)
  <2>1. h \in Guests
    BY DEF Scraped
  <2>2. \A s \in Enriched(h) : s.from \in Guests
    BY <2>1, ResultShape, EnrichKeeps DEF Enriched
  <2> QED
    BY <1>2, <2>1, <2>2, ResultsAssumption
<1>4. ASSUME NEW h \in Scraped PROVE wrong # Success(h)
  <2>1. SUFFICES ASSUME wrong = Success(h) PROVE FALSE
    OBVIOUS
  <2>2. Success(h).labels = Meta[h] /\ Success(h).value = result[h].ok
    BY DEF Success, Collector
  <2>3. Meta[h] = Meta[g]
    BY <1>2, <2>1, <2>2
  <2>4. h \in Guests
    BY DEF Scraped
  <2>5. h = g
    BY <1>1, <2>3, <2>4, MetaAssumption, ResultsAssumption
  <2> QED
    BY <1>1, <1>2, <2>1, <2>2, <2>5
<1>5. wrong # Total
  BY <1>2 DEF Total, Collector
<1>6. wrong \notin Expected
  BY <1>3, <1>4, <1>5 DEF Expected, Own
<1> QED
  BY <1>6 DEF Expected, Own, Success

\* Every page has every sample of every result, and one sample for every target that says
\* whether it was scraped.
THEOREM PagesComplete == LSpec => PageComplete
<1>1. ASSUME Loop, OwnAnswer, [LNext]_all, page'.kind = "page", ~UNCHANGED all
      PROVE  \A g \in Scraped :
               /\ \A s \in result[g].samples : EnrichMetric(s, g) \in page'.samples
               /\ Collector("scrape_success", Meta[g], result[g].ok) \in page'.samples
               /\ Collector("scrape_success", Meta[g], ~result[g].ok) \notin page'.samples
  <2>1. Answer
    BY <1>1, NoAnswer DEF NoPage
  <2>2. page'.samples = Expected
    BY <1>1, <2>1, Answers200
  <2>3. ASSUME NEW g \in Scraped, NEW s \in result[g].samples PROVE EnrichMetric(s, g) \in Expected
    BY DEF Expected, Enriched
  <2> QED
    BY <1>1, <2>2, <2>3, OneVerdict DEF Success
<1>2. Loop /\ OwnAnswer /\ [LNext]_all =>
        [page'.kind = "page" =>
          \A g \in Scraped :
            /\ \A s \in result[g].samples : EnrichMetric(s, g) \in page'.samples
            /\ Collector("scrape_success", Meta[g], result[g].ok) \in page'.samples
            /\ Collector("scrape_success", Meta[g], ~result[g].ok) \notin page'.samples]_all
  BY <1>1
<1> QED
  BY <1>2, LoopInvariance, PageOfOwnAnswers, PTL DEF LSpec, PageComplete

\* The types of a family of the page are types of the samples the page was made of.
LEMMA RawType ==
    ASSUME OwnAnswer, Scraped # {}, NEW s \in Expected
    PROVE  \E r \in (UNION {result[g].samples : g \in Scraped}) \cup Samples(CollectorFamilies(Results)) :
             r.name = s.name /\ r.type = s.type
<1>1. CASE s \in Own
  BY <1>1, CollectorFormed
<1>2. ASSUME NEW g \in Scraped, s \in Enriched(g)
      PROVE  \E r \in result[g].samples : r.name = s.name /\ r.type = s.type
  <2>1. g \in Guests
    BY DEF Scraped
  <2>2. PICK r \in result[g].samples : s = EnrichMetric(r, g)
    BY <1>2 DEF Enriched
  <2> QED
    BY <2>1, <2>2, ResultShape, EnrichKeeps
<1> QED
  BY <1>1, <1>2 DEF Expected

\* The page is only refused when two samples of one name have different types.
THEOREM ErrorsExplained == LSpec => FailsOnlyOnConflict
<1>1. ASSUME Loop, OwnAnswer, [LNext]_all, page'.kind = "error", ~UNCHANGED all
      PROVE  Conflict
  <2>1. Answer
    BY <1>1, NoAnswer DEF NoPage
  <2>2. WellFormed(Combined) /\ Samples(Combined) = Expected /\ ~Encodes(Combined)
    BY <1>1, <2>1, Answers200
  <2>3. PICK n \in DOMAIN Combined : \E s \in Combined[n].samples : s.type # Combined[n].type
    BY <2>2 DEF Encodes, WellFormed
  <2>4. PICK s \in Combined[n].samples : s.type # Combined[n].type
    BY <2>3
  <2>5. PICK t \in Combined[n].samples : t.type = Combined[n].type
    BY <2>2 DEF WellFormed
  <2>6. s.name = n /\ t.name = n
    BY <2>2 DEF WellFormed
  <2>7. s \in Expected /\ t \in Expected
    BY <2>2, SamplesOf
  <2>8. Scraped # {}
    BY <2>1 DEF Answer, AllDone
  <2> QED
    BY <1>1, <2>4, <2>5, <2>6, <2>7, <2>8, RawType DEF Conflict
<1>2. Loop /\ OwnAnswer /\ [LNext]_all => [page'.kind = "error" => Conflict]_all
  BY <1>1
<1> QED
  BY <1>2, LoopInvariance, PageOfOwnAnswers, PTL DEF LSpec, FailsOnlyOnConflict
=============================================================================
