----------------------------- MODULE Exposition ------------------------------
(***************************************************************************)
(* From the results of a scrape to the page of /metrics: the parsing and   *)
(* labelling of each payload and the merging and encoding of families      *)
(* (pkg/processor), and the collector's own metrics (pkg/server).          *)
(*                                                                         *)
(* A result is what GetMetrics returned for a target: `ok` if there was no *)
(* error, `clean` if the text parses, and the samples of the text.  Of a   *)
(* sample only its family, its type and the labels that say whose it is    *)
(* are kept; `from` says which guest exposed it, which no label can.       *)
(***************************************************************************)
CONSTANTS
    Targets,   \* the Target VMs
    Meta       \* the labels the hypervisor knows of a target; "none" if empty

\* The labels that are the hypervisor's to set.
MetaLabels == {"vm_id", "project_id"}

ASSUME MetaAssumption ==
    \A t \in Targets : DOMAIN Meta[t] = MetaLabels /\ Meta[t]["vm_id"] = t

\* What the text of a target may hold.
Sample(t) == [name : STRING, type : STRING, labels : [MetaLabels -> STRING], from : {t}]

Failure == [ok |-> FALSE, clean |-> TRUE, samples |-> {}]
Unparsable == [ok |-> TRUE, clean |-> FALSE, samples |-> {}]
Payload(samples) == [ok |-> TRUE, clean |-> TRUE, samples |-> samples]

-----------------------------------------------------------------------------
(* MetricEnricher.                                                         *)

\* Mutant: a label that the guest has set is left alone.
EnrichMetric_KeepsGuests(s, t) ==
    [s EXCEPT !.labels = [l \in MetaLabels |-> IF @[l] # "none" THEN @[l] ELSE Meta[t][l]]]

\* A label of the hypervisor overrides the guest's, unless its value is empty.
EnrichMetric(s, t) ==
    [s EXCEPT !.labels = [l \in MetaLabels |-> IF Meta[t][l] # "none" THEN Meta[t][l] ELSE @[l]]]

\* Families by name: the type of the family, and samples, each with its own.
NoFamilies == [n \in {} |-> [type |-> "none", samples |-> {}]]

Families(samples) ==
    [n \in {s.name : s \in samples} |->
        [type |-> (CHOOSE s \in samples : s.name = n).type,
         samples |-> {s \in samples : s.name = n}]]

EnrichTargetMetrics(samples, t) == Families({EnrichMetric(s, t) : s \in samples})

\* Mutant: a family that is there already is replaced.
MergeFamilies_Replaces(dest, src) ==
    [n \in DOMAIN dest \cup DOMAIN src |-> IF n \in DOMAIN src THEN src[n] ELSE dest[n]]

\* The samples are appended to the family that came first; types are not compared.
MergeFamilies(dest, src) ==
    [n \in DOMAIN dest \cup DOMAIN src |->
        IF n \notin DOMAIN dest THEN src[n]
        ELSE IF n \notin DOMAIN src THEN dest[n]
        ELSE [dest[n] EXCEPT !.samples = @ \cup src[n].samples]]

\* The encoder refuses a family without samples and a sample of another type.
Encodes(fams) ==
    \A n \in DOMAIN fams :
        fams[n].samples # {} /\ \A s \in fams[n].samples : s.type = fams[n].type

Samples(fams) == UNION {fams[n].samples : n \in DOMAIN fams}

-----------------------------------------------------------------------------
(* handleMetrics between ScrapeAll and the answer.                         *)

Collector(name, labels, value) ==
    [name |-> name, type |-> "gauge", labels |-> labels, value |-> value, from |-> "collector"]

\* Mutant: only the targets that were scraped well have a sample.
CollectorFamilies_Healthy(results) ==
    [n \in {"scrape_success", "targets_total"} |->
        [type |-> "gauge",
         samples |-> IF n = "scrape_success"
                     THEN {Collector(n, Meta[t], TRUE) : t \in {u \in DOMAIN results : results[u].ok}}
                     ELSE {Collector(n, [l \in MetaLabels |-> "none"], TRUE)}]]

\* One sample per result, and the totals, which no target can empty.
CollectorFamilies(results) ==
    [n \in {"scrape_success", "targets_total"} |->
        [type |-> "gauge",
         samples |-> IF n = "scrape_success"
                     THEN {Collector(n, Meta[t], results[t].ok) : t \in DOMAIN results}
                     ELSE {Collector(n, [l \in MetaLabels |-> "none"], TRUE)}]]

\* An error, an empty payload and one that does not parse are left out.
Parses(result) == result.ok /\ result.clean /\ result.samples # {}

\* One turn of the loop over the results, which is in the order of a map iteration.
AddResult(fams, t, result) ==
    IF Parses(result) THEN MergeFamilies(fams, EnrichTargetMetrics(result.samples, t)) ELSE fams
=============================================================================
