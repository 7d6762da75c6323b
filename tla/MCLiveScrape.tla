---------------------------- MODULE MCLiveScrape -----------------------------
(* Small instances of LiveScrape: two guests, on one network or with the    *)
(* same address on a tenant network and on one without a namespace.         *)
EXTENDS LiveScrape, TLC

OneOrTwoNetworks ==
    { ("a" :> [ns |-> "dcgmA", addr |-> "x"] @@ "b" :> [ns |-> "dcgmA", addr |-> "y"]),
      ("a" :> [ns |-> "dcgmA", addr |-> "x"] @@ "b" :> [ns |-> "root", addr |-> "x"]) }

\* The hypervisor does not know the project of the second guest.
MCMeta == "a" :> [vm_id |-> "a", project_id |-> "pa"] @@ "b" :> [vm_id |-> "b", project_id |-> "none"]

Exposed(g, name, type, labels) ==
    [name |-> name, type |-> type, labels |-> labels, from |-> g]
Plain == [vm_id |-> "none", project_id |-> "none"]
Spoofed == [vm_id |-> "b", project_id |-> "pb"]

\* The first guest claims to be the other; the second has an exporter whose family has
\* another type, or uses a name of the collector; both may send nonsense.
MCPayloads ==
    "a" :> {Payload({Exposed("a", "gpu", "gauge", Spoofed)}), Unparsable} @@
    "b" :> {Payload({Exposed("b", "gpu", "gauge", Plain)}),
            Payload({Exposed("b", "gpu", "counter", Plain)}),
            Payload({Exposed("b", "scrape_success", "gauge", Plain)}),
            Payload({Exposed("b", "targets_total", "counter", Plain)})}
=============================================================================
