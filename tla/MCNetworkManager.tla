-------------------------- MODULE MCNetworkManager --------------------------
(* Small instances of NetworkManager: a tenant network and an interface     *)
(* without namespace, both of which come back with another Neutron port.    *)
EXTENDS NetworkManager

Ep(v, p, a) == [veth |-> v, port |-> p, addr |-> a]

MCNSOf == [v \in Veths |-> CASE v = "netA" -> "dcgmA"
                             [] OTHER -> "root"]

\* Network A with its port, and after the port was recreated without an IPv4 address;
\* network R, whose interface has no namespace, with its port and recreated as well.
MixedEndpoints ==
    {Ep("netA", "p1", "a1"), Ep("netA", "p2", "none"),
     Ep("netR", "p3", "a2"), Ep("netR", "p1", "none")}

SingleEndpoints == {Ep("netA", "p1", "a1"), Ep("netA", "p2", "a2")}

\* The list after network A's port was recreated, and the single old one.
Replaced == {Ep("netA", "p2", "a2")}

\* Steady Host Sync leads to the recreated port being attached, also from a host
\* that still has the old one, a half-built one or a lost one (ReconcileEndpoints).
ConvergesToReplaced == Converges(Replaced)
=============================================================================
