-------------------------- MODULE MCTelemetryServer --------------------------
(* Small instances of TelemetryServer.  The code's timeouts of 3 s, 10 s and *)
(* a TTL of 5 s become 1 or 2, 3 and 2: only their order matters.            *)
EXTENDS TelemetryServer, TLC

\* Guests that do anything; guests that hang; and guests that do anything, except for
\* one that always answers at once.
AnyAnswer == [v \in VMs |-> {"ok", "fail", "slow"}]
OnlySlow == [v \in VMs |-> {"slow"}]
AllButOne == [v \in VMs |-> IF v = "healthy" THEN {"ok"} ELSE {"ok", "fail", "slow"}]

\* Sound for the safety runs alone.
Symmetry == Permutations(VMs \ {"healthy"}) \cup Permutations(Reqs)
=============================================================================
