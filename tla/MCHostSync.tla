----------------------------- MODULE MCHostSync -----------------------------
(* Small instances of HostSync: a GPU server on one network and another on  *)
(* two, whose ids may agree in their first eight characters.                *)
EXTENDS HostSync, TLC

MCNetsOf == [v \in VMs |-> IF v = "v1" THEN {"n2"} ELSE {"n1", "n3"}]
MCPrimary == [v \in VMs |-> IF v = "v1" THEN "n2" ELSE "n3"]

\* Ids are sorted as strings.
MCRank == [n \in Nets |-> CASE n = "n1" -> 1 [] n = "n2" -> 3 [] OTHER -> 2]

\* Ids that differ in their first eight characters, and the two of a server that do not.
Distinct == [n \in Nets |-> n]
Colliding == [n \in Nets |-> IF n = "n2" THEN "n2" ELSE "n"]

\* Sound for the safety runs alone.
Symmetry == Permutations(Hosts) \cup Permutations(Slots)

\* A failing call, or a restart in place of it and of a move.
OneTrouble == faults + restarts <= 1 /\ moves + restarts <= 2
=============================================================================
