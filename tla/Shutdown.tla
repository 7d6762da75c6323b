------------------------------ MODULE Shutdown -------------------------------
(***************************************************************************)
(* The end of the compute agent (cmd/dcgm-compute-agent/main.go): on a     *)
(* signal the server stops listening and the program ends when no handler  *)
(* is left, or when ShutdownTimeout is over.  The program does not wait    *)
(* for the sync loop, whose requests and commands end with its context,    *)
(* which HostSync has as a restart.  Started again, it begins at Init.     *)
(***************************************************************************)
EXTENDS TelemetryServer

CONSTANT ShutdownTimeout

ASSUME ShutdownAssumption == ShutdownTimeout \in Nat

VARIABLES
    phase,     \* "serving", "draining" or "exited"
    waited     \* time since the signal, up to ShutdownTimeout

program == <<phase, waited>>
all == <<vars, program>>

STypeOK == TypeOK /\ phase \in {"serving", "draining", "exited"} /\ waited \in 0..ShutdownTimeout

SInit == Init /\ phase = "serving" /\ waited = 0

-----------------------------------------------------------------------------

\* The listener accepts requests, and handlers of /metrics and /status begin.
Accept ==
    /\ phase = "serving"
    /\ (\E r \in Reqs : ServeCached(r) \/ StartLive(r)) \/ (\E p \in Polls : PollTargets(p))
    /\ UNCHANGED program

\* Handlers at work, their clients, and the sync loop's last publication.
ContinueRequest(r) == phase # "exited" /\ Handle(r) /\ UNCHANGED program
ContinuePoll(p) == phase # "exited" /\ (PollPrune(p) \/ GetStatus(p)) /\ UNCHANGED program
Surroundings ==
    /\ phase # "exited"
    /\ SetTargets \/ \E r \in Reqs : Disconnect(r)
    /\ UNCHANGED program

\* <-ctx.Done() in main.
Signal ==
    /\ phase = "serving"
    /\ phase' = "draining"
    /\ UNCHANGED <<vars, waited>>

Idle == (\A r \in Reqs : mpc[r] = "idle") /\ (\A p \in Polls : ppc[p] = "idle")

\* Whatever is still at work when main returns is cut off.
Gone ==
    /\ phase' = "exited"
    /\ mpc' = [r \in Reqs |-> "idle"] /\ ppc' = [p \in Polls |-> "idle"]
    /\ listed' = [p \in Polls |-> {}]
    /\ UNCHANGED <<shared, clock, gone, tgts, queue, busy, spent, results, answer, snap, waited>>

\* Mutant: the server is closed instead of shut down.
Exit_AtOnce == phase = "draining" /\ Gone

\* srv.Shutdown returns: nothing is at work, or its time is over.
Exit ==
    /\ phase = "draining"
    /\ Idle \/ waited = ShutdownTimeout
    /\ Gone

Pass ==
    /\ phase # "exited"
    /\ phase = "draining" => waited < ShutdownTimeout
    /\ Tick
    /\ waited' = IF phase = "draining" THEN waited + 1 ELSE 0
    /\ UNCHANGED phase

-----------------------------------------------------------------------------

SNext ==
    \/ Accept \/ Surroundings \/ Signal \/ Exit \/ Pass
    \/ \E r \in Reqs : ContinueRequest(r)
    \/ \E p \in Polls : ContinuePoll(p)

SSpec == SInit /\ [][SNext]_all

\* Goroutines run, time passes, and as long as the program runs somebody keeps asking
\* for /status.
SFairSpec ==
    /\ SSpec /\ SF_all(Pass) /\ WF_all(Exit)
    /\ \A r \in Reqs : WF_all(ContinueRequest(r))
    /\ \A p \in Polls : /\ WF_all(ContinuePoll(p))
                        /\ WF_all(phase = "serving" /\ PollTargets(p) /\ UNCHANGED program)

-----------------------------------------------------------------------------
(* Properties.                                                             *)

\* main.go:84 "Graceful shutdown": no client that waits is cut off, although the timeout
\* of the shutdown is no longer than that of a request, except for one whose request began
\* at the very moment of the signal and whose guests hang.
GracefulExit ==
    [][phase' = "exited" /\ phase # "exited" =>
           \A r \in Reqs : mpc[r] # "idle" /\ ~gone[r] => clock[r] = waited /\ waited = ShutdownTimeout]_all
=============================================================================
