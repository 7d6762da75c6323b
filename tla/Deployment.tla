----------------------------- MODULE Deployment ------------------------------
(***************************************************************************)
(* Host Sync between programs as they are configured and started: each     *)
(* start reads the settings anew (Settings); an agent may have no Control  *)
(* Service at all, a URL nobody can build a request from, or no            *)
(* certificate, and a Control Service may ask for none.  Added to HostSync *)
(* are the agent's targets before its first sync, the time and the error   *)
(* of the last sync (coordinator.go) and /readyz (server.go); and, for the *)
(* properties alone, what a sync could have seen since it was asked for.   *)
(***************************************************************************)
EXTENDS HostSync, Settings

CONSTANTS
    AgentSettings,     \* settings an agent may be started with
    ControlSettings,   \* settings the Control Service may be started with
    Malformed          \* URLs that http.NewRequest refuses

VARIABLES
    config,     \* the agents' configurations
    control,    \* that of the Control Service
    synced,     \* lastSync is set
    lastError,  \* lastError is
    stayed,     \* history: the GPU servers that have been on the host, and were read by
                \* its handler if it came to them, ever since the agent sent its request
    seen        \* history: those that have been there at some time since

status == <<config, control, synced, lastError>>
history == <<stayed, seen>>
all == <<vars, status, history>>

AgentConfigs == {AgentConfig(s) : s \in AgentSettings}
ControlConfigs == {ControlConfig(s) : s \in ControlSettings}

DTypeOK ==
    /\ TypeOK
    /\ config \in [Hosts -> AgentConfigs] /\ control \in ControlConfigs
    /\ synced \in [Hosts -> BOOLEAN] /\ lastError \in [Hosts -> BOOLEAN]
    /\ stayed \in [Hosts -> SUBSET VMs] /\ seen \in [Hosts -> SUBSET VMs]

DInit ==
    /\ Init
    /\ config \in [Hosts -> AgentConfigs] /\ control \in ControlConfigs
    /\ synced = [a \in Hosts |-> FALSE]
    /\ lastError = [a \in Hosts |-> FALSE]
    /\ stayed = [a \in Hosts |-> {}] /\ seen = [a \in Hosts |-> {}]

\* What the handler an agent waits for leaves out in this step.
Skipped(a) ==
    UNION {h[s].todo \ (h'[s].todo \cup h'[s].found) :
              s \in {t \in Slots : h[t].live /\ h[t].host = a /\ h[t].pc = "servers"}}

Watched ==
    /\ stayed' = [a \in Hosts |->
                     IF agent'[a] = "idle" THEN {}
                     ELSE Wanted(a)' \ IF agent[a] = "idle" THEN {}
                                      ELSE (VMs \ stayed[a]) \cup Skipped(a)]
    /\ seen' = [a \in Hosts |-> IF agent'[a] = "idle" THEN {} ELSE seen[a] \cup Wanted(a)']

-----------------------------------------------------------------------------
(* What an agent serves.                                                   *)

\* The targets of the configuration, until a sync has replaced them.
Current(a) == IF config[a].url # "" /\ synced[a] THEN targets[a] ELSE config[a].static

\* handleReadyz: 503 only if the last sync failed and none has succeeded.
Ready(a) == ~(lastError[a] /\ ~synced[a])

-----------------------------------------------------------------------------
(* SyncOnce.                                                               *)

\* Without a URL the configured targets stay, and that counts as a sync.
NoController(a) ==
    /\ agent[a] = "idle" /\ config[a].url = ""
    /\ synced' = [synced EXCEPT ![a] = TRUE]
    /\ lastError' = [lastError EXCEPT ![a] = FALSE]
    /\ UNCHANGED <<vars, config, control, history>>

\* No request can be made of a malformed URL: SyncOnce returns and records nothing.
NoRequest(a) == agent[a] = "idle" /\ config[a].url \in Malformed /\ UNCHANGED all

Syncs(a) == config[a].url \notin Malformed \cup {""}

\* extractComputeHost: the host is the name in the client's certificate.
Identified(a) == config[a].cert /\ control.verifies

Request(a) ==
    /\ Syncs(a) /\ Identified(a)
    /\ Send(a)
    /\ Watched
    /\ UNCHANGED status

\* Mutant: like an error of building the request, this one is only returned.
Unauthorized_Unrecorded(a) ==
    /\ agent[a] = "idle" /\ Syncs(a) /\ ~Identified(a)
    /\ UNCHANGED all

\* The handshake fails, or the answer is 401.
Unauthorized(a) ==
    /\ agent[a] = "idle" /\ Syncs(a) /\ ~Identified(a)
    /\ lastError' = [lastError EXCEPT ![a] = TRUE]
    /\ UNCHANGED <<vars, config, control, synced, history>>

\* A sync that ends without a response to apply has failed; one that is published has
\* succeeded, whatever became of the reconcile.
Recorded ==
    /\ lastError' = [a \in Hosts |->
                        IF agent[a] = "waiting" /\ agent'[a] = "idle" THEN TRUE
                        ELSE lastError[a] /\ ~(agent[a] = "publish" /\ agent'[a] = "idle")]
    /\ synced' = [a \in Hosts |-> synced[a] \/ (agent[a] = "publish" /\ agent'[a] = "idle")]

\* What a step of HostSync means for what is added to it here.
Added == Recorded /\ Watched /\ UNCHANGED <<config, control>>

Work ==
    /\ \/ \E a \in Hosts : GiveUp(a) \/ Apply(a)
       \/ \E s \in Slots : Handle(s)
       \/ ExecuteCreate \/ Move
    /\ Added

-----------------------------------------------------------------------------
(* Starts.                                                                 *)

\* main: the settings are read, and nothing is known of earlier syncs.
StartAgent(a) ==
    /\ RestartAgent(a)
    /\ \E c \in AgentConfigs : config' = [config EXCEPT ![a] = c]
    /\ synced' = [synced EXCEPT ![a] = FALSE]
    /\ lastError' = [lastError EXCEPT ![a] = FALSE]
    /\ Watched
    /\ UNCHANGED control

StartControl ==
    /\ RestartControl
    /\ control' \in ControlConfigs
    /\ Recorded /\ Watched
    /\ UNCHANGED config

-----------------------------------------------------------------------------

DNext ==
    \/ \E a \in Hosts : NoController(a) \/ NoRequest(a) \/ Request(a) \/ Unauthorized(a)
    \/ \E a \in Hosts : StartAgent(a)
    \/ Work
    \/ StartControl

DSpec == DInit /\ [][DNext]_all

\* The ticker of an agent fires, its answers are applied, handlers run and Neutron works.
DFairSpec ==
    /\ DSpec
    /\ WF_all(ExecuteCreate /\ Added)
    /\ \A a \in Hosts :
         /\ WF_all(Request(a)) /\ WF_all(NoController(a)) /\ WF_all(Unauthorized(a))
         /\ WF_all(Apply(a) /\ Added)
    /\ \A s \in Slots : WF_all(Handle(s) /\ Added)

-----------------------------------------------------------------------------
(* Properties.                                                             *)

\* compute_node_agent_guide.md, "Control Service Outage": endpoints "remain active; the
\* Compute Agent continues scraping existing Target VMs".  An agent's targets change only
\* when it applies an answer, and then to what the host had meanwhile: every server that
\* stayed since the request was sent and could be read is among them, so that no failing
\* sync drops one, and every one of them was there at some time since, so that neither an
\* abandoned handler nor an earlier answer brings one back.
TargetsCurrent ==
    [][\A a \in Hosts : restarts' = restarts =>
           \/ targets'[a] = targets[a]
           \/ agent[a] = "publish" /\ stayed[a] \subseteq targets'[a] /\ targets'[a] \subseteq seen[a]]_all

\* An agent that a Control Service can identify, once calls stop failing and servers stop
\* moving, ends ready, with exactly the GPU servers of its host as its targets and their
\* networks attached, whatever static targets, settings and failures it started with.
AgentConverges ==
    \A a \in Hosts :
        <>[](Syncs(a) /\ Identified(a)) =>
            <>[](/\ Ready(a)
                 /\ Current(a) = Wanted(a)
                 /\ \A v \in Wanted(a) : Primary[v] \in attached[a])

\* An agent that the Control Service cannot identify, and that has not synced since it
\* started, ends not ready.  (One that had synced stays ready with the targets it has, and
\* one whose URL is malformed stays ready without any.)
UnidentifiedNotReady ==
    \A a \in Hosts :
        <>[](Syncs(a) /\ ~Identified(a) /\ ~synced[a]) => <>[]~Ready(a)
=============================================================================
