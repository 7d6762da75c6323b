------------------------------- MODULE Settings -------------------------------
(***************************************************************************)
(* The settings of the two programs that decide whether they can sync      *)
(* (internal/config, controlconfig).  A setting comes from a flag, the     *)
(* environment and a JSON file; each of them is a sequence that is empty   *)
(* if the source does not set it.                                          *)
(***************************************************************************)
EXTENDS Sequences

Given(source) == IF source # <<>> /\ source[1] # "" THEN source ELSE <<>>

\* The default of a flag is the environment's value, and the file, which is read last,
\* overrides both where it says something.
Text(s, default) == Head(Given(s.file) \o s.flag \o Given(s.env) \o <<default>>)

\* The file of the Control Service is read into the configuration as it is.
ControlText(s, default) == Head(s.file \o s.flag \o Given(s.env) \o <<default>>)

-----------------------------------------------------------------------------

\* The agent: where it syncs, whether it has a certificate, and the targets of its file.
AgentConfig(s) ==
    [url |-> Text(s.url, ""),
     cert |-> Text(s.cert, "") # "" /\ Text(s.key, "") # "",
     static |-> s.static]

\* The Control Service: TLS needs certificate and key, and only with a CA for the clients
\* does it ask them for a certificate, from which it takes the name of the host.
ControlConfig(s) ==
    [verifies |-> /\ ControlText(s.cert, "") # "" /\ ControlText(s.key, "") # ""
                  /\ ControlText(s.ca, "") # ""]
=============================================================================
