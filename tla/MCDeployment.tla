---------------------------- MODULE MCDeployment -----------------------------
(* Small instances of Deployment: settings from each of the sources, and the *)
(* two sides of every check.                                                 *)
EXTENDS MCHostSync, Deployment

Unset == [flag |-> <<>>, env |-> <<>>, file |-> <<>>]

\* The URL is in the environment, and the flag replaces it.
URLs == {[Unset EXCEPT !.env = <<u>>] : u \in {"", "https://control"}}
            \cup {[flag |-> <<"https://[control">>, env |-> <<"https://control">>, file |-> <<"">>]}

MCMalformed == {"https://[control"}

MCAgentSettings ==
    { [url |-> u, cert |-> c, key |-> [Unset EXCEPT !.file = <<"client.key">>], static |-> {"v2"}] :
        u \in URLs, c \in {Unset, [Unset EXCEPT !.file = <<"client.crt">>]} }

\* An empty string in the file of the Control Service is one.
MCControlSettings ==
    { [cert |-> [Unset EXCEPT !.file = <<"server.crt">>], key |-> [Unset EXCEPT !.file = <<"server.key">>],
       ca |-> [Unset EXCEPT !.env = <<"ca.crt">>, !.file = f]] : f \in {<<>>, <<"">>} }
=============================================================================
