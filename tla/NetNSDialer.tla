----------------------------- MODULE NetNSDialer -----------------------------
(***************************************************************************)
(* LinuxNetNSDialer.DialContext (pkg/transport/dialer_linux.go): a socket  *)
(* is opened inside a tenant network namespace by moving the OS thread of  *)
(* the dialing goroutine there and back.  Several dials run at once, each  *)
(* on a thread of its own, and everything else the agent does, `ip`        *)
(* commands and calls to the control service included, runs on whichever   *)
(* thread is not locked.                                                   *)
(*                                                                         *)
(* The namespace to return to is opened as /proc/self/ns/net, which is the *)
(* namespace of the thread group leader (Main), not of the calling thread. *)
(***************************************************************************)
EXTENDS Naturals, FiniteSets

CONSTANTS
    Threads,      \* OS threads of the process (bound)
    Main,         \* the initial thread, the one /proc/self stands for
    Dials,        \* concurrent calls of DialContext (bound)
    NetNSs        \* tenant network namespaces

ASSUME ThreadAssumption == Main \in Threads

ASSUME NameAssumption ==
    "root" \notin NetNSs /\ "none" \notin NetNSs /\ "none" \notin Threads

VARIABLES
    alive,     \* the threads the runtime has started
    threadNS,  \* the network namespace a thread is in
    named,     \* the namespaces that have a name under /var/run/netns
    pc,        \* the next step of a dial, or "idle"
    tgt,       \* the namespace a dial is for; "root" if its argument is empty
    thread,    \* the thread a dial has locked, or "none"
    orig,      \* the namespace origNS refers to, or "none"
    sock,      \* the namespace of the socket the last dial returned, or "none"
    strayed    \* history: the tenant namespaces that dials took for the one to return to

vars == <<alive, threadNS, named, pc, tgt, thread, orig, sock, strayed>>

Places == NetNSs \cup {"root"}
Steps == {"idle", "plain", "lock", "openOrig", "enter", "connect", "restore", "unlock"}

TypeOK ==
    /\ alive \subseteq Threads
    /\ threadNS \in [Threads -> Places]
    /\ named \subseteq NetNSs
    /\ pc \in [Dials -> Steps]
    /\ tgt \in [Dials -> Places]
    /\ thread \in [Dials -> Threads \cup {"none"}]
    /\ orig \in [Dials -> Places \cup {"none"}]
    /\ sock \in [Dials -> Places \cup {"none"}]
    /\ strayed \subseteq NetNSs

Init ==
    /\ alive = {Main}
    /\ threadNS = [t \in Threads |-> "root"]
    /\ named = {}
    /\ pc = [d \in Dials |-> "idle"]
    /\ tgt = [d \in Dials |-> "root"]
    /\ thread = [d \in Dials |-> "none"]
    /\ orig = [d \in Dials |-> "none"]
    /\ sock = [d \in Dials |-> "none"]
    /\ strayed = {}

Free(t) == t \in alive /\ \A d \in Dials : thread[d] # t

Goto(d, l) == pc' = [pc EXCEPT ![d] = l]

-----------------------------------------------------------------------------
(* DialContext.                                                            *)

\* No namespace asked for: dial from wherever the goroutine runs.
DialPlain(d) ==
    /\ pc[d] = "idle"
    /\ Goto(d, "plain")
    /\ tgt' = [tgt EXCEPT ![d] = "root"]
    /\ sock' = [sock EXCEPT ![d] = "none"]
    /\ UNCHANGED <<alive, threadNS, named, thread, orig, strayed>>

\* Mutant: a thread that another dial has locked runs this goroutine as well.
PlainConnect_AnyThread(d) ==
    /\ pc[d] = "plain"
    /\ \E t \in alive : sock' = [sock EXCEPT ![d] = threadNS[t]]
    /\ Goto(d, "idle")
    /\ UNCHANGED <<alive, threadNS, named, tgt, thread, orig, strayed>>

PlainConnect(d) ==
    /\ pc[d] = "plain"
    /\ \E t \in Threads :
         /\ Free(t)
         /\ sock' = [sock EXCEPT ![d] = threadNS[t]]
    /\ Goto(d, "idle")
    /\ UNCHANGED <<alive, threadNS, named, tgt, thread, orig, strayed>>

\* os.Open(nsPath): from here on the handle, not the name, stands for the namespace.
OpenTarget(d) ==
    /\ pc[d] = "idle"
    /\ \E n \in named : tgt' = [tgt EXCEPT ![d] = n]
    /\ Goto(d, "lock")
    /\ sock' = [sock EXCEPT ![d] = "none"]
    /\ UNCHANGED <<alive, threadNS, named, thread, orig, strayed>>

\* Mutant: the goroutine is not locked to its thread, which others may use as well.
LockOSThread_Shared(d) ==
    /\ pc[d] = "lock"
    /\ \E t \in alive : thread' = [thread EXCEPT ![d] = t]
    /\ Goto(d, "openOrig")
    /\ UNCHANGED <<alive, threadNS, named, tgt, orig, sock, strayed>>

LockOSThread(d) ==
    /\ pc[d] = "lock"
    /\ \E t \in Threads : Free(t) /\ thread' = [thread EXCEPT ![d] = t]
    /\ Goto(d, "openOrig")
    /\ UNCHANGED <<alive, threadNS, named, tgt, orig, sock, strayed>>

\* /proc/self stands for the main thread, wherever another dial has moved it.
Note(d) ==
    /\ orig' = [orig EXCEPT ![d] = threadNS[Main]]
    /\ strayed' = strayed \cup ({threadNS[Main]} \ {"root"})

\* Mutant: the error of opening the file is not checked.
OpenOrig_Unchecked(d) ==
    /\ pc[d] = "openOrig"
    /\ Note(d) \/ UNCHANGED <<orig, strayed>>
    /\ Goto(d, "enter")
    /\ UNCHANGED <<alive, threadNS, named, tgt, thread, sock>>

\* Opening the file may fail; then only the lock is given back.
OpenOrig(d) ==
    /\ pc[d] = "openOrig"
    /\ \/ Note(d) /\ Goto(d, "enter")
       \/ UNCHANGED <<orig, strayed>> /\ Goto(d, "unlock")
    /\ UNCHANGED <<alive, threadNS, named, tgt, thread, sock>>

\* Mutant: a dial that cannot enter its namespace returns without unlocking.
Enter_LeaksLock(d) ==
    /\ pc[d] = "enter"
    /\ \/ threadNS' = [threadNS EXCEPT ![thread[d]] = tgt[d]] /\ Goto(d, "connect")
       \/ UNCHANGED threadNS /\ Goto(d, "idle")
    /\ UNCHANGED <<alive, named, tgt, thread, orig, sock, strayed>>

\* Setns into the target may fail; then there is nothing to restore.
Enter(d) ==
    /\ pc[d] = "enter"
    /\ \/ threadNS' = [threadNS EXCEPT ![thread[d]] = tgt[d]] /\ Goto(d, "connect")
       \/ UNCHANGED threadNS /\ Goto(d, "unlock")
    /\ UNCHANGED <<alive, named, tgt, thread, orig, sock, strayed>>

\* Mutant: a dial that fails returns before the namespace is restored.
Connect_ErrorSkipsRestore(d) ==
    /\ pc[d] = "connect"
    /\ \/ sock' = [sock EXCEPT ![d] = threadNS[thread[d]]] /\ Goto(d, "restore")
       \/ UNCHANGED sock /\ Goto(d, "unlock")
    /\ UNCHANGED <<alive, threadNS, named, tgt, thread, orig, strayed>>

\* The socket belongs to the namespace its thread is in; connecting may fail.
Connect(d) ==
    /\ pc[d] = "connect"
    /\ \/ sock' = [sock EXCEPT ![d] = threadNS[thread[d]]]
       \/ UNCHANGED sock
    /\ Goto(d, "restore")
    /\ UNCHANGED <<alive, threadNS, named, tgt, thread, orig, strayed>>

Restore(d) ==
    /\ pc[d] = "restore"
    /\ threadNS' = [threadNS EXCEPT ![thread[d]] = orig[d]]
    /\ Goto(d, "unlock")
    /\ UNCHANGED <<alive, named, tgt, thread, orig, sock, strayed>>

\* The deferred closes and UnlockOSThread: the thread is anybody's again.
Unlock(d) ==
    /\ pc[d] = "unlock"
    /\ thread' = [thread EXCEPT ![d] = "none"]
    /\ orig' = [orig EXCEPT ![d] = "none"]
    /\ Goto(d, "idle")
    /\ UNCHANGED <<alive, threadNS, named, tgt, sock, strayed>>

\* Restoring fails: the goroutine panics, the process dies and is started again.
Panic(d) ==
    /\ pc[d] = "restore"
    /\ alive' = {Main}
    /\ threadNS' = [t \in Threads |-> "root"]
    /\ pc' = [e \in Dials |-> "idle"]
    /\ tgt' = [e \in Dials |-> "root"]
    /\ thread' = [e \in Dials |-> "none"]
    /\ orig' = [e \in Dials |-> "none"]
    /\ sock' = [e \in Dials |-> "none"]
    /\ strayed' = {}
    /\ UNCHANGED named

-----------------------------------------------------------------------------
(* The runtime and the network manager around the dialer.                  *)

\* New threads are cloned from one that no goroutine has locked.
Spawn ==
    /\ \E t \in Threads \ alive, p \in Threads :
         /\ Free(p)
         /\ alive' = alive \cup {t}
         /\ threadNS' = [threadNS EXCEPT ![t] = threadNS[p]]
    /\ UNCHANGED <<named, pc, tgt, thread, orig, sock, strayed>>

\* The network manager adds and deletes namespaces while dials are under way.
Rename ==
    /\ \E n \in NetNSs : named' \in {named \cup {n}, named \ {n}}
    /\ UNCHANGED <<alive, threadNS, pc, tgt, thread, orig, sock, strayed>>

-----------------------------------------------------------------------------

Proceed(d) ==
    \/ OpenOrig(d) \/ Enter(d) \/ Connect(d) \/ Restore(d) \/ Unlock(d)

Next ==
    \/ \E d \in Dials : \/ DialPlain(d) \/ PlainConnect(d)
                        \/ OpenTarget(d) \/ LockOSThread(d)
                        \/ Proceed(d) \/ Panic(d)
    \/ Spawn
    \/ Rename

Spec == Init /\ [][Next]_vars

\* Dials time out, so each runs on; the runtime starts threads when goroutines wait
\* and hands a thread to every goroutine that is ready again and again.
FairSpec == Spec /\ WF_vars(Spawn)
                 /\ \A d \in Dials : /\ WF_vars(Proceed(d))
                                     /\ SF_vars(LockOSThread(d))
                                     /\ SF_vars(PlainConnect(d))

-----------------------------------------------------------------------------
(* Properties.                                                             *)

\* ADR-0002: a connection to a guest is opened in the namespace of its network,
\* whatever other dials do meanwhile and also when the namespace loses its name.
DialedInTarget ==
    \A d \in Dials : sock[d] # "none" /\ tgt[d] # "root" => sock[d] = tgt[d]

\* A thread that is free for other goroutines is back in the root namespace, or where
\* the main thread was when a dial noted down the way back; the main thread is always
\* back, on whichever threads the runtime puts the dials.
ThreadsRestored ==
    /\ \A t \in Threads : Free(t) => threadNS[t] \in {"root"} \cup strayed
    /\ Free(Main) => threadNS[Main] = "root"

\* A dial without a namespace connects from the root namespace, or from one that an
\* earlier dial took for it: no failed or unfinished dial leads it anywhere else.
RootDialsInRoot ==
    \A d \in Dials : sock[d] # "none" /\ tgt[d] = "root" => sock[d] \in {"root"} \cup strayed

\* dialer_linux.go:71: "Restore thread back to the root network namespace upon
\* completion".  A thread that is free for other goroutines is in the root namespace.
AlwaysInRoot == \A t \in Threads : Free(t) => threadNS[t] = "root"

\* Every dial returns and gives its thread back, so scrapes never run out of threads.
DialsReturn == \A d \in Dials : pc[d] # "idle" ~> pc[d] = "idle"
=============================================================================
