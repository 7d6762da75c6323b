------------------------- MODULE NetNSDialer_proofs --------------------------
(***************************************************************************)
(* Proofs about NetNSDialer for every number of threads, dials and         *)
(* namespaces, the dials on whichever threads the runtime picks.  A dial   *)
(* owns its thread (Owned), so nobody moves it between Enter and Restore   *)
(* (InTarget).  The way back leads to the root namespace or, where a dial  *)
(* noted it while another had the main thread elsewhere, to a namespace    *)
(* that is then in `strayed`; a dial on the main thread itself always      *)
(* notes the root namespace, since nobody else moves that thread (Home).   *)
(***************************************************************************)
EXTENDS NetNSDialer, TLAPS

Holding == {"openOrig", "enter", "connect", "restore", "unlock"}

Owned ==
    \A d \in Dials :
        /\ pc[d] \in Holding <=> thread[d] # "none"
        /\ thread[d] \in alive \cup {"none"}
        /\ pc[d] \in {"enter", "connect", "restore"} => orig[d] # "none"
        /\ \A e \in Dials : thread[d] = thread[e] /\ thread[d] # "none" => d = e

InTarget ==
    \A d \in Dials : /\ pc[d] \in {"connect", "restore"} => threadNS[thread[d]] = tgt[d]
                     /\ pc[d] \in Holding \cup {"lock"} => tgt[d] # "root"
                     /\ pc[d] = "plain" => tgt[d] = "root"
                     /\ pc[d] \in {"plain", "lock", "openOrig", "enter"} => sock[d] = "none"

Inv == TypeOK /\ Owned /\ InTarget /\ DialedInTarget

USE ThreadAssumption, NameAssumption

LEMMA InitInv == Init => Inv
  BY DEF Init, Inv, TypeOK, Owned, InTarget, DialedInTarget, Holding, Steps, Places

LEMMA StepInv == Inv /\ [Next]_vars => Inv'
<1> SUFFICES ASSUME Inv, [Next]_vars PROVE Inv'
  OBVIOUS
<1> USE DEF Inv, TypeOK, Owned, InTarget, DialedInTarget, Holding, Steps, Places, Goto
<1>1. ASSUME NEW d \in Dials, DialPlain(d) PROVE Inv'
  BY <1>1 DEF DialPlain
<1>2. ASSUME NEW d \in Dials, PlainConnect(d) PROVE Inv'
  BY <1>2 DEF PlainConnect
<1>3. ASSUME NEW d \in Dials, OpenTarget(d) PROVE Inv'
  BY <1>3 DEF OpenTarget
<1>4. ASSUME NEW d \in Dials, LockOSThread(d) PROVE Inv'
  BY <1>4 DEF LockOSThread, Free
<1>5. ASSUME NEW d \in Dials, OpenOrig(d) PROVE Inv'
  BY <1>5 DEF OpenOrig, Note
<1>6. ASSUME NEW d \in Dials, Enter(d) PROVE Inv'
  BY <1>6 DEF Enter
<1>7. ASSUME NEW d \in Dials, Connect(d) PROVE Inv'
  BY <1>7 DEF Connect
<1>8. ASSUME NEW d \in Dials, Restore(d) PROVE Inv'
  BY <1>8 DEF Restore
<1>9. ASSUME NEW d \in Dials, Unlock(d) PROVE Inv'
  BY <1>9 DEF Unlock
<1>10. ASSUME NEW d \in Dials, Panic(d) PROVE Inv'
  BY <1>10 DEF Panic
<1>11. CASE Spawn
  BY <1>11 DEF Spawn, Free
<1>12. CASE Rename
  BY <1>12 DEF Rename
<1>13. CASE UNCHANGED vars
  BY <1>13 DEF vars
<1> QED
  BY <1>1, <1>2, <1>3, <1>4, <1>5, <1>6, <1>7, <1>8, <1>9, <1>10, <1>11, <1>12, <1>13
  DEF Next, Proceed

LEMMA Invariance == Spec => []Inv
  BY InitInv, StepInv, PTL DEF Spec

\* The state of threads and dials stays typed (DialContext).
THEOREM TypeCorrect == Spec => []TypeOK
  BY Invariance, PTL DEF Inv

\* A connection for a tenant network is opened in its namespace, for any number of
\* concurrent dials and on any thread, the main one included (DialContext).
THEOREM DialsTarget == Spec => []DialedInTarget
  BY Invariance, PTL DEF Inv

-----------------------------------------------------------------------------
(* Where released threads are.                                             *)

\* A thread that no dial is moving is in the root namespace or strayed, the main thread is
\* in the root namespace, and so is the way back that a dial on it has noted.
Home ==
    /\ Main \in alive
    /\ \A d \in Dials :
         /\ orig[d] \in {"root", "none"} \cup strayed
         /\ thread[d] = "none" => orig[d] = "none"
         /\ pc[d] \in {"openOrig", "enter", "unlock"} => threadNS[thread[d]] \in {"root"} \cup strayed
         /\ thread[d] = Main =>
              /\ pc[d] \in {"openOrig", "enter", "unlock"} => threadNS[Main] = "root"
              /\ orig[d] \in {"root", "none"}
    /\ ThreadsRestored
    /\ RootDialsInRoot

LEMMA InitHome == Init => Home
  BY DEF Init, Home, ThreadsRestored, RootDialsInRoot

LEMMA StepHome == Inv /\ Home /\ [Next]_vars => Home'
<1> SUFFICES ASSUME Inv, Home, [Next]_vars PROVE Home'
  OBVIOUS
<1> USE DEF Inv, TypeOK, Owned, InTarget, Holding, Home, ThreadsRestored, RootDialsInRoot, Free,
            Steps, Places, Goto
<1>1. ASSUME NEW d \in Dials, DialPlain(d) PROVE Home'
  BY <1>1 DEF DialPlain
<1>2. ASSUME NEW d \in Dials, PlainConnect(d) PROVE Home'
  BY <1>2 DEF PlainConnect
<1>3. ASSUME NEW d \in Dials, OpenTarget(d) PROVE Home'
  BY <1>3 DEF OpenTarget
<1>4. ASSUME NEW d \in Dials, LockOSThread(d) PROVE Home'
  <2>1. PICK t \in Threads : /\ t \in alive /\ \A e \in Dials : thread[e] # t
                              /\ thread' = [thread EXCEPT ![d] = t]
    BY <1>4 DEF LockOSThread
  <2>2. /\ threadNS[t] \in {"root"} \cup strayed
        /\ t = Main => threadNS[Main] = "root"
    BY <2>1
  <2>3. /\ pc[d] = "lock" /\ pc' = [pc EXCEPT ![d] = "openOrig"]
        /\ UNCHANGED <<alive, threadNS, named, tgt, orig, sock, strayed>>
    BY <1>4 DEF LockOSThread
  <2>4. orig[d] = "none"
    BY <2>3
  <2> QED
    BY <2>1, <2>2, <2>3, <2>4
<1>5. ASSUME NEW d \in Dials, OpenOrig(d) PROVE Home'
  <2>1. CASE Note(d) /\ Goto(d, "enter")
    <3>1. PICK n \in Places : n = threadNS[Main]
      OBVIOUS
    <3>2. /\ orig' = [orig EXCEPT ![d] = n]
          /\ strayed' = strayed \cup ({n} \ {"root"})
          /\ pc' = [pc EXCEPT ![d] = "enter"]
          /\ UNCHANGED <<alive, threadNS, named, tgt, thread, sock>>
      BY <1>5, <2>1, <3>1 DEF OpenOrig, Note
    <3>3. thread[d] = Main => n = "root"
      BY <1>5, <3>1 DEF OpenOrig
    <3>4. n \in {"root"} \cup strayed'
      BY <3>2
    <3> QED
      BY <1>5, <3>2, <3>3, <3>4 DEF OpenOrig
  <2>2. CASE UNCHANGED <<orig, strayed>> /\ Goto(d, "unlock")
    BY <1>5, <2>2 DEF OpenOrig
  <2> QED
    BY <1>5, <2>1, <2>2 DEF OpenOrig
<1>6. ASSUME NEW d \in Dials, Enter(d) PROVE Home'
  BY <1>6 DEF Enter
<1>7. ASSUME NEW d \in Dials, Connect(d) PROVE Home'
  BY <1>7 DEF Connect
<1>8. ASSUME NEW d \in Dials, Restore(d) PROVE Home'
  BY <1>8 DEF Restore
<1>9. ASSUME NEW d \in Dials, Unlock(d) PROVE Home'
  BY <1>9 DEF Unlock
<1>10. ASSUME NEW d \in Dials, Panic(d) PROVE Home'
  BY <1>10 DEF Panic
<1>11. CASE Spawn
  BY <1>11 DEF Spawn
<1>12. CASE Rename
  BY <1>12 DEF Rename
<1>13. CASE UNCHANGED vars
  BY <1>13 DEF vars
<1> QED
  BY <1>1, <1>2, <1>3, <1>4, <1>5, <1>6, <1>7, <1>8, <1>9, <1>10, <1>11, <1>12, <1>13
  DEF Next, Proceed

THEOREM HomeInvariance == Spec => []Home
  BY InitHome, StepHome, Invariance, PTL DEF Spec

\* Every thread that is free again is in the root namespace, except where a dial noted the
\* way back while another had the main thread in a tenant namespace, and the main thread
\* always is: what is true of the promise of DialContext's defer, on any threads.
THEOREM Restored == Spec => []ThreadsRestored
  BY HomeInvariance, PTL DEF Home

\* A dial without a namespace connects from the root namespace, with the same exception
\* (the call to dialer.DialContext for netns == "").
THEOREM RootDials == Spec => []RootDialsInRoot
  BY HomeInvariance, PTL DEF Home
=============================================================================
