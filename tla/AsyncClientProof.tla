-------------------------- MODULE AsyncClientProof --------------------------
(***************************************************************************)
(* Proofs about AsyncClient, for any requests, ids, callers and I/O        *)
(* threads.                                                                *)
(***************************************************************************)
EXTENDS AsyncClient, FiniteSetTheorems, TLAPS

\* The request that a caller is about to mark as cancelled is still listed:
\* nothing is erased between FindRequest and CancelRequest.
FoundIsListed ==
    \A a \in Callers : guard = a =>
        target[a] \in Sessions /\ \E i \in Ids : active[i] = target[a]

\* A request that has not been made is not listed.
NewIsUnlisted == \A i \in Ids, s \in Sessions : active[i] = s => stage[s] # "none"

\* Only a request whose callback has run has a result.
ResultIsFinal == \A s \in Sessions : result[s] # "none" => stage[s] = "done"

\* The inductive invariant.  CancelIsHonoured holds after CancelRequest because
\* what is marked is listed (FoundIsListed), what is listed is unreported, and
\* what is unreported has no result.
ClientIsSound ==
    /\ TypeOK
    /\ FoundIsListed
    /\ NewIsUnlisted
    /\ ResultIsFinal
    /\ ActiveIsUnreported
    /\ CancelIsHonoured

\* The client starts sound: nothing is listed.
LEMMA InitIsSound == Init => ClientIsSound
    BY ClientAssumption DEF Init, ClientIsSound, TypeOK, FoundIsListed, NewIsUnlisted,
       ResultIsFinal, ActiveIsUnreported, CancelIsHonoured, InHandler

\* The steps of the application.
LEMMA ApplicationKeepsSound ==
    ASSUME ClientIsSound, NEW a \in Callers,
           \/ \E s \in Sessions, i \in Ids : ListRequest(a, s, i)
           \/ \E i \in Ids : FindRequest(a, i)
           \/ StartRequest(a) \/ CancelRequest(a)
    PROVE  ClientIsSound'
<1> USE ClientAssumption
<1>0. TypeOK /\ FoundIsListed /\ NewIsUnlisted /\ ResultIsFinal
      /\ ActiveIsUnreported /\ CancelIsHonoured
    BY DEF ClientIsSound
<1>1. ASSUME NEW s \in Sessions, NEW i \in Ids, ListRequest(a, s, i)
      PROVE  ClientIsSound'
  <2>1. TypeOK'
      BY <1>0, <1>1 DEF TypeOK, ListRequest, InHandler, Idle
  <2>2. FoundIsListed'
      BY <1>0, <1>1 DEF TypeOK, FoundIsListed, ListRequest
  <2>3. NewIsUnlisted' /\ ResultIsFinal' /\ ActiveIsUnreported' /\ CancelIsHonoured'
      BY <1>0, <1>1 DEF TypeOK, NewIsUnlisted, ResultIsFinal, ActiveIsUnreported,
         CancelIsHonoured, ListRequest
  <2> QED
      BY <2>1, <2>2, <2>3 DEF ClientIsSound
<1>2. ASSUME NEW i \in Ids, FindRequest(a, i)
      PROVE  ClientIsSound'
  <2>1. TypeOK'
      BY <1>0, <1>2 DEF TypeOK, FindRequest
  <2>2. FoundIsListed'
      BY <1>0, <1>2 DEF TypeOK, FoundIsListed, FindRequest
  <2>3. NewIsUnlisted' /\ ResultIsFinal' /\ ActiveIsUnreported' /\ CancelIsHonoured'
      BY <1>0, <1>2 DEF NewIsUnlisted, ResultIsFinal, ActiveIsUnreported,
         CancelIsHonoured, FindRequest
  <2> QED
      BY <2>1, <2>2, <2>3 DEF ClientIsSound
<1>3. ASSUME StartRequest(a)
      PROVE  ClientIsSound'
  <2>1. TypeOK'
      BY <1>0, <1>3 DEF TypeOK, StartRequest, Idle, InHandler
  <2>2. FoundIsListed'
      BY <1>0, <1>3 DEF TypeOK, FoundIsListed, StartRequest
  <2>3. NewIsUnlisted' /\ ResultIsFinal' /\ ActiveIsUnreported' /\ CancelIsHonoured'
      BY <1>0, <1>3 DEF TypeOK, NewIsUnlisted, ResultIsFinal, ActiveIsUnreported,
         CancelIsHonoured, StartRequest
  <2> QED
      BY <2>1, <2>2, <2>3 DEF ClientIsSound
<1>4. ASSUME CancelRequest(a)
      PROVE  ClientIsSound'
  <2>1. target[a] \in Sessions /\ \E i \in Ids : active[i] = target[a]
      BY <1>0, <1>4 DEF FoundIsListed, CancelRequest
  <2>2. TypeOK'
      BY <1>0, <1>4, <2>1 DEF TypeOK, CancelRequest
  <2>3. FoundIsListed'
      BY <1>4 DEF FoundIsListed, CancelRequest
  <2>4. NewIsUnlisted' /\ ResultIsFinal' /\ ActiveIsUnreported'
      BY <1>0, <1>4 DEF NewIsUnlisted, ResultIsFinal, ActiveIsUnreported, CancelRequest
  <2>5. result[target[a]] # "ok"
      BY <1>0, <2>1 DEF ActiveIsUnreported, ResultIsFinal
  <2>6. CancelIsHonoured'
      BY <1>0, <1>4, <2>5 DEF CancelIsHonoured, CancelRequest
  <2> QED
      BY <2>2, <2>3, <2>4, <2>6 DEF ClientIsSound
<1> QED
    BY <1>1, <1>2, <1>3, <1>4

\* What a handler does before onRequestComplete changes no more than the stage
\* of its request, and whether it keeps m_cancel_guard.
Proceeds(s) ==
    /\ stage[s] \in {"connect", "write", "read", "connectFailed", "writeFailed"}
    /\ s \notin guarded
    /\ \E next \in {"connectFailed", "writeFailed", "write", "read"} :
          \/ stage' = [stage EXCEPT ![s] = next] /\ UNCHANGED guarded
          \/ stage' = [stage EXCEPT ![s] = "complete"] /\ UNCHANGED guarded
          \/ /\ stage' = [stage EXCEPT ![s] = "complete"]
             /\ s \in cancelled /\ guarded' = guarded \cup {s}
    /\ UNCHANGED <<id, cancelled, active, guard, target, result, cancels, closer>>

\* The steps of handlers up to onRequestComplete have this form.
LEMMA HandlerProceeds ==
    ASSUME TypeOK, NEW s \in Sessions,
           \/ ConnectDone(s) \/ WriteFails(s) \/ ReadFails(s)
           \/ AfterConnect(s) \/ AfterWrite(s)
    PROVE  Proceeds(s)
<1>1. CASE ConnectDone(s) \/ WriteFails(s) \/ ReadFails(s)
    BY <1>1 DEF TypeOK, ConnectDone, WriteFails, ReadFails, OpEnds, Proceeds
<1>2. CASE AfterConnect(s) \/ AfterWrite(s)
    BY <1>2 DEF AfterConnect, AfterWrite, CheckCancelled, Proceeds
<1> QED
    BY <1>1, <1>2

\* The steps of completion handlers.
LEMMA HandlerKeepsSound ==
    ASSUME ClientIsSound, NEW s \in Sessions, Handler(s)
    PROVE  ClientIsSound'
<1> USE ClientAssumption
<1>0. TypeOK /\ FoundIsListed /\ NewIsUnlisted /\ ResultIsFinal
      /\ ActiveIsUnreported /\ CancelIsHonoured
    BY DEF ClientIsSound
<1>1. ASSUME Proceeds(s)
      PROVE  ClientIsSound'
  <2>1. TypeOK'
      BY <1>0, <1>1 DEF TypeOK, Proceeds, InHandler
  <2>2. FoundIsListed' /\ CancelIsHonoured'
      BY <1>0, <1>1 DEF FoundIsListed, CancelIsHonoured, Proceeds
  <2>3. NewIsUnlisted' /\ ResultIsFinal' /\ ActiveIsUnreported'
      BY <1>0, <1>1 DEF TypeOK, NewIsUnlisted, ResultIsFinal, ActiveIsUnreported, Proceeds
  <2> QED
      BY <2>1, <2>2, <2>3 DEF ClientIsSound
<1>2. ASSUME Erase(s)
      PROVE  ClientIsSound'
  <2>1. TypeOK'
      BY <1>0, <1>2 DEF TypeOK, Erase, InHandler
  <2>2. FoundIsListed' /\ CancelIsHonoured'
      BY <1>0, <1>2 DEF FoundIsListed, CancelIsHonoured, Erase
  <2>3. NewIsUnlisted' /\ ResultIsFinal' /\ ActiveIsUnreported'
      BY <1>0, <1>2 DEF TypeOK, NewIsUnlisted, ResultIsFinal, ActiveIsUnreported, Erase
  <2> QED
      BY <2>1, <2>2, <2>3 DEF ClientIsSound
<1>3. ASSUME Report(s)
      PROVE  ClientIsSound'
  <2>1. TypeOK'
      BY <1>0, <1>3 DEF TypeOK, Report, InHandler
  <2>2. FoundIsListed'
      BY <1>0, <1>3 DEF FoundIsListed, Report
  <2>3. CancelIsHonoured'
      BY <1>0, <1>3 DEF TypeOK, CancelIsHonoured, Report
  <2>4. NewIsUnlisted' /\ ResultIsFinal' /\ ActiveIsUnreported'
      BY <1>0, <1>3 DEF TypeOK, NewIsUnlisted, ResultIsFinal, ActiveIsUnreported, Report
  <2> QED
      BY <2>1, <2>2, <2>3, <2>4 DEF ClientIsSound
<1> QED
    BY <1>0, <1>1, <1>2, <1>3, HandlerProceeds DEF Handler

\* close changes nothing of the requests.
LEMMA CloseKeepsSound == ASSUME ClientIsSound, Close \/ Join PROVE ClientIsSound'
    BY DEF Close, Join, requests, ClientIsSound, TypeOK, FoundIsListed, NewIsUnlisted,
       ResultIsFinal, ActiveIsUnreported, CancelIsHonoured

\* Every step keeps the client sound.
LEMMA NextIsSound == ClientIsSound /\ [Next]_vars => ClientIsSound'
<1>1. ASSUME ClientIsSound, Next PROVE ClientIsSound'
    BY <1>1, ApplicationKeepsSound, HandlerKeepsSound, CloseKeepsSound DEF Next
<1>2. ASSUME ClientIsSound, UNCHANGED vars PROVE ClientIsSound'
    BY <1>2 DEF ClientIsSound, TypeOK, FoundIsListed, NewIsUnlisted, ResultIsFinal,
       ActiveIsUnreported, CancelIsHonoured, vars
<1> QED
    BY <1>1, <1>2

\* The client is sound in every reachable state.
THEOREM ClientInvariant == Spec => []ClientIsSound
    BY InitIsSound, NextIsSound, PTL DEF Spec

\* The variables have their types, and only a handler that is in
\* onRequestComplete keeps m_cancel_guard.
THEOREM ClientTypeOK == Spec => []TypeOK
<1>1. ClientIsSound => TypeOK
    BY DEF ClientIsSound
<1> QED
    BY <1>1, ClientInvariant, PTL

\* What cancelRequest finds in m_active_sessions has not been reported.
THEOREM ClientActiveIsUnreported == Spec => []ActiveIsUnreported
<1>1. ClientIsSound => ActiveIsUnreported
    BY DEF ClientIsSound
<1> QED
    BY <1>1, ClientInvariant, PTL

\* No request that cancelRequest marked is reported as completed.
THEOREM ClientCancelIsHonoured == Spec => []CancelIsHonoured
<1>1. ClientIsSound => CancelIsHonoured
    BY DEF ClientIsSound
<1> QED
    BY <1>1, ClientInvariant, PTL
-----------------------------------------------------------------------------
(***************************************************************************)
(* The deadlock of cancelRequest is the only one.                          *)
(***************************************************************************)

\* A request in m_active_sessions that has not begun is one that some caller,
\* which waits for no mutex, is about to begin.
ListedIsStarted ==
    \A s \in Sessions : stage[s] = "listed" =>
        \E a \in Callers : target[a] = s /\ guard # a

\* Someone can take a step that they owe: the guards of StartRequest,
\* CancelRequest, Join and of the completion handlers.
CallerGoesOn(a) ==
    \/ ~ Idle(a) /\ guard # a /\ stage[target[a]] = "listed"
    \/ guard = a /\ target[a] \notin guarded
SessionGoesOn(s) ==
    \/ ThreadIsFree /\ stage[s] \in {"connect", "write", "read"}
    \/ stage[s] \in {"connectFailed", "writeFailed"} /\ s \notin guarded
    \/ stage[s] = "complete" /\ guard = Free
    \/ stage[s] = "report"
JoinGoesOn == closer = "joining" /\ \A s \in Sessions : stage[s] \in {"none", "done"}

\* While there is a request that is not reported, a caller in cancelRequest or
\* one in close, somebody goes on or the deadlock is there.
OnlyCancelDeadlocks ==
    \/ \E s \in Sessions : stage[s] \notin {"none", "done"}
    \/ guard # Free
    \/ closer = "joining"
    => \/ \E a \in Callers : CallerGoesOn(a)
       \/ \E s \in Sessions : SessionGoesOn(s)
       \/ JoinGoesOn
       \/ Deadlocked

LEMMA ListedStep == TypeOK /\ ListedIsStarted /\ [Next]_vars => ListedIsStarted'
<1> SUFFICES ASSUME TypeOK, ListedIsStarted, [Next]_vars,
                    NEW q \in Sessions, stage'[q] = "listed"
             PROVE  \E b \in Callers : target'[b] = q /\ guard' # b
    BY DEF ListedIsStarted
<1> USE ClientAssumption DEF TypeOK, ListedIsStarted, Idle
<1>1. ASSUME NEW a \in Callers, NEW s \in Sessions, NEW i \in Ids, ListRequest(a, s, i)
      PROVE  \E b \in Callers : target'[b] = q /\ guard' # b
  <2>1. CASE q = s
      BY <1>1, <2>1 DEF ListRequest
  <2>2. CASE q # s
    <3>1. stage[q] = "listed"
        BY <1>1, <2>2 DEF ListRequest
    <3>2. PICK b \in Callers : target[b] = q /\ guard # b
        BY <3>1
    <3> QED
        BY <1>1, <3>2 DEF ListRequest
  <2> QED
      BY <2>1, <2>2
<1>2. ASSUME NEW a \in Callers, NEW i \in Ids, FindRequest(a, i)
      PROVE  \E b \in Callers : target'[b] = q /\ guard' # b
  <2>1. PICK b \in Callers : target[b] = q /\ guard # b
      BY <1>2 DEF FindRequest
  <2> QED
      BY <1>2, <2>1 DEF FindRequest
<1>3. ASSUME NEW a \in Callers, StartRequest(a) \/ CancelRequest(a)
      PROVE  \E b \in Callers : target'[b] = q /\ guard' # b
  <2>1. /\ target' = [target EXCEPT ![a] = NoSession] /\ guard' \in {guard, Free}
        /\ stage[q] = "listed" /\ (guard = a \/ target[a] # q)
      BY <1>3 DEF StartRequest, CancelRequest
  <2>2. PICK b \in Callers : target[b] = q /\ guard # b
      BY <2>1
  <2> QED
      BY <2>1, <2>2
<1>4. ASSUME NEW s \in Sessions, Handler(s)
      PROVE  \E b \in Callers : target'[b] = q /\ guard' # b
  <2>1. UNCHANGED <<target, guard>> /\ stage[q] = "listed"
    <3>1. CASE ConnectDone(s) \/ WriteFails(s) \/ ReadFails(s)
        BY <3>1 DEF ConnectDone, WriteFails, ReadFails, OpEnds
    <3>2. CASE AfterConnect(s)
        BY <3>2 DEF AfterConnect, CheckCancelled
    <3>3. CASE AfterWrite(s)
        BY <3>3 DEF AfterWrite, CheckCancelled
    <3>4. CASE Erase(s) \/ Report(s)
        BY <3>4 DEF Erase, Report
    <3> QED
        BY <1>4, <3>1, <3>2, <3>3, <3>4 DEF Handler
  <2> QED
      BY <2>1
<1>5. CASE Close \/ Join \/ UNCHANGED vars
    BY <1>5 DEF Close, Join, requests, vars
<1> QED
    BY <1>1, <1>2, <1>3, <1>4, <1>5 DEF Next

\* Apart from a caller in cancelRequest and the handler of the request it
\* cancels, which wait for each other's mutex, no threads of the application
\* and of the client ever all wait: not for m_active_sessions_guard, not for an
\* m_cancel_guard, not for a free I/O thread, and not in close.
THEOREM ClientOnlyCancelDeadlocks == Spec => []OnlyCancelDeadlocks
<1>1. Init => ListedIsStarted
    BY DEF Init, ListedIsStarted
<1>2. TypeOK /\ ListedIsStarted => OnlyCancelDeadlocks
  <2> SUFFICES ASSUME TypeOK, ListedIsStarted,
                      \/ \E s \in Sessions : stage[s] \notin {"none", "done"}
                      \/ guard # Free
                      \/ closer = "joining"
               PROVE  \/ \E a \in Callers : CallerGoesOn(a)
                      \/ \E s \in Sessions : SessionGoesOn(s)
                      \/ JoinGoesOn
                      \/ Deadlocked
      BY DEF OnlyCancelDeadlocks
  <2>1. CASE guard # Free
    <3>1. PICK a \in Callers : guard = a
        BY <2>1 DEF TypeOK
    <3>2. CASE target[a] \notin guarded
        BY <3>1, <3>2 DEF CallerGoesOn
    <3>3. CASE target[a] \in guarded
      <4>1. target[a] \in Sessions /\ stage[target[a]] \in {"complete", "report"}
          BY <3>3 DEF TypeOK
      <4> QED
          BY <3>1, <3>3, <4>1 DEF SessionGoesOn, Deadlocked
    <3> QED
        BY <3>2, <3>3
  <2>2. CASE guard = Free /\ \E s \in Sessions : stage[s] \notin {"none", "done"}
    <3>1. ASSUME NEW s \in Sessions, stage[s] \in InHandler PROVE SessionGoesOn(s)
        BY <2>2, <3>1 DEF SessionGoesOn, InHandler, TypeOK
    <3>2. PICK s \in Sessions : stage[s] \notin {"none", "done"}
        BY <2>2
    <3>3. CASE stage[s] = "listed"
      <4>1. PICK a \in Callers : target[a] = s /\ guard # a
          BY <3>3 DEF ListedIsStarted
      <4> QED
          BY <3>3, <4>1, ClientAssumption DEF CallerGoesOn, Idle
    <3>4. CASE stage[s] \in {"connect", "write", "read"}
      <4>1. CASE ThreadIsFree
          BY <3>4, <4>1 DEF SessionGoesOn
      <4>2. CASE ~ ThreadIsFree
        <5>1. {q \in Sessions : stage[q] \in InHandler} # {}
            BY <4>2, FS_EmptySet, ClientAssumption DEF ThreadIsFree
        <5> QED
            BY <3>1, <5>1
      <4> QED
          BY <4>1, <4>2
    <3>5. CASE stage[s] \in InHandler
        BY <3>1, <3>5
    <3> QED
        BY <3>2, <3>3, <3>4, <3>5 DEF TypeOK
  <2>3. CASE closer = "joining" /\ \A s \in Sessions : stage[s] \in {"none", "done"}
      BY <2>3 DEF JoinGoesOn
  <2> QED
      BY <2>1, <2>2, <2>3
<1>3. TypeOK /\ ListedIsStarted /\ [Next]_vars => ListedIsStarted'
    BY ListedStep
<1> QED
    BY <1>1, <1>2, <1>3, ClientTypeOK, PTL DEF Spec
=============================================================================
