----------------------------- MODULE AsyncClient -----------------------------
(***************************************************************************)
(* The class AsyncTCPClient of MultiThreadAsyncTCPClient.cpp, and of       *)
(* AsyncTCPClient.cpp, which differs in having one I/O thread.             *)
(*                                                                         *)
(* Threads of the application call emulateLongComputationOp and            *)
(* cancelRequest; the I/O threads run completion handlers.  They meet in   *)
(* m_active_sessions, under m_active_sessions_guard, and in each session's *)
(* m_was_cancelled, under its m_cancel_guard.  A step ends where a thread  *)
(* has to wait for a mutex.                                                *)
(*                                                                         *)
(* The handlers test !ec where they mean ec.  A request whose connect      *)
(* succeeds is complete at once.  One whose connect fails goes on to write *)
(* and to read, which fail on a socket without a connection.               *)
(***************************************************************************)
EXTENDS Integers, FiniteSets

CONSTANTS
    Sessions,     \* Session objects, one for each request that is made
    Ids,          \* request ids that the application chooses
    NoId, NoSession, Free,
    Callers,      \* threads of the application
    Threads,      \* number of I/O threads
    MaxCancels    \* bound: calls of cancelRequest that find their request

ASSUME ClientAssumption ==
    /\ NoId \notin Ids /\ NoSession \notin Sessions
    /\ Free \notin Callers
    /\ Threads \in Nat \ {0} /\ MaxCancels \in Nat

VARIABLES
    id,           \* m_id
    stage,        \* of a session: "none"; "listed", in m_active_sessions;
                  \* "connect", "write", "read", the operation outstanding;
                  \* "connectFailed", "writeFailed", its handler before
                  \* m_cancel_guard; "complete" and "report", in
                  \* onRequestComplete before and after m_active_sessions_guard;
                  \* "done", its callback has returned
    cancelled,    \* the sessions whose m_was_cancelled is set
    guarded,      \* the sessions whose handler holds m_cancel_guard
    active,       \* m_active_sessions
    guard,        \* the caller that holds m_active_sessions_guard, or Free
    target,       \* the session that a caller is about to start or to cancel
    result,       \* what the callback was told: "none" yet, "ok", "aborted"
    cancels,      \* calls counted by MaxCancels
    closer        \* close(): "open", not called; "joining"; "closed", returned

vars == <<id, stage, cancelled, guarded, active, guard, target, result, cancels, closer>>

InHandler == {"connectFailed", "writeFailed", "complete", "report"}
Idle(a) == target[a] = NoSession

Init ==
    /\ id = [s \in Sessions |-> NoId]
    /\ stage = [s \in Sessions |-> "none"]
    /\ cancelled = {} /\ guarded = {}
    /\ active = [i \in Ids |-> NoSession]
    /\ guard = Free
    /\ target = [a \in Callers |-> NoSession]
    /\ result = [s \in Sessions |-> "none"]
    /\ cancels = 0 /\ closer = "open"
-----------------------------------------------------------------------------
(***************************************************************************)
(* The application.                                                        *)
(***************************************************************************)

\* emulateLongComputationOp up to lock.unlock(): an entry of the same id is
\* overwritten.
ListRequest(a, s, i) ==
    /\ Idle(a) /\ stage[s] = "none"
    /\ guard = Free /\ closer = "open"
    /\ id' = [id EXCEPT ![s] = i]
    /\ active' = [active EXCEPT ![i] = s]
    /\ stage' = [stage EXCEPT ![s] = "listed"]
    /\ target' = [target EXCEPT ![a] = s]
    /\ UNCHANGED <<cancelled, guarded, guard, result, cancels, closer>>

\* The rest of it: async_connect.
StartRequest(a) ==
    /\ ~ Idle(a) /\ guard # a /\ stage[target[a]] = "listed"
    /\ stage' = [stage EXCEPT ![target[a]] = "connect"]
    /\ target' = [target EXCEPT ![a] = NoSession]
    /\ UNCHANGED <<id, cancelled, guarded, active, guard, result, cancels, closer>>

\* cancelRequest up to m_cancel_guard; an id that is not found changes nothing.
FindRequest(a, i) ==
    /\ Idle(a) /\ guard = Free /\ closer = "open"
    /\ active[i] # NoSession /\ cancels < MaxCancels
    /\ guard' = a
    /\ target' = [target EXCEPT ![a] = active[i]]
    /\ cancels' = cancels + 1
    /\ UNCHANGED <<id, stage, cancelled, guarded, active, result, closer>>

\* The rest of it.  m_sock.cancel() makes outstanding operations fail, which
\* they may do in any case, but for completions that are queued already.
CancelRequest(a) ==
    /\ guard = a /\ target[a] \notin guarded
    /\ cancelled' = cancelled \cup {target[a]}
    /\ guard' = Free
    /\ target' = [target EXCEPT ![a] = NoSession]
    /\ UNCHANGED <<id, stage, guarded, active, result, cancels, closer>>

requests == <<id, stage, cancelled, guarded, active, guard, target, result, cancels>>

\* close up to the first join, the last call that the application makes: the
\* io_context is no longer kept at work.
Close ==
    /\ closer = "open" /\ \A a \in Callers : Idle(a)
    /\ closer' = "joining"
    /\ UNCHANGED requests

\* The I/O threads find nothing outstanding and end, and join returns.
Join ==
    /\ closer = "joining"
    /\ \A s \in Sessions : stage[s] \in {"none", "done"}
    /\ closer' = "closed"
    /\ UNCHANGED requests
-----------------------------------------------------------------------------
(***************************************************************************)
(* Completion handlers, on one of the I/O threads.                         *)
(***************************************************************************)
ThreadIsFree == Cardinality({s \in Sessions : stage[s] \in InHandler}) < Threads

OpEnds(s, from, to) ==
    /\ ThreadIsFree /\ stage[s] = from
    /\ stage' = [stage EXCEPT ![s] = to]
    /\ UNCHANGED <<id, cancelled, guarded, active, guard, target, result, cancels, closer>>

ConnectDone(s) == OpEnds(s, "connect", "complete") \/ OpEnds(s, "connect", "connectFailed")
WriteFails(s) == OpEnds(s, "write", "writeFailed")
ReadFails(s) == OpEnds(s, "read", "complete")

\* Mutant: a handler that finds its request cancelled does nothing more.
CheckGivesUp(s, next) ==
    /\ s \notin guarded /\ s \notin cancelled
    /\ stage' = [stage EXCEPT ![s] = next]
    /\ UNCHANGED <<id, cancelled, guarded, active, guard, target, result, cancels, closer>>

\* The handler of a failed operation takes m_cancel_guard, which callers hold
\* within CancelRequest only.  When the request was cancelled it keeps it
\* throughout onRequestComplete.
CheckCancelled(s, next) ==
    /\ s \notin guarded
    /\ IF s \in cancelled
       THEN /\ stage' = [stage EXCEPT ![s] = "complete"]
            /\ guarded' = guarded \cup {s}
       ELSE /\ stage' = [stage EXCEPT ![s] = next]
            /\ UNCHANGED guarded
    /\ UNCHANGED <<id, cancelled, active, guard, target, result, cancels, closer>>

AfterConnect(s) == stage[s] = "connectFailed" /\ CheckCancelled(s, "write")
AfterWrite(s) == stage[s] = "writeFailed" /\ CheckCancelled(s, "read")

\* Mutant: cancelled requests are not erased.
EraseUnlessCancelled(s) ==
    /\ stage[s] = "complete" /\ guard = Free
    /\ active' = IF s \in cancelled THEN active ELSE [active EXCEPT ![id[s]] = NoSession]
    /\ stage' = [stage EXCEPT ![s] = "report"]
    /\ UNCHANGED <<id, cancelled, guarded, guard, target, result, cancels, closer>>

\* Mutant: the entry is erased without the lock.
EraseUnlocked(s) ==
    /\ stage[s] = "complete"
    /\ active' = [active EXCEPT ![id[s]] = NoSession]
    /\ stage' = [stage EXCEPT ![s] = "report"]
    /\ UNCHANGED <<id, cancelled, guarded, guard, target, result, cancels, closer>>

\* onRequestComplete up to lock.unlock(): the entry goes by its id, whosever
\* it is.
Erase(s) ==
    /\ stage[s] = "complete" /\ guard = Free
    /\ active' = [active EXCEPT ![id[s]] = NoSession]
    /\ stage' = [stage EXCEPT ![s] = "report"]
    /\ UNCHANGED <<id, cancelled, guarded, guard, target, result, cancels, closer>>

\* Mutant: the handler's lock on m_cancel_guard is never released.
ReportKeepsLock(s) ==
    /\ stage[s] = "report"
    /\ result' = [result EXCEPT ![s] = IF s \in cancelled THEN "aborted" ELSE "ok"]
    /\ stage' = [stage EXCEPT ![s] = "done"]
    /\ UNCHANGED <<id, cancelled, guarded, active, guard, target, cancels, closer>>

\* The rest of it, and the end of the handler.  m_ec is only ever assigned a
\* success.
Report(s) ==
    /\ stage[s] = "report"
    /\ result' = [result EXCEPT ![s] = IF s \in cancelled THEN "aborted" ELSE "ok"]
    /\ stage' = [stage EXCEPT ![s] = "done"]
    /\ guarded' = guarded \ {s}
    /\ UNCHANGED <<id, cancelled, active, guard, target, cancels, closer>>
-----------------------------------------------------------------------------
Handler(s) ==
    \/ ConnectDone(s) \/ WriteFails(s) \/ ReadFails(s)
    \/ AfterConnect(s) \/ AfterWrite(s) \/ Erase(s) \/ Report(s)

Next ==
    \/ \E a \in Callers, s \in Sessions, i \in Ids : ListRequest(a, s, i)
    \/ \E a \in Callers, i \in Ids : FindRequest(a, i)
    \/ \E a \in Callers : StartRequest(a) \/ CancelRequest(a)
    \/ \E s \in Sessions : Handler(s)
    \/ Close \/ Join

Spec == Init /\ [][Next]_vars

\* Threads go on when they can, and every operation ends: a connect because
\* the system gives up, the others because they are bound to fail.
Fairness ==
    /\ \A a \in Callers : WF_vars(StartRequest(a) \/ CancelRequest(a))
    /\ \A s \in Sessions : WF_vars(Handler(s))
    /\ WF_vars(Join)

FairSpec == Spec /\ Fairness
-----------------------------------------------------------------------------
(***************************************************************************)
(* Properties.                                                             *)
(***************************************************************************)

\* Every variable holds values of its type, and only a handler that is in
\* onRequestComplete keeps m_cancel_guard.
TypeOK ==
    /\ id \in [Sessions -> Ids \cup {NoId}]
    /\ stage \in [Sessions -> InHandler \cup {"none", "listed", "connect", "write", "read", "done"}]
    /\ cancelled \subseteq Sessions
    /\ guarded \subseteq {s \in cancelled : stage[s] \in {"complete", "report"}}
    /\ active \in [Ids -> Sessions \cup {NoSession}]
    /\ guard \in Callers \cup {Free}
    /\ target \in [Callers -> Sessions \cup {NoSession}]
    /\ result \in [Sessions -> {"none", "ok", "aborted"}]
    /\ cancels \in Nat /\ closer \in {"open", "joining", "closed"}

\* A request that cancelRequest can find has not been reported, so that a
\* cancel never reaches a session whose callback has run.
ActiveIsUnreported ==
    \A i \in Ids, s \in Sessions :
        active[i] = s => id[s] = i /\ stage[s] \notin {"report", "done"}

\* Whoever cancels a request that is found is told that it was aborted: no
\* request that cancelRequest marked is reported as completed.
CancelIsHonoured ==
    \A s \in Sessions : result[s] = "ok" => s \notin cancelled

\* A caller holds the sessions' guard and waits for a request's m_cancel_guard,
\* whose holder waits for the sessions' guard.
Deadlocked ==
    \E a \in Callers : guard = a /\ target[a] \in guarded /\ stage[target[a]] = "complete"

\* Every request that is started is reported, unless two threads wait for each
\* other, and close, whenever it is called, waits for just that and returns.
EveryRequestIsReported ==
    /\ \A s \in Sessions : stage[s] = "listed" ~> (stage[s] = "done" \/ Deadlocked)
    /\ closer = "joining" ~> closer = "closed"

\* "a mutex for synchronisation on cancel": cancelRequest and the handlers of
\* the request never wait for each other.
CancelNeverDeadlocks == ~ Deadlocked
=============================================================================
