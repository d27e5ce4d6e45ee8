---------------------------- MODULE SyncServers ----------------------------
(***************************************************************************)
(* The two servers of the exercises that use blocking calls, and the       *)
(* blocking client: IterativeSyncTCPServer serves its clients one after    *)
(* the other on the thread that accepts them, ParallelSyncTCPServer gives  *)
(* each a detached thread.  They are alike but for that, so one module     *)
(* describes both and a variable that no action changes, parallel, says    *)
(* which it is.                                                            *)
(*                                                                         *)
(* main starts the accept thread, sleeps, sets m_stop and joins the        *)
(* thread, which may be blocked in accept() or, in the iterative server,   *)
(* in a client's read_until.  Then the process ends, and with it whatever  *)
(* detached threads there are.                                             *)
(*                                                                         *)
(* A client is a SyncTCPClient or one that never sends its line; either    *)
(* may go away at any time.                                                *)
(***************************************************************************)
EXTENDS Integers, Sequences

CONSTANT Clients

VARIABLES
    parallel,   \* which of the two servers it is
    stop,       \* m_stop
    main,       \* the main thread: "sleeping", "joining", "exited"
    acceptor,   \* the accept thread: "check", "accept", "handling", "ended"
    backlog,    \* connections that are not accepted yet
    handler,    \* HandleClient: "none", "reading", "working"
    accepted,   \* the clients that have been accepted
    socket,     \* the server's end: "open", "answered", "closed" unanswered
    client,     \* "start", "connected", "waiting", "done", "failed", "gone"
    sent        \* the clients whose request line is on its way or received

serverVars == <<parallel, stop, main, acceptor, handler>>
vars == <<serverVars, backlog, accepted, socket, client, sent>>

Init ==
    /\ parallel \in BOOLEAN
    /\ stop = FALSE /\ main = "sleeping" /\ acceptor = "check"
    /\ backlog = <<>> /\ accepted = {} /\ sent = {}
    /\ handler = [c \in Clients |-> "none"]
    /\ socket = [c \in Clients |-> "open"]
    /\ client = [c \in Clients |-> "start"]
-----------------------------------------------------------------------------
(***************************************************************************)
(* The client: connect(), sendRequest, receiveResponse, close().           *)
(***************************************************************************)

\* The acceptor is an object of Run: it listens until Run returns.
Listening == acceptor # "ended" /\ main # "exited"

Connect(c) ==
    /\ client[c] = "start" /\ Listening
    /\ client' = [client EXCEPT ![c] = "connected"]
    /\ backlog' = Append(backlog, c)
    /\ UNCHANGED <<serverVars, accepted, socket, sent>>

ConnectRefused(c) ==
    /\ client[c] = "start" /\ ~ Listening
    /\ client' = [client EXCEPT ![c] = "failed"]
    /\ UNCHANGED <<serverVars, backlog, accepted, socket, sent>>

SendRequest(c) ==
    /\ client[c] = "connected"
    /\ client' = [client EXCEPT ![c] = "waiting"]
    /\ sent' = sent \cup {c}
    /\ UNCHANGED <<serverVars, backlog, accepted, socket>>

ReceiveResponse(c) ==
    /\ client[c] = "waiting" /\ socket[c] = "answered"
    /\ client' = [client EXCEPT ![c] = "done"]
    /\ UNCHANGED <<serverVars, backlog, accepted, socket, sent>>

\* The connection ends first: write or read_until throws.
ReceiveFails(c) ==
    /\ client[c] \in {"connected", "waiting"} /\ socket[c] = "closed"
    /\ client' = [client EXCEPT ![c] = "failed"]
    /\ UNCHANGED <<serverVars, backlog, accepted, socket, sent>>

Leave(c) ==
    /\ client[c] \in {"connected", "waiting"}
    /\ client' = [client EXCEPT ![c] = "gone"]
    /\ UNCHANGED <<serverVars, backlog, accepted, socket, sent>>
-----------------------------------------------------------------------------
(***************************************************************************)
(* The accept thread.                                                      *)
(***************************************************************************)

Queued == {backlog[i] : i \in 1..Len(backlog)}

\* Mutant: m_stop is not looked at again.
CheckOnce ==
    /\ acceptor = "check"
    /\ acceptor' = "accept"
    /\ UNCHANGED <<parallel, stop, main, handler, backlog, accepted, socket, client, sent>>

\* The condition of Run's loop; at its end ~Acceptor closes the listening
\* socket and drops who is still in the backlog.
CheckStop ==
    /\ acceptor = "check"
    /\ IF stop
       THEN /\ acceptor' = "ended" /\ backlog' = <<>>
            /\ socket' = [c \in Clients |-> IF c \in Queued THEN "closed" ELSE socket[c]]
       ELSE acceptor' = "accept" /\ UNCHANGED <<backlog, socket>>
    /\ UNCHANGED <<parallel, stop, main, handler, accepted, client, sent>>

\* Mutants: the thread waits for the handler in both servers; in none.
AcceptAndHandle ==
    /\ acceptor = "accept" /\ backlog # <<>>
    /\ backlog' = Tail(backlog)
    /\ accepted' = accepted \cup {Head(backlog)}
    /\ handler' = [handler EXCEPT ![Head(backlog)] = "reading"]
    /\ acceptor' = "handling"
    /\ UNCHANGED <<parallel, stop, main, socket, client, sent>>
AcceptAndGoOn ==
    /\ acceptor = "accept" /\ backlog # <<>>
    /\ backlog' = Tail(backlog)
    /\ accepted' = accepted \cup {Head(backlog)}
    /\ handler' = [handler EXCEPT ![Head(backlog)] = "reading"]
    /\ acceptor' = "check"
    /\ UNCHANGED <<parallel, stop, main, socket, client, sent>>

\* Acceptor::Accept, blocked while nobody connects.  StartHandlingClient
\* returns at once, HandleClient when the client is served.
Accept ==
    /\ acceptor = "accept" /\ backlog # <<>>
    /\ backlog' = Tail(backlog)
    /\ accepted' = accepted \cup {Head(backlog)}
    /\ handler' = [handler EXCEPT ![Head(backlog)] = "reading"]
    /\ acceptor' = IF parallel THEN "check" ELSE "handling"
    /\ UNCHANGED <<parallel, stop, main, socket, client, sent>>
-----------------------------------------------------------------------------
(***************************************************************************)
(* HandleClient.                                                           *)
(***************************************************************************)

ReadUntil(c) ==
    /\ handler[c] = "reading" /\ c \in sent
    /\ handler' = [handler EXCEPT ![c] = "working"]
    /\ UNCHANGED <<parallel, stop, main, acceptor, backlog, accepted, socket, client, sent>>

\* HandleClient returns, and the socket is closed.
Return(c, end) ==
    /\ handler' = [handler EXCEPT ![c] = "none"]
    /\ socket' = [socket EXCEPT ![c] = end]
    /\ acceptor' = IF parallel THEN acceptor ELSE "check"
    /\ UNCHANGED <<parallel, stop, main, backlog, accepted, client, sent>>

WriteResponse(c) == handler[c] = "working" /\ Return(c, "answered")

\* read_until or write throws a system_error, which is caught: the client went
\* away without a line, or before its answer.
HandleFails(c) ==
    /\ client[c] = "gone"
    /\ handler[c] = "working" \/ (handler[c] = "reading" /\ c \notin sent)
    /\ Return(c, "closed")
-----------------------------------------------------------------------------
(***************************************************************************)
(* The main thread.                                                        *)
(***************************************************************************)

Stop ==
    /\ main = "sleeping"
    /\ main' = "joining" /\ stop' = TRUE
    /\ UNCHANGED <<parallel, acceptor, handler, backlog, accepted, socket, client, sent>>

\* Mutant: the thread is not joined.
ExitAtOnce ==
    /\ main = "joining"
    /\ main' = "exited" /\ acceptor' = "ended" /\ backlog' = <<>>
    /\ handler' = [c \in Clients |-> "none"]
    /\ socket' = [c \in Clients |-> IF handler[c] # "none" \/ c \in Queued
                                    THEN "closed" ELSE socket[c]]
    /\ UNCHANGED <<parallel, stop, accepted, client, sent>>

\* join() returns and main does: the process ends with its threads.
Exit ==
    /\ main = "joining" /\ acceptor = "ended"
    /\ main' = "exited"
    /\ handler' = [c \in Clients |-> "none"]
    /\ socket' = [c \in Clients |-> IF handler[c] # "none" THEN "closed" ELSE socket[c]]
    /\ UNCHANGED <<parallel, stop, acceptor, backlog, accepted, client, sent>>
-----------------------------------------------------------------------------
AcceptThread == CheckStop \/ Accept
HandlerThread(c) == ReadUntil(c) \/ WriteResponse(c) \/ HandleFails(c)
Answered(c) == ReceiveResponse(c) \/ ReceiveFails(c)

Next ==
    \/ AcceptThread \/ Stop \/ Exit
    \/ \E c \in Clients :
         \/ HandlerThread(c) \/ Answered(c)
         \/ Connect(c) \/ ConnectRefused(c) \/ SendRequest(c) \/ Leave(c)

Spec == Init /\ [][Next]_vars

(***************************************************************************)
(* Fairness: a thread whose call can return goes on, and what arrives at a *)
(* client is read.  Nothing makes a client connect, send or leave, and     *)
(* nothing is said of how long main sleeps.                                *)
(***************************************************************************)
FairSpec ==
    /\ Spec
    /\ WF_vars(AcceptThread) /\ WF_vars(Exit)
    /\ \A c \in Clients : WF_vars(HandlerThread(c)) /\ WF_vars(Answered(c))
-----------------------------------------------------------------------------
(***************************************************************************)
(* Properties.                                                             *)
(***************************************************************************)

\* Every variable holds values of its type; the iterative server handles a
\* client exactly while its only thread is at it.
TypeOK ==
    /\ parallel \in BOOLEAN /\ stop \in BOOLEAN
    /\ main \in {"sleeping", "joining", "exited"} /\ (stop <=> main # "sleeping")
    /\ acceptor \in {"check", "accept", "handling", "ended"}
    /\ backlog \in Seq(Clients) /\ accepted \subseteq Clients /\ sent \subseteq Clients
    /\ handler \in [Clients -> {"none", "reading", "working"}]
    /\ socket \in [Clients -> {"open", "answered", "closed"}]
    /\ client \in [Clients -> {"start", "connected", "waiting", "done", "failed", "gone"}]
    /\ ~ parallel => (acceptor = "handling" <=> \E c \in Clients : handler[c] # "none")

\* Whoever holds up the iterative server: its thread reads from a client that
\* neither sends nor leaves.
HeldUp ==
    /\ ~ parallel
    /\ \E c \in Clients : handler[c] = "reading" /\ c \notin sent /\ client[c] # "gone"

\* A client that has sent its line gets its answer while the server is not
\* being stopped, whatever the clients before it do: in the parallel server a
\* silent client holds up nobody, in the iterative one only while it is served.
ClientIsAnswered ==
    \A c \in Clients :
        client[c] = "waiting" ~> client[c] \in {"done", "gone"} \/ main # "sleeping" \/ HeldUp

\* Stop() returns when there is a client for accept() to return with.
StopReturns == main = "joining" /\ backlog # <<>> ~> main = "exited" \/ HeldUp

\* Stopping cuts no client off that has been accepted, except for those of the
\* parallel server's threads, which nobody joins, when the process ends.
AcceptedIsServed ==
    \A c \in accepted : socket[c] = "closed" =>
        client[c] = "gone" \/ (parallel /\ main = "exited")
=============================================================================
