--------------------------- MODULE SyncServersProof ---------------------------
(***************************************************************************)
(* Safety of the blocking servers, for every set of clients.               *)
(*                                                                         *)
(* AcceptedIsServed is not inductive: that closing the backlog hits nobody *)
(* who has been accepted rests on every client being in the backlog once,  *)
(* before it is accepted and never after (Connections), and that the end   *)
(* of the iterative server hits nobody on its one handler (OneHandler).    *)
(***************************************************************************)
EXTENDS SyncServers, TLAPS

Connections ==
    /\ \A i \in 1..Len(backlog) :
         /\ backlog[i] \notin accepted
         /\ client[backlog[i]] # "start" /\ socket[backlog[i]] = "open"
         /\ handler[backlog[i]] = "none"
    /\ \A i, j \in 1..Len(backlog) : backlog[i] = backlog[j] => i = j
    /\ \A c \in Clients : client[c] = "start" =>
         c \notin accepted /\ socket[c] = "open" /\ handler[c] = "none"
    /\ \A c \in Clients : handler[c] # "none" => c \in accepted

OneHandler ==
    ~ parallel => \A c, d \in Clients : handler[c] # "none" /\ handler[d] # "none" => c = d

IInv == TypeOK /\ Connections /\ OneHandler /\ AcceptedIsServed

LEMMA InitEstablishesIInv == Init => IInv
<1> SUFFICES ASSUME Init PROVE IInv
  OBVIOUS
<1>1. backlog \in Seq(Clients) /\ Len(backlog) = 0
  BY DEF Init
<1>2. TypeOK
  BY <1>1 DEF Init, TypeOK
<1>3. Connections
  BY <1>1 DEF Init, Connections
<1>4. OneHandler /\ AcceptedIsServed
  BY DEF Init, OneHandler, AcceptedIsServed
<1> QED
  BY <1>2, <1>3, <1>4 DEF IInv

\* What clients do.
LEMMA ClientKeepsIInv ==
    ASSUME IInv, NEW c \in Clients,
           \/ Connect(c) \/ ConnectRefused(c) \/ SendRequest(c) \/ Answered(c) \/ Leave(c)
    PROVE  IInv'
<1> USE DEF IInv, TypeOK, Connections, OneHandler, AcceptedIsServed, serverVars
<1>1. CASE Connect(c)
  <2>1. /\ Len(backlog') = Len(backlog) + 1
        /\ backlog'[Len(backlog) + 1] = c
        /\ \A i \in 1..Len(backlog) : backlog'[i] = backlog[i]
        /\ backlog' \in Seq(Clients)
    BY <1>1 DEF Connect
  <2> QED
    BY <1>1, <2>1 DEF Connect
<1>2. CASE ConnectRefused(c)
  BY <1>2 DEF ConnectRefused
<1>3. CASE SendRequest(c)
  BY <1>3 DEF SendRequest
<1>4. CASE Answered(c)
  BY <1>4 DEF Answered, ReceiveResponse, ReceiveFails
<1>5. CASE Leave(c)
  BY <1>5 DEF Leave
<1> QED
  BY <1>1, <1>2, <1>3, <1>4, <1>5

\* The accept thread.
LEMMA AcceptThreadKeepsIInv == ASSUME IInv, AcceptThread PROVE IInv'
<1> USE DEF IInv, TypeOK, Connections, OneHandler, AcceptedIsServed
<1>1. CASE CheckStop /\ ~ stop
  BY <1>1 DEF CheckStop
<1>2. CASE CheckStop /\ stop
  BY <1>2 DEF CheckStop, Queued
<1>3. CASE Accept
  <2> DEFINE h == Head(backlog)
  <2>1. /\ h = backlog[1] /\ h \in Clients
        /\ Len(backlog') = Len(backlog) - 1
        /\ \A i \in 1..Len(backlog') : backlog'[i] = backlog[i + 1]
        /\ backlog' \in Seq(Clients)
    BY <1>3 DEF Accept
  <2>2. /\ accepted' = accepted \cup {h}
        /\ handler' = [handler EXCEPT ![h] = "reading"]
        /\ acceptor = "accept"
        /\ acceptor' = IF parallel THEN "check" ELSE "handling"
        /\ UNCHANGED <<parallel, stop, main, socket, client, sent>>
    BY <1>3 DEF Accept
  <2> HIDE DEF h
  <2>3. TypeOK'
    <3>1. \A c \in Clients : parallel \/ handler[c] = "none"
      BY <2>2
    <3> QED
      BY <2>1, <2>2, <3>1
  <2>4. Connections'
    <3>1. \A i \in 1..Len(backlog') :
            /\ i + 1 \in 1..Len(backlog) /\ backlog'[i] = backlog[i + 1]
            /\ backlog[i + 1] # h /\ backlog[i + 1] \in Clients
      BY <2>1
    <3>2. \A i \in 1..Len(backlog') :
            /\ backlog'[i] \notin accepted'
            /\ client'[backlog'[i]] # "start" /\ socket'[backlog'[i]] = "open"
            /\ handler'[backlog'[i]] = "none"
      BY <2>2, <3>1
    <3>3. \A i, j \in 1..Len(backlog') : backlog'[i] = backlog'[j] => i = j
      <4> SUFFICES ASSUME NEW i \in 1..Len(backlog'), NEW j \in 1..Len(backlog'),
                          backlog'[i] = backlog'[j]
                   PROVE  i = j
        OBVIOUS
      <4>1. i + 1 = j + 1
        BY <3>1
      <4> QED
        BY <4>1
    <3>4. client[h] # "start"
      BY <2>1
    <3>5. \A c \in Clients : client'[c] = "start" =>
            c \notin accepted' /\ socket'[c] = "open" /\ handler'[c] = "none"
      BY <2>1, <2>2, <3>4
    <3>6. \A c \in Clients : handler'[c] # "none" => c \in accepted'
      BY <2>1, <2>2
    <3> QED
      BY <3>2, <3>3, <3>5, <3>6
  <2>5. OneHandler'
    BY <2>1, <2>2
  <2>6. AcceptedIsServed'
    BY <2>1, <2>2
  <2> QED
    BY <2>3, <2>4, <2>5, <2>6
<1> QED
  BY <1>1, <1>2, <1>3 DEF AcceptThread

\* HandleClient.
LEMMA HandlerThreadKeepsIInv ==
    ASSUME IInv, NEW c \in Clients, HandlerThread(c) PROVE IInv'
<1> USE DEF IInv, TypeOK, Connections, OneHandler, AcceptedIsServed
<1>1. CASE ReadUntil(c)
  BY <1>1 DEF ReadUntil
<1>2. CASE WriteResponse(c)
  BY <1>2 DEF WriteResponse, Return
<1>3. CASE HandleFails(c)
  BY <1>3 DEF HandleFails, Return
<1> QED
  BY <1>1, <1>2, <1>3 DEF HandlerThread

\* The main thread.
LEMMA MainKeepsIInv == ASSUME IInv, Stop \/ Exit PROVE IInv'
<1> USE DEF IInv, TypeOK, Connections, OneHandler, AcceptedIsServed
<1>1. CASE Stop
  BY <1>1 DEF Stop
<1>2. CASE Exit
  BY <1>2 DEF Exit
<1> QED
  BY <1>1, <1>2

LEMMA NextKeepsIInv == ASSUME IInv, [Next]_vars PROVE IInv'
<1>1. CASE UNCHANGED vars
  BY <1>1 DEF vars, serverVars, IInv, TypeOK, Connections, OneHandler, AcceptedIsServed
<1> QED
  BY <1>1, ClientKeepsIInv, AcceptThreadKeepsIInv, HandlerThreadKeepsIInv, MainKeepsIInv
     DEF Next

LEMMA IInvIsInvariant == Spec => []IInv
BY InitEstablishesIInv, NextKeepsIInv, PTL DEF Spec

\* The variables keep their types, and the iterative server's thread is in
\* HandleClient exactly while a client is being handled.
THEOREM ServersTypeOK == Spec => []TypeOK
<1>1. IInv => TypeOK
  BY DEF IInv
<1> QED
  BY <1>1, IInvIsInvariant, PTL

\* Stop() cuts off nobody who has been accepted, but for the clients of the
\* parallel server's detached threads.
THEOREM ServersAcceptedIsServed == Spec => []AcceptedIsServed
<1>1. IInv => AcceptedIsServed
  BY DEF IInv
<1> QED
  BY <1>1, IInvIsInvariant, PTL
-----------------------------------------------------------------------------
(***************************************************************************)
(* Nobody who waits is lost.                                               *)
(***************************************************************************)

\* A client that is connected is in the backlog, being handled, or its socket
\* tells it what has become of it.
NobodyIsForgotten ==
    \A c \in Clients : client[c] \in {"connected", "waiting"} =>
        c \in Queued \/ handler[c] # "none" \/ socket[c] # "open"

\* Nobody is in the backlog of a listening socket that is closed, who waits has
\* sent its line, and the parallel server's thread handles nobody itself.
Listens ==
    /\ acceptor = "ended" => backlog = <<>>
    /\ \A c \in Clients : client[c] = "waiting" => c \in sent
    /\ parallel => acceptor # "handling"

\* The guards of the accept thread's steps, and of a handler's.
AcceptThreadGoesOn == acceptor = "check" \/ (acceptor = "accept" /\ backlog # <<>>)
HandlerGoesOn(c) ==
    \/ handler[c] = "working"
    \/ handler[c] = "reading" /\ (c \in sent \/ client[c] = "gone")

\* Who waits for an answer has it, or the end of its connection, on its socket,
\* or is being served, or is in the backlog of a thread that goes on, after the
\* client it is with if need be, unless the iterative server is held up.
WaitingIsServed ==
    \A c \in Clients : client[c] = "waiting" =>
        \/ socket[c] # "open"
        \/ HandlerGoesOn(c)
        \/ c \in Queued /\ (AcceptThreadGoesOn \/ HeldUp \/ \E d \in Clients : HandlerGoesOn(d))

\* What clients do.
LEMMA ClientForgetsNobody ==
    ASSUME TypeOK, NobodyIsForgotten, Listens, NEW c \in Clients,
           \/ Connect(c) \/ ConnectRefused(c) \/ SendRequest(c) \/ Answered(c) \/ Leave(c)
    PROVE  NobodyIsForgotten' /\ Listens'
<1> USE DEF TypeOK, serverVars
<1>1. CASE Connect(c)
  <2>1. /\ Len(backlog') = Len(backlog) + 1 /\ Len(backlog) \in Nat
        /\ backlog'[Len(backlog) + 1] = c
        /\ \A i \in 1..Len(backlog) : backlog'[i] = backlog[i]
        /\ client' = [client EXCEPT ![c] = "connected"] /\ acceptor # "ended"
        /\ UNCHANGED <<serverVars, accepted, socket, sent>>
    BY <1>1 DEF Connect, Listening
  <2>2. Queued' = Queued \cup {c}
    BY <2>1 DEF Queued
  <2>3. NobodyIsForgotten'
    BY <2>1, <2>2 DEF NobodyIsForgotten
  <2>4. Listens'
    BY <2>1 DEF Listens
  <2> QED
    BY <2>3, <2>4
<1>2. CASE ConnectRefused(c) \/ Answered(c) \/ Leave(c) \/ SendRequest(c)
  <2>1. /\ UNCHANGED <<serverVars, backlog, socket>> /\ sent \subseteq sent'
        /\ \A d \in Clients : client'[d] \in {"connected", "waiting"} =>
             client[d] \in {"connected", "waiting"}
        /\ \A d \in Clients : client'[d] = "waiting" => client[d] = "waiting" \/ d \in sent'
    BY <1>2 DEF ConnectRefused, Answered, ReceiveResponse, ReceiveFails, Leave, SendRequest
  <2>2. Queued' = Queued
    BY <2>1 DEF Queued
  <2> QED
    BY <2>1, <2>2 DEF NobodyIsForgotten, Listens
<1> QED
  BY <1>1, <1>2

\* What the server's threads do.
LEMMA ServerForgetsNobody ==
    ASSUME TypeOK, NobodyIsForgotten, Listens,
           AcceptThread \/ Stop \/ Exit \/ \E c \in Clients : HandlerThread(c)
    PROVE  NobodyIsForgotten' /\ Listens'
<1> USE DEF TypeOK
<1>1. CASE CheckStop /\ ~ stop
  <2>1. UNCHANGED <<backlog, socket, parallel, handler, client, sent>> /\ acceptor' = "accept"
    BY <1>1 DEF CheckStop
  <2> QED
    BY <2>1 DEF NobodyIsForgotten, Listens, Queued
<1>2. CASE CheckStop /\ stop
  <2>1. /\ acceptor' = "ended" /\ backlog' = <<>>
        /\ socket' = [c \in Clients |-> IF c \in Queued THEN "closed" ELSE socket[c]]
        /\ UNCHANGED <<parallel, handler, client, sent>>
    BY <1>2 DEF CheckStop
  <2> QED
    BY <2>1 DEF NobodyIsForgotten, Listens
<1>3. CASE Accept
  <2> DEFINE h == Head(backlog)
  <2>1. /\ h = backlog[1] /\ h \in Clients /\ Len(backlog) \in Nat
        /\ Len(backlog') = Len(backlog) - 1
        /\ \A i \in 1..Len(backlog') : backlog'[i] = backlog[i + 1]
    BY <1>3 DEF Accept
  <2>2. /\ handler' = [handler EXCEPT ![h] = "reading"]
        /\ acceptor' = IF parallel THEN "check" ELSE "handling"
        /\ UNCHANGED <<parallel, socket, client, sent>>
    BY <1>3 DEF Accept
  <2> HIDE DEF h
  <2>3. Queued \subseteq Queued' \cup {h}
    <3> SUFFICES ASSUME NEW i \in 1..Len(backlog), i # 1 PROVE backlog[i] \in Queued'
      BY <2>1 DEF Queued
    <3>1. i - 1 \in 1..Len(backlog') /\ (i - 1) + 1 = i
      BY <2>1
    <3>2. backlog'[i - 1] = backlog[i]
      BY <2>1, <3>1
    <3> QED
      BY <3>1, <3>2 DEF Queued
  <2> QED
    BY <2>1, <2>2, <2>3 DEF NobodyIsForgotten, Listens
<1>4. ASSUME NEW c \in Clients, HandlerThread(c) PROVE NobodyIsForgotten' /\ Listens'
  <2>1. CASE ReadUntil(c)
    BY <2>1 DEF ReadUntil, NobodyIsForgotten, Listens, Queued
  <2>2. CASE WriteResponse(c) \/ HandleFails(c)
    <3>1. /\ UNCHANGED <<parallel, backlog, client, sent>>
          /\ handler' = [handler EXCEPT ![c] = "none"]
          /\ socket' = [socket EXCEPT ![c] = "answered"] \/ socket' = [socket EXCEPT ![c] = "closed"]
          /\ handler[c] # "none" /\ acceptor' = IF parallel THEN acceptor ELSE "check"
      BY <2>2 DEF WriteResponse, HandleFails, Return
    <3>2. Queued' = Queued
      BY <3>1 DEF Queued
    <3>3. NobodyIsForgotten'
      BY <3>1, <3>2 DEF NobodyIsForgotten
    <3>4. Listens'
      BY <3>1 DEF Listens
    <3> QED
      BY <3>3, <3>4
  <2> QED
    BY <1>4, <2>1, <2>2 DEF HandlerThread
<1>5. CASE Stop
  BY <1>5 DEF Stop, NobodyIsForgotten, Listens, Queued
<1>6. CASE Exit
  <2>1. /\ handler' = [c \in Clients |-> "none"]
        /\ socket' = [c \in Clients |-> IF handler[c] # "none" THEN "closed" ELSE socket[c]]
        /\ UNCHANGED <<parallel, acceptor, backlog, client, sent>>
    BY <1>6 DEF Exit
  <2>2. Queued' = Queued
    BY <2>1 DEF Queued
  <2> QED
    BY <2>1, <2>2 DEF NobodyIsForgotten, Listens
<1> QED
  BY <1>1, <1>2, <1>3, <1>4, <1>5, <1>6 DEF AcceptThread

\* Nobody who waits is lost between the backlog, the handlers and the answer,
\* in either server and also while it is being stopped: some thread's next step
\* brings the answer nearer, but for a silent client that holds up the
\* iterative server.
THEOREM ServersWaitingIsServed == Spec => []WaitingIsServed
<1>1. Init => NobodyIsForgotten /\ Listens
  BY DEF Init, NobodyIsForgotten, Listens
<1>2. TypeOK /\ NobodyIsForgotten /\ Listens /\ [Next]_vars => NobodyIsForgotten' /\ Listens'
  <2>1. UNCHANGED vars /\ NobodyIsForgotten /\ Listens => NobodyIsForgotten' /\ Listens'
    BY DEF vars, serverVars, NobodyIsForgotten, Listens, Queued
  <2> QED
    BY <2>1, ClientForgetsNobody, ServerForgetsNobody DEF Next
<1>3. TypeOK /\ NobodyIsForgotten /\ Listens => WaitingIsServed
  <2> SUFFICES ASSUME TypeOK, NobodyIsForgotten, Listens, NEW c \in Clients,
                      client[c] = "waiting", socket[c] = "open", ~ HandlerGoesOn(c)
               PROVE  c \in Queued /\ (AcceptThreadGoesOn \/ HeldUp
                                         \/ \E d \in Clients : HandlerGoesOn(d))
    BY DEF WaitingIsServed
  <2>1. c \in Queued
    BY DEF TypeOK, NobodyIsForgotten, Listens, HandlerGoesOn
  <2>2. backlog # <<>> /\ acceptor # "ended"
    BY <2>1 DEF Queued, Listens
  <2>3. CASE acceptor \in {"check", "accept"}
    BY <2>1, <2>2, <2>3 DEF AcceptThreadGoesOn
  <2>4. CASE acceptor = "handling"
    <3>1. ~ parallel
      BY <2>4 DEF Listens
    <3>2. PICK d \in Clients : handler[d] # "none"
      BY <2>4, <3>1 DEF TypeOK
    <3>3. handler[d] \in {"reading", "working"}
      BY <3>2 DEF TypeOK
    <3> QED
      BY <2>1, <3>1, <3>3 DEF HandlerGoesOn, HeldUp
  <2> QED
    BY <2>2, <2>3, <2>4 DEF TypeOK
<1> QED
  BY <1>1, <1>2, <1>3, ServersTypeOK, PTL DEF Spec
=============================================================================
