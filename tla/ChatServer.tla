----------------------------- MODULE ChatServer -----------------------------
(***************************************************************************)
(* The chat server (boost_Chat_Server/Server.cpp).  A pool of threads runs *)
(* one io_context.  A Service has one read outstanding at a time, so its   *)
(* own handlers follow one another; the handlers of several services run   *)
(* side by side and meet in the map m_clients, under m_clients_mutex.      *)
(*                                                                         *)
(* A handler is cut where it takes or gives back the mutex, and between    *)
(* the writes of a broadcast.  A line is named by the number of the        *)
(* broadcast it becomes.  What is recorded of a write is that it was begun,*)
(* and in which order: asio sends the writes to one socket in this order   *)
(* as long as each fits into the socket's send buffer.                     *)
(***************************************************************************)
EXTENDS Integers, Sequences, FiniteSets

CONSTANTS
    Conns,        \* connections
    Names,        \* nicknames that are not empty
    Empty,        \* the empty line, and the nickname of a new Service
    NoOne,        \* owner of a free mutex, entry that is not in the map
    ThreadPoolSize,
    MaxPosts      \* bound: broadcasts

ASSUME ChatAssumption ==
    /\ Empty \notin Names /\ NoOne \notin Conns
    /\ ThreadPoolSize \in Nat \ {0} /\ MaxPosts \in Nat

VARIABLES
    phase,        \* of a Service: "none"; "reading", its read is outstanding;
                  \* "naming", "posting" and "writing", in its handler before
                  \* and in registerClient, before and in broadcastMessage;
                  \* "gone", destroyed
    nickname,     \* m_nickname
    clients,      \* m_clients: the connection of each entry, or NoOne
    owner,        \* the service whose handler holds m_clients_mutex
    todo,         \* the entries that a broadcast has still to write to
    left,         \* the connections whose client is gone
    inbox,        \* the broadcasts written to each socket
    \* History
    posted,       \* how many broadcasts have taken the mutex
    post,         \* the number of each service's last broadcast
    since         \* how many there were when a connection was registered

vars == <<phase, nickname, clients, owner, todo, left, inbox, posted, post, since>>

Lines == Names \cup {Empty}
InHandler == {"naming", "posting", "writing"}
Entries(c) == {n \in Lines : clients[n] = c}

Init ==
    /\ phase = [c \in Conns |-> "none"]
    /\ nickname = [c \in Conns |-> Empty]
    /\ clients = [n \in Lines |-> NoOne]
    /\ owner = NoOne
    /\ todo = [c \in Conns |-> {}]
    /\ left = {}
    /\ inbox = [c \in Conns |-> <<>>]
    /\ posted = 0
    /\ post = [c \in Conns |-> 0] /\ since = [c \in Conns |-> 0]
-----------------------------------------------------------------------------
\* doAccept and the first StartHandling.
Accept(c) ==
    /\ phase[c] = "none"
    /\ phase' = [phase EXCEPT ![c] = "reading"]
    /\ UNCHANGED <<nickname, clients, owner, todo, left, inbox, posted, post, since>>

\* The client closes its connection, at any time.
Leave(c) ==
    /\ phase[c] \notin {"none", "gone"} /\ c \notin left
    /\ left' = left \cup {c}
    /\ UNCHANGED <<phase, nickname, clients, owner, todo, inbox, posted, post, since>>

\* onRequestReceived on a thread of the pool, up to the mutex.  A line that
\* comes while m_nickname is empty is the nickname.
ReadLine(c, line) ==
    /\ phase[c] = "reading"
    /\ Cardinality({d \in Conns : phase[d] \in InHandler}) < ThreadPoolSize
    /\ posted < MaxPosts
    /\ IF nickname[c] = Empty
       THEN /\ nickname' = [nickname EXCEPT ![c] = line]
            /\ phase' = [phase EXCEPT ![c] = "naming"]
       ELSE /\ phase' = [phase EXCEPT ![c] = "posting"]
            /\ UNCHANGED nickname
    /\ UNCHANGED <<clients, owner, todo, left, inbox, posted, post, since>>

\* onRequestReceived with an error: nothing refers to the Service any more,
\* while the map keeps its socket.
ReadFails(c) ==
    /\ phase[c] = "reading" /\ c \in left
    /\ phase' = [phase EXCEPT ![c] = "gone"]
    /\ UNCHANGED <<nickname, clients, owner, todo, left, inbox, posted, post, since>>

\* Mutant: the map is not searched for the nickname.
RegisterAnyone(c) ==
    /\ phase[c] = "naming" /\ owner = NoOne
    /\ clients' = [clients EXCEPT ![nickname[c]] = c]
    /\ phase' = [phase EXCEPT ![c] = "posting"]
    /\ since' = [since EXCEPT ![c] = posted]
    /\ UNCHANGED <<nickname, owner, todo, left, inbox, posted, post>>

\* Mutant: the mutex of registerClient is held in broadcastMessage too.
RegisterKeepsLock(c) ==
    /\ phase[c] = "naming" /\ owner = NoOne
    /\ IF clients[nickname[c]] = NoOne
       THEN /\ clients' = [clients EXCEPT ![nickname[c]] = c]
            /\ phase' = [phase EXCEPT ![c] = "posting"]
            /\ since' = [since EXCEPT ![c] = posted]
            /\ owner' = c
       ELSE /\ phase' = [phase EXCEPT ![c] = "gone"]
            /\ UNCHANGED <<clients, since, owner>>
    /\ UNCHANGED <<nickname, todo, left, inbox, posted, post>>

\* registerClient, mutex included.  Who asks for a nickname of the map is told
\* so, its socket is closed, and the handler returns without another read.
Register(c) ==
    /\ phase[c] = "naming" /\ owner = NoOne
    /\ IF clients[nickname[c]] = NoOne
       THEN /\ clients' = [clients EXCEPT ![nickname[c]] = c]
            /\ phase' = [phase EXCEPT ![c] = "posting"]
            /\ since' = [since EXCEPT ![c] = posted]
       ELSE /\ phase' = [phase EXCEPT ![c] = "gone"]
            /\ UNCHANGED <<clients, since>>
    /\ UNCHANGED <<nickname, owner, todo, left, inbox, posted, post>>

\* Mutant: broadcastMessage does not take the mutex.
BroadcastUnlocked(c) ==
    /\ phase[c] = "posting"
    /\ phase' = [phase EXCEPT ![c] = "writing"]
    /\ posted' = posted + 1
    /\ post' = [post EXCEPT ![c] = posted + 1]
    /\ todo' = [todo EXCEPT ![c] = {n \in Lines : clients[n] # NoOne}]
    /\ UNCHANGED <<nickname, clients, owner, left, inbox, since>>

\* broadcastMessage takes the mutex: an announcement or a line.
BroadcastBegin(c) ==
    /\ phase[c] = "posting" /\ owner = NoOne
    /\ owner' = c
    /\ phase' = [phase EXCEPT ![c] = "writing"]
    /\ posted' = posted + 1
    /\ post' = [post EXCEPT ![c] = posted + 1]
    /\ todo' = [todo EXCEPT ![c] = {n \in Lines : clients[n] # NoOne}]
    /\ UNCHANGED <<nickname, clients, left, inbox, since>>

\* One round of its loop, in the order of the map.  A write to a socket that
\* is closed, or whose client is gone, fails later and is only logged.
Write(c, n) ==
    /\ phase[c] = "writing" /\ n \in todo[c]
    /\ todo' = [todo EXCEPT ![c] = @ \ {n}]
    /\ inbox' = [inbox EXCEPT ![clients[n]] = Append(@, post[c])]
    /\ UNCHANGED <<phase, nickname, clients, owner, left, posted, post, since>>

\* The mutex is given back, and StartHandling begins the next read.
BroadcastEnd(c) ==
    /\ phase[c] = "writing" /\ todo[c] = {}
    /\ owner' = NoOne
    /\ phase' = [phase EXCEPT ![c] = "reading"]
    /\ UNCHANGED <<nickname, clients, todo, left, inbox, posted, post, since>>
-----------------------------------------------------------------------------
Handler(c) ==
    \/ Register(c) \/ BroadcastBegin(c) \/ BroadcastEnd(c)
    \/ \E n \in Lines : Write(c, n)

Next ==
    \E c \in Conns :
        \/ Accept(c) \/ Leave(c) \/ ReadFails(c)
        \/ \E line \in Lines : ReadLine(c, line)
        \/ Handler(c)

Spec == Init /\ [][Next]_vars

\* A thread that runs a handler goes on with it when it can.  Nothing is
\* assumed of clients.
FairSpec == Spec /\ \A c \in Conns : WF_vars(Handler(c))
-----------------------------------------------------------------------------
(***************************************************************************)
(* Properties.                                                             *)
(***************************************************************************)

\* Every variable holds values of its type, and the handler that holds the
\* mutex is in its broadcast.
TypeOK ==
    /\ phase \in [Conns -> InHandler \cup {"none", "reading", "gone"}]
    /\ nickname \in [Conns -> Lines]
    /\ clients \in [Lines -> Conns \cup {NoOne}]
    /\ owner \in Conns \cup {NoOne}
    /\ todo \in [Conns -> SUBSET Lines]
    /\ left \subseteq Conns
    /\ inbox \in [Conns -> Seq(Nat)]
    /\ posted \in Nat /\ post \in [Conns -> Nat] /\ since \in [Conns -> Nat]
    /\ \A c \in Conns : phase[c] = "writing" <=> owner = c

\* Whoever chats under a nickname is the one its entry leads to: nobody else
\* chats under it, although services register on several threads.
NicknameLeadsToItsService ==
    \A c \in Conns :
        phase[c] \in {"reading", "posting", "writing"} /\ nickname[c] # Empty
            => clients[nickname[c]] = c

\* From its registration on, a connection is written every broadcast, once and
\* in the one order of the mutex, but for those whose loop has still to come to
\* it.  (Who sends an empty line first is in the map twice and is excepted.)
Coming(c) == {d \in Conns : phase[d] = "writing" /\ Entries(c) \cap todo[d] # {}}
ReceivesEveryBroadcast ==
    \A c \in Conns : Cardinality(Entries(c)) = 1 =>
        inbox[c] = [i \in 1 .. posted - since[c] - Cardinality(Coming(c)) |-> since[c] + i]

\* No handler waits for ever on the mutex: each comes to its next read, or to
\* the end of its service.
HandlerEnds ==
    \A c \in Conns : phase[c] \in InHandler ~> phase[c] \in {"reading", "gone"}
=============================================================================
