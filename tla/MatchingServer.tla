--------------------------- MODULE MatchingServer ---------------------------
(***************************************************************************)
(* The matching server: its sessions (core/session.cpp), the registries it *)
(* keeps about them (core/server.cpp) and, through RoomStore, its database.*)
(*                                                                         *)
(* main.cpp runs one thread in io_context::run, so a completion handler, a *)
(* timer handler or an accept handler runs to its end before the next one  *)
(* starts.  What interleaves is the order in which the outstanding         *)
(* operations of the sessions complete, against timers, new connections,   *)
(* time itself and the end of the process.                                 *)
(*                                                                         *)
(* A session is kept alive by its outstanding operations only: each holds  *)
(* a shared_ptr to it, and the registries hold weak_ptrs.  When the last   *)
(* one has completed, ~Session runs.  Operations are counted by kind:      *)
(*   hs     the read of the handshake                                      *)
(*   read   a read_message                                                 *)
(*   write  a write that is followed by a read_message                     *)
(*   bcast  a write_broadcast                                              *)
(*   fail   an operation begun on a closed socket: it can only fail        *)
(* Closing a socket does not take back completions that are queued, so an  *)
(* operation begun before may still succeed after.                         *)
(***************************************************************************)
EXTENDS Integers, FiniteSets

CONSTANTS
    Rooms, Users, GameIds, NoRoom, Requested,    \* of RoomStore
    Slots,          \* places for session objects
    IPs,            \* remote addresses
    Ports,          \* ports of mirror servers (db-init.sql: 40000 + i)
    PortOf,         \* rooms.port
    Uuids,          \* session tokens
    NoSlot, NoIp, NoPort, NoUser, NoToken,    \* null, "", none, 0, ""
    NotFound,       \* the userId -1 of findByUsername
    Relogin,        \* TRUE: a session may log in again as someone else
    DbMayFail,      \* TRUE: a database access may fail
    MayRestart,     \* TRUE: SIGTERM or a crash may end the process
    MaxMirrorOps,   \* bound: operations in flight on a mirror session
    MaxBroadcasts   \* bound: broadcasts in flight on a session

ASSUME ServerAssumption ==
    /\ PortOf \in [Rooms -> Ports]
    /\ NoSlot \notin Slots /\ NoIp \notin IPs /\ NoPort \notin Ports
    /\ NoToken \notin Uuids
    /\ NoUser # NotFound /\ {NoUser, NotFound} \cap (Users \cup Ports) = {}
    /\ Users \cap Ports = {}
    /\ {Relogin, DbMayFail, MayRestart} \subseteq BOOLEAN
    /\ MaxMirrorOps \in Nat /\ MaxBroadcasts \in Nat

\* What RoomStore assumes.
ASSUME RoomsAssumption ==
    /\ Rooms \subseteq Nat /\ NoRoom \notin Rooms
    /\ Requested \subseteq Int

VARIABLES
    status, maxPlayers, members, gameRoom, inProgress,    \* of RoomStore
    \* Session, one value for each slot
    sock,           \* "none": no object; else the state of socket_
    ip,             \* remote_ip_
    port,           \* mirror_port_ of a session with is_mirror_, or NoPort
    user,           \* user_id_
    token,          \* token_
    waiting,        \* the sessions whose status_ is "waiting"
    idle,           \* the sessions without a ping for session_timeout_
    ops,            \* their outstanding operations
    \* Server
    sessions, tokens, mirrors, connectedIps,
    running,        \* running_
    busy,           \* the session whose process_request is being executed
    closing         \* the tokens that a check or stop() has still to close

storeVars == <<status, maxPlayers, members, gameRoom, inProgress>>
sessionVars == <<sock, ip, port, user, token, waiting, idle, ops>>
serverVars == <<sessions, tokens, mirrors, connectedIps>>
controlVars == <<running, busy, closing>>
vars == <<storeVars, sessionVars, serverVars, controlVars>>

Store == INSTANCE RoomStore

Kinds == {"hs", "read", "write", "bcast", "fail"}
NoOps == [k \in Kinds |-> 0]

Alive(s) == s \in Slots /\ sock[s] # "none"
\* Mutant: the handler of a broadcast does not hold the session.
DeadDespiteBroadcast(s) ==
    Alive(s) /\ busy # s /\ \A k \in Kinds \ {"bcast"} : ops[s][k] = 0
Dead(s) == Alive(s) /\ ops[s] = NoOps /\ busy # s

\* The thread is between two handlers.
Free == running /\ busy = NoSlot /\ closing = {} /\ \A s \in Slots : ~ Dead(s)

\* What is left of a session's operations when one of kind k completes, and
\* with one more.
Without(o, k) == [o EXCEPT ![k] = @ - 1]
With(o, k) == [o EXCEPT ![k] = @ + 1]
\* How an operation of kind k begins on a socket.
On(socket, k) == IF socket = "open" THEN k ELSE "fail"
Complete(s, k) == Free /\ ops[s][k] > 0

Init ==
    /\ Store!Init
    /\ sock = [s \in Slots |-> "none"] /\ ip = [s \in Slots |-> NoIp]
    /\ port = [s \in Slots |-> NoPort] /\ user = [s \in Slots |-> NoUser]
    /\ token = [s \in Slots |-> NoToken] /\ ops = [s \in Slots |-> NoOps]
    /\ waiting = {} /\ idle = {}
    /\ sessions = [t \in Uuids |-> NoSlot] /\ tokens = [u \in Users |-> NoToken]
    /\ mirrors = [p \in Ports |-> NoSlot] /\ connectedIps = {}
    /\ running = TRUE /\ busy = NoSlot /\ closing = {}
-----------------------------------------------------------------------------
(***************************************************************************)
(* Parts that several handlers share.                                      *)
(***************************************************************************)

\* The exitRoom request of a session's user; a mirror's user_id_ is its port
\* and has no rows.
ExitRoom(u) ==
    \/ \E r \in Rooms : u \in Users /\ Store!RemovePlayer(u, r)
    \/ /\ DbMayFail \/ u \notin Users \/ Store!RoomsOf(u) = {}
       /\ UNCHANGED storeVars

\* Mutant: the socket is closed and the room forgotten.
HandleErrorClosesOnly(s) ==
    /\ sock' = [sock EXCEPT ![s] = "closed"]
    /\ UNCHANGED storeVars

\* Session::handle_error
HandleError(s) ==
    /\ ExitRoom(user[s])
    /\ sock' = [sock EXCEPT ![s] = "closed"]

\* Server::registerSession: a new uuid t, in place of the session's old entry.
RegisterSession(s, t, u) ==
    /\ sessions[t] = NoSlot
    /\ \A q \in Slots : token[q] # t
    /\ \A v \in Users : tokens[v] # t
    /\ sessions' = [x \in Uuids |-> IF x = t THEN s
                                    ELSE IF sessions[x] = s THEN NoSlot
                                    ELSE sessions[x]]
    /\ tokens' = IF u = NoUser THEN tokens ELSE [tokens EXCEPT ![u] = t]
    /\ token' = [token EXCEPT ![s] = t]
-----------------------------------------------------------------------------
(***************************************************************************)
(* Connections and handshakes.                                             *)
(***************************************************************************)

\* Server::do_accept, the Session constructor and start().
Accept(s, i) ==
    /\ Free /\ sock[s] = "none"
    /\ sock' = [sock EXCEPT ![s] = "open"]
    /\ ip' = [ip EXCEPT ![s] = i]
    /\ ops' = [ops EXCEPT ![s] = With(@, "hs")]
    /\ UNCHANGED <<port, user, token, waiting, idle>>
    /\ UNCHANGED <<storeVars, serverVars, controlVars>>

\* The mirror branch of read_handshake: the port's entry is overwritten.
HandshakeMirror(s, p) ==
    /\ Complete(s, "hs")
    /\ port' = [port EXCEPT ![s] = p]
    /\ user' = [user EXCEPT ![s] = p]
    /\ mirrors' = [q \in Ports |-> IF q = p THEN s
                                   ELSE IF mirrors[q] = s THEN NoSlot
                                   ELSE mirrors[q]]
    /\ ops' = [ops EXCEPT ![s] = With(Without(@, "hs"), On(sock[s], "write"))]
    /\ UNCHANGED <<sock, ip, token, waiting, idle, sessions, tokens, connectedIps>>
    /\ UNCHANGED <<storeVars, controlVars>>

\* The mirror branch with a port that is not a number: the assignment to
\* mirror_port_ throws when is_mirror_ is set already, so that ~Session reads a
\* mirror_port_ that nobody wrote, q.
HandshakeBadPort(s, q) ==
    /\ Complete(s, "hs")
    /\ port' = [port EXCEPT ![s] = q]
    /\ HandleError(s)
    /\ ops' = [ops EXCEPT ![s] = Without(@, "hs")]
    /\ UNCHANGED <<ip, user, token, waiting, idle>>
    /\ UNCHANGED <<serverVars, controlVars>>

\* allowConnection and what follows when it refuses: a reply, handle_error,
\* and no return, so that the handshake goes on with a closed socket.
Allowed(s) == ip[s] \notin connectedIps
AllowConnection(s) == connectedIps' = connectedIps \cup {ip[s]}
SocketAfterCheck(s) == IF Allowed(s) THEN sock[s] ELSE "closed"
OpsAfterCheck(s) ==
    LET o == Without(ops[s], "hs")
    IN  IF Allowed(s) THEN o ELSE With(o, On(sock[s], "write"))

\* The client branch with another version, or none.
HandshakeOldVersion(s) ==
    /\ Complete(s, "hs")
    /\ AllowConnection(s)
    /\ HandleError(s)
    /\ ops' = [ops EXCEPT ![s] = OpsAfterCheck(s)]
    /\ UNCHANGED <<ip, port, user, token, waiting, idle, sessions, tokens, mirrors>>
    /\ UNCHANGED controlVars

\* The client branch up to initialize(); a handshake that is also a request
\* goes on to process_request, any other is greeted.
HandshakeClient(s, t) ==
    /\ Complete(s, "hs")
    /\ AllowConnection(s)
    /\ sock' = [sock EXCEPT ![s] = SocketAfterCheck(s)]
    /\ RegisterSession(s, t, user[s])
    /\ \/ /\ busy' = s
          /\ ops' = [ops EXCEPT ![s] = OpsAfterCheck(s)]
       \/ /\ busy' = busy
          /\ ops' = [ops EXCEPT ![s] =
                       With(OpsAfterCheck(s), On(SocketAfterCheck(s), "write"))]
    /\ UNCHANGED <<ip, port, user, waiting, idle, mirrors, running, closing>>
    /\ UNCHANGED storeVars
-----------------------------------------------------------------------------
(***************************************************************************)
(* Completions.                                                            *)
(***************************************************************************)

\* Mutant: a failed operation is tried again.
OpFailsAndRetries(s, k) ==
    /\ Complete(s, k)
    /\ ops' = [ops EXCEPT ![s] = With(Without(@, k), "fail")]
    /\ HandleError(s)
    /\ UNCHANGED <<ip, port, user, token, waiting, idle>>
    /\ UNCHANGED <<serverVars, controlVars>>

\* An operation completes with an error, or the handshake cannot be parsed.
OpFails(s, k) ==
    /\ Complete(s, k)
    /\ ops' = [ops EXCEPT ![s] = Without(@, k)]
    /\ HandleError(s)
    /\ UNCHANGED <<ip, port, user, token, waiting, idle>>
    /\ UNCHANGED <<serverVars, controlVars>>

\* write_response, write_handshake_response and write_mirror: the next read.
WriteDone(s) ==
    /\ Complete(s, "write")
    /\ ops' = [ops EXCEPT ![s] = With(Without(@, "write"), On(sock[s], "read"))]
    /\ UNCHANGED <<sock, ip, port, user, token, waiting, idle>>
    /\ UNCHANGED <<storeVars, serverVars, controlVars>>

\* Mutant: write_broadcast goes on reading, as write_response does.
BroadcastDoneReads(s) ==
    /\ Complete(s, "bcast")
    /\ ops' = [ops EXCEPT ![s] = With(Without(@, "bcast"), On(sock[s], "read"))]
    /\ UNCHANGED <<sock, ip, port, user, token, waiting, idle>>
    /\ UNCHANGED <<storeVars, serverVars, controlVars>>

BroadcastDone(s) ==
    /\ Complete(s, "bcast")
    /\ ops' = [ops EXCEPT ![s] = Without(@, "bcast")]
    /\ UNCHANGED <<sock, ip, port, user, token, waiting, idle>>
    /\ UNCHANGED <<storeVars, serverVars, controlVars>>

\* read_message: the request goes to process_request, in the same handler.
ReadDone(s) ==
    /\ Complete(s, "read")
    /\ ops' = [ops EXCEPT ![s] = Without(@, "read")]
    /\ busy' = s
    /\ UNCHANGED <<sock, ip, port, user, token, waiting, idle, running, closing>>
    /\ UNCHANGED <<storeVars, serverVars>>
-----------------------------------------------------------------------------
(***************************************************************************)
(* process_request.                                                        *)
(***************************************************************************)
Finish(s) == busy = s /\ busy' = NoSlot /\ UNCHANGED <<running, closing>>
WithWrite(o, s) == [o EXCEPT ![s] = With(@, On(sock[s], "write"))]
Reply(s) == ops' = WithWrite(ops, s)

\* A malformed, unauthorised, unknown, failed or read-only request, and the
\* registration and renaming of users, which no state here depends on.
AnswerOnly(s) ==
    /\ Finish(s) /\ Reply(s)
    /\ UNCHANGED <<sock, ip, port, user, token, waiting, idle>>
    /\ UNCHANGED <<storeVars, serverVars>>

\* handlePing
AlivePing(s) ==
    /\ Finish(s) /\ Reply(s)
    /\ idle' = idle \ {s}
    /\ UNCHANGED <<sock, ip, port, user, token, waiting>>
    /\ UNCHANGED <<storeVars, serverVars>>

Logout(s) ==
    /\ Finish(s)
    /\ HandleError(s)
    /\ UNCHANGED <<ip, port, user, token, waiting, idle, ops>>
    /\ UNCHANGED serverVars

\* Mutant: the login check asks sessions_, which a timeout has cleaned already.
CheckSessionsOnly(u) == \E t \in Uuids : tokens[u] = t /\ sessions[t] # NoSlot

\* login and SSAFYlogin with good credentials of a user who has no token;
\* otherwise checkAlreadyLogin answers with an error (AnswerOnly).
CheckAlreadyLogin(u) == tokens[u] # NoToken
Login(s, u, t) ==
    /\ Finish(s) /\ Reply(s)
    /\ Relogin \/ user[s] \in {NoUser, NotFound}
    /\ ~ CheckAlreadyLogin(u)
    /\ user' = [user EXCEPT ![s] = u]
    /\ waiting' = waiting \cup {s}
    /\ RegisterSession(s, t, u)
    /\ UNCHANGED <<sock, ip, port, idle, mirrors, connectedIps>>
    /\ UNCHANGED storeVars

\* SSAFYlogin when its second findByUsername fails: the answer says success,
\* userId -1 and no userName, so that init_current_user throws when it has
\* assigned user_id_ only.
LoginHalfDone(s) ==
    /\ DbMayFail
    /\ Finish(s) /\ Reply(s)
    /\ Relogin \/ user[s] \in {NoUser, NotFound}
    /\ user' = [user EXCEPT ![s] = NotFound]
    /\ UNCHANGED <<sock, ip, port, token, waiting, idle>>
    /\ UNCHANGED <<storeVars, serverVars>>

\* The room is committed before the mirror is looked up; without a mirror the
\* client gets an error and keeps its old status_.
GetMirrorSession(p) == IF Alive(mirrors[p]) THEN mirrors[p] ELSE NoSlot
CreateRoom(s, n, r) ==
    /\ Finish(s)
    /\ user[s] \in Users
    /\ Store!CreateRoomWithHost(user[s], n, r)
    /\ LET m == GetMirrorSession(PortOf[r])
       IN  IF m = NoSlot
           THEN Reply(s) /\ UNCHANGED waiting
           ELSE /\ ops[m]["read"] + ops[m]["write"] + ops[m]["fail"] < MaxMirrorOps
                /\ waiting' = waiting \ {s}
                /\ ops' = WithWrite(WithWrite(ops, m), s)
    /\ UNCHANGED <<sock, ip, port, user, token, idle>>
    /\ UNCHANGED serverVars

\* Mutant: a player is inserted without looking at the room.
JoinRoomUnchecked(s, r) ==
    /\ Finish(s) /\ Reply(s)
    /\ user[s] \in Users
    /\ members' = [members EXCEPT ![r] = @ \cup {user[s]}]
    /\ waiting' = waiting \ {s}
    /\ UNCHANGED <<status, maxPlayers, gameRoom, inProgress>>
    /\ UNCHANGED <<sock, ip, port, user, token, idle>>
    /\ UNCHANGED serverVars

JoinRoom(s, r) ==
    /\ Finish(s) /\ Reply(s)
    /\ user[s] \in Users
    /\ Store!AddPlayer(r, user[s])
    /\ waiting' = waiting \ {s}
    /\ UNCHANGED <<sock, ip, port, user, token, idle>>
    /\ UNCHANGED serverVars

LeaveRoom(s, r) ==
    /\ Finish(s) /\ Reply(s)
    /\ user[s] \in Users
    /\ Store!RemovePlayer(user[s], r)
    /\ waiting' = waiting \cup {s}
    /\ UNCHANGED <<sock, ip, port, user, token, idle>>
    /\ UNCHANGED serverVars

\* createGame and endGame never put the game's id in their result, so that
\* the services answer with an error and setSessionStatus is not reached.
GameStart(s, r, g) ==
    /\ Finish(s) /\ Reply(s)
    /\ user[s] # NoUser /\ port[s] # NoPort
    /\ Store!CreateGame(r, g)
    /\ UNCHANGED <<sock, ip, port, user, token, waiting, idle>>
    /\ UNCHANGED serverVars

GameEnd(s, g) ==
    /\ Finish(s) /\ Reply(s)
    /\ user[s] # NoUser /\ port[s] # NoPort
    /\ Store!EndGame(g)
    /\ UNCHANGED <<sock, ip, port, user, token, waiting, idle>>
    /\ UNCHANGED serverVars
-----------------------------------------------------------------------------
(***************************************************************************)
(* The destructor, the timers and the end of the process.                  *)
(***************************************************************************)

\* Mutants: the registry keeps what the destructor should take out of it.
KeepMirrorSession(p) == UNCHANGED mirrors
RemoveTokenOnly(t, u) ==
    /\ sessions' = [x \in Uuids |-> IF x = t THEN NoSlot ELSE sessions[x]]
    /\ UNCHANGED tokens
KeepConnection(i) == UNCHANGED connectedIps

\* removeMirrorSession, removeSession and removeConnection: entries go by port,
\* token, user and address, whoever they belong to by now.
RemoveMirrorSession(p) == mirrors' = [q \in Ports |-> IF q = p THEN NoSlot ELSE mirrors[q]]

RemoveSession(t, u) ==
    /\ sessions' = [x \in Uuids |-> IF x = t THEN NoSlot ELSE sessions[x]]
    /\ tokens' = [v \in Users |-> IF v = u /\ t # NoToken THEN NoToken ELSE tokens[v]]

RemoveConnection(i) == connectedIps' = connectedIps \ {i}

\* ~Session, as the last handler that holds the session is released.
Destroy(s) ==
    /\ Dead(s) /\ busy = NoSlot
    /\ RemoveMirrorSession(port[s])
    /\ RemoveSession(token[s], user[s])
    /\ RemoveConnection(ip[s])
    /\ sock' = [sock EXCEPT ![s] = "none"]
    /\ ip' = [ip EXCEPT ![s] = NoIp]
    /\ port' = [port EXCEPT ![s] = NoPort]
    /\ user' = [user EXCEPT ![s] = NoUser]
    /\ token' = [token EXCEPT ![s] = NoToken]
    /\ waiting' = waiting \ {s}
    /\ idle' = idle \ {s}
    /\ UNCHANGED ops
    /\ UNCHANGED <<storeVars, controlVars>>

\* session_timeout_ passes without a ping.
GoIdle(s) ==
    /\ Free /\ Alive(s)
    /\ idle' = idle \cup {s}
    /\ UNCHANGED <<sock, ip, port, user, token, waiting, ops>>
    /\ UNCHANGED <<storeVars, serverVars, controlVars>>

\* The first loop of check_inactive_sessions, which collects tokens.
Registered == {t \in Uuids : sessions[t] # NoSlot}
\* Mutant: only sessions of users are checked.
CheckInactiveUsers ==
    /\ Free
    /\ closing' = {t \in Uuids : \E s \in idle : sessions[t] = s /\ user[s] # NoUser}
    /\ UNCHANGED <<running, busy>>
    /\ UNCHANGED <<storeVars, sessionVars, serverVars>>

CheckInactive ==
    /\ Free
    /\ closing' = {t \in Registered : ~ Alive(sessions[t]) \/ sessions[t] \in idle}
    /\ UNCHANGED <<running, busy>>
    /\ UNCHANGED <<storeVars, sessionVars, serverVars>>

\* Mutant: the user's token goes with the entry, before the session does.
CloseCollectedUnlocks(t) ==
    /\ t \in closing
    /\ closing' = closing \ {t}
    /\ sessions' = [sessions EXCEPT ![t] = NoSlot]
    /\ tokens' = [u \in Users |-> IF tokens[u] = t THEN NoToken ELSE tokens[u]]
    /\ IF Alive(sessions[t]) THEN HandleError(sessions[t]) ELSE UNCHANGED <<storeVars, sock>>
    /\ UNCHANGED <<ip, port, user, token, waiting, idle, ops>>
    /\ UNCHANGED <<mirrors, connectedIps, running, busy>>

\* One round of its second loop, and of the loop of stop(): the entry goes,
\* and the session is closed if it still exists.
CloseCollected(t) ==
    /\ t \in closing
    /\ closing' = closing \ {t}
    /\ sessions' = [sessions EXCEPT ![t] = NoSlot]
    /\ IF Alive(sessions[t]) THEN HandleError(sessions[t]) ELSE UNCHANGED <<storeVars, sock>>
    /\ UNCHANGED <<ip, port, user, token, waiting, idle, ops>>
    /\ UNCHANGED <<tokens, mirrors, connectedIps, running, busy>>

\* broadcastCCU: to every registered session of a user whose status_ is
\* waiting, its socket open or not.
Recipients == {s \in waiting : user[s] # NoUser /\ \E t \in Uuids : sessions[t] = s}
BroadcastCCU ==
    /\ Free
    /\ \A s \in Recipients : ops[s]["bcast"] + ops[s]["fail"] < MaxBroadcasts
    /\ ops' = [s \in Slots |-> IF s \in Recipients THEN With(ops[s], On(sock[s], "bcast"))
                                                  ELSE ops[s]]
    /\ UNCHANGED <<sock, ip, port, user, token, waiting, idle>>
    /\ UNCHANGED <<storeVars, serverVars, controlVars>>

\* Server::stop, called by the signal handler; no handler runs after it.
Stop ==
    /\ MayRestart /\ Free
    /\ running' = FALSE
    /\ closing' = Registered
    /\ UNCHANGED <<busy, storeVars, sessionVars, serverVars>>

\* exit() after stop(), or a crash at any point; then a new process.  Memory
\* is lost and the database keeps what was committed.
Restart ==
    /\ MayRestart
    /\ sock' = [s \in Slots |-> "none"] /\ ip' = [s \in Slots |-> NoIp]
    /\ port' = [s \in Slots |-> NoPort] /\ user' = [s \in Slots |-> NoUser]
    /\ token' = [s \in Slots |-> NoToken] /\ ops' = [s \in Slots |-> NoOps]
    /\ waiting' = {} /\ idle' = {}
    /\ sessions' = [t \in Uuids |-> NoSlot] /\ tokens' = [u \in Users |-> NoToken]
    /\ mirrors' = [p \in Ports |-> NoSlot] /\ connectedIps' = {}
    /\ running' = TRUE /\ busy' = NoSlot /\ closing' = {}
    /\ UNCHANGED storeVars
-----------------------------------------------------------------------------
Handshake(s) ==
    \/ \E i \in IPs : Accept(s, i)
    \/ \E p \in Ports : HandshakeMirror(s, p)
    \/ \E q \in Ports \cup {NoPort} : HandshakeBadPort(s, q)
    \/ HandshakeOldVersion(s)
    \/ \E t \in Uuids : HandshakeClient(s, t)

Completion(s, k) ==
    \/ OpFails(s, k)
    \/ k = "write" /\ WriteDone(s)
    \/ k = "bcast" /\ BroadcastDone(s)
    \/ k = "read" /\ ReadDone(s)

Request(s) ==
    \/ AnswerOnly(s) \/ AlivePing(s) \/ Logout(s) \/ LoginHalfDone(s)
    \/ \E u \in Users, t \in Uuids : Login(s, u, t)
    \/ \E n \in Requested, r \in Rooms : CreateRoom(s, n, r)
    \/ \E r \in Rooms : JoinRoom(s, r) \/ LeaveRoom(s, r)
    \/ \E r \in Rooms, g \in GameIds : GameStart(s, r, g)
    \/ \E g \in GameIds : GameEnd(s, g)

Process ==
    \/ CheckInactive
    \/ \E t \in Uuids : CloseCollected(t)
    \/ BroadcastCCU
    \/ Stop
    \/ Restart

Next ==
    \/ \E s \in Slots : Handshake(s) \/ Request(s) \/ Destroy(s) \/ GoIdle(s)
    \/ \E s \in Slots, k \in Kinds : Completion(s, k)
    \/ Process

Spec == Init /\ [][Next]_vars

(***************************************************************************)
(* Fairness.  A handler that has started runs to its end.  io_context runs *)
(* what is queued in order, other handlers in between (hence SF): so the   *)
(* timer of the timeout check, which is always re-armed, fires again and   *)
(* again, and every operation of a closed socket completes, with its       *)
(* result or aborted.  Nothing is assumed of clients or open sockets.      *)
(***************************************************************************)
Fairness ==
    /\ SF_vars(CheckInactive)
    /\ WF_vars(\E t \in Uuids : CloseCollected(t))
    /\ WF_vars(\E s \in Slots : Request(s) \/ Destroy(s))
    /\ \A s \in Slots, k \in Kinds \ {"hs"} :
         SF_vars(sock[s] = "closed" /\ Completion(s, k))

FairSpec == Spec /\ Fairness
-----------------------------------------------------------------------------
(***************************************************************************)
(* Properties.                                                             *)
(***************************************************************************)

\* Every variable holds values of its type; a slot without a session holds
\* nothing that a new session could inherit.
TypeOK ==
    /\ sock \in [Slots -> {"none", "open", "closed"}]
    /\ ip \in [Slots -> IPs \cup {NoIp}]
    /\ port \in [Slots -> Ports \cup {NoPort}]
    /\ user \in [Slots -> Users \cup Ports \cup {NoUser, NotFound}]
    /\ token \in [Slots -> Uuids \cup {NoToken}]
    /\ ops \in [Slots -> [Kinds -> Nat]]
    /\ sessions \in [Uuids -> Slots \cup {NoSlot}]
    /\ tokens \in [Users -> Uuids \cup {NoToken}]
    /\ mirrors \in [Ports -> Slots \cup {NoSlot}]
    /\ connectedIps \subseteq IPs /\ closing \subseteq Uuids
    /\ running \in BOOLEAN /\ busy \in Slots \cup {NoSlot}
    /\ \A s \in Slots : sock[s] = "none" =>
         /\ ip[s] = NoIp /\ port[s] = NoPort /\ user[s] = NoUser /\ token[s] = NoToken
         /\ s \notin waiting \cup idle /\ ops[s] = NoOps

\* checkAlreadyLogin does what it is for: no two sessions, closed ones that
\* are still completing operations included, are logged in as one user.
OneSessionPerUser ==
    \A s, q \in Slots : user[s] \in Users /\ user[s] = user[q] => s = q

\* setSessionStatus and the broadcasts follow tokens_ into sessions_ and lock
\* what they find: it is the live session that holds this token, and it is
\* logged in as the user the token is for, unless a later login half failed.
RegistryIsSound ==
    /\ \A t \in Uuids : sessions[t] # NoSlot =>
         Alive(sessions[t]) /\ token[sessions[t]] = t
    /\ \A u \in Users, t \in Uuids : tokens[u] = t /\ sessions[t] # NoSlot =>
         user[sessions[t]] \in {u, NotFound}
    /\ \A p \in Ports : mirrors[p] # NoSlot =>
         Alive(mirrors[p]) /\ port[mirrors[p]] = p

\* An address is refused only while some session from it exists: no client is
\* shut out by a session that is gone.
AddressIsHeld ==
    \A i \in connectedIps : \E s \in Slots : Alive(s) /\ ip[s] = i

\* A user is refused as already logged in only while a session is logged in
\* as that user (holds of clients that log in once per session).
LockedUserIsOnline ==
    \A u \in Users : tokens[u] # NoToken =>
        \E s \in Slots : user[s] = u /\ token[s] = tokens[u]

\* An open client session has exactly one read or write in flight, or its
\* request is being processed: it is never left without a read that would
\* notice the client, and never has two reads into its one buffer_.
OneOperationPerClient ==
    \A s \in Slots : sock[s] = "open" /\ port[s] = NoPort =>
        ops[s]["hs"] + ops[s]["read"] + ops[s]["write"] + ops[s]["fail"]
          = (IF busy = s THEN 0 ELSE 1)

\* Whoever is in a room has a session whose last operation is still to come,
\* so that handle_error will take the user out of the room (holds while the
\* process runs, its exitRoom commits, and clients log in once per session).
MemberWillBeRemoved ==
    \A r \in Rooms : \A u \in members[r] :
        \E s \in Slots : user[s] = u /\ (busy = s \/ \E k \in Kinds \ {"bcast"} : ops[s][k] > 0)

\* createRoom answers that there is no mirror server only when none is
\* connected on the room's port.
MissingMirrorIsNotConnected ==
    \A p \in Ports : mirrors[p] = NoSlot =>
        \A s \in Slots : ~ (port[s] = p /\ sock[s] = "open")

\* The sessions' requests reach the database as transactions of RoomStore.
ImplementsStore == Store!Spec

\* A login is an exclusive lease on its user: through every order of logins,
\* completions, destructions and restarts a user is granted only while no
\* session has it, and freed by no other session's end.
Lease == INSTANCE LoginLease
           WITH Sessions <- Slots,
                holders <- [u \in Users |-> {s \in Slots : user[s] = u}],
                locked <- {u \in Users : tokens[u] # NoToken}
ImplementsLease == Lease!Spec

\* Every session that is closed is destroyed, so that its user and address
\* can be used again.
ClosedSessionIsReleased ==
    \A s \in Slots : sock[s] = "closed" ~> sock[s] = "none"

\* A client that stops pinging is closed by check_inactive_sessions.
IdleSessionIsClosed ==
    \A s \in Slots : token[s] # NoToken /\ s \in idle ~> sock[s] # "open" \/ s \notin idle
=============================================================================
