----------------------------- MODULE RoomStore -----------------------------
(***************************************************************************)
(* The tables rooms, room_users and games of the matching server's         *)
(* database, and the transactions that RoomRepository and GameRepository   *)
(* run on them (room_repository.cpp, game_repository.cpp), each with the   *)
(* checks its service makes first (room_service.cpp, game_service.cpp).    *)
(*                                                                         *)
(* A transaction commits as a whole or not at all, so it is one step.  One *)
(* that finds nothing to do, or that fails, is rolled back: it leaves the  *)
(* tables as they were and is a stuttering step here.                      *)
(***************************************************************************)
EXTENDS Integers, FiniteSets

CONSTANTS
    Rooms,        \* the room_ids db-init.sql inserts
    Users,        \* the user_ids of table users
    GameIds,      \* the values of the serial games.game_id
    NoRoom,       \* gameRoom of a game_id that is not in the table yet
    Requested     \* the maxPlayers values clients ask for

ASSUME StoreAssumption ==
    /\ Rooms \subseteq Nat
    /\ NoRoom \notin Rooms
    /\ Requested \subseteq Int

VARIABLES
    status,       \* rooms.status
    maxPlayers,   \* rooms.max_players
    members,      \* room_users: the users of each room
    gameRoom,     \* games.room_id
    inProgress    \* the games whose status is IN_PROGRESS

storeVars == <<status, maxPlayers, members, gameRoom, inProgress>>

Statuses == {"WAITING", "GAME_IN_PROGRESS", "TERMINATED"}

RoomsOf(u) == {r \in Rooms : u \in members[r]}
Terminated == {r \in Rooms : status[r] = "TERMINATED"}
IsFirst(r, S) == r \in S /\ \A q \in S : r <= q

\* db-init.sql: ten rooms, TERMINATED and of 8 players by default.
Init ==
    /\ status = [r \in Rooms |-> "TERMINATED"]
    /\ maxPlayers = [r \in Rooms |-> 8]
    /\ members = [r \in Rooms |-> {}]
    /\ gameRoom = [g \in GameIds |-> NoRoom]
    /\ inProgress = {}
-----------------------------------------------------------------------------
(***************************************************************************)
(* The transactions.                                                       *)
(***************************************************************************)

\* Mutant: the service forgets to check the requested capacity.
CreateRoomOfAnySize(u, n, r) ==
    /\ RoomsOf(u) = {} /\ IsFirst(r, Terminated)
    /\ status' = [status EXCEPT ![r] = "WAITING"]
    /\ maxPlayers' = [maxPlayers EXCEPT ![r] = n]
    /\ members' = [members EXCEPT ![r] = @ \cup {u}]
    /\ UNCHANGED <<gameRoom, inProgress>>

\* The service refuses capacities outside 2..8; the transaction gives up when
\* the host is in some room already, or when no room is TERMINATED, and takes
\* the first such room by room_id.
CreateRoomWithHost(u, n, r) ==
    /\ n \in 2..8
    /\ RoomsOf(u) = {}
    /\ IsFirst(r, Terminated)
    /\ status' = [status EXCEPT ![r] = "WAITING"]
    /\ maxPlayers' = [maxPlayers EXCEPT ![r] = n]
    /\ members' = [members EXCEPT ![r] = @ \cup {u}]
    /\ UNCHANGED <<gameRoom, inProgress>>

\* Mutant: off by one in the comparison with max_players.
AddOnePlayerTooMany(r, u) ==
    /\ status[r] = "WAITING" /\ u \notin members[r]
    /\ Cardinality(members[r]) <= maxPlayers[r]
    /\ members' = [members EXCEPT ![r] = @ \cup {u}]
    /\ UNCHANGED <<status, maxPlayers, gameRoom, inProgress>>

\* Only membership of this very room is checked, not of the others.
AddPlayer(r, u) ==
    /\ status[r] = "WAITING"
    /\ u \notin members[r]
    /\ Cardinality(members[r]) < maxPlayers[r]
    /\ members' = [members EXCEPT ![r] = @ \cup {u}]
    /\ UNCHANGED <<status, maxPlayers, gameRoom, inProgress>>

\* Mutant: the remaining players are compared with 1.
RemovePlayerClosesEarly(u, r) ==
    /\ r \in RoomsOf(u)
    /\ members' = [q \in Rooms |-> members[q] \ {u}]
    /\ IF Cardinality(members[r] \ {u}) <= 1
       THEN /\ status' = [status EXCEPT ![r] = "TERMINATED"]
            /\ inProgress' = {g \in inProgress : gameRoom[g] # r}
       ELSE UNCHANGED <<status, inProgress>>
    /\ UNCHANGED <<maxPlayers, gameRoom>>

\* Mutant: the games of a closed room are not completed.
RemovePlayerKeepsGames(u, r) ==
    /\ r \in RoomsOf(u)
    /\ members' = [q \in Rooms |-> members[q] \ {u}]
    /\ status' = IF members[r] = {u} THEN [status EXCEPT ![r] = "TERMINATED"] ELSE status
    /\ UNCHANGED <<maxPlayers, gameRoom, inProgress>>

\* Mutant: the players are counted before the row is deleted.
RemovePlayerCountsFirst(u, r) ==
    /\ r \in RoomsOf(u)
    /\ members' = [q \in Rooms |-> members[q] \ {u}]
    /\ UNCHANGED <<status, maxPlayers, gameRoom, inProgress>>

\* r is the room of the first of the user's rows, in no particular order.
\* Every row of the user is deleted, but only r is counted and closed.
RemovePlayer(u, r) ==
    /\ r \in RoomsOf(u)
    /\ members' = [q \in Rooms |-> members[q] \ {u}]
    /\ IF members[r] = {u}
       THEN /\ status' = [status EXCEPT ![r] = "TERMINATED"]
            /\ inProgress' = {g \in inProgress : gameRoom[g] # r}
       ELSE UNCHANGED <<status, inProgress>>
    /\ UNCHANGED <<maxPlayers, gameRoom>>

\* The room's status and players are not looked at.
CreateGame(r, g) ==
    /\ gameRoom[g] = NoRoom
    /\ gameRoom' = [gameRoom EXCEPT ![g] = r]
    /\ inProgress' = inProgress \cup {g}
    /\ status' = [status EXCEPT ![r] = "GAME_IN_PROGRESS"]
    /\ UNCHANGED <<maxPlayers, members>>

\* Mutant: the end of a game opens its room again.
EndGameReopens(g) ==
    /\ gameRoom[g] # NoRoom
    /\ inProgress' = inProgress \ {g}
    /\ status' = [status EXCEPT ![gameRoom[g]] = "WAITING"]
    /\ UNCHANGED <<maxPlayers, members, gameRoom>>

\* The game is completed (again, if it was); the room keeps its status.
EndGame(g) ==
    /\ gameRoom[g] # NoRoom
    /\ inProgress' = inProgress \ {g}
    /\ UNCHANGED <<status, maxPlayers, members, gameRoom>>
-----------------------------------------------------------------------------
Next ==
    \/ \E u \in Users, n \in Requested, r \in Rooms : CreateRoomWithHost(u, n, r)
    \/ \E u \in Users, r \in Rooms : AddPlayer(r, u)
    \/ \E u \in Users, r \in Rooms : RemovePlayer(u, r)
    \/ \E r \in Rooms, g \in GameIds : CreateGame(r, g)
    \/ \E g \in GameIds : EndGame(g)

Spec == Init /\ [][Next]_storeVars
-----------------------------------------------------------------------------
(***************************************************************************)
(* Properties.                                                             *)
(***************************************************************************)

\* The columns hold values of their types; a room's capacity is the default 8
\* or one that room_service.cpp accepts, and only games of the table run.
TypeOK ==
    /\ status \in [Rooms -> Statuses]
    /\ maxPlayers \in [Rooms -> 2..8]
    /\ members \in [Rooms -> SUBSET Users]
    /\ gameRoom \in [GameIds -> Rooms \cup {NoRoom}]
    /\ inProgress \in SUBSET {g \in GameIds : gameRoom[g] # NoRoom}

\* A room offered for reuse by createRoomWithHost has no rows left in
\* room_users: a new host never finds strangers in the room.
ClosedRoomIsEmpty ==
    \A r \in Rooms : status[r] = "TERMINATED" => members[r] = {}

\* A room never holds more players than its current max_players, although
\* rooms are recycled with a smaller capacity (addPlayer's FOR UPDATE check).
WithinCapacity ==
    \A r \in Rooms : IsFiniteSet(members[r]) /\ Cardinality(members[r]) <= maxPlayers[r]

\* A game that is IN_PROGRESS runs in a room that is GAME_IN_PROGRESS: closing
\* a room completes its games, so a recycled room starts without one.
GameRunsInItsRoom ==
    \A g \in inProgress : status[gameRoom[g]] = "GAME_IN_PROGRESS"

\* Players enter a room only while it waits, so nobody joins a running game.
NoEntryDuringGame ==
    [][\A r \in Rooms : ~ (members'[r] \subseteq members[r])
          => /\ status[r] # "GAME_IN_PROGRESS"
             /\ status'[r] = "WAITING"]_storeVars

\* The capacity players were admitted under does not change beneath them: it
\* changes only when an empty, TERMINATED room is opened again.
CapacityIsStable ==
    [][\A r \in Rooms : maxPlayers'[r] # maxPlayers[r]
          => members[r] = {} /\ status[r] = "TERMINATED"]_storeVars

\* A room left GAME_IN_PROGRESS with no players is lost for good: nothing in
\* the repositories ever brings it back to TERMINATED or lets a player in.
LostRoomStaysLost ==
    [][\A r \in Rooms : status[r] = "GAME_IN_PROGRESS" /\ members[r] = {}
          => status'[r] = "GAME_IN_PROGRESS" /\ members'[r] = {}]_storeVars

\* removePlayer returns a room to the pool when the last player leaves who was
\* in no other room, whatever game was running in it.
LastExit(r) == members'[r] = {} /\ \E u \in Users : RoomsOf(u) = {r} /\ members[r] = {u}
ReturnsRoom(r) == status'[r] = "TERMINATED" /\ \A g \in inProgress' : gameRoom'[g] # r
LastExitReturnsRoom == [][\A r \in Rooms : LastExit(r) => ReturnsRoom(r)]_storeVars
=============================================================================
