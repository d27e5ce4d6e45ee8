--------------------------- MODULE RoomStoreProof ---------------------------
(***************************************************************************)
(* Proofs about RoomStore, for every set of rooms, users and games.        *)
(*                                                                         *)
(* RoomsAreSound is inductive as it stands: that a WAITING room admits     *)
(* within its capacity needs ClosedRoomIsEmpty when the room is opened     *)
(* with a smaller capacity, and GameRunsInItsRoom holds when a room is     *)
(* opened because a TERMINATED room has no running game.                   *)
(***************************************************************************)
EXTENDS RoomStore, FiniteSetTheorems, TLAPS

RoomsAreSound ==
    /\ TypeOK
    /\ ClosedRoomIsEmpty
    /\ WithinCapacity
    /\ GameRunsInItsRoom

\* The tables db-init.sql creates are sound: every room is empty and idle.
LEMMA InitIsSound == Init => RoomsAreSound
<1> SUFFICES ASSUME Init PROVE RoomsAreSound
  OBVIOUS
<1> USE DEF Init
<1>1. TypeOK
  BY DEF TypeOK, Statuses
<1>2. ClosedRoomIsEmpty
  BY DEF ClosedRoomIsEmpty
<1>3. WithinCapacity
  BY FS_EmptySet DEF WithinCapacity
<1>4. GameRunsInItsRoom
  BY DEF GameRunsInItsRoom
<1> QED
  BY <1>1, <1>2, <1>3, <1>4 DEF RoomsAreSound

\* Adding a player to a room that is below its capacity keeps it within it.
LEMMA OneMoreFits ==
    ASSUME NEW S, NEW u, NEW n \in Nat,
           IsFiniteSet(S), u \notin S, Cardinality(S) < n
    PROVE  IsFiniteSet(S \cup {u}) /\ Cardinality(S \cup {u}) <= n
<1>1. IsFiniteSet(S \cup {u}) /\ Cardinality(S \cup {u}) = Cardinality(S) + 1
  BY FS_AddElement
<1>2. Cardinality(S) \in Nat
  BY FS_CardinalityType
<1> QED
  BY <1>1, <1>2

\* Removing a player never makes a room larger.
LEMMA OneLessFits ==
    ASSUME NEW S, NEW u, NEW n \in Nat,
           IsFiniteSet(S), Cardinality(S) <= n
    PROVE  IsFiniteSet(S \ {u}) /\ Cardinality(S \ {u}) <= n
<1>1. IsFiniteSet(S \ {u}) /\ Cardinality(S \ {u}) <= Cardinality(S)
  BY FS_Subset, S \ {u} \subseteq S
<1>2. Cardinality(S) \in Nat /\ Cardinality(S \ {u}) \in Nat
  BY <1>1, FS_CardinalityType
<1> QED
  BY <1>1, <1>2

\* createRoomWithHost keeps the tables sound.
LEMMA CreateRoomIsSound ==
    ASSUME RoomsAreSound,
           NEW u \in Users, NEW n \in Requested, NEW r \in Rooms,
           CreateRoomWithHost(u, n, r)
    PROVE  RoomsAreSound'
<1> USE DEF RoomsAreSound
<1>1. status[r] = "TERMINATED" /\ members[r] = {} /\ n \in 2..8
  BY DEF CreateRoomWithHost, IsFirst, Terminated, ClosedRoomIsEmpty
<1>2. /\ status' = [status EXCEPT ![r] = "WAITING"]
      /\ maxPlayers' = [maxPlayers EXCEPT ![r] = n]
      /\ members' = [members EXCEPT ![r] = @ \cup {u}]
      /\ gameRoom' = gameRoom /\ inProgress' = inProgress
  BY DEF CreateRoomWithHost
<1>3. TypeOK'
  BY <1>1, <1>2 DEF TypeOK, Statuses
<1>4. ClosedRoomIsEmpty'
  BY <1>2 DEF ClosedRoomIsEmpty, TypeOK
<1>5. WithinCapacity'
  <2> SUFFICES ASSUME NEW q \in Rooms
               PROVE  /\ IsFiniteSet(members'[q])
                      /\ Cardinality(members'[q]) <= maxPlayers'[q]
    BY DEF WithinCapacity
  <2>1. CASE q = r
    <3>1. members'[q] = {u} /\ maxPlayers'[q] = n
      BY <1>1, <1>2, <2>1 DEF TypeOK
    <3>2. IsFiniteSet({u}) /\ Cardinality({u}) = 1
      BY FS_Singleton
    <3> QED
      BY <1>1, <3>1, <3>2
  <2>2. CASE q # r
    BY <1>2, <2>2 DEF WithinCapacity, TypeOK
  <2> QED
    BY <2>1, <2>2
<1>6. GameRunsInItsRoom'
  BY <1>1, <1>2 DEF GameRunsInItsRoom, TypeOK
<1> QED
  BY <1>3, <1>4, <1>5, <1>6

\* addPlayer keeps the tables sound.
LEMMA AddPlayerIsSound ==
    ASSUME RoomsAreSound, NEW u \in Users, NEW r \in Rooms, AddPlayer(r, u)
    PROVE  RoomsAreSound'
<1> USE DEF RoomsAreSound
<1>1. /\ status[r] = "WAITING" /\ u \notin members[r]
      /\ Cardinality(members[r]) < maxPlayers[r]
      /\ members' = [members EXCEPT ![r] = @ \cup {u}]
      /\ status' = status /\ maxPlayers' = maxPlayers
      /\ gameRoom' = gameRoom /\ inProgress' = inProgress
  BY DEF AddPlayer
<1>2. TypeOK'
  BY <1>1 DEF TypeOK
<1>3. ClosedRoomIsEmpty'
  BY <1>1 DEF ClosedRoomIsEmpty, TypeOK
<1>4. WithinCapacity'
  <2> SUFFICES ASSUME NEW q \in Rooms
               PROVE  /\ IsFiniteSet(members'[q])
                      /\ Cardinality(members'[q]) <= maxPlayers'[q]
    BY DEF WithinCapacity
  <2>1. CASE q = r
    <3>1. members'[q] = members[r] \cup {u} /\ maxPlayers'[q] = maxPlayers[r]
      BY <1>1, <2>1 DEF TypeOK
    <3>2. IsFiniteSet(members[r]) /\ maxPlayers[r] \in Nat
      BY DEF WithinCapacity, TypeOK
    <3> QED
      BY <1>1, <3>1, <3>2, OneMoreFits
  <2>2. CASE q # r
    BY <1>1, <2>2 DEF WithinCapacity, TypeOK
  <2> QED
    BY <2>1, <2>2
<1>5. GameRunsInItsRoom'
  BY <1>1 DEF GameRunsInItsRoom
<1> QED
  BY <1>2, <1>3, <1>4, <1>5

\* removePlayer keeps the tables sound, whichever of the user's rooms it counts.
LEMMA RemovePlayerIsSound ==
    ASSUME RoomsAreSound, NEW u \in Users, NEW r \in Rooms, RemovePlayer(u, r)
    PROVE  RoomsAreSound'
<1> USE DEF RoomsAreSound
<1>1. /\ members' = [q \in Rooms |-> members[q] \ {u}]
      /\ maxPlayers' = maxPlayers /\ gameRoom' = gameRoom
  BY DEF RemovePlayer
<1>2. WithinCapacity'
  <2> SUFFICES ASSUME NEW q \in Rooms
               PROVE  /\ IsFiniteSet(members'[q])
                      /\ Cardinality(members'[q]) <= maxPlayers'[q]
    BY DEF WithinCapacity
  <2>1. /\ IsFiniteSet(members[q]) /\ Cardinality(members[q]) <= maxPlayers[q]
        /\ maxPlayers[q] \in Nat
    BY DEF WithinCapacity, TypeOK
  <2> QED
    BY <1>1, <2>1, OneLessFits
<1>3. CASE members[r] = {u}
  <2>1. /\ status' = [status EXCEPT ![r] = "TERMINATED"]
        /\ inProgress' = {g \in inProgress : gameRoom[g] # r}
    BY <1>3 DEF RemovePlayer
  <2>2. TypeOK'
    BY <1>1, <2>1 DEF TypeOK, Statuses
  <2>3. ClosedRoomIsEmpty'
    BY <1>1, <1>3, <2>1 DEF ClosedRoomIsEmpty, TypeOK
  <2>4. GameRunsInItsRoom'
    BY <1>1, <2>1 DEF GameRunsInItsRoom, TypeOK
  <2> QED
    BY <1>2, <2>2, <2>3, <2>4
<1>4. CASE members[r] # {u}
  <2>1. status' = status /\ inProgress' = inProgress
    BY <1>4 DEF RemovePlayer
  <2>2. TypeOK'
    BY <1>1, <2>1 DEF TypeOK
  <2>3. ClosedRoomIsEmpty'
    BY <1>1, <2>1 DEF ClosedRoomIsEmpty
  <2>4. GameRunsInItsRoom'
    BY <1>1, <2>1 DEF GameRunsInItsRoom
  <2> QED
    BY <1>2, <2>2, <2>3, <2>4
<1> QED
  BY <1>3, <1>4

\* createGame and endGame keep the tables sound.
LEMMA GamesAreSound ==
    ASSUME RoomsAreSound, NEW g \in GameIds,
           EndGame(g) \/ (\E r \in Rooms : CreateGame(r, g))
    PROVE  RoomsAreSound'
<1> USE DEF RoomsAreSound
<1>1. CASE EndGame(g)
  <2>1. /\ inProgress' = inProgress \ {g} /\ status' = status
        /\ maxPlayers' = maxPlayers /\ members' = members /\ gameRoom' = gameRoom
    BY <1>1 DEF EndGame
  <2> QED
    BY <2>1 DEF TypeOK, ClosedRoomIsEmpty, WithinCapacity, GameRunsInItsRoom
<1>2. CASE \E r \in Rooms : CreateGame(r, g)
  <2> PICK r \in Rooms : CreateGame(r, g)
    BY <1>2
  <2>1. /\ gameRoom[g] = NoRoom
        /\ gameRoom' = [gameRoom EXCEPT ![g] = r]
        /\ inProgress' = inProgress \cup {g}
        /\ status' = [status EXCEPT ![r] = "GAME_IN_PROGRESS"]
        /\ maxPlayers' = maxPlayers /\ members' = members
    BY DEF CreateGame
  <2>2. TypeOK'
    BY <2>1, StoreAssumption DEF TypeOK, Statuses, StoreAssumption
  <2>3. ClosedRoomIsEmpty'
    BY <2>1 DEF ClosedRoomIsEmpty, TypeOK
  <2>4. WithinCapacity'
    BY <2>1 DEF WithinCapacity
  <2>5. GameRunsInItsRoom'
    BY <2>1 DEF GameRunsInItsRoom, TypeOK
  <2> QED
    BY <2>2, <2>3, <2>4, <2>5
<1> QED
  BY <1>1, <1>2

\* Every transaction of the repositories keeps the tables sound.
LEMMA StepIsSound == RoomsAreSound /\ [Next]_storeVars => RoomsAreSound'
<1> SUFFICES ASSUME RoomsAreSound, [Next]_storeVars PROVE RoomsAreSound'
  OBVIOUS
<1>1. ASSUME NEW u \in Users, NEW n \in Requested, NEW r \in Rooms,
             CreateRoomWithHost(u, n, r)
      PROVE  RoomsAreSound'
  BY <1>1, CreateRoomIsSound
<1>2. ASSUME NEW u \in Users, NEW r \in Rooms, AddPlayer(r, u)
      PROVE  RoomsAreSound'
  BY <1>2, AddPlayerIsSound
<1>3. ASSUME NEW u \in Users, NEW r \in Rooms, RemovePlayer(u, r)
      PROVE  RoomsAreSound'
  BY <1>3, RemovePlayerIsSound
<1>4. ASSUME NEW r \in Rooms, NEW g \in GameIds, CreateGame(r, g)
      PROVE  RoomsAreSound'
  BY <1>4, GamesAreSound
<1>5. ASSUME NEW g \in GameIds, EndGame(g)
      PROVE  RoomsAreSound'
  BY <1>5, GamesAreSound
<1>6. CASE UNCHANGED storeVars
  BY <1>6 DEF storeVars, RoomsAreSound, TypeOK, ClosedRoomIsEmpty,
              WithinCapacity, GameRunsInItsRoom
<1> QED
  BY <1>1, <1>2, <1>3, <1>4, <1>5, <1>6 DEF Next

\* In every reachable state of the store, whatever clients and mirror servers
\* ask for, the tables are sound (the transactions of room_repository.cpp and
\* game_repository.cpp).
THEOREM StoreIsSound == Spec => []RoomsAreSound
  BY InitIsSound, StepIsSound, PTL DEF Spec

\* The columns always hold values of their types.
THEOREM StoreTypeOK == Spec => []TypeOK
<1>1. RoomsAreSound => TypeOK
  BY DEF RoomsAreSound
<1> QED
  BY <1>1, StoreIsSound, PTL

\* A room that createRoomWithHost reuses is empty.
THEOREM StoreClosedRoomIsEmpty == Spec => []ClosedRoomIsEmpty
<1>1. RoomsAreSound => ClosedRoomIsEmpty
  BY DEF RoomsAreSound
<1> QED
  BY <1>1, StoreIsSound, PTL

\* No room is ever over its capacity, for any number of rooms and users.
THEOREM StoreWithinCapacity == Spec => []WithinCapacity
<1>1. RoomsAreSound => WithinCapacity
  BY DEF RoomsAreSound
<1> QED
  BY <1>1, StoreIsSound, PTL

\* Games run only in rooms that are GAME_IN_PROGRESS.
THEOREM StoreGameRunsInItsRoom == Spec => []GameRunsInItsRoom
<1>1. RoomsAreSound => GameRunsInItsRoom
  BY DEF RoomsAreSound
<1> QED
  BY <1>1, StoreIsSound, PTL

\* addPlayer and createRoomWithHost are the only way into a room, and neither
\* enters a room whose game is running.
THEOREM StoreNoEntryDuringGame == Spec => NoEntryDuringGame
<1>1. RoomsAreSound /\ [Next]_storeVars
        => [\A r \in Rooms : ~ (members'[r] \subseteq members[r])
              => /\ status[r] # "GAME_IN_PROGRESS"
                 /\ status'[r] = "WAITING"]_storeVars
  <2> SUFFICES ASSUME RoomsAreSound, [Next]_storeVars,
                      NEW r \in Rooms, ~ (members'[r] \subseteq members[r])
               PROVE  status[r] # "GAME_IN_PROGRESS" /\ status'[r] = "WAITING"
    OBVIOUS
  <2> USE DEF RoomsAreSound, TypeOK
  <2>1. ASSUME NEW u \in Users, NEW n \in Requested, NEW q \in Rooms,
               CreateRoomWithHost(u, n, q)
        PROVE  status[r] # "GAME_IN_PROGRESS" /\ status'[r] = "WAITING"
    BY <2>1 DEF CreateRoomWithHost, IsFirst, Terminated
  <2>2. ASSUME NEW u \in Users, NEW q \in Rooms, AddPlayer(q, u)
        PROVE  status[r] # "GAME_IN_PROGRESS" /\ status'[r] = "WAITING"
    BY <2>2 DEF AddPlayer
  <2>3. ASSUME NEW u \in Users, NEW q \in Rooms, RemovePlayer(u, q)
        PROVE  FALSE
    BY <2>3 DEF RemovePlayer
  <2>4. ASSUME NEW q \in Rooms, NEW g \in GameIds, CreateGame(q, g)
        PROVE  FALSE
    BY <2>4 DEF CreateGame
  <2>5. ASSUME NEW g \in GameIds, EndGame(g)
        PROVE  FALSE
    BY <2>5 DEF EndGame
  <2>6. CASE UNCHANGED storeVars
    BY <2>6 DEF storeVars
  <2> QED
    BY <2>1, <2>2, <2>3, <2>4, <2>5, <2>6 DEF Next
<1> QED
  BY <1>1, StoreIsSound, PTL DEF Spec, NoEntryDuringGame

\* Only createRoomWithHost writes max_players, and only of an empty room.
THEOREM StoreCapacityIsStable == Spec => CapacityIsStable
<1>1. RoomsAreSound /\ [Next]_storeVars
        => [\A r \in Rooms : maxPlayers'[r] # maxPlayers[r]
              => members[r] = {} /\ status[r] = "TERMINATED"]_storeVars
  <2> SUFFICES ASSUME RoomsAreSound, [Next]_storeVars,
                      NEW r \in Rooms, maxPlayers'[r] # maxPlayers[r]
               PROVE  members[r] = {} /\ status[r] = "TERMINATED"
    OBVIOUS
  <2>1. PICK u \in Users, n \in Requested, q \in Rooms : CreateRoomWithHost(u, n, q)
    BY DEF Next, AddPlayer, RemovePlayer, CreateGame, EndGame, storeVars
  <2>2. q = r /\ status[r] = "TERMINATED"
    BY <2>1 DEF CreateRoomWithHost, IsFirst, Terminated, RoomsAreSound, TypeOK
  <2> QED
    BY <2>2 DEF RoomsAreSound, ClosedRoomIsEmpty
<1> QED
  BY <1>1, StoreIsSound, PTL DEF Spec, CapacityIsStable

\* No transaction brings a room back that createGame took when it was empty,
\* or that its last player left by the wrong row.
THEOREM StoreLostRoomStaysLost == Spec => LostRoomStaysLost
<1>1. RoomsAreSound /\ [Next]_storeVars
        => [\A r \in Rooms : status[r] = "GAME_IN_PROGRESS" /\ members[r] = {}
              => status'[r] = "GAME_IN_PROGRESS" /\ members'[r] = {}]_storeVars
  <2> SUFFICES ASSUME RoomsAreSound, [Next]_storeVars, NEW r \in Rooms,
                      status[r] = "GAME_IN_PROGRESS", members[r] = {}
               PROVE  status'[r] = "GAME_IN_PROGRESS" /\ members'[r] = {}
    OBVIOUS
  <2> USE DEF RoomsAreSound, TypeOK
  <2>1. ASSUME NEW u \in Users, NEW n \in Requested, NEW q \in Rooms,
               CreateRoomWithHost(u, n, q)
        PROVE  status'[r] = "GAME_IN_PROGRESS" /\ members'[r] = {}
    BY <2>1 DEF CreateRoomWithHost, IsFirst, Terminated
  <2>2. ASSUME NEW u \in Users, NEW q \in Rooms, AddPlayer(q, u)
        PROVE  status'[r] = "GAME_IN_PROGRESS" /\ members'[r] = {}
    BY <2>2 DEF AddPlayer
  <2>3. ASSUME NEW u \in Users, NEW q \in Rooms, RemovePlayer(u, q)
        PROVE  status'[r] = "GAME_IN_PROGRESS" /\ members'[r] = {}
    BY <2>3 DEF RemovePlayer, RoomsOf
  <2>4. ASSUME NEW q \in Rooms, NEW g \in GameIds, CreateGame(q, g)
        PROVE  status'[r] = "GAME_IN_PROGRESS" /\ members'[r] = {}
    BY <2>4 DEF CreateGame
  <2>5. ASSUME NEW g \in GameIds, EndGame(g)
        PROVE  status'[r] = "GAME_IN_PROGRESS" /\ members'[r] = {}
    BY <2>5 DEF EndGame
  <2>6. CASE UNCHANGED storeVars
    BY <2>6 DEF storeVars
  <2> QED
    BY <2>1, <2>2, <2>3, <2>4, <2>5, <2>6 DEF Next
<1> QED
  BY <1>1, StoreIsSound, PTL DEF Spec, LostRoomStaysLost

\* removePlayer closes the room of its only row, and completes the games there:
\* a user in one room leaves no room behind that is empty and not TERMINATED.
THEOREM StoreLastExitReturnsRoom == Spec => LastExitReturnsRoom
<1>1. RoomsAreSound /\ [Next]_storeVars
        => [\A r \in Rooms : LastExit(r) => ReturnsRoom(r)]_storeVars
  <2> SUFFICES ASSUME RoomsAreSound, [Next]_storeVars, NEW r \in Rooms, LastExit(r)
               PROVE  ReturnsRoom(r)
    OBVIOUS
  <2>0. PICK u \in Users : RoomsOf(u) = {r} /\ members[r] = {u} /\ members'[r] = {}
    BY DEF LastExit
  <2> USE <2>0 DEF RoomsAreSound, TypeOK
  <2>1. PICK v \in Users, q \in Rooms : RemovePlayer(v, q)
    <3>1. members'[r] # members[r]
      OBVIOUS
    <3>2. ASSUME NEW v \in Users, NEW n \in Requested, NEW q \in Rooms,
                 CreateRoomWithHost(v, n, q)
          PROVE  FALSE
      BY <3>2 DEF CreateRoomWithHost
    <3>3. ASSUME NEW v \in Users, NEW q \in Rooms, AddPlayer(q, v)
          PROVE  FALSE
      BY <3>3 DEF AddPlayer
    <3> QED
      BY <3>1, <3>2, <3>3 DEF Next, CreateGame, EndGame, storeVars
  <2>2. v = u /\ q = r
    BY <2>1 DEF RemovePlayer, RoomsOf
  <2>3. /\ status' = [status EXCEPT ![r] = "TERMINATED"]
        /\ inProgress' = {g \in inProgress : gameRoom[g] # r}
        /\ gameRoom' = gameRoom
    BY <2>1, <2>2 DEF RemovePlayer
  <2> QED
    BY <2>3 DEF ReturnsRoom
<1> QED
  BY <1>1, StoreIsSound, PTL DEF Spec, LastExitReturnsRoom
=============================================================================
