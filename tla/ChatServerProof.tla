--------------------------- MODULE ChatServerProof ---------------------------
(***************************************************************************)
(* Proofs about ChatServer, for any connections, nicknames and threads.    *)
(***************************************************************************)
EXTENDS ChatServer, FiniteSetTheorems, SequenceTheorems, TLAPS

\* Steps of clients and of the acceptor, and a failing read, keep the types.
LEMMA TypeOutsideHandlers ==
    ASSUME TypeOK, NEW c \in Conns,
           \/ Accept(c) \/ Leave(c) \/ ReadFails(c)
           \/ \E line \in Lines : ReadLine(c, line)
    PROVE  TypeOK'
<1> USE ChatAssumption DEF TypeOK, InHandler
<1>1. CASE Accept(c)
    BY <1>1 DEF Accept
<1>2. CASE Leave(c)
    BY <1>2 DEF Leave
<1>3. CASE ReadFails(c)
    BY <1>3 DEF ReadFails
<1>4. CASE \E line \in Lines : ReadLine(c, line)
  <2>1. PICK line \in Lines : ReadLine(c, line)
      BY <1>4
  <2>2. nickname' \in [Conns -> Lines]
      BY <2>1 DEF ReadLine
  <2>3. /\ phase' \in [Conns -> InHandler \cup {"none", "reading", "gone"}]
        /\ \A d \in Conns : phase'[d] = "writing" <=> phase[d] = "writing"
      BY <2>1 DEF ReadLine
  <2> QED
      BY <2>1, <2>2, <2>3 DEF ReadLine
<1> QED
    BY <1>1, <1>2, <1>3, <1>4

\* Steps of a handler keep the types, and the mutex goes to the handler that
\* begins its broadcast.
LEMMA TypeInHandlers ==
    ASSUME TypeOK, NEW c \in Conns, Handler(c)
    PROVE  TypeOK'
<1> USE ChatAssumption DEF TypeOK, InHandler
<1>1. CASE Register(c)
  <2>1. /\ UNCHANGED <<nickname, owner, todo, left, inbox, posted, post>>
        /\ phase[c] = "naming"
      BY <1>1 DEF Register
  <2>2. CASE clients[nickname[c]] = NoOne
    <3>1. /\ clients' = [clients EXCEPT ![nickname[c]] = c]
          /\ phase' = [phase EXCEPT ![c] = "posting"]
          /\ since' = [since EXCEPT ![c] = posted]
        BY <1>1, <2>2 DEF Register
    <3> QED
        BY <2>1, <3>1
  <2>3. CASE clients[nickname[c]] # NoOne
    <3>1. /\ phase' = [phase EXCEPT ![c] = "gone"]
          /\ UNCHANGED <<clients, since>>
        BY <1>1, <2>3 DEF Register
    <3> QED
        BY <2>1, <3>1
  <2> QED
      BY <2>2, <2>3
<1>2. CASE BroadcastBegin(c)
  <2>1. phase' \in [Conns -> InHandler \cup {"none", "reading", "gone"}]
      BY <1>2 DEF BroadcastBegin
  <2>2. \A d \in Conns : phase[d] # "writing"
      BY <1>2 DEF BroadcastBegin
  <2>3. \A d \in Conns : phase'[d] = "writing" <=> owner' = d
      BY <1>2, <2>2 DEF BroadcastBegin
  <2>4. todo' \in [Conns -> SUBSET Lines] /\ posted' \in Nat /\ post' \in [Conns -> Nat]
      BY <1>2 DEF BroadcastBegin
  <2> QED
      BY <1>2, <2>1, <2>3, <2>4 DEF BroadcastBegin
<1>3. CASE BroadcastEnd(c)
  <2>1. phase' \in [Conns -> InHandler \cup {"none", "reading", "gone"}]
      BY <1>3 DEF BroadcastEnd
  <2>2. owner = c
      BY <1>3 DEF BroadcastEnd
  <2>3. \A d \in Conns : phase'[d] # "writing" /\ owner' # d
      BY <1>3, <2>2 DEF BroadcastEnd
  <2> QED
      BY <1>3, <2>1, <2>3 DEF BroadcastEnd
<1>4. CASE \E n \in Lines : Write(c, n)
  <2>1. PICK n \in Lines : Write(c, n)
      BY <1>4
  <2>2. inbox' \in [Conns -> Seq(Nat)]
    <3>1. CASE clients[n] \in Conns
      <4>1. inbox[clients[n]] \in Seq(Nat) /\ post[c] \in Nat
          BY <3>1
      <4>2. Append(inbox[clients[n]], post[c]) \in Seq(Nat)
          BY <4>1
      <4> QED
          BY <2>1, <3>1, <4>2 DEF Write
    <3>2. CASE clients[n] \notin Conns
      <4>1. inbox' = inbox
          BY <2>1, <3>2 DEF Write
      <4> QED
          BY <4>1
    <3> QED
        BY <3>1, <3>2
  <2>3. todo' \in [Conns -> SUBSET Lines]
      BY <2>1 DEF Write
  <2> QED
      BY <2>1, <2>2, <2>3 DEF Write
<1> QED
    BY <1>1, <1>2, <1>3, <1>4 DEF Handler

\* Every step keeps the types.
LEMMA TypeStep == TypeOK /\ [Next]_vars => TypeOK'
<1>1. ASSUME TypeOK, Next PROVE TypeOK'
    BY <1>1, TypeOutsideHandlers, TypeInHandlers DEF Next
<1>2. ASSUME TypeOK, UNCHANGED vars PROVE TypeOK'
    BY <1>2 DEF TypeOK, vars, InHandler
<1> QED
    BY <1>1, <1>2

\* The types hold in every reachable state, and only the broadcast that writes
\* holds the mutex.
THEOREM ChatTypeOK == Spec => []TypeOK
<1>1. Init => TypeOK
    BY ChatAssumption DEF Init, TypeOK, InHandler, Lines
<1> QED
    BY <1>1, TypeStep, PTL DEF Spec

\* A connection that has not been accepted has no nickname.
NewHasNoNickname == \A c \in Conns : phase[c] = "none" => nickname[c] = Empty

\* The inductive invariant of the registry.  It needs NewHasNoNickname where
\* Accept makes a service of a connection.
RegistryIsSound == TypeOK /\ NewHasNoNickname /\ NicknameLeadsToItsService

\* No step gives a nickname to a connection before it is accepted.
LEMMA NewStep == RegistryIsSound /\ [Next]_vars => NewHasNoNickname'
<1> SUFFICES ASSUME RegistryIsSound, [Next]_vars, NEW d \in Conns, phase'[d] = "none"
             PROVE  nickname'[d] = Empty
    BY DEF NewHasNoNickname
<1>1. TypeOK /\ NewHasNoNickname
    BY DEF RegistryIsSound
<1>2. phase[d] = "none" /\ nickname'[d] = nickname[d]
  <2> USE <1>1 DEF TypeOK
  <2>1. ASSUME NEW c \in Conns, Accept(c) \/ Leave(c) \/ ReadFails(c)
        PROVE  phase[d] = "none" /\ nickname'[d] = nickname[d]
      BY <2>1 DEF Accept, Leave, ReadFails
  <2>2. ASSUME NEW c \in Conns, NEW line \in Lines, ReadLine(c, line)
        PROVE  phase[d] = "none" /\ nickname'[d] = nickname[d]
      BY <2>2 DEF ReadLine
  <2>3. ASSUME NEW c \in Conns, Handler(c)
        PROVE  phase[d] = "none" /\ nickname'[d] = nickname[d]
      BY <2>3 DEF Handler, Register, BroadcastBegin, BroadcastEnd, Write
  <2>4. CASE UNCHANGED vars
      BY <2>4 DEF vars
  <2> QED
      BY <2>1, <2>2, <2>3, <2>4 DEF Next
<1> QED
    BY <1>1, <1>2 DEF NewHasNoNickname

\* Registration under the mutex: a nickname that leads to a service is not
\* free, so that no step leads it elsewhere.
LEMMA NicknameStep ==
    RegistryIsSound /\ [Next]_vars => NicknameLeadsToItsService'
<1> SUFFICES ASSUME RegistryIsSound, [Next]_vars,
                    NEW d \in Conns,
                    phase'[d] \in {"reading", "posting", "writing"}, nickname'[d] # Empty
             PROVE  clients'[nickname'[d]] = d
    BY DEF NicknameLeadsToItsService
<1> USE ChatAssumption DEF RegistryIsSound, TypeOK, NicknameLeadsToItsService
<1>1. ASSUME NEW c \in Conns, Register(c) PROVE clients'[nickname'[d]] = d
  <2>1. CASE d = c
      BY <1>1, <2>1 DEF Register
  <2>2. CASE d # c
      BY <1>1, <2>2 DEF Register
  <2> QED
      BY <2>1, <2>2
<1>2. ASSUME NEW c \in Conns, NEW line \in Lines, ReadLine(c, line)
      PROVE  clients'[nickname'[d]] = d
  <2>1. CASE d = c
      BY <1>2, <2>1 DEF ReadLine
  <2>2. CASE d # c
      BY <1>2, <2>2 DEF ReadLine
  <2> QED
      BY <2>1, <2>2
<1>3. ASSUME NEW c \in Conns, Accept(c) PROVE clients'[nickname'[d]] = d
  <2>1. d = c => nickname[d] = Empty
      BY <1>3 DEF Accept, NewHasNoNickname
  <2> QED
      BY <1>3, <2>1 DEF Accept
<1>4. ASSUME NEW c \in Conns, Leave(c) \/ ReadFails(c) PROVE clients'[nickname'[d]] = d
    BY <1>4 DEF Leave, ReadFails
<1>5. ASSUME NEW c \in Conns, BroadcastBegin(c) \/ BroadcastEnd(c)
      PROVE  clients'[nickname'[d]] = d
    BY <1>5 DEF BroadcastBegin, BroadcastEnd
<1>6. ASSUME NEW c \in Conns, NEW n \in Lines, Write(c, n)
      PROVE  clients'[nickname'[d]] = d
    BY <1>6 DEF Write
<1>7. CASE UNCHANGED vars
    BY <1>7 DEF vars
<1> QED
    BY <1>1, <1>2, <1>3, <1>4, <1>5, <1>6, <1>7 DEF Next, Handler

\* No two services chat under one nickname: the entry of a nickname leads to
\* the one service that chats under it.
THEOREM ChatNicknameLeadsToItsService == Spec => []NicknameLeadsToItsService
<1>1. Init => RegistryIsSound
    BY ChatAssumption DEF Init, RegistryIsSound, TypeOK, InHandler, Lines,
       NewHasNoNickname, NicknameLeadsToItsService
<1>2. TypeOK /\ [Next]_vars => TypeOK'
    BY TypeStep
<1>3. RegistryIsSound /\ [Next]_vars => RegistryIsSound'
    BY <1>2, NewStep, NicknameStep DEF RegistryIsSound
<1>4. RegistryIsSound => NicknameLeadsToItsService
    BY DEF RegistryIsSound
<1> QED
    BY <1>1, <1>3, <1>4, PTL DEF Spec
-----------------------------------------------------------------------------
(***************************************************************************)
(* What is written to a connection.                                        *)
(***************************************************************************)

\* The broadcast that holds the mutex, if it has still to write to c.
Pending(c) == IF owner # NoOne /\ Entries(c) \cap todo[owner] # {} THEN 1 ELSE 0

\* The broadcast that holds the mutex is the last one, and it writes to entries
\* of the map only.
BroadcastIsRegistered ==
    owner # NoOne =>
        /\ post[owner] = posted
        /\ \A n \in todo[owner] : clients[n] # NoOne

\* A service registers under its nickname, or under the empty line before it
\* has one; what it is written begins when it registers.
EntriesAreOwn(c) == Entries(c) \subseteq {Empty, nickname[c]}
Written(c) ==
    /\ Entries(c) = {} => inbox[c] = <<>>
    /\ \A n \in Lines : Entries(c) = {n} =>
         /\ Len(inbox[c]) = posted - since[c] - Pending(c)
         /\ \A i \in 1 .. Len(inbox[c]) : inbox[c][i] = since[c] + i

\* The inductive invariant of the broadcasts.
BroadcastsInOrder ==
    /\ TypeOK /\ BroadcastIsRegistered
    /\ \A c \in Conns : EntriesAreOwn(c) /\ Written(c)

\* Only Register changes the map, and there a free entry becomes one of the
\* service that registers.
LEMMA EntriesStay ==
    ASSUME TypeOK, [Next]_vars, NEW c \in Conns
    PROVE  \/ Entries(c)' = Entries(c) /\ since'[c] = since[c]
           \/ /\ Register(c) /\ clients[nickname[c]] = NoOne
              /\ Entries(c)' = Entries(c) \cup {nickname[c]}
              /\ since'[c] = posted
<1> USE ChatAssumption DEF TypeOK
<1>1. ASSUME NEW d \in Conns, Register(d), clients[nickname[d]] = NoOne
      PROVE  \/ Entries(c)' = Entries(c) /\ since'[c] = since[c]
             \/ /\ d = c /\ Entries(c)' = Entries(c) \cup {nickname[c]}
                /\ since'[c] = posted
  <2>1. /\ clients' = [clients EXCEPT ![nickname[d]] = d]
        /\ since' = [since EXCEPT ![d] = posted] /\ nickname[d] \in Lines
      BY <1>1 DEF Register
  <2>2. CASE d = c
      BY <2>1, <2>2 DEF Entries
  <2>3. CASE d # c
    <3>1. \A n \in Lines : clients'[n] = c <=> clients[n] = c
        BY <1>1, <2>1, <2>3
    <3> QED
        BY <2>1, <2>3, <3>1 DEF Entries
  <2> QED
      BY <2>2, <2>3
<1>2. ASSUME NEW d \in Conns, Register(d), clients[nickname[d]] # NoOne
      PROVE  UNCHANGED <<clients, since>>
    BY <1>2 DEF Register
<1>3. ASSUME NEW d \in Conns, NEW line \in Lines,
             \/ Accept(d) \/ Leave(d) \/ ReadFails(d) \/ ReadLine(d, line)
             \/ BroadcastBegin(d) \/ BroadcastEnd(d) \/ Write(d, line)
      PROVE  UNCHANGED <<clients, since>>
    BY <1>3 DEF Accept, Leave, ReadFails, ReadLine, BroadcastBegin, BroadcastEnd, Write
<1>4. CASE UNCHANGED vars
    BY <1>4 DEF vars, Entries
<1>5. UNCHANGED <<clients, since>> => Entries(c)' = Entries(c) /\ since'[c] = since[c]
    BY DEF Entries
<1> QED
    BY <1>1, <1>2, <1>3, <1>4, <1>5 DEF Next, Handler, Lines

\* A step that is not one of a broadcast writes nothing.
LEMMA QuietStep ==
    ASSUME TypeOK, [Next]_vars
    PROVE  \/ UNCHANGED <<owner, todo, inbox, posted, post>>
           \/ \E d \in Conns : \/ BroadcastBegin(d) \/ BroadcastEnd(d)
                               \/ \E n \in Lines : Write(d, n)
BY DEF Next, Handler, vars, Register, Accept, Leave, ReadFails, ReadLine

\* The types of what one connection has.
LEMMA ConnectionTypes ==
    ASSUME TypeOK, NEW c \in Conns
    PROVE  /\ inbox[c] \in Seq(Nat) /\ Len(inbox[c]) \in Nat
           /\ posted \in Nat /\ since[c] \in Nat /\ nickname[c] \in Lines
           /\ Entries(c) \subseteq Lines /\ c # NoOne
           /\ Pending(c) \in {0, 1}
BY ChatAssumption DEF TypeOK, Entries, Pending

LEMMA OwnStep == BroadcastsInOrder /\ [Next]_vars => \A c \in Conns : EntriesAreOwn(c)'
<1> SUFFICES ASSUME BroadcastsInOrder, [Next]_vars, NEW c \in Conns
             PROVE  EntriesAreOwn(c)'
    OBVIOUS
<1>1. TypeOK /\ EntriesAreOwn(c)
    BY DEF BroadcastsInOrder
<1>2. nickname'[c] = nickname[c] \/ nickname[c] = Empty
  <2>1. ASSUME NEW d \in Conns, NEW line \in Lines, ReadLine(d, line)
        PROVE  nickname'[c] = nickname[c] \/ nickname[c] = Empty
      BY <1>1, <2>1 DEF ReadLine, TypeOK
  <2>2. ASSUME NEW d \in Conns, Accept(d) \/ Leave(d) \/ ReadFails(d) \/ Handler(d)
        PROVE  nickname' = nickname
      BY <2>2 DEF Accept, Leave, ReadFails, Handler, Register, BroadcastBegin,
         BroadcastEnd, Write
  <2> QED
      BY <2>1, <2>2 DEF Next, vars
<1>3. Register(c) => nickname'[c] = nickname[c]
    BY DEF Register
<1> QED
    BY <1>1, <1>2, <1>3, EntriesStay DEF EntriesAreOwn

LEMMA RegisteredStep == BroadcastsInOrder /\ [Next]_vars => BroadcastIsRegistered'
<1> SUFFICES ASSUME BroadcastsInOrder, [Next]_vars PROVE BroadcastIsRegistered'
    OBVIOUS
<1> USE ChatAssumption DEF TypeOK, BroadcastIsRegistered
<1>1. TypeOK /\ BroadcastIsRegistered
    BY DEF BroadcastsInOrder
<1>2. \A n \in Lines : clients[n] # NoOne => clients'[n] # NoOne
  <2>1. ASSUME NEW d \in Conns, Register(d)
        PROVE  \A n \in Lines : clients[n] # NoOne => clients'[n] # NoOne
      BY <1>1, <2>1 DEF Register
  <2>2. ASSUME NEW d \in Conns, NEW line \in Lines,
               \/ Accept(d) \/ Leave(d) \/ ReadFails(d) \/ ReadLine(d, line)
               \/ BroadcastBegin(d) \/ BroadcastEnd(d) \/ Write(d, line)
        PROVE  clients' = clients
      BY <2>2 DEF Accept, Leave, ReadFails, ReadLine, BroadcastBegin, BroadcastEnd, Write
  <2> QED
      BY <2>1, <2>2 DEF Next, Handler, vars, Lines
<1>3. CASE UNCHANGED <<owner, todo, inbox, posted, post>>
    BY <1>1, <1>2, <1>3
<1>4. ASSUME NEW d \in Conns, BroadcastBegin(d) PROVE BroadcastIsRegistered'
    BY <1>1, <1>4 DEF BroadcastBegin
<1>5. ASSUME NEW d \in Conns, BroadcastEnd(d) PROVE BroadcastIsRegistered'
    BY <1>5 DEF BroadcastEnd
<1>6. ASSUME NEW d \in Conns, NEW n \in Lines, Write(d, n) PROVE BroadcastIsRegistered'
  <2>1. /\ UNCHANGED <<owner, clients, posted, post>> /\ owner = d
        /\ todo' = [todo EXCEPT ![d] = @ \ {n}]
      BY <1>1, <1>6 DEF Write
  <2>2. todo'[owner] \subseteq todo[owner]
      BY <1>1, <2>1
  <2> QED
      BY <1>1, <2>1, <2>2
<1> QED
    BY <1>1, <1>3, <1>4, <1>5, <1>6, QuietStep

\* A write of a broadcast is the next number of the one connection it goes to.
LEMMA WriteStep ==
    ASSUME BroadcastsInOrder, NEW d \in Conns, NEW n \in Lines, Write(d, n),
           NEW c \in Conns, Entries(c)' = Entries(c), since'[c] = since[c]
    PROVE  Written(c)'
<1> USE ChatAssumption
<1>1. /\ TypeOK /\ BroadcastIsRegistered /\ Written(c)
    BY DEF BroadcastsInOrder
<1>2. /\ owner = d /\ owner # NoOne /\ UNCHANGED <<owner, clients, posted, post>>
      /\ n \in todo[d] /\ todo'[d] = todo[d] \ {n} /\ post[d] = posted
      /\ inbox' = [inbox EXCEPT ![clients[n]] = Append(@, posted)]
      /\ clients[n] \in Conns
    BY <1>1 DEF Write, TypeOK, BroadcastIsRegistered
<1>3. /\ inbox[c] \in Seq(Nat) /\ Len(inbox[c]) \in Nat /\ posted \in Nat
      /\ since[c] \in Nat /\ Entries(c) \subseteq Lines
    BY <1>1, ConnectionTypes
<1>4. CASE clients[n] # c
  <2>1. n \notin Entries(c) /\ inbox'[c] = inbox[c]
      BY <1>1, <1>2, <1>4 DEF Entries, TypeOK
  <2>2. Entries(c) \cap todo'[d] = Entries(c) \cap todo[d]
      BY <1>2, <2>1
  <2>3. Pending(c)' = Pending(c)
      BY <1>2, <2>2 DEF Pending
  <2> QED
      BY <1>1, <1>2, <2>1, <2>3 DEF Written
<1>5. CASE clients[n] = c
  <2>1. n \in Entries(c) /\ inbox'[c] = Append(inbox[c], posted)
      BY <1>1, <1>2, <1>5 DEF Entries, TypeOK
  <2>2. SUFFICES ASSUME NEW m \in Lines, Entries(c) = {m}
                 PROVE  /\ Len(inbox'[c]) = posted' - since'[c] - Pending(c)'
                        /\ \A i \in 1 .. Len(inbox'[c]) : inbox'[c][i] = since'[c] + i
      BY <2>1 DEF Written
  <2>3. Entries(c) = {n}
      BY <2>1, <2>2
  <2>4. Pending(c) = 1 /\ Pending(c)' = 0
      BY <1>2, <2>3 DEF Pending
  <2>5. /\ Len(inbox[c]) = posted - since[c] - 1
        /\ \A i \in 1 .. Len(inbox[c]) : inbox[c][i] = since[c] + i
      BY <1>1, <2>3, <2>4 DEF Written
  <2>6. /\ Len(inbox'[c]) = Len(inbox[c]) + 1
        /\ \A i \in 1 .. Len(inbox[c]) : inbox'[c][i] = inbox[c][i]
        /\ inbox'[c][Len(inbox[c]) + 1] = posted
      BY <1>3, <2>1, AppendProperties
  <2>7. Len(inbox[c]) + 1 = posted - since[c] /\ since[c] + (Len(inbox[c]) + 1) = posted
      BY <1>3, <2>5
  <2>8. \A i \in 1 .. Len(inbox[c]) + 1 : i \in 1 .. Len(inbox[c]) \/ i = Len(inbox[c]) + 1
      BY <1>3
  <2>9. posted' = posted /\ since'[c] = since[c]
      BY <1>2
  <2>10. Len(inbox'[c]) = posted' - since'[c] - Pending(c)'
      BY <1>3, <2>4, <2>6, <2>7, <2>9
  <2>11. ASSUME NEW i \in 1 .. Len(inbox'[c]) PROVE inbox'[c][i] = since'[c] + i
    <3>1. i \in 1 .. Len(inbox[c]) \/ i = Len(inbox[c]) + 1
        BY <2>6, <2>8
    <3> QED
        BY <2>5, <2>6, <2>7, <2>9, <3>1
  <2> QED
      BY <2>10, <2>11
<1> QED
    BY <1>4, <1>5

LEMMA WrittenStep == BroadcastsInOrder /\ [Next]_vars => \A c \in Conns : Written(c)'
<1> SUFFICES ASSUME BroadcastsInOrder, [Next]_vars, NEW c \in Conns PROVE Written(c)'
    OBVIOUS
<1>1. TypeOK /\ BroadcastIsRegistered /\ EntriesAreOwn(c) /\ Written(c)
    BY DEF BroadcastsInOrder
<1>2. /\ inbox[c] \in Seq(Nat) /\ Len(inbox[c]) \in Nat /\ posted \in Nat
      /\ since[c] \in Nat /\ Entries(c) \subseteq Lines /\ nickname[c] \in Lines
    BY <1>1, ConnectionTypes
<1>3. CASE /\ Register(c) /\ clients[nickname[c]] = NoOne
           /\ Entries(c)' = Entries(c) \cup {nickname[c]} /\ since'[c] = posted
  <2>1. UNCHANGED <<inbox, posted, owner>> /\ owner = NoOne /\ nickname[c] \notin Entries(c)
      BY <1>3, ChatAssumption DEF Register, Entries
  <2>2. SUFFICES ASSUME NEW n \in Lines, Entries(c)' = {n}
                 PROVE  /\ Len(inbox'[c]) = posted' - since'[c] - Pending(c)'
                        /\ \A i \in 1 .. Len(inbox'[c]) : inbox'[c][i] = since'[c] + i
      BY <1>3 DEF Written
  <2>3. Entries(c) = {}
      BY <1>3, <2>1, <2>2
  <2>4. inbox[c] = <<>> /\ Pending(c)' = 0
      BY <1>1, <2>1, <2>3 DEF Written, Pending
  <2> QED
      BY <1>2, <1>3, <2>1, <2>4
<1>4. CASE Entries(c)' = Entries(c) /\ since'[c] = since[c]
  <2>1. CASE UNCHANGED <<owner, todo, inbox, posted, post>>
    <3>1. Pending(c)' = Pending(c)
        BY <1>4, <2>1 DEF Pending
    <3> QED
        BY <1>1, <1>4, <2>1, <3>1 DEF Written
  <2>2. ASSUME NEW d \in Conns, BroadcastBegin(d) PROVE Written(c)'
    <3>1. /\ owner = NoOne /\ owner' = d /\ inbox' = inbox /\ posted' = posted + 1
          /\ todo'[d] = {n \in Lines : clients[n] # NoOne} /\ d # NoOne
        BY <1>1, <2>2, ChatAssumption DEF BroadcastBegin, TypeOK
    <3>2. Pending(c) = 0
        BY <3>1 DEF Pending
    <3>3. ASSUME NEW n \in Lines, Entries(c) = {n} PROVE Pending(c)' = 1
      <4>1. n \in todo'[d]
          BY <3>1, <3>3, ChatAssumption DEF Entries
      <4> QED
          BY <1>4, <3>1, <3>3, <4>1 DEF Pending
    <3>4. ASSUME NEW n \in Lines, Entries(c) = {n}
          PROVE  Len(inbox[c]) = posted' - since[c] - 1
      <4>1. Len(inbox[c]) = posted - since[c] - 0
          BY <1>1, <3>2, <3>4 DEF Written
      <4> QED
          BY <1>2, <3>1, <4>1
    <3> QED
        BY <1>1, <1>4, <3>1, <3>3, <3>4 DEF Written
  <2>3. ASSUME NEW d \in Conns, BroadcastEnd(d) PROVE Written(c)'
    <3>1. /\ owner = d /\ owner' = NoOne /\ todo[d] = {}
          /\ UNCHANGED <<inbox, posted>>
        BY <1>1, <2>3 DEF BroadcastEnd, TypeOK
    <3>2. Pending(c) = 0 /\ Pending(c)' = 0
        BY <3>1 DEF Pending
    <3> QED
        BY <1>1, <1>4, <3>1, <3>2 DEF Written
  <2>4. ASSUME NEW d \in Conns, NEW n \in Lines, Write(d, n) PROVE Written(c)'
      BY <1>4, <2>4, WriteStep
  <2> QED
      BY <1>1, <2>1, <2>2, <2>3, <2>4, QuietStep
<1> QED
    BY <1>1, <1>3, <1>4, EntriesStay

\* The services whose broadcast has still to come to a connection are the one
\* that holds the mutex, or none.
LEMMA ComingIsPending ==
    ASSUME TypeOK, NEW c \in Conns
    PROVE  Cardinality(Coming(c)) = Pending(c)
<1>1. Coming(c) = IF owner # NoOne /\ Entries(c) \cap todo[owner] # {} THEN {owner} ELSE {}
    BY ChatAssumption DEF Coming, TypeOK
<1> QED
    BY <1>1, FS_EmptySet, FS_Singleton DEF Pending

\* A connection that is in the map once is written, from its registration on,
\* every broadcast once and in the order of the mutex.
THEOREM ChatReceivesEveryBroadcast == Spec => []ReceivesEveryBroadcast
<1>1. Init => BroadcastsInOrder
  <2> SUFFICES ASSUME Init PROVE BroadcastsInOrder
      OBVIOUS
  <2>1. TypeOK
      BY ChatAssumption DEF Init, TypeOK, InHandler, Lines
  <2>2. BroadcastIsRegistered
      BY DEF Init, BroadcastIsRegistered
  <2>3. \A c \in Conns : Entries(c) = {} /\ inbox[c] = <<>>
      BY ChatAssumption DEF Init, Entries
  <2> QED
      BY <2>1, <2>2, <2>3 DEF BroadcastsInOrder, EntriesAreOwn, Written
<1>2. BroadcastsInOrder => TypeOK
    BY DEF BroadcastsInOrder
<1>3. BroadcastsInOrder /\ [Next]_vars => BroadcastsInOrder'
    BY <1>2, TypeStep, OwnStep, RegisteredStep, WrittenStep DEF BroadcastsInOrder
<1>4. BroadcastsInOrder => ReceivesEveryBroadcast
  <2> SUFFICES ASSUME BroadcastsInOrder, NEW c \in Conns, Cardinality(Entries(c)) = 1
               PROVE  inbox[c] = [i \in 1 .. posted - since[c] - Cardinality(Coming(c))
                                    |-> since[c] + i]
      BY DEF ReceivesEveryBroadcast
  <2>1. TypeOK /\ EntriesAreOwn(c) /\ Written(c)
      BY DEF BroadcastsInOrder
  <2>2. IsFiniteSet(Entries(c))
    <3>1. IsFiniteSet({Empty, nickname[c]})
      <4>1. IsFiniteSet({Empty}) /\ IsFiniteSet({nickname[c]})
          BY FS_Singleton
      <4>2. {Empty, nickname[c]} = {Empty} \cup {nickname[c]}
          OBVIOUS
      <4> QED
          BY <4>1, <4>2, FS_Union
    <3> QED
        BY <2>1, <3>1, FS_Subset DEF EntriesAreOwn
  <2>3. PICK n \in Lines : Entries(c) = {n}
    <3>1. \E n : Entries(c) = {n}
        BY <2>2, FS_Singleton
    <3> QED
        BY <3>1 DEF Entries
  <2>4. /\ Len(inbox[c]) = posted - since[c] - Cardinality(Coming(c))
        /\ \A i \in 1 .. Len(inbox[c]) : inbox[c][i] = since[c] + i
      BY <2>1, <2>3, ComingIsPending DEF Written
  <2>5. inbox[c] = [i \in 1 .. Len(inbox[c]) |-> inbox[c][i]]
    <3>1. inbox[c] \in Seq(Nat)
        BY <2>1, ConnectionTypes
    <3>2. \A q \in Seq(Nat) : q = [i \in 1 .. Len(q) |-> q[i]]
        OBVIOUS
    <3> QED
        BY <3>1, <3>2
  <2> QED
      BY <2>4, <2>5
<1> QED
    BY <1>1, <1>3, <1>4, PTL DEF Spec
=============================================================================
