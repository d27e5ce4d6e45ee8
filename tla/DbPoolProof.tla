---------------------------- MODULE DbPoolProof ----------------------------
(***************************************************************************)
(* Proofs about DbPool, for any number of callers and connections and any  *)
(* size of the pool.                                                       *)
(***************************************************************************)
EXTENDS DbPool, SequenceTheorems, FiniteSetTheorems, TLAPS

\* No connection is in two slots.
SlotsAreDistinct == \A i, j \in Slots : connections[i] = connections[j] => i = j

\* What a caller holds is in a slot that is in use.
HeldHasSlot ==
    \A c \in Callers : Holds(c) => \E i \in Slots : connections[i] = held[c] /\ inUse[i]

\* The inductive invariant.  That a connection is handed to one caller only
\* rests on free slots holding nobody's connection (HeldHasSlot), which rests
\* on every connection having one slot.
PoolIsSound ==
    /\ TypeOK
    /\ SlotsAreDistinct
    /\ HeldHasSlot
    /\ HeldExclusively
    /\ OnlyDeadConnectionsAreLost

\* The pool starts sound: distinct open connections, all free.
LEMMA InitIsSound == Init => PoolIsSound
<1> SUFFICES ASSUME Init PROVE PoolIsSound
    OBVIOUS
<1>1. PICK f \in [1 .. PoolSize -> Conns] :
        /\ \A i, j \in 1 .. PoolSize : f[i] = f[j] => i = j
        /\ connections = f
        /\ health = [n \in Conns |-> IF \E i \in 1 .. PoolSize : f[i] = n THEN "open" ELSE "none"]
    BY DEF Init
<1>2. connections \in Seq(Conns) /\ Len(connections) = PoolSize /\ Slots = 1 .. PoolSize
    BY <1>1, PoolAssumption DEF Slots
<1>3. inUse \in Seq(BOOLEAN) /\ Len(inUse) = PoolSize
    BY PoolAssumption DEF Init
<1>4. TypeOK
  <2>1. \A i \in Slots : health[connections[i]] = "open"
    BY <1>1, <1>2
  <2>2. health \in [Conns -> {"none", "open", "stale", "closed"}]
    BY <1>1
  <2> QED
    BY <1>2, <1>3, <2>1, <2>2 DEF Init, TypeOK
<1>5. SlotsAreDistinct
    BY <1>1, <1>2 DEF SlotsAreDistinct
<1>6. HeldHasSlot /\ HeldExclusively
    BY DEF Init, HeldHasSlot, HeldExclusively, Holds
<1>7. OnlyDeadConnectionsAreLost
    BY <1>2 DEF Init, OnlyDeadConnectionsAreLost
<1> QED
    BY <1>4, <1>5, <1>6, <1>7 DEF PoolIsSound

\* A connection that does not exist is in no slot and in nobody's hands.
LEMMA NewIsNowhere ==
    ASSUME PoolIsSound, NEW n \in Conns, health[n] = "none"
    PROVE  /\ \A i \in Slots : connections[i] # n
           /\ \A c \in Callers : held[c] # n
<1>1. \A i \in Slots : connections[i] # n
    BY DEF PoolIsSound, TypeOK
<1>2. \A c \in Callers : held[c] = n => Holds(c)
    BY PoolAssumption DEF Holds
<1> QED
    BY <1>1, <1>2 DEF PoolIsSound, HeldHasSlot

\* Every step keeps the pool sound.
LEMMA NextIsSound == PoolIsSound /\ [Next]_vars => PoolIsSound'
<1> SUFFICES ASSUME PoolIsSound, [Next]_vars PROVE PoolIsSound'
    OBVIOUS
<1> USE PoolAssumption
<1>0. /\ TypeOK /\ SlotsAreDistinct /\ HeldHasSlot /\ HeldExclusively
      /\ OnlyDeadConnectionsAreLost
    BY DEF PoolIsSound
<1>a. Slots = 1 .. Len(connections) /\ Slots = 1 .. Len(inUse) /\ Len(connections) \in Nat
    BY <1>0 DEF Slots, TypeOK
<1>1. ASSUME NEW c \in Callers, NEW i \in Slots, GetFree(c, i) PROVE PoolIsSound'
  <2>1. TypeOK'
    BY <1>0, <1>1, <1>a DEF GetFree, FirstFree, Take, TypeOK, Slots, Holds
  <2>2. SlotsAreDistinct'
    BY <1>0, <1>1 DEF GetFree, SlotsAreDistinct, Slots
  <2>3. HeldHasSlot'
    BY <1>0, <1>1, <1>a DEF GetFree, Take, HeldHasSlot, Slots, Holds, TypeOK
  <2>4. HeldExclusively'
    <3>1. \A d \in Callers : held[d] # connections[i]
      BY <1>0, <1>1, <1>a DEF GetFree, FirstFree, HeldHasSlot, SlotsAreDistinct, Holds, TypeOK
    <3> QED
      BY <1>0, <1>1, <3>1 DEF GetFree, Take, HeldExclusively, Holds, TypeOK
  <2>5. OnlyDeadConnectionsAreLost'
    <3>1. held' = [held EXCEPT ![c] = connections[i]] /\ held[c] = NoConn
      BY <1>1 DEF GetFree, Take, Holds
    <3>2. \A n \in Conns : IsHeld(n) => IsHeld(n)'
      BY <1>0, <3>1 DEF IsHeld, TypeOK
    <3>3. IsHeld(connections[i])'
      BY <1>0, <1>1, <3>1 DEF IsHeld, TypeOK, GetFree
    <3> QED
      BY <1>0, <1>1, <1>a, <3>2, <3>3 DEF GetFree, OnlyDeadConnectionsAreLost, Slots, TypeOK
  <2> QED
    BY <2>1, <2>2, <2>3, <2>4, <2>5 DEF PoolIsSound
<1>2. ASSUME NEW c \in Callers, NEW i \in Slots, NEW n \in Conns, Reconnect(c, i, n)
      PROVE  PoolIsSound'
  <2> DEFINE old == connections[i]
  <2>0. /\ \A j \in Slots : connections[j] # n
        /\ \A d \in Callers : held[d] # n
    BY <1>2, NewIsNowhere DEF Reconnect
  <2>1. /\ connections' = [connections EXCEPT ![i] = n]
        /\ inUse' = [inUse EXCEPT ![i] = TRUE] /\ ~ inUse[i]
        /\ health' = [health EXCEPT ![old] = "none", ![n] = "open"]
        /\ held' = [held EXCEPT ![c] = n] /\ held[c] = NoConn
        /\ working' = working
    BY <1>2 DEF Reconnect, FirstFree, Take, Holds
  <2>2. Slots' = Slots /\ connections' \in Seq(Conns) /\ inUse' \in Seq(BOOLEAN)
        /\ Len(connections') = Len(connections) /\ Len(inUse') = Len(inUse)
    BY <1>0, <1>a, <2>1 DEF Slots, TypeOK
  <2>3. old \in Conns /\ old # n
    BY <1>0, <1>a, <2>0 DEF TypeOK
  <2>4. \A d \in Callers : held[d] # old
    BY <1>0, <1>a, <2>1, <2>3 DEF HeldHasSlot, SlotsAreDistinct, Holds, TypeOK
  <2>5. TypeOK'
    <3>1. \A j \in Slots : health'[connections'[j]] # "none"
      BY <1>0, <1>a, <2>0, <2>1, <2>3 DEF TypeOK, SlotsAreDistinct
    <3>2. health' \in [Conns -> {"none", "open", "stale", "closed"}]
      BY <1>0, <2>1 DEF TypeOK
    <3>3. held' \in [Callers -> Conns \cup {NoConn}]
      BY <1>0, <2>1 DEF TypeOK
    <3>4. working' \subseteq {d \in Callers : Holds(d)'}
      BY <1>0, <2>1 DEF TypeOK, Holds
    <3> QED
      BY <1>0, <2>2, <3>1, <3>2, <3>3, <3>4 DEF TypeOK
  <2>6. SlotsAreDistinct'
    BY <1>0, <1>a, <2>0, <2>1, <2>2 DEF SlotsAreDistinct, TypeOK
  <2>7. HeldHasSlot'
    <3> SUFFICES ASSUME NEW d \in Callers, held'[d] # NoConn
                 PROVE  \E j \in Slots : connections'[j] = held'[d] /\ inUse'[j]
      BY <2>2 DEF HeldHasSlot, Holds
    <3>1. CASE d = c
      BY <1>0, <1>a, <2>1, <3>1 DEF TypeOK
    <3>2. CASE d # c
      <4>1. held'[d] = held[d]
        BY <1>0, <2>1, <3>2 DEF TypeOK
      <4>2. PICK j \in Slots : connections[j] = held[d] /\ inUse[j]
        BY <1>0, <4>1 DEF HeldHasSlot, Holds
      <4>3. connections'[j] = held[d] /\ inUse'[j]
        BY <1>0, <1>a, <2>1, <4>2 DEF TypeOK
      <4> QED
        BY <4>1, <4>3
    <3> QED
      BY <3>1, <3>2
  <2>8. HeldExclusively'
    BY <1>0, <2>0, <2>1 DEF HeldExclusively, Holds, TypeOK
  <2>9. OnlyDeadConnectionsAreLost'
    <3>1. ASSUME Returns, NEW j \in Slots, inUse'[j]
          PROVE  IsHeld(connections[j])' \/ health'[connections'[j]] = "closed"
      <4>1. CASE j = i
        <5>1. connections'[j] = n /\ held'[c] = n
          BY <1>0, <1>a, <2>1, <4>1 DEF TypeOK
        <5> QED
          BY <5>1 DEF IsHeld
      <4>2. CASE j # i
        <5>1. connections'[j] = connections[j] /\ inUse[j] /\ connections[j] \in Conns
          BY <1>0, <1>a, <2>1, <3>1, <4>2 DEF TypeOK
        <5>2. connections[j] # old /\ connections[j] # n
          BY <1>0, <2>0, <4>2 DEF SlotsAreDistinct
        <5>3. health'[connections[j]] = health[connections[j]]
          BY <1>0, <2>1, <2>3, <5>1, <5>2 DEF TypeOK
        <5>4. IsHeld(connections[j]) \/ health[connections[j]] = "closed"
          BY <1>0, <3>1, <5>1 DEF OnlyDeadConnectionsAreLost
        <5>5. ASSUME NEW d \in Callers, held[d] = connections[j]
              PROVE  held'[d] = connections[j]
          BY <1>0, <2>1, <5>1, <5>5 DEF TypeOK
        <5> QED
          BY <5>1, <5>3, <5>4, <5>5 DEF IsHeld
      <4> QED
        BY <4>1, <4>2
    <3> QED
      BY <2>2, <3>1 DEF OnlyDeadConnectionsAreLost
  <2> QED
    BY <2>5, <2>6, <2>7, <2>8, <2>9 DEF PoolIsSound
<1>3. ASSUME NEW c \in Callers, NEW n \in Conns, Extend(c, n) PROVE PoolIsSound'
  <2> DEFINE last == Len(connections) + 1
  <2>0. /\ \A j \in Slots : connections[j] # n
        /\ \A d \in Callers : held[d] # n
    BY <1>3, NewIsNowhere DEF Extend
  <2>1. /\ connections' = Append(connections, n)
        /\ inUse' = Append(inUse, TRUE)
        /\ health' = [health EXCEPT ![n] = "open"]
        /\ held' = [held EXCEPT ![c] = n] /\ held[c] = NoConn
        /\ working' = working
    BY <1>3 DEF Extend, Take, Holds
  <2>2. /\ Slots' = Slots \cup {last} /\ last \notin Slots
        /\ connections' \in Seq(Conns) /\ inUse' \in Seq(BOOLEAN)
        /\ Len(connections') = last /\ Len(inUse') = last
        /\ connections'[last] = n /\ inUse'[last]
        /\ \A j \in Slots : connections'[j] = connections[j] /\ inUse'[j] = inUse[j]
    <3>1. /\ connections' \in Seq(Conns) /\ Len(connections') = last
          /\ connections'[last] = n
          /\ \A j \in 1 .. Len(connections) : connections'[j] = connections[j]
      BY <1>0, <2>1, AppendProperties DEF TypeOK
    <3>2. /\ inUse' \in Seq(BOOLEAN) /\ Len(inUse') = last
          /\ inUse'[last] = TRUE
          /\ \A j \in 1 .. Len(inUse) : inUse'[j] = inUse[j]
      <4>1. inUse \in Seq(BOOLEAN) /\ TRUE \in BOOLEAN
        BY <1>0 DEF TypeOK
      <4>2. /\ Append(inUse, TRUE) \in Seq(BOOLEAN)
            /\ Len(Append(inUse, TRUE)) = Len(inUse) + 1
            /\ \A j \in 1 .. Len(inUse) : Append(inUse, TRUE)[j] = inUse[j]
            /\ Append(inUse, TRUE)[Len(inUse) + 1] = TRUE
        <5> DEFINE P(S, q, e) ==
                /\ Append(q, e) \in Seq(S)
                /\ Len(Append(q, e)) = Len(q) + 1
                /\ \A j \in 1 .. Len(q) : Append(q, e)[j] = q[j]
                /\ Append(q, e)[Len(q) + 1] = e
        <5>1. ASSUME NEW S, NEW q \in Seq(S), NEW e \in S PROVE P(S, q, e)
          BY AppendProperties
        <5> HIDE DEF P
        <5>2. P(BOOLEAN, inUse, TRUE)
          BY <4>1, <5>1, Zenon
        <5> QED
          BY <5>2, Zenon DEF P
      <4>3. Len(inUse) = Len(connections)
        BY <1>0 DEF TypeOK
      <4> QED
        BY <2>1, <4>2, <4>3, Zenon
    <3>3. Slots' = 1 .. last
      BY <3>1 DEF Slots
    <3>4. 1 .. last = (1 .. Len(connections)) \cup {last} /\ last \notin 1 .. Len(connections)
      BY <1>a
    <3> QED
      BY <1>a, <3>1, <3>2, <3>3, <3>4
  <2>3. TypeOK'
    <3>1. \A j \in Slots' : health'[connections'[j]] # "none"
      <4>1. \A x \in Conns : health'[x] # "none" \/ health[x] = "none"
        BY <1>0, <2>1 DEF TypeOK
      <4>2. \A j \in Slots : connections[j] \in Conns /\ health[connections[j]] # "none"
        BY <1>0, <1>a DEF TypeOK
      <4>3. health'[n] # "none"
        BY <1>0, <2>1 DEF TypeOK
      <4> QED
        BY <2>2, <4>1, <4>2, <4>3
    <3>2. health' \in [Conns -> {"none", "open", "stale", "closed"}]
      BY <1>0, <2>1 DEF TypeOK
    <3>3. held' \in [Callers -> Conns \cup {NoConn}]
      BY <1>0, <2>1 DEF TypeOK
    <3>4. working' \subseteq {d \in Callers : Holds(d)'}
      BY <1>0, <2>1 DEF TypeOK, Holds
    <3> QED
      BY <2>2, <3>1, <3>2, <3>3, <3>4 DEF TypeOK
  <2>4. SlotsAreDistinct'
    BY <1>0, <2>0, <2>2 DEF SlotsAreDistinct
  <2>5. HeldHasSlot'
    <3> SUFFICES ASSUME NEW d \in Callers, held'[d] # NoConn
                 PROVE  \E j \in Slots' : connections'[j] = held'[d] /\ inUse'[j]
      BY DEF HeldHasSlot, Holds
    <3>1. CASE d = c
      BY <1>0, <2>1, <2>2, <3>1 DEF TypeOK
    <3>2. CASE d # c
      <4>1. held'[d] = held[d]
        BY <1>0, <2>1, <3>2 DEF TypeOK
      <4>2. PICK j \in Slots : connections[j] = held[d] /\ inUse[j]
        BY <1>0, <4>1 DEF HeldHasSlot, Holds
      <4> QED
        BY <2>2, <4>1, <4>2
    <3> QED
      BY <3>1, <3>2
  <2>6. HeldExclusively'
    BY <1>0, <2>0, <2>1 DEF HeldExclusively, Holds, TypeOK
  <2>7. OnlyDeadConnectionsAreLost'
    <3>1. ASSUME Returns, NEW j \in Slots', inUse'[j]
          PROVE  IsHeld(connections[j])' \/ health'[connections'[j]] = "closed"
      <4>1. CASE j = last
        <5>1. connections'[j] = n /\ held'[c] = n
          BY <1>0, <2>1, <2>2, <4>1 DEF TypeOK
        <5> QED
          BY <5>1 DEF IsHeld
      <4>2. CASE j # last
        <5>1. j \in Slots /\ connections'[j] = connections[j] /\ inUse[j]
          BY <2>2, <3>1, <4>2
        <5>2. connections[j] \in Conns /\ connections[j] # n
          BY <1>0, <1>a, <2>0, <5>1 DEF TypeOK
        <5>3. health'[connections[j]] = health[connections[j]]
          BY <1>0, <2>1, <5>2 DEF TypeOK
        <5>4. IsHeld(connections[j]) \/ health[connections[j]] = "closed"
          BY <1>0, <3>1, <5>1 DEF OnlyDeadConnectionsAreLost
        <5>5. ASSUME NEW d \in Callers, held[d] = connections[j]
              PROVE  held'[d] = connections[j]
          BY <1>0, <2>1, <5>2, <5>5 DEF TypeOK
        <5> QED
          BY <5>1, <5>3, <5>4, <5>5 DEF IsHeld
      <4> QED
        BY <4>1, <4>2
    <3> QED
      BY <3>1 DEF OnlyDeadConnectionsAreLost
  <2> QED
    BY <2>3, <2>4, <2>5, <2>6, <2>7 DEF PoolIsSound
<1>4. ASSUME NEW c \in Callers, Begin(c) PROVE PoolIsSound'
    BY <1>0, <1>4 DEF Begin, PoolIsSound, TypeOK, SlotsAreDistinct, HeldHasSlot,
                      HeldExclusively, OnlyDeadConnectionsAreLost, Slots, Holds, IsHeld
<1>5. ASSUME NEW c \in Callers, BeginFails(c) PROVE PoolIsSound'
  <2>1. /\ health' = [health EXCEPT ![held[c]] = "closed"]
        /\ held' = [held EXCEPT ![c] = NoConn]
        /\ connections' = connections /\ inUse' = inUse /\ working' = working
        /\ c \notin working /\ Slots' = Slots
    BY <1>5 DEF BeginFails, Take, Slots
  <2>2. TypeOK'
    <3>1. \A n \in Conns : health'[n] = health[n] \/ health'[n] = "closed"
      BY <1>0, <2>1 DEF TypeOK
    <3>2. \A j \in Slots : health'[connections[j]] # "none"
      BY <1>0, <1>a, <3>1 DEF TypeOK
    <3>3. health' \in [Conns -> {"none", "open", "stale", "closed"}]
      BY <1>0, <2>1 DEF TypeOK
    <3>4. held' \in [Callers -> Conns \cup {NoConn}]
      BY <1>0, <2>1 DEF TypeOK
    <3>5. working' \subseteq {d \in Callers : Holds(d)'}
      BY <1>0, <2>1 DEF TypeOK, Holds
    <3> QED
      BY <1>0, <2>1, <3>2, <3>3, <3>4, <3>5 DEF TypeOK
  <2>3. SlotsAreDistinct' /\ HeldHasSlot' /\ HeldExclusively'
    BY <1>0, <2>1 DEF SlotsAreDistinct, HeldHasSlot, HeldExclusively, Holds, TypeOK
  <2>4. OnlyDeadConnectionsAreLost'
    <3>1. ASSUME Returns, NEW j \in Slots, inUse[j]
          PROVE  IsHeld(connections[j])' \/ health'[connections[j]] = "closed"
      <4>1. connections[j] \in Conns
        BY <1>0, <1>a DEF TypeOK
      <4>2. CASE connections[j] = held[c]
        BY <1>0, <2>1, <4>1, <4>2 DEF TypeOK
      <4>3. CASE connections[j] # held[c]
        <5>1. IsHeld(connections[j]) \/ health[connections[j]] = "closed"
          BY <1>0, <3>1 DEF OnlyDeadConnectionsAreLost
        <5>2. ASSUME NEW d \in Callers, held[d] = connections[j]
              PROVE  held'[d] = connections'[j]
          BY <1>0, <2>1, <4>3, <5>2 DEF TypeOK
        <5>3. health'[connections[j]] = health[connections[j]]
          BY <1>0, <2>1, <4>1, <4>3 DEF TypeOK
        <5> QED
          BY <5>1, <5>2, <5>3 DEF IsHeld
      <4> QED
        BY <4>2, <4>3
    <3> QED
      BY <2>1, <3>1 DEF OnlyDeadConnectionsAreLost
  <2> QED
    BY <2>2, <2>3, <2>4 DEF PoolIsSound
<1>6. ASSUME NEW c \in Callers, Finish(c) PROVE PoolIsSound'
  <2> DEFINE n == held[c]
             h == IF health[n] = "stale" THEN "closed" ELSE health[n]
  <2>1. /\ held' = [held EXCEPT ![c] = NoConn] /\ working' = working \ {c}
        /\ connections' = connections /\ Slots' = Slots
        /\ health' = [health EXCEPT ![n] = h]
        /\ inUse' = IF Returns THEN [i \in Slots |-> inUse[i] /\ connections[i] # n] ELSE inUse
    BY <1>6 DEF Finish, Return, Take, Slots
  <2>2. c \in working /\ Holds(c) /\ n \in Conns
    BY <1>0, <1>6 DEF Finish, TypeOK, Holds
  <2>3. h # "none" /\ h \in {"none", "open", "stale", "closed"}
        /\ (health[n] = "closed" => h = "closed")
    <3>1. PICK i \in Slots : connections[i] = n
      BY <1>0, <2>2 DEF HeldHasSlot
    <3>2. health[n] # "none"
      BY <1>0, <3>1 DEF TypeOK
    <3> QED
      BY <1>0, <2>2, <3>2 DEF TypeOK
  <2> HIDE DEF h
  <2>4. TypeOK'
    <3>1. \A j \in Slots : health'[connections[j]] # "none"
      BY <1>0, <1>a, <2>1, <2>2, <2>3 DEF TypeOK
    <3>2. health' \in [Conns -> {"none", "open", "stale", "closed"}]
      BY <1>0, <2>1, <2>3 DEF TypeOK
    <3>3. held' \in [Callers -> Conns \cup {NoConn}]
      BY <1>0, <2>1 DEF TypeOK
    <3>4. working' \subseteq {d \in Callers : Holds(d)'}
      BY <1>0, <2>1 DEF TypeOK, Holds
    <3>5. inUse' \in Seq(BOOLEAN) /\ Len(inUse') = Len(connections)
      <4>1. \A i \in Slots : (inUse[i] /\ connections[i] # n) \in BOOLEAN
        OBVIOUS
      <4>2. CASE Returns
        BY <1>a, <2>1, <4>1, <4>2
      <4>3. CASE ~ Returns
        BY <1>0, <2>1, <4>3 DEF TypeOK
      <4> QED
        BY <4>2, <4>3
    <3> QED
      BY <1>0, <2>1, <3>1, <3>2, <3>3, <3>4, <3>5 DEF TypeOK
  <2>5. SlotsAreDistinct'
    BY <1>0, <2>1 DEF SlotsAreDistinct
  <2>6. HeldExclusively'
    BY <1>0, <2>1 DEF HeldExclusively, Holds, TypeOK
  <2>7. \A d \in Callers : Holds(d)' => held'[d] = held[d] /\ Holds(d) /\ held[d] # n
    BY <1>0, <2>1, <2>2 DEF HeldExclusively, Holds, TypeOK
  <2>8. HeldHasSlot'
    <3> SUFFICES ASSUME NEW d \in Callers, Holds(d)'
                 PROVE  \E i \in Slots : connections[i] = held'[d] /\ inUse'[i]
      BY <2>1 DEF HeldHasSlot
    <3>1. PICK i \in Slots : connections[i] = held[d] /\ inUse[i]
      BY <1>0, <2>7 DEF HeldHasSlot
    <3>2. inUse'[i]
      BY <2>1, <2>7, <3>1
    <3> QED
      BY <2>7, <3>1, <3>2
  <2>9. OnlyDeadConnectionsAreLost'
    <3>1. ASSUME Returns, NEW j \in Slots, inUse'[j]
          PROVE  IsHeld(connections[j])' \/ health'[connections[j]] = "closed"
      <4>1. inUse[j] /\ connections[j] # n
        BY <2>1, <3>1
      <4>2. IsHeld(connections[j]) \/ health[connections[j]] = "closed"
        BY <1>0, <3>1, <4>1 DEF OnlyDeadConnectionsAreLost
      <4>3. ASSUME NEW d \in Callers, held[d] = connections[j]
            PROVE  held'[d] = connections'[j]
        BY <1>0, <2>1, <4>1, <4>3 DEF TypeOK
      <4>4. health'[connections[j]] = health[connections[j]]
        BY <1>0, <1>a, <2>1, <4>1 DEF TypeOK
      <4> QED
        BY <4>2, <4>3, <4>4 DEF IsHeld
    <3> QED
      BY <2>1, <3>1 DEF OnlyDeadConnectionsAreLost
  <2> QED
    BY <2>4, <2>5, <2>6, <2>8, <2>9 DEF PoolIsSound
<1>7. ASSUME NEW n \in Conns, Break(n) PROVE PoolIsSound'
  <2>1. /\ health' = [health EXCEPT ![n] = "stale"] /\ health[n] = "open"
        /\ connections' = connections /\ inUse' = inUse
        /\ held' = held /\ working' = working
    BY <1>7 DEF Break
  <2>2. \A x \in Conns : health'[x] # "none" \/ health[x] = "none"
    BY <1>0, <2>1 DEF TypeOK
  <2>3. TypeOK'
    <3>1. \A j \in Slots : health'[connections[j]] # "none"
      BY <1>0, <1>a, <2>2 DEF TypeOK
    <3>2. health' \in [Conns -> {"none", "open", "stale", "closed"}]
      BY <1>0, <2>1 DEF TypeOK
    <3> QED
      BY <1>0, <2>1, <3>1, <3>2 DEF TypeOK, Holds, Slots
  <2>4. SlotsAreDistinct' /\ HeldHasSlot' /\ HeldExclusively'
    BY <1>0, <2>1 DEF SlotsAreDistinct, HeldHasSlot, HeldExclusively, Holds, Slots
  <2>5. \A x \in Conns : health[x] = "closed" => health'[x] = "closed"
    BY <1>0, <2>1 DEF TypeOK
  <2>6. \A j \in Slots : connections[j] \in Conns
    BY <1>0, <1>a DEF TypeOK
  <2>7. OnlyDeadConnectionsAreLost'
    BY <1>0, <2>1, <2>5, <2>6 DEF OnlyDeadConnectionsAreLost, IsHeld, Slots
  <2> QED
    BY <2>3, <2>4, <2>7 DEF PoolIsSound
<1>8. CASE UNCHANGED vars
    BY <1>0, <1>8 DEF vars, PoolIsSound, TypeOK, SlotsAreDistinct, HeldHasSlot,
                      HeldExclusively, OnlyDeadConnectionsAreLost, Slots, Holds, IsHeld
<1> QED
    BY <1>1, <1>2, <1>3, <1>4, <1>5, <1>6, <1>7, <1>8 DEF Next

\* The pool stays sound.
THEOREM PoolStaysSound == Spec => []PoolIsSound
    BY InitIsSound, NextIsSound, PTL DEF Spec

\* connections_ and in_use_ stay of one length, for every use of the pool.
THEOREM PoolTypeOK == Spec => []TypeOK
<1>1. PoolIsSound => TypeOK
    BY DEF PoolIsSound
<1> QED
    BY <1>1, PoolStaysSound, PTL

\* get_connection never hands one connection to two callers, whatever breaks
\* and whether or not connections come back.
THEOREM PoolHeldExclusively == Spec => []HeldExclusively
<1>1. PoolIsSound => HeldExclusively
    BY DEF PoolIsSound
<1> QED
    BY <1>1, PoolStaysSound, PTL

\* return_connection finds what it is given, in one slot.
THEOREM PoolHeldIsInUse == Spec => []HeldIsInUse
<1>1. PoolIsSound => HeldIsInUse
    BY DEF PoolIsSound, HeldIsInUse, HeldHasSlot, SlotsAreDistinct
<1> QED
    BY <1>1, PoolStaysSound, PTL

\* Callers that return what they take lose dead connections only.
THEOREM PoolOnlyDeadConnectionsAreLost == Spec => []OnlyDeadConnectionsAreLost
<1>1. PoolIsSound => OnlyDeadConnectionsAreLost
    BY DEF PoolIsSound
<1> QED
    BY <1>1, PoolStaysSound, PTL
-----------------------------------------------------------------------------
\* The slots that are of use: free, or in somebody's hands.  A slot leaves
\* them when its connection is lost.
Live == {i \in Slots : ~ inUse[i] \/ IsHeld(connections[i])}

\* The pool grows when all of them are held, so by as many callers, one more
\* than which asks.
LiveIsBounded ==
    Cardinality(Live) <= PoolSize \/ Cardinality(Live) <= Cardinality(Callers)

LEMMA LiveIsFinite == ASSUME PoolIsSound PROVE IsFiniteSet(Slots) /\ IsFiniteSet(Live)
<1>1. Slots = 1 .. Len(connections) /\ Len(connections) \in Int
    BY DEF PoolIsSound, TypeOK, Slots
<1>2. IsFiniteSet(Slots)
    BY <1>1, FS_Interval
<1> QED
    BY <1>2, FS_Subset, Live \subseteq Slots DEF Live

\* Steps that bring no slot into use again.
LEMMA FewerKeepBound ==
    ASSUME PoolIsSound, LiveIsBounded, IsFiniteSet(Callers), Live' \subseteq Live
    PROVE  LiveIsBounded'
<1>1. Cardinality(Live') <= Cardinality(Live) /\ IsFiniteSet(Live')
    BY LiveIsFinite, FS_Subset
<1>2. /\ Cardinality(Live) \in Nat /\ Cardinality(Live') \in Nat /\ Cardinality(Callers) \in Nat
      /\ PoolSize \in Nat
    BY <1>1, LiveIsFinite, FS_CardinalityType, PoolAssumption
<1> QED
    BY <1>1, <1>2 DEF LiveIsBounded

LEMMA OtherStepsKeepBound ==
    ASSUME PoolIsSound, LiveIsBounded, IsFiniteSet(Callers),
           \/ \E c \in Callers, i \in Slots : GetFree(c, i)
           \/ \E c \in Callers, i \in Slots, n \in Conns : Reconnect(c, i, n)
           \/ \E c \in Callers : Begin(c) \/ BeginFails(c) \/ Finish(c)
           \/ \E n \in Conns : Break(n)
           \/ UNCHANGED vars
    PROVE  LiveIsBounded'
<1> USE PoolAssumption
<1>0. /\ TypeOK /\ SlotsAreDistinct
      /\ \A j \in Slots : connections[j] \in Conns /\ connections[j] # NoConn
    BY DEF PoolIsSound, TypeOK, Slots
<1>1. ASSUME NEW c \in Callers, NEW i \in Slots, GetFree(c, i) PROVE Live' \subseteq Live
  <2>1. /\ held' = [held EXCEPT ![c] = connections[i]] /\ inUse' = [inUse EXCEPT ![i] = TRUE]
        /\ connections' = connections /\ Slots' = Slots /\ ~ inUse[i]
    BY <1>1 DEF GetFree, FirstFree, Take, Slots
  <2> QED
    BY <1>0, <2>1 DEF Live, IsHeld, SlotsAreDistinct, TypeOK
<1>2. ASSUME NEW c \in Callers, NEW i \in Slots, NEW n \in Conns, Reconnect(c, i, n)
      PROVE  Live' \subseteq Live
  <2>1. /\ held' = [held EXCEPT ![c] = n] /\ inUse' = [inUse EXCEPT ![i] = TRUE]
        /\ connections' = [connections EXCEPT ![i] = n] /\ ~ inUse[i]
    BY <1>2 DEF Reconnect, FirstFree, Take
  <2>2. Slots' = Slots
    BY <1>0, <2>1 DEF Slots, TypeOK
  <2>3. \A j \in Slots : connections[j] # n
    BY <1>2, NewIsNowhere DEF Reconnect
  <2>4. \A j \in Slots \ {i} : connections'[j] = connections[j] /\ inUse'[j] = inUse[j]
    BY <1>0, <2>1 DEF TypeOK, Slots
  <2> QED
    BY <1>0, <2>1, <2>2, <2>3, <2>4 DEF Live, IsHeld, TypeOK
<1>3. ASSUME NEW c \in Callers, BeginFails(c) PROVE Live' \subseteq Live
  <2>1. held' = [held EXCEPT ![c] = NoConn] /\ UNCHANGED <<connections, inUse>> /\ Slots' = Slots
    BY <1>3 DEF BeginFails, Take, Slots
  <2> QED
    BY <1>0, <2>1 DEF Live, IsHeld, TypeOK
<1>4. ASSUME NEW c \in Callers, Finish(c) PROVE Live' \subseteq Live
  <2>1. /\ held' = [held EXCEPT ![c] = NoConn] /\ connections' = connections /\ Slots' = Slots
        /\ inUse' = IF Returns THEN [i \in Slots |-> inUse[i] /\ connections[i] # held[c]]
                    ELSE inUse
    BY <1>4 DEF Finish, Return, Take, Slots
  <2> QED
    BY <1>0, <2>1 DEF Live, IsHeld, TypeOK
<1>5. ASSUME UNCHANGED <<connections, inUse, held>> PROVE Live' \subseteq Live
    BY <1>5 DEF Live, IsHeld, Slots
<1>6. (\E c \in Callers : Begin(c)) \/ (\E n \in Conns : Break(n)) \/ UNCHANGED vars
      => Live' \subseteq Live
    BY <1>5 DEF Begin, Break, vars
<1> QED
    BY <1>1, <1>2, <1>3, <1>4, <1>6, FewerKeepBound

\* The caller for whom the pool grows holds nothing, and every live slot is
\* held by another.
LEMMA ExtendKeepsBound ==
    ASSUME PoolIsSound, IsFiniteSet(Callers), NEW c \in Callers, NEW n \in Conns, Extend(c, n)
    PROVE  LiveIsBounded'
<1> USE PoolAssumption
<1>1. /\ \A i \in Slots : inUse[i] /\ connections[i] \in Conns
      /\ held[c] = NoConn /\ SlotsAreDistinct
    BY DEF PoolIsSound, TypeOK, Slots, Extend, Holds
<1> DEFINE f == [i \in Live |-> CHOOSE d \in Callers : held[d] = connections[i]]
<1>2. \A i \in Live : f[i] \in Callers \ {c} /\ held[f[i]] = connections[i]
    BY <1>1 DEF Live, IsHeld
<1>3. f \in [Live -> Callers \ {c}] /\ \A i, j \in Live : f[i] = f[j] => i = j
  <2>1. f \in [Live -> Callers \ {c}]
    BY <1>2
  <2>2. \A i, j \in Live : f[i] = f[j] => i = j
    <3> HIDE DEF f
    <3> QED
      BY <1>1, <1>2 DEF Live, SlotsAreDistinct
  <2> QED
    BY <2>1, <2>2
<1> HIDE DEF f
<1>4. IsFiniteSet(Callers \ {c}) /\ Cardinality(Callers \ {c}) = Cardinality(Callers) - 1
    BY FS_RemoveElement
<1>5. Cardinality(Live) <= Cardinality(Callers) - 1
  <2>1. ~ (Cardinality(Callers \ {c}) < Cardinality(Live))
    BY <1>3, <1>4, LiveIsFinite, FS_PigeonHole
  <2>2. Cardinality(Live) \in Nat /\ Cardinality(Callers) \in Nat
    BY LiveIsFinite, FS_CardinalityType
  <2> QED
    BY <1>4, <2>1, <2>2
<1> DEFINE last == Len(connections) + 1
<1>6. Live' \subseteq Live \cup {last}
  <2>1. /\ connections' = Append(connections, n) /\ held' = [held EXCEPT ![c] = n]
        /\ inUse' = Append(inUse, TRUE)
    BY DEF Extend, Take
  <2>2. /\ connections \in Seq(Conns) /\ Len(inUse) = Len(connections)
        /\ held \in [Callers -> Conns \cup {NoConn}]
    BY DEF PoolIsSound, TypeOK
  <2>3. /\ Slots' = Slots \cup {last} /\ last \notin Slots
        /\ \A j \in Slots : connections'[j] = connections[j]
    BY <2>1, <2>2, AppendProperties DEF Slots
  <2>4. \A j \in Slots : inUse'[j]
    BY <1>1, <2>1, <2>2, AppendProperties DEF PoolIsSound, TypeOK, Slots
  <2>5. \A j \in Slots : connections[j] # n
    BY NewIsNowhere DEF Extend
  <2> QED
    BY <2>1, <2>2, <2>3, <2>4, <2>5 DEF Live, IsHeld
<1>7. /\ IsFiniteSet(Live \cup {last}) /\ Cardinality(Live \cup {last}) <= Cardinality(Live) + 1
      /\ Cardinality(Live) \in Nat
  <2>1. IsFiniteSet(Live) /\ Cardinality(Live) \in Nat
    BY LiveIsFinite, FS_CardinalityType
  <2> HIDE DEF last
  <2>2. /\ IsFiniteSet(Live \cup {last})
        /\ Cardinality(Live \cup {last})
             = IF last \in Live THEN Cardinality(Live) ELSE Cardinality(Live) + 1
    BY <2>1, FS_AddElement
  <2> QED
    BY <2>1, <2>2
<1>8. Cardinality(Live') <= Cardinality(Live \cup {last}) /\ IsFiniteSet(Live')
    BY <1>6, <1>7, FS_Subset
<1>9. /\ Cardinality(Live \cup {last}) \in Nat /\ Cardinality(Live') \in Nat
      /\ Cardinality(Callers) \in Nat
    BY <1>7, <1>8, FS_CardinalityType
<1> HIDE DEF last
<1> QED
    BY <1>5, <1>7, <1>8, <1>9 DEF LiveIsBounded

\* A pool whose callers return their connections does not keep growing.  The
\* threads are finitely many.
THEOREM PoolOpenConnectionsAreBounded ==
    ASSUME IsFiniteSet(Callers)
    PROVE  Spec => []OpenConnectionsAreBounded
<1>1. Init => LiveIsBounded
  <2> SUFFICES ASSUME Init PROVE LiveIsBounded
    OBVIOUS
  <2>1. Slots = 1 .. PoolSize
    BY PoolAssumption DEF Init, Slots
  <2>2. IsFiniteSet(Slots) /\ Cardinality(Slots) = PoolSize
    BY <2>1, FS_Interval, PoolAssumption
  <2>3. Cardinality(Live) <= PoolSize
    BY <2>2, FS_Subset, Live \subseteq Slots DEF Live
  <2> QED
    BY <2>3 DEF LiveIsBounded
<1>2. PoolIsSound /\ LiveIsBounded /\ [Next]_vars => LiveIsBounded'
    BY OtherStepsKeepBound, ExtendKeepsBound DEF Next
<1>3. PoolIsSound /\ LiveIsBounded => OpenConnectionsAreBounded
  <2> SUFFICES ASSUME PoolIsSound, LiveIsBounded, Returns PROVE OpenConnectionsAreBounded
    BY DEF OpenConnectionsAreBounded
  <2> DEFINE open == {i \in Slots : health[connections[i]] = "open"}
  <2>1. open \subseteq Live
    BY DEF PoolIsSound, OnlyDeadConnectionsAreLost, Live
  <2>2. IsFiniteSet(open) /\ Cardinality(open) <= Cardinality(Live)
    BY <2>1, LiveIsFinite, FS_Subset
  <2>3. /\ Cardinality(open) \in Nat /\ Cardinality(Live) \in Nat /\ Cardinality(Callers) \in Nat
        /\ PoolSize \in Nat
    BY <2>2, LiveIsFinite, FS_CardinalityType, PoolAssumption
  <2>4. Cardinality(open) <= PoolSize \/ Cardinality(open) <= Cardinality(Callers)
    <3> HIDE DEF open
    <3> QED
      BY <2>2, <2>3 DEF LiveIsBounded
  <2> QED
    BY <2>4 DEF OpenConnectionsAreBounded
<1> QED
    BY <1>1, <1>2, <1>3, InitIsSound, NextIsSound, PTL DEF Spec
=============================================================================
