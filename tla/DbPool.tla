------------------------------- MODULE DbPool -------------------------------
(***************************************************************************)
(* The pool of database connections that both servers have (util/db_pool   *)
(* of the matching server, db/db_pool of the game socket server), together *)
(* with the way its callers use it: get a connection, begin a transaction  *)
(* (pqxx::work), work and return the connection.                           *)
(*                                                                         *)
(* get_connection and return_connection hold mutex_, so each is one step.  *)
(* A connection is a shared_ptr; Conns are the addresses it can have, and  *)
(* the address of a destroyed connection can be used again.  An attempt to *)
(* connect that fails is an exception that leaves everything as it was.    *)
(***************************************************************************)
EXTENDS Integers, Sequences, FiniteSets

CONSTANTS
    Callers,      \* the threads that use the pool
    Conns,        \* addresses of connections; bounds how far the pool grows
    NoConn,       \* held of a caller without a connection
    PoolSize,     \* connections made at the start: 20 and 5
    Returns,      \* TRUE: the repositories, which return their connection;
                  \* FALSE: AuthApi of the game socket server, which does not
    MayBreak      \* TRUE: the database may drop connections

ASSUME PoolAssumption ==
    /\ NoConn \notin Conns
    /\ PoolSize \in Nat
    /\ {Returns, MayBreak} \subseteq BOOLEAN

VARIABLES
    connections,  \* connections_
    inUse,        \* in_use_
    health,       \* of each connection: "none", it does not exist; "open";
                  \* "stale", dropped by the database while is_open() is still
                  \* true; "closed", is_open() is false
    held,         \* the connection in each caller's hands
    working       \* the callers whose transaction has begun

vars == <<connections, inUse, health, held, working>>

Slots == DOMAIN connections
Holds(c) == held[c] # NoConn
IsHeld(n) == \E c \in Callers : held[c] = n
\* Mutant: any slot is taken for a free one.
AnyFree(i) == i \in Slots
\* The slot that the loop of get_connection stops at.
FirstFree(i) == i \in Slots /\ ~ inUse[i] /\ \A j \in 1 .. i - 1 : inUse[j]

Init ==
    /\ \E f \in [1 .. PoolSize -> Conns] :
         /\ \A i, j \in 1 .. PoolSize : f[i] = f[j] => i = j
         /\ connections = f
         /\ health = [n \in Conns |-> IF \E i \in 1 .. PoolSize : f[i] = n THEN "open" ELSE "none"]
    /\ inUse = [i \in 1 .. PoolSize |-> FALSE]
    /\ held = [c \in Callers |-> NoConn]
    /\ working = {}
-----------------------------------------------------------------------------
(***************************************************************************)
(* get_connection                                                          *)
(***************************************************************************)
Take(c, n) == held' = [held EXCEPT ![c] = n]

GetFree(c, i) ==
    /\ ~ Holds(c) /\ FirstFree(i)
    /\ health[connections[i]] # "closed"
    /\ inUse' = [inUse EXCEPT ![i] = TRUE]
    /\ Take(c, connections[i])
    /\ UNCHANGED <<connections, health, working>>

\* Mutant: the new connection is handed out but not stored in the pool.
ReconnectKeepsOld(c, i, n) ==
    /\ ~ Holds(c) /\ FirstFree(i)
    /\ health[connections[i]] = "closed"
    /\ health[n] = "none"
    /\ inUse' = [inUse EXCEPT ![i] = TRUE]
    /\ health' = [health EXCEPT ![connections[i]] = "none", ![n] = "open"]
    /\ Take(c, n)
    /\ UNCHANGED <<connections, working>>

\* The free slot's connection is found closed and replaced by a new one, n.
Reconnect(c, i, n) ==
    /\ ~ Holds(c) /\ FirstFree(i)
    /\ health[connections[i]] = "closed"
    /\ health[n] = "none"
    /\ connections' = [connections EXCEPT ![i] = n]
    /\ inUse' = [inUse EXCEPT ![i] = TRUE]
    /\ health' = [health EXCEPT ![connections[i]] = "none", ![n] = "open"]
    /\ Take(c, n)
    /\ UNCHANGED working

\* Mutant: the pool grows as soon as its first connection is in use.
ExtendTooEarly(c, n) ==
    /\ ~ Holds(c) /\ (Slots # {} => inUse[1])
    /\ health[n] = "none"
    /\ connections' = Append(connections, n)
    /\ inUse' = Append(inUse, TRUE)
    /\ health' = [health EXCEPT ![n] = "open"]
    /\ Take(c, n)
    /\ UNCHANGED working

\* Every connection is in use: one more.
Extend(c, n) ==
    /\ ~ Holds(c) /\ \A i \in Slots : inUse[i]
    /\ health[n] = "none"
    /\ connections' = Append(connections, n)
    /\ inUse' = Append(inUse, TRUE)
    /\ health' = [health EXCEPT ![n] = "open"]
    /\ Take(c, n)
    /\ UNCHANGED working
-----------------------------------------------------------------------------
(***************************************************************************)
(* The callers                                                             *)
(***************************************************************************)

\* return_connection, by a caller whose connection is then in health h.
Return(n, h) ==
    /\ inUse' = [i \in Slots |-> inUse[i] /\ connections[i] # n]
    /\ health' = [health EXCEPT ![n] = h]

Begin(c) ==
    /\ Holds(c) /\ c \notin working
    /\ health[held[c]] = "open"
    /\ working' = working \cup {c}
    /\ UNCHANGED <<connections, inUse, health, held>>

\* The constructor of pqxx::work throws.  In the repositories it stands before
\* the try, in AuthApi no handler returns the connection: it stays in use.
BeginFails(c) ==
    /\ Holds(c) /\ c \notin working
    /\ health[held[c]] = "stale"
    /\ health' = [health EXCEPT ![held[c]] = "closed"]
    /\ Take(c, NoConn)
    /\ UNCHANGED <<connections, inUse, working>>

\* Mutant: an early return forgets the connection.
FinishForgets(c) ==
    /\ c \in working
    /\ UNCHANGED <<connections, inUse, health>>
    /\ Take(c, NoConn)
    /\ working' = working \ {c}

\* The transaction commits or is aborted, the latter too because its
\* connection broke and is noticed to be closed.
Finish(c) ==
    /\ c \in working
    /\ LET n == held[c]
           h == IF health[n] = "stale" THEN "closed" ELSE health[n]
       IN  IF Returns THEN Return(n, h)
           ELSE UNCHANGED inUse /\ health' = [health EXCEPT ![n] = h]
    /\ Take(c, NoConn)
    /\ working' = working \ {c}
    /\ UNCHANGED connections

\* The database ends a connection: a restart, a network failure.
Break(n) ==
    /\ MayBreak
    /\ health[n] = "open"
    /\ health' = [health EXCEPT ![n] = "stale"]
    /\ UNCHANGED <<connections, inUse, held, working>>
-----------------------------------------------------------------------------
Next ==
    \/ \E c \in Callers, i \in Slots : GetFree(c, i)
    \/ \E c \in Callers, i \in Slots, n \in Conns : Reconnect(c, i, n)
    \/ \E c \in Callers, n \in Conns : Extend(c, n)
    \/ \E c \in Callers : Begin(c) \/ BeginFails(c) \/ Finish(c)
    \/ \E n \in Conns : Break(n)

Spec == Init /\ [][Next]_vars
-----------------------------------------------------------------------------
(***************************************************************************)
(* Properties.                                                             *)
(***************************************************************************)

\* connections_ and in_use_ stay of one length, and hold live objects.
TypeOK ==
    /\ connections \in Seq(Conns) /\ inUse \in Seq(BOOLEAN)
    /\ Len(inUse) = Len(connections)
    /\ health \in [Conns -> {"none", "open", "stale", "closed"}]
    /\ held \in [Callers -> Conns \cup {NoConn}]
    /\ working \subseteq {c \in Callers : Holds(c)}
    /\ \A i \in Slots : health[connections[i]] # "none"

\* get_connection never gives one connection to two callers.
HeldExclusively ==
    \A c, d \in Callers : Holds(c) /\ held[c] = held[d] => c = d

\* What a caller holds is in the pool, once, and marked: return_connection
\* finds it and frees its slot and no other.
HeldIsInUse ==
    \A c \in Callers : Holds(c) =>
        \E i \in Slots : /\ connections[i] = held[c] /\ inUse[i]
                         /\ \A j \in Slots : connections[j] = held[c] => j = i

\* Callers that return their connections lose one only when it is dead: a
\* slot that is in use by nobody holds a closed connection.
OnlyDeadConnectionsAreLost ==
    Returns => \A i \in Slots : inUse[i] =>
        IsHeld(connections[i]) \/ health[connections[i]] = "closed"

\* A pool whose callers return their connections never has more connections
\* open at the database than it started with or has callers.
OpenConnectionsAreBounded ==
    Returns => LET open == {i \in Slots : health[connections[i]] = "open"}
               IN  Cardinality(open) <= PoolSize \/ Cardinality(open) <= Cardinality(Callers)
=============================================================================
