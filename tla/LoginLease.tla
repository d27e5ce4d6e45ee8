----------------------------- MODULE LoginLease -----------------------------
(***************************************************************************)
(* What checkAlreadyLogin promises, without sockets, timers or uuids: a    *)
(* login is a lease on a user.  A session is granted a user whom nobody    *)
(* holds, and the user is refused to every other session (locked) from     *)
(* then on.  The lock is given back by the session that holds the user as  *)
(* it ends.  A session that gives its user up and lives on, to log in as   *)
(* someone else, leaves the lock behind until the server restarts.         *)
(***************************************************************************)
CONSTANTS Users, Sessions

VARIABLES
    holders,    \* the sessions that are logged in as each user
    locked      \* the users a login is refused for

vars == <<holders, locked>>

TypeOK == holders \in [Users -> SUBSET Sessions] /\ locked \subseteq Users

Init == holders = [u \in Users |-> {}] /\ locked = {}

WithoutSession(s) == [u \in Users |-> holders[u] \ {s}]

\* A session is granted a user and gives up the one it had.
Acquire(s, u) ==
    /\ u \notin locked
    /\ holders' = [WithoutSession(s) EXCEPT ![u] = @ \cup {s}]
    /\ locked' = locked \cup {u}

\* A session gives its user up and keeps the lock.
Forget(s) == holders' = WithoutSession(s) /\ UNCHANGED locked

\* A session ends, and its user can log in again.
Release(s) ==
    /\ holders' = WithoutSession(s)
    /\ locked' = {u \in locked : s \notin holders[u]}

\* The process ends; the table of tokens is not persistent.
Restart == holders' = [u \in Users |-> {}] /\ locked' = {}

Next ==
    \/ \E s \in Sessions, u \in Users : Acquire(s, u)
    \/ \E s \in Sessions : Forget(s) \/ Release(s)
    \/ Restart

Spec == Init /\ [][Next]_vars

\* A user is held by one session at most, a session holds one user at most,
\* and a user who is held cannot be granted again.
Exclusive ==
    /\ \A u \in Users : \A s, q \in holders[u] : s = q
    /\ \A u, v \in Users : holders[u] \cap holders[v] # {} => u = v
    /\ \A u \in Users : holders[u] # {} => u \in locked
=============================================================================
