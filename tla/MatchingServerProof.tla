------------------------ MODULE MatchingServerProof ------------------------
(***************************************************************************)
(* Proofs about MatchingServer, for every number of sessions, users,       *)
(* addresses, tokens, rooms and mirror servers.                            *)
(*                                                                         *)
(* Logins: the server implements LoginLease.  user_id_, token_ and tokens_ *)
(* are changed by few handlers, the others leave the lease alone (Quiet).  *)
(*                                                                         *)
(* Registries: ServerInv adds to the invariants what they rest on, that a  *)
(* handshake comes first and alone and that only sessions that exist are   *)
(* known to anybody.  Most handlers touch no registry and replace one      *)
(* operation by another (Calm).                                            *)
(*                                                                         *)
(* Members of rooms, and the refinement of RoomStore, come last.  What     *)
(* LoginLease and RoomStore promise is then carried over to the server.    *)
(***************************************************************************)
EXTENDS MatchingServer, TLAPS

LeaseTypes ==
    /\ user \in [Slots -> Users \cup Ports \cup {NoUser, NotFound}]
    /\ token \in [Slots -> Uuids \cup {NoToken}]
    /\ tokens \in [Users -> Uuids \cup {NoToken}]

\* A session that is logged in as a user has the token tokens_ keeps for the
\* user: what makes the look into tokens_ tell whether a session exists.
HolderHasToken ==
    \A s \in Slots : user[s] \in Users =>
        token[s] \in Uuids /\ tokens[user[s]] = token[s]

LeaseInv == LeaseTypes /\ HolderHasToken /\ OneSessionPerUser

Quiet == UNCHANGED <<user, token, tokens>>

\* A step of the lease, or none.
LeaseStep == [Lease!Next]_(Lease!vars)

LEMMA QuietKeepsLease == ASSUME LeaseInv, Quiet PROVE LeaseInv' /\ LeaseStep
<1> USE DEF LeaseInv, LeaseTypes, HolderHasToken, OneSessionPerUser, Quiet
<1>1. LeaseInv'
  OBVIOUS
<1>2. UNCHANGED Lease!vars
  BY DEF Lease!vars
<1> QED
  BY <1>1, <1>2 DEF LeaseStep

\* Sessions that open, refuse, fail, read and write.
LEMMA CompletionsAreQuiet ==
    ASSUME NEW s \in Slots
    PROVE  /\ \A i \in IPs : Accept(s, i) => Quiet
           /\ \A q \in Ports \cup {NoPort} : HandshakeBadPort(s, q) => Quiet
           /\ HandshakeOldVersion(s) => Quiet
           /\ \A k \in Kinds : Completion(s, k) => Quiet
           /\ GoIdle(s) => Quiet
BY DEF Accept, HandshakeBadPort, HandshakeOldVersion, Completion, OpFails, WriteDone,
       BroadcastDone, ReadDone, GoIdle, Quiet, serverVars, sessionVars

\* Requests other than logins.
LEMMA RequestsAreQuiet ==
    ASSUME NEW s \in Slots
    PROVE  /\ AnswerOnly(s) \/ AlivePing(s) \/ Logout(s) => Quiet
           /\ \A n \in Requested, r \in Rooms : CreateRoom(s, n, r) => Quiet
           /\ \A r \in Rooms : JoinRoom(s, r) \/ LeaveRoom(s, r) => Quiet
           /\ \A r \in Rooms, g \in GameIds : GameStart(s, r, g) => Quiet
           /\ \A g \in GameIds : GameEnd(s, g) => Quiet
BY DEF AnswerOnly, AlivePing, Logout, CreateRoom, JoinRoom, LeaveRoom, GameStart,
       GameEnd, Quiet, serverVars

\* The timers and stop().
LEMMA ProcessIsQuiet ==
    /\ CheckInactive \/ BroadcastCCU \/ Stop => Quiet
    /\ \A t \in Uuids : CloseCollected(t) => Quiet
BY DEF CheckInactive, BroadcastCCU, Stop, CloseCollected, Quiet, serverVars, sessionVars
-----------------------------------------------------------------------------
\* A mirror server's handshake: user_id_ becomes its port.
LEMMA HandshakeMirrorKeepsLease ==
    ASSUME LeaseInv, NEW s \in Slots, NEW p \in Ports, HandshakeMirror(s, p)
    PROVE  LeaseInv' /\ LeaseStep
<1> USE ServerAssumption DEF LeaseInv
<1>1. /\ user' = [user EXCEPT ![s] = p]
      /\ UNCHANGED <<token, tokens>>
  BY DEF HandshakeMirror
<1>2. LeaseInv'
  BY <1>1 DEF LeaseTypes, HolderHasToken, OneSessionPerUser
<1>3. Lease!Forget(s)
  BY <1>1 DEF LeaseTypes, Lease!Forget, Lease!WithoutSession
<1> QED
  BY <1>2, <1>3 DEF LeaseStep, Lease!Next

\* registerSession renews a session's token before it has a user.
LEMMA HandshakeClientKeepsLease ==
    ASSUME LeaseInv, NEW s \in Slots, NEW t \in Uuids, HandshakeClient(s, t)
    PROVE  LeaseInv' /\ LeaseStep
<1> USE ServerAssumption DEF LeaseInv
<1>1. /\ UNCHANGED user
      /\ tokens' = IF user[s] = NoUser THEN tokens ELSE [tokens EXCEPT ![user[s]] = t]
      /\ token' = [token EXCEPT ![s] = t]
  BY DEF HandshakeClient, RegisterSession
<1>2. \A u \in Users : tokens'[u] = IF user[s] = u THEN t ELSE tokens[u]
  BY <1>1 DEF LeaseTypes
<1>3. LeaseInv'
  <2>1. LeaseTypes'
    BY <1>1 DEF LeaseTypes
  <2>2. HolderHasToken'
    BY <1>1, <1>2 DEF LeaseTypes, HolderHasToken, OneSessionPerUser
  <2> QED
    BY <1>1, <2>1, <2>2 DEF OneSessionPerUser
<1>4. UNCHANGED Lease!vars
  BY <1>1, <1>2 DEF LeaseTypes, HolderHasToken, Lease!vars
<1> QED
  BY <1>3, <1>4 DEF LeaseStep

\* A login takes a user nobody holds: by HolderHasToken a holder would have
\* left its token in tokens_.
LEMMA LoginKeepsLease ==
    ASSUME LeaseInv, NEW s \in Slots, NEW u \in Users, NEW t \in Uuids, Login(s, u, t)
    PROVE  LeaseInv' /\ LeaseStep
<1> USE ServerAssumption DEF LeaseInv
<1>1. /\ tokens[u] = NoToken
      /\ user' = [user EXCEPT ![s] = u]
      /\ tokens' = [tokens EXCEPT ![u] = t]
      /\ token' = [token EXCEPT ![s] = t]
  BY DEF Login, CheckAlreadyLogin, RegisterSession
<1>2. \A q \in Slots : user[q] # u
  BY <1>1 DEF HolderHasToken
<1>3. LeaseInv'
  <2>1. LeaseTypes'
    BY <1>1 DEF LeaseTypes
  <2>2. HolderHasToken'
    BY <1>1, <1>2 DEF LeaseTypes, HolderHasToken
  <2>3. OneSessionPerUser'
    BY <1>1, <1>2 DEF LeaseTypes, OneSessionPerUser
  <2> QED
    BY <2>1, <2>2, <2>3
<1>4. Lease!Acquire(s, u)
  <2> DEFINE Before(v) == {q \in Slots : user[q] = v}
             After(v) == {q \in Slots : user'[q] = v}
             Given == [v \in Users |-> [w \in Users |-> Before(w)][v] \ {s}]
  <2>1. \A q \in Slots : user'[q] = IF q = s THEN u ELSE user[q]
    BY <1>1 DEF LeaseTypes
  <2>2. After(u) = Given[u] \cup {s}
    BY <2>1
  <2>3. \A v \in Users \ {u} : After(v) = Given[v]
    BY <2>1
  <2>4. [v \in Users |-> After(v)] = [Given EXCEPT ![u] = @ \cup {s}]
    <3> HIDE DEF Before, After
    <3> QED
      BY <2>2, <2>3
  <2>5. {v \in Users : tokens[v] # NoToken}' = {v \in Users : tokens[v] # NoToken} \cup {u}
    BY <1>1 DEF LeaseTypes
  <2>6. u \notin {v \in Users : tokens[v] # NoToken}
    BY <1>1
  <2> QED
    BY <2>4, <2>5, <2>6 DEF Lease!Acquire, Lease!WithoutSession
<1> QED
  BY <1>3, <1>4 DEF LeaseStep, Lease!Next

LEMMA LoginHalfDoneKeepsLease ==
    ASSUME LeaseInv, NEW s \in Slots, LoginHalfDone(s)
    PROVE  LeaseInv' /\ LeaseStep
<1> USE ServerAssumption DEF LeaseInv
<1>1. /\ user' = [user EXCEPT ![s] = NotFound]
      /\ UNCHANGED <<token, tokens>>
  BY DEF LoginHalfDone, serverVars
<1>2. LeaseInv'
  BY <1>1 DEF LeaseTypes, HolderHasToken, OneSessionPerUser
<1>3. Lease!Forget(s)
  BY <1>1 DEF LeaseTypes, Lease!Forget, Lease!WithoutSession
<1> QED
  BY <1>2, <1>3 DEF LeaseStep, Lease!Next

\* ~Session takes the user's token out of tokens_: no other session has it.
LEMMA DestroyKeepsLease ==
    ASSUME LeaseInv, NEW s \in Slots, Destroy(s)
    PROVE  LeaseInv' /\ LeaseStep
<1> USE ServerAssumption DEF LeaseInv
<1>1. /\ user' = [user EXCEPT ![s] = NoUser]
      /\ token' = [token EXCEPT ![s] = NoToken]
      /\ tokens' = [v \in Users |-> IF v = user[s] /\ token[s] # NoToken
                                    THEN NoToken ELSE tokens[v]]
  BY DEF Destroy, RemoveSession
<1>2. LeaseInv'
  <2>1. LeaseTypes'
    BY <1>1 DEF LeaseTypes
  <2>2. HolderHasToken'
    BY <1>1 DEF LeaseTypes, HolderHasToken, OneSessionPerUser
  <2>3. OneSessionPerUser'
    BY <1>1 DEF LeaseTypes, OneSessionPerUser
  <2> QED
    BY <2>1, <2>2, <2>3
<1>3. Lease!Release(s)
  BY <1>1 DEF LeaseTypes, HolderHasToken, Lease!Release, Lease!WithoutSession
<1> QED
  BY <1>2, <1>3 DEF LeaseStep, Lease!Next

LEMMA RestartKeepsLease ==
    ASSUME LeaseInv, Restart
    PROVE  LeaseInv' /\ LeaseStep
<1> USE ServerAssumption DEF LeaseInv
<1>1. /\ user' = [s \in Slots |-> NoUser] /\ token' = [s \in Slots |-> NoToken]
      /\ tokens' = [u \in Users |-> NoToken]
  BY DEF Restart
<1>2. LeaseInv'
  BY <1>1 DEF LeaseTypes, HolderHasToken, OneSessionPerUser
<1>3. Lease!Restart
  BY <1>1 DEF Lease!Restart
<1> QED
  BY <1>2, <1>3 DEF LeaseStep, Lease!Next
-----------------------------------------------------------------------------
LEMMA NextKeepsLease == ASSUME LeaseInv, [Next]_vars PROVE LeaseInv' /\ LeaseStep
<1>1. ASSUME NEW s \in Slots, Handshake(s) PROVE LeaseInv' /\ LeaseStep
  BY <1>1, CompletionsAreQuiet, QuietKeepsLease, HandshakeMirrorKeepsLease,
     HandshakeClientKeepsLease DEF Handshake
<1>2. ASSUME NEW s \in Slots, Request(s) PROVE LeaseInv' /\ LeaseStep
  BY <1>2, RequestsAreQuiet, QuietKeepsLease, LoginKeepsLease, LoginHalfDoneKeepsLease
     DEF Request
<1>3. ASSUME NEW s \in Slots, Destroy(s) PROVE LeaseInv' /\ LeaseStep
  BY <1>3, DestroyKeepsLease
<1>4. ASSUME NEW s \in Slots, GoIdle(s) PROVE LeaseInv' /\ LeaseStep
  BY <1>4, CompletionsAreQuiet, QuietKeepsLease
<1>5. ASSUME NEW s \in Slots, NEW k \in Kinds, Completion(s, k) PROVE LeaseInv' /\ LeaseStep
  BY <1>5, CompletionsAreQuiet, QuietKeepsLease
<1>6. CASE Process
  BY <1>6, ProcessIsQuiet, QuietKeepsLease, RestartKeepsLease DEF Process
<1>7. CASE UNCHANGED vars
  BY <1>7, QuietKeepsLease DEF vars, sessionVars, serverVars, Quiet
<1> QED
  BY <1>1, <1>2, <1>3, <1>4, <1>5, <1>6, <1>7 DEF Next

LEMMA InitIsLeaseInit == Init => LeaseInv /\ Lease!Init
BY ServerAssumption DEF Init, LeaseInv, LeaseTypes, HolderHasToken, OneSessionPerUser,
   Lease!Init

\* No two sessions are ever logged in as one user, those included that are
\* closed and still completing operations.
THEOREM ServerOneSessionPerUser == Spec => []OneSessionPerUser
<1>1. LeaseInv /\ [Next]_vars => LeaseInv'
  BY NextKeepsLease
<1>2. LeaseInv => OneSessionPerUser
  BY DEF LeaseInv
<1> QED
  BY <1>1, <1>2, InitIsLeaseInit, PTL DEF Spec

\* Every behaviour of the server is, seen through user_id_ and tokens_, one of
\* LoginLease: handshakes of mirrors, half failed logins, destructors and
\* restarts act on the lease as its actions, and nothing else touches it.
THEOREM ServerImplementsLease == Spec => ImplementsLease
<1>1. LeaseInv /\ [Next]_vars => LeaseInv' /\ LeaseStep
  BY NextKeepsLease
<1> QED
  BY <1>1, InitIsLeaseInit, PTL DEF Spec, ImplementsLease, Lease!Spec, LeaseStep

\* What exclusiveness is in terms of user_id_ and tokens_.
LeasedOnce ==
    /\ \A u \in Users : \A s, q \in Slots : user[s] = u /\ user[q] = u => s = q
    /\ \A u \in Users : \A s \in Slots : user[s] = u => tokens[u] # NoToken

LEMMA ExclusiveIsLeasedOnce == Lease!Exclusive <=> LeasedOnce
<1>1. ASSUME Lease!Exclusive PROVE LeasedOnce
  BY <1>1 DEF Lease!Exclusive, LeasedOnce
<1>2. ASSUME LeasedOnce PROVE Lease!Exclusive
  BY <1>2 DEF Lease!Exclusive, LeasedOnce
<1> QED
  BY <1>1, <1>2

\* The lease LoginLease describes is exclusive, whatever sessions come, log in,
\* change their user and go: what checkAlreadyLogin is for.
THEOREM LeaseIsExclusive == Lease!Spec => []Lease!Exclusive
<1>1. Lease!Init => LeasedOnce
  <2>1. Lease!Init => \A u \in Users : \A s \in Slots : user[s] # u
    BY DEF Lease!Init
  <2> QED
    BY <2>1 DEF LeasedOnce
<1>2. LeasedOnce /\ [Lease!Next]_(Lease!vars) => LeasedOnce'
  <2> SUFFICES ASSUME LeasedOnce, [Lease!Next]_(Lease!vars) PROVE LeasedOnce'
    OBVIOUS
  <2> DEFINE Has(q, v) == user[q] = v
             Locked(v) == tokens[v] # NoToken
  <2>1. ASSUME NEW s \in Slots, NEW u \in Users, Lease!Acquire(s, u) PROVE LeasedOnce'
    <3>1. ~ Locked(u)
      BY <2>1 DEF Lease!Acquire
    <3>2. \A v \in Users, q \in Slots :
            Has(q, v)' <=> (q # s /\ Has(q, v)) \/ (v = u /\ q = s)
      <4> DEFINE Held == [v \in Users |-> {q \in Slots : user[q] = v}]
      <4>1. Held' = [[v \in Users |-> Held[v] \ {s}] EXCEPT ![u] = @ \cup {s}]
        BY <2>1 DEF Lease!Acquire, Lease!WithoutSession
      <4>2. \A v \in Users : \A q \in Slots :
              (q \in Held[v] <=> Has(q, v)) /\ (q \in Held'[v] <=> Has(q, v)')
        OBVIOUS
      <4> HIDE DEF Held, Has
      <4>3. \A v \in Users :
              Held'[v] = IF v = u THEN (Held[v] \ {s}) \cup {s} ELSE Held[v] \ {s}
        BY <4>1
      <4> QED
        BY <4>2, <4>3
    <3>3. \A v \in Users : Locked(v)' <=> Locked(v) \/ v = u
      BY <2>1 DEF Lease!Acquire
    <3> QED
      BY <3>1, <3>2, <3>3 DEF LeasedOnce
  <2>2. ASSUME NEW s \in Slots, Lease!Forget(s) PROVE LeasedOnce'
    <3>1. \A v \in Users, q \in Slots : Has(q, v)' <=> q # s /\ Has(q, v)
      BY <2>2 DEF Lease!Forget, Lease!WithoutSession
    <3>2. \A v \in Users : Locked(v)' <=> Locked(v)
      BY <2>2 DEF Lease!Forget
    <3> QED
      BY <3>1, <3>2 DEF LeasedOnce
  <2>3. ASSUME NEW s \in Slots, Lease!Release(s) PROVE LeasedOnce'
    <3>1. \A v \in Users, q \in Slots : Has(q, v)' <=> q # s /\ Has(q, v)
      BY <2>3 DEF Lease!Release, Lease!WithoutSession
    <3>2. \A v \in Users : Locked(v)' <=> Locked(v) /\ ~ Has(s, v)
      BY <2>3 DEF Lease!Release
    <3> QED
      BY <3>1, <3>2 DEF LeasedOnce
  <2>4. CASE Lease!Restart
    <3>1. \A v \in Users, q \in Slots : ~ Has(q, v)'
      BY <2>4 DEF Lease!Restart
    <3> QED
      BY <3>1 DEF LeasedOnce
  <2>5. CASE UNCHANGED Lease!vars
    <3>1. \A v \in Users, q \in Slots : Has(q, v)' <=> Has(q, v)
      BY <2>5 DEF Lease!vars
    <3>2. \A v \in Users : Locked(v)' <=> Locked(v)
      BY <2>5 DEF Lease!vars
    <3> QED
      BY <3>1, <3>2 DEF LeasedOnce
  <2> QED
    BY <2>1, <2>2, <2>3, <2>4, <2>5 DEF Lease!Next
<1> QED
  BY <1>1, <1>2, ExclusiveIsLeasedOnce, PTL DEF Lease!Spec

\* So the server's leases are: tokens_ refuses every user that a session has,
\* and two sessions never have one user, nor one session two.
THEOREM ServerLeaseIsExclusive == Spec => []Lease!Exclusive
BY ServerImplementsLease, LeaseIsExclusive, PTL DEF ImplementsLease
-----------------------------------------------------------------------------
(***************************************************************************)
(* The registries.                                                         *)
(***************************************************************************)

\* Requests are processed of sessions that exist.
BusyIsAlive == busy # NoSlot => sock[busy] # "none"

\* A session's handshake is its first operation: it ends before there is
\* anything the registries could know the session by.
HandshakeIsFirst ==
    \A s \in Slots : ops[s]["hs"] > 0 =>
        /\ ops[s]["hs"] = 1 /\ busy # s
        /\ \A k \in Kinds \ {"hs"} : ops[s][k] = 0
        /\ port[s] = NoPort /\ user[s] = NoUser /\ token[s] = NoToken

\* Every session has the address it was accepted from.
AddressIsKnown == \A s \in Slots : sock[s] # "none" => ip[s] \in IPs

ServerInv ==
    /\ TypeOK /\ BusyIsAlive /\ HandshakeIsFirst /\ AddressIsKnown
    /\ RegistryIsSound /\ AddressIsHeld /\ OneOperationPerClient

\* The reads and writes in flight, and with the request being processed.
Load(o) == o["hs"] + o["read"] + o["write"] + o["fail"]
Work(s) == Load(ops[s]) + (IF busy = s THEN 1 ELSE 0)

LEMMA OneMoreOp ==
    ASSUME NEW o \in [Kinds -> Nat], NEW k \in Kinds
    PROVE  /\ With(o, k) \in [Kinds -> Nat]
           /\ Load(With(o, k)) = Load(o) + (IF k = "bcast" THEN 0 ELSE 1)
           /\ With(o, k)["hs"] = o["hs"] + (IF k = "hs" THEN 1 ELSE 0)
BY DEF With, Load, Kinds

LEMMA OneOpLess ==
    ASSUME NEW o \in [Kinds -> Nat], NEW k \in Kinds, o[k] > 0
    PROVE  /\ Without(o, k) \in [Kinds -> Nat]
           /\ Load(Without(o, k)) = Load(o) - (IF k = "bcast" THEN 0 ELSE 1)
           /\ Without(o, k)["hs"] = o["hs"] - (IF k = "hs" THEN 1 ELSE 0)
BY DEF Without, Load, Kinds

LEMMA LoadType == ASSUME NEW o \in [Kinds -> Nat] PROVE Load(o) \in Nat /\ o["hs"] \in Nat
BY DEF Load, Kinds

\* An operation begun on a socket is a read or a write, or bound to fail.
LEMMA OnKind ==
    ASSUME NEW x, NEW k \in Kinds \ {"hs"}
    PROVE  On(x, k) \in Kinds \ {"hs"} /\ On("open", k) = k
BY DEF On, Kinds

LEMMA NoOpsType == NoOps \in [Kinds -> Nat] /\ Load(NoOps) = 0 /\ NoOps["hs"] = 0
BY DEF NoOps, Load, Kinds

\* A step that leaves the registries and what they know of sessions alone.
Calm ==
    /\ UNCHANGED <<ip, port, user, token, sessions, tokens, mirrors, connectedIps>>
    /\ sock' \in [Slots -> {"none", "open", "closed"}]
    /\ ops' \in [Slots -> [Kinds -> Nat]]
    /\ closing' \subseteq Uuids /\ running' \in BOOLEAN /\ busy' \in Slots \cup {NoSlot}
    /\ busy' # NoSlot => sock[busy'] # "none"
    /\ \A s \in Slots :
         /\ sock'[s] = "none" <=> sock[s] = "none"
         /\ sock[s] = "none" => s \notin waiting' \cup idle' /\ ops'[s] = ops[s]
         /\ ops'[s]["hs"] # 0 => ops'[s] = ops[s] /\ busy' # s
         /\ sock'[s] = "open" => sock[s] = "open"
         /\ sock'[s] = "open" /\ port[s] = NoPort => Work(s)' = Work(s)

LEMMA CalmKeepsServer == ASSUME ServerInv, Calm PROVE ServerInv'
<1> USE ServerAssumption DEF ServerInv
<1>1. TypeOK'
  BY DEF TypeOK, Calm
<1>2. BusyIsAlive'
  BY DEF BusyIsAlive, Calm
<1>3. HandshakeIsFirst'
  <2> SUFFICES ASSUME NEW s \in Slots, ops'[s]["hs"] > 0
      PROVE  /\ ops'[s]["hs"] = 1 /\ busy' # s
             /\ \A k \in Kinds \ {"hs"} : ops'[s][k] = 0
             /\ port'[s] = NoPort /\ user'[s] = NoUser /\ token'[s] = NoToken
    BY DEF HandshakeIsFirst
  <2>1. ops'[s] = ops[s] /\ busy' # s
    BY DEF Calm
  <2> QED
    BY <2>1 DEF Calm, HandshakeIsFirst
<1>4. RegistryIsSound'
  BY DEF RegistryIsSound, Calm, Alive
<1>5. AddressIsHeld' /\ AddressIsKnown'
  BY DEF AddressIsHeld, AddressIsKnown, Calm, Alive
<1>6. OneOperationPerClient'
  <2> SUFFICES ASSUME NEW s \in Slots, sock'[s] = "open", port'[s] = NoPort
      PROVE  Load(ops'[s]) = (IF busy' = s THEN 0 ELSE 1)
    BY DEF OneOperationPerClient, Load
  <2>1. Load(ops[s]) = (IF busy = s THEN 0 ELSE 1)
    BY DEF OneOperationPerClient, Load, Calm
  <2>2. Load(ops'[s]) \in Nat
    BY LoadType DEF Calm
  <2>3. Work(s)' = Work(s)
    BY DEF Calm
  <2> QED
    BY <2>1, <2>2, <2>3 DEF Work
<1> QED
  BY <1>1, <1>2, <1>3, <1>4, <1>5, <1>6

\* What a step may do to one session's operations and stay calm: a completion
\* that starts a request or another operation, and the answer to a request.
LEMMA SessionExists ==
    ASSUME ServerInv, NEW s \in Slots
    PROVE  /\ ops[s] \in [Kinds -> Nat]
           /\ \A k \in Kinds : Complete(s, k) => sock[s] # "none" /\ busy = NoSlot
           /\ \A k \in Kinds \ {"hs"} : Complete(s, k) => ops[s]["hs"] = 0
           /\ busy = s => sock[s] # "none" /\ ops[s]["hs"] = 0
<1>1. ops[s] \in [Kinds -> Nat]
  BY DEF ServerInv, TypeOK
<1>2. ASSUME NEW k \in Kinds, Complete(s, k) PROVE sock[s] # "none" /\ busy = NoSlot
  BY <1>2 DEF ServerInv, TypeOK, Complete, Free, NoOps
<1>3. busy = s => sock[s] # "none"
  BY ServerAssumption DEF ServerInv, BusyIsAlive
<1>4. ops[s]["hs"] \in Nat
  BY <1>1, LoadType
<1>5. busy = s => ops[s]["hs"] = 0
  BY <1>4 DEF ServerInv, HandshakeIsFirst
<1>6. \A k \in Kinds \ {"hs"} : Complete(s, k) => ops[s]["hs"] = 0
  BY <1>4 DEF ServerInv, HandshakeIsFirst, Complete
<1> QED
  BY <1>1, <1>2, <1>3, <1>5, <1>6

\* handle_error closes the socket of a session that exists.
LEMMA ClosedOnly ==
    ASSUME ServerInv, NEW s \in Slots, sock[s] # "none", HandleError(s)
    PROVE  /\ sock' = [sock EXCEPT ![s] = "closed"]
           /\ sock' \in [Slots -> {"none", "open", "closed"}]
           /\ \A q \in Slots : /\ sock'[q] = "none" <=> sock[q] = "none"
                               /\ sock'[q] = "open" => q # s /\ sock[q] = "open"
BY DEF ServerInv, TypeOK, HandleError

LEMMA OpFailsIsCalm ==
    ASSUME ServerInv, NEW s \in Slots, NEW k \in Kinds, OpFails(s, k) PROVE Calm
<1> USE ServerAssumption
<1>1. sock[s] # "none" /\ HandleError(s) /\ ops' = [ops EXCEPT ![s] = Without(ops[s], k)]
  BY SessionExists DEF OpFails
<1>2. /\ Without(ops[s], k) \in [Kinds -> Nat]
      /\ Without(ops[s], k)["hs"] = 0
  <2>1. ops[s][k] > 0 /\ ops[s] \in [Kinds -> Nat] /\ Complete(s, k)
    BY SessionExists DEF OpFails, Complete
  <2>2. CASE k = "hs"
    BY <2>1, <2>2, OneOpLess DEF ServerInv, HandshakeIsFirst
  <2>3. CASE k # "hs"
    BY <2>1, <2>3, OneOpLess, SessionExists
  <2> QED
    BY <2>2, <2>3
<1>3. UNCHANGED <<ip, port, user, token, waiting, idle, sessions, tokens, mirrors,
                  connectedIps, running, busy, closing>>
  BY DEF OpFails, serverVars, controlVars
<1>4. ops' \in [Slots -> [Kinds -> Nat]]
  BY <1>1, <1>2 DEF ServerInv, TypeOK
<1>5. \A q \in Slots : IF q = s THEN ops'[q]["hs"] = 0 ELSE ops'[q] = ops[q]
  BY <1>1, <1>2 DEF ServerInv, TypeOK
<1>6. \A q \in Slots : sock'[q] = "open" => Work(q)' = Work(q)
  BY <1>1, <1>3, <1>5, ClosedOnly DEF Work
<1>7. \A q \in Slots : ops'[q]["hs"] # 0 => ops'[q] = ops[q] /\ busy' # q
  BY <1>3, <1>5, SessionExists
<1> QED
  BY <1>1, <1>3, <1>4, <1>5, <1>6, <1>7, ClosedOnly DEF Calm, ServerInv, TypeOK, BusyIsAlive

\* A step that changes the operations of one session only, to o, leaving it as
\* much work as before.
LEMMA OneSessionsStepIsCalm ==
    ASSUME ServerInv, NEW s \in Slots, NEW o \in [Kinds -> Nat],
           sock[s] # "none", ops' = [ops EXCEPT ![s] = o],
           o["hs"] = 0,
           sock[s] = "open" => Load(o) + (IF busy' = s THEN 1 ELSE 0) = Work(s),
           UNCHANGED <<sock, ip, port, user, token, serverVars, running, closing>>,
           waiting' \subseteq waiting \cup {s}, idle' \subseteq idle \cup {s},
           busy' \in {NoSlot, s}, busy \in {NoSlot, s}
    PROVE  Calm
<1> USE ServerAssumption
<1>1. ops' \in [Slots -> [Kinds -> Nat]]
  BY DEF ServerInv, TypeOK
<1>2. \A q \in Slots : /\ IF q = s THEN ops'[q]["hs"] = 0 ELSE ops'[q] = ops[q]
                       /\ ops'[q]["hs"] # 0 => busy' # q
                       /\ sock[q] = "open" => Work(q)' = Work(q)
  BY SessionExists, LoadType DEF ServerInv, TypeOK, Work
<1> QED
  BY <1>1, <1>2 DEF Calm, ServerInv, TypeOK, BusyIsAlive, serverVars

LEMMA WriteDoneIsCalm == ASSUME ServerInv, NEW s \in Slots, WriteDone(s) PROVE Calm
<1> DEFINE o == Without(ops[s], "write")
           k == On(sock[s], "read")
<1>1. o \in [Kinds -> Nat] /\ Load(o) = Load(ops[s]) - 1 /\ o["hs"] = 0
  BY SessionExists, OneOpLess, LoadType DEF WriteDone, Complete, Kinds
<1>2. k \in Kinds \ {"hs"} /\ (sock[s] = "open" => k # "bcast")
  BY OnKind DEF Kinds
<1>3. ops' = [ops EXCEPT ![s] = With(o, k)]
  BY DEF WriteDone
<1> HIDE DEF o, k
<1>4. /\ With(o, k) \in [Kinds -> Nat] /\ With(o, k)["hs"] = 0
      /\ sock[s] = "open" => Load(With(o, k)) = Load(ops[s])
  BY <1>1, <1>2, OneMoreOp, LoadType, SessionExists
<1>5. /\ sock[s] # "none" /\ busy = NoSlot
      /\ UNCHANGED <<sock, ip, port, user, token, waiting, idle, serverVars, running, busy, closing>>
  BY SessionExists DEF WriteDone, controlVars, Kinds
<1>6. sock[s] = "open" => Load(With(o, k)) + (IF busy' = s THEN 1 ELSE 0) = Work(s)
  BY <1>4, <1>5 DEF Work
<1> QED
  BY <1>3, <1>4, <1>5, <1>6, OneSessionsStepIsCalm

LEMMA BroadcastDoneIsCalm == ASSUME ServerInv, NEW s \in Slots, BroadcastDone(s) PROVE Calm
<1>1. /\ Without(ops[s], "bcast") \in [Kinds -> Nat]
      /\ Load(Without(ops[s], "bcast")) = Load(ops[s])
      /\ Without(ops[s], "bcast")["hs"] = 0
  BY SessionExists, OneOpLess, LoadType DEF BroadcastDone, Complete, Kinds
<1> QED
  BY <1>1, SessionExists, LoadType, OneSessionsStepIsCalm
     DEF BroadcastDone, Work, controlVars, Kinds

LEMMA ReadDoneIsCalm == ASSUME ServerInv, NEW s \in Slots, ReadDone(s) PROVE Calm
<1>1. /\ Without(ops[s], "read") \in [Kinds -> Nat]
      /\ Load(Without(ops[s], "read")) = Load(ops[s]) - 1
      /\ Without(ops[s], "read")["hs"] = 0
  BY SessionExists, OneOpLess, LoadType DEF ReadDone, Complete, Kinds
<1>2. /\ busy = NoSlot /\ busy' = s /\ sock[s] # "none"
      /\ ops' = [ops EXCEPT ![s] = Without(ops[s], "read")]
      /\ UNCHANGED <<sock, ip, port, user, token, waiting, idle, serverVars, running, closing>>
  BY SessionExists DEF ReadDone, Kinds
<1>3. Load(Without(ops[s], "read")) + (IF busy' = s THEN 1 ELSE 0) = Work(s)
  BY <1>1, <1>2, SessionExists, LoadType, ServerAssumption DEF Work
<1> QED
  BY <1>1, <1>2, <1>3, OneSessionsStepIsCalm

\* An answer takes the place of the request.
LEMMA ReplyBalances ==
    ASSUME ServerInv, NEW s \in Slots, Finish(s)
    PROVE  /\ sock[s] # "none" /\ busy = s /\ busy' = NoSlot
           /\ With(ops[s], On(sock[s], "write")) \in [Kinds -> Nat]
           /\ With(ops[s], On(sock[s], "write"))["hs"] = 0
           /\ sock[s] = "open" => Load(With(ops[s], On(sock[s], "write"))) = Work(s)
<1>1. /\ On(sock[s], "write") \in Kinds \ {"hs"}
      /\ sock[s] = "open" => On(sock[s], "write") = "write"
  BY OnKind DEF Kinds
<1>2. sock[s] # "none" /\ busy = s /\ busy' = NoSlot
  BY SessionExists DEF Finish
<1> QED
  BY <1>1, <1>2, SessionExists, OneMoreOp, LoadType DEF Work

\* Requests that are answered, and do no more to the session than to set its
\* status_ or its time of the last ping.
LEMMA AnswerIsCalm ==
    ASSUME ServerInv, NEW s \in Slots, Finish(s), Reply(s),
           UNCHANGED <<sock, ip, port, user, token, serverVars>>,
           waiting' \subseteq waiting \cup {s}, idle' \subseteq idle
    PROVE  Calm
<1>1. /\ ops' = [ops EXCEPT ![s] = With(ops[s], On(sock[s], "write"))]
      /\ UNCHANGED <<running, closing>>
  BY DEF Reply, WithWrite, Finish
<1>2. s # NoSlot
  BY ServerAssumption
<1> DEFINE o == With(ops[s], On(sock[s], "write"))
<1>3. /\ sock[s] # "none" /\ busy = s /\ busy' = NoSlot
      /\ o \in [Kinds -> Nat] /\ o["hs"] = 0
      /\ sock[s] = "open" => Load(o) = Work(s)
  BY ReplyBalances
<1>4. Load(o) \in Nat
  BY <1>3, LoadType
<1> HIDE DEF o
<1>5. sock[s] = "open" => Load(o) + (IF busy' = s THEN 1 ELSE 0) = Work(s)
  BY <1>2, <1>3, <1>4
<1>6. ops' = [ops EXCEPT ![s] = o]
  BY <1>1 DEF o
<1>7. idle' \subseteq idle \cup {s} /\ waiting' \subseteq waiting \cup {s}
  OBVIOUS
<1>8. UNCHANGED <<sock, ip, port, user, token, serverVars, running, closing>>
  BY <1>1
<1>9. busy' \in {NoSlot, s} /\ busy \in {NoSlot, s}
  BY <1>3
<1> QED
  BY <1>3, <1>4, <1>5, <1>6, <1>7, <1>8, <1>9, OneSessionsStepIsCalm

\* createRoom also begins a write on the session of the room's mirror server.
LEMMA CreateRoomIsCalm ==
    ASSUME ServerInv, NEW s \in Slots, NEW n \in Requested, NEW r \in Rooms,
           CreateRoom(s, n, r)
    PROVE  Calm
<1> USE ServerAssumption
<1> DEFINE m == GetMirrorSession(PortOf[r])
           f == [ops EXCEPT ![m] = With(ops[m], On(sock[m], "write"))]
<1>1. /\ Finish(s)
      /\ UNCHANGED <<sock, ip, port, user, token, idle, serverVars>>
  BY DEF CreateRoom
<1>2. CASE m = NoSlot
  <2>1. Reply(s) /\ UNCHANGED waiting
    BY <1>2 DEF CreateRoom
  <2> QED
    BY <1>1, <2>1, AnswerIsCalm
<1>3. CASE m # NoSlot
  <2>1. /\ m \in Slots /\ sock[m] # "none" /\ port[m] # NoPort
        /\ ops[m]["hs"] = 0 /\ ops[s]["hs"] = 0
    <3>1. m \in Slots /\ sock[m] # "none" /\ port[m] # NoPort
      BY <1>3 DEF GetMirrorSession, Alive, ServerInv, RegistryIsSound
    <3>2. ops[m]["hs"] \in Nat
      BY <3>1, SessionExists, LoadType
    <3> HIDE DEF m
    <3>3. ops[m]["hs"] = 0
      BY <3>1, <3>2 DEF ServerInv, HandshakeIsFirst
    <3> QED
      BY <1>1, <3>1, <3>3, SessionExists DEF Finish
  <2>2. /\ waiting' = waiting \ {s}
        /\ ops' = [f EXCEPT ![s] = With(f[s], On(sock[s], "write"))]
    BY <1>3 DEF CreateRoom, WithWrite
  <2> HIDE DEF m
  <2>3. \A q \in Slots : /\ On(sock[q], "write") \in Kinds \ {"hs"}
                         /\ sock[q] = "open" => On(sock[q], "write") = "write"
    BY OnKind DEF Kinds
  <2>4. f[m] \in [Kinds -> Nat] /\ f[m]["hs"] = ops[m]["hs"]
    <3>1. f[m] = With(ops[m], On(sock[m], "write"))
      BY <2>1 DEF ServerInv, TypeOK
    <3> HIDE DEF f
    <3> QED
      BY <2>1, <2>3, <3>1, SessionExists, OneMoreOp, LoadType
  <2>5. f \in [Slots -> [Kinds -> Nat]] /\ \A q \in Slots : f[q]["hs"] = ops[q]["hs"]
    BY <2>1, <2>4 DEF ServerInv, TypeOK
  <2>6. \A q \in Slots \ {m} : f[q] = ops[q]
    BY <2>1 DEF ServerInv, TypeOK
  <2> HIDE DEF f
  <2>7. ops'[s] \in [Kinds -> Nat] /\ ops'[s]["hs"] = ops[s]["hs"]
    BY <2>2, <2>3, <2>5, OneMoreOp, LoadType
  <2>8. ops' \in [Slots -> [Kinds -> Nat]] /\ \A q \in Slots : ops'[q]["hs"] = ops[q]["hs"]
    BY <2>2, <2>5, <2>7
  <2>9. \A q \in Slots \ {s, m} : ops'[q] = ops[q]
    BY <2>2, <2>5, <2>6
  <2>10. sock[s] # "none" /\ busy = s /\ busy' = NoSlot /\ UNCHANGED <<running, closing>>
    BY <1>1, SessionExists DEF Finish
  <2>11. ASSUME s # m, sock[s] = "open" PROVE Work(s)' = Work(s)
    <3>1. ops'[s] = With(ops[s], "write")
      BY <2>2, <2>3, <2>5, <2>6, <2>11, OnKind DEF Kinds
    <3>2. Load(ops'[s]) = Load(ops[s]) + 1
      BY <3>1, OneMoreOp, SessionExists DEF Kinds
    <3> QED
      BY <3>2, <2>10, SessionExists, LoadType DEF Work
  <2>12. \A q \in Slots : /\ ops'[q]["hs"] # 0 => ops'[q] = ops[q] /\ busy' # q
                          /\ sock[q] = "none" => ops'[q] = ops[q]
                          /\ sock'[q] = "open" /\ port[q] = NoPort => Work(q)' = Work(q)
    <3>1. \A q \in Slots : busy' # q
      BY <2>10
    <3>2. \A q \in Slots \ {s, m} : Work(q)' = Work(q)
      BY <2>9, <2>10 DEF Work
    <3> QED
      BY <1>1, <2>1, <2>8, <2>9, <2>10, <2>11, <3>1, <3>2
  <2> QED
    BY <1>1, <2>2, <2>8, <2>10, <2>12 DEF Calm, ServerInv, TypeOK, serverVars
<1> QED
  BY <1>2, <1>3

LEMMA LogoutIsCalm == ASSUME ServerInv, NEW s \in Slots, Logout(s) PROVE Calm
<1> USE ServerAssumption
<1>1. /\ sock[s] # "none" /\ HandleError(s) /\ busy = s /\ busy' = NoSlot
      /\ UNCHANGED <<ip, port, user, token, waiting, idle, ops, sessions, tokens, mirrors,
                     connectedIps, running, closing>>
  BY SessionExists DEF Logout, Finish, serverVars
<1>2. \A q \in Slots : /\ busy = q => ops[q]["hs"] = 0
                       /\ sock'[q] = "open" => sock[q] = "open" /\ Work(q)' = Work(q)
  BY <1>1, ClosedOnly, SessionExists, LoadType DEF Work
<1>3. /\ sock' \in [Slots -> {"none", "open", "closed"}]
      /\ \A q \in Slots : sock'[q] = "none" <=> sock[q] = "none"
  BY <1>1, ClosedOnly
<1> QED
  BY <1>1, <1>2, <1>3 DEF Calm, ServerInv, TypeOK

LEMMA RequestsAreCalm ==
    ASSUME ServerInv, NEW s \in Slots
    PROVE  /\ AnswerOnly(s) \/ AlivePing(s) \/ Logout(s) => Calm
           /\ \A n \in Requested, r \in Rooms : CreateRoom(s, n, r) => Calm
           /\ \A r \in Rooms : JoinRoom(s, r) \/ LeaveRoom(s, r) => Calm
           /\ \A r \in Rooms, g \in GameIds : GameStart(s, r, g) => Calm
           /\ \A g \in GameIds : GameEnd(s, g) => Calm
<1>1. AnswerOnly(s) \/ AlivePing(s) => Calm
  BY AnswerIsCalm DEF AnswerOnly, AlivePing
<1>2. \A r \in Rooms : JoinRoom(s, r) \/ LeaveRoom(s, r) => Calm
  BY AnswerIsCalm DEF JoinRoom, LeaveRoom
<1>3. \A r \in Rooms, g \in GameIds : GameStart(s, r, g) => Calm
  BY AnswerIsCalm DEF GameStart
<1>4. \A g \in GameIds : GameEnd(s, g) => Calm
  BY AnswerIsCalm DEF GameEnd
<1> QED
  BY <1>1, <1>2, <1>3, <1>4, CreateRoomIsCalm, LogoutIsCalm

\* Time, the timers' first loops, and stop().
LEMMA BroadcastIsCalm == ASSUME ServerInv, BroadcastCCU PROVE Calm
<1> USE ServerAssumption
<1>1. /\ UNCHANGED <<sock, ip, port, user, token, waiting, idle, sessions, tokens, mirrors,
                     connectedIps, running, busy, closing>>
      /\ ops' = [s \in Slots |-> IF s \in Recipients THEN With(ops[s], On(sock[s], "bcast"))
                                                    ELSE ops[s]]
  BY DEF BroadcastCCU, serverVars, controlVars
<1>2. ASSUME NEW s \in Slots, s \in Recipients
      PROVE  /\ sock[s] # "none" /\ ops'[s] \in [Kinds -> Nat]
             /\ ops'[s]["hs"] = 0
             /\ sock[s] = "open" => Load(ops'[s]) = Load(ops[s])
  <2>1. sock[s] # "none" /\ ops[s]["hs"] = 0
    <3>1. sock[s] # "none" /\ user[s] # NoUser
      BY <1>2 DEF Recipients, ServerInv, TypeOK
    <3> QED
      BY <3>1, SessionExists, LoadType DEF ServerInv, HandshakeIsFirst
  <2>2. /\ On(sock[s], "bcast") \in Kinds \ {"hs"}
        /\ sock[s] = "open" => On(sock[s], "bcast") = "bcast"
    BY OnKind DEF Kinds
  <2>3. ops'[s] = With(ops[s], On(sock[s], "bcast"))
    BY <1>1, <1>2
  <2> QED
    BY <2>1, <2>2, <2>3, SessionExists, OneMoreOp, LoadType
<1>3. \A s \in Slots : s \notin Recipients => ops'[s] = ops[s]
  BY <1>1
<1>4. ops' \in [Slots -> [Kinds -> Nat]]
  BY <1>1, <1>2, SessionExists
<1>5. \A s \in Slots : /\ ops'[s]["hs"] # 0 => ops'[s] = ops[s] /\ busy' # s
                       /\ sock[s] = "open" => Work(s)' = Work(s)
  BY <1>1, <1>2, <1>3, SessionExists, LoadType DEF Work
<1> QED
  BY <1>1, <1>2, <1>3, <1>4, <1>5 DEF Calm, ServerInv, TypeOK, BusyIsAlive

LEMMA TimersAreCalm ==
    ASSUME ServerInv
    PROVE  /\ CheckInactive \/ BroadcastCCU \/ Stop => Calm
           /\ \A s \in Slots : GoIdle(s) => Calm
<1>1. ASSUME CheckInactive \/ Stop PROVE Calm
  <2>1. /\ UNCHANGED <<sessionVars, serverVars, busy>>
        /\ closing' \subseteq Uuids
    BY <1>1 DEF CheckInactive, Stop, Registered
  <2>3. running' \in BOOLEAN
    BY <1>1 DEF CheckInactive, Stop, ServerInv, TypeOK
  <2>2. \A s \in Slots : (ops[s]["hs"] # 0 => busy # s) /\ Work(s)' = Work(s)
    BY <2>1, SessionExists, LoadType DEF Work, sessionVars
  <2> QED
    BY <2>1, <2>2, <2>3 DEF Calm, ServerInv, TypeOK, BusyIsAlive, serverVars, sessionVars
<1>2. \A s \in Slots : GoIdle(s) => Calm
  BY SessionExists, LoadType DEF GoIdle, Calm, ServerInv, TypeOK, BusyIsAlive, Work, Alive,
     serverVars, controlVars
<1> QED
  BY <1>1, <1>2, BroadcastIsCalm

\* A step of one session leaves what concerns the others' operations alone.
LEMMA OneSessionsStep ==
    ASSUME ServerInv, NEW s \in Slots,
           busy \in {NoSlot, s}, busy' \in {NoSlot, s},
           \A q \in Slots \ {s} : /\ sock'[q] = sock[q] /\ ops'[q] = ops[q]
                                  /\ port'[q] = port[q] /\ user'[q] = user[q]
                                  /\ token'[q] = token[q],
           busy' = s => sock'[s] # "none",
           ops'[s]["hs"] > 0 =>
             /\ ops'[s]["hs"] = 1 /\ busy' # s
             /\ \A k \in Kinds \ {"hs"} : ops'[s][k] = 0
             /\ port'[s] = NoPort /\ user'[s] = NoUser /\ token'[s] = NoToken,
           sock'[s] = "open" /\ port'[s] = NoPort =>
             Load(ops'[s]) = (IF busy' = s THEN 0 ELSE 1)
    PROVE  BusyIsAlive' /\ HandshakeIsFirst' /\ OneOperationPerClient'
<1> USE ServerAssumption
<1>1. BusyIsAlive'
  BY DEF BusyIsAlive
<1>2. HandshakeIsFirst'
  BY DEF ServerInv, HandshakeIsFirst
<1>3. OneOperationPerClient'
  BY DEF ServerInv, OneOperationPerClient, Load
<1> QED
  BY <1>1, <1>2, <1>3

\* The handshake is the session's only operation, and no registry has an entry
\* of the session.
LEMMA InHandshake ==
    ASSUME ServerInv, NEW s \in Slots, Complete(s, "hs")
    PROVE  /\ sock[s] # "none" /\ busy = NoSlot
           /\ port[s] = NoPort /\ user[s] = NoUser /\ token[s] = NoToken
           /\ \A t \in Uuids : sessions[t] # s
           /\ \A p \in Ports : mirrors[p] # s
           /\ Without(ops[s], "hs") \in [Kinds -> Nat]
           /\ Without(ops[s], "hs")["hs"] = 0
           /\ sock[s] = "open" => Load(Without(ops[s], "hs")) = 0
<1> USE ServerAssumption
<1>1. sock[s] # "none" /\ busy = NoSlot /\ ops[s] \in [Kinds -> Nat] /\ ops[s]["hs"] > 0
  BY SessionExists DEF Complete, Kinds
<1>2. port[s] = NoPort /\ user[s] = NoUser /\ token[s] = NoToken /\ ops[s]["hs"] = 1
  BY <1>1 DEF ServerInv, HandshakeIsFirst
<1>3. (\A t \in Uuids : sessions[t] # s) /\ (\A p \in Ports : mirrors[p] # s)
  BY <1>2 DEF ServerInv, RegistryIsSound
<1>4. sock[s] = "open" => Load(ops[s]) = 1
  BY <1>1, <1>2 DEF ServerInv, OneOperationPerClient, Load
<1> QED
  BY <1>1, <1>2, <1>3, <1>4, OneOpLess, LoadType DEF Kinds

LEMMA AcceptKeepsServer ==
    ASSUME ServerInv, NEW s \in Slots, NEW i \in IPs, Accept(s, i)
    PROVE  ServerInv'
<1> USE ServerAssumption
<1>1. /\ sock[s] = "none" /\ busy = NoSlot /\ sock' = [sock EXCEPT ![s] = "open"]
      /\ ip' = [ip EXCEPT ![s] = i] /\ ops' = [ops EXCEPT ![s] = With(ops[s], "hs")]
      /\ UNCHANGED <<port, user, token, waiting, idle, sessions, tokens, mirrors,
                     connectedIps, running, busy, closing>>
  BY DEF Accept, Free, serverVars, controlVars
<1>2. /\ ops[s] = NoOps /\ port[s] = NoPort /\ user[s] = NoUser /\ token[s] = NoToken
  BY <1>1 DEF ServerInv, TypeOK
<1>3. /\ With(ops[s], "hs") \in [Kinds -> Nat] /\ With(ops[s], "hs")["hs"] = 1
      /\ Load(With(ops[s], "hs")) = 1
      /\ \A k \in Kinds \ {"hs"} : With(ops[s], "hs")[k] = 0
  <2>1. \A k \in Kinds \ {"hs"} : With(ops[s], "hs")[k] = 0
    BY <1>2 DEF With, NoOps
  <2> QED
    BY <1>2, <2>1, NoOpsType, OneMoreOp DEF Kinds
<1>4. ops'[s] = With(ops[s], "hs") /\ sock'[s] = "open" /\ ip'[s] = i
  BY <1>1 DEF ServerInv, TypeOK
<1>5. \A q \in Slots \ {s} : sock'[q] = sock[q] /\ ops'[q] = ops[q] /\ ip'[q] = ip[q]
  BY <1>1 DEF ServerInv, TypeOK
<1>6. TypeOK'
  BY <1>1, <1>3, <1>4, <1>5 DEF ServerInv, TypeOK
<1>7. RegistryIsSound'
  BY <1>1, <1>2, <1>5 DEF ServerInv, RegistryIsSound, Alive
<1>8. AddressIsHeld' /\ AddressIsKnown'
  <2>1. AddressIsHeld'
    BY <1>1, <1>4, <1>5 DEF ServerInv, AddressIsHeld, Alive
  <2>2. AddressIsKnown'
    BY <1>1, <1>4, <1>5 DEF ServerInv, AddressIsKnown
  <2> QED
    BY <2>1, <2>2
<1>9. BusyIsAlive' /\ HandshakeIsFirst' /\ OneOperationPerClient'
  BY <1>1, <1>2, <1>3, <1>4, <1>5, OneSessionsStep
<1> QED
  BY <1>6, <1>7, <1>8, <1>9 DEF ServerInv

LEMMA MirrorKeepsServer ==
    ASSUME ServerInv, NEW s \in Slots, NEW p \in Ports, HandshakeMirror(s, p)
    PROVE  ServerInv'
<1> USE ServerAssumption
<1> DEFINE k == On(sock[s], "write")
           o == Without(ops[s], "hs")
<1>1. /\ Complete(s, "hs")
      /\ port' = [port EXCEPT ![s] = p] /\ user' = [user EXCEPT ![s] = p]
      /\ mirrors' = [q \in Ports |-> IF q = p THEN s
                                     ELSE IF mirrors[q] = s THEN NoSlot ELSE mirrors[q]]
      /\ ops' = [ops EXCEPT ![s] = With(o, k)]
      /\ UNCHANGED <<sock, ip, token, waiting, idle, sessions, tokens, connectedIps,
                     running, busy, closing>>
  BY DEF HandshakeMirror, controlVars
<1>2. k \in Kinds \ {"hs"}
  BY OnKind DEF Kinds
<1>3. o \in [Kinds -> Nat] /\ o["hs"] = 0
  BY <1>1, InHandshake
<1> HIDE DEF k, o
<1>4. With(o, k) \in [Kinds -> Nat] /\ With(o, k)["hs"] = 0
  BY <1>2, <1>3, OneMoreOp
<1>5. ops'[s] = With(o, k) /\ port'[s] = p /\ user'[s] = p
  BY <1>1 DEF ServerInv, TypeOK
<1>6. \A q \in Slots \ {s} : ops'[q] = ops[q] /\ port'[q] = port[q] /\ user'[q] = user[q]
  BY <1>1 DEF ServerInv, TypeOK
<1>7. TypeOK'
  <2>1. sock[s] # "none"
    BY <1>1, InHandshake
  <2> QED
    BY <1>1, <1>4, <1>5, <1>6, <2>1 DEF ServerInv, TypeOK
<1>8. RegistryIsSound'
  <2>1. sock[s] # "none" /\ \A t \in Uuids : sessions[t] # s
    BY <1>1, InHandshake
  <2> QED
    BY <1>1, <1>5, <1>6, <2>1 DEF ServerInv, TypeOK, RegistryIsSound, Alive
<1>9. AddressIsHeld' /\ AddressIsKnown'
  <2>1. AddressIsHeld'
    BY <1>1 DEF ServerInv, AddressIsHeld, Alive
  <2>2. AddressIsKnown'
    BY <1>1 DEF ServerInv, AddressIsKnown
  <2> QED
    BY <2>1, <2>2
<1>10. BusyIsAlive' /\ HandshakeIsFirst' /\ OneOperationPerClient'
  <2>1. busy = NoSlot /\ busy' = NoSlot
    BY <1>1, InHandshake
  <2> QED
    BY <1>1, <1>4, <1>5, <1>6, <2>1, OneSessionsStep
<1> QED
  BY <1>7, <1>8, <1>9, <1>10 DEF ServerInv

LEMMA BadPortKeepsServer ==
    ASSUME ServerInv, NEW s \in Slots, NEW q \in Ports \cup {NoPort}, HandshakeBadPort(s, q)
    PROVE  ServerInv'
<1> USE ServerAssumption
<1> DEFINE o == Without(ops[s], "hs")
<1>1. /\ Complete(s, "hs") /\ HandleError(s)
      /\ port' = [port EXCEPT ![s] = q] /\ ops' = [ops EXCEPT ![s] = o]
      /\ UNCHANGED <<ip, user, token, waiting, idle, sessions, tokens, mirrors, connectedIps,
                     running, busy, closing>>
  BY DEF HandshakeBadPort, serverVars, controlVars
<1>2. /\ sock[s] # "none" /\ busy = NoSlot
      /\ \A t \in Uuids : sessions[t] # s
      /\ \A p \in Ports : mirrors[p] # s
      /\ o \in [Kinds -> Nat] /\ o["hs"] = 0
  BY <1>1, InHandshake
<1> HIDE DEF o
<1>3. sock' = [sock EXCEPT ![s] = "closed"]
  BY <1>1 DEF HandleError
<1>4. ops'[s] = o /\ port'[s] = q /\ sock'[s] = "closed"
  BY <1>1, <1>3 DEF ServerInv, TypeOK
<1>5. \A r \in Slots \ {s} : ops'[r] = ops[r] /\ port'[r] = port[r] /\ sock'[r] = sock[r]
  BY <1>1, <1>3 DEF ServerInv, TypeOK
<1>6. TypeOK'
  BY <1>1, <1>2, <1>3, <1>4, <1>5 DEF ServerInv, TypeOK
<1>7. RegistryIsSound'
  BY <1>1, <1>2, <1>5 DEF ServerInv, TypeOK, RegistryIsSound, Alive
<1>8. AddressIsHeld' /\ AddressIsKnown'
  <2>1. AddressIsHeld'
    BY <1>1, <1>4, <1>5 DEF ServerInv, AddressIsHeld, Alive
  <2>2. AddressIsKnown'
    BY <1>1, <1>2, <1>4, <1>5 DEF ServerInv, AddressIsKnown
  <2> QED
    BY <2>1, <2>2
<1>9. BusyIsAlive' /\ HandshakeIsFirst' /\ OneOperationPerClient'
  BY <1>1, <1>2, <1>4, <1>5, OneSessionsStep
<1> QED
  BY <1>6, <1>7, <1>8, <1>9 DEF ServerInv

\* After allowConnection: a refused session's socket is closed and a write on
\* it is on its way; an allowed one has nothing in flight.
LEMMA AfterCheck ==
    ASSUME ServerInv, NEW s \in Slots, Complete(s, "hs")
    PROVE  /\ OpsAfterCheck(s) \in [Kinds -> Nat] /\ OpsAfterCheck(s)["hs"] = 0
           /\ SocketAfterCheck(s) \in {"open", "closed"}
           /\ SocketAfterCheck(s) = "open" => sock[s] = "open" /\ Load(OpsAfterCheck(s)) = 0
<1> DEFINE o == Without(ops[s], "hs")
           k == On(sock[s], "write")
<1>1. /\ o \in [Kinds -> Nat] /\ o["hs"] = 0
      /\ sock[s] # "none" /\ sock[s] \in {"none", "open", "closed"}
      /\ sock[s] = "open" => Load(o) = 0
  BY InHandshake DEF ServerInv, TypeOK
<1>2. k \in Kinds \ {"hs"}
  BY OnKind DEF Kinds
<1> HIDE DEF o, k
<1>3. With(o, k) \in [Kinds -> Nat] /\ With(o, k)["hs"] = 0
  BY <1>1, <1>2, OneMoreOp
<1> QED
  BY <1>1, <1>3 DEF OpsAfterCheck, SocketAfterCheck, o, k

LEMMA OldVersionKeepsServer ==
    ASSUME ServerInv, NEW s \in Slots, HandshakeOldVersion(s)
    PROVE  ServerInv'
<1> USE ServerAssumption
<1> DEFINE o == OpsAfterCheck(s)
<1>1. /\ Complete(s, "hs") /\ HandleError(s)
      /\ connectedIps' = connectedIps \cup {ip[s]}
      /\ ops' = [ops EXCEPT ![s] = o]
      /\ UNCHANGED <<ip, port, user, token, waiting, idle, sessions, tokens, mirrors,
                     running, busy, closing>>
  BY DEF HandshakeOldVersion, AllowConnection, controlVars
<1>2. /\ sock[s] # "none" /\ busy = NoSlot
      /\ o \in [Kinds -> Nat] /\ o["hs"] = 0
  BY <1>1, InHandshake, AfterCheck
<1> HIDE DEF o
<1>3. sock' = [sock EXCEPT ![s] = "closed"]
  BY <1>1 DEF HandleError
<1>4. ops'[s] = o /\ sock'[s] = "closed"
  BY <1>1, <1>3 DEF ServerInv, TypeOK
<1>5. \A r \in Slots \ {s} : ops'[r] = ops[r] /\ sock'[r] = sock[r]
  BY <1>1, <1>3 DEF ServerInv, TypeOK
<1>6. TypeOK'
  BY <1>1, <1>2, <1>3, <1>4, <1>5 DEF ServerInv, TypeOK, AddressIsKnown
<1>7. RegistryIsSound'
  BY <1>1, <1>4, <1>5 DEF ServerInv, RegistryIsSound, Alive
<1>8. AddressIsHeld' /\ AddressIsKnown'
  <2>1. AddressIsHeld'
    BY <1>1, <1>4, <1>5 DEF ServerInv, AddressIsHeld, Alive
  <2>2. AddressIsKnown'
    BY <1>1, <1>2, <1>4, <1>5 DEF ServerInv, AddressIsKnown
  <2> QED
    BY <2>1, <2>2
<1>9. BusyIsAlive' /\ HandshakeIsFirst' /\ OneOperationPerClient'
  BY <1>1, <1>2, <1>4, <1>5, OneSessionsStep
<1> QED
  BY <1>6, <1>7, <1>8, <1>9 DEF ServerInv

\* registerSession: the new token belongs to nobody else, and the session's
\* old entry goes.
LEMMA RegisterKeepsRegistry ==
    ASSUME ServerInv, NEW s \in Slots, NEW t \in Uuids, NEW u \in Users \cup {NoUser},
           sock[s] # "none", RegisterSession(s, t, u),
           user' = IF u = NoUser THEN user ELSE [user EXCEPT ![s] = u],
           UNCHANGED <<port, mirrors>>,
           \A q \in Slots : sock[q] # "none" => sock'[q] # "none"
    PROVE  RegistryIsSound'
<1> USE ServerAssumption
<1>1. /\ \A q \in Slots : token[q] # t
      /\ \A v \in Users : tokens[v] # t
      /\ \A x \in Uuids : sessions'[x] = IF x = t THEN s
                                         ELSE IF sessions[x] = s THEN NoSlot ELSE sessions[x]
      /\ tokens' = IF u = NoUser THEN tokens ELSE [tokens EXCEPT ![u] = t]
      /\ token' = [token EXCEPT ![s] = t]
  BY DEF RegisterSession
<1>2. \A v \in Users : tokens'[v] = IF v = u THEN t ELSE tokens[v]
  BY <1>1 DEF ServerInv, TypeOK
<1>3. \A q \in Slots : /\ token'[q] = IF q = s THEN t ELSE token[q]
                       /\ q # s => user'[q] = user[q]
                       /\ u # NoUser => user'[s] = u
  BY <1>1 DEF ServerInv, TypeOK
<1>4. ASSUME NEW x \in Uuids, sessions'[x] # NoSlot
      PROVE  sessions'[x] \in Slots /\ sock'[sessions'[x]] # "none" /\ token'[sessions'[x]] = x
  BY <1>1, <1>3, <1>4 DEF ServerInv, RegistryIsSound, Alive
<1>5. ASSUME NEW v \in Users, NEW x \in Uuids, tokens'[v] = x, sessions'[x] # NoSlot
      PROVE  user'[sessions'[x]] \in {v, NotFound}
  <2>1. CASE x = t
    <3>1. v = u
      BY <1>1, <1>2, <1>5, <2>1
    <3> QED
      BY <1>1, <1>3, <2>1, <3>1
  <2>2. CASE x # t
    <3>1. tokens[v] = x /\ sessions[x] # s /\ sessions'[x] = sessions[x]
      BY <1>1, <1>2, <1>5, <2>2
    <3>2. sessions[x] \in Slots
      BY <1>5, <3>1 DEF ServerInv, TypeOK
    <3> QED
      BY <1>3, <1>5, <3>1, <3>2 DEF ServerInv, RegistryIsSound
  <2> QED
    BY <2>1, <2>2
<1>6. ASSUME NEW p \in Ports, mirrors'[p] # NoSlot
      PROVE  mirrors'[p] \in Slots /\ sock'[mirrors'[p]] # "none" /\ port'[mirrors'[p]] = p
  BY <1>6 DEF ServerInv, RegistryIsSound, Alive
<1> QED
  BY <1>4, <1>5, <1>6 DEF RegistryIsSound, Alive

LEMMA ClientKeepsServer ==
    ASSUME ServerInv, NEW s \in Slots, NEW t \in Uuids, HandshakeClient(s, t)
    PROVE  ServerInv'
<1> USE ServerAssumption
<1> DEFINE x == SocketAfterCheck(s)
           k == On(x, "write")
           o == OpsAfterCheck(s)
<1>1. /\ Complete(s, "hs") /\ RegisterSession(s, t, user[s])
      /\ connectedIps' = connectedIps \cup {ip[s]}
      /\ sock' = [sock EXCEPT ![s] = x]
      /\ \/ busy' = s /\ ops' = [ops EXCEPT ![s] = o]
         \/ busy' = busy /\ ops' = [ops EXCEPT ![s] = With(o, k)]
      /\ UNCHANGED <<ip, port, user, waiting, idle, mirrors, running, closing>>
  BY DEF HandshakeClient, AllowConnection
<1>2. sock[s] # "none" /\ busy = NoSlot /\ user[s] = NoUser
  BY <1>1, InHandshake
<1>3. /\ o \in [Kinds -> Nat] /\ o["hs"] = 0
      /\ x \in {"open", "closed"} /\ (x = "open" => Load(o) = 0)
  BY <1>1, AfterCheck
<1>4. k \in Kinds \ {"hs"} /\ (x = "open" => k = "write")
  BY OnKind DEF Kinds
<1> HIDE DEF o, k, x
<1>5. With(o, k) \in [Kinds -> Nat] /\ With(o, k)["hs"] = 0 /\ (x = "open" => Load(With(o, k)) = 1)
  BY <1>3, <1>4, OneMoreOp
<1>6. /\ sock'[s] = x /\ ops'[s] \in [Kinds -> Nat] /\ ops'[s]["hs"] = 0
      /\ x = "open" => Load(ops'[s]) = (IF busy' = s THEN 0 ELSE 1)
      /\ busy' \in {NoSlot, s}
  BY <1>1, <1>2, <1>3, <1>5 DEF ServerInv, TypeOK
<1>7. token' = [token EXCEPT ![s] = t] /\ tokens' = tokens
      /\ sessions' = [y \in Uuids |-> IF y = t THEN s ELSE IF sessions[y] = s THEN NoSlot ELSE sessions[y]]
  BY <1>1, <1>2 DEF RegisterSession
<1>8. \A r \in Slots \ {s} : ops'[r] = ops[r] /\ sock'[r] = sock[r] /\ token'[r] = token[r]
  BY <1>1, <1>7 DEF ServerInv, TypeOK
<1>9. TypeOK'
  <2>1. ops' \in [Slots -> [Kinds -> Nat]]
    BY <1>1, <1>3, <1>5 DEF ServerInv, TypeOK
  <2>2. sock' \in [Slots -> {"none", "open", "closed"}]
    BY <1>1, <1>3 DEF ServerInv, TypeOK
  <2> QED
    BY <1>1, <1>2, <1>3, <1>6, <1>7, <1>8, <2>1, <2>2 DEF ServerInv, TypeOK, AddressIsKnown
<1>10. RegistryIsSound'
  BY <1>1, <1>2, <1>3, <1>6, <1>8, RegisterKeepsRegistry
<1>11. AddressIsHeld' /\ AddressIsKnown'
  <2>1. AddressIsHeld'
    BY <1>1, <1>3, <1>6, <1>8 DEF ServerInv, AddressIsHeld, Alive
  <2>2. AddressIsKnown'
    BY <1>1, <1>2, <1>3, <1>6, <1>8 DEF ServerInv, AddressIsKnown
  <2> QED
    BY <2>1, <2>2
<1>12. BusyIsAlive' /\ HandshakeIsFirst' /\ OneOperationPerClient'
  BY <1>1, <1>2, <1>3, <1>6, <1>8, OneSessionsStep
<1> QED
  BY <1>9, <1>10, <1>11, <1>12 DEF ServerInv

LEMMA LoginKeepsServer ==
    ASSUME ServerInv, NEW s \in Slots, NEW u \in Users, NEW t \in Uuids, Login(s, u, t)
    PROVE  ServerInv'
<1> USE ServerAssumption
<1> DEFINE o == With(ops[s], On(sock[s], "write"))
<1>1. /\ Finish(s) /\ RegisterSession(s, t, u)
      /\ ops' = [ops EXCEPT ![s] = o]
      /\ user' = [user EXCEPT ![s] = u] /\ waiting' = waiting \cup {s}
      /\ UNCHANGED <<sock, ip, port, idle, mirrors, connectedIps, running, closing>>
  BY DEF Login, Reply, WithWrite, Finish
<1>2. /\ sock[s] # "none" /\ busy = s /\ busy' = NoSlot
      /\ o \in [Kinds -> Nat] /\ o["hs"] = 0
      /\ sock[s] = "open" => Load(o) = Work(s)
  BY <1>1, ReplyBalances
<1>3. sock[s] = "open" /\ port[s] = NoPort => Load(o) = 1
  <2>1. sock[s] = "open" /\ port[s] = NoPort => Load(ops[s]) = 0
    BY <1>2 DEF ServerInv, OneOperationPerClient, Load
  <2> QED
    BY <1>2, <2>1 DEF Work
<1> HIDE DEF o
<1>4. /\ token' = [token EXCEPT ![s] = t] /\ tokens' = [tokens EXCEPT ![u] = t]
      /\ sessions' = [x \in Uuids |-> IF x = t THEN s
                                      ELSE IF sessions[x] = s THEN NoSlot ELSE sessions[x]]
  BY <1>1 DEF RegisterSession
<1>5. ops'[s] = o
  BY <1>1 DEF ServerInv, TypeOK
<1>6. \A q \in Slots \ {s} : ops'[q] = ops[q] /\ user'[q] = user[q] /\ token'[q] = token[q]
  BY <1>1, <1>4 DEF ServerInv, TypeOK
<1>7. TypeOK'
  <2>1. ops' \in [Slots -> [Kinds -> Nat]]
    BY <1>1, <1>2 DEF ServerInv, TypeOK
  <2> QED
    BY <1>1, <1>2, <1>4, <1>6, <2>1 DEF ServerInv, TypeOK
<1>8. RegistryIsSound'
  BY <1>1, <1>2, RegisterKeepsRegistry
<1>9. AddressIsHeld' /\ AddressIsKnown'
  BY <1>1 DEF ServerInv, AddressIsHeld, AddressIsKnown, Alive
<1>10. BusyIsAlive' /\ HandshakeIsFirst' /\ OneOperationPerClient'
  BY <1>1, <1>2, <1>3, <1>5, <1>6, OneSessionsStep
<1> QED
  BY <1>7, <1>8, <1>9, <1>10 DEF ServerInv

LEMMA LoginHalfDoneKeepsServer ==
    ASSUME ServerInv, NEW s \in Slots, LoginHalfDone(s)
    PROVE  ServerInv'
<1> USE ServerAssumption
<1> DEFINE o == With(ops[s], On(sock[s], "write"))
<1>1. /\ Finish(s) /\ ops' = [ops EXCEPT ![s] = o] /\ user' = [user EXCEPT ![s] = NotFound]
      /\ UNCHANGED <<sock, ip, port, token, waiting, idle, sessions, tokens, mirrors,
                     connectedIps, running, closing>>
  BY DEF LoginHalfDone, Reply, WithWrite, Finish, serverVars
<1>2. /\ sock[s] # "none" /\ busy = s /\ busy' = NoSlot
      /\ o \in [Kinds -> Nat] /\ o["hs"] = 0
      /\ sock[s] = "open" => Load(o) = Work(s)
  BY <1>1, ReplyBalances
<1>3. sock[s] = "open" /\ port[s] = NoPort => Load(o) = 1
  <2>1. sock[s] = "open" /\ port[s] = NoPort => Load(ops[s]) = 0
    BY <1>2 DEF ServerInv, OneOperationPerClient, Load
  <2> QED
    BY <1>2, <2>1 DEF Work
<1> HIDE DEF o
<1>4. ops'[s] = o /\ user'[s] = NotFound
  BY <1>1 DEF ServerInv, TypeOK
<1>5. \A q \in Slots \ {s} : ops'[q] = ops[q] /\ user'[q] = user[q]
  BY <1>1 DEF ServerInv, TypeOK
<1>6. TypeOK'
  BY <1>1, <1>2, <1>4, <1>5 DEF ServerInv, TypeOK
<1>7. RegistryIsSound'
  BY <1>1, <1>4, <1>5 DEF ServerInv, TypeOK, RegistryIsSound, Alive
<1>8. AddressIsHeld' /\ AddressIsKnown'
  BY <1>1 DEF ServerInv, AddressIsHeld, AddressIsKnown, Alive
<1>9. BusyIsAlive' /\ HandshakeIsFirst' /\ OneOperationPerClient'
  BY <1>1, <1>2, <1>3, <1>4, <1>5, OneSessionsStep
<1> QED
  BY <1>6, <1>7, <1>8, <1>9 DEF ServerInv

\* A round of the second loop of the timeout check or of stop().
LEMMA CloseCollectedKeepsServer ==
    ASSUME ServerInv, NEW t \in Uuids, CloseCollected(t)
    PROVE  ServerInv'
<1> USE ServerAssumption
<1> DEFINE c == sessions[t]
<1>1. /\ closing' = closing \ {t} /\ sessions' = [sessions EXCEPT ![t] = NoSlot]
      /\ UNCHANGED <<ip, port, user, token, waiting, idle, ops, tokens, mirrors, connectedIps,
                     running, busy>>
  BY DEF CloseCollected
<1>2. /\ sock' \in [Slots -> {"none", "open", "closed"}]
      /\ \A q \in Slots : /\ sock'[q] = "none" <=> sock[q] = "none"
                          /\ sock'[q] = "open" => sock[q] = "open"
  <2>1. CASE Alive(c)
    <3>1. c \in Slots /\ sock[c] # "none" /\ HandleError(c)
      BY <2>1 DEF CloseCollected, Alive
    <3> HIDE DEF c
    <3> QED
      BY <3>1, ClosedOnly
  <2>2. CASE ~ Alive(c)
    BY <2>2 DEF CloseCollected, ServerInv, TypeOK
  <2> QED
    BY <2>1, <2>2
<1>3. TypeOK'
  BY <1>1, <1>2 DEF ServerInv, TypeOK
<1>4. RegistryIsSound'
  <2>1. \A x \in Uuids : sessions'[x] = IF x = t THEN NoSlot ELSE sessions[x]
    BY <1>1 DEF ServerInv, TypeOK
  <2> QED
    BY <1>1, <1>2, <2>1 DEF ServerInv, RegistryIsSound, Alive
<1>5. AddressIsHeld' /\ AddressIsKnown'
  <2>1. AddressIsHeld'
    BY <1>1, <1>2 DEF ServerInv, AddressIsHeld, Alive
  <2>2. AddressIsKnown'
    BY <1>1, <1>2 DEF ServerInv, AddressIsKnown
  <2> QED
    BY <2>1, <2>2
<1>6. BusyIsAlive' /\ HandshakeIsFirst' /\ OneOperationPerClient'
  <2>1. BusyIsAlive'
    BY <1>1, <1>2 DEF ServerInv, TypeOK, BusyIsAlive
  <2>2. HandshakeIsFirst'
    BY <1>1 DEF ServerInv, HandshakeIsFirst
  <2>3. OneOperationPerClient'
    BY <1>1, <1>2 DEF ServerInv, OneOperationPerClient
  <2> QED
    BY <2>1, <2>2, <2>3
<1> QED
  BY <1>3, <1>4, <1>5, <1>6 DEF ServerInv

\* ~Session takes the session's own entries out, and whoever else comes from
\* its address holds no entry that goes with it.
LEMMA DestroyKeepsServer ==
    ASSUME ServerInv, NEW s \in Slots, Destroy(s)
    PROVE  ServerInv'
<1> USE ServerAssumption
<1>1. /\ sock[s] # "none" /\ ops[s] = NoOps /\ busy = NoSlot
      /\ mirrors' = [q \in Ports |-> IF q = port[s] THEN NoSlot ELSE mirrors[q]]
      /\ sessions' = [x \in Uuids |-> IF x = token[s] THEN NoSlot ELSE sessions[x]]
      /\ tokens' = [v \in Users |-> IF v = user[s] /\ token[s] # NoToken
                                    THEN NoToken ELSE tokens[v]]
      /\ connectedIps' = connectedIps \ {ip[s]}
      /\ sock' = [sock EXCEPT ![s] = "none"] /\ ip' = [ip EXCEPT ![s] = NoIp]
      /\ port' = [port EXCEPT ![s] = NoPort] /\ user' = [user EXCEPT ![s] = NoUser]
      /\ token' = [token EXCEPT ![s] = NoToken]
      /\ waiting' = waiting \ {s} /\ idle' = idle \ {s}
      /\ UNCHANGED <<ops, running, busy, closing>>
  BY DEF Destroy, Dead, Alive, RemoveMirrorSession, RemoveSession, RemoveConnection, controlVars
<1>2. sock'[s] = "none" /\ ip'[s] = NoIp /\ port'[s] = NoPort /\ user'[s] = NoUser
      /\ token'[s] = NoToken
  BY <1>1 DEF ServerInv, TypeOK
<1>3. \A q \in Slots \ {s} : /\ sock'[q] = sock[q] /\ ip'[q] = ip[q] /\ port'[q] = port[q]
                             /\ user'[q] = user[q] /\ token'[q] = token[q]
  BY <1>1 DEF ServerInv, TypeOK
<1>4. TypeOK'
  BY <1>1, <1>2, <1>3 DEF ServerInv, TypeOK
<1>5. RegistryIsSound'
  <2>1. ASSUME NEW x \in Uuids, sessions'[x] # NoSlot
        PROVE  sessions'[x] = sessions[x] /\ sessions[x] \in Slots \ {s}
    BY <1>1, <2>1 DEF ServerInv, RegistryIsSound, Alive
  <2>2. ASSUME NEW p \in Ports, mirrors'[p] # NoSlot
        PROVE  mirrors'[p] = mirrors[p] /\ mirrors[p] \in Slots \ {s}
    BY <1>1, <2>2 DEF ServerInv, RegistryIsSound, Alive
  <2>3. \A v \in Users, x \in Uuids : tokens'[v] = x => tokens[v] = x
    BY <1>1
  <2> QED
    BY <1>3, <2>1, <2>2, <2>3 DEF ServerInv, RegistryIsSound, Alive
<1>6. AddressIsHeld' /\ AddressIsKnown'
  <2>1. AddressIsHeld'
    BY <1>1, <1>3 DEF ServerInv, AddressIsHeld, Alive
  <2>2. AddressIsKnown'
    BY <1>2, <1>3 DEF ServerInv, AddressIsKnown
  <2> QED
    BY <2>1, <2>2
<1>7. BusyIsAlive' /\ HandshakeIsFirst' /\ OneOperationPerClient'
  <2>1. ops'[s]["hs"] = 0
    BY <1>1, NoOpsType
  <2> QED
    BY <1>1, <1>2, <1>3, <2>1, OneSessionsStep
<1> QED
  BY <1>4, <1>5, <1>6, <1>7 DEF ServerInv

\* What the process starts with, once more after a restart.
EmptyMemory ==
    /\ sock = [s \in Slots |-> "none"] /\ ip = [s \in Slots |-> NoIp]
    /\ port = [s \in Slots |-> NoPort] /\ user = [s \in Slots |-> NoUser]
    /\ token = [s \in Slots |-> NoToken] /\ ops = [s \in Slots |-> NoOps]
    /\ waiting = {} /\ idle = {}
    /\ sessions = [t \in Uuids |-> NoSlot] /\ tokens = [u \in Users |-> NoToken]
    /\ mirrors = [p \in Ports |-> NoSlot] /\ connectedIps = {}
    /\ running = TRUE /\ busy = NoSlot /\ closing = {}

LEMMA EmptyMemoryIsSound == EmptyMemory => ServerInv
<1> SUFFICES ASSUME EmptyMemory PROVE ServerInv
  OBVIOUS
<1> USE ServerAssumption DEF EmptyMemory
<1>1. TypeOK
  BY NoOpsType DEF TypeOK
<1>2. HandshakeIsFirst
  BY NoOpsType DEF HandshakeIsFirst
<1>3. BusyIsAlive /\ RegistryIsSound /\ AddressIsHeld /\ AddressIsKnown /\ OneOperationPerClient
  BY DEF BusyIsAlive, RegistryIsSound, AddressIsHeld, AddressIsKnown, OneOperationPerClient
<1> QED
  BY <1>1, <1>2, <1>3 DEF ServerInv
-----------------------------------------------------------------------------
LEMMA NextKeepsServer == ASSUME ServerInv, [Next]_vars PROVE ServerInv'
<1>1. ASSUME NEW s \in Slots, Handshake(s) PROVE ServerInv'
  BY <1>1, AcceptKeepsServer, MirrorKeepsServer, BadPortKeepsServer, OldVersionKeepsServer,
     ClientKeepsServer DEF Handshake
<1>2. ASSUME NEW s \in Slots, Request(s) PROVE ServerInv'
  BY <1>2, RequestsAreCalm, CalmKeepsServer, LoginKeepsServer, LoginHalfDoneKeepsServer
     DEF Request
<1>3. ASSUME NEW s \in Slots, NEW k \in Kinds, Completion(s, k) PROVE ServerInv'
  BY <1>3, OpFailsIsCalm, WriteDoneIsCalm, BroadcastDoneIsCalm, ReadDoneIsCalm,
     CalmKeepsServer DEF Completion
<1>4. ASSUME NEW s \in Slots, Destroy(s) \/ GoIdle(s) PROVE ServerInv'
  BY <1>4, DestroyKeepsServer, TimersAreCalm, CalmKeepsServer
<1>5. CASE Restart
  <2>1. EmptyMemory'
    BY <1>5 DEF Restart, EmptyMemory
  <2> QED
    BY <2>1, EmptyMemoryIsSound, PTL
<1>6. CASE Process /\ ~ Restart
  BY <1>6, TimersAreCalm, CalmKeepsServer, CloseCollectedKeepsServer DEF Process
<1>7. CASE UNCHANGED vars
  BY <1>7 DEF vars, sessionVars, serverVars, controlVars, ServerInv, TypeOK, BusyIsAlive,
     HandshakeIsFirst, RegistryIsSound, AddressIsHeld, AddressIsKnown,
     OneOperationPerClient, Alive
<1> QED
  BY <1>1, <1>2, <1>3, <1>4, <1>5, <1>6, <1>7 DEF Next, Process

LEMMA ServerIsSound == Spec => []ServerInv
<1>1. Init => ServerInv
  BY EmptyMemoryIsSound DEF Init, EmptyMemory
<1>2. ServerInv /\ [Next]_vars => ServerInv'
  BY NextKeepsServer
<1> QED
  BY <1>1, <1>2, PTL DEF Spec

\* Every variable has its type, and ~Session leaves nothing in the slot that a
\* later session would inherit.
THEOREM ServerTypeOK == Spec => []TypeOK
<1>1. ServerInv => TypeOK
  BY DEF ServerInv
<1> QED
  BY <1>1, ServerIsSound, PTL

\* sessions_ and mirror_sessions_ lead to live sessions that have the token or
\* the port of their entry, and tokens_ to the session of the user.
THEOREM ServerRegistryIsSound == Spec => []RegistryIsSound
<1>1. ServerInv => RegistryIsSound
  BY DEF ServerInv
<1> QED
  BY <1>1, ServerIsSound, PTL

\* connected_ips_ keeps no address of sessions that are all gone.
THEOREM ServerAddressIsHeld == Spec => []AddressIsHeld
<1>1. ServerInv => AddressIsHeld
  BY DEF ServerInv
<1> QED
  BY <1>1, ServerIsSound, PTL

\* An open client session has exactly one operation in flight, or its request
\* is being processed, in any number of sessions.
THEOREM ServerOneOperationPerClient == Spec => []OneOperationPerClient
<1>1. ServerInv => OneOperationPerClient
  BY DEF ServerInv
<1> QED
  BY <1>1, ServerIsSound, PTL
-----------------------------------------------------------------------------
(***************************************************************************)
(* The timeout check and stop() find every session they have to close.     *)
(***************************************************************************)

\* A token belongs to one session: who is gone or closed takes nobody else's
\* entry along.
TokensAreDistinct ==
    \A s, q \in Slots : token[s] # NoToken /\ token[s] = token[q] => s = q

\* An open session that has a token is in sessions_ under it.
OpenSessionIsRegistered ==
    \A s \in Slots : sock[s] = "open" /\ token[s] # NoToken => sessions[token[s]] = s

RegisteredInv == TokensAreDistinct /\ OpenSessionIsRegistered

\* Steps that open no socket and change neither tokens nor sessions_.
LEMMA StayRegistered ==
    ASSUME ServerInv, RegisteredInv, UNCHANGED <<token, sessions>>,
           \A s \in Slots : sock'[s] = "open" => sock[s] = "open" \/ token[s] = NoToken
    PROVE  RegisteredInv'
BY DEF RegisteredInv, TokensAreDistinct, OpenSessionIsRegistered

\* registerSession, by a session whose socket may close.
LEMMA RegisteringRegisters ==
    ASSUME ServerInv, RegisteredInv, NEW s \in Slots, NEW t \in Uuids,
           NEW u \in Users \cup {NoUser}, RegisterSession(s, t, u),
           \A q \in Slots : sock'[q] = "open" => sock[q] = "open"
    PROVE  RegisteredInv'
<1> USE ServerAssumption
<1>1. /\ \A q \in Slots : token[q] # t
      /\ \A x \in Uuids : sessions'[x] = IF x = t THEN s
                                         ELSE IF sessions[x] = s THEN NoSlot ELSE sessions[x]
      /\ \A q \in Slots : token'[q] = IF q = s THEN t ELSE token[q]
  BY DEF RegisterSession, ServerInv, TypeOK
<1>2. TokensAreDistinct'
  BY <1>1 DEF RegisteredInv, TokensAreDistinct
<1>3. ASSUME NEW q \in Slots, sock'[q] = "open", token'[q] # NoToken
      PROVE  sessions'[token'[q]] = q
  <2>1. CASE q = s
    BY <1>1, <2>1
  <2>2. CASE q # s
    <3>1. token'[q] = token[q] /\ token[q] \in Uuids /\ token[q] # t
      BY <1>1, <1>3, <2>2 DEF ServerInv, TypeOK
    <3>2. sessions[token[q]] = q
      BY <1>3, <3>1 DEF RegisteredInv, OpenSessionIsRegistered
    <3> QED
      BY <1>1, <2>2, <3>1, <3>2
  <2> QED
    BY <2>1, <2>2
<1> QED
  BY <1>2, <1>3 DEF RegisteredInv, OpenSessionIsRegistered

LEMMA HandshakeKeepsRegistered ==
    ASSUME ServerInv, RegisteredInv, NEW s \in Slots, Handshake(s) PROVE RegisteredInv'
<1> USE ServerAssumption
<1>1. ASSUME NEW i \in IPs, Accept(s, i) PROVE RegisteredInv'
  <2>1. UNCHANGED <<token, sessions>> /\ sock[s] = "none" /\ token[s] = NoToken
        /\ sock' = [sock EXCEPT ![s] = "open"]
    BY <1>1 DEF Accept, serverVars, ServerInv, TypeOK
  <2> QED
    BY <2>1, StayRegistered DEF ServerInv, TypeOK
<1>2. ASSUME NEW p \in Ports, HandshakeMirror(s, p) PROVE RegisteredInv'
  BY <1>2, StayRegistered DEF HandshakeMirror
<1>3. ASSUME NEW q \in Ports \cup {NoPort}, HandshakeBadPort(s, q) PROVE RegisteredInv'
  <2>1. UNCHANGED <<token, sessions>> /\ HandleError(s) /\ sock[s] # "none"
    BY <1>3, InHandshake DEF HandshakeBadPort, serverVars
  <2> QED
    BY <2>1, ClosedOnly, StayRegistered
<1>4. ASSUME HandshakeOldVersion(s) PROVE RegisteredInv'
  <2>1. UNCHANGED <<token, sessions>> /\ HandleError(s) /\ sock[s] # "none"
    BY <1>4, InHandshake DEF HandshakeOldVersion
  <2> QED
    BY <2>1, ClosedOnly, StayRegistered
<1>5. ASSUME NEW t \in Uuids, HandshakeClient(s, t) PROVE RegisteredInv'
  <2>1. /\ RegisterSession(s, t, NoUser)
        /\ sock' = [sock EXCEPT ![s] = SocketAfterCheck(s)]
    BY <1>5, InHandshake DEF HandshakeClient
  <2>2. SocketAfterCheck(s) \in {sock[s], "closed"}
    BY DEF SocketAfterCheck
  <2>3. \A q \in Slots : sock'[q] = "open" => sock[q] = "open"
    BY <2>1, <2>2 DEF ServerInv, TypeOK
  <2> QED
    BY <2>1, <2>3, RegisteringRegisters
<1> QED
  BY <1>1, <1>2, <1>3, <1>4, <1>5 DEF Handshake

\* ~Session takes out the entry of its own token, which is no other session's.
LEMMA DestroyKeepsRegistered ==
    ASSUME ServerInv, RegisteredInv, NEW s \in Slots, Destroy(s) PROVE RegisteredInv'
<1> USE ServerAssumption
<1>1. /\ \A x \in Uuids : sessions'[x] = IF x = token[s] THEN NoSlot ELSE sessions[x]
      /\ \A q \in Slots : /\ token'[q] = IF q = s THEN NoToken ELSE token[q]
                          /\ sock'[q] = IF q = s THEN "none" ELSE sock[q]
  BY DEF Destroy, RemoveSession, ServerInv, TypeOK
<1>2. TokensAreDistinct'
  BY <1>1 DEF RegisteredInv, TokensAreDistinct
<1>3. ASSUME NEW q \in Slots, sock'[q] = "open", token'[q] # NoToken
      PROVE  sessions'[token'[q]] = q
  <2>1. q # s /\ token'[q] = token[q] /\ sock[q] = "open" /\ token[q] \in Uuids
    BY <1>1, <1>3 DEF ServerInv, TypeOK
  <2>2. token[q] # token[s] /\ sessions[token[q]] = q
    BY <1>3, <2>1 DEF RegisteredInv, TokensAreDistinct, OpenSessionIsRegistered
  <2> QED
    BY <1>1, <2>1, <2>2
<1> QED
  BY <1>2, <1>3 DEF RegisteredInv, OpenSessionIsRegistered

\* An entry goes without its session only as the session is closed.
LEMMA CloseCollectedKeepsRegistered ==
    ASSUME ServerInv, RegisteredInv, NEW t \in Uuids, CloseCollected(t) PROVE RegisteredInv'
<1> USE ServerAssumption
<1>1. /\ UNCHANGED token
      /\ \A x \in Uuids : sessions'[x] = IF x = t THEN NoSlot ELSE sessions[x]
  BY DEF CloseCollected, ServerInv, TypeOK
<1>2. \A q \in Slots : sock'[q] = "open" => sock[q] = "open" /\ sessions[t] # q
  <2>1. CASE Alive(sessions[t])
    <3>1. sessions[t] \in Slots /\ sock[sessions[t]] # "none" /\ HandleError(sessions[t])
      BY <2>1 DEF CloseCollected, Alive
    <3> QED
      BY <3>1, ClosedOnly
  <2>2. CASE ~ Alive(sessions[t])
    BY <2>2 DEF CloseCollected, Alive
  <2> QED
    BY <2>1, <2>2
<1>3. TokensAreDistinct'
  BY <1>1 DEF RegisteredInv, TokensAreDistinct
<1>4. ASSUME NEW q \in Slots, sock'[q] = "open", token'[q] # NoToken
      PROVE  sessions'[token'[q]] = q
  <2>1. token[q] \in Uuids /\ token'[q] = token[q] /\ sessions[token[q]] = q
    BY <1>1, <1>2, <1>4 DEF ServerInv, TypeOK, RegisteredInv, OpenSessionIsRegistered
  <2>2. token[q] # t
    BY <1>2, <1>4, <2>1
  <2> QED
    BY <1>1, <2>1, <2>2
<1> QED
  BY <1>3, <1>4 DEF RegisteredInv, OpenSessionIsRegistered

LEMMA CalmKeepsRegistered ==
    ASSUME ServerInv, RegisteredInv, Calm PROVE RegisteredInv'
BY StayRegistered DEF Calm

LEMMA NextKeepsRegistered ==
    ASSUME ServerInv, RegisteredInv, [Next]_vars PROVE RegisteredInv'
<1>1. ASSUME NEW s \in Slots, Request(s) PROVE RegisteredInv'
  <2>1. ASSUME NEW u \in Users, NEW t \in Uuids, Login(s, u, t) PROVE RegisteredInv'
    <3>1. RegisterSession(s, t, u) /\ sock' = sock
      BY <2>1 DEF Login
    <3> QED
      BY <3>1, RegisteringRegisters
  <2>2. ASSUME LoginHalfDone(s) PROVE RegisteredInv'
    BY <2>2, StayRegistered DEF LoginHalfDone, serverVars
  <2> QED
    BY <1>1, <2>1, <2>2, RequestsAreCalm, CalmKeepsRegistered DEF Request
<1>2. ASSUME NEW s \in Slots, NEW k \in Kinds, Completion(s, k) PROVE RegisteredInv'
  BY <1>2, OpFailsIsCalm, WriteDoneIsCalm, BroadcastDoneIsCalm, ReadDoneIsCalm,
     CalmKeepsRegistered DEF Completion
<1>3. ASSUME NEW s \in Slots, Destroy(s) \/ GoIdle(s) PROVE RegisteredInv'
  BY <1>3, DestroyKeepsRegistered, TimersAreCalm, CalmKeepsRegistered
<1>4. CASE Restart
  BY <1>4 DEF Restart, RegisteredInv, TokensAreDistinct, OpenSessionIsRegistered
<1>5. CASE Process /\ ~ Restart
  BY <1>5, TimersAreCalm, CalmKeepsRegistered, CloseCollectedKeepsRegistered DEF Process
<1>6. CASE UNCHANGED vars
  BY <1>6, StayRegistered DEF vars, sessionVars, serverVars
<1> QED
  BY <1>1, <1>2, <1>3, <1>4, <1>5, <1>6, HandshakeKeepsRegistered DEF Next

LEMMA SessionsStayRegistered == Spec => [](ServerInv /\ RegisteredInv)
<1>1. Init => RegisteredInv
  BY DEF Init, RegisteredInv, TokensAreDistinct, OpenSessionIsRegistered
<1>2. ServerInv /\ RegisteredInv /\ [Next]_vars => RegisteredInv'
  BY NextKeepsRegistered
<1> QED
  BY <1>1, <1>2, ServerIsSound, PTL DEF Spec

\* Every open session of a client that has shaken hands is in sessions_, where
\* the timeout check and stop() look for it, whichever sessions were closed,
\* logged in anew or destroyed before.
THEOREM ServerOpenSessionIsRegistered == Spec => []OpenSessionIsRegistered
<1>1. RegisteredInv => OpenSessionIsRegistered
  BY DEF RegisteredInv
<1> QED
  BY <1>1, SessionsStayRegistered, PTL

\* One round of check_inactive_sessions collects every open session without a
\* ping, and stop() every open session, that has shaken hands as a client.
ChecksFindSessions ==
    [][\A s \in Slots : sock[s] = "open" /\ token[s] # NoToken =>
          /\ CheckInactive /\ s \in idle => token[s] \in closing'
          /\ Stop => token[s] \in closing']_vars

THEOREM ServerChecksFindSessions == Spec => ChecksFindSessions
<1>1. ServerInv /\ RegisteredInv /\ [Next]_vars
      => [\A s \in Slots : sock[s] = "open" /\ token[s] # NoToken =>
            /\ CheckInactive /\ s \in idle => token[s] \in closing'
            /\ Stop => token[s] \in closing']_vars
  <2> SUFFICES ASSUME ServerInv, RegisteredInv, NEW s \in Slots,
                      sock[s] = "open", token[s] # NoToken
               PROVE  /\ CheckInactive /\ s \in idle => token[s] \in closing'
                      /\ Stop => token[s] \in closing'
    OBVIOUS
  <2>1. token[s] \in Uuids /\ sessions[token[s]] = s /\ s # NoSlot
    BY ServerAssumption DEF ServerInv, TypeOK, RegisteredInv, OpenSessionIsRegistered
  <2> QED
    BY <2>1 DEF CheckInactive, Stop, Registered
<1> QED
  BY <1>1, SessionsStayRegistered, PTL DEF Spec, ChecksFindSessions
-----------------------------------------------------------------------------
(***************************************************************************)
(* What holds of clients that log in once per session (Relogin = FALSE),   *)
(* of a database that does not fail and of a process that does not end.    *)
(***************************************************************************)

LEMMA QuietKeepsLocked == ASSUME LockedUserIsOnline, Quiet PROVE LockedUserIsOnline'
BY DEF LockedUserIsOnline, Quiet

LEMMA NextKeepsLocked ==
    ASSUME ServerInv, LockedUserIsOnline, Relogin = FALSE, [Next]_vars
    PROVE  LockedUserIsOnline'
<1> USE ServerAssumption
<1>1. ASSUME NEW s \in Slots, Handshake(s) PROVE LockedUserIsOnline'
  <2>1. ASSUME NEW p \in Ports, HandshakeMirror(s, p) PROVE LockedUserIsOnline'
    <3>1. user' = [user EXCEPT ![s] = p] /\ UNCHANGED <<token, tokens>> /\ user[s] = NoUser
      BY <2>1, InHandshake DEF HandshakeMirror
    <3> QED
      BY <3>1 DEF ServerInv, TypeOK, LockedUserIsOnline
  <2>2. ASSUME NEW t \in Uuids, HandshakeClient(s, t) PROVE LockedUserIsOnline'
    <3>1. user' = user /\ tokens' = tokens /\ token' = [token EXCEPT ![s] = t] /\ user[s] = NoUser
      BY <2>2, InHandshake DEF HandshakeClient, RegisterSession
    <3> QED
      BY <3>1 DEF ServerInv, TypeOK, LockedUserIsOnline
  <2> QED
    BY <1>1, <2>1, <2>2, CompletionsAreQuiet, QuietKeepsLocked DEF Handshake
<1>2. ASSUME NEW s \in Slots, Request(s) PROVE LockedUserIsOnline'
  <2>1. ASSUME NEW u \in Users, NEW t \in Uuids, Login(s, u, t) PROVE LockedUserIsOnline'
    <3>1. /\ user[s] \in {NoUser, NotFound} /\ user' = [user EXCEPT ![s] = u]
          /\ tokens' = [tokens EXCEPT ![u] = t] /\ token' = [token EXCEPT ![s] = t]
      BY <2>1 DEF Login, RegisterSession
    <3> QED
      BY <3>1 DEF ServerInv, TypeOK, LockedUserIsOnline
  <2>2. ASSUME LoginHalfDone(s) PROVE LockedUserIsOnline'
    <3>1. /\ user[s] \in {NoUser, NotFound} /\ user' = [user EXCEPT ![s] = NotFound]
          /\ UNCHANGED <<token, tokens>>
      BY <2>2 DEF LoginHalfDone, serverVars
    <3> QED
      BY <3>1 DEF ServerInv, TypeOK, LockedUserIsOnline
  <2> QED
    BY <1>2, <2>1, <2>2, RequestsAreQuiet, QuietKeepsLocked DEF Request
<1>3. ASSUME NEW s \in Slots, Destroy(s) PROVE LockedUserIsOnline'
  <2>1. /\ user' = [user EXCEPT ![s] = NoUser] /\ token' = [token EXCEPT ![s] = NoToken]
        /\ tokens' = [v \in Users |-> IF v = user[s] /\ token[s] # NoToken
                                      THEN NoToken ELSE tokens[v]]
    BY <1>3 DEF Destroy, RemoveSession
  <2> QED
    BY <2>1 DEF ServerInv, TypeOK, LockedUserIsOnline
<1>4. ASSUME NEW s \in Slots, NEW k \in Kinds, Completion(s, k)
      PROVE  LockedUserIsOnline'
  BY <1>4, CompletionsAreQuiet, QuietKeepsLocked
<1>5. CASE Process
  <2>1. Restart => LockedUserIsOnline'
    BY DEF Restart, LockedUserIsOnline
  <2> QED
    BY <1>5, <2>1, ProcessIsQuiet, QuietKeepsLocked DEF Process
<1>6. CASE UNCHANGED vars
  BY <1>6, QuietKeepsLocked DEF vars, sessionVars, serverVars, Quiet
<1>7. ASSUME NEW s \in Slots, GoIdle(s) PROVE LockedUserIsOnline'
  BY <1>7, CompletionsAreQuiet, QuietKeepsLocked
<1> QED
  BY <1>1, <1>2, <1>3, <1>4, <1>5, <1>6, <1>7 DEF Next

\* checkAlreadyLogin refuses a user only while a session is logged in as that
\* user.
THEOREM ServerLockedUserIsOnline ==
    ASSUME Relogin = FALSE
    PROVE  Spec => []LockedUserIsOnline
<1>1. Init => LockedUserIsOnline
  BY DEF Init, LockedUserIsOnline
<1>2. ServerInv /\ LockedUserIsOnline /\ [Next]_vars => LockedUserIsOnline'
  BY NextKeepsLocked
<1> QED
  BY <1>1, <1>2, ServerIsSound, PTL DEF Spec

\* A session that will still run a handler: handle_error or a later request.
Holds(s) == busy = s \/ \E k \in Kinds \ {"bcast"} : ops[s][k] > 0

MembersAreUsers == members \in [Rooms -> SUBSET Users]
MemberInv == MembersAreUsers /\ MemberWillBeRemoved

\* The session of whoever enters a room will run a handler.
LEMMA EnteringKeepsMembers ==
    ASSUME MemberInv, NEW s \in Slots, UNCHANGED user, Holds(s)',
           \A q \in Slots \ {s} : Holds(q) => Holds(q)',
           members' \in [Rooms -> SUBSET Users],
           \A r \in Rooms : members'[r] \subseteq members[r] \cup {user[s]}
    PROVE  MemberInv'
<1>1. ASSUME NEW r \in Rooms, NEW u \in members'[r]
      PROVE  \E q \in Slots : user'[q] = u /\ Holds(q)'
  <2>1. CASE u = user[s]
    BY <2>1
  <2>2. CASE u # user[s]
    <3>1. PICK q \in Slots : user[q] = u /\ Holds(q)
      BY <2>2 DEF MemberInv, MemberWillBeRemoved, Holds
    <3> QED
      BY <3>1, <2>2
  <2> QED
    BY <2>1, <2>2
<1> QED
  BY <1>1 DEF MemberInv, MembersAreUsers, MemberWillBeRemoved, Holds

\* A session whose user is nobody, or in no room any more, may stop.
LEMMA StoppingKeepsMembers ==
    ASSUME MemberInv, NEW s \in Slots,
           \A q \in Slots \ {s} : user'[q] = user[q] /\ (Holds(q) => Holds(q)'),
           members' \in [Rooms -> SUBSET Users],
           \A r \in Rooms : members'[r] \subseteq members[r],
           \A r \in Rooms : user[s] \notin members'[r]
    PROVE  MemberInv'
<1>1. ASSUME NEW r \in Rooms, NEW u \in members'[r]
      PROVE  \E q \in Slots : user'[q] = u /\ Holds(q)'
  <2>1. PICK q \in Slots : user[q] = u /\ Holds(q)
    BY DEF MemberInv, MemberWillBeRemoved, Holds
  <2> QED
    BY <2>1
<1> QED
  BY <1>1 DEF MemberInv, MembersAreUsers, MemberWillBeRemoved, Holds

\* handle_error's exitRoom leaves the user in no room.
LEMMA ExitRoomLeaves ==
    ASSUME MembersAreUsers, DbMayFail = FALSE, NEW u, ExitRoom(u)
    PROVE  /\ members' \in [Rooms -> SUBSET Users]
           /\ \A r \in Rooms : members'[r] \subseteq members[r] /\ u \notin members'[r]
<1>1. CASE \E r \in Rooms : u \in Users /\ Store!RemovePlayer(u, r)
  BY <1>1 DEF Store!RemovePlayer, MembersAreUsers
<1>2. CASE (u \notin Users \/ Store!RoomsOf(u) = {}) /\ UNCHANGED storeVars
  BY <1>2 DEF Store!RoomsOf, MembersAreUsers, storeVars
<1> QED
  BY <1>1, <1>2 DEF ExitRoom

\* An operation that is begun, other than a broadcast, is one to come.
LEMMA BegunHolds ==
    ASSUME NEW o \in [Kinds -> Nat], NEW x, NEW k \in {"read", "write"}
    PROVE  /\ \E j \in Kinds \ {"bcast"} : With(o, On(x, k))[j] > 0
           /\ \A j \in Kinds : With(o, On(x, k))[j] >= o[j]
<1>1. On(x, k) \in Kinds \ {"hs", "bcast"}
  BY DEF On, Kinds
<1>2. With(o, On(x, k))[On(x, k)] > 0
  BY <1>1 DEF With
<1>3. \A j \in Kinds : With(o, On(x, k))[j] >= o[j]
  BY <1>1 DEF With
<1> QED
  BY <1>1, <1>2, <1>3

LEMMA CompletionKeepsMembers ==
    ASSUME ServerInv, MemberInv, DbMayFail = FALSE, NEW s \in Slots, NEW k \in Kinds,
           Completion(s, k)
    PROVE  MemberInv'
<1> USE ServerAssumption
<1>1. CASE OpFails(s, k)
  <2>1. /\ UNCHANGED <<user, busy>> /\ ExitRoom(user[s])
        /\ ops' = [ops EXCEPT ![s] = Without(@, k)]
    BY <1>1 DEF OpFails, HandleError, controlVars
  <2>2. \A q \in Slots \ {s} : user'[q] = user[q] /\ (Holds(q) => Holds(q)')
    BY <2>1 DEF ServerInv, TypeOK, Holds
  <2> QED
    BY <2>1, <2>2, ExitRoomLeaves, StoppingKeepsMembers DEF MemberInv
<1>2. CASE k = "write" /\ WriteDone(s)
  <2>1. /\ UNCHANGED <<user, busy, members>> /\ Complete(s, "write")
        /\ ops' = [ops EXCEPT ![s] = With(Without(ops[s], "write"), On(sock[s], "read"))]
    BY <1>2 DEF WriteDone, storeVars, controlVars
  <2>2. Without(ops[s], "write") \in [Kinds -> Nat]
    BY <2>1, SessionExists, OneOpLess DEF Complete, Kinds
  <2>3. ops'[s] = With(Without(ops[s], "write"), On(sock[s], "read"))
    BY <2>1 DEF ServerInv, TypeOK
  <2>4. Holds(s)'
    BY <2>2, <2>3, BegunHolds DEF Holds
  <2>5. \A q \in Slots \ {s} : Holds(q) => Holds(q)'
    BY <2>1 DEF ServerInv, TypeOK, Holds
  <2> QED
    BY <2>1, <2>4, <2>5, EnteringKeepsMembers DEF MemberInv, MembersAreUsers
<1>3. CASE k = "bcast" /\ BroadcastDone(s)
  <2>1. /\ UNCHANGED <<user, busy, members>>
        /\ ops' = [ops EXCEPT ![s] = Without(@, "bcast")]
    BY <1>3 DEF BroadcastDone, storeVars, controlVars
  <2>2. \A q \in Slots : Holds(q) => Holds(q)'
    BY <2>1 DEF ServerInv, TypeOK, Holds, Without
  <2> QED
    BY <2>1, <2>2 DEF MemberInv, MembersAreUsers, MemberWillBeRemoved, Holds
<1>4. CASE k = "read" /\ ReadDone(s)
  <2>1. /\ UNCHANGED <<user, members>> /\ busy = NoSlot /\ busy' = s
        /\ ops' = [ops EXCEPT ![s] = Without(@, "read")]
    BY <1>4, SessionExists DEF ReadDone, storeVars, Kinds
  <2>2. Holds(s)' /\ \A q \in Slots \ {s} : Holds(q) => Holds(q)'
    BY <2>1 DEF ServerInv, TypeOK, Holds
  <2> QED
    BY <2>1, <2>2, EnteringKeepsMembers DEF MemberInv, MembersAreUsers
<1> QED
  BY <1>1, <1>2, <1>3, <1>4 DEF Completion

LEMMA HandshakeKeepsMembers ==
    ASSUME ServerInv, MemberInv, DbMayFail = FALSE, NEW s \in Slots, Handshake(s)
    PROVE  MemberInv'
<1> USE ServerAssumption
<1>1. user[s] = NoUser
  <2>1. \A i \in IPs : Accept(s, i) => user[s] = NoUser
    BY DEF Accept, ServerInv, TypeOK
  <2>2. Complete(s, "hs") => user[s] = NoUser
    BY InHandshake
  <2> QED
    BY <2>1, <2>2 DEF Handshake, HandshakeMirror, HandshakeBadPort, HandshakeOldVersion,
       HandshakeClient
<1>2. /\ \A q \in Slots \ {s} : user'[q] = user[q] /\ ops'[q] = ops[q]
      /\ busy' = busy \/ busy = NoSlot
      /\ UNCHANGED members \/ ExitRoom(user[s])
  <2>1. ASSUME NEW i \in IPs, Accept(s, i) PROVE <1>2
    BY <2>1 DEF Accept, ServerInv, TypeOK, controlVars, storeVars
  <2>2. ASSUME NEW p \in Ports, HandshakeMirror(s, p) PROVE <1>2
    BY <2>2 DEF HandshakeMirror, ServerInv, TypeOK, controlVars, storeVars
  <2>3. ASSUME NEW q \in Ports \cup {NoPort}, HandshakeBadPort(s, q) PROVE <1>2
    BY <2>3 DEF HandshakeBadPort, HandleError, ServerInv, TypeOK, controlVars
  <2>4. CASE HandshakeOldVersion(s)
    BY <2>4 DEF HandshakeOldVersion, HandleError, ServerInv, TypeOK, controlVars
  <2>5. ASSUME NEW t \in Uuids, HandshakeClient(s, t) PROVE <1>2
    <3>1. busy = NoSlot
      BY <2>5, InHandshake DEF HandshakeClient
    <3> QED
      BY <2>5, <3>1 DEF HandshakeClient, ServerInv, TypeOK, storeVars
  <2> QED
    BY <2>1, <2>2, <2>3, <2>4, <2>5 DEF Handshake
<1>3. /\ members' \in [Rooms -> SUBSET Users]
      /\ \A r \in Rooms : members'[r] \subseteq members[r]
  BY <1>2, ExitRoomLeaves DEF MemberInv, MembersAreUsers
<1>4. \A r \in Rooms : user[s] \notin members'[r]
  BY <1>1, <1>3
<1>5. \A q \in Slots \ {s} : user'[q] = user[q] /\ (Holds(q) => Holds(q)')
  BY <1>2 DEF Holds
<1> QED
  BY <1>3, <1>4, <1>5, StoppingKeepsMembers

\* What a request does to the operations of the sessions: none has fewer, and
\* the one that asked has one more.
LEMMA WithWriteHolds ==
    ASSUME NEW f \in [Slots -> [Kinds -> Nat]], NEW s \in Slots
    PROVE  /\ WithWrite(f, s) \in [Slots -> [Kinds -> Nat]]
           /\ \E k \in Kinds \ {"bcast"} : WithWrite(f, s)[s][k] > 0
           /\ \A q \in Slots, k \in Kinds : WithWrite(f, s)[q][k] >= f[q][k]
<1>1. /\ \E k \in Kinds \ {"bcast"} : With(f[s], On(sock[s], "write"))[k] > 0
      /\ \A k \in Kinds : With(f[s], On(sock[s], "write"))[k] >= f[s][k]
  BY BegunHolds
<1>2. With(f[s], On(sock[s], "write")) \in [Kinds -> Nat]
  <2>1. On(sock[s], "write") \in Kinds
    BY DEF On, Kinds
  <2> QED
    BY <2>1, OneMoreOp
<1> QED
  BY <1>1, <1>2 DEF WithWrite

LEMMA ReplyHolds ==
    ASSUME ServerInv, NEW s \in Slots, Finish(s), Reply(s)
    PROVE  Holds(s)' /\ \A q \in Slots \ {s} : Holds(q) => Holds(q)'
<1> USE ServerAssumption
<1>1. ops \in [Slots -> [Kinds -> Nat]] /\ ops' = WithWrite(ops, s)
  BY DEF ServerInv, TypeOK, Reply
<1>2. \A q \in Slots, k \in Kinds : /\ ops'[q][k] >= ops[q][k]
                                    /\ ops'[q][k] \in Nat /\ ops[q][k] \in Nat
  BY <1>1, WithWriteHolds
<1>3. Holds(s)'
  BY <1>1, WithWriteHolds DEF Holds
<1>4. \A q \in Slots \ {s} : Holds(q) => Holds(q)'
  BY <1>2 DEF Holds, Finish
<1> QED
  BY <1>3, <1>4

LEMMA CreateRoomHolds ==
    ASSUME ServerInv, NEW s \in Slots, NEW n \in Requested, NEW r \in Rooms,
           CreateRoom(s, n, r)
    PROVE  Holds(s)' /\ \A q \in Slots \ {s} : Holds(q) => Holds(q)'
<1> USE ServerAssumption
<1> DEFINE m == GetMirrorSession(PortOf[r])
<1>1. CASE m = NoSlot
  BY <1>1, ReplyHolds DEF CreateRoom
<1>2. CASE m # NoSlot
  <2>1. m \in Slots
    BY <1>2 DEF GetMirrorSession, Alive
  <2>2. ops' = WithWrite(WithWrite(ops, m), s) /\ busy' = NoSlot /\ busy = s
    BY <1>2 DEF CreateRoom, Finish
  <2> HIDE DEF m
  <2>3. ops \in [Slots -> [Kinds -> Nat]]
    BY DEF ServerInv, TypeOK
  <2>4. /\ WithWrite(ops, m) \in [Slots -> [Kinds -> Nat]]
        /\ \A q \in Slots, k \in Kinds : WithWrite(ops, m)[q][k] >= ops[q][k]
    BY <2>1, <2>3, WithWriteHolds
  <2>5. /\ \E k \in Kinds \ {"bcast"} : ops'[s][k] > 0
        /\ ops' \in [Slots -> [Kinds -> Nat]]
        /\ \A q \in Slots, k \in Kinds : ops'[q][k] >= WithWrite(ops, m)[q][k]
    BY <2>2, <2>4, WithWriteHolds
  <2>6. \A q \in Slots, k \in Kinds : ops[q][k] > 0 => ops'[q][k] > 0
    <3> SUFFICES ASSUME NEW q \in Slots, NEW k \in Kinds, ops[q][k] > 0
                 PROVE  ops'[q][k] > 0
      OBVIOUS
    <3>1. ops[q][k] \in Nat /\ ops'[q][k] \in Nat /\ WithWrite(ops, m)[q][k] \in Nat
      BY <2>3, <2>4, <2>5
    <3> QED
      BY <2>4, <2>5, <3>1
  <2> QED
    BY <2>2, <2>5, <2>6 DEF Holds
<1> QED
  BY <1>1, <1>2

LEMMA RequestKeepsMembers ==
    ASSUME ServerInv, MemberInv, Relogin = FALSE, DbMayFail = FALSE,
           NEW s \in Slots, Request(s)
    PROVE  MemberInv'
<1> USE ServerAssumption
<1>1. ASSUME AnswerOnly(s) \/ AlivePing(s) PROVE MemberInv'
  <2>1. Finish(s) /\ Reply(s) /\ UNCHANGED <<user, members>>
    BY <1>1 DEF AnswerOnly, AlivePing, storeVars
  <2> QED
    BY <2>1, ReplyHolds, EnteringKeepsMembers DEF MemberInv, MembersAreUsers
<1>2. ASSUME Logout(s) PROVE MemberInv'
  <2>1. UNCHANGED <<user, ops>> /\ ExitRoom(user[s]) /\ busy = s
    BY <1>2 DEF Logout, HandleError, Finish
  <2>2. \A q \in Slots \ {s} : user'[q] = user[q] /\ (Holds(q) => Holds(q)')
    BY <2>1 DEF Holds
  <2> QED
    BY <2>1, <2>2, ExitRoomLeaves, StoppingKeepsMembers DEF MemberInv
<1>3. ASSUME NEW u \in Users, NEW t \in Uuids, Login(s, u, t) PROVE MemberInv'
  <2>1. /\ Finish(s) /\ Reply(s) /\ user[s] \notin Users /\ UNCHANGED members
        /\ user' = [user EXCEPT ![s] = u]
    BY <1>3 DEF Login, storeVars
  <2>2. \A q \in Slots \ {s} : user'[q] = user[q] /\ (Holds(q) => Holds(q)')
    BY <2>1, ReplyHolds DEF ServerInv, TypeOK
  <2> QED
    BY <2>1, <2>2, StoppingKeepsMembers DEF MemberInv, MembersAreUsers
<1>4. ~ LoginHalfDone(s)
  BY DEF LoginHalfDone
<1>5. ASSUME NEW n \in Requested, NEW r \in Rooms, CreateRoom(s, n, r) PROVE MemberInv'
  <2>1. /\ UNCHANGED user /\ user[s] \in Users
        /\ members' = [members EXCEPT ![r] = @ \cup {user[s]}]
    BY <1>5 DEF CreateRoom, Store!CreateRoomWithHost
  <2>2. /\ members' \in [Rooms -> SUBSET Users]
        /\ \A q \in Rooms : members'[q] \subseteq members[q] \cup {user[s]}
    BY <2>1 DEF MemberInv, MembersAreUsers
  <2> QED
    BY <1>5, <2>1, <2>2, CreateRoomHolds, EnteringKeepsMembers
<1>6. ASSUME NEW r \in Rooms, JoinRoom(s, r) PROVE MemberInv'
  <2>1. /\ Finish(s) /\ Reply(s) /\ UNCHANGED user /\ user[s] \in Users
        /\ members' = [members EXCEPT ![r] = @ \cup {user[s]}]
    BY <1>6 DEF JoinRoom, Store!AddPlayer
  <2>2. /\ members' \in [Rooms -> SUBSET Users]
        /\ \A q \in Rooms : members'[q] \subseteq members[q] \cup {user[s]}
    BY <2>1 DEF MemberInv, MembersAreUsers
  <2> QED
    BY <2>1, <2>2, ReplyHolds, EnteringKeepsMembers
<1>7. ASSUME NEW r \in Rooms, LeaveRoom(s, r) PROVE MemberInv'
  <2>1. /\ Finish(s) /\ Reply(s) /\ UNCHANGED user
        /\ members' = [q \in Rooms |-> members[q] \ {user[s]}]
    BY <1>7 DEF LeaveRoom, Store!RemovePlayer
  <2>2. /\ members' \in [Rooms -> SUBSET Users]
        /\ \A q \in Rooms : members'[q] \subseteq members[q] \cup {user[s]}
    BY <2>1 DEF MemberInv, MembersAreUsers
  <2> QED
    BY <2>1, <2>2, ReplyHolds, EnteringKeepsMembers
<1>8. ASSUME NEW r \in Rooms, NEW g \in GameIds, GameStart(s, r, g) \/ GameEnd(s, g)
      PROVE  MemberInv'
  <2>1. Finish(s) /\ Reply(s) /\ UNCHANGED <<user, members>>
    BY <1>8 DEF GameStart, GameEnd, Store!CreateGame, Store!EndGame
  <2> QED
    BY <2>1, ReplyHolds, EnteringKeepsMembers DEF MemberInv, MembersAreUsers
<1>9. ASSUME NEW g \in GameIds, GameEnd(s, g) PROVE MemberInv'
  <2>1. Finish(s) /\ Reply(s) /\ UNCHANGED <<user, members>>
    BY <1>9 DEF GameEnd, Store!EndGame
  <2> QED
    BY <2>1, ReplyHolds, EnteringKeepsMembers DEF MemberInv, MembersAreUsers
<1> QED
  BY <1>1, <1>2, <1>3, <1>4, <1>5, <1>6, <1>7, <1>8, <1>9 DEF Request

LEMMA NextKeepsMembers ==
    ASSUME ServerInv, MemberInv, Relogin = FALSE, DbMayFail = FALSE, MayRestart = FALSE,
           [Next]_vars
    PROVE  MemberInv'
<1> USE ServerAssumption
<1>1. ASSUME NEW s \in Slots, Destroy(s) PROVE MemberInv'
  <2>1. /\ ops[s] = NoOps /\ busy = NoSlot /\ user' = [user EXCEPT ![s] = NoUser]
        /\ UNCHANGED <<ops, busy, members>>
    BY <1>1 DEF Destroy, Dead, controlVars, storeVars
  <2>2. ~ Holds(s)
    BY <2>1 DEF Holds, NoOps
  <2>3. ASSUME NEW q \in Slots, Holds(q) PROVE user'[q] = user[q] /\ Holds(q)'
    BY <2>1, <2>2, <2>3 DEF ServerInv, TypeOK, Holds
  <2> QED
    BY <2>1, <2>3 DEF MemberInv, MembersAreUsers, MemberWillBeRemoved, Holds
<1>2. ASSUME NEW t \in Uuids, CloseCollected(t) PROVE MemberInv'
  <2>1. UNCHANGED <<user, ops, busy>>
    BY <1>2 DEF CloseCollected
  <2>2. \A q \in Slots : Holds(q) => Holds(q)'
    BY <2>1 DEF Holds
  <2>3. CASE Alive(sessions[t])
    <3>1. sessions[t] \in Slots /\ ExitRoom(user[sessions[t]])
      BY <1>2, <2>3 DEF CloseCollected, HandleError, Alive
    <3> QED
      BY <2>1, <2>2, <3>1, ExitRoomLeaves, StoppingKeepsMembers DEF MemberInv
  <2>4. CASE ~ Alive(sessions[t])
    <3>1. UNCHANGED members
      BY <1>2, <2>4 DEF CloseCollected, storeVars
    <3> QED
      BY <2>1, <3>1 DEF MemberInv, MembersAreUsers, MemberWillBeRemoved
  <2> QED
    BY <2>3, <2>4
<1>3. CASE BroadcastCCU
  <2>1. /\ UNCHANGED <<user, busy, members>>
        /\ ops' = [s \in Slots |-> IF s \in Recipients THEN With(ops[s], On(sock[s], "bcast"))
                                                      ELSE ops[s]]
    BY <1>3 DEF BroadcastCCU, storeVars, controlVars
  <2>2. ASSUME NEW s \in Slots, NEW k \in Kinds, ops[s][k] > 0 PROVE ops'[s][k] > 0
    <3>1. With(ops[s], On(sock[s], "bcast"))[k] \in {ops[s][k], ops[s][k] + 1}
      BY DEF With, ServerInv, TypeOK
    <3>2. ops[s][k] \in Nat
      BY DEF ServerInv, TypeOK
    <3> QED
      BY <2>1, <2>2, <3>1, <3>2
  <2>3. \A s \in Slots : Holds(s) => Holds(s)'
    BY <2>1, <2>2 DEF Holds
  <2> QED
    BY <2>1, <2>3 DEF MemberInv, MembersAreUsers, MemberWillBeRemoved, Holds
<1>4. ASSUME UNCHANGED <<user, ops, busy, members>> PROVE MemberInv'
  BY <1>4 DEF MemberInv, MembersAreUsers, MemberWillBeRemoved
<1>5. CASE CheckInactive \/ UNCHANGED vars
  BY <1>4, <1>5 DEF CheckInactive, vars, storeVars, sessionVars, controlVars
<1>6. ASSUME NEW s \in Slots, GoIdle(s) PROVE MemberInv'
  BY <1>4, <1>6 DEF GoIdle, storeVars, controlVars
<1>7. ~ Stop /\ ~ Restart
  BY DEF Stop, Restart
<1> QED
  BY <1>1, <1>2, <1>3, <1>5, <1>6, <1>7, HandshakeKeepsMembers, RequestKeepsMembers,
     CompletionKeepsMembers DEF Next, Process

\* Whoever is in a room has a session that will run handle_error, or another
\* request, whatever else is in flight.
THEOREM ServerMemberWillBeRemoved ==
    ASSUME Relogin = FALSE, DbMayFail = FALSE, MayRestart = FALSE
    PROVE  Spec => []MemberWillBeRemoved
<1>1. Init => MemberInv
  BY DEF Init, Store!Init, MemberInv, MembersAreUsers, MemberWillBeRemoved
<1>2. ServerInv /\ MemberInv /\ [Next]_vars => MemberInv'
  BY NextKeepsMembers
<1>3. MemberInv => MemberWillBeRemoved
  BY DEF MemberInv
<1> QED
  BY <1>1, <1>2, <1>3, ServerIsSound, PTL DEF Spec
-----------------------------------------------------------------------------
(***************************************************************************)
(* The database, as RoomStore has it.                                      *)
(***************************************************************************)
StoreStep == [Store!Next]_(Store!storeVars)

LEMMA ExitRoomIsStoreStep == ASSUME NEW u, ExitRoom(u) PROVE StoreStep
BY DEF ExitRoom, StoreStep, Store!Next, storeVars, Store!storeVars

LEMMA HandshakeIsStoreStep == ASSUME NEW s \in Slots, Handshake(s) PROVE StoreStep
<1>1. UNCHANGED storeVars \/ ExitRoom(user[s])
  BY DEF Handshake, Accept, HandshakeMirror, HandshakeBadPort, HandshakeOldVersion,
     HandshakeClient, HandleError
<1> QED
  BY <1>1, ExitRoomIsStoreStep DEF StoreStep, storeVars, Store!storeVars

LEMMA RequestIsStoreStep == ASSUME NEW s \in Slots, Request(s) PROVE StoreStep
<1>1. ASSUME NEW n \in Requested, NEW r \in Rooms, CreateRoom(s, n, r) PROVE StoreStep
  BY <1>1 DEF CreateRoom, StoreStep, Store!Next
<1>2. ASSUME NEW r \in Rooms, JoinRoom(s, r) \/ LeaveRoom(s, r) PROVE StoreStep
  BY <1>2 DEF JoinRoom, LeaveRoom, StoreStep, Store!Next
<1>3. ASSUME NEW r \in Rooms, NEW g \in GameIds, GameStart(s, r, g) PROVE StoreStep
  BY <1>3 DEF GameStart, StoreStep, Store!Next
<1>4. ASSUME NEW g \in GameIds, GameEnd(s, g) PROVE StoreStep
  BY <1>4 DEF GameEnd, StoreStep, Store!Next
<1>5. ASSUME Logout(s) PROVE StoreStep
  BY <1>5, ExitRoomIsStoreStep DEF Logout, HandleError
<1>6. \/ AnswerOnly(s) \/ AlivePing(s) \/ LoginHalfDone(s)
      \/ \E u \in Users, t \in Uuids : Login(s, u, t)
      => StoreStep
  BY DEF AnswerOnly, AlivePing, LoginHalfDone, Login, StoreStep, storeVars, Store!storeVars
<1> QED
  BY <1>1, <1>2, <1>3, <1>4, <1>5, <1>6 DEF Request

LEMMA CompletionIsStoreStep ==
    ASSUME NEW s \in Slots, NEW k \in Kinds, Completion(s, k) PROVE StoreStep
<1>1. OpFails(s, k) => StoreStep
  BY ExitRoomIsStoreStep DEF OpFails, HandleError
<1>2. WriteDone(s) \/ BroadcastDone(s) \/ ReadDone(s) => StoreStep
  BY DEF WriteDone, BroadcastDone, ReadDone, StoreStep, storeVars, Store!storeVars
<1> QED
  BY <1>1, <1>2 DEF Completion

LEMMA ProcessIsStoreStep == ASSUME Process PROVE StoreStep
<1>1. ASSUME NEW t \in Uuids, CloseCollected(t) PROVE StoreStep
  <2>1. UNCHANGED storeVars \/ ExitRoom(user[sessions[t]])
    BY <1>1 DEF CloseCollected, HandleError
  <2> QED
    BY <2>1, ExitRoomIsStoreStep DEF StoreStep, storeVars, Store!storeVars
<1>2. CheckInactive \/ BroadcastCCU \/ Stop \/ Restart => StoreStep
  BY DEF CheckInactive, BroadcastCCU, Stop, Restart, StoreStep, storeVars, Store!storeVars
<1> QED
  BY <1>1, <1>2 DEF Process

\* Whatever sessions, timers and restarts do, the tables change by the
\* transactions of RoomStore only, so that what is proved of RoomStore holds
\* of the server's database.
THEOREM ServerImplementsStore == Spec => ImplementsStore
<1>1. ASSUME [Next]_vars PROVE StoreStep
  <2>1. ASSUME NEW s \in Slots, Destroy(s) \/ GoIdle(s) PROVE StoreStep
    BY <2>1 DEF Destroy, GoIdle, StoreStep, storeVars, Store!storeVars
  <2>2. CASE UNCHANGED vars
    BY <2>2 DEF vars, StoreStep, storeVars, Store!storeVars
  <2> QED
    BY <1>1, <2>1, <2>2, HandshakeIsStoreStep, RequestIsStoreStep, CompletionIsStoreStep,
       ProcessIsStoreStep DEF Next
<1>2. Init => Store!Init
  BY DEF Init
<1> QED
  BY <1>1, <1>2, PTL DEF Spec, ImplementsStore, Store!Spec, StoreStep

StoreProof == INSTANCE RoomStoreProof

\* What RoomStoreProof proves is about the server's tables.
LEMMA StoreAssumptionHolds == StoreProof!StoreAssumption
BY RoomsAssumption DEF StoreProof!StoreAssumption

\* The two instances of RoomStore say the same of sets.
LEMMA SameSets ==
    \A S : /\ Store!Cardinality(S) = StoreProof!Cardinality(S)
           /\ Store!IsFiniteSet(S) = StoreProof!IsFiniteSet(S)
BY DEF Store!Cardinality, StoreProof!Cardinality, Store!IsFiniteSet, StoreProof!IsFiniteSet

LEMMA SameTransactions ==
    /\ \A u \in Users, n \in Requested, r \in Rooms :
         Store!CreateRoomWithHost(u, n, r) => StoreProof!CreateRoomWithHost(u, n, r)
    /\ \A u \in Users, r \in Rooms :
         /\ Store!AddPlayer(r, u) => StoreProof!AddPlayer(r, u)
         /\ Store!RemovePlayer(u, r) => StoreProof!RemovePlayer(u, r)
    /\ \A g \in GameIds :
         /\ \A r \in Rooms : Store!CreateGame(r, g) => StoreProof!CreateGame(r, g)
         /\ Store!EndGame(g) => StoreProof!EndGame(g)
<1> USE SameSets DEF Store!RoomsOf, StoreProof!RoomsOf, Store!IsFirst, StoreProof!IsFirst,
        Store!Terminated, StoreProof!Terminated
<1>1. \A u \in Users, n \in Requested, r \in Rooms :
        Store!CreateRoomWithHost(u, n, r) => StoreProof!CreateRoomWithHost(u, n, r)
  BY DEF Store!CreateRoomWithHost, StoreProof!CreateRoomWithHost
<1>2. \A u \in Users, r \in Rooms : Store!AddPlayer(r, u) => StoreProof!AddPlayer(r, u)
  BY DEF Store!AddPlayer, StoreProof!AddPlayer
<1>3. \A u \in Users, r \in Rooms : Store!RemovePlayer(u, r) => StoreProof!RemovePlayer(u, r)
  BY DEF Store!RemovePlayer, StoreProof!RemovePlayer
<1>4. \A r \in Rooms, g \in GameIds : Store!CreateGame(r, g) => StoreProof!CreateGame(r, g)
  BY DEF Store!CreateGame, StoreProof!CreateGame
<1>5. \A g \in GameIds : Store!EndGame(g) => StoreProof!EndGame(g)
  BY DEF Store!EndGame, StoreProof!EndGame
<1> QED
  BY <1>1, <1>2, <1>3, <1>4, <1>5

LEMMA SameStore == Store!Spec => StoreProof!Spec
<1>1. Store!Init => StoreProof!Init
  BY DEF Store!Init, StoreProof!Init
<1>2. [Store!Next]_(Store!storeVars) => [StoreProof!Next]_(StoreProof!storeVars)
  BY SameTransactions DEF Store!Next, StoreProof!Next, Store!storeVars, StoreProof!storeVars
<1> QED
  BY <1>1, <1>2, PTL DEF Store!Spec, StoreProof!Spec

\* In the server as a whole, with every order of requests, disconnections,
\* timeouts and restarts: no room holds more players than its max_players, a
\* room that is offered for reuse has no rows left, and games that run do so
\* in rooms that are GAME_IN_PROGRESS.
THEOREM ServerRoomsAreSound ==
    Spec => [](/\ Store!TypeOK /\ Store!ClosedRoomIsEmpty
               /\ Store!WithinCapacity /\ Store!GameRunsInItsRoom)
<1>1. StoreProof!TypeOK => Store!TypeOK
  BY DEF Store!TypeOK, StoreProof!TypeOK, Store!Statuses, StoreProof!Statuses
<1>2. StoreProof!ClosedRoomIsEmpty => Store!ClosedRoomIsEmpty
  BY DEF Store!ClosedRoomIsEmpty, StoreProof!ClosedRoomIsEmpty
<1>3. StoreProof!WithinCapacity => Store!WithinCapacity
  BY SameSets DEF Store!WithinCapacity, StoreProof!WithinCapacity
<1>4. StoreProof!GameRunsInItsRoom => Store!GameRunsInItsRoom
  BY DEF Store!GameRunsInItsRoom, StoreProof!GameRunsInItsRoom
<1> QED
  BY <1>1, <1>2, <1>3, <1>4, ServerImplementsStore, SameStore, StoreAssumptionHolds,
     StoreProof!StoreTypeOK, StoreProof!StoreClosedRoomIsEmpty,
     StoreProof!StoreWithinCapacity, StoreProof!StoreGameRunsInItsRoom, PTL
     DEF ImplementsStore

\* And of its steps: players enter rooms that wait only, the capacity they were
\* admitted under does not change beneath them, and the last exit of a room
\* returns it to the pool, if its last player was in no other room.
THEOREM ServerRoomStepsAreSound ==
    Spec => Store!NoEntryDuringGame /\ Store!CapacityIsStable /\ Store!LastExitReturnsRoom
<1>1. [\A r \in Rooms : ~ (members'[r] \subseteq members[r])
          => /\ status[r] # "GAME_IN_PROGRESS"
             /\ status'[r] = "WAITING"]_(StoreProof!storeVars)
      => [\A r \in Rooms : ~ (members'[r] \subseteq members[r])
          => /\ status[r] # "GAME_IN_PROGRESS"
             /\ status'[r] = "WAITING"]_(Store!storeVars)
  BY DEF Store!storeVars, StoreProof!storeVars
<1>2. [\A r \in Rooms : maxPlayers'[r] # maxPlayers[r]
          => members[r] = {} /\ status[r] = "TERMINATED"]_(StoreProof!storeVars)
      => [\A r \in Rooms : maxPlayers'[r] # maxPlayers[r]
          => members[r] = {} /\ status[r] = "TERMINATED"]_(Store!storeVars)
  BY DEF Store!storeVars, StoreProof!storeVars
<1>3. [\A r \in Rooms : StoreProof!LastExit(r) => StoreProof!ReturnsRoom(r)]_(StoreProof!storeVars)
      => [\A r \in Rooms : Store!LastExit(r) => Store!ReturnsRoom(r)]_(Store!storeVars)
  BY DEF Store!storeVars, StoreProof!storeVars, Store!LastExit, StoreProof!LastExit,
     Store!ReturnsRoom, StoreProof!ReturnsRoom, Store!RoomsOf, StoreProof!RoomsOf
<1> QED
  BY <1>1, <1>2, <1>3, ServerImplementsStore, SameStore, StoreAssumptionHolds,
     StoreProof!StoreNoEntryDuringGame, StoreProof!StoreCapacityIsStable,
     StoreProof!StoreLastExitReturnsRoom, PTL
     DEF ImplementsStore, Store!NoEntryDuringGame, StoreProof!NoEntryDuringGame,
     Store!CapacityIsStable, StoreProof!CapacityIsStable,
     Store!LastExitReturnsRoom, StoreProof!LastExitReturnsRoom
=============================================================================
