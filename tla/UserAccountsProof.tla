-------------------------- MODULE UserAccountsProof --------------------------
(***************************************************************************)
(* Safety of the accounts, for every number of clients, names, passwords   *)
(* and rows.                                                               *)
(***************************************************************************)
EXTENDS UserAccounts, TLAPS

\* Rows are inserted in the order of their ids.
RowsAreDense == \A i, j \in Ids : i < j /\ Exists(j) => Exists(i)

\* What a lookup has found still holds when the insert comes: no other request
\* is under way.
NameIsFree == step = "create" /\ sure => Matches(request.name) = {}

\* Each confirmed registration has its row.
ConfirmedIsStored ==
    \A r \in confirmed : \E i \in Ids : name[i] = r[1] /\ password[i] = r[2]

\* A user has one session at most, which tokens_ knows of.
SessionsAreKnown ==
    /\ \A c \in Clients : user[c] \in Ids => user[c] \in tokens /\ Exists(user[c])
    /\ \A c, d \in Clients : user[c] \in Ids /\ user[c] = user[d] => c = d

\* What a login has read, and whom a renaming is about, is not changed behind
\* its back.
RequestIsCurrent ==
    /\ step = "touch" /\ info # Nobody => Exists(info.id) /\ info.nick = nick[info.id]
    /\ step = "rename" => user[request.client] \in {NoUser, request.id}

IInv ==
    /\ TypeOK /\ RowsAreDense /\ NameIsFree /\ OneAccountPerName /\ ConfirmedIsStored
    /\ SessionsAreKnown /\ RequestIsCurrent /\ NicknameIsCurrent
-----------------------------------------------------------------------------
LEMMA InitEstablishesIInv == Init => IInv
<1> SUFFICES ASSUME Init PROVE IInv
  OBVIOUS
<1> USE AccountsAssumption DEF Init, Ids, AnyNickname, Exists
<1>1. TypeOK
  BY DEF TypeOK, Nobody
<1> QED
  BY <1>1 DEF IInv, RowsAreDense, NameIsFree, OneAccountPerName, SameName, ConfirmedIsStored,
     SessionsAreKnown, RequestIsCurrent, NicknameIsCurrent

\* What is known of the request when it is at one of its transactions.
LEMMA RequestAtStep ==
    ASSUME TypeOK
    PROVE  /\ step = "none" <=> request = NoRequest
           /\ step \in {"find", "create", "again", "touch"} =>
                /\ request \in Credentials("register") \cup Credentials("login")
                                                     \cup Credentials("SSAFYlogin")
                /\ request.client \in Clients /\ request.name \in Names
                /\ request.password \in Passwords
           /\ step = "create" => request.action \in {"register", "SSAFYlogin"}
           /\ step = "again" => request.action = "SSAFYlogin"
           /\ step = "rename" =>
                /\ request.client \in Clients /\ request.nick \in Nicknames
                /\ request.id \in Ids \cup {NotFound}
<1>1. CASE request = NoRequest
  BY <1>1 DEF TypeOK
<1>2. CASE request \in Credentials("register")
  BY <1>2, AccountsAssumption DEF TypeOK, Credentials, Transactions, Requests
<1>3. CASE request \in Credentials("login")
  BY <1>3, AccountsAssumption DEF TypeOK, Credentials, Transactions, Requests
<1>4. CASE request \in Credentials("SSAFYlogin")
  BY <1>4, AccountsAssumption DEF TypeOK, Credentials, Transactions, Requests
<1>5. CASE request \in Renaming
  BY <1>5, AccountsAssumption DEF TypeOK, Renaming, Transactions, Requests
<1> QED
  BY <1>1, <1>2, <1>3, <1>4, <1>5 DEF TypeOK, Requests

\* A step that ends the request and touches neither rows nor sessions.
LEMMA RefuseKeepsIInv == ASSUME IInv, Refuse PROVE IInv'
<1> USE AccountsAssumption DEF Refuse, Answer, table, memory
<1>1. TypeOK'
  BY DEF IInv, TypeOK, Nobody, AnyNickname
<1> QED
  BY <1>1 DEF IInv, RowsAreDense, NameIsFree, OneAccountPerName, SameName, ConfirmedIsStored,
     SessionsAreKnown, RequestIsCurrent, NicknameIsCurrent, Exists

\* A request arrives: nothing has been read yet.
LEMMA ReceiveKeepsIInv ==
    ASSUME IInv, ReceiveRegister \/ ReceiveLogin \/ ReceiveRename PROVE IInv'
<1>1. PICK r \in Requests, first \in {"find", "rename"} :
         /\ Receive(r, first) /\ first \in Transactions[r.action]
         /\ first = "rename" => user[r.client] \in {NoUser, r.id}
  <2>1. CASE ReceiveRegister
    BY <2>1 DEF ReceiveRegister, Credentials, Requests, Transactions
  <2>2. CASE ReceiveLogin
    BY <2>2 DEF ReceiveLogin, Credentials, Requests, Transactions
  <2>3. CASE ReceiveRename
    <3>1. PICK c \in Clients, n \in Nicknames, i \in Ids \cup {NotFound} :
             /\ user[c] \in {NoUser, i}
             /\ Receive([action |-> "updateNickName", client |-> c, nick |-> n, id |-> i],
                        "rename")
      BY <2>3 DEF ReceiveRename, IInv, TypeOK
    <3>2. [action |-> "updateNickName", client |-> c, nick |-> n, id |-> i] \in Renaming
      BY DEF Renaming
    <3> QED
      BY <3>1, <3>2 DEF Requests, Transactions
  <2> QED
    BY <2>1, <2>2, <2>3
<1>2. TypeOK'
  <2>1. r # NoRequest
    BY AccountsAssumption
  <2> QED
    BY <1>1, <2>1 DEF IInv, TypeOK, Receive, table, memory, Nobody, AnyNickname
<1>3. step' \notin {"touch", "create"}
  BY <1>1 DEF Receive
<1> QED
  BY <1>1, <1>2, <1>3 DEF Receive, table, memory, IInv, RowsAreDense, NameIsFree,
     OneAccountPerName, SameName, ConfirmedIsStored, SessionsAreKnown, RequestIsCurrent,
     NicknameIsCurrent, Exists

\* What a lookup returns.
LEMMA LookupResult ==
    ASSUME TypeOK, NEW n \in Names, NEW works \in BOOLEAN, NEW result \in Results,
           FindByUsername(n, result, works)
    PROVE  /\ result \in [id : Ids \cup {NotFound}, password : Passwords \cup {NoPassword},
                          nick : AnyNickname]
           /\ result # Nobody => Exists(result.id) /\ result.nick = nick[result.id]
           /\ result = Nobody /\ works => Matches(n) = {}
<1>1. ASSUME NEW i \in Ids
      PROVE  /\ Row(i).id = i /\ Row(i).nick = nick[i] /\ Row(i) # Nobody
             /\ Row(i) \in [id : Ids \cup {NotFound}, password : Passwords \cup {NoPassword},
                            nick : AnyNickname]
  BY <1>1, AccountsAssumption DEF Row, Nobody, TypeOK, Ids
<1>2. Nobody \in [id : Ids \cup {NotFound}, password : Passwords \cup {NoPassword},
                  nick : AnyNickname]
  BY DEF Nobody, AnyNickname
<1> QED
  BY <1>1, <1>2 DEF FindByUsername, Matches

\* The lookups, when the request goes on.
LEMMA FindKeepsIInv ==
    ASSUME IInv, NEW works \in BOOLEAN, NEW result \in Results,
           Find(works, result) \/ FindCreated(works, result)
    PROVE  IInv'
<1>1. /\ step \in {"find", "again"}
      /\ FindByUsername(request.name, result, works)
      /\ info' = result /\ UNCHANGED request
      /\ UNCHANGED <<table, memory, unsure, confirmed, unseen>>
  BY DEF Find, FindCreated, Continue, IInv, RequestAtStep
<1>2. request.name \in Names /\ request # NoRequest
  BY <1>1, RequestAtStep DEF IInv
<1>3. /\ result \in [id : Ids \cup {NotFound}, password : Passwords \cup {NoPassword},
                     nick : AnyNickname]
      /\ result # Nobody => Exists(result.id) /\ result.nick = nick[result.id]
      /\ result = Nobody /\ works => Matches(request.name) = {}
  BY <1>1, <1>2, LookupResult DEF IInv
<1>4. /\ step' \in Transactions[request.action] /\ step' # "rename"
      /\ step' = "create" => result = Nobody /\ sure' = works
      /\ sure' \in BOOLEAN
  <2>1. CASE Find(works, result)
    BY <2>1 DEF Find, Continue, Transactions, IInv, TypeOK
  <2>2. CASE FindCreated(works, result)
    BY <2>2, RequestAtStep DEF FindCreated, Continue, Transactions, IInv, TypeOK
  <2> QED
    BY <2>1, <2>2
<1>5. TypeOK'
  BY <1>1, <1>2, <1>3, <1>4 DEF IInv, TypeOK, table, memory
<1>6. NameIsFree'
  BY <1>1, <1>3, <1>4 DEF NameIsFree, Matches, Exists, table
<1> QED
  BY <1>1, <1>3, <1>4, <1>5, <1>6 DEF table, memory, IInv, RowsAreDense,
     OneAccountPerName, SameName, ConfirmedIsStored, SessionsAreKnown, RequestIsCurrent,
     NicknameIsCurrent, Exists

\* A row is inserted, at the end of the table, for a name that a lookup did not
\* find unless it failed.
LEMMA InsertKeepsIInv ==
    ASSUME IInv, NEW i \in Ids, Create(i) \/ CreateInDoubt(i) PROVE IInv'
<1> USE AccountsAssumption
<1>1. /\ step = "create" /\ ~ Exists(i) /\ \A j \in 1..(i - 1) : Exists(j)
      /\ name' = [name EXCEPT ![i] = request.name]
      /\ password' = [password EXCEPT ![i] = request.password]
      /\ unsure' = IF sure THEN unsure ELSE unsure \cup {i}
      /\ UNCHANGED <<nick, memory, unseen>>
      /\ confirmed' = confirmed \/ confirmed' = confirmed \cup {<<request.name, request.password>>}
  BY DEF Create, CreateInDoubt, Insert, Confirm
<1>2. /\ request.name \in Names /\ request.password \in Passwords /\ request # NoRequest
      /\ request.action \in {"register", "SSAFYlogin"}
  BY <1>1, RequestAtStep DEF IInv
<1>3. \/ request' = NoRequest /\ step' = "none" /\ info' = Nobody /\ sure' = TRUE
      \/ request.action = "SSAFYlogin" /\ step' = "again" /\ UNCHANGED <<request, info, sure>>
  BY DEF Create, CreateInDoubt, Answer, Continue
<1>4. \A j \in Ids : name'[j] = IF j = i THEN request.name ELSE name[j]
  BY <1>1 DEF IInv, TypeOK
<1>5. \A j \in Ids : Exists(j)' <=> Exists(j) \/ j = i
  BY <1>2, <1>4 DEF Exists
<1>6. \A j \in Ids : Exists(j) => j < i
  BY <1>1 DEF IInv, RowsAreDense, Ids
<1>7. TypeOK'
  <2>1. confirmed' \subseteq Names \X Passwords
    BY <1>1, <1>2 DEF IInv, TypeOK
  <2>2. CASE step' = "none"
    BY <1>1, <1>2, <1>3, <2>1, <2>2 DEF IInv, TypeOK, memory, Nobody, AnyNickname
  <2>3. CASE step' = "again"
    <3>1. "again" \in Transactions[request.action] /\ UNCHANGED <<request, info, sure>>
      BY <1>3, <2>3 DEF Transactions
    <3> QED
      BY <1>1, <1>2, <2>1, <2>3, <3>1 DEF IInv, TypeOK, memory
  <2> QED
    BY <1>3, <2>2, <2>3
<1>8. RowsAreDense'
  <2> SUFFICES ASSUME NEW j \in Ids, NEW k \in Ids, j < k, Exists(k)' PROVE Exists(j)'
    BY DEF RowsAreDense
  <2>1. CASE k = i
    BY <2>1, <1>1, <1>5 DEF Ids
  <2>2. CASE Exists(k)
    BY <2>2, <1>5 DEF IInv, RowsAreDense
  <2> QED
    BY <2>1, <2>2, <1>5
<1>9. OneAccountPerName'
  <2> SUFFICES ASSUME NEW j \in Ids, NEW k \in Ids, j < k, SameName(j, k)' PROVE k \in unsure'
    BY DEF OneAccountPerName
  <2>1. CASE k = i
    <3>0. j # i
      BY <2>1 DEF Ids
    <3>1. Exists(j) /\ LowerCase[name[j]] = LowerCase[request.name]
      BY <2>1, <3>0, <1>4, <1>5 DEF SameName
    <3>2. ~ sure
      BY <3>1, <1>1 DEF IInv, NameIsFree, Matches
    <3> QED
      BY <2>1, <3>2, <1>1
  <2>2. CASE k # i
    <3>1. Exists(k) /\ j # i
      BY <2>2, <1>5, <1>6 DEF SameName, Ids
    <3>2. SameName(j, k)
      BY <2>2, <3>1, <1>4, <1>5 DEF SameName
    <3> QED
      BY <3>2, <1>1 DEF IInv, OneAccountPerName
  <2> QED
    BY <2>1, <2>2
<1>10. ConfirmedIsStored'
  <2> SUFFICES ASSUME NEW r \in confirmed'
               PROVE  \E j \in Ids : name'[j] = r[1] /\ password'[j] = r[2]
    BY DEF ConfirmedIsStored
  <2>1. CASE r = <<request.name, request.password>>
    BY <2>1, <1>1 DEF IInv, TypeOK
  <2>2. CASE r \in confirmed
    <3>1. PICK j \in Ids : name[j] = r[1] /\ password[j] = r[2]
      BY <2>2 DEF IInv, ConfirmedIsStored
    <3>2. r[1] # NoName
      BY <2>2 DEF IInv, TypeOK
    <3>3. j # i
      BY <3>1, <3>2, <1>1 DEF Exists
    <3> QED
      BY <3>1, <3>3, <1>1 DEF IInv, TypeOK
  <2> QED
    BY <2>1, <2>2, <1>1
<1> QED
  BY <1>1, <1>3, <1>5, <1>7, <1>8, <1>9, <1>10 DEF memory, IInv, NameIsFree, SessionsAreKnown,
     RequestIsCurrent, NicknameIsCurrent

\* A login succeeds: checkAlreadyLogin has seen that nobody else has the user.
LEMMA EnterKeepsIInv == ASSUME IInv, Enter \/ EnterHalf PROVE IInv'
<1> USE AccountsAssumption DEF Answer, table
<1>1. step = "touch" /\ request.client \in Clients
  BY RequestAtStep DEF IInv, Enter, EnterHalf
<1>2. CASE Enter
  <2>1. /\ Exists(info.id) /\ info.nick = nick[info.id] /\ info.id \in Ids
        /\ info.nick \in AnyNickname
    BY <1>1, <1>2 DEF Enter, IInv, RequestIsCurrent, Exists, TypeOK
  <2>2. TypeOK'
    BY <1>1, <1>2, <2>1 DEF Enter, IInv, TypeOK, Nobody, AnyNickname
  <2>3. \A c \in Clients : user[c] # info.id
    BY <1>2, <2>1 DEF Enter, IInv, SessionsAreKnown
  <2>4. SessionsAreKnown' /\ NicknameIsCurrent'
    BY <1>1, <1>2, <2>1, <2>3 DEF Enter, IInv, TypeOK, SessionsAreKnown, NicknameIsCurrent, Exists
  <2> QED
    BY <1>2, <2>2, <2>4 DEF Enter, IInv, RowsAreDense, NameIsFree, OneAccountPerName, SameName,
       ConfirmedIsStored, RequestIsCurrent, Exists
<1>3. CASE EnterHalf
  <2>1. TypeOK'
    BY <1>1, <1>3 DEF EnterHalf, IInv, TypeOK, Nobody, AnyNickname
  <2>2. SessionsAreKnown' /\ NicknameIsCurrent'
    BY <1>1, <1>3 DEF EnterHalf, IInv, TypeOK, SessionsAreKnown, NicknameIsCurrent, Exists, Ids
  <2> QED
    BY <1>3, <2>1, <2>2 DEF EnterHalf, IInv, RowsAreDense, NameIsFree, OneAccountPerName,
       SameName, ConfirmedIsStored, RequestIsCurrent, Exists
<1> QED
  BY <1>2, <1>3

\* A nickname changes: one session at most shows it, and it is the renaming one
\* or the row counts as unseen.
LEMMA RenameKeepsIInv ==
    ASSUME IInv, NEW i \in Ids, Rename(i) \/ RenameInDoubt(i) PROVE IInv'
<1> USE AccountsAssumption
<1>1. /\ step = "rename" /\ request.id = i /\ request.client \in Clients
      /\ request.nick \in Nicknames
  BY RequestAtStep DEF IInv, Rename, RenameInDoubt
<1>2. /\ nick' = [nick EXCEPT ![i] = request.nick]
      /\ request' = NoRequest /\ step' = "none" /\ info' = Nobody /\ sure' = TRUE
      /\ UNCHANGED <<name, password, user, tokens, unsure, confirmed>>
  BY DEF Rename, RenameInDoubt, Update, Answer, memory
<1>3. \/ /\ shown' = [shown EXCEPT ![request.client] = request.nick]
         /\ unseen' = IF user[request.client] = i THEN unseen ELSE unseen \cup {i}
      \/ UNCHANGED shown /\ unseen' = unseen \cup {i}
  BY DEF Rename, RenameInDoubt, memory
<1>4. TypeOK'
  BY <1>1, <1>2, <1>3 DEF IInv, TypeOK, Nobody, AnyNickname
<1>5. user[request.client] \in {NoUser, i}
  BY <1>1 DEF IInv, RequestIsCurrent
<1>6. NicknameIsCurrent'
  <2> SUFFICES ASSUME NEW c \in Clients, user[c] \in Ids, user[c] \notin unseen'
               PROVE  shown'[c] = nick'[user[c]]
    BY <1>2 DEF NicknameIsCurrent
  <2>1. CASE user[c] = i
    <3>1. user[request.client] = i
      BY <1>3, <2>1
    <3>2. c = request.client
      BY <1>1, <2>1, <3>1 DEF IInv, SessionsAreKnown
    <3> QED
      BY <1>1, <1>2, <1>3, <2>1, <3>2 DEF IInv, TypeOK
  <2>2. CASE user[c] # i
    <3>1. c # request.client
      BY <1>5, <2>2 DEF Ids
    <3>2. shown[c] = nick[user[c]]
      BY <1>3 DEF IInv, NicknameIsCurrent
    <3> QED
      BY <1>2, <1>3, <2>2, <3>1, <3>2 DEF IInv, TypeOK
  <2> QED
    BY <2>1, <2>2
<1> QED
  BY <1>2, <1>4, <1>6 DEF IInv, RowsAreDense, NameIsFree, OneAccountPerName, SameName,
     ConfirmedIsStored, SessionsAreKnown, RequestIsCurrent, Exists

\* Sessions end, one or all.
LEMMA LeaveKeepsIInv == ASSUME IInv, NEW c \in Clients, Leave(c) PROVE IInv'
<1> USE AccountsAssumption DEF Leave, table, control, history
<1>1. TypeOK'
  BY DEF IInv, TypeOK, AnyNickname
<1>2. SessionsAreKnown' /\ NicknameIsCurrent'
  BY DEF IInv, TypeOK, SessionsAreKnown, NicknameIsCurrent, Exists, Ids
<1>3. step' = "none"
  BY RequestAtStep DEF IInv
<1> QED
  BY <1>1, <1>2, <1>3 DEF IInv, RowsAreDense, NameIsFree, OneAccountPerName, SameName,
     ConfirmedIsStored, RequestIsCurrent, Exists

LEMMA RestartKeepsIInv == ASSUME IInv, Restart PROVE IInv'
<1> USE AccountsAssumption DEF Restart, Answer, table
<1>1. TypeOK'
  BY DEF IInv, TypeOK, AnyNickname, Nobody
<1> QED
  BY <1>1 DEF IInv, RowsAreDense, NameIsFree, OneAccountPerName, SameName, ConfirmedIsStored,
     SessionsAreKnown, RequestIsCurrent, NicknameIsCurrent, Exists, Ids

LEMMA NextKeepsIInv == ASSUME IInv, [Next]_vars PROVE IInv'
<1>1. CASE ReceiveRegister \/ ReceiveLogin \/ ReceiveRename
  BY <1>1, ReceiveKeepsIInv
<1>2. CASE RequestStep
  <2>1. ASSUME NEW works \in BOOLEAN, NEW result \in Results, FindRefuses(works, result)
        PROVE  IInv'
    BY <2>1, RefuseKeepsIInv DEF FindRefuses
  <2>2. CASE Throws \/ CreateFails \/ RenameFails \/ TouchRefused
    BY <2>2, RefuseKeepsIInv DEF Throws, CreateFails, RenameFails, TouchRefused
  <2> QED
    BY <1>2, <2>1, <2>2, FindKeepsIInv, InsertKeepsIInv, EnterKeepsIInv, RenameKeepsIInv
       DEF RequestStep
<1>3. CASE (\E c \in Clients : Leave(c)) \/ Restart
  BY <1>3, LeaveKeepsIInv, RestartKeepsIInv
<1>4. CASE UNCHANGED vars
  BY <1>4 DEF vars, table, memory, control, history, IInv, TypeOK, RowsAreDense, NameIsFree,
     Matches, OneAccountPerName, SameName, ConfirmedIsStored, SessionsAreKnown,
     RequestIsCurrent, NicknameIsCurrent, Exists
<1> QED
  BY <1>1, <1>2, <1>3, <1>4 DEF Next

LEMMA IInvIsInvariant == Spec => []IInv
BY InitEstablishesIInv, NextKeepsIInv, PTL DEF Spec
-----------------------------------------------------------------------------
\* The variables keep their types, and a request is at one of its transactions.
THEOREM AccountsTypeOK == Spec => []TypeOK
<1>1. IInv => TypeOK
  BY DEF IInv
<1> QED
  BY <1>1, IInvIsInvariant, PTL

\* However requests are repeated, interrupted and refused, two accounts whose
\* names differ only in case stem from a lookup that failed.
THEOREM AccountsOneAccountPerName == Spec => []OneAccountPerName
<1>1. IInv => OneAccountPerName
  BY DEF IInv
<1> QED
  BY <1>1, IInvIsInvariant, PTL

\* A confirmed registration is an account one can log in to, for good.
THEOREM AccountsRegisteredCanLogin == Spec => []RegisteredCanLogin
<1>1. ASSUME IInv PROVE RegisteredCanLogin
  <2> SUFFICES ASSUME NEW r \in confirmed
               PROVE  \E i \in Matches(r[1]) :
                        /\ name[i] = r[1] /\ password[i] = r[2]
                        /\ Matches(r[1]) \cap unsure = {} => Matches(r[1]) = {i}
    BY DEF RegisteredCanLogin
  <2>1. PICK i \in Ids : name[i] = r[1] /\ password[i] = r[2]
    BY <1>1 DEF IInv, ConfirmedIsStored
  <2>2. i \in Matches(r[1])
    BY <1>1, <2>1, AccountsAssumption DEF IInv, TypeOK, Matches, Exists
  <2>3. \A j \in Matches(r[1]) : j # i => i \in unsure \/ j \in unsure
    <3>1. \A j \in Matches(r[1]) : SameName(i, j) /\ SameName(j, i) /\ j \in Ids
      BY <2>1, <2>2 DEF Matches, SameName
    <3>2. \A j \in Ids : i < j \/ j < i \/ i = j
      BY AccountsAssumption DEF Ids
    <3> QED
      BY <1>1, <3>1, <3>2 DEF IInv, OneAccountPerName
  <2> QED
    BY <2>1, <2>2, <2>3
<1> QED
  BY <1>1, IInvIsInvariant, PTL

\* The nickname a session shows is the one in the database, except for rows
\* changed without their session learning of it.
THEOREM AccountsNicknameIsCurrent == Spec => []NicknameIsCurrent
<1>1. IInv => NicknameIsCurrent
  BY DEF IInv
<1> QED
  BY <1>1, IInvIsInvariant, PTL
=============================================================================
