---------------------------- MODULE UserAccounts ----------------------------
(***************************************************************************)
(* The users table of the matching server and the requests that use it:    *)
(* register, login, SSAFYlogin and updateNickName, from process_request    *)
(* through AuthService to UserRepository.                                  *)
(*                                                                         *)
(* One thread runs the handlers, so one request is under way at a time.    *)
(* But a request is a sequence of transactions, each of which may fail,    *)
(* commit without the server learning of it, or be the last thing the      *)
(* process does; and clients ask again.  A name is looked up without       *)
(* regard to case and is unique with regard to it.                         *)
(*                                                                         *)
(* Sessions are reduced to what these requests read and write: user_id_,   *)
(* nick_name_ and the user's entry in tokens_.  last_login, which nothing  *)
(* reads but the answer of a login, is left out; updateLastLogin counts    *)
(* only when it throws.                                                    *)
(***************************************************************************)
EXTENDS Integers

CONSTANTS
    Clients,        \* sessions
    Names,          \* values of userName
    LowerCase,      \* LOWER(): the lower case of each name
    ValidNames,     \* the names isValidUserName accepts
    Passwords,
    LongPasswords,  \* those of 6 bytes and more
    Nicknames,      \* the nicknames isValidNickName accepts
    ShortNicknames, \* those nick_name VARCHAR(16) has room for
    DefaultNickname,
    MaxAccounts,    \* bound: rows of the table
    NoName, NoPassword, NoUser, NotFound, NoRequest,
    MayRestart      \* TRUE: the process may end at any point

Ids == 1..MaxAccounts
AnyNickname == Nicknames \cup {DefaultNickname}

\* The requests of each action, and the transactions it has.
Credentials(action) ==
    [action : {action}, client : Clients, name : Names, password : Passwords]
Renaming ==
    [action : {"updateNickName"}, client : Clients, nick : Nicknames, id : Ids \cup {NotFound}]
Requests ==
    Credentials("register") \cup Credentials("login") \cup Credentials("SSAFYlogin")
    \cup Renaming
Transactions ==
    [register |-> {"find", "create"}, login |-> {"find", "touch"},
     SSAFYlogin |-> {"find", "create", "again", "touch"}, updateNickName |-> {"rename"}]

ASSUME AccountsAssumption ==
    /\ LowerCase \in [Names -> Names]
    /\ ValidNames \subseteq Names /\ LongPasswords \subseteq Passwords
    /\ ShortNicknames \subseteq Nicknames
    /\ NoName \notin Names /\ NoPassword \notin Passwords
    /\ MaxAccounts \in Nat
    /\ NoUser = 0 /\ NotFound = -1
    /\ NoRequest \notin Requests
    /\ MayRestart \in BOOLEAN

VARIABLES
    name, password, nick,   \* the rows of users, by user_id
    user, shown,            \* Session: user_id_ and nick_name_
    tokens,                 \* the users tokens_ has an entry for
    request,                \* the request under way, or NoRequest
    step,                   \* the transaction it does next
    info,                   \* its userInfo
    \* history
    sure,                   \* its lookup did not fail
    unsure,                 \* the rows inserted by requests that were not
    confirmed,              \* the name and password of the register requests
                            \* that were answered with success
    unseen                  \* the rows whose nickname was changed by a request
                            \* whose session does not show it

table == <<name, password, nick>>
memory == <<user, shown, tokens>>
control == <<request, step, info>>
history == <<sure, unsure, confirmed, unseen>>
vars == <<table, memory, control, history>>

Exists(i) == i \in Ids /\ name[i] # NoName
Nobody == [id |-> NotFound, password |-> NoPassword, nick |-> DefaultNickname]
Row(i) == [id |-> i, password |-> password[i], nick |-> nick[i]]

Init ==
    /\ name = [i \in Ids |-> NoName] /\ password = [i \in Ids |-> NoPassword]
    /\ nick = [i \in Ids |-> DefaultNickname]
    /\ user = [c \in Clients |-> NoUser] /\ shown = [c \in Clients |-> DefaultNickname]
    /\ tokens = {}
    /\ request = NoRequest /\ step = "none" /\ info = Nobody
    /\ sure = TRUE /\ unsure = {} /\ confirmed = {} /\ unseen = {}
-----------------------------------------------------------------------------
(***************************************************************************)
(* Requests.                                                               *)
(***************************************************************************)

Receive(r, first) ==
    /\ request = NoRequest
    /\ request' = r /\ step' = first
    /\ info' = Nobody /\ sure' = TRUE
    /\ UNCHANGED <<table, memory, unsure, confirmed, unseen>>

\* register checks the name and the password before anything else.  A request
\* that is refused there changes nothing and is left out, here and below.
ReceiveRegister ==
    \E r \in Credentials("register") :
        r.name \in ValidNames /\ r.password \in LongPasswords /\ Receive(r, "find")

ReceiveLogin ==
    \E r \in Credentials("login") \cup Credentials("SSAFYlogin") : Receive(r, "find")

\* updateNickName is about the session's user_id_, when it has one, else about
\* the userId of the request.
ReceiveRename ==
    \E c \in Clients, n \in Nicknames :
        \E i \in IF user[c] = NoUser THEN Ids ELSE {user[c]} :
            Receive([action |-> "updateNickName", client |-> c, nick |-> n, id |-> i],
                    "rename")

\* The answer is written, and the handler returns.
Answer ==
    /\ request' = NoRequest /\ step' = "none"
    /\ info' = Nobody /\ sure' = TRUE

Continue(next) == step' = next /\ UNCHANGED request

\* An error that leaves everything as it is.
Refuse == Answer /\ UNCHANGED <<table, memory, unsure, confirmed, unseen>>

\* get_connection or BEGIN throws; process_request catches it and answers.
Throws == step # "none" /\ Refuse
-----------------------------------------------------------------------------
(***************************************************************************)
(* The transactions of UserRepository and what the service does next.      *)
(***************************************************************************)

\* Mutant: names are compared as they are.
MatchesExactly(n) == {i \in Ids : name[i] = n}
\* The rows findByUsername selects; it returns any one of them.
Matches(n) == {i \in Ids : Exists(i) /\ LowerCase[name[i]] = LowerCase[n]}

FindByUsername(n, result, works) ==
    \/ works /\ \E i \in Matches(n) : result = Row(i)
    \/ works /\ Matches(n) = {} /\ result = Nobody
    \/ ~ works /\ result = Nobody

Results == {Nobody} \cup {Row(i) : i \in Ids}

\* The first findByUsername of registerUser, loginUser and
\* registerCheckAndLogin.  One that fails answers like one that finds nobody.
Find(works, result) ==
    /\ step = "find"
    /\ FindByUsername(request.name, result, works)
    /\ \/ /\ request.action \in {"register", "SSAFYlogin"} /\ result = Nobody
          /\ Continue("create")
       \/ /\ request.action = "SSAFYlogin" /\ result # Nobody
          /\ Continue("again")
       \/ /\ request.action = "login" /\ result # Nobody
          /\ result.password = request.password
          /\ Continue("touch")
    /\ info' = result /\ sure' = works
    /\ UNCHANGED <<table, memory, unsure, confirmed, unseen>>

\* The name is taken, nobody has it, or verifyPassword says no.
FindRefuses(works, result) ==
    /\ step = "find"
    /\ FindByUsername(request.name, result, works)
    /\ \/ request.action = "register" /\ result # Nobody
       \/ request.action = "login" /\ (result = Nobody \/ result.password # request.password)
    /\ Refuse

\* The row that create inserts; user_name is UNIQUE.
Insert(i) ==
    /\ \A j \in Ids : name[j] # request.name
    /\ ~ Exists(i) /\ \A j \in 1..(i - 1) : Exists(j)
    /\ name' = [name EXCEPT ![i] = request.name]
    /\ password' = [password EXCEPT ![i] = request.password]
    /\ unsure' = IF sure THEN unsure ELSE unsure \cup {i}
    /\ UNCHANGED <<nick, memory, unseen>>

Confirm == confirmed' = confirmed \cup {<<request.name, request.password>>}

\* create commits: register is done, SSAFYlogin goes on.
Create(i) ==
    /\ step = "create"
    /\ Insert(i)
    /\ \/ /\ request.action = "register"
          /\ Answer /\ Confirm
       \/ /\ request.action = "SSAFYlogin"
          /\ Continue("again")
          /\ UNCHANGED <<info, sure, confirmed>>

\* The connection is lost during COMMIT: the row is there, create returns -1.
CreateInDoubt(i) ==
    /\ step = "create"
    /\ Insert(i)
    /\ Answer /\ UNCHANGED confirmed

\* Mutant: the answer does not depend on what create returns.
CreateFailsUnnoticed ==
    /\ step = "create"
    /\ Answer
    /\ IF request.action = "register" THEN Confirm ELSE UNCHANGED confirmed
    /\ UNCHANGED <<table, memory, unsure, unseen>>

\* INSERT fails: the name is there already, or the database is not.
CreateFails == step = "create" /\ Refuse

\* The second findByUsername of registerCheckAndLogin, whose result is not
\* looked at.
FindCreated(works, result) ==
    /\ step = "again"
    /\ FindByUsername(request.name, result, works)
    /\ info' = result
    /\ Continue("touch")
    /\ UNCHANGED <<sure, table, memory, unsure, confirmed, unseen>>
-----------------------------------------------------------------------------
(***************************************************************************)
(* The end of a login: updateLastLogin, whatever it returns, and the       *)
(* session's part in process_request.                                      *)
(***************************************************************************)

\* checkAlreadyLogin refuses.
TouchRefused == step = "touch" /\ info.id \in tokens /\ Refuse

\* Mutant: the session is not asked for.
EnterUnchecked ==
    /\ step = "touch" /\ info # Nobody
    /\ user' = [user EXCEPT ![request.client] = info.id]
    /\ shown' = [shown EXCEPT ![request.client] = info.nick]
    /\ tokens' = tokens \cup {info.id}
    /\ unseen' = unseen \ {info.id}
    /\ Answer
    /\ UNCHANGED <<table, unsure, confirmed>>

\* init_current_user and registerSession.
Enter ==
    /\ step = "touch" /\ info # Nobody /\ info.id \notin tokens
    /\ user' = [user EXCEPT ![request.client] = info.id]
    /\ shown' = [shown EXCEPT ![request.client] = info.nick]
    /\ tokens' = tokens \cup {info.id}
    /\ unseen' = unseen \ {info.id}
    /\ Answer
    /\ UNCHANGED <<table, unsure, confirmed>>

\* Mutant: the session is registered whatever init_current_user does.
EnterHalfRegistered ==
    /\ step = "touch" /\ info = Nobody
    /\ user' = [user EXCEPT ![request.client] = NotFound]
    /\ tokens' = tokens \cup {NotFound}
    /\ Answer
    /\ UNCHANGED <<shown, table, unsure, confirmed, unseen>>

\* The second findByUsername has failed: the answer has userId -1 and no name,
\* init_current_user throws when it has assigned user_id_.
EnterHalf ==
    /\ step = "touch" /\ info = Nobody
    /\ user' = [user EXCEPT ![request.client] = NotFound]
    /\ Answer
    /\ UNCHANGED <<shown, tokens, table, unsure, confirmed, unseen>>
-----------------------------------------------------------------------------
(***************************************************************************)
(* updateNickName.                                                         *)
(***************************************************************************)

Update(i) ==
    /\ request.nick \in ShortNicknames /\ Exists(i)
    /\ nick' = [nick EXCEPT ![i] = request.nick]
    /\ UNCHANGED <<name, password>>

\* The session shows the new nickname, to the other players too.
Rename(i) ==
    /\ step = "rename" /\ request.id = i
    /\ Update(i)
    /\ shown' = [shown EXCEPT ![request.client] = request.nick]
    /\ unseen' = IF user[request.client] = i THEN unseen ELSE unseen \cup {i}
    /\ Answer
    /\ UNCHANGED <<user, tokens, unsure, confirmed>>

\* The connection is lost during COMMIT.
RenameInDoubt(i) ==
    /\ step = "rename" /\ request.id = i
    /\ Update(i)
    /\ unseen' = unseen \cup {i}
    /\ Answer
    /\ UNCHANGED <<memory, unsure, confirmed>>

\* No such row, no room for the nickname, or no database.
RenameFails == step = "rename" /\ Refuse
-----------------------------------------------------------------------------
(***************************************************************************)
(* The ends of sessions and of the process.                                *)
(***************************************************************************)

\* ~Session and removeSession; the slot is free for another client.
Leave(c) ==
    /\ request = NoRequest /\ user[c] # NoUser
    /\ tokens' = tokens \ {user[c]}
    /\ user' = [user EXCEPT ![c] = NoUser]
    /\ shown' = [shown EXCEPT ![c] = DefaultNickname]
    /\ UNCHANGED <<table, control, history>>

\* The process ends, in the middle of a request or not, and starts again.
Restart ==
    /\ MayRestart
    /\ user' = [c \in Clients |-> NoUser] /\ shown' = [c \in Clients |-> DefaultNickname]
    /\ tokens' = {}
    /\ Answer
    /\ UNCHANGED <<table, unsure, confirmed, unseen>>
-----------------------------------------------------------------------------
RequestStep ==
    \/ Throws
    \/ \E works \in BOOLEAN, result \in Results :
         Find(works, result) \/ FindRefuses(works, result) \/ FindCreated(works, result)
    \/ \E i \in Ids : Create(i) \/ CreateInDoubt(i) \/ Rename(i) \/ RenameInDoubt(i)
    \/ CreateFails \/ RenameFails
    \/ TouchRefused \/ Enter \/ EnterHalf

Next ==
    \/ ReceiveRegister \/ ReceiveLogin \/ ReceiveRename
    \/ RequestStep
    \/ \E c \in Clients : Leave(c)
    \/ Restart

Spec == Init /\ [][Next]_vars
-----------------------------------------------------------------------------
(***************************************************************************)
(* Properties.                                                             *)
(***************************************************************************)

\* Every variable holds values of its type, and a request is at a transaction
\* its action has.
TypeOK ==
    /\ name \in [Ids -> Names \cup {NoName}]
    /\ password \in [Ids -> Passwords \cup {NoPassword}]
    /\ nick \in [Ids -> AnyNickname]
    /\ user \in [Clients -> Ids \cup {NoUser, NotFound}]
    /\ shown \in [Clients -> AnyNickname]
    /\ tokens \subseteq Ids
    /\ request \in Requests \cup {NoRequest}
    /\ info \in [id : Ids \cup {NotFound}, password : Passwords \cup {NoPassword},
                 nick : AnyNickname]
    /\ step \in IF request = NoRequest THEN {"none"} ELSE Transactions[request.action]
    /\ sure \in BOOLEAN /\ unsure \subseteq Ids /\ unseen \subseteq Ids
    /\ confirmed \subseteq Names \X Passwords

SameName(i, j) == Exists(i) /\ Exists(j) /\ LowerCase[name[i]] = LowerCase[name[j]]

\* The duplicate check of registerUser and SSAFYlogin: although lookup and
\* insert are two transactions, requests may be repeated after an answer that
\* got lost, and the process may end between the two, names that differ only in
\* case belong to two accounts only if the later one's lookup failed.
OneAccountPerName ==
    \A i, j \in Ids : i < j /\ SameName(i, j) => j \in unsure

\* Whoever has been told that the registration succeeded can log in with that
\* name and password from then on, through restarts and whatever others
\* register: a lookup of the name has this account as its only result, failed
\* lookups aside.
RegisteredCanLogin ==
    \A r \in confirmed :
        \E i \in Matches(r[1]) :
            /\ name[i] = r[1] /\ password[i] = r[2]
            /\ Matches(r[1]) \cap unsure = {} => Matches(r[1]) = {i}

\* The nickname that broadcastCCU shows to the other players for a logged in
\* session is the one in the database, although the session keeps a copy of its
\* own: nobody else's login or renaming comes between.
NicknameIsCurrent ==
    \A c \in Clients : user[c] \in Ids \ unseen => shown[c] = nick[user[c]]
=============================================================================
