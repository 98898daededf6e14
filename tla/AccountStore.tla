---------------------------- MODULE AccountStore ----------------------------
(***************************************************************************)
(* The accounts of the chat server: the database helper                    *)
(* (ChatServer/DBHelper.cpp), which the server's single thread runs one    *)
(* command at a time, and the two MySQL tables it writes, one statement    *)
(* per step (authenticationservice.sql).  Every statement is committed by  *)
(* itself; nothing ties the two inserts of one account together, and the   *)
(* rows of an account are matched by their automatic ids being equal.      *)
(*                                                                         *)
(* A statement may be refused, or executed with its answer lost; the       *)
(* connection may break, the server may be killed and started again, and   *)
(* an administrator may run the statements of queries.sql at any time.     *)
(*                                                                         *)
(* A password stands for the bytes bcrypt distinguishes; a salt and hash   *)
(* stand for the passwords they validate (opens).  user.owner (the account *)
(* an INSERT was made for) and user.last_login (the account whose login    *)
(* set it) are recorded in place of dates.                                 *)
(***************************************************************************)
EXTENDS Integers, Sequences, FiniteSets

CONSTANTS
    Emails, Passwords,
    Dump,           \* the accounts in the database at first, in order of id
    Faults,         \* the faults that may happen, from FaultKinds
    MaxFaults,      \* bound on the number of faults
    MaxUsers,       \* bound on the rows of user
    Nobody,         \* the owner of a row inserted by hand
    NoRequest, NoAnswer

\* refused: a statement fails without effect; unanswered: it takes effect
\* and its answer is lost; link: the connection breaks or cannot be made;
\* crash: the server is killed; insert: the administrator inserts a user;
\* reset: the administrator resets the AUTO_INCREMENT counters.
FaultKinds == {"refused", "unanswered", "link", "crash", "insert", "reset"}

Requests == [kind : {"create", "auth"}, email : Emails, password : Passwords]

Results == {"SUCCESS", "ACCOUNT_ALREADY_EXISTS", "INVALID_PASSWORD",
            "INTERNAL_SERVER_ERROR", "VALID_PASSWORD", "NO_CONNECTION",
            "ACCOUNT_DOES_NOT_EXIST"}

Answers == [request : Requests, result : Results, date : Emails \cup {Nobody}]

ASSUME AccountAssumption ==
    /\ Dump \in Seq([email : Emails, password : Passwords])
    /\ \A j, k \in DOMAIN Dump : Dump[j].email = Dump[k].email => j = k
    /\ Faults \subseteq FaultKinds
    /\ MaxFaults \in Nat /\ MaxUsers \in Nat
    /\ Nobody \notin Emails
    /\ NoRequest \notin Requests
    /\ NoAnswer \notin Answers

VARIABLES
    web_auth, user,          \* the tables, as sets of rows
    nextAuth, nextUser,      \* their AUTO_INCREMENT counters
    m_IsConnected,           \* set by Connect, never cleared
    link,                    \* "up" or "down": the connection itself
    process,                 \* "serving" or "down"
    request,                 \* the command being executed
    step,                    \* the statement it has come to
    lastId,                  \* CreateAccount's local variable
    hashedPassword, id,      \* AuthenticateAccount's; id is read again for the date
    answer,                  \* the last command's result
    faults                   \* the number of faults so far

tables == <<web_auth, user, nextAuth, nextUser>>
server == <<m_IsConnected, link, process>>
vars == <<web_auth, user, nextAuth, nextUser, m_IsConnected, link, process,
          request, step, lastId, hashedPassword, id, answer, faults>>

locals == <<lastId, hashedPassword, id>>

\* What the salt drawn for an account's password and their hash may validate:
\* that password; every password, if a NUL was drawn; and if the last character
\* drawn is a space, which the salt's column forgets, no password, or the one
\* that begins with that space (see PasswordHash).
Opens ==
    [password \in Passwords |->
        {{password}, Passwords, {}} \cup {{other} : other \in Passwords \ {password}}]

HasAccount(email) == \E row \in web_auth : row.email = email
AccountRow(email) == CHOOSE row \in web_auth : row.email = email

Init ==
    /\ web_auth = {[id |-> k, email |-> Dump[k].email, opens |-> {Dump[k].password},
                    userID |-> k] : k \in DOMAIN Dump}
    /\ user = {[id |-> k, owner |-> Dump[k].email, last_login |-> Dump[k].email] :
                   k \in DOMAIN Dump}
    /\ nextAuth = Len(Dump) + 1
    /\ nextUser = Len(Dump) + 1
    /\ m_IsConnected = TRUE
    /\ link = "up"
    /\ process = "serving"
    /\ request = NoRequest
    /\ step = "idle"
    /\ lastId = 0 /\ hashedPassword = {} /\ id = 0
    /\ answer = NoAnswer
    /\ faults = 0

\* Between commands the local variables do not exist.
ForgetLocals == lastId' = 0 /\ hashedPassword' = {} /\ id' = 0
-----------------------------------------------------------------------------
(* Commands and answers.                                                   *)

Begin(r) ==
    /\ process = "serving"
    /\ step = "idle"
    /\ request' = r
    /\ step' = IF ~m_IsConnected THEN "unconnected"
               ELSE IF r.kind = "create" THEN "select" ELSE "email"
    /\ answer' = NoAnswer
    /\ UNCHANGED <<tables, server, locals, faults>>

\* Mutant of Return: a result for which the server sends no reply.
ReturnSilently(result, date) ==
    /\ step' = "idle"
    /\ ForgetLocals
    /\ UNCHANGED <<answer, request>>

\* The helper returns, and the server replies; date is the owner of the
\* row whose creation date the reply quotes, Nobody if it quotes none.
Return(result, date) ==
    /\ answer' = [request |-> request, result |-> result, date |-> date]
    /\ request' = NoRequest
    /\ step' = "idle"
    /\ ForgetLocals

At(s) == process = "serving" /\ step = s

\* The statement at hand works.
Works(s) == At(s) /\ link = "up"

NotConnected ==
    /\ At("unconnected")
    /\ Return("NO_CONNECTION", Nobody)
    /\ UNCHANGED <<tables, server, faults>>
-----------------------------------------------------------------------------
(* CreateAccount.                                                          *)

SelectEmail ==
    /\ Works("select")
    /\ IF HasAccount(request.email)
       THEN Return("ACCOUNT_ALREADY_EXISTS", Nobody)
       ELSE step' = "max" /\ UNCHANGED <<request, locals, answer>>
    /\ UNCHANGED <<tables, server, faults>>

\* MAX is NULL, read as 0, when the table is empty.
SelectMax ==
    /\ Works("max")
    /\ \E largest \in {0} \cup {row.userID : row \in web_auth} :
          /\ \A row \in web_auth : row.userID <= largest
          /\ web_auth = {} \/ \E row \in web_auth : row.userID = largest
          /\ lastId' = largest + 1
    /\ step' = "insertAuth"
    /\ UNCHANGED <<tables, server, request, hashedPassword, id, answer, faults>>

\* What INSERT INTO web_auth does when it takes effect.
AuthInserted ==
    /\ \A row \in web_auth : row.email # request.email /\ row.userID # lastId
    /\ \E opens \in Opens[request.password] :
          web_auth' = web_auth \cup
              {[id |-> nextAuth, email |-> request.email, opens |-> opens, userID |-> lastId]}
    /\ nextAuth' = nextAuth + 1
    /\ UNCHANGED <<user, nextUser>>

InsertAuth ==
    /\ Works("insertAuth")
    /\ AuthInserted
    /\ step' = "insertUser"
    /\ UNCHANGED <<server, request, locals, answer, faults>>

\* What INSERT INTO user does when it takes effect.
UserInserted(owner) ==
    /\ user' = user \cup {[id |-> nextUser, owner |-> owner, last_login |-> owner]}
    /\ nextUser' = nextUser + 1
    /\ UNCHANGED <<web_auth, nextAuth>>

\* Mutant of InsertUser: the insert into user is still to be written.
InsertUserTodo ==
    /\ Works("insertUser")
    /\ Return("SUCCESS", Nobody)
    /\ UNCHANGED <<tables, server, faults>>

InsertUser ==
    /\ Works("insertUser")
    /\ UserInserted(request.email)
    /\ Return("SUCCESS", Nobody)
    /\ UNCHANGED <<server, faults>>
-----------------------------------------------------------------------------
(* AuthenticateAccount and GetAccountCreationDate.                         *)

SelectAccount ==
    /\ Works("email")
    /\ IF HasAccount(request.email)
       THEN step' = "hash" /\ UNCHANGED <<request, locals, answer>>
       ELSE Return("ACCOUNT_DOES_NOT_EXIST", Nobody)
    /\ UNCHANGED <<tables, server, faults>>

SelectHash ==
    /\ Works("hash")
    /\ hashedPassword' = {AccountRow(request.email).opens}
    /\ step' = "salt"
    /\ UNCHANGED <<tables, server, request, lastId, id, answer, faults>>

\* validatePassword: the salt of the row, with the password of the request,
\* has the hash that was read before.
Validates(salt) == request.password \in salt /\ salt \in hashedPassword

SelectSalt ==
    /\ Works("salt")
    /\ IF Validates(AccountRow(request.email).opens)
       THEN step' = "id" /\ UNCHANGED <<request, locals, answer>>
       ELSE Return("INVALID_PASSWORD", Nobody)
    /\ UNCHANGED <<tables, server, faults>>

\* Both functions read the account's id for themselves.
SelectId ==
    /\ \E s \in {"id", "idAgain"} :
          /\ Works(s)
          /\ step' = IF s = "id" THEN "update" ELSE "date"
    /\ id' = AccountRow(request.email).id
    /\ UNCHANGED <<tables, server, request, lastId, hashedPassword, answer, faults>>

\* Mutant of UserRows: the WHERE clause is dropped.
UserRowsAll(userId) == user

\* The row of user the helper takes for the account's.
UserRows(userId) == {row \in user : row.id = userId}

\* What UPDATE user SET last_login does when it takes effect.
LoginRecorded ==
    /\ user' = (user \ UserRows(id)) \cup
                  {[row EXCEPT !.last_login = request.email] : row \in UserRows(id)}
    /\ UNCHANGED <<web_auth, nextAuth, nextUser>>

UpdateLogin ==
    /\ Works("update")
    /\ LoginRecorded
    /\ step' = "idAgain"
    /\ id' = 0
    /\ UNCHANGED <<server, request, lastId, hashedPassword, answer, faults>>

\* Mutant of SelectDate: the column read is the row's id.
SelectDateOtherColumn ==
    /\ Works("date")
    /\ Return("VALID_PASSWORD", id)
    /\ UNCHANGED <<tables, server, faults>>

SelectDate ==
    /\ Works("date")
    /\ Return("VALID_PASSWORD",
              IF UserRows(id) = {} THEN Nobody
              ELSE (CHOOSE row \in UserRows(id) : TRUE).owner)
    /\ UNCHANGED <<tables, server, faults>>
-----------------------------------------------------------------------------
(* Statements that fail.                                                   *)

Fault(kind) ==
    /\ kind \in Faults
    /\ faults < MaxFaults
    /\ faults' = faults + 1

\* A statement cannot succeed on a broken connection, or fails by itself.
Refused == (link = "down" /\ UNCHANGED faults) \/ (link = "up" /\ Fault("refused"))

\* A refused insert may use up an automatic id.
Burns(s) == step = s /\ link = "up"

\* The commands' statements: of each, the part inside a handler may fail, and
\* of these also a part outside of it, such as preparing the statement or
\* reading its result.
Caught == {"select", "max", "insertAuth", "insertUser",
           "email", "hash", "salt", "id", "update", "idAgain", "date"}
Uncaught == {"select", "max", "email", "hash", "salt", "idAgain"}

\* Mutant of StatementFails: the first insert's handler only logs.
StatementFailsLogged ==
    /\ \E s \in Caught : At(s)
    /\ Refused
    /\ Return(IF step = "insertAuth" THEN "SUCCESS" ELSE "INTERNAL_SERVER_ERROR", Nobody)
    /\ UNCHANGED <<server, tables>>

\* The handler around the statement returns an error; after a login was
\* recorded, the reply is that the creation date could not be read.
StatementFails ==
    /\ \E s \in Caught : At(s)
    /\ Refused
    /\ Return(IF step \in {"idAgain", "date"} THEN "VALID_PASSWORD" ELSE "INTERNAL_SERVER_ERROR", Nobody)
    /\ UNCHANGED <<server, web_auth, user>>
    /\ nextAuth' \in {nextAuth, IF Burns("insertAuth") THEN nextAuth + 1 ELSE nextAuth}
    /\ nextUser' \in {nextUser, IF Burns("insertUser") THEN nextUser + 1 ELSE nextUser}

\* A call outside the handlers: its exception ends the server.
CallThrows ==
    /\ \E s \in Uncaught : At(s)
    /\ Refused
    /\ process' = "down"
    /\ request' = NoRequest
    /\ step' = "idle"
    /\ ForgetLocals
    /\ UNCHANGED <<tables, m_IsConnected, link, answer>>

\* The statement takes effect, and the helper sees it fail.
StatementUnanswered ==
    /\ link = "up"
    /\ Fault("unanswered")
    /\ \/ At("insertAuth") /\ AuthInserted
       \/ At("insertUser") /\ UserInserted(request.email)
       \/ At("update") /\ LoginRecorded
    /\ Return("INTERNAL_SERVER_ERROR", Nobody)
    /\ UNCHANGED server
-----------------------------------------------------------------------------
(* The environment.                                                        *)

\* The connection is never made again by this process.
LinkBreaks ==
    /\ link = "up" /\ process = "serving" /\ m_IsConnected
    /\ Fault("link")
    /\ link' = "down"
    /\ UNCHANGED <<tables, m_IsConnected, process, request, step, locals, answer>>

Crash ==
    /\ process = "serving"
    /\ Fault("crash")
    /\ process' = "down"
    /\ request' = NoRequest
    /\ step' = "idle"
    /\ ForgetLocals
    /\ UNCHANGED <<tables, m_IsConnected, link, answer>>

\* Connect: without a connection the server runs all the same; a connection
\* on which its statements cannot be prepared ends it again.
Restart ==
    /\ process = "down"
    /\ process' = "serving"
    /\ \/ m_IsConnected' = TRUE /\ link' = "up" /\ UNCHANGED faults
       \/ m_IsConnected' = FALSE /\ link' = "down" /\ Fault("link")
    /\ answer' = NoAnswer
    /\ UNCHANGED <<tables, request, step, locals>>

AdminInsert ==
    /\ Cardinality(user) < MaxUsers
    /\ Fault("insert")
    /\ UserInserted(Nobody)
    /\ UNCHANGED <<server, request, step, locals, answer>>

\* The lowest value MySQL lets a counter be set to.
LeastNext(table) ==
    CHOOSE n \in 1 .. nextAuth + nextUser :
        /\ \A row \in table : row.id < n
        /\ n = 1 \/ \E row \in table : row.id = n - 1

AdminReset ==
    /\ Fault("reset")
    /\ nextAuth' = LeastNext(web_auth)
    /\ nextUser' = LeastNext(user)
    /\ UNCHANGED <<web_auth, user, server, request, step, locals, answer>>

Helper ==
    \/ NotConnected
    \/ SelectEmail \/ SelectMax \/ InsertAuth \/ InsertUser
    \/ SelectAccount \/ SelectHash \/ SelectSalt \/ SelectId
    \/ UpdateLogin \/ SelectDate
    \/ StatementFails \/ CallThrows \/ StatementUnanswered

Next ==
    \/ \E r \in Requests : Begin(r)
    \/ Helper
    \/ LinkBreaks \/ Crash \/ Restart \/ AdminInsert \/ AdminReset

Spec == Init /\ [][Next]_vars

\* The thread executes a command without waiting for anything else.
FairSpec == Spec /\ WF_vars(Helper)
-----------------------------------------------------------------------------
TypeOK ==
    /\ web_auth \subseteq [id : Nat, email : Emails, opens : SUBSET Passwords, userID : Nat]
    /\ user \subseteq [id : Nat, owner : Emails \cup {Nobody}, last_login : Emails \cup {Nobody}]
    /\ nextAuth \in Nat /\ nextUser \in Nat
    /\ m_IsConnected \in BOOLEAN
    /\ link \in {"up", "down"}
    /\ process \in {"serving", "down"}
    /\ request \in Requests \cup {NoRequest}
    /\ request = NoRequest <=> step = "idle"
    /\ step \in {"idle", "unconnected", "select", "max", "insertAuth", "insertUser",
                 "email", "hash", "salt", "id", "update", "idAgain", "date"}
    /\ lastId \in Nat
    /\ hashedPassword \in {{}} \cup {{opens} : opens \in SUBSET Passwords}
    /\ id \in Nat
    /\ answer \in {NoAnswer} \cup Answers
    /\ faults \in 0 .. MaxFaults

\* The ids of the accounts are in step: the tables hold the ids up to their
\* counters, the counters agree but for the account being added, and the row
\* of user with an account's id, which is its userID, was inserted for it.
IdsInStep ==
    /\ {row.id : row \in web_auth} = 1 .. nextAuth - 1
    /\ {row.id : row \in user} = 1 .. nextUser - 1
    /\ nextAuth = IF step = "insertUser" THEN nextUser + 1 ELSE nextUser
    /\ step = "insertAuth" => lastId = nextAuth
    /\ \A row \in web_auth :
          /\ row.userID = row.id
          /\ \/ \E u \in user : u.id = row.id /\ u.owner = row.email
             \/ step = "insertUser" /\ row.email = request.email /\ row.id = nextUser

\* CreateAccount computes userID from the largest one and leaves the other
\* two ids to counters of two tables.  They go out of step only with a
\* reported internal error, the end of the server, or a row inserted by hand:
\* never while accounts are added and refused as they should be, nor when the
\* counters are reset, nor when a broken connection is made again.
IdsStayInStep ==
    [][IdsInStep /\ ~IdsInStep' =>
          \/ process' = "down"
          \/ answer' # answer /\ answer'.result = "INTERNAL_SERVER_ERROR"
          \/ \E u \in user' \ user : u.owner = Nobody]_vars

\* AuthenticateAccount writes last_login by the account's id: while the ids
\* are in step, on the row of the account that logged in and on no other.
LoginOnOwnRow ==
    [][IdsInStep => \A u \in user' \ user : u.last_login = u.owner]_vars

\* GetAccountCreationDate reads by the same id: while the ids are in step,
\* no login is answered with another account's date.
DateOfOwnRow ==
    [][IdsInStep /\ answer' \notin {answer, NoAnswer} =>
          answer'.date \in {Nobody, answer'.request.email}]_vars

\* A login is answered with the creation date of that account.
DateOfOwnAccount ==
    answer # NoAnswer =>
        answer.date \in {Nobody, answer.request.email}

\* A command is answered, unless the server ends on the way.
CommandAnswered == request # NoRequest ~> (request = NoRequest)

\* The helper implements a registry of accounts that answers truthfully.
Registry == INSTANCE AccountRegistry WITH
    accounts <- [e \in Emails |-> {row.opens : row \in {r \in web_auth : r.email = e}}],
    pending  <- request,
    added    <- step = "insertUser",
    answer   <- IF answer = NoAnswer THEN NoAnswer
                ELSE [request |-> answer.request, result |-> answer.result]

ImplementsAccountRegistry == Registry!Spec
=============================================================================
