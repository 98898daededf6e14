------------------------- MODULE AccountStoreProofs -------------------------
(***************************************************************************)
(* Safety of the accounts, for any emails and passwords, any dump, any set *)
(* of faults and any number of them.                                       *)
(*                                                                         *)
(* The invariant has two parts.  TableInv says that the counters are above *)
(* the ids and that emails and ids are keys; CommandInv says what each     *)
(* step of a command knows from the steps before it: the single thread of  *)
(* the server is why the row a statement finds is the row the statements   *)
(* before it found.                                                        *)
(***************************************************************************)
EXTENDS AccountStore, SequenceLemmas

CreateSteps == {"select", "max", "insertAuth", "insertUser"}
FoundSteps == {"hash", "salt", "id", "update", "idAgain", "date"}
AuthSteps == FoundSteps \cup {"email"}
Steps == {"idle", "unconnected"} \cup CreateSteps \cup AuthSteps

\* TypeOK, of the tables and of the command.
TypeTables ==
    /\ web_auth \subseteq [id : Nat, email : Emails, opens : SUBSET Passwords, userID : Nat]
    /\ user \subseteq [id : Nat, owner : Emails \cup {Nobody}, last_login : Emails \cup {Nobody}]
    /\ nextAuth \in Nat /\ nextUser \in Nat

TypeCommand ==
    /\ m_IsConnected \in BOOLEAN
    /\ link \in {"up", "down"}
    /\ process \in {"serving", "down"}
    /\ request \in Requests \cup {NoRequest}
    /\ request = NoRequest <=> step = "idle"
    /\ step \in Steps
    /\ lastId \in Nat
    /\ hashedPassword \in {{}} \cup {{opens} : opens \in SUBSET Passwords}
    /\ id \in Nat
    /\ answer \in {NoAnswer} \cup Answers
    /\ faults \in 0 .. MaxFaults

TableInv ==
    /\ nextAuth >= 1 /\ \A row \in web_auth : row.id < nextAuth
    /\ nextUser >= 1 /\ \A row \in user : row.id < nextUser
    /\ \A r, s \in web_auth : r.email = s.email => r = s
    /\ \A r, s \in user : r.id = s.id => r = s

CommandInv ==
    /\ process = "down" => step = "idle"
    /\ step # "idle" => answer = NoAnswer
    /\ step \in CreateSteps => request.kind = "create"
    /\ step \in AuthSteps => request.kind = "auth"
    /\ step \in FoundSteps => HasAccount(request.email)
    /\ step = "salt" => hashedPassword = {AccountRow(request.email).opens}
    /\ step \in {"id", "update", "idAgain", "date"} =>
          request.password \in AccountRow(request.email).opens
    /\ step \in {"update", "date"} => id = AccountRow(request.email).id

TablesOK == TypeTables /\ TableInv
CommandOK == TypeCommand /\ CommandInv

\* The types are what TypeOK says.
LEMMA TypeParts == TypeOK <=> TypeTables /\ TypeCommand
BY DEF TypeOK, TypeTables, TypeCommand, Steps, CreateSteps, AuthSteps, FoundSteps

\* A command under way is a request.
LEMMA AtWork ==
    ASSUME TypeCommand, step # "idle"
    PROVE  /\ request \in Requests
           /\ request.kind \in {"create", "auth"}
           /\ request.email \in Emails /\ request.password \in Passwords
BY DEF TypeCommand, Requests

\* The row of an account is a row, and the account's.
LEMMA RowOfAccount ==
    ASSUME NEW email, HasAccount(email)
    PROVE  AccountRow(email) \in web_auth /\ AccountRow(email).email = email
BY DEF HasAccount, AccountRow
-----------------------------------------------------------------------------
(* The tables.                                                             *)

\* The tables as they are.
LEMMA TablesSame ==
    ASSUME TablesOK, UNCHANGED tables
    PROVE  TablesOK'
BY DEF TablesOK, TypeTables, TableInv, tables

\* A row of web_auth with the next id, for an email that has none.
LEMMA AuthInsertedKeeps ==
    ASSUME TablesOK, request \in Requests, lastId \in Nat, AuthInserted
    PROVE  TablesOK'
<1>0. PICK opens \in Opens[request.password] :
          web_auth' = web_auth \cup
              {[id |-> nextAuth, email |-> request.email, opens |-> opens, userID |-> lastId]}
  BY DEF AuthInserted
<1> DEFINE new == [id |-> nextAuth, email |-> request.email, opens |-> opens,
                   userID |-> lastId]
<1>1. /\ web_auth' = web_auth \cup {new}
      /\ nextAuth' = nextAuth + 1
      /\ UNCHANGED <<user, nextUser>>
      /\ \A row \in web_auth : row.email # new.email
  BY <1>0 DEF AuthInserted
<1>2. /\ new \in [id : Nat, email : Emails, opens : SUBSET Passwords, userID : Nat]
      /\ new.id = nextAuth
  <2>1. opens \subseteq Passwords
    BY DEF Opens, Requests
  <2> QED
    BY <2>1 DEF TablesOK, TypeTables, Requests
<1> HIDE DEF new
<1>3. TypeTables'
  BY <1>1, <1>2 DEF TablesOK, TypeTables
<1>4. nextAuth' >= 1 /\ \A row \in web_auth' : row.id < nextAuth'
  <2>1. \A row \in web_auth : row.id \in Nat /\ row.id < nextAuth
    BY DEF TablesOK, TypeTables, TableInv
  <2> QED
    BY <1>1, <1>2, <2>1 DEF TablesOK, TypeTables
<1>5. \A r, s \in web_auth' : r.email = s.email => r = s
  BY <1>1 DEF TablesOK, TableInv
<1> QED
  BY <1>1, <1>3, <1>4, <1>5 DEF TablesOK, TableInv

\* A row of user with the next id.
LEMMA UserInsertedKeeps ==
    ASSUME TablesOK, NEW owner \in Emails \cup {Nobody}, UserInserted(owner)
    PROVE  TablesOK'
<1> DEFINE new == [id |-> nextUser, owner |-> owner, last_login |-> owner]
<1>1. /\ user' = user \cup {new}
      /\ nextUser' = nextUser + 1
      /\ UNCHANGED <<web_auth, nextAuth>>
  BY DEF UserInserted
<1>2. /\ new \in [id : Nat, owner : Emails \cup {Nobody}, last_login : Emails \cup {Nobody}]
      /\ new.id = nextUser
  BY DEF TablesOK, TypeTables
<1> HIDE DEF new
<1>3. TypeTables'
  BY <1>1, <1>2 DEF TablesOK, TypeTables
<1>4. \A row \in user : row.id \in Nat /\ row.id < nextUser
  BY DEF TablesOK, TypeTables, TableInv
<1>5. nextUser' >= 1 /\ \A row \in user' : row.id < nextUser'
  BY <1>1, <1>2, <1>4 DEF TablesOK, TypeTables
<1>6. \A r, s \in user' : r.id = s.id => r = s
  <2>1. \A row \in user : row.id # new.id
    BY <1>2, <1>4 DEF TablesOK, TypeTables
  <2> QED
    BY <1>1, <2>1 DEF TablesOK, TableInv
<1> QED
  BY <1>1, <1>3, <1>5, <1>6 DEF TablesOK, TableInv

\* The recording of a login, row by row: each row keeps its id and its owner.
LEMMA LoginRows ==
    ASSUME TypeTables, LoginRecorded
    PROVE  /\ \A u \in user' :
                 \/ u \in user /\ u.id # id
                 \/ \E row \in user : /\ row.id = id
                                      /\ u = [row EXCEPT !.last_login = request.email]
                                      /\ u.id = row.id /\ u.owner = row.owner
                                      /\ u.last_login = request.email
           /\ \A row \in user : \E u \in user' : u.id = row.id /\ u.owner = row.owner
<1>1. user' = (user \ UserRows(id)) \cup
                  {[row EXCEPT !.last_login = request.email] : row \in UserRows(id)}
  BY DEF LoginRecorded
<1>2. ASSUME NEW row \in user
      PROVE  LET u == [row EXCEPT !.last_login = request.email]
             IN  u.id = row.id /\ u.owner = row.owner /\ u.last_login = request.email
  BY DEF TypeTables
<1>3. \A row \in user : row \in UserRows(id) <=> row.id = id
  BY DEF UserRows
<1>4. UserRows(id) \subseteq user
  BY DEF UserRows
<1> QED
  BY <1>1, <1>2, <1>3, <1>4

\* The recording of a login keeps the ids of user a key.
LEMMA LoginKeeps ==
    ASSUME TablesOK, request \in Requests, LoginRecorded
    PROVE  TablesOK'
<1>1. UNCHANGED <<web_auth, nextAuth, nextUser>>
  BY DEF LoginRecorded
<1>2. \A u \in user' :
          \/ u \in user /\ u.id # id
          \/ \E row \in user : /\ row.id = id
                               /\ u = [row EXCEPT !.last_login = request.email]
                               /\ u.id = row.id /\ u.owner = row.owner
                               /\ u.last_login = request.email
  BY LoginRows DEF TablesOK
<1>3. ASSUME NEW row \in user
      PROVE  [row EXCEPT !.last_login = request.email] \in
                 [id : Nat, owner : Emails \cup {Nobody}, last_login : Emails \cup {Nobody}]
  BY DEF TablesOK, TypeTables, Requests
<1>4. TypeTables'
  BY <1>1, <1>2, <1>3 DEF TablesOK, TypeTables
<1>5. \A u \in user' : u.id < nextUser
  BY <1>2 DEF TablesOK, TableInv
<1>6. \A r, s \in user' : r.id = s.id => r = s
  BY <1>2 DEF TablesOK, TableInv
<1> QED
  BY <1>1, <1>4, <1>5, <1>6 DEF TablesOK, TableInv

\* Counters that grow.
LEMMA CountersKeep ==
    ASSUME TablesOK, UNCHANGED <<web_auth, user>>,
           nextAuth' \in {nextAuth, nextAuth + 1}, nextUser' \in {nextUser, nextUser + 1}
    PROVE  TablesOK'
<1>1. /\ \A row \in web_auth : row.id \in Nat /\ row.id < nextAuth
      /\ \A row \in user : row.id \in Nat /\ row.id < nextUser
  BY DEF TablesOK, TypeTables, TableInv
<1> QED
  BY <1>1 DEF TablesOK, TypeTables, TableInv

\* The value MySQL resets a counter to is above the ids, and no higher than
\* that needs.
LEMMA LeastNextAbove ==
    ASSUME NEW table, NEW next \in 1 .. nextAuth + nextUser, nextAuth \in Nat, nextUser \in Nat,
           \A row \in table : row.id \in Nat /\ row.id < next
    PROVE  /\ LeastNext(table) \in 1 .. nextAuth + nextUser
           /\ \A row \in table : row.id < LeastNext(table)
           /\ LeastNext(table) = 1 \/ \E row \in table : row.id = LeastNext(table) - 1
<1> DEFINE I == {n \in Nat : n >= 1 /\ \A row \in table : row.id < n}
           m == Min(I)
<1>1. I \subseteq Nat /\ next \in I
  OBVIOUS
<1>2. m \in I /\ \A n \in I : m <= n
  <2> HIDE DEF I
  <2> QED
    BY <1>1, MinOfNaturals
<1> HIDE DEF m
<1>3. m \in 1 .. nextAuth + nextUser
  BY <1>1, <1>2
<1>4. m = 1 \/ \E row \in table : row.id = m - 1
  <2> SUFFICES ASSUME m # 1
               PROVE  \E row \in table : row.id = m - 1
    OBVIOUS
  <2>1. m - 1 \in Nat /\ m - 1 >= 1 /\ m - 1 \notin I
    BY <1>2
  <2>2. PICK row \in table : ~(row.id < m - 1)
    BY <2>1
  <2>3. row.id = m - 1
    BY <1>2, <2>2
  <2> QED
    BY <2>3
<1>5. \E n \in 1 .. nextAuth + nextUser :
          /\ \A row \in table : row.id < n
          /\ n = 1 \/ \E row \in table : row.id = n - 1
  BY <1>2, <1>3, <1>4
<1> QED
  BY <1>5 DEF LeastNext

\* The administrator resets the counters.
LEMMA ResetKeeps ==
    ASSUME TablesOK, AdminReset
    PROVE  TablesOK'
<1>1. /\ UNCHANGED <<web_auth, user>>
      /\ nextAuth' = LeastNext(web_auth) /\ nextUser' = LeastNext(user)
  BY DEF AdminReset
<1>2. /\ nextAuth \in 1 .. nextAuth + nextUser /\ nextUser \in 1 .. nextAuth + nextUser
      /\ \A row \in web_auth : row.id \in Nat /\ row.id < nextAuth
      /\ \A row \in user : row.id \in Nat /\ row.id < nextUser
      /\ nextAuth \in Nat /\ nextUser \in Nat
  BY DEF TablesOK, TypeTables, TableInv
<1>3. /\ LeastNext(web_auth) \in 1 .. nextAuth + nextUser
      /\ \A row \in web_auth : row.id < LeastNext(web_auth)
  BY <1>2, LeastNextAbove
<1>4. /\ LeastNext(user) \in 1 .. nextAuth + nextUser
      /\ \A row \in user : row.id < LeastNext(user)
  BY <1>2, LeastNextAbove
<1> QED
  BY <1>1, <1>2, <1>3, <1>4 DEF TablesOK, TypeTables, TableInv
-----------------------------------------------------------------------------
(* The command.                                                            *)

\* The count of faults stays below its bound.
LEMMA FaultsCounted ==
    ASSUME faults \in 0 .. MaxFaults
    PROVE  /\ \A kind : Fault(kind) => faults' \in 0 .. MaxFaults
           /\ Refused => faults' \in 0 .. MaxFaults
<1>1. \A kind : Fault(kind) => faults' \in 0 .. MaxFaults
  BY AccountAssumption DEF Fault
<1> QED
  BY <1>1 DEF Refused

\* A command that returns leaves nothing but its answer.
LEMMA ReturnKeeps ==
    ASSUME TypeCommand, step # "idle", UNCHANGED server, faults' \in 0 .. MaxFaults,
           NEW result \in Results, NEW date \in Emails \cup {Nobody}, Return(result, date)
    PROVE  /\ CommandOK'
           /\ answer' = [request |-> request, result |-> result, date |-> date]
           /\ answer' # NoAnswer
<1>1. request \in Requests
  BY AtWork
<1>2. [request |-> request, result |-> result, date |-> date] \in Answers
  BY <1>1 DEF Answers
<1>3. answer' # NoAnswer /\ answer' \in Answers
  BY <1>2, AccountAssumption DEF Return
<1>4. TypeCommand'
  BY <1>3 DEF Return, ForgetLocals, TypeCommand, server, Steps
<1>5. CommandInv'
  BY DEF Return, CommandInv, CreateSteps, AuthSteps, FoundSteps
<1> QED
  BY <1>3, <1>4, <1>5 DEF CommandOK, Return

\* A command that ends with its process leaves nothing.
LEMMA DropKeeps ==
    ASSUME TypeCommand, faults' \in 0 .. MaxFaults,
           process' = "down", request' = NoRequest, step' = "idle", ForgetLocals,
           UNCHANGED <<m_IsConnected, link, answer>>
    PROVE  CommandOK'
<1>1. TypeCommand'
  BY DEF ForgetLocals, TypeCommand, Steps
<1>2. CommandInv'
  BY DEF CommandInv, CreateSteps, AuthSteps, FoundSteps
<1> QED
  BY <1>1, <1>2 DEF CommandOK

\* What a command knows, it knows after a step of somebody else.
LEMMA CommandSame ==
    ASSUME CommandOK, link' \in {"up", "down"}, faults' \in 0 .. MaxFaults,
           UNCHANGED <<web_auth, m_IsConnected, process, request, step, locals, answer>>
    PROVE  CommandOK'
<1>1. TypeCommand'
  BY DEF CommandOK, TypeCommand, locals
<1>2. CommandInv'
  BY DEF CommandOK, CommandInv, locals, HasAccount, AccountRow
<1> QED
  BY <1>1, <1>2 DEF CommandOK

\* A command begins with its first statement, or none without a connection.
LEMMA BeginKeeps ==
    ASSUME CommandOK, NEW r \in Requests, Begin(r)
    PROVE  CommandOK'
<1>1. /\ process' = "serving" /\ request' = r /\ answer' = NoAnswer
      /\ step' \in {"unconnected", "select", "email"}
      /\ step' = "select" => r.kind = "create"
      /\ step' = "email" => r.kind = "auth"
  BY DEF Begin, server, Requests
<1>2. TypeCommand'
  BY <1>1, AccountAssumption
  DEF CommandOK, Begin, TypeCommand, server, locals, Steps, CreateSteps, AuthSteps
<1>3. CommandInv'
  BY <1>1 DEF CommandInv, CreateSteps, AuthSteps, FoundSteps
<1> QED
  BY <1>2, <1>3 DEF CommandOK

\* CreateAccount goes from statement to statement.
LEMMA CreateKeeps ==
    ASSUME TypeTables, CommandOK, SelectEmail \/ SelectMax \/ InsertAuth \/ InsertUser
    PROVE  CommandOK'
<1>1. Nobody \in Emails \cup {Nobody} /\ {"SUCCESS", "ACCOUNT_ALREADY_EXISTS"} \subseteq Results
  BY DEF Results
<1>2. faults' \in 0 .. MaxFaults /\ UNCHANGED server /\ step # "idle" /\ TypeCommand
      /\ process = "serving" /\ step \in CreateSteps
  BY DEF CommandOK, TypeCommand, SelectEmail, SelectMax, InsertAuth, InsertUser, Works, At, CreateSteps
<1>3. CASE SelectEmail /\ Return("ACCOUNT_ALREADY_EXISTS", Nobody)
  BY <1>1, <1>2, <1>3, ReturnKeeps
<1>4. CASE InsertUser
  BY <1>1, <1>2, <1>4, ReturnKeeps DEF InsertUser
<1>5. ASSUME step' \in {"max", "insertAuth", "insertUser"}, lastId' \in Nat,
             UNCHANGED <<request, hashedPassword, id, answer>>
      PROVE  CommandOK'
  <2>1. TypeCommand'
    BY <1>2, <1>5 DEF TypeCommand, server, Steps, CreateSteps
  <2>2. request.kind = "create" /\ answer = NoAnswer /\ step' # "idle" /\ process' = "serving"
    BY <1>2, <1>5 DEF CommandOK, CommandInv, server
  <2>3. CommandInv'
    BY <1>5, <2>2 DEF CommandInv, CreateSteps, AuthSteps, FoundSteps
  <2> QED
    BY <2>1, <2>3 DEF CommandOK
<1>6. CASE SelectEmail /\ step' = "max" /\ UNCHANGED <<request, locals, answer>>
  BY <1>2, <1>5, <1>6 DEF locals, TypeCommand
<1>7. CASE SelectMax
  <2>1. lastId' \in Nat
    <3>1. PICK largest \in {0} \cup {row.userID : row \in web_auth} : lastId' = largest + 1
      BY <1>7 DEF SelectMax
    <3>2. \A row \in web_auth : row.userID \in Nat
      BY DEF TypeTables
    <3> QED
      BY <3>1, <3>2
  <2> QED
    BY <1>5, <1>7, <2>1 DEF SelectMax
<1>8. CASE InsertAuth
  BY <1>2, <1>5, <1>8 DEF InsertAuth, locals, TypeCommand
<1> QED
  BY <1>3, <1>4, <1>6, <1>7, <1>8 DEF SelectEmail

\* AuthenticateAccount, and GetAccountCreationDate behind it, go from
\* statement to statement.
LEMMA AuthKeeps ==
    ASSUME TypeTables, CommandOK,
           SelectAccount \/ SelectHash \/ SelectSalt \/ SelectId \/ UpdateLogin \/ SelectDate
    PROVE  CommandOK'
<1>1. Nobody \in Emails \cup {Nobody}
      /\ {"ACCOUNT_DOES_NOT_EXIST", "INVALID_PASSWORD", "VALID_PASSWORD"} \subseteq Results
  BY DEF Results
<1>2. /\ faults' \in 0 .. MaxFaults /\ UNCHANGED server /\ TypeCommand
      /\ process = "serving" /\ step \in AuthSteps /\ step # "idle"
      /\ UNCHANGED web_auth
  BY DEF CommandOK, TypeCommand, SelectAccount, SelectHash, SelectSalt, SelectId, UpdateLogin,
         LoginRecorded, SelectDate, Works, At, AuthSteps, FoundSteps, tables
<1> DEFINE row == AccountRow(request.email)
<1>3. request.kind = "auth" /\ answer = NoAnswer
  BY <1>2 DEF CommandOK, CommandInv
<1>4. HasAccount(request.email) =>
          row \in [id : Nat, email : Emails, opens : SUBSET Passwords, userID : Nat]
  BY RowOfAccount DEF TypeTables
<1>5. step \in FoundSteps => HasAccount(request.email)
  BY DEF CommandOK, CommandInv
<1>6. ASSUME step' \in FoundSteps, HasAccount(request.email), UNCHANGED <<request, lastId, answer>>,
             hashedPassword' \in {{}} \cup {{opens} : opens \in SUBSET Passwords}, id' \in Nat,
             step' = "salt" => hashedPassword' = {row.opens},
             step' \in {"id", "update", "idAgain", "date"} => request.password \in row.opens,
             step' \in {"update", "date"} => id' = row.id
      PROVE  CommandOK'
  <2>1. step' # "idle" /\ process' = "serving"
    BY <1>2, <1>6 DEF server, FoundSteps
  <2>2. TypeCommand'
    BY <1>2, <1>6, <2>1 DEF TypeCommand, server, Steps, AuthSteps
  <2>3. HasAccount(request.email)' /\ AccountRow(request.email)' = row
    BY <1>2, <1>6 DEF HasAccount, AccountRow
  <2> HIDE DEF row
  <2>4. CommandInv'
    BY <1>3, <1>6, <2>1, <2>3 DEF CommandInv, CreateSteps, AuthSteps, FoundSteps
  <2> QED
    BY <2>2, <2>4 DEF CommandOK
<1>7. CASE SelectAccount
  <2>1. CASE HasAccount(request.email)
    BY <1>2, <1>6, <1>7, <2>1 DEF SelectAccount, locals, TypeCommand, FoundSteps
  <2>2. CASE ~HasAccount(request.email)
    BY <1>1, <1>2, <1>7, <2>2, ReturnKeeps DEF SelectAccount
  <2> QED
    BY <2>1, <2>2
<1>8. CASE SelectHash
  <2>1. step = "hash" /\ HasAccount(request.email)
    BY <1>5, <1>8 DEF SelectHash, Works, At, FoundSteps
  <2>2. row.opens \in SUBSET Passwords
    BY <1>4, <2>1
  <2>3. /\ step' = "salt" /\ hashedPassword' = {row.opens}
        /\ UNCHANGED <<request, lastId, id, answer>>
    BY <1>8 DEF SelectHash
  <2> HIDE DEF row
  <2> QED
    BY <1>2, <1>6, <2>1, <2>2, <2>3 DEF FoundSteps, TypeCommand
<1>9. CASE SelectSalt
  <2>1. step = "salt" /\ HasAccount(request.email)
    BY <1>5, <1>9 DEF SelectSalt, Works, At, FoundSteps
  <2>2. CASE Validates(row.opens)
    <3>1. request.password \in row.opens
      BY <2>2 DEF Validates
    <3>2. step' = "id" /\ UNCHANGED <<request, lastId, hashedPassword, id, answer>>
      BY <1>9, <2>2 DEF SelectSalt, locals
    <3> QED
      BY <1>2, <1>6, <2>1, <3>1, <3>2 DEF FoundSteps, TypeCommand
  <2>3. CASE ~Validates(row.opens)
    BY <1>1, <1>2, <1>9, <2>3, ReturnKeeps DEF SelectSalt
  <2> QED
    BY <2>2, <2>3
<1>10. CASE SelectId
  <2>1. step \in {"id", "idAgain"} /\ HasAccount(request.email)
    BY <1>5, <1>10 DEF SelectId, Works, At, FoundSteps
  <2>2. request.password \in row.opens
    BY <2>1 DEF CommandOK, CommandInv
  <2>3. row.id \in Nat
    BY <1>4, <2>1
  <2>4. /\ step' \in {"update", "date"} /\ id' = row.id
        /\ UNCHANGED <<request, lastId, hashedPassword, answer>>
    BY <1>10 DEF SelectId
  <2> HIDE DEF row
  <2> QED
    BY <1>2, <1>6, <2>1, <2>2, <2>3, <2>4 DEF FoundSteps, TypeCommand
<1>11. CASE UpdateLogin
  <2>1. step = "update" /\ HasAccount(request.email)
    BY <1>5, <1>11 DEF UpdateLogin, Works, At, FoundSteps
  <2>2. request.password \in row.opens
    BY <2>1 DEF CommandOK, CommandInv
  <2>3. step' = "idAgain" /\ id' = 0 /\ UNCHANGED <<request, lastId, hashedPassword, answer>>
    BY <1>11 DEF UpdateLogin
  <2> QED
    BY <1>2, <1>6, <2>1, <2>2, <2>3 DEF FoundSteps, TypeCommand
<1>12. CASE SelectDate
  <2> DEFINE date == IF UserRows(id) = {} THEN Nobody
                     ELSE (CHOOSE u \in UserRows(id) : TRUE).owner
  <2>1. date \in Emails \cup {Nobody}
    BY DEF UserRows, TypeTables
  <2>2. Return("VALID_PASSWORD", date)
    BY <1>12 DEF SelectDate
  <2> HIDE DEF date
  <2> QED
    BY <1>1, <1>2, <2>1, <2>2, ReturnKeeps
<1> QED
  BY <1>7, <1>8, <1>9, <1>10, <1>11, <1>12
-----------------------------------------------------------------------------
(* Every step.                                                             *)

\* A statement that works, and the reply of a server without a connection.
LEMMA HelperKeepsTables ==
    ASSUME TablesOK, CommandOK,
           \/ NotConnected \/ SelectEmail \/ SelectMax \/ InsertAuth \/ InsertUser
           \/ SelectAccount \/ SelectHash \/ SelectSalt \/ SelectId \/ UpdateLogin \/ SelectDate
    PROVE  TablesOK'
<1>1. CASE NotConnected \/ SelectEmail \/ SelectMax \/ SelectAccount \/ SelectHash
           \/ SelectSalt \/ SelectId \/ SelectDate
  <2>1. UNCHANGED tables
    BY <1>1 DEF NotConnected, SelectEmail, SelectMax, SelectAccount, SelectHash, SelectSalt,
                SelectId, SelectDate
  <2> QED
    BY <2>1, TablesSame
<1>2. step \in CreateSteps \cup AuthSteps => request \in Requests /\ request.email \in Emails
  BY AtWork DEF CommandOK, CreateSteps, AuthSteps, FoundSteps
<1>3. CASE InsertAuth
  BY <1>2, <1>3, AuthInsertedKeeps DEF InsertAuth, Works, At, CreateSteps, CommandOK, TypeCommand
<1>4. CASE InsertUser
  BY <1>2, <1>4, UserInsertedKeeps DEF InsertUser, Works, At, CreateSteps
<1>5. CASE UpdateLogin
  BY <1>2, <1>5, LoginKeeps DEF UpdateLogin, Works, At, AuthSteps, FoundSteps
<1> QED
  BY <1>1, <1>3, <1>4, <1>5

\* A statement fails, and its handler returns an error.
LEMMA StatementFailsKeeps ==
    ASSUME TablesOK, CommandOK, StatementFails
    PROVE  TablesOK' /\ CommandOK'
<1>1. /\ step # "idle" /\ TypeCommand /\ faults' \in 0 .. MaxFaults /\ UNCHANGED server
      /\ Nobody \in Emails \cup {Nobody}
  BY FaultsCounted DEF StatementFails, Caught, At, CommandOK, TypeCommand
<1>2. \E result \in Results : Return(result, Nobody)
  BY DEF StatementFails, Results
<1>3. CommandOK'
  BY <1>1, <1>2, ReturnKeeps
<1>4. /\ UNCHANGED <<web_auth, user>>
      /\ nextAuth' \in {nextAuth, nextAuth + 1} /\ nextUser' \in {nextUser, nextUser + 1}
  BY DEF StatementFails
<1> QED
  BY <1>3, <1>4, CountersKeep

\* A statement takes effect and is seen to fail.
LEMMA UnansweredKeeps ==
    ASSUME TablesOK, CommandOK, StatementUnanswered
    PROVE  TablesOK' /\ CommandOK'
<1>1. /\ step # "idle" /\ TypeCommand /\ UNCHANGED server
      /\ Nobody \in Emails \cup {Nobody} /\ "INTERNAL_SERVER_ERROR" \in Results
      /\ Return("INTERNAL_SERVER_ERROR", Nobody)
  BY DEF StatementUnanswered, At, CommandOK, Results
<1>2. faults' \in 0 .. MaxFaults
  BY FaultsCounted DEF StatementUnanswered, CommandOK, TypeCommand
<1>3. CommandOK'
  BY <1>1, <1>2, ReturnKeeps
<1>4. request \in Requests /\ request.email \in Emails /\ lastId \in Nat
  BY <1>1, AtWork DEF TypeCommand
<1>5. AuthInserted \/ UserInserted(request.email) \/ LoginRecorded
  BY DEF StatementUnanswered
<1> QED
  BY <1>3, <1>4, <1>5, AuthInsertedKeeps, UserInsertedKeeps, LoginKeeps

\* The process ends.
LEMMA ProcessEndKeeps ==
    ASSUME TablesOK, CommandOK, CallThrows \/ Crash
    PROVE  TablesOK' /\ CommandOK'
<1>1. faults' \in 0 .. MaxFaults /\ UNCHANGED tables
  BY FaultsCounted DEF CallThrows, Crash, CommandOK, TypeCommand
<1>2. /\ process' = "down" /\ request' = NoRequest /\ step' = "idle" /\ ForgetLocals
      /\ UNCHANGED <<m_IsConnected, link, answer>>
  BY DEF CallThrows, Crash
<1> QED
  BY <1>1, <1>2, DropKeeps, TablesSame DEF CommandOK

\* The process starts again.
LEMMA RestartKeeps ==
    ASSUME TablesOK, CommandOK, Restart
    PROVE  TablesOK' /\ CommandOK'
<1>1. step = "idle" /\ step' = "idle" /\ process' = "serving" /\ answer' = NoAnswer
  BY DEF Restart, CommandOK, CommandInv
<1>2. faults' \in 0 .. MaxFaults /\ UNCHANGED <<tables, request, locals>>
  BY FaultsCounted DEF Restart, CommandOK, TypeCommand
<1>3. m_IsConnected' \in BOOLEAN /\ link' \in {"up", "down"}
  BY DEF Restart
<1>4. TypeCommand'
  BY <1>1, <1>2, <1>3 DEF CommandOK, TypeCommand, locals
<1>5. CommandInv'
  BY <1>1 DEF CommandInv, CreateSteps, AuthSteps, FoundSteps
<1> QED
  BY <1>2, <1>4, <1>5, TablesSame DEF CommandOK

\* The connection breaks, or the administrator changes the database.
LEMMA OutsideKeeps ==
    ASSUME TablesOK, CommandOK, LinkBreaks \/ AdminInsert \/ AdminReset
    PROVE  TablesOK' /\ CommandOK'
<1>1. /\ faults' \in 0 .. MaxFaults /\ link' \in {"up", "down"}
      /\ UNCHANGED <<web_auth, m_IsConnected, process, request, step, locals, answer>>
  BY FaultsCounted
  DEF LinkBreaks, AdminInsert, AdminReset, UserInserted, CommandOK, TypeCommand, server, tables
<1>2. CommandOK'
  BY <1>1, CommandSame
<1>3. CASE LinkBreaks
  BY <1>2, <1>3, TablesSame DEF LinkBreaks
<1>4. CASE AdminInsert
  BY <1>2, <1>4, UserInsertedKeeps DEF AdminInsert
<1>5. CASE AdminReset
  BY <1>2, <1>5, ResetKeeps
<1> QED
  BY <1>3, <1>4, <1>5

AInv == TablesOK /\ CommandOK

\* Statements, faults, repairs and the administrator keep the invariant.
LEMMA AccountStep == AInv /\ [Next]_vars => AInv'
<1> SUFFICES ASSUME TablesOK, CommandOK, [Next]_vars
             PROVE  TablesOK' /\ CommandOK'
  BY DEF AInv
<1>1. TypeTables
  BY DEF TablesOK
<1>2. CASE UNCHANGED vars
  <2>1. UNCHANGED <<tables, web_auth, m_IsConnected, process, request, step, locals, answer>>
        /\ link' = link /\ faults' = faults
    BY <1>2 DEF vars, tables, locals
  <2> QED
    BY <2>1, TablesSame, CommandSame DEF CommandOK, TypeCommand
<1>3. ASSUME NEW r \in Requests, Begin(r)
      PROVE  TablesOK' /\ CommandOK'
  BY <1>3, BeginKeeps, TablesSame DEF Begin
<1>4. CASE NotConnected
  <2>1. /\ step # "idle" /\ TypeCommand /\ faults' \in 0 .. MaxFaults /\ UNCHANGED server
        /\ Return("NO_CONNECTION", Nobody)
    BY <1>4 DEF NotConnected, At, CommandOK, TypeCommand
  <2>2. "NO_CONNECTION" \in Results /\ Nobody \in Emails \cup {Nobody}
    BY DEF Results
  <2> QED
    BY <1>4, <2>1, <2>2, ReturnKeeps, HelperKeepsTables
<1>5. CASE SelectEmail \/ SelectMax \/ InsertAuth \/ InsertUser
  BY <1>1, <1>5, CreateKeeps, HelperKeepsTables
<1>6. CASE SelectAccount \/ SelectHash \/ SelectSalt \/ SelectId \/ UpdateLogin \/ SelectDate
  BY <1>1, <1>6, AuthKeeps, HelperKeepsTables
<1>7. CASE StatementFails \/ StatementUnanswered \/ CallThrows \/ Crash \/ Restart
           \/ LinkBreaks \/ AdminInsert \/ AdminReset
  BY <1>7, StatementFailsKeeps, UnansweredKeeps, ProcessEndKeeps, RestartKeeps, OutsideKeeps
<1> QED
  BY <1>2, <1>3, <1>4, <1>5, <1>6, <1>7 DEF Next, Helper

\* The dump's ids are its positions, and no email is in it twice.
LEMMA AccountInit == Init => AInv
<1> SUFFICES ASSUME Init
             PROVE  AInv
  OBVIOUS
<1>1. Len(Dump) \in Nat /\ DOMAIN Dump = 1 .. Len(Dump)
  BY AccountAssumption, LenProperties
<1>2. \A k \in DOMAIN Dump : Dump[k] \in [email : Emails, password : Passwords]
  BY <1>1, AccountAssumption, ElementOfSeq
<1>3. \A j, k \in DOMAIN Dump : Dump[j].email = Dump[k].email => j = k
  BY AccountAssumption
<1>4. TypeTables
  BY <1>1, <1>2 DEF Init, TypeTables
<1>5. TableInv
  <2>1. nextAuth >= 1 /\ \A row \in web_auth : row.id < nextAuth
    BY <1>1 DEF Init
  <2>2. nextUser >= 1 /\ \A row \in user : row.id < nextUser
    BY <1>1 DEF Init
  <2>3. \A r, s \in web_auth : r.email = s.email => r = s
    <3> DEFINE first(k) == [id |-> k, email |-> Dump[k].email, opens |-> {Dump[k].password},
                            userID |-> k]
    <3>1. web_auth = {first(k) : k \in DOMAIN Dump}
      BY DEF Init
    <3>2. \A k \in DOMAIN Dump : first(k).email = Dump[k].email
      OBVIOUS
    <3> HIDE DEF first
    <3> QED
      BY <1>3, <3>1, <3>2
  <2>4. \A r, s \in user : r.id = s.id => r = s
    BY <1>1 DEF Init
  <2> QED
    BY <2>1, <2>2, <2>3, <2>4 DEF TableInv
<1>6. TypeCommand
  BY AccountAssumption DEF Init, TypeCommand, Steps
<1>7. CommandInv
  BY DEF Init, CommandInv, CreateSteps, AuthSteps, FoundSteps
<1> QED
  BY <1>4, <1>5, <1>6, <1>7 DEF AInv, TablesOK, CommandOK

\* Every variable keeps its type whatever fails: in particular a command under
\* way always has a request, and every reply is about a request.
THEOREM TypeCorrect == Spec => []TypeOK
<1>1. AInv => TypeOK
  BY TypeParts DEF AInv, TablesOK, CommandOK
<1> QED
  BY <1>1, AccountInit, AccountStep, PTL DEF Spec
-----------------------------------------------------------------------------
(* The rows an account's id finds.                                         *)

\* While the ids are in step, the row of user with the id a command read is
\* that of the account the command is about.
LEMMA OwnRow ==
    ASSUME AInv, IdsInStep, step \in {"update", "date"}
    PROVE  /\ \A row \in user : row.id = id => row.owner = request.email
           /\ UserRows(id) # {}
<1> DEFINE account == AccountRow(request.email)
<1>1. account \in web_auth /\ account.email = request.email /\ account.id = id
  BY RowOfAccount DEF AInv, CommandOK, CommandInv, FoundSteps
<1>2. PICK u \in user : u.id = account.id /\ u.owner = account.email
  BY <1>1 DEF IdsInStep
<1>3. \A row \in user : row.id = id => row = u
  BY <1>1, <1>2 DEF AInv, TablesOK, TableInv
<1> QED
  BY <1>1, <1>2, <1>3 DEF UserRows

\* A login is recorded on the row of the account that logged in, on no other,
\* as long as the ids are in step; also if the answer of the statement is
\* lost.
THEOREM LoginsOnOwnRow == Spec => LoginOnOwnRow
<1>1. AInv /\ [Next]_vars => (IdsInStep => \A u \in user' \ user : u.last_login = u.owner)
  <2> SUFFICES ASSUME AInv, [Next]_vars, IdsInStep, NEW u \in user' \ user
               PROVE  u.last_login = u.owner
    OBVIOUS
  <2>1. CASE LoginRecorded /\ step = "update"
    <3>1. \E row \in user : row.id = id /\ u.owner = row.owner /\ u.last_login = request.email
      BY <2>1, LoginRows DEF AInv, TablesOK
    <3> QED
      BY <2>1, <3>1, OwnRow
  <2>2. ASSUME NEW owner, UserInserted(owner)
        PROVE  u.last_login = u.owner
    BY <2>2 DEF UserInserted
  <2>3. CASE StatementUnanswered
    BY <2>1, <2>2, <2>3 DEF StatementUnanswered, At, AuthInserted
  <2>4. CASE InsertUser \/ AdminInsert \/ UpdateLogin
    BY <2>1, <2>2, <2>4 DEF InsertUser, AdminInsert, UpdateLogin, Works, At
  <2>5. UNCHANGED user \/ StatementUnanswered \/ InsertUser \/ AdminInsert \/ UpdateLogin
    BY DEF Next, Helper, Begin, NotConnected, SelectEmail, SelectMax, InsertAuth, AuthInserted,
           SelectAccount, SelectHash, SelectSalt, SelectId, SelectDate, StatementFails,
           CallThrows, LinkBreaks, Crash, Restart, AdminReset, tables, vars
  <2> QED
    BY <2>3, <2>4, <2>5
<1>2. AInv /\ [Next]_vars => [IdsInStep => \A u \in user' \ user : u.last_login = u.owner]_vars
  BY <1>1
<1> QED
  BY <1>2, AccountInit, AccountStep, PTL DEF Spec, LoginOnOwnRow

\* A login is answered with the creation date of its own account, or with
\* none, as long as the ids are in step.
THEOREM DatesOfOwnRow == Spec => DateOfOwnRow
<1>1. AInv /\ [Next]_vars =>
          (IdsInStep /\ answer' \notin {answer, NoAnswer} =>
              answer'.date \in {Nobody, answer'.request.email})
  <2> SUFFICES ASSUME AInv, [Next]_vars, IdsInStep, answer' \notin {answer, NoAnswer}
               PROVE  answer'.date \in {Nobody, answer'.request.email}
    OBVIOUS
  <2>1. ASSUME NEW result, NEW date \in {Nobody, request.email}, Return(result, date)
        PROVE  answer'.date \in {Nobody, answer'.request.email}
    BY <2>1 DEF Return
  <2>2. CASE SelectDate
    <3> DEFINE rows == UserRows(id)
    <3>1. step = "date" /\ rows # {}
      BY <2>2, OwnRow DEF SelectDate, Works, At
    <3>2. PICK row \in rows : row = CHOOSE u \in rows : TRUE
      BY <3>1
    <3>3. row.owner = request.email
      BY <3>1, <3>2, OwnRow DEF UserRows
    <3>4. Return("VALID_PASSWORD", row.owner)
      BY <2>2, <3>1, <3>2 DEF SelectDate
    <3> QED
      BY <2>1, <3>3, <3>4
  <2>3. \/ SelectDate
        \/ \E result : Return(result, Nobody)
        \/ answer' \in {answer, NoAnswer}
    <3>1. CASE NotConnected \/ InsertUser \/ StatementFails \/ StatementUnanswered
      BY <3>1 DEF NotConnected, InsertUser, StatementFails, StatementUnanswered
    <3>2. CASE SelectEmail \/ SelectAccount \/ SelectSalt
      BY <3>2 DEF SelectEmail, SelectAccount, SelectSalt
    <3>3. CASE SelectMax \/ InsertAuth \/ SelectHash \/ SelectId \/ UpdateLogin
      BY <3>3 DEF SelectMax, InsertAuth, SelectHash, SelectId, UpdateLogin
    <3>4. CASE CallThrows \/ LinkBreaks \/ Crash \/ Restart \/ AdminInsert \/ AdminReset
      BY <3>4 DEF CallThrows, LinkBreaks, Crash, Restart, AdminInsert, AdminReset
    <3>5. CASE (\E r \in Requests : Begin(r)) \/ UNCHANGED vars
      BY <3>5 DEF Begin, vars
    <3> QED
      BY <3>1, <3>2, <3>3, <3>4, <3>5 DEF Next, Helper
  <2> QED
    BY <2>1, <2>2, <2>3
<1>2. AInv /\ [Next]_vars =>
          [IdsInStep /\ answer' \notin {answer, NoAnswer} =>
              answer'.date \in {Nobody, answer'.request.email}]_vars
  BY <1>1
<1> QED
  BY <1>2, AccountInit, AccountStep, PTL DEF Spec, DateOfOwnRow
-----------------------------------------------------------------------------
(* The ids of an account.                                                  *)

\* The ids stay in step where nothing they depend on changes, and where the
\* command goes on and no insert is involved.
LEMMA IdsFrame ==
    ASSUME IdsInStep, UNCHANGED tables,
           \/ UNCHANGED <<step, lastId, request>>
           \/ step # "insertUser" /\ step' \notin {"insertAuth", "insertUser"}
    PROVE  IdsInStep'
BY DEF IdsInStep, tables

\* The largest userID, with one added, is the id web_auth gives next.
LEMMA MaxIsLast ==
    ASSUME AInv, IdsInStep, SelectMax
    PROVE  IdsInStep'
<1>1. PICK largest \in {0} \cup {row.userID : row \in web_auth} :
          /\ \A row \in web_auth : row.userID <= largest
          /\ web_auth = {} \/ \E row \in web_auth : row.userID = largest
          /\ lastId' = largest + 1
  BY DEF SelectMax
<1>2. /\ {row.id : row \in web_auth} = 1 .. nextAuth - 1
      /\ \A row \in web_auth : row.userID = row.id
      /\ nextAuth \in Nat /\ nextAuth >= 1
  BY DEF IdsInStep, AInv, TablesOK, TypeTables, TableInv
<1>3. lastId' = nextAuth
  <2>1. CASE web_auth = {}
    <3>1. 1 .. nextAuth - 1 = {}
      BY <1>2, <2>1
    <3>2. nextAuth = 1
      BY <1>2, <3>1
    <3>3. largest = 0
      BY <2>1
    <3> QED
      BY <1>1, <3>2, <3>3
  <2>2. CASE web_auth # {}
    <3>1. PICK row \in web_auth : row.userID = largest
      BY <1>1, <2>2
    <3>2. largest \in 1 .. nextAuth - 1
      BY <1>2, <3>1
    <3>3. nextAuth - 1 \in {r.id : r \in web_auth}
      BY <1>2, <3>2
    <3>4. nextAuth - 1 <= largest
      BY <1>1, <1>2, <3>3
    <3> QED
      BY <1>1, <1>2, <3>2, <3>4
  <2> QED
    BY <2>1, <2>2
<1>4. step = "max" /\ step' = "insertAuth" /\ UNCHANGED tables
  BY DEF SelectMax, Works, At
<1> QED
  BY <1>3, <1>4 DEF IdsInStep, tables

\* The first insert gives the id that was computed; the second is due.
LEMMA FirstIdInStep ==
    ASSUME AInv, IdsInStep, InsertAuth
    PROVE  IdsInStep'
<1>0. PICK opens \in Opens[request.password] :
          web_auth' = web_auth \cup
              {[id |-> nextAuth, email |-> request.email, opens |-> opens, userID |-> lastId]}
  BY DEF InsertAuth, AuthInserted
<1> DEFINE new == [id |-> nextAuth, email |-> request.email, opens |-> opens,
                   userID |-> lastId]
<1>1. /\ step = "insertAuth" /\ step' = "insertUser"
      /\ web_auth' = web_auth \cup {new} /\ nextAuth' = nextAuth + 1
      /\ UNCHANGED <<user, nextUser, request>>
  BY <1>0 DEF InsertAuth, Works, At, AuthInserted
<1>2. new.id = nextAuth /\ new.userID = lastId /\ new.email = request.email
  OBVIOUS
<1> HIDE DEF new
<1>3. /\ nextAuth \in Nat /\ nextAuth >= 1
      /\ nextAuth = nextUser /\ lastId = nextAuth
      /\ {row.id : row \in web_auth} = 1 .. nextAuth - 1
  BY <1>1 DEF IdsInStep, AInv, TablesOK, TypeTables, TableInv
<1>4. {row.id : row \in web_auth'} = 1 .. nextAuth' - 1
  <2>1. {row.id : row \in web_auth'} = (1 .. nextAuth - 1) \cup {nextAuth}
    BY <1>1, <1>2, <1>3
  <2> QED
    BY <1>1, <1>3, <2>1
<1>5. \A row \in web_auth' :
          /\ row.userID = row.id
          /\ \/ \E u \in user' : u.id = row.id /\ u.owner = row.email
             \/ step' = "insertUser" /\ row.email = request'.email /\ row.id = nextUser'
  BY <1>1, <1>2, <1>3 DEF IdsInStep
<1> QED
  BY <1>1, <1>3, <1>4, <1>5 DEF IdsInStep

\* The second insert gives the same id, to the row of the same account.
LEMMA SecondIdInStep ==
    ASSUME AInv, IdsInStep, InsertUser
    PROVE  IdsInStep'
<1> DEFINE new == [id |-> nextUser, owner |-> request.email, last_login |-> request.email]
<1>1. /\ step = "insertUser" /\ step' = "idle"
      /\ user' = user \cup {new} /\ nextUser' = nextUser + 1
      /\ UNCHANGED <<web_auth, nextAuth>>
  BY DEF InsertUser, Works, At, UserInserted, Return
<1>2. new.id = nextUser /\ new.owner = request.email
  OBVIOUS
<1> HIDE DEF new
<1>3. /\ nextUser \in Nat /\ nextUser >= 1
      /\ nextAuth = nextUser + 1
      /\ {row.id : row \in user} = 1 .. nextUser - 1
  BY <1>1 DEF IdsInStep, AInv, TablesOK, TypeTables, TableInv
<1>4. {row.id : row \in user'} = 1 .. nextUser' - 1
  <2>1. {row.id : row \in user'} = (1 .. nextUser - 1) \cup {nextUser}
    BY <1>1, <1>2, <1>3
  <2> QED
    BY <1>1, <1>3, <2>1
<1>5. \A row \in web_auth :
          row.userID = row.id /\ \E u \in user' : u.id = row.id /\ u.owner = row.email
  BY <1>1, <1>2 DEF IdsInStep
<1> QED
  BY <1>1, <1>3, <1>4, <1>5 DEF IdsInStep

\* A login changes no id and no owner.
LEMMA LoginInStep ==
    ASSUME AInv, IdsInStep, UpdateLogin
    PROVE  IdsInStep'
<1>1. /\ step = "update" /\ step' = "idAgain" /\ LoginRecorded
      /\ UNCHANGED <<web_auth, nextAuth, nextUser>>
  BY DEF UpdateLogin, LoginRecorded, Works, At
<1>2. /\ \A u \in user' : \E row \in user : u.id = row.id
      /\ \A row \in user : \E u \in user' : u.id = row.id /\ u.owner = row.owner
  BY <1>1, LoginRows DEF AInv, TablesOK
<1>3. {row.id : row \in user'} = {row.id : row \in user}
  BY <1>2
<1>4. \A row \in web_auth : \E u \in user' : u.id = row.id /\ u.owner = row.email
  BY <1>1, <1>2 DEF IdsInStep
<1> QED
  BY <1>1, <1>3, <1>4 DEF IdsInStep

\* The counters are reset to what they are.
LEMMA ResetInStep ==
    ASSUME AInv, IdsInStep, AdminReset
    PROVE  IdsInStep'
<1>1. /\ nextAuth \in Nat /\ nextAuth >= 1 /\ nextUser \in Nat /\ nextUser >= 1
      /\ \A row \in web_auth : row.id \in Nat /\ row.id < nextAuth
      /\ \A row \in user : row.id \in Nat /\ row.id < nextUser
      /\ nextAuth \in 1 .. nextAuth + nextUser /\ nextUser \in 1 .. nextAuth + nextUser
  BY DEF AInv, TablesOK, TypeTables, TableInv
<1>2. ASSUME NEW table, NEW next \in 1 .. nextAuth + nextUser,
             \A row \in table : row.id \in Nat /\ row.id < next,
             {row.id : row \in table} = 1 .. next - 1
      PROVE  LeastNext(table) = next
  <2> DEFINE n == LeastNext(table)
  <2>1. /\ n \in 1 .. nextAuth + nextUser
        /\ \A row \in table : row.id < n
        /\ n = 1 \/ \E row \in table : row.id = n - 1
    BY <1>1, <1>2, LeastNextAbove
  <2> HIDE DEF n
  <2>2. n <= next
    BY <1>1, <1>2, <2>1
  <2>3. next <= n
    <3>1. CASE next = 1
      BY <1>1, <2>1, <3>1
    <3>2. CASE next # 1
      <4>1. next - 1 \in {row.id : row \in table}
        <5>1. next - 1 \in 1 .. next - 1
          BY <1>1, <3>2
        <5> QED
          BY <1>2, <5>1
      <4>2. next - 1 < n
        BY <2>1, <4>1
      <4> QED
        BY <1>1, <2>1, <4>2
    <3> QED
      BY <3>1, <3>2
  <2> QED
    BY <1>1, <2>1, <2>2, <2>3 DEF n
<1>3. LeastNext(web_auth) = nextAuth /\ LeastNext(user) = nextUser
  BY <1>1, <1>2 DEF IdsInStep
<1>4. UNCHANGED tables /\ UNCHANGED <<step, lastId, request>>
  BY <1>3 DEF AdminReset, tables, locals
<1> QED
  BY <1>4, IdsFrame

\* The ids of an account stay in step whatever the server and MySQL do, unless
\* an internal error is reported, the server ends, or a user is inserted by
\* hand.
THEOREM IdsRemainInStep == Spec => IdsStayInStep
<1> DEFINE Excuse == \/ process' = "down"
                     \/ answer' # answer /\ answer'.result = "INTERNAL_SERVER_ERROR"
                     \/ \E u \in user' \ user : u.owner = Nobody
<1>1. AInv /\ [Next]_vars => (IdsInStep /\ ~IdsInStep' => Excuse)
  <2> SUFFICES ASSUME AInv, [Next]_vars, IdsInStep
               PROVE  IdsInStep' \/ Excuse
    OBVIOUS
  <2>1. CASE InsertAuth \/ InsertUser \/ UpdateLogin \/ SelectMax \/ AdminReset
    BY <2>1, FirstIdInStep, SecondIdInStep, LoginInStep, MaxIsLast, ResetInStep
  <2>2. CASE StatementUnanswered \/ StatementFails
    <3>1. step # "idle" /\ answer = NoAnswer /\ request \in Requests
      BY <2>2, AtWork DEF StatementUnanswered, StatementFails, Caught, At, AInv, CommandOK, CommandInv
    <3>2. ASSUME Return("INTERNAL_SERVER_ERROR", Nobody)
          PROVE  answer' # answer /\ answer'.result = "INTERNAL_SERVER_ERROR"
      <4>1. [request |-> request, result |-> "INTERNAL_SERVER_ERROR", date |-> Nobody] \in Answers
        BY <3>1 DEF Answers, Results
      <4> QED
        BY <3>1, <3>2, <4>1, AccountAssumption DEF Return
    <3>3. CASE StatementFails /\ step \in {"idAgain", "date"}
      <4>1. UNCHANGED tables /\ step' = "idle"
        BY <3>3 DEF StatementFails, Burns, tables, Return
      <4> QED
        BY <3>3, <4>1, IdsFrame
    <3> QED
      BY <2>2, <3>2, <3>3 DEF StatementUnanswered, StatementFails
  <2>3. CASE CallThrows \/ Crash
    BY <2>3 DEF CallThrows, Crash
  <2>4. CASE LinkBreaks \/ UNCHANGED vars \/ Restart
    <3>1. UNCHANGED tables /\ UNCHANGED <<step, lastId, request>>
      BY <2>4 DEF LinkBreaks, Restart, vars, tables, locals
    <3> QED
      BY <3>1, IdsFrame
  <2>5. CASE AdminInsert
    <3> DEFINE new == [id |-> nextUser, owner |-> Nobody, last_login |-> Nobody]
    <3>1. new \in user' /\ new.owner = Nobody
      BY <2>5 DEF AdminInsert, UserInserted
    <3>2. new \notin user
      <4>1. \A row \in user : row.id \in Nat /\ row.id < nextUser /\ nextUser \in Nat
        BY DEF AInv, TablesOK, TypeTables, TableInv
      <4>2. \A row \in user : row.id # new.id
        BY <4>1
      <4> QED
        BY <4>2
    <3> QED
      BY <3>1, <3>2
  <2>6. CASE NotConnected \/ SelectEmail \/ SelectAccount \/ SelectHash \/ SelectSalt
             \/ SelectId \/ SelectDate
    <3>1. /\ UNCHANGED tables
          /\ step # "insertUser" /\ step' \notin {"insertAuth", "insertUser"}
      <4>1. CASE NotConnected \/ SelectEmail \/ SelectAccount
        BY <4>1 DEF NotConnected, SelectEmail, SelectAccount, Works, At, Return
      <4>2. CASE SelectHash \/ SelectSalt
        BY <4>2 DEF SelectHash, SelectSalt, Works, At, Return
      <4>3. CASE SelectId \/ SelectDate
        BY <4>3 DEF SelectId, SelectDate, Works, At, Return
      <4> QED
        BY <2>6, <4>1, <4>2, <4>3
    <3> QED
      BY <3>1, IdsFrame
  <2>7. ASSUME NEW r \in Requests, Begin(r)
        PROVE  IdsInStep'
    <3>1. UNCHANGED tables /\ step = "idle" /\ step' \in {"unconnected", "select", "email"}
      BY <2>7 DEF Begin
    <3> QED
      BY <3>1, IdsFrame
  <2> HIDE DEF Excuse
  <2> QED
    BY <2>1, <2>2, <2>3, <2>4, <2>5, <2>6, <2>7 DEF Next, Helper, Excuse
<1>2. AInv /\ [Next]_vars => [IdsInStep /\ ~IdsInStep' => Excuse]_vars
  BY <1>1
<1> QED
  BY <1>2, AccountInit, AccountStep, PTL DEF Spec, IdsStayInStep
-----------------------------------------------------------------------------
(* The registry the helper implements.                                     *)

Accounts == [e \in Emails |-> {row.opens : row \in {r \in web_auth : r.email = e}}]
Told == IF answer = NoAnswer THEN NoAnswer
        ELSE [request |-> answer.request, result |-> answer.result]

\* What opens an account is what opens its row.
LEMMA KeyOfAccount ==
    ASSUME TableInv, NEW email \in Emails
    PROVE  /\ HasAccount(email) => Accounts[email] = {AccountRow(email).opens}
           /\ ~HasAccount(email) => Accounts[email] = {}
<1>1. Accounts[email] = {row.opens : row \in {r \in web_auth : r.email = email}}
  BY DEF Accounts
<1>2. ASSUME HasAccount(email)
      PROVE  {r \in web_auth : r.email = email} = {AccountRow(email)}
  BY <1>2, RowOfAccount DEF TableInv
<1>3. ASSUME ~HasAccount(email)
      PROVE  {r \in web_auth : r.email = email} = {}
  BY <1>3 DEF HasAccount
<1> QED
  BY <1>1, <1>2, <1>3

\* The insert into web_auth adds the account.
LEMMA AddsIt ==
    ASSUME TablesOK, request \in Requests, request.kind = "create", AuthInserted
    PROVE  Registry!AddsAccount
<1>0. PICK opens \in Opens[request.password] :
          web_auth' = web_auth \cup
              {[id |-> nextAuth, email |-> request.email, opens |-> opens, userID |-> lastId]}
  BY DEF AuthInserted
<1> DEFINE new == [id |-> nextAuth, email |-> request.email, opens |-> opens,
                   userID |-> lastId]
<1>1. /\ web_auth' = web_auth \cup {new}
      /\ new.email = request.email /\ new.opens = opens
      /\ \A row \in web_auth : row.email # request.email
  BY <1>0 DEF AuthInserted
<1> HIDE DEF new
<1>2. request.email \in Emails
  BY DEF Requests
<1>3. Accounts[request.email] = {}
  BY <1>1, <1>2, KeyOfAccount DEF HasAccount, TablesOK
<1>4. Accounts' = [Accounts EXCEPT ![request.email] = {opens}]
  <2>1. ASSUME NEW e \in Emails
        PROVE  {row.opens : row \in {r \in web_auth' : r.email = e}} =
                   IF e = request.email THEN {opens} ELSE Accounts[e]
    <3>1. CASE e = request.email
      <4>1. {r \in web_auth' : r.email = e} = {new}
        BY <1>1, <3>1
      <4> QED
        BY <1>1, <3>1, <4>1
    <3>2. CASE e # request.email
      <4>1. {r \in web_auth' : r.email = e} = {r \in web_auth : r.email = e}
        BY <1>1, <3>2
      <4> QED
        BY <3>2, <4>1 DEF Accounts
    <3> QED
      BY <3>1, <3>2
  <2> QED
    BY <2>1 DEF Accounts
<1> QED
  BY <1>3, <1>4 DEF Registry!AddsAccount, Accounts

\* A command that returns answers the request.
LEMMA AnswersIt ==
    ASSUME TypeCommand, step # "idle", UNCHANGED server, faults' \in 0 .. MaxFaults,
           NEW result \in Results, NEW date \in Emails \cup {Nobody}, Return(result, date)
    PROVE  Registry!Answer(result)
<1>1. answer' = [request |-> request, result |-> result, date |-> date] /\ answer' # NoAnswer
  BY ReturnKeeps
<1>2. request' = NoRequest /\ step' # "insertUser"
  BY DEF Return
<1> QED
  BY <1>1, <1>2 DEF Registry!Answer

\* A step that neither adds an account nor answers is none of the registry's.
LEMMA RegistrySame ==
    ASSUME UNCHANGED <<web_auth, request, answer>>, step' = "insertUser" <=> step = "insertUser"
    PROVE  UNCHANGED <<Accounts, request, step = "insertUser", Told>>
BY DEF Accounts, Told

\* A command that returns a true result replies.
LEMMA RepliesIt ==
    ASSUME TypeCommand, step # "idle", UNCHANGED server, faults' \in 0 .. MaxFaults,
           UNCHANGED web_auth,
           NEW result \in Results, NEW date \in Emails \cup {Nobody}, Return(result, date),
           result \in Registry!Truthful(request)
    PROVE  Registry!Reply
<1>1. request # NoRequest
  BY DEF TypeCommand
<1>2. Registry!Answer(result)
  BY AnswersIt
<1> QED
  BY <1>1, <1>2 DEF Registry!Reply

RegistryVars == <<Accounts, request, step = "insertUser", Told>>
Step == Registry!Next \/ UNCHANGED RegistryVars

\* CreateAccount adds the account, or refuses because there is one.
LEMMA CreateServes ==
    ASSUME AInv, SelectEmail \/ SelectMax \/ InsertAuth \/ InsertUser
    PROVE  Step
<1>1. /\ TypeCommand /\ TablesOK /\ TableInv
      /\ step \in CreateSteps /\ step # "idle"
      /\ request \in Requests /\ request.kind = "create" /\ request.email \in Emails
      /\ UNCHANGED server /\ faults' \in 0 .. MaxFaults
      /\ Nobody \in Emails \cup {Nobody}
      /\ request # NoRequest
  <2>1. step \in CreateSteps /\ UNCHANGED server /\ UNCHANGED faults
    BY DEF SelectEmail, SelectMax, InsertAuth, InsertUser, Works, At, CreateSteps
  <2> QED
    BY <2>1, AtWork DEF AInv, CommandOK, CommandInv, TypeCommand, TablesOK, CreateSteps
<1>2. CASE SelectEmail
  <2>1. UNCHANGED web_auth /\ step = "select"
    BY <1>2 DEF SelectEmail, Works, At, tables
  <2>2. CASE HasAccount(request.email)
    <3>1. Return("ACCOUNT_ALREADY_EXISTS", Nobody) /\ "ACCOUNT_ALREADY_EXISTS" \in Results
      BY <1>2, <2>2 DEF SelectEmail, Results
    <3>2. Accounts[request.email] # {}
      BY <1>1, <2>2, KeyOfAccount
    <3>3. "ACCOUNT_ALREADY_EXISTS" \in Registry!Truthful(request)
      BY <1>1, <2>1, <3>2 DEF Registry!Truthful, Accounts
    <3> QED
      BY <1>1, <2>1, <3>1, <3>3, RepliesIt DEF Registry!Next, Step
  <2>3. CASE ~HasAccount(request.email)
    BY <1>2, <2>1, <2>3, RegistrySame DEF SelectEmail, Step, RegistryVars
  <2> QED
    BY <2>2, <2>3
<1>3. CASE SelectMax
  BY <1>3, RegistrySame DEF SelectMax, Works, At, tables, Step, RegistryVars
<1>4. CASE InsertAuth
  <2>1. Registry!AddsAccount
    BY <1>1, <1>4, AddsIt DEF InsertAuth
  <2> QED
    BY <1>1, <1>4, <2>1 DEF InsertAuth, Registry!Add, Registry!Next, Step
<1>5. CASE InsertUser
  <2>1. UNCHANGED web_auth /\ step = "insertUser" /\ Return("SUCCESS", Nobody)
        /\ "SUCCESS" \in Results
    BY <1>5 DEF InsertUser, UserInserted, Works, At, Results
  <2>2. "SUCCESS" \in Registry!Truthful(request)
    BY <1>1, <2>1 DEF Registry!Truthful
  <2> QED
    BY <1>1, <2>1, <2>2, RepliesIt DEF Registry!Next, Step
<1> QED
  BY <1>2, <1>3, <1>4, <1>5

\* AuthenticateAccount answers what is true of the account and the password.
LEMMA AuthServes ==
    ASSUME AInv,
           SelectAccount \/ SelectHash \/ SelectSalt \/ SelectId \/ UpdateLogin \/ SelectDate
    PROVE  Step
<1>1. /\ TypeCommand /\ TypeTables /\ TableInv
      /\ step \in AuthSteps /\ step # "idle"
      /\ request \in Requests /\ request.kind = "auth" /\ request.email \in Emails
      /\ UNCHANGED server /\ faults' \in 0 .. MaxFaults /\ UNCHANGED web_auth
      /\ Nobody \in Emails \cup {Nobody}
      /\ request # NoRequest
  <2>1. step \in AuthSteps /\ UNCHANGED server /\ UNCHANGED faults /\ UNCHANGED web_auth
    BY DEF SelectAccount, SelectHash, SelectSalt, SelectId, UpdateLogin, SelectDate, LoginRecorded,
           Works, At, AuthSteps, FoundSteps, tables
  <2> QED
    BY <2>1, AtWork
    DEF AInv, CommandOK, CommandInv, TypeCommand, TablesOK, AuthSteps, FoundSteps
<1>2. step # "insertUser"
  BY <1>1 DEF AuthSteps, FoundSteps
<1>3. step \in FoundSteps => HasAccount(request.email)
  BY DEF AInv, CommandOK, CommandInv
<1>4. /\ HasAccount(request.email) =>
             Accounts[request.email] = {AccountRow(request.email).opens}
      /\ ~HasAccount(request.email) => Accounts[request.email] = {}
  BY <1>1, KeyOfAccount
<1>5. CASE SelectAccount
  <2>1. CASE HasAccount(request.email)
    BY <1>1, <1>2, <1>5, <2>1, RegistrySame DEF SelectAccount, Step, RegistryVars
  <2>2. CASE ~HasAccount(request.email)
    <3>1. Return("ACCOUNT_DOES_NOT_EXIST", Nobody) /\ "ACCOUNT_DOES_NOT_EXIST" \in Results
      BY <1>5, <2>2 DEF SelectAccount, Results
    <3>2. "ACCOUNT_DOES_NOT_EXIST" \in Registry!Truthful(request)
      BY <1>1, <1>4, <2>2 DEF Registry!Truthful, Accounts
    <3> QED
      BY <1>1, <3>1, <3>2, RepliesIt DEF Registry!Next, Step
  <2> QED
    BY <2>1, <2>2
<1>6. CASE SelectSalt
  <2>1. step = "salt" /\ HasAccount(request.email)
    BY <1>3, <1>6 DEF SelectSalt, Works, At, FoundSteps
  <2>2. hashedPassword = {AccountRow(request.email).opens}
    BY <2>1 DEF AInv, CommandOK, CommandInv
  <2>3. CASE Validates(AccountRow(request.email).opens)
    BY <1>1, <1>2, <1>6, <2>3, RegistrySame DEF SelectSalt, Step, RegistryVars
  <2>4. CASE ~Validates(AccountRow(request.email).opens)
    <3>1. Return("INVALID_PASSWORD", Nobody) /\ "INVALID_PASSWORD" \in Results
      BY <1>6, <2>4 DEF SelectSalt, Results
    <3>2. request.password \notin AccountRow(request.email).opens
      BY <2>2, <2>4 DEF Validates
    <3>3. "INVALID_PASSWORD" \in Registry!Truthful(request)
      BY <1>1, <1>4, <2>1, <3>2 DEF Registry!Truthful, Accounts
    <3> QED
      BY <1>1, <3>1, <3>3, RepliesIt DEF Registry!Next, Step
  <2> QED
    BY <2>3, <2>4
<1>7. CASE SelectHash \/ SelectId \/ UpdateLogin
  <2>1. UNCHANGED <<request, answer>> /\ step' # "insertUser"
    BY <1>7 DEF SelectHash, SelectId, UpdateLogin
  <2> QED
    BY <1>1, <1>2, <2>1, RegistrySame DEF Step, RegistryVars
<1>8. CASE SelectDate
  <2> DEFINE date == IF UserRows(id) = {} THEN Nobody
                     ELSE (CHOOSE u \in UserRows(id) : TRUE).owner
  <2>1. date \in Emails \cup {Nobody}
    BY <1>1 DEF UserRows, TypeTables
  <2>2. Return("VALID_PASSWORD", date) /\ "VALID_PASSWORD" \in Results /\ step = "date"
    BY <1>8 DEF SelectDate, Results, Works, At
  <2> HIDE DEF date
  <2>3. request.password \in AccountRow(request.email).opens
    BY <2>2 DEF AInv, CommandOK, CommandInv
  <2>4. "VALID_PASSWORD" \in Registry!Truthful(request)
    BY <1>1, <1>3, <1>4, <2>2, <2>3 DEF Registry!Truthful, Accounts, FoundSteps
  <2> QED
    BY <1>1, <2>1, <2>2, <2>4, RepliesIt DEF Registry!Next, Step
<1> QED
  BY <1>5, <1>6, <1>7, <1>8

\* A statement that fails is answered with an internal error, whether it took
\* effect or not, and with the truth once a login was recorded.
LEMMA FailureServes ==
    ASSUME AInv, StatementFails \/ StatementUnanswered
    PROVE  Step
<1>1. /\ TypeCommand /\ TablesOK /\ TableInv /\ step # "idle"
      /\ request \in Requests /\ request.email \in Emails
      /\ UNCHANGED server /\ faults' \in 0 .. MaxFaults
      /\ Nobody \in Emails \cup {Nobody}
      /\ {"INTERNAL_SERVER_ERROR", "VALID_PASSWORD"} \subseteq Results
      /\ request # NoRequest
  <2>1. step # "idle" /\ UNCHANGED server /\ faults' \in 0 .. MaxFaults
    BY FaultsCounted
    DEF StatementFails, StatementUnanswered, Caught, At, AInv, CommandOK, TypeCommand
  <2> QED
    BY <2>1, AtWork DEF AInv, CommandOK, TypeCommand, TablesOK, Results
<1>2. "INTERNAL_SERVER_ERROR" \in Registry!Truthful(request)
  BY DEF Registry!Truthful
<1>3. CASE Return("INTERNAL_SERVER_ERROR", Nobody) /\ UNCHANGED web_auth
  BY <1>1, <1>2, <1>3, RepliesIt DEF Registry!Next, Step
<1>4. CASE StatementFails /\ step \in {"idAgain", "date"}
  <2>1. Return("VALID_PASSWORD", Nobody) /\ UNCHANGED web_auth
    BY <1>4 DEF StatementFails
  <2>2. /\ request.kind = "auth" /\ HasAccount(request.email)
        /\ request.password \in AccountRow(request.email).opens
    BY <1>4 DEF AInv, CommandOK, CommandInv, AuthSteps, FoundSteps
  <2>3. Accounts[request.email] = {AccountRow(request.email).opens}
    BY <1>1, <2>2, KeyOfAccount
  <2>4. "VALID_PASSWORD" \in Registry!Truthful(request)
    BY <1>4, <2>2, <2>3 DEF Registry!Truthful, Accounts
  <2> QED
    BY <1>1, <2>1, <2>4, RepliesIt DEF Registry!Next, Step
<1>5. CASE StatementUnanswered /\ step = "insertAuth"
  <2>1. AuthInserted /\ Return("INTERNAL_SERVER_ERROR", Nobody)
    BY <1>5 DEF StatementUnanswered, At
  <2>2. request.kind = "create"
    BY <1>5 DEF AInv, CommandOK, CommandInv, CreateSteps
  <2>3. Registry!AddsAccount
    BY <1>1, <2>1, <2>2, AddsIt
  <2>4. Registry!Answer("INTERNAL_SERVER_ERROR")
    BY <1>1, <2>1, AnswersIt
  <2> QED
    BY <1>1, <2>3, <2>4 DEF Registry!Reply, Registry!Next, Step
<1>6. CASE StatementUnanswered /\ step # "insertAuth"
  BY <1>3, <1>6 DEF StatementUnanswered, At, UserInserted, LoginRecorded
<1> QED
  BY <1>3, <1>4, <1>5, <1>6 DEF StatementFails

\* A command is asked for, refused without a connection, or dropped; and what
\* the connection and the administrator do is no business of the registry.
LEMMA OutsideServes ==
    ASSUME AInv,
           \/ \E r \in Requests : Begin(r)
           \/ NotConnected \/ CallThrows \/ Crash \/ Restart
           \/ LinkBreaks \/ AdminInsert \/ AdminReset \/ UNCHANGED vars
    PROVE  Step
<1>1. ASSUME NEW r \in Requests, Begin(r)
      PROVE  Registry!Ask(r)
  <2>1. /\ step = "idle" /\ step' \in {"unconnected", "select", "email"}
        /\ request' = r /\ answer' = NoAnswer /\ UNCHANGED web_auth
    BY <1>1 DEF Begin, tables
  <2>2. request = NoRequest
    BY <2>1 DEF AInv, CommandOK, TypeCommand
  <2> QED
    BY <2>1, <2>2 DEF Registry!Ask
<1>2. CASE NotConnected
  <2>1. /\ step = "unconnected" /\ TypeCommand /\ UNCHANGED web_auth
        /\ UNCHANGED server /\ faults' \in 0 .. MaxFaults
        /\ Nobody \in Emails \cup {Nobody} /\ "NO_CONNECTION" \in Results
        /\ Return("NO_CONNECTION", Nobody)
    BY <1>2 DEF NotConnected, At, AInv, CommandOK, TypeCommand, Results, tables
  <2>2. "NO_CONNECTION" \in Registry!Truthful(request)
    BY <2>1 DEF Registry!Truthful
  <2> QED
    BY <2>1, <2>2, RepliesIt DEF Registry!Next, Step
<1>3. CASE CallThrows \/ Crash
  <2>1. request' = NoRequest /\ step' = "idle" /\ UNCHANGED <<web_auth, answer>>
    BY <1>3 DEF CallThrows, Crash, tables
  <2>2. Registry!Drop
    BY <2>1 DEF Registry!Drop
  <2> QED
    BY <2>2 DEF Registry!Next, Step
<1>4. CASE Restart
  <2>1. step = "idle" /\ step' = "idle" /\ request' = request /\ answer' = NoAnswer
        /\ UNCHANGED web_auth
    BY <1>4 DEF Restart, AInv, CommandOK, CommandInv, tables
  <2>2. request = NoRequest
    BY <2>1 DEF AInv, CommandOK, TypeCommand
  <2>3. Registry!Drop
    BY <2>1, <2>2 DEF Registry!Drop
  <2> QED
    BY <2>3 DEF Registry!Next, Step
<1>5. CASE LinkBreaks \/ AdminInsert \/ AdminReset \/ UNCHANGED vars
  <2>1. UNCHANGED <<web_auth, request, step, answer>>
    BY <1>5 DEF LinkBreaks, AdminInsert, AdminReset, UserInserted, tables, vars
  <2> QED
    BY <2>1, RegistrySame DEF Step, RegistryVars
<1> QED
  BY <1>1, <1>2, <1>3, <1>4, <1>5 DEF Registry!Next, Step

\* The helper, whatever statement fails and whenever its process ends, is a
\* registry of accounts that answers truthfully: an account is added at most
\* once and stays open to the same passwords, a success means what it says and a refusal is
\* true.
THEOREM ServesAccounts == Spec => ImplementsAccountRegistry
<1>1. Init => Registry!Init
  BY DEF Init, Registry!Init
<1>2. AInv /\ [Next]_vars => [Registry!Next]_RegistryVars
  <2> SUFFICES ASSUME AInv, [Next]_vars
               PROVE  Step
    BY DEF Step
  <2> QED
    BY CreateServes, AuthServes, FailureServes, OutsideServes DEF Next, Helper
<1>3. AInv /\ [Next]_vars =>
          [Registry!Next]_<<[e \in Emails |->
                                 {row.opens : row \in {r \in web_auth : r.email = e}}],
                            request, step = "insertUser",
                            IF answer = NoAnswer THEN NoAnswer
                            ELSE [request |-> answer.request, result |-> answer.result]>>
  BY <1>2 DEF RegistryVars, Accounts, Told
<1> QED
  BY <1>1, <1>3, AccountInit, AccountStep, PTL
  DEF Spec, ImplementsAccountRegistry, Registry!Spec
=============================================================================
