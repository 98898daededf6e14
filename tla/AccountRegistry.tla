-------------------------- MODULE AccountRegistry --------------------------
(***************************************************************************)
(* What the accounts promise, without tables or statements: an account is  *)
(* added at most once, by a request for it, and the passwords that open it *)
(* stay the same for ever; a request that succeeded did what it says, a    *)
(* refusal is true, and only an internal error leaves open whether the     *)
(* account was added.                                                      *)
(***************************************************************************)
CONSTANTS
    Emails, Requests, NoRequest, NoAnswer,
    Opens       \* what may open an account, for each password asked for

VARIABLES
    accounts,   \* the passwords that open each account: at most one such set
    pending,    \* the request being executed
    added,      \* whether it has added its account
    answer      \* the last request and its result

Init ==
    /\ DOMAIN accounts = Emails
    /\ pending = NoRequest
    /\ added = FALSE
    /\ answer = NoAnswer

Ask(r) ==
    /\ pending = NoRequest
    /\ pending' = r
    /\ added' = FALSE
    /\ answer' = NoAnswer
    /\ UNCHANGED accounts

AddsAccount ==
    /\ pending.kind = "create"
    /\ accounts[pending.email] = {}
    /\ \E opens \in Opens[pending.password] :
          accounts' = [accounts EXCEPT ![pending.email] = {opens}]

Add ==
    /\ pending # NoRequest
    /\ AddsAccount
    /\ added' = TRUE
    /\ UNCHANGED <<pending, answer>>

\* The results that are true of a request and the accounts.
Truthful(r) ==
    LET account == accounts[r.email]
    IN  {"INTERNAL_SERVER_ERROR"} \cup
        (IF added THEN {} ELSE {"NO_CONNECTION"}) \cup
        (IF r.kind = "create"
         THEN IF added THEN {"SUCCESS"}
              ELSE IF account # {} THEN {"ACCOUNT_ALREADY_EXISTS"} ELSE {}
         ELSE IF account = {} THEN {"ACCOUNT_DOES_NOT_EXIST"}
              ELSE IF \E opens \in account : r.password \in opens THEN {"VALID_PASSWORD"}
              ELSE {"INVALID_PASSWORD"})

Answer(result) ==
    /\ answer' = [request |-> pending, result |-> result]
    /\ pending' = NoRequest
    /\ added' = FALSE

Reply ==
    /\ pending # NoRequest
    /\ \/ \E result \in Truthful(pending) : Answer(result) /\ UNCHANGED accounts
       \/ AddsAccount /\ Answer("INTERNAL_SERVER_ERROR")

\* The server ended; the account it was adding may have been added.
Drop ==
    /\ pending' = NoRequest
    /\ added' = FALSE
    /\ answer' \in {answer, NoAnswer}
    /\ UNCHANGED accounts

Next == (\E r \in Requests : Ask(r)) \/ Add \/ Reply \/ Drop

Spec == Init /\ [][Next]_<<accounts, pending, added, answer>>
=============================================================================
