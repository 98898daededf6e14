---------------------------- MODULE PasswordHash ----------------------------
(***************************************************************************)
(* How the database helper (ChatServer/DBHelper.cpp) uses Bcrypt for the   *)
(* password of one account: CreateAccount draws a salt and stores it with  *)
(* the hash of salt and password; AuthenticateAccount reads both columns   *)
(* back and validates an attempt.  AccountStore has what happens around.   *)
(*                                                                         *)
(* A salt is drawn from the alphabet by an index that may be one too small *)
(* (DBHelper.cpp:80): the character is then whatever byte the build puts   *)
(* before the alphabet, a NUL, a space or another.                         *)
(***************************************************************************)
EXTENDS Bcrypt

CONSTANTS
    alphanum,       \* the characters of a salt
    BytesBefore,    \* what may lie before them
    SaltLength,     \* of a salt of DBHelper (10 in the code)
    LogRounds,      \* generateHash's argument (10 in the code)
    Csalts,         \* what arc4random_buf may return
    Passwords,      \* the passwords users choose and try
    Space,
    NoRow, NoAttempt

ASSUME PasswordAssumption ==
    /\ alphanum \subseteq Byte \ {NUL, Space}
    /\ BytesBefore \subseteq Byte \ alphanum
    /\ SaltLength \in Nat \ {0} /\ LogRounds \in Nat
    /\ Csalts \subseteq [1 .. BCRYPT_MAXSALT -> Byte]
    /\ \A p \in Passwords : p \in Seq(Byte \ {NUL})
    /\ NoRow # Failed /\ NoAttempt \notin Passwords

VARIABLES
    row,         \* the columns salt and hashed_password of the account
    account,     \* what they were made from: password, salt and csalt
    attempt,     \* the password of the last login
    validated    \* its answer

passwordVars == <<row, account, attempt, validated>>

PasswordInit ==
    /\ row = NoRow /\ account = NoRow
    /\ attempt = NoAttempt /\ validated = FALSE

\* A CHAR column forgets the spaces at the end.
Column(s) ==
    LET kept == {n \in 0 .. Len(s) : \A k \in n + 1 .. Len(s) : s[k] = Space}
    IN  SubSeq(s, 1, CHOOSE n \in kept : \A m \in kept : n <= m)

\* Mutant of CreateAccount: the hash is of the password alone.
CreateAccountUnsalted(password, salt, csalt) ==
    /\ row = NoRow
    /\ row' = [salt |-> Column(salt),
               hashed_password |-> generateHash(password, LogRounds, csalt)]
    /\ account' = [password |-> password, salt |-> salt, csalt |-> csalt]
    /\ UNCHANGED <<attempt, validated>>

CreateAccount(password, salt, csalt) ==
    /\ row = NoRow
    /\ row' = [salt |-> Column(salt),
               hashed_password |-> generateHash(salt \o password, LogRounds, csalt)]
    /\ account' = [password |-> password, salt |-> salt, csalt |-> csalt]
    /\ UNCHANGED <<attempt, validated>>

\* Nothing is kept from one attempt to the next, so one is enough.
AuthenticateAccount(password) ==
    /\ row # NoRow /\ attempt = NoAttempt
    /\ attempt' = password
    /\ validated' = validatePassword(row.salt \o password, row.hashed_password)
    /\ UNCHANGED <<row, account>>

PasswordNext ==
    \/ \E before \in BytesBefore :
          \E password \in Passwords, csalt \in Csalts,
             salt \in [1 .. SaltLength -> alphanum \cup {before}] :
                 CreateAccount(password, salt, csalt)
    \/ \E password \in Passwords : AuthenticateAccount(password)

PasswordSpec == PasswordInit /\ [][PasswordNext]_passwordVars
-----------------------------------------------------------------------------
(* Properties.                                                             *)

Tried == attempt # NoAttempt

\* A user who logs in with the password of the account is let in, whatever
\* was drawn - unless the salt ends in a space, which its column forgets.
OwnPasswordAccepted ==
    Tried /\ attempt = account.password /\ account.salt[SaltLength] # Space
        => validated

\* The bytes of a string that the subkeys take.
Significant(s) == SubSeq(s, 1, AtMost(Len(s), 4 * (BLF_N + 2)))

\* An attempt is accepted only if, after the salt, it is the password in all
\* the bytes that bcrypt looks at: repeating a short password, or cutting a
\* long one, does not make the same key.  The exception is a salt in which a
\* NUL was drawn: bcrypt looks at nothing behind it.
OnlySignificantAccepted ==
    Tried /\ validated /\ (\A k \in 1 .. SaltLength : account.salt[k] # NUL)
        => Significant(row.salt \o attempt)
               = Significant(account.salt \o account.password)

\* The password that was accepted is the password of the account, up to the
\* last byte there is room for behind the salt: the server answers "That is the
\* correct password!".  A salt with a NUL violates it.
AcceptedIsCorrect ==
    Tried /\ validated
        => Significant(account.salt \o attempt)
               = Significant(account.salt \o account.password)

\* The hash in the database holds the salt that was drawn for it: every byte
\* survives the characters, also the last, which ends inside a group.
SaltSurvives ==
    row # NoRow =>
        /\ row.hashed_password # Failed
        /\ LET text == row.hashed_password.text
           IN  /\ Decodes(text, BCRYPT_MAXSALT)
               /\ decode_base64(text, BCRYPT_MAXSALT) = account.csalt
=============================================================================
