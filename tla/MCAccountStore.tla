--------------------------- MODULE MCAccountStore ---------------------------
(* Instances of AccountStore for TLC. *)
EXTENDS AccountStore

CONSTANTS asdf, bob, eve, p, q

\* The account that the dump of the database opens with.
SubmittedDump == << [email |-> asdf, password |-> p] >>
=============================================================================
