---------------------------- MODULE RoomService ----------------------------
(***************************************************************************)
(* What the chat server promises the users who are connected, without      *)
(* sockets, slots or rounds: every user is in a set of rooms; a command    *)
(* takes effect at once; whatever is said in a room goes, in one step, to  *)
(* exactly the users who are in that room; and a refusal is only sent to a *)
(* user for whom its text is true.                                         *)
(***************************************************************************)
EXTENDS Integers

CONSTANTS Users, RoomNames

VARIABLES
    online,     \* the users being served
    members,    \* the users in each room
    delivered   \* the messages the last step delivered

Tell(users, text, room) ==
    {[to |-> u, text |-> text, room |-> room] : u \in users}

Init ==
    /\ online = {}
    /\ members = [r \in RoomNames |-> {}]
    /\ delivered = {}

Arrive(u) ==
    /\ u \notin online
    /\ online' = online \cup {u}
    /\ delivered' = {}
    /\ UNCHANGED members

\* The rooms are not told of a user who disconnects.
Depart(u) ==
    /\ u \in online
    /\ online' = online \ {u}
    /\ members' = [r \in RoomNames |-> members[r] \ {u}]
    /\ delivered' = {}

Join(u, r) ==
    /\ u \in online \ members[r]
    /\ members' = [members EXCEPT ![r] = @ \cup {u}]
    /\ delivered' = Tell(members[r] \cup {u}, "joined", r)
    /\ UNCHANGED online

Leave(u, r) ==
    /\ u \in members[r]
    /\ members' = [members EXCEPT ![r] = @ \ {u}]
    /\ delivered' = Tell({u}, "youLeft", r) \cup Tell(members[r] \ {u}, "left", r)
    /\ UNCHANGED online

Say(u, r) ==
    /\ u \in members[r]
    /\ delivered' = Tell(members[r], "said", r)
    /\ UNCHANGED <<online, members>>

Refuse(u, r) ==
    /\ u \in online
    /\ \/ u \in members[r] /\ delivered' = Tell({u}, "alreadyIn", r)
       \/ /\ u \notin members[r]
          /\ \E text \in {"noRoom", "notIn"} : delivered' = Tell({u}, text, r)
    /\ UNCHANGED <<online, members>>

AnswerAccount(u, r) ==
    /\ u \in online
    /\ delivered' = Tell({u}, "account", r)
    /\ UNCHANGED <<online, members>>

Quiet ==
    /\ delivered' = {}
    /\ UNCHANGED <<online, members>>

Next ==
    \/ Quiet
    \/ \E u \in Users : Arrive(u) \/ Depart(u)
    \/ \E u \in Users, r \in RoomNames :
          Join(u, r) \/ Leave(u, r) \/ Say(u, r) \/ Refuse(u, r) \/ AnswerAccount(u, r)

Spec == Init /\ [][Next]_<<online, members, delivered>>
=============================================================================
