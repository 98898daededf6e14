---------------------------- MODULE MCChatServer ----------------------------
(* Instances of ChatServer for TLC. *)
EXTENDS ChatServer

\* The commands about rooms, on every room.
RoomCommands ==
    [type : {"JOIN_A_ROOM", "LEAVE_THE_ROM", "SEND_THE_MSAGE_TO_ROOM"},
     data1 : RoomNames]

\* One account command stands for both, which the server answers alike.
OtherCommands ==
    {[type |-> t, data1 |-> CHOOSE r \in RoomNames : TRUE] :
        t \in {"NONE", "CREATE_ACCOUNT"}}

\* One command, for instances that are about connections.
OneCommand == [type : {"JOIN_A_ROOM"}, data1 : RoomNames]

Symmetry == Permutations(Conns) \cup Permutations(Handles)
=============================================================================
