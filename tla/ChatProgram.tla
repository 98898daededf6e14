----------------------------- MODULE ChatProgram -----------------------------
(***************************************************************************)
(* The room registry of the chat server (ChatServer/ChatProgram.cpp): a    *)
(* map from room names to the vector of clients in the room, in the order  *)
(* in which they joined.  Rooms are created by the first join and are      *)
(* never destroyed; an empty room stays in the map.                        *)
(*                                                                         *)
(* A client is the ChatClientInfo pointer that identifies it.  The module  *)
(* is a component of its own (Spec below lets any client join and leave)   *)
(* and is instantiated by ChatServer as g_ChatProgram.                     *)
(***************************************************************************)
EXTENDS Naturals, Sequences, SequencesExt

CONSTANTS
    RoomNames,   \* the room names clients use
    Clients      \* the ChatClientInfo pointers the server has allocated

VARIABLE
    m_ChatRooms  \* room name -> sequence of clients, defined on existing rooms

RoomExist(roomName) == roomName \in DOMAIN m_ChatRooms

GetClientsInRoom(roomName) ==
    IF RoomExist(roomName) THEN m_ChatRooms[roomName] ELSE << >>

IsMember(roomName, client) == client \in Range(GetClientsInRoom(roomName))

\* The registry once roomName exists and has the given clients.
WithRoster(roomName, roster) ==
    [r \in DOMAIN m_ChatRooms \cup {roomName} |->
        IF r = roomName THEN roster ELSE m_ChatRooms[r]]

\* The ChatProgramMessage the two operations return.
JoinStatus(roomName, client) ==
    IF IsMember(roomName, client) THEN "kClientAlreadyInRoom" ELSE "kAllGood"

LeaveStatus(roomName, client) ==
    IF ~RoomExist(roomName) THEN "kRoomDoesNotExist"
    ELSE IF ~IsMember(roomName, client) THEN "kClientNotInRoom"
    ELSE "kAllGood"
-----------------------------------------------------------------------------
Init == m_ChatRooms = [r \in {} |-> << >>]

\* Mutant of JoinRoom: the search for the client is dropped.
JoinRoomUnchecked(roomName, client) ==
    m_ChatRooms' = WithRoster(roomName, Append(GetClientsInRoom(roomName), client))

\* The room is created if it does not exist; the client goes to the back of
\* its vector unless it is already there.
JoinRoom(roomName, client) ==
    m_ChatRooms' =
        IF JoinStatus(roomName, client) = "kAllGood"
        THEN WithRoster(roomName, Append(GetClientsInRoom(roomName), client))
        ELSE m_ChatRooms

\* Mutant of LeaveRoom: the erased slot is filled with the last client.
LeaveRoomSwapLast(roomName, client) ==
    LET roster == GetClientsInRoom(roomName)
    IN  m_ChatRooms' =
            IF LeaveStatus(roomName, client) = "kAllGood"
            THEN WithRoster(roomName,
                     Front([k \in DOMAIN roster |->
                               IF roster[k] = client THEN Last(roster) ELSE roster[k]]))
            ELSE m_ChatRooms

\* The client found first is erased; the clients behind it close up.
LeaveRoom(roomName, client) ==
    m_ChatRooms' =
        IF LeaveStatus(roomName, client) = "kAllGood"
        THEN WithRoster(roomName, RemoveFirst(GetClientsInRoom(roomName), client))
        ELSE m_ChatRooms

Next == \E roomName \in RoomNames, client \in Clients :
            \/ JoinRoom(roomName, client)
            \/ LeaveRoom(roomName, client)

Spec == Init /\ [][Next]_m_ChatRooms
-----------------------------------------------------------------------------
TypeOK ==
    /\ DOMAIN m_ChatRooms \subseteq RoomNames
    /\ m_ChatRooms \in [DOMAIN m_ChatRooms -> Seq(Clients)]

\* A client is in a room's vector at most once, so that one broadcast sends
\* it one copy and one LeaveRoom, which erases a single element, removes it.
RosterUnique ==
    \A r \in DOMAIN m_ChatRooms : IsInjective(m_ChatRooms[r])

\* Whether a stands before b in a roster.
Before(roster, a, b) ==
    \E j, k \in DOMAIN roster : j < k /\ roster[j] = a /\ roster[k] = b

\* Joins and departures never reorder the clients that stay: everyone in a
\* room is served by BroadcastMessageToRoom in the order of joining.
OrderStable ==
    [][\A r \in DOMAIN m_ChatRooms : \A a, b \in Clients :
          /\ Before(m_ChatRooms[r], a, b)
          /\ {a, b} \subseteq Range(m_ChatRooms'[r])
          => Before(m_ChatRooms'[r], a, b)]_m_ChatRooms
=============================================================================
