--------------------------- MODULE ChatRoomProofs ---------------------------
(***************************************************************************)
(* Who hears what is said in a room, when the system does not hand out a   *)
(* closed SOCKET value again.  A room keeps the ChatClientInfo of clients  *)
(* who are gone; that nobody hears what is sent to them is OwnSocket: the  *)
(* SOCKET value of a client is the client's own, or nobody's.              *)
(***************************************************************************)
EXTENDS ChatServerProofs

\* The SOCKET value in a ChatClientInfo stands for its own connection, or,
\* once it was closed, for none.
OwnSocket ==
    \A c \in Conns : socket[c] \in Handles => owner[socket[c]] \in {c, NoClient}

\* The inductive invariant of this module.
RInv ==
    /\ IInv /\ OwnSocket
    /\ g_ChatProgram!RosterUnique
    /\ OnlyMembersHear /\ NoDoubleDelivery

\* A socket that accept returns was no client's before.
LEMMA FreeHandleIsNew ==
    ASSUME ~ReuseHandles, NEW h \in FreeHandles
    PROVE  /\ h \in Handles
           /\ owner[h] = NoClient
           /\ \A c \in Conns : socket[c] # h
BY DEF FreeHandles

\* Both ways an accept can go give a new SOCKET value to one connection.
LEMMA AcceptOwns ==
    ASSUME ~ReuseHandles, TypeOK, BacklogFresh, OwnSocket, Accept \/ AcceptUnmanaged
    PROVE  OwnSocket'
<1> DEFINE d == Head(backlog)
<1>1. PICK h \in FreeHandles :
          /\ owner' = [owner EXCEPT ![h] = d]
          /\ socket' = [socket EXCEPT ![d] = h] \/ socket' = socket
  BY DEF Accept, AcceptUnmanaged, AddClient
<1>2. d \in Conns
  BY AcceptedIsFresh DEF Accept, AcceptUnmanaged
<1>3. /\ h \in Handles
      /\ \A c \in Conns : socket[c] # h
  BY FreeHandleIsNew
<1> HIDE DEF d
<1>4. /\ owner \in [Handles -> Conns \cup {NoClient}]
      /\ socket \in [Conns -> Handles \cup {NoSocket}]
  BY DEF TypeOK
<1>5. owner'[h] = d /\ \A g \in Handles : g # h => owner'[g] = owner[g]
  BY <1>1, <1>3, <1>4
<1> SUFFICES ASSUME NEW c \in Conns, socket'[c] \in Handles
             PROVE  owner'[socket'[c]] \in {c, NoClient}
  BY DEF OwnSocket
<1>6. CASE socket'[c] = socket[c]
  BY <1>3, <1>5, <1>6 DEF OwnSocket
<1>7. CASE socket'[c] # socket[c]
  <2>1. c = d /\ socket'[c] = h
    BY <1>1, <1>4, <1>7
  <2> QED
    BY <1>5, <2>1
<1> QED
  BY <1>6, <1>7

\* Removing a client closes its socket and no other.
LEMMA RecvEndOwns ==
    ASSUME TypeOK, TableOwnsSockets, OwnSocket, NEW c \in Conns, RecvEnd(c)
    PROVE  OwnSocket'
<1>1. At(c)
  BY DEF RecvEnd, AtMarked
<1>2. socket[c] \in Handles /\ ClientArray[i] = c
  BY <1>1, AtClient
<1>3. owner' = [owner EXCEPT ![socket[c]] = NoClient] /\ UNCHANGED socket
  BY <1>2 DEF RecvEnd, RemoveCient
<1> QED
  BY <1>2, <1>3 DEF TypeOK, OwnSocket

\* No other step changes a SOCKET value or what it stands for.
LEMMA OwnSocketKept ==
    ASSUME ~ReuseHandles, IInv, OwnSocket, [Next]_vars
    PROVE  OwnSocket'
<1>1. CASE UNCHANGED <<owner, socket>>
  BY <1>1 DEF OwnSocket
<1>2. CASE Accept \/ AcceptUnmanaged
  BY <1>2, AcceptOwns DEF IInv
<1>3. CASE \E c \in Conns : RecvEnd(c)
  BY <1>3, RecvEndOwns DEF IInv
<1> QED
  BY <1>1, <1>2, <1>3, TableSteps
-----------------------------------------------------------------------------
\* A message to a client reaches that client or nobody.
LEMMA MessageReaches ==
    ASSUME OwnSocket, NEW c \in Conns, socket[c] \in Handles, NEW text, NEW room, NEW lost
    PROVE  /\ Message(socket[c], text, room, lost).to \in {c, NoClient}
           /\ Message(socket[c], text, room, lost).text = text
           /\ Message(socket[c], text, room, lost).room = room
BY DEF OwnSocket, Message

\* Everything broadcast in a sequence of messages is addressed to a member
\* of its room in the given registry.
Heard(messages, registry) ==
    \A k \in DOMAIN messages :
        /\ messages[k].to # NoClient
        /\ messages[k].text \in {"joined", "left", "said"}
        => /\ messages[k].room \in DOMAIN registry
           /\ \E n \in DOMAIN registry[messages[k].room] :
                 registry[messages[k].room][n] = messages[k].to

\* No two messages of a sequence are addressed to the same connection.
Distinct(messages) ==
    \A j, k \in DOMAIN messages :
        messages[j].to = messages[k].to /\ messages[j].to # NoClient => j = k

\* A reply is no broadcast, and goes to one client.
LEMMA ReplyReaches ==
    ASSUME OwnSocket, NEW c \in Conns, socket[c] \in Handles, NEW room, NEW lost,
           NEW text \in {"youLeft", "alreadyIn", "noRoom", "notIn", "account"},
           NEW registry
    PROVE  /\ Heard(Reply(c, text, room, lost), registry)
           /\ Distinct(Reply(c, text, room, lost))
<1>1. DOMAIN Reply(c, text, room, lost) = {1}
  BY DEF Reply
<1>2. Reply(c, text, room, lost)[1].text = text
  BY MessageReaches DEF Reply
<1> QED
  BY <1>1, <1>2 DEF Heard, Distinct

\* What the broadcast to a room's clients consists of.
LEMMA BroadcastElements ==
    ASSUME OwnSocket, NEW room, NEW lost, NEW text, NEW roster \in Seq(Conns),
           \A n \in DOMAIN roster : socket[roster[n]] \in Handles
    PROVE  /\ DOMAIN Broadcast(roster, text, room, lost) = DOMAIN roster
           /\ \A k \in DOMAIN roster :
                 /\ Broadcast(roster, text, room, lost)[k].to \in {roster[k], NoClient}
                 /\ Broadcast(roster, text, room, lost)[k].room = room
<1>1. Len(roster) \in Nat /\ DOMAIN roster = 1 .. Len(roster)
  BY LenProperties
<1>2. ASSUME NEW k \in 1 .. Len(roster)
      PROVE  /\ Broadcast(roster, text, room, lost)[k].to \in {roster[k], NoClient}
             /\ Broadcast(roster, text, room, lost)[k].room = room
  <2>1. roster[k] \in Conns /\ socket[roster[k]] \in Handles
    BY <1>1
  <2>2. Broadcast(roster, text, room, lost)[k] = Message(socket[roster[k]], text, room, lost)
    BY <1>1 DEF Broadcast
  <2> QED
    BY <2>1, <2>2, MessageReaches
<1> QED
  BY <1>1, <1>2 DEF Broadcast

\* A broadcast to a room goes to its members, each once.
LEMMA BroadcastReaches ==
    ASSUME OwnSocket, NEW room, NEW lost, NEW text, NEW registry,
           room \in DOMAIN registry, registry[room] \in Seq(Conns), IsInjective(registry[room]),
           \A n \in DOMAIN registry[room] : socket[registry[room][n]] \in Handles
    PROVE  /\ Heard(Broadcast(registry[room], text, room, lost), registry)
           /\ Distinct(Broadcast(registry[room], text, room, lost))
<1> DEFINE messages == Broadcast(registry[room], text, room, lost)
<1>1. /\ DOMAIN messages = DOMAIN registry[room]
      /\ \A k \in DOMAIN registry[room] :
            /\ messages[k].to \in {registry[room][k], NoClient}
            /\ messages[k].room = room
  BY BroadcastElements
<1> HIDE DEF messages
<1>2. Heard(messages, registry)
  BY <1>1 DEF Heard
<1>3. Distinct(messages)
  BY <1>1 DEF Distinct, IsInjective
<1> QED
  BY <1>2, <1>3 DEF messages
-----------------------------------------------------------------------------
\* Joins and departures keep a client out of a room's vector twice, and a
\* client who left is in the room's vector no more.
LEMMA RegistryUnique ==
    ASSUME g_ChatProgram!TypeOK, g_ChatProgram!RosterUnique,
           NEW room \in RoomNames, NEW c \in Conns
    PROVE  /\ g_ChatProgram!JoinRoom(room, c) =>
                 g_ChatProgram!RosterUnique' /\ room \in DOMAIN m_ChatRooms'
           /\ g_ChatProgram!LeaveRoom(room, c) => g_ChatProgram!RosterUnique'
           /\ /\ g_ChatProgram!LeaveRoom(room, c)
              /\ g_ChatProgram!LeaveStatus(room, c) = "kAllGood"
              => /\ room \in DOMAIN m_ChatRooms'
                 /\ \A n \in DOMAIN m_ChatRooms'[room] : m_ChatRooms'[room][n] # c
<1>1. RoomProofs!TypeOK
  BY SameRegistry
<1>2. /\ g_ChatProgram!RosterUnique <=> RoomProofs!RosterUnique
      /\ g_ChatProgram!RosterUnique' <=> RoomProofs!RosterUnique'
  BY DEF g_ChatProgram!RosterUnique, RoomProofs!RosterUnique,
         g_ChatProgram!IsInjective, RoomProofs!IsInjective
<1>3. g_ChatProgram!LeaveStatus(room, c) = RoomProofs!LeaveStatus(room, c)
  BY DEF g_ChatProgram!LeaveStatus, RoomProofs!LeaveStatus,
         g_ChatProgram!RoomExist, RoomProofs!RoomExist,
         g_ChatProgram!GetClientsInRoom, RoomProofs!GetClientsInRoom,
         g_ChatProgram!IsMember, RoomProofs!IsMember,
         g_ChatProgram!Range, RoomProofs!Range
<1>4. g_ChatProgram!JoinRoom(room, c) =>
          g_ChatProgram!RosterUnique' /\ room \in DOMAIN m_ChatRooms'
  BY <1>1, <1>2, SameRegistry, RoomProofs!JoinKeeps, RoomProofs!JoinedRoomExists
<1>5. g_ChatProgram!LeaveRoom(room, c) => g_ChatProgram!RosterUnique'
  BY <1>1, <1>2, SameRegistry, RoomProofs!LeaveKeeps
<1>6. /\ g_ChatProgram!LeaveRoom(room, c)
      /\ g_ChatProgram!LeaveStatus(room, c) = "kAllGood"
      => /\ room \in DOMAIN m_ChatRooms'
         /\ \A n \in DOMAIN m_ChatRooms'[room] : m_ChatRooms'[room][n] # c
  BY <1>1, <1>2, <1>3, SameRegistry, RoomProofs!LeaverIsGone
<1> QED
  BY <1>4, <1>5, <1>6

\* LeaveRoom tells the client first, and then the room the client left.
LEMMA PrependReaches ==
    ASSUME NEW m \in MessageType, NEW b \in Seq(MessageType), NEW registry,
           Heard(b, registry), Distinct(b),
           m.text \notin {"joined", "left", "said"},
           \A k \in DOMAIN b : b[k].to = m.to => m.to = NoClient
    PROVE  Heard(<< m >> \o b, registry) /\ Distinct(<< m >> \o b)
<1> DEFINE t == << m >> \o b
<1>1. /\ Len(b) \in Nat
      /\ DOMAIN b = 1 .. Len(b)
      /\ DOMAIN t = 1 .. Len(b) + 1
      /\ t[1] = m
      /\ \A k \in 1 .. Len(b) + 1 : k # 1 => k - 1 \in 1 .. Len(b) /\ t[k] = b[k - 1]
  <2>1. << m >> \in Seq(MessageType) /\ Len(<< m >>) = 1 /\ << m >>[1] = m
    OBVIOUS
  <2>2. Len(b) \in Nat /\ DOMAIN b = 1 .. Len(b)
    BY LenProperties
  <2>3. /\ t \in Seq(MessageType)
        /\ Len(t) = 1 + Len(b)
        /\ \A k \in 1 .. 1 + Len(b) : t[k] = IF k <= 1 THEN << m >>[k] ELSE b[k - 1]
    BY <2>1, ConcatProperties
  <2>4. DOMAIN t = 1 .. Len(t)
    BY <2>3, LenProperties
  <2> HIDE DEF t
  <2> QED
    BY <2>1, <2>2, <2>3, <2>4
<1> HIDE DEF t
<1>2. Heard(t, registry)
  BY <1>1 DEF Heard
<1>3. Distinct(t)
  <2> SUFFICES ASSUME NEW j \in 1 .. Len(b) + 1, NEW k \in 1 .. Len(b) + 1,
                      t[j].to = t[k].to, t[j].to # NoClient
               PROVE  j = k
    BY <1>1 DEF Distinct
  <2>1. CASE j = 1 \/ k = 1
    BY <1>1, <2>1
  <2>2. CASE j # 1 /\ k # 1
    <3>1. j - 1 = k - 1
      BY <1>1, <2>2 DEF Distinct
    <3> QED
      BY <1>1, <3>1
  <2> QED
    BY <2>1, <2>2
<1> QED
  BY <1>2, <1>3 DEF t

\* What a command sends reaches the members of a room, each once.
LEMMA ParseReaches ==
    ASSUME ConstantsAssumption, TypeOK, RostersSocketed, OwnSocket,
           g_ChatProgram!RosterUnique, UNCHANGED socket,
           NEW c \in Conns, socket[c] \in Handles, NEW cmd \in Commands, NEW lost,
           ParseMessageFromClient(c, cmd, lost)
    PROVE  /\ Heard(out', m_ChatRooms')
           /\ Distinct(out')
           /\ g_ChatProgram!RosterUnique'
<1> DEFINE room == cmd.data1
<1>1. room \in RoomNames
  BY DEF ConstantsAssumption
<1>2. g_ChatProgram!TypeOK' /\ RostersSocketed'
  BY ParseKeeps
<1>3. \A text \in {"youLeft", "alreadyIn", "noRoom", "notIn", "account"} :
          /\ Heard(Reply(c, text, room, lost), m_ChatRooms')
          /\ Distinct(Reply(c, text, room, lost))
  BY ReplyReaches
<1>4. ASSUME room \in DOMAIN m_ChatRooms', g_ChatProgram!RosterUnique', NEW text
      PROVE  LET b == Broadcast(m_ChatRooms'[room], text, room, lost)
             IN  Heard(b, m_ChatRooms') /\ Distinct(b)
  <2>1. /\ m_ChatRooms'[room] \in Seq(Conns)
        /\ IsInjective(m_ChatRooms'[room])
        /\ \A n \in DOMAIN m_ChatRooms'[room] : socket[m_ChatRooms'[room][n]] \in Handles
    BY <1>2, <1>4
    DEF g_ChatProgram!TypeOK, g_ChatProgram!RosterUnique, g_ChatProgram!IsInjective,
        IsInjective, RostersSocketed
  <2> QED
    BY <1>4, <2>1, BroadcastReaches
<1>5. ASSUME room \in DOMAIN m_ChatRooms'
      PROVE  g_ChatProgram!GetClientsInRoom(room)' = m_ChatRooms'[room]
  BY <1>5 DEF g_ChatProgram!GetClientsInRoom, g_ChatProgram!RoomExist
<1>6. CASE JoinRoom(c, room, lost)
  <2>1. g_ChatProgram!RosterUnique' /\ room \in DOMAIN m_ChatRooms'
    BY <1>1, <1>6, RegistryUnique DEF JoinRoom, TypeOK
  <2> QED
    BY <1>3, <1>4, <1>5, <1>6, <2>1 DEF JoinRoom
<1>7. CASE LeaveRoom(c, room, lost)
  <2>1. g_ChatProgram!LeaveRoom(room, c) /\ g_ChatProgram!RosterUnique'
    BY <1>1, <1>7, RegistryUnique DEF LeaveRoom, TypeOK
  <2>2. CASE g_ChatProgram!LeaveStatus(room, c) = "kAllGood"
    <3> DEFINE b == Broadcast(m_ChatRooms'[room], "left", room, lost)
               m == Message(socket[c], "youLeft", room, lost)
    <3>1. /\ room \in DOMAIN m_ChatRooms'
          /\ \A n \in DOMAIN m_ChatRooms'[room] : m_ChatRooms'[room][n] # c
      BY <1>1, <2>1, <2>2, RegistryUnique DEF TypeOK
    <3>2. out' = << m >> \o b
      BY <1>5, <1>7, <2>2, <3>1 DEF LeaveRoom, Reply
    <3>3. Heard(b, m_ChatRooms') /\ Distinct(b)
      BY <1>4, <2>1, <3>1
    <3>4. m_ChatRooms'[room] \in Seq(Conns) /\
          \A n \in DOMAIN m_ChatRooms'[room] : socket[m_ChatRooms'[room][n]] \in Handles
      BY <1>2, <3>1 DEF g_ChatProgram!TypeOK, RostersSocketed
    <3>5. m \in MessageType /\ b \in Seq(MessageType)
      BY <1>1, <3>4, MessageHasType, BroadcastHasType
    <3>6. m.to \in {c, NoClient} /\ m.text = "youLeft"
      BY MessageReaches
    <3>7. \A k \in DOMAIN b : b[k].to = m.to => m.to = NoClient
      <4>1. /\ DOMAIN b = DOMAIN m_ChatRooms'[room]
            /\ \A k \in DOMAIN m_ChatRooms'[room] : b[k].to \in {m_ChatRooms'[room][k], NoClient}
        BY <3>4, BroadcastElements
      <4> HIDE DEF b, m
      <4> QED
        BY <3>1, <3>6, <4>1
    <3> HIDE DEF b, m
    <3>8. Heard(<< m >> \o b, m_ChatRooms') /\ Distinct(<< m >> \o b)
      BY <3>3, <3>5, <3>6, <3>7, PrependReaches
    <3> QED
      BY <2>1, <3>2, <3>8
  <2>3. CASE g_ChatProgram!LeaveStatus(room, c) \in {"kRoomDoesNotExist", "kClientNotInRoom"}
    BY <1>3, <1>7, <2>1, <2>3 DEF LeaveRoom
  <2> QED
    BY <2>2, <2>3 DEF g_ChatProgram!LeaveStatus
<1>8. ASSUME UNCHANGED m_ChatRooms
      PROVE  g_ChatProgram!RosterUnique'
  BY <1>8 DEF g_ChatProgram!RosterUnique
<1>9. CASE MessageRoom(c, room, lost)
  <2>1. UNCHANGED m_ChatRooms
    BY <1>9 DEF MessageRoom
  <2>2. CASE g_ChatProgram!IsMember(room, c)
    <3>1. /\ room \in DOMAIN m_ChatRooms'
          /\ g_ChatProgram!GetClientsInRoom(room) = m_ChatRooms'[room]
      BY <2>1, <2>2
      DEF g_ChatProgram!IsMember, g_ChatProgram!GetClientsInRoom,
          g_ChatProgram!RoomExist, g_ChatProgram!Range
    <3> QED
      BY <1>4, <1>8, <1>9, <2>1, <2>2, <3>1 DEF MessageRoom
  <2>3. CASE ~g_ChatProgram!IsMember(room, c)
    BY <1>3, <1>8, <1>9, <2>1, <2>3 DEF MessageRoom
  <2> QED
    BY <2>2, <2>3
<1>10. CASE out' = Reply(c, "account", room, lost) /\ UNCHANGED m_ChatRooms
  BY <1>3, <1>8, <1>10
<1>11. CASE out' = << >> /\ UNCHANGED m_ChatRooms
  BY <1>8, <1>11 DEF Heard, Distinct
<1> QED
  BY <1>6, <1>7, <1>9, <1>10, <1>11 DEF ParseMessageFromClient
-----------------------------------------------------------------------------
\* The two properties are Heard and Distinct of the messages of a step.
LEMMA Deliveries ==
    /\ OnlyMembersHear <=> Heard(out, m_ChatRooms)
    /\ NoDoubleDelivery <=> Distinct(out)
<1>1. ASSUME NEW room, NEW c
      PROVE  g_ChatProgram!IsMember(room, c) <=>
                 /\ room \in DOMAIN m_ChatRooms
                 /\ \E n \in DOMAIN m_ChatRooms[room] : m_ChatRooms[room][n] = c
  BY DEF g_ChatProgram!IsMember, g_ChatProgram!GetClientsInRoom,
         g_ChatProgram!RoomExist, g_ChatProgram!Range
<1>2. OnlyMembersHear <=> Heard(out, m_ChatRooms)
  BY <1>1 DEF OnlyMembersHear, Heard
<1>3. NoDoubleDelivery <=> Distinct(out)
  BY DEF NoDoubleDelivery, Distinct
<1> QED
  BY <1>2, <1>3

\* The same of the messages of the next step.
LEMMA DeliveriesAfter ==
    /\ OnlyMembersHear' <=> Heard(out', m_ChatRooms')
    /\ NoDoubleDelivery' <=> Distinct(out')
<1>1. ASSUME NEW room, NEW c
      PROVE  g_ChatProgram!IsMember(room, c)' <=>
                 /\ room \in DOMAIN m_ChatRooms'
                 /\ \E n \in DOMAIN m_ChatRooms'[room] : m_ChatRooms'[room][n] = c
  BY DEF g_ChatProgram!IsMember, g_ChatProgram!GetClientsInRoom,
         g_ChatProgram!RoomExist, g_ChatProgram!Range
<1>2. OnlyMembersHear' <=> Heard(out', m_ChatRooms')
  BY <1>1 DEF OnlyMembersHear, Heard, g_ChatProgram!IsMember,
     g_ChatProgram!GetClientsInRoom, g_ChatProgram!RoomExist, g_ChatProgram!Range
<1>3. NoDoubleDelivery' <=> Distinct(out')
  BY DEF NoDoubleDelivery, Distinct
<1> QED
  BY <1>2, <1>3

\* A step that executes no command sends nothing, or leaves what was sent.
LEMMA QuietSteps ==
    ASSUME [Next]_vars,
           ~ \E c \in Conns, cmd \in Commands, lost \in LostSets : RecvFrame(c, cmd, lost)
    PROVE  UNCHANGED m_ChatRooms /\ out' \in {out, << >>}
<1>1. CASE Environment
  BY <1>1 DEF Environment, Connect, Submit, Quit, Break, serverVars
<1>2. CASE Select \/ SelectFails \/ Accept \/ AcceptUnmanaged \/ AcceptFails \/ EndRound
  BY <1>2 DEF Select, SelectFails, Accept, AcceptUnmanaged, AcceptFails, EndRound
<1>3. CASE \E c \in Conns :
              \/ RecvSkip(c) \/ RecvPart(c) \/ RecvEnd(c) \/ RecvNothing(c) \/ RecvOutside(c)
              \/ \E cmd \in Commands : RecvFrameThrows(c, cmd)
  BY <1>3 DEF RecvSkip, RecvPart, RecvEnd, RecvNothing, RecvOutside, RecvFrameThrows
<1>4. CASE UNCHANGED vars
  BY <1>4 DEF vars
<1> QED
  BY <1>1, <1>2, <1>3, <1>4 DEF Next, Server

\* Every step keeps the invariant: a command by ParseReaches, the others by
\* QuietSteps.
LEMMA RoomStepKeeps ==
    ASSUME ~ReuseHandles, RInv, [Next]_vars
    PROVE  RInv'
<1>1. IInv' /\ OwnSocket'
  BY StepKeeps, OwnSocketKept DEF RInv
<1>2. ASSUME NEW c \in Conns, NEW cmd \in Commands, NEW lost \in LostSets,
             RecvFrame(c, cmd, lost)
      PROVE  /\ Heard(out', m_ChatRooms')
             /\ Distinct(out')
             /\ g_ChatProgram!RosterUnique'
  <2>1. At(c) /\ ParseMessageFromClient(c, cmd, lost) /\ UNCHANGED socket
    BY <1>2 DEF RecvFrame, FrameArrives, Receiving, AtMarked
  <2>2. socket[c] \in Handles
    BY <2>1, AtClient DEF RInv, IInv
  <2> QED
    BY <2>1, <2>2, ParseReaches, ConstantsAssumption DEF RInv, IInv
<1>3. ASSUME ~ \E c \in Conns, cmd \in Commands, lost \in LostSets : RecvFrame(c, cmd, lost)
      PROVE  /\ Heard(out', m_ChatRooms')
             /\ Distinct(out')
             /\ g_ChatProgram!RosterUnique'
  <2>1. UNCHANGED m_ChatRooms /\ out' \in {out, << >>}
    BY <1>3, QuietSteps
  <2>2. Heard(out, m_ChatRooms) /\ Distinct(out)
    BY Deliveries DEF RInv
  <2>3. Heard(out', m_ChatRooms') /\ Distinct(out')
    BY <2>1, <2>2 DEF Heard, Distinct
  <2> QED
    BY <2>1, <2>3 DEF RInv, g_ChatProgram!RosterUnique
<1> QED
  BY <1>1, <1>2, <1>3, DeliveriesAfter DEF RInv

\* The invariant holds before the first connection.
LEMMA RoomInit == Init => RInv
<1> SUFFICES ASSUME Init
             PROVE  RInv
  OBVIOUS
<1>1. IInv
  BY InitEstablishes
<1>2. OwnSocket
  BY ConstantsAssumption DEF Init, OwnSocket
<1>3. g_ChatProgram!RosterUnique
  BY DEF Init, g_ChatProgram!Init, g_ChatProgram!RosterUnique
<1>4. OnlyMembersHear /\ NoDoubleDelivery
  BY DEF Init, OnlyMembersHear, NoDoubleDelivery
<1> QED
  BY <1>1, <1>2, <1>3, <1>4 DEF RInv

\* No step puts a client twice into a room, whatever becomes of its socket.
LEMMA RosterStep ==
    ASSUME TypeOK, RosterUnique, [Next]_vars
    PROVE  RosterUnique'
<1>1. ASSUME UNCHANGED m_ChatRooms
      PROVE  RosterUnique'
  BY <1>1 DEF RosterUnique, g_ChatProgram!RosterUnique
<1>2. ASSUME NEW c \in Conns, NEW cmd \in Commands, NEW lost \in LostSets,
             RecvFrame(c, cmd, lost)
      PROVE  RosterUnique'
  <2>1. ParseMessageFromClient(c, cmd, lost)
    BY <1>2 DEF RecvFrame
  <2>2. cmd.data1 \in RoomNames
    BY ConstantsAssumption
  <2>3. CASE \/ g_ChatProgram!JoinRoom(cmd.data1, c)
             \/ g_ChatProgram!LeaveRoom(cmd.data1, c)
    BY <2>2, <2>3, RegistryUnique DEF RosterUnique, TypeOK
  <2> QED
    BY <1>1, <2>1, <2>3 DEF ParseMessageFromClient, JoinRoom, LeaveRoom, MessageRoom
<1>3. ASSUME ~ \E c \in Conns, cmd \in Commands, lost \in LostSets : RecvFrame(c, cmd, lost)
      PROVE  RosterUnique'
  BY <1>1, <1>3, QuietSteps
<1> QED
  BY <1>2, <1>3

\* Whatever connects, breaks or is reused, no client is twice in a room, so
\* that one departure removes it.
THEOREM RosterIsUnique == Spec => []RosterUnique
<1>1. Init => RosterUnique
  BY DEF Init, g_ChatProgram!Init, RosterUnique, g_ChatProgram!RosterUnique
<1>2. TypeOK /\ RosterUnique /\ [Next]_vars => RosterUnique'
  BY RosterStep
<1> QED
  BY <1>1, <1>2, TypeCorrect, PTL DEF Spec

\* The clients who stay in a room keep their order, in one step.
OrderKept ==
    \A r \in DOMAIN m_ChatRooms : \A a, b \in Conns :
        /\ g_ChatProgram!Before(m_ChatRooms[r], a, b)
        /\ {a, b} \subseteq g_ChatProgram!Range(m_ChatRooms'[r])
        => g_ChatProgram!Before(m_ChatRooms'[r], a, b)

\* A command keeps the order, by the registry's lemma; other steps leave the
\* rooms alone.
LEMMA OrderStep ==
    ASSUME TypeOK, RosterUnique, [Next]_vars
    PROVE  [OrderKept]_m_ChatRooms
<1>1. ASSUME NEW c \in Conns, NEW cmd \in Commands, NEW lost \in LostSets,
             RecvFrame(c, cmd, lost)
      PROVE  [OrderKept]_m_ChatRooms
  <2>1. ParseMessageFromClient(c, cmd, lost)
    BY <1>1 DEF RecvFrame
  <2>2. cmd.data1 \in RoomNames
    BY ConstantsAssumption
  <2>3. RoomProofs!OrderKept <=> OrderKept
    BY DEF RoomProofs!OrderKept, OrderKept, RoomProofs!Before, g_ChatProgram!Before,
           RoomProofs!Range, g_ChatProgram!Range
  <2>4. RoomProofs!TypeOK /\ RoomProofs!RosterUnique
    BY SameRegistry
    DEF TypeOK, RosterUnique, g_ChatProgram!RosterUnique, RoomProofs!RosterUnique,
        g_ChatProgram!IsInjective, RoomProofs!IsInjective
  <2>5. CASE \/ g_ChatProgram!JoinRoom(cmd.data1, c)
             \/ g_ChatProgram!LeaveRoom(cmd.data1, c)
    BY <2>2, <2>3, <2>4, <2>5, SameRegistry, RoomProofs!StepKeepsOrder
  <2> QED
    BY <2>1, <2>5 DEF ParseMessageFromClient, JoinRoom, LeaveRoom, MessageRoom
<1> QED
  BY <1>1, QuietSteps

\* Clients who stay in a room are served in the order in which they joined,
\* whoever joins, leaves or disconnects.
THEOREM OrderIsStable == Spec => OrderStable
<1>1. TypeOK /\ RosterUnique /\ [Next]_vars => [OrderKept]_m_ChatRooms
  BY OrderStep
<1> QED
  BY <1>1, TypeCorrect, RosterIsUnique, PTL
  DEF Spec, OrderStable, g_ChatProgram!OrderStable, OrderKept

\* As long as the system does not hand out a closed SOCKET value again, what
\* is broadcast to a room reaches only clients who are in it, although the
\* room keeps the clients who are gone.
THEOREM MembersOnly ==
    ASSUME ~ReuseHandles
    PROVE  Spec => []OnlyMembersHear
<1>1. RInv /\ [Next]_vars => RInv'
  BY RoomStepKeeps
<1>2. RInv => OnlyMembersHear
  BY DEF RInv
<1> QED
  BY <1>1, <1>2, RoomInit, PTL DEF Spec

\* Under the same assumption one command sends nobody two messages.
THEOREM DeliveredOnce ==
    ASSUME ~ReuseHandles
    PROVE  Spec => []NoDoubleDelivery
<1>1. RInv /\ [Next]_vars => RInv'
  BY RoomStepKeeps
<1>2. RInv => NoDoubleDelivery
  BY DEF RInv
<1> QED
  BY <1>1, <1>2, RoomInit, PTL DEF Spec
-----------------------------------------------------------------------------
(* The server implements RoomService: the users being served are the       *)
(* clients in the table, a room's members are those of its clients who are *)
(* in the table, and a message is delivered if its SOCKET value was open.  *)
(* Beyond RInv this rests on OpenIsLive: nobody outside the table has a    *)
(* SOCKET value of its own that is open, so that nothing is delivered to   *)
(* the clients whom a room has kept.                                       *)

\* The refinement mapping.
members ==
    [r \in RoomNames |-> Range(g_ChatProgram!GetClientsInRoom(r)) \cap Live]
Delivered(messages) == {m \in Range(messages) : m.to # NoClient}

\* What a message to a client becomes when no buffer is full.
LEMMA MessageDelivered ==
    ASSUME IInv, OwnSocket, OpenIsLive, pc # "undefined",
           NEW c \in Conns, socket[c] \in Handles, NEW text, NEW room
    PROVE  Message(socket[c], text, room, {}) =
               [to |-> IF c \in Live THEN c ELSE NoClient, text |-> text, room |-> room]
<1>1. owner[socket[c]] = IF c \in Live THEN c ELSE NoClient
  <2>1. CASE c \in Live
    BY <2>1 DEF IInv, TableOwnsSockets, Live
  <2>2. CASE c \notin Live
    BY <2>2 DEF OwnSocket, OpenIsLive
  <2> QED
    BY <2>1, <2>2
<1> QED
  BY <1>1 DEF Message

\* A broadcast is delivered to exactly the members of the room.
LEMMA BroadcastDelivered ==
    ASSUME IInv, OwnSocket, OpenIsLive, pc # "undefined", NEW text, NEW room,
           NEW roster \in Seq(Conns), \A n \in DOMAIN roster : socket[roster[n]] \in Handles
    PROVE  Delivered(Broadcast(roster, text, room, {})) =
               Service!Tell(Range(roster) \cap Live, text, room)
<1> DEFINE told(c) == [to |-> c, text |-> text, room |-> room]
           heard(c) == IF c \in Live THEN c ELSE NoClient
           b == Broadcast(roster, text, room, {})
<1>1. Len(roster) \in Nat /\ DOMAIN roster = 1 .. Len(roster)
  BY LenProperties
<1>2. DOMAIN b = 1 .. Len(roster)
  BY <1>1 DEF Broadcast
<1>3. ASSUME NEW n \in 1 .. Len(roster)
      PROVE  b[n] = told(heard(roster[n]))
  <2>1. roster[n] \in Conns /\ socket[roster[n]] \in Handles
    BY <1>1
  <2>2. b[n] = Message(socket[roster[n]], text, room, {})
    BY <1>1 DEF Broadcast
  <2> QED
    BY <2>1, <2>2, MessageDelivered
<1>4. \A c : told(c).to = c
  OBVIOUS
<1>5. Service!Tell(Range(roster) \cap Live, text, room) =
          {told(c) : c \in Range(roster) \cap Live}
  BY DEF Service!Tell
<1>6. Range(b) = {told(heard(roster[n])) : n \in 1 .. Len(roster)}
  <2> HIDE DEF b, told, heard
  <2> QED
    BY <1>2, <1>3 DEF Range
<1>7. \A n \in 1 .. Len(roster) : roster[n] # NoClient
  BY <1>1, ConstantsAssumption
<1>8. \A n \in 1 .. Len(roster) :
          heard(roster[n]) # NoClient => roster[n] \in Live /\ heard(roster[n]) = roster[n]
  OBVIOUS
<1>9. \A c \in Range(roster) \cap Live :
          \E n \in 1 .. Len(roster) : c = heard(roster[n]) /\ c # NoClient
  BY <1>1, <1>7 DEF Range
<1>10. \A n \in 1 .. Len(roster) : roster[n] \in Range(roster)
  BY <1>1 DEF Range
<1> HIDE DEF b, told, heard
<1>11. \A m \in Delivered(b) : m \in {told(c) : c \in Range(roster) \cap Live}
  BY <1>4, <1>6, <1>8, <1>10 DEF Delivered
<1>12. \A c \in Range(roster) \cap Live : told(c) \in Delivered(b)
  BY <1>4, <1>6, <1>9 DEF Delivered
<1>13. Delivered(b) = {told(c) : c \in Range(roster) \cap Live}
  BY <1>11, <1>12
<1> QED
  BY <1>5, <1>13 DEF b

\* A reply is delivered to the client whose command is executed.
LEMMA ReplyDelivered ==
    ASSUME IInv, OwnSocket, OpenIsLive, pc # "undefined",
           NEW c \in Conns, c \in Live, socket[c] \in Handles, NEW text, NEW room
    PROVE  Delivered(Reply(c, text, room, {})) = Service!Tell({c}, text, room)
<1> DEFINE m == Message(socket[c], text, room, {})
<1>1. m = [to |-> c, text |-> text, room |-> room]
  BY MessageDelivered
<1>2. m.to # NoClient
  BY <1>1, ConstantsAssumption
<1>3. Service!Tell({c}, text, room) = {m}
  BY <1>1 DEF Service!Tell
<1>4. Reply(c, text, room, {}) = << m >>
  BY DEF Reply
<1> HIDE DEF m
<1>5. Delivered(<< m >>) = {m}
  BY <1>2 DEF Delivered, Range
<1> QED
  BY <1>3, <1>4, <1>5

\* What a join and a departure do to the clients of every room, when they
\* are refused as well.
LEMMA RegistryEffect ==
    ASSUME g_ChatProgram!TypeOK, g_ChatProgram!RosterUnique, NEW room, NEW c \in Conns
    PROVE  /\ g_ChatProgram!JoinRoom(room, c) =>
                 \A q : Range(g_ChatProgram!GetClientsInRoom(q)') =
                        IF q = room THEN Range(g_ChatProgram!GetClientsInRoom(q)) \cup {c}
                        ELSE Range(g_ChatProgram!GetClientsInRoom(q))
           /\ g_ChatProgram!LeaveRoom(room, c) =>
                 \A q : Range(g_ChatProgram!GetClientsInRoom(q)') =
                        IF q = room THEN Range(g_ChatProgram!GetClientsInRoom(q)) \ {c}
                        ELSE Range(g_ChatProgram!GetClientsInRoom(q))
<1> DEFINE roster(q) == g_ChatProgram!GetClientsInRoom(q)
           s == roster(room)
<1>1. s \in Seq(Conns) /\ IsInjective(s)
  BY DEF g_ChatProgram!TypeOK, g_ChatProgram!RosterUnique, g_ChatProgram!GetClientsInRoom,
         g_ChatProgram!RoomExist, g_ChatProgram!IsInjective, IsInjective
<1>2. \A q, d : g_ChatProgram!IsMember(q, d) <=> d \in Range(roster(q))
  BY DEF g_ChatProgram!IsMember, g_ChatProgram!Range, Range
<1>3. ASSUME NEW t, m_ChatRooms' = g_ChatProgram!WithRoster(room, t)
      PROVE  \A q : roster(q)' = IF q = room THEN t ELSE roster(q)
  BY <1>3 DEF g_ChatProgram!WithRoster, g_ChatProgram!GetClientsInRoom, g_ChatProgram!RoomExist
<1>4. UNCHANGED m_ChatRooms => \A q : roster(q)' = roster(q)
  BY DEF g_ChatProgram!GetClientsInRoom, g_ChatProgram!RoomExist
<1>5. ASSUME g_ChatProgram!JoinRoom(room, c)
      PROVE  \A q : Range(roster(q)') =
                    IF q = room THEN Range(roster(q)) \cup {c} ELSE Range(roster(q))
  <2>1. CASE c \in Range(s)
    <3>1. UNCHANGED m_ChatRooms
      BY <1>2, <1>5, <2>1 DEF g_ChatProgram!JoinRoom, g_ChatProgram!JoinStatus
    <3> HIDE DEF roster
    <3> QED
      BY <1>4, <2>1, <3>1
  <2>2. CASE c \notin Range(s)
    <3>1. m_ChatRooms' = g_ChatProgram!WithRoster(room, Append(s, c))
      BY <1>2, <1>5, <2>2 DEF g_ChatProgram!JoinRoom, g_ChatProgram!JoinStatus
    <3>2. \A q : roster(q)' = IF q = room THEN Append(s, c) ELSE roster(q)
      BY <1>3, <3>1
    <3> HIDE DEF s, roster
    <3>3. Range(Append(s, c)) = Range(s) \cup {c}
      BY <1>1, RangeOfAppend
    <3> QED
      BY <3>2, <3>3 DEF s
  <2> QED
    BY <2>1, <2>2
<1>6. ASSUME g_ChatProgram!LeaveRoom(room, c)
      PROVE  \A q : Range(roster(q)') =
                    IF q = room THEN Range(roster(q)) \ {c} ELSE Range(roster(q))
  <2>1. CASE c \notin Range(s)
    <3>1. UNCHANGED m_ChatRooms
      BY <1>2, <1>6, <2>1 DEF g_ChatProgram!LeaveRoom, g_ChatProgram!LeaveStatus
    <3> HIDE DEF roster
    <3> QED
      BY <1>4, <2>1, <3>1
  <2>2. CASE c \in Range(s)
    <3>1. room \in DOMAIN m_ChatRooms
      BY <2>2 DEF g_ChatProgram!GetClientsInRoom, g_ChatProgram!RoomExist, Range
    <3>2. RemoveFirst(s, c) = g_ChatProgram!RemoveFirst(s, c)
      BY DEF g_ChatProgram!RemoveFirst, RemoveFirst, g_ChatProgram!RemoveAt, RemoveAt,
             g_ChatProgram!SelectInSeq, SelectInSeq, g_ChatProgram!Min, Min
    <3>3. m_ChatRooms' = g_ChatProgram!WithRoster(room, RemoveFirst(s, c))
      BY <1>2, <1>6, <2>2, <3>1, <3>2
      DEF g_ChatProgram!LeaveRoom, g_ChatProgram!LeaveStatus, g_ChatProgram!RoomExist
    <3>4. \A q : roster(q)' = IF q = room THEN RemoveFirst(s, c) ELSE roster(q)
      BY <1>3, <3>3
    <3> HIDE DEF s, roster
    <3>5. \E n \in 1 .. Len(s) : s[n] = c
      BY <1>1, <2>2, LenProperties DEF Range
    <3>6. Range(RemoveFirst(s, c)) = Range(s) \ {c}
      BY <1>1, <3>5, RemoveFirstRange
    <3> QED
      BY <3>4, <3>6 DEF s
  <2> QED
    BY <2>1, <2>2
<1> QED
  BY <1>5, <1>6

\* The steps of the abstract service, in terms of the mapping.
LEMMA ServiceSteps ==
    ASSUME NEW c \in Conns, NEW r \in RoomNames, Live' = Live
    PROVE  /\ /\ c \in Live \ members[r]
              /\ members' = [members EXCEPT ![r] = @ \cup {c}]
              /\ Delivered(out') = Service!Tell(members[r] \cup {c}, "joined", r)
              => Service!Next
           /\ /\ c \in members[r]
              /\ members' = [members EXCEPT ![r] = @ \ {c}]
              /\ Delivered(out') = Service!Tell({c}, "youLeft", r)
                                   \cup Service!Tell(members[r] \ {c}, "left", r)
              => Service!Next
           /\ /\ c \in members[r]
              /\ members' = members
              /\ Delivered(out') = Service!Tell(members[r], "said", r)
              => Service!Next
           /\ /\ c \in Live
              /\ members' = members
              /\ \/ c \in members[r] /\ Delivered(out') = Service!Tell({c}, "alreadyIn", r)
                 \/ /\ c \notin members[r]
                    /\ \E text \in {"noRoom", "notIn"} :
                          Delivered(out') = Service!Tell({c}, text, r)
              => Service!Next
           /\ /\ c \in Live
              /\ members' = members
              /\ Delivered(out') = Service!Tell({c}, "account", r)
              => Service!Next
<1>1. /\ c \in Live \ members[r]
      /\ members' = [members EXCEPT ![r] = @ \cup {c}]
      /\ Delivered(out') = Service!Tell(members[r] \cup {c}, "joined", r)
      => Service!Join(c, r)
  BY DEF Service!Join, members, Delivered
<1>2. /\ c \in members[r]
      /\ members' = [members EXCEPT ![r] = @ \ {c}]
      /\ Delivered(out') = Service!Tell({c}, "youLeft", r)
                           \cup Service!Tell(members[r] \ {c}, "left", r)
      => Service!Leave(c, r)
  BY DEF Service!Leave, members, Delivered
<1>3. /\ c \in members[r]
      /\ members' = members
      /\ Delivered(out') = Service!Tell(members[r], "said", r)
      => Service!Say(c, r)
  BY DEF Service!Say, members, Delivered
<1>4. /\ c \in Live
      /\ members' = members
      /\ \/ c \in members[r] /\ Delivered(out') = Service!Tell({c}, "alreadyIn", r)
         \/ /\ c \notin members[r]
            /\ \E text \in {"noRoom", "notIn"} :
                  Delivered(out') = Service!Tell({c}, text, r)
      => Service!Refuse(c, r)
  BY DEF Service!Refuse, members, Delivered
<1>5. /\ c \in Live
      /\ members' = members
      /\ Delivered(out') = Service!Tell({c}, "account", r)
      => Service!AnswerAccount(c, r)
  BY DEF Service!AnswerAccount, members, Delivered
<1> QED
  BY <1>1, <1>2, <1>3, <1>4, <1>5 DEF Service!Next

\* A command takes one step of the service: what it changes and what it
\* delivers are the same.
LEMMA CommandServes ==
    ASSUME RInv, OpenIsLive, pc # "undefined",
           UNCHANGED <<socket, ClientArray, TotalClients>>,
           NEW c \in Conns, c \in Live, socket[c] \in Handles, NEW cmd \in Commands,
           ParseMessageFromClient(c, cmd, {})
    PROVE  Service!Next
<1> DEFINE r == cmd.data1
           roster == g_ChatProgram!GetClientsInRoom(r)
<1>1. r \in RoomNames
  BY ConstantsAssumption
<1>2. IInv /\ OwnSocket /\ g_ChatProgram!TypeOK /\ g_ChatProgram!RosterUnique
  BY DEF RInv, IInv, TypeOK
<1>3. Live' = Live
  BY DEF Live
<1>4. /\ roster \in Seq(Conns)
      /\ \A n \in DOMAIN roster : socket[roster[n]] \in Handles
  BY <1>2, Rosters DEF IInv
<1>5. /\ roster' \in Seq(Conns)
      /\ \A n \in DOMAIN roster' : socket[roster'[n]] \in Handles
  <2>1. g_ChatProgram!TypeOK' /\ RostersSocketed'
    BY <1>2, ParseKeeps, ConstantsAssumption DEF IInv
  <2> QED
    BY <2>1 DEF g_ChatProgram!TypeOK, RostersSocketed, g_ChatProgram!GetClientsInRoom,
                g_ChatProgram!RoomExist
<1>6. /\ members[r] = Range(roster) \cap Live
      /\ g_ChatProgram!IsMember(r, c) <=> c \in members[r]
  BY <1>1 DEF members, g_ChatProgram!IsMember, g_ChatProgram!Range, Range
<1>7. \A text : Delivered(Reply(c, text, r, {})) = Service!Tell({c}, text, r)
  BY <1>2, ReplyDelivered
<1>8. UNCHANGED m_ChatRooms => members' = members
  BY <1>3 DEF members, g_ChatProgram!GetClientsInRoom, g_ChatProgram!RoomExist
<1> HIDE DEF r, roster
<1>9. CASE JoinRoom(c, r, {})
  <2>1. \A q : Range(g_ChatProgram!GetClientsInRoom(q)') =
               IF q = r THEN Range(g_ChatProgram!GetClientsInRoom(q)) \cup {c}
               ELSE Range(g_ChatProgram!GetClientsInRoom(q))
    BY <1>2, <1>9, RegistryEffect DEF JoinRoom
  <2>2. members' = [members EXCEPT ![r] = @ \cup {c}]
    BY <1>1, <1>3, <2>1 DEF members
  <2>3. CASE c \notin members[r]
    <3>1. out' = Broadcast(roster', "joined", r, {})
      BY <1>6, <1>9, <2>3 DEF JoinRoom, g_ChatProgram!JoinStatus, roster
    <3>2. Delivered(out') = Service!Tell(Range(roster') \cap Live, "joined", r)
      BY <1>2, <1>5, <3>1, BroadcastDelivered
    <3>3. Range(roster') \cap Live = members[r] \cup {c}
      BY <1>6, <2>1 DEF roster
    <3> QED
      BY <1>1, <1>3, <2>2, <2>3, <3>2, <3>3, ServiceSteps
  <2>4. CASE c \in members[r]
    <3>1. out' = Reply(c, "alreadyIn", r, {}) /\ UNCHANGED m_ChatRooms
      BY <1>6, <1>9, <2>4 DEF JoinRoom, g_ChatProgram!JoinRoom, g_ChatProgram!JoinStatus
    <3> QED
      BY <1>1, <1>3, <1>7, <1>8, <2>4, <3>1, ServiceSteps
  <2> QED
    BY <2>3, <2>4
<1>10. CASE LeaveRoom(c, r, {})
  <2>1. \A q : Range(g_ChatProgram!GetClientsInRoom(q)') =
               IF q = r THEN Range(g_ChatProgram!GetClientsInRoom(q)) \ {c}
               ELSE Range(g_ChatProgram!GetClientsInRoom(q))
    BY <1>2, <1>10, RegistryEffect DEF LeaveRoom
  <2>2. members' = [members EXCEPT ![r] = @ \ {c}]
    BY <1>1, <1>3, <2>1 DEF members
  <2>3. CASE g_ChatProgram!LeaveStatus(r, c) = "kAllGood"
    <3> DEFINE reply == Reply(c, "youLeft", r, {})
               told == Broadcast(roster', "left", r, {})
    <3>1. c \in members[r] /\ out' = reply \o told
      BY <1>6, <1>10, <2>3 DEF LeaveRoom, g_ChatProgram!LeaveStatus, roster
    <3>2. reply \in Seq(MessageType) /\ told \in Seq(MessageType)
      BY <1>1, <1>2, <1>5, ReplyHasType, BroadcastHasType DEF IInv
    <3>3. Delivered(reply) = Service!Tell({c}, "youLeft", r)
      BY <1>7
    <3>4. Delivered(told) = Service!Tell(Range(roster') \cap Live, "left", r)
      BY <1>2, <1>5, BroadcastDelivered
    <3>5. Range(roster') \cap Live = members[r] \ {c}
      BY <1>6, <2>1 DEF roster
    <3> HIDE DEF reply, told
    <3>6. Delivered(reply \o told) = Delivered(reply) \cup Delivered(told)
      BY <3>2, RangeConcatenation DEF Delivered
    <3> QED
      BY <1>1, <1>3, <2>2, <3>1, <3>3, <3>4, <3>5, <3>6, ServiceSteps
  <2>4. CASE g_ChatProgram!LeaveStatus(r, c) # "kAllGood"
    <3>1. c \notin members[r] /\ UNCHANGED m_ChatRooms
      BY <1>6, <1>10, <2>4
      DEF LeaveRoom, g_ChatProgram!LeaveRoom, g_ChatProgram!LeaveStatus,
          g_ChatProgram!IsMember, g_ChatProgram!GetClientsInRoom, g_ChatProgram!RoomExist,
          g_ChatProgram!Range
    <3>2. \E text \in {"noRoom", "notIn"} : out' = Reply(c, text, r, {})
      BY <1>10, <2>4 DEF LeaveRoom, g_ChatProgram!LeaveStatus
    <3>3. \E text \in {"noRoom", "notIn"} : Delivered(out') = Service!Tell({c}, text, r)
      BY <1>7, <3>2
    <3> QED
      BY <1>1, <1>3, <1>8, <3>1, <3>3, ServiceSteps
  <2> QED
    BY <2>3, <2>4
<1>11. CASE MessageRoom(c, r, {})
  <2>1. members' = members
    BY <1>8, <1>11 DEF MessageRoom
  <2>2. CASE c \in members[r]
    <3>1. out' = Broadcast(roster, "said", r, {})
      BY <1>6, <1>11, <2>2 DEF MessageRoom, roster
    <3>2. Delivered(out') = Service!Tell(members[r], "said", r)
      BY <1>2, <1>4, <1>6, <3>1, BroadcastDelivered
    <3> QED
      BY <1>1, <1>3, <2>1, <2>2, <3>2, ServiceSteps
  <2>3. CASE c \notin members[r]
    <3>1. out' = Reply(c, "notIn", r, {})
      BY <1>6, <1>11, <2>3 DEF MessageRoom
    <3> QED
      BY <1>1, <1>3, <1>7, <2>1, <2>3, <3>1, ServiceSteps
  <2> QED
    BY <2>2, <2>3
<1>12. CASE out' = Reply(c, "account", r, {}) /\ UNCHANGED m_ChatRooms
  BY <1>1, <1>3, <1>7, <1>8, <1>12, ServiceSteps
<1>13. CASE out' = << >> /\ UNCHANGED m_ChatRooms
  <2>1. Delivered(out') = {} /\ members' = members
    BY <1>8, <1>13 DEF Delivered, Range
  <2> QED
    BY <1>3, <2>1 DEF Service!Next, Service!Quiet, members, Delivered
<1> QED
  BY <1>9, <1>10, <1>11, <1>12, <1>13 DEF ParseMessageFromClient, r

\* Accepting a connection is an arrival, or nothing if no client is added
\* for it; nobody new is in a room.
LEMMA AcceptArrives ==
    ASSUME IInv, Accept \/ AcceptUnmanaged
    PROVE  Service!Next
<1> DEFINE d == Head(backlog)
<1>1. PICK h \in FreeHandles : AddClient(d, h) \/ UNCHANGED <<ClientArray, TotalClients>>
  BY DEF Accept, AcceptUnmanaged
<1>2. d \in Conns /\ socket[d] = NoSocket /\ h \in Handles
  BY AcceptedIsFresh DEF IInv, Accept, AcceptUnmanaged, FreeHandles
<1>3. UNCHANGED m_ChatRooms /\ out' = << >>
  BY DEF Accept, AcceptUnmanaged
<1> HIDE DEF d
<1>4. Live' = Live \cup {d} \/ Live' = Live
  BY <1>1, <1>2, AcceptServes DEF Live
<1>5. \A r : d \notin Range(g_ChatProgram!GetClientsInRoom(r))
  BY <1>2, Rosters, ConstantsAssumption DEF IInv, Range
<1>6. members' = members
  BY <1>3, <1>4, <1>5 DEF members, g_ChatProgram!GetClientsInRoom, g_ChatProgram!RoomExist
<1>7. Delivered(out') = {}
  BY <1>3 DEF Delivered, Range
<1>8. ASSUME NEW u \in Conns, Live' = Live \cup {u} \/ Live' = Live
      PROVE  Service!Next
  <2>1. Service!Arrive(u) \/ Service!Quiet
    BY <1>6, <1>7, <1>8 DEF Service!Arrive, Service!Quiet, members, Delivered
  <2> QED
    BY <2>1 DEF Service!Next
<1> QED
  BY <1>2, <1>4, <1>8

\* Removing a client is its departure, from the rooms that keep it as well.
LEMMA RecvEndDeparts ==
    ASSUME IInv, NEW c \in Conns, RecvEnd(c)
    PROVE  Service!Next
<1>1. c \in Live /\ Live' = Live \ {c}
  BY RecvEndServes DEF IInv
<1>2. UNCHANGED m_ChatRooms /\ out' = << >>
  BY DEF RecvEnd
<1>3. members' = [r \in RoomNames |-> members[r] \ {c}]
  BY <1>1, <1>2 DEF members, g_ChatProgram!GetClientsInRoom, g_ChatProgram!RoomExist
<1>4. Delivered(out') = {}
  BY <1>2 DEF Delivered, Range
<1>5. Service!Depart(c)
  BY <1>1, <1>3, <1>4 DEF Service!Depart, members, Delivered
<1> QED
  BY <1>5 DEF Service!Next

\* Every step of the server is a step of the service, or none.
LEMMA StepServes ==
    ASSUME ~ReuseHandles, "send" \notin Faults, RInv, OpenIsLive, [Next]_vars
    PROVE  Service!Next \/ UNCHANGED <<Live, members, Delivered(out)>>
<1>1. CASE Accept \/ AcceptUnmanaged
  BY <1>1, AcceptArrives DEF RInv
<1>2. CASE \E c \in Conns : RecvEnd(c)
  BY <1>2, RecvEndDeparts DEF RInv
<1>3. ASSUME NEW c \in Conns, NEW cmd \in Commands, NEW lost \in LostSets,
             RecvFrame(c, cmd, lost)
      PROVE  Service!Next
  <2>1. /\ ParseMessageFromClient(c, cmd, lost)
        /\ UNCHANGED <<socket, ClientArray, TotalClients>>
        /\ At(c) /\ pc = "recv"
    BY <1>3 DEF RecvFrame, FrameArrives, Receiving, AtMarked, At
  <2>2. lost = {}
    BY DEF LostSets
  <2>3. socket[c] \in Handles /\ c \in Live
    BY <2>1, AtClient DEF RInv, IInv, Live
  <2> QED
    BY <2>1, <2>2, <2>3, CommandServes
<1>4. ASSUME ~ Accept, ~ AcceptUnmanaged, \A c \in Conns : ~ RecvEnd(c),
             ~ \E c \in Conns, cmd \in Commands, lost \in LostSets : RecvFrame(c, cmd, lost)
      PROVE  Service!Next \/ UNCHANGED <<Live, members, Delivered(out)>>
  <2>1. UNCHANGED m_ChatRooms /\ out' \in {out, << >>}
    BY <1>4, QuietSteps
  <2>2. Live' = Live
    BY <1>4, TableSteps DEF Live
  <2>3. members' = members
    BY <2>1, <2>2 DEF members, g_ChatProgram!GetClientsInRoom, g_ChatProgram!RoomExist
  <2>4. Delivered(out)' = Delivered(out) \/ Delivered(out)' = {}
    BY <2>1 DEF Delivered, Range
  <2>5. Delivered(out)' = {} => Service!Quiet
    BY <2>2, <2>3 DEF Service!Quiet, members, Delivered
  <2> QED
    BY <2>2, <2>3, <2>4, <2>5 DEF Service!Next
<1> QED
  BY <1>1, <1>2, <1>3, <1>4

\* As long as closed SOCKET values are not handed out again and no buffer is
\* full, the server implements the room service: every command takes effect
\* at once, what is said in a room goes in one step to exactly its members
\* who are connected, and a refusal is true of the client who gets it.
THEOREM ServesRooms ==
    ASSUME ~ReuseHandles, "send" \notin Faults
    PROVE  Spec => ImplementsRoomService
<1> DEFINE Inv == RInv /\ OpenIsLive
<1>1. Init => Inv
  <2>1. Init => OpenIsLive
    BY ConstantsAssumption DEF Init, OpenIsLive
  <2> QED
    BY <2>1, RoomInit
<1>2. Inv /\ [Next]_vars => Inv'
  BY RoomStepKeeps, OpenIsLiveKept DEF RInv
<1>3. Init => Service!Init
  <2> SUFFICES ASSUME Init
               PROVE  Service!Init
    OBVIOUS
  <2>1. Live = {}
    BY DEF Init, Live
  <2>2. \A r : Range(g_ChatProgram!GetClientsInRoom(r)) = {}
    BY DEF Init, g_ChatProgram!Init, g_ChatProgram!GetClientsInRoom,
           g_ChatProgram!RoomExist, Range
  <2>3. Range(out) = {}
    BY DEF Init, Range
  <2> QED
    BY <2>1, <2>2, <2>3 DEF Service!Init
<1>4. Inv /\ [Next]_vars =>
          [Service!Next]_<<Live,
                           [r \in RoomNames |->
                               Range(g_ChatProgram!GetClientsInRoom(r)) \cap Live],
                           {m \in Range(out) : m.to # NoClient}>>
  BY StepServes DEF members, Delivered
<1> QED
  BY <1>1, <1>2, <1>3, <1>4, PTL DEF Spec, ImplementsRoomService, Service!Spec

=============================================================================
