-------------------------- MODULE ChatServerProofs --------------------------
(***************************************************************************)
(* Safety of the chat server's table of clients, for any number of         *)
(* connections and sockets, any capacity, any pipelining and any faults.   *)
(*                                                                         *)
(* TableOwnsSockets is not inductive by itself: that accept gives a client *)
(* of the queue its first socket, and never a client of the table a second *)
(* one, is BacklogFresh.                                                   *)
(***************************************************************************)
EXTENDS ChatServer, SequenceLemmas

RoomProofs == INSTANCE ChatProgramProofs WITH Clients <- Conns

\* A connection waiting to be accepted waits once, and has no socket; a
\* connection not yet opened has none either.
BacklogFresh ==
    /\ IsInjective(backlog)
    /\ \A n \in DOMAIN backlog :
          peer[backlog[n]] # "unborn" /\ socket[backlog[n]] = NoSocket
    /\ \A c \in Conns : peer[c] = "unborn" => socket[c] = NoSocket

\* Whoever is in a room has a socket, open or not.
RostersSocketed ==
    \A r \in DOMAIN m_ChatRooms :
        \A n \in DOMAIN m_ChatRooms[r] : socket[m_ChatRooms[r][n]] \in Handles

\* The inductive invariant.
IInv == TypeOK /\ TableOwnsSockets /\ BacklogFresh /\ RostersSocketed

MessageType ==
    [to : Conns \cup {NoClient},
     text : {"joined", "left", "said", "youLeft", "alreadyIn", "noRoom", "notIn", "account"},
     room : RoomNames]

\* What a room's clients are, before or after the registry changes.
LEMMA Rosters ==
    ASSUME TypeOK, RostersSocketed, NEW r
    PROVE  /\ g_ChatProgram!GetClientsInRoom(r) \in Seq(Conns)
           /\ \A n \in DOMAIN g_ChatProgram!GetClientsInRoom(r) :
                 socket[g_ChatProgram!GetClientsInRoom(r)[n]] \in Handles
BY DEF TypeOK, RostersSocketed, g_ChatProgram!TypeOK, g_ChatProgram!GetClientsInRoom,
       g_ChatProgram!RoomExist

\* A message has a known receiver, or none.
LEMMA MessageHasType ==
    ASSUME TypeOK, NEW lost, NEW room \in RoomNames, NEW h \in Handles,
           NEW text \in {"joined", "left", "said", "youLeft", "alreadyIn",
                         "noRoom", "notIn", "account"}
    PROVE  Message(h, text, room, lost) \in MessageType
BY DEF TypeOK, Message, MessageType

\* A reply is a sequence of messages.
LEMMA ReplyHasType ==
    ASSUME TypeOK, NEW lost, NEW room \in RoomNames,
           NEW c \in Conns, socket[c] \in Handles,
           NEW text \in {"joined", "left", "said", "youLeft", "alreadyIn",
                         "noRoom", "notIn", "account"}
    PROVE  Reply(c, text, room, lost) \in Seq(MessageType)
<1>1. Message(socket[c], text, room, lost) \in MessageType
  BY MessageHasType
<1> QED
  BY <1>1 DEF Reply

\* So is a broadcast to a room.
LEMMA BroadcastHasType ==
    ASSUME TypeOK, NEW lost, NEW room \in RoomNames, NEW roster \in Seq(Conns),
           \A n \in DOMAIN roster : socket[roster[n]] \in Handles,
           NEW text \in {"joined", "left", "said", "youLeft", "alreadyIn",
                         "noRoom", "notIn", "account"}
    PROVE  Broadcast(roster, text, room, lost) \in Seq(MessageType)
<1>1. Len(roster) \in Nat /\ DOMAIN roster = 1 .. Len(roster)
  BY LenProperties
<1>2. \A n \in 1 .. Len(roster) :
          Message(socket[roster[n]], text, room, lost) \in MessageType
  BY <1>1, MessageHasType
<1> QED
  BY <1>1, <1>2, IsASeq DEF Broadcast

\* The registry the proofs about rooms speak of is the server's.
LEMMA SameRegistry ==
    ASSUME NEW r, NEW c
    PROVE  /\ g_ChatProgram!TypeOK <=> RoomProofs!TypeOK
           /\ g_ChatProgram!TypeOK' <=> RoomProofs!TypeOK'
           /\ g_ChatProgram!JoinRoom(r, c) <=> RoomProofs!JoinRoom(r, c)
           /\ g_ChatProgram!LeaveRoom(r, c) <=> RoomProofs!LeaveRoom(r, c)
<1>1. g_ChatProgram!TypeOK <=> RoomProofs!TypeOK
  BY DEF g_ChatProgram!TypeOK, RoomProofs!TypeOK
<1>2. g_ChatProgram!TypeOK' <=> RoomProofs!TypeOK'
  BY DEF g_ChatProgram!TypeOK, RoomProofs!TypeOK
<1>3. g_ChatProgram!JoinRoom(r, c) <=> RoomProofs!JoinRoom(r, c)
  BY DEF g_ChatProgram!JoinRoom, RoomProofs!JoinRoom,
         g_ChatProgram!JoinStatus, RoomProofs!JoinStatus,
         g_ChatProgram!RoomExist, RoomProofs!RoomExist,
         g_ChatProgram!GetClientsInRoom, RoomProofs!GetClientsInRoom,
         g_ChatProgram!WithRoster, RoomProofs!WithRoster,
         g_ChatProgram!IsMember, RoomProofs!IsMember,
         g_ChatProgram!Range, RoomProofs!Range
<1>4. \A s, e : g_ChatProgram!RemoveFirst(s, e) = RoomProofs!RemoveFirst(s, e)
  BY DEF g_ChatProgram!RemoveFirst, RoomProofs!RemoveFirst,
         g_ChatProgram!RemoveAt, RoomProofs!RemoveAt,
         g_ChatProgram!SelectInSeq, RoomProofs!SelectInSeq,
         g_ChatProgram!Min, RoomProofs!Min
<1>5. g_ChatProgram!LeaveRoom(r, c) <=> RoomProofs!LeaveRoom(r, c)
  BY <1>4 DEF g_ChatProgram!LeaveRoom, RoomProofs!LeaveRoom,
         g_ChatProgram!LeaveStatus, RoomProofs!LeaveStatus,
         g_ChatProgram!RoomExist, RoomProofs!RoomExist,
         g_ChatProgram!GetClientsInRoom, RoomProofs!GetClientsInRoom,
         g_ChatProgram!WithRoster, RoomProofs!WithRoster,
         g_ChatProgram!IsMember, RoomProofs!IsMember,
         g_ChatProgram!Range, RoomProofs!Range
<1> QED
  BY <1>1, <1>2, <1>3, <1>5

\* Joins and departures keep the registry's type; whoever is in a room
\* afterwards was in it before, or is the client who joined.
LEMMA RegistryStep ==
    ASSUME TypeOK, NEW room \in RoomNames, NEW c \in Conns,
           g_ChatProgram!JoinRoom(room, c) \/ g_ChatProgram!LeaveRoom(room, c)
    PROVE  /\ g_ChatProgram!TypeOK'
           /\ \A r \in DOMAIN m_ChatRooms' : \A n \in DOMAIN m_ChatRooms'[r] :
                 \/ m_ChatRooms'[r][n] = c
                 \/ \E q \in DOMAIN m_ChatRooms : \E m \in DOMAIN m_ChatRooms[q] :
                       m_ChatRooms'[r][n] = m_ChatRooms[q][m]
<1>1. g_ChatProgram!TypeOK'
  BY SameRegistry, RoomProofs!JoinKeeps, RoomProofs!LeaveKeeps DEF TypeOK
<1>2. RoomProofs!TypeOK
  BY SameRegistry DEF TypeOK
<1>3. \A r \in DOMAIN m_ChatRooms' : \A n \in DOMAIN m_ChatRooms'[r] :
          \/ m_ChatRooms'[r][n] = c
          \/ \E q \in DOMAIN m_ChatRooms : \E m \in DOMAIN m_ChatRooms[q] :
                m_ChatRooms'[r][n] = m_ChatRooms[q][m]
  BY <1>2, SameRegistry, RoomProofs!StepKeepsClients
<1> QED
  BY <1>1, <1>3

\* A command leaves the registry well formed, its rooms with clients who
\* have sockets, and sends messages.
LEMMA ParseKeeps ==
    ASSUME ConstantsAssumption, TypeOK, RostersSocketed, UNCHANGED socket,
           NEW c \in Conns, socket[c] \in Handles, NEW cmd \in Commands, NEW lost,
           ParseMessageFromClient(c, cmd, lost)
    PROVE  g_ChatProgram!TypeOK' /\ RostersSocketed' /\ out' \in Seq(MessageType)
<1>1. cmd.data1 \in RoomNames
  BY DEF ConstantsAssumption
<1> DEFINE room == cmd.data1
<1>2. \A text \in {"joined", "left", "said", "youLeft", "alreadyIn", "noRoom", "notIn", "account"} :
          Reply(c, text, room, lost) \in Seq(MessageType)
  BY <1>1, ReplyHasType
<1>3. ASSUME g_ChatProgram!JoinRoom(room, c) \/ g_ChatProgram!LeaveRoom(room, c)
      PROVE  /\ g_ChatProgram!TypeOK'
             /\ RostersSocketed'
             /\ g_ChatProgram!GetClientsInRoom(room)' \in Seq(Conns)
             /\ \A n \in DOMAIN g_ChatProgram!GetClientsInRoom(room)' :
                   socket[g_ChatProgram!GetClientsInRoom(room)'[n]] \in Handles
  <2>1. /\ g_ChatProgram!TypeOK'
        /\ \A r \in DOMAIN m_ChatRooms' : \A n \in DOMAIN m_ChatRooms'[r] :
              \/ m_ChatRooms'[r][n] = c
              \/ \E q \in DOMAIN m_ChatRooms : \E m \in DOMAIN m_ChatRooms[q] :
                    m_ChatRooms'[r][n] = m_ChatRooms[q][m]
    BY <1>1, <1>3, RegistryStep
  <2>2. \A r \in DOMAIN m_ChatRooms' : \A n \in DOMAIN m_ChatRooms'[r] :
            socket[m_ChatRooms'[r][n]] \in Handles
    BY <2>1 DEF RostersSocketed
  <2>3. RostersSocketed'
    BY <2>2 DEF RostersSocketed
  <2>4. g_ChatProgram!GetClientsInRoom(room)' =
            IF room \in DOMAIN m_ChatRooms' THEN m_ChatRooms'[room] ELSE << >>
    BY DEF g_ChatProgram!GetClientsInRoom, g_ChatProgram!RoomExist
  <2>5. /\ g_ChatProgram!GetClientsInRoom(room)' \in Seq(Conns)
        /\ \A n \in DOMAIN g_ChatProgram!GetClientsInRoom(room)' :
              socket[g_ChatProgram!GetClientsInRoom(room)'[n]] \in Handles
    BY <2>1, <2>2, <2>4 DEF g_ChatProgram!TypeOK
  <2> QED
    BY <2>1, <2>3, <2>5
<1>4. ASSUME g_ChatProgram!JoinRoom(room, c) \/ g_ChatProgram!LeaveRoom(room, c)
      PROVE  \A text \in {"joined", "left"} :
                Broadcast(g_ChatProgram!GetClientsInRoom(room)', text, room, lost) \in Seq(MessageType)
  BY <1>1, <1>3, <1>4, BroadcastHasType
<1>5. ASSUME UNCHANGED m_ChatRooms
      PROVE  g_ChatProgram!TypeOK' /\ RostersSocketed'
  BY <1>5 DEF TypeOK, g_ChatProgram!TypeOK, RostersSocketed
<1>6. Broadcast(g_ChatProgram!GetClientsInRoom(room), "said", room, lost) \in Seq(MessageType)
  BY <1>1, Rosters, BroadcastHasType
<1>7. CASE JoinRoom(c, room, lost)
  BY <1>2, <1>3, <1>4, <1>7 DEF JoinRoom
<1>8. CASE LeaveRoom(c, room, lost)
  <2>1. g_ChatProgram!LeaveRoom(room, c)
    BY <1>8 DEF LeaveRoom
  <2>2. /\ Reply(c, "youLeft", room, lost) \in Seq(MessageType)
        /\ Broadcast(g_ChatProgram!GetClientsInRoom(room)', "left", room, lost) \in Seq(MessageType)
    BY <1>2, <1>4, <2>1
  <2>3. Reply(c, "youLeft", room, lost) \o
        Broadcast(g_ChatProgram!GetClientsInRoom(room)', "left", room, lost) \in Seq(MessageType)
    BY <2>2, ConcatProperties
  <2>4. g_ChatProgram!LeaveStatus(room, c) \in {"kAllGood", "kRoomDoesNotExist", "kClientNotInRoom"}
    BY DEF g_ChatProgram!LeaveStatus
  <2>5. out' \in Seq(MessageType)
    BY <1>2, <1>8, <2>3, <2>4 DEF LeaveRoom
  <2> QED
    BY <1>3, <2>1, <2>5
<1>9. CASE MessageRoom(c, room, lost)
  BY <1>2, <1>5, <1>6, <1>9 DEF MessageRoom
<1>10. CASE out' = Reply(c, "account", room, lost) /\ UNCHANGED m_ChatRooms
  BY <1>2, <1>5, <1>10
<1>11. CASE out' = << >> /\ UNCHANGED m_ChatRooms
  BY <1>5, <1>11
<1> QED
  BY <1>7, <1>8, <1>9, <1>10, <1>11 DEF ParseMessageFromClient
-----------------------------------------------------------------------------
(* The parts of the invariant that a step leaves alone.                    *)

\* TableOwnsSockets is about the table and the sockets only.
LEMMA TableFrame ==
    ASSUME TableOwnsSockets, pc # "undefined",
           UNCHANGED <<TotalClients, ClientArray, socket, owner>>
    PROVE  TableOwnsSockets'
BY DEF TableOwnsSockets

\* BacklogFresh is about the connections that wait and their sockets only.
LEMMA BacklogFrame ==
    ASSUME BacklogFresh, UNCHANGED <<peer, backlog, socket>>
    PROVE  BacklogFresh'
BY DEF BacklogFresh

\* RostersSocketed is about the rooms and the sockets only.
LEMMA RostersFrame ==
    ASSUME RostersSocketed, UNCHANGED <<m_ChatRooms, socket>>
    PROVE  RostersSocketed'
BY DEF RostersSocketed

\* A step that moves the thread, and touches neither clients nor rooms.
LEMMA TypeFrame ==
    ASSUME TypeOK,
           UNCHANGED <<peer, backlog, inbox, taken, owner, socket, session, ClientArray,
                       TotalClients, m_ChatRooms>>,
           ReadSet' \subseteq Handles \cup {ListenSocket},
           pc' \in {"select", "accept", "recv", "exited", "undefined"},
           i' \in 0 .. FD_SETSIZE,
           out' = << >>
    PROVE  TypeOK'
BY DEF TypeOK, g_ChatProgram!TypeOK

\* At client c of the receive loop, c is a client with an open socket.
LEMMA AtClient ==
    ASSUME TypeOK, TableOwnsSockets, NEW c \in Conns, At(c)
    PROVE  /\ i \in 0 .. TotalClients - 1
           /\ i + 1 \in 0 .. FD_SETSIZE
           /\ ClientArray[i] = c
           /\ socket[c] \in Handles
           /\ owner[socket[c]] = c
BY ConstantsAssumption DEF TypeOK, TableOwnsSockets, At
-----------------------------------------------------------------------------
(* The steps of the environment.                                           *)

\* A client that connects waits once and has no SOCKET value yet.
LEMMA ConnectKeeps ==
    ASSUME IInv, NEW c \in Conns, Connect(c)
    PROVE  IInv'
<1>1. TypeOK'
  <2>1. backlog' \in Seq(Conns)
    BY AppendProperties DEF IInv, TypeOK, Connect
  <2> QED
    BY <2>1 DEF IInv, TypeOK, Connect, serverVars, g_ChatProgram!TypeOK
<1>2. TableOwnsSockets'
  BY TableFrame DEF IInv, Connect, serverVars, Running
<1>3. BacklogFresh'
  <2>1. backlog \in Seq(Conns) /\ IsInjective(backlog) /\ \A n \in DOMAIN backlog : backlog[n] # c
    BY DEF IInv, TypeOK, BacklogFresh, Connect
  <2>2. IsInjective(Append(backlog, c))
    BY <2>1, AppendKeepsInjective
  <2>3. \A n \in DOMAIN Append(backlog, c) :
            Append(backlog, c)[n] = c \/ \E m \in DOMAIN backlog : Append(backlog, c)[n] = backlog[m]
    BY <2>1, AppendProperties, LenProperties
  <2>4. /\ peer' = [peer EXCEPT ![c] = "open"]
        /\ peer \in [Conns -> {"unborn", "open", "closed", "reset"}]
        /\ backlog' = Append(backlog, c)
        /\ UNCHANGED socket
        /\ socket[c] = NoSocket
        /\ \A n \in DOMAIN backlog : backlog[n] \in Conns
    BY <2>1, LenProperties DEF IInv, TypeOK, BacklogFresh, Connect, serverVars
  <2>5. ASSUME NEW n \in DOMAIN backlog'
        PROVE  peer'[backlog'[n]] # "unborn" /\ socket'[backlog'[n]] = NoSocket
    BY <2>3, <2>4 DEF IInv, BacklogFresh
  <2>6. \A d \in Conns : peer'[d] = "unborn" => socket'[d] = NoSocket
    BY <2>4 DEF IInv, BacklogFresh
  <2> QED
    BY <2>2, <2>4, <2>5, <2>6 DEF BacklogFresh
<1>4. RostersSocketed'
  BY RostersFrame DEF IInv, Connect, serverVars
<1> QED
  BY <1>1, <1>2, <1>3, <1>4 DEF IInv

\* A client that sends a command changes only what is under way.
LEMMA SubmitKeeps ==
    ASSUME IInv, NEW c \in Conns, NEW cmd \in Commands, Submit(c, cmd)
    PROVE  IInv'
<1>1. TypeOK'
  <2>1. Append(inbox[c], cmd) \in Seq(Commands)
    BY AppendProperties DEF IInv, TypeOK
  <2> QED
    BY <2>1 DEF IInv, TypeOK, Submit, serverVars, g_ChatProgram!TypeOK
<1> QED
  BY <1>1, TableFrame, BacklogFrame, RostersFrame DEF IInv, Submit, serverVars, Running

\* A client that ends its side leaves its socket open.
LEMMA QuitKeeps ==
    ASSUME IInv, NEW c \in Conns, Quit(c)
    PROVE  IInv'
<1>1. TypeOK'
  BY DEF IInv, TypeOK, Quit, serverVars, g_ChatProgram!TypeOK
<1>2. BacklogFresh'
  BY DEF IInv, TypeOK, BacklogFresh, Quit, serverVars
<1> QED
  BY <1>1, <1>2, TableFrame, RostersFrame DEF IInv, Quit, serverVars, Running

\* A connection that breaks before it is accepted waits no longer.
LEMMA BreakKeeps ==
    ASSUME IInv, NEW c \in Conns, Break(c)
    PROVE  IInv'
<1>1. /\ backlog' \in Seq(Conns)
      /\ IsInjective(backlog')
      /\ \A n \in DOMAIN backlog' : \E m \in DOMAIN backlog : backlog'[n] = backlog[m]
  <2>1. backlog \in Seq(Conns) /\ IsInjective(backlog) /\ backlog' = RemoveFirst(backlog, c)
    BY DEF IInv, TypeOK, BacklogFresh, Break
  <2>2. CASE \E n \in 1 .. Len(backlog) : backlog[n] = c
    BY <2>1, <2>2, RemoveFirstProperties DEF Range
  <2>3. CASE ~\E n \in 1 .. Len(backlog) : backlog[n] = c
    BY <2>1, <2>3 DEF RemoveFirst
  <2> QED
    BY <2>2, <2>3
<1>2. TypeOK'
  BY <1>1 DEF IInv, TypeOK, Break, serverVars, g_ChatProgram!TypeOK
<1>3. BacklogFresh'
  BY <1>1 DEF IInv, TypeOK, BacklogFresh, Break, serverVars
<1> QED
  BY <1>2, <1>3, TableFrame, RostersFrame DEF IInv, Break, serverVars, Running
-----------------------------------------------------------------------------
(* The steps of the server.                                                *)

\* select, the failures that end main, and the end of a round touch neither
\* the clients nor the rooms.
LEMMA LoopKeeps ==
    ASSUME IInv, Select \/ SelectFails \/ AcceptFails \/ EndRound
    PROVE  IInv'
<1>1. {h \in Watched \ {ListenSocket} : Readable(h)} \subseteq Handles
  <2>1. CASE pc # "undefined"
    BY <2>1 DEF IInv, TypeOK, TableOwnsSockets, Watched
  <2>2. CASE pc = "undefined"
    BY <2>2 DEF Select, SelectFails, AcceptFails, EndRound
  <2> QED
    BY <2>1, <2>2
<1>2. 0 \in 0 .. FD_SETSIZE
  BY ConstantsAssumption
<1>3. ReadSet' \subseteq Handles \cup {ListenSocket}
  BY <1>1 DEF IInv, TypeOK, Select, SelectFails, AcceptFails, EndRound
<1>4. TypeOK'
  <2>1. /\ pc' \in {"select", "accept", "recv", "exited", "undefined"}
        /\ out' = << >>
        /\ UNCHANGED <<peer, backlog, inbox, taken, owner, socket, session, ClientArray,
                       TotalClients, m_ChatRooms>>
    BY DEF Select, SelectFails, AcceptFails, EndRound, envVars
  <2>2. i' \in 0 .. FD_SETSIZE
    BY <1>2 DEF IInv, TypeOK, Select, SelectFails, AcceptFails, EndRound
  <2> QED
    BY <1>3, <2>1, <2>2, TypeFrame DEF IInv
<1> QED
  BY <1>4, TableFrame, BacklogFrame, RostersFrame
  DEF IInv, Select, SelectFails, AcceptFails, EndRound, envVars

\* The first connection of the queue is taken off it.
LEMMA AcceptedIsFresh ==
    ASSUME TypeOK, BacklogFresh, backlog # << >>
    PROVE  /\ Head(backlog) \in Conns
           /\ peer[Head(backlog)] # "unborn"
           /\ socket[Head(backlog)] = NoSocket
           /\ Tail(backlog) \in Seq(Conns)
           /\ IsInjective(Tail(backlog))
           /\ \A n \in DOMAIN Tail(backlog) :
                 /\ Tail(backlog)[n] \in Conns \ {Head(backlog)}
                 /\ \E m \in DOMAIN backlog : Tail(backlog)[n] = backlog[m]
<1>1. backlog \in Seq(Conns) /\ IsInjective(backlog)
  BY DEF TypeOK, BacklogFresh
<1>2. /\ DOMAIN backlog = 1 .. Len(backlog)
      /\ Len(backlog) \in Nat \ {0}
      /\ Head(backlog) = backlog[1]
      /\ 1 \in DOMAIN backlog
  BY <1>1, LenProperties, EmptySeq
<1>3. /\ Head(backlog) \in Conns
      /\ Tail(backlog) \in Seq(Conns)
      /\ DOMAIN Tail(backlog) = 1 .. Len(backlog) - 1
      /\ \A n \in 1 .. Len(backlog) - 1 : Tail(backlog)[n] = backlog[n + 1]
  BY <1>1, HeadTailProperties, LenProperties
<1>4. \A n \in 1 .. Len(backlog) - 1 : n + 1 \in DOMAIN backlog /\ n + 1 # 1
  BY <1>2
<1>5. IsInjective(Tail(backlog))
  <2> SUFFICES ASSUME NEW a \in 1 .. Len(backlog) - 1, NEW b \in 1 .. Len(backlog) - 1,
                      backlog[a + 1] = backlog[b + 1]
               PROVE  a = b
    BY <1>3 DEF IsInjective
  <2>1. a + 1 = b + 1
    BY <1>1, <1>4 DEF IsInjective
  <2> QED
    BY <1>2, <2>1
<1>6. \A n \in 1 .. Len(backlog) - 1 :
          backlog[n + 1] \in Conns /\ backlog[n + 1] # backlog[1]
  BY <1>1, <1>2, <1>4, ElementOfSeq DEF IsInjective
<1>7. peer[backlog[1]] # "unborn" /\ socket[backlog[1]] = NoSocket
  BY <1>2 DEF BacklogFresh
<1> QED
  BY <1>2, <1>3, <1>4, <1>5, <1>6, <1>7

\* An accepted connection gets a free SOCKET value and a slot of its own.
LEMMA AcceptKeeps ==
    ASSUME IInv, Accept
    PROVE  IInv'
<1> DEFINE c == Head(backlog)
<1>1. PICK h \in FreeHandles : owner' = [owner EXCEPT ![h] = c] /\ AddClient(c, h)
  BY DEF Accept
<1>2. /\ c \in Conns
      /\ peer[c] # "unborn"
      /\ socket[c] = NoSocket
      /\ Tail(backlog) \in Seq(Conns)
      /\ IsInjective(Tail(backlog))
      /\ \A n \in DOMAIN Tail(backlog) :
            /\ Tail(backlog)[n] \in Conns \ {c}
            /\ \E m \in DOMAIN backlog : Tail(backlog)[n] = backlog[m]
  BY AcceptedIsFresh DEF IInv, Accept
<1>3. h \in Handles /\ owner[h] = NoClient
  BY DEF FreeHandles
<1> HIDE DEF c
<1>4. /\ backlog' = Tail(backlog)
      /\ UNCHANGED <<peer, inbox, taken, i, m_ChatRooms>>
      /\ ReadSet' = ReadSet \ {ListenSocket}
      /\ out' = << >>
      /\ pc = "accept"
  BY DEF Accept
<1>5. CASE TotalClients < FD_SETSIZE
  <2>1. /\ socket' = [socket EXCEPT ![c] = h]
        /\ session' = [session EXCEPT ![c] = Frame!NewSession]
        /\ ClientArray' = [ClientArray EXCEPT ![TotalClients] = c]
        /\ TotalClients' = TotalClients + 1
        /\ pc' = "recv"
    BY <1>1, <1>5 DEF AddClient
  <2>2. TotalClients \in Nat /\ TotalClients \in Slots
    BY <1>5, ConstantsAssumption DEF IInv, TypeOK, Slots
  <2>3. TypeOK'
    <3>1. TotalClients' \in 0 .. FD_SETSIZE
      BY <1>5, <2>1, ConstantsAssumption DEF IInv, TypeOK
    <3>2. /\ owner' \in [Handles -> Conns \cup {NoClient}]
          /\ socket' \in [Conns -> Handles \cup {NoSocket}]
          /\ ClientArray' \in [Slots -> Conns \cup {NoClient, Stray}]
      BY <1>1, <1>2, <1>3, <2>1 DEF IInv, TypeOK
    <3>3. session' \in [Conns -> SessionType]
      <4>1. Frame!NewSession \in SessionType
        BY ConstantsAssumption DEF Frame!NewSession, SessionType
      <4> QED
        BY <2>1, <4>1 DEF IInv, TypeOK
    <3> QED
      BY <1>2, <1>4, <2>1, <3>1, <3>2, <3>3 DEF IInv, TypeOK, g_ChatProgram!TypeOK
  <2>4. ASSUME NEW k \in 0 .. TotalClients - 1
        PROVE  /\ ClientArray'[k] = ClientArray[k]
               /\ ClientArray[k] \in Conns \ {c}
               /\ socket'[ClientArray[k]] = socket[ClientArray[k]]
               /\ socket[ClientArray[k]] \in Handles
               /\ owner'[socket[ClientArray[k]]] = ClientArray[k]
    <3>1. k \in Slots /\ k # TotalClients
      BY <1>5, <2>2, ConstantsAssumption DEF Slots
    <3>2. /\ ClientArray[k] \in Conns
          /\ socket[ClientArray[k]] \in Handles
          /\ owner[socket[ClientArray[k]]] = ClientArray[k]
      BY <1>4 DEF IInv, TableOwnsSockets
    <3>3. ClientArray[k] # c /\ socket[ClientArray[k]] # h
      BY <1>2, <1>3, <3>2, ConstantsAssumption
    <3> QED
      BY <1>1, <2>1, <3>1, <3>2, <3>3 DEF IInv, TypeOK
  <2>5. /\ ClientArray'[TotalClients] = c
        /\ socket'[c] = h
        /\ owner'[h] = c
    BY <1>1, <1>2, <1>3, <2>1, <2>2 DEF IInv, TypeOK
  <2>6. TableOwnsSockets'
    <3>1. \A k \in 0 .. TotalClients' - 1 :
              k \in 0 .. TotalClients - 1 \/ k = TotalClients
      BY <2>1, <2>2
    <3>2. \A k \in 0 .. TotalClients' - 1 :
              /\ ClientArray'[k] \in Conns
              /\ socket'[ClientArray'[k]] \in Handles
              /\ owner'[socket'[ClientArray'[k]]] = ClientArray'[k]
      BY <1>2, <1>3, <2>4, <2>5, <3>1
    <3>3. \A j, k \in 0 .. TotalClients' - 1 : ClientArray'[j] = ClientArray'[k] => j = k
      BY <1>4, <2>4, <2>5, <3>1 DEF IInv, TableOwnsSockets
    <3> QED
      BY <3>2, <3>3 DEF TableOwnsSockets
  <2>7. BacklogFresh'
    <3>1. \A d \in Conns : d # c => socket'[d] = socket[d]
      BY <2>1 DEF IInv, TypeOK
    <3>2. \A n \in DOMAIN backlog' :
              peer'[backlog'[n]] # "unborn" /\ socket'[backlog'[n]] = NoSocket
      BY <1>2, <1>4, <3>1 DEF IInv, BacklogFresh
    <3>3. \A d \in Conns : peer'[d] = "unborn" => socket'[d] = NoSocket
      BY <1>2, <1>4, <3>1 DEF IInv, BacklogFresh
    <3> QED
      BY <1>2, <1>4, <3>2, <3>3 DEF BacklogFresh
  <2>8. RostersSocketed'
    BY <1>2, <1>3, <1>4, <2>1, ConstantsAssumption DEF IInv, TypeOK, RostersSocketed
  <2> QED
    BY <2>3, <2>6, <2>7, <2>8 DEF IInv
<1>6. CASE ~(TotalClients < FD_SETSIZE)
  <2>1. pc' = "undefined" /\ UNCHANGED <<socket, session, ClientArray, TotalClients>>
    BY <1>1, <1>6 DEF AddClient
  <2>2. TypeOK'
    BY <1>1, <1>2, <1>3, <1>4, <2>1 DEF IInv, TypeOK, g_ChatProgram!TypeOK
  <2>3. BacklogFresh'
    BY <1>2, <1>4, <2>1 DEF IInv, BacklogFresh
  <2> QED
    BY <1>4, <2>1, <2>2, <2>3, RostersFrame DEF IInv, TableOwnsSockets
<1> QED
  BY <1>5, <1>6

\* After ioctlsocket failed the socket is open and in no slot.
LEMMA AcceptUnmanagedKeeps ==
    ASSUME IInv, AcceptUnmanaged
    PROVE  IInv'
<1> DEFINE c == Head(backlog)
<1>1. PICK h \in FreeHandles : owner' = [owner EXCEPT ![h] = c]
  BY DEF AcceptUnmanaged
<1>2. /\ c \in Conns
      /\ Tail(backlog) \in Seq(Conns)
      /\ IsInjective(Tail(backlog))
      /\ \A n \in DOMAIN Tail(backlog) :
            \E m \in DOMAIN backlog : Tail(backlog)[n] = backlog[m]
  BY AcceptedIsFresh DEF IInv, AcceptUnmanaged
<1>3. h \in Handles /\ owner[h] = NoClient
  BY DEF FreeHandles
<1> HIDE DEF c
<1>4. /\ backlog' = Tail(backlog)
      /\ UNCHANGED <<peer, inbox, taken, socket, session, ClientArray, TotalClients, i,
                     m_ChatRooms>>
      /\ ReadSet' = ReadSet \ {ListenSocket}
      /\ out' = << >>
      /\ pc = "accept" /\ pc' = "recv"
  BY DEF AcceptUnmanaged
<1>5. TypeOK'
  BY <1>1, <1>2, <1>3, <1>4 DEF IInv, TypeOK, g_ChatProgram!TypeOK
<1>6. TableOwnsSockets'
  <2>1. \A k \in 0 .. TotalClients - 1 :
            /\ ClientArray[k] \in Conns
            /\ socket[ClientArray[k]] \in Handles
            /\ owner[socket[ClientArray[k]]] = ClientArray[k]
    BY <1>4 DEF IInv, TableOwnsSockets
  <2>2. \A k \in 0 .. TotalClients - 1 :
            owner'[socket[ClientArray[k]]] = ClientArray[k]
    BY <1>1, <1>3, <2>1, ConstantsAssumption DEF IInv, TypeOK
  <2> QED
    BY <1>4, <2>1, <2>2 DEF IInv, TableOwnsSockets
<1>7. BacklogFresh'
  BY <1>2, <1>4 DEF IInv, BacklogFresh
<1> QED
  BY <1>4, <1>5, <1>6, <1>7, RostersFrame DEF IInv

\* The steps of the receive loop that execute no command and remove no client.
Quiet(c, cmd) ==
    \/ RecvSkip(c) \/ RecvPart(c) \/ RecvNothing(c) \/ RecvOutside(c)
    \/ RecvFrameThrows(c, cmd)

\* The bytes a recv counts keep the types of the bookkeeping.
LEMMA ReceivedType ==
    ASSUME TypeOK, NEW c \in Conns, NEW n \in Int, NEW header \in Headers(c)
    PROVE  Frame!AfterRecv(session[c], n, header) \in SessionType
<1>1. session[c] \in SessionType
  BY DEF TypeOK
<1>2. header \in 0 .. FrameBytes + 1
  BY ConstantsAssumption DEF Headers
<1> QED
  BY <1>1, <1>2 DEF Frame!AfterRecv, SessionType

\* So does a recv that fails.
LEMMA FailedType ==
    ASSUME TypeOK, NEW c \in Conns,
           session' = [session EXCEPT ![c].bytesRECV = @ - 1]
    PROVE  session' \in [Conns -> SessionType]
<1>1. session \in [Conns -> SessionType]
  BY DEF TypeOK
<1>2. [session[c] EXCEPT !.bytesRECV = @ - 1] \in SessionType
  BY <1>1 DEF SessionType
<1>3. session' = [session EXCEPT ![c] = [session[c] EXCEPT !.bytesRECV = @ - 1]]
  BY <1>1 DEF SessionType
<1> QED
  BY <1>1, <1>2, <1>3

\* A client that is not marked, bytes that do not complete a frame, a recv
\* that finds nothing or writes in front of the buffer, and a database call
\* that ends the server, change no client and no room.
LEMMA RecvQuietKeeps ==
    ASSUME IInv, NEW c \in Conns, NEW cmd, Quiet(c, cmd)
    PROVE  IInv'
<1> USE DEF Quiet
<1>1. At(c)
  BY DEF RecvSkip, RecvPart, RecvNothing, RecvOutside, RecvFrameThrows, FrameArrives,
         Receiving, AtMarked
<1>2. i + 1 \in 0 .. FD_SETSIZE
  BY <1>1, AtClient DEF IInv
<1>3. /\ UNCHANGED <<peer, backlog, inbox, owner, socket, ClientArray, TotalClients,
                     ReadSet, m_ChatRooms>>
      /\ out' = << >>
      /\ i' \in {i, i + 1}
      /\ pc' \in {pc, "exited", "undefined"}
      /\ pc = "recv"
  BY <1>1 DEF RecvSkip, RecvPart, RecvNothing, RecvOutside, RecvFrameThrows, envVars, At
<1>4. /\ session' \in [Conns -> SessionType]
      /\ taken' \in [Conns -> Nat]
  <2>1. CASE UNCHANGED <<session, taken>>
    BY <2>1 DEF IInv, TypeOK
  <2>2. CASE RecvPart(c)
    <3>1. PICK n \in 1 .. Available(c), header \in Headers(c) :
              /\ session' = [session EXCEPT ![c] = Frame!AfterRecv(session[c], n, header)]
              /\ taken' = [taken EXCEPT ![c] = @ + n]
      BY <2>2 DEF RecvPart
    <3>2. taken[c] + n \in Nat
      BY DEF IInv, TypeOK
    <3>3. Frame!AfterRecv(session[c], n, header) \in SessionType
      BY ReceivedType DEF IInv
    <3> QED
      BY <3>1, <3>2, <3>3 DEF IInv, TypeOK
  <2>3. CASE RecvNothing(c)
    <3>1. session' = [session EXCEPT ![c].bytesRECV = @ - 1] /\ taken' = taken
      BY <2>3 DEF RecvNothing, envVars
    <3> QED
      BY <3>1, FailedType DEF IInv, TypeOK
  <2> QED
    BY <2>1, <2>2, <2>3 DEF RecvSkip, RecvOutside, RecvFrameThrows, envVars
<1>5. TypeOK'
  BY <1>2, <1>3, <1>4 DEF IInv, TypeOK, g_ChatProgram!TypeOK
<1> QED
  BY <1>3, <1>5, TableFrame, BacklogFrame, RostersFrame DEF IInv

\* A command changes the rooms of a client that has a socket.
LEMMA RecvFrameKeeps ==
    ASSUME IInv, NEW c \in Conns, NEW cmd \in Commands, NEW lost \in LostSets,
           RecvFrame(c, cmd, lost)
    PROVE  IInv'
<1>1. At(c) /\ ParseMessageFromClient(c, cmd, lost)
  BY DEF RecvFrame, FrameArrives, Receiving, AtMarked
<1>2. i + 1 \in 0 .. FD_SETSIZE /\ socket[c] \in Handles /\ pc = "recv"
  BY <1>1, AtClient DEF IInv, At
<1>3. /\ UNCHANGED <<peer, backlog, owner, socket, ClientArray, TotalClients, ReadSet, pc>>
      /\ i' = i + 1
  BY DEF RecvFrame
<1>4. g_ChatProgram!TypeOK' /\ RostersSocketed' /\ out' \in Seq(MessageType)
  BY <1>1, <1>2, <1>3, ParseKeeps, ConstantsAssumption DEF IInv
<1>5. session' \in [Conns -> SessionType]
  <2>1. Frame!NewSession \in SessionType
    BY ConstantsAssumption DEF Frame!NewSession, SessionType
  <2>2. session' = [session EXCEPT ![c] = Frame!NewSession]
    BY DEF RecvFrame
  <2> QED
    BY <2>1, <2>2 DEF IInv, TypeOK
<1>6. inbox' \in [Conns -> Seq(Commands)] /\ taken' \in [Conns -> Nat]
  <2>1. PICK n \in 1 .. Available(c) :
            /\ inbox' = [inbox EXCEPT ![c] =
                           SubSeq(@, (taken[c] + n) \div FrameBytes + 1, Len(@))]
            /\ taken' = [taken EXCEPT ![c] = (@ + n) % FrameBytes]
    BY DEF RecvFrame
  <2>2. inbox[c] \in Seq(Commands) /\ taken[c] \in Nat
    BY DEF IInv, TypeOK
  <2>3. FrameBytes \in Nat \ {0} /\ taken[c] + n \in Nat
    BY <2>2, ConstantsAssumption
  <2> DEFINE from == (taken[c] + n) \div FrameBytes + 1
  <2>4. from \in Nat \ {0} /\ (taken[c] + n) % FrameBytes \in Nat
    BY <2>3
  <2> HIDE DEF from
  <2>5. Len(inbox[c]) \in Nat /\ \A m \in 1 .. Len(inbox[c]) : inbox[c][m] \in Commands
    BY <2>2, LenProperties, ElementOfSeq
  <2>6. \A m \in from .. Len(inbox[c]) : inbox[c][m] \in Commands
    BY <2>4, <2>5
  <2>7. SubSeq(inbox[c], from, Len(inbox[c])) \in Seq(Commands)
    BY <2>2, <2>4, <2>5, <2>6, SubSeqProperties
  <2> QED
    BY <2>1, <2>4, <2>7 DEF IInv, TypeOK, from
<1>7. TypeOK'
  BY <1>2, <1>3, <1>4, <1>5, <1>6 DEF IInv, TypeOK, MessageType
<1> QED
  BY <1>2, <1>3, <1>4, <1>7, TableFrame, BacklogFrame DEF IInv

\* Removing the client of a slot closes its socket and shifts the later slots.
LEMMA RecvEndKeeps ==
    ASSUME IInv, NEW c \in Conns, RecvEnd(c)
    PROVE  IInv'
<1>1. At(c)
  BY DEF RecvEnd, AtMarked
<1>2. /\ i \in 0 .. TotalClients - 1
      /\ i + 1 \in 0 .. FD_SETSIZE
      /\ ClientArray[i] = c
      /\ socket[c] \in Handles
      /\ owner[socket[c]] = c
      /\ pc = "recv"
  BY <1>1, AtClient DEF IInv, At
<1>3. TotalClients \in 1 .. FD_SETSIZE /\ FD_SETSIZE \in Nat /\ i \in Nat
  BY <1>2, ConstantsAssumption DEF IInv, TypeOK
<1>4. /\ UNCHANGED <<peer, backlog, inbox, taken, socket, ReadSet, pc, m_ChatRooms>>
      /\ out' = << >>
      /\ i' = i + 1
      /\ owner' = [owner EXCEPT ![socket[c]] = NoClient]
      /\ ClientArray' =
            [k \in Slots |->
                IF k < i \/ k >= TotalClients THEN ClientArray[k]
                ELSE IF k + 1 < FD_SETSIZE THEN ClientArray[k + 1]
                ELSE Stray]
      /\ TotalClients' = TotalClients - 1
  BY <1>2 DEF RecvEnd, RemoveCient
<1>5. session' \in [Conns -> SessionType]
  <2>1. CASE session' = session
    BY <2>1 DEF IInv, TypeOK
  <2>2. CASE session' = [session EXCEPT ![c].bytesRECV = @ - 1]
    BY <2>2, FailedType DEF IInv
  <2> QED
    BY <2>1, <2>2 DEF RecvEnd
<1>6. ClientArray' \in [Slots -> Conns \cup {NoClient, Stray}]
  <2>1. \A k \in Slots : k + 1 < FD_SETSIZE => k + 1 \in Slots
    BY <1>3 DEF Slots
  <2>2. \A k \in Slots : ClientArray[k] \in Conns \cup {NoClient, Stray}
    BY DEF IInv, TypeOK
  <2> QED
    BY <1>4, <2>1, <2>2
<1>7. TypeOK'
  <2>1. TotalClients' \in 0 .. FD_SETSIZE
    BY <1>3, <1>4
  <2>2. owner' \in [Handles -> Conns \cup {NoClient}]
    BY <1>4 DEF IInv, TypeOK
  <2> QED
    BY <1>2, <1>4, <1>5, <1>6, <2>1, <2>2 DEF IInv, TypeOK, g_ChatProgram!TypeOK
<1> DEFINE from(k) == IF k < i THEN k ELSE k + 1
<1>8. ASSUME NEW k \in 0 .. TotalClients' - 1
      PROVE  /\ from(k) \in 0 .. TotalClients - 1
             /\ from(k) # i
             /\ ClientArray'[k] = ClientArray[from(k)]
  <2>1. k \in Slots /\ k < TotalClients /\ (~(k < i) => k + 1 < FD_SETSIZE)
    BY <1>3, <1>4 DEF Slots
  <2> QED
    BY <1>3, <1>4, <2>1
<1>9. \A j, k \in 0 .. TotalClients' - 1 : from(j) = from(k) => j = k
  BY <1>3, <1>4
<1>10. TableOwnsSockets'
  <2> HIDE DEF from
  <2>1. \A k \in 0 .. TotalClients - 1 :
            /\ ClientArray[k] \in Conns
            /\ socket[ClientArray[k]] \in Handles
            /\ owner[socket[ClientArray[k]]] = ClientArray[k]
    BY <1>2 DEF IInv, TableOwnsSockets
  <2>2. \A j, k \in 0 .. TotalClients - 1 : ClientArray[j] = ClientArray[k] => j = k
    BY <1>2 DEF IInv, TableOwnsSockets
  <2>3. \A k \in 0 .. TotalClients - 1 :
            k # i => owner'[socket[ClientArray[k]]] = ClientArray[k]
    <3> SUFFICES ASSUME NEW k \in 0 .. TotalClients - 1, k # i
                 PROVE  owner'[socket[ClientArray[k]]] = ClientArray[k]
      OBVIOUS
    <3>1. ClientArray[k] # c
      BY <1>2, <2>2
    <3>2. socket[ClientArray[k]] # socket[c]
      BY <1>2, <2>1, <3>1
    <3> QED
      BY <1>4, <2>1, <3>2 DEF IInv, TypeOK
  <2>4. ASSUME NEW k \in 0 .. TotalClients' - 1
        PROVE  /\ ClientArray'[k] \in Conns
               /\ socket[ClientArray'[k]] \in Handles
               /\ owner'[socket[ClientArray'[k]]] = ClientArray'[k]
    <3>1. /\ from(k) \in 0 .. TotalClients - 1
          /\ from(k) # i
          /\ ClientArray'[k] = ClientArray[from(k)]
      BY <1>8
    <3> QED
      BY <2>1, <2>3, <3>1
  <2>5. ASSUME NEW j \in 0 .. TotalClients' - 1, NEW k \in 0 .. TotalClients' - 1,
               ClientArray'[j] = ClientArray'[k]
        PROVE  j = k
    <3>1. /\ from(j) \in 0 .. TotalClients - 1
          /\ from(k) \in 0 .. TotalClients - 1
          /\ ClientArray[from(j)] = ClientArray[from(k)]
      BY <1>8, <2>5
    <3>2. from(j) = from(k)
      BY <2>2, <3>1
    <3> QED
      BY <1>9, <3>2
  <2>6. socket' = socket
    BY <1>4
  <2> QED
    BY <2>4, <2>5, <2>6 DEF TableOwnsSockets
<1> QED
  BY <1>4, <1>7, <1>10, BacklogFrame, RostersFrame DEF IInv
-----------------------------------------------------------------------------
\* The server begins with an empty table.
LEMMA InitEstablishes == Init => IInv
<1> SUFFICES ASSUME Init
             PROVE  IInv
  OBVIOUS
<1>1. TypeOK
  <2>1. Frame!NewSession \in SessionType
    BY ConstantsAssumption DEF Frame!NewSession, SessionType
  <2> QED
    BY <2>1, ConstantsAssumption DEF Init, TypeOK, g_ChatProgram!Init, g_ChatProgram!TypeOK
<1>2. TableOwnsSockets
  BY DEF Init, TableOwnsSockets
<1>3. BacklogFresh
  BY DEF Init, BacklogFresh, IsInjective
<1>4. RostersSocketed
  BY DEF Init, RostersSocketed, g_ChatProgram!Init
<1> QED
  BY <1>1, <1>2, <1>3, <1>4 DEF IInv

\* Every action keeps the invariant, one lemma for each above.
LEMMA StepKeeps == IInv /\ [Next]_vars => IInv'
<1> SUFFICES ASSUME IInv, [Next]_vars
             PROVE  IInv'
  OBVIOUS
<1>1. CASE UNCHANGED vars
  <2>1. TypeOK'
    BY <1>1 DEF IInv, TypeOK, vars, g_ChatProgram!TypeOK
  <2>2. TableOwnsSockets'
    BY <1>1 DEF IInv, TableOwnsSockets, vars
  <2> QED
    BY <1>1, <2>1, <2>2, BacklogFrame, RostersFrame DEF IInv, vars
<1>2. CASE Environment
  BY <1>2, ConnectKeeps, SubmitKeeps, QuitKeeps, BreakKeeps DEF Environment
<1>3. CASE Server
  <2> QED
    BY <1>3, LoopKeeps, AcceptKeeps, AcceptUnmanagedKeeps, RecvQuietKeeps,
       RecvFrameKeeps, RecvEndKeeps
    DEF Server, Quiet
<1> QED
  BY <1>1, <1>2, <1>3 DEF Next

\* The table, the connections that wait and the rooms fit together in every
\* state: the inductive invariant the theorems on the server rest on.
THEOREM Invariance == Spec => []IInv
BY InitEstablishes, StepKeeps, PTL DEF Spec

\* Every variable of the server and its environment keeps its type.
THEOREM TypeCorrect == Spec => []TypeOK
BY Invariance, PTL DEF IInv

\* Whatever connects, closes, breaks or fails, and in whatever order clients
\* are removed under the receive loop, a client in the table has an open
\* socket that is its own, and only one place in the table.
THEOREM TableIsSound == Spec => []TableOwnsSockets
BY Invariance, PTL DEF IInv
-----------------------------------------------------------------------------
(* Which clients are served.                                               *)

\* A client whose own socket is open is in the table.
OpenIsLive ==
    \A c \in Conns : socket[c] \in Handles /\ owner[socket[c]] = c => c \in Live

\* An open socket is the one in the ChatClientInfo of its connection.
OwnersKnow ==
    pc # "undefined" =>
        \A h \in Handles : owner[h] # NoClient => socket[owner[h]] = h

\* The sockets and the table are changed by accepting and removing clients,
\* and a thread that wrote behind the table does nothing more.
LEMMA TableSteps ==
    ASSUME [Next]_vars,
           ~ Accept, ~ AcceptUnmanaged, \A c \in Conns : ~ RecvEnd(c)
    PROVE  /\ UNCHANGED <<owner, socket, ClientArray, TotalClients>>
           /\ pc = "undefined" => pc' = "undefined"
<1>1. CASE Environment
  BY <1>1 DEF Environment, Connect, Submit, Quit, Break, serverVars
<1>2. CASE Select \/ SelectFails \/ AcceptFails \/ EndRound
  BY <1>2 DEF Select, SelectFails, AcceptFails, EndRound, envVars
<1>3. CASE \E c \in Conns : RecvSkip(c) \/ RecvPart(c) \/ RecvNothing(c) \/ RecvOutside(c)
  BY <1>3 DEF RecvSkip, RecvPart, RecvNothing, RecvOutside, Receiving, AtMarked, At, envVars
<1>4. CASE \E c \in Conns, cmd \in Commands :
              (\E lost \in LostSets : RecvFrame(c, cmd, lost)) \/ RecvFrameThrows(c, cmd)
  BY <1>4 DEF RecvFrame, RecvFrameThrows, FrameArrives, Receiving, AtMarked, At, envVars
<1>5. CASE UNCHANGED vars
  BY <1>5 DEF vars
<1> QED
  BY <1>1, <1>2, <1>3, <1>4, <1>5 DEF Next, Server

\* Accepting a connection adds it to the clients served, unless the table is
\* full.
LEMMA AcceptServes ==
    ASSUME IInv, NEW c \in Conns, NEW h \in Handles, AddClient(c, h)
    PROVE  \/ /\ TotalClients < FD_SETSIZE
              /\ Live' = Live \cup {c}
              /\ socket' = [socket EXCEPT ![c] = h]
              /\ pc' = "recv"
           \/ /\ Live' = Live
              /\ socket' = socket
              /\ pc' = "undefined"
<1>1. CASE TotalClients < FD_SETSIZE
  <2>1. /\ ClientArray' = [ClientArray EXCEPT ![TotalClients] = c]
        /\ TotalClients' = TotalClients + 1
        /\ socket' = [socket EXCEPT ![c] = h]
        /\ pc' = "recv"
    BY <1>1 DEF AddClient
  <2>2. TotalClients \in Nat /\ \A k \in 0 .. TotalClients : k \in Slots
    BY <1>1, ConstantsAssumption DEF IInv, TypeOK, Slots
  <2>3. /\ ClientArray'[TotalClients] = c
        /\ \A k \in 0 .. TotalClients - 1 : ClientArray'[k] = ClientArray[k]
    BY <2>1, <2>2 DEF IInv, TypeOK
  <2>4. \A k : k \in 0 .. TotalClients' - 1 <=> k \in 0 .. TotalClients - 1 \/ k = TotalClients
    BY <2>1, <2>2
  <2>5. Live' = Live \cup {c}
    BY <2>3, <2>4 DEF Live
  <2> QED
    BY <1>1, <2>1, <2>5
<1>2. CASE ~(TotalClients < FD_SETSIZE)
  BY <1>2 DEF AddClient, Live
<1> QED
  BY <1>1, <1>2

\* Removing a client takes it, and nobody else, off the clients served.
LEMMA RecvEndServes ==
    ASSUME TypeOK, TableOwnsSockets, NEW c \in Conns, RecvEnd(c)
    PROVE  /\ c \in Live
           /\ Live' = Live \ {c}
<1>1. At(c) /\ pc = "recv"
  BY DEF RecvEnd, AtMarked, At
<1>2. i \in 0 .. TotalClients - 1 /\ ClientArray[i] = c
  BY <1>1, AtClient
<1>3. TotalClients \in 1 .. FD_SETSIZE /\ FD_SETSIZE \in Nat /\ i \in Nat
  BY <1>2, ConstantsAssumption DEF TypeOK
<1>4. /\ ClientArray' =
            [k \in Slots |->
                IF k < i \/ k >= TotalClients THEN ClientArray[k]
                ELSE IF k + 1 < FD_SETSIZE THEN ClientArray[k + 1]
                ELSE Stray]
      /\ TotalClients' = TotalClients - 1
  BY DEF RecvEnd, RemoveCient
<1> DEFINE from(k) == IF k < i THEN k ELSE k + 1
<1>5. ASSUME NEW k \in 0 .. TotalClients' - 1
      PROVE  /\ from(k) \in 0 .. TotalClients - 1
             /\ from(k) # i
             /\ ClientArray'[k] = ClientArray[from(k)]
  <2>1. k \in Slots /\ k < TotalClients /\ (~(k < i) => k + 1 < FD_SETSIZE)
    BY <1>3, <1>4 DEF Slots
  <2> QED
    BY <1>3, <1>4, <2>1
<1>6. \A m \in 0 .. TotalClients - 1 :
          m # i => \E k \in 0 .. TotalClients' - 1 : from(k) = m
  <2> SUFFICES ASSUME NEW m \in 0 .. TotalClients - 1, m # i
               PROVE  \E k \in 0 .. TotalClients' - 1 : from(k) = m
    OBVIOUS
  <2>1. CASE m < i
    <3>1. m \in 0 .. TotalClients' - 1 /\ from(m) = m
      BY <1>2, <1>3, <1>4, <2>1
    <3> QED
      BY <3>1
  <2>2. CASE m > i
    <3>1. m - 1 \in 0 .. TotalClients' - 1 /\ from(m - 1) = m
      BY <1>3, <1>4, <2>2
    <3> QED
      BY <3>1
  <2> QED
    BY <1>3, <2>1, <2>2
<1> HIDE DEF from
<1>7. \A j, k \in 0 .. TotalClients - 1 : ClientArray[j] = ClientArray[k] => j = k
  BY <1>1 DEF TableOwnsSockets
<1>8. \A d : d \in Live' => d \in Live /\ d # c
  BY <1>2, <1>5, <1>7 DEF Live
<1>9. \A d : d \in Live /\ d # c => d \in Live'
  BY <1>2, <1>5, <1>6 DEF Live
<1> QED
  BY <1>2, <1>8, <1>9 DEF Live

\* The socket of a client stays open exactly as long as it is in the table.
LEMMA OpenIsLiveKept ==
    ASSUME IInv, OpenIsLive, [Next]_vars
    PROVE  OpenIsLive'
<1>1. /\ owner \in [Handles -> Conns \cup {NoClient}]
      /\ socket \in [Conns -> Handles \cup {NoSocket}]
  BY DEF IInv, TypeOK
<1>2. ASSUME Accept \/ AcceptUnmanaged
      PROVE  OpenIsLive'
  <2> DEFINE d == Head(backlog)
  <2>1. PICK h \in FreeHandles :
            /\ owner' = [owner EXCEPT ![h] = d]
            /\ \/ AddClient(d, h)
               \/ UNCHANGED <<socket, ClientArray, TotalClients>>
    BY <1>2 DEF Accept, AcceptUnmanaged
  <2>2. d \in Conns /\ socket[d] = NoSocket /\ h \in Handles
    BY <1>2, AcceptedIsFresh DEF IInv, Accept, AcceptUnmanaged, FreeHandles
  <2> HIDE DEF d
  <2>3. \/ Live' = Live \cup {d} /\ socket' = [socket EXCEPT ![d] = h]
        \/ Live' = Live /\ socket' = socket
    BY <2>1, <2>2, AcceptServes DEF Live
  <2> SUFFICES ASSUME NEW c \in Conns, socket'[c] \in Handles, owner'[socket'[c]] = c
               PROVE  c \in Live'
    BY DEF OpenIsLive
  <2>4. CASE c = d
    BY <1>1, <2>2, <2>3, <2>4, ConstantsAssumption
  <2>5. CASE c # d
    <3>1. socket'[c] = socket[c] /\ owner[socket[c]] = c
      BY <1>1, <2>1, <2>2, <2>3, <2>5
    <3> QED
      BY <2>3, <3>1 DEF OpenIsLive
  <2> QED
    BY <2>4, <2>5
<1>3. ASSUME NEW d \in Conns, RecvEnd(d)
      PROVE  OpenIsLive'
  <2>1. At(d)
    BY <1>3 DEF RecvEnd, AtMarked
  <2>2. socket[d] \in Handles /\ ClientArray[i] = d
    BY <2>1, AtClient DEF IInv
  <2>3. owner' = [owner EXCEPT ![socket[d]] = NoClient] /\ UNCHANGED socket
    BY <1>3, <2>2 DEF RecvEnd, RemoveCient
  <2>4. Live' = Live \ {d}
    BY <1>3, RecvEndServes DEF IInv
  <2> SUFFICES ASSUME NEW c \in Conns, socket'[c] \in Handles, owner'[socket'[c]] = c
               PROVE  c \in Live'
    BY DEF OpenIsLive
  <2>5. socket[c] # socket[d]
    BY <1>1, <2>2, <2>3, ConstantsAssumption
  <2>6. owner[socket[c]] = c
    BY <1>1, <2>3, <2>5
  <2>7. c # d /\ c \in Live
    BY <2>3, <2>5, <2>6 DEF OpenIsLive
  <2> QED
    BY <2>4, <2>7
<1>4. ASSUME UNCHANGED <<owner, socket, ClientArray, TotalClients>>
      PROVE  OpenIsLive'
  BY <1>4 DEF OpenIsLive, Live
<1> QED
  BY <1>2, <1>3, <1>4, TableSteps

\* As long as every accepted socket gets a client, every open one has one.
LEMMA OwnersKnowKept ==
    ASSUME "ioctl" \notin Faults, IInv, OwnersKnow, [Next]_vars
    PROVE  OwnersKnow'
<1>1. /\ owner \in [Handles -> Conns \cup {NoClient}]
      /\ socket \in [Conns -> Handles \cup {NoSocket}]
  BY DEF IInv, TypeOK
<1>2. ~ AcceptUnmanaged
  BY DEF AcceptUnmanaged
<1>3. ASSUME Accept
      PROVE  OwnersKnow'
  <2> DEFINE d == Head(backlog)
  <2>1. PICK h \in FreeHandles : owner' = [owner EXCEPT ![h] = d] /\ AddClient(d, h)
    BY <1>3 DEF Accept
  <2>2. d \in Conns /\ socket[d] = NoSocket /\ h \in Handles /\ pc = "accept"
    BY <1>3, AcceptedIsFresh DEF IInv, Accept, FreeHandles
  <2> HIDE DEF d
  <2>3. \/ socket' = [socket EXCEPT ![d] = h]
        \/ pc' = "undefined"
    BY <2>1, <2>2, AcceptServes
  <2> SUFFICES ASSUME NEW g \in Handles, owner'[g] # NoClient, pc' # "undefined"
               PROVE  socket'[owner'[g]] = g
    BY DEF OwnersKnow
  <2>4. socket' = [socket EXCEPT ![d] = h]
    BY <2>3
  <2>5. CASE g = h
    BY <1>1, <2>1, <2>2, <2>4, <2>5
  <2>6. CASE g # h
    <3>1. owner'[g] = owner[g] /\ owner[g] \in Conns /\ socket[owner[g]] = g
      BY <1>1, <2>1, <2>2, <2>6 DEF OwnersKnow
    <3>2. owner[g] # d
      BY <2>2, <3>1, ConstantsAssumption
    <3> QED
      BY <1>1, <2>4, <3>1, <3>2
  <2> QED
    BY <2>5, <2>6
<1>4. ASSUME NEW d \in Conns, RecvEnd(d)
      PROVE  OwnersKnow'
  <2>1. At(d) /\ pc = "recv"
    BY <1>4 DEF RecvEnd, AtMarked, At
  <2>2. socket[d] \in Handles /\ ClientArray[i] = d
    BY <2>1, AtClient DEF IInv
  <2>3. owner' = [owner EXCEPT ![socket[d]] = NoClient] /\ UNCHANGED socket
    BY <1>4, <2>2 DEF RecvEnd, RemoveCient
  <2> QED
    BY <1>1, <2>1, <2>2, <2>3 DEF OwnersKnow
<1>5. ASSUME UNCHANGED <<owner, socket>>, pc = "undefined" => pc' = "undefined"
      PROVE  OwnersKnow'
  BY <1>5 DEF OwnersKnow
<1> QED
  BY <1>2, <1>3, <1>4, <1>5, TableSteps

\* As long as ioctlsocket does not fail, every socket the server holds open
\* is a client's in the table: whatever else breaks, is reset or is full, no
\* removal forgets a socket and no accept leaves one without a client.
THEOREM SocketsDoNotLeak ==
    ASSUME "ioctl" \notin Faults
    PROVE  Spec => []NoSocketLeak
<1> DEFINE Inv == IInv /\ OpenIsLive /\ OwnersKnow
<1>1. Init => Inv
  <2>1. Init => OpenIsLive /\ OwnersKnow
    BY ConstantsAssumption DEF Init, OpenIsLive, OwnersKnow
  <2> QED
    BY <2>1, InitEstablishes
<1>2. Inv /\ [Next]_vars => Inv'
  BY StepKeeps, OpenIsLiveKept, OwnersKnowKept
<1>3. Inv => NoSocketLeak
  <2> SUFFICES ASSUME Inv, pc # "undefined", NEW h \in Handles, owner[h] # NoClient
               PROVE  owner[h] \in Live
    BY DEF NoSocketLeak
  <2>1. owner[h] \in Conns /\ socket[owner[h]] = h
    BY DEF IInv, TypeOK, OwnersKnow
  <2> QED
    BY <2>1 DEF OpenIsLive
<1> QED
  BY <1>1, <1>2, <1>3, PTL DEF Spec
=============================================================================
