----------------------------- MODULE ChatServer -----------------------------
(***************************************************************************)
(* The chat server (ChatServer/server_main.cpp): one thread that selects   *)
(* over the listening socket and the sockets of its clients, accepts one   *)
(* connection per round, receives from every client that select marked,    *)
(* and executes the command of every client whose frame is complete.       *)
(*                                                                         *)
(* The clients, the TCP connections and the operating system's socket      *)
(* table are the environment: connections open, carry commands, close and  *)
(* break between any two steps of the server.                              *)
(*                                                                         *)
(* A ChatClientInfo is allocated once per accepted connection and never    *)
(* freed, so the connection also names its ChatClientInfo pointer.         *)
(***************************************************************************)
EXTENDS Integers, Sequences, FiniteSets, SequencesExt

CONSTANTS
    Conns,         \* TCP connections, each opened at most once
    Handles,       \* SOCKET values the system can hand out
    ListenSocket,  \* the listening socket
    RoomNames,     \* the room names in use
    Commands,      \* the commands clients send
    FD_SETSIZE,    \* capacity of an fd_set and of ClientArray
    LengthBytes,   \* bytes of a frame's length field
    FrameBytes,    \* bytes of a frame (all commands are given one length)
    Pipeline,      \* commands a client may have in flight at once
    ReuseHandles,  \* whether a closed SOCKET value is handed out again
    Faults,        \* the faults that may happen, from FaultKinds
    NoClient,      \* a null ChatClientInfo pointer
    NoSocket,      \* the socket of a ChatClientInfo not yet allocated
    Stray          \* the pointer read one slot behind the end of ClientArray

MessageTypes == {"NONE", "JOIN_A_ROOM", "LEAVE_THE_ROM",
                 "SEND_THE_MSAGE_TO_ROOM", "CREATE_ACCOUNT",
                 "AUTHENTICATE_ACCOUNT"}

AccountTypes == {"CREATE_ACCOUNT", "AUTHENTICATE_ACCOUNT"}

\* reset: a peer breaks its connection; ioctl: ioctlsocket fails on an
\* accepted socket; select: select fails; send: a send finds the socket
\* buffer full; database: a database call throws an SQLException that no
\* handler catches; wouldblock: recv finds nothing on a marked socket.
FaultKinds == {"reset", "ioctl", "select", "send", "database", "wouldblock"}

ASSUME ConstantsAssumption ==
    /\ Commands \subseteq [type : MessageTypes, data1 : RoomNames]
    /\ FD_SETSIZE \in Nat \ {0}
    /\ LengthBytes \in Nat \ {0}
    /\ FrameBytes \in Nat /\ FrameBytes >= LengthBytes
    /\ Pipeline \in Nat \ {0}
    /\ ReuseHandles \in BOOLEAN
    /\ Faults \subseteq FaultKinds
    /\ ListenSocket \notin Handles
    /\ NoSocket \notin Handles
    /\ NoClient \notin Conns
    /\ Stray \notin Conns
    /\ Stray # NoClient

VARIABLES
    \* the environment
    peer,          \* the client's end of each connection
    backlog,       \* connections established and not yet accepted
    inbox,         \* commands sent and not yet parsed, per connection
    taken,         \* bytes of its inbox that were received, per connection
    owner,         \* the connection each open SOCKET value stands for
    \* the server
    socket,        \* ChatClientInfo::socket
    session,       \* ChatClientInfo::bytesRECV and ::packetLength
    ClientArray,
    TotalClients,
    ReadSet,
    pc,            \* where the thread is in its loop
    i,             \* the index of the receive loop
    m_ChatRooms,   \* the room registry, see ChatProgram
    out            \* the messages sent by the last server step, in order

vars == <<peer, backlog, inbox, taken, owner, socket, session, ClientArray,
          TotalClients, ReadSet, pc, i, m_ChatRooms, out>>

envVars == <<peer, backlog, inbox, taken, owner>>
serverVars == <<socket, session, ClientArray, TotalClients, ReadSet, pc, i,
                m_ChatRooms, out>>

g_ChatProgram == INSTANCE ChatProgram WITH Clients <- Conns
Frame == INSTANCE FrameSession

Slots == 0 .. FD_SETSIZE - 1
Running == pc \notin {"exited", "undefined"}

\* The clients in the table, the only ones the server looks at.
Live == {ClientArray[k] : k \in 0 .. TotalClients - 1}
-----------------------------------------------------------------------------
Init ==
    /\ peer = [c \in Conns |-> "unborn"]
    /\ backlog = << >>
    /\ inbox = [c \in Conns |-> << >>]
    /\ taken = [c \in Conns |-> 0]
    /\ owner = [h \in Handles |-> NoClient]
    /\ socket = [c \in Conns |-> NoSocket]
    /\ session = [c \in Conns |-> Frame!NewSession]
    /\ ClientArray = [k \in Slots |-> NoClient]
    /\ TotalClients = 0
    /\ ReadSet = {}
    /\ pc = "select"
    /\ i = 0
    /\ g_ChatProgram!Init
    /\ out = << >>
-----------------------------------------------------------------------------
(* The clients and the network.                                            *)

\* The handshake completes in the listen queue, before the server accepts.
Connect(c) ==
    /\ Running
    /\ peer[c] = "unborn"
    /\ peer' = [peer EXCEPT ![c] = "open"]
    /\ backlog' = Append(backlog, c)
    /\ UNCHANGED <<inbox, taken, owner, serverVars>>

Submit(c, cmd) ==
    /\ Running
    /\ peer[c] = "open"
    /\ Len(inbox[c]) < Pipeline
    /\ inbox' = [inbox EXCEPT ![c] = Append(@, cmd)]
    /\ UNCHANGED <<peer, backlog, taken, owner, serverVars>>

\* shutdown and closesocket: what was sent still arrives, then end of stream.
Quit(c) ==
    /\ Running
    /\ peer[c] = "open"
    /\ peer' = [peer EXCEPT ![c] = "closed"]
    /\ UNCHANGED <<backlog, inbox, taken, owner, serverVars>>

\* The connection is reset; if it was not accepted yet it leaves the queue.
Break(c) ==
    /\ Running
    /\ "reset" \in Faults
    /\ peer[c] = "open"
    /\ peer' = [peer EXCEPT ![c] = "reset"]
    /\ backlog' = RemoveFirst(backlog, c)
    /\ UNCHANGED <<inbox, taken, owner, serverVars>>
-----------------------------------------------------------------------------
(* select and accept.                                                      *)

\* Bytes of c's stream that have arrived and were not received yet.
Available(c) == FrameBytes * Len(inbox[c]) - taken[c]

Readable(h) ==
    LET c == owner[h]
    IN  c # NoClient /\ (Available(c) > 0 \/ peer[c] \in {"closed", "reset"})

\* The fd_set after FD_SET was called for the listening socket and then for
\* every client: FD_SET ignores a socket when the set is full.
Watched ==
    {ListenSocket} \cup
    {socket[ClientArray[k]] : k \in {k \in 0 .. TotalClients - 1 : k < FD_SETSIZE - 1}}

\* select returns with the readable sockets marked, or after its timeout
\* with none.
Select ==
    /\ pc = "select"
    /\ ReadSet' = {h \in Watched \ {ListenSocket} : Readable(h)}
                  \cup ({ListenSocket} \cap IF backlog = << >> THEN {} ELSE Watched)
    /\ pc' = IF backlog = << >> THEN "recv" ELSE "accept"
    /\ i' = 0
    /\ out' = << >>
    /\ UNCHANGED <<envVars, socket, session, ClientArray, TotalClients, m_ChatRooms>>

\* select fails when it is given a socket that is not open; main returns.
SelectFails ==
    /\ pc = "select"
    /\ \/ "select" \in Faults
       \/ \E h \in Watched \ {ListenSocket} : owner[h] = NoClient
    /\ pc' = "exited"
    /\ out' = << >>
    /\ UNCHANGED <<envVars, socket, session, ClientArray, TotalClients, ReadSet,
                   i, m_ChatRooms>>

\* SOCKET values the system may return from accept.
FreeHandles ==
    {h \in Handles : /\ owner[h] = NoClient
                     /\ ReuseHandles \/ \A c \in Conns : socket[c] # h}

\* Mutant of AddClient: the check for room in the table is off by one.
AddClientOneMore(c, h) ==
    IF TotalClients <= FD_SETSIZE
    THEN /\ socket' = [socket EXCEPT ![c] = h]
         /\ session' = [session EXCEPT ![c] = Frame!NewSession]
         /\ ClientArray' = [k \in Slots |-> IF k = TotalClients THEN c ELSE ClientArray[k]]
         /\ TotalClients' = TotalClients + 1
         /\ pc' = "recv"
    ELSE /\ pc' = "undefined"
         /\ UNCHANGED <<socket, session, ClientArray, TotalClients>>

\* Appends the new client to the table.  There is no bounds check: a client
\* too many is written behind the array.
AddClient(c, h) ==
    IF TotalClients < FD_SETSIZE
    THEN /\ socket' = [socket EXCEPT ![c] = h]
         /\ session' = [session EXCEPT ![c] = Frame!NewSession]
         /\ ClientArray' = [ClientArray EXCEPT ![TotalClients] = c]
         /\ TotalClients' = TotalClients + 1
         /\ pc' = "recv"
    ELSE /\ pc' = "undefined"
         /\ UNCHANGED <<socket, session, ClientArray, TotalClients>>

Accept ==
    /\ pc = "accept"
    /\ backlog # << >>
    /\ \E h \in FreeHandles :
          /\ owner' = [owner EXCEPT ![h] = Head(backlog)]
          /\ AddClient(Head(backlog), h)
    /\ backlog' = Tail(backlog)
    /\ ReadSet' = ReadSet \ {ListenSocket}
    /\ out' = << >>
    /\ UNCHANGED <<peer, inbox, taken, i, m_ChatRooms>>

\* The accepted socket cannot be made non-blocking: it stays open, and no
\* client is added for it.
AcceptUnmanaged ==
    /\ pc = "accept"
    /\ backlog # << >>
    /\ "ioctl" \in Faults
    /\ \E h \in FreeHandles : owner' = [owner EXCEPT ![h] = Head(backlog)]
    /\ backlog' = Tail(backlog)
    /\ ReadSet' = ReadSet \ {ListenSocket}
    /\ pc' = "recv"
    /\ out' = << >>
    /\ UNCHANGED <<peer, inbox, taken, socket, session, ClientArray, TotalClients,
                   i, m_ChatRooms>>

\* accept fails, because the connection was broken after select returned or
\* no SOCKET is left; main returns.
AcceptFails ==
    /\ pc = "accept"
    /\ backlog = << >> \/ FreeHandles = {}
    /\ pc' = "exited"
    /\ out' = << >>
    /\ UNCHANGED <<envVars, socket, session, ClientArray, TotalClients, ReadSet,
                   i, m_ChatRooms>>
-----------------------------------------------------------------------------
(* Sending.                                                                *)

\* The sets of connections whose buffers may be full when the server sends.
LostSets == SUBSET (IF "send" \in Faults THEN Conns ELSE {})

\* What send on a SOCKET value does: the bytes go to the connection that now
\* owns the value; the call fails if none does, or if that connection's
\* buffer is full (lost).  The server reports a failed send and goes on.
Message(h, text, room, lost) ==
    [to   |-> IF owner[h] \in lost THEN NoClient ELSE owner[h],
     text |-> text,
     room |-> room]

Reply(c, text, room, lost) == << Message(socket[c], text, room, lost) >>

\* Mutant of Broadcast: the client who joined last is left out.
BroadcastShort(roster, text, room, lost) ==
    [k \in 1 .. Len(roster) - 1 |-> Message(socket[roster[k]], text, room, lost)]

\* BroadcastMessageToRoom, for the clients the room has.
Broadcast(roster, text, room, lost) ==
    [k \in 1 .. Len(roster) |-> Message(socket[roster[k]], text, room, lost)]
-----------------------------------------------------------------------------
(* The commands.  Each handler determines m_ChatRooms' and out'.           *)

JoinRoom(c, room, lost) ==
    /\ g_ChatProgram!JoinRoom(room, c)
    /\ out' = IF g_ChatProgram!JoinStatus(room, c) = "kAllGood"
              THEN Broadcast(g_ChatProgram!GetClientsInRoom(room)', "joined", room, lost)
              ELSE Reply(c, "alreadyIn", room, lost)

\* Mutant of LeaveRoom: the room is told before the client is erased.
LeaveRoomLate(c, room, lost) ==
    LET status == g_ChatProgram!LeaveStatus(room, c)
    IN  /\ g_ChatProgram!LeaveRoom(room, c)
        /\ out' = CASE status = "kAllGood" ->
                        Reply(c, "youLeft", room, lost) \o
                        Broadcast(g_ChatProgram!GetClientsInRoom(room), "left", room, lost)
                    [] status = "kRoomDoesNotExist" -> Reply(c, "noRoom", room, lost)
                    [] status = "kClientNotInRoom" -> Reply(c, "notIn", room, lost)

LeaveRoom(c, room, lost) ==
    LET status == g_ChatProgram!LeaveStatus(room, c)
    IN  /\ g_ChatProgram!LeaveRoom(room, c)
        /\ out' = CASE status = "kAllGood" ->
                        Reply(c, "youLeft", room, lost) \o
                        Broadcast(g_ChatProgram!GetClientsInRoom(room)', "left", room, lost)
                    [] status = "kRoomDoesNotExist" -> Reply(c, "noRoom", room, lost)
                    [] status = "kClientNotInRoom" -> Reply(c, "notIn", room, lost)

MessageRoom(c, room, lost) ==
    /\ UNCHANGED m_ChatRooms
    /\ out' = IF g_ChatProgram!IsMember(room, c)
              THEN Broadcast(g_ChatProgram!GetClientsInRoom(room), "said", room, lost)
              ELSE Reply(c, "notIn", room, lost)

\* The account commands call the database helper, whose result selects the
\* text of the one reply (see AccountStore); an unknown type is only logged.
ParseMessageFromClient(c, cmd, lost) ==
    \/ /\ cmd.type = "JOIN_A_ROOM"
       /\ JoinRoom(c, cmd.data1, lost)
    \/ /\ cmd.type = "LEAVE_THE_ROM"
       /\ LeaveRoom(c, cmd.data1, lost)
    \/ /\ cmd.type = "SEND_THE_MSAGE_TO_ROOM"
       /\ MessageRoom(c, cmd.data1, lost)
    \/ /\ cmd.type \in AccountTypes
       /\ out' = Reply(c, "account", cmd.data1, lost)
       /\ UNCHANGED m_ChatRooms
    \/ /\ cmd.type = "NONE"
       /\ out' = << >>
       /\ UNCHANGED m_ChatRooms
-----------------------------------------------------------------------------
(* The receive loop.                                                       *)

\* The loop is at client c.
At(c) ==
    /\ pc = "recv"
    /\ i < TotalClients
    /\ ClientArray[i] = c

AtMarked(c) == At(c) /\ socket[c] \in ReadSet

RecvSkip(c) ==
    /\ At(c)
    /\ socket[c] \notin ReadSet
    /\ i' = i + 1
    /\ out' = << >>
    /\ UNCHANGED <<envVars, socket, session, ClientArray, TotalClients, ReadSet,
                   pc, m_ChatRooms>>

\* More bytes were received than are counted: a recv that found nothing was
\* counted as -1, and what came behind it was put in the wrong place.
Displaced(c) == taken[c] > session[c].bytesRECV

\* The numbers c's length field may be read as.
Headers(c) == IF Displaced(c) THEN 0 .. FrameBytes + 1 ELSE {FrameBytes}

\* recv is called for c, whose connection is not broken, with an offset in
\* its buffer.
Receiving(c) ==
    /\ AtMarked(c)
    /\ peer[c] # "reset"
    /\ session[c].bytesRECV >= 0

\* Bytes arrive that do not make bytesRECV equal to packetLength: part of a
\* frame, or more than one.
RecvPart(c) ==
    /\ Receiving(c)
    /\ \E n \in 1 .. Available(c), header \in Headers(c) :
          LET received == Frame!AfterRecv(session[c], n, header)
          IN  /\ ~Frame!FrameComplete(received)
              /\ session' = [session EXCEPT ![c] = received]
              /\ taken' = [taken EXCEPT ![c] = @ + n]
    /\ i' = i + 1
    /\ out' = << >>
    /\ UNCHANGED <<peer, backlog, inbox, owner, socket, ClientArray, TotalClients,
                   ReadSet, pc, m_ChatRooms>>

\* recv fails with WSAEWOULDBLOCK: the server ignores it, but its result, -1,
\* was already added.  (The count is bounded below by -1.)
RecvNothing(c) ==
    /\ "wouldblock" \in Faults
    /\ Receiving(c)
    /\ session' = [session EXCEPT ![c].bytesRECV = @ - 1]
    /\ i' = i + 1
    /\ out' = << >>
    /\ UNCHANGED <<envVars, socket, ClientArray, TotalClients, ReadSet, pc,
                   m_ChatRooms>>

\* recv is to write at the offset -1, in front of the buffer.
RecvOutside(c) ==
    /\ AtMarked(c)
    /\ peer[c] # "reset"
    /\ session[c].bytesRECV < 0
    /\ Available(c) > 0
    /\ pc' = "undefined"
    /\ out' = << >>
    /\ UNCHANGED <<envVars, socket, session, ClientArray, TotalClients, ReadSet,
                   i, m_ChatRooms>>

\* n bytes arrive that complete a frame.  It is the command cmd, the one c
\* sent; of displaced bytes it may be any command.
FrameArrives(c, n, cmd) ==
    /\ Receiving(c)
    /\ \E header \in Headers(c) :
          Frame!FrameComplete(Frame!AfterRecv(session[c], n, header))
    /\ Displaced(c) \/ cmd = Head(inbox[c])

\* Mutant of RecvFrame: bytesRECV and packetLength are not reset.
RecvFrameNoReset(c, cmd, lost) ==
    /\ \E n \in 1 .. Available(c) :
          /\ FrameArrives(c, n, cmd)
          /\ session' = [session EXCEPT ![c] =
                            [bytesRECV |-> FrameBytes, packetLength |-> FrameBytes]]
          /\ inbox' = [inbox EXCEPT ![c] = SubSeq(@, 2, Len(@))]
          /\ taken' = [taken EXCEPT ![c] = 0]
    /\ ParseMessageFromClient(c, cmd, lost)
    /\ i' = i + 1
    /\ UNCHANGED <<peer, backlog, owner, socket, ClientArray, TotalClients,
                   ReadSet, pc>>

\* The frame is parsed and executed, and the bookkeeping of the connection
\* starts again from zero: all that was received is done with.
RecvFrame(c, cmd, lost) ==
    /\ \E n \in 1 .. Available(c) :
          /\ FrameArrives(c, n, cmd)
          /\ session' = [session EXCEPT ![c] = Frame!NewSession]
          /\ inbox' = [inbox EXCEPT ![c] =
                          SubSeq(@, (taken[c] + n) \div FrameBytes + 1, Len(@))]
          /\ taken' = [taken EXCEPT ![c] = (@ + n) % FrameBytes]
    /\ ParseMessageFromClient(c, cmd, lost)
    /\ i' = i + 1
    /\ UNCHANGED <<peer, backlog, owner, socket, ClientArray, TotalClients,
                   ReadSet, pc>>

\* An SQLException leaves the database helper: the process terminates.
RecvFrameThrows(c, cmd) ==
    /\ "database" \in Faults
    /\ \E n \in 1 .. Available(c) : FrameArrives(c, n, cmd)
    /\ cmd.type \in AccountTypes
    /\ pc' = "exited"
    /\ out' = << >>
    /\ UNCHANGED <<envVars, socket, session, ClientArray, TotalClients, ReadSet,
                   i, m_ChatRooms>>

\* Mutant of RemoveCient: the slots behind the client are not moved down.
RemoveCientNoShift(index) ==
    /\ owner' = [owner EXCEPT ![socket[ClientArray[index]]] = NoClient]
    /\ ClientArray' = [ClientArray EXCEPT ![index] = NoClient]
    /\ TotalClients' = TotalClients - 1

\* Mutant of RemoveCient: the socket is not closed.
RemoveCientLeak(index) ==
    /\ owner' = owner
    /\ ClientArray' =
          [k \in Slots |->
              IF k < index \/ k >= TotalClients THEN ClientArray[k]
              ELSE IF k + 1 < FD_SETSIZE THEN ClientArray[k + 1]
              ELSE Stray]
    /\ TotalClients' = TotalClients - 1

\* Closes the socket and moves the slots behind the client down by one; the
\* last of these moves reads the slot at TotalClients, which is behind the
\* array when the array is full.  The ChatClientInfo stays allocated, and
\* stays in its rooms.
RemoveCient(index) ==
    /\ owner' = [owner EXCEPT ![socket[ClientArray[index]]] = NoClient]
    /\ ClientArray' =
          [k \in Slots |->
              IF k < index \/ k >= TotalClients THEN ClientArray[k]
              ELSE IF k + 1 < FD_SETSIZE THEN ClientArray[k + 1]
              ELSE Stray]
    /\ TotalClients' = TotalClients - 1

\* Mutant of RecvEnd: a result of 0 is ignored.
RecvEndErrorsOnly(c) ==
    /\ AtMarked(c)
    /\ peer[c] = "reset"
    /\ session' = [session EXCEPT ![c].bytesRECV = @ - 1]
    /\ RemoveCient(i)
    /\ i' = i + 1
    /\ out' = << >>
    /\ UNCHANGED <<peer, backlog, inbox, taken, socket, ReadSet, pc, m_ChatRooms>>

\* recv returns 0, or fails (and -1 is added to bytesRECV): the client is
\* removed, and the loop goes on behind the client that took its slot.
RecvEnd(c) ==
    /\ AtMarked(c)
    /\ \/ /\ peer[c] = "closed"
          /\ Available(c) = 0
          /\ UNCHANGED session
       \/ /\ peer[c] = "reset"
          /\ session' = [session EXCEPT ![c].bytesRECV = @ - 1]
    /\ RemoveCient(i)
    /\ i' = i + 1
    /\ out' = << >>
    /\ UNCHANGED <<peer, backlog, inbox, taken, socket, ReadSet, pc, m_ChatRooms>>

EndRound ==
    /\ pc = "recv"
    /\ i >= TotalClients
    /\ pc' = "select"
    /\ ReadSet' = {}
    /\ i' = 0
    /\ out' = << >>
    /\ UNCHANGED <<envVars, socket, session, ClientArray, TotalClients, m_ChatRooms>>
-----------------------------------------------------------------------------
Environment ==
    \E c \in Conns :
        \/ Connect(c)
        \/ \E cmd \in Commands : Submit(c, cmd)
        \/ Quit(c)
        \/ Break(c)

Server ==
    \/ Select \/ SelectFails
    \/ Accept \/ AcceptUnmanaged \/ AcceptFails
    \/ \E c \in Conns :
          \/ RecvSkip(c) \/ RecvPart(c) \/ RecvEnd(c)
          \/ RecvNothing(c) \/ RecvOutside(c)
          \/ \E cmd \in Commands :
                \/ \E lost \in LostSets : RecvFrame(c, cmd, lost)
                \/ RecvFrameThrows(c, cmd)
    \/ EndRound

Next == Environment \/ Server

Spec == Init /\ [][Next]_vars

\* The thread never waits for anything but select, which times out.
FairSpec == Spec /\ WF_vars(Server)
-----------------------------------------------------------------------------
SessionType == [bytesRECV : Int, packetLength : 0 .. FrameBytes + 1]

TypeOK ==
    /\ peer \in [Conns -> {"unborn", "open", "closed", "reset"}]
    /\ backlog \in Seq(Conns)
    /\ inbox \in [Conns -> Seq(Commands)]
    /\ taken \in [Conns -> Nat]
    /\ owner \in [Handles -> Conns \cup {NoClient}]
    /\ socket \in [Conns -> Handles \cup {NoSocket}]
    /\ session \in [Conns -> SessionType]
    /\ ClientArray \in [Slots -> Conns \cup {NoClient, Stray}]
    /\ TotalClients \in 0 .. FD_SETSIZE
    /\ ReadSet \subseteq Handles \cup {ListenSocket}
    /\ pc \in {"select", "accept", "recv", "exited", "undefined"}
    /\ i \in 0 .. FD_SETSIZE
    /\ g_ChatProgram!TypeOK
    /\ out \in Seq([to : Conns \cup {NoClient},
                    text : {"joined", "left", "said", "youLeft", "alreadyIn",
                            "noRoom", "notIn", "account"},
                    room : RoomNames])

\* Every slot of the table holds a client whose socket is open and still its
\* own, and no client holds two slots, however removals shifted the table
\* under the loop: select is never handed a closed socket (which would end
\* the server), and recv never reads another client's bytes.
TableOwnsSockets ==
    pc # "undefined" =>
        /\ \A k \in 0 .. TotalClients - 1 :
              /\ ClientArray[k] \in Conns
              /\ socket[ClientArray[k]] \in Handles
              /\ owner[socket[ClientArray[k]]] = ClientArray[k]
        /\ \A j, k \in 0 .. TotalClients - 1 :
              ClientArray[j] = ClientArray[k] => j = k

\* A socket the server holds open belongs to a client in its table: nothing
\* removes a client and forgets its socket, or accepts one and forgets it.
NoSocketLeak ==
    pc # "undefined" =>
        \A h \in Handles : owner[h] # NoClient => owner[h] \in Live

\* No client is twice in a room, and joins and departures keep the order of
\* those who stay, whatever happens to their connections: see ChatProgram.
RosterUnique == g_ChatProgram!RosterUnique
OrderStable == g_ChatProgram!OrderStable

\* What is broadcast to a room reaches only clients who joined that room and
\* did not leave it.  BroadcastMessageToRoom sends to the SOCKET values of
\* the room's clients, of whom some may be gone.
OnlyMembersHear ==
    \A k \in DOMAIN out :
        /\ out[k].to # NoClient
        /\ out[k].text \in {"joined", "left", "said"}
        => g_ChatProgram!IsMember(out[k].room, out[k].to)

\* One command sends nobody two messages.
NoDoubleDelivery ==
    \A j, k \in DOMAIN out :
        out[j].to = out[k].to /\ out[j].to # NoClient => j = k

\* select watches every client the server has.
EveryClientWatched ==
    pc = "select" => \A c \in Live : socket[c] \in Watched

\* The server implements the room service for the clients in its table.
Service == INSTANCE RoomService WITH
    Users     <- Conns,
    online    <- Live,
    members   <- [r \in RoomNames |->
                     Range(g_ChatProgram!GetClientsInRoom(r)) \cap Live],
    delivered <- {m \in Range(out) : m.to # NoClient}

ImplementsRoomService == Service!Spec

\* c was accepted, but its socket could not be made non-blocking and the
\* server knows nothing of it.
Unmanaged(c) == \E h \in Handles : owner[h] = c /\ socket[c] # h

\* Every command that arrives whole is executed, also when its client has
\* closed the connection behind it, unless the connection is reset, was
\* never managed, a recv on it found nothing and was counted all the same, or
\* the server ends.
CommandsServed ==
    \A c \in Conns :
        inbox[c] # << >> ~>
            \/ inbox[c] = << >>
            \/ peer[c] = "reset"
            \/ Unmanaged(c)
            \/ Displaced(c)
            \/ ~Running

\* Every client that is gone, even one that left before it was accepted, is
\* eventually removed from the table, and the socket it had there closed.
ClientsReaped ==
    \A c \in Conns :
        peer[c] \in {"closed", "reset"} ~>
            \/ /\ c \notin Range(backlog)
               /\ c \notin Live
               /\ (\A h \in Handles : owner[h] # c) \/ Unmanaged(c)
            \/ ~Running
=============================================================================
