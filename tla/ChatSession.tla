---------------------------- MODULE ChatSession ----------------------------
(***************************************************************************)
(* A client and the server it talks to: the server starts or fails to, the *)
(* client connects or gives up, messages and commands cross, and either    *)
(* side may leave at any time.                                             *)
(***************************************************************************)
EXTENDS ChatClient, ServerStartup

vars == <<clientVars, serverVars>>

Init == ClientInit /\ ServerInit

\* The connections of a server that is gone are ended or reset.
LinkLost ==
    /\ link' \in IF link = "open" THEN {"closed", "reset"} ELSE {link}
    /\ UNCHANGED <<clientAt, initVars, sent, toClient, loopVars>>

ServerStep ==
    /\ ServerStart \/ LeaveLoop
    /\ IF listening' = "no" THEN LinkLost ELSE UNCHANGED clientVars

\* SendMessageToClient, in answer to this client or to another.
Reply(text) ==
    /\ serverAt = "loop"
    /\ link = "open"
    /\ Len(sent) < MaxMessages
    /\ sent' = Append(sent, text)
    /\ toClient' = toClient \o ReplyFrame(text)
    /\ UNCHANGED <<clientAt, initVars, link, loopVars, serverVars>>

Client == ClientStep(listening # "no") /\ UNCHANGED serverVars

Next ==
    \/ Client
    \/ ServerStep
    \/ \E text \in Texts : Reply(text)

\* Some of what is in flight arrives.
Arrive == (\E n \in 1 .. Len(toClient) : Receive(n)) /\ UNCHANGED serverVars

\* Nothing the client calls blocks for ever; the user need not press a key.  A
\* client that calls recv again and again is not told for ever that it would
\* block when there are bytes in flight.
Spec == Init /\ [][Next]_vars /\ WF_vars(Client) /\ SF_vars(Arrive)
-----------------------------------------------------------------------------
Ended == clientAt \in {"exited", "popped", "overrun"}

TypeOK ==
    /\ clientAt \in {"WSAStartup", "getaddrinfo", "socket", "connect", "ioctlsocket",
                     "receive", "keyboard", "disconnect", "exited", "popped", "overrun"}
    /\ clientHolds \subseteq {"winsock", "addrinfo", "socket"}
    /\ addresses \in 0 .. MaxAddresses
    /\ link \in {"none", "open", "closed", "reset", "left"}
    /\ sent \in Seq(Texts)
    /\ toClient \in Seq(Byte)
    /\ arrival \in {"separate", "joined", "cut"}
    /\ g_Buffer.m_Data \in Seq(Byte)
    /\ Len(g_Buffer.m_Data) = BufferSize
    /\ g_Buffer.m_ReadIndex = 0 /\ g_Buffer.m_WriteIndex = 0
    /\ printed \in Seq(Seq(Byte))
    /\ message = << >> \/ \E line \in Lines : IsPrefix(message, line)
    /\ outbox \in Seq(Byte)
    /\ g_IsRunning \in BOOLEAN
    /\ serverAt \in {"Connect", "WSAStartup", "getaddrinfo", "socket", "bind", "listen",
                     "ioctlsocket", "loop", "returned", "exited"}
    /\ serverHolds \subseteq {"winsock", "addrinfo", "socket"}
    /\ listening \in {"no", "blocking", "nonblocking"}

\* Whichever call fails, a program that gives up has left Winsock; the server
\* has also given back its address and its socket.
StartupGivesBack ==
    /\ serverAt = "exited" => serverHolds = {}
    /\ clientAt = "exited" => "winsock" \notin clientHolds

\* The client is in its loop only with a connection some server accepted,
\* whichever addresses were tried, and the server in its own only with a
\* socket on which accept does not block.
LoopsAreReady ==
    /\ clientAt \in {"receive", "keyboard", "disconnect"} =>
          clientHolds = {"winsock", "socket"} /\ link # "none"
    /\ serverAt = "loop" => serverHolds = {"winsock", "socket"} /\ listening = "nonblocking"

\* As long as no message was cut, what is on the console are messages the
\* server sent, whole and in the order it sent them.
PrintedInOrder ==
    arrival # "cut" =>
        \E number \in [DOMAIN printed -> DOMAIN sent] :
            /\ \A k \in DOMAIN printed : printed[k] = sent[number[k]]
            /\ \A j, k \in DOMAIN printed : j < k => number[j] < number[k]

\* As long as every recv found one message, none was lost.
NothingLost ==
    arrival = "separate" /\ ~Ended =>
        /\ printed = SubSeq(sent, 1, Len(printed))
        /\ BytesTaken = BytesSent(Len(printed))

\* The length of the frame a line becomes.
FrameLength(line) ==
    LET cmd == CreateCommandData(line)
    IN  PacketLength(TypeOf(cmd.messageType), cmd.data1, cmd.data2)

\* No field is written or read outside its buffer, but by a recv that cut a
\* message, or for a line whose frame is longer than a Buffer that was doubled
\* once: ParseAndSendMessage checks no length, and CheckForReceive believes the
\* one it reads.
StaysInBounds ==
    [][clientAt # "overrun" /\ clientAt' = "overrun" =>
          \/ clientAt = "receive" /\ arrival' = "cut"
          \/ clientAt = "keyboard" /\ FrameLength(message) > 2 * BufferSize]_vars

\* What the server makes of a line is what PrintHelpMessage says of it: the
\* word behind the command is the room, or the email, and all that follows is
\* the message, or the password - of which the server takes MaxText bytes.
Means(line, cmd) ==
    \A type \in 1 .. 5, first, last \in SubSeqs(line) :
        LET opening == << CHOOSE word \in 1 .. 7 : TypeOf(<< word >>) = type, Space >>
        IN  /\ ~Contains(first, Space)
            /\ line = opening \o first \o
                      IF type \in TwoFields THEN << Space >> \o last ELSE << >>
            => cmd = [type |-> type, data1 |-> first,
                      data2 |-> IF type \notin TwoFields THEN << >>
                                ELSE IF Len(last) <= MaxText THEN last
                                ELSE SubSeq(last, 1, MaxText)]

\* A command the user enters reaches the server's handler as it was meant,
\* and its frame is as long as it says, so that the server finds its end.
CommandsUnderstood ==
    [][outbox' # << >> /\ Len(outbox') <= BufferSize =>
          LET buffer == ServerBuffer(outbox')
          IN  /\ Means(message, ParseMessageFromClient(buffer))
              /\ ReadUInt32LE(Reset(buffer)) = Len(outbox')]_vars

\* The client connects or gives up, and ends once it was told to.
ClientSettles == <>(clientAt \in {"receive", "exited"})
ClientEnds == ~g_IsRunning ~> Ended

\* A client whose connection is reset ends by itself, wherever it is in its
\* loop; that the stream has ended is not noticed, and is not claimed.
ResetEnds == link = "reset" ~> Ended

\* Every message is shown, if every recv finds one message and the client
\* goes on.
MessagesShown ==
    \A k \in 1 .. MaxMessages :
        Len(sent) >= k ~>
            \/ Len(printed) >= k
            \/ arrival # "separate" \/ link = "reset" \/ Ended
=============================================================================
