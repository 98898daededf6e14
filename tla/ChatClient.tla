----------------------------- MODULE ChatClient -----------------------------
(***************************************************************************)
(* The chat client (ChatClient/client_main.cpp): how it connects, its loop *)
(* of one recv and one key per turn, and how it leaves.                    *)
(*                                                                         *)
(* The server and the network are seen as one connection: what the server  *)
(* sends arrives in pieces of any size, and the connection may end or be   *)
(* reset at any time.                                                      *)
(***************************************************************************)
EXTENDS WireProtocol, FiniteSets

CONSTANTS
    Lines,         \* the lines the user types
    Texts,         \* the messages the server sends
    MaxMessages,   \* bound on the messages sent
    MaxAddresses   \* bound on the addresses getaddrinfo finds

\* Any line may be typed.  A text is made of the fields of one command, which
\* came in a frame of at most BufferSize bytes, and of a few fixed words: its own
\* frame may be longer than BufferSize, but not than twice that.
ASSUME ClientAssumption ==
    /\ MaxMessages \in Nat
    /\ MaxAddresses \in Nat \ {0}
    /\ \A line \in Lines : line \in Seq(Byte)
    /\ \A text \in Texts :
          text \in Seq(Byte) /\ Len(text) + HEADER_SIZE <= 2 * BufferSize

VARIABLES
    clientAt,      \* the call Initialize has come to; "receive" or "keyboard" in
                   \* the loop; "disconnect"; "exited"; and when the code has no
                   \* defined behaviour, "popped" or "overrun"
    clientHolds,   \* what it has taken from the system and not given back
    addresses,     \* addresses of the server not tried yet
    link,          \* "none", "open", "closed" or "reset" by the server, "left"
    sent,          \* the messages the server sent
    toClient,      \* the bytes of theirs that are in flight
    arrival,       \* how they arrived: "separate", "joined" or "cut"
    g_Buffer,
    printed,       \* the messages on the console
    message,       \* the line being typed
    outbox,        \* the frame the last step handed to send
    g_IsRunning

netVars == <<link, sent, toClient>>
initVars == <<clientHolds, addresses>>
loopVars == <<arrival, g_Buffer, printed, message, outbox, g_IsRunning>>
clientVars == <<clientAt, initVars, netVars, loopVars>>

ClientInit ==
    /\ clientAt = "WSAStartup"
    /\ clientHolds = {}
    /\ addresses = 0
    /\ link = "none"
    /\ sent = << >>
    /\ toClient = << >>
    /\ arrival = "separate"
    /\ g_Buffer = NewBuffer(BufferSize)
    /\ printed = << >>
    /\ message = << >>
    /\ outbox = << >>
    /\ g_IsRunning = TRUE
-----------------------------------------------------------------------------
(* Initialize.                                                             *)

Goes(call, next) ==
    /\ clientAt = call
    /\ clientAt' = next
    /\ UNCHANGED loopVars

\* Every failure is followed by WSACleanup and by nothing else.
GivesUp(call) ==
    /\ Goes(call, "exited")
    /\ clientHolds' = clientHolds \ {"winsock"}
    /\ UNCHANGED <<addresses, netVars>>

OpenWinsock ==
    \/ /\ Goes("WSAStartup", "getaddrinfo")
       /\ clientHolds' = {"winsock"}
       /\ UNCHANGED <<addresses, netVars>>
    \/ GivesUp("WSAStartup")

FindServer ==
    \/ /\ Goes("getaddrinfo", "socket")
       /\ clientHolds' = clientHolds \cup {"addrinfo"}
       /\ addresses' \in 1 .. MaxAddresses
       /\ UNCHANGED netVars
    \/ GivesUp("getaddrinfo")

OpenSocket ==
    \/ /\ Goes("socket", "connect")
       /\ clientHolds' = clientHolds \cup {"socket"}
       /\ addresses' = addresses - 1
       /\ UNCHANGED netVars
    \/ GivesUp("socket")

\* Mutant of ConnectServer: the addresses after the first are not tried, and
\* the socket that could not be connected is kept.
ConnectServerOnce(reachable) ==
    /\ Goes("connect", "ioctlsocket")
    /\ link' \in IF reachable THEN {"open", "none"} ELSE {"none"}
    /\ UNCHANGED <<initVars, sent, toClient>>

\* connect blocks until it succeeds, which it can if the server is listening,
\* or fails; then the next address is tried, if there is one.
ConnectServer(reachable) ==
    \/ /\ reachable
       /\ Goes("connect", "ioctlsocket")
       /\ link' = "open"
       /\ UNCHANGED <<initVars, sent, toClient>>
    \/ /\ Goes("connect", IF addresses > 0 THEN "socket" ELSE "ioctlsocket")
       /\ clientHolds' = clientHolds \ {"socket"}
       /\ UNCHANGED <<addresses, netVars>>

\* Mutant of Unblock: a failure is printed and the call made again.
UnblockAgain ==
    /\ Goes("ioctlsocket", IF "socket" \in clientHolds THEN "receive" ELSE "ioctlsocket")
    /\ clientHolds' = clientHolds \ {"addrinfo"}
    /\ addresses' = 0
    /\ UNCHANGED netVars

\* Without a socket the call fails, so that the test for one behind it,
\* "Unable to connect to server!", comes too late to find anything.
Unblock ==
    \/ /\ "socket" \in clientHolds
       /\ Goes("ioctlsocket", "receive")
       /\ clientHolds' = clientHolds \ {"addrinfo"}
       /\ addresses' = 0
       /\ UNCHANGED netVars
    \/ GivesUp("ioctlsocket")

Initialize(reachable) ==
    \/ OpenWinsock \/ FindServer \/ OpenSocket
    \/ ConnectServer(reachable) \/ Unblock
-----------------------------------------------------------------------------
(* CheckForReceive.                                                        *)

\* The bytes of the frames of the first of these messages, by their number.
BytesOf(messages) ==
    LET bytes[k \in 0 .. Len(messages)] ==
            IF k = 0 THEN 0 ELSE bytes[k - 1] + Len(messages[k]) + HEADER_SIZE
    IN  bytes

BytesSent(k) == BytesOf(sent)[k]

\* The bytes received so far.
BytesTaken == BytesSent(Len(sent)) - Len(toClient)

\* How messages arrive if n bytes are received now.
ArrivalOf(n) ==
    LET ends == {k \in DOMAIN sent : BytesSent(k) \in BytesTaken + 1 .. BytesTaken + n}
    IN  IF arrival = "cut" \/ ~\E k \in ends : BytesSent(k) = BytesTaken + n THEN "cut"
        ELSE IF arrival = "joined" \/ Cardinality(ends) > 1 THEN "joined"
        ELSE "separate"

\* The client's copy of ReadString moves the read index twice.
AfterText(buffer, length) == Advance(Advance(buffer, length), length)

\* recv writes at the start of g_Buffer, as bytesRECV is never changed.
Filled(n) == [g_Buffer EXCEPT !.m_Data = Overwritten(@, 0, SubSeq(toClient, 1, n))]

\* What is in g_Buffer is taken for one whole message.  (Once a message was cut, what is
\* in flight is bounded to arrive at once: nothing is claimed of it.)
Receive(n) ==
    LET text == Advance(Filled(n), HEADER_SIZE)
        length == ReadUInt32LE(Advance(Filled(n), 8))
    IN  /\ clientAt = "receive"
        /\ link \in {"open", "closed"}
        /\ n <= BufferSize
        /\ arrival = "cut" => n = Len(toClient) \/ n = BufferSize
        /\ toClient' = SubSeq(toClient, n + 1, Len(toClient))
        /\ arrival' = ArrivalOf(n)
        /\ IF Readable(text, length)
           THEN /\ printed' = Append(printed, ReadString(text, length))
                /\ g_Buffer' = Reset(AfterText(text, length))
                /\ clientAt' = "keyboard"
           ELSE /\ clientAt' = "overrun"
                /\ UNCHANGED <<printed, g_Buffer>>
        /\ outbox' = << >>
        /\ UNCHANGED <<initVars, link, sent, message, g_IsRunning>>

\* recv would block, as nothing has arrived yet, or returns 0 at the end of
\* the stream: neither is noticed.
ReceiveNothing ==
    /\ clientAt = "receive"
    /\ link \in {"open", "closed"}
    /\ clientAt' = "keyboard"
    /\ outbox' = << >>
    /\ UNCHANGED <<initVars, netVars, arrival, g_Buffer, printed, message, g_IsRunning>>

\* Mutant of ReceiveError: every error is taken for WSAEWOULDBLOCK.
ReceiveErrorIgnored ==
    /\ clientAt = "receive"
    /\ link = "reset"
    /\ clientAt' = "keyboard"
    /\ outbox' = << >>
    /\ UNCHANGED <<initVars, netVars, arrival, g_Buffer, printed, message, g_IsRunning>>

\* recv fails: this turn of the loop, with its key, is the last.
ReceiveError ==
    /\ clientAt = "receive"
    /\ link = "reset"
    /\ clientAt' = "keyboard"
    /\ outbox' = << >>
    /\ g_IsRunning' = FALSE
    /\ UNCHANGED <<initVars, netVars, arrival, g_Buffer, printed, message>>
-----------------------------------------------------------------------------
(* The keyboard.                                                           *)

\* Mutants of AfterKey: the loop does not look at g_IsRunning; and it stays
\* at the keyboard until the line is finished.
AfterKeyForever(goesOn) == clientAt' = "receive"

AfterKeyOfLine(goesOn) ==
    clientAt' = IF ~goesOn THEN "disconnect"
                ELSE IF message = << >> THEN "receive" ELSE "keyboard"

\* The loop goes on after a key unless it was told to stop.
AfterKey(goesOn) == clientAt' = IF goesOn THEN "receive" ELSE "disconnect"

NoKey ==
    /\ clientAt = "keyboard"
    /\ AfterKey(g_IsRunning)
    /\ outbox' = << >>
    /\ UNCHANGED <<initVars, netVars, arrival, g_Buffer, printed, message, g_IsRunning>>

Escape ==
    /\ clientAt = "keyboard"
    /\ g_IsRunning' = FALSE
    /\ AfterKey(FALSE)
    /\ outbox' = << >>
    /\ UNCHANGED <<initVars, netVars, arrival, g_Buffer, printed, message>>

\* pop_back of an empty line is undefined.
Backspace ==
    /\ clientAt = "keyboard"
    /\ UNCHANGED g_IsRunning
    /\ IF message = << >>
       THEN clientAt' = "popped" /\ UNCHANGED message
       ELSE AfterKey(g_IsRunning) /\ message' = Front(message)
    /\ outbox' = << >>
    /\ UNCHANGED <<initVars, netVars, arrival, g_Buffer, printed>>

Type(symbol) ==
    /\ clientAt = "keyboard"
    /\ \E line \in Lines : IsPrefix(Append(message, symbol), line)
    /\ message' = Append(message, symbol)
    /\ AfterKey(g_IsRunning)
    /\ outbox' = << >>
    /\ UNCHANGED <<initVars, netVars, arrival, g_Buffer, printed, g_IsRunning>>

\* ParseAndSendMessage; what send returns is ignored.
Enter ==
    LET cmd == CreateCommandData(message)
        local == cmd.messageType \in {<< Word.help >>, << Word.quit >>}
    IN  /\ clientAt = "keyboard"
        /\ g_IsRunning' = (g_IsRunning /\ cmd.messageType # << Word.quit >>)
        /\ message' = << >>
        /\ IF local \/ CommandBuffer(cmd).inBounds
           THEN /\ AfterKey(g_IsRunning /\ cmd.messageType # << Word.quit >>)
                /\ outbox' = IF local THEN << >> ELSE CommandFrame(cmd)
           ELSE clientAt' = "overrun" /\ outbox' = << >>
        /\ UNCHANGED <<initVars, netVars, arrival, g_Buffer, printed>>

\* shutdown may fail; the socket is closed and Winsock left all the same.
Disconnect ==
    /\ clientAt = "disconnect"
    /\ clientAt' = "exited"
    /\ clientHolds' = clientHolds \ {"socket", "winsock"}
    /\ link' = "left"
    /\ outbox' = << >>
    /\ UNCHANGED <<addresses, sent, toClient, arrival, g_Buffer, printed, message,
                   g_IsRunning>>

Keyboard ==
    \/ NoKey \/ Escape \/ Backspace \/ Enter
    \/ \E line \in Lines : \E symbol \in Range(line) : Type(symbol)

ClientStep(reachable) ==
    \/ Initialize(reachable)
    \/ \E n \in 1 .. Len(toClient) : Receive(n)
    \/ ReceiveNothing \/ ReceiveError
    \/ Keyboard
    \/ Disconnect
=============================================================================
