--------------------------- MODULE StreamFraming ---------------------------
(***************************************************************************)
(* One connection between a client and the chat server, byte by byte: the  *)
(* client writes frames into a TCP stream (client_main.cpp), TCP delivers  *)
(* the bytes in pieces of any size, and the server collects them in the    *)
(* connection's 512-byte buffer and executes a command when the bytes it   *)
(* counted equal the length in the frame (the recv branch of the main loop *)
(* in server_main.cpp and the reset at the end of ParseMessageFromClient). *)
(*                                                                         *)
(* A byte is a pair <<k, p>>: byte p of the k-th command the client sent.  *)
(***************************************************************************)
EXTENDS FrameSession, Sequences, SequencesExt

CONSTANTS
    FrameLengths,   \* the lengths a frame may have
    Capacity,       \* DEFAULT_BUFLEN, the size of the receive buffer
    MaxCommands,    \* bound on the commands sent
    Pipeline,       \* commands sent and not executed, at most
    ShortSends,     \* whether send may take fewer bytes than it was given
    SpuriousReady   \* whether recv may find nothing on a marked socket

ASSUME StreamAssumption ==
    /\ FrameLengths \subseteq {n \in Nat : n >= LengthBytes}
    /\ Capacity \in Nat /\ Capacity >= LengthBytes
    /\ MaxCommands \in Nat
    /\ Pipeline \in Nat \ {0}
    /\ ShortSends \in BOOLEAN
    /\ SpuriousReady \in BOOLEAN

VARIABLES
    sent,      \* the length of each command the client sent
    stream,    \* the bytes in flight
    link,      \* "open", "closed" by the client, or "removed" by the server
    buffer,    \* ChatClientInfo::buffer, offsets 0 .. Capacity - 1
    session,   \* ChatClientInfo::bytesRECV and ::packetLength
    handled,   \* what was executed: the command, or Garbled
    defined,   \* no byte was received outside the buffer
    trouble    \* a send was short, or a marked socket had nothing to receive

vars == <<sent, stream, link, buffer, session, handled, defined, trouble>>
clientVars == <<sent, link>>

Garbled == 0
NoByte == <<0, 0>>

\* The bytes of command k, of the given length.
FrameOf(k, length) == [p \in 1 .. length |-> <<k, p - 1>>]

Init ==
    /\ sent = << >>
    /\ stream = << >>
    /\ link = "open"
    /\ buffer = [p \in 0 .. Capacity - 1 |-> NoByte]
    /\ session = NewSession
    /\ handled = << >>
    /\ defined = TRUE
    /\ trouble = FALSE
-----------------------------------------------------------------------------
(* The client.                                                             *)

\* ParseAndSendMessage: the frame is handed to send, and what send did not
\* take is not sent again.
Send(length) ==
    /\ defined
    /\ link = "open"
    /\ Len(sent) < MaxCommands
    /\ Len(sent) - Len(handled) < Pipeline
    /\ sent' = Append(sent, length)
    /\ \E taken \in IF ShortSends THEN 0 .. length ELSE {length} :
          /\ stream' = stream \o SubSeq(FrameOf(Len(sent) + 1, length), 1, taken)
          /\ trouble' = (trouble \/ taken < length)
    /\ UNCHANGED <<link, buffer, session, handled, defined>>

\* Disconnect: what was sent still arrives, then the end of the stream.
Close ==
    /\ defined
    /\ link = "open"
    /\ link' = "closed"
    /\ UNCHANGED <<sent, stream, buffer, session, handled, defined, trouble>>
-----------------------------------------------------------------------------
(* The server.                                                             *)

\* The buffer after n bytes of the stream were received at bytesRECV.
Received(n) ==
    [p \in DOMAIN buffer |->
        IF p \in session.bytesRECV .. session.bytesRECV + n - 1
        THEN stream[p - session.bytesRECV + 1]
        ELSE buffer[p]]

Holds(bytes, k, length) == \A p \in 0 .. length - 1 : bytes[p] = <<k, p>>

\* The numbers the length field may be read as: the length of the command
\* whose field it holds, or anything if it holds bytes of other origin.
Headers(bytes) ==
    LET whole == {k \in DOMAIN sent : Holds(bytes, k, LengthBytes)}
    IN  IF whole # {} THEN {sent[k] : k \in whole}
        ELSE FrameLengths \cup {0, Capacity + 1}

\* The command that the first length bytes are.
CommandIn(bytes, length) ==
    LET whole == {k \in DOMAIN sent : sent[k] = length /\ Holds(bytes, k, length)}
    IN  IF whole # {} THEN CHOOSE k \in whole : TRUE ELSE Garbled

\* Mutant of AfterParse: the bytes of the parsed frame are not discounted.
AfterParseKeepsCount == [session EXCEPT !.packetLength = 0]

\* The session once its frame was parsed.
AfterParse == NewSession

\* recv is always given the capacity of the whole buffer, wherever in the
\* buffer it is to write.
Recv(n) ==
    /\ defined
    /\ link # "removed"
    /\ n <= Len(stream) /\ n <= Capacity
    /\ stream' = SubSeq(stream, n + 1, Len(stream))
    /\ UNCHANGED <<clientVars, trouble>>
    /\ IF session.bytesRECV < 0 \/ session.bytesRECV + n > Capacity
       THEN /\ defined' = FALSE
            /\ UNCHANGED <<buffer, session, handled>>
       ELSE /\ buffer' = Received(n)
            /\ defined' = TRUE
            /\ \E header \in Headers(Received(n)) :
                  LET received == AfterRecv(session, n, header)
                  IN  IF FrameComplete(received)
                      THEN /\ session' = AfterParse
                           /\ handled' = Append(handled, CommandIn(Received(n), received.packetLength))
                      ELSE /\ session' = received
                           /\ UNCHANGED handled

\* recv fails with WSAEWOULDBLOCK, because what is in flight has not arrived:
\* its result, -1, was already added.  (The count is bounded below by -1, from
\* where the next byte is out of bounds.)
RecvWouldBlock ==
    /\ defined
    /\ SpuriousReady
    /\ link # "removed"
    /\ session.bytesRECV >= 0
    /\ session' = [session EXCEPT !.bytesRECV = @ - 1]
    /\ trouble' = TRUE
    /\ UNCHANGED <<sent, stream, link, buffer, handled, defined>>

\* recv returns 0: the client is removed.
RecvEnd ==
    /\ defined
    /\ link = "closed"
    /\ stream = << >>
    /\ link' = "removed"
    /\ UNCHANGED <<sent, stream, buffer, session, handled, defined, trouble>>

Server == (\E n \in 1 .. Len(stream) : Recv(n)) \/ RecvEnd

Next ==
    \/ \E length \in FrameLengths : Send(length)
    \/ Close
    \/ Server
    \/ RecvWouldBlock

Spec == Init /\ [][Next]_vars

\* select marks a socket as long as bytes or the end of the stream wait on
\* it, and the loop receives from every marked socket.
FairSpec == Spec /\ WF_vars(Server)
-----------------------------------------------------------------------------
TypeOK ==
    /\ sent \in Seq(FrameLengths)
    /\ stream \in Seq(Nat \X Nat)
    /\ link \in {"open", "closed", "removed"}
    /\ buffer \in [0 .. Capacity - 1 -> Nat \X Nat]
    /\ session \in [bytesRECV : -1 .. Capacity, packetLength : Nat]
    /\ handled \in Seq(Nat)
    /\ defined \in BOOLEAN
    /\ trouble \in BOOLEAN

\* The commands executed are the commands sent, whole and in order, as long
\* as no send was short and no recv found nothing: however many commands are
\* under way, and however TCP cuts and joins them, none is executed early,
\* from stale bytes of the frame before it, or from the bytes of two frames.
CommandsIntact == trouble \/ \A j \in DOMAIN handled : handled[j] = j

\* A second command was sent behind one that is not executed.
Ahead == Len(sent) > Len(handled) + 1

\* recv is told the size of the whole buffer at every offset.  For a byte to
\* be received outside the buffer it takes a second command behind one that
\* is not executed, a frame longer than the buffer, or a send or a recv in
\* trouble: the count starts again after each command, so a client that waits
\* for its commands never fills the buffer with them.
InBounds ==
    \/ defined
    \/ trouble
    \/ Ahead
    \/ sent[Len(sent)] > Capacity

\* Of the one command under way the bytes counted are the first, each in its
\* place, and the rest is what is in flight; when none is under way, nothing is
\* left of those before it.
BufferHoldsPrefix ==
    LET k == Len(handled) + 1
    IN  \/ trouble \/ ~defined \/ Ahead
        \/ k > Len(sent) /\ session = NewSession /\ stream = << >>
        \/ /\ k = Len(sent)
           /\ session.bytesRECV \in 0 .. sent[k] - 1
           /\ Holds(buffer, k, session.bytesRECV)
           /\ stream = SubSeq(FrameOf(k, sent[k]), session.bytesRECV + 1, sent[k])

\* Every command of a client that waits for the one before is executed, even
\* if the client closes right after it.
WaitingClientServed ==
    \A k \in 1 .. MaxCommands :
        (Len(sent) >= k) ~> (Len(handled) >= k \/ Ahead \/ trouble \/ ~defined)

\* What README.txt says of a command, that the server will execute it, whether
\* or not the client waits (unless a byte is written outside the buffer, where
\* the model ends).
EveryCommandHandled ==
    \A k \in 1 .. MaxCommands :
        (Len(sent) >= k) ~> (Len(handled) >= k \/ ~defined)
=============================================================================
