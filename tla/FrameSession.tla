---------------------------- MODULE FrameSession ----------------------------
(***************************************************************************)
(* The receive bookkeeping of one accepted connection: the bytesRECV and   *)
(* packetLength fields of ChatClientInfo, as the recv branch of the        *)
(* server's main loop and ParseMessageFromClient update them.  A frame     *)
(* starts with its own length; the server parses when the bytes received   *)
(* equal that length, and starts again from zero after each parse.         *)
(***************************************************************************)
EXTENDS Integers

CONSTANT
    LengthBytes  \* bytes of the length field that opens a frame

ASSUME LengthBytesAssumption == LengthBytes \in Nat \ {0}

NewSession == [bytesRECV |-> 0, packetLength |-> 0]

\* Mutant of AfterRecv: the length field is counted on top of the bytes.
AfterRecvFieldTwice(session, n, header) ==
    LET bytes == session.bytesRECV + n + LengthBytes
    IN  [bytesRECV    |-> bytes,
         packetLength |-> IF session.packetLength = 0 THEN header
                          ELSE session.packetLength]

\* The session after recv returned n; header is the number now in the
\* length field of the buffer.  The field is read once, as soon as all of
\* it has arrived.
AfterRecv(session, n, header) ==
    LET bytes == session.bytesRECV + n
    IN  [bytesRECV    |-> bytes,
         packetLength |-> IF bytes >= LengthBytes /\ session.packetLength = 0
                          THEN header
                          ELSE session.packetLength]

\* Mutant of FrameComplete: whatever has arrived is parsed.
FrameStarted(session) == session.bytesRECV >= LengthBytes

\* Mutant of FrameComplete: a frame is parsed when more than it arrived.
FrameExceeded(session) ==
    /\ session.bytesRECV >= LengthBytes
    /\ session.bytesRECV > session.packetLength

FrameComplete(session) ==
    /\ session.bytesRECV >= LengthBytes
    /\ session.bytesRECV = session.packetLength
=============================================================================
