---------------------------- MODULE WireProtocol ----------------------------
(***************************************************************************)
(* The frames on the wire: how the client makes one of a line the user     *)
(* typed (CreateCommandData and ParseAndSendMessage in client_main.cpp),   *)
(* how the server takes it apart (ParseMessageFromClient), and the same    *)
(* for the server's answers (SendMessageToClient, CheckForReceive).        *)
(*                                                                         *)
(* A line is a sequence of symbols: a space, a command word, or any other  *)
(* number, which stands for a character of a name or a text.  Every symbol *)
(* is one byte on the wire.                                                *)
(***************************************************************************)
EXTENDS WireBuffer, SequencesExt

CONSTANTS
    BufferSize,  \* the first size of a Buffer, and DEFAULT_BUFLEN
    MaxText      \* the characters the server takes of a command's last field

HEADER_SIZE == 12

\* The size of a vector is an int, and a header fits into it.
ASSUME ProtocolAssumption ==
    /\ BufferSize \in Nat
    /\ BufferSize > HEADER_SIZE
    /\ BufferSize <= 2147483647
    /\ MaxText \in Nat

Space == 32

\* The symbols that stand for "/join" and the other command words, and the
\* MessageType the client gives them; other words have NONE.
Word == [join |-> 1, leave |-> 2, send |-> 3, create |-> 4, auth |-> 5,
         help |-> 6, quit |-> 7]

NONE == 0
JOIN_A_ROOM == 1
LEAVE_THE_ROM == 2
SEND_THE_MSAGE_TO_ROOM == 3
CREATE_ACCOUNT == 4
AUTHENTICATE_ACCOUNT == 5

TypeOf(messageType) ==
    CASE messageType = << Word.join >>   -> JOIN_A_ROOM
      [] messageType = << Word.leave >>  -> LEAVE_THE_ROM
      [] messageType = << Word.send >>   -> SEND_THE_MSAGE_TO_ROOM
      [] messageType = << Word.create >> -> CREATE_ACCOUNT
      [] messageType = << Word.auth >>   -> AUTHENTICATE_ACCOUNT
      [] OTHER -> NONE

\* The types whose commands have a second field.
TwoFields == {SEND_THE_MSAGE_TO_ROOM, CREATE_ACCOUNT, AUTHENTICATE_ACCOUNT}
-----------------------------------------------------------------------------
(* From a line to a frame.                                                 *)

IsSpace(symbol) == symbol = Space

\* The line is cut at its first space and at the next; what is behind that
\* one, spaces and all, is data2.
CreateCommandData(str) ==
    LET cmdPos == SelectInSeq(str, IsSpace)
        roomPos == SelectInSubSeq(str, cmdPos + 1, Len(str), IsSpace)
    IN  CASE cmdPos = 0 ->
               [messageType |-> str, data1 |-> << >>, data2 |-> << >>]
          [] cmdPos # 0 /\ roomPos = 0 ->
               [messageType |-> SubSeq(str, 1, cmdPos - 1),
                data1 |-> SubSeq(str, cmdPos + 1, Len(str)), data2 |-> << >>]
          [] OTHER ->
               [messageType |-> SubSeq(str, 1, cmdPos - 1),
                data1 |-> SubSeq(str, cmdPos + 1, roomPos - 1),
                data2 |-> SubSeq(str, roomPos + 1, Len(str))]

\* A new Buffer after the first two fields of every frame.
Opened(packetLength, type) ==
    Write(Write(NewBuffer(BufferSize), BytesOf32(packetLength)), BytesOf32(type))

\* A string with its length in front.
WriteText(buffer, text) == Write(Write(buffer, BytesOf32(Len(text))), text)

\* Mutant of PacketLength: the length field of data2 is not counted.
PacketLengthShort(type, data1, data2) ==
    8 + Len(data1) + 4 + (IF type \in TwoFields THEN Len(data2) ELSE 0)

PacketLength(type, data1, data2) ==
    8 + Len(data1) + 4 + (IF type \in TwoFields THEN Len(data2) + 4 ELSE 0)

\* The buffer ParseAndSendMessage sends the first PacketLength bytes of.
CommandBuffer(cmd) ==
    LET type == TypeOf(cmd.messageType)
        opened == Opened(PacketLength(type, cmd.data1, cmd.data2), type)
        first == WriteText(opened, cmd.data1)
    IN  IF type \in TwoFields THEN WriteText(first, cmd.data2) ELSE first

\* The bytes handed to send.
CommandFrame(cmd) ==
    SubSeq(CommandBuffer(cmd).m_Data, 1,
           PacketLength(TypeOf(cmd.messageType), cmd.data1, cmd.data2))

\* Mutant of ReplyFrame: the length of the text is taken for the frame's.
ReplyFrameTextOnly(text) ==
    SubSeq(WriteText(Opened(Len(text), 0), text).m_Data, 1, Len(text))

\* SendMessageToClient.
ReplyFrame(text) ==
    SubSeq(WriteText(Opened(Len(text) + HEADER_SIZE, 0), text).m_Data,
           1, Len(text) + HEADER_SIZE)
-----------------------------------------------------------------------------
(* From a frame to its fields.                                             *)

Clamped(length) == IF length < MaxText THEN length ELSE MaxText

\* ParseMessageFromClient, for a buffer from which the length of the frame
\* has been read: the arguments of the handler that is called.
ParseMessageFromClient(buffer) ==
    LET type == ReadUInt32LE(buffer)
        first == Advance(buffer, 4)
        length1 == ReadUInt32LE(first)
        second == Advance(first, 4 + length1)
    IN  [type  |-> IF type \in JOIN_A_ROOM .. AUTHENTICATE_ACCOUNT THEN type ELSE NONE,
         data1 |-> IF type \in JOIN_A_ROOM .. AUTHENTICATE_ACCOUNT
                   THEN ReadString(Advance(first, 4), length1) ELSE << >>,
         data2 |-> IF type \in TwoFields
                   THEN ReadString(Advance(second, 4), Clamped(ReadUInt32LE(second)))
                   ELSE << >>]

\* The server's buffer with a whole frame in it.
ServerBuffer(frame) ==
    [NewBuffer(BufferSize) EXCEPT
        !.m_Data = Overwritten(@, 0, frame), !.m_ReadIndex = 4]
=============================================================================
