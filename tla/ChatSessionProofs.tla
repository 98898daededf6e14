------------------------- MODULE ChatSessionProofs -------------------------
(***************************************************************************)
(* For any lines, messages, addresses and buffer sizes: what both sides    *)
(* hold on their way into and out of their loops, whichever calls fail;    *)
(* that a line is understood as it was typed; that the console shows what  *)
(* the server sent, whole and in order; and that the buffers are large     *)
(* enough.  The last three rest on what is written into a Buffer being     *)
(* what is read from it.                                                   *)
(***************************************************************************)
EXTENDS ChatSession, SequenceLemmas, FiniteSetTheorems

(* Startup and shutdown.                                                   *)

InLoop == {"receive", "keyboard", "disconnect"}

\* What each side holds at each of its calls.  A client that ran out of
\* addresses comes to ioctlsocket without a socket.
ServerOwes ==
    /\ serverAt \in {"Connect", "WSAStartup", "exited"} => serverHolds = {}
    /\ serverAt = "getaddrinfo" => serverHolds = {"winsock"}
    /\ serverAt = "socket" => serverHolds = {"winsock", "addrinfo"}
    /\ serverAt = "bind" => serverHolds = {"winsock", "addrinfo", "socket"}
    /\ serverAt \in {"listen", "ioctlsocket", "loop"} => serverHolds = {"winsock", "socket"}
    /\ serverAt = "loop" => listening = "nonblocking"

ClientOwes ==
    /\ clientAt = "WSAStartup" => clientHolds = {}
    /\ clientAt = "getaddrinfo" => clientHolds = {"winsock"}
    /\ clientAt = "socket" => clientHolds = {"winsock", "addrinfo"}
    /\ clientAt = "connect" => clientHolds = {"winsock", "addrinfo", "socket"}
    /\ clientAt = "ioctlsocket" =>
          \/ clientHolds = {"winsock", "addrinfo"}
          \/ clientHolds = {"winsock", "addrinfo", "socket"} /\ link # "none"
    /\ clientAt \in InLoop => clientHolds = {"winsock", "socket"} /\ link # "none"
    /\ clientAt = "exited" => "winsock" \notin clientHolds

\* The server takes and gives back as it goes from call to call.
LEMMA ServerPays ==
    ASSUME ServerOwes, ServerStart \/ LeaveLoop
    PROVE  ServerOwes'
<1>1. CASE ConnectDatabase \/ StartWinsock \/ Resolve
  BY <1>1 DEF ServerOwes, ConnectDatabase, StartWinsock, Resolve, Succeeds, Fails
<1>2. CASE MakeSocket \/ Bind
  BY <1>2 DEF ServerOwes, MakeSocket, Bind, Succeeds, Fails
<1>3. CASE Listen \/ MakeNonBlocking
  BY <1>3 DEF ServerOwes, Listen, MakeNonBlocking, Succeeds, Fails
<1>4. CASE LeaveLoop
  BY <1>4 DEF ServerOwes, LeaveLoop
<1> QED
  BY <1>1, <1>2, <1>3, <1>4 DEF ServerStart

\* The client takes and gives back while it initializes.
LEMMA InitializePays ==
    ASSUME ClientOwes, NEW reachable \in BOOLEAN, Initialize(reachable)
    PROVE  ClientOwes'
<1>1. CASE OpenWinsock \/ FindServer
  BY <1>1 DEF ClientOwes, InLoop, OpenWinsock, FindServer, Goes, GivesUp, netVars
<1>2. CASE OpenSocket
  BY <1>2 DEF ClientOwes, InLoop, OpenSocket, Goes, GivesUp, netVars
<1>3. CASE ConnectServer(reachable)
  <2>1. CASE /\ reachable
             /\ Goes("connect", "ioctlsocket")
             /\ link' = "open"
             /\ UNCHANGED <<initVars, sent, toClient>>
    BY <2>1 DEF ClientOwes, InLoop, Goes, initVars
  <2>2. CASE /\ Goes("connect", IF addresses > 0 THEN "socket" ELSE "ioctlsocket")
             /\ clientHolds' = clientHolds \ {"socket"}
             /\ UNCHANGED <<addresses, netVars>>
    <3>1. clientAt = "connect" /\ clientAt' \in {"socket", "ioctlsocket"}
      BY <2>2 DEF Goes
    <3>2. clientHolds' = {"winsock", "addrinfo"}
      BY <2>2, <3>1 DEF ClientOwes
    <3> QED
      BY <3>1, <3>2 DEF ClientOwes, InLoop
  <2> QED
    BY <1>3, <2>1, <2>2 DEF ConnectServer
<1>4. CASE Unblock
  BY <1>4 DEF ClientOwes, InLoop, Unblock, Goes, GivesUp, netVars
<1> QED
  BY <1>1, <1>2, <1>3, <1>4 DEF Initialize

\* In its loop the client takes nothing, and it leaves it by giving back all.
LEMMA LoopPays ==
    ASSUME ClientOwes,
           (\E n \in 1 .. Len(toClient) : Receive(n)) \/ ReceiveNothing \/ ReceiveError
           \/ Keyboard \/ Disconnect
    PROVE  ClientOwes'
<1>1. CASE Disconnect
  BY <1>1 DEF ClientOwes, InLoop, Disconnect
<1>2. ASSUME clientAt \in InLoop, clientAt' \in InLoop \cup {"popped", "overrun"},
             UNCHANGED <<clientHolds, link>>
      PROVE  ClientOwes'
  BY <1>2 DEF ClientOwes, InLoop
<1>3. CASE (\E n \in 1 .. Len(toClient) : Receive(n)) \/ ReceiveNothing \/ ReceiveError
  BY <1>2, <1>3 DEF Receive, ReceiveNothing, ReceiveError, InLoop, initVars, netVars
<1>4. \A goesOn : AfterKey(goesOn) => clientAt' \in InLoop
  BY DEF AfterKey, InLoop
<1>5. CASE Keyboard
  <2>1. clientAt = "keyboard" /\ UNCHANGED <<clientHolds, link>>
    BY <1>5 DEF Keyboard, NoKey, Escape, Backspace, Enter, Type, initVars, netVars
  <2>2. clientAt' \in InLoop \cup {"popped", "overrun"}
    BY <1>4, <1>5 DEF Keyboard, NoKey, Escape, Backspace, Enter, Type
  <2> QED
    BY <1>2, <2>1, <2>2 DEF InLoop
<1> QED
  BY <1>1, <1>3, <1>5

\* A server that goes away ends connections and makes none.
LEMMA LinkLostPays ==
    ASSUME ClientOwes, LinkLost
    PROVE  ClientOwes'
<1>1. UNCHANGED <<clientAt, clientHolds>> /\ (link # "none" => link' # "none")
  BY DEF LinkLost, initVars
<1> QED
  BY <1>1 DEF ClientOwes

\* Every step of either side, of the network or of the users keeps both.
LEMMA OwesKept == ServerOwes /\ ClientOwes /\ [Next]_vars => (ServerOwes /\ ClientOwes)'
<1> SUFFICES ASSUME ServerOwes, ClientOwes, [Next]_vars
             PROVE  ServerOwes' /\ ClientOwes'
  OBVIOUS
<1>1. CASE Client
  <2>1. PICK reachable \in BOOLEAN : ClientStep(reachable)
    BY <1>1 DEF Client
  <2>2. ClientOwes'
    BY <2>1, InitializePays, LoopPays DEF ClientStep
  <2>3. ServerOwes'
    BY <1>1 DEF Client, ServerOwes, serverVars
  <2> QED
    BY <2>2, <2>3
<1>2. CASE ServerStep
  <2>1. ServerOwes'
    BY <1>2, ServerPays DEF ServerStep
  <2>2. ClientOwes'
    <3>1. CASE LinkLost
      BY <3>1, LinkLostPays
    <3>2. CASE UNCHANGED clientVars
      BY <3>2 DEF clientVars, initVars, netVars, ClientOwes
    <3> QED
      BY <1>2, <3>1, <3>2 DEF ServerStep
  <2> QED
    BY <2>1, <2>2
<1>3. CASE (\E text \in Texts : Reply(text)) \/ UNCHANGED vars
  <2>1. UNCHANGED <<clientAt, clientHolds, link, serverAt, serverHolds, listening>>
    BY <1>3 DEF Reply, vars, clientVars, initVars, netVars, serverVars
  <2> QED
    BY <2>1 DEF ServerOwes, ClientOwes
<1> QED
  BY <1>1, <1>2, <1>3 DEF Next

\* Nothing is held before the first call.
LEMMA OwesAtFirst == Init => ServerOwes /\ ClientOwes
BY DEF Init, ClientInit, ServerInit, ServerOwes, ClientOwes, InLoop

\* Whichever call of its startup fails, a server that gives up has given back
\* all it took, and a client that gives up, or leaves, has left Winsock.
THEOREM StartupIsClean == Spec => []StartupGivesBack
<1>1. ServerOwes /\ ClientOwes => StartupGivesBack
  BY DEF ServerOwes, ClientOwes, StartupGivesBack
<1> QED
  BY <1>1, OwesAtFirst, OwesKept, PTL DEF Spec

\* Neither side is in its loop without what the loop uses: the client has its
\* socket and a connection that was accepted, the server a socket that does
\* not block.
THEOREM LoopsBeginReady == Spec => []LoopsAreReady
<1>1. ServerOwes /\ ClientOwes => LoopsAreReady
  BY DEF ServerOwes, ClientOwes, LoopsAreReady, InLoop
<1> QED
  BY <1>1, OwesAtFirst, OwesKept, PTL DEF Spec
-----------------------------------------------------------------------------
(* What is written into a Buffer is what is read from it.                  *)

Buffers == [m_Data : Seq(Byte), m_ReadIndex : Nat, m_WriteIndex : Nat, inBounds : BOOLEAN]

\* The buffer with its read index where its write index is.
AtNextField(buffer, written) == [written EXCEPT !.m_ReadIndex = buffer.m_WriteIndex]

\* A vector grows by zeros and keeps its bytes.
LEMMA GrowingKeepsBytes ==
    ASSUME NEW buffer \in Buffers, NEW size \in Nat
    PROVE  /\ CheckBufferCapacity(buffer, size) \in Seq(Byte)
           /\ Len(buffer.m_Data) <= Len(CheckBufferCapacity(buffer, size))
           /\ \A k \in 1 .. Len(buffer.m_Data) :
                 CheckBufferCapacity(buffer, size)[k] = buffer.m_Data[k]
<1> DEFINE data == buffer.m_Data
<1>1. data \in Seq(Byte) /\ Len(data) \in Nat
  BY DEF Buffers
<1>2. Zeros(Len(data)) \in Seq(Byte) /\ Len(Zeros(Len(data))) = Len(data)
  BY <1>1 DEF Zeros, Byte
<1>3. /\ GrowVector(data) \in Seq(Byte)
      /\ Len(GrowVector(data)) = Len(data) + Len(data)
      /\ \A k \in 1 .. Len(data) : GrowVector(data)[k] = data[k]
  <2>1. PICK zeros \in Seq(Byte) : zeros = Zeros(Len(data))
    BY <1>2
  <2>2. GrowVector(data) = data \o zeros /\ Len(zeros) = Len(data)
    BY <1>2, <2>1 DEF GrowVector
  <2>3. /\ data \o zeros \in Seq(Byte)
        /\ Len(data \o zeros) = Len(data) + Len(zeros)
        /\ \A k \in 1 .. Len(data) + Len(zeros) :
              (data \o zeros)[k] = IF k <= Len(data) THEN data[k] ELSE zeros[k - Len(data)]
    BY <1>1, <2>1, ConcatProperties
  <2> QED
    BY <1>1, <2>2, <2>3
<1> QED
  BY <1>1, <1>3 DEF CheckBufferCapacity

\* Bytes put at an index of a vector that has room for them replace those
\* there and no others.
LEMMA OverwritingPuts ==
    ASSUME NEW data \in Seq(Byte), NEW index \in Nat, NEW bytes \in Seq(Byte),
           index + Len(bytes) <= Len(data)
    PROVE  /\ Overwritten(data, index, bytes) \in Seq(Byte)
           /\ Len(Overwritten(data, index, bytes)) = Len(data)
           /\ \A k \in 1 .. Len(bytes) : Overwritten(data, index, bytes)[index + k] = bytes[k]
           /\ \A k \in 1 .. Len(data) :
                 k <= index => Overwritten(data, index, bytes)[k] = data[k]
<1>1. /\ Len(data) \in Nat /\ DOMAIN data = 1 .. Len(data)
      /\ Len(bytes) \in Nat /\ DOMAIN bytes = 1 .. Len(bytes)
      /\ \A k \in 1 .. Len(data) : data[k] \in Byte
      /\ \A k \in 1 .. Len(bytes) : bytes[k] \in Byte
  OBVIOUS
<1>2. Overwritten(data, index, bytes) =
          [k \in 1 .. Len(data) |->
              IF k - index \in 1 .. Len(bytes) THEN bytes[k - index] ELSE data[k]]
  BY <1>1 DEF Overwritten
<1>3. ASSUME NEW k \in 1 .. Len(data)
      PROVE  Overwritten(data, index, bytes)[k] \in Byte
  BY <1>1, <1>2
<1>4. Overwritten(data, index, bytes) \in [1 .. Len(data) -> Byte]
  BY <1>2, <1>3, Zenon
<1>5. Overwritten(data, index, bytes) \in Seq(Byte)
  BY <1>1, <1>4
<1>6. Len(Overwritten(data, index, bytes)) = Len(data)
  BY <1>1, <1>4, <1>5
<1>7. ASSUME NEW k \in 1 .. Len(bytes)
      PROVE  Overwritten(data, index, bytes)[index + k] = bytes[k]
  BY <1>1, <1>2
<1>8. ASSUME NEW k \in 1 .. Len(data), k <= index
      PROVE  Overwritten(data, index, bytes)[k] = data[k]
  BY <1>1, <1>2, <1>8
<1> QED
  BY <1>5, <1>6, <1>7, <1>8

\* A write that stays in the vector puts its bytes at the write index, leaves
\* the index behind them, and touches nothing that was written before.
LEMMA WriteStores ==
    ASSUME NEW buffer \in Buffers, NEW bytes \in Seq(Byte),
           Write(buffer, bytes).inBounds
    PROVE  /\ Write(buffer, bytes) \in Buffers
           /\ buffer.m_WriteIndex + Len(bytes) <= Len(Write(buffer, bytes).m_Data)
           /\ Write(buffer, bytes).m_WriteIndex = buffer.m_WriteIndex + Len(bytes)
           /\ \A k \in 1 .. Len(bytes) :
                 Write(buffer, bytes).m_Data[buffer.m_WriteIndex + k] = bytes[k]
           /\ \A k \in 1 .. Len(buffer.m_Data) :
                 k <= buffer.m_WriteIndex =>
                     Write(buffer, bytes).m_Data[k] = buffer.m_Data[k]
<1>1. /\ Len(bytes) \in Nat
      /\ buffer.m_Data \in Seq(Byte)
      /\ buffer.m_WriteIndex \in Nat
  BY DEF Buffers
<1>2. PICK data : data = CheckBufferCapacity(buffer, Len(bytes))
  OBVIOUS
<1>3. PICK next : next = buffer.m_WriteIndex + Len(bytes)
  OBVIOUS
<1>4. /\ data \in Seq(Byte) /\ Len(buffer.m_Data) <= Len(data)
      /\ \A k \in 1 .. Len(buffer.m_Data) : data[k] = buffer.m_Data[k]
  BY <1>1, <1>2, GrowingKeepsBytes
<1>5. Write(buffer, bytes) =
          [buffer EXCEPT
              !.m_Data = Overwritten(data, buffer.m_WriteIndex, bytes),
              !.m_WriteIndex = next,
              !.inBounds = @ /\ next <= Len(data)]
  BY <1>2, <1>3, Zenon DEF Write
<1>6. /\ Write(buffer, bytes).m_Data = Overwritten(data, buffer.m_WriteIndex, bytes)
      /\ Write(buffer, bytes).m_WriteIndex = next
      /\ Write(buffer, bytes).inBounds = (buffer.inBounds /\ next <= Len(data))
  BY <1>5 DEF Buffers
<1>7. next <= Len(data)
  BY <1>6
<1>8. /\ Overwritten(data, buffer.m_WriteIndex, bytes) \in Seq(Byte)
      /\ Len(Overwritten(data, buffer.m_WriteIndex, bytes)) = Len(data)
      /\ \A k \in 1 .. Len(bytes) :
            Overwritten(data, buffer.m_WriteIndex, bytes)[buffer.m_WriteIndex + k] = bytes[k]
      /\ \A k \in 1 .. Len(data) : k <= buffer.m_WriteIndex =>
            Overwritten(data, buffer.m_WriteIndex, bytes)[k] = data[k]
  BY <1>1, <1>3, <1>4, <1>7, OverwritingPuts
<1>9. Write(buffer, bytes) \in Buffers
  <2>1. next \in Nat /\ (buffer.inBounds /\ next <= Len(data)) \in BOOLEAN
    BY <1>1, <1>3
  <2> QED
    BY <1>5, <1>8, <2>1 DEF Buffers
<1>10. ASSUME NEW k \in 1 .. Len(buffer.m_Data), k <= buffer.m_WriteIndex
       PROVE  Write(buffer, bytes).m_Data[k] = buffer.m_Data[k]
  <2>1. k \in 1 .. Len(data)
    BY <1>1, <1>4
  <2> QED
    BY <1>4, <1>6, <1>8, <1>10, <2>1
<1> QED
  BY <1>3, <1>6, <1>7, <1>8, <1>9, <1>10

\* In the vector or not, what was written is a buffer.
LEMMA WriteType ==
    ASSUME NEW buffer \in Buffers, NEW bytes \in Seq(Byte)
    PROVE  Write(buffer, bytes) \in Buffers
<1>1. /\ Len(bytes) \in Nat
      /\ \A k \in 1 .. Len(bytes) : bytes[k] \in Byte
      /\ buffer.m_WriteIndex \in Nat
  BY DEF Buffers
<1>2. PICK data : data = CheckBufferCapacity(buffer, Len(bytes))
  OBVIOUS
<1>3. PICK next : next = buffer.m_WriteIndex + Len(bytes)
  OBVIOUS
<1>4. data \in Seq(Byte) /\ Len(data) \in Nat
  BY <1>1, <1>2, GrowingKeepsBytes
<1>5. Overwritten(data, buffer.m_WriteIndex, bytes) \in Seq(Byte)
  <2>1. /\ DOMAIN data = 1 .. Len(data) /\ DOMAIN bytes = 1 .. Len(bytes)
        /\ \A k \in 1 .. Len(data) : data[k] \in Byte
    BY <1>4
  <2>2. Overwritten(data, buffer.m_WriteIndex, bytes) \in [1 .. Len(data) -> Byte]
    BY <1>1, <2>1 DEF Overwritten
  <2> QED
    BY <1>4, <2>2
<1>6. next \in Nat /\ (buffer.inBounds /\ next <= Len(data)) \in BOOLEAN
  BY <1>1, <1>3
<1>7. Write(buffer, bytes) =
          [buffer EXCEPT
              !.m_Data = Overwritten(data, buffer.m_WriteIndex, bytes),
              !.m_WriteIndex = next,
              !.inBounds = @ /\ next <= Len(data)]
  BY <1>2, <1>3, Zenon DEF Write
<1> QED
  BY <1>5, <1>6, <1>7 DEF Buffers

\* The bytes of a number of 32 bits, lowest first, add up to it.
LEMMA BytesAddUp ==
    ASSUME NEW number \in Nat, number < 4294967296
    PROVE  /\ BytesOf32(number) \in Seq(Byte)
           /\ Len(BytesOf32(number)) = 4
           /\ BytesOf32(number)[1] + 256 * BytesOf32(number)[2]
                  + 65536 * BytesOf32(number)[3]
                  + 16777216 * BytesOf32(number)[4] = number
<1>1. \A n \in Nat : n % 256 \in Byte
  BY SMT DEF Byte
<1>2. /\ number \div 256 \in Nat
      /\ number \div 65536 \in Nat
      /\ number \div 16777216 \in 0 .. 255
  BY SMT
<1>3. /\ number = (number % 256) + 256 * (number \div 256)
      /\ number \div 256 = ((number \div 256) % 256) + 256 * (number \div 65536)
      /\ number \div 65536 = ((number \div 65536) % 256) + 256 * (number \div 16777216)
  BY SMT
<1>4. (number \div 16777216) % 256 = number \div 16777216
  BY <1>2, SMT
<1>5. /\ number % 256 \in Byte
      /\ (number \div 256) % 256 \in Byte
      /\ (number \div 65536) % 256 \in Byte
      /\ (number \div 16777216) % 256 \in Byte
  BY <1>1, <1>2, SMT
<1> DEFINE bytes == << number % 256, (number \div 256) % 256,
                       (number \div 65536) % 256, (number \div 16777216) % 256 >>
<1>6. bytes \in Seq(Byte) /\ Len(bytes) = 4
  BY <1>5, SMT
<1>7. bytes[1] + 256 * bytes[2] + 65536 * bytes[3] + 16777216 * bytes[4] = number
  BY <1>2, <1>3, <1>4, <1>5, SMT DEF Byte
<1> QED
  BY <1>6, <1>7, SMT DEF BytesOf32

\* A number is read from the four bytes at the read index.
LEMMA NumberRead ==
    ASSUME NEW data \in Seq(Byte), NEW at \in Nat, at + 4 <= Len(data),
           NEW buffer, buffer.m_Data = data, buffer.m_ReadIndex = at
    PROVE  /\ ReadUInt32LE(buffer) \in Nat
           /\ ReadUInt32LE(buffer) = data[at + 1] + 256 * data[at + 2] + 65536 * data[at + 3]
                                         + 16777216 * data[at + 4]
<1>1. /\ data[at + 1] \in Byte /\ data[at + 2] \in Byte
      /\ data[at + 3] \in Byte /\ data[at + 4] \in Byte
  OBVIOUS
<1>2. at + 0 + 1 = at + 1 /\ at + 1 + 1 = at + 2 /\ at + 2 + 1 = at + 3 /\ at + 3 + 1 = at + 4
  OBVIOUS
<1>3. ReadUInt32LE(buffer) = data[at + 1] + 256 * data[at + 2] + 65536 * data[at + 3]
                                 + 16777216 * data[at + 4]
  BY <1>2, SMT DEF ReadUInt32LE
<1>4. ASSUME NEW a \in Byte, NEW b \in Byte, NEW c \in Byte, NEW d \in Byte
      PROVE  a + 256 * b + 65536 * c + 16777216 * d \in Nat
  BY SMT DEF Byte
<1>5. data[at + 1] + 256 * data[at + 2] + 65536 * data[at + 3] + 16777216 * data[at + 4] \in Nat
  <2> DEFINE a == data[at + 1]
             b == data[at + 2]
             c == data[at + 3]
             d == data[at + 4]
  <2>1. a \in Byte /\ b \in Byte /\ c \in Byte /\ d \in Byte
    BY <1>1
  <2> HIDE DEF a, b, c, d
  <2>2. a + 256 * b + 65536 * c + 16777216 * d \in Nat
    BY <1>4, <2>1
  <2> QED
    BY <2>2 DEF a, b, c, d
<1> QED
  BY <1>3, <1>5

\* A length or an id that one side writes into its Buffer, at any index and
\* after the vector grew or not, is what the other reads at that index, for
\* all numbers of 32 bits, as long as the write stays in the vector.
THEOREM NumberSurvives ==
    ASSUME NEW buffer \in Buffers, NEW number \in Nat, number < 4294967296,
           Write(buffer, BytesOf32(number)).inBounds
    PROVE  ReadUInt32LE(AtNextField(buffer, Write(buffer, BytesOf32(number)))) = number
<1> DEFINE written == Write(buffer, BytesOf32(number))
           bytes == BytesOf32(number)
           at == buffer.m_WriteIndex
<1>1. /\ written \in Buffers
      /\ \A k \in 1 .. 4 : written.m_Data[at + k] = bytes[k]
  BY WriteStores, BytesAddUp
<1>2. at \in Nat /\ at + 0 + 1 = at + 1 /\ at + 1 + 1 = at + 2
      /\ at + 2 + 1 = at + 3 /\ at + 3 + 1 = at + 4
  BY DEF Buffers
<1> HIDE DEF written, bytes
<1>3. /\ AtNextField(buffer, written).m_Data = written.m_Data
      /\ AtNextField(buffer, written).m_ReadIndex = at
  BY <1>1 DEF AtNextField, Buffers
<1>4. ReadUInt32LE(AtNextField(buffer, written)) =
          bytes[1] + 256 * bytes[2] + 65536 * bytes[3] + 16777216 * bytes[4]
  BY <1>1, <1>2, <1>3, SMT DEF ReadUInt32LE
<1> QED
  BY <1>4, BytesAddUp, SMT DEF written, bytes

\* The same for the bytes of a name, a password or a text.
THEOREM StringSurvives ==
    ASSUME NEW buffer \in Buffers, NEW bytes \in Seq(Byte),
           Write(buffer, bytes).inBounds
    PROVE  ReadString(AtNextField(buffer, Write(buffer, bytes)), Len(bytes)) = bytes
<1> DEFINE written == Write(buffer, bytes)
           at == buffer.m_WriteIndex
<1>1. /\ written \in Buffers
      /\ at + Len(bytes) <= Len(written.m_Data)
      /\ \A k \in 1 .. Len(bytes) : written.m_Data[at + k] = bytes[k]
  BY WriteStores
<1>2. at \in Nat /\ Len(bytes) \in Nat
  BY DEF Buffers
<1> HIDE DEF written
<1>3. /\ AtNextField(buffer, written).m_Data = written.m_Data
      /\ AtNextField(buffer, written).m_ReadIndex = at
  BY <1>1 DEF AtNextField, Buffers
<1>4. PICK data \in Seq(Byte) : data = written.m_Data
  BY <1>1 DEF Buffers
<1>5. /\ \A k \in at + 1 .. at + Len(bytes) : data[k] \in Byte
      /\ \A k \in 1 .. Len(bytes) : data[at + k] = bytes[k]
  BY <1>1, <1>2, <1>4
<1> DEFINE first == at + 1
           last == at + Len(bytes)
           read == SubSeq(data, first, last)
<1>6. /\ first \in Int /\ last \in Int
      /\ last - first + 1 = Len(bytes)
      /\ \A k \in 1 .. Len(bytes) : first + k - 1 = at + k
      /\ \A k \in first .. last : data[k] \in Byte
      /\ first > last => Len(bytes) = 0
  <2>1. \A k \in first .. last : data[k] \in Byte
    BY <1>5
  <2>2. Len(bytes) \in Nat /\ at \in Nat
    BY <1>2
  <2> HIDE DEF at
  <2>3. /\ first \in Int /\ last \in Int
        /\ last - first + 1 = Len(bytes)
        /\ first > last => Len(bytes) = 0
    BY ONLY <2>2 DEF first, last
  <2>4. \A k \in 1 .. Len(bytes) : first + k - 1 = at + k
    BY ONLY <2>2 DEF first
  <2> QED
    BY <2>1, <2>3, <2>4
<1> HIDE DEF first, last
<1>7. /\ read \in Seq(Byte)
      /\ Len(read) = IF first <= last THEN last - first + 1 ELSE 0
      /\ \A k \in 1 .. last - first + 1 : read[k] = data[first + k - 1]
  BY <1>6, SubSeqProperties
<1> HIDE DEF read
<1>8. Len(read) = Len(bytes) /\ \A k \in 1 .. Len(bytes) : read[k] = bytes[k]
  <2>1. Len(read) = Len(bytes)
    BY <1>6, <1>7
  <2>2. ASSUME NEW k \in 1 .. Len(bytes)
        PROVE  read[k] = bytes[k]
    <3>1. read[k] = data[first + k - 1]
      BY <1>6, <1>7
    <3>2. first + k - 1 = at + k
      BY <1>6
    <3> QED
      BY <1>5, <3>1, <3>2
  <2> QED
    BY <2>1, <2>2
<1>9. read = bytes
  BY <1>7, <1>8, SeqEqual
<1> QED
  BY <1>3, <1>4, <1>9 DEF ReadString, written, read, first, last
-----------------------------------------------------------------------------
(* What the server sent and the client took of it.                         *)

\* What every function of this kind is that exists.
Adds(bytes, messages) ==
    bytes = [k \in 0 .. Len(messages) |->
                IF k = 0 THEN 0 ELSE bytes[k - 1] + Len(messages[k]) + HEADER_SIZE]

\* The sizes of frames can be added up.
LEMMA BytesExist ==
    ASSUME NEW messages \in Seq(Seq(Byte))
    PROVE  Adds(BytesOf(messages), messages)
<1> DEFINE n == Len(messages)
           step == [x \in Nat \X (1 .. n) |-> x[1] + Len(messages[x[2]]) + HEADER_SIZE]
<1>1. n \in Nat /\ \A k \in 1 .. n : Len(messages[k]) \in Nat
  OBVIOUS
<1> HIDE DEF n
<1>2. step \in [Nat \X (1 .. n) -> Nat]
  BY <1>1 DEF HEADER_SIZE
<1> HIDE DEF step
<1>3. PICK f \in [0 .. n -> Nat] : Iterates(f, n, 0, step)
  BY <1>1, <1>2, IterationExists
<1>4. ASSUME NEW k \in 0 .. n
      PROVE  f[k] = IF k = 0 THEN 0 ELSE f[k - 1] + Len(messages[k]) + HEADER_SIZE
  <2>1. CASE k = 0
    BY <1>3, <2>1 DEF Iterates
  <2>2. CASE k # 0
    <3>1. k \in 1 .. n /\ k - 1 \in 0 .. n
      BY <1>1, <2>2
    <3>2. f[k] = step[<< f[k - 1], k >>] /\ f[k - 1] \in Nat
      BY <1>3, <3>1 DEF Iterates
    <3> QED
      BY <2>2, <3>1, <3>2 DEF step
  <2> QED
    BY <2>1, <2>2
<1>5. Adds(f, messages)
  BY <1>3, <1>4 DEF Adds, n
<1>6. BytesOf(messages) = CHOOSE bytes : Adds(bytes, messages)
  BY Zenon DEF BytesOf, Adds
<1> QED
  BY <1>5, <1>6

\* The bytes of the first messages, one message at a time.
LEMMA BytesOfMessages ==
    ASSUME NEW messages \in Seq(Seq(Byte))
    PROVE  /\ BytesOf(messages)[0] = 0
           /\ \A k \in 1 .. Len(messages) :
                 BytesOf(messages)[k] =
                     BytesOf(messages)[k - 1] + Len(messages[k]) + HEADER_SIZE
           /\ \A k \in 0 .. Len(messages) : BytesOf(messages)[k] \in Nat
<1> DEFINE bytes == BytesOf(messages)
           n == Len(messages)
<1>1. n \in Nat /\ \A k \in 1 .. n : Len(messages[k]) \in Nat
  OBVIOUS
<1>2. \A k \in 0 .. n :
          bytes[k] = IF k = 0 THEN 0 ELSE bytes[k - 1] + Len(messages[k]) + HEADER_SIZE
  BY BytesExist DEF Adds
<1> HIDE DEF bytes, n
<1>3. bytes[0] = 0
  BY <1>1, <1>2
<1>4. ASSUME NEW k \in 1 .. n
      PROVE  bytes[k] = bytes[k - 1] + Len(messages[k]) + HEADER_SIZE
  <2>1. k \in 0 .. n /\ k # 0
    BY <1>1
  <2> QED
    BY <1>2, <2>1
<1>5. ASSUME NEW k \in 1 .. n, bytes[k - 1] \in Nat
      PROVE  bytes[k] \in Nat
  <2>1. Len(messages[k]) \in Nat /\ HEADER_SIZE \in Nat
    BY <1>1 DEF HEADER_SIZE
  <2>2. bytes[k] = bytes[k - 1] + Len(messages[k]) + HEADER_SIZE
    BY <1>4
  <2> QED
    BY <1>5, <2>1, <2>2
<1>6. \A k \in 0 .. n : bytes[k] \in Nat
  <2>1. bytes[0] \in Nat
    BY <1>3
  <2> QED
    BY <1>1, <1>5, <2>1, IterationType
<1> QED
  BY <1>3, <1>4, <1>6 DEF bytes, n

\* A later message ends at least a header later.
LEMMA BytesGrow ==
    ASSUME NEW messages \in Seq(Seq(Byte)),
           NEW j \in 0 .. Len(messages), NEW k \in 0 .. Len(messages), j < k
    PROVE  BytesOf(messages)[j] + HEADER_SIZE <= BytesOf(messages)[k]
<1> DEFINE bytes == BytesOf(messages)
           n == Len(messages)
<1>1. n \in Nat /\ \A i \in 1 .. n : Len(messages[i]) \in Nat
  OBVIOUS
<1>2. /\ \A i \in 1 .. n : bytes[i] = bytes[i - 1] + Len(messages[i]) + HEADER_SIZE
      /\ \A i \in 0 .. n : bytes[i] \in Nat
  BY BytesOfMessages
<1> DEFINE Later == {i \in 0 .. n : j < i => bytes[j] + HEADER_SIZE <= bytes[i]}
<1> HIDE DEF bytes, n, Later
<1>3. 0 \in Later
  BY <1>1 DEF n, Later
<1>4. ASSUME NEW i \in 1 .. n, i - 1 \in Later
      PROVE  i \in Later
  <2>1. /\ bytes[i] = bytes[i - 1] + Len(messages[i]) + HEADER_SIZE
        /\ bytes[i] \in Nat /\ bytes[i - 1] \in Nat /\ bytes[j] \in Nat
        /\ i \in 0 .. n /\ j \in Nat
    BY <1>1, <1>2 DEF n
  <2>2. CASE j < i - 1
    <3>1. bytes[j] + HEADER_SIZE <= bytes[i - 1]
      BY <1>4, <2>2 DEF Later
    <3>2. Len(messages[i]) \in Nat /\ HEADER_SIZE \in Nat
      BY <1>1 DEF HEADER_SIZE
    <3>3. bytes[i - 1] <= bytes[i]
      <4>1. \A y, length, header \in Nat : y <= y + length + header
        OBVIOUS
      <4> QED
        BY <2>1, <3>2, <4>1
    <3>4. bytes[j] + HEADER_SIZE <= bytes[i]
      <4>1. \A x, y, z, header \in Nat : x + header <= y /\ y <= z => x + header <= z
        OBVIOUS
      <4>2. bytes[j] \in Nat /\ bytes[i - 1] \in Nat /\ bytes[i] \in Nat
        BY <2>1
      <4> QED
        BY <3>1, <3>2, <3>3, <4>1, <4>2
    <3> QED
      BY <2>1, <3>4 DEF Later
  <2>3. CASE j = i - 1
    <3>1. bytes[j] = bytes[i - 1]
      BY <2>3
    <3>2. Len(messages[i]) \in Nat /\ HEADER_SIZE \in Nat
      BY <1>1 DEF HEADER_SIZE
    <3>3. bytes[j] + HEADER_SIZE <= bytes[i]
      <4>1. PICK x, length, header \in Nat :
                x = bytes[j] /\ length = Len(messages[i]) /\ header = HEADER_SIZE
        BY <2>1, <3>2
      <4>2. bytes[i] = x + length + header
        BY <2>1, <3>1, <4>1
      <4>3. x + header <= x + length + header
        BY ONLY x \in Nat, length \in Nat, header \in Nat
      <4> QED
        BY <4>1, <4>2, <4>3
    <3> QED
      BY <2>1, <3>3 DEF Later
  <2>4. CASE ~(j < i)
    BY <2>1, <2>4 DEF Later
  <2> QED
    BY <2>1, <2>2, <2>3, <2>4
<1>5. k \in Later
  BY <1>1, <1>3, <1>4, UpTo DEF n
<1> QED
  BY <1>5 DEF Later, bytes

\* Another message leaves those before it where they are.
LEMMA BytesOfAppend ==
    ASSUME NEW messages \in Seq(Seq(Byte)), NEW text \in Seq(Byte)
    PROVE  /\ \A k \in 0 .. Len(messages) :
                 BytesOf(Append(messages, text))[k] = BytesOf(messages)[k]
           /\ BytesOf(Append(messages, text))[Len(messages) + 1] =
                  BytesOf(messages)[Len(messages)] + Len(text) + HEADER_SIZE
<1> DEFINE more == Append(messages, text)
           n == Len(messages)
<1>1. /\ n \in Nat /\ more \in Seq(Seq(Byte)) /\ Len(more) = n + 1
      /\ \A k \in 1 .. n : more[k] = messages[k]
      /\ more[n + 1] = text
  BY AppendProperties
<1> HIDE DEF more, n
<1>2. /\ BytesOf(messages)[0] = 0
      /\ \A k \in 1 .. n :
            BytesOf(messages)[k] = BytesOf(messages)[k - 1] + Len(messages[k]) + HEADER_SIZE
  BY BytesOfMessages DEF n
<1>3. /\ BytesOf(more)[0] = 0
      /\ \A k \in 1 .. n + 1 :
            BytesOf(more)[k] = BytesOf(more)[k - 1] + Len(more[k]) + HEADER_SIZE
  BY <1>1, BytesOfMessages
<1> DEFINE Same == {k \in 0 .. n : BytesOf(more)[k] = BytesOf(messages)[k]}
<1>4. 0 \in Same
  BY <1>1, <1>2, <1>3
<1>5. ASSUME NEW k \in 1 .. n, k - 1 \in Same
      PROVE  k \in Same
  <2>1. k \in 1 .. n + 1 /\ k \in 0 .. n
    BY <1>1
  <2> QED
    BY <1>1, <1>2, <1>3, <1>5, <2>1
<1> HIDE DEF Same
<1>6. \A k \in 0 .. n : k \in Same
  BY <1>1, <1>4, <1>5, UpTo
<1>7. \A k \in 0 .. n : BytesOf(more)[k] = BytesOf(messages)[k]
  BY <1>6 DEF Same
<1>8. BytesOf(more)[n + 1] = BytesOf(messages)[n] + Len(text) + HEADER_SIZE
  <2>1. n + 1 \in 1 .. n + 1 /\ n + 1 - 1 = n /\ n \in 0 .. n
    BY <1>1
  <2>2. BytesOf(more)[n + 1] =
            BytesOf(more)[n + 1 - 1] + Len(more[n + 1]) + HEADER_SIZE
    BY <1>3, <2>1
  <2>3. BytesOf(more)[n + 1 - 1] = BytesOf(messages)[n]
    BY <1>7, <2>1
  <2> QED
    BY <1>1, <2>2, <2>3
<1> QED
  BY <1>7, <1>8 DEF more, n
-----------------------------------------------------------------------------
(* A frame with one string, as an answer and most commands are.            *)

\* An empty buffer of the size both programs begin with.
LEMMA NewBufferType ==
    /\ NewBuffer(BufferSize) \in Buffers
    /\ NewBuffer(BufferSize).inBounds
    /\ NewBuffer(BufferSize).m_WriteIndex = 0
    /\ Len(NewBuffer(BufferSize).m_Data) = BufferSize
<1>1. BufferSize \in Nat
  BY ProtocolAssumption
<1>2. Zeros(BufferSize) \in Seq(Byte) /\ Len(Zeros(BufferSize)) = BufferSize
  BY <1>1 DEF Zeros, Byte
<1> QED
  BY <1>2 DEF NewBuffer, Buffers

\* Any number is written as four bytes.
LEMMA FourBytes ==
    ASSUME NEW number \in Nat
    PROVE  BytesOf32(number) \in Seq(Byte) /\ Len(BytesOf32(number)) = 4
<1>1. \A n \in Nat : n % 256 \in Byte
  BY SMT DEF Byte
<1>2. /\ number \div 256 \in Nat
      /\ number \div 65536 \in Nat
      /\ number \div 16777216 \in Nat
  BY SMT
<1>3. /\ number % 256 \in Byte
      /\ (number \div 256) % 256 \in Byte
      /\ (number \div 65536) % 256 \in Byte
      /\ (number \div 16777216) % 256 \in Byte
  BY <1>1, <1>2, SMT
<1> QED
  BY <1>3, SMT DEF BytesOf32

\* A write at an index that is, with the bytes written, within twice the
\* first size stays in the vector, and so will the next.
LEMMA WriteFits ==
    ASSUME NEW buffer \in Buffers, buffer.inBounds, BufferSize <= Len(buffer.m_Data),
           NEW bytes \in Seq(Byte),
           buffer.m_WriteIndex + Len(bytes) <= 2 * BufferSize
    PROVE  /\ Write(buffer, bytes).inBounds
           /\ BufferSize <= Len(Write(buffer, bytes).m_Data)
<1>1. /\ Len(bytes) \in Nat
      /\ buffer.m_Data \in Seq(Byte) /\ Len(buffer.m_Data) \in Nat
      /\ buffer.m_WriteIndex \in Nat
      /\ BufferSize \in Nat
  BY ProtocolAssumption DEF Buffers
<1>2. PICK data : data = CheckBufferCapacity(buffer, Len(bytes))
  OBVIOUS
<1>3. PICK next : next = buffer.m_WriteIndex + Len(bytes)
  OBVIOUS
<1>4. data \in Seq(Byte) /\ Len(buffer.m_Data) <= Len(data) /\ Len(data) \in Nat
  BY <1>1, <1>2, GrowingKeepsBytes
<1>5. Len(GrowVector(buffer.m_Data)) = Len(buffer.m_Data) + Len(buffer.m_Data)
  <2> DEFINE old == buffer.m_Data
  <2>1. old \in Seq(Byte) /\ Len(old) \in Nat
    BY <1>1
  <2> HIDE DEF old
  <2>2. Zeros(Len(old)) \in Seq(Byte) /\ Len(Zeros(Len(old))) = Len(old)
    BY <2>1 DEF Zeros, Byte
  <2>3. PICK zeros \in Seq(Byte) : zeros = Zeros(Len(old))
    BY <2>2
  <2>4. Len(old \o zeros) = Len(old) + Len(zeros)
    BY <2>1, <2>3, ConcatProperties
  <2>5. Len(GrowVector(old)) = Len(old) + Len(old)
    BY <2>2, <2>3, <2>4 DEF GrowVector
  <2> QED
    BY <2>5 DEF old
<1>6. next <= Len(data)
  <2>1. CASE next >= Len(buffer.m_Data)
    <3>1. data = GrowVector(buffer.m_Data)
      BY <1>2, <1>3, <2>1 DEF CheckBufferCapacity
    <3> QED
      BY <1>1, <1>3, <1>5, <3>1
  <2>2. CASE next < Len(buffer.m_Data)
    BY <1>1, <1>3, <1>4, <2>2
  <2> QED
    BY <1>1, <1>3, <2>1, <2>2
<1>7. Write(buffer, bytes) =
          [buffer EXCEPT
              !.m_Data = Overwritten(data, buffer.m_WriteIndex, bytes),
              !.m_WriteIndex = next,
              !.inBounds = @ /\ next <= Len(data)]
  BY <1>2, <1>3, Zenon DEF Write
<1>8. /\ Write(buffer, bytes).m_Data = Overwritten(data, buffer.m_WriteIndex, bytes)
      /\ Write(buffer, bytes).inBounds = (buffer.inBounds /\ next <= Len(data))
  BY <1>7 DEF Buffers
<1>9. Len(Overwritten(data, buffer.m_WriteIndex, bytes)) = Len(data)
  BY <1>1, <1>3, <1>4, <1>6, OverwritingPuts
<1>10. BufferSize <= Len(data)
  BY <1>1, <1>4
<1> QED
  BY <1>6, <1>8, <1>9, <1>10

\* A write that leaves the vector is not undone by a later one.
LEMMA WriteWasInBounds ==
    ASSUME NEW buffer \in Buffers, NEW bytes, Write(buffer, bytes).inBounds
    PROVE  buffer.inBounds
<1>1. PICK data : data = CheckBufferCapacity(buffer, Len(bytes))
  OBVIOUS
<1>2. PICK next : next = buffer.m_WriteIndex + Len(bytes)
  OBVIOUS
<1>3. Write(buffer, bytes) =
          [buffer EXCEPT
              !.m_Data = Overwritten(data, buffer.m_WriteIndex, bytes),
              !.m_WriteIndex = next,
              !.inBounds = @ /\ next <= Len(data)]
  BY <1>1, <1>2, Zenon DEF Write
<1> QED
  BY <1>3 DEF Buffers

\* The bytes lie in the buffer behind an index, as a field that was written.
Holds(buffer, at, bytes) ==
    /\ at + Len(bytes) <= buffer.m_WriteIndex
    /\ \A k \in 1 .. Len(bytes) : buffer.m_Data[at + k] = bytes[k]

\* Nothing was written outside the vector.
Fits(buffer) == buffer \in Buffers /\ buffer.m_WriteIndex <= Len(buffer.m_Data)

\* A write adds a field and keeps those before it.
LEMMA WriteAddsField ==
    ASSUME NEW buffer, Fits(buffer), NEW bytes \in Seq(Byte),
           Write(buffer, bytes).inBounds
    PROVE  /\ Fits(Write(buffer, bytes))
           /\ Write(buffer, bytes).m_WriteIndex = buffer.m_WriteIndex + Len(bytes)
           /\ Holds(Write(buffer, bytes), buffer.m_WriteIndex, bytes)
           /\ \A at \in Nat, field \in Seq(Byte) :
                 Holds(buffer, at, field) => Holds(Write(buffer, bytes), at, field)
<1> DEFINE written == Write(buffer, bytes)
<1>1. /\ Len(bytes) \in Nat
      /\ buffer \in Buffers
      /\ buffer.m_WriteIndex \in Nat
      /\ Len(buffer.m_Data) \in Nat
      /\ buffer.m_WriteIndex <= Len(buffer.m_Data)
  BY DEF Fits, Buffers
<1>2. /\ written \in Buffers
      /\ buffer.m_WriteIndex + Len(bytes) <= Len(written.m_Data)
      /\ written.m_WriteIndex = buffer.m_WriteIndex + Len(bytes)
      /\ \A k \in 1 .. Len(bytes) : written.m_Data[buffer.m_WriteIndex + k] = bytes[k]
      /\ \A k \in 1 .. Len(buffer.m_Data) :
            k <= buffer.m_WriteIndex => written.m_Data[k] = buffer.m_Data[k]
  BY <1>1, WriteStores
<1> HIDE DEF written
<1>3. Fits(written) /\ Holds(written, buffer.m_WriteIndex, bytes)
  BY <1>1, <1>2 DEF Fits, Holds
<1>4. ASSUME NEW at \in Nat, NEW field \in Seq(Byte), Holds(buffer, at, field)
      PROVE  Holds(written, at, field)
  <2>1. Len(field) \in Nat /\ at + Len(field) <= buffer.m_WriteIndex
    BY <1>4 DEF Holds
  <2>2. ASSUME NEW k \in 1 .. Len(field)
        PROVE  written.m_Data[at + k] = field[k]
    <3>1. buffer.m_Data[at + k] = field[k]
      BY <1>4 DEF Holds
    <3>2. at + k \in 1 .. Len(buffer.m_Data) /\ at + k <= buffer.m_WriteIndex
      BY <1>1, <2>1
    <3> QED
      BY <1>2, <3>1, <3>2
  <2> QED
    BY <1>1, <1>2, <2>1, <2>2 DEF Holds
<1> QED
  BY <1>2, <1>3, <1>4 DEF written

\* A string is added with its length in front of it.
LEMMA TextAddsFields ==
    ASSUME NEW buffer, Fits(buffer), NEW text \in Seq(Byte),
           WriteText(buffer, text).inBounds
    PROVE  /\ buffer.inBounds
           /\ Fits(WriteText(buffer, text))
           /\ WriteText(buffer, text).m_WriteIndex = buffer.m_WriteIndex + 4 + Len(text)
           /\ Holds(WriteText(buffer, text), buffer.m_WriteIndex, BytesOf32(Len(text)))
           /\ Holds(WriteText(buffer, text), buffer.m_WriteIndex + 4, text)
           /\ \A at \in Nat, field \in Seq(Byte) :
                 Holds(buffer, at, field) => Holds(WriteText(buffer, text), at, field)
<1> DEFINE length == BytesOf32(Len(text))
           first == Write(buffer, length)
           written == Write(first, text)
<1>1. length \in Seq(Byte) /\ Len(length) = 4 /\ Len(text) \in Nat
  BY FourBytes
<1>2. buffer \in Buffers /\ buffer.m_WriteIndex \in Nat
  BY DEF Fits, Buffers
<1>3. written.inBounds
  BY DEF WriteText
<1> HIDE DEF length
<1>4. first \in Buffers
  BY <1>1, <1>2, WriteType
<1> HIDE DEF first
<1>5. first.inBounds
  BY <1>3, <1>4, WriteWasInBounds
<1>6. buffer.inBounds
  BY <1>2, <1>5, WriteWasInBounds DEF first
<1>7. /\ Fits(first)
      /\ first.m_WriteIndex = buffer.m_WriteIndex + Len(length)
      /\ Holds(first, buffer.m_WriteIndex, length)
      /\ \A at \in Nat, field \in Seq(Byte) : Holds(buffer, at, field) => Holds(first, at, field)
  BY <1>1, <1>5, WriteAddsField DEF first
<1>8. /\ Fits(written)
      /\ written.m_WriteIndex = first.m_WriteIndex + Len(text)
      /\ Holds(written, first.m_WriteIndex, text)
      /\ \A at \in Nat, field \in Seq(Byte) : Holds(first, at, field) => Holds(written, at, field)
  BY <1>3, <1>7, WriteAddsField
<1>9. written = WriteText(buffer, text)
  BY DEF WriteText, first, length
<1> HIDE DEF written
<1>10. first.m_WriteIndex = buffer.m_WriteIndex + 4
  BY <1>1, <1>7
<1>11. Holds(written, buffer.m_WriteIndex, length)
  BY <1>1, <1>2, <1>7, <1>8
<1> QED
  BY <1>6, <1>7, <1>8, <1>9, <1>10, <1>11 DEF length

\* The first two fields of a frame.
LEMMA OpenedFields ==
    ASSUME NEW packetLength \in Nat, NEW type \in Nat
    PROVE  /\ Fits(Opened(packetLength, type))
           /\ Opened(packetLength, type).inBounds
           /\ Opened(packetLength, type).m_WriteIndex = 8
           /\ BufferSize <= Len(Opened(packetLength, type).m_Data)
           /\ Holds(Opened(packetLength, type), 0, BytesOf32(packetLength))
           /\ Holds(Opened(packetLength, type), 4, BytesOf32(type))
<1> DEFINE new == NewBuffer(BufferSize)
           length == BytesOf32(packetLength)
           id == BytesOf32(type)
           first == Write(new, length)
           opened == Write(first, id)
<1>1. /\ length \in Seq(Byte) /\ Len(length) = 4
      /\ id \in Seq(Byte) /\ Len(id) = 4
  BY FourBytes
<1>2. BufferSize \in Nat /\ BufferSize > 12
  BY ProtocolAssumption DEF HEADER_SIZE
<1>3. /\ new \in Buffers /\ new.inBounds /\ new.m_WriteIndex = 0
      /\ Len(new.m_Data) = BufferSize
  BY NewBufferType
<1> HIDE DEF new, length, id
<1>4. Fits(new)
  BY <1>2, <1>3 DEF Fits
<1>5. first.inBounds /\ BufferSize <= Len(first.m_Data)
  <2>1. BufferSize <= Len(new.m_Data) /\ new.m_WriteIndex + Len(length) <= 2 * BufferSize
    BY <1>1, <1>2, <1>3
  <2> QED
    BY <1>1, <1>3, <2>1, WriteFits
<1>6. /\ Fits(first)
      /\ first.m_WriteIndex = new.m_WriteIndex + Len(length)
      /\ Holds(first, new.m_WriteIndex, length)
  BY <1>1, <1>4, <1>5, WriteAddsField
<1>7. first.m_WriteIndex = 4 /\ Holds(first, 0, length)
  BY <1>1, <1>3, <1>6
<1> HIDE DEF first
<1>8. opened.inBounds /\ BufferSize <= Len(opened.m_Data)
  <2>1. first \in Buffers /\ first.m_WriteIndex + Len(id) <= 2 * BufferSize
    BY <1>1, <1>2, <1>6, <1>7 DEF Fits
  <2> QED
    BY <1>1, <1>5, <2>1, WriteFits
<1>9. /\ Fits(opened)
      /\ opened.m_WriteIndex = first.m_WriteIndex + Len(id)
      /\ Holds(opened, first.m_WriteIndex, id)
      /\ \A at \in Nat, field \in Seq(Byte) : Holds(first, at, field) => Holds(opened, at, field)
  BY <1>1, <1>6, <1>8, WriteAddsField
<1> HIDE DEF opened
<1>10. /\ opened.m_WriteIndex = 8
       /\ Holds(opened, 4, id)
       /\ Holds(opened, 0, length)
  BY <1>1, <1>7, <1>9
<1>11. opened = Opened(packetLength, type)
  BY DEF Opened, opened, first, new, length, id
<1> QED
  BY <1>8, <1>9, <1>10, <1>11 DEF length, id

\* A string whose end is within twice the first size fits.
LEMMA TextFits ==
    ASSUME NEW buffer \in Buffers, buffer.inBounds, BufferSize <= Len(buffer.m_Data),
           NEW text \in Seq(Byte),
           buffer.m_WriteIndex + 4 + Len(text) <= 2 * BufferSize
    PROVE  /\ WriteText(buffer, text).inBounds
           /\ BufferSize <= Len(WriteText(buffer, text).m_Data)
<1> DEFINE length == BytesOf32(Len(text))
           first == Write(buffer, length)
<1>1. length \in Seq(Byte) /\ Len(length) = 4 /\ Len(text) \in Nat
  BY FourBytes
<1>2. buffer.m_WriteIndex \in Nat /\ BufferSize \in Nat
  BY ProtocolAssumption DEF Buffers
<1> HIDE DEF length
<1>3. first.inBounds /\ BufferSize <= Len(first.m_Data)
  <2>1. buffer.m_WriteIndex + Len(length) <= 2 * BufferSize
    BY <1>1, <1>2
  <2> QED
    BY <1>1, <2>1, WriteFits
<1>4. first \in Buffers /\ first.m_WriteIndex = buffer.m_WriteIndex + Len(length)
  BY <1>1, <1>3, WriteStores
<1> HIDE DEF first
<1>5. first.m_WriteIndex + Len(text) <= 2 * BufferSize
  BY <1>1, <1>2, <1>4
<1>6. Write(first, text).inBounds /\ BufferSize <= Len(Write(first, text).m_Data)
  BY <1>3, <1>4, <1>5, WriteFits
<1> QED
  BY <1>6 DEF WriteText, first, length

\* The first bytes of a buffer with a field in them hold the field.
LEMMA FrameHolds ==
    ASSUME NEW buffer, Fits(buffer), NEW size \in Nat, size <= buffer.m_WriteIndex
    PROVE  /\ SubSeq(buffer.m_Data, 1, size) \in Seq(Byte)
           /\ Len(SubSeq(buffer.m_Data, 1, size)) = size
           /\ \A k \in 1 .. size : SubSeq(buffer.m_Data, 1, size)[k] = buffer.m_Data[k]
<1>1. /\ buffer.m_Data \in Seq(Byte)
      /\ buffer.m_WriteIndex \in Nat
      /\ buffer.m_WriteIndex <= Len(buffer.m_Data)
  BY DEF Fits, Buffers
<1>2. PICK data \in Seq(Byte) : data = buffer.m_Data
  BY <1>1
<1>3. /\ Len(data) \in Nat /\ size <= Len(data)
      /\ \A k \in 1 .. size : data[k] \in Byte
  BY <1>1, <1>2
<1>4. /\ SubSeq(data, 1, size) \in Seq(Byte)
      /\ Len(SubSeq(data, 1, size)) = size
      /\ \A k \in 1 .. size : SubSeq(data, 1, size)[k] = data[k]
  BY <1>3, SubSeqProperties
<1> QED
  BY <1>2, <1>4

\* What is on the wire of an answer: behind two fields nobody reads, the
\* length of the text and the text.
LEMMA ReplyFrameBytes ==
    ASSUME NEW text \in Seq(Byte), Len(text) + HEADER_SIZE <= 2 * BufferSize
    PROVE  /\ ReplyFrame(text) \in Seq(Byte)
           /\ Len(ReplyFrame(text)) = Len(text) + HEADER_SIZE
           /\ \A k \in 1 .. 4 : ReplyFrame(text)[8 + k] = BytesOf32(Len(text))[k]
           /\ \A k \in 1 .. Len(text) : ReplyFrame(text)[HEADER_SIZE + k] = text[k]
<1> DEFINE size == Len(text) + HEADER_SIZE
           opened == Opened(size, 0)
           buffer == WriteText(opened, text)
           length == BytesOf32(Len(text))
<1>1. /\ Len(text) \in Nat /\ size \in Nat /\ size = Len(text) + 12 /\ size <= 2 * BufferSize
      /\ BufferSize \in Nat /\ HEADER_SIZE = 12
  BY ProtocolAssumption DEF HEADER_SIZE
<1>2. length \in Seq(Byte) /\ Len(length) = 4
  BY FourBytes
<1> HIDE DEF size, length
<1>3. /\ Fits(opened) /\ opened.inBounds /\ opened.m_WriteIndex = 8
      /\ BufferSize <= Len(opened.m_Data)
  BY <1>1, OpenedFields
<1> HIDE DEF opened
<1>4. buffer.inBounds
  <2>1. opened \in Buffers /\ opened.m_WriteIndex + 4 + Len(text) <= 2 * BufferSize
    BY <1>1, <1>3 DEF Fits
  <2> QED
    BY <1>3, <2>1, TextFits
<1>5. /\ Fits(buffer)
      /\ buffer.m_WriteIndex = opened.m_WriteIndex + 4 + Len(text)
      /\ Holds(buffer, opened.m_WriteIndex, length)
      /\ Holds(buffer, opened.m_WriteIndex + 4, text)
  BY <1>3, <1>4, TextAddsFields DEF length
<1>6. /\ size <= buffer.m_WriteIndex
      /\ Holds(buffer, 8, length)
      /\ Holds(buffer, 12, text)
  BY <1>1, <1>3, <1>5
<1>7. ReplyFrame(text) = SubSeq(buffer.m_Data, 1, size)
  BY DEF ReplyFrame, buffer, opened, size
<1> HIDE DEF buffer
<1>8. /\ ReplyFrame(text) \in Seq(Byte)
      /\ Len(ReplyFrame(text)) = size
      /\ \A k \in 1 .. size : ReplyFrame(text)[k] = buffer.m_Data[k]
  BY <1>1, <1>5, <1>6, <1>7, FrameHolds
<1>9. ASSUME NEW k \in 1 .. 4
      PROVE  ReplyFrame(text)[8 + k] = length[k]
  <2>1. 8 + k \in 1 .. size /\ k \in 1 .. Len(length)
    BY <1>1, <1>2
  <2> QED
    BY <1>6, <1>8, <2>1 DEF Holds
<1>10. ASSUME NEW k \in 1 .. Len(text)
       PROVE  ReplyFrame(text)[HEADER_SIZE + k] = text[k]
  <2>1. 12 + k \in 1 .. size /\ HEADER_SIZE + k = 12 + k
    BY <1>1
  <2> QED
    BY <1>6, <1>8, <2>1 DEF Holds
<1> QED
  BY <1>8, <1>9, <1>10 DEF size, length

-----------------------------------------------------------------------------
(* What a line is made into.                                               *)

\* A part of a sequence has its elements and no more.
LEMMA PartOf ==
    ASSUME NEW S, NEW s \in Seq(S), NEW m \in Nat, NEW n \in Nat, n <= Len(s)
    PROVE  /\ SubSeq(s, m + 1, n) \in Seq(S)
           /\ Len(SubSeq(s, m + 1, n)) = IF m < n THEN n - m ELSE 0
           /\ \A k \in 1 .. n - m : SubSeq(s, m + 1, n)[k] = s[m + k]
<1>1. /\ Len(s) \in Nat /\ m + 1 \in Int /\ n \in Int
      /\ \A k \in m + 1 .. n : s[k] \in S
      /\ n - (m + 1) + 1 = n - m
      /\ m + 1 <= n <=> m < n
  OBVIOUS
<1> DEFINE first == m + 1
<1>2. /\ first \in Int /\ \A k \in first .. n : s[k] \in S
      /\ n - first + 1 = n - m /\ (first <= n <=> m < n)
  BY <1>1
<1> HIDE DEF first
<1>3. /\ SubSeq(s, first, n) \in Seq(S)
      /\ Len(SubSeq(s, first, n)) = IF first <= n THEN n - first + 1 ELSE 0
      /\ \A k \in 1 .. n - first + 1 : SubSeq(s, first, n)[k] = s[first + k - 1]
  BY <1>1, <1>2, SubSeqProperties
<1>4. \A k \in 1 .. n - m : first + k - 1 = m + k /\ k \in 1 .. n - first + 1
  BY DEF first
<1> QED
  BY <1>1, <1>3, <1>4 DEF first

\* The position of a space, if there is one behind the first m symbols.
LEMMA SpaceFound ==
    ASSUME NEW str \in Seq(Byte), NEW m \in 0 .. Len(str)
    PROVE  LET pos == SelectInSubSeq(str, m + 1, Len(str), IsSpace)
           IN  /\ pos = 0 => \A k \in m + 1 .. Len(str) : str[k] # Space
               /\ pos # 0 => /\ pos \in m + 1 .. Len(str)
                             /\ str[pos] = Space
                             /\ \A k \in m + 1 .. pos - 1 : str[k] # Space
<1> DEFINE I == {i \in m + 1 .. Len(str) : IsSpace(str[i])}
           pos == SelectInSubSeq(str, m + 1, Len(str), IsSpace)
<1>1. Len(str) \in Nat /\ m \in Nat
  OBVIOUS
<1>2. pos = IF I # {} THEN Min(I) ELSE 0
  BY DEF SelectInSubSeq
<1>3. \A i : i \in I <=> i \in m + 1 .. Len(str) /\ str[i] = Space
  BY DEF IsSpace
<1> HIDE DEF I, pos
<1>4. CASE I = {}
  BY <1>2, <1>3, <1>4 DEF pos
<1>5. CASE I # {}
  <2>1. I \subseteq Nat
    BY <1>1, <1>3
  <2>2. pos \in I /\ \A i \in I : pos <= i
    BY <1>2, <1>5, <2>1, MinOfNaturals
  <2>3. pos \in m + 1 .. Len(str) /\ str[pos] = Space
    BY <1>3, <2>2
  <2>4. ASSUME NEW k \in m + 1 .. pos - 1
        PROVE  str[k] # Space
    <3>1. k \in m + 1 .. Len(str) /\ ~(pos <= k)
      BY <1>1, <2>3
    <3> QED
      BY <1>3, <2>2, <3>1
  <2>5. pos # 0
    BY <1>1, <2>3
  <2> QED
    BY <2>3, <2>4, <2>5 DEF pos
<1> QED
  BY <1>4, <1>5

\* The first space of the line.
LEMMA FirstSpaceFound ==
    ASSUME NEW str \in Seq(Byte)
    PROVE  LET pos == SelectInSeq(str, IsSpace)
           IN  /\ pos = 0 => \A k \in 1 .. Len(str) : str[k] # Space
               /\ pos # 0 => /\ pos \in 1 .. Len(str)
                             /\ str[pos] = Space
                             /\ \A k \in 1 .. pos - 1 : str[k] # Space
<1>1. Len(str) \in Nat /\ 0 + 1 = 1 /\ 0 \in 0 .. Len(str)
  OBVIOUS
<1>2. SelectInSeq(str, IsSpace) = SelectInSubSeq(str, 0 + 1, Len(str), IsSpace)
  BY <1>1 DEF SelectInSeq, SelectInSubSeq
<1> QED
  BY <1>1, <1>2, SpaceFound

\* The fields of a command are parts of the line, and not longer together.
LEMMA CommandParts ==
    ASSUME NEW str \in Seq(Byte)
    PROVE  /\ CreateCommandData(str).messageType \in Seq(Byte)
           /\ CreateCommandData(str).data1 \in Seq(Byte)
           /\ CreateCommandData(str).data2 \in Seq(Byte)
           /\ Len(CreateCommandData(str).data1) + Len(CreateCommandData(str).data2) <= Len(str)
<1> DEFINE cmdPos == SelectInSeq(str, IsSpace)
           roomPos == SelectInSubSeq(str, cmdPos + 1, Len(str), IsSpace)
           cmd == CreateCommandData(str)
<1>1. Len(str) \in Nat
  OBVIOUS
<1>2. CASE cmdPos = 0
  <2>1. cmd = [messageType |-> str, data1 |-> << >>, data2 |-> << >>]
    BY <1>2 DEF CreateCommandData
  <2> HIDE DEF cmd
  <2> QED
    BY <1>1, <2>1 DEF cmd
<1>3. CASE cmdPos # 0
  <2>1. cmdPos \in 1 .. Len(str)
    BY <1>3, FirstSpaceFound
  <2> HIDE DEF cmdPos
  <2>2. cmdPos \in 0 .. Len(str) /\ cmdPos \in Nat /\ cmdPos - 1 \in Nat /\ cmdPos - 1 <= Len(str)
    BY <1>1, <2>1
  <2>3. SubSeq(str, 1, cmdPos - 1) \in Seq(Byte)
    <3>1. SubSeq(str, 0 + 1, cmdPos - 1) \in Seq(Byte)
      BY <2>2, PartOf
    <3> QED
      BY <3>1
  <2>4. CASE roomPos = 0
    <3>1. cmd = [messageType |-> SubSeq(str, 1, cmdPos - 1),
                 data1 |-> SubSeq(str, cmdPos + 1, Len(str)), data2 |-> << >>]
      BY <1>3, <2>4 DEF CreateCommandData, cmdPos
    <3> HIDE DEF cmd
    <3>2. /\ SubSeq(str, cmdPos + 1, Len(str)) \in Seq(Byte)
          /\ Len(SubSeq(str, cmdPos + 1, Len(str))) <= Len(str)
      BY <1>1, <2>2, PartOf
    <3> QED
      BY <2>3, <3>1, <3>2 DEF cmd
  <2>5. CASE roomPos # 0
    <3>1. roomPos \in cmdPos + 1 .. Len(str)
      BY <2>2, <2>5, SpaceFound
    <3>2. cmd = [messageType |-> SubSeq(str, 1, cmdPos - 1),
                 data1 |-> SubSeq(str, cmdPos + 1, roomPos - 1),
                 data2 |-> SubSeq(str, roomPos + 1, Len(str))]
      BY <1>3, <2>5 DEF CreateCommandData, cmdPos
    <3> HIDE DEF cmd, roomPos
    <3>3. roomPos \in Nat /\ roomPos - 1 \in Nat /\ roomPos - 1 <= Len(str)
      BY <1>1, <2>2, <3>1
    <3>4. /\ SubSeq(str, cmdPos + 1, roomPos - 1) \in Seq(Byte)
          /\ Len(SubSeq(str, cmdPos + 1, roomPos - 1)) =
                 IF cmdPos < roomPos - 1 THEN roomPos - 1 - cmdPos ELSE 0
      BY <2>2, <3>3, PartOf
    <3>5. /\ SubSeq(str, roomPos + 1, Len(str)) \in Seq(Byte)
          /\ Len(SubSeq(str, roomPos + 1, Len(str))) =
                 IF roomPos < Len(str) THEN Len(str) - roomPos ELSE 0
      BY <1>1, <3>3, PartOf
    <3>6. Len(cmd.data1) + Len(cmd.data2) <= Len(str)
      <4>1. /\ Len(cmd.data1) = IF cmdPos < roomPos - 1 THEN roomPos - 1 - cmdPos ELSE 0
            /\ Len(cmd.data2) = IF roomPos < Len(str) THEN Len(str) - roomPos ELSE 0
        BY <3>2, <3>4, <3>5
      <4>2. Len(cmd.data1) <= roomPos /\ Len(cmd.data2) <= Len(str) - roomPos
        BY <1>1, <2>2, <3>1, <3>3, <4>1
      <4>3. Len(cmd.data1) \in Nat /\ Len(cmd.data2) \in Nat
        BY <3>2, <3>4, <3>5
      <4>4. \A a, b, r, l \in Nat : a <= r /\ b <= l - r => a + b <= l
        OBVIOUS
      <4> QED
        BY <1>1, <3>3, <4>2, <4>3, <4>4
    <3> QED
      BY <2>3, <3>2, <3>4, <3>5, <3>6 DEF cmd
  <2> QED
    BY <2>4, <2>5
<1> QED
  BY <1>2, <1>3

\* Words that are no commands have the type NONE.
LEMMA TypeOfType == \A word : TypeOf(word) \in 0 .. 5
BY DEF TypeOf, NONE, JOIN_A_ROOM, LEAVE_THE_ROM, SEND_THE_MSAGE_TO_ROOM, CREATE_ACCOUNT,
       AUTHENTICATE_ACCOUNT

\* The buffer of a command has its fields one behind the other, and the frame
\* is what was written.
LEMMA CommandFrameType ==
    ASSUME NEW type \in 0 .. 5, NEW data1 \in Seq(Byte), NEW data2 \in Seq(Byte),
           NEW cmd, TypeOf(cmd.messageType) = type, cmd.data1 = data1, cmd.data2 = data2,
           CommandBuffer(cmd).inBounds
    PROVE  /\ Fits(CommandBuffer(cmd))
           /\ CommandBuffer(cmd).m_WriteIndex = PacketLength(type, data1, data2)
           /\ Holds(CommandBuffer(cmd), 0, BytesOf32(PacketLength(type, data1, data2)))
           /\ Holds(CommandBuffer(cmd), 4, BytesOf32(type))
           /\ Holds(CommandBuffer(cmd), 8, BytesOf32(Len(data1)))
           /\ Holds(CommandBuffer(cmd), 12, data1)
           /\ type \in TwoFields =>
                 /\ Holds(CommandBuffer(cmd), 12 + Len(data1), BytesOf32(Len(data2)))
                 /\ Holds(CommandBuffer(cmd), 16 + Len(data1), data2)
           /\ CommandFrame(cmd) \in Seq(Byte)
           /\ Len(CommandFrame(cmd)) = PacketLength(type, data1, data2)
           /\ \A k \in 1 .. PacketLength(type, data1, data2) :
                 CommandFrame(cmd)[k] = CommandBuffer(cmd).m_Data[k]
<1> DEFINE size == PacketLength(type, data1, data2)
           opened == Opened(size, type)
           first == WriteText(opened, data1)
           buffer == CommandBuffer(cmd)
<1>1. /\ Len(data1) \in Nat /\ Len(data2) \in Nat
      /\ size = IF type \in TwoFields THEN 16 + Len(data1) + Len(data2) ELSE 12 + Len(data1)
      /\ size \in Nat
  <2>1. Len(data1) \in Nat /\ Len(data2) \in Nat
    OBVIOUS
  <2>2. \A a, b \in Nat : /\ 8 + a + 4 + (b + 4) = 16 + a + b /\ 16 + a + b \in Nat
                         /\ 8 + a + 4 + 0 = 12 + a /\ 12 + a \in Nat
    OBVIOUS
  <2>3. CASE type \in TwoFields
    BY <2>1, <2>2, <2>3 DEF PacketLength
  <2>4. CASE type \notin TwoFields
    BY <2>1, <2>2, <2>4 DEF PacketLength
  <2> QED
    BY <2>1, <2>3, <2>4
<1>2. type \in Nat
  OBVIOUS
<1>3. buffer = IF type \in TwoFields THEN WriteText(first, data2) ELSE first
  BY DEF CommandBuffer
<1>4. CommandFrame(cmd) = SubSeq(buffer.m_Data, 1, size)
  BY DEF CommandFrame
<1>5. \A number \in Nat : BytesOf32(number) \in Seq(Byte)
  BY FourBytes
<1> HIDE DEF size, buffer
<1>6. /\ Fits(opened) /\ opened.m_WriteIndex = 8
      /\ Holds(opened, 0, BytesOf32(size)) /\ Holds(opened, 4, BytesOf32(type))
  BY <1>1, <1>2, OpenedFields
<1> HIDE DEF opened
<1>7. ASSUME first.inBounds
      PROVE  /\ Fits(first) /\ first.m_WriteIndex = 12 + Len(data1)
             /\ Holds(first, 0, BytesOf32(size)) /\ Holds(first, 4, BytesOf32(type))
             /\ Holds(first, 8, BytesOf32(Len(data1))) /\ Holds(first, 12, data1)
  <2>1. /\ Fits(first) /\ first.m_WriteIndex = opened.m_WriteIndex + 4 + Len(data1)
        /\ Holds(first, opened.m_WriteIndex, BytesOf32(Len(data1)))
        /\ Holds(first, opened.m_WriteIndex + 4, data1)
        /\ \A at \in Nat, field \in Seq(Byte) : Holds(opened, at, field) => Holds(first, at, field)
    BY <1>6, <1>7, TextAddsFields
  <2> HIDE DEF first
  <2>2. BytesOf32(size) \in Seq(Byte) /\ BytesOf32(type) \in Seq(Byte)
    BY <1>1, <1>2, <1>5
  <2>3. Holds(first, 0, BytesOf32(size)) /\ Holds(first, 4, BytesOf32(type))
    BY <1>6, <2>1, <2>2
  <2>4. opened.m_WriteIndex + 4 = 12 /\ opened.m_WriteIndex + 4 + Len(data1) = 12 + Len(data1)
    BY <1>1, <1>6
  <2> QED
    BY <1>6, <2>1, <2>3, <2>4
<1> HIDE DEF first
<1>8. /\ Fits(buffer) /\ buffer.m_WriteIndex = size
      /\ Holds(buffer, 0, BytesOf32(size)) /\ Holds(buffer, 4, BytesOf32(type))
      /\ Holds(buffer, 8, BytesOf32(Len(data1))) /\ Holds(buffer, 12, data1)
      /\ type \in TwoFields =>
            /\ Holds(buffer, 12 + Len(data1), BytesOf32(Len(data2)))
            /\ Holds(buffer, 16 + Len(data1), data2)
  <2>1. CASE type \notin TwoFields
    <3>1. buffer = first /\ first.inBounds
      BY <1>3, <2>1 DEF buffer
    <3> QED
      BY <1>1, <1>7, <2>1, <3>1
  <2>2. CASE type \in TwoFields
    <3>1. buffer = WriteText(first, data2) /\ buffer.inBounds
      BY <1>3, <2>2 DEF buffer
    <3>2. first.inBounds
      <4>1. first \in Buffers
        <5>1. opened \in Buffers /\ BytesOf32(Len(data1)) \in Seq(Byte)
          BY <1>1, <1>5, <1>6 DEF Fits
        <5> QED
          BY <5>1, WriteType DEF first, WriteText
      <4>2. BytesOf32(Len(data2)) \in Seq(Byte)
        BY <1>1, <1>5
      <4>3. Write(first, BytesOf32(Len(data2))) \in Buffers
        BY <4>1, <4>2, WriteType
      <4>4. Write(Write(first, BytesOf32(Len(data2))), data2).inBounds
        BY <3>1 DEF WriteText
      <4>5. Write(first, BytesOf32(Len(data2))).inBounds
        BY <4>3, <4>4, WriteWasInBounds
      <4> QED
        BY <4>1, <4>5, WriteWasInBounds
    <3>3. /\ Fits(buffer)
          /\ buffer.m_WriteIndex = first.m_WriteIndex + 4 + Len(data2)
          /\ Holds(buffer, first.m_WriteIndex, BytesOf32(Len(data2)))
          /\ Holds(buffer, first.m_WriteIndex + 4, data2)
          /\ \A at \in Nat, field \in Seq(Byte) :
                Holds(first, at, field) => Holds(buffer, at, field)
      BY <1>7, <3>1, <3>2, TextAddsFields
    <3>4. /\ first.m_WriteIndex = 12 + Len(data1)
          /\ first.m_WriteIndex + 4 = 16 + Len(data1)
          /\ size = first.m_WriteIndex + 4 + Len(data2)
      BY <1>1, <1>7, <2>2, <3>2
    <3>5. /\ BytesOf32(size) \in Seq(Byte) /\ BytesOf32(type) \in Seq(Byte)
          /\ BytesOf32(Len(data1)) \in Seq(Byte)
      BY <1>1, <1>2, <1>5
    <3>6. /\ Holds(buffer, 0, BytesOf32(size)) /\ Holds(buffer, 4, BytesOf32(type))
          /\ Holds(buffer, 8, BytesOf32(Len(data1))) /\ Holds(buffer, 12, data1)
      BY <1>7, <3>2, <3>3, <3>5
    <3> QED
      BY <3>3, <3>4, <3>6
  <2> QED
    BY <2>1, <2>2
<1>9. /\ CommandFrame(cmd) \in Seq(Byte)
      /\ Len(CommandFrame(cmd)) = size
      /\ \A k \in 1 .. size : CommandFrame(cmd)[k] = buffer.m_Data[k]
  BY <1>1, <1>4, <1>8, FrameHolds
<1> QED
  BY <1>8, <1>9 DEF size, buffer

-----------------------------------------------------------------------------
(* Types.                                                                  *)

\* What the types rest on: the client asks for a socket only while it has an
\* address to try, and its buffer is one.
Typed ==
    /\ TypeOK
    /\ g_Buffer \in Buffers
    /\ message \in Seq(Byte)
    /\ clientAt = "socket" => addresses > 0

\* The calls and the holdings of the server.
ServerTyped ==
    /\ serverAt \in {"Connect", "WSAStartup", "getaddrinfo", "socket", "bind", "listen",
                     "ioctlsocket", "loop", "returned", "exited"}
    /\ serverHolds \subseteq {"winsock", "addrinfo", "socket"}
    /\ listening \in {"no", "blocking", "nonblocking"}

\* The messages are sequences of bytes.
LEMMA TextsType == Texts \subseteq Seq(Byte)
BY ClientAssumption

\* The types at the beginning.
LEMMA TypedAtFirst == Init => Typed
<1> SUFFICES ASSUME Init
             PROVE  Typed
  OBVIOUS
<1>1. g_Buffer = NewBuffer(BufferSize)
  BY DEF Init, ClientInit
<1>2. /\ g_Buffer \in Buffers
      /\ Len(g_Buffer.m_Data) = BufferSize
      /\ g_Buffer.m_ReadIndex = 0 /\ g_Buffer.m_WriteIndex = 0
  BY <1>1, NewBufferType DEF NewBuffer
<1>3. g_Buffer.m_Data \in Seq(Byte)
  BY <1>2 DEF Buffers
<1>4. 0 \in 0 .. MaxAddresses
  BY ClientAssumption
<1>5. /\ sent \in Seq(Texts) /\ toClient \in Seq(Byte) /\ printed \in Seq(Seq(Byte))
      /\ message = << >> /\ message \in Seq(Byte) /\ outbox \in Seq(Byte)
  BY DEF Init, ClientInit
<1> QED
  BY <1>2, <1>3, <1>4, <1>5 DEF Init, ClientInit, ServerInit, Typed, TypeOK

\* What is left of the types when neither the server nor the loop moves.
LEMMA TypedOutsideLoop ==
    ASSUME Typed, UNCHANGED loopVars, UNCHANGED serverVars, UNCHANGED <<sent, toClient>>,
           clientAt' \in {"WSAStartup", "getaddrinfo", "socket", "connect", "ioctlsocket",
                          "receive", "keyboard", "disconnect", "exited", "popped", "overrun"},
           clientHolds' \subseteq {"winsock", "addrinfo", "socket"},
           addresses' \in 0 .. MaxAddresses,
           link' \in {"none", "open", "closed", "reset", "left"},
           clientAt' = "socket" => addresses' > 0
    PROVE  Typed'
BY DEF Typed, TypeOK, loopVars, serverVars

\* Initialize keeps the types.
LEMMA InitializeTyped ==
    ASSUME Typed, NEW reachable \in BOOLEAN, Initialize(reachable), UNCHANGED serverVars
    PROVE  Typed'
<1>1. /\ clientHolds \subseteq {"winsock", "addrinfo", "socket"}
      /\ addresses \in 0 .. MaxAddresses
      /\ link \in {"none", "open", "closed", "reset", "left"}
      /\ clientAt = "socket" => addresses > 0
      /\ MaxAddresses \in Nat
  BY ClientAssumption DEF Typed, TypeOK
<1>2. CASE OpenWinsock \/ FindServer
  <2>1. /\ UNCHANGED loopVars /\ UNCHANGED <<sent, toClient, link>>
        /\ clientAt' \in {"getaddrinfo", "socket", "exited"}
        /\ clientHolds' \subseteq {"winsock", "addrinfo", "socket"}
        /\ addresses' \in 0 .. MaxAddresses
        /\ clientAt' = "socket" => addresses' > 0
    <3>1. CASE OpenWinsock
      BY <1>1, <3>1 DEF OpenWinsock, Goes, GivesUp, netVars
    <3>2. CASE FindServer
      <4>1. \A a \in 1 .. MaxAddresses : a \in 0 .. MaxAddresses /\ a > 0
        BY <1>1
      <4>2. CASE addresses' \in 1 .. MaxAddresses
        BY <1>1, <3>2, <4>1, <4>2 DEF FindServer, Goes, GivesUp, netVars
      <4>3. CASE GivesUp("getaddrinfo")
        BY <1>1, <4>3 DEF Goes, GivesUp, netVars
      <4> QED
        BY <3>2, <4>2, <4>3 DEF FindServer
    <3> QED
      BY <1>2, <3>1, <3>2
  <2> QED
    BY <1>1, <2>1, TypedOutsideLoop
<1>3. CASE OpenSocket
  <2>1. clientAt = "socket"
    BY <1>3 DEF OpenSocket, Goes, GivesUp
  <2>2. addresses - 1 \in 0 .. MaxAddresses
    BY <1>1, <2>1
  <2>3. /\ UNCHANGED loopVars /\ UNCHANGED <<sent, toClient, link>>
        /\ clientAt' \in {"connect", "exited"}
        /\ clientHolds' \subseteq {"winsock", "addrinfo", "socket"}
        /\ addresses' \in 0 .. MaxAddresses
    BY <1>1, <1>3, <2>2 DEF OpenSocket, Goes, GivesUp, netVars
  <2> QED
    BY <1>1, <2>3, TypedOutsideLoop
<1>4. CASE ConnectServer(reachable)
  <2>1. /\ UNCHANGED loopVars /\ UNCHANGED <<sent, toClient, addresses>>
        /\ clientAt' \in {"socket", "ioctlsocket"}
        /\ clientHolds' \subseteq clientHolds
        /\ link' \in {link, "open"}
        /\ clientAt' = "socket" => addresses > 0
    BY <1>4 DEF ConnectServer, Goes, netVars, initVars
  <2>2. /\ clientHolds' \subseteq {"winsock", "addrinfo", "socket"}
        /\ link' \in {"none", "open", "closed", "reset", "left"}
        /\ addresses' \in 0 .. MaxAddresses
    BY <1>1, <2>1
  <2> QED
    BY <1>1, <2>1, <2>2, TypedOutsideLoop
<1>5. CASE Unblock
  <2>1. /\ UNCHANGED loopVars /\ UNCHANGED <<sent, toClient, link>>
        /\ clientAt' \in {"receive", "exited"}
        /\ clientHolds' \subseteq clientHolds
        /\ addresses' \in {addresses, 0}
    BY <1>5 DEF Unblock, Goes, GivesUp, netVars
  <2>2. /\ clientHolds' \subseteq {"winsock", "addrinfo", "socket"}
        /\ addresses' \in 0 .. MaxAddresses
    BY <1>1, <2>1
  <2> QED
    BY <1>1, <2>1, <2>2, TypedOutsideLoop
<1> QED
  BY <1>2, <1>3, <1>4, <1>5 DEF Initialize

\* Leaving, and a server that goes away, keep the types.
LEMMA LeavingTyped ==
    ASSUME Typed
    PROVE  /\ Disconnect /\ UNCHANGED serverVars => Typed'
           /\ LinkLost /\ ServerTyped' => Typed'
<1>1. ASSUME Disconnect, UNCHANGED serverVars
      PROVE  Typed'
  <2>1. << >> \in Seq(Byte)
    OBVIOUS
  <2>2. clientHolds' \subseteq {"winsock", "addrinfo", "socket"}
    BY <1>1 DEF Typed, TypeOK, Disconnect
  <2>3. UNCHANGED <<addresses, sent, toClient, arrival, g_Buffer, printed, message, g_IsRunning>>
        /\ clientAt' = "exited" /\ link' = "left" /\ outbox' = << >>
    BY <1>1 DEF Disconnect
  <2> QED
    BY <1>1, <2>1, <2>2, <2>3 DEF Typed, TypeOK, serverVars
<1>2. ASSUME LinkLost, ServerTyped'
      PROVE  Typed'
  <2>1. UNCHANGED <<clientAt, initVars, sent, toClient, loopVars>>
    BY <1>2 DEF LinkLost
  <2>2. link' \in {"none", "open", "closed", "reset", "left"}
    BY <1>2 DEF LinkLost, Typed, TypeOK
  <2> QED
    BY <1>2, <2>1, <2>2 DEF Typed, TypeOK, ServerTyped, initVars, loopVars
<1> QED
  BY <1>1, <1>2

\* The server's calls keep its types.
LEMMA ServerStaysTyped ==
    ASSUME ServerTyped, ServerStart \/ LeaveLoop
    PROVE  ServerTyped'
<1>1. CASE ConnectDatabase \/ StartWinsock \/ Resolve
  BY <1>1 DEF ServerTyped, ConnectDatabase, StartWinsock, Resolve, Succeeds, Fails
<1>2. CASE MakeSocket \/ Bind
  BY <1>2 DEF ServerTyped, MakeSocket, Bind, Succeeds, Fails
<1>3. CASE Listen \/ MakeNonBlocking
  BY <1>3 DEF ServerTyped, Listen, MakeNonBlocking, Succeeds, Fails
<1>4. CASE LeaveLoop
  BY <1>4 DEF ServerTyped, LeaveLoop
<1> QED
  BY <1>1, <1>2, <1>3, <1>4 DEF ServerStart

\* What the client does in its loop moves neither the server nor the holdings.
LEMMA TypedInLoop ==
    ASSUME Typed, UNCHANGED serverVars, UNCHANGED <<initVars, link, sent>>,
           clientAt' \in {"receive", "keyboard", "disconnect", "popped", "overrun"},
           toClient' \in Seq(Byte),
           arrival' \in {"separate", "joined", "cut"},
           g_Buffer' \in Buffers, Len(g_Buffer'.m_Data) = BufferSize,
           g_Buffer'.m_ReadIndex = 0, g_Buffer'.m_WriteIndex = 0,
           printed' \in Seq(Seq(Byte)),
           message' \in Seq(Byte),
           message' = << >> \/ \E line \in Lines : IsPrefix(message', line),
           outbox' \in Seq(Byte),
           g_IsRunning' \in BOOLEAN
    PROVE  Typed'
<1>1. g_Buffer'.m_Data \in Seq(Byte)
  BY DEF Buffers
<1> QED
  BY <1>1 DEF Typed, TypeOK, initVars, serverVars

\* The bytes taken from what is in flight.
LEMMA TakenBytes ==
    ASSUME NEW bytes \in Seq(Byte), NEW n \in 1 .. Len(bytes)
    PROVE  /\ SubSeq(bytes, 1, n) \in Seq(Byte)
           /\ Len(SubSeq(bytes, 1, n)) = n
           /\ \A k \in 1 .. n : SubSeq(bytes, 1, n)[k] = bytes[k]
           /\ SubSeq(bytes, n + 1, Len(bytes)) \in Seq(Byte)
           /\ Len(SubSeq(bytes, n + 1, Len(bytes))) = Len(bytes) - n
           /\ \A k \in 1 .. Len(bytes) - n : SubSeq(bytes, n + 1, Len(bytes))[k] = bytes[n + k]
<1>1. Len(bytes) \in Nat /\ n \in Nat /\ n <= Len(bytes) /\ 0 < n
  OBVIOUS
<1>2. /\ SubSeq(bytes, 0 + 1, n) \in Seq(Byte)
      /\ Len(SubSeq(bytes, 0 + 1, n)) = IF 0 < n THEN n - 0 ELSE 0
      /\ \A k \in 1 .. n - 0 : SubSeq(bytes, 0 + 1, n)[k] = bytes[0 + k]
  BY <1>1, PartOf
<1>3. /\ SubSeq(bytes, n + 1, Len(bytes)) \in Seq(Byte)
      /\ Len(SubSeq(bytes, n + 1, Len(bytes))) = IF n < Len(bytes) THEN Len(bytes) - n ELSE 0
      /\ \A k \in 1 .. Len(bytes) - n : SubSeq(bytes, n + 1, Len(bytes))[k] = bytes[n + k]
  BY <1>1, PartOf
<1>4. 0 + 1 = 1 /\ n - 0 = n /\ \A k \in 1 .. n : 0 + k = k
  BY <1>1
<1> QED
  BY <1>1, <1>2, <1>3, <1>4

\* What was received is at the start of the buffer.
LEMMA FilledHolds ==
    ASSUME Typed, NEW n \in 1 .. Len(toClient), n <= BufferSize
    PROVE  /\ Filled(n) \in Buffers
           /\ Len(Filled(n).m_Data) = BufferSize
           /\ Filled(n).m_ReadIndex = 0 /\ Filled(n).m_WriteIndex = 0
           /\ \A k \in 1 .. n : Filled(n).m_Data[k] = toClient[k]
<1> DEFINE taken == SubSeq(toClient, 1, n)
           data == Overwritten(g_Buffer.m_Data, 0, taken)
<1>1. /\ toClient \in Seq(Byte)
      /\ g_Buffer \in Buffers
      /\ g_Buffer.m_Data \in Seq(Byte) /\ Len(g_Buffer.m_Data) = BufferSize
      /\ g_Buffer.m_ReadIndex = 0 /\ g_Buffer.m_WriteIndex = 0
  BY DEF Typed, TypeOK
<1>2. n \in Nat /\ BufferSize \in Nat
  BY <1>1, ProtocolAssumption
<1>3. /\ taken \in Seq(Byte) /\ Len(taken) = n
      /\ \A k \in 1 .. n : taken[k] = toClient[k]
  BY <1>1, TakenBytes
<1> HIDE DEF taken
<1>4. /\ data \in Seq(Byte) /\ Len(data) = BufferSize
      /\ \A k \in 1 .. n : data[0 + k] = taken[k]
  <2>1. 0 + Len(taken) <= Len(g_Buffer.m_Data) /\ 0 \in Nat
    BY <1>1, <1>2, <1>3
  <2> QED
    BY <1>1, <1>3, <2>1, OverwritingPuts
<1>5. Filled(n) = [g_Buffer EXCEPT !.m_Data = data]
  BY DEF Filled, taken
<1> HIDE DEF data
<1>6. ASSUME NEW k \in 1 .. n
      PROVE  data[k] = toClient[k]
  <2>1. 0 + k = k
    BY <1>2
  <2> QED
    BY <1>3, <1>4, <2>1
<1> QED
  BY <1>1, <1>4, <1>5, <1>6 DEF Buffers

\* Receiving a message keeps the types, whatever the bytes are taken for.
LEMMA ReceiveTyped ==
    ASSUME Typed, NEW n \in 1 .. Len(toClient), Receive(n), UNCHANGED serverVars
    PROVE  Typed'
<1> DEFINE filled == Filled(n)
           text == Advance(filled, HEADER_SIZE)
           length == ReadUInt32LE(Advance(filled, 8))
<1>1. n <= BufferSize /\ toClient' = SubSeq(toClient, n + 1, Len(toClient))
  BY DEF Receive
<1>2. /\ filled \in Buffers /\ Len(filled.m_Data) = BufferSize
      /\ filled.m_ReadIndex = 0 /\ filled.m_WriteIndex = 0
  BY <1>1, FilledHolds
<1>3. /\ toClient \in Seq(Byte) /\ arrival \in {"separate", "joined", "cut"}
      /\ printed \in Seq(Seq(Byte)) /\ message \in Seq(Byte) /\ g_IsRunning \in BOOLEAN
      /\ message = << >> \/ \E line \in Lines : IsPrefix(message, line)
      /\ g_Buffer \in Buffers /\ Len(g_Buffer.m_Data) = BufferSize
      /\ g_Buffer.m_ReadIndex = 0 /\ g_Buffer.m_WriteIndex = 0
  BY DEF Typed, TypeOK
<1>4. toClient' \in Seq(Byte)
  BY <1>1, <1>3, TakenBytes
<1>5. arrival' \in {"separate", "joined", "cut"}
  BY DEF Receive, ArrivalOf
<1>6. /\ outbox' = << >> /\ outbox' \in Seq(Byte)
      /\ UNCHANGED <<initVars, link, sent, message, g_IsRunning>>
  BY DEF Receive
<1>7. \/ /\ clientAt' = "keyboard" /\ Readable(text, length)
         /\ printed' = Append(printed, ReadString(text, length))
         /\ g_Buffer' = Reset(AfterText(text, length))
      \/ clientAt' = "overrun" /\ UNCHANGED <<printed, g_Buffer>>
  <2>1. CASE Readable(text, length)
    BY <2>1 DEF Receive
  <2>2. CASE ~Readable(text, length)
    BY <2>2 DEF Receive
  <2> QED
    BY <2>1, <2>2
<1> HIDE DEF filled
<1>8. PICK data \in Seq(Byte) : data = filled.m_Data /\ Len(data) = BufferSize
  BY <1>2 DEF Buffers
<1>9. text.m_Data = data /\ text.m_ReadIndex = 12 /\ text \in Buffers
  BY <1>2, <1>8 DEF Advance, HEADER_SIZE, Buffers
<1>10. length \in Nat
  <2>1. /\ Advance(filled, 8).m_Data = data /\ Advance(filled, 8).m_ReadIndex = 8
        /\ 8 + 4 <= Len(data)
    BY <1>2, <1>8, ProtocolAssumption DEF Advance, Buffers, HEADER_SIZE
  <2> QED
    BY <1>8, <2>1, NumberRead
<1> HIDE DEF length, text
<1>11. CASE clientAt' = "keyboard" /\ Readable(text, length)
            /\ printed' = Append(printed, ReadString(text, length))
            /\ g_Buffer' = Reset(AfterText(text, length))
  <2>1. ReadString(text, length) \in Seq(Byte)
    <3>1. 12 + length <= Len(data) /\ 12 + length \in Nat
      BY <1>8, <1>9, <1>10, <1>11 DEF Readable
    <3>2. SubSeq(data, 12 + 1, 12 + length) \in Seq(Byte)
      BY <3>1, PartOf
    <3> QED
      BY <1>9, <3>2 DEF ReadString
  <2>2. printed' \in Seq(Seq(Byte))
    BY <1>3, <1>11, <2>1
  <2>3. /\ g_Buffer' \in Buffers /\ g_Buffer'.m_Data = data
        /\ g_Buffer'.m_ReadIndex = 0 /\ g_Buffer'.m_WriteIndex = 0
    BY <1>9, <1>10, <1>11 DEF Reset, AfterText, Advance, Buffers
  <2> QED
    BY <1>3, <1>4, <1>5, <1>6, <1>8, <1>11, <2>2, <2>3, TypedInLoop
<1>12. CASE clientAt' = "overrun" /\ UNCHANGED <<printed, g_Buffer>>
  BY <1>3, <1>4, <1>5, <1>6, <1>12, TypedInLoop
<1> QED
  BY <1>7, <1>11, <1>12

\* What is left of a line without its last symbol is the beginning of a line.
LEMMA FrontOfLine ==
    ASSUME NEW word \in Seq(Byte), word # << >>, NEW line \in Lines, IsPrefix(word, line)
    PROVE  Front(word) \in Seq(Byte) /\ IsPrefix(Front(word), line)
<1> DEFINE n == Len(word) - 1
<1>1. line \in Seq(Byte)
  BY ClientAssumption
<1>2. /\ n \in Nat /\ Len(word) = n + 1 /\ Len(line) \in Nat
      /\ n + 1 <= Len(line)
      /\ SubSeq(word, 1, n + 1) = SubSeq(line, 1, n + 1)
  BY DEF IsPrefix
<1> HIDE DEF n
<1>3. /\ SubSeq(word, 0 + 1, n) \in Seq(Byte)
      /\ Len(SubSeq(word, 0 + 1, n)) = IF 0 < n THEN n - 0 ELSE 0
      /\ \A k \in 1 .. n - 0 : SubSeq(word, 0 + 1, n)[k] = word[0 + k]
  BY <1>2, PartOf
<1>4. /\ SubSeq(line, 0 + 1, n) \in Seq(Byte)
      /\ Len(SubSeq(line, 0 + 1, n)) = IF 0 < n THEN n - 0 ELSE 0
      /\ \A k \in 1 .. n - 0 : SubSeq(line, 0 + 1, n)[k] = line[0 + k]
  BY <1>1, <1>2, PartOf
<1>5. /\ \A k \in 1 .. n + 1 : SubSeq(word, 1, n + 1)[k] = word[k]
      /\ \A k \in 1 .. n + 1 : SubSeq(line, 1, n + 1)[k] = line[k]
  <2>1. /\ \A k \in 1 .. n + 1 - 0 : SubSeq(word, 0 + 1, n + 1)[k] = word[0 + k]
        /\ \A k \in 1 .. n + 1 - 0 : SubSeq(line, 0 + 1, n + 1)[k] = line[0 + k]
    BY <1>1, <1>2, PartOf
  <2>2. 0 + 1 = 1 /\ n + 1 - 0 = n + 1 /\ \A k \in 1 .. n + 1 : 0 + k = k
    BY <1>2
  <2> QED
    BY <2>1, <2>2
<1>6. 0 + 1 = 1 /\ n - 0 = n /\ \A k \in 1 .. n : 0 + k = k /\ k \in 1 .. n + 1
  BY <1>2
<1> DEFINE front == SubSeq(word, 1, n)
           begin == SubSeq(line, 1, n)
<1>7. /\ front \in Seq(Byte) /\ begin \in Seq(Byte) /\ Len(front) = n /\ Len(begin) = n
      /\ \A k \in 1 .. n : front[k] = begin[k]
  <2>1. ASSUME NEW k \in 1 .. n
        PROVE  front[k] = begin[k]
    <3>1. front[k] = word[k] /\ begin[k] = line[k]
      BY <1>3, <1>4, <1>6
    <3>2. word[k] = line[k]
      BY <1>2, <1>5, <1>6
    <3> QED
      BY <3>1, <3>2
  <2> QED
    BY <1>2, <1>3, <1>4, <1>6, <2>1
<1>8. Front(word) = front
  BY <1>2 DEF Front
<1> HIDE DEF front, begin
<1>9. front = begin
  BY <1>7, SeqEqual
<1>10. SubSeq(front, 1, n) = front
  BY <1>2, <1>7
<1>11. IsPrefix(front, line)
  BY <1>2, <1>7, <1>9, <1>10 DEF IsPrefix, begin
<1> QED
  BY <1>7, <1>8, <1>11

\* The frame of the line that was typed is a sequence of bytes.
LEMMA TypedCommand ==
    ASSUME message \in Seq(Byte), CommandBuffer(CreateCommandData(message)).inBounds
    PROVE  CommandFrame(CreateCommandData(message)) \in Seq(Byte)
<1> DEFINE cmd == CreateCommandData(message)
<1>1. cmd.data1 \in Seq(Byte) /\ cmd.data2 \in Seq(Byte)
  BY CommandParts
<1> HIDE DEF cmd
<1>2. CommandBuffer(cmd).inBounds
  BY DEF cmd
<1>3. CommandFrame(cmd) \in Seq(Byte)
  BY <1>1, <1>2, TypeOfType, CommandFrameType
<1> QED
  BY <1>3 DEF cmd

\* A key, or none, keeps the types.
LEMMA KeyboardTyped ==
    ASSUME Typed, Keyboard, UNCHANGED serverVars
    PROVE  Typed'
<1>1. /\ toClient \in Seq(Byte) /\ arrival \in {"separate", "joined", "cut"}
      /\ printed \in Seq(Seq(Byte)) /\ message \in Seq(Byte) /\ g_IsRunning \in BOOLEAN
      /\ message = << >> \/ \E line \in Lines : IsPrefix(message, line)
      /\ g_Buffer \in Buffers /\ Len(g_Buffer.m_Data) = BufferSize
      /\ g_Buffer.m_ReadIndex = 0 /\ g_Buffer.m_WriteIndex = 0
  BY DEF Typed, TypeOK
<1>2. UNCHANGED <<initVars, link, sent, toClient, arrival, g_Buffer, printed>>
  BY DEF Keyboard, NoKey, Escape, Backspace, Enter, Type, netVars
<1>3. << >> \in Seq(Byte)
  OBVIOUS
<1>4. \A goesOn : AfterKey(goesOn) => clientAt' \in {"receive", "disconnect"}
  BY DEF AfterKey
<1>5. ASSUME clientAt' \in {"receive", "disconnect", "popped", "overrun"},
             message' \in Seq(Byte),
             message' = << >> \/ \E line \in Lines : IsPrefix(message', line),
             outbox' \in Seq(Byte),
             g_IsRunning' \in BOOLEAN
      PROVE  Typed'
  BY <1>1, <1>2, <1>5, TypedInLoop
<1>6. CASE NoKey \/ Escape
  BY <1>1, <1>3, <1>4, <1>5, <1>6 DEF NoKey, Escape
<1>7. CASE Backspace
  <2>1. /\ clientAt' \in {"receive", "disconnect", "popped"}
        /\ \/ message' = message
           \/ message # << >> /\ message' = Front(message)
        /\ outbox' = << >> /\ g_IsRunning' = g_IsRunning
    <3>1. CASE message = << >>
      BY <1>7, <3>1 DEF Backspace
    <3>2. CASE message # << >>
      BY <1>4, <1>7, <3>2 DEF Backspace
    <3> QED
      BY <3>1, <3>2
  <2>2. ASSUME message # << >>
        PROVE  Front(message) \in Seq(Byte) /\ \E line \in Lines : IsPrefix(Front(message), line)
    BY <1>1, <2>2, FrontOfLine
  <2> QED
    BY <1>1, <1>3, <1>5, <2>1, <2>2
<1>8. CASE Enter
  <2>1. clientAt' \in {"receive", "disconnect", "overrun"}
    BY <1>4, <1>8 DEF Enter
  <2>2. message' = << >> /\ g_IsRunning' \in BOOLEAN
    BY <1>1, <1>8 DEF Enter
  <2>3. outbox' \in Seq(Byte)
    <3>1. \/ outbox' = << >>
          \/ /\ CommandBuffer(CreateCommandData(message)).inBounds
             /\ outbox' = CommandFrame(CreateCommandData(message))
      BY <1>8 DEF Enter
    <3> QED
      BY <1>1, <1>3, <3>1, TypedCommand
  <2> QED
    BY <1>3, <1>5, <2>1, <2>2, <2>3
<1>9. ASSUME NEW typed \in Lines, NEW symbol \in Range(typed), Type(symbol)
      PROVE  Typed'
  <2>1. symbol \in Byte
    BY ClientAssumption DEF Range
  <2>2. /\ message' = Append(message, symbol)
        /\ \E line \in Lines : IsPrefix(message', line)
        /\ clientAt' \in {"receive", "disconnect"}
        /\ outbox' = << >> /\ g_IsRunning' = g_IsRunning
    BY <1>4, <1>9 DEF Type
  <2>3. message' \in Seq(Byte)
    BY <1>1, <2>1, <2>2
  <2> QED
    BY <1>1, <1>3, <1>5, <2>2, <2>3
<1> QED
  BY <1>6, <1>7, <1>8, <1>9 DEF Keyboard

\* A recv that finds nothing, or fails, keeps the types.
LEMMA NothingTyped ==
    ASSUME Typed, ReceiveNothing \/ ReceiveError, UNCHANGED serverVars
    PROVE  Typed'
<1>1. /\ clientAt' = "keyboard" /\ outbox' = << >> /\ outbox' \in Seq(Byte)
      /\ UNCHANGED <<initVars, link, sent, toClient, arrival, g_Buffer, printed, message>>
      /\ g_IsRunning' \in {g_IsRunning, FALSE}
  <2>1. << >> \in Seq(Byte)
    OBVIOUS
  <2>2. CASE ReceiveNothing
    BY <2>1, <2>2 DEF ReceiveNothing, netVars
  <2>3. CASE ReceiveError
    BY <2>1, <2>3 DEF ReceiveError, netVars
  <2> QED
    BY <2>2, <2>3
<1>2. /\ toClient \in Seq(Byte) /\ arrival \in {"separate", "joined", "cut"}
      /\ printed \in Seq(Seq(Byte)) /\ message \in Seq(Byte) /\ g_IsRunning \in BOOLEAN
      /\ message = << >> \/ \E line \in Lines : IsPrefix(message, line)
      /\ g_Buffer \in Buffers /\ Len(g_Buffer.m_Data) = BufferSize
      /\ g_Buffer.m_ReadIndex = 0 /\ g_Buffer.m_WriteIndex = 0
  BY DEF Typed, TypeOK
<1> QED
  BY <1>1, <1>2, TypedInLoop

\* An answer keeps the types.
LEMMA ReplyTyped ==
    ASSUME Typed, NEW text \in Texts, Reply(text)
    PROVE  Typed'
<1>1. sent \in Seq(Texts) /\ toClient \in Seq(Byte)
  BY DEF Typed, TypeOK
<1>2. text \in Seq(Byte) /\ Len(text) + HEADER_SIZE <= 2 * BufferSize
  BY ClientAssumption
<1>3. ReplyFrame(text) \in Seq(Byte)
  BY <1>2, ReplyFrameBytes
<1>4. sent' = Append(sent, text) /\ toClient' = toClient \o ReplyFrame(text)
  BY DEF Reply
<1>5. sent' \in Seq(Texts) /\ toClient' \in Seq(Byte)
  BY <1>1, <1>3, <1>4
<1>6. UNCHANGED <<clientAt, initVars, link, loopVars, serverVars>>
  BY DEF Reply
<1> QED
  BY <1>5, <1>6 DEF Typed, TypeOK, initVars, loopVars, serverVars

\* Every step keeps the types.
LEMMA TypedKept == Typed /\ [Next]_vars => Typed'
<1> SUFFICES ASSUME Typed, [Next]_vars
             PROVE  Typed'
  OBVIOUS
<1>1. CASE Client
  <2>1. PICK reachable \in BOOLEAN : ClientStep(reachable)
    BY <1>1 DEF Client
  <2>2. UNCHANGED serverVars
    BY <1>1 DEF Client
  <2> QED
    BY <2>1, <2>2, InitializeTyped, ReceiveTyped, NothingTyped, KeyboardTyped, LeavingTyped
       DEF ClientStep
<1>2. CASE ServerStep
  <2>1. ServerTyped'
    <3>1. ServerTyped
      BY DEF Typed, TypeOK, ServerTyped
    <3> QED
      BY <1>2, <3>1, ServerStaysTyped DEF ServerStep
  <2>2. CASE LinkLost
    BY <2>1, <2>2, LeavingTyped
  <2>3. CASE UNCHANGED clientVars
    BY <2>1, <2>3 DEF Typed, TypeOK, ServerTyped, clientVars, initVars, netVars, loopVars
  <2> QED
    BY <1>2, <2>2, <2>3 DEF ServerStep
<1>3. CASE \E text \in Texts : Reply(text)
  BY <1>3, ReplyTyped
<1>4. CASE UNCHANGED vars
  BY <1>4 DEF Typed, TypeOK, vars, clientVars, serverVars, initVars, netVars, loopVars
<1> QED
  BY <1>1, <1>2, <1>3, <1>4 DEF Next

\* Whatever is typed, sent and cut, every variable of the client, the
\* connection and the server's startup keeps its type; the buffer the client
\* receives into has its size and begins at its start.
THEOREM TypeCorrect == Spec => []TypeOK
<1>1. Typed => TypeOK
  BY DEF Typed
<1> QED
  BY <1>1, TypedAtFirst, TypedKept, PTL DEF Spec

-----------------------------------------------------------------------------
(* What is printed.                                                        *)

\* Of every frame that was sent, the bytes not taken yet are in flight, each
\* where it belongs.
InFlight ==
    /\ Len(toClient) <= BytesSent(Len(sent))
    /\ \A j \in DOMAIN sent : \A i \in 1 .. Len(sent[j]) + HEADER_SIZE :
          BytesSent(j - 1) + i > BytesTaken =>
              toClient[BytesSent(j - 1) + i - BytesTaken] = ReplyFrame(sent[j])[i]

\* As long as no message was cut, a number of messages was taken whole, and
\* what is printed is among them.
WholeTaken == arrival # "cut" => \E k \in 0 .. Len(sent) : BytesTaken = BytesSent(k)

\* The printed messages have these numbers.
Numbers(number) ==
    /\ number \in [DOMAIN printed -> DOMAIN sent]
    /\ \A k \in DOMAIN printed : printed[k] = sent[number[k]]
    /\ \A k \in DOMAIN printed : BytesSent(number[k]) <= BytesTaken
    /\ \A j, k \in DOMAIN printed : j < k => number[j] < number[k]

PrintedBefore == arrival # "cut" => \E number : Numbers(number)

\* As long as every recv found one message, all that was taken is printed.
AllPrinted ==
    arrival = "separate" =>
        /\ Len(printed) <= Len(sent)
        /\ \A k \in 1 .. Len(printed) : printed[k] = sent[k]
        /\ BytesTaken = BytesSent(Len(printed))

Conveyed == InFlight /\ WholeTaken /\ PrintedBefore /\ AllPrinted

\* The bytes of the messages sent so far.
LEMMA SentBytes ==
    ASSUME Typed
    PROVE  /\ sent \in Seq(Seq(Byte)) /\ Len(sent) \in Nat /\ DOMAIN sent = 1 .. Len(sent)
           /\ \A k \in 1 .. Len(sent) :
                 /\ sent[k] \in Seq(Byte) /\ Len(sent[k]) \in Nat
                 /\ Len(sent[k]) + HEADER_SIZE <= 2 * BufferSize
           /\ BytesSent(0) = 0
           /\ \A k \in 0 .. Len(sent) : BytesSent(k) \in Nat
           /\ \A k \in 1 .. Len(sent) :
                 BytesSent(k) = BytesSent(k - 1) + Len(sent[k]) + HEADER_SIZE
           /\ \A j, k \in 0 .. Len(sent) : j < k => BytesSent(j) + HEADER_SIZE <= BytesSent(k)
<1>1. sent \in Seq(Texts)
  BY DEF Typed, TypeOK
<1>2. sent \in Seq(Seq(Byte))
  BY <1>1, TextsType
<1>3. /\ Len(sent) \in Nat /\ DOMAIN sent = 1 .. Len(sent)
      /\ \A k \in 1 .. Len(sent) : sent[k] \in Texts
  BY <1>1
<1>4. \A k \in 1 .. Len(sent) : /\ sent[k] \in Seq(Byte) /\ Len(sent[k]) \in Nat
                                /\ Len(sent[k]) + HEADER_SIZE <= 2 * BufferSize
  BY <1>3, ClientAssumption
<1>5. \A j, k \in 0 .. Len(sent) : j < k => BytesOf(sent)[j] + HEADER_SIZE <= BytesOf(sent)[k]
  BY <1>2, BytesGrow
<1>6. /\ BytesOf(sent)[0] = 0
      /\ \A k \in 1 .. Len(sent) :
            BytesOf(sent)[k] = BytesOf(sent)[k - 1] + Len(sent[k]) + HEADER_SIZE
      /\ \A k \in 0 .. Len(sent) : BytesOf(sent)[k] \in Nat
  BY <1>2, BytesOfMessages
<1> QED
  BY <1>2, <1>3, <1>4, <1>5, <1>6, Zenon DEF BytesSent

\* What was taken and what is in flight are together what was sent.
LEMMA TakenType ==
    ASSUME Typed, InFlight
    PROVE  /\ toClient \in Seq(Byte) /\ Len(toClient) \in Nat
           /\ BytesTaken \in Nat
           /\ BytesTaken + Len(toClient) = BytesSent(Len(sent))
<1>1. toClient \in Seq(Byte) /\ Len(toClient) \in Nat
  BY DEF Typed, TypeOK
<1>2. BytesSent(Len(sent)) \in Nat
  <2>1. Len(sent) \in 0 .. Len(sent)
    BY SentBytes
  <2> QED
    BY <2>1, SentBytes
<1>3. Len(toClient) <= BytesSent(Len(sent))
  BY DEF InFlight
<1> QED
  BY <1>1, <1>2, <1>3 DEF BytesTaken

\* If the next message was received whole, it is what is read.
LEMMA WholeMessageRead ==
    ASSUME Typed, InFlight, NEW n \in 1 .. Len(toClient), n <= BufferSize,
           NEW k \in 0 .. Len(sent), BytesTaken = BytesSent(k),
           NEW e \in 1 .. Len(sent), BytesSent(e) = BytesTaken + n
    PROVE  LET text == Advance(Filled(n), HEADER_SIZE)
               length == ReadUInt32LE(Advance(Filled(n), 8))
           IN  /\ k + 1 \in 1 .. Len(sent) /\ k + 1 <= e
               /\ Readable(text, length)
               /\ ReadString(text, length) = sent[k + 1]
<1> DEFINE message1 == sent[k + 1]
           size == Len(message1)
           data == Filled(n).m_Data
           text == Advance(Filled(n), HEADER_SIZE)
           length == ReadUInt32LE(Advance(Filled(n), 8))
<1>1. /\ Len(sent) \in Nat /\ k \in Nat /\ e \in Nat /\ n \in Nat /\ n > 0
      /\ BytesSent(k) \in Nat /\ BytesSent(e) \in Nat
      /\ e \in 0 .. Len(sent)
      /\ HEADER_SIZE = 12
  <2>1. Len(sent) \in Nat
    BY SentBytes
  <2>2. e \in 0 .. Len(sent) /\ n \in Nat /\ n > 0 /\ k \in Nat /\ e \in Nat
    BY <2>1, TakenType
  <2> QED
    BY <2>1, <2>2, SentBytes DEF HEADER_SIZE
<1>2. k < e
  <2>1. CASE e < k
    <3>1. BytesSent(e) + HEADER_SIZE <= BytesSent(k)
      BY <1>1, <2>1, SentBytes
    <3> QED
      BY <1>1, <3>1
  <2>2. CASE e = k
    BY <1>1, <2>2
  <2> QED
    BY <1>1, <2>1, <2>2
<1>3. k + 1 \in 1 .. Len(sent) /\ k + 1 <= e /\ k + 1 \in 0 .. Len(sent) /\ k + 1 - 1 = k
  BY <1>1, <1>2
<1>4. /\ message1 \in Seq(Byte) /\ size \in Nat /\ size + 12 <= 2 * BufferSize
      /\ BytesSent(k + 1) = BytesSent(k) + size + 12
      /\ BytesSent(k + 1) \in Nat
  <2>1. BytesSent(k + 1) = BytesSent(k + 1 - 1) + Len(sent[k + 1]) + HEADER_SIZE
    BY <1>3, SentBytes
  <2> QED
    BY <1>1, <1>3, <2>1, SentBytes
<1>5. BytesSent(k + 1) <= BytesSent(e)
  <2>1. CASE k + 1 < e
    <3>1. BytesSent(k + 1) + HEADER_SIZE <= BytesSent(e)
      BY <1>1, <1>3, <2>1, SentBytes
    <3> QED
      BY <1>1, <1>4, <3>1
  <2>2. CASE k + 1 = e
    BY <1>4, <2>2
  <2> QED
    BY <1>1, <1>3, <2>1, <2>2
<1>6. size + 12 <= n
  <2>1. PICK taken \in Nat : taken = BytesSent(k)
    BY <1>1
  <2>2. BytesSent(k + 1) = taken + size + 12 /\ BytesSent(e) = taken + n
    BY <1>4, <2>1
  <2>3. taken + size + 12 <= taken + n
    BY <1>5, <2>2
  <2>4. size \in Nat /\ n \in Nat
    BY <1>1, <1>4
  <2> HIDE DEF size
  <2> QED
    BY ONLY taken \in Nat, <2>3, <2>4
<1>6a. size + 12 <= BufferSize
  <2>1. size + 12 <= n /\ n <= BufferSize /\ size \in Nat /\ n \in Nat /\ BufferSize \in Nat
    BY <1>1, <1>4, <1>6, ProtocolAssumption
  <2> HIDE DEF size
  <2> QED
    BY ONLY <2>1
<1>7. ASSUME NEW i \in 1 .. size + 12
      PROVE  toClient[i] = ReplyFrame(message1)[i]
  <2>1. k + 1 \in DOMAIN sent /\ i \in 1 .. Len(sent[k + 1]) + HEADER_SIZE
    BY <1>1, <1>3, SentBytes
  <2>2. BytesSent(k + 1 - 1) + i > BytesTaken => toClient[BytesSent(k + 1 - 1) + i - BytesTaken] = ReplyFrame(sent[k + 1])[i]
    BY <2>1 DEF InFlight
  <2>3. i \in Nat /\ i > 0 /\ BytesSent(k + 1 - 1) = BytesTaken /\ BytesTaken \in Nat
    BY <1>1, <1>3, <1>4
  <2>4. BytesSent(k + 1 - 1) + i > BytesTaken /\ BytesSent(k + 1 - 1) + i - BytesTaken = i
    BY <2>3
  <2> QED
    BY <2>2, <2>4
<1> HIDE DEF message1, size
<1>8. /\ Filled(n) \in Buffers /\ data \in Seq(Byte) /\ Len(data) = BufferSize
      /\ Filled(n).m_ReadIndex = 0
      /\ \A i \in 1 .. n : data[i] = toClient[i]
  BY FilledHolds DEF Buffers
<1>9. /\ Advance(Filled(n), 8).m_Data = data /\ Advance(Filled(n), 8).m_ReadIndex = 8
      /\ text.m_Data = data /\ text.m_ReadIndex = 12
  BY <1>1, <1>8 DEF Advance, Buffers
<1> HIDE DEF data, text
<1>10. ASSUME NEW i \in 1 .. size + 12
       PROVE  data[i] = ReplyFrame(message1)[i]
  <2>1. i \in 1 .. n
    BY <1>1, <1>4, <1>6
  <2> QED
    BY <1>7, <1>8, <2>1
<1>11. /\ \A i \in 1 .. 4 : ReplyFrame(message1)[8 + i] = BytesOf32(size)[i]
       /\ \A i \in 1 .. size : ReplyFrame(message1)[12 + i] = message1[i]
  BY <1>1, <1>4, ReplyFrameBytes DEF size
<1>12. ASSUME NEW i \in 1 .. 4
       PROVE  data[8 + i] = BytesOf32(size)[i]
  <2>1. 8 + i \in 1 .. size + 12
    BY <1>4
  <2> QED
    BY <1>10, <1>11, <2>1
<1>13. length = size
  <2>1. length = data[8 + 1] + 256 * data[8 + 2] + 65536 * data[8 + 3] + 16777216 * data[8 + 4]
    <3> DEFINE reader == Advance(Filled(n), 8)
    <3>1. /\ 8 \in Nat /\ 8 + 4 <= Len(data) /\ data \in Seq(Byte)
          /\ reader.m_Data = data /\ reader.m_ReadIndex = 8
      BY <1>8, <1>9, ProtocolAssumption DEF HEADER_SIZE
    <3>2. length = ReadUInt32LE(reader)
      OBVIOUS
    <3> HIDE DEF reader, length
    <3>3. ReadUInt32LE(reader) = data[8 + 1] + 256 * data[8 + 2] + 65536 * data[8 + 3]
                                     + 16777216 * data[8 + 4]
      BY <3>1, NumberRead
    <3> QED
      BY <3>2, <3>3
  <2>2. size \in Nat /\ size < 4294967296
    BY <1>1, <1>4, ProtocolAssumption, SMT
  <2>3. BytesOf32(size)[1] + 256 * BytesOf32(size)[2] + 65536 * BytesOf32(size)[3]
            + 16777216 * BytesOf32(size)[4] = size
    BY <2>2, BytesAddUp
  <2>4. /\ data[8 + 1] = BytesOf32(size)[1] /\ data[8 + 2] = BytesOf32(size)[2]
        /\ data[8 + 3] = BytesOf32(size)[3] /\ data[8 + 4] = BytesOf32(size)[4]
    BY <1>12
  <2> HIDE DEF length
  <2> QED
    BY <2>1, <2>3, <2>4
<1> HIDE DEF length
<1>14. Readable(text, length)
  BY <1>4, <1>6a, <1>8, <1>9, <1>13 DEF Readable
<1>15. ReadString(text, length) = message1
  <2> DEFINE last == 12 + size
             read == SubSeq(data, 12 + 1, last)
  <2>1. ReadString(text, length) = read
    BY <1>9, <1>13 DEF ReadString
  <2>2. /\ read \in Seq(Byte)
        /\ Len(read) = IF 12 < last THEN last - 12 ELSE 0
        /\ \A i \in 1 .. last - 12 : read[i] = data[12 + i]
    <3>1. 12 \in Nat /\ last \in Nat /\ last <= Len(data) /\ data \in Seq(Byte)
      BY <1>4, <1>6a, <1>8
    <3> HIDE DEF last
    <3> QED
      BY <3>1, PartOf
  <2> HIDE DEF read
  <2>3. Len(read) = size
    BY <1>4, <2>2
  <2>4. ASSUME NEW i \in 1 .. size
        PROVE  read[i] = message1[i]
    <3>1. i \in 1 .. last - 12 /\ 12 + i \in 1 .. size + 12
      BY <1>4
    <3> QED
      BY <1>10, <1>11, <2>2, <3>1
  <2>5. read = message1
    BY <1>4, <2>2, <2>3, <2>4, SeqEqual DEF size
  <2> QED
    BY <2>1, <2>5
<1> QED
  BY <1>3, <1>14, <1>15 DEF text, length, message1

\* Nothing is printed or in flight at the beginning.
LEMMA ConveyedAtFirst == Init => Conveyed
<1> SUFFICES ASSUME Init
             PROVE  Conveyed
  OBVIOUS
<1>1. sent = << >> /\ toClient = << >> /\ printed = << >> /\ arrival = "separate"
  BY DEF Init, ClientInit
<1>2. Typed
  BY TypedAtFirst
<1>3. Len(sent) = 0 /\ Len(toClient) = 0 /\ Len(printed) = 0
      /\ DOMAIN sent = {} /\ DOMAIN printed = {}
  BY <1>1
<1>4. BytesSent(0) = 0
  BY <1>2, SentBytes
<1>5. BytesTaken = 0
  BY <1>3, <1>4 DEF BytesTaken
<1>6. InFlight
  BY <1>3, <1>4 DEF InFlight
<1>7. WholeTaken
  BY <1>3, <1>4, <1>5 DEF WholeTaken
<1>8. Numbers(<< >>)
  <2>1. << >> \in [{} -> {}]
    OBVIOUS
  <2> QED
    BY <1>3, <2>1 DEF Numbers
<1>9. AllPrinted
  BY <1>3, <1>4, <1>5 DEF AllPrinted
<1> QED
  BY <1>6, <1>7, <1>8, <1>9 DEF Conveyed, PrintedBefore

\* A step of another kind than Receive and Reply changes nothing of it.
LEMMA ConveyedElsewhere ==
    ASSUME Conveyed, UNCHANGED <<sent, toClient, arrival, printed>>
    PROVE  Conveyed'
<1>1. \A k : BytesSent(k)' = BytesSent(k)
  BY DEF BytesSent
<1>2. BytesTaken' = BytesTaken
  BY <1>1 DEF BytesTaken
<1>3. InFlight'
  BY <1>1, <1>2 DEF Conveyed, InFlight
<1>4. WholeTaken'
  BY <1>1, <1>2 DEF Conveyed, WholeTaken
<1>5. PrintedBefore'
  <2>1. \A number : Numbers(number)' <=> Numbers(number)
    BY <1>1, <1>2 DEF Numbers
  <2> QED
    BY <2>1 DEF Conveyed, PrintedBefore
<1>6. AllPrinted'
  BY <1>1, <1>2 DEF Conveyed, AllPrinted
<1> QED
  BY <1>3, <1>4, <1>5, <1>6 DEF Conveyed

\* An answer is in flight behind all that is.
LEMMA ReplyInFlight ==
    ASSUME Typed, InFlight, NEW text \in Texts, Reply(text)
    PROVE  /\ \A k \in 0 .. Len(sent) : BytesSent(k)' = BytesSent(k)
           /\ BytesTaken' = BytesTaken
           /\ Len(sent)' = Len(sent) + 1
           /\ \A k \in 1 .. Len(sent) : sent'[k] = sent[k]
           /\ InFlight'
<1> DEFINE frame == ReplyFrame(text)
<1>0. PICK n : n = Len(sent)
  OBVIOUS
<1>1. text \in Seq(Byte) /\ Len(text) \in Nat /\ Len(text) + HEADER_SIZE <= 2 * BufferSize
  BY ClientAssumption
<1>2. /\ sent \in Seq(Seq(Byte)) /\ n \in Nat /\ DOMAIN sent = 1 .. n
      /\ \A k \in 1 .. n : Len(sent[k]) \in Nat
      /\ \A k \in 0 .. n : BytesSent(k) \in Nat
      /\ \A k \in 1 .. n : BytesSent(k) = BytesSent(k - 1) + Len(sent[k]) + HEADER_SIZE
      /\ \A j, k \in 0 .. n : j < k => BytesSent(j) + HEADER_SIZE <= BytesSent(k)
  BY <1>0, SentBytes
<1>3. /\ toClient \in Seq(Byte) /\ Len(toClient) \in Nat /\ BytesTaken \in Nat
      /\ BytesTaken + Len(toClient) = BytesSent(n)
  BY <1>0, TakenType
<1>4. /\ frame \in Seq(Byte) /\ Len(frame) = Len(text) + 12
  BY <1>1, ReplyFrameBytes DEF HEADER_SIZE
<1> HIDE DEF frame
<1>5. sent' = Append(sent, text) /\ toClient' = toClient \o frame
  BY DEF Reply, frame
<1>6. /\ Len(sent)' = n + 1 /\ DOMAIN sent' = 1 .. n + 1
      /\ \A k \in 1 .. n : sent'[k] = sent[k]
      /\ sent'[n + 1] = text
  BY <1>0, <1>1, <1>2, <1>5, AppendProperties
<1>7. /\ \A k \in 0 .. n : BytesSent(k)' = BytesSent(k)
      /\ BytesSent(n + 1)' = BytesSent(n) + Len(text) + HEADER_SIZE
  <2>1. \A k : BytesSent(k)' = BytesOf(Append(sent, text))[k] /\ BytesSent(k) = BytesOf(sent)[k]
    BY <1>5 DEF BytesSent
  <2>2. /\ \A k \in 0 .. n : BytesOf(Append(sent, text))[k] = BytesOf(sent)[k]
        /\ BytesOf(Append(sent, text))[n + 1] = BytesOf(sent)[n] + Len(text) + HEADER_SIZE
    BY <1>0, <1>1, <1>2, BytesOfAppend
  <2>3. \A k \in 0 .. n : BytesSent(k)' = BytesSent(k)
    BY <2>1, <2>2
  <2>4. BytesSent(n + 1)' = BytesOf(Append(sent, text))[n + 1] /\ BytesSent(n) = BytesOf(sent)[n]
    BY <2>1
  <2> QED
    BY <2>2, <2>3, <2>4
<1>8. /\ toClient' \in Seq(Byte) /\ Len(toClient)' = Len(toClient) + Len(frame)
      /\ \A k \in 1 .. Len(toClient) : toClient'[k] = toClient[k]
      /\ \A k \in 1 .. Len(frame) : toClient'[Len(toClient) + k] = frame[k]
  <2>1. /\ toClient \o frame \in Seq(Byte)
        /\ Len(toClient \o frame) = Len(toClient) + Len(frame)
        /\ \A k \in 1 .. Len(toClient) + Len(frame) :
              (toClient \o frame)[k] =
                  IF k <= Len(toClient) THEN toClient[k] ELSE frame[k - Len(toClient)]
    <3>1. toClient \in Seq(Byte) /\ frame \in Seq(Byte)
      BY <1>3, <1>4
    <3> QED
      BY <3>1, ConcatProperties
  <2> DEFINE l == Len(toClient)
             m == Len(frame)
  <2>2. l \in Nat /\ m \in Nat
    BY <1>1, <1>3, <1>4
  <2> HIDE DEF l, m
  <2>3. /\ \A k \in 1 .. l : k \in 1 .. l + m /\ k <= l
        /\ \A k \in 1 .. m : l + k \in 1 .. l + m /\ ~(l + k <= l) /\ l + k - l = k
    BY <2>2
  <2> QED
    BY <1>5, <2>1, <2>3 DEF l, m
<1>9. BytesSent(Len(sent))' = BytesSent(n) + Len(text) + 12
  <2>1. BytesSent(Len(sent))' = BytesOf(sent')[n + 1]
    BY <1>6 DEF BytesSent
  <2>2. BytesSent(n + 1)' = BytesOf(sent')[n + 1]
    BY DEF BytesSent
  <2> QED
    BY <1>7, <2>1, <2>2 DEF HEADER_SIZE
<1>10. BytesTaken' = BytesTaken
  <2>1. BytesSent(Len(sent))' = BytesSent(n) + Len(text) + 12
    BY <1>9
  <2>2. n \in 0 .. n /\ BytesSent(n) \in Nat
    BY <1>2
  <2> QED
    <3>1. Len(toClient)' = Len(toClient) + (Len(text) + 12)
      BY <1>4, <1>8
    <3>2. BytesTaken' = (BytesSent(n) + Len(text) + 12) - (Len(toClient) + (Len(text) + 12))
      BY <2>1, <3>1 DEF BytesTaken
    <3>3. BytesTaken = BytesSent(n) - Len(toClient)
      BY <1>0 DEF BytesTaken
    <3>4. \A a, l, t \in Nat : (a + t + 12) - (l + (t + 12)) = a - l
      OBVIOUS
    <3> QED
      BY <1>1, <1>3, <2>2, <3>2, <3>3, <3>4
<1>11. InFlight'
  <2>1. Len(toClient)' <= BytesSent(Len(sent))'
    <3>1. BytesSent(Len(sent))' = BytesSent(n) + Len(text) + 12
      BY <1>9
    <3>2. n \in 0 .. n /\ BytesSent(n) \in Nat
      BY <1>2
    <3> QED
      BY <1>1, <1>3, <1>4, <1>8, <3>1, <3>2
  <2>2. ASSUME NEW j \in 1 .. n, NEW i \in 1 .. Len(sent[j]) + HEADER_SIZE,
               BytesSent(j - 1) + i > BytesTaken
        PROVE  toClient'[BytesSent(j - 1) + i - BytesTaken] = ReplyFrame(sent[j])[i]
    <3>1. toClient[BytesSent(j - 1) + i - BytesTaken] = ReplyFrame(sent[j])[i]
      BY <1>2, <2>2 DEF InFlight
    <3>2. /\ j - 1 \in 0 .. n /\ j \in 0 .. n /\ n \in 0 .. n
          /\ Len(sent[j]) \in Nat
          /\ BytesSent(j - 1) \in Nat /\ BytesSent(j) \in Nat /\ BytesSent(n) \in Nat
          /\ BytesSent(j) = BytesSent(j - 1) + Len(sent[j]) + 12
          /\ i \in 1 .. Len(sent[j]) + 12
      BY <1>2, <2>2 DEF HEADER_SIZE
    <3>3. BytesSent(j) <= BytesSent(n)
      <4>1. CASE j < n
        <5>1. BytesSent(j) + HEADER_SIZE <= BytesSent(n)
          BY <1>2, <3>2, <4>1
        <5> QED
          BY <3>2, <5>1 DEF HEADER_SIZE
      <4>2. CASE j = n
        BY <3>2, <4>2
      <4> QED
        BY <1>2, <4>1, <4>2
    <3>4. BytesSent(j - 1) + i - BytesTaken \in 1 .. Len(toClient)
      <4>1. \A before, after, all, length, taken, inFlight \in Nat : \A m \in 1 .. length + 12 :
                /\ before + m > taken /\ after = before + length + 12
                /\ after <= all /\ taken + inFlight = all
                => before + m - taken \in 1 .. inFlight
        OBVIOUS
      <4> QED
        BY <1>3, <2>2, <3>2, <3>3, <4>1
    <3> QED
      BY <1>8, <3>1, <3>4
  <2>3. ASSUME NEW i \in 1 .. Len(text) + HEADER_SIZE
        PROVE  toClient'[BytesSent(n) + i - BytesTaken] = frame[i]
    <3>1. n \in 0 .. n /\ BytesSent(n) \in Nat /\ i \in 1 .. Len(text) + 12
      BY <1>2 DEF HEADER_SIZE
    <3>2. BytesSent(n) + i - BytesTaken = Len(toClient) + i /\ i \in 1 .. Len(frame)
      BY <1>1, <1>3, <1>4, <3>1
    <3> QED
      BY <1>8, <3>2
  <2>4. ASSUME NEW j \in DOMAIN sent', NEW i \in 1 .. Len(sent'[j]) + HEADER_SIZE,
               BytesSent(j - 1)' + i > BytesTaken'
        PROVE  toClient'[BytesSent(j - 1)' + i - BytesTaken'] = ReplyFrame(sent'[j])[i]
    <3>1. j \in 1 .. n + 1 /\ j - 1 \in 0 .. n
      BY <1>2, <1>6
    <3>2. BytesSent(j - 1)' = BytesSent(j - 1)
      BY <1>7, <3>1
    <3>3. CASE j \in 1 .. n
      <4>1. sent'[j] = sent[j]
        BY <1>6, <3>3
      <4> QED
        BY <1>10, <2>2, <2>4, <3>2, <3>3, <4>1
    <3>4. CASE j = n + 1
      <4>1. sent'[j] = text /\ j - 1 = n
        BY <1>2, <1>6, <3>4
      <4> QED
        BY <1>10, <2>3, <2>4, <3>2, <4>1 DEF frame
    <3> QED
      BY <1>2, <3>1, <3>3, <3>4
  <2>5. (\A j \in DOMAIN sent : \A i \in 1 .. Len(sent[j]) + HEADER_SIZE :
            BytesSent(j - 1) + i > BytesTaken =>
                toClient[BytesSent(j - 1) + i - BytesTaken] = ReplyFrame(sent[j])[i])'
    BY <2>4
  <2> QED
    BY <2>1, <2>5 DEF InFlight
<1> QED
  BY <1>0, <1>6, <1>7, <1>10, <1>11

\* An answer disturbs nothing that was taken or printed.
LEMMA ReplyConveyed ==
    ASSUME Typed, Conveyed, NEW text \in Texts, Reply(text)
    PROVE  Conveyed'
<1> DEFINE n == Len(sent)
<1>1. InFlight
  BY DEF Conveyed
<1>2. /\ \A k \in 0 .. n : BytesSent(k)' = BytesSent(k)
      /\ BytesTaken' = BytesTaken
      /\ Len(sent)' = n + 1
      /\ \A k \in 1 .. n : sent'[k] = sent[k]
      /\ InFlight'
  BY <1>1, ReplyInFlight
<1>3. UNCHANGED <<arrival, printed>>
  BY DEF Reply, loopVars
<1>4. n \in Nat /\ DOMAIN sent = 1 .. n
  BY SentBytes
<1>5. DOMAIN sent' = 1 .. n + 1
  <2>1. sent' \in Seq(Texts)
    <3>1. Typed'
      BY ReplyTyped
    <3> QED
      BY <3>1 DEF Typed, TypeOK
  <2> QED
    BY <1>2, <2>1
<1> HIDE DEF n
<1>6. WholeTaken'
  <2>1. ASSUME arrival' # "cut"
        PROVE  \E k \in 0 .. n + 1 : BytesTaken' = BytesSent(k)'
    <3>1. PICK k \in 0 .. n : BytesTaken = BytesSent(k)
      BY <1>3, <2>1 DEF Conveyed, WholeTaken, n
    <3>2. k \in 0 .. n + 1
      BY <1>4
    <3> QED
      BY <1>2, <3>1, <3>2
  <2> QED
    BY <1>2, <2>1 DEF WholeTaken
<1>7. PrintedBefore'
  <2>1. ASSUME arrival' # "cut"
        PROVE  \E number : Numbers(number)'
    <3>1. PICK number : Numbers(number)
      BY <1>3, <2>1 DEF Conveyed, PrintedBefore
    <3>2. /\ number \in [DOMAIN printed -> 1 .. n]
          /\ \A k \in DOMAIN printed : number[k] \in 1 .. n
      BY <1>4, <3>1 DEF Numbers
    <3>3. \A k \in DOMAIN printed : number[k] \in 1 .. n + 1 /\ number[k] \in 0 .. n
      BY <1>4, <3>2
    <3>4. number \in [DOMAIN printed' -> DOMAIN sent']
      BY <1>3, <1>5, <3>2, <3>3
    <3>5. /\ \A k \in DOMAIN printed' : printed'[k] = sent'[number[k]]
          /\ \A k \in DOMAIN printed' : BytesSent(number[k])' <= BytesTaken'
          /\ \A j, k \in DOMAIN printed' : j < k => number[j] < number[k]
      BY <1>2, <1>3, <3>1, <3>2, <3>3 DEF Numbers
    <3>6. Numbers(number)'
      BY <3>4, <3>5 DEF Numbers
    <3> QED
      BY <3>6
  <2> QED
    BY <2>1 DEF PrintedBefore
<1>8. AllPrinted'
  <2>1. ASSUME arrival' = "separate"
        PROVE  /\ Len(printed') <= n + 1
               /\ \A k \in 1 .. Len(printed') : printed'[k] = sent'[k]
               /\ BytesTaken' = BytesSent(Len(printed))'
    <3>1. /\ Len(printed) <= n
          /\ \A k \in 1 .. Len(printed) : printed[k] = sent[k]
          /\ BytesTaken = BytesSent(Len(printed))
      BY <1>3, <2>1 DEF Conveyed, AllPrinted, n
    <3>2. Len(printed) \in Nat
      BY DEF Typed, TypeOK
    <3>3. Len(printed) \in 0 .. n /\ \A k \in 1 .. Len(printed) : k \in 1 .. n
      BY <1>4, <3>1, <3>2
    <3>4. BytesSent(Len(printed))' = BytesSent(Len(printed))
      <4>1. BytesSent(Len(printed))' = BytesOf(sent')[Len(printed)]
        BY <1>3 DEF BytesSent
      <4> QED
        BY <1>2, <3>3, <4>1 DEF BytesSent
    <3> QED
      BY <1>2, <1>3, <1>4, <3>1, <3>2, <3>3, <3>4
  <2> QED
    BY <1>2, <2>1 DEF AllPrinted
<1> QED
  BY <1>2, <1>6, <1>7, <1>8 DEF Conveyed

\* A recv that cuts no message ends where one ends, and one that finds a
\* single message finds the end of no other.
LEMMA ArrivalWhole ==
    ASSUME Typed, NEW n
    PROVE  /\ ArrivalOf(n) # "cut" =>
                 /\ arrival # "cut"
                 /\ \E e \in 1 .. Len(sent) : BytesSent(e) = BytesTaken + n
           /\ ArrivalOf(n) = "separate" =>
                 /\ arrival = "separate"
                 /\ \A d, e \in 1 .. Len(sent) :
                       /\ BytesSent(d) \in BytesTaken + 1 .. BytesTaken + n
                       /\ BytesSent(e) \in BytesTaken + 1 .. BytesTaken + n
                       => d = e
<1> DEFINE ends == {k \in DOMAIN sent : BytesSent(k) \in BytesTaken + 1 .. BytesTaken + n}
<1>1. DOMAIN sent = 1 .. Len(sent) /\ Len(sent) \in Nat
  BY SentBytes
<1>2. arrival \in {"separate", "joined", "cut"}
  BY DEF Typed, TypeOK
<1>3. ArrivalOf(n) =
          IF arrival = "cut" \/ ~\E k \in ends : BytesSent(k) = BytesTaken + n THEN "cut"
          ELSE IF arrival = "joined" \/ Cardinality(ends) > 1 THEN "joined"
          ELSE "separate"
  BY DEF ArrivalOf
<1>4. ends \subseteq 1 .. Len(sent)
  BY <1>1
<1>5. IsFiniteSet(ends) /\ Cardinality(ends) \in Nat
  <2>1. IsFiniteSet(1 .. Len(sent))
    BY <1>1, FS_Interval
  <2> HIDE DEF ends
  <2> QED
    BY <1>4, <2>1, FS_Subset, FS_CardinalityType
<1>6. ASSUME NEW d \in ends, NEW e \in ends, d # e
      PROVE  Cardinality(ends) > 1
  <2>1. {d, e} \subseteq ends
    OBVIOUS
  <2> HIDE DEF ends
  <2>2. IsFiniteSet({d}) /\ Cardinality({d}) = 1
    BY FS_Singleton
  <2>3. IsFiniteSet({d} \cup {e}) /\ Cardinality({d} \cup {e}) = Cardinality({d}) + 1
    BY <1>6, <2>2, FS_AddElement
  <2>4. {d} \cup {e} = {d, e}
    OBVIOUS
  <2>5. Cardinality({d, e}) = 2
    BY <2>2, <2>3, <2>4
  <2>6. Cardinality({d, e}) <= Cardinality(ends)
    BY <1>5, <2>1, FS_Subset
  <2> QED
    BY <1>5, <2>5, <2>6
<1>7. ASSUME ArrivalOf(n) # "cut"
      PROVE  arrival # "cut" /\ \E e \in ends : BytesSent(e) = BytesTaken + n
  <2> HIDE DEF ends
  <2>1. CASE arrival = "cut" \/ ~\E k \in ends : BytesSent(k) = BytesTaken + n
    <3>1. ArrivalOf(n) = "cut"
      BY <1>3, <2>1
    <3> QED
      BY <1>7, <3>1
  <2> QED
    BY <2>1
<1>8. ASSUME ArrivalOf(n) = "separate"
      PROVE  arrival = "separate" /\ ~(Cardinality(ends) > 1)
  <2> HIDE DEF ends
  <2> QED
    BY <1>2, <1>3, <1>8
<1>9. \A e \in ends : e \in 1 .. Len(sent)
  BY <1>4
<1>10. \A d, e \in 1 .. Len(sent) :
           /\ BytesSent(d) \in BytesTaken + 1 .. BytesTaken + n
           /\ BytesSent(e) \in BytesTaken + 1 .. BytesTaken + n
           => d \in ends /\ e \in ends
  BY <1>1
<1> HIDE DEF ends
<1> QED
  BY <1>6, <1>7, <1>8, <1>9, <1>10

\* What a recv takes is no longer in flight, and the rest moves up.
LEMMA ReceiveInFlight ==
    ASSUME Typed, InFlight, NEW n \in 1 .. Len(toClient),
           toClient' = SubSeq(toClient, n + 1, Len(toClient)), sent' = sent
    PROVE  /\ \A k : BytesSent(k)' = BytesSent(k)
           /\ BytesTaken' = BytesTaken + n
           /\ InFlight'
<1>1. /\ toClient \in Seq(Byte) /\ Len(toClient) \in Nat /\ BytesTaken \in Nat
      /\ BytesTaken + Len(toClient) = BytesSent(Len(sent))
      /\ n \in Nat
  BY TakenType
<1>2. \A k : BytesSent(k)' = BytesSent(k)
  BY DEF BytesSent
<1>3. /\ Len(toClient') = Len(toClient) - n
      /\ \A k \in 1 .. Len(toClient) - n : toClient'[k] = toClient[n + k]
  BY <1>1, TakenBytes
<1>4. Len(sent) \in 0 .. Len(sent) /\ BytesSent(Len(sent)) \in Nat
  <2>1. Len(sent) \in 0 .. Len(sent)
    BY SentBytes
  <2> QED
    BY <2>1, SentBytes
<1>5. BytesTaken' = BytesTaken + n
  BY <1>1, <1>2, <1>3, <1>4 DEF BytesTaken
<1>6. Len(toClient') <= BytesSent(Len(sent))
  BY <1>1, <1>3, <1>4
<1>7. ASSUME NEW j \in DOMAIN sent, NEW i \in 1 .. Len(sent[j]) + HEADER_SIZE,
             BytesSent(j - 1) + i > BytesTaken + n
      PROVE  toClient'[BytesSent(j - 1) + i - (BytesTaken + n)] = ReplyFrame(sent[j])[i]
  <2>1. /\ j \in 1 .. Len(sent) /\ j \in 0 .. Len(sent) /\ j - 1 \in 0 .. Len(sent)
        /\ Len(sent) \in Nat /\ Len(sent[j]) \in Nat /\ i \in 1 .. Len(sent[j]) + 12
    <3>1. j \in 1 .. Len(sent) /\ Len(sent) \in Nat
      BY <1>7, SentBytes
    <3>2. j \in 0 .. Len(sent) /\ j - 1 \in 0 .. Len(sent)
      BY <3>1
    <3>3. Len(sent[j]) \in Nat
      BY <3>1, SentBytes
    <3>4. i \in 1 .. Len(sent[j]) + 12
      BY <1>7 DEF HEADER_SIZE
    <3> QED
      BY <3>1, <3>2, <3>3, <3>4
  <2>2. /\ BytesSent(j) \in Nat /\ BytesSent(j - 1) \in Nat
        /\ BytesSent(j) = BytesSent(j - 1) + Len(sent[j]) + 12
    BY <2>1, SentBytes DEF HEADER_SIZE
  <2>3. BytesSent(j) <= BytesSent(Len(sent))
    <3>1. CASE j < Len(sent)
      <4>1. BytesSent(j) + 12 <= BytesSent(Len(sent))
        BY <1>4, <2>1, <3>1, SentBytes DEF HEADER_SIZE
      <4> QED
        BY <1>4, <2>2, <4>1
    <3>2. CASE j = Len(sent)
      BY <1>4, <3>2
    <3> QED
      BY <2>1, <3>1, <3>2
  <2>4. BytesSent(j - 1) + i > BytesTaken
    <3>1. PICK all, taken \in Nat : all = BytesSent(j - 1) + i /\ taken = BytesTaken
      BY <1>1, <2>1, <2>2
    <3>2. all > taken + n
      BY <1>7, <3>1
    <3>3. all > taken
      BY ONLY all \in Nat, taken \in Nat, <1>1, <3>2
    <3> QED
      BY <3>1, <3>3
  <2>5. toClient[BytesSent(j - 1) + i - BytesTaken] = ReplyFrame(sent[j])[i]
    BY <1>7, <2>4 DEF InFlight
  <2>6. /\ BytesSent(j - 1) + i - (BytesTaken + n) \in 1 .. Len(toClient) - n
        /\ n + (BytesSent(j - 1) + i - (BytesTaken + n)) = BytesSent(j - 1) + i - BytesTaken
    <3>1. \A before, after, all, length, taken, inFlight \in Nat : \A m \in 1 .. length + 12 :
              /\ before + m > taken + n /\ after = before + length + 12
              /\ after <= all /\ taken + inFlight = all
              => /\ before + m - (taken + n) \in 1 .. inFlight - n
                 /\ n + (before + m - (taken + n)) = before + m - taken
      BY <1>1
    <3>2. PICK before, after, all, length, taken, inFlight \in Nat :
              /\ before = BytesSent(j - 1) /\ after = BytesSent(j)
              /\ all = BytesSent(Len(sent)) /\ length = Len(sent[j])
              /\ taken = BytesTaken /\ inFlight = Len(toClient)
      BY <1>1, <1>4, <2>1, <2>2
    <3>3. /\ i \in 1 .. length + 12 /\ before + i > taken + n
          /\ after = before + length + 12 /\ after <= all /\ taken + inFlight = all
      BY <1>1, <1>7, <2>1, <2>2, <2>3, <3>2
    <3>4. /\ before + i - (taken + n) \in 1 .. inFlight - n
          /\ n + (before + i - (taken + n)) = before + i - taken
      BY <3>1, <3>3
    <3> QED
      BY <3>2, <3>4
  <2> QED
    BY <1>3, <2>5, <2>6
<1>8. InFlight'
  <2>1. Len(toClient)' <= BytesSent(Len(sent))'
    <3>1. BytesSent(Len(sent))' = BytesSent(Len(sent))
      BY DEF BytesSent
    <3> QED
      BY <1>6, <3>1
  <2>2. (\A j \in DOMAIN sent : \A i \in 1 .. Len(sent[j]) + HEADER_SIZE :
            BytesSent(j - 1) + i > BytesTaken =>
                toClient[BytesSent(j - 1) + i - BytesTaken] = ReplyFrame(sent[j])[i])'
    BY <1>2, <1>5, <1>7
  <2> QED
    BY <2>1, <2>2 DEF InFlight
<1> QED
  BY <1>2, <1>5, <1>8

\* A recv that cuts no message prints the next one, the whole and nothing of
\* another, and goes to the keyboard.
LEMMA WholeMessagePrinted ==
    ASSUME Typed, Conveyed, NEW n \in 1 .. Len(toClient), Receive(n), arrival' # "cut"
    PROVE  /\ arrival # "cut" /\ clientAt' = "keyboard"
           /\ \E k \in 0 .. Len(sent), e \in 1 .. Len(sent) :
                 /\ BytesTaken = BytesSent(k) /\ BytesSent(e) = BytesTaken + n
                 /\ k + 1 \in 1 .. Len(sent) /\ k + 1 <= e
                 /\ printed' = Append(printed, sent[k + 1])
<1> DEFINE text == Advance(Filled(n), HEADER_SIZE)
           length == ReadUInt32LE(Advance(Filled(n), 8))
<1>1. InFlight /\ n <= BufferSize /\ arrival' = ArrivalOf(n)
  BY DEF Conveyed, Receive
<1>2. arrival # "cut"
  BY <1>1, ArrivalWhole
<1>3. PICK e \in 1 .. Len(sent) : BytesSent(e) = BytesTaken + n
  BY <1>1, ArrivalWhole
<1>4. PICK k \in 0 .. Len(sent) : BytesTaken = BytesSent(k)
  BY <1>2 DEF Conveyed, WholeTaken
<1>5. /\ k + 1 \in 1 .. Len(sent) /\ k + 1 <= e
      /\ Readable(text, length)
      /\ ReadString(text, length) = sent[k + 1]
  BY <1>1, <1>3, <1>4, WholeMessageRead
<1>6. /\ Readable(text, length) =>
             clientAt' = "keyboard" /\ printed' = Append(printed, ReadString(text, length))
  BY DEF Receive
<1> HIDE DEF text, length
<1> QED
  BY <1>2, <1>3, <1>4, <1>5, <1>6

\* What a recv takes is printed under the number after those taken before.
LEMMA ReceiveConveyed ==
    ASSUME Typed, Conveyed, NEW n \in 1 .. Len(toClient), Receive(n)
    PROVE  Conveyed'
<1>1. InFlight
  BY DEF Conveyed
<1>2. /\ toClient' = SubSeq(toClient, n + 1, Len(toClient)) /\ sent' = sent
      /\ arrival' = ArrivalOf(n)
  BY DEF Receive
<1>3. /\ \A k : BytesSent(k)' = BytesSent(k)
      /\ BytesTaken' = BytesTaken + n
      /\ InFlight'
  BY <1>1, <1>2, ReceiveInFlight
<1>4. /\ Len(sent) \in Nat /\ DOMAIN sent = 1 .. Len(sent) /\ n \in Nat
      /\ sent \in Seq(Seq(Byte)) /\ BytesTaken \in Nat
  BY <1>1, SentBytes, TakenType
<1>5. printed \in Seq(Seq(Byte)) /\ Len(printed) \in Nat /\ DOMAIN printed = 1 .. Len(printed)
  BY DEF Typed, TypeOK
<1>6. CASE arrival' = "cut"
  BY <1>3, <1>6 DEF Conveyed, WholeTaken, PrintedBefore, AllPrinted
<1>7. CASE arrival' # "cut"
  <2>1. /\ arrival # "cut"
        /\ \E k \in 0 .. Len(sent), e \in 1 .. Len(sent) :
              /\ BytesTaken = BytesSent(k) /\ BytesSent(e) = BytesTaken + n
              /\ k + 1 \in 1 .. Len(sent) /\ k + 1 <= e
              /\ printed' = Append(printed, sent[k + 1])
    BY <1>7, WholeMessagePrinted
  <2>2. PICK k \in 0 .. Len(sent), e \in 1 .. Len(sent) :
              /\ BytesTaken = BytesSent(k) /\ BytesSent(e) = BytesTaken + n
              /\ k + 1 \in 1 .. Len(sent) /\ k + 1 <= e
              /\ printed' = Append(printed, sent[k + 1])
    BY <2>1
  <2>3. PICK l, m \in Nat : l = Len(printed) /\ m = Len(sent)
    BY <1>4, <1>5
  <2>4. sent[k + 1] \in Seq(Byte)
    BY <2>2, SentBytes
  <2>5. /\ printed' \in Seq(Seq(Byte)) /\ Len(printed') = l + 1
        /\ DOMAIN printed' = 1 .. l + 1
        /\ \A j \in 1 .. l : printed'[j] = printed[j]
        /\ printed'[l + 1] = sent[k + 1]
    BY <1>5, <2>2, <2>3, <2>4, AppendProperties
  <2>6. /\ k \in 0 .. m /\ k + 1 \in 0 .. m /\ k + 1 \in 1 .. m /\ e \in 0 .. m /\ e \in 1 .. m
        /\ BytesSent(k) \in Nat /\ BytesSent(e) \in Nat /\ BytesSent(k + 1) \in Nat
        /\ DOMAIN sent = 1 .. m
    <3>1. k \in 0 .. m /\ e \in 0 .. m /\ k + 1 \in 0 .. m
      BY <2>2, <2>3
    <3> QED
      BY <1>4, <2>2, <2>3, <3>1, SentBytes
  <2>7. \A i, j \in 0 .. m : i < j => BytesSent(i) + 12 <= BytesSent(j)
    BY <2>3, SentBytes DEF HEADER_SIZE
  <2>8. \A i \in 0 .. m : BytesSent(i) \in Nat
    BY <2>3, SentBytes
  <2>9. BytesSent(k + 1) <= BytesTaken'
    <3>1. CASE k + 1 < e
      BY <1>3, <2>2, <2>6, <2>7, <3>1
    <3>2. CASE k + 1 = e
      <4>1. BytesSent(k + 1) = BytesSent(e)
        BY <3>2
      <4> QED
        BY <1>3, <2>2, <2>6, <4>1
    <3> QED
      BY <2>2, <2>6, <3>1, <3>2
  <2>10. WholeTaken'
    <3>1. e \in 0 .. m /\ BytesTaken' = BytesSent(e)'
      BY <1>3, <2>2, <2>6
    <3> QED
      BY <1>2, <2>3, <3>1 DEF WholeTaken
  <2>11. PrintedBefore'
    <3>1. PICK number : Numbers(number)
      BY <2>1 DEF Conveyed, PrintedBefore
    <3>2. /\ \A j \in 1 .. l : number[j] \in 1 .. m /\ printed[j] = sent[number[j]]
          /\ \A j \in 1 .. l : BytesSent(number[j]) <= BytesTaken
          /\ \A i, j \in 1 .. l : i < j => number[i] < number[j]
      BY <1>4, <1>5, <2>3, <3>1 DEF Numbers
    <3>3. \A j \in 1 .. l : number[j] < k + 1
      <4>1. ASSUME NEW j \in 1 .. l, ~(number[j] < k + 1)
            PROVE  FALSE
        <5>1. number[j] \in 0 .. m /\ number[j] \in Int /\ k < number[j]
          BY <2>6, <3>2, <4>1
        <5>2. BytesSent(k) + 12 <= BytesSent(number[j]) /\ BytesSent(number[j]) \in Nat
          BY <2>6, <2>7, <2>8, <5>1
        <5>3. BytesSent(number[j]) <= BytesSent(k)
          BY <2>2, <3>2
        <5> QED
          BY <2>6, <5>2, <5>3
      <4> QED
        BY <4>1
    <3> DEFINE longer == [j \in 1 .. l + 1 |-> IF j = l + 1 THEN k + 1 ELSE number[j]]
    <3>4. PICK larger : larger = longer
      OBVIOUS
    <3>5. /\ larger \in [1 .. l + 1 -> 1 .. m]
          /\ larger[l + 1] = k + 1
          /\ \A j \in 1 .. l : larger[j] = number[j]
      <4>1. \A j \in 1 .. l + 1 : j # l + 1 => j \in 1 .. l
        BY <2>3
      <4>2. \A j \in 1 .. l : j \in 1 .. l + 1 /\ j # l + 1
        BY <2>3
      <4> QED
        BY <2>3, <2>6, <3>2, <3>4, <4>1, <4>2
    <3>6. \A j \in 1 .. l + 1 : j = l + 1 \/ j \in 1 .. l
      BY <2>3
    <3>7. larger \in [DOMAIN printed' -> DOMAIN sent']
      BY <1>2, <2>5, <2>6, <3>5
    <3>8. \A j \in DOMAIN printed' : printed'[j] = sent'[larger[j]]
      BY <1>2, <2>5, <3>2, <3>5, <3>6
    <3>9. ASSUME NEW j \in DOMAIN printed'
          PROVE  BytesSent(larger[j])' <= BytesTaken'
      <4>1. CASE j = l + 1
        BY <1>3, <2>9, <3>5, <4>1
      <4>2. CASE j \in 1 .. l
        <5>1. number[j] \in 0 .. m /\ BytesSent(number[j]) <= BytesTaken
          BY <2>3, <3>2, <4>2
        <5>2. BytesSent(number[j]) \in Nat
          BY <2>8, <5>1
        <5>3. BytesSent(number[j]) <= BytesTaken + n
          BY <1>4, <5>1, <5>2
        <5>4. larger[j] = number[j]
          BY <3>5, <4>2
        <5>5. BytesSent(larger[j])' = BytesSent(larger[j])
          BY <1>2 DEF BytesSent
        <5> QED
          BY <1>3, <5>3, <5>4, <5>5
      <4> QED
        BY <2>5, <3>6, <4>1, <4>2
    <3>10. ASSUME NEW i \in DOMAIN printed', NEW j \in DOMAIN printed', i < j
           PROVE  larger[i] < larger[j]
      <4>1. i \in 1 .. l
        BY <2>3, <2>5, <3>10
      <4>2. CASE j = l + 1
        BY <3>3, <3>5, <4>1, <4>2
      <4>3. CASE j \in 1 .. l
        BY <3>2, <3>5, <3>10, <4>1, <4>3
      <4> QED
        BY <2>5, <3>6, <4>2, <4>3
    <3> HIDE DEF longer
    <3>11. Numbers(larger)'
      BY <3>7, <3>8, <3>9, <3>10 DEF Numbers
    <3> QED
      BY <3>11 DEF PrintedBefore
  <2>12. AllPrinted'
    <3>1. ASSUME arrival' = "separate"
          PROVE  /\ l + 1 <= m
                 /\ \A j \in 1 .. l + 1 : printed'[j] = sent[j]
                 /\ BytesTaken' = BytesSent(l + 1)
      <4>1. /\ arrival = "separate"
            /\ \A c, d \in 1 .. Len(sent) :
                  /\ BytesSent(c) \in BytesTaken + 1 .. BytesTaken + n
                  /\ BytesSent(d) \in BytesTaken + 1 .. BytesTaken + n
                  => c = d
        BY <1>2, <3>1, ArrivalWhole
      <4>2. /\ l <= m
            /\ \A j \in 1 .. l : printed[j] = sent[j]
            /\ BytesTaken = BytesSent(l)
        BY <2>3, <4>1 DEF Conveyed, AllPrinted
      <4>3. l \in 0 .. m /\ BytesSent(l) \in Nat
        BY <2>3, <2>8, <4>2
      <4>4. k = l
        <5>1. CASE k < l
          <6>1. BytesSent(k) + 12 <= BytesSent(l)
            BY <2>6, <2>7, <4>3, <5>1
          <6> QED
            BY <2>2, <2>6, <4>2, <4>3, <6>1
        <5>2. CASE l < k
          <6>1. BytesSent(l) + 12 <= BytesSent(k)
            BY <2>6, <2>7, <4>3, <5>2
          <6> QED
            BY <2>2, <2>6, <4>2, <4>3, <6>1
        <5> QED
          BY <2>6, <4>3, <5>1, <5>2
      <4>5. k + 1 = e
        <5>1. BytesSent(k) + 12 <= BytesSent(k + 1)
          <6>1. k < k + 1
            BY <2>6
          <6> QED
            BY <2>6, <2>7, <6>1
        <5>2. BytesSent(k + 1) \in BytesTaken + 1 .. BytesTaken + n
          <6>1. /\ BytesTaken \in Nat /\ BytesSent(k + 1) \in Nat
                /\ BytesTaken + 12 <= BytesSent(k + 1)
            BY <1>4, <2>2, <2>6, <5>1
          <6>2. BytesSent(k + 1) <= BytesTaken + n
            BY <1>3, <2>9
          <6>3. \A taken, sum \in Nat :
                    taken + 12 <= sum /\ sum <= taken + n => sum \in taken + 1 .. taken + n
            BY <1>4
          <6> QED
            BY <6>1, <6>2, <6>3
        <5>3. BytesSent(e) \in BytesTaken + 1 .. BytesTaken + n
          <6>1. \A taken \in Nat : taken + n \in taken + 1 .. taken + n
            BY <2>2
          <6> QED
            BY <1>4, <2>2, <6>1
        <5> QED
          BY <2>2, <4>1, <5>2, <5>3
      <4>6. \A j \in 1 .. l + 1 : printed'[j] = sent[j]
        <5>1. \A j \in 1 .. l + 1 : j = l + 1 \/ j \in 1 .. l
          BY <2>3
        <5> QED
          BY <2>5, <4>2, <4>4, <5>1
      <4>7. BytesTaken' = BytesSent(l + 1)
        BY <1>3, <2>2, <4>4, <4>5
      <4> QED
        BY <2>6, <4>4, <4>6, <4>7
    <3>2. Len(printed)' = l + 1 /\ Len(sent)' = m /\ BytesSent(l + 1)' = BytesSent(l + 1)
      BY <1>2, <1>3, <2>3, <2>5
    <3>3. BytesSent(Len(printed))' = BytesOf(sent')[l + 1]
      BY <2>5 DEF BytesSent
    <3>4. BytesSent(Len(printed))' = BytesSent(l + 1)
      BY <1>2, <3>3 DEF BytesSent
    <3>5. arrival' = "separate" =>
              /\ Len(printed)' <= Len(sent)'
              /\ \A j \in 1 .. Len(printed)' : printed'[j] = sent'[j]
              /\ BytesTaken' = BytesSent(Len(printed))'
      BY <1>2, <3>1, <3>2, <3>4
    <3> QED
      BY <3>5 DEF AllPrinted
  <2> QED
    BY <1>3, <2>10, <2>11, <2>12 DEF Conveyed
<1> QED
  BY <1>6, <1>7

\* No other step disturbs it.
LEMMA ConveyedKept == Typed /\ Conveyed /\ [Next]_vars => Conveyed'
<1> SUFFICES ASSUME Typed, Conveyed, [Next]_vars
             PROVE  Conveyed'
  OBVIOUS
<1> USE DEF netVars, loopVars
<1>1. CASE ServerStep
  <2>1. UNCHANGED <<sent, toClient, arrival, printed>>
    BY <1>1 DEF ServerStep, LinkLost, clientVars
  <2> QED
    BY <2>1, ConveyedElsewhere
<1>2. CASE \E text \in Texts : Reply(text)
  BY <1>2, ReplyConveyed
<1>3. CASE \E n \in 1 .. Len(toClient) : Receive(n)
  BY <1>3, ReceiveConveyed
<1>4. CASE Initialize(listening # "no")
  <2>1. UNCHANGED <<sent, toClient, arrival, printed>>
    BY <1>4 DEF Initialize, OpenWinsock, FindServer, OpenSocket, ConnectServer, Unblock,
                Goes, GivesUp
  <2> QED
    BY <2>1, ConveyedElsewhere
<1>5. CASE ReceiveNothing \/ ReceiveError \/ Keyboard \/ Disconnect
  <2>1. UNCHANGED <<sent, toClient, arrival, printed>>
    <3>1. CASE ReceiveNothing \/ ReceiveError \/ Disconnect
      BY <3>1 DEF ReceiveNothing, ReceiveError, Disconnect
    <3>2. CASE Keyboard
      BY <3>2 DEF Keyboard, NoKey, Escape, Backspace, Enter, Type
    <3> QED
      BY <1>5, <3>1, <3>2
  <2> QED
    BY <2>1, ConveyedElsewhere
<1>6. CASE UNCHANGED vars
  <2>1. UNCHANGED <<sent, toClient, arrival, printed>>
    BY <1>6 DEF vars, clientVars
  <2> QED
    BY <2>1, ConveyedElsewhere
<1> QED
  BY <1>1, <1>2, <1>3, <1>4, <1>5, <1>6 DEF Next, Client, ClientStep

\* What was sent and taken stays accounted for.
LEMMA AlwaysConveyed == Spec => [](Typed /\ Conveyed)
<1>1. Init => Typed /\ Conveyed
  BY TypedAtFirst, ConveyedAtFirst
<1>2. Typed /\ Conveyed /\ [Next]_vars => (Typed /\ Conveyed)'
  BY TypedKept, ConveyedKept
<1> QED
  BY <1>1, <1>2, PTL DEF Spec

\* As long as no message was cut, what CheckForReceive puts on the console are
\* messages the server sent, whole and in the order it sent them: whatever the
\* texts, however many there are in flight, and however recv joins them.
THEOREM ConsoleInOrder == Spec => []PrintedInOrder
<1>1. Conveyed => PrintedInOrder
  <2> SUFFICES ASSUME Conveyed, arrival # "cut"
               PROVE  \E number \in [DOMAIN printed -> DOMAIN sent] :
                         /\ \A k \in DOMAIN printed : printed[k] = sent[number[k]]
                         /\ \A j, k \in DOMAIN printed : j < k => number[j] < number[k]
    BY DEF PrintedInOrder
  <2>1. PICK number : Numbers(number)
    BY DEF Conveyed, PrintedBefore
  <2> QED
    BY <2>1 DEF Numbers
<1> QED
  BY <1>1, AlwaysConveyed, PTL

\* As long as every recv found one message, the console shows all that was
\* taken from the connection, and nothing was taken but whole messages.
THEOREM ConsoleIsComplete == Spec => []NothingLost
<1>1. Typed /\ Conveyed => NothingLost
  <2> SUFFICES ASSUME Typed, Conveyed, arrival = "separate"
               PROVE  /\ printed = SubSeq(sent, 1, Len(printed))
                      /\ BytesTaken = BytesSent(Len(printed))
    BY DEF NothingLost
  <2>1. /\ Len(printed) <= Len(sent)
        /\ \A k \in 1 .. Len(printed) : printed[k] = sent[k]
        /\ BytesTaken = BytesSent(Len(printed))
    BY DEF Conveyed, AllPrinted
  <2>2. printed \in Seq(Seq(Byte)) /\ Len(printed) \in Nat
    BY DEF Typed, TypeOK
  <2>3. sent \in Seq(Seq(Byte)) /\ Len(sent) \in Nat
    BY SentBytes
  <2>4. PICK part : part = SubSeq(sent, 1, Len(printed))
    OBVIOUS
  <2>5. /\ part \in Seq(Seq(Byte)) /\ Len(part) = Len(printed)
        /\ \A k \in 1 .. Len(printed) : part[k] = sent[k]
    <3>1. 1 \in 1 .. Len(sent) + 1 /\ Len(printed) \in 0 .. Len(sent)
      BY <2>1, <2>2, <2>3
    <3>2. \A k \in 1 .. Len(printed) : 1 + k - 1 = k
      BY <2>2
    <3>3. part \in Seq(Seq(Byte))
      BY <2>1, <2>2, <2>3, <2>4
    <3>4. Len(part) = Len(printed)
      BY <2>1, <2>2, <2>3, <2>4
    <3>5. \A k \in 1 .. Len(printed) : part[k] = sent[k]
      BY <2>1, <2>2, <2>3, <2>4, <3>2
    <3> QED
      BY <3>3, <3>4, <3>5
  <2>6. printed = part
    BY <2>1, <2>2, <2>5, SeqEqual
  <2> QED
    BY <2>1, <2>4, <2>6
<1> QED
  BY <1>1, AlwaysConveyed, PTL

-----------------------------------------------------------------------------
(* The bounds of the buffers.                                              *)

\* A frame no longer than twice the first size of a buffer, to which
\* CheckBufferCapacity lets it grow, is written inside the vector.
LEMMA CommandFits ==
    ASSUME NEW str \in Seq(Byte), FrameLength(str) <= 2 * BufferSize
    PROVE  CommandBuffer(CreateCommandData(str)).inBounds
<1>1. PICK cmd : cmd = CreateCommandData(str)
  OBVIOUS
<1>2. cmd.data1 \in Seq(Byte) /\ cmd.data2 \in Seq(Byte)
  BY <1>1, CommandParts
<1>3. PICK a, b \in Nat : a = Len(cmd.data1) /\ b = Len(cmd.data2)
  BY <1>2
<1>4. BufferSize \in Nat
  BY ProtocolAssumption
<1> DEFINE type == TypeOf(cmd.messageType)
           size == PacketLength(type, cmd.data1, cmd.data2)
           opened == Opened(size, type)
           first == WriteText(opened, cmd.data1)
<1>5. size = FrameLength(str)
  BY <1>1 DEF FrameLength
<1>6. /\ type \in Nat /\ size \in Nat
      /\ 12 + a <= 2 * BufferSize
      /\ type \in TwoFields => 12 + a + 4 + b <= 2 * BufferSize
  <2>1. type \in 0 .. 5
    BY TypeOfType
  <2>2. size = 8 + a + 4 + (IF type \in TwoFields THEN b + 4 ELSE 0)
    BY <1>3 DEF PacketLength
  <2>3. size <= 2 * BufferSize
    BY <1>5
  <2> HIDE DEF type, size
  <2>4. CASE type \in TwoFields
    <3>1. size = 8 + a + 4 + (b + 4)
      BY <2>2, <2>4
    <3>2. a \in Nat /\ b \in Nat /\ BufferSize \in Nat /\ size <= 2 * BufferSize
      BY <1>3, <1>4, <2>3
    <3>3. size \in Nat /\ 12 + a <= 2 * BufferSize /\ 12 + a + 4 + b <= 2 * BufferSize
      BY ONLY <3>1, <3>2
    <3> QED
      BY <2>1, <3>3
  <2>5. CASE type \notin TwoFields
    <3>1. size = 8 + a + 4 + 0
      BY <2>2, <2>5
    <3>2. size \in Nat /\ 12 + a <= 2 * BufferSize
      BY <1>3, <1>4, <2>3, <3>1
    <3> QED
      BY <2>1, <2>5, <3>2
  <2> QED
    BY <2>4, <2>5
<1>7. CommandBuffer(cmd) =
          IF type \in TwoFields THEN WriteText(first, cmd.data2) ELSE first
  BY DEF CommandBuffer
<1> HIDE DEF type, size
<1>8. /\ Fits(opened) /\ opened.inBounds /\ opened.m_WriteIndex = 8
      /\ BufferSize <= Len(opened.m_Data)
  BY <1>6, OpenedFields
<1> HIDE DEF opened
<1>9. first.inBounds /\ BufferSize <= Len(first.m_Data)
  <2>1. opened \in Buffers /\ opened.m_WriteIndex + 4 + Len(cmd.data1) <= 2 * BufferSize
    <3>1. 8 + 4 + a <= 2 * BufferSize
      BY <1>3, <1>4, <1>6
    <3> QED
      BY <1>3, <1>8, <3>1 DEF Fits
  <2> QED
    BY <1>2, <1>8, <2>1, TextFits
<1>10. Fits(first) /\ first.m_WriteIndex = 12 + a
  <2>1. Fits(first) /\ first.m_WriteIndex = opened.m_WriteIndex + 4 + Len(cmd.data1)
    BY <1>2, <1>8, <1>9, TextAddsFields
  <2> HIDE DEF first
  <2> QED
    BY <1>3, <1>8, <2>1
<1> HIDE DEF first
<1>11. ASSUME type \in TwoFields
       PROVE  WriteText(first, cmd.data2).inBounds
  <2>1. first \in Buffers /\ first.m_WriteIndex + 4 + Len(cmd.data2) <= 2 * BufferSize
    <3>1. 12 + a + 4 + b <= 2 * BufferSize
      BY <1>6, <1>11
    <3> QED
      BY <1>3, <1>10, <3>1 DEF Fits
  <2> QED
    BY <1>2, <1>9, <2>1, TextFits
<1>12. CommandBuffer(cmd).inBounds
  BY <1>7, <1>9, <1>11
<1> QED
  BY <1>1, <1>12

\* A frame has a length.
LEMMA FrameLengthType ==
    ASSUME NEW str \in Seq(Byte)
    PROVE  FrameLength(str) \in Nat
<1>1. PICK cmd : cmd = CreateCommandData(str)
  OBVIOUS
<1>2. cmd.data1 \in Seq(Byte) /\ cmd.data2 \in Seq(Byte)
  BY <1>1, CommandParts
<1>3. PICK a, b \in Nat : a = Len(cmd.data1) /\ b = Len(cmd.data2)
  BY <1>2
<1>4. FrameLength(str) = 8 + a + 4 + (IF TypeOf(cmd.messageType) \in TwoFields THEN b + 4 ELSE 0)
  BY <1>1, <1>3 DEF FrameLength, PacketLength
<1>5. 8 + a + 4 + (b + 4) \in Nat /\ 8 + a + 4 + 0 \in Nat
  OBVIOUS
<1> QED
  BY <1>4, <1>5

\* The step that overruns a buffer.
Overruns == clientAt # "overrun" /\ clientAt' = "overrun"

\* A step that overruns a buffer takes a message that is cut, or a line that
\* is too long.
LEMMA OverrunCause ==
    ASSUME Typed, Conveyed, [Next]_vars, Overruns
    PROVE  \/ clientAt = "receive" /\ arrival' = "cut"
           \/ clientAt = "keyboard" /\ FrameLength(message) > 2 * BufferSize
<1> USE DEF netVars, loopVars
<1>1. clientAt' # clientAt
  BY DEF Overruns
<1>2. CASE ServerStep
  BY <1>1, <1>2 DEF ServerStep, LinkLost, clientVars
<1>3. CASE \E text \in Texts : Reply(text)
  BY <1>1, <1>3 DEF Reply
<1>4. CASE \E n \in 1 .. Len(toClient) : Receive(n)
  <2>1. PICK n \in 1 .. Len(toClient) : Receive(n)
    BY <1>4
  <2>2. CASE arrival' # "cut"
    BY <2>1, <2>2, WholeMessagePrinted DEF Overruns
  <2>3. clientAt = "receive"
    BY <2>1 DEF Receive
  <2> QED
    BY <2>2, <2>3
<1>5. CASE Initialize(listening # "no")
  BY <1>5 DEF Overruns, Initialize, OpenWinsock, FindServer, OpenSocket, ConnectServer,
              Unblock, Goes, GivesUp
<1>6. CASE ReceiveNothing \/ ReceiveError \/ Disconnect
  BY <1>6 DEF Overruns, ReceiveNothing, ReceiveError, Disconnect
<1>7. CASE Keyboard
  <2>1. CASE Enter
    <3>1. ~CommandBuffer(CreateCommandData(message)).inBounds /\ clientAt = "keyboard"
      BY <2>1 DEF Overruns, Enter, AfterKey
    <3>2. message \in Seq(Byte)
      BY DEF Typed
    <3>3. ~(FrameLength(message) <= 2 * BufferSize)
      BY <3>1, <3>2, CommandFits
    <3>4. FrameLength(message) \in Nat /\ BufferSize \in Nat
      BY <3>2, FrameLengthType, ProtocolAssumption
    <3> QED
      BY <3>1, <3>3, <3>4
  <2>2. CASE NoKey \/ Escape \/ Backspace \/ \E symbol : Type(symbol)
    BY <2>2 DEF Overruns, NoKey, Escape, Backspace, Type, AfterKey
  <2> QED
    BY <1>7, <2>1, <2>2 DEF Keyboard
<1>8. CASE UNCHANGED vars
  BY <1>1, <1>8 DEF vars, clientVars
<1> QED
  BY <1>2, <1>3, <1>4, <1>5, <1>6, <1>7, <1>8 DEF Next, Client, ClientStep

\* Whatever is typed and sent, a buffer is overrun only by a recv that cut a
\* message, whose length CheckForReceive then misreads, or by a line whose
\* frame, which ParseAndSendMessage never checks, is longer than a buffer that
\* was doubled once.
THEOREM OnlyLongLinesOverrun == Spec => StaysInBounds
<1>1. Typed /\ Conveyed /\ [Next]_vars =>
          [clientAt # "overrun" /\ clientAt' = "overrun" =>
              \/ clientAt = "receive" /\ arrival' = "cut"
              \/ clientAt = "keyboard" /\ FrameLength(message) > 2 * BufferSize]_vars
  BY OverrunCause DEF Overruns
<1> QED
  BY <1>1, AlwaysConveyed, PTL DEF Spec, StaysInBounds

-----------------------------------------------------------------------------
(* What the server makes of a command.                                     *)

\* The numbers that four bytes hold; a length within BufferSize is one.
Word32(number) == number \in Nat /\ number < 4294967296

\* Lengths that fit a buffer are numbers of 32 bits.
LEMMA LengthsAreWords ==
    ASSUME NEW number \in Nat, number <= BufferSize
    PROVE  Word32(number)
BY ProtocolAssumption, SMT DEF Word32

\* A number is read where its bytes are.
LEMMA FieldNumber ==
    ASSUME NEW data \in Seq(Byte), NEW at \in Nat, at + 4 <= Len(data),
           NEW number, Word32(number),
           \A k \in 1 .. 4 : data[at + k] = BytesOf32(number)[k],
           NEW buffer, buffer.m_Data = data, buffer.m_ReadIndex = at
    PROVE  ReadUInt32LE(buffer) = number
<1>1. ReadUInt32LE(buffer) = data[at + 1] + 256 * data[at + 2] + 65536 * data[at + 3]
                                 + 16777216 * data[at + 4]
  <2>1. /\ data \in Seq(Byte) /\ at \in Nat /\ at + 4 <= Len(data)
        /\ buffer.m_Data = data /\ buffer.m_ReadIndex = at
    OBVIOUS
  <2> QED
    BY ONLY <2>1, NumberRead
<1>2. BytesOf32(number)[1] + 256 * BytesOf32(number)[2] + 65536 * BytesOf32(number)[3]
          + 16777216 * BytesOf32(number)[4] = number
  BY BytesAddUp, SMT DEF Word32
<1>3. /\ data[at + 1] = BytesOf32(number)[1] /\ data[at + 2] = BytesOf32(number)[2]
      /\ data[at + 3] = BytesOf32(number)[3] /\ data[at + 4] = BytesOf32(number)[4]
  OBVIOUS
<1> QED
  BY <1>1, <1>2, <1>3

\* The first bytes of the text lie in the data behind an index.
LiesAt(data, at, text, length) == \A k \in 1 .. length : data[at + k] = text[k]

\* A text is read where its bytes are, as far as the length goes.
LEMMA FieldText ==
    ASSUME NEW data \in Seq(Byte), NEW at \in Nat, NEW text \in Seq(Byte),
           NEW length \in 0 .. Len(text), at + length <= Len(data),
           LiesAt(data, at, text, length),
           NEW buffer, buffer.m_Data = data, buffer.m_ReadIndex = at
    PROVE  ReadString(buffer, length) = SubSeq(text, 1, length)
<1>1. length \in Nat /\ Len(text) \in Nat /\ Len(data) \in Nat
  OBVIOUS
<1>2. PICK last \in Nat : last = at + length
  BY <1>1
<1> DEFINE read == SubSeq(data, at + 1, last)
           part == SubSeq(text, 0 + 1, length)
<1>3. /\ read \in Seq(Byte)
      /\ Len(read) = IF at < last THEN last - at ELSE 0
      /\ \A k \in 1 .. last - at : read[k] = data[at + k]
  <2>1. last <= Len(data)
    BY <1>2
  <2> QED
    BY <2>1, PartOf
<1>4. /\ part \in Seq(Byte)
      /\ Len(part) = IF 0 < length THEN length - 0 ELSE 0
      /\ \A k \in 1 .. length - 0 : part[k] = text[0 + k]
  <2>1. length <= Len(text)
    OBVIOUS
  <2> QED
    BY <1>1, <2>1, PartOf
<1>5. /\ 0 + 1 = 1 /\ length - 0 = length /\ last - at = length
      /\ \A k \in 1 .. length : 0 + k = k
  BY <1>1, <1>2
<1> HIDE DEF read, part
<1>6. Len(read) = length /\ Len(part) = length
  BY <1>1, <1>2, <1>3, <1>4
<1>7. \A k \in 1 .. length : read[k] = part[k]
  BY <1>3, <1>4, <1>5 DEF LiesAt
<1>8. read = part
  BY <1>3, <1>4, <1>6, <1>7, SeqEqual
<1> QED
  BY <1>2, <1>5, <1>8 DEF ReadString, read, part

\* The server has the frame at the start of its buffer.
LEMMA ServerBufferHolds ==
    ASSUME NEW frame \in Seq(Byte), Len(frame) <= BufferSize
    PROVE  /\ ServerBuffer(frame).m_Data \in Seq(Byte)
           /\ Len(ServerBuffer(frame).m_Data) = BufferSize
           /\ ServerBuffer(frame).m_ReadIndex = 4
           /\ \A k \in 1 .. Len(frame) : ServerBuffer(frame).m_Data[k] = frame[k]
           /\ \A n : /\ Advance(ServerBuffer(frame), n).m_Data = ServerBuffer(frame).m_Data
                     /\ Advance(ServerBuffer(frame), n).m_ReadIndex = 4 + n
           /\ Reset(ServerBuffer(frame)).m_Data = ServerBuffer(frame).m_Data
           /\ Reset(ServerBuffer(frame)).m_ReadIndex = 0
<1> DEFINE new == NewBuffer(BufferSize)
           data == Overwritten(new.m_Data, 0, frame)
<1>1. /\ new \in Buffers /\ new.m_Data \in Seq(Byte) /\ Len(new.m_Data) = BufferSize
  BY NewBufferType DEF Buffers
<1>2. Len(frame) \in Nat /\ \A k \in 1 .. Len(frame) : 0 + k = k
  OBVIOUS
<1> HIDE DEF new
<1>3. /\ data \in Seq(Byte) /\ Len(data) = BufferSize
      /\ \A k \in 1 .. Len(frame) : data[0 + k] = frame[k]
  <2>1. 0 + Len(frame) <= Len(new.m_Data) /\ 0 \in Nat
    BY <1>1, <1>2
  <2> QED
    BY <1>1, <2>1, OverwritingPuts
<1>4. ServerBuffer(frame) = [new EXCEPT !.m_Data = data, !.m_ReadIndex = 4]
  BY DEF ServerBuffer, new
<1> HIDE DEF data
<1>5. /\ ServerBuffer(frame).m_Data = data /\ ServerBuffer(frame).m_ReadIndex = 4
      /\ ServerBuffer(frame) \in Buffers
  <2>1. PICK base \in Buffers : base = new
    BY <1>1
  <2>2. PICK bytes \in Seq(Byte) : bytes = data
    BY <1>3
  <2>3. /\ [base EXCEPT !.m_Data = bytes, !.m_ReadIndex = 4].m_Data = bytes
        /\ [base EXCEPT !.m_Data = bytes, !.m_ReadIndex = 4].m_ReadIndex = 4
        /\ [base EXCEPT !.m_Data = bytes, !.m_ReadIndex = 4] \in Buffers
    BY DEF Buffers
  <2> QED
    BY <1>4, <2>1, <2>2, <2>3
<1>6. /\ \A n : /\ Advance(ServerBuffer(frame), n).m_Data = data
                /\ Advance(ServerBuffer(frame), n).m_ReadIndex = 4 + n
      /\ Reset(ServerBuffer(frame)).m_Data = data
      /\ Reset(ServerBuffer(frame)).m_ReadIndex = 0
  <2>1. PICK server \in Buffers : server = ServerBuffer(frame)
    BY <1>5
  <2>2. server.m_Data = data /\ server.m_ReadIndex = 4
    BY <1>5, <2>1
  <2>3. \A n : /\ Advance(server, n).m_Data = data
               /\ Advance(server, n).m_ReadIndex = 4 + n
    BY <2>2 DEF Advance, Buffers
  <2>4. Reset(server).m_Data = data /\ Reset(server).m_ReadIndex = 0
    BY <2>2 DEF Reset, Buffers
  <2> QED
    BY <2>1, <2>3, <2>4
<1> QED
  BY <1>2, <1>3, <1>5, <1>6

\* What ParseMessageFromClient makes of a command's frame, and the length it
\* finds at the beginning of it.
LEMMA CommandRead ==
    ASSUME NEW type \in 0 .. 5, NEW data1 \in Seq(Byte), NEW data2 \in Seq(Byte),
           NEW cmd, TypeOf(cmd.messageType) = type, cmd.data1 = data1, cmd.data2 = data2,
           CommandBuffer(cmd).inBounds, Len(CommandFrame(cmd)) <= BufferSize
    PROVE  LET server == ServerBuffer(CommandFrame(cmd))
           IN  /\ ReadUInt32LE(Reset(server)) = Len(CommandFrame(cmd))
               /\ type \in 1 .. 5 =>
                     ParseMessageFromClient(server) =
                         [type |-> type, data1 |-> data1,
                          data2 |-> IF type \notin TwoFields THEN << >>
                                    ELSE SubSeq(data2, 1, Clamped(Len(data2)))]
<1> DEFINE frame == CommandFrame(cmd)
           size == PacketLength(type, data1, data2)
           server == ServerBuffer(frame)
           buffer == CommandBuffer(cmd)
<1>1. PICK a, b \in Nat : a = Len(data1) /\ b = Len(data2)
  OBVIOUS
<1>2. /\ size = IF type \in TwoFields THEN 16 + a + b ELSE 12 + a
      /\ size \in Nat /\ 12 + a <= size
  <2>1. \A x, y \in Nat : /\ 8 + x + 4 + (y + 4) = 16 + x + y /\ 16 + x + y \in Nat
                         /\ 12 + x <= 16 + x + y /\ 12 + x <= 12 + x
                         /\ 8 + x + 4 + 0 = 12 + x /\ 12 + x \in Nat
    OBVIOUS
  <2>2. CASE type \in TwoFields
    BY <1>1, <2>1, <2>2 DEF PacketLength
  <2>3. CASE type \notin TwoFields
    BY <1>1, <2>1, <2>3 DEF PacketLength
  <2> QED
    BY <2>2, <2>3
<1> HIDE DEF size
<1>3. /\ Holds(buffer, 0, BytesOf32(size)) /\ Holds(buffer, 4, BytesOf32(type))
      /\ Holds(buffer, 8, BytesOf32(a)) /\ Holds(buffer, 12, data1)
      /\ type \in TwoFields => Holds(buffer, 12 + a, BytesOf32(b)) /\ Holds(buffer, 16 + a, data2)
      /\ frame \in Seq(Byte) /\ Len(frame) = size
      /\ \A k \in 1 .. size : frame[k] = buffer.m_Data[k]
  BY <1>1, CommandFrameType DEF size
<1> HIDE DEF buffer, frame
<1>4. size <= BufferSize /\ Len(frame) <= BufferSize
  BY <1>3 DEF frame
<1>5. BufferSize \in Nat
  BY ProtocolAssumption
<1>6. PICK data \in Seq(Byte) : data = server.m_Data
  BY <1>3, <1>4, ServerBufferHolds
<1>7. /\ Len(data) = BufferSize /\ server.m_Data = data /\ server.m_ReadIndex = 4
      /\ \A n : /\ Advance(server, n).m_Data = data
                /\ Advance(server, n).m_ReadIndex = 4 + n
      /\ Reset(server).m_Data = data /\ Reset(server).m_ReadIndex = 0
  BY <1>3, <1>4, <1>6, ServerBufferHolds
<1>8. \A k \in 1 .. size : data[k] = buffer.m_Data[k]
  BY <1>3, <1>4, <1>6, ServerBufferHolds
<1> HIDE DEF server
<1>9. ASSUME NEW at \in Nat, NEW field \in Seq(Byte), Holds(buffer, at, field),
             at + Len(field) <= size
      PROVE  \A k \in 1 .. Len(field) : data[at + k] = field[k]
  <2>1. Len(field) \in Nat
    BY <1>9
  <2>2. \A k \in 1 .. Len(field) : at + k \in 1 .. size
    BY <1>2, <1>9, <2>1
  <2> QED
    BY <1>8, <1>9, <2>2 DEF Holds
<1>10. ASSUME NEW at \in Nat, NEW number \in Nat, number <= size,
              Holds(buffer, at, BytesOf32(number)), at + 4 <= size,
              NEW reader, reader.m_Data = data, reader.m_ReadIndex = at
       PROVE  ReadUInt32LE(reader) = number
  <2>1. BytesOf32(number) \in Seq(Byte) /\ Len(BytesOf32(number)) = 4
    BY <1>10, FourBytes
  <2>2. \A k \in 1 .. 4 : data[at + k] = BytesOf32(number)[k]
    <3>1. PICK field \in Seq(Byte) : field = BytesOf32(number)
      BY <2>1
    <3>2. Len(field) = 4 /\ Holds(buffer, at, field) /\ at + Len(field) <= size
      BY <1>10, <2>1, <3>1
    <3>3. \A k \in 1 .. Len(field) : data[at + k] = field[k]
      BY <1>9, <3>2
    <3> QED
      BY <3>1, <3>2, <3>3
  <2>3. at + 4 <= Len(data) /\ number <= BufferSize
    BY <1>2, <1>4, <1>5, <1>7, <1>10
  <2>4. Word32(number)
    BY <2>3, LengthsAreWords
  <2> QED
    BY <1>10, <2>2, <2>3, <2>4, FieldNumber
<1>11. ReadUInt32LE(Reset(server)) = size
  <2>1. 0 \in Nat /\ size \in Nat /\ size <= size /\ 0 + 4 <= size
    BY <1>1, <1>2
  <2>2. PICK reader : reader = Reset(server)
    OBVIOUS
  <2>3. reader.m_Data = data /\ reader.m_ReadIndex = 0
    BY <1>7, <2>2
  <2>4. Holds(buffer, 0, BytesOf32(size))
    BY <1>3
  <2>5. ReadUInt32LE(reader) = size
    BY <1>10, <2>1, <2>3, <2>4
  <2> QED
    BY <2>2, <2>5
<1>12. ReadUInt32LE(server) = type
  <2>1. 4 \in Nat /\ type \in Nat /\ type <= size /\ 4 + 4 <= size
    BY <1>1, <1>2
  <2>2. server.m_Data = data /\ server.m_ReadIndex = 4
    BY <1>7
  <2>3. Holds(buffer, 4, BytesOf32(type))
    BY <1>3
  <2> QED
    BY <1>10, <2>1, <2>2, <2>3
<1> DEFINE first == Advance(server, 4)
           second == Advance(first, 4 + a)
<1>13. ReadUInt32LE(first) = a
  <2>1. 8 \in Nat /\ a \in Nat /\ a <= size /\ 8 + 4 <= size
    BY <1>1, <1>2
  <2>2. first.m_Data = data /\ first.m_ReadIndex = 8
    <3>1. first.m_Data = data /\ first.m_ReadIndex = 4 + 4
      BY <1>7
    <3> QED
      BY <3>1
  <2>3. Holds(buffer, 8, BytesOf32(a))
    BY <1>3
  <2> HIDE DEF first, second
  <2> QED
    BY <1>10, <2>1, <2>2, <2>3
<1>14. ReadString(Advance(first, 4), a) = data1
  <2>1. \A k \in 1 .. a : data[12 + k] = data1[k]
    BY <1>1, <1>2, <1>3, <1>9
  <2>2. 12 + a <= Len(data)
    BY <1>1, <1>2, <1>4, <1>5, <1>7
  <2>3. Advance(first, 4).m_Data = data /\ Advance(first, 4).m_ReadIndex = 12
    BY <1>7 DEF Advance
  <2> DEFINE reader == Advance(first, 4)
  <2> HIDE DEF reader
  <2>4. ReadString(reader, a) = SubSeq(data1, 1, a)
    <3>1. a \in 0 .. Len(data1)
      BY <1>1
    <3>2. reader.m_Data = data /\ reader.m_ReadIndex = 12
      BY <2>3 DEF reader
    <3>3. /\ data \in Seq(Byte) /\ 12 \in Nat /\ data1 \in Seq(Byte)
          /\ a \in 0 .. Len(data1) /\ 12 + a <= Len(data)
          /\ LiesAt(data, 12, data1, a)
          /\ reader.m_Data = data /\ reader.m_ReadIndex = 12
      BY <2>1, <2>2, <3>1, <3>2 DEF LiesAt
    <3> QED
      BY ONLY <3>3, FieldText
  <2>5. SubSeq(data1, 1, a) = data1
    BY <1>1
  <2> QED
    BY <2>4, <2>5 DEF reader
<1>15. ASSUME type \in TwoFields
       PROVE  ReadString(Advance(second, 4), Clamped(ReadUInt32LE(second))) =
                  SubSeq(data2, 1, Clamped(b))
  <2>1. /\ second.m_Data = data /\ second.m_ReadIndex = 12 + a
        /\ Advance(second, 4).m_Data = data /\ Advance(second, 4).m_ReadIndex = 16 + a
    BY <1>1, <1>7 DEF Advance
  <2> HIDE DEF second
  <2>2. ReadUInt32LE(second) = b
    <3>1. PICK at \in Nat : at = 12 + a
      BY <1>1
    <3>2. b \in Nat /\ b <= size /\ at + 4 <= size
      BY <1>1, <1>2, <1>15, <3>1
    <3>3. Holds(buffer, at, BytesOf32(b))
      BY <1>3, <1>15, <3>1
    <3>4. second.m_Data = data /\ second.m_ReadIndex = at
      BY <2>1, <3>1
    <3> QED
      BY <1>10, <3>2, <3>3, <3>4
  <2>3. \A k \in 1 .. b : data[16 + a + k] = data2[k]
    <3>1. PICK at \in Nat : at = 16 + a
      BY <1>1
    <3>2. at + Len(data2) <= size
      BY <1>1, <1>2, <1>15, <3>1
    <3>3. Holds(buffer, at, data2)
      BY <1>3, <1>15, <3>1
    <3>4. \A k \in 1 .. Len(data2) : data[at + k] = data2[k]
      BY <1>9, <3>2, <3>3
    <3> QED
      BY <1>1, <3>1, <3>4
  <2>4. PICK c \in 0 .. b : c = Clamped(b)
    BY <1>1, ProtocolAssumption DEF Clamped
  <2>5. \A k \in 1 .. c : k \in 1 .. b
    OBVIOUS
  <2>6. 16 + a + c <= Len(data) /\ 16 + a \in Nat /\ c \in 0 .. Len(data2)
    BY <1>1, <1>2, <1>4, <1>5, <1>7, <1>15
  <2> DEFINE reader == Advance(second, 4)
  <2> HIDE DEF reader
  <2>7. ReadString(reader, c) = SubSeq(data2, 1, c)
    <3>1. reader.m_Data = data /\ reader.m_ReadIndex = 16 + a
      BY <2>1 DEF reader
    <3>2. \A k \in 1 .. c : data[16 + a + k] = data2[k]
      BY <2>3, <2>5
    <3>3. PICK at \in Nat : at = 16 + a
      BY <2>6
    <3>4. /\ data \in Seq(Byte) /\ at \in Nat /\ data2 \in Seq(Byte)
          /\ c \in 0 .. Len(data2) /\ at + c <= Len(data)
          /\ LiesAt(data, at, data2, c)
          /\ reader.m_Data = data /\ reader.m_ReadIndex = at
      BY <2>6, <3>1, <3>2, <3>3 DEF LiesAt
    <3> QED
      BY ONLY <3>4, FieldText
  <2> QED
    BY <2>2, <2>4, <2>7 DEF reader
<1>16. ASSUME type \in 1 .. 5
       PROVE  ParseMessageFromClient(server) =
                  [type |-> type, data1 |-> data1,
                   data2 |-> IF type \notin TwoFields THEN << >>
                             ELSE SubSeq(data2, 1, Clamped(Len(data2)))]
  <2>1. type \in JOIN_A_ROOM .. AUTHENTICATE_ACCOUNT
    BY <1>16 DEF JOIN_A_ROOM, AUTHENTICATE_ACCOUNT
  <2> HIDE DEF first, second
  <2>2. ParseMessageFromClient(server) =
            [type |-> type, data1 |-> ReadString(Advance(first, 4), a),
             data2 |-> IF type \in TwoFields
                       THEN ReadString(Advance(second, 4), Clamped(ReadUInt32LE(second)))
                       ELSE << >>]
    BY <1>12, <1>13, <2>1 DEF ParseMessageFromClient, first, second
  <2> QED
    BY <1>1, <1>14, <1>15, <2>2
<1> QED
  BY <1>3, <1>11, <1>16 DEF server, frame

\* The word of a type is the symbol of the same number.
LEMMA WordOfType ==
    ASSUME NEW type \in 1 .. 5
    PROVE  /\ (CHOOSE word \in 1 .. 7 : TypeOf(<< word >>) = type) = type
           /\ TypeOf(<< type >>) = type
<1>1. \A word : << word >> = << Word.join >> <=> word = 1
  BY DEF Word
<1>2. \A word : << word >> = << Word.leave >> <=> word = 2
  BY DEF Word
<1>3. \A word : << word >> = << Word.send >> <=> word = 3
  BY DEF Word
<1>4. \A word : << word >> = << Word.create >> <=> word = 4
  BY DEF Word
<1>5. \A word : << word >> = << Word.auth >> <=> word = 5
  BY DEF Word
<1>6. \A word \in 1 .. 7 : TypeOf(<< word >>) = IF word \in 1 .. 5 THEN word ELSE 0
  BY <1>1, <1>2, <1>3, <1>4, <1>5
     DEF TypeOf, NONE, JOIN_A_ROOM, LEAVE_THE_ROM, SEND_THE_MSAGE_TO_ROOM,
         CREATE_ACCOUNT, AUTHENTICATE_ACCOUNT
<1>7. \A word \in 1 .. 7 : TypeOf(<< word >>) = type <=> word = type
  BY <1>6
<1>8. type \in 1 .. 7
  OBVIOUS
<1> QED
  BY <1>7, <1>8

\* A line with a command: its word, a space, a field, and perhaps another
\* space and all the rest.
Opening(type) == << type, Space >>
Rest(two, last) == IF two THEN << Space >> \o last ELSE << >>
LineOf(type, first, rest) == Opening(type) \o first \o rest

\* Its parts are one behind the other.
Joined(line, type, first, rest) ==
    /\ line \in Seq(Byte)
    /\ Len(line) = 2 + Len(first) + Len(rest)
    /\ line[1] = type /\ line[2] = Space
    /\ \A k \in 1 .. Len(first) : line[2 + k] = first[k]
    /\ \A k \in 1 .. Len(rest) : line[2 + Len(first) + k] = rest[k]

\* A line of a type, a first and a second part is put together from them.
LEMMA PartsJoined ==
    ASSUME NEW type \in 1 .. 5, NEW first \in Seq(Byte), NEW rest \in Seq(Byte)
    PROVE  Joined(LineOf(type, first, rest), type, first, rest)
<1>0. PICK line : line = LineOf(type, first, rest)
  OBVIOUS
<1>1. PICK n, m \in Nat : n = Len(first) /\ m = Len(rest)
  OBVIOUS
<1>2. PICK opening \in Seq(Byte) :
          opening = Opening(type) /\ Len(opening) = 2 /\ opening[1] = type /\ opening[2] = Space
  <2>1. type \in Byte /\ Space \in Byte
    BY DEF Byte, Space
  <2>2. << type, Space >> \in Seq(Byte) /\ Len(<< type, Space >>) = 2
        /\ << type, Space >>[1] = type /\ << type, Space >>[2] = Space
    BY <2>1
  <2> QED
    BY <2>2 DEF Opening
<1> DEFINE head == opening \o first
<1>3. /\ head \in Seq(Byte) /\ Len(head) = 2 + n
      /\ \A k \in 1 .. 2 + n : head[k] = IF k <= 2 THEN opening[k] ELSE first[k - 2]
  <2>1. /\ head \in Seq(Byte) /\ Len(head) = Len(opening) + Len(first)
        /\ \A k \in 1 .. Len(opening) + Len(first) :
              head[k] = IF k <= Len(opening) THEN opening[k] ELSE first[k - Len(opening)]
    BY ConcatProperties
  <2> HIDE DEF head
  <2> QED
    BY <1>1, <1>2, <2>1
<1> HIDE DEF head
<1>4. /\ line \in Seq(Byte) /\ Len(line) = 2 + n + m
      /\ \A k \in 1 .. 2 + n + m :
            line[k] = IF k <= 2 + n THEN head[k] ELSE rest[k - (2 + n)]
  <2>1. line = head \o rest
    BY <1>0, <1>2 DEF LineOf, head
  <2>2. PICK start \in Seq(Byte) : start = head
    BY <1>3
  <2>3. /\ start \o rest \in Seq(Byte) /\ Len(start \o rest) = Len(start) + Len(rest)
        /\ \A k \in 1 .. Len(start) + Len(rest) :
              (start \o rest)[k] = IF k <= Len(start) THEN start[k] ELSE rest[k - Len(start)]
    BY ConcatProperties
  <2>4. Len(start) = 2 + n /\ Len(rest) = m
    BY <1>1, <1>3, <2>2
  <2>5. line = start \o rest
    BY <2>1, <2>2
  <2> QED
    BY <2>2, <2>3, <2>4, <2>5
<1>5. /\ 1 \in 1 .. 2 + n /\ 1 \in 1 .. 2 + n + m /\ 2 \in 1 .. 2 + n /\ 2 \in 1 .. 2 + n + m
      /\ 1 <= 2 /\ 1 <= 2 + n /\ 2 <= 2 + n
      /\ \A k \in 1 .. n : /\ 2 + k \in 1 .. 2 + n /\ 2 + k \in 1 .. 2 + n + m
                           /\ 2 + k <= 2 + n /\ ~(2 + k <= 2) /\ 2 + k - 2 = k
      /\ \A k \in 1 .. m : /\ 2 + n + k \in 1 .. 2 + n + m
                           /\ ~(2 + n + k <= 2 + n) /\ 2 + n + k - (2 + n) = k
  OBVIOUS
<1>6. line[1] = type /\ line[2] = Space
  BY <1>2, <1>3, <1>4, <1>5
<1>7. \A k \in 1 .. n : line[2 + k] = first[k]
  BY <1>3, <1>4, <1>5
<1>8. ASSUME NEW k \in 1 .. m
      PROVE  line[2 + n + k] = rest[k]
  <2>1. /\ 2 + n + k \in 1 .. 2 + n + m
        /\ ~(2 + n + k <= 2 + n) /\ 2 + n + k - (2 + n) = k
    BY <1>5
  <2> QED
    BY <1>4, <2>1
<1> QED
  BY <1>0, <1>1, <1>4, <1>6, <1>7, <1>8 DEF Joined

\* A line has these parts where they belong.
Placed(line, type, first, two, last) ==
    /\ line \in Seq(Byte)
    /\ Len(line) = 2 + Len(first) + IF two THEN 1 + Len(last) ELSE 0
    /\ line[1] = type /\ line[2] = Space
    /\ \A k \in 1 .. Len(first) : line[2 + k] = first[k]
    /\ two => /\ line[3 + Len(first)] = Space
              /\ \A k \in 1 .. Len(last) : line[3 + Len(first) + k] = last[k]

\* The same where the second part may be missing.
LEMMA PartsPlaced ==
    ASSUME NEW type \in 1 .. 5, NEW first \in Seq(Byte), NEW last \in Seq(Byte),
           NEW two \in BOOLEAN
    PROVE  Placed(LineOf(type, first, Rest(two, last)), type, first, two, last)
<1> DEFINE rest == Rest(two, last)
<1>1. PICK n, m \in Nat : n = Len(first) /\ m = Len(last)
  OBVIOUS
<1>2. /\ rest \in Seq(Byte)
      /\ two => /\ Len(rest) = 1 + m /\ rest[1] = Space
                /\ \A k \in 1 .. m : rest[1 + k] = last[k]
      /\ ~two => Len(rest) = 0
  <2>1. CASE two
    <3>1. << Space >> \in Seq(Byte) /\ Len(<< Space >>) = 1 /\ << Space >>[1] = Space
      BY DEF Byte, Space
    <3>2. PICK space \in Seq(Byte) : space = << Space >>
      BY <3>1
    <3>3. /\ space \o last \in Seq(Byte) /\ Len(space \o last) = 1 + m
          /\ \A k \in 1 .. 1 + m : (space \o last)[k] = IF k <= 1 THEN space[k] ELSE last[k - 1]
      BY <1>1, <3>1, <3>2, ConcatProperties
    <3>4. /\ 1 \in 1 .. 1 + m
          /\ \A k \in 1 .. m : 1 + k \in 1 .. 1 + m /\ ~(1 + k <= 1) /\ 1 + k - 1 = k
      OBVIOUS
    <3>5. rest = space \o last
      BY <2>1, <3>2 DEF Rest
    <3> HIDE DEF rest
    <3> QED
      BY <2>1, <3>1, <3>2, <3>3, <3>4, <3>5
  <2>2. CASE ~two
    BY <2>2 DEF Rest
  <2> QED
    BY <2>1, <2>2
<1> HIDE DEF rest
<1>3. PICK tail \in Seq(Byte) : tail = rest
  BY <1>2
<1>4. PICK l \in Nat : l = Len(tail)
  OBVIOUS
<1>5. PICK line : line = LineOf(type, first, tail)
  OBVIOUS
<1>6. /\ line \in Seq(Byte) /\ Len(line) = 2 + Len(first) + Len(tail)
      /\ line[1] = type /\ line[2] = Space
      /\ \A k \in 1 .. Len(first) : line[2 + k] = first[k]
      /\ \A k \in 1 .. Len(tail) : line[2 + Len(first) + k] = tail[k]
  <2>1. Joined(LineOf(type, first, tail), type, first, tail)
    BY PartsJoined
  <2> QED
    BY <1>5, <2>1 DEF Joined
<1>7. /\ line \in Seq(Byte) /\ Len(line) = 2 + n + l
      /\ line[1] = type /\ line[2] = Space
      /\ \A k \in 1 .. n : line[2 + k] = first[k]
      /\ \A k \in 1 .. l : line[2 + n + k] = tail[k]
  BY <1>1, <1>4, <1>6
<1>8. CASE two
  <2>1. l = 1 + m /\ tail[1] = Space /\ \A k \in 1 .. m : tail[1 + k] = last[k]
    BY <1>2, <1>3, <1>4, <1>8
  <2>2. /\ 1 \in 1 .. l /\ 2 + n + 1 = 3 + n
        /\ \A k \in 1 .. m : 1 + k \in 1 .. l /\ 2 + n + (1 + k) = 3 + n + k
    BY <2>1
  <2>3. /\ line[3 + n] = Space
        /\ \A k \in 1 .. m : line[3 + n + k] = last[k]
    BY <1>7, <2>1, <2>2
  <2>4. Placed(line, type, first, two, last)
    BY <1>1, <1>7, <1>8, <2>1, <2>3 DEF Placed
  <2> QED
    BY <1>3, <1>5, <2>4 DEF rest
<1>9. CASE ~two
  <2>1. l = 0
    BY <1>2, <1>3, <1>4, <1>9
  <2>2. Placed(line, type, first, two, last)
    BY <1>1, <1>7, <1>9, <2>1 DEF Placed
  <2> QED
    BY <1>3, <1>5, <2>2 DEF rest
<1> QED
  BY <1>8, <1>9

\* The parts of such a line are what CreateCommandData finds in it.
LEMMA LineParts ==
    ASSUME NEW type \in 1 .. 5, NEW first \in Seq(Byte), NEW last \in Seq(Byte),
           NEW two \in BOOLEAN, ~Contains(first, Space),
           NEW line, Placed(line, type, first, two, last)
    PROVE  CreateCommandData(line) =
               [messageType |-> << type >>, data1 |-> first,
                data2 |-> IF two THEN last ELSE << >>]
<1> DEFINE cmdPos == SelectInSeq(line, IsSpace)
           roomPos == SelectInSubSeq(line, cmdPos + 1, Len(line), IsSpace)
<1>1. PICK n, m \in Nat : n = Len(first) /\ m = Len(last)
  OBVIOUS
<1>2. PICK l \in Nat : l = IF two THEN 1 + m ELSE 0
  OBVIOUS
<1>3. /\ line \in Seq(Byte) /\ Len(line) = 2 + n + l
      /\ line[1] = type /\ line[2] = Space
      /\ \A k \in 1 .. n : line[2 + k] = first[k]
      /\ two => /\ line[3 + n] = Space
                /\ \A k \in 1 .. m : line[3 + n + k] = last[k]
  BY <1>1, <1>2 DEF Placed
<1>4. \A k \in 1 .. n : line[2 + k] # Space
  BY <1>1, <1>3 DEF Contains
<1>5. type # Space
  BY DEF Space
<1>6. cmdPos = 2
  <2>1. /\ cmdPos = 0 => \A k \in 1 .. Len(line) : line[k] # Space
        /\ cmdPos # 0 => /\ cmdPos \in 1 .. Len(line)
                         /\ line[cmdPos] = Space
                         /\ \A k \in 1 .. cmdPos - 1 : line[k] # Space
    BY <1>3, FirstSpaceFound
  <2> HIDE DEF cmdPos
  <2>2. 2 \in 1 .. Len(line)
    BY <1>3
  <2>3. cmdPos # 0
    BY <1>3, <2>1, <2>2
  <2>4. cmdPos # 1
    BY <1>3, <1>5, <2>1
  <2>5. cmdPos <= 2
    BY <1>3, <2>1, <2>3
  <2> QED
    BY <1>3, <2>1, <2>3, <2>4, <2>5
<1> HIDE DEF cmdPos
<1>7. /\ roomPos = 0 => \A k \in 2 + 1 .. Len(line) : line[k] # Space
      /\ roomPos # 0 => /\ roomPos \in 2 + 1 .. Len(line)
                        /\ line[roomPos] = Space
                        /\ \A k \in 2 + 1 .. roomPos - 1 : line[k] # Space
  <2>1. 2 \in 0 .. Len(line)
    BY <1>3
  <2>2. roomPos = SelectInSubSeq(line, 2 + 1, Len(line), IsSpace)
    BY <1>6
  <2> HIDE DEF roomPos
  <2> QED
    BY <1>3, <2>1, <2>2, SpaceFound
<1>8. SubSeq(line, 1, cmdPos - 1) = << type >>
  <2>1. cmdPos - 1 = 1
    BY <1>6
  <2>2. SubSeq(line, 0 + 1, 1) \in Seq(Byte) /\ Len(SubSeq(line, 0 + 1, 1)) = 1
        /\ SubSeq(line, 0 + 1, 1)[1] = line[0 + 1]
    <3>1. 0 \in Nat /\ 1 \in Nat /\ 1 <= Len(line) /\ 0 < 1 /\ 1 - 0 = 1 /\ 1 \in 1 .. 1 - 0
      BY <1>3
    <3> QED
      BY <1>3, <3>1, PartOf
  <2>3. << type >> \in Seq(Byte) /\ Len(<< type >>) = 1 /\ << type >>[1] = type
    BY DEF Byte
  <2>4. \A k \in 1 .. 1 : k = 1
    OBVIOUS
  <2>5. SubSeq(line, 0 + 1, 1) = << type >>
    <3>1. PICK part, word \in Seq(Byte) : part = SubSeq(line, 0 + 1, 1) /\ word = << type >>
      BY <2>2, <2>3
    <3>2. Len(part) = Len(word) /\ \A k \in 1 .. Len(part) : part[k] = word[k]
      BY <1>3, <2>2, <2>3, <2>4, <3>1
    <3>3. part = word
      BY <3>2, SeqEqual
    <3> QED
      BY <3>1, <3>3
  <2> QED
    BY <2>1, <2>5
<1>9. ASSUME NEW part \in Seq(Byte), NEW from \in Nat, NEW upTo \in Nat, upTo <= Len(line),
              upTo = from + Len(part),
              \A k \in 1 .. Len(part) : line[from + k] = part[k]
       PROVE  SubSeq(line, from + 1, upTo) = part
  <2>1. PICK size \in Nat : size = Len(part)
    OBVIOUS
  <2>2. /\ SubSeq(line, from + 1, upTo) \in Seq(Byte)
        /\ Len(SubSeq(line, from + 1, upTo)) = IF from < upTo THEN upTo - from ELSE 0
        /\ \A k \in 1 .. upTo - from : SubSeq(line, from + 1, upTo)[k] = line[from + k]
    BY <1>3, <1>9, PartOf
  <2>3. upTo - from = size /\ (from < upTo \/ size = 0)
    BY <1>9, <2>1
  <2>4. Len(SubSeq(line, from + 1, upTo)) = size
    BY <2>2, <2>3
  <2>5. \A k \in 1 .. size : SubSeq(line, from + 1, upTo)[k] = part[k]
    BY <1>9, <2>1, <2>2, <2>3
  <2> QED
    BY <2>1, <2>2, <2>4, <2>5, SeqEqual
<1>10. CASE ~two
  <2>1. l = 0 /\ Len(line) = 2 + n
    BY <1>2, <1>3, <1>10
  <2>2. roomPos = 0
    <3>1. ASSUME roomPos # 0
          PROVE  FALSE
      <4>1. PICK k \in 1 .. n : roomPos = 2 + k
        <5>1. roomPos \in 2 + 1 .. 2 + n
          BY <1>7, <2>1, <3>1
        <5> HIDE DEF roomPos
        <5>2. roomPos - 2 \in 1 .. n /\ roomPos = 2 + (roomPos - 2)
          BY <5>1
        <5> QED
          BY <5>2
      <4> QED
        BY <1>4, <1>7, <3>1, <4>1
    <3> QED
      BY <3>1
  <2>3. SubSeq(line, 2 + 1, Len(line)) = first
    <3>1. Len(line) = 2 + Len(first) /\ Len(line) \in Nat /\ Len(line) <= Len(line) /\ 2 \in Nat
      BY <1>1, <2>1
    <3>2. \A k \in 1 .. Len(first) : line[2 + k] = first[k]
      BY <1>1, <1>3
    <3> QED
      BY <1>9, <3>1, <3>2
  <2>4. CreateCommandData(line) =
            [messageType |-> SubSeq(line, 1, cmdPos - 1),
             data1 |-> SubSeq(line, cmdPos + 1, Len(line)), data2 |-> << >>]
    BY <1>6, <2>2 DEF CreateCommandData, cmdPos
  <2> QED
    BY <1>6, <1>8, <1>10, <2>3, <2>4
<1>11. CASE two
  <2>1. /\ l = 1 + m /\ Len(line) = 3 + n + m /\ 2 + n + 1 = 3 + n
        /\ line[2 + n + 1] = Space
    BY <1>2, <1>3, <1>11
  <2>2. roomPos = 3 + n
    <3>1. roomPos # 0
      <4>1. 2 + n + 1 \in 2 + 1 .. Len(line)
        BY <2>1
      <4> QED
        BY <1>7, <2>1, <4>1
    <3>2. roomPos \in 3 .. 3 + n + m /\ line[roomPos] = Space
          /\ \A k \in 3 .. roomPos - 1 : line[k] # Space
      BY <1>7, <2>1, <3>1
    <3> HIDE DEF roomPos
    <3>3. ~(roomPos < 3 + n)
      <4>1. ASSUME roomPos < 3 + n
            PROVE  FALSE
        <5>1. roomPos - 2 \in 1 .. n /\ 2 + (roomPos - 2) = roomPos
          BY <3>2, <4>1
        <5>2. line[2 + (roomPos - 2)] # Space
          BY <1>4, <5>1
        <5> QED
          BY <3>2, <5>1, <5>2
      <4> QED
        BY <4>1
    <3>4. ~(3 + n < roomPos)
      <4>1. ASSUME 3 + n < roomPos
            PROVE  FALSE
        <5>1. 2 + n + 1 \in 3 .. roomPos - 1
          BY <3>2, <4>1
        <5> QED
          BY <2>1, <3>2, <5>1
      <4> QED
        BY <4>1
    <3> QED
      BY <3>2, <3>3, <3>4
  <2>3. SubSeq(line, 2 + 1, 2 + n) = first
    <3>1. 2 + n = 2 + Len(first) /\ 2 + n \in Nat /\ 2 + n <= Len(line) /\ 2 \in Nat
      BY <1>1, <2>1
    <3>2. \A k \in 1 .. Len(first) : line[2 + k] = first[k]
      BY <1>1, <1>3
    <3> QED
      BY <1>9, <3>1, <3>2
  <2>4. SubSeq(line, 3 + n + 1, Len(line)) = last
    <3>1. Len(line) = 3 + n + Len(last) /\ Len(line) \in Nat /\ Len(line) <= Len(line) /\ 3 + n \in Nat
      BY <1>1, <2>1
    <3>2. \A k \in 1 .. Len(last) : line[3 + n + k] = last[k]
      BY <1>1, <1>3, <1>11
    <3> QED
      BY <1>9, <3>1, <3>2
  <2>5. CreateCommandData(line) =
            [messageType |-> SubSeq(line, 1, cmdPos - 1),
             data1 |-> SubSeq(line, cmdPos + 1, roomPos - 1),
             data2 |-> SubSeq(line, roomPos + 1, Len(line))]
    <3>1. cmdPos # 0 /\ roomPos # 0
      BY <1>6, <2>2
    <3> QED
      BY <3>1 DEF CreateCommandData, cmdPos
  <2>6. cmdPos + 1 = 2 + 1 /\ roomPos - 1 = 2 + n /\ roomPos + 1 = 3 + n + 1
    BY <1>6, <2>2
  <2> HIDE DEF roomPos
  <2> QED
    BY <1>8, <1>11, <2>3, <2>4, <2>5, <2>6
<1> QED
  BY <1>10, <1>11

\* What the server makes of a line is what the user meant by it, and the
\* frame says how long it is.
LEMMA CommandMeant ==
    ASSUME NEW line \in Seq(Byte), NEW cmd, cmd = CreateCommandData(line),
           CommandBuffer(cmd).inBounds, Len(CommandFrame(cmd)) <= BufferSize
    PROVE  LET server == ServerBuffer(CommandFrame(cmd))
           IN  /\ Means(line, ParseMessageFromClient(server))
               /\ ReadUInt32LE(Reset(server)) = Len(CommandFrame(cmd))
<1> DEFINE frame == CommandFrame(cmd)
           server == ServerBuffer(frame)
           parsed == ParseMessageFromClient(server)
<1>1. /\ cmd.data1 \in Seq(Byte) /\ cmd.data2 \in Seq(Byte)
      /\ TypeOf(cmd.messageType) \in 0 .. 5
  BY CommandParts, TypeOfType
<1>2. PICK data1, data2 \in Seq(Byte) : data1 = cmd.data1 /\ data2 = cmd.data2
  BY <1>1
<1>3. PICK kind \in 0 .. 5 : kind = TypeOf(cmd.messageType)
  BY <1>1
<1>4. /\ ReadUInt32LE(Reset(server)) = Len(frame)
      /\ kind \in 1 .. 5 =>
            parsed = [type |-> kind, data1 |-> data1,
                      data2 |-> IF kind \notin TwoFields THEN << >>
                                ELSE SubSeq(data2, 1, Clamped(Len(data2)))]
  <2>1. /\ TypeOf(cmd.messageType) = kind /\ cmd.data1 = data1 /\ cmd.data2 = data2
        /\ kind \in 0 .. 5 /\ data1 \in Seq(Byte) /\ data2 \in Seq(Byte)
        /\ CommandBuffer(cmd).inBounds /\ Len(CommandFrame(cmd)) <= BufferSize
    BY <1>2, <1>3
  <2> QED
    BY ONLY <2>1, CommandRead
<1> HIDE DEF frame, server, parsed
<1>5. ASSUME NEW type \in 1 .. 5, NEW first \in SubSeqs(line), NEW last \in SubSeqs(line),
             ~Contains(first, Space),
             line = LineOf(type, first, Rest(type \in TwoFields, last))
      PROVE  parsed = [type |-> type, data1 |-> first,
                       data2 |-> IF type \notin TwoFields THEN << >>
                                 ELSE IF Len(last) <= MaxText THEN last
                                 ELSE SubSeq(last, 1, MaxText)]
  <2>1. \A part \in SubSeqs(line) : part \in Seq(Byte)
    <3>1. ASSUME NEW i \in 0 .. Len(line), NEW j \in 0 .. Len(line)
          PROVE  SubSeq(line, i + 1, j) \in Seq(Byte)
      <4>1. i \in Nat /\ j \in Nat /\ j <= Len(line)
        OBVIOUS
      <4> QED
        BY <4>1, PartOf
    <3>2. ASSUME NEW part \in SubSeqs(line)
          PROVE  part \in Seq(Byte)
      <4>1. PICK i \in 0 .. Len(line), j \in 0 .. Len(line) : part = SubSeq(line, i + 1, j)
        BY DEF SubSeqs
      <4> QED
        BY <3>1, <4>1
    <3> QED
      BY <3>2
  <2>2. first \in Seq(Byte) /\ last \in Seq(Byte)
    BY <2>1
  <2>3. PICK two \in BOOLEAN : two <=> (type \in TwoFields)
    BY Zenon
  <2>4. Placed(line, type, first, two, last)
    <3>1. line = LineOf(type, first, Rest(two, last))
      BY <1>5, <2>3 DEF Rest
    <3>2. Placed(LineOf(type, first, Rest(two, last)), type, first, two, last)
      BY <2>2, PartsPlaced
    <3> QED
      BY <3>1, <3>2
  <2>5. cmd = [messageType |-> << type >>, data1 |-> first,
               data2 |-> IF two THEN last ELSE << >>]
    <3>1. CreateCommandData(line) =
              [messageType |-> << type >>, data1 |-> first,
               data2 |-> IF two THEN last ELSE << >>]
      BY <1>5, <2>2, <2>4, LineParts
    <3> QED
      BY <3>1
  <2>6. kind = type /\ data1 = first /\ (two => data2 = last)
    <3>1. /\ cmd.messageType = << type >> /\ cmd.data1 = first
          /\ two => cmd.data2 = last
      BY <2>5
    <3> QED
      BY <1>2, <1>3, <3>1, WordOfType
  <2>7. parsed = [type |-> type, data1 |-> first,
                  data2 |-> IF type \notin TwoFields THEN << >>
                            ELSE SubSeq(data2, 1, Clamped(Len(data2)))]
    BY <1>4, <2>6
  <2>8. ASSUME two
        PROVE  SubSeq(data2, 1, Clamped(Len(data2))) =
                   IF Len(last) <= MaxText THEN last ELSE SubSeq(last, 1, MaxText)
    <3>1. data2 = last
      BY <2>6, <2>8
    <3>2. PICK m \in Nat : m = Len(last)
      BY <2>2
    <3>3. Clamped(m) = IF m <= MaxText THEN m ELSE MaxText
      BY ProtocolAssumption DEF Clamped
    <3>4. SubSeq(last, 1, m) = last
      BY <2>2, <3>2
    <3> QED
      BY <3>1, <3>2, <3>3, <3>4
  <2> QED
    BY <2>3, <2>7, <2>8
<1>6. Means(line, parsed)
  <2> SUFFICES ASSUME NEW type \in 1 .. 5, NEW first \in SubSeqs(line),
                      NEW last \in SubSeqs(line), ~Contains(first, Space),
                      line = << CHOOSE word \in 1 .. 7 : TypeOf(<< word >>) = type, Space >>
                                 \o first \o
                                 IF type \in TwoFields THEN << Space >> \o last ELSE << >>
               PROVE  parsed = [type |-> type, data1 |-> first,
                                data2 |-> IF type \notin TwoFields THEN << >>
                                          ELSE IF Len(last) <= MaxText THEN last
                                          ELSE SubSeq(last, 1, MaxText)]
    BY Zenon DEF Means
  <2>1. (CHOOSE word \in 1 .. 7 : TypeOf(<< word >>) = type) = type
    BY WordOfType
  <2>2. line = LineOf(type, first, Rest(type \in TwoFields, last))
    BY <2>1, Zenon DEF LineOf, Rest, Opening
  <2> QED
    BY <1>5, <2>2
<1> QED
  BY <1>4, <1>6 DEF parsed, server, frame

\* An empty line is no command, so that nothing is asked of what is made of it.
LEMMA NothingMeant == \A cmd : Means(<< >>, cmd)
<1> SUFFICES ASSUME NEW cmd, NEW type \in 1 .. 5, NEW first \in SubSeqs(<< >>),
                    NEW last \in SubSeqs(<< >>),
                    << >> = << CHOOSE word \in 1 .. 7 : TypeOf(<< word >>) = type, Space >>
                               \o first \o
                               IF type \in TwoFields THEN << Space >> \o last ELSE << >>
             PROVE  FALSE
  BY Zenon DEF Means
<1>1. (CHOOSE word \in 1 .. 7 : TypeOf(<< word >>) = type) = type
  BY WordOfType
<1>2. << >> = LineOf(type, first, Rest(type \in TwoFields, last))
  BY <1>1, Zenon DEF LineOf, Rest, Opening
<1>3. \A part \in SubSeqs(<< >>) : part \in Seq(Byte)
  BY DEF SubSeqs
<1>4. PICK two \in BOOLEAN : two <=> (type \in TwoFields)
  BY Zenon
<1>5. first \in Seq(Byte) /\ last \in Seq(Byte)
  BY <1>3
<1>6. Placed(LineOf(type, first, Rest(two, last)), type, first, two, last)
  BY <1>5, PartsPlaced
<1>7. Placed(<< >>, type, first, two, last)
  <2>1. Rest(type \in TwoFields, last) = Rest(two, last)
    BY <1>4 DEF Rest
  <2> QED
    BY <1>2, <1>6, <2>1
<1>8. PICK n, m \in Nat : n = Len(first) /\ m = Len(last)
  BY <1>5
<1>9. 0 = 2 + n + IF two THEN 1 + m ELSE 0
  BY <1>7, <1>8 DEF Placed
<1>10. CASE two
  BY <1>9, <1>10
<1>11. CASE ~two
  BY <1>9, <1>11
<1> QED
  BY <1>10, <1>11

\* A frame that is handed to send ends the line it was made of, and says how
\* long it is.
Handed ==
    outbox # << >> =>
        /\ message = << >>
        /\ Len(outbox) <= BufferSize => ReadUInt32LE(Reset(ServerBuffer(outbox))) = Len(outbox)

\* What a step that hands a frame to send owes the user.
Understood ==
    outbox' # << >> /\ Len(outbox') <= BufferSize =>
        /\ Means(message, ParseMessageFromClient(ServerBuffer(outbox')))
        /\ ReadUInt32LE(Reset(ServerBuffer(outbox'))) = Len(outbox')

\* Only Enter hands a frame to send; the steps of the others leave it there,
\* and those of the client take it away.
LEMMA OnlyEnterSends ==
    [Next]_vars => \/ outbox' = << >>
                   \/ UNCHANGED <<outbox, message>>
                   \/ Enter
<1> SUFFICES ASSUME [Next]_vars
             PROVE  outbox' = << >> \/ UNCHANGED <<outbox, message>> \/ Enter
  OBVIOUS
<1> USE DEF netVars, loopVars
<1>1. CASE ServerStep \/ (\E text \in Texts : Reply(text)) \/ UNCHANGED vars
  BY <1>1 DEF ServerStep, LinkLost, Reply, vars, clientVars
<1>2. CASE Initialize(listening # "no")
  BY <1>2 DEF Initialize, OpenWinsock, FindServer, OpenSocket, ConnectServer, Unblock,
              Goes, GivesUp
<1>3. CASE (\E n \in 1 .. Len(toClient) : Receive(n)) \/ ReceiveNothing \/ ReceiveError
           \/ Disconnect
  BY <1>3 DEF Receive, ReceiveNothing, ReceiveError, Disconnect
<1>4. CASE Keyboard
  BY <1>4 DEF Keyboard, NoKey, Escape, Backspace, Type
<1> QED
  BY <1>1, <1>2, <1>3, <1>4 DEF Next, Client, ClientStep

\* A frame on the way to the server was made of a line the server understands.
LEMMA HandedKept == Typed /\ Handed /\ [Next]_vars => Handed' /\ Understood
<1> SUFFICES ASSUME Typed, Handed, [Next]_vars
             PROVE  Handed' /\ Understood
  OBVIOUS
<1>1. CASE outbox' = << >>
  BY <1>1 DEF Handed, Understood
<1>2. CASE UNCHANGED <<outbox, message>>
  <2>1. Handed'
    BY <1>2 DEF Handed
  <2>2. Understood
    BY <1>2, NothingMeant DEF Handed, Understood
  <2> QED
    BY <2>1, <2>2
<1>3. CASE Enter /\ outbox' # << >>
  <2>1. PICK cmd : cmd = CreateCommandData(message)
    OBVIOUS
  <2>2. message' = << >>
    BY <1>3 DEF Enter
  <2>3. CommandBuffer(cmd).inBounds /\ outbox' = CommandFrame(cmd)
    BY <1>3, <2>1 DEF Enter
  <2>4. message \in Seq(Byte)
    BY DEF Typed
  <2>5. PICK frame : frame = outbox'
    OBVIOUS
  <2>6. Len(frame) <= BufferSize =>
            /\ Means(message, ParseMessageFromClient(ServerBuffer(frame)))
            /\ ReadUInt32LE(Reset(ServerBuffer(frame))) = Len(frame)
    BY <2>1, <2>3, <2>4, <2>5, CommandMeant
  <2>7. Understood
    BY <2>5, <2>6 DEF Understood
  <2>8. Handed'
    BY <2>2, <2>5, <2>6 DEF Handed
  <2> QED
    BY <2>7, <2>8
<1> QED
  BY <1>1, <1>2, <1>3, OnlyEnterSends

\* What ParseAndSendMessage puts on the wire is what ParseMessageFromClient
\* takes off it, whatever the line, if its frame fits into the server's
\* buffer: the type, the room or the email up to the next space, and the rest
\* of the line as far as the server takes it; and the length in front is the
\* frame's.
THEOREM LinesAreUnderstood == Spec => CommandsUnderstood
<1>1. Init => Handed
  BY DEF Init, ClientInit, Handed
<1>2. Typed /\ Handed /\ [Next]_vars => (Typed /\ Handed)'
  BY TypedKept, HandedKept
<1>3. Typed /\ Handed /\ [Next]_vars =>
          [outbox' # << >> /\ Len(outbox') <= BufferSize =>
              LET buffer == ServerBuffer(outbox')
              IN  /\ Means(message, ParseMessageFromClient(buffer))
                  /\ ReadUInt32LE(Reset(buffer)) = Len(outbox')]_vars
  BY HandedKept DEF Understood
<1> QED
  BY <1>1, <1>2, <1>3, TypedAtFirst, PTL DEF Spec, CommandsUnderstood

=============================================================================
