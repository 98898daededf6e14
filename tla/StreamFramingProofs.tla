------------------------- MODULE StreamFramingProofs -------------------------
(***************************************************************************)
(* Safety of the framing of one connection, for frames of any lengths, any *)
(* number of commands and every way TCP may cut the stream.                *)
(*                                                                         *)
(* One invariant explains why no command is executed from bytes that are   *)
(* not its own, and when a byte may be received outside the buffer.        *)
(* Pipelined: as long as no send was short and no recv found nothing, the  *)
(* bytes counted and those in flight are together the frames that were     *)
(* sent and not executed, one behind the other, however many they are.     *)
(***************************************************************************)
EXTENDS StreamFraming, SequenceTheorems, TLAPS

Bytes == Nat \X Nat

\* The bytes of a frame.
LEMMA FrameBytes ==
    ASSUME NEW k \in Nat, NEW length \in Nat
    PROVE  /\ FrameOf(k, length) \in Seq(Bytes)
           /\ Len(FrameOf(k, length)) = length
           /\ \A p \in 1 .. length : FrameOf(k, length)[p] = <<k, p - 1>>
<1> DEFINE f == FrameOf(k, length)
<1>1. f = [p \in 1 .. length |-> <<k, p - 1>>]
  BY DEF FrameOf
<1>2. \A p \in 1 .. length : <<k, p - 1>> \in Bytes
  BY DEF Bytes
<1>3. f \in Seq(Bytes)
  BY <1>1, <1>2, IsASeq
<1>4. DOMAIN f = 1 .. length
  BY <1>1
<1> HIDE DEF f
<1>5. Len(f) = length
  BY <1>3, <1>4, LenProperties
<1> QED
  BY <1>1, <1>3, <1>5 DEF f

\* What a send puts behind the bytes in flight.
LEMMA SentBytes ==
    ASSUME stream \in Seq(Bytes), NEW k \in Nat, NEW length \in Nat, NEW taken \in 0 .. length
    PROVE  LET s == stream \o SubSeq(FrameOf(k, length), 1, taken)
           IN  /\ s \in Seq(Bytes)
               /\ Len(s) = Len(stream) + taken
               /\ \A p \in 1 .. Len(stream) : s[p] = stream[p]
               /\ \A p \in 1 .. taken : s[Len(stream) + p] = <<k, p - 1>>
<1> DEFINE f == FrameOf(k, length)
           g == SubSeq(f, 1, taken)
           s == stream \o g
<1>1. f \in Seq(Bytes) /\ Len(f) = length /\ \A p \in 1 .. length : f[p] = <<k, p - 1>>
  BY FrameBytes
<1> HIDE DEF f
<1>2. g \in Seq(Bytes) /\ Len(g) = taken /\ \A p \in 1 .. taken : g[p] = f[p]
  BY <1>1, SubSeqProperties
<1>3. \A p \in 1 .. taken : g[p] = <<k, p - 1>>
  BY <1>1, <1>2
<1> HIDE DEF g
<1>4. /\ s \in Seq(Bytes)
      /\ Len(s) = Len(stream) + Len(g)
      /\ \A p \in 1 .. Len(stream) + Len(g) :
            s[p] = IF p <= Len(stream) THEN stream[p] ELSE g[p - Len(stream)]
  BY <1>2, ConcatProperties
<1>5. Len(stream) \in Nat
  BY LenProperties
<1> HIDE DEF s
<1>6. /\ Len(s) = Len(stream) + taken
      /\ \A p \in 1 .. Len(stream) : s[p] = stream[p]
  BY <1>2, <1>4, <1>5
<1>7. ASSUME NEW p \in 1 .. taken
      PROVE  s[Len(stream) + p] = <<k, p - 1>>
  <2>1. /\ Len(stream) + p \in 1 .. Len(stream) + Len(g)
        /\ ~(Len(stream) + p <= Len(stream))
        /\ (Len(stream) + p) - Len(stream) = p
    BY <1>2, <1>5
  <2> QED
    BY <1>3, <1>4, <2>1
<1> QED
  BY <1>4, <1>6, <1>7 DEF s, g, f

\* What a recv of n bytes leaves in flight.
LEMMA BytesLeft ==
    ASSUME stream \in Seq(Bytes), NEW n \in 0 .. Len(stream)
    PROVE  LET s == SubSeq(stream, n + 1, Len(stream))
           IN  /\ s \in Seq(Bytes)
               /\ Len(s) = Len(stream) - n
               /\ \A p \in 1 .. Len(stream) - n : s[p] = stream[n + p]
<1> DEFINE s == SubSeq(stream, n + 1, Len(stream))
<1>1. Len(stream) \in Nat
  BY LenProperties
<1>2. /\ s \in Seq(Bytes)
      /\ Len(s) = IF n + 1 <= Len(stream) THEN Len(stream) - (n + 1) + 1 ELSE 0
      /\ \A p \in 1 .. Len(stream) - (n + 1) + 1 : s[p] = stream[n + 1 + p - 1]
  BY <1>1, SubSeqProperties
<1> HIDE DEF s
<1>3. \A p \in 1 .. Len(stream) - n : n + 1 + p - 1 = n + p
  BY <1>1
<1>4. Len(stream) - (n + 1) + 1 = Len(stream) - n
  BY <1>1
<1>5. Len(s) = Len(stream) - n
  BY <1>1, <1>2
<1> QED
  BY <1>2, <1>3, <1>4, <1>5 DEF s

\* A length field is read as the length of the command whose field it is.
LEMMA HeaderOf ==
    ASSUME NEW bytes, NEW k \in DOMAIN sent, Holds(bytes, k, LengthBytes)
    PROVE  Headers(bytes) = {sent[k]}
<1>1. 0 \in 0 .. LengthBytes - 1
  BY LengthBytesAssumption
<1>2. \A j \in DOMAIN sent : Holds(bytes, j, LengthBytes) => j = k
  BY <1>1 DEF Holds
<1>3. {j \in DOMAIN sent : Holds(bytes, j, LengthBytes)} = {k}
  BY <1>2
<1> QED
  BY <1>3 DEF Headers

\* A whole frame is taken for the command it is.
LEMMA CommandOf ==
    ASSUME sent \in Seq(FrameLengths), NEW bytes,
           NEW k \in DOMAIN sent, Holds(bytes, k, sent[k])
    PROVE  CommandIn(bytes, sent[k]) = k
<1>1. sent[k] \in Nat /\ sent[k] >= LengthBytes
  BY StreamAssumption, LenProperties
<1>2. 0 \in 0 .. sent[k] - 1
  BY <1>1, LengthBytesAssumption
<1>3. \A j \in DOMAIN sent : Holds(bytes, j, sent[k]) => j = k
  BY <1>2 DEF Holds
<1>4. {j \in DOMAIN sent : sent[j] = sent[k] /\ Holds(bytes, j, sent[k])} = {k}
  BY <1>3
<1> QED
  BY <1>4 DEF CommandIn
\* What is executed is a command by its number, or garbled.
LEMMA CommandIsNumber ==
    ASSUME sent \in Seq(FrameLengths), NEW bytes, NEW length
    PROVE  CommandIn(bytes, length) \in Nat
<1>1. DOMAIN sent \subseteq Nat /\ Garbled \in Nat
  BY LenProperties DEF Garbled
<1> QED
  BY <1>1 DEF CommandIn
-----------------------------------------------------------------------------
(* Types.                                                                  *)

\* send takes all bytes of a frame, or the first of them.
LEMMA SendTakes ==
    ASSUME NEW length \in FrameLengths, Send(length)
    PROVE  \E taken \in 0 .. length :
              /\ stream' = stream \o SubSeq(FrameOf(Len(sent) + 1, length), 1, taken)
              /\ trouble' = (trouble \/ taken < length)
              /\ taken < length => ShortSends
<1>1. length \in Nat
  BY StreamAssumption
<1>2. PICK taken \in IF ShortSends THEN 0 .. length ELSE {length} :
          /\ stream' = stream \o SubSeq(FrameOf(Len(sent) + 1, length), 1, taken)
          /\ trouble' = (trouble \/ taken < length)
  BY DEF Send
<1>3. taken \in 0 .. length /\ (taken < length => ShortSends)
  BY <1>1
<1> QED
  BY <1>2, <1>3

\* A send keeps the types, also of the bytes in flight.
LEMMA SendType ==
    ASSUME TypeOK, NEW length \in FrameLengths, Send(length)
    PROVE  TypeOK'
<1>1. Len(sent) + 1 \in Nat /\ length \in Nat
  BY StreamAssumption, LenProperties DEF TypeOK
<1>2. PICK taken \in 0 .. length :
          /\ stream' = stream \o SubSeq(FrameOf(Len(sent) + 1, length), 1, taken)
          /\ trouble' = (trouble \/ taken < length)
  BY SendTakes
<1>3. stream' \in Seq(Bytes)
  BY <1>1, <1>2, SentBytes DEF TypeOK, Bytes
<1>4. sent' \in Seq(FrameLengths)
  BY AppendProperties DEF TypeOK, Send
<1>5. trouble' \in BOOLEAN
  BY <1>2 DEF TypeOK
<1> QED
  BY <1>3, <1>4, <1>5 DEF TypeOK, Send, Bytes

\* What is in the buffer after bytes were received inside it.
LEMMA ReceivedBytes ==
    ASSUME TypeOK, NEW n \in 1 .. Len(stream),
           session.bytesRECV >= 0, session.bytesRECV + n <= Capacity
    PROVE  LET b == session.bytesRECV
           IN  /\ Received(n) \in [0 .. Capacity - 1 -> Bytes]
               /\ \A p \in 0 .. b - 1 : Received(n)[p] = buffer[p]
               /\ \A p \in b .. b + n - 1 : Received(n)[p] = stream[p - b + 1]
<1> DEFINE b == session.bytesRECV
<1>1. b \in 0 .. Capacity /\ Capacity \in Nat /\ n \in Nat /\ Len(stream) \in Nat
  BY StreamAssumption, LenProperties DEF TypeOK
<1>2. buffer \in [0 .. Capacity - 1 -> Bytes] /\ stream \in Seq(Bytes)
  BY DEF TypeOK, Bytes
<1>3. Received(n) =
          [p \in 0 .. Capacity - 1 |->
              IF p \in b .. b + n - 1 THEN stream[p - b + 1] ELSE buffer[p]]
  BY <1>2 DEF Received
<1> HIDE DEF b
<1>4. \A p \in b .. b + n - 1 : p - b + 1 \in 1 .. Len(stream)
  BY <1>1
<1>5. \A p \in b .. b + n - 1 : stream[p - b + 1] \in Bytes
  BY <1>2, <1>4, ElementOfSeq
<1>6. Received(n) \in [0 .. Capacity - 1 -> Bytes]
  BY <1>2, <1>3, <1>5
<1>7. \A p \in 0 .. b - 1 : p \in 0 .. Capacity - 1 /\ p \notin b .. b + n - 1
  BY <1>1
<1>8. \A p \in b .. b + n - 1 : p \in 0 .. Capacity - 1
  BY <1>1 DEF b
<1> QED
  BY <1>3, <1>6, <1>7, <1>8 DEF b

\* A recv keeps the types: the count stays within the buffer.
LEMMA RecvType ==
    ASSUME TypeOK, NEW n \in 1 .. Len(stream), Recv(n)
    PROVE  TypeOK'
<1> DEFINE b == session.bytesRECV
<1>1. /\ stream \in Seq(Bytes) /\ Len(stream) \in Nat
      /\ stream' = SubSeq(stream, n + 1, Len(stream))
      /\ UNCHANGED <<sent, link, trouble>>
  BY LenProperties DEF TypeOK, Recv, clientVars, Bytes
<1>2. stream' \in Seq(Nat \X Nat)
  BY <1>1, BytesLeft DEF Bytes
<1>3. CASE b < 0 \/ b + n > Capacity
  BY <1>1, <1>2, <1>3 DEF Recv, TypeOK
<1>4. CASE ~(b < 0 \/ b + n > Capacity)
  <2>1. b \in 0 .. Capacity /\ b + n \in 0 .. Capacity
    <3>1. b \in -1 .. Capacity /\ Capacity \in Nat
      BY StreamAssumption DEF TypeOK
    <3> HIDE DEF b
    <3> QED
      BY <1>1, <1>4, <3>1
  <2>2. PICK header \in Headers(Received(n)) :
            LET received == AfterRecv(session, n, header)
            IN  IF FrameComplete(received)
                THEN /\ session' = AfterParse
                     /\ handled' = Append(handled, CommandIn(Received(n), received.packetLength))
                ELSE /\ session' = received
                     /\ UNCHANGED handled
    BY <1>4 DEF Recv
  <2>3. header \in Nat
    <3>1. FrameLengths \cup {0, Capacity + 1} \subseteq Nat
      BY StreamAssumption
    <3>2. \A k \in DOMAIN sent : sent[k] \in Nat
      <4>1. sent \in Seq(FrameLengths)
        BY DEF TypeOK
      <4>2. \A k \in DOMAIN sent : sent[k] \in FrameLengths
        BY <4>1, LenProperties, ElementOfSeq
      <4> QED
        BY <3>1, <4>2
    <3> QED
      BY <3>1, <3>2 DEF Headers
  <2> DEFINE received == AfterRecv(session, n, header)
  <2>4. received \in [bytesRECV : -1 .. Capacity, packetLength : Nat]
    BY <2>1, <2>3 DEF AfterRecv, TypeOK
  <2>5. AfterParse \in [bytesRECV : -1 .. Capacity, packetLength : Nat]
    BY StreamAssumption DEF AfterParse, NewSession
  <2> HIDE DEF received
  <2>6. CommandIn(Received(n), received.packetLength) \in Nat
    BY CommandIsNumber DEF TypeOK
  <2>7. Append(handled, CommandIn(Received(n), received.packetLength)) \in Seq(Nat)
    BY <2>6, AppendProperties DEF TypeOK
  <2>8. session' \in [bytesRECV : -1 .. Capacity, packetLength : Nat] /\ handled' \in Seq(Nat)
    <3>1. CASE FrameComplete(received)
      BY <2>2, <2>5, <2>7, <3>1 DEF received
    <3>2. CASE ~FrameComplete(received)
      BY <2>2, <2>4, <3>2 DEF received, TypeOK
    <3> QED
      BY <3>1, <3>2
  <2>9. buffer' \in [0 .. Capacity - 1 -> Nat \X Nat] /\ defined' = TRUE
    BY <1>4, <2>1, ReceivedBytes DEF Recv, Bytes
  <2> QED
    BY <1>1, <1>2, <2>8, <2>9 DEF TypeOK
<1> QED
  BY <1>3, <1>4

\* A new connection's variables have their types.
LEMMA TypeInit == Init => TypeOK
<1>1. 0 \in -1 .. Capacity /\ NewSession = [bytesRECV |-> 0, packetLength |-> 0]
  BY StreamAssumption DEF NewSession
<1>2. << >> \in Seq(Nat) /\ << >> \in Seq(FrameLengths) /\ << >> \in Seq(Nat \X Nat)
  OBVIOUS
<1>3. [p \in 0 .. Capacity - 1 |-> NoByte] \in [0 .. Capacity - 1 -> Nat \X Nat]
  BY DEF NoByte
<1>4. [bytesRECV |-> 0, packetLength |-> 0] \in [bytesRECV : -1 .. Capacity, packetLength : Nat]
  BY <1>1
<1> QED
  BY <1>1, <1>2, <1>3, <1>4 DEF Init, TypeOK

\* recv has nothing to return, and its -1 is counted.
LEMMA WouldBlockType ==
    ASSUME TypeOK, RecvWouldBlock
    PROVE  TypeOK'
<1>1. session.bytesRECV - 1 \in -1 .. Capacity
  BY StreamAssumption DEF TypeOK, RecvWouldBlock
<1>2. session' \in [bytesRECV : -1 .. Capacity, packetLength : Nat]
  BY <1>1 DEF TypeOK, RecvWouldBlock
<1> QED
  BY <1>2 DEF TypeOK, RecvWouldBlock

\* Every variable keeps its type, whatever the client sends and TCP
\* delivers; the count of bytes stays within -1 and the buffer's capacity.
THEOREM TypeCorrect == Spec => []TypeOK
<1>1. Init => TypeOK
  BY TypeInit
<1>2. TypeOK /\ [Next]_vars => TypeOK'
  <2> SUFFICES ASSUME TypeOK, [Next]_vars
               PROVE  TypeOK'
    OBVIOUS
  <2>1. CASE UNCHANGED vars
    BY <2>1 DEF TypeOK, vars
  <2>2. CASE Close \/ RecvEnd
    BY <2>2 DEF TypeOK, Close, RecvEnd
  <2> QED
    BY <2>1, <2>2, WouldBlockType, SendType, RecvType DEF Next, Server
<1> QED
  BY <1>1, <1>2, PTL DEF Spec
-----------------------------------------------------------------------------
(* One recv while the buffer holds bytes of command k.                     *)

\* The length field is read when its last byte arrives, and then it is
\* whole; the frame is executed when its own last byte arrives, and then
\* the buffer holds nothing else of it.
LEMMA RecvCollects ==
    ASSUME TypeOK, NEW n \in 1 .. Len(stream), Recv(n),
           session.bytesRECV >= 0, session.bytesRECV + n <= Capacity,
           NEW k \in DOMAIN sent,
           session.packetLength = IF session.bytesRECV >= LengthBytes THEN sent[k] ELSE 0,
           \A p \in 0 .. sent[k] - 1 : p < session.bytesRECV + n => Received(n)[p] = <<k, p>>
    PROVE  LET b == session.bytesRECV + n
           IN  /\ buffer' = Received(n)
               /\ defined' = TRUE
               /\ b = sent[k] =>
                     session' = NewSession /\ handled' = Append(handled, k)
               /\ b # sent[k] =>
                     /\ session' = [bytesRECV |-> b,
                                    packetLength |-> IF b >= LengthBytes THEN sent[k] ELSE 0]
                     /\ UNCHANGED handled
<1> DEFINE b == session.bytesRECV + n
<1>1. /\ session.bytesRECV \in Int /\ n \in Nat \ {0} /\ b \in Nat
      /\ LengthBytes \in Nat \ {0}
      /\ sent[k] \in Nat /\ sent[k] >= LengthBytes
  <2>1. sent[k] \in FrameLengths
    BY ElementOfSeq, LenProperties DEF TypeOK
  <2>2. session.bytesRECV \in -1 .. Capacity /\ Capacity \in Nat
    BY StreamAssumption DEF TypeOK
  <2>3. Len(stream) \in Nat
    BY LenProperties DEF TypeOK
  <2>4. n \in Nat \ {0} /\ b \in Nat /\ session.bytesRECV \in Int
    BY <2>2, <2>3
  <2> QED
    BY <2>1, <2>4, StreamAssumption, LengthBytesAssumption
<1>2. /\ buffer' = Received(n)
      /\ defined' = TRUE
      /\ \E header \in Headers(Received(n)) :
            LET received == AfterRecv(session, n, header)
            IN  IF FrameComplete(received)
                THEN /\ session' = AfterParse
                     /\ handled' = Append(handled, CommandIn(Received(n), received.packetLength))
                ELSE /\ session' = received
                     /\ UNCHANGED handled
  <2>1. ~(session.bytesRECV < 0 \/ session.bytesRECV + n > Capacity)
    BY <1>1, StreamAssumption
  <2> QED
    BY <2>1 DEF Recv
<1>3. PICK header \in Headers(Received(n)) :
          LET received == AfterRecv(session, n, header)
          IN  IF FrameComplete(received)
              THEN /\ session' = AfterParse
                   /\ handled' = Append(handled, CommandIn(Received(n), received.packetLength))
              ELSE /\ session' = received
                   /\ UNCHANGED handled
  BY <1>2
<1>4. b >= LengthBytes => header = sent[k]
  <2>1. ASSUME b >= LengthBytes
        PROVE  Holds(Received(n), k, LengthBytes)
    BY <1>1, <2>1 DEF Holds
  <2> QED
    BY <2>1, HeaderOf
<1>5. AfterRecv(session, n, header) =
          [bytesRECV |-> b, packetLength |-> IF b >= LengthBytes THEN sent[k] ELSE 0]
  BY <1>1, <1>4 DEF AfterRecv
<1>6. FrameComplete(AfterRecv(session, n, header)) <=> b = sent[k]
  BY <1>1, <1>5 DEF FrameComplete
<1>7. b = sent[k] => CommandIn(Received(n), sent[k]) = k
  <2>1. ASSUME b = sent[k]
        PROVE  Holds(Received(n), k, sent[k])
    BY <1>1, <2>1 DEF Holds
  <2> QED
    BY <2>1, CommandOf DEF TypeOK
<1> HIDE DEF b
<1>8. b = sent[k] => session' = NewSession /\ handled' = Append(handled, k)
  BY <1>1, <1>3, <1>5, <1>6, <1>7 DEF AfterParse
<1>9. b # sent[k] =>
          /\ session' = [bytesRECV |-> b,
                         packetLength |-> IF b >= LengthBytes THEN sent[k] ELSE 0]
          /\ UNCHANGED handled
  BY <1>3, <1>5, <1>6
<1> QED
  BY <1>2, <1>8, <1>9 DEF b

\* The commands executed are the first that were sent.
Intact == \A j \in DOMAIN handled : handled[j] = j

\* Executing the next command keeps the commands executed intact.
LEMMA NextIntact ==
    ASSUME handled \in Seq(Nat), Intact, handled' = Append(handled, Len(handled) + 1)
    PROVE  Len(handled') = Len(handled) + 1 /\ Intact'
<1>1. Len(handled) \in Nat /\ DOMAIN handled = 1 .. Len(handled)
  BY LenProperties
<1>2. Len(handled) + 1 \in Nat
  BY <1>1
<1>3. /\ handled' \in Seq(Nat)
      /\ Len(handled') = Len(handled) + 1
      /\ \A j \in 1 .. Len(handled) : handled'[j] = handled[j]
      /\ handled'[Len(handled) + 1] = Len(handled) + 1
  BY <1>2, AppendProperties
<1>4. DOMAIN handled' = 1 .. Len(handled) + 1
  BY <1>3, LenProperties
<1>5. \A j \in 1 .. Len(handled) + 1 : j \in 1 .. Len(handled) \/ j = Len(handled) + 1
  BY <1>1
<1> QED
  BY <1>1, <1>3, <1>4, <1>5 DEF Intact
-----------------------------------------------------------------------------
(* Any number of commands under way.                                       *)

\* The bytes at[0], ..., at[t - 1] are the frames k, ..., last, one behind the
\* other; start[m] is the place of the first byte of frame m.
InLine(at, t, lengths, k, last) ==
    \E start \in [k .. last + 1 -> Nat] :
        /\ start[k] = 0
        /\ start[last + 1] = t
        /\ \A m \in k .. last :
              /\ start[m + 1] = start[m] + lengths[m]
              /\ \A p \in 0 .. lengths[m] - 1 : at[start[m] + p] = <<m, p>>
        /\ \A m \in k .. last, q \in k .. last + 1 :
              m < q => start[m] + lengths[m] <= start[q]

\* Equal bytes hold the same frames.
LEMMA LineStays ==
    ASSUME NEW at, NEW t \in Nat, NEW lengths, NEW k \in Nat, NEW last \in Nat, NEW at2,
           \A m \in k .. last : lengths[m] \in Nat,
           InLine(at, t, lengths, k, last),
           \A x \in 0 .. t - 1 : at2[x] = at[x]
    PROVE  InLine(at2, t, lengths, k, last)
<1>1. PICK start \in [k .. last + 1 -> Nat] :
          /\ start[k] = 0
          /\ start[last + 1] = t
          /\ \A m \in k .. last :
                /\ start[m + 1] = start[m] + lengths[m]
                /\ \A p \in 0 .. lengths[m] - 1 : at[start[m] + p] = <<m, p>>
          /\ \A m \in k .. last, q \in k .. last + 1 :
                m < q => start[m] + lengths[m] <= start[q]
  BY DEF InLine
<1>2. ASSUME NEW m \in k .. last, NEW p \in 0 .. lengths[m] - 1
      PROVE  at2[start[m] + p] = <<m, p>>
  <2>1. m \in k .. last + 1 /\ last + 1 \in k .. last + 1 /\ m < last + 1
    OBVIOUS
  <2>2. start[m] \in Nat /\ start[m] + lengths[m] <= t /\ lengths[m] \in Nat
    BY <1>1, <2>1
  <2>3. start[m] + p \in 0 .. t - 1
    BY <2>2
  <2> QED
    BY <1>1, <2>3
<1> QED
  BY <1>1, <1>2 DEF InLine

\* The first frame is whole, and the first bytes are its.
LEMMA LineFirst ==
    ASSUME NEW at, NEW t \in Nat, NEW lengths, NEW k \in Nat, NEW last \in Nat, k <= last,
           \A m \in k .. last : lengths[m] \in Nat,
           InLine(at, t, lengths, k, last)
    PROVE  /\ lengths[k] <= t
           /\ \A p \in 0 .. lengths[k] - 1 : at[p] = <<k, p>>
<1>1. PICK start \in [k .. last + 1 -> Nat] :
          /\ start[k] = 0
          /\ start[last + 1] = t
          /\ \A p \in 0 .. lengths[k] - 1 : at[start[k] + p] = <<k, p>>
          /\ start[k] + lengths[k] <= start[last + 1]
  <2>1. k \in k .. last /\ last + 1 \in k .. last + 1 /\ k < last + 1
    OBVIOUS
  <2> QED
    BY <2>1 DEF InLine
<1>2. lengths[k] \in Nat
  OBVIOUS
<1> QED
  BY <1>1, <1>2

\* Without a frame there is no byte.
LEMMA LineEmpty ==
    ASSUME NEW at, NEW t \in Nat, NEW lengths, NEW last \in Nat,
           InLine(at, t, lengths, last + 1, last)
    PROVE  t = 0
BY DEF InLine

\* One frame alone has as many bytes as its length says.
LEMMA LineAlone ==
    ASSUME NEW at, NEW t \in Nat, NEW lengths, NEW k \in Nat, lengths[k] \in Nat,
           InLine(at, t, lengths, k, k)
    PROVE  t = lengths[k]
<1>1. k \in k .. k
  OBVIOUS
<1>2. PICK start \in [k .. k + 1 -> Nat] :
          start[k] = 0 /\ start[k + 1] = t /\ start[k + 1] = start[k] + lengths[k]
  BY <1>1 DEF InLine
<1> QED
  BY <1>2

\* A frame put behind the others.
LEMMA LineGrows ==
    ASSUME NEW at, NEW t \in Nat, NEW lengths, NEW k \in Nat, NEW last \in Nat, k <= last + 1,
           NEW at2, NEW lengths2, NEW length \in Nat,
           \A m \in k .. last : lengths[m] \in Nat,
           InLine(at, t, lengths, k, last),
           \A x \in 0 .. t - 1 : at2[x] = at[x],
           \A p \in 0 .. length - 1 : at2[t + p] = <<last + 1, p>>,
           \A m \in k .. last : lengths2[m] = lengths[m],
           lengths2[last + 1] = length
    PROVE  InLine(at2, t + length, lengths2, k, last + 1)
<1>1. PICK start \in [k .. last + 1 -> Nat] :
          /\ start[k] = 0
          /\ start[last + 1] = t
          /\ \A m \in k .. last :
                /\ start[m + 1] = start[m] + lengths[m]
                /\ \A p \in 0 .. lengths[m] - 1 : at[start[m] + p] = <<m, p>>
          /\ \A m \in k .. last, q \in k .. last + 1 :
                m < q => start[m] + lengths[m] <= start[q]
  BY DEF InLine
<1> DEFINE place == [m \in k .. last + 1 + 1 |-> IF m = last + 1 + 1 THEN t + length ELSE start[m]]
<1>2. /\ place \in [k .. last + 1 + 1 -> Nat]
      /\ \A m \in k .. last + 1 : place[m] = start[m] /\ start[m] \in Nat
      /\ place[last + 1 + 1] = t + length
  <2>1. \A m \in k .. last + 1 + 1 : m = last + 1 + 1 \/ m \in k .. last + 1
    OBVIOUS
  <2>2. \A m \in k .. last + 1 : m \in k .. last + 1 + 1 /\ m # last + 1 + 1
    OBVIOUS
  <2>3. last + 1 + 1 \in k .. last + 1 + 1
    OBVIOUS
  <2> QED
    BY <1>1, <2>1, <2>2, <2>3
<1> HIDE DEF place
<1>3. \A m \in k .. last + 1 : m = last + 1 \/ m \in k .. last
  OBVIOUS
<1>4. k \in k .. last + 1 /\ last + 1 \in k .. last + 1
  OBVIOUS
<1>5. \A m \in k .. last : start[m] + lengths[m] <= t /\ lengths[m] \in Nat /\ start[m] \in Nat
  <2>1. \A m \in k .. last : m \in k .. last + 1 /\ m < last + 1
    OBVIOUS
  <2> QED
    BY <1>1, <1>4, <2>1
<1>6. ASSUME NEW m \in k .. last + 1
      PROVE  /\ place[m + 1] = place[m] + lengths2[m]
             /\ \A p \in 0 .. lengths2[m] - 1 : at2[place[m] + p] = <<m, p>>
  <2>1. CASE m = last + 1
    <3>1. place[m + 1] = t + length /\ place[m] = t /\ lengths2[m] = length
      BY <1>1, <1>2, <1>4, <2>1
    <3> QED
      BY <2>1, <3>1
  <2>2. CASE m \in k .. last
    <3>1. m + 1 \in k .. last + 1 /\ lengths2[m] = lengths[m]
      BY <2>2
    <3>2. ASSUME NEW p \in 0 .. lengths[m] - 1
          PROVE  at2[start[m] + p] = <<m, p>>
      <4>1. start[m] + p \in 0 .. t - 1
        <5> DEFINE from == start[m]
                   size == lengths[m]
        <5>1. from + size <= t /\ size \in Nat /\ from \in Nat /\ p \in 0 .. size - 1
          BY <1>5, <2>2, <3>2
        <5> HIDE DEF from, size
        <5>2. from + p \in 0 .. t - 1
          BY <5>1
        <5> QED
          BY <5>2 DEF from
      <4> QED
        BY <1>1, <2>2, <4>1
    <3> QED
      BY <1>1, <1>2, <2>2, <3>1, <3>2
  <2> QED
    BY <1>3, <2>1, <2>2
<1>7. ASSUME NEW m \in k .. last + 1, NEW q \in k .. last + 1 + 1, m < q
      PROVE  place[m] + lengths2[m] <= place[q]
  <2>1. CASE m = last + 1
    <3>1. q = last + 1 + 1
      BY <1>7, <2>1
    <3> QED
      BY <1>1, <1>2, <2>1, <3>1
  <2>2. CASE m \in k .. last /\ q = last + 1 + 1
    BY <1>2, <1>5, <2>2
  <2>3. CASE m \in k .. last /\ q \in k .. last + 1
    BY <1>1, <1>2, <1>7, <2>3
  <2> QED
    BY <1>3, <2>1, <2>2, <2>3
<1>8. place[k] = 0 /\ place[(last + 1) + 1] = t + length
  BY <1>1, <1>2, <1>4
<1> QED
  BY <1>2, <1>6, <1>7, <1>8 DEF InLine

\* The first frame taken away.
LEMMA LineAdvances ==
    ASSUME NEW at, NEW t \in Nat, NEW lengths, NEW k \in Nat, NEW last \in Nat, k <= last, NEW at2,
           \A m \in k .. last : lengths[m] \in Nat,
           InLine(at, t, lengths, k, last),
           \A x \in 0 .. t - lengths[k] - 1 : at2[x] = at[x + lengths[k]]
    PROVE  InLine(at2, t - lengths[k], lengths, k + 1, last)
<1>1. PICK start \in [k .. last + 1 -> Nat] :
          /\ start[k] = 0
          /\ start[last + 1] = t
          /\ \A m \in k .. last :
                /\ start[m + 1] = start[m] + lengths[m]
                /\ \A p \in 0 .. lengths[m] - 1 : at[start[m] + p] = <<m, p>>
          /\ \A m \in k .. last, q \in k .. last + 1 :
                m < q => start[m] + lengths[m] <= start[q]
  BY DEF InLine
<1> DEFINE first == lengths[k]
           place == [m \in k + 1 .. last + 1 |-> start[m] - first]
<1>2. k \in k .. last /\ first \in Nat
  OBVIOUS
<1>3. \A m \in k + 1 .. last + 1 : start[m] \in Nat /\ first <= start[m]
  <2>1. \A m \in k + 1 .. last + 1 : m \in k .. last + 1 /\ k < m
    OBVIOUS
  <2> QED
    BY <1>1, <1>2, <2>1
<1>4. \A x \in 0 .. t - first - 1 : at2[x] = at[x + first]
  OBVIOUS
<1>5. place[k + 1] = 0 /\ place[last + 1] = t - first
  <2>1. start[k + 1] = start[k] + first
    BY <1>1, <1>2
  <2>2. k + 1 \in k + 1 .. last + 1 /\ last + 1 \in k + 1 .. last + 1
    OBVIOUS
  <2> HIDE DEF first
  <2> QED
    BY <1>1, <1>2, <2>1, <2>2
<1> HIDE DEF first
<1>6. place \in [k + 1 .. last + 1 -> Nat]
  BY <1>2, <1>3
<1>7. \A m \in k + 1 .. last + 1 : place[m] = start[m] - first
  OBVIOUS
<1> HIDE DEF place
<1>8. \A m \in k + 1 .. last :
          m \in k .. last /\ m \in k + 1 .. last + 1 /\ m + 1 \in k + 1 .. last + 1 /\ lengths[m] \in Nat
  OBVIOUS
<1>9. ASSUME NEW m \in k + 1 .. last
      PROVE  /\ place[m + 1] = place[m] + lengths[m]
             /\ \A p \in 0 .. lengths[m] - 1 : at2[place[m] + p] = <<m, p>>
  <2> DEFINE from == start[m]
             size == lengths[m]
  <2>1. from \in Nat /\ first <= from /\ size \in Nat /\ place[m] = from - first
    BY <1>3, <1>7, <1>8
  <2>2. place[m + 1] = place[m] + size
    <3>1. place[m + 1] = (from + size) - first
      <4>1. start[m + 1] = start[m] + lengths[m]
        BY <1>1, <1>8
      <4>2. place[m + 1] = start[m + 1] - first
        BY <1>7, <1>8
      <4> QED
        BY <4>1, <4>2
    <3> HIDE DEF from, size
    <3> QED
      BY <1>2, <2>1, <3>1
  <2>3. ASSUME NEW p \in 0 .. lengths[m] - 1
        PROVE  at2[place[m] + p] = <<m, p>>
    <3>1. start[m] + lengths[m] <= t
      <4>1. m \in k .. last /\ last + 1 \in k .. last + 1 /\ m < last + 1
        OBVIOUS
      <4> QED
        BY <1>1, <4>1
    <3>2. /\ place[m] + p \in 0 .. t - first - 1
          /\ (place[m] + p) + first = start[m] + p
      <4> HIDE DEF from, size
      <4>1. p \in Nat /\ p < size
        BY <2>1 DEF size
      <4>2. from + size <= t
        BY <3>1 DEF from, size
      <4>3. /\ place[m] + p \in 0 .. t - first - 1
            /\ (place[m] + p) + first = from + p
        BY <1>2, <2>1, <4>1, <4>2
      <4> QED
        BY <4>3 DEF from
    <3>3. at[start[m] + p] = <<m, p>>
      BY <1>1, <1>8
    <3> QED
      BY <1>4, <3>2, <3>3
  <2> QED
    BY <2>2, <2>3 DEF size
<1>10. ASSUME NEW m \in k + 1 .. last, NEW q \in k + 1 .. last + 1, m < q
       PROVE  place[m] + lengths[m] <= place[q]
  <2>1. q \in k .. last + 1
    OBVIOUS
  <2> DEFINE from == start[m]
             size == lengths[m]
             next == start[q]
  <2>2. from + size <= next
    BY <1>1, <1>8, <1>10, <2>1
  <2>3. /\ from \in Nat /\ size \in Nat /\ next \in Nat
        /\ place[m] = from - first /\ place[q] = next - first
    BY <1>3, <1>7, <1>8
  <2> HIDE DEF from, size, next
  <2>4. place[m] + size <= place[q]
    BY <1>2, <2>2, <2>3
  <2> QED
    BY <2>4 DEF size
<1> QED
  BY <1>5, <1>6, <1>9, <1>10 DEF InLine, first

\* The bytes counted and those in flight.
UnderWay ==
    [x \in 0 .. (session.bytesRECV + Len(stream)) - 1 |->
        IF x < session.bytesRECV THEN buffer[x] ELSE stream[x - session.bytesRECV + 1]]

\* Why a byte may have been received outside the buffer.
Overfull ==
    /\ Len(sent) > Len(handled)
    /\ Len(sent) > Len(handled) + 1 \/ sent[Len(sent)] > Capacity

\* They are the frames that were sent and not executed, and the count stands
\* before or behind the end of the first.
Pipelined ==
    /\ TypeOK
    /\ Intact
    /\ Len(handled) <= Len(sent)
    /\ ~defined => Overfull
    /\ defined =>
          /\ session.bytesRECV >= 0
          /\ session.packetLength =
                IF session.bytesRECV >= LengthBytes THEN sent[Len(handled) + 1] ELSE 0
          /\ InLine(UnderWay, session.bytesRECV + Len(stream), sent, Len(handled) + 1, Len(sent))
          /\ Len(handled) < Len(sent) => session.bytesRECV # sent[Len(handled) + 1]

\* The lengths of the frames are numbers.
LEMMA LengthsSent ==
    ASSUME sent \in Seq(FrameLengths)
    PROVE  /\ Len(sent) \in Nat
           /\ DOMAIN sent = 1 .. Len(sent)
           /\ \A m \in 1 .. Len(sent) : sent[m] \in Nat /\ sent[m] >= LengthBytes
<1>1. Len(sent) \in Nat /\ DOMAIN sent = 1 .. Len(sent)
  BY LenProperties
<1>2. \A m \in 1 .. Len(sent) : sent[m] \in FrameLengths
  BY ElementOfSeq
<1> QED
  BY <1>1, <1>2, StreamAssumption

\* The client sends a whole frame.
LEMMA PipeSend ==
    ASSUME Pipelined, ~trouble', NEW length \in FrameLengths, Send(length)
    PROVE  Pipelined'
<1> DEFINE b == session.bytesRECV
           l == Len(sent)
           k == Len(handled) + 1
           t == b + Len(stream)
<1>1. TypeOK' /\ TypeOK
  BY SendType DEF Pipelined
<1>2. /\ l \in Nat /\ k \in Nat /\ k <= l + 1
      /\ Len(stream) \in Nat /\ stream \in Seq(Bytes)
      /\ length \in Nat
      /\ b \in Nat
      /\ \A m \in k .. l : sent[m] \in Nat
      /\ session.packetLength = IF b >= LengthBytes THEN sent[k] ELSE 0
      /\ InLine(UnderWay, t, sent, k, l)
  <2>1. /\ l \in Nat /\ Len(handled) \in Nat /\ Len(stream) \in Nat /\ stream \in Seq(Bytes)
        /\ Len(handled) <= l
    BY <1>1, LenProperties DEF TypeOK, Bytes, Pipelined
  <2>2. /\ b \in Nat
        /\ session.packetLength = IF b >= LengthBytes THEN sent[k] ELSE 0
        /\ InLine(UnderWay, t, sent, k, l)
    BY <1>1, StreamAssumption DEF Pipelined, Send, TypeOK
  <2>3. \A m \in k .. l : sent[m] \in Nat
    BY <1>1, <2>1, LengthsSent DEF TypeOK
  <2> QED
    BY <2>1, <2>2, <2>3, StreamAssumption
<1>3. /\ stream' \in Seq(Bytes)
      /\ Len(stream') = Len(stream) + length
      /\ \A p \in 1 .. Len(stream) : stream'[p] = stream[p]
      /\ \A p \in 1 .. length : stream'[Len(stream) + p] = <<l + 1, p - 1>>
  <2>1. PICK taken \in 0 .. length :
            /\ stream' = stream \o SubSeq(FrameOf(l + 1, length), 1, taken)
            /\ trouble' = (trouble \/ taken < length)
    BY SendTakes
  <2>2. taken = length /\ length \in 0 .. length
    <3>1. ~(taken < length)
      BY <2>1, Zenon
    <3> QED
      BY <1>2, <2>1, <3>1
  <2> DEFINE joined == stream \o SubSeq(FrameOf(l + 1, length), 1, length)
  <2>3. /\ joined \in Seq(Bytes)
        /\ Len(joined) = Len(stream) + length
        /\ \A p \in 1 .. Len(stream) : joined[p] = stream[p]
        /\ \A p \in 1 .. length : joined[Len(stream) + p] = <<l + 1, p - 1>>
    <3>1. l + 1 \in Nat
      BY <1>2
    <3>2. stream \in Seq(Bytes) /\ length \in Nat /\ length \in 0 .. length
      BY <1>2, <2>2
    <3> HIDE DEF l
    <3> QED
      BY <3>1, <3>2, SentBytes
  <2>4. stream' = joined
    BY <2>1, <2>2
  <2> HIDE DEF joined
  <2> QED
    BY <2>3, <2>4
<1>4. /\ Len(sent') = l + 1 /\ sent'[l + 1] = length
      /\ \A m \in 1 .. l : sent'[m] = sent[m]
      /\ UNCHANGED <<session, buffer, handled, defined>>
  BY <1>1, AppendProperties DEF TypeOK, Send
<1> DEFINE at2 == UnderWay'
<1>5. at2 = [x \in 0 .. t + length - 1 |-> IF x < b THEN buffer[x] ELSE stream'[x - b + 1]]
  <2>1. (b + Len(stream')) - 1 = t + length - 1
    <3>1. /\ b \in Nat /\ Len(stream) \in Nat /\ length \in Nat
          /\ Len(stream') = Len(stream) + length
      BY <1>2, <1>3
    <3> HIDE DEF b
    <3> QED
      BY <3>1
  <2> QED
    BY <1>4, <2>1 DEF UnderWay
<1>6. UnderWay = [x \in 0 .. t - 1 |-> IF x < b THEN buffer[x] ELSE stream[x - b + 1]]
  BY DEF UnderWay
<1> DEFINE at == UnderWay
<1>7. InLine(at, t, sent, k, l)
  BY <1>2
<1>8. b + Len(stream') = t + length
  BY <1>2, <1>3
<1> HIDE DEF at, at2
<1>9. \A x \in 0 .. t - 1 : at2[x] = at[x]
  <2> SUFFICES ASSUME NEW x \in 0 .. t - 1
               PROVE  at2[x] = at[x]
    OBVIOUS
  <2> HIDE DEF b
  <2>1. x \in 0 .. t + length - 1 /\ (~(x < b) => x - b + 1 \in 1 .. Len(stream))
    BY <1>2
  <2> QED
    BY <1>3, <1>5, <1>6, <2>1 DEF at
<1>10. \A p \in 0 .. length - 1 : at2[t + p] = <<l + 1, p>>
  <2> SUFFICES ASSUME NEW p \in 0 .. length - 1
               PROVE  at2[t + p] = <<l + 1, p>>
    OBVIOUS
  <2> HIDE DEF b
  <2>1. /\ t + p \in 0 .. t + length - 1 /\ ~(t + p < b)
        /\ (t + p) - b + 1 = Len(stream) + (p + 1)
        /\ p + 1 \in 1 .. length
        /\ (p + 1) - 1 = p
    BY <1>2
  <2> QED
    BY <1>3, <1>5, <2>1
<1>11. \A m \in k .. l : sent'[m] = sent[m]
  <2>1. \A m \in k .. l : m \in 1 .. l
    BY LenProperties, <1>1 DEF TypeOK
  <2> QED
    BY <1>4, <2>1
<1>12. InLine(at2, t + length, sent', k, l + 1)
  <2> DEFINE lengths2 == sent'
  <2>1. /\ t \in Nat /\ k \in Nat /\ l \in Nat /\ k <= l + 1 /\ length \in Nat
        /\ \A m \in k .. l : sent[m] \in Nat
    BY <1>2
  <2>2. /\ \A m \in k .. l : lengths2[m] = sent[m]
        /\ lengths2[l + 1] = length
    BY <1>4, <1>11
  <2> HIDE DEF t, k, l, lengths2
  <2>3. InLine(at2, t + length, lengths2, k, l + 1)
    <3>1. InLine(at, t, sent, k, l)
      BY <1>7 DEF t, k, l
    <3>2. /\ \A x \in 0 .. t - 1 : at2[x] = at[x]
          /\ \A p \in 0 .. length - 1 : at2[t + p] = <<l + 1, p>>
      BY <1>9, <1>10
    <3> QED
      BY ONLY <2>1, <2>2, <3>1, <3>2, LineGrows, Zenon
  <2> QED
    BY <2>3 DEF lengths2
<1>13. InLine(UnderWay, session.bytesRECV + Len(stream), sent, Len(handled) + 1, Len(sent))'
  BY <1>4, <1>8, <1>12 DEF at2
<1>14. session'.packetLength =
          IF session'.bytesRECV >= LengthBytes THEN sent'[Len(handled') + 1] ELSE 0
  <2>1. CASE b >= LengthBytes
    <3>1. k \in 1 .. l
      <4>1. CASE k = l + 1
        <5>1. t = 0
          <6>1. t \in Nat
            BY <1>2
          <6> HIDE DEF t, l
          <6> QED
            BY <1>2, <1>7, <4>1, <6>1, LineEmpty
        <5> QED
          BY <1>2, <2>1, <5>1, LengthBytesAssumption
      <4> QED
        <5>1. Len(handled) \in Nat
          BY <1>1, LenProperties DEF TypeOK
        <5>2. l \in Nat /\ k <= l + 1
          BY <1>2
        <5> HIDE DEF l
        <5> QED
          BY <4>1, <5>1, <5>2
    <3> QED
      BY <1>2, <1>4, <2>1, <3>1
  <2>2. CASE ~(b >= LengthBytes)
    BY <1>2, <1>4, <2>2
  <2> QED
    BY <2>1, <2>2
<1>15. Len(handled') <= Len(sent') /\ Intact'
  BY <1>2, <1>4 DEF Pipelined, Intact
<1>16. session'.bytesRECV >= 0
  BY <1>2, <1>4
<1>17. defined'
  BY <1>4 DEF Send
<1>18. session'.bytesRECV # sent'[Len(handled') + 1]
  <2>1. CASE k = l + 1
    <3>1. t = 0
      <4>1. t \in Nat
        BY <1>2
      <4> HIDE DEF t, l
      <4> QED
        BY <1>2, <1>7, <2>1, <4>1, LineEmpty
    <3>2. b = 0 /\ length > 0
      BY <1>2, <3>1, StreamAssumption, LengthBytesAssumption
    <3> QED
      BY <1>4, <2>1, <3>2
  <2>2. CASE k # l + 1
    <3>1. k \in 1 .. l
      <4>1. Len(handled) \in Nat
        BY <1>1, LenProperties DEF TypeOK
      <4>2. l \in Nat /\ k <= l + 1
        BY <1>2
      <4> HIDE DEF l
      <4> QED
        BY <2>2, <4>1, <4>2
    <3>2. Len(handled) < l
      BY <1>1, <3>1, LenProperties DEF TypeOK
    <3> QED
      BY <1>4, <3>1, <3>2 DEF Pipelined, Send
  <2> QED
    BY <2>1, <2>2
<1> QED
  BY <1>1, <1>13, <1>14, <1>15, <1>16, <1>17, <1>18 DEF Pipelined

\* The server receives some of the bytes in flight.
LEMMA PipeRecv ==
    ASSUME Pipelined, NEW n \in 1 .. Len(stream), Recv(n)
    PROVE  Pipelined'
<1> DEFINE b == session.bytesRECV
           l == Len(sent)
           k == Len(handled) + 1
           t == b + Len(stream)
           c == b + n
           at == UnderWay
           at2 == UnderWay'
<1>1. TypeOK' /\ TypeOK
  BY RecvType DEF Pipelined
<1>2. /\ l \in Nat /\ Len(handled) \in Nat /\ Len(handled) <= l
      /\ Len(stream) \in Nat /\ stream \in Seq(Bytes)
      /\ n \in 1 .. Len(stream)
      /\ b \in Nat
      /\ session.packetLength = IF b >= LengthBytes THEN sent[k] ELSE 0
      /\ InLine(at, t, sent, k, l)
      /\ UNCHANGED <<sent, link, trouble>>
      /\ stream' = SubSeq(stream, n + 1, Len(stream))
  BY <1>1, StreamAssumption, LenProperties DEF TypeOK, Bytes, Pipelined, Recv, clientVars
<1>3. CASE b < 0 \/ b + n > Capacity
  <2>1. ~defined' /\ UNCHANGED handled
    BY <1>3 DEF Recv
  <2>2. Overfull
    <3>1. b + n > Capacity /\ t \in Nat /\ b + n <= t /\ 0 < t /\ Capacity \in Nat
      <4> HIDE DEF b
      <4> QED
        BY <1>2, <1>3, StreamAssumption
    <3>2. l > Len(handled) /\ k \in 1 .. l
      <4>1. k # l + 1
        <5>1. ASSUME k = l + 1
              PROVE  t = 0
          <6> HIDE DEF at, t, l, k
          <6> QED
            BY <1>2, <3>1, <5>1, LineEmpty
        <5> QED
          BY <3>1, <5>1
      <4> HIDE DEF l
      <4> QED
        BY <1>2, <4>1
    <3>3. sent[k] \in Nat /\ k \in Nat
      BY <1>1, <1>2, <3>2, LengthsSent DEF TypeOK
    <3>4. CASE k = l
      <4>1. t = sent[k]
        <5> HIDE DEF at, t, l, k
        <5>1. InLine(at, t, sent, k, k)
          BY <1>2, <3>4
        <5> QED
          BY <3>1, <3>3, <5>1, LineAlone
      <4> HIDE DEF t, b
      <4>2. \A x \in Nat : b + n <= x /\ b + n > Capacity => x > Capacity
        BY <1>2, <3>1
      <4>3. sent[k] > Capacity
        BY <3>1, <3>3, <4>1, <4>2
      <4> QED
        BY <3>2, <3>4, <4>3 DEF Overfull
    <3>5. CASE k # l
      <4>1. l > Len(handled) + 1
        <5> HIDE DEF l
        <5> QED
          BY <1>2, <3>2, <3>5
      <4> QED
        BY <3>2, <4>1 DEF Overfull
    <3> QED
      BY <3>4, <3>5
  <2>3. Overfull'
    BY <1>2, <2>1, <2>2 DEF Overfull
  <2> QED
    BY <1>1, <1>2, <2>1, <2>3 DEF Pipelined, Intact
<1>4. CASE ~(b < 0 \/ b + n > Capacity)
  <2>1. /\ t \in Nat /\ c \in Nat /\ c <= t /\ c <= Capacity /\ k \in Nat /\ 0 < t
        /\ t - c = Len(stream) - n
    <3>1. Capacity \in Nat /\ b + n <= Capacity
      BY <1>2, <1>4, StreamAssumption
    <3> HIDE DEF b
    <3> QED
      BY <1>2, <3>1
  <2>2. k <= l /\ \A m \in k .. l : sent[m] \in Nat
    <3>1. k # l + 1
      <4>1. ASSUME k = l + 1
            PROVE  t = 0
        <5> HIDE DEF at, t, l, k
        <5> QED
          BY <1>2, <2>1, <4>1, LineEmpty
      <4> QED
        BY <2>1, <4>1
    <3>2. \A m \in 1 .. l : sent[m] \in Nat
      BY <1>1, LengthsSent DEF TypeOK
    <3>3. k <= l /\ \A m \in k .. l : m \in 1 .. l
      BY <1>2, <3>1
    <3> QED
      BY <3>2, <3>3
  <2>3. sent[k] <= t /\ sent[k] \in Nat /\ \A p \in 0 .. sent[k] - 1 : at[p] = <<k, p>>
    <3>1. k \in k .. l
      BY <1>2, <2>2
    <3> HIDE DEF at, t, l, k
    <3>2. sent[k] <= t /\ \A p \in 0 .. sent[k] - 1 : at[p] = <<k, p>>
      <4>1. /\ t \in Nat /\ k \in Nat /\ l \in Nat /\ k <= l
            /\ \A m \in k .. l : sent[m] \in Nat
            /\ InLine(at, t, sent, k, l)
        BY <1>2, <2>1, <2>2
      <4> QED
        <5>1. sent[k] <= t
          BY ONLY <4>1, LineFirst
        <5>2. \A p \in 0 .. sent[k] - 1 : at[p] = <<k, p>>
          BY ONLY <4>1, LineFirst
        <5> QED
          BY <5>1, <5>2
    <3> QED
      BY <2>2, <3>1, <3>2
  <2>4. k \in DOMAIN sent
    BY <1>1, <1>2, <2>2, LengthsSent DEF TypeOK
  <2>5. at = [x \in 0 .. t - 1 |-> IF x < b THEN buffer[x] ELSE stream[x - b + 1]]
    BY DEF UnderWay
  <2>6. \A x \in 0 .. c - 1 : Received(n)[x] = at[x]
    <3>1. /\ \A x \in 0 .. b - 1 : Received(n)[x] = buffer[x]
          /\ \A x \in b .. b + n - 1 : Received(n)[x] = stream[x - b + 1]
      <4>1. TypeOK /\ b >= 0 /\ b + n <= Capacity
        BY <1>1, <1>2, <2>1
      <4> QED
        BY <4>1, ReceivedBytes
    <3> SUFFICES ASSUME NEW x \in 0 .. c - 1
                 PROVE  Received(n)[x] = at[x]
      OBVIOUS
    <3>2. /\ x \in 0 .. t - 1
          /\ x < b => x \in 0 .. b - 1
          /\ ~(x < b) => x \in b .. b + n - 1
      <4> HIDE DEF b
      <4> QED
        BY <1>2, <2>1
    <3> HIDE DEF at, t, b, c
    <3> QED
      BY <2>5, <3>1, <3>2
  <2>7. /\ buffer' = Received(n)
        /\ defined' = TRUE
        /\ c = sent[k] => session' = NewSession /\ handled' = Append(handled, k)
        /\ c # sent[k] =>
              /\ session' = [bytesRECV |-> c,
                             packetLength |-> IF c >= LengthBytes THEN sent[k] ELSE 0]
              /\ UNCHANGED handled
    <3>1. \A p \in 0 .. sent[k] - 1 : p < c => Received(n)[p] = <<k, p>>
      <4> HIDE DEF at, t, k, c
      <4>1. \A p \in 0 .. sent[k] - 1 : p < c => p \in 0 .. c - 1
        BY <2>1, <2>3
      <4> QED
        BY <2>3, <2>6, <4>1
    <3>2. session.bytesRECV >= 0 /\ session.bytesRECV + n <= Capacity
      BY <1>2, <2>1
    <3> QED
      BY <1>1, <1>2, <2>4, <3>1, <3>2, RecvCollects
  <2>8. /\ Len(stream') = t - c
        /\ \A p \in 1 .. t - c : stream'[p] = stream[n + p]
    <3>1. n \in 0 .. Len(stream)
      BY <1>2
    <3> QED
      BY <1>2, <2>1, <3>1, BytesLeft
  <2>9. CASE c # sent[k]
    <3>1. /\ session'.bytesRECV = c
          /\ session'.packetLength = IF c >= LengthBytes THEN sent[k] ELSE 0
          /\ UNCHANGED handled
      BY <2>7, <2>9
    <3>2. c + Len(stream') = t
      BY <2>1, <2>8
    <3>3. at2 = [x \in 0 .. t - 1 |-> IF x < c THEN Received(n)[x] ELSE stream'[x - c + 1]]
      BY <2>7, <3>1, <3>2 DEF UnderWay
    <3>4. \A x \in 0 .. t - 1 : at2[x] = at[x]
      <4> SUFFICES ASSUME NEW x \in 0 .. t - 1
                   PROVE  at2[x] = at[x]
        OBVIOUS
      <4>1. CASE x < c
        <5>1. x \in 0 .. c - 1
          BY <2>1, <4>1
        <5> HIDE DEF at, at2, t, c
        <5> QED
          BY <2>6, <3>3, <4>1, <5>1
      <4>2. CASE ~(x < c)
        <5>1. /\ x - c + 1 \in 1 .. t - c
              /\ n + (x - c + 1) = x - b + 1
              /\ ~(x < b)
          <6> HIDE DEF b, t
          <6> QED
            BY <1>2, <2>1, <4>2
        <5> HIDE DEF at, at2, t, c, b
        <5> QED
          BY <2>5, <2>8, <3>3, <4>2, <5>1
      <4> QED
        BY <4>1, <4>2
    <3>5. InLine(at2, t, sent, k, l)
      <4> HIDE DEF at, at2, t, k, l
      <4> QED
        BY <1>2, <2>1, <2>2, <3>4, LineStays
    <3>6. InLine(UnderWay, session.bytesRECV + Len(stream), sent, Len(handled) + 1, Len(sent))'
      BY <1>2, <3>1, <3>2, <3>5
    <3>7. session'.bytesRECV >= 0
      BY <2>1, <3>1
    <3>8. Intact' /\ Len(handled') <= Len(sent')
      BY <1>2, <3>1 DEF Pipelined, Intact
    <3>9. session'.packetLength =
             IF session'.bytesRECV >= LengthBytes THEN sent'[Len(handled') + 1] ELSE 0
      BY <1>2, <3>1
    <3>10. defined' /\ session'.bytesRECV # sent'[Len(handled') + 1]
      BY <1>2, <2>7, <2>9, <3>1
    <3> QED
      BY <1>1, <3>6, <3>7, <3>8, <3>9, <3>10 DEF Pipelined
  <2>10. CASE c = sent[k]
    <3>1. session' = NewSession /\ handled' = Append(handled, Len(handled) + 1)
      BY <2>7, <2>10
    <3>2. Len(handled') = k /\ Intact'
      BY <1>1, <3>1, NextIntact DEF Pipelined, TypeOK
    <3>3. /\ session'.bytesRECV = 0 /\ session'.packetLength = 0
          /\ ~(0 >= LengthBytes)
      BY <3>1, LengthBytesAssumption DEF NewSession
    <3>4. at2 = [x \in 0 .. t - c - 1 |-> stream'[x + 1]]
      <4>1. (0 + Len(stream')) - 1 = t - c - 1
        BY <2>1, <2>8
      <4>2. \A x \in 0 .. t - c - 1 : ~(x < 0) /\ x - 0 + 1 = x + 1
        BY <2>1
      <4> HIDE DEF t, c
      <4> QED
        BY <3>3, <4>1, <4>2 DEF UnderWay
    <3>5. \A x \in 0 .. t - sent[k] - 1 : at2[x] = at[x + sent[k]]
      <4> SUFFICES ASSUME NEW x \in 0 .. t - c - 1
                   PROVE  at2[x] = at[x + c]
        BY <2>10
      <4>1. /\ x + 1 \in 1 .. t - c
            /\ x + c \in 0 .. t - 1
            /\ ~(x + c < b)
            /\ (x + c) - b + 1 = n + (x + 1)
        <5> HIDE DEF b, t
        <5> QED
          BY <1>2, <2>1
      <4> HIDE DEF at, at2, t, c, b
      <4> QED
        BY <2>5, <2>8, <3>4, <4>1
    <3>6. InLine(at2, t - sent[k], sent, k + 1, l)
      <4> HIDE DEF at, at2, t, k, l
      <4> QED
        BY <1>2, <2>1, <2>2, <3>5, LineAdvances
    <3>7. 0 + Len(stream') = t - sent[k]
      BY <2>1, <2>8, <2>10
    <3>8. InLine(UnderWay, session.bytesRECV + Len(stream), sent, Len(handled) + 1, Len(sent))'
      BY <1>2, <3>2, <3>3, <3>6, <3>7
    <3>9. defined' /\ sent' = sent
      BY <1>2, <2>7
    <3>10. ASSUME Len(handled') < Len(sent')
           PROVE  session'.bytesRECV # sent'[Len(handled') + 1]
      <4>1. k + 1 \in 1 .. l
        BY <1>2, <2>1, <3>2, <3>9, <3>10
      <4>2. sent[k + 1] \in Nat /\ sent[k + 1] >= LengthBytes
        BY <1>1, <4>1, LengthsSent DEF TypeOK
      <4> QED
        BY <3>2, <3>3, <3>9, <4>2, LengthBytesAssumption
    <3> QED
      BY <1>1, <1>2, <2>2, <3>2, <3>3, <3>8, <3>9, <3>10 DEF Pipelined
  <2> QED
    BY <2>9, <2>10
<1> QED
  BY <1>3, <1>4

\* Until a send is short or a recv finds nothing, this is an invariant.
Framed == TypeOK /\ (trouble \/ Pipelined)

LEMMA FramedStep ==
    ASSUME Framed, [Next]_vars
    PROVE  Framed'
<1>1. CASE UNCHANGED <<sent, stream, buffer, session, handled, defined, trouble>>
           /\ link' \in {"open", "closed", "removed"}
  BY <1>1 DEF Framed, Pipelined, TypeOK, Intact, UnderWay, Overfull
<1>2. CASE Close \/ RecvEnd \/ UNCHANGED vars
  BY <1>1, <1>2 DEF Close, RecvEnd, vars, Framed, TypeOK
<1>3. CASE RecvWouldBlock
  BY <1>3, WouldBlockType DEF Framed, RecvWouldBlock
<1>4. ASSUME NEW length \in FrameLengths, Send(length)
      PROVE  Framed'
  <2>1. TypeOK'
    BY <1>4, SendType DEF Framed
  <2>2. trouble => trouble'
    BY <1>4, SendTakes
  <2> QED
    BY <1>4, <2>1, <2>2, PipeSend DEF Framed
<1>5. ASSUME NEW n \in 1 .. Len(stream), Recv(n)
      PROVE  Framed'
  <2>1. TypeOK' /\ trouble' = trouble
    BY <1>5, RecvType DEF Framed, Recv
  <2> QED
    BY <1>5, <2>1, PipeRecv DEF Framed
<1> QED
  BY <1>2, <1>3, <1>4, <1>5 DEF Next, Server

\* A new connection has nothing under way.
LEMMA FramedInit == Init => Framed
<1> SUFFICES ASSUME Init
             PROVE  Pipelined
  BY DEF Framed, Pipelined
<1>1. TypeOK
  BY TypeInit
<1>2. /\ Len(sent) = 0 /\ Len(handled) = 0 /\ Len(stream) = 0
      /\ session.bytesRECV = 0 /\ session.packetLength = 0
      /\ ~(0 >= LengthBytes)
      /\ Intact
  BY LengthBytesAssumption DEF Init, NewSession, Intact
<1>3. InLine(UnderWay, 0, sent, 1, 0)
  <2> DEFINE start == [m \in 1 .. 0 + 1 |-> 0]
  <2>1. start \in [1 .. 0 + 1 -> Nat] /\ start[1] = 0 /\ start[0 + 1] = 0 /\ 1 .. 0 = {}
    OBVIOUS
  <2> HIDE DEF start
  <2> QED
    BY <2>1 DEF InLine
<1> QED
  BY <1>1, <1>2, <1>3 DEF Init, Pipelined

\* The commands are executed whole and in order, however many of them are
\* under way and however TCP cuts or joins them, until a send is short or a
\* recv finds nothing: a connection may stop executing before, but it never
\* executes anything else.
THEOREM StreamIntact == Spec => []CommandsIntact
<1>1. Framed => CommandsIntact
  BY DEF Framed, Pipelined, Intact, CommandsIntact
<1> QED
  BY <1>1, FramedInit, FramedStep, PTL DEF Spec

\* No byte is received outside the buffer before a second command is sent
\* behind one that is not executed, a frame is longer than the buffer, a send
\* is short or a recv finds nothing.
THEOREM StreamInBounds == Spec => []InBounds
<1>1. Framed => InBounds
  BY DEF Framed, Pipelined, Overfull, InBounds, Ahead
<1> QED
  BY <1>1, FramedInit, FramedStep, PTL DEF Spec
-----------------------------------------------------------------------------
(* One command under way.                                                  *)

\* What the buffer does not hold of the only frame under way is in flight.
LEMMA AlonePrefix ==
    ASSUME Pipelined, defined, Len(sent) = Len(handled) + 1
    PROVE  BufferHoldsPrefix
<1> DEFINE k == Len(sent)
           b == session.bytesRECV
           t == b + Len(stream)
           f == FrameOf(k, sent[k])
           rest == SubSeq(f, b + 1, sent[k])
<1>1. /\ k \in Nat /\ Len(handled) \in Nat /\ stream \in Seq(Bytes)
      /\ Len(stream) \in Nat /\ b \in Nat /\ t \in Nat
      /\ k = Len(handled) + 1
  BY StreamAssumption, LenProperties DEF Pipelined, TypeOK, Bytes
<1>2. k \in DOMAIN sent /\ sent[k] \in Nat /\ sent[k] >= LengthBytes
  BY <1>1, LengthsSent DEF Pipelined, TypeOK
<1>3. InLine(UnderWay, t, sent, k, k) /\ b # sent[k]
  BY <1>1 DEF Pipelined
<1>4. /\ b \in 0 .. sent[k] - 1
      /\ \A p \in 0 .. b - 1 : buffer[p] = <<k, p>>
      /\ Len(stream) = sent[k] - b
      /\ \A p \in 1 .. sent[k] - b : stream[p] = <<k, b + p - 1>>
  <2>1. t = sent[k]
    <3> HIDE DEF k, t
    <3> QED
      BY <1>1, <1>2, <1>3, LineAlone
  <2>2. b \in 0 .. sent[k] - 1 /\ Len(stream) = sent[k] - b
    <3> HIDE DEF k, b
    <3> QED
      BY <1>1, <1>2, <1>3, <2>1
  <2>3. \A p \in 0 .. sent[k] - 1 : UnderWay[p] = <<k, p>>
    <3>1. k <= k /\ \A m \in k .. k : sent[m] \in Nat
      BY <1>1, <1>2
    <3>2. k \in Nat /\ t \in Nat
      BY <1>1
    <3>3. InLine(UnderWay, t, sent, k, k)
      BY <1>3
    <3> HIDE DEF k, t
    <3> QED
      BY <3>1, <3>2, <3>3, LineFirst
  <2>4. UnderWay = [x \in 0 .. sent[k] - 1 |-> IF x < b THEN buffer[x] ELSE stream[x - b + 1]]
    BY <2>1 DEF UnderWay
  <2>5. ASSUME NEW p \in 0 .. b - 1
        PROVE  buffer[p] = <<k, p>>
    <3>1. p \in 0 .. sent[k] - 1 /\ p < b
      <4> HIDE DEF b, k
      <4> QED
        BY <1>1, <1>2, <2>2
    <3> HIDE DEF b, k
    <3> QED
      BY <2>3, <2>4, <3>1
  <2>6. ASSUME NEW p \in 1 .. sent[k] - b
        PROVE  stream[p] = <<k, b + p - 1>>
    <3>1. b + p - 1 \in 0 .. sent[k] - 1 /\ ~(b + p - 1 < b) /\ (b + p - 1) - b + 1 = p
      <4> HIDE DEF b, k
      <4> QED
        BY <1>1, <1>2, <2>2
    <3> HIDE DEF b, k
    <3> QED
      BY <2>3, <2>4, <3>1
  <2> QED
    BY <2>2, <2>5, <2>6
<1>5. f \in Seq(Bytes) /\ Len(f) = sent[k] /\ \A p \in 1 .. sent[k] : f[p] = <<k, p - 1>>
  BY <1>1, <1>2, FrameBytes
<1> HIDE DEF f
<1>6. /\ rest \in Seq(Bytes)
      /\ Len(rest) = sent[k] - b
      /\ \A p \in 1 .. sent[k] - b : rest[p] = f[b + p]
  <2>1. /\ rest \in Seq(Bytes)
        /\ Len(rest) = IF b + 1 <= sent[k] THEN sent[k] - (b + 1) + 1 ELSE 0
        /\ \A p \in 1 .. sent[k] - (b + 1) + 1 : rest[p] = f[b + 1 + p - 1]
    <3>1. b + 1 \in Int /\ sent[k] \in Int
      BY <1>1, <1>2
    <3>2. \A p \in b + 1 .. sent[k] : f[p] \in Bytes
      <4> HIDE DEF b, k
      <4>1. \A p \in b + 1 .. sent[k] : p \in 1 .. Len(f)
        BY <1>1, <1>2, <1>5
      <4> QED
        BY <1>5, <4>1, ElementOfSeq
    <3> DEFINE m == b + 1
               l == sent[k]
    <3>3. m \in Int /\ l \in Int /\ \A p \in m .. l : f[p] \in Bytes
      BY <3>1, <3>2
    <3> HIDE DEF m, l
    <3>4. /\ SubSeq(f, m, l) \in Seq(Bytes)
          /\ Len(SubSeq(f, m, l)) = IF m <= l THEN l - m + 1 ELSE 0
          /\ \A p \in 1 .. l - m + 1 : SubSeq(f, m, l)[p] = f[m + p - 1]
      BY <3>3, SubSeqProperties
    <3> QED
      BY <3>4 DEF m, l
  <2> HIDE DEF b, k, rest
  <2>2. sent[k] - (b + 1) + 1 = sent[k] - b /\ b + 1 <= sent[k]
    BY <1>1, <1>2, <1>4
  <2>3. \A p \in 1 .. sent[k] - b : b + 1 + p - 1 = b + p
    BY <1>1, <1>2
  <2> QED
    BY <2>1, <2>2, <2>3
<1> HIDE DEF rest
<1>7. stream = rest
  <2>1. ASSUME NEW p \in 1 .. sent[k] - b
        PROVE  stream[p] = rest[p]
    <3> HIDE DEF b, k
    <3>1. b + p \in 1 .. sent[k] /\ (b + p) - 1 = b + p - 1
      BY <1>1, <1>2
    <3> QED
      BY <1>4, <1>5, <1>6, <3>1
  <2> QED
    BY <1>1, <1>4, <1>6, <2>1, SeqEqual
<1> QED
  BY <1>1, <1>4, <1>7 DEF BufferHoldsPrefix, Holds, rest, f

\* As long as no second command is sent behind one that is not executed, the
\* bytes counted are the first of the command under way, each in its place,
\* and the others are in flight, until a send is short, a recv finds nothing
\* or a byte is received outside the buffer.
THEOREM WaitingPrefix == Spec => []BufferHoldsPrefix
<1>1. Framed => BufferHoldsPrefix
  <2> SUFFICES ASSUME Framed, ~trouble, defined, ~Ahead
               PROVE  BufferHoldsPrefix
    BY DEF BufferHoldsPrefix
  <2>1. /\ Len(sent) \in Nat /\ Len(handled) \in Nat
        /\ Len(sent) = Len(handled) \/ Len(sent) = Len(handled) + 1
    BY LenProperties DEF Framed, Pipelined, Ahead, TypeOK
  <2>3. CASE Len(sent) = Len(handled) + 1
    BY <2>3, AlonePrefix DEF Framed
  <2>4. CASE Len(sent) = Len(handled)
    <3> DEFINE b == session.bytesRECV
               l == Len(sent)
               t == b + Len(stream)
    <3>1. b \in Nat /\ Len(stream) \in Nat /\ t \in Nat /\ InLine(UnderWay, t, sent, l + 1, l)
      BY <2>4, StreamAssumption, LenProperties DEF Framed, Pipelined, TypeOK
    <3>2. t = 0
      <4> HIDE DEF t, l
      <4>1. l \in Nat
        BY <2>1 DEF l
      <4> QED
        BY <3>1, <4>1, LineEmpty
    <3>3. b = 0 /\ Len(stream) = 0
      <4> HIDE DEF b
      <4> QED
        BY <3>1, <3>2
    <3>4. session.packetLength = 0
      BY <3>3, LengthBytesAssumption DEF Framed, Pipelined
    <3>5. session = NewSession
      BY <3>3, <3>4 DEF Framed, TypeOK, NewSession
    <3>6. stream = << >>
      BY <3>3, EmptySeq DEF Framed, TypeOK
    <3>7. Len(handled) + 1 > Len(sent)
      BY <2>1, <2>4
    <3> QED
      BY <3>5, <3>6, <3>7 DEF BufferHoldsPrefix
  <2> QED
    BY <2>1, <2>3, <2>4
<1> QED
  BY <1>1, FramedInit, FramedStep, PTL DEF Spec
=============================================================================
