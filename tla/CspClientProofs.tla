--------------------------- MODULE CspClientProofs ---------------------------
(* The types of CspClient, the conservation of its writes, and its two     *)
(* request loops, for any number of writes, any ids and any size of answer.*)
EXTENDS CspClient, SequenceTheorems, TLAPS

Sends == [kind : {"send"}, key : BOOLEAN, ack : 0..MaxEventId,
          packets : Seq(Packet)]

(* The types of the variables of the write path, and of the others. *)
WritingOK ==
  /\ writeBuffer \in Seq(1..MaxWrites)
  /\ packetsInFlight \in Seq(Packet)
  /\ lastSentId \in Nat
  /\ nulls \subseteq {"inBuffer", "inFlight", "sent"}
  /\ sendXhr \in {Idle} \cup [kind : {"handshake"}, body : BOOLEAN] \cup Sends
  /\ requests \subseteq Seq(Packet)

StateOK ==
  /\ readyState \in {"INITIAL", "CONNECTING", "CONNECTED", "DISCONNECTING",
                     "DISCONNECTED"}
  /\ hasKey \in BOOLEAN
  /\ timers \subseteq {"handshakeTimeout", "handshakeRetry", "write", "comet",
                       "timeout"}
  /\ disconnects \in Seq({"close", "protocol error", "clean", "unreachable"})

CometOK ==
  /\ lastEventId \in {NoEvent} \cup 1..MaxEventId
  /\ cometXhr \in {Idle} \cup [kind : {"comet"}, key : BOOLEAN,
                               ack : 0..MaxEventId]
  /\ running \in {"none", "onconnect", "packets", "onread"}
  /\ response \in Seq(EventPackets)
  /\ written \in 0..MaxWrites
  /\ acked \in Seq(1..MaxWrites)
  /\ delivered \in Seq(1..MaxEventId)

LEMMA TypeParts ==
  /\ TypeOK <=> WritingOK /\ StateOK /\ CometOK
  /\ TypeOK' <=> WritingOK' /\ StateOK' /\ CometOK'
  BY DEF TypeOK, WritingOK, StateOK, CometOK, Sends

LEMMA WritingUnchanged == WritingOK /\ UNCHANGED writing => WritingOK'
  BY DEF WritingOK, writing

LEMMA AckIdType == CometOK => AckId \in 0..MaxEventId
<1>1. MaxEventId \in Nat
  BY BoundsAssumption
<1>2. CometOK => lastEventId = NoEvent \/ lastEventId \in 1..MaxEventId
  BY DEF CometOK
<1> QED
  BY <1>1, <1>2 DEF AckId, NoEvent

(* The data packet __doWrite makes of the buffer. *)
LEMMA DataFlightType ==
  ASSUME WritingOK, NEW flight \in Seq(Packet), NEW buffer \in Seq(1..MaxWrites)
  PROVE  /\ DataFlight(flight, buffer) \in Seq(Packet)
         /\ DataFlight(flight, buffer) = flight
              \/ /\ flight = <<>> /\ buffer # <<>>
                 /\ Len(DataFlight(flight, buffer)) = 1
                 /\ DataFlight(flight, buffer)[1].data = buffer
<1> DEFINE p == [id |-> lastSentId + 1, data |-> buffer]
<1>1. p \in Packet /\ p.data = buffer
  BY DEF WritingOK, Packet
<1> HIDE DEF p
<1>2. <<p>> \in Seq(Packet) /\ Len(<<p>>) = 1 /\ <<p>>[1] = p
  BY <1>1
<1>3. CASE flight = <<>> /\ buffer # <<>>
  <2>1. DataFlight(flight, buffer) = <<p>>
    BY <1>3 DEF DataFlight, p
  <2> QED
    BY <1>1, <1>2, <1>3, <2>1
<1>4. CASE ~(flight = <<>> /\ buffer # <<>>)
  BY <1>4 DEF DataFlight
<1> QED
  BY <1>3, <1>4

Sent(flight, buffer, sendNull) ==
  LET data == DataFlight(flight, buffer)
  IN  IF NullJoins(flight, buffer, sendNull)
        THEN Append(data, NullPacket(NullId(flight, data)))
        ELSE data

(* What __doWrite sends: what was in flight or else the buffer, with a     *)
(* null behind it when one joins.                                          *)
LEMMA SentType ==
  ASSUME WritingOK, NEW flight \in Seq(Packet), NEW buffer \in Seq(1..MaxWrites),
         NEW sendNull \in BOOLEAN
  PROVE  LET next == Sent(flight, buffer, sendNull)
             data == DataFlight(flight, buffer)
         IN  /\ next \in Seq(Packet)
             /\ next = <<>> => data = <<>>
             /\ data # <<>> => next # <<>> /\ next[1] = data[1]
             /\ (data = <<>> /\ next # <<>>) => next[1].data = <<>>
             /\ next = <<>> => buffer = <<>> /\ ~sendNull
<1> DEFINE data == DataFlight(flight, buffer)
           null == NullPacket(NullId(flight, data))
           next == Sent(flight, buffer, sendNull)
<1>1. data \in Seq(Packet)
      /\ (data = flight \/ (flight = <<>> /\ buffer # <<>> /\ Len(data) = 1))
  BY DataFlightType
<1>2. null \in Packet /\ null.data = <<>>
  BY DEF WritingOK, Packet, NullPacket, NullId
<1>3. data = <<>> => flight = <<>> /\ buffer = <<>>
  BY DEF DataFlight
<1>4. next = IF NullJoins(flight, buffer, sendNull) THEN Append(data, null) ELSE data
  BY DEF Sent
<1>5. flight = <<>> => (NullJoins(flight, buffer, sendNull) <=> sendNull)
  BY DEF NullJoins
<1> HIDE DEF data, null, next
<1>6. /\ Append(data, null) \in Seq(Packet)
      /\ Append(data, null) # <<>>
      /\ data # <<>> => Append(data, null)[1] = data[1]
      /\ data = <<>> => Append(data, null)[1] = null
  <2>1. /\ Append(data, null) \in Seq(Packet)
        /\ Len(Append(data, null)) = Len(data) + 1
        /\ \A i \in 1..Len(data) : Append(data, null)[i] = data[i]
        /\ Append(data, null)[Len(data) + 1] = null
    BY <1>1, <1>2, AppendProperties
  <2>2. Len(data) \in Nat /\ (data # <<>> => Len(data) # 0) /\ (data = <<>> => Len(data) = 0)
    BY <1>1, EmptySeq, LenProperties
  <2> QED
    BY <2>1, <2>2
<1> QED
  BY <1>1, <1>2, <1>3, <1>4, <1>5, <1>6 DEF data, next

LEMMA SentNothing ==
  ASSUME WritingOK, NEW flight \in Seq(Packet), NEW buffer \in Seq(1..MaxWrites),
         NEW sendNull \in BOOLEAN, Sent(flight, buffer, sendNull) = <<>>
  PROVE  flight = <<>> /\ buffer = <<>> /\ ~sendNull
<1> DEFINE data == DataFlight(flight, buffer)
<1>1. data = <<>> /\ buffer = <<>> /\ ~sendNull
  BY SentType
<1>2. data = flight
  BY <1>1 DEF DataFlight
<1> QED
  BY <1>1, <1>2

LEMMA SendNowType ==
  ASSUME WritingOK, CometOK, hasKey \in BOOLEAN,
         NEW flight \in Seq(Packet), NEW buffer \in Seq(1..MaxWrites),
         NEW sendNull \in BOOLEAN, SendNow(flight, buffer, sendNull)
  PROVE  WritingOK'
<1> DEFINE next == Sent(flight, buffer, sendNull)
           req == [kind |-> "send", key |-> hasKey, ack |-> AckId, packets |-> next]
<1>1. next \in Seq(Packet)
  BY SentType
<1>2. packetsInFlight' = next
  BY DEF SendNow, Sent
<1>3. writeBuffer' \in Seq(1..MaxWrites)
  BY EmptySeq DEF SendNow
<1>4. nulls' \subseteq {"inBuffer", "inFlight", "sent"}
  BY DEF SendNow, WritingOK
<1>5. lastSentId' \in Nat
  <2>1. lastSentId' = IF next = flight THEN lastSentId ELSE next[Len(next)].id
    BY DEF SendNow, Sent
  <2>2. next = <<>> => flight = <<>>
    BY SentType DEF DataFlight
  <2>3. CASE next = <<>>
    BY <2>1, <2>2, <2>3 DEF WritingOK
  <2>4. CASE next # <<>>
    <3> HIDE DEF next
    <3>1. Len(next) \in 1..Len(next)
      BY <1>1, <2>4, EmptySeq
    <3>2. next[Len(next)] \in Packet
      BY <1>1, <3>1, ElementOfSeq
    <3> QED
      BY <2>1, <3>2 DEF Packet, WritingOK
  <2> QED
    BY <2>3, <2>4
<1>6. \/ sendXhr' = sendXhr /\ requests' = requests
      \/ sendXhr' = req /\ requests' = requests \cup {next}
  BY DEF SendNow, Sent
<1> HIDE DEF next
<1>7. req \in Sends
  BY <1>1, AckIdType DEF Sends
<1> HIDE DEF req
<1> QED
  BY <1>1, <1>2, <1>3, <1>4, <1>5, <1>6, <1>7 DEF WritingOK

LEMMA DoWriteType ==
  ASSUME WritingOK, CometOK, hasKey \in BOOLEAN,
         NEW buffer \in Seq(1..MaxWrites),
         NEW sendNull \in BOOLEAN, DoWrite(buffer, sendNull)
  PROVE  WritingOK'
<1>1. CASE packetsInFlight # <<>>
  BY <1>1 DEF DoWrite, WritingOK
<1>2. CASE packetsInFlight = <<>>
  BY <1>2, SendNowType DEF DoWrite, WritingOK
<1> QED
  BY <1>1, <1>2

LEMMA DisconnectsGrow ==
  ASSUME StateOK,
         NEW d \in {"close", "protocol error", "clean", "unreachable"}
  PROVE  Append(disconnects, d)
           \in Seq({"close", "protocol error", "clean", "unreachable"})
  BY AppendProperties DEF StateOK

LEMMA CloseSessionType ==
  ASSUME TypeOK, NEW ts \in SUBSET timers, CloseSession(ts)
  PROVE  WritingOK' /\ StateOK'
<1> USE TypeParts
<1>1. CASE readyState = "DISCONNECTED"
  BY <1>1, WritingUnchanged DEF CloseSession, StateOK
<1>2. CASE readyState # "DISCONNECTED"
  <2>1. timers' \subseteq timers
    BY <1>2 DEF CloseSession
  <2>2. disconnects' \in Seq({"close", "protocol error", "clean", "unreachable"})
    <3> DEFINE D == {"close", "protocol error", "clean", "unreachable"}
    <3>1. <<"close", "close">> \in Seq(D) /\ <<"close">> \in Seq(D)
      OBVIOUS
    <3>2. disconnects \in Seq(D)
      BY DEF StateOK
    <3>3. \/ disconnects' = disconnects \o <<"close", "close">>
          \/ disconnects' = disconnects \o <<"close">>
      BY <1>2 DEF CloseSession
    <3> HIDE DEF D
    <3>4. disconnects' \in Seq(D)
      BY <3>1, <3>2, <3>3, ConcatProperties
    <3> QED
      BY <3>4 DEF D
  <2>3. StateOK'
    BY <1>2, <2>1, <2>2 DEF CloseSession, StateOK
  <2>4. DoWrite(writeBuffer, TRUE) \/ UNCHANGED writing
    BY <1>2 DEF CloseSession
  <2>5. WritingOK'
    BY <2>4, DoWriteType, WritingUnchanged DEF WritingOK, StateOK
  <2> QED
    BY <2>3, <2>5
<1> QED
  BY <1>1, <1>2

LEMMA ProtocolErrorType ==
  ASSUME TypeOK, ProtocolError
  PROVE  WritingOK' /\ StateOK'
<1>1. WritingOK'
  BY TypeParts, DoWriteType DEF ProtocolError, WritingOK, StateOK
<1>2. StateOK'
  BY TypeParts, DisconnectsGrow DEF ProtocolError, StateOK
<1> QED
  BY <1>1, <1>2

LEMMA TypeInit == Init => TypeOK
<1> SUFFICES ASSUME Init PROVE TypeOK
  OBVIOUS
<1>1. WritingOK
  BY EmptySeq DEF Init, WritingOK
<1>2. StateOK
  BY EmptySeq DEF Init, StateOK
<1>3. CometOK
  BY BoundsAssumption, EmptySeq DEF Init, CometOK
<1> QED
  BY <1>1, <1>2, <1>3, TypeParts

LEMMA TypeConnect == TypeOK /\ Connect => TypeOK'
<1> SUFFICES ASSUME TypeOK, Connect PROVE TypeOK'
  OBVIOUS
<1>1. WritingOK' /\ StateOK'
  BY TypeParts DEF Connect, WritingOK, StateOK
<1>2. CometOK'
  BY TypeParts DEF Connect, CometOK
<1> QED
  BY <1>1, <1>2, TypeParts

LEMMA TypeWrite == TypeOK /\ Write => TypeOK'
<1> SUFFICES ASSUME TypeOK, Write PROVE TypeOK'
  OBVIOUS
<1> USE TypeParts
<1>1. written + 1 \in 1..MaxWrites
  BY BoundsAssumption DEF Write, CometOK
<1>2. Append(writeBuffer, written + 1) \in Seq(1..MaxWrites)
  BY <1>1, AppendProperties DEF WritingOK
<1>3. WritingOK'
  BY <1>2, DoWriteType DEF Write, StateOK
<1>4. StateOK'
  BY DEF Write, StateOK
<1>5. written' \in 0..MaxWrites
  BY <1>1 DEF Write
<1>6. CometOK'
  BY <1>5 DEF Write, CometOK
<1> QED
  BY <1>3, <1>4, <1>6

LEMMA TypeClose == TypeOK /\ Close => TypeOK'
<1> SUFFICES ASSUME TypeOK, Close PROVE TypeOK'
  OBVIOUS
<1>1. WritingOK' /\ StateOK'
  BY CloseSessionType DEF Close
<1>2. CometOK'
  BY TypeParts DEF Close, CometOK
<1> QED
  BY <1>1, <1>2, TypeParts

LEMMA TypeHandshake ==
  TypeOK /\ (HandshakeTimeout \/ HandshakeRetry \/ HandshakeSuccess
             \/ OnConnectReturns \/ \E notFound \in BOOLEAN : HandshakeFailure(notFound))
  => TypeOK'
<1> SUFFICES ASSUME TypeOK PROVE
      (HandshakeTimeout \/ HandshakeRetry \/ HandshakeSuccess
         \/ OnConnectReturns \/ \E notFound \in BOOLEAN : HandshakeFailure(notFound))
      => TypeOK'
  OBVIOUS
<1> USE TypeParts
<1>1. ASSUME HandshakeTimeout PROVE TypeOK'
  <2>1. StateOK'
    BY <1>1, DisconnectsGrow DEF HandshakeTimeout, StateOK
  <2> QED
    BY <1>1, <2>1, WritingUnchanged DEF HandshakeTimeout, CometOK
<1>2. ASSUME HandshakeRetry PROVE TypeOK'
  BY <1>2 DEF HandshakeRetry, WritingOK, StateOK, CometOK
<1>3. ASSUME HandshakeSuccess PROVE TypeOK'
  BY <1>3 DEF HandshakeSuccess, HandshakeAnswered, WritingOK, StateOK, CometOK
<1>4. ASSUME OnConnectReturns PROVE TypeOK'
  <2>1. CometOK'
    BY <1>4, AckIdType DEF OnConnectReturns, DoConnectComet, StateOK, CometOK
  <2> QED
    BY <1>4, <2>1, WritingUnchanged DEF OnConnectReturns, StateOK
<1>5. ASSUME NEW notFound \in BOOLEAN, HandshakeFailure(notFound) PROVE TypeOK'
  <2>1. WritingOK' /\ CometOK'
    BY <1>5 DEF HandshakeFailure, HandshakeAnswered, WritingOK, CometOK
  <2>2. timers' = timers \/ timers' = timers \ {"handshakeTimeout"}
        \/ timers' = timers \cup {"handshakeRetry"}
    BY <1>5 DEF HandshakeFailure, RetryHandshake
  <2>3. disconnects' = disconnects \/ disconnects' = Append(disconnects, "unreachable")
    BY <1>5 DEF HandshakeFailure
  <2>4. StateOK'
    BY <1>5, <2>2, <2>3, DisconnectsGrow DEF HandshakeFailure, StateOK
  <2> QED
    BY <2>1, <2>4
<1> QED
  BY <1>1, <1>2, <1>3, <1>4, <1>5

LEMMA TypeSend ==
  ASSUME TypeOK, sendXhr.kind = "send" => packetsInFlight # <<>>
  PROVE  (WriteSuccess \/ WriteFailure \/ WriteTimer) => TypeOK'
<1> USE TypeParts
<1> DEFINE waiting == "inBuffer" \in nulls
<1>a. waiting \in BOOLEAN /\ (waiting <=> "inBuffer" \in nulls)
  OBVIOUS
<1>1. ASSUME WriteSuccess PROVE TypeOK'
  <2>1. StateOK'
    BY <1>1 DEF WriteSuccess, WriteSucceeds, WithTimeoutReset, StateOK
  <2>2. CASE WriteSucceeds
    <3>1. packetsInFlight[1] \in Packet
      BY <1>1, EmptySeq, ElementOfSeq DEF WriteSuccess, SendAnswered, WritingOK
    <3>2. packetsInFlight[1].data \in Seq(1..MaxWrites)
      BY <3>1 DEF Packet
    <3>3. acked' \in Seq(1..MaxWrites)
      BY <2>2, <3>2, ConcatProperties DEF WriteSucceeds, CometOK
    <3>4. CometOK'
      BY <1>1, <3>3 DEF WriteSuccess, CometOK
    <3>5. CASE writeBuffer # <<>> \/ "inBuffer" \in nulls
      <4>1. SendNow(<<>>, writeBuffer, waiting)
        BY <2>2, <3>5 DEF WriteSucceeds
      <4>2. <<>> \in Seq(Packet) /\ writeBuffer \in Seq(1..MaxWrites)
            /\ hasKey \in BOOLEAN
        BY EmptySeq DEF WritingOK, StateOK
      <4> HIDE DEF waiting
      <4>3. WritingOK'
        BY <1>a, <4>1, <4>2, SendNowType
      <4> QED
        BY <2>1, <3>4, <4>3
    <3>6. CASE ~(writeBuffer # <<>> \/ "inBuffer" \in nulls)
      <4>1. WritingOK'
        BY <2>2, <3>6, EmptySeq DEF WriteSucceeds, WritingOK
      <4> QED
        BY <2>1, <3>4, <4>1
    <3> QED
      BY <3>5, <3>6
  <2>3. CASE ~(readyState \in {"CONNECTED", "DISCONNECTING"} /\ "inFlight" \notin nulls)
    BY <1>1, <2>1, <2>3 DEF WriteSuccess, WritingOK, CometOK
  <2> QED
    BY <1>1, <2>2, <2>3 DEF WriteSuccess
<1>2. ASSUME WriteFailure PROVE TypeOK'
  BY <1>2 DEF WriteFailure, WritingOK, StateOK, CometOK
<1>3. ASSUME WriteTimer PROVE TypeOK'
  <2>1. SendNow(packetsInFlight, writeBuffer, waiting)
    BY <1>3 DEF WriteTimer
  <2>2. packetsInFlight \in Seq(Packet) /\ writeBuffer \in Seq(1..MaxWrites)
        /\ hasKey \in BOOLEAN
    BY DEF WritingOK, StateOK
  <2> HIDE DEF waiting
  <2>3. WritingOK'
    BY <1>a, <2>1, <2>2, SendNowType
  <2>4. StateOK' /\ CometOK'
    BY <1>3 DEF WriteTimer, StateOK, CometOK
  <2> QED
    BY <2>3, <2>4
<1> QED
  BY <1>1, <1>2, <1>3
(* A packet that is there has an id, and leaves the rest of the answer. *)
LEMMA HeadPacketType ==
  ASSUME CometOK, NEW kinds \in SUBSET PacketKinds, AtPacket(kinds)
  PROVE  /\ Head(response).id \in 1..MaxEventId
         /\ Tail(response) \in Seq(EventPackets)
<1>1. response \in Seq(EventPackets) /\ response # <<>>
  BY DEF CometOK, AtPacket
<1>2. Head(response) \in EventPackets /\ Tail(response) \in Seq(EventPackets)
  BY <1>1, HeadTailProperties
<1>3. Head(response).kind # "missing"
  BY DEF AtPacket, PacketKinds
<1> QED
  BY <1>2, <1>3 DEF EventPackets

LEMMA HandlerStopsType ==
  ASSUME CometOK, HandlerStops,
         lastEventId' \in {NoEvent} \cup 1..MaxEventId,
         UNCHANGED <<cometXhr, written, acked, delivered>>
  PROVE  CometOK'
  BY EmptySeq DEF HandlerStops, CometOK

LEMMA TypeComet ==
  TypeOK /\ (CometTimer \/ CometEmpty \/ TimeoutExpires
             \/ (\E batch \in Responses : CometSuccess(batch))
             \/ \E sessionNotFound \in BOOLEAN : CometFailure(sessionNotFound))
  => TypeOK'
<1> SUFFICES ASSUME TypeOK PROVE
      (CometTimer \/ CometEmpty \/ TimeoutExpires
         \/ (\E batch \in Responses : CometSuccess(batch))
         \/ \E sessionNotFound \in BOOLEAN : CometFailure(sessionNotFound))
      => TypeOK'
  OBVIOUS
<1> USE TypeParts
<1>1. ASSUME CometTimer PROVE TypeOK'
  <2>1. CometOK'
    BY <1>1, AckIdType DEF CometTimer, DoConnectComet, StateOK, CometOK
  <2> QED
    BY <1>1, <2>1, WritingUnchanged DEF CometTimer, StateOK
<1>2. ASSUME CometEmpty PROVE TypeOK'
  BY <1>2, WritingUnchanged
     DEF CometEmpty, CometAnswered, WithTimeoutReset, StateOK, CometOK
<1>3. ASSUME TimeoutExpires PROVE TypeOK'
  <2>1. WritingOK' /\ StateOK'
    BY <1>3, CloseSessionType DEF TimeoutExpires
  <2> QED
    BY <1>3, <2>1 DEF TimeoutExpires, CometOK
<1>4. ASSUME NEW batch \in Responses, CometSuccess(batch) PROVE TypeOK'
  <2>1. batch \in Seq(EventPackets)
    <3>1. PICK n \in 0..MaxBatch : batch \in [1..n -> EventPackets]
      BY <1>4 DEF Responses
    <3>2. n \in Nat
      BY BoundsAssumption
    <3> HIDE DEF EventPackets
    <3> QED
      BY <3>1, <3>2, SeqDef
  <2>2. CometOK'
    BY <1>4, <2>1 DEF CometSuccess, CometAnswered, CometOK
  <2>3. StateOK'
    BY <1>4 DEF CometSuccess, WithTimeoutReset, StateOK
  <2> QED
    BY <1>4, <2>2, <2>3, WritingUnchanged DEF CometSuccess
<1>5. ASSUME NEW sessionNotFound \in BOOLEAN, CometFailure(sessionNotFound)
      PROVE TypeOK'
  <2>1. CometOK'
    BY <1>5 DEF CometFailure, CometAnswered, CometOK
  <2>2. CASE CloseSession(timers)
    BY <2>1, <2>2, CloseSessionType
  <2>3. CASE ~CloseSession(timers)
    <3>1. UNCHANGED <<readyState, hasKey, writing, disconnects>>
          /\ (timers' = timers \/ timers' = timers \cup {"comet"})
      BY <1>5, <2>3 DEF CometFailure
    <3>2. StateOK'
      BY <3>1 DEF StateOK
    <3> QED
      BY <2>1, <3>1, <3>2, WritingUnchanged
  <2> QED
    BY <2>2, <2>3
<1> QED
  BY <1>1, <1>2, <1>3, <1>4, <1>5

LEMMA TypePackets ==
  TypeOK /\ (SkipPacket \/ DeliverPacket \/ OnReadReturns \/ ReceivedNullPacket
             \/ CorruptPacket \/ UnreadablePacket \/ PacketAhead \/ MissingPacket
             \/ PacketsDone)
  => TypeOK'
<1> SUFFICES ASSUME TypeOK PROVE
      (SkipPacket \/ DeliverPacket \/ OnReadReturns \/ ReceivedNullPacket
         \/ CorruptPacket \/ UnreadablePacket \/ PacketAhead \/ MissingPacket
             \/ PacketsDone)
      => TypeOK'
  OBVIOUS
<1> USE TypeParts
<1>1. ASSUME SkipPacket PROVE TypeOK'
  <2>1. CometOK'
    BY <1>1, HeadPacketType DEF PacketKinds, SkipPacket, CometOK
  <2> QED
    BY <1>1, <2>1, WritingUnchanged DEF SkipPacket, StateOK
<1>2. ASSUME DeliverPacket PROVE TypeOK'
  <2>1. AtPacket({"data"})
    BY <1>2 DEF DeliverPacket, Expected
  <2>2. Head(response).id \in 1..MaxEventId /\ Tail(response) \in Seq(EventPackets)
    BY <2>1, HeadPacketType DEF PacketKinds
  <2>3. Append(delivered, Head(response).id) \in Seq(1..MaxEventId)
    BY <2>2, AppendProperties DEF CometOK
  <2>4. CometOK'
    BY <1>2, <2>2, <2>3 DEF DeliverPacket, Expected, CometOK
  <2> QED
    BY <1>2, <2>4, WritingUnchanged DEF DeliverPacket, StateOK
<1>3. ASSUME OnReadReturns PROVE TypeOK'
  BY <1>3, WritingUnchanged DEF OnReadReturns, StateOK, CometOK
<1>4. ASSUME ReceivedNullPacket PROVE TypeOK'
  <2>1. AtPacket({"null"}) /\ lastEventId' = Head(response).id
    BY <1>4 DEF ReceivedNullPacket, Expected
  <2>2. CometOK'
    BY <1>4, <2>1, HeadPacketType, HandlerStopsType DEF ReceivedNullPacket, PacketKinds
  <2>3. DoWrite(writeBuffer, TRUE) \/ UNCHANGED writing
    BY <1>4 DEF ReceivedNullPacket, AnswerNull
  <2>4. WritingOK'
    BY <2>3, DoWriteType, WritingUnchanged DEF WritingOK, StateOK
  <2>5. StateOK'
    BY <1>4, DisconnectsGrow DEF ReceivedNullPacket, AnswerNull, StateOK
  <2> QED
    BY <2>2, <2>4, <2>5
<1>5. ASSUME CorruptPacket PROVE TypeOK'
  <2>1. AtPacket({"corrupt"}) /\ lastEventId' = Head(response).id
    BY <1>5 DEF CorruptPacket, Expected
  <2>2. CometOK'
    BY <1>5, <2>1, HeadPacketType, HandlerStopsType DEF CorruptPacket, PacketKinds
  <2> QED
    BY <1>5, <2>2, ProtocolErrorType DEF CorruptPacket
<1>6. ASSUME PacketAhead PROVE TypeOK'
  <2>1. CometOK'
    BY <1>6, HandlerStopsType DEF PacketAhead, CometOK
  <2> QED
    BY <1>6, <2>1, ProtocolErrorType DEF PacketAhead
<1>7. ASSUME MissingPacket PROVE TypeOK'
  <2>1. CometOK'
    BY <1>7, HandlerStopsType DEF MissingPacket, CometOK
  <2> QED
    BY <1>7, <2>1, CloseSessionType DEF MissingPacket
<1>8. ASSUME PacketsDone PROVE TypeOK'
  <2>1. CometOK'
    BY <1>8, AckIdType DEF PacketsDone, DoConnectComet, StateOK, CometOK
  <2> QED
    BY <1>8, <2>1, WritingUnchanged DEF PacketsDone, StateOK
<1>9. ASSUME UnreadablePacket PROVE TypeOK'
  <2>1. AtPacket({"unreadable"}) /\ lastEventId' = Head(response).id
    BY <1>9 DEF UnreadablePacket, Expected
  <2>2. CometOK'
    BY <1>9, <2>1, HeadPacketType, HandlerStopsType DEF PacketKinds, UnreadablePacket
  <2> QED
    BY <1>9, <2>2, WritingUnchanged DEF UnreadablePacket, StateOK
<1> QED
  BY <1>1, <1>2, <1>3, <1>4, <1>5, <1>6, <1>7, <1>8, <1>9
(***************************************************************************)
(* The writes: an answer to a send finds the packets that were sent, and   *)
(* what __doWrite and close move between the buffer and the flight stays   *)
(* the same stream.                                                        *)
(***************************************************************************)
Flow(flight) == IF flight = <<>> THEN <<>> ELSE flight[1].data

AnswerDue == sendXhr.kind = "send" => packetsInFlight # <<>>

StreamKept == FlightData' \o writeBuffer' = FlightData \o writeBuffer

ClientInv == TypeOK /\ AnswerDue /\ WritesConserved

LEMMA FlowType ==
  ASSUME NEW flight \in Seq(Packet)
  PROVE  Flow(flight) \in Seq(1..MaxWrites)
<1>1. CASE flight = <<>>
  BY <1>1, EmptySeq DEF Flow
<1>2. CASE flight # <<>>
  <2>1. flight[1] \in Packet
    BY <1>2, EmptySeq, ElementOfSeq
  <2> QED
    BY <1>2, <2>1 DEF Flow, Packet
<1> QED
  BY <1>1, <1>2

LEMMA FlightDataFlow ==
  FlightData = Flow(packetsInFlight) /\ FlightData' = Flow(packetsInFlight')
  BY DEF FlightData, Flow

LEMMA SendNowKeeps ==
  ASSUME WritingOK, NEW flight \in Seq(Packet), NEW buffer \in Seq(1..MaxWrites),
         NEW sendNull \in BOOLEAN, SendNow(flight, buffer, sendNull)
  PROVE  FlightData' \o writeBuffer' = Flow(flight) \o buffer
<1> DEFINE next == Sent(flight, buffer, sendNull)
           data == DataFlight(flight, buffer)
<1>1. /\ next = <<>> => data = <<>>
      /\ data # <<>> => next # <<>> /\ next[1] = data[1]
      /\ (data = <<>> /\ next # <<>>) => next[1].data = <<>>
  BY SentType
<1>2. /\ packetsInFlight' = next
      /\ writeBuffer' = IF data = flight THEN buffer ELSE <<>>
  BY DEF SendNow, Sent
<1>3. data = flight \/ (/\ flight = <<>> /\ data # flight
                        /\ data # <<>> /\ data[1].data = buffer)
  <2>1. data = flight \/ (/\ flight = <<>> /\ buffer # <<>>
                          /\ Len(data) = 1 /\ data[1].data = buffer)
    BY DataFlightType
  <2>2. Len(<<>>) = 0
    BY EmptySeq
  <2> QED
    BY <2>1, <2>2
<1> HIDE DEF next, data
<1>4. Flow(next) = Flow(data)
  BY <1>1 DEF Flow
<1>5. CASE data = flight
  BY <1>2, <1>4, <1>5, FlightDataFlow
<1>6. CASE data # flight
  <2>1. Flow(flight) = <<>> /\ FlightData' = buffer /\ writeBuffer' = <<>>
    BY <1>2, <1>3, <1>4, <1>6, FlightDataFlow DEF Flow
  <2> QED
    BY <2>1, ConcatEmptySeq
<1> QED
  BY <1>5, <1>6

LEMMA SendNowDue ==
  ASSUME WritingOK, NEW flight \in Seq(Packet), NEW buffer \in Seq(1..MaxWrites),
         NEW sendNull \in BOOLEAN, SendNow(flight, buffer, sendNull),
         \/ flight = packetsInFlight /\ AnswerDue
         \/ buffer # <<>> \/ sendNull
  PROVE  AnswerDue'
<1> DEFINE next == Sent(flight, buffer, sendNull)
<1>1. packetsInFlight' = next /\ (next = <<>> => sendXhr' = sendXhr)
  BY DEF SendNow, Sent
<1>2. next = <<>> => flight = <<>> /\ buffer = <<>> /\ ~sendNull
  BY SentNothing
<1> HIDE DEF next
<1> QED
  BY <1>1, <1>2 DEF AnswerDue

LEMMA DoWriteKeeps ==
  ASSUME WritingOK, AnswerDue, NEW buffer \in Seq(1..MaxWrites),
         NEW sendNull \in BOOLEAN, DoWrite(buffer, sendNull)
  PROVE  /\ FlightData' \o writeBuffer' = FlightData \o buffer
         /\ AnswerDue'
<1>1. CASE packetsInFlight # <<>>
  BY <1>1 DEF DoWrite, FlightData, AnswerDue
<1>2. CASE packetsInFlight = <<>>
  BY <1>2, SendNowKeeps, SendNowDue, FlightDataFlow DEF DoWrite, WritingOK
<1> QED
  BY <1>1, <1>2

LEMMA WritingKeeps == UNCHANGED writing => StreamKept /\ (AnswerDue => AnswerDue')
  BY DEF writing, StreamKept, FlightData, AnswerDue

LEMMA CloseSessionKeeps ==
  ASSUME TypeOK, AnswerDue, NEW ts, CloseSession(ts)
  PROVE  StreamKept /\ AnswerDue'
<1>1. UNCHANGED writing \/ DoWrite(writeBuffer, TRUE)
  BY DEF CloseSession
<1> QED
  BY <1>1, WritingKeeps, DoWriteKeeps, TypeParts DEF WritingOK, StreamKept

Associates(r, s, t) == (r \o s) \o t = r \o (s \o t)

LEMMA Regroup ==
  ASSUME NEW r \in Seq(1..MaxWrites), NEW s \in Seq(1..MaxWrites),
         NEW t \in Seq(1..MaxWrites)
  PROVE  Associates(r, s, t)
<1>1. (r \o s) \o t = r \o (s \o t)
  BY ConcatAssociative, SMTT(30)
<1> QED
  BY <1>1, Zenon DEF Associates

(* A step that keeps the stream and writes nothing keeps the conservation. *)
LEMMA KeptIsConserved ==
  ASSUME TypeOK, TypeOK', WritesConserved, StreamKept,
         acked' = acked, written' = written
  PROVE  WritesConserved'
<1>1. FlightData \in Seq(1..MaxWrites) /\ FlightData' \in Seq(1..MaxWrites)
  BY FlowType, FlightDataFlow, TypeParts DEF WritingOK
<1>2. writeBuffer \in Seq(1..MaxWrites) /\ writeBuffer' \in Seq(1..MaxWrites)
      /\ acked \in Seq(1..MaxWrites)
  BY TypeParts DEF WritingOK, CometOK
<1>3. Associates(acked, FlightData, writeBuffer)
      /\ Associates(acked, FlightData', writeBuffer')
  BY <1>1, <1>2, Regroup
<1> QED
  BY <1>3 DEF Associates, WritesConserved, StreamKept
LEMMA CountingAppend ==
  ASSUME NEW n \in Nat
  PROVE  Append([i \in 1..n |-> i], n + 1) = [i \in 1..(n + 1) |-> i]
<1> DEFINE s == [i \in 1..n |-> i]
           t == [i \in 1..(n + 1) |-> i]
<1>1. s \in Seq(Nat) /\ Len(s) = n /\ \A i \in 1..n : s[i] = i
  OBVIOUS
<1>2. t \in Seq(Nat) /\ Len(t) = n + 1 /\ \A i \in 1..(n + 1) : t[i] = i
  OBVIOUS
<1> HIDE DEF s, t
<1>3. /\ Append(s, n + 1) \in Seq(Nat)
      /\ Len(Append(s, n + 1)) = n + 1
      /\ \A i \in 1..n : Append(s, n + 1)[i] = i
      /\ Append(s, n + 1)[n + 1] = n + 1
  BY <1>1, AppendProperties
<1>4. \A i \in 1..(n + 1) : Append(s, n + 1)[i] = t[i]
  BY <1>2, <1>3
<1>5. Append(s, n + 1) = t
  BY <1>2, <1>3, <1>4, SeqEqual
<1> QED
  BY <1>5 DEF s, t

LEMMA ConservedByWrite ==
  ASSUME ClientInv, TypeOK', Write PROVE WritesConserved' /\ AnswerDue'
<1> USE TypeParts DEF ClientInv
<1> DEFINE w == written + 1
           N == 1..MaxWrites
<1>1. w \in N /\ written \in Nat
  BY BoundsAssumption DEF Write, CometOK
<1>2. writeBuffer \in Seq(N) /\ acked \in Seq(N) /\ FlightData \in Seq(N)
      /\ writeBuffer' \in Seq(N) /\ FlightData' \in Seq(N) /\ acked' = acked
  BY FlowType, FlightDataFlow DEF WritingOK, CometOK, Write
<1>3. DoWrite(Append(writeBuffer, w), FALSE) /\ written' = w
  BY DEF Write
<1> HIDE DEF w, N
<1>4. Append(writeBuffer, w) \in Seq(N) /\ Append(writeBuffer, w) = writeBuffer \o <<w>>
      /\ <<w>> \in Seq(N)
  BY <1>1, <1>2, AppendProperties, AppendIsConcat
<1>5. FlightData' \o writeBuffer' = FlightData \o Append(writeBuffer, w) /\ AnswerDue'
  BY <1>3, <1>4, DoWriteKeeps DEF N
<1>6. acked' \o FlightData' \o writeBuffer' = acked \o (FlightData \o (writeBuffer \o <<w>>))
  <2>1. Associates(acked, FlightData', writeBuffer')
    BY ONLY <1>2, Regroup DEF N
  <2> QED
    BY ONLY <1>2, <1>4, <1>5, <2>1 DEF Associates
<1>7. acked \o (FlightData \o (writeBuffer \o <<w>>))
        = (acked \o FlightData \o writeBuffer) \o <<w>>
  <2> DEFINE F == FlightData
             v == <<w>>
             G == F \o writeBuffer
  <2>1. acked \in Seq(N) /\ F \in Seq(N) /\ writeBuffer \in Seq(N) /\ v \in Seq(N)
    BY ONLY <1>2, <1>4
  <2>2. G \in Seq(N)
    BY ONLY <2>1, ConcatProperties
  <2> HIDE DEF F, G, v
  <2>3. Associates(F, writeBuffer, v) /\ Associates(acked, F, writeBuffer)
        /\ Associates(acked, G, v)
    BY ONLY <2>1, <2>2, Regroup DEF N
  <2>4. acked \o (F \o (writeBuffer \o v)) = (acked \o F \o writeBuffer) \o v
    BY ONLY <2>3, Zenon DEF Associates, G
  <2> QED
    BY ONLY <2>4 DEF F, v
<1>8. acked \o FlightData \o writeBuffer \in Seq(N)
  <2>1. acked \o FlightData \in Seq(N)
    BY <1>2, ConcatProperties
  <2> QED
    BY <1>2, <2>1, ConcatProperties
<1>9. (acked \o FlightData \o writeBuffer) \o <<w>>
        = Append([i \in 1..written |-> i], w)
  BY <1>1, <1>8, AppendIsConcat DEF WritesConserved
<1>10. WritesConserved'
  BY <1>1, <1>3, <1>6, <1>7, <1>9, CountingAppend DEF WritesConserved, w
<1> QED
  BY <1>5, <1>10

LEMMA ConservedBySuccess ==
  ASSUME ClientInv, TypeOK', WriteSuccess PROVE WritesConserved' /\ AnswerDue'
<1> USE TypeParts DEF ClientInv
<1> DEFINE waiting == "inBuffer" \in nulls
<1>1. packetsInFlight # <<>> /\ sendXhr.kind = "send"
  BY DEF WriteSuccess, SendAnswered, AnswerDue
<1>2. CASE ~WriteSucceeds
  <2>1. sendXhr' = Idle
        /\ UNCHANGED <<acked, written, writeBuffer, packetsInFlight>>
    BY <1>2 DEF WriteSuccess
  <2>2. WritesConserved'
    BY <2>1 DEF WritesConserved, FlightData
  <2> QED
    BY <2>1, <2>2 DEF AnswerDue, Idle
<1>3. CASE WriteSucceeds
  <2>1. acked' = acked \o FlightData /\ written' = written
    BY <1>1, <1>3 DEF WriteSuccess, WriteSucceeds, FlightData
  <2>2. FlightData' \o writeBuffer' = writeBuffer /\ AnswerDue'
    <3>1. <<>> \in Seq(Packet) /\ writeBuffer \in Seq(1..MaxWrites)
          /\ waiting \in BOOLEAN
      BY EmptySeq DEF WritingOK
    <3>2. CASE writeBuffer # <<>> \/ waiting
      <4>1. SendNow(<<>>, writeBuffer, waiting)
        BY <1>3, <3>2 DEF WriteSucceeds
      <4> HIDE DEF waiting
      <4>2. AnswerDue'
        BY <3>1, <3>2, <4>1, SendNowDue
      <4>3. FlightData' \o writeBuffer' = <<>> \o writeBuffer
        BY <3>1, <4>1, SendNowKeeps DEF Flow
      <4> QED
        BY <3>1, <4>2, <4>3, ConcatEmptySeq
    <3>3. CASE ~(writeBuffer # <<>> \/ waiting)
      <4>1. packetsInFlight' = <<>> /\ sendXhr' = Idle /\ writeBuffer' = writeBuffer
        BY <1>3, <3>3 DEF WriteSucceeds
      <4> QED
        BY <3>1, <4>1, ConcatEmptySeq DEF FlightData, AnswerDue, Idle
    <3> QED
      BY <3>2, <3>3
  <2>3. acked' \o FlightData' \o writeBuffer' = acked' \o (FlightData' \o writeBuffer')
    <3>1. acked' \in Seq(1..MaxWrites) /\ FlightData' \in Seq(1..MaxWrites)
          /\ writeBuffer' \in Seq(1..MaxWrites)
      BY FlowType, FlightDataFlow DEF WritingOK, CometOK
    <3>2. Associates(acked', FlightData', writeBuffer')
      BY ONLY <3>1, Regroup
    <3> QED
      BY ONLY <3>2 DEF Associates
  <2>4. WritesConserved'
    BY <2>1, <2>2, <2>3 DEF WritesConserved
  <2> QED
    BY <2>2, <2>4
<1> QED
  BY <1>2, <1>3

(* Every step but a write and its success. *)
LEMMA StreamKeptByOthers ==
  ASSUME ClientInv, TypeOK', Next, ~Write, ~WriteSuccess
  PROVE  StreamKept /\ AnswerDue' /\ acked' = acked /\ written' = written
<1> USE TypeParts DEF ClientInv
<1>1. CASE Connect
  BY <1>1 DEF Connect, StreamKept, FlightData, AnswerDue
<1>2. CASE Close
  BY <1>2, CloseSessionKeeps DEF Close
<1>3. CASE WriteTimer
  <2> DEFINE waiting == "inBuffer" \in nulls
  <2>1. SendNow(packetsInFlight, writeBuffer, waiting) /\ waiting \in BOOLEAN
    BY <1>3 DEF WriteTimer
  <2> HIDE DEF waiting
  <2>2. packetsInFlight \in Seq(Packet) /\ writeBuffer \in Seq(1..MaxWrites)
    BY DEF WritingOK
  <2>3. AnswerDue'
    BY <2>1, <2>2, SendNowDue
  <2>4. FlightData' \o writeBuffer' = FlightData \o writeBuffer
    BY <2>1, <2>2, SendNowKeeps, FlightDataFlow
  <2> QED
    BY <1>3, <2>3, <2>4 DEF WriteTimer, StreamKept
<1>4. CASE HandshakeTimeout \/ OnConnectReturns \/ CometTimer \/ CometEmpty
            \/ (\E batch \in Responses : CometSuccess(batch))
            \/ SkipPacket \/ DeliverPacket \/ OnReadReturns \/ UnreadablePacket
            \/ PacketsDone
  <2>1. UNCHANGED writing /\ acked' = acked /\ written' = written
    BY <1>4 DEF HandshakeTimeout, OnConnectReturns, CometTimer, CometEmpty,
         CometSuccess, SkipPacket, DeliverPacket, OnReadReturns,
         UnreadablePacket, PacketsDone
  <2> QED
    BY <2>1, WritingKeeps
<1>5. CASE HandshakeRetry
  BY <1>5 DEF HandshakeRetry, StreamKept, FlightData, AnswerDue
<1>6. CASE HandshakeSuccess \/ \E notFound \in BOOLEAN : HandshakeFailure(notFound)
  <2>1. sendXhr' = Idle /\ UNCHANGED <<writeBuffer, packetsInFlight, acked, written>>
    BY <1>6 DEF HandshakeSuccess, HandshakeFailure, HandshakeAnswered
  <2> QED
    BY <2>1 DEF Idle, StreamKept, FlightData, AnswerDue
<1>7. CASE WriteFailure
  BY <1>7 DEF WriteFailure, Idle, StreamKept, FlightData, AnswerDue
<1>8. CASE TimeoutExpires
  BY <1>8, CloseSessionKeeps DEF TimeoutExpires
<1>9. CASE \E sessionNotFound \in BOOLEAN : CometFailure(sessionNotFound)
  <2>1. UNCHANGED writing \/ CloseSession(timers)
    BY <1>9 DEF CometFailure
  <2> QED
    BY <1>9, <2>1, CloseSessionKeeps, WritingKeeps DEF CometFailure
<1>10. CASE ReceivedNullPacket
  <2>1. UNCHANGED writing \/ DoWrite(writeBuffer, TRUE)
    BY <1>10 DEF ReceivedNullPacket, AnswerNull
  <2>2. StreamKept /\ AnswerDue'
    BY <2>1, WritingKeeps, DoWriteKeeps DEF WritingOK, StreamKept
  <2> QED
    BY <1>10, <2>2 DEF ReceivedNullPacket
<1>11. CASE CorruptPacket \/ PacketAhead
  <2>1. DoWrite(writeBuffer, TRUE)
    BY <1>11 DEF CorruptPacket, PacketAhead, ProtocolError
  <2>2. StreamKept /\ AnswerDue'
    BY <2>1, DoWriteKeeps DEF WritingOK, StreamKept
  <2> QED
    BY <1>11, <2>2 DEF CorruptPacket, PacketAhead
<1>12. CASE MissingPacket
  BY <1>12, CloseSessionKeeps DEF MissingPacket
<1> QED
  BY <1>1, <1>2, <1>3, <1>4, <1>5, <1>6, <1>7, <1>8, <1>9, <1>10, <1>11, <1>12
     DEF Next, Application, Network, Timers, Continue
LEMMA TypeNext == TypeOK /\ AnswerDue /\ Next => TypeOK'
  BY TypeConnect, TypeWrite, TypeClose, TypeHandshake, TypeSend, TypeComet, TypePackets
     DEF AnswerDue, Next, Application, Network, Timers, Continue

LEMMA ClientInit == Init => ClientInv
<1> SUFFICES ASSUME Init PROVE ClientInv
  OBVIOUS
<1>1. FlightData = <<>> /\ acked = <<>> /\ writeBuffer = <<>> /\ written = 0
  BY DEF Init, FlightData
<1>2. <<>> \o <<>> \o <<>> = [i \in 1..0 |-> i]
  <2>1. <<>> \in Seq(Nat) /\ Len(<<>>) = 0
    BY EmptySeq
  <2>2. [i \in 1..0 |-> i] \in Seq(Nat) /\ Len([i \in 1..0 |-> i]) = 0
    OBVIOUS
  <2>3. [i \in 1..0 |-> i] = <<>>
    BY <2>1, <2>2, SeqEqual
  <2>4. <<>> \o <<>> = <<>>
    BY <2>1, ConcatEmptySeq
  <2> QED
    BY <2>3, <2>4
<1>3. WritesConserved
  BY <1>1, <1>2 DEF WritesConserved
<1>4. AnswerDue
  BY DEF Init, AnswerDue, Idle
<1> QED
  BY <1>3, <1>4, TypeInit DEF ClientInv

LEMMA ClientNext == ClientInv /\ [Next]_vars => ClientInv'
<1> SUFFICES ASSUME ClientInv, [Next]_vars PROVE ClientInv'
  OBVIOUS
<1>1. CASE UNCHANGED vars
  <2>1. WritingOK' /\ StateOK' /\ CometOK'
    BY <1>1, TypeParts DEF ClientInv, WritingOK, StateOK, CometOK, vars, writing
  <2>2. AnswerDue' /\ WritesConserved'
    BY <1>1 DEF ClientInv, AnswerDue, WritesConserved, FlightData, vars, writing
  <2> QED
    BY <2>1, <2>2, TypeParts DEF ClientInv
<1>2. CASE Next
  <2>1. TypeOK'
    BY <1>2, TypeNext DEF ClientInv
  <2>2. CASE Write
    BY <2>1, <2>2, ConservedByWrite DEF ClientInv
  <2>3. CASE WriteSuccess
    BY <2>1, <2>3, ConservedBySuccess DEF ClientInv
  <2>4. CASE ~Write /\ ~WriteSuccess
    BY <1>2, <2>1, <2>4, StreamKeptByOthers, KeptIsConserved DEF ClientInv
  <2> QED
    BY <2>2, <2>3, <2>4
<1> QED
  BY <1>1, <1>2

(* Types, AnswerDue and WritesConserved are inductive together. *)
THEOREM ClientInvariant == Spec => []ClientInv
  BY ClientInit, ClientNext, PTL DEF Spec

(* Every reachable state of the client has its types, whatever the network *)
(* answers and the application calls from its callbacks.                   *)
THEOREM ClientTypeCorrect == Spec => []TypeOK
<1>1. ClientInv => TypeOK
  BY DEF ClientInv
<1> QED
  BY <1>1, ClientInvariant, PTL

(* What is acknowledged, in flight and buffered is at all times everything *)
(* the application wrote, in its order (write, __doWrite, _writeSuccess,   *)
(* _writeFailure, close).                                                  *)
THEOREM WritesAreConserved == Spec => []WritesConserved
<1>1. ClientInv => WritesConserved
  BY DEF ClientInv
<1> QED
  BY <1>1, ClientInvariant, PTL

---------------------------------------------------------------------------
(* The two request loops of CspClient, what it delivers and how it ends,   *)
(* for any number of writes, any ids and any size of answer.               *)

(* One comet at a time: a request, a timer to make one, or a handler that  *)
(* will make one; and none before the session is connected or once it is   *)
(* answering the server's null.                                            *)
CometLoop ==
  /\ cometXhr # Idle => "comet" \notin timers /\ running = "none"
  /\ running # "none" => "comet" \notin timers
  /\ readyState \in {"INITIAL", "CONNECTING", "DISCONNECTING"} =>
       cometXhr = Idle /\ "comet" \notin timers /\ running = "none"
  /\ (readyState = "CONNECTED" /\ running = "none") =>
       cometXhr # Idle \/ timers \cap {"comet", "timeout"} # {}
  /\ readyState = "CONNECTED" /\ running \in {"packets", "onread"} =>
       "timeout" \in timers

(* One request of the 'send' XHR at a time: the handshake, then one attempt *)
(* to send what is in flight or a timer to make the next.                   *)
SendLoop ==
  /\ "write" \in timers => packetsInFlight # <<>> /\ sendXhr = Idle
  /\ "handshakeRetry" \in timers => readyState = "CONNECTING" /\ sendXhr = Idle
  /\ readyState \in {"INITIAL", "CONNECTING"} => packetsInFlight = <<>>
  /\ readyState = "INITIAL" => sendXhr = Idle
  /\ readyState = "CONNECTED" =>
       /\ sendXhr.kind # "handshake"
       /\ packetsInFlight = <<>> => sendXhr = Idle
       /\ packetsInFlight # <<>> => sendXhr # Idle \/ "write" \in timers

(* A null is made when the session ends, and a session that may still be   *)
(* reading packets then has one.                                           *)
NullsKept ==
  /\ readyState \in {"INITIAL", "CONNECTING", "CONNECTED"} => nulls = {}
  /\ readyState = "DISCONNECTING" => nulls # {}
  /\ running \in {"packets", "onread"} =>
       /\ readyState \in {"CONNECTED", "DISCONNECTED"}
       /\ readyState = "DISCONNECTED" => nulls # {}

(* _lastEventId is the id of the packet delivered last, as long as another *)
(* one may be delivered: before the session is connected, in the handler   *)
(* of an answer, and while it has a comet out or to come.                  *)
Synced ==
  lastEventId = IF delivered = <<>> THEN NoEvent ELSE delivered[Len(delivered)]

Asking == cometXhr # Idle \/ "comet" \in timers \/ running # "none"

MayRead ==
  \/ running \in {"packets", "onread"}
  \/ readyState \in {"INITIAL", "CONNECTING"}
  \/ readyState = "CONNECTED" /\ Asking

Reading == DeliveredConsecutive /\ (MayRead => Synced)

LoopInv == CometLoop /\ SendLoop /\ NullsKept /\ Reading
-----------------------------------------------------------------------------
LEMMA DoWriteNulls ==
  ASSUME NEW buffer, NEW sendNull, DoWrite(buffer, sendNull)
  PROVE  nulls \subseteq nulls' /\ (sendNull => nulls' # {})
<1>1. CASE packetsInFlight # <<>>
  BY <1>1 DEF DoWrite
<1>2. CASE packetsInFlight = <<>>
  BY <1>2 DEF DoWrite, SendNow, NullJoins
<1> QED
  BY <1>1, <1>2

(* What close() leaves of the state and of the timers. *)
LEMMA CloseSessionEnds ==
  ASSUME TypeOK, NEW ts \in SUBSET timers, CloseSession(ts)
  PROVE  /\ readyState' = "DISCONNECTED"
         /\ timers' \subseteq ts
         /\ readyState = "CONNECTING" => "handshakeRetry" \notin timers'
         /\ nulls \subseteq nulls'
         /\ readyState = "CONNECTED" => nulls' # {}
         /\ readyState # "CONNECTED" => UNCHANGED writing
<1>1. CASE readyState = "DISCONNECTED"
  BY <1>1 DEF CloseSession, writing
<1>2. CASE readyState # "DISCONNECTED"
  <2>1. readyState' = "DISCONNECTED" /\ timers' \subseteq ts
    BY <1>2 DEF CloseSession
  <2>2. readyState = "CONNECTING" => "handshakeRetry" \notin timers'
    BY <1>2 DEF CloseSession
  <2>3. IF readyState = "CONNECTED" THEN DoWrite(writeBuffer, TRUE)
                                    ELSE UNCHANGED writing
    BY <1>2 DEF CloseSession
  <2> QED
    BY <2>1, <2>2, <2>3, DoWriteNulls DEF writing
<1> QED
  BY <1>1, <1>2

LEMMA HandshakeFailureTimers ==
  ASSUME NEW notFound \in BOOLEAN, HandshakeFailure(notFound)
  PROVE  /\ timers' \subseteq timers
             \/ (readyState = "CONNECTING" /\ timers' = timers \cup {"handshakeRetry"})
         /\ timers \cap {"comet", "timeout", "write"}
               = timers' \cap {"comet", "timeout", "write"}
<1>1. \/ timers' = timers
      \/ timers' = timers \ {"handshakeTimeout"}
      \/ readyState = "CONNECTING" /\ timers' = timers \cup {"handshakeRetry"}
  BY DEF HandshakeFailure, RetryHandshake
<1> QED
  BY <1>1

LEMMA CometFailureCases ==
  ASSUME NEW sessionNotFound \in BOOLEAN, CometFailure(sessionNotFound)
  PROVE  \/ readyState = "CONNECTED" /\ CloseSession(timers)
         \/ /\ readyState # "CONNECTED" /\ timers' = timers
            /\ UNCHANGED <<readyState, hasKey, writing>>
         \/ /\ readyState = "CONNECTED" /\ timers' = timers \cup {"comet"}
            /\ UNCHANGED <<readyState, hasKey, writing>>
  BY DEF CometFailure

LEMMA CometLoopNext ==
  ASSUME TypeOK, CometLoop, NullsKept, Next PROVE CometLoop'
<1> USE DEF CometLoop
<1>0. DoConnectComet => cometXhr' # Idle
  BY DEF DoConnectComet, Idle
<1>1. CASE Connect
  BY <1>1 DEF Connect, Free
<1>2. CASE Write
  BY <1>2 DEF Write
<1>3. CASE Close
  BY <1>3, CloseSessionEnds DEF Close
<1>4. CASE HandshakeTimeout
  BY <1>4 DEF HandshakeTimeout
<1>5. CASE HandshakeRetry
  BY <1>5 DEF HandshakeRetry
<1>6. CASE HandshakeSuccess
  BY <1>6 DEF HandshakeSuccess, HandshakeAnswered, Free
<1>7. CASE OnConnectReturns
  BY <1>0, <1>7 DEF OnConnectReturns
<1>8. ASSUME NEW notFound \in BOOLEAN, HandshakeFailure(notFound) PROVE CometLoop'
  <2>1. UNCHANGED <<readyState, cometXhr, running>>
    BY <1>8 DEF HandshakeFailure
  <2> QED
    BY <1>8, <2>1, HandshakeFailureTimers
<1>9. CASE WriteSuccess
  <2>1. UNCHANGED <<readyState, cometXhr, running>>
        /\ (timers' = timers \/ timers' = timers \cup {"timeout"})
    BY <1>9 DEF WriteSuccess, WriteSucceeds, WithTimeoutReset
  <2> QED
    BY <2>1
<1>10. CASE WriteFailure
  BY <1>10 DEF WriteFailure
<1>11. CASE WriteTimer
  BY <1>11 DEF WriteTimer
<1>12. ASSUME NEW sessionNotFound \in BOOLEAN, CometFailure(sessionNotFound)
       PROVE CometLoop'
  <2>1. cometXhr' = Idle /\ running' = running /\ running = "none" /\ cometXhr # Idle
    BY <1>12 DEF CometFailure, CometAnswered, Free, Idle
  <2> QED
    BY <1>12, <2>1, CometFailureCases, CloseSessionEnds
<1>13. CASE CometTimer
  BY <1>0, <1>13 DEF CometTimer, Free
<1>14. ASSUME NEW batch \in Responses, CometSuccess(batch) PROVE CometLoop'
  <2>1. cometXhr' = Idle /\ readyState' = readyState /\ running = "none" /\ cometXhr # Idle
    BY <1>14 DEF CometSuccess, CometAnswered, Free, Idle
  <2>2. CASE Listening
    BY <1>14, <2>1, <2>2 DEF CometSuccess, Listening, WithTimeoutReset
  <2>3. CASE ~Listening
    BY <1>14, <2>1, <2>3 DEF CometSuccess, Listening
  <2> QED
    BY <2>2, <2>3
<1>15. CASE CometEmpty
  <2>1. cometXhr' = Idle /\ readyState' = readyState /\ running' = running
        /\ running = "none" /\ cometXhr # Idle
    BY <1>15 DEF CometEmpty, CometAnswered, Free, Idle
  <2> QED
    BY <1>15, <2>1 DEF CometEmpty, Listening, WithTimeoutReset
<1>16. CASE SkipPacket
  BY <1>16 DEF SkipPacket
<1>17. CASE DeliverPacket
  BY <1>17 DEF DeliverPacket, Expected, AtPacket
<1>18. CASE OnReadReturns
  BY <1>18 DEF OnReadReturns
<1>19. CASE ReceivedNullPacket
  BY <1>19 DEF ReceivedNullPacket, AnswerNull, HandlerStops, Expected, AtPacket
<1>20. CASE CorruptPacket \/ UnreadablePacket \/ PacketAhead
  BY <1>20 DEF CorruptPacket, UnreadablePacket, PacketAhead, ProtocolError,
       HandlerStops, Expected, AtPacket
<1>21. CASE MissingPacket
  BY <1>21, CloseSessionEnds DEF MissingPacket, HandlerStops, AtPacket
<1>22. CASE PacketsDone
  BY <1>0, <1>22 DEF PacketsDone
<1>23. CASE TimeoutExpires
  BY <1>23, CloseSessionEnds DEF TimeoutExpires
<1> QED
  BY <1>1, <1>2, <1>3, <1>4, <1>5, <1>6, <1>7, <1>8, <1>9, <1>10, <1>11, <1>12,
     <1>13, <1>14, <1>15, <1>16, <1>17, <1>18, <1>19, <1>20, <1>21, <1>22, <1>23
     DEF Next, Application, Network, Timers, Continue
LEMMA NullsKeptNext ==
  ASSUME TypeOK, AnswerDue, CometLoop, SendLoop, NullsKept, Next PROVE NullsKept'
<1> USE DEF NullsKept
<1>1. CASE Connect
  BY <1>1 DEF Connect, Free
<1>2. CASE Write
  BY <1>2 DEF Write, DoWrite, SendNow, NullJoins
<1>3. CASE Close
  BY <1>3, CloseSessionEnds DEF Close, CometLoop, TypeOK
<1>4. CASE HandshakeTimeout \/ OnConnectReturns \/ CometTimer \/ CometEmpty
            \/ SkipPacket \/ DeliverPacket \/ OnReadReturns \/ UnreadablePacket
            \/ PacketsDone
  <2>1. UNCHANGED <<readyState, nulls>> /\ (running' # running =>
          \/ running' = "none"
          \/ running = "packets" /\ running' = "onread"
          \/ running = "onread" /\ running' = "packets")
    BY <1>4 DEF HandshakeTimeout, OnConnectReturns, CometTimer, CometEmpty,
         SkipPacket, DeliverPacket, Expected, AtPacket, OnReadReturns,
         UnreadablePacket, HandlerStops, PacketsDone, writing
  <2> QED
    BY <2>1
<1>5. CASE HandshakeRetry
  BY <1>5 DEF HandshakeRetry
<1>6. CASE HandshakeSuccess
  BY <1>6 DEF HandshakeSuccess, HandshakeAnswered, Free
<1>7. ASSUME NEW notFound \in BOOLEAN, HandshakeFailure(notFound) PROVE NullsKept'
  BY <1>7 DEF HandshakeFailure
<1>8. CASE WriteSuccess
  <2>1. \/ WriteSucceeds /\ SendNow(<<>>, writeBuffer, "inBuffer" \in nulls)
        \/ nulls' = nulls
        \/ nulls' = nulls \cup {"sent"}
    BY <1>8 DEF WriteSuccess, WriteSucceeds
  <2>2. nulls \subseteq nulls'
    BY <2>1 DEF SendNow
  <2>3. readyState \notin {"INITIAL", "CONNECTING"}
    BY <1>8 DEF WriteSuccess, SendAnswered, AnswerDue, SendLoop
  <2>4. readyState = "CONNECTED" => nulls' = {}
    BY <1>8 DEF WriteSuccess, WriteSucceeds, SendNow, NullJoins
  <2> QED
    BY <1>8, <2>2, <2>3, <2>4 DEF WriteSuccess
<1>9. CASE WriteFailure
  BY <1>9 DEF WriteFailure
<1>10. CASE WriteTimer
  BY <1>10 DEF WriteTimer, SendNow, NullJoins
<1>11. ASSUME NEW sessionNotFound \in BOOLEAN, CometFailure(sessionNotFound)
       PROVE NullsKept'
  <2>1. running' = running
    BY <1>11 DEF CometFailure
  <2>2. CASE CloseSession(timers)
    BY <2>1, <2>2, CloseSessionEnds
  <2>3. CASE UNCHANGED <<readyState, writing>>
    BY <2>1, <2>3 DEF writing
  <2> QED
    BY <1>11, <2>2, <2>3, CometFailureCases
<1>12. ASSUME NEW batch \in Responses, CometSuccess(batch) PROVE NullsKept'
  <2>1. cometXhr # Idle /\ UNCHANGED <<readyState, nulls>>
        /\ (running' = running \/ (running' = "packets" /\ Listening))
    BY <1>12 DEF CometSuccess, CometAnswered, Idle, writing
  <2>2. Listening => readyState = "CONNECTED"
    BY <2>1 DEF CometLoop, Listening
  <2> QED
    BY <2>1, <2>2
<1>13. CASE ReceivedNullPacket
  <2>1. CASE nulls = {}
    BY <1>13, <2>1, DoWriteNulls DEF ReceivedNullPacket, AnswerNull, HandlerStops
  <2>2. CASE nulls # {}
    BY <1>13, <2>2 DEF ReceivedNullPacket, AnswerNull, HandlerStops
  <2> QED
    BY <2>1, <2>2
<1>14. CASE CorruptPacket \/ PacketAhead
  BY <1>14 DEF CorruptPacket, PacketAhead, ProtocolError, HandlerStops
<1>15. CASE MissingPacket
  BY <1>15, CloseSessionEnds DEF MissingPacket, HandlerStops
<1>16. CASE TimeoutExpires
  BY <1>16, CloseSessionEnds DEF TimeoutExpires, Free
<1> QED
  BY <1>1, <1>2, <1>3, <1>4, <1>5, <1>6, <1>7, <1>8, <1>9, <1>10, <1>11, <1>12,
     <1>13, <1>14, <1>15, <1>16
     DEF Next, Application, Network, Timers, Continue

(* The state never goes back: only the answer to a null could, from        *)
(* DISCONNECTED, and a session that may get it then has a null of its own. *)
LEMMA Advances ==
  ASSUME TypeOK, CometLoop, NullsKept, Next
  PROVE  Rank[readyState'] >= Rank[readyState]
<1>0. /\ Rank["INITIAL"] = 0 /\ Rank["CONNECTING"] = 1 /\ Rank["CONNECTED"] = 2
      /\ Rank["DISCONNECTING"] = 3 /\ Rank["DISCONNECTED"] = 4
  BY DEF Rank
<1>1. readyState \in {"INITIAL", "CONNECTING", "CONNECTED", "DISCONNECTING",
                      "DISCONNECTED"}
  BY DEF TypeOK
<1>2. \/ readyState' = readyState
      \/ readyState = "INITIAL" /\ readyState' = "CONNECTING"
      \/ readyState = "CONNECTING" /\ readyState' = "CONNECTED"
      \/ readyState = "CONNECTED" /\ readyState' = "DISCONNECTING"
      \/ readyState' = "DISCONNECTED"
  <2>1. CASE Connect \/ HandshakeSuccess
    BY <2>1 DEF Connect, HandshakeSuccess
  <2>2. CASE Close \/ MissingPacket \/ TimeoutExpires
    BY <2>2, CloseSessionEnds DEF Close, MissingPacket, TimeoutExpires
  <2>3. CASE CorruptPacket \/ PacketAhead
    BY <2>3 DEF CorruptPacket, PacketAhead, ProtocolError
  <2>4. ASSUME NEW sessionNotFound \in BOOLEAN, CometFailure(sessionNotFound)
        PROVE  readyState' = readyState \/ readyState' = "DISCONNECTED"
    BY <2>4, CometFailureCases, CloseSessionEnds
  <2>5. CASE ReceivedNullPacket
    <3>1. running = "packets"
      BY <2>5 DEF ReceivedNullPacket, Expected, AtPacket
    <3> QED
      BY <2>5, <3>1 DEF ReceivedNullPacket, AnswerNull, NullsKept
  <2>6. CASE Write \/ HandshakeTimeout \/ HandshakeRetry \/ OnConnectReturns
              \/ (\E notFound \in BOOLEAN : HandshakeFailure(notFound))
              \/ WriteSuccess \/ WriteFailure \/ WriteTimer \/ CometTimer
              \/ (\E batch \in Responses : CometSuccess(batch)) \/ CometEmpty
              \/ SkipPacket \/ DeliverPacket \/ OnReadReturns \/ PacketsDone
    BY <2>6 DEF Write, HandshakeTimeout, HandshakeRetry, OnConnectReturns,
         HandshakeFailure, WriteSuccess, WriteFailure, WriteTimer, CometTimer,
         CometSuccess, CometEmpty, SkipPacket, DeliverPacket, OnReadReturns,
         PacketsDone
  <2>7. CASE UnreadablePacket
    BY <2>7 DEF UnreadablePacket
  <2> QED
    BY <2>1, <2>2, <2>3, <2>4, <2>5, <2>6, <2>7
       DEF Next, Application, Network, Timers, Continue
<1> QED
  BY <1>0, <1>1, <1>2

(* Once no packet may be read any more, none is: the session is over, or   *)
(* it has no comet and will not ask for one.                               *)
LEMMA MayReadStays ==
  ASSUME CometLoop, TypeOK, Next PROVE MayRead' => MayRead
<1>1. CASE DeliverPacket \/ ReceivedNullPacket \/ CorruptPacket \/ UnreadablePacket
  BY <1>1 DEF DeliverPacket, ReceivedNullPacket, CorruptPacket, UnreadablePacket,
       Expected, AtPacket, MayRead
<1>2. CASE /\ ~DeliverPacket /\ ~ReceivedNullPacket
           /\ ~CorruptPacket /\ ~UnreadablePacket
  <2>1. running' \in {"packets", "onread"} /\ running \notin {"packets", "onread"}
          => readyState = "CONNECTED" /\ Asking
    <3>1. ASSUME NEW batch \in Responses, CometSuccess(batch), running' # running
          PROVE  readyState = "CONNECTED" /\ Asking
      <4>1. cometXhr # Idle /\ Listening
        BY <3>1 DEF CometSuccess, CometAnswered, Idle
      <4> QED
        BY <4>1 DEF CometLoop, Listening, Asking
    <3>2. \/ running' = running
          \/ running' \in {"none", "onconnect"}
          \/ running \in {"packets", "onread"}
          \/ \E batch \in Responses : CometSuccess(batch)
      BY <1>2 DEF Next, Application, Network, Timers, Continue,
         Connect, Write, Close, HandshakeTimeout, HandshakeRetry,
         HandshakeSuccess, OnConnectReturns, HandshakeFailure, WriteSuccess,
         WriteFailure, WriteTimer, CometFailure, CometTimer,
         CometEmpty, SkipPacket, OnReadReturns, PacketAhead, MissingPacket,
         PacketsDone, TimeoutExpires, HandlerStops
    <3> QED
      BY <3>1, <3>2
  <2>2. /\ readyState' \in {"INITIAL", "CONNECTING"} => readyState \in {"INITIAL", "CONNECTING"}
        /\ readyState' = "CONNECTED" => readyState \in {"CONNECTING", "CONNECTED"}
    <3>1. \/ readyState' = readyState
          \/ readyState' = "DISCONNECTED"
          \/ Connect \/ HandshakeSuccess
      <4>1. CASE Close \/ MissingPacket \/ TimeoutExpires
        BY <4>1, CloseSessionEnds DEF Close, MissingPacket, TimeoutExpires
      <4>2. ASSUME NEW sessionNotFound \in BOOLEAN, CometFailure(sessionNotFound)
            PROVE  readyState' = readyState \/ readyState' = "DISCONNECTED"
        BY <4>2, CometFailureCases, CloseSessionEnds
      <4> QED
        BY <1>2, <4>1, <4>2 DEF Next, Application, Network, Timers, Continue,
         Write, HandshakeTimeout, HandshakeRetry, OnConnectReturns,
         HandshakeFailure, WriteSuccess, WriteFailure, WriteTimer, CometTimer,
         CometSuccess, CometEmpty, SkipPacket, OnReadReturns, PacketAhead,
         ProtocolError, PacketsDone
    <3> QED
      BY <3>1 DEF Connect, HandshakeSuccess
  <2>3. ASSUME readyState = "CONNECTED", readyState' = "CONNECTED", ~Asking
        PROVE  ~Asking'
    <3>1. cometXhr = Idle /\ "comet" \notin timers /\ running = "none"
      BY <2>3 DEF Asking
    <3>2. ~(Close \/ TimeoutExpires)
      BY <2>3, CloseSessionEnds DEF Close, TimeoutExpires
    <3>3. cometXhr.kind # "comet"
      BY <3>1 DEF Idle
    <3>4. ~(OnConnectReturns \/ CometTimer \/ CometEmpty \/ SkipPacket
            \/ OnReadReturns \/ PacketAhead \/ MissingPacket \/ PacketsDone)
      BY <3>1, <3>3 DEF OnConnectReturns, CometTimer, CometEmpty, CometAnswered,
           SkipPacket, AtPacket, OnReadReturns, PacketAhead, MissingPacket,
           PacketsDone
    <3>5. /\ \A batch \in Responses : ~CometSuccess(batch)
          /\ \A sessionNotFound \in BOOLEAN : ~CometFailure(sessionNotFound)
      BY <3>3 DEF CometSuccess, CometFailure, CometAnswered
    <3>6. \/ Connect \/ Write \/ HandshakeTimeout \/ HandshakeRetry
          \/ HandshakeSuccess \/ WriteSuccess \/ WriteFailure \/ WriteTimer
          \/ \E notFound \in BOOLEAN : HandshakeFailure(notFound)
      BY <1>2, <3>2, <3>4, <3>5 DEF Next, Application, Network, Timers, Continue
    <3>7. UNCHANGED <<cometXhr, running>> /\ "comet" \notin timers'
      <4>1. ASSUME NEW notFound \in BOOLEAN, HandshakeFailure(notFound)
            PROVE  UNCHANGED <<cometXhr, running>> /\ "comet" \notin timers'
        BY <3>1, <4>1, HandshakeFailureTimers DEF HandshakeFailure
      <4>2. CASE Connect \/ HandshakeSuccess
        BY <2>3, <3>1, <4>2 DEF Connect, HandshakeSuccess
      <4>3. CASE Write \/ HandshakeTimeout \/ HandshakeRetry
        BY <3>1, <4>3 DEF Write, HandshakeTimeout, HandshakeRetry
      <4>4. CASE WriteSuccess
        BY <3>1, <4>4 DEF WriteSuccess, WriteSucceeds, WithTimeoutReset
      <4>5. CASE WriteFailure \/ WriteTimer
        BY <3>1, <4>5 DEF WriteFailure, WriteTimer
      <4> QED
        BY <3>6, <4>1, <4>2, <4>3, <4>4, <4>5
    <3> QED
      BY <3>1, <3>7 DEF Asking
  <2> QED
    BY <2>1, <2>2, <2>3 DEF MayRead
<1> QED
  BY <1>1, <1>2

LEMMA ReadingNext ==
  ASSUME TypeOK, CometLoop, Reading, Next PROVE Reading'
<1>1. CASE DeliverPacket
  <2> DEFINE id == Head(response).id
             n == Len(delivered)
  <2>1. /\ AtPacket({"data"}) /\ ~Seen(id) /\ ~Ahead(id)
        /\ lastEventId' = id /\ delivered' = Append(delivered, id)
        /\ running = "packets"
    BY <1>1 DEF DeliverPacket, Expected, AtPacket
  <2>2. id \in 1..MaxEventId
    BY <2>1, HeadPacketType, TypeParts DEF PacketKinds
  <2>3. delivered \in Seq(1..MaxEventId) /\ n \in Nat
    BY LenProperties DEF TypeOK
  <2>4. Synced /\ DeliveredConsecutive
    BY <2>1 DEF Reading, MayRead
  <2>5. \A i \in 1..MaxEventId : i \in Int /\ i # NoEvent
    BY BoundsAssumption DEF NoEvent
  <2> HIDE DEF id
  <2>6. /\ delivered' \in Seq(1..MaxEventId) /\ Len(delivered') = n + 1
        /\ delivered' # <<>>
        /\ \A i \in 1..n : delivered'[i] = delivered[i]
        /\ delivered'[n + 1] = id
    BY <2>1, <2>2, <2>3, AppendProperties
  <2>7. Synced'
    BY <2>1, <2>6 DEF Synced
  <2>8. n # 0 => id = delivered[n] + 1
    <3>1. SUFFICES ASSUME n # 0 PROVE id = delivered[n] + 1
      OBVIOUS
    <3>2. delivered # <<>> /\ n \in 1..n
      BY <2>3, <3>1, EmptySeq
    <3>3. delivered[n] \in 1..MaxEventId
      BY <2>3, <3>2, ElementOfSeq
    <3>4. lastEventId = delivered[n] /\ lastEventId # NoEvent
      BY <2>4, <2>5, <3>2, <3>3 DEF Synced
    <3> QED
      BY <2>1, <2>2, <2>5, <3>3, <3>4 DEF Seen, Ahead
  <2>9. \A i \in 1..n : delivered[i] = delivered[1] + i - 1
    BY <2>3, <2>4, LenProperties DEF DeliveredConsecutive
  <2>10. \A i \in 1..n : delivered[i] \in Int
    BY <2>3, <2>5, ElementOfSeq
  <2>11. \A i \in 1..(n + 1) : delivered'[i] = delivered'[1] + i - 1
    <3>1. CASE n = 0
      BY <2>2, <2>5, <2>6, <3>1
    <3>2. CASE n # 0
      <4>1. 1 \in 1..n /\ n \in 1..n /\ delivered'[1] = delivered[1]
        BY <2>3, <2>6, <3>2
      <4>2. delivered'[n + 1] = delivered'[1] + (n + 1) - 1
        <5>1. delivered[1] \in Int /\ delivered[n] = delivered[1] + n - 1
          BY <2>9, <2>10, <4>1
        <5>2. delivered'[n + 1] = delivered[n] + 1
          BY <2>6, <2>8, <3>2
        <5> QED
          BY <2>3, <4>1, <5>1, <5>2
      <4>3. ASSUME NEW i \in 1..n PROVE delivered'[i] = delivered'[1] + i - 1
        BY <2>6, <2>9, <4>1
      <4> QED
        BY <2>3, <4>2, <4>3
    <3> QED
      BY <3>1, <3>2
  <2>12. DOMAIN delivered' = 1..(n + 1)
    BY <2>6, LenProperties
  <2> QED
    BY <2>7, <2>11, <2>12 DEF Reading, DeliveredConsecutive
<1>2. CASE ReceivedNullPacket
  BY <1>2 DEF ReceivedNullPacket, AnswerNull, HandlerStops, Reading, MayRead,
       DeliveredConsecutive
<1>3. CASE CorruptPacket
  BY <1>3 DEF CorruptPacket, ProtocolError, HandlerStops, Reading, MayRead,
       DeliveredConsecutive
<1>4. CASE UnreadablePacket
  <2>1. running = "packets" /\ running' = "none" /\ UNCHANGED <<cometXhr, timers>>
    BY <1>4 DEF UnreadablePacket, Expected, AtPacket, HandlerStops
  <2>2. readyState' = readyState /\ delivered' = delivered
    BY <1>4 DEF UnreadablePacket
  <2>3. ~MayRead'
    BY <2>1, <2>2 DEF CometLoop, MayRead, Asking
  <2> QED
    BY <2>2, <2>3 DEF Reading, DeliveredConsecutive
<1>5. CASE /\ ~DeliverPacket /\ ~ReceivedNullPacket
           /\ ~CorruptPacket /\ ~UnreadablePacket
  <2>1. UNCHANGED <<delivered, lastEventId>>
    BY <1>5 DEF Next, Application, Network, Timers, Continue,
         Connect, Write, Close, HandshakeTimeout, HandshakeRetry,
         HandshakeSuccess, OnConnectReturns, HandshakeFailure, WriteSuccess,
         WriteFailure, WriteTimer, CometFailure, CometTimer, CometSuccess,
         CometEmpty, SkipPacket, OnReadReturns, PacketAhead, MissingPacket,
         PacketsDone, TimeoutExpires
  <2>2. Synced => Synced'
    BY <2>1 DEF Synced
  <2>3. DeliveredConsecutive => DeliveredConsecutive'
    BY <2>1 DEF DeliveredConsecutive
  <2>4. MayRead' => MayRead
    BY MayReadStays
  <2> QED
    BY <2>2, <2>3, <2>4 DEF Reading
<1> QED
  BY <1>1, <1>2, <1>3, <1>4, <1>5
(* What __doWrite and _doWrite do to the 'send' XHR. *)
LEMMA SendNowSends ==
  ASSUME NEW flight, NEW buffer, NEW sendNull, SendNow(flight, buffer, sendNull)
  PROVE  /\ packetsInFlight' = <<>> => UNCHANGED sendXhr
         /\ packetsInFlight' # <<>> => sendXhr'.kind = "send"
  BY DEF SendNow

LEMMA SendNowKeepsFlight ==
  ASSUME WritingOK, NEW flight \in Seq(Packet), NEW buffer \in Seq(1..MaxWrites),
         NEW sendNull \in BOOLEAN, SendNow(flight, buffer, sendNull)
  PROVE  packetsInFlight' = <<>> => flight = <<>> /\ buffer = <<>> /\ ~sendNull
<1>1. packetsInFlight' = Sent(flight, buffer, sendNull)
  BY DEF SendNow, Sent
<1> QED
  BY <1>1, SentNothing

LEMMA DoWriteSends ==
  ASSUME WritingOK, SendLoop, readyState \notin {"INITIAL", "CONNECTING"},
         NEW buffer \in Seq(1..MaxWrites), NEW sendNull \in BOOLEAN,
         DoWrite(buffer, sendNull),
         readyState' \notin {"INITIAL", "CONNECTING"}, timers' \subseteq timers,
         readyState' = "CONNECTED" => readyState = "CONNECTED" /\ timers' = timers
  PROVE  SendLoop'
<1>1. CASE packetsInFlight # <<>>
  BY <1>1 DEF DoWrite, SendLoop
<1>2. CASE packetsInFlight = <<>>
  <2>1. /\ packetsInFlight' = <<>> => UNCHANGED sendXhr
        /\ packetsInFlight' # <<>> => sendXhr'.kind = "send"
    BY <1>2, SendNowSends DEF DoWrite
  <2>2. "write" \notin timers' /\ "handshakeRetry" \notin timers'
    BY <1>2 DEF SendLoop
  <2> QED
    BY <1>2, <2>1, <2>2 DEF SendLoop, Idle
<1> QED
  BY <1>1, <1>2

LEMMA CloseSessionSends ==
  ASSUME TypeOK, SendLoop, NEW ts \in SUBSET timers, CloseSession(ts)
  PROVE  SendLoop'
<1>1. CASE readyState = "CONNECTED"
  BY <1>1, DoWriteSends, CloseSessionEnds, TypeParts DEF CloseSession, WritingOK
<1>2. CASE readyState # "CONNECTED"
  BY <1>2, CloseSessionEnds DEF SendLoop, writing
<1> QED
  BY <1>1, <1>2

LEMMA SendLoopNext ==
  ASSUME ClientInv, CometLoop, SendLoop, NullsKept, Next PROVE SendLoop'
<1> USE DEF SendLoop
<1>0. TypeOK /\ WritingOK /\ CometOK /\ AnswerDue
  BY TypeParts DEF ClientInv
<1>1. CASE Connect
  BY <1>1 DEF Connect
<1>2. CASE Write
  <2>1. Append(writeBuffer, written + 1) \in Seq(1..MaxWrites)
    <3>1. written \in Nat /\ MaxWrites \in Nat /\ written < MaxWrites
      BY <1>0, <1>2, BoundsAssumption DEF Write, CometOK
    <3>2. written + 1 \in 1..MaxWrites /\ writeBuffer \in Seq(1..MaxWrites)
      BY <1>0, <3>1 DEF WritingOK
    <3> QED
      BY <3>2, AppendProperties
  <2> QED
    BY <1>0, <1>2, <2>1, DoWriteSends DEF Write
<1>3. CASE Close \/ MissingPacket
  BY <1>0, <1>3, CloseSessionSends DEF Close, MissingPacket
<1>4. CASE TimeoutExpires
  BY <1>0, <1>4, CloseSessionSends DEF TimeoutExpires
<1>5. CASE HandshakeTimeout \/ OnConnectReturns \/ CometTimer \/ CometEmpty
            \/ (\E batch \in Responses : CometSuccess(batch))
            \/ SkipPacket \/ DeliverPacket \/ OnReadReturns \/ UnreadablePacket
            \/ PacketsDone
  <2>1. /\ UNCHANGED <<readyState, sendXhr, packetsInFlight>>
        /\ "write" \in timers <=> "write" \in timers'
        /\ "handshakeRetry" \in timers' => "handshakeRetry" \in timers
    BY <1>5 DEF HandshakeTimeout, OnConnectReturns, CometTimer, CometEmpty,
         CometSuccess, SkipPacket, UnreadablePacket, DeliverPacket, OnReadReturns, PacketsDone,
         WithTimeoutReset, writing
  <2> QED
    BY <2>1
<1>6. CASE HandshakeRetry
  BY <1>6 DEF HandshakeRetry
<1>7. CASE HandshakeSuccess
  <2>1. sendXhr.kind = "handshake" /\ sendXhr' = Idle /\ sendXhr # Idle
    BY <1>7 DEF HandshakeSuccess, HandshakeAnswered, Idle
  <2> QED
    BY <1>7, <2>1 DEF HandshakeSuccess, Idle
<1>8. ASSUME NEW notFound \in BOOLEAN, HandshakeFailure(notFound) PROVE SendLoop'
  <2>1. /\ sendXhr.kind = "handshake" /\ sendXhr' = Idle /\ sendXhr # Idle
        /\ UNCHANGED <<readyState, packetsInFlight>>
    BY <1>8 DEF HandshakeFailure, HandshakeAnswered, Idle
  <2> QED
    BY <1>8, <2>1, HandshakeFailureTimers
<1>9. CASE WriteSuccess
  <2>1. /\ sendXhr.kind = "send" /\ sendXhr # Idle /\ packetsInFlight # <<>>
        /\ readyState' = readyState
        /\ timers' \subseteq timers \cup {"timeout"}
    BY <1>0, <1>9 DEF WriteSuccess, WriteSucceeds, WithTimeoutReset, SendAnswered,
         Idle, AnswerDue
  <2>2. CASE WriteSucceeds
    <3>1. IF packetsInFlight' = <<>> THEN sendXhr' = Idle ELSE sendXhr'.kind = "send"
      <4>1. CASE writeBuffer # <<>> \/ "inBuffer" \in nulls
        <5> DEFINE waiting == "inBuffer" \in nulls
        <5>1. SendNow(<<>>, writeBuffer, waiting) /\ waiting \in BOOLEAN
              /\ (writeBuffer # <<>> \/ waiting)
          BY <2>2, <4>1 DEF WriteSucceeds
        <5> HIDE DEF waiting
        <5>2. <<>> \in Seq(Packet) /\ writeBuffer \in Seq(1..MaxWrites)
          BY <1>0, EmptySeq DEF WritingOK
        <5> QED
          BY <1>0, <5>1, <5>2, SendNowKeepsFlight, SendNowSends
      <4>2. CASE ~(writeBuffer # <<>> \/ "inBuffer" \in nulls)
        BY <2>2, <4>2 DEF WriteSucceeds
      <4> QED
        BY <4>1, <4>2
    <3> QED
      BY <2>1, <3>1 DEF Idle
  <2>3. CASE ~WriteSucceeds
    <3>1. sendXhr' = Idle /\ packetsInFlight' = packetsInFlight /\ timers' = timers
      BY <1>9, <2>3 DEF WriteSuccess
    <3>2. readyState # "CONNECTED"
      BY <1>9, <2>3 DEF WriteSuccess, NullsKept
    <3> QED
      BY <2>1, <3>1, <3>2 DEF Idle
  <2> QED
    BY <2>2, <2>3
<1>10. CASE WriteFailure
  <2>1. /\ sendXhr.kind = "send" /\ sendXhr # Idle /\ packetsInFlight # <<>>
        /\ sendXhr' = Idle /\ UNCHANGED <<readyState, packetsInFlight>>
        /\ timers' = timers \cup IF readyState = "CONNECTED" THEN {"write"} ELSE {}
    BY <1>0, <1>10 DEF WriteFailure, SendAnswered, Idle, AnswerDue
  <2> QED
    BY <2>1 DEF Idle
<1>11. CASE WriteTimer
  <2> DEFINE waiting == "inBuffer" \in nulls
  <2>1. SendNow(packetsInFlight, writeBuffer, waiting) /\ waiting \in BOOLEAN
        /\ "write" \in timers /\ timers' = timers \ {"write"}
        /\ readyState' = readyState
    BY <1>11 DEF WriteTimer
  <2> HIDE DEF waiting
  <2>2. packetsInFlight \in Seq(Packet) /\ writeBuffer \in Seq(1..MaxWrites)
    BY <1>0 DEF WritingOK
  <2>3. packetsInFlight' # <<>>
    BY <1>0, <2>1, <2>2, SendNowKeepsFlight
  <2>4. sendXhr'.kind = "send"
    BY <2>1, <2>3, SendNowSends
  <2> QED
    BY <2>1, <2>3, <2>4 DEF Idle
<1>12. ASSUME NEW sessionNotFound \in BOOLEAN, CometFailure(sessionNotFound)
       PROVE SendLoop'
  <2>1. CASE CloseSession(timers)
    BY <1>0, <2>1, CloseSessionSends
  <2>2. CASE UNCHANGED <<readyState, writing>> /\ timers' \in {timers, timers \cup {"comet"}}
    BY <2>2 DEF writing
  <2> QED
    BY <1>12, <2>1, <2>2, CometFailureCases
<1>13. CASE ReceivedNullPacket
  <2>1. readyState \notin {"INITIAL", "CONNECTING"} /\ timers' = timers
        /\ readyState' \in {"DISCONNECTING", "DISCONNECTED"}
    BY <1>13 DEF ReceivedNullPacket, AnswerNull, Expected, AtPacket, CometLoop
  <2>2. CASE DoWrite(writeBuffer, TRUE)
    BY <1>0, <2>1, <2>2, DoWriteSends DEF WritingOK
  <2>3. CASE UNCHANGED writing
    BY <2>1, <2>3 DEF writing
  <2> QED
    BY <1>13, <2>2, <2>3 DEF ReceivedNullPacket, AnswerNull
<1>14. CASE CorruptPacket \/ PacketAhead
  <2>1. /\ readyState \notin {"INITIAL", "CONNECTING"} /\ timers' = timers
        /\ readyState' = "DISCONNECTED" /\ DoWrite(writeBuffer, TRUE)
    BY <1>14 DEF CorruptPacket, PacketAhead, ProtocolError, Expected, AtPacket, CometLoop
  <2> QED
    BY <1>0, <2>1, DoWriteSends DEF WritingOK
<1> QED
  BY <1>1, <1>2, <1>3, <1>4, <1>5, <1>6, <1>7, <1>8, <1>9, <1>10, <1>11, <1>12,
     <1>13, <1>14
     DEF Next, Application, Network, Timers, Continue
-----------------------------------------------------------------------------
LEMMA LoopInit == Init => LoopInv
<1> SUFFICES ASSUME Init PROVE LoopInv
  OBVIOUS
<1>1. CometLoop /\ SendLoop /\ NullsKept
  BY DEF Init, CometLoop, SendLoop, NullsKept
<1>2. Reading
  BY EmptySeq DEF Init, Reading, DeliveredConsecutive, Synced
<1> QED
  BY <1>1, <1>2 DEF LoopInv

LEMMA LoopNext == ClientInv /\ LoopInv /\ [Next]_vars => LoopInv'
<1> SUFFICES ASSUME ClientInv, LoopInv, [Next]_vars PROVE LoopInv'
  OBVIOUS
<1>1. CASE UNCHANGED vars
  BY <1>1 DEF LoopInv, CometLoop, SendLoop, NullsKept, Reading, MayRead, Asking, Synced,
       DeliveredConsecutive, vars, writing
<1>2. CASE Next
  BY <1>2, CometLoopNext, SendLoopNext, NullsKeptNext, ReadingNext
     DEF ClientInv, LoopInv
<1> QED
  BY <1>1, <1>2

(* The two loops, the nulls and what is read are inductive together, over  *)
(* the invariant of the writes.                                            *)
THEOREM LoopInvariant == Spec => []LoopInv
  BY LoopInit, LoopNext, ClientInvariant, PTL DEF Spec

(* The application reads consecutive packets, each once, whatever ids the  *)
(* answers carry (_cometSuccess).                                          *)
THEOREM DeliveryIsConsecutive == Spec => []DeliveredConsecutive
<1>1. LoopInv => DeliveredConsecutive
  BY DEF LoopInv, Reading
<1> QED
  BY <1>1, LoopInvariant, PTL

(* No timer ever reopens an XHR that carries a request, and a connected    *)
(* session with nothing in flight has its 'send' XHR free (transports.js   *)
(* reuses one XHR for the requests of a kind).                             *)
THEOREM RequestsNotOverwritten == Spec => []NoRequestOverwritten
<1>1. LoopInv => NoRequestOverwritten
  BY DEF LoopInv, CometLoop, SendLoop, NoRequestOverwritten
<1> QED
  BY <1>1, LoopInvariant, PTL

(* Neither loop of a connected session dies: each has its request, its     *)
(* timer or the session's timeout (_cometFailure, _cometSuccess,           *)
(* _writeFailure).                                                         *)
THEOREM LoopsStayAlive == Spec => []LoopsAlive
<1>1. LoopInv => LoopsAlive
  BY DEF LoopInv, CometLoop, SendLoop, LoopsAlive, Free
<1> QED
  BY <1>1, LoopInvariant, PTL

(* The ready state never goes back, in any order of answers, timers and    *)
(* calls from the callbacks (_receivedNullPacket, close).                  *)
THEOREM ReadyStateNeverReturns == Spec => ReadyStateAdvances
<1>1. ClientInv /\ LoopInv /\ [Next]_vars => [Rank[readyState'] >= Rank[readyState]]_vars
  BY Advances DEF ClientInv, LoopInv
<1> QED
  BY <1>1, ClientInvariant, LoopInvariant, PTL DEF Spec, ReadyStateAdvances
(***************************************************************************)
(* The retries: what was ever sent, as a set of packets.  A null is the    *)
(* last packet made, and nothing is sent by __doWrite once it is in        *)
(* flight, so a packet made is above every packet sent before it.          *)
(***************************************************************************)
PacketsOf(r) == {r[i] : i \in DOMAIN r}
SentPackets == UNION {PacketsOf(r) : r \in requests}

RetryInv ==
  /\ \A p \in SentPackets : p.id =< lastSentId
  /\ PacketsOf(packetsInFlight) \subseteq SentPackets
  /\ "inFlight" \notin nulls => \A p \in SentPackets : p.data # <<>>
  /\ "inFlight" \in nulls => packetsInFlight # <<>> /\ "write" \notin timers
  /\ \A p, q \in SentPackets :
       /\ p.id = q.id => p = q
       /\ p.data = <<>> => q.id =< p.id

LEMMA RetryInvIsEnough == RetryInv => RetriesKeepPackets
<1> SUFFICES ASSUME RetryInv, NEW r \in requests, NEW s \in requests,
                    NEW i \in DOMAIN r, NEW j \in DOMAIN s
             PROVE  /\ r[i].id = s[j].id => r[i] = s[j]
                    /\ r[i].data = <<>> => s[j].id =< r[i].id
  BY DEF RetriesKeepPackets
<1>1. r[i] \in SentPackets /\ s[j] \in SentPackets
  BY DEF SentPackets, PacketsOf
<1> QED
  BY <1>1 DEF RetryInv

LEMMA PacketsOfSeq ==
  /\ PacketsOf(<<>>) = {}
  /\ \A p : PacketsOf(<<p>>) = {p}
  /\ \A r \in Seq(Packet), p \in Packet : PacketsOf(Append(r, p)) = PacketsOf(r) \cup {p}
<1>1. PacketsOf(<<>>) = {}
  BY DEF PacketsOf
<1>2. ASSUME NEW p PROVE PacketsOf(<<p>>) = {p}
  BY DEF PacketsOf
<1>3. ASSUME NEW r \in Seq(Packet), NEW p \in Packet
      PROVE  PacketsOf(Append(r, p)) = PacketsOf(r) \cup {p}
  <2> DEFINE t == Append(r, p)
             n == Len(r)
  <2>1. n \in Nat /\ DOMAIN r = 1..n
    BY LenProperties
  <2>2. /\ t \in Seq(Packet) /\ Len(t) = n + 1
        /\ \A i \in 1..n : t[i] = r[i]
        /\ t[n + 1] = p
    BY AppendProperties
  <2>3. DOMAIN t = 1..(n + 1)
    BY <2>2, LenProperties
  <2> HIDE DEF t, n
  <2>4. PacketsOf(t) \subseteq PacketsOf(r) \cup {p}
    <3>1. ASSUME NEW i \in 1..(n + 1) PROVE t[i] \in PacketsOf(r) \cup {p}
      <4>1. i \in 1..n \/ i = n + 1
        BY <2>1
      <4> QED
        BY <2>1, <2>2, <4>1 DEF PacketsOf
    <3> QED
      BY <2>3, <3>1 DEF PacketsOf
  <2>5. PacketsOf(r) \cup {p} \subseteq PacketsOf(t)
    <3>1. ASSUME NEW i \in 1..n PROVE r[i] \in PacketsOf(t)
      <4>1. i \in 1..(n + 1) /\ t[i] = r[i]
        BY <2>1, <2>2
      <4> QED
        BY <2>3, <4>1 DEF PacketsOf
    <3>2. p \in PacketsOf(t)
      <4>1. n + 1 \in 1..(n + 1)
        BY <2>1
      <4> QED
        BY <2>2, <2>3, <4>1 DEF PacketsOf
    <3> QED
      BY <2>1, <3>1, <3>2 DEF PacketsOf
  <2> QED
    BY <2>4, <2>5 DEF t
<1> QED
  BY <1>1, <1>2, <1>3

(* What __doWrite adds to what was sent: nothing, a data packet, a null,   *)
(* or both; each with an id of its own above all others.                   *)
LEMMA SendNowAdds ==
  ASSUME WritingOK, NEW flight \in Seq(Packet), NEW buffer \in Seq(1..MaxWrites),
         NEW sendNull \in BOOLEAN, SendNow(flight, buffer, sendNull),
         flight = <<>> \/ flight = packetsInFlight,
         RetryInv, "inFlight" \notin nulls, "write" \notin timers'
  PROVE  RetryInv'
<1> DEFINE L == lastSentId
           d == [id |-> L + 1, data |-> buffer]
           next == Sent(flight, buffer, sendNull)
           data == DataFlight(flight, buffer)
           null == NullPacket(NullId(flight, data))
           made == PacketsOf(next) \ SentPackets
<1>1. L \in Nat /\ \A p \in SentPackets : p.id \in Nat
  <2>1. ASSUME NEW p \in SentPackets PROVE p \in Packet
    <3>1. PICK r \in requests : p \in PacketsOf(r)
      BY DEF SentPackets
    <3>2. PICK i \in DOMAIN r : p = r[i]
      BY <3>1 DEF PacketsOf
    <3>3. r \in Seq(Packet)
      BY DEF WritingOK
    <3> QED
      BY <3>2, <3>3, LenProperties, ElementOfSeq
  <2> QED
    BY <2>1 DEF WritingOK, Packet
<1>2. PacketsOf(flight) \subseteq SentPackets
  BY PacketsOfSeq DEF RetryInv
<1>3. /\ packetsInFlight' = next
      /\ lastSentId' = IF next = flight THEN L ELSE next[Len(next)].id
      /\ nulls' = nulls \cup IF NullJoins(flight, buffer, sendNull) THEN {"inFlight"} ELSE {}
      /\ requests' = IF next = <<>> THEN requests ELSE requests \cup {next}
  BY DEF SendNow, Sent
<1>4. SentPackets' = SentPackets \cup PacketsOf(next)
  <2>1. CASE next = <<>>
    BY <1>3, <2>1, PacketsOfSeq DEF SentPackets
  <2>2. CASE next # <<>>
    BY <1>3, <2>2 DEF SentPackets
  <2> QED
    BY <2>1, <2>2
<1>5. d \in Packet /\ null \in Packet /\ d.id = L + 1 /\ d.data = buffer /\ null.data = <<>>
      /\ null.id = IF data = flight THEN L + 1 ELSE L + 2
  BY <1>1 DEF Packet, NullPacket, NullId
<1>6. data = flight \/ (data = <<d>> /\ flight = <<>> /\ buffer # <<>> /\ data # flight)
  BY DEF DataFlight
<1>7. next = IF NullJoins(flight, buffer, sendNull) THEN Append(data, null) ELSE data
  BY DEF Sent
<1>8. data \in Seq(Packet)
  BY DataFlightType
<1> HIDE DEF L, d, next, data, null
<1>9. /\ Append(data, null) # data /\ Append(data, null) # <<>>
      /\ Append(data, null)[Len(Append(data, null))] = null
      /\ Len(Append(data, null)) = Len(data) + 1 /\ Len(data) \in Nat
  BY <1>5, <1>8, AppendProperties, LenProperties
<1>10. CASE data = flight /\ ~NullJoins(flight, buffer, sendNull)
  <2>1. SentPackets' = SentPackets /\ lastSentId' = L /\ nulls' = nulls
        /\ packetsInFlight' = flight
    BY <1>2, <1>3, <1>4, <1>7, <1>10
  <2> QED
    BY <1>2, <2>1 DEF RetryInv, L
<1>11. CASE data = flight /\ NullJoins(flight, buffer, sendNull)
  <2>1. PacketsOf(next) = PacketsOf(flight) \cup {null} /\ next # flight /\ next # <<>>
        /\ next[Len(next)] = null
    BY <1>5, <1>7, <1>9, <1>11, PacketsOfSeq
  <2>2. /\ SentPackets' = SentPackets \cup {null} /\ lastSentId' = L + 1
        /\ null.id = L + 1 /\ "inFlight" \in nulls' /\ packetsInFlight' # <<>>
    BY <1>2, <1>3, <1>4, <1>5, <1>11, <2>1
  <2>3. PacketsOf(packetsInFlight') \subseteq SentPackets'
    BY <1>2, <1>3, <2>1, <2>2
  <2> QED
    BY <1>1, <1>5, <2>2, <2>3 DEF RetryInv, L
<1>12. CASE data # flight /\ ~NullJoins(flight, buffer, sendNull)
  <2>1. next = <<d>> /\ PacketsOf(next) = {d} /\ next # flight /\ next[Len(next)] = d
        /\ buffer # <<>>
    BY <1>6, <1>7, <1>12, PacketsOfSeq
  <2>2. /\ SentPackets' = SentPackets \cup {d} /\ lastSentId' = L + 1
        /\ nulls' = nulls /\ PacketsOf(packetsInFlight') \subseteq SentPackets'
    BY <1>3, <1>4, <1>5, <1>12, <2>1
  <2> QED
    BY <1>1, <1>5, <2>1, <2>2 DEF RetryInv, L
<1>13. CASE data # flight /\ NullJoins(flight, buffer, sendNull)
  <2>1. data = <<d>> /\ flight = <<>> /\ buffer # <<>>
    BY <1>6, <1>13
  <2>2. next = Append(data, null) /\ next # flight /\ next # <<>>
        /\ next[Len(next)] = null
    BY <1>7, <1>9, <1>13, <2>1
  <2>a. PacketsOf(data) = {d}
    BY <2>1, PacketsOfSeq
  <2>b. PacketsOf(next) = PacketsOf(data) \cup {null}
    BY <1>5, <1>8, <2>2, PacketsOfSeq
  <2>3. /\ SentPackets' = SentPackets \cup {d, null} /\ lastSentId' = L + 2
        /\ null.id = L + 2 /\ "inFlight" \in nulls' /\ packetsInFlight' # <<>>
        /\ PacketsOf(packetsInFlight') \subseteq SentPackets'
    BY <1>3, <1>4, <1>5, <1>13, <2>2, <2>a, <2>b
  <2> QED
    BY <1>1, <1>5, <2>1, <2>3 DEF RetryInv, L
<1> QED
  BY <1>10, <1>11, <1>12, <1>13
LEMMA RetryUnchanged ==
  ASSUME RetryInv, UNCHANGED <<packetsInFlight, lastSentId, requests>>,
         nulls' \ {"inBuffer", "sent"} = nulls \ {"inBuffer", "sent"},
         "write" \in timers' => "write" \in timers
  PROVE  RetryInv'
<1>1. SentPackets' = SentPackets /\ PacketsOf(packetsInFlight)' = PacketsOf(packetsInFlight)
  BY DEF SentPackets, PacketsOf
<1>2. "inFlight" \in nulls' <=> "inFlight" \in nulls
  OBVIOUS
<1> QED
  BY <1>1, <1>2 DEF RetryInv

LEMMA DoWriteRetries ==
  ASSUME WritingOK, SendLoop, RetryInv, NEW buffer \in Seq(1..MaxWrites),
         NEW sendNull \in BOOLEAN, DoWrite(buffer, sendNull), timers' \subseteq timers
  PROVE  RetryInv'
<1>1. CASE packetsInFlight # <<>>
  BY <1>1, RetryUnchanged DEF DoWrite
<1>2. CASE packetsInFlight = <<>>
  <2>1. "inFlight" \notin nulls /\ "write" \notin timers'
    BY <1>2 DEF RetryInv, SendLoop
  <2>2. SendNow(packetsInFlight, buffer, sendNull) /\ packetsInFlight \in Seq(Packet)
    BY <1>2 DEF DoWrite, WritingOK
  <2> QED
    BY <2>1, <2>2, SendNowAdds
<1> QED
  BY <1>1, <1>2

LEMMA CloseSessionRetries ==
  ASSUME TypeOK, SendLoop, RetryInv, NEW ts \in SUBSET timers, CloseSession(ts)
  PROVE  RetryInv'
<1>1. timers' \subseteq timers
  BY CloseSessionEnds
<1>2. UNCHANGED writing \/ DoWrite(writeBuffer, TRUE)
  BY DEF CloseSession
<1> QED
  BY <1>1, <1>2, DoWriteRetries, RetryUnchanged, TypeParts DEF WritingOK, writing

LEMMA RetryNext ==
  ASSUME ClientInv, SendLoop, NullsKept, RetryInv, Next PROVE RetryInv'
<1>0. TypeOK /\ WritingOK /\ CometOK /\ AnswerDue
  BY TypeParts DEF ClientInv
<1>1. CASE Write
  <2>1. Append(writeBuffer, written + 1) \in Seq(1..MaxWrites)
    <3>1. written \in Nat /\ MaxWrites \in Nat /\ written < MaxWrites
      BY <1>0, <1>1, BoundsAssumption DEF Write, CometOK
    <3>2. written + 1 \in 1..MaxWrites /\ writeBuffer \in Seq(1..MaxWrites)
      BY <1>0, <3>1 DEF WritingOK
    <3> QED
      BY <3>2, AppendProperties
  <2> QED
    BY <1>0, <1>1, <2>1, DoWriteRetries DEF Write
<1>2. CASE Close \/ MissingPacket
  BY <1>0, <1>2, CloseSessionRetries DEF Close, MissingPacket
<1>3. CASE TimeoutExpires
  BY <1>0, <1>3, CloseSessionRetries DEF TimeoutExpires
<1>4. CASE Connect \/ HandshakeTimeout \/ HandshakeRetry \/ HandshakeSuccess
            \/ OnConnectReturns \/ CometTimer \/ CometEmpty
            \/ (\E batch \in Responses : CometSuccess(batch))
            \/ SkipPacket \/ DeliverPacket \/ OnReadReturns \/ UnreadablePacket
            \/ PacketsDone
  <2>1. /\ UNCHANGED <<packetsInFlight, lastSentId, requests, nulls>>
        /\ "write" \in timers' => "write" \in timers
    BY <1>4 DEF Connect, HandshakeTimeout, HandshakeRetry, HandshakeSuccess,
         OnConnectReturns, CometTimer, CometEmpty, CometSuccess, SkipPacket,
         UnreadablePacket,
         DeliverPacket, OnReadReturns, PacketsDone, WithTimeoutReset, writing
  <2> QED
    BY <2>1, RetryUnchanged
<1>5. ASSUME NEW notFound \in BOOLEAN, HandshakeFailure(notFound) PROVE RetryInv'
  <2>1. UNCHANGED <<packetsInFlight, lastSentId, requests, nulls>>
    BY <1>5 DEF HandshakeFailure
  <2> QED
    BY <1>5, <2>1, HandshakeFailureTimers, RetryUnchanged
<1>6. CASE WriteSuccess
  <2>1. "write" \notin timers /\ "write" \notin timers'
    BY <1>6 DEF WriteSuccess, WriteSucceeds, WithTimeoutReset, SendAnswered,
         SendLoop, Idle
  <2> DEFINE listens == readyState \in {"CONNECTED", "DISCONNECTING"} /\ "inFlight" \notin nulls
  <2>2. CASE listens
    <3>1. WriteSucceeds
      BY <1>6, <2>2 DEF WriteSuccess
    <3>2. CASE writeBuffer # <<>> \/ "inBuffer" \in nulls
      <4> DEFINE waiting == "inBuffer" \in nulls
      <4>1. SendNow(<<>>, writeBuffer, waiting) /\ waiting \in BOOLEAN
        BY <3>1, <3>2 DEF WriteSucceeds
      <4> HIDE DEF waiting
      <4>2. <<>> \in Seq(Packet) /\ writeBuffer \in Seq(1..MaxWrites)
        BY <1>0, EmptySeq DEF WritingOK
      <4> QED
        BY <1>0, <2>1, <2>2, <4>1, <4>2, SendNowAdds
    <3>3. CASE ~(writeBuffer # <<>> \/ "inBuffer" \in nulls)
      <4>1. packetsInFlight' = <<>> /\ UNCHANGED <<lastSentId, requests, nulls>>
        BY <3>1, <3>3 DEF WriteSucceeds
      <4>2. SentPackets' = SentPackets /\ PacketsOf(packetsInFlight') = {}
        BY <4>1, PacketsOfSeq DEF SentPackets
      <4> QED
        BY <2>2, <4>1, <4>2 DEF RetryInv
    <3> QED
      BY <3>2, <3>3
  <2>3. CASE ~listens
    <3>1. UNCHANGED <<packetsInFlight, lastSentId, requests>>
          /\ (nulls' = nulls \/ nulls' = nulls \cup {"sent"})
      BY <1>6, <2>3 DEF WriteSuccess
    <3> QED
      BY <2>1, <3>1, RetryUnchanged
  <2> QED
    BY <2>2, <2>3
<1>7. CASE WriteFailure
  <2>1. /\ UNCHANGED <<packetsInFlight, lastSentId, requests, nulls>>
        /\ timers' = timers \cup IF readyState = "CONNECTED" THEN {"write"} ELSE {}
    BY <1>7 DEF WriteFailure
  <2>2. CASE readyState = "CONNECTED"
    <3>1. nulls = {} /\ SentPackets' = SentPackets
      BY <2>1, <2>2 DEF NullsKept, SentPackets
    <3> QED
      BY <2>1, <3>1 DEF RetryInv, PacketsOf
  <2>3. CASE readyState # "CONNECTED"
    BY <2>1, <2>3, RetryUnchanged
  <2> QED
    BY <2>2, <2>3
<1>8. CASE WriteTimer
  <2> DEFINE waiting == "inBuffer" \in nulls
  <2>1. SendNow(packetsInFlight, writeBuffer, waiting) /\ waiting \in BOOLEAN
        /\ "write" \in timers /\ "write" \notin timers'
    BY <1>8 DEF WriteTimer
  <2> HIDE DEF waiting
  <2>2. packetsInFlight \in Seq(Packet) /\ writeBuffer \in Seq(1..MaxWrites)
    BY <1>0 DEF WritingOK
  <2>3. "inFlight" \notin nulls
    BY <2>1 DEF RetryInv
  <2> QED
    BY <1>0, <2>1, <2>2, <2>3, SendNowAdds
<1>9. ASSUME NEW sessionNotFound \in BOOLEAN, CometFailure(sessionNotFound)
      PROVE RetryInv'
  <2>1. CASE CloseSession(timers)
    BY <1>0, <2>1, CloseSessionRetries
  <2>2. CASE UNCHANGED writing /\ timers' \in {timers, timers \cup {"comet"}}
    BY <2>2, RetryUnchanged DEF writing
  <2> QED
    BY <1>9, <2>1, <2>2, CometFailureCases
<1>10. CASE ReceivedNullPacket \/ CorruptPacket \/ PacketAhead
  <2>1. timers' = timers /\ (UNCHANGED writing \/ DoWrite(writeBuffer, TRUE))
    BY <1>10 DEF ReceivedNullPacket, AnswerNull, CorruptPacket, PacketAhead, ProtocolError
  <2> QED
    BY <1>0, <2>1, DoWriteRetries, RetryUnchanged DEF WritingOK, writing
<1> QED
  BY <1>1, <1>2, <1>3, <1>4, <1>5, <1>6, <1>7, <1>8, <1>9, <1>10
     DEF Next, Application, Network, Timers, Continue

LEMMA RetryInit == Init => RetryInv
BY PacketsOfSeq DEF Init, RetryInv, SentPackets

LEMMA RetryStep == ClientInv /\ LoopInv /\ RetryInv /\ [Next]_vars => RetryInv'
<1> SUFFICES ASSUME ClientInv, LoopInv, RetryInv, [Next]_vars PROVE RetryInv'
  OBVIOUS
<1>1. CASE Next
  BY <1>1, RetryNext DEF LoopInv
<1>2. CASE UNCHANGED vars
  BY <1>2, RetryUnchanged DEF vars, writing
<1> QED
  BY <1>1, <1>2

(* A packet keeps its content and its id through every retry, also when a  *)
(* null joins it, and the null is the last id (__doWrite, _writeFailure).  *)
THEOREM RetriesKeepContent == Spec => []RetriesKeepPackets
  BY RetryStep, RetryInit, RetryInvIsEnough, ClientInvariant, LoopInvariant, PTL DEF Spec
(***************************************************************************)
(* What the packets carry: the data packets have the ids from 1 on, each   *)
(* holds a run of writes, and each run goes on where the packet before it  *)
(* stopped.                                                                *)
(***************************************************************************)
LastOf(p) == p.data[Len(p.data)]

Chain(packets, last, sealed) ==
  /\ \A id \in 1..last : \E p \in packets : p.id = id /\ p.data # <<>>
  /\ \A p \in packets : p.data # <<>> =>
       /\ p.id \in 1..last
       /\ \A i \in 1..Len(p.data) : p.data[i] = p.data[1] + i - 1
       /\ p.id = 1 => p.data[1] = 1
       /\ p.id = last => LastOf(p) = sealed
       /\ \A q \in packets :
            q.data # <<>> /\ q.id = p.id + 1 => q.data[1] = LastOf(p) + 1
  /\ last = 0 => sealed = 0

(* The writes that are in a packet, and the id of the last data packet.    *)
Sealed == written - Len(writeBuffer)
LastData == IF "inFlight" \in nulls THEN lastSentId - 1 ELSE lastSentId

DataThenNull(r) ==
  Len(r) = 2 /\ r[1].data # <<>> /\ r[2].data = <<>> /\ r[2].id = r[1].id + 1

ChainInv ==
  /\ LastData \in Nat /\ Chain(SentPackets, LastData, Sealed)
  /\ \A p \in SentPackets : p.data = <<>> => p.id = lastSentId
  /\ packetsInFlight # <<>> =>
       /\ packetsInFlight \in requests
       /\ packetsInFlight[Len(packetsInFlight)].id = lastSentId
  /\ \A r \in requests : Len(r) = 1 \/ DataThenNull(r)

(* A packet made of the writes that follow lengthens the chain, and a null *)
(* leaves it as it is.                                                     *)
LEMMA ChainGrows ==
  ASSUME NEW packets, NEW last \in Nat, NEW sealed \in Int, NEW now \in Int,
         Chain(packets, last, sealed),
         NEW d, d.id = last + 1, d.data \in Seq(Int), d.data # <<>>,
         now = sealed + Len(d.data),
         \A i \in 1..Len(d.data) : d.data[i] = sealed + i
  PROVE  Chain(packets \cup {d}, last + 1, now)
<1> DEFINE n == Len(d.data)
<1>1. n \in Nat /\ n >= 1
  BY EmptySeq, LenProperties
<1>2. d.data[1] = sealed + 1 /\ LastOf(d) = now
  BY <1>1 DEF LastOf
<1>3. \A i \in 1..n : d.data[i] = d.data[1] + i - 1
  BY <1>1, <1>2
<1>4. \A id \in 1..(last + 1) : \E p \in packets \cup {d} : p.id = id /\ p.data # <<>>
  <2> SUFFICES ASSUME NEW id \in 1..(last + 1)
               PROVE  \E p \in packets \cup {d} : p.id = id /\ p.data # <<>>
    OBVIOUS
  <2>1. id \in 1..last \/ id = last + 1
    OBVIOUS
  <2> QED
    BY <2>1 DEF Chain
<1>5. ASSUME NEW p \in packets, p.data # <<>>
      PROVE  /\ p.id \in 1..(last + 1) /\ p.id # last + 1
             /\ \A i \in 1..Len(p.data) : p.data[i] = p.data[1] + i - 1
             /\ p.id = 1 => p.data[1] = 1
             /\ d.id = p.id + 1 => d.data[1] = LastOf(p) + 1
             /\ p.id # d.id + 1
             /\ \A q \in packets :
                  q.data # <<>> /\ q.id = p.id + 1 => q.data[1] = LastOf(p) + 1
  <2>1. /\ p.id \in 1..last
        /\ \A i \in 1..Len(p.data) : p.data[i] = p.data[1] + i - 1
        /\ p.id = 1 => p.data[1] = 1
        /\ p.id = last => LastOf(p) = sealed
        /\ \A q \in packets :
             q.data # <<>> /\ q.id = p.id + 1 => q.data[1] = LastOf(p) + 1
    BY <1>5 DEF Chain
  <2>2. d.id = p.id + 1 => p.id = last
    BY <2>1
  <2> QED
    BY <1>2, <2>1, <2>2
<1>6. d.id = 1 => d.data[1] = 1
  <2>1. d.id = 1 => last = 0
    OBVIOUS
  <2> QED
    BY <1>2, <2>1 DEF Chain
<1>7. d.id \in 1..(last + 1) /\ d.id # d.id + 1
  OBVIOUS
<1>8. last + 1 # 0
  OBVIOUS
<1> HIDE DEF n
<1>9. ASSUME NEW p \in packets \cup {d}, p.data # <<>>
      PROVE  /\ p.id \in 1..(last + 1)
             /\ \A i \in 1..Len(p.data) : p.data[i] = p.data[1] + i - 1
             /\ p.id = 1 => p.data[1] = 1
             /\ p.id = last + 1 => LastOf(p) = now
             /\ \A q \in packets \cup {d} :
                  q.data # <<>> /\ q.id = p.id + 1 => q.data[1] = LastOf(p) + 1
  <2>1. CASE p = d
    <3>1. \A q \in packets : q.data # <<>> => q.id # d.id + 1
      BY <1>5
    <3> QED
      BY <1>2, <1>3, <1>6, <1>7, <2>1, <3>1 DEF n
  <2>2. CASE p \in packets
    BY <1>5, <1>9, <2>2
  <2> QED
    BY <2>1, <2>2
<1> QED
  BY <1>4, <1>8, <1>9 DEF Chain

LEMMA ChainPastNull ==
  ASSUME NEW packets, NEW last, NEW sealed, Chain(packets, last, sealed),
         NEW p, p.data = <<>>
  PROVE  Chain(packets \cup {p}, last, sealed)
BY DEF Chain

(* The end of a run is a run.                                              *)
LEMMA EndOfRun ==
  ASSUME NEW s \in Seq(1..MaxWrites), NEW t \in Seq(1..MaxWrites), NEW n \in Nat,
         (s \o t) \o <<>> = [i \in 1..n |-> i]
  PROVE  /\ Len(t) \in Nat /\ Len(t) =< n
         /\ \A i \in 1..Len(t) : t[i] = n - Len(t) + i
<1> DEFINE u == s \o t
           v == [i \in 1..n |-> i]
<1>1. /\ u \in Seq(1..MaxWrites) /\ Len(u) = Len(s) + Len(t)
      /\ \A i \in 1..Len(t) : u[Len(s) + i] = t[i]
      /\ Len(s) \in Nat /\ Len(t) \in Nat
  <2>1. /\ u \in Seq(1..MaxWrites) /\ Len(u) = Len(s) + Len(t)
        /\ Len(s) \in Nat /\ Len(t) \in Nat
    BY ConcatProperties, LenProperties
  <2>2. ASSUME NEW i \in 1..Len(t)
        PROVE  u[Len(s) + i] = t[i]
    <3>1. Len(s) + i \in 1..(Len(s) + Len(t)) /\ ~(Len(s) + i =< Len(s))
          /\ (Len(s) + i) - Len(s) = i
      BY <2>1
    <3> QED
      BY <3>1, ConcatProperties
  <2> QED
    BY <2>1, <2>2
<1>2. v \in Seq(Nat) /\ Len(v) = n /\ \A i \in 1..n : v[i] = i
  OBVIOUS
<1>3. u \o <<>> = u
  BY <1>1, ConcatEmptySeq
<1>4. u = v
  BY <1>3
<1> HIDE DEF u, v
<1>5. Len(s) + Len(t) = n /\ \A i \in 1..n : u[i] = i
  BY <1>1, <1>2, <1>4
<1>6. ASSUME NEW i \in 1..Len(t)
      PROVE  t[i] = n - Len(t) + i
  <2>1. Len(s) + i \in 1..n /\ Len(s) = n - Len(t)
    BY ONLY <1>1, <1>5, i \in 1..Len(t), n \in Nat
  <2>2. u[Len(s) + i] = t[i] /\ u[Len(s) + i] = Len(s) + i
    BY <1>1, <1>5, <2>1
  <2> QED
    BY ONLY <2>1, <2>2
<1> QED
  BY <1>1, <1>5, <1>6

(* What a null or a data packet made by __doWrite is.                      *)
LEMMA SentTyped ==
  ASSUME WritingOK, NEW p \in SentPackets
  PROVE  p \in Packet
<1>1. PICK r \in requests : p \in PacketsOf(r)
  BY DEF SentPackets
<1>2. PICK i \in DOMAIN r : p = r[i]
  BY <1>1 DEF PacketsOf
<1>3. r \in Seq(Packet)
  BY DEF WritingOK
<1> QED
  BY <1>2, <1>3, LenProperties, ElementOfSeq

(* While no null is made, what is in flight is one data packet, the last.  *)
LEMMA OneInFlight ==
  ASSUME WritingOK, RetryInv, ChainInv, "inFlight" \notin nulls, packetsInFlight # <<>>
  PROVE  /\ Len(packetsInFlight) = 1 /\ packetsInFlight = <<packetsInFlight[1]>>
         /\ packetsInFlight[1] \in SentPackets
         /\ packetsInFlight[1].data # <<>> /\ packetsInFlight[1].id = lastSentId
<1> DEFINE f == packetsInFlight
<1>1. f \in requests /\ f \in Seq(Packet) /\ f[Len(f)].id = lastSentId
  BY DEF ChainInv, WritingOK
<1>2. \A i \in DOMAIN f : f[i] \in SentPackets
  BY <1>1 DEF SentPackets, PacketsOf
<1>3. DOMAIN f = 1..Len(f) /\ Len(f) \in Nat
  BY <1>1, LenProperties
<1>4. ~DataThenNull(f)
  <2>1. ASSUME Len(f) = 2
        PROVE  f[2].data # <<>>
    BY <1>2, <1>3, <2>1 DEF RetryInv
  <2> QED
    BY <2>1 DEF DataThenNull
<1>5. Len(f) = 1
  BY <1>1, <1>4 DEF ChainInv
<1>6. f[1] \in SentPackets
  BY <1>2, <1>3, <1>5
<1>7. f = <<f[1]>>
  <2>1. f[1] \in Packet
    BY <1>1, <1>3, <1>5, ElementOfSeq
  <2>2. <<f[1]>> \in Seq(Packet) /\ Len(<<f[1]>>) = 1 /\ <<f[1]>>[1] = f[1]
    BY <2>1
  <2>3. \A i \in 1..Len(f) : f[i] = <<f[1]>>[i]
    BY <1>5, <2>2
  <2> HIDE DEF f
  <2> QED
    BY <1>1, <1>5, <2>2, <2>3, SeqEqual
<1> QED
  BY <1>1, <1>5, <1>6, <1>7 DEF RetryInv

(* A data packet that __doWrite makes holds the writes after those that    *)
(* are in packets already.                                                 *)
LEMMA BufferFollows ==
  ASSUME TypeOK', WritesConserved', NEW buffer \in Seq(1..MaxWrites),
         FlightData' = buffer, writeBuffer' = <<>>
  PROVE  /\ Len(buffer) \in Nat /\ written' \in Nat
         /\ \A i \in 1..Len(buffer) : buffer[i] = written' - Len(buffer) + i
<1>1. acked' \in Seq(1..MaxWrites) /\ written' \in Nat
  BY TypeParts, BoundsAssumption DEF CometOK
<1>2. (acked' \o buffer) \o <<>> = [i \in 1..written' |-> i]
  BY DEF WritesConserved
<1> QED
  BY <1>1, <1>2, EndOfRun

(* __doWrite, when no null is in flight: the chain grows by the buffer,    *)
(* and a null is put behind it.                                            *)
LEMMA SendNowChains ==
  ASSUME TypeOK, ClientInv', RetryInv, ChainInv,
         NEW flight \in Seq(Packet), NEW buffer \in Seq(1..MaxWrites),
         NEW sendNull \in BOOLEAN, SendNow(flight, buffer, sendNull),
         flight = <<>> \/ flight = packetsInFlight,
         "inFlight" \notin nulls,
         written' - Len(buffer) = Sealed
  PROVE  ChainInv'
<1> DEFINE L == lastSentId
           d == [id |-> L + 1, data |-> buffer]
           next == Sent(flight, buffer, sendNull)
           data == DataFlight(flight, buffer)
           null == NullPacket(NullId(flight, data))
           joins == NullJoins(flight, buffer, sendNull)
<1>1. WritingOK /\ CometOK /\ WritingOK'
  BY TypeParts DEF ClientInv
<1>2. /\ L \in Nat /\ LastData = L /\ Sealed \in Int /\ written' \in Nat
      /\ Len(buffer) \in Nat
      /\ Chain(SentPackets, L, Sealed)
      /\ \A p \in SentPackets : p \in Packet /\ p.data # <<>>
  <2>1. written \in Int /\ written' \in Nat
    BY <1>1, BoundsAssumption, TypeParts DEF ClientInv, CometOK
  <2>2. Len(writeBuffer) \in Nat /\ Len(buffer) \in Nat
    BY <1>1, LenProperties DEF WritingOK
  <2>3. LastData = L /\ Chain(SentPackets, L, Sealed)
    BY DEF LastData, ChainInv
  <2> QED
    BY <1>1, <2>1, <2>2, <2>3, SentTyped DEF WritingOK, Sealed, RetryInv
<1>3. /\ packetsInFlight' = next
      /\ writeBuffer' = IF data = flight THEN buffer ELSE <<>>
      /\ lastSentId' = IF next = flight THEN L ELSE next[Len(next)].id
      /\ nulls' = nulls \cup IF joins THEN {"inFlight"} ELSE {}
      /\ requests' = IF next = <<>> THEN requests ELSE requests \cup {next}
  BY DEF SendNow, Sent
<1>4. SentPackets' = SentPackets \cup PacketsOf(next)
  <2>1. CASE next = <<>>
    BY <1>3, <2>1, PacketsOfSeq DEF SentPackets
  <2>2. CASE next # <<>>
    BY <1>3, <2>2 DEF SentPackets
  <2> QED
    BY <2>1, <2>2
<1>5. /\ d \in Packet /\ null \in Packet /\ d.id = L + 1 /\ d.data = buffer /\ null.data = <<>>
      /\ null.id = IF data = flight THEN L + 1 ELSE L + 2
  BY <1>2 DEF Packet, NullPacket, NullId
<1>6. data = flight \/ (data = <<d>> /\ flight = <<>> /\ buffer # <<>> /\ data # flight)
  BY DEF DataFlight
<1>7. next = IF joins THEN Append(data, null) ELSE data
  BY DEF Sent
<1>8. data = flight /\ joins => buffer = <<>>
  <2>1. <<d>> # <<>>
    OBVIOUS
  <2>2. flight = <<>> /\ buffer # <<>> => data = <<d>>
    BY DEF DataFlight
  <2>3. joins => flight = <<>> \/ buffer = <<>>
    BY DEF NullJoins
  <2> QED
    BY ONLY <2>1, <2>2, <2>3
<1>9. flight # <<>> =>
        /\ flight = packetsInFlight /\ flight \in requests
        /\ Len(flight) = 1 /\ flight = <<flight[1]>>
        /\ PacketsOf(flight) \subseteq SentPackets
        /\ flight[1].data # <<>> /\ flight[1].id = L
  BY <1>1, OneInFlight DEF ChainInv, RetryInv
<1>10. PacketsOf(flight) \subseteq SentPackets
  BY <1>9, PacketsOfSeq
<1>11. data \in Seq(Packet)
  BY <1>1, DataFlightType
<1> HIDE DEF L, d, next, data, null, joins
<1>12. /\ Append(data, null) # data /\ Append(data, null) # <<>>
       /\ Append(data, null)[Len(Append(data, null))] = null
       /\ Len(Append(data, null)) = Len(data) + 1 /\ Len(data) \in Nat
       /\ \A i \in 1..Len(data) : Append(data, null)[i] = data[i]
       /\ PacketsOf(Append(data, null)) = PacketsOf(data) \cup {null}
  BY <1>5, <1>11, AppendProperties, LenProperties, PacketsOfSeq
<1>13. "inFlight" \in nulls' <=> joins
  BY <1>3
<1>14. /\ LastData' = IF joins THEN lastSentId' - 1 ELSE lastSentId'
       /\ Sealed' = written' - Len(writeBuffer')
  BY <1>13 DEF LastData, Sealed
<1>15. Len(<<>>) = 0
  OBVIOUS
<1>16. ASSUME data = flight, ~joins
       PROVE  ChainInv'
  <2>1. /\ SentPackets' = SentPackets /\ lastSentId' = L
        /\ packetsInFlight' = flight /\ writeBuffer' = buffer
        /\ requests' = requests
    BY <1>3, <1>4, <1>7, <1>9, <1>10, <1>16
  <2>2. LastData' = L /\ Sealed' = Sealed
    BY <1>14, <1>16, <2>1
  <2>3. flight # <<>> => flight[Len(flight)].id = L
    BY <1>9
  <2> QED
    BY <1>2, <1>9, <2>1, <2>2, <2>3 DEF ChainInv, DataThenNull
<1>17. ASSUME data = flight, joins
       PROVE  ChainInv'
  <2>1. next = Append(data, null) /\ next # flight /\ next # <<>> /\ buffer = <<>>
        /\ null.id = L + 1
    BY <1>5, <1>7, <1>8, <1>12, <1>17
  <2>2. /\ SentPackets' = SentPackets \cup {null} /\ lastSentId' = L + 1
        /\ writeBuffer' = <<>> /\ requests' = requests \cup {next}
    BY <1>3, <1>4, <1>10, <1>12, <1>17, <2>1
  <2>3. LastData' = L /\ Sealed' = Sealed
    <3>1. writeBuffer' = buffer
      BY <2>1, <2>2
    <3>2. Sealed' = written' - Len(buffer)
      BY <1>14, <3>1
    <3>3. LastData' = (L + 1) - 1
      BY <1>14, <1>17, <2>2
    <3> QED
      BY <1>2, <3>2, <3>3
  <2>4. Chain(SentPackets', LastData', Sealed')
    BY <1>2, <1>5, <2>2, <2>3, ChainPastNull
  <2>5. \A p \in SentPackets' : p.data = <<>> => p.id = lastSentId'
    BY <1>2, <2>1, <2>2
  <2>6. packetsInFlight' \in requests' /\ packetsInFlight'[Len(packetsInFlight')].id = lastSentId'
    BY <1>3, <1>12, <2>1, <2>2
  <2>7. Len(next) = 1 \/ DataThenNull(next)
    <3>1. CASE flight = <<>>
      BY <1>12, <1>15, <1>17, <2>1, <3>1
    <3>2. CASE flight # <<>>
      <4>1. Len(next) = 2 /\ next[1] = flight[1] /\ next[2] = null
        <5>1. Len(data) = 1 /\ data[1] = flight[1]
          BY <1>9, <1>17, <3>2
        <5>2. Len(next) = 2 /\ next[Len(next)] = null
          BY <1>12, <2>1, <5>1
        <5>3. next[1] = data[1]
          BY <1>12, <2>1, <5>1
        <5> QED
          BY <5>1, <5>2, <5>3
      <4> QED
        BY <1>5, <1>9, <2>1, <3>2, <4>1 DEF DataThenNull
    <3> QED
      BY <3>1, <3>2
  <2> QED
    BY <1>2, <2>2, <2>3, <2>4, <2>5, <2>6, <2>7 DEF ChainInv, DataThenNull
<1>18. ASSUME data # flight
       PROVE  /\ Chain(SentPackets \cup {d}, L + 1, Sealed') /\ data = <<d>>
              /\ writeBuffer' = <<>> /\ PacketsOf(data) = {d} /\ d.data # <<>>
  <2>1. data = <<d>> /\ flight = <<>> /\ buffer # <<>> /\ writeBuffer' = <<>>
    BY <1>3, <1>6, <1>18
  <2>2. FlightData' = buffer
    <3>1. packetsInFlight'[1] = d /\ packetsInFlight' # <<>>
      <4>1. Len(data) = 1 /\ data[1] = d /\ data # <<>>
        BY <2>1
      <4>2. CASE joins
        BY <1>3, <1>7, <1>12, <4>1, <4>2
      <4>3. CASE ~joins
        BY <1>3, <1>7, <4>1, <4>3
      <4> QED
        BY <4>2, <4>3
    <3> QED
      BY <1>5, <3>1 DEF FlightData
  <2>3. \A i \in 1..Len(buffer) : buffer[i] = written' - Len(buffer) + i
    BY <2>1, <2>2, BufferFollows DEF ClientInv
  <2>4. Sealed' = Sealed + Len(buffer) /\ Sealed' \in Int
    BY <1>2, <1>14, <1>15, <2>1
  <2>5. \A i \in 1..Len(buffer) : buffer[i] = Sealed + i
    BY <2>3
  <2>6. buffer \in Seq(Int)
    <3>1. 1..MaxWrites \subseteq Int
      OBVIOUS
    <3> QED
      BY <3>1, SeqMonotonic
  <2>7. Chain(SentPackets \cup {d}, L + 1, Sealed')
    <3> DEFINE now == Sealed'
    <3>1. /\ d.id = L + 1 /\ d.data \in Seq(Int) /\ d.data # <<>>
          /\ now \in Int /\ now = Sealed + Len(d.data)
          /\ \A i \in 1..Len(d.data) : d.data[i] = Sealed + i
      BY <1>5, <2>1, <2>4, <2>5, <2>6
    <3> HIDE DEF now
    <3>2. Chain(SentPackets \cup {d}, L + 1, now)
      BY <1>2, <3>1, ChainGrows
    <3> QED
      BY <3>2 DEF now
  <2> QED
    BY <1>5, <2>1, <2>7, PacketsOfSeq
<1>19. ASSUME data # flight, ~joins
       PROVE  ChainInv'
  <2>1. /\ next = <<d>> /\ next # flight /\ next # <<>>
        /\ Len(next) = 1 /\ next[1] = d
    <3>1. next = <<d>> /\ next # flight
      BY <1>7, <1>18, <1>19
    <3>2. <<d>> # <<>> /\ Len(<<d>>) = 1 /\ <<d>>[1] = d
      OBVIOUS
    <3> QED
      BY ONLY <3>1, <3>2
  <2>2. /\ SentPackets' = SentPackets \cup {d} /\ lastSentId' = L + 1
        /\ requests' = requests \cup {next}
    BY <1>3, <1>4, <1>5, <1>7, <1>18, <1>19, <2>1
  <2>3. LastData' = L + 1
    BY <1>14, <1>19, <2>2
  <2>4. \A p \in SentPackets' : p.data # <<>>
    BY <1>2, <1>18, <1>19, <2>2
  <2>5. packetsInFlight' \in requests' /\ packetsInFlight'[Len(packetsInFlight')].id = lastSentId'
    BY <1>3, <1>5, <2>1, <2>2
  <2> QED
    BY <1>2, <1>18, <1>19, <2>1, <2>2, <2>3, <2>4, <2>5 DEF ChainInv, DataThenNull
<1>20. ASSUME data # flight, joins
       PROVE  ChainInv'
  <2>1. next = Append(data, null) /\ next # <<>> /\ next # flight /\ null.id = L + 2
        /\ Len(next) = 2 /\ next[1] = d /\ next[2] = null
    <3>1. Len(data) = 1 /\ data[1] = d
      BY <1>18, <1>20
    <3>2. flight = <<>>
      BY <1>6, <1>20
    <3> QED
      BY <1>5, <1>7, <1>12, <1>20, <3>1, <3>2
  <2>2. /\ SentPackets' = (SentPackets \cup {d}) \cup {null} /\ lastSentId' = L + 2
        /\ requests' = requests \cup {next}
    BY <1>3, <1>4, <1>12, <1>18, <1>20, <2>1
  <2>3. LastData' = L + 1
    BY <1>2, <1>14, <1>20, <2>2
  <2>4. Chain(SentPackets', LastData', Sealed')
    BY <1>5, <1>18, <1>20, <2>2, <2>3, ChainPastNull
  <2>5. \A p \in SentPackets' : p.data = <<>> => p.id = lastSentId'
    BY <1>2, <1>18, <1>20, <2>1, <2>2
  <2>6. packetsInFlight' \in requests' /\ packetsInFlight'[Len(packetsInFlight')].id = lastSentId'
    BY <1>3, <2>1, <2>2
  <2>7. DataThenNull(next)
    BY <1>2, <1>5, <1>18, <1>20, <2>1 DEF DataThenNull
  <2> QED
    BY <1>2, <2>2, <2>3, <2>4, <2>5, <2>6, <2>7 DEF ChainInv, DataThenNull
<1> QED
  BY <1>16, <1>17, <1>19, <1>20

LEMMA ChainUnchanged ==
  ASSUME ChainInv, UNCHANGED <<lastSentId, requests>>,
         packetsInFlight' \in {packetsInFlight, <<>>},
         "inFlight" \in nulls' <=> "inFlight" \in nulls,
         Sealed' = Sealed
  PROVE  ChainInv'
<1>1. SentPackets' = SentPackets /\ LastData' = LastData
  BY DEF SentPackets, LastData
<1> QED
  BY <1>1 DEF ChainInv, DataThenNull

LEMMA SealedUnchanged == UNCHANGED <<writeBuffer, written>> => Sealed' = Sealed
  BY DEF Sealed

(***************************************************************************)
(* What a step may do to the packets: leave them and at most let the XHR   *)
(* go idle, drop what has arrived, or run __doWrite, which then finds no   *)
(* null in flight.                                                         *)
(***************************************************************************)
Keeps ==
  /\ UNCHANGED <<packetsInFlight, lastSentId, requests>>
  /\ "inFlight" \in nulls' <=> "inFlight" \in nulls
  /\ Sealed' = Sealed
  /\ sendXhr' = sendXhr \/ sendXhr'.kind # "send"

Arrived ==
  /\ SendAnswered /\ "inFlight" \notin nulls
  /\ acked' = acked \o FlightData

Drops ==
  /\ Arrived /\ packetsInFlight' = <<>> /\ sendXhr' = Idle
  /\ UNCHANGED <<lastSentId, requests, nulls>>
  /\ Sealed' = Sealed

Makes(flight, buffer, sendNull) ==
  /\ SendNow(flight, buffer, sendNull) /\ "inFlight" \notin nulls
  /\ written' - Len(buffer) = Sealed
  /\ \/ flight = packetsInFlight
     \/ flight = <<>> /\ Arrived /\ (buffer # <<>> \/ sendNull)

MakesSome ==
  \E flight \in Seq(Packet), buffer \in Seq(1..MaxWrites), sendNull \in BOOLEAN :
    Makes(flight, buffer, sendNull)

LEMMA DoWriteMoves ==
  ASSUME TypeOK, RetryInv,
         NEW buffer \in Seq(1..MaxWrites), NEW sendNull \in BOOLEAN,
         DoWrite(buffer, sendNull), written' - Len(buffer) = Sealed
  PROVE  Keeps \/ MakesSome
<1>1. CASE packetsInFlight # <<>>
  <2>1. /\ writeBuffer' = buffer /\ UNCHANGED <<packetsInFlight, lastSentId, requests, sendXhr>>
        /\ "inFlight" \in nulls' <=> "inFlight" \in nulls
    BY <1>1 DEF DoWrite
  <2>2. Sealed' = Sealed
    BY <2>1 DEF Sealed
  <2> QED
    BY <2>1, <2>2 DEF Keeps
<1>2. CASE packetsInFlight = <<>>
  <2>1. SendNow(packetsInFlight, buffer, sendNull) /\ packetsInFlight \in Seq(Packet)
    BY <1>2, TypeParts DEF DoWrite, WritingOK
  <2>2. "inFlight" \notin nulls
    BY <1>2 DEF RetryInv
  <2>3. Makes(packetsInFlight, buffer, sendNull)
    BY <2>1, <2>2 DEF Makes
  <2> QED
    BY <2>1, <2>3 DEF MakesSome
<1> QED
  BY <1>1, <1>2

LEMMA WriteBufferSealed ==
  ASSUME TypeOK, written' = written
  PROVE  writeBuffer \in Seq(1..MaxWrites) /\ written' - Len(writeBuffer) = Sealed
  BY TypeParts DEF WritingOK, Sealed

LEMMA WritingSteps ==
  ASSUME ClientInv, RetryInv, Next
  PROVE  Keeps \/ Drops \/ MakesSome
<1>0. TypeOK /\ WritingOK /\ CometOK
  BY TypeParts DEF ClientInv
<1>a. ASSUME UNCHANGED writing, written' = written PROVE Keeps \/ MakesSome
  BY <1>a, SealedUnchanged DEF writing, Keeps
<1>b. ASSUME DoWrite(writeBuffer, TRUE), written' = written PROVE Keeps \/ MakesSome
  BY <1>0, <1>b, DoWriteMoves, WriteBufferSealed
<1>c. ASSUME NEW ts, CloseSession(ts), written' = written PROVE Keeps \/ MakesSome
  <2>1. UNCHANGED writing \/ DoWrite(writeBuffer, TRUE)
    BY <1>c DEF CloseSession
  <2> QED
    BY <1>a, <1>b, <1>c, <2>1
<1>1. CASE Write
  <2> DEFINE w == written + 1
             buffer == Append(writeBuffer, w)
  <2>1. w \in 1..MaxWrites /\ writeBuffer \in Seq(1..MaxWrites) /\ written \in Nat
    <3>1. written \in Nat /\ MaxWrites \in Nat /\ written < MaxWrites
      BY <1>0, <1>1, BoundsAssumption DEF Write, CometOK
    <3> QED
      BY <1>0, <3>1 DEF WritingOK
  <2>2. DoWrite(buffer, FALSE) /\ written' = w
    BY <1>1 DEF Write
  <2> HIDE DEF w
  <2>3. buffer \in Seq(1..MaxWrites) /\ Len(buffer) = Len(writeBuffer) + 1
    BY <2>1, AppendProperties
  <2>4. Len(writeBuffer) \in Nat
    BY <2>1, LenProperties
  <2>5. written' - Len(buffer) = Sealed
    BY <2>1, <2>2, <2>3, <2>4 DEF w, Sealed
  <2> HIDE DEF buffer
  <2> QED
    BY <1>0, <2>2, <2>3, <2>5, DoWriteMoves
<1>2. CASE Close \/ MissingPacket \/ TimeoutExpires
  BY <1>2, <1>c DEF Close, MissingPacket, TimeoutExpires
<1>3. CASE Connect \/ HandshakeTimeout \/ HandshakeRetry \/ HandshakeSuccess
            \/ OnConnectReturns \/ CometTimer \/ CometEmpty \/ WriteFailure
            \/ (\E batch \in Responses : CometSuccess(batch))
            \/ SkipPacket \/ DeliverPacket \/ OnReadReturns \/ UnreadablePacket
            \/ PacketsDone
  <2>1. /\ UNCHANGED <<packetsInFlight, lastSentId, requests, nulls, writeBuffer, written>>
        /\ sendXhr' = sendXhr \/ sendXhr'.kind # "send"
    BY <1>3 DEF Connect, HandshakeTimeout, HandshakeRetry, HandshakeSuccess,
         HandshakeAnswered, Idle, OnConnectReturns, CometTimer, CometEmpty, CometSuccess, SkipPacket,
         UnreadablePacket, WriteFailure,
         DeliverPacket, OnReadReturns, PacketsDone, writing
  <2> QED
    BY <2>1, SealedUnchanged DEF Keeps
<1>4. ASSUME NEW notFound \in BOOLEAN, HandshakeFailure(notFound) PROVE Keeps \/ MakesSome
  <2>1. /\ UNCHANGED <<packetsInFlight, lastSentId, requests, nulls, writeBuffer, written>>
        /\ sendXhr'.kind # "send"
    BY <1>4 DEF HandshakeFailure, HandshakeAnswered, Idle
  <2> QED
    BY <2>1, SealedUnchanged DEF Keeps
<1>5. CASE WriteSuccess
  <2> DEFINE listens == readyState \in {"CONNECTED", "DISCONNECTING"} /\ "inFlight" \notin nulls
  <2>0. written' = written /\ SendAnswered
    BY <1>5 DEF WriteSuccess
  <2>1. CASE listens
    <3>1. WriteSucceeds
      BY <1>5, <2>1 DEF WriteSuccess
    <3>a. Arrived
      BY <2>0, <2>1, <3>1
         DEF Arrived, WriteSucceeds, FlightData, ClientInv, AnswerDue, SendAnswered
    <3>2. CASE writeBuffer # <<>> \/ "inBuffer" \in nulls
      <4> DEFINE waiting == "inBuffer" \in nulls
      <4>1. SendNow(<<>>, writeBuffer, waiting) /\ waiting \in BOOLEAN
            /\ (writeBuffer # <<>> \/ waiting)
        BY <3>1, <3>2 DEF WriteSucceeds
      <4> HIDE DEF waiting
      <4>2. <<>> \in Seq(Packet) /\ writeBuffer \in Seq(1..MaxWrites)
        BY <1>0, EmptySeq DEF WritingOK
      <4>3. Makes(<<>>, writeBuffer, waiting)
        BY <1>0, <2>0, <2>1, <3>a, <4>1, WriteBufferSealed DEF Makes
      <4> QED
        BY <4>1, <4>2, <4>3 DEF MakesSome
    <3>3. CASE ~(writeBuffer # <<>> \/ "inBuffer" \in nulls)
      <4>1. packetsInFlight' = <<>> /\ sendXhr' = Idle
            /\ UNCHANGED <<lastSentId, requests, nulls, writeBuffer>>
        BY <3>1, <3>3 DEF WriteSucceeds
      <4> QED
        BY <2>0, <3>a, <4>1, SealedUnchanged DEF Drops
    <3> QED
      BY <3>2, <3>3
  <2>2. CASE ~listens
    <3>1. UNCHANGED <<packetsInFlight, lastSentId, requests, writeBuffer>>
          /\ sendXhr'.kind # "send"
          /\ (nulls' = nulls \/ nulls' = nulls \cup {"sent"})
      BY <1>5, <2>2 DEF WriteSuccess, Idle
    <3> QED
      BY <2>0, <3>1, SealedUnchanged DEF Keeps
  <2> QED
    BY <2>1, <2>2
<1>6. CASE WriteTimer
  <2> DEFINE waiting == "inBuffer" \in nulls
  <2>1. SendNow(packetsInFlight, writeBuffer, waiting) /\ waiting \in BOOLEAN
        /\ "write" \in timers /\ written' = written
    BY <1>6 DEF WriteTimer
  <2> HIDE DEF waiting
  <2>2. packetsInFlight \in Seq(Packet) /\ writeBuffer \in Seq(1..MaxWrites)
    BY <1>0 DEF WritingOK
  <2>3. "inFlight" \notin nulls
    BY <2>1 DEF RetryInv
  <2>4. Makes(packetsInFlight, writeBuffer, waiting)
    BY <1>0, <2>1, <2>3, WriteBufferSealed DEF Makes
  <2> QED
    BY <2>1, <2>2, <2>4 DEF MakesSome
<1>7. ASSUME NEW sessionNotFound \in BOOLEAN, CometFailure(sessionNotFound)
      PROVE Keeps \/ MakesSome
  <2>1. written' = written
    BY <1>7 DEF CometFailure
  <2>2. CloseSession(timers) \/ UNCHANGED writing
    BY <1>7 DEF CometFailure
  <2> QED
    BY <1>a, <1>c, <2>1, <2>2
<1>8. CASE ReceivedNullPacket \/ CorruptPacket \/ PacketAhead
  <2>1. written' = written /\ (UNCHANGED writing \/ DoWrite(writeBuffer, TRUE))
    BY <1>8 DEF ReceivedNullPacket, AnswerNull, CorruptPacket, PacketAhead, ProtocolError
  <2> QED
    BY <1>a, <1>b, <2>1
<1> QED
  BY <1>1, <1>2, <1>3, <1>4, <1>5, <1>6, <1>7, <1>8
     DEF Next, Application, Network, Timers, Continue

(* Whatever travels as a /send is what is in flight.                       *)
FlightCarried == sendXhr.kind = "send" => sendXhr.packets = packetsInFlight

(* The data packets that must have arrived: all but the one in flight.     *)
Owed == IF FlightData = <<>> THEN LastData ELSE LastData - 1

LEMMA KeepsAll ==
  ASSUME Keeps
  PROVE  /\ RetryInv => SentPackets' = SentPackets
         /\ ChainInv => ChainInv'
         /\ FlightCarried => FlightCarried'
         /\ requests' = requests /\ Owed' = Owed
<1>1. ChainInv => ChainInv'
  BY ChainUnchanged DEF Keeps
<1>2. Owed' = Owed
  BY DEF Keeps, Owed, LastData, FlightData
<1> QED
  BY <1>1, <1>2 DEF Keeps, FlightCarried, SentPackets

LEMMA DropsAll ==
  ASSUME Drops, RetryInv, ChainInv, ClientInv
  PROVE  /\ ChainInv' /\ FlightCarried'
         /\ requests' = requests /\ Owed' = LastData
<1>1. ChainInv'
  BY ChainUnchanged DEF Drops
<1>2. Owed' = LastData
  BY DEF Drops, Owed, LastData, FlightData
<1> QED
  BY <1>1, <1>2 DEF Drops, FlightCarried, Idle

(* The last data packet after __doWrite is the one it made, if it did.     *)
LEMMA LastDataMoves ==
  ASSUME WritingOK, NEW flight \in Seq(Packet), NEW buffer \in Seq(1..MaxWrites),
         NEW sendNull \in BOOLEAN, SendNow(flight, buffer, sendNull),
         "inFlight" \notin nulls
  PROVE  LastData' = IF DataFlight(flight, buffer) = flight
                       THEN lastSentId ELSE lastSentId + 1
<1> DEFINE L == lastSentId
           d == [id |-> L + 1, data |-> buffer]
           next == Sent(flight, buffer, sendNull)
           data == DataFlight(flight, buffer)
           null == NullPacket(NullId(flight, data))
           joins == NullJoins(flight, buffer, sendNull)
<1>1. /\ lastSentId' = IF next = flight THEN L ELSE next[Len(next)].id
      /\ nulls' = nulls \cup IF joins THEN {"inFlight"} ELSE {}
  BY DEF SendNow, Sent
<1>2. next = IF joins THEN Append(data, null) ELSE data
  BY DEF Sent
<1>3. data = flight \/ data = <<d>>
  BY DEF DataFlight
<1>4. null.id = (IF data = flight THEN L + 1 ELSE L + 2) /\ null \in Packet
      /\ d.id = L + 1 /\ L \in Nat
  BY DEF NullPacket, NullId, WritingOK, Packet
<1>5. data \in Seq(Packet)
  BY DataFlightType
<1> HIDE DEF L, d, next, data, null, joins
<1>6. /\ Append(data, null)[Len(Append(data, null))] = null
      /\ Len(Append(data, null)) = Len(data) + 1 /\ Len(data) \in Nat
  BY <1>4, <1>5, AppendProperties, LenProperties
<1>7. joins => next # flight
  <2>1. ASSUME joins, next = flight
        PROVE  FALSE
    <3>1. Len(flight) = Len(data) + 1
      BY <1>2, <1>6, <2>1
    <3>2. data = <<d>> \/ data = flight
      BY <1>3
    <3>3. Len(<<d>>) = 1
      OBVIOUS
    <3>4. flight = <<>> \/ data = flight
      BY DEF data, DataFlight
    <3>5. Len(<<>>) = 0
      OBVIOUS
    <3> QED
      BY <1>6, <3>1, <3>4, <3>5
  <2> QED
    BY <2>1
<1>8. CASE joins
  <2>1. lastSentId' = null.id /\ "inFlight" \in nulls'
    BY <1>1, <1>2, <1>6, <1>7, <1>8
  <2>2. LastData' = null.id - 1
    BY <2>1 DEF LastData
  <2> QED
    BY <1>4, <2>2 DEF L, data
<1>9. CASE ~joins
  <2>1. next = data /\ "inFlight" \notin nulls'
    BY <1>1, <1>2, <1>9
  <2>2. LastData' = lastSentId'
    BY <2>1 DEF LastData
  <2>3. CASE data = flight
    BY <1>1, <2>1, <2>2, <2>3 DEF L, data
  <2>4. CASE data # flight
    <3>1. data[Len(data)] = d
      <4>1. data = <<d>>
        BY <1>3, <2>4
      <4>2. Len(<<d>>) = 1 /\ <<d>>[1] = d
        OBVIOUS
      <4> QED
        BY ONLY <4>1, <4>2
    <3> QED
      BY <1>1, <1>4, <2>1, <2>2, <2>4, <3>1 DEF L, data
  <2> QED
    BY <2>3, <2>4
<1> QED
  BY <1>8, <1>9

LEMMA MakesAll ==
  ASSUME NEW flight \in Seq(Packet), NEW buffer \in Seq(1..MaxWrites),
         NEW sendNull \in BOOLEAN, Makes(flight, buffer, sendNull),
         ClientInv, RetryInv, ChainInv, ClientInv', FlightCarried
  PROVE  /\ ChainInv' /\ FlightCarried'
         /\ requests \subseteq requests'
         /\ Owed' = Owed \/ (Arrived /\ Owed' = LastData)
<1>1. SendNow(flight, buffer, sendNull) /\ "inFlight" \notin nulls
      /\ (flight = packetsInFlight \/ (flight = <<>> /\ Arrived))
  BY DEF Makes
<1>0. TypeOK /\ WritingOK
  BY TypeParts DEF ClientInv
<1>2. ChainInv'
  BY <1>0, <1>1, SendNowChains DEF Makes
<1> DEFINE next == Sent(flight, buffer, sendNull)
           data == DataFlight(flight, buffer)
<1>3. /\ packetsInFlight' = next
      /\ requests' = IF next = <<>> THEN requests ELSE requests \cup {next}
      /\ next # <<>> => sendXhr'.packets = next
      /\ next = <<>> => sendXhr' = sendXhr
  <2>1. /\ packetsInFlight' = next
        /\ IF next = <<>>
             THEN UNCHANGED <<sendXhr, requests>>
             ELSE /\ sendXhr' = [kind |-> "send", key |-> hasKey, ack |-> AckId,
                                 packets |-> next]
                  /\ requests' = requests \cup {next}
    BY <1>1 DEF SendNow, Sent
  <2> HIDE DEF next
  <2> QED
    BY <2>1
<1>4. FlightCarried'
  <2>1. next = <<>> => flight = <<>> /\ buffer = <<>> /\ ~sendNull
    BY <1>0, SentNothing
  <2>2. next = <<>> => flight = packetsInFlight
    BY <2>1 DEF Makes
  <2> QED
    BY <1>3, <2>1, <2>2 DEF FlightCarried
<1>5. requests \subseteq requests'
  BY <1>3
<1>6. LastData = lastSentId /\ lastSentId \in Nat
  BY <1>0, <1>1 DEF LastData, WritingOK
<1>7. LastData' = IF data = flight THEN lastSentId ELSE lastSentId + 1
  BY <1>0, <1>1, LastDataMoves
<1>8. FlightData' \o writeBuffer' = Flow(flight) \o buffer
      /\ FlightData' = Flow(data)
  <2>1. /\ data # <<>> => next # <<>> /\ next[1] = data[1]
        /\ (data = <<>> /\ next # <<>>) => next[1].data = <<>>
        /\ next = <<>> => data = <<>>
    BY <1>0, SentType
  <2> HIDE DEF next, data
  <2>2. Flow(next) = Flow(data)
    BY <2>1 DEF Flow
  <2> QED
    BY <1>0, <1>1, <1>3, <2>2, SendNowKeeps, FlightDataFlow
<1>9. CASE data # flight
  <2>1. flight = <<>> /\ buffer # <<>> /\ Flow(data) = buffer
    BY <1>9 DEF DataFlight, Flow
  <2>2. Owed' = lastSentId
    BY <1>6, <1>7, <1>8, <1>9, <2>1 DEF Owed
  <2>3. packetsInFlight = <<>> => Owed = lastSentId
    BY <1>6 DEF Owed, FlightData
  <2> QED
    BY <1>1, <1>2, <1>4, <1>5, <1>6, <2>1, <2>2, <2>3
<1>10. CASE data = flight
  <2>1. LastData' = LastData
    BY <1>6, <1>7, <1>10
  <2>2. CASE flight = packetsInFlight
    <3>1. FlightData' = FlightData
      BY <1>8, <1>10, <2>2, FlightDataFlow
    <3> QED
      BY <1>2, <1>4, <1>5, <2>1, <3>1 DEF Owed
  <2>3. CASE flight = <<>> /\ Arrived
    <3>1. FlightData' = <<>>
      BY <1>8, <1>10, <2>3 DEF Flow
    <3> QED
      BY <1>2, <1>4, <1>5, <2>1, <2>3, <3>1 DEF Owed
  <2> QED
    BY <1>1, <2>2, <2>3
<1> QED
  BY <1>9, <1>10

LEMMA ChainNext ==
  ASSUME ClientInv, RetryInv, ChainInv, FlightCarried, ClientInv', Next
  PROVE  /\ ChainInv' /\ FlightCarried'
         /\ requests \subseteq requests'
         /\ Owed' = Owed \/ (Arrived /\ Owed' = LastData)
<1>1. CASE Keeps
  BY <1>1, KeepsAll
<1>2. CASE Drops
  <2>1. Arrived
    BY <1>2 DEF Drops
  <2> QED
    BY <1>2, <2>1, DropsAll
<1>3. CASE MakesSome
  <2>1. PICK flight \in Seq(Packet), buffer \in Seq(1..MaxWrites),
             sendNull \in BOOLEAN : Makes(flight, buffer, sendNull)
    BY <1>3 DEF MakesSome
  <2> QED
    BY <2>1, MakesAll
<1> QED
  BY <1>1, <1>2, <1>3, WritingSteps

(* What has arrived was in flight, and is acknowledged by no other step.   *)
LEMMA ArrivedAcks ==
  ASSUME ClientInv, RetryInv, ChainInv, Arrived
  PROVE  /\ acked' # acked
         /\ packetsInFlight[1] \in PacketsOf(packetsInFlight)
         /\ packetsInFlight[1].data # <<>> /\ packetsInFlight[1].id = LastData
<1>1. WritingOK /\ CometOK /\ packetsInFlight # <<>>
  BY TypeParts DEF ClientInv, AnswerDue, Arrived, SendAnswered
<1>2. /\ packetsInFlight[1].data # <<>> /\ packetsInFlight[1].id = LastData
      /\ Len(packetsInFlight) = 1
  BY <1>1, OneInFlight DEF Arrived, LastData
<1>3. packetsInFlight[1] \in PacketsOf(packetsInFlight)
  BY <1>1, <1>2, LenProperties DEF PacketsOf, WritingOK
<1>4. acked' # acked
  <2>1. /\ acked \in Seq(1..MaxWrites) /\ FlightData \in Seq(1..MaxWrites)
        /\ FlightData # <<>> /\ acked' = acked \o FlightData
    BY <1>1, <1>2, FlowType, FlightDataFlow
       DEF CometOK, WritingOK, Arrived, FlightData
  <2>2. Len(acked \o FlightData) = Len(acked) + Len(FlightData)
        /\ Len(acked) \in Nat /\ Len(FlightData) \in Nat /\ Len(FlightData) # 0
    BY <2>1, ConcatProperties, LenProperties, EmptySeq
  <2> QED
    BY <2>1, <2>2
<1> QED
  BY <1>2, <1>3, <1>4

LEMMA ChainInit == Init => ChainInv /\ FlightCarried
<1> SUFFICES ASSUME Init PROVE ChainInv /\ FlightCarried
  OBVIOUS
<1>1. SentPackets = {} /\ LastData = 0 /\ requests = {} /\ packetsInFlight = <<>>
  BY DEF Init, SentPackets, LastData
<1>2. Sealed = 0
  <2>1. Len(<<>>) = 0
    OBVIOUS
  <2>2. written = 0 /\ writeBuffer = <<>>
    BY DEF Init
  <2>3. 0 - 0 = 0
    OBVIOUS
  <2> QED
    BY ONLY <2>1, <2>2, <2>3 DEF Sealed
<1>3. Chain(SentPackets, LastData, Sealed)
  <2>1. 1..0 = {}
    OBVIOUS
  <2> QED
    BY <1>1, <1>2, <2>1 DEF Chain
<1>4. FlightCarried
  BY DEF Init, Idle, FlightCarried
<1> QED
  BY <1>1, <1>3, <1>4 DEF ChainInv

LEMMA ChainStep ==
  ClientInv /\ RetryInv /\ ChainInv /\ FlightCarried /\ [Next]_vars
    => ChainInv' /\ FlightCarried'
<1> SUFFICES ASSUME ClientInv, RetryInv, ChainInv, FlightCarried, [Next]_vars
             PROVE  ChainInv' /\ FlightCarried'
  OBVIOUS
<1>1. CASE Next
  BY <1>1, ClientNext, ChainNext
<1>2. CASE UNCHANGED vars
  BY <1>2, ChainUnchanged, SealedUnchanged DEF vars, writing, FlightCarried
<1> QED
  BY <1>1, <1>2

(* The data packets of a session are numbered without a gap and together   *)
(* carry its writes, each once and in order, up to those that wait in the  *)
(* buffer; the null has the last number (__doWrite, _writeSuccess).        *)
THEOREM PacketsChain == Spec => [](ChainInv /\ FlightCarried)
<1>1. Spec => []RetryInv
  BY RetryInit, RetryStep, ClientInvariant, LoopInvariant, PTL DEF Spec
<1> QED
  BY <1>1, ChainInit, ChainStep, ClientInvariant, PTL DEF Spec
=============================================================================
