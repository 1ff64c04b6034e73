---------------------------- MODULE CspLinkProofs ----------------------------
(* CspLink for any number of writes, packets, comets and faults: from what *)
(* is proved of the client and of the Ruby server by themselves follows    *)
(* what the client reads of what the server sends, and what the server may *)
(* forget.                                                                 *)
EXTENDS CspLink, SequenceTheorems, FiniteSetTheorems, TLAPS

(* The halves again, with what is proved of each.                          *)
C == INSTANCE CspClientProofs
S == INSTANCE CspServerSafety

LEMMA NumbersAreNat ==
  MaxWrites \in Nat /\ MaxComets \in Nat /\ MaxPackets \in Nat /\ MaxFaults \in Nat
BY LinkBounds

LEMMA NullIsNoRun == Null \notin Data
<1> SUFFICES ASSUME NEW m \in 1..MaxWrites, NEW k \in 0..m - 1,
                    <<>> = [i \in 1..m - k |-> k + i]
             PROVE  FALSE
  BY DEF Null, Data
<1>1. 1 \in 1..m - k
  BY NumbersAreNat
<1>2. 1 \in DOMAIN <<>>
  BY <1>1
<1> QED
  BY <1>2

LEMMA Bounds ==
  /\ MaxWrites \in Nat /\ MaxEventId \in Nat /\ MaxBatch \in Nat
  /\ Arrays \subseteq Data /\ Null \notin Data
  /\ App \in {"echo", "chat"}
  /\ Requests \subseteq [is : BOOLEAN, du : {"unset", "zero", "positive"}]
  /\ MaxComets \in Nat /\ MaxPackets \in Nat
BY LinkBounds, NumbersAreNat, NullIsNoRun
   DEF MaxEventId, MaxBatch, App, Requests, Plain

(* The actions that CspLink composes are those the proofs are about.       *)
LEMMA SameClient ==
  /\ Client!Init <=> C!Init
  /\ Client!Application <=> C!Application
  /\ Client!Timers <=> C!Timers
  /\ Client!Continue <=> C!Continue
  /\ Client!HandshakeSuccess <=> C!HandshakeSuccess
  /\ Client!WriteSuccess <=> C!WriteSuccess
  /\ Client!WriteFailure <=> C!WriteFailure
  /\ Client!CometEmpty <=> C!CometEmpty
  /\ \A notFound : Client!HandshakeFailure(notFound) <=> C!HandshakeFailure(notFound)
  /\ \A notFound : Client!CometFailure(notFound) <=> C!CometFailure(notFound)
  /\ \A batch : Client!CometSuccess(batch) <=> C!CometSuccess(batch)
<1> USE DEF
      C!Init, Client!Init, C!NoEvent, Client!NoEvent, C!Idle,
      Client!Idle, C!Application, Client!Application, C!Connect,
      Client!Connect, C!Free, Client!Free, C!Write, Client!Write,
      C!DoWrite, Client!DoWrite, C!SendNow, Client!SendNow,
      C!NullPacket, Client!NullPacket, C!AckId, Client!AckId,
      C!DataFlight, Client!DataFlight, C!NullId, Client!NullId,
      C!NullJoins, Client!NullJoins, C!ApplicationRuns,
      Client!ApplicationRuns, C!Close, Client!Close, C!CloseSession,
      Client!CloseSession, C!writing, Client!writing, C!Timers,
      Client!Timers, C!HandshakeTimeout, Client!HandshakeTimeout,
      C!HandshakeRetry, Client!HandshakeRetry, C!WriteTimer,
      Client!WriteTimer, C!CometTimer, Client!CometTimer,
      C!DoConnectComet, Client!DoConnectComet, C!TimeoutExpires,
      Client!TimeoutExpires, C!Continue, Client!Continue,
      C!OnConnectReturns, Client!OnConnectReturns, C!SkipPacket,
      Client!SkipPacket, C!PacketKinds, Client!PacketKinds, C!Seen,
      Client!Seen, C!AtPacket, Client!AtPacket, C!DeliverPacket,
      Client!DeliverPacket, C!Expected, Client!Expected, C!Ahead,
      Client!Ahead, C!OnReadReturns, Client!OnReadReturns,
      C!ReceivedNullPacket, Client!ReceivedNullPacket, C!AnswerNull,
      Client!AnswerNull, C!HandlerStops, Client!HandlerStops,
      C!CorruptPacket, Client!CorruptPacket, C!ProtocolError,
      Client!ProtocolError, C!UnreadablePacket, Client!UnreadablePacket,
      C!PacketAhead, Client!PacketAhead, C!MissingPacket,
      Client!MissingPacket, C!PacketsDone, Client!PacketsDone,
      C!HandshakeSuccess, Client!HandshakeSuccess, C!HandshakeAnswered,
      Client!HandshakeAnswered, C!WriteSuccess, Client!WriteSuccess,
      C!SendAnswered, Client!SendAnswered, C!WriteSucceeds,
      Client!WriteSucceeds, C!WithTimeoutReset, Client!WithTimeoutReset,
      C!WriteFailure, Client!WriteFailure, C!HandshakeFailure,
      Client!HandshakeFailure, C!RetryHandshake, Client!RetryHandshake,
      C!CometFailure, Client!CometFailure, C!CometAnswered,
      Client!CometAnswered, C!CometSuccess, Client!CometSuccess,
      C!Listening, Client!Listening, C!CometEmpty, Client!CometEmpty
<1>1. Client!Init <=> C!Init
  OBVIOUS
<1>2. Client!Application <=> C!Application
  OBVIOUS
<1>3. Client!Timers <=> C!Timers
  OBVIOUS
<1>4. Client!Continue <=> C!Continue
  OBVIOUS
<1>5. Client!HandshakeSuccess <=> C!HandshakeSuccess
  OBVIOUS
<1>6. Client!WriteSuccess <=> C!WriteSuccess
  OBVIOUS
<1>7. Client!WriteFailure <=> C!WriteFailure
  OBVIOUS
<1>8. ASSUME NEW notFound
      PROVE  Client!HandshakeFailure(notFound) <=> C!HandshakeFailure(notFound)
  OBVIOUS
<1>9. ASSUME NEW notFound
      PROVE  Client!CometFailure(notFound) <=> C!CometFailure(notFound)
  OBVIOUS
<1>10. ASSUME NEW batch
       PROVE  Client!CometSuccess(batch) <=> C!CometSuccess(batch)
  OBVIOUS
<1>11. Client!CometEmpty <=> C!CometEmpty
  OBVIOUS
<1> QED
  BY <1>1, <1>2, <1>3, <1>4, <1>5, <1>6, <1>7, <1>8, <1>9, <1>10, <1>11

LEMMA SameCardinality ==
  ASSUME NEW T
  PROVE  /\ Server!Cardinality(T) = Cardinality(T)
         /\ S!Cardinality(T) = Cardinality(T)
BY DEF Server!Cardinality, S!Cardinality, Cardinality

LEMMA SameServer ==
  /\ Server!Init <=> S!Init
  /\ Server!Tick <=> S!Tick
  /\ \A t : Server!TimerFires(t) <=> S!TimerFires(t)
  /\ \A b : Server!ConnectionLost(b) <=> S!ConnectionLost(b)
  /\ \A r : Server!Handshake(r) <=> S!Handshake(r)
  /\ \A r, ack, b : Server!CspSend(r, ack, b) <=> S!CspSend(r, ack, b)
  /\ \A r, ack : Server!Comet(r, ack) <=> S!Comet(r, ack)
<1> USE DEF
      S!Init, Server!Init, S!Tick, Server!Tick, S!Respond, Server!Respond,
      S!RunJob, Server!RunJob, S!WithStatus, Server!WithStatus,
      S!PostInit, Server!PostInit, S!Called, Server!Called,
      S!ReceiveData, Server!ReceiveData, S!JobSends, Server!JobSends,
      S!Reaches, Server!Reaches, S!SendData, Server!SendData,
      S!SendRaises, Server!SendRaises, S!IsOpen, Server!IsOpen,
      S!Serializable, Server!Serializable, S!NewBatch, Server!NewBatch,
      S!LastPacketId, Server!LastPacketId, S!Flush, Server!Flush,
      S!Succeed, Server!Succeed, S!Unfiltered, Server!Unfiltered,
      S!Broadcast, Server!Broadcast, S!Unbind, Server!Unbind,
      S!TimerFires, Server!TimerFires, S!HandlerRuns, Server!HandlerRuns,
      S!AsyncBody, Server!AsyncBody, S!ConnectionLost,
      Server!ConnectionLost, S!Dropped, Server!Dropped, S!Handshake,
      Server!Handshake, S!Merged, Server!Merged, S!Job, Server!Job,
      S!CspSend, Server!CspSend, S!Filtered, Server!Filtered,
      S!LeftUnacked, Server!LeftUnacked, S!NoAck, Server!NoAck,
      S!ClosedWith, Server!ClosedWith, S!SucceedIfOpen,
      Server!SucceedIfOpen, S!RequestArrives, Server!RequestArrives,
      S!Ids, Server!Ids, S!Promised, Server!Promised, S!ReceiveJobs,
      Server!ReceiveJobs, S!Comet, Server!Comet, S!Started, Server!Started
<1>1. Server!Init <=> S!Init
  OBVIOUS
<1>2. Server!Tick <=> S!Tick
  OBVIOUS
<1>3. ASSUME NEW t PROVE Server!TimerFires(t) <=> S!TimerFires(t)
  OBVIOUS
<1>4. ASSUME NEW b PROVE Server!ConnectionLost(b) <=> S!ConnectionLost(b)
  OBVIOUS
<1>5. ASSUME NEW r PROVE Server!Handshake(r) <=> S!Handshake(r)
  OBVIOUS
<1>6. ASSUME NEW r, NEW ack, NEW b
      PROVE  Server!CspSend(r, ack, b) <=> S!CspSend(r, ack, b)
  <2>1. Server!Filtered(r, ack) = S!Filtered(r, ack)
    <3>1. /\ Server!LeftUnacked(ack) = S!LeftUnacked(ack)
          /\ Server!Merged(r) = S!Merged(r)
          /\ Server!NoAck = S!NoAck
      OBVIOUS
    <3>2. ASSUME NEW left
          PROVE  Server!ClosedWith(left) <=> S!ClosedWith(left)
      OBVIOUS
    <3>3. Server!SucceedIfOpen(comets) = S!SucceedIfOpen(comets)
      OBVIOUS
    <3> QED
      BY ONLY <3>1, <3>2, <3>3 DEF Server!Filtered, S!Filtered
  <2>2. Server!Promised = S!Promised /\ Server!ReceiveJobs(b) = S!ReceiveJobs(b)
    <3>1. Server!Promised = S!Promised
      BY ONLY SameCardinality DEF Server!Promised, S!Promised
    <3>2. Server!ReceiveJobs(b) = S!ReceiveJobs(b)
      BY ONLY DEF Server!ReceiveJobs, S!ReceiveJobs, Server!Job, S!Job
    <3> QED
      BY ONLY <3>1, <3>2
  <2>3. Server!RequestArrives(ack) <=> S!RequestArrives(ack)
    OBVIOUS
  <2>4. Server!LastPacketId = S!LastPacketId
    OBVIOUS
  <2> QED
    BY ONLY <2>1, <2>2, <2>3, <2>4 DEF Server!CspSend, S!CspSend
<1>7. ASSUME NEW r, NEW ack
      PROVE  Server!Comet(r, ack) <=> S!Comet(r, ack)
  OBVIOUS
<1> QED
  BY <1>1, <1>2, <1>3, <1>4, <1>5, <1>6, <1>7

(***************************************************************************)
(* What holds of the client beside its server: what it sends are runs of   *)
(* writes, two packets at most, and what it was offered and has read are   *)
(* packets the server made.                                                *)
(***************************************************************************)
Offered(r, last) == \A i \in 1..Len(r) : r[i].id \in 1..last

FlightShape ==
  /\ Len(packetsInFlight) =< 2
  /\ "inFlight" \notin nulls => Len(packetsInFlight) =< 1
  /\ Len(packetsInFlight) = 2 => packetsInFlight[2].data = Null

Flights ==
  {r \in Seq(C!Packet) : /\ Len(r) \in 1..2
                         /\ \A i \in 1..Len(r) : r[i].data \in Data \cup {Null}}

ClientSide ==
  /\ C!ClientInv /\ C!LoopInv /\ C!RetryInv
  /\ FlightShape
  /\ requests \subseteq Flights
  /\ Offered(response, Len(packets))
  /\ \A i \in 1..Len(delivered) : delivered[i] \in 1..Len(packets)

LEMMA RunIsData ==
  ASSUME NEW k \in Nat, NEW n \in Nat, k + n =< MaxWrites
  PROVE  [i \in 1..n |-> k + i] \in Data \cup {Null}
<1>1. CASE n = 0
  BY <1>1 DEF Null
<1>2. CASE n # 0
  <2> DEFINE m == k + n
  <2>1. m \in 1..MaxWrites /\ k \in 0..m - 1 /\ m - k = n
    BY <1>2, NumbersAreNat
  <2>2. [i \in 1..n |-> k + i] = [i \in 1..m - k |-> k + i]
    BY <2>1
  <2> HIDE DEF m
  <2> QED
    BY <2>1, <2>2 DEF Data
<1> QED
  BY <1>1, <1>2

(* What is in flight is a run of the writes that were made, those after    *)
(* the acknowledged ones.                                                  *)
LEMMA FlightFollows ==
  ASSUME C!ClientInv
  PROVE  LET k == Len(acked)
             n == Len(C!FlightData)
         IN  /\ k \in Nat /\ n \in Nat /\ k + n =< written /\ written =< MaxWrites
             /\ C!FlightData \in Seq(1..MaxWrites)
             /\ \A i \in 1..n : C!FlightData[i] = k + i
<1> DEFINE F == C!FlightData
           k == Len(acked)
           n == Len(F)
<1>1. /\ acked \in Seq(1..MaxWrites) /\ writeBuffer \in Seq(1..MaxWrites)
      /\ written \in 0..MaxWrites
      /\ packetsInFlight \in Seq(C!Packet)
  BY DEF C!ClientInv, C!TypeOK
<1>2. F \in Seq(1..MaxWrites)
  BY <1>1, Bounds, C!FlowType, C!FlightDataFlow
<1>3. acked \o F \o writeBuffer = [i \in 1..written |-> i]
  BY DEF C!ClientInv, C!WritesConserved
<1> HIDE DEF F
<1>4. /\ acked \o F \in Seq(1..MaxWrites)
      /\ Len(acked \o F) = k + n /\ k \in Nat /\ n \in Nat
      /\ \A i \in 1..n : (acked \o F)[k + i] = F[i]
  <2>1. k \in Nat /\ n \in Nat
    BY <1>1, <1>2, LenProperties
  <2>2. \A i \in 1..n : k + i \in 1..(k + n) /\ k + i > k /\ k + i - k = i
    BY <2>1
  <2> QED
    BY <1>1, <1>2, <2>1, <2>2, ConcatProperties
<1> DEFINE G == acked \o F
<1>5. /\ Len(G \o writeBuffer) = Len(G) + Len(writeBuffer)
      /\ \A i \in 1..Len(G) : (G \o writeBuffer)[i] = G[i]
      /\ Len(writeBuffer) \in Nat
  <2> HIDE DEF G
  <2>1. G \in Seq(1..MaxWrites)
    BY <1>4 DEF G
  <2>2. Len(G) \in Nat /\ Len(writeBuffer) \in Nat
    BY <1>1, <2>1, LenProperties
  <2>3. \A i \in 1..Len(G) : i \in 1..(Len(G) + Len(writeBuffer)) /\ i =< Len(G)
    BY <2>2
  <2> QED
    BY <1>1, <2>1, <2>2, <2>3, ConcatProperties
<1>6. Len([i \in 1..written |-> i]) = written
  BY <1>1
<1>7. k + n =< written /\ written =< MaxWrites
  BY <1>1, <1>3, <1>4, <1>5, <1>6, NumbersAreNat
<1>8. \A i \in 1..n : F[i] = k + i
  <2> TAKE i \in 1..n
  <2>1. k + i \in 1..(k + n) /\ k + i \in 1..written
    BY <1>1, <1>4, <1>7
  <2>2. F[i] = (G \o writeBuffer)[k + i]
    BY <1>4, <1>5, <2>1
  <2> QED
    BY <1>3, <2>1, <2>2
<1> HIDE DEF k, n
<1> QED
  BY <1>2, <1>4, <1>7, <1>8 DEF F, k, n

LEMMA FlightIsRun ==
  ASSUME C!ClientInv
  PROVE  C!FlightData \in Data \cup {Null}
<1> DEFINE F == C!FlightData
           k == Len(acked)
           n == Len(F)
<1>1. /\ k \in Nat /\ n \in Nat /\ k + n =< written /\ written =< MaxWrites
      /\ F \in Seq(1..MaxWrites) /\ \A i \in 1..n : F[i] = k + i
  BY FlightFollows
<1> HIDE DEF F
<1>2. F = [i \in 1..n |-> k + i]
  BY <1>1, LenProperties
<1>3. written \in 0..MaxWrites
  BY Zenon DEF C!ClientInv, C!TypeOK
<1> HIDE DEF k, n
<1>4. k \in Nat /\ n \in Nat /\ k + n =< MaxWrites
  BY <1>1, <1>3, NumbersAreNat
<1>5. [i \in 1..n |-> k + i] \in Data \cup {Null}
  BY <1>4, RunIsData
<1> QED
  BY ONLY <1>2, <1>5 DEF F

FlightFits == packetsInFlight # <<>> => packetsInFlight \in Flights

LEMMA FlightsOfShape == C!ClientInv /\ FlightShape => FlightFits
<1> SUFFICES ASSUME C!ClientInv, FlightShape, packetsInFlight # <<>>
             PROVE  packetsInFlight \in Flights
  BY DEF FlightFits
<1> DEFINE P == C!Packet
           F == packetsInFlight
<1>1. /\ F \in Seq(P) /\ Len(F) =< 2
      /\ Len(F) = 2 => F[2].data = Null
  BY DEF FlightShape, C!ClientInv, C!TypeOK
<1>2. F[1].data \in Data \cup {Null}
  <2>1. C!FlightData = F[1].data
    BY DEF C!FlightData
  <2> QED
    BY <2>1, FlightIsRun
<1>3. F # <<>>
  OBVIOUS
<1>4. F \in Flights <=> /\ F \in Seq(P) /\ Len(F) \in 1..2
                       /\ \A i \in 1..Len(F) : F[i].data \in Data \cup {Null}
  BY DEF Flights
<1> HIDE DEF P, F
<1> DEFINE n == Len(F)
<1>5. n \in Nat /\ n # 0 /\ n =< 2
  BY <1>1, <1>3, EmptySeq, LenProperties
<1> HIDE DEF n
<1>6. n \in 1..2
  BY ONLY <1>5
<1>7. ASSUME NEW i \in 1..Len(F)
      PROVE  F[i].data \in Data \cup {Null}
  <2>1. i = 1 \/ (i = 2 /\ n = 2)
    <3>1. i \in 1..n
      BY DEF n
    <3> QED
      BY ONLY <1>6, <3>1
  <2>2. CASE i = 1
    BY <1>2, <2>2
  <2>3. CASE i = 2 /\ n = 2
    BY <1>1, <2>3 DEF n
  <2> QED
    BY <2>1, <2>2, <2>3
<1>8. F \in Flights
  BY <1>1, <1>4, <1>6, <1>7 DEF n
<1> QED
  BY <1>8 DEF F

(* What the client may do beside its server, and what changes then.        *)
ClientSteps ==
  \/ C!Application \/ C!Timers \/ C!Continue
  \/ C!HandshakeSuccess \/ C!WriteSuccess \/ C!WriteFailure
  \/ \E notFound \in BOOLEAN : C!HandshakeFailure(notFound)
  \/ C!CometFailure(FALSE) \/ C!CometEmpty
  \/ \E batch \in C!Responses :
       C!CometSuccess(batch) /\ Offered(batch, Len(packets))

SendMoves ==
  /\ FlightShape'
  /\ \/ requests' = requests
     \/ /\ requests' = requests \cup {packetsInFlight'}
        /\ packetsInFlight' # <<>>
  /\ \/ UNCHANGED <<sendXhr, packetsInFlight>>
     \/ sendXhr'.kind # "send"
     \/ /\ sendXhr'.ack = C!AckId /\ sendXhr'.packets \in requests'
        /\ packetsInFlight' # <<>> /\ sendXhr'.packets = packetsInFlight'

CometAsks ==
  \/ cometXhr' = cometXhr
  \/ cometXhr'.kind = "comet" /\ cometXhr'.ack = C!AckId

ReadsOn ==
  \/ /\ UNCHANGED <<lastEventId, delivered>>
     /\ Offered(response', Len(packets))
  \/ /\ lastEventId' \in 1..Len(packets) /\ lastEventId' > C!AckId
     /\ Offered(response', Len(packets))
     /\ delivered' \in {delivered, Append(delivered, lastEventId')}

LEMMA WritingSame ==
  ASSUME FlightShape,
         UNCHANGED <<packetsInFlight, requests>>,
         "inFlight" \in nulls => "inFlight" \in nulls',
         sendXhr' = sendXhr \/ sendXhr'.kind # "send"
  PROVE  SendMoves
BY DEF FlightShape, SendMoves

(* What __doWrite puts in flight: a packet at most, and a null behind it.  *)
LEMMA SentShape ==
  ASSUME C!ClientInv, NEW flight \in Seq(C!Packet), Len(flight) =< 1,
         NEW buffer \in Seq(1..MaxWrites), NEW sendNull \in BOOLEAN
  PROVE  LET next == C!Sent(flight, buffer, sendNull)
         IN  /\ Len(next) =< 2
             /\ ~C!NullJoins(flight, buffer, sendNull) => Len(next) =< 1
             /\ Len(next) = 2 => next[2].data = Null
<1> DEFINE data == C!DataFlight(flight, buffer)
           nil == C!NullPacket(C!NullId(flight, data))
           P == C!Packet
<1>1. C!WritingOK
  BY Bounds, C!TypeParts DEF C!ClientInv
<1>2. /\ data \in Seq(P)
      /\ data = flight \/ Len(data) = 1
  BY <1>1, Bounds, C!DataFlightType
<1>3. Len(flight) \in Nat
  BY LenProperties
<1>4. Len(data) \in Nat /\ Len(data) =< 1
  <2> DEFINE fl == Len(flight)
             dl == Len(data)
  <2>1. fl \in Nat /\ fl =< 1 /\ (dl = fl \/ dl = 1)
    BY <1>2, <1>3
  <2> HIDE DEF fl, dl
  <2>2. dl \in Nat /\ dl =< 1
    BY ONLY <2>1
  <2> QED
    BY <2>2 DEF dl
<1>5. nil \in P /\ nil.data = Null
  BY <1>1 DEF C!WritingOK, C!NullPacket, C!NullId, C!Packet, Null
<1>6. C!Sent(flight, buffer, sendNull) =
        IF C!NullJoins(flight, buffer, sendNull) THEN Append(data, nil) ELSE data
  BY DEF C!Sent
<1> HIDE DEF data, nil, P
<1>7. /\ Len(Append(data, nil)) = Len(data) + 1
      /\ Append(data, nil)[Len(data) + 1] = nil
  BY <1>2, <1>5, AppendProperties
<1>8. CASE C!NullJoins(flight, buffer, sendNull)
  <2>1. C!Sent(flight, buffer, sendNull) = Append(data, nil)
    BY <1>6, <1>8
  <2>2. Len(Append(data, nil)) = 2 => Append(data, nil)[2] = nil
    BY <1>4, <1>7
  <2> QED
    BY <1>4, <1>5, <1>7, <1>8, <2>1, <2>2
<1>9. CASE ~C!NullJoins(flight, buffer, sendNull)
  <2>1. C!Sent(flight, buffer, sendNull) = data
    BY <1>6, <1>9
  <2> QED
    BY <1>4, <1>9, <2>1
<1> QED
  BY <1>8, <1>9

LEMMA SendNowMoves ==
  ASSUME C!ClientInv, FlightShape, "inFlight" \notin nulls,
         NEW flight \in {<<>>, packetsInFlight},
         NEW buffer \in Seq(1..MaxWrites), NEW sendNull \in BOOLEAN,
         flight = packetsInFlight \/ buffer # <<>> \/ sendNull,
         C!SendNow(flight, buffer, sendNull)
  PROVE  SendMoves
<1> DEFINE next == C!Sent(flight, buffer, sendNull)
<1>1. /\ packetsInFlight' = next
      /\ nulls' = nulls \cup IF C!NullJoins(flight, buffer, sendNull)
                               THEN {"inFlight"} ELSE {}
      /\ IF next = <<>>
           THEN UNCHANGED <<sendXhr, requests>>
           ELSE /\ sendXhr' = [kind |-> "send", key |-> hasKey, ack |-> C!AckId,
                               packets |-> next]
                /\ requests' = requests \cup {next}
  BY DEF C!SendNow, C!Sent
<1>2. flight \in Seq(C!Packet) /\ Len(flight) =< 1
  <2>1. CASE flight = <<>>
    BY <2>1, EmptySeq
  <2>2. CASE flight = packetsInFlight
    BY <2>2 DEF C!ClientInv, C!TypeOK, FlightShape
  <2> QED
    BY <2>1, <2>2
<1>3. /\ Len(next) =< 2
      /\ ~C!NullJoins(flight, buffer, sendNull) => Len(next) =< 1
      /\ Len(next) = 2 => next[2].data = Null
  BY <1>2, SentShape
<1>5. next = <<>> => next = packetsInFlight
  <2>1. SUFFICES ASSUME next = <<>>
                 PROVE  flight = <<>> /\ buffer = <<>> /\ ~sendNull
    OBVIOUS
  <2> DEFINE data == C!DataFlight(flight, buffer)
  <2>2. CASE C!NullJoins(flight, buffer, sendNull)
    <3>1. data \in Seq(C!Packet)
      BY <1>2, Bounds, C!DataFlightType, C!TypeParts DEF C!ClientInv
    <3>2. C!NullPacket(C!NullId(flight, data)) \in C!Packet
      BY Bounds, C!TypeParts DEF C!ClientInv, C!WritingOK, C!NullPacket, C!NullId, C!Packet
    <3>3. next = Append(data, C!NullPacket(C!NullId(flight, data)))
      BY <2>2 DEF C!Sent
    <3> HIDE DEF data, next
    <3> QED
      BY <2>1, <3>1, <3>2, <3>3, AppendProperties
  <2>3. CASE ~C!NullJoins(flight, buffer, sendNull)
    <3>1. data = <<>>
      BY <2>1, <2>3 DEF C!Sent
    <3>2. flight = <<>> /\ buffer = <<>>
      BY <3>1 DEF C!DataFlight
    <3> QED
      BY <2>3, <3>2 DEF C!NullJoins
  <2> QED
    BY <2>2, <2>3
<1> HIDE DEF next
<1>4. FlightShape'
  <2>1. "inFlight" \notin nulls' => ~C!NullJoins(flight, buffer, sendNull)
    BY <1>1
  <2> QED
    BY <1>1, <1>3, <2>1 DEF FlightShape, Null
<1> QED
  BY <1>1, <1>4, <1>5 DEF SendMoves

LEMMA DoWriteMoves ==
  ASSUME C!ClientInv, C!RetryInv, FlightShape,
         NEW buffer \in Seq(1..MaxWrites), NEW sendNull \in BOOLEAN,
         C!DoWrite(buffer, sendNull)
  PROVE  SendMoves
<1>1. CASE packetsInFlight # <<>>
  BY <1>1, WritingSame DEF C!DoWrite
<1>2. CASE packetsInFlight = <<>>
  <2>1. "inFlight" \notin nulls
    BY <1>2 DEF C!RetryInv
  <2>2. C!SendNow(packetsInFlight, buffer, sendNull)
    BY <1>2 DEF C!DoWrite
  <2> QED
    BY <2>1, <2>2, SendNowMoves
<1> QED
  BY <1>1, <1>2

LEMMA BufferDoWrite ==
  ASSUME C!ClientInv, C!RetryInv, FlightShape, C!DoWrite(writeBuffer, TRUE)
  PROVE  SendMoves
BY DoWriteMoves DEF C!ClientInv, C!TypeOK

LEMMA CloseSessionMoves ==
  ASSUME C!ClientInv, C!RetryInv, FlightShape, NEW ts, C!CloseSession(ts)
  PROVE  SendMoves
BY BufferDoWrite, WritingSame DEF C!CloseSession, C!writing

LEMMA ClientSends ==
  ASSUME ClientSide, ClientSteps
  PROVE  SendMoves
<1>1. C!ClientInv /\ C!RetryInv /\ FlightShape
  BY DEF ClientSide
<1>2. CASE C!Application
  <2>1. CASE C!Connect
    BY <1>1, <2>1, WritingSame DEF C!Connect
  <2>2. CASE C!Write
    <3> DEFINE buffer == Append(writeBuffer, written + 1)
    <3>1. C!DoWrite(buffer, FALSE)
      BY <2>2 DEF C!Write
    <3>2. buffer \in Seq(1..MaxWrites)
      <4>1. /\ writeBuffer \in Seq(1..MaxWrites)
            /\ written \in 0..MaxWrites /\ written < MaxWrites
        BY <1>1, <2>2 DEF C!ClientInv, C!TypeOK, C!Write
      <4>2. written + 1 \in 1..MaxWrites
        BY <4>1, NumbersAreNat
      <4> QED
        BY <4>1, <4>2, AppendProperties
    <3> HIDE DEF buffer
    <3> QED
      BY <1>1, <3>1, <3>2, DoWriteMoves
  <2>3. CASE C!Close
    BY <1>1, <2>3, CloseSessionMoves DEF C!Close
  <2> QED
    BY <1>2, <2>1, <2>2, <2>3 DEF C!Application
<1>3. CASE C!Timers
  <2>1. CASE C!WriteTimer
    <3> DEFINE sendNull == "inBuffer" \in nulls
    <3>1. /\ "write" \in timers /\ sendNull \in BOOLEAN
          /\ C!SendNow(packetsInFlight, writeBuffer, sendNull)
      BY <2>1 DEF C!WriteTimer
    <3>2. "inFlight" \notin nulls
      BY <1>1, <3>1 DEF C!RetryInv
    <3>3. writeBuffer \in Seq(1..MaxWrites)
      BY <1>1 DEF C!ClientInv, C!TypeOK
    <3> HIDE DEF sendNull
    <3> QED
      BY <1>1, <3>1, <3>2, <3>3, SendNowMoves
  <2>2. CASE C!HandshakeTimeout \/ C!HandshakeRetry \/ C!CometTimer
    BY <1>1, <2>2, WritingSame
       DEF C!HandshakeTimeout, C!HandshakeRetry, C!CometTimer, C!writing
  <2>3. CASE C!TimeoutExpires
    BY <1>1, <2>3, CloseSessionMoves DEF C!TimeoutExpires
  <2> QED
    BY <1>3, <2>1, <2>2, <2>3 DEF C!Timers
<1>4. CASE C!Continue
  <2>1. CASE C!ReceivedNullPacket
    BY <1>1, <2>1, BufferDoWrite, WritingSame
       DEF C!ReceivedNullPacket, C!AnswerNull, C!writing
  <2>2. CASE C!CorruptPacket \/ C!PacketAhead
    BY <1>1, <2>2, BufferDoWrite DEF C!CorruptPacket, C!PacketAhead, C!ProtocolError
  <2>3. CASE C!MissingPacket
    BY <1>1, <2>3, CloseSessionMoves DEF C!MissingPacket
  <2>4. CASE C!OnConnectReturns \/ C!SkipPacket \/ C!DeliverPacket
               \/ C!OnReadReturns \/ C!UnreadablePacket \/ C!PacketsDone
    BY <1>1, <2>4, WritingSame
       DEF C!OnConnectReturns, C!SkipPacket, C!DeliverPacket, C!OnReadReturns,
           C!UnreadablePacket, C!PacketsDone, C!writing
  <2> QED
    BY <1>4, <2>1, <2>2, <2>3, <2>4 DEF C!Continue
<1>5. CASE C!HandshakeSuccess
  BY <1>1, <1>5, WritingSame DEF C!HandshakeSuccess, C!HandshakeAnswered, C!Idle
<1>6. CASE C!WriteSuccess
  <2>1. CASE C!WriteSucceeds /\ "inFlight" \notin nulls
    <3> DEFINE sendNull == "inBuffer" \in nulls
    <3>1. CASE /\ C!SendNow(<<>>, writeBuffer, sendNull)
               /\ writeBuffer # <<>> \/ sendNull
      <4>1. writeBuffer \in Seq(1..MaxWrites)
        BY <1>1 DEF C!ClientInv, C!TypeOK
      <4>2. sendNull \in BOOLEAN
        OBVIOUS
      <4> HIDE DEF sendNull
      <4> QED
        BY <1>1, <2>1, <3>1, <4>1, <4>2, SendNowMoves
    <3>2. CASE packetsInFlight' = <<>> /\ sendXhr' = C!Idle /\ requests' = requests
      <4>1. FlightShape'
        BY <3>2 DEF FlightShape
      <4> QED
        BY <3>2, <4>1 DEF SendMoves, C!Idle
    <3> QED
      BY <2>1, <3>1, <3>2 DEF C!WriteSucceeds
  <2>2. CASE /\ sendXhr' = C!Idle
             /\ "inFlight" \in nulls => "inFlight" \in nulls'
             /\ UNCHANGED <<packetsInFlight, requests>>
    BY <1>1, <2>2, WritingSame DEF C!Idle
  <2> QED
    BY <1>6, <2>1, <2>2 DEF C!WriteSuccess
<1>7. CASE C!WriteFailure
  BY <1>1, <1>7, WritingSame DEF C!WriteFailure, C!Idle
<1>8. ASSUME NEW notFound \in BOOLEAN, C!HandshakeFailure(notFound)
      PROVE  SendMoves
  BY <1>1, <1>8, WritingSame DEF C!HandshakeFailure, C!HandshakeAnswered, C!Idle
<1>9. CASE C!CometFailure(FALSE)
  BY <1>1, <1>9, CloseSessionMoves, WritingSame DEF C!CometFailure, C!writing
<1>10. CASE C!CometEmpty
  BY <1>1, <1>10, WritingSame DEF C!CometEmpty, C!writing
<1>11. ASSUME NEW batch \in C!Responses, C!CometSuccess(batch)
       PROVE  SendMoves
  BY <1>1, <1>11, WritingSame DEF C!CometSuccess, C!writing
<1> QED
  BY <1>2, <1>3, <1>4, <1>5, <1>6, <1>7, <1>8, <1>9, <1>10, <1>11 DEF ClientSteps

LEMMA ClientRunsAsk ==
  ASSUME C!Application \/ C!Timers \/ C!Continue
  PROVE  CometAsks
<1>1. CASE C!Application
  BY <1>1 DEF C!Application, C!Connect, C!Write, C!Close, CometAsks
<1>2. CASE C!Timers
  BY <1>2 DEF C!Timers, C!HandshakeTimeout, C!HandshakeRetry, C!WriteTimer,
              C!CometTimer, C!TimeoutExpires, C!DoConnectComet, CometAsks
<1>3. CASE C!Continue
  <2>1. CASE C!OnConnectReturns \/ C!PacketsDone
    BY <2>1 DEF C!OnConnectReturns, C!PacketsDone, C!DoConnectComet, CometAsks
  <2>2. CASE C!ReceivedNullPacket \/ C!SkipPacket \/ C!DeliverPacket
               \/ C!OnReadReturns \/ C!CorruptPacket \/ C!UnreadablePacket
               \/ C!PacketAhead \/ C!MissingPacket
    BY <2>2 DEF C!ReceivedNullPacket, C!SkipPacket, C!DeliverPacket,
                C!OnReadReturns, C!CorruptPacket, C!UnreadablePacket,
                C!PacketAhead, C!MissingPacket, CometAsks
  <2> QED
    BY <1>3, <2>1, <2>2 DEF C!Continue
<1> QED
  BY <1>1, <1>2, <1>3

LEMMA ClientAsks ==
  ASSUME ClientSteps
  PROVE  CometAsks \/ cometXhr' = C!Idle
<1>1. CASE C!HandshakeSuccess \/ C!WriteSuccess \/ C!WriteFailure
  BY <1>1 DEF C!HandshakeSuccess, C!WriteSuccess, C!WriteFailure, CometAsks
<1>2. ASSUME NEW notFound \in BOOLEAN, C!HandshakeFailure(notFound)
      PROVE  CometAsks
  BY <1>2 DEF C!HandshakeFailure, CometAsks
<1>3. CASE C!CometFailure(FALSE) \/ C!CometEmpty
  BY <1>3 DEF C!CometFailure, C!CometEmpty, C!CometAnswered
<1>4. ASSUME NEW batch \in C!Responses, C!CometSuccess(batch)
      PROVE  cometXhr' = C!Idle
  BY <1>4 DEF C!CometSuccess, C!CometAnswered
<1> QED
  BY <1>1, <1>2, <1>3, <1>4, ClientRunsAsk DEF ClientSteps

LEMMA SeenIds == ClientSide => lastEventId \in {C!NoEvent} \cup 1..MaxPackets
<1> SUFFICES ASSUME ClientSide
             PROVE  lastEventId \in {C!NoEvent} \cup 1..MaxPackets
  OBVIOUS
<1> QED
  BY Zenon DEF ClientSide, C!ClientInv, C!TypeOK, MaxEventId

LEMMA AckIds ==
  ASSUME ClientSide
  PROVE  /\ C!AckId \in Nat /\ C!AckId =< MaxPackets
         /\ lastEventId = C!NoEvent => C!AckId = 0
         /\ lastEventId # C!NoEvent => lastEventId = C!AckId /\ C!AckId >= 1
<1>1. lastEventId \in {C!NoEvent} \cup 1..MaxPackets
  BY SeenIds
<1> QED
  BY <1>1, NumbersAreNat DEF C!AckId, C!NoEvent

LEMMA HeadOffered ==
  ASSUME ClientSide, response # <<>>
  PROVE  /\ Head(response).id \in 1..Len(packets)
         /\ Offered(Tail(response), Len(packets))
<1> DEFINE r == response
           t == Tail(response)
<1>1. r \in Seq(C!EventPackets) /\ \A i \in 1..Len(r) : r[i].id \in 1..Len(packets)
  BY DEF ClientSide, C!ClientInv, C!TypeOK, Offered
<1>2. /\ Len(r) \in Nat /\ Len(r) >= 1 /\ Head(r) = r[1]
      /\ Len(t) = Len(r) - 1
      /\ \A i \in 1..Len(t) : t[i] = r[i + 1]
  BY <1>1, EmptySeq, LenProperties, HeadTailProperties
<1> HIDE DEF r, t
<1>3. ASSUME NEW i \in 1..Len(t)
      PROVE  t[i].id \in 1..Len(packets)
  <2>1. i + 1 \in 1..Len(r)
    BY <1>2
  <2> QED
    BY <1>1, <1>2, <2>1
<1>4. r[1].id \in 1..Len(packets)
  BY <1>1, <1>2
<1> QED
  BY <1>2, <1>3, <1>4 DEF Offered, r, t

(* A packet is expected only when it is past what the client has seen.     *)
LEMMA ExpectedIsPast ==
  ASSUME ClientSide, NEW kinds \in SUBSET C!PacketKinds, C!Expected(kinds)
  PROVE  /\ lastEventId' \in 1..Len(packets) /\ lastEventId' > C!AckId
         /\ lastEventId' = Head(response).id
         /\ Offered(Tail(response), Len(packets))
<1>1. /\ response # <<>> /\ lastEventId' = Head(response).id
      /\ ~C!Seen(Head(response).id)
  BY DEF C!Expected, C!AtPacket
<1>2. /\ Head(response).id \in 1..Len(packets)
      /\ Offered(Tail(response), Len(packets))
  BY <1>1, HeadOffered
<1>3. Len(packets) \in Nat => Head(response).id > C!AckId
  BY <1>1, <1>2, AckIds DEF C!Seen
<1>4. Head(response).id \in Int
  BY <1>2
<1>5. Head(response).id > C!AckId
  BY <1>1, <1>2, <1>4, AckIds DEF C!Seen
<1> QED
  BY <1>1, <1>2, <1>5

LEMMA ClientReads ==
  ASSUME ClientSide, ClientSteps
  PROVE  ReadsOn
<1>0. Offered(<<>>, Len(packets)) /\ Offered(response, Len(packets))
  BY EmptySeq DEF Offered, ClientSide
<1>1. CASE C!DeliverPacket
  <2>1. /\ C!Expected({"data"}) /\ response' = Tail(response)
        /\ delivered' = Append(delivered, Head(response).id)
    BY <1>1 DEF C!DeliverPacket
  <2>2. {"data"} \in SUBSET C!PacketKinds
    BY DEF C!PacketKinds
  <2> QED
    BY <2>1, <2>2, ExpectedIsPast DEF ReadsOn
<1>2. CASE C!ReceivedNullPacket \/ C!CorruptPacket \/ C!UnreadablePacket
  <2>1. PICK kinds \in {{"null"}, {"corrupt"}, {"unreadable"}} : C!Expected(kinds)
    BY <1>2 DEF C!ReceivedNullPacket, C!CorruptPacket, C!UnreadablePacket
  <2>2. kinds \in SUBSET C!PacketKinds
    BY DEF C!PacketKinds
  <2>3. lastEventId' \in 1..Len(packets) /\ lastEventId' > C!AckId
    BY <2>1, <2>2, ExpectedIsPast
  <2>4. response' = <<>> /\ delivered' = delivered
    BY <1>2 DEF C!ReceivedNullPacket, C!CorruptPacket, C!UnreadablePacket,
                C!HandlerStops
  <2> QED
    BY <1>0, <2>3, <2>4 DEF ReadsOn
<1>3. CASE C!PacketAhead \/ C!MissingPacket
  BY <1>0, <1>3 DEF C!PacketAhead, C!MissingPacket, C!HandlerStops, ReadsOn
<1>4. CASE C!SkipPacket
  <2>1. /\ response # <<>> /\ response' = Tail(response)
        /\ UNCHANGED <<lastEventId, delivered>>
    BY <1>4 DEF C!SkipPacket, C!AtPacket
  <2> QED
    BY <2>1, HeadOffered DEF ReadsOn
<1>5. ASSUME NEW batch \in C!Responses, C!CometSuccess(batch),
             Offered(batch, Len(packets))
      PROVE  ReadsOn
  BY <1>0, <1>5 DEF C!CometSuccess, ReadsOn
<1>6. ASSUME UNCHANGED <<lastEventId, delivered, response>>
      PROVE  ReadsOn
  BY <1>0, <1>6 DEF ReadsOn
<1>7. CASE C!Application
  BY <1>6, <1>7 DEF C!Application, C!Connect, C!Write, C!Close
<1>8. CASE C!Timers
  BY <1>6, <1>8 DEF C!Timers, C!HandshakeTimeout, C!HandshakeRetry, C!WriteTimer,
                    C!CometTimer, C!TimeoutExpires
<1>9. CASE C!OnConnectReturns \/ C!OnReadReturns \/ C!PacketsDone
  BY <1>6, <1>9 DEF C!OnConnectReturns, C!OnReadReturns, C!PacketsDone
<1>10. CASE C!HandshakeSuccess \/ C!WriteSuccess \/ C!WriteFailure
  BY <1>6, <1>10 DEF C!HandshakeSuccess, C!WriteSuccess, C!WriteFailure
<1>11. ASSUME NEW notFound \in BOOLEAN, C!HandshakeFailure(notFound)
       PROVE  ReadsOn
  BY <1>6, <1>11 DEF C!HandshakeFailure
<1>12. CASE C!CometFailure(FALSE) \/ C!CometEmpty
  BY <1>6, <1>12 DEF C!CometFailure, C!CometEmpty
<1> QED
  BY <1>1, <1>2, <1>3, <1>4, <1>5, <1>7, <1>8, <1>9, <1>10, <1>11, <1>12
     DEF ClientSteps, C!Continue

(* The client's half of a step keeps what holds of the client, it never    *)
(* goes back, and what it then has in flight is what it sends.             *)
LEMMA ClientKeeps ==
  ASSUME ClientSide, ClientSteps, packets' = packets
  PROVE  ClientSide' /\ C!AckId =< C!AckId' /\ requests \subseteq requests'
<1>1. C!Next
  BY DEF ClientSteps, C!Next, C!Network
<1>2. C!ClientInv' /\ C!LoopInv' /\ C!RetryInv'
  BY <1>1, Bounds, C!ClientNext, C!LoopNext, C!RetryNext DEF ClientSide, C!LoopInv
<1>3. SendMoves /\ ReadsOn
  BY ClientSends, ClientReads
<1>4. FlightShape' /\ requests \subseteq requests'
  BY <1>3 DEF SendMoves
<1>5. requests' \subseteq Flights
  <2>1. (C!ClientInv /\ FlightShape => FlightFits)'
    BY FlightsOfShape, PTL
  <2>2. packetsInFlight' # <<>> => packetsInFlight' \in Flights
    BY <1>2, <1>4, <2>1 DEF FlightFits, Flights
  <2> QED
    BY <1>3, <2>2 DEF SendMoves, ClientSide
<1>6. Offered(response', Len(packets'))
  BY <1>3 DEF ReadsOn
<1>7. C!AckId =< C!AckId'
  <2>1. CASE lastEventId' = lastEventId
    BY <2>1, AckIds DEF C!AckId
  <2>2. CASE lastEventId' \in 1..Len(packets) /\ lastEventId' > C!AckId
    <3>1. lastEventId' \in Int /\ lastEventId' # C!NoEvent
      BY <2>2 DEF C!NoEvent
    <3>2. C!AckId' = lastEventId'
      BY <3>1 DEF C!AckId, C!NoEvent
    <3> QED
      BY <2>2, <3>1, <3>2, AckIds
  <2> QED
    BY <1>3, <2>1, <2>2 DEF ReadsOn
<1>8. \A i \in 1..Len(delivered') : delivered'[i] \in 1..Len(packets')
  <2>1. /\ delivered \in Seq(Int)
        /\ \A i \in 1..Len(delivered) : delivered[i] \in 1..Len(packets)
    <3>1. delivered \in Seq(1..MaxEventId)
      BY DEF ClientSide, C!ClientInv, C!TypeOK
    <3>2. 1..MaxEventId \subseteq Int
      OBVIOUS
    <3>3. delivered \in Seq(Int)
      BY <3>1, <3>2, SeqMonotonic
    <3> QED
      BY <3>3 DEF ClientSide
  <2>2. CASE delivered' = delivered
    BY <2>1, <2>2
  <2>3. CASE delivered' = Append(delivered, lastEventId')
             /\ lastEventId' \in 1..Len(packets)
    <3> DEFINE id == lastEventId'
    <3>1. id \in Int /\ id \in 1..Len(packets)
      BY <2>3
    <3> HIDE DEF id
    <3>2. /\ Len(Append(delivered, id)) = Len(delivered) + 1 /\ Len(delivered) \in Nat
          /\ \A i \in 1..Len(delivered) : Append(delivered, id)[i] = delivered[i]
          /\ Append(delivered, id)[Len(delivered) + 1] = id
      BY <2>1, <3>1, AppendProperties, LenProperties
    <3>3. \A i \in 1..Len(Append(delivered, id)) :
            Append(delivered, id)[i] \in 1..Len(packets)
      BY <2>1, <3>1, <3>2
    <3> QED
      BY <2>3, <3>3 DEF id
  <2> QED
    BY <1>3, <2>2, <2>3 DEF ReadsOn
<1> QED
  BY <1>2, <1>4, <1>5, <1>6, <1>7, <1>8 DEF ClientSide, Offered


(***************************************************************************)
(* What holds of the server beside a client that has got past seen: what   *)
(* is in neither buffer the client has seen.                               *)
(***************************************************************************)
HeldOrSeen(seen) ==
  \A i \in 1..Len(packets) : i \in unsent \cup unacked \/ i =< seen

ServerHolds(seen) ==
  S!CometInv /\ S!RunsInv /\ ~settings.is /\ HeldOrSeen(seen)

SentAPacket ==
  packets' = packets \/ \E d \in Data \cup {Null} : packets' = Append(packets, d)

(* What an action of the server does, and what a step of it leaves.        *)
ServerDoes(seen) ==
  /\ ~settings'.is
  /\ SentAPacket
  /\ \A i \in 1..Len(packets') : i \in unsent' \cup unacked' \/ i =< seen
  /\ Len(comets) =< Len(comets')

ServerMoves(seen) == S!CometInv' /\ S!RunsInv' /\ ServerDoes(seen)

LEMMA ServerTypes ==
  ASSUME NEW seen, ServerHolds(seen)
  PROVE  /\ S!TypeOK
         /\ Len(packets) \in Nat /\ Len(packets) =< MaxPackets
         /\ Len(comets) \in Nat /\ packets \in Seq(Data \cup {Null})
<1>1. S!TypeOK /\ S!PacketsBounded
  BY DEF ServerHolds, S!CometInv, S!RunsInv
<1>2. /\ Len(packets) \in Nat /\ Len(comets) \in Nat
      /\ S!Cardinality(S!Promising(tickQueue)) \in Nat
  BY <1>1, Bounds, S!Lengths, S!PromisedNow
<1>3. packets \in Seq(Data \cup {Null})
  BY <1>1 DEF S!TypeOK, S!Payloads
<1> QED
  BY <1>1, <1>2, <1>3, NumbersAreNat DEF S!PacketsBounded

LEMMA ServerSteps ==
  ASSUME NEW seen, ServerHolds(seen), S!Next, ServerDoes(seen)
  PROVE  ServerMoves(seen)
<1>1. S!TypeOK /\ S!CometInv /\ S!RunsInv
  BY ServerTypes DEF ServerHolds
<1>2. S!TypeOK' /\ S!RunsInv'
  BY <1>1, Bounds, S!TypeStep, S!RunsStep
<1>3. S!CometInv'
  BY <1>1, <1>2, Bounds, S!CometStep
<1> QED
  BY <1>2, <1>3 DEF ServerMoves

LEMMA ServerSame ==
  ASSUME NEW seen, ServerHolds(seen), UNCHANGED serverVars
  PROVE  ServerMoves(seen)
<1>1. UNCHANGED S!vars
  BY DEF serverVars, S!vars
<1>2. S!TypeOK /\ S!CometInv /\ S!RunsInv
  BY ServerTypes DEF ServerHolds
<1>3. S!TypeOK' /\ S!RunsInv'
  BY <1>1, <1>2, Bounds, S!TypeStep, S!RunsStep
<1>4. S!CometInv'
  BY <1>1, <1>2, <1>3, Bounds, S!CometStep
<1>5. ServerDoes(seen)
  <2>1. UNCHANGED <<settings, packets, unsent, unacked, comets>>
    BY DEF serverVars
  <2> QED
    BY <2>1, ServerTypes DEF ServerHolds, HeldOrSeen, ServerDoes, SentAPacket
<1> QED
  BY <1>3, <1>4, <1>5 DEF ServerMoves

(* Whatever was unsent is written, and what was written is kept.           *)
LEMMA FlushHolds ==
  ASSUME NEW seen, ServerHolds(seen), NEW batch, unsent \subseteq batch,
         S!Flush(batch, S!Unfiltered)
  PROVE  /\ \A i \in 1..Len(packets) : i \in unsent' \cup unacked' \/ i =< seen
         /\ batch \subseteq unacked'
BY DEF ServerHolds, HeldOrSeen, S!Flush, S!Unfiltered

LEMMA SendDataHolds ==
  ASSUME NEW seen, ServerHolds(seen), NEW d \in Data \cup {Null},
         S!SendData(d, S!Unfiltered)
  PROVE  \A i \in 1..Len(packets') : i \in unsent' \cup unacked' \/ i =< seen
<1>1. Len(packets) \in Nat /\ packets \in Seq(Data \cup {Null})
  BY ServerTypes
<1>2. packets' = Append(packets, d)
  BY DEF S!SendData
<1>3. Len(packets') = Len(packets) + 1
  BY <1>1, <1>2, AppendProperties
<1>4. \A i \in 1..Len(packets') : i \in 1..Len(packets) \/ i = Len(packets) + 1
  BY <1>1, <1>3
<1>5. unsent \subseteq S!NewBatch /\ Len(packets) + 1 \in S!NewBatch
  BY DEF S!NewBatch, S!LastPacketId
<1>6. CASE S!Flush(S!NewBatch, S!Unfiltered)
  BY <1>4, <1>5, <1>6, FlushHolds
<1>7. CASE unsent' = S!NewBatch /\ unacked' = unacked
  BY <1>4, <1>5, <1>7 DEF ServerHolds, HeldOrSeen
<1>8. S!Unfiltered.unacked = unacked
  BY DEF S!Unfiltered
<1> QED
  BY <1>6, <1>7, <1>8 DEF S!SendData

LEMMA JobSendsDoes ==
  ASSUME NEW seen, ServerHolds(seen), NEW d \in Data \cup {Null},
         S!JobSends(d), UNCHANGED settings
  PROVE  ServerDoes(seen)
<1>1. S!TypeOK /\ Len(comets) \in Nat /\ d \in S!Payloads
  BY ServerTypes DEF S!Payloads
<1>2. S!SentType
  BY <1>1, Bounds, S!JobSendsType
<1>3. Len(comets) =< Len(comets') /\ ~settings'.is
  BY <1>1, <1>2 DEF S!SentType, ServerHolds
<1>4. CASE S!SendData(d, S!Unfiltered)
  <2>1. packets' = Append(packets, d)
    BY <1>4 DEF S!SendData
  <2> QED
    BY <1>3, <1>4, <2>1, SendDataHolds DEF ServerDoes, SentAPacket
<1>5. CASE UNCHANGED <<packets, unsent, unacked>>
  BY <1>3, <1>5 DEF ServerDoes, SentAPacket, ServerHolds, HeldOrSeen
<1> QED
  BY <1>4, <1>5 DEF S!JobSends

LEMMA TickMoves ==
  ASSUME NEW seen, ServerHolds(seen), S!Tick
  PROVE  ServerMoves(seen)
<1>0. S!Next
  BY DEF S!Next
<1>1. S!TypeOK /\ Len(comets) \in Nat
  BY ServerTypes
<1>2. CASE S!Respond \/ S!PostInit \/ S!Unbind
  <2>1. UNCHANGED <<settings, packets, unsent, unacked>>
    BY <1>2 DEF S!Respond, S!PostInit, S!Unbind
  <2>2. Len(comets) =< Len(comets')
    <3>1. CASE S!Respond
      <4> DEFINE b == Head(tickQueue).arg
      <4>1. comets' = S!WithStatus(comets, b, "open")
        BY <3>1 DEF S!Respond
      <4>2. comets \in Seq(S!Bodies)
        BY <1>1 DEF S!TypeOK
      <4>3. Len(comets') = Len(comets)
        BY <4>1, <4>2 DEF S!WithStatus
      <4> QED
        BY <1>1, <4>3
    <3>2. CASE S!PostInit \/ S!Unbind
      BY <1>1, <3>2 DEF S!PostInit, S!Unbind
    <3> QED
      BY <1>2, <3>1, <3>2
  <2>3. ServerDoes(seen)
    BY <2>1, <2>2 DEF ServerDoes, SentAPacket, ServerHolds, HeldOrSeen
  <2> QED
    BY <1>0, <2>3, ServerSteps
<1>3. CASE S!ReceiveData \/ S!Broadcast
  <2>1. PICK call \in {"receive_data", "broadcast"} :
          S!RunJob(call) /\ S!JobSends(Head(tickQueue).arg) /\ UNCHANGED settings
    BY <1>3 DEF S!ReceiveData, S!Broadcast
  <2>2. Head(tickQueue).arg \in Data \cup {Null}
    <3>1. Head(tickQueue) \in S!Jobs /\ Head(tickQueue).call = call
      BY <1>1, <2>1, Bounds, S!RunJobType
    <3> QED
      BY <2>1, <3>1 DEF S!Jobs, S!Payloads
  <2>3. ServerDoes(seen)
    BY <2>1, <2>2, JobSendsDoes
  <2> QED
    BY <1>0, <2>3, ServerSteps
<1> QED
  BY <1>2, <1>3 DEF S!Tick

LEMMA TimerMoves ==
  ASSUME NEW seen, ServerHolds(seen), NEW t \in 1..MaxComets, S!TimerFires(t)
  PROVE  ServerMoves(seen)
<1>0. S!Next
  BY DEF S!Next
<1>1. UNCHANGED <<settings, packets>> /\ S!TypeOK /\ Len(comets) \in Nat
  BY ServerTypes DEF S!TimerFires
<1>2. CASE S!Flush(unsent, S!Unfiltered) /\ comets # <<>>
  <2>1. Len(comets) # 0
    BY <1>1, <1>2, EmptySeq DEF S!TypeOK
  <2>2. Len(comets') = Len(comets)
    <3>1. S!SentType
      BY <1>1, <1>2, <2>1, Bounds, S!FlushUnsentType
    <3> QED
      BY <3>1 DEF S!SentType
  <2>3. \A i \in 1..Len(packets) : i \in unsent' \cup unacked' \/ i =< seen
    BY <1>2, FlushHolds
  <2>4. ServerDoes(seen)
    BY <1>1, <2>2, <2>3 DEF ServerDoes, SentAPacket, ServerHolds
  <2> QED
    BY <1>0, <2>4, ServerSteps
<1>3. CASE UNCHANGED <<unsent, unacked, comets>>
  <2>1. ServerDoes(seen)
    BY <1>1, <1>3 DEF ServerDoes, SentAPacket, ServerHolds, HeldOrSeen
  <2> QED
    BY <1>0, <2>1, ServerSteps
<1>4. comets # <<>>
  <2>1. t \in armed /\ armed \in SUBSET (1..Len(comets))
    BY <1>1 DEF S!TimerFires, S!TypeOK
  <2>2. Len(<<>>) = 0
    BY EmptySeq
  <2> QED
    BY <2>1, <2>2
<1> QED
  BY <1>2, <1>3, <1>4 DEF S!TimerFires

LEMMA LossMoves ==
  ASSUME NEW seen, ServerHolds(seen), NEW b \in 1..MaxComets, S!ConnectionLost(b)
  PROVE  ServerMoves(seen)
<1>0. S!Next
  BY DEF S!Next
<1>1. S!TypeOK /\ Len(comets) \in Nat
  BY ServerTypes
<1>2. Len(comets') = Len(comets)
  BY <1>1 DEF S!ConnectionLost, S!TypeOK
<1>3. UNCHANGED <<settings, packets, unsent, unacked>>
  BY DEF S!ConnectionLost
<1>4. ServerDoes(seen)
  BY <1>1, <1>2, <1>3 DEF ServerDoes, SentAPacket, ServerHolds, HeldOrSeen
<1> QED
  BY <1>0, <1>4, ServerSteps

LEMMA PlainSettings == ~settings.is => ~S!Merged(Plain).is
BY DEF S!Merged, Plain

(* An acknowledgement drops nothing that the client has not got past.      *)
LEMMA RequestMoves ==
  ASSUME NEW seen \in Nat, ServerHolds(seen), seen =< MaxPackets,
         NEW ack \in 0..seen,
         \/ S!Handshake(Plain) \/ S!Comet(Plain, ack)
         \/ \E batch \in S!Batches : S!CspSend(Plain, ack, batch)
  PROVE  ServerMoves(seen)
<1>0. /\ S!TypeOK /\ Len(comets) \in Nat /\ Len(packets) \in Nat
      /\ ack \in S!Acks /\ Plain \in Requests
  BY ServerTypes, NumbersAreNat DEF S!Acks, Requests
<1>1. S!Next
  BY <1>0 DEF S!Next
<1> DEFINE f == S!Filtered(Plain, ack)
<1>2. /\ ~f.settings.is /\ Len(f.comets) = Len(comets)
      /\ f.unacked = {i \in unacked : i > ack}
  <2>1. S!FilterType(f)
    BY <1>0, Bounds, S!FilteredType
  <2>2. ~f.settings.is
    BY PlainSettings DEF S!Filtered, ServerHolds
  <2>3. f.unacked = {i \in unacked : i > ack}
    BY DEF S!Filtered, S!LeftUnacked
  <2> HIDE DEF f
  <2> QED
    BY <2>1, <2>2, <2>3 DEF S!FilterType
<1>3. ASSUME NEW i \in 1..Len(packets)
      PROVE  i \in unsent \cup f.unacked \/ i =< seen
  <2>1. i \in unsent \cup unacked \/ i =< seen
    BY DEF ServerHolds, HeldOrSeen
  <2>2. CASE i \in unacked /\ ~(i > ack)
    BY <2>2
  <2> HIDE DEF f
  <2> QED
    BY <1>2, <2>1, <2>2
<1> HIDE DEF f
<1>4. CASE S!Handshake(Plain)
  <2>1. /\ settings' = S!Merged(Plain)
        /\ UNCHANGED <<packets, unsent, unacked, comets>>
    BY <1>4 DEF S!Handshake
  <2>2. ServerDoes(seen)
    BY <1>0, <2>1, PlainSettings DEF ServerDoes, SentAPacket, ServerHolds, HeldOrSeen
  <2> QED
    BY <1>1, <2>2, ServerSteps
<1>5. CASE S!Comet(Plain, ack)
  <2>1. /\ settings' = f.settings /\ unacked' = f.unacked
        /\ UNCHANGED <<packets, unsent>>
        /\ \E body : comets' = Append(S!SucceedIfOpen(f.comets), body)
    BY <1>5 DEF S!Comet, f
  <2>2. PICK body : comets' = Append(S!SucceedIfOpen(f.comets), body)
    BY <2>1
  <2>3. Len(comets') = Len(comets) + 1
    <3> DEFINE cs == S!SucceedIfOpen(f.comets)
               B == S!Bodies \cup {body}
    <3>1. cs \in Seq(S!Bodies) /\ Len(cs) = Len(comets)
      <4>1. f.comets \in Seq(S!Bodies)
        BY <1>0, Bounds, S!FilteredType DEF S!FilterType, f
      <4> QED
        BY <1>2, <4>1, Bounds, S!SucceedIfOpenType
    <3>2. comets' = Append(cs, body)
      BY <2>2
    <3> HIDE DEF cs
    <3>3. cs \in Seq(B) /\ body \in B
      BY <3>1, SeqMonotonic
    <3> HIDE DEF B
    <3> QED
      BY <3>1, <3>2, <3>3, AppendProperties
  <2>4. ServerDoes(seen)
    BY <1>0, <1>2, <1>3, <2>1, <2>3 DEF ServerDoes, SentAPacket
  <2> QED
    BY <1>1, <2>4, ServerSteps
<1>6. ASSUME NEW batch \in S!Batches, S!CspSend(Plain, ack, batch)
      PROVE  ServerMoves(seen)
  <2>1. /\ settings' = f.settings /\ unacked' = f.unacked /\ comets' = f.comets
        /\ UNCHANGED <<packets, unsent>>
    BY <1>6 DEF S!CspSend, f
  <2>2. ServerDoes(seen)
    BY <1>0, <1>2, <1>3, <2>1 DEF ServerDoes, SentAPacket
  <2> QED
    BY <1>1, <2>2, ServerSteps
<1> QED
  BY <1>4, <1>5, <1>6

LEMMA CometGrows ==
  ASSUME NEW seen, ServerHolds(seen), NEW ack \in S!Acks, S!Comet(Plain, ack)
  PROVE  Len(comets') = Len(comets) + 1
<1>0. S!TypeOK /\ Plain \in Requests
  BY ServerTypes DEF Requests
<1> DEFINE f == S!Filtered(Plain, ack)
           cs == S!SucceedIfOpen(f.comets)
           body == [status |-> "pending", gone |-> FALSE, du |-> f.settings.du]
           B == S!Bodies \cup {body}
<1>1. comets' = Append(cs, body)
  BY DEF S!Comet
<1>2. f.comets \in Seq(S!Bodies) /\ Len(f.comets) = Len(comets)
  BY <1>0, Bounds, S!FilteredType DEF S!FilterType
<1> HIDE DEF f
<1>3. cs \in Seq(S!Bodies) /\ Len(cs) = Len(comets)
  BY <1>2, Bounds, S!SucceedIfOpenType
<1> HIDE DEF cs, body
<1>4. cs \in Seq(B) /\ body \in B
  BY <1>3, SeqMonotonic
<1> HIDE DEF B
<1> QED
  BY <1>1, <1>3, <1>4, AppendProperties
-----------------------------------------------------------------------------
(***************************************************************************)
(* The two together: a request, on its way or given up, acknowledges no    *)
(* more than the client has got past, and carries what the client sent.    *)
(***************************************************************************)
SendSeen ==
  sendXhr.kind = "send" => sendXhr.ack \in 0..C!AckId /\ sendXhr.packets \in requests

CometSeen == cometXhr.kind = "comet" => cometXhr.ack \in 0..C!AckId

AbandonedSeen ==
  \A a \in abandoned :
    /\ a.req.ack \in 0..C!AckId
    /\ a.req.kind = "send" => a.req.packets \in requests

CometStaged ==
  /\ cometStage = "travelling" => cometXhr.kind = "comet"
  /\ cometStage = "held" => cometBody \in 1..Len(comets)

LinkInv ==
  /\ ClientSide /\ ServerHolds(C!AckId)
  /\ SendSeen /\ CometSeen /\ AbandonedSeen
  /\ CometStaged

LEMMA BatchOfFlight ==
  ASSUME NEW r \in Flights
  PROVE  [i \in DOMAIN r |-> r[i].data] \in S!Batches
<1>1. /\ r \in Seq(C!Packet) /\ Len(r) \in 1..2
      /\ \A i \in 1..Len(r) : r[i].data \in Data \cup {Null}
  BY DEF Flights
<1>2. DOMAIN r = 1..Len(r)
  BY <1>1, LenProperties
<1>3. [i \in DOMAIN r |-> r[i].data] \in [1..Len(r) -> S!Payloads]
  BY <1>1, <1>2 DEF S!Payloads
<1> QED
  BY <1>1, <1>3 DEF S!Batches

LEMMA HandledMoves ==
  ASSUME LinkInv, NEW req, req.ack \in 0..C!AckId,
         req.kind = "send" => req.packets \in requests, ServerHandles(req)
  PROVE  /\ ServerMoves(C!AckId)
         /\ req.kind # "send" => Len(comets') = Len(comets) + 1
<1>1. /\ ServerHolds(C!AckId) /\ C!AckId \in Nat /\ C!AckId =< MaxPackets
      /\ req.ack \in S!Acks
  BY AckIds, NumbersAreNat DEF LinkInv, S!Acks
<1> DEFINE seen == C!AckId
           ack == req.ack
<1>2. ServerHolds(seen) /\ seen \in Nat /\ seen =< MaxPackets /\ ack \in 0..seen
  BY <1>1
<1>3. CASE req.kind = "send"
  <2> DEFINE b == [i \in DOMAIN req.packets |-> req.packets[i].data]
  <2>1. Server!CspSend(Plain, ack, b)
    BY <1>3 DEF ServerHandles
  <2>2. b \in S!Batches
    <3>1. req.packets \in Flights
      BY <1>3 DEF LinkInv, ClientSide
    <3> QED
      BY <3>1, BatchOfFlight
  <2> HIDE DEF b, seen, ack
  <2>3. S!CspSend(Plain, ack, b)
    BY <2>1, SameServer
  <2>4. ServerMoves(seen)
    BY <1>2, <2>2, <2>3, RequestMoves
  <2> QED
    BY <1>3, <2>4 DEF seen
<1>4. CASE req.kind # "send"
  <2>1. Server!Comet(Plain, ack)
    BY <1>4 DEF ServerHandles
  <2> HIDE DEF seen, ack
  <2>2. S!Comet(Plain, ack)
    BY <2>1, SameServer
  <2>3. ServerMoves(seen)
    BY <1>2, <2>2, RequestMoves
  <2>4. Len(comets') = Len(comets) + 1
    <3>1. ack \in S!Acks
      BY <1>1 DEF ack
    <3> QED
      BY <1>2, <2>2, <3>1, CometGrows
  <2> QED
    BY <2>3, <2>4 DEF seen
<1> QED
  BY <1>3, <1>4

(* The client, beside a server that only makes packets, is as it was.      *)
LEMMA ServerLeavesClient ==
  ASSUME ClientSide, UNCHANGED clientVars, SentAPacket,
         packets \in Seq(Data \cup {Null})
  PROVE  ClientSide' /\ C!AckId' = C!AckId
<1>1. C!ClientInv' /\ C!LoopInv' /\ C!RetryInv'
  <2>1. UNCHANGED C!vars
    BY DEF clientVars, C!vars, C!writing
  <2>2. C!ClientInv' /\ C!LoopInv'
    BY <2>1, Bounds, C!ClientNext, C!LoopNext DEF ClientSide
  <2>3. C!RetryInv'
    <3>1. /\ UNCHANGED <<packetsInFlight, lastSentId, requests>>
          /\ nulls' \ {"inBuffer", "sent"} = nulls \ {"inBuffer", "sent"}
          /\ "write" \in timers' => "write" \in timers
      BY DEF clientVars
    <3> QED
      BY <3>1, Bounds, C!RetryUnchanged DEF ClientSide
  <2> QED
    BY <2>2, <2>3
<1>2. C!AckId' = C!AckId
  BY DEF clientVars, C!AckId, C!NoEvent
<1>3. Len(packets) \in Nat /\ Len(packets') \in Nat /\ Len(packets) =< Len(packets')
  <2>1. Len(packets) \in Nat
    BY LenProperties
  <2>2. ASSUME NEW d \in Data \cup {Null}
        PROVE  Len(Append(packets, d)) = Len(packets) + 1
    BY AppendProperties
  <2> QED
    BY <2>1, <2>2 DEF SentAPacket
<1>4. \A id \in 1..Len(packets) : id \in 1..Len(packets')
  BY <1>3
<1>5. UNCHANGED <<packetsInFlight, nulls, requests, response, delivered>>
  BY DEF clientVars
<1>6. FlightShape' /\ requests' \subseteq Flights'
  BY <1>5 DEF ClientSide, FlightShape, Flights
<1>7. Offered(response', Len(packets'))
  BY <1>4, <1>5 DEF ClientSide, Offered
<1>8. \A i \in 1..Len(delivered') : delivered'[i] \in 1..Len(packets')
  BY <1>4, <1>5 DEF ClientSide
<1> QED
  BY <1>1, <1>2, <1>6, <1>7, <1>8 DEF ClientSide, Offered

LEMMA AckIdsNext ==
  ASSUME ClientSide'
  PROVE  C!AckId' \in Nat /\ C!AckId' =< MaxPackets
<1>1. (ClientSide => lastEventId \in {C!NoEvent} \cup 1..MaxPackets)'
  BY SeenIds, PTL
<1>2. lastEventId' \in {C!NoEvent} \cup 1..MaxPackets
  BY <1>1 DEF C!NoEvent
<1> QED
  BY <1>2, NumbersAreNat DEF C!AckId, C!NoEvent

LEMMA LinkByClient ==
  ASSUME LinkInv, ClientSteps, UNCHANGED serverVars
  PROVE  /\ ClientSide' /\ ServerHolds(C!AckId)'
         /\ SendSeen' /\ CometSeen'
         /\ \A ack \in 0..C!AckId : ack \in 0..C!AckId'
         /\ requests \subseteq requests'
         /\ Len(comets') = Len(comets)
<1>1. ClientSide' /\ C!AckId =< C!AckId' /\ requests \subseteq requests'
  BY ClientKeeps DEF LinkInv, serverVars
<1>2. C!AckId \in Nat /\ C!AckId' \in Nat
  BY <1>1, AckIds, AckIdsNext DEF LinkInv
<1>3. \A ack \in 0..C!AckId : ack \in 0..C!AckId'
  BY <1>1, <1>2
<1>4. SendSeen'
  <2>1. SendMoves
    BY ClientSends DEF LinkInv
  <2>2. C!AckId \in 0..C!AckId
    BY <1>2
  <2> QED
    BY <1>1, <1>3, <2>1, <2>2 DEF SendMoves, SendSeen, LinkInv
<1>5. CometSeen'
  <2>1. CometAsks \/ cometXhr' = C!Idle
    BY ClientAsks DEF LinkInv
  <2>2. C!AckId \in 0..C!AckId
    BY <1>2
  <2> QED
    BY <1>3, <2>1, <2>2 DEF CometAsks, C!Idle, CometSeen, LinkInv
<1>6. ServerHolds(C!AckId)'
  <2> DEFINE seen == C!AckId
  <2>1. ServerHolds(seen)
    BY DEF LinkInv
  <2> HIDE DEF seen
  <2>2. ServerMoves(seen)
    BY <2>1, ServerSame
  <2>3. \A i \in 1..Len(packets) : i \in unsent \cup unacked \/ i =< seen
    BY <2>1 DEF ServerHolds, HeldOrSeen
  <2>4. Len(packets) \in Nat
    BY <2>1, ServerTypes
  <2>5. \A i \in 1..Len(packets) : i \in unsent \cup unacked \/ i =< C!AckId'
    BY <1>1, <1>2, <2>3, <2>4 DEF seen
  <2>6. HeldOrSeen(C!AckId)'
    BY <2>5 DEF HeldOrSeen, serverVars
  <2> QED
    BY <2>2, <2>6 DEF ServerMoves, ServerDoes, ServerHolds
<1>7. Len(comets') = Len(comets)
  BY DEF serverVars
<1> QED
  BY <1>1, <1>3, <1>4, <1>5, <1>6, <1>7

LEMMA LinkByServer ==
  ASSUME LinkInv, UNCHANGED clientVars, ServerMoves(C!AckId)
  PROVE  /\ ClientSide' /\ ServerHolds(C!AckId)'
         /\ SendSeen' /\ CometSeen'
         /\ C!AckId' = C!AckId /\ requests' = requests
         /\ Len(comets) \in Nat /\ Len(comets') \in Nat
         /\ Len(comets) =< Len(comets')
<1> DEFINE seen == C!AckId
<1>0. ServerHolds(seen) /\ ServerMoves(seen)
  BY DEF LinkInv
<1> HIDE DEF seen
<1>1. packets \in Seq(Data \cup {Null}) /\ Len(comets) \in Nat
  BY <1>0, ServerTypes
<1>2. SentAPacket /\ Len(comets) =< Len(comets')
  BY <1>0 DEF ServerMoves, ServerDoes
<1>3. ClientSide' /\ C!AckId' = C!AckId
  BY <1>1, <1>2, ServerLeavesClient DEF LinkInv
<1>4. ServerHolds(C!AckId)'
  <2>1. seen = C!AckId'
    BY <1>3 DEF seen
  <2> QED
    BY <1>0, <2>1 DEF ServerMoves, ServerDoes, ServerHolds, HeldOrSeen
<1>5. SendSeen' /\ CometSeen' /\ requests' = requests
  BY <1>3 DEF LinkInv, SendSeen, CometSeen, clientVars
<1>6. Len(comets') \in Nat
  <2>1. comets' \in Seq(S!Bodies)
    BY <1>0 DEF ServerMoves, S!CometInv, S!TypeOK
  <2> QED
    BY <2>1, LenProperties
<1> QED
  BY <1>1, <1>2, <1>3, <1>4, <1>5, <1>6

(***************************************************************************)
(* The answer to a comet: the one batch that was written on the body while *)
(* it was open, consecutive packets of those the server made.              *)
(***************************************************************************)
LEMMA OneBatch ==
  ASSUME S!TypeOK, S!OneBatchPerBody, ~settings.is, NEW b, Written(b)
  PROVE  \E k \in 1..Len(wire) : Received(b) = wire[k].ids
<1>1. DOMAIN wire = 1..Len(wire)
  BY LenProperties DEF S!TypeOK
<1>2. PICK k \in DOMAIN wire : wire[k].body = b /\ wire[k].open
  BY DEF Written
<1>3. \A j \in DOMAIN wire : wire[j].body = b /\ wire[j].open => j = k
  BY <1>2 DEF S!OneBatchPerBody
<1>4. {j \in DOMAIN wire : wire[j].body = b /\ wire[j].open} = {k}
  BY <1>2, <1>3
<1>5. Received(b) = wire[k].ids
  BY <1>4 DEF Received
<1> QED
  BY <1>1, <1>2, <1>5

LEMMA BatchOfRun ==
  ASSUME ClientSide, Len(packets) \in Nat, Len(packets) =< MaxPackets,
         NEW a \in 0..Len(packets), NEW z \in 0..Len(packets)
  PROVE  Batch(a + 1..z) \in C!Responses /\ Offered(Batch(a + 1..z), Len(packets))
<1> DEFINE ids == a + 1..z
           n == Cardinality(ids)
           last == Len(packets)
           before == CHOOSE m \in 0..last : ids = (m + 1)..(m + n)
<1>1. n = IF a + 1 > z THEN 0 ELSE z - a
  <2>1. a + 1 \in Int /\ z \in Int
    OBVIOUS
  <2>2. n = IF a + 1 > z THEN 0 ELSE z - (a + 1) + 1
    BY <2>1, FS_Interval
  <2> QED
    BY <2>2
<1>2. Batch(ids) = [i \in 1..n |-> EventPacket(before + i)]
  BY DEF Batch
<1> HIDE DEF n, last
<1>3. n \in 0..last /\ last \in Nat
  BY <1>1 DEF last
<1>4. ids = (a + 1)..(a + n)
  BY <1>1
<1>5. before \in 0..last /\ ids = (before + 1)..(before + n)
  <2>1. a \in 0..last
    BY DEF last
  <2> QED
    BY <1>4, <2>1
<1> HIDE DEF before
<1>6. ASSUME NEW i \in 1..n
      PROVE  before + i \in 1..last
  <2>1. before + i \in ids
    BY <1>3, <1>5
  <2>2. ids \subseteq 1..last
    BY DEF last
  <2> QED
    BY <2>1, <2>2
<1>7. ASSUME NEW i \in 1..n
      PROVE  EventPacket(before + i) \in C!EventPackets
  <2>1. before + i \in 1..MaxPackets
    BY <1>6, NumbersAreNat DEF last
  <2> QED
    BY <2>1 DEF EventPacket, C!EventPackets, C!PacketKinds, MaxEventId
<1>8. ASSUME NEW i \in 1..n
      PROVE  EventPacket(before + i).id \in 1..last
  BY <1>6, <1>8 DEF EventPacket
<1> DEFINE batch == [i \in 1..n |-> EventPacket(before + i)]
<1>9. batch \in C!Responses
  <2>1. batch \in [1..n -> C!EventPackets]
    BY <1>7
  <2>2. n \in 0..MaxBatch
    BY <1>3, NumbersAreNat DEF last, MaxBatch
  <2> HIDE DEF batch
  <2> QED
    BY <2>1, <2>2 DEF C!Responses
<1>10. Len(batch) = n
  BY <1>3
<1>11. Offered(batch, last)
  BY <1>8, <1>10 DEF Offered
<1> HIDE DEF batch
<1>12. Batch(ids) = batch
  BY <1>2 DEF batch
<1> QED
  BY <1>9, <1>11, <1>12 DEF last

LEMMA BatchOffered ==
  ASSUME LinkInv, Written(cometBody)
  PROVE  LET batch == Batch(Received(cometBody))
         IN  batch \in C!Responses /\ Offered(batch, Len(packets))
<1> DEFINE seen == C!AckId
<1>1. ServerHolds(seen) /\ ClientSide
  BY DEF LinkInv
<1> HIDE DEF seen
<1>2. S!TypeOK /\ Len(packets) \in Nat /\ Len(packets) =< MaxPackets
  BY <1>1, ServerTypes
<1>3. PICK k \in 1..Len(wire) : Received(cometBody) = wire[k].ids
  BY <1>1, <1>2, OneBatch DEF ServerHolds, S!CometInv
<1>4. PICK a \in 0..Len(packets), z \in 0..Len(packets) : wire[k].ids = a + 1..z
  BY <1>1 DEF ServerHolds, S!RunsInv, S!WireRuns
<1>5. Batch(a + 1..z) \in C!Responses /\ Offered(Batch(a + 1..z), Len(packets))
  BY <1>1, <1>2, BatchOfRun
<1>6. Received(cometBody) = a + 1..z
  BY <1>3, <1>4
<1> QED
  BY <1>5, <1>6

(* A step is a step of the client, or one of the server.                   *)
ClientHalf ==
  ClientRuns \/ SendSucceeds \/ CometSucceeds \/ HandshakeFails \/ SendFails \/ CometFails

ServerHalf == ServerRuns \/ \E b \in 1..MaxComets : ServerNoticesLoss(b)

Arrivals ==
  \/ HandshakeArrives \/ SendArrives \/ CometArrives
  \/ \E a \in abandoned : AbandonedArrives(a)

LEMMA ClientHalfSteps ==
  ASSUME LinkInv, ClientHalf
  PROVE  ClientSteps /\ UNCHANGED serverVars
<1>1. CASE ClientRuns \/ SendSucceeds \/ HandshakeFails \/ SendFails \/ CometFails
  BY <1>1, SameClient
     DEF ClientRuns, SendSucceeds, HandshakeFails, SendFails, CometFails, ClientSteps
<1>2. CASE CometSucceeds
  <2> DEFINE batch == Batch(Received(cometBody))
  <2>1. CASE Written(cometBody)
    <3>1. Client!CometSuccess(batch) /\ UNCHANGED serverVars
      BY <1>2, <2>1 DEF CometSucceeds
    <3>2. batch \in C!Responses /\ Offered(batch, Len(packets))
      BY <2>1, BatchOffered
    <3> HIDE DEF batch
    <3> QED
      BY <3>1, <3>2, SameClient DEF ClientSteps
  <2>2. CASE ~Written(cometBody)
    <3>1. Client!CometEmpty /\ UNCHANGED serverVars
      BY <1>2, <2>2 DEF CometSucceeds
    <3> QED
      BY <3>1, SameClient DEF ClientSteps
  <2> QED
    BY <2>1, <2>2
<1> QED
  BY <1>1, <1>2 DEF ClientHalf

LEMMA ArrivalsMove ==
  ASSUME LinkInv, Arrivals
  PROVE  /\ UNCHANGED clientVars /\ ServerMoves(C!AckId)
         /\ abandoned' \subseteq abandoned
         /\ \/ UNCHANGED <<cometStage, cometBody>>
            \/ cometStage' = "refused"
            \/ /\ cometStage' = "held" /\ cometBody' = Len(comets')
               /\ Len(comets') = Len(comets) + 1
<1> DEFINE seen == C!AckId
<1>0. seen \in Nat /\ seen =< MaxPackets /\ ServerHolds(seen)
  BY AckIds DEF LinkInv
<1>1. ASSUME UNCHANGED serverVars
      PROVE  ServerMoves(seen)
  <2> HIDE DEF seen
  <2> QED
    BY <1>0, <1>1, ServerSame
<1>2. CASE HandshakeArrives
  <2>1. S!Handshake(Plain)
    BY <1>2, SameServer DEF HandshakeArrives
  <2>2. ServerMoves(seen)
    <3>1. 0 \in 0..seen
      BY <1>0
    <3> HIDE DEF seen
    <3> QED
      BY <1>0, <2>1, <3>1, RequestMoves
  <2> QED
    BY <1>2, <2>2 DEF HandshakeArrives
<1>3. CASE SendArrives
  BY <1>1, <1>3, HandledMoves DEF SendArrives, LinkInv, SendSeen
<1>4. CASE CometArrives
  <2>1. cometXhr.kind = "comet" /\ cometXhr.ack \in 0..C!AckId
    BY <1>4 DEF CometArrives, LinkInv, CometStaged, CometSeen
  <2> QED
    BY <1>1, <1>4, <2>1, HandledMoves DEF CometArrives
<1>5. ASSUME NEW a \in abandoned, AbandonedArrives(a)
      PROVE  /\ UNCHANGED clientVars /\ ServerMoves(C!AckId)
             /\ abandoned' \subseteq abandoned /\ UNCHANGED <<cometStage, cometBody>>
  BY <1>5, HandledMoves DEF AbandonedArrives, LinkInv, AbandonedSeen
<1> QED
  BY <1>2, <1>3, <1>4, <1>5 DEF Arrivals

LEMMA ServerHalfMoves ==
  ASSUME LinkInv, ServerHalf
  PROVE  /\ UNCHANGED clientVars /\ ServerMoves(C!AckId)
         /\ UNCHANGED <<cometStage, cometBody, abandoned>>
<1>1. UNCHANGED <<clientVars, cometStage, cometBody, abandoned>>
  BY DEF ServerHalf, ServerRuns, ServerNoticesLoss, linkVars
<1> DEFINE seen == C!AckId
<1>2. ServerHolds(seen)
  BY DEF LinkInv
<1>3. \/ S!Tick \/ \E t \in 1..MaxComets : S!TimerFires(t)
      \/ \E b \in 1..MaxComets : S!ConnectionLost(b)
  BY SameServer DEF ServerHalf, ServerRuns, ServerNoticesLoss
<1>4. ServerMoves(seen)
  <2> HIDE DEF seen
  <2> QED
    BY <1>2, <1>3, TickMoves, TimerMoves, LossMoves
<1> QED
  BY <1>1, <1>4

LEMMA LinkByServerHalf ==
  ASSUME LinkInv, ServerHalf \/ Arrivals
  PROVE  LinkInv'
<1>1. /\ UNCHANGED clientVars /\ ServerMoves(C!AckId)
      /\ abandoned' \subseteq abandoned
      /\ \/ UNCHANGED <<cometStage, cometBody>>
         \/ cometStage' = "refused"
         \/ /\ cometStage' = "held" /\ cometBody' = Len(comets')
            /\ Len(comets') = Len(comets) + 1
  BY ArrivalsMove, ServerHalfMoves
<1>2. /\ C!AckId' = C!AckId /\ requests' = requests
      /\ Len(comets) \in Nat /\ Len(comets') \in Nat
      /\ Len(comets) =< Len(comets')
  BY <1>1, LinkByServer
<1>3. AbandonedSeen'
  BY <1>1, <1>2 DEF LinkInv, AbandonedSeen
<1>4. CometStaged'
  <2> DEFINE n == Len(comets)
             next == Len(comets')
  <2>1. /\ cometStage = "held" => cometBody \in 1..n
        /\ cometStage = "travelling" => cometXhr.kind = "comet"
        /\ cometXhr' = cometXhr
    BY <1>1 DEF LinkInv, CometStaged, clientVars
  <2>2. /\ n \in Nat /\ next \in Nat /\ n =< next
        /\ \/ UNCHANGED <<cometStage, cometBody>>
           \/ cometStage' = "refused"
           \/ cometStage' = "held" /\ cometBody' = next /\ next = n + 1
    BY <1>1, <1>2
  <2> HIDE DEF n, next
  <2>3. /\ cometStage' = "held" => cometBody' \in 1..next
        /\ cometStage' = "travelling" => cometXhr'.kind = "comet"
    BY <2>1, <2>2
  <2> QED
    BY <2>3 DEF CometStaged, next
<1> QED
  BY <1>1, <1>3, <1>4, LinkByServer DEF LinkInv

LEMMA LinkByClientHalf ==
  ASSUME LinkInv, ClientHalf
  PROVE  LinkInv'
<1>1. ClientSteps /\ UNCHANGED serverVars
  BY ClientHalfSteps
<1>2. /\ \A ack \in 0..C!AckId : ack \in 0..C!AckId'
      /\ requests \subseteq requests' /\ Len(comets') = Len(comets)
  BY <1>1, LinkByClient
<1>3. AbandonedSeen'
  <2>1. \A a \in abandoned' :
          /\ a.req.ack \in 0..C!AckId
          /\ a.req.kind = "send" => a.req.packets \in requests
    <3>1. CASE SendFails
      <4>1. sendXhr.kind = "send"
        BY <3>1 DEF SendFails, Client!WriteFailure, Client!SendAnswered
      <4>2. \A a \in abandoned' : a \in abandoned \/ a.req = sendXhr
        BY <3>1 DEF SendFails, Abandoned
      <4> QED
        BY <4>1, <4>2 DEF LinkInv, SendSeen, AbandonedSeen
    <3>2. CASE CometFails
      <4>1. cometXhr.kind = "comet"
        BY <3>2 DEF CometFails, Client!CometFailure, Client!CometAnswered
      <4>2. \A a \in abandoned' : a \in abandoned \/ a.req = cometXhr
        BY <3>2 DEF CometFails, Abandoned
      <4> QED
        BY <4>1, <4>2 DEF LinkInv, CometSeen, AbandonedSeen
    <3>3. CASE ClientRuns \/ SendSucceeds \/ CometSucceeds \/ HandshakeFails
      <4>1. abandoned' = abandoned
        BY <3>3 DEF ClientRuns, SendSucceeds, CometSucceeds, HandshakeFails
      <4> QED
        BY <4>1 DEF LinkInv, AbandonedSeen
    <3> QED
      BY <3>1, <3>2, <3>3 DEF ClientHalf
  <2> QED
    BY <1>2, <2>1 DEF AbandonedSeen
<1>4. CometStaged'
  <2>1. CASE ClientRuns
    <3>1. /\ C!Application \/ C!Timers \/ C!Continue
          /\ UNCHANGED cometBody /\ Polling
      BY <2>1, SameClient DEF ClientRuns
    <3>2. CometAsks
      BY <3>1, ClientRunsAsk
    <3> QED
      BY <1>2, <3>1, <3>2 DEF CometAsks, CometStaged, Polling, Client!Idle, LinkInv
  <2>2. CASE CometSucceeds \/ CometFails
    BY <2>2 DEF CometSucceeds, CometFails, CometStaged
  <2>3. CASE SendSucceeds \/ HandshakeFails \/ SendFails
    <3>1. UNCHANGED <<cometXhr, cometStage, cometBody>>
      BY <2>3 DEF SendSucceeds, HandshakeFails, SendFails,
                  Client!HandshakeSuccess, Client!WriteSuccess,
                  Client!HandshakeFailure, Client!WriteFailure
    <3> QED
      BY <1>2, <3>1 DEF CometStaged, LinkInv
  <2> QED
    BY <2>1, <2>2, <2>3 DEF ClientHalf
<1> QED
  BY <1>1, <1>3, <1>4, LinkByClient DEF LinkInv

LEMMA Halves ==
  ASSUME Next
  PROVE  ClientHalf \/ ServerHalf \/ Arrivals
BY DEF Next, ClientHalf, ServerHalf, Arrivals

LEMMA NoStepMoves ==
  ASSUME LinkInv, UNCHANGED vars
  PROVE  UNCHANGED clientVars /\ ServerMoves(C!AckId)
<1> DEFINE seen == C!AckId
<1>1. UNCHANGED clientVars /\ UNCHANGED serverVars /\ ServerHolds(seen)
  BY DEF vars, LinkInv
<1> HIDE DEF seen
<1>2. ServerMoves(seen)
  BY <1>1, ServerSame
<1> QED
  BY <1>1, <1>2 DEF seen

LEMMA LinkStep == LinkInv /\ [Next]_vars => LinkInv'
<1>1. ASSUME LinkInv, UNCHANGED vars
      PROVE  LinkInv'
  <2>1. UNCHANGED clientVars /\ UNCHANGED <<cometStage, cometBody, abandoned, comets>>
    BY <1>1 DEF vars, serverVars, linkVars
  <2>2. ServerMoves(C!AckId)
    BY <1>1, NoStepMoves
  <2>3. AbandonedSeen' /\ CometStaged'
    BY <1>1, <2>1, <2>2, LinkByServer DEF LinkInv, AbandonedSeen, CometStaged, clientVars
  <2> QED
    BY <1>1, <2>1, <2>2, <2>3, LinkByServer DEF LinkInv
<1> QED
  BY <1>1, Halves, LinkByClientHalf, LinkByServerHalf

LEMMA LinkInit == Init => LinkInv
<1> SUFFICES ASSUME Init
             PROVE  LinkInv
  OBVIOUS
<1>1. C!Init /\ S!Init
  BY SameClient, SameServer DEF Init
<1>2. C!ClientInv /\ C!LoopInv /\ C!RetryInv
  BY <1>1, Bounds, C!ClientInit, C!LoopInit, C!RetryInit
<1>3. S!CometInv /\ S!RunsInv
  <2>1. S!TypeOK
    BY <1>1, Bounds, S!TypeInit
  <2> QED
    BY <1>1, <2>1, Bounds, S!CometInit, S!RunsInit
<1>4. packets = <<>> /\ ~settings.is
  BY <1>1 DEF S!Init
<1>5. /\ lastEventId = C!NoEvent /\ response = <<>> /\ delivered = <<>>
      /\ packetsInFlight = <<>> /\ requests = {}
      /\ sendXhr = C!Idle /\ cometXhr = C!Idle
  BY <1>1 DEF C!Init
<1>6. Len(<<>>) = 0
  BY EmptySeq
<1>7. ClientSide
  BY <1>2, <1>5, <1>6 DEF ClientSide, FlightShape, Offered
<1>8. ServerHolds(C!AckId)
  BY <1>3, <1>4, <1>6 DEF ServerHolds, HeldOrSeen
<1> QED
  BY <1>5, <1>7, <1>8
     DEF LinkInv, SendSeen, CometSeen, AbandonedSeen, CometStaged, C!Idle, Init

(* ForgottenWasSeen, for any number of writes, packets, comets and faults: *)
(* the server forgets no packet that its client has not got past, however  *)
(* old the acknowledgement that reaches it (acknowledge, _cometSuccess).   *)
THEOREM ForgottenSeen == Spec => []ForgottenWasSeen
<1>1. LinkInv => ForgottenWasSeen
  <2> SUFFICES ASSUME LinkInv, NEW i \in 1..Len(packets), i \notin unsent \cup unacked
               PROVE  i =< lastEventId
    BY DEF ForgottenWasSeen
  <2>1. i =< C!AckId
    BY DEF LinkInv, ServerHolds, HeldOrSeen
  <2>2. ~(i =< 0)
    OBVIOUS
  <2> QED
    BY <2>1, <2>2, AckIds DEF LinkInv
<1> QED
  BY <1>1, LinkInit, LinkStep, PTL DEF Spec

(***************************************************************************)
(* The refinement: the packets that the server makes are what its          *)
(* application sends, and a step of the client that delivers one reads the *)
(* packet after those read.                                                *)
(***************************************************************************)
ReadOf(ids, ps) == [i \in DOMAIN ids |-> ps[ids[i]]]

LEMMA ReadTypes ==
  ASSUME NEW V, NEW ps \in Seq(V), NEW ids \in Seq(1..Len(ps))
  PROVE  /\ ReadOf(ids, ps) \in Seq(V) /\ Len(ReadOf(ids, ps)) = Len(ids)
         /\ \A i \in 1..Len(ids) : ReadOf(ids, ps)[i] = ps[ids[i]]
<1>1. Len(ids) \in Nat /\ DOMAIN ids = 1..Len(ids)
      /\ \A i \in 1..Len(ids) : ids[i] \in 1..Len(ps)
  BY LenProperties, ElementOfSeq
<1>2. \A i \in 1..Len(ids) : ps[ids[i]] \in V
  BY <1>1, ElementOfSeq
<1>3. ReadOf(ids, ps) \in [1..Len(ids) -> V]
  BY <1>1, <1>2 DEF ReadOf
<1> QED
  BY <1>1, <1>3 DEF ReadOf

LEMMA ReadMore ==
  ASSUME NEW V, NEW ps \in Seq(V), NEW ids \in Seq(1..Len(ps)), NEW id \in 1..Len(ps)
  PROVE  ReadOf(Append(ids, id), ps) = Append(ReadOf(ids, ps), ps[id])
<1> DEFINE more == Append(ids, id)
           s == ReadOf(ids, ps)
           t == ReadOf(more, ps)
           u == Append(s, ps[id])
           n == Len(ids)
<1>1. /\ more \in Seq(1..Len(ps)) /\ Len(more) = n + 1 /\ n \in Nat
      /\ \A i \in 1..n : more[i] = ids[i]
      /\ more[n + 1] = id
  BY AppendProperties, LenProperties
<1>2. /\ s \in Seq(V) /\ Len(s) = n
      /\ \A i \in 1..n : s[i] = ps[ids[i]]
  BY ReadTypes
<1>3. /\ t \in Seq(V) /\ Len(t) = n + 1
      /\ \A i \in 1..n + 1 : t[i] = ps[more[i]]
  <2>1. more \in Seq(1..Len(ps)) /\ Len(more) = n + 1
    BY <1>1
  <2> HIDE DEF more, n
  <2>2. /\ t \in Seq(V) /\ Len(t) = Len(more)
        /\ \A i \in 1..Len(more) : t[i] = ps[more[i]]
    BY <2>1, ReadTypes
  <2> HIDE DEF t
  <2> QED
    BY <2>1, <2>2
<1> HIDE DEF s, t, more, n
<1>4. ps[id] \in V
  BY ElementOfSeq
<1>5. /\ u \in Seq(V) /\ Len(u) = n + 1
      /\ \A i \in 1..n : u[i] = s[i]
      /\ u[n + 1] = ps[id]
  BY <1>2, <1>4, AppendProperties
<1> HIDE DEF u
<1>6. \A i \in 1..n + 1 : t[i] = u[i]
  <2> TAKE i \in 1..n + 1
  <2>1. i \in 1..n \/ i = n + 1
    BY <1>1
  <2>2. CASE i \in 1..n
    <3>1. t[i] = ps[more[i]] /\ more[i] = ids[i]
      BY <1>1, <1>3, <2>2
    <3>2. u[i] = s[i] /\ s[i] = ps[ids[i]]
      BY <1>2, <1>5, <2>2
    <3> QED
      BY <3>1, <3>2
  <2>3. CASE i = n + 1
    BY <1>1, <1>3, <1>5, <2>3
  <2> QED
    BY <2>1, <2>2, <2>3
<1>7. t = u
  BY <1>3, <1>5, <1>6, SeqEqual
<1> QED
  BY <1>7 DEF s, t, u, more

LEMMA ReadSame ==
  ASSUME NEW V, NEW ps \in Seq(V), NEW ids \in Seq(1..Len(ps)), NEW v \in V
  PROVE  ReadOf(ids, Append(ps, v)) = ReadOf(ids, ps)
<1>1. DOMAIN ids = 1..Len(ids) /\ \A i \in 1..Len(ids) : ids[i] \in 1..Len(ps)
  BY LenProperties, ElementOfSeq
<1>2. \A i \in 1..Len(ps) : Append(ps, v)[i] = ps[i]
  BY AppendProperties
<1> QED
  BY <1>1, <1>2 DEF ReadOf

LEMMA DeliveredOfPackets ==
  ASSUME LinkInv
  PROVE  /\ packets \in Seq(Data \cup {Null}) /\ Len(packets) \in Nat
         /\ delivered \in Seq(1..Len(packets))
<1> DEFINE seen == C!AckId
<1>1. ServerHolds(seen)
  BY DEF LinkInv
<1> HIDE DEF seen
<1>2. packets \in Seq(Data \cup {Null}) /\ Len(packets) \in Nat
  BY <1>1, ServerTypes
<1>3. delivered \in Seq(1..MaxEventId)
  BY Zenon DEF LinkInv, ClientSide, C!ClientInv, C!TypeOK
<1>4. DOMAIN delivered = 1..Len(delivered) /\ Len(delivered) \in Nat
      /\ delivered = [i \in 1..Len(delivered) |-> delivered[i]]
  BY <1>3, LenProperties
<1>5. \A i \in 1..Len(delivered) : delivered[i] \in 1..Len(packets)
  BY DEF LinkInv, ClientSide
<1>6. delivered \in [1..Len(delivered) -> 1..Len(packets)]
  BY <1>4, <1>5
<1> QED
  BY <1>2, <1>4, <1>6

LEMMA ServerSends ==
  ASSUME LinkInv, UNCHANGED clientVars, ServerMoves(C!AckId)
  PROVE  [Promise!Next]_(Promise!vars)
<1>1. packets \in Seq(Data \cup {Null}) /\ delivered \in Seq(1..Len(packets))
  BY DeliveredOfPackets
<1>2. delivered' = delivered
  BY DEF clientVars
<1>3. CASE packets' = packets
  BY <1>2, <1>3 DEF Promise!vars
<1>4. ASSUME NEW d \in Data \cup {Null}, packets' = Append(packets, d)
      PROVE  Promise!Next
  <2>1. ReadOf(delivered, packets') = ReadOf(delivered, packets)
    BY <1>1, <1>4, ReadSame
  <2>2. Promise!Send(d)
    BY <1>2, <1>4, <2>1 DEF Promise!Send, ReadOf
  <2> QED
    BY <2>2 DEF Promise!Next
<1>5. SentAPacket
  BY DEF ServerMoves, ServerDoes
<1> QED
  BY <1>3, <1>4, <1>5 DEF SentAPacket

LEMMA ClientReadsNext ==
  ASSUME LinkInv, LinkInv', ClientSteps, UNCHANGED serverVars
  PROVE  [Promise!Next]_(Promise!vars)
<1> DEFINE V == Data \cup {Null}
           n == Len(delivered)
           s == ReadOf(delivered, packets)
<1>1. /\ packets \in Seq(V) /\ Len(packets) \in Nat
      /\ delivered \in Seq(1..Len(packets))
  BY DeliveredOfPackets
<1>2. packets' = packets /\ ReadsOn
  BY ClientReads DEF serverVars, LinkInv
<1>3. n \in Nat /\ (delivered = <<>> <=> n = 0)
      /\ \A i \in 1..n : delivered[i] \in 1..Len(packets)
  BY <1>1, LenProperties, EmptySeq, ElementOfSeq
<1>4. CASE delivered' = delivered
  BY <1>2, <1>4 DEF Promise!vars
<1>5. ASSUME NEW id \in 1..Len(packets), delivered' = Append(delivered, id)
      PROVE  Promise!Next
  <2> DEFINE next == Append(delivered, id)
  <2>1. /\ Len(next) = n + 1 /\ next # <<>>
        /\ \A i \in 1..n : next[i] = delivered[i]
        /\ next[n + 1] = id
        /\ DOMAIN next = 1..n + 1
    <3> QED
      BY <1>1, <1>5, AppendProperties, LenProperties
  <2>2. ReadOf(next, packets) = Append(s, packets[id])
    <3> HIDE DEF V
    <3> QED
      BY <1>1, <1>5, ReadMore
  <2>3. s \in Seq(V) /\ Len(s) = n
    <3> HIDE DEF V
    <3> QED
      BY <1>1, ReadTypes
  <2>4. DOMAIN packets = 1..Len(packets)
    BY <1>1, LenProperties
  <2>5. [i \in DOMAIN delivered |-> packets[delivered[i]]]' = Append(s, packets[id])
    BY <1>2, <1>5, <2>2 DEF ReadOf
  <2>6. CASE n = 0
    <3>1. s = <<>>
      BY <2>3, <2>6, EmptySeq
    <3>2. next[1] = id
      BY <2>1, <2>6
    <3>3. Append(s, packets[id]) = <<packets[id]>>
      BY <3>1
    <3> HIDE DEF s, next
    <3>4. Promise!ReadFirst(id)
      BY <1>2, <1>3, <1>5, <2>1, <2>5, <2>6, <3>2, <3>3 DEF Promise!ReadFirst, next
    <3> QED
      BY <1>5, <2>4, <3>4 DEF Promise!Next
  <2>7. CASE n # 0
    <3>1. 1 \in 1..n /\ delivered # <<>> /\ delivered[1] \in 1..Len(packets)
      BY <1>3, <2>7
    <3>2. next[1] = delivered[1]
      BY <2>1, <3>1
    <3>3. delivered[1] + n = id
      <4>1. \A i \in DOMAIN delivered' : delivered'[i] = delivered'[1] + i - 1
        BY DEF LinkInv, ClientSide, C!LoopInv, C!Reading, C!DeliveredConsecutive
      <4>2. n + 1 \in DOMAIN next
        BY <1>3, <2>1
      <4>3. next[n + 1] = next[1] + (n + 1) - 1
        BY <1>5, <4>1, <4>2
      <4> QED
        BY <1>3, <2>1, <3>1, <3>2, <4>3
    <3>4. delivered[1] + Len(s) = id
      BY <2>3, <3>3
    <3> HIDE DEF next
    <3>5. Promise!ReadNext
      <4>1. s = [i \in DOMAIN delivered |-> packets[delivered[i]]]
        BY DEF ReadOf
      <4> HIDE DEF s
      <4> QED
        BY <1>2, <1>5, <2>1, <2>4, <2>5, <3>1, <3>2, <3>4, <4>1 DEF Promise!ReadNext, next
    <3> QED
      BY <3>5 DEF Promise!Next
  <2> QED
    BY <2>6, <2>7
<1> QED
  BY <1>2, <1>4, <1>5 DEF ReadsOn

(* ReadsOrderedStream, for any number of writes, packets, comets and       *)
(* faults, and whatever the network loses, repeats or delays: CspLink      *)
(* implements OrderedStream (session.rb, client.js).                       *)
THEOREM ReadsARun == Spec => ReadsOrderedStream
<1>1. Init => Promise!Init
  <2> SUFFICES ASSUME Init
               PROVE  Promise!Init
    OBVIOUS
  <2>1. packets = <<>> /\ delivered = <<>>
    BY DEF Init, Client!Init, Server!Init
  <2> QED
    BY <2>1 DEF Promise!Init
<1>2. LinkInv /\ LinkInv' /\ [Next]_vars => [Promise!Next]_(Promise!vars)
  <2> SUFFICES ASSUME LinkInv, LinkInv', [Next]_vars
               PROVE  [Promise!Next]_(Promise!vars)
    OBVIOUS
  <2>1. CASE ClientHalf
    BY <2>1, ClientHalfSteps, ClientReadsNext
  <2>2. CASE ServerHalf \/ Arrivals
    BY <2>2, ServerHalfMoves, ArrivalsMove, ServerSends
  <2>3. CASE UNCHANGED vars
    BY <2>3, NoStepMoves, ServerSends
  <2> QED
    BY <2>1, <2>2, <2>3, Halves
<1> QED
  BY <1>1, <1>2, LinkInit, LinkStep, PTL DEF Spec, ReadsOrderedStream, Promise!Spec

(***************************************************************************)
(* What the client no longer holds.  A /send is answered after its packets *)
(* were queued for the application, and what is queued is never dropped;   *)
(* while the answer is on its way the client keeps what it sent in flight. *)
(***************************************************************************)
SendCarries ==
  sendXhr.kind = "send" =>
    packetsInFlight # <<>> /\ sendXhr.packets = packetsInFlight

AllReceived(s) == \A w : Holds(s, w) => IsReceived(w)

AnsweredReceived ==
  (sendStage = "answered" /\ sendXhr.kind = "send") => AllReceived(C!FlightData)

GivenInv ==
  LinkInv /\ SendCarries /\ AnsweredReceived /\ AllReceived(acked)

ReceivedStays == \A w : IsReceived(w) => IsReceived(w)'

LEMMA CarriesOn ==
  ASSUME LinkInv, SendCarries, ClientSteps
  PROVE  SendCarries'
<1>1. SendMoves
  BY ClientSends DEF LinkInv
<1> QED
  BY <1>1 DEF SendMoves, SendCarries

(* Only the success of a /send acknowledges, and only what it carried.     *)
LEMMA RunsAcknowledgeNothing ==
  ASSUME C!Application \/ C!Timers \/ C!Continue
  PROVE  acked' = acked
<1>1. CASE C!Application
  BY <1>1 DEF C!Application, C!Connect, C!Write, C!Close
<1>2. CASE C!Timers
  BY <1>2 DEF C!Timers, C!HandshakeTimeout, C!HandshakeRetry, C!WriteTimer,
              C!CometTimer, C!TimeoutExpires
<1>3. CASE C!Continue
  BY <1>3 DEF C!Continue, C!OnConnectReturns, C!SkipPacket, C!DeliverPacket,
              C!OnReadReturns, C!ReceivedNullPacket, C!CorruptPacket,
              C!UnreadablePacket, C!PacketAhead, C!MissingPacket, C!PacketsDone
<1> QED
  BY <1>1, <1>2, <1>3

LEMMA AckedMoves ==
  ASSUME SendCarries, ClientHalf
  PROVE  \/ acked' = acked
         \/ /\ sendStage = "answered" /\ sendXhr.kind = "send"
            /\ acked' = acked \o C!FlightData
<1>1. CASE ClientRuns
  BY <1>1, SameClient, RunsAcknowledgeNothing DEF ClientRuns
<1>2. CASE SendSucceeds
  <2>1. sendStage = "answered" /\ (C!HandshakeSuccess \/ C!WriteSuccess)
    BY <1>2, SameClient DEF SendSucceeds
  <2>2. CASE C!HandshakeSuccess
    BY <2>2 DEF C!HandshakeSuccess
  <2>3. CASE C!WriteSuccess
    BY <2>1, <2>3 DEF C!WriteSuccess, C!SendAnswered, C!WriteSucceeds, C!FlightData,
                      SendCarries
  <2> QED
    BY <2>1, <2>2, <2>3
<1>3. CASE CometSucceeds \/ HandshakeFails \/ SendFails \/ CometFails
  BY <1>3 DEF CometSucceeds, HandshakeFails, SendFails, CometFails,
     Client!CometSuccess, Client!CometEmpty, Client!HandshakeFailure,
     Client!WriteFailure, Client!CometFailure
<1> QED
  BY <1>1, <1>2, <1>3 DEF ClientHalf

(* A request that is still the same has the same in flight.                *)
LEMMA AnswerStays ==
  ASSUME ClientHalf, sendStage' = "answered", sendXhr'.kind = "send"
  PROVE  sendStage = "answered" /\ sendXhr' = sendXhr
<1>1. CASE ClientRuns
  BY <1>1 DEF ClientRuns, Sending, Client!Idle
<1>2. CASE SendSucceeds \/ HandshakeFails \/ SendFails
  BY <1>2 DEF SendSucceeds, HandshakeFails, SendFails
<1>3. CASE CometSucceeds \/ CometFails
  BY <1>3 DEF CometSucceeds, CometFails, Client!CometSuccess, Client!CometEmpty,
     Client!CometFailure, Client!writing
<1> QED
  BY <1>1, <1>2, <1>3 DEF ClientHalf

LEMMA QueueLonger ==
  ASSUME NEW T, NEW q \in Seq(T), NEW more \in Seq(T), NEW w,
         Brings(q, w) \/ Brings(more, w)
  PROVE  Brings(q \o more, w)
<1> DEFINE n == Len(q)
           m == Len(more)
           both == q \o more
<1>1. /\ n \in Nat /\ m \in Nat /\ DOMAIN q = 1..n /\ DOMAIN more = 1..m
      /\ both \in Seq(T) /\ Len(both) = n + m
  BY LenProperties, ConcatProperties
<1>2. DOMAIN both = 1..n + m
  BY <1>1, LenProperties
<1>3. /\ \A i \in 1..n : both[i] = q[i]
      /\ \A i \in 1..m : both[n + i] = more[i]
  <2>1. \A i \in 1..n : i \in 1..n + m /\ i =< n
    BY <1>1
  <2>2. \A i \in 1..m : n + i \in 1..n + m /\ n + i > n /\ n + i - n = i
    BY <1>1
  <2> QED
    BY <1>1, <2>1, <2>2, ConcatProperties
<1> HIDE DEF n, m, both
<1>4. CASE Brings(q, w)
  <2>1. PICK i \in 1..n : q[i].call = "receive_data" /\ Holds(q[i].arg, w)
    BY <1>1, <1>4 DEF Brings
  <2>2. i \in 1..n + m /\ both[i] = q[i]
    BY <1>1, <1>3
  <2> QED
    BY <1>2, <2>1, <2>2 DEF Brings, both
<1>5. CASE Brings(more, w)
  <2>1. PICK i \in 1..m : more[i].call = "receive_data" /\ Holds(more[i].arg, w)
    BY <1>1, <1>5 DEF Brings
  <2>2. n + i \in 1..n + m /\ both[n + i] = more[i]
    BY <1>1, <1>3
  <2> QED
    BY <1>2, <2>1, <2>2 DEF Brings, both
<1> QED
  BY <1>4, <1>5

LEMMA QueueAppended ==
  ASSUME NEW T, NEW q \in Seq(T), NEW job \in T, NEW w,
         Brings(q, w) \/ (job.call = "receive_data" /\ Holds(job.arg, w))
  PROVE  Brings(Append(q, job), w)
<1>1. /\ Len(q) \in Nat /\ DOMAIN q = 1..Len(q)
      /\ DOMAIN Append(q, job) = 1..Len(q) + 1
      /\ \A i \in 1..Len(q) : Append(q, job)[i] = q[i]
      /\ Append(q, job)[Len(q) + 1] = job
  BY LenProperties, AppendProperties
<1>2. /\ \A i \in 1..Len(q) : i \in 1..Len(q) + 1
      /\ Len(q) + 1 \in 1..Len(q) + 1
  BY <1>1
<1> QED
  BY <1>1, <1>2 DEF Brings

LEMMA QueueShorter ==
  ASSUME NEW T, NEW q \in Seq(T), q # <<>>, NEW w, Brings(q, w)
  PROVE  \/ Brings(Tail(q), w)
         \/ Head(q).call = "receive_data" /\ Holds(Head(q).arg, w)
<1>1. PICK i \in DOMAIN q : q[i].call = "receive_data" /\ Holds(q[i].arg, w)
  BY DEF Brings
<1>2. /\ DOMAIN q = 1..Len(q) /\ Len(q) \in Nat /\ Head(q) = q[1]
      /\ Tail(q) \in Seq(T) /\ Len(Tail(q)) = Len(q) - 1
      /\ \A j \in 1..Len(Tail(q)) : Tail(q)[j] = q[j + 1]
  BY LenProperties, HeadTailProperties
<1>3. DOMAIN Tail(q) = 1..Len(q) - 1
  BY <1>2, LenProperties
<1>4. CASE i # 1
  <2>1. i - 1 \in 1..Len(q) - 1 /\ Tail(q)[i - 1] = q[i]
    BY <1>2, <1>4
  <2> QED
    BY <1>1, <1>3, <2>1 DEF Brings
<1> QED
  BY <1>1, <1>2, <1>4

(* What was queued or given stays so, whatever the server does.            *)
LEMMA TickStays ==
  ASSUME S!TypeOK, S!Tick
  PROVE  ReceivedStays
<1> SUFFICES ASSUME NEW w, IsReceived(w)
             PROVE  IsReceived(w)'
  BY DEF ReceivedStays
<1> DEFINE T == S!Jobs
<1>1. tickQueue \in Seq(T) /\ calls \in Seq(T)
  BY DEF S!TypeOK
<1>2. PICK call : S!RunJob(call)
  BY DEF S!Tick, S!Respond, S!PostInit, S!ReceiveData, S!Broadcast, S!Unbind
<1>3. /\ tickQueue # <<>> /\ Head(tickQueue).call = call /\ tickQueue' = Tail(tickQueue)
      /\ Head(tickQueue) \in T
  BY <1>1, <1>2, HeadTailProperties DEF S!RunJob
<1>4. \/ calls' = calls /\ Head(tickQueue).call # "receive_data"
      \/ calls' = Append(calls, Head(tickQueue))
  BY DEF S!Tick, S!Respond, S!PostInit, S!ReceiveData, S!Broadcast, S!Unbind,
         S!RunJob, S!Called
<1> HIDE DEF T
<1>5. CASE Brings(calls, w)
  <2>1. Brings(Append(calls, Head(tickQueue)), w)
    BY <1>1, <1>3, <1>5, QueueAppended
  <2> QED
    BY <1>4, <1>5, <2>1 DEF IsReceived, Brings
<1>6. CASE Brings(tickQueue, w)
  <2>1. \/ Brings(Tail(tickQueue), w)
        \/ /\ Head(tickQueue).call = "receive_data"
           /\ Holds(Head(tickQueue).arg, w)
    BY <1>1, <1>3, <1>6, QueueShorter
  <2>2. CASE Brings(Tail(tickQueue), w)
    BY <1>3, <2>2 DEF IsReceived, Brings
  <2>3. CASE Head(tickQueue).call = "receive_data" /\ Holds(Head(tickQueue).arg, w)
    <3>1. Brings(Append(calls, Head(tickQueue)), w)
      BY <1>1, <1>3, <2>3, QueueAppended
    <3> QED
      BY <1>4, <2>3, <3>1 DEF IsReceived, Brings
  <2> QED
    BY <2>1, <2>2, <2>3
<1> QED
  BY <1>5, <1>6 DEF IsReceived

LEMMA SameStays ==
  ASSUME UNCHANGED <<calls, tickQueue>>
  PROVE  ReceivedStays
BY DEF ReceivedStays, IsReceived, Brings

LEMMA QueuedStays ==
  ASSUME S!TypeOK, UNCHANGED calls,
         NEW job, tickQueue' = Append(tickQueue, job)
  PROVE  ReceivedStays
<1> SUFFICES ASSUME NEW w, IsReceived(w)
             PROVE  IsReceived(w)'
  BY DEF ReceivedStays
<1> DEFINE T == S!Jobs \cup {job}
<1>1. tickQueue \in Seq(T) /\ job \in T
  <2>1. tickQueue \in Seq(S!Jobs) /\ S!Jobs \subseteq T
    BY DEF S!TypeOK
  <2> QED
    BY <2>1, SeqMonotonic
<1> HIDE DEF T
<1>2. Brings(tickQueue, w) => Brings(Append(tickQueue, job), w)
  BY <1>1, QueueAppended
<1> QED
  BY <1>2 DEF IsReceived, Brings

(* A /send that is handled has all its data received.                      *)
LEMMA SendStays ==
  ASSUME S!TypeOK, NEW ack, NEW b \in S!Batches, S!CspSend(Plain, ack, b)
  PROVE  /\ ReceivedStays
         /\ \A i \in DOMAIN b : \A w : Holds(b[i], w) => IsReceived(w)'
<1> DEFINE T == S!Jobs
           more == S!ReceiveJobs(b)
<1>1. tickQueue \in Seq(T) /\ more \in Seq(T)
  BY Bounds, S!BatchJobs DEF S!TypeOK
<1>2. calls' = calls /\ tickQueue' = tickQueue \o more
  BY DEF S!CspSend
<1>3. ASSUME NEW i \in DOMAIN b, NEW w, Holds(b[i], w)
      PROVE  Brings(more, w)
  BY <1>3 DEF Brings, S!ReceiveJobs, S!Job
<1> HIDE DEF T, more
<1>4. ASSUME NEW w, Brings(tickQueue, w) \/ Brings(more, w)
      PROVE  IsReceived(w)'
  <2>1. Brings(tickQueue \o more, w)
    BY <1>1, <1>4, QueueLonger
  <2> QED
    BY <1>2, <2>1 DEF IsReceived, Brings
<1>5. ASSUME NEW w, Brings(calls, w)
      PROVE  IsReceived(w)'
  BY <1>2, <1>5 DEF IsReceived, Brings
<1>6. ReceivedStays
  BY <1>4, <1>5 DEF ReceivedStays, IsReceived
<1> QED
  BY <1>3, <1>4, <1>6

LEMMA HandledStays ==
  ASSUME LinkInv, NEW req,
         req.kind = "send" => req.packets \in requests, ServerHandles(req)
  PROVE  /\ ReceivedStays
         /\ req.kind = "send" =>
              \A w : Holds(req.packets[1].data, w) => IsReceived(w)'
<1> DEFINE seen == C!AckId
           ack == req.ack
<1>1. S!TypeOK
  <2>1. ServerHolds(seen)
    BY DEF LinkInv
  <2> HIDE DEF seen
  <2> QED
    BY <2>1, ServerTypes
<1>2. CASE req.kind = "send"
  <2> DEFINE b == [i \in DOMAIN req.packets |-> req.packets[i].data]
  <2>1. Server!CspSend(Plain, ack, b)
    BY <1>2 DEF ServerHandles
  <2>2. b \in S!Batches /\ 1 \in DOMAIN b /\ b[1] = req.packets[1].data
    <3>1. req.packets \in Flights
      BY <1>2 DEF LinkInv, ClientSide
    <3>2. /\ req.packets \in Seq(C!Packet) /\ Len(req.packets) \in 1..2
      BY <3>1 DEF Flights
    <3>3. 1 \in DOMAIN req.packets
      BY <3>2, LenProperties
    <3> QED
      BY <3>1, <3>3, BatchOfFlight
  <2> HIDE DEF b, ack
  <2>3. S!CspSend(Plain, ack, b)
    BY <2>1, SameServer
  <2>4. /\ ReceivedStays
        /\ \A i \in DOMAIN b : \A w : Holds(b[i], w) => IsReceived(w)'
    BY <1>1, <2>2, <2>3, SendStays
  <2>5. \A w : Holds(b[1], w) => IsReceived(w)'
    BY <2>2, <2>4
  <2> QED
    BY <2>2, <2>4, <2>5
<1>3. CASE req.kind # "send"
  <2>1. Server!Comet(Plain, ack)
    BY <1>3 DEF ServerHandles
  <2> HIDE DEF ack
  <2>2. S!Comet(Plain, ack)
    BY <2>1, SameServer
  <2>3. ReceivedStays
    <3> DEFINE job == S!Job("respond", S!AsyncBody + 1)
    <3>1. calls' = calls /\ tickQueue' = Append(tickQueue, job)
      BY <2>2 DEF S!Comet
    <3> HIDE DEF job
    <3> QED
      BY <1>1, <3>1, QueuedStays
  <2> QED
    BY <1>3, <2>3
<1> QED
  BY <1>2, <1>3

LEMMA ServerHalfStays ==
  ASSUME LinkInv, ServerHalf
  PROVE  ReceivedStays /\ UNCHANGED clientVars /\ UNCHANGED sendStage
<1>1. UNCHANGED clientVars /\ UNCHANGED sendStage
  BY DEF ServerHalf, ServerRuns, ServerNoticesLoss, linkVars
<1>2. S!TypeOK
  <2> DEFINE seen == C!AckId
  <2>1. ServerHolds(seen)
    BY DEF LinkInv
  <2> HIDE DEF seen
  <2> QED
    BY <2>1, ServerTypes
<1>3. \/ S!Tick \/ \E t \in 1..MaxComets : S!TimerFires(t)
      \/ \E b \in 1..MaxComets : S!ConnectionLost(b)
  BY SameServer DEF ServerHalf, ServerRuns, ServerNoticesLoss
<1>4. S!Tick \/ UNCHANGED <<calls, tickQueue>>
  BY <1>3 DEF S!TimerFires, S!ConnectionLost
<1> QED
  BY <1>1, <1>2, <1>4, TickStays, SameStays

LEMMA ArrivalsStay ==
  ASSUME LinkInv, SendCarries, Arrivals
  PROVE  /\ ReceivedStays /\ UNCHANGED clientVars
         /\ \/ UNCHANGED sendStage
            \/ sendStage' # "answered"
            \/ sendXhr.kind # "send"
            \/ \A w : Holds(C!FlightData, w) => IsReceived(w)'
<1>1. UNCHANGED clientVars
  BY ArrivalsMove
<1>2. CASE HandshakeArrives
  <2>1. S!TypeOK
    <3> DEFINE seen == C!AckId
    <3>1. ServerHolds(seen)
      BY DEF LinkInv
    <3> HIDE DEF seen
    <3> QED
      BY <3>1, ServerTypes
  <2>2. S!Handshake(Plain)
    BY <1>2, SameServer DEF HandshakeArrives
  <2> DEFINE job == S!Job("post_init", Null)
  <2>3. calls' = calls /\ tickQueue' = Append(tickQueue, job)
    BY <2>2 DEF S!Handshake
  <2> HIDE DEF job
  <2>4. ReceivedStays
    BY <2>1, <2>3, QueuedStays
  <2> QED
    BY <1>1, <1>2, <2>4 DEF HandshakeArrives
<1>3. CASE SendArrives
  <2>1. sendXhr.kind = "send" /\ sendXhr.packets \in requests
    BY <1>3 DEF SendArrives, LinkInv, SendSeen
  <2>2. CASE sendStage' = "refused" /\ UNCHANGED serverVars
    BY <1>1, <2>2, SameStays DEF serverVars
  <2>3. CASE ServerHandles(sendXhr)
    <3>1. /\ ReceivedStays
          /\ \A w : Holds(sendXhr.packets[1].data, w) => IsReceived(w)'
      BY <2>1, <2>3, HandledStays
    <3>2. sendXhr.packets[1].data = C!FlightData
      BY <2>1 DEF SendCarries, C!FlightData
    <3> QED
      BY <1>1, <3>1, <3>2
  <2> QED
    BY <1>3, <2>2, <2>3 DEF SendArrives
<1>4. CASE CometArrives
  <2>1. cometXhr.kind = "comet" /\ UNCHANGED sendStage
    BY <1>4 DEF CometArrives, LinkInv, CometStaged
  <2>2. CASE UNCHANGED serverVars
    BY <1>1, <2>1, <2>2, SameStays DEF serverVars
  <2>3. CASE ServerHandles(cometXhr)
    BY <1>1, <2>1, <2>3, HandledStays
  <2> QED
    BY <1>4, <2>2, <2>3 DEF CometArrives
<1>5. ASSUME NEW a \in abandoned, AbandonedArrives(a)
      PROVE  ReceivedStays /\ UNCHANGED sendStage
  <2>1. ServerHandles(a.req) /\ UNCHANGED sendStage
    BY <1>5 DEF AbandonedArrives
  <2>2. a.req.kind = "send" => a.req.packets \in requests
    BY DEF LinkInv, AbandonedSeen
  <2>3. ReceivedStays
    BY <2>1, <2>2, HandledStays
  <2> QED
    BY <2>1, <2>3
<1> QED
  BY <1>1, <1>2, <1>3, <1>4, <1>5 DEF Arrivals

LEMMA GivenByServer ==
  ASSUME GivenInv, ServerHalf \/ Arrivals
  PROVE  SendCarries' /\ AnsweredReceived' /\ AllReceived(acked)'
<1>1. /\ ReceivedStays /\ UNCHANGED clientVars
      /\ \/ UNCHANGED sendStage
         \/ sendStage' # "answered"
         \/ sendXhr.kind # "send"
         \/ \A w : Holds(C!FlightData, w) => IsReceived(w)'
  BY ServerHalfStays, ArrivalsStay DEF GivenInv
<1>2. UNCHANGED <<sendXhr, packetsInFlight, acked>> /\ C!FlightData' = C!FlightData
  BY <1>1 DEF clientVars, C!FlightData
<1>3. SendCarries'
  BY <1>2 DEF GivenInv, SendCarries
<1>4. ASSUME NEW w, IsReceived(w)
      PROVE  IsReceived(w)'
  BY <1>1, <1>4 DEF ReceivedStays
<1>5. AllReceived(acked)'
  BY <1>2, <1>4 DEF GivenInv, AllReceived, Holds
<1>6. AnsweredReceived'
  <2> SUFFICES ASSUME sendStage' = "answered", sendXhr'.kind = "send",
                      NEW w, Holds(C!FlightData, w)
               PROVE  IsReceived(w)'
    BY <1>2 DEF AnsweredReceived, AllReceived, Holds
  <2>1. CASE sendStage = "answered"
    BY <1>2, <1>4, <2>1 DEF GivenInv, AnsweredReceived, AllReceived
  <2>2. CASE \A v : Holds(C!FlightData, v) => IsReceived(v)'
    BY <2>2
  <2> QED
    BY <1>1, <1>2, <2>1, <2>2
<1> QED
  BY <1>3, <1>5, <1>6

LEMMA HeldByOne ==
  ASSUME NEW T, NEW s \in Seq(T), NEW t \in Seq(T),
         NEW i \in DOMAIN (s \o t), NEW w, (s \o t)[i] = w
  PROVE  Holds(s, w) \/ Holds(t, w)
<1> DEFINE n == Len(s)
           m == Len(t)
<1>1. /\ n \in Nat /\ m \in Nat /\ DOMAIN s = 1..n /\ DOMAIN t = 1..m
      /\ DOMAIN (s \o t) = 1..n + m
      /\ (s \o t)[i] = IF i =< n THEN s[i] ELSE t[i - n]
  <2>1. /\ n \in Nat /\ m \in Nat /\ DOMAIN s = 1..n /\ DOMAIN t = 1..m
        /\ s \o t \in Seq(T) /\ Len(s \o t) = n + m
        /\ \A j \in 1..n + m : (s \o t)[j] = IF j =< n THEN s[j] ELSE t[j - n]
    BY LenProperties, ConcatProperties
  <2>2. DOMAIN (s \o t) = 1..n + m
    BY <2>1, LenProperties
  <2> QED
    BY <2>1, <2>2
<1> HIDE DEF n, m
<1>2. CASE i =< n
  <2>1. i \in DOMAIN s /\ s[i] = w
    BY <1>1, <1>2
  <2> QED
    BY <2>1 DEF Holds
<1>3. CASE ~(i =< n)
  <2>1. i - n \in DOMAIN t /\ t[i - n] = w
    BY <1>1, <1>3
  <2> QED
    BY <2>1 DEF Holds
<1> QED
  BY <1>2, <1>3

LEMMA FlowTypes ==
  ASSUME LinkInv
  PROVE  /\ acked \in Seq(1..MaxWrites) /\ writeBuffer \in Seq(1..MaxWrites)
         /\ C!FlightData \in Seq(1..MaxWrites) /\ written \in Nat
         /\ acked \o C!FlightData \o writeBuffer = [i \in 1..written |-> i]
<1>1. C!ClientInv
  BY DEF LinkInv, ClientSide
<1>2. /\ acked \in Seq(1..MaxWrites) /\ writeBuffer \in Seq(1..MaxWrites)
      /\ written \in 0..MaxWrites /\ packetsInFlight \in Seq(C!Packet)
  BY <1>1, Zenon DEF C!ClientInv, C!TypeOK
<1>3. C!FlightData \in Seq(1..MaxWrites)
  BY <1>2, Bounds, C!FlowType, C!FlightDataFlow
<1>4. acked \o C!FlightData \o writeBuffer = [i \in 1..written |-> i]
  BY <1>1 DEF C!ClientInv, C!WritesConserved
<1> QED
  BY <1>2, <1>3, <1>4, NumbersAreNat

LEMMA GivenByClient ==
  ASSUME GivenInv, ClientHalf
  PROVE  SendCarries' /\ AnsweredReceived' /\ AllReceived(acked)'
<1>1. ClientSteps /\ UNCHANGED serverVars
  BY ClientHalfSteps DEF GivenInv
<1>2. SendCarries'
  BY <1>1, CarriesOn DEF GivenInv
<1>3. ASSUME NEW w, IsReceived(w)
      PROVE  IsReceived(w)'
  BY <1>1, <1>3 DEF IsReceived, Brings, serverVars
<1> DEFINE F == C!FlightData
<1>4. AllReceived(acked)'
  <2>1. CASE acked' = acked
    BY <1>3, <2>1 DEF GivenInv, AllReceived, Holds
  <2>2. CASE /\ sendStage = "answered" /\ sendXhr.kind = "send"
             /\ acked' = acked \o F
    <3>1. AllReceived(F) /\ AllReceived(acked)
      BY <2>2 DEF GivenInv, AnsweredReceived
    <3>2. acked \in Seq(1..MaxWrites) /\ F \in Seq(1..MaxWrites)
      BY FlowTypes DEF GivenInv
    <3> HIDE DEF F
    <3>3. ASSUME NEW w, NEW i \in DOMAIN (acked \o F), (acked \o F)[i] = w
          PROVE  IsReceived(w)'
      <4>1. Holds(acked, w) \/ Holds(F, w)
        BY <3>2, <3>3, HeldByOne
      <4> QED
        BY <1>3, <3>1, <4>1 DEF AllReceived
    <3> QED
      BY <2>2, <3>3 DEF AllReceived, Holds
  <2> QED
    BY <2>1, <2>2, AckedMoves DEF GivenInv
<1>5. AnsweredReceived'
  <2> SUFFICES ASSUME sendStage' = "answered", sendXhr'.kind = "send"
               PROVE  AllReceived(F)'
    BY DEF AnsweredReceived
  <2>1. sendStage = "answered" /\ sendXhr' = sendXhr
    BY AnswerStays
  <2>2. packetsInFlight' = packetsInFlight
    BY <1>2, <2>1 DEF GivenInv, SendCarries
  <2>3. F' = F
    BY <2>2 DEF C!FlightData
  <2>4. AllReceived(F)
    BY <2>1 DEF GivenInv, AnsweredReceived
  <2> HIDE DEF F
  <2> QED
    BY <1>3, <2>3, <2>4 DEF AllReceived, Holds
<1> QED
  BY <1>2, <1>4, <1>5

LEMMA GivenStep == GivenInv /\ [Next]_vars => GivenInv'
<1> SUFFICES ASSUME GivenInv, [Next]_vars
             PROVE  GivenInv'
  OBVIOUS
<1>1. LinkInv'
  BY LinkStep DEF GivenInv
<1>2. CASE Next
  <2>1. SendCarries' /\ AnsweredReceived' /\ AllReceived(acked)'
    BY <1>2, Halves, GivenByClient, GivenByServer
  <2> QED
    BY <1>1, <2>1 DEF GivenInv
<1>3. CASE UNCHANGED vars
  <2>1. UNCHANGED <<sendXhr, packetsInFlight, acked, sendStage, calls, tickQueue>>
    BY <1>3 DEF vars, clientVars, serverVars, linkVars
  <2>2. C!FlightData' = C!FlightData
    BY <2>1 DEF C!FlightData
  <2> QED
    BY <1>1, <2>1, <2>2
       DEF GivenInv, SendCarries, AnsweredReceived, AllReceived, Holds, IsReceived,
           Brings
<1> QED
  BY <1>2, <1>3

(* ReleasedWasReceived, for any number of writes, packets, comets and      *)
(* faults: what the client gives up, after whatever retries, the server's  *)
(* application has received or will (csp_send, _writeSuccess,              *)
(* _writeFailure).                                                         *)
THEOREM ReleasedReceived == Spec => []ReleasedWasReceived
<1>1. Init => GivenInv
  <2> SUFFICES ASSUME Init
               PROVE  GivenInv
    OBVIOUS
  <2>1. sendXhr = C!Idle /\ acked = <<>>
    BY DEF Init, Client!Init, Client!Idle, C!Idle
  <2> QED
    BY <2>1, LinkInit
       DEF GivenInv, SendCarries, AnsweredReceived, AllReceived, Holds, C!Idle
<1>2. GivenInv => ReleasedWasReceived
  <2> SUFFICES ASSUME GivenInv, NEW w \in 1..written
               PROVE  \/ Holds(C!FlightData, w) \/ Holds(writeBuffer, w)
                      \/ IsReceived(w)
    BY DEF ReleasedWasReceived, Client!FlightData, C!FlightData
  <2> DEFINE F == C!FlightData
             b == writeBuffer
             W == 1..MaxWrites
  <2>1. /\ acked \in Seq(W) /\ F \in Seq(W) /\ b \in Seq(W)
        /\ acked \o F \o b = [i \in 1..written |-> i]
    BY FlowTypes DEF GivenInv
  <2>2. AllReceived(acked)
    BY DEF GivenInv
  <2> HIDE DEF F, b, W
  <2>3. ((acked \o F) \o b)[w] = w /\ w \in DOMAIN ((acked \o F) \o b)
    BY <2>1
  <2>4. Holds(acked \o F, w) \/ Holds(b, w)
    <3>1. acked \o F \in Seq(W)
      BY <2>1, ConcatProperties
    <3> DEFINE s == acked \o F
    <3>2. s \in Seq(W) /\ (s \o b)[w] = w /\ w \in DOMAIN (s \o b)
      BY <2>3, <3>1
    <3> HIDE DEF s
    <3>3. Holds(s, w) \/ Holds(b, w)
      BY <2>1, <3>2, HeldByOne
    <3> QED
      BY <3>3 DEF s
  <2>5. Holds(acked \o F, w) => Holds(acked, w) \/ Holds(F, w)
    <3> SUFFICES ASSUME NEW i \in DOMAIN (acked \o F), (acked \o F)[i] = w
                 PROVE  Holds(acked, w) \/ Holds(F, w)
      BY DEF Holds
    <3> QED
      BY <2>1, HeldByOne
  <2>6. Holds(acked, w) => IsReceived(w)
    BY <2>2 DEF AllReceived
  <2> QED
    BY <2>4, <2>5, <2>6 DEF F, b
<1> QED
  BY <1>1, <1>2, GivenStep, PTL DEF Spec

(***************************************************************************)
(* Without a failure: a write is either still to be received, in flight or *)
(* in the buffer, or has been received once, after those before it.        *)
(***************************************************************************)
Kept ==
  /\ C!FlightData' = C!FlightData
  /\ \/ "write" \in timers
     \/ /\ sendXhr' = sendXhr \/ sendXhr'.kind # "send"
        /\ "write" \in timers' => "write" \in timers

LEMMA WritingSameKept ==
  ASSUME UNCHANGED <<packetsInFlight, sendXhr>>, timers' \subseteq timers \cup {"timeout", "comet"}
  PROVE  Kept
BY DEF Kept, C!FlightData

LEMMA DoWriteKept ==
  ASSUME packetsInFlight # <<>>, NEW buffer, NEW sendNull, C!DoWrite(buffer, sendNull),
         timers' \subseteq timers
  PROVE  Kept
BY WritingSameKept DEF C!DoWrite

LEMMA CloseSessionKept ==
  ASSUME packetsInFlight # <<>>, NEW ts \in SUBSET timers, C!CloseSession(ts)
  PROVE  Kept
<1>1. timers' \subseteq timers
  BY DEF C!CloseSession
<1>2. UNCHANGED C!writing \/ C!DoWrite(writeBuffer, TRUE)
  BY DEF C!CloseSession
<1>3. ASSUME UNCHANGED C!writing
      PROVE  UNCHANGED <<packetsInFlight, sendXhr>>
  BY <1>3 DEF C!writing
<1> QED
  BY <1>1, <1>2, <1>3, DoWriteKept, WritingSameKept

(* A retry sends the data that is in flight.                               *)
LEMMA RetryKept ==
  ASSUME ClientSide, packetsInFlight # <<>>, C!WriteTimer
  PROVE  Kept
<1> DEFINE flight == packetsInFlight
           waiting == "inBuffer" \in nulls
           next == C!Sent(flight, writeBuffer, waiting)
           data == C!DataFlight(flight, writeBuffer)
<1>1. "write" \in timers /\ C!SendNow(flight, writeBuffer, waiting)
  BY DEF C!WriteTimer
<1>2. packetsInFlight' = next
  BY <1>1 DEF C!SendNow, C!Sent
<1>3. data = flight
  BY DEF C!DataFlight
<1>4. /\ C!WritingOK /\ flight \in Seq(C!Packet) /\ writeBuffer \in Seq(1..MaxWrites)
      /\ waiting \in BOOLEAN
  BY Bounds, C!TypeParts DEF ClientSide, C!ClientInv, C!WritingOK
<1>5. data # <<>> => next # <<>> /\ next[1] = data[1]
  <2> HIDE DEF waiting
  <2> QED
    BY <1>4, Bounds, C!SentType
<1> HIDE DEF next, data
<1>6. C!FlightData' = C!FlightData
  BY <1>2, <1>3, <1>5 DEF C!FlightData
<1> QED
  BY <1>1, <1>6 DEF Kept

LEMMA RunsKeep ==
  ASSUME ClientSide, packetsInFlight # <<>>,
         C!Application \/ C!Timers \/ C!Continue
  PROVE  Kept
<1>1. CASE C!Application
  <2>1. CASE C!Connect
    BY <2>1 DEF C!Connect, Kept, C!FlightData
  <2>2. CASE C!Write
    <3>1. C!DoWrite(Append(writeBuffer, written + 1), FALSE) /\ timers' = timers
      BY <2>2 DEF C!Write
    <3> QED
      BY <3>1, DoWriteKept
  <2>3. CASE C!Close
    BY <2>3, CloseSessionKept DEF C!Close
  <2> QED
    BY <1>1, <2>1, <2>2, <2>3 DEF C!Application
<1>2. CASE C!Timers
  <2>1. CASE C!HandshakeTimeout \/ C!CometTimer
    BY <2>1, WritingSameKept DEF C!HandshakeTimeout, C!CometTimer, C!writing
  <2>2. CASE C!HandshakeRetry
    BY <2>2 DEF C!HandshakeRetry, Kept, C!FlightData
  <2>3. CASE C!WriteTimer
    BY <2>3, RetryKept
  <2>4. CASE C!TimeoutExpires
    <3>1. C!CloseSession(timers \ {"timeout"})
      BY <2>4 DEF C!TimeoutExpires
    <3> QED
      BY <3>1, CloseSessionKept
  <2> QED
    BY <1>2, <2>1, <2>2, <2>3, <2>4 DEF C!Timers
<1>3. CASE C!Continue
  <2>1. CASE C!OnConnectReturns \/ C!SkipPacket \/ C!DeliverPacket
             \/ C!OnReadReturns \/ C!UnreadablePacket \/ C!PacketsDone
    BY <2>1, WritingSameKept
       DEF C!OnConnectReturns, C!SkipPacket, C!DeliverPacket, C!OnReadReturns,
           C!UnreadablePacket, C!PacketsDone, C!writing
  <2>2. CASE C!ReceivedNullPacket
    <3>1. timers' = timers /\ (UNCHANGED C!writing \/ C!DoWrite(writeBuffer, TRUE))
      BY <2>2 DEF C!ReceivedNullPacket, C!AnswerNull
    <3>2. UNCHANGED C!writing => UNCHANGED <<packetsInFlight, sendXhr>>
      BY DEF C!writing
    <3> QED
      BY <3>1, <3>2, DoWriteKept, WritingSameKept
  <2>3. CASE C!CorruptPacket \/ C!PacketAhead
    <3>1. C!ProtocolError
      BY <2>3 DEF C!CorruptPacket, C!PacketAhead
    <3>2. timers' = timers /\ C!DoWrite(writeBuffer, TRUE)
      BY <3>1, Zenon DEF C!ProtocolError
    <3> QED
      BY <3>2, DoWriteKept
  <2>4. CASE C!MissingPacket
    BY <2>4, CloseSessionKept DEF C!MissingPacket
  <2> QED
    BY <1>3, <2>1, <2>2, <2>3, <2>4 DEF C!Continue
<1> QED
  BY <1>1, <1>2, <1>3

(* Whether a /send is answered, and whether one is still to arrive.        *)
Answered == sendStage = "answered" /\ sendXhr.kind = "send"

Waiting == (sendXhr.kind = "send" /\ sendStage # "answered") \/ "write" \in timers

LEMMA FlowMoves ==
  ASSUME GivenInv, ClientHalf, faults \in Nat, faults' = faults
  PROVE  \/ /\ acked' = acked /\ C!FlightData' = C!FlightData
            /\ Answered' => Answered
            /\ Waiting' => Waiting
         \/ acked' = acked /\ packetsInFlight = <<>> /\ ~Answered'
         \/ acked' = acked \o C!FlightData /\ Answered /\ ~Answered'
<1>0. ClientSide /\ SendCarries
  BY DEF GivenInv, LinkInv
<1>a. ASSUME Answered'
      PROVE  Answered /\ sendXhr' = sendXhr
  BY <1>a, AnswerStays DEF Answered
<1>1. CASE ClientRuns
  <2>1. (C!Application \/ C!Timers \/ C!Continue) /\ Sending
    BY <1>1, SameClient DEF ClientRuns
  <2>2. acked' = acked
    BY <2>1, RunsAcknowledgeNothing
  <2>3. CASE packetsInFlight = <<>>
    BY <1>0, <1>a, <2>2, <2>3 DEF SendCarries, Answered
  <2>4. CASE packetsInFlight # <<>>
    <3>1. Kept
      BY <1>0, <2>1, <2>4, RunsKeep
    <3>2. Waiting' => Waiting
      BY <2>1, <3>1 DEF Kept, Waiting, Sending
    <3> QED
      BY <1>a, <2>2, <3>1, <3>2 DEF Kept
  <2> QED
    BY <2>3, <2>4
<1>2. CASE SendSucceeds
  <2>1. /\ sendStage = "answered" /\ (C!HandshakeSuccess \/ C!WriteSuccess)
        /\ sendStage' = IF sendXhr' = C!Idle THEN "none" ELSE "travelling"
    BY <1>2, SameClient DEF SendSucceeds, Client!Idle, C!Idle
  <2>2. ~Answered'
    BY <2>1 DEF Answered
  <2>3. CASE C!HandshakeSuccess
    <3>1. /\ acked' = acked /\ packetsInFlight' = packetsInFlight
          /\ sendXhr' = C!Idle /\ timers' \subseteq timers
      BY <2>3 DEF C!HandshakeSuccess, C!HandshakeAnswered
    <3> QED
      BY <2>2, <3>1 DEF Waiting, C!Idle, C!FlightData
  <2>4. CASE C!WriteSuccess /\ C!WriteSucceeds
    <3>1. sendXhr.kind = "send" /\ acked' = acked \o packetsInFlight[1].data
      BY <2>4 DEF C!WriteSuccess, C!SendAnswered, C!WriteSucceeds
    <3> QED
      BY <1>0, <2>1, <2>2, <3>1 DEF SendCarries, C!FlightData, Answered
  <2>5. CASE C!WriteSuccess /\ ~C!WriteSucceeds
    <3>1. /\ acked' = acked /\ packetsInFlight' = packetsInFlight
          /\ sendXhr' = C!Idle /\ timers' = timers
      BY <2>5 DEF C!WriteSuccess
    <3> QED
      BY <2>2, <3>1 DEF Waiting, C!Idle, C!FlightData
  <2> QED
    BY <2>1, <2>3, <2>4, <2>5
<1>3. CASE CometSucceeds \/ CometFails
  <2>1. /\ UNCHANGED <<sendXhr, packetsInFlight, acked, sendStage>>
        /\ "write" \in timers' => "write" \in timers
    BY <1>3 DEF CometSucceeds, CometFails, Client!CometSuccess, Client!CometEmpty,
       Client!CometFailure, Client!writing, Client!WithTimeoutReset
  <2> QED
    BY <2>1 DEF Waiting, Answered, C!FlightData
<1>4. CASE HandshakeFails
  <2>1. faults' = faults + 1
    BY <1>4 DEF HandshakeFails, Counted
  <2> QED
    BY <2>1
<1>5. CASE SendFails
  <2>1. C!WriteFailure /\ Counted(sendStage # "refused")
    BY <1>5, SameClient DEF SendFails
  <2>2. sendStage = "refused"
    BY <2>1 DEF Counted
  <2>3. /\ UNCHANGED <<packetsInFlight, acked>> /\ sendXhr.kind = "send"
        /\ sendXhr' = C!Idle
    BY <2>1 DEF C!WriteFailure, C!SendAnswered
  <2> QED
    BY <2>2, <2>3 DEF Waiting, Answered, C!FlightData, C!Idle
<1> QED
  BY <1>1, <1>2, <1>3, <1>4, <1>5 DEF ClientHalf
-----------------------------------------------------------------------------
(* Queues of jobs: one behind another, and one with jobs left out.         *)
LEMMA JobsBring ==
  ASSUME NEW T, NEW q \in Seq(T), NEW more \in Seq(T), NEW w
  PROVE  Brings(q \o more, w) <=> Brings(q, w) \/ Brings(more, w)
<1> DEFINE n == Len(q)
           m == Len(more)
           both == q \o more
<1>1. /\ n \in Nat /\ m \in Nat /\ DOMAIN q = 1..n /\ DOMAIN more = 1..m
      /\ \A i \in 1..n + m : both[i] = IF i =< n THEN q[i] ELSE more[i - n]
      /\ DOMAIN both = 1..n + m
  <2>1. both \in Seq(T) /\ Len(both) = n + m
    BY ConcatProperties
  <2>2. DOMAIN both = 1..n + m
    BY <2>1, LenProperties
  <2> QED
    BY <2>2, LenProperties, ConcatProperties
<1> HIDE DEF n, m, both
<1>2. ASSUME Brings(both, w)
      PROVE  Brings(q, w) \/ Brings(more, w)
  <2>1. PICK i \in 1..n + m : both[i].call = "receive_data" /\ Holds(both[i].arg, w)
    BY <1>1, <1>2 DEF Brings
  <2>2. CASE i =< n
    BY <1>1, <2>1, <2>2 DEF Brings
  <2>3. CASE ~(i =< n)
    <3>1. i - n \in 1..m /\ both[i] = more[i - n]
      BY <1>1, <2>3
    <3> QED
      BY <1>1, <2>1, <3>1 DEF Brings
  <2> QED
    BY <2>2, <2>3
<1>3. Brings(q, w) \/ Brings(more, w) => Brings(both, w)
  BY QueueLonger DEF both
<1> QED
  BY <1>2, <1>3 DEF both

LEMMA OrderAppended ==
  ASSUME NEW T, NEW s \in Seq(T), NEW t \in Seq(T), InOrder(s), InOrder(t),
         \A v, w : Brings(s, v) /\ Brings(t, w) => v < w
  PROVE  InOrder(s \o t)
<1> DEFINE n == Len(s)
           m == Len(t)
           both == s \o t
<1>1. /\ n \in Nat /\ m \in Nat /\ DOMAIN s = 1..n /\ DOMAIN t = 1..m
      /\ \A i \in 1..n + m : both[i] = IF i =< n THEN s[i] ELSE t[i - n]
      /\ DOMAIN both = 1..n + m
  <2>1. both \in Seq(T) /\ Len(both) = n + m
    BY ConcatProperties
  <2>2. DOMAIN both = 1..n + m
    BY <2>1, LenProperties
  <2> QED
    BY <2>2, LenProperties, ConcatProperties
<1> HIDE DEF n, m, both
<1> SUFFICES ASSUME NEW i \in DOMAIN both, both[i].call = "receive_data",
                    NEW j \in DOMAIN both, both[j].call = "receive_data",
                    NEW k \in DOMAIN both[i].arg, NEW l \in DOMAIN both[j].arg,
                    i < j \/ (i = j /\ k < l)
             PROVE  both[i].arg[k] < both[j].arg[l]
  BY DEF InOrder, both
<1>2. i \in 1..n + m /\ j \in 1..n + m
  BY <1>1
<1>3. CASE j =< n
  <2>1. i \in 1..n /\ j \in 1..n /\ both[i] = s[i] /\ both[j] = s[j]
    BY <1>1, <1>2, <1>3
  <2> QED
    BY <1>1, <2>1 DEF InOrder
<1>4. CASE i =< n /\ ~(j =< n)
  <2>1. /\ i \in 1..n /\ both[i] = s[i]
        /\ j - n \in 1..m /\ both[j] = t[j - n]
    BY <1>1, <1>2, <1>4
  <2>2. Brings(s, both[i].arg[k])
    BY <1>1, <2>1 DEF Brings, Holds
  <2>3. Brings(t, both[j].arg[l])
    BY <1>1, <2>1 DEF Brings, Holds
  <2> QED
    BY <2>2, <2>3
<1>5. CASE ~(i =< n) /\ ~(j =< n)
  <2>1. /\ i - n \in 1..m /\ both[i] = t[i - n]
        /\ j - n \in 1..m /\ both[j] = t[j - n]
        /\ i < j => i - n < j - n
        /\ i = j => i - n = j - n
    BY <1>1, <1>2, <1>5
  <2> QED
    BY <1>1, <2>1 DEF InOrder
<1>6. (j =< n) \/ (i =< n /\ ~(j =< n)) \/ (~(i =< n) /\ ~(j =< n))
  OBVIOUS
<1> QED
  BY <1>3, <1>4, <1>5, <1>6

LEMMA OrderThinned ==
  ASSUME NEW s, NEW t, InOrder(s), NEW f,
         \A i \in DOMAIN t : f[i] \in DOMAIN s /\ t[i] = s[f[i]],
         \A i, j \in DOMAIN t : i < j => f[i] < f[j]
  PROVE  /\ InOrder(t)
         /\ \A w : Brings(t, w) => Brings(s, w)
<1>1. InOrder(t)
  <2> SUFFICES ASSUME NEW i \in DOMAIN t, t[i].call = "receive_data",
                      NEW j \in DOMAIN t, t[j].call = "receive_data",
                      NEW k \in DOMAIN t[i].arg, NEW l \in DOMAIN t[j].arg,
                      i < j \/ (i = j /\ k < l)
               PROVE  t[i].arg[k] < t[j].arg[l]
    BY DEF InOrder
  <2>1. /\ f[i] \in DOMAIN s /\ t[i] = s[f[i]]
        /\ f[j] \in DOMAIN s /\ t[j] = s[f[j]]
        /\ f[i] < f[j] \/ (f[i] = f[j] /\ k < l)
    OBVIOUS
  <2> QED
    BY <2>1 DEF InOrder
<1>2. ASSUME NEW w, Brings(t, w)
      PROVE  Brings(s, w)
  BY <1>2 DEF Brings
<1> QED
  BY <1>1, <1>2

(* A job that is not given to the application leaves the queue.            *)
LEMMA OrderSkipped ==
  ASSUME NEW T, NEW s \in Seq(T), NEW q \in Seq(T), q # <<>>, InOrder(s \o q)
  PROVE  InOrder(s \o Tail(q))
<1> DEFINE n == Len(s)
           m == Len(q)
           all == s \o q
           rest == s \o Tail(q)
           f == [i \in 1..n + m - 1 |-> IF i =< n THEN i ELSE i + 1]
<1>1. /\ n \in Nat /\ m \in Nat /\ m >= 1
      /\ Tail(q) \in Seq(T) /\ Len(Tail(q)) = m - 1
      /\ \A i \in 1..m - 1 : Tail(q)[i] = q[i + 1]
  BY EmptySeq, LenProperties, HeadTailProperties
<1>2. /\ \A i \in 1..n + m : all[i] = IF i =< n THEN s[i] ELSE q[i - n]
      /\ DOMAIN all = 1..n + m
  <2>1. all \in Seq(T) /\ Len(all) = n + m
    BY ConcatProperties
  <2>2. DOMAIN all = 1..n + m
    BY <2>1, LenProperties
  <2> QED
    BY <2>2, ConcatProperties
<1>3. /\ \A i \in 1..n + m - 1 : rest[i] = IF i =< n THEN s[i] ELSE Tail(q)[i - n]
      /\ DOMAIN rest = 1..n + m - 1
  <2>1. rest \in Seq(T) /\ Len(rest) = n + (m - 1)
    BY <1>1, ConcatProperties
  <2>2. DOMAIN rest = 1..n + m - 1
    BY <1>1, <2>1, LenProperties
  <2>3. \A i \in 1..n + (m - 1) : rest[i] = IF i =< n THEN s[i] ELSE Tail(q)[i - n]
    BY <1>1, ConcatProperties
  <2> HIDE DEF rest, n, m
  <2>4. n + (m - 1) = n + m - 1
    BY <1>1
  <2> QED
    BY <2>2, <2>3, <2>4
<1> HIDE DEF n, m, all, rest
<1>4. ASSUME NEW i \in DOMAIN rest
      PROVE  f[i] \in DOMAIN all /\ rest[i] = all[f[i]]
  <2>1. i \in 1..n + m - 1
    BY <1>3
  <2>2. CASE i =< n
    <3>1. f[i] = i /\ i \in 1..n + m
      BY <1>1, <2>1, <2>2
    <3> QED
      BY <1>2, <1>3, <2>1, <2>2, <3>1
  <2>3. CASE ~(i =< n)
    <3>1. /\ f[i] = i + 1 /\ i + 1 \in 1..n + m /\ ~(i + 1 =< n)
          /\ i - n \in 1..m - 1 /\ (i + 1) - n = (i - n) + 1
      BY <1>1, <2>1, <2>3
    <3>2. rest[i] = Tail(q)[i - n] /\ all[i + 1] = q[(i + 1) - n]
      BY <1>2, <1>3, <2>1, <2>3, <3>1
    <3>3. Tail(q)[i - n] = q[(i - n) + 1]
      BY <1>1, <3>1
    <3> HIDE DEF f
    <3> QED
      BY <1>2, <3>1, <3>2, <3>3
  <2> QED
    BY <2>2, <2>3
<1>5. ASSUME NEW i \in DOMAIN rest, NEW j \in DOMAIN rest, i < j
      PROVE  f[i] < f[j]
  BY <1>1, <1>3, <1>5
<1>6. InOrder(all)
  BY DEF all
<1> HIDE DEF f
<1>7. InOrder(rest)
  BY <1>4, <1>5, <1>6, OrderThinned
<1> QED
  BY <1>7 DEF rest

LEMMA HeadFirst ==
  ASSUME NEW T, NEW q \in Seq(T), q # <<>>
  PROVE  /\ Head(q) \in T /\ Tail(q) \in Seq(T) /\ <<Head(q)>> \in Seq(T)
         /\ <<Head(q)>> \o Tail(q) = q
<1> DEFINE h == Head(q)
           t == Tail(q)
           m == Len(q)
           both == <<h>> \o t
<1>1. /\ h \in T /\ t \in Seq(T) /\ Len(t) = m - 1 /\ m \in Nat /\ m >= 1
      /\ \A i \in 1..m - 1 : t[i] = q[i + 1]
      /\ h = q[1]
  BY EmptySeq, LenProperties, HeadTailProperties
<1>2. <<h>> \in Seq(T) /\ Len(<<h>>) = 1 /\ <<h>>[1] = h
  BY <1>1
<1> HIDE DEF h, t, m
<1> DEFINE one == <<h>>
<1>3. one \in Seq(T) /\ Len(one) = 1 /\ one[1] = h
  BY <1>2
<1> HIDE DEF one
<1>4. /\ one \o t \in Seq(T) /\ Len(one \o t) = m
      /\ \A i \in 1..m : (one \o t)[i] = IF i =< 1 THEN one[i] ELSE t[i - 1]
  <2>1. /\ one \o t \in Seq(T) /\ Len(one \o t) = Len(one) + Len(t)
        /\ \A i \in 1..Len(one) + Len(t) :
             (one \o t)[i] = IF i =< Len(one) THEN one[i] ELSE t[i - Len(one)]
    <3>1. one \in Seq(T) /\ t \in Seq(T)
      BY <1>1, <1>3
    <3> QED
      BY ONLY <3>1, ConcatProperties
  <2>2. Len(one) + Len(t) = m
    BY <1>1, <1>3
  <2> QED
    BY <1>3, <2>1, <2>2
<1>5. ASSUME NEW i \in 1..m
      PROVE  (one \o t)[i] = q[i]
  <2>1. CASE i = 1
    BY <1>1, <1>3, <1>4, <2>1
  <2>2. CASE i # 1
    <3>1. i - 1 \in 1..m - 1 /\ (i - 1) + 1 = i /\ ~(i =< 1)
      BY <1>1, <2>2
    <3>2. t[i - 1] = q[(i - 1) + 1]
      BY <1>1, <3>1
    <3> QED
      BY <1>4, <3>1, <3>2
  <2> QED
    BY <2>1, <2>2
<1>6. one \o t = q
  <2>1. q \in Seq(T) /\ Len(q) = m
    BY DEF m
  <2> QED
    BY <1>4, <1>5, <2>1, SeqEqual
<1> QED
  BY <1>1, <1>2, <1>6 DEF h, t, one

LEMMA TickOrder ==
  ASSUME S!TypeOK, S!Tick, InOrder(Given)
  PROVE  InOrder(Given)' /\ \A w : IsReceived(w)' => IsReceived(w)
<1> DEFINE T == S!Jobs
           q == tickQueue
           h == Head(q)
           one == <<h>>
<1>1. q \in Seq(T) /\ calls \in Seq(T)
  BY DEF S!TypeOK
<1>2. PICK call : S!RunJob(call)
  BY DEF S!Tick, S!Respond, S!PostInit, S!ReceiveData, S!Broadcast, S!Unbind
<1>3. q # <<>> /\ tickQueue' = Tail(q)
  BY <1>2 DEF S!RunJob
<1>4. calls' = calls \/ calls' = Append(calls, h)
  BY DEF S!Tick, S!Respond, S!PostInit, S!ReceiveData, S!Broadcast, S!Unbind, S!Called
<1> HIDE DEF T
<1>5. h \in T /\ Tail(q) \in Seq(T) /\ one \in Seq(T) /\ one \o Tail(q) = q
  BY <1>1, <1>3, HeadFirst
<1>6. Append(calls, h) = calls \o one
  BY <1>1, <1>5, AppendIsConcat
<1> DEFINE rest == Tail(q)
<1>7. /\ tickQueue' = rest /\ rest \in Seq(T) /\ one \o rest = q
      /\ calls' = calls \/ calls' = calls \o one
      /\ InOrder(calls \o rest) /\ InOrder(calls \o q)
  <2>1. InOrder(calls \o q)
    BY DEF Given
  <2> HIDE DEF q, one
  <2>2. InOrder(calls \o Tail(q))
    BY <1>1, <1>3, <2>1, OrderSkipped
  <2>3. Append(calls, h) = calls \o one
    BY <1>6 DEF one
  <2> QED
    BY ONLY <1>3, <1>4, <1>5, <2>1, <2>2, <2>3, Zenon
<1>8. one \in Seq(T)
  BY <1>5
<1> HIDE DEF one, rest, q
<1>9. InOrder(Given)'
  <2>1. (calls \o one) \o rest = calls \o q
    <3>1. calls \in Seq(T) /\ one \in Seq(T) /\ rest \in Seq(T) /\ one \o rest = q
      BY <1>1, <1>7, <1>8
    <3>2. \A a, b, c \in Seq(T) : (a \o b) \o c = a \o (b \o c)
      BY ConcatAssociative
    <3>3. (calls \o one) \o rest = calls \o (one \o rest)
      BY ONLY <3>1, <3>2, Zenon
    <3> QED
      BY ONLY <3>1, <3>3
  <2>2. Given' \in {calls \o rest, calls \o q}
    BY <1>7, <2>1 DEF Given
  <2>3. InOrder(Given') <=> InOrder(Given)'
    BY DEF InOrder
  <2> QED
    BY <1>7, <2>2, <2>3
<1>10. ASSUME NEW w, IsReceived(w)'
       PROVE  IsReceived(w)
  <2>1. Brings(calls', w) \/ Brings(tickQueue', w)
    BY <1>10 DEF IsReceived, Brings
  <2>2. /\ Brings(q, w) <=> Brings(one, w) \/ Brings(rest, w)
        /\ Brings(calls \o one, w) <=> Brings(calls, w) \/ Brings(one, w)
    BY <1>1, <1>7, <1>8, JobsBring
  <2> QED
    BY <1>7, <2>1, <2>2 DEF IsReceived, q
<1> QED
  BY <1>9, <1>10

(* Jobs that bring later writes join the queue in order.                   *)
LEMMA OrderJoined ==
  ASSUME NEW T, tickQueue \in Seq(T), calls \in Seq(T), InOrder(Given),
         calls' = calls,
         NEW more \in Seq(T), tickQueue' = tickQueue \o more, InOrder(more),
         \A v, w : IsReceived(v) /\ Brings(more, w) => v < w
  PROVE  /\ InOrder(Given)'
         /\ \A w : IsReceived(w)' <=> IsReceived(w) \/ Brings(more, w)
<1>1. tickQueue \in Seq(T) /\ calls \in Seq(T) /\ more \in Seq(T)
  OBVIOUS
<1>2. /\ Given \in Seq(T)
      /\ \A w : Brings(Given, w) <=> IsReceived(w)
  BY <1>1, ConcatProperties, JobsBring DEF Given, IsReceived
<1>3. Given' = Given \o more
  BY <1>1, ConcatAssociative DEF Given
<1>4. InOrder(Given \o more)
  BY <1>1, <1>2, OrderAppended
<1>5. InOrder(Given)'
  BY <1>3, <1>4 DEF InOrder
<1>6. ASSUME NEW w
      PROVE  IsReceived(w)' <=> IsReceived(w) \/ Brings(more, w)
  <2>1. Brings(tickQueue \o more, w) <=> Brings(tickQueue, w) \/ Brings(more, w)
    BY <1>1, JobsBring
  <2>2. IsReceived(w)' <=> Brings(calls, w) \/ Brings(tickQueue \o more, w)
    BY DEF IsReceived, Brings
  <2> QED
    BY <2>1, <2>2 DEF IsReceived
<1> QED
  BY <1>5, <1>6

LEMMA OtherJobJoins ==
  ASSUME S!TypeOK, InOrder(Given), calls' = calls,
         NEW job, job.call # "receive_data", tickQueue' = Append(tickQueue, job)
  PROVE  InOrder(Given)' /\ \A w : IsReceived(w)' <=> IsReceived(w)
<1> DEFINE T == S!Jobs \cup {job}
           one == <<job>>
<1>2. tickQueue \in Seq(T) /\ calls \in Seq(T) /\ job \in T
  <2>1. tickQueue \in Seq(S!Jobs) /\ calls \in Seq(S!Jobs) /\ S!Jobs \subseteq T
    BY DEF S!TypeOK
  <2> QED
    BY <2>1, SeqMonotonic
<1> HIDE DEF T
<1>1. one \in Seq(T) /\ DOMAIN one = {1} /\ one[1] = job
  BY <1>2
<1> HIDE DEF one
<1>3. InOrder(one) /\ \A w : ~Brings(one, w)
  BY <1>1 DEF InOrder, Brings
<1>4. tickQueue' = tickQueue \o one
  BY <1>2, AppendIsConcat DEF one
<1>5. \A v, w : IsReceived(v) /\ Brings(one, w) => v < w
  BY <1>3
<1>6. /\ InOrder(Given)'
      /\ \A w : IsReceived(w)' <=> IsReceived(w) \/ Brings(one, w)
  BY <1>1, <1>2, <1>3, <1>4, <1>5, OrderJoined
<1> QED
  BY <1>3, <1>6
-----------------------------------------------------------------------------
UpTo(n) == \A w : IsReceived(w) <=> w \in 1..n

AckedLen == Len(acked)
FlightLen == Len(C!FlightData)

CarriedOnce ==
  /\ up => abandoned = {}
  /\ InOrder(Given)
  /\ UpTo(AckedLen) \/ UpTo(AckedLen + FlightLen)
  /\ Answered => UpTo(AckedLen + FlightLen)
  /\ Waiting => UpTo(AckedLen)

CarryInv == GivenInv /\ faults \in Nat /\ (faults = 0 => CarriedOnce)

LEMMA FaultsGrow ==
  ASSUME faults \in Nat, [Next]_vars
  PROVE  faults' \in Nat /\ (faults' = 0 => faults' = faults)
<1>1. CASE ClientHalf
  <2>1. CASE ClientRuns \/ SendSucceeds \/ CometSucceeds
    BY <2>1 DEF ClientRuns, SendSucceeds, CometSucceeds
  <2>2. ASSUME NEW blameless, Counted(blameless)
        PROVE  faults' = faults \/ faults' = faults + 1
    BY <2>2 DEF Counted
  <2>3. CASE HandshakeFails \/ SendFails \/ CometFails
    <3>1. faults' = faults \/ faults' = faults + 1
      BY <2>2, <2>3 DEF HandshakeFails, SendFails, CometFails
    <3> QED
      BY <3>1
  <2> QED
    BY <1>1, <2>1, <2>3 DEF ClientHalf
<1>2. CASE ServerHalf
  BY <1>2 DEF ServerHalf, ServerRuns, ServerNoticesLoss, linkVars
<1>3. CASE Arrivals
  BY <1>3 DEF Arrivals, HandshakeArrives, SendArrives, CometArrives, AbandonedArrives
<1>4. CASE UNCHANGED vars
  BY <1>4 DEF vars, linkVars
<1> QED
  BY <1>1, <1>2, <1>3, <1>4, Halves

(* A server that is gone stays so.                                         *)
LEMMA HandlerIsUp ==
  ASSUME NEW req, ServerHandles(req)
  PROVE  up
BY DEF ServerHandles, Server!CspSend, Server!Comet, Server!RequestArrives,
       Server!HandlerRuns

LEMMA DownStays ==
  ASSUME LinkInv, [Next]_vars
  PROVE  up' => up
<1>1. CASE ClientHalf
  <2>1. UNCHANGED serverVars
    BY <1>1, ClientHalfSteps
  <2>2. up' = up
    BY <2>1 DEF serverVars
  <2> QED
    BY <2>2
<1>2. CASE ServerHalf
  <2>1. \/ S!Tick \/ \E t \in 1..MaxComets : S!TimerFires(t)
        \/ \E b \in 1..MaxComets : S!ConnectionLost(b)
    BY <1>2, SameServer DEF ServerHalf, ServerRuns, ServerNoticesLoss
  <2> QED
    BY <2>1 DEF S!Tick, S!Respond, S!PostInit, S!ReceiveData, S!Broadcast, S!Unbind,
                S!RunJob, S!TimerFires, S!ConnectionLost, S!HandlerRuns
<1>3. CASE Arrivals
  <2>1. CASE HandshakeArrives
    BY <2>1 DEF HandshakeArrives, Server!Handshake, Server!HandlerRuns
  <2>2. CASE SendArrives
    BY <2>2, HandlerIsUp DEF SendArrives, serverVars
  <2>3. CASE CometArrives
    BY <2>3, HandlerIsUp DEF CometArrives, serverVars
  <2>4. ASSUME NEW a \in abandoned, AbandonedArrives(a)
        PROVE  up
    BY <2>4, HandlerIsUp DEF AbandonedArrives
  <2> QED
    BY <1>3, <2>1, <2>2, <2>3, <2>4 DEF Arrivals
<1>4. CASE UNCHANGED vars
  BY <1>4 DEF vars, serverVars
<1> QED
  BY <1>1, <1>2, <1>3, <1>4, Halves

LEMMA NoneAbandoned ==
  ASSUME LinkInv, [Next]_vars, faults \in Nat, faults' = faults,
         up => abandoned = {}
  PROVE  up' => abandoned' = {}
<1>1. up' => up
  BY DownStays
<1>2. CASE ClientHalf
  <2>1. CASE ClientRuns \/ SendSucceeds \/ CometSucceeds \/ HandshakeFails
    BY <1>1, <2>1 DEF ClientRuns, SendSucceeds, CometSucceeds, HandshakeFails
  <2>2. CASE SendFails
    <3>1. sendStage = "refused"
      BY <2>2 DEF SendFails, Counted
    <3> QED
      BY <1>1, <2>2, <3>1 DEF SendFails, Abandoned
  <2>3. CASE CometFails
    <3>1. cometStage = "refused" \/ ~up
      BY <2>3 DEF CometFails, Counted
    <3> QED
      BY <1>1, <2>3, <3>1 DEF CometFails, Abandoned
  <2> QED
    BY <1>2, <2>1, <2>2, <2>3 DEF ClientHalf
<1>3. CASE ServerHalf
  BY <1>1, <1>3, ServerHalfMoves
<1>4. CASE Arrivals
  <2>1. abandoned' \subseteq abandoned
    BY <1>4, ArrivalsMove
  <2> QED
    BY <1>1, <2>1
<1>5. CASE UNCHANGED vars
  BY <1>1, <1>5 DEF vars, linkVars
<1> QED
  BY <1>2, <1>3, <1>4, <1>5, Halves

LEMMA CarryTypes ==
  ASSUME LinkInv
  PROVE  /\ S!TypeOK /\ ClientSide /\ C!ClientInv
         /\ AckedLen \in Nat /\ FlightLen \in Nat
<1> DEFINE seen == C!AckId
<1>1. ServerHolds(seen) /\ ClientSide
  BY DEF LinkInv
<1> HIDE DEF seen
<1>2. S!TypeOK
  BY <1>1, ServerTypes
<1>3. C!ClientInv
  BY <1>1 DEF ClientSide
<1> QED
  BY <1>1, <1>2, <1>3, FlightFollows DEF AckedLen, FlightLen

LEMMA CarriedByClient ==
  ASSUME GivenInv, CarriedOnce, ClientHalf, faults \in Nat, faults' = faults
  PROVE  CarriedOnce'
<1>1. LinkInv /\ LinkInv' /\ UNCHANGED serverVars
  BY ClientHalfSteps, LinkByClientHalf DEF GivenInv
<1>2. up' => abandoned' = {}
  BY <1>1, NoneAbandoned DEF CarriedOnce, ClientHalf, Next
<1>3. calls' = calls /\ tickQueue' = tickQueue
  BY <1>1 DEF serverVars
<1>4. InOrder(Given)'
  BY <1>3 DEF CarriedOnce, InOrder, Given
<1>5. \A w : IsReceived(w)' <=> IsReceived(w)
  BY <1>3 DEF IsReceived, Brings
<1>6. AckedLen \in Nat /\ FlightLen \in Nat
  BY <1>1, CarryTypes
<1>7. /\ \/ UpTo(AckedLen)' \/ UpTo(AckedLen + FlightLen)'
      /\ Answered' => UpTo(AckedLen + FlightLen)'
      /\ Waiting' => UpTo(AckedLen)'
  <2>1. CASE /\ acked' = acked /\ C!FlightData' = C!FlightData
             /\ Answered' => Answered
             /\ Waiting' => Waiting
    <3>1. AckedLen' = AckedLen /\ FlightLen' = FlightLen
      BY <2>1 DEF AckedLen, FlightLen
    <3> QED
      BY <1>5, <2>1, <3>1 DEF CarriedOnce, UpTo
  <2>2. CASE acked' = acked /\ packetsInFlight = <<>> /\ ~Answered'
    <3>1. AckedLen' = AckedLen /\ FlightLen = 0
      <4>1. C!FlightData = <<>>
        BY <2>2 DEF C!FlightData
      <4>2. Len(<<>>) = 0
        OBVIOUS
      <4> QED
        BY <2>2, <4>1, <4>2 DEF AckedLen, FlightLen
    <3>2. UpTo(AckedLen)
      <4>1. AckedLen + FlightLen = AckedLen
        BY <1>6, <3>1
      <4> QED
        BY <4>1 DEF CarriedOnce
    <3>3. UpTo(AckedLen)'
      BY <1>5, <3>1, <3>2 DEF UpTo
    <3> QED
      BY <2>2, <3>3
  <2>3. CASE acked' = acked \o C!FlightData /\ Answered /\ ~Answered'
    <3>1. AckedLen' = AckedLen + FlightLen
      <4>1. acked \in Seq(1..MaxWrites) /\ C!FlightData \in Seq(1..MaxWrites)
        BY <1>1, FlowTypes
      <4>2. Len(acked \o C!FlightData) = Len(acked) + Len(C!FlightData)
        BY <4>1, ConcatProperties
      <4> QED
        BY <2>3, <4>2 DEF AckedLen, FlightLen
    <3>2. UpTo(AckedLen)'
      BY <1>5, <2>3, <3>1 DEF CarriedOnce, UpTo
    <3> QED
      BY <2>3, <3>2
  <2> QED
    BY <2>1, <2>2, <2>3, FlowMoves
<1> QED
  BY <1>2, <1>4, <1>7 DEF CarriedOnce

(* A /send that is handled queues its data for the application, and no     *)
(* more than that: the null behind it brings nothing.                      *)
LEMMA SendJoins ==
  ASSUME GivenInv, InOrder(Given), UpTo(AckedLen), sendXhr.kind = "send",
         ServerHandles(sendXhr)
  PROVE  InOrder(Given)' /\ \A w : IsReceived(w)' <=> w \in 1..AckedLen + FlightLen
<1> DEFINE P == packetsInFlight
           F == C!FlightData
           b == [i \in DOMAIN P |-> P[i].data]
           more == S!ReceiveJobs(b)
           ack == sendXhr.ack
<1>1. /\ S!TypeOK /\ ClientSide /\ C!ClientInv
      /\ AckedLen \in Nat /\ FlightLen \in Nat
  BY CarryTypes DEF GivenInv
<1>2. P # <<>> /\ sendXhr.packets = P /\ P \in Flights
  <2>1. P # <<>> /\ sendXhr.packets = P
    BY DEF GivenInv, SendCarries
  <2> QED
    BY <1>1, <2>1, FlightsOfShape DEF ClientSide, FlightFits
<1>3. Server!CspSend(Plain, ack, b)
  BY <1>2 DEF ServerHandles
<1>4. /\ DOMAIN P = 1..Len(P) /\ Len(P) \in 1..2
      /\ P[1].data = F
      /\ Len(P) = 2 => P[2].data = Null
  <2>1. P \in Seq(C!Packet) /\ Len(P) \in 1..2
    BY <1>2 DEF Flights
  <2>2. P[1].data = F
    BY <1>2 DEF C!FlightData
  <2>3. Len(P) = 2 => P[2].data = Null
    BY <1>1 DEF ClientSide, FlightShape
  <2> QED
    BY <2>1, <2>2, <2>3, LenProperties
<1>5. b \in S!Batches
  BY <1>2, BatchOfFlight
<1>6. /\ DOMAIN more = 1..Len(P)
      /\ \A i \in 1..Len(P) : more[i].call = "receive_data" /\ more[i].arg = P[i].data
  BY <1>4 DEF S!ReceiveJobs, S!Job
<1>7. more \in Seq(S!Jobs)
  BY <1>5, Bounds, S!BatchJobs
<1> HIDE DEF b, ack
<1>8. calls' = calls /\ tickQueue' = tickQueue \o more
  BY <1>3, SameServer DEF S!CspSend
<1>9. /\ DOMAIN F = 1..FlightLen
      /\ \A k \in 1..FlightLen : F[k] = AckedLen + k
  <2>1. F \in Seq(1..MaxWrites) /\ \A k \in 1..Len(F) : F[k] = Len(acked) + k
    BY <1>1, FlightFollows
  <2> QED
    BY <2>1, LenProperties DEF FlightLen, AckedLen
<1>10. \A i \in 1..Len(P) : more[i].arg = IF i = 1 THEN F ELSE <<>>
  BY <1>4, <1>6 DEF Null
<1> HIDE DEF more, P, F
<1>11. InOrder(more)
  <2> SUFFICES ASSUME NEW i \in DOMAIN more, NEW j \in DOMAIN more,
                      NEW k \in DOMAIN more[i].arg, NEW l \in DOMAIN more[j].arg,
                      i < j \/ (i = j /\ k < l)
               PROVE  more[i].arg[k] < more[j].arg[l]
    BY DEF InOrder
  <2>1. i = 1 /\ j = 1
    <3>1. DOMAIN <<>> = {}
      OBVIOUS
    <3>2. ASSUME NEW h \in DOMAIN more, h # 1
          PROVE  DOMAIN more[h].arg = {}
      BY <1>6, <1>10, <3>1, <3>2
    <3> QED
      BY ONLY <3>2
  <2>2. /\ more[i].arg = F /\ more[j].arg = F
        /\ k \in 1..FlightLen /\ l \in 1..FlightLen /\ k < l
    <3>1. more[i].arg = F /\ more[j].arg = F
      BY <1>6, <1>10, <2>1
    <3>2. ~(i < j)
      BY ONLY <2>1
    <3> QED
      BY <1>9, <3>1, <3>2
  <2> QED
    BY <1>1, <1>9, <2>2
<1>12. ASSUME NEW w
       PROVE  Brings(more, w) <=> w \in AckedLen + 1..AckedLen + FlightLen
  <2>1. ASSUME Brings(more, w)
        PROVE  w \in AckedLen + 1..AckedLen + FlightLen
    <3>1. PICK i \in 1..Len(P) : Holds(more[i].arg, w)
      BY <1>6, <2>1 DEF Brings
    <3>2. ~Holds(<<>>, w)
      BY DEF Holds
    <3>3. Holds(F, w)
      BY <1>10, <3>1, <3>2
    <3>4. PICK k \in 1..FlightLen : w = AckedLen + k
      BY <1>9, <3>3 DEF Holds
    <3> QED
      BY <1>1, <3>4
  <2>2. ASSUME w \in AckedLen + 1..AckedLen + FlightLen
        PROVE  Brings(more, w)
    <3>1. w - AckedLen \in 1..FlightLen /\ AckedLen + (w - AckedLen) = w
      BY <1>1, <2>2
    <3>2. Holds(F, w)
      BY <1>9, <3>1 DEF Holds
    <3>3. 1 \in 1..Len(P)
      BY <1>4
    <3> QED
      BY <1>6, <1>10, <3>2, <3>3 DEF Brings
  <2> QED
    BY <2>1, <2>2
<1>13. \A v, w : IsReceived(v) /\ Brings(more, w) => v < w
  BY <1>1, <1>12 DEF UpTo
<1>14. /\ InOrder(Given)'
       /\ \A w : IsReceived(w)' <=> IsReceived(w) \/ Brings(more, w)
  <2>1. tickQueue \in Seq(S!Jobs) /\ calls \in Seq(S!Jobs)
    BY <1>1 DEF S!TypeOK
  <2> QED
    BY <1>7, <1>8, <1>11, <1>13, <2>1, OrderJoined
<1> QED
  BY <1>1, <1>12, <1>14 DEF UpTo

(* A step that brings no write changes nothing of this.                    *)
LEMMA CarriedOn ==
  ASSUME CarriedOnce, InOrder(Given)', \A w : IsReceived(w)' <=> IsReceived(w),
         UNCHANGED clientVars, Answered' => Answered, Waiting' => Waiting,
         up' => abandoned' = {}
  PROVE  CarriedOnce'
<1>1. UNCHANGED <<acked, packetsInFlight, sendXhr, timers>>
  BY DEF clientVars
<1>2. AckedLen' = AckedLen /\ FlightLen' = FlightLen
  BY <1>1 DEF AckedLen, FlightLen, C!FlightData
<1> QED
  BY <1>2 DEF CarriedOnce, UpTo

LEMMA SameCarried ==
  ASSUME CarriedOnce, UNCHANGED <<calls, tickQueue>>,
         UNCHANGED clientVars, Answered' => Answered, Waiting' => Waiting,
         up' => abandoned' = {}
  PROVE  CarriedOnce'
<1>1. InOrder(Given)'
  BY DEF CarriedOnce, InOrder, Given
<1>2. \A w : IsReceived(w)' <=> IsReceived(w)
  BY DEF IsReceived, Brings
<1> QED
  BY <1>1, <1>2, CarriedOn

LEMMA CometQueuesNothing ==
  ASSUME LinkInv, InOrder(Given), NEW req, req.kind # "send", ServerHandles(req)
  PROVE  InOrder(Given)' /\ \A w : IsReceived(w)' <=> IsReceived(w)
<1> DEFINE ack == req.ack
           job == S!Job("respond", S!AsyncBody + 1)
<1>1. Server!Comet(Plain, ack)
  BY DEF ServerHandles
<1> HIDE DEF ack
<1>2. S!Comet(Plain, ack)
  BY <1>1, SameServer
<1>3. calls' = calls /\ tickQueue' = Append(tickQueue, job)
  BY <1>2 DEF S!Comet
<1>4. job.call # "receive_data"
  BY DEF S!Job
<1> HIDE DEF job
<1> QED
  BY <1>3, <1>4, CarryTypes, OtherJobJoins

LEMMA CarriedByServer ==
  ASSUME LinkInv, CarriedOnce, ServerHalf, faults \in Nat, faults' = faults
  PROVE  CarriedOnce'
<1>1. UNCHANGED clientVars /\ UNCHANGED sendStage /\ ReceivedStays
  BY ServerHalfStays
<1>2. (Answered' => Answered) /\ (Waiting' => Waiting)
  BY <1>1 DEF Answered, Waiting, clientVars
<1>3. up' => abandoned' = {}
  BY NoneAbandoned DEF CarriedOnce, ServerHalf, Next
<1>4. \/ S!Tick \/ \E t \in 1..MaxComets : S!TimerFires(t)
      \/ \E b \in 1..MaxComets : S!ConnectionLost(b)
  BY SameServer DEF ServerHalf, ServerRuns, ServerNoticesLoss
<1>5. CASE S!Tick
  <2>1. InOrder(Given)' /\ \A w : IsReceived(w)' => IsReceived(w)
    BY <1>5, CarryTypes, TickOrder DEF CarriedOnce
  <2>2. \A w : IsReceived(w)' <=> IsReceived(w)
    BY <1>1, <2>1 DEF ReceivedStays
  <2> QED
    BY <1>1, <1>2, <1>3, <2>1, <2>2, CarriedOn
<1>6. CASE ~S!Tick
  <2>1. UNCHANGED <<calls, tickQueue>>
    BY <1>4, <1>6 DEF S!TimerFires, S!ConnectionLost
  <2> QED
    BY <1>1, <1>2, <1>3, <2>1, SameCarried
<1> QED
  BY <1>5, <1>6

LEMMA CarriedByArrivals ==
  ASSUME GivenInv, CarriedOnce, Arrivals, faults \in Nat, faults' = faults
  PROVE  CarriedOnce'
<1>0. LinkInv
  BY DEF GivenInv
<1>1. UNCHANGED clientVars
  BY <1>0, ArrivalsMove
<1>2. up' => abandoned' = {}
  BY <1>0, NoneAbandoned DEF CarriedOnce, Arrivals, Next
<1>3. CASE HandshakeArrives
  <2> DEFINE job == S!Job("post_init", Null)
  <2>1. S!Handshake(Plain)
    BY <1>3, SameServer DEF HandshakeArrives
  <2>2. calls' = calls /\ tickQueue' = Append(tickQueue, job)
    BY <2>1 DEF S!Handshake
  <2>3. job.call # "receive_data"
    BY DEF S!Job
  <2> HIDE DEF job
  <2>4. InOrder(Given)' /\ \A w : IsReceived(w)' <=> IsReceived(w)
    BY <1>0, <2>2, <2>3, CarryTypes, OtherJobJoins DEF CarriedOnce
  <2>5. (Answered' => Answered) /\ (Waiting' => Waiting)
    BY <1>1, <1>3 DEF HandshakeArrives, Answered, Waiting, clientVars
  <2> QED
    BY <1>1, <1>2, <2>4, <2>5, CarriedOn
<1>4. CASE SendArrives
  <2>1. sendStage = "travelling" /\ sendXhr.kind = "send"
    BY <1>4 DEF SendArrives
  <2>2. CASE sendStage' = "refused" /\ UNCHANGED serverVars
    <3>1. UNCHANGED <<calls, tickQueue>>
      BY <2>2 DEF serverVars
    <3>2. ~Answered' /\ Waiting
      BY <2>1, <2>2 DEF Answered, Waiting
    <3> QED
      BY <1>1, <1>2, <3>1, <3>2, SameCarried
  <2>3. CASE sendStage' = "answered" /\ ServerHandles(sendXhr)
    <3>1. UpTo(AckedLen)
      BY <2>1 DEF CarriedOnce, Waiting
    <3>2. InOrder(Given)' /\ \A w : IsReceived(w)' <=> w \in 1..AckedLen + FlightLen
      BY <2>1, <2>3, <3>1, SendJoins DEF CarriedOnce
    <3>3. UNCHANGED <<acked, packetsInFlight, sendXhr, timers>>
      BY <1>1 DEF clientVars
    <3>4. AckedLen' = AckedLen /\ FlightLen' = FlightLen
      BY <3>3 DEF AckedLen, FlightLen, C!FlightData
    <3>5. UpTo(AckedLen + FlightLen)'
      BY <3>2, <3>4 DEF UpTo
    <3>6. ~Waiting'
      <4>1. "write" \notin timers
        BY <1>0, <2>1 DEF LinkInv, ClientSide, C!LoopInv, C!SendLoop, C!Idle
      <4> QED
        BY <2>3, <3>3, <4>1 DEF Waiting
    <3> QED
      BY <1>2, <3>2, <3>5, <3>6 DEF CarriedOnce
  <2> QED
    BY <1>4, <2>2, <2>3 DEF SendArrives
<1>5. CASE CometArrives
  <2>1. UNCHANGED sendStage /\ cometXhr.kind = "comet"
    BY <1>0, <1>5 DEF CometArrives, LinkInv, CometStaged
  <2>2. (Answered' => Answered) /\ (Waiting' => Waiting)
    BY <1>1, <2>1 DEF Answered, Waiting, clientVars
  <2>3. CASE UNCHANGED serverVars
    <3>1. UNCHANGED <<calls, tickQueue>>
      BY <2>3 DEF serverVars
    <3> QED
      BY <1>1, <1>2, <2>2, <3>1, SameCarried
  <2>4. CASE ServerHandles(cometXhr)
    <3>1. InOrder(Given)' /\ \A w : IsReceived(w)' <=> IsReceived(w)
      BY <1>0, <2>1, <2>4, CometQueuesNothing DEF CarriedOnce
    <3> QED
      BY <1>1, <1>2, <2>2, <3>1, CarriedOn
  <2> QED
    BY <1>5, <2>3, <2>4 DEF CometArrives
<1>6. ASSUME NEW a \in abandoned, AbandonedArrives(a)
      PROVE  FALSE
  BY <1>6, HandlerIsUp DEF AbandonedArrives, CarriedOnce
<1> QED
  BY <1>3, <1>4, <1>5, <1>6 DEF Arrivals

LEMMA CarryStep == CarryInv /\ [Next]_vars => CarryInv'
<1> SUFFICES ASSUME CarryInv, [Next]_vars
             PROVE  CarryInv'
  OBVIOUS
<1>1. GivenInv' /\ faults' \in Nat /\ (faults' = 0 => faults' = faults)
  BY GivenStep, FaultsGrow DEF CarryInv
<1>2. ASSUME faults' = 0
      PROVE  CarriedOnce'
  <2>1. GivenInv /\ LinkInv /\ CarriedOnce /\ faults \in Nat /\ faults' = faults
    BY <1>1, <1>2 DEF CarryInv, GivenInv
  <2>2. CASE ClientHalf
    BY <2>1, <2>2, CarriedByClient
  <2>3. CASE ServerHalf
    BY <2>1, <2>3, CarriedByServer
  <2>4. CASE Arrivals
    BY <2>1, <2>4, CarriedByArrivals
  <2>5. CASE UNCHANGED vars
    <3>1. /\ UNCHANGED <<calls, tickQueue, up, abandoned, sendStage, sendXhr, timers>>
          /\ UNCHANGED clientVars
      BY <2>5 DEF vars, clientVars, serverVars, linkVars
    <3>2. (Answered' => Answered) /\ (Waiting' => Waiting)
      BY <3>1 DEF Answered, Waiting
    <3>3. up' => abandoned' = {}
      BY <2>1, <3>1 DEF CarriedOnce
    <3> QED
      BY <2>1, <3>1, <3>2, <3>3, SameCarried
  <2> QED
    BY <2>2, <2>3, <2>4, <2>5, Halves
<1> QED
  BY <1>1, <1>2 DEF CarryInv

LEMMA CarryInit == Init => CarryInv
<1> SUFFICES ASSUME Init
             PROVE  CarryInv
  OBVIOUS
<1>1. /\ sendXhr = C!Idle /\ acked = <<>> /\ packetsInFlight = <<>> /\ timers = {}
      /\ calls = <<>> /\ tickQueue = <<>> /\ faults = 0 /\ abandoned = {}
  BY DEF Init, Client!Init, Server!Init, Client!Idle, C!Idle
<1>2. GivenInv
  BY <1>1, LinkInit
     DEF GivenInv, SendCarries, AnsweredReceived, AllReceived, Holds, C!Idle
<1>3. AckedLen = 0
  <2>1. Len(<<>>) = 0
    OBVIOUS
  <2> QED
    BY <1>1, <2>1 DEF AckedLen
<1>4. DOMAIN calls = {} /\ DOMAIN tickQueue = {} /\ Given = <<>>
  BY <1>1 DEF Given
<1>5. DOMAIN Given = {}
  BY <1>4
<1>6. InOrder(Given)
  BY <1>5 DEF InOrder
<1>7. UpTo(AckedLen)
  BY <1>3, <1>4 DEF UpTo, IsReceived, Brings
<1>8. ~Answered
  BY <1>1 DEF Answered, C!Idle
<1> QED
  BY <1>1, <1>2, <1>6, <1>7, <1>8 DEF CarryInv, CarriedOnce

LEMMA CarriedInOrder ==
  ASSUME CarryInv, faults = 0
  PROVE  InOrder(Given) /\ \A w \in 2..written : IsReceived(w) => IsReceived(w - 1)
<1>1. InOrder(Given) /\ \E n \in Nat : UpTo(n)
  <2>1. AckedLen \in Nat /\ FlightLen \in Nat
    BY CarryTypes DEF CarryInv, GivenInv
  <2>2. AckedLen + FlightLen \in Nat
    BY <2>1
  <2> QED
    BY <2>1, <2>2 DEF CarryInv, CarriedOnce
<1>2. PICK n \in Nat : UpTo(n)
  BY <1>1
<1>3. ASSUME NEW w \in 2..written, IsReceived(w)
      PROVE  IsReceived(w - 1)
  <2>1. w \in 1..n
    BY <1>2, <1>3 DEF UpTo
  <2>2. w - 1 \in 1..n
    BY <2>1, <1>3
  <2> QED
    BY <1>2, <2>2 DEF UpTo
<1> QED
  BY <1>1, <1>3
-----------------------------------------------------------------------------
(***************************************************************************)
(* Without a failure and without a batch lost to a body that was over:     *)
(* every packet the server wrote, and the client has not got past, is on   *)
(* the body that the client's comet waits for or in the answer it reads.   *)
(***************************************************************************)
Live(b) == comets[b].status \in {"pending", "open"}

(* What a step of the server does to the wire, and to the bodies.          *)
WritesNothing ==
  /\ wire' = wire
  /\ \A i \in 1..Len(packets') : i \in unsent' \/ (i \in 1..Len(packets) /\ i \notin unsent)
  /\ \A i \in unsent' : i \in unsent \/ i \notin 1..Len(packets)

WritesAll ==
  /\ Len(comets) # 0
  /\ unsent' = {}
  /\ \E batch \in SUBSET (1..Len(packets')) :
       /\ wire' = Append(wire, [body |-> Len(comets), ids |-> batch,
                                open |-> S!IsOpen(comets)])
       /\ \A i \in 1..Len(packets') :
            i \in batch \/ (i \in 1..Len(packets) /\ i \notin unsent)

KeepsLive ==
  /\ Len(comets') = Len(comets)
  /\ \A b \in 1..Len(comets) : Live(b)' => Live(b)

LEMMA FlushWrites ==
  ASSUME S!TypeOK, Len(packets') \in Nat, Len(packets') >= Len(packets),
         Len(comets) # 0, NEW batch \in SUBSET (1..Len(packets')),
         \A i \in 1..Len(packets') : i \in batch \/ (i \in 1..Len(packets) /\ i \notin unsent),
         S!Flush(batch, S!Unfiltered)
  PROVE  WritesAll /\ KeepsLive
<1>1. /\ unsent' = {}
      /\ wire' = Append(wire, [body |-> Len(comets), ids |-> batch,
                               open |-> S!IsOpen(comets)])
      /\ comets' = comets \/ comets' = S!Succeed(comets)
  BY DEF S!Flush, S!Unfiltered
<1>2. comets \in Seq(S!Bodies)
  BY DEF S!TypeOK
<1>3. KeepsLive
  <2>1. CASE comets' = comets
    BY <2>1 DEF KeepsLive, Live
  <2>2. CASE comets' = S!Succeed(comets)
    <3>1. /\ Len(comets) \in Nat /\ DOMAIN comets = 1..Len(comets)
          /\ \A b \in 1..Len(comets) : comets[b] \in S!Bodies
      BY <1>2, LenProperties, ElementOfSeq
    <3>2. /\ DOMAIN comets' = 1..Len(comets)
          /\ \A b \in 1..Len(comets) :
               comets'[b].status = comets[b].status \/ comets'[b].status = "succeeded"
      BY <2>2, <3>1 DEF S!Succeed, S!WithStatus, S!Bodies
    <3>3. Len(comets') = Len(comets)
      BY <1>2, <2>2 DEF S!Succeed, S!WithStatus
    <3> QED
      BY <3>2, <3>3 DEF KeepsLive, Live
  <2> QED
    BY <1>1, <2>1, <2>2
<1> QED
  BY <1>1, <1>3 DEF WritesAll

LEMMA SendDataWrites ==
  ASSUME S!TypeOK, NEW d \in Data \cup {Null}, S!SendData(d, S!Unfiltered)
  PROVE  (WritesNothing \/ WritesAll) /\ KeepsLive
<1> DEFINE n == Len(packets)
<1>1. n \in Nat /\ Len(packets') = n + 1 /\ packets \in Seq(Data \cup {Null})
  <2>1. packets \in Seq(Data \cup {Null})
    BY DEF S!TypeOK, S!Payloads
  <2>2. packets' = Append(packets, d)
    BY DEF S!SendData
  <2> QED
    BY <2>1, <2>2, AppendProperties, LenProperties
<1>2. unsent \subseteq 1..n
  BY DEF S!TypeOK, S!Ids
<1>3. S!NewBatch = unsent \cup {n + 1}
  BY DEF S!NewBatch, S!LastPacketId
<1>4. S!Unfiltered.comets = comets
  BY DEF S!Unfiltered
<1>5. CASE S!IsOpen(comets) /\ S!Flush(S!NewBatch, S!Unfiltered)
  <2> DEFINE batch == S!NewBatch
  <2>1. Len(comets) # 0
    BY <1>5 DEF S!IsOpen
  <2>2. S!Flush(batch, S!Unfiltered)
    BY <1>5
  <2>3. /\ batch \in SUBSET (1..Len(packets'))
        /\ \A i \in 1..Len(packets') : i \in batch \/ (i \in 1..n /\ i \notin unsent)
    <3>1. /\ n \in Nat /\ Len(packets') = n + 1 /\ unsent \subseteq 1..n
          /\ batch = unsent \cup {n + 1}
      BY <1>1, <1>2, <1>3
    <3> HIDE DEF batch, n
    <3>2. 1..Len(packets') = (1..n) \cup {n + 1}
      BY <3>1
    <3> QED
      BY <3>1, <3>2
  <2>4. Len(packets') \in Nat /\ Len(packets') >= n
    BY <1>1
  <2> HIDE DEF batch
  <2> QED
    BY <2>1, <2>2, <2>3, <2>4, FlushWrites
<1>6. CASE unsent' = S!NewBatch /\ comets' = comets /\ wire' = wire
  <2>1. KeepsLive
    BY <1>6 DEF KeepsLive, Live
  <2>2. /\ \A i \in 1..Len(packets') : i \in unsent' \/ (i \in 1..n /\ i \notin unsent)
        /\ \A i \in unsent' : i \in unsent \/ i \notin 1..n
    BY <1>1, <1>2, <1>3, <1>6
  <2> QED
    BY <1>6, <2>1, <2>2 DEF WritesNothing
<1> QED
  BY <1>4, <1>5, <1>6 DEF S!SendData

LEMMA StillWrites ==
  ASSUME S!TypeOK, UNCHANGED <<wire, unsent, packets>>
  PROVE  WritesNothing
BY DEF WritesNothing, S!TypeOK, S!Ids

LEMMA SameLive ==
  ASSUME comets' = comets
  PROVE  KeepsLive
BY DEF KeepsLive, Live

LEMMA TickWrites ==
  ASSUME S!CometInv, S!Tick
  PROVE  (WritesNothing \/ WritesAll) /\ KeepsLive
<1>1. S!TypeOK
  BY DEF S!CometInv
<1>2. CASE S!PostInit \/ S!Unbind
  BY <1>1, <1>2, StillWrites, SameLive DEF S!PostInit, S!Unbind
<1>3. CASE S!Respond
  <2> DEFINE b == Head(tickQueue).arg
  <2>1. /\ comets' = S!WithStatus(comets, b, "open")
        /\ UNCHANGED <<wire, unsent, packets>>
        /\ S!RunJob("respond")
    BY <1>3 DEF S!Respond
  <2>2. comets \in Seq(S!Bodies) /\ tickQueue \in Seq(S!Jobs) /\ tickQueue # <<>>
        /\ Head(tickQueue).call = "respond"
    BY <1>1, <2>1 DEF S!TypeOK, S!RunJob
  <2>3. Head(tickQueue) = tickQueue[1] /\ 1 \in 1..Len(tickQueue)
    BY <2>2, EmptySeq, LenProperties, HeadTailProperties
  <2>4. S!Answers(1)
    BY <2>2, <2>3 DEF S!Answers
  <2>5. comets[b].status = "pending"
    BY <2>3, <2>4 DEF S!CometInv, S!QueuedAnswers
  <2> HIDE DEF b
  <2>6. /\ Len(comets) \in Nat /\ DOMAIN comets = 1..Len(comets)
        /\ \A c \in 1..Len(comets) : comets[c] \in S!Bodies
    BY <2>2, LenProperties, ElementOfSeq
  <2>7. /\ Len(comets') = Len(comets)
        /\ \A c \in 1..Len(comets) : c # b => comets'[c] = comets[c]
    BY <2>1, <2>2, <2>6 DEF S!WithStatus
  <2>8. KeepsLive
    BY <2>5, <2>7 DEF KeepsLive, Live
  <2> QED
    BY <1>1, <2>1, <2>8, StillWrites
<1>4. CASE S!ReceiveData \/ S!Broadcast
  <2>1. PICK call \in {"receive_data", "broadcast"} :
          S!RunJob(call) /\ S!JobSends(Head(tickQueue).arg)
    BY <1>4 DEF S!ReceiveData, S!Broadcast
  <2> DEFINE d == Head(tickQueue).arg
  <2>2. d \in Data \cup {Null}
    <3>1. Head(tickQueue) \in S!Jobs /\ Head(tickQueue).call = call
      BY <1>1, <2>1, Bounds, S!RunJobType
    <3> QED
      BY <2>1, <3>1 DEF S!Jobs, S!Payloads
  <2>3. S!JobSends(d)
    BY <2>1
  <2> HIDE DEF d
  <2>4. CASE S!SendData(d, S!Unfiltered)
    BY <1>1, <2>2, <2>4, SendDataWrites
  <2>5. CASE UNCHANGED <<packets, unsent, unacked, comets, wire, up>>
    BY <1>1, <2>5, StillWrites, SameLive
  <2> QED
    BY <2>3, <2>4, <2>5 DEF S!JobSends
<1> QED
  BY <1>2, <1>3, <1>4 DEF S!Tick

LEMMA TimerWrites ==
  ASSUME S!TypeOK, NEW t \in 1..MaxComets, S!TimerFires(t)
  PROVE  (WritesNothing \/ WritesAll) /\ KeepsLive
<1>1. packets' = packets /\ packets \in Seq(S!Payloads) /\ unsent \subseteq 1..Len(packets)
  BY DEF S!TimerFires, S!TypeOK, S!Ids
<1>2. Len(comets) # 0
  <2>1. t \in 1..Len(comets)
    BY DEF S!TimerFires, S!TypeOK
  <2> QED
    BY <2>1
<1>3. CASE S!Flush(unsent, S!Unfiltered)
  <2>1. unsent \in SUBSET (1..Len(packets'))
    BY <1>1
  <2>2. Len(packets') \in Nat /\ Len(packets') >= Len(packets)
    BY <1>1, LenProperties
  <2>3. \A i \in 1..Len(packets') : i \in unsent \/ (i \in 1..Len(packets) /\ i \notin unsent)
    BY <1>1
  <2> QED
    BY <1>2, <1>3, <2>1, <2>2, <2>3, FlushWrites
<1>4. CASE UNCHANGED <<unsent, comets, wire>>
  BY <1>1, <1>4, StillWrites, SameLive
<1> QED
  BY <1>3, <1>4 DEF S!TimerFires

LEMMA LossWrites ==
  ASSUME S!TypeOK, NEW b, S!ConnectionLost(b)
  PROVE  WritesNothing /\ KeepsLive
<1>1. /\ comets' = [comets EXCEPT ![b] = S!Dropped(@)]
      /\ comets[b].status \in {"pending", "open"}
      /\ UNCHANGED <<wire, unsent, packets>> /\ b \in DOMAIN comets
  BY DEF S!ConnectionLost
<1>2. comets \in Seq(S!Bodies)
  BY DEF S!TypeOK
<1>3. /\ Len(comets') = Len(comets)
      /\ \A c \in 1..Len(comets) : c # b => comets'[c] = comets[c]
  BY <1>1, <1>2
<1>4. KeepsLive
  BY <1>1, <1>3 DEF KeepsLive, Live
<1> QED
  BY <1>1, <1>4, StillWrites

LEMMA HandledWrites ==
  ASSUME LinkInv, NEW req, req.ack \in 0..C!AckId, ServerHandles(req)
  PROVE  /\ WritesNothing
         /\ req.kind = "send" => KeepsLive
<1> DEFINE ack == req.ack
<1>1. S!TypeOK /\ Plain \in Requests /\ ack \in S!Acks
  <2>1. C!AckId \in Nat /\ C!AckId =< MaxPackets
    BY AckIds DEF LinkInv
  <2> QED
    BY <2>1, CarryTypes, NumbersAreNat DEF Requests, S!Acks
<1>2. CASE req.kind = "send"
  <2> DEFINE b == [i \in DOMAIN req.packets |-> req.packets[i].data]
  <2>1. Server!CspSend(Plain, ack, b)
    BY <1>2 DEF ServerHandles
  <2> HIDE DEF b, ack
  <2>2. S!CspSend(Plain, ack, b)
    BY <2>1, SameServer
  <2>3. /\ UNCHANGED <<wire, unsent, packets>>
        /\ comets' = S!Filtered(Plain, ack).comets
    BY <2>2 DEF S!CspSend
  <2>4. S!Progress(comets, S!Filtered(Plain, ack).comets)
    BY <1>1, Bounds, S!FilteredProgress
  <2>5. S!Progress(comets, comets')
    BY <2>3, <2>4
  <2>6. /\ Len(comets') = Len(comets)
        /\ \A c \in 1..Len(comets) :
             /\ comets[c].status = "pending" <=> comets'[c].status = "pending"
             /\ comets'[c].status = "open" => comets[c].status = "open"
    BY <2>5 DEF S!Progress
  <2>7. KeepsLive
    BY <2>6 DEF KeepsLive, Live
  <2> QED
    BY <1>1, <2>3, <2>7, StillWrites
<1>3. CASE req.kind # "send"
  <2>1. Server!Comet(Plain, ack)
    BY <1>3 DEF ServerHandles
  <2> HIDE DEF ack
  <2>2. S!Comet(Plain, ack)
    BY <2>1, SameServer
  <2>3. UNCHANGED <<wire, unsent, packets>>
    BY <2>2 DEF S!Comet
  <2> QED
    BY <1>1, <1>3, <2>3, StillWrites
<1> QED
  BY <1>2, <1>3

LEMMA ServerHalfWrites ==
  ASSUME LinkInv, ServerHalf
  PROVE  up /\ (WritesNothing \/ WritesAll) /\ KeepsLive
<1>1. S!CometInv /\ S!TypeOK
  <2> DEFINE seen == C!AckId
  <2>1. ServerHolds(seen)
    BY DEF LinkInv
  <2> HIDE DEF seen
  <2> QED
    BY <2>1 DEF ServerHolds, S!CometInv
<1>2. \/ S!Tick \/ \E t \in 1..MaxComets : S!TimerFires(t)
      \/ \E b \in 1..MaxComets : S!ConnectionLost(b)
  BY SameServer DEF ServerHalf, ServerRuns, ServerNoticesLoss
<1>3. up
  BY <1>2 DEF S!Tick, S!Respond, S!PostInit, S!ReceiveData, S!Broadcast, S!Unbind,
              S!RunJob, S!TimerFires, S!ConnectionLost, S!HandlerRuns
<1> QED
  BY <1>1, <1>2, <1>3, TickWrites, TimerWrites, LossWrites

LEMMA ArrivalsWrite ==
  ASSUME LinkInv, up => abandoned = {}, Arrivals
  PROVE  /\ WritesNothing
         /\ \/ KeepsLive /\ UNCHANGED <<cometStage, cometBody>>
            \/ KeepsLive /\ cometStage = "travelling" /\ cometStage' = "refused"
            \/ /\ up /\ cometStage = "travelling"
               /\ cometStage' = "held" /\ cometBody' = Len(comets')
<1>1. ASSUME UNCHANGED serverVars
      PROVE  WritesNothing /\ KeepsLive
  BY <1>1, CarryTypes, StillWrites, SameLive DEF serverVars
<1>2. CASE HandshakeArrives
  <2>1. S!Handshake(Plain)
    BY <1>2, SameServer DEF HandshakeArrives
  <2>2. UNCHANGED <<wire, unsent, packets, comets>>
    BY <2>1 DEF S!Handshake
  <2> QED
    BY <1>2, <2>2, CarryTypes, StillWrites, SameLive DEF HandshakeArrives
<1>3. CASE SendArrives
  BY <1>1, <1>3, HandledWrites DEF SendArrives, LinkInv, SendSeen
<1>4. CASE CometArrives
  <2>1. cometXhr.kind = "comet" /\ cometXhr.ack \in 0..C!AckId
    BY <1>4 DEF CometArrives, LinkInv, CometStaged, CometSeen
  <2>2. CASE cometStage' = "refused" /\ UNCHANGED serverVars
    BY <1>1, <1>4, <2>2 DEF CometArrives
  <2>3. CASE cometStage' = "held" /\ ServerHandles(cometXhr) /\ cometBody' = Len(comets')
    BY <1>4, <2>1, <2>3, HandledWrites, HandlerIsUp DEF CometArrives
  <2> QED
    BY <1>4, <2>2, <2>3 DEF CometArrives
<1>5. ASSUME NEW a \in abandoned, AbandonedArrives(a)
      PROVE  FALSE
  BY <1>5, HandlerIsUp DEF AbandonedArrives
<1> QED
  BY <1>2, <1>3, <1>4, <1>5 DEF Arrivals
-----------------------------------------------------------------------------
(* What a step of the client does to the answer it reads.                  *)
Loops == {"packets", "onread"}

ReadsNothing ==
  /\ UNCHANGED <<response, lastEventId, delivered>>
  /\ running' \notin Loops => running \notin Loops \/ response = <<>>

Skips ==
  /\ C!SkipPacket
  /\ response # <<>> /\ C!Seen(Head(response).id)
  /\ response' = Tail(response)
  /\ running' \in Loops
  /\ UNCHANGED <<lastEventId, delivered>>

Delivers ==
  /\ C!DeliverPacket
  /\ response # <<>> /\ ~C!Seen(Head(response).id) /\ ~C!Ahead(Head(response).id)
  /\ lastEventId' = Head(response).id
  /\ delivered' = Append(delivered, Head(response).id)
  /\ response' = Tail(response)
  /\ running' \in Loops

Stops == response' = <<>> /\ ~C!MayRead' /\ UNCHANGED delivered

Begins ==
  /\ cometXhr.kind = "comet" /\ cometXhr' = C!Idle
  /\ UNCHANGED <<lastEventId, delivered>>
  /\ \/ \E batch \in C!Responses :
          /\ C!CometSuccess(batch) /\ Offered(batch, Len(packets))
          /\ \/ UNCHANGED <<response, running>>
             \/ response' = batch /\ running' \in Loops
     \/ C!CometEmpty /\ UNCHANGED <<response, running>>

Fatal == "protocol error"
Sound(s) == \A i \in DOMAIN s : s[i] # Fatal

(* The answer that is read holds consecutive packets, and nothing else.    *)
InTurn ==
  /\ running \notin Loops => response = <<>>
  /\ \A j \in 1..Len(response) :
       /\ response[j].id = response[1].id + j - 1
       /\ response[j].kind \in {"data", "null"}

(* The next packet that the client reads is the one after those seen.      *)
NextExpected ==
  /\ response # <<>> => response[1].id =< C!AckId + 1
  /\ delivered # <<>> => delivered[1] = 1
  /\ Sound(disconnects)

LEMMA HeadInTurn ==
  ASSUME ClientSide, InTurn, response # <<>>
  PROVE  /\ Head(response) = response[1] /\ response[1].id \in Nat
         /\ response[1].kind \in {"data", "null"}
         /\ Len(response) \in Nat /\ Len(response) >= 1
<1>1. response \in Seq(C!EventPackets)
  BY Zenon DEF ClientSide, C!ClientInv, C!TypeOK
<1>2. Len(response) \in Nat /\ Len(response) >= 1 /\ Head(response) = response[1]
  BY <1>1, EmptySeq, LenProperties, HeadTailProperties
<1>3. 1 \in 1..Len(response)
  BY <1>2
<1>4. response[1].id \in 1..Len(packets)
  BY <1>3 DEF ClientSide, Offered
<1> QED
  BY <1>2, <1>3, <1>4 DEF InTurn

(* No answer holds a packet ahead of the next, or one that is corrupt.     *)
LEMMA NoneAhead ==
  ASSUME ClientSide, InTurn, NextExpected
  PROVE  ~C!PacketAhead /\ ~C!CorruptPacket /\ ~C!UnreadablePacket /\ ~C!MissingPacket
<1>1. ASSUME C!CorruptPacket \/ C!UnreadablePacket \/ C!MissingPacket
      PROVE  FALSE
  <2>1. response # <<>> /\ Head(response).kind \in {"corrupt", "unreadable", "missing"}
    BY <1>1 DEF C!CorruptPacket, C!UnreadablePacket, C!MissingPacket, C!Expected, C!AtPacket
  <2> QED
    BY <2>1, HeadInTurn
<1>2. ASSUME C!PacketAhead
      PROVE  FALSE
  <2>1. response # <<>> /\ C!Ahead(Head(response).id)
    BY <1>2 DEF C!PacketAhead, C!AtPacket
  <2>2. lastEventId = C!AckId /\ C!AckId \in Nat
    BY <2>1, AckIds DEF C!Ahead
  <2>3. response[1].id =< C!AckId + 1 /\ response[1].id \in Nat /\ Head(response) = response[1]
    BY <2>1, HeadInTurn DEF NextExpected
  <2>4. response[1].id > C!AckId + 1
    BY <2>1, <2>2, <2>3 DEF C!Ahead
  <2> QED
    BY <2>2, <2>3, <2>4
<1> QED
  BY <1>1, <1>2

LEMMA ReadMoves ==
  ASSUME ClientSide, InTurn, NextExpected, ClientSteps
  PROVE  ReadsNothing \/ Skips \/ Delivers \/ Stops \/ Begins
<1>1. CASE C!Application
  BY <1>1 DEF C!Application, C!Connect, C!Write, C!Close, ReadsNothing
<1>2. CASE C!Timers
  BY <1>2 DEF C!Timers, C!HandshakeTimeout, C!HandshakeRetry, C!WriteTimer,
              C!CometTimer, C!TimeoutExpires, ReadsNothing
<1>3. CASE C!HandshakeSuccess \/ C!WriteSuccess \/ C!WriteFailure
  BY <1>3 DEF C!HandshakeSuccess, C!HandshakeAnswered, C!Free, C!WriteSuccess,
              C!WriteFailure, ReadsNothing, Loops
<1>4. ASSUME NEW notFound \in BOOLEAN, C!HandshakeFailure(notFound)
      PROVE  ReadsNothing
  BY <1>4 DEF C!HandshakeFailure, ReadsNothing
<1>5. CASE C!CometFailure(FALSE)
  BY <1>5 DEF C!CometFailure, ReadsNothing
<1>6. CASE C!CometEmpty
  BY <1>6 DEF C!CometEmpty, C!CometAnswered, Begins
<1>7. ASSUME NEW batch \in C!Responses, C!CometSuccess(batch), Offered(batch, Len(packets))
      PROVE  Begins
  BY <1>7 DEF C!CometSuccess, C!CometAnswered, Begins, Loops
<1>8. CASE C!Continue
  <2>1. CASE C!OnConnectReturns \/ C!OnReadReturns \/ C!PacketsDone
    BY <2>1 DEF C!OnConnectReturns, C!OnReadReturns, C!PacketsDone, ReadsNothing, Loops
  <2>2. CASE C!SkipPacket
    BY <2>2 DEF C!SkipPacket, C!AtPacket, Skips, Loops
  <2>3. CASE C!DeliverPacket
    BY <2>3 DEF C!DeliverPacket, C!Expected, C!AtPacket, Delivers, Loops
  <2>4. CASE C!ReceivedNullPacket
    <3>1. running' = "none" /\ response' = <<>> /\ delivered' = delivered
      BY <2>4 DEF C!ReceivedNullPacket, C!HandlerStops
    <3>2. readyState' \in {"DISCONNECTING", "DISCONNECTED"}
      BY <2>4 DEF C!ReceivedNullPacket, C!AnswerNull
    <3> QED
      BY <3>1, <3>2 DEF C!MayRead, Stops
  <2> QED
    BY <1>8, <2>1, <2>2, <2>3, <2>4, NoneAhead DEF C!Continue
<1> QED
  BY <1>1, <1>2, <1>3, <1>4, <1>5, <1>6, <1>7, <1>8 DEF ClientSteps

LEMMA SoundLonger ==
  ASSUME NEW T, NEW s \in Seq(T), NEW t \in Seq(T), Sound(s), Sound(t)
  PROVE  Sound(s \o t)
<1>1. /\ DOMAIN s = 1..Len(s) /\ DOMAIN t = 1..Len(t) /\ Len(s) \in Nat /\ Len(t) \in Nat
      /\ DOMAIN (s \o t) = 1..Len(s) + Len(t)
      /\ \A i \in 1..Len(s) + Len(t) :
           (s \o t)[i] = IF i =< Len(s) THEN s[i] ELSE t[i - Len(s)]
  BY LenProperties, ConcatProperties
<1>2. /\ \A k \in 1..Len(s) : s[k] # Fatal
      /\ \A k \in 1..Len(t) : t[k] # Fatal
  BY <1>1 DEF Sound
<1>3. ASSUME NEW i \in 1..Len(s) + Len(t)
      PROVE  (s \o t)[i] # Fatal
  <2>1. CASE i =< Len(s)
    <3>1. i \in 1..Len(s) /\ (s \o t)[i] = s[i]
      BY ONLY <1>1, <2>1, i \in 1..Len(s) + Len(t)
    <3> QED
      BY ONLY <1>2, <3>1
  <2>2. CASE ~(i =< Len(s))
    <3>1. i - Len(s) \in 1..Len(t) /\ (s \o t)[i] = t[i - Len(s)]
      BY ONLY <1>1, <2>2, i \in 1..Len(s) + Len(t)
    <3> QED
      BY ONLY <1>2, <3>1
  <2> QED
    BY <2>1, <2>2
<1> QED
  BY <1>1, <1>3 DEF Sound

Told(s) ==
  \E said \in {<<>>, <<"close">>, <<"close", "close">>, <<"clean">>, <<"unreachable">>} :
    s = disconnects \o said

LEMMA ToldOnce ==
  ASSUME C!TypeOK, NEW w \in {"clean", "unreachable"}, disconnects' = Append(disconnects, w)
  PROVE  Told(disconnects')
<1>1. disconnects \in Seq({"close", "protocol error", "clean", "unreachable"})
  BY Zenon DEF C!TypeOK
<1>2. Append(disconnects, w) = disconnects \o <<w>>
  BY <1>1, AppendIsConcat
<1> QED
  BY <1>2 DEF Told

LEMMA ToldNothing ==
  ASSUME C!TypeOK, disconnects' = disconnects
  PROVE  Told(disconnects')
<1>1. disconnects \in Seq({"close", "protocol error", "clean", "unreachable"})
  BY Zenon DEF C!TypeOK
<1>2. disconnects \o <<>> = disconnects
  BY <1>1, ConcatEmptySeq
<1> QED
  BY <1>2 DEF Told

LEMMA ToldClosed ==
  ASSUME C!TypeOK, NEW ts, C!CloseSession(ts)
  PROVE  Told(disconnects')
<1>1. \/ disconnects' = disconnects
      \/ disconnects' = disconnects \o <<"close">>
      \/ disconnects' = disconnects \o <<"close", "close">>
  BY DEF C!CloseSession
<1> QED
  BY <1>1, ToldNothing DEF Told

LEMMA ClientTells ==
  ASSUME ClientSide, InTurn, NextExpected, ClientSteps
  PROVE  Told(disconnects')
<1>0. C!TypeOK
  BY DEF ClientSide, C!ClientInv
<1>1. CASE C!Connect \/ C!Write
  BY <1>0, <1>1, ToldNothing DEF C!Connect, C!Write
<1>2. CASE C!Close \/ C!TimeoutExpires
  BY <1>0, <1>2, ToldClosed DEF C!Close, C!TimeoutExpires
<1>3. CASE C!HandshakeTimeout
  BY <1>0, <1>3, ToldOnce DEF C!HandshakeTimeout
<1>4. CASE C!HandshakeRetry \/ C!WriteTimer \/ C!CometTimer
  BY <1>0, <1>4, ToldNothing DEF C!HandshakeRetry, C!WriteTimer, C!CometTimer
<1>5. CASE C!HandshakeSuccess \/ C!WriteSuccess \/ C!WriteFailure \/ C!CometEmpty
  BY <1>0, <1>5, ToldNothing
     DEF C!HandshakeSuccess, C!WriteSuccess, C!WriteFailure, C!CometEmpty
<1>6. ASSUME NEW notFound \in BOOLEAN, C!HandshakeFailure(notFound)
      PROVE  Told(disconnects')
  <2>1. \/ disconnects' = disconnects
        \/ disconnects' = Append(disconnects, "unreachable")
    BY <1>6 DEF C!HandshakeFailure
  <2> QED
    BY <1>0, <2>1, ToldNothing, ToldOnce
<1>7. CASE C!CometFailure(FALSE)
  BY <1>0, <1>7, ToldNothing DEF C!CometFailure
<1>8. ASSUME NEW batch \in C!Responses, C!CometSuccess(batch)
      PROVE  Told(disconnects')
  BY <1>0, <1>8, ToldNothing DEF C!CometSuccess
<1>9. CASE C!OnConnectReturns \/ C!SkipPacket \/ C!DeliverPacket \/ C!OnReadReturns
           \/ C!PacketsDone
  BY <1>0, <1>9, ToldNothing DEF C!OnConnectReturns, C!SkipPacket, C!DeliverPacket,
                     C!OnReadReturns, C!PacketsDone
<1>10. CASE C!ReceivedNullPacket
  BY <1>0, <1>10, ToldOnce DEF C!ReceivedNullPacket
<1> QED
  BY <1>1, <1>2, <1>3, <1>4, <1>5, <1>6, <1>7, <1>8, <1>9, <1>10, NoneAhead
     DEF ClientSteps, C!Application, C!Timers, C!Continue

LEMMA SoundStays ==
  ASSUME ClientSide, InTurn, NextExpected, ClientSteps
  PROVE  Sound(disconnects')
<1> DEFINE T == {"close", Fatal, "clean", "unreachable"}
<1>1. disconnects \in Seq(T) /\ Sound(disconnects)
  BY Zenon DEF ClientSide, C!ClientInv, C!TypeOK, NextExpected, Fatal
<1>2. Told(disconnects')
  BY ClientTells
<1>3. Fatal # "close" /\ Fatal # "clean" /\ Fatal # "unreachable"
  BY Zenon DEF Fatal
<1>4. /\ <<>> \in Seq(T) /\ <<"close">> \in Seq(T) /\ <<"close", "close">> \in Seq(T)
      /\ <<"clean">> \in Seq(T) /\ <<"unreachable">> \in Seq(T)
  OBVIOUS
<1>5. /\ Sound(<<>>) /\ Sound(<<"close">>) /\ Sound(<<"close", "close">>)
      /\ Sound(<<"clean">>) /\ Sound(<<"unreachable">>)
  BY <1>3 DEF Sound
<1> HIDE DEF T
<1>6. ASSUME NEW said \in Seq(T), Sound(said)
      PROVE  Sound(disconnects \o said)
  BY <1>1, <1>6, SoundLonger
<1> QED
  BY <1>2, <1>4, <1>5, <1>6, Zenon DEF Told

(* While the comet is out, no other is asked for.                          *)
LEMMA PollStays ==
  ASSUME ClientSide, cometXhr.kind = "comet", C!Application \/ C!Timers \/ C!Continue
  PROVE  cometXhr' = cometXhr
<1>1. running = "none" /\ "comet" \notin timers
  BY DEF ClientSide, C!LoopInv, C!CometLoop, C!Idle
<1>2. CASE C!Application
  BY <1>2 DEF C!Application, C!Connect, C!Write, C!Close
<1>3. CASE C!Timers
  BY <1>1, <1>3 DEF C!Timers, C!HandshakeTimeout, C!HandshakeRetry, C!WriteTimer,
                    C!CometTimer, C!TimeoutExpires
<1>4. CASE C!Continue
  BY <1>1, <1>4 DEF C!Continue, C!OnConnectReturns, C!SkipPacket, C!DeliverPacket,
                    C!OnReadReturns, C!ReceivedNullPacket, C!CorruptPacket,
                    C!UnreadablePacket, C!PacketAhead, C!MissingPacket, C!PacketsDone,
                    C!Expected, C!AtPacket
<1> QED
  BY <1>2, <1>3, <1>4

HeldAsked == cometStage = "held" => cometXhr.kind = "comet"

(* A comet that is held stays so, unless the server is gone.               *)
StageStays ==
  /\ cometStage' = "held" => cometStage = "held" /\ cometBody' = cometBody
  /\ cometStage = "held" => cometStage' = "held" \/ ~up'
  /\ cometStage = "held" /\ cometStage' = "held" => cometXhr' = cometXhr

LEMMA HeldStays ==
  ASSUME LinkInv, HeldAsked, ClientHalf, ~CometSucceeds,
         faults \in Nat, faults' = faults
  PROVE  StageStays
<1>1. CASE ClientRuns
  <2>1. /\ C!Application \/ C!Timers \/ C!Continue
        /\ UNCHANGED cometBody /\ Polling
    BY <1>1, SameClient DEF ClientRuns
  <2>2. CASE cometStage = "held"
    <3>1. cometXhr' = cometXhr
      BY <2>1, <2>2, PollStays DEF LinkInv, HeldAsked
    <3> QED
      BY <2>1, <2>2, <3>1 DEF Polling, StageStays
  <2>3. CASE cometStage # "held"
    BY <2>1, <2>3 DEF Polling, StageStays
  <2> QED
    BY <2>2, <2>3
<1>2. CASE SendSucceeds \/ HandshakeFails \/ SendFails
  BY <1>2 DEF SendSucceeds, HandshakeFails, SendFails, StageStays,
              Client!HandshakeSuccess, Client!WriteSuccess,
              Client!HandshakeFailure, Client!WriteFailure
<1>3. CASE CometFails
  <2>1. cometStage' = "none" /\ UNCHANGED serverVars /\ (cometStage = "refused" \/ ~up)
    BY <1>3 DEF CometFails, Counted
  <2>2. up' = up
    BY <2>1 DEF serverVars
  <2> QED
    BY <2>1, <2>2 DEF StageStays
<1> QED
  BY <1>1, <1>2, <1>3 DEF ClientHalf

LEMMA ReadHalf ==
  ASSUME LinkInv, InTurn, NextExpected, ClientHalf, ~CometSucceeds
  PROVE  ReadsNothing \/ Skips \/ Delivers \/ Stops
<1>1. ClientSide /\ ClientSteps
  BY ClientHalfSteps DEF LinkInv
<1>2. ReadsNothing \/ Skips \/ Delivers \/ Stops \/ Begins
  BY <1>1, ReadMoves
<1>3. ASSUME Begins
      PROVE  cometXhr.kind = "comet" /\ cometXhr' = C!Idle
  BY <1>3 DEF Begins
<1>4. CASE CometFails
  BY <1>4, SameClient DEF CometFails, C!CometFailure, ReadsNothing
<1>5. CASE ClientRuns
  <2>1. C!Application \/ C!Timers \/ C!Continue
    BY <1>5, SameClient DEF ClientRuns
  <2> QED
    BY <1>1, <1>2, <1>3, <2>1, PollStays DEF C!Idle
<1>6. CASE SendSucceeds \/ HandshakeFails \/ SendFails
  <2>1. cometXhr' = cometXhr
    BY <1>6 DEF SendSucceeds, HandshakeFails, SendFails,
              Client!HandshakeSuccess, Client!WriteSuccess,
              Client!HandshakeFailure, Client!WriteFailure
  <2> QED
    BY <1>2, <1>3, <2>1 DEF C!Idle
<1> QED
  BY <1>4, <1>5, <1>6 DEF ClientHalf

(* What is left of an answer once its first packet is read.                *)
LEMMA TailInTurn ==
  ASSUME ClientSide, InTurn, response # <<>>
  PROVE  LET t == Tail(response)
         IN  /\ Len(t) = Len(response) - 1
             /\ \A j \in 1..Len(t) :
                  /\ t[j] = response[j + 1]
                  /\ t[j].id = t[1].id + j - 1
                  /\ t[j].kind \in {"data", "null"}
             /\ t # <<>> => t[1].id = response[1].id + 1
<1> DEFINE r == response
           t == Tail(response)
<1>1. r \in Seq(C!EventPackets)
  BY Zenon DEF ClientSide, C!ClientInv, C!TypeOK
<1>2. /\ Len(r) \in Nat /\ Len(r) >= 1 /\ r[1].id \in Nat
      /\ \A j \in 1..Len(r) : r[j].id = r[1].id + j - 1 /\ r[j].kind \in {"data", "null"}
  BY HeadInTurn DEF InTurn
<1>3. /\ t \in Seq(C!EventPackets) /\ Len(t) = Len(r) - 1
      /\ \A j \in 1..Len(t) : t[j] = r[j + 1]
  BY <1>1, HeadTailProperties
<1>4. t # <<>> => Len(t) >= 1
  BY <1>3, EmptySeq, LenProperties
<1> HIDE DEF r, t
<1>5. ASSUME NEW j \in 1..Len(t)
      PROVE  t[j].id = r[1].id + j /\ t[j].kind \in {"data", "null"} /\ 1 \in 1..Len(t)
  <2>1. j + 1 \in 1..Len(r) /\ 1 \in 1..Len(t)
    BY <1>2, <1>3
  <2>2. r[j + 1].id = r[1].id + (j + 1) - 1 /\ r[j + 1].kind \in {"data", "null"}
    BY <1>2, <2>1
  <2> QED
    BY <1>2, <1>3, <2>1, <2>2
<1>6. ASSUME NEW j \in 1..Len(t)
      PROVE  t[j].id = t[1].id + j - 1
  <2>1. t[j].id = r[1].id + j /\ t[1].id = r[1].id + 1
    BY <1>5
  <2>2. r[1].id \in Int /\ j \in Int
    BY <1>2, <1>3
  <2> QED
    BY ONLY <2>1, <2>2
<1>7. t # <<>> => t[1].id = r[1].id + 1
  <2>1. t # <<>> => 1 \in 1..Len(t)
    BY <1>2, <1>3, <1>4
  <2> QED
    BY <1>5, <2>1
<1> QED
  BY <1>3, <1>5, <1>6, <1>7 DEF r, t

LEMMA InTurnStays ==
  ASSUME ClientSide, InTurn, ReadsNothing \/ Skips \/ Delivers \/ Stops
  PROVE  InTurn'
<1>1. CASE ReadsNothing
  BY <1>1 DEF ReadsNothing, InTurn
<1>2. CASE Skips \/ Delivers
  <2>1. response # <<>> /\ response' = Tail(response) /\ running' \in Loops
    BY <1>2 DEF Skips, Delivers
  <2> QED
    BY <2>1, TailInTurn DEF InTurn
<1>3. CASE Stops
  <2>1. Len(<<>>) = 0
    OBVIOUS
  <2> QED
    BY <1>3, <2>1 DEF Stops, InTurn
<1> QED
  BY <1>1, <1>2, <1>3

LEMMA NextStays ==
  ASSUME ClientSide, InTurn, NextExpected, ClientSteps,
         ReadsNothing \/ Skips \/ Delivers \/ Stops
  PROVE  NextExpected'
<1> DEFINE id == response[1].id
           t == Tail(response)
<1>1. Sound(disconnects')
  BY SoundStays
<1>2. CASE ReadsNothing
  <2>1. C!AckId' = C!AckId
    BY <1>2 DEF ReadsNothing, C!AckId, C!NoEvent
  <2> QED
    BY <1>1, <1>2, <2>1 DEF ReadsNothing, NextExpected
<1>3. CASE Stops
  BY <1>1, <1>3 DEF Stops, NextExpected
<1>4. CASE Skips \/ Delivers
  <2>1. /\ response # <<>> /\ response' = t
        /\ Head(response) = response[1] /\ id \in Nat
    BY <1>4, HeadInTurn DEF Skips, Delivers
  <2>2. id \in 1..Len(packets) /\ id =< C!AckId + 1
    BY <2>1, HeadOffered DEF NextExpected
  <2>3. t # <<>> => t[1].id = id + 1
    BY <2>1, TailInTurn
  <2>4. /\ C!AckId \in Nat
        /\ lastEventId = C!NoEvent => C!AckId = 0
        /\ lastEventId # C!NoEvent => lastEventId = C!AckId
    BY AckIds
  <2>5. CASE Skips
    <3>1. C!AckId' = C!AckId /\ delivered' = delivered
      BY <2>5 DEF Skips, C!AckId, C!NoEvent
    <3>2. id =< C!AckId
      BY <2>1, <2>4, <2>5 DEF Skips, C!Seen
    <3> HIDE DEF t
    <3>3. t # <<>> => t[1].id =< C!AckId + 1
      BY <2>1, <2>3, <2>4, <3>2
    <3> QED
      BY <1>1, <2>1, <3>1, <3>3 DEF NextExpected
  <2>6. CASE Delivers
    <3>1. lastEventId' = id /\ delivered' = Append(delivered, id) /\ C!DeliverPacket
      BY <2>1, <2>6 DEF Delivers
    <3>2. C!AckId' = id
      <4>1. id # C!NoEvent
        BY <2>2 DEF C!NoEvent
      <4> QED
        BY <3>1, <4>1 DEF C!AckId, C!NoEvent
    <3>3. delivered \in Seq(1..MaxEventId) /\ id \in Nat
      BY <2>1, Zenon DEF ClientSide, C!ClientInv, C!TypeOK
    <3>4. ASSUME delivered = <<>>
          PROVE  delivered'[1] = 1
      <4>1. C!Synced
        BY <3>1 DEF ClientSide, C!LoopInv, C!Reading, C!MayRead, C!DeliverPacket,
                    C!Expected, C!AtPacket
      <4>2. C!AckId = 0
        BY <2>4, <3>4, <4>1 DEF C!Synced
      <4>3. id = 1
        BY <2>2, <4>2
      <4>4. Append(<<>>, 1)[1] = 1
        OBVIOUS
      <4> QED
        BY <3>1, <3>4, <4>3, <4>4
    <3>5. ASSUME delivered # <<>>
          PROVE  delivered'[1] = 1
      <4>1. Len(delivered) \in Nat /\ Len(delivered) >= 1
        BY <3>3, <3>5, EmptySeq, LenProperties
      <4>2. 1 \in 1..Len(delivered)
        BY <4>1
      <4>3. delivered \in Seq(Nat)
        BY <3>3, SeqMonotonic, 1..MaxEventId \subseteq Nat
      <4> HIDE DEF id
      <4>4. Append(delivered, id)[1] = delivered[1]
        BY <3>3, <4>2, <4>3, AppendProperties
      <4> QED
        BY <3>1, <3>5, <4>4 DEF NextExpected
    <3>6. delivered'[1] = 1
      BY <3>4, <3>5
    <3> HIDE DEF t
    <3>7. t # <<>> => t[1].id =< C!AckId' + 1
      BY <2>1, <2>3, <3>2
    <3> QED
      BY <1>1, <2>1, <3>6, <3>7 DEF NextExpected
  <2> QED
    BY <1>4, <2>5, <2>6
<1> QED
  BY <1>2, <1>3, <1>4
-----------------------------------------------------------------------------
WrittenIsSent == \A k \in 1..Len(wire) : wire[k].ids \cap unsent = {}

(* Whoever reads the last body, if it may still be written, is the comet.  *)
LivePolled ==
  (up /\ Len(comets) # 0 /\ Live(Len(comets))) =>
    cometStage = "held" /\ cometBody = Len(comets)

(* Where a packet is that the client has still to read.                    *)
Waits(i) ==
  \/ i \in unsent
  \/ i =< C!AckId
  \/ \E j \in 1..Len(response) : response[j].id = i
  \/ cometStage = "held" /\ i \in Received(cometBody)

AllWait ==
  (C!MayRead /\ (up \/ cometStage = "held")) =>
    \A i \in 1..Len(packets) : Waits(i)

Calm == faults = 0 /\ ~LostToFinishedBody

OnceInv ==
  /\ CarryInv /\ WrittenIsSent
  /\ faults = 0 => HeldAsked /\ LivePolled
  /\ Calm => InTurn /\ NextExpected /\ AllWait

LEMMA MayReadLess ==
  ASSUME ClientSide, ClientSteps
  PROVE  C!MayRead' => C!MayRead
<1>1. C!Next
  BY DEF ClientSteps, C!Next, C!Network
<1>2. C!CometLoop /\ C!TypeOK
  BY DEF ClientSide, C!ClientInv, C!LoopInv
<1> QED
  BY <1>1, <1>2, Bounds, C!MayReadStays

LEMMA AckIdsGrow ==
  ASSUME ClientSide, ClientSteps, packets' = packets
  PROVE  C!AckId \in Nat /\ C!AckId' \in Nat /\ C!AckId =< C!AckId'
BY ClientKeeps, AckIds, AckIdsNext

(* What the client reads it gets past; the rest waits where it did.        *)
LEMMA WaitStays ==
  ASSUME LinkInv, InTurn, NextExpected, AllWait, ClientHalf, ~CometSucceeds,
         StageStays
  PROVE  AllWait'
<1>1. ClientSide /\ ClientSteps /\ UNCHANGED serverVars
  BY ClientHalfSteps DEF LinkInv
<1>2. UNCHANGED <<packets, unsent, wire>> /\ up' = up
  <2>1. up' = up
    BY <1>1, Zenon DEF serverVars
  <2> QED
    BY <1>1, <2>1 DEF serverVars
<1>3. C!AckId \in Nat /\ C!AckId' \in Nat /\ C!AckId =< C!AckId'
  BY <1>1, <1>2, AckIdsGrow
<1>4. C!MayRead' => C!MayRead
  BY <1>1, MayReadLess
<1>5. ReadsNothing \/ Skips \/ Delivers \/ Stops
  BY ReadHalf
<1> SUFFICES ASSUME C!MayRead', (up \/ cometStage = "held")',
                    NEW i \in 1..Len(packets)
             PROVE  Waits(i)'
  BY <1>2 DEF AllWait
<1>6. up \/ cometStage = "held"
  <2>1. cometStage' = "held" => cometStage = "held"
    BY DEF StageStays
  <2> QED
    BY <1>2, <2>1
<1>7. Waits(i)
  BY <1>4, <1>6 DEF AllWait
<1>8. CASE i \in unsent
  BY <1>2, <1>8 DEF Waits
<1>9. CASE i =< C!AckId
  <2>1. i =< C!AckId'
    BY <1>3, <1>9
  <2> QED
    BY <2>1 DEF Waits
<1>10. ASSUME NEW j \in 1..Len(response), response[j].id = i
       PROVE  Waits(i)'
  <2>1. CASE ReadsNothing
    BY <1>10, <2>1 DEF ReadsNothing, Waits
  <2>2. CASE Skips \/ Delivers
    <3> DEFINE t == Tail(response)
    <3>1. response # <<>> /\ response' = t /\ Head(response) = response[1]
      BY <2>2, HeadInTurn DEF Skips, Delivers
    <3>2. /\ Len(response) \in Nat /\ Len(t) = Len(response) - 1
          /\ \A n \in 1..Len(t) : t[n] = response[n + 1]
      BY <1>1, <3>1, HeadInTurn, TailInTurn
    <3>3. CASE j = 1
      <4>1. i =< C!AckId'
        <5>1. CASE Skips
          <6>1. i =< C!AckId
            BY <1>1, <1>10, <3>1, <3>3, <5>1, AckIds DEF Skips, C!Seen
          <6> QED
            BY <1>3, <6>1
        <5>2. CASE Delivers
          <6>1. lastEventId' = i
            BY <1>10, <3>1, <3>3, <5>2 DEF Delivers
          <6>2. i # C!NoEvent
            BY DEF C!NoEvent
          <6> QED
            BY <6>1, <6>2 DEF C!AckId, C!NoEvent
        <5> QED
          BY <2>2, <5>1, <5>2
      <4> QED
        BY <4>1 DEF Waits
    <3>4. CASE j # 1
      <4> HIDE DEF t
      <4>1. j - 1 \in 1..Len(t) /\ t[j - 1] = response[j]
        BY <3>2, <3>4
      <4> QED
        BY <1>10, <3>1, <4>1 DEF Waits
    <3> QED
      BY <3>3, <3>4
  <2>3. CASE Stops
    BY <2>3 DEF Stops
  <2> QED
    BY <1>5, <2>1, <2>2, <2>3
<1>11. CASE cometStage = "held" /\ i \in Received(cometBody)
  <2>1. cometStage' = "held" /\ cometBody' = cometBody
    <3>1. cometStage' = "held"
      BY <1>2, <1>11 DEF StageStays
    <3> QED
      BY <3>1 DEF StageStays
  <2>2. Received(cometBody)' = Received(cometBody)
    BY <1>2, <2>1 DEF Received
  <2> QED
    BY <1>11, <2>1, <2>2 DEF Waits
<1> QED
  BY <1>7, <1>8, <1>9, <1>10, <1>11 DEF Waits

(* The wire and what was received from it, as a step of the server goes.   *)
LEMMA WireTypes ==
  ASSUME S!TypeOK
  PROVE  /\ Len(wire) \in Nat /\ DOMAIN wire = 1..Len(wire)
         /\ \A k \in 1..Len(wire) : wire[k].ids \subseteq 1..Len(packets)
<1> DEFINE W == [body : 1..Len(comets), ids : SUBSET S!Ids, open : BOOLEAN]
<1>1. wire \in Seq(W)
  BY DEF S!TypeOK
<1> HIDE DEF W
<1>2. Len(wire) \in Nat /\ DOMAIN wire = 1..Len(wire)
      /\ \A k \in 1..Len(wire) : wire[k] \in W
  BY <1>1, LenProperties, ElementOfSeq
<1>3. S!Ids = 1..Len(packets)
  BY DEF S!Ids, S!LastPacketId
<1> QED
  BY <1>2, <1>3 DEF W

LEMMA WireLonger ==
  ASSUME S!TypeOK, WritesAll
  PROVE  /\ DOMAIN wire' = 1..Len(wire) + 1
         /\ \A k \in 1..Len(wire) : wire'[k] = wire[k]
         /\ wire'[Len(wire) + 1].body = Len(comets)
         /\ wire'[Len(wire) + 1].open <=> S!IsOpen(comets)
         /\ \A i \in 1..Len(packets') :
              \/ i \in wire'[Len(wire) + 1].ids
              \/ i \in 1..Len(packets) /\ i \notin unsent
<1>1. PICK batch \in SUBSET (1..Len(packets')) :
        /\ wire' = Append(wire, [body |-> Len(comets), ids |-> batch,
                                 open |-> S!IsOpen(comets)])
        /\ \A i \in 1..Len(packets') :
             i \in batch \/ (i \in 1..Len(packets) /\ i \notin unsent)
  BY DEF WritesAll
<1> DEFINE w == [body |-> Len(comets), ids |-> batch, open |-> S!IsOpen(comets)]
           W == [body : 1..Len(comets), ids : SUBSET S!Ids, open : BOOLEAN] \cup {w}
<1>2. wire \in Seq(W) /\ w \in W
  BY SeqMonotonic DEF S!TypeOK
<1>3. w.body = Len(comets) /\ w.ids = batch /\ (w.open <=> S!IsOpen(comets))
  OBVIOUS
<1>4. wire' = Append(wire, w)
  BY <1>1
<1> HIDE DEF w, W
<1>5. /\ Len(wire) \in Nat /\ Len(wire') = Len(wire) + 1 /\ wire' \in Seq(W)
      /\ \A k \in 1..Len(wire) : wire'[k] = wire[k]
      /\ wire'[Len(wire) + 1] = w
  BY <1>2, <1>4, AppendProperties, LenProperties
<1>6. DOMAIN wire' = 1..Len(wire) + 1
  BY <1>5, LenProperties
<1> QED
  BY <1>1, <1>3, <1>5, <1>6

LEMMA WireKept ==
  ASSUME S!TypeOK, WritesNothing \/ WritesAll
  PROVE  /\ LostToFinishedBody => LostToFinishedBody'
         /\ WrittenIsSent => WrittenIsSent'
         /\ \A b : Received(b) \subseteq UNION {wire'[k].ids : k \in
              {j \in DOMAIN wire' : wire'[j].body = b /\ wire'[j].open}}
<1>1. CASE WritesNothing
  <2>1. wire' = wire /\ \A i \in unsent' : i \in unsent \/ i \notin 1..Len(packets)
    BY <1>1 DEF WritesNothing
  <2>2. WrittenIsSent => WrittenIsSent'
    BY <2>1, WireTypes DEF WrittenIsSent
  <2> QED
    BY <2>1, <2>2 DEF LostToFinishedBody, Received
<1>2. CASE WritesAll
  <2>1. /\ DOMAIN wire = 1..Len(wire) /\ Len(wire) \in Nat
        /\ DOMAIN wire' = 1..Len(wire) + 1
        /\ \A k \in 1..Len(wire) : wire'[k] = wire[k]
    BY <1>2, WireTypes, WireLonger
  <2>2. \A k \in DOMAIN wire : k \in DOMAIN wire' /\ wire'[k] = wire[k]
    BY <2>1
  <2>3. unsent' = {}
    BY <1>2 DEF WritesAll
  <2> QED
    BY <2>2, <2>3 DEF LostToFinishedBody, WrittenIsSent, Received
<1> QED
  BY <1>1, <1>2

(* What is written while nothing is lost goes to the comet that waits.     *)
LEMMA WaitByServer ==
  ASSUME S!TypeOK, up, LivePolled, AllWait, ~LostToFinishedBody',
         UNCHANGED clientVars, WritesNothing \/ WritesAll,
         UNCHANGED <<cometStage, cometBody>>
  PROVE  AllWait'
<1>1. /\ UNCHANGED <<response, lastEventId>>
      /\ C!MayRead' => C!MayRead
  BY DEF clientVars, C!MayRead, C!Asking, C!Idle
<1>2. C!AckId' = C!AckId
  BY <1>1 DEF C!AckId, C!NoEvent
<1> SUFFICES ASSUME C!MayRead', NEW i \in 1..Len(packets')
             PROVE  Waits(i)'
  BY DEF AllWait
<1>3. \A n \in 1..Len(packets) : Waits(n)
  BY <1>1 DEF AllWait
<1>4. ASSUME i \in 1..Len(packets), i \notin unsent
      PROVE  Waits(i)'
  <2>1. CASE i =< C!AckId \/ \E j \in 1..Len(response) : response[j].id = i
    BY <1>1, <1>2, <2>1 DEF Waits
  <2>2. CASE cometStage = "held" /\ i \in Received(cometBody)
    <3>1. cometStage' = "held" /\ cometBody' = cometBody
      BY <2>2
    <3>2. i \in UNION {wire'[k].ids : k \in
                {j \in DOMAIN wire' : wire'[j].body = cometBody /\ wire'[j].open}}
      <4>1. i \in Received(cometBody)
        BY <2>2
      <4> QED
        BY ONLY <4>1, WireKept, S!TypeOK, WritesNothing \/ WritesAll
    <3>3. i \in Received(cometBody)'
      BY ONLY <3>1, <3>2 DEF Received
    <3> QED
      BY <3>1, <3>3 DEF Waits
  <2> QED
    BY <1>3, <1>4, <2>1, <2>2 DEF Waits
<1>5. CASE WritesNothing
  BY <1>4, <1>5 DEF WritesNothing, Waits
<1>6. CASE WritesAll
  <2> DEFINE last == Len(wire) + 1
  <2>1. /\ DOMAIN wire' = 1..last /\ Len(wire) \in Nat
        /\ wire'[last].body = Len(comets)
        /\ wire'[last].open <=> S!IsOpen(comets)
        /\ i \in wire'[last].ids \/ (i \in 1..Len(packets) /\ i \notin unsent)
    BY <1>6, WireTypes, WireLonger
  <2>2. last \in DOMAIN wire'
    BY <2>1
  <2> HIDE DEF last
  <2>3. ASSUME i \in wire'[last].ids
        PROVE  Waits(i)'
    <3>1. wire'[last].open
      BY <2>2, <2>3 DEF LostToFinishedBody
    <3>2. Len(comets) # 0 /\ Live(Len(comets))
      BY <2>1, <3>1 DEF S!IsOpen, Live
    <3>3. cometStage = "held" /\ cometBody = Len(comets)
      BY <3>2 DEF LivePolled
    <3>4. cometStage' = "held" /\ cometBody' = Len(comets)
      BY <1>6, <3>3
    <3>5. i \in Received(cometBody)'
      BY <2>1, <2>2, <2>3, <3>1, <3>4 DEF Received
    <3> QED
      BY <3>4, <3>5 DEF Waits
  <2> QED
    BY <1>4, <2>1, <2>3
<1> QED
  BY <1>5, <1>6
-----------------------------------------------------------------------------
(* An answer whose packets are in turn, and those of ids among them.       *)
Spells(b, ids) ==
  /\ Len(b) \in Nat
  /\ \A j \in 1..Len(b) : b[j].id = b[1].id + j - 1 /\ b[j].kind \in {"data", "null"}
  /\ \A i \in ids : \E j \in 1..Len(b) : b[j].id = i

LEMMA BatchInTurn ==
  ASSUME Len(packets) \in Nat,
         NEW a \in 0..Len(packets), NEW z \in 0..Len(packets)
  PROVE  /\ Spells(Batch(a + 1..z), a + 1..z)
         /\ Batch(a + 1..z) # <<>> =>
              a + 1 \in a + 1..z /\ Batch(a + 1..z)[1].id = a + 1
<1> DEFINE ids == a + 1..z
           n == Cardinality(ids)
           last == Len(packets)
           before == CHOOSE m \in 0..last : ids = (m + 1)..(m + n)
           b == [i \in 1..n |-> EventPacket(before + i)]
<1>1. n = IF a + 1 > z THEN 0 ELSE z - a
  <2>1. a + 1 \in Int /\ z \in Int
    OBVIOUS
  <2>2. n = IF a + 1 > z THEN 0 ELSE z - (a + 1) + 1
    BY <2>1, FS_Interval
  <2> QED
    BY <2>2
<1>2. Batch(ids) = b
  BY DEF Batch
<1> HIDE DEF n, last
<1>3. n \in 0..last /\ last \in Nat /\ ids = (a + 1)..(a + n)
  BY <1>1 DEF last
<1>4. before \in 0..last /\ ids = (before + 1)..(before + n)
  <2>1. a \in 0..last
    BY DEF last
  <2> QED
    BY <1>3, <2>1
<1> HIDE DEF before
<1>5. n # 0 => before = a
  <2>1. n # 0 => a + 1 \in ids /\ before + 1 \in ids
    BY <1>3, <1>4
  <2>2. n # 0 => a + 1 \in (before + 1)..(before + n) /\ before + 1 \in (a + 1)..(a + n)
    BY <1>3, <1>4, <2>1
  <2> QED
    BY <1>3, <1>4, <2>2
<1>6. Len(b) = n
  BY <1>3
<1>7. \A j \in 1..n : b[j].id = a + j /\ b[j].kind \in {"data", "null"}
  <2> TAKE j \in 1..n
  <2>1. before = a /\ b[j] = EventPacket(before + j)
    BY <1>3, <1>5
  <2> QED
    BY <2>1 DEF EventPacket
<1>8. b # <<>> => 1 \in 1..n
  <2>1. n = 0 => b = <<>>
    OBVIOUS
  <2> QED
    BY <1>3, <2>1
<1> HIDE DEF b
<1>9. \A j \in 1..n : b[j].id = b[1].id + j - 1
  <2> TAKE j \in 1..n
  <2>1. b[j].id = a + j /\ b[1].id = a + 1
    BY <1>3, <1>7
  <2> QED
    BY <1>3, <2>1
<1>10. \A i \in ids : \E j \in 1..n : b[j].id = i
  <2> TAKE i \in ids
  <2>1. i - a \in 1..n /\ a + (i - a) = i
    BY <1>3
  <2> QED
    BY <1>7, <2>1
<1>11. b # <<>> => a + 1 \in ids /\ b[1].id = a + 1
  BY <1>3, <1>7, <1>8
<1> HIDE DEF ids
<1>12. Spells(b, ids)
  <2>1. Len(b) \in Nat
    BY <1>3, <1>6
  <2>2. \A j \in 1..Len(b) : b[j].id = b[1].id + j - 1 /\ b[j].kind \in {"data", "null"}
    BY ONLY <1>6, <1>7, <1>9
  <2>3. \A i \in ids : \E j \in 1..Len(b) : b[j].id = i
    BY ONLY <1>6, <1>10
  <2> QED
    BY ONLY <2>1, <2>2, <2>3 DEF Spells
<1>13. Spells(Batch(ids), ids) /\ (Batch(ids) # <<>> => a + 1 \in ids /\ Batch(ids)[1].id = a + 1)
  BY ONLY <1>2, <1>11, <1>12
<1> QED
  BY <1>13 DEF ids

(* The answer that a comet gets is read after all that is before it.       *)
LEMMA AnswerFollows ==
  ASSUME LinkInv, WrittenIsSent, Written(cometBody), response = <<>>,
         \A i \in 1..Len(packets) : Waits(i)
  PROVE  /\ Spells(Batch(Received(cometBody)), Received(cometBody))
         /\ Batch(Received(cometBody)) # <<>> =>
              Batch(Received(cometBody))[1].id =< C!AckId + 1
<1> DEFINE seen == C!AckId
           last == Len(packets)
           b == Batch(Received(cometBody))
<1>1. ServerHolds(seen) /\ ClientSide /\ seen \in Nat
  BY AckIds DEF LinkInv
<1>2. S!TypeOK /\ last \in Nat
  <2> HIDE DEF seen
  <2> QED
    BY <1>1, ServerTypes
<1>3. PICK k \in 1..Len(wire) : Received(cometBody) = wire[k].ids
  BY <1>1, <1>2, OneBatch DEF ServerHolds, S!CometInv
<1>4. PICK a \in 0..last, z \in 0..last : wire[k].ids = a + 1..z
  BY <1>1 DEF ServerHolds, S!RunsInv, S!WireRuns
<1>5. PICK m \in 0..last : unsent = m + 1..last
  BY <1>1 DEF ServerHolds, S!RunsInv, S!UnsentAreLast
<1>6. Received(cometBody) = a + 1..z
  BY <1>3, <1>4
<1>7. /\ Spells(b, Received(cometBody))
      /\ b # <<>> => a + 1 \in a + 1..z /\ b[1].id = a + 1
  <2> DEFINE c == Batch(a + 1..z)
  <2>1. Spells(c, a + 1..z) /\ (c # <<>> => a + 1 \in a + 1..z /\ c[1].id = a + 1)
    BY <1>2, BatchInTurn
  <2>2. b = c
    BY <1>6
  <2> HIDE DEF b, c
  <2> QED
    BY ONLY <1>6, <2>1, <2>2
<1>8. ASSUME a + 1 \in a + 1..z
      PROVE  a =< seen
  <2>1. a + 1 \notin unsent
    BY <1>4, <1>8 DEF WrittenIsSent
  <2>2. a \notin unsent
    BY <1>2, <1>5, <1>8, <2>1
  <2>3. CASE a = 0
    BY <1>1, <2>3
  <2>4. CASE a # 0
    <3>1. a \in 1..last /\ a \notin a + 1..z
      BY <1>2, <2>4
    <3>2. ~ \E j \in 1..Len(response) : response[j].id = a
      <4>1. Len(<<>>) = 0
        OBVIOUS
      <4> QED
        BY <4>1
    <3> QED
      BY <1>6, <2>2, <3>1, <3>2 DEF Waits
  <2> QED
    BY <2>3, <2>4
<1> HIDE DEF b, seen, last
<1>9. b # <<>> => b[1].id =< seen + 1
  <2>1. b # <<>> => a =< seen /\ b[1].id = a + 1
    BY <1>7, <1>8
  <2>2. a \in Int
    BY <1>2
  <2> QED
    BY <1>1, <2>1, <2>2
<1> QED
  BY ONLY <1>7, <1>9 DEF b, seen

LEMMA AnswerTurns ==
  ASSUME LinkInv, WrittenIsSent, InTurn, NextExpected, AllWait, CometSucceeds
  PROVE  InTurn' /\ NextExpected' /\ AllWait'
<1> DEFINE b == Batch(Received(cometBody))
<1>1. ClientSide /\ UNCHANGED serverVars /\ cometStage = "held" /\ cometStage' = "none"
  BY DEF LinkInv, CometSucceeds
<1>2. /\ IF Written(cometBody) THEN C!CometSuccess(b) ELSE C!CometEmpty
      /\ b \in C!Responses \/ ~Written(cometBody)
  BY SameClient, BatchOffered DEF CometSucceeds
<1> HIDE DEF b
<1>3. cometXhr.kind = "comet" /\ running = "none"
      /\ UNCHANGED <<readyState, lastEventId, delivered, disconnects>>
  BY <1>2 DEF C!CometSuccess, C!CometEmpty, C!CometAnswered, C!Free
<1>4. cometXhr # C!Idle
  BY <1>3 DEF C!Idle
<1>5. response = <<>> /\ C!AckId' = C!AckId
  BY <1>3 DEF InTurn, Loops, C!AckId, C!NoEvent
<1>6. UNCHANGED <<packets, unsent>>
  BY <1>1 DEF serverVars
<1>7. C!CometLoop
  BY <1>1 DEF ClientSide, C!LoopInv
<1>8. readyState \notin {"INITIAL", "CONNECTING", "DISCONNECTING"}
  BY <1>4, <1>7 DEF C!CometLoop
<1>9. CASE UNCHANGED <<response, running>> /\ (~Written(cometBody) \/ ~C!Listening)
  <2>1. InTurn' /\ NextExpected'
    BY <1>3, <1>5, <1>9 DEF InTurn, NextExpected
  <2>2. CASE readyState # "CONNECTED"
    <3>1. ~C!MayRead'
      BY <1>3, <1>8, <1>9, <2>2 DEF C!MayRead
    <3> QED
      BY <2>1, <3>1 DEF AllWait
  <2>3. CASE readyState = "CONNECTED"
    <3>1. C!MayRead
      BY <1>4, <2>3 DEF C!MayRead, C!Asking
    <3>2. Received(cometBody) = {}
      BY <1>9, <2>3 DEF Written, Received, C!Listening
    <3>3. ASSUME NEW i \in 1..Len(packets)
          PROVE  Waits(i)'
      <4>1. Waits(i)
        BY <1>1, <3>1 DEF AllWait
      <4> QED
        BY <1>5, <1>6, <1>9, <3>2, <4>1 DEF Waits
    <3> QED
      BY <1>6, <2>1, <3>3 DEF AllWait
  <2> QED
    BY <2>2, <2>3
<1>10. CASE Written(cometBody) /\ response' = b /\ running' = "packets" /\ C!Listening
  <2>1. readyState = "CONNECTED"
    BY <1>8, <1>10 DEF C!Listening
  <2>2. C!MayRead
    BY <1>4, <2>1 DEF C!MayRead, C!Asking
  <2>3. \A i \in 1..Len(packets) : Waits(i)
    BY <1>1, <2>2 DEF AllWait
  <2>4. Spells(b, Received(cometBody)) /\ (b # <<>> => b[1].id =< C!AckId + 1)
    BY <1>5, <1>10, <2>3, AnswerFollows DEF b
  <2>5. InTurn'
    BY <1>10, <2>4 DEF InTurn, Spells, Loops
  <2>6. NextExpected'
    BY <1>3, <1>5, <1>10, <2>4 DEF NextExpected
  <2>7. ASSUME NEW i \in 1..Len(packets)
        PROVE  Waits(i)'
    <3>1. CASE i \in unsent \/ i =< C!AckId
      BY <1>5, <1>6, <3>1 DEF Waits
    <3>2. CASE i \in Received(cometBody)
      <4>1. \E j \in 1..Len(b) : b[j].id = i
        BY <2>4, <3>2 DEF Spells
      <4> QED
        BY <1>10, <4>1 DEF Waits
    <3>3. ~ \E j \in 1..Len(response) : response[j].id = i
      <4>1. Len(<<>>) = 0
        OBVIOUS
      <4> QED
        BY <1>5, <4>1
    <3> QED
      BY <2>3, <3>1, <3>2, <3>3 DEF Waits
  <2> QED
    BY <1>6, <2>5, <2>6, <2>7 DEF AllWait
<1> QED
  BY <1>2, <1>9, <1>10 DEF C!CometSuccess, C!CometEmpty
-----------------------------------------------------------------------------
(* No body but the one that the comet waits for comes to life.             *)
LEMMA PolledByServer ==
  ASSUME LivePolled, KeepsLive, up' => up,
         cometStage = "held" => UNCHANGED <<cometStage, cometBody>>
  PROVE  LivePolled'
<1> SUFFICES ASSUME up', Len(comets') # 0, Live(Len(comets))'
             PROVE  cometStage' = "held" /\ cometBody' = Len(comets')
  BY DEF LivePolled
<1>1. Len(comets') = Len(comets) /\ Len(comets) # 0
  BY DEF KeepsLive
<1>2. Live(Len(comets))
  <2>1. Len(comets) \in 1..Len(comets) \/ Len(comets) \notin Nat
    BY <1>1
  <2> QED
    BY <1>1, <2>1 DEF KeepsLive, Live
<1> QED
  BY <1>1, <1>2 DEF LivePolled

LEMMA PolledByClient ==
  ASSUME LinkInv, HeldAsked, LivePolled, ClientHalf, faults \in Nat, faults' = faults
  PROVE  HeldAsked' /\ LivePolled'
<1>1. comets' = comets /\ up' = up
  <2>1. UNCHANGED serverVars
    BY ClientHalfSteps
  <2>2. up' = up
    BY <2>1, Zenon DEF serverVars
  <2> QED
    BY <2>1, <2>2 DEF serverVars
<1>2. CASE CometSucceeds
  <2>1. cometStage = "held" /\ cometStage' = "none" /\ comets[cometBody].status = "succeeded"
    BY <1>2 DEF CometSucceeds
  <2>2. HeldAsked'
    BY <2>1 DEF HeldAsked
  <2>3. ~(up /\ Len(comets) # 0 /\ Live(Len(comets)))
    BY <2>1 DEF LivePolled, Live
  <2> QED
    BY <1>1, <2>2, <2>3 DEF LivePolled, Live
<1>3. CASE ~CometSucceeds
  <2>1. StageStays
    BY <1>3, HeldStays
  <2>2. HeldAsked'
    <3> SUFFICES ASSUME cometStage' = "held"
                 PROVE  cometXhr'.kind = "comet"
      BY DEF HeldAsked
    <3>1. cometStage = "held" /\ cometXhr' = cometXhr
      BY <2>1 DEF StageStays
    <3> QED
      BY <3>1 DEF HeldAsked
  <2>3. LivePolled'
    <3> SUFFICES ASSUME up', Len(comets') # 0, Live(Len(comets))'
                 PROVE  cometStage' = "held" /\ cometBody' = Len(comets')
      BY DEF LivePolled
    <3>1. cometStage = "held" /\ cometBody = Len(comets)
      BY <1>1 DEF LivePolled, Live
    <3>2. cometStage' = "held"
      BY <2>1, <3>1 DEF StageStays
    <3> QED
      BY <1>1, <2>1, <3>1, <3>2 DEF StageStays
  <2> QED
    BY <2>2, <2>3
<1> QED
  BY <1>2, <1>3

LEMMA PolledByArrivals ==
  ASSUME LinkInv, HeldAsked, LivePolled, Arrivals, up => abandoned = {}, up' => up
  PROVE  HeldAsked' /\ LivePolled'
<1>1. cometXhr' = cometXhr
  BY ArrivalsMove DEF clientVars
<1>2. cometStage = "travelling" => cometXhr.kind = "comet"
  BY DEF LinkInv, CometStaged
<1>3. CASE KeepsLive /\ UNCHANGED <<cometStage, cometBody>>
  BY <1>1, <1>3, PolledByServer DEF HeldAsked
<1>4. CASE KeepsLive /\ cometStage = "travelling" /\ cometStage' = "refused"
  BY <1>1, <1>4, PolledByServer DEF HeldAsked
<1>5. CASE cometStage = "travelling" /\ cometStage' = "held" /\ cometBody' = Len(comets')
  BY <1>1, <1>2, <1>5 DEF HeldAsked, LivePolled
<1> QED
  BY <1>3, <1>4, <1>5, ArrivalsWrite

(* What the client reads by is the client's own.                           *)
LEMMA TurnSame ==
  ASSUME UNCHANGED clientVars, InTurn, NextExpected
  PROVE  InTurn' /\ NextExpected'
<1>1. UNCHANGED <<running, response, lastEventId, delivered, disconnects>>
  BY DEF clientVars
<1>2. C!AckId' = C!AckId
  BY <1>1 DEF C!AckId, C!NoEvent
<1> QED
  BY <1>1, <1>2 DEF InTurn, NextExpected

LEMMA CalmByArrivals ==
  ASSUME LinkInv, LivePolled, InTurn, NextExpected, AllWait, Arrivals,
         up => abandoned = {}, up' => up, ~LostToFinishedBody'
  PROVE  InTurn' /\ NextExpected' /\ AllWait'
<1>1. UNCHANGED clientVars /\ S!TypeOK
  BY ArrivalsMove, CarryTypes
<1>2. InTurn' /\ NextExpected'
  BY <1>1, TurnSame
<1>3. WritesNothing
  BY ArrivalsWrite
<1>4. \/ UNCHANGED <<cometStage, cometBody>>
      \/ cometStage = "travelling"
  BY ArrivalsWrite
<1>5. /\ UNCHANGED <<response, lastEventId>>
      /\ C!MayRead' => C!MayRead
  BY <1>1 DEF clientVars, C!MayRead, C!Asking, C!Idle
<1>6. C!AckId' = C!AckId
  BY <1>5 DEF C!AckId, C!NoEvent
<1>7. (up \/ cometStage = "held")' => up \/ cometStage = "held"
  BY ArrivalsWrite
<1>8. ASSUME C!MayRead', (up \/ cometStage = "held")', NEW i \in 1..Len(packets')
      PROVE  Waits(i)'
  <2>1. i \in unsent' \/ (i \in 1..Len(packets) /\ i \notin unsent)
    BY <1>3 DEF WritesNothing
  <2>2. CASE i \in unsent'
    BY <2>2 DEF Waits
  <2>3. CASE i \in 1..Len(packets) /\ i \notin unsent
    <3>1. Waits(i)
      BY <1>5, <1>7, <1>8, <2>3 DEF AllWait
    <3>2. CASE i =< C!AckId \/ \E j \in 1..Len(response) : response[j].id = i
      BY <1>5, <1>6, <3>2 DEF Waits
    <3>3. CASE cometStage = "held" /\ i \in Received(cometBody)
      <4>1. cometStage' = "held" /\ cometBody' = cometBody
        BY <1>4, <3>3
      <4>2. Received(cometBody)' = Received(cometBody)
        BY <1>3, <4>1 DEF Received, WritesNothing
      <4> QED
        BY <3>3, <4>1, <4>2 DEF Waits
    <3> QED
      BY <2>3, <3>1, <3>2, <3>3 DEF Waits
  <2> QED
    BY <2>1, <2>2, <2>3
<1> QED
  BY <1>2, <1>8 DEF AllWait
-----------------------------------------------------------------------------
(* A request writes nothing itself, given up or not.                       *)
LEMMA ArrivalsSend ==
  ASSUME LinkInv, Arrivals, WrittenIsSent
  PROVE  WrittenIsSent'
<1>1. ASSUME NEW a \in abandoned, AbandonedArrives(a)
      PROVE  WrittenIsSent'
  <2>1. a.req.ack \in 0..C!AckId /\ ServerHandles(a.req)
    BY <1>1 DEF AbandonedArrives, LinkInv, AbandonedSeen
  <2>2. WritesNothing
    BY <2>1, HandledWrites
  <2> QED
    BY <2>2, CarryTypes, WireKept
<1>2. CASE HandshakeArrives
  <2>1. S!Handshake(Plain)
    BY <1>2, SameServer DEF HandshakeArrives
  <2>2. UNCHANGED <<wire, unsent>>
    BY <2>1 DEF S!Handshake
  <2> QED
    BY <2>2 DEF WrittenIsSent
<1>3. ASSUME UNCHANGED serverVars
      PROVE  WrittenIsSent'
  BY <1>3 DEF serverVars, WrittenIsSent
<1>4. CASE SendArrives
  <2>1. UNCHANGED serverVars \/ WritesNothing
    BY <1>4, HandledWrites DEF SendArrives, LinkInv, SendSeen
  <2> QED
    BY <1>3, <2>1, CarryTypes, WireKept
<1>5. CASE CometArrives
  <2>1. cometXhr.kind = "comet" /\ cometXhr.ack \in 0..C!AckId
    BY <1>5 DEF CometArrives, LinkInv, CometStaged, CometSeen
  <2>2. UNCHANGED serverVars \/ WritesNothing
    BY <1>5, <2>1, HandledWrites DEF CometArrives
  <2> QED
    BY <1>3, <2>2, CarryTypes, WireKept
<1> QED
  BY <1>1, <1>2, <1>4, <1>5 DEF Arrivals

LEMMA OnceStep == OnceInv /\ [Next]_vars => OnceInv'
<1> SUFFICES ASSUME OnceInv, [Next]_vars
             PROVE  OnceInv'
  OBVIOUS
<1>1. /\ CarryInv' /\ LinkInv /\ WrittenIsSent /\ S!TypeOK
      /\ faults \in Nat /\ (faults' = 0 => faults' = faults)
  BY CarryStep, FaultsGrow, CarryTypes DEF OnceInv, CarryInv, GivenInv
<1>2. up' => up
  BY <1>1, DownStays
<1>3. faults' = 0 =>
        faults = 0 /\ HeldAsked /\ LivePolled /\ (up => abandoned = {})
  BY <1>1 DEF OnceInv, CarryInv, CarriedOnce
<1>4. Calm => InTurn /\ NextExpected /\ AllWait
  BY DEF OnceInv
<1>5. CASE ClientHalf
  <2>1. UNCHANGED serverVars /\ ClientSide /\ ClientSteps
    BY <1>1, <1>5, ClientHalfSteps DEF LinkInv
  <2>2. UNCHANGED <<wire, unsent>>
    BY <2>1 DEF serverVars
  <2>3. WrittenIsSent' /\ (LostToFinishedBody' <=> LostToFinishedBody)
    BY <1>1, <2>2 DEF WrittenIsSent, LostToFinishedBody
  <2>4. ASSUME faults' = 0
        PROVE  HeldAsked' /\ LivePolled'
    BY <1>1, <1>3, <1>5, <2>4, PolledByClient
  <2>5. ASSUME Calm'
        PROVE  InTurn' /\ NextExpected' /\ AllWait'
    <3>1. /\ faults' = faults /\ HeldAsked
          /\ InTurn /\ NextExpected /\ AllWait
      BY <1>1, <1>3, <1>4, <2>3, <2>5 DEF Calm
    <3>2. CASE CometSucceeds
      BY <1>1, <3>1, <3>2, AnswerTurns
    <3>3. CASE ~CometSucceeds
      <4>1. StageStays
        BY <1>1, <1>5, <3>1, <3>3, HeldStays
      <4>2. ReadsNothing \/ Skips \/ Delivers \/ Stops
        BY <1>1, <1>5, <3>1, <3>3, ReadHalf
      <4> QED
        BY <1>1, <1>5, <2>1, <3>1, <3>3, <4>1, <4>2, InTurnStays, NextStays, WaitStays
    <3> QED
      BY <3>2, <3>3
  <2> QED
    BY <1>1, <2>3, <2>4, <2>5 DEF OnceInv
<1>6. CASE ServerHalf
  <2>1. UNCHANGED clientVars /\ UNCHANGED <<cometStage, cometBody>>
    BY <1>1, <1>6, ServerHalfMoves
  <2>2. up /\ (WritesNothing \/ WritesAll) /\ KeepsLive
    BY <1>1, <1>6, ServerHalfWrites
  <2>3. WrittenIsSent' /\ (LostToFinishedBody => LostToFinishedBody')
    BY <1>1, <2>2, WireKept
  <2>4. ASSUME faults' = 0
        PROVE  HeldAsked' /\ LivePolled'
    <3>1. HeldAsked'
      BY <1>3, <2>1, <2>4 DEF HeldAsked, clientVars
    <3> QED
      BY <1>2, <1>3, <2>1, <2>2, <2>4, <3>1, PolledByServer
  <2>5. ASSUME Calm'
        PROVE  InTurn' /\ NextExpected' /\ AllWait'
    <3>1. /\ LivePolled /\ InTurn /\ NextExpected /\ AllWait
          /\ ~LostToFinishedBody'
      BY <1>3, <1>4, <2>3, <2>5 DEF Calm
    <3> QED
      BY <1>1, <2>1, <2>2, <3>1, TurnSame, WaitByServer
  <2> QED
    BY <1>1, <2>3, <2>4, <2>5 DEF OnceInv
<1>7. CASE Arrivals
  <2>1. ASSUME faults' = 0
        PROVE  HeldAsked' /\ LivePolled' /\ WritesNothing
    BY <1>1, <1>2, <1>3, <1>7, <2>1, PolledByArrivals, ArrivalsWrite
  <2>2. WrittenIsSent'
    BY <1>1, <1>7, ArrivalsSend
  <2>3. ASSUME Calm'
        PROVE  InTurn' /\ NextExpected' /\ AllWait'
    <3>1. faults' = 0 /\ ~LostToFinishedBody' /\ WritesNothing
      BY <2>1, <2>3 DEF Calm
    <3>2. ~LostToFinishedBody
      BY <1>1, <3>1, WireKept
    <3>3. LivePolled /\ InTurn /\ NextExpected /\ AllWait /\ (up => abandoned = {})
      BY <1>3, <1>4, <3>1, <3>2 DEF Calm
    <3> QED
      BY <1>1, <1>2, <1>7, <3>1, <3>3, CalmByArrivals
  <2> QED
    BY <1>1, <2>1, <2>2, <2>3 DEF OnceInv
<1>8. CASE UNCHANGED vars
  <2>1. UNCHANGED clientVars /\ UNCHANGED serverVars /\ UNCHANGED linkVars
    BY <1>8 DEF vars
  <2>2. /\ UNCHANGED <<wire, unsent, packets, comets, cometStage, cometBody, cometXhr,
                       running, response, lastEventId, readyState, timers>>
        /\ up' = up
    <3>1. up' = up
      BY <2>1, Zenon DEF serverVars
    <3> QED
      BY <2>1, <3>1 DEF clientVars, serverVars, linkVars
  <2>3. WrittenIsSent' /\ (LostToFinishedBody' <=> LostToFinishedBody)
    BY <1>1, <2>2 DEF WrittenIsSent, LostToFinishedBody
  <2>4. ASSUME faults' = 0
        PROVE  HeldAsked' /\ LivePolled'
    BY <1>3, <2>2, <2>4 DEF HeldAsked, LivePolled, Live
  <2>5. (C!MayRead' <=> C!MayRead) /\ C!AckId' = C!AckId
    BY <2>2 DEF C!MayRead, C!Asking, C!Idle, C!AckId, C!NoEvent
  <2>6. ASSUME Calm'
        PROVE  InTurn' /\ NextExpected' /\ AllWait'
    <3>1. InTurn /\ NextExpected /\ AllWait
      BY <1>3, <1>4, <2>3, <2>6 DEF Calm
    <3>2. InTurn' /\ NextExpected'
      BY <2>1, <3>1, TurnSame
    <3>3. AllWait'
      BY <2>2, <2>5, <3>1 DEF AllWait, Waits, Received
    <3> QED
      BY <3>2, <3>3
  <2> QED
    BY <1>1, <2>3, <2>4, <2>6 DEF OnceInv
<1> QED
  BY <1>5, <1>6, <1>7, <1>8, Halves

LEMMA OnceInit == Init => OnceInv
<1> SUFFICES ASSUME Init
             PROVE  OnceInv
  OBVIOUS
<1>1. /\ running = "none" /\ response = <<>> /\ delivered = <<>> /\ disconnects = <<>>
      /\ comets = <<>> /\ wire = <<>> /\ packets = <<>> /\ cometStage = "none"
  BY DEF Init, Client!Init, Server!Init
<1>2. Len(<<>>) = 0 /\ DOMAIN <<>> = {}
  OBVIOUS
<1>3. Sound(<<>>)
  BY <1>2 DEF Sound
<1>4. WrittenIsSent /\ HeldAsked /\ LivePolled
  BY <1>1, <1>2 DEF WrittenIsSent, HeldAsked, LivePolled
<1>5. InTurn /\ NextExpected /\ AllWait
  BY <1>1, <1>2, <1>3 DEF InTurn, NextExpected, AllWait, Loops
<1> QED
  BY <1>4, <1>5, CarryInit DEF OnceInv

(* NothingLostWithoutCause, for any number of writes, packets and comets:  *)
(* while no request fails, the application of the server gets the writes   *)
(* once and in order, although it ignores the ids of the packets; and if   *)
(* no batch was written to a body that was over, what the client reads is  *)
(* every packet from the first on, and it never finds a hole (csp_send,    *)
(* _doWrite, flush!, _cometSuccess).                                       *)
THEOREM NothingLost == Spec => []NothingLostWithoutCause
<1>1. OnceInv => NothingLostWithoutCause
  <2> SUFFICES ASSUME OnceInv, faults = 0
               PROVE  /\ InOrder(Given)
                      /\ \A w \in 2..written : IsReceived(w) => IsReceived(w - 1)
                      /\ ~LostToFinishedBody =>
                           /\ \A i \in DOMAIN delivered : delivered[i] = i
                           /\ \A i \in DOMAIN disconnects : disconnects[i] # "protocol error"
    BY Zenon DEF NothingLostWithoutCause
  <2>1. InOrder(Given) /\ \A w \in 2..written : IsReceived(w) => IsReceived(w - 1)
    BY CarriedInOrder DEF OnceInv
  <2>2. ClientSide
    BY DEF OnceInv, CarryInv, GivenInv, LinkInv
  <2>3. ASSUME ~LostToFinishedBody
        PROVE  NextExpected
    BY <2>3 DEF OnceInv, Calm
  <2>4. ASSUME NextExpected, NEW i \in DOMAIN delivered
        PROVE  delivered[i] = i
    <3>1. delivered \in Seq(1..MaxEventId)
      BY <2>2, Zenon DEF ClientSide, C!ClientInv, C!TypeOK
    <3>2. DOMAIN delivered = 1..Len(delivered) /\ Len(delivered) \in Nat
      BY <3>1, LenProperties
    <3>3. delivered # <<>> /\ i \in 1..Len(delivered)
      BY <3>2, <2>4
    <3>4. delivered[1] = 1
      BY <2>4, <3>3 DEF NextExpected
    <3>5. delivered[i] = delivered[1] + i - 1
      BY <2>2, <3>2, <3>3 DEF ClientSide, C!LoopInv, C!Reading, C!DeliveredConsecutive
    <3> QED
      BY <3>2, <3>3, <3>4, <3>5
  <2>5. ASSUME NextExpected
        PROVE  \A i \in DOMAIN disconnects : disconnects[i] # "protocol error"
    BY <2>5, Zenon DEF NextExpected, Sound, Fatal
  <2> QED
    BY <2>1, <2>3, <2>4, <2>5, Zenon
<1> QED
  BY <1>1, OnceInit, OnceStep, PTL DEF Spec
=============================================================================
