---------------------------- MODULE NodeLinkProofs ----------------------------
(* NodeLink for any number of writes, packets, comets and faults: what the *)
(* two proofs of its halves say holds of them when they are joined, and    *)
(* from both follows what the client reads of what the server sends.       *)
EXTENDS NodeLink, SequenceTheorems, TLAPS

(* The halves again, with what is proved of each.                          *)
C == INSTANCE CspClientProofs
S == INSTANCE NodeSessionProofs WITH
  readyState <- connectionState, acked <- serverAcked, nulls <- serverNulls,
  running <- handling

LEMMA Bounds ==
  /\ MaxWrites \in Nat /\ MaxEventId \in Nat /\ MaxBatch \in Nat
  /\ MaxOut \in Nat /\ MaxIn \in Nat /\ MaxComets \in Nat
  /\ Changes \subseteq {S!NoChange} \cup [field : S!Fields, value : BOOLEAN]
BY LinkBounds DEF MaxEventId, MaxBatch, MaxIn, Changes, S!Fields

(* The actions that NodeLink composes are those the proofs are about.      *)
LEMMA SameClient ==
  /\ Client!Init <=> C!Init
  /\ Client!Application <=> C!Application
  /\ Client!Timers <=> C!Timers
  /\ Client!Continue <=> C!Continue
  /\ Client!HandshakeSuccess <=> C!HandshakeSuccess
  /\ Client!WriteSuccess <=> C!WriteSuccess
  /\ Client!WriteFailure <=> C!WriteFailure
  /\ \A notFound : Client!HandshakeFailure(notFound) <=> C!HandshakeFailure(notFound)
  /\ \A notFound : Client!CometFailure(notFound) <=> C!CometFailure(notFound)
  /\ \A batch : Client!CometSuccess(batch) <=> C!CometSuccess(batch)
<1> USE DEF
      C!Init, Client!Init, C!NoEvent, Client!NoEvent, C!Idle,
      Client!Idle, C!Application, Client!Application, C!Connect,
      Client!Connect, C!Free, Client!Free, C!Write, Client!Write,
      C!DoWrite, Client!DoWrite, C!SendNow, Client!SendNow,
      C!NullPacket, Client!NullPacket, C!AckId, Client!AckId,
      C!DataFlight, Client!DataFlight, C!NullId, Client!NullId,
      C!NullJoins, Client!NullJoins, C!ApplicationRuns,
      Client!ApplicationRuns, C!Close, Client!Close, C!CloseSession,
      Client!CloseSession, C!writing, Client!writing, C!Timers,
      Client!Timers, C!HandshakeTimeout, Client!HandshakeTimeout,
      C!HandshakeRetry, Client!HandshakeRetry, C!WriteTimer,
      Client!WriteTimer, C!CometTimer, Client!CometTimer,
      C!DoConnectComet, Client!DoConnectComet, C!TimeoutExpires,
      Client!TimeoutExpires, C!Continue, Client!Continue,
      C!OnConnectReturns, Client!OnConnectReturns, C!SkipPacket,
      Client!SkipPacket, C!PacketKinds, Client!PacketKinds, C!Seen,
      Client!Seen, C!AtPacket, Client!AtPacket, C!DeliverPacket,
      Client!DeliverPacket, C!Expected, Client!Expected, C!Ahead,
      Client!Ahead, C!OnReadReturns, Client!OnReadReturns,
      C!ReceivedNullPacket, Client!ReceivedNullPacket, C!AnswerNull,
      Client!AnswerNull, C!HandlerStops, Client!HandlerStops,
      C!CorruptPacket, Client!CorruptPacket, C!ProtocolError,
      Client!ProtocolError, C!UnreadablePacket, Client!UnreadablePacket,
      C!PacketAhead, Client!PacketAhead, C!MissingPacket,
      Client!MissingPacket, C!PacketsDone, Client!PacketsDone,
      C!HandshakeSuccess, Client!HandshakeSuccess, C!HandshakeAnswered,
      Client!HandshakeAnswered, C!WriteSuccess, Client!WriteSuccess,
      C!SendAnswered, Client!SendAnswered, C!WriteSucceeds,
      Client!WriteSucceeds, C!WithTimeoutReset, Client!WithTimeoutReset,
      C!WriteFailure, Client!WriteFailure, C!HandshakeFailure,
      Client!HandshakeFailure, C!RetryHandshake, Client!RetryHandshake,
      C!CometFailure, Client!CometFailure, C!CometAnswered,
      Client!CometAnswered, C!CometSuccess, Client!CometSuccess,
      C!Listening, Client!Listening
<1>1. Client!Init <=> C!Init
  OBVIOUS
<1>2. Client!Application <=> C!Application
  OBVIOUS
<1>3. Client!Timers <=> C!Timers
  OBVIOUS
<1>4. Client!Continue <=> C!Continue
  OBVIOUS
<1>5. Client!HandshakeSuccess <=> C!HandshakeSuccess
  OBVIOUS
<1>6. Client!WriteSuccess <=> C!WriteSuccess
  OBVIOUS
<1>7. Client!WriteFailure <=> C!WriteFailure
  OBVIOUS
<1>8. ASSUME NEW notFound
      PROVE  Client!HandshakeFailure(notFound) <=> C!HandshakeFailure(notFound)
  OBVIOUS
<1>9. ASSUME NEW notFound
      PROVE  Client!CometFailure(notFound) <=> C!CometFailure(notFound)
  OBVIOUS
<1>10. ASSUME NEW batch
       PROVE  Client!CometSuccess(batch) <=> C!CometSuccess(batch)
  OBVIOUS
<1> QED
  BY <1>1, <1>2, <1>3, <1>4, <1>5, <1>6, <1>7, <1>8, <1>9, <1>10

LEMMA SameExtremes ==
  ASSUME NEW numbers
  PROVE  S!Min(numbers) = Server!Min(numbers) /\ S!Max(numbers) = Server!Max(numbers)
BY DEF S!Min, Server!Min, S!Max, Server!Max

LEMMA SameKnown ==
  ASSUME NEW b
  PROVE  S!Known(b) = Server!Known(b)
<1>1. \A z : S!Min(z) = Server!Min(z)
  BY SameExtremes
<1> QED
  BY <1>1 DEF S!Known, Server!Known

LEMMA SamePacketContent ==
  ASSUME NEW b, NEW i
  PROVE  S!PacketContent(b, i) = Server!PacketContent(b, i)
BY SameExtremes DEF S!PacketContent, Server!PacketContent, S!None, Server!None

LEMMA SameStored ==
  ASSUME NEW b
  PROVE  S!Stored(b) = Server!Stored(b)
<1> DEFINE new == {i \in DOMAIN b : b[i].id > lastInId}
           ids == {b[i].id : i \in new}
           sets == {i \in new : S!PacketContent(b, i) # 0}
           set == {i \in new : Server!PacketContent(b, i) # 0}
           stored(x, content) == IF x \in ids THEN content ELSE incoming[x]
           content(x) == Server!PacketContent(b, CHOOSE i \in set : b[i].id = x)
           contents(x) == S!PacketContent(b, CHOOSE i \in set : b[i].id = x)
<1>0. ASSUME NEW i PROVE S!PacketContent(b, i) = Server!PacketContent(b, i)
  BY SamePacketContent
<1>1. sets = set
  BY <1>0
<1>2. ASSUME NEW x PROVE contents(x) = content(x)
  BY <1>0
<1>3. S!Stored(b) = [x \in (DOMAIN incoming \ ids) \cup {b[i].id : i \in sets}
           |-> stored(x, S!PacketContent(b, CHOOSE i \in sets : b[i].id = x))]
  BY DEF S!Stored, S!None
<1>4. Server!Stored(b) = [x \in (DOMAIN incoming \ ids) \cup {b[i].id : i \in set}
           |-> stored(x, content(x))]
  BY DEF Server!Stored, Server!None
<1>5. S!Stored(b) = [x \in (DOMAIN incoming \ ids) \cup {b[i].id : i \in set}
           |-> stored(x, contents(x))]
  <2> HIDE DEF sets, set, ids, new, stored
  <2> QED BY <1>1, <1>3
<1> HIDE DEF set, sets, ids, new, content, contents, stored
<1> QED
  BY <1>2, <1>4, <1>5

LEMMA SameServer ==
  /\ Server!Init <=> S!Init
  /\ Server!Application <=> S!Application
  /\ Server!Timers <=> S!Timers
  /\ Server!Deliver <=> S!Deliver
  /\ Server!SendAnswered <=> S!SendAnswered
  /\ \A next : Server!ReceiveEnds(next) <=> S!ReceiveEnds(next)
  /\ \A c : Server!Handshake(c) <=> S!Handshake(c)
  /\ \A ack, b : Server!Send(ack, b) <=> S!Send(ack, b)
  /\ \A ack, c : Server!Comet(ack, c) <=> S!Comet(ack, c)
<1>1. Server!Init <=> S!Init
  BY DEF S!Init, Server!Init, S!None, Server!None, S!Defaults,
         Server!Defaults, S!Fields, Server!Fields
<1>2. Server!Application <=> S!Application
  BY DEF S!Application, Server!Application, S!ConnectionSend,
         Server!ConnectionSend, S!reading, Server!reading,
         S!ApplicationRuns, Server!ApplicationRuns, S!SessionSend,
         Server!SessionSend, S!None, Server!None, S!WithBatch,
         Server!WithBatch, S!Streaming, Server!Streaming,
         S!WithDurationCleared, Server!WithDurationCleared, S!WithEnd,
         Server!WithEnd, S!WithWritten, Server!WithWritten, S!OnePacket,
         Server!OnePacket, S!ConnectionClose, Server!ConnectionClose,
         S!SessionClose, Server!SessionClose
<1>3. Server!Timers <=> S!Timers
  BY DEF S!Timers, Server!Timers, S!Ids, Server!Ids, S!DurationFires,
         Server!DurationFires, S!buffers, Server!buffers, S!reading,
         Server!reading, S!WithComplete, Server!WithComplete, S!Streaming,
         Server!Streaming, S!WithDurationCleared,
         Server!WithDurationCleared, S!WithEnd, Server!WithEnd, S!None,
         Server!None, S!WithBatch, Server!WithBatch, S!WithWritten,
         Server!WithWritten, S!CompleteThrows, Server!CompleteThrows,
         S!EmptyBatchThrows, Server!EmptyBatchThrows, S!Free, Server!Free,
         S!IntervalFires, Server!IntervalFires, S!TimeoutFires,
         Server!TimeoutFires, S!Teardown, Server!Teardown
<1>4. Server!Deliver <=> S!Deliver
  BY DEF S!Deliver, Server!Deliver, S!buffers, Server!buffers
<1>5. Server!SendAnswered <=> S!SendAnswered
  BY DEF S!SendAnswered, Server!SendAnswered, S!buffers, Server!buffers,
         S!reading, Server!reading
<1>6. ASSUME NEW next
      PROVE  Server!ReceiveEnds(next) <=> S!ReceiveEnds(next)
  BY DEF S!ReceiveEnds, Server!ReceiveEnds, S!buffers, Server!buffers,
         S!reading, Server!reading
<1>7. ASSUME NEW c
      PROVE  Server!Handshake(c) <=> S!Handshake(c)
  BY DEF S!Handshake, Server!Handshake, S!buffers, Server!buffers,
         S!reading, Server!reading, S!Free, Server!Free, S!Changed,
         Server!Changed, S!Fields, Server!Fields
<1>8. ASSUME NEW ack, NEW b
      PROVE  Server!Send(ack, b) <=> S!Send(ack, b)
  <2>1. \A z : S!Stored(z) = Server!Stored(z) /\ S!Known(z) = Server!Known(z)
    BY SameStored, SameKnown
  <2> QED
    BY <2>1
       DEF S!Send, Server!Send, S!NoChange, Server!NoChange, S!Fields,
           Server!Fields, S!Unacked, Server!Unacked, S!Shifted,
           Server!Shifted, S!SessionClose, Server!SessionClose,
           S!SessionSend, Server!SessionSend, S!None, Server!None,
           S!WithBatch, Server!WithBatch, S!Streaming, Server!Streaming,
           S!WithDurationCleared, Server!WithDurationCleared, S!WithEnd,
           Server!WithEnd, S!WithWritten, Server!WithWritten, S!OnePacket,
           Server!OnePacket, S!DropAcked, Server!DropAcked, S!Request,
           Server!Request, S!Changed, Server!Changed, S!UpdateThrows,
           Server!UpdateThrows, S!CompleteThrows, Server!CompleteThrows,
           S!EmptyBatchThrows, Server!EmptyBatchThrows, S!Completes,
           Server!Completes, S!ReceiveAck, Server!ReceiveAck, S!Free,
           Server!Free, S!Closes, Server!Closes
<1>9. ASSUME NEW ack, NEW c
      PROVE  Server!Comet(ack, c) <=> S!Comet(ack, c)
  <2>1. ASSUME NEW p, NEW v, NEW ids
        PROVE  S!WithComet(p, v, ids) = Server!WithComet(p, v, ids)
    BY DEF S!WithComet, Server!WithComet, S!Streaming, Server!Streaming,
           S!WithBatch, Server!WithBatch, S!WithDurationCleared,
           Server!WithDurationCleared, S!WithEnd, Server!WithEnd, S!None,
           Server!None, S!WithWritten, Server!WithWritten, S!WithResponse,
           Server!WithResponse, S!WithDuration, Server!WithDuration
  <2>2. Server!Unacked(ack) = S!Unacked(ack)
    BY DEF S!Unacked, Server!Unacked, S!Shifted, Server!Shifted
  <2>3. Server!PollAfter(c) = S!PollAfter(c)
    BY DEF S!PollAfter, Server!PollAfter, S!WithComplete,
           Server!WithComplete, S!Streaming, Server!Streaming,
           S!WithDurationCleared, Server!WithDurationCleared, S!WithEnd,
           Server!WithEnd, S!None, Server!None, S!WithBatch,
           Server!WithBatch, S!WithWritten, Server!WithWritten, S!Completes,
           Server!Completes
  <2>4. Server!Changed(variables, c) = S!Changed(variables, c)
    BY DEF S!Changed, Server!Changed, S!Fields, Server!Fields
  <2>5. Server!Request(ack, c) <=> S!Request(ack, c)
    BY DEF S!Request, Server!Request, S!Changed, Server!Changed, S!Fields,
           Server!Fields, S!UpdateThrows, Server!UpdateThrows,
           S!CompleteThrows, Server!CompleteThrows, S!None, Server!None,
           S!Streaming, Server!Streaming, S!EmptyBatchThrows,
           Server!EmptyBatchThrows, S!Completes, Server!Completes,
           S!ReceiveAck, Server!ReceiveAck, S!Free, Server!Free
  <2> QED
    BY <2>1, <2>2, <2>3, <2>4, <2>5
       DEF S!Comet, Server!Comet, S!DropAcked, Server!DropAcked,
           S!reading, Server!reading
<1> QED
  BY <1>1, <1>2, <1>3, <1>4, <1>5, <1>6, <1>7, <1>8, <1>9

(***************************************************************************)
(* What holds of the client beside its server: it has got past no id that  *)
(* was not made, the answer it looks through is a run of packets that      *)
(* starts at or before the one it expects, and what it delivered so far is *)
(* all of the packets up to the last.                                      *)
(***************************************************************************)
Ends == {"close", "clean", "unreachable"}

Offers(r, seen) ==
  \E last \in 0..lastOutId :
    /\ last - Len(r) \in 0..seen
    /\ \A i \in 1..Len(r) : r[i] = EventPacket(last - Len(r) + i)

ClientSide ==
  /\ C!ClientInv /\ C!LoopInv
  /\ lastOutId \in Nat /\ lastOutId =< MaxOut
  /\ C!AckId =< lastOutId
  /\ Offers(response, C!AckId)
  /\ Len(delivered) =< lastOutId
  /\ \A i \in 1..Len(delivered) : delivered[i] = i
  /\ disconnects \in Seq(Ends)

LEMMA AckIds ==
  ASSUME ClientSide
  PROVE  /\ C!AckId \in Nat
         /\ lastEventId = C!NoEvent => C!AckId = 0
         /\ lastEventId # C!NoEvent => lastEventId = C!AckId /\ C!AckId >= 1
<1>1. lastEventId \in {C!NoEvent} \cup 1..MaxOut
  BY DEF ClientSide, C!ClientInv, C!TypeOK, MaxEventId
<1> QED
  BY <1>1, LinkBounds DEF C!AckId, C!NoEvent

(* What comes next in an answer is a packet the server made, and no later  *)
(* than the one the client expects; what is behind it follows it.          *)
LEMMA HeadOffered ==
  ASSUME ClientSide, response # <<>>
  PROVE  /\ Head(response).id \in 1..lastOutId
         /\ Head(response) = EventPacket(Head(response).id)
         /\ Head(response).id =< C!AckId + 1
         /\ \A n \in Nat : Head(response).id =< n => Offers(Tail(response), n)
<1> DEFINE r == response
           t == Tail(response)
<1>1. PICK last \in 0..lastOutId :
        /\ last - Len(r) \in 0..C!AckId
        /\ \A i \in 1..Len(r) : r[i] = EventPacket(last - Len(r) + i)
  BY DEF ClientSide, Offers
<1>2. r \in Seq(C!EventPackets)
  BY DEF ClientSide, C!ClientInv, C!TypeOK
<1>3. /\ Len(r) \in Nat /\ Len(r) >= 1 /\ Head(r) = r[1]
      /\ Len(t) = Len(r) - 1
      /\ \A i \in 1..Len(t) : t[i] = r[i + 1]
  BY <1>2, EmptySeq, LenProperties, HeadTailProperties
<1> DEFINE id == last - Len(r) + 1
<1>4. lastOutId \in Nat /\ C!AckId \in Nat
  BY AckIds DEF ClientSide
<1>5. id \in 1..lastOutId /\ id =< C!AckId + 1
  BY <1>1, <1>3, <1>4
<1>6. Head(r) = EventPacket(id)
  BY <1>1, <1>3
<1>7. Head(r).id = id
  BY <1>6 DEF EventPacket
<1>8. ASSUME NEW n \in Nat, id =< n
      PROVE  Offers(t, n)
  <2>1. last - Len(t) = id
    BY <1>1, <1>3, <1>4
  <2>2. last - Len(t) \in 0..n
    BY <1>4, <1>5, <1>8, <2>1
  <2>3. ASSUME NEW i \in 1..Len(t)
        PROVE  t[i] = EventPacket(last - Len(t) + i)
    <3>1. i + 1 \in 1..Len(r) /\ last - Len(r) + (i + 1) = last - Len(t) + i
      BY <1>3, <1>4
    <3> QED
      BY <1>1, <1>3, <3>1
  <2> HIDE DEF t
  <2> QED
    BY <2>2, <2>3 DEF Offers
<1> QED
  BY <1>5, <1>6, <1>7, <1>8

(* The server of this repository sends nothing its client cannot read, and *)
(* leaves nothing out.                                                     *)
LEMMA NothingUnreadable ==
  ASSUME ClientSide
  PROVE  /\ ~C!CorruptPacket /\ ~C!UnreadablePacket
         /\ ~C!PacketAhead /\ ~C!MissingPacket
<1>1. ASSUME response # <<>>
      PROVE  /\ Head(response).kind \in {"data", "null"}
             /\ ~C!Ahead(Head(response).id)
  <2>1. Head(response).id \in 1..lastOutId /\ Head(response).id =< C!AckId + 1
    BY <1>1, HeadOffered
  <2>2. Head(response) = EventPacket(Head(response).id)
    BY <1>1, HeadOffered
  <2>3. Head(response).kind \in {"data", "null"}
    BY <2>2 DEF EventPacket
  <2>4. ~C!Ahead(Head(response).id)
    BY <2>1, AckIds DEF C!Ahead, ClientSide
  <2> QED
    BY <2>3, <2>4
<1> QED
  BY <1>1 DEF C!CorruptPacket, C!UnreadablePacket, C!PacketAhead,
              C!MissingPacket, C!Expected, C!AtPacket

(* What the client may do beside its server, and what changes then.        *)
ClientSteps ==
  \/ C!Application \/ C!Timers \/ C!Continue
  \/ C!HandshakeSuccess \/ C!WriteSuccess \/ C!WriteFailure
  \/ \E notFound \in BOOLEAN : C!HandshakeFailure(notFound)
  \/ C!CometFailure(FALSE)
  \/ \E batch \in C!Responses : C!CometSuccess(batch) /\ Offers(batch, C!AckId)

SendMoves ==
  sendXhr' = sendXhr \/ sendXhr'.kind # "send" \/ sendXhr'.ack = C!AckId

CometAsks ==
  \/ cometXhr' = cometXhr
  \/ cometXhr'.kind = "comet" /\ cometXhr'.ack = C!AckId

ReadsOn ==
  \/ /\ UNCHANGED <<lastEventId, delivered>>
     /\ Offers(response', C!AckId)
  \/ /\ lastEventId' = C!AckId + 1 /\ lastEventId' \in 1..lastOutId
     /\ Offers(response', lastEventId')
     /\ \/ delivered' = delivered
        \/ delivered' = Append(delivered, Len(delivered) + 1)
           /\ lastEventId' = Len(delivered) + 1

LEMMA SendNowAcks ==
  ASSUME NEW flight, NEW buffer, NEW sendNull, C!SendNow(flight, buffer, sendNull)
  PROVE  SendMoves
BY DEF C!SendNow, SendMoves

LEMMA DoWriteAcks ==
  ASSUME NEW buffer, NEW sendNull, C!DoWrite(buffer, sendNull)
  PROVE  SendMoves
BY SendNowAcks DEF C!DoWrite, SendMoves

LEMMA CloseSessionAcks ==
  ASSUME NEW ts, C!CloseSession(ts)
  PROVE  SendMoves
BY DoWriteAcks DEF C!CloseSession, C!writing, SendMoves

LEMMA ClientSends ==
  ASSUME ClientSide, ClientSteps
  PROVE  SendMoves
<1>1. CASE C!Application
  <2>1. CASE C!Connect
    BY <2>1 DEF C!Connect, SendMoves
  <2>2. CASE C!Write
    <3> DEFINE buffer == Append(writeBuffer, written + 1)
    <3>1. C!DoWrite(buffer, FALSE)
      BY <2>2 DEF C!Write
    <3> HIDE DEF buffer
    <3> QED
      BY <3>1, DoWriteAcks
  <2>3. CASE C!Close
    BY <2>3, CloseSessionAcks DEF C!Close
  <2> QED
    BY <1>1, <2>1, <2>2, <2>3 DEF C!Application
<1>2. CASE C!Timers
  BY <1>2, SendNowAcks, CloseSessionAcks
     DEF C!Timers, C!HandshakeTimeout, C!HandshakeRetry, C!WriteTimer,
         C!CometTimer, C!TimeoutExpires, C!writing, SendMoves
<1>3. CASE C!Continue
  <2>1. CASE C!ReceivedNullPacket
    BY <2>1, DoWriteAcks DEF C!ReceivedNullPacket, C!AnswerNull, C!writing, SendMoves
  <2>2. CASE C!OnConnectReturns \/ C!SkipPacket \/ C!DeliverPacket
               \/ C!OnReadReturns \/ C!PacketsDone
    BY <2>2 DEF C!OnConnectReturns, C!SkipPacket, C!DeliverPacket,
                C!OnReadReturns, C!PacketsDone, C!writing, SendMoves
  <2> QED
    BY <1>3, <2>1, <2>2, NothingUnreadable DEF C!Continue
<1>4. CASE C!HandshakeSuccess
  BY <1>4 DEF C!HandshakeSuccess, C!HandshakeAnswered, C!Idle, SendMoves
<1>5. CASE C!WriteSuccess
  BY <1>5, SendNowAcks DEF C!WriteSuccess, C!WriteSucceeds, C!Idle, SendMoves
<1>6. CASE C!WriteFailure
  BY <1>6 DEF C!WriteFailure, C!Idle, SendMoves
<1>7. ASSUME NEW notFound \in BOOLEAN, C!HandshakeFailure(notFound)
      PROVE  SendMoves
  BY <1>7 DEF C!HandshakeFailure, C!HandshakeAnswered, C!Idle, SendMoves
<1>8. CASE C!CometFailure(FALSE)
  BY <1>8, CloseSessionAcks DEF C!CometFailure, C!writing, SendMoves
<1>9. ASSUME NEW batch \in C!Responses, C!CometSuccess(batch)
      PROVE  SendMoves
  BY <1>9 DEF C!CometSuccess, C!writing, SendMoves
<1> QED
  BY <1>1, <1>2, <1>3, <1>4, <1>5, <1>6, <1>7, <1>8, <1>9 DEF ClientSteps

LEMMA ClientRunsAsk ==
  ASSUME ClientSide, C!Application \/ C!Timers \/ C!Continue
  PROVE  CometAsks
<1>1. CASE C!Application
  BY <1>1 DEF C!Application, C!Connect, C!Write, C!Close, CometAsks
<1>2. CASE C!Timers
  BY <1>2 DEF C!Timers, C!HandshakeTimeout, C!HandshakeRetry, C!WriteTimer,
              C!CometTimer, C!TimeoutExpires, C!DoConnectComet, CometAsks
<1>3. CASE C!Continue
  <2>1. CASE C!OnConnectReturns \/ C!PacketsDone
    BY <2>1 DEF C!OnConnectReturns, C!PacketsDone, C!DoConnectComet, CometAsks
  <2>2. CASE C!ReceivedNullPacket \/ C!SkipPacket \/ C!DeliverPacket
               \/ C!OnReadReturns
    BY <2>2 DEF C!ReceivedNullPacket, C!SkipPacket, C!DeliverPacket,
                C!OnReadReturns, CometAsks
  <2> QED
    BY <1>3, <2>1, <2>2, NothingUnreadable DEF C!Continue
<1> QED
  BY <1>1, <1>2, <1>3

LEMMA ClientAsks ==
  ASSUME ClientSide, ClientSteps
  PROVE  CometAsks \/ cometXhr' = C!Idle
<1>1. CASE C!HandshakeSuccess \/ C!WriteSuccess \/ C!WriteFailure
  BY <1>1 DEF C!HandshakeSuccess, C!WriteSuccess, C!WriteFailure, CometAsks
<1>2. ASSUME NEW notFound \in BOOLEAN, C!HandshakeFailure(notFound)
      PROVE  CometAsks
  BY <1>2 DEF C!HandshakeFailure, CometAsks
<1>3. CASE C!CometFailure(FALSE)
  BY <1>3 DEF C!CometFailure, C!CometAnswered
<1>4. ASSUME NEW batch \in C!Responses, C!CometSuccess(batch)
      PROVE  cometXhr' = C!Idle
  BY <1>4 DEF C!CometSuccess, C!CometAnswered
<1> QED
  BY <1>1, <1>2, <1>3, <1>4, ClientRunsAsk DEF ClientSteps

LEMMA NothingOffered ==
  ASSUME lastOutId \in Nat, NEW seen \in Nat
  PROVE  Offers(<<>>, seen)
<1>1. 0 \in 0..lastOutId /\ Len(<<>>) = 0
  OBVIOUS
<1>2. 0 - Len(<<>>) \in 0..seen /\ \A i \in 1..Len(<<>>) : FALSE
  BY <1>1
<1> QED
  BY <1>1, <1>2 DEF Offers

(* A packet that is expected is the next one.                              *)
LEMMA ExpectedIsNext ==
  ASSUME ClientSide, NEW kinds \in SUBSET C!PacketKinds, C!Expected(kinds)
  PROVE  /\ lastEventId' = C!AckId + 1 /\ lastEventId' \in 1..lastOutId
         /\ lastEventId' = Head(response).id
         /\ Offers(Tail(response), lastEventId')
         /\ lastEventId' = Len(delivered) + 1
<1>1. /\ response # <<>> /\ running = "packets" /\ lastEventId' = Head(response).id
      /\ ~C!Seen(Head(response).id)
  BY DEF C!Expected, C!AtPacket
<1>2. /\ Head(response).id \in 1..lastOutId /\ Head(response).id =< C!AckId + 1
      /\ \A n \in Nat : Head(response).id =< n => Offers(Tail(response), n)
  BY <1>1, HeadOffered
<1>3. Head(response).id = C!AckId + 1
  BY <1>1, <1>2, AckIds DEF C!Seen
<1>4. C!AckId = Len(delivered)
  <2>1. /\ lastEventId = IF delivered = <<>> THEN C!NoEvent ELSE delivered[Len(delivered)]
        /\ \A i \in 1..Len(delivered) : delivered[i] = i
        /\ delivered \in Seq(1..MaxEventId)
    BY <1>1 DEF ClientSide, C!LoopInv, C!Reading, C!MayRead, C!Synced,
                C!ClientInv, C!TypeOK
  <2>2. CASE delivered = <<>>
    BY <2>1, <2>2, AckIds
  <2>3. CASE delivered # <<>>
    <3>1. Len(delivered) \in 1..Len(delivered) /\ Len(delivered) \in Nat
      BY <2>1, <2>3, EmptySeq
    <3>2. lastEventId = Len(delivered) /\ lastEventId # C!NoEvent
      BY <2>1, <2>3, <3>1 DEF C!NoEvent
    <3> QED
      BY <3>2, AckIds
  <2> QED
    BY <2>2, <2>3
<1>5. Offers(Tail(response), Head(response).id)
  BY <1>2
<1> QED
  BY <1>1, <1>2, <1>3, <1>4, <1>5

LEMMA ClientReads ==
  ASSUME ClientSide, ClientSteps
  PROVE  ReadsOn
<1>1. CASE C!DeliverPacket
  <2>1. /\ C!Expected({"data"}) /\ response' = Tail(response)
        /\ delivered' = Append(delivered, Head(response).id)
    BY <1>1 DEF C!DeliverPacket
  <2>2. {"data"} \in SUBSET C!PacketKinds
    BY DEF C!PacketKinds
  <2> QED
    BY <2>1, <2>2, ExpectedIsNext DEF ReadsOn
<1>2. CASE C!ReceivedNullPacket
  <2>1. C!Expected({"null"}) /\ response' = <<>> /\ delivered' = delivered
    BY <1>2 DEF C!ReceivedNullPacket, C!HandlerStops
  <2>2. {"null"} \in SUBSET C!PacketKinds
    BY DEF C!PacketKinds
  <2>3. lastEventId' = C!AckId + 1 /\ lastEventId' \in 1..lastOutId
    BY <2>1, <2>2, ExpectedIsNext
  <2>4. Offers(<<>>, lastEventId')
    <3>1. lastEventId' \in Nat /\ lastOutId \in Nat
      BY <2>3 DEF ClientSide
    <3> QED
      BY <3>1, NothingOffered
  <2> QED
    BY <2>1, <2>3, <2>4 DEF ReadsOn
<1>3. CASE C!SkipPacket
  <2>1. /\ response # <<>> /\ C!Seen(Head(response).id)
        /\ response' = Tail(response) /\ UNCHANGED <<lastEventId, delivered>>
    BY <1>3 DEF C!SkipPacket, C!AtPacket
  <2>2. Head(response).id =< C!AckId /\ C!AckId \in Nat
    BY <2>1, AckIds DEF C!Seen
  <2> QED
    BY <2>1, <2>2, HeadOffered DEF ReadsOn
<1>4. ASSUME NEW batch \in C!Responses, C!CometSuccess(batch), Offers(batch, C!AckId)
      PROVE  ReadsOn
  BY <1>4 DEF C!CometSuccess, ReadsOn, ClientSide
<1>5. ASSUME UNCHANGED <<lastEventId, delivered, response>>
      PROVE  ReadsOn
  BY <1>5 DEF ReadsOn, ClientSide
<1>6. CASE C!Application
  BY <1>5, <1>6 DEF C!Application, C!Connect, C!Write, C!Close
<1>7. CASE C!Timers
  BY <1>5, <1>7 DEF C!Timers, C!HandshakeTimeout, C!HandshakeRetry, C!WriteTimer,
                    C!CometTimer, C!TimeoutExpires
<1>8. CASE C!OnConnectReturns \/ C!OnReadReturns \/ C!PacketsDone
  BY <1>5, <1>8 DEF C!OnConnectReturns, C!OnReadReturns, C!PacketsDone
<1>9. CASE C!HandshakeSuccess \/ C!WriteSuccess \/ C!WriteFailure
  BY <1>5, <1>9 DEF C!HandshakeSuccess, C!WriteSuccess, C!WriteFailure
<1>10. ASSUME NEW notFound \in BOOLEAN, C!HandshakeFailure(notFound)
       PROVE  ReadsOn
  BY <1>5, <1>10 DEF C!HandshakeFailure
<1>11. CASE C!CometFailure(FALSE)
  BY <1>5, <1>11 DEF C!CometFailure
<1> QED
  BY <1>1, <1>2, <1>3, <1>4, <1>6, <1>7, <1>8, <1>9, <1>10, <1>11, NothingUnreadable
     DEF ClientSteps, C!Continue

LEMMA ClientEnds ==
  ASSUME ClientSide, ClientSteps
  PROVE  disconnects' \in Seq(Ends)
<1>1. disconnects \in Seq(Ends)
  BY DEF ClientSide
<1>2. ASSUME NEW d \in Ends
      PROVE  Append(disconnects, d) \in Seq(Ends)
  BY <1>1, AppendProperties
<1>3. ASSUME NEW ts, C!CloseSession(ts)
      PROVE  disconnects' \in Seq(Ends)
  <2>1. \/ disconnects' = disconnects
        \/ disconnects' = disconnects \o <<"close", "close">>
        \/ disconnects' = disconnects \o <<"close">>
    BY <1>3 DEF C!CloseSession
  <2>2. <<"close", "close">> \in Seq(Ends) /\ <<"close">> \in Seq(Ends)
    BY DEF Ends
  <2> QED
    BY <1>1, <2>1, <2>2, ConcatProperties
<1>4. "unreachable" \in Ends /\ "clean" \in Ends
  BY DEF Ends
<1>5. CASE C!Application
  BY <1>1, <1>3, <1>5 DEF C!Application, C!Connect, C!Write, C!Close
<1>6. CASE C!Timers
  BY <1>1, <1>2, <1>3, <1>4, <1>6
     DEF C!Timers, C!HandshakeTimeout, C!HandshakeRetry, C!WriteTimer,
         C!CometTimer, C!TimeoutExpires
<1>7. CASE C!Continue
  BY <1>1, <1>2, <1>4, <1>7, NothingUnreadable
     DEF C!Continue, C!OnConnectReturns, C!SkipPacket, C!DeliverPacket,
         C!OnReadReturns, C!ReceivedNullPacket, C!PacketsDone
<1>8. CASE C!HandshakeSuccess \/ C!WriteSuccess \/ C!WriteFailure
  BY <1>1, <1>8 DEF C!HandshakeSuccess, C!WriteSuccess, C!WriteFailure
<1>9. ASSUME NEW notFound \in BOOLEAN, C!HandshakeFailure(notFound)
      PROVE  disconnects' \in Seq(Ends)
  BY <1>1, <1>2, <1>4, <1>9 DEF C!HandshakeFailure
<1>10. CASE C!CometFailure(FALSE)
  BY <1>1, <1>10 DEF C!CometFailure
<1>11. ASSUME NEW batch \in C!Responses, C!CometSuccess(batch)
       PROVE  disconnects' \in Seq(Ends)
  BY <1>1, <1>11 DEF C!CometSuccess
<1> QED
  BY <1>5, <1>6, <1>7, <1>8, <1>9, <1>10, <1>11 DEF ClientSteps

(* The client's half of a step keeps what holds of the client, and it gets *)
(* no further than the server is.                                          *)
LEMMA ClientKeeps ==
  ASSUME ClientSide, ClientSteps, UNCHANGED <<lastOutId, serverNulls>>
  PROVE  ClientSide' /\ C!AckId =< C!AckId'
<1>1. C!Next
  BY DEF ClientSteps, C!Next, C!Network
<1>2. C!ClientInv' /\ C!LoopInv'
  BY <1>1, Bounds, C!ClientNext, C!LoopNext DEF ClientSide
<1>3. ReadsOn /\ disconnects' \in Seq(Ends)
  BY ClientReads, ClientEnds
<1>4. lastOutId \in Nat /\ C!AckId \in Nat /\ C!AckId =< lastOutId
  BY AckIds DEF ClientSide
<1>5. /\ C!AckId' \in C!AckId..lastOutId
      /\ Offers(response', C!AckId')
  <2>1. CASE UNCHANGED <<lastEventId, delivered>> /\ Offers(response', C!AckId)
    BY <1>4, <2>1 DEF C!AckId
  <2>2. CASE /\ lastEventId' = C!AckId + 1 /\ lastEventId' \in 1..lastOutId
             /\ Offers(response', lastEventId')
    <3>1. lastEventId' # C!NoEvent
      BY <1>4, <2>2 DEF C!NoEvent
    <3>2. C!AckId' = lastEventId'
      BY <3>1 DEF C!AckId, C!NoEvent
    <3> QED
      BY <1>4, <2>2, <3>2
  <2> QED
    BY <1>3, <2>1, <2>2 DEF ReadsOn
<1>6. Offers(response, C!AckId)'
  BY <1>5 DEF Offers, EventPacket
<1>7. /\ Len(delivered') =< lastOutId
      /\ \A i \in 1..Len(delivered') : delivered'[i] = i
  <2>1. /\ Len(delivered) =< lastOutId
        /\ \A i \in 1..Len(delivered) : delivered[i] = i
    BY DEF ClientSide
  <2>2. CASE delivered' = delivered
    BY <2>1, <2>2
  <2>3. CASE /\ delivered' = Append(delivered, Len(delivered) + 1)
             /\ Len(delivered) + 1 \in 1..lastOutId
    <3>1. delivered \in Seq(Nat)
      <4>1. delivered \in Seq(1..MaxEventId)
        BY DEF ClientSide, C!ClientInv, C!TypeOK
      <4>2. 1..MaxEventId \subseteq Nat
        BY Bounds
      <4> QED
        BY <4>1, <4>2, SeqMonotonic
    <3>2. Len(delivered) \in Nat /\ Len(delivered) + 1 \in Nat
      BY <3>1, LenProperties
    <3> DEFINE next == Len(delivered) + 1
    <3> HIDE DEF next
    <3>3. /\ Len(Append(delivered, next)) = Len(delivered) + 1
          /\ \A i \in 1..Len(delivered) : Append(delivered, next)[i] = delivered[i]
          /\ Append(delivered, next)[Len(delivered) + 1] = next
      BY <3>1, <3>2, AppendProperties DEF next
    <3> QED
      BY <2>1, <2>3, <3>2, <3>3 DEF next
  <2> QED
    BY <1>3, <2>2, <2>3 DEF ReadsOn
<1> QED
  BY <1>2, <1>3, <1>4, <1>5, <1>6, <1>7 DEF ClientSide, Ends

(* Beside a server that only makes packets it may read on as before.       *)
LEMMA ServerLeavesClient ==
  ASSUME ClientSide, UNCHANGED clientVars,
         lastOutId' \in {lastOutId, lastOutId + 1}, lastOutId' =< MaxOut,
         \A i \in 1..lastOutId : i \in serverNulls' <=> i \in serverNulls
  PROVE  ClientSide' /\ C!AckId' = C!AckId
<1>1. C!ClientInv' /\ C!LoopInv'
  <2>1. UNCHANGED C!vars
    BY DEF clientVars, C!vars, C!writing
  <2> QED
    BY <2>1, Bounds, C!ClientNext, C!LoopNext DEF ClientSide
<1>2. C!AckId' = C!AckId
  BY DEF clientVars, C!AckId, C!NoEvent
<1>3. lastOutId \in Nat /\ C!AckId \in Nat /\ C!AckId =< lastOutId
  BY AckIds DEF ClientSide
<1>4. Offers(response, C!AckId)'
  <2>1. PICK last \in 0..lastOutId :
          /\ last - Len(response) \in 0..C!AckId
          /\ \A i \in 1..Len(response) : response[i] = EventPacket(last - Len(response) + i)
    BY DEF ClientSide, Offers
  <2>2. Len(response) \in Nat
    BY LenProperties DEF ClientSide, C!ClientInv, C!TypeOK
  <2>3. ASSUME NEW i \in 1..Len(response)
        PROVE  EventPacket(last - Len(response) + i) = EventPacket(last - Len(response) + i)'
    <3> DEFINE id == last - Len(response) + i
    <3>1. id \in 1..lastOutId
      BY <1>3, <2>1, <2>2
    <3>2. id' = id
      BY DEF clientVars
    <3> HIDE DEF id
    <3>3. EventPacket(id) = EventPacket(id)'
      BY <3>1, <3>2 DEF EventPacket
    <3> QED
      BY <3>3 DEF id
  <2>4. response' = response /\ last \in 0..lastOutId'
    BY <1>3 DEF clientVars
  <2> QED
    BY <1>2, <2>1, <2>3, <2>4 DEF Offers
<1>5. disconnects' = disconnects /\ delivered' = delivered
  BY DEF clientVars
<1>6. Len(delivered) \in Nat
  BY LenProperties DEF ClientSide, C!ClientInv, C!TypeOK
<1> QED
  BY <1>1, <1>2, <1>3, <1>4, <1>5, <1>6 DEF ClientSide, Ends

(***************************************************************************)
(* What a handler of the server does to what is said of it beside its      *)
(* client: one packet at most, and its acknowledgements stay behind what   *)
(* the client has got past.                                                *)
(***************************************************************************)
ServerHolds(seen) ==
  /\ S!BufferInv /\ S!ResponsesInv
  /\ lastOutId =< MaxOut
  /\ serverAcked =< seen

ServerMoves(seen) ==
  /\ S!BufferInv' /\ S!KeepsRuns
  /\ lastOutId' \in {lastOutId, lastOutId + 1} /\ lastOutId' =< MaxOut
  /\ \A i \in 1..lastOutId : i \in serverNulls' <=> i \in serverNulls
  /\ serverAcked' =< seen

LEMMA SameMoves ==
  ASSUME NEW seen \in Nat, ServerHolds(seen),
         UNCHANGED <<poll, outgoing, lastOutId, serverAcked, serverNulls>>
  PROVE  ServerMoves(seen)
<1>1. S!BufferInv'
  BY Bounds, S!SameBuffer DEF ServerHolds
<1>2. S!KeepsRuns
  BY Bounds, S!SameResponses DEF ServerHolds
<1> QED
  BY <1>1, <1>2 DEF ServerHolds, ServerMoves

LEMMA HandlerMoves ==
  ASSUME NEW seen \in Nat, ServerHolds(seen),
         \/ S!Deliver \/ S!SendAnswered \/ \E next : S!ReceiveEnds(next)
         \/ \E c : S!Handshake(c)
  PROVE  ServerMoves(seen)
BY SameMoves DEF S!Deliver, S!SendAnswered, S!ReceiveEnds, S!Handshake, S!buffers

LEMMA SentMoves ==
  ASSUME NEW kept, NEW p, NEW v, S!SessionSend(kept, p, v), lastOutId \in Nat,
         serverNulls' \in {serverNulls, serverNulls \cup {lastOutId + 1}}
  PROVE  /\ lastOutId' = lastOutId + 1 /\ lastOutId' =< MaxOut
         /\ \A i \in 1..lastOutId : i \in serverNulls' <=> i \in serverNulls
<1>1. lastOutId' = lastOutId + 1 /\ lastOutId < MaxOut
  BY DEF S!SessionSend
<1>2. lastOutId' =< MaxOut
  BY <1>1, LinkBounds
<1>3. ASSUME NEW i \in 1..lastOutId
      PROVE  i \in serverNulls' <=> i \in serverNulls
  <2>1. i # lastOutId + 1
    OBVIOUS
  <2> QED
    BY <2>1
<1> QED
  BY <1>1, <1>2, <1>3

LEMMA ApplicationMoves ==
  ASSUME NEW seen \in Nat, ServerHolds(seen), S!Application
  PROVE  ServerMoves(seen)
<1>1. /\ S!SessionSend(outgoing, poll, variables) /\ serverAcked' = serverAcked
      /\ serverNulls' \in {serverNulls, serverNulls \cup {lastOutId + 1}}
  BY DEF S!Application, S!ConnectionSend, S!ConnectionClose, S!SessionClose
<1>2. /\ S!EndsAt(outgoing, lastOutId) /\ serverAcked \in Nat /\ lastOutId \in Nat
      /\ Len(outgoing) =< lastOutId /\ lastOutId - Len(outgoing) =< serverAcked
  BY DEF ServerHolds, S!BufferInv
<1>3. S!BufferInv'
  BY <1>1, <1>2, Bounds, S!SendKeepsBuffer DEF ServerHolds
<1>4. S!KeepsRuns
  BY Bounds, S!ResponsesByApplication DEF ServerHolds
<1> QED
  BY <1>1, <1>2, <1>3, <1>4, SentMoves DEF ServerHolds, ServerMoves

LEMMA TimersMove ==
  ASSUME NEW seen \in Nat, ServerHolds(seen), S!Timers
  PROVE  ServerMoves(seen)
<1>1. UNCHANGED <<outgoing, lastOutId, serverAcked, serverNulls>>
  BY DEF S!Timers, S!DurationFires, S!IntervalFires, S!TimeoutFires, S!buffers
<1>2. S!BufferInv'
  BY <1>1, Bounds, S!SameBuffer DEF ServerHolds
<1>3. S!KeepsRuns
  BY Bounds, S!ResponsesByTimers DEF ServerHolds
<1> QED
  BY <1>1, <1>2, <1>3 DEF ServerHolds, ServerMoves

(* A request acknowledges what the client had got past when it was made.   *)
LEMMA SendMovesServer ==
  ASSUME NEW seen \in Nat, ServerHolds(seen), NEW ack \in 0..seen, NEW b,
         S!Send(ack, b)
  PROVE  ServerMoves(seen)
<1>1. S!BufferInv' /\ S!KeepsRuns
  BY Bounds, S!BufferBySend, S!ResponsesBySend DEF ServerHolds
<1>2. serverAcked' =< seen
  BY DEF S!Send, S!Request, S!ReceiveAck, ServerHolds
<1>3. lastOutId \in Nat /\ lastOutId =< MaxOut
  BY DEF ServerHolds, S!BufferInv
<1>4. CASE S!DropAcked(ack)
  BY <1>1, <1>2, <1>3, <1>4 DEF S!DropAcked, ServerMoves
<1>5. CASE S!SessionClose(S!Unacked(ack), poll, variables)
  <2>1. /\ S!SessionSend(S!Unacked(ack), poll, variables)
        /\ serverNulls' \in {serverNulls, serverNulls \cup {lastOutId + 1}}
    BY <1>5 DEF S!SessionClose
  <2> QED
    BY <1>1, <1>2, <1>3, <2>1, SentMoves DEF ServerMoves
<1> QED
  BY <1>4, <1>5 DEF S!Send

LEMMA CometMovesServer ==
  ASSUME NEW seen \in Nat, ServerHolds(seen), NEW ack \in 0..seen, NEW c,
         S!Comet(ack, c)
  PROVE  ServerMoves(seen) /\ Len(poll'.responses) > Len(poll.responses)
<1>1. /\ S!BufferInv' /\ S!KeepsRuns
      /\ Len(poll'.responses) > Len(poll.responses)
  BY Bounds, S!BufferByRequest, S!ResponsesByComet DEF ServerHolds
<1>2. serverAcked' =< seen
  BY DEF S!Comet, S!Request, S!ReceiveAck, ServerHolds
<1>3. UNCHANGED <<lastOutId, serverNulls>>
  BY DEF S!Comet, S!DropAcked
<1> QED
  BY <1>1, <1>2, <1>3 DEF ServerHolds, ServerMoves

(***************************************************************************)
(* The invariant of the link: whatever request travels, or was given up    *)
(* and travels still, acknowledges no more than the client has got past.   *)
(***************************************************************************)
SendSeen == sendXhr.kind = "send" => sendXhr.ack \in 0..C!AckId
CometSeen == cometXhr.kind = "comet" => cometXhr.ack \in 0..C!AckId
AbandonedSeen == \A a \in abandoned : a.req.ack \in 0..C!AckId

CometStaged ==
  /\ cometStage = "travelling" => cometXhr.kind = "comet"
  /\ cometStage = "held" => cometOpen \in 1..Len(poll.responses)

LinkInv ==
  /\ ClientSide /\ ServerHolds(C!AckId)
  /\ SendSeen /\ CometSeen /\ AbandonedSeen
  /\ CometStaged

LEMMA LinkByClient ==
  ASSUME LinkInv, ClientSteps, UNCHANGED serverVars
  PROVE  /\ ClientSide' /\ ServerHolds(C!AckId)'
         /\ SendSeen' /\ CometSeen'
         /\ \A ack \in 0..C!AckId : ack \in 0..C!AckId'
<1>1. ClientSide' /\ C!AckId =< C!AckId'
  BY ClientKeeps DEF LinkInv, serverVars
<1>2. C!AckId \in Nat /\ C!AckId' \in Nat
  <2>1. C!AckId \in Nat
    BY AckIds DEF LinkInv
  <2>2. lastEventId' \in {C!NoEvent} \cup 1..MaxOut
    BY <1>1 DEF ClientSide, C!ClientInv, C!TypeOK, MaxEventId
  <2>3. C!AckId' \in Nat
    BY <2>2, LinkBounds DEF C!AckId, C!NoEvent
  <2> QED
    BY <2>1, <2>3
<1>3. \A ack \in 0..C!AckId : ack \in 0..C!AckId'
  BY <1>1, <1>2
<1>4. SendSeen'
  <2>1. SendMoves
    BY ClientSends DEF LinkInv
  <2>2. C!AckId \in 0..C!AckId
    BY <1>2
  <2> QED
    BY <1>3, <2>1, <2>2 DEF SendMoves, SendSeen, LinkInv
<1>5. CometSeen'
  <2>1. CometAsks \/ cometXhr' = C!Idle
    BY ClientAsks DEF LinkInv
  <2>2. C!AckId \in 0..C!AckId
    BY <1>2
  <2> QED
    BY <1>3, <2>1, <2>2 DEF CometAsks, C!Idle, CometSeen, LinkInv
<1>6. ServerHolds(C!AckId)'
  <2>1. S!BufferInv' /\ serverAcked' = serverAcked /\ lastOutId' = lastOutId
    BY Bounds, S!SameBuffer DEF LinkInv, ServerHolds, serverVars
  <2>2. S!ResponsesInv'
    BY Bounds, S!SameResponses, S!KeptRunsAreKept DEF LinkInv, ServerHolds, serverVars
  <2>3. serverAcked \in Nat
    BY DEF LinkInv, ServerHolds, S!BufferInv
  <2> QED
    BY <1>1, <1>2, <2>1, <2>2, <2>3 DEF LinkInv, ServerHolds
<1> QED
  BY <1>1, <1>3, <1>4, <1>5, <1>6

LEMMA LinkByServer ==
  ASSUME LinkInv, UNCHANGED clientVars, ServerMoves(C!AckId)
  PROVE  /\ ClientSide' /\ ServerHolds(C!AckId)'
         /\ SendSeen' /\ CometSeen'
         /\ C!AckId' = C!AckId
         /\ Len(poll.responses) \in Nat /\ Len(poll'.responses) \in Nat
         /\ Len(poll.responses) =< Len(poll'.responses)
<1>1. ClientSide' /\ C!AckId' = C!AckId
  BY ServerLeavesClient DEF LinkInv, ServerMoves
<1>2. S!ResponsesInv'
  BY Bounds, S!KeptRunsAreKept DEF ServerMoves
<1>3. ServerHolds(C!AckId)'
  BY <1>1, <1>2 DEF ServerMoves, ServerHolds
<1>4. SendSeen' /\ CometSeen'
  BY <1>1 DEF LinkInv, SendSeen, CometSeen, clientVars
<1>5. Len(poll.responses) =< Len(poll'.responses) /\ Len(poll'.responses) \in Nat
  BY LenProperties DEF ServerMoves, S!KeepsRuns, S!HasRuns
<1>6. Len(poll.responses) \in Nat
  BY LenProperties DEF LinkInv, ServerHolds, S!ResponsesInv, S!HasRuns
<1> QED
  BY <1>1, <1>3, <1>4, <1>5, <1>6

LEMMA HandledMoves ==
  ASSUME LinkInv, NEW req, req.ack \in 0..C!AckId, ServerHandles(req)
  PROVE  /\ ServerMoves(C!AckId)
         /\ req.kind # "send" => Len(poll'.responses) > Len(poll.responses)
<1>1. ServerHolds(C!AckId) /\ C!AckId \in Nat
  BY AckIds DEF LinkInv
<1>2. CASE req.kind = "send"
  <2> DEFINE b == [i \in DOMAIN req.packets |-> NodePacket(req.packets[i])]
  <2>1. Server!Send(req.ack, b)
    BY <1>2 DEF ServerHandles
  <2> HIDE DEF b
  <2>2. S!Send(req.ack, b)
    BY <2>1, SameServer
  <2> QED
    BY <1>1, <1>2, <2>2, SendMovesServer
<1>3. CASE req.kind # "send"
  <2>1. Server!Comet(req.ack, Server!NoChange)
    BY <1>3 DEF ServerHandles
  <2>2. S!Comet(req.ack, Server!NoChange)
    BY <2>1, SameServer
  <2> QED
    BY <1>1, <2>2, CometMovesServer
<1> QED
  BY <1>2, <1>3

(* The answer to a comet, as the client reads it, is what was written.     *)
LEMMA BatchOffered ==
  ASSUME LinkInv, cometStage = "held"
  PROVE  LET ids   == poll.responses[cometOpen].written
             batch == [i \in DOMAIN ids |-> EventPacket(ids[i])]
         IN  batch \in C!Responses /\ Offers(batch, C!AckId)
<1> DEFINE ids == poll.responses[cometOpen].written
           batch == [i \in DOMAIN ids |-> EventPacket(ids[i])]
           R == [open : BOOLEAN, written : S!Runs(serverAcked, lastOutId)]
<1>1. ids \in S!Runs(serverAcked, lastOutId)
  <2>1. poll.responses \in Seq(R) /\ cometOpen \in 1..Len(poll.responses)
    BY DEF LinkInv, ServerHolds, S!ResponsesInv, S!HasRuns, CometStaged
  <2> HIDE DEF R
  <2>2. poll.responses[cometOpen] \in R
    BY <2>1, ElementOfSeq
  <2> QED
    BY <2>2 DEF R
<1> HIDE DEF ids
<1>2. PICK last \in 0..lastOutId :
        S!EndsAt(ids, last) /\ last - Len(ids) \in 0..serverAcked
  BY <1>1 DEF S!Runs
<1>3. /\ C!AckId \in Nat /\ serverAcked \in Nat /\ serverAcked =< C!AckId
      /\ lastOutId \in Nat /\ lastOutId =< MaxOut
  BY AckIds DEF LinkInv, ServerHolds, S!BufferInv
<1>4. ids \in Seq(Int) /\ Len(ids) \in Nat
      /\ \A i \in 1..Len(ids) : ids[i] = last - Len(ids) + i
  <2>1. last \in Int
    BY <1>3
  <2> QED
    BY <1>2, <2>1, Bounds, S!PlacesOfEndsAt DEF S!EndsAt
<1>5. DOMAIN ids = 1..Len(ids) /\ Len(batch) = Len(ids)
      /\ \A i \in 1..Len(ids) : batch[i] = EventPacket(ids[i])
  BY <1>4, LenProperties
<1>6. ASSUME NEW i \in 1..Len(ids)
      PROVE  EventPacket(ids[i]) \in C!EventPackets
  <2>1. ids[i] \in 1..MaxEventId
    BY <1>2, <1>3, <1>4, LinkBounds DEF MaxEventId
  <2> QED
    BY <2>1 DEF EventPacket, C!EventPackets, C!PacketKinds
<1>7. batch \in C!Responses
  <2>1. Len(ids) \in 0..MaxBatch
    BY <1>2, <1>3, <1>4, LinkBounds DEF MaxBatch
  <2>2. batch \in [1..Len(ids) -> C!EventPackets]
    BY <1>5, <1>6
  <2> QED
    BY <2>1, <2>2 DEF C!Responses
<1>8. Offers(batch, C!AckId)
  <2>1. last - Len(batch) \in 0..C!AckId
    BY <1>2, <1>3, <1>4, <1>5
  <2>2. \A i \in 1..Len(batch) : batch[i] = EventPacket(last - Len(batch) + i)
    BY <1>4, <1>5
  <2> HIDE DEF batch
  <2> QED
    BY <2>1, <2>2 DEF Offers
<1> QED
  BY <1>7, <1>8 DEF ids

(* A step is a step of the client, or one of the server.                   *)
ClientHalf ==
  ClientRuns \/ SendSucceeds \/ CometSucceeds \/ HandshakeFails \/ SendFails \/ CometFails

Arrivals ==
  \/ HandshakeArrives \/ SendArrives \/ CometArrives
  \/ \E a \in abandoned : AbandonedArrives(a)

LEMMA ClientHalfSteps ==
  ASSUME LinkInv, ClientHalf
  PROVE  ClientSteps /\ UNCHANGED serverVars
<1>1. CASE ClientRuns \/ SendSucceeds \/ HandshakeFails \/ SendFails \/ CometFails
  BY <1>1, SameClient
     DEF ClientRuns, SendSucceeds, HandshakeFails, SendFails, CometFails, ClientSteps
<1>2. CASE CometSucceeds
  <2> DEFINE ids == poll.responses[cometOpen].written
             batch == [i \in DOMAIN ids |-> EventPacket(ids[i])]
  <2>1. /\ cometStage = "held" /\ Client!CometSuccess(batch)
        /\ UNCHANGED serverVars
    BY <1>2 DEF CometSucceeds
  <2>2. batch \in C!Responses /\ Offers(batch, C!AckId)
    BY <2>1, BatchOffered
  <2> HIDE DEF batch
  <2> QED
    BY <2>1, <2>2, SameClient DEF ClientSteps
<1> QED
  BY <1>1, <1>2 DEF ClientHalf

LEMMA ArrivalsMove ==
  ASSUME LinkInv, Arrivals
  PROVE  /\ UNCHANGED clientVars /\ ServerMoves(C!AckId)
         /\ abandoned' \subseteq abandoned
         /\ \/ UNCHANGED <<cometStage, cometOpen>>
            \/ cometStage' = "refused"
            \/ /\ cometStage' = "held" /\ cometOpen' = Len(poll'.responses)
               /\ Len(poll'.responses) > Len(poll.responses)
<1>0. C!AckId \in Nat /\ ServerHolds(C!AckId)
  BY AckIds DEF LinkInv
<1>1. ASSUME UNCHANGED serverVars
      PROVE  ServerMoves(C!AckId)
  BY <1>0, <1>1, SameMoves DEF serverVars
<1>2. CASE HandshakeArrives
  <2>1. UNCHANGED serverVars \/ \E c : S!Handshake(c)
    BY <1>2, SameServer DEF HandshakeArrives
  <2> QED
    BY <1>0, <1>1, <1>2, <2>1, HandlerMoves DEF HandshakeArrives
<1>3. CASE SendArrives
  BY <1>1, <1>3, HandledMoves DEF SendArrives, LinkInv, SendSeen
<1>4. CASE CometArrives
  <2>1. cometXhr.kind = "comet" /\ cometXhr.ack \in 0..C!AckId
    BY <1>4 DEF CometArrives, LinkInv, CometStaged, CometSeen
  <2> QED
    BY <1>1, <1>4, <2>1, HandledMoves DEF CometArrives
<1>5. ASSUME NEW a \in abandoned, AbandonedArrives(a)
      PROVE  /\ UNCHANGED clientVars /\ ServerMoves(C!AckId)
             /\ abandoned' \subseteq abandoned /\ UNCHANGED <<cometStage, cometOpen>>
  BY <1>5, HandledMoves DEF AbandonedArrives, LinkInv, AbandonedSeen
<1> QED
  BY <1>2, <1>3, <1>4, <1>5 DEF Arrivals

LEMMA ServerRunsMove ==
  ASSUME LinkInv, ServerRuns \/ HandlerEnds
  PROVE  /\ UNCHANGED clientVars /\ ServerMoves(C!AckId)
         /\ UNCHANGED <<cometStage, cometOpen, abandoned>>
<1>1. UNCHANGED <<clientVars, cometStage, cometOpen, abandoned>>
  BY DEF ServerRuns, HandlerEnds, SendHandled, linkVars
<1>2. ServerHolds(C!AckId) /\ C!AckId \in Nat
  BY AckIds DEF LinkInv
<1>3. \/ S!Application \/ S!Timers
      \/ S!Deliver \/ S!SendAnswered \/ \E next : S!ReceiveEnds(next)
  BY SameServer DEF ServerRuns, HandlerEnds
<1> QED
  BY <1>1, <1>2, <1>3, ApplicationMoves, TimersMove, HandlerMoves

LEMMA LinkByServerHalf ==
  ASSUME LinkInv, ServerRuns \/ HandlerEnds \/ Arrivals
  PROVE  LinkInv'
<1>1. /\ UNCHANGED clientVars /\ ServerMoves(C!AckId)
      /\ abandoned' \subseteq abandoned
      /\ \/ UNCHANGED <<cometStage, cometOpen>>
         \/ cometStage' = "refused"
         \/ /\ cometStage' = "held" /\ cometOpen' = Len(poll'.responses)
            /\ Len(poll'.responses) > Len(poll.responses)
  BY ArrivalsMove, ServerRunsMove
<1>2. /\ C!AckId' = C!AckId
      /\ Len(poll.responses) \in Nat /\ Len(poll'.responses) \in Nat
      /\ Len(poll.responses) =< Len(poll'.responses)
  BY <1>1, LinkByServer
<1>3. AbandonedSeen'
  BY <1>1, <1>2 DEF LinkInv, AbandonedSeen
<1>4. CometStaged'
  BY <1>1, <1>2 DEF LinkInv, CometStaged, clientVars
<1> QED
  BY <1>1, <1>3, <1>4, LinkByServer DEF LinkInv

LEMMA LinkByClientHalf ==
  ASSUME LinkInv, ClientHalf
  PROVE  LinkInv'
<1>1. ClientSteps /\ UNCHANGED serverVars
  BY ClientHalfSteps
<1>2. AbandonedSeen'
  <2>1. \A a \in abandoned' : a \in abandoned \/ a.req.ack \in 0..C!AckId
    <3>1. CASE SendFails
      <4>1. sendXhr.kind = "send"
        BY <3>1 DEF SendFails, Client!WriteFailure, Client!SendAnswered
      <4> QED
        BY <3>1, <4>1 DEF SendFails, Abandoned, LinkInv, SendSeen
    <3>2. CASE CometFails
      <4>1. cometXhr.kind = "comet"
        BY <3>2 DEF CometFails, Client!CometFailure, Client!CometAnswered
      <4> QED
        BY <3>2, <4>1 DEF CometFails, Abandoned, LinkInv, CometSeen
    <3>3. CASE ClientRuns \/ SendSucceeds \/ CometSucceeds \/ HandshakeFails
      BY <3>3 DEF ClientRuns, SendSucceeds, CometSucceeds, HandshakeFails
    <3> QED
      BY <3>1, <3>2, <3>3 DEF ClientHalf
  <2> QED
    BY <1>1, <2>1, LinkByClient DEF LinkInv, AbandonedSeen
<1>3. CometStaged'
  <2>1. CASE ClientRuns
    <3>1. /\ C!Application \/ C!Timers \/ C!Continue
          /\ UNCHANGED <<poll, cometOpen>>
          /\ cometStage' = Stage(cometXhr, cometXhr', cometStage)
      BY <2>1, SameClient DEF ClientRuns, serverVars
    <3>2. CometAsks
      BY <3>1, ClientRunsAsk DEF LinkInv
    <3> QED
      BY <3>1, <3>2 DEF CometAsks, CometStaged, Stage, Client!Idle, LinkInv
  <2>2. CASE CometSucceeds \/ CometFails
    BY <2>2 DEF CometSucceeds, CometFails, CometStaged
  <2>3. CASE SendSucceeds \/ HandshakeFails \/ SendFails
    <3>1. UNCHANGED <<cometXhr, cometStage, cometOpen, poll>>
      BY <2>3 DEF SendSucceeds, HandshakeFails, SendFails, serverVars,
                  Client!HandshakeSuccess, Client!WriteSuccess,
                  Client!HandshakeFailure, Client!WriteFailure
    <3> QED
      BY <3>1 DEF CometStaged, LinkInv
  <2> QED
    BY <2>1, <2>2, <2>3 DEF ClientHalf
<1> QED
  BY <1>1, <1>2, <1>3, LinkByClient DEF LinkInv

LEMMA Halves ==
  ASSUME Next
  PROVE  ClientHalf \/ ServerRuns \/ HandlerEnds \/ Arrivals
BY DEF Next, ClientHalf, Arrivals

LEMMA LinkStep == LinkInv /\ [Next]_vars => LinkInv'
<1>1. ASSUME LinkInv, UNCHANGED vars
      PROVE  LinkInv'
  <2>1. UNCHANGED clientVars /\ UNCHANGED <<cometStage, cometOpen, abandoned>>
        /\ UNCHANGED <<poll, outgoing, lastOutId, serverAcked, serverNulls>>
    BY <1>1 DEF vars, serverVars, linkVars
  <2>2. ServerMoves(C!AckId)
    BY <1>1, <2>1, AckIds, SameMoves DEF LinkInv
  <2>3. AbandonedSeen' /\ CometStaged'
    BY <1>1, <2>1, <2>2, LinkByServer DEF LinkInv, AbandonedSeen, CometStaged, clientVars
  <2> QED
    BY <1>1, <2>1, <2>2, <2>3, LinkByServer DEF LinkInv
<1> QED
  BY <1>1, Halves, LinkByClientHalf, LinkByServerHalf

LEMMA LinkInit == Init => LinkInv
<1> SUFFICES ASSUME Init
             PROVE  LinkInv
  OBVIOUS
<1>1. C!Init /\ S!Init
  BY SameClient, SameServer DEF Init
<1>2. C!ClientInv /\ C!LoopInv
  BY <1>1, Bounds, C!ClientInit, C!LoopInit
<1>3. S!BufferInv /\ S!ResponsesInv /\ lastOutId = 0 /\ serverAcked = 0
  BY <1>1, Bounds, S!InitBuffer, S!InitResponses DEF S!Init
<1>4. /\ lastEventId = C!NoEvent /\ response = <<>> /\ delivered = <<>>
      /\ disconnects = <<>> /\ sendXhr = C!Idle /\ cometXhr = C!Idle
  BY <1>1 DEF C!Init
<1>5. C!AckId = 0
  BY <1>4 DEF C!AckId
<1>6. ClientSide
  <2>1. Offers(<<>>, 0)
    <3>1. lastOutId \in Nat /\ 0 \in Nat
      BY <1>3
    <3> QED
      BY <3>1, NothingOffered
  <2>2. <<>> \in Seq(Ends) /\ Len(<<>>) = 0
    BY EmptySeq
  <2> QED
    BY <1>2, <1>3, <1>4, <1>5, <2>1, <2>2, LinkBounds DEF ClientSide
<1> QED
  BY <1>3, <1>4, <1>5, <1>6, LinkBounds
     DEF LinkInv, ServerHolds, SendSeen, CometSeen, AbandonedSeen, CometStaged,
         C!Idle, Init

(* DroppedWasSeen, for any number of writes, packets, comets and faults:   *)
(* the server drops no packet that its client has not got past, and the    *)
(* client never meets a hole (receiveAck, dispatch.comet, _cometSuccess).  *)
THEOREM DroppedSeen == Spec => []DroppedWasSeen
<1>1. LinkInv => DroppedWasSeen
  <2> SUFFICES ASSUME LinkInv
               PROVE  DroppedWasSeen
    OBVIOUS
  <2>1. ASSUME NEW i \in 1..lastOutId
        PROVE  (\E j \in DOMAIN outgoing : outgoing[j] = i) \/ i =< lastEventId
    <3>1. /\ S!EndsAt(outgoing, lastOutId) /\ outgoing \in Seq(Int)
          /\ lastOutId \in Nat /\ serverAcked \in Nat
          /\ lastOutId - Len(outgoing) =< serverAcked /\ serverAcked =< C!AckId
      BY DEF LinkInv, ServerHolds, S!BufferInv, S!EndsAt
    <3>2. Len(outgoing) \in Nat /\ DOMAIN outgoing = 1..Len(outgoing)
          /\ \A j \in 1..Len(outgoing) : outgoing[j] = lastOutId - Len(outgoing) + j
      <4>1. lastOutId \in Int
        BY <3>1
      <4> QED
        BY <3>1, <4>1, Bounds, LenProperties, S!PlacesOfEndsAt
    <3>3. CASE i > lastOutId - Len(outgoing)
      <4> DEFINE j == i - (lastOutId - Len(outgoing))
      <4>1. j \in 1..Len(outgoing) /\ lastOutId - Len(outgoing) + j = i
        BY <3>1, <3>2, <3>3
      <4> HIDE DEF j
      <4>2. outgoing[j] = i /\ j \in DOMAIN outgoing
        BY <3>2, <4>1
      <4> QED
        BY <4>2
    <3>4. CASE i =< lastOutId - Len(outgoing)
      <4>1. C!AckId \in Nat /\ i =< C!AckId
        BY <3>1, <3>2, <3>4, AckIds DEF LinkInv
      <4> QED
        BY <4>1, AckIds DEF LinkInv
    <3> QED
      BY <3>1, <3>2, <3>3, <3>4
  <2>2. \A i \in DOMAIN disconnects : disconnects[i] # "protocol error"
    <3>1. disconnects \in Seq(Ends)
      BY DEF LinkInv, ClientSide
    <3>2. \A i \in DOMAIN disconnects : disconnects[i] \in Ends
      BY <3>1, LenProperties, ElementOfSeq
    <3> QED
      BY <3>2 DEF Ends
  <2> QED
    BY <2>1, <2>2 DEF DroppedWasSeen
<1> QED
  BY <1>1, LinkInit, LinkStep, PTL DEF Spec

(***************************************************************************)
(* The refinement: the packets that the server makes are what the          *)
(* application of the server sends, and a step of the client that delivers *)
(* one reads the next of them.                                             *)
(***************************************************************************)
Packets == (1..MaxOut) \X {"data", "null"}

SentOf(ids, last) ==
  [i \in 1..last |-> <<i, IF i \in ids THEN "null" ELSE "data">>]

LEMMA SentOfIsSeq ==
  ASSUME NEW ids, NEW last \in Nat, last =< MaxOut
  PROVE  SentOf(ids, last) \in Seq(Packets) /\ Len(SentOf(ids, last)) = last
<1>1. ASSUME NEW i \in 1..last
      PROVE  <<i, IF i \in ids THEN "null" ELSE "data">> \in Packets
  BY LinkBounds DEF Packets
<1>2. SentOf(ids, last) \in [1..last -> Packets]
  BY <1>1 DEF SentOf
<1> HIDE DEF Packets
<1> QED
  BY <1>2

(* A sequence that is longer by one.                                       *)
LEMMA IsAppend ==
  ASSUME NEW V, NEW s \in Seq(V), NEW t \in Seq(V), NEW v \in V,
         Len(t) = Len(s) + 1, \A i \in 1..Len(s) : t[i] = s[i], t[Len(s) + 1] = v
  PROVE  t = Append(s, v)
<1> DEFINE u == Append(s, v)
<1>1. /\ u \in Seq(V) /\ Len(u) = Len(s) + 1 /\ Len(s) \in Nat
      /\ \A i \in 1..Len(s) : u[i] = s[i]
      /\ u[Len(s) + 1] = v
  BY AppendProperties, LenProperties
<1> HIDE DEF u
<1>2. \A i \in 1..Len(t) : t[i] = u[i]
  BY <1>1
<1>3. t = u
  BY <1>1, <1>2, SeqEqual
<1> QED
  BY <1>3 DEF u

LEMMA SentGrows ==
  ASSUME NEW ids, NEW more, NEW last \in Nat, NEW next \in Nat,
         next = last + 1, next =< MaxOut,
         \A i \in 1..last : i \in more <=> i \in ids
  PROVE  /\ SentOf(more, next) = Append(SentOf(ids, last), SentOf(more, next)[next])
         /\ SentOf(more, next)[next] \in Packets
<1> DEFINE s == SentOf(ids, last)
           t == SentOf(more, next)
<1>1. last =< MaxOut /\ next \in 1..next
  BY LinkBounds
<1>2. s \in Seq(Packets) /\ Len(s) = last /\ t \in Seq(Packets) /\ Len(t) = next
  BY <1>1, SentOfIsSeq
<1>3. t[next] \in Packets
  <2> HIDE DEF t
  <2> QED
    BY <1>1, <1>2, ElementOfSeq
<1>4. \A i \in 1..last : t[i] = s[i]
  BY DEF SentOf
<1>5. t = Append(s, t[next])
  <2> HIDE DEF s, t
  <2> QED
    BY <1>2, <1>3, <1>4, IsAppend
<1> QED
  BY <1>3, <1>5

LEMMA PromiseNow ==
  ASSUME ClientSide
  PROVE  /\ [i \in 1..lastOutId |-> Packet(i)] = SentOf(serverNulls, lastOutId)
         /\ [i \in DOMAIN delivered |-> Packet(delivered[i])]
              = SentOf(serverNulls, Len(delivered))
         /\ Len(delivered) \in Nat /\ Len(delivered) =< lastOutId
         /\ lastOutId \in Nat /\ lastOutId =< MaxOut
         /\ delivered = <<>> <=> Len(delivered) = 0
<1>1. /\ delivered \in Seq(1..MaxEventId)
      /\ \A i \in 1..Len(delivered) : delivered[i] = i
      /\ Len(delivered) =< lastOutId /\ lastOutId \in Nat /\ lastOutId =< MaxOut
  BY DEF ClientSide, C!ClientInv, C!TypeOK
<1>2. Len(delivered) \in Nat /\ DOMAIN delivered = 1..Len(delivered)
      /\ delivered = <<>> <=> Len(delivered) = 0
  BY <1>1, LenProperties, EmptySeq
<1>3. [i \in DOMAIN delivered |-> Packet(delivered[i])]
        = [i \in 1..Len(delivered) |-> Packet(i)]
  BY <1>1, <1>2
<1> QED
  BY <1>1, <1>2, <1>3 DEF SentOf, Packet, EventPacket

LEMMA PromiseNext ==
  ASSUME ClientSide'
  PROVE  /\ [i \in 1..lastOutId |-> Packet(i)]' = SentOf(serverNulls', lastOutId')
         /\ [i \in DOMAIN delivered |-> Packet(delivered[i])]'
              = SentOf(serverNulls', Len(delivered'))
<1>1. /\ delivered' \in Seq(1..MaxEventId)
      /\ \A i \in 1..Len(delivered') : delivered'[i] = i
  BY DEF ClientSide, C!ClientInv, C!TypeOK
<1>2. DOMAIN delivered' = 1..Len(delivered')
  BY <1>1, LenProperties
<1>3. [i \in DOMAIN delivered |-> Packet(delivered[i])]'
        = [i \in 1..Len(delivered') |-> Packet(i)']
  BY <1>1, <1>2 DEF Packet, EventPacket
<1> QED
  BY <1>3 DEF SentOf, Packet, EventPacket

LEMMA ServerSends ==
  ASSUME LinkInv, LinkInv', UNCHANGED clientVars, ServerMoves(C!AckId)
  PROVE  [Promise!Next]_(Promise!vars)
<1> DEFINE ids == serverNulls
           more == serverNulls'
           n == Len(delivered)
<1>1. /\ ClientSide /\ ClientSide' /\ delivered' = delivered
      /\ lastOutId' \in {lastOutId, lastOutId + 1} /\ lastOutId' =< MaxOut
      /\ \A i \in 1..lastOutId : i \in more <=> i \in ids
  BY DEF LinkInv, ServerMoves, clientVars
<1>2. n \in Nat /\ n =< lastOutId /\ lastOutId \in Nat
  BY <1>1, PromiseNow
<1>3. SentOf(more, n) = SentOf(ids, n)
  BY <1>1, <1>2 DEF SentOf
<1>4. CASE lastOutId' = lastOutId
  <2>1. SentOf(more, lastOutId') = SentOf(ids, lastOutId)
    BY <1>1, <1>4 DEF SentOf
  <2> QED
    BY <1>1, <1>3, <2>1, PromiseNow, PromiseNext DEF Promise!vars
<1>5. CASE lastOutId' = lastOutId + 1
  <2> DEFINE v == SentOf(more, lastOutId')[lastOutId']
  <2>1. SentOf(more, lastOutId') = Append(SentOf(ids, lastOutId), v) /\ v \in Packets
    <3>1. /\ lastOutId \in Nat /\ lastOutId' \in Nat
          /\ lastOutId' = lastOutId + 1 /\ lastOutId' =< MaxOut
          /\ \A i \in 1..lastOutId : i \in more <=> i \in ids
      BY <1>1, <1>2, <1>5
    <3> HIDE DEF ids, more
    <3> QED
      BY <3>1, SentGrows
  <2> HIDE DEF v
  <2>2. Promise!Send(v)
    BY <1>1, <1>3, <2>1, PromiseNow, PromiseNext DEF Promise!Send
  <2> QED
    BY <2>1, <2>2 DEF Promise!Next, Packets
<1> QED
  BY <1>1, <1>4, <1>5

LEMMA ClientReadsNext ==
  ASSUME LinkInv, LinkInv', ClientSteps, UNCHANGED serverVars
  PROVE  [Promise!Next]_(Promise!vars)
<1> DEFINE ids == serverNulls
           n == Len(delivered)
<1>1. /\ ClientSide /\ ClientSide' /\ ReadsOn
      /\ lastOutId' = lastOutId /\ serverNulls' = serverNulls
  BY ClientReads DEF LinkInv, serverVars
<1>2. n \in Nat /\ n =< lastOutId /\ lastOutId \in Nat /\ lastOutId =< MaxOut
      /\ (delivered = <<>> <=> n = 0)
  BY <1>1, PromiseNow
<1>3. CASE delivered' = delivered
  BY <1>1, <1>3, PromiseNow, PromiseNext DEF Promise!vars
<1>4. CASE delivered' = Append(delivered, n + 1) /\ n + 1 \in 1..lastOutId
  <2>1. Len(delivered') = n + 1 /\ delivered' # <<>>
    <3>1. delivered \in Seq(Int)
      <4>1. delivered \in Seq(1..MaxEventId)
        BY <1>1 DEF ClientSide, C!ClientInv, C!TypeOK
      <4>2. 1..MaxEventId \subseteq Int
        BY Bounds
      <4> QED
        BY <4>1, <4>2, SeqMonotonic
    <3> DEFINE next == n + 1
    <3>2. next \in Int
      BY <1>2
    <3> HIDE DEF next
    <3>3. Len(Append(delivered, next)) = n + 1 /\ Append(delivered, next) # <<>>
      BY <3>1, <3>2, AppendProperties
    <3> QED
      BY <1>4, <3>3 DEF next
  <2>2. SentOf(ids, n + 1) = Append(SentOf(ids, n), SentOf(ids, n + 1)[n + 1])
    <3> DEFINE next == n + 1
    <3>1. n \in Nat /\ next \in Nat /\ next = n + 1 /\ next =< MaxOut
      BY <1>2, <1>4, LinkBounds
    <3> HIDE DEF next, n
    <3>2. SentOf(ids, next) = Append(SentOf(ids, n), SentOf(ids, next)[next])
      BY <3>1, SentGrows
    <3> QED
      BY <3>2 DEF next
  <2>3. SentOf(ids, n + 1)[n + 1] = SentOf(ids, lastOutId)[n + 1]
    BY <1>2, <1>4 DEF SentOf
  <2>4. /\ n + 1 \in DOMAIN SentOf(ids, lastOutId)
        /\ Len(SentOf(ids, n)) = n
    <3>1. n =< MaxOut
      BY <1>2, LinkBounds
    <3> QED
      BY <1>2, <1>4, <3>1, SentOfIsSeq DEF SentOf
  <2>5. CASE n = 0
    <3>1. SentOf(ids, n + 1) = <<SentOf(ids, lastOutId)[1]>>
      BY <1>4, <2>5 DEF SentOf
    <3>2. Promise!ReadFirst(1)
      BY <1>1, <1>2, <2>1, <2>5, <3>1, PromiseNow, PromiseNext DEF Promise!ReadFirst
    <3>3. 1 \in DOMAIN [i \in 1..lastOutId |-> Packet(i)]
      BY <1>4, <2>5
    <3> QED
      BY <3>2, <3>3 DEF Promise!Next
  <2>6. CASE n # 0
    <3>1. Promise!ReadNext
      BY <1>1, <1>2, <2>1, <2>2, <2>3, <2>4, <2>6, PromiseNow, PromiseNext
         DEF Promise!ReadNext
    <3> QED
      BY <3>1 DEF Promise!Next
  <2> QED
    BY <2>5, <2>6
<1> QED
  BY <1>1, <1>3, <1>4 DEF ReadsOn

(* ReadsFromTheFirst, for any number of writes, packets, comets and faults *)
(* and whatever the network loses, repeats or delays: NodeLink implements  *)
(* OrderedStream, and the run its client reads begins with the first       *)
(* packet (server.js, client.js).                                          *)
THEOREM ReadsInOrder == Spec => ReadsFromTheFirst
<1>1. Init => Promise!Init
  <2> SUFFICES ASSUME Init
               PROVE  Promise!Init
    OBVIOUS
  <2>1. lastOutId = 0 /\ delivered = <<>>
    BY DEF Init, Client!Init, Server!Init
  <2>2. /\ [i \in 1..lastOutId |-> Packet(i)] = <<>>
        /\ [i \in DOMAIN delivered |-> Packet(delivered[i])] = <<>>
    BY <2>1
  <2> QED
    BY <2>1, <2>2 DEF Promise!Init
<1>2. LinkInv /\ LinkInv' /\ [Next]_vars => [Promise!Next]_(Promise!vars)
  <2> SUFFICES ASSUME LinkInv, LinkInv', [Next]_vars
               PROVE  [Promise!Next]_(Promise!vars)
    OBVIOUS
  <2>1. CASE ClientHalf
    BY <2>1, ClientHalfSteps, ClientReadsNext
  <2>2. CASE ServerRuns \/ HandlerEnds \/ Arrivals
    BY <2>2, ServerRunsMove, ArrivalsMove, ServerSends
  <2>3. CASE UNCHANGED vars
    <3>1. UNCHANGED clientVars
          /\ UNCHANGED <<poll, outgoing, lastOutId, serverAcked, serverNulls>>
      BY <2>3 DEF vars, serverVars
    <3>2. ServerMoves(C!AckId)
      BY <3>1, AckIds, SameMoves DEF LinkInv
    <3> QED
      BY <3>1, <3>2, ServerSends
  <2> QED
    BY <2>1, <2>2, <2>3, Halves
<1> QED
  BY <1>1, <1>2, LinkInit, LinkStep, PTL DEF Spec, ReadsFromTheFirst, Promise!Spec

(***************************************************************************)
(* The way of the writes.  What the server has read, or keeps for later,   *)
(* under an id is the packet of that id, or for a null the one before it;  *)
(* every data packet but the one in flight has been read, and that one too *)
(* once its request is answered.                                           *)
(***************************************************************************)
Content(id, x) ==
  \E p \in C!SentPackets :
    p.id = id /\ x >= 1 /\ x = IF p.data = <<>> THEN id - 1 ELSE id

ReadInv ==
  /\ lastInId \in Nat /\ received \in Seq(Nat) /\ Len(received) = lastInId
  /\ \A i \in 1..lastInId : Content(i, received[i])
  /\ \A x \in DOMAIN incoming :
       x \in Nat /\ x > lastInId /\ Content(x, incoming[x])

IsRead(r) ==
  \A p \in C!PacketsOf(r) : p.data # <<>> => p.id =< lastInId

IsKept(r) ==
  \A p \in C!PacketsOf(r) :
    p.data # <<>> => p.id =< lastInId \/ p.id \in DOMAIN incoming

ArriveInv ==
  /\ C!Owed =< lastInId
  /\ \A a \in abandoned : a.req.kind = "send" => a.req.packets \in requests
  /\ sendStage = "handled" =>
       handling # "none" /\ (sendXhr.kind = "send" => IsKept(sendXhr.packets))
  /\ (sendStage = "answered" /\ sendXhr.kind = "send") => IsRead(sendXhr.packets)

WriteInv ==
  /\ LinkInv
  /\ C!RetryInv /\ C!ChainInv /\ C!FlightCarried
  /\ ReadInv /\ ArriveInv

LEMMA SentIds ==
  ASSUME LinkInv, NEW p \in C!SentPackets
  PROVE  p.id \in Nat /\ p.id >= 1 /\ p.data \in Seq(1..MaxWrites)
<1>1. C!WritingOK
  BY Bounds, C!TypeParts DEF LinkInv, ClientSide, C!ClientInv
<1>2. p \in C!Packet
  BY <1>1, Bounds, C!SentTyped
<1> QED
  BY <1>2 DEF C!Packet

LEMMA RequestShape ==
  ASSUME LinkInv, C!ChainInv, NEW r \in requests
  PROVE  /\ r \in Seq(C!Packet) /\ DOMAIN r = 1..Len(r)
         /\ Len(r) = 1 \/ C!DataThenNull(r)
         /\ \A i \in DOMAIN r : r[i] \in C!SentPackets
<1>1. r \in Seq(C!Packet)
  BY DEF LinkInv, ClientSide, C!ClientInv, C!TypeOK
<1>2. DOMAIN r = 1..Len(r)
  BY <1>1, LenProperties
<1>3. \A i \in DOMAIN r : r[i] \in C!SentPackets
  BY DEF C!SentPackets, C!PacketsOf
<1> QED
  BY <1>1, <1>2, <1>3 DEF C!ChainInv

LEMMA MaxOfOne ==
  ASSUME NEW k \in Int
  PROVE  S!Max({k}) = k
BY DEF S!Max

DataUpTo(b, i) == {j \in 1..i : b[j].kind = "data"}

LEMMA ContentOfOne ==
  ASSUME NEW b, NEW i, NEW k \in Int, DataUpTo(b, i) = {k}
  PROVE  S!PacketContent(b, i) = b[k].id
<1>1. S!PacketContent(b, i) =
        IF DataUpTo(b, i) = {} THEN S!None ELSE b[S!Max(DataUpTo(b, i))].id
  BY DEF S!PacketContent, DataUpTo
<1>2. DataUpTo(b, i) # {} /\ S!Max(DataUpTo(b, i)) = k
  BY MaxOfOne
<1> QED
  BY <1>1, <1>2

(* What dispatch.send takes a packet of a request for.                     *)
LEMMA RequestContent ==
  ASSUME LinkInv, C!ChainInv, NEW r \in requests, NEW b,
         b = [i \in DOMAIN r |-> NodePacket(r[i])]
  PROVE  /\ S!Known(b) = b /\ DOMAIN b = DOMAIN r
         /\ \A i \in DOMAIN b :
              /\ b[i].id = r[i].id /\ b[i].id \in Nat
              /\ r[i].data # <<>> => S!PacketContent(b, i) = r[i].id
              /\ S!PacketContent(b, i) = 0 \/ Content(b[i].id, S!PacketContent(b, i))
<1>1. /\ DOMAIN r = 1..Len(r)
      /\ Len(r) = 1 \/ C!DataThenNull(r)
      /\ \A i \in DOMAIN r : r[i] \in C!SentPackets
  BY RequestShape
<1>2. DOMAIN b = DOMAIN r
  OBVIOUS
<1>3. ASSUME NEW i \in DOMAIN r
      PROVE  /\ b[i].id = r[i].id
             /\ b[i].kind = IF r[i].data = <<>> THEN "null" ELSE "data"
             /\ r[i].id \in Nat /\ r[i].id >= 1
  BY <1>1, <1>3, SentIds DEF NodePacket
<1>4. S!Known(b) = b
  BY <1>2, <1>3 DEF S!Known
<1>5. 1 \in DOMAIN r
  BY <1>1 DEF C!DataThenNull
<1>6. ASSUME r[1].data # <<>>
      PROVE  S!PacketContent(b, 1) = r[1].id
  <2>1. DataUpTo(b, 1) = {1}
    BY <1>3, <1>5, <1>6 DEF DataUpTo
  <2> QED
    BY <1>3, <1>5, <2>1, ContentOfOne
<1>7. ASSUME r[1].data = <<>>
      PROVE  S!PacketContent(b, 1) = 0
  <2>1. {j \in 1..1 : b[j].kind = "data"} = {}
    BY <1>3, <1>5, <1>7
  <2> QED
    BY <2>1 DEF S!PacketContent, S!None
<1>8. ASSUME C!DataThenNull(r)
      PROVE  S!PacketContent(b, 2) = r[2].id - 1 /\ 2 \in DOMAIN r /\ r[2].data = <<>>
             /\ r[2].id - 1 >= 1
  <2>1. 2 \in DOMAIN r /\ r[1].data # <<>> /\ r[2].data = <<>> /\ r[2].id = r[1].id + 1
    BY <1>1, <1>8 DEF C!DataThenNull
  <2>2. DataUpTo(b, 2) = {1}
    BY <1>3, <1>5, <2>1 DEF DataUpTo
  <2>3. S!PacketContent(b, 2) = r[1].id
    <3>1. S!PacketContent(b, 2) = b[1].id
      BY <2>2, ContentOfOne
    <3> QED
      BY <1>3, <1>5, <3>1
  <2>4. r[1].id \in Nat /\ r[1].id >= 1
    BY <1>3, <1>5
  <2> QED
    BY <2>1, <2>3, <2>4
<1>9. ASSUME NEW i \in DOMAIN r
      PROVE  i = 1 \/ (i = 2 /\ C!DataThenNull(r))
  BY <1>1, <1>9 DEF C!DataThenNull
<1>10. ASSUME NEW i \in DOMAIN r
       PROVE  /\ r[i].data # <<>> => S!PacketContent(b, i) = r[i].id
              /\ S!PacketContent(b, i) = 0 \/ Content(b[i].id, S!PacketContent(b, i))
  <2>1. CASE r[i].data # <<>>
    <3>1. S!PacketContent(b, i) = r[i].id
      BY <1>6, <1>8, <1>9, <2>1
    <3> QED
      BY <1>1, <1>3, <2>1, <3>1 DEF Content
  <2>2. CASE r[i].data = <<>> /\ i = 1
    BY <1>7, <2>2
  <2>3. CASE r[i].data = <<>> /\ i = 2 /\ C!DataThenNull(r)
    <3>1. S!PacketContent(b, i) = r[i].id - 1 /\ r[i].id - 1 >= 1
      BY <1>8, <2>3
    <3> QED
      BY <1>1, <1>3, <2>3, <3>1 DEF Content
  <2> QED
    BY <1>9, <2>1, <2>2, <2>3
<1> QED
  BY <1>2, <1>3, <1>4, <1>10

LEMMA StoredContent ==
  ASSUME ReadInv, NEW b,
         \A i \in DOMAIN b :
           /\ b[i].id \in Nat
           /\ S!PacketContent(b, i) = 0 \/ Content(b[i].id, S!PacketContent(b, i))
  PROVE  /\ \A x \in DOMAIN S!Stored(b) :
              x \in Nat /\ x > lastInId /\ Content(x, S!Stored(b)[x])
         /\ \A i \in DOMAIN b :
              b[i].id > lastInId /\ S!PacketContent(b, i) # 0
                => b[i].id \in DOMAIN S!Stored(b)
<1> DEFINE new == {i \in DOMAIN b : b[i].id > lastInId}
           ids == {b[i].id : i \in new}
           set == {i \in new : S!PacketContent(b, i) # 0}
           dom == (DOMAIN incoming \ ids) \cup {b[i].id : i \in set}
           put(x) == IF x \in ids
                       THEN S!PacketContent(b, CHOOSE i \in set : b[i].id = x)
                       ELSE incoming[x]
<1>1. S!Stored(b) = [x \in dom |-> put(x)]
  BY DEF S!Stored, S!None
<1>2. DOMAIN S!Stored(b) = dom /\ \A x \in dom : S!Stored(b)[x] = put(x)
  BY <1>1
<1>3. ASSUME NEW x \in dom
      PROVE  x \in Nat /\ x > lastInId /\ Content(x, put(x))
  <2>1. CASE x \in ids
    <3>1. \E i \in set : b[i].id = x
      BY <1>3, <2>1
    <3> DEFINE k == CHOOSE i \in set : b[i].id = x
    <3>2. k \in set /\ b[k].id = x
      BY <3>1
    <3> HIDE DEF k
    <3>3. Content(b[k].id, S!PacketContent(b, k)) /\ b[k].id \in Nat /\ b[k].id > lastInId
      BY <3>2
    <3>4. put(x) = S!PacketContent(b, k)
      BY <2>1 DEF k
    <3> QED
      BY <3>2, <3>3, <3>4
  <2>2. CASE x \notin ids
    <3>1. x \in DOMAIN incoming /\ put(x) = incoming[x]
      BY <1>3, <2>2
    <3> QED
      BY <3>1 DEF ReadInv
  <2> QED
    BY <2>1, <2>2
<1>4. \A i \in DOMAIN b : b[i].id > lastInId /\ S!PacketContent(b, i) # 0 => b[i].id \in dom
  OBVIOUS
<1> HIDE DEF dom, put
<1> QED
  BY <1>2, <1>3, <1>4

LEMMA ReadStays ==
  ASSUME ReadInv, requests \subseteq requests',
         UNCHANGED <<incoming, lastInId, received>>
  PROVE  ReadInv'
<1>1. C!SentPackets \subseteq C!SentPackets'
  BY DEF C!SentPackets, C!PacketsOf
<1>2. ASSUME NEW id, NEW x, Content(id, x)
      PROVE  Content(id, x)'
  BY <1>1, <1>2 DEF Content
<1> QED
  BY <1>2 DEF ReadInv

LEMMA ContentIsNat ==
  ASSUME NEW id \in Nat, NEW x, Content(id, x)
  PROVE  x \in Nat
BY DEF Content

LEMMA ReadByDeliver ==
  ASSUME LinkInv, ReadInv, S!Deliver, UNCHANGED requests
  PROVE  ReadInv' /\ lastInId' = lastInId + 1
         /\ \A r : C!PacketsOf(r) \subseteq C!SentPackets =>
              (IsRead(r) => IsRead(r)') /\ (IsKept(r) => IsKept(r)')
<1> DEFINE n == lastInId + 1
<1>1. /\ n \in DOMAIN incoming /\ received' = Append(received, incoming[n])
      /\ incoming' = [i \in DOMAIN incoming \ {n} |-> incoming[i]]
      /\ lastInId' = n
  BY DEF S!Deliver
<1>2. /\ lastInId \in Nat /\ received \in Seq(Nat) /\ Len(received) = lastInId
      /\ \A i \in 1..lastInId : Content(i, received[i])
      /\ \A x \in DOMAIN incoming : x \in Nat /\ x > lastInId /\ Content(x, incoming[x])
  BY DEF ReadInv
<1>3. n \in Nat /\ incoming[n] \in Nat /\ Content(n, incoming[n])
  BY <1>1, <1>2, ContentIsNat
<1>4. /\ DOMAIN incoming' = DOMAIN incoming \ {n}
      /\ \A x \in DOMAIN incoming \ {n} : incoming'[x] = incoming[x]
  BY <1>1
<1> DEFINE w == incoming[n]
<1> HIDE DEF w
<1>5. /\ received' \in Seq(Nat) /\ Len(received') = n
      /\ \A i \in 1..lastInId : received'[i] = received[i]
      /\ received'[n] = w
  <2>1. received' = Append(received, w) /\ w \in Nat
    BY <1>1, <1>3 DEF w
  <2> QED
    BY <1>2, <2>1, AppendProperties
<1>6. ASSUME NEW id, NEW x, Content(id, x)
      PROVE  Content(id, x)'
  BY <1>6 DEF Content, C!SentPackets, C!PacketsOf
<1>7. ASSUME NEW i \in 1..n
      PROVE  Content(i, received'[i])
  <2>1. i \in 1..lastInId \/ i = n
    BY <1>2
  <2> QED
    BY <1>2, <1>3, <1>5, <2>1 DEF w
<1>8. ASSUME NEW x \in DOMAIN incoming'
      PROVE  x \in Nat /\ x > n /\ Content(x, incoming'[x])
  <2>1. x \in DOMAIN incoming /\ x # n /\ incoming'[x] = incoming[x]
    BY <1>4, <1>8
  <2>2. x \in Nat /\ x > lastInId /\ Content(x, incoming[x])
    BY <1>2, <2>1
  <2> QED
    BY <1>2, <2>1, <2>2
<1>9. ReadInv'
  BY <1>1, <1>3, <1>5, <1>6, <1>7, <1>8 DEF ReadInv
<1>10. ASSUME NEW r, C!PacketsOf(r) \subseteq C!SentPackets, IsKept(r)
       PROVE  IsKept(r)'
  <2>1. ASSUME NEW p \in C!PacketsOf(r), p.data # <<>>
        PROVE  p.id =< lastInId' \/ p.id \in DOMAIN incoming'
    <3>1. p.id \in Nat
      BY <1>10, <2>1, SentIds
    <3>2. p.id =< lastInId \/ p.id \in DOMAIN incoming
      BY <1>10, <2>1 DEF IsKept
    <3> QED
      BY <1>1, <1>2, <1>4, <3>1, <3>2
  <2> QED
    BY <2>1 DEF IsKept, C!PacketsOf
<1>11. ASSUME NEW r, C!PacketsOf(r) \subseteq C!SentPackets, IsRead(r)
       PROVE  IsRead(r)'
  <2>1. ASSUME NEW p \in C!PacketsOf(r), p.data # <<>>
        PROVE  p.id =< lastInId'
    <3>1. p.id \in Nat /\ p.id =< lastInId
      BY <1>11, <2>1, SentIds DEF IsRead
    <3> QED
      BY <1>1, <1>2, <3>1
  <2> QED
    BY <2>1 DEF IsRead, C!PacketsOf
<1> QED
  BY <1>1, <1>9, <1>10, <1>11

(* A /send keeps each data packet it carries, unless it has been read.     *)
LEMMA ReadBySend ==
  ASSUME LinkInv, C!ChainInv, ReadInv, UNCHANGED requests,
         NEW req, req.kind = "send", req.packets \in requests, ServerHandles(req)
  PROVE  /\ ReadInv' /\ lastInId' = lastInId
         /\ handling = "none" /\ handling' # "none"
         /\ IsKept(req.packets)'
<1> DEFINE r == req.packets
           b == [i \in DOMAIN r |-> NodePacket(r[i])]
<1>1. S!Send(req.ack, b)
  <2>1. Server!Send(req.ack, b)
    BY DEF ServerHandles
  <2> HIDE DEF b
  <2> QED
    BY <2>1, SameServer
<1>2. b = [i \in DOMAIN r |-> NodePacket(r[i])] /\ r \in requests
  OBVIOUS
<1> HIDE DEF b, r
<1>3. /\ S!Known(b) = b /\ DOMAIN b = DOMAIN r
      /\ \A i \in DOMAIN b :
           /\ b[i].id = r[i].id /\ b[i].id \in Nat
           /\ r[i].data # <<>> => S!PacketContent(b, i) = r[i].id
           /\ S!PacketContent(b, i) = 0 \/ Content(b[i].id, S!PacketContent(b, i))
  BY <1>2, RequestContent
<1>4. /\ incoming' = S!Stored(S!Known(b)) /\ handling' = "send"
      /\ UNCHANGED <<lastInId, received>> /\ handling = "none"
  BY <1>1 DEF S!Send, S!Request, S!ReceiveAck, S!Free
<1>5. /\ \A x \in DOMAIN incoming' :
           x \in Nat /\ x > lastInId /\ Content(x, incoming'[x])
      /\ \A i \in DOMAIN b :
           b[i].id > lastInId /\ S!PacketContent(b, i) # 0 => b[i].id \in DOMAIN incoming'
  BY <1>3, <1>4, StoredContent
<1>6. ASSUME NEW id, NEW x, Content(id, x)
      PROVE  Content(id, x)'
  BY <1>6 DEF Content, C!SentPackets, C!PacketsOf
<1>7. ReadInv'
  BY <1>4, <1>5, <1>6 DEF ReadInv
<1>8. ASSUME NEW p \in C!PacketsOf(r), p.data # <<>>
      PROVE  p.id =< lastInId \/ p.id \in DOMAIN incoming'
  <2>1. PICK i \in DOMAIN r : p = r[i]
    BY DEF C!PacketsOf
  <2>2. p \in C!SentPackets
    BY <1>2, <2>1 DEF C!SentPackets, C!PacketsOf
  <2>3. p.id \in Nat /\ p.id >= 1 /\ lastInId \in Nat
    BY <2>2, SentIds DEF ReadInv
  <2>4. S!PacketContent(b, i) = p.id /\ b[i].id = p.id /\ i \in DOMAIN b
    BY <1>3, <1>8, <2>1
  <2> QED
    BY <1>5, <2>3, <2>4
<1>9. \A p \in C!PacketsOf(r) : p.data # <<>> => p.id =< lastInId' \/ p.id \in DOMAIN incoming'
  BY <1>4, <1>8
<1>10. IsKept(r)' <=> \A p \in C!PacketsOf(r') :
          p.data # <<>> => p.id =< lastInId' \/ p.id \in DOMAIN incoming'
  BY DEF IsKept, C!PacketsOf
<1> QED
  BY <1>4, <1>7, <1>9 DEF IsKept, C!PacketsOf, r

LEMMA SameReading ==
  ASSUME ReadInv, UNCHANGED <<requests, incoming, lastInId, received>>
  PROVE  /\ ReadInv'
         /\ \A r : IsRead(r) => IsRead(r)'
         /\ \A r : IsKept(r) => IsKept(r)'
<1>1. ReadInv'
  BY ReadStays
<1> QED
  BY <1>1 DEF IsRead, IsKept, C!PacketsOf

(* The server's handlers and timers give the writes on as they are kept.   *)
LEMMA WritesByServerRuns ==
  ASSUME WriteInv, ServerRuns \/ HandlerEnds
  PROVE  ReadInv' /\ ArriveInv'
<1>1. UNCHANGED clientVars /\ abandoned' = abandoned
  BY DEF ServerRuns, HandlerEnds, SendHandled, linkVars
<1>2. /\ LinkInv /\ C!ChainInv /\ C!FlightCarried /\ ReadInv /\ ArriveInv
      /\ UNCHANGED <<requests, sendXhr>> /\ C!Owed' = C!Owed
  BY <1>1 DEF WriteInv, clientVars, C!Owed, C!FlightData, C!LastData
<1>3. sendXhr.kind = "send" => C!PacketsOf(sendXhr.packets) \subseteq C!SentPackets
  <2>1. ASSUME sendXhr.kind = "send"
        PROVE  sendXhr.packets \in requests
    BY <1>2, <2>1 DEF C!FlightCarried, C!ChainInv, LinkInv, ClientSide, C!ClientInv,
                      C!AnswerDue
  <2> QED
    BY <2>1 DEF C!SentPackets
<1>4. CASE S!Deliver /\ sendStage' = sendStage
  <2>1. ReadInv' /\ lastInId' = lastInId + 1
        /\ \A r : C!PacketsOf(r) \subseteq C!SentPackets =>
              (IsRead(r) => IsRead(r)') /\ (IsKept(r) => IsKept(r)')
    BY <1>2, <1>4, ReadByDeliver
  <2>2. handling' = "receive"
    BY <1>4 DEF S!Deliver
  <2>3. (C!Owed =< lastInId)'
    <3>1. C!Owed \in Int /\ lastInId \in Nat
      BY <1>2 DEF ReadInv, C!Owed, C!ChainInv
    <3> QED
      BY <1>2, <2>1, <3>1 DEF ArriveInv
  <2> QED
    BY <1>1, <1>2, <1>3, <1>4, <2>1, <2>2, <2>3 DEF ArriveInv
<1>5. ASSUME UNCHANGED <<incoming, lastInId, received>>
      PROVE  /\ ReadInv' /\ (C!Owed =< lastInId)'
             /\ \A r : IsRead(r) => IsRead(r)'
             /\ \A r : IsKept(r) => IsKept(r)'
  BY <1>2, <1>5, SameReading DEF ArriveInv
<1>6. CASE /\ sendStage' = sendStage /\ UNCHANGED <<incoming, lastInId, received>>
           /\ handling' = handling \/ handling' = "send"
  BY <1>1, <1>2, <1>5, <1>6 DEF ArriveInv
<1>7. CASE S!SendAnswered /\ SendHandled("answered")
  <2>1. /\ UNCHANGED <<incoming, lastInId, received>> /\ lastInId + 1 \notin DOMAIN incoming
        /\ sendStage' = IF sendStage = "handled" THEN "answered" ELSE sendStage
    BY <1>7 DEF S!SendAnswered, S!reading, SendHandled
  <2>2. ASSUME sendStage = "handled", sendXhr.kind = "send"
        PROVE  IsRead(sendXhr.packets)
    <3> SUFFICES ASSUME NEW p \in C!PacketsOf(sendXhr.packets), p.data # <<>>
                 PROVE  p.id =< lastInId
      BY DEF IsRead
    <3>1. p.id =< lastInId \/ p.id \in DOMAIN incoming
      BY <1>2, <2>2 DEF ArriveInv, IsKept
    <3>2. p \in C!SentPackets /\ p.id \in Nat
      BY <1>2, <1>3, <2>2, SentIds
    <3>3. p.id =< C!LastData /\ C!LastData \in Nat
      BY <1>2, <3>2 DEF C!ChainInv, C!Chain
    <3>4. C!LastData - 1 =< lastInId /\ lastInId \in Nat
      <4>1. C!Owed =< lastInId /\ lastInId \in Nat
        BY <1>2 DEF ArriveInv, ReadInv
      <4> QED
        BY <3>3, <4>1 DEF C!Owed
    <3> QED
      BY <2>1, <3>1, <3>2, <3>3, <3>4
  <2> QED
    BY <1>1, <1>2, <1>5, <2>1, <2>2 DEF ArriveInv
<1>8. CASE S!ReceiveEnds("none") /\ SendHandled("refused")
  <2>1. /\ UNCHANGED <<incoming, lastInId, received>>
        /\ sendStage' = IF sendStage = "handled" THEN "refused" ELSE sendStage
    BY <1>8 DEF S!ReceiveEnds, S!reading, SendHandled
  <2> QED
    BY <1>1, <1>2, <1>5, <2>1 DEF ArriveInv
<1>9. CASE ServerRuns
  <2>1. sendStage' = sendStage
    BY <1>9 DEF ServerRuns, linkVars
  <2>2. \/ S!Deliver
        \/ /\ UNCHANGED <<incoming, lastInId, received>>
           /\ handling' = handling \/ handling' = "send"
    BY <1>9, SameServer
       DEF ServerRuns, S!Application, S!ConnectionSend, S!ConnectionClose, S!reading,
           S!Timers, S!DurationFires, S!IntervalFires, S!TimeoutFires, S!ReceiveEnds
  <2> QED
    BY <1>4, <1>6, <2>1, <2>2
<1>10. CASE HandlerEnds
  BY <1>7, <1>8, <1>10, SameServer DEF HandlerEnds
<1> QED
  BY <1>9, <1>10

(* A request that arrives puts its writes with what is kept.               *)
LEMMA WritesByArrivals ==
  ASSUME WriteInv, Arrivals
  PROVE  ReadInv' /\ ArriveInv'
<1>1. UNCHANGED clientVars /\ abandoned' \subseteq abandoned
  BY DEF Arrivals, HandshakeArrives, SendArrives, CometArrives, AbandonedArrives
<1>2. /\ LinkInv /\ C!ChainInv /\ C!FlightCarried /\ ReadInv /\ ArriveInv
      /\ UNCHANGED <<requests, sendXhr>> /\ C!Owed' = C!Owed
  BY <1>1 DEF WriteInv, clientVars, C!Owed, C!FlightData, C!LastData
<1>3. sendXhr.kind = "send" => sendXhr.packets \in requests
  BY <1>2 DEF C!FlightCarried, C!ChainInv, LinkInv, ClientSide, C!ClientInv, C!AnswerDue
<1>4. ASSUME UNCHANGED <<incoming, lastInId, received>>
      PROVE  /\ ReadInv' /\ (C!Owed =< lastInId)'
             /\ \A r : IsRead(r) => IsRead(r)'
             /\ \A r : IsKept(r) => IsKept(r)'
  BY <1>2, <1>4, SameReading DEF ArriveInv
<1>5. CASE HandshakeArrives
  <2>1. /\ UNCHANGED <<incoming, lastInId, received, handling>>
        /\ sendStage' \in {"answered", "refused"} /\ sendXhr.kind = "handshake"
    <3>1. UNCHANGED serverVars \/ \E c : S!Handshake(c)
      BY <1>5, SameServer DEF HandshakeArrives
    <3> QED
      BY <1>5, <3>1 DEF HandshakeArrives, serverVars, S!Handshake, S!reading
  <2> QED
    BY <1>1, <1>2, <1>4, <2>1 DEF ArriveInv
<1>6. CASE SendArrives
  <2>1. CASE Refuses(sendXhr)
    <3>1. sendStage' = "refused" /\ UNCHANGED <<incoming, lastInId, received, handling>>
      BY <1>6, <2>1 DEF SendArrives, serverVars
    <3> QED
      BY <1>1, <1>2, <1>4, <3>1 DEF ArriveInv
  <2>2. CASE ~Refuses(sendXhr)
    <3>1. sendStage' = "handled" /\ ServerHandles(sendXhr) /\ sendXhr.kind = "send"
      BY <1>6, <2>2 DEF SendArrives
    <3>2. /\ ReadInv' /\ lastInId' = lastInId /\ handling' # "none"
          /\ IsKept(sendXhr.packets)'
      BY <1>2, <1>3, <3>1, ReadBySend
    <3> QED
      BY <1>1, <1>2, <3>1, <3>2 DEF ArriveInv
  <2> QED
    BY <2>1, <2>2
<1>7. CASE CometArrives
  <2>1. UNCHANGED <<incoming, lastInId, received, handling>> /\ sendStage' = sendStage
    <3>1. UNCHANGED serverVars \/ ServerHandles(cometXhr)
      BY <1>7 DEF CometArrives
    <3>2. cometXhr.kind # "send"
      BY <1>2, <1>7 DEF CometArrives, LinkInv, CometStaged
    <3>3. UNCHANGED serverVars \/ S!Comet(cometXhr.ack, Server!NoChange)
      BY <3>1, <3>2, SameServer DEF ServerHandles
    <3> QED
      BY <1>7, <3>3 DEF serverVars, S!Comet, S!reading, CometArrives
  <2> QED
    BY <1>1, <1>2, <1>4, <2>1 DEF ArriveInv
<1>8. ASSUME NEW a \in abandoned, AbandonedArrives(a)
      PROVE  ReadInv' /\ ArriveInv'
  <2>1. ServerHandles(a.req) /\ sendStage' = sendStage
    BY <1>8 DEF AbandonedArrives
  <2>2. CASE a.req.kind = "send"
    <3>1. /\ ReadInv' /\ lastInId' = lastInId /\ handling = "none"
      BY <1>2, <2>1, <2>2, ReadBySend DEF ArriveInv
    <3>2. \A r : IsRead(r) => IsRead(r)'
      BY <3>1 DEF IsRead, C!PacketsOf
    <3> QED
      BY <1>1, <1>2, <2>1, <3>1, <3>2 DEF ArriveInv
  <2>3. CASE a.req.kind # "send"
    <3>1. S!Comet(a.req.ack, Server!NoChange)
      BY <2>1, <2>3, SameServer DEF ServerHandles
    <3>2. UNCHANGED <<incoming, lastInId, received, handling>>
      BY <3>1 DEF S!Comet, S!reading
    <3> QED
      BY <1>1, <1>2, <1>4, <2>1, <3>2 DEF ArriveInv
  <2> QED
    BY <2>2, <2>3
<1> QED
  BY <1>5, <1>6, <1>7, <1>8 DEF Arrivals

(* Only the answer to a /send acknowledges.                                *)
LEMMA OthersAcknowledgeNothing ==
  ASSUME ClientRuns \/ CometSucceeds \/ HandshakeFails \/ SendFails \/ CometFails
  PROVE  acked' = acked
<1>1. CASE ClientRuns
  <2>1. CASE C!Application
    BY <2>1 DEF C!Application, C!Connect, C!Write, C!Close
  <2>2. CASE C!Timers
    BY <2>2 DEF C!Timers, C!HandshakeTimeout, C!HandshakeRetry, C!WriteTimer,
                C!CometTimer, C!TimeoutExpires
  <2>3. CASE C!Continue
    BY <2>3 DEF C!Continue, C!OnConnectReturns, C!SkipPacket, C!DeliverPacket,
         C!OnReadReturns, C!ReceivedNullPacket, C!CorruptPacket,
         C!UnreadablePacket, C!PacketAhead, C!MissingPacket, C!PacketsDone
  <2> QED
    BY <1>1, <2>1, <2>2, <2>3, SameClient DEF ClientRuns
<1>2. CASE CometSucceeds \/ HandshakeFails \/ SendFails \/ CometFails
  BY <1>2 DEF CometSucceeds, HandshakeFails, SendFails, CometFails,
     Client!CometSuccess, Client!HandshakeFailure, Client!WriteFailure,
     Client!CometFailure
<1> QED
  BY <1>1, <1>2

(* A request that is still under way, or answered, is the same.            *)
LEMMA StageStays ==
  ASSUME ClientHalf, sendStage' \in {"handled", "answered"}
  PROVE  sendStage' = sendStage /\ (sendXhr' = sendXhr \/ sendXhr'.kind # "send")
<1>1. CASE ClientRuns
  BY <1>1 DEF ClientRuns, Stage, Client!Idle
<1>2. CASE CometSucceeds \/ CometFails
  <2>1. sendStage' = sendStage
    BY <1>2 DEF CometSucceeds, CometFails
  <2>2. CASE CometSucceeds
    BY <2>1, <2>2 DEF CometSucceeds, Client!CometSuccess, Client!writing
  <2>3. CASE CometFails
    <3>1. CASE readyState # "CONNECTED"
      BY <2>1, <2>3, <3>1 DEF CometFails, Client!CometFailure, Client!writing
    <3>2. CASE readyState = "CONNECTED"
      BY <2>1, <2>3, <3>2 DEF CometFails, Client!CometFailure, Client!writing
    <3> QED
      BY <3>1, <3>2
  <2> QED
    BY <1>2, <2>2, <2>3
<1>3. CASE SendSucceeds \/ HandshakeFails \/ SendFails
  BY <1>3 DEF SendSucceeds, HandshakeFails, SendFails
<1> QED
  BY <1>1, <1>2, <1>3 DEF ClientHalf

(* What the client gives up is what was in flight.                         *)
LEMMA AbandonedWasSent ==
  ASSUME WriteInv, ClientHalf
  PROVE  \A a \in abandoned' : a.req.kind = "send" => a.req.packets \in requests
<1>1. sendXhr.kind = "send" => sendXhr.packets \in requests
  BY DEF WriteInv, C!FlightCarried, C!ChainInv, LinkInv, ClientSide, C!ClientInv, C!AnswerDue
<1>2. \A a \in abandoned : a.req.kind = "send" => a.req.packets \in requests
  BY DEF WriteInv, ArriveInv
<1>3. CASE SendFails
  BY <1>1, <1>2, <1>3 DEF SendFails, Abandoned
<1>4. CASE CometFails
  <2>1. cometXhr.kind = "comet"
    BY <1>4 DEF CometFails, Client!CometFailure, Client!CometAnswered
  <2> QED
    BY <1>2, <1>4, <2>1 DEF CometFails, Abandoned
<1>5. CASE ClientRuns \/ SendSucceeds \/ CometSucceeds \/ HandshakeFails
  BY <1>2, <1>5 DEF ClientRuns, SendSucceeds, CometSucceeds, HandshakeFails
<1> QED
  BY <1>3, <1>4, <1>5 DEF ClientHalf

LEMMA WritesByClientHalf ==
  ASSUME WriteInv, ClientHalf
  PROVE  C!RetryInv' /\ C!ChainInv' /\ C!FlightCarried' /\ ReadInv' /\ ArriveInv'
<1>0. /\ LinkInv /\ C!RetryInv /\ C!ChainInv /\ C!FlightCarried
      /\ ReadInv /\ ArriveInv /\ C!ClientInv /\ C!LoopInv
  BY DEF WriteInv, LinkInv, ClientSide
<1>1. ClientSteps /\ UNCHANGED serverVars
  BY <1>0, ClientHalfSteps
<1>2. C!Next
  BY <1>1 DEF ClientSteps, C!Next, C!Network
<1>3. C!ClientInv'
  BY <1>0, <1>2, Bounds, C!ClientNext
<1>4. C!RetryInv'
  BY <1>0, <1>2, Bounds, C!RetryStep
<1>5. /\ C!ChainInv' /\ C!FlightCarried' /\ requests \subseteq requests'
      /\ C!Owed' = C!Owed \/ (C!Arrived /\ C!Owed' = C!LastData)
  BY <1>0, <1>2, <1>3, Bounds, C!ChainNext
<1>6. UNCHANGED <<incoming, lastInId, received, handling>>
  BY <1>1 DEF serverVars
<1>7. ReadInv'
  BY <1>0, <1>5, <1>6, ReadStays
<1>8. \A r : (IsRead(r) => IsRead(r)') /\ (IsKept(r) => IsKept(r)')
  BY <1>6 DEF IsRead, IsKept, C!PacketsOf
<1>9. (C!Owed =< lastInId)'
  <2>1. CASE C!Owed' = C!Owed
    BY <1>0, <1>6, <2>1 DEF ArriveInv
  <2>2. CASE C!Arrived /\ C!Owed' = C!LastData
    <3>1. /\ acked' # acked
          /\ packetsInFlight[1] \in C!PacketsOf(packetsInFlight)
          /\ packetsInFlight[1].data # <<>> /\ packetsInFlight[1].id = C!LastData
      BY <1>0, <2>2, Bounds, C!ArrivedAcks
    <3>2. SendSucceeds
      BY <3>1, OthersAcknowledgeNothing DEF ClientHalf
    <3>3. sendXhr.kind = "send" /\ sendStage = "answered"
      BY <2>2, <3>2 DEF SendSucceeds, C!Arrived, C!SendAnswered
    <3>4. IsRead(packetsInFlight)
      BY <1>0, <3>3 DEF ArriveInv, C!FlightCarried
    <3> QED
      BY <1>6, <2>2, <3>1, <3>4 DEF IsRead
  <2> QED
    BY <1>5, <2>1, <2>2
<1>10. \A a \in abandoned' : a.req.kind = "send" => a.req.packets \in requests'
  BY <1>5, AbandonedWasSent
<1>11. sendStage' = "handled" =>
         handling' # "none" /\ (sendXhr'.kind = "send" => IsKept(sendXhr.packets)')
  BY <1>0, <1>6, <1>8, StageStays DEF ArriveInv
<1>12. (sendStage' = "answered" /\ sendXhr'.kind = "send") => IsRead(sendXhr.packets)'
  BY <1>0, <1>8, StageStays DEF ArriveInv
<1>13. ArriveInv'
  BY <1>9, <1>10, <1>11, <1>12 DEF ArriveInv
<1> QED
  BY <1>4, <1>5, <1>7, <1>13
LEMMA WriteStep == WriteInv /\ [Next]_vars => WriteInv'
<1> SUFFICES ASSUME WriteInv, [Next]_vars
             PROVE  WriteInv'
  OBVIOUS
<1>1. LinkInv'
  BY LinkStep DEF WriteInv
<1>2. CASE ClientHalf
  BY <1>1, <1>2, WritesByClientHalf DEF WriteInv
<1>3. ASSUME UNCHANGED clientVars
      PROVE  C!RetryInv' /\ C!ChainInv' /\ C!FlightCarried'
  <2>1. /\ C!ClientInv /\ C!LoopInv /\ C!RetryInv /\ C!ChainInv /\ C!FlightCarried
        /\ [C!Next]_(C!vars)
    BY <1>3 DEF clientVars, C!vars, C!writing, WriteInv, LinkInv, ClientSide
  <2> QED
    BY <2>1, Bounds, C!RetryStep, C!ChainStep
<1>4. CASE ServerRuns \/ HandlerEnds
  <2>1. UNCHANGED clientVars
    BY <1>4 DEF ServerRuns, HandlerEnds, SendHandled
  <2> QED
    BY <1>1, <1>3, <1>4, <2>1, WritesByServerRuns DEF WriteInv
<1>5. CASE Arrivals
  <2>1. UNCHANGED clientVars
    BY <1>5 DEF Arrivals, HandshakeArrives, SendArrives, CometArrives, AbandonedArrives
  <2> QED
    BY <1>1, <1>3, <1>5, <2>1, WritesByArrivals DEF WriteInv
<1>6. CASE UNCHANGED vars
  <2>1. UNCHANGED clientVars
        /\ UNCHANGED <<incoming, lastInId, received, handling, sendStage, abandoned>>
    BY <1>6 DEF vars, serverVars, linkVars
  <2>2. UNCHANGED <<requests, sendXhr>> /\ C!Owed' = C!Owed
    BY <2>1 DEF clientVars, C!Owed, C!FlightData, C!LastData
  <2>3. ReadInv' /\ (\A r : IsRead(r) => IsRead(r)') /\ (\A r : IsKept(r) => IsKept(r)')
    BY <2>1, <2>2, SameReading DEF WriteInv
  <2>4. ArriveInv'
    BY <2>1, <2>2, <2>3 DEF WriteInv, ArriveInv
  <2> QED
    BY <1>1, <1>3, <2>1, <2>3, <2>4 DEF WriteInv
<1> QED
  BY <1>2, <1>4, <1>5, <1>6, Halves

LEMMA WriteInit == Init => WriteInv
<1> SUFFICES ASSUME Init
             PROVE  WriteInv
  OBVIOUS
<1>1. LinkInv /\ C!Init /\ S!Init
  BY LinkInit, SameClient, SameServer DEF Init
<1>2. C!RetryInv /\ C!ChainInv /\ C!FlightCarried
  BY <1>1, Bounds, C!RetryInit, C!ChainInit
<1>3. ReadInv
  <2>1. lastInId = 0 /\ received = <<>> /\ incoming = <<>>
    BY <1>1 DEF S!Init, S!None
  <2>2. <<>> \in Seq(Nat) /\ Len(<<>>) = 0 /\ 1..0 = {} /\ DOMAIN <<>> = {}
    OBVIOUS
  <2> QED
    BY <2>1, <2>2 DEF ReadInv
<1>4. C!Owed = 0
  BY <1>1 DEF C!Init, C!Owed, C!FlightData, C!LastData
<1>5. ArriveInv
  BY <1>3, <1>4 DEF ArriveInv, ReadInv, Init
<1> QED
  BY <1>1, <1>2, <1>3, <1>5 DEF WriteInv

(* No id is given to two packets, so the id tells the data.                *)
LEMMA DataOfSent ==
  ASSUME C!RetryInv, NEW p \in C!SentPackets
  PROVE  DataOf(p.id) = p.data
<1> DEFINE r == CHOOSE r \in requests : \E i \in DOMAIN r : r[i].id = p.id
           i == CHOOSE i \in DOMAIN r : r[i].id = p.id
<1>1. \E s \in requests : \E j \in DOMAIN s : s[j].id = p.id
  BY DEF C!SentPackets, C!PacketsOf
<1>2. r \in requests /\ \E j \in DOMAIN r : r[j].id = p.id
  BY <1>1
<1>3. DataOf(p.id) = r[i].data
  BY DEF DataOf
<1> HIDE DEF r
<1>4. i \in DOMAIN r /\ r[i].id = p.id
  BY <1>2
<1> HIDE DEF i
<1>5. r[i] \in C!SentPackets
  BY <1>2, <1>4 DEF C!SentPackets, C!PacketsOf
<1> QED
  BY <1>3, <1>4, <1>5 DEF C!RetryInv

LEMMA RunEnds ==
  ASSUME NEW s \in Seq(1..MaxWrites), s # <<>>
  PROVE  /\ DOMAIN s = 1..Len(s) /\ Len(s) \in Nat /\ Len(s) >= 1
         /\ s[1] \in Nat /\ s[Len(s)] \in Nat
<1>1. DOMAIN s = 1..Len(s) /\ Len(s) \in Nat /\ Len(s) # 0
  BY LenProperties, EmptySeq
<1>2. 1 \in 1..Len(s) /\ Len(s) \in 1..Len(s)
  BY <1>1
<1>3. s[1] \in 1..MaxWrites /\ s[Len(s)] \in 1..MaxWrites
  BY <1>2, ElementOfSeq
<1> QED
  BY <1>1, <1>3

LastRead == Len(received) - IF NullReceived THEN 1 ELSE 0

IsData(p, i) == p.id = i /\ p.data # <<>> /\ received[i] = i /\ DataOf(i) = p.data

(* What the server has read is the data packets in their order, and at most *)
(* the null behind the last of them.                                        *)
LEMMA ReadIsData ==
  ASSUME WriteInv
  PROVE  /\ LastRead \in Nat /\ C!LastData \in Nat
         /\ C!Owed =< LastRead /\ LastRead =< C!LastData
         /\ \A i \in 1..LastRead : \E p \in C!SentPackets : IsData(p, i)
<1>1. /\ LinkInv /\ C!RetryInv /\ C!ChainInv /\ ReadInv /\ C!Owed =< lastInId
      /\ C!LastData \in Nat /\ lastInId \in Nat /\ Len(received) = lastInId
  BY DEF WriteInv, ArriveInv, C!ChainInv, ReadInv
<1>2. lastSentId \in Nat /\ C!Owed \in Int /\ C!Owed =< C!LastData
  BY <1>1, Bounds, C!TypeParts
     DEF LinkInv, ClientSide, C!ClientInv, C!WritingOK, C!Owed
<1>3. DOMAIN received = 1..lastInId
  BY <1>1, LenProperties DEF ReadInv
<1>4. ASSUME NEW i \in 1..lastInId
      PROVE  \E p \in C!SentPackets :
               /\ p.id = i /\ DataOf(i) = p.data /\ i =< lastSentId
               /\ p.data # <<>> => IsData(p, i)
               /\ p.data = <<>> =>
                    /\ received[i] = i - 1 /\ i > 1 /\ i = lastSentId
                    /\ "inFlight" \in nulls
  <2>1. PICK p \in C!SentPackets :
          p.id = i /\ received[i] >= 1 /\ received[i] = IF p.data = <<>> THEN i - 1 ELSE i
    BY <1>1 DEF ReadInv, Content
  <2>2. DataOf(i) = p.data
    BY <1>1, <2>1, DataOfSent
  <2>3. p.id =< lastSentId /\ (p.data = <<>> => p.id = lastSentId /\ "inFlight" \in nulls)
    BY <1>1 DEF C!RetryInv, C!ChainInv
  <2> QED
    BY <2>1, <2>2, <2>3 DEF IsData
<1>5. CASE NullReceived
  <2>1. PICK k \in 1..lastInId : k > 1 /\ DataOf(k) = <<>> /\ received[k] = k - 1
    BY <1>3, <1>5 DEF NullReceived
  <2>2. k = lastSentId /\ "inFlight" \in nulls
    BY <1>4, <2>1 DEF IsData
  <2>3. lastInId \in 1..lastInId
    BY <1>1, <2>1
  <2>4. lastInId =< lastSentId
    BY <1>4, <2>3
  <2>5. lastInId = lastSentId
    BY <1>1, <1>2, <2>1, <2>2, <2>4
  <2>6. LastRead = lastInId - 1 /\ C!LastData = lastSentId - 1
    BY <1>1, <1>5, <2>2 DEF LastRead, C!LastData
  <2>7. \A i \in 1..LastRead : i \in 1..lastInId /\ i # lastSentId
    BY <1>1, <2>5, <2>6
  <2> QED
    BY <1>1, <1>2, <1>4, <2>5, <2>6, <2>7
<1>6. CASE ~NullReceived
  <2>1. LastRead = lastInId
    BY <1>1, <1>6 DEF LastRead
  <2>2. ASSUME NEW i \in 1..LastRead
        PROVE  \E p \in C!SentPackets : IsData(p, i)
    BY <1>3, <1>4, <1>6, <2>1, <2>2 DEF NullReceived
  <2>3. LastRead =< C!LastData
    <3>1. CASE LastRead = 0
      BY <1>1, <3>1
    <3>2. CASE LastRead # 0
      <4>1. LastRead \in 1..LastRead
        BY <1>1, <2>1, <3>2
      <4>2. PICK p \in C!SentPackets : IsData(p, LastRead)
        BY <2>2, <4>1
      <4>3. p.id \in 1..C!LastData
        BY <1>1, <4>2 DEF IsData, C!ChainInv, C!Chain
      <4> QED
        BY <1>1, <4>2, <4>3 DEF IsData
    <3> QED
      BY <3>1, <3>2
  <2> QED
    BY <1>1, <2>1, <2>2, <2>3
<1> QED
  BY <1>5, <1>6

(* The data packet in flight is the last.                                  *)
LEMMA FlightIsLast ==
  ASSUME WriteInv, C!FlightData # <<>>
  PROVE  \E f \in C!SentPackets :
           f.data = C!FlightData /\ f.id = C!LastData
<1>1. LinkInv /\ C!RetryInv /\ C!ChainInv
  BY DEF WriteInv
<1>2. packetsInFlight # <<>> /\ packetsInFlight \in requests
  BY <1>1 DEF C!FlightData, C!ChainInv
<1> DEFINE fl == packetsInFlight
           f == fl[1]
<1>3. /\ DOMAIN fl = 1..Len(fl)
      /\ Len(fl) = 1 \/ C!DataThenNull(fl)
      /\ \A i \in DOMAIN fl : fl[i] \in C!SentPackets
  BY <1>1, <1>2, RequestShape
<1>4. fl[Len(fl)].id = lastSentId /\ f.data = C!FlightData
  BY <1>1, <1>2 DEF C!ChainInv, C!FlightData
<1>5. f \in C!SentPackets /\ f.data # <<>>
  BY <1>3, <1>4 DEF C!DataThenNull
<1>6. f.id \in 1..C!LastData /\ f.id \in Nat
  BY <1>1, <1>5, SentIds DEF C!ChainInv, C!Chain
<1>7. CASE Len(fl) = 1
  <2>1. f.id = lastSentId
    BY <1>4, <1>7
  <2> QED
    BY <1>4, <1>5, <1>6, <2>1 DEF C!LastData
<1>8. CASE C!DataThenNull(fl)
  <2>1. fl[2].data = <<>> /\ fl[2].id = lastSentId /\ fl[2].id = f.id + 1 /\ fl[2] \in C!SentPackets
    BY <1>3, <1>4, <1>8 DEF C!DataThenNull
  <2>2. "inFlight" \in nulls
    BY <1>1, <2>1 DEF C!RetryInv
  <2> QED
    BY <1>4, <1>5, <1>6, <2>1, <2>2 DEF C!LastData
<1> QED
  BY <1>3, <1>7, <1>8

UpTo(i) == IF i = 0 THEN 0 ELSE DataOf(received[i])[Len(DataOf(received[i]))]

(* The runs that the packets carry, as the server has read them.           *)
LEMMA ReadUpTo ==
  ASSUME WriteInv
  PROVE  /\ UpTo(0) = 0
         /\ \A i \in 1..LastRead : \A p \in C!SentPackets :
              IsData(p, i) => UpTo(i) = C!LastOf(p) /\ UpTo(i) \in Nat
<1>1. UpTo(0) = 0
  BY DEF UpTo
<1>2. ASSUME NEW i \in 1..LastRead, NEW p \in C!SentPackets, IsData(p, i)
      PROVE  UpTo(i) = C!LastOf(p) /\ UpTo(i) \in Nat
  <2>1. UpTo(i) = C!LastOf(p)
    BY <1>2 DEF UpTo, IsData, C!LastOf
  <2>2. p.data \in Seq(1..MaxWrites) /\ p.data # <<>>
    BY <1>2, SentIds DEF WriteInv, IsData
  <2>3. p.data[Len(p.data)] \in Nat
    BY <2>2, RunEnds
  <2> QED
    BY <2>1, <2>3 DEF C!LastOf
<1> QED
  BY <1>1, <1>2

LEMMA ReadRuns ==
  ASSUME WriteInv, NEW i \in 1..LastRead
  PROVE  /\ DataOf(received[i]) # <<>>
         /\ DataOf(received[i]) =
              [j \in 1..Len(DataOf(received[i])) |-> UpTo(i - 1) + j]
<1>1. /\ LastRead \in Nat
      /\ \A k \in 1..LastRead : \E p \in C!SentPackets : IsData(p, k)
  BY ReadIsData
<1>2. PICK p \in C!SentPackets : IsData(p, i)
  BY <1>1
<1>3. p.id = i /\ p.data # <<>> /\ DataOf(received[i]) = p.data
  BY <1>2 DEF IsData
<1>4. /\ p.data \in Seq(1..MaxWrites)
      /\ DOMAIN p.data = 1..Len(p.data) /\ Len(p.data) \in Nat /\ p.data[1] \in Nat
  BY <1>3, SentIds, RunEnds DEF WriteInv
<1>5. C!Chain(C!SentPackets, C!LastData, C!Sealed)
  BY DEF WriteInv, C!ChainInv
<1>6. /\ \A j \in 1..Len(p.data) : p.data[j] = p.data[1] + j - 1
      /\ i = 1 => p.data[1] = 1
  BY <1>3, <1>5 DEF C!Chain
<1>7. p.data[1] = UpTo(i - 1) + 1 /\ UpTo(i - 1) \in Nat
  <2>1. CASE i = 1
    BY <1>6, <2>1, ReadUpTo
  <2>2. CASE i # 1
    <3>1. i - 1 \in 1..LastRead /\ i = (i - 1) + 1
      BY <1>1, <2>2
    <3>2. PICK q \in C!SentPackets : IsData(q, i - 1)
      BY <1>1, <3>1
    <3>3. UpTo(i - 1) = C!LastOf(q) /\ UpTo(i - 1) \in Nat
      BY <3>1, <3>2, ReadUpTo
    <3>4. q.data # <<>> /\ p.id = q.id + 1
      BY <1>3, <3>1, <3>2 DEF IsData
    <3>5. p.data[1] = C!LastOf(q) + 1
      BY <1>3, <1>5, <3>4 DEF C!Chain
    <3> QED
      BY <3>3, <3>5
  <2> QED
    BY <2>1, <2>2
<1>8. \A j \in 1..Len(p.data) : p.data[j] = UpTo(i - 1) + j
  <2> SUFFICES ASSUME NEW j \in 1..Len(p.data)
               PROVE  p.data[j] = UpTo(i - 1) + j
    OBVIOUS
  <2>0. p.data[j] = p.data[1] + j - 1
    BY <1>6
  <2>1. j \in Int
    OBVIOUS
  <2> DEFINE a == p.data[1]
             u == UpTo(i - 1)
  <2>2. a = u + 1 /\ u \in Nat /\ p.data[j] = a + j - 1
    BY <1>7, <2>0
  <2> HIDE DEF a, u
  <2>3. a + j - 1 = u + j
    BY <2>1, <2>2
  <2>4. p.data[j] = u + j
    BY <2>2, <2>3
  <2> QED
    BY <2>4 DEF u
<1>9. p.data = [j \in 1..Len(p.data) |-> UpTo(i - 1) + j]
  <2>1. p.data = [j \in 1..Len(p.data) |-> p.data[j]]
    BY <1>4
  <2>2. [j \in 1..Len(p.data) |-> p.data[j]] = [j \in 1..Len(p.data) |-> UpTo(i - 1) + j]
    BY <1>8
  <2> QED
    BY <2>1, <2>2
<1> QED
  BY <1>3, <1>9

LEMMA GivenIsRead ==
  ASSUME WriteInv
  PROVE  written - Len(C!FlightData) - Len(writeBuffer) =< UpTo(LastRead)
<1>1. /\ LastRead \in Nat /\ C!LastData \in Nat
      /\ C!Owed =< LastRead /\ LastRead =< C!LastData
      /\ \A k \in 1..LastRead : \E p \in C!SentPackets : IsData(p, k)
  BY ReadIsData
<1>2. C!Chain(C!SentPackets, C!LastData, C!Sealed)
  BY DEF WriteInv, C!ChainInv
<1>3. C!WritingOK /\ written \in Nat
  BY Bounds, C!TypeParts DEF WriteInv, LinkInv, ClientSide, C!ClientInv, C!CometOK
<1>4. /\ Len(writeBuffer) \in Nat /\ C!Sealed \in Int
      /\ C!Sealed = written - Len(writeBuffer)
  BY <1>3, LenProperties DEF C!WritingOK, C!Sealed
<1>5. CASE C!FlightData = <<>>
  <2>1. Len(C!FlightData) = 0
    BY <1>5, EmptySeq
  <2>2. LastRead = C!LastData
    BY <1>1, <1>5 DEF C!Owed
  <2>3. C!Sealed = UpTo(LastRead)
    <3>1. CASE LastRead = 0
      BY <1>2, <2>2, <3>1, ReadUpTo DEF C!Chain
    <3>2. CASE LastRead # 0
      <4>1. LastRead \in 1..LastRead
        BY <1>1, <3>2
      <4>2. PICK p \in C!SentPackets : IsData(p, LastRead)
        BY <1>1, <4>1
      <4>3. UpTo(LastRead) = C!LastOf(p)
        BY <4>1, <4>2, ReadUpTo
      <4> QED
        BY <1>2, <2>2, <4>2, <4>3 DEF IsData, C!Chain
    <3> QED
      BY <3>1, <3>2
  <2> QED
    BY <1>3, <1>4, <2>1, <2>3
<1>6. CASE C!FlightData # <<>>
  <2>1. PICK f \in C!SentPackets : f.data = C!FlightData /\ f.id = C!LastData
    BY <1>6, FlightIsLast
  <2> DEFINE n == Len(f.data)
             first == f.data[1]
  <2>2. f.id >= 1 /\ f.data \in Seq(1..MaxWrites) /\ f.data # <<>>
    BY <1>6, <2>1, SentIds DEF WriteInv
  <2>3. n \in Nat /\ n >= 1 /\ first \in Nat /\ 1 \in 1..n /\ n \in 1..n
    <3>1. n \in Nat /\ n >= 1 /\ first \in Nat
      BY <2>2, RunEnds
    <3> QED
      BY <3>1
  <2>4. /\ f.data[n] = first + n - 1
        /\ C!LastOf(f) = C!Sealed
        /\ f.id = 1 => first = 1
        /\ \A p \in C!SentPackets :
             p.data # <<>> /\ f.id = p.id + 1 => first = C!LastOf(p) + 1
    BY <1>2, <2>1, <2>2, <2>3 DEF C!Chain
  <2>5. C!Sealed = first + n - 1
    BY <2>4 DEF C!LastOf
  <2> HIDE DEF n, first
  <2>6. written - n - Len(writeBuffer) = first - 1
    BY <1>3, <1>4, <2>3, <2>5
  <2>7. first - 1 =< UpTo(LastRead)
    <3>1. LastRead = C!LastData \/ LastRead = C!LastData - 1
      BY <1>1, <1>6 DEF C!Owed
    <3>2. CASE LastRead = 0
      <4>1. first = 1
        BY <1>1, <2>1, <2>2, <2>4, <3>1, <3>2
      <4> QED
        BY <3>2, <4>1, ReadUpTo
    <3>3. CASE LastRead # 0
      <4>1. LastRead \in 1..LastRead
        BY <1>1, <3>3
      <4>2. PICK p \in C!SentPackets : IsData(p, LastRead)
        BY <1>1, <4>1
      <4>3. UpTo(LastRead) = C!LastOf(p) /\ UpTo(LastRead) \in Nat
        BY <4>1, <4>2, ReadUpTo
      <4>4. CASE LastRead = C!LastData
        <5>1. UpTo(LastRead) = C!Sealed
          BY <1>2, <4>2, <4>3, <4>4 DEF IsData, C!Chain
        <5> QED
          BY <2>3, <2>5, <5>1
      <4>5. CASE LastRead = C!LastData - 1
        <5>1. p.data # <<>> /\ p.id = LastRead
          BY <4>2 DEF IsData
        <5>2. f.id = p.id + 1
          BY <1>1, <2>1, <4>5, <5>1
        <5>3. first = C!LastOf(p) + 1
          BY <2>4, <5>1, <5>2
        <5> QED
          BY <4>3, <5>3
      <4> QED
        BY <3>1, <4>4, <4>5
    <3> QED
      BY <3>2, <3>3
  <2> QED
    BY <2>1, <2>6, <2>7 DEF n
<1> QED
  BY <1>5, <1>6

LEMMA WriteInvIsEnough == WriteInv => WritesArriveOnce
<1> SUFFICES ASSUME WriteInv
             PROVE  WritesArriveOnce
  OBVIOUS
<1>1. Client!FlightData = C!FlightData
  BY DEF Client!FlightData, C!FlightData
<1>2. \A i \in 1..LastRead :
        /\ DataOf(received[i]) # <<>>
        /\ DataOf(received[i]) =
             [j \in 1..Len(DataOf(received[i])) |-> UpTo(i - 1) + j]
  BY ReadRuns
<1>3. written - Len(Client!FlightData) - Len(writeBuffer) =< UpTo(LastRead)
  BY <1>1, GivenIsRead
<1> QED
  BY <1>2, <1>3 DEF WritesArriveOnce, LastRead, UpTo

(* WritesArriveOnce, for any number of writes, packets, comets and faults: *)
(* the application of the server gets every write once and in order, but   *)
(* for a null that repeats the last ones, whatever failed, was repeated or *)
(* came late, and what the client no longer holds has been given to it     *)
(* (dispatch.send, _writeSuccess, _writeFailure).                          *)
THEOREM WritesArrive == Spec => []WritesArriveOnce
  BY WriteInit, WriteStep, WriteInvIsEnough, PTL DEF Spec
=============================================================================
