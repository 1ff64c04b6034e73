------------------------------ MODULE CspClient ------------------------------
(***************************************************************************)
(* One CometSession of the JavaScript client (net/csp/client.js) over its  *)
(* xhr transport (net/csp/transports.js), facing an HTTP network that may  *)
(* answer any request in any way.                                          *)
(*                                                                         *)
(* JavaScript runs each handler to its end, but the session calls the      *)
(* application back from inside two handlers, and the application may      *)
(* write() or close() from there.  `running' names the place where such a  *)
(* handler stands; answers and timers wait until it is "none".  Durations  *)
(* and back-off factors are left out: a timer that is set may fire.        *)
(***************************************************************************)
EXTENDS Integers, Sequences, FiniteSets

CONSTANTS
  MaxWrites,    \* bound: calls of write()
  MaxEventId,   \* bound: highest packet id a comet answer may carry
  MaxBatch      \* bound: packets in one comet answer

ASSUME BoundsAssumption ==
  MaxWrites \in Nat /\ MaxEventId \in Nat /\ MaxBatch \in Nat

VARIABLES
  readyState,       \* this.readyState
  hasKey,           \* this._sessionKey is not null
  writeBuffer,      \* this._writeBuffer: the numbers of the writes in it
  packetsInFlight,  \* this._packetsInFlight, <<>> for null
  lastSentId,       \* this._lastSentId
  lastEventId,      \* this._lastEventId, NoEvent for null
  nulls,            \* those of _nullInBuffer, _nullInFlight, _nullSent that hold
  timers,           \* timeouts that are set
  sendXhr,          \* the request of the transport's 'send' XHR
  cometXhr,         \* the request of the transport's 'comet' XHR
  running,          \* where the handler being run stands
  response,         \* packets of the comet answer still to be looked at
  written,          \* number of writes the application has made
  acked,            \* writes whose request succeeded, in order
  requests,         \* every packet list handed to the transport's send
  delivered,        \* ids whose data was given to onread, in order
  disconnects       \* calls of ondisconnect: what led to each

writing == <<writeBuffer, packetsInFlight, lastSentId, nulls, sendXhr, requests>>
vars == <<readyState, hasKey, writing, lastEventId, timers, cometXhr, running,
          response, written, acked, delivered, disconnects>>
-----------------------------------------------------------------------------
NoEvent == -1
Idle == [kind |-> "idle"]
NullPacket(id) == [id |-> id, data |-> <<>>]
AckId == IF lastEventId = NoEvent THEN 0 ELSE lastEventId

(* Packets of a comet answer.  "corrupt" is a payload that base64 refuses, *)
(* "unreadable" one that utf8 refuses after what came before it (the       *)
(* encoding unless connect is told otherwise), "missing" a null in place   *)
(* of a packet.                                                            *)
PacketKinds == {"data", "null", "corrupt", "unreadable"}
EventPackets == [id : 1..MaxEventId, kind : PacketKinds]
                  \cup {[id |-> 0, kind |-> "missing"]}
Responses == UNION {[1..n -> EventPackets] : n \in 0..MaxBatch}

WithTimeoutCleared(ts) == ts \ {"timeout"}                    \* mutated form
WithTimeoutReset(ts) == ts \cup {"timeout"}
-----------------------------------------------------------------------------
BufferJoins(flight, buffer) ==                                \* mutated form
  IF buffer # <<>> THEN <<[id |-> lastSentId + 1, data |-> buffer]>>
                   ELSE flight

(* A packet is made of the whole buffer when nothing is in flight; what is *)
(* in flight is sent again as it is.                                       *)
DataFlight(flight, buffer) ==
  IF flight = <<>> /\ buffer # <<>>
    THEN <<[id |-> lastSentId + 1, data |-> buffer]>>
    ELSE flight

NullIdUnmoved(flight, data) == lastSentId + 1                 \* mutated form
NullId(flight, data) == lastSentId + IF data = flight THEN 1 ELSE 2

(* A null packet joins once nothing is left in the buffer. *)
NullJoins(flight, buffer, sendNull) ==
  sendNull /\ (flight = <<>> \/ buffer = <<>>)

(* __doWrite, with the flight and the buffer it finds. *)
SendNow(flight, buffer, sendNull) ==
  LET data == DataFlight(flight, buffer)
      next == IF NullJoins(flight, buffer, sendNull)
                THEN Append(data, NullPacket(NullId(flight, data)))
                ELSE data
  IN /\ packetsInFlight' = next
     /\ writeBuffer' = IF data = flight THEN buffer ELSE <<>>
     /\ lastSentId' = IF next = flight THEN lastSentId ELSE next[Len(next)].id
     /\ nulls' = nulls \cup IF NullJoins(flight, buffer, sendNull)
                              THEN {"inFlight"} ELSE {}
     /\ IF next = <<>>
          THEN UNCHANGED <<sendXhr, requests>>
          ELSE /\ sendXhr' = [kind |-> "send", key |-> hasKey, ack |-> AckId,
                              packets |-> next]
               /\ requests' = requests \cup {next}

WriteAtOnce(buffer, sendNull) ==                              \* mutated form
  SendNow(packetsInFlight, buffer, sendNull)

(* _doWrite: wait for the answer of what is in flight. *)
DoWrite(buffer, sendNull) ==
  IF packetsInFlight # <<>>
    THEN /\ writeBuffer' = buffer
         /\ nulls' = nulls \cup IF sendNull THEN {"inBuffer"} ELSE {}
         /\ UNCHANGED <<packetsInFlight, lastSentId, sendXhr, requests>>
    ELSE SendNow(packetsInFlight, buffer, sendNull)

DoConnectComet ==
  cometXhr' = [kind |-> "comet", key |-> hasKey, ack |-> AckId]

(* close(), with the timers found: it throws once DISCONNECTED, calls      *)
(* ondisconnect twice when CONNECTING, and sends a null when CONNECTED.    *)
CloseSession(ts) ==
  IF readyState = "DISCONNECTED"
    THEN timers' = ts /\ UNCHANGED <<readyState, hasKey, writing, disconnects>>
    ELSE /\ readyState' = "DISCONNECTED"
         /\ hasKey' = FALSE
         /\ disconnects' = disconnects \o
              IF readyState = "CONNECTING" THEN <<"close", "close">> ELSE <<"close">>
         /\ timers' = ts \ CASE readyState = "CONNECTING" ->
                                  {"handshakeRetry", "handshakeTimeout"}
                             [] readyState = "CONNECTED" -> {"timeout"}
                             [] OTHER -> {}
         /\ IF readyState = "CONNECTED"
              THEN DoWrite(writeBuffer, TRUE) ELSE UNCHANGED writing

(* _protocolError: no wait for anything; the key and the timers stay. *)
ProtocolError ==
  /\ readyState' = "DISCONNECTED"
  /\ DoWrite(writeBuffer, TRUE)
  /\ disconnects' = Append(disconnects, "protocol error")
  /\ UNCHANGED <<hasKey, timers>>

AnswerAnyway ==                                               \* mutated form
  /\ readyState' = "DISCONNECTING"
  /\ DoWrite(writeBuffer, TRUE)

(* _receivedNullPacket: answer it with a null of our own, unless that one  *)
(* is sent or waiting.                                                     *)
AnswerNull ==
  IF nulls = {}
    THEN readyState' = "DISCONNECTING" /\ DoWrite(writeBuffer, TRUE)
    ELSE readyState' = "DISCONNECTED" /\ UNCHANGED writing
-----------------------------------------------------------------------------
Free == running = "none"
ApplicationRuns == running \in {"none", "onconnect", "onread"}

(* An application connects a session once: connect() does not ask for the  *)
(* ready state.                                                            *)
Connect ==
  /\ Free /\ readyState = "INITIAL"
  /\ readyState' = "CONNECTING"
  /\ sendXhr' = [kind |-> "handshake", body |-> TRUE]
  /\ timers' = timers \cup {"handshakeTimeout"}
  /\ UNCHANGED <<hasKey, writeBuffer, packetsInFlight, lastSentId, nulls,
                 requests, lastEventId, cometXhr, running, response, written,
                 acked, delivered, disconnects>>

(* write() throws unless CONNECTED. *)
Write ==
  /\ ApplicationRuns /\ readyState = "CONNECTED"
  /\ written < MaxWrites
  /\ written' = written + 1
  /\ DoWrite(Append(writeBuffer, written + 1), FALSE)
  /\ UNCHANGED <<readyState, hasKey, lastEventId, timers, cometXhr, running,
                 response, acked, delivered, disconnects>>

Close ==
  /\ ApplicationRuns /\ readyState # "DISCONNECTED"
  /\ CloseSession(timers)
  /\ UNCHANGED <<lastEventId, cometXhr, running, response, written, acked,
                 delivered>>

HandshakeTimeout ==
  /\ Free /\ "handshakeTimeout" \in timers
  /\ timers' = timers \ {"handshakeTimeout"}
  /\ disconnects' = Append(disconnects, "unreachable")
  /\ UNCHANGED <<readyState, hasKey, writing, lastEventId, cometXhr, running,
                 response, written, acked, delivered>>

(* The first request of the transport took the 'd' out of the arguments it *)
(* keeps for every handshake: a repeated one has no body.                  *)
HandshakeRetry ==
  /\ Free /\ "handshakeRetry" \in timers
  /\ timers' = timers \ {"handshakeRetry"}
  /\ sendXhr' = [kind |-> "handshake", body |-> FALSE]
  /\ UNCHANGED <<readyState, hasKey, writeBuffer, packetsInFlight, lastSentId,
                 nulls, requests, lastEventId, cometXhr, running, response,
                 written, acked, delivered, disconnects>>

HandshakeAnswered == Free /\ sendXhr.kind = "handshake" /\ sendXhr' = Idle

HandshakeSuccess ==
  /\ HandshakeAnswered
  /\ \/ /\ readyState = "CONNECTING"
        /\ readyState' = "CONNECTED"
        /\ hasKey' = TRUE
        /\ timers' = timers \ {"handshakeTimeout"}
        /\ running' = "onconnect"
     \/ /\ readyState # "CONNECTING"
        /\ UNCHANGED <<readyState, hasKey, timers, running>>
  /\ UNCHANGED <<writeBuffer, packetsInFlight, lastSentId, nulls, requests,
                 lastEventId, cometXhr, response, written, acked, delivered,
                 disconnects>>

(* Whatever the application did in onconnect, the comet goes out. *)
OnConnectReturns ==
  /\ running = "onconnect"
  /\ running' = "none"
  /\ DoConnectComet
  /\ UNCHANGED <<readyState, hasKey, writing, lastEventId, timers, response,
                 written, acked, delivered, disconnects>>

RetryHandshake == timers' = timers \cup {"handshakeRetry"}

HandshakeFailure(notFound) ==
  /\ HandshakeAnswered
  /\ CASE readyState # "CONNECTING" -> UNCHANGED <<timers, disconnects>>
       [] readyState = "CONNECTING" /\ notFound ->
            /\ timers' = timers \ {"handshakeTimeout"}
            /\ disconnects' = Append(disconnects, "unreachable")
       [] OTHER -> RetryHandshake /\ UNCHANGED disconnects
  /\ UNCHANGED <<readyState, hasKey, writeBuffer, packetsInFlight, lastSentId,
                 nulls, requests, lastEventId, cometXhr, running, response,
                 written, acked, delivered>>

SendAnswered == Free /\ sendXhr.kind = "send"

(* _writeSuccess, when the session still listens and no null is in flight: *)
(* what was in flight has arrived, what was buffered meanwhile follows.    *)
WriteSucceeds ==
  /\ timers' = WithTimeoutReset(timers)
  /\ acked' = acked \o packetsInFlight[1].data
  /\ IF writeBuffer # <<>> \/ "inBuffer" \in nulls
       THEN SendNow(<<>>, writeBuffer, "inBuffer" \in nulls)
       ELSE /\ packetsInFlight' = <<>>
            /\ sendXhr' = Idle
            /\ UNCHANGED <<writeBuffer, lastSentId, nulls, requests>>

(* With the null in flight _sentNullPacket only notes it: _nullReceived is *)
(* never set, so the session waits for its timeout.                        *)
WriteSuccess ==
  /\ SendAnswered
  /\ IF readyState \in {"CONNECTED", "DISCONNECTING"} /\ "inFlight" \notin nulls
       THEN WriteSucceeds
       ELSE /\ sendXhr' = Idle
            /\ nulls' = IF readyState = "DISCONNECTED" THEN nulls
                                                       ELSE nulls \cup {"sent"}
            /\ UNCHANGED <<timers, acked, writeBuffer, packetsInFlight,
                           lastSentId, requests>>
  /\ UNCHANGED <<readyState, hasKey, lastEventId, cometXhr, running, response,
                 written, delivered, disconnects>>

WriteDropped ==                                               \* mutated form
  /\ SendAnswered
  /\ sendXhr' = Idle
  /\ packetsInFlight' = <<>>
  /\ UNCHANGED <<readyState, hasKey, writeBuffer, lastSentId, nulls, requests,
                 lastEventId, timers, cometXhr, running, response, written,
                 acked, delivered, disconnects>>

(* The second half of the test reads this.READYSTATE, which is undefined:  *)
(* only a CONNECTED session tries again.                                   *)
WriteFailure ==
  /\ SendAnswered
  /\ sendXhr' = Idle
  /\ timers' = timers \cup IF readyState = "CONNECTED" THEN {"write"} ELSE {}
  /\ UNCHANGED <<readyState, hasKey, writeBuffer, packetsInFlight, lastSentId,
                 nulls, requests, lastEventId, cometXhr, running, response,
                 written, acked, delivered, disconnects>>

WriteTimer ==
  /\ Free /\ "write" \in timers
  /\ timers' = timers \ {"write"}
  /\ SendNow(packetsInFlight, writeBuffer, "inBuffer" \in nulls)
  /\ UNCHANGED <<readyState, hasKey, lastEventId, cometXhr, running, response,
                 written, acked, delivered, disconnects>>

CometAnswered == Free /\ cometXhr.kind = "comet" /\ cometXhr' = Idle

(* Only the words 'Session not found' with a 404 end the session; no       *)
(* server of this repository answers them.                                 *)
CometFailure(sessionNotFound) ==
  /\ CometAnswered
  /\ CASE readyState # "CONNECTED" ->
            UNCHANGED <<readyState, hasKey, writing, timers, disconnects>>
       [] readyState = "CONNECTED" /\ sessionNotFound -> CloseSession(timers)
       [] OTHER -> /\ timers' = timers \cup {"comet"}
                   /\ UNCHANGED <<readyState, hasKey, writing, disconnects>>
  /\ UNCHANGED <<lastEventId, running, response, written, acked, delivered>>

CometTimer ==
  /\ Free /\ "comet" \in timers
  /\ timers' = timers \ {"comet"}
  /\ DoConnectComet
  /\ UNCHANGED <<readyState, hasKey, writing, lastEventId, running, response,
                 written, acked, delivered, disconnects>>

Listening == readyState \in {"CONNECTED", "DISCONNECTING"}

(* _cometSuccess starts on the packets of the answer. *)
CometSuccess(batch) ==
  /\ CometAnswered
  /\ \/ /\ Listening
        /\ timers' = WithTimeoutReset(timers)
        /\ response' = batch
        /\ running' = "packets"
     \/ /\ ~Listening
        /\ UNCHANGED <<timers, response, running>>
  /\ UNCHANGED <<readyState, hasKey, writing, lastEventId, written, acked,
                 delivered, disconnects>>

(* An empty body makes data.response undefined: the loop throws at once,   *)
(* the timeout is reset and no comet follows.                              *)
CometEmpty ==
  /\ CometAnswered
  /\ timers' = IF Listening THEN WithTimeoutReset(timers) ELSE timers
  /\ UNCHANGED <<readyState, hasKey, writing, lastEventId, running, response,
                 written, acked, delivered, disconnects>>
-----------------------------------------------------------------------------
SeenBefore(id) == lastEventId # NoEvent /\ id < lastEventId   \* mutated form
Seen(id) == lastEventId # NoEvent /\ id =< lastEventId
AheadByTwo(id) == lastEventId # NoEvent /\ id > lastEventId + 2 \* mutated form
AheadAtNext(id) == lastEventId # NoEvent /\ id > lastEventId   \* mutated form
Ahead(id) == lastEventId # NoEvent /\ id > lastEventId + 1

AtPacket(kinds) ==
  /\ running = "packets"
  /\ response # <<>>
  /\ Head(response).kind \in kinds

Expected(kinds) ==
  /\ AtPacket(kinds)
  /\ ~Seen(Head(response).id) /\ ~Ahead(Head(response).id)
  /\ lastEventId' = Head(response).id

HandlerStops == running' = "none" /\ response' = <<>>

SkipPacket ==
  /\ AtPacket(PacketKinds)
  /\ Seen(Head(response).id)
  /\ response' = Tail(response)
  /\ UNCHANGED <<readyState, hasKey, writing, lastEventId, timers, cometXhr,
                 running, written, acked, delivered, disconnects>>

DeliverPacket ==
  /\ Expected({"data"})
  /\ delivered' = Append(delivered, Head(response).id)
  /\ running' = "onread"
  /\ response' = Tail(response)
  /\ UNCHANGED <<readyState, hasKey, writing, timers, cometXhr, written, acked,
                 disconnects>>

OnReadReturns ==
  /\ running = "onread"
  /\ running' = "packets"
  /\ UNCHANGED <<readyState, hasKey, writing, lastEventId, timers, cometXhr,
                 response, written, acked, delivered, disconnects>>

ReceivedNullPacket ==
  /\ Expected({"null"})
  /\ AnswerNull
  /\ disconnects' = Append(disconnects, "clean")
  /\ HandlerStops
  /\ UNCHANGED <<hasKey, timers, cometXhr, written, acked, delivered>>

CorruptPacket ==
  /\ Expected({"corrupt"})
  /\ ProtocolError
  /\ HandlerStops
  /\ UNCHANGED <<cometXhr, written, acked, delivered>>

(* utf8.decode is not guarded: the exception leaves the handler before the *)
(* comet goes out again.                                                   *)
UnreadablePacket ==
  /\ Expected({"unreadable"})
  /\ HandlerStops
  /\ UNCHANGED <<readyState, hasKey, writing, timers, cometXhr, written, acked,
                 delivered, disconnects>>

PacketAhead ==
  /\ AtPacket(PacketKinds)
  /\ Ahead(Head(response).id)
  /\ ProtocolError
  /\ HandlerStops
  /\ UNCHANGED <<lastEventId, cometXhr, written, acked, delivered>>

MissingPacket ==
  /\ AtPacket({"missing"})
  /\ CloseSession(timers)
  /\ HandlerStops
  /\ UNCHANGED <<lastEventId, cometXhr, written, acked, delivered>>

(* The comet goes out again last, whatever onread did to the session. *)
PacketsDone ==
  /\ running = "packets" /\ response = <<>>
  /\ running' = "none"
  /\ DoConnectComet
  /\ UNCHANGED <<readyState, hasKey, writing, lastEventId, timers, response,
                 written, acked, delivered, disconnects>>

TimeoutExpires ==
  /\ Free /\ "timeout" \in timers
  /\ CloseSession(timers \ {"timeout"})
  /\ UNCHANGED <<lastEventId, cometXhr, running, response, written, acked,
                 delivered>>
-----------------------------------------------------------------------------
Init ==
  /\ readyState = "INITIAL"
  /\ hasKey = FALSE
  /\ writeBuffer = <<>>
  /\ packetsInFlight = <<>>
  /\ lastSentId = 0
  /\ lastEventId = NoEvent
  /\ nulls = {}
  /\ timers = {}
  /\ sendXhr = Idle
  /\ cometXhr = Idle
  /\ running = "none"
  /\ response = <<>>
  /\ written = 0
  /\ acked = <<>>
  /\ requests = {}
  /\ delivered = <<>>
  /\ disconnects = <<>>

(* The rest of a handler that has called the application back. *)
Continue ==
  \/ OnConnectReturns
  \/ SkipPacket \/ DeliverPacket \/ OnReadReturns \/ ReceivedNullPacket
  \/ CorruptPacket \/ UnreadablePacket \/ PacketAhead \/ MissingPacket
  \/ PacketsDone

Application == Connect \/ Write \/ Close

Timers ==
  \/ HandshakeTimeout \/ HandshakeRetry
  \/ WriteTimer \/ CometTimer \/ TimeoutExpires

Network ==
  \/ HandshakeSuccess
  \/ \E notFound \in BOOLEAN : HandshakeFailure(notFound)
  \/ WriteSuccess \/ WriteFailure
  \/ \E sessionNotFound \in BOOLEAN : CometFailure(sessionNotFound)
  \/ \E batch \in Responses : CometSuccess(batch)
  \/ CometEmpty

Next == Application \/ Network \/ Timers \/ Continue

(* Handlers run to their end and timers fire; the network owes nothing. *)
Fairness ==
  /\ WF_vars(Continue)
  /\ WF_vars(HandshakeTimeout) /\ WF_vars(HandshakeRetry)
  /\ WF_vars(WriteTimer) /\ WF_vars(CometTimer) /\ WF_vars(TimeoutExpires)

Spec == Init /\ [][Next]_vars /\ Fairness
-----------------------------------------------------------------------------
Packet == [id : Nat \ {0}, data : Seq(1..MaxWrites)]

(* Every variable has its type (client.js init, transports.js). *)
TypeOK ==
  /\ readyState \in {"INITIAL", "CONNECTING", "CONNECTED", "DISCONNECTING",
                     "DISCONNECTED"}
  /\ hasKey \in BOOLEAN
  /\ writeBuffer \in Seq(1..MaxWrites)
  /\ packetsInFlight \in Seq(Packet)
  /\ lastSentId \in Nat
  /\ lastEventId \in {NoEvent} \cup 1..MaxEventId
  /\ nulls \subseteq {"inBuffer", "inFlight", "sent"}
  /\ timers \subseteq {"handshakeTimeout", "handshakeRetry", "write", "comet",
                       "timeout"}
  /\ sendXhr \in {Idle} \cup [kind : {"handshake"}, body : BOOLEAN]
                   \cup [kind : {"send"}, key : BOOLEAN, ack : 0..MaxEventId,
                         packets : Seq(Packet)]
  /\ cometXhr \in {Idle} \cup [kind : {"comet"}, key : BOOLEAN,
                               ack : 0..MaxEventId]
  /\ running \in {"none", "onconnect", "packets", "onread"}
  /\ response \in Seq(EventPackets)
  /\ written \in 0..MaxWrites
  /\ acked \in Seq(1..MaxWrites)
  /\ requests \subseteq Seq(Packet)
  /\ delivered \in Seq(1..MaxEventId)
  /\ disconnects \in Seq({"close", "protocol error", "clean", "unreachable"})

FlightData == IF packetsInFlight = <<>> THEN <<>> ELSE packetsInFlight[1].data

(* Nothing the application wrote is lost, repeated or reordered inside the *)
(* client, whatever was retried, closed or called from a callback: what is *)
(* acknowledged, in flight and buffered is all of it, in order (write,     *)
(* __doWrite, _writeSuccess).                                              *)
WritesConserved == acked \o FlightData \o writeBuffer = [i \in 1..written |-> i]

(* A packet id, once sent, always carries the same content, and nothing    *)
(* has an id above the null's: the server may drop what it has seen by id  *)
(* although a retry may put the null beside it (__doWrite, _writeFailure). *)
RetriesKeepPackets ==
  \A r, s \in requests : \A i \in DOMAIN r, j \in DOMAIN s :
    /\ r[i].id = s[j].id => r[i] = s[j]
    /\ r[i].data = <<>> => s[j].id =< r[i].id

(* Whatever ids the network answers with, twice, late or out of order, the *)
(* application reads consecutive packets, each once (_cometSuccess).       *)
DeliveredConsecutive ==
  \A i \in DOMAIN delivered : delivered[i] = delivered[1] + i - 1

(* No timer is set that would reopen an XHR that is still busy and so lose *)
(* the request it carries (transports.js reuses one XHR for every request  *)
(* of a kind).                                                             *)
NoRequestOverwritten ==
  /\ "comet" \in timers => cometXhr = Idle
  /\ timers \cap {"write", "handshakeRetry"} # {} => sendXhr = Idle
  /\ (readyState = "CONNECTED" /\ packetsInFlight = <<>>) => sendXhr = Idle

(* A connected session always has a comet out, a comet to come or a        *)
(* timeout that will end it, and data in flight has its answer or its      *)
(* retry to come (_cometFailure, _cometSuccess, _writeFailure).            *)
LoopsAlive ==
  (readyState = "CONNECTED" /\ Free) =>
    /\ cometXhr # Idle \/ timers \cap {"comet", "timeout"} # {}
    /\ packetsInFlight # <<>> => sendXhr # Idle \/ "write" \in timers

Rank == [s \in {"INITIAL", "CONNECTING", "CONNECTED", "DISCONNECTING",
                "DISCONNECTED"} |->
           CASE s = "INITIAL" -> 0 [] s = "CONNECTING" -> 1
             [] s = "CONNECTED" -> 2 [] s = "DISCONNECTING" -> 3
             [] s = "DISCONNECTED" -> 4]

(* The ready state never goes back, although answers and timers of the     *)
(* past arrive in every state and onread may close the session in the      *)
(* middle of a comet answer (_handshakeSuccess, _receivedNullPacket).      *)
ReadyStateAdvances == [][Rank[readyState'] >= Rank[readyState]]_vars

-----------------------------------------------------------------------------
SendingOver == sendXhr = Idle /\ "write" \notin timers

(* client.js:124, "send a null packet back to the server": a session that  *)
(* got the server's null has sent its own once it sends no more.           *)
NullSentBack ==
  ((\E i \in DOMAIN disconnects : disconnects[i] = "clean") /\ SendingOver)
    => "inFlight" \in nulls
=============================================================================
