----------------------------- MODULE NodeSession -----------------------------
(***************************************************************************)
(* One session of the CSP server for node (net/env/node/csp/server.js):    *)
(* its two packet buffers, the response of its comet, its timers and its   *)
(* connection.                                                             *)
(*                                                                         *)
(* node runs each handler and each timer to its end, but 'receive' calls   *)
(* the application in the middle of a /send, and the application may send, *)
(* close or throw from there, or throw when the session ends; what else it *)
(* listens to ('connect', 'close') returns.  `running' names the place     *)
(* where the handler stands.  A timer that is set may fire: durations are  *)
(* left out.                                                               *)
(***************************************************************************)
EXTENDS Integers, Sequences, FiniteSetsExt

CONSTANTS
  MaxOut,      \* bound: packets the server makes
  MaxIn,       \* bound: packets the client makes, the last of them its null
  MaxComets,   \* bound: /comet requests
  Changes      \* what a request may set: a field of variables and its value

Fields == {"isStreaming", "duration", "interval", "sse", "contentType"}
NoChange == [field |-> "none", value |-> FALSE]

ASSUME BoundsAssumption ==
  MaxOut \in Nat /\ MaxIn \in Nat /\ MaxComets \in Nat
ASSUME ChangesAssumption ==
  Changes \subseteq {NoChange} \cup [field : Fields, value : BOOLEAN]

VARIABLES
  session,     \* "none", "live" in sessionDict, "torn" if it was ended and
               \* is still there, or "gone" from it
  readyState,  \* connection.readyState
  variables,   \* this.variables: for each field, whether it is set
  outgoing,    \* this.outgoingPacketBuffer: the ids in it
  lastOutId,   \* this.outgoingPacketId - 1
  acked,       \* the highest id the client has acknowledged
  nulls,       \* the ids of the nulls among the packets made
  incoming,    \* this.incomingPacketBuffer: whose data waits under an id
  lastInId,    \* this.lastSequentialIncomingId
  received,    \* whose data was given to the application, in order
  poll,        \* the comet: responses, the current one, its timers
  timeout,     \* this.timeoutTimer is set
  running      \* "send" in the delivery loop of a /send, "receive" in the
               \* application it calls, or "none"

buffers == <<outgoing, lastOutId, acked, nulls>>
reading == <<incoming, lastInId, received>>
vars == <<session, readyState, variables, buffers, reading, poll, timeout, running>>
-----------------------------------------------------------------------------
Ids(n) == 1..n
None == 0

Run(first, last) == [i \in 1..(last - first + 1) |-> first + i - 1]

Streaming(v) == v["isStreaming"] /\ v["duration"]

WithDurationCleared(p) == [p EXCEPT !.durations = @ \ {p.latest}]

WithEnd(p) == [p EXCEPT !.responses[p.comet].open = FALSE, !.comet = None]

WithWritten(p, ids) ==
  [p EXCEPT !.responses[p.comet].written = @ \o ids]

(* sendBatch: a batch goes into an open stream, or completes a poll. *)
WithBatch(p, v, ids) ==
  IF Streaming(v)
    THEN [WithWritten(p, ids) EXCEPT !.interval = v["interval"]]
    ELSE WithDurationCleared(WithEnd(WithWritten(p, ids)))

(* completeResponse: a stream is closed, a poll gets an empty batch. *)
WithComplete(p, v) ==
  IF Streaming(v)
    THEN WithDurationCleared([WithEnd(p) EXCEPT !.interval = FALSE])
    ELSE WithBatch(p, v, <<>>)

(* An empty batch has no last packet for the sse suffix, and there may be  *)
(* no response left to write to: each throws.                              *)
EmptyBatchThrows(p, v) == v["sse"] \/ p.comet = None
CompleteThrows(p, v) ==
  IF Streaming(v) THEN p.comet = None ELSE EmptyBatchThrows(p, v)

WithResponse(p) ==
  [p EXCEPT !.responses = Append(@, [open |-> TRUE, written |-> <<>>]),
            !.comet = Len(p.responses) + 1]

WithDuration(p) ==
  [p EXCEPT !.durations = @ \cup {p.comet}, !.latest = p.comet]

AnsweredOnce(p, v, ids) ==                                    \* mutated form
  IF ids # <<>> THEN WithBatch(WithResponse(p), v, ids)
                ELSE WithResponse(p)

(* dispatch.comet: the response takes the place of whatever was there; a   *)
(* stream starts; what is buffered is sent; what stays open gets a timer.  *)
WithComet(p, v, ids) ==
  LET opened == IF Streaming(v)
                  THEN [WithResponse(p) EXCEPT !.interval = v["interval"]]
                  ELSE WithResponse(p)
      sent == IF ids # <<>> THEN WithBatch(opened, v, ids) ELSE opened
  IN  IF ids = <<>> \/ Streaming(v) THEN WithDuration(sent) ELSE sent

UnackedButNext(id) ==                                         \* mutated form
  SelectSeq(outgoing, LAMBDA i : i > id + 1)

(* receiveAck shifts ids off the front as long as they are acknowledged. *)
Shifted(id) ==
  CHOOSE n \in 0..Len(outgoing) :
    /\ \A i \in 1..n : outgoing[i] =< id
    /\ n < Len(outgoing) => outgoing[n + 1] > id

Unacked(id) == SubSeq(outgoing, Shifted(id) + 1, Len(outgoing))
-----------------------------------------------------------------------------
Free == running = "none"
ApplicationRuns == running \in {"none", "receive"} /\ session # "none"

WholeBuffer(id) == Append(outgoing, id)                       \* mutated form
OnePacket(id) == <<id>>

SessionSendOnce(kept, p, v) ==                                \* mutated form
  /\ lastOutId < MaxOut
  /\ lastOutId' = lastOutId + 1
  /\ outgoing' = IF p.comet # None THEN kept ELSE Append(kept, lastOutId + 1)
  /\ poll' = IF p.comet # None
               THEN WithBatch(p, v, OnePacket(lastOutId + 1)) ELSE p

(* Session.send: the packet is buffered until it is acknowledged, and sent *)
(* at once when there is a comet.                                          *)
SessionSend(kept, p, v) ==
  /\ lastOutId < MaxOut
  /\ lastOutId' = lastOutId + 1
  /\ outgoing' = Append(kept, lastOutId + 1)
  /\ poll' = IF p.comet # None
               THEN WithBatch(p, v, OnePacket(lastOutId + 1)) ELSE p

(* Session.close: a null, and nothing more to be written. *)
SessionClose(kept, p, v) ==
  /\ SessionSend(kept, p, v)
  /\ nulls' = nulls \cup {lastOutId + 1}
  /\ readyState' = IF readyState = "open" THEN "readOnly" ELSE "closed"

(* teardownSession: what throws in a listener of 'eof' keeps the session   *)
(* where requests find it; a timer may end it once more.                   *)
Teardown(throws) ==
  /\ session' = IF throws /\ session # "gone" THEN "torn" ELSE "gone"
  /\ readyState' = IF readyState = "open" THEN "writeOnly" ELSE "closed"

(* Connection.send throws unless the connection can be written to. *)
ConnectionSend ==
  /\ ApplicationRuns
  /\ readyState \in {"open", "writeOnly"}
  /\ SessionSend(outgoing, poll, variables)
  /\ UNCHANGED <<session, readyState, variables, acked, nulls, reading,
                 timeout, running>>

ConnectionClose ==
  /\ ApplicationRuns
  /\ SessionClose(outgoing, poll, variables)
  /\ UNCHANGED <<session, variables, acked, reading, timeout, running>>
-----------------------------------------------------------------------------
(* A handshake must carry a JSON object; the session starts with the       *)
(* default variables, changed by those of the request.                     *)
Defaults == [f \in Fields |-> f = "duration"]

Changed(v, c) ==
  [f \in Fields |-> IF f = c.field THEN c.value ELSE v[f]]

Handshake(c) ==
  /\ Free /\ session = "none"
  /\ session' = "live"
  /\ readyState' = "open"
  /\ variables' = Changed(variables, c)
  /\ timeout' = TRUE
  /\ UNCHANGED <<buffers, reading, poll, running>>

(* Whether updateVars first completes the comet of the old content type.   *)
Completes(c) ==
  /\ c.field = "contentType" /\ c.value # variables["contentType"]
  /\ poll.comet # None

UpdateThrows(c) == Completes(c) /\ CompleteThrows(poll, variables)

PollAfter(c) == IF Completes(c) THEN WithComplete(poll, variables) ELSE poll

(* receiveAck, before anything else of a request with a session. *)
ReceiveAck(ack) ==
  /\ Free /\ session \in {"live", "torn"}
  /\ timeout' = TRUE
  /\ acked' = IF ack > acked THEN ack ELSE acked

DropAcked(ack) ==
  /\ outgoing' = Unacked(ack)
  /\ UNCHANGED <<lastOutId, nulls>>

(* A request that gets as far as its resource. *)
Request(ack, c) ==
  /\ ReceiveAck(ack)
  /\ ~UpdateThrows(c)
  /\ variables' = Changed(variables, c)

(* One whose variables cannot be updated is answered 500. *)
RequestFails(ack, c) ==
  /\ ReceiveAck(ack)
  /\ DropAcked(ack)
  /\ UpdateThrows(c)
  /\ UNCHANGED <<session, readyState, variables, reading, poll, running>>

Comet(ack, c) ==
  /\ Request(ack, c)
  /\ DropAcked(ack)
  /\ Len(poll.responses) < MaxComets
  /\ poll' = WithComet(PollAfter(c), Changed(variables, c), Unacked(ack))
  /\ UNCHANGED <<session, readyState, reading, running>>

Close(ack, c) ==
  /\ Request(ack, c)
  /\ DropAcked(ack)
  /\ \E throws \in BOOLEAN : Teardown(throws)
  /\ poll' = WithDurationCleared(PollAfter(c))
  /\ UNCHANGED <<reading, running>>

(* /reflect, /streamtest, and a /send whose data is no batch. *)
OtherRequest(ack, c) ==
  /\ Request(ack, c)
  /\ DropAcked(ack)
  /\ poll' = PollAfter(c)
  /\ UNCHANGED <<session, readyState, reading, running>>
-----------------------------------------------------------------------------
(* The packets of a client: its null comes last.  What has an encoding the *)
(* server does not know ends its batch, so its id makes no difference.     *)
Packets ==
  {[id |-> i, kind |-> IF i = MaxIn THEN "null" ELSE "data"] : i \in Ids(MaxIn)}
    \cup {[id |-> MaxIn, kind |-> "unknown"]}

(* What a client sends together: ids that follow each other. *)
Batches ==
  {<<p>> : p \in Packets}
    \cup {b \in Packets \X Packets : b[2].id = b[1].id + 1}

(* An encoding that is not known ends the loop: the rest is dropped. *)
Known(b) ==
  LET bad == {i \in DOMAIN b : b[i].kind = "unknown"}
  IN  IF bad = {} THEN b ELSE SubSeq(b, 1, Min(bad) - 1)

Closes(b) == \E i \in DOMAIN b : b[i].kind = "null"

(* packetContent after the i-th packet: it is a var of the whole handler,  *)
(* so a null leaves in it what the packet before had put there.            *)
PacketContent(b, i) ==
  LET data == {j \in 1..i : b[j].kind = "data"}
  IN  IF data = {} THEN None ELSE b[Max(data)].id

StoredAbsolute(b) ==                                          \* mutated form
  [x \in DOMAIN incoming \cup {b[i].id + lastInId : i \in DOMAIN b}
     |-> IF x - lastInId \in {b[i].id : i \in DOMAIN b} THEN x - lastInId
                                                        ELSE incoming[x]]

(* incomingPacketBuffer[id - 1 - lastSequentialIncomingId] = packetContent *)
(* for each: an index below zero is none of the elements, and undefined is *)
(* no element.                                                             *)
Stored(b) ==
  LET new == {i \in DOMAIN b : b[i].id > lastInId}
      ids == {b[i].id : i \in new}
      set == {i \in new : PacketContent(b, i) # None}
  IN  [x \in (DOMAIN incoming \ ids) \cup {b[i].id : i \in set}
         |-> IF x \in ids
               THEN PacketContent(b, CHOOSE i \in set : b[i].id = x)
               ELSE incoming[x]]

(* dispatch.send: a null closes the session at once, before anything of    *)
(* the batch is given to the application.  A /send that changes a variable *)
(* does what another request with that change and then this one do.        *)
Send(ack, b) ==
  /\ Request(ack, NoChange)
  /\ IF Closes(Known(b))
       THEN SessionClose(Unacked(ack), poll, variables)
       ELSE DropAcked(ack) /\ UNCHANGED <<readyState, poll>>
  /\ incoming' = Stored(Known(b))
  /\ running' = "send"
  /\ UNCHANGED <<session, lastInId, received>>

(* The delivery loop: everything there is in sequence. *)
Deliver ==
  /\ running = "send"
  /\ lastInId + 1 \in DOMAIN incoming
  /\ received' = Append(received, incoming[lastInId + 1])
  /\ incoming' = [i \in DOMAIN incoming \ {lastInId + 1} |-> incoming[i]]
  /\ lastInId' = lastInId + 1
  /\ running' = "receive"
  /\ UNCHANGED <<session, readyState, variables, buffers, poll, timeout>>

(* The application returns, or throws as an echo does that sends on what   *)
(* was closed: the request is then answered 500 and the rest waits.        *)
ReceiveEnds(next) ==
  /\ running = "receive"
  /\ running' = next
  /\ UNCHANGED <<session, readyState, variables, buffers, reading, poll,
                 timeout>>

SendAnswered ==
  /\ running = "send"
  /\ lastInId + 1 \notin DOMAIN incoming
  /\ running' = "none"
  /\ UNCHANGED <<session, readyState, variables, buffers, reading, poll,
                 timeout>>
-----------------------------------------------------------------------------
(* A duration timer completes whatever response is the current one.  What  *)
(* throws in a timer is caught and dropped by $setTimeout (base.js).       *)
DurationFires(t) ==
  /\ Free /\ t \in poll.durations
  /\ LET fired == [poll EXCEPT !.durations = @ \ {t}]
     IN  poll' = IF CompleteThrows(poll, variables)
                   THEN fired ELSE WithComplete(fired, variables)
  /\ UNCHANGED <<session, readyState, variables, buffers, reading, timeout,
                 running>>

IntervalFires ==
  /\ Free /\ poll.interval
  /\ LET fired == [poll EXCEPT !.interval = FALSE]
     IN  poll' = IF EmptyBatchThrows(poll, variables)
                   THEN fired ELSE WithBatch(fired, variables, <<>>)
  /\ UNCHANGED <<session, readyState, variables, buffers, reading, timeout,
                 running>>

(* The timer is not cleared by /close: it may end the session again. *)
TimeoutFires ==
  /\ Free /\ timeout
  /\ timeout' = FALSE
  /\ \E throws \in BOOLEAN : Teardown(throws)
  /\ poll' = WithDurationCleared(poll)
  /\ UNCHANGED <<variables, buffers, reading, running>>
-----------------------------------------------------------------------------
Init ==
  /\ session = "none"
  /\ readyState = "open"
  /\ variables = Defaults
  /\ outgoing = <<>> /\ lastOutId = 0 /\ acked = 0 /\ nulls = {}
  /\ incoming = <<>> /\ lastInId = 0 /\ received = <<>>
  /\ poll = [responses |-> <<>>, comet |-> None, durations |-> {},
             latest |-> None, interval |-> FALSE]
  /\ timeout = FALSE
  /\ running = "none"

Application == ConnectionSend \/ ConnectionClose

ClientRequests ==
  \/ \E c \in Changes : Handshake(c)
  \/ \E ack \in 0..lastOutId :
       \/ \E c \in Changes :
            Comet(ack, c) \/ Close(ack, c) \/ OtherRequest(ack, c) \/ RequestFails(ack, c)
       \/ \E b \in Batches : Send(ack, b)

Continue ==
  \/ Deliver \/ SendAnswered
  \/ ReceiveEnds("send") \/ ReceiveEnds("none")

Timers ==
  \/ \E t \in Ids(MaxComets) : DurationFires(t)
  \/ IntervalFires
  \/ TimeoutFires

Next == Application \/ ClientRequests \/ Continue \/ Timers

(* A handler runs on, and a duration timer gets its turn between the other *)
(* events however many there are.                                          *)
Fairness ==
  /\ WF_vars(Continue)
  /\ SF_vars(\E t \in Ids(MaxComets) : DurationFires(t))

Spec == Init /\ [][Next]_vars /\ Fairness
-----------------------------------------------------------------------------
Response == [open : BOOLEAN, written : Seq(Ids(MaxOut))]

(* Every variable has its type (server.js Session#init). *)
TypeOK ==
  /\ session \in {"none", "live", "torn", "gone"}
  /\ readyState \in {"open", "readOnly", "writeOnly", "closed"}
  /\ variables \in [Fields -> BOOLEAN]
  /\ outgoing \in Seq(Ids(MaxOut))
  /\ lastOutId \in 0..MaxOut
  /\ acked \in 0..MaxOut
  /\ nulls \subseteq Ids(MaxOut)
  /\ DOMAIN incoming \subseteq Ids(MaxIn)
  /\ \A i \in DOMAIN incoming : incoming[i] \in Ids(MaxIn)
  /\ lastInId \in 0..MaxIn
  /\ received \in Seq(Ids(MaxIn))
  /\ poll \in [responses : Seq(Response), comet : 0..MaxComets,
               durations : SUBSET Ids(MaxComets), latest : 0..MaxComets,
               interval : BOOLEAN]
  /\ poll.comet # None => poll.comet = Len(poll.responses)
  /\ \A t \in poll.durations : poll.responses[t].open
  /\ timeout \in BOOLEAN
  /\ running \in {"none", "send", "receive"}

(* The buffer is the unbroken end of what was made, and holds everything   *)
(* the client has not acknowledged, whatever was sent of it and to which   *)
(* response (send, receiveAck).                                            *)
UnackedKept ==
  /\ outgoing = Run(lastOutId - Len(outgoing) + 1, lastOutId)
  /\ lastOutId - Len(outgoing) =< acked

(* No response carries a packet twice, or two packets out of order; and    *)
(* one that stays open has got everything that is buffered: no long poll   *)
(* waits beside a packet, no stream has a gap, also when the settings      *)
(* change under it (comet, send, sendBatch).                               *)
ResponsesKeepUp ==
  /\ \A n \in DOMAIN poll.responses :
       LET w == poll.responses[n].written
       IN  w # <<>> => w = Run(w[1], w[Len(w)])
  /\ poll.comet # None =>
       \A i \in DOMAIN outgoing :
         \E j \in DOMAIN poll.responses[poll.comet].written :
           poll.responses[poll.comet].written[j] = outgoing[i]

(* Whatever the client repeats or reorders, the application gets one thing *)
(* for each id, in the order of the ids, and it is the data of that packet *)
(* unless the packet is the null (dispatch.send).                          *)
ReceivedInSequence ==
  /\ Len(received) = lastInId
  /\ \A i \in DOMAIN received : received[i] = i \/ i = MaxIn

(* The current response of a session has its timer until it is completed:  *)
(* with packets, changes and older timers in any order, it is left without *)
(* one only by a timer that fired on a poll with server-sent events, whose *)
(* empty batch throws, or by the end of the session, also where that was   *)
(* not carried through (sendBatch, completeResponse, teardownSession).     *)
CurrentIsTimed ==
  [][(session' = "live" /\ poll'.comet # None /\ poll'.comet \notin poll'.durations)
       => /\ poll'.comet = poll.comet
          /\ \/ poll.comet \notin poll.durations
             \/ variables["sse"] /\ ~Streaming(variables)]_vars

(* The current response is completed, replaced or taken down in the end,   *)
(* in a session that never asks for server-sent events.                    *)
PollEnds ==
  ([](~variables["sse"])) =>
    \A n \in Ids(MaxComets) :
      (poll.comet = n /\ session = "live") ~> (poll.comet # n \/ session # "live")
-----------------------------------------------------------------------------
(* server.js:253, "start a duration timer, after which the response will   *)
(* always complete": every response that is open has a timer.              *)
ResponsesComplete ==
  \A n \in DOMAIN poll.responses :
    poll.responses[n].open => n \in poll.durations
=============================================================================
