------------------------------ MODULE CspServer ------------------------------
(***************************************************************************)
(* One session of the Ruby CSP server (lib/csp): Session, the Application  *)
(* handlers, AsyncBody and AsyncRequest, run by EventMachine's reactor.    *)
(*                                                                         *)
(* The reactor has one thread: an HTTP handler, a timer and a next_tick    *)
(* job each run to their end before anything else, so each is one action.  *)
(* The jobs found in the next_tick queue run as one batch, with neither a  *)
(* request nor a timer in between.  An exception raised by a job or by a   *)
(* timer leaves EventMachine.run and stops the reactor; one raised in a    *)
(* handler is rescued by the web server, what was assigned before it stays.*)
(***************************************************************************)
EXTENDS Integers, Sequences, FiniteSets

CONSTANTS
  Data,        \* payloads an application sends or receives
  Arrays,      \* those that came base64-encoded: unpack('m') makes an Array
  Null,        \* nil, the payload of the packet that close! queues
  App,         \* "echo" or "chat": which example's receive_data runs
  Requests,    \* the settings a request may carry, records [is, du]
  MaxComets,   \* bound: number of /comet requests
  MaxPackets   \* bound: packets the session is made to send

ASSUME DataAssumption == Arrays \subseteq Data /\ Null \notin Data
ASSUME AppAssumption == App \in {"echo", "chat"}
ASSUME RequestsAssumption ==
  Requests \subseteq [is : BOOLEAN, du : {"unset", "zero", "positive"}]
ASSUME BoundsAssumption == MaxComets \in Nat /\ MaxPackets \in Nat

VARIABLES
  registry,    \* @@all_sessions as far as this session goes
  settings,    \* self["is"] is set; whether self["du"] is zero
  packets,     \* payload of every Packet made; its id is its index
  unsent,      \* @unsent_packets, as a set of ids
  unacked,     \* @unacknowledged_packets, as a set of ids
  closed,      \* @closed
  comets,      \* one record per /comet: its AsyncBody, connection, duration
  timer,       \* @timer: the comet that started it, 0 for nil
  armed,       \* EventMachine timers that are still to fire
  tickQueue,   \* jobs given to EventMachine.next_tick
  draining,    \* jobs of the current batch that are still to run
  up,          \* the reactor is running
  wire,        \* every batch passed to an AsyncBody's block, in order
  calls        \* callbacks made on the application, in order

vars == <<registry, settings, packets, unsent, unacked, closed, comets, timer,
          armed, tickQueue, draining, up, wire, calls>>

-----------------------------------------------------------------------------
Ids == 1..Len(packets)
LastPacketId == Len(packets)

(* session.async_body: the body of the last /comet, 0 when there was none. *)
AsyncBody == Len(comets)

IsOpen(cs) == Len(cs) # 0 /\ cs[Len(cs)].status = "open"

WithStatus(cs, b, status) == [cs EXCEPT ![b] = [@ EXCEPT !.status = status]]

Succeed(cs) == WithStatus(cs, Len(cs), "succeeded")

SucceedAnyway(cs) == IF Len(cs) # 0 THEN Succeed(cs) ELSE cs  \* mutated form

SucceedIfOpen(cs) == IF IsOpen(cs) THEN Succeed(cs) ELSE cs

(* update_settings merges what the request carries; nothing is ever unset. *)
Merged(req) == [is |-> settings.is \/ req.is,
                du |-> IF req.du = "unset" THEN settings.du ELSE req.du]

NoAck == -1   \* the request has no "a" parameter

ForgottenEarly(ack) == {i \in unacked : i > ack + 1}           \* mutated form

(* acknowledge rejects every packet up to the acknowledged one. *)
LeftUnacked(ack) == {i \in unacked : i > ack}

TestedBefore(left) == closed /\ unacked = {}                   \* mutated form

(* closed?, once the packets acknowledged are gone. *)
ClosedWith(left) == closed /\ left = {}

(***************************************************************************)
(* environment_filters: the settings of the request, then its ack.  closed?*)
(* looks at the unacknowledged packets only, so a session whose last       *)
(* packets are still unsent is discarded too.  The handler goes on with    *)
(* the session object it already holds.                                    *)
(***************************************************************************)
Filtered(req, ack) ==
  LET left == LeftUnacked(ack)
      done == ack # NoAck /\ ClosedWith(left)
  IN [settings |-> Merged(req),
      unacked  |-> left,
      registry |-> IF done THEN "discarded" ELSE registry,
      comets   |-> IF done THEN SucceedIfOpen(comets) ELSE comets]

(* The same record when no request is being handled. *)
Unfiltered == [settings |-> settings, unacked |-> unacked,
               registry |-> registry, comets |-> comets]

(* packets.to_json: pack("m") has no conversion from an Array. *)
Serializable(ids, ps) == \A i \in ids : ps[i] \notin Arrays

FlushAndKeepUnsent(batch, f) ==                               \* mutated form
  /\ wire' = Append(wire, [body |-> Len(f.comets), ids |-> batch,
                           open |-> IsOpen(f.comets)])
  /\ comets' = IF f.settings.is THEN f.comets ELSE Succeed(f.comets)
  /\ unacked' = f.unacked \cup batch
  /\ unsent' = batch

(* flush!: the whole unsent batch goes to the block of the current body,   *)
(* whether or not that body is open.                                       *)
Flush(batch, f) ==
  /\ wire' = Append(wire, [body |-> Len(f.comets), ids |-> batch,
                           open |-> IsOpen(f.comets)])
  /\ comets' = IF f.settings.is THEN f.comets ELSE Succeed(f.comets)
  /\ unacked' = f.unacked \cup batch
  /\ unsent' = {}

NewBatch == unsent \cup {LastPacketId + 1}

(* send_data logs async_body.open? before it looks: nil raises there.      *)
SendRaises(d, f) ==
  \/ Len(f.comets) = 0
  \/ IsOpen(f.comets) /\ ~Serializable(NewBatch, Append(packets, d))

SendData(d, f) ==
  /\ packets' = Append(packets, d)
  /\ IF IsOpen(f.comets) /\ ~SendRaises(d, f)
       THEN Flush(NewBatch, f)
       ELSE /\ unsent' = NewBatch
            /\ unacked' = f.unacked
            /\ comets' = f.comets
            /\ UNCHANGED wire
-----------------------------------------------------------------------------
Job(call, arg) == [call |-> call, arg |-> arg]

CancelledLast(c) == armed \ {timer, c}                        \* mutated form

(* start_timer for comet c: cancel the timer in use, then add one. *)
Started(c) == (armed \ {timer}) \cup {c}

(* Packets that queued jobs may still make the session send. *)
Promised == Cardinality({i \in DOMAIN tickQueue :
                          tickQueue[i].call \in {"receive_data", "broadcast"}})

HandlerRuns == up /\ draining = 0

(* handshake: register, queue post_init, answer at once. *)
Handshake(req) ==
  /\ HandlerRuns
  /\ registry = "absent"
  /\ registry' = "live"
  /\ settings' = Merged(req)
  /\ tickQueue' = Append(tickQueue, Job("post_init", Null))
  /\ UNCHANGED <<packets, unsent, unacked, closed, comets, timer, armed,
                 draining, up, wire, calls>>

(* A request that names no registered session raises in                    *)
(* environment_filters and changes nothing, hence the guard.               *)
RequestArrives(ack) ==
  /\ HandlerRuns
  /\ registry = "live"
  /\ ack \in {NoAck, 0} \cup (Ids \ unsent)

(***************************************************************************)
(* comet: complete the body in use if it is open, answer with a new one on *)
(* the next tick, restart the timer.  `request[Duration] == 0' compares a  *)
(* string with a number, so the immediate branch is never taken and the    *)
(* unsent packets stay where they are.                                     *)
(***************************************************************************)
Comet(req, ack) ==
  LET f == Filtered(req, ack) IN
  /\ RequestArrives(ack)
  /\ AsyncBody < MaxComets
  /\ comets' = Append(SucceedIfOpen(f.comets),
                      [status |-> "pending", gone |-> FALSE,
                       du |-> f.settings.du])
  /\ timer' = AsyncBody + 1
  /\ armed' = Started(AsyncBody + 1)
  /\ tickQueue' = Append(tickQueue, Job("respond", AsyncBody + 1))
  /\ registry' = f.registry
  /\ settings' = f.settings
  /\ unacked' = f.unacked
  /\ UNCHANGED <<packets, unsent, closed, draining, up, wire, calls>>

(* One job per packet of the request, ids ignored.  The block's parameter  *)
(* hides the handler's variable of the same name, as in Ruby since 1.9.    *)
ReceiveJobs(batch) == [i \in DOMAIN batch |-> Job("receive_data", batch[i])]

CspSend(req, ack, batch) ==
  LET f == Filtered(req, ack) IN
  /\ RequestArrives(ack)
  /\ LastPacketId + Promised + Len(batch) =< MaxPackets
  /\ tickQueue' = tickQueue \o ReceiveJobs(batch)
  /\ registry' = f.registry
  /\ settings' = f.settings
  /\ unacked' = f.unacked
  /\ comets' = f.comets
  /\ UNCHANGED <<packets, unsent, closed, timer, armed, draining, up, wire,
                 calls>>

(* What close! and close do after send_data(nil), if that returns. *)
MarkClosed(raised) ==
  IF raised THEN UNCHANGED <<closed, tickQueue>>
  ELSE /\ closed' = TRUE
       /\ tickQueue' = Append(tickQueue, Job("unbind", Null))

(* close: queue the null packet, mark the session, queue unbind.  When     *)
(* send_data raises, neither of the last two happens.                      *)
Close(req, ack) ==
  LET f == Filtered(req, ack) IN
  /\ RequestArrives(ack)
  /\ LastPacketId + Promised < MaxPackets
  /\ SendData(Null, f)
  /\ registry' = f.registry
  /\ settings' = f.settings
  /\ MarkClosed(SendRaises(Null, f))
  /\ UNCHANGED <<timer, armed, draining, up, calls>>

(* Another session's /send, in the chat application: its receive_data will *)
(* call send_data on every registered session.                             *)
OtherSend(d) ==
  /\ HandlerRuns
  /\ App = "chat"
  /\ registry = "live"
  /\ LastPacketId + Promised < MaxPackets
  /\ tickQueue' = Append(tickQueue, Job("broadcast", d))
  /\ UNCHANGED <<registry, settings, packets, unsent, unacked, closed, comets,
                 timer, armed, draining, up, wire, calls>>
-----------------------------------------------------------------------------
(* The job at the head of the queue runs; the batch is what the queue held *)
(* when its first job started.                                             *)
RunJob(call) ==
  /\ up
  /\ tickQueue # <<>>
  /\ Head(tickQueue).call = call
  /\ tickQueue' = Tail(tickQueue)
  /\ draining' = IF draining = 0 THEN Len(tickQueue) - 1 ELSE draining - 1

Called == calls' = Append(calls, Head(tickQueue))

(* The web server starts the answer: it registers its callback on the body *)
(* (whose status becomes :unknown) and iterates it (which sets the block). *)
Respond ==
  LET b == Head(tickQueue).arg IN
  /\ RunJob("respond")
  /\ comets' = WithStatus(comets, b, "open")
  /\ UNCHANGED <<registry, settings, packets, unsent, unacked, closed, timer,
                 armed, up, wire, calls>>

PostInit ==
  /\ RunJob("post_init")
  /\ Called
  /\ UNCHANGED <<registry, settings, packets, unsent, unacked, closed, comets,
                 timer, armed, up, wire>>

Unbind ==
  /\ RunJob("unbind")
  /\ Called
  /\ UNCHANGED <<registry, settings, packets, unsent, unacked, closed, comets,
                 timer, armed, up, wire>>

(* receive_data is send_data in the echo example; in the chat example it   *)
(* is send_data on the sessions still registered.                          *)
Reaches == App = "echo" \/ registry = "live"

JobSends(d) ==
  IF Reaches
    THEN SendData(d, Unfiltered) /\ up' = ~SendRaises(d, Unfiltered)
    ELSE UNCHANGED <<packets, unsent, unacked, comets, wire, up>>

ReceiveData ==
  /\ RunJob("receive_data")
  /\ Called
  /\ JobSends(Head(tickQueue).arg)
  /\ UNCHANGED <<registry, settings, closed, timer, armed>>

Broadcast ==
  /\ RunJob("broadcast")
  /\ JobSends(Head(tickQueue).arg)
  /\ UNCHANGED <<registry, settings, closed, timer, armed, calls>>

Tick == Respond \/ PostInit \/ ReceiveData \/ Broadcast \/ Unbind

(***************************************************************************)
(* The block of start_timer: flush! without a look at the body, which      *)
(* calls nil when the body of the latest comet has no block yet.  The body *)
(* of the timer's own comet has one by then, unless its duration is zero;  *)
(* other jobs may wait, as the reactor runs timers before them.            *)
(***************************************************************************)
TimerFires(t) ==
  /\ HandlerRuns
  /\ t \in armed
  /\ comets[t].status # "pending" \/ comets[t].du = "zero"
  /\ armed' = armed \ {t}
  /\ IF comets[AsyncBody].status = "pending" \/ ~Serializable(unsent, packets)
       THEN up' = FALSE /\ UNCHANGED <<unsent, unacked, comets, wire>>
       ELSE Flush(unsent, Unfiltered) /\ UNCHANGED up
  /\ UNCHANGED <<registry, settings, packets, closed, timer, tickQueue,
                 draining, calls>>

Dropped(body) ==
  [body EXCEPT !.gone = TRUE,
               !.status = IF body.status = "open" THEN "failed" ELSE body.status]

(* The client's connection breaks.  The web server fails a body it has     *)
(* started to send; one still pending will be opened on a dead connection. *)
ConnectionLost(b) ==
  /\ HandlerRuns
  /\ b \in DOMAIN comets
  /\ comets[b].status \in {"pending", "open"}
  /\ ~comets[b].gone
  /\ comets' = [comets EXCEPT ![b] = Dropped(@)]
  /\ UNCHANGED <<registry, settings, packets, unsent, unacked, closed, timer,
                 armed, tickQueue, draining, up, wire, calls>>
-----------------------------------------------------------------------------
Init ==
  /\ registry = "absent"
  /\ settings = [is |-> FALSE, du |-> "positive"]
  /\ packets = <<>>
  /\ unsent = {}
  /\ unacked = {}
  /\ closed = FALSE
  /\ comets = <<>>
  /\ timer = 0
  /\ armed = {}
  /\ tickQueue = <<>>
  /\ draining = 0
  /\ up = TRUE
  /\ wire = <<>>
  /\ calls = <<>>

Acks == {NoAck} \cup 0..MaxPackets

(* A client's own null packet reaches the application as nil. *)
Payloads == Data \cup {Null}
Batches == UNION {[1..n -> Payloads] : n \in 1..2}

Next ==
  \/ \E req \in Requests : Handshake(req)
  \/ \E req \in Requests, ack \in Acks : Comet(req, ack)
  \/ \E req \in Requests, ack \in Acks, batch \in Batches :
       CspSend(req, ack, batch)
  \/ \E req \in Requests, ack \in Acks : Close(req, ack)
  \/ \E d \in Payloads : OtherSend(d)
  \/ Tick
  \/ \E t \in 1..MaxComets : TimerFires(t)
  \/ \E b \in 1..MaxComets : ConnectionLost(b)

(* The reactor runs its queue and its timers; clients owe it nothing. *)
Spec ==
  /\ Init /\ [][Next]_vars
  /\ WF_vars(Tick)
  /\ \A t \in 1..MaxComets : WF_vars(TimerFires(t))
-----------------------------------------------------------------------------
Jobs ==
  [call : {"post_init", "unbind"}, arg : {Null}]
    \cup [call : {"receive_data", "broadcast"}, arg : Payloads]
    \cup [call : {"respond"}, arg : 1..Len(comets)]

Bodies == [status : {"pending", "open", "succeeded", "failed"},
           gone : BOOLEAN, du : {"zero", "positive"}]

(* Every variable has its type: ids name packets made, timers and queued   *)
(* answers name comets received (session.rb, application.rb).              *)
TypeOK ==
  /\ registry \in {"absent", "live", "discarded"}
  /\ settings \in [is : BOOLEAN, du : {"zero", "positive"}]
  /\ packets \in Seq(Payloads)
  /\ unsent \in SUBSET Ids
  /\ unacked \in SUBSET Ids
  /\ closed \in BOOLEAN
  /\ comets \in Seq(Bodies)
  /\ timer \in 0..Len(comets)
  /\ armed \in SUBSET (1..Len(comets))
  /\ tickQueue \in Seq(Jobs)
  /\ draining \in 0..Len(tickQueue)
  /\ up \in BOOLEAN
  /\ wire \in Seq([body : 1..Len(comets), ids : SUBSET Ids, open : BOOLEAN])
  /\ calls \in Seq(Jobs)

(* The two buffers are the end of the stream: whatever was acknowledged    *)
(* late, twice or out of order, no packet is missing between the first one *)
(* still held and the last one made, and what is unacknowledged is older   *)
(* than what is unsent (acknowledge, mark_packets_as_sent!).               *)
BuffersContiguous ==
  /\ \A i \in unacked, j \in unsent : i < j
  /\ \A i \in unacked \cup unsent : i..LastPacketId \subseteq unacked \cup unsent

(* A packet is written down the wire exactly once, unless it is still      *)
(* unsent, and in the order of the ids, whichever bodies carried it: this  *)
(* server neither repeats nor overtakes (flush!, comet, the timer's block).*)
WrittenOnceInOrder ==
  /\ \A i \in Ids : i \in unsent <=> ~ \E k \in DOMAIN wire : i \in wire[k].ids
  /\ \A j, k \in DOMAIN wire :
       j < k => \A p \in wire[j].ids, q \in wire[k].ids : p < q

(* Only the last comet's timer is ever pending: an older one would flush   *)
(* and complete a body it was not started for (start_timer, cancel_timer). *)
SingleTimer == armed \subseteq {timer} /\ timer = AsyncBody

(* A long poll that is being answered or still to be opened has its timer  *)
(* running, so it cannot be left hanging (comet, start_timer, flush!).     *)
OpenCometIsTimed ==
  (/\ up
   /\ ~settings.is
   /\ AsyncBody # 0
   /\ comets[AsyncBody].status \in {"pending", "open"})
    => AsyncBody \in armed

(* Without streaming an AsyncBody carries at most one batch while open: a  *)
(* second one would follow the end of the answer (flush!).                 *)
OneBatchPerBody ==
  \A j, k \in DOMAIN wire :
    (j # k /\ wire[j].open /\ wire[k].open /\ wire[j].body = wire[k].body)
      => settings.is

(* A closed session with nothing left to write or to be acknowledged is no *)
(* longer registered: the request that acknowledged its last packet has    *)
(* discarded it, and no later one has to (acknowledge, closed?, close!).   *)
FinishedSessionLeaves ==
  closed /\ unacked = {} /\ unsent = {} => registry = "discarded"

(* A body that was completed is never opened again, and only a pending one *)
(* is opened at all, although its answer is a queued job that nothing      *)
(* cancels (comet, respond_asynchronously, discard_session).               *)
CompletedStays ==
  [][\A b \in DOMAIN comets :
       /\ comets[b].status = "succeeded" => comets'[b].status = "succeeded"
       /\ comets'[b].status = "open" => comets[b].status \in {"pending", "open"}]_vars

(* The current long poll ends: a send, the timer, a newer comet or the     *)
(* loss of its connection completes it, unless the reactor stops.          *)
CometCompletes ==
  \A c \in 1..MaxComets :
    (/\ AsyncBody = c
     /\ comets[c].status \in {"pending", "open"}
     /\ ~settings.is)
      ~> (\/ AsyncBody # c
          \/ comets[c].status \in {"succeeded", "failed"}
          \/ settings.is
          \/ ~up)

(* A packet left unsent when a body opens is written while that body is    *)
(* there, at the latest when the timer fires: nothing needs a second send. *)
UnsentWritten ==
  \A i \in 1..MaxPackets :
    (i \in unsent /\ IsOpen(comets)) ~> (i \notin unsent \/ ~IsOpen(comets) \/ ~up)
-----------------------------------------------------------------------------
(* async_body.rb:10, "when 'send_data' gets called, we use the block to    *)
(* send data down the wire": a batch with packets in it is given to a body *)
(* that is open, for it is not kept for another try.                       *)
BatchesGoToOpenBodies == \A k \in DOMAIN wire : wire[k].ids # {} => wire[k].open
=============================================================================
