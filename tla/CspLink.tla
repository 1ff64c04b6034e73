------------------------------- MODULE CspLink -------------------------------
(***************************************************************************)
(* One jsio CometSession (CspClient) talking over HTTP to one session of   *)
(* the Ruby server (CspServer).  Each request of the client's two XHRs     *)
(* travels, is handled, and is answered; at any point it may fail for the  *)
(* client, and what was still travelling may then be handled late or never.*)
(* The client never asks for /close; the application is the echo example.  *)
(***************************************************************************)
EXTENDS Integers, Sequences, FiniteSets

CONSTANTS
  Arrays,      \* payloads the server's base64 decoding makes Arrays of
  MaxWrites,   \* bound: write() calls of the client
  MaxComets,   \* bound: /comet requests handled
  MaxPackets,  \* bound: packets the server is made to send
  MaxFaults    \* bound: requests that fail while the server is there

VARIABLES
  (* the client's *)
  readyState, hasKey, writeBuffer, packetsInFlight, lastSentId, lastEventId,
  nulls, timers, sendXhr, cometXhr, running, response, written, acked,
  requests, delivered, disconnects,
  (* the server's *)
  registry, settings, packets, unsent, unacked, closed, comets, timer, armed,
  tickQueue, draining, up, wire, calls,
  (* the network's *)
  sendStage,   \* where the request of the 'send' XHR is
  cometStage,  \* the same for the 'comet' XHR
  cometBody,   \* the server's body that answers the 'comet' XHR, 0 if none
  abandoned,   \* requests given up by the client and still travelling
  faults       \* failures so far

(* A payload is the run of writes that one packet carries; nil is empty. *)
Null == <<>>
Data == UNION {{[i \in 1..m - k |-> k + i] : k \in 0..m - 1} : m \in 1..MaxWrites}
Plain == [is |-> FALSE, du |-> "unset"]
Requests == {Plain}
App == "echo"
MaxEventId == MaxPackets
MaxBatch == MaxPackets

ASSUME LinkBounds ==
  /\ Arrays \subseteq Data
  /\ {MaxWrites, MaxComets, MaxPackets, MaxFaults} \subseteq Nat

Client == INSTANCE CspClient
Server == INSTANCE CspServer

clientVars ==
  <<readyState, hasKey, writeBuffer, packetsInFlight, lastSentId, lastEventId,
    nulls, timers, sendXhr, cometXhr, running, response, written, acked,
    requests, delivered, disconnects>>
serverVars ==
  <<registry, settings, packets, unsent, unacked, closed, comets, timer, armed,
    tickQueue, draining, up, wire, calls>>
linkVars == <<sendStage, cometStage, cometBody, abandoned, faults>>
vars == <<clientVars, serverVars, linkVars>>
-----------------------------------------------------------------------------
(* A request handed to an XHR starts to travel. *)
Sending == sendStage' = IF sendXhr' \in {sendXhr, Client!Idle} THEN sendStage
                                                               ELSE "travelling"
Polling == cometStage' = IF cometXhr' \in {cometXhr, Client!Idle} THEN cometStage
                                                                  ELSE "travelling"

ClientRuns ==
  /\ Client!Application \/ Client!Timers \/ Client!Continue
  /\ Sending /\ Polling
  /\ UNCHANGED <<serverVars, cometBody, abandoned, faults>>

ServerRuns ==
  /\ \/ Server!Tick
     \/ \E t \in 1..MaxComets : Server!TimerFires(t)
  /\ UNCHANGED <<clientVars, linkVars>>

(* The server notices that the connection of a request it holds is gone. *)
ServerNoticesLoss(b) ==
  /\ b # cometBody
  /\ Server!ConnectionLost(b)
  /\ UNCHANGED <<clientVars, linkVars>>
-----------------------------------------------------------------------------
(* A handler raises for a session it does not find, and for a null key.    *)
Refuses(req) == ~up \/ ~req.key \/ registry # "live"

ServerHandles(req) ==
  IF req.kind = "send"
    THEN Server!CspSend(Plain, req.ack,
                        [i \in DOMAIN req.packets |-> req.packets[i].data])
    ELSE Server!Comet(Plain, req.ack)

HandshakeArrives ==
  /\ sendStage = "travelling" /\ sendXhr.kind = "handshake"
  /\ Server!Handshake(Plain)
  /\ sendStage' = "answered"
  /\ UNCHANGED <<clientVars, cometStage, cometBody, abandoned, faults>>

SendArrives ==
  /\ sendStage = "travelling" /\ sendXhr.kind = "send"
  /\ IF Refuses(sendXhr)
       THEN sendStage' = "refused" /\ UNCHANGED serverVars
       ELSE sendStage' = "answered" /\ ServerHandles(sendXhr)
  /\ UNCHANGED <<clientVars, cometStage, cometBody, abandoned, faults>>

CometArrives ==
  /\ cometStage = "travelling"
  /\ IF Refuses(cometXhr)
       THEN /\ cometStage' = "refused"
            /\ UNCHANGED <<serverVars, cometBody>>
       ELSE /\ cometStage' = "held"
            /\ ServerHandles(cometXhr)
            /\ cometBody' = Len(comets')
  /\ UNCHANGED <<clientVars, sendStage, abandoned, faults>>

AbandonedArrives(a) ==
  /\ a \in abandoned
  /\ ~Refuses(a.req)
  /\ ServerHandles(a.req)
  /\ abandoned' = abandoned \ {a}
  /\ UNCHANGED <<clientVars, sendStage, cometStage, cometBody, faults>>
-----------------------------------------------------------------------------
SendSucceeds ==
  /\ sendStage = "answered"
  /\ Client!HandshakeSuccess \/ Client!WriteSuccess
  /\ sendStage' = IF sendXhr' = Client!Idle THEN "none" ELSE "travelling"
  /\ UNCHANGED <<serverVars, cometStage, cometBody, abandoned, faults>>

(* What the web server sent on the connection of body b while it was open. *)
Received(b) ==
  UNION {wire[k].ids : k \in {j \in DOMAIN wire : wire[j].body = b /\ wire[j].open}}

Written(b) == \E k \in DOMAIN wire : wire[k].body = b /\ wire[k].open

EventPacket(id) ==
  [id |-> id, kind |-> IF packets[id] = Null THEN "null" ELSE "data"]

(* A batch holds consecutive packets. *)
Batch(ids) ==
  LET before == CHOOSE n \in 0..Len(packets) :
                  ids = (n + 1)..(n + Cardinality(ids))
  IN [i \in 1..Cardinality(ids) |-> EventPacket(before + i)]

(* A body completed without a batch, by a newer comet or with the session, *)
(* is an empty answer.                                                     *)
CometSucceeds ==
  /\ cometStage = "held"
  /\ comets[cometBody].status = "succeeded"
  /\ IF Written(cometBody)
       THEN Client!CometSuccess(Batch(Received(cometBody)))
       ELSE Client!CometEmpty
  /\ cometStage' = "none"
  /\ cometBody' = 0
  /\ UNCHANGED <<serverVars, sendStage, abandoned, faults>>

(* A failure the server had no part in is a fault of the network. *)
Counted(blameless) ==
  IF blameless THEN faults < MaxFaults /\ faults' = faults + 1
               ELSE UNCHANGED faults

Abandoned(stage, req) ==
  abandoned' = abandoned \cup
    IF stage = "travelling" THEN {[no |-> faults, req |-> req]} ELSE {}

(* The session that a failed handshake makes, early or late, is another one. *)
HandshakeFails ==
  /\ sendStage = "travelling"
  /\ \E notFound \in BOOLEAN : Client!HandshakeFailure(notFound)
  /\ Counted(TRUE)
  /\ sendStage' = "none"
  /\ UNCHANGED <<serverVars, cometStage, cometBody, abandoned>>

SendFails ==
  /\ Client!WriteFailure
  /\ Counted(sendStage # "refused")
  /\ Abandoned(sendStage, sendXhr)
  /\ sendStage' = "none"
  /\ UNCHANGED <<serverVars, cometStage, cometBody>>

CometFails ==
  /\ Client!CometFailure(FALSE)
  /\ Counted(cometStage # "refused" /\ up)
  /\ Abandoned(cometStage, cometXhr)
  /\ cometStage' = "none"
  /\ cometBody' = 0
  /\ UNCHANGED <<serverVars, sendStage>>
-----------------------------------------------------------------------------
Init ==
  /\ Client!Init /\ Server!Init
  /\ sendStage = "none" /\ cometStage = "none"
  /\ cometBody = 0
  /\ abandoned = {}
  /\ faults = 0

Next ==
  \/ ClientRuns \/ ServerRuns
  \/ \E b \in 1..MaxComets : ServerNoticesLoss(b)
  \/ HandshakeArrives \/ SendArrives \/ CometArrives
  \/ \E a \in abandoned : AbandonedArrives(a)
  \/ SendSucceeds \/ CometSucceeds
  \/ HandshakeFails \/ SendFails \/ CometFails

Spec == Init /\ [][Next]_vars
-----------------------------------------------------------------------------

(* The server forgets no packet that the client has not got past, however  *)
(* old the acknowledgement is that reaches it (acknowledge, _cometSuccess).*)
ForgottenWasSeen ==
  \A i \in 1..Len(packets) : i \notin unsent \cup unacked => i =< lastEventId

Holds(s, w) == \E i \in DOMAIN s : s[i] = w

Brings(jobs, w) ==
  \E i \in DOMAIN jobs : jobs[i].call = "receive_data" /\ Holds(jobs[i].arg, w)

(* A write has been given to the server's application, or is queued for it.*)
IsReceived(w) == Brings(calls, w) \/ Brings(tickQueue, w)

(* What the client no longer holds, neither in flight nor in its buffer,   *)
(* has been received, whatever failed on the way (csp_send, _writeSuccess, *)
(* _writeFailure).                                                         *)
ReleasedWasReceived ==
  \A w \in 1..written :
    Holds(Client!FlightData, w) \/ Holds(writeBuffer, w) \/ IsReceived(w)

(* What the server's application is given, then what is queued for it.     *)
Given == calls \o tickQueue

(* Each write of a job is later than those before it, here and in every    *)
(* earlier job.                                                            *)
InOrder(jobs) ==
  \A i, j \in {n \in DOMAIN jobs : jobs[n].call = "receive_data"} :
    \A k \in DOMAIN jobs[i].arg, l \in DOMAIN jobs[j].arg :
      (i < j \/ (i = j /\ k < l)) => jobs[i].arg[k] < jobs[j].arg[l]

LostToFinishedBody == \E k \in DOMAIN wire : wire[k].ids # {} /\ ~wire[k].open

(* While no request fails, the application of the server gets the writes   *)
(* once and in order, although it ignores the ids of the packets, and the  *)
(* client misses a packet, or finds a hole, only if the server wrote a     *)
(* batch to a body that was over (csp_send, _doWrite, flush!,              *)
(* _cometSuccess).                                                         *)
NothingLostWithoutCause ==
  faults = 0 =>
    /\ InOrder(Given)
    /\ \A w \in 2..written : IsReceived(w) => IsReceived(w - 1)
    /\ ~LostToFinishedBody =>
         /\ \A i \in DOMAIN delivered : delivered[i] = i
         /\ \A i \in DOMAIN disconnects : disconnects[i] # "protocol error"

Promise == INSTANCE OrderedStream WITH
  Values <- Data \cup {Null},
  sent   <- packets,
  first  <- IF delivered = <<>> THEN 0 ELSE delivered[1],
  read   <- [i \in DOMAIN delivered |-> packets[delivered[i]]]

(* The client's application reads consecutive packets of what the server's *)
(* application sent, each once, whatever the network loses, repeats or     *)
(* delays: the session implements OrderedStream (session.rb, client.js).   *)
ReadsOrderedStream == Promise!Spec
=============================================================================
