------------------------------ MODULE NodeLink ------------------------------
(***************************************************************************)
(* One jsio CometSession (CspClient) talking over HTTP to one session of   *)
(* the node server (NodeSession).  Each request of the client's two XHRs   *)
(* travels, is handled, and is answered; at any point it may fail for the  *)
(* client, and what was still travelling may then be handled late or never.*)
(* The client changes no variable after the handshake and never asks for   *)
(* /close.  The application of the server sends, closes and throws at will.*)
(***************************************************************************)
EXTENDS Integers, Sequences, FiniteSets

CONSTANTS
  MaxWrites,   \* bound: write() calls of the client
  MaxOut,      \* bound: packets the server makes
  MaxComets,   \* bound: /comet requests handled
  MaxFaults    \* bound: requests that fail without the server refusing them

ASSUME LinkBounds ==
  /\ MaxWrites \in Nat /\ MaxOut \in Nat
  /\ MaxComets \in Nat /\ MaxFaults \in Nat

VARIABLES
  (* the client's *)
  readyState, hasKey, writeBuffer, packetsInFlight, lastSentId, lastEventId,
  nulls, timers, sendXhr, cometXhr, running, response, written, acked,
  requests, delivered, disconnects,
  (* the server's *)
  session, connectionState, variables, outgoing, lastOutId, serverAcked,
  serverNulls, incoming, lastInId, received, poll, timeout, handling,
  (* the network's *)
  sendStage,   \* where the request of the 'send' XHR is
  cometStage,  \* the same for the 'comet' XHR
  cometOpen,   \* the server's response to the 'comet' XHR, 0 if none
  abandoned,   \* requests given up by the client and still travelling
  faults       \* failures so far

MaxIn == MaxWrites + 2
MaxEventId == MaxOut
MaxBatch == MaxOut
Changes == {[field |-> "contentType", value |-> TRUE]}

Client == INSTANCE CspClient
Server == INSTANCE NodeSession WITH
  readyState <- connectionState, acked <- serverAcked, nulls <- serverNulls,
  running <- handling

clientVars ==
  <<readyState, hasKey, writeBuffer, packetsInFlight, lastSentId, lastEventId,
    nulls, timers, sendXhr, cometXhr, running, response, written, acked,
    requests, delivered, disconnects>>
serverVars ==
  <<session, connectionState, variables, outgoing, lastOutId, serverAcked,
    serverNulls, incoming, lastInId, received, poll, timeout, handling>>
linkVars == <<sendStage, cometStage, cometOpen, abandoned, faults>>
vars == <<clientVars, serverVars, linkVars>>
-----------------------------------------------------------------------------
(* A request handed to an XHR starts to travel. *)
Stage(before, now, stage) ==
  IF now \in {before, Client!Idle} THEN stage ELSE "travelling"

ClientRuns ==
  /\ Client!Application \/ Client!Timers \/ Client!Continue
  /\ sendStage' = Stage(sendXhr, sendXhr', sendStage)
  /\ cometStage' = Stage(cometXhr, cometXhr', cometStage)
  /\ UNCHANGED <<serverVars, cometOpen, abandoned, faults>>

ServerRuns ==
  /\ Server!Application \/ Server!Timers \/ Server!Deliver \/ Server!ReceiveEnds("send")
  /\ UNCHANGED <<clientVars, linkVars>>

(* The handler of a /send comes to its end, with 'OK' or, after a throw of *)
(* the application, with 500; its client may have given the request up.    *)
SendHandled(answer) ==
  /\ sendStage' = IF sendStage = "handled" THEN answer ELSE sendStage
  /\ UNCHANGED <<clientVars, cometStage, cometOpen, abandoned, faults>>

HandlerEnds ==
  \/ Server!SendAnswered /\ SendHandled("answered")
  \/ Server!ReceiveEnds("none") /\ SendHandled("refused")
-----------------------------------------------------------------------------
(* A session that is not in sessionDict, as that of a null key, is a 400. *)
Refuses(req) == ~req.key \/ session \notin {"live", "torn"}

NodePacket(p) == [id |-> p.id, kind |-> IF p.data = <<>> THEN "null" ELSE "data"]

ServerHandles(req) ==
  IF req.kind = "send"
    THEN Server!Send(req.ack,
                     [i \in DOMAIN req.packets |-> NodePacket(req.packets[i])])
    ELSE Server!Comet(req.ack, Server!NoChange)

(* Without a body there is no JSON to make a session of. *)
HandshakeArrives ==
  /\ sendStage = "travelling" /\ sendXhr.kind = "handshake"
  /\ IF sendXhr.body
       THEN /\ \E c \in Changes : Server!Handshake(c)
            /\ sendStage' = "answered"
       ELSE sendStage' = "refused" /\ UNCHANGED serverVars
  /\ UNCHANGED <<clientVars, cometStage, cometOpen, abandoned, faults>>

SendArrives ==
  /\ sendStage = "travelling" /\ sendXhr.kind = "send"
  /\ IF Refuses(sendXhr)
       THEN sendStage' = "refused" /\ UNCHANGED serverVars
       ELSE sendStage' = "handled" /\ ServerHandles(sendXhr)
  /\ UNCHANGED <<clientVars, cometStage, cometOpen, abandoned, faults>>

CometArrives ==
  /\ cometStage = "travelling"
  /\ IF Refuses(cometXhr)
       THEN /\ cometStage' = "refused"
            /\ UNCHANGED <<serverVars, cometOpen>>
       ELSE /\ cometStage' = "held"
            /\ ServerHandles(cometXhr)
            /\ cometOpen' = Len(poll'.responses)
  /\ UNCHANGED <<clientVars, sendStage, abandoned, faults>>

AbandonedArrives(a) ==
  /\ a \in abandoned
  /\ ~Refuses(a.req)
  /\ ServerHandles(a.req)
  /\ abandoned' = abandoned \ {a}
  /\ UNCHANGED <<clientVars, sendStage, cometStage, cometOpen, faults>>
-----------------------------------------------------------------------------
SendSucceeds ==
  /\ sendStage = "answered"
  /\ Client!HandshakeSuccess \/ Client!WriteSuccess
  /\ sendStage' = IF sendXhr' = Client!Idle THEN "none" ELSE "travelling"
  /\ UNCHANGED <<serverVars, cometStage, cometOpen, abandoned, faults>>

EventPacket(id) == [id |-> id, kind |-> IF id \in serverNulls THEN "null" ELSE "data"]

(* A poll that is over has had one batch, an empty one from its timer. *)
CometSucceeds ==
  /\ cometStage = "held"
  /\ ~poll.responses[cometOpen].open
  /\ LET ids == poll.responses[cometOpen].written
     IN  Client!CometSuccess([i \in DOMAIN ids |-> EventPacket(ids[i])])
  /\ cometStage' = "none"
  /\ cometOpen' = 0
  /\ UNCHANGED <<serverVars, sendStage, abandoned, faults>>

(* A failure that is no refusal is a fault of the network. *)
Counted(stage) ==
  IF stage = "refused" THEN UNCHANGED faults
                       ELSE faults < MaxFaults /\ faults' = faults + 1

Abandoned(stage, req) ==
  abandoned' = abandoned \cup
    IF stage = "travelling" THEN {[no |-> faults, req |-> req]} ELSE {}

(* The session that a failed handshake makes, early or late, is another one. *)
HandshakeFails ==
  /\ sendStage \in {"travelling", "refused"}
  /\ \E notFound \in BOOLEAN :
       /\ Client!HandshakeFailure(notFound)
       /\ sendStage = "refused" => ~notFound
  /\ Counted(sendStage)
  /\ sendStage' = "none"
  /\ UNCHANGED <<serverVars, cometStage, cometOpen, abandoned>>

SendFails ==
  /\ Client!WriteFailure
  /\ Counted(sendStage)
  /\ Abandoned(sendStage, sendXhr)
  /\ sendStage' = "none"
  /\ UNCHANGED <<serverVars, cometStage, cometOpen>>

CometFails ==
  /\ Client!CometFailure(FALSE)
  /\ Counted(cometStage)
  /\ Abandoned(cometStage, cometXhr)
  /\ cometStage' = "none"
  /\ cometOpen' = 0
  /\ UNCHANGED <<serverVars, sendStage>>
-----------------------------------------------------------------------------
Init ==
  /\ Client!Init /\ Server!Init
  /\ sendStage = "none" /\ cometStage = "none"
  /\ cometOpen = 0
  /\ abandoned = {}
  /\ faults = 0

Next ==
  \/ ClientRuns \/ ServerRuns \/ HandlerEnds
  \/ HandshakeArrives \/ SendArrives \/ CometArrives
  \/ \E a \in abandoned : AbandonedArrives(a)
  \/ SendSucceeds \/ CometSucceeds
  \/ HandshakeFails \/ SendFails \/ CometFails

Spec == Init /\ [][Next]_vars
-----------------------------------------------------------------------------

(* The server drops no packet that the client has not got past, however    *)
(* old the acknowledgement is that reaches it, and what it keeps it writes *)
(* so that the client never meets a hole (receiveAck, dispatch.comet,      *)
(* _cometSuccess).                                                         *)
DroppedWasSeen ==
  /\ \A i \in 1..lastOutId :
       (\E j \in DOMAIN outgoing : outgoing[j] = i) \/ i =< lastEventId
  /\ \A i \in DOMAIN disconnects : disconnects[i] # "protocol error"

DataOf(id) ==
  LET r == CHOOSE r \in requests : \E i \in DOMAIN r : r[i].id = id
  IN  r[CHOOSE i \in DOMAIN r : r[i].id = id].data

(* A null that follows data in its batch is received as that data again.   *)
NullReceived ==
  \E i \in DOMAIN received : i > 1 /\ DataOf(i) = <<>> /\ received[i] = i - 1

(* The application of the server gets every write once and in order, but   *)
(* for a null that repeats the last ones, whatever failed, was repeated or *)
(* came late, and although it may throw between two packets of a batch; and*)
(* what the client no longer holds has been given to it (dispatch.send,    *)
(* _writeSuccess, _writeFailure).                                          *)
WritesArriveOnce ==
  LET last    == Len(received) - IF NullReceived THEN 1 ELSE 0
      data(i) == DataOf(received[i])
      upto(i) == IF i = 0 THEN 0 ELSE data(i)[Len(data(i))]
  IN  /\ \A i \in 1..last :
           /\ data(i) # <<>>
           /\ data(i) = [j \in 1..Len(data(i)) |-> upto(i - 1) + j]
      /\ written - Len(Client!FlightData) - Len(writeBuffer) =< upto(last)

Packet(id) == <<id, EventPacket(id).kind>>

Promise == INSTANCE OrderedStream WITH
  Values <- (1..MaxOut) \X {"data", "null"},
  sent   <- [i \in 1..lastOutId |-> Packet(i)],
  first  <- IF delivered = <<>> THEN 0 ELSE 1,
  read   <- [i \in DOMAIN delivered |-> Packet(delivered[i])]

(* The client's application reads all of what the server's application     *)
(* sent up to some packet: the run begins with the first, whatever the     *)
(* network loses, repeats or delays, since the server keeps what is not    *)
(* acknowledged (server.js, client.js).                                    *)
ReadsFromTheFirst == Promise!Spec
=============================================================================
