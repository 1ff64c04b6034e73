---------------------------- MODULE MsppProtocol ----------------------------
(***************************************************************************)
(* MSPPProtocol (net/protocols/mspp.js): streams that share a connection,  *)
(* which is opened with the first stream and again when a stream is opened *)
(* after it was lost.  What is written meanwhile waits in writeBuffer.     *)
(*                                                                         *)
(* The connection cuts what the other end writes into any chunks; the      *)
(* protocol looks for one frame in its buffer each time a chunk arrives.   *)
(* The other end is no part of the repository: it sends well-formed frames *)
(* for the streams that were opened on the connection it has.              *)
(***************************************************************************)
EXTENDS Buffer

CONSTANTS
  MaxStreams,      \* bound: streams the application opens
  MaxWrites,       \* bound: other frames it writes
  MaxFrames,       \* bound: frames of the other end, in all
  MaxConnections   \* bound: connections
ASSUME MsppAssumption ==
  /\ MaxStreams \in 1..9
  /\ MaxWrites \in Nat /\ MaxFrames \in Nat /\ MaxConnections \in Nat

OPEN == "0"
CLOSE == "1"
DATA == "2"
\* What the other end says of a stream: its data may look like a length.
Answers ==
  {[type |-> OPEN, data |-> <<>>], [type |-> CLOSE, data |-> <<"x">>],
   [type |-> DATA, data |-> <<":">>]}

VARIABLES
  state,        \* this.state: "closed", "connecting" or "consuming"
  currentId,    \* this.currentId: streams 1..currentId are in this.streams
  writeBuffer,  \* this.writeBuffer: frames that waited for a connection
  buffer,       \* the characters of this.buffer
  fresh,        \* the streams opened since a connection was last lost
  up,           \* the frames written on this connection
  wire,         \* the characters of the other end that are under way
  down,         \* the frames the other end sent on this connection
  heard,        \* what the streams heard on this connection, frame by frame
  glued,        \* a chunk held more than one frame, or the end of another
  count         \* how many connections, frames written, frames sent

msppVars == <<state, currentId, writeBuffer, buffer, fresh, up, wire, down, heard, glued, count>>
-----------------------------------------------------------------------------
Frame(id, type, data) == [id |-> id, type |-> type, data |-> data]

(* length:id,type data *)
Encoded(f) ==
  LET s == <<Digits[f.id + 1], ",", f.type>> \o f.data
  IN  <<Digits[Len(s) + 1], ":">> \o s

(* _write: a frame that cannot be written yet waits. *)
WriteFrame(f) ==
  IF state = "consuming" THEN up' = Append(up, f) /\ UNCHANGED writeBuffer
                         ELSE writeBuffer' = Append(writeBuffer, f) /\ UNCHANGED up

(* openStream: without a connection it starts one, with the frame waiting. *)
OpenStream ==
  /\ currentId < MaxStreams
  /\ state = "closed" => count.connections < MaxConnections
  /\ state' = IF state = "closed" THEN "connecting" ELSE state
  /\ count' = IF state = "closed" THEN [count EXCEPT !.connections = @ + 1] ELSE count
  /\ currentId' = currentId + 1
  /\ fresh' = fresh \cup {currentId'}
  /\ WriteFrame(Frame(currentId', OPEN, <<"h">>))
  /\ UNCHANGED <<buffer, wire, down, heard, glued>>

(* writeToStream and closeStream: neither asks what became of the stream.  *)
StreamWrites(id, type) ==
  /\ count.writes < MaxWrites
  /\ count' = [count EXCEPT !.writes = @ + 1]
  /\ WriteFrame(Frame(id, type, IF type = DATA THEN <<"x">> ELSE <<>>))
  /\ UNCHANGED <<state, currentId, buffer, fresh, wire, down, heard, glued>>

FlushTwice == up' = up \o writeBuffer \o writeBuffer          \* mutated form

(* connectionMade: `writeBuffer = []' assigns a global, so what waited is   *)
(* written again on every later connection.                                *)
Flush == up' = writeBuffer

ConnectionMade ==
  /\ state = "connecting"
  /\ state' = "consuming"
  /\ Flush
  /\ UNCHANGED <<currentId, writeBuffer, buffer, fresh, wire, down, heard, glued, count>>

(* connectionLost tells every stream there ever was; the buffer stays.     *)
ConnectionLost ==
  /\ state \in {"connecting", "consuming"}
  /\ state' = "closed"
  /\ fresh' = {} /\ up' = <<>> /\ wire' = <<>> /\ down' = <<>> /\ heard' = <<>>
  /\ UNCHANGED <<currentId, writeBuffer, buffer, glued, count>>
-----------------------------------------------------------------------------
OpenedUp(id) == \E i \in DOMAIN up : up[i].id = id /\ up[i].type = OPEN

PeerSends(id, a) ==
  /\ state = "consuming" /\ OpenedUp(id)
  /\ count.frames < MaxFrames
  /\ count' = [count EXCEPT !.frames = @ + 1]
  /\ down' = Append(down, Frame(id, a.type, a.data))
  /\ wire' = wire \o Encoded(Frame(id, a.type, a.data))
  /\ UNCHANGED <<state, currentId, writeBuffer, buffer, fresh, up, heard, glued>>

(* The frame in front of the buffer, or that there is none yet. *)
LengthString(s) == PeekToDelimiter(s, ":")
LengthOnly(s) ==                                              \* mutated form
  ParseInt(LengthString(s)) = NaN \/ HasBytes(s, ParseInt(LengthString(s)))
WholeFrame(s) ==
  LET n == ParseInt(LengthString(s))
  IN  n = NaN \/ HasBytes(s, n + Len(LengthString(s)) + 1)

(* bufferUpdated takes one frame: its id up to the comma, one character of *)
(* type, and as many of data as the length leaves.  Without a comma it     *)
(* throws, and the length is gone.                                         *)
TakeFrame(s) ==
  LET body == AfterDelimiter(s, ":")
      idString == PeekToDelimiter(body, ",")
      typed == AfterDelimiter(body, ",")
      length == ParseInt(LengthString(s))
      left == IF length = NaN THEN NaN ELSE length - (Len(idString) + 2)
  IN  IF ~HasDelimiter(body, ",")
        THEN [rest |-> body, frame |-> Frame(NaN, "none", <<>>)]
        ELSE LET content == AfterBytes(typed, 1)
             IN  [rest |-> AfterBytes(content, left),
                  frame |-> Frame(ParseInt(idString),
                                  IF typed = <<>> THEN "none" ELSE typed[1],
                                  PeekBytes(content, left))]

(* A frame for a stream there is not, or of no known type, throws. *)
Dispatched(f) == f.id \in 1..currentId /\ f.type \in {OPEN, CLOSE, DATA}

(* What is left of the frame in front of what has not arrived: a chunk     *)
(* that goes past it brings two frames together.                           *)
Arrived(n) == buffer \o SubSeq(wire, 1, n)
PastFrame(n) ==
  /\ HasDelimiter(Arrived(n), ":")
  /\ Len(Arrived(n)) > ParseInt(LengthString(Arrived(n))) + Len(LengthString(Arrived(n))) + 1

DataReceived(n) ==
  /\ state = "consuming" /\ n \in 1..Len(wire)
  /\ wire' = SubSeq(wire, n + 1, Len(wire))
  /\ glued' = (glued \/ PastFrame(n))
  /\ IF HasDelimiter(Arrived(n), ":") /\ WholeFrame(Arrived(n))
       THEN LET taken == TakeFrame(Arrived(n))
            IN  /\ buffer' = taken.rest
                /\ heard' = IF Dispatched(taken.frame) THEN Append(heard, taken.frame) ELSE heard
       ELSE buffer' = Arrived(n) /\ UNCHANGED heard
  /\ UNCHANGED <<state, currentId, writeBuffer, fresh, up, down, count>>
-----------------------------------------------------------------------------
MsppInit ==
  /\ state = "closed"
  /\ currentId = 0
  /\ writeBuffer = <<>> /\ buffer = <<>> /\ fresh = {}
  /\ up = <<>> /\ wire = <<>> /\ down = <<>> /\ heard = <<>>
  /\ glued = FALSE
  /\ count = [connections |-> 0, writes |-> 0, frames |-> 0]

MsppNext ==
  \/ OpenStream \/ ConnectionMade \/ ConnectionLost
  \/ \E id \in 1..currentId :
       \/ \E type \in {CLOSE, DATA} : StreamWrites(id, type)
       \/ \E a \in Answers : PeerSends(id, a)
  \/ \E n \in 1..Len(wire) : DataReceived(n)

MsppSpec == MsppInit /\ [][MsppNext]_msppVars
-----------------------------------------------------------------------------

(* On every connection a stream is opened at most once, however often what *)
(* waited is written again, and one that was opened since the last loss is *)
(* opened before anything else is written for it (openStream, _write).     *)
OpenedOnceBeforeUse ==
  state = "consuming" =>
    \A i \in DOMAIN up :
      /\ up[i].type = OPEN => \A j \in DOMAIN up : up[j] = up[i] => j = i
      /\ (up[i].type # OPEN /\ up[i].id \in fresh)
           => \E j \in 1..(i - 1) : up[j].id = up[i].id /\ up[j].type = OPEN

(* As long as no chunk holds more than the rest of one frame, wherever the *)
(* chunks cut it, the streams hear the frames as they were sent, and every *)
(* one that has arrived (bufferUpdated).                                   *)
HeardAsSent ==
  (~glued /\ count.connections = 1) =>
    /\ IsPrefix(heard, down)
    /\ wire = <<>> => heard = down

-----------------------------------------------------------------------------
(* mspp.js:12, "length_after_colon:id,0": a frame is as long as it says,   *)
(* so one that follows it is there for the next time; however the chunks   *)
(* fall, the streams hear a part of what was sent and nothing is skipped.  *)
NoFrameSkipped == count.connections = 1 => IsPrefix(heard, down)
=============================================================================
