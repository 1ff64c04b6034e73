--------------------------- MODULE CspServerSafety ---------------------------
(* The safety of the stream and of the comets of CspServer, for every      *)
(* application, setting and bound: first the packets, then the bodies.     *)
EXTENDS CspServerProofs, FiniteSetTheorems

(***************************************************************************)
(* The packets: BuffersContiguous and WrittenOnceInOrder are inductive     *)
(* together.  StreamOf says of the unacknowledged packets a handler is     *)
(* left with what BuffersContiguous says of unacked.                       *)
(***************************************************************************)
StreamOf(ua) ==
  /\ \A i \in ua, j \in unsent : i < j
  /\ \A i \in ua \cup unsent : i..LastPacketId \subseteq ua \cup unsent

StreamInv == TypeOK /\ BuffersContiguous /\ WrittenOnceInOrder

(* Rejecting what is at most ack keeps the end of the stream an end. *)
LEMMA FilteredStream ==
  ASSUME StreamInv, NEW req \in Requests, NEW ack \in Acks
  PROVE  StreamOf(Filtered(req, ack).unacked)
<1>1. Filtered(req, ack).unacked = {i \in unacked : i > ack}
  BY DEF Filtered, LeftUnacked
<1>2. ack \in Int /\ unacked \subseteq Int /\ unsent \subseteq Int /\ LastPacketId \in Int
  BY BoundsAssumption, Lengths DEF Acks, NoAck, StreamInv, TypeOK, Ids, LastPacketId
<1>3. \A i \in unacked, j \in unsent : i < j
  BY DEF StreamInv, BuffersContiguous
<1>4. \A i \in unacked \cup unsent : i..LastPacketId \subseteq unacked \cup unsent
  BY DEF StreamInv, BuffersContiguous
<1> DEFINE left == {i \in unacked : i > ack}
<1>5. ASSUME NEW i \in left \cup unsent, NEW j \in i..LastPacketId
      PROVE  j \in left \cup unsent
  BY <1>2, <1>3, <1>4, <1>5
<1> QED
  BY <1>1, <1>3, <1>5 DEF StreamOf

(* What is unsent reaches to the last packet made. *)
LEMMA UnsentIsEnd ==
  ASSUME StreamInv, NEW i \in unsent, NEW j \in Ids, i =< j
  PROVE  j \in unsent
<1>1. i \in Nat /\ j \in Nat /\ j =< LastPacketId /\ LastPacketId \in Nat
  BY Lengths DEF StreamInv, TypeOK, Ids, LastPacketId
<1>2. j \in i..LastPacketId
  BY <1>1
<1>3. j \in unacked \cup unsent
  BY <1>2 DEF StreamInv, BuffersContiguous
<1>4. j \in unacked => j < i
  BY DEF StreamInv, BuffersContiguous
<1> QED
  BY <1>1, <1>3, <1>4

(* Writing everything that is unsent, with n packets made afterwards.      *)
LEMMA FlushStream ==
  ASSUME StreamInv, NEW f, StreamOf(f.unacked), FilterType(f),
         NEW n \in Nat, Len(packets') = n, Len(packets) =< n,
         NEW batch, batch = unsent \cup (Len(packets) + 1)..n,
         Flush(batch, f)
  PROVE  BuffersContiguous' /\ WrittenOnceInOrder'
<1> DEFINE m == Len(packets)
           Entries == [body : 1..Len(comets), ids : SUBSET Ids, open : BOOLEAN]
           w == Len(wire)
<1>1. /\ m \in Nat /\ n \in Nat /\ m =< n /\ Ids = 1..m /\ Ids' = 1..n
      /\ LastPacketId = m /\ LastPacketId' = n /\ unsent \subseteq 1..m
      /\ f.unacked \subseteq 1..m
  BY Lengths DEF Ids, LastPacketId, StreamInv, TypeOK, FilterType
<1>2. unacked' = f.unacked \cup batch /\ unsent' = {}
  BY DEF Flush
<1>3. /\ w \in Nat /\ DOMAIN wire = 1..w /\ DOMAIN wire' = 1..(w + 1)
      /\ \A k \in 1..w : wire'[k] = wire[k] /\ wire[k].ids \subseteq 1..m
      /\ wire'[w + 1].ids = batch
  <2>1. wire \in Seq(Entries)
    BY DEF StreamInv, TypeOK
  <2>2. wire' = Append(wire, [body |-> Len(f.comets), ids |-> batch,
                              open |-> IsOpen(f.comets)])
    BY DEF Flush
  <2>3. w \in Nat /\ DOMAIN wire = 1..w
    BY <2>1, LenProperties
  <2>4. \A k \in 1..w : wire[k].ids \subseteq 1..m
    <3>1. \A k \in 1..w : wire[k] \in Entries
      <4> HIDE DEF Entries
      <4> QED
        BY <2>1, ElementOfSeq
    <3> QED
      BY <1>1, <3>1
  <2>5. /\ DOMAIN wire' = 1..(w + 1) /\ \A k \in 1..w : wire'[k] = wire[k]
        /\ wire'[w + 1].ids = batch
    BY <2>1, <2>2, <2>3
  <2> QED
    BY <2>3, <2>4, <2>5
<1> HIDE DEF w, Entries
<1>4. BuffersContiguous'
  <2>1. ASSUME NEW i \in f.unacked \cup batch, NEW j \in i..n
        PROVE  j \in f.unacked \cup batch
    <3>1. CASE j > m
      BY <1>1, <3>1
    <3>2. CASE j =< m
      <4>1. i \in f.unacked \cup unsent /\ j \in i..LastPacketId
        BY <1>1, <3>2
      <4> QED
        BY <4>1 DEF StreamOf
    <3>3. j \in Int /\ m \in Int
      BY <1>1
    <3> QED
      BY <1>1, <3>1, <3>2, <3>3
  <2> QED
    BY <1>1, <1>2, <2>1 DEF BuffersContiguous
<1>5. ASSUME NEW i \in 1..n
      PROVE  \E k \in 1..(w + 1) : i \in wire'[k].ids
  <2>1. CASE i \in batch
    BY <1>3, <2>1
  <2>2. CASE i \notin batch
    <3>1. i \in Ids /\ i \notin unsent
      BY <1>1, <2>2
    <3>2. \E k \in 1..w : i \in wire[k].ids
      BY <1>3, <3>1 DEF StreamInv, WrittenOnceInOrder
    <3> QED
      BY <1>3, <3>2
  <2> QED
    BY <2>1, <2>2
<1>6. ASSUME NEW j \in 1..(w + 1), NEW k \in 1..(w + 1), j < k,
             NEW p \in wire'[j].ids, NEW q \in wire'[k].ids
      PROVE  p < q
  <2>1. j \in 1..w /\ p \in wire[j].ids /\ p \in 1..m
    BY <1>3, <1>6
  <2>2. CASE k \in 1..w
    BY <1>3, <1>6, <2>1, <2>2 DEF StreamInv, WrittenOnceInOrder
  <2>3. CASE k = w + 1
    <3>1. p \in Ids /\ p \notin unsent
      BY <1>1, <1>3, <2>1 DEF StreamInv, WrittenOnceInOrder
    <3>2. q \in batch
      BY <1>3, <2>3
    <3>3. CASE q \in unsent
      BY <1>1, <3>1, <3>3, UnsentIsEnd
    <3>4. CASE q \in (m + 1)..n
      BY <1>1, <2>1, <3>4
    <3> QED
      BY <3>2, <3>3, <3>4
  <2> QED
    BY <1>3, <2>2, <2>3
<1> QED
  BY <1>1, <1>2, <1>3, <1>4, <1>5, <1>6 DEF WrittenOnceInOrder

LEMMA SendDataStream ==
  ASSUME StreamInv, NEW f, StreamOf(f.unacked), FilterType(f),
         NEW d \in Payloads, SendData(d, f)
  PROVE  BuffersContiguous' /\ WrittenOnceInOrder'
<1> DEFINE m == Len(packets)
<1>1. m \in Nat /\ Len(packets') = m + 1
  BY Lengths, AppendProperties DEF SendData, StreamInv, TypeOK
<1>2. NewBatch = unsent \cup (m + 1)..(m + 1)
  BY <1>1 DEF NewBatch, LastPacketId
<1>3. CASE IsOpen(f.comets) /\ ~SendRaises(d, f)
  <2>1. Flush(NewBatch, f)
    BY <1>3 DEF SendData
  <2>2. PICK n \in Nat : n = m + 1
    BY <1>1
  <2>3. PICK batch : batch = NewBatch
    OBVIOUS
  <2>4. /\ batch = unsent \cup (m + 1)..n /\ Flush(batch, f)
        /\ Len(packets') = n /\ Len(packets) =< n
    BY <1>1, <1>2, <2>1, <2>2, <2>3 DEF Flush
  <2> QED
    BY <2>4, FlushStream
<1>4. CASE ~(IsOpen(f.comets) /\ ~SendRaises(d, f))
  <2>1. unsent' = unsent \cup {m + 1} /\ unacked' = f.unacked /\ wire' = wire
    BY <1>4 DEF SendData, NewBatch, LastPacketId
  <2>2. /\ LastPacketId = m /\ LastPacketId' = m + 1
        /\ Ids = 1..m /\ Ids' = 1..(m + 1)
        /\ unsent \subseteq 1..m /\ f.unacked \subseteq 1..m
    BY <1>1 DEF LastPacketId, Ids, StreamInv, TypeOK, FilterType
  <2>3. BuffersContiguous'
    <3>1. ASSUME NEW i \in f.unacked \cup unsent', NEW j \in i..(m + 1)
          PROVE  j \in f.unacked \cup unsent'
      <4>1. CASE j = m + 1
        BY <2>1, <4>1
      <4>2. CASE j # m + 1
        <5>1. i \in f.unacked \cup unsent /\ j \in i..LastPacketId
          BY <1>1, <2>1, <2>2, <4>2
        <5> QED
          BY <2>1, <5>1 DEF StreamOf
      <4> QED
        BY <4>1, <4>2
    <3>2. ASSUME NEW i \in f.unacked, NEW j \in unsent'
          PROVE  i < j
      BY <1>1, <2>1, <2>2 DEF StreamOf
    <3> QED
      BY <2>1, <2>2, <3>1, <3>2 DEF BuffersContiguous
  <2>4. WrittenOnceInOrder'
    <3>1. ASSUME NEW k \in DOMAIN wire
          PROVE  wire[k].ids \subseteq 1..m
      <4> DEFINE Entries == [body : 1..Len(comets), ids : SUBSET Ids, open : BOOLEAN]
      <4>1. wire \in Seq(Entries)
        BY DEF StreamInv, TypeOK
      <4>2. wire[k] \in Entries
        <5> HIDE DEF Entries
        <5> QED
          BY <4>1, ElementOfSeq, LenProperties
      <4> QED
        BY <2>2, <4>2
    <3>2. ASSUME NEW i \in Ids'
          PROVE  i \in unsent' <=> ~ \E k \in DOMAIN wire : i \in wire[k].ids
      <4>1. CASE i = m + 1
        BY <1>1, <2>1, <3>1, <4>1
      <4>2. CASE i # m + 1
        BY <1>1, <2>1, <2>2, <4>2 DEF StreamInv, WrittenOnceInOrder
      <4> QED
        BY <4>1, <4>2
    <3> QED
      BY <2>1, <3>2 DEF StreamInv, WrittenOnceInOrder
  <2> QED
    BY <2>3, <2>4
<1> QED
  BY <1>3, <1>4

(* Steps that make and write nothing; acknowledging is all they may do.    *)
LEMMA SilentStream ==
  ASSUME StreamInv, UNCHANGED <<packets, unsent, wire>>, StreamOf(unacked')
  PROVE  BuffersContiguous' /\ WrittenOnceInOrder'
  BY DEF StreamInv, StreamOf, BuffersContiguous, WrittenOnceInOrder, Ids, LastPacketId

LEMMA StreamOfUnacked ==
  StreamInv => StreamOf(unacked)
  BY DEF StreamInv, StreamOf, BuffersContiguous

LEMMA JobSendsStream ==
  ASSUME StreamInv, NEW d \in Payloads, JobSends(d)
  PROVE  BuffersContiguous' /\ WrittenOnceInOrder'
<1>1. CASE Reaches
  <2>1. PICK f : f = Unfiltered
    OBVIOUS
  <2>2. SendData(d, f) /\ FilterType(f) /\ StreamOf(f.unacked)
    BY <1>1, <2>1, UnfilteredType, StreamOfUnacked
       DEF JobSends, SendData, Flush, SendRaises, Unfiltered, StreamInv
  <2> QED
    BY <2>2, SendDataStream
<1>2. CASE ~Reaches
  BY <1>2, SilentStream, StreamOfUnacked DEF JobSends
<1> QED
  BY <1>1, <1>2

LEMMA RequestStream ==
  ASSUME StreamInv, NEW req \in Requests, NEW ack \in Acks,
         \/ Comet(req, ack)
         \/ \E batch \in Batches : CspSend(req, ack, batch)
         \/ Close(req, ack)
  PROVE  BuffersContiguous' /\ WrittenOnceInOrder'
<1>1. PICK f : f = Filtered(req, ack)
  OBVIOUS
<1>2. StreamOf(f.unacked) /\ FilterType(f)
  BY <1>1, FilteredStream, FilteredType DEF StreamInv
<1>3. CASE Comet(req, ack)
  BY <1>1, <1>2, <1>3, SilentStream DEF Comet
<1>4. CASE \E batch \in Batches : CspSend(req, ack, batch)
  BY <1>1, <1>2, <1>4, SilentStream DEF CspSend
<1>5. CASE Close(req, ack)
  <2>1. SendData(Null, f)
    BY <1>1, <1>5 DEF Close, SendData, Flush, SendRaises
  <2> QED
    BY <1>2, <2>1, SendDataStream DEF Payloads
<1> QED
  BY <1>3, <1>4, <1>5

LEMMA TickStream ==
  ASSUME StreamInv, Tick
  PROVE  BuffersContiguous' /\ WrittenOnceInOrder'
<1>1. CASE Respond \/ PostInit \/ Unbind
  BY <1>1, SilentStream, StreamOfUnacked DEF Respond, PostInit, Unbind
<1>2. CASE ReceiveData \/ Broadcast
  <2>1. PICK call \in {"receive_data", "broadcast"} : RunJob(call)
    BY <1>2 DEF ReceiveData, Broadcast
  <2>2. Head(tickQueue).arg \in Payloads
    BY <2>1, RunJobType DEF StreamInv, Jobs
  <2>3. PICK d \in Payloads : d = Head(tickQueue).arg
    BY <2>2
  <2>4. JobSends(d)
    BY <1>2, <2>3 DEF ReceiveData, Broadcast
  <2> QED
    BY <2>4, JobSendsStream
<1> QED
  BY <1>1, <1>2 DEF Tick

LEMMA TimerStream ==
  ASSUME StreamInv, NEW t, TimerFires(t)
  PROVE  BuffersContiguous' /\ WrittenOnceInOrder'
<1>1. CASE up' = FALSE /\ UNCHANGED <<unsent, unacked, comets, wire>>
  BY <1>1, SilentStream, StreamOfUnacked DEF TimerFires
<1>2. CASE Flush(unsent, Unfiltered)
  <2>1. PICK f : f = Unfiltered
    OBVIOUS
  <2>2. PICK n \in Nat : n = Len(packets)
    BY Lengths DEF StreamInv
  <2>3. PICK batch : batch = unsent
    OBVIOUS
  <2>4. /\ batch = unsent \cup (Len(packets) + 1)..n
        /\ Len(packets') = n /\ Len(packets) =< n
    BY <2>2, <2>3 DEF TimerFires
  <2>5. Flush(batch, f) /\ FilterType(f) /\ StreamOf(f.unacked)
    BY <1>2, <2>1, <2>3, UnfilteredType, StreamOfUnacked
       DEF Flush, Unfiltered, StreamInv
  <2> QED
    BY <2>4, <2>5, FlushStream
<1> QED
  BY <1>1, <1>2 DEF TimerFires

LEMMA StreamStep == StreamInv /\ [Next]_vars => BuffersContiguous' /\ WrittenOnceInOrder'
<1> SUFFICES ASSUME StreamInv, [Next]_vars
             PROVE  BuffersContiguous' /\ WrittenOnceInOrder'
  OBVIOUS
<1>1. CASE UNCHANGED vars
  BY <1>1, SilentStream, StreamOfUnacked DEF vars
<1>2. ASSUME NEW req \in Requests, Handshake(req)
      PROVE  BuffersContiguous' /\ WrittenOnceInOrder'
  BY <1>2, SilentStream, StreamOfUnacked DEF Handshake
<1>3. ASSUME NEW d \in Payloads, OtherSend(d)
      PROVE  BuffersContiguous' /\ WrittenOnceInOrder'
  BY <1>3, SilentStream, StreamOfUnacked DEF OtherSend
<1>4. ASSUME NEW b, ConnectionLost(b)
      PROVE  BuffersContiguous' /\ WrittenOnceInOrder'
  BY <1>4, SilentStream, StreamOfUnacked DEF ConnectionLost
<1> QED
  BY <1>1, <1>2, <1>3, <1>4, RequestStream, TickStream, TimerStream DEF Next

(* BuffersContiguous and WrittenOnceInOrder, run by server_safety: the     *)
(* stream the server writes has no hole, no repetition and no reordering   *)
(* (acknowledge, flush!, mark_packets_as_sent!).                           *)
THEOREM StreamCorrect == Spec => [](BuffersContiguous /\ WrittenOnceInOrder)
<1>1. Init => BuffersContiguous /\ WrittenOnceInOrder
  BY DEF Init, BuffersContiguous, WrittenOnceInOrder, Ids
<1>2. TypeOK /\ (BuffersContiguous /\ WrittenOnceInOrder) /\ [Next]_vars
        => (BuffersContiguous /\ WrittenOnceInOrder)'
  BY StreamStep DEF StreamInv
<1> QED
  BY <1>1, <1>2, TypeCorrect, PTL DEF Spec

(***************************************************************************)
(* The end of a session.                                                   *)
(***************************************************************************)

(* A request that leaves a closed session nothing unacknowledged discards  *)
(* it, or found it that way.                                               *)
LEMMA FilteredLeaves ==
  ASSUME TypeOK, FinishedSessionLeaves, NEW req, NEW ack \in Acks,
         closed, Filtered(req, ack).unacked = {}, unsent = {}
  PROVE  Filtered(req, ack).registry = "discarded"
<1>1. CASE ack = NoAck
  <2>1. unacked \subseteq Nat
    BY Lengths DEF TypeOK, Ids
  <2>2. {i \in unacked : i > ack} = unacked
    BY <1>1, <2>1 DEF NoAck
  <2>3. unacked = {} /\ registry = "discarded"
    BY <2>2 DEF Filtered, LeftUnacked, FinishedSessionLeaves
  <2> QED
    BY <1>1, <2>3 DEF Filtered
<1>2. CASE ack # NoAck
  BY <1>2 DEF Filtered, ClosedWith
<1> QED
  BY <1>1, <1>2

(* send_data leaves its packet in one of the two buffers. *)
LEMMA SentIsHeld ==
  ASSUME NEW d, NEW f, SendData(d, f)
  PROVE  unacked' # {} \/ unsent' # {}
BY DEF SendData, Flush, NewBatch

LEMMA FinishedStep ==
  ASSUME TypeOK, FinishedSessionLeaves, [Next]_vars
  PROVE  FinishedSessionLeaves'
<1>1. CASE UNCHANGED vars
  BY <1>1 DEF vars, FinishedSessionLeaves
<1>2. ASSUME NEW req \in Requests, Handshake(req)
      PROVE  FinishedSessionLeaves'
  BY <1>2 DEF Handshake, FinishedSessionLeaves
<1>3. ASSUME NEW req \in Requests, NEW ack \in Acks, Comet(req, ack)
      PROVE  FinishedSessionLeaves'
  BY <1>3, FilteredLeaves DEF Comet, FinishedSessionLeaves
<1>4. ASSUME NEW req \in Requests, NEW ack \in Acks, NEW batch \in Batches,
             CspSend(req, ack, batch)
      PROVE  FinishedSessionLeaves'
  BY <1>4, FilteredLeaves DEF CspSend, FinishedSessionLeaves
<1>5. ASSUME NEW req \in Requests, NEW ack \in Acks, Close(req, ack)
      PROVE  FinishedSessionLeaves'
  <2>1. unacked' # {} \/ unsent' # {}
    BY <1>5, SentIsHeld DEF Close
  <2> QED
    BY <2>1 DEF FinishedSessionLeaves
<1>6. ASSUME NEW d \in Payloads, OtherSend(d)
      PROVE  FinishedSessionLeaves'
  BY <1>6 DEF OtherSend, FinishedSessionLeaves
<1>7. CASE Tick
  <2>1. CASE Respond \/ PostInit \/ Unbind
    BY <2>1 DEF Respond, PostInit, Unbind, FinishedSessionLeaves
  <2>2. CASE ReceiveData \/ Broadcast
    <3>1. JobSends(Head(tickQueue).arg) /\ UNCHANGED <<registry, closed>>
      BY <2>2 DEF ReceiveData, Broadcast
    <3>2. CASE Reaches
      BY <3>1, <3>2, SentIsHeld DEF JobSends, FinishedSessionLeaves
    <3>3. CASE ~Reaches
      BY <3>1, <3>3 DEF JobSends, FinishedSessionLeaves
    <3> QED
      BY <3>2, <3>3
  <2> QED
    BY <1>7, <2>1, <2>2 DEF Tick
<1>8. ASSUME NEW t, TimerFires(t)
      PROVE  FinishedSessionLeaves'
  BY <1>8 DEF TimerFires, Flush, Unfiltered, FinishedSessionLeaves
<1>9. ASSUME NEW b, ConnectionLost(b)
      PROVE  FinishedSessionLeaves'
  BY <1>9 DEF ConnectionLost, FinishedSessionLeaves
<1> QED
  BY <1>1, <1>2, <1>3, <1>4, <1>5, <1>6, <1>7, <1>8, <1>9 DEF Next

(* FinishedSessionLeaves, run by server_safety: no session that is closed, *)
(* written and acknowledged stays in the registry, for any number of       *)
(* packets, comets and closings (acknowledge, closed?, discard_session).   *)
THEOREM FinishedLeaves == Spec => []FinishedSessionLeaves
<1>1. Init => FinishedSessionLeaves
  BY DEF Init, FinishedSessionLeaves
<1>2. TypeOK /\ FinishedSessionLeaves /\ [Next]_vars => FinishedSessionLeaves'
  BY FinishedStep
<1> QED
  BY <1>1, <1>2, TypeCorrect, PTL DEF Spec

---------------------------------------------------------------------------
(***************************************************************************)
(* What makes the properties of comets inductive: a queued answer is for a *)
(* body still pending, no body is answered twice, and a body written while *)
(* open is completed unless the session streams.                           *)
(***************************************************************************)
Answers(i) == i \in 1..Len(tickQueue) /\ tickQueue[i].call = "respond"

QueuedAnswers ==
  /\ \A i \in 1..Len(tickQueue) :
       Answers(i) => comets[tickQueue[i].arg].status = "pending"
  /\ \A i, j \in 1..Len(tickQueue) :
       (Answers(i) /\ Answers(j) /\ tickQueue[i].arg = tickQueue[j].arg) => i = j

WrittenBodies ==
  \A k \in 1..Len(wire) :
    wire[k].open => settings.is \/ comets[wire[k].body].status = "succeeded"

CometInv ==
  /\ TypeOK
  /\ SingleTimer
  /\ OpenCometIsTimed
  /\ QueuedAnswers
  /\ WrittenBodies
  /\ OneBatchPerBody

(* From cs to cs2 no body is opened, none is reopened after it completed   *)
(* and none that waits for its answer is touched.                          *)
Progress(cs, cs2) ==
  /\ Len(cs2) = Len(cs)
  /\ \A b \in 1..Len(cs) :
       /\ cs[b].status = "pending" <=> cs2[b].status = "pending"
       /\ cs[b].status = "succeeded" => cs2[b].status = "succeeded"
       /\ cs2[b].status = "open" => cs[b].status = "open"

LEMMA SucceedIfOpenProgress ==
  ASSUME NEW cs \in Seq(Bodies)
  PROVE  Progress(cs, SucceedIfOpen(cs))
  BY SucceedIfOpenType DEF Progress

LEMMA FilteredProgress ==
  ASSUME TypeOK, NEW req \in Requests, NEW ack \in Acks
  PROVE  /\ Progress(comets, Filtered(req, ack).comets)
         /\ settings.is => Filtered(req, ack).settings.is
<1>1. PICK cs : cs = comets
  OBVIOUS
<1>2. cs \in Seq(Bodies)
  BY <1>1 DEF TypeOK
<1>3. Progress(cs, cs) /\ Progress(cs, SucceedIfOpen(cs))
  BY <1>2, SucceedIfOpenProgress DEF Progress
<1>4. \/ Filtered(req, ack).comets = cs
      \/ Filtered(req, ack).comets = SucceedIfOpen(cs)
  BY <1>1 DEF Filtered
<1>5. Progress(cs, Filtered(req, ack).comets)
  BY <1>3, <1>4
<1>6. settings.is => Filtered(req, ack).settings.is
  BY DEF Filtered, Merged
<1> QED
  BY <1>1, <1>5, <1>6

(* The same of the comets before and after a step. *)
CometsProgress ==
  /\ Len(comets') = Len(comets)
  /\ \A b \in 1..Len(comets) :
       /\ comets[b].status = "pending" <=> comets'[b].status = "pending"
       /\ comets[b].status = "succeeded" => comets'[b].status = "succeeded"
       /\ comets'[b].status = "open" => comets[b].status = "open"

(* What a write adds: its entry is of the current body, which is completed *)
(* unless the session streams.                                             *)
OneWrite(f) ==
  LET w == Len(wire)
      b == Len(comets)
  IN /\ Len(wire') = w + 1
     /\ \A k \in 1..w : wire'[k] = wire[k]
     /\ wire'[w + 1].body = b
     /\ wire'[w + 1].open <=> f.comets[b].status = "open"
     /\ ~f.settings.is => comets'[b].status = "succeeded"

Writes(f) == wire' = wire \/ OneWrite(f)

LEMMA FlushProgress ==
  ASSUME TypeOK, NEW f, FilterType(f), Len(comets) # 0,
         Progress(comets, f.comets), comets[Len(comets)].status # "pending",
         NEW batch, batch \subseteq Int, Flush(batch, f)
  PROVE  CometsProgress /\ OneWrite(f)
<1> DEFINE b == Len(comets)
           new == [body |-> Len(f.comets), ids |-> batch, open |-> IsOpen(f.comets)]
<1>1. /\ f.comets \in Seq(Bodies) /\ Len(f.comets) = b /\ b # 0 /\ b \in 1..b
  BY Lengths DEF FilterType
<1>2. \/ comets' = f.comets
      \/ comets' = Succeed(f.comets)
  BY DEF Flush
<1>3. CometsProgress
  <2>1. CASE comets' = f.comets
    BY <2>1 DEF Progress, CometsProgress
  <2>2. CASE comets' = Succeed(f.comets)
    <3>1. /\ Len(comets') = b /\ comets'[b].status = "succeeded"
          /\ \A c \in 1..b : c # b => comets'[c] = f.comets[c]
      BY <1>1, <2>2, SucceedType
    <3> QED
      BY <3>1 DEF Progress, CometsProgress
  <2> QED
    BY <1>2, <2>1, <2>2
<1>4. ~f.settings.is => comets'[b].status = "succeeded"
  BY <1>1, SucceedType DEF Flush
<1>5. /\ Len(wire') = Len(wire) + 1 /\ wire'[Len(wire) + 1] = new
      /\ \A k \in 1..Len(wire) : wire'[k] = wire[k]
  <2>1. wire \in Seq([body : 1..Len(comets), ids : SUBSET Ids, open : BOOLEAN])
    BY DEF TypeOK
  <2>2. wire' = Append(wire, new)
    BY DEF Flush
  <2> HIDE DEF new
  <2> QED
    BY <2>1, <2>2
<1>6. new.body = b /\ (new.open <=> f.comets[b].status = "open")
  BY <1>1 DEF IsOpen
<1> HIDE DEF new
<1> QED
  BY <1>3, <1>4, <1>5, <1>6 DEF OneWrite

LEMMA SendDataProgress ==
  ASSUME TypeOK, NEW f, FilterType(f), Progress(comets, f.comets),
         NEW d \in Payloads, SendData(d, f)
  PROVE  CometsProgress /\ Writes(f)
<1>1. CASE IsOpen(f.comets) /\ ~SendRaises(d, f)
  <2>1. Flush(NewBatch, f) /\ Len(comets) # 0 /\ f.comets[Len(comets)].status = "open"
    BY <1>1 DEF SendData, IsOpen, FilterType
  <2>2. comets[Len(comets)].status # "pending"
    BY <2>1, Lengths DEF Progress
  <2>3. PICK batch : batch = NewBatch
    OBVIOUS
  <2>4. Flush(batch, f)
    BY <2>1, <2>3 DEF Flush
  <2>5. Ids \subseteq Int /\ LastPacketId + 1 \in Int
    BY Lengths DEF Ids, LastPacketId
  <2>6. batch \subseteq Int
    BY <2>3, <2>5 DEF NewBatch, TypeOK
  <2> QED
    BY <2>1, <2>2, <2>4, <2>6, FlushProgress DEF Writes
<1>2. CASE ~(IsOpen(f.comets) /\ ~SendRaises(d, f))
  BY <1>2 DEF SendData, Progress, CometsProgress, Writes
<1> QED
  BY <1>1, <1>2

LEMMA JobSendsProgress ==
  ASSUME TypeOK, NEW d \in Payloads, JobSends(d)
  PROVE  CometsProgress /\ \E f : Writes(f) /\ f = Unfiltered
<1>1. PICK f : f = Unfiltered
  OBVIOUS
<1>2. FilterType(f) /\ Progress(comets, f.comets)
  BY <1>1, UnfilteredType DEF Unfiltered, Progress
<1>3. CASE Reaches
  <2>1. SendData(d, f)
    BY <1>1, <1>3 DEF JobSends, SendData, Flush, SendRaises
  <2> QED
    BY <1>1, <1>2, <2>1, SendDataProgress
<1>4. CASE ~Reaches
  BY <1>1, <1>4 DEF JobSends, CometsProgress, Writes
<1> QED
  BY <1>3, <1>4

(* Answers left in the queue are where they were, s places further on.     *)
Kept(s) ==
  \A i \in 1..Len(tickQueue') :
    tickQueue'[i].call = "respond" =>
      i + s \in 1..Len(tickQueue) /\ tickQueue'[i] = tickQueue[i + s]

(* What is left of CometInv by a step that starts no comet and answers     *)
(* none: the timers may only shrink, and only when the poll is over.       *)
LEMMA QuietStep ==
  ASSUME CometInv, TypeOK', CometsProgress,
         NEW f, Writes(f), Progress(comets, f.comets),
         settings.is => f.settings.is, f.settings.is => settings'.is,
         NEW s \in Nat, Kept(s),
         timer' = timer, armed' \subseteq armed, up' => up,
         \/ armed' = armed
         \/ ~up'
         \/ settings'.is
         \/ comets'[Len(comets)].status = "succeeded"
  PROVE  CometInv'
<1> USE DEF CometInv
<1>1. Len(comets') = Len(comets) /\ Len(comets) \in Nat /\ Len(tickQueue) \in Nat
  BY Lengths DEF CometsProgress
<1>2. SingleTimer'
  BY <1>1 DEF SingleTimer, AsyncBody
<1>3. OpenCometIsTimed'
  <2> SUFFICES ASSUME up', ~settings'.is, Len(comets) # 0,
                      comets'[Len(comets)].status \in {"pending", "open"}
               PROVE  Len(comets) \in armed'
    BY <1>1 DEF OpenCometIsTimed, AsyncBody
  <2>1. comets[Len(comets)].status \in {"pending", "open"}
    BY <1>1 DEF CometsProgress
  <2>2. Len(comets) \in armed
    BY <2>1 DEF OpenCometIsTimed, AsyncBody
  <2> QED
    BY <2>2
<1>4. QueuedAnswers'
  <2>1. ASSUME NEW i \in 1..Len(tickQueue'), Answers(i)'
        PROVE  /\ i + s \in 1..Len(tickQueue) /\ Answers(i + s)
               /\ tickQueue'[i] = tickQueue[i + s]
               /\ tickQueue[i + s].arg \in 1..Len(comets)
    <3>1. i + s \in 1..Len(tickQueue) /\ tickQueue'[i] = tickQueue[i + s]
      BY <2>1 DEF Kept, Answers
    <3>2. tickQueue[i + s] \in Jobs
      BY <3>1, ElementOfSeq DEF TypeOK
    <3> QED
      BY <2>1, <3>1, <3>2 DEF Answers, Jobs
  <2>2. ASSUME NEW i \in 1..Len(tickQueue'), Answers(i)'
        PROVE  comets'[tickQueue'[i].arg].status = "pending"
    <3>1. comets[tickQueue[i + s].arg].status = "pending"
      BY <2>1, <2>2 DEF QueuedAnswers
    <3> QED
      BY <2>1, <2>2, <3>1 DEF CometsProgress
  <2>3. ASSUME NEW i \in 1..Len(tickQueue'), NEW j \in 1..Len(tickQueue'),
               Answers(i)', Answers(j)', tickQueue'[i].arg = tickQueue'[j].arg
        PROVE  i = j
    <3>1. i + s = j + s
      BY <2>1, <2>3 DEF QueuedAnswers
    <3> QED
      BY <1>1, <3>1
  <2> QED
    BY <2>2, <2>3 DEF QueuedAnswers
<1> DEFINE w == Len(wire)
<1>5. w \in Nat /\ DOMAIN wire = 1..w /\ DOMAIN wire' = 1..Len(wire')
  BY LenProperties DEF TypeOK
<1>6. \A k \in 1..w : wire[k].body \in 1..Len(comets) /\ wire[k].open \in BOOLEAN
  <2> DEFINE Entries == [body : 1..Len(comets), ids : SUBSET Ids, open : BOOLEAN]
  <2>1. \A k \in 1..w : wire[k] \in Entries
    <3>1. wire \in Seq(Entries)
      BY DEF TypeOK
    <3> HIDE DEF Entries
    <3> QED
      BY <3>1, ElementOfSeq
  <2> QED
    BY <2>1
<1>7. CASE wire' = wire
  <2>1. WrittenBodies'
    BY <1>6, <1>7 DEF WrittenBodies, CometsProgress
  <2>2. OneBatchPerBody'
    BY <1>7 DEF OneBatchPerBody
  <2> QED
    BY <1>2, <1>3, <1>4, <2>1, <2>2
<1>8. CASE OneWrite(f)
  <2>1. /\ Len(wire') = w + 1
        /\ \A k \in 1..w : wire'[k] = wire[k]
        /\ wire'[w + 1].body = Len(comets)
        /\ wire'[w + 1].open <=> f.comets[Len(comets)].status = "open"
        /\ ~f.settings.is => comets'[Len(comets)].status = "succeeded"
    BY <1>8 DEF OneWrite
  <2>2. WrittenBodies'
    <3>1. ASSUME NEW k \in 1..w, wire'[k].open
          PROVE  settings'.is \/ comets'[wire'[k].body].status = "succeeded"
      BY <1>6, <2>1, <3>1 DEF WrittenBodies, CometsProgress
    <3> QED
      BY <1>5, <2>1, <3>1 DEF WrittenBodies
  <2>3. ASSUME NEW k \in 1..w, wire'[k].open, wire'[w + 1].open,
               wire'[k].body = wire'[w + 1].body
        PROVE  settings'.is
    <3>1. wire[k].open /\ wire[k].body = Len(comets) /\ Len(comets) \in 1..Len(comets)
      BY <1>6, <2>1, <2>3
    <3>2. comets[Len(comets)].status = "open"
      BY <2>1, <2>3, <3>1 DEF Progress
    <3>3. settings.is
      BY <3>1, <3>2 DEF WrittenBodies
    <3> QED
      BY <3>3
  <2>4. ASSUME NEW j \in 1..w, NEW k \in 1..w, j # k, wire'[j].open, wire'[k].open,
               wire'[j].body = wire'[k].body
        PROVE  settings'.is
    BY <1>5, <2>1, <2>4 DEF OneBatchPerBody
  <2>5. OneBatchPerBody'
    BY <1>5, <2>1, <2>3, <2>4 DEF OneBatchPerBody
  <2> QED
    BY <1>2, <1>3, <1>4, <2>2, <2>5
<1> QED
  BY <1>7, <1>8 DEF Writes

LEMMA KeptSame ==
  ASSUME TypeOK, UNCHANGED tickQueue
  PROVE  Kept(0)
  BY Lengths DEF Kept

LEMMA KeptAppend ==
  ASSUME TypeOK, NEW job, job.call # "respond", tickQueue' = Append(tickQueue, job)
  PROVE  Kept(0)
<1>1. tickQueue \in Seq(Jobs)
  BY DEF TypeOK
<1>2. /\ Len(tickQueue') = Len(tickQueue) + 1 /\ Len(tickQueue) \in Nat
      /\ \A i \in 1..Len(tickQueue) : tickQueue'[i] = tickQueue[i]
      /\ tickQueue'[Len(tickQueue) + 1] = job
  BY <1>1
<1> QED
  BY <1>2 DEF Kept

LEMMA KeptBatch ==
  ASSUME TypeOK, NEW batch \in Batches,
         tickQueue' = tickQueue \o ReceiveJobs(batch)
  PROVE  Kept(0)
<1> DEFINE new == ReceiveJobs(batch)
<1>1. new \in Seq(Jobs) /\ tickQueue \in Seq(Jobs)
  BY BatchJobs DEF TypeOK
<1>2. \A i \in 1..Len(new) : new[i].call = "receive_data"
  <2>1. DOMAIN new = DOMAIN batch
    BY DEF ReceiveJobs
  <2>2. DOMAIN new = 1..Len(new)
    BY <1>1, LenProperties
  <2> QED
    BY <2>1, <2>2 DEF ReceiveJobs, Job
<1> HIDE DEF new
<1>3. /\ Len(tickQueue') = Len(tickQueue) + Len(new)
      /\ Len(tickQueue) \in Nat /\ Len(new) \in Nat
      /\ \A i \in 1..Len(tickQueue') :
           tickQueue'[i] = IF i <= Len(tickQueue) THEN tickQueue[i]
                           ELSE new[i - Len(tickQueue)]
  BY <1>1, ConcatProperties, LenProperties DEF new
<1>4. ASSUME NEW i \in 1..Len(tickQueue'), tickQueue'[i].call = "respond"
      PROVE  i + 0 \in 1..Len(tickQueue) /\ tickQueue'[i] = tickQueue[i + 0]
  <2>1. CASE i <= Len(tickQueue)
    BY <1>3, <2>1
  <2>2. CASE i > Len(tickQueue)
    <3>1. i - Len(tickQueue) \in 1..Len(new)
      BY <1>3, <2>2
    <3>2. tickQueue'[i] = new[i - Len(tickQueue)]
      BY <1>3, <2>2
    <3>3. new[i - Len(tickQueue)].call = "receive_data"
      BY <1>2, <3>1
    <3> QED
      BY <1>4, <3>2, <3>3
  <2> QED
    BY <1>3, <2>1, <2>2
<1> QED
  BY <1>4 DEF Kept

LEMMA KeptTail ==
  ASSUME TypeOK, NEW call, RunJob(call)
  PROVE  Kept(1)
<1>1. tickQueue \in Seq(Jobs) /\ tickQueue # <<>> /\ tickQueue' = Tail(tickQueue)
  BY DEF TypeOK, RunJob
<1>2. /\ Len(tickQueue') = Len(tickQueue) - 1 /\ Len(tickQueue) \in Nat
      /\ \A i \in 1..Len(tickQueue') : tickQueue'[i] = tickQueue[i + 1]
  BY <1>1, HeadTailProperties, LenProperties
<1> QED
  BY <1>2 DEF Kept

(* Steps that leave the comets, the timers and the wire alone. *)
LEMMA IdleStep ==
  ASSUME CometInv, TypeOK', UNCHANGED <<comets, timer, armed, wire, up>>,
         settings.is => settings'.is, NEW s \in Nat, Kept(s)
  PROVE  CometInv' /\ CometsProgress
<1>1. PICK f : f = Unfiltered
  OBVIOUS
<1>2. CometsProgress /\ Progress(comets, f.comets)
  BY <1>1 DEF CometsProgress, Progress, Unfiltered
<1>3. Writes(f) /\ (settings.is => f.settings.is) /\ (f.settings.is => settings'.is)
  BY <1>1 DEF Writes, Unfiltered
<1> QED
  BY <1>2, <1>3, QuietStep

LEMMA HandshakeComets ==
  ASSUME CometInv, TypeOK', NEW req \in Requests, Handshake(req)
  PROVE  CometInv' /\ CometsProgress
<1>1. Job("post_init", Null).call # "respond"
  BY DEF Job
<1>2. Kept(0)
  BY <1>1, KeptAppend DEF Handshake, CometInv
<1> QED
  BY <1>2, IdleStep DEF Handshake, Merged

LEMMA OtherSendComets ==
  ASSUME CometInv, TypeOK', NEW d \in Payloads, OtherSend(d)
  PROVE  CometInv' /\ CometsProgress
<1>1. Job("broadcast", d).call # "respond"
  BY DEF Job
<1>2. Kept(0)
  BY <1>1, KeptAppend DEF OtherSend, CometInv
<1> QED
  BY <1>2, IdleStep DEF OtherSend

LEMMA CspSendComets ==
  ASSUME CometInv, TypeOK', NEW req \in Requests, NEW ack \in Acks,
         NEW batch \in Batches, CspSend(req, ack, batch)
  PROVE  CometInv' /\ CometsProgress
<1>1. PICK f : f = Filtered(req, ack)
  OBVIOUS
<1>2. Progress(comets, f.comets) /\ (settings.is => f.settings.is)
  BY <1>1, FilteredProgress DEF CometInv
<1>3. /\ comets' = f.comets /\ settings' = f.settings
      /\ UNCHANGED <<timer, armed, wire, up>>
  BY <1>1 DEF CspSend
<1>4. CometsProgress /\ Writes(f)
  BY <1>2, <1>3 DEF Progress, CometsProgress, Writes
<1>5. Kept(0)
  BY KeptBatch DEF CspSend, CometInv
<1> QED
  BY <1>2, <1>3, <1>4, <1>5, QuietStep

LEMMA CloseComets ==
  ASSUME CometInv, TypeOK', NEW req \in Requests, NEW ack \in Acks, Close(req, ack)
  PROVE  CometInv' /\ CometsProgress
<1>1. PICK f : f = Filtered(req, ack)
  OBVIOUS
<1>2. /\ FilterType(f) /\ Progress(comets, f.comets)
      /\ settings.is => f.settings.is
  BY <1>1, FilteredType, FilteredProgress DEF CometInv
<1>3. /\ SendData(Null, f) /\ settings' = f.settings
      /\ UNCHANGED <<timer, armed, up>>
      /\ \/ tickQueue' = tickQueue
         \/ tickQueue' = Append(tickQueue, Job("unbind", Null))
  BY <1>1 DEF Close, SendData, Flush, SendRaises, MarkClosed
<1>4. CometsProgress /\ Writes(f)
  BY <1>2, <1>3, SendDataProgress DEF CometInv, Payloads
<1>5. Job("unbind", Null).call # "respond"
  BY DEF Job
<1>6. Kept(0)
  BY <1>3, <1>5, KeptSame, KeptAppend DEF CometInv
<1> QED
  BY <1>2, <1>3, <1>4, <1>6, QuietStep

LEMMA TimerComets ==
  ASSUME CometInv, TypeOK', NEW t, TimerFires(t)
  PROVE  CometInv' /\ CometsProgress
<1>1. PICK f : f = Unfiltered
  OBVIOUS
<1>2. FilterType(f) /\ Progress(comets, f.comets)
  BY <1>1, UnfilteredType DEF Unfiltered, Progress, CometInv
<1>7. /\ settings.is => f.settings.is
      /\ f.settings.is => settings'.is
  BY <1>1 DEF Unfiltered, TimerFires
<1>3. Kept(0) /\ Len(comets) # 0
  BY KeptSame, Lengths DEF TimerFires, CometInv, TypeOK
<1>4. /\ UNCHANGED <<settings, timer>> /\ armed' \subseteq armed /\ (up' => up)
  BY DEF TimerFires, HandlerRuns
<1>5. CASE up' = FALSE /\ UNCHANGED <<unsent, unacked, comets, wire>>
  <2>1. CometsProgress /\ Writes(f)
    BY <1>5 DEF CometsProgress, Writes
  <2> QED
    BY <1>2, <1>3, <1>4, <1>5, <1>7, <2>1, QuietStep
<1>6. CASE /\ comets[AsyncBody].status # "pending"
           /\ Flush(unsent, Unfiltered) /\ UNCHANGED up
  <2>1. PICK batch : batch = unsent
    OBVIOUS
  <2>2. Flush(batch, f) /\ comets[Len(comets)].status # "pending"
    BY <1>1, <1>6, <2>1 DEF Flush, AsyncBody
  <2>3. batch \subseteq Int
    BY <2>1, Lengths DEF CometInv, TypeOK, Ids
  <2>4. CometsProgress /\ OneWrite(f)
    BY <1>2, <1>3, <2>2, <2>3, FlushProgress DEF CometInv
  <2>5. settings'.is \/ comets'[Len(comets)].status = "succeeded"
    BY <1>7, <2>4 DEF OneWrite
  <2> QED
    BY <1>2, <1>3, <1>4, <1>7, <2>4, <2>5, QuietStep DEF Writes
<1> QED
  BY <1>5, <1>6 DEF TimerFires

LEMMA ConnectionLostComets ==
  ASSUME CometInv, TypeOK', NEW b, ConnectionLost(b)
  PROVE  CometInv' /\ CometsProgress
<1>1. b \in 1..Len(comets) /\ comets \in Seq(Bodies)
  BY LenProperties DEF ConnectionLost, CometInv, TypeOK
<1>2. comets[b] \in Bodies /\ Dropped(comets[b]) \in Bodies
      /\ Dropped(comets[b]).status = IF comets[b].status = "open" THEN "failed"
                                     ELSE comets[b].status
  <2>1. comets[b] \in Bodies
    BY <1>1, ElementOfSeq
  <2> QED
    BY <2>1 DEF Bodies, Dropped
<1>3. comets' = [comets EXCEPT ![b] = Dropped(comets[b])]
  <2>1. comets \in [1..Len(comets) -> Bodies]
    BY <1>1, LenProperties
  <2> QED
    BY <1>1, <2>1 DEF ConnectionLost
<1>4. /\ Len(comets') = Len(comets) /\ comets'[b] = Dropped(comets[b])
      /\ \A c \in 1..Len(comets) : c # b => comets'[c] = comets[c]
  BY <1>1, <1>2, <1>3, ExceptSeq
<1>5. CometsProgress
  BY <1>2, <1>4 DEF CometsProgress
<1>6. PICK f : f = Unfiltered
  OBVIOUS
<1>7. Progress(comets, f.comets) /\ f.settings = settings
  BY <1>6 DEF Unfiltered, Progress
<1>8. Kept(0) /\ Writes(f)
  BY KeptSame DEF ConnectionLost, CometInv, Writes
<1> QED
  BY <1>5, <1>7, <1>8, QuietStep DEF ConnectionLost

(* The answer of the oldest queued comet starts: a pending body opens. *)
LEMMA RespondComets ==
  ASSUME CometInv, TypeOK', Respond
  PROVE  /\ CometInv'
         /\ \A b \in 1..Len(comets) :
              /\ comets[b].status = "succeeded" => comets'[b].status = "succeeded"
              /\ comets'[b].status = "open" => comets[b].status \in {"pending", "open"}
<1> USE DEF CometInv
<1> DEFINE a == tickQueue[1].arg
<1>1. /\ tickQueue \in Seq(Jobs) /\ tickQueue # <<>> /\ RunJob("respond")
      /\ Len(tickQueue) \in Nat \ {0} /\ Head(tickQueue) = tickQueue[1]
      /\ tickQueue[1].call = "respond"
  <2>1. tickQueue \in Seq(Jobs) /\ tickQueue # <<>> /\ RunJob("respond")
    BY DEF Respond, RunJob, TypeOK
  <2>2. Len(tickQueue) \in Nat \ {0} /\ Head(tickQueue) = tickQueue[1]
    BY <2>1, EmptySeq
  <2> QED
    BY <2>1, <2>2 DEF RunJob
<1>2. Answers(1) /\ a \in 1..Len(comets)
  <2>1. tickQueue[1] \in Jobs
    BY <1>1, ElementOfSeq
  <2> QED
    BY <1>1, <2>1 DEF Answers, Jobs
<1>3. comets[a].status = "pending"
  BY <1>1, <1>2 DEF QueuedAnswers
<1>4. /\ Len(comets') = Len(comets) /\ comets'[a].status = "open"
      /\ \A b \in 1..Len(comets) : b # a => comets'[b] = comets[b]
  <2>1. comets' = WithStatus(comets, a, "open")
    BY <1>1 DEF Respond
  <2> HIDE DEF a
  <2> QED
    BY <1>2, <2>1, WithStatusType DEF TypeOK
<1> HIDE DEF a
<1>5. SingleTimer' /\ OneBatchPerBody'
  BY <1>4 DEF Respond, SingleTimer, OneBatchPerBody, AsyncBody
<1>6. OpenCometIsTimed'
  <2> SUFFICES ASSUME up, ~settings.is, Len(comets) # 0,
                      comets'[Len(comets)].status \in {"pending", "open"}
               PROVE  Len(comets) \in armed
    BY <1>4 DEF OpenCometIsTimed, AsyncBody, Respond
  <2>1. comets[Len(comets)].status \in {"pending", "open"}
    BY <1>3, <1>4, Lengths
  <2> QED
    BY <2>1 DEF OpenCometIsTimed, AsyncBody
<1>7. WrittenBodies'
  <2> DEFINE Entries == [body : 1..Len(comets), ids : SUBSET Ids, open : BOOLEAN]
  <2>1. \A k \in 1..Len(wire) : wire[k] \in Entries
    <3>1. wire \in Seq(Entries)
      BY DEF TypeOK
    <3> HIDE DEF Entries
    <3> QED
      BY <3>1, ElementOfSeq
  <2>2. ASSUME NEW k \in 1..Len(wire), wire[k].open
        PROVE  settings.is \/ comets'[wire[k].body].status = "succeeded"
    BY <1>3, <1>4, <2>1, <2>2 DEF WrittenBodies
  <2> QED
    BY <2>2 DEF WrittenBodies, Respond
<1>8. QueuedAnswers'
  <2>1. Kept(1)
    BY <1>1, KeptTail
  <2>2. ASSUME NEW i \in 1..Len(tickQueue'), Answers(i)'
        PROVE  /\ i + 1 \in 1..Len(tickQueue) /\ Answers(i + 1)
               /\ tickQueue'[i] = tickQueue[i + 1]
               /\ tickQueue[i + 1].arg \in 1..Len(comets)
               /\ tickQueue[i + 1].arg # a
    <3>1. i + 1 \in 1..Len(tickQueue) /\ tickQueue'[i] = tickQueue[i + 1]
      BY <2>1, <2>2 DEF Kept, Answers
    <3>2. tickQueue[i + 1] \in Jobs
      BY <3>1, ElementOfSeq DEF TypeOK
    <3>3. Answers(i + 1) /\ tickQueue[i + 1].arg \in 1..Len(comets)
      BY <2>2, <3>1, <3>2 DEF Answers, Jobs
    <3>4. i + 1 # 1 /\ 1 \in 1..Len(tickQueue)
      BY <1>1
    <3> QED
      BY <1>2, <3>1, <3>3, <3>4 DEF QueuedAnswers, a
  <2>3. ASSUME NEW i \in 1..Len(tickQueue'), Answers(i)'
        PROVE  comets'[tickQueue'[i].arg].status = "pending"
    <3>1. comets[tickQueue[i + 1].arg].status = "pending"
      BY <2>2, <2>3 DEF QueuedAnswers
    <3> QED
      BY <1>4, <2>2, <2>3, <3>1
  <2>4. ASSUME NEW i \in 1..Len(tickQueue'), NEW j \in 1..Len(tickQueue'),
               Answers(i)', Answers(j)', tickQueue'[i].arg = tickQueue'[j].arg
        PROVE  i = j
    <3>1. i + 1 = j + 1
      BY <2>2, <2>4 DEF QueuedAnswers
    <3> QED
      BY <3>1
  <2> QED
    BY <2>3, <2>4 DEF QueuedAnswers
<1>9. ASSUME NEW b \in 1..Len(comets)
      PROVE  /\ comets[b].status = "succeeded" => comets'[b].status = "succeeded"
             /\ comets'[b].status = "open" => comets[b].status \in {"pending", "open"}
  BY <1>3, <1>4
<1> QED
  BY <1>5, <1>6, <1>7, <1>8, <1>9

LEMMA TickComets ==
  ASSUME CometInv, TypeOK', Tick, ~Respond
  PROVE  CometInv' /\ CometsProgress
<1>1. CASE PostInit \/ Unbind
  <2>1. PICK call : RunJob(call)
    BY <1>1 DEF PostInit, Unbind
  <2>2. Kept(1)
    BY <2>1, KeptTail DEF CometInv
  <2> QED
    BY <1>1, <2>2, IdleStep DEF PostInit, Unbind
<1>2. CASE ReceiveData \/ Broadcast
  <2>1. PICK call \in {"receive_data", "broadcast"} : RunJob(call)
    BY <1>2 DEF ReceiveData, Broadcast
  <2>2. Head(tickQueue).arg \in Payloads
    BY <2>1, RunJobType DEF CometInv, Jobs
  <2>3. PICK d \in Payloads : d = Head(tickQueue).arg
    BY <2>2
  <2>4. JobSends(d) /\ UNCHANGED <<settings, timer, armed>>
    BY <1>2, <2>3 DEF ReceiveData, Broadcast
  <2>5. CometsProgress
    BY <2>4, JobSendsProgress DEF CometInv
  <2>6. PICK f : Writes(f) /\ f = Unfiltered
    BY <2>4, JobSendsProgress DEF CometInv
  <2>7. /\ Progress(comets, f.comets) /\ f.settings = settings
        /\ settings.is => f.settings.is
        /\ f.settings.is => settings'.is
    BY <2>4, <2>6 DEF Unfiltered, Progress
  <2>8. Kept(1)
    BY <2>1, KeptTail DEF CometInv
  <2>9. up' => up
    BY <2>1 DEF RunJob
  <2> QED
    BY <2>4, <2>5, <2>6, <2>7, <2>8, <2>9, QuietStep
<1> QED
  BY <1>1, <1>2 DEF Tick

(* A comet starts: the previous body is completed if open, the new one is  *)
(* pending, its answer is the last job and its timer the only one.         *)
LEMMA CometComets ==
  ASSUME CometInv, TypeOK', NEW req \in Requests, NEW ack \in Acks, Comet(req, ack)
  PROVE  /\ CometInv'
         /\ \A b \in 1..Len(comets) :
              /\ comets[b].status = "succeeded" => comets'[b].status = "succeeded"
              /\ comets'[b].status = "open" => comets[b].status \in {"pending", "open"}
<1> USE DEF CometInv
<1>1. PICK f : f = Filtered(req, ack)
  OBVIOUS
<1> DEFINE n == Len(comets)
           new == [status |-> "pending", gone |-> FALSE, du |-> f.settings.du]
           job == Job("respond", n + 1)
           cs == SucceedIfOpen(f.comets)
<1>2. /\ comets' = Append(cs, new)
      /\ timer' = n + 1 /\ armed' = Started(n + 1)
      /\ tickQueue' = Append(tickQueue, job)
      /\ settings' = f.settings /\ UNCHANGED <<up, wire>>
  BY <1>1 DEF Comet, AsyncBody
<1>3. /\ FilterType(f) /\ Progress(comets, f.comets)
      /\ settings.is => f.settings.is
  BY <1>1, FilteredType, FilteredProgress
<1>4. cs \in Seq(Bodies) /\ Progress(f.comets, cs) /\ Len(cs) = n /\ n \in Nat
  BY <1>3, SucceedIfOpenType, SucceedIfOpenProgress, Lengths DEF FilterType
<1>5. /\ Len(comets') = n + 1 /\ comets'[n + 1] = new
      /\ \A b \in 1..n : comets'[b] = cs[b]
  <2> HIDE DEF cs, new
  <2> QED
    BY <1>2, <1>4
<1> HIDE DEF cs
<1>6. ASSUME NEW b \in 1..n
      PROVE  /\ comets[b].status = "pending" <=> comets'[b].status = "pending"
             /\ comets[b].status = "succeeded" => comets'[b].status = "succeeded"
             /\ comets'[b].status = "open" => comets[b].status = "open"
  BY <1>3, <1>4, <1>5 DEF Progress
<1>7. SingleTimer'
  BY <1>2, <1>5 DEF SingleTimer, AsyncBody, Started
<1>8. OpenCometIsTimed'
  BY <1>2, <1>5 DEF OpenCometIsTimed, AsyncBody, Started
<1>9. QueuedAnswers'
  <2> DEFINE q == Len(tickQueue)
  <2>1. /\ Len(tickQueue') = q + 1 /\ q \in Nat /\ tickQueue'[q + 1] = job
        /\ \A i \in 1..q : tickQueue'[i] = tickQueue[i]
    <3>1. tickQueue \in Seq(Jobs)
      BY DEF TypeOK
    <3> HIDE DEF job
    <3> QED
      BY <1>2, <3>1
  <2>2. ASSUME NEW i \in 1..q, Answers(i)'
        PROVE  Answers(i) /\ tickQueue[i].arg \in 1..n /\ tickQueue'[i].arg = tickQueue[i].arg
    <3>1. tickQueue[i] \in Jobs /\ tickQueue'[i] = tickQueue[i]
      BY <2>1, ElementOfSeq DEF TypeOK
    <3> QED
      BY <2>2, <3>1 DEF Answers, Jobs
  <2>3. tickQueue'[q + 1].arg = n + 1
    BY <2>1 DEF Job
  <2>4. ASSUME NEW i \in 1..(q + 1), Answers(i)'
        PROVE  comets'[tickQueue'[i].arg].status = "pending"
    <3>1. CASE i = q + 1
      BY <1>5, <2>3, <3>1
    <3>2. CASE i \in 1..q
      <4>1. comets[tickQueue[i].arg].status = "pending"
        BY <2>2, <2>4, <3>2 DEF QueuedAnswers
      <4> QED
        BY <1>6, <2>2, <2>4, <3>2, <4>1
    <3> QED
      BY <2>1, <3>1, <3>2
  <2>5. ASSUME NEW i \in 1..(q + 1), NEW j \in 1..(q + 1), Answers(i)', Answers(j)',
               tickQueue'[i].arg = tickQueue'[j].arg
        PROVE  i = j
    <3>1. CASE i \in 1..q /\ j \in 1..q
      BY <2>2, <2>5, <3>1 DEF QueuedAnswers
    <3>2. CASE i = q + 1 /\ j \in 1..q
      <4>1. tickQueue'[j].arg \in 1..n
        BY <2>2, <2>5, <3>2
      <4> QED
        BY <1>4, <2>3, <2>5, <3>2, <4>1
    <3>3. CASE j = q + 1 /\ i \in 1..q
      <4>1. tickQueue'[i].arg \in 1..n
        BY <2>2, <2>5, <3>3
      <4> QED
        BY <1>4, <2>3, <2>5, <3>3, <4>1
    <3> QED
      BY <2>1, <3>1, <3>2, <3>3
  <2> QED
    BY <2>1, <2>4, <2>5 DEF QueuedAnswers
<1>10. WrittenBodies'
  <2> DEFINE Entries == [body : 1..Len(comets), ids : SUBSET Ids, open : BOOLEAN]
  <2>1. \A k \in 1..Len(wire) : wire[k] \in Entries
    <3>1. wire \in Seq(Entries)
      BY DEF TypeOK
    <3> HIDE DEF Entries
    <3> QED
      BY <3>1, ElementOfSeq
  <2>2. ASSUME NEW k \in 1..Len(wire), wire[k].open
        PROVE  settings'.is \/ comets'[wire[k].body].status = "succeeded"
    BY <1>2, <1>3, <1>6, <2>1, <2>2 DEF WrittenBodies
  <2> QED
    BY <1>2, <2>2 DEF WrittenBodies
<1>11. OneBatchPerBody'
  BY <1>2, <1>3 DEF OneBatchPerBody
<1> QED
  BY <1>6, <1>7, <1>8, <1>9, <1>10, <1>11

(* What CompletedStays says of one step. *)
Stays ==
  \A b \in DOMAIN comets :
    /\ comets[b].status = "succeeded" => comets'[b].status = "succeeded"
    /\ comets'[b].status = "open" => comets[b].status \in {"pending", "open"}

LEMMA CometStep ==
  ASSUME CometInv, TypeOK', [Next]_vars
  PROVE  CometInv' /\ Stays
<1>1. DOMAIN comets = 1..Len(comets)
  BY LenProperties DEF CometInv, TypeOK
<1>2. CometsProgress => Stays
  BY <1>1 DEF CometsProgress, Stays
<1>3. CASE UNCHANGED vars
  <2>1. Kept(0)
    BY <1>3, KeptSame DEF vars, CometInv
  <2> QED
    BY <1>2, <1>3, <2>1, IdleStep DEF vars
<1>4. CASE \E req \in Requests : Handshake(req)
  BY <1>2, <1>4, HandshakeComets
<1>5. CASE \E req \in Requests, ack \in Acks : Comet(req, ack)
  BY <1>1, <1>5, CometComets DEF Stays
<1>6. CASE \E req \in Requests, ack \in Acks, batch \in Batches :
             CspSend(req, ack, batch)
  BY <1>2, <1>6, CspSendComets
<1>7. CASE \E req \in Requests, ack \in Acks : Close(req, ack)
  BY <1>2, <1>7, CloseComets
<1>8. CASE \E d \in Payloads : OtherSend(d)
  BY <1>2, <1>8, OtherSendComets
<1>9. CASE Tick
  BY <1>1, <1>2, <1>9, RespondComets, TickComets DEF Stays
<1>10. CASE \E t \in 1..MaxComets : TimerFires(t)
  BY <1>2, <1>10, TimerComets
<1>11. CASE \E b \in 1..MaxComets : ConnectionLost(b)
  BY <1>2, <1>11, ConnectionLostComets
<1> QED
  BY <1>3, <1>4, <1>5, <1>6, <1>7, <1>8, <1>9, <1>10, <1>11 DEF Next

LEMMA CometInit == Init /\ TypeOK => CometInv
  BY EmptySeq DEF Init, CometInv, SingleTimer, OpenCometIsTimed, QueuedAnswers,
       WrittenBodies, OneBatchPerBody, AsyncBody

LEMMA CometInvariant == Spec => []CometInv
<1>1. Init /\ TypeOK => CometInv
  BY CometInit
<1>2. CometInv /\ TypeOK' /\ [Next]_vars => CometInv'
  BY CometStep
<1> QED
  BY <1>1, <1>2, TypeCorrect, PTL DEF Spec

(* SingleTimer, OpenCometIsTimed and OneBatchPerBody, run by               *)
(* server_safety: only the last comet has a timer, a long poll that is open*)
(* or about to be has one, and a body is written at most once while open   *)
(* unless the session streams (comet, start_timer, flush!).                *)
THEOREM CometsCorrect == Spec => [](SingleTimer /\ OpenCometIsTimed /\ OneBatchPerBody)
<1>1. CometInv => SingleTimer /\ OpenCometIsTimed /\ OneBatchPerBody
  BY DEF CometInv
<1> QED
  BY <1>1, CometInvariant, PTL

(* CompletedStays, run by server_safety: the queued answer of a comet      *)
(* never reopens a body that was completed in the meantime.                *)
THEOREM CompletedBodiesStay == Spec => CompletedStays
<1>1. CometInv /\ TypeOK' /\ [Next]_vars => [Stays]_vars
  BY CometStep
<1> QED
  BY <1>1, CometInvariant, TypeCorrect, PTL DEF Spec, CompletedStays, Stays
-----------------------------------------------------------------------------
(***************************************************************************)
(* What the queue may still make the session send stays within the bound,  *)
(* what is unsent is the end of the stream, and each batch on the wire is  *)
(* a run of it.                                                            *)
(***************************************************************************)
Promising(q) == {i \in DOMAIN q : q[i].call \in {"receive_data", "broadcast"}}

PacketsBounded == Len(packets) + Cardinality(Promising(tickQueue)) =< MaxPackets

UnsentAreLast == \E m \in 0..Len(packets) : unsent = m + 1..Len(packets)

WireRuns ==
  \A k \in 1..Len(wire) :
    \E a, z \in 0..Len(packets) : wire[k].ids = a + 1..z

RunsInv == PacketsBounded /\ UnsentAreLast /\ WireRuns

LEMMA PromisingFinite ==
  ASSUME NEW J, NEW q \in Seq(J)
  PROVE  /\ DOMAIN q = 1..Len(q) /\ Len(q) \in Nat
         /\ IsFiniteSet(Promising(q)) /\ Cardinality(Promising(q)) \in Nat
<1>1. DOMAIN q = 1..Len(q) /\ Len(q) \in Nat
  BY LenProperties
<1>2. IsFiniteSet(1..Len(q))
  BY <1>1, FS_Interval
<1>3. Promising(q) \in SUBSET (1..Len(q))
  BY <1>1 DEF Promising
<1>4. IsFiniteSet(Promising(q))
  BY <1>2, <1>3, FS_Subset
<1> QED
  BY <1>1, <1>4, FS_CardinalityType

LEMMA OtherJobPromises ==
  ASSUME NEW J, NEW q \in Seq(J), NEW job,
         job.call \notin {"receive_data", "broadcast"}
  PROVE  Promising(Append(q, job)) = Promising(q)
<1> DEFINE r == Append(q, job)
           K == J \cup {job}
<1>1. /\ r \in Seq(K) /\ Len(r) = Len(q) + 1
      /\ \A i \in 1..Len(q) : r[i] = q[i]
      /\ r[Len(q) + 1] = job
  <2>1. q \in Seq(K) /\ job \in K
    BY SeqMonotonic
  <2> HIDE DEF K
  <2> QED
    BY <2>1, AppendProperties
<1>2. DOMAIN q = 1..Len(q) /\ Len(q) \in Nat /\ DOMAIN r = 1..Len(r)
  BY <1>1, LenProperties
<1> HIDE DEF r
<1>3. \A i \in 1..Len(r) : i \in 1..Len(q) \/ i = Len(q) + 1
  BY <1>1, <1>2
<1>4. \A i \in 1..Len(q) : i \in 1..Len(r)
  BY <1>1, <1>2
<1>5. Promising(r) = Promising(q)
  BY <1>1, <1>2, <1>3, <1>4 DEF Promising
<1> QED
  BY <1>5 DEF r

LEMMA MoreJobsPromise ==
  ASSUME NEW J, NEW q \in Seq(J), NEW more \in Seq(J)
  PROVE  Cardinality(Promising(q \o more)) =< Cardinality(Promising(q)) + Len(more)
<1> DEFINE r == q \o more
           n == Len(q)
           k == Len(more)
           A == Promising(q)
           B == n + 1..n + k
<1>1. n \in Nat /\ k \in Nat /\ DOMAIN q = 1..n
  BY LenProperties
<1>2. /\ r \in Seq(J) /\ Len(r) = n + k
      /\ \A i \in 1..Len(r) : i =< n => r[i] = q[i]
  BY ConcatProperties
<1>3. DOMAIN r = 1..Len(r)
  BY <1>2, LenProperties
<1>4. IsFiniteSet(A) /\ Cardinality(A) \in Nat
  BY PromisingFinite
<1> HIDE DEF r, n, k
<1>5. IsFiniteSet(B) /\ Cardinality(B) = k
  <2> DEFINE a == n + 1
             z == n + k
  <2>1. a \in Int /\ z \in Int /\ (a > z <=> k = 0)
    BY <1>1
  <2>2. k # 0 => z - a + 1 = k
    BY <1>1
  <2> HIDE DEF a, z
  <2>3. IsFiniteSet(a..z) /\ Cardinality(a..z) = IF a > z THEN 0 ELSE z - a + 1
    BY <2>1, FS_Interval
  <2> QED
    BY <1>1, <2>1, <2>2, <2>3 DEF a, z
<1>6. Promising(r) \in SUBSET (A \cup B)
  <2>1. ASSUME NEW i \in Promising(r)
        PROVE  i \in A \cup B
    <3>1. i \in 1..n + k /\ r[i].call \in {"receive_data", "broadcast"}
      BY <1>2, <1>3 DEF Promising
    <3>2. CASE i =< n
      BY <1>1, <1>2, <3>1, <3>2 DEF Promising
    <3>3. CASE i > n
      BY <1>1, <3>1, <3>3
    <3> QED
      BY <1>1, <3>1, <3>2, <3>3
  <2> QED
    BY <2>1
<1> HIDE DEF A, B
<1>7. /\ IsFiniteSet(A \cup B)
      /\ Cardinality(A \cup B) = Cardinality(A) + Cardinality(B) - Cardinality(A \cap B)
  BY <1>4, <1>5, FS_Union
<1>8. Cardinality(A \cap B) \in Nat
  <2>1. IsFiniteSet(A \cap B)
    BY <1>4, FS_Intersection
  <2> QED
    BY <2>1, FS_CardinalityType
<1>9. Cardinality(Promising(r)) =< Cardinality(A \cup B)
  BY <1>6, <1>7, FS_Subset
<1>10. Cardinality(Promising(r)) \in Nat /\ Cardinality(A \cup B) \in Nat
  <2>1. IsFiniteSet(Promising(r))
    BY <1>6, <1>7, FS_Subset
  <2> QED
    BY <1>7, <2>1, FS_CardinalityType
<1>11. Cardinality(Promising(r)) =< Cardinality(A) + k
  BY <1>1, <1>4, <1>5, <1>7, <1>8, <1>9, <1>10
<1> QED
  BY <1>11 DEF r, k, A

LEMMA DoneJobPromises ==
  ASSUME NEW J, NEW q \in Seq(J), q # <<>>
  PROVE  /\ Cardinality(Promising(Tail(q))) =< Cardinality(Promising(q))
         /\ Head(q).call \in {"receive_data", "broadcast"} =>
              Cardinality(Promising(Tail(q))) + 1 =< Cardinality(Promising(q))
<1> DEFINE t == Tail(q)
           A == Promising(t)
           B == Promising(q)
           C1 == B \ {1}
<1>1. /\ t \in Seq(J) /\ Len(t) = Len(q) - 1 /\ Len(q) \in Nat /\ Len(q) >= 1
      /\ Head(q) = q[1]
      /\ \A i \in 1..Len(t) : t[i] = q[i + 1]
  BY EmptySeq, LenProperties, HeadTailProperties
<1>2. /\ DOMAIN t = 1..Len(t) /\ DOMAIN q = 1..Len(q)
      /\ IsFiniteSet(B) /\ Cardinality(B) \in Nat
      /\ IsFiniteSet(A) /\ Cardinality(A) \in Nat
  BY <1>1, PromisingFinite
<1>3. IsFiniteSet(C1) /\ Cardinality(C1) = IF 1 \in B THEN Cardinality(B) - 1 ELSE Cardinality(B)
  BY <1>2, FS_RemoveElement
<1> DEFINE f == [i \in A |-> i + 1]
<1> HIDE DEF t
<1>4. ASSUME NEW i \in A
      PROVE  i \in Nat /\ i + 1 \in C1
  <2>1. i \in 1..Len(t) /\ t[i].call \in {"receive_data", "broadcast"}
    BY <1>2 DEF Promising
  <2>2. i + 1 \in 1..Len(q) /\ i + 1 # 1 /\ q[i + 1] = t[i]
    BY <1>1, <2>1
  <2> QED
    BY <1>2, <2>1, <2>2 DEF Promising
<1>5. f \in Injection(A, C1)
  <2> HIDE DEF A, C1
  <2>1. f \in [A -> C1]
    BY <1>4
  <2>2. \A i, j \in A : f[i] = f[j] => i = j
    BY <1>4
  <2> HIDE DEF f
  <2> QED
    BY <2>1, <2>2 DEF Injection, IsInjective
<1> HIDE DEF f, A, C1
<1>6. Cardinality(A) =< Cardinality(C1)
  <2>1. IsFiniteSet(C1)
    BY <1>3
  <2>2. /\ IsFiniteSet(A)
        /\ Cardinality(A) =< Cardinality(C1)
        /\ Cardinality(A) = Cardinality(C1) <=> f \in Surjection(A, C1)
    BY ONLY <1>5, <2>1, FS_Injection
  <2> QED
    BY <2>2
<1>7. Head(q).call \in {"receive_data", "broadcast"} => 1 \in B
  BY <1>1, <1>2 DEF Promising
<1> HIDE DEF B
<1>8. Cardinality(C1) \in Int /\ Cardinality(C1) =< Cardinality(B)
  BY <1>2, <1>3
<1>9. /\ Cardinality(A) =< Cardinality(B)
      /\ Head(q).call \in {"receive_data", "broadcast"} =>
           Cardinality(A) + 1 =< Cardinality(B)
  BY <1>2, <1>3, <1>6, <1>7, <1>8
<1> QED
  BY <1>9 DEF A, B, t

(* The batch that flush! writes is the end of the stream.                  *)
LEMMA FlushRuns ==
  ASSUME TypeOK, UnsentAreLast, WireRuns, NEW f,
         NEW n \in Nat, Len(packets') = n, Len(packets) =< n,
         NEW batch, batch = unsent \cup (Len(packets) + 1)..n,
         Flush(batch, f)
  PROVE  UnsentAreLast' /\ WireRuns'
<1> DEFINE w == [body |-> Len(f.comets), ids |-> batch, open |-> IsOpen(f.comets)]
           W == [body : 1..Len(comets), ids : SUBSET Ids, open : BOOLEAN] \cup {w}
<1>1. Len(packets) \in Nat
  BY Lengths
<1>2. PICK m \in 0..Len(packets) : unsent = m + 1..Len(packets)
  BY DEF UnsentAreLast
<1>3. m \in 0..n /\ batch = m + 1..n
  BY <1>1, <1>2
<1>4. unsent' = {} /\ wire' = Append(wire, w)
  BY DEF Flush
<1>5. UnsentAreLast'
  <2>1. n \in 0..n /\ {} = n + 1..n
    BY <1>1
  <2> QED
    BY <1>4, <2>1 DEF UnsentAreLast
<1>6. wire \in Seq(W) /\ w \in W
  BY SeqMonotonic DEF TypeOK
<1>7. w.ids = batch
  OBVIOUS
<1> HIDE DEF w, W
<1>8. /\ Len(wire') = Len(wire) + 1 /\ Len(wire) \in Nat
      /\ \A k \in 1..Len(wire) : wire'[k] = wire[k]
      /\ wire'[Len(wire) + 1] = w
  BY <1>4, <1>6, AppendProperties, LenProperties
<1>9. ASSUME NEW k \in 1..Len(wire')
      PROVE  \E a, z \in 0..n : wire'[k].ids = a + 1..z
  <2>1. CASE k = Len(wire) + 1
    <3>1. wire'[k] = w
      BY <1>8, <2>1
    <3>2. wire'[k].ids = m + 1..n
      BY <1>3, <1>7, <3>1
    <3>3. n \in 0..n
      OBVIOUS
    <3> QED
      BY <1>3, <3>2, <3>3
  <2>2. CASE k # Len(wire) + 1
    <3>1. k \in 1..Len(wire) /\ wire'[k] = wire[k]
      BY <1>8, <2>2
    <3>2. PICK a \in 0..Len(packets), z \in 0..Len(packets) : wire[k].ids = a + 1..z
      BY <3>1 DEF WireRuns
    <3>3. a \in 0..n /\ z \in 0..n
      BY <1>1, <3>2
    <3> QED
      BY <3>1, <3>2, <3>3
  <2> QED
    BY <2>1, <2>2
<1> QED
  BY <1>5, <1>9 DEF WireRuns

LEMMA MorePackets ==
  ASSUME TypeOK, NEW d \in Payloads, packets' = Append(packets, d)
  PROVE  Len(packets') = Len(packets) + 1 /\ Len(packets') \in Nat
BY AppendProperties, Lengths DEF TypeOK

LEMMA SendDataRuns ==
  ASSUME TypeOK, UnsentAreLast, WireRuns, NEW f, NEW d \in Payloads, SendData(d, f)
  PROVE  /\ UnsentAreLast' /\ WireRuns'
         /\ Len(packets') = Len(packets) + 1
<1> DEFINE n == Len(packets')
<1>1. /\ n = Len(packets) + 1 /\ n \in Nat /\ Len(packets) \in Nat
  BY MorePackets, Lengths DEF SendData
<1>2. NewBatch = unsent \cup (Len(packets) + 1)..n
  <2>1. (Len(packets) + 1)..n = {Len(packets) + 1}
    BY <1>1
  <2> QED
    BY <2>1 DEF NewBatch, LastPacketId
<1>3. CASE Flush(NewBatch, f)
  BY <1>1, <1>2, <1>3, FlushRuns
<1>4. CASE unsent' = NewBatch /\ UNCHANGED wire
  <2>1. PICK m \in 0..Len(packets) : unsent = m + 1..Len(packets)
    BY DEF UnsentAreLast
  <2>2. m \in 0..n /\ unsent' = m + 1..n
    BY <1>1, <1>2, <1>4, <2>1
  <2>3. \A a \in 0..Len(packets) : a \in 0..n
    BY <1>1
  <2> HIDE DEF n
  <2>4. UnsentAreLast'
    BY <2>2 DEF UnsentAreLast, n
  <2>5. WireRuns'
    BY <1>4, <2>3 DEF WireRuns, n
  <2> QED
    BY <1>1, <2>4, <2>5 DEF n
<1> QED
  BY <1>3, <1>4 DEF SendData

LEMMA JobSendsRuns ==
  ASSUME TypeOK, UnsentAreLast, WireRuns, NEW d \in Payloads, JobSends(d)
  PROVE  /\ UnsentAreLast' /\ WireRuns'
         /\ Len(packets') \in {Len(packets), Len(packets) + 1}
<1>1. CASE SendData(d, Unfiltered)
  BY <1>1, SendDataRuns
<1>2. CASE UNCHANGED <<packets, unsent, wire>>
  BY <1>2 DEF UnsentAreLast, WireRuns
<1> QED
  BY <1>1, <1>2 DEF JobSends

LEMMA PromisedNow ==
  ASSUME TypeOK
  PROVE  /\ Promised = Cardinality(Promising(tickQueue))
         /\ Cardinality(Promising(tickQueue)) \in Nat
         /\ Len(packets) \in Nat
<1>1. tickQueue \in Seq(Jobs)
  BY DEF TypeOK
<1> QED
  BY <1>1, PromisingFinite, Lengths DEF Promised, Promising

(* The queue loses its head, or gains a job that promises nothing.         *)
LEMMA BoundKept ==
  ASSUME TypeOK, PacketsBounded,
         \/ UNCHANGED tickQueue
         \/ \E job : /\ job.call \notin {"receive_data", "broadcast"}
                     /\ tickQueue' = Append(tickQueue, job)
         \/ \E call : RunJob(call),
         UNCHANGED packets
  PROVE  PacketsBounded'
<1>1. tickQueue \in Seq(Jobs)
  BY DEF TypeOK
<1>2. CASE UNCHANGED tickQueue
  BY <1>2 DEF PacketsBounded
<1>3. ASSUME NEW job, job.call \notin {"receive_data", "broadcast"},
             tickQueue' = Append(tickQueue, job)
      PROVE  PacketsBounded'
  <2>1. Promising(tickQueue') = Promising(tickQueue)
    BY <1>1, <1>3, OtherJobPromises
  <2> QED
    BY <2>1 DEF PacketsBounded
<1>4. ASSUME NEW call, RunJob(call)
      PROVE  PacketsBounded'
  <2>1. tickQueue # <<>> /\ tickQueue' = Tail(tickQueue)
    BY <1>4 DEF RunJob
  <2>2. Cardinality(Promising(tickQueue')) =< Cardinality(Promising(tickQueue))
    BY <1>1, <2>1, DoneJobPromises
  <2>3. Cardinality(Promising(tickQueue')) \in Nat
    <3>1. tickQueue' \in Seq(Jobs)
      BY <1>4, RunJobType
    <3> QED
      BY <3>1, PromisingFinite
  <2> QED
    BY <2>2, <2>3, PromisedNow, BoundsAssumption DEF PacketsBounded
<1> QED
  BY <1>2, <1>3, <1>4

(* A job that sends at most one packet was one of those counted.           *)
LEMMA JobKeepsBound ==
  ASSUME TypeOK, PacketsBounded, NEW call \in {"receive_data", "broadcast"},
         RunJob(call), Len(packets') \in {Len(packets), Len(packets) + 1}
  PROVE  PacketsBounded'
<1>1. /\ tickQueue \in Seq(Jobs) /\ tickQueue # <<>>
      /\ tickQueue' = Tail(tickQueue) /\ Head(tickQueue).call = call
  BY DEF TypeOK, RunJob
<1>2. Cardinality(Promising(tickQueue')) + 1 =< Cardinality(Promising(tickQueue))
  BY <1>1, DoneJobPromises
<1>3. Cardinality(Promising(tickQueue')) \in Nat
  <2>1. tickQueue' \in Seq(Jobs)
    BY RunJobType
  <2> QED
    BY <2>1, PromisingFinite
<1> QED
  BY <1>2, <1>3, PromisedNow, BoundsAssumption DEF PacketsBounded

LEMMA SendKeepsBound ==
  ASSUME TypeOK, PacketsBounded, LastPacketId + Promised < MaxPackets,
         Len(packets') = Len(packets) + 1,
         \/ UNCHANGED tickQueue
         \/ \E job : /\ job.call \notin {"receive_data", "broadcast"}
                     /\ tickQueue' = Append(tickQueue, job)
  PROVE  PacketsBounded'
<1>1. tickQueue \in Seq(Jobs)
  BY DEF TypeOK
<1>2. Promising(tickQueue') = Promising(tickQueue)
  BY <1>1, OtherJobPromises
<1> QED
  BY <1>2, PromisedNow, BoundsAssumption DEF PacketsBounded, LastPacketId

LEMMA MoreJobsKeepBound ==
  ASSUME TypeOK, PacketsBounded, NEW more \in Seq(Jobs),
         LastPacketId + Promised + Len(more) =< MaxPackets,
         tickQueue' = tickQueue \o more, UNCHANGED packets
  PROVE  PacketsBounded'
<1>1. tickQueue \in Seq(Jobs)
  BY DEF TypeOK
<1>2. Cardinality(Promising(tickQueue'))
        =< Cardinality(Promising(tickQueue)) + Len(more)
  BY <1>1, MoreJobsPromise
<1>3. Cardinality(Promising(tickQueue')) \in Nat
  <2>1. tickQueue' \in Seq(Jobs)
    BY <1>1, ConcatProperties
  <2> QED
    BY <2>1, PromisingFinite
<1>4. Len(more) \in Nat
  BY LenProperties
<1> QED
  BY <1>2, <1>3, <1>4, PromisedNow, BoundsAssumption DEF PacketsBounded, LastPacketId

LEMMA RequestRuns ==
  ASSUME TypeOK, RunsInv, NEW req \in Requests, NEW ack \in Acks,
         \/ Handshake(req) \/ Comet(req, ack)
         \/ \E batch \in Batches : CspSend(req, ack, batch)
         \/ Close(req, ack)
  PROVE  RunsInv'
<1>0. PacketsBounded /\ UnsentAreLast /\ WireRuns
  BY DEF RunsInv
<1>1. CASE Handshake(req) \/ Comet(req, ack)
  <2>1. PICK job : /\ job.call \notin {"receive_data", "broadcast"}
                   /\ tickQueue' = Append(tickQueue, job)
    BY <1>1 DEF Handshake, Comet, Job
  <2>2. UNCHANGED <<packets, unsent, wire>>
    BY <1>1 DEF Handshake, Comet
  <2>3. PacketsBounded'
    BY <1>0, <2>1, <2>2, BoundKept
  <2> QED
    BY <1>0, <2>2, <2>3 DEF RunsInv, UnsentAreLast, WireRuns
<1>2. ASSUME NEW batch \in Batches, CspSend(req, ack, batch)
      PROVE  RunsInv'
  <2>1. /\ LastPacketId + Promised + Len(batch) =< MaxPackets
        /\ tickQueue' = tickQueue \o ReceiveJobs(batch)
        /\ UNCHANGED <<packets, unsent, wire>>
    BY <1>2 DEF CspSend
  <2>2. ReceiveJobs(batch) \in Seq(Jobs) /\ Len(ReceiveJobs(batch)) = Len(batch)
    <3>1. PICK n \in 1..2 : batch \in [1..n -> Payloads]
      BY DEF Batches
    <3>2. Len(ReceiveJobs(batch)) = Len(batch)
      BY <3>1 DEF ReceiveJobs
    <3> QED
      BY <3>2, BatchJobs
  <2>3. PacketsBounded'
    BY <1>0, <2>1, <2>2, MoreJobsKeepBound
  <2> QED
    BY <1>0, <2>1, <2>3 DEF RunsInv, UnsentAreLast, WireRuns
<1>3. CASE Close(req, ack)
  <2> DEFINE f == Filtered(req, ack)
  <2>1. /\ LastPacketId + Promised < MaxPackets /\ SendData(Null, f)
        /\ MarkClosed(SendRaises(Null, f))
    BY <1>3 DEF Close
  <2>2. Null \in Payloads
    BY DEF Payloads
  <2>3. \/ UNCHANGED tickQueue
        \/ \E job : /\ job.call \notin {"receive_data", "broadcast"}
                    /\ tickQueue' = Append(tickQueue, job)
    BY <2>1 DEF MarkClosed, Job
  <2> HIDE DEF f
  <2>4. UnsentAreLast' /\ WireRuns' /\ Len(packets') = Len(packets) + 1
    BY <1>0, <2>1, <2>2, SendDataRuns
  <2>5. PacketsBounded'
    BY <1>0, <2>1, <2>3, <2>4, SendKeepsBound
  <2> QED
    BY <2>4, <2>5 DEF RunsInv
<1> QED
  BY <1>1, <1>2, <1>3

LEMMA TickRuns ==
  ASSUME TypeOK, RunsInv, Tick
  PROVE  RunsInv'
<1>0. PacketsBounded /\ UnsentAreLast /\ WireRuns
  BY DEF RunsInv
<1>1. CASE Respond \/ PostInit \/ Unbind
  <2>1. UNCHANGED <<packets, unsent, wire>> /\ \E call : RunJob(call)
    BY <1>1 DEF Respond, PostInit, Unbind
  <2>2. PacketsBounded'
    BY <1>0, <2>1, BoundKept
  <2> QED
    BY <1>0, <2>1, <2>2 DEF RunsInv, UnsentAreLast, WireRuns
<1>2. CASE ReceiveData \/ Broadcast
  <2>1. PICK call \in {"receive_data", "broadcast"} :
          RunJob(call) /\ JobSends(Head(tickQueue).arg)
    BY <1>2 DEF ReceiveData, Broadcast
  <2>2. Head(tickQueue).arg \in Payloads
    <3>1. Head(tickQueue) \in Jobs /\ Head(tickQueue).call = call
      BY <2>1, RunJobType
    <3> QED
      BY <2>1, <3>1 DEF Jobs
  <2>3. UnsentAreLast' /\ WireRuns' /\ Len(packets') \in {Len(packets), Len(packets) + 1}
    BY <1>0, <2>1, <2>2, JobSendsRuns
  <2>4. PacketsBounded'
    BY <1>0, <2>1, <2>3, JobKeepsBound
  <2> QED
    BY <2>3, <2>4 DEF RunsInv
<1> QED
  BY <1>1, <1>2 DEF Tick

LEMMA TimerRuns ==
  ASSUME TypeOK, RunsInv, NEW t, TimerFires(t)
  PROVE  RunsInv'
<1>1. PacketsBounded /\ UnsentAreLast /\ WireRuns
  BY DEF RunsInv
<1>2. UNCHANGED <<packets, tickQueue>>
  BY DEF TimerFires
<1>3. PacketsBounded'
  BY <1>1, <1>2 DEF PacketsBounded
<1>4. CASE Flush(unsent, Unfiltered)
  <2>1. Len(packets) \in Nat
    BY Lengths
  <2>2. unsent = unsent \cup (Len(packets) + 1)..Len(packets)
    BY <2>1
  <2>3. UnsentAreLast' /\ WireRuns'
    BY <1>1, <1>2, <1>4, <2>1, <2>2, FlushRuns
  <2> QED
    BY <1>3, <2>3 DEF RunsInv
<1>5. CASE UNCHANGED <<unsent, wire>>
  BY <1>1, <1>2, <1>3, <1>5 DEF RunsInv, UnsentAreLast, WireRuns
<1> QED
  BY <1>4, <1>5 DEF TimerFires

LEMMA RunsStep == TypeOK /\ RunsInv /\ [Next]_vars => RunsInv'
<1> SUFFICES ASSUME TypeOK, RunsInv, [Next]_vars
             PROVE  RunsInv'
  OBVIOUS
<1>0. PacketsBounded /\ UnsentAreLast /\ WireRuns
  BY DEF RunsInv
<1>1. ASSUME NEW d \in Payloads, OtherSend(d)
      PROVE  RunsInv'
  <2>1. /\ LastPacketId + Promised < MaxPackets
        /\ tickQueue' = tickQueue \o <<Job("broadcast", d)>>
        /\ UNCHANGED <<packets, unsent, wire>>
    <3>1. tickQueue' = Append(tickQueue, Job("broadcast", d))
          /\ Job("broadcast", d) \in Jobs /\ tickQueue \in Seq(Jobs)
      BY <1>1 DEF OtherSend, Job, Jobs, TypeOK
    <3> QED
      BY <1>1, <3>1, AppendIsConcat DEF OtherSend
  <2>2. <<Job("broadcast", d)>> \in Seq(Jobs) /\ Len(<<Job("broadcast", d)>>) = 1
    BY DEF Job, Jobs
  <2>3. LastPacketId + Promised + Len(<<Job("broadcast", d)>>) =< MaxPackets
    BY <2>1, <2>2, PromisedNow, BoundsAssumption DEF LastPacketId
  <2>4. PacketsBounded'
    BY <1>0, <2>1, <2>2, <2>3, MoreJobsKeepBound
  <2> QED
    BY <1>0, <2>1, <2>4 DEF RunsInv, UnsentAreLast, WireRuns
<1>2. ASSUME NEW b, ConnectionLost(b)
      PROVE  RunsInv'
  BY <1>0, <1>2 DEF ConnectionLost, RunsInv, PacketsBounded, UnsentAreLast, WireRuns
<1>3. ASSUME UNCHANGED vars
      PROVE  RunsInv'
  BY <1>0, <1>3 DEF vars, RunsInv, PacketsBounded, UnsentAreLast, WireRuns
<1>4. ASSUME NEW req \in Requests, Handshake(req)
      PROVE  RunsInv'
  <2>1. NoAck \in Acks
    BY DEF Acks
  <2> QED
    BY <1>4, <2>1, RequestRuns
<1> QED
  BY <1>1, <1>2, <1>3, <1>4, RequestRuns, TickRuns, TimerRuns DEF Next

LEMMA RunsInit == Init /\ TypeOK => RunsInv
<1> SUFFICES ASSUME Init
             PROVE  RunsInv
  OBVIOUS
<1>1. packets = <<>> /\ tickQueue = <<>> /\ wire = <<>> /\ unsent = {}
  BY DEF Init
<1>2. Len(<<>>) = 0 /\ Promising(<<>>) = {}
  BY DEF Promising
<1>3. Cardinality({}) = 0
  BY FS_EmptySet
<1>4. 0 \in 0..0 /\ {} = 0 + 1..0
  OBVIOUS
<1> QED
  BY <1>1, <1>2, <1>3, <1>4, BoundsAssumption
     DEF RunsInv, PacketsBounded, UnsentAreLast, WireRuns
=============================================================================
