--------------------------- MODULE CspServerProofs ---------------------------
(* Proofs about CspServer, for every Data, every App, every setting a      *)
(* request may carry and every bound.                                      *)
EXTENDS CspServer, SequenceTheorems, TLAPS

Settings == [is : BOOLEAN, du : {"zero", "positive"}]

(* What environment_filters leaves to a handler: the fields have their     *)
(* types and no comet was added.                                           *)
FilterType(f) ==
  /\ f.settings \in Settings
  /\ f.unacked \in SUBSET Ids
  /\ f.registry \in {"absent", "live", "discarded"}
  /\ f.comets \in Seq(Bodies)
  /\ Len(f.comets) = Len(comets)

(* Changing a status changes that body's status and nothing else. *)
LEMMA WithStatusType ==
  ASSUME NEW cs \in Seq(Bodies), NEW b \in 1..Len(cs),
         NEW st \in {"pending", "open", "succeeded", "failed"}
  PROVE  /\ WithStatus(cs, b, st) \in Seq(Bodies)
         /\ Len(WithStatus(cs, b, st)) = Len(cs)
         /\ WithStatus(cs, b, st)[b].status = st
         /\ \A c \in 1..Len(cs) : c # b => WithStatus(cs, b, st)[c] = cs[c]
<1> DEFINE new == [cs[b] EXCEPT !.status = st]
<1>1. cs[b] \in Bodies
  BY ElementOfSeq
<1>2. new \in Bodies /\ new.status = st
  BY <1>1 DEF Bodies
<1>3. WithStatus(cs, b, st) = [cs EXCEPT ![b] = new]
  BY LenProperties DEF WithStatus
<1> HIDE DEF new
<1> QED
  BY <1>2, <1>3, ExceptSeq

LEMMA SucceedType ==
  ASSUME NEW cs \in Seq(Bodies), Len(cs) # 0
  PROVE  /\ Succeed(cs) \in Seq(Bodies)
         /\ Len(Succeed(cs)) = Len(cs)
         /\ Succeed(cs)[Len(cs)].status = "succeeded"
         /\ \A b \in 1..Len(cs) : b # Len(cs) => Succeed(cs)[b] = cs[b]
<1>1. Len(cs) \in 1..Len(cs)
  BY LenProperties
<1> QED
  BY <1>1, WithStatusType DEF Succeed

LEMMA SucceedIfOpenType ==
  ASSUME NEW cs \in Seq(Bodies)
  PROVE  /\ SucceedIfOpen(cs) \in Seq(Bodies)
         /\ Len(SucceedIfOpen(cs)) = Len(cs)
         /\ \A b \in 1..Len(cs) :
              \/ SucceedIfOpen(cs)[b] = cs[b]
              \/ /\ b = Len(cs)
                 /\ cs[b].status = "open"
                 /\ SucceedIfOpen(cs)[b].status = "succeeded"
<1>1. CASE IsOpen(cs)
  BY <1>1, SucceedType DEF SucceedIfOpen, IsOpen
<1>2. CASE ~IsOpen(cs)
  BY <1>2 DEF SucceedIfOpen
<1> QED
  BY <1>1, <1>2

LEMMA Lengths ==
  TypeOK => Len(packets) \in Nat /\ Len(comets) \in Nat /\ Len(tickQueue) \in Nat
  BY LenProperties DEF TypeOK

LEMMA FilteredType ==
  ASSUME TypeOK, NEW req \in Requests, NEW ack \in Acks
  PROVE  FilterType(Filtered(req, ack))
<1>1. Merged(req) \in Settings
  BY RequestsAssumption DEF Merged, TypeOK, Settings
<1>2. LeftUnacked(ack) \in SUBSET Ids
  BY DEF LeftUnacked, TypeOK
<1>3. comets \in Seq(Bodies) /\ registry \in {"absent", "live", "discarded"}
  BY DEF TypeOK
<1> QED
  BY <1>1, <1>2, <1>3, SucceedIfOpenType DEF FilterType, Filtered

LEMMA UnfilteredType == TypeOK => FilterType(Unfiltered)
  BY DEF TypeOK, FilterType, Unfiltered, Settings

(* flush! with a body: the types of what it assigns. *)
LEMMA FlushType ==
  ASSUME TypeOK, NEW f, FilterType(f), Len(comets) # 0,
         NEW batch, NEW n \in Nat, batch \in SUBSET (1..n), Len(packets) =< n,
         Flush(batch, f)
  PROVE  /\ comets' \in Seq(Bodies) /\ Len(comets') = Len(comets)
         /\ unacked' \in SUBSET (1..n)
         /\ unsent' = {}
         /\ wire' \in Seq([body : 1..Len(comets), ids : SUBSET (1..n), open : BOOLEAN])
<1>1. comets' \in Seq(Bodies) /\ Len(comets') = Len(comets)
  BY SucceedType DEF Flush, FilterType
<1>2. unacked' \in SUBSET (1..n)
  <2>1. Ids \subseteq 1..n
    BY Lengths DEF Ids
  <2>2. f.unacked \subseteq Ids /\ unacked' = f.unacked \cup batch
    BY DEF Flush, FilterType
  <2> QED
    BY <2>1, <2>2
<1> DEFINE Entries == [body : 1..Len(comets), ids : SUBSET (1..n), open : BOOLEAN]
           new == [body |-> Len(f.comets), ids |-> batch, open |-> IsOpen(f.comets)]
<1>3. new \in Entries
  BY Lengths DEF FilterType, IsOpen
<1>4. wire \in Seq(Entries)
  <2>1. [body : 1..Len(comets), ids : SUBSET Ids, open : BOOLEAN] \subseteq Entries
    BY Lengths DEF Ids
  <2> QED
    BY <2>1, SeqMonotonic DEF TypeOK
<1>5. wire' \in Seq(Entries)
  <2> HIDE DEF Entries
  <2> QED
    BY <1>3, <1>4, AppendProperties DEF Flush
<1> QED
  BY <1>1, <1>2, <1>5 DEF Flush

(* The types of everything send_data and flush! assign. *)
SentType ==
  /\ packets' \in Seq(Payloads)
  /\ unsent' \in SUBSET Ids'
  /\ unacked' \in SUBSET Ids'
  /\ comets' \in Seq(Bodies) /\ Len(comets') = Len(comets)
  /\ wire' \in Seq([body : 1..Len(comets'), ids : SUBSET Ids', open : BOOLEAN])

LEMMA FlushUnsentType ==
  ASSUME TypeOK, Len(comets) # 0, Flush(unsent, Unfiltered), UNCHANGED packets
  PROVE  SentType
<1>1. unsent \in SUBSET (1..Len(packets)) /\ Len(packets) \in Nat
  BY Lengths DEF TypeOK, Ids
<1>2. /\ comets' \in Seq(Bodies) /\ Len(comets') = Len(comets)
      /\ unacked' \in SUBSET (1..Len(packets))
      /\ unsent' = {}
      /\ wire' \in Seq([body : 1..Len(comets), ids : SUBSET (1..Len(packets)),
                        open : BOOLEAN])
  <2>1. PICK f : f = Unfiltered
    OBVIOUS
  <2>2. PICK batch : batch = unsent
    OBVIOUS
  <2>3. Flush(batch, f) /\ FilterType(f)
    BY <2>1, <2>2, UnfilteredType DEF Flush
  <2>4. PICK n \in Nat : n = Len(packets)
    BY <1>1
  <2>5. batch \in SUBSET (1..n) /\ Len(packets) =< n
    BY <1>1, <2>2, <2>4
  <2>6. /\ comets' \in Seq(Bodies) /\ Len(comets') = Len(comets)
        /\ unacked' \in SUBSET (1..n)
        /\ unsent' = {}
        /\ wire' \in Seq([body : 1..Len(comets), ids : SUBSET (1..n), open : BOOLEAN])
    BY <2>3, <2>5, FlushType
  <2> QED
    BY <2>4, <2>6
<1> QED
  BY <1>2 DEF SentType, TypeOK, Ids

LEMMA SendDataType ==
  ASSUME TypeOK, NEW f, FilterType(f), NEW d \in Payloads, SendData(d, f)
  PROVE  SentType
<1> DEFINE n == Len(packets) + 1
<1>1. /\ packets' \in Seq(Payloads) /\ Len(packets') = n /\ n \in Nat
      /\ Len(packets) =< n
  BY Lengths, AppendProperties DEF SendData, TypeOK
<1>2. Ids' = 1..n /\ Ids \subseteq 1..n
  BY <1>1, Lengths DEF Ids
<1>3. NewBatch \in SUBSET (1..n)
  <2>1. unsent \subseteq 1..n
    BY <1>2 DEF TypeOK
  <2>2. LastPacketId + 1 \in 1..n
    BY <1>1, Lengths DEF LastPacketId
  <2> QED
    BY <2>1, <2>2 DEF NewBatch
<1>4. CASE IsOpen(f.comets) /\ ~SendRaises(d, f)
  <2>1. Flush(NewBatch, f) /\ Len(comets) # 0
    BY <1>4 DEF SendData, IsOpen, FilterType
  <2>2. /\ comets' \in Seq(Bodies) /\ Len(comets') = Len(comets)
        /\ unacked' \in SUBSET (1..n)
        /\ unsent' = {}
        /\ wire' \in Seq([body : 1..Len(comets), ids : SUBSET (1..n), open : BOOLEAN])
    BY <2>1, <1>1, <1>3, FlushType
  <2> QED
    BY <1>1, <1>2, <2>2 DEF SentType
<1>5. CASE ~(IsOpen(f.comets) /\ ~SendRaises(d, f))
  <2>1. unsent' = NewBatch /\ unacked' = f.unacked /\ comets' = f.comets /\ wire' = wire
    BY <1>5 DEF SendData
  <2>2. [body : 1..Len(comets), ids : SUBSET Ids, open : BOOLEAN]
          \subseteq [body : 1..Len(comets), ids : SUBSET Ids', open : BOOLEAN]
    BY <1>2
  <2>3. wire \in Seq([body : 1..Len(comets), ids : SUBSET Ids', open : BOOLEAN])
    BY <2>2, SeqMonotonic DEF TypeOK
  <2> QED
    BY <1>1, <1>2, <1>3, <2>1, <2>3 DEF SentType, FilterType
<1> QED
  BY <1>4, <1>5

(* Jobs queued stay jobs when comets are added. *)
LEMMA JobsGrow ==
  ASSUME TypeOK, Len(comets') \in Nat, Len(comets) =< Len(comets')
  PROVE  /\ tickQueue \in Seq(Jobs') /\ calls \in Seq(Jobs')
<1>1. Jobs \subseteq Jobs'
  BY Lengths DEF Jobs
<1> QED
  BY <1>1, SeqMonotonic DEF TypeOK

(* A job runs: it is the head of the queue, and one is left fewer. *)
LEMMA RunJobType ==
  ASSUME TypeOK, NEW call, RunJob(call)
  PROVE  /\ Head(tickQueue) \in Jobs /\ Head(tickQueue).call = call
         /\ tickQueue' \in Seq(Jobs)
         /\ draining' \in 0..Len(tickQueue')
<1>1. tickQueue \in Seq(Jobs) /\ tickQueue # <<>>
  BY DEF TypeOK, RunJob
<1>2. /\ Head(tickQueue) \in Jobs
      /\ Tail(tickQueue) \in Seq(Jobs)
      /\ Len(Tail(tickQueue)) = Len(tickQueue) - 1
  BY <1>1, HeadTailProperties
<1>3. Len(tickQueue) \in Nat \ {0}
  BY <1>1, EmptySeq
<1> QED
  BY <1>2, <1>3 DEF RunJob, TypeOK

(* The variables SentType does not speak of, when the jobs, the timers and *)
(* the callbacks keep to their types.                                      *)
LEMMA TypeFromSent ==
  ASSUME TypeOK, SentType,
         registry' \in {"absent", "live", "discarded"}, settings' \in Settings,
         closed' \in BOOLEAN, timer' = timer, armed' \subseteq armed,
         tickQueue' \in Seq(Jobs), draining' \in 0..Len(tickQueue'),
         up' \in BOOLEAN, calls' \in Seq(Jobs)
  PROVE  TypeOK'
<1>1. Jobs' = Jobs
  BY DEF SentType, Jobs
<1> QED
  BY <1>1 DEF SentType, TypeOK, Settings

LEMMA JobSendsType ==
  ASSUME TypeOK, NEW d \in Payloads, JobSends(d)
  PROVE  SentType /\ up' \in BOOLEAN
<1>1. CASE Reaches
  <2>1. PICK f : f = Unfiltered
    OBVIOUS
  <2>2. SendData(d, f) /\ FilterType(f)
    BY <1>1, <2>1, UnfilteredType DEF JobSends, SendData, Flush, SendRaises
  <2>3. SentType
    BY <2>2, SendDataType
  <2>4. up' \in BOOLEAN
    BY <1>1 DEF JobSends
  <2> QED
    BY <2>3, <2>4
<1>2. CASE ~Reaches
  BY <1>2 DEF JobSends, SentType, TypeOK, Ids
<1> QED
  BY <1>1, <1>2

LEMMA HandshakeType ==
  ASSUME TypeOK, NEW req \in Requests, Handshake(req)
  PROVE  TypeOK'
<1>1. settings' \in Settings
  BY RequestsAssumption DEF Handshake, Merged, TypeOK, Settings
<1>2. Job("post_init", Null) \in Jobs
  BY DEF Jobs, Job
<1>3. tickQueue' \in Seq(Jobs) /\ Len(tickQueue') = Len(tickQueue) + 1
  BY <1>2, AppendProperties DEF Handshake, TypeOK
<1>4. draining' \in 0..Len(tickQueue')
  BY <1>3, Lengths DEF Handshake, TypeOK
<1> QED
  BY <1>1, <1>3, <1>4 DEF Handshake, TypeOK, Jobs, Ids, Settings

LEMMA CometType ==
  ASSUME TypeOK, NEW req \in Requests, NEW ack \in Acks, Comet(req, ack)
  PROVE  TypeOK'
<1>1. PICK f : f = Filtered(req, ack)
  OBVIOUS
<1> DEFINE new == [status |-> "pending", gone |-> FALSE, du |-> f.settings.du]
           job == Job("respond", Len(comets) + 1)
<1>2. FilterType(f)
  BY <1>1, FilteredType
<1>3. /\ comets' = Append(SucceedIfOpen(f.comets), new)
      /\ tickQueue' = Append(tickQueue, job)
      /\ armed' = Started(Len(comets) + 1) /\ timer' = Len(comets) + 1
      /\ registry' = f.registry /\ settings' = f.settings /\ unacked' = f.unacked
      /\ UNCHANGED <<packets, unsent, closed, draining, up, wire, calls>>
      /\ draining = 0
  BY <1>1 DEF Comet, AsyncBody, RequestArrives, HandlerRuns
<1>4. new \in Bodies
  BY <1>2 DEF FilterType, Bodies, Settings
<1>5. /\ comets' \in Seq(Bodies) /\ Len(comets') = Len(comets) + 1
      /\ Len(comets) \in Nat
  <2> HIDE DEF new
  <2> QED
    BY <1>2, <1>3, <1>4, SucceedIfOpenType, AppendProperties, Lengths DEF FilterType
<1>6. job \in Jobs' /\ tickQueue \in Seq(Jobs') /\ calls \in Seq(Jobs')
  BY <1>5, JobsGrow DEF Jobs, Job
<1>7. tickQueue' \in Seq(Jobs') /\ Len(tickQueue') = Len(tickQueue) + 1
  <2> HIDE DEF job
  <2> QED
    BY <1>3, <1>6, AppendProperties
<1>8. draining' \in 0..Len(tickQueue')
  BY <1>3, <1>7, Lengths
<1>9. timer' \in 0..Len(comets') /\ armed' \in SUBSET (1..Len(comets'))
  <2>1. /\ 1..Len(comets) \subseteq 1..Len(comets')
        /\ Len(comets) + 1 \in 1..Len(comets')
        /\ Len(comets) + 1 \in 0..Len(comets')
    BY <1>5
  <2>2. timer' = Len(comets) + 1 /\ armed' = Started(Len(comets) + 1)
    BY <1>3
  <2> QED
    BY <2>1, <2>2 DEF TypeOK, Started
<1>10. wire \in Seq([body : 1..Len(comets'), ids : SUBSET Ids', open : BOOLEAN])
  <2>1. [body : 1..Len(comets), ids : SUBSET Ids, open : BOOLEAN]
          \subseteq [body : 1..Len(comets'), ids : SUBSET Ids', open : BOOLEAN]
    BY <1>3, <1>5 DEF Ids
  <2> QED
    BY <2>1, SeqMonotonic DEF TypeOK
<1>11. registry' \in {"absent", "live", "discarded"} /\ settings' \in Settings
       /\ unacked' \in SUBSET Ids' /\ unsent' \in SUBSET Ids'
  BY <1>2, <1>3 DEF FilterType, TypeOK, Ids
<1> QED
  BY <1>3, <1>5, <1>6, <1>7, <1>8, <1>9, <1>10, <1>11 DEF TypeOK, Settings

(* The receive_data jobs of one request, as csp_send queues them. *)
LEMMA BatchJobs ==
  ASSUME NEW batch \in Batches
  PROVE  ReceiveJobs(batch) \in Seq(Jobs)
<1>1. PICK n \in 1..2 : batch \in [1..n -> Payloads]
  BY DEF Batches
<1>2. ReceiveJobs(batch) \in [1..n -> Jobs]
  BY <1>1 DEF ReceiveJobs, Job, Jobs
<1>3. n \in Nat
  OBVIOUS
<1> QED
  BY <1>2, <1>3, SeqDef

LEMMA CspSendType ==
  ASSUME TypeOK, NEW req \in Requests, NEW ack \in Acks, NEW batch \in Batches,
         CspSend(req, ack, batch)
  PROVE  TypeOK'
<1>1. PICK f : f = Filtered(req, ack)
  OBVIOUS
<1>2. FilterType(f)
  BY <1>1, FilteredType
<1> DEFINE new == ReceiveJobs(batch)
<1>3. /\ comets' = f.comets /\ registry' = f.registry
      /\ settings' = f.settings /\ unacked' = f.unacked
      /\ tickQueue' = tickQueue \o new
      /\ draining = 0
      /\ UNCHANGED <<packets, unsent, closed, timer, armed, draining, up, wire, calls>>
  BY <1>1 DEF CspSend, RequestArrives, HandlerRuns
<1>4. tickQueue' \in Seq(Jobs) /\ Len(tickQueue') \in Nat
  BY <1>3, BatchJobs, ConcatProperties, LenProperties DEF TypeOK
<1>5. SentType
  BY <1>2, <1>3 DEF SentType, FilterType, TypeOK, Ids
<1> QED
  BY <1>2, <1>3, <1>4, <1>5, TypeFromSent DEF FilterType, TypeOK

LEMMA CloseType ==
  ASSUME TypeOK, NEW req \in Requests, NEW ack \in Acks, Close(req, ack)
  PROVE  TypeOK'
<1>1. PICK f : f = Filtered(req, ack)
  OBVIOUS
<1>2. FilterType(f)
  BY <1>1, FilteredType
<1>3. /\ SendData(Null, f)
      /\ registry' = f.registry /\ settings' = f.settings
      /\ MarkClosed(SendRaises(Null, f))
      /\ draining = 0
      /\ UNCHANGED <<timer, armed, draining, up, calls>>
  BY <1>1 DEF Close, RequestArrives, HandlerRuns, SendData, Flush, SendRaises
<1>4. SentType
  BY <1>2, <1>3, SendDataType DEF Payloads
<1>5. Job("unbind", Null) \in Jobs
  BY DEF Job, Jobs
<1>6. tickQueue' \in Seq(Jobs) /\ Len(tickQueue') \in Nat /\ closed' \in BOOLEAN
  <2>1. \/ closed' = closed /\ tickQueue' = tickQueue
        \/ closed' = TRUE /\ tickQueue' = Append(tickQueue, Job("unbind", Null))
    BY <1>3 DEF MarkClosed
  <2>2. Append(tickQueue, Job("unbind", Null)) \in Seq(Jobs)
    BY <1>5, AppendProperties DEF TypeOK
  <2>3. tickQueue' \in Seq(Jobs) /\ closed' \in BOOLEAN
    BY <2>1, <2>2 DEF TypeOK
  <2> QED
    BY <2>3, LenProperties
<1> QED
  BY <1>2, <1>3, <1>4, <1>6, TypeFromSent DEF FilterType, TypeOK

LEMMA OtherSendType ==
  ASSUME TypeOK, NEW d \in Payloads, OtherSend(d)
  PROVE  TypeOK'
<1>1. Job("broadcast", d) \in Jobs
  BY DEF Job, Jobs
<1>2. tickQueue' \in Seq(Jobs) /\ Len(tickQueue') \in Nat
  BY <1>1, AppendProperties DEF OtherSend, TypeOK
<1>3. SentType
  BY DEF OtherSend, SentType, TypeOK, Ids
<1> QED
  BY <1>2, <1>3, TypeFromSent DEF OtherSend, HandlerRuns, TypeOK, Settings

LEMMA TickType ==
  ASSUME TypeOK, Tick
  PROVE  TypeOK'
<1> DEFINE job == Head(tickQueue)
<1>1. CASE Respond
  <2>1. RunJob("respond") /\ comets' = WithStatus(comets, job.arg, "open")
    BY <1>1 DEF Respond
  <2>2. job.arg \in 1..Len(comets)
    BY <2>1, RunJobType DEF Jobs
  <2>3. comets' \in Seq(Bodies) /\ Len(comets') = Len(comets)
    BY <2>1, <2>2, WithStatusType DEF TypeOK
  <2>4. SentType
    BY <1>1, <2>3 DEF Respond, SentType, TypeOK, Ids
  <2> QED
    BY <1>1, <2>1, <2>4, RunJobType, TypeFromSent DEF Respond, TypeOK, Settings
<1>2. CASE PostInit \/ Unbind
  <2>1. PICK call : RunJob(call)
    BY <1>2 DEF PostInit, Unbind
  <2>2. calls' = Append(calls, job) /\ job \in Jobs
    BY <1>2, <2>1, RunJobType DEF PostInit, Unbind, Called
  <2>5. calls' \in Seq(Jobs)
    BY <2>2, AppendProperties DEF TypeOK
  <2>3. SentType
    BY <1>2 DEF PostInit, Unbind, SentType, TypeOK, Ids
  <2> QED
    BY <1>2, <2>1, <2>3, <2>5, RunJobType, TypeFromSent
       DEF PostInit, Unbind, TypeOK, Settings
<1>3. CASE ReceiveData
  <2>1. RunJob("receive_data") /\ JobSends(job.arg)
    BY <1>3 DEF ReceiveData
  <2>2. job \in Jobs /\ job.arg \in Payloads
    BY <2>1, RunJobType DEF Jobs
  <2>3. PICK d \in Payloads : d = job.arg
    BY <2>2
  <2>4. SentType /\ up' \in BOOLEAN
    BY <2>1, <2>3, JobSendsType
  <2>5. calls' \in Seq(Jobs)
    BY <1>3, <2>2, AppendProperties DEF ReceiveData, Called, TypeOK
  <2> QED
    BY <1>3, <2>1, <2>4, <2>5, RunJobType, TypeFromSent
       DEF ReceiveData, TypeOK, Settings
<1>4. CASE Broadcast
  <2>1. RunJob("broadcast") /\ JobSends(job.arg)
    BY <1>4 DEF Broadcast
  <2>2. job.arg \in Payloads
    BY <2>1, RunJobType DEF Jobs
  <2>3. PICK d \in Payloads : d = job.arg
    BY <2>2
  <2>4. SentType /\ up' \in BOOLEAN
    BY <2>1, <2>3, JobSendsType
  <2> QED
    BY <1>4, <2>1, <2>4, RunJobType, TypeFromSent DEF Broadcast, TypeOK, Settings
<1> QED
  BY <1>1, <1>2, <1>3, <1>4 DEF Tick

LEMMA TimerFiresType ==
  ASSUME TypeOK, NEW t, TimerFires(t)
  PROVE  TypeOK'
<1>1. t \in 1..Len(comets) /\ Len(comets) # 0
  BY Lengths DEF TimerFires, TypeOK
<1>2. SentType /\ up' \in BOOLEAN
  <2>1. CASE up' = FALSE /\ UNCHANGED <<unsent, unacked, comets, wire>>
    BY <2>1 DEF TimerFires, SentType, TypeOK, Ids
  <2>2. CASE Flush(unsent, Unfiltered) /\ UNCHANGED up
    BY <1>1, <2>2, FlushUnsentType DEF TimerFires, TypeOK
  <2> QED
    BY <2>1, <2>2 DEF TimerFires
<1> QED
  BY <1>2, TypeFromSent DEF TimerFires, HandlerRuns, TypeOK, Settings

LEMMA ConnectionLostType ==
  ASSUME TypeOK, NEW b, ConnectionLost(b)
  PROVE  TypeOK'
<1> DEFINE new == Dropped(comets[b])
<1>1. b \in 1..Len(comets)
  BY LenProperties DEF ConnectionLost, TypeOK
<1>2. comets[b] \in Bodies
  BY <1>1, ElementOfSeq DEF TypeOK
<1>3. new \in Bodies
  BY <1>2 DEF Bodies, Dropped
<1>4. comets' = [comets EXCEPT ![b] = new]
  <2>1. comets \in [1..Len(comets) -> Bodies]
    BY LenProperties DEF TypeOK
  <2> QED
    BY <1>1, <2>1 DEF ConnectionLost
<1>5. comets' \in Seq(Bodies) /\ Len(comets') = Len(comets)
  <2> HIDE DEF new
  <2> QED
    BY <1>1, <1>3, <1>4, ExceptSeq DEF TypeOK
<1>6. SentType
  BY <1>5 DEF ConnectionLost, SentType, TypeOK, Ids
<1> QED
  BY <1>6, TypeFromSent DEF ConnectionLost, HandlerRuns, TypeOK, Settings

LEMMA TypeStep == TypeOK /\ [Next]_vars => TypeOK'
<1> SUFFICES ASSUME TypeOK, [Next]_vars PROVE TypeOK'
  OBVIOUS
<1>1. CASE UNCHANGED vars
  BY <1>1 DEF vars, TypeOK, Ids, Jobs
<1>2. CASE Next
  BY <1>2, HandshakeType, CometType, CspSendType, CloseType, OtherSendType,
     TickType, TimerFiresType, ConnectionLostType DEF Next
<1> QED
  BY <1>1, <1>2

LEMMA TypeInit == Init => TypeOK
<1> SUFFICES ASSUME Init PROVE TypeOK
  OBVIOUS
<1> DEFINE Entries == [body : 1..Len(comets), ids : SUBSET Ids, open : BOOLEAN]
<1>1. /\ packets \in Seq(Payloads) /\ comets \in Seq(Bodies)
      /\ tickQueue \in Seq(Jobs) /\ calls \in Seq(Jobs) /\ wire \in Seq(Entries)
  <2> HIDE DEF Entries
  <2> QED
    BY EmptySeq DEF Init
<1>2. Len(comets) = 0 /\ Len(tickQueue) = 0
  BY EmptySeq DEF Init
<1>3. timer \in 0..Len(comets) /\ draining \in 0..Len(tickQueue)
  BY <1>2 DEF Init
<1>4. settings \in [is : BOOLEAN, du : {"zero", "positive"}]
  BY DEF Init
<1>5. /\ registry \in {"absent", "live", "discarded"}
      /\ unsent \in SUBSET Ids /\ unacked \in SUBSET Ids
      /\ armed \in SUBSET (1..Len(comets))
      /\ closed \in BOOLEAN /\ up \in BOOLEAN
  BY DEF Init
<1> HIDE DEF Entries
<1> QED
  BY <1>1, <1>3, <1>4, <1>5 DEF TypeOK, Entries

(* TypeOK, run by server_safety, holds of every execution of CspServer. *)
THEOREM TypeCorrect == Spec => []TypeOK
BY TypeInit, TypeStep, PTL DEF Spec
=============================================================================
