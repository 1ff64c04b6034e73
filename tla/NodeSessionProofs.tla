-------------------------- MODULE NodeSessionProofs --------------------------
(* NodeSession for every number of packets, comets and changes: its two    *)
(* buffers, the timers of its comets, what its responses carry, its types. *)
EXTENDS NodeSession, SequenceTheorems, TLAPS

(***************************************************************************)
(* The outgoing buffer.  UnackedKept speaks of the buffer and of the       *)
(* highest acknowledgement; an action drops a part from the front of the   *)
(* buffer, or puts the next id behind it, or one after the other.  EndsAt  *)
(* is what it keeps at every point between.                                *)
(***************************************************************************)
EndsAt(buffer, last) ==
  /\ buffer \in Seq(Int)
  /\ buffer = Run(last - Len(buffer) + 1, last)

BufferInv ==
  /\ lastOutId \in Nat /\ acked \in Nat
  /\ EndsAt(outgoing, lastOutId)
  /\ Len(outgoing) =< lastOutId /\ lastOutId - Len(outgoing) =< acked

(* A buffer that ends at an id holds at each place what its end implies.   *)
LEMMA EndsAtPlaces ==
  ASSUME NEW s \in Seq(Int), NEW last \in Int,
         \A i \in 1..Len(s) : s[i] = last - Len(s) + i
  PROVE  EndsAt(s, last)
<1>1. Len(s) \in Nat /\ s = [i \in 1..Len(s) |-> s[i]]
  BY LenProperties
<1>2. [i \in 1..Len(s) |-> s[i]] = [i \in 1..Len(s) |-> last - Len(s) + i]
  OBVIOUS
<1>3. Run(last - Len(s) + 1, last) = [i \in 1..Len(s) |-> last - Len(s) + i]
  BY <1>1 DEF Run
<1> QED
  BY <1>1, <1>2, <1>3 DEF EndsAt

LEMMA PlacesOfEndsAt ==
  ASSUME NEW s, NEW last \in Int, EndsAt(s, last)
  PROVE  /\ Len(s) \in Nat
         /\ \A i \in 1..Len(s) : s[i] = last - Len(s) + i
<1>1. Len(s) \in Nat
  BY LenProperties DEF EndsAt
<1> QED
  BY <1>1 DEF EndsAt, Run

(* The next id behind such a buffer gives one that ends there.             *)
LEMMA AppendEndsAt ==
  ASSUME NEW s, NEW last \in Int, EndsAt(s, last)
  PROVE  EndsAt(Append(s, last + 1), last + 1)
<1> DEFINE t == Append(s, last + 1)
<1>1. s \in Seq(Int) /\ Len(s) \in Nat
  BY PlacesOfEndsAt DEF EndsAt
<1>2. /\ t \in Seq(Int) /\ Len(t) = Len(s) + 1
      /\ \A i \in 1..Len(s) : t[i] = s[i]
      /\ t[Len(s) + 1] = last + 1
  BY <1>1, AppendProperties
<1>3. \A i \in 1..Len(s) : s[i] = last - Len(s) + i
  BY PlacesOfEndsAt
<1>4. \A i \in 1..Len(t) : t[i] = (last + 1) - Len(t) + i
  BY <1>1, <1>2, <1>3
<1> HIDE DEF t
<1>5. EndsAt(t, last + 1)
  BY <1>2, <1>4, EndsAtPlaces
<1> QED
  BY <1>5 DEF t

(* Shifting what is acknowledged off the front leaves a buffer that ends   *)
(* where it did, and drops nothing that is not acknowledged.               *)
LEMMA UnackedEndsAt ==
  ASSUME BufferInv, NEW id \in Nat
  PROVE  /\ EndsAt(Unacked(id), lastOutId)
         /\ Len(Unacked(id)) =< Len(outgoing)
         /\ lastOutId - Len(Unacked(id)) =< IF id > acked THEN id ELSE acked
<1> DEFINE l == Len(outgoing)
           n == Shifted(id)
           base == lastOutId - l
<1>1. /\ outgoing \in Seq(Int) /\ l \in Nat /\ base \in Int
      /\ \A i \in 1..l : outgoing[i] = base + i
  <2>1. EndsAt(outgoing, lastOutId) /\ lastOutId \in Int /\ outgoing \in Seq(Int)
    BY DEF BufferInv, EndsAt
  <2>2. l \in Nat /\ \A i \in 1..l : outgoing[i] = lastOutId - l + i
    BY <2>1, PlacesOfEndsAt
  <2> QED
    BY <2>1, <2>2
<1>2. \E k \in 0..l : /\ \A i \in 1..k : outgoing[i] =< id
                      /\ k < l => outgoing[k + 1] > id
  <2>1. CASE id =< base
    <3>1. 0 \in 0..l /\ (0 < l => outgoing[0 + 1] > id)
      BY <1>1, <2>1
    <3> QED
      BY <3>1
  <2>2. CASE id >= lastOutId
    <3>1. l \in 0..l /\ ~(l < l)
      BY <1>1
    <3>2. \A i \in 1..l : outgoing[i] =< id
      <4> TAKE i \in 1..l
      <4>1. outgoing[i] = (lastOutId - l) + i /\ i \in Int /\ i =< l
        BY <1>1
      <4> QED
        BY <4>1, <1>1, <2>2 DEF BufferInv
    <3> QED
      BY <3>1, <3>2
  <2>3. CASE base < id /\ id < lastOutId
    <3> DEFINE k == id - base
    <3>1. k \in 0..l /\ k \in Int /\ k < l /\ k + 1 \in 1..l
      BY <1>1, <2>3 DEF BufferInv
    <3>2. ASSUME NEW i \in 1..k
          PROVE  outgoing[i] =< id
      <4>0. i \in 1..l /\ i =< k
        <5> HIDE DEF k
        <5> QED
          BY <1>1, <3>1
      <4>1. i \in 1..l /\ outgoing[i] = base + i /\ i =< k
        BY <1>1, <4>0
      <4> QED
        BY <4>1, <1>1, <3>1
    <3>3. outgoing[k + 1] > id
      <4>1. outgoing[k + 1] = base + (k + 1)
        BY <1>1, <3>1
      <4> QED
        BY <4>1, <1>1
    <3> HIDE DEF k
    <3> QED
      BY <3>1, <3>2, <3>3
  <2> QED
    BY <1>1, <2>1, <2>2, <2>3 DEF BufferInv
<1>3. n \in 0..l /\ \A i \in 1..n : outgoing[i] =< id
  BY <1>2 DEF Shifted
<1> HIDE DEF n
<1> DEFINE s == SubSeq(outgoing, n + 1, l)
<1>4. n + 1 \in 1..l + 1 /\ l \in n..l
  BY <1>1, <1>3
<1>5. /\ s \in Seq(Int) /\ Len(s) = l - n
      /\ \A i \in 1..(l - n) : s[i] = outgoing[i + n]
  <2> DEFINE m == n + 1
  <2>1. /\ m \in Int /\ l \in Int
        /\ \A i \in m..l : outgoing[i] \in Int
    BY <1>1, <1>3
  <2> HIDE DEF m, l
  <2>0. /\ SubSeq(outgoing, m, l) \in Seq(Int)
        /\ Len(SubSeq(outgoing, m, l)) = IF m =< l THEN l - m + 1 ELSE 0
        /\ \A i \in 1..(l - m + 1) : SubSeq(outgoing, m, l)[i] = outgoing[m + i - 1]
    BY <2>1, SubSeqProperties
  <2>2. /\ s \in Seq(Int)
        /\ Len(s) = IF n + 1 =< l THEN l - (n + 1) + 1 ELSE 0
        /\ \A i \in 1..(l - (n + 1) + 1) : s[i] = outgoing[(n + 1) + i - 1]
    BY <2>0 DEF m
  <2>3. Len(s) = l - n
    BY <1>1, <1>3, <2>2
  <2>4. ASSUME NEW i \in 1..(l - n)
        PROVE  s[i] = outgoing[i + n]
    <3>1. (n + 1) + i - 1 = i + n /\ i \in 1..(l - (n + 1) + 1)
      BY <1>1, <1>3
    <3>2. s[i] = outgoing[(n + 1) + i - 1]
      BY <2>2, <3>1
    <3> QED
      BY <3>1, <3>2
  <2> HIDE DEF s
  <2> QED
    BY <2>2, <2>3, <2>4
<1> HIDE DEF s
<1>6. \A i \in 1..Len(s) : s[i] = lastOutId - Len(s) + i
  <2> TAKE i \in 1..Len(s)
  <2>1. i + n \in 1..l /\ i \in 1..(l - n)
    BY <1>1, <1>3, <1>5
  <2>2. s[i] = base + (i + n)
    BY <1>1, <1>5, <2>1
  <2>3. lastOutId - Len(s) = base + n
    BY <1>1, <1>3, <1>5 DEF BufferInv
  <2>4. i \in Int /\ n \in Int /\ base \in Int
    BY <1>1, <1>3, <1>5
  <2> HIDE DEF base
  <2> QED
    BY <2>2, <2>3, <2>4
<1>7. s = Unacked(id)
  BY DEF Unacked, n, s
<1>8. EndsAt(s, lastOutId)
  BY <1>5, <1>6, EndsAtPlaces DEF BufferInv
<1>9. n = 0 \/ base + n =< id
  BY <1>1, <1>3
<1>10. lastOutId - Len(s) = base + n
  BY <1>1, <1>3, <1>5 DEF BufferInv
<1>11. base + n =< IF id > acked THEN id ELSE acked
  BY <1>1, <1>3, <1>9 DEF BufferInv
<1>12. Len(s) =< Len(outgoing)
  BY <1>1, <1>3, <1>5
<1> QED
  BY <1>7, <1>8, <1>10, <1>11, <1>12

(* A packet is put behind what a request has left of the buffer; a null is *)
(* one.                                                                    *)
LEMMA SendKeepsBuffer ==
  ASSUME BufferInv, NEW kept, EndsAt(kept, lastOutId), acked' \in Nat,
         Len(kept) =< lastOutId, lastOutId - Len(kept) =< acked',
         NEW p, NEW v, SessionSend(kept, p, v)
  PROVE  BufferInv'
<1>1. lastOutId \in Nat /\ lastOutId' = lastOutId + 1
      /\ outgoing' = Append(kept, lastOutId + 1)
  BY DEF BufferInv, SessionSend
<1>2. EndsAt(outgoing', lastOutId')
  BY <1>1, AppendEndsAt
<1>3. Len(outgoing') = Len(kept) + 1 /\ Len(kept) \in Nat
  BY <1>1, PlacesOfEndsAt, AppendProperties DEF EndsAt
<1> QED
  BY <1>1, <1>2, <1>3 DEF BufferInv, EndsAt, Run

LEMMA SameBuffer ==
  ASSUME BufferInv, UNCHANGED <<outgoing, lastOutId, acked>>
  PROVE  BufferInv'
BY DEF BufferInv, EndsAt, Run

(* A request acknowledges, drops, and leaves the buffer to what follows.   *)
LEMMA DropKeepsBuffer ==
  ASSUME BufferInv, NEW ack \in Nat, ReceiveAck(ack)
  PROVE  /\ acked' \in Nat
         /\ EndsAt(Unacked(ack), lastOutId)
         /\ Len(Unacked(ack)) \in Nat /\ Len(Unacked(ack)) =< lastOutId
         /\ lastOutId - Len(Unacked(ack)) =< acked'
         /\ DropAcked(ack) => BufferInv'
<1>1. acked' = (IF ack > acked THEN ack ELSE acked) /\ acked \in Nat
  BY DEF ReceiveAck, BufferInv
<1>2. /\ EndsAt(Unacked(ack), lastOutId)
      /\ Len(Unacked(ack)) \in Nat /\ Len(Unacked(ack)) =< lastOutId
      /\ lastOutId - Len(Unacked(ack)) =< acked'
  <2>1. /\ EndsAt(Unacked(ack), lastOutId) /\ EndsAt(outgoing, lastOutId)
        /\ Len(Unacked(ack)) =< Len(outgoing) /\ Len(outgoing) =< lastOutId
        /\ lastOutId - Len(Unacked(ack)) =< acked' /\ lastOutId \in Nat
    BY <1>1, UnackedEndsAt DEF BufferInv
  <2>2. Len(Unacked(ack)) \in Nat /\ Len(outgoing) \in Nat
    BY <2>1, PlacesOfEndsAt
  <2> QED
    BY <2>1, <2>2
<1>3. ASSUME DropAcked(ack)
      PROVE  BufferInv'
  <2>1. outgoing' = Unacked(ack) /\ lastOutId' = lastOutId
    BY <1>3 DEF DropAcked
  <2> QED
    BY <1>1, <1>2, <2>1 DEF BufferInv, EndsAt, Run
<1> QED
  BY <1>1, <1>2, <1>3

(* Any request that gets through, whatever it changes and brings.          *)
LEMMA BufferByRequest ==
  ASSUME BufferInv, NEW ack \in Nat, NEW c,
         Comet(ack, c) \/ Close(ack, c) \/ OtherRequest(ack, c) \/ RequestFails(ack, c)
  PROVE  BufferInv'
<1>1. ReceiveAck(ack) /\ DropAcked(ack)
  BY DEF Comet, Close, OtherRequest, RequestFails, Request
<1> QED
  BY <1>1, DropKeepsBuffer

LEMMA BufferBySend ==
  ASSUME BufferInv, NEW ack \in Nat, NEW b, Send(ack, b)
  PROVE  BufferInv'
<1>1. ReceiveAck(ack)
  BY DEF Send, Request
<1>2. CASE DropAcked(ack)
  BY <1>1, <1>2, DropKeepsBuffer
<1>3. CASE SessionSend(Unacked(ack), poll, variables)
  BY <1>1, <1>3, DropKeepsBuffer, SendKeepsBuffer
<1> QED
  BY <1>2, <1>3 DEF Send, SessionClose

LEMMA BufferStep == BufferInv /\ [Next]_vars => BufferInv'
<1> SUFFICES ASSUME BufferInv, [Next]_vars
             PROVE  BufferInv'
  OBVIOUS
<1>1. CASE UNCHANGED vars
  BY <1>1, SameBuffer DEF vars, buffers
<1>2. CASE Application
  <2>1. EndsAt(outgoing, lastOutId) /\ acked \in Nat /\ acked' = acked
        /\ Len(outgoing) =< lastOutId /\ lastOutId - Len(outgoing) =< acked
    BY <1>2 DEF Application, ConnectionSend, ConnectionClose, BufferInv
  <2>2. SessionSend(outgoing, poll, variables)
    BY <1>2 DEF Application, ConnectionSend, ConnectionClose, SessionClose
  <2> QED
    BY <2>1, <2>2, SendKeepsBuffer
<1>3. ASSUME NEW c \in Changes, Handshake(c)
      PROVE  BufferInv'
  BY <1>3, SameBuffer DEF Handshake, buffers
<1>4. ASSUME NEW ack \in 0..lastOutId, NEW c \in Changes,
             Comet(ack, c) \/ Close(ack, c) \/ OtherRequest(ack, c)
               \/ RequestFails(ack, c)
      PROVE  BufferInv'
  <2>1. ack \in Nat
    BY DEF BufferInv
  <2> QED
    BY <1>4, <2>1, BufferByRequest
<1>5. ASSUME NEW ack \in 0..lastOutId, NEW b \in Batches, Send(ack, b)
      PROVE  BufferInv'
  <2>1. ack \in Nat
    BY DEF BufferInv
  <2> QED
    BY <1>5, <2>1, BufferBySend
<1>6. CASE Continue
  BY <1>6, SameBuffer DEF Continue, Deliver, SendAnswered, ReceiveEnds, buffers
<1>7. CASE Timers
  BY <1>7, SameBuffer DEF Timers, DurationFires, IntervalFires, TimeoutFires, buffers
<1> QED
  BY <1>1, <1>2, <1>3, <1>4, <1>5, <1>6, <1>7 DEF Next, ClientRequests

LEMMA InitBuffer == Init => BufferInv
<1> SUFFICES ASSUME Init
             PROVE  BufferInv
  OBVIOUS
<1>1. outgoing = << >> /\ lastOutId = 0 /\ acked = 0
  BY DEF Init
<1>2. /\ outgoing \in Seq(Int) /\ Len(outgoing) = 0
      /\ \A i \in 1..Len(outgoing) : outgoing[i] = lastOutId - Len(outgoing) + i
  BY <1>1
<1>3. EndsAt(outgoing, lastOutId)
  <2>1. lastOutId \in Int
    BY <1>1
  <2> QED
    BY <1>2, <2>1, EndsAtPlaces
<1> QED
  BY <1>1, <1>2, <1>3 DEF BufferInv

(* UnackedKept: for any number of packets, comets and changes              *)
(* of settings the buffer is the unbroken end of what was made, from below *)
(* the first packet that the client has not acknowledged (send,            *)
(* receiveAck).                                                            *)
THEOREM BufferCorrect == Spec => []UnackedKept
<1>1. BufferInv => UnackedKept
  BY DEF BufferInv, EndsAt, UnackedKept
<1> QED
  BY <1>1, InitBuffer, BufferStep, PTL DEF Spec

(***************************************************************************)
(* The incoming buffer.  What waits under an id is the data of the packet  *)
(* with that id, unless it is the null's, which comes last; so the data    *)
(* that is taken out id by id is in order.                                 *)
(***************************************************************************)
WaitsUnderItsId(waiting) ==
  \A x \in DOMAIN waiting :
    waiting[x] \in Ids(MaxIn) /\ (waiting[x] = x \/ x = MaxIn)

ReadInv ==
  /\ lastInId \in Nat
  /\ received \in Seq(Ids(MaxIn)) /\ Len(received) = lastInId
  /\ \A i \in 1..lastInId : received[i] = i \/ i = MaxIn
  /\ WaitsUnderItsId(incoming)

(* Of a batch, what comes before an unknown encoding is known.             *)
LEMMA KnownIsShort ==
  ASSUME NEW b \in Batches
  PROVE  /\ Len(Known(b)) \in 0..2 /\ DOMAIN Known(b) = 1..Len(Known(b))
         /\ \A i \in 1..Len(Known(b)) :
              /\ Known(b)[i].id \in Ids(MaxIn)
              /\ Known(b)[i].kind # "data" => Known(b)[i].id = MaxIn
<1>1. /\ b \in Seq(Packets) /\ Len(b) \in 1..2 /\ DOMAIN b = 1..Len(b)
  <2>1. ASSUME NEW p \in Packets, b = <<p>>
        PROVE  b \in Seq(Packets) /\ Len(b) = 1 /\ DOMAIN b = 1..1
    BY <2>1
  <2>2. ASSUME NEW p \in Packets, NEW q \in Packets, b = <<p, q>>
        PROVE  b \in Seq(Packets) /\ Len(b) = 2 /\ DOMAIN b = 1..2
    BY <2>2
  <2>3. (\E p \in Packets : b = <<p>>) \/ (\E p, q \in Packets : b = <<p, q>>)
    <3> HIDE DEF Packets
    <3> QED
      BY DEF Batches
  <2> QED
    BY <2>1, <2>2, <2>3
<1>2. \A p \in Packets :
        /\ p.kind # "unknown" => p.id \in Ids(MaxIn)
        /\ p.kind # "data" => p.id = MaxIn
  <2>1. \A p \in {[id |-> i, kind |-> IF i = MaxIn THEN "null" ELSE "data"]
                    : i \in Ids(MaxIn)} :
          p.id \in Ids(MaxIn) /\ (p.kind # "data" => p.id = MaxIn)
    OBVIOUS
  <2> QED
    BY <2>1 DEF Packets
<1> DEFINE bad == {i \in DOMAIN b : b[i].kind = "unknown"}
           k == SubSeq(b, 1, Min(bad) - 1)
<1>3. CASE bad = {}
  <2>1. Known(b) = b /\ \A i \in 1..Len(b) : b[i] \in Packets /\ b[i].kind # "unknown"
    BY <1>1, <1>3 DEF Known
  <2> QED
    BY <1>1, <1>2, <2>1
<1>4. CASE bad # {}
  <2>1. \E x \in bad : \A y \in bad : x =< y
    BY <1>1, <1>4
  <2>2. Min(bad) \in bad /\ \A y \in bad : Min(bad) =< y
    BY <2>1 DEF Min
  <2> DEFINE n == Min(bad) - 1
  <2>3. n \in 0..1 /\ n =< Len(b) /\ k = SubSeq(b, 1, n)
    BY <1>1, <2>2
  <2>4a. \A i \in 1..n : b[i].kind # "unknown"
    <3> TAKE i \in 1..n
    <3>1. i \in DOMAIN b /\ i < Min(bad)
      BY <1>1, <2>2
    <3>2. i \notin bad
      <4>1. Min(bad) \in Int /\ i \in Int
        BY <1>1, <2>2, <2>3
      <4>2. ASSUME i \in bad
            PROVE  Min(bad) =< i
        <5> HIDE DEF bad
        <5> QED
          BY <2>2, <4>2
      <4>3. ~(Min(bad) =< i)
        <5> DEFINE m == Min(bad)
        <5>1. m \in Int /\ i < m
          BY <3>1, <4>1
        <5> HIDE DEF m
        <5>2. ~(m =< i)
          BY <4>1, <5>1
        <5> QED
          BY <5>2 DEF m
      <4> QED
        BY <4>2, <4>3
    <3> QED
      BY <3>1, <3>2
  <2> HIDE DEF n, k
  <2>4. /\ k \in Seq(Packets) /\ Len(k) = n /\ DOMAIN k = 1..n
        /\ \A i \in 1..n : k[i] \in Packets /\ k[i].kind # "unknown"
    <3>1. \A i \in 1..n : b[i] \in Packets
      BY <1>1, <2>3
    <3>2. k \in Seq(Packets) /\ Len(k) = IF 1 =< n THEN n - 1 + 1 ELSE 0
      BY <2>3, <3>1, SubSeqProperties
    <3>3. Len(k) = n
      BY <2>3, <3>2
    <3>4. ASSUME NEW i \in 1..n
          PROVE  k[i] = b[i]
      <4>1. i \in 1..(n - 1 + 1) /\ 1 + i - 1 = i
        BY <2>3
      <4>2. \A j \in 1..(n - 1 + 1) : SubSeq(b, 1, n)[j] = b[1 + j - 1]
        <5>1. 1 \in Int /\ n \in Int
          BY <2>3
        <5> QED
          BY <3>1, <5>1, SubSeqProperties
      <4>3. k[i] = b[1 + i - 1]
        BY <2>3, <4>1, <4>2
      <4> QED
        BY <4>1, <4>3
    <3>5. DOMAIN k = 1..n
      BY <3>2, <3>3, LenProperties
    <3> QED
      BY <2>4a, <3>1, <3>2, <3>3, <3>4, <3>5
  <2>5. Known(b) = k
    BY <1>4 DEF Known, k
  <2> QED
    BY <1>2, <2>3, <2>4, <2>5
<1> QED
  BY <1>3, <1>4

(* packetContent is the data of the packet itself, or, at a null, that of  *)
(* one before it.                                                          *)
LEMMA ContentOfItsId ==
  ASSUME NEW b, Len(b) \in 0..2,
         \A i \in 1..Len(b) : /\ b[i].id \in Ids(MaxIn)
                              /\ b[i].kind # "data" => b[i].id = MaxIn,
         NEW i \in 1..Len(b), PacketContent(b, i) # None
  PROVE  /\ PacketContent(b, i) \in Ids(MaxIn)
         /\ PacketContent(b, i) = b[i].id \/ b[i].id = MaxIn
<1> DEFINE data == {j \in 1..i : b[j].kind = "data"}
<1>1. data # {} /\ PacketContent(b, i) = b[Max(data)].id
  BY DEF PacketContent
<1>2. i \in 1..2 /\ data \subseteq 1..2 /\ data \subseteq 1..i
  OBVIOUS
<1>3. \E x \in data : \A y \in data : x >= y
  BY <1>1, <1>2
<1>4. Max(data) \in data /\ \A y \in data : Max(data) >= y
  BY <1>3 DEF Max
<1>5. Max(data) \in 1..Len(b)
  BY <1>2, <1>4
<1>6. CASE b[i].kind = "data"
  <2>1. i \in data
    BY <1>2, <1>6
  <2>2. Max(data) = i
    BY <1>2, <1>4, <2>1
  <2> QED
    BY <1>1, <2>2
<1>7. CASE b[i].kind # "data"
  BY <1>1, <1>5, <1>7
<1> QED
  BY <1>6, <1>7

LEMMA StoredUnderItsId ==
  ASSUME ReadInv, NEW b \in Batches
  PROVE  WaitsUnderItsId(Stored(Known(b)))
<1> DEFINE k == Known(b)
           new == {i \in DOMAIN k : k[i].id > lastInId}
           ids == {k[i].id : i \in new}
           set == {i \in new : PacketContent(k, i) # None}
           waiting == Stored(k)
<1>1. /\ Len(k) \in 0..2 /\ DOMAIN k = 1..Len(k)
      /\ \A i \in 1..Len(k) : /\ k[i].id \in Ids(MaxIn)
                              /\ k[i].kind # "data" => k[i].id = MaxIn
  BY KnownIsShort
<1>2. waiting = [x \in (DOMAIN incoming \ ids) \cup {k[i].id : i \in set} |->
                   IF x \in ids THEN PacketContent(k, CHOOSE i \in set : k[i].id = x)
                                ELSE incoming[x]]
  BY DEF Stored
<1> HIDE DEF waiting, k
<1>3. ASSUME NEW x \in DOMAIN waiting
      PROVE  waiting[x] \in Ids(MaxIn) /\ (waiting[x] = x \/ x = MaxIn)
  <2>1. CASE x \in ids
    <3>1. \E i \in set : k[i].id = x
      BY <1>2, <1>3, <2>1
    <3> DEFINE c == CHOOSE i \in set : k[i].id = x
    <3>2. c \in set /\ k[c].id = x
      BY <3>1
    <3>3. waiting[x] = PacketContent(k, c)
      BY <1>2, <2>1
    <3> HIDE DEF c
    <3>4. c \in 1..Len(k) /\ PacketContent(k, c) # None
      BY <1>1, <3>2
    <3> QED
      BY <1>1, <3>2, <3>3, <3>4, ContentOfItsId
  <2>2. CASE x \notin ids
    <3>1. x \in DOMAIN incoming /\ waiting[x] = incoming[x]
      BY <1>2, <2>2
    <3> QED
      BY <3>1 DEF ReadInv, WaitsUnderItsId
  <2> QED
    BY <2>1, <2>2
<1> QED
  BY <1>3 DEF WaitsUnderItsId, waiting, k

LEMMA SameReading ==
  ASSUME ReadInv, UNCHANGED reading
  PROVE  ReadInv'
BY DEF ReadInv, reading, WaitsUnderItsId

LEMMA ReadStep == ReadInv /\ [Next]_vars => ReadInv'
<1> SUFFICES ASSUME ReadInv, [Next]_vars
             PROVE  ReadInv'
  OBVIOUS
<1>1. CASE UNCHANGED vars
  BY <1>1, SameReading DEF vars
<1>2. CASE Application
  BY <1>2, SameReading DEF Application, ConnectionSend, ConnectionClose
<1>3. ASSUME NEW c \in Changes, Handshake(c)
      PROVE  ReadInv'
  BY <1>3, SameReading DEF Handshake
<1>4. ASSUME NEW ack \in 0..lastOutId, NEW c \in Changes,
             Comet(ack, c) \/ Close(ack, c) \/ OtherRequest(ack, c)
               \/ RequestFails(ack, c)
      PROVE  ReadInv'
  BY <1>4, SameReading DEF Comet, Close, OtherRequest, RequestFails
<1>5. ASSUME NEW ack \in 0..lastOutId, NEW b \in Batches, Send(ack, b)
      PROVE  ReadInv'
  <2>1. incoming' = Stored(Known(b)) /\ UNCHANGED <<lastInId, received>>
    BY <1>5 DEF Send
  <2>2. WaitsUnderItsId(incoming')
    BY <2>1, StoredUnderItsId
  <2> QED
    BY <2>1, <2>2 DEF ReadInv, WaitsUnderItsId
<1>6. CASE Deliver
  <2> DEFINE n == lastInId + 1
  <2>1. /\ n \in DOMAIN incoming /\ received' = Append(received, incoming[n])
        /\ incoming' = [i \in DOMAIN incoming \ {n} |-> incoming[i]]
        /\ lastInId' = n
    BY <1>6 DEF Deliver
  <2>2. incoming[n] \in Ids(MaxIn) /\ (incoming[n] = n \/ n = MaxIn)
    BY <2>1 DEF ReadInv, WaitsUnderItsId
  <2>3. /\ received' \in Seq(Ids(MaxIn)) /\ Len(received') = n /\ n \in Nat
        /\ \A i \in 1..lastInId : received'[i] = received[i]
        /\ received'[n] = incoming[n]
    BY <2>1, <2>2, AppendProperties DEF ReadInv
  <2>4. ASSUME NEW i \in 1..n
        PROVE  received'[i] = i \/ i = MaxIn
    <3>1. i = n \/ i \in 1..lastInId
      BY DEF ReadInv
    <3> QED
      BY <2>2, <2>3, <3>1 DEF ReadInv
  <2>5. WaitsUnderItsId(incoming')
    BY <2>1 DEF ReadInv, WaitsUnderItsId
  <2> QED
    BY <2>1, <2>3, <2>4, <2>5 DEF ReadInv, WaitsUnderItsId
<1>7. CASE SendAnswered \/ ReceiveEnds("send") \/ ReceiveEnds("none")
  BY <1>7, SameReading DEF SendAnswered, ReceiveEnds
<1>8. CASE Timers
  BY <1>8, SameReading DEF Timers, DurationFires, IntervalFires, TimeoutFires
<1> QED
  BY <1>1, <1>2, <1>3, <1>4, <1>5, <1>6, <1>7, <1>8 DEF Next, ClientRequests, Continue

(* ReceivedInSequence, run by node: for any number of packets, repeated or *)
(* out of order, and an application that throws in the middle, one thing is*)
(* received for each id, in order, and it is the data of that packet unless*)
(* the packet is the null (dispatch.send).                                 *)
THEOREM ReadingCorrect == Spec => []ReceivedInSequence
<1>1. Init => ReadInv
  BY DEF Init, ReadInv, WaitsUnderItsId
<1>2. ReadInv => ReceivedInSequence
  BY DEF ReadInv, ReceivedInSequence
<1> QED
  BY <1>1, <1>2, ReadStep, PTL DEF Spec

(***************************************************************************)
(* The comet.  What an operation does to the current response and to its   *)
(* timers follows from the fields it changes; poll only has to be a record.*)
(***************************************************************************)
PollFields == {"responses", "comet", "durations", "latest", "interval"}
IsPoll(p) == p = [f \in PollFields |-> p[f]]

LEMMA BatchOfPoll ==
  ASSUME NEW p, IsPoll(p), NEW v, NEW ids
  PROVE  /\ IsPoll(WithBatch(p, v, ids))
         /\ Streaming(v) => /\ WithBatch(p, v, ids).comet = p.comet
                            /\ WithBatch(p, v, ids).durations = p.durations
         /\ ~Streaming(v) => WithBatch(p, v, ids).comet = None
<1>1. /\ IsPoll(WithWritten(p, ids))
      /\ WithWritten(p, ids).comet = p.comet
      /\ WithWritten(p, ids).durations = p.durations
  BY DEF WithWritten, IsPoll, PollFields
<1> DEFINE w == WithWritten(p, ids)
<1> HIDE DEF w
<1>2. CASE Streaming(v)
  BY <1>1, <1>2 DEF WithBatch, w, IsPoll, PollFields
<1>3. CASE ~Streaming(v)
  <2>1. IsPoll(WithEnd(w)) /\ WithEnd(w).comet = None
    BY <1>1 DEF WithEnd, w, IsPoll, PollFields
  <2> DEFINE e == WithEnd(w)
  <2> HIDE DEF e
  <2>2. IsPoll(WithDurationCleared(e)) /\ WithDurationCleared(e).comet = None
    BY <2>1 DEF WithDurationCleared, e, IsPoll, PollFields
  <2> QED
    BY <1>3, <2>2 DEF WithBatch, w, e
<1> QED
  BY <1>2, <1>3

LEMMA CompleteOfPoll ==
  ASSUME NEW p, IsPoll(p), NEW v
  PROVE  IsPoll(WithComplete(p, v)) /\ WithComplete(p, v).comet = None
<1>1. CASE Streaming(v)
  <2>1. IsPoll(WithEnd(p)) /\ WithEnd(p).comet = None
    BY DEF WithEnd, IsPoll, PollFields
  <2> DEFINE e == [WithEnd(p) EXCEPT !.interval = FALSE]
  <2>2. IsPoll(e) /\ e.comet = None
    BY <2>1 DEF IsPoll, PollFields
  <2>3. WithComplete(p, v) = WithDurationCleared(e)
    BY <1>1 DEF WithComplete
  <2> HIDE DEF e
  <2> QED
    BY <2>2, <2>3 DEF WithDurationCleared, IsPoll, PollFields
<1>2. CASE ~Streaming(v)
  BY <1>2, BatchOfPoll DEF WithComplete
<1> QED
  BY <1>1, <1>2

LEMMA CometOfPoll ==
  ASSUME NEW p, IsPoll(p), NEW v, NEW ids
  PROVE  /\ IsPoll(WithComet(p, v, ids))
         /\ \/ WithComet(p, v, ids).comet = None
            \/ WithComet(p, v, ids).comet \in WithComet(p, v, ids).durations
<1> DEFINE opened == IF Streaming(v)
                       THEN [WithResponse(p) EXCEPT !.interval = v["interval"]]
                       ELSE WithResponse(p)
           sent == IF ids # <<>> THEN WithBatch(opened, v, ids) ELSE opened
<1>1. IsPoll(WithResponse(p))
  BY DEF WithResponse, IsPoll, PollFields
<1>2. IsPoll(opened)
  BY <1>1 DEF IsPoll, PollFields
<1>3. WithComet(p, v, ids) =
        IF ids = <<>> \/ Streaming(v) THEN WithDuration(sent) ELSE sent
  BY DEF WithComet
<1> HIDE DEF opened
<1>4. IsPoll(sent)
  BY <1>2, BatchOfPoll
<1>5. CASE ids = <<>> \/ Streaming(v)
  <2> HIDE DEF sent
  <2>1. IsPoll(WithDuration(sent))
        /\ WithDuration(sent).comet \in WithDuration(sent).durations
    BY <1>4 DEF WithDuration, IsPoll, PollFields
  <2> QED
    BY <1>3, <1>5, <2>1
<1>6. CASE ~(ids = <<>> \/ Streaming(v))
  BY <1>2, <1>3, <1>6, BatchOfPoll
<1> QED
  BY <1>5, <1>6

(* What CurrentIsTimed says of a step.                                     *)
TimedStep ==
  (session' = "live" /\ poll'.comet # None /\ poll'.comet \notin poll'.durations)
    => /\ poll'.comet = poll.comet
       /\ \/ poll.comet \notin poll.durations
          \/ variables["sse"] /\ ~Streaming(variables)

LEMMA SamePollStep ==
  ASSUME IsPoll(poll), UNCHANGED poll
  PROVE  IsPoll(poll') /\ TimedStep
BY DEF TimedStep, IsPoll, PollFields

LEMMA SentPollStep ==
  ASSUME IsPoll(poll), NEW kept, SessionSend(kept, poll, variables)
  PROVE  IsPoll(poll') /\ TimedStep
<1>1. CASE poll.comet = None
  BY <1>1, SamePollStep DEF SessionSend
<1>2. CASE poll.comet # None
  <2> DEFINE ids == OnePacket(lastOutId + 1)
  <2>1. poll' = WithBatch(poll, variables, ids)
    BY <1>2 DEF SessionSend
  <2> HIDE DEF ids
  <2> QED
    BY <2>1, BatchOfPoll DEF TimedStep
<1> QED
  BY <1>1, <1>2

LEMMA PollOfChanges ==
  ASSUME IsPoll(poll), NEW c
  PROVE  /\ IsPoll(PollAfter(c))
         /\ PollAfter(c) = poll \/ PollAfter(c).comet = None
BY CompleteOfPoll DEF PollAfter

LEMMA ClearedIsPoll ==
  ASSUME NEW p, IsPoll(p)
  PROVE  IsPoll(WithDurationCleared(p))
BY DEF WithDurationCleared, IsPoll, PollFields

LEMMA PollStep == IsPoll(poll) /\ [Next]_vars => IsPoll(poll') /\ [TimedStep]_vars
<1> SUFFICES ASSUME IsPoll(poll), [Next]_vars
             PROVE  IsPoll(poll') /\ [TimedStep]_vars
  OBVIOUS
<1>1. CASE UNCHANGED vars
  BY <1>1, SamePollStep DEF vars
<1>2. CASE Application
  BY <1>2, SentPollStep DEF Application, ConnectionSend, ConnectionClose, SessionClose
<1>3. ASSUME NEW c \in Changes, Handshake(c) \/ \E ack \in 0..lastOutId : RequestFails(ack, c)
      PROVE  IsPoll(poll') /\ TimedStep
  BY <1>3, SamePollStep DEF Handshake, RequestFails
<1>4. ASSUME NEW ack \in 0..lastOutId, NEW c \in Changes, Comet(ack, c)
      PROVE  IsPoll(poll') /\ TimedStep
  <2> DEFINE p == PollAfter(c)
             v == Changed(variables, c)
             ids == Unacked(ack)
  <2>1. poll' = WithComet(p, v, ids)
    BY <1>4 DEF Comet
  <2>2. IsPoll(p)
    BY PollOfChanges
  <2> HIDE DEF p, v, ids
  <2> QED
    BY <2>1, <2>2, CometOfPoll DEF TimedStep
<1>5. ASSUME NEW ack \in 0..lastOutId, NEW c \in Changes, Close(ack, c)
      PROVE  IsPoll(poll') /\ TimedStep
  BY <1>5, PollOfChanges, ClearedIsPoll DEF Close, Teardown, TimedStep
<1>6. ASSUME NEW ack \in 0..lastOutId, NEW c \in Changes, OtherRequest(ack, c)
      PROVE  IsPoll(poll') /\ TimedStep
  <2>1. poll' = PollAfter(c)
    BY <1>6 DEF OtherRequest
  <2>2. CASE PollAfter(c) = poll
    BY <2>1, <2>2, SamePollStep
  <2>3. CASE PollAfter(c).comet = None
    BY <2>1, <2>3, PollOfChanges DEF TimedStep
  <2> QED
    BY <2>2, <2>3, PollOfChanges
<1>7. ASSUME NEW ack \in 0..lastOutId, NEW b \in Batches, Send(ack, b)
      PROVE  IsPoll(poll') /\ TimedStep
  BY <1>7, SamePollStep, SentPollStep DEF Send, SessionClose
<1>8. CASE Continue
  BY <1>8, SamePollStep DEF Continue, Deliver, SendAnswered, ReceiveEnds
<1>9. ASSUME NEW t \in Ids(MaxComets), DurationFires(t)
      PROVE  IsPoll(poll') /\ TimedStep
  <2> DEFINE fired == [poll EXCEPT !.durations = @ \ {t}]
  <2>1. IsPoll(fired) /\ fired.comet = poll.comet
    BY DEF IsPoll, PollFields
  <2>2. poll' = IF CompleteThrows(poll, variables) THEN fired
                                                  ELSE WithComplete(fired, variables)
    BY <1>9 DEF DurationFires
  <2> HIDE DEF fired
  <2>3. CASE CompleteThrows(poll, variables)
    BY <2>1, <2>2, <2>3 DEF CompleteThrows, EmptyBatchThrows, TimedStep
  <2>4. CASE ~CompleteThrows(poll, variables)
    BY <2>1, <2>2, <2>4, CompleteOfPoll DEF TimedStep
  <2> QED
    BY <2>3, <2>4
<1>10. CASE IntervalFires
  <2> DEFINE fired == [poll EXCEPT !.interval = FALSE]
             none == <<>>
  <2>1. /\ IsPoll(fired) /\ fired.comet = poll.comet
        /\ fired.durations = poll.durations
    BY DEF IsPoll, PollFields
  <2>2. poll' = fired \/ poll' = WithBatch(fired, variables, none)
    BY <1>10 DEF IntervalFires
  <2> HIDE DEF fired, none
  <2>3. CASE poll' = fired
    BY <2>1, <2>3 DEF TimedStep
  <2>4. CASE poll' = WithBatch(fired, variables, none)
    BY <2>1, <2>4, BatchOfPoll DEF TimedStep
  <2> QED
    BY <2>2, <2>3, <2>4
<1>11. CASE TimeoutFires
  BY <1>11, ClearedIsPoll DEF TimeoutFires, Teardown, TimedStep
<1> QED
  BY <1>1, <1>2, <1>3, <1>4, <1>5, <1>6, <1>7, <1>8, <1>9, <1>10, <1>11
  DEF Next, ClientRequests, Timers

PollIsRecord == IsPoll(poll)

LEMMA PollStaysRecord == Spec => []PollIsRecord
<1>1. Init => PollIsRecord
  BY DEF Init, PollIsRecord, IsPoll, PollFields
<1>2. PollIsRecord /\ [Next]_vars => PollIsRecord'
  BY PollStep DEF PollIsRecord
<1> QED
  BY <1>1, <1>2, PTL DEF Spec

(* CurrentIsTimed, run by node: whatever comets, packets, changes and older*)
(* timers do, the current response of a live session has a timer unless one*)
(* fired and threw on an empty batch of server-sent events (sendBatch,     *)
(* completeResponse).                                                      *)
THEOREM CurrentStaysTimed == Spec => CurrentIsTimed
<1>1. PollIsRecord /\ [Next]_vars =>
        [(session' = "live" /\ poll'.comet # None /\ poll'.comet \notin poll'.durations)
           => /\ poll'.comet = poll.comet
              /\ \/ poll.comet \notin poll.durations
                 \/ variables["sse"] /\ ~Streaming(variables)]_vars
  BY PollStep DEF PollIsRecord, TimedStep
<1> QED
  BY <1>1, PollStaysRecord, PTL DEF Spec, CurrentIsTimed

(***************************************************************************)
(* What the responses carry.  Each of them has a run of ids that starts    *)
(* no later than behind the highest acknowledgement; the current one's ends*)
(* where the buffer ends and is no shorter than it: so nothing buffered is *)
(* missing from it, and the next packet follows.                           *)
(***************************************************************************)
Runs(a, l) ==
  {w \in Seq(Int) :
     \E last \in 0..l : EndsAt(w, last) /\ last - Len(w) \in 0..a}

HasRuns(p, n, a, l) ==
  /\ IsPoll(p)
  /\ p.responses \in Seq([open : BOOLEAN, written : Runs(a, l)])
  /\ n =< Len(p.responses)
  /\ p.comet \in {None, Len(p.responses)}

Written(p) == p.responses[p.comet].written

UpTo(p, buffer, last) ==
  p.comet # None =>
    /\ EndsAt(Written(p), last)
    /\ Len(buffer) =< Len(Written(p)) /\ Len(Written(p)) =< last

ResponsesInv ==
  /\ HasRuns(poll, Len(poll.responses), acked, lastOutId)
  /\ UpTo(poll, outgoing, lastOutId)

LEMMA RunIsOne ==
  ASSUME NEW w, NEW a \in Nat, NEW l \in Nat, EndsAt(w, l), l - Len(w) \in 0..a
  PROVE  w \in Runs(a, l)
BY DEF Runs, EndsAt

LEMMA NoRun ==
  ASSUME NEW a \in Nat, NEW l \in Nat
  PROVE  <<>> \in Runs(a, l)
<1> DEFINE none == <<>>
<1>1. /\ none \in Seq(Int) /\ Len(none) = 0
      /\ 1..Len(none) = {}
  OBVIOUS
<1> HIDE DEF none
<1>2. EndsAt(none, 0)
  <2>1. ASSUME NEW z \in Int
        PROVE  EndsAt(none, z)
    BY <1>1, EndsAtPlaces
  <2> QED
    BY <2>1
<1>3. 0 \in 0..l /\ 0 - Len(none) \in 0..a
  BY <1>1
<1>4. none \in Runs(a, l)
  BY <1>1, <1>2, <1>3 DEF Runs
<1> QED
  BY <1>4 DEF none

(* What was a run stays one while packets are made and acknowledged.       *)
LEMMA RunsGrow ==
  ASSUME NEW p, NEW n \in Nat, NEW a \in Nat, NEW l \in Nat, HasRuns(p, n, a, l),
         NEW b \in Nat, NEW m \in Nat, a =< b, l =< m
  PROVE  HasRuns(p, n, b, m)
<1> DEFINE R == [open : BOOLEAN, written : Runs(a, l)]
           S == [open : BOOLEAN, written : Runs(b, m)]
<1>1. Runs(a, l) \subseteq Runs(b, m)
  <2> SUFFICES ASSUME NEW w \in Runs(a, l)
               PROVE  w \in Runs(b, m)
    OBVIOUS
  <2>1. PICK last \in 0..l : EndsAt(w, last) /\ last - Len(w) \in 0..a
    BY DEF Runs
  <2>2. last \in 0..m /\ last - Len(w) \in 0..b
    BY <2>1
  <2> QED
    BY <2>1, <2>2 DEF Runs
<1>2. R \subseteq S
  BY <1>1
<1>3. p.responses \in Seq(R) /\ Len(p.responses) \in Nat
  BY LenProperties DEF HasRuns
<1> HIDE DEF R, S
<1>4. \A i \in 1..Len(p.responses) : p.responses[i] \in S
  BY <1>2, <1>3, ElementOfSeq
<1>5. p.responses \in Seq(S)
  BY <1>3, <1>4
<1> QED
  BY <1>5 DEF HasRuns, S

LEMMA CurrentOfRuns ==
  ASSUME NEW p, NEW n \in Nat, NEW a \in Nat, NEW l \in Nat,
         HasRuns(p, n, a, l), p.comet # None
  PROVE  /\ p.comet \in 1..Len(p.responses) /\ Len(p.responses) \in Nat
         /\ p.responses[p.comet] \in [open : BOOLEAN, written : Runs(a, l)]
         /\ Written(p) \in Runs(a, l) /\ Written(p) \in Seq(Int)
<1>1. Len(p.responses) \in Nat
  BY LenProperties DEF HasRuns
<1>2. p.comet \in 1..Len(p.responses)
  BY <1>1 DEF HasRuns, None
<1>3. p.responses[p.comet] \in [open : BOOLEAN, written : Runs(a, l)]
  BY <1>2, ElementOfSeq DEF HasRuns
<1> QED
  BY <1>1, <1>2, <1>3 DEF Written, Runs

(* The timers of a poll have nothing to do with what is written.           *)
LEMMA OtherFieldsOfRuns ==
  ASSUME NEW p, NEW n \in Nat, NEW a \in Nat, NEW l \in Nat,
         HasRuns(p, n, a, l), NEW q, IsPoll(q),
         q.responses = p.responses, q.comet = p.comet
  PROVE  HasRuns(q, n, a, l) /\ Written(q) = Written(p)
BY DEF HasRuns, Written

LEMMA ClearedHasRuns ==
  ASSUME NEW p, NEW n \in Nat, NEW a \in Nat, NEW l \in Nat,
         HasRuns(p, n, a, l)
  PROVE  /\ HasRuns(WithDurationCleared(p), n, a, l)
         /\ WithDurationCleared(p).comet = p.comet
         /\ Written(WithDurationCleared(p)) = Written(p)
<1> DEFINE q == WithDurationCleared(p)
<1>1. IsPoll(q) /\ q.responses = p.responses /\ q.comet = p.comet
  BY DEF HasRuns, IsPoll, PollFields, WithDurationCleared
<1> HIDE DEF q
<1>2. HasRuns(q, n, a, l) /\ Written(q) = Written(p)
  BY <1>1, OtherFieldsOfRuns
<1> QED
  BY <1>1, <1>2 DEF q

LEMMA EndedHasRuns ==
  ASSUME NEW p, NEW n \in Nat, NEW a \in Nat, NEW l \in Nat,
         HasRuns(p, n, a, l), p.comet # None
  PROVE  HasRuns(WithEnd(p), n, a, l) /\ WithEnd(p).comet = None
<1> DEFINE R == [open : BOOLEAN, written : Runs(a, l)]
           one == [p.responses[p.comet] EXCEPT !.open = FALSE]
           rs == [p.responses EXCEPT ![p.comet] = one]
           q == WithEnd(p)
<1>1. /\ p.comet \in 1..Len(p.responses) /\ Len(p.responses) \in Nat
      /\ p.responses \in Seq(R) /\ p.responses[p.comet] \in R
  BY CurrentOfRuns DEF HasRuns
<1>2. one \in R
  BY <1>1
<1> HIDE DEF R, one
<1>3. rs \in Seq(R) /\ Len(rs) = Len(p.responses)
  BY <1>1, <1>2, ExceptSeq
<1>4. IsPoll(q) /\ q.responses = rs /\ q.comet = None
  BY DEF HasRuns, IsPoll, PollFields, WithEnd, one
<1> HIDE DEF q, rs
<1>5. HasRuns(q, n, a, l) /\ q.comet = None
  BY <1>3, <1>4 DEF HasRuns, R
<1> QED
  BY <1>5 DEF q

(* What is written goes on where the current response stops.               *)
LEMMA WrittenHasRuns ==
  ASSUME NEW p, NEW n \in Nat, NEW a \in Nat, NEW l \in Nat,
         HasRuns(p, n, a, l), p.comet # None, NEW ids,
         Written(p) \o ids \in Runs(a, l)
  PROVE  /\ HasRuns(WithWritten(p, ids), n, a, l)
         /\ WithWritten(p, ids).comet = p.comet
         /\ Written(WithWritten(p, ids)) = Written(p) \o ids
<1> DEFINE R == [open : BOOLEAN, written : Runs(a, l)]
           more == Written(p) \o ids
           one == [p.responses[p.comet] EXCEPT !.written = @ \o ids]
           rs == [p.responses EXCEPT ![p.comet] = one]
           q == WithWritten(p, ids)
<1>1. /\ p.comet \in 1..Len(p.responses) /\ Len(p.responses) \in Nat
      /\ p.responses \in Seq(R) /\ p.responses[p.comet] \in R
  BY CurrentOfRuns DEF HasRuns
<1>2. one \in R /\ one.written = more
  BY <1>1 DEF Written
<1> HIDE DEF R, more, one
<1>3. rs \in Seq(R) /\ Len(rs) = Len(p.responses) /\ rs[p.comet] = one
  BY <1>1, <1>2, ExceptSeq
<1>4. IsPoll(q) /\ q.responses = rs /\ q.comet = p.comet
  BY DEF HasRuns, IsPoll, PollFields, WithWritten, one
<1> HIDE DEF q, rs
<1>5. HasRuns(q, n, a, l) /\ Written(q) = more
  BY <1>1, <1>2, <1>3, <1>4 DEF HasRuns, Written, R
<1> QED
  BY <1>4, <1>5 DEF q, more

LEMMA BatchHasRuns ==
  ASSUME NEW p, NEW n \in Nat, NEW a \in Nat, NEW l \in Nat,
         HasRuns(p, n, a, l), p.comet # None, NEW v, NEW ids,
         Written(p) \o ids \in Runs(a, l)
  PROVE  /\ HasRuns(WithBatch(p, v, ids), n, a, l)
         /\ WithBatch(p, v, ids).comet # None =>
              Written(WithBatch(p, v, ids)) = Written(p) \o ids
<1> DEFINE w == WithWritten(p, ids)
           q == [w EXCEPT !.interval = v["interval"]]
           e == WithEnd(w)
<1>1. HasRuns(w, n, a, l) /\ w.comet # None /\ Written(w) = Written(p) \o ids
  BY WrittenHasRuns
<1> HIDE DEF w
<1>2. CASE Streaming(v)
  <2>1. WithBatch(p, v, ids) = q
    BY <1>2 DEF WithBatch, w
  <2>2. IsPoll(q) /\ q.responses = w.responses /\ q.comet = w.comet
    BY <1>1 DEF HasRuns, IsPoll, PollFields
  <2> HIDE DEF q
  <2> QED
    BY <1>1, <2>1, <2>2, OtherFieldsOfRuns
<1>3. CASE ~Streaming(v)
  <2>1. WithBatch(p, v, ids) = WithDurationCleared(e)
    BY <1>3 DEF WithBatch, w
  <2>2. HasRuns(e, n, a, l) /\ e.comet = None
    BY <1>1, EndedHasRuns
  <2> HIDE DEF e
  <2> QED
    BY <2>1, <2>2, ClearedHasRuns
<1> QED
  BY <1>2, <1>3

LEMMA CompleteHasRuns ==
  ASSUME NEW p, NEW n \in Nat, NEW a \in Nat, NEW l \in Nat,
         HasRuns(p, n, a, l), p.comet # None, NEW v
  PROVE  HasRuns(WithComplete(p, v), n, a, l) /\ WithComplete(p, v).comet = None
<1>0. WithComplete(p, v).comet = None
  BY CompleteOfPoll DEF HasRuns
<1>1. CASE Streaming(v)
  <2> DEFINE e == WithEnd(p)
             q == [e EXCEPT !.interval = FALSE]
  <2>1. WithComplete(p, v) = WithDurationCleared(q)
    BY <1>1 DEF WithComplete
  <2>2. HasRuns(e, n, a, l)
    BY EndedHasRuns
  <2> HIDE DEF e
  <2>3. IsPoll(q) /\ q.responses = e.responses /\ q.comet = e.comet
    BY <2>2 DEF HasRuns, IsPoll, PollFields
  <2> HIDE DEF q
  <2>4. HasRuns(q, n, a, l)
    BY <2>2, <2>3, OtherFieldsOfRuns
  <2> QED
    BY <1>0, <2>1, <2>4, ClearedHasRuns
<1>2. CASE ~Streaming(v)
  <2> DEFINE none == <<>>
  <2>1. Written(p) \o none = Written(p) /\ Written(p) \in Runs(a, l)
    BY CurrentOfRuns, ConcatEmptySeq
  <2>2. WithComplete(p, v) = WithBatch(p, v, none)
    BY <1>2 DEF WithComplete
  <2> HIDE DEF none
  <2> QED
    BY <1>0, <2>1, <2>2, BatchHasRuns
<1> QED
  BY <1>1, <1>2

(* A new response starts with what is buffered.                            *)
LEMMA CometHasRuns ==
  ASSUME NEW p, NEW n \in Nat, NEW a \in Nat, NEW l \in Nat,
         HasRuns(p, n, a, l), NEW v, NEW ids,
         EndsAt(ids, l), Len(ids) \in 0..l, l - Len(ids) =< a
  PROVE  HasRuns(WithComet(p, v, ids), n + 1, a, l) /\ UpTo(WithComet(p, v, ids), ids, l)
<1> DEFINE R == [open : BOOLEAN, written : Runs(a, l)]
           fresh == [open |-> TRUE, written |-> <<>>]
           rs == Append(p.responses, fresh)
           k == Len(p.responses)
           r == WithResponse(p)
           opened == IF Streaming(v) THEN [r EXCEPT !.interval = v["interval"]] ELSE r
           sent == IF ids # <<>> THEN WithBatch(opened, v, ids) ELSE opened
           timed == WithDuration(sent)
<1>1. ids \in Seq(Int) /\ ids \in Runs(a, l)
  <2>1. l - Len(ids) \in 0..a
    OBVIOUS
  <2> QED
    BY <2>1, RunIsOne DEF EndsAt
<1>2. <<>> \in Runs(a, l)
  BY NoRun
<1>3. fresh \in R /\ p.responses \in Seq(R) /\ k \in Nat /\ n =< k
  BY <1>2, LenProperties DEF HasRuns
<1>4. rs \in Seq(R) /\ Len(rs) = k + 1 /\ rs[k + 1] = fresh
  <2> HIDE DEF R, fresh
  <2> QED
    BY <1>3, AppendProperties
<1>5. IsPoll(r) /\ r.responses = rs /\ r.comet = k + 1
  BY DEF HasRuns, IsPoll, PollFields, WithResponse
<1> HIDE DEF r
<1>6. IsPoll(opened) /\ opened.responses = rs /\ opened.comet = k + 1
  BY <1>5 DEF IsPoll, PollFields
<1>7. HasRuns(opened, n + 1, a, l) /\ opened.comet # None /\ Written(opened) = <<>>
  <2> HIDE DEF rs, k, opened
  <2> QED
    BY <1>3, <1>4, <1>6 DEF HasRuns, None, Written
<1>8. WithComet(p, v, ids) = IF ids = <<>> \/ Streaming(v) THEN timed ELSE sent
  BY DEF WithComet, r
<1> HIDE DEF opened
<1>9. HasRuns(sent, n + 1, a, l) /\ (sent.comet # None => Written(sent) = ids)
  <2>1. CASE ids = <<>>
    BY <1>7, <2>1
  <2>2. CASE ids # <<>>
    <3>1. Written(opened) \o ids = ids
      BY <1>1, <1>7, ConcatEmptySeq
    <3> DEFINE q == WithBatch(opened, v, ids)
               m == n + 1
    <3>2. /\ m \in Nat /\ HasRuns(opened, m, a, l) /\ opened.comet # None
          /\ Written(opened) \o ids \in Runs(a, l)
      <4>1. m \in Nat
        OBVIOUS
      <4>2. Written(opened) \o ids \in Runs(a, l)
        BY <1>1, <3>1
      <4> QED
        BY <1>7, <4>1, <4>2
    <3> HIDE DEF m
    <3>3. HasRuns(q, m, a, l) /\ (q.comet # None => Written(q) = Written(opened) \o ids)
      BY <3>2, BatchHasRuns
    <3> HIDE DEF q
    <3>4. sent = q
      BY <2>2 DEF q
    <3> QED
      BY <3>1, <3>3, <3>4 DEF m
  <2> QED
    BY <2>1, <2>2
<1> HIDE DEF sent
<1>10. HasRuns(timed, n + 1, a, l) /\ timed.comet = sent.comet /\ Written(timed) = Written(sent)
  <2>1. IsPoll(timed) /\ timed.responses = sent.responses /\ timed.comet = sent.comet
    BY <1>9 DEF HasRuns, IsPoll, PollFields, WithDuration
  <2> HIDE DEF timed
  <2> QED
    BY <1>9, <2>1, OtherFieldsOfRuns
<1> HIDE DEF timed
<1>11. Len(ids) =< Len(ids)
  BY <1>1, LenProperties
<1> QED
  BY <1>8, <1>9, <1>10, <1>11 DEF UpTo

(* A step keeps the runs of the responses there are, and loses none.       *)
KeepsRuns ==
  /\ HasRuns(poll', Len(poll.responses), acked', lastOutId')
  /\ UpTo(poll', outgoing', lastOutId')

LEMMA KeptRunsAreKept == KeepsRuns => ResponsesInv'
<1> SUFFICES ASSUME KeepsRuns
             PROVE  ResponsesInv'
  OBVIOUS
<1>1. Len(poll'.responses) \in Nat
  BY LenProperties DEF KeepsRuns, HasRuns
<1>2. HasRuns(poll', Len(poll'.responses), acked', lastOutId')
  BY <1>1 DEF KeepsRuns, HasRuns
<1> QED
  BY <1>2 DEF KeepsRuns, ResponsesInv, HasRuns, IsPoll, PollFields, UpTo, Written,
              EndsAt, Run, Runs

LEMMA SameResponses ==
  ASSUME ResponsesInv, UNCHANGED <<poll, outgoing, lastOutId, acked>>
  PROVE  KeepsRuns
BY DEF KeepsRuns, ResponsesInv

(* Session.send behind what a request has left of the buffer.              *)
LEMMA SendHasRuns ==
  ASSUME BufferInv, ResponsesInv, NEW kept, EndsAt(kept, lastOutId),
         Len(kept) \in Nat, Len(kept) =< Len(outgoing), acked =< acked', acked' \in Nat,
         lastOutId - Len(kept) =< acked', SessionSend(kept, poll, variables)
  PROVE  KeepsRuns
<1> DEFINE id == lastOutId + 1
           ids == OnePacket(id)
           w == Written(poll)
           n == Len(poll.responses)
<1>1. /\ lastOutId' = id /\ outgoing' = Append(kept, id) /\ id \in Nat
      /\ poll' = IF poll.comet # None THEN WithBatch(poll, variables, ids) ELSE poll
      /\ lastOutId \in Nat /\ Len(outgoing) \in Nat
  BY PlacesOfEndsAt DEF SessionSend, BufferInv
<1>2. HasRuns(poll, n, acked', id) /\ n \in Nat
  <2>1. HasRuns(poll, n, acked, lastOutId) /\ acked \in Nat /\ lastOutId =< id
    BY <1>1 DEF ResponsesInv, BufferInv
  <2>2. n \in Nat
    BY <2>1, LenProperties DEF HasRuns
  <2> HIDE DEF id, n
  <2> QED
    BY <1>1, <2>1, <2>2, RunsGrow
<1>3. CASE poll.comet = None
  BY <1>1, <1>2, <1>3 DEF UpTo, KeepsRuns
<1>4. CASE poll.comet # None
  <2>1. /\ w \in Seq(Int) /\ EndsAt(w, lastOutId) /\ Len(w) \in Nat
        /\ Len(kept) =< Len(w) /\ Len(w) =< lastOutId
    <3>1. /\ EndsAt(w, lastOutId) /\ Len(outgoing) =< Len(w)
          /\ Len(w) =< lastOutId
      BY <1>4 DEF ResponsesInv, UpTo
    <3>2. Len(w) \in Nat
      BY <1>1, <3>1, PlacesOfEndsAt
    <3> QED
      BY <1>1, <3>1, <3>2 DEF EndsAt
  <2>2. w \o ids = Append(w, id)
    BY <1>1, <2>1, AppendIsConcat DEF OnePacket
  <2>3. EndsAt(w \o ids, id)
    <3> HIDE DEF w, ids
    <3>1. EndsAt(Append(w, lastOutId + 1), lastOutId + 1)
      BY <1>1, <2>1, AppendEndsAt
    <3> QED
      BY <2>2, <3>1
  <2>4. Len(w \o ids) = Len(w) + 1 /\ Len(Append(kept, id)) = Len(kept) + 1
    BY <1>1, <2>1, <2>2, AppendProperties DEF EndsAt
  <2>5. id - Len(w \o ids) \in 0..acked'
    BY <1>1, <2>1, <2>4
  <2> HIDE DEF ids, id, w, n
  <2>6. w \o ids \in Runs(acked', id)
    BY <1>1, <2>3, <2>5, RunIsOne
  <2>7. /\ HasRuns(poll', n, acked', id)
        /\ poll'.comet # None => Written(poll') = w \o ids
    <3> DEFINE q == WithBatch(poll, variables, ids)
               a == acked'
    <3>1. /\ a \in Nat /\ id \in Nat /\ n \in Nat /\ poll.comet # None
          /\ HasRuns(poll, n, a, id) /\ Written(poll) \o ids \in Runs(a, id)
      BY <1>1, <1>2, <1>4, <2>6 DEF w
    <3> HIDE DEF a
    <3>2. /\ HasRuns(q, n, a, id)
          /\ q.comet # None => Written(q) = Written(poll) \o ids
      BY <3>1, BatchHasRuns
    <3> HIDE DEF q
    <3>3. poll' = q
      BY <1>1, <1>4 DEF q
    <3> QED
      BY <3>2, <3>3 DEF w, a
  <2>8. Len(outgoing') =< Len(w \o ids) /\ Len(w \o ids) =< id
    BY <1>1, <2>1, <2>4 DEF id
  <2> QED
    BY <1>1, <2>3, <2>7, <2>8 DEF UpTo, KeepsRuns, n
<1> QED
  BY <1>3, <1>4

LEMMA ChangesHaveRuns ==
  ASSUME ResponsesInv, NEW c, NEW n \in Nat, NEW a \in Nat, NEW l \in Nat,
         HasRuns(poll, n, a, l)
  PROVE  /\ HasRuns(PollAfter(c), n, a, l)
         /\ PollAfter(c) = poll \/ PollAfter(c).comet = None
BY CompleteHasRuns DEF PollAfter, Completes

(* What an acknowledgement does before the rest of its request.            *)
LEMMA AckHasRuns ==
  ASSUME BufferInv, ResponsesInv, NEW ack \in Nat, ReceiveAck(ack)
  PROVE  /\ acked' \in Nat /\ acked =< acked'
         /\ Len(poll.responses) \in Nat /\ lastOutId \in Nat
         /\ HasRuns(poll, Len(poll.responses), acked', lastOutId)
         /\ Len(Unacked(ack)) \in Nat /\ Len(Unacked(ack)) =< Len(outgoing)
         /\ Len(outgoing) \in Nat
<1>1. /\ acked \in Nat /\ lastOutId \in Nat /\ EndsAt(outgoing, lastOutId)
      /\ acked' = IF ack > acked THEN ack ELSE acked
  BY DEF BufferInv, ReceiveAck
<1>2. acked' \in Nat /\ acked =< acked'
  BY <1>1
<1>3. HasRuns(poll, Len(poll.responses), acked, lastOutId)
  BY DEF ResponsesInv
<1>4. Len(poll.responses) \in Nat
  BY <1>3, LenProperties DEF HasRuns
<1>5. HasRuns(poll, Len(poll.responses), acked', lastOutId)
  BY <1>1, <1>2, <1>3, <1>4, RunsGrow
<1>6. /\ EndsAt(Unacked(ack), lastOutId) /\ Len(Unacked(ack)) =< Len(outgoing)
  BY UnackedEndsAt
<1>7. Len(Unacked(ack)) \in Nat /\ Len(outgoing) \in Nat
  BY <1>1, <1>6, PlacesOfEndsAt
<1> QED
  BY <1>1, <1>2, <1>4, <1>5, <1>6, <1>7

(* Dropping from the front of the buffer, with the poll as it was or none. *)
LEMMA DropHasRuns ==
  ASSUME BufferInv, ResponsesInv, NEW ack \in Nat, ReceiveAck(ack), DropAcked(ack),
         HasRuns(poll', Len(poll.responses), acked', lastOutId),
         \/ poll'.comet = None
         \/ poll'.comet = poll.comet /\ Written(poll') = Written(poll)
  PROVE  KeepsRuns
<1>1. outgoing' = Unacked(ack) /\ lastOutId' = lastOutId
  BY DEF DropAcked
<1>2. /\ Len(Unacked(ack)) =< Len(outgoing) /\ Len(outgoing) \in Nat
      /\ Len(Unacked(ack)) \in Nat /\ lastOutId \in Nat
  BY AckHasRuns
<1>3. poll.comet # None => /\ EndsAt(Written(poll), lastOutId)
                           /\ Len(outgoing) =< Len(Written(poll))
                           /\ Len(Written(poll)) =< lastOutId
  BY DEF ResponsesInv, UpTo
<1>4. poll.comet # None => Len(Written(poll)) \in Nat
  BY <1>2, <1>3, PlacesOfEndsAt
<1>5. UpTo(poll', outgoing', lastOutId')
  BY <1>1, <1>2, <1>3, <1>4 DEF UpTo
<1> QED
  BY <1>1, <1>5 DEF KeepsRuns

LEMMA ResponsesByComet ==
  ASSUME BufferInv, ResponsesInv, NEW ack \in Nat, NEW c, Comet(ack, c)
  PROVE  KeepsRuns /\ Len(poll'.responses) > Len(poll.responses)
<1> DEFINE p == PollAfter(c)
           v == Changed(variables, c)
           ids == Unacked(ack)
           n == Len(poll.responses)
<1>1. /\ poll' = WithComet(p, v, ids) /\ outgoing' = ids /\ lastOutId' = lastOutId
      /\ ReceiveAck(ack)
  BY DEF Comet, DropAcked, Request
<1>2. /\ HasRuns(poll, n, acked', lastOutId) /\ acked' \in Nat
      /\ n \in Nat /\ lastOutId \in Nat
  BY <1>1, AckHasRuns
<1>3. HasRuns(p, n, acked', lastOutId)
  <2> HIDE DEF n, p
  <2> QED
    BY <1>2, ChangesHaveRuns DEF p
<1>4. EndsAt(ids, lastOutId) /\ Len(ids) \in 0..lastOutId /\ lastOutId - Len(ids) =< acked'
  BY <1>1, <1>2, DropKeepsBuffer
<1> HIDE DEF p, v, ids, n
<1>5. /\ HasRuns(poll', n + 1, acked', lastOutId)
      /\ UpTo(poll', outgoing', lastOutId)
  BY <1>1, <1>2, <1>3, <1>4, CometHasRuns
<1>6. Len(poll'.responses) \in Nat
  BY <1>5, LenProperties DEF HasRuns
<1> QED
  BY <1>1, <1>2, <1>5, <1>6 DEF HasRuns, KeepsRuns, n

LEMMA ResponsesByRequest ==
  ASSUME BufferInv, ResponsesInv, NEW ack \in Nat, NEW c,
         Close(ack, c) \/ OtherRequest(ack, c) \/ RequestFails(ack, c)
  PROVE  KeepsRuns
<1> DEFINE p == PollAfter(c)
           q == WithDurationCleared(p)
           n == Len(poll.responses)
<1>1. ReceiveAck(ack) /\ DropAcked(ack) /\ poll' \in {poll, p, q}
  BY DEF Close, OtherRequest, RequestFails, Request
<1>2. /\ HasRuns(poll, n, acked', lastOutId) /\ acked' \in Nat
      /\ n \in Nat /\ lastOutId \in Nat
  BY <1>1, AckHasRuns
<1>3. HasRuns(p, n, acked', lastOutId) /\ (p = poll \/ p.comet = None)
  <2> HIDE DEF n, p
  <2> QED
    BY <1>2, ChangesHaveRuns DEF p
<1>4. /\ HasRuns(q, n, acked', lastOutId)
      /\ q.comet = p.comet /\ Written(q) = Written(p)
  <2> HIDE DEF n, p
  <2> QED
    BY <1>2, <1>3, ClearedHasRuns
<1> HIDE DEF p, q
<1> QED
  BY <1>1, <1>2, <1>3, <1>4, DropHasRuns

LEMMA ResponsesBySend ==
  ASSUME BufferInv, ResponsesInv, NEW ack \in Nat, NEW b, Send(ack, b)
  PROVE  KeepsRuns
<1>1. ReceiveAck(ack)
  BY DEF Send, Request
<1>2. CASE DropAcked(ack) /\ poll' = poll
  BY <1>1, <1>2, AckHasRuns, DropHasRuns
<1>3. CASE SessionSend(Unacked(ack), poll, variables)
  <2> DEFINE kept == Unacked(ack)
  <2>1. /\ EndsAt(kept, lastOutId) /\ Len(kept) \in Nat /\ Len(kept) =< Len(outgoing)
        /\ acked =< acked' /\ acked' \in Nat /\ lastOutId - Len(kept) =< acked'
    BY <1>1, AckHasRuns, DropKeepsBuffer
  <2> HIDE DEF kept
  <2> QED
    BY <1>3, <2>1, SendHasRuns DEF kept
<1> QED
  BY <1>2, <1>3 DEF Send, SessionClose

(* The application of the server, and its timers.                          *)
LEMMA ResponsesByApplication ==
  ASSUME BufferInv, ResponsesInv, Application
  PROVE  KeepsRuns
<1>1. SessionSend(outgoing, poll, variables) /\ acked' = acked
  BY DEF Application, ConnectionSend, ConnectionClose, SessionClose
<1>2. /\ EndsAt(outgoing, lastOutId) /\ acked \in Nat /\ lastOutId - Len(outgoing) =< acked
      /\ lastOutId \in Nat
  BY DEF BufferInv
<1>3. Len(outgoing) \in Nat
  BY <1>2, PlacesOfEndsAt
<1> QED
  BY <1>1, <1>2, <1>3, SendHasRuns

LEMMA ResponsesByTimers ==
  ASSUME BufferInv, ResponsesInv, Timers
  PROVE  KeepsRuns
<1> DEFINE n == Len(poll.responses)
<1>0. /\ HasRuns(poll, n, acked, lastOutId) /\ UpTo(poll, outgoing, lastOutId)
      /\ acked \in Nat /\ lastOutId \in Nat /\ n \in Nat
  BY LenProperties DEF ResponsesInv, BufferInv, HasRuns
<1>1. UNCHANGED <<outgoing, lastOutId, acked>>
  BY DEF Timers, DurationFires, IntervalFires, TimeoutFires, buffers
<1> HIDE DEF n
<1>2. SUFFICES /\ HasRuns(poll', n, acked, lastOutId)
               /\ poll'.comet # None =>
                    poll'.comet = poll.comet /\ Written(poll') = Written(poll)
  BY <1>0, <1>1 DEF KeepsRuns, UpTo, n
<1>3. ASSUME NEW t \in Ids(MaxComets), DurationFires(t)
      PROVE  /\ HasRuns(poll', n, acked, lastOutId)
             /\ poll'.comet # None =>
                  poll'.comet = poll.comet /\ Written(poll') = Written(poll)
  <2> DEFINE fired == [poll EXCEPT !.durations = @ \ {t}]
  <2>1. IsPoll(fired) /\ fired.responses = poll.responses /\ fired.comet = poll.comet
    BY <1>0 DEF HasRuns, IsPoll, PollFields
  <2>2. poll' = IF CompleteThrows(poll, variables) THEN fired
                                                   ELSE WithComplete(fired, variables)
    BY <1>3 DEF DurationFires
  <2> HIDE DEF fired
  <2>3. HasRuns(fired, n, acked, lastOutId) /\ Written(fired) = Written(poll)
    BY <1>0, <2>1, OtherFieldsOfRuns
  <2>4. ~CompleteThrows(poll, variables) => fired.comet # None
    BY <2>1 DEF CompleteThrows, EmptyBatchThrows
  <2> QED
    BY <1>0, <2>1, <2>2, <2>3, <2>4, CompleteHasRuns
<1>4. ASSUME IntervalFires
      PROVE  /\ HasRuns(poll', n, acked, lastOutId)
             /\ poll'.comet # None =>
                  poll'.comet = poll.comet /\ Written(poll') = Written(poll)
  <2> DEFINE fired == [poll EXCEPT !.interval = FALSE]
             none == <<>>
             sent == WithBatch(fired, variables, none)
  <2>1. IsPoll(fired) /\ fired.responses = poll.responses /\ fired.comet = poll.comet
    BY <1>0 DEF HasRuns, IsPoll, PollFields
  <2>2. poll' = IF EmptyBatchThrows(poll, variables) THEN fired ELSE sent
    BY <1>4 DEF IntervalFires
  <2> HIDE DEF fired
  <2>3. HasRuns(fired, n, acked, lastOutId) /\ Written(fired) = Written(poll)
    BY <1>0, <2>1, OtherFieldsOfRuns
  <2>4. ASSUME fired.comet # None
        PROVE  /\ HasRuns(sent, n, acked, lastOutId)
               /\ sent.comet # None =>
                    sent.comet = poll.comet /\ Written(sent) = Written(poll)
    <3>1. /\ Written(fired) \o none = Written(fired)
          /\ Written(fired) \in Runs(acked, lastOutId)
      BY <1>0, <2>3, <2>4, CurrentOfRuns, ConcatEmptySeq
    <3>2. sent.comet # None => sent.comet = fired.comet
      BY <2>1, BatchOfPoll
    <3> HIDE DEF none
    <3>3. /\ HasRuns(sent, n, acked, lastOutId)
          /\ sent.comet # None => Written(sent) = Written(fired) \o none
      <4>1. Written(fired) \o none \in Runs(acked, lastOutId)
        BY <3>1
      <4> QED
        BY <1>0, <2>3, <2>4, <4>1, BatchHasRuns
    <3> HIDE DEF sent
    <3> QED
      BY <2>1, <2>3, <3>1, <3>2, <3>3
  <2>5. ~EmptyBatchThrows(poll, variables) => fired.comet # None
    BY <2>1 DEF EmptyBatchThrows
  <2> HIDE DEF sent
  <2> QED
    BY <2>1, <2>2, <2>3, <2>4, <2>5
<1>5. ASSUME TimeoutFires
      PROVE  /\ HasRuns(poll', n, acked, lastOutId)
             /\ poll'.comet # None =>
                  poll'.comet = poll.comet /\ Written(poll') = Written(poll)
  <2>1. poll' = WithDurationCleared(poll)
    BY <1>5 DEF TimeoutFires
  <2> QED
    BY <1>0, <2>1, ClearedHasRuns
<1> QED
  BY <1>3, <1>4, <1>5 DEF Timers

LEMMA ResponsesStep == BufferInv /\ ResponsesInv /\ [Next]_vars => ResponsesInv'
<1> SUFFICES ASSUME BufferInv, ResponsesInv, [Next]_vars
             PROVE  KeepsRuns
  BY KeptRunsAreKept
<1>0. 0..lastOutId \subseteq Nat
  BY DEF BufferInv
<1>1. CASE UNCHANGED vars
  BY <1>1, SameResponses DEF vars, buffers
<1>2. ASSUME NEW c \in Changes, Handshake(c)
      PROVE  KeepsRuns
  BY <1>2, SameResponses DEF Handshake, buffers
<1>3. ASSUME NEW ack \in 0..lastOutId, NEW c \in Changes,
             \/ Comet(ack, c) \/ Close(ack, c)
             \/ OtherRequest(ack, c) \/ RequestFails(ack, c)
      PROVE  KeepsRuns
  BY <1>0, <1>3, ResponsesByComet, ResponsesByRequest
<1>4. ASSUME NEW ack \in 0..lastOutId, NEW b \in Batches, Send(ack, b)
      PROVE  KeepsRuns
  BY <1>0, <1>4, ResponsesBySend
<1>5. CASE Continue
  BY <1>5, SameResponses DEF Continue, Deliver, SendAnswered, ReceiveEnds, buffers
<1> QED
  BY <1>1, <1>2, <1>3, <1>4, <1>5, ResponsesByApplication, ResponsesByTimers
  DEF Next, ClientRequests

LEMMA InitResponses == Init => ResponsesInv
<1> SUFFICES ASSUME Init
             PROVE  ResponsesInv
  OBVIOUS
<1>1. IsPoll(poll) /\ poll.responses = <<>> /\ poll.comet = None
  BY DEF Init, IsPoll, PollFields
<1>2. poll.responses \in Seq([open : BOOLEAN, written : Runs(acked, lastOutId)])
      /\ Len(poll.responses) = 0
  BY <1>1
<1> QED
  BY <1>1, <1>2 DEF ResponsesInv, HasRuns, UpTo

(* ResponsesKeepUp, run by node: whatever is sent, acknowledged, asked for *)
(* and changed, and whichever timers fire, each response carries a run of  *)
(* ids without a repetition or a gap, and the current one has got all that *)
(* is buffered (comet, send, sendBatch).                                   *)
THEOREM ResponsesCorrect == Spec => []ResponsesKeepUp
<1>1. Init => BufferInv /\ ResponsesInv
  BY InitBuffer, InitResponses
<1>2. BufferInv /\ ResponsesInv => ResponsesKeepUp
  <2> SUFFICES ASSUME BufferInv, ResponsesInv
               PROVE  ResponsesKeepUp
    OBVIOUS
  <2>1. ASSUME NEW n \in DOMAIN poll.responses
        PROVE  LET w == poll.responses[n].written
               IN  w # <<>> => w = Run(w[1], w[Len(w)])
    <3> DEFINE w == poll.responses[n].written
    <3>1. w \in Runs(acked, lastOutId)
      <4> DEFINE R == [open : BOOLEAN, written : Runs(acked, lastOutId)]
      <4>1. poll.responses \in Seq(R)
        BY DEF ResponsesInv, HasRuns
      <4> HIDE DEF R
      <4>2. poll.responses[n] \in R
        BY <4>1, LenProperties, ElementOfSeq
      <4> QED
        BY <4>2 DEF R
    <3> HIDE DEF w
    <3>2. PICK last \in Int : EndsAt(w, last)
      BY <3>1 DEF Runs
    <3>3. SUFFICES ASSUME w # <<>>
                   PROVE  w = Run(w[1], w[Len(w)])
      BY DEF w
    <3>4. w \in Seq(Int) /\ Len(w) \in Nat /\ Len(w) >= 1
      BY <3>2, <3>3, EmptySeq DEF EndsAt
    <3>5. w[1] = last - Len(w) + 1 /\ w[Len(w)] = last
      BY <3>2, <3>4, PlacesOfEndsAt
    <3> QED
      BY <3>2, <3>5 DEF EndsAt
  <2>2. ASSUME poll.comet # None, NEW i \in DOMAIN outgoing
        PROVE  \E j \in DOMAIN poll.responses[poll.comet].written :
                 poll.responses[poll.comet].written[j] = outgoing[i]
    <3> DEFINE w == Written(poll)
               j == Len(w) - Len(outgoing) + i
    <3>1. /\ w \in Seq(Int) /\ EndsAt(w, lastOutId) /\ Len(outgoing) =< Len(w)
          /\ outgoing \in Seq(Int) /\ EndsAt(outgoing, lastOutId) /\ lastOutId \in Int
      BY <2>2, CurrentOfRuns DEF ResponsesInv, UpTo, BufferInv, EndsAt
    <3> HIDE DEF w
    <3>2. /\ Len(w) \in Nat /\ DOMAIN w = 1..Len(w)
          /\ Len(outgoing) \in Nat /\ i \in 1..Len(outgoing)
      BY <2>2, <3>1, LenProperties
    <3>3. j \in 1..Len(w)
      BY <3>1, <3>2
    <3>4. w[j] = lastOutId - Len(w) + j /\ outgoing[i] = lastOutId - Len(outgoing) + i
      BY <3>1, <3>2, <3>3, PlacesOfEndsAt
    <3>5. lastOutId - Len(w) + j = lastOutId - Len(outgoing) + i
      BY <3>1, <3>2
    <3>6. w[j] = outgoing[i] /\ j \in DOMAIN w
      BY <3>2, <3>3, <3>4, <3>5
    <3> HIDE DEF j
    <3> QED
      BY <3>6 DEF w, Written
  <2> QED
    BY <2>1, <2>2 DEF ResponsesKeepUp
<1> QED
  BY <1>1, <1>2, BufferStep, ResponsesStep, PTL DEF Spec

(***************************************************************************)
(* The types.  Two of them are more than types: whoever has a duration     *)
(* timer is open, and the current response is the last one made.  The      *)
(* first needs to know that the timer of the current response is the one   *)
(* that completing it clears: a newer response has none yet, and an older  *)
(* one that still has its timer is no longer the current one.              *)
(***************************************************************************)
PollType(p) ==
  /\ IsPoll(p)
  /\ p.responses \in Seq(Response) /\ Len(p.responses) =< MaxComets
  /\ p.comet \in {None, Len(p.responses)}
  /\ p.latest \in 0..Len(p.responses)
  /\ p.interval \in BOOLEAN
  /\ p.durations \subseteq 1..Len(p.responses)
  /\ \A t \in p.durations : p.responses[t].open
  /\ p.comet \in p.durations => p.comet = p.latest

StateTypes ==
  /\ session \in {"none", "live", "torn", "gone"}
  /\ readyState \in {"open", "readOnly", "writeOnly", "closed"}
  /\ variables \in [Fields -> BOOLEAN]
  /\ lastOutId \in 0..MaxOut /\ acked \in 0..MaxOut /\ nulls \subseteq Ids(MaxOut)
  /\ DOMAIN incoming \subseteq Ids(MaxIn) /\ lastInId \in 0..MaxIn
  /\ timeout \in BOOLEAN
  /\ running \in {"none", "send", "receive"}

(* A buffer that ends at an id no later than the bound holds only ids.     *)
LEMMA EndsAtIds ==
  ASSUME NEW s, NEW last \in 0..MaxOut, EndsAt(s, last), Len(s) =< last
  PROVE  s \in Seq(Ids(MaxOut))
<1>1. last \in Int /\ last =< MaxOut /\ MaxOut \in Int
  BY BoundsAssumption
<1>2. /\ s \in Seq(Int) /\ Len(s) \in Nat
      /\ \A i \in 1..Len(s) : s[i] = last - Len(s) + i
  BY <1>1, PlacesOfEndsAt DEF EndsAt
<1>3. \A i \in 1..Len(s) : s[i] \in Ids(MaxOut)
  BY <1>1, <1>2 DEF Ids
<1> QED
  BY <1>2, <1>3

LEMMA CurrentIsTyped ==
  ASSUME NEW p, PollType(p), p.comet # None
  PROVE  /\ p.comet \in 1..Len(p.responses) /\ Len(p.responses) \in Nat
         /\ p.responses[p.comet] \in Response
<1>1. Len(p.responses) \in Nat
  BY LenProperties DEF PollType
<1>2. p.comet \in 1..Len(p.responses)
  BY <1>1 DEF PollType, None
<1> QED
  BY <1>1, <1>2, ElementOfSeq DEF PollType

LEMMA WrittenIsTyped ==
  ASSUME NEW p, PollType(p), p.comet # None, NEW ids \in Seq(Ids(MaxOut))
  PROVE  /\ PollType(WithWritten(p, ids))
         /\ WithWritten(p, ids).comet = p.comet
         /\ Len(WithWritten(p, ids).responses) = Len(p.responses)
<1> DEFINE one == [p.responses[p.comet] EXCEPT !.written = @ \o ids]
           rs == [p.responses EXCEPT ![p.comet] = one]
           q == WithWritten(p, ids)
<1>1. /\ p.comet \in 1..Len(p.responses) /\ Len(p.responses) \in Nat
      /\ p.responses \in Seq(Response) /\ p.responses[p.comet] \in Response
  BY CurrentIsTyped DEF PollType
<1>2. one \in Response /\ one.open = p.responses[p.comet].open
  <2>1. p.responses[p.comet].written \o ids \in Seq(Ids(MaxOut))
    BY <1>1, ConcatProperties DEF Response
  <2> QED
    BY <1>1, <2>1 DEF Response
<1>3. /\ IsPoll(q) /\ q.responses = rs /\ q.comet = p.comet /\ q.latest = p.latest
      /\ q.interval = p.interval /\ q.durations = p.durations
  BY DEF PollType, IsPoll, PollFields, WithWritten, one
<1> HIDE DEF one
<1>4. /\ rs \in Seq(Response) /\ Len(rs) = Len(p.responses)
      /\ \A i \in 1..Len(p.responses) :
           rs[i] = IF i = p.comet THEN one ELSE p.responses[i]
  BY <1>1, <1>2, ExceptSeq
<1> HIDE DEF q, rs
<1>5. \A t \in q.durations : q.responses[t].open
  BY <1>2, <1>3, <1>4 DEF PollType
<1>6. PollType(q) /\ q.comet = p.comet /\ Len(q.responses) = Len(p.responses)
  BY <1>3, <1>4, <1>5 DEF PollType
<1> QED
  BY <1>6 DEF q

(* Completing the current response clears its timer, if it has one.        *)
LEMMA EndedIsTyped ==
  ASSUME NEW p, PollType(p), p.comet # None,
         NEW q, IsPoll(q), q.comet = None, q.latest = p.latest,
         q.responses = WithEnd(p).responses,
         q.durations = p.durations \ {p.latest}, q.interval \in BOOLEAN
  PROVE  PollType(q) /\ Len(q.responses) = Len(p.responses)
<1> DEFINE one == [p.responses[p.comet] EXCEPT !.open = FALSE]
           rs == [p.responses EXCEPT ![p.comet] = one]
<1>1. /\ p.comet \in 1..Len(p.responses) /\ Len(p.responses) \in Nat
      /\ p.responses \in Seq(Response) /\ p.responses[p.comet] \in Response
  BY CurrentIsTyped DEF PollType
<1>2. one \in Response
  BY <1>1 DEF Response
<1>3. q.responses = rs
  BY DEF PollType, IsPoll, PollFields, WithEnd, one
<1> HIDE DEF one
<1>4. /\ rs \in Seq(Response) /\ Len(rs) = Len(p.responses)
      /\ \A i \in 1..Len(p.responses) :
           i # p.comet => rs[i] = p.responses[i]
  BY <1>1, <1>2, ExceptSeq
<1> HIDE DEF rs
<1>5. \A t \in q.durations : q.responses[t].open
  <2> TAKE t \in q.durations
  <2>1. t \in p.durations /\ t # p.latest /\ t # p.comet
    BY DEF PollType
  <2> QED
    BY <1>3, <1>4, <2>1 DEF PollType
<1>6. q.comet \notin q.durations
  BY <1>1 DEF PollType, None
<1> QED
  BY <1>3, <1>4, <1>5, <1>6 DEF PollType

LEMMA ClearedIsTyped ==
  ASSUME NEW p, PollType(p)
  PROVE  /\ PollType(WithDurationCleared(p))
         /\ WithDurationCleared(p).responses = p.responses
<1> DEFINE q == WithDurationCleared(p)
<1>1. /\ IsPoll(q) /\ q.responses = p.responses /\ q.comet = p.comet
      /\ q.latest = p.latest /\ q.interval = p.interval
      /\ q.durations = p.durations \ {p.latest}
  BY DEF PollType, IsPoll, PollFields, WithDurationCleared
<1> HIDE DEF q
<1>2. PollType(q)
  BY <1>1 DEF PollType
<1> QED
  BY <1>1, <1>2 DEF q

LEMMA IntervalIsTyped ==
  ASSUME NEW p, PollType(p), NEW set \in BOOLEAN
  PROVE  /\ PollType([p EXCEPT !.interval = set])
         /\ [p EXCEPT !.interval = set].comet = p.comet
         /\ [p EXCEPT !.interval = set].responses = p.responses
<1> DEFINE q == [p EXCEPT !.interval = set]
<1>1. /\ IsPoll(q) /\ q.responses = p.responses /\ q.comet = p.comet
      /\ q.latest = p.latest /\ q.interval = set /\ q.durations = p.durations
  BY DEF PollType, IsPoll, PollFields
<1> HIDE DEF q
<1>2. PollType(q) /\ q.comet = p.comet /\ q.responses = p.responses
  BY <1>1 DEF PollType
<1> QED
  BY <1>2 DEF q

LEMMA BatchIsTyped ==
  ASSUME NEW p, PollType(p), p.comet # None,
         NEW v \in [Fields -> BOOLEAN], NEW ids \in Seq(Ids(MaxOut))
  PROVE  /\ PollType(WithBatch(p, v, ids))
         /\ Len(WithBatch(p, v, ids).responses) = Len(p.responses)
<1> DEFINE w == WithWritten(p, ids)
           e == WithDurationCleared(WithEnd(w))
<1>1. PollType(w) /\ w.comet # None /\ Len(w.responses) = Len(p.responses)
  BY WrittenIsTyped
<1>2. WithBatch(p, v, ids) =
        IF Streaming(v) THEN [w EXCEPT !.interval = v["interval"]] ELSE e
  BY DEF WithBatch
<1>3. v["interval"] \in BOOLEAN
  BY DEF Fields
<1> HIDE DEF w
<1>4. PollType(e) /\ Len(e.responses) = Len(w.responses)
  <2>1. /\ IsPoll(e) /\ e.comet = None /\ e.latest = w.latest
        /\ e.responses = WithEnd(w).responses
        /\ e.durations = w.durations \ {w.latest} /\ e.interval = w.interval
    BY <1>1 DEF PollType, IsPoll, PollFields, WithDurationCleared, WithEnd
  <2> HIDE DEF e
  <2>2. e.interval \in BOOLEAN
    BY <1>1, <2>1 DEF PollType
  <2> QED
    BY <1>1, <2>1, <2>2, EndedIsTyped
<1> HIDE DEF e
<1> QED
  BY <1>1, <1>2, <1>3, <1>4, IntervalIsTyped

LEMMA CompleteIsTyped ==
  ASSUME NEW p, PollType(p), p.comet # None, NEW v \in [Fields -> BOOLEAN]
  PROVE  /\ PollType(WithComplete(p, v))
         /\ Len(WithComplete(p, v).responses) = Len(p.responses)
<1> DEFINE none == <<>>
           e == WithDurationCleared([WithEnd(p) EXCEPT !.interval = FALSE])
<1>1. none \in Seq(Ids(MaxOut))
  OBVIOUS
<1>2. WithComplete(p, v) = IF Streaming(v) THEN e ELSE WithBatch(p, v, none)
  BY DEF WithComplete
<1> HIDE DEF none
<1>3. /\ IsPoll(e) /\ e.comet = None /\ e.latest = p.latest
      /\ e.responses = WithEnd(p).responses
      /\ e.durations = p.durations \ {p.latest} /\ e.interval = FALSE
  BY DEF PollType, IsPoll, PollFields, WithDurationCleared, WithEnd
<1> HIDE DEF e
<1>4. PollType(e) /\ Len(e.responses) = Len(p.responses)
  BY <1>3, EndedIsTyped
<1> QED
  BY <1>1, <1>2, <1>4, BatchIsTyped

(* A new response has no timer until it is left open.                      *)
LEMMA CometIsTyped ==
  ASSUME NEW p, PollType(p), Len(p.responses) < MaxComets,
         NEW v \in [Fields -> BOOLEAN], NEW ids \in Seq(Ids(MaxOut))
  PROVE  PollType(WithComet(p, v, ids))
<1> DEFINE fresh == [open |-> TRUE, written |-> <<>>]
           rs == Append(p.responses, fresh)
           k == Len(p.responses) + 1
           r == WithResponse(p)
           opened == IF Streaming(v) THEN [r EXCEPT !.interval = v["interval"]] ELSE r
           sent == IF ids # <<>> THEN WithBatch(opened, v, ids) ELSE opened
           timed == WithDuration(sent)
<1>1. WithComet(p, v, ids) = IF ids = <<>> \/ Streaming(v) THEN timed ELSE sent
  BY DEF WithComet
<1>2. Len(p.responses) \in Nat /\ p.responses \in Seq(Response) /\ MaxComets \in Nat
  BY LenProperties, BoundsAssumption DEF PollType
<1>3. fresh \in Response
  BY DEF Response
<1>4. /\ IsPoll(r) /\ r.responses = rs /\ r.comet = k /\ r.latest = p.latest
      /\ r.interval = p.interval /\ r.durations = p.durations
  BY DEF PollType, IsPoll, PollFields, WithResponse
<1>5. fresh.open
  OBVIOUS
<1> HIDE DEF fresh, r
<1>6. /\ rs \in Seq(Response) /\ Len(rs) = k /\ rs[k] = fresh
      /\ \A i \in 1..Len(p.responses) : rs[i] = p.responses[i]
  BY <1>2, <1>3, AppendProperties
<1> HIDE DEF rs
<1>7. PollType(r) /\ r.comet # None /\ r.responses[r.comet].open
  <2>1. \A t \in r.durations : r.responses[t].open
    BY <1>4, <1>6 DEF PollType
  <2>2. r.comet \notin r.durations /\ r.comet # None
    BY <1>2, <1>4 DEF PollType, None
  <2>3. Len(r.responses) =< MaxComets /\ r.latest \in 0..Len(r.responses)
        /\ r.durations \subseteq 1..Len(r.responses)
    BY <1>2, <1>4, <1>6 DEF PollType
  <2> QED
    BY <1>4, <1>5, <1>6, <2>1, <2>2, <2>3 DEF PollType
<1> HIDE DEF k
<1>8. v["interval"] \in BOOLEAN
  BY DEF Fields
<1>9. PollType(opened) /\ opened.comet # None /\ opened.responses[opened.comet].open
  <2> DEFINE set == [r EXCEPT !.interval = v["interval"]]
  <2>1. PollType(set) /\ set.comet = r.comet /\ set.responses = r.responses
    BY <1>7, <1>8, IntervalIsTyped
  <2>2. opened = IF Streaming(v) THEN set ELSE r
    OBVIOUS
  <2> HIDE DEF set, opened
  <2> QED
    BY <1>7, <2>1, <2>2
<1> HIDE DEF opened
<1>10. PollType(sent)
  BY <1>9, BatchIsTyped
<1>11. ASSUME ids = <<>> \/ Streaming(v)
       PROVE  sent.comet # None /\ sent.responses[sent.comet].open
  <2>1. CASE ids = <<>>
    BY <1>9, <2>1
  <2>2. CASE ids # <<>>
    <3> DEFINE w == WithWritten(opened, ids)
    <3>1. sent = [w EXCEPT !.interval = v["interval"]]
      BY <1>11, <2>2 DEF WithBatch
    <3>2. PollType(w) /\ w.comet = opened.comet
      BY <1>9, WrittenIsTyped
    <3>3. w.responses[opened.comet].open
      <4>1. opened.comet \in 1..Len(opened.responses)
            /\ opened.responses \in Seq(Response)
            /\ opened.responses[opened.comet] \in Response
        BY <1>9, CurrentIsTyped DEF PollType
      <4>2. w.responses =
              [opened.responses EXCEPT ![opened.comet].written = @ \o ids]
        BY <1>9 DEF WithWritten, PollType, IsPoll, PollFields
      <4> QED
        BY <1>9, <4>1, <4>2 DEF Response
    <3> HIDE DEF w, sent
    <3>4. sent.comet = w.comet /\ sent.responses = w.responses
      BY <3>1, <3>2 DEF PollType, IsPoll, PollFields
    <3> QED
      BY <1>9, <3>2, <3>3, <3>4
  <2> QED
    BY <2>1, <2>2
<1> HIDE DEF sent
<1>12. ASSUME ids = <<>> \/ Streaming(v)
       PROVE  PollType(timed)
  <2>1. /\ sent.comet \in 1..Len(sent.responses) /\ Len(sent.responses) \in Nat
        /\ sent.responses[sent.comet].open
    BY <1>10, <1>11, <1>12, CurrentIsTyped
  <2>2. /\ IsPoll(timed) /\ timed.responses = sent.responses
        /\ timed.comet = sent.comet /\ timed.latest = sent.comet
        /\ timed.interval = sent.interval
        /\ timed.durations = sent.durations \cup {sent.comet}
    BY <1>10 DEF WithDuration, PollType, IsPoll, PollFields
  <2> HIDE DEF timed
  <2>3. \A t \in timed.durations : timed.responses[t].open
    BY <1>10, <2>1, <2>2 DEF PollType
  <2> QED
    BY <1>10, <2>1, <2>2, <2>3 DEF PollType
<1> HIDE DEF timed
<1> QED
  BY <1>1, <1>10, <1>12

PollTyped == PollType(poll)
TypeInv == StateTypes /\ PollTyped

LEMMA BecomesTyped ==
  ASSUME NEW q, PollType(q), poll' = q
  PROVE  PollTyped'
BY DEF PollTyped, PollType, IsPoll, PollFields, Response

LEMMA SamePollType ==
  ASSUME PollTyped, UNCHANGED poll
  PROVE  PollTyped'
BY DEF PollTyped, PollType, IsPoll, PollFields, Response

LEMMA SentIsTyped ==
  ASSUME TypeInv, NEW kept, SessionSend(kept, poll, variables)
  PROVE  PollTyped' /\ lastOutId' \in 0..MaxOut /\ lastOutId + 1 \in Ids(MaxOut)
<1> DEFINE id == lastOutId + 1
           ids == OnePacket(id)
<1>1. lastOutId' = id /\ id \in Ids(MaxOut) /\ id \in 0..MaxOut
  BY BoundsAssumption DEF SessionSend, TypeInv, StateTypes, Ids
<1>2. poll' = IF poll.comet # None THEN WithBatch(poll, variables, ids) ELSE poll
  BY DEF SessionSend
<1> HIDE DEF id
<1>3. ids \in Seq(Ids(MaxOut))
  BY <1>1 DEF OnePacket
<1> HIDE DEF ids
<1>4. variables \in [Fields -> BOOLEAN] /\ PollType(poll) /\ PollTyped
  BY DEF TypeInv, StateTypes, PollTyped
<1>5. CASE poll.comet # None
  <2> DEFINE q == WithBatch(poll, variables, ids)
  <2>1. PollType(q)
    BY <1>3, <1>4, <1>5, BatchIsTyped
  <2>2. poll' = q
    BY <1>2, <1>5
  <2> HIDE DEF q
  <2> QED
    BY <1>1, <2>1, <2>2, BecomesTyped DEF id
<1>6. CASE poll.comet = None
  BY <1>1, <1>2, <1>4, <1>6, SamePollType DEF id
<1> QED
  BY <1>5, <1>6

LEMMA ChangesAreTyped ==
  ASSUME TypeInv, NEW c \in Changes
  PROVE  /\ Changed(variables, c) \in [Fields -> BOOLEAN]
         /\ PollType(PollAfter(c)) /\ Len(PollAfter(c).responses) = Len(poll.responses)
         /\ PollType(WithDurationCleared(PollAfter(c)))
<1>1. variables \in [Fields -> BOOLEAN] /\ PollType(poll)
  BY DEF TypeInv, StateTypes, PollTyped
<1>2. c.value \in BOOLEAN
  <2>1. c \in {NoChange} \cup [field : Fields, value : BOOLEAN]
    BY ChangesAssumption
  <2>2. CASE c = NoChange
    BY <2>2 DEF NoChange
  <2>3. CASE c \in [field : Fields, value : BOOLEAN]
    BY <2>3
  <2> QED
    BY <2>1, <2>2, <2>3
<1>3. Changed(variables, c) \in [Fields -> BOOLEAN]
  BY <1>1, <1>2 DEF Changed
<1>4. PollType(PollAfter(c)) /\ Len(PollAfter(c).responses) = Len(poll.responses)
  BY <1>1, CompleteIsTyped DEF PollAfter, Completes
<1> QED
  BY <1>3, <1>4, ClearedIsTyped

(* What the client sends is stored under an id it has.                     *)
LEMMA StoredIsTyped ==
  ASSUME StateTypes, NEW b \in Batches
  PROVE  DOMAIN Stored(Known(b)) \subseteq Ids(MaxIn)
<1> DEFINE k == Known(b)
<1>1. /\ DOMAIN k = 1..Len(k)
      /\ \A i \in 1..Len(k) : k[i].id \in Ids(MaxIn)
  BY KnownIsShort
<1> HIDE DEF k
<1> DEFINE new == {i \in DOMAIN k : k[i].id > lastInId}
           ids == {k[i].id : i \in new}
           set == {i \in new : PacketContent(k, i) # None}
<1>2. DOMAIN Stored(k) = (DOMAIN incoming \ ids) \cup {k[i].id : i \in set}
  BY DEF Stored
<1> QED
  BY <1>1, <1>2 DEF k, StateTypes

LEMMA AckIsTyped ==
  ASSUME StateTypes, NEW ack \in 0..lastOutId, ReceiveAck(ack)
  PROVE  acked' \in 0..MaxOut /\ timeout' \in BOOLEAN
<1>1. ack \in 0..MaxOut
  BY BoundsAssumption DEF StateTypes
<1> QED
  BY <1>1 DEF ReceiveAck, StateTypes

LEMMA TypesByRequest ==
  ASSUME BufferInv, TypeInv, NEW ack \in 0..lastOutId, NEW c \in Changes,
         Comet(ack, c) \/ Close(ack, c) \/ OtherRequest(ack, c) \/ RequestFails(ack, c)
  PROVE  TypeInv'
<1> DEFINE p == PollAfter(c)
           v == Changed(variables, c)
           ids == Unacked(ack)
<1>1. /\ v \in [Fields -> BOOLEAN] /\ PollType(p)
      /\ Len(p.responses) = Len(poll.responses) /\ PollType(WithDurationCleared(p))
  BY ChangesAreTyped
<1>2. ids \in Seq(Ids(MaxOut)) /\ ReceiveAck(ack)
  <2>1. ReceiveAck(ack)
    BY DEF Comet, Close, OtherRequest, RequestFails, Request
  <2>2. ack \in Nat /\ lastOutId \in 0..MaxOut
    BY DEF BufferInv, TypeInv, StateTypes
  <2>3. EndsAt(ids, lastOutId) /\ Len(ids) =< lastOutId
    BY <2>1, <2>2, DropKeepsBuffer
  <2> HIDE DEF ids
  <2> QED
    BY <2>1, <2>2, <2>3, EndsAtIds
<1>3. acked' \in 0..MaxOut /\ timeout' \in BOOLEAN
  BY <1>2, AckIsTyped DEF TypeInv
<1>4. variables' \in [Fields -> BOOLEAN]
  BY <1>1 DEF Comet, Close, OtherRequest, RequestFails, Request, TypeInv, StateTypes
<1>5. StateTypes'
  BY <1>3, <1>4 DEF Comet, Close, OtherRequest, RequestFails, Request, DropAcked,
                    Teardown, reading, TypeInv, StateTypes
<1>6. PollTyped'
  <2>1. CASE Comet(ack, c)
    <3>1. poll' = WithComet(p, v, ids) /\ Len(p.responses) < MaxComets
      BY <1>1, <2>1 DEF Comet
    <3> HIDE DEF p, v, ids
    <3> DEFINE q == WithComet(p, v, ids)
    <3>2. PollType(q)
      BY <1>1, <1>2, <3>1, CometIsTyped
    <3> HIDE DEF q
    <3> QED
      BY <3>1, <3>2, BecomesTyped DEF q
  <2>2. CASE Close(ack, c)
    <3> DEFINE q == WithDurationCleared(p)
    <3>1. PollType(q) /\ poll' = q
      BY <1>1, <2>2 DEF Close
    <3> HIDE DEF q
    <3> QED
      BY <3>1, BecomesTyped
  <2>3. CASE OtherRequest(ack, c)
    <3>1. PollType(p) /\ poll' = p
      BY <1>1, <2>3 DEF OtherRequest
    <3> HIDE DEF p
    <3> QED
      BY <3>1, BecomesTyped
  <2>4. CASE RequestFails(ack, c)
    BY <2>4, SamePollType DEF RequestFails, TypeInv
  <2> QED
    BY <2>1, <2>2, <2>3, <2>4
<1> QED
  BY <1>5, <1>6 DEF TypeInv

LEMMA TypesBySend ==
  ASSUME TypeInv, NEW ack \in 0..lastOutId, NEW b \in Batches, Send(ack, b)
  PROVE  TypeInv'
<1>1. ReceiveAck(ack) /\ variables' = Changed(variables, NoChange)
  BY DEF Send, Request
<1>2. acked' \in 0..MaxOut /\ timeout' \in BOOLEAN
  BY <1>1, AckIsTyped DEF TypeInv
<1>3. variables' \in [Fields -> BOOLEAN]
  BY <1>1 DEF Changed, NoChange, TypeInv, StateTypes
<1>4. DOMAIN incoming' \subseteq Ids(MaxIn)
  BY StoredIsTyped DEF Send, TypeInv
<1>5. /\ PollTyped' /\ lastOutId' \in 0..MaxOut /\ nulls' \subseteq Ids(MaxOut)
      /\ readyState' \in {"open", "readOnly", "writeOnly", "closed"}
  <2>1. CASE SessionClose(Unacked(ack), poll, variables)
    BY <2>1, SentIsTyped DEF SessionClose, TypeInv, StateTypes
  <2>2. CASE DropAcked(ack) /\ UNCHANGED <<readyState, poll>>
    BY <2>2, SamePollType DEF DropAcked, TypeInv, StateTypes
  <2> QED
    BY <2>1, <2>2 DEF Send
<1>6. StateTypes'
  BY <1>2, <1>3, <1>4, <1>5 DEF Send, TypeInv, StateTypes
<1> QED
  BY <1>5, <1>6 DEF TypeInv

LEMMA TypesByTimers ==
  ASSUME TypeInv, Timers
  PROVE  TypeInv'
<1>0. variables \in [Fields -> BOOLEAN] /\ PollType(poll)
  BY DEF TypeInv, StateTypes, PollTyped
<1>1. StateTypes'
  BY DEF Timers, DurationFires, IntervalFires, TimeoutFires, Teardown, buffers,
         reading, TypeInv, StateTypes
<1>2. ASSUME NEW t \in Ids(MaxComets), DurationFires(t)
      PROVE  PollTyped'
  <2> DEFINE fired == [poll EXCEPT !.durations = @ \ {t}]
  <2>1. /\ IsPoll(fired) /\ fired.responses = poll.responses
        /\ fired.comet = poll.comet /\ fired.latest = poll.latest
        /\ fired.interval = poll.interval /\ fired.durations = poll.durations \ {t}
    BY <1>0 DEF PollType, IsPoll, PollFields
  <2>2. poll' = IF CompleteThrows(poll, variables) THEN fired
                                                  ELSE WithComplete(fired, variables)
    BY <1>2 DEF DurationFires
  <2> HIDE DEF fired
  <2>3. PollType(fired)
    BY <1>0, <2>1 DEF PollType
  <2>4. CASE CompleteThrows(poll, variables)
    BY <2>2, <2>3, <2>4, BecomesTyped
  <2>5. CASE ~CompleteThrows(poll, variables)
    <3>1. fired.comet # None
      BY <2>1, <2>5 DEF CompleteThrows, EmptyBatchThrows
    <3> DEFINE q == WithComplete(fired, variables)
    <3>2. PollType(q)
      BY <1>0, <2>3, <3>1, CompleteIsTyped
    <3> HIDE DEF q
    <3> QED
      BY <2>2, <2>5, <3>2, BecomesTyped DEF q
  <2> QED
    BY <2>4, <2>5
<1>3. ASSUME IntervalFires
      PROVE  PollTyped'
  <2> DEFINE fired == [poll EXCEPT !.interval = FALSE]
             none == <<>>
  <2>1. PollType(fired) /\ fired.comet = poll.comet
    BY <1>0, IntervalIsTyped
  <2>2. poll' = IF EmptyBatchThrows(poll, variables)
                  THEN fired ELSE WithBatch(fired, variables, none)
    BY <1>3 DEF IntervalFires
  <2>3. none \in Seq(Ids(MaxOut))
    OBVIOUS
  <2> HIDE DEF fired, none
  <2>4. CASE EmptyBatchThrows(poll, variables)
    BY <2>1, <2>2, <2>4, BecomesTyped
  <2>5. CASE ~EmptyBatchThrows(poll, variables)
    <3>1. fired.comet # None
      BY <2>1, <2>5 DEF EmptyBatchThrows
    <3> DEFINE q == WithBatch(fired, variables, none)
    <3>2. PollType(q)
      BY <1>0, <2>1, <2>3, <3>1, BatchIsTyped
    <3> HIDE DEF q
    <3> QED
      BY <2>2, <2>5, <3>2, BecomesTyped DEF q
  <2> QED
    BY <2>4, <2>5
<1>4. ASSUME TimeoutFires
      PROVE  PollTyped'
  <2> DEFINE q == WithDurationCleared(poll)
  <2>1. PollType(q) /\ poll' = q
    BY <1>0, <1>4, ClearedIsTyped DEF TimeoutFires
  <2> HIDE DEF q
  <2> QED
    BY <2>1, BecomesTyped
<1>5. PollTyped'
  BY <1>2, <1>3, <1>4 DEF Timers
<1> QED
  BY <1>1, <1>5 DEF TypeInv

LEMMA TypeStep == BufferInv /\ TypeInv /\ [Next]_vars => TypeInv'
<1> SUFFICES ASSUME BufferInv, TypeInv, [Next]_vars
             PROVE  TypeInv'
  OBVIOUS
<1> USE DEF TypeInv
<1>1. CASE UNCHANGED vars
  <2>1. StateTypes'
    BY <1>1 DEF vars, buffers, reading, StateTypes
  <2> QED
    BY <1>1, <2>1, SamePollType DEF vars
<1>2. CASE Application
  <2>1. SessionSend(outgoing, poll, variables)
    BY <1>2 DEF Application, ConnectionSend, ConnectionClose, SessionClose
  <2>2. PollTyped' /\ lastOutId' \in 0..MaxOut /\ lastOutId + 1 \in Ids(MaxOut)
    BY <2>1, SentIsTyped
  <2>3. StateTypes'
    BY <1>2, <2>2 DEF Application, ConnectionSend, ConnectionClose, SessionClose,
                      reading, StateTypes
  <2> QED
    BY <2>2, <2>3
<1>3. ASSUME NEW c \in Changes, Handshake(c)
      PROVE  TypeInv'
  <2>1. Changed(variables, c) \in [Fields -> BOOLEAN]
    BY ChangesAreTyped
  <2>2. StateTypes'
    BY <1>3, <2>1 DEF Handshake, buffers, reading, StateTypes
  <2> QED
    BY <1>3, <2>2, SamePollType DEF Handshake
<1>4. ASSUME NEW ack \in 0..lastOutId, NEW c \in Changes,
             Comet(ack, c) \/ Close(ack, c) \/ OtherRequest(ack, c)
               \/ RequestFails(ack, c)
      PROVE  TypeInv'
  BY <1>4, TypesByRequest
<1>5. ASSUME NEW ack \in 0..lastOutId, NEW b \in Batches, Send(ack, b)
      PROVE  TypeInv'
  BY <1>5, TypesBySend
<1>6. CASE Continue
  <2>1. PollTyped'
    BY <1>6, SamePollType DEF Continue, Deliver, SendAnswered, ReceiveEnds
  <2>2. CASE Deliver
    <3>1. lastInId + 1 \in Ids(MaxIn) /\ lastInId' = lastInId + 1
          /\ DOMAIN incoming' \subseteq DOMAIN incoming
      BY <2>2 DEF Deliver, StateTypes
    <3>2. lastInId' \in 0..MaxIn
      BY <3>1, BoundsAssumption DEF Ids
    <3>3. StateTypes'
      BY <2>2, <3>1, <3>2 DEF Deliver, buffers, StateTypes
    <3> QED
      BY <2>1, <3>3
  <2>3. CASE SendAnswered \/ ReceiveEnds("send") \/ ReceiveEnds("none")
    <3>1. StateTypes'
      BY <2>3 DEF SendAnswered, ReceiveEnds, buffers, reading, StateTypes
    <3> QED
      BY <2>1, <3>1
  <2> QED
    BY <1>6, <2>2, <2>3 DEF Continue
<1> QED
  BY <1>1, <1>2, <1>3, <1>4, <1>5, <1>6, TypesByTimers DEF Next, ClientRequests

LEMMA InitTypes == Init => TypeInv
<1> SUFFICES ASSUME Init
             PROVE  TypeInv
  OBVIOUS
<1>1. StateTypes
  <2>1. variables \in [Fields -> BOOLEAN]
    BY DEF Init, Defaults
  <2>2. DOMAIN incoming = {} /\ nulls = {}
    BY DEF Init
  <2>3. lastOutId \in 0..MaxOut /\ acked \in 0..MaxOut /\ lastInId \in 0..MaxIn
    BY BoundsAssumption DEF Init
  <2>4. /\ session = "none" /\ readyState = "open"
        /\ timeout = FALSE /\ running = "none"
    BY DEF Init
  <2> QED
    BY <2>1, <2>2, <2>3, <2>4 DEF StateTypes
<1>2. /\ IsPoll(poll) /\ poll.responses = <<>> /\ poll.comet = None
      /\ poll.durations = {} /\ poll.latest = None /\ poll.interval = FALSE
  BY DEF Init, IsPoll, PollFields
<1>3. poll.responses \in Seq(Response) /\ Len(poll.responses) = 0
  BY <1>2
<1>4. PollTyped
  <2>1. Len(poll.responses) =< MaxComets
    BY <1>3, BoundsAssumption
  <2>2. /\ poll.comet \in {None, Len(poll.responses)}
        /\ poll.latest \in 0..Len(poll.responses)
    BY <1>2, <1>3 DEF None
  <2>3. /\ poll.durations \subseteq 1..Len(poll.responses)
        /\ \A t \in poll.durations : poll.responses[t].open
        /\ poll.comet \notin poll.durations
    BY <1>2
  <2>4. IsPoll(poll) /\ poll.responses \in Seq(Response) /\ poll.interval \in BOOLEAN
    BY <1>2, <1>3
  <2> QED
    BY <2>1, <2>2, <2>3, <2>4 DEF PollTyped, PollType
<1> QED
  BY <1>1, <1>4 DEF TypeInv

(* TypeOK, run by node: every variable keeps its type; in particular only  *)
(* a response that is still open has a duration timer, also when a newer   *)
(* comet has taken its place, and the current response is the last one     *)
(* made (Session#init, comet, sendBatch, completeResponse).                *)
THEOREM NodeTypeCorrect == Spec => []TypeOK
<1>1. Init => BufferInv /\ ReadInv /\ TypeInv
  <2>1. Init => ReadInv
    BY DEF Init, ReadInv, WaitsUnderItsId
  <2> QED
    BY <2>1, InitBuffer, InitTypes
<1>2. BufferInv /\ ReadInv /\ TypeInv => TypeOK
  <2> SUFFICES ASSUME BufferInv, ReadInv, TypeInv
               PROVE  TypeOK
    OBVIOUS
  <2>1. lastOutId \in 0..MaxOut /\ EndsAt(outgoing, lastOutId)
        /\ Len(outgoing) =< lastOutId
    BY DEF BufferInv, TypeInv, StateTypes
  <2>2. outgoing \in Seq(Ids(MaxOut))
    BY <2>1, EndsAtIds
  <2>3. \A i \in DOMAIN incoming : incoming[i] \in Ids(MaxIn)
    BY DEF ReadInv, WaitsUnderItsId
  <2>4. /\ Len(poll.responses) \in Nat /\ MaxComets \in Nat
        /\ Len(poll.responses) =< MaxComets
    BY LenProperties, BoundsAssumption DEF TypeInv, PollTyped, PollType
  <2>5. poll \in [responses : Seq(Response), comet : 0..MaxComets,
                  durations : SUBSET Ids(MaxComets), latest : 0..MaxComets,
                  interval : BOOLEAN]
    <3>1. /\ poll.comet \in 0..MaxComets /\ poll.latest \in 0..MaxComets
          /\ poll.durations \subseteq Ids(MaxComets)
      BY <2>4 DEF TypeInv, PollTyped, PollType, None, Ids
    <3>2. IsPoll(poll) /\ poll.responses \in Seq(Response) /\ poll.interval \in BOOLEAN
      BY DEF TypeInv, PollTyped, PollType
    <3> QED
      BY <3>1, <3>2 DEF IsPoll, PollFields
  <2>6. /\ poll.comet # None => poll.comet = Len(poll.responses)
        /\ \A t \in poll.durations : poll.responses[t].open
    BY DEF TypeInv, PollTyped, PollType
  <2> QED
    BY <2>2, <2>3, <2>5, <2>6 DEF TypeOK, TypeInv, StateTypes, ReadInv
<1> QED
  BY <1>1, <1>2, BufferStep, ReadStep, TypeStep, PTL DEF Spec
=============================================================================
