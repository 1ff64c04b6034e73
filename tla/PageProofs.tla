----------------------------- MODULE PageProofs -----------------------------
(* Theorems about what a page uses beside the CSP session over             *)
(* XMLHttpRequests, for every value of the constants: the jsonp transport, *)
(* MSPP, and the connection between two windows.                           *)
EXTENDS JsonpTransport, MsppProtocol, Windows, FiniteSetTheorems,
        SequenceTheorems, TLAPS

---------------------------------------------------------------------------
(* JsonpTransport *)

RequestRecord ==
  [at : {"timer", "sent", "thrown"}, completed : BOOLEAN, loaded : BOOLEAN, ended : BOOLEAN]

JsonpTyped ==
  /\ browser \in {"IE", "WebKit", "other"}
  /\ onReady \in Seq(Types)
  /\ cbId \in [Types -> Nat]
  /\ handlers \in [Types -> SUBSET Nat]
  /\ requests \in [Types -> Seq(RequestRecord)]
  /\ answers \in [Types -> Seq([id : Nat, ok : BOOLEAN])]

(* The ids count the requests, and the session waits for one at most, the  *)
(* last it has made.                                                       *)
AskedOneByOne ==
  \A t \in Types :
    /\ cbId[t] = Len(requests[t])
    /\ Len(answers[t]) <= Len(requests[t]) /\ Made(t) <= Len(answers[t]) + 1
    /\ \A i \in 1..Len(answers[t]) : answers[t][i].id = i

(* Nothing that the browser still does answers request n. *)
Settled(t, n) ==
  /\ requests[t][n].at = "sent"
  /\ \/ requests[t][n].completed
     \/ requests[t][n].ended /\ (requests[t][n].loaded \/ n \notin handlers[t])

AnsweredSettled ==
  \A t \in Types : \A n \in 1..Len(requests[t]) :
    /\ requests[t][n].completed => requests[t][n].loaded
    /\ n <= Len(answers[t]) => Settled(t, n)

JsonpInv == JsonpTyped /\ AskedOneByOne /\ AnsweredSettled

LEMMA WaitingCounts ==
  ASSUME JsonpTyped, NEW t \in Types
  PROVE  /\ Waiting(t) \in Nat /\ Len(onReady) \in Nat
         /\ DOMAIN onReady = 1..Len(onReady)
         /\ IsFiniteSet({i \in DOMAIN onReady : onReady[i] = t})
<1>1. onReady \in Seq(Types) /\ Len(onReady) \in Nat /\ DOMAIN onReady = 1..Len(onReady)
  BY LenProperties DEF JsonpTyped
<1>2. IsFiniteSet(1..Len(onReady))
  BY <1>1, FS_Interval
<1>3. IsFiniteSet({i \in DOMAIN onReady : onReady[i] = t})
  BY <1>1, <1>2, FS_Subset
<1> QED
  BY <1>1, <1>3, FS_CardinalityType DEF Waiting

\* One more request is put off.
LEMMA WaitingGrows ==
  ASSUME JsonpTyped, NEW t \in Types, NEW u \in Types, onReady' = Append(onReady, u)
  PROVE  /\ onReady' \in Seq(Types)
         /\ Waiting(t)' = IF t = u THEN Waiting(t) + 1 ELSE Waiting(t)
<1>1. PICK n \in Nat : n = Len(onReady)
  BY WaitingCounts
<1>2. /\ onReady' \in Seq(Types) /\ DOMAIN onReady' = 1..(n + 1)
      /\ onReady'[n + 1] = u /\ \A i \in 1..n : onReady'[i] = onReady[i]
      /\ DOMAIN onReady = 1..n
  BY <1>1 DEF JsonpTyped
<1>3. PICK old : old = {i \in 1..n : onReady[i] = t}
  OBVIOUS
<1>4. PICK new : new = {i \in 1..(n + 1) : onReady'[i] = t}
  OBVIOUS
<1>5. IsFiniteSet(old) /\ Waiting(t) = Cardinality(old) /\ Waiting(t)' = Cardinality(new)
  BY <1>2, <1>3, <1>4, WaitingCounts DEF Waiting
<1>6. \A i \in 1..(n + 1) : i \in 1..n \/ i = n + 1
  OBVIOUS
<1>7. CASE t = u
  <2>1. new = old \cup {n + 1} /\ n + 1 \notin old
    BY <1>2, <1>3, <1>4, <1>6, <1>7
  <2> QED
    BY <1>2, <1>5, <1>7, <2>1, FS_AddElement
<1>8. CASE t # u
  <2>1. new = old
    BY <1>2, <1>3, <1>4, <1>6, <1>8
  <2> QED
    BY <1>2, <1>5, <1>8, <2>1
<1> QED
  BY <1>7, <1>8

LEMMA JsonpBegins == JsonpInit => JsonpInv
<1> SUFFICES ASSUME JsonpInit PROVE JsonpInv
  OBVIOUS
<1>1. JsonpTyped
  BY DEF JsonpInit, JsonpTyped
<1>2. ASSUME NEW t \in Types
      PROVE  Len(requests[t]) = 0 /\ Len(answers[t]) = 0 /\ Waiting(t) = 0
  <2>1. {i \in DOMAIN onReady : onReady[i] = t} = {}
    BY DEF JsonpInit
  <2>2. Waiting(t) = 0
    BY <2>1, FS_EmptySet DEF Waiting
  <2> QED
    BY <2>2 DEF JsonpInit
<1>3. AskedOneByOne
  BY <1>2 DEF JsonpInit, AskedOneByOne, Made
<1>4. AnsweredSettled
  BY <1>2 DEF AnsweredSettled
<1> QED
  BY <1>1, <1>3, <1>4 DEF JsonpInv

LEMMA RequestChanged ==
  ASSUME requests \in [Types -> Seq(RequestRecord)], NEW t \in Types,
         NEW n \in 1..Len(requests[t]), NEW new \in RequestRecord,
         requests' = [requests EXCEPT ![t] = [@ EXCEPT ![n] = new]]
  PROVE  /\ requests' \in [Types -> Seq(RequestRecord)]
         /\ \A u \in Types : Len(requests'[u]) = Len(requests[u])
         /\ requests'[t][n] = new
         /\ \A u \in Types : \A m \in 1..Len(requests[u]) :
              u # t \/ m # n => requests'[u][m] = requests[u][m]
<1>1. PICK list \in Seq(RequestRecord) : list = requests[t]
  OBVIOUS
<1>2. PICK changed : changed = [list EXCEPT ![n] = new]
  OBVIOUS
<1>3. /\ changed \in Seq(RequestRecord) /\ Len(changed) = Len(list)
      /\ changed[n] = new /\ \A m \in 1..Len(list) : m # n => changed[m] = list[m]
  BY <1>1, <1>2, ExceptSeq
<1>4. requests' = [requests EXCEPT ![t] = changed]
  BY <1>1, <1>2
<1> QED
  BY <1>1, <1>3, <1>4

(* A request moves on, and the session is told or not: then it must have   *)
(* waited for this one, and nothing may be left that would tell it again.  *)
LEMMA RequestMoves ==
  ASSUME JsonpInv, NEW t \in Types, NEW n \in 1..Len(requests[t]),
         NEW new \in RequestRecord,
         requests' = [requests EXCEPT ![t] = [@ EXCEPT ![n] = new]],
         new.completed => new.loaded,
         handlers' \in [Types -> SUBSET Nat],
         \A u \in Types : \A m \in 1..Len(requests[u]) :
           (u # t \/ m # n) /\ m \in handlers'[u] => m \in handlers[u],
         UNCHANGED <<browser, onReady, cbId>>,
         NEW tell \in BOOLEAN, NEW ok \in BOOLEAN,
         answers' = IF tell THEN [answers EXCEPT ![t] = Append(@, [id |-> n, ok |-> ok])]
                            ELSE answers,
         tell => ~(n <= Len(answers[t])),
         tell \/ n <= Len(answers[t]) => Settled(t, n)'
  PROVE  JsonpInv'
<1>1. JsonpTyped /\ AskedOneByOne /\ AnsweredSettled
  BY DEF JsonpInv
<1>2. /\ requests' \in [Types -> Seq(RequestRecord)]
      /\ \A u \in Types : Len(requests'[u]) = Len(requests[u])
      /\ requests'[t][n] = new
      /\ \A u \in Types : \A m \in 1..Len(requests[u]) :
           u # t \/ m # n => requests'[u][m] = requests[u][m]
  BY <1>1, RequestChanged DEF JsonpTyped
<1>3. \A u \in Types : /\ Made(u)' = Made(u) /\ Made(u) \in Nat
                       /\ Len(requests[u]) \in Nat /\ Len(requests[u]) <= Made(u)
  <2> SUFFICES ASSUME NEW u \in Types
               PROVE  /\ Made(u)' = Made(u) /\ Made(u) \in Nat
                      /\ Len(requests[u]) \in Nat /\ Len(requests[u]) <= Made(u)
    OBVIOUS
  <2>1. Waiting(u)' = Waiting(u)
    BY DEF Waiting
  <2>2. Len(requests[u]) \in Nat /\ Waiting(u) \in Nat
    BY <1>1, LenProperties, WaitingCounts DEF JsonpTyped
  <2> QED
    BY <1>2, <2>1, <2>2 DEF Made
<1>4. \A u \in Types : answers[u] \in Seq([id : Nat, ok : BOOLEAN]) /\ Len(answers[u]) \in Nat
  BY <1>1, LenProperties DEF JsonpTyped
<1>5. /\ answers' \in [Types -> Seq([id : Nat, ok : BOOLEAN])]
      /\ \A u \in Types : ~(tell /\ u = t) => answers'[u] = answers[u]
      /\ tell => /\ n = Len(answers[t]) + 1 /\ n = Made(t)
                 /\ Len(answers'[t]) = n /\ answers'[t][n].id = n
                 /\ \A i \in 1..Len(answers[t]) : answers'[t][i] = answers[t][i]
  <2>1. CASE ~tell
    BY <1>1, <2>1 DEF JsonpTyped
  <2>2. CASE tell
    <3>1. PICK entry \in [id : Nat, ok : BOOLEAN] : entry = [id |-> n, ok |-> ok]
      BY <1>3
    <3>2. answers' = [answers EXCEPT ![t] = Append(answers[t], entry)]
      BY <2>2, <3>1
    <3>3. /\ Append(answers[t], entry) \in Seq([id : Nat, ok : BOOLEAN])
          /\ Len(Append(answers[t], entry)) = Len(answers[t]) + 1
          /\ Append(answers[t], entry)[Len(answers[t]) + 1] = entry
          /\ \A i \in 1..Len(answers[t]) : Append(answers[t], entry)[i] = answers[t][i]
      BY <1>4
    <3>4. n = Len(answers[t]) + 1 /\ n = Made(t)
      BY <1>1, <1>3, <1>4, <2>2 DEF AskedOneByOne
    <3>5. answers \in [Types -> Seq([id : Nat, ok : BOOLEAN])]
      BY <1>1 DEF JsonpTyped
    <3>6. answers' \in [Types -> Seq([id : Nat, ok : BOOLEAN])]
      BY <3>2, <3>3, <3>5
    <3>7. \A u \in Types : u # t => answers'[u] = answers[u]
      BY <3>2, <3>5
    <3>8. answers'[t] = Append(answers[t], entry)
      BY <3>2, <3>5
    <3> QED
      BY <3>1, <3>3, <3>4, <3>6, <3>7, <3>8
  <2> QED
    BY <2>1, <2>2
<1>6. JsonpTyped'
  BY <1>1, <1>2, <1>5 DEF JsonpTyped
<1>7. AskedOneByOne'
  <2> SUFFICES ASSUME NEW u \in Types
               PROVE  /\ cbId[u] = Len(requests'[u])
                      /\ Len(answers'[u]) <= Len(requests'[u])
                      /\ Made(u) <= Len(answers'[u]) + 1
                      /\ \A i \in 1..Len(answers'[u]) : answers'[u][i].id = i
    BY <1>3 DEF AskedOneByOne
  <2>1. /\ cbId[u] = Len(requests[u])
        /\ Len(answers[u]) <= Len(requests[u]) /\ Made(u) <= Len(answers[u]) + 1
        /\ \A i \in 1..Len(answers[u]) : answers[u][i].id = i
    BY <1>1 DEF AskedOneByOne
  <2>2. CASE ~(tell /\ u = t)
    BY <1>2, <1>5, <2>1, <2>2
  <2>3. CASE tell /\ u = t
    <3>1. \A i \in 1..Len(answers'[t]) : i \in 1..Len(answers[t]) \/ i = n
      BY <1>4, <1>5, <2>3
    <3> QED
      BY <1>2, <1>3, <1>4, <1>5, <2>1, <2>3, <3>1
  <2> QED
    BY <2>2, <2>3
<1>8. AnsweredSettled'
  <2> SUFFICES ASSUME NEW u \in Types, NEW m \in 1..Len(requests[u])
               PROVE  /\ requests'[u][m].completed => requests'[u][m].loaded
                      /\ m <= Len(answers'[u]) => Settled(u, m)'
    BY <1>2 DEF AnsweredSettled
  <2>1. /\ requests[u][m].completed => requests[u][m].loaded
        /\ m <= Len(answers[u]) => Settled(u, m)
    BY <1>1 DEF AnsweredSettled
  <2>2. CASE u = t /\ m = n
    BY <1>2, <1>5, <2>2
  <2>3. CASE u # t \/ m # n
    <3>1. requests'[u][m] = requests[u][m] /\ (m \in handlers'[u] => m \in handlers[u])
      BY <1>2, <2>3
    <3>2. m <= Len(answers'[u]) => m <= Len(answers[u])
      BY <1>4, <1>5, <2>3
    <3> QED
      BY <2>1, <3>1, <3>2 DEF Settled
  <2> QED
    BY <2>2, <2>3
<1> QED
  BY <1>6, <1>7, <1>8 DEF JsonpInv

LEMMA FreshRequest == NewRequest \in RequestRecord /\ ~NewRequest.completed
BY DEF NewRequest, RequestRecord

(* A request that is made now has the next id; one that is put off, none. *)
LEMMA MakeRequestKeeps ==
  ASSUME JsonpInv, NEW t \in Types, MakeRequest(t)
  PROVE  JsonpInv'
<1>1. JsonpTyped /\ AskedOneByOne /\ AnsweredSettled
  BY DEF JsonpInv
<1>2. UNCHANGED <<browser, handlers, answers>> /\ Made(t) = Len(answers[t])
  BY DEF MakeRequest, MayAsk
<1>3. \A u \in Types : /\ requests[u] \in Seq(RequestRecord)
                       /\ Len(requests[u]) \in Nat /\ Waiting(u) \in Nat
                       /\ Len(answers[u]) \in Nat
  BY <1>1, LenProperties, WaitingCounts DEF JsonpTyped
<1>4. CASE ~isReady
  <2>1. onReady' = Append(onReady, t) /\ UNCHANGED <<cbId, requests>>
    BY <1>4 DEF MakeRequest
  <2>2. /\ onReady' \in Seq(Types)
        /\ \A u \in Types : Waiting(u)' = IF u = t THEN Waiting(u) + 1 ELSE Waiting(u)
    BY <1>1, <2>1, WaitingGrows
  <2>3. \A u \in Types : Made(u)' = IF u = t THEN Made(u) + 1 ELSE Made(u)
    <3> SUFFICES ASSUME NEW u \in Types
                 PROVE  Made(u)' = IF u = t THEN Made(u) + 1 ELSE Made(u)
      OBVIOUS
    <3>1. Made(u) = Len(requests[u]) + Waiting(u)
      BY DEF Made
    <3>2. Made(u)' = Len(requests[u]) + Waiting(u)'
      BY <2>1 DEF Made
    <3> QED
      BY <1>3, <2>2, <3>1, <3>2
  <2>4. JsonpTyped'
    BY <1>1, <1>2, <2>1, <2>2 DEF JsonpTyped
  <2>5. AskedOneByOne'
    BY <1>1, <1>2, <1>3, <2>1, <2>3 DEF AskedOneByOne
  <2>6. AnsweredSettled'
    BY <1>1, <1>2, <2>1 DEF AnsweredSettled, Settled
  <2> QED
    BY <2>4, <2>5, <2>6 DEF JsonpInv
<1>5. CASE isReady
  <2>1. /\ cbId' = [cbId EXCEPT ![t] = @ + 1]
        /\ requests' = [requests EXCEPT ![t] = Append(@, NewRequest)]
        /\ onReady' = onReady
    BY <1>5 DEF MakeRequest, NextId
  <2>2. PICK new \in RequestRecord : new = NewRequest /\ ~new.completed
    BY FreshRequest
  <2>3. /\ Append(requests[t], new) \in Seq(RequestRecord)
        /\ Len(Append(requests[t], new)) = Len(requests[t]) + 1
        /\ Append(requests[t], new)[Len(requests[t]) + 1] = new
        /\ \A m \in 1..Len(requests[t]) : Append(requests[t], new)[m] = requests[t][m]
    BY <1>3
  <2>4. requests \in [Types -> Seq(RequestRecord)] /\ cbId \in [Types -> Nat]
    BY <1>1 DEF JsonpTyped
  <2>5. /\ requests' \in [Types -> Seq(RequestRecord)] /\ cbId' \in [Types -> Nat]
        /\ requests'[t] = Append(requests[t], new) /\ cbId'[t] = cbId[t] + 1
        /\ \A u \in Types : u # t => requests'[u] = requests[u] /\ cbId'[u] = cbId[u]
    BY <2>1, <2>2, <2>3, <2>4
  <2>6. \A u \in Types : Waiting(u)' = Waiting(u)
    BY <2>1 DEF Waiting
  <2>7. \A u \in Types : Made(u)' = IF u = t THEN Made(u) + 1 ELSE Made(u)
    <3> SUFFICES ASSUME NEW u \in Types
                 PROVE  Made(u)' = IF u = t THEN Made(u) + 1 ELSE Made(u)
      OBVIOUS
    <3>1. Made(u) = Len(requests[u]) + Waiting(u)
      BY DEF Made
    <3>2. Made(u)' = Len(requests'[u]) + Waiting(u)'
      BY DEF Made
    <3>3. CASE u = t
      <4>1. Len(requests'[t]) = Len(requests[t]) + 1 /\ Waiting(u)' = Waiting(u)
        BY <2>3, <2>5, <2>6
      <4>2. Len(requests[t]) \in Nat /\ Waiting(u) \in Nat
        BY <1>3
      <4> QED
        BY <3>1, <3>2, <3>3, <4>1, <4>2
    <3>4. CASE u # t
      BY <2>5, <2>6, <3>1, <3>2, <3>4
    <3> QED
      BY <3>3, <3>4
  <2>8. JsonpTyped'
    BY <1>1, <1>2, <2>1, <2>5 DEF JsonpTyped
  <2>9. AskedOneByOne'
    <3> SUFFICES ASSUME NEW u \in Types
                 PROVE  /\ cbId'[u] = Len(requests'[u])
                        /\ Len(answers[u]) <= Len(requests'[u])
                        /\ Made(u)' <= Len(answers[u]) + 1
                        /\ \A i \in 1..Len(answers[u]) : answers[u][i].id = i
      BY <1>2 DEF AskedOneByOne
    <3>1. /\ cbId[u] = Len(requests[u])
          /\ Len(answers[u]) <= Len(requests[u]) /\ Made(u) <= Len(answers[u]) + 1
          /\ \A i \in 1..Len(answers[u]) : answers[u][i].id = i
      BY <1>1 DEF AskedOneByOne
    <3>2. CASE u = t
      <4>1. /\ cbId'[t] = cbId[t] + 1 /\ Len(requests'[t]) = Len(requests[t]) + 1
            /\ Made(t)' = Made(t) + 1 /\ Made(t) = Len(answers[t])
        BY <1>2, <2>3, <2>5, <2>7
      <4>2. Len(requests[t]) \in Nat /\ Len(answers[t]) \in Nat
        BY <1>3
      <4> QED
        BY <3>1, <3>2, <4>1, <4>2
    <3>3. CASE u # t
      BY <2>5, <2>7, <3>1, <3>3
    <3> QED
      BY <3>2, <3>3
  <2>10. AnsweredSettled'
    <3> SUFFICES ASSUME NEW u \in Types, NEW m \in 1..Len(requests'[u])
                 PROVE  /\ requests'[u][m].completed => requests'[u][m].loaded
                        /\ m <= Len(answers[u]) => Settled(u, m)'
      BY <1>2 DEF AnsweredSettled
    <3>1. CASE u = t /\ m = Len(requests[t]) + 1
      <4>1. ~(m <= Len(answers[u]))
        <5>1. Len(answers[t]) <= Len(requests[t])
          BY <1>1 DEF AskedOneByOne
        <5> QED
          BY <1>3, <3>1, <5>1
      <4> QED
        BY <2>2, <2>3, <2>5, <3>1, <4>1
    <3>2. CASE ~(u = t /\ m = Len(requests[t]) + 1)
      <4>1. m \in 1..Len(requests[u]) /\ requests'[u][m] = requests[u][m]
        BY <1>3, <2>3, <2>5, <3>2
      <4> QED
        BY <1>1, <1>2, <4>1 DEF AnsweredSettled, Settled
    <3> QED
      BY <3>1, <3>2
  <2> QED
    BY <2>8, <2>9, <2>10 DEF JsonpInv
<1> QED
  BY <1>4, <1>5

(* The requests that were put off are made. *)
LEMMA CreateIframesKeeps == JsonpInv /\ CreateIframes => JsonpInv'
<1> SUFFICES ASSUME JsonpInv, CreateIframes PROVE JsonpInv'
  OBVIOUS
<1>1. JsonpTyped /\ AskedOneByOne /\ AnsweredSettled
  BY DEF JsonpInv
<1>2. UNCHANGED <<browser, handlers, answers>> /\ onReady' = <<>>
  BY DEF CreateIframes
<1>3. \A u \in Types : /\ requests[u] \in Seq(RequestRecord)
                       /\ Len(requests[u]) \in Nat /\ Waiting(u) \in Nat
                       /\ Len(answers[u]) \in Nat
  BY <1>1, LenProperties, WaitingCounts DEF JsonpTyped
<1>4. ASSUME NEW u \in Types PROVE Waiting(u)' = 0
  <2>1. {i \in DOMAIN onReady' : onReady'[i] = u} = {}
    BY <1>2
  <2> QED
    BY <2>1, FS_EmptySet DEF Waiting
<1>5. ASSUME NEW u \in Types
      PROVE  /\ requests'[u] \in Seq(RequestRecord)
             /\ Len(requests'[u]) = Len(requests[u]) + Waiting(u)
             /\ cbId'[u] = cbId[u] + Waiting(u)
             /\ \A m \in 1..Len(requests[u]) : requests'[u][m] = requests[u][m]
             /\ \A m \in 1..Len(requests'[u]) :
                  m \in 1..Len(requests[u]) \/ ~requests'[u][m].completed
  <2>1. PICK new \in RequestRecord : new = NewRequest /\ ~new.completed
    BY FreshRequest
  <2>2. PICK n \in Nat : n = Waiting(u)
    BY <1>3
  <2>3. PICK flushed : flushed = [i \in 1..n |-> new]
    OBVIOUS
  <2>4. flushed \in Seq(RequestRecord) /\ Len(flushed) = n /\ \A i \in 1..n : flushed[i] = new
    BY <2>2, <2>3
  <2>5. Flushed(u) = flushed
    BY <2>1, <2>2, <2>3 DEF Flushed
  <2>6. requests'[u] = requests[u] \o flushed /\ cbId'[u] = cbId[u] + n
    BY <2>4, <2>5 DEF CreateIframes
  <2>7. PICK list \in Seq(RequestRecord) : list = requests[u] /\ Len(list) \in Nat
    BY <1>3
  <2>8. /\ list \o flushed \in Seq(RequestRecord)
        /\ Len(list \o flushed) = Len(list) + n
        /\ \A m \in 1..Len(list) : (list \o flushed)[m] = list[m]
        /\ \A m \in (Len(list) + 1)..(Len(list) + n) :
             (list \o flushed)[m] = flushed[m - Len(list)]
    BY <2>4, <2>7
  <2>9. \A m \in 1..(Len(list) + n) :
          m \in 1..Len(list) \/ (/\ m \in (Len(list) + 1)..(Len(list) + n)
                                 /\ m - Len(list) \in 1..n)
    BY <2>2, <2>7
  <2>10. \A m \in 1..(Len(list) + n) : m \in 1..Len(list) \/ (list \o flushed)[m] = new
    BY <2>4, <2>8, <2>9
  <2> QED
    BY <2>1, <2>2, <2>6, <2>7, <2>8, <2>10
<1>6. \A u \in Types : Made(u)' = Made(u)
  BY <1>3, <1>4, <1>5 DEF Made
<1>7. JsonpTyped'
  <2>1. requests' \in [Types -> Seq(RequestRecord)]
    BY <1>5 DEF CreateIframes
  <2>2. \A u \in Types : cbId'[u] \in Nat
    BY <1>1, <1>3, <1>5 DEF JsonpTyped
  <2>3. cbId' \in [Types -> Nat]
    BY <2>2 DEF CreateIframes
  <2>4. onReady' \in Seq(Types)
    BY <1>2
  <2> QED
    BY <1>1, <1>2, <2>1, <2>3, <2>4 DEF JsonpTyped
<1>8. AskedOneByOne'
  BY <1>1, <1>2, <1>3, <1>5, <1>6 DEF AskedOneByOne
<1>9. AnsweredSettled'
  <2> SUFFICES ASSUME NEW u \in Types, NEW m \in 1..Len(requests'[u])
               PROVE  /\ requests'[u][m].completed => requests'[u][m].loaded
                      /\ m <= Len(answers[u]) => Settled(u, m)'
    BY <1>2 DEF AnsweredSettled
  <2>1. CASE m \in 1..Len(requests[u])
    <3>1. requests'[u][m] = requests[u][m]
      BY <1>5, <2>1
    <3> QED
      BY <1>1, <1>2, <2>1, <3>1 DEF AnsweredSettled, Settled
  <2>2. CASE m \notin 1..Len(requests[u])
    <3>1. ~requests'[u][m].completed
      BY <1>5, <2>2
    <3>2. Len(answers[u]) <= Len(requests[u])
      BY <1>1 DEF AskedOneByOne
    <3> QED
      BY <1>3, <2>2, <3>1, <3>2
  <2> QED
    BY <2>1, <2>2
<1> QED
  BY <1>7, <1>8, <1>9 DEF JsonpInv

LEMMA RequestUpdated ==
  ASSUME NEW old \in RequestRecord
  PROVE  /\ [old EXCEPT !.at = Placed] \in RequestRecord
         /\ [old EXCEPT !.loaded = TRUE] \in RequestRecord
         /\ [old EXCEPT !.ended = TRUE] \in RequestRecord
         /\ [old EXCEPT !.loaded = TRUE, !.completed = TRUE] \in RequestRecord
         /\ [old EXCEPT !.at = Placed].completed = old.completed
         /\ [old EXCEPT !.at = Placed].loaded = old.loaded
         /\ [old EXCEPT !.loaded = TRUE].at = old.at
         /\ [old EXCEPT !.loaded = TRUE].loaded
         /\ [old EXCEPT !.loaded = TRUE].completed = old.completed
         /\ [old EXCEPT !.loaded = TRUE].ended = old.ended
         /\ [old EXCEPT !.ended = TRUE].at = old.at
         /\ [old EXCEPT !.ended = TRUE].ended
         /\ [old EXCEPT !.ended = TRUE].loaded = old.loaded
         /\ [old EXCEPT !.ended = TRUE].completed = old.completed
         /\ [old EXCEPT !.loaded = TRUE, !.completed = TRUE].at = old.at
         /\ [old EXCEPT !.loaded = TRUE, !.completed = TRUE].loaded
         /\ [old EXCEPT !.loaded = TRUE, !.completed = TRUE].completed
<1>1. /\ [old EXCEPT !.at = Placed] \in RequestRecord
      /\ [old EXCEPT !.loaded = TRUE] \in RequestRecord
      /\ [old EXCEPT !.ended = TRUE] \in RequestRecord
      /\ [old EXCEPT !.loaded = TRUE, !.completed = TRUE] \in RequestRecord
  BY DEF RequestRecord, Placed
<1>2. /\ [old EXCEPT !.at = Placed].completed = old.completed
      /\ [old EXCEPT !.at = Placed].loaded = old.loaded
  BY DEF RequestRecord
<1>3. /\ [old EXCEPT !.loaded = TRUE].at = old.at
      /\ [old EXCEPT !.loaded = TRUE].loaded
      /\ [old EXCEPT !.loaded = TRUE].completed = old.completed
      /\ [old EXCEPT !.loaded = TRUE].ended = old.ended
  BY DEF RequestRecord
<1>4. /\ [old EXCEPT !.ended = TRUE].at = old.at
      /\ [old EXCEPT !.ended = TRUE].ended
      /\ [old EXCEPT !.ended = TRUE].loaded = old.loaded
      /\ [old EXCEPT !.ended = TRUE].completed = old.completed
  BY DEF RequestRecord
<1>5. /\ [old EXCEPT !.loaded = TRUE, !.completed = TRUE].at = old.at
      /\ [old EXCEPT !.loaded = TRUE, !.completed = TRUE].loaded
      /\ [old EXCEPT !.loaded = TRUE, !.completed = TRUE].completed
  BY DEF RequestRecord
<1> QED
  BY <1>1, <1>2, <1>3, <1>4, <1>5

LEMMA RequestKeeps ==
  ASSUME JsonpInv, NEW t \in Types, NEW n \in DOMAIN requests[t], Request(t, n)
  PROVE  JsonpInv'
<1>1. JsonpTyped /\ AskedOneByOne /\ AnsweredSettled /\ n \in 1..Len(requests[t])
  BY LenProperties DEF JsonpInv, JsonpTyped
<1>2. PICK old \in RequestRecord : old = requests[t][n] /\ old.at = "timer"
  BY <1>1, ElementOfSeq DEF JsonpTyped, Request
<1>3. PICK new \in RequestRecord : /\ new = [old EXCEPT !.at = Placed]
                                   /\ new.completed = old.completed
                                   /\ new.loaded = old.loaded
  BY RequestUpdated
<1>4. requests' = [requests EXCEPT ![t] = [@ EXCEPT ![n] = new]]
  BY <1>2, <1>3 DEF Request
<1>5. handlers' = [handlers EXCEPT ![t] = @ \cup {n}] /\ n \in Nat
  BY <1>1 DEF Request
<1>6. handlers' \in [Types -> SUBSET Nat]
  BY <1>1, <1>5 DEF JsonpTyped
<1>7. \A u \in Types : \A m \in 1..Len(requests[u]) :
        (u # t \/ m # n) /\ m \in handlers'[u] => m \in handlers[u]
  BY <1>1, <1>5 DEF JsonpTyped
<1>8. new.completed => new.loaded
  BY <1>1, <1>2, <1>3 DEF AnsweredSettled
<1>9. ~(n <= Len(answers[t]))
  BY <1>1, <1>2 DEF AnsweredSettled, Settled
<1>10. PICK tell \in BOOLEAN : tell = FALSE
  OBVIOUS
<1>11. /\ UNCHANGED <<browser, onReady, cbId>>
       /\ answers' = IF tell THEN [answers EXCEPT ![t] = Append(@, [id |-> n, ok |-> tell])]
                             ELSE answers
  BY <1>10 DEF Request
<1>12. /\ tell => ~(n <= Len(answers[t]))
       /\ tell \/ n <= Len(answers[t]) => Settled(t, n)'
  BY <1>9, <1>10
<1> QED
  BY <1>1, <1>4, <1>6, <1>7, <1>8, <1>11, <1>12, RequestMoves

(* The callback is called once: the next time it finds the script loaded.  *)
LEMMA ScriptKeeps ==
  ASSUME JsonpInv, NEW t \in Types, NEW n \in DOMAIN requests[t], Browser(t, n)
  PROVE  JsonpInv'
<1>1. JsonpTyped /\ AskedOneByOne /\ AnsweredSettled /\ n \in 1..Len(requests[t])
  BY LenProperties DEF JsonpInv, JsonpTyped
<1>2. PICK old \in RequestRecord : /\ old = requests[t][n] /\ old.at = "sent"
                                   /\ ~old.loaded /\ ~old.completed
  BY <1>1, ElementOfSeq DEF JsonpTyped, Browser, ScriptRuns, ScriptFails, AnsweredSettled
<1>3. /\ UNCHANGED <<browser, onReady, cbId, handlers>>
      /\ handlers' \in [Types -> SUBSET Nat]
      /\ \A u \in Types : \A m \in 1..Len(requests[u]) :
           (u # t \/ m # n) /\ m \in handlers'[u] => m \in handlers[u]
  BY <1>1 DEF Browser, ScriptRuns, ScriptFails, JsonpTyped
<1>4. CASE ScriptRuns(t, n) /\ n \in handlers[t]
  <2>1. PICK new \in RequestRecord :
          /\ new = [old EXCEPT !.loaded = TRUE, !.completed = TRUE]
          /\ new.at = "sent" /\ new.loaded /\ new.completed
    <3>1. /\ [old EXCEPT !.loaded = TRUE, !.completed = TRUE] \in RequestRecord
          /\ [old EXCEPT !.loaded = TRUE, !.completed = TRUE].at = "sent"
          /\ [old EXCEPT !.loaded = TRUE, !.completed = TRUE].loaded
          /\ [old EXCEPT !.loaded = TRUE, !.completed = TRUE].completed
      BY <1>2, RequestUpdated
    <3> QED
      BY <3>1
  <2>2. PICK tell \in BOOLEAN, ok \in BOOLEAN : tell = TRUE /\ ok = TRUE
    OBVIOUS
  <2>3. /\ requests' = [requests EXCEPT ![t] = [@ EXCEPT ![n] = new]]
        /\ answers' = IF tell THEN [answers EXCEPT ![t] = Append(@, [id |-> n, ok |-> ok])]
                              ELSE answers
    BY <1>2, <1>4, <2>1, <2>2 DEF ScriptRuns, Completed, Answer
  <2>4. ~(n <= Len(answers[t]))
    BY <1>1, <1>2, <1>4 DEF AnsweredSettled, Settled
  <2>5. requests'[t][n] = new
    BY <1>1, <2>3, RequestChanged DEF JsonpTyped
  <2>6. Settled(t, n)'
    BY <2>1, <2>5 DEF Settled
  <2>7. /\ new.completed => new.loaded
        /\ tell => ~(n <= Len(answers[t]))
        /\ tell \/ n <= Len(answers[t]) => Settled(t, n)'
    BY <2>1, <2>4, <2>6
  <2> QED
    BY <1>1, <1>3, <2>3, <2>7, RequestMoves
<1>5. CASE ScriptFails(t, n) \/ (ScriptRuns(t, n) /\ n \notin handlers[t])
  <2>1. PICK new \in RequestRecord :
          /\ new = [old EXCEPT !.loaded = TRUE]
          /\ new.at = "sent" /\ new.loaded /\ ~new.completed /\ new.ended = old.ended
    <3>1. /\ [old EXCEPT !.loaded = TRUE] \in RequestRecord
          /\ [old EXCEPT !.loaded = TRUE].at = "sent"
          /\ [old EXCEPT !.loaded = TRUE].loaded
          /\ ~[old EXCEPT !.loaded = TRUE].completed
          /\ [old EXCEPT !.loaded = TRUE].ended = old.ended
      BY <1>2, RequestUpdated
    <3> QED
      BY <3>1
  <2>2. PICK tell \in BOOLEAN : tell = FALSE
    OBVIOUS
  <2>3. /\ requests' = [requests EXCEPT ![t] = [@ EXCEPT ![n] = new]]
        /\ answers' = IF tell THEN [answers EXCEPT ![t] = Append(@, [id |-> n, ok |-> tell])]
                              ELSE answers
    BY <1>2, <1>5, <2>1, <2>2 DEF ScriptRuns, ScriptFails
  <2>4. requests'[t][n] = new
    BY <1>1, <2>3, RequestChanged DEF JsonpTyped
  <2>5. n <= Len(answers[t]) => Settled(t, n)'
    BY <1>1, <1>2, <1>3, <2>1, <2>4 DEF AnsweredSettled, Settled
  <2>6. /\ new.completed => new.loaded
        /\ tell => ~(n <= Len(answers[t]))
        /\ tell \/ n <= Len(answers[t]) => Settled(t, n)'
    BY <2>1, <2>2, <2>5
  <2> QED
    BY <1>1, <1>3, <2>3, <2>6, RequestMoves
<1> QED
  BY <1>4, <1>5 DEF Browser, ScriptRuns

(* A request that is over gives up its callbacks if it was not answered:   *)
(* it is the latest then, for which cleanupIframe empties them.            *)
LEMMA EndsKeeps ==
  ASSUME JsonpInv, NEW t \in Types, NEW n \in DOMAIN requests[t], Ends(t, n)
  PROVE  JsonpInv'
<1>1. JsonpTyped /\ AskedOneByOne /\ AnsweredSettled /\ n \in 1..Len(requests[t])
  BY LenProperties DEF JsonpInv, JsonpTyped
<1>2. PICK old \in RequestRecord : /\ old = requests[t][n] /\ old.at = "sent" /\ ~old.ended
                                   /\ browser = "IE" => old.loaded
  BY <1>1, ElementOfSeq DEF JsonpTyped, Ends
<1>3. PICK new \in RequestRecord : /\ new = [old EXCEPT !.ended = TRUE]
                                   /\ new.at = "sent" /\ new.ended
                                   /\ new.loaded = old.loaded
                                   /\ new.completed = old.completed
  <2>1. /\ [old EXCEPT !.ended = TRUE] \in RequestRecord
        /\ [old EXCEPT !.ended = TRUE].at = "sent"
        /\ [old EXCEPT !.ended = TRUE].ended
        /\ [old EXCEPT !.ended = TRUE].loaded = old.loaded
        /\ [old EXCEPT !.ended = TRUE].completed = old.completed
    BY <1>2, RequestUpdated
  <2> QED
    BY <2>1
<1>4. requests' = [requests EXCEPT ![t] = [@ EXCEPT ![n] = new]]
  BY <1>2, <1>3 DEF Ends
<1>5. requests'[t][n] = new
  BY <1>1, <1>4, RequestChanged DEF JsonpTyped
<1>6. /\ UNCHANGED <<browser, onReady, cbId>>
      /\ handlers' = handlers \/ handlers' = [handlers EXCEPT ![t] = @ \ {cbId[t]}]
  BY DEF Ends, Cleaned
<1>7. handlers' \in [Types -> SUBSET Nat]
  BY <1>1, <1>6 DEF JsonpTyped
<1>8. \A u \in Types : \A m \in 1..Len(requests[u]) : m \in handlers'[u] => m \in handlers[u]
  BY <1>1, <1>6 DEF JsonpTyped
<1>9. new.completed => new.loaded
  BY <1>1, <1>2, <1>3 DEF AnsweredSettled
<1>10. n <= Len(answers[t]) => old.completed
  BY <1>1, <1>2 DEF AnsweredSettled, Settled
<1>11. CASE (browser = "IE" \/ n \in handlers[t]) /\ ~old.completed
  <2>1. PICK tell \in BOOLEAN, ok \in BOOLEAN : tell = TRUE /\ ok = FALSE
    OBVIOUS
  <2>2. /\ answers' = IF tell THEN [answers EXCEPT ![t] = Append(@, [id |-> n, ok |-> ok])]
                              ELSE answers
        /\ handlers' = [handlers EXCEPT ![t] = @ \ {cbId[t]}]
    BY <1>2, <1>11, <2>1 DEF Ends, Answer, Cleaned
  <2>3. n = cbId[t]
    <3>1. /\ cbId[t] = Len(requests[t]) /\ Made(t) <= Len(answers[t]) + 1
          /\ Len(requests[t]) \in Nat /\ Len(answers[t]) \in Nat
      BY <1>1, LenProperties DEF AskedOneByOne, JsonpTyped
    <3>2. Made(t) = Len(requests[t]) + Waiting(t) /\ Waiting(t) \in Nat
      BY <1>1, WaitingCounts DEF Made
    <3>3. ~(n <= Len(answers[t]))
      BY <1>10, <1>11
    <3> QED
      BY <1>1, <3>1, <3>2, <3>3
  <2>4. n \notin handlers'[t]
    BY <1>1, <2>2, <2>3 DEF JsonpTyped
  <2>5. Settled(t, n)'
    BY <1>3, <1>5, <2>4 DEF Settled
  <2>6. /\ tell => ~(n <= Len(answers[t]))
        /\ tell \/ n <= Len(answers[t]) => Settled(t, n)'
    BY <1>10, <1>11, <2>5
  <2> QED
    BY <1>1, <1>4, <1>6, <1>7, <1>8, <1>9, <2>2, <2>6, RequestMoves
<1>12. CASE ~((browser = "IE" \/ n \in handlers[t]) /\ ~old.completed)
  <2>1. PICK tell \in BOOLEAN : tell = FALSE
    OBVIOUS
  <2>2. answers' = IF tell THEN [answers EXCEPT ![t] = Append(@, [id |-> n, ok |-> tell])]
                           ELSE answers
    BY <1>2, <1>12, <2>1 DEF Ends
  <2>3. n <= Len(answers[t]) => Settled(t, n)'
    BY <1>3, <1>5, <1>10 DEF Settled
  <2>4. /\ tell => ~(n <= Len(answers[t]))
        /\ tell \/ n <= Len(answers[t]) => Settled(t, n)'
    BY <2>1, <2>3
  <2> QED
    BY <1>1, <1>4, <1>6, <1>7, <1>8, <1>9, <2>2, <2>4, RequestMoves
<1> QED
  BY <1>11, <1>12

LEMMA JsonpStep == JsonpInv /\ [JsonpNext]_jsonpVars => JsonpInv'
<1> SUFFICES ASSUME JsonpInv, [JsonpNext]_jsonpVars PROVE JsonpInv'
  OBVIOUS
<1>1. JsonpTyped /\ AskedOneByOne /\ AnsweredSettled
  BY DEF JsonpInv
<1>2. ASSUME UNCHANGED <<browser, onReady, cbId, requests, answers>>,
             handlers' \in [Types -> SUBSET Nat],
             \A t \in Types : handlers'[t] \subseteq handlers[t]
      PROVE  JsonpInv'
  <2>1. JsonpTyped'
    BY <1>1, <1>2 DEF JsonpTyped
  <2>2. AskedOneByOne'
    BY <1>1, <1>2 DEF AskedOneByOne, Made, Waiting
  <2>3. AnsweredSettled'
    BY <1>1, <1>2 DEF AnsweredSettled, Settled
  <2> QED
    BY <2>1, <2>2, <2>3 DEF JsonpInv
<1>3. CASE UNCHANGED jsonpVars \/ BodyAppears
  BY <1>1, <1>2, <1>3 DEF jsonpVars, BodyAppears, JsonpTyped
<1>4. CASE Abort
  <2>1. UNCHANGED <<browser, onReady, cbId, requests, answers>>
        /\ (handlers' = handlers \/ handlers' = AllCleaned)
    BY <1>4 DEF Abort
  <2>2. "send" \in Types /\ "comet" \in Types /\ handlers \in [Types -> SUBSET Nat]
    BY <1>1 DEF Types, JsonpTyped
  <2>3. /\ AllCleaned \in [Types -> SUBSET Nat]
        /\ \A t \in Types : AllCleaned[t] \subseteq handlers[t]
    BY <2>2 DEF AllCleaned, Cleaned
  <2> QED
    BY <1>2, <2>1, <2>2, <2>3
<1> QED
  BY <1>3, <1>4, CreateIframesKeeps, MakeRequestKeeps, RequestKeeps, ScriptKeeps, EndsKeeps
  DEF JsonpNext

(* What the error script of a request may find: whatever was completed has *)
(* been answered.                                                          *)
CompletedAnswered ==
  \A t \in Types : \A n \in 1..Len(requests[t]) :
    requests[t][n].completed => n <= Len(answers[t])

LateInv == JsonpInv /\ CompletedAnswered /\ SilencedByLateEnd

(* A step that takes no callbacks, undoes nothing and sends only what has  *)
(* its callbacks, completes only what it answers.                          *)
LEMMA NothingSilenced ==
  ASSUME LateInv, JsonpInv', UNCHANGED aborted,
         \A t \in Types : Len(answers'[t]) >= Len(answers[t]),
         \A t \in Types : \A n \in 1..Len(requests'[t]) :
           \/ /\ requests'[t][n].at # "sent" \/ n \in handlers'[t]
              /\ requests'[t][n].completed => n <= Len(answers'[t])
              /\ n <= Len(requests[t]) =>
                   /\ requests[t][n].completed => requests'[t][n].completed
                   /\ requests[t][n].ended => requests'[t][n].ended
           \/ /\ n <= Len(requests[t])
              /\ requests'[t][n].at = requests[t][n].at
              /\ requests'[t][n].completed = requests[t][n].completed
              /\ requests[t][n].ended => requests'[t][n].ended
              /\ n \in handlers[t] => n \in handlers'[t]
  PROVE  LateInv'
<1>1. /\ JsonpTyped /\ JsonpTyped' /\ CompletedAnswered /\ SilencedByLateEnd
      /\ AskedOneByOne /\ AskedOneByOne'
  BY DEF LateInv, JsonpInv
<1>2. \A t \in Types :
        /\ Len(answers[t]) \in Nat /\ Len(answers'[t]) \in Nat
        /\ Len(requests[t]) \in Nat /\ Len(requests'[t]) \in Nat
        /\ DOMAIN requests[t] = 1..Len(requests[t])
        /\ DOMAIN requests'[t] = 1..Len(requests'[t])
  BY <1>1, LenProperties DEF JsonpTyped
<1>3. CompletedAnswered'
  <2> SUFFICES ASSUME NEW t \in Types, NEW n \in 1..Len(requests'[t]), requests'[t][n].completed
               PROVE  n <= Len(answers'[t])
    BY DEF CompletedAnswered
  <2>1. CASE requests'[t][n].completed => n <= Len(answers'[t])
    BY <2>1
  <2>2. CASE /\ n <= Len(requests[t])
             /\ requests'[t][n].completed = requests[t][n].completed
    <3>1. n \in 1..Len(requests[t]) /\ requests[t][n].completed
      BY <1>2, <2>2
    <3>2. n <= Len(answers[t])
      BY <1>1, <3>1 DEF CompletedAnswered
    <3> QED
      BY <1>2, <3>2
  <2> QED
    BY <2>1, <2>2
<1>4. SilencedByLateEnd'
  <2> SUFFICES ASSUME ~aborted, NEW t \in Types, NEW n \in 1..Len(requests'[t]), Silent(t, n)'
               PROVE  \E m \in 1..(n - 1) : requests'[t][m].completed /\ requests'[t][m].ended
    BY <1>2 DEF SilencedByLateEnd
  <2>1. requests'[t][n].at = "sent" /\ n \notin handlers'[t] /\ n > Len(answers'[t])
    BY DEF Silent
  <2>2. n \in 1..Len(requests[t]) /\ Silent(t, n)
    BY <1>2, <2>1 DEF Silent
  <2>3. PICK m \in 1..(n - 1) : requests[t][m].completed /\ requests[t][m].ended
    BY <1>1, <1>2, <2>2 DEF SilencedByLateEnd
  <2>4. m \in 1..Len(requests[t]) /\ m \in 1..Len(requests'[t])
    BY <1>2, <2>2, <2>3
  <2>5. requests'[t][m].completed /\ requests'[t][m].ended
    BY <2>3, <2>4
  <2> QED
    BY <2>3, <2>5
<1> QED
  BY <1>3, <1>4 DEF LateInv

\* One request has moved on, and no callbacks are taken.
LEMMA OneMovesOn ==
  ASSUME LateInv, JsonpInv', UNCHANGED aborted,
         NEW t \in Types, NEW n \in 1..Len(requests[t]), NEW new \in RequestRecord,
         requests' = [requests EXCEPT ![t] = [@ EXCEPT ![n] = new]],
         \A u \in Types : Len(answers'[u]) >= Len(answers[u]),
         \A u \in Types : handlers[u] \subseteq handlers'[u],
         new.completed => n <= Len(answers'[t]),
         requests[t][n].completed => new.completed,
         requests[t][n].ended => new.ended,
         \/ n \in handlers'[t] \/ n <= Len(answers'[t])
         \/ new.at = requests[t][n].at
  PROVE  LateInv'
<1>1. JsonpTyped /\ CompletedAnswered /\ SilencedByLateEnd /\ JsonpTyped'
  BY DEF LateInv, JsonpInv
<1>2. /\ requests'[t][n] = new
      /\ \A u \in Types : Len(requests'[u]) = Len(requests[u])
      /\ \A u \in Types : \A m \in 1..Len(requests[u]) :
           u # t \/ m # n => requests'[u][m] = requests[u][m]
  BY <1>1, RequestChanged DEF JsonpTyped
<1>3. \A u \in Types : /\ Len(answers[u]) \in Nat /\ Len(answers'[u]) \in Nat
                       /\ Len(requests[u]) \in Nat
                       /\ DOMAIN requests[u] = 1..Len(requests[u])
                       /\ DOMAIN requests'[u] = 1..Len(requests[u])
  BY <1>1, <1>2, LenProperties DEF JsonpTyped
<1>4. \A u \in Types : \A m \in 1..Len(requests[u]) :
        /\ requests[u][m].completed => requests'[u][m].completed
        /\ requests[u][m].ended => requests'[u][m].ended
  BY <1>2
<1>5. CompletedAnswered'
  <2> SUFFICES ASSUME NEW u \in Types, NEW m \in 1..Len(requests[u]), requests'[u][m].completed
               PROVE  m <= Len(answers'[u])
    BY <1>2 DEF CompletedAnswered
  <2>1. CASE u = t /\ m = n
    BY <1>2, <2>1
  <2>2. CASE u # t \/ m # n
    <3>1. m <= Len(answers[u])
      BY <1>1, <1>2, <2>2 DEF CompletedAnswered
    <3> QED
      BY <1>3, <3>1
  <2> QED
    BY <2>1, <2>2
<1>6. SilencedByLateEnd'
  <2> SUFFICES ASSUME ~aborted, NEW u \in Types, NEW k \in 1..Len(requests[u]), Silent(u, k)'
               PROVE  \E m \in 1..(k - 1) : requests'[u][m].completed /\ requests'[u][m].ended
    BY <1>3 DEF SilencedByLateEnd
  <2>1. requests'[u][k].at = "sent" /\ k \notin handlers'[u] /\ k > Len(answers'[u])
    BY DEF Silent
  <2>2. requests[u][k].at = "sent"
    BY <1>2, <1>3, <2>1
  <2>3. k \notin handlers[u] /\ k > Len(answers[u])
    BY <1>3, <2>1
  <2>4. Silent(u, k)
    BY <2>2, <2>3 DEF Silent
  <2>5. PICK m \in 1..(k - 1) : requests[u][m].completed /\ requests[u][m].ended
    BY <1>1, <1>3, <2>4 DEF SilencedByLateEnd
  <2>6. m \in 1..Len(requests[u])
    BY <1>3, <2>5
  <2> QED
    BY <1>4, <2>5, <2>6
<1> QED
  BY <1>5, <1>6 DEF LateInv

LEMMA MakeRequestIsHeard ==
  ASSUME LateInv, JsonpInv', NEW t \in Types, MakeRequest(t)
  PROVE  LateInv'
<1>1. JsonpTyped
  BY DEF LateInv, JsonpInv
<1>2. \A u \in Types : /\ Len(answers[u]) \in Nat /\ requests[u] \in Seq(RequestRecord)
                       /\ Len(requests[u]) \in Nat
  BY <1>1, LenProperties DEF JsonpTyped
<1>3. UNCHANGED <<aborted, answers, handlers>>
  BY DEF MakeRequest
<1>4. CASE UNCHANGED requests
  BY <1>2, <1>3, <1>4, NothingSilenced
<1>5. CASE requests' = [requests EXCEPT ![t] = Append(@, NewRequest)]
  <2>1. requests'[t] = Append(requests[t], NewRequest)
    BY <1>1, <1>5 DEF JsonpTyped
  <2>2. \A u \in Types : u # t => requests'[u] = requests[u]
    BY <1>1, <1>5 DEF JsonpTyped
  <2>3. PICK new \in RequestRecord : new = NewRequest
    BY FreshRequest
  <2>4. new.at # "sent" /\ ~new.completed
    BY <2>3 DEF NewRequest
  <2>5. PICK list \in Seq(RequestRecord) : list = requests[t]
    BY <1>2
  <2>6. /\ Len(Append(list, new)) = Len(list) + 1
        /\ Append(list, new)[Len(list) + 1] = new
        /\ \A i \in 1..Len(list) : Append(list, new)[i] = list[i]
    OBVIOUS
  <2>7. \A n \in 1..Len(requests'[t]) : \/ n <= Len(requests[t]) /\ requests'[t][n] = requests[t][n]
                                        \/ n > Len(requests[t]) /\ requests'[t][n] = new
    BY <1>2, <2>1, <2>3, <2>5, <2>6
  <2> QED
    BY <1>2, <1>3, <2>2, <2>4, <2>7, NothingSilenced
<1> QED
  BY <1>4, <1>5 DEF MakeRequest

LEMMA CreateIframesIsHeard == LateInv /\ JsonpInv' /\ CreateIframes => LateInv'
<1> SUFFICES ASSUME LateInv, JsonpInv', CreateIframes PROVE LateInv'
  OBVIOUS
<1>1. JsonpTyped
  BY DEF LateInv, JsonpInv
<1>2. \A u \in Types : /\ Len(answers[u]) \in Nat /\ requests[u] \in Seq(RequestRecord)
                       /\ Len(requests[u]) \in Nat /\ Waiting(u) \in Nat
  BY <1>1, LenProperties, WaitingCounts DEF JsonpTyped
<1>3. UNCHANGED <<aborted, answers, handlers>>
  BY DEF CreateIframes
<1>4. PICK new \in RequestRecord : new = NewRequest
  BY FreshRequest
<1>5. new.at # "sent" /\ ~new.completed
  BY <1>4 DEF NewRequest
<1>6. ASSUME NEW u \in Types
      PROVE  \A n \in 1..Len(requests'[u]) :
               \/ n <= Len(requests[u]) /\ requests'[u][n] = requests[u][n]
               \/ n > Len(requests[u]) /\ requests'[u][n] = new
  <2>1. PICK k \in Nat : k = Waiting(u)
    BY <1>2
  <2>2. PICK flushed : flushed = [i \in 1..k |-> new]
    OBVIOUS
  <2>3. flushed \in Seq(RequestRecord) /\ Len(flushed) = k /\ \A i \in 1..k : flushed[i] = new
    BY <2>1, <2>2
  <2>4. Flushed(u) = flushed
    BY <1>4, <2>1, <2>2 DEF Flushed
  <2>5. requests'[u] = requests[u] \o flushed
    BY <2>4 DEF CreateIframes
  <2>6. PICK list \in Seq(RequestRecord) : list = requests[u] /\ Len(list) \in Nat
    BY <1>2
  <2>7. /\ list \o flushed \in Seq(RequestRecord)
        /\ Len(list \o flushed) = Len(list) + k
        /\ \A i \in 1..Len(list) : (list \o flushed)[i] = list[i]
        /\ \A i \in (Len(list) + 1)..(Len(list) + k) :
             (list \o flushed)[i] = flushed[i - Len(list)]
    BY <2>3, <2>6
  <2>8. \A i \in 1..(Len(list) + k) :
          \/ i \in 1..Len(list)
          \/ i \in (Len(list) + 1)..(Len(list) + k) /\ i - Len(list) \in 1..k /\ i > Len(list)
    BY <2>1, <2>6
  <2>9. \A i \in 1..(Len(list) + k) :
          \/ i <= Len(list) /\ (list \o flushed)[i] = list[i]
          \/ i > Len(list) /\ (list \o flushed)[i] = new
    BY <2>3, <2>7, <2>8
  <2> QED
    BY <2>5, <2>6, <2>7, <2>9
<1> QED
  BY <1>2, <1>3, <1>5, <1>6, NothingSilenced

LEMMA RequestIsHeard ==
  ASSUME LateInv, JsonpInv', NEW t \in Types, NEW n \in DOMAIN requests[t], Request(t, n)
  PROVE  LateInv'
<1>1. JsonpTyped /\ CompletedAnswered /\ n \in 1..Len(requests[t])
  BY LenProperties DEF LateInv, JsonpInv, JsonpTyped
<1>2. \A u \in Types : Len(answers[u]) \in Nat /\ Len(requests[u]) \in Nat
  BY <1>1, LenProperties DEF JsonpTyped
<1>3. PICK old \in RequestRecord : old = requests[t][n] /\ old.at = "timer"
  BY <1>1, ElementOfSeq DEF JsonpTyped, Request
<1>4. PICK new \in RequestRecord : /\ new = [old EXCEPT !.at = Placed]
                                   /\ new.completed = old.completed
                                   /\ new.ended = old.ended
  <2>1. [old EXCEPT !.at = Placed].ended = old.ended
    BY DEF RequestRecord
  <2> QED
    BY <2>1, RequestUpdated
<1>5. requests' = [requests EXCEPT ![t] = [@ EXCEPT ![n] = new]]
  BY <1>3, <1>4 DEF Request
<1>6. UNCHANGED <<aborted, answers>> /\ handlers' = [handlers EXCEPT ![t] = @ \cup {n}]
  BY DEF Request
<1>7. /\ n \in handlers'[t]
      /\ \A u \in Types : handlers[u] \subseteq handlers'[u]
  BY <1>1, <1>6 DEF JsonpTyped
<1>8. new.completed => n <= Len(answers'[t])
  BY <1>1, <1>3, <1>4, <1>6 DEF CompletedAnswered
<1>9. \A u \in Types : Len(answers'[u]) >= Len(answers[u])
  BY <1>2, <1>6
<1> QED
  BY <1>1, <1>3, <1>4, <1>5, <1>6, <1>7, <1>8, <1>9, OneMovesOn

LEMMA ScriptIsHeard ==
  ASSUME LateInv, JsonpInv', NEW t \in Types, NEW n \in DOMAIN requests[t], Browser(t, n)
  PROVE  LateInv'
<1>1. /\ JsonpTyped /\ AskedOneByOne /\ AnsweredSettled /\ n \in 1..Len(requests[t])
      /\ JsonpTyped' /\ AskedOneByOne'
  BY LenProperties DEF LateInv, JsonpInv, JsonpTyped
<1>2. \A u \in Types : Len(answers[u]) \in Nat /\ Len(requests[u]) \in Nat
  BY <1>1, LenProperties DEF JsonpTyped
<1>3. PICK old \in RequestRecord : /\ old = requests[t][n] /\ old.at = "sent" /\ ~old.loaded
                                   /\ ~old.completed
  BY <1>1, ElementOfSeq DEF JsonpTyped, Browser, ScriptRuns, ScriptFails, AnsweredSettled
<1>4. UNCHANGED <<aborted, handlers>>
  BY DEF Browser, ScriptRuns, ScriptFails
<1>5. CASE ScriptRuns(t, n) /\ n \in handlers[t]
  <2>1. PICK new \in RequestRecord : /\ new = [old EXCEPT !.loaded = TRUE, !.completed = TRUE]
                                     /\ new.ended = old.ended
    <3>1. [old EXCEPT !.loaded = TRUE, !.completed = TRUE].ended = old.ended
      BY DEF RequestRecord
    <3> QED
      BY <3>1, RequestUpdated
  <2>2. requests' = [requests EXCEPT ![t] = [@ EXCEPT ![n] = new]]
    BY <1>3, <1>5, <2>1 DEF ScriptRuns, Completed
  <2>3. [id |-> n, ok |-> TRUE] \in [id : Nat, ok : BOOLEAN]
    BY <1>1, <1>2
  <2>4. PICK entry \in [id : Nat, ok : BOOLEAN] : entry = [id |-> n, ok |-> TRUE]
    BY <2>3
  <2>5. answers' = [answers EXCEPT ![t] = Append(@, entry)]
    BY <1>5, <2>4 DEF ScriptRuns, Answer
  <2>6. /\ answers'[t] = Append(answers[t], entry)
        /\ \A u \in Types : u # t => answers'[u] = answers[u]
    BY <1>1, <2>5 DEF JsonpTyped
  <2>7. /\ answers[t] \in Seq([id : Nat, ok : BOOLEAN])
        /\ answers'[t] \in Seq([id : Nat, ok : BOOLEAN])
    BY <1>1 DEF JsonpTyped
  <2>8. /\ Len(answers'[t]) = Len(answers[t]) + 1
        /\ answers'[t][Len(answers[t]) + 1] = entry
    BY <2>6, <2>7
  <2>9. n = Len(answers'[t])
    BY <1>1, <1>2, <2>4, <2>8 DEF AskedOneByOne
  <2> QED
    <3>1. \A u \in Types : Len(answers'[u]) >= Len(answers[u])
      BY <1>2, <2>6, <2>8
    <3>2. \A u \in Types : handlers[u] \subseteq handlers'[u]
      BY <1>4
    <3>3. n <= Len(answers'[t])
      BY <1>1, <1>2, <2>9
    <3>4. ~requests[t][n].completed /\ (requests[t][n].ended => new.ended)
      BY <1>3, <2>1
    <3> QED
      BY <1>1, <1>4, <2>2, <3>1, <3>2, <3>3, <3>4, OneMovesOn
<1>6. CASE ScriptFails(t, n) \/ (ScriptRuns(t, n) /\ n \notin handlers[t])
  <2>1. PICK new \in RequestRecord : /\ new = [old EXCEPT !.loaded = TRUE]
                                     /\ new.at = old.at
                                     /\ new.completed = old.completed
                                     /\ new.ended = old.ended
    BY RequestUpdated
  <2>2. requests' = [requests EXCEPT ![t] = [@ EXCEPT ![n] = new]] /\ UNCHANGED answers
    BY <1>3, <1>6, <2>1 DEF ScriptRuns, ScriptFails
  <2>3. \A u \in Types : /\ Len(answers'[u]) >= Len(answers[u])
                         /\ handlers[u] \subseteq handlers'[u]
    BY <1>2, <1>4, <2>2
  <2>4. /\ ~new.completed /\ ~requests[t][n].completed
        /\ requests[t][n].ended => new.ended
        /\ new.at = requests[t][n].at
    BY <1>3, <2>1
  <2> QED
    BY <1>1, <1>4, <2>2, <2>3, <2>4, OneMovesOn
<1> QED
  BY <1>5, <1>6 DEF Browser, ScriptRuns

(* The callbacks that go are those of the latest request.  If it is this   *)
(* one, it was answered, before or now; if it is a newer one, this one had *)
(* its answer and comes late.                                              *)
LEMMA EndsIsHeard ==
  ASSUME LateInv, JsonpInv', NEW t \in Types, NEW n \in DOMAIN requests[t], Ends(t, n)
  PROVE  LateInv'
<1>1. /\ JsonpTyped /\ AskedOneByOne /\ AnsweredSettled /\ n \in 1..Len(requests[t])
      /\ JsonpTyped' /\ AskedOneByOne' /\ CompletedAnswered /\ SilencedByLateEnd
  BY LenProperties DEF LateInv, JsonpInv, JsonpTyped
<1>2. \A u \in Types : /\ Len(answers[u]) \in Nat /\ Len(requests[u]) \in Nat
                       /\ Len(answers'[u]) \in Nat
                       /\ DOMAIN requests[u] = 1..Len(requests[u])
  BY <1>1, LenProperties DEF JsonpTyped
<1>3. PICK old \in RequestRecord : old = requests[t][n] /\ old.at = "sent"
  BY <1>1, ElementOfSeq DEF JsonpTyped, Ends
<1>4. PICK new \in RequestRecord : /\ new = [old EXCEPT !.ended = TRUE]
                                   /\ new.at = old.at /\ new.ended
                                   /\ new.completed = old.completed
  BY RequestUpdated
<1>5. requests' = [requests EXCEPT ![t] = [@ EXCEPT ![n] = new]]
  BY <1>3, <1>4 DEF Ends
<1>6. /\ requests'[t][n] = new
      /\ \A u \in Types : Len(requests'[u]) = Len(requests[u])
      /\ \A u \in Types : \A m \in 1..Len(requests[u]) :
           u # t \/ m # n => requests'[u][m] = requests[u][m]
  BY <1>1, <1>5, RequestChanged DEF JsonpTyped
<1>7. UNCHANGED aborted
  BY DEF Ends
<1>8. CASE UNCHANGED <<handlers, answers>>
  <2>1. \A u \in Types : /\ Len(answers'[u]) >= Len(answers[u])
                         /\ handlers[u] \subseteq handlers'[u]
    BY <1>2, <1>8
  <2>2. new.completed => n <= Len(answers'[t])
    BY <1>1, <1>3, <1>4, <1>8 DEF CompletedAnswered
  <2>3. /\ requests[t][n].completed => new.completed
        /\ requests[t][n].ended => new.ended
        /\ new.at = requests[t][n].at
    BY <1>3, <1>4
  <2> QED
    BY <1>1, <1>5, <1>7, <2>1, <2>2, <2>3, OneMovesOn
<1>9. CASE handlers' = Cleaned(t, handlers) /\ (old.completed \/ Len(answers'[t]) = cbId[t])
           /\ \A u \in Types : Len(answers'[u]) >= Len(answers[u])
  <2>1. /\ \A u \in Types : u # t => handlers'[u] = handlers[u]
        /\ handlers'[t] = handlers[t] \ {cbId[t]}
    BY <1>1, <1>9 DEF Cleaned, JsonpTyped
  <2>2. \A u \in Types : \A m \in 1..Len(requests[u]) :
          /\ requests'[u][m].at = requests[u][m].at
          /\ requests'[u][m].completed = requests[u][m].completed
          /\ requests[u][m].ended => requests'[u][m].ended
    BY <1>3, <1>4, <1>6
  <2>3. CompletedAnswered'
    <3> SUFFICES ASSUME NEW u \in Types, NEW m \in 1..Len(requests[u]), requests'[u][m].completed
                 PROVE  m <= Len(answers'[u])
      BY <1>6 DEF CompletedAnswered
    <3>1. requests[u][m].completed
      BY <2>2
    <3>2. m <= Len(answers[u]) /\ Len(answers'[u]) >= Len(answers[u])
      BY <1>1, <1>9, <3>1 DEF CompletedAnswered
    <3> QED
      BY <1>2, <3>2
  <2>4. SilencedByLateEnd'
    <3> SUFFICES ASSUME ~aborted, NEW u \in Types, NEW k \in 1..Len(requests[u]), Silent(u, k)'
                 PROVE  \E m \in 1..(k - 1) : requests'[u][m].completed /\ requests'[u][m].ended
      <4>1. \A u \in Types : DOMAIN requests'[u] = 1..Len(requests[u])
        BY <1>1, <1>6, LenProperties DEF JsonpTyped
      <4> QED
        BY <1>7, <4>1 DEF SilencedByLateEnd
    <3>1. requests[u][k].at = "sent" /\ k \notin handlers'[u] /\ k > Len(answers'[u])
      BY <2>2 DEF Silent
    <3>2. k > Len(answers[u])
      BY <1>2, <1>9, <3>1
    <3>3. CASE k \notin handlers[u]
      <4>1. Silent(u, k)
        BY <3>1, <3>2, <3>3 DEF Silent
      <4>2. PICK m \in 1..(k - 1) : requests[u][m].completed /\ requests[u][m].ended
        BY <1>1, <1>2, <4>1 DEF SilencedByLateEnd
      <4>3. m \in 1..Len(requests[u])
        BY <1>2, <4>2
      <4> QED
        BY <2>2, <4>2, <4>3
    <3>4. CASE k \in handlers[u]
      <4>1. u = t /\ k = cbId[t]
        BY <2>1, <3>1, <3>4
      <4>2. old.completed
        BY <1>2, <1>9, <3>1, <4>1
      <4>3. n <= Len(answers[t])
        BY <1>1, <1>3, <4>2 DEF CompletedAnswered
      <4>4. n \in 1..(k - 1)
        BY <1>1, <1>2, <3>2, <4>1, <4>3
      <4> QED
        BY <1>4, <1>6, <4>1, <4>2, <4>4
    <3> QED
      BY <3>3, <3>4
  <2> QED
    BY <2>3, <2>4 DEF LateInv
<1>10. CASE handlers' = Cleaned(t, handlers) /\ ~old.completed /\ Answer(t, n, FALSE)
  <2>0. [id |-> n, ok |-> FALSE] \in [id : Nat, ok : BOOLEAN]
    BY <1>1, <1>2
  <2>1. PICK entry \in [id : Nat, ok : BOOLEAN] : entry = [id |-> n, ok |-> FALSE]
    BY <2>0
  <2>2. answers' = [answers EXCEPT ![t] = Append(@, entry)]
    BY <1>10, <2>1 DEF Answer
  <2>3. /\ answers'[t] = Append(answers[t], entry)
        /\ \A u \in Types : u # t => answers'[u] = answers[u]
    BY <1>1, <2>2 DEF JsonpTyped
  <2>4. /\ answers[t] \in Seq([id : Nat, ok : BOOLEAN])
        /\ answers'[t] \in Seq([id : Nat, ok : BOOLEAN])
    BY <1>1 DEF JsonpTyped
  <2>5. /\ Len(answers'[t]) = Len(answers[t]) + 1
        /\ answers'[t][Len(answers[t]) + 1] = entry
    BY <2>3, <2>4
  <2>6. \A u \in Types : Len(answers'[u]) >= Len(answers[u])
    BY <1>2, <2>3, <2>5
  <2>7. /\ cbId[t] = Len(requests[t]) /\ Len(answers'[t]) <= Len(requests'[t])
        /\ Made(t) <= Len(answers[t]) + 1
    BY <1>1 DEF AskedOneByOne
  <2>8. Made(t) = Len(requests[t]) + Waiting(t) /\ Waiting(t) \in Nat
    BY <1>1, WaitingCounts DEF Made
  <2>9. Len(answers'[t]) = cbId[t]
    BY <1>1, <1>2, <1>6, <2>5, <2>7, <2>8
  <2> QED
    BY <1>9, <1>10, <2>6, <2>9
<1>11. CASE handlers' = Cleaned(t, handlers) /\ old.completed /\ UNCHANGED answers
  BY <1>2, <1>9, <1>11
<1> QED
  BY <1>3, <1>8, <1>10, <1>11 DEF Ends

(* The only thing that takes the callbacks of an unheard request is a late *)
(* error script of an older one that was answered (cleanupIframe).         *)
THEOREM OnlyLateEndsSilence == JsonpSpec => []SilencedByLateEnd
<1>1. JsonpInit => LateInv
  <2> SUFFICES ASSUME JsonpInit PROVE LateInv
    OBVIOUS
  <2>1. \A t \in Types : Len(requests[t]) = 0 /\ DOMAIN requests[t] = {}
    BY DEF JsonpInit
  <2> QED
    BY <2>1, JsonpBegins DEF LateInv, CompletedAnswered, SilencedByLateEnd
<1>2. LateInv /\ [JsonpNext]_jsonpVars => LateInv'
  <2> SUFFICES ASSUME LateInv, [JsonpNext]_jsonpVars PROVE LateInv'
    OBVIOUS
  <2>1. JsonpInv'
    BY JsonpStep DEF LateInv
  <2>2. \A t \in Types : Len(answers[t]) \in Nat
    BY LenProperties DEF LateInv, JsonpInv, JsonpTyped
  <2>3. CASE UNCHANGED <<aborted, handlers, requests, answers>>
    BY <2>1, <2>2, <2>3, NothingSilenced
  <2>4. CASE aborted' /\ UNCHANGED <<requests, answers>>
    BY <2>1, <2>4 DEF LateInv, CompletedAnswered, SilencedByLateEnd
  <2> QED
    BY <2>1, <2>3, <2>4, MakeRequestIsHeard, CreateIframesIsHeard, RequestIsHeard,
       ScriptIsHeard, EndsIsHeard
    DEF JsonpNext, jsonpVars, BodyAppears, Abort
<1>3. LateInv => SilencedByLateEnd
  BY DEF LateInv
<1> QED
  BY <1>1, <1>2, <1>3, PTL DEF JsonpSpec

(* The session hears once of each request, of the one it waits for         *)
(* (net/csp/transports.js, onSuccess and checkForError).                   *)
THEOREM RequestsHeardOnce == JsonpSpec => []AnsweredInOrder
<1>1. JsonpInv => AnsweredInOrder
  <2> SUFFICES ASSUME JsonpInv, NEW t \in Types
               PROVE  /\ Len(answers[t]) =< Made(t)
                      /\ \A i \in DOMAIN answers[t] : answers[t][i].id = i
    BY DEF AnsweredInOrder
  <2>1. /\ answers[t] \in Seq([id : Nat, ok : BOOLEAN]) /\ Len(requests[t]) \in Nat
        /\ Waiting(t) \in Nat
    BY LenProperties, WaitingCounts DEF JsonpInv, JsonpTyped
  <2>2. DOMAIN answers[t] = 1..Len(answers[t]) /\ Len(answers[t]) \in Nat
    BY <2>1, LenProperties
  <2>3. /\ Len(answers[t]) <= Len(requests[t])
        /\ \A i \in 1..Len(answers[t]) : answers[t][i].id = i
    BY DEF JsonpInv, AskedOneByOne
  <2> QED
    BY <2>1, <2>2, <2>3 DEF Made
<1> QED
  BY <1>1, JsonpBegins, JsonpStep, PTL DEF JsonpSpec

---------------------------------------------------------------------------
(* MsppProtocol *)

FrameRecord ==
  [id : Nat, type : {OPEN, CLOSE, DATA}, data : {<<>>, <<"h">>, <<"x">>}]

MsppTyped ==
  /\ state \in {"closed", "connecting", "consuming"}
  /\ currentId \in Nat
  /\ writeBuffer \in Seq(FrameRecord) /\ up \in Seq(FrameRecord)
  /\ fresh \subseteq 1..currentId

\* Every frame is of a stream there is, and none is opened twice.
OpensOnce(list) ==
  \A i \in 1..Len(list) :
    /\ list[i].id \in 1..currentId
    /\ list[i].type = OPEN => \A j \in 1..Len(list) : list[j] = list[i] => j = i

\* These streams are opened, and before anything else of them.
AllOpened(list, ids) ==
  /\ \A id \in ids : \E j \in 1..Len(list) : list[j].id = id /\ list[j].type = OPEN
  /\ \A i \in 1..Len(list) :
       list[i].type # OPEN /\ list[i].id \in ids =>
         \E j \in 1..(i - 1) : list[j].id = list[i].id /\ list[j].type = OPEN

OpensFirst(list) == AllOpened(list, fresh)

MsppInv ==
  /\ MsppTyped
  /\ OpensOnce(writeBuffer) /\ OpensOnce(up)
  /\ IF state = "consuming" THEN OpensFirst(up) ELSE OpensFirst(writeBuffer)

LEMMA MsppBegins == MsppInit => MsppInv
<1> SUFFICES ASSUME MsppInit PROVE MsppInv
  OBVIOUS
<1>1. /\ state = "closed" /\ currentId = 0 /\ writeBuffer = <<>> /\ up = <<>>
      /\ fresh = {} /\ Len(writeBuffer) = 0 /\ Len(up) = 0
  BY DEF MsppInit
<1>2. MsppTyped
  BY <1>1 DEF MsppTyped
<1> QED
  BY <1>1, <1>2 DEF MsppInv, OpensOnce, OpensFirst, AllOpened

LEMMA OneMoreFrame ==
  ASSUME NEW list \in Seq(FrameRecord), NEW f \in FrameRecord
  PROVE  /\ Append(list, f) \in Seq(FrameRecord) /\ Len(list) \in Nat
         /\ Len(Append(list, f)) = Len(list) + 1
         /\ Append(list, f)[Len(list) + 1] = f
         /\ \A i \in 1..Len(list) : Append(list, f)[i] = list[i]
         /\ \A i \in 1..Len(Append(list, f)) : i \in 1..Len(list) \/ i = Len(list) + 1
BY LenProperties

LEMMA MadeFrame ==
  ASSUME NEW id \in Nat, NEW type \in {OPEN, CLOSE, DATA},
         NEW data \in {<<>>, <<"h">>, <<"x">>}
  PROVE  /\ Frame(id, type, data) \in FrameRecord
         /\ Frame(id, type, data).id = id /\ Frame(id, type, data).type = type
BY DEF Frame, FrameRecord

(* A frame of a stream there is, or one that opens the next. *)
LEMMA FrameWritten ==
  ASSUME MsppTyped, NEW list \in Seq(FrameRecord), OpensOnce(list),
         NEW f \in FrameRecord, currentId' \in Nat, currentId' >= currentId,
         NEW more, more = Append(list, f),
         \/ f.type = OPEN /\ f.id = currentId + 1 /\ currentId' = currentId + 1
         \/ f.type # OPEN /\ f.id \in 1..currentId'
  PROVE  /\ \A i \in 1..Len(more) :
              /\ more[i].id \in 1..currentId'
              /\ more[i].type = OPEN => \A j \in 1..Len(more) : more[j] = more[i] => j = i
         /\ more \in Seq(FrameRecord)
<1>1. /\ more \in Seq(FrameRecord) /\ Len(list) \in Nat /\ Len(more) = Len(list) + 1
      /\ more[Len(list) + 1] = f
      /\ \A i \in 1..Len(list) : more[i] = list[i]
      /\ \A i \in 1..Len(more) : i \in 1..Len(list) \/ i = Len(list) + 1
  BY OneMoreFrame
<1>2. currentId \in Nat
  BY DEF MsppTyped
<1>3. \A i \in 1..Len(list) : list[i].id \in 1..currentId /\ list[i].id \in 1..currentId'
  BY <1>2 DEF OpensOnce
<1>4. f.id \in 1..currentId'
  BY <1>2
<1>5. f.type = OPEN => \A i \in 1..Len(list) : list[i] # f
  BY <1>2, <1>3
<1>6. ASSUME NEW i \in 1..Len(more), more[i].type = OPEN,
             NEW j \in 1..Len(more), more[j] = more[i]
      PROVE  j = i
  <2>1. CASE i = Len(list) + 1 \/ j = Len(list) + 1
    BY <1>1, <1>5, <1>6, <2>1
  <2>2. CASE i # Len(list) + 1 /\ j # Len(list) + 1
    BY <1>1, <1>6, <2>2 DEF OpensOnce
  <2> QED
    BY <2>1, <2>2
<1>7. \A i \in 1..Len(more) : more[i].id \in 1..currentId'
  BY <1>1, <1>3, <1>4
<1> QED
  BY <1>1, <1>6, <1>7

(* The same of the streams that are fresh. *)
LEMMA FreshWritten ==
  ASSUME MsppTyped, NEW list \in Seq(FrameRecord), OpensOnce(list), AllOpened(list, fresh),
         NEW f \in FrameRecord, NEW more, more = Append(list, f),
         f.type = OPEN => f.id = currentId + 1,
         \A id \in fresh' : id \in fresh \/ (f.type = OPEN /\ id = f.id)
  PROVE  AllOpened(more, fresh')
<1>1. /\ more \in Seq(FrameRecord) /\ Len(list) \in Nat /\ Len(more) = Len(list) + 1
      /\ more[Len(list) + 1] = f
      /\ \A i \in 1..Len(list) : more[i] = list[i]
      /\ \A i \in 1..Len(more) : i \in 1..Len(list) \/ i = Len(list) + 1
  BY OneMoreFrame
<1>2. currentId \in Nat /\ fresh \subseteq 1..currentId
  BY DEF MsppTyped
<1>3. \A i \in 1..Len(list) : list[i].id \in 1..currentId
  BY DEF OpensOnce
<1>4. ASSUME NEW id \in fresh'
      PROVE  \E j \in 1..Len(more) : more[j].id = id /\ more[j].type = OPEN
  <2>1. CASE id \in fresh
    <3>1. PICK j \in 1..Len(list) : list[j].id = id /\ list[j].type = OPEN
      BY <2>1 DEF AllOpened
    <3>2. j \in 1..Len(more)
      BY <1>1
    <3> QED
      BY <1>1, <3>1, <3>2
  <2>2. CASE id \notin fresh
    <3>1. f.type = OPEN /\ f.id = id /\ Len(list) + 1 \in 1..Len(more)
      BY <1>1, <1>4, <2>2
    <3> QED
      BY <1>1, <3>1
  <2> QED
    BY <2>1, <2>2
<1>5. ASSUME NEW i \in 1..Len(more), more[i].type # OPEN, more[i].id \in fresh'
      PROVE  \E j \in 1..(i - 1) : more[j].id = more[i].id /\ more[j].type = OPEN
  <2>1. CASE i \in 1..Len(list)
    <3>1. more[i] = list[i] /\ list[i].id # currentId + 1
      BY <1>1, <1>2, <1>3, <2>1
    <3>2. list[i].id \in fresh
      BY <1>5, <3>1
    <3>3. PICK j \in 1..(i - 1) : list[j].id = list[i].id /\ list[j].type = OPEN
      BY <1>5, <2>1, <3>1, <3>2 DEF AllOpened
    <3>4. j \in 1..Len(list)
      BY <1>1, <2>1
    <3> QED
      BY <1>1, <3>1, <3>3, <3>4
  <2>2. CASE i = Len(list) + 1
    <3>1. f.type # OPEN /\ f.id \in fresh
      BY <1>1, <1>5, <2>2
    <3>2. PICK j \in 1..Len(list) : list[j].id = f.id /\ list[j].type = OPEN
      BY <3>1 DEF AllOpened
    <3>3. j \in 1..(i - 1)
      BY <1>1, <2>2
    <3> QED
      BY <1>1, <2>2, <3>2, <3>3
  <2> QED
    BY <1>1, <2>1, <2>2
<1> QED
  BY <1>4, <1>5 DEF AllOpened

(* openStream, writeToStream and closeStream *)
LEMMA WritesKeep ==
  ASSUME MsppInv, NEW f \in FrameRecord, WriteFrame(f),
         currentId' \in Nat, currentId' >= currentId, fresh' \subseteq 1..currentId',
         \/ /\ f.type = OPEN /\ f.id = currentId + 1 /\ currentId' = currentId + 1
            /\ fresh' = fresh \cup {f.id}
         \/ f.type # OPEN /\ f.id \in 1..currentId' /\ fresh' = fresh,
         \/ state' = state
         \/ state' = "connecting" /\ state = "closed"
  PROVE  MsppInv'
<1>1. /\ MsppTyped /\ OpensOnce(writeBuffer) /\ OpensOnce(up)
      /\ writeBuffer \in Seq(FrameRecord) /\ up \in Seq(FrameRecord)
      /\ currentId \in Nat
  BY DEF MsppInv, MsppTyped
<1>2. state' \in {"closed", "connecting", "consuming"}
      /\ (state' = "consuming" <=> state = "consuming")
  BY <1>1 DEF MsppTyped
<1>3. ASSUME NEW list \in Seq(FrameRecord), OpensOnce(list)
      PROVE  \A i \in 1..Len(list) :
               /\ list[i].id \in 1..currentId'
               /\ list[i].type = OPEN => \A j \in 1..Len(list) : list[j] = list[i] => j = i
  BY <1>1, <1>3 DEF OpensOnce
<1>4. CASE state = "consuming"
  <2>1. up' = Append(up, f) /\ writeBuffer' = writeBuffer /\ OpensFirst(up)
    BY <1>4 DEF WriteFrame, MsppInv
  <2>2. OpensOnce(up)' /\ up' \in Seq(FrameRecord)
    BY <1>1, <2>1, FrameWritten DEF OpensOnce
  <2>3. OpensFirst(up)'
    <3>1. PICK more : more = up'
      OBVIOUS
    <3>2. /\ MsppTyped /\ OpensOnce(up) /\ OpensFirst(up)
          /\ more = Append(up, f)
          /\ f.type = OPEN => f.id = currentId + 1
          /\ \A id \in fresh' : id \in fresh \/ (f.type = OPEN /\ id = f.id)
      BY <1>1, <2>1, <3>1
    <3>3. AllOpened(more, fresh')
      BY <1>1, <3>2, FreshWritten DEF OpensFirst
    <3> QED
      BY <3>1, <3>3 DEF OpensFirst
  <2>4. OpensOnce(writeBuffer)'
    BY <1>1, <1>3, <2>1 DEF OpensOnce
  <2>5. MsppTyped'
    BY <1>1, <1>2, <2>1, <2>2 DEF MsppTyped
  <2> QED
    BY <1>2, <1>4, <2>2, <2>3, <2>4, <2>5 DEF MsppInv
<1>5. CASE state # "consuming"
  <2>1. writeBuffer' = Append(writeBuffer, f) /\ up' = up /\ OpensFirst(writeBuffer)
    BY <1>5 DEF WriteFrame, MsppInv
  <2>2. OpensOnce(writeBuffer)' /\ writeBuffer' \in Seq(FrameRecord)
    BY <1>1, <2>1, FrameWritten DEF OpensOnce
  <2>3. OpensFirst(writeBuffer)'
    <3>1. PICK more : more = writeBuffer'
      OBVIOUS
    <3>2. /\ MsppTyped /\ OpensOnce(writeBuffer) /\ OpensFirst(writeBuffer)
          /\ more = Append(writeBuffer, f)
          /\ f.type = OPEN => f.id = currentId + 1
          /\ \A id \in fresh' : id \in fresh \/ (f.type = OPEN /\ id = f.id)
      BY <1>1, <2>1, <3>1
    <3>3. AllOpened(more, fresh')
      BY <1>1, <3>2, FreshWritten DEF OpensFirst
    <3> QED
      BY <3>1, <3>3 DEF OpensFirst
  <2>4. OpensOnce(up)'
    BY <1>1, <1>3, <2>1 DEF OpensOnce
  <2>5. MsppTyped'
    BY <1>1, <1>2, <2>1, <2>2 DEF MsppTyped
  <2> QED
    BY <1>2, <1>5, <2>2, <2>3, <2>4, <2>5 DEF MsppInv
<1> QED
  BY <1>4, <1>5

LEMMA MsppStep == MsppInv /\ [MsppNext]_msppVars => MsppInv'
<1> SUFFICES ASSUME MsppInv, [MsppNext]_msppVars PROVE MsppInv'
  OBVIOUS
<1>1. /\ MsppTyped /\ OpensOnce(writeBuffer) /\ OpensOnce(up)
      /\ currentId \in Nat /\ fresh \subseteq 1..currentId
  BY DEF MsppInv, MsppTyped
<1>2. CASE OpenStream
  <2>1. /\ currentId' = currentId + 1 /\ fresh' = fresh \cup {currentId + 1}
        /\ state' = IF state = "closed" THEN "connecting" ELSE state
        /\ WriteFrame(Frame(currentId', OPEN, <<"h">>))
    BY <1>2 DEF OpenStream
  <2>2. PICK f \in FrameRecord : /\ f = Frame(currentId', OPEN, <<"h">>)
                                 /\ f.id = currentId + 1 /\ f.type = OPEN
    <3>1. PICK id \in Nat : id = currentId' /\ id = currentId + 1
      BY <1>1, <2>1
    <3> QED
      BY <3>1, MadeFrame
  <2>3. WriteFrame(f)
    BY <2>1, <2>2
  <2>4. /\ currentId' \in Nat /\ currentId' >= currentId
        /\ fresh' \subseteq 1..currentId'
    BY <1>1, <2>1
  <2> QED
    BY <2>1, <2>2, <2>3, <2>4, WritesKeep
<1>3. ASSUME NEW id \in 1..currentId, NEW type \in {CLOSE, DATA}, StreamWrites(id, type)
      PROVE  MsppInv'
  <2>1. PICK data \in {<<>>, <<"h">>, <<"x">>} :
          data = IF type = DATA THEN <<"x">> ELSE <<>>
    OBVIOUS
  <2>2. PICK f \in FrameRecord : /\ f = Frame(id, type, data)
                                 /\ f.id = id /\ f.type = type
    BY <1>1, MadeFrame
  <2>3. WriteFrame(f) /\ UNCHANGED <<state, currentId, fresh>>
    BY <1>3, <2>1, <2>2 DEF StreamWrites
  <2>4. f.type # OPEN
    BY <2>2 DEF OPEN, CLOSE, DATA
  <2>5. f.id \in 1..currentId' /\ currentId' >= currentId /\ fresh' \subseteq 1..currentId'
        /\ currentId' \in Nat
    BY <1>1, <2>2, <2>3
  <2> QED
    BY <2>2, <2>3, <2>4, <2>5, WritesKeep
<1>4. CASE ConnectionMade
  <2>1. /\ state = "connecting" /\ state' = "consuming" /\ up' = writeBuffer
        /\ UNCHANGED <<currentId, writeBuffer, fresh>>
    BY <1>4 DEF ConnectionMade, Flush
  <2>2. OpensFirst(writeBuffer)
    BY <2>1 DEF MsppInv
  <2>3. MsppTyped'
    BY <1>1, <2>1 DEF MsppTyped
  <2>4. OpensOnce(up)' /\ OpensOnce(writeBuffer)' /\ OpensFirst(up)'
    BY <1>1, <2>1, <2>2 DEF OpensOnce, OpensFirst
  <2> QED
    BY <2>1, <2>3, <2>4 DEF MsppInv
<1>5. CASE ConnectionLost
  <2>1. /\ state' = "closed" /\ fresh' = {} /\ up' = <<>> /\ Len(up') = 0
        /\ UNCHANGED <<currentId, writeBuffer>>
    BY <1>5 DEF ConnectionLost
  <2>2. MsppTyped'
    BY <1>1, <2>1 DEF MsppTyped
  <2>3. OpensOnce(up)' /\ OpensOnce(writeBuffer)' /\ OpensFirst(writeBuffer)'
    BY <1>1, <2>1 DEF OpensOnce, OpensFirst, AllOpened
  <2> QED
    BY <2>1, <2>2, <2>3 DEF MsppInv
<1>6. ASSUME UNCHANGED <<state, currentId, writeBuffer, fresh, up>> PROVE MsppInv'
  BY <1>6 DEF MsppInv, MsppTyped, OpensOnce, OpensFirst
<1>7. CASE UNCHANGED msppVars
  BY <1>6, <1>7 DEF msppVars
<1>8. ASSUME NEW id \in 1..currentId, NEW a \in Answers, PeerSends(id, a) PROVE MsppInv'
  BY <1>6, <1>8 DEF PeerSends
<1>9. ASSUME NEW n \in 1..Len(wire), DataReceived(n) PROVE MsppInv'
  BY <1>6, <1>9 DEF DataReceived
<1> QED
  BY <1>2, <1>3, <1>4, <1>5, <1>7, <1>8, <1>9 DEF MsppNext

(* On every connection a stream is opened at most once, and before it is   *)
(* used (net/protocols/mspp.js, openStream, _write and connectionMade).    *)
THEOREM StreamsAreOpened == MsppSpec => []OpenedOnceBeforeUse
<1>1. MsppInv => OpenedOnceBeforeUse
  <2> SUFFICES ASSUME MsppInv, state = "consuming", NEW i \in DOMAIN up
               PROVE  /\ up[i].type = OPEN => \A j \in DOMAIN up : up[j] = up[i] => j = i
                      /\ (up[i].type # OPEN /\ up[i].id \in fresh)
                           => \E j \in 1..(i - 1) : up[j].id = up[i].id /\ up[j].type = OPEN
    BY DEF OpenedOnceBeforeUse
  <2>1. DOMAIN up = 1..Len(up)
    BY LenProperties DEF MsppInv, MsppTyped
  <2> QED
    BY <2>1 DEF MsppInv, OpensOnce, OpensFirst, AllOpened
<1> QED
  BY <1>1, MsppBegins, MsppStep, PTL DEF MsppSpec

---------------------------------------------------------------------------
(* Windows *)

MessageRecord == [type : {"open", "data", "close"}, from : Nat, n : Nat]

ClientRecord ==
  [asked : BOOLEAN, transport : BOOLEAN, made : Nat, lost : Nat, wrote : Nat,
   closes : Nat, got : Seq(MessageRecord)]

ServerRecord ==
  [of : Nat, lost : Nat, threw : BOOLEAN, wrote : Nat, closes : Nat,
   got : Seq(MessageRecord)]

WindowsTyped ==
  /\ document \in Nat
  /\ client \in ClientRecord
  /\ servers \in Seq(ServerRecord)
  /\ target = Nobody \/ target \in 1..Len(servers)
  /\ toServer \in Seq(MessageRecord) /\ toClient \in Seq(MessageRecord)

\* A Connector that was not asked to connect has done nothing.
AskedFirst ==
  ~client.asked => ~client.transport /\ client.wrote = 0

(* The n of a message is how much its document had written when it was     *)
(* posted, so that it tells, with from, what may be posted next.           *)
Follows(m, from, n) ==
  \/ m.type = "open"
  \/ m.type = "data" /\ m.from = from /\ m.n = n + 1
  \/ m.type = "close" /\ m.from = from /\ m.n = n

PostedInOrder ==
  /\ \A i \in 1..Len(toServer) : toServer[i].type = "open" => toServer[i].n = 0
  /\ \A i \in 1..Len(toServer) : \A j \in 1..Len(toServer) :
       j = i + 1 => Follows(toServer[j], toServer[i].from, toServer[i].n)

\* The last message is the last that the document in the window has posted.
LatestIsLast ==
  toServer # <<>> /\ client.asked =>
    /\ toServer[Len(toServer)].from = document
    /\ toServer[Len(toServer)].n = client.wrote

(* The protocol that the Listener delivers to has heard all that went      *)
(* before the messages on their way.                                       *)
TargetHears ==
  target # Nobody =>
    /\ servers[target].lost = 0 \/ servers[target].threw
    /\ servers[target].got =
         [i \in 1..Len(servers[target].got) |-> Message("data", servers[target].of, i)]
    /\ toServer # <<>> =>
         Follows(Head(toServer), servers[target].of, Len(servers[target].got))
    /\ toServer = <<>> /\ client.asked =>
         servers[target].of = document /\ Len(servers[target].got) = client.wrote

WindowsInv ==
  WindowsTyped /\ AskedFirst /\ PostedInOrder /\ LatestIsLast /\ TargetHears

LEMMA WindowsBegin == WindowsInit => WindowsInv
<1> SUFFICES ASSUME WindowsInit PROVE WindowsInv
  OBVIOUS
<1>1. /\ document = 1 /\ client = NewClient /\ target = Nobody
      /\ servers = <<>> /\ toServer = <<>> /\ toClient = <<>> /\ Len(toServer) = 0
  BY DEF WindowsInit
<1>2. NewClient \in ClientRecord /\ ~NewClient.transport /\ NewClient.wrote = 0
  BY DEF NewClient, ClientRecord
<1>3. WindowsTyped
  BY <1>1, <1>2 DEF WindowsTyped
<1>4. AskedFirst
  BY <1>1, <1>2 DEF AskedFirst
<1>5. PostedInOrder /\ LatestIsLast
  BY <1>1 DEF PostedInOrder, LatestIsLast
<1>6. TargetHears
  BY <1>1 DEF TargetHears
<1> QED
  BY <1>3, <1>4, <1>5, <1>6 DEF WindowsInv

LEMMA MadeMessage ==
  ASSUME NEW type \in {"open", "data", "close"}, NEW from \in Nat, NEW n \in Nat
  PROVE  /\ Message(type, from, n) \in MessageRecord
         /\ Message(type, from, n).type = type
         /\ Message(type, from, n).from = from /\ Message(type, from, n).n = n
BY DEF Message, MessageRecord

LEMMA OneMoreMessage ==
  ASSUME NEW list \in Seq(MessageRecord), NEW m \in MessageRecord
  PROVE  /\ Append(list, m) \in Seq(MessageRecord) /\ Append(list, m) # <<>>
         /\ Len(list) \in Nat /\ Len(Append(list, m)) = Len(list) + 1
         /\ Append(list, m)[Len(list) + 1] = m
         /\ \A i \in 1..Len(list) : Append(list, m)[i] = list[i]
         /\ \A i \in 1..Len(Append(list, m)) : i \in 1..Len(list) \/ i = Len(list) + 1
         /\ Head(Append(list, m)) = IF list = <<>> THEN m ELSE Head(list)
<1>1. list = <<>> \/ Len(list) >= 1
  BY EmptySeq, LenProperties
<1> QED
  BY <1>1, LenProperties

(* A message that follows what its document has posted, and that document  *)
(* is the one in the window.                                               *)
LEMMA MessagePosted ==
  ASSUME WindowsInv, client \in ClientRecord, NEW m \in MessageRecord,
         toServer' = Append(toServer, m), UNCHANGED <<document, target, servers>>,
         m.type = "open" => m.n = 0,
         client.asked => Follows(m, document, client.wrote),
         ~client.asked => m.type = "open",
         m.from = document, m.n = client'.wrote
  PROVE  /\ toServer' \in Seq(MessageRecord)
         /\ PostedInOrder' /\ LatestIsLast' /\ TargetHears'
<1>1. toServer \in Seq(MessageRecord) /\ PostedInOrder /\ LatestIsLast /\ TargetHears
  BY DEF WindowsInv, WindowsTyped
<1>2. PICK more \in Seq(MessageRecord) : more = Append(toServer, m)
  BY <1>1, OneMoreMessage
<1>3. /\ Len(toServer) \in Nat /\ Len(more) = Len(toServer) + 1 /\ more # <<>>
      /\ more[Len(toServer) + 1] = m
      /\ \A i \in 1..Len(toServer) : more[i] = toServer[i]
      /\ \A i \in 1..Len(more) : i \in 1..Len(toServer) \/ i = Len(toServer) + 1
      /\ Head(more) = IF toServer = <<>> THEN m ELSE Head(toServer)
  BY <1>1, <1>2, OneMoreMessage
<1>4. Len(toServer) >= 1 =>
        Follows(m, toServer[Len(toServer)].from, toServer[Len(toServer)].n)
  <2>1. CASE client.asked
    BY <1>1, <2>1 DEF LatestIsLast
  <2>2. CASE ~client.asked
    BY <2>2 DEF Follows
  <2> QED
    BY <2>1, <2>2
<1>5. \A i \in 1..Len(more) : more[i].type = "open" => more[i].n = 0
  BY <1>1, <1>3 DEF PostedInOrder
<1>6. ASSUME NEW i \in 1..Len(more), NEW j \in 1..Len(more), j = i + 1
      PROVE  Follows(more[j], more[i].from, more[i].n)
  <2>1. i \in 1..Len(toServer)
    BY <1>3, <1>6
  <2>2. CASE j \in 1..Len(toServer)
    BY <1>1, <1>3, <1>6, <2>1, <2>2 DEF PostedInOrder
  <2>3. CASE j = Len(toServer) + 1
    BY <1>3, <1>4, <1>6, <2>1, <2>3
  <2> QED
    BY <1>3, <2>2, <2>3
<1>7. PostedInOrder'
  BY <1>2, <1>5, <1>6 DEF PostedInOrder
<1>8. LatestIsLast'
  BY <1>2, <1>3 DEF LatestIsLast
<1>9. ASSUME target # Nobody
      PROVE  Follows(Head(more), servers[target].of, Len(servers[target].got))
  <2>1. CASE toServer # <<>>
    BY <1>1, <1>3, <1>9, <2>1 DEF TargetHears
  <2>2. CASE toServer = <<>> /\ client.asked
    BY <1>1, <1>3, <1>9, <2>2 DEF TargetHears
  <2>3. CASE toServer = <<>> /\ ~client.asked
    BY <1>3, <2>3 DEF Follows
  <2> QED
    BY <2>1, <2>2, <2>3
<1>10. TargetHears'
  <2>1. toServer' # <<>> /\ Head(toServer') = Head(more)
    BY <1>2, <1>3
  <2>2. CASE target = Nobody
    BY <2>2 DEF TargetHears
  <2>3. CASE target # Nobody
    <3>1. /\ servers[target].lost = 0 \/ servers[target].threw
          /\ servers[target].got =
               [i \in 1..Len(servers[target].got) |-> Message("data", servers[target].of, i)]
      BY <1>1, <2>3 DEF TargetHears
    <3>2. Follows(Head(toServer'), servers[target].of, Len(servers[target].got))
      BY <1>9, <2>1, <2>3
    <3> QED
      BY <2>1, <3>1, <3>2 DEF TargetHears
  <2> QED
    BY <2>2, <2>3
<1> QED
  BY <1>2, <1>7, <1>8, <1>10

(* A message that the Listener takes. *)
LEMMA MessageTaken ==
  ASSUME WindowsInv, toServer # <<>>, toServer' = Tail(toServer),
         UNCHANGED <<document, client>>
  PROVE  /\ Head(toServer) \in MessageRecord /\ Head(toServer) = toServer[1]
         /\ Head(toServer).type = "open" => Head(toServer).n = 0
         /\ toServer' \in Seq(MessageRecord) /\ PostedInOrder' /\ LatestIsLast'
         /\ toServer' # <<>> =>
              Follows(Head(toServer'), Head(toServer).from, Head(toServer).n)
         /\ toServer' = <<>> /\ client.asked =>
              Head(toServer).from = document /\ Head(toServer).n = client.wrote
<1>1. toServer \in Seq(MessageRecord) /\ PostedInOrder /\ LatestIsLast
  BY DEF WindowsInv, WindowsTyped
<1>2. PICK rest \in Seq(MessageRecord) : rest = Tail(toServer)
  BY <1>1
<1>3. /\ Len(toServer) \in Nat /\ Len(toServer) >= 1 /\ Len(rest) = Len(toServer) - 1
      /\ Head(toServer) = toServer[1] /\ toServer[1] \in MessageRecord
      /\ \A i \in 1..Len(rest) : rest[i] = toServer[i + 1]
      /\ rest = <<>> => Len(toServer) = 1
      /\ rest # <<>> => Len(rest) >= 1 /\ Head(rest) = rest[1]
  <2>1. Len(toServer) \in Nat /\ Len(toServer) >= 1 /\ Len(rest) = Len(toServer) - 1
    BY <1>1, <1>2, LenProperties
  <2>2. Head(toServer) = toServer[1] /\ toServer[1] \in MessageRecord
    BY <1>1, <2>1
  <2>3. \A i \in 1..Len(rest) : rest[i] = toServer[i + 1]
    BY <1>1, <1>2, <2>1
  <2>4. rest = <<>> => Len(rest) = 0
    OBVIOUS
  <2>5. rest # <<>> => Len(rest) >= 1 /\ Head(rest) = rest[1]
    BY LenProperties
  <2> QED
    BY <2>1, <2>2, <2>3, <2>4, <2>5
<1>4. \A i \in 1..Len(rest) : rest[i].type = "open" => rest[i].n = 0
  BY <1>1, <1>3 DEF PostedInOrder
<1>5. ASSUME NEW i \in 1..Len(rest), NEW j \in 1..Len(rest), j = i + 1
      PROVE  Follows(rest[j], rest[i].from, rest[i].n)
  <2>1. i + 1 \in 1..Len(toServer) /\ j + 1 \in 1..Len(toServer) /\ j + 1 = (i + 1) + 1
    BY <1>3, <1>5
  <2>2. Follows(toServer[j + 1], toServer[i + 1].from, toServer[i + 1].n)
    BY <1>1, <2>1 DEF PostedInOrder
  <2> QED
    BY <1>3, <2>2
<1>6. PostedInOrder'
  BY <1>2, <1>4, <1>5 DEF PostedInOrder
<1>7. ASSUME rest # <<>> PROVE rest[Len(rest)] = toServer[Len(toServer)]
  BY <1>3, <1>7
<1>8. LatestIsLast'
  BY <1>1, <1>2, <1>7 DEF LatestIsLast
<1>9. ASSUME rest # <<>> PROVE Follows(Head(rest), Head(toServer).from, Head(toServer).n)
  <2>1. 1 \in 1..Len(toServer) /\ 2 \in 1..Len(toServer) /\ Head(rest) = toServer[2]
    BY <1>3, <1>9
  <2> QED
    BY <1>1, <1>3, <2>1 DEF PostedInOrder
<1>10. rest = <<>> /\ client.asked =>
         Head(toServer).from = document /\ Head(toServer).n = client.wrote
  BY <1>1, <1>3 DEF LatestIsLast
<1>11. Head(toServer).type = "open" => Head(toServer).n = 0
  BY <1>1, <1>3 DEF PostedInOrder
<1> QED
  BY <1>2, <1>3, <1>6, <1>8, <1>9, <1>10, <1>11

LEMMA ServerUpdated ==
  ASSUME NEW list \in Seq(ServerRecord), NEW p \in 1..Len(list), NEW new \in ServerRecord
  PROVE  /\ [list EXCEPT ![p] = new] \in Seq(ServerRecord)
         /\ Len([list EXCEPT ![p] = new]) = Len(list)
         /\ \A q \in 1..Len(list) :
              [list EXCEPT ![p] = new][q] = IF q = p THEN new ELSE list[q]
BY LenProperties

LEMMA ServerCalled ==
  ASSUME NEW s \in ServerRecord, NEW wrote \in Nat, NEW closes \in Nat, NEW lost \in Nat,
         NEW m \in MessageRecord
  PROVE  /\ [s EXCEPT !.wrote = wrote] \in ServerRecord
         /\ [s EXCEPT !.closes = closes] \in ServerRecord
         /\ \A throws \in BOOLEAN : [s EXCEPT !.lost = lost, !.threw = throws] \in ServerRecord
         /\ [s EXCEPT !.got = Append(s.got, m)] \in ServerRecord
<1>1. PICK got \in Seq(MessageRecord) : got = Append(s.got, m)
  <2>1. s.got \in Seq(MessageRecord)
    BY DEF ServerRecord
  <2> QED
    BY <2>1, OneMoreMessage
<1>2. [s EXCEPT !.got = got] \in ServerRecord
  BY DEF ServerRecord
<1>3. [s EXCEPT !.wrote = wrote] \in ServerRecord
  BY DEF ServerRecord
<1>4. [s EXCEPT !.closes = closes] \in ServerRecord
  BY DEF ServerRecord
<1>5. \A throws \in BOOLEAN : [s EXCEPT !.lost = lost, !.threw = throws] \in ServerRecord
  BY DEF ServerRecord
<1> QED
  BY <1>1, <1>2, <1>3, <1>4, <1>5

LEMMA ClientCalled ==
  ASSUME NEW c \in ClientRecord, NEW total \in Nat, NEW m \in MessageRecord
  PROVE  /\ [c EXCEPT !.asked = TRUE] \in ClientRecord
         /\ [c EXCEPT !.wrote = total] \in ClientRecord
         /\ [c EXCEPT !.closes = total] \in ClientRecord
         /\ [c EXCEPT !.transport = TRUE, !.made = total] \in ClientRecord
         /\ [c EXCEPT !.got = Append(c.got, m)] \in ClientRecord
         /\ [c EXCEPT !.lost = total] \in ClientRecord
<1>1. PICK got \in Seq(MessageRecord) : got = Append(c.got, m)
  <2>1. c.got \in Seq(MessageRecord)
    BY DEF ClientRecord
  <2> QED
    BY <2>1, OneMoreMessage
<1>2. [c EXCEPT !.got = got] \in ClientRecord
  BY DEF ClientRecord
<1>3. [c EXCEPT !.asked = TRUE] \in ClientRecord
  BY DEF ClientRecord
<1>4. [c EXCEPT !.wrote = total] \in ClientRecord
  BY DEF ClientRecord
<1>5. [c EXCEPT !.closes = total] \in ClientRecord
  BY DEF ClientRecord
<1>6. [c EXCEPT !.transport = TRUE, !.made = total] \in ClientRecord
  BY DEF ClientRecord
<1>7. [c EXCEPT !.lost = total] \in ClientRecord
  BY DEF ClientRecord
<1> QED
  BY <1>1, <1>2, <1>3, <1>4, <1>5, <1>6, <1>7

(* A step that leaves the queue alone, and of the protocol that is heard   *)
(* only what it writes.                                                    *)
LEMMA NothingPosted ==
  ASSUME WindowsInv, UNCHANGED <<target, toServer>>,
         client'.asked => client.asked /\ document' = document /\ client'.wrote = client.wrote,
         target # Nobody => /\ servers'[target].lost = servers[target].lost
                            /\ servers'[target].threw = servers[target].threw
                            /\ servers'[target].got = servers[target].got
                            /\ servers'[target].of = servers[target].of
  PROVE  PostedInOrder' /\ LatestIsLast' /\ TargetHears'
<1>1. PostedInOrder /\ LatestIsLast /\ TargetHears
  BY DEF WindowsInv
<1>2. PostedInOrder'
  BY <1>1 DEF PostedInOrder
<1>3. LatestIsLast'
  BY <1>1 DEF LatestIsLast
<1>4. CASE target = Nobody
  BY <1>2, <1>3, <1>4 DEF TargetHears
<1>5. CASE target # Nobody
  <2>1. /\ servers'[target].lost = 0 \/ servers'[target].threw
        /\ servers'[target].got =
             [i \in 1..Len(servers'[target].got) |-> Message("data", servers'[target].of, i)]
    BY <1>1, <1>5 DEF TargetHears
  <2>2. toServer # <<>> =>
          Follows(Head(toServer), servers'[target].of, Len(servers'[target].got))
    BY <1>1, <1>5 DEF TargetHears
  <2>3. toServer = <<>> /\ client'.asked =>
          /\ servers'[target].of = document'
          /\ Len(servers'[target].got) = client'.wrote
    BY <1>1, <1>5 DEF TargetHears
  <2> QED
    BY <1>2, <1>3, <2>1, <2>2, <2>3 DEF TargetHears
<1> QED
  BY <1>4, <1>5

(* What the document does. *)
LEMMA ConnectWindowKeeps == WindowsInv /\ ConnectWindow => WindowsInv'
<1> SUFFICES ASSUME WindowsInv, ConnectWindow PROVE WindowsInv'
  OBVIOUS
<1>1. WindowsTyped /\ AskedFirst /\ client \in ClientRecord /\ document \in Nat
  BY DEF WindowsInv, WindowsTyped
<1>2. PICK m \in MessageRecord : /\ m = Message("open", document, 0)
                                 /\ m.type = "open" /\ m.from = document /\ m.n = 0
  BY <1>1, MadeMessage
<1>3. /\ ~client.asked /\ client' = [client EXCEPT !.asked = TRUE]
      /\ toServer' = Append(toServer, m)
      /\ UNCHANGED <<document, target, servers, toClient>>
  BY <1>2 DEF ConnectWindow
<1>4. /\ client' \in ClientRecord /\ client'.asked
      /\ client'.wrote = client.wrote /\ client.wrote = 0
  BY <1>1, <1>2, <1>3, ClientCalled DEF ClientRecord, AskedFirst
<1>5. toServer' \in Seq(MessageRecord) /\ PostedInOrder' /\ LatestIsLast' /\ TargetHears'
  BY <1>1, <1>2, <1>3, <1>4, MessagePosted
<1>6. WindowsTyped'
  BY <1>1, <1>3, <1>4, <1>5 DEF WindowsTyped
<1>7. AskedFirst'
  BY <1>4 DEF AskedFirst
<1> QED
  BY <1>5, <1>6, <1>7 DEF WindowsInv

LEMMA ClientWritesKeeps == WindowsInv /\ ClientWrites => WindowsInv'
<1> SUFFICES ASSUME WindowsInv, ClientWrites PROVE WindowsInv'
  OBVIOUS
<1>1. WindowsTyped /\ AskedFirst /\ client \in ClientRecord /\ document \in Nat
  BY DEF WindowsInv, WindowsTyped
<1>2. client.wrote \in Nat /\ client.asked \in BOOLEAN /\ client.transport
      /\ client.asked
  BY <1>1 DEF ClientRecord, ClientWrites, ClientCalls, AskedFirst
<1>3. PICK m \in MessageRecord :
        /\ m = Message("data", document, client.wrote + 1)
        /\ m.type = "data" /\ m.from = document /\ m.n = client.wrote + 1
  BY <1>1, <1>2, MadeMessage
<1>4. /\ client' = [client EXCEPT !.wrote = client.wrote + 1]
      /\ toServer' = Append(toServer, m)
      /\ UNCHANGED <<document, target, servers, toClient>>
  BY <1>3 DEF ClientWrites
<1>5. client' \in ClientRecord /\ client'.asked /\ client'.wrote = client.wrote + 1
  <2>1. PICK total \in Nat : total = client.wrote + 1
    BY <1>2
  <2>2. client' = [client EXCEPT !.wrote = total]
    BY <1>4, <2>1
  <2>3. client' \in ClientRecord
    BY <1>1, <2>2, ClientCalled
  <2> QED
    BY <1>1, <1>2, <2>1, <2>2, <2>3 DEF ClientRecord
<1>6. Follows(m, document, client.wrote)
  BY <1>3 DEF Follows
<1>7. toServer' \in Seq(MessageRecord) /\ PostedInOrder' /\ LatestIsLast' /\ TargetHears'
  BY <1>1, <1>2, <1>3, <1>4, <1>5, <1>6, MessagePosted
<1>8. WindowsTyped'
  BY <1>1, <1>4, <1>5, <1>7 DEF WindowsTyped
<1>9. AskedFirst'
  BY <1>5 DEF AskedFirst
<1> QED
  BY <1>7, <1>8, <1>9 DEF WindowsInv

LEMMA ClientLosesKeeps == WindowsInv /\ ClientLoses => WindowsInv'
<1> SUFFICES ASSUME WindowsInv, ClientLoses PROVE WindowsInv'
  OBVIOUS
<1>1. WindowsTyped /\ AskedFirst /\ client \in ClientRecord /\ document \in Nat
  BY DEF WindowsInv, WindowsTyped
<1>2. /\ client.wrote \in Nat /\ client.closes + 1 \in Nat
      /\ client.asked \in BOOLEAN /\ client.transport /\ client.asked
  BY <1>1 DEF ClientRecord, ClientLoses, ClientCalls, AskedFirst
<1>3. PICK m \in MessageRecord :
        /\ m = Message("close", document, client.wrote)
        /\ m.type = "close" /\ m.from = document /\ m.n = client.wrote
  BY <1>1, <1>2, MadeMessage
<1>4. /\ client' = [client EXCEPT !.closes = client.closes + 1]
      /\ toServer' = Append(toServer, m)
      /\ UNCHANGED <<document, target, servers, toClient>>
  BY <1>3 DEF ClientLoses
<1>5. client' \in ClientRecord /\ client'.asked /\ client'.wrote = client.wrote
  BY <1>1, <1>2, <1>3, <1>4, ClientCalled DEF ClientRecord
<1>6. Follows(m, document, client.wrote)
  BY <1>3 DEF Follows
<1>7. toServer' \in Seq(MessageRecord) /\ PostedInOrder' /\ LatestIsLast' /\ TargetHears'
  BY <1>1, <1>2, <1>3, <1>4, <1>5, <1>6, MessagePosted
<1>8. WindowsTyped'
  BY <1>1, <1>4, <1>5, <1>7 DEF WindowsTyped
<1>9. AskedFirst'
  BY <1>5 DEF AskedFirst
<1> QED
  BY <1>7, <1>8, <1>9 DEF WindowsInv

LEMMA ReloadKeeps == WindowsInv /\ Reload => WindowsInv'
<1> SUFFICES ASSUME WindowsInv, Reload PROVE WindowsInv'
  OBVIOUS
<1>1. WindowsTyped
  BY DEF WindowsInv
<1>2. /\ document' = document + 1 /\ client' = NewClient /\ toClient' = <<>>
      /\ UNCHANGED <<target, servers, toServer>>
  BY DEF Reload
<1>3. /\ NewClient \in ClientRecord /\ ~NewClient.transport /\ ~NewClient.asked
      /\ NewClient.wrote = 0
  BY DEF NewClient, ClientRecord
<1>4. PostedInOrder' /\ LatestIsLast' /\ TargetHears'
  BY <1>2, <1>3, NothingPosted
<1>5. WindowsTyped'
  BY <1>1, <1>2, <1>3 DEF WindowsTyped
<1>6. AskedFirst'
  BY <1>2, <1>3 DEF AskedFirst
<1> QED
  BY <1>4, <1>5, <1>6 DEF WindowsInv

(* What a server protocol does, and what comes to the client. *)
LEMMA ServerCallsKeep ==
  ASSUME WindowsInv, NEW p \in DOMAIN servers, ServerWrites(p) \/ ServerLoses(p)
  PROVE  WindowsInv'
<1>1. WindowsTyped /\ AskedFirst /\ servers \in Seq(ServerRecord)
  BY DEF WindowsInv, WindowsTyped
<1>2. /\ p \in 1..Len(servers) /\ p \in Nat /\ servers[p] \in ServerRecord
      /\ servers[p].wrote \in Nat /\ servers[p].closes \in Nat
  <2>1. p \in 1..Len(servers) /\ Len(servers) \in Nat
    BY <1>1, LenProperties
  <2>2. p \in Nat /\ servers[p] \in ServerRecord
    BY <1>1, <2>1
  <2> QED
    BY <2>1, <2>2 DEF ServerRecord
<1>3. PICK wrote \in Nat : wrote = servers[p].wrote + 1
  BY <1>2
<1>4. PICK closes \in Nat : closes = servers[p].closes + 1
  BY <1>2
<1>5. PICK new \in ServerRecord, m \in MessageRecord :
        /\ new.lost = servers[p].lost /\ new.threw = servers[p].threw
        /\ new.got = servers[p].got /\ new.of = servers[p].of
        /\ servers' = [servers EXCEPT ![p] = new] /\ toClient' = Append(toClient, m)
        /\ UNCHANGED <<document, client, target, toServer>>
  <2>1. CASE ServerWrites(p)
    <3>1. PICK m \in MessageRecord : m = Message("data", p, wrote)
      BY <1>2, MadeMessage
    <3>2. PICK new \in ServerRecord : new = [servers[p] EXCEPT !.wrote = wrote]
      BY <1>2, <3>1, ServerCalled
    <3>3. /\ new.lost = servers[p].lost /\ new.threw = servers[p].threw
          /\ new.got = servers[p].got /\ new.of = servers[p].of
      BY <1>2, <3>2 DEF ServerRecord
    <3>4. servers' = [servers EXCEPT ![p] = new] /\ toClient' = Append(toClient, m)
      BY <1>3, <2>1, <3>1, <3>2 DEF ServerWrites
    <3> QED
      BY <2>1, <3>3, <3>4 DEF ServerWrites
  <2>2. CASE ServerLoses(p)
    <3>1. PICK m \in MessageRecord : m = Message("close", p, servers[p].wrote)
      BY <1>2, MadeMessage
    <3>2. PICK new \in ServerRecord : new = [servers[p] EXCEPT !.closes = closes]
      BY <1>2, <3>1, ServerCalled
    <3>3. /\ new.lost = servers[p].lost /\ new.threw = servers[p].threw
          /\ new.got = servers[p].got /\ new.of = servers[p].of
      BY <1>2, <3>2 DEF ServerRecord
    <3>4. servers' = [servers EXCEPT ![p] = new] /\ toClient' = Append(toClient, m)
      BY <1>4, <2>2, <3>1, <3>2 DEF ServerLoses
    <3> QED
      BY <2>2, <3>3, <3>4 DEF ServerLoses
  <2> QED
    BY <2>1, <2>2
<1>6. /\ servers' \in Seq(ServerRecord) /\ Len(servers') = Len(servers)
      /\ \A q \in 1..Len(servers) : servers'[q] = IF q = p THEN new ELSE servers[q]
  BY <1>1, <1>2, <1>5, ServerUpdated
<1>7. WindowsTyped'
  BY <1>1, <1>5, <1>6 DEF WindowsTyped
<1>8. target # Nobody => target \in 1..Len(servers)
  BY <1>1 DEF WindowsTyped
<1>9. target # Nobody => /\ servers'[target].lost = servers[target].lost
                         /\ servers'[target].threw = servers[target].threw
                         /\ servers'[target].got = servers[target].got
                         /\ servers'[target].of = servers[target].of
  BY <1>5, <1>6, <1>8
<1>10. PostedInOrder' /\ LatestIsLast' /\ TargetHears'
  BY <1>5, <1>9, NothingPosted
<1>11. AskedFirst'
  BY <1>1, <1>5 DEF AskedFirst
<1> QED
  BY <1>7, <1>10, <1>11 DEF WindowsInv

LEMMA ConnectorKeeps == WindowsInv /\ (ConnectorReceives \/ NobodyReceives) => WindowsInv'
<1> SUFFICES ASSUME WindowsInv, ConnectorReceives \/ NobodyReceives PROVE WindowsInv'
  OBVIOUS
<1>1. WindowsTyped /\ AskedFirst /\ client \in ClientRecord
  BY DEF WindowsInv, WindowsTyped
<1>2. /\ toClient \in Seq(MessageRecord) /\ toClient # <<>> /\ toClient' = Tail(toClient)
      /\ UNCHANGED <<document, target, servers, toServer>>
  BY <1>1 DEF WindowsTyped, ConnectorReceives, NobodyReceives
<1>3. toClient' \in Seq(MessageRecord) /\ Head(toClient) \in MessageRecord
  BY <1>2
<1>4. /\ client' \in ClientRecord /\ client'.asked = client.asked
      /\ client'.wrote = client.wrote /\ AskedFirst'
  <2>1. CASE NobodyReceives
    BY <1>1, <2>1 DEF NobodyReceives, AskedFirst
  <2>2. CASE ConnectorReceives
    <3>1. PICK m \in MessageRecord : m = Head(toClient)
      BY <1>3
    <3>2. /\ client.asked
          /\ \/ client' = [client EXCEPT !.transport = TRUE, !.made = client.made + 1]
             \/ client' = [client EXCEPT !.got = Append(client.got, m)]
             \/ client' = [client EXCEPT !.lost = client.lost + 1]
             \/ client' = client
      BY <2>2, <3>1 DEF ConnectorReceives
    <3>3. client.made + 1 \in Nat /\ client.lost + 1 \in Nat
      BY <1>1 DEF ClientRecord
    <3>4. client' \in ClientRecord
      BY <1>1, <3>2, <3>3, ClientCalled
    <3>5. client'.asked = client.asked /\ client'.wrote = client.wrote
      BY <1>1, <3>2 DEF ClientRecord
    <3> QED
      BY <3>2, <3>4, <3>5 DEF AskedFirst
  <2> QED
    BY <2>1, <2>2
<1>5. PostedInOrder' /\ LatestIsLast' /\ TargetHears'
  BY <1>2, <1>4, NothingPosted
<1>6. WindowsTyped'
  BY <1>1, <1>2, <1>3, <1>4 DEF WindowsTyped
<1> QED
  BY <1>4, <1>5, <1>6 DEF WindowsInv

(* What the Listener does with a message. *)
LEMMA ListenerOpensKeeps ==
  ASSUME WindowsInv, NEW greets \in BOOLEAN, ListenerOpens(greets)
  PROVE  WindowsInv'
<1>1. /\ WindowsTyped /\ AskedFirst /\ servers \in Seq(ServerRecord)
      /\ toClient \in Seq(MessageRecord) /\ Len(servers) \in Nat
  BY LenProperties DEF WindowsInv, WindowsTyped
<1>2. /\ toServer # <<>> /\ Head(toServer).type = "open" /\ toServer' = Tail(toServer)
      /\ UNCHANGED <<document, client>>
  BY DEF ListenerOpens, Received
<1>3. PICK h \in MessageRecord : h = Head(toServer)
  BY <1>2, MessageTaken
<1>4. /\ h.n = 0 /\ h.from \in Nat
      /\ toServer' \in Seq(MessageRecord) /\ PostedInOrder' /\ LatestIsLast'
      /\ toServer' # <<>> => Follows(Head(toServer'), h.from, 0)
      /\ toServer' = <<>> /\ client.asked => h.from = document /\ 0 = client.wrote
  BY <1>2, <1>3, MessageTaken DEF MessageRecord
<1>5. PICK p \in Nat : p = Len(servers) + 1 /\ p # Nobody
  BY <1>1 DEF Nobody
<1>6. PICK new \in ServerRecord :
        /\ servers' = Append(servers, new)
        /\ new.of = h.from /\ new.lost = 0 /\ new.got = <<>>
  <2>1. PICK total \in Nat : total = IF greets THEN 1 ELSE 0
    OBVIOUS
  <2>2. NewServer(h.from) \in ServerRecord
    BY <1>4 DEF NewServer, ServerRecord
  <2>3. PICK new : new = [NewServer(h.from) EXCEPT !.wrote = total]
    OBVIOUS
  <2>4. new \in ServerRecord
    BY <1>3, <2>2, <2>3, ServerCalled
  <2>5. new.of = h.from /\ new.lost = 0 /\ new.got = <<>>
    BY <2>3 DEF NewServer
  <2>6. servers' = Append(servers, new)
    BY <1>3, <2>1, <2>3 DEF ListenerOpens
  <2> QED
    BY <2>4, <2>5, <2>6
<1>7. target' = p
  BY <1>5 DEF ListenerOpens, NewTarget
<1>8. /\ servers' \in Seq(ServerRecord) /\ servers'[p] = new /\ Len(servers') = p
  BY <1>1, <1>5, <1>6
<1>9. toClient' \in Seq(MessageRecord)
  <2>1. PICK m \in MessageRecord : m = Message("open", p, 0)
    BY MadeMessage
  <2>2. PICK k \in MessageRecord : k = Message("data", p, 1)
    BY MadeMessage
  <2>3. toClient' = toClient \o <<m>> \o (IF greets THEN <<k>> ELSE <<>>)
    BY <1>5, <2>1, <2>2 DEF ListenerOpens, Answered
  <2>4. /\ <<m>> \in Seq(MessageRecord) /\ <<k>> \in Seq(MessageRecord)
        /\ <<>> \in Seq(MessageRecord)
    OBVIOUS
  <2>5. toClient \o <<m>> \in Seq(MessageRecord)
    BY <1>1, <2>4, ConcatProperties
  <2> QED
    BY <2>3, <2>4, <2>5, ConcatProperties
<1>10. TargetHears'
  <2>1. servers'[target'] = new /\ Len(new.got) = 0
    BY <1>6, <1>7, <1>8
  <2>2. new.got = [i \in 1..Len(new.got) |-> Message("data", new.of, i)]
    BY <1>6, <2>1
  <2>3. toServer' # <<>> => Follows(Head(toServer'), new.of, Len(new.got))
    BY <1>4, <1>6, <2>1
  <2>4. toServer' = <<>> /\ client'.asked =>
          new.of = document' /\ Len(new.got) = client'.wrote
    BY <1>2, <1>4, <1>6, <2>1
  <2> QED
    BY <1>6, <2>1, <2>2, <2>3, <2>4 DEF TargetHears
<1>11. WindowsTyped'
  <2>1. target' \in 1..Len(servers')
    BY <1>5, <1>7, <1>8 DEF Nobody
  <2> QED
    BY <1>1, <1>2, <1>4, <1>8, <1>9, <2>1 DEF WindowsTyped
<1>12. AskedFirst'
  BY <1>1, <1>2 DEF AskedFirst
<1> QED
  BY <1>4, <1>10, <1>11, <1>12 DEF WindowsInv

LEMMA ListenerReceivesKeeps == WindowsInv /\ ListenerReceives => WindowsInv'
<1> SUFFICES ASSUME WindowsInv, ListenerReceives PROVE WindowsInv'
  OBVIOUS
<1>1. /\ WindowsTyped /\ AskedFirst /\ TargetHears /\ servers \in Seq(ServerRecord)
  BY DEF WindowsInv, WindowsTyped
<1>2. /\ toServer # <<>> /\ Head(toServer).type = "data" /\ toServer' = Tail(toServer)
      /\ UNCHANGED <<document, client, target, toClient>>
  BY DEF ListenerReceives, Received
<1>3. PICK h \in MessageRecord : h = Head(toServer)
  BY <1>2, MessageTaken
<1>4. /\ h.n \in Nat /\ h.from \in Nat /\ h.type = "data"
      /\ toServer' \in Seq(MessageRecord) /\ PostedInOrder' /\ LatestIsLast'
      /\ toServer' # <<>> => Follows(Head(toServer'), h.from, h.n)
      /\ toServer' = <<>> /\ client.asked => h.from = document /\ h.n = client.wrote
  BY <1>2, <1>3, MessageTaken DEF MessageRecord
<1>5. AskedFirst'
  BY <1>1, <1>2 DEF AskedFirst
<1>6. CASE target = Nobody
  <2>1. servers' = servers
    BY <1>6 DEF ListenerReceives
  <2>2. WindowsTyped'
    BY <1>1, <1>2, <1>4, <2>1 DEF WindowsTyped
  <2>3. TargetHears'
    BY <1>2, <1>6 DEF TargetHears
  <2> QED
    BY <1>4, <1>5, <2>2, <2>3 DEF WindowsInv
<1>7. CASE target # Nobody
  <2>1. /\ target \in 1..Len(servers) /\ servers[target] \in ServerRecord
    BY <1>1, <1>7 DEF WindowsTyped
  <2>2. /\ servers[target].got \in Seq(MessageRecord) /\ Len(servers[target].got) \in Nat
        /\ servers[target].of \in Nat
    BY <2>1, LenProperties DEF ServerRecord
  <2>3. /\ servers[target].lost = 0 \/ servers[target].threw
        /\ h.from = servers[target].of /\ h.n = Len(servers[target].got) + 1
        /\ servers[target].got =
             [i \in 1..Len(servers[target].got) |-> Message("data", servers[target].of, i)]
    BY <1>1, <1>2, <1>3, <1>4, <1>7 DEF TargetHears, Follows
  <2>4. PICK got \in Seq(MessageRecord) : got = Append(servers[target].got, h)
    BY <2>2, OneMoreMessage
  <2>5. PICK new \in ServerRecord : new = [servers[target] EXCEPT !.got = got]
    BY <2>1, <2>4, <1>3, ServerCalled
  <2>6. /\ new.got = got /\ new.lost = servers[target].lost
        /\ new.threw = servers[target].threw
        /\ new.of = servers[target].of
    BY <2>1, <2>5 DEF ServerRecord
  <2>7. servers' = [servers EXCEPT ![target] = new]
    BY <1>3, <1>7, <2>4, <2>5 DEF ListenerReceives
  <2>8. /\ servers' \in Seq(ServerRecord) /\ Len(servers') = Len(servers)
        /\ servers'[target] = new
    BY <1>1, <2>1, <2>7, ServerUpdated
  <2>9. /\ Len(got) = h.n /\ \A i \in 1..Len(servers[target].got) : got[i] = servers[target].got[i]
        /\ got[h.n] = h /\ \A i \in 1..Len(got) : i \in 1..Len(servers[target].got) \/ i = h.n
    BY <1>3, <2>2, <2>3, <2>4, OneMoreMessage
  <2>10. h = Message("data", h.from, h.n)
    BY <1>4 DEF MessageRecord, Message
  <2>11. \A i \in 1..Len(got) : got[i] = Message("data", new.of, i)
    BY <2>3, <2>6, <2>9, <2>10
  <2>12. got = [i \in 1..Len(got) |-> Message("data", new.of, i)]
    BY <2>4, <2>11
  <2>13. toServer' # <<>> => Follows(Head(toServer'), new.of, Len(new.got))
    BY <1>4, <2>3, <2>6, <2>9
  <2>14. toServer' = <<>> /\ client'.asked =>
           new.of = document' /\ Len(new.got) = client'.wrote
    BY <1>2, <1>4, <2>3, <2>6, <2>9
  <2>15. servers'[target'] = new
    BY <1>2, <2>8
  <2>16. TargetHears'
    BY <2>3, <2>6, <2>12, <2>13, <2>14, <2>15 DEF TargetHears
  <2>17. WindowsTyped'
    BY <1>1, <1>2, <1>4, <2>1, <2>8 DEF WindowsTyped
  <2> QED
    BY <1>4, <1>5, <2>16, <2>17 DEF WindowsInv
<1> QED
  BY <1>6, <1>7

LEMMA ListenerClosesKeeps ==
  ASSUME WindowsInv, NEW throws \in BOOLEAN, ListenerCloses(throws)
  PROVE  WindowsInv'
<1>1. /\ WindowsTyped /\ AskedFirst /\ TargetHears /\ servers \in Seq(ServerRecord)
      /\ toClient \in Seq(MessageRecord)
  BY DEF WindowsInv, WindowsTyped
<1>2. /\ toServer # <<>> /\ Head(toServer).type = "close" /\ toServer' = Tail(toServer)
      /\ UNCHANGED <<document, client>>
  BY DEF ListenerCloses, Received
<1>3. PICK h \in MessageRecord : h = Head(toServer)
  BY <1>2, MessageTaken
<1>4. /\ h.type = "close"
      /\ toServer' \in Seq(MessageRecord) /\ PostedInOrder' /\ LatestIsLast'
      /\ toServer' # <<>> => Follows(Head(toServer'), h.from, h.n)
      /\ toServer' = <<>> /\ client.asked => h.from = document /\ h.n = client.wrote
  BY <1>2, <1>3, MessageTaken DEF MessageRecord
<1>5. AskedFirst'
  BY <1>1, <1>2 DEF AskedFirst
<1>6. CASE target = Nobody
  <2>1. UNCHANGED <<servers, toClient, target>>
    BY <1>6 DEF ListenerCloses
  <2>2. TargetHears'
    BY <1>6, <2>1 DEF TargetHears
  <2>3. WindowsTyped'
    BY <1>1, <1>2, <1>4, <2>1 DEF WindowsTyped
  <2> QED
    BY <1>4, <1>5, <2>2, <2>3 DEF WindowsInv
<1>7. CASE target # Nobody
  <2>1. /\ target \in 1..Len(servers) /\ Len(servers) \in Nat
        /\ servers[target] \in ServerRecord
    BY <1>1, <1>7, LenProperties DEF WindowsTyped
  <2>2. /\ target \in Nat /\ servers[target].wrote \in Nat
        /\ servers[target].lost \in Nat
    BY <2>1 DEF ServerRecord
  <2>3. PICK m \in MessageRecord : m = Message("close", target, servers[target].wrote)
    BY <2>2, MadeMessage
  <2>4. PICK lost \in Nat : lost = servers[target].lost + 1
    BY <2>2
  <2>5. PICK new \in ServerRecord : new = [servers[target] EXCEPT !.lost = lost, !.threw = throws]
    BY <2>1, <2>3, ServerCalled
  <2>6. servers' = [servers EXCEPT ![target] = new]
    <3>1. new = Told(target, throws)
      BY <2>4, <2>5 DEF Told
    <3> QED
      BY <1>7, <3>1 DEF ListenerCloses
  <2>7. /\ servers' \in Seq(ServerRecord) /\ Len(servers') = Len(servers)
        /\ servers'[target] = new
    BY <1>1, <2>1, <2>6, ServerUpdated
  <2>8. CASE ~throws
    <3>1. target' = Nobody /\ toClient' = Append(toClient, m)
      BY <1>7, <2>3, <2>8 DEF ListenerCloses, Reply, Deleted
    <3>2. TargetHears'
      BY <3>1 DEF TargetHears
    <3>3. toClient' \in Seq(MessageRecord)
      BY <1>1, <3>1
    <3>4. WindowsTyped'
      BY <1>1, <1>2, <1>4, <2>7, <3>1, <3>3 DEF WindowsTyped
    <3> QED
      BY <1>4, <1>5, <3>2, <3>4 DEF WindowsInv
  <2>9. CASE throws
    <3>1. UNCHANGED <<toClient, target>>
      BY <1>7, <2>9 DEF ListenerCloses
    <3>2. new.threw /\ new.of = servers[target].of /\ new.got = servers[target].got
      BY <2>1, <2>5, <2>9 DEF ServerRecord
    <3>3. /\ h.from = servers[target].of /\ h.n = Len(servers[target].got)
          /\ servers[target].got =
               [i \in 1..Len(servers[target].got) |-> Message("data", servers[target].of, i)]
      BY <1>1, <1>2, <1>3, <1>4, <1>7 DEF TargetHears, Follows
    <3>4. new.got = [i \in 1..Len(new.got) |-> Message("data", new.of, i)]
      BY <3>2, <3>3
    <3>5. toServer' # <<>> => Follows(Head(toServer'), new.of, Len(new.got))
      BY <1>4, <3>2, <3>3
    <3>6. toServer' = <<>> /\ client'.asked =>
            new.of = document' /\ Len(new.got) = client'.wrote
      BY <1>2, <1>4, <3>2, <3>3
    <3>7. servers'[target'] = new
      BY <2>7, <3>1
    <3>8. TargetHears'
      BY <3>2, <3>4, <3>5, <3>6, <3>7 DEF TargetHears
    <3>9. WindowsTyped'
      BY <1>1, <1>2, <1>4, <2>1, <2>7, <3>1 DEF WindowsTyped
    <3> QED
      BY <1>4, <1>5, <3>8, <3>9 DEF WindowsInv
  <2> QED
    BY <2>8, <2>9
<1> QED
  BY <1>6, <1>7

LEMMA WindowsStep == WindowsInv /\ [WindowsNext]_windowVars => WindowsInv'
<1> SUFFICES ASSUME WindowsInv, [WindowsNext]_windowVars PROVE WindowsInv'
  OBVIOUS
<1>1. CASE UNCHANGED windowVars
  <2>1. UNCHANGED <<document, client, target, servers, toServer, toClient>>
    BY <1>1 DEF windowVars
  <2>2. PostedInOrder' /\ LatestIsLast' /\ TargetHears'
    BY <2>1, NothingPosted
  <2> QED
    BY <2>1, <2>2 DEF WindowsInv, WindowsTyped, AskedFirst
<1>2. CASE ConnectWindow
  BY <1>2, ConnectWindowKeeps
<1>3. CASE ClientWrites
  BY <1>3, ClientWritesKeeps
<1>4. CASE ClientLoses
  BY <1>4, ClientLosesKeeps
<1>5. CASE Reload
  BY <1>5, ReloadKeeps
<1>6. ASSUME NEW p \in DOMAIN servers, ServerWrites(p) \/ ServerLoses(p) PROVE WindowsInv'
  BY <1>6, ServerCallsKeep
<1>7. ASSUME NEW greets \in BOOLEAN, ListenerOpens(greets) PROVE WindowsInv'
  BY <1>7, ListenerOpensKeeps
<1>8. CASE ListenerReceives
  BY <1>8, ListenerReceivesKeeps
<1>9. ASSUME NEW throws \in BOOLEAN, ListenerCloses(throws) PROVE WindowsInv'
  BY <1>9, ListenerClosesKeeps
<1>10. CASE ConnectorReceives \/ NobodyReceives
  BY <1>10, ConnectorKeeps
<1> QED
  BY <1>1, <1>2, <1>3, <1>4, <1>5, <1>6, <1>7, <1>8, <1>9, <1>10 DEF WindowsNext, Messages

(* A protocol of the Listener hears of its loss once, unless it threw when *)
(* it did, and after all that its own document wrote before, in order      *)
(* (net/env/browser/postmessage.js, Listener._onMessage).                  *)
THEOREM LossComesLast == WindowsSpec => WrittenBeforeClose
<1>1. ASSUME WindowsInv, [WindowsNext]_windowVars, NEW p \in DOMAIN servers,
             servers'[p].lost > servers[p].lost
      PROVE  /\ servers[p].lost = 0 \/ servers[p].threw
             /\ Head(toServer).from = servers[p].of
             /\ servers[p].got =
                  [i \in 1..Head(toServer).n |-> Message("data", servers[p].of, i)]
  <2>1. /\ servers \in Seq(ServerRecord) /\ TargetHears
        /\ target = Nobody \/ target \in 1..Len(servers)
    BY <1>1 DEF WindowsInv, WindowsTyped
  <2>2. p \in 1..Len(servers) /\ Len(servers) \in Nat
    BY <2>1, LenProperties
  <2>3. servers[p] \in ServerRecord /\ servers[p].lost \in Nat
    <3>1. servers[p] \in ServerRecord
      BY <2>1, <2>2
    <3> QED
      BY <3>1 DEF ServerRecord
  <2>4. ASSUME servers'[p].lost = servers[p].lost PROVE FALSE
    BY <1>1, <2>3, <2>4
  <2>5. /\ \E throws \in BOOLEAN : ListenerCloses(throws)
        /\ target # Nobody /\ p = target
    <3>1. CASE servers' = servers
      BY <2>4, <3>1
    <3>2. ASSUME NEW q \in DOMAIN servers, ServerWrites(q) \/ ServerLoses(q) PROVE FALSE
      <4>1. q \in 1..Len(servers) /\ servers[q] \in ServerRecord
        BY <2>1, <3>2, LenProperties
      <4>2. PICK new : servers' = [servers EXCEPT ![q] = new] /\ new.lost = servers[q].lost
        <5>1. CASE ServerWrites(q)
          <6>1. PICK new : /\ servers' = [servers EXCEPT ![q] = new]
                           /\ new = [servers[q] EXCEPT !.wrote = servers[q].wrote + 1]
            BY <5>1 DEF ServerWrites
          <6>2. new.lost = servers[q].lost
            BY <4>1, <6>1 DEF ServerRecord
          <6> QED
            BY <6>1, <6>2
        <5>2. CASE ServerLoses(q)
          <6>1. PICK new : /\ servers' = [servers EXCEPT ![q] = new]
                           /\ new = [servers[q] EXCEPT !.closes = servers[q].closes + 1]
            BY <5>2 DEF ServerLoses
          <6>2. new.lost = servers[q].lost
            BY <4>1, <6>1 DEF ServerRecord
          <6> QED
            BY <6>1, <6>2
        <5> QED
          BY <3>2, <5>1, <5>2
      <4> QED
        BY <2>1, <2>2, <2>4, <4>2
    <3>3. ASSUME NEW greets \in BOOLEAN, ListenerOpens(greets) PROVE FALSE
      <4>1. PICK new : servers' = Append(servers, new)
        BY <3>3 DEF ListenerOpens
      <4>2. servers'[p] = servers[p]
        BY <2>1, <2>2, <4>1
      <4> QED
        BY <2>4, <4>2
    <3>4. CASE ListenerReceives
      <4>1. CASE target = Nobody
        BY <3>1, <3>4, <4>1 DEF ListenerReceives
      <4>2. CASE target # Nobody
        <5>1. PICK new : servers' = [servers EXCEPT ![target] = new]
                         /\ new = [servers[target] EXCEPT !.got = Append(servers[target].got, Head(toServer))]
          BY <3>4, <4>2 DEF ListenerReceives
        <5>2. target \in 1..Len(servers) /\ servers[target] \in ServerRecord
          BY <2>1, <4>2
        <5>3. new.lost = servers[target].lost
          BY <5>1, <5>2 DEF ServerRecord
        <5>4. servers'[p].lost = servers[p].lost
          BY <2>1, <2>2, <5>1, <5>2, <5>3
        <5> QED
          BY <2>4, <5>4
      <4> QED
        BY <4>1, <4>2
    <3>5. ASSUME NEW throws \in BOOLEAN, ListenerCloses(throws)
          PROVE  target # Nobody /\ p = target
      <4>1. CASE target = Nobody
        BY <3>1, <3>5, <4>1 DEF ListenerCloses
      <4>2. CASE target # Nobody
        <5>1. PICK new : servers' = [servers EXCEPT ![target] = new]
          BY <3>5, <4>2 DEF ListenerCloses
        <5>2. p = target
          BY <2>1, <2>2, <2>4, <5>1
        <5> QED
          BY <3>5, <4>2, <5>2
      <4> QED
        BY <4>1, <4>2
    <3>6. ConnectWindow \/ ClientWrites \/ ClientLoses \/ Reload \/ ConnectorReceives
            \/ NobodyReceives \/ UNCHANGED windowVars
          => servers' = servers
      BY DEF ConnectWindow, ClientWrites, ClientLoses, Reload, ConnectorReceives,
             NobodyReceives, windowVars
    <3> QED
      BY <1>1, <3>1, <3>2, <3>3, <3>4, <3>5, <3>6 DEF WindowsNext, Messages
  <2>6. /\ toServer # <<>> /\ Head(toServer).type = "close" /\ toServer' = Tail(toServer)
        /\ UNCHANGED <<document, client>>
    BY <2>5 DEF ListenerCloses, Received
  <2>7. /\ servers[p].lost = 0 \/ servers[p].threw
        /\ Follows(Head(toServer), servers[p].of, Len(servers[p].got))
        /\ servers[p].got =
             [i \in 1..Len(servers[p].got) |-> Message("data", servers[p].of, i)]
    BY <2>1, <2>5, <2>6 DEF TargetHears
  <2>8. Head(toServer).from = servers[p].of /\ Head(toServer).n = Len(servers[p].got)
    BY <2>6, <2>7 DEF Follows
  <2> QED
    BY <2>7, <2>8
<1>2. WindowsInv /\ [WindowsNext]_windowVars =>
        [\A p \in DOMAIN servers :
           servers'[p].lost > servers[p].lost =>
             LET of == servers[p].of
             IN  /\ servers[p].lost = 0 \/ servers[p].threw
                 /\ Head(toServer).from = of
                 /\ servers[p].got =
                      [i \in 1..Head(toServer).n |-> Message("data", of, i)]]_windowVars
  BY <1>1
<1> QED
  BY <1>2, WindowsBegin, WindowsStep, PTL DEF WindowsSpec, WrittenBeforeClose
=============================================================================
