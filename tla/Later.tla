-------------------------------- MODULE Later --------------------------------
(***************************************************************************)
(* One object of net/later.js: values and errors that come before there is *)
(* a callback for them wait, and are replayed to the one that is set.      *)
(***************************************************************************)
EXTENDS Naturals, Sequences, FiniteSets

CONSTANTS MaxItems,     \* bound: values, and errors, that come
          MaxHandlers,  \* bound: calls of setCallback and setErrback, each
          MaxCancelbacks \* bound: calls of setCancelback

ASSUME LaterAssumption == {MaxItems, MaxHandlers, MaxCancelbacks} \subseteq Nat

Channels == {"value", "error"}

VARIABLES handler,    \* cb and eb: the number of the one set last, 0 if none
          waiting,    \* values and errors
          calls,      \* calls of handlers under way, innermost first
          came,       \* values and errors that came, each kind numbered
          given,      \* <<handler, item>> in the order of the calls
          disturbed,  \* a replay threw, or another was begun inside it
          cancelback, \* it is set
          cancelbacks \* how often it was set

laterVars == <<handler, waiting, calls, came, given, disturbed, cancelback,
               cancelbacks>>

LaterInit ==
  /\ handler = [c \in Channels |-> 0] /\ waiting = [c \in Channels |-> <<>>]
  /\ calls = <<>> /\ came = [c \in Channels |-> 0]
  /\ given = [c \in Channels |-> <<>>] /\ disturbed = [c \in Channels |-> FALSE]
  /\ cancelback = FALSE /\ cancelbacks = 0

(* A call: of a handler for an item that came just now (at = 0), of one in *)
(* a replay that has reached the item at that place, or of the cancelback. *)
Call(kind, at, inside) == <<[of |-> kind, at |-> at, inside |-> inside]>> \o calls

Free == calls # <<>> => Head(calls).inside
Replaying(c) == \E k \in 1..Len(calls) : calls[k].of = c /\ calls[k].at > 0

(* callback and errback *)
Comes(c) ==
  /\ Free /\ came[c] < MaxItems
  /\ came' = [came EXCEPT ![c] = @ + 1]
  /\ IF handler[c] > 0
     THEN /\ calls' = Call(c, 0, TRUE)
          /\ given' = [given EXCEPT ![c] = Append(@, <<handler[c], came'[c]>>)]
          /\ UNCHANGED waiting
     ELSE /\ waiting' = [waiting EXCEPT ![c] = Append(@, came'[c])]
          /\ UNCHANGED <<calls, given>>
  /\ UNCHANGED <<handler, disturbed, cancelback, cancelbacks>>

(* setCallback and setErrback *)
SetHandler(c) ==
  /\ Free /\ handler[c] < MaxHandlers
  /\ handler' = [handler EXCEPT ![c] = @ + 1]
  /\ calls' = Call(c, 1, FALSE)
  /\ disturbed' = [disturbed EXCEPT ![c] = @ \/ Replaying(c)]
  /\ UNCHANGED <<waiting, came, given, cancelback, cancelbacks>>

(* The replay reads the object's own list, and calls the handler of now. *)
Replays ==
  /\ calls # <<>> /\ ~Head(calls).inside
  /\ LET c == Head(calls).of
         i == Head(calls).at
     IN  /\ i <= Len(waiting[c])
         /\ given' = [given EXCEPT ![c] = Append(@, <<handler[c], waiting[c][i]>>)]
         /\ calls' = [calls EXCEPT ![1].inside = TRUE]
  /\ UNCHANGED <<handler, waiting, came, disturbed, cancelback, cancelbacks>>

Emptied(c) == waiting' = [waiting EXCEPT ![c] = <<>>]

ReplayEnds ==
  /\ calls # <<>> /\ ~Head(calls).inside
  /\ LET c == Head(calls).of IN Head(calls).at > Len(waiting[c]) /\ Emptied(c)
  /\ calls' = Tail(calls)
  /\ UNCHANGED <<handler, came, given, disturbed, cancelback, cancelbacks>>

(* cancel: it is forgotten before it is called. *)
Cancelled(rest) ==
  /\ calls' = <<[of |-> "cancel", at |-> 0, inside |-> TRUE]>> \o rest
  /\ cancelback' = FALSE

Cancel ==
  /\ Free /\ cancelback
  /\ Cancelled(calls)
  /\ UNCHANGED <<handler, waiting, came, given, disturbed, cancelbacks>>

(* A handler returns; the result false cancels, but not one of a replay.   *)
HandlerReturns ==
  /\ calls # <<>> /\ Head(calls).inside
  /\ calls' = IF Head(calls).at > 0
              THEN [calls EXCEPT ![1].at = @ + 1, ![1].inside = FALSE]
              ELSE Tail(calls)
  /\ UNCHANGED <<handler, waiting, came, given, disturbed, cancelback,
                 cancelbacks>>

ReturnsFalse ==
  /\ calls # <<>> /\ Head(calls).of = "value" /\ Head(calls).at = 0
  /\ cancelback
  /\ Cancelled(Tail(calls))
  /\ UNCHANGED <<handler, waiting, came, given, disturbed, cancelbacks>>

EmptiedFinally(call) ==  \* mutated form
  waiting' = IF call.at > 0 THEN [waiting EXCEPT ![call.of] = <<>>] ELSE waiting

KeptWaiting(call) == UNCHANGED waiting

(* The exception leaves the call, and the replay with it: the list is not  *)
(* emptied, and the next handler is given it from its start.               *)
HandlerThrows ==
  /\ calls # <<>> /\ Head(calls).inside
  /\ LET top == Head(calls) IN
     disturbed' = IF top.at > 0 THEN [disturbed EXCEPT ![top.of] = TRUE]
                  ELSE disturbed
  /\ KeptWaiting(Head(calls))
  /\ calls' = Tail(calls)
  /\ UNCHANGED <<handler, came, given, cancelback, cancelbacks>>

SetCancelback ==
  /\ Free /\ cancelbacks < MaxCancelbacks
  /\ cancelback' = TRUE /\ cancelbacks' = cancelbacks + 1
  /\ UNCHANGED <<handler, waiting, calls, came, given, disturbed>>

LaterNext ==
  \/ \E c \in Channels : Comes(c) \/ SetHandler(c)
  \/ Replays \/ ReplayEnds \/ HandlerReturns \/ ReturnsFalse \/ HandlerThrows
  \/ Cancel \/ SetCancelback

LaterSpec == LaterInit /\ [][LaterNext]_laterVars

---------------------------------------------------------------------------
(* Properties *)

Items(c) == {given[c][k][2] : k \in 1..Len(given[c])}
Waits(c) == {waiting[c][k] : k \in 1..Len(waiting[c])}

(* Every value and every error is given to a handler or waits for one,     *)
(* also when a handler throws, is replaced while it is called, or is       *)
(* called with more in the middle of a replay; and nothing is given twice, *)
(* unless a replay was left by an exception or another handler was set     *)
(* inside it, for the replay then starts over.                             *)
NeverLost ==
  \A c \in Channels :
    /\ Items(c) \cup Waits(c) = 1..came[c]
    /\ disturbed[c] \/ Cardinality(Items(c)) = Len(given[c])

=============================================================================
