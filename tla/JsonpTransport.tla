---------------------------- MODULE JsonpTransport ----------------------------
(***************************************************************************)
(* The jsonp transport of the client session (net/csp/transports.js): one  *)
(* iframe for its /handshake and /send requests, one for its comets.       *)
(*                                                                         *)
(* A request is a script element, followed by one that calls the error     *)
(* callback: checkForError() tells an answered request from a failed one   *)
(* by the flag `completed' and cleans the iframe up.  When a script loads, *)
(* and whether before or after the one that follows it, is the browser's   *)
(* affair, and so is what a timer may come between.                        *)
(***************************************************************************)
EXTENDS Naturals, Sequences, FiniteSets

CONSTANT MaxRequests    \* bound: requests in each iframe
ASSUME RequestsAssumption == MaxRequests \in Nat

Types == {"send", "comet"}
Ids == 1..MaxRequests

VARIABLES
  browser,    \* "IE" watches a script's readyState, "WebKit" is to write both
              \* scripts into the document, "other" adds a second script
  body,       \* the document has a body
  isReady,    \* this._isReady: the iframes exist
  onReady,    \* this._onReady: the types of the requests made before
  aborted,    \* this._aborted
  cbId,       \* of each iframe: the id of its latest request
  handlers,   \* of each iframe: the ids whose callbacks are in its window
  requests,   \* of each iframe: the requests made, by id
  answers     \* of each iframe: whom the session heard of, and what

jsonpVars == <<browser, body, isReady, onReady, aborted, cbId, handlers, requests, answers>>
-----------------------------------------------------------------------------
\* How many requests of a type the session has made, and whether it waits.
Waiting(t) == Cardinality({i \in DOMAIN onReady : onReady[i] = t})
Made(t) == Len(requests[t]) + Waiting(t)

HandshakeDone == answers["send"] # <<>> /\ answers["send"][1].ok

(* The session has at most one request of a type under way, and comets     *)
(* only after the handshake (CometSession: CspClient models it).           *)
MayAsk(t) ==
  /\ Made(t) = Len(answers[t])
  /\ Made(t) < MaxRequests
  /\ t = "comet" => HandshakeDone

NewRequest == [at |-> "timer", completed |-> FALSE, loaded |-> FALSE, ended |-> FALSE]

NextId(t) == [cbId EXCEPT ![t] = @ + 1]

(* _makeRequest: put off until there are iframes; else the iframe's next   *)
(* id, and _request in a timer.  It does not ask whether it was aborted.   *)
MakeRequest(t) ==
  /\ MayAsk(t)
  /\ IF ~isReady
       THEN onReady' = Append(onReady, t) /\ UNCHANGED <<cbId, requests>>
       ELSE /\ cbId' = NextId(t)
            /\ requests' = [requests EXCEPT ![t] = Append(@, NewRequest)]
            /\ UNCHANGED onReady
  /\ UNCHANGED <<browser, body, isReady, aborted, handlers, answers>>

FlushedButLast(t) ==                                          \* mutated form
  IF Waiting(t) > 1 THEN <<NewRequest>> ELSE <<>>
Flushed(t) == [i \in 1..Waiting(t) |-> NewRequest]

(* _createIframes, which tries again every 100 ms until there is a body,   *)
(* and then makes the requests that were put off, in their order.          *)
CreateIframes ==
  /\ body /\ ~isReady
  /\ isReady' = TRUE
  /\ requests' = [t \in Types |-> requests[t] \o Flushed(t)]
  /\ cbId' = [t \in Types |-> cbId[t] + Len(Flushed(t))]
  /\ onReady' = <<>>
  /\ UNCHANGED <<browser, body, aborted, handlers, answers>>

BodyAppears ==
  /\ ~body /\ body' = TRUE
  /\ UNCHANGED <<browser, isReady, onReady, aborted, cbId, handlers, requests, answers>>

CleanedBoth(t, h) == [u \in Types |-> h[u] \ {cbId[u]}]        \* mutated form

(* cleanupIframe: the script elements go, which stops nothing that is      *)
(* loading, and the callbacks of the latest request become empty ones.     *)
Cleaned(t, h) == [h EXCEPT ![t] = @ \ {cbId[t]}]

(* On WebKit the text of the scripts is made with `ebName', which is not   *)
(* declared: the timer throws before anything is written.                  *)
Placed == IF browser = "WebKit" THEN "thrown" ELSE "sent"

(* _request: the callbacks into the window, the scripts into the document. *)
Request(t, n) ==
  /\ requests[t][n].at = "timer"
  /\ requests' = [requests EXCEPT ![t][n].at = Placed]
  /\ handlers' = [handlers EXCEPT ![t] = @ \cup {n}]
  /\ UNCHANGED <<browser, body, isReady, onReady, aborted, cbId, answers>>

Answer(t, n, ok) == answers' = [answers EXCEPT ![t] = Append(@, [id |-> n, ok |-> ok])]

FlagForgotten(t, n) == [requests EXCEPT ![t][n].loaded = TRUE]   \* mutated form
Completed(t, n) == [requests EXCEPT ![t][n] = [@ EXCEPT !.loaded = TRUE, !.completed = TRUE]]

(* The answer is a call of the callback in the iframe's window: onSuccess, *)
(* unless the callback has become an empty one.                            *)
ScriptRuns(t, n) ==
  /\ requests[t][n].at = "sent" /\ ~requests[t][n].loaded
  /\ IF n \in handlers[t]
       THEN requests' = Completed(t, n) /\ Answer(t, n, TRUE)
       ELSE requests' = [requests EXCEPT ![t][n].loaded = TRUE] /\ UNCHANGED answers
  /\ UNCHANGED <<browser, body, isReady, onReady, aborted, cbId, handlers>>

ScriptFails(t, n) ==
  /\ requests[t][n].at = "sent" /\ ~requests[t][n].loaded
  /\ requests' = [requests EXCEPT ![t][n].loaded = TRUE]
  /\ UNCHANGED <<browser, body, isReady, onReady, aborted, cbId, handlers, answers>>

(* checkForError: IE calls it when the script is loaded, the others from a *)
(* script of the iframe, through the window, before or after that.         *)
Ends(t, n) ==
  /\ requests[t][n].at = "sent" /\ ~requests[t][n].ended
  /\ browser = "IE" => requests[t][n].loaded
  /\ requests' = [requests EXCEPT ![t][n].ended = TRUE]
  /\ IF browser = "IE" \/ n \in handlers[t]
       THEN /\ handlers' = Cleaned(t, handlers)
            /\ IF requests[t][n].completed THEN UNCHANGED answers ELSE Answer(t, n, FALSE)
       ELSE UNCHANGED <<handlers, answers>>
  /\ UNCHANGED <<browser, body, isReady, onReady, aborted, cbId>>

AllCleaned == Cleaned("send", Cleaned("comet", handlers))

(* abort() cleans both iframes up; before there are any, it throws.        *)
Abort ==
  /\ ~aborted /\ aborted' = TRUE
  /\ handlers' = IF isReady THEN AllCleaned ELSE handlers
  /\ UNCHANGED <<browser, body, isReady, onReady, cbId, requests, answers>>
-----------------------------------------------------------------------------
JsonpInit ==
  /\ browser \in {"IE", "WebKit", "other"}
  /\ body \in BOOLEAN
  /\ isReady = body
  /\ onReady = <<>>
  /\ aborted = FALSE
  /\ cbId = [t \in Types |-> 0]
  /\ handlers = [t \in Types |-> {}]
  /\ requests = [t \in Types |-> <<>>]
  /\ answers = [t \in Types |-> <<>>]

Browser(t, n) == ScriptRuns(t, n) \/ ScriptFails(t, n)

JsonpNext ==
  \/ BodyAppears \/ CreateIframes \/ Abort
  \/ \E t \in Types :
       \/ MakeRequest(t)
       \/ \E n \in DOMAIN requests[t] : Request(t, n) \/ Browser(t, n) \/ Ends(t, n)

JsonpFairness ==
  /\ WF_jsonpVars(BodyAppears) /\ WF_jsonpVars(CreateIframes)
  /\ \A t \in Types, n \in Ids :
       /\ WF_jsonpVars(n \in DOMAIN requests[t] /\ Request(t, n))
       /\ WF_jsonpVars(n \in DOMAIN requests[t] /\ Browser(t, n))
       /\ WF_jsonpVars(n \in DOMAIN requests[t] /\ Ends(t, n))

JsonpSpec == JsonpInit /\ [][JsonpNext]_jsonpVars /\ JsonpFairness
-----------------------------------------------------------------------------

(* The session hears once of each request, of the one it waits for, in     *)
(* whatever order the browser runs the two scripts, also when a script     *)
(* loads after the request was given up (onSuccess, checkForError).        *)
AnsweredInOrder ==
  \A t \in Types :
    /\ Len(answers[t]) =< Made(t)
    /\ \A i \in DOMAIN answers[t] : answers[t][i].id = i

(* The scripts of this request are in the document, and neither can reach  *)
(* the session any more: its callbacks are empty ones, and it is unheard.  *)
Silent(t, n) ==
  /\ requests[t][n].at = "sent"
  /\ n \notin handlers[t]
  /\ n > Len(answers[t])

(* As long as the transport is not aborted, a request loses its callbacks  *)
(* unheard to one thing only: the error script of an older request that    *)
(* had its answer, run so late that cleanupIframe finds the newer id.  No  *)
(* failed request silences its retry, and none that of the other iframe.   *)
SilencedByLateEnd ==
  ~aborted =>
    \A t \in Types : \A n \in DOMAIN requests[t] :
      Silent(t, n) =>
        \E m \in 1..(n - 1) : requests[t][m].completed /\ requests[t][m].ended

(* Every request is answered in the end, also one that was made before     *)
(* there was a body, or the transport is aborted; but where the callbacks  *)
(* are all that can report an error (not in IE) one may be silenced, and   *)
(* on WebKit none is sent (_createIframes, _request, checkForError).       *)
RequestsAnswered ==
  \A t \in Types, n \in Ids :
    (Made(t) >= n) ~>
      \/ aborted \/ Len(answers[t]) >= n
      \/ browser = "WebKit"
      \/ browser = "other" /\ n \in DOMAIN requests[t] /\ Silent(t, n)
=============================================================================
