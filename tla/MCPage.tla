-------------------------------- MODULE MCPage --------------------------------
(***************************************************************************)
(* What a page uses beside the CSP session over XMLHttpRequests: transports*)
(* that need none, and framed protocols over a connection that cuts the    *)
(* data anywhere.  They share no state: a behaviour is one of any of them, *)
(* `part' says which, and the others stay as they began.                   *)
(***************************************************************************)
EXTENDS JsonpTransport, Windows, MsppProtocol, Lines

VARIABLE part
vars == <<part, jsonpVars, windowVars, msppVars, linesVars>>

Jsonp(A) ==
  part = "jsonp" /\ A /\ UNCHANGED <<part, windowVars, msppVars, linesVars>>
Window(A) ==
  part = "windows" /\ A /\ UNCHANGED <<part, jsonpVars, msppVars, linesVars>>
Stream(A) ==
  part = "streams" /\ A /\ UNCHANGED <<part, jsonpVars, windowVars, linesVars>>
Line(A) ==
  part = "lines" /\ A /\ UNCHANGED <<part, jsonpVars, windowVars, msppVars>>

\* What a part begins with is one thing in the other parts.
Init ==
  /\ part \in {"jsonp", "windows", "streams", "lines"}
  /\ JsonpInit /\ WindowsInit /\ MsppInit /\ LinesInit
  /\ part # "jsonp" => body /\ browser = "other"
  /\ part # "lines" => rtjp

Next ==
  Jsonp(JsonpNext) \/ Window(WindowsNext) \/ Stream(MsppNext) \/ Line(LinesNext)

Fairness ==
  /\ WF_vars(Window(Messages))
  /\ WF_vars(Jsonp(BodyAppears)) /\ WF_vars(Jsonp(CreateIframes))
  /\ \A t \in Types, n \in Ids :
       /\ WF_vars(Jsonp(n \in DOMAIN requests[t] /\ Request(t, n)))
       /\ WF_vars(Jsonp(n \in DOMAIN requests[t] /\ Browser(t, n)))
       /\ WF_vars(Jsonp(n \in DOMAIN requests[t] /\ Ends(t, n)))

Spec == Init /\ [][Next]_vars /\ Fairness
=============================================================================
