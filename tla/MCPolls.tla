------------------------------- MODULE MCPolls -------------------------------
(***************************************************************************)
(* Whether the polls of both servers end.  The two share no state: a       *)
(* behaviour is one of a session of the Ruby server (CspServer) or of one  *)
(* of the node server (NodeSession), `part' says which, and the other      *)
(* stays as it began.                                                      *)
(***************************************************************************)
EXTENDS MCCspServer

CONSTANTS MaxOut, MaxIn    \* bounds of NodeSession

VARIABLES
  part,
  session, readyState, variables, outgoing, lastOutId, acked, nulls, incoming,
  lastInId, received, poll, timeout, running

\* What requests change: nothing, or one of these is set.
Changes ==
  {[field |-> "none", value |-> FALSE]} \cup
  {[field |-> f, value |-> TRUE] : f \in {"isStreaming", "interval", "sse", "contentType"}}

Node == INSTANCE NodeSession

nodeVars ==
  <<session, readyState, variables, outgoing, lastOutId, acked, nulls, incoming,
    lastInId, received, poll, timeout, running>>
allVars == <<part, vars, nodeVars>>

Ruby(A) == part = "ruby" /\ A /\ UNCHANGED <<part, nodeVars>>
OfNode(A) == part = "node" /\ A /\ UNCHANGED <<part, vars>>

PollsInit == part \in {"ruby", "node"} /\ Init /\ Node!Init

PollsNext == Ruby(Next) \/ OfNode(Node!Next)

\* The fairness of the two.
PollsFairness ==
  /\ WF_allVars(Ruby(Tick))
  /\ \A t \in 1..MaxComets : WF_allVars(Ruby(TimerFires(t)))
  /\ WF_allVars(OfNode(Node!Continue))
  /\ SF_allVars(OfNode(\E t \in 1..MaxComets : Node!DurationFires(t)))

PollsSpec == PollsInit /\ [][PollsNext]_allVars /\ PollsFairness
-----------------------------------------------------------------------------
(* The current response of the node server is completed, replaced or taken *)
(* down in the end, in a session that never asks for server-sent events.   *)
PollEnds == Node!PollEnds
=============================================================================
