---------------------------- MODULE OrderedStream ----------------------------
(***************************************************************************)
(* What the comet half of a CSP session promises: the application of the   *)
(* client reads a run of consecutive packets of what the server sent, each *)
(* once and in order.  The run may start late and stop early; it has no    *)
(* hole.                                                                   *)
(***************************************************************************)
EXTENDS Integers, Sequences

CONSTANTS Values

VARIABLES
  sent,   \* everything the server was made to send
  first,  \* index of the first packet read, 0 while nothing was
  read    \* what was read, in order

vars == <<sent, first, read>>

Init == sent = <<>> /\ first = 0 /\ read = <<>>

Send(v) ==
  /\ sent' = Append(sent, v)
  /\ UNCHANGED <<first, read>>

ReadFirst(i) ==
  /\ first = 0
  /\ first' = i
  /\ read' = <<sent[i]>>
  /\ UNCHANGED sent

ReadNext ==
  /\ first # 0
  /\ first + Len(read) \in DOMAIN sent
  /\ read' = Append(read, sent[first + Len(read)])
  /\ UNCHANGED <<sent, first>>

Next ==
  \/ \E v \in Values : Send(v)
  \/ \E i \in DOMAIN sent : ReadFirst(i)
  \/ ReadNext

Spec == Init /\ [][Next]_vars
=============================================================================
