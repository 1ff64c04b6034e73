------------------------------ MODULE MCLibrary ------------------------------
(***************************************************************************)
(* The library below the transports: the module loader, the objects that   *)
(* call functions back, and the codecs with the readers that use them.     *)
(* They share no state: a behaviour is one of any of them, `part' says     *)
(* which, and the others stay as they began.                               *)
(***************************************************************************)
EXTENDS Loader, Callback, PubSub, Later, TextStream

VARIABLE part
vars == <<part, loaderVars, callbackVars, pubSubVars, laterVars, textVars>>

Load ==
  LoaderNext /\ UNCHANGED <<callbackVars, pubSubVars, laterVars, textVars>>
CallBack ==
  CallbackNext /\ UNCHANGED <<loaderVars, pubSubVars, laterVars, textVars>>
Signal ==
  PubSubNext /\ UNCHANGED <<loaderVars, callbackVars, laterVars, textVars>>
Wait ==
  LaterNext /\ UNCHANGED <<loaderVars, callbackVars, pubSubVars, textVars>>
Code ==
  TextNext /\ UNCHANGED <<loaderVars, callbackVars, pubSubVars, laterVars>>

\* What the loader and the readers begin with is one thing elsewhere.
Init ==
  /\ part \in {"loader", "callback", "pubsub", "later", "text"}
  /\ LoaderInit /\ CallbackInit /\ PubSubInit /\ LaterInit /\ TextInit
  /\ part # "loader" => files = {} /\ roots = <<CHOOSE r \in Roots : TRUE>>
  /\ part # "text" => writer = "node" /\ text = << <<65>> >> /\ encoding = Plain

Next ==
  /\ UNCHANGED part
  /\ \/ part = "loader" /\ Load
     \/ part = "callback" /\ CallBack
     \/ part = "pubsub" /\ Signal
     \/ part = "later" /\ Wait
     \/ part = "text" /\ Code

Spec == Init /\ [][Next]_vars
=============================================================================
