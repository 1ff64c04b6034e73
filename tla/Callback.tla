------------------------------ MODULE Callback ------------------------------
(***************************************************************************)
(* One object of lib/Callback.js: functions wait in it until it is fired,  *)
(* or until every result it was chained to has come.  A function may call  *)
(* the object again while the object is calling it, and it may throw.      *)
(***************************************************************************)
EXTENDS Naturals, Sequences, SequencesExt, FiniteSets

CONSTANTS ChosenIds,    \* ids that chain may be given; a number may equal a counted one
          MaxFunctions, \* bound: functions given to run
          MaxFires,     \* bound: calls of fire
          MaxChains,    \* bound: calls of chain
          MaxResets     \* bound: calls of reset

VARIABLES fired,      \* _fired
          queue,      \* _run, the functions named by their order
          fireArgs,   \* _args: a firing, "results" or "none"
          pending,    \* _pending
          stat,       \* the ids in _stat
          nextId,     \* _id
          loops,      \* calls under way, innermost first: [rest, args, inside]
          called,     \* the functions called, with what arguments
          lost,       \* the functions an exception kept from being called
          tokens,     \* the functions chain returned: [id, reported]
          cause,      \* what fired the object last: "app" or "join"
          fires, resets,
          resetSince  \* reset was called after the last result

callbackVars == <<fired, queue, fireArgs, pending, stat, nextId, loops, called,
                  lost, tokens, cause, fires, resets, resetSince>>

Functions == 1..MaxFunctions
Called == {call[1] : call \in ToSet(called)}
InLoops == UNION {ToSet(loops[i].rest) : i \in 1..Len(loops)}
Given == Called \cup lost \cup InLoops \cup ToSet(queue)

CallbackInit ==
  /\ fired = FALSE /\ queue = <<>> /\ fireArgs = "none" /\ pending = 0
  /\ stat = {} /\ nextId = 0 /\ loops = <<>> /\ called = <<>> /\ lost = {}
  /\ tokens = <<>> /\ cause = "none" /\ fires = 0 /\ resets = 0
  /\ resetSince = FALSE

(* The application, or a function that is being called, is running. *)
Runs == loops # <<>> => Head(loops).inside

Loop(functions, args) ==
  <<[rest |-> functions, args |-> args, inside |-> FALSE]>> \o loops

(* run: at once if the object is fired. *)
Run ==
  /\ Runs /\ Cardinality(Given) < MaxFunctions
  /\ LET f == Cardinality(Given) + 1 IN
     IF fired THEN loops' = Loop(<<f>>, fireArgs) /\ UNCHANGED queue
     ELSE queue' = Append(queue, f) /\ UNCHANGED loops
  /\ UNCHANGED <<fired, fireArgs, pending, stat, nextId, called, lost, tokens,
                 cause, fires, resets, resetSince>>

FiredAfter(args, by) ==  \* mutated form
  IF fired THEN UNCHANGED <<fired, queue, fireArgs, loops, cause>>
  ELSE /\ fired' = TRUE /\ fireArgs' = args /\ cause' = by
       /\ loops' = Loop(queue, args)
       /\ UNCHANGED queue

Fired(args, by) ==
  IF fired THEN UNCHANGED <<fired, queue, fireArgs, loops, cause>>
  ELSE /\ fired' = TRUE /\ fireArgs' = args /\ cause' = by
       /\ loops' = Loop(queue, args)
       /\ queue' = <<>>

Fire ==
  /\ Runs /\ fires < MaxFires /\ fires' = fires + 1
  /\ Fired("fired", "app")
  /\ UNCHANGED <<pending, stat, nextId, called, lost, tokens, resets, resetSince>>

Reset ==
  /\ Runs /\ resets < MaxResets /\ resets' = resets + 1
  /\ fired' = FALSE /\ fireArgs' = "none" /\ resetSince' = TRUE
  /\ UNCHANGED <<queue, pending, stat, nextId, loops, called, lost, tokens,
                 cause, fires>>

ChainResets == fired' = FALSE /\ fireArgs' = "none"

Chain(id) ==
  /\ Runs /\ Len(tokens) < MaxChains
  /\ pending' = pending + 1
  /\ ChainResets
  /\ tokens' = Append(tokens, [id |-> id, reported |-> FALSE])
  /\ UNCHANGED <<queue, stat, loops, called, lost, cause, fires, resets,
                 resetSince>>

ChainCounted == Chain(nextId) /\ nextId' = nextId + 1

(* An id that the application gives; it may be one that is counted too. *)
ChainNamed == \E id \in ChosenIds : Chain(id) /\ UNCHANGED nextId

FirstReport(t) == tokens[t].id \notin stat

TestedFirst == pending = 0  \* mutated form

(* pending is counted down, then tested. *)
AllReported == pending <= 1

(* _deferred: the result of one chain has come, maybe for a second time. *)
Deferred(t) ==
  /\ Runs /\ t \in 1..Len(tokens)
  /\ tokens' = [tokens EXCEPT ![t].reported = TRUE]
  /\ IF FirstReport(t)
     THEN /\ stat' = stat \cup {tokens[t].id}
          /\ pending' = IF pending = 0 THEN 0 ELSE pending - 1
          /\ resetSince' = FALSE
          /\ IF AllReported THEN Fired("results", "join")
             ELSE UNCHANGED <<fired, queue, fireArgs, loops, cause>>
     ELSE UNCHANGED <<stat, pending, resetSince, fired, queue, fireArgs, loops, cause>>
  /\ UNCHANGED <<nextId, called, lost, fires, resets>>

CallsNext ==
  /\ loops # <<>> /\ ~Head(loops).inside /\ Head(loops).rest # <<>>
  /\ called' = Append(called, <<Head(Head(loops).rest), Head(loops).args>>)
  /\ loops' = [loops EXCEPT ![1].rest = Tail(@), ![1].inside = TRUE]
  /\ UNCHANGED <<fired, queue, fireArgs, pending, stat, nextId, lost, tokens,
                 cause, fires, resets, resetSince>>

FunctionReturns ==
  /\ loops # <<>> /\ Head(loops).inside
  /\ loops' = [loops EXCEPT ![1].inside = FALSE]
  /\ UNCHANGED <<fired, queue, fireArgs, pending, stat, nextId, called, lost,
                 tokens, cause, fires, resets, resetSince>>

LoopEnds ==
  /\ loops # <<>> /\ ~Head(loops).inside /\ Head(loops).rest = <<>>
  /\ loops' = Tail(loops)
  /\ UNCHANGED <<fired, queue, fireArgs, pending, stat, nextId, called, lost,
                 tokens, cause, fires, resets, resetSince>>

(* The exception leaves the loop, to whoever fired the object: what was    *)
(* taken from the queue is not put back.                                   *)
FunctionThrows ==
  /\ loops # <<>> /\ Head(loops).inside
  /\ lost' = lost \cup ToSet(Head(loops).rest)
  /\ loops' = Tail(loops)
  /\ UNCHANGED <<fired, queue, fireArgs, pending, stat, nextId, called, tokens,
                 cause, fires, resets, resetSince>>

CallbackNext ==
  \/ Run \/ Fire \/ Reset \/ ChainCounted \/ ChainNamed
  \/ \E t \in 1..MaxChains : Deferred(t)
  \/ CallsNext \/ FunctionReturns \/ LoopEnds \/ FunctionThrows

CallbackSpec == CallbackInit /\ [][CallbackNext]_callbackVars

---------------------------------------------------------------------------
(* Properties *)

(* However run, fire and reset are nested in one another, no function is   *)
(* called twice, and none is forgotten but by an exception of another.     *)
CalledOnce ==
  /\ \A i, j \in 1..Len(called) : called[i][1] = called[j][1] => i = j
  /\ Called \cap (lost \cup InLoops \cup ToSet(queue)) = {}
  /\ lost # {} \/ Cardinality(Given) = Len(called) + Cardinality(InLoops) + Len(queue)

(* The results of chain fire the object when the last of them has come:    *)
(* not before, also when a new chain is begun by a function that is being  *)
(* called, and then at once, if their ids differ and nothing reset it.     *)
JoinWaits ==
  LET all == \A t \in 1..Len(tokens) : tokens[t].reported
      different == \A t, u \in 1..Len(tokens) : tokens[t].id = tokens[u].id => t = u
  IN  /\ fired /\ cause = "join" => all
      /\ tokens # <<>> /\ ~resetSince /\ all /\ different => fired

=============================================================================
