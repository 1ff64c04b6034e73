------------------------------- MODULE PubSub -------------------------------
(***************************************************************************)
(* One object of lib/PubSub.js: subscribers are called by publish, and may *)
(* subscribe, unsubscribe and publish while they are called, or throw.  A  *)
(* subscription is its context and a number of its own, which stands for   *)
(* the method.                                                             *)
(***************************************************************************)
EXTENDS Naturals, Sequences, SequencesExt, Sublist

CONSTANTS Signals,          \* signals that are published
          AnySignal,        \* the signal of those who hear every signal
          Contexts,
          MaxSubscriptions, \* bound: calls of subscribe
          MaxUnsubscribes,  \* bound: calls of unsubscribe
          MaxPublishes      \* bound: calls of publish

ASSUME PubSubAssumption ==
  /\ AnySignal \notin Signals
  /\ {MaxSubscriptions, MaxUnsubscribes, MaxPublishes} \subseteq Nat

VARIABLES subscribers,  \* _subscribers: signal -> the subscriptions in order
          publishing,   \* calls of publish under way, innermost first
          subscriptions, unsubscribes, publishes,
          dropped       \* the numbers of all that was unsubscribed

pubSubVars == <<subscribers, publishing, subscriptions, unsubscribes, publishes,
                dropped>>

AllSignals == Signals \cup {AnySignal}
Subscription == [context : Contexts, number : 1..MaxSubscriptions]
Subscribed == UNION {ToSet(subscribers[s]) : s \in AllSignals}

PubSubInit ==
  /\ subscribers = [s \in AllSignals |-> <<>>] /\ publishing = <<>>
  /\ subscriptions = 0 /\ unsubscribes = 0 /\ publishes = 0 /\ dropped = {}

Inside == publishing # <<>> => Head(publishing).inside

(* A loop of publish: over a copy of the subscribers of `of', AnySignal or the   *)
(* signal; the number of those called; whether one of them is running;     *)
(* and what had been dropped when the copy was made.                       *)
LoopOver(signal, of) ==
  [signal |-> signal, of |-> of, copy |-> subscribers[of], called |-> <<>>,
   inside |-> FALSE, before |-> dropped]

Publish(signal) ==
  /\ Inside /\ publishes < MaxPublishes /\ publishes' = publishes + 1
  /\ publishing' = <<LoopOver(signal, AnySignal)>> \o publishing
  /\ UNCHANGED <<subscribers, subscriptions, unsubscribes, dropped>>

NoCopy(loop) == subscribers[loop.of]  \* mutated form

Copy(loop) == loop.copy

CallsSubscriber ==
  /\ publishing # <<>>
  /\ LET loop == Head(publishing)
         i == Len(loop.called) + 1
     IN  /\ ~loop.inside /\ i <= Len(Copy(loop))
         /\ publishing' = [publishing EXCEPT
              ![1].inside = TRUE, ![1].called = Append(@, Copy(loop)[i])]
  /\ UNCHANGED <<subscribers, subscriptions, unsubscribes, publishes, dropped>>

SubscriberReturns ==
  /\ publishing # <<>> /\ Head(publishing).inside
  /\ publishing' = [publishing EXCEPT ![1].inside = FALSE]
  /\ UNCHANGED <<subscribers, subscriptions, unsubscribes, publishes, dropped>>

(* The exception leaves publish: the subscribers behind are not called. *)
SubscriberThrows ==
  /\ publishing # <<>> /\ Head(publishing).inside
  /\ publishing' = Tail(publishing)
  /\ UNCHANGED <<subscribers, subscriptions, unsubscribes, publishes, dropped>>

Ended(loop) == ~loop.inside /\ Len(loop.called) >= Len(Copy(loop))

(* After those of AnySignal come those of the signal, copied only now. *)
RoundEnds ==
  /\ publishing # <<>> /\ Ended(Head(publishing))
  /\ LET loop == Head(publishing) IN
     publishing' = IF loop.of = AnySignal
                   THEN <<LoopOver(loop.signal, loop.signal)>> \o Tail(publishing)
                   ELSE Tail(publishing)
  /\ UNCHANGED <<subscribers, subscriptions, unsubscribes, publishes, dropped>>

Subscribe(signal, context) ==
  /\ Inside /\ subscriptions < MaxSubscriptions
  /\ subscriptions' = subscriptions + 1
  /\ subscribers' = [subscribers EXCEPT ![signal] =
       Append(@, [context |-> context, number |-> subscriptions + 1])]
  /\ UNCHANGED <<publishing, unsubscribes, publishes, dropped>>

(* The loop that splices: its index goes back after each removal. *)
Removed(subs, leaving) ==
  Sublist(subs, {i \in 1..Len(subs) : subs[i] \notin leaving})

Unsubscribe(signal, leaving) ==
  /\ Inside /\ unsubscribes < MaxUnsubscribes
  /\ unsubscribes' = unsubscribes + 1
  /\ dropped' = dropped \cup {c.number : c \in leaving}
  /\ subscribers' = [subscribers EXCEPT ![signal] = Removed(@, leaving)]
  /\ UNCHANGED <<publishing, subscriptions, publishes>>

(* With a context alone, or with the method of one subscription. *)
UnsubscribeAll(signal, context) ==
  Unsubscribe(signal, {c \in ToSet(subscribers[signal]) : c.context = context})

UnsubscribeOne(signal, number) ==
  Unsubscribe(signal, {c \in ToSet(subscribers[signal]) : c.number = number})

PubSubNext ==
  \/ CallsSubscriber \/ SubscriberReturns \/ SubscriberThrows \/ RoundEnds
  \/ \E signal \in Signals : Publish(signal)
  \/ \E signal \in AllSignals :
       \/ \E context \in Contexts : Subscribe(signal, context) \/ UnsubscribeAll(signal, context)
       \/ \E number \in 1..MaxSubscriptions : UnsubscribeOne(signal, number)

PubSubSpec == PubSubInit /\ [][PubSubNext]_pubSubVars

---------------------------------------------------------------------------
(* Properties *)

(* Whoever comes or goes while a publish calls its subscribers, and        *)
(* whatever they publish themselves: one that stays is called once, and    *)
(* one that had unsubscribed before the publish copied them is not called. *)
SubscribersHear ==
  \A k \in 1..Len(publishing) :
    LET loop == publishing[k] IN
    /\ IsInjective(loop.called)
    /\ \A c \in ToSet(loop.called) : c.number \notin loop.before
    /\ Ended(loop) => ToSet(loop.copy) \cap ToSet(subscribers[loop.of]) \subseteq ToSet(loop.called)

=============================================================================
