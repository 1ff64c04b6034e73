------------------------------- MODULE Windows -------------------------------
(***************************************************************************)
(* A connection between two windows of a browser: the Listener of          *)
(* net/env/browser/postmessage.js (that of iframe.js is the same) in one   *)
(* and its Connector in the other, with the onConnect of both from         *)
(* net/interfaces.js.                                                      *)
(*                                                                         *)
(* postMessage keeps the order of what goes from a window to another.  The *)
(* Listener knows its clients by the names of their windows, and a name    *)
(* outlives a reload: the new document connects under it, and what is      *)
(* still posted to the window reaches the new document.                    *)
(***************************************************************************)
EXTENDS Naturals, Sequences

CONSTANTS
  MaxDocuments,   \* bound: documents loaded into the client's window
  ClientPosts,    \* bound: what a document writes
  ServerPosts     \* bound: what a server protocol writes
ASSUME WindowsAssumption ==
  MaxDocuments \in Nat /\ ClientPosts \in Nat /\ ServerPosts \in Nat

Nobody == 0
MaxCloses == 2    \* bound: calls of loseConnection by a document; a server: one

VARIABLES
  document,   \* the number of the document in the client's window
  client,     \* its Connector and protocol, see NewClient
  target,     \* this._clients[name] of the Listener: a server protocol
  servers,    \* the server protocols that were built, see NewServer
  toServer,   \* messages posted to the Listener's window
  toClient    \* messages posted to the client's window

windowVars == <<document, client, target, servers, toServer, toClient>>
-----------------------------------------------------------------------------
Message(type, from, n) == [type |-> type, from |-> from, n |-> n]

NewClient ==
  [asked |-> FALSE,       \* connect() was called
   transport |-> FALSE,   \* this._transport is there
   made |-> 0, lost |-> 0,        \* calls of the protocol
   wrote |-> 0, closes |-> 0,     \* what its application did
   got |-> <<>>]                  \* what it was given

NewServer(d) ==
  [of |-> d, lost |-> 0,
   threw |-> FALSE,       \* the last call of its connectionLost threw
   wrote |-> 0, closes |-> 0, got |-> <<>>]

\* An application stops writing once it was told that the connection is lost.
ClientCalls == client.transport /\ client.lost = 0
ServerCalls(p) == servers[p].lost = 0

(* Connector.connect, once in a document. *)
ConnectWindow ==
  /\ ~client.asked
  /\ client' = [client EXCEPT !.asked = TRUE]
  /\ toServer' = Append(toServer, Message("open", document, 0))
  /\ UNCHANGED <<document, target, servers, toClient>>

(* Transport.write and loseConnection: neither changes the transport. *)
ClientWrites ==
  /\ ClientCalls /\ client.wrote < ClientPosts
  /\ client' = [client EXCEPT !.wrote = @ + 1]
  /\ toServer' = Append(toServer, Message("data", document, client.wrote + 1))
  /\ UNCHANGED <<document, target, servers, toClient>>

ClientLoses ==
  /\ ClientCalls /\ client.closes < MaxCloses
  /\ client' = [client EXCEPT !.closes = @ + 1]
  /\ toServer' = Append(toServer, Message("close", document, client.wrote))
  /\ UNCHANGED <<document, target, servers, toClient>>

ServerWrites(p) ==
  /\ ServerCalls(p) /\ servers[p].wrote < ServerPosts
  /\ servers' = [servers EXCEPT ![p].wrote = @ + 1]
  /\ toClient' = Append(toClient, Message("data", p, servers[p].wrote + 1))
  /\ UNCHANGED <<document, client, target, toServer>>

ServerLoses(p) ==
  /\ ServerCalls(p) /\ servers[p].closes = 0
  /\ servers' = [servers EXCEPT ![p].closes = @ + 1]
  /\ toClient' = Append(toClient, Message("close", p, servers[p].wrote))
  /\ UNCHANGED <<document, client, target, toServer>>

(* The document is loaded again: nobody is told, and what was on its way   *)
(* to the old one is dropped.                                              *)
Reload ==
  /\ document < MaxDocuments /\ client.asked
  /\ document' = document + 1
  /\ client' = NewClient
  /\ toClient' = <<>>
  /\ UNCHANGED <<target, servers, toServer>>
-----------------------------------------------------------------------------
(* The Listener's _onMessage. *)
Received(type) == toServer # <<>> /\ Head(toServer).type = type /\ toServer' = Tail(toServer)

(* The answer goes out before onConnect, in which the protocol may write.  *)
Answered(p, greets) ==
  toClient \o <<Message("open", p, 0)>> \o (IF greets THEN <<Message("data", p, 1)>> ELSE <<>>)

KeptTarget(p) == IF target = Nobody THEN p ELSE target        \* mutated form
NewTarget(p) == p

(* open: a new protocol, in the place of one that may still be there. *)
ListenerOpens(greets) ==
  /\ Received("open")
  /\ greets => ServerPosts > 0
  /\ LET p == Len(servers) + 1
     IN  /\ servers' = Append(servers, [NewServer(Head(toServer).from) EXCEPT
                                          !.wrote = IF greets THEN 1 ELSE 0])
         /\ target' = NewTarget(p)
         /\ toClient' = Answered(p, greets)
  /\ UNCHANGED <<document, client>>

(* data for nobody throws in the handler, and close does. *)
ListenerReceives ==
  /\ Received("data")
  /\ servers' = IF target = Nobody THEN servers
                ELSE [servers EXCEPT ![target].got = Append(@, Head(toServer))]
  /\ UNCHANGED <<document, client, target, toClient>>

NoReply == toClient                                           \* mutated form
Reply == Append(toClient, Message("close", target, servers[target].wrote))
Deleted == Nobody

Told(p, throws) == [servers[p] EXCEPT !.lost = @ + 1, !.threw = throws]

(* What throws in connectionLost leaves the client without an answer, and  *)
(* the protocol where a second close finds it.                             *)
ListenerCloses(throws) ==
  /\ Received("close")
  /\ IF target = Nobody
       THEN UNCHANGED <<servers, toClient, target>>
       ELSE /\ servers' = [servers EXCEPT ![target] = Told(target, throws)]
            /\ IF throws
                 THEN UNCHANGED <<toClient, target>>
                 ELSE toClient' = Reply /\ target' = Deleted
  /\ UNCHANGED <<document, client>>

(* The Connector's _onMessage: another 'open' replaces the transport, data *)
(* and close without one throw; no reply to a close.                       *)
ConnectorReceives ==
  /\ toClient # <<>> /\ client.asked
  /\ toClient' = Tail(toClient)
  /\ LET m == Head(toClient)
     IN  client' =
           CASE m.type = "open" -> [client EXCEPT !.transport = TRUE, !.made = @ + 1]
             [] m.type = "data" /\ client.transport -> [client EXCEPT !.got = Append(@, m)]
             [] m.type = "close" /\ client.transport -> [client EXCEPT !.lost = @ + 1]
             [] OTHER -> client
  /\ UNCHANGED <<document, target, servers, toServer>>

(* Before connect() no handler is there: the message is gone. *)
NobodyReceives ==
  /\ toClient # <<>> /\ ~client.asked
  /\ toClient' = Tail(toClient)
  /\ UNCHANGED <<document, client, target, servers, toServer>>
-----------------------------------------------------------------------------
WindowsInit ==
  /\ document = 1
  /\ client = NewClient
  /\ target = Nobody
  /\ servers = <<>>
  /\ toServer = <<>> /\ toClient = <<>>

Messages ==
  \/ \E greets \in BOOLEAN : ListenerOpens(greets)
  \/ \E throws \in BOOLEAN : ListenerCloses(throws)
  \/ ListenerReceives \/ ConnectorReceives \/ NobodyReceives

WindowsNext ==
  \/ ConnectWindow \/ ClientWrites \/ ClientLoses \/ Reload
  \/ \E p \in DOMAIN servers : ServerWrites(p) \/ ServerLoses(p)
  \/ Messages

WindowsSpec == WindowsInit /\ [][WindowsNext]_windowVars /\ WF_windowVars(Messages)
-----------------------------------------------------------------------------

(* A server protocol that is told of its loss hears of it once, however    *)
(* often both ends close, unless it threw when it did; and after all that  *)
(* the document wrote before, in order and without a word of the documents *)
(* before and after it in the same window (Listener._onMessage).           *)
WrittenBeforeClose ==
  [][\A p \in DOMAIN servers :
       servers'[p].lost > servers[p].lost =>
         LET of == servers[p].of
         IN  /\ servers[p].lost = 0 \/ servers[p].threw
             /\ Head(toServer).from = of
             /\ servers[p].got =
                  [i \in 1..Head(toServer).n |-> Message("data", of, i)]]_windowVars

(* A client that closes hears of its loss in the end, unless it is loaded  *)
(* again or the protocol of the other end threw when it was told, although *)
(* loseConnection itself tells nobody.                                     *)
CloseIsAnswered ==
  \A d \in 1..MaxDocuments :
    (document = d /\ client.closes > 0) ~>
      \/ document # d \/ client.lost > 0
      \/ \E p \in DOMAIN servers : servers[p].of = d /\ servers[p].threw
=============================================================================
