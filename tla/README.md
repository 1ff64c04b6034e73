# Verification of orbited-ruby

TLA+ specifications of the programs in this repository, the TLC configurations
that check them on small instances, and proofs checked by TLAPS.

## The system

The repository carries one protocol, CSP (Comet Session Protocol: a
bidirectional stream over HTTP requests), and everything around it.

| Component | Source | State it keeps | Operations |
|---|---|---|---|
| Ruby CSP server | `lib/csp.rb`, `lib/csp/*.rb` | registry of sessions, per session: settings, unsent and unacknowledged packets, current `AsyncBody`, timer, closed flag; the reactor's `next_tick` queue | `/handshake`, `/comet`, `/send`, `/close`, `send_data`, `flush!`, the duration timer |
| Ruby applications | `examples/echoserver.ru`, `chatserver.ru`, `orbited.ru` | the sessions of the chat; the sockets of the multiplexer | `post_init`, `receive_data`, `unbind` |
| JavaScript CSP client | `lib/static/jsio/net/csp/client.js` | ready state, write buffer and packets in flight, last id sent and last id received, five timers | `connect`, `write`, `close`, success and failure of handshake, send and comet |
| Client transports | `net/csp/transports.js` | one XHR per kind of request, or one iframe | `handshake`, `comet`, `send`, `abort` |
| node CSP server | `net/env/node/csp/server.js` | sessions, an outgoing buffer kept until acknowledged, an incoming buffer ordered by id, three timers | the same requests, `write`, `close`, session timeout |
| Multiplexers | `net/protocols/mspp.js`, `net/env/node/csp/proxy.js`, `examples/orbited.ru` | streams or sockets of a connection by id, frames that wait for it, buffers of unparsed bytes | open, write, close; frames open, data, close, error |
| Protocols | `net/buffer.js`, `net/protocols/*.js` | receive buffer, expected length or delimiter, state of the protocol | data received, frame sent |
| net framework | `net.js`, `net/interfaces.js`, `net/env*.js` | connector and listener states | connect, listen, connection made, lost |
| postmessage | `net/env/browser/postmessage.js`, `iframe.js` | server and client ends in two windows | open, data, close |
| Library | `lib/Callback.js`, `PubSub.js`, `net/later.js`, `Iterator.js` | subscribers, fired or pending results | fire, run, clear, publish, subscribe |
| jsio loader | `jsio.js`, `base.js`, `preprocessors/` | cache of modules, path table | import, resolve, compile |

**How they interact.** The client reaches a server only by HTTP requests: a
handshake gives a session id; one `/comet` at a time is held open by the server
until there is something to send or a duration has passed; `/send` carries
packets up; each request acknowledges the highest packet id the client has
seen. On the Ruby server requests, timers and `next_tick` jobs run on one
EventMachine thread and share the session object; the web server (Thin) opens
the answer's body one tick after the handler and fails it when the connection
breaks. Applications are called back from jobs and call `send_data` from
there. On the client the application is called back from within the handlers
and may write or close reentrantly.

**What is hard.** Jobs, timers and requests in an order nobody planned; a body
that exists before it is open; timers that outlive what they were started for;
handlers that raise halfway; requests lost, delayed or repeated by the network;
acknowledgements that are late; the two ends closing in different orders;
reassembly of frames from arbitrary chunks. `PROJECT.json` lists each at its
line under `hazards`.

**What makes each component correct.** Server: no hole, repetition or
reordering in the stream it writes; one timer and one open poll per session;
every poll ends; what is unsent gets written. Client: consecutive delivery,
writes conserved, callbacks in order, absorbing disconnection. The two
together: each direction is a run of what was written at the other end.
Framing: any chunking
of the bytes gives the same frames, and what an application writes before there
is a connection goes out once there is one. Windows: a server protocol
belongs to one document and hears everything that document wrote before it
closed. Loader: the code of a file runs once, and importers get its final
exports. Library: a callback, a subscriber and a value is called or given as
often as it should, whatever the functions that are called do meanwhile.

## The modules

### `CspServer`: one session of the Ruby server

`lib/csp/session.rb`, `application.rb`, `async_body.rb`, `async_request.rb`,
`packet.rb` and the applications of `examples/echoserver.ru` and
`chatserver.ru`.

| In the model | In the code |
|---|---|
| `registry` | whether `@@all_sessions` holds the session, and whether it was discarded |
| `packets`, `unsent`, `unacked` | every `Packet` made; the ids in `@unsent_packets` and `@unacknowledged_packets` |
| `comets` | one record per `/comet`: the state of its `AsyncBody` (`pending` until the web server opens it), whether its connection is gone, its duration |
| `timer`, `armed` | `@timer`, and the EventMachine timers that have not fired |
| `tickQueue`, `draining` | the jobs of `EventMachine.next_tick`, and those of the batch being run |
| `wire`, `calls` | history: each batch given to a body's block, each call made on the application |
| `Handshake`, `Comet`, `CspSend`, `Close` | the handlers of `Application` |
| `Tick` | one `next_tick` job: `post_init`, `receive_data` (with the `send_data` and `flush!` it causes), `unbind`, or the opening of a body |
| `TimerFires` | the block given to `start_timer` |
| `OtherSend`, `ConnectionLost` | a `send_data` on behalf of another session of the chat; the web server failing a body |

One handler, job or timer is one action, because the reactor has one thread;
what is split in the code (a body made now and opened on the next tick) is split
in the model. An exception is part of the action that raises it: the
assignments before it stay, those after it do not, and if a job or a timer
raises, the reactor is down.

### `CspClient`: one session of the JavaScript client

`net/csp/client.js` with the XHR transport of `net/csp/transports.js`. `writeBuffer`,
`packetsInFlight`, `lastSentId`, `lastEventId`, `readyState` and the three
null flags (`nulls`) carry the code's names; `timers` is the set of timeouts that
are set; `sendXhr` and `cometXhr` are the two request slots of the transport.
A write is a number, a packet is the run of writes it carries, a null carries
the empty run.

JavaScript runs a handler to its end, but `onconnect` and `onread` are called from the
middle of one, and the application may `write` or `close` there. `running` says
where such a handler stands, and the rest of it is a chain of actions
(`Continue`): `DeliverPacket`, `OnReadReturns`, `ReceivedNullPacket`,
`CorruptPacket`, `UnreadablePacket`, `PacketAhead`, `MissingPacket`, `PacketsDone`. Answers and
timers wait until `running = "none"`. Data that is no utf8 (`UnreadablePacket`) leaves the handler by an
exception before the comet goes out again, so that only the timeout is left. The network of this module is hostile on purpose:
any request may be answered by anything the handlers tell apart.

### `CspLink` and `OrderedStream`: the two together

`CspLink` instantiates both modules and lets each request of the client's two
slots travel, be handled by the server's action, and be answered; or fail for
the client at any of those points, in which case the server may still handle it
late (`abandoned`). `OrderedStream` is the abstract promise of the comet half:
the reader gets a run of consecutive packets of what was sent. `CspLink` implements it
under the mapping in `Promise` (`ReadsOrderedStream`).

### `NodeSession`: one session of the node server

`Session` and `Connection` of `net/env/node/csp/server.js`, which differs from the Ruby server
in almost everything: packets are kept until acknowledged, incoming
packets are put in order by id, the session has a timeout, and each request may change the
session's settings. `poll` holds what belongs to the comet: every response
ever opened with the ids written to it, the current one (`comet`, for
`cometResponse`), the timers set for responses (`durations`, of which only
`latest` is still known to the code as `durationTimer`) and the interval timer. A `/send` is stored by one
action, then delivered packet by packet (`Deliver`, `ReceiveEnds`,
`SendAnswered`) because `_receive` calls the application. Settings
are what the control tells apart: whether each is set. `session` is `torn` when a listener
of `eof` threw in `teardownSession`: the session is then over and still in `sessionDict`, and its requests are served.
`Unacked` is what `receiveAck` leaves: the buffer from the first packet above the
acknowledgement. An exception in a handler is answered 500. One in a timer is swallowed by `$setTimeout`
(`base.js:72`): with server-sent events and no streaming, an empty batch has no last packet, the
poll's timer throws, and the poll is then ended by the next packet alone. Listeners of `connection`, `connect` and `close` are
assumed to return.

### `NodeLink`: the client and the node server together

`NodeLink` instantiates `CspClient` and `NodeSession` as `CspLink` does its two, over the
same network: a request may fail for the client at any point, and what was under way
may still be handled, late. `sendStage` and `cometStage` say where the requests of the two XHRs are;
a `/send` is `handled` while the application of the server is being called, and
answered when its handler has ended, or refused if it threw. Here both directions keep what is
not acknowledged, so the promise is stronger: `ReadsFromTheFirst` is `OrderedStream` with a
run that begins at the first packet, and `WritesArriveOnce` says the same of the writes. The
one exception is in the code: a null that comes behind data in its batch
is stored as that data (`packetContent` is a `var` of the handler, `server.js:264`), so a
client that closes with a write to retry has that write received twice. The run reaches it with one fault.

### `JsonpTransport`: requests as script elements

The other transport of `net/csp/transports.js`. A request is a script element in an
iframe, followed by one that calls the error callback; a flag tells an answered
request from a failed one. `requests` holds how far each is, `handlers` the ids whose
callbacks are still in the iframe's window, `answers` what the session heard.
When a script loads and in what order the two run is the browser's affair
(`ScriptRuns`, `ScriptFails`, `Ends`); requests made before the document has a body
wait in `onReady` for `CreateIframes`. There are three kinds of browser (`browser`): IE calls the error callback when the script is
loaded, others run the second script, and on WebKit `_request` throws before either is written (`Placed`),
because `ebName` (`transports.js:369`) is no variable. `cleanupIframe` empties the callbacks of the iframe's latest id, whichever request
ended: a late error script can take those of the next request, which is then `Silent`.

### `Windows`: a connection between two windows

`net/env/browser/postmessage.js` with the `onConnect` of `net/interfaces.js`. Two queues carry
the messages; the `Listener` knows a client by the name of its window, which
outlives a reload (`Reload`), so messages of an old document may reach the protocol of the
new one's `open`. `NewClient` and `NewServer` are the records of the two ends. The listener answers a close after `connectionLost`
has returned; where that throws (`ListenerCloses(TRUE)`) there is no answer, and the protocol stays where a second close finds it.

### `Buffer`, `MsppProtocol` and `Lines`: framed protocols

`Buffer` (`net/buffer.js`) is a library of operators on the characters a buffer holds, including that
`peekBytes(0)` returns everything. `MsppProtocol` (`net/protocols/mspp.js`) is the client of the multiplexing protocol:
streams opened and written before, during and after connections, frames encoded character by character
because the bytes are cut anywhere and the length is parsed from what has come. Its other end is no part of
the repository and sends well-formed frames. `Lines` is `sendLine` and
`dataReceived` of `delimited.js`, with the numbered frames of `rtjp.js` and handlers that throw.

### `Loader`: the module loader

`jsio.js`: search of the paths (`FirstFound`, `Search`), registration before execution (`Execute`), nested imports as a
`stack`, exceptions that unwind it, exports replaced while a module runs, binding of the importer (`Bind`).
Which files exist, what a module imports, and when it throws or assigns `exports` is left open. In between, files
appear and `jsio.path` changes.

### `Callback`, `PubSub`, `Later`: objects that call functions back

One object each of `lib/Callback.js`, `lib/PubSub.js` and `net/later.js`. All three loop over functions that may
call the object again in the middle, or throw; the calls under way are a stack (`loops`,
`publishing`, `calls`), and an operation is enabled only while the application or a function being called runs.

### `Codecs` and `TextStream`: text cut anywhere

`Codecs` holds `decode` of `std/utf8.js` and both directions of `std/base64.js` as operators. Bytes are numbers; a character is
the sequence of its bytes, and there is one of each length. `Parsed` follows the search for the last first byte, and
`Recode` is the change of base with its padding; what the browser's own `decodeURIComponent` accepts is
`CharactersOf`. `TextStream` writes a text in pieces that end anywhere in a character, codes each as the client or the
node server would (`Coded`), and reads it with the buffer of `_cometSuccess` or of `Connection._receive` (`ReadUtf8`), while the reading
application changes its encoding (`SetEncoding`). When the client leaves utf8 with part of a character in its
buffer, the code tests `this._buffer`, which does not exist (`client.js:63`): the part stays and
comes out after utf8 is set again (`strayed`).

### `MCPage`, `MCLibrary`, `MCPolls`

`MCPage` takes the jsonp transport, the windows and the protocols, `MCLibrary` the loader, the library and the codecs, `MCPolls` a session of each server, of which it asks whether its polls end. Each puts components that share no state into one run: the variable `part` says which of them a behaviour is about,
and the others stay as they began.

## The runs

| Run | Module, cfg | Distinct states | What it shows |
|---|---|---|---|
| `server_safety` | `MCCspServer`, `ServerSafety` | 701,309 | each packet written once and in order, timed long polls, completed bodies stay completed, a finished session leaves the registry |
| `polls_end` | `MCPolls`, `Polls` | 162,760 | the current long poll of either server ends; what an open body of the Ruby server finds unsent is written |
| `client` | `CspClient`, `Client` | 45,937 | writes conserved, retries keep their packets, consecutive delivery, no request overwritten, no loop silently dead; the ready state never goes back; connecting settles, disconnecting ends, the comet comes back |
| `link` | `CspLink`, `Link` | 493,791 | nothing unseen is forgotten, nothing released is missing, every loss has a cause in either direction, and the refinement of `OrderedStream` |
| `node` | `MCNodeSession`, `Node` | 857,647 | responses carry unbroken runs and no open one waits beside a packet, ids are received in sequence, the current comet is timed |
| `node_link` | `NodeLink`, `NodeLink` | 2,194,107 | the client reads what was sent from the first packet on, nothing it has not seen is dropped, every write arrives once but for a null's repetition; refinement of `OrderedStream` |
| `page` | `MCPage`, `Page` | 276,617 | each jsonp request is answered once and in order, and in the end unless it is aborted, silenced by a late script (nothing else silences one) or on WebKit; a server protocol loses its client once, after all that one document wrote, and a client that closes hears of it, but for protocols that throw; a stream is opened once and before use on every connection; frames and lines are read as they were sent, wherever they are cut |
| `library` | `MCLibrary`, `Library` | 1,424,071 | code runs once, imports bind final exports, a package has one root; functions are called once, joins fire when all have reported, subscribers hear, values are not lost; text arrives as it was written, wherever it is cut |

The other four runs each check one statement of a comment of the
repository and end in a counterexample:

| Run | Statement | What the code does |
|---|---|---|
| `batches_go_to_open_bodies` | `async_body.rb:10`, `send_data` sends down the wire | the timer of a comet that `send_data` answered still fires, and flushes later packets into the finished body; they count as sent |
| `null_sent_back` | `client.js:124`, a null is sent back | `client.js:234` tests `this.READYSTATE`, which is undefined: the flight is not retried and the null never leaves |
| `responses_complete` | `server.js:253`, the response will always complete | `/close` with a comet open clears its timer and ends nothing; with two comets the older timer completes the newer one |
| `no_frame_skipped` | `mspp.js:12`, a frame is as long as it says | the answer to an open has no data, and `consumeBytes(0)` takes all that is behind it in the buffer |

**Bounds.** Every bound is a guard that holds an input back; none cuts a step
of the program. Two `/comet` requests are the fewest that overlap; two packets the
fewest that can be reordered, held in both buffers, or follow each other into
one body. The client gets two writes (one in flight, one waiting)
and three event ids (one delivered, one in sequence, one ahead), two to
an answer. In `CspLink` a third comet lets the client come back after one
failure; `NodeLink`, which keeps and repeats what is lost, has two, so that the second repeats the batch of the first, and one fault; two writes and two packets are the least that have an order. The node session receives two packets of data and a null, the least that
tells a repeated packet from the next, and sends two of its own. `Requests` of the Ruby
server are a polling, a streaming and a zero-duration client; `MCChanges` of the node
server turns each setting on. `polls_end` and the violation runs need
only one payload, and one packet of the client. The jsonp transport gets two requests in each iframe, so that the
scripts of one can meet the other; the windows one reload, two writes of a document (the least that has
an order) and one of the server. Two streams and two connections let a stream be opened
before, between and after; two frames of the other end and every way of cutting them, four lines, so that plain ones
and frames alternate. The loader has two roots, one package and two files, enough for a circle, for a
file under both roots and for a second import by the page; `Callback` three functions and three chains with one id that collides with a
counted one; `PubSub` three subscriptions in two contexts and a publish inside a publish;
`Later` two items and two handlers of each kind. Texts have up to three characters of one to four bytes, so that one can be complete, cut and missing;
two changes of encoding lead away and back. `CHECK_DEADLOCK FALSE` everywhere: sessions end, and the inputs are bounded.

**Fairness.** `CspServer`: weak fairness of `Tick` and of each timer, since EventMachine
runs its queue on every turn and fires what is due; clients owe nothing.
`CspClient`: a handler that called the application runs on, and a timer that is
set fires; no answer is ever owed, so the liveness properties show that
the timers alone keep the session from hanging. `NodeSession`: a handler runs on
(weak), and some duration timer that is set fires (strong, because `/send`
handlers keep interrupting the event loop). `JsonpTransport`: timers fire and scripts load or fail,
each request by itself. `RequestsAnswered` rests on nothing else and names what else may become of a request: the
transport is aborted, the browser is WebKit, or the request is `Silent`. `Windows`: what was posted is delivered. `CspLink`, `NodeLink`,
the protocols and the library have no fairness and check no liveness.

## The proofs

| Module | Theorem (property) | For every |
|---|---|---|
| `CspServerProofs` | `TypeCorrect` | set of payloads, application, settings and bounds |
| `CspServerSafety` | `StreamCorrect` (`WrittenOnceInOrder`, `BuffersContiguous`), `FinishedLeaves` (`FinishedSessionLeaves`), `CometsCorrect` (`SingleTimer`, `OpenCometIsTimed`, `OneBatchPerBody`), `CompletedBodiesStay` (`CompletedStays`) | the same |
| `CspClientProofs` | `ClientTypeCorrect`, `WritesAreConserved` (`WritesConserved`), `DeliveryIsConsecutive` (`DeliveredConsecutive`), `RequestsNotOverwritten` (`NoRequestOverwritten`), `LoopsStayAlive` (`LoopsAlive`), `ReadyStateNeverReturns` (`ReadyStateAdvances`), `RetriesKeepContent` (`RetriesKeepPackets`), `PacketsChain` (what has been sent carries the writes once, in order) | number of writes, event ids and size of answers |
| `CspLinkProofs` | `ForgottenSeen` (`ForgottenWasSeen`), `ReleasedReceived` (`ReleasedWasReceived`), `NothingLost` (`NothingLostWithoutCause`), `ReadsARun` (`ReadsOrderedStream`, the refinement) | number of writes, packets, comets and faults |
| `NodeSessionProofs` | `NodeTypeCorrect`, `BufferCorrect` (`UnackedKept`, what is not acknowledged stays in the buffer), `ReadingCorrect` (`ReceivedInSequence`), `ResponsesCorrect` (`ResponsesKeepUp`), `CurrentStaysTimed` (`CurrentIsTimed`) | number of packets, comets and kinds of change |
| `NodeLinkProofs` | `DroppedSeen` (`DroppedWasSeen`), `ReadsInOrder` (`ReadsFromTheFirst`, the refinement), `WritesArrive` (`WritesArriveOnce`) | number of writes, packets, comets and faults |
| `PageProofs` | `RequestsHeardOnce` (`AnsweredInOrder`), `OnlyLateEndsSilence` (`SilencedByLateEnd`), `StreamsAreOpened` (`OpenedOnceBeforeUse`), `LossComesLast` (`WrittenBeforeClose`) | number of requests; of streams, connections and payloads; of documents, writes and names |
| `LibraryProofs` | `CodeRunsOnce` (`RunsOnce`), `ExportsAreFinal` (`FinalExports`), `OneRootForPackage` (`PackageFromOneRoot`), `FunctionsAreCalled` (`CalledOnce`), `LastResultFires` (`JoinWaits`), `SubscribersAreCalled` (`SubscribersHear`), `NothingIsLost` (`NeverLost`) | graph of imports; functions and chains; subscriptions; items and handlers |

The only assumptions are those named in the modules: `Arrays` are among `Data`,
`Null` is not, `App` is one of the two examples, `Requests` are records of
settings, the two links are given natural numbers (`LinkBounds`, from which
`CspLinkProofs` derives that `Null` is no payload of its own), bounds are natural numbers. They are
evaluated by the runs. Before each proof TLC checked the inductive invariant on the run's instance.

*Server, stream.* `StreamInv` is `TypeOK` with the two properties themselves:
`WrittenOnceInOrder` needs to know that the unsent packets are the end of the stream, which
is what `BuffersContiguous` says, and every step of `flush!` keeps the two
only together. An action either drops acknowledged packets, or appends one and
perhaps flushes; the lemmas follow these three.

*Server, comets.* `CometInv` adds to the properties that a queued answer is for a body
still pending and that no body has two (`QueuedAnswers`), otherwise a job could open a body
that had been completed, and that a body written while open has completed
unless the session streams (`WrittenBodies`), otherwise the next flush would write to
it again. `CompletedStays` follows from the same invariant as an action property.

*Server, end of a session.* `FinishedSessionLeaves` is inductive beside the types: the only
actions that can empty the second buffer of a closed session, or close one with both empty, ask
`closed?` after they acknowledged, and discard it.

*Client, types and writes.* `ClientInv` adds `AnswerDue`: while the `send` slot has a
request, something is in flight. Without it an answer would have nothing to
acknowledge, and both the type and the conservation of writes would break.

*Client, loops.* `LoopInv` says what holds each of the two loops: at any
moment a request, a timer or a running handler, never two (`CometLoop`, `SendLoop`);
that a session which may still be reading after its end has made a null
(`NullsKept`), which is why an answer to the server's null cannot take the
ready state back; and that `_lastEventId` is the last id delivered as long as more may be
delivered (`Synced`). `RetryInv` speaks of the set of all packets ever sent: no id
above `_lastSentId`, one content to an id, and the null on top. `ChainInv` says of the same set
what an unbounded list of packets adds up to: the data packets are numbered from 1 without a gap, each
carries the writes after those of the one before (`Chain`), and the last ends where the buffer begins. The
sum over a list is never computed; a chain is given by the ends of its packets, so no recursion is needed.

*Client and Ruby server.* `LinkInv` joins the invariants of the two halves, each cited as it was proved,
with what only the two together have. Of the client: what it was offered and has read are packets
that the server made (`Offered`), and what it sends are batches the server accepts (`Flights`). Of the server, for what its
client has seen: a packet in neither buffer has been seen (`HeldOrSeen`). Of the network: no request,
not even an abandoned one, acknowledges more than the client has got past (`SendSeen`, `CometSeen`, `AbandonedSeen`).
An acknowledgement that is late is thereby a small one. The server half needs one
thing more, that each batch written is a run of ids (`RunsInv`: the unsent are the last ones made); since a body that
does not stream carries one batch, an answer is one run, and the step that reads a packet is `ReadFirst` or
`ReadNext` of `OrderedStream`. `GivenInv` adds, for `ReleasedWasReceived`, that the request of the `send` slot carries
what is in flight (`SendCarries`), that once it is answered all of that has been received (`AnsweredReceived`), and
that so has all that is acknowledged; what is queued for the application only moves to its calls.

*Nothing lost without a cause.* The first half speaks of the writes. `CarryInv`: while no request
has failed, what was received is exactly the writes up to some number (`UpTo`), which is
either those acknowledged or those and the ones in flight; the second once the request is
answered, the first as long as it is on its way or to be retried. The jobs are in order because a
request can bring its packet only in the first state (`OrderJoined`). The second half speaks of the packets, under the premiss that
no batch went to a body that was over (`Calm`). `OnceInv` says where each packet of the server is
that the client has not got past (`AllWait`): unsent, on the body the held comet waits for, or
in the answer being read. For a packet just written this needs that the last body, if it may still be written to, is the one
that the comet waits for (`LivePolled`), which a failed request would break; for a comet just
answered it gives that the packet before those of the answer has been seen, so the answer is in turn (`InTurn`, `NextExpected`) and
the client finds neither a hole nor a first packet other than the first.

*node server.* `EndsAt` says what a buffer
keeps between the two steps an action takes on it, the drop of what is acknowledged and the packet put
behind: it is the run of ids up to the last one made (`BufferInv`). `WaitsUnderItsId` says the same of
what waits to be read: a packet is stored at the place of its id, counted from the last one received,
so that a repetition of it changes nothing (`ReadInv`); the lemmas follow `Stored` through a batch.
`ResponsesInv` says of every response that what it carries is a run which begins no later than behind what was ever acknowledged
(`Runs`), and of the current one that it ends with the last packet made and holds at least what is buffered (`UpTo`); it needs
`BufferInv`, because a new response is given the buffer as it is.
`CurrentIsTimed` is an action property: it needs only that the comet's state is a record
of the right fields (`IsPoll`), and `TimedStep` is shown of each action from what a batch, a
completion and a new comet leave of the timers. `NodeTypeCorrect` is more than types, because only an open response has a
duration timer: `PollType` adds that a current response which is timed has the timer that its completion clears.

*Client and node server.* `LinkInv` as with the Ruby server; but here nothing is acknowledged that the client has not
got past, and a response begins no later than behind that. So what the client is
offered has no hole, it is never in protocol error, and the first packet it reads is the first one made.
For the writes, `WriteInv` adds to `ChainInv` of the client that what the server has read or keeps under an
id is the content of the packet of that id, or for a null the packet before it (`ReadInv`, the
`var` of `dispatch.send`), and that every data packet but those in flight has been read, these too once
their request is answered (`ArriveInv`); a packet kept while the handler runs is read before it ends. Since an id has one content and the
chain no gap, what was read is the writes in order.

*Page.* `JsonpInv`: the ids count the requests, of which one at most is not answered (`AskedOneByOne`), and nothing the
browser still does can answer one again (`AnsweredSettled`). `LateInv` adds that what
is completed has been answered (`CompletedAnswered`): what empties the callbacks of a request still unheard is the error script of an older one; that
one was answered before the newer was made, and not by this script, which had not run; so it was completed. `MsppInv`: every frame is of a stream there is and none is opened twice (`OpensOnce`); on a connection
the streams made since are opened before anything else of them (`OpensFirst`), also
for what was written before there was a connection. `WindowsInv`: each message says, by the document it is from and
by how much that had written, what may follow it, and the queue keeps to that (`PostedInOrder`); the last one is the last of the document in the window (`LatestIsLast`);
and the protocol the listener delivers to has heard all before the head of the queue (`TargetHears`). TLC checked this one
with three documents of one write each too.

*Library.* Each object loops over functions that may call it again, so each invariant speaks of a stack.
Loader (`SearchInv`, `RunInv`): a module is registered when its code starts and only then (`Registered`), of those running an inner one started
later (`InnerLater`), whoever is bound to a module still running runs inside it (`BoundInside`), and all others are bound to its final exports (`BoundToFinal`).
`Callback`: a function is at one of four places, called, lost by an exception, in a loop or waiting (`PlacesApart`), and once in each (`CallsInv`); what is
pending is what was chained less the ids that have reported (`JoinInv`, a count of a set of ids).
`PubSub`: a loop runs over a copy without repetitions, has called what is before its place, and the copy has nobody who had left when it was made
(`PubSubInv`). `Later`: what a replay has passed was given (`PassedGiven`), and as long as none was disturbed there is one at most and what is behind its place was not (`OnceEach`).
`Sublist` (what splicing leaves of an array) is proved about once and used by both loops that splice.

**Only model-checked.** All liveness (`ENABLED` and fairness are out of the prover's reach). What is computed by recursion over data: `HeardAsSent`,
`LinesAsSent` and `TextAsWritten` (parsers applied to a buffer of any length). The statements
of the four runs that end in a counterexample have no proof because they are false.

## What is not modelled, and why

- Values of durations, back-off factors and clocks: a timer that is set may fire at any time.
- Formatting of answers (prefixes, suffixes, JSON, headers), and in the session modules the encodings of
  payloads, except where they decide control: an `Array` from `unpack('m')`
  that cannot be serialized, a payload base64 refuses, an SSE suffix of an
  empty batch.
- Routing and refused requests of the node server, `uri.js`, `uuid.js`, `Sortable`, `Hash`, `Enum`: control without interleaving.
- `stomp.js` (`bufferUpdated` calls `hasLine`, which no `Buffer` has), `proxy.js` (`dispatchFrame` is not defined: every frame
  is answered with a protocol error), `orbited.ru` (it says of itself that it does not work yet), `iframe.js` beyond what it shares with
  `postmessage.js`, `websocket.js` and the node `tcp.js` (thin wrappers that pass each event on): nothing to state of code that stops at its first step or keeps nothing.
- The preprocessors and `compiler.js`, `Iterator.js` (falsy elements end its loops), the environments' `fetch` and `XMLHttpRequest`.
- Loggers, tests, build files, the Flash and browser shims, the demo pages, and the third-party
  `util/` (`jslint`, `sizzle`, `underscore`, `jsonSchema`): no state of interest, or no code of this project; these
  four files alone are more than half of the lines of the repository's source.

Observed while reading, without a statement in the repository to hold
against it: `@timer` is never reset once fired (`session.rb:105`); the immediate
answer of a `/comet` is commented out (`application.rb:67`), so what is unsent
waits for the next send or the timer; two `/comet` requests in one tick both open (`application.rb:55`);
a `/send` before the first `/comet` makes the echo application raise in a job, which stops the reactor (`session.rb:90`);
the blocks of `csp_send` close over one variable under Ruby 1.8; the 404 "Session not found" the client looks for
is sent by neither server; on WebKit no jsonp request is ever sent (`ebName` in `transports.js:369` is no variable);
a client whose handshake is retried sends no body
(`transports.js:233`), which the node server answers 400; `close` of a connecting client calls `ondisconnect`
twice (`client.js:176`); the null of a protocol error stays in the buffer while data is in flight (`client.js:116`); in the node server the
session's timer is not cleared by `/close`, so `eof` may come twice; `writeBuffer = []` in `mspp.js:112` assigns a global, so
what waited for the first connection is written again on each later one; `MSPPStream.close` and `Buffer.consumeMaxBytes` call what does not exist;
a path whose fetch failed is never tried again (`jsio.js:347`); two results under one id never fire a `Callback` (`Callback.js:49`);
`packet.rb:25` tests its pattern the wrong way round, so payloads with any printable byte are base64-encoded and the others sent raw; `\x32` in the
pattern of `server.js:105` is `2`, so a space or a `0` makes the server encode; a handshake that times out leaves the client CONNECTING, so
`onconnect` may follow `ondisconnect` (`client.js:180`); `websocket.js:56` ignores how many bytes `decode` parsed, so a message that ends inside a
character loses its last bytes.

## Plan

1. `CspServer`, its runs and its proofs. *Done.*
2. `CspClient`, its run and its proofs. *Done.*
3. `CspLink` and the refinement of `OrderedStream`. *Done and proved.*
4. `NodeSession`, its proofs, and `NodeLink`, the same network as in `CspLink` with an exact
   promise. *Done and proved.*
5. `Buffer`, `MsppProtocol`, `Lines`. *Checked; `OpenedOnceBeforeUse` proved.*
6. `JsonpTransport`, `Windows`. *Checked; `AnsweredInOrder`, `SilencedByLateEnd`, `WrittenBeforeClose` proved.*
7. `Loader`, `Callback`, `PubSub`, `Later`. *Checked; all their safety properties proved.*
8. `Codecs`, `TextStream`. *Checked; what `decode` computes is recursion over data and stays with TLC.*
9. The routing of the node server, the states of connectors.

Runs are kept to one per question; a component that shares no state with the others
joins the run of its layer.
