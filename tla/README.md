# TLA+ specification of UniEvent-HTTP

UniEvent-HTTP is an asynchronous HTTP/1.1 client and server for one event loop.
Nothing in it runs in parallel; what makes it hard is re-entrancy. Every stream
event and timer runs to its end, and on the way calls the user's callbacks,
which may answer, cancel, drop, close, stop or submit again before the code that
called them goes on. The specification therefore models the *call stack*: an
action is the piece of a routine between two points at which other code can
run, and a frame on the stack is where the routine goes on.

## 1. Inventory

| Component | State it keeps | Operations | Talks to |
|---|---|---|---|
| `ServerConnection` (with `ServerRequest`, `ServerResponse`) | the deque of pipelined requests, each with its flags and its response; `closing`, `stopping`, `requests_processed`; the idle timer | `on_read`, `on_write`, `on_shutdown`, `on_eof`, the timer, `respond`, `send_chunk`, `send_final_chunk`, `send_continue`, `finish_request`, `drop_requests`, `close`/`shutdown`, `graceful_stop`, `upgrade` | the stream (external), the request parser (external), the user by seven callbacks, the server by `remove` |
| `Server` | state, listeners, the map of connections | `run`, `configure`, `stop`, `graceful_stop`, `start_listening`, `stop_listening`, the destructor, `on_establish`, `remove` | its connections, the user by `run`, `connect`, `stop` callbacks |
| `Pool` | per network location: free clients, busy clients, queue of requests; `max_connections`; the inactivity timer | `request`, `putback`, `cancel_request`, `check_inactivity`, the destructor | its clients, requests |
| `Client` | the connection, the request it runs, the parser's context, the redirect flags, weak or not | `request`, `cancel`, `on_connect`, `on_write`, `on_read`, `on_eof`, `analyze_request`, `finish_request` | pool (`putback`, `request`), request, the response parser (external) |
| `Request` | client, pool, timer and its listener, redirect counter, transfer flag | `cancel`, `on_timer`, `send_chunk`, `finish_and_notify` | client or pool, the user by four callbacks |
| `Form` | the input and the streamer of each file | `start`, `stop`, the streamer's end (`form_file_complete`) | client, the `Streamer` (external) |
| `UserAgent` | cookie jar (external), SSL context, defaults | `request`, `inject`, its handlers of the response and redirect events | pool, request |
| synchronous interface (`http.icc`) | a loop and a pool per thread, a busy flag | `http_request_sync` | pool, loop |
| Date header (`Server.cc`) | the text of a second and its time | `date_header_now`, `rfc822_date` | the loop's time, the system's clock |
| error codes, message types | – | – | – |

What is hard, and what makes each part correct:

* **ServerConnection.** Pipelining: answers are given in any order, wholly or in
  chunks, also before the request has arrived, and must leave in order, whole
  and once. Closing: a last response, an error, `drop()`, `close()`,
  `graceful_stop()`, end of stream, and `upgrade()` may each happen inside a
  callback of the others, and nothing may point to the connection afterwards.
  The idle timer must run exactly when there is nothing to do. A connection that
  is to be closed must be closed.
* **Server.** A stop, graceful or not, ends with no connection left, and the state
  the user can ask for tells the truth between events.
* **Pool, Client, Request.** A submitted request is in one place at a time, from
  submission to its one report; a waiting request is never overlooked; a
  response reaches only the request it was sent for; the deadline covers queue,
  connection and redirects; an idle connection does not hold the loop and is
  dropped in time.
* **Form.** A file is streamed by a `Streamer` that works on its own: it must end
  with the request it belongs to, however that ends.
* **UserAgent.** Cookies reach only the host they came from although a request
  changes its host in the middle of its life; the agent's SSL context is on every hop.
* **Synchronous interface.** A call returns, with the result of its own request,
  and is not hit by what servers did between two calls.
* **Date header.** Two clocks and an unsigned difference decide how old the text is.

`PROJECT.json` lists these as hazards, each at its line, with the properties that
would catch it going wrong.

## 2. Modules

| Module | Models | State and actions |
|---|---|---|
| `ServerConnection` | `ServerConnection.cc/.h`, `ServerRequest.*`, `ServerResponse.*` | the fields under their own names; one action per stream event (`OnRead`, `OnWrite`, ...), per piece of a routine (`Parse`, `Deliver`, `Received` are the three pieces of `on_read`; `WriteNextResponse`, `Rejoin`, `Wrote` those of `write_next_response`; `FinishRequest`, `Finished` those of `finish_request`) and per call of the user (`Respond`, `SendChunk`, `Drop`, `Upgrade`, ...) |
| `MCServerConnection` | – | kinds of request and of callback for TLC |
| `ServerConnectionProofs`, `ServerConnectionWireProofs` | – | the theorems about `ServerConnection`: types and the idle timer's assertion; what the timer, the call stack and the wire have to do with each other; that a last response is the last |
| `ClientPool` | `Pool.*`, `Client.*`, `Request.*`, `Form.*` | components that call each other in the middle of their routines, hence one module with a section for each; `client[c]`, `req[r]` are their fields, `free`, `busy`, `queue` the `NetLocList` of each location; `client[c].field` is `_form_field`, `req[r].inputs` and `req[r].streamer` are the `in` and `streamer` of a form's files |
| `RequestLife` | what the client promises of a request | idle, placing, queued, running, ending |
| `MCClientPool` | – | locations, server answers and callbacks for TLC |
| `SyncRequest` | `http.icc`, on top of `ClientPool` | where the call is, its local `ret`, what servers did with the kept connections; `SyncCall`, `Turn`, `Runs(action)` for whatever happens inside `loop->run()`, `SyncReturn` |
| `UserAgent` | `UserAgent.cc/.h`, on top of `ClientPool` | the jar, the cookies of each request; `AgentRequest`, the two handlers `OnResponse` and `OnRedirect`, and `AgentRedirect`, which takes the cookies off as `analyze_request` does |
| `PoolIdle` | `Pool::idle_timeout`, `check_inactivity` with their unsigned times | the loop's time, the timer, two clients and their last activity |
| `MCSyncRequest`, `MCUserAgent` | – | instances for TLC |
| `Server` | `Server.cc/.h` | state, listeners, connections as the server sees them; `muted` is not in the code: it remembers whether the user's last word on listening was `stop_listening()` |
| `ConnectionLife` | what the server knows of a connection | new, idle, busy, stopping, shut, closed, gone |
| `DateHeader` | `date_header_now`, `rfc822_date` | the system's time, the loop's time, the cached text |
| `MCServer`, `MCDateHeader` | – | callbacks and moments for TLC |
| `ServerProofs`, `PoolIdleProofs`, `DateHeaderProofs` | – | the theorems about the module in their name |
| `ClientPoolProofs`, `ClientPoolLifeProofs`, `ClientPoolFaultProofs` | – | the theorems about `ClientPool`: the pool's limit and who waits, types and the call stack, the order of those who wait, and whose response it is; the life of a request: that all structures agree on where it is, and that it is the life `RequestLife` allows; that no assertion fails, which connections are busy, and where a file is streamed to |

Conventions shared by the modules with a call stack:

* `stack` is the call stack, `At(pc)` says that the routine on top is at `pc`,
  `Loop` that the event loop is in control. Stream events and timers need `Loop`.
* User calls are possible from the loop (`LoopCalls`) and inside callbacks
  (`HandlerCalls`, per kind of callback). A run states which; with `OwnOnly` a
  callback deals only with the request it was given. Calls that the code refuses
  with an exception or ignores are left out where they change nothing.
* `fault` records a failed `assert()`, a null pointer or an invalidated iterator.
  After it nothing is modelled; `NoFault` says it does not happen.
* Definitions marked `MUTANT` are broken variants of the one below them. They are
  used only to see that a property notices the bug they contain.

Abstractions: a message is its head, its numbered chunks and its end; a
request's headers are the three facts the code looks at (keep-alive, upgrade,
expect). The stream is external and modelled by how the code uses it: writes
before a shutdown leave in order, `on_write` of the write that empties the queue
is the one that matters, `on_shutdown` follows when all is written, and
`read_ignore()` ends reading. Whether the stream delivers a read between
`shutdown()` and `on_shutdown()` is a constant (`HalfClosedReads`). On the client
side a read brings a sequence of messages, and `owed` remembers which requests
the present connection still has to answer, so that a response can be traced to
the request it was sent for. Time is abstracted: a timer that runs may fire.
Proxies and `ssl_check_cert` are left out of `NetLoc`, but for the exception that a proxy
of another scheme causes; the SSL context is kept, since redirects change it. A `Streamer` is a client it writes to, and an end that it
reports; the runs do not submit a form again whose file was sent (`ReuseFiles`), since
`FormFile::start()` has no input then. A cookie is known by who set it. A date is its names and digits in the
order they are written.

How the modules compose: `SyncRequest` and `UserAgent` extend `ClientPool` and
conjoin its actions with their own state, so that they run on the whole client and
not on a summary of it. `PoolIdle` refines one point that `ClientPool` leaves open:
there, `CheckInactivity` may drop any set of free clients. `ServerConnection` and
`Server` meet in `ConnectionLife`, the abstract connection: the first implements it
(`ConnectionLives`), the second keeps its connections to it whatever is done to the
server (`ConnectionsLive`), including that one that is shut or closed leaves.

`RequestLife` is the abstract specification of the client side: `ClientPool` maps its structures to a
request's phase (`Phase`) and implements it, including that everything that was
submitted comes back (`LifePromise`).

## 3. Runs

Bounds: two or three requests, one or two chunks, two or three clients, two locations,
three connections. Three requests are the fewest with a front, one behind it and
one that arrives meanwhile; two clients and two locations let a redirect move a
request from a list with a queue to another one; with two submissions of a
request a stale trace of the first can meet the second. `MaxKeepalive` 2 with
three requests crosses the limit. `MaxClients` bounds the clients that a pool makes;
a request for which no unused one is left is not served in the model (`Unused # {}`),
and the runs have as many clients as their limits can ask for. Every run ends when its bounds are used up,
and a connection, a pool or a server may simply have nothing more to do, so
deadlock is not checked.

For `PoolIdle` fifteen ticks hold two full timeouts of the longest kind, both
periods (three ticks for a second, two for a shorter timeout) and a change between
them; `DateHeader` crosses a year within six seconds of four ticks.

Passing runs:

| Run | Question | States |
|---|---|---|
| `pipeline` | `WireInOrder`, `ResponsesWellFormed`, `NoChunkLost`, `LastIsLast`, `NoStall`, `FinishOnce`, `TypeOK` with three pipelined requests, several per buffer, chunked or not, dropped in callbacks or from the loop, failures of the stream and `graceful_stop()` | 881 000 |
| `failures` | `NoFault`, `NoDangling`, `IdleOnlyWhenIdle`, `IdleIsTimed` under every failure when requests are answered, acknowledged or dropped in any of their callbacks or later | 268 000 |
| `drain` | `KeepaliveLimit`, `UpgradedStreamUntouched` and, with fairness, `ConnectionLives` (the whole of `ConnectionLife`), `DrainEnds` for chunked answers, upgrades and `graceful_stop()` when the peer does not pipeline | 5 800 |
| `pool_queue` | `OnePlace`, `NoLostWakeup`, `NoOvertaking`, `ResponseBelongs`, `StreamerServes`, `NoFault` with an upload of two files, cancels, timeouts, failures, second submissions, bytes nobody asked for and the pool's destruction | 98 000 |
| `pool_redirect` | `TypeOK`, `TimerCovers`, `OwnEnded` and, with fairness, `LifePromise` (the whole of `RequestLife`) with redirects of both kinds and callbacks that cancel, throw, restore the SSL context or destroy the pool | 67 000 |
| `pool_retry` | `BusyIsServing`, `Linked`, `LimitHolds` with retries from callbacks, changing limits and chunked bodies | 126 000 |
| `pool_idle` | `IdleDropped`, `FreshKept`: an unused connection goes after its timeout and before another period is over, while the timeout is changed and switched off | 1 036 000 |
| `sync` | `ResultInTime`, `NoStaleConnection` and, with fairness, `SyncEnds` for calls one after the other with redirects, retries, timeouts and servers that close kept connections at any time | 27 000 |
| `agent` | `CookiesStayHome`, `ContextKept` with redirects between two hosts and back, cancels, failures, proxies that are not supported and repeated requests | 1 441 000 |
| `server_stop` | `StateHonest`, `GracefulDrains` and, with fairness, `GracefulEnds`, `ConnectionsLive` for stops of both kinds, the user's own listening (both also from callbacks) and the destructor | 6 700 |
| `date` | `DateIsCurrent`: a Date, read back, is a moment that has come and is less than a second and one turn of the loop old | 2 300 |

One run shows the code doing what a document of the repository denies (`findings`
in `PROJECT.json` quotes it): in `unlimited_idle` the value `idle_timeout = 0`,
documented as unlimited, dereferences the timer that was not made.

Some code is in the model and nothing is claimed against it. After a receive handler
(or a route handler) that drops or finishes its request, `on_read` still makes the
server's request callback for it (`ServerConnection.cc` 113-114): `Deliver`
makes the two callbacks one after the other, and the properties of `pipeline`
and `failures` hold with handlers that do so. When the request's proxy is not supported,
`Client::request()` throws after the pool has made the client busy (`Client.cc` 83): the
failure `"proxy"`. The request is not reported, and the client stays busy for good, so with it
`OnePlace`, `TimerCovers`, `BusyIsServing` and `ResultInTime` do not hold; it is in
`agent` only, whose properties do.

Further configurations are not among the runs of `PROJECT.json`;
`tlc -config <name>.cfg <MC module>` runs them (`PoolIdle` itself for `idle_wrap`). `graceful.cfg` passes: `NoFault`,
`LastIsLast`, `NoDangling`, `QueueIsLive` and `FinishOnce` for `graceful_stop()` and the
keep-alive limit, also from callbacks, with three pipelined requests that are answered
wholly. The others each show a use that the passing runs leave out, because the code
does not live up to the property there; TLC prints the counterexample.

| Configuration | Property | What happens |
|---|---|---|
| `graceful_chunked` | `NoFault` | a chunked response that started before `graceful_stop()` ends while a pipelined request is queued: the assertion of `finish_request` fails in the very case its comment names; hence no `NoFault` in `pipeline` |
| `final_chunk_data` | `NoChunkLost` | data given to `send_final_chunk()` of a response that waits for its turn is lost; hence `FinalData` only without pipelining (`drain`) |
| `error_after_answer` | `NoStall` | a request answered early whose rest does not parse is never finished; hence no `NoStall` in `failures` |
| `early_close` | `QueueIsLive` | `on_read` goes on with its buffer on a connection that is shut down, also after a `graceful_stop()` or a `drop()` in a handler; hence `EarlyAnswer`, stops and drops in callbacks with one request per buffer |
| `graceful_idle` | `NoDangling` | a request read between `shutdown()` and `on_shutdown()` points to a destroyed connection, if the stream delivers such a read (`HalfClosedReads`) |
| `upgrade_case` | `NoFault` | the check for upgrades in a pipeline depends on the header's case, and `upgrade()` throws |
| `keepalive_limit` | `KeepaliveLimit` | pipelining passes `max_keepalive_requests` |
| `finish_answers` | `ResponsesWellFormed` | a finish callback that answers the next request has its head written twice |
| `drop_in_error` | `NoFault` | an assertion fails when an error callback drops (with `"chunk"` in drop callbacks, another one when a drop callback sends) |
| `redirect_weak` | `WeakWhenIdle` | after a redirect to another host a client that runs a queued request is weak. The synchronous interface is not hit: it has one request at a time, and its timer holds the loop |
| `redirect_cert` | `NoFault` | a redirect drops the request's SSL context and `putback()` does not find the client's list |
| `continue_cancel` | `ResponseBelongs` | a cancel in the continue callback lets the rest of the buffer answer another request |
| `cancel_others` | `OnePlace` | a queued request times out and its callback cancels the running one: the request that was just reported is sent; hence `OwnOnly` |
| `retry_queued` | `NoFault` | a callback changes the queue that `cancel_request()` iterates over (`~Pool()` has the same loop) |
| `cancel_throw` | `OwnEnded` | a redirect callback that cancels and throws ends another request |
| `resubmit_leak` | `BusyIsServing` | submitting a running request again leaves a client busy for good |
| `form_redirect` | `StreamerServes` | an upload is answered early with a redirect to another host: the streamer goes on writing into a connection the pool may give away; hence no redirects in `pool_queue` |
| `sync_again` | `ResultInTime` | `http_request_sync()` with the request of an earlier call: the callback of that call writes to a result that is gone; hence `ReuseRequests` is off |
| `idle_wrap` | `FreshKept` | before the loop's time has reached the idle timeout, `remove_time` wraps and every free connection goes; hence `Start` is the longest timeout |
| `stop_twice` | `StopOnce` | `stop()` during a graceful stop fires the stop event twice (with `HandlerCalls <- Restarting`, where the first stop callback runs the server again, `StateHonest` is violated, too) |
| `bind_failure` | `StateHonest` | a server that could not bind stays in the running state |
| `quiet_destructor` | `QuietDestructor` | a server that is destroyed while it stops gracefully calls its stop callbacks from the destructor |

## 4. Fairness

`ServerConnection`: `WF(Step)` - code that was entered runs on; `SF(OnWrite)` and
`SF(OnShutdown)` - the event loop reports a finished write and a finished shutdown
even if other events keep coming in between (the loop serves every ready
descriptor in each turn). `ClientPool`: `WF(Step)` and `SF(OnTimer(r))` - a timer
that is due is served in each turn. `SyncRequest`: the same inside `run()`, and
`WF(Turn)`, `WF(SyncReturn)` - the call itself goes on. `Server`: `WF(Step)` and `SF(OnShutdown(c))`.
Nothing is assumed of the peers, which may send nothing, or of the user, who may
never answer: the liveness properties say what follows without them. Strong
fairness is needed as a callback in between disables a stream event for a moment.

## 5. Proofs

Every theorem holds for every value of the constants that satisfies the named
assumptions of the modules (`BoundsAssumption`, `SwitchAssumption`,
`EnvironmentAssumption`, `ClockAssumption`): any number of requests, connections,
clients and locations, any set of user calls, any environment. A further hypothesis,
where there is one, is part of the theorem's statement.

### ServerConnection

* `TypeCorrect`: `Spec => []TypeOK`. One lemma per routine; the bounds are part of
  the types, so the argument shows that a new request never exceeds them, that the
  queue holds requests only and that every frame names a request it may use.
* `IdleSafe`: `Spec => []IdleOnlyWhenIdle`, which is the assertion in the idle
  timer's callback. The property is not inductive: `write_next_response()` takes
  the front out of the queue while it drops what is pipelined behind it, so the
  queue can be empty in the middle of an answer, callbacks run, and the front is
  put back afterwards (the frame "rejoin"). `IdleInv` adds that while such a frame
  is on the stack the connection is `closing` and its timer is not on. The proof has
  two halves: no routine but `write_next_response` brings such a frame (`StepCalm`,
  `EventCalm`, `UserCalm`), and every step either leaves timer and queue alone or
  starts the timer with an empty queue on a connection that is not closing or from
  the loop, where no such frame exists (`StepTimer`, `EventTimer`, `UserTimer`).
* `IdleAlwaysTimed`: `Spec => []IdleIsTimed`, the converse: nothing to do and not timed
  does not happen between events. `TimedInv` extends it to the inside of routines,
  where somebody on the stack still owes the check (`Owes`: a `finish_request()` that is
  to call `check_if_idle()`, or a front that is to be put back) and `drop_requests()` is
  only found right over the `write_next_response()` that called it (`Over`).
* `InOrder`: `ASSUME OwnOnly PROVE Spec => []WireInOrder`. That the wire is in order is
  not inductive either: one has to know that the queue is sorted (`Sorted`), that
  nothing on the wire is later than the front or than the requests a routine on the
  stack is about to write (`Reached`, `WriteTop`), that what is being parsed is the
  newest (`Parsed`), and that while the front is out of the queue every frame above the
  place where it is put back writes nothing (`Rejoins`, `Shielded`). The last is where
  `OwnOnly` is needed: in that window the next request is the front, and a callback
  made for a dropped request could answer it.
* `LastAlwaysLast`: `ASSUME OwnOnly PROVE Spec => []LastIsLast`. Nothing in
  `write_next_response()` keeps a later request from being answered after the head that
  announced the end: the code relies on the queue being empty behind it and on
  `on_read()` not filling it again. `RunningInv` says why it does not, while the stream
  may still be written to. A request that was announced as the last is alone
  (`Announced`), and either still arriving, so that the parser's next message is its own
  rest (`Arriving`, `Undone`), or received, and then nobody takes up another one
  (`Remaining`, `NoMore`): reading was turned off, or what runs at the base of the call
  stack ends the connection or turns reading off when it returns. The delicate case is a
  request answered while it arrived and finished by `on_read()` in the middle of a
  buffer: `on_read()` then goes on below `finish_request()` (`Covered`), with an empty
  queue (`EarlyAlone`), and what is called meanwhile answers nothing. The invariant uses
  that of `InOrder`; `QuietStep` collects the steps that only call, return or write on.
* `ImplementsLife`: `ASSUME UpgradeGoes PROVE Spec => Life!Spec`, the refinement of
  `ConnectionLife` without its fairness (`ConnectionLives` has both, checked by `drain`).
  `LifeInv`: an open connection has no `remove` on its stack, and an upgraded one that
  is still in the server has nothing left but its finish callback and its removal.
  `UpgradeGoes` asks that this callback closes nothing (or that nobody upgrades):
  `upgrade()` removes the connection only after it, so it could still shut down the
  stream that is the user's by then.

### Server

* `TypeCorrect`, and `GracefulOnlyDrains`: `Spec => GracefulDrains`, for all uses, failed
  binds and restarts from callbacks included: until a server that stops gracefully has stopped,
  it accepts nothing and no connection takes up a request. That a stopping server does not
  listen (`StopsListening`) is not enough for the second half: a connection that was idle, or
  became it, could still be sent a request. `NoneLeftIdle` says that there is none, since
  `graceful_stop()` tells every connection in one loop, inside of which no callback runs and
  which is therefore one step of the model, and an answer on a connection that was told
  shuts it down (`StoppingInv`).
* `StateIsHonest`: `ASSUME Disciplined PROVE Spec => []StateHonest`. `Disciplined` leaves
  out what section 3 shows to break it: a failed bind, `run()` in a stop callback, and a
  restart from a callback of the connections that `stop()` drops. `StackOrder`
  describes how `stop()`, the destructor and the end of a stop are nested, and `Honest`
  what listeners and connections look like at each of those points.
* `ImplementsLife`: `Spec => Life!Spec`. The refinement of `ConnectionLife` without its
  fairness: every step of the server moves each connection by one step of its life
  or not at all. With the theorem of the same name about `ServerConnection` the two
  components meet in one abstract specification, proved from both sides. `LifeInv` says
  that a connection to be removed by a frame is one whose life has ended.

### PoolIdle, ClientPool, DateHeader

* `DroppedInTime`: `Spec => []IdleDropped`, for every word size and timeout. `TimerSoon`:
  the timer is due before any free client exceeds its time by a period.
  `FreshAreKept`: `FreshKept` under the hypothesis that the loop's time starts beyond
  every timeout; without it the unsigned difference wraps (`idle_wrap`).
* `LimitAlwaysHolds`: `Spec => []LimitHolds`, for all uses. `ListsCounted` adds that
  a location without a list has no clients, which `HasRoom` relies on.
* `NeverLostWakeup`: `Spec => []NoLostWakeup`, for all uses. The property speaks of the
  state between events; `Waits` says the same of every state, also in the middle of
  callbacks. That is possible because `putback()` and `Pool::request()` look
  at the queue and change the lists without a callback in between. The bound is the
  smallest limit ever set, since raising `max_connections` wakes nobody.
* `TypeCorrect`: `Spec => []TypeOK`, for all uses. It is more than a matter of types:
  `analyze_request()` takes a message, and later the outcome of a redirect callback, for
  the client's request without a look at whether there still is one, so the proof has to
  show that there is. `Safe` adds to the types which routine may stand on which
  (`Stacked`: `on_read()` is at the bottom, `redirect_event` right above the frame that
  waits for it, `putback()` and `Client::request()` on top), and `Coherent`: `~Pool()` runs
  only when the pool is gone and `Pool::request()` only before (`PoolFrames`), a parser
  that expects an answer has a request (`Expecting`), after a redirect callback the client
  has its request still or remembers that it was cancelled (`Redirecting`), and a client
  that is taken is busy in a list, so that nobody else is given it or drops it meanwhile
  (`Owned`). One lemma per action; `FinishRequestSafe` carries the shared part of every
  way in which a request ends.
* `NeverOvertaken`: `ASSUME Limits = {FirstLimit} PROVE Spec => NoOvertaking`, from `Safe`,
  `ListsCounted` and `Waits`. The hypothesis is needed: after `max_connections` is raised
  `Pool::request()` gives the new room to the next request that comes, past those that wait.
* `ResponseAlwaysBelongs`: `ASSUME OneEach PROVE Spec => []ResponseBelongs`. The parser matches
  nothing: it takes what comes for the client's present request. That this is right rests
  on every connection that is reused having answered all it was asked. `Belongs`: an idle
  client is owed nothing and one that waits is owed exactly its request (`Fits`, `Owes`); a
  message that `on_read()` has not taken yet has nothing running above it and is meant for
  the client's request if the client expects one at all (`Unread`); a client that keeps
  its connection over a redirect is owed nothing by then (`Moves`); what is on its way to a
  callback was sent for it (`Answered`). `OneEach`, one message per read, is needed: a cancel
  between two messages of a buffer hands the rest to another request (`continue_cancel`).
  Nothing is assumed about the user's calls.
* `AlwaysLinked`, `TimerAlwaysCovers`, `AlwaysOnePlace`: `ASSUME Orderly PROVE Spec => []Linked`, and
  the same for `TimerCovers` and `OnePlace`. Where a request is, is written down in five places
  that no routine changes at once: its own `client` and `pool`, its timer, the
  `request` of a client, a queue of a location, and the routines on the call stack that were
  given it. `Lives(r, p)` says for each phase of a request what all of them must say, `AllLive`
  that every request is in one. That is not inductive by itself: which structures a routine may
  change without asking depends on what else is on the stack. `Live` adds `Sound`: how routines
  may follow each other (`Shape`), that what is to be done for a request that left its client
  is on top of the rest (`Aside`), that two routines are never under way for the same request
  (`Apart`), what `~Pool()` still has to report (`Dissolves`, `Told`), that no frame speaks of
  a request it has no claim to (`Ghosts`, `Named`, `Left`, `Served`). One lemma per action shows
  that a step keeps `Sound` and is one turn of one request's life, all others resting
  (`Advance`); between events and in callbacks every routine that matters has settled
  (`Settled`), from which the three properties follow.
  `Orderly` leaves out what section 3 shows to break them: a callback that cancels another
  request (`cancel_others`), a request submitted while it is active (`resubmit_leak`), a limit
  of 0, proxies that are not supported, and submissions from callbacks together with cancels or
  timeouts (`retry_queued`). `ClientRequestGives` is the lemma that without the throw every
  `Client::request()` gives the client its request.
* `ImplementsLife`: `ASSUME Orderly PROVE Spec => Life!Spec`, the refinement of `RequestLife` without
  its fairness (`LifePromise` has both, checked by `pool_redirect`): a request is run only
  after it was submitted, leaves its client before it is placed again, and is reported once for
  each submission. The phase of a request is the one it lives in, and the turns of `Advance`
  are the steps of `RequestLife`.
* `NeverFaults`, `BusyAlwaysServes`, `StreamerAlwaysServes`: `ASSUME Careful PROVE Spec => []NoFault`, and
  the same for `BusyIsServing` and `StreamerServes`. `Live` says where a request is, but not that
  the lists of the pool, the clients and the routines under way mean the same location. `Fit`
  adds that, in nine parts: all SSL contexts are the default one (`NoCerts`), a client knows
  its pool while there is one (`Pooled`), a queued request is for the location of its queue
  (`Expects`), a client that runs a request is busy at its own location, which is the
  request's unless it is being redirected (`Serving`), and so is a client that is about to get a
  request or to be put back (`Handed`), a free client is at the location of its list and a busy one has
  something to do (`Kinds`), a client is in a redirect only while `analyze_request()` waits for
  `redirect_event` (`Turning`), the streamers, the current item and the files that were not read yet
  agree (`Feeds`), and the queues that `cancel_request()` and `~Pool()` go on with are as they saw them
  (`Iterators`). Most steps change little of this: `FitBeside` and `FitAlone` say what a step may not
  touch, `FitOne` reduces a step on one client and its request to these two, `FitLists` one on
  the lists of the pool to the lists; with them there is one lemma per action, and each also
  shows that the action's way into a fault is closed. `Careful` is `Orderly` and: no request
  has an SSL context of its own (`redirect_cert`); the files of a form are sent once, and a
  request with files is not redirected (`form_redirect`, `ReuseFiles`); a chunked body has no form; and
  the callback that reports a request does not drop the pool, since `cancel_request()` may be
  waiting for it to erase from a queue of that pool. The instances of `pool_queue` and `pool_retry` are `Careful`.
* `TextIsExact`: what `rfc822_date()` writes is read back as the moment it was given, for
  every moment with a year of four digits. `DateAlwaysCurrent`: `Spec => []DateIsCurrent`;
  the cached text is that of the cached second (`Cached`) and the loop's time is at most
  one turn behind the system's (`Clocks`). The proof failed first, and rightly: the model
  computed a digit of the year as `year % 1000 \div 100` without parentheses, which
  TLA+ reads as `year % (1000 \div 100)`; the year of the checked instance hid it.

### What is only model-checked

* Liveness (`DrainEnds`, `SyncEnds`, `GracefulEnds`, the fairness in `ConnectionLives`,
  `ConnectionsLive` and `LifePromise`): the prover does not reason about fairness and
  ENABLED.
* `ResponsesWellFormed`, `NoChunkLost`, `KeepaliveLimit`: they filter the wire of one
  request's messages, and what a filter returns for a sequence that grows is an
  induction over data.
* `NoFault`, `NoStall`, `NoDangling`, `QueueIsLive` of `ServerConnection` hold only for the
  combinations of calls that the runs state one by one, since each has a counterexample
  in section 3 outside of them.
* `OwnEnded` of `ClientPool`, an action property that `cancel_throw` violates for uses which
  `Careful` allows: it would need a hypothesis of its own about redirect callbacks.
* The invariants of `UserAgent` and `SyncRequest`, whose steps are steps of `ClientPool` with
  something done before or after them.

## 6. Not modelled

Error texts, address accessors, and how TLS, proxies, sockets and listeners are set
up: calls into other libraries that change no state of this one. The proxy and
`ssl_check_cert` in `NetLoc`, the agent's identity header, its proxy, its setters and
`to_string`; the method and the body that a 303 changes. The rules of the cookie jar
(paths, expiry, domains), the parsers, streams, streamers, timers and the loop belong
to other libraries and appear as the environment. Two pools never share a loop in a
thread, so `Pool::instance` is a lookup without behaviour of its own. The user's
`start_listening()` is modelled for a running server only. References that a callback
was given, and what they name after it cancelled its own request, are below the level
of the model.

## 7. Plan

What is left, in the order in which it would be worth doing:

1. Prove `CookiesStayHome` and `ContextKept` of `UserAgent`, which rest on `Linked`, and
   `ResultInTime` of `SyncRequest`, which rests on `TimerCovers` and `ImplementsLife`.
2. Prove `NoFault` and `NoDangling` of `ServerConnection` for the uses of `failures`.
