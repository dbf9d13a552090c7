----------------------------- MODULE ClientPool -----------------------------
(***************************************************************************)
(* The client side: a Pool (Pool.cc), the Clients it owns (Client.cc) and  *)
(* the Requests that are given to it (Request.h, Request.icc), with the    *)
(* forms they stream (Form.cc, Form.h).                                    *)
(*                                                                         *)
(* The three call each other, and the user's callbacks call back into      *)
(* them.  The variable stack is the call stack, innermost routine first.   *)
(* A frame names the point a routine goes on from; a routine is cut only   *)
(* where it calls another one or a callback.  Stream events and timers     *)
(* need an empty stack.                                                    *)
(***************************************************************************)
EXTENDS Integers, FiniteSets, Sequences, SequencesExt

CONSTANTS
    MaxRequests,      \* bound: the Request objects
    MaxClients,       \* bound: the Client objects that exist at a time
    MaxSubmits,       \* bound: how often the user submits one request
    Hosts,            \* the host:port pairs of the uris
    Target,           \* where each request goes when it is first submitted
    Untimed,          \* the requests with timeout = 0
    Closing,          \* the requests that are not keep-alive
    Chunked,          \* the requests whose body the user sends in chunks
    Form,             \* the items of each request's form, <<>> if it has none
    ReuseFiles,       \* the user submits a form again whose files were read
    RedirectLimit,    \* redirection_limit of every request
    Limits,           \* the values max_connections takes, the first one
    FirstLimit,       \*   included
    Buffers,          \* what one read may bring
    LoopCalls,        \* calls the user makes from the event loop
    HandlerCalls,     \* calls the user makes inside each kind of callback
    OwnOnly,          \* a callback only touches the request it is given
    Resubmits,        \* the user submits a request that is still active
    Failures          \* the failures that occur

Requests == 1 .. MaxRequests
Clients == 1 .. MaxClients

\* NetLoc without its proxy fields: host:port and the SSL context.
NetLocs == [host : Hosts, ctx : {"default", "own"}]
NoLoc == [host |-> "", ctx |-> "default"]

Events == {"partial", "continue", "redirect", "response"}
Calls == {"request", "cancel", "chunk", "final", "restore", "throw", "destroy", "limit", "idle"}

\* FormField and FormEmbeddedFile, which are written at once, and FormFile.
FormItems == {"field", "file"}

\* What the parser can find at the head of a buffer: an interim answer, a part
\* of one that ends there, a whole one that keeps or closes the connection, a
\* redirect of the two kinds, or an error.
Messages == {"continue", "part", "ok", "close", "redirect", "redirect_close", "bad"}

ASSUME BoundsAssumption ==
    /\ {MaxRequests, MaxClients, MaxSubmits} \subseteq Nat \ {0}
    /\ RedirectLimit \in Nat
    /\ Limits \subseteq Nat
    /\ FirstLimit \in Limits

ASSUME EnvironmentAssumption ==
    /\ Target \in [Requests -> NetLocs]
    /\ Untimed \cup Closing \cup Chunked \subseteq Requests
    /\ Form \in [Requests -> Seq(FormItems)]
    /\ Buffers \subseteq Seq(Messages)
    /\ LoopCalls \subseteq Calls
    /\ HandlerCalls \in [Events -> SUBSET Calls]
    /\ {OwnOnly, Resubmits, ReuseFiles} \subseteq BOOLEAN
    /\ Failures \subseteq {"connect", "write", "read", "eof", "extra", "stream", "proxy"}

VARIABLES
    alive,      \* the Pool exists
    limit,      \* _max_connections
    idleTimer,  \* _idle_timer runs
    lists,      \* the keys of _clients
    free,       \* NetLocList::free, busy and queue of each key
    busy,
    queue,
    client,     \* the fields of each Client
    req,        \* the fields of each Request
    submits,    \* how often each request was submitted
    stack,      \* the call stack, innermost frame first
    fault       \* the failed assert() or bad access, "none" if there was none

pool == <<alive, limit, idleTimer>>
slots == <<lists, free, busy, queue>>
vars == <<pool, slots, client, req, submits, stack, fault>>

\* expects: the parser has a context_request.  field: the form item whose file
\* is being sent (_form_field), counted from 1, 0 if none is.  owed: the requests
\* written to the present connection that its server has not answered.
Client ==
    [pool : BOOLEAN, netloc : NetLocs \cup {NoLoc}, request : 0 .. MaxRequests,
     expects : BOOLEAN, weak : BOOLEAN, conn : {"closed", "connecting", "connected"},
     inRedirect : BOOLEAN, redirectCanceled : BOOLEAN, field : Nat, owed : Seq(Requests)]

\* inputs: the files that were not handed to a Streamer yet.  streamer: the
\* client each item's running Streamer writes to, 0 if none runs.
Request ==
    [netloc : NetLocs, client : 0 .. MaxClients, pool : BOOLEAN, transferred : BOOLEAN,
     redirects : 0 .. RedirectLimit + 1, timer : BOOLEAN, listener : BOOLEAN,
     inputs : SUBSET Nat, streamer : Seq(0 .. MaxClients)]

\* from is the request that a buffer or a response was sent in answer to.
Frame ==
    [pc : {"on_read"}, c : Clients, buf : Seq(Messages), from : 0 .. MaxRequests]
    \cup [pc : {"redirected"}, c : Clients, close : BOOLEAN, ctx : {"default", "own"}]
    \cup [pc : {"putback", "weaken"}, c : Clients]
    \cup [pc : {"request"}, c : Clients, r : Requests]
    \cup [pc : {"pool_request"}, r : Requests]
    \cup [pc : {"notify"}, r : Requests, ok : BOOLEAN, from : 0 .. MaxRequests]
    \cup [pc : {"callback"}, ev : Events, r : Requests, ok : BOOLEAN, from : 0 .. MaxRequests]
    \cup [pc : {"erase", "abort"}, n : NetLocs, r : Requests, q : Seq(Requests)]
    \cup [pc : {"~Pool"}, todo : SUBSET NetLocs]

Faults == {"none", "putback: netloc", "putback: not busy", "cancel: netloc",
           "cancel: not queued", "cancel: iterator", "~Pool: iterator", "send: not active",
           "form: no input", "form: not its request", "form: no such item"}

TypeOK ==
    /\ alive \in BOOLEAN
    /\ limit \in Limits
    /\ idleTimer \in BOOLEAN
    /\ lists \subseteq NetLocs
    /\ free \in [NetLocs -> SUBSET Clients]
    /\ busy \in [NetLocs -> SUBSET Clients]
    /\ queue \in [NetLocs -> Seq(Requests)]
    /\ client \in [Clients -> Client]
    /\ req \in [Requests -> Request]
    /\ submits \in [Requests -> 0 .. MaxSubmits]
    /\ stack \in Seq(Frame)
    /\ fault \in Faults

-----------------------------------------------------------------------------
(* The call stack *)

Callback(ev, r, ok, from) == [pc |-> "callback", ev |-> ev, r |-> r, ok |-> ok, from |-> from]
AtClient(pc, c) == [pc |-> pc, c |-> c]
ClientRequestFrame(c, r) == [pc |-> "request", c |-> c, r |-> r]
PoolRequestFrame(r) == [pc |-> "pool_request", r |-> r]
OnReadFrame(c, buf, from) == [pc |-> "on_read", c |-> c, buf |-> buf, from |-> from]
QueuedFrame(pc, n, r) == [pc |-> pc, n |-> n, r |-> r, q |-> queue[n]]

Top == Head(stack)
At(pc) == fault = "none" /\ stack # <<>> /\ Top.pc = pc
Loop == fault = "none" /\ stack = <<>>
Goto(fs) == stack' = fs \o Tail(stack)

\* An exception is caught by the innermost callback, or leaves the loop.
Unwound ==
    LET i == SelectInSeq(stack, LAMBDA f : f.pc = "callback")
    IN  IF i = 0 THEN <<>> ELSE SubSeq(stack, i, Len(stack))

\* An assert() fails or memory is misused: nothing after that is modelled.
Abort(why) ==
    /\ fault' = why
    /\ UNCHANGED <<pool, slots, client, req, submits, stack>>

\* The routine on top returns and does nothing more.
Leave(pc) ==
    /\ At(pc)
    /\ Goto(<<>>)
    /\ UNCHANGED <<pool, slots, client, req, submits, fault>>

NewClient ==
    [pool |-> TRUE, netloc |-> NoLoc, request |-> 0, expects |-> FALSE, weak |-> FALSE,
     conn |-> "closed", inRedirect |-> FALSE, redirectCanceled |-> FALSE, field |-> 0,
     owed |-> <<>>]

\* The items whose start() leaves the rest to a Streamer.
Files(r) == {i \in DOMAIN Form[r] : Form[r][i] = "file"}

NewRequest(r) ==
    [netloc |-> Target[r], client |-> 0, pool |-> FALSE, transferred |-> FALSE, redirects |-> 0,
     timer |-> FALSE, listener |-> FALSE, inputs |-> Files(r),
     streamer |-> [i \in DOMAIN Form[r] |-> 0]]

Init ==
    /\ alive = TRUE
    /\ limit = FirstLimit
    /\ idleTimer = TRUE
    /\ lists = {}
    /\ free = [n \in NetLocs |-> {}]
    /\ busy = [n \in NetLocs |-> {}]
    /\ queue = [n \in NetLocs |-> <<>>]
    /\ client = [c \in Clients |-> NewClient]
    /\ req = [r \in Requests |-> NewRequest(r)]
    /\ submits = [r \in Requests |-> 0]
    /\ stack = <<>>
    /\ fault = "none"

-----------------------------------------------------------------------------
(* Request *)

\* MUTANT: a timer that runs is taken to be listened to.
TimedOnce(q, r) ==
    IF r \in Untimed \/ q.timer THEN q ELSE [q EXCEPT !.timer = TRUE, !.listener = TRUE]

\* ensure_timer_active(): a running timer keeps its deadline.
Timed(q, r) == IF r \in Untimed THEN q ELSE [q EXCEPT !.timer = TRUE, !.listener = TRUE]

\* MUTANT: the request keeps pointing to its client.
CleanupKeepingClient(q) == [q EXCEPT !.transferred = FALSE, !.listener = FALSE]

cleanup_after_redirect(q) == [q EXCEPT !.client = 0, !.transferred = FALSE, !.listener = FALSE]

\* finish_and_notify() up to its callbacks.
Reported(q) ==
    [cleanup_after_redirect(q) EXCEPT !.redirects = 0, !.pool = FALSE, !.timer = FALSE]

\* partial_event and response_event follow each other: they are one callback.
FinishAndNotify ==
    /\ At("notify")
    /\ req' = [req EXCEPT ![Top.r] = Reported(@)]
    /\ Goto(<<Callback("response", Top.r, Top.ok, Top.from)>>)
    /\ UNCHANGED <<pool, slots, client, submits, fault>>

-----------------------------------------------------------------------------
(* Client *)

\* Tcp::reset(): what was on its way on the connection is lost.
Reset(cl) == [cl EXCEPT !.conn = "closed", !.owed = <<>>]

\* send_form() from item i on: fields are written at once, the first file it
\* meets is left to a Streamer; 0 when there is none and the form is complete.
FileFrom(r, i) ==
    LET left == {j \in Files(r) : j >= i} IN IF left = {} THEN 0 ELSE Min(left)

\* FormFile::start(): the input moves to the Streamer, which writes to client c.
Started(q, i, c) ==
    IF i = 0 THEN [q EXCEPT !.transferred = TRUE]
             ELSE [q EXCEPT !.inputs = @ \ {i}, !.streamer[i] = c]

\* MUTANT: the Streamer goes on.
StoppedNot(q, i) == q

\* FormFile::stop() of the item that is being sent.
Stopped(q, i) == IF i = 0 THEN q ELSE [q EXCEPT !.streamer[i] = 0]

\* request(): the connection is used again if it goes to the same place and
\* the request wants to keep it.  For a new one the request's proxy is looked
\* at: a scheme that is not supported throws, and the request has its client
\* by then while the client does not have the request.
ClientRequest ==
    /\ At("request")
    /\ LET c == Top.c
           r == Top.r
           n == req[r].netloc
           cl == client[c]
           again == cl.conn = "connected" /\ cl.netloc = n /\ r \notin Closing
           file == FileFrom(r, 1)
           field == IF Form[r] = <<>> THEN cl.field ELSE file
       IN  \/ /\ cl.request # 0 \/ req[r].client # 0
              /\ stack' = Unwound
              /\ UNCHANGED <<client, req, fault>>
           \/ /\ cl.request = 0 /\ req[r].client = 0 /\ ~again /\ "proxy" \in Failures
              /\ client' = [client EXCEPT ![c] = IF @.conn = "connected" THEN Reset(@) ELSE @]
              /\ req' = [req EXCEPT ![r].client = c]
              /\ stack' = Unwound
              /\ UNCHANGED fault
           \/ /\ cl.request = 0 /\ req[r].client = 0
              /\ client' = [client EXCEPT ![c] =
                     [cl EXCEPT !.netloc = n, !.conn = IF again THEN cl.conn ELSE "connecting",
                                !.weak = FALSE, !.request = r, !.expects = TRUE, !.field = field,
                                !.owed = Append(IF again THEN cl.owed ELSE <<>>, r)]]
              /\ req' = [req EXCEPT ![r] = Timed(
                     IF r \in Chunked THEN [@ EXCEPT !.client = c]
                                      ELSE Started([@ EXCEPT !.client = c], file, c), r)]
              /\ fault' = IF file \in req[r].inputs \cup {0} THEN fault ELSE "form: no input"
              /\ Goto(<<>>)
    /\ UNCHANGED <<pool, slots, submits>>

\* What finish_request() ends with: putback() and finish_and_notify().
Ending(c, ok, from) ==
    (IF client[c].pool THEN <<AtClient("putback", c)>> ELSE <<>>)
    \o <<[pc |-> "notify", r |-> client[c].request, ok |-> ok, from |-> from]>>

\* MUTANT: the connection is kept whatever happened to the request.
FinishedKept(cl, keep) ==
    [cl EXCEPT !.request = 0, !.field = 0, !.expects = FALSE, !.weak = TRUE]

\* MUTANT: a connection that is kept goes on holding the loop.
FinishedStrong(cl, keep) ==
    LET done == [cl EXCEPT !.request = 0, !.field = 0]
    IN  IF keep THEN done ELSE Reset(done)

Finished(cl, keep) ==
    LET done == [cl EXCEPT !.request = 0, !.field = 0]
    IN  IF keep THEN [done EXCEPT !.weak = TRUE] ELSE Reset(done)

\* finish_request() of client c, whose fields are cl by then.
FinishRequest(c, cl, keep, ok, from, rest) ==
    \/ /\ cl.field > Len(Form[cl.request])
       /\ Abort("form: no such item")
    \/ /\ cl.field <= Len(Form[cl.request])
       /\ client' = [client EXCEPT ![c] = Finished(cl, keep)]
       /\ req' = [req EXCEPT ![cl.request] = Stopped(@, cl.field)]
       /\ stack' = Ending(c, ok, from) \o rest
       /\ UNCHANGED <<pool, slots, submits, fault>>

\* cancel() of a client: nothing happens if it has no request.  rest is what it
\* returns to.
Cancel(c, rest) ==
    /\ client[c].request # 0
    /\ FinishRequest(c, [client[c] EXCEPT !.expects = FALSE,
                                          !.redirectCanceled = @ \/ client[c].inRedirect],
                     FALSE, FALSE, 0, rest)

\* The Streamer of item i reports its end: form_file_complete() of the client it
\* writes to sends the rest of the form or fails the request.
OnStreamed(r, i, ok) ==
    /\ Loop /\ req[r].streamer[i] \in Clients
    /\ ok \/ "stream" \in Failures
    /\ LET c == req[r].streamer[i]
           file == FileFrom(r, i + 1)
       IN  \/ /\ client[c].request # r
              /\ Abort("form: not its request")
           \/ /\ client[c].request = r /\ ~ok
              /\ FinishRequest(c, client[c], FALSE, FALSE, 0, <<>>)
           \/ /\ client[c].request = r /\ ok
              /\ client' = [client EXCEPT ![c].field = file]
              /\ req' = [req EXCEPT ![r] = Started(Stopped(@, i), file, c)]
              /\ UNCHANGED <<pool, slots, submits, stack, fault>>

OnConnect(c) ==
    /\ Loop /\ client[c].conn = "connecting"
    /\ client' = [client EXCEPT ![c].conn = "connected"]
    /\ UNCHANGED <<pool, slots, req, submits, stack, fault>>

\* on_connect, on_write and on_read with an error end the client's request.
OnError(c) ==
    /\ Loop /\ client[c].request # 0
    /\ \/ client[c].conn = "connecting" /\ "connect" \in Failures
       \/ client[c].conn = "connected" /\ Failures \cap {"write", "read"} # {}
    /\ Cancel(c, <<>>)

\* The request whose answer is next on a connection, 0 if none is due.
Due(cl) == IF cl.owed = <<>> THEN 0 ELSE Head(cl.owed)

\* The server answers the next request it has, or sends what nobody asked for.
OnRead(c, buf) ==
    /\ Loop /\ client[c].conn = "connected"
    /\ client[c].owed # <<>> \/ "extra" \in Failures
    /\ client' = [client EXCEPT ![c].owed =
                      IF Range(buf) \subseteq {"continue", "part", "bad"} \/ @ = <<>>
                      THEN @ ELSE Tail(@)]
    /\ stack' = <<OnReadFrame(c, buf, Due(client[c]))>>
    /\ UNCHANGED <<pool, slots, req, submits, fault>>

\* on_eof(): the parser takes the end for an error or for the response's end.
OnEof(c, m) ==
    /\ Loop /\ client[c].conn = "connected" /\ "eof" \in Failures
    /\ m # "bad" => <<m>> \in Buffers
    /\ \/ /\ client[c].request = 0
          /\ client' = [client EXCEPT ![c] = Reset(@)]
          /\ UNCHANGED stack
       \/ /\ client[c].request # 0
          /\ stack' = <<OnReadFrame(c, <<m>>, Due(client[c]))>>
          /\ UNCHANGED client
    /\ UNCHANGED <<pool, slots, req, submits, fault>>

\* on_read's loop ends, or finds bytes that answer no request.
ReadEnd ==
    /\ At("on_read")
    /\ \/ /\ Top.buf = <<>>
          /\ UNCHANGED client
       \/ /\ Top.buf # <<>> /\ ~client[Top.c].expects
          /\ client' = [client EXCEPT ![Top.c] = Reset(@)]
    /\ Goto(<<>>)
    /\ UNCHANGED <<pool, slots, req, submits, fault>>

\* The parser takes the message at the head of the buffer for the client's
\* request, whoever it was sent to.
Parses(messages) ==
    /\ At("on_read") /\ Top.buf # <<>> /\ client[Top.c].expects
    /\ Head(Top.buf) \in messages

NextTurn == OnReadFrame(Top.c, Tail(Top.buf), Top.from)

ParseError ==
    /\ Parses({"bad"})
    /\ Cancel(Top.c, Tail(stack))

\* partial_event of an unfinished response, continue_event of a 100.
Interim ==
    /\ Parses({"part", "continue"})
    /\ Goto(<<Callback(IF Head(Top.buf) = "part" THEN "partial" ELSE "continue",
                       client[Top.c].request, TRUE, Top.from),
              NextTurn>>)
    /\ UNCHANGED <<pool, slots, client, req, submits, fault>>

\* finish_request() without an error.  A request whose body is not sent yet
\* fails with transfer_aborted.
Complete ==
    /\ Parses({"ok", "close"})
    /\ LET c == Top.c
           r == client[c].request
           ok == req[r].transferred
       IN  FinishRequest(c, [client[c] EXCEPT !.expects = FALSE],
                         ok /\ Head(Top.buf) = "ok" /\ r \notin Closing, ok, Top.from,
                         <<NextTurn>> \o Tail(stack))

\* MUTANT: redirection_limit only tells whether redirects are followed.
ExhaustedAtZero(count) == RedirectLimit = 0

\* No redirect is allowed, or one more than allowed has come.
Exhausted(count) == RedirectLimit = 0 \/ count > RedirectLimit

\* analyze_request() of a redirect to host; "" when there is no Location.
Redirect(host) ==
    /\ Parses({"redirect", "redirect_close"})
    /\ LET c == Top.c
           r == client[c].request
           count == IF RedirectLimit = 0 THEN 0 ELSE req[r].redirects + 1
       IN  \/ /\ Exhausted(count) \/ host = ""
              /\ Cancel(c, <<NextTurn>> \o Tail(stack))
           \/ /\ ~Exhausted(count) /\ host # ""
              /\ client' = [client EXCEPT ![c].expects = FALSE, ![c].inRedirect = TRUE]
              /\ req' = [req EXCEPT ![r].redirects = count,
                                    ![r].netloc = [host |-> host, ctx |-> "default"]]
              /\ Goto(<<Callback("redirect", r, TRUE, Top.from),
                        [pc |-> "redirected", c |-> c, close |-> Head(Top.buf) # "redirect",
                         ctx |-> req[r].netloc.ctx],
                        NextTurn>>)
              /\ UNCHANGED <<pool, slots, submits, fault>>

\* The rest of analyze_request() after redirect_event: the request moves to
\* another client through the pool, or stays with this one.
Redirected ==
    /\ At("redirected")
    /\ LET c == Top.c
           r == client[c].request
           cl == [client[c] EXCEPT !.inRedirect = FALSE, !.redirectCanceled = FALSE]
           off == [cl EXCEPT !.request = 0]
       IN  \/ /\ client[c].redirectCanceled
              /\ client' = [client EXCEPT ![c] = cl]
              /\ Goto(<<>>)
              /\ UNCHANGED req
           \/ /\ ~client[c].redirectCanceled
              /\ client' = [client EXCEPT ![c] = IF Top.close THEN Reset(off) ELSE off]
              /\ req' = [req EXCEPT ![r] = cleanup_after_redirect(@)]
              /\ IF cl.pool /\ req[r].netloc.host # cl.netloc.host
                 THEN Goto(<<AtClient("putback", c), AtClient("weaken", c), PoolRequestFrame(r)>>)
                 ELSE Goto(<<ClientRequestFrame(c, r)>>)
    /\ UNCHANGED <<pool, slots, submits, fault>>

\* Tcp::weak(true) between putback() and Pool::request().
Weaken ==
    /\ At("weaken")
    /\ client' = [client EXCEPT ![Top.c].weak = TRUE]
    /\ Goto(<<>>)
    /\ UNCHANGED <<pool, slots, req, submits, fault>>

-----------------------------------------------------------------------------
(* Pool *)

Unused == {c \in Clients : /\ client[c].request = 0
                           /\ \A n \in NetLocs : c \notin free[n] \cup busy[n]}

\* MUTANT: one connection more than max_connections.
HasRoomForOneMore(n) == n \notin lists \/ Cardinality(busy[n]) <= limit

\* A list that is not there yet, or one below the limit, gets a new client.
HasRoom(n) == n \notin lists \/ Cardinality(busy[n]) < limit

\* request(): take a free client, or make one within the limit, or wait.
PoolRequest ==
    /\ At("pool_request")
    /\ LET r == Top.r
           n == req[r].netloc
       IN  /\ lists' = lists \cup {n}
           /\ \/ \E c \in free[n] :
                     /\ free' = [free EXCEPT ![n] = @ \ {c}]
                     /\ busy' = [busy EXCEPT ![n] = @ \cup {c}]
                     /\ req' = [req EXCEPT ![r].pool = TRUE]
                     /\ Goto(<<ClientRequestFrame(c, r)>>)
                     /\ UNCHANGED <<queue, client>>
              \/ /\ free[n] = {} /\ HasRoom(n) /\ Unused # {}   \* MaxClients is enough
                 /\ LET c == CHOOSE c \in Unused : TRUE
                    IN  /\ busy' = [busy EXCEPT ![n] = @ \cup {c}]
                        /\ client' = [client EXCEPT ![c] = NewClient]
                        /\ Goto(<<ClientRequestFrame(c, r)>>)
                 /\ req' = [req EXCEPT ![r].pool = TRUE]
                 /\ UNCHANGED <<free, queue>>
              \/ /\ free[n] = {} /\ ~HasRoom(n)
                 /\ queue' = [queue EXCEPT ![n] = Append(@, r)]
                 /\ req' = [req EXCEPT ![r] = Timed([@ EXCEPT !.pool = TRUE], r)]
                 /\ Goto(<<>>)
                 /\ UNCHANGED <<free, busy, client>>
    /\ UNCHANGED <<pool, submits, fault>>

\* MUTANT: the client stays busy when nothing is queued.
PutbackStaysBusy ==
    /\ At("putback")
    /\ LET n == client[Top.c].netloc
       IN  IF queue[n] = <<>>
           THEN Goto(<<>>) /\ UNCHANGED queue
           ELSE /\ queue' = [queue EXCEPT ![n] = Tail(@)]
                /\ Goto(<<ClientRequestFrame(Top.c, Head(queue[n]))>>)
    /\ UNCHANGED <<pool, lists, free, busy, client, req, submits, fault>>

\* MUTANT: the client becomes free without a look at the queue.
PutbackFree ==
    /\ At("putback")
    /\ LET n == client[Top.c].netloc
       IN  /\ busy' = [busy EXCEPT ![n] = @ \ {Top.c}]
           /\ free' = [free EXCEPT ![n] = @ \cup {Top.c}]
    /\ Goto(<<>>)
    /\ UNCHANGED <<pool, lists, queue, client, req, submits, fault>>

\* putback(): the client takes the next request of its list or becomes free.
Putback ==
    /\ At("putback")
    /\ LET c == Top.c
           n == client[c].netloc
       IN  \/ /\ n \notin lists
              /\ Abort("putback: netloc")
           \/ /\ n \in lists /\ queue[n] = <<>> /\ c \notin busy[n]
              /\ Abort("putback: not busy")
           \/ /\ n \in lists /\ queue[n] = <<>> /\ c \in busy[n]
              /\ busy' = [busy EXCEPT ![n] = @ \ {c}]
              /\ free' = [free EXCEPT ![n] = @ \cup {c}]
              /\ Goto(<<>>)
              /\ UNCHANGED <<pool, lists, queue, client, req, submits, fault>>
           \/ /\ n \in lists /\ queue[n] # <<>>
              /\ queue' = [queue EXCEPT ![n] = Tail(@)]
              /\ Goto(<<ClientRequestFrame(c, Head(queue[n]))>>)
              /\ UNCHANGED <<pool, lists, free, busy, client, req, submits, fault>>

\* cancel_request() up to the callbacks, and the erase after them.
CancelRequest(r, rest) ==
    LET n == req[r].netloc
    IN  \/ /\ n \notin lists
           /\ Abort("cancel: netloc")
        \/ /\ n \in lists /\ r \notin Range(queue[n])
           /\ Abort("cancel: not queued")
        \/ /\ n \in lists /\ r \in Range(queue[n])
           /\ req' = [req EXCEPT ![r] = Reported(@)]
           /\ stack' = <<Callback("response", r, FALSE, 0), QueuedFrame("erase", n, r)>> \o rest
           /\ UNCHANGED <<pool, slots, client, submits, fault>>

\* q.erase(it): the iterator is valid only if nothing entered or left the deque.
Erase ==
    /\ At("erase")
    /\ \/ /\ queue[Top.n] # Top.q
          /\ Abort("cancel: iterator")
       \/ /\ queue[Top.n] = Top.q
          /\ queue' = [queue EXCEPT ![Top.n] = RemoveFirst(@, Top.r)]
          /\ Goto(<<>>)
          /\ UNCHANGED <<pool, lists, free, busy, client, req, submits, fault>>

\* check_inactivity(): old are the clients whose last activity is long ago.
\* A list without clients is erased, whatever waits in its queue.
CheckInactivity(old) ==
    LET kept == {n \in lists : free[n] \ old # {} \/ busy[n] # {}}
    IN  /\ Loop /\ alive /\ idleTimer
        /\ free' = [n \in NetLocs |-> free[n] \ old]
        /\ lists' = kept
        /\ queue' = [n \in NetLocs |-> IF n \in kept THEN queue[n] ELSE <<>>]
        /\ client' = [c \in Clients |-> IF c \in old THEN NewClient ELSE client[c]]
        /\ UNCHANGED <<pool, busy, req, submits, stack, fault>>

\* MUTANT: the busy clients go on pointing to the pool.
DestroyListOnly ==
    /\ At("~Pool") /\ Top.todo # {}
    /\ \E n \in Top.todo :
           Goto([i \in DOMAIN queue[n] |-> QueuedFrame("abort", n, queue[n][i])]
                \o <<[Top EXCEPT !.todo = @ \ {n}]>>)
    /\ UNCHANGED <<pool, slots, client, req, submits, fault>>

\* ~Pool() goes through the lists: their busy clients are let go and their
\* queued requests are told, one after the other.
DestroyList ==
    /\ At("~Pool") /\ Top.todo # {}
    /\ \E n \in Top.todo :
           /\ client' = [c \in Clients |-> IF c \in busy[n] THEN [client[c] EXCEPT !.pool = FALSE]
                                                            ELSE client[c]]
           /\ Goto([i \in DOMAIN queue[n] |-> QueuedFrame("abort", n, queue[n][i])]
                   \o <<[Top EXCEPT !.todo = @ \ {n}]>>)
    /\ UNCHANGED <<pool, slots, req, submits, fault>>

\* MUTANT: the queued requests are destroyed without a word.
AbortSilently == Leave("abort")

AbortQueued ==
    /\ At("abort")
    /\ \/ /\ queue[Top.n] # Top.q
          /\ Abort("~Pool: iterator")
       \/ /\ queue[Top.n] = Top.q
          /\ req' = [req EXCEPT ![Top.r] = Reported(@)]
          /\ Goto(<<Callback("response", Top.r, FALSE, 0)>>)
          /\ UNCHANGED <<pool, slots, client, submits, fault>>

\* The lists are destroyed, and with them the clients that are free.
DestroyEnd ==
    /\ At("~Pool") /\ Top.todo = {}
    /\ lists' = {}
    /\ free' = [n \in NetLocs |-> {}]
    /\ busy' = [n \in NetLocs |-> {}]
    /\ queue' = [n \in NetLocs |-> <<>>]
    /\ client' = [c \in Clients |-> IF \E n \in NetLocs : c \in free[n] THEN Reset(client[c])
                                                                         ELSE client[c]]
    /\ Goto(<<>>)
    /\ UNCHANGED <<pool, req, submits, fault>>

-----------------------------------------------------------------------------
(* The request timer, and what the user calls from the loop or a callback *)

\* Request::cancel() and on_timer(): through the client, or in the queue.
EndRequest(r, rest) ==
    \/ req[r].client # 0 /\ Cancel(req[r].client, rest)
    \/ req[r].client = 0 /\ req[r].pool /\ CancelRequest(r, rest)

OnTimer(r) ==
    /\ Loop /\ req[r].timer /\ req[r].listener
    /\ EndRequest(r, <<>>)

UserMay(call) ==
    /\ fault = "none"
    /\ \/ stack = <<>> /\ call \in LoopCalls
       \/ stack # <<>> /\ Top.pc = "callback" /\ call \in HandlerCalls[Top.ev]

Holds(r) == stack # <<>> /\ OwnOnly => Top.r = r

Submit(r) ==
    /\ UserMay("request") /\ Holds(r)
    /\ alive /\ submits[r] < MaxSubmits
    /\ ReuseFiles \/ req[r].inputs = Files(r)
    /\ ~req[r].pool \/ (Resubmits /\ req[r].client # 0)
    /\ submits' = [submits EXCEPT ![r] = @ + 1]
    /\ stack' = <<PoolRequestFrame(r)>> \o stack
    /\ UNCHANGED <<pool, slots, client, req, fault>>

CancelCall(r) ==
    /\ UserMay("cancel") /\ Holds(r)
    /\ EndRequest(r, stack)

\* send_chunk() and send_final_chunk(): an exception unless the body is still
\* being sent.
SendChunk(r, final) ==
    /\ UserMay(IF final THEN "final" ELSE "chunk") /\ Holds(r)
    /\ r \in Chunked /\ ~req[r].transferred /\ req[r].client # 0
    /\ \/ /\ client[req[r].client].request # r
          /\ Abort("send: not active")
       \/ /\ client[req[r].client].request = r
          /\ req' = [req EXCEPT ![r].transferred = final]
          /\ UNCHANGED <<pool, slots, client, submits, stack, fault>>

\* The callback on top is redirect_event, called by analyze_request().
InRedirect == stack # <<>> /\ Top.ev = "redirect" /\ stack[2].pc = "redirected"

\* In redirect_event the user gives the request the SSL context it had.
RestoreContext ==
    /\ UserMay("restore") /\ InRedirect
    /\ req' = [req EXCEPT ![Top.r].netloc.ctx = stack[2].ctx]
    /\ UNCHANGED <<pool, slots, client, submits, stack, fault>>

\* MUTANT: the exception passes through and the request stays with the client.
ThrowThrough ==
    /\ UserMay("throw") /\ InRedirect
    /\ client' = [client EXCEPT ![stack[2].c].inRedirect = FALSE]
    /\ stack' = <<>>
    /\ UNCHANGED <<pool, slots, req, submits, fault>>

\* redirect_event throws: the client's request is cancelled and the exception
\* leaves on_read().
ThrowInRedirect ==
    /\ UserMay("throw") /\ InRedirect
    /\ LET c == stack[2].c
           cl == [client[c] EXCEPT !.inRedirect = FALSE, !.redirectCanceled = FALSE,
                                   !.expects = FALSE]
       IN  \/ /\ cl.request = 0
              /\ client' = [client EXCEPT ![c] = cl]
              /\ stack' = <<>>
              /\ UNCHANGED <<pool, slots, req, submits, fault>>
           \/ /\ cl.request # 0
              /\ FinishRequest(c, cl, FALSE, FALSE, 0, <<>>)

\* The last reference to the pool goes.
Destroy ==
    /\ UserMay("destroy") /\ alive
    /\ alive' = FALSE
    /\ stack' = <<[pc |-> "~Pool", todo |-> lists]>> \o stack
    /\ UNCHANGED <<limit, idleTimer, slots, client, req, submits, fault>>

SetMaxConnections(m) ==
    /\ UserMay("limit") /\ alive
    /\ limit' = m
    /\ UNCHANGED <<alive, idleTimer, slots, client, req, submits, stack, fault>>

SetIdleTimeout(on) ==
    /\ UserMay("idle") /\ alive
    /\ idleTimer' = on
    /\ UNCHANGED <<alive, limit, slots, client, req, submits, stack, fault>>

Return == Leave("callback")

-----------------------------------------------------------------------------
(* The specification *)

Internal ==
    \/ ReadEnd \/ ParseError \/ Interim \/ Complete \/ Redirected \/ Weaken
    \/ ClientRequest \/ PoolRequest \/ Putback \/ FinishAndNotify
    \/ Erase \/ DestroyList \/ AbortQueued \/ DestroyEnd

Step == Internal \/ Return \/ \E host \in Hosts \cup {""} : Redirect(host)

Event ==
    \/ \E c \in Clients :
           \/ OnConnect(c) \/ OnError(c)
           \/ \E buf \in Buffers : OnRead(c, buf)
           \/ \E m \in {"bad", "close", "redirect_close"} : OnEof(c, m)
    \/ \E r \in Requests :
           \/ OnTimer(r)
           \/ \E i \in Files(r), ok \in BOOLEAN : OnStreamed(r, i, ok)
    \/ \E old \in SUBSET UNION {free[n] : n \in NetLocs} : CheckInactivity(old)

User ==
    \/ \E r \in Requests :
           \/ Submit(r) \/ CancelCall(r)
           \/ \E final \in BOOLEAN : SendChunk(r, final)
    \/ RestoreContext \/ ThrowInRedirect \/ Destroy
    \/ \E m \in Limits : SetMaxConnections(m)
    \/ \E on \in BOOLEAN : SetIdleTimeout(on)

Next == Step \/ Event \/ User

Spec == Init /\ [][Next]_vars

\* Code that was entered runs on, and a timer that stays due is served even if
\* other events keep coming in between (hence SF).  Nothing is assumed of the
\* servers or of the user.
Fairness == WF_vars(Step) /\ \A r \in Requests : SF_vars(OnTimer(r))

FairSpec == Spec /\ Fairness

-----------------------------------------------------------------------------
(* Properties *)

Queued(r) == \E n \in NetLocs : r \in Range(queue[n])
Active(r) == \E c \in Clients : client[c].request = r
OnStack(pcs, r) == \E i \in DOMAIN stack : stack[i].pc \in pcs /\ stack[i].r = r

\* How many times the queues and the clients have request r.
Places(r) ==
    Cardinality({c \in Clients : client[c].request = r})
    + Cardinality({p \in NetLocs \X (1 .. MaxRequests * MaxSubmits) :
                       p[2] \in DOMAIN queue[p[1]] /\ queue[p[1]][p[2]] = r})

\* No assert() of Pool and Client fails and no invalidated iterator is used,
\* whatever the callbacks do (Pool.cc 22, 82, 89, 93, 98, 109, Client.cc 117, 124).
NoFault == fault = "none"

\* A request that was submitted and not yet reported back is in exactly one
\* place, a queue or a client; any other is in none.  A client never runs a
\* request that was reported back (Pool::request 43-77, putback 96-114,
\* cancel_request 79-94, finish_request 279-298, check_inactivity 116-131).
OnePlace ==
    /\ Loop => \A r \in Requests : Places(r) = IF req[r].pool THEN 1 ELSE 0
    /\ \A c \in Clients : client[c].request # 0 => req[client[c].request].pool

\* The client a request points to and the request a client points to are each
\* other's, also in the middle of a callback (Client::request 47, 96,
\* analyze_request 251-256, cleanup_after_redirect, finish_request 280).
Linked ==
    \A r \in Requests, c \in Clients :
        Loop \/ At("callback") => (req[r].client = c <=> client[c].request = r)

\* Between events a client in the busy set has a request for the place its list
\* is about, and one in the free set has none (Pool.cc 52-68, 100-113).
BusyIsServing ==
    Loop /\ alive =>
        \A n \in NetLocs :
            /\ \A c \in busy[n] : /\ client[c].request # 0 /\ client[c].netloc = n
                                  /\ req[client[c].request].netloc = n
            /\ \A c \in free[n] : client[c].request = 0 /\ client[c].netloc = n

\* A request waits only while every connection it may use is taken: no free
\* client is overlooked and no list is left with a queue that nobody will come
\* back to (putback 101-104, request 57-72, check_inactivity 128).
NoLostWakeup ==
    Loop /\ alive =>
        \A n \in NetLocs : queue[n] # <<>> =>
            free[n] = {} /\ \E m \in Limits : Cardinality(busy[n]) >= m

\* The connections to one place never exceed the largest max_connections in
\* use (Pool.h 17, Pool::request 64, README 192).
LimitHolds ==
    \A n \in NetLocs : \E m \in Limits \cup {1} : Cardinality(free[n] \cup busy[n]) <= m

\* The loop is kept running by a client exactly while it has a request: an
\* idle keep-alive connection is weak, one with a request is not (Client.cc 95,
\* 261, 287).
WeakWhenIdle ==
    Loop => \A c \in Clients :
        client[c].conn # "closed" => (client[c].weak <=> client[c].request = 0)

\* The timeout covers a request from its submission to its report: queued,
\* running and between two redirects its timer runs and is listened to, and
\* after that it does not run (ensure_timer_active, cleanup_after_redirect).
TimerCovers ==
    Loop => \A r \in Requests \ Untimed :
        /\ req[r].pool => req[r].timer /\ req[r].listener
        /\ ~req[r].pool => ~req[r].timer /\ ~req[r].listener

\* A response is reported only to the request it was sent for, even when the
\* client has moved on to another request in the middle of a buffer
\* (on_read 157-184, _parser.set_context_request 104).
ResponseBelongs ==
    \A i \in DOMAIN stack : stack[i].pc = "callback" /\ stack[i].ok => stack[i].from = stack[i].r

\* A Streamer writes only to the client that runs the request of its form, and
\* only while that client is at its item: no file goes on into a connection that
\* was given to another request, and the next request does not find the item of
\* the last one (finish_request 289-292, request 107-109, form_file_complete).
StreamerServes ==
    Loop => /\ \A r \in Requests : \A i \in Files(r) :
                   req[r].streamer[i] # 0 =>
                       /\ client[req[r].streamer[i]].request = r
                       /\ client[req[r].streamer[i]].field = i /\ ~req[r].transferred
            /\ \A c \in Clients : client[c].field # 0 =>
                   client[c].request # 0 /\ req[client[c].request].streamer[client[c].field] = c

\* A request is not handed a connection while an earlier one for the same
\* place waits (Pool::request 57-72, putback 101-104).
NoOvertaking ==
    [][At("pool_request") /\ stack' # <<>> /\ Head(stack').pc = "request"
           => queue[req[Top.r].netloc] = <<>>]_vars

\* A callback that only deals with its own request ends no other one, and an
\* exception out of it ends its own if that has not ended yet (the catch in
\* analyze_request 231-236, cancel 130-138).
OwnEnded ==
    [][OwnOnly /\ At("callback") =>
           LET ended == {f.r : f \in {g \in Range(stack') \ Range(stack) : g.pc = "notify"}}
           IN  /\ ended \subseteq {Top.r}
               /\ req[Top.r].pool /\ Tail(stack) # <<>> /\ stack[2] \notin Range(stack')
                      => ended = {Top.r}]_vars

\* The life of a request as the structures of the pool have it.
Phase(r) ==
    IF OnStack({"pool_request", "request"}, r) THEN "placing"
    ELSE IF OnStack({"notify"}, r) THEN "ending"
    ELSE IF Active(r) THEN "running"
    ELSE IF Queued(r) /\ req[r].pool THEN "queued"
    ELSE "idle"

Life == INSTANCE RequestLife WITH phase <- [r \in Requests |-> Phase(r)], submitted <- submits

\* Every request goes through the life RequestLife allows: it is run only after
\* it was submitted, and reported back once per submission.  If every request
\* has a timeout, it also is reported back, whatever the server does or does not
\* do and however often it is redirected (Request::on_timer, Client::timed_out,
\* Pool::cancel_request).
LifePromise == Life!Promise
=============================================================================
