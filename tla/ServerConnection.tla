-------------------------- MODULE ServerConnection --------------------------
(***************************************************************************)
(* One HTTP connection of the server: ServerConnection.cc together with    *)
(* the parts of ServerRequest and ServerResponse that call into it.        *)
(*                                                                         *)
(* The code is single threaded and re-entrant: a stream event runs to      *)
(* completion, but every user callback it makes may call back into the     *)
(* connection before the event's own code goes on.  The variable stack is  *)
(* that call stack, innermost routine first.  A frame names the point a    *)
(* routine continues from; a routine is cut only where it calls another    *)
(* routine or a callback, so nothing interleaves where the code cannot be  *)
(* entered.  Stream events, timers and the user's own loop callbacks need  *)
(* an empty stack.                                                         *)
(***************************************************************************)
EXTENDS Integers, Sequences, SequencesExt

CONSTANTS
    MaxRequests,      \* bound: requests one connection receives
    MaxChunks,        \* bound: chunks the user sends for one response
    MaxKeepalive,     \* config max_keepalive_requests, 0 = unlimited
    IdleTimeout,      \* config idle_timeout is not zero
    Shapes,           \* the kinds of request the peer sends
    LoopCalls,        \* calls the user makes from the event loop
    HandlerCalls,     \* calls the user makes inside each kind of callback
    OwnOnly,          \* a callback only touches the request it is given
    EarlyAnswer,      \* the user answers requests that are still arriving
    FinalData,        \* send_final_chunk() carries data
    Pipelining,       \* how the peer sends: after the answer, ahead of it, many per buffer
    HalfClosedReads,  \* the stream still reads between shutdown() and on_shutdown()
    Failures          \* the failures that occur

ASSUME BoundsAssumption ==
    /\ MaxRequests \in Nat \ {0}
    /\ MaxChunks \in Nat
    /\ MaxKeepalive \in Nat

ASSUME SwitchAssumption ==
    {IdleTimeout, OwnOnly, EarlyAnswer, FinalData, HalfClosedReads} \subseteq BOOLEAN

\* What the connection looks at in a request's headers.  The Connection header
\* is compared with "upgrade" exactly by on_read and without case by upgrade().
Shape == [ka : BOOLEAN, upg : {"no", "exact", "othercase"}, expect : BOOLEAN]

\* The callbacks of the server, of a request and of its failure.
Events == {"route", "partial", "receive", "request", "finish", "drop", "error",
           "partial_error"}

Calls == {"respond", "begin", "chunk", "final", "continue", "partial", "drop", "close",
          "graceful", "upgrade"}   \* "begin" answers with a chunked response, "respond" wholly

ASSUME EnvironmentAssumption ==
    /\ Shapes \subseteq Shape
    /\ Shapes # {}
    /\ LoopCalls \subseteq Calls
    /\ HandlerCalls \in [Events -> SUBSET Calls]
    /\ Pipelining \in {"none", "reads", "buffers"}
    /\ Failures \subseteq {"connect", "parse", "read", "write", "eof"}

VARIABLES
    requests,    \* the deque requests, as request numbers in order of arrival
    parsing,     \* the request the parser is in the middle of, 0 if none
    arrived,     \* how many requests were created
    req,         \* the fields of each ServerRequest
    res,         \* the ServerResponse of each request
    processed,   \* requests_processed
    timer,       \* idle_timer: "null", "off" or "on"
    closing,
    stopping,
    stream,      \* the Stream: what the connection did to it and what is pending
    wire,        \* everything written to the stream, in order
    member,      \* the connection is in server->_connections
    stack,       \* the call stack, innermost frame first
    fault        \* the failed assert() or bad access, "none" if there was none

vars == <<requests, parsing, arrived, req, res, processed, timer, closing, stopping,
          stream, wire, member, stack, fault>>

flags == <<closing, stopping, processed>>
input == <<parsing, arrived>>

Requests == 1 .. MaxRequests
ChunkNumbers == 1 .. MaxChunks + 1

\* A frame is a point in a routine of the connection, in one that deals with
\* request r, or in a callback.  tmp is write_next_response's tmp_chunks.
Frame ==
    [pc : {"on_read", "finish", "finished", "drop", "remove"}, r : {0}, ev : {"-"}, tmp : {<<>>}]
    \cup
    [pc : {"deliver", "received", "request_error", "errored", "write", "rejoin", "wrote"},
     r : Requests, ev : {"-"}, tmp : Seq(ChunkNumbers)]
    \cup
    [pc : {"callback"}, r : Requests, ev : Events, tmp : {<<>>}]

ServerRequest ==
    [done : BOOLEAN, routed : BOOLEAN, partial : BOOLEAN, fin : BOOLEAN, conn : BOOLEAN,
     shape : Shape]

ServerResponse ==
    [st : {"none", "open", "complete"}, ka : BOOLEAN, parts : Seq(ChunkNumbers),
     given : 0 .. MaxChunks + 1]

Stream ==
    [mode : {"open", "shut", "reset", "user"}, listener : BOOLEAN, reading : BOOLEAN,
     unsent : BOOLEAN, eof : BOOLEAN]

\* A response's head is a "lasthead" when it tells the peer that the connection
\* is about to be closed.
Item == [r : Requests, k : {"continue", "head", "lasthead", "chunk", "end"},
         n : 0 .. MaxChunks + 1]

Faults == {"none", "respond: connection", "respond: front", "send: empty queue",
           "finish: empty queue", "finish: incomplete", "finish: not last",
           "idle timer: null", "idle timer: busy", "upgrade: should not happen"}

TypeOK ==
    /\ requests \in Seq(Requests)
    /\ parsing \in 0 .. MaxRequests
    /\ arrived \in 0 .. MaxRequests
    /\ req \in [Requests -> ServerRequest]
    /\ res \in [Requests -> ServerResponse]
    /\ processed \in Nat
    /\ timer \in {"null", "off", "on"}
    /\ closing \in BOOLEAN
    /\ stopping \in BOOLEAN
    /\ stream \in Stream
    /\ wire \in Seq(Item)
    /\ member \in BOOLEAN
    /\ stack \in Seq(Frame)
    /\ fault \in Faults

-----------------------------------------------------------------------------
(* The call stack *)

Point(pc, r) == [pc |-> pc, r |-> r, ev |-> "-", tmp |-> <<>>]
Callback(ev, r) == [pc |-> "callback", r |-> r, ev |-> ev, tmp |-> <<>>]

Top == Head(stack)
At(pc) == fault = "none" /\ stack # <<>> /\ Top.pc = pc
Loop == fault = "none" /\ stack = <<>>

\* The routine on top goes on with fs (returns, if fs is empty).
Goto(fs) == stack' = fs \o Tail(stack)

\* An assert() fails or memory is misused: nothing after that is modelled.
Abort(why) ==
    /\ fault' = why
    /\ UNCHANGED <<requests, parsing, arrived, req, res, processed, timer, closing, stopping,
                   stream, wire, member, stack>>

NewRequest(shape) ==
    [done |-> FALSE, routed |-> FALSE, partial |-> FALSE, fin |-> FALSE, conn |-> TRUE,
     shape |-> shape]

NoResponse == [st |-> "none", ka |-> TRUE, parts |-> <<>>, given |-> 0]

PlainShape == [ka |-> TRUE, upg |-> "no", expect |-> FALSE]

Init ==
    /\ requests = <<>>
    /\ parsing = 0
    /\ arrived = 0
    /\ req = [r \in Requests |-> [NewRequest(PlainShape) EXCEPT !.conn = FALSE]]
    /\ res = [r \in Requests |-> NoResponse]
    /\ processed = 0
    /\ timer = IF IdleTimeout THEN "on" ELSE "null"
    /\ closing = FALSE
    /\ stopping = FALSE
    /\ stream = [mode |-> "open", listener |-> TRUE, reading |-> TRUE, unsent |-> FALSE,
                 eof |-> FALSE]
    /\ wire = <<>>
    /\ member = TRUE
    /\ stack = <<>>
    /\ fault = "none"

-----------------------------------------------------------------------------
(* Routines shared by several callers *)

\* stream->write(): what follows a shutdown() or a reset() never leaves.
Write(items) ==
    IF stream.mode \in {"open", "user"} /\ items # <<>>
    THEN /\ wire' = wire \o items
         /\ stream' = [stream EXCEPT !.unsent = TRUE]
    ELSE UNCHANGED <<wire, stream>>

Chunks(r, ns) == [i \in 1 .. Len(ns) |-> [r |-> r, k |-> "chunk", n |-> ns[i]]]
End(r) == <<[r |-> r, k |-> "end", n |-> 0]>>

\* MUTANT: nobody starts the timer again.
NeverIdle(unsent) == UNCHANGED <<timer, fault>>

\* The timer becomes active when the last write of the last response is out.
\* idle_timer is read without a null check once the queue is empty.
check_if_idle(unsent) ==
    \/ /\ requests = <<>> /\ timer = "null"
       /\ fault' = "idle timer: null"
       /\ UNCHANGED timer
    \/ /\ ~(requests = <<>> /\ timer = "null")
       /\ timer' = IF requests = <<>> /\ timer = "off" /\ ~unsent THEN "on" ELSE timer
       /\ UNCHANGED fault

\* MUTANT: a running timer is left alone.
KeepTimer == UNCHANGED timer

StopTimer == timer' = IF timer = "on" THEN "off" ELSE timer

\* MUTANT: the stream is not shut down.
NoShutdown == UNCHANGED <<stream, timer>>

\* do_close() up to drop_requests(); the caller puts the rest on the stack.
SoftClose ==
    /\ stream' = [stream EXCEPT !.mode = IF @ = "reset" THEN @ ELSE "shut"]
    /\ UNCHANGED timer

HardClose ==
    /\ StopTimer
    /\ stream' = [stream EXCEPT !.listener = FALSE, !.unsent = FALSE, !.mode = "reset"]

Shutdown == <<Point("drop", 0)>>

Close == <<Point("drop", 0), Point("remove", 0)>>

\* MUTANT: the request goes on pointing to the connection.
ForgetOnly(r) ==
    /\ requests' = Tail(requests)
    /\ UNCHANGED req

\* cleanup_request() without its finish_event: the front leaves the queue.
Forget(r) ==
    /\ requests' = Tail(requests)
    /\ req' = [req EXCEPT ![r].conn = FALSE]

\* MUTANT: a response starts without waiting for its turn.
RespondOutOfTurn(r, ka, whole, rest) ==
    /\ res' = [res EXCEPT ![r].st = IF whole THEN "complete" ELSE "open", ![r].ka = ka]
    /\ stack' = <<Point("write", r)>> \o rest
    /\ UNCHANGED <<requests, input, req, flags, timer, stream, wire, member, fault>>

\* MUTANT: the requests left are counted down from zero.
RespondCountingDown(r, ka, whole, rest) ==
    /\ processed' = processed - 1
    /\ res' = [res EXCEPT ![r].st = IF whole THEN "complete" ELSE "open", ![r].ka = ka]
    /\ stack' = IF Head(requests) = r THEN <<Point("write", r)>> \o rest ELSE rest
    /\ UNCHANGED <<requests, input, req, timer, closing, stopping, stream, wire, member, fault>>

\* respond(): rest is the stack the routine returns to.
respond(r, ka, whole, rest) ==
    \/ /\ ~req[r].conn
       /\ Abort("respond: connection")
    \/ /\ req[r].conn /\ requests = <<>>
       /\ Abort("respond: front")
    \/ /\ req[r].conn /\ requests # <<>>
       /\ processed' = processed + 1
       /\ stopping' = \/ stopping
                      \/ MaxKeepalive # 0 /\ processed' >= MaxKeepalive /\ Len(requests) = 1
       /\ res' = [res EXCEPT ![r].st = IF whole THEN "complete" ELSE "open",
                             ![r].ka = ka /\ ~stopping']
       /\ stack' = IF Head(requests) = r THEN <<Point("write", r)>> \o rest ELSE rest
       /\ UNCHANGED <<requests, input, req, timer, closing, stream, wire, member, fault>>

-----------------------------------------------------------------------------
(* on_read *)

CanRead ==
    /\ stream.listener /\ stream.reading /\ ~stream.eof
    /\ stream.mode \in {"open"} \cup (IF HalfClosedReads THEN {"shut"} ELSE {})

\* There is something left that the peer may send within the bounds.
MoreInput ==
    \/ parsing # 0
    \/ arrived < MaxRequests /\ (requests = <<>> \/ Pipelining # "none")

OnRead ==
    /\ Loop /\ CanRead /\ MoreInput
    /\ stack' = <<Point("on_read", 0)>>
    /\ UNCHANGED <<requests, input, req, res, flags, timer, stream, wire, member, fault>>

\* MUTANT: the request being received is put into the queue again.
EmplaceAgain(r) == Append(requests, r)

Emplace(r) == IF requests = <<>> \/ Last(requests) # r THEN Append(requests, r) ELSE requests

\* One turn of on_read's loop up to the first callback: the parser takes what
\* is in the buffer and stops inside the headers, inside the body, at the end
\* of the request or at an error, which counts as done.
Parse(result, shape) ==
    LET r  == IF parsing # 0 THEN parsing ELSE arrived + 1
        q  == IF parsing # 0 THEN req[r] ELSE NewRequest(shape)
        ok == result \in {"body", "done"}
        pipelined_upgrade == ok /\ Len(Emplace(r)) > 1 /\ q.shape.upg = "exact"
        routes == ok /\ ~pipelined_upgrade /\ ~q.routed
    IN  /\ At("on_read")
        /\ MoreInput
        /\ parsing # 0 => shape = req[r].shape
        /\ result = "error" => "parse" \in Failures
        /\ result = "headers" => ~q.routed
        /\ StopTimer
        /\ requests' = Emplace(r)
        /\ arrived' = IF parsing # 0 THEN arrived ELSE r
        /\ parsing' = IF result \in {"done", "error"} THEN 0 ELSE r
        /\ req' = [req EXCEPT ![r] = [q EXCEPT !.done = result \in {"done", "error"},
                                               !.routed = @ \/ routes]]
        /\ Goto(CASE result = "headers" -> <<>>
                  [] result = "error" \/ pipelined_upgrade -> <<Point("request_error", r)>>
                  [] routes -> <<Callback("route", r), Point("deliver", r)>>
                  [] OTHER -> <<Point("deliver", r)>>)
        /\ UNCHANGED <<res, flags, stream, wire, member, fault>>

\* The request's own receive_event comes first, and the server's request_event
\* follows whatever its callbacks did to the request or to the connection.
Deliver ==
    /\ At("deliver")
    /\ LET r == Top.r
       IN  Goto(CASE req[r].partial -> <<Callback("partial", r), Point("received", r)>>
                  [] ~req[r].partial /\ req[r].done ->
                         <<Callback("receive", r), Callback("request", r), Point("received", r)>>
                  [] OTHER -> <<Point("received", r)>>)
    /\ UNCHANGED <<requests, input, req, res, flags, timer, stream, wire, member, fault>>

\* The end of the loop's body.  The buffer is empty unless the request is done;
\* a finished response does not end the loop, a closing connection does.
Received(more) ==
    /\ At("received")
    /\ more => Pipelining = "buffers" /\ req[Top.r].done /\ arrived < MaxRequests
    /\ LET r    == Top.r
           next == IF more THEN <<Point("on_read", 0)>> ELSE <<>>
           last == closing \/ ~req[r].shape.ka
       IN  \/ /\ ~req[r].done
              /\ Goto(<<>>)
              /\ UNCHANGED stream
           \/ /\ req[r].done /\ req[r].fin
              /\ Goto(<<Point("finish", 0)>> \o next)
              /\ UNCHANGED stream
           \/ /\ req[r].done /\ ~req[r].fin /\ last
              /\ Goto(<<>>)
              /\ stream' = [stream EXCEPT !.reading = FALSE]
           \/ /\ req[r].done /\ ~req[r].fin /\ ~last
              /\ Goto(next)
              /\ UNCHANGED stream
    /\ UNCHANGED <<requests, input, req, res, flags, timer, wire, member, fault>>

\* A read error ends the request being received, or a new one made for it.
OnReadError ==
    LET fresh == requests = <<>> \/ req[Last(requests)].done
        r == IF fresh THEN arrived + 1 ELSE Last(requests)
        q == IF fresh THEN NewRequest(PlainShape) ELSE req[r]
    IN  /\ Loop /\ CanRead /\ "read" \in Failures
        /\ fresh => arrived < MaxRequests
        /\ StopTimer
        /\ requests' = IF fresh THEN Append(requests, r) ELSE requests
        /\ arrived' = IF fresh THEN r ELSE arrived
        /\ req' = [req EXCEPT ![r] = [q EXCEPT !.done = TRUE]]
        /\ stack' = <<Point("request_error", r)>>
        /\ UNCHANGED <<parsing, res, flags, stream, wire, member, fault>>

RequestError ==
    /\ At("request_error")
    /\ stream' = [stream EXCEPT !.reading = FALSE]
    /\ LET r == Top.r
       IN  Goto(<<Callback(IF req[r].partial THEN "partial_error" ELSE "error", r),
                  Point("errored", r)>>)
    /\ UNCHANGED <<requests, input, req, res, flags, timer, wire, member, fault>>

\* Without an answer from the user the answer is default_error_response(400),
\* which is not keep-alive; an answer that is there must not be keep-alive.
Errored ==
    /\ At("errored")
    /\ LET r == Top.r
       IN  \/ /\ res[r].st = "none"
              /\ respond(r, FALSE, TRUE, Tail(stack))
           \/ /\ res[r].st # "none"
              /\ res' = [res EXCEPT ![r].ka = FALSE]
              /\ Goto(<<>>)
              /\ UNCHANGED <<requests, input, req, flags, timer, stream, wire, member, fault>>

-----------------------------------------------------------------------------
(* Writing and finishing responses *)

\* MUTANT: what was pipelined behind a last response is kept and read on.
WriteNextResponseOnly ==
    /\ At("write")
    /\ LET r == Top.r
           last == ~res[r].ka \/ ~req[r].shape.ka
           head == <<[r |-> r, k |-> IF last THEN "lasthead" ELSE "head", n |-> 0]>>
       IN  /\ wire' = wire \o head \o Chunks(r, res[r].parts)
           /\ stream' = [stream EXCEPT !.unsent = TRUE]
           /\ res' = [res EXCEPT ![r].parts = <<>>]
    /\ Goto(<<Point("wrote", Top.r)>>)
    /\ UNCHANGED <<requests, input, req, flags, timer, member, fault>>

\* The front's response starts: its head, and all of it if it is complete.
\* The chunks that an incomplete one has so far are kept back (tmp_chunks)
\* until the requests behind a last response are dropped.
WriteNextResponse ==
    /\ At("write")
    /\ LET r    == Top.r
           tmp  == res[r].parts
           open == res[r].st = "open"
           last == ~res[r].ka \/ ~req[r].shape.ka
           head == <<[r |-> r, k |-> IF last THEN "lasthead" ELSE "head", n |-> 0]>>
           ignore == last /\ req[r].done
           then(pc) == [pc |-> pc, r |-> r, ev |-> "-", tmp |-> IF open THEN tmp ELSE <<>>]
       IN  /\ IF stream.mode \in {"open", "user"}
              THEN /\ wire' = wire \o head \o (IF open THEN <<>> ELSE Chunks(r, tmp) \o End(r))
                   /\ stream' = [stream EXCEPT !.unsent = TRUE, !.reading = @ /\ ~ignore]
              ELSE /\ stream' = [stream EXCEPT !.reading = @ /\ ~ignore]
                   /\ UNCHANGED wire
           /\ res' = [res EXCEPT ![r].parts = IF open THEN <<>> ELSE @]
           /\ closing' = (closing \/ last)
           /\ \/ /\ last /\ Len(requests) > 1
                 /\ requests' = Tail(requests)
                 /\ Goto(<<Point("drop", 0), then("rejoin")>>)
              \/ /\ ~(last /\ Len(requests) > 1)
                 /\ Goto(<<then("wrote")>>)
                 /\ UNCHANGED requests
    /\ UNCHANGED <<input, req, stopping, processed, timer, member, fault>>

\* requests.push_front(req) once the pipelined requests are dropped.
Rejoin ==
    /\ At("rejoin")
    /\ requests' = <<Top.r>> \o requests
    /\ Goto(<<[Top EXCEPT !.pc = "wrote"]>>)
    /\ UNCHANGED <<input, req, res, flags, timer, stream, wire, member, fault>>

\* MUTANT: the chunks that were kept back are forgotten.
WroteHeadOnly ==
    /\ At("wrote")
    /\ Goto(IF res[Top.r].st = "complete" THEN <<Point("finish", 0)>> ELSE <<>>)
    /\ UNCHANGED <<requests, input, req, res, flags, timer, stream, wire, member, fault>>

\* MUTANT: a complete response is not finished.
WroteUnfinished ==
    /\ At("wrote")
    /\ Write(Chunks(Top.r, Top.tmp))
    /\ Goto(<<>>)
    /\ UNCHANGED <<requests, input, req, res, flags, timer, member, fault>>

Wrote ==
    /\ At("wrote")
    /\ \/ /\ res[Top.r].st = "complete"
          /\ Goto(<<Point("finish", 0)>>)
          /\ UNCHANGED <<wire, stream>>
       \/ /\ res[Top.r].st # "complete"
          /\ Write(Chunks(Top.r, Top.tmp))
          /\ Goto(<<>>)
    /\ UNCHANGED <<requests, input, req, res, flags, timer, member, fault>>

\* finish_request() up to the finish_event: a request that is still arriving
\* is finished by on_read when it is done.
FinishRequest ==
    /\ At("finish")
    /\ \/ /\ requests = <<>>
          /\ Abort("finish: empty queue")
       \/ /\ requests # <<>> /\ res[Head(requests)].st # "complete"
          /\ Abort("finish: incomplete")
       \/ /\ requests # <<>> /\ res[Head(requests)].st = "complete"
          /\ LET r == Head(requests)
             IN  \/ /\ ~req[r].done
                    /\ req' = [req EXCEPT ![r].fin = TRUE]
                    /\ Goto(<<>>)
                    /\ UNCHANGED requests
                 \/ /\ req[r].done
                    /\ Forget(r)
                    /\ Goto(<<Callback("finish", r), Point("finished", 0)>>)
          /\ UNCHANGED <<input, res, flags, timer, stream, wire, member, fault>>

Finished ==
    /\ At("finished")
    /\ \/ /\ closing \/ stopping
          /\ requests # <<>>
          /\ Abort("finish: not last")
       \/ /\ closing \/ stopping
          /\ requests = <<>>
          /\ SoftClose
          /\ Goto(Shutdown)
          /\ UNCHANGED <<requests, input, req, res, flags, wire, member, fault>>
       \/ /\ ~closing /\ ~stopping
          /\ requests # <<>>
          /\ Goto(IF res[Head(requests)].st # "none" THEN <<Point("write", Head(requests))>>
                                                         ELSE <<>>)
          /\ UNCHANGED <<requests, input, req, res, flags, timer, stream, wire, member, fault>>
       \/ /\ ~closing /\ ~stopping
          /\ requests = <<>>
          /\ check_if_idle(stream.unsent)
          /\ Goto(<<>>)
          /\ UNCHANGED <<requests, input, req, res, flags, stream, wire, member>>

\* One turn of drop_requests(): the request leaves the queue first, then its
\* user hears finish_event and, unless its response was complete, why.
DropRequests ==
    /\ At("drop")
    /\ \/ /\ requests = <<>>
          /\ Goto(<<>>)
          /\ UNCHANGED <<requests, req>>
       \/ /\ requests # <<>>
          /\ LET r == Head(requests)
                 why == CASE ~req[r].done /\ req[r].partial -> <<Callback("partial_error", r)>>
                          [] ~req[r].done /\ ~req[r].partial -> <<Callback("error", r)>>
                          [] req[r].done /\ res[r].st # "complete" -> <<Callback("drop", r)>>
                          [] OTHER -> <<>>
             IN  /\ Forget(r)
                 /\ Goto(<<Callback("finish", r)>> \o why \o <<Point("drop", 0)>>)
    /\ UNCHANGED <<input, res, flags, timer, stream, wire, member, fault>>

\* server->remove(this), the last step of do_close() and upgrade().
RemoveConnection ==
    /\ At("remove")
    /\ member' = FALSE
    /\ Goto(<<>>)
    /\ UNCHANGED <<requests, input, req, res, flags, timer, stream, wire, fault>>

-----------------------------------------------------------------------------
(* The other stream events and the timer *)

OnConnectionError ==
    /\ Loop /\ "connect" \in Failures
    /\ stream.listener /\ stream.mode = "open" /\ arrived = 0
    /\ HardClose
    /\ stack' = Close
    /\ UNCHANGED <<requests, input, req, res, flags, wire, member, fault>>

\* The on_write of the write that empties the stream's queue.  Those before it
\* find the queue not empty and do nothing.
OnWrite ==
    /\ Loop /\ stream.listener /\ stream.unsent
    /\ stream' = [stream EXCEPT !.unsent = FALSE]
    /\ check_if_idle(FALSE)
    /\ UNCHANGED <<requests, input, req, res, flags, wire, member, stack>>

OnWriteError ==
    /\ Loop /\ stream.listener /\ stream.unsent /\ "write" \in Failures
    /\ HardClose
    /\ stack' = Close
    /\ UNCHANGED <<requests, input, req, res, flags, wire, member, fault>>

\* MUTANT: the connection stays in the server.
OnShutdownStays ==
    /\ Loop /\ stream.listener /\ stream.mode = "shut" /\ ~stream.unsent
    /\ StopTimer
    /\ stream' = [stream EXCEPT !.listener = FALSE, !.mode = "reset"]
    /\ UNCHANGED <<requests, input, req, res, flags, wire, member, stack, fault>>

\* The queued shutdown is reached when everything before it is written.
OnShutdown ==
    /\ Loop /\ stream.listener /\ stream.mode = "shut" /\ ~stream.unsent
    /\ StopTimer
    /\ stream' = [stream EXCEPT !.listener = FALSE, !.mode = "reset"]
    /\ member' = FALSE
    /\ UNCHANGED <<requests, input, req, res, flags, wire, stack, fault>>

OnEof ==
    /\ Loop /\ stream.listener /\ ~stream.eof /\ "eof" \in Failures
    /\ stream' = [stream EXCEPT !.eof = TRUE, !.mode = IF @ = "reset" THEN @ ELSE "shut"]
    /\ stack' = Shutdown
    /\ UNCHANGED <<requests, input, req, res, flags, timer, wire, member, fault>>

OnIdleTimer ==
    /\ Loop /\ timer = "on"
    /\ \/ /\ requests # <<>>
          /\ Abort("idle timer: busy")
       \/ /\ requests = <<>>
          /\ HardClose
          /\ stack' = Close
          /\ UNCHANGED <<requests, input, req, res, flags, wire, member, fault>>

-----------------------------------------------------------------------------
(* What the user calls, from the event loop or inside a callback.  Calls that *)
(* the code answers with an exception or ignores are left out: they change    *)
(* nothing.                                                                   *)

UserMay(call) ==
    /\ fault = "none"
    /\ \/ stack = <<>> /\ member /\ call \in LoopCalls
       \/ stack # <<>> /\ Top.pc = "callback" /\ call \in HandlerCalls[Top.ev]

\* The user has seen request r and it still points to the connection.
Holds(r) ==
    /\ req[r].conn
    /\ \/ stack # <<>> /\ Top.r = r
       \/ req[r].routed /\ (stack = <<>> \/ ~OwnOnly)

Return ==
    /\ At("callback")
    /\ Goto(<<>>)
    /\ UNCHANGED <<requests, input, req, res, flags, timer, stream, wire, member, fault>>

EnablePartial(r) ==
    /\ UserMay("partial") /\ Holds(r)
    /\ ~req[r].partial /\ ~req[r].done
    /\ req' = [req EXCEPT ![r].partial = TRUE]
    /\ UNCHANGED <<requests, input, res, flags, timer, stream, wire, member, stack, fault>>

\* MUTANT: a request is answered again.
RespondAgain(r, ka, whole) ==
    /\ UserMay(IF whole THEN "respond" ELSE "begin") /\ Holds(r)
    /\ EarlyAnswer \/ req[r].done
    /\ respond(r, ka, whole, stack)

\* ServerRequest::respond and redirect.
Respond(r, ka, whole) ==
    /\ UserMay(IF whole THEN "respond" ELSE "begin") /\ Holds(r)
    /\ EarlyAnswer \/ req[r].done
    /\ res[r].st = "none"
    /\ respond(r, ka, whole, stack)

\* At most one 100-continue per request, a bound on the user's calls.
ContinueOnce(r) == \A i \in DOMAIN wire : wire[i].r = r => wire[i].k # "continue"

SendContinue(r) ==
    /\ UserMay("continue") /\ Holds(r)
    /\ res[r].st = "none" /\ req[r].shape.expect /\ ContinueOnce(r)
    /\ \/ /\ requests = <<>>
          /\ Abort("send: empty queue")
       \/ /\ requests # <<>> /\ Head(requests) = r
          /\ Write(<<[r |-> r, k |-> "continue", n |-> 0]>>)
          /\ UNCHANGED <<requests, input, req, res, flags, timer, member, stack, fault>>

\* A chunk goes out at once if its response is the front's, else it waits.
SendChunk(r) ==
    /\ UserMay("chunk") /\ Holds(r)
    /\ res[r].st = "open" /\ res[r].given < MaxChunks
    /\ LET n == res[r].given + 1
       IN  \/ /\ requests = <<>>
              /\ Abort("send: empty queue")
           \/ /\ requests # <<>> /\ Head(requests) = r
              /\ Write(Chunks(r, <<n>>))
              /\ res' = [res EXCEPT ![r].given = n]
              /\ UNCHANGED <<requests, input, req, flags, timer, member, stack, fault>>
           \/ /\ requests # <<>> /\ Head(requests) # r
              /\ res' = [res EXCEPT ![r].given = n, ![r].parts = Append(@, n)]
              /\ UNCHANGED <<requests, input, req, flags, timer, stream, wire, member, stack,
                             fault>>

\* The chunk given with send_final_chunk() is written only at the front.
SendFinalChunk(r) ==
    /\ UserMay("final") /\ Holds(r)
    /\ res[r].st = "open" /\ res[r].given <= MaxChunks
    /\ LET n == res[r].given + 1
           data == IF FinalData THEN <<n>> ELSE <<>>
       IN  \/ /\ requests = <<>>
              /\ Abort("send: empty queue")
           \/ /\ requests # <<>>
              /\ res' = [res EXCEPT ![r].st = "complete", ![r].given = @ + Len(data)]
              /\ \/ /\ Head(requests) = r
                    /\ Write(Chunks(r, data) \o End(r))
                    /\ stack' = <<Point("finish", 0)>> \o stack
                 \/ /\ Head(requests) # r
                    /\ UNCHANGED <<stream, wire, stack>>
              /\ UNCHANGED <<requests, input, req, flags, timer, member, fault>>

\* ServerRequest::drop closes the connection unless the answer is complete.
Drop(r) ==
    /\ UserMay("drop") /\ Holds(r)
    /\ res[r].st # "complete"
    /\ HardClose
    /\ stack' = Close \o stack
    /\ UNCHANGED <<requests, input, req, res, flags, wire, member, fault>>

\* Server::stop() closes every connection of the server.
CloseConnection ==
    /\ UserMay("close") /\ member
    /\ HardClose
    /\ stack' = Close \o stack
    /\ UNCHANGED <<requests, input, req, res, flags, wire, member, fault>>

GracefulStop ==
    /\ UserMay("graceful") /\ member
    /\ \/ /\ requests = <<>>
          /\ SoftClose
          /\ stack' = Shutdown \o stack
          /\ UNCHANGED stopping
       \/ /\ requests # <<>>
          /\ stopping' = TRUE
          /\ UNCHANGED <<stream, timer, stack>>
    /\ UNCHANGED <<requests, input, req, res, processed, closing, wire, member, fault>>

\* MUTANT: the connection goes on listening to the upgraded stream.
UpgradeListening(r) ==
    /\ UserMay("upgrade") /\ Holds(r)
    /\ req[r].shape.upg # "no" /\ requests = <<r>>
    /\ stream' = [stream EXCEPT !.mode = IF @ = "open" THEN "user" ELSE @]
    /\ timer' = "null"
    /\ Forget(r)
    /\ stack' = <<Callback("finish", r), Point("remove", 0)>> \o stack
    /\ UNCHANGED <<input, res, flags, wire, member, fault>>

Upgrade(r) ==
    /\ UserMay("upgrade") /\ Holds(r)
    /\ req[r].shape.upg # "no"
    /\ \/ /\ requests # <<r>>
          /\ Abort("upgrade: should not happen")
       \/ /\ requests = <<r>>
          /\ stream' = [stream EXCEPT !.listener = FALSE,
                                      !.mode = IF @ = "open" THEN "user" ELSE @]
          /\ timer' = "null"
          /\ Forget(r)
          /\ stack' = <<Callback("finish", r), Point("remove", 0)>> \o stack
          /\ UNCHANGED <<input, res, flags, wire, member, fault>>

-----------------------------------------------------------------------------
(* The specification *)

\* What the code goes on with by itself, once it was entered.
Step ==
    \/ \E result \in {"headers", "body", "done", "error"}, shape \in Shapes :
           Parse(result, shape)
    \/ Deliver \/ \E more \in BOOLEAN : Received(more)
    \/ RequestError \/ Errored
    \/ WriteNextResponse \/ Rejoin \/ Wrote
    \/ FinishRequest \/ Finished
    \/ DropRequests \/ RemoveConnection
    \/ Return

Event ==
    \/ OnRead \/ OnReadError \/ OnConnectionError
    \/ OnWrite \/ OnWriteError
    \/ OnShutdown \/ OnEof \/ OnIdleTimer

User ==
    \/ \E r \in Requests :
           \/ \E ka, whole \in BOOLEAN : Respond(r, ka, whole)
           \/ EnablePartial(r) \/ SendContinue(r) \/ SendChunk(r) \/ SendFinalChunk(r)
           \/ Drop(r) \/ Upgrade(r)
    \/ CloseConnection \/ GracefulStop

Next == Step \/ Event \/ User

Spec == Init /\ [][Next]_vars

\* Code that was entered runs on, and the loop gets round to reporting what the
\* stream has written even when other events keep coming in between (hence SF).
\* Nothing is assumed of the peer's sending or of the user.
Fairness == WF_vars(Step) /\ SF_vars(OnWrite) /\ SF_vars(OnShutdown)

FairSpec == Spec /\ Fairness

-----------------------------------------------------------------------------
(* Properties *)

Destroyed == ~member /\ stack = <<>>

Items(r) == SelectSeq(wire, LAMBDA i : i.r = r /\ i.k # "continue")
Written(r, k) == \E i \in DOMAIN wire : wire[i].r = r /\ wire[i].k = k

\* No assert() of the connection fails, no null idle_timer is used and no
\* front() of an empty deque is taken, whatever the order of reads, writes,
\* answers and closes (ServerConnection.cc 46, 130, 192, 201, 214, 227, 238, 259).
NoFault == fault = "none"

\* Responses leave in the order of their requests, however the user answers:
\* nothing of a request follows something of a later one (respond 143,
\* finish_request 244, send_chunk 204, send_final_chunk 216).
WireInOrder == \A i, j \in DOMAIN wire : i < j => wire[i].r <= wire[j].r

\* What leaves for one request is one well-formed message: the interim answer
\* before the head, one head, the chunks in the order they were given, and one
\* end (write_next_response 146-189 with its tmp_chunks, send_continue 194).
ResponsesWellFormed ==
    /\ \A r \in Requests : \A i \in DOMAIN Items(r) :
           LET it == Items(r)[i]
           IN  /\ it.k \in {"head", "lasthead"} <=> i = 1
               /\ it.k = "chunk" => it.n = i - 1
               /\ it.k = "end" => i = Len(Items(r))
    /\ \A i, j \in DOMAIN wire :
           i < j /\ wire[i].r = wire[j].r /\ wire[j].k = "continue" => wire[i].k = "continue"

\* No chunk gets lost: a response that is at its end carried every chunk the
\* user gave, and between events the chunks of a queued response are either on
\* the wire or waiting in its body (send_chunk 210, send_final_chunk 213-221).
NoChunkLost ==
    \A r \in Requests :
        LET sent == Len(SelectSeq(Items(r), LAMBDA i : i.k = "chunk"))
        IN  /\ Written(r, "end") => sent = res[r].given
            /\ Loop /\ r \in Range(requests) /\ ~Written(r, "end") /\ stream.mode = "open" =>
                   sent + Len(res[r].parts) = res[r].given

\* A response that announced the end of the connection is the last one
\* (write_next_response 164-176, on_read 120-123).
LastIsLast == \A i, j \in DOMAIN wire : wire[i].k = "lasthead" /\ i < j => wire[j].r = wire[i].r

\* A request never points to a destroyed connection, and neither does the
\* stream: once the server has let go of the connection and its code has
\* returned, nothing reaches it (on_shutdown 275-280, do_close 303-322).
NoDangling == Destroyed => ~stream.listener /\ \A r \in Requests : ~req[r].conn

\* The idle timer never runs while a request is being received or answered
\* (the assert in its callback, 46; on_read 77; check_if_idle 259).
IdleOnlyWhenIdle == timer = "on" => requests = <<>>

\* An idle connection does not live forever: with nothing to answer and
\* nothing left to write, its timer runs (check_if_idle 258-262, on_write 272).
IdleIsTimed ==
    Loop /\ IdleTimeout /\ member /\ stream.mode = "open" /\ requests = <<>> /\ ~stream.unsent
        => timer = "on"

\* Nothing is forgotten: between events the front's answer, if there is one,
\* has started, and a complete one only waits for a request that is still
\* arriving on a stream that is still read (finish_request 228-232, 243-244).
NoStall ==
    Loop /\ member /\ requests # <<>> /\ stream.mode = "open" =>
        LET r == Head(requests)
        IN  /\ res[r].st # "none" => Written(r, "head") \/ Written(r, "lasthead")
            /\ res[r].st = "complete" => req[r].fin /\ ~req[r].done /\ stream.reading

\* Between events queued requests belong to a connection that can still
\* answer them: it has its stream, its listener and its place in the server
\* (do_close drops what it leaves behind, 317; on_read must not add to it).
QueueIsLive == Loop /\ requests # <<>> => member /\ stream.listener /\ stream.mode = "open"

\* An upgraded stream is the user's: the connection neither writes to it nor
\* closes it nor stops its reading (upgrade 335-353).
UpgradedStreamUntouched == [][stream.mode = "user" => UNCHANGED <<wire, stream>>]_vars

\* A finish callback runs for exactly the requests that are let go, when they
\* are let go, and so at most once for each, although on_read goes on with a
\* request and with its buffer after a callback that has dropped it, or has closed
\* the connection, and puts what is not the last of the queue into it
\* (cleanup_request 250-256, on_read 75-125, drop_requests 284-303).
LetGo(r) == req[r].conn /\ ~req'[r].conn
FinishCalled(r) == Len(stack') > Len(stack) /\ Head(stack') = Callback("finish", r)
FinishOnce == [][\A r \in Requests : FinishCalled(r) <=> LetGo(r)]_vars

\* The life of the connection as its server knows it.
Phase ==
    IF ~member \/ stream.mode = "user" THEN "gone"
    ELSE IF stream.mode = "shut" THEN "shut"
    ELSE IF stream.mode = "reset" THEN "closed"
    ELSE IF stopping THEN "stopping"
    ELSE IF requests # <<>> THEN "busy"
    ELSE "idle"

Life == INSTANCE ConnectionLife WITH Conns <- {1}, phase <- [c \in {1} |-> Phase]

\* A connection goes through the life ConnectionLife allows: once it is stopping
\* it never waits for another request, once it is shut it never opens again, and
\* once its stream is shut or reset it leaves the server (do_close 303-322,
\* on_shutdown 275-280, graceful_stop 324-333, finish_request 235-241).
ConnectionLives == Life!Promise

\* A connection that is to be closed, because a last response has started or
\* graceful_stop() was called, lives only as long as it waits for the rest of
\* a request or for an answer of the user (finish_request 228-241).
Waiting == \E i \in DOMAIN requests : ~req[requests[i]].done \/ res[requests[i]].st # "complete"
DrainEnds == [](member /\ (closing \/ stopping) => <>(~member \/ Waiting))

\* A connection answers at most max_keepalive_requests requests (Server.h 63,
\* respond 136-139).
KeepaliveLimit ==
    MaxKeepalive # 0 =>
        Len(SelectSeq(wire, LAMBDA i : i.k \in {"head", "lasthead"})) <= MaxKeepalive

=============================================================================
