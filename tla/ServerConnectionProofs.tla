----------------------- MODULE ServerConnectionProofs -----------------------
(* Proofs about ServerConnection, for every value of its constants. *)
EXTENDS ServerConnection, TLAPS

\* The frames the routines push have the type of a frame.
LEMMA FrameTypes ==
    /\ \A pc \in {"on_read", "finish", "finished", "drop", "remove"} : Point(pc, 0) \in Frame
    /\ \A pc \in {"deliver", "received", "request_error", "errored", "write", "rejoin", "wrote"},
          r \in Requests : Point(pc, r) \in Frame
    /\ \A ev \in Events, r \in Requests : Callback(ev, r) \in Frame
<1>1. <<>> \in Seq(ChunkNumbers)
    OBVIOUS
<1> QED
    BY <1>1 DEF Frame, Point, Callback

\* A frame that deals with a request names one.
LEMMA FrameRequest ==
    ASSUME NEW f \in Frame,
           f.pc \in {"deliver", "received", "request_error", "errored", "write", "rejoin", "wrote",
                     "callback"}
    PROVE  f.r \in Requests
BY DEF Frame

\* Going on with frames keeps the stack a stack.
LEMMA GotoType ==
    ASSUME NEW s \in Seq(Frame), s # <<>>, NEW fs \in Seq(Frame)
    PROVE  fs \o Tail(s) \in Seq(Frame)
OBVIOUS

\* What a response's chunks put on the wire are items.
LEMMA ChunksType ==
    ASSUME NEW r \in Requests, NEW ns \in Seq(ChunkNumbers), MaxChunks \in Nat
    PROVE  Chunks(r, ns) \in Seq(Item)
BY DEF Chunks, Item, ChunkNumbers

\* The end of a response is an item of the wire.
LEMMA EndType ==
    ASSUME NEW r \in Requests, MaxChunks \in Nat
    PROVE  End(r) \in Seq(Item)
BY DEF End, Item

\* A connection starts out with every variable in its type.
LEMMA InitType == Init => TypeOK
<1> SUFFICES ASSUME Init PROVE TypeOK
    OBVIOUS
<1> USE BoundsAssumption
<1>1. PlainShape \in Shape
    BY DEF PlainShape, Shape
<1>2. NewRequest(PlainShape) \in ServerRequest
    BY <1>1 DEF NewRequest, ServerRequest
<1>3. NoResponse \in ServerResponse
    BY DEF NoResponse, ServerResponse
<1>4. req \in [Requests -> ServerRequest]
    BY <1>2 DEF Init, ServerRequest
<1>5. stream \in Stream
    BY DEF Init, Stream
<1>6. res \in [Requests -> ServerResponse]
    BY <1>3 DEF Init
<1>7. requests \in Seq(Requests) /\ wire \in Seq(Item) /\ stack \in Seq(Frame)
    BY DEF Init
<1>8. parsing \in 0 .. MaxRequests /\ arrived \in 0 .. MaxRequests /\ processed \in Nat
    BY DEF Init
<1>9. timer \in {"null", "off", "on"} /\ fault \in Faults
    BY DEF Init, Faults
<1> QED
    BY <1>4, <1>5, <1>6, <1>7, <1>8, <1>9 DEF Init, TypeOK

\* Writing items to the stream keeps the types of stream and wire.
LEMMA WriteType ==
    ASSUME TypeOK, NEW items \in Seq(Item), Write(items)
    PROVE  wire' \in Seq(Item) /\ stream' \in Stream
<1>1. CASE stream.mode \in {"open", "user"} /\ items # <<>>
  <2>1. wire' = wire \o items /\ stream' = [stream EXCEPT !.unsent = TRUE]
    BY <1>1 DEF Write
  <2>2. wire' \in Seq(Item)
    BY <2>1 DEF TypeOK
  <2>3. stream' \in Stream
    BY <2>1 DEF TypeOK, Stream
  <2> QED
    BY <2>2, <2>3
<1>2. CASE ~(stream.mode \in {"open", "user"} /\ items # <<>>)
    BY <1>2 DEF Write, TypeOK
<1> QED
    BY <1>1, <1>2

\* The frames that close() and shutdown() leave on the stack are frames.
LEMMA CloseTypes ==
    /\ Close \in Seq(Frame)
    /\ Shutdown \in Seq(Frame)
BY FrameTypes DEF Close, Shutdown

\* Stopping the idle timer keeps its type.
LEMMA TimerType ==
    ASSUME TypeOK, StopTimer
    PROVE  timer' \in {"null", "off", "on"}
BY DEF TypeOK, StopTimer

\* check_if_idle() keeps the types of the timer and of the fault.
LEMMA IdleType ==
    ASSUME TypeOK, NEW unsent \in BOOLEAN, check_if_idle(unsent)
    PROVE  timer' \in {"null", "off", "on"} /\ fault' \in Faults
BY DEF TypeOK, check_if_idle, Faults

\* close() keeps the types of stream and timer.
LEMMA HardCloseType ==
    ASSUME TypeOK, HardClose
    PROVE  timer' \in {"null", "off", "on"} /\ stream' \in Stream
BY TimerType DEF HardClose, TypeOK, Stream

\* shutdown() keeps the types of stream and timer.
LEMMA SoftCloseType ==
    ASSUME TypeOK, SoftClose
    PROVE  timer' \in {"null", "off", "on"} /\ stream' \in Stream
BY DEF SoftClose, TypeOK, Stream

\* A fault that has a name keeps the types.
LEMMA AbortType ==
    ASSUME TypeOK, NEW why \in Faults, Abort(why)
    PROVE  TypeOK'
BY DEF TypeOK, Abort

\* Taking the front out of the queue keeps the types of queue and requests.
LEMMA ForgetType ==
    ASSUME TypeOK, requests # <<>>, NEW r \in Requests, Forget(r)
    PROVE  requests' \in Seq(Requests) /\ req' \in [Requests -> ServerRequest]
<1>1. requests' \in Seq(Requests)
    BY DEF Forget, TypeOK
<1>2. req' \in [Requests -> ServerRequest]
    BY DEF Forget, TypeOK, ServerRequest
<1> QED
    BY <1>1, <1>2

\* respond() keeps the types, whoever calls it.
LEMMA RespondType ==
    ASSUME TypeOK, NEW r \in Requests, NEW ka \in BOOLEAN, NEW whole \in BOOLEAN,
           NEW rest \in Seq(Frame), respond(r, ka, whole, rest)
    PROVE  TypeOK'
<1>1. CASE Abort("respond: connection") \/ Abort("respond: front")
    BY <1>1, AbortType DEF Faults
<1>2. CASE ~(Abort("respond: connection") \/ Abort("respond: front"))
  <2>1. /\ processed' = processed + 1
        /\ stopping' = (stopping \/ (MaxKeepalive # 0 /\ processed' >= MaxKeepalive
                                        /\ Len(requests) = 1))
        /\ res' = [res EXCEPT ![r].st = IF whole THEN "complete" ELSE "open",
                              ![r].ka = ka /\ ~stopping']
        /\ stack' = IF Head(requests) = r THEN <<Point("write", r)>> \o rest ELSE rest
        /\ UNCHANGED <<requests, input, req, timer, closing, stream, wire, member, fault>>
    BY <1>2 DEF respond
  <2>2. processed' \in Nat /\ stopping' \in BOOLEAN
    BY <2>1 DEF TypeOK
  <2>3. res' \in [Requests -> ServerResponse]
    <3> DEFINE st == IF whole THEN "complete" ELSE "open"
               new == ka /\ ~stopping'
    <3>1. st \in {"none", "open", "complete"} /\ new \in BOOLEAN
      OBVIOUS
    <3>2. res' = [res EXCEPT ![r] = [@ EXCEPT !.st = st, !.ka = new]]
      BY <2>1
    <3> HIDE DEF st, new
    <3>3. [res[r] EXCEPT !.st = st, !.ka = new] \in ServerResponse
      BY <3>1 DEF TypeOK, ServerResponse
    <3> QED
      BY <3>2, <3>3 DEF TypeOK
  <2>4. stack' \in Seq(Frame)
    <3>1. <<Point("write", r)>> \in Seq(Frame)
      BY FrameTypes
    <3> QED
      BY <2>1, <3>1
  <2> QED
    BY <2>1, <2>2, <2>3, <2>4 DEF TypeOK, input
<1> QED
    BY <1>1, <1>2

\* on_read's turn keeps the types: a new request fits the bound.
LEMMA ParseType ==
    ASSUME TypeOK, NEW result \in {"headers", "body", "done", "error"}, NEW shape \in Shapes,
           Parse(result, shape)
    PROVE  TypeOK'
<1> DEFINE r  == IF parsing # 0 THEN parsing ELSE arrived + 1
           q  == IF parsing # 0 THEN req[r] ELSE NewRequest(shape)
           ok == result \in {"body", "done"}
           up == ok /\ Len(Emplace(r)) > 1 /\ q.shape.upg = "exact"
           routes == ok /\ ~up /\ ~q.routed
           isdone == result \in {"done", "error"}
           routed == q.routed \/ routes
           fs == CASE result = "headers" -> <<>>
                   [] result = "error" \/ up -> <<Point("request_error", r)>>
                   [] routes -> <<Callback("route", r), Point("deliver", r)>>
                   [] OTHER -> <<Point("deliver", r)>>
<1>1. r \in Requests
    BY BoundsAssumption DEF Parse, MoreInput, TypeOK, Requests
<1>2. q \in ServerRequest
  <2>1. shape \in Shape
    BY EnvironmentAssumption
  <2>2. NewRequest(shape) \in ServerRequest
    BY <2>1 DEF NewRequest, ServerRequest
  <2> QED
    BY <1>1, <2>2 DEF TypeOK
<1>3. /\ At("on_read") /\ StopTimer
      /\ requests' = Emplace(r)
      /\ arrived' = IF parsing # 0 THEN arrived ELSE r
      /\ parsing' = IF result \in {"done", "error"} THEN 0 ELSE r
      /\ req' = [req EXCEPT ![r] = [q EXCEPT !.done = isdone, !.routed = routed]]
      /\ stack' = fs \o Tail(stack)
      /\ UNCHANGED <<res, flags, stream, wire, member, fault>>
    BY DEF Parse, Goto
<1>4. requests' \in Seq(Requests)
  <2> HIDE DEF r
  <2>1. requests' = Emplace(r)
    BY <1>3
  <2> QED
    BY <1>1, <2>1 DEF Emplace, TypeOK
<1>5. arrived' \in 0 .. MaxRequests /\ parsing' \in 0 .. MaxRequests
  <2> HIDE DEF r
  <2>1. arrived' \in {arrived, r} /\ parsing' \in {0, r}
    BY <1>3
  <2> QED
    BY <1>1, <2>1, BoundsAssumption DEF TypeOK, Requests
<1>6. req' \in [Requests -> ServerRequest]
  <2>1. isdone \in BOOLEAN /\ routed \in BOOLEAN
    BY <1>2 DEF ServerRequest
  <2> HIDE DEF isdone, routed, q, r
  <2>2. [q EXCEPT !.done = isdone, !.routed = routed] \in ServerRequest
    BY <1>2, <2>1 DEF ServerRequest
  <2> QED
    BY <1>1, <1>3, <2>2 DEF TypeOK
<1>7. stack' \in Seq(Frame)
  <2> HIDE DEF up, routes, r
  <2>1. /\ Point("request_error", r) \in Frame /\ Point("deliver", r) \in Frame
        /\ Callback("route", r) \in Frame
    BY <1>1, FrameTypes DEF Events
  <2>2. fs \in Seq(Frame)
    BY <2>1
  <2> HIDE DEF fs
  <2> QED
    BY <1>3, <2>2, GotoType DEF At, TypeOK
<1> QED
    BY <1>3, <1>4, <1>5, <1>6, <1>7, TimerType DEF TypeOK, flags

\* Calling the request or partial callback keeps the types.
LEMMA DeliverType == TypeOK /\ Deliver => TypeOK'
<1> SUFFICES ASSUME TypeOK, Deliver PROVE TypeOK'
    OBVIOUS
<1> DEFINE r == Top.r
           fs == CASE req[r].partial -> <<Callback("partial", r), Point("received", r)>>
                   [] ~req[r].partial /\ req[r].done ->
                          <<Callback("receive", r), Callback("request", r), Point("received", r)>>
                   [] OTHER -> <<Point("received", r)>>
<1>1. r \in Requests
    BY FrameRequest DEF Deliver, At, TypeOK, Top
<1>2. fs \in Seq(Frame)
  <2>1. /\ Callback("partial", r) \in Frame /\ Callback("receive", r) \in Frame
        /\ Callback("request", r) \in Frame /\ Point("received", r) \in Frame
    BY <1>1, FrameTypes DEF Events
  <2> QED
    BY <2>1
<1>3. stack' = fs \o Tail(stack)
    BY DEF Deliver, Goto
<1>4. stack' \in Seq(Frame)
  <2> HIDE DEF fs
  <2> QED
    BY <1>2, <1>3, GotoType DEF Deliver, At, TypeOK
<1> QED
    BY <1>4 DEF Deliver, TypeOK, flags, input

\* The end of a turn of on_read keeps the types.
LEMMA ReceivedType ==
    ASSUME TypeOK, NEW more \in BOOLEAN, Received(more)
    PROVE  TypeOK'
<1> DEFINE next == IF more THEN <<Point("on_read", 0)>> ELSE <<>>
<1>1. PICK fs \in {<<>>, <<Point("finish", 0)>> \o next, next} : stack' = fs \o Tail(stack)
    BY DEF Received, Goto
<1>2. fs \in Seq(Frame)
  <2>1. next \in Seq(Frame) /\ <<Point("finish", 0)>> \in Seq(Frame) /\ <<>> \in Seq(Frame)
    BY FrameTypes
  <2> HIDE DEF next
  <2>2. <<Point("finish", 0)>> \o next \in Seq(Frame)
    BY <2>1
  <2> QED
    BY <2>1, <2>2, <1>1
<1>3. stack' \in Seq(Frame)
    BY <1>1, <1>2, GotoType DEF Received, At, TypeOK
<1>4. stream' \in Stream
  <2>1. stream' = stream \/ stream' = [stream EXCEPT !.reading = FALSE]
    BY DEF Received
  <2> QED
    BY <2>1 DEF TypeOK, Stream
<1> QED
    BY <1>3, <1>4 DEF Received, TypeOK, flags, input

\* The request that a read error ends is one of the connection's.
LEMMA ErrorRequest ==
    ASSUME TypeOK, OnReadError
    PROVE  (IF requests = <<>> \/ req[Last(requests)].done THEN arrived + 1 ELSE Last(requests))
               \in Requests
<1> DEFINE fresh == requests = <<>> \/ req[Last(requests)].done
<1>1. CASE fresh
  <2>1. arrived \in 0 .. MaxRequests /\ arrived < MaxRequests
    BY <1>1 DEF OnReadError, TypeOK
  <2> QED
    BY <1>1, <2>1, BoundsAssumption DEF Requests
<1>2. CASE ~fresh
  <2>1. requests \in Seq(Requests) /\ requests # <<>>
    BY <1>2 DEF TypeOK
  <2>2. requests[Len(requests)] \in Requests
    BY <2>1
  <2> QED
    BY <1>2, <2>2 DEF Last
<1> HIDE DEF fresh
<1> QED
    BY <1>1, <1>2

\* on_read with an error keeps the types: a request made for it fits the bound.
LEMMA ReadErrorType == TypeOK /\ OnReadError => TypeOK'
<1> SUFFICES ASSUME TypeOK, OnReadError PROVE TypeOK'
    OBVIOUS
<1> DEFINE fresh == requests = <<>> \/ req[Last(requests)].done
           r == IF fresh THEN arrived + 1 ELSE Last(requests)
           q == IF fresh THEN NewRequest(PlainShape) ELSE req[r]
<1>1. /\ fresh => arrived < MaxRequests
      /\ StopTimer
      /\ requests' = IF fresh THEN Append(requests, r) ELSE requests
      /\ arrived' = IF fresh THEN r ELSE arrived
      /\ req' = [req EXCEPT ![r] = [q EXCEPT !.done = TRUE]]
      /\ stack' = <<Point("request_error", r)>>
      /\ UNCHANGED <<parsing, res, flags, stream, wire, member, fault>>
    BY DEF OnReadError
<1>2. r \in Requests
    BY ErrorRequest
<1>3. q \in ServerRequest
  <2>1. NewRequest(PlainShape) \in ServerRequest
    BY DEF NewRequest, PlainShape, ServerRequest, Shape
  <2> QED
    BY <1>2, <2>1 DEF TypeOK
<1>4. requests' \in Seq(Requests) /\ arrived' \in 0 .. MaxRequests
  <2> HIDE DEF r, fresh
  <2>1. requests' \in {Append(requests, r), requests} /\ arrived' \in {r, arrived}
    BY <1>1
  <2>2. requests \in Seq(Requests) /\ arrived \in 0 .. MaxRequests
    BY DEF TypeOK
  <2>3. requests' \in Seq(Requests)
    BY <1>2, <2>1, <2>2
  <2>4. arrived' \in 0 .. MaxRequests
    BY <1>2, <2>1, <2>2, BoundsAssumption DEF Requests
  <2> QED
    BY <2>3, <2>4
<1>5. req' \in [Requests -> ServerRequest]
  <2> HIDE DEF r, q
  <2>1. [q EXCEPT !.done = TRUE] \in ServerRequest
    BY <1>3 DEF ServerRequest
  <2> QED
    BY <1>1, <1>2, <2>1 DEF TypeOK
<1>6. stack' \in Seq(Frame)
  <2> HIDE DEF r
  <2> QED
    BY <1>1, <1>2, FrameTypes
<1> QED
    BY <1>1, <1>4, <1>5, <1>6, TimerType DEF TypeOK, flags

\* The first part of request_error() keeps the types.
LEMMA RequestErrorType == TypeOK /\ RequestError => TypeOK'
<1> SUFFICES ASSUME TypeOK, RequestError PROVE TypeOK'
    OBVIOUS
<1> DEFINE r == Top.r
           fs == <<Callback(IF req[r].partial THEN "partial_error" ELSE "error", r),
                   Point("errored", r)>>
<1>1. r \in Requests
    BY FrameRequest DEF RequestError, At, TypeOK, Top
<1>2. fs \in Seq(Frame)
    BY <1>1, FrameTypes DEF Events
<1>3. stack' = fs \o Tail(stack)
    BY DEF RequestError, Goto
<1>4. stack' \in Seq(Frame)
  <2> HIDE DEF fs
  <2> QED
    BY <1>2, <1>3, GotoType DEF RequestError, At, TypeOK
<1>5. stream' \in Stream
    BY DEF RequestError, TypeOK, Stream
<1> QED
    BY <1>4, <1>5 DEF RequestError, TypeOK, flags, input

\* The last part of request_error() keeps the types.
LEMMA ErroredType == TypeOK /\ Errored => TypeOK'
<1> SUFFICES ASSUME TypeOK, Errored PROVE TypeOK'
    OBVIOUS
<1>1. Top.r \in Requests
    BY FrameRequest DEF Errored, At, TypeOK, Top
<1>2. Tail(stack) \in Seq(Frame) /\ <<>> \o Tail(stack) \in Seq(Frame)
    BY DEF Errored, At, TypeOK
<1>3. CASE respond(Top.r, FALSE, TRUE, Tail(stack))
    BY <1>1, <1>2, <1>3, RespondType
<1>4. CASE /\ res' = [res EXCEPT ![Top.r].ka = FALSE]
           /\ stack' = <<>> \o Tail(stack)
           /\ UNCHANGED <<requests, input, req, flags, timer, stream, wire, member, fault>>
  <2>1. res' \in [Requests -> ServerResponse]
    BY <1>1, <1>4 DEF TypeOK, ServerResponse
  <2> QED
    BY <1>2, <1>4, <2>1 DEF TypeOK, flags, input
<1> QED
    BY <1>3, <1>4 DEF Errored, Goto

\* write_next_response() up to its drop_requests() keeps the types.
LEMMA WriteNextResponseType == TypeOK /\ WriteNextResponse => TypeOK'
<1> SUFFICES ASSUME TypeOK, WriteNextResponse PROVE TypeOK'
    OBVIOUS
<1> DEFINE r    == Top.r
           tmp  == res[r].parts
           open == res[r].st = "open"
           last == ~res[r].ka \/ ~req[r].shape.ka
           head == <<[r |-> r, k |-> IF last THEN "lasthead" ELSE "head", n |-> 0]>>
           ignore == last /\ req[r].done
<1>0. stack # <<>> /\ Top.pc = "write"
    BY DEF WriteNextResponse, At
<1>1. r \in Requests
    BY <1>0, FrameRequest DEF TypeOK, Top
<1>2. tmp \in Seq(ChunkNumbers) /\ last \in BOOLEAN /\ ignore \in BOOLEAN
    BY <1>1 DEF TypeOK, ServerResponse, ServerRequest, Shape
<1>3. wire' \in Seq(Item)
  <2> DEFINE rest == IF open THEN <<>> ELSE Chunks(r, tmp) \o End(r)
  <2>1. head \in Seq(Item)
    BY <1>1, BoundsAssumption DEF Item
  <2>2. Chunks(r, tmp) \in Seq(Item) /\ End(r) \in Seq(Item)
    BY <1>1, <1>2, ChunksType, EndType, BoundsAssumption
  <2>3. wire' = wire \/ wire' = wire \o head \o rest
    BY DEF WriteNextResponse
  <2> HIDE DEF head, r, tmp, open
  <2>4. rest \in Seq(Item)
    BY <2>2
  <2> HIDE DEF rest
  <2>5. wire \in Seq(Item)
    BY DEF TypeOK
  <2>6. wire \o head \o rest \in Seq(Item)
    BY <2>1, <2>4, <2>5
  <2> QED
    BY <2>3, <2>5, <2>6
<1>4. stream' \in Stream
  <2>1. \/ stream' = [stream EXCEPT !.unsent = TRUE, !.reading = @ /\ ~ignore]
        \/ stream' = [stream EXCEPT !.reading = @ /\ ~ignore]
    BY DEF WriteNextResponse
  <2> HIDE DEF ignore
  <2> QED
    BY <1>2, <2>1 DEF TypeOK, Stream
<1>5. res' \in [Requests -> ServerResponse]
  <2> DEFINE left == IF open THEN <<>> ELSE tmp
  <2>1. res' = [res EXCEPT ![r] = [@ EXCEPT !.parts = left]]
    BY DEF WriteNextResponse
  <2>2. left \in Seq(ChunkNumbers)
    BY <1>2
  <2> HIDE DEF r, left
  <2>3. [res[r] EXCEPT !.parts = left] \in ServerResponse
    BY <1>1, <2>2 DEF TypeOK, ServerResponse
  <2> QED
    BY <1>1, <2>1, <2>3 DEF TypeOK
<1>6. requests' \in Seq(Requests)
  <2>1. (Len(requests) > 1 /\ requests' = Tail(requests)) \/ requests' = requests
    BY DEF WriteNextResponse
  <2>2. requests \in Seq(Requests)
    BY DEF TypeOK
  <2> QED
    BY <2>1, <2>2
<1>7. stack' \in Seq(Frame)
  <2> DEFINE kept == IF open THEN tmp ELSE <<>>
             again == [pc |-> "rejoin", r |-> r, ev |-> "-", tmp |-> kept]
             on == [pc |-> "wrote", r |-> r, ev |-> "-", tmp |-> kept]
  <2>1. kept \in Seq(ChunkNumbers)
    BY <1>2
  <2>2. \/ stack' = <<Point("drop", 0), again>> \o Tail(stack)
        \/ stack' = <<on>> \o Tail(stack)
    BY DEF WriteNextResponse, Goto
  <2> HIDE DEF kept, r
  <2>3. on \in Frame /\ again \in Frame
    BY <1>1, <2>1 DEF Frame
  <2> HIDE DEF on, again
  <2>4. <<Point("drop", 0), again>> \in Seq(Frame) /\ <<on>> \in Seq(Frame)
    BY <2>3, FrameTypes
  <2> QED
    BY <1>0, <2>2, <2>4, GotoType DEF TypeOK
<1>8. closing' \in BOOLEAN
    BY DEF WriteNextResponse
<1> QED
    BY <1>3, <1>4, <1>5, <1>6, <1>7, <1>8 DEF WriteNextResponse, TypeOK, input

\* Putting the front back into the queue keeps the types.
LEMMA RejoinType == TypeOK /\ Rejoin => TypeOK'
<1> SUFFICES ASSUME TypeOK, Rejoin PROVE TypeOK'
    OBVIOUS
<1>1. Top \in Frame /\ Top.r \in Requests /\ Top.pc = "rejoin"
    BY FrameRequest DEF Rejoin, At, TypeOK, Top
<1>2. [Top EXCEPT !.pc = "wrote"] \in Frame
    BY <1>1 DEF Frame
<1>3. requests' \in Seq(Requests)
    BY <1>1 DEF Rejoin, TypeOK
<1>4. stack' \in Seq(Frame)
    BY <1>2 DEF Rejoin, Goto, At, TypeOK
<1> QED
    BY <1>3, <1>4 DEF Rejoin, TypeOK, flags, input

\* The last part of write_next_response() keeps the types.
LEMMA WroteType == TypeOK /\ Wrote => TypeOK'
<1> SUFFICES ASSUME TypeOK, Wrote PROVE TypeOK'
    OBVIOUS
<1>1. Top \in Frame /\ Top.r \in Requests /\ Top.pc = "wrote"
    BY FrameRequest DEF Wrote, At, TypeOK, Top
<1>2. Top.tmp \in Seq(ChunkNumbers)
    BY <1>1 DEF Frame
<1>3. wire' \in Seq(Item) /\ stream' \in Stream
  <2>1. Chunks(Top.r, Top.tmp) \in Seq(Item)
    BY <1>1, <1>2, ChunksType, BoundsAssumption
  <2>2. UNCHANGED <<wire, stream>> \/ Write(Chunks(Top.r, Top.tmp))
    BY DEF Wrote
  <2> QED
    BY <2>1, <2>2, WriteType DEF TypeOK
<1>4. stack' \in Seq(Frame)
  <2>1. <<Point("finish", 0)>> \in Seq(Frame) /\ <<>> \in Seq(Frame)
    BY FrameTypes
  <2>2. PICK fs \in {<<Point("finish", 0)>>, <<>>} : stack' = fs \o Tail(stack)
    BY DEF Wrote, Goto
  <2> QED
    BY <2>1, <2>2, GotoType DEF Wrote, At, TypeOK
<1> QED
    BY <1>3, <1>4 DEF Wrote, TypeOK, flags, input

\* The front of a queue that is not empty is a request.
LEMMA HeadType ==
    ASSUME TypeOK, requests # <<>>
    PROVE  Head(requests) \in Requests
<1>1. requests \in Seq(Requests)
    BY DEF TypeOK
<1> QED
    BY <1>1

\* finish_request() up to its callback keeps the types.
LEMMA FinishRequestType == TypeOK /\ FinishRequest => TypeOK'
<1> SUFFICES ASSUME TypeOK, FinishRequest PROVE TypeOK'
    OBVIOUS
<1> DEFINE r == Head(requests)
<1>1. CASE Abort("finish: empty queue") \/ Abort("finish: incomplete")
    BY <1>1, AbortType DEF Faults
<1>2. CASE ~(Abort("finish: empty queue") \/ Abort("finish: incomplete"))
  <2>1. /\ stack # <<>> /\ requests # <<>>
        /\ \/ /\ req' = [req EXCEPT ![r].fin = TRUE]
              /\ stack' = <<>> \o Tail(stack)
              /\ UNCHANGED requests
           \/ /\ Forget(r)
              /\ stack' = <<Callback("finish", r), Point("finished", 0)>> \o Tail(stack)
        /\ UNCHANGED <<input, res, flags, timer, stream, wire, member, fault>>
    BY <1>2 DEF FinishRequest, Goto, At
  <2>2. r \in Requests
    BY <2>1, HeadType
  <2> HIDE DEF r
  <2>3. req' \in [Requests -> ServerRequest] /\ requests' \in Seq(Requests)
    <3>1. CASE Forget(r)
      BY <2>1, <2>2, <3>1, ForgetType
    <3>2. CASE req' = [req EXCEPT ![r].fin = TRUE] /\ UNCHANGED requests
      BY <2>2, <3>2 DEF TypeOK, ServerRequest
    <3> QED
      BY <2>1, <3>1, <3>2
  <2>4. <<Callback("finish", r), Point("finished", 0)>> \in Seq(Frame) /\ <<>> \in Seq(Frame)
    BY <2>2, FrameTypes DEF Events
  <2>5. PICK fs \in {<<>>, <<Callback("finish", r), Point("finished", 0)>>} :
            stack' = fs \o Tail(stack)
    BY <2>1
  <2>6. stack' \in Seq(Frame)
    BY <2>1, <2>4, <2>5, GotoType DEF TypeOK
  <2> QED
    BY <2>1, <2>3, <2>6 DEF TypeOK, flags, input
<1> QED
    BY <1>1, <1>2

\* The last part of finish_request() keeps the types.
LEMMA FinishedType == TypeOK /\ Finished => TypeOK'
<1> SUFFICES ASSUME TypeOK, Finished PROVE TypeOK'
    OBVIOUS
<1>0. stack # <<>>
    BY DEF Finished, At
<1>1. CASE Abort("finish: not last")
    BY <1>1, AbortType DEF Faults
<1>2. CASE /\ SoftClose
           /\ stack' = Shutdown \o Tail(stack)
           /\ UNCHANGED <<requests, input, req, res, flags, wire, member, fault>>
  <2>1. stack' \in Seq(Frame)
    BY <1>0, <1>2, CloseTypes, GotoType DEF TypeOK
  <2> QED
    BY <1>2, <2>1, SoftCloseType DEF TypeOK, flags, input
<1>3. CASE /\ requests # <<>>
           /\ stack' = (IF res[Head(requests)].st # "none" THEN <<Point("write", Head(requests))>>
                                                           ELSE <<>>) \o Tail(stack)
           /\ UNCHANGED <<requests, input, req, res, flags, timer, stream, wire, member, fault>>
  <2>1. <<Point("write", Head(requests))>> \in Seq(Frame) /\ <<>> \in Seq(Frame)
    BY <1>3, HeadType, FrameTypes
  <2>2. PICK fs \in {<<Point("write", Head(requests))>>, <<>>} : stack' = fs \o Tail(stack)
    BY <1>3
  <2>3. stack' \in Seq(Frame)
    BY <1>0, <2>1, <2>2, GotoType DEF TypeOK
  <2> QED
    BY <1>3, <2>3 DEF TypeOK, flags, input
<1>4. CASE /\ check_if_idle(stream.unsent)
           /\ stack' = <<>> \o Tail(stack)
           /\ UNCHANGED <<requests, input, req, res, flags, stream, wire, member>>
  <2>1. stack' \in Seq(Frame)
    BY <1>0, <1>4, GotoType DEF TypeOK
  <2>2. stream.unsent \in BOOLEAN
    BY DEF TypeOK, Stream
  <2> QED
    BY <1>4, <2>1, <2>2, IdleType DEF TypeOK, flags, input
<1> QED
    BY <1>1, <1>2, <1>3, <1>4 DEF Finished, Goto

\* A turn of drop_requests() keeps the types.
LEMMA DropRequestsType == TypeOK /\ DropRequests => TypeOK'
<1> SUFFICES ASSUME TypeOK, DropRequests PROVE TypeOK'
    OBVIOUS
<1> DEFINE r == Head(requests)
           why == CASE ~req[r].done /\ req[r].partial -> <<Callback("partial_error", r)>>
                    [] ~req[r].done /\ ~req[r].partial -> <<Callback("error", r)>>
                    [] req[r].done /\ res[r].st # "complete" -> <<Callback("drop", r)>>
                    [] OTHER -> <<>>
           fs == <<Callback("finish", r)>> \o why \o <<Point("drop", 0)>>
<1>1. /\ stack # <<>>
      /\ \/ /\ stack' = <<>> \o Tail(stack)
            /\ UNCHANGED <<requests, req>>
         \/ /\ requests # <<>>
            /\ Forget(r)
            /\ stack' = fs \o Tail(stack)
      /\ UNCHANGED <<input, res, flags, timer, stream, wire, member, fault>>
    BY DEF DropRequests, At, Goto
<1>2. CASE stack' = <<>> \o Tail(stack) /\ UNCHANGED <<requests, req>>
  <2>1. stack' \in Seq(Frame)
    BY <1>1, <1>2, GotoType DEF TypeOK
  <2> QED
    BY <1>1, <1>2, <2>1 DEF TypeOK, flags, input
<1>3. CASE requests # <<>> /\ Forget(r) /\ stack' = fs \o Tail(stack)
  <2>1. r \in Requests
    BY <1>3, HeadType
  <2> HIDE DEF r
  <2>2. why \in {<<Callback("partial_error", r)>>, <<Callback("error", r)>>,
                 <<Callback("drop", r)>>, <<>>}
    OBVIOUS
  <2>3. why \in Seq(Frame)
    BY <2>1, <2>2, FrameTypes DEF Events
  <2>4. <<Callback("finish", r)>> \in Seq(Frame) /\ <<Point("drop", 0)>> \in Seq(Frame)
    BY <2>1, FrameTypes DEF Events
  <2> HIDE DEF why
  <2>5. fs \in Seq(Frame)
    BY <2>3, <2>4
  <2> HIDE DEF fs
  <2>6. stack' \in Seq(Frame)
    BY <1>1, <1>3, <2>5, GotoType DEF TypeOK
  <2>7. requests' \in Seq(Requests) /\ req' \in [Requests -> ServerRequest]
    BY <1>3, <2>1, ForgetType
  <2> QED
    BY <1>1, <2>6, <2>7 DEF TypeOK, flags, input
<1> QED
    BY <1>1, <1>2, <1>3

\* Returning from a routine keeps the stack a stack.
LEMMA PopType ==
    ASSUME TypeOK, stack # <<>>, Goto(<<>>)
    PROVE  stack' \in Seq(Frame)
BY GotoType DEF Goto, TypeOK

\* The stream's events and the timer.
LEMMA EventType == TypeOK /\ Event => TypeOK'
<1> SUFFICES ASSUME TypeOK, Event PROVE TypeOK'
    OBVIOUS
<1>1. CASE OnRead
  <2>1. stack' \in Seq(Frame)
    BY <1>1, FrameTypes DEF OnRead
  <2> QED
    BY <1>1, <2>1 DEF OnRead, TypeOK, flags, input
<1>2. CASE OnReadError
    BY <1>2, ReadErrorType
<1>3. CASE OnConnectionError
    BY <1>3, HardCloseType, CloseTypes DEF OnConnectionError, TypeOK, flags, input
<1>4. CASE OnWrite
  <2>1. stream' \in Stream
    BY <1>4 DEF OnWrite, TypeOK, Stream
  <2>2. timer' \in {"null", "off", "on"} /\ fault' \in Faults
    BY <1>4, IdleType DEF OnWrite
  <2> QED
    BY <1>4, <2>1, <2>2 DEF OnWrite, TypeOK, flags, input
<1>5. CASE OnWriteError
    BY <1>5, HardCloseType, CloseTypes DEF OnWriteError, TypeOK, flags, input
<1>6. CASE OnShutdown
  <2>1. stream' \in Stream
    BY <1>6 DEF OnShutdown, TypeOK, Stream
  <2>2. timer' \in {"null", "off", "on"}
    BY <1>6, TimerType DEF OnShutdown
  <2> QED
    BY <1>6, <2>1, <2>2 DEF OnShutdown, TypeOK, flags, input
<1>7. CASE OnEof
  <2>1. stream' \in Stream
    BY <1>7 DEF OnEof, TypeOK, Stream
  <2> QED
    BY <1>7, <2>1, CloseTypes DEF OnEof, TypeOK, flags, input
<1>8. CASE OnIdleTimer
  <2>1. CASE Abort("idle timer: busy")
    BY <2>1, AbortType DEF Faults
  <2>2. CASE ~Abort("idle timer: busy")
    BY <1>8, <2>2, HardCloseType, CloseTypes DEF OnIdleTimer, TypeOK, flags, input
  <2> QED
    BY <2>1, <2>2
<1> QED
    BY <1>1, <1>2, <1>3, <1>4, <1>5, <1>6, <1>7, <1>8 DEF Event

\* send_continue() keeps the types.
LEMMA SendContinueType ==
    ASSUME TypeOK, NEW r \in Requests, SendContinue(r)
    PROVE  TypeOK'
<1>1. CASE Abort("send: empty queue")
    BY <1>1, AbortType DEF Faults
<1>2. CASE ~Abort("send: empty queue")
  <2> DEFINE items == <<[r |-> r, k |-> "continue", n |-> 0]>>
  <2>1. Write(items) /\ UNCHANGED <<requests, input, req, res, flags, timer, member, stack, fault>>
    BY <1>2 DEF SendContinue
  <2>2. items \in Seq(Item)
    BY BoundsAssumption DEF Item
  <2> HIDE DEF items
  <2> QED
    BY <2>1, <2>2, WriteType DEF TypeOK, flags, input
<1> QED
    BY <1>1, <1>2

\* send_chunk() keeps the types: a chunk that waits is within the bound.
LEMMA SendChunkType ==
    ASSUME TypeOK, NEW r \in Requests, SendChunk(r)
    PROVE  TypeOK'
<1> DEFINE n == res[r].given + 1
<1>1. CASE Abort("send: empty queue")
    BY <1>1, AbortType DEF Faults
<1>2. CASE ~Abort("send: empty queue")
  <2>1. /\ res[r].given < MaxChunks
        /\ \/ Write(Chunks(r, <<n>>)) /\ res' = [res EXCEPT ![r].given = n]
           \/ /\ res' = [res EXCEPT ![r].given = n, ![r].parts = Append(@, n)]
              /\ UNCHANGED <<stream, wire>>
        /\ UNCHANGED <<requests, input, req, flags, timer, member, stack, fault>>
    BY <1>2 DEF SendChunk
  <2>2. res[r] \in ServerResponse
    BY DEF TypeOK
  <2>3. n \in ChunkNumbers /\ n \in 0 .. MaxChunks + 1
    BY <2>1, <2>2, BoundsAssumption DEF ChunkNumbers, ServerResponse
  <2> HIDE DEF n
  <2>4. res' \in [Requests -> ServerResponse]
    <3>1. [res[r] EXCEPT !.given = n] \in ServerResponse
      BY <2>2, <2>3 DEF ServerResponse
    <3>2. Append(res[r].parts, n) \in Seq(ChunkNumbers)
      BY <2>2, <2>3 DEF ServerResponse
    <3>3. [res[r] EXCEPT !.given = n, !.parts = Append(res[r].parts, n)] \in ServerResponse
      BY <2>2, <2>3, <3>2 DEF ServerResponse
    <3>4. \/ res' = [res EXCEPT ![r] = [res[r] EXCEPT !.given = n]]
          \/ res' = [res EXCEPT ![r] = [res[r] EXCEPT !.given = n,
                                                      !.parts = Append(res[r].parts, n)]]
      BY <2>1
    <3> QED
      BY <3>1, <3>3, <3>4 DEF TypeOK
  <2>5. Chunks(r, <<n>>) \in Seq(Item)
    <3>1. <<n>> \in Seq(ChunkNumbers)
      BY <2>3
    <3> QED
      BY <3>1, ChunksType, BoundsAssumption
  <2>6. wire' \in Seq(Item) /\ stream' \in Stream
    BY <2>1, <2>5, WriteType DEF TypeOK
  <2> QED
    BY <2>1, <2>4, <2>6 DEF TypeOK, flags, input
<1> QED
    BY <1>1, <1>2

\* send_final_chunk() keeps the types.
LEMMA SendFinalChunkType ==
    ASSUME TypeOK, NEW r \in Requests, SendFinalChunk(r)
    PROVE  TypeOK'
<1> DEFINE n == res[r].given + 1
           data == IF FinalData THEN <<n>> ELSE <<>>
<1>1. CASE Abort("send: empty queue")
    BY <1>1, AbortType DEF Faults
<1>2. CASE ~Abort("send: empty queue")
  <2>1. /\ res[r].given <= MaxChunks
        /\ res' = [res EXCEPT ![r].st = "complete", ![r].given = @ + Len(data)]
        /\ \/ /\ Write(Chunks(r, data) \o End(r))
              /\ stack' = <<Point("finish", 0)>> \o stack
           \/ UNCHANGED <<stream, wire, stack>>
        /\ UNCHANGED <<requests, input, req, flags, timer, member, fault>>
    BY <1>2 DEF SendFinalChunk
  <2>2. res[r] \in ServerResponse
    BY DEF TypeOK
  <2>3. n \in ChunkNumbers
    BY <2>1, <2>2, BoundsAssumption DEF ChunkNumbers, ServerResponse
  <2>4. data \in Seq(ChunkNumbers) /\ Len(data) \in {0, 1}
    BY <2>3
  <2> HIDE DEF data
  <2>5. res' \in [Requests -> ServerResponse]
    <3> DEFINE m == res[r].given + Len(data)
    <3>1. m \in 0 .. MaxChunks + 1
      <4>1. res[r].given \in 0 .. MaxChunks + 1 /\ res[r].given <= MaxChunks
        BY <2>1, <2>2 DEF ServerResponse
      <4>2. CASE Len(data) = 0
        BY <4>1, <4>2, BoundsAssumption
      <4>3. CASE Len(data) = 1
        BY <4>1, <4>3, BoundsAssumption
      <4> QED
        BY <2>4, <4>2, <4>3
    <3>2. res' = [res EXCEPT ![r] = [res[r] EXCEPT !.st = "complete", !.given = m]]
      BY <2>1
    <3> HIDE DEF m
    <3>3. [res[r] EXCEPT !.st = "complete", !.given = m] \in ServerResponse
      BY <2>2, <3>1 DEF ServerResponse
    <3> QED
      BY <3>2, <3>3 DEF TypeOK
  <2>6. Chunks(r, data) \o End(r) \in Seq(Item)
    BY <2>4, ChunksType, EndType, BoundsAssumption
  <2>7. wire' \in Seq(Item) /\ stream' \in Stream
    BY <2>1, <2>6, WriteType DEF TypeOK
  <2>8. stack' \in Seq(Frame)
    <3>1. stack \in Seq(Frame) /\ <<Point("finish", 0)>> \in Seq(Frame)
      BY FrameTypes DEF TypeOK
    <3>2. stack' = <<Point("finish", 0)>> \o stack \/ stack' = stack
      BY <2>1
    <3>3. <<Point("finish", 0)>> \o stack \in Seq(Frame)
      BY <3>1
    <3> QED
      BY <3>1, <3>2, <3>3
  <2> QED
    BY <2>1, <2>5, <2>7, <2>8 DEF TypeOK, flags, input
<1> QED
    BY <1>1, <1>2

\* upgrade() keeps the types.
LEMMA UpgradeType ==
    ASSUME TypeOK, NEW r \in Requests, Upgrade(r)
    PROVE  TypeOK'
<1>1. CASE Abort("upgrade: should not happen")
    BY <1>1, AbortType DEF Faults
<1>2. CASE ~Abort("upgrade: should not happen")
  <2>1. /\ requests = <<r>>
        /\ stream' = [stream EXCEPT !.listener = FALSE,
                                    !.mode = IF @ = "open" THEN "user" ELSE @]
        /\ timer' = "null"
        /\ Forget(r)
        /\ stack' = <<Callback("finish", r), Point("remove", 0)>> \o stack
        /\ UNCHANGED <<input, res, flags, wire, member, fault>>
    BY <1>2 DEF Upgrade
  <2>2. stream' \in Stream
    BY <2>1 DEF TypeOK, Stream
  <2>3. requests' \in Seq(Requests) /\ req' \in [Requests -> ServerRequest]
    BY <2>1, ForgetType
  <2>4. stack' \in Seq(Frame)
    <3>1. /\ stack \in Seq(Frame)
          /\ <<Callback("finish", r), Point("remove", 0)>> \in Seq(Frame)
      BY FrameTypes DEF TypeOK, Events
    <3> QED
      BY <2>1, <3>1
  <2> QED
    BY <2>1, <2>2, <2>3, <2>4 DEF TypeOK, flags, input
<1> QED
    BY <1>1, <1>2

\* The user's calls.
LEMMA UserType == TypeOK /\ User => TypeOK'
<1> SUFFICES ASSUME TypeOK, User PROVE TypeOK'
    OBVIOUS
<1>0. stack \in Seq(Frame)
    BY DEF TypeOK
<1>1. ASSUME NEW r \in Requests, NEW ka \in BOOLEAN, NEW whole \in BOOLEAN, Respond(r, ka, whole)
      PROVE  TypeOK'
    BY <1>0, <1>1, RespondType DEF Respond
<1>2. ASSUME NEW r \in Requests, EnablePartial(r)
      PROVE  TypeOK'
  <2>1. req' \in [Requests -> ServerRequest]
    BY <1>2 DEF EnablePartial, TypeOK, ServerRequest
  <2> QED
    BY <1>2, <2>1 DEF EnablePartial, TypeOK, flags, input
<1>3. ASSUME NEW r \in Requests, Drop(r)
      PROVE  TypeOK'
  <2>1. stack' \in Seq(Frame)
    BY <1>0, <1>3, CloseTypes DEF Drop
  <2> QED
    BY <1>3, <2>1, HardCloseType DEF Drop, TypeOK, flags, input
<1>4. CASE CloseConnection
  <2>1. stack' \in Seq(Frame)
    BY <1>0, <1>4, CloseTypes DEF CloseConnection
  <2> QED
    BY <1>4, <2>1, HardCloseType DEF CloseConnection, TypeOK, flags, input
<1>5. CASE GracefulStop
  <2>1. stack' \in Seq(Frame)
    <3>1. stack' = Shutdown \o stack \/ stack' = stack
      BY <1>5 DEF GracefulStop
    <3>2. Shutdown \o stack \in Seq(Frame)
      BY <1>0, CloseTypes
    <3> QED
      BY <1>0, <3>1, <3>2
  <2>2. timer' \in {"null", "off", "on"} /\ stream' \in Stream
    BY <1>5, SoftCloseType DEF GracefulStop, TypeOK
  <2>3. stopping' \in BOOLEAN
    BY <1>5 DEF GracefulStop, TypeOK
  <2> QED
    BY <1>5, <2>1, <2>2, <2>3 DEF GracefulStop, TypeOK, input
<1> QED
    BY <1>1, <1>2, <1>3, <1>4, <1>5, SendContinueType, SendChunkType, SendFinalChunkType,
       UpgradeType DEF User

\* Every routine that goes on by itself keeps the types.
LEMMA StepType == TypeOK /\ Step => TypeOK'
<1> SUFFICES ASSUME TypeOK, Step PROVE TypeOK'
    OBVIOUS
<1>1. CASE RemoveConnection
    BY <1>1, PopType DEF RemoveConnection, At, TypeOK, flags, input
<1>2. CASE Return
    BY <1>2, PopType DEF Return, At, TypeOK, flags, input
<1> QED
    BY <1>1, <1>2, ParseType, DeliverType, ReceivedType, RequestErrorType, ErroredType,
       WriteNextResponseType, RejoinType, WroteType, FinishRequestType, FinishedType,
       DropRequestsType DEF Step

\* The fields of the connection, its requests, its stream and its stack always
\* have their types; in particular the bounds on requests and chunks are kept
\* by every routine of ServerConnection.cc, for every configuration.
THEOREM TypeCorrect == Spec => []TypeOK
<1>1. TypeOK /\ [Next]_vars => TypeOK'
  <2>1. TypeOK /\ UNCHANGED vars => TypeOK'
    BY DEF TypeOK, vars
  <2> QED
    BY <2>1, StepType, EventType, UserType DEF Next
<1> QED
    BY <1>1, InitType, PTL DEF Spec

-----------------------------------------------------------------------------
(* The idle timer.  write_next_response() takes the front out of the queue    *)
(* while it drops the requests behind it, so the queue can be empty in the    *)
(* middle of an answer.  The invariant needs to say that nobody starts the    *)
(* timer then: the connection is closing, and a closing connection never      *)
(* reaches check_if_idle() before the event loop does.                        *)

HasRejoin(s) == \E i \in 1 .. Len(s) : s[i].pc = "rejoin"

\* The inductive invariant behind IdleOnlyWhenIdle.
IdleInv ==
    /\ IdleOnlyWhenIdle
    /\ HasRejoin(stack) => closing /\ timer # "on"

Calm == {f \in Frame : f.pc # "rejoin"}

\* The points and callbacks other than "rejoin" are calm.
LEMMA CalmFrames ==
    /\ \A pc \in {"on_read", "finish", "finished", "drop", "remove"} : Point(pc, 0) \in Calm
    /\ \A pc \in {"deliver", "received", "request_error", "errored", "write", "wrote"},
          r \in Requests : Point(pc, r) \in Calm
    /\ \A ev \in Events, r \in Requests : Callback(ev, r) \in Calm
BY FrameTypes DEF Calm, Point, Callback

\* Going on with calm frames leaves what lies below the top as calm as it was.
LEMMA CalmGoto ==
    ASSUME NEW s \in Seq(Frame), s # <<>>, NEW fs \in Seq(Calm), HasRejoin(fs \o Tail(s))
    PROVE  HasRejoin(s)
<1> DEFINE t == fs \o Tail(s)
<1>1. PICK i \in 1 .. Len(t) : t[i].pc = "rejoin"
    BY DEF HasRejoin
<1>2. Tail(s) \in Seq(Frame) /\ Len(Tail(s)) = Len(s) - 1
    OBVIOUS
<1>3. Len(t) = Len(fs) + Len(s) - 1
    BY <1>2
<1>4. CASE i <= Len(fs)
  <2>1. t[i] = fs[i] /\ fs[i] \in Calm
    BY <1>1, <1>2, <1>4
  <2> QED
    BY <1>1, <2>1 DEF Calm
<1>5. CASE i > Len(fs)
  <2> DEFINE j == i - Len(fs)
  <2>1. j \in 1 .. Len(s) - 1 /\ t[i] = Tail(s)[j]
    BY <1>1, <1>2, <1>3, <1>5
  <2>2. Tail(s)[j] = s[j + 1] /\ j + 1 \in 1 .. Len(s)
    BY <2>1
  <2> QED
    BY <1>1, <2>1, <2>2 DEF HasRejoin
<1> QED
    BY <1>1, <1>3, <1>4, <1>5

\* Calling a routine with calm frames keeps a calm stack calm.
LEMMA CalmCall ==
    ASSUME NEW s \in Seq(Frame), NEW fs \in Seq(Calm), HasRejoin(fs \o s)
    PROVE  HasRejoin(s)
<1> DEFINE t == fs \o s
<1>1. PICK i \in 1 .. Len(t) : t[i].pc = "rejoin"
    BY DEF HasRejoin
<1>2. Len(t) = Len(fs) + Len(s)
    OBVIOUS
<1>3. CASE i <= Len(fs)
  <2>1. t[i] = fs[i] /\ fs[i] \in Calm
    BY <1>1, <1>3
  <2> QED
    BY <1>1, <2>1 DEF Calm
<1>4. CASE i > Len(fs)
  <2>1. i - Len(fs) \in 1 .. Len(s) /\ t[i] = s[i - Len(fs)]
    BY <1>1, <1>2, <1>4
  <2> QED
    BY <1>1, <2>1 DEF HasRejoin
<1> QED
    BY <1>1, <1>2, <1>3, <1>4

\* A step whose frames are all calm.
CalmStep ==
    \/ stack' = stack
    \/ stack # <<>> /\ \E fs \in Seq(Calm) : stack' = fs \o Tail(stack)
    \/ \E fs \in Seq(Calm) : stack' = fs \o stack
    \/ stack' \in Seq(Calm)

\* A calm step never brings a request to be put back onto the stack.
LEMMA CalmStepKeeps ==
    ASSUME TypeOK, CalmStep, HasRejoin(stack')
    PROVE  HasRejoin(stack)
<1>1. stack \in Seq(Frame)
    BY DEF TypeOK
<1>2. stack' \notin Seq(Calm)
    BY DEF HasRejoin, Calm
<1> QED
    BY <1>1, <1>2, CalmGoto, CalmCall DEF CalmStep

\* The frames of close() and shutdown() are calm.
LEMMA CalmCloses ==
    /\ Close \in Seq(Calm)
    /\ Shutdown \in Seq(Calm)
    /\ <<>> \in Seq(Calm)
BY CalmFrames DEF Close, Shutdown

\* The request of the frame on top is a request of the connection.
LEMMA TopRequest ==
    ASSUME TypeOK, stack # <<>>,
           Top.pc \in {"deliver", "received", "request_error", "errored", "write", "rejoin",
                       "wrote", "callback"}
    PROVE  Top.r \in Requests
<1>1. Head(stack) \in Frame
    BY DEF TypeOK
<1> QED
    BY <1>1, FrameRequest DEF Top

\* A routine's own frames: no request to be put back, no removal to follow.
Steady == {f \in Calm : f.pc # "remove"}

\* Such points and callbacks.
LEMMA SteadyFrames ==
    /\ \A pc \in {"on_read", "finish", "finished", "drop"} : Point(pc, 0) \in Steady
    /\ \A pc \in {"deliver", "received", "request_error", "errored", "write", "wrote"},
          r \in Requests : Point(pc, r) \in Steady
    /\ \A ev \in Events, r \in Requests : Callback(ev, r) \in Steady
BY CalmFrames DEF Steady, Point, Callback

\* shutdown() and a return are steady.
LEMMA SteadyCloses == Shutdown \in Seq(Steady) /\ <<>> \in Seq(Steady)
BY SteadyFrames DEF Shutdown

\* A step that goes on with such frames.
SteadyStep ==
    \/ UNCHANGED stack
    \/ stack # <<>> /\ \E fs \in Seq(Steady) : stack' = fs \o Tail(stack)

\* respond() calls steady routines only.
LEMMA RespondSteady ==
    ASSUME TypeOK, NEW r \in Requests, NEW ka, NEW whole, NEW rest,
           respond(r, ka, whole, rest)
    PROVE  /\ UNCHANGED stack \/ stack' = rest \/ \E fs \in Seq(Steady) : stack' = fs \o rest
           /\ UNCHANGED <<requests, timer, closing>>
<1>1. UNCHANGED <<requests, timer, closing>>
    BY DEF respond, Abort
<1>2. stack' \in {stack, rest, <<Point("write", r)>> \o rest}
    BY DEF respond, Abort
<1>3. <<Point("write", r)>> \in Seq(Steady)
    BY SteadyFrames
<1> QED
    BY <1>1, <1>2, <1>3

\* No routine but write_next_response leaves a request to be put back, and none
\* of those that go on by themselves leaves a removal behind.
LEMMA StepSteady ==
    ASSUME TypeOK, Step
    PROVE  WriteNextResponse \/ SteadyStep
<1>1. ASSUME NEW result, NEW shape \in Shapes, Parse(result, shape)
      PROVE  SteadyStep
  <2> DEFINE r  == IF parsing # 0 THEN parsing ELSE arrived + 1
  <2>1. r \in Requests
    BY <1>1, BoundsAssumption DEF Parse, MoreInput, TypeOK, Requests
  <2>2. /\ stack # <<>>
        /\ \E fs \in {<<>>, <<Point("request_error", r)>>,
                      <<Callback("route", r), Point("deliver", r)>>, <<Point("deliver", r)>>} :
               stack' = fs \o Tail(stack)
    BY <1>1 DEF Parse, Goto, At
  <2> HIDE DEF r
  <2>3. /\ <<>> \in Seq(Steady) /\ <<Point("request_error", r)>> \in Seq(Steady)
        /\ <<Callback("route", r), Point("deliver", r)>> \in Seq(Steady)
        /\ <<Point("deliver", r)>> \in Seq(Steady)
    BY <2>1, SteadyFrames DEF Events
  <2> QED
    BY <2>2, <2>3 DEF SteadyStep
<1>2. CASE Deliver
  <2>1. stack # <<>> /\ Top.pc = "deliver"
    BY <1>2 DEF Deliver, At
  <2>2. Top.r \in Requests
    BY <2>1, TopRequest
  <2>3. \E fs \in {<<Callback("partial", Top.r), Point("received", Top.r)>>,
                   <<Callback("receive", Top.r), Callback("request", Top.r), Point("received", Top.r)>>,
                   <<Point("received", Top.r)>>} : stack' = fs \o Tail(stack)
    BY <1>2 DEF Deliver, Goto
  <2>4. /\ <<Callback("partial", Top.r), Point("received", Top.r)>> \in Seq(Steady)
        /\ <<Callback("receive", Top.r), Callback("request", Top.r), Point("received", Top.r)>> \in Seq(Steady)
        /\ <<Point("received", Top.r)>> \in Seq(Steady)
    BY <2>2, SteadyFrames DEF Events
  <2> QED
    BY <2>1, <2>3, <2>4 DEF SteadyStep
<1>3. ASSUME NEW more \in BOOLEAN, Received(more)
      PROVE  SteadyStep
  <2> DEFINE next == IF more THEN <<Point("on_read", 0)>> ELSE <<>>
  <2>1. /\ stack # <<>>
        /\ \E fs \in {<<>>, <<Point("finish", 0)>> \o next, next} : stack' = fs \o Tail(stack)
    BY <1>3 DEF Received, Goto, At
  <2>2. next \in Seq(Steady) /\ <<Point("finish", 0)>> \in Seq(Steady) /\ <<>> \in Seq(Steady)
    BY SteadyFrames
  <2> HIDE DEF next
  <2>3. <<Point("finish", 0)>> \o next \in Seq(Steady)
    BY <2>2
  <2> QED
    BY <2>1, <2>2, <2>3 DEF SteadyStep
<1>4. CASE RequestError
  <2> DEFINE cb(ev) == <<Callback(ev, Top.r), Point("errored", Top.r)>>
  <2>1. stack # <<>> /\ Top.pc = "request_error"
    BY <1>4 DEF RequestError, At
  <2>2. Top.r \in Requests
    BY <2>1, TopRequest
  <2>3. \E fs \in {cb("partial_error"), cb("error")} : stack' = fs \o Tail(stack)
    BY <1>4 DEF RequestError, Goto
  <2>4. cb("partial_error") \in Seq(Steady) /\ cb("error") \in Seq(Steady)
    BY <2>2, SteadyFrames DEF Events
  <2> HIDE DEF cb
  <2> QED
    BY <2>1, <2>3, <2>4 DEF SteadyStep
<1>5. CASE Errored
  <2>1. stack # <<>> /\ Top.pc = "errored"
    BY <1>5 DEF Errored, At
  <2>2. Top.r \in Requests
    BY <2>1, TopRequest
  <2>3. Tail(stack) = <<>> \o Tail(stack)
    BY <2>1 DEF TypeOK
  <2>4. \/ UNCHANGED stack \/ stack' = Tail(stack)
        \/ \E fs \in Seq(Steady) : stack' = fs \o Tail(stack)
    BY <1>5, <2>2, <2>3, RespondSteady DEF Errored, Goto
  <2> QED
    BY <2>1, <2>3, <2>4, SteadyCloses DEF SteadyStep
<1>6. CASE Rejoin
  <2>1. stack # <<>> /\ Top.pc = "rejoin" /\ Top \in Frame
    BY <1>6 DEF Rejoin, At, TypeOK, Top
  <2>2. [Top EXCEPT !.pc = "wrote"] \in Steady
    BY <2>1 DEF Frame, Calm, Steady
  <2>3. <<[Top EXCEPT !.pc = "wrote"]>> \in Seq(Steady)
    BY <2>2
  <2>4. stack' = <<[Top EXCEPT !.pc = "wrote"]>> \o Tail(stack)
    BY <1>6 DEF Rejoin, Goto
  <2> QED
    BY <2>1, <2>3, <2>4 DEF SteadyStep
<1>7. CASE Wrote
  <2>1. stack # <<>> /\ \E fs \in {<<>>, <<Point("finish", 0)>>} : stack' = fs \o Tail(stack)
    BY <1>7 DEF Wrote, Goto, At
  <2>2. <<Point("finish", 0)>> \in Seq(Steady)
    BY SteadyFrames
  <2> QED
    BY <2>1, <2>2, SteadyCloses DEF SteadyStep
<1>8. CASE FinishRequest
  <2> DEFINE fs == <<Callback("finish", Head(requests)), Point("finished", 0)>>
  <2>1. /\ stack # <<>>
        /\ \/ UNCHANGED stack \/ stack' = <<>> \o Tail(stack)
           \/ requests # <<>> /\ stack' = fs \o Tail(stack)
    BY <1>8 DEF FinishRequest, Goto, At, Abort
  <2>2. requests # <<>> => fs \in Seq(Steady)
    BY HeadType, SteadyFrames DEF Events
  <2> HIDE DEF fs
  <2> QED
    BY <2>1, <2>2, SteadyCloses DEF SteadyStep
<1>9. CASE Finished
  <2> DEFINE fs == <<Point("write", Head(requests))>>
  <2>1. /\ stack # <<>>
        /\ \/ UNCHANGED stack \/ stack' = <<>> \o Tail(stack) \/ stack' = Shutdown \o Tail(stack)
           \/ requests # <<>> /\ stack' = fs \o Tail(stack)
    BY <1>9 DEF Finished, Goto, At, Abort
  <2>2. requests # <<>> => fs \in Seq(Steady)
    BY HeadType, SteadyFrames
  <2> HIDE DEF fs
  <2> QED
    BY <2>1, <2>2, SteadyCloses DEF SteadyStep
<1>10. CASE DropRequests
  <2> DEFINE r == Head(requests)
             fs(why) == <<Callback("finish", r)>> \o why \o <<Point("drop", 0)>>
             whys == {<<Callback("partial_error", r)>>, <<Callback("error", r)>>,
                      <<Callback("drop", r)>>, <<>>}
  <2>1. /\ stack # <<>>
        /\ \/ stack' = <<>> \o Tail(stack)
           \/ requests # <<>> /\ \E why \in whys : stack' = fs(why) \o Tail(stack)
    BY <1>10 DEF DropRequests, Goto, At
  <2>2. ASSUME requests # <<>>, NEW why \in whys PROVE fs(why) \in Seq(Steady)
    <3>1. r \in Requests
      BY <2>2, HeadType
    <3> HIDE DEF r
    <3>2. /\ <<Callback("finish", r)>> \in Seq(Steady) /\ <<Point("drop", 0)>> \in Seq(Steady)
          /\ <<Callback("partial_error", r)>> \in Seq(Steady)
          /\ <<Callback("error", r)>> \in Seq(Steady)
          /\ <<Callback("drop", r)>> \in Seq(Steady)
      BY <3>1, SteadyFrames DEF Events
    <3>3. why \in Seq(Steady)
      BY <2>2, <3>2, SteadyCloses
    <3> QED
      BY <3>2, <3>3
  <2> HIDE DEF fs, whys
  <2> QED
    BY <2>1, <2>2, SteadyCloses DEF SteadyStep
<1>11. CASE RemoveConnection
    BY <1>11, SteadyCloses DEF RemoveConnection, Goto, At, SteadyStep
<1>12. CASE Return
    BY <1>12, SteadyCloses DEF Return, Goto, At, SteadyStep
<1> QED
    BY <1>1, <1>2, <1>3, <1>4, <1>5, <1>6, <1>7, <1>8, <1>9, <1>10, <1>11, <1>12 DEF Step

\* So they are all calm.
LEMMA StepCalm ==
    ASSUME TypeOK, Step
    PROVE  WriteNextResponse \/ CalmStep
<1>1. Seq(Steady) \subseteq Seq(Calm)
    BY DEF Steady
<1> QED
    BY <1>1, StepSteady DEF SteadyStep, CalmStep

\* Stream events and the timer call calm routines only.
LEMMA EventCalm ==
    ASSUME TypeOK, Event
    PROVE  CalmStep
<1>1. CASE OnRead
    BY <1>1, CalmFrames DEF OnRead, CalmStep
<1>2. CASE OnReadError
  <2> DEFINE fresh == requests = <<>> \/ req[Last(requests)].done
             r == IF fresh THEN arrived + 1 ELSE Last(requests)
  <2>1. r \in Requests
    BY <1>2, ErrorRequest
  <2>2. stack' = <<Point("request_error", r)>>
    BY <1>2 DEF OnReadError
  <2> HIDE DEF r
  <2> QED
    BY <2>1, <2>2, CalmFrames DEF CalmStep
<1>3. CASE OnConnectionError
    BY <1>3, CalmCloses DEF OnConnectionError, CalmStep
<1>4. CASE OnWrite
    BY <1>4 DEF OnWrite, CalmStep
<1>5. CASE OnWriteError
    BY <1>5, CalmCloses DEF OnWriteError, CalmStep
<1>6. CASE OnShutdown
    BY <1>6 DEF OnShutdown, CalmStep
<1>7. CASE OnEof
    BY <1>7, CalmCloses DEF OnEof, CalmStep
<1>8. CASE OnIdleTimer
    BY <1>8, CalmCloses DEF OnIdleTimer, Abort, CalmStep
<1> QED
    BY <1>1, <1>2, <1>3, <1>4, <1>5, <1>6, <1>7, <1>8 DEF Event

\* The user's calls enter calm routines only.
LEMMA UserCalm ==
    ASSUME TypeOK, User
    PROVE  CalmStep
<1>0. Seq(Steady) \subseteq Seq(Calm)
    BY DEF Steady
<1>1. ASSUME NEW r \in Requests, NEW ka, NEW whole, Respond(r, ka, whole)
      PROVE  CalmStep
    BY <1>1, <1>0, RespondSteady DEF Respond, CalmStep
<1>2. ASSUME NEW r \in Requests,
             EnablePartial(r) \/ SendContinue(r) \/ SendChunk(r)
      PROVE  CalmStep
    BY <1>2 DEF EnablePartial, SendContinue, SendChunk, Abort, CalmStep
<1>3. ASSUME NEW r \in Requests, SendFinalChunk(r)
      PROVE  CalmStep
  <2>1. <<Point("finish", 0)>> \in Seq(Calm)
    BY CalmFrames
  <2>2. UNCHANGED stack \/ stack' = <<Point("finish", 0)>> \o stack
    BY <1>3 DEF SendFinalChunk, Abort
  <2> QED
    BY <2>1, <2>2 DEF CalmStep
<1>4. ASSUME NEW r \in Requests, Drop(r)
      PROVE  CalmStep
    BY <1>4, CalmCloses DEF Drop, CalmStep
<1>5. ASSUME NEW r \in Requests, Upgrade(r)
      PROVE  CalmStep
  <2>1. <<Callback("finish", r), Point("remove", 0)>> \in Seq(Calm)
    BY CalmFrames DEF Events
  <2>2. UNCHANGED stack \/ stack' = <<Callback("finish", r), Point("remove", 0)>> \o stack
    BY <1>5 DEF Upgrade, Abort
  <2> QED
    BY <2>1, <2>2 DEF CalmStep
<1>6. CASE CloseConnection
    BY <1>6, CalmCloses DEF CloseConnection, CalmStep
<1>7. CASE GracefulStop
  <2>1. UNCHANGED stack \/ stack' = Shutdown \o stack
    BY <1>7 DEF GracefulStop
  <2> QED
    BY <2>1, CalmCloses DEF CalmStep
<1> QED
    BY <1>1, <1>2, <1>3, <1>4, <1>5, <1>6, <1>7 DEF User

\* What a step must do to keep IdleInv when it leaves nothing to be put back:
\* it does not reopen the connection, and if it leaves the timer on, then
\* either the timer was on and the queue only shrank, or the queue is empty
\* and no front waits to be put back.
TimerStep ==
    /\ closing => closing'
    /\ \/ timer' # "on"
       \/ timer = "on" /\ (requests' = requests \/ requests' = <<>>)
       \/ requests' = <<>> /\ (~closing \/ stack = <<>>)

\* A step that respects the timer preserves the inductive invariant.
LEMMA TimerStepKeeps ==
    ASSUME TypeOK, IdleInv, CalmStep, TimerStep
    PROVE  IdleInv'
<1>1. HasRejoin(stack') => HasRejoin(stack)
    BY CalmStepKeeps
<1>2. stack = <<>> => ~HasRejoin(stack)
    BY DEF HasRejoin
<1>3. HasRejoin(stack)' <=> HasRejoin(stack')
    BY DEF HasRejoin
<1> HIDE DEF HasRejoin
<1>4. IdleOnlyWhenIdle'
    BY DEF IdleInv, IdleOnlyWhenIdle, TimerStep
<1>5. HasRejoin(stack)' => closing' /\ timer' # "on"
    BY <1>1, <1>2, <1>3 DEF IdleInv, TimerStep
<1> QED
    BY <1>4, <1>5 DEF IdleInv

\* A step that leaves timer and queue alone respects the timer.
LEMMA UntouchedTimer ==
    ASSUME UNCHANGED <<requests, timer, closing>>
    PROVE  TimerStep
BY DEF TimerStep

\* A fault leaves the timer alone.
LEMMA AbortTimer ==
    ASSUME NEW why, Abort(why)
    PROVE  TimerStep
BY UntouchedTimer DEF Abort

\* Every stream event respects the timer.
LEMMA EventTimer ==
    ASSUME TypeOK, IdleInv, Event
    PROVE  TimerStep
<1>1. CASE OnRead
    BY <1>1 DEF OnRead, flags, TimerStep
<1>2. CASE OnReadError
    BY <1>2 DEF OnReadError, StopTimer, flags, TimerStep
<1>3. CASE OnConnectionError
    BY <1>3 DEF OnConnectionError, HardClose, StopTimer, flags, TimerStep
<1>4. CASE OnWrite
    BY <1>4 DEF OnWrite, check_if_idle, Loop, flags, TimerStep
<1>5. CASE OnWriteError
    BY <1>5 DEF OnWriteError, HardClose, StopTimer, flags, TimerStep
<1>6. CASE OnShutdown
    BY <1>6 DEF OnShutdown, StopTimer, flags, TimerStep
<1>7. CASE OnEof
    BY <1>7 DEF OnEof, flags, TimerStep
<1>8. CASE OnIdleTimer
  <2>1. CASE Abort("idle timer: busy")
    BY <2>1, AbortTimer
  <2>2. CASE ~Abort("idle timer: busy")
    <3>1. StopTimer /\ UNCHANGED <<requests, closing>>
      BY <1>8, <2>2 DEF OnIdleTimer, HardClose, flags
    <3> QED
      BY <3>1 DEF StopTimer, TimerStep
  <2> QED
    BY <2>1, <2>2
<1> QED
    BY <1>1, <1>2, <1>3, <1>4, <1>5, <1>6, <1>7, <1>8 DEF Event

\* Every call of the user respects the timer.
LEMMA UserTimer ==
    ASSUME TypeOK, IdleInv, User
    PROVE  TimerStep
<1>1. ASSUME NEW r \in Requests, NEW ka, NEW whole, Respond(r, ka, whole)
      PROVE  TimerStep
    BY <1>1, RespondSteady DEF Respond, TimerStep
<1>2. ASSUME NEW r \in Requests,
             EnablePartial(r) \/ SendContinue(r) \/ SendChunk(r) \/ SendFinalChunk(r)
      PROVE  TimerStep
  <2>1. UNCHANGED <<requests, timer, closing>>
    BY <1>2 DEF EnablePartial, SendContinue, SendChunk, SendFinalChunk, Abort, flags
  <2> QED
    BY <2>1, UntouchedTimer
<1>3. ASSUME NEW r \in Requests, Drop(r)
      PROVE  TimerStep
    BY <1>3 DEF Drop, HardClose, StopTimer, flags, TimerStep
<1>4. ASSUME NEW r \in Requests, Upgrade(r)
      PROVE  TimerStep
  <2>1. CASE Abort("upgrade: should not happen")
    BY <2>1, AbortTimer
  <2>2. CASE ~Abort("upgrade: should not happen")
    <3>1. timer' = "null" /\ UNCHANGED closing
      BY <1>4, <2>2 DEF Upgrade, flags
    <3> QED
      BY <3>1 DEF TimerStep
  <2> QED
    BY <2>1, <2>2
<1>5. CASE CloseConnection
    BY <1>5 DEF CloseConnection, HardClose, StopTimer, flags, TimerStep
<1>6. CASE GracefulStop
    BY <1>6 DEF GracefulStop, SoftClose, TimerStep
<1> QED
    BY <1>1, <1>2, <1>3, <1>4, <1>5, <1>6 DEF User

\* In a step of the code itself the timer is only started by check_if_idle(),
\* at the end of finish_request() and never while closing; a request that is
\* taken out of the queue found the timer off.
LEMMA StepTimer ==
    ASSUME TypeOK, IdleInv, Step, ~WriteNextResponse
    PROVE  TimerStep
<1>1. ASSUME NEW result, NEW shape, Parse(result, shape)
      PROVE  TimerStep
    BY <1>1 DEF Parse, StopTimer, flags, TimerStep
<1>2. CASE Deliver
    BY <1>2 DEF Deliver, flags, TimerStep
<1>3. ASSUME NEW more, Received(more)
      PROVE  TimerStep
    BY <1>3 DEF Received, flags, TimerStep
<1>4. CASE RequestError
    BY <1>4 DEF RequestError, flags, TimerStep
<1>5. CASE Errored
  <2>1. Top.r \in Requests
    BY <1>5, TopRequest DEF Errored, At
  <2>2. UNCHANGED <<requests, timer, closing>>
    BY <1>5, <2>1, RespondSteady DEF Errored, flags
  <2> QED
    BY <2>2, UntouchedTimer
<1>6. CASE Rejoin
  <2>1. HasRejoin(stack)
    BY <1>6 DEF Rejoin, At, Top, TypeOK, HasRejoin
  <2> QED
    BY <1>6, <2>1 DEF Rejoin, flags, TimerStep, IdleInv
<1>7. CASE Wrote
    BY <1>7 DEF Wrote, flags, TimerStep
<1>8. CASE FinishRequest
  <2>1. UNCHANGED <<timer, closing>> /\ (requests' = requests \/ requests # <<>>)
    BY <1>8 DEF FinishRequest, Abort, flags
  <2> QED
    BY <2>1 DEF TimerStep, IdleInv, IdleOnlyWhenIdle
<1>9. CASE Finished
  <2>1. CASE Abort("finish: not last")
    BY <2>1, AbortTimer
  <2>2. CASE ~Abort("finish: not last")
    <3>1. \/ UNCHANGED <<requests, timer, closing>>
          \/ /\ UNCHANGED <<requests, closing>> /\ ~closing
             /\ requests = <<>>
      BY <1>9, <2>2 DEF Finished, SoftClose, flags
    <3> QED
      BY <3>1, UntouchedTimer DEF TimerStep
  <2> QED
    BY <2>1, <2>2
<1>10. CASE DropRequests
    BY <1>10 DEF DropRequests, flags, TimerStep, IdleInv, IdleOnlyWhenIdle
<1>11. CASE RemoveConnection
    BY <1>11 DEF RemoveConnection, flags, TimerStep
<1>12. CASE Return
    BY <1>12 DEF Return, flags, TimerStep
<1> QED
    BY <1>1, <1>2, <1>3, <1>4, <1>5, <1>6, <1>7, <1>8, <1>9, <1>10, <1>11, <1>12 DEF Step

\* write_next_response() takes the front out only of a queue that is not empty,
\* so the timer is off, and only after it has set closing.
LEMMA WriteIdle ==
    ASSUME TypeOK, IdleInv, WriteNextResponse
    PROVE  IdleInv'
<1> DEFINE last == ~res[Top.r].ka \/ ~req[Top.r].shape.ka
           kept == IF res[Top.r].st = "open" THEN res[Top.r].parts ELSE <<>>
           on == [pc |-> "wrote", r |-> Top.r, ev |-> "-", tmp |-> kept]
<1>1. UNCHANGED timer /\ closing' = (closing \/ last) /\ stack # <<>>
    BY DEF WriteNextResponse, At
<1>2. CASE last /\ Len(requests) > 1
  <2>1. requests # <<>>
    BY <1>2 DEF TypeOK
  <2>2. timer # "on" /\ timer' # "on" /\ closing'
    BY <1>1, <1>2, <2>1 DEF IdleInv, IdleOnlyWhenIdle
  <2> QED
    BY <2>2 DEF IdleInv, IdleOnlyWhenIdle
<1>3. CASE ~(last /\ Len(requests) > 1)
  <2>1. UNCHANGED requests /\ stack' = <<on>> \o Tail(stack)
    BY <1>3 DEF WriteNextResponse, Goto
  <2>2. on \in Calm
    <3>1. Top.r \in Requests
      BY TopRequest DEF WriteNextResponse, At
    <3>2. kept \in Seq(ChunkNumbers)
      BY <3>1 DEF TypeOK, ServerResponse
    <3> HIDE DEF kept
    <3> QED
      BY <3>1, <3>2 DEF Frame, Calm
  <2> HIDE DEF on
  <2>3. CalmStep
    <3>1. <<on>> \in Seq(Calm)
      BY <2>2
    <3> QED
      BY <1>1, <2>1, <3>1 DEF CalmStep
  <2>4. TimerStep
    BY <1>1, <2>1 DEF TimerStep
  <2> QED
    BY <2>3, <2>4, TimerStepKeeps
<1> QED
    BY <1>2, <1>3

\* The idle timer never runs while the connection has a request to receive or
\* to answer, so the assert in its callback (ServerConnection.cc 46) never
\* fails: whatever the peer sends, the user calls and from where.
THEOREM IdleSafe == Spec => []IdleOnlyWhenIdle
<1>1. Init => IdleInv
    BY DEF Init, IdleInv, IdleOnlyWhenIdle, HasRejoin
<1>2. TypeOK /\ IdleInv /\ [Next]_vars => IdleInv'
  <2>1. ASSUME TypeOK, IdleInv, UNCHANGED vars PROVE IdleInv'
    BY <2>1 DEF vars, IdleInv, IdleOnlyWhenIdle, HasRejoin
  <2>2. ASSUME TypeOK, IdleInv, Step PROVE IdleInv'
    BY <2>2, StepCalm, StepTimer, WriteIdle, TimerStepKeeps
  <2>3. ASSUME TypeOK, IdleInv, Event PROVE IdleInv'
    BY <2>3, EventCalm, EventTimer, TimerStepKeeps
  <2>4. ASSUME TypeOK, IdleInv, User PROVE IdleInv'
    BY <2>4, UserCalm, UserTimer, TimerStepKeeps
  <2> QED
    BY <2>1, <2>2, <2>3, <2>4 DEF Next
<1>3. IdleInv => IdleOnlyWhenIdle
    BY DEF IdleInv
<1> QED
    BY <1>1, <1>2, <1>3, TypeCorrect, PTL DEF Spec
-----------------------------------------------------------------------------
(* The life of a connection *)

\* The user leaves an upgraded stream alone until its connection is gone: the
\* finish callback that upgrade() makes closes nothing, or nobody upgrades.
UpgradeGoes ==
    \/ "upgrade" \notin LoopCalls /\ \A ev \in Events : "upgrade" \notin HandlerCalls[ev]
    \/ HandlerCalls["finish"] \cap {"drop", "close", "graceful"} = {}

\* The frames of a connection that stays.
NoRemoval == {f \in Frame : f.pc # "remove"}

\* The connection is about to be removed, after the finish callback at most.
Leaving(s) ==
    \/ s # <<>> /\ Head(s).pc = "remove"
    \/ Len(s) > 1 /\ Head(s).pc = "callback" /\ Head(s).ev = "finish" /\ s[2].pc = "remove"

\* The inductive invariant behind the refinement: an open connection has no
\* removal on its stack, and an upgraded one that is still in the server has
\* nothing left to do but its removal.
LifeInv ==
    /\ stream.mode = "open" => stack \in Seq(NoRemoval)
    /\ stream.mode = "user" => HandlerCalls["finish"] \cap {"drop", "close", "graceful"} = {}
    /\ stream.mode = "user" /\ member => requests = <<>> /\ Leaving(stack)

\* The connection keeps its stream and its place, and starts to stop only with
\* requests.
Remains ==
    /\ stream'.mode = stream.mode /\ member' = member
    /\ stopping' = stopping \/ (stopping' = TRUE /\ requests # <<>>)

\* What a step does to the connection as its server sees it.
Moved ==
    \/ Remains
    \/ ~member /\ ~member'
    \/ member /\ ~member' /\ stream.mode # "open"
    \/ member' = member /\ <<stream.mode, stream'.mode>> \in
           {<<"open", "shut">>, <<"open", "reset">>, <<"shut", "shut">>, <<"shut", "reset">>,
            <<"reset", "reset">>}
    \/ member' = member /\ stream.mode = "open" /\ stream'.mode = "user" /\ requests # <<>>

\* That is a step of its life.
LEMMA MovedLives ==
    ASSUME TypeOK, TypeOK', Moved
    PROVE  Life!Next
<1>1. /\ stream.mode \in {"open", "shut", "reset", "user"} /\ member \in BOOLEAN
      /\ stream'.mode \in {"open", "shut", "reset", "user"} /\ member' \in BOOLEAN
      /\ stopping \in BOOLEAN /\ stopping' \in BOOLEAN
    BY DEF TypeOK, Stream
<1> DEFINE new == Phase'
<1>2. Phase # new => <<Phase, new>> \in Life!Moves
  <2>1. CASE Remains
    BY <1>1, <2>1 DEF Remains, Phase, Life!Moves
  <2>2. CASE ~Remains
    BY <1>1, <2>2 DEF Moved, Phase, Life!Moves
  <2> QED
    BY <2>1, <2>2
<1> QED
    BY <1>2, Zenon DEF Life!Next

\* A connection that stays goes on with frames of a connection that stays.
LEMMA StayingStack ==
    ASSUME TypeOK, LifeInv, SteadyStep, stream'.mode = "open" => stream.mode = "open"
    PROVE  stream'.mode = "open" => stack' \in Seq(NoRemoval)
<1> SUFFICES ASSUME stream'.mode = "open" PROVE stack' \in Seq(NoRemoval)
    OBVIOUS
<1>1. stack \in Seq(NoRemoval)
    BY DEF LifeInv
<1>2. ASSUME stack # <<>>, NEW fs \in Seq(Steady), stack' = fs \o Tail(stack)
      PROVE  stack' \in Seq(NoRemoval)
  <2>1. fs \in Seq(NoRemoval)
    BY DEF Steady, Calm, NoRemoval
  <2>2. Tail(stack) \in Seq(NoRemoval)
    BY <1>1, <1>2
  <2> QED
    BY <1>2, <2>1, <2>2
<1> QED
    BY <1>1, <1>2 DEF SteadyStep

\* The routine on top of an upgraded connection is its removal or a callback.
LEMMA UpgradedTop ==
    ASSUME LifeInv, stream.mode = "user", member
    PROVE  stack # <<>> /\ Top.pc \in {"remove", "callback"}
BY DEF LifeInv, Leaving, Top

\* write_next_response() calls nothing that removes the connection.
LEMMA WriteStays ==
    ASSUME TypeOK, LifeInv, WriteNextResponse
    PROVE  Remains /\ (stream'.mode = "open" => stack' \in Seq(NoRemoval))
<1>1. stack # <<>> /\ Top.pc = "write" /\ stack \in Seq(Frame) /\ stream \in Stream
    BY DEF WriteNextResponse, At, TypeOK
<1>2. Top.r \in Requests
    BY <1>1, TopRequest
<1> DEFINE r == Top.r
           tmp == IF res[r].st = "open" THEN res[r].parts ELSE <<>>
           then(pc) == [pc |-> pc, r |-> r, ev |-> "-", tmp |-> tmp]
<1>3. tmp \in Seq(ChunkNumbers)
  <2>1. res[r] \in ServerResponse
    BY <1>2 DEF TypeOK
  <2>2. res[r].parts \in Seq(ChunkNumbers)
    BY <2>1 DEF ServerResponse
  <2> QED
    BY <2>2
<1>4. /\ stack' = <<Point("drop", 0), then("rejoin")>> \o Tail(stack) \/ stack' = <<then("wrote")>> \o Tail(stack)
    BY DEF WriteNextResponse, Goto
<1> HIDE DEF tmp
<1>5. then("rejoin") \in NoRemoval /\ then("wrote") \in NoRemoval /\ Point("drop", 0) \in NoRemoval
    BY <1>2, <1>3, FrameTypes DEF NoRemoval, Frame, Point
<1> HIDE DEF then
<1>6. Remains
  <2>1. UNCHANGED <<stopping, member>>
    BY DEF WriteNextResponse
  <2>2. stream'.mode = stream.mode
    BY <1>1 DEF WriteNextResponse, Stream
  <2> QED
    BY <2>1, <2>2 DEF Remains
<1>7. ASSUME stream'.mode = "open" PROVE stack' \in Seq(NoRemoval)
  <2>1. stack \in Seq(NoRemoval)
    BY <1>6, <1>7 DEF LifeInv, Remains
  <2>2. Tail(stack) \in Seq(NoRemoval)
    BY <1>1, <2>1
  <2>3. <<Point("drop", 0), then("rejoin")>> \in Seq(NoRemoval) /\ <<then("wrote")>> \in Seq(NoRemoval)
    BY <1>5
  <2>4. \A fs \in Seq(NoRemoval) : fs \o Tail(stack) \in Seq(NoRemoval)
    BY <2>2
  <2> QED
    BY <1>4, <2>3, <2>4
<1> QED
    BY <1>6, <1>7

\* respond() starts to stop only with requests.
LEMMA RespondRemains ==
    ASSUME TypeOK, NEW r, NEW ka, NEW whole, NEW rest, respond(r, ka, whole, rest)
    PROVE  Remains
<1>1. stopping \in BOOLEAN
    BY DEF TypeOK
<1>2. \/ UNCHANGED <<stream, member, stopping>>
      \/ /\ requests # <<>> /\ UNCHANGED <<stream, member>>
         /\ stopping' \in BOOLEAN /\ (stopping => stopping')
    BY <1>1 DEF respond, Abort
<1> QED
    BY <1>1, <1>2 DEF Remains

\* What the code goes on with by itself keeps the connection to its life.
LEMMA StepLives ==
    ASSUME TypeOK, LifeInv, Step
    PROVE  Moved /\ LifeInv'
<1>0. stream \in Stream /\ member \in BOOLEAN /\ stopping \in BOOLEAN
    BY DEF TypeOK
<1>1. CASE RemoveConnection
  <2>1. stack # <<>> /\ Top.pc = "remove" /\ member' = FALSE /\ stream' = stream
    BY <1>1 DEF RemoveConnection, At
  <2>2. stream.mode # "open"
    <3>1. ASSUME stack \in Seq(NoRemoval) PROVE FALSE
      BY <2>1, <3>1 DEF NoRemoval, Top
    <3> QED
      BY <3>1 DEF LifeInv
  <2> QED
    BY <1>0, <2>1, <2>2 DEF LifeInv, Moved
<1>2. CASE Return
  <2>1. stack # <<>> /\ Top.pc = "callback" /\ stack' = <<>> \o Tail(stack)
        /\ UNCHANGED <<stream, member, stopping, requests>>
    BY <1>2 DEF Return, Goto, At, flags
  <2>2. SteadyStep
    BY <2>1, SteadyCloses DEF SteadyStep
  <2>3. ASSUME stream.mode = "user", member PROVE requests' = <<>> /\ Leaving(stack')
    <3>1. Len(stack) > 1 /\ stack[2].pc = "remove" /\ requests = <<>>
      BY <2>1, <2>3 DEF LifeInv, Leaving, Top
    <3>2. stack \in Seq(Frame)
      BY DEF TypeOK
    <3>3. Tail(stack) \in Seq(Frame) /\ Len(Tail(stack)) > 0 /\ Tail(stack)[1] = stack[2]
      BY <3>1, <3>2
    <3>4. Head(Tail(stack)) = stack[2] /\ Tail(stack) # <<>> /\ <<>> \o Tail(stack) = Tail(stack)
      BY <3>3
    <3> QED
      BY <2>1, <3>1, <3>4, Zenon DEF Leaving
  <2> QED
    BY <2>1, <2>2, <2>3, StayingStack DEF LifeInv, Moved, Remains
<1>3. ASSUME stack # <<>>, Top.pc \notin {"remove", "callback"}, Moved,
             stream'.mode = stream.mode \/ stream'.mode \in {"shut", "reset"}, member' = member,
             stream'.mode = "open" => stack' \in Seq(NoRemoval)
      PROVE  Moved /\ LifeInv'
    BY <1>3, UpgradedTop DEF LifeInv
<1>4. CASE WriteNextResponse
  <2>1. stack # <<>> /\ Top.pc = "write"
    BY <1>4 DEF WriteNextResponse, At
  <2> QED
    BY <1>3, <1>4, <2>1, WriteStays DEF Moved, Remains
<1>5. CASE Finished
  <2>1. stack # <<>> /\ Top.pc = "finished" /\ member' = member /\ stopping' = stopping
    BY <1>5 DEF Finished, At, Abort, flags
  <2>2. SteadyStep
    BY <1>5, <2>1, StepSteady DEF WriteNextResponse, At
  <2>3. stream' = stream \/ stream' = [stream EXCEPT !.mode = IF @ = "reset" THEN @ ELSE "shut"]
    BY <1>5 DEF Finished, Abort, SoftClose
  <2>4. stream.mode = "user" => ~member
    BY <2>1, UpgradedTop
  <2>5. stream'.mode = stream.mode \/ (stream.mode # "reset" /\ stream'.mode = "shut")
    BY <1>0, <2>3 DEF Stream
  <2>6. Moved
    BY <1>0, <2>1, <2>4, <2>5 DEF Moved, Remains, Stream
  <2> QED
    BY <1>3, <2>1, <2>2, <2>5, <2>6, StayingStack
<1>6. ASSUME SteadyStep, Remains, stack # <<>>, Top.pc \notin {"remove", "callback"}
      PROVE  Moved /\ LifeInv'
    BY <1>3, <1>6, StayingStack DEF Moved, Remains
<1>7. ASSUME stack # <<>>, Top.pc \notin {"remove", "callback", "write"}, Remains
      PROVE  Moved /\ LifeInv'
    BY <1>6, <1>7, StepSteady DEF WriteNextResponse, At
<1>8. ASSUME NEW result, NEW shape, Parse(result, shape)
      PROVE  Moved /\ LifeInv'
    BY <1>7, <1>8, Zenon DEF Parse, At, Remains, flags
<1>9. CASE Deliver
    BY <1>7, <1>9, Zenon DEF Deliver, At, Remains, flags
<1>10. ASSUME NEW more, Received(more)
      PROVE  Moved /\ LifeInv'
  <2>1. stream' = stream \/ stream' = [stream EXCEPT !.reading = FALSE]
    BY <1>10, Zenon DEF Received
  <2>2. stream'.mode = stream.mode
    BY <1>0, <2>1 DEF Stream
  <2> QED
    BY <1>7, <1>10, <2>2 DEF Received, At, Remains, flags
<1>11. CASE RequestError
  <2>1. stream'.mode = stream.mode
    BY <1>0, <1>11 DEF RequestError, Stream
  <2> QED
    BY <1>7, <1>11, <2>1 DEF RequestError, At, Remains, flags
<1>12. CASE Errored
  <2>1. stack # <<>> /\ Top.pc = "errored"
    BY <1>12 DEF Errored, At
  <2>2. Remains
    BY <1>12, RespondRemains DEF Errored, Remains, flags
  <2> QED
    BY <1>7, <2>1, <2>2
<1>13. CASE Rejoin
    BY <1>7, <1>13, Zenon DEF Rejoin, At, Remains, flags
<1>14. CASE Wrote
  <2>1. stream' = stream \/ stream' = [stream EXCEPT !.unsent = TRUE]
    BY <1>14 DEF Wrote, Write
  <2>2. stream'.mode = stream.mode
    BY <1>0, <2>1 DEF Stream
  <2> QED
    BY <1>7, <1>14, <2>2 DEF Wrote, At, Remains, flags
<1>15. CASE FinishRequest
    BY <1>7, <1>15, Zenon DEF FinishRequest, At, Remains, flags, Abort
<1>16. CASE DropRequests
    BY <1>7, <1>16, Zenon DEF DropRequests, At, Remains, flags
<1> QED
    BY <1>1, <1>2, <1>4, <1>5, <1>8, <1>9, <1>10, <1>11, <1>12, <1>13, <1>14, <1>15, <1>16 DEF Step

\* Stream events and the timer keep the connection to its life.
LEMMA EventLives ==
    ASSUME TypeOK, LifeInv, Event
    PROVE  Moved /\ LifeInv'
<1>0. stream \in Stream /\ member \in BOOLEAN /\ stopping \in BOOLEAN
    BY DEF TypeOK
<1>1. stack = <<>>
    BY DEF Event, OnRead, OnReadError, OnConnectionError, OnWrite, OnWriteError, OnShutdown,
           OnEof, OnIdleTimer, Loop
<1>2. stream.mode = "user" => ~member
    BY <1>1, UpgradedTop
<1>3. ASSUME Remains, stack' \in Seq(NoRemoval)
      PROVE  Moved /\ LifeInv'
    BY <1>2, <1>3 DEF Moved, Remains, LifeInv
<1>4. ASSUME UNCHANGED <<member, stopping>>, stream'.mode \in {"shut", "reset"},
             stream.mode = "reset" => stream'.mode = "reset"
      PROVE  Moved /\ LifeInv'
    BY <1>0, <1>2, <1>4 DEF Moved, LifeInv, Stream
<1>5. ASSUME HardClose, UNCHANGED <<member, flags>>
      PROVE  Moved /\ LifeInv'
  <2>1. stream'.mode = "reset"
    BY <1>0, <1>5 DEF HardClose, Stream
  <2> QED
    BY <1>4, <1>5, <2>1 DEF flags
<1>6. <<>> \in Seq(NoRemoval)
    OBVIOUS
<1>7. CASE OnRead
  <2>1. <<Point("on_read", 0)>> \in Seq(NoRemoval)
    BY FrameTypes DEF NoRemoval, Point
  <2> QED
    BY <1>3, <1>7, <2>1 DEF OnRead, Remains, flags
<1>8. CASE OnReadError
  <2> DEFINE r == IF requests = <<>> \/ req[Last(requests)].done THEN arrived + 1 ELSE Last(requests)
  <2>1. r \in Requests
    BY <1>8, ErrorRequest
  <2>2. stack' = <<Point("request_error", r)>> /\ UNCHANGED <<stream, member, flags>>
    BY <1>8 DEF OnReadError
  <2> HIDE DEF r
  <2>3. <<Point("request_error", r)>> \in Seq(NoRemoval)
    BY <2>1, FrameTypes DEF NoRemoval, Point
  <2> QED
    BY <1>3, <2>2, <2>3 DEF Remains, flags
<1>9. CASE OnConnectionError
    BY <1>5, <1>9 DEF OnConnectionError
<1>10. CASE OnWrite
  <2>1. stream'.mode = stream.mode
    BY <1>0, <1>10 DEF OnWrite, Stream
  <2> QED
    BY <1>1, <1>3, <1>6, <1>10, <2>1 DEF OnWrite, Remains, flags
<1>11. CASE OnWriteError
    BY <1>5, <1>11 DEF OnWriteError
<1>12. CASE OnShutdown
  <2>1. stream.mode = "shut" /\ stream'.mode = "reset" /\ member' = FALSE
    BY <1>0, <1>12 DEF OnShutdown, Stream
  <2> QED
    BY <1>0, <2>1 DEF Moved, LifeInv
<1>13. CASE OnEof
  <2>1. stream'.mode \in {"shut", "reset"} /\ (stream.mode = "reset" => stream'.mode = "reset")
    BY <1>0, <1>13 DEF OnEof, Stream
  <2> QED
    BY <1>4, <1>13, <2>1 DEF OnEof, flags
<1>14. CASE OnIdleTimer
  <2>1. CASE HardClose /\ UNCHANGED <<member, flags>>
    BY <1>5, <2>1
  <2>2. CASE UNCHANGED <<stream, member, stopping, stack>>
    BY <1>1, <1>3, <1>6, <2>2 DEF Remains
  <2> QED
    BY <1>14, <2>1, <2>2 DEF OnIdleTimer, Abort
<1> QED
    BY <1>7, <1>8, <1>9, <1>10, <1>11, <1>12, <1>13, <1>14 DEF Event

\* The user's calls keep the connection to its life.
LEMMA UserLives ==
    ASSUME UpgradeGoes, TypeOK, LifeInv, User
    PROVE  Moved /\ LifeInv'
<1>0. /\ stream \in Stream /\ member \in BOOLEAN /\ stopping \in BOOLEAN /\ stack \in Seq(Frame)
      /\ stream.mode \in {"open", "shut", "reset", "user"}
    BY DEF TypeOK, Stream
<1>1. ASSUME stream.mode = "user", member, NEW call, UserMay(call)
      PROVE  /\ requests = <<>> /\ Leaving(stack)
             /\ call \notin {"drop", "close", "graceful"}
  <2>1. requests = <<>> /\ Leaving(stack) /\ HandlerCalls["finish"] \cap {"drop", "close", "graceful"} = {}
    BY <1>1 DEF LifeInv
  <2>2. stack # <<>> /\ Top.pc = "callback" /\ call \in HandlerCalls[Top.ev]
    BY <1>1, UpgradedTop DEF UserMay
  <2>3. Top.ev = "finish"
    BY <2>1, <2>2 DEF Leaving, Top
  <2> QED
    BY <2>1, <2>2, <2>3
<1>2. ASSUME Remains, stack' = stack, requests' = requests
      PROVE  Moved /\ LifeInv'
    BY <1>2 DEF Moved, Remains, LifeInv
<1>3. ASSUME Remains, stream.mode = "user" => ~member, NEW fs \in Seq(NoRemoval), stack' = fs \o stack
      PROVE  Moved /\ LifeInv'
  <2>1. stack \in Seq(NoRemoval) => fs \o stack \in Seq(NoRemoval)
    OBVIOUS
  <2> QED
    BY <1>3, <2>1 DEF Moved, Remains, LifeInv
<1>4. ASSUME UNCHANGED <<member, stopping>>, stream.mode = "user" => ~member,
             stream'.mode \in {"shut", "reset"}, stream.mode = "reset" => stream'.mode = "reset"
      PROVE  Moved /\ LifeInv'
    BY <1>0, <1>4 DEF Moved, LifeInv
<1>5. ASSUME NEW r \in Requests, NEW ka, NEW whole, Respond(r, ka, whole)
      PROVE  Moved /\ LifeInv'
  <2>1. Remains /\ requests' = requests
    <3>1. respond(r, ka, whole, stack)
      BY <1>5 DEF Respond
    <3> QED
      BY <3>1, RespondRemains, RespondSteady
  <2>2. stack' = stack \/ (requests # <<>> /\ stack' = <<Point("write", r)>> \o stack)
    BY <1>5 DEF Respond, respond, Abort
  <2>3. <<Point("write", r)>> \in Seq(NoRemoval)
    BY FrameTypes DEF NoRemoval, Point
  <2>4. stream.mode = "user" /\ member => requests = <<>>
    BY DEF LifeInv
  <2> QED
    BY <1>0, <1>2, <1>3, <2>1, <2>2, <2>3, <2>4
<1>6. ASSUME NEW r \in Requests, EnablePartial(r)
      PROVE  Moved /\ LifeInv'
    BY <1>2, <1>6 DEF EnablePartial, Remains, flags
<1>7. ASSUME NEW items, Write(items)
      PROVE  stream'.mode = stream.mode
    BY <1>0, <1>7 DEF Write, Stream
<1>8. ASSUME NEW r \in Requests, SendContinue(r)
      PROVE  Moved /\ LifeInv'
  <2>1. UNCHANGED <<stack, requests, member, stopping>> /\ stream'.mode = stream.mode
    BY <1>7, <1>8 DEF SendContinue, Abort, flags
  <2> QED
    BY <1>2, <2>1 DEF Remains
<1>9. ASSUME NEW r \in Requests, SendChunk(r)
      PROVE  Moved /\ LifeInv'
  <2>1. UNCHANGED <<stack, requests, member, stopping>>
    BY <1>9 DEF SendChunk, Abort, flags
  <2>2. UNCHANGED stream \/ \E items : Write(items)
    BY <1>9 DEF SendChunk, Abort
  <2> QED
    BY <1>2, <1>7, <2>1, <2>2 DEF Remains
<1>10. ASSUME NEW r \in Requests, SendFinalChunk(r)
      PROVE  Moved /\ LifeInv'
  <2>1. UNCHANGED <<requests, member, stopping>>
    BY <1>10 DEF SendFinalChunk, Abort, flags
  <2>2. UNCHANGED stream \/ \E items : Write(items)
    BY <1>10 DEF SendFinalChunk, Abort
  <2>3. Remains
    BY <1>7, <2>1, <2>2 DEF Remains
  <2>4. stack' = stack \/ (requests # <<>> /\ stack' = <<Point("finish", 0)>> \o stack)
    BY <1>10 DEF SendFinalChunk, Abort
  <2>5. <<Point("finish", 0)>> \in Seq(NoRemoval)
    BY FrameTypes DEF NoRemoval, Point
  <2>6. stream.mode = "user" /\ member => requests = <<>>
    BY DEF LifeInv
  <2> QED
    BY <1>0, <1>2, <1>3, <2>1, <2>3, <2>4, <2>5, <2>6
<1>11. ASSUME HardClose, UNCHANGED <<member, flags>>, stream.mode = "user" => ~member
      PROVE  Moved /\ LifeInv'
  <2>1. stream'.mode = "reset"
    BY <1>0, <1>11 DEF HardClose, Stream
  <2> QED
    BY <1>4, <1>11, <2>1 DEF flags
<1>12. ASSUME NEW r \in Requests, Drop(r)
      PROVE  Moved /\ LifeInv'
  <2>1. stream.mode = "user" => ~member
    BY <1>1, <1>12 DEF Drop
  <2> QED
    BY <1>11, <1>12, <2>1 DEF Drop
<1>13. CASE CloseConnection
  <2>1. stream.mode = "user" => ~member
    BY <1>1, <1>13 DEF CloseConnection
  <2> QED
    BY <1>11, <1>13, <2>1 DEF CloseConnection
<1>14. CASE GracefulStop
  <2>1. stream.mode = "user" => ~member
    BY <1>1, <1>14 DEF GracefulStop
  <2>2. CASE requests = <<>>
    <3>1. SoftClose /\ UNCHANGED <<stopping, member>>
      BY <1>14, <2>2 DEF GracefulStop
    <3>2. stream'.mode \in {"shut", "reset"} /\ (stream.mode = "reset" => stream'.mode = "reset")
      BY <1>0, <3>1 DEF SoftClose, Stream
    <3> QED
      BY <1>4, <2>1, <3>1, <3>2
  <2>3. CASE requests # <<>>
    BY <1>2, <1>14, <2>3 DEF GracefulStop, Remains
  <2> QED
    BY <2>2, <2>3
<1>15. ASSUME NEW r \in Requests, Upgrade(r)
      PROVE  Moved /\ LifeInv'
  <2>1. CASE requests # <<r>>
    BY <1>2, <1>15, <2>1 DEF Upgrade, Abort, Remains
  <2>2. CASE requests = <<r>>
    <3>1. /\ UserMay("upgrade") /\ UNCHANGED <<member, stopping>>
          /\ stream' = [stream EXCEPT !.listener = FALSE, !.mode = IF @ = "open" THEN "user" ELSE @]
          /\ stack' = <<Callback("finish", r), Point("remove", 0)>> \o stack
          /\ requests' = Tail(requests)
      BY <1>15, <2>2 DEF Upgrade, Forget, flags
    <3>2. stream'.mode = IF stream.mode = "open" THEN "user" ELSE stream.mode
      BY <1>0, <3>1 DEF Stream
    <3>3. requests # <<>> /\ requests' = <<>>
      BY <2>2, <3>1
    <3>4. HandlerCalls["finish"] \cap {"drop", "close", "graceful"} = {}
      <4>1. stack # <<>> /\ Top.pc = "callback" => Top.ev \in Events
        BY <1>0 DEF Top, Frame
      <4> QED
        BY <3>1, <4>1 DEF UpgradeGoes, UserMay
    <3>5. Leaving(stack')
      <4> DEFINE fs == <<Callback("finish", r), Point("remove", 0)>>
      <4>1. fs \in Seq(Frame)
        BY FrameTypes DEF Events
      <4>2. Len(fs) = 2 /\ fs[1] = Callback("finish", r) /\ fs[2] = Point("remove", 0)
        OBVIOUS
      <4> HIDE DEF fs
      <4>3. Len(fs \o stack) > 1 /\ (fs \o stack)[1] = fs[1] /\ (fs \o stack)[2] = fs[2]
            /\ fs \o stack \in Seq(Frame)
        <5>1. stack \in Seq(Frame) /\ 1 \in 1 .. Len(fs) /\ 2 \in 1 .. Len(fs)
          BY <1>0, <4>2
        <5>2. \A i \in 1 .. Len(fs) : (fs \o stack)[i] = fs[i]
          BY <4>1, <5>1
        <5>3. Len(fs \o stack) = Len(fs) + Len(stack) /\ Len(stack) \in Nat /\ fs \o stack \in Seq(Frame)
          BY <4>1, <5>1
        <5> QED
          BY <4>2, <5>1, <5>2, <5>3
      <4>4. Head(fs \o stack) = fs[1]
        BY <4>3
      <4> QED
        BY <3>1, <4>2, <4>3, <4>4 DEF Leaving, Callback, Point, fs
    <3>6. Moved
      BY <1>0, <3>1, <3>2, <3>3 DEF Moved, Remains
    <3> QED
      BY <3>2, <3>3, <3>4, <3>5, <3>6 DEF LifeInv
  <2> QED
    BY <2>1, <2>2
<1> QED
    BY <1>5, <1>6, <1>8, <1>9, <1>10, <1>12, <1>13, <1>14, <1>15 DEF User

\* A connection goes through the life that its server knows of: every step of
\* every routine, stream event and call moves it as ConnectionLife allows or not
\* at all.  It never opens again, it starts to stop only while it has requests,
\* and it leaves the server only when its stream is closed or handed over
\* (do_close 303-322, on_shutdown 275-280, graceful_stop 324-333, upgrade 335-353).
\* The hypothesis is needed: upgrade() removes the connection only after the
\* finish callback, which could still close the stream that is the user's.
THEOREM ImplementsLife ==
    ASSUME UpgradeGoes
    PROVE  Spec => Life!Spec
<1>1. Init => LifeInv /\ Life!Init
    BY DEF Init, LifeInv, Life!Init, Phase
<1>2. TypeOK /\ TypeOK' /\ LifeInv /\ [Next]_vars => LifeInv' /\ Life!Next
  <2> SUFFICES ASSUME TypeOK, TypeOK', LifeInv, [Next]_vars PROVE LifeInv' /\ Life!Next
    OBVIOUS
  <2>1. CASE UNCHANGED vars
    BY <2>1, MovedLives DEF vars, Moved, Remains, LifeInv, Leaving
  <2>2. CASE Next
    BY <2>2, StepLives, EventLives, UserLives, MovedLives DEF Next
  <2> QED
    BY <2>1, <2>2
<1> QED
    BY <1>1, <1>2, TypeCorrect, PTL DEF Spec, Life!Spec
=============================================================================
