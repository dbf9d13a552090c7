--------------------- MODULE ServerConnectionWireProofs ---------------------
(***************************************************************************)
(* More proofs about ServerConnection: an idle connection is timed, the     *)
(* responses leave in the order of their requests, and one that announced   *)
(* the end of the connection is the last.  They need to know what lies on   *)
(* the call stack while write_next_response() has the front out of the      *)
(* queue, and the last one the ways in which on_read() could take up a      *)
(* request behind a response that closes the connection.                    *)
(***************************************************************************)
EXTENDS ServerConnectionProofs

-----------------------------------------------------------------------------
(* The stack *)

\* What a sequence of frames on top of a stack is made of.
LEMMA Splice ==
    ASSUME NEW fs \in Seq(Frame), NEW s \in Seq(Frame)
    PROVE  /\ fs \o s \in Seq(Frame) /\ Len(fs \o s) = Len(fs) + Len(s)
           /\ \A i \in 1 .. Len(fs) : (fs \o s)[i] = fs[i]
           /\ \A i \in 1 .. Len(s) : (fs \o s)[i + Len(fs)] = s[i]
           /\ \A i \in 1 .. Len(fs \o s) :
                  i \in 1 .. Len(fs) \/ (i - Len(fs) \in 1 .. Len(s) /\ (fs \o s)[i] = s[i - Len(fs)])
  OBVIOUS

\* What a stack is made of below its top.
LEMMA Below ==
    ASSUME NEW s \in Seq(Frame), s # <<>>
    PROVE  /\ Tail(s) \in Seq(Frame) /\ Len(Tail(s)) = Len(s) - 1 /\ Len(s) \in Nat \ {0}
           /\ \A i \in 1 .. Len(Tail(s)) : i + 1 \in 1 .. Len(s) /\ Tail(s)[i] = s[i + 1]
           /\ s[1] = Head(s)
  OBVIOUS

\* Every drop_requests() on the stack was called by write_next_response().
Over(s) == \A i \in 1 .. Len(s) : s[i].pc = "drop" => i + 1 \in 1 .. Len(s) /\ s[i + 1].pc = "rejoin"

\* Somebody on the stack will look after the idle timer or the queue.
Owes(s) == \E i \in 1 .. Len(s) : s[i].pc \in {"finished", "rejoin"}

\* The frames that are not drop_requests().
NoDrop == {f \in Frame : f.pc # "drop"}

\* Calls of other routines leave drop_requests() over its caller.
LEMMA OverPush ==
    ASSUME NEW s \in Seq(Frame), Over(s), NEW fs \in Seq(NoDrop)
    PROVE  Over(fs \o s)
<1>1. fs \in Seq(Frame) /\ \A i \in 1 .. Len(fs) : fs[i].pc # "drop"
  BY DEF NoDrop
<1> SUFFICES ASSUME NEW i \in 1 .. Len(fs \o s), (fs \o s)[i].pc = "drop"
             PROVE  i + 1 \in 1 .. Len(fs \o s) /\ (fs \o s)[i + 1].pc = "rejoin"
  BY DEF Over
<1> DEFINE j == i - Len(fs)
<1>2. j \in 1 .. Len(s) /\ (fs \o s)[i] = s[j]
  BY <1>1, Splice
<1>3. j + 1 \in 1 .. Len(s) /\ s[j + 1].pc = "rejoin"
  BY <1>2 DEF Over
<1>4. (fs \o s)[j + 1 + Len(fs)] = s[j + 1]
  BY <1>1, <1>3, Splice
<1>5. Len(fs \o s) = Len(fs) + Len(s) /\ Len(fs) \in Nat /\ Len(s) \in Nat /\ j + 1 + Len(fs) = i + 1
  BY <1>1, Splice
<1> QED
  BY <1>3, <1>4, <1>5

\* A return leaves drop_requests() over its caller.
LEMMA OverTail ==
    ASSUME NEW s \in Seq(Frame), s # <<>>, Over(s)
    PROVE  Over(Tail(s))
<1> SUFFICES ASSUME NEW i \in 1 .. Len(Tail(s)), Tail(s)[i].pc = "drop"
             PROVE  i + 1 \in 1 .. Len(Tail(s)) /\ Tail(s)[i + 1].pc = "rejoin"
  BY DEF Over
<1>1. i + 1 \in 1 .. Len(s) /\ s[i + 1].pc = "drop"
  BY Below
<1>2. i + 2 \in 1 .. Len(s) /\ s[i + 2].pc = "rejoin"
  BY <1>1 DEF Over
<1>3. i + 1 \in 1 .. Len(Tail(s))
  BY <1>2, Below
<1> QED
  BY <1>2, <1>3, Below

\* A call keeps what the stack owes.
LEMMA OwesPush ==
    ASSUME NEW s \in Seq(Frame), Owes(s), NEW fs \in Seq(Frame)
    PROVE  Owes(fs \o s)
<1>1. PICK i \in 1 .. Len(s) : s[i].pc \in {"finished", "rejoin"}
  BY DEF Owes
<1>2. i + Len(fs) \in 1 .. Len(fs \o s) /\ (fs \o s)[i + Len(fs)] = s[i]
  BY Splice
<1> QED
  BY <1>1, <1>2 DEF Owes

\* So does the return of a routine that owes nothing.
LEMMA OwesTail ==
    ASSUME NEW s \in Seq(Frame), s # <<>>, Owes(s), Head(s).pc \notin {"finished", "rejoin"}
    PROVE  Owes(Tail(s))
<1>1. PICK i \in 1 .. Len(s) : s[i].pc \in {"finished", "rejoin"}
  BY DEF Owes
<1>2. i # 1
  BY <1>1, Below
<1>3. i - 1 \in 1 .. Len(Tail(s)) /\ Tail(s)[i - 1] = s[i]
  BY <1>2, Below
<1> QED
  BY <1>1, <1>3 DEF Owes

\* A step that calls or returns, but does not call drop_requests().
Quiet ==
    \/ UNCHANGED stack
    \/ \E fs \in Seq(NoDrop) : stack' = fs \o stack
    \/ stack # <<>> /\ \E fs \in Seq(NoDrop) : stack' = fs \o Tail(stack)

\* The points and callbacks other than "drop".
LEMMA NoDropFrames ==
    /\ \A pc \in {"on_read", "finish", "finished", "remove"} : Point(pc, 0) \in NoDrop
    /\ \A pc \in {"deliver", "received", "request_error", "errored", "write", "wrote"},
          r \in Requests : Point(pc, r) \in NoDrop
    /\ \A ev \in Events, r \in Requests : Callback(ev, r) \in NoDrop
    /\ <<>> \in Seq(NoDrop)
  BY FrameTypes DEF NoDrop, Point, Callback

-----------------------------------------------------------------------------
(* An idle connection is timed *)

\* The inductive invariant behind IdleIsTimed.  The queue may be empty and the
\* timer off only in the middle of finish_request(), which checks it at its end,
\* or while the front is to be put back.
TimedInv ==
    /\ stream.mode = "open" => Over(stack) /\ (IdleTimeout => timer # "null")
    /\ fault = "none" /\ IdleTimeout /\ stream.mode = "open" /\ requests = <<>> /\ ~stream.unsent
           => timer = "on" \/ Owes(stack)

\* What a step that makes a quiet move must do to keep TimedInv.
Lasting ==
    /\ stream'.mode = "open" => stream.mode = "open" /\ Quiet
    /\ stream'.mode = "open" /\ timer' = "null" => timer = "null"
    /\ \/ fault' # "none" \/ requests' # <<>> \/ stream'.mode # "open" \/ stream'.unsent
       \/ timer' = "on" \/ timer' = "null" \/ Owes(stack')
       \/ /\ fault = "none" /\ UNCHANGED <<requests, timer>> /\ stream'.unsent = stream.unsent
          /\ stack # <<>> => Top.pc \notin {"finished", "rejoin"}

\* It keeps it.
LEMMA LastingKeeps ==
    ASSUME TypeOK, TimedInv, Lasting
    PROVE  TimedInv'
<1>1. stack \in Seq(Frame)
  BY DEF TypeOK
<1>2. CASE stream'.mode # "open"
  BY <1>2 DEF TimedInv
<1>3. CASE stream'.mode = "open"
  <2>1. stream.mode = "open" /\ Quiet /\ Over(stack) /\ (IdleTimeout => timer' # "null")
    BY <1>3 DEF Lasting, TimedInv
  <2>2. \A fs \in Seq(NoDrop) : fs \in Seq(Frame)
    BY DEF NoDrop
  <2>3. Over(stack')
    <3>1. CASE UNCHANGED stack
      BY <2>1, <3>1
    <3>2. CASE \E fs \in Seq(NoDrop) : stack' = fs \o stack
      BY <1>1, <2>1, <3>2, OverPush
    <3>3. CASE stack # <<>> /\ \E fs \in Seq(NoDrop) : stack' = fs \o Tail(stack)
      BY <1>1, <2>1, <3>3, OverPush, OverTail, Below
    <3> QED
      BY <2>1, <3>1, <3>2, <3>3 DEF Quiet
  <2>4. Owes(stack) /\ (stack # <<>> => Top.pc \notin {"finished", "rejoin"}) => Owes(stack')
    <3> HAVE Owes(stack) /\ (stack # <<>> => Top.pc \notin {"finished", "rejoin"})
    <3>1. CASE UNCHANGED stack
      BY <3>1
    <3>2. CASE \E fs \in Seq(NoDrop) : stack' = fs \o stack
      BY <1>1, <2>2, <3>2, OwesPush
    <3>3. CASE stack # <<>> /\ \E fs \in Seq(NoDrop) : stack' = fs \o Tail(stack)
      BY <1>1, <2>2, <3>3, OwesPush, OwesTail, Below DEF Top
    <3> QED
      BY <2>1, <3>1, <3>2, <3>3 DEF Quiet
  <2>5. fault' = "none" /\ IdleTimeout /\ requests' = <<>> /\ ~stream'.unsent
           => timer' = "on" \/ Owes(stack')
    BY <1>3, <2>1, <2>4 DEF Lasting, TimedInv
  <2>6. Over(stack)' <=> Over(stack')
    BY DEF Over
  <2>7. Owes(stack)' <=> Owes(stack')
    BY DEF Owes
  <2> QED
    BY <2>1, <2>3, <2>5, <2>6, <2>7 DEF TimedInv
<1> QED
  BY <1>2, <1>3

\* respond() is quiet and needs a queue.
LEMMA RespondLasting ==
    ASSUME TypeOK, NEW r \in Requests, NEW ka, NEW whole, NEW rest, respond(r, ka, whole, rest)
    PROVE  /\ UNCHANGED <<requests, timer, stream>>
           /\ fault' # "none" \/ requests # <<>>
           /\ UNCHANGED stack \/ \E fs \in Seq(NoDrop) : stack' = fs \o rest \/ stack' = rest
<1>1. UNCHANGED <<requests, timer, stream>> /\ (fault' # "none" \/ requests # <<>>)
  BY DEF respond, Abort
<1>2. stack' \in {stack, rest, <<Point("write", r)>> \o rest}
  BY DEF respond, Abort
<1>3. <<Point("write", r)>> \in Seq(NoDrop)
  BY NoDropFrames
<1> QED
  BY <1>1, <1>2, <1>3

\* The routines that go on by themselves: on_read, and the ends of
\* write_next_response() and finish_request(), keep TimedInv.
LEMMA StepTimed ==
    ASSUME TypeOK, TimedInv, Step
    PROVE  TimedInv'
<1>0. stack \in Seq(Frame) /\ stream \in Stream /\ (stack # <<>> => Tail(stack) = <<>> \o Tail(stack))
  BY DEF TypeOK
<1> USE DEF Goto, At, flags, input
<1>1. ASSUME NEW result, NEW shape \in Shapes, Parse(result, shape)
      PROVE  TimedInv'
  <2> DEFINE r == IF parsing # 0 THEN parsing ELSE arrived + 1
  <2>0. MoreInput /\ StopTimer /\ requests' = Emplace(r) /\ UNCHANGED stream
    BY <1>1, Zenon DEF Parse
  <2>1. r \in Requests
    BY <2>0, BoundsAssumption DEF MoreInput, TypeOK, Requests
  <2>2. /\ stack # <<>>
        /\ \E fs \in {<<>>, <<Point("request_error", r)>>,
                      <<Callback("route", r), Point("deliver", r)>>, <<Point("deliver", r)>>} :
               stack' = fs \o Tail(stack)
    BY <1>1 DEF Parse
  <2>3. requests' # <<>> /\ UNCHANGED stream /\ (timer' = "null" => timer = "null")
    <3>1. requests \in Seq(Requests) /\ timer \in {"null", "off", "on"}
      BY DEF TypeOK
    <3> HIDE DEF r
    <3>2. Emplace(r) # <<>>
      BY <2>1, <3>1 DEF Emplace
    <3> QED
      BY <2>0, <3>1, <3>2 DEF StopTimer
  <2> HIDE DEF r
  <2>4. /\ <<>> \in Seq(NoDrop) /\ <<Point("request_error", r)>> \in Seq(NoDrop)
        /\ <<Callback("route", r), Point("deliver", r)>> \in Seq(NoDrop)
        /\ <<Point("deliver", r)>> \in Seq(NoDrop)
    BY <2>1, NoDropFrames DEF Events
  <2>5. Lasting
    BY <2>2, <2>3, <2>4 DEF Lasting, Quiet
  <2> QED
    BY <2>5, LastingKeeps
<1>2. CASE Deliver
  <2>1. Top.r \in Requests /\ stack # <<>> /\ Top.pc = "deliver"
    BY <1>2, TopRequest DEF Deliver
  <2>2. \E fs \in {<<Callback("partial", Top.r), Point("received", Top.r)>>,
                   <<Callback("receive", Top.r), Callback("request", Top.r), Point("received", Top.r)>>,
                   <<Point("received", Top.r)>>} : stack' = fs \o Tail(stack)
    BY <1>2 DEF Deliver
  <2>3. /\ <<Callback("partial", Top.r), Point("received", Top.r)>> \in Seq(NoDrop)
        /\ <<Callback("receive", Top.r), Callback("request", Top.r), Point("received", Top.r)>> \in Seq(NoDrop)
        /\ <<Point("received", Top.r)>> \in Seq(NoDrop)
    BY <2>1, NoDropFrames DEF Events
  <2>4. UNCHANGED <<requests, timer, stream>> /\ fault = "none"
    BY <1>2 DEF Deliver
  <2>5. Lasting
    BY <2>1, <2>2, <2>3, <2>4 DEF Lasting, Quiet
  <2> QED
    BY <2>5, LastingKeeps
<1>3. ASSUME NEW more \in BOOLEAN, Received(more)
      PROVE  TimedInv'
  <2> DEFINE next == IF more THEN <<Point("on_read", 0)>> ELSE <<>>
  <2>1. /\ stack # <<>> /\ Top.pc = "received"
        /\ \E fs \in {<<>>, <<Point("finish", 0)>> \o next, next} : stack' = fs \o Tail(stack)
    BY <1>3 DEF Received
  <2>2. next \in Seq(NoDrop) /\ <<Point("finish", 0)>> \in Seq(NoDrop) /\ <<>> \in Seq(NoDrop)
    BY NoDropFrames
  <2> HIDE DEF next
  <2>3. <<Point("finish", 0)>> \o next \in Seq(NoDrop)
    BY <2>2
  <2>4. /\ UNCHANGED <<requests, timer>> /\ fault = "none"
        /\ stream'.mode = stream.mode /\ stream'.unsent = stream.unsent
    BY <1>0, <1>3 DEF Received, Stream
  <2>5. Lasting
    BY <2>1, <2>2, <2>3, <2>4 DEF Lasting, Quiet
  <2> QED
    BY <2>5, LastingKeeps
<1>4. CASE RequestError
  <2> DEFINE cb(ev) == <<Callback(ev, Top.r), Point("errored", Top.r)>>
  <2>1. Top.r \in Requests /\ stack # <<>> /\ Top.pc = "request_error"
    BY <1>4, TopRequest DEF RequestError
  <2>2. \E fs \in {cb("partial_error"), cb("error")} : stack' = fs \o Tail(stack)
    BY <1>4 DEF RequestError
  <2>3. cb("partial_error") \in Seq(NoDrop) /\ cb("error") \in Seq(NoDrop)
    BY <2>1, NoDropFrames DEF Events
  <2> HIDE DEF cb
  <2>4. /\ UNCHANGED <<requests, timer>> /\ fault = "none"
        /\ stream'.mode = stream.mode /\ stream'.unsent = stream.unsent
    BY <1>0, <1>4 DEF RequestError, Stream
  <2>5. Lasting
    BY <2>1, <2>2, <2>3, <2>4 DEF Lasting, Quiet
  <2> QED
    BY <2>5, LastingKeeps
<1>5. CASE Errored
  <2>1. Top.r \in Requests /\ stack # <<>> /\ Top.pc = "errored" /\ fault = "none"
    BY <1>5, TopRequest DEF Errored
  <2>2. CASE respond(Top.r, FALSE, TRUE, Tail(stack))
    <3>1. /\ UNCHANGED <<requests, timer, stream>>
          /\ fault' # "none" \/ requests # <<>>
          /\ \/ UNCHANGED stack
             \/ \E fs \in Seq(NoDrop) : stack' = fs \o Tail(stack) \/ stack' = Tail(stack)
      BY <2>1, <2>2, RespondLasting
    <3>2. Lasting
      BY <1>0, <2>1, <3>1, NoDropFrames DEF Lasting, Quiet
    <3> QED
      BY <3>2, LastingKeeps
  <2>3. CASE stack' = <<>> \o Tail(stack) /\ UNCHANGED <<requests, timer, stream, fault>>
    <3>1. Lasting
      BY <2>1, <2>3, NoDropFrames DEF Lasting, Quiet
    <3> QED
      BY <3>1, LastingKeeps
  <2> QED
    BY <1>5, <2>2, <2>3 DEF Errored
<1>6. CASE WriteNextResponse
  <2> DEFINE kept == IF res[Top.r].st = "open" THEN res[Top.r].parts ELSE <<>>
             then(pc) == [pc |-> pc, r |-> Top.r, ev |-> "-", tmp |-> kept]
  <2>1. Top.r \in Requests /\ stack # <<>>
    BY <1>6, TopRequest DEF WriteNextResponse
  <2>2. kept \in Seq(ChunkNumbers)
    BY <2>1 DEF TypeOK, ServerResponse
  <2>3. /\ stream'.mode = stream.mode /\ (stream'.mode = "open" => stream'.unsent)
        /\ UNCHANGED timer
    BY <1>0, <1>6 DEF WriteNextResponse, Stream
  <2>4. stack' = <<Point("drop", 0), then("rejoin")>> \o Tail(stack)
        \/ stack' = <<then("wrote")>> \o Tail(stack)
    BY <1>6 DEF WriteNextResponse
  <2> HIDE DEF kept
  <2>5. then("rejoin") \in NoDrop /\ then("wrote") \in NoDrop /\ then("rejoin").pc = "rejoin"
        /\ then("rejoin") \in Frame
    BY <2>1, <2>2 DEF Frame, NoDrop
  <2> HIDE DEF then
  <2>6. stream.mode = "open" => Over(stack')
    <3> HAVE stream.mode = "open"
    <3>1. Over(Tail(stack)) /\ Tail(stack) \in Seq(Frame)
      BY <1>0, <2>1, OverTail, Below DEF TimedInv
    <3>2. CASE stack' = <<then("wrote")>> \o Tail(stack)
      <4>1. <<then("wrote")>> \in Seq(NoDrop)
        BY <2>5
      <4> QED
        BY <3>1, <3>2, <4>1, OverPush
    <3>3. CASE stack' = <<Point("drop", 0), then("rejoin")>> \o Tail(stack)
      <4> DEFINE t == <<then("rejoin")>> \o Tail(stack)
      <4>1. <<then("rejoin")>> \in Seq(NoDrop)
        BY <2>5
      <4>2. Over(t) /\ t \in Seq(Frame) /\ t # <<>> /\ t[1].pc = "rejoin"
        <5>1. <<then("rejoin")>> \in Seq(Frame) /\ Len(<<then("rejoin")>>) = 1
          BY <2>5
        <5>2. t \in Seq(Frame) /\ Len(t) = 1 + Len(Tail(stack)) /\ t[1] = then("rejoin")
          BY <3>1, <5>1, Splice
        <5>3. Over(t)
          BY <3>1, <4>1, OverPush
        <5> QED
          BY <2>5, <3>1, <5>2, <5>3
      <4>3. stack' = <<Point("drop", 0)>> \o t
        BY <2>5, <3>1, <3>3, FrameTypes
      <4> HIDE DEF t
      <4>4. <<Point("drop", 0)>> \in Seq(Frame) /\ Len(<<Point("drop", 0)>>) = 1
        BY FrameTypes
      <4>5. /\ Len(stack') = 1 + Len(t) /\ Len(t) \in Nat \ {0}
            /\ \A i \in 1 .. Len(t) : stack'[i + 1] = t[i]
        BY <4>2, <4>3, <4>4, Splice
      <4> SUFFICES ASSUME NEW i \in 1 .. Len(stack'), stack'[i].pc = "drop"
                   PROVE  i + 1 \in 1 .. Len(stack') /\ stack'[i + 1].pc = "rejoin"
        BY DEF Over
      <4>6. CASE i = 1
        BY <4>2, <4>5, <4>6
      <4>7. CASE i # 1
        <5>1. i - 1 \in 1 .. Len(t) /\ stack'[i] = t[i - 1]
          BY <4>5, <4>7
        <5>2. i \in 1 .. Len(t) /\ t[i].pc = "rejoin"
          BY <4>2, <5>1 DEF Over
        <5> QED
          BY <4>5, <5>2
      <4> QED
        BY <4>6, <4>7
    <3> QED
      BY <2>4, <3>2, <3>3
  <2>7. Over(stack)' <=> Over(stack')
    BY DEF Over
  <2> QED
    BY <2>3, <2>6, <2>7 DEF TimedInv
<1>7. CASE Rejoin
  <2>1. stack # <<>> /\ Top \in Frame /\ Top.pc = "rejoin"
    BY <1>0, <1>7 DEF Rejoin, Top
  <2>2. [Top EXCEPT !.pc = "wrote"] \in NoDrop
    BY <2>1 DEF Frame, NoDrop
  <2>3. <<[Top EXCEPT !.pc = "wrote"]>> \in Seq(NoDrop)
    BY <2>2
  <2>4. /\ stack' = <<[Top EXCEPT !.pc = "wrote"]>> \o Tail(stack)
        /\ UNCHANGED <<timer, stream>> /\ requests' = <<Top.r>> \o requests
    BY <1>7 DEF Rejoin
  <2>5. requests' # <<>>
    BY <2>4 DEF TypeOK
  <2>6. Lasting
    BY <2>1, <2>3, <2>4, <2>5 DEF Lasting, Quiet
  <2> QED
    BY <2>6, LastingKeeps
<1>8. CASE Wrote
  <2>1. /\ stack # <<>> /\ Top.pc = "wrote" /\ fault = "none"
        /\ \E fs \in {<<>>, <<Point("finish", 0)>>} : stack' = fs \o Tail(stack)
    BY <1>8 DEF Wrote
  <2>2. <<Point("finish", 0)>> \in Seq(NoDrop)
    BY NoDropFrames
  <2>3. /\ UNCHANGED <<requests, timer, fault>> /\ stream'.mode = stream.mode
        /\ stream'.unsent = stream.unsent \/ stream'.unsent
    BY <1>0, <1>8 DEF Wrote, Write, Stream
  <2>4. Lasting
    BY <2>1, <2>2, <2>3, NoDropFrames DEF Lasting, Quiet
  <2> QED
    BY <2>4, LastingKeeps
<1>9. CASE FinishRequest
  <2> DEFINE fs == <<Callback("finish", Head(requests)), Point("finished", 0)>>
  <2>1. /\ stack # <<>> /\ Top.pc = "finish" /\ fault = "none"
        /\ UNCHANGED <<timer, stream>>
        /\ \/ UNCHANGED stack /\ fault' # "none"
           \/ stack' = <<>> \o Tail(stack) /\ UNCHANGED requests
           \/ requests # <<>> /\ stack' = fs \o Tail(stack)
    BY <1>9 DEF FinishRequest, Abort
  <2>2. requests # <<>> => fs \in Seq(NoDrop) /\ fs \in Seq(Frame) /\ Len(fs) = 2
                           /\ fs[2].pc = "finished"
    BY HeadType, NoDropFrames, FrameTypes DEF Events, Point
  <2> HIDE DEF fs
  <2>3. requests # <<>> /\ stack' = fs \o Tail(stack) => Owes(stack')
    <3> HAVE requests # <<>> /\ stack' = fs \o Tail(stack)
    <3>1. 2 \in 1 .. Len(stack') /\ stack'[2] = fs[2]
      <4>1. Tail(stack) \in Seq(Frame)
        BY <1>0, <2>1, Below
      <4>2. /\ Len(stack') = Len(fs) + Len(Tail(stack)) /\ Len(Tail(stack)) \in Nat
            /\ \A i \in 1 .. Len(fs) : stack'[i] = fs[i]
        BY <2>2, <4>1, Splice
      <4>3. Len(fs) = 2
        BY <2>2
      <4>4. 2 \in 1 .. Len(stack')
        BY <4>2, <4>3
      <4> QED
        BY <4>2, <4>3, <4>4
    <3> QED
      BY <2>2, <3>1 DEF Owes
  <2>4. Lasting
    BY <2>1, <2>2, <2>3, NoDropFrames DEF Lasting, Quiet
  <2> QED
    BY <2>4, LastingKeeps
<1>10. CASE Finished
  <2> DEFINE fs == <<Point("write", Head(requests))>>
  <2>1. stack # <<>> /\ fault = "none"
    BY <1>10 DEF Finished
  <2>2. requests # <<>> => fs \in Seq(NoDrop)
    BY HeadType, NoDropFrames
  <2>3. CASE Abort("finish: not last")
    BY <2>3, LastingKeeps DEF Abort, Lasting, Quiet
  <2>4. CASE SoftClose
    <3>1. stream'.mode # "open"
      BY <1>0, <2>4 DEF SoftClose, Stream
    <3> QED
      BY <3>1 DEF TimedInv
  <2>5. CASE /\ requests # <<>> /\ UNCHANGED <<requests, timer, stream>>
             /\ stack' = fs \o Tail(stack) \/ stack' = <<>> \o Tail(stack)
    <3> HIDE DEF fs
    <3>1. Lasting
      BY <2>1, <2>2, <2>5, NoDropFrames DEF Lasting, Quiet
    <3> QED
      BY <3>1, LastingKeeps
  <2>6. CASE requests = <<>> /\ check_if_idle(stream.unsent) /\ stack' = <<>> \o Tail(stack)
             /\ UNCHANGED <<requests, stream>>
    <3>1. timer' = "null" => timer = "null"
      BY <2>6 DEF check_if_idle
    <3>2. fault' # "none" \/ stream'.unsent \/ timer' = "on" \/ timer' = "null"
      BY <2>6 DEF check_if_idle, TypeOK
    <3>3. Lasting
      BY <2>1, <2>6, <3>1, <3>2, NoDropFrames DEF Lasting, Quiet
    <3> QED
      BY <3>3, LastingKeeps
  <2> QED
    BY <1>10, <2>3, <2>4, <2>5, <2>6 DEF Finished
<1>11. CASE DropRequests
  <2>1. stack # <<>> /\ Top.pc = "drop" /\ UNCHANGED <<timer, stream>> /\ Tail(stack) \in Seq(Frame)
    <3>1. stack # <<>> /\ Top.pc = "drop" /\ UNCHANGED <<timer, stream>>
      BY <1>11, Zenon DEF DropRequests
    <3> QED
      BY <1>0, <3>1
  <2>2. CASE stream.mode # "open"
    BY <2>1, <2>2 DEF TimedInv
  <2>3. CASE stream.mode = "open"
    <3>1. Over(stack) /\ Over(Tail(stack))
      BY <1>0, <2>1, <2>3, OverTail DEF TimedInv
    <3>2. 2 \in 1 .. Len(stack) /\ stack[2].pc = "rejoin"
      BY <1>0, <2>1, <3>1, Below DEF Over, Top
    <3>3. Owes(Tail(stack))
      <4>1. 1 \in 1 .. Len(Tail(stack)) /\ Tail(stack)[1] = stack[2]
        BY <1>0, <2>1, <3>2, Below
      <4> QED
        BY <3>2, <4>1 DEF Owes
    <3>4. \E fs \in Seq(NoDrop) : stack' = fs \o stack \/ stack' = fs \o Tail(stack)
      <4>1. CASE stack' = <<>> \o Tail(stack)
        BY <4>1, NoDropFrames
      <4>2. CASE requests # <<>>
                 /\ \E why \in {<<Callback("partial_error", Head(requests))>>, <<Callback("error", Head(requests))>>,
                                <<Callback("drop", Head(requests))>>, <<>>} :
                        stack' = (<<Callback("finish", Head(requests))>> \o why \o <<Point("drop", 0)>>) \o Tail(stack)
        <5> DEFINE r == Head(requests)
        <5>1. r \in Requests
          BY <4>2, HeadType
        <5> HIDE DEF r
        <5>2. /\ <<Callback("finish", r)>> \in Seq(NoDrop)
              /\ <<Callback("partial_error", r)>> \in Seq(NoDrop)
              /\ <<Callback("error", r)>> \in Seq(NoDrop)
              /\ <<Callback("drop", r)>> \in Seq(NoDrop) /\ <<>> \in Seq(NoDrop)
          BY <5>1, NoDropFrames DEF Events
        <5>3. PICK why \in Seq(NoDrop) :
                  stack' = (<<Callback("finish", r)>> \o why \o <<Point("drop", 0)>>) \o Tail(stack)
          BY <4>2, <5>2 DEF r
        <5>4. stack = <<Point("drop", 0)>> \o Tail(stack)
          <6>1. Top = Point("drop", 0)
            BY <1>0, <2>1 DEF Top, Frame, Point
          <6> QED
            BY <1>0, <2>1, <6>1 DEF Top
        <5> DEFINE fs == <<Callback("finish", r)>> \o why
        <5>5. fs \in Seq(NoDrop)
          BY <5>2
        <5>6. fs \in Seq(Frame) /\ <<Point("drop", 0)>> \in Seq(Frame)
          BY <5>5, FrameTypes DEF NoDrop
        <5> HIDE DEF fs
        <5>7. (fs \o <<Point("drop", 0)>>) \o Tail(stack) = fs \o (<<Point("drop", 0)>> \o Tail(stack))
          BY <2>1, <5>6
        <5>8. stack' = fs \o stack
          BY <5>3, <5>4, <5>7 DEF fs
        <5> QED
          BY <5>5, <5>8
      <4> QED
        BY <1>11, <4>1, <4>2 DEF DropRequests
    <3>5. PICK fs \in Seq(NoDrop) : stack' = fs \o stack \/ stack' = fs \o Tail(stack)
      BY <3>4
    <3>6. Over(stack') /\ Owes(stack')
      <4>1. fs \in Seq(Frame)
        BY DEF NoDrop
      <4>2. Owes(stack)
        BY <3>2 DEF Owes
      <4> QED
        BY <1>0, <2>1, <3>1, <3>3, <3>5, <4>1, <4>2, OverPush, OwesPush
    <3>7. (Over(stack)' <=> Over(stack')) /\ (Owes(stack)' <=> Owes(stack'))
      BY DEF Over, Owes
    <3> QED
      BY <2>1, <2>3, <3>6, <3>7 DEF TimedInv
  <2> QED
    BY <2>2, <2>3
<1>12. CASE RemoveConnection \/ Return
  <2>1. /\ stack # <<>> /\ Top.pc \in {"remove", "callback"} /\ fault = "none"
        /\ stack' = <<>> \o Tail(stack) /\ UNCHANGED <<requests, timer, stream, fault>>
    BY <1>12 DEF RemoveConnection, Return
  <2>2. Lasting
    BY <2>1, NoDropFrames DEF Lasting, Quiet
  <2> QED
    BY <2>2, LastingKeeps
<1> QED
  BY <1>1, <1>2, <1>3, <1>4, <1>5, <1>6, <1>7, <1>8, <1>9, <1>10, <1>11, <1>12 DEF Step

\* The stream's events and the timer.
LEMMA EventTimed ==
    ASSUME TypeOK, TimedInv, Event
    PROVE  TimedInv'
<1>0. stack \in Seq(Frame) /\ stream \in Stream
  BY DEF TypeOK
<1> USE DEF Loop, flags, input
<1>1. CASE OnRead
  <2>1. <<Point("on_read", 0)>> \in Seq(NoDrop) /\ stack' = <<Point("on_read", 0)>> \o stack
    BY <1>1, NoDropFrames DEF OnRead
  <2>2. Lasting
    BY <1>1, <2>1 DEF OnRead, Lasting, Quiet
  <2> QED
    BY <2>2, LastingKeeps
<1>2. CASE OnReadError
  <2> DEFINE fresh == requests = <<>> \/ req[Last(requests)].done
             r == IF fresh THEN arrived + 1 ELSE Last(requests)
  <2>1. r \in Requests
    BY <1>2, ErrorRequest
  <2>2. /\ stack' = <<Point("request_error", r)>> /\ stack = <<>> /\ UNCHANGED stream
        /\ (timer' = "null" => timer = "null")
    BY <1>2 DEF OnReadError, StopTimer
  <2>3. requests' # <<>>
    <3>1. requests \in Seq(Requests) /\ (requests' = Append(requests, r) \/ (~fresh /\ requests' = requests))
      BY <1>2 DEF OnReadError, TypeOK
    <3> HIDE DEF r
    <3> QED
      BY <2>1, <3>1
  <2> HIDE DEF r
  <2>4. <<Point("request_error", r)>> \in Seq(NoDrop)
    BY <2>1, NoDropFrames
  <2>5. stack' = <<Point("request_error", r)>> \o stack
    BY <2>2, <2>4 DEF NoDrop
  <2>6. Lasting
    BY <2>2, <2>3, <2>4, <2>5 DEF Lasting, Quiet
  <2> QED
    BY <2>6, LastingKeeps
<1>3. CASE OnWrite
  <2>1. /\ UNCHANGED <<stack, requests>> /\ check_if_idle(FALSE) /\ stream'.mode = stream.mode
    BY <1>0, <1>3 DEF OnWrite, Stream
  <2>2. /\ timer' = "null" => timer = "null"
        /\ fault' # "none" \/ requests' # <<>> \/ timer' = "on" \/ timer' = "null"
    BY <2>1 DEF check_if_idle, TypeOK
  <2>3. Lasting
    BY <2>1, <2>2 DEF Lasting, Quiet
  <2> QED
    BY <2>3, LastingKeeps
<1>4. CASE OnIdleTimer /\ Abort("idle timer: busy")
  BY <1>4, LastingKeeps DEF Abort, Lasting, Quiet
<1>5. CASE OnConnectionError \/ OnWriteError \/ OnShutdown \/ OnEof
           \/ (OnIdleTimer /\ ~Abort("idle timer: busy"))
  <2>1. stream'.mode # "open"
    BY <1>0, <1>5 DEF OnConnectionError, OnWriteError, OnShutdown, OnEof, OnIdleTimer, HardClose, Stream
  <2> QED
    BY <2>1 DEF TimedInv
<1> QED
  BY <1>1, <1>2, <1>3, <1>4, <1>5 DEF Event

\* The user's calls.
LEMMA UserTimed ==
    ASSUME TypeOK, TimedInv, User
    PROVE  TimedInv'
<1>0. stack \in Seq(Frame) /\ stream \in Stream /\ stack = <<>> \o stack
  BY DEF TypeOK
<1>1. fault = "none" /\ (stack # <<>> => Top.pc = "callback")
  BY DEF User, Respond, EnablePartial, SendContinue, SendChunk, SendFinalChunk, Drop, Upgrade,
         CloseConnection, GracefulStop, UserMay
<1> USE DEF flags, input
<1>2. ASSUME NEW r \in Requests, NEW ka, NEW whole, Respond(r, ka, whole)
      PROVE  TimedInv'
  <2>1. /\ UNCHANGED <<requests, timer, stream>>
        /\ fault' # "none" \/ requests # <<>>
        /\ UNCHANGED stack \/ \E fs \in Seq(NoDrop) : stack' = fs \o stack \/ stack' = stack
    BY <1>2, RespondLasting DEF Respond
  <2>2. Lasting
    BY <2>1 DEF Lasting, Quiet
  <2> QED
    BY <2>2, LastingKeeps
<1>3. ASSUME NEW r \in Requests, EnablePartial(r)
      PROVE  TimedInv'
  <2>1. Lasting
    BY <1>1, <1>3 DEF EnablePartial, Lasting, Quiet
  <2> QED
    BY <2>1, LastingKeeps
<1>4. ASSUME NEW r \in Requests, SendContinue(r) \/ SendChunk(r) \/ SendFinalChunk(r)
      PROVE  TimedInv'
  <2>1. /\ UNCHANGED <<requests, timer>> /\ stream'.mode = stream.mode
        /\ fault' # "none" \/ requests # <<>>
    BY <1>0, <1>4 DEF SendContinue, SendChunk, SendFinalChunk, Abort, Write, Stream
  <2>2. UNCHANGED stack \/ stack' = <<Point("finish", 0)>> \o stack
    BY <1>4 DEF SendContinue, SendChunk, SendFinalChunk, Abort
  <2>3. <<Point("finish", 0)>> \in Seq(NoDrop)
    BY NoDropFrames
  <2>4. Lasting
    BY <2>1, <2>2, <2>3 DEF Lasting, Quiet
  <2> QED
    BY <2>4, LastingKeeps
<1>5. ASSUME NEW r \in Requests, Upgrade(r), Abort("upgrade: should not happen")
      PROVE  TimedInv'
  BY <1>5, LastingKeeps DEF Abort, Lasting, Quiet
<1>6. CASE \/ \E r \in Requests : Drop(r) \/ (Upgrade(r) /\ ~Abort("upgrade: should not happen"))
           \/ CloseConnection
  <2>1. stream'.mode # "open"
    BY <1>0, <1>6 DEF Drop, Upgrade, CloseConnection, HardClose, Stream
  <2> QED
    BY <2>1 DEF TimedInv
<1>7. CASE GracefulStop
  <2>1. CASE requests = <<>>
    <3>1. stream'.mode # "open"
      BY <1>0, <1>7, <2>1 DEF GracefulStop, SoftClose, Stream
    <3> QED
      BY <3>1 DEF TimedInv
  <2>2. CASE requests # <<>>
    BY <1>7, <2>2, LastingKeeps DEF GracefulStop, Lasting, Quiet
  <2> QED
    BY <2>1, <2>2
<1> QED
  BY <1>2, <1>3, <1>4, <1>5, <1>6, <1>7 DEF User

\* Between events a connection with an idle timeout that has nothing to receive,
\* to answer or to write is timed, so a silent peer cannot keep it for ever:
\* whatever is called from which callback, and also after write_next_response()
\* had the queue empty in between (check_if_idle 258-262, on_write 272).
THEOREM IdleAlwaysTimed == Spec => []IdleIsTimed
<1>1. Init => TimedInv
  BY DEF Init, TimedInv, Over
<1>2. TypeOK /\ TimedInv /\ [Next]_vars => TimedInv'
  <2>1. ASSUME TimedInv, UNCHANGED vars PROVE TimedInv'
    BY <2>1 DEF vars, TimedInv, Over, Owes
  <2> QED
    BY <2>1, StepTimed, EventTimed, UserTimed DEF Next
<1>3. TimedInv => IdleIsTimed
  BY DEF TimedInv, IdleIsTimed, Loop, Owes
<1> QED
  BY <1>1, <1>2, <1>3, TypeCorrect, PTL DEF Spec

-----------------------------------------------------------------------------
(* The order of the responses.  The queue is in the order of arrival, and     *)
(* only its front is ever written; the exception is the time in which         *)
(* write_next_response() drops what is behind a last response: the front is   *)
(* out of the queue then and the next request looks like it.  Nothing is      *)
(* written then if callbacks only deal with their own request: the ones that  *)
(* are made then are for requests that were taken off the connection.         *)

\* The queue is in the order of arrival.
Sorted ==
    /\ \A i, j \in 1 .. Len(requests) : i < j => requests[i] < requests[j]
    /\ \A i \in 1 .. Len(requests) : requests[i] <= arrived

\* Nothing on the wire w is of a request after m.
Reaching(w, m) == \A k \in 1 .. Len(w) : w[k].r <= m

\* Nothing on the wire is ahead of a request in the queue.
Reached == Reaching(wire, arrived) /\ \A i \in 1 .. Len(requests) : Reaching(wire, requests[i])

\* on_read() will not go on.
InRead == {"on_read", "deliver", "received"}
NoInput ==
    /\ \A i \in 1 .. Len(stack) : stack[i].pc \notin InRead
    /\ ~stream.reading \/ (Len(stack) = 1 /\ stack[1].pc = "request_error")

\* The parser is in the middle of the latest request, if of any: only a read
\* error makes a later one, and ends the reading.
Parsed == parsing \in {0, arrived} \/ NoInput

\* Only the front is being written.
WriteTop ==
    \A i \in 1 .. Len(stack) :
        stack[i].pc \in {"write", "wrote"} => i = 1 /\ requests # <<>> /\ Head(requests) = stack[i].r

\* A frame in which nothing is answered, the requests being q.
Shielded(q, f) == f.pc \in {"drop", "remove"} \/ (f.pc = "callback" /\ ~q[f.r].conn)

\* While the front r is to be put back, everything called since then is shielded.
Rejoins ==
    \A k \in 1 .. Len(stack) : stack[k].pc = "rejoin" =>
        /\ \A i \in 1 .. k - 1 : Shielded(req, stack[i])
        /\ Reaching(wire, stack[k].r) /\ stack[k].r <= arrived
        /\ \A i \in 1 .. Len(requests) : stack[k].r < requests[i]

\* The inductive invariant behind WireInOrder.
OrderInv == Sorted /\ Reached /\ Parsed /\ WriteTop /\ Rejoins /\ WireInOrder

\* The queue without its front.
LEMMA QueueTail ==
    ASSUME NEW q \in Seq(Requests), q # <<>>
    PROVE  /\ Tail(q) \in Seq(Requests) /\ Len(Tail(q)) = Len(q) - 1 /\ Len(q) \in Nat \ {0}
           /\ \A i \in 1 .. Len(Tail(q)) : i + 1 \in 1 .. Len(q) /\ Tail(q)[i] = q[i + 1]
           /\ Head(q) = q[1] /\ q[1] \in Requests
  OBVIOUS

\* Taking the front out keeps the order.
LEMMA TailSorted ==
    ASSUME TypeOK, Sorted, Reached, requests # <<>>, requests' = Tail(requests),
           arrived' = arrived, wire' = wire
    PROVE  Sorted' /\ Reached'
<1>1. requests \in Seq(Requests)
  BY DEF TypeOK
<1>2. /\ Len(requests') = Len(requests) - 1 /\ Len(requests) \in Nat \ {0}
      /\ \A i \in 1 .. Len(requests') : i + 1 \in 1 .. Len(requests) /\ requests'[i] = requests[i + 1]
  BY <1>1, QueueTail
<1>3. Sorted'
  BY <1>2 DEF Sorted
<1>4. Reached'
  BY <1>2 DEF Reached, Reaching
<1> QED
  BY <1>3, <1>4

\* A step that leaves the queue and the wire alone keeps the order.
LEMMA SameSorted ==
    ASSUME Sorted, Reached, UNCHANGED <<requests, arrived, wire>>
    PROVE  Sorted' /\ Reached' /\ (WireInOrder => WireInOrder')
  BY DEF Sorted, Reached, Reaching, WireInOrder

\* What is written for request r.
Of(r) == {i \in Item : i.r = r}

\* Writing for the front keeps the order.
LEMMA FrontWritten ==
    ASSUME TypeOK, Sorted, Reached, WireInOrder, requests # <<>>,
           NEW items \in Seq(Of(Head(requests))), wire' = wire \o items
    PROVE  WireInOrder' /\ \A k \in 1 .. Len(wire') : wire'[k].r <= Head(requests)
<1> DEFINE r == Head(requests)
<1>1. requests \in Seq(Requests) /\ wire \in Seq(Item)
  BY DEF TypeOK
<1>2. requests[1] = r /\ r \in Int /\ \A k \in 1 .. Len(wire) : wire[k].r \in Int
  <2>1. Requests \subseteq Int
    BY BoundsAssumption DEF Requests
  <2>2. requests[1] = r /\ r \in Requests
    BY <1>1, QueueTail
  <2>3. \A k \in 1 .. Len(wire) : wire[k] \in Item
    BY <1>1
  <2> QED
    BY <2>1, <2>2, <2>3 DEF Item
<1>3. \A k \in 1 .. Len(wire) : wire[k].r <= r
  BY <1>1, <1>2, QueueTail DEF Reached, Reaching
<1> HIDE DEF r
<1>4. /\ DOMAIN wire' = 1 .. Len(wire') /\ Len(wire') = Len(wire) + Len(items)
      /\ Len(wire) \in Nat /\ Len(items) \in Nat /\ DOMAIN wire = 1 .. Len(wire)
      /\ \A k \in 1 .. Len(wire) : wire'[k] = wire[k]
      /\ \A k \in 1 .. Len(wire') : k \notin 1 .. Len(wire) =>
             k - Len(wire) \in 1 .. Len(items) /\ wire'[k] = items[k - Len(wire)]
  <2>1. items \in Seq(Item)
    BY DEF Of
  <2> QED
    BY <1>1, <2>1
<1>5. \A k \in 1 .. Len(wire') : k \notin 1 .. Len(wire) => wire'[k].r = r
  <2>1. \A i \in 1 .. Len(items) : items[i].r = r
    BY DEF r, Of
  <2> QED
    BY <1>4, <2>1
<1>6. \A k \in 1 .. Len(wire') : wire'[k].r <= r
  BY <1>2, <1>3, <1>4, <1>5
<1>7. WireInOrder'
  <2> SUFFICES ASSUME NEW i \in 1 .. Len(wire'), NEW j \in 1 .. Len(wire'), i < j
               PROVE  wire'[i].r <= wire'[j].r
    BY <1>4 DEF WireInOrder
  <2>1. CASE j \in 1 .. Len(wire)
    <3>1. i \in 1 .. Len(wire)
      BY <1>4, <2>1
    <3> QED
      BY <1>4, <2>1, <3>1 DEF WireInOrder
  <2>2. CASE j \notin 1 .. Len(wire)
    BY <1>5, <1>6, <2>2
  <2> QED
    BY <2>1, <2>2
<1> QED
  BY <1>6, <1>7 DEF r

\* What the front has reached is not ahead of the queue.
LEMMA FrontReached ==
    ASSUME TypeOK, Sorted, requests # <<>>, requests' \in {requests, Tail(requests)}, arrived' = arrived,
           \A k \in 1 .. Len(wire') : wire'[k].r <= Head(requests),
           \A k \in 1 .. Len(wire') : wire'[k].r \in Int
    PROVE  /\ Sorted' /\ Reached'
           /\ requests' = Tail(requests) => \A i \in 1 .. Len(requests') : Head(requests) < requests'[i]
<1> DEFINE r == Head(requests)
<1>1. requests \in Seq(Requests) /\ arrived \in Int
  BY DEF TypeOK
<1>2. Requests \subseteq Int
  BY BoundsAssumption DEF Requests
<1>3. /\ r = requests[1] /\ 1 \in 1 .. Len(requests) /\ \A i \in 1 .. Len(requests) : requests[i] \in Int
      /\ Len(requests) \in Nat
  <2>1. Len(requests) \in Nat \ {0} /\ r = requests[1] /\ \A i \in 1 .. Len(requests) : requests[i] \in Requests
    BY <1>1, QueueTail
  <2>2. \A i \in 1 .. Len(requests) : requests[i] \in Int
    BY <1>2, <2>1
  <2> QED
    BY <2>1, <2>2
<1>4. r <= arrived /\ \A i \in 1 .. Len(requests) : r <= requests[i]
  BY <1>3 DEF Sorted
<1> HIDE DEF r
<1>5. CASE requests' = requests
  <2>1. Sorted'
    BY <1>5 DEF Sorted
  <2>2. Reached'
    <3>1. Reaching(wire', arrived')
      BY <1>1, <1>3, <1>4 DEF Reaching, r
    <3>2. ASSUME NEW i \in 1 .. Len(requests) PROVE Reaching(wire', requests[i])
      BY <1>3, <1>4 DEF Reaching, r
    <3> QED
      BY <1>5, <3>1, <3>2 DEF Reached
  <2>3. requests' # Tail(requests)
    BY <1>1, <1>5, QueueTail
  <2> QED
    BY <2>1, <2>2, <2>3
<1>6. CASE requests' = Tail(requests)
  <2>1. /\ Len(requests') = Len(requests) - 1
        /\ \A i \in 1 .. Len(requests') : i + 1 \in 1 .. Len(requests) /\ requests'[i] = requests[i + 1]
    BY <1>1, <1>6, QueueTail
  <2>2. Sorted'
    <3>1. \A i, j \in 1 .. Len(requests') : i < j => requests'[i] < requests'[j]
      <4> TAKE i, j \in 1 .. Len(requests')
      <4>1. i + 1 \in 1 .. Len(requests) /\ j + 1 \in 1 .. Len(requests) /\ (i < j => i + 1 < j + 1)
        BY <1>3, <2>1
      <4>2. requests'[i] = requests[i + 1] /\ requests'[j] = requests[j + 1]
        BY <2>1
      <4> QED
        BY <4>1, <4>2 DEF Sorted
    <3>2. \A i \in 1 .. Len(requests') : requests'[i] <= arrived'
      BY <2>1 DEF Sorted
    <3> QED
      BY <3>1, <3>2 DEF Sorted
  <2>3. \A i \in 1 .. Len(requests') : r < requests'[i]
    BY <1>3, <2>1 DEF Sorted
  <2>4. Reached'
    <3>1. \A i \in 1 .. Len(requests') : requests'[i] \in Int
      BY <1>3, <2>1
    <3>2. \A k \in 1 .. Len(wire') : wire'[k].r <= arrived'
      BY <1>1, <1>3, <1>4 DEF r
    <3>3. \A i \in 1 .. Len(requests') : \A k \in 1 .. Len(wire') : wire'[k].r <= requests'[i]
      <4> TAKE i \in 1 .. Len(requests')
      <4> TAKE k \in 1 .. Len(wire')
      <4>1. r < requests'[i] /\ wire'[k].r <= r /\ r \in Int /\ requests'[i] \in Int /\ wire'[k].r \in Int
        BY <1>3, <2>3, <3>1 DEF r
      <4> HIDE DEF r
      <4> QED
        BY <4>1
    <3> QED
      BY <3>2, <3>3 DEF Reached, Reaching
  <2> QED
    BY <2>2, <2>3, <2>4 DEF r
<1> QED
  BY <1>5, <1>6

\* What a step may do to the queue and the wire while nothing is out of the
\* queue: leave them, take the front out, put a later request in, or write for
\* the front.
OrderStep ==
    \/ UNCHANGED <<requests, arrived, wire>>
    \/ /\ requests # <<>> /\ requests' = Tail(requests)
       /\ UNCHANGED <<arrived, wire>>
    \/ /\ requests' = Append(requests, arrived') /\ arrived <= arrived'
       /\ requests = <<>> \/ requests[Len(requests)] < arrived'
       /\ UNCHANGED wire
    \/ /\ requests # <<>> /\ requests' \in {requests, Tail(requests)}
       /\ UNCHANGED arrived
       /\ \E items \in Seq(Of(Head(requests))) : wire' = wire \o items

\* Each of them keeps the order.
LEMMA OrderStepKeeps ==
    ASSUME TypeOK, TypeOK', Sorted, Reached, WireInOrder, OrderStep
    PROVE  Sorted' /\ Reached' /\ WireInOrder'
<1>1. CASE UNCHANGED <<requests, arrived, wire>>
  BY <1>1, SameSorted
<1>2. CASE requests # <<>> /\ requests' = Tail(requests) /\ UNCHANGED <<arrived, wire>>
  BY <1>2, TailSorted DEF WireInOrder
<1>3. CASE /\ requests' = Append(requests, arrived') /\ arrived <= arrived'
           /\ requests = <<>> \/ requests[Len(requests)] < arrived'
           /\ UNCHANGED wire
  <2>1. requests \in Seq(Requests) /\ arrived \in Int /\ arrived' \in Int
    BY DEF TypeOK
  <2>2. /\ Len(requests) \in Nat /\ Len(requests') = Len(requests) + 1
        /\ requests'[Len(requests) + 1] = arrived'
        /\ \A i \in 1 .. Len(requests) : requests'[i] = requests[i]
        /\ \A i \in 1 .. Len(requests) : requests[i] \in Int
    <3>1. Requests \subseteq Int
      BY BoundsAssumption DEF Requests
    <3>2. \A i \in 1 .. Len(requests) : requests[i] \in Requests
      BY <2>1
    <3>3. \A i \in 1 .. Len(requests) : requests[i] \in Int
      BY <3>1, <3>2
    <3> DEFINE a == arrived'
    <3> HIDE DEF a
    <3>4. requests' = Append(requests, a)
      BY <1>3 DEF a
    <3>5. /\ Len(requests) \in Nat /\ Len(requests') = Len(requests) + 1
          /\ requests'[Len(requests) + 1] = a
          /\ \A i \in 1 .. Len(requests) : requests'[i] = requests[i]
      BY <2>1, <3>4
    <3> QED
      BY <3>3, <3>5 DEF a
  <2>3. \A i \in 1 .. Len(requests) : requests[i] < arrived'
    <3> TAKE i \in 1 .. Len(requests)
    <3>1. Len(requests) \in 1 .. Len(requests) /\ requests # <<>>
      BY <2>1, <2>2
    <3>2. i = Len(requests) \/ requests[i] < requests[Len(requests)]
      BY <2>2, <3>1 DEF Sorted
    <3> QED
      BY <1>3, <2>1, <2>2, <3>1, <3>2
  <2>4. Sorted'
    <3>1. \A i, j \in 1 .. Len(requests') : i < j => requests'[i] < requests'[j]
      <4> TAKE i, j \in 1 .. Len(requests')
      <4> HAVE i < j
      <4>1. i \in 1 .. Len(requests) /\ (j \in 1 .. Len(requests) \/ j = Len(requests) + 1)
        BY <2>2
      <4>2. CASE j \in 1 .. Len(requests)
        BY <2>2, <4>1, <4>2 DEF Sorted
      <4>3. CASE j = Len(requests) + 1
        BY <2>2, <2>3, <4>1, <4>3
      <4> QED
        BY <4>1, <4>2, <4>3
    <3>2. \A i \in 1 .. Len(requests') : requests'[i] <= arrived'
      <4> TAKE i \in 1 .. Len(requests')
      <4>1. i \in 1 .. Len(requests) \/ i = Len(requests) + 1
        BY <2>2
      <4> QED
        BY <2>1, <2>2, <2>3, <4>1
    <3> QED
      BY <3>1, <3>2 DEF Sorted
  <2>5. Reached'
    <3>1. \A k \in 1 .. Len(wire) : wire[k].r \in Int
      <4>1. \A k \in 1 .. Len(wire) : wire[k] \in Item
        BY DEF TypeOK
      <4> QED
        BY <4>1, BoundsAssumption DEF Item, Requests
    <3>2. \A k \in 1 .. Len(wire) : wire[k].r <= arrived'
      <4> TAKE k \in 1 .. Len(wire)
      <4>1. wire[k].r <= arrived /\ wire[k].r \in Int /\ arrived <= arrived'
        BY <1>3, <3>1 DEF Reached, Reaching
      <4> QED
        BY <2>1, <4>1
    <3>3. \A i \in 1 .. Len(requests') : \A k \in 1 .. Len(wire) : wire[k].r <= requests'[i]
      <4> TAKE i \in 1 .. Len(requests')
      <4>1. i \in 1 .. Len(requests) \/ i = Len(requests) + 1
        BY <2>2
      <4>2. CASE i \in 1 .. Len(requests)
        BY <2>2, <4>2 DEF Reached, Reaching
      <4>3. CASE i = Len(requests) + 1
        BY <2>2, <3>2, <4>3
      <4> QED
        BY <4>1, <4>2, <4>3
    <3> QED
      BY <1>3, <3>2, <3>3 DEF Reached, Reaching
  <2> QED
    BY <1>3, <2>4, <2>5 DEF WireInOrder
<1>4. CASE /\ requests # <<>> /\ requests' \in {requests, Tail(requests)}
           /\ UNCHANGED arrived
           /\ \E items \in Seq(Of(Head(requests))) : wire' = wire \o items
  <2>1. WireInOrder' /\ \A k \in 1 .. Len(wire') : wire'[k].r <= Head(requests)
    BY <1>4, FrontWritten
  <2>2. \A k \in 1 .. Len(wire') : wire'[k].r \in Int
    <3>1. \A k \in 1 .. Len(wire') : wire'[k] \in Item
      BY DEF TypeOK
    <3> QED
      BY <3>1, BoundsAssumption DEF Item, Requests
  <2>3. Sorted' /\ Reached'
    BY <1>4, <2>1, <2>2, FrontReached
  <2> QED
    BY <2>1, <2>3
<1> QED
  BY <1>1, <1>2, <1>3, <1>4 DEF OrderStep

\* on_read() is going on, or may be called.
Reading == IF stack = <<>> THEN stream.reading ELSE Top.pc \in InRead

\* Frames of other routines than write_next_response(), and of other routines
\* than on_read().
Unwritten == {f \in Frame : f.pc \notin {"write", "wrote"}}
Plain == {f \in Unwritten : f.pc \notin InRead}

\* They are.
LEMMA PlainFrames ==
    /\ \A pc \in {"finish", "finished", "drop", "remove"} : Point(pc, 0) \in Plain
    /\ \A pc \in {"request_error", "errored"}, r \in Requests : Point(pc, r) \in Plain
    /\ \A ev \in Events, r \in Requests : Callback(ev, r) \in Plain
    /\ Point("on_read", 0) \in Unwritten
    /\ \A pc \in {"deliver", "received"}, r \in Requests : Point(pc, r) \in Unwritten
    /\ Plain \subseteq Unwritten
  BY FrameTypes DEF Plain, Unwritten, InRead, Point, Callback

\* So are those of close() and shutdown().
LEMMA PlainCloses == Close \in Seq(Plain) /\ Shutdown \in Seq(Plain) /\ <<>> \in Seq(Plain)
  BY PlainFrames DEF Close, Shutdown

\* A callback or the loop calls fs, or the routine on top goes on with fs.
Called(fs) ==
    \/ stack' = fs \o stack /\ (stack # <<>> => Top.pc = "callback")
    \/ stack' = fs \o Tail(stack) /\ stack # <<>>

\* What a step may do to the stack: it calls or goes on, reads only if it was
\* reading, and writes only for the front.
StackStep ==
    \/ UNCHANGED <<stack, requests>>
    \/ \E fs \in Seq(Plain) : Called(fs)
    \/ Reading /\ \E fs \in Seq(Unwritten) : Called(fs)
    \/ \E f \in Frame : /\ f.pc \in {"write", "wrote"} /\ Called(<<f>>)
                        /\ requests' # <<>> /\ Head(requests') = f.r

\* What a step may do to the parser.
InputStep ==
    \/ parsing' \in {0, arrived'}
    \/ NoInput'
    \/ /\ UNCHANGED input
       /\ stream'.reading => stream.reading /\ (stack # <<>> => Top.pc # "request_error")

\* Such a step keeps what the stack and the parser are known for.
LEMMA StackStepKeeps ==
    ASSUME TypeOK, WriteTop, StackStep
    PROVE  WriteTop' /\ (Parsed /\ InputStep => Parsed')
<1>1. stack \in Seq(Frame)
  BY DEF TypeOK
<1>2. CASE UNCHANGED <<stack, requests>>
  <2>1. WriteTop'
    BY <1>2 DEF WriteTop
  <2>2. Parsed /\ InputStep => Parsed'
    BY <1>1, <1>2, Below DEF Parsed, InputStep, NoInput, input, Top
  <2> QED
    BY <2>1, <2>2
<1>3. ASSUME NEW fs \in Seq(Frame), NEW b \in Seq(Frame), stack' = fs \o b,
             \A i \in 1 .. Len(b) : b[i].pc \notin {"write", "wrote"},
             \A i \in 1 .. Len(b) : \E j \in 1 .. Len(stack) : b[i] = stack[j],
             \A i \in 1 .. Len(fs) :
                  /\ fs[i].pc \in InRead => Reading
                  /\ fs[i].pc \in {"write", "wrote"} =>
                         i = 1 /\ requests' # <<>> /\ Head(requests') = fs[i].r
      PROVE  WriteTop' /\ (Parsed /\ InputStep => Parsed')
  <2>1. /\ \A i \in 1 .. Len(stack') : \/ i \in 1 .. Len(fs) /\ stack'[i] = fs[i]
                                      \/ \E j \in 1 .. Len(b) : stack'[i] = b[j]
    BY <1>3, Splice
  <2>2. WriteTop'
    <3> SUFFICES ASSUME NEW i \in 1 .. Len(stack'), stack'[i].pc \in {"write", "wrote"}
                 PROVE  i = 1 /\ requests' # <<>> /\ Head(requests') = stack'[i].r
      BY DEF WriteTop
    <3>1. i \in 1 .. Len(fs) /\ stack'[i] = fs[i]
      BY <1>3, <2>1
    <3> QED
      BY <1>3, <3>1
  <2>3. ASSUME Parsed, InputStep PROVE Parsed'
    <3>1. CASE parsing' \in {0, arrived'} \/ NoInput'
      BY <3>1 DEF Parsed
    <3>2. CASE /\ UNCHANGED input
               /\ stream'.reading => stream.reading /\ (stack # <<>> => Top.pc # "request_error")
      <4>1. CASE parsing \in {0, arrived}
        BY <3>2, <4>1 DEF Parsed, input
      <4>2. CASE NoInput
        <5>1. ~Reading /\ ~stream'.reading
          BY <1>1, <3>2, <4>2, Below DEF NoInput, Reading, Top
        <5>2. \A i \in 1 .. Len(stack') : stack'[i].pc \notin InRead
          BY <1>3, <2>1, <4>2, <5>1 DEF NoInput
        <5> QED
          BY <5>1, <5>2 DEF NoInput, Parsed
      <4> QED
        BY <2>3, <4>1, <4>2 DEF Parsed
    <3> QED
      BY <2>3, <3>1, <3>2 DEF InputStep
  <2> QED
    BY <2>2, <2>3
<1>4. CASE ~UNCHANGED <<stack, requests>>
  <2>1. PICK fs \in Seq(Frame) :
           /\ Called(fs)
           /\ \A i \in 1 .. Len(fs) :
                  /\ fs[i].pc \in InRead => Reading
                  /\ fs[i].pc \in {"write", "wrote"} =>
                         i = 1 /\ requests' # <<>> /\ Head(requests') = fs[i].r
    <3>1. ASSUME NEW fs \in Seq(Plain)
          PROVE  fs \in Seq(Frame) /\ \A i \in 1 .. Len(fs) : fs[i].pc \notin {"write", "wrote"} \cup InRead
      BY DEF Plain, Unwritten
    <3>2. ASSUME NEW fs \in Seq(Unwritten)
          PROVE  fs \in Seq(Frame) /\ \A i \in 1 .. Len(fs) : fs[i].pc \notin {"write", "wrote"}
      BY DEF Unwritten
    <3>3. ASSUME NEW f \in Frame
          PROVE  <<f>> \in Seq(Frame) /\ \A i \in 1 .. Len(<<f>>) : i = 1 /\ <<f>>[i] = f
      OBVIOUS
    <3>4. CASE \E fs \in Seq(Plain) : Called(fs)
      BY <3>1, <3>4
    <3>5. CASE Reading /\ \E fs \in Seq(Unwritten) : Called(fs)
      BY <3>2, <3>5
    <3>6. CASE \E f \in Frame : /\ f.pc \in {"write", "wrote"} /\ Called(<<f>>)
                               /\ requests' # <<>> /\ Head(requests') = f.r
      <4>1. PICK f \in Frame : /\ f.pc \in {"write", "wrote"} /\ Called(<<f>>)
                               /\ requests' # <<>> /\ Head(requests') = f.r
        BY <3>6
      <4>2. f.pc \notin InRead
        BY <4>1 DEF InRead
      <4> QED
        BY <3>3, <4>1, <4>2
    <3> QED
      BY <1>4, <3>4, <3>5, <3>6 DEF StackStep
  <2>2. CASE stack' = fs \o stack /\ (stack # <<>> => Top.pc = "callback")
    <3>1. \A i \in 1 .. Len(stack) : stack[i].pc \notin {"write", "wrote"}
      BY <1>1, <2>2, Below DEF WriteTop, Top
    <3> QED
      BY <1>1, <1>3, <2>1, <2>2, <3>1
  <2>3. CASE stack' = fs \o Tail(stack) /\ stack # <<>>
    <3>1. \A i \in 1 .. Len(Tail(stack)) : i + 1 \in 1 .. Len(stack) /\ Tail(stack)[i] = stack[i + 1]
      BY <1>1, <2>3, Below
    <3>2. \A i \in 1 .. Len(Tail(stack)) : i + 1 # 1
      OBVIOUS
    <3>3. \A i \in 1 .. Len(Tail(stack)) : Tail(stack)[i].pc \notin {"write", "wrote"}
      BY <3>1, <3>2 DEF WriteTop
    <3>4. \A i \in 1 .. Len(Tail(stack)) : \E j \in 1 .. Len(stack) : Tail(stack)[i] = stack[j]
      BY <3>1
    <3>5. Tail(stack) \in Seq(Frame)
      BY <1>1, <2>3, Below
    <3> QED
      BY <1>3, <2>1, <2>3, <3>3, <3>4, <3>5
  <2> QED
    BY <2>1, <2>2, <2>3 DEF Called
<1> QED
  BY <1>2, <1>4

\* The frames that are shielded.
Shields(q) == {f \in Frame : Shielded(q, f)}

\* What a step does while the front is to be put back: requests leave the queue
\* and their users hear of it, and the server may close the connection.
WindowStep ==
    /\ UNCHANGED <<arrived, wire, parsing>> /\ (stream'.reading => stream.reading)
    /\ requests' \in {requests, Tail(requests)} /\ (requests' # requests => requests # <<>>)
    /\ \A r \in Requests : req'[r].conn => req[r].conn
    /\ stack # <<>> /\ \E fs \in Seq(Shields(req')) : Called(fs)

\* drop_requests() takes its request off the connection before it calls back.
LEMMA DropWindow ==
    ASSUME TypeOK, DropRequests
    PROVE  WindowStep /\ OrderStep
<1>0. /\ stack # <<>> /\ stack \in Seq(Frame) /\ requests \in Seq(Requests)
      /\ req \in [Requests -> ServerRequest] /\ UNCHANGED <<arrived, wire, parsing, stream>>
  BY DEF TypeOK, DropRequests, At, flags, input
<1>1. CASE requests = <<>>
  <2>1. UNCHANGED <<requests, req>> /\ stack' = <<>> \o Tail(stack)
    BY <1>1 DEF DropRequests, Goto
  <2>2. <<>> \in Seq(Shields(req'))
    OBVIOUS
  <2> QED
    BY <1>0, <1>1, <2>1, <2>2 DEF WindowStep, OrderStep, Called
<1>2. CASE requests # <<>>
  <2> DEFINE r == Head(requests)
             why == CASE ~req[r].done /\ req[r].partial -> <<Callback("partial_error", r)>>
                      [] ~req[r].done /\ ~req[r].partial -> <<Callback("error", r)>>
                      [] req[r].done /\ res[r].st # "complete" -> <<Callback("drop", r)>>
                      [] OTHER -> <<>>
             fs(w) == <<Callback("finish", r)>> \o w \o <<Point("drop", 0)>>
  <2>1. Forget(r) /\ stack' = fs(why) \o Tail(stack)
    BY <1>2 DEF DropRequests, Goto
  <2>2. why \in {<<>>, <<Callback("partial_error", r)>>, <<Callback("error", r)>>, <<Callback("drop", r)>>}
    OBVIOUS
  <2>3. r \in Requests
    BY <1>0, <1>2, QueueTail
  <2> HIDE DEF why, r
  <2>4. /\ Callback("finish", r) \in Frame /\ Point("drop", 0) \in Frame
        /\ Callback("partial_error", r) \in Frame /\ Callback("error", r) \in Frame
        /\ Callback("drop", r) \in Frame
    BY <2>3, FrameTypes DEF Events
  <2>5. requests' = Tail(requests) /\ req' = [req EXCEPT ![r].conn = FALSE]
    BY <2>1 DEF Forget
  <2>6. ~req'[r].conn /\ \A q \in Requests : req'[q].conn => req[q].conn
    BY <1>0, <2>3, <2>5 DEF ServerRequest
  <2>7. \A f \in Frame : f.pc = "callback" /\ f.r = r => f \in Shields(req')
    BY <2>6 DEF Shielded, Shields
  <2>8. /\ Callback("finish", r) \in Shields(req') /\ Point("drop", 0) \in Shields(req')
        /\ Callback("partial_error", r) \in Shields(req') /\ Callback("error", r) \in Shields(req')
        /\ Callback("drop", r) \in Shields(req')
    <3>1. Point("drop", 0) \in Shields(req')
      BY <2>4 DEF Shields, Shielded, Point
    <3>2. \A ev : Callback(ev, r).pc = "callback" /\ Callback(ev, r).r = r
      BY DEF Callback
    <3> QED
      BY <2>4, <2>7, <3>1, <3>2
  <2> DEFINE S == Shields(req')
  <2> HIDE DEF S
  <2>9. why \in Seq(S) /\ <<Callback("finish", r)>> \in Seq(S) /\ <<Point("drop", 0)>> \in Seq(S)
    <3>1. <<>> \in Seq(S) /\ <<Callback("partial_error", r)>> \in Seq(S) /\ <<Callback("error", r)>> \in Seq(S)
          /\ <<Callback("drop", r)>> \in Seq(S)
      BY <2>8 DEF S
    <3>2. <<Callback("finish", r)>> \in Seq(S) /\ <<Point("drop", 0)>> \in Seq(S)
      BY <2>8 DEF S
    <3> QED
      BY <2>2, <3>1, <3>2
  <2>10. fs(why) \in Seq(S)
    BY <2>9
  <2> HIDE DEF fs
  <2> QED
    BY <1>0, <1>2, <2>1, <2>5, <2>6, <2>10 DEF WindowStep, OrderStep, Called, S
<1> QED
  BY <1>1, <1>2

\* The user of a shielded callback cannot touch a request, only the connection.
LEMMA Window ==
    ASSUME TypeOK, OwnOnly, stack # <<>>, Shielded(req, Top), Next
    PROVE  WindowStep
<1> USE DEF flags, input
<1>0. stack \in Seq(Frame) /\ stream \in Stream /\ Tail(stack) = <<>> \o Tail(stack) /\ stack = <<>> \o stack
  BY DEF TypeOK
<1>1. Top.pc \in {"drop", "remove", "callback"}
  BY DEF Shielded
<1>2. \A r \in Requests : UserMay("respond") \/ UserMay("begin") \/ UserMay("partial") \/ UserMay("continue")
        \/ UserMay("chunk") \/ UserMay("final") \/ UserMay("drop") \/ UserMay("upgrade") => ~Holds(r)
  <2> SUFFICES ASSUME NEW r \in Requests, Top.pc = "callback" PROVE ~Holds(r)
    BY DEF UserMay
  <2> QED
    BY DEF Holds, Shielded
<1>3. \/ DropRequests \/ RemoveConnection \/ Return \/ CloseConnection \/ GracefulStop
  <2>1. CASE Step
    BY <1>1, <2>1 DEF Step, At, Parse, Deliver, Received, RequestError, Errored, WriteNextResponse,
                      Rejoin, Wrote, FinishRequest, Finished
  <2>2. CASE Event
    BY <2>2 DEF Event, Loop, OnRead, OnReadError, OnConnectionError, OnWrite, OnWriteError, OnShutdown,
                OnEof, OnIdleTimer
  <2>3. CASE User
    BY <1>2, <2>3 DEF User, Respond, EnablePartial, SendContinue, SendChunk, SendFinalChunk, Drop, Upgrade
  <2> QED
    BY <2>1, <2>2, <2>3 DEF Next
<1>4. <<>> \in Seq(Shields(req'))
  OBVIOUS
<1>5. Close \in Seq(Shields(req')) /\ Shutdown \in Seq(Shields(req'))
  <2>1. Point("drop", 0) \in Shields(req') /\ Point("remove", 0) \in Shields(req')
    BY FrameTypes DEF Shields, Shielded, Point
  <2> QED
    BY <2>1 DEF Close, Shutdown
<1>6. CASE DropRequests
  BY <1>6, DropWindow
<1>7. CASE RemoveConnection \/ Return
  <2>1. UNCHANGED <<requests, req, arrived, wire, parsing, stream>> /\ stack' = <<>> \o Tail(stack)
    BY <1>7 DEF RemoveConnection, Return, Goto
  <2> QED
    BY <1>4, <2>1 DEF WindowStep, Called
<1>8. CASE CloseConnection
  <2>1. /\ UNCHANGED <<requests, req, arrived, wire, parsing>> /\ stack' = Close \o stack
        /\ stream'.reading = stream.reading /\ Top.pc = "callback"
    BY <1>0, <1>8 DEF CloseConnection, HardClose, Stream, UserMay
  <2> QED
    BY <1>5, <2>1 DEF WindowStep, Called
<1>9. CASE GracefulStop
  <2>1. /\ UNCHANGED <<requests, req, arrived, wire, parsing>>
        /\ stack' = <<>> \o stack \/ stack' = Shutdown \o stack
        /\ stream'.reading = stream.reading /\ Top.pc = "callback"
    BY <1>0, <1>9 DEF GracefulStop, SoftClose, Stream, UserMay
  <2> QED
    BY <1>4, <1>5, <2>1 DEF WindowStep, Called
<1> QED
  BY <1>3, <1>6, <1>7, <1>8, <1>9

\* So the order is kept while the front is to be put back.
LEMMA WindowKeeps ==
    ASSUME TypeOK, TypeOK', OrderInv, OwnOnly, Next, HasRejoin(stack), Top.pc # "rejoin"
    PROVE  OrderInv'
<1>0. stack \in Seq(Frame) /\ requests \in Seq(Requests)
  BY DEF TypeOK
<1>1. stack # <<>> /\ Shielded(req, Top)
  <2>1. PICK k \in 1 .. Len(stack) : stack[k].pc = "rejoin"
    BY DEF HasRejoin
  <2>2. stack # <<>> /\ stack[1] = Top /\ k # 1
    BY <1>0, <2>1, Below DEF Top
  <2>3. 1 \in 1 .. k - 1
    BY <2>2
  <2> QED
    BY <2>1, <2>2, <2>3 DEF OrderInv, Rejoins
<1>2. WindowStep
  BY <1>1, Window
<1>3. PICK fs \in Seq(Shields(req')) : Called(fs)
  BY <1>2 DEF WindowStep
<1>4. /\ fs \in Seq(Frame) /\ fs \in Seq(Plain)
      /\ \A i \in 1 .. Len(fs) : Shielded(req', fs[i]) /\ fs[i].pc # "rejoin"
  <2>1. Shields(req') \subseteq Plain /\ Shields(req') \subseteq Frame
        /\ \A f \in Shields(req') : Shielded(req', f) /\ f.pc # "rejoin"
    BY DEF Shields, Shielded, Plain, Unwritten, InRead
  <2> DEFINE S == Shields(req')
  <2> HIDE DEF S
  <2>2. fs \in Seq(S) /\ S \subseteq Plain /\ S \subseteq Frame
    BY <2>1 DEF S
  <2>3. \A i \in 1 .. Len(fs) : fs[i] \in S
    BY <2>2
  <2>4. fs \in Seq(Frame) /\ fs \in Seq(Plain)
    BY <2>2, <2>3
  <2> QED
    BY <2>1, <2>3, <2>4 DEF S
<1>5. Sorted' /\ Reached' /\ WireInOrder'
  <2>1. OrderStep
    BY <1>2 DEF WindowStep, OrderStep
  <2> QED
    BY <2>1, OrderStepKeeps DEF OrderInv
<1>6. WriteTop' /\ Parsed'
  <2>1. StackStep
    BY <1>3, <1>4 DEF StackStep
  <2>2. InputStep
    BY <1>1, <1>2 DEF InputStep, WindowStep, Shielded, input
  <2> QED
    BY <2>1, <2>2, StackStepKeeps DEF OrderInv
<1>9. \A i \in 1 .. Len(requests') : \E j \in 1 .. Len(requests) : requests'[i] = requests[j]
  BY <1>0, <1>2, QueueTail DEF WindowStep
<1>10. ASSUME NEW b \in Seq(Frame), NEW d \in {0, 1}, stack' = fs \o b, Len(b) = Len(stack) - d,
              \A i \in 1 .. Len(b) : i + d \in 1 .. Len(stack) /\ b[i] = stack[i + d]
       PROVE  Rejoins'
  <2> SUFFICES ASSUME NEW k \in 1 .. Len(stack'), stack'[k].pc = "rejoin"
               PROVE  /\ \A i \in 1 .. k - 1 : Shielded(req', stack'[i])
                      /\ Reaching(wire', stack'[k].r) /\ stack'[k].r <= arrived'
                      /\ \A i \in 1 .. Len(requests') : stack'[k].r < requests'[i]
    BY DEF Rejoins
  <2> DEFINE l == k - Len(fs)
  <2>1. /\ Len(stack') = Len(fs) + Len(b) /\ Len(fs) \in Nat /\ Len(b) \in Nat /\ Len(stack) \in Nat
        /\ \A i \in 1 .. Len(fs) : stack'[i] = fs[i]
        /\ \A i \in 1 .. Len(b) : stack'[i + Len(fs)] = b[i]
        /\ \A i \in 1 .. Len(stack') :
              i \in 1 .. Len(fs) \/ (i - Len(fs) \in 1 .. Len(b) /\ stack'[i] = b[i - Len(fs)])
    <3>1. Len(fs) \in Nat /\ Len(b) \in Nat /\ Len(stack) \in Nat
      BY <1>0, <1>4, <1>10
    <3>2. fs \in Seq(Frame)
      BY <1>4
    <3>3. /\ Len(fs \o b) = Len(fs) + Len(b)
          /\ \A i \in 1 .. Len(fs) : (fs \o b)[i] = fs[i]
          /\ \A i \in 1 .. Len(b) : (fs \o b)[i + Len(fs)] = b[i]
          /\ \A i \in 1 .. Len(fs \o b) :
                i \in 1 .. Len(fs) \/ (i - Len(fs) \in 1 .. Len(b) /\ (fs \o b)[i] = b[i - Len(fs)])
      BY <3>2, Splice
    <3>4. stack' = fs \o b
      BY <1>10
    <3> QED
      BY <3>1, <3>3, <3>4
  <2>2. l \in 1 .. Len(b) /\ stack'[k] = b[l]
    BY <1>4, <2>1
  <2>3. l + d \in 1 .. Len(stack) /\ stack'[k] = stack[l + d] /\ stack[l + d].pc = "rejoin"
    BY <1>10, <2>2
  <2> HIDE DEF l
  <2>4. /\ \A i \in 1 .. (l + d) - 1 : Shielded(req, stack[i])
        /\ Reaching(wire, stack[l + d].r) /\ stack[l + d].r <= arrived
        /\ \A i \in 1 .. Len(requests) : stack[l + d].r < requests[i]
    BY <2>3 DEF OrderInv, Rejoins
  <2>5. stack[l + d] \in Frame /\ stack[l + d].r \in Requests
    BY <1>0, <2>3, FrameRequest
  <2>6. \A i \in 1 .. k - 1 : Shielded(req', stack'[i])
    <3> TAKE i \in 1 .. k - 1
    <3>1. CASE i \in 1 .. Len(fs)
      <4>1. stack'[i] = fs[i]
        BY <2>1, <3>1
      <4>2. Shielded(req', fs[i])
        BY <1>4, <3>1
      <4> QED
        BY <4>1, <4>2
    <3>2. CASE i \notin 1 .. Len(fs)
      <4> DEFINE j == i - Len(fs)
      <4>1. j \in 1 .. Len(b) /\ stack'[i] = b[j] /\ j < l
        BY <2>1, <2>2, <3>2 DEF l
      <4>2. j + d \in 1 .. Len(stack) /\ stack'[i] = stack[j + d] /\ j + d \in 1 .. (l + d) - 1
        <5>1. j + d \in 1 .. Len(stack) /\ b[j] = stack[j + d]
          BY <1>10, <4>1
        <5>2. j + d \in 1 .. (l + d) - 1
          BY <2>2, <2>3, <4>1
        <5> QED
          BY <4>1, <5>1, <5>2
      <4>3. Shielded(req, stack[j + d]) /\ stack[j + d] \in Frame
        BY <1>0, <2>4, <4>2
      <4>4. stack'[i] \in Frame /\ Shielded(req, stack'[i])
        BY <4>2, <4>3
      <4>5. /\ stack'[i].pc \in {"drop", "remove"} \/ (stack'[i].pc = "callback" /\ ~req[stack'[i].r].conn)
            /\ stack'[i].pc = "callback" => stack'[i].r \in Requests
        BY <4>4, FrameRequest DEF Shielded
      <4> HIDE DEF j
      <4> QED
        BY <1>2, <4>5 DEF WindowStep, Shielded
    <3> QED
      BY <3>1, <3>2
  <2>7. Reaching(wire', stack'[k].r) /\ stack'[k].r <= arrived'
    BY <1>2, <2>3, <2>4 DEF WindowStep, Reaching
  <2> QED
    BY <1>9, <2>3, <2>4, <2>6, <2>7
<1>11. Rejoins'
  <2>1. CASE stack' = fs \o stack
    <3>1. 0 \in {0, 1} /\ Len(stack) = Len(stack) - 0
          /\ \A i \in 1 .. Len(stack) : i + 0 \in 1 .. Len(stack) /\ stack[i] = stack[i + 0]
      BY <1>0
    <3> QED
      BY <1>0, <1>10, <2>1, <3>1
  <2>2. CASE stack' = fs \o Tail(stack)
    <3>1. 1 \in {0, 1} /\ Len(Tail(stack)) = Len(stack) - 1 /\ Tail(stack) \in Seq(Frame)
          /\ \A i \in 1 .. Len(Tail(stack)) : i + 1 \in 1 .. Len(stack) /\ Tail(stack)[i] = stack[i + 1]
      BY <1>0, <1>1, Below
    <3> QED
      BY <1>10, <2>2, <3>1
  <2> QED
    BY <1>3, <2>1, <2>2 DEF Called
<1> QED
  BY <1>5, <1>6, <1>11 DEF OrderInv

\* Putting the front back keeps the order too.
LEMMA RejoinKeeps ==
    ASSUME TypeOK, TypeOK', OrderInv, Rejoin
    PROVE  OrderInv'
<1> DEFINE r == Top.r
           f == [Top EXCEPT !.pc = "wrote"]
<1>0. stack \in Seq(Frame) /\ requests \in Seq(Requests) /\ wire \in Seq(Item) /\ arrived \in Int
  BY DEF TypeOK
<1>1. /\ requests' = <<r>> \o requests /\ stack' = <<f>> \o Tail(stack)
      /\ UNCHANGED <<parsing, arrived, req, stream, wire>>
      /\ stack # <<>> /\ Top.pc = "rejoin" /\ r \in Requests
  BY TopRequest DEF Rejoin, Goto, At, input
<1>2. /\ Reaching(wire, r) /\ r <= arrived /\ \A i \in 1 .. Len(requests) : r < requests[i]
      /\ \A k \in 2 .. Len(stack) : stack[k].pc # "rejoin"
  <2>1. 1 \in 1 .. Len(stack) /\ stack[1] = Top
    BY <1>0, <1>1, Below DEF Top
  <2>2. \A k \in 2 .. Len(stack) : 1 \in 1 .. k - 1 /\ k \in 1 .. Len(stack)
    BY <1>0
  <2> QED
    BY <1>1, <2>1, <2>2 DEF OrderInv, Rejoins, Shielded
<1>3. f \in Frame /\ f.pc = "wrote" /\ f.r = r
  <2>1. Top \in Frame
    BY <1>0, <1>1 DEF Top
  <2> DEFINE t == Top
  <2> HIDE DEF t
  <2>2. t \in Frame /\ t.pc = "rejoin"
    BY <1>1, <2>1 DEF t
  <2>3. [t EXCEPT !.pc = "wrote"] \in Frame
    BY <2>2 DEF Frame
  <2>4. [t EXCEPT !.pc = "wrote"].pc = "wrote" /\ [t EXCEPT !.pc = "wrote"].r = t.r
    BY <2>2 DEF Frame
  <2> QED
    BY <2>3, <2>4 DEF t
<1> HIDE DEF r, f
<1>4. /\ Len(requests') = Len(requests) + 1 /\ Len(requests) \in Nat /\ requests'[1] = r
      /\ requests' # <<>> /\ Head(requests') = r
      /\ \A i \in 2 .. Len(requests') : i - 1 \in 1 .. Len(requests) /\ requests'[i] = requests[i - 1]
  BY <1>0, <1>1
<1>5. Sorted'
  <2>1. \A i, j \in 1 .. Len(requests') : i < j => requests'[i] < requests'[j]
    <3> TAKE i, j \in 1 .. Len(requests')
    <3> HAVE i < j
    <3>1. j \in 2 .. Len(requests') /\ (i = 1 \/ i \in 2 .. Len(requests'))
      BY <1>4
    <3>2. CASE i = 1
      BY <1>2, <1>4, <3>1, <3>2
    <3>3. CASE i \in 2 .. Len(requests')
      BY <1>4, <3>1, <3>3 DEF OrderInv, Sorted
    <3> QED
      BY <3>1, <3>2, <3>3
  <2>2. \A i \in 1 .. Len(requests') : requests'[i] <= arrived'
    <3> TAKE i \in 1 .. Len(requests')
    <3>1. i = 1 \/ i \in 2 .. Len(requests')
      BY <1>4
    <3> QED
      BY <1>1, <1>2, <1>4, <3>1 DEF OrderInv, Sorted
  <2> QED
    BY <2>1, <2>2 DEF Sorted
<1>6. Reached'
  <2>1. \A i \in 1 .. Len(requests') : Reaching(wire, requests'[i])
    <3> TAKE i \in 1 .. Len(requests')
    <3>1. i = 1 \/ i \in 2 .. Len(requests')
      BY <1>4
    <3> QED
      BY <1>2, <1>4, <3>1 DEF OrderInv, Reached
  <2> QED
    BY <1>1, <2>1 DEF OrderInv, Reached, Reaching
<1>7. WriteTop' /\ Parsed'
  <2>1. <<f>> \in Seq(Frame) /\ Len(<<f>>) = 1 /\ <<f>>[1] = f
    BY <1>3
  <2>2. StackStep
    BY <1>1, <1>3, <1>4 DEF StackStep, Called
  <2>3. InputStep
    BY <1>1 DEF InputStep, input
  <2> QED
    BY <2>2, <2>3, StackStepKeeps DEF OrderInv
<1>8. Rejoins'
  <2>1. \A k \in 1 .. Len(stack') : stack'[k] = f \/ \E j \in 2 .. Len(stack) : stack'[k] = stack[j]
    <3>1. <<f>> \in Seq(Frame) /\ Tail(stack) \in Seq(Frame) /\ Len(<<f>>) = 1 /\ <<f>>[1] = f
      BY <1>0, <1>1, <1>3, Below
    <3>2. \A i \in 1 .. Len(Tail(stack)) : i + 1 \in 2 .. Len(stack) /\ Tail(stack)[i] = stack[i + 1]
      BY <1>0, <1>1, Below
    <3> QED
      BY <1>1, <3>1, <3>2, Splice
  <2> QED
    BY <1>2, <1>3, <2>1 DEF Rejoins
<1> QED
  BY <1>1, <1>5, <1>6, <1>7, <1>8 DEF OrderInv, WireInOrder

\* A step that leaves queue, wire and parser alone and calls or returns without
\* a write.
LEMMA PlainMove ==
    ASSUME UNCHANGED <<requests, arrived, wire, parsing>>,
           stream'.reading => stream.reading /\ (stack # <<>> => Top.pc # "request_error"),
           \/ UNCHANGED stack
           \/ \E fs \in Seq(Plain) : Called(fs)
           \/ Reading /\ \E fs \in Seq(Unwritten) : Called(fs)
    PROVE  OrderStep /\ StackStep /\ InputStep
<1>1. OrderStep /\ InputStep
  BY DEF OrderStep, InputStep, input
<1>2. StackStep
  BY DEF StackStep
<1> QED
  BY <1>1, <1>2

\* respond() starts the front's response only.
LEMMA RespondMove ==
    ASSUME TypeOK, NEW r \in Requests, NEW ka, NEW whole, NEW rest, respond(r, ka, whole, rest),
           \/ rest = stack /\ (stack # <<>> => Top.pc = "callback")
           \/ rest = Tail(stack) /\ stack # <<>> /\ Top.pc = "errored"
    PROVE  OrderStep /\ StackStep /\ InputStep
<1>0. stack \in Seq(Frame) /\ Tail(stack) = <<>> \o Tail(stack) /\ stack = <<>> \o stack
  BY DEF TypeOK
<1>1. UNCHANGED <<requests, parsing, arrived, wire, stream>>
  BY DEF respond, Abort, input
<1>2. OrderStep /\ InputStep
  BY <1>1 DEF OrderStep, InputStep, input
<1>3. \/ UNCHANGED stack
      \/ stack' = <<>> \o rest
      \/ stack' = <<Point("write", r)>> \o rest /\ requests # <<>> /\ Head(requests) = r
  <2>1. rest = <<>> \o rest
    BY <1>0
  <2> QED
    BY <2>1 DEF respond, Abort
<1>4. Point("write", r) \in Frame /\ Point("write", r).pc = "write" /\ Point("write", r).r = r
  BY FrameTypes DEF Point
<1>5. StackStep
  <2>1. CASE UNCHANGED stack
    BY <1>1, <2>1 DEF StackStep
  <2>2. CASE stack' = <<>> \o rest
    BY <2>2, PlainCloses DEF StackStep, Called
  <2>3. CASE stack' = <<Point("write", r)>> \o rest /\ requests # <<>> /\ Head(requests) = r
    <3>1. Called(<<Point("write", r)>>)
      BY <2>3 DEF Called
    <3> QED
      BY <1>1, <1>4, <2>3, <3>1 DEF StackStep
  <2> QED
    BY <1>3, <2>1, <2>2, <2>3
<1> QED
  BY <1>2, <1>5

\* on_read's turn puts a later request into the queue, or none.
LEMMA ParseMove ==
    ASSUME TypeOK, OrderInv, NEW result, NEW shape \in Shapes, Parse(result, shape)
    PROVE  OrderStep /\ StackStep /\ InputStep
<1> DEFINE r == IF parsing # 0 THEN parsing ELSE arrived + 1
<1>0. /\ stack # <<>> /\ Top.pc = "on_read" /\ MoreInput /\ requests' = Emplace(r)
      /\ arrived' = (IF parsing # 0 THEN arrived ELSE r) /\ parsing' \in {0, r} /\ UNCHANGED wire
  BY Zenon DEF Parse, At
<1>1. r \in Requests
  BY <1>0, BoundsAssumption DEF MoreInput, TypeOK, Requests
<1>2. \E fs \in {<<>>, <<Point("request_error", r)>>,
                 <<Callback("route", r), Point("deliver", r)>>, <<Point("deliver", r)>>} :
          stack' = fs \o Tail(stack)
  BY DEF Parse, Goto
<1>3. stack \in Seq(Frame) /\ requests \in Seq(Requests) /\ arrived \in Int
  BY DEF TypeOK
<1>4. Top.pc \in InRead /\ stack[1] = Top /\ 1 \in 1 .. Len(stack)
  BY <1>0, <1>3, Below DEF InRead, Top
<1>5. r = arrived' /\ arrived <= arrived' /\ (parsing = 0 => arrived' = arrived + 1)
      /\ (parsing # 0 => arrived' = arrived)
  <2>1. parsing \in {0, arrived}
    BY <1>4 DEF OrderInv, Parsed, NoInput
  <2>2. CASE parsing = 0
    BY <1>0, <1>3, <2>2
  <2>3. CASE parsing # 0
    BY <1>0, <1>3, <2>1, <2>3
  <2> QED
    BY <2>2, <2>3
<1> HIDE DEF r
<1>6. OrderStep
  <2>1. CASE requests = <<>>
    BY <1>0, <1>5, <2>1 DEF Emplace, OrderStep
  <2>2. CASE requests # <<>>
    <3>1. Len(requests) \in 1 .. Len(requests) /\ Last(requests) = requests[Len(requests)]
          /\ requests[Len(requests)] \in Int
      BY <1>3, <2>2, BoundsAssumption DEF Last, Requests
    <3>2. requests[Len(requests)] <= arrived
      BY <3>1 DEF OrderInv, Sorted
    <3>3. CASE requests[Len(requests)] = r
      <4>1. parsing # 0
        BY <1>3, <1>5, <3>2, <3>3
      <4> QED
        BY <1>0, <1>5, <2>2, <3>1, <3>3, <4>1 DEF Emplace, OrderStep
    <3>4. CASE requests[Len(requests)] # r
      <4>1. requests[Len(requests)] < arrived'
        BY <1>1, <1>3, <1>5, <3>1, <3>2, <3>4
      <4> QED
        BY <1>0, <1>5, <2>2, <3>1, <3>4, <4>1 DEF Emplace, OrderStep
    <3> QED
      BY <3>3, <3>4
  <2> QED
    BY <2>1, <2>2
<1>7. Reading
  BY <1>0, <1>4 DEF Reading
<1>8. /\ <<>> \in Seq(Unwritten) /\ <<Point("request_error", r)>> \in Seq(Unwritten)
      /\ <<Callback("route", r), Point("deliver", r)>> \in Seq(Unwritten)
      /\ <<Point("deliver", r)>> \in Seq(Unwritten)
  <2>1. /\ Point("request_error", r) \in Unwritten /\ Point("deliver", r) \in Unwritten
        /\ Callback("route", r) \in Unwritten
    BY <1>1, PlainFrames DEF Events
  <2> QED
    BY <2>1
<1>10. StackStep
  BY <1>0, <1>2, <1>7, <1>8 DEF StackStep, Called
<1> QED
  BY <1>0, <1>5, <1>6, <1>10 DEF InputStep

\* The chunks and the end of a response are written for its request.
LEMMA ItemsOf ==
    ASSUME NEW r \in Requests, NEW ns \in Seq(ChunkNumbers)
    PROVE  Chunks(r, ns) \in Seq(Of(r)) /\ End(r) \in Seq(Of(r)) /\ <<>> \in Seq(Of(r))
<1>1. End(r) \in Seq(Of(r)) /\ <<>> \in Seq(Of(r))
  BY BoundsAssumption DEF End, Of, Item
<1>2. Chunks(r, ns) \in Seq(Item)
  BY ChunksType, BoundsAssumption
<1>3. \A i \in 1 .. Len(Chunks(r, ns)) : Chunks(r, ns)[i].r = r
  BY DEF Chunks
<1> DEFINE cs == Chunks(r, ns)
<1> HIDE DEF cs
<1>4. cs \in Seq(Item) /\ \A i \in 1 .. Len(cs) : cs[i].r = r
  BY <1>2, <1>3 DEF cs
<1>5. \A i \in 1 .. Len(cs) : cs[i] \in Of(r)
  BY <1>4 DEF Of
<1>6. cs \in Seq(Of(r))
  BY <1>4, <1>5
<1> QED
  BY <1>1, <1>6 DEF cs

\* Writing the front's response is a write for the front.
LEMMA WriteMove ==
    ASSUME TypeOK, OrderInv, WriteNextResponse
    PROVE  /\ OrderStep /\ StackStep /\ InputStep
           /\ requests # <<>> /\ Head(requests) = Top.r
           /\ \E items \in Seq(Of(Head(requests))) : wire' = wire \o items
<1> DEFINE r == Top.r
           kept == IF res[r].st = "open" THEN res[r].parts ELSE <<>>
           then(pc) == [pc |-> pc, r |-> r, ev |-> "-", tmp |-> kept]
           last == ~res[r].ka \/ ~req[r].shape.ka
           head == <<[r |-> r, k |-> IF last THEN "lasthead" ELSE "head", n |-> 0]>>
           body == IF res[r].st = "open" THEN <<>> ELSE Chunks(r, res[r].parts) \o End(r)
<1>0. /\ stack # <<>> /\ Top.pc = "write" /\ r \in Requests /\ stack \in Seq(Frame)
      /\ requests \in Seq(Requests) /\ wire \in Seq(Item)
  BY TopRequest DEF WriteNextResponse, At, TypeOK
<1>1. requests # <<>> /\ Head(requests) = r
  <2>1. stack[1] = Top /\ 1 \in 1 .. Len(stack)
    BY <1>0, Below DEF Top
  <2> QED
    BY <1>0, <2>1 DEF OrderInv, WriteTop
<1>2. res[r].parts \in Seq(ChunkNumbers) /\ kept \in Seq(ChunkNumbers)
  BY <1>0 DEF TypeOK, ServerResponse
<1>3. wire' = wire \o head \o body \/ wire' = wire
  BY DEF WriteNextResponse
<1>4. UNCHANGED input /\ (stream'.reading => stream.reading)
  BY DEF WriteNextResponse, TypeOK, Stream, input
<1>5. \/ stack' = <<Point("drop", 0), then("rejoin")>> \o Tail(stack) /\ requests' = Tail(requests)
      \/ stack' = <<then("wrote")>> \o Tail(stack) /\ requests' = requests
  BY DEF WriteNextResponse, Goto
<1>6. head \in Seq(Of(r)) /\ body \in Seq(Of(r))
  <2>1. head \in Seq(Of(r))
    BY <1>0, BoundsAssumption DEF Item, Of
  <2>2. Chunks(r, res[r].parts) \in Seq(Of(r)) /\ End(r) \in Seq(Of(r)) /\ <<>> \in Seq(Of(r))
    BY <1>0, <1>2, ItemsOf
  <2> DEFINE cs == Chunks(r, res[r].parts)
             e == End(r)
  <2> HIDE DEF cs, e
  <2>3. cs \o e \in Seq(Of(r))
    BY <2>2 DEF cs, e
  <2> QED
    BY <2>1, <2>2, <2>3 DEF cs, e
<1> HIDE DEF head, body, kept
<1>7. PICK items \in Seq(Of(r)) : wire' = wire \o items
  <2>1. CASE wire' = wire
    <3>1. <<>> \in Seq(Of(r)) /\ wire' = wire \o <<>>
      BY <1>0, <2>1
    <3> QED
      BY <3>1
  <2>2. CASE wire' = wire \o head \o body
    <3>1. head \in Seq(Item) /\ body \in Seq(Item) /\ head \o body \in Seq(Of(r))
      BY <1>6 DEF Of
    <3>2. wire' = wire \o (head \o body)
      BY <1>0, <2>2, <3>1, SMTT(20)
    <3> QED
      BY <3>1, <3>2
  <2> QED
    BY <1>3, <2>1, <2>2
<1>8. OrderStep
  BY <1>1, <1>4, <1>5, <1>7 DEF OrderStep, input
<1>9. then("rejoin") \in Frame /\ then("wrote") \in Frame /\ Point("drop", 0) \in Frame
  BY <1>0, <1>2, FrameTypes DEF Frame
<1>10. StackStep
  <2>1. CASE stack' = <<Point("drop", 0), then("rejoin")>> \o Tail(stack)
    <3>1. Point("drop", 0) \in Plain /\ then("rejoin") \in Plain
      BY <1>9, PlainFrames DEF Plain, Unwritten, InRead
    <3> HIDE DEF then
    <3>2. <<Point("drop", 0), then("rejoin")>> \in Seq(Plain)
      BY <3>1
    <3> QED
      BY <1>0, <2>1, <3>2 DEF StackStep, Called
  <2>2. CASE stack' = <<then("wrote")>> \o Tail(stack) /\ requests' = requests
    <3>1. then("wrote") \in Frame /\ then("wrote").pc = "wrote" /\ then("wrote").r = r
      BY <1>9
    <3> HIDE DEF then
    <3> QED
      BY <1>0, <1>1, <2>2, <3>1 DEF StackStep, Called
  <2> QED
    BY <1>5, <2>1, <2>2
<1>11. InputStep
  BY <1>0, <1>4 DEF InputStep
<1> QED
  BY <1>1, <1>7, <1>8, <1>10, <1>11

\* stream->write() for the front is a write for the front.
LEMMA WriteFront ==
    ASSUME TypeOK, requests # <<>>, NEW items \in Seq(Of(Head(requests))), Write(items),
           UNCHANGED <<requests, arrived>>
    PROVE  OrderStep /\ stream'.reading = stream.reading
<1>1. stream'.reading = stream.reading
  BY DEF Write, TypeOK, Stream
<1>2. UNCHANGED wire \/ wire' = wire \o items
  BY DEF Write
<1> QED
  BY <1>1, <1>2 DEF OrderStep

\* The routines that go on by themselves.
LEMMA StepMove ==
    ASSUME TypeOK, OrderInv, Step, ~Rejoin
    PROVE  OrderStep /\ StackStep /\ InputStep
<1>0. /\ stack \in Seq(Frame) /\ stream \in Stream /\ requests \in Seq(Requests)
  BY DEF TypeOK
<1> USE DEF Goto, At, flags, input
<1>1. ASSUME NEW result, NEW shape \in Shapes, Parse(result, shape)
      PROVE  OrderStep /\ StackStep /\ InputStep
  BY <1>1, ParseMove
<1>2. CASE Deliver
  <2> DEFINE go == <<Point("received", Top.r)>>
             part == <<Callback("partial", Top.r), Point("received", Top.r)>>
             whole == <<Callback("receive", Top.r), Callback("request", Top.r), Point("received", Top.r)>>
  <2>1. /\ Top.r \in Requests /\ stack # <<>> /\ Top.pc = "deliver" /\ Reading
        /\ UNCHANGED <<requests, arrived, wire, parsing, stream>>
    BY <1>2, TopRequest DEF Deliver, Reading, InRead
  <2>2. \E fs \in {part, whole, go} : stack' = fs \o Tail(stack)
    BY <1>2 DEF Deliver
  <2>3. part \in Seq(Unwritten) /\ whole \in Seq(Unwritten) /\ go \in Seq(Unwritten)
    <3>1. /\ Callback("partial", Top.r) \in Unwritten /\ Callback("receive", Top.r) \in Unwritten
          /\ Callback("request", Top.r) \in Unwritten /\ Point("received", Top.r) \in Unwritten
      BY <2>1, PlainFrames DEF Events
    <3> QED
      BY <3>1
  <2> HIDE DEF part, whole, go
  <2> QED
    BY <2>1, <2>2, <2>3, PlainMove DEF Called
<1>3. ASSUME NEW more \in BOOLEAN, Received(more)
      PROVE  OrderStep /\ StackStep /\ InputStep
  <2> DEFINE next == IF more THEN <<Point("on_read", 0)>> ELSE <<>>
             fin == <<Point("finish", 0)>>
  <2>1. /\ stack # <<>> /\ Top.pc = "received" /\ Reading /\ UNCHANGED <<requests, arrived, wire, parsing>>
        /\ stream'.reading => stream.reading
    BY <1>0, <1>3 DEF Received, Reading, InRead, Stream
  <2>2. \E fs \in {<<>>, fin \o next, next} : stack' = fs \o Tail(stack)
    BY <1>3 DEF Received
  <2>3. next \in Seq(Unwritten) /\ fin \in Seq(Unwritten) /\ <<>> \in Seq(Unwritten)
    BY PlainFrames
  <2> HIDE DEF next, fin
  <2>4. fin \o next \in Seq(Unwritten)
    BY <2>3
  <2> QED
    BY <2>1, <2>2, <2>3, <2>4, PlainMove DEF Called
<1>4. CASE RequestError
  <2> DEFINE cb(ev) == <<Callback(ev, Top.r), Point("errored", Top.r)>>
  <2>1. /\ Top.r \in Requests /\ stack # <<>> /\ Top.pc = "request_error"
        /\ UNCHANGED <<requests, arrived, wire, parsing>> /\ ~stream'.reading
    BY <1>0, <1>4, TopRequest DEF RequestError, Stream
  <2>2. \E fs \in {cb("partial_error"), cb("error")} : stack' = fs \o Tail(stack)
    BY <1>4 DEF RequestError
  <2>3. cb("partial_error") \in Seq(Plain) /\ cb("error") \in Seq(Plain)
    BY <2>1, PlainFrames DEF Events
  <2> HIDE DEF cb
  <2> QED
    BY <2>1, <2>2, <2>3, PlainMove DEF Called
<1>5. CASE Errored
  <2>1. Top.r \in Requests /\ stack # <<>> /\ Top.pc = "errored"
    BY <1>5, TopRequest DEF Errored
  <2>2. CASE respond(Top.r, FALSE, TRUE, Tail(stack))
    BY <2>1, <2>2, RespondMove
  <2>3. CASE stack' = <<>> \o Tail(stack) /\ UNCHANGED <<requests, arrived, wire, parsing, stream>>
    BY <2>1, <2>3, PlainMove, PlainCloses DEF Called
  <2> QED
    BY <1>5, <2>2, <2>3 DEF Errored
<1>6. CASE WriteNextResponse
  BY <1>6, WriteMove
<1>7. CASE Wrote
  <2>1. Top.r \in Requests /\ stack # <<>> /\ Top.pc = "wrote" /\ UNCHANGED <<requests, arrived, parsing>>
    BY <1>7, TopRequest DEF Wrote
  <2>2. requests # <<>> /\ Head(requests) = Top.r
    <3>1. stack[1] = Top /\ 1 \in 1 .. Len(stack)
      BY <1>0, <2>1, Below DEF Top
    <3> QED
      BY <2>1, <3>1 DEF OrderInv, WriteTop
  <2> DEFINE fin == <<Point("finish", 0)>>
  <2>3. fin \in Seq(Plain)
    BY PlainFrames
  <2>4. \E fs \in {<<>>, fin} : stack' = fs \o Tail(stack)
    BY <1>7 DEF Wrote
  <2> HIDE DEF fin
  <2>5. StackStep
    BY <2>1, <2>3, <2>4, PlainCloses DEF StackStep, Called
  <2>6. CASE UNCHANGED <<wire, stream>>
    BY <2>1, <2>5, <2>6 DEF OrderStep, InputStep
  <2>7. CASE Write(Chunks(Top.r, Top.tmp))
    <3>1. Top.tmp \in Seq(ChunkNumbers)
      <4>1. Head(stack) \in Frame
        BY <1>0, <2>1
      <4> QED
        BY <2>1, <4>1 DEF Frame, Top
    <3>2. Chunks(Top.r, Top.tmp) \in Seq(Of(Top.r))
      BY <2>1, <3>1, ItemsOf
    <3>3. OrderStep /\ stream'.reading = stream.reading
      BY <2>1, <2>2, <2>7, <3>2, WriteFront
    <3> QED
      BY <2>1, <2>5, <3>3 DEF InputStep
  <2> QED
    BY <1>7, <2>6, <2>7 DEF Wrote
<1>8. CASE FinishRequest
  <2> DEFINE r == Head(requests)
             fs == <<Callback("finish", r), Point("finished", 0)>>
  <2>1. stack # <<>> /\ Top.pc = "finish" /\ UNCHANGED <<arrived, parsing, wire, stream>>
    BY <1>8 DEF FinishRequest, Abort
  <2>2. \/ UNCHANGED <<requests, stack>>
        \/ UNCHANGED requests /\ stack' = <<>> \o Tail(stack)
        \/ requests # <<>> /\ requests' = Tail(requests) /\ stack' = fs \o Tail(stack)
    BY <1>8 DEF FinishRequest, Abort, Forget
  <2>3. requests # <<>> => fs \in Seq(Plain)
    <3> HAVE requests # <<>>
    <3>1. r \in Requests
      BY <1>0, QueueTail
    <3> QED
      BY <3>1, PlainFrames DEF Events
  <2> HIDE DEF fs
  <2>4. StackStep
    BY <2>1, <2>2, <2>3, PlainCloses DEF StackStep, Called
  <2> QED
    BY <2>1, <2>2, <2>4 DEF OrderStep, InputStep
<1>9. CASE Finished
  <2> DEFINE w == <<Point("write", Head(requests))>>
  <2>1. stack # <<>> /\ Top.pc = "finished" /\ UNCHANGED <<requests, arrived, parsing, wire>>
    BY <1>9 DEF Finished, Abort
  <2>2. stream'.reading = stream.reading
    BY <1>0, <1>9 DEF Finished, Abort, SoftClose, Stream
  <2>3. \/ UNCHANGED stack
        \/ stack' = <<>> \o Tail(stack)
        \/ stack' = Shutdown \o Tail(stack)
        \/ requests # <<>> /\ stack' = w \o Tail(stack)
    BY <1>9 DEF Finished, Abort
  <2> HIDE DEF w
  <2>4. StackStep
    <3>1. CASE UNCHANGED stack
      BY <2>1, <3>1 DEF StackStep
    <3>2. CASE stack' = <<>> \o Tail(stack) \/ stack' = Shutdown \o Tail(stack)
      BY <2>1, <3>2, PlainCloses DEF StackStep, Called
    <3>3. CASE requests # <<>> /\ stack' = w \o Tail(stack)
      <4> DEFINE f == Point("write", Head(requests))
      <4>1. Head(requests) \in Requests
        BY <1>0, <3>3, QueueTail
      <4>2. f \in Frame /\ f.pc = "write" /\ f.r = Head(requests)
        BY <4>1, FrameTypes DEF Point
      <4> HIDE DEF f
      <4>3. Called(<<f>>)
        BY <2>1, <3>3 DEF Called, f, w
      <4> QED
        BY <2>1, <3>3, <4>2, <4>3 DEF StackStep
    <3> QED
      BY <2>3, <3>1, <3>2, <3>3
  <2> QED
    BY <2>1, <2>2, <2>4 DEF OrderStep, InputStep
<1>10. CASE DropRequests
  <2>1. OrderStep /\ WindowStep /\ stack # <<>> /\ Top.pc = "drop"
    BY <1>10, DropWindow DEF DropRequests
  <2>2. PICK fs \in Seq(Shields(req')) : Called(fs)
    BY <2>1 DEF WindowStep
  <2>3. StackStep
    <3>1. Shields(req') \subseteq Plain
      BY DEF Shields, Shielded, Plain, Unwritten, InRead
    <3>2. fs \in Seq(Plain)
      BY <2>2, <3>1
    <3> QED
      BY <2>2, <3>2 DEF StackStep
  <2> QED
    BY <2>1, <2>3 DEF InputStep, WindowStep
<1>11. CASE RemoveConnection \/ Return
  <2>1. /\ UNCHANGED <<requests, arrived, wire, parsing, stream>> /\ stack' = <<>> \o Tail(stack)
        /\ stack # <<>> /\ Top.pc \in {"remove", "callback"}
    BY <1>11 DEF RemoveConnection, Return
  <2> QED
    BY <2>1, PlainMove, PlainCloses DEF Called
<1> QED
  BY <1>1, <1>2, <1>3, <1>4, <1>5, <1>6, <1>7, <1>8, <1>9, <1>10, <1>11 DEF Step

\* The stream's events and the timer.
LEMMA EventMove ==
    ASSUME TypeOK, OrderInv, Event
    PROVE  OrderStep /\ StackStep /\ InputStep
<1>0. stack = <<>> /\ stream \in Stream /\ requests \in Seq(Requests)
  BY DEF TypeOK, Event, Loop, OnRead, OnReadError, OnConnectionError, OnWrite, OnWriteError, OnShutdown,
         OnEof, OnIdleTimer
<1>1. \A fs \in Seq(Unwritten) : stack' = fs => Called(fs)
  BY <1>0 DEF Called
<1> USE DEF flags, input
<1>2. CASE OnRead
  <2> DEFINE fs == <<Point("on_read", 0)>>
  <2>1. fs \in Seq(Unwritten)
    BY PlainFrames
  <2>2. UNCHANGED <<requests, arrived, wire, parsing, stream>> /\ stack' = fs /\ Reading
    BY <1>0, <1>2 DEF OnRead, CanRead, Reading
  <2> HIDE DEF fs
  <2> QED
    BY <1>0, <1>1, <2>1, <2>2, PlainMove
<1>3. CASE OnReadError
  <2> DEFINE fresh == requests = <<>> \/ req[Last(requests)].done
             r == IF fresh THEN arrived + 1 ELSE Last(requests)
             fs == <<Point("request_error", r)>>
  <2>1. r \in Requests
    BY <1>3, ErrorRequest
  <2>2. /\ requests' = IF fresh THEN Append(requests, r) ELSE requests
        /\ arrived' = IF fresh THEN r ELSE arrived
        /\ stack' = fs /\ UNCHANGED <<parsing, wire, stream>>
    BY <1>3 DEF OnReadError
  <2>3. arrived \in Int
    BY DEF TypeOK
  <2>4. OrderStep
    <3>1. CASE ~fresh
      BY <2>2, <3>1 DEF OrderStep
    <3>2. CASE fresh
      <4>1. requests' = Append(requests, arrived') /\ arrived' = arrived + 1 /\ UNCHANGED wire
        BY <2>2, <3>2
      <4>2. requests # <<>> => requests[Len(requests)] < arrived + 1
        <5> HAVE requests # <<>>
        <5>1. Len(requests) \in 1 .. Len(requests) /\ requests[Len(requests)] \in Int
          BY <1>0, BoundsAssumption DEF Requests
        <5>2. requests[Len(requests)] <= arrived
          BY <5>1 DEF OrderInv, Sorted
        <5> QED
          BY <2>3, <5>1, <5>2
      <4> QED
        BY <2>3, <4>1, <4>2 DEF OrderStep
    <3> QED
      BY <3>1, <3>2
  <2> HIDE DEF r, fresh
  <2>5. /\ fs \in Seq(Plain) /\ fs \in Seq(Unwritten)
        /\ Len(fs) = 1 /\ \A i \in 1 .. Len(fs) : fs[i].pc = "request_error"
    <3>1. fs \in Seq(Plain) /\ fs \in Seq(Unwritten)
      BY <2>1, PlainFrames
    <3> QED
      BY <3>1 DEF Point
  <2> HIDE DEF fs
  <2>6. StackStep
    BY <1>1, <2>2, <2>5 DEF StackStep
  <2>7. NoInput'
    BY <2>2, <2>5 DEF NoInput, InRead
  <2> QED
    BY <2>4, <2>6, <2>7 DEF InputStep
<1>4. CASE OnConnectionError \/ OnWriteError \/ OnIdleTimer \/ OnEof
  <2>1. UNCHANGED <<requests, arrived, wire, parsing>> /\ stack' \in {stack, Close, Shutdown}
    BY <1>4 DEF OnConnectionError, OnWriteError, OnIdleTimer, OnEof, Abort
  <2>2. stream'.reading = stream.reading
    BY <1>0, <1>4 DEF OnConnectionError, OnWriteError, OnIdleTimer, OnEof, Abort, HardClose, Stream
  <2> QED
    <3>1. /\ Close \in Seq(Plain) /\ Shutdown \in Seq(Plain)
          /\ Close \in Seq(Unwritten) /\ Shutdown \in Seq(Unwritten)
      BY PlainFrames DEF Close, Shutdown
    <3> QED
      BY <1>0, <1>1, <2>1, <2>2, <3>1, PlainMove
<1>5. CASE OnWrite \/ OnShutdown
  <2>1. UNCHANGED <<requests, arrived, wire, parsing, stack>>
    BY <1>5 DEF OnWrite, OnShutdown
  <2>2. stream'.reading = stream.reading
    BY <1>0, <1>5 DEF OnWrite, OnShutdown, Stream
  <2> QED
    BY <1>0, <2>1, <2>2, PlainMove
<1> QED
  BY <1>2, <1>3, <1>4, <1>5 DEF Event

\* The user's calls.
LEMMA UserMove ==
    ASSUME TypeOK, OrderInv, User
    PROVE  OrderStep /\ StackStep /\ InputStep
<1>0. /\ stack \in Seq(Frame) /\ stream \in Stream /\ requests \in Seq(Requests)
      /\ MaxRequests \in Nat \ {0} /\ MaxChunks \in Nat
  BY BoundsAssumption DEF TypeOK
<1>1. stack # <<>> => Top.pc = "callback"
  BY DEF User, Respond, EnablePartial, SendContinue, SendChunk, SendFinalChunk, Drop, Upgrade,
         CloseConnection, GracefulStop, UserMay
<1> USE DEF flags, input
<1>2. ASSUME NEW r \in Requests, NEW ka, NEW whole, Respond(r, ka, whole)
      PROVE  OrderStep /\ StackStep /\ InputStep
  <2>1. respond(r, ka, whole, stack)
    BY <1>2 DEF Respond
  <2> QED
    BY <1>1, <2>1, RespondMove
<1>3. ASSUME NEW r \in Requests, EnablePartial(r)
      PROVE  OrderStep /\ StackStep /\ InputStep
  BY <1>1, <1>3, PlainMove DEF EnablePartial
<1>4. ASSUME NEW r \in Requests, SendContinue(r)
      PROVE  OrderStep /\ StackStep /\ InputStep
  <2> DEFINE items == <<[r |-> r, k |-> "continue", n |-> 0]>>
  <2>1. CASE Abort("send: empty queue")
    BY <1>1, <2>1, PlainMove DEF Abort
  <2>2. CASE ~Abort("send: empty queue")
    <3>1. /\ requests # <<>> /\ Head(requests) = r /\ Write(items)
          /\ UNCHANGED <<requests, arrived, parsing, stack>>
      BY <1>4, <2>2 DEF SendContinue
    <3>2. items \in Seq(Of(r))
      BY <1>0 DEF Item, Of
    <3> HIDE DEF items
    <3>3. OrderStep /\ stream'.reading = stream.reading
      BY <3>1, <3>2, WriteFront
    <3> QED
      BY <1>1, <3>1, <3>3 DEF StackStep, InputStep
  <2> QED
    BY <2>1, <2>2
<1>5. ASSUME NEW r \in Requests, SendChunk(r)
      PROVE  OrderStep /\ StackStep /\ InputStep
  <2> DEFINE n == res[r].given + 1
             items == Chunks(r, <<n>>)
  <2>1. CASE requests = <<>> \/ Head(requests) # r
    <3>1. UNCHANGED <<requests, arrived, wire, parsing, stream, stack>>
      BY <1>5, <2>1 DEF SendChunk, Abort
    <3> QED
      BY <1>1, <3>1, PlainMove
  <2>2. CASE requests # <<>> /\ Head(requests) = r
    <3>1. Write(items) /\ UNCHANGED <<requests, arrived, parsing, stack>> /\ res[r].given < MaxChunks
      BY <1>5, <2>2 DEF SendChunk
    <3>2. items \in Seq(Of(r))
      <4>1. n \in ChunkNumbers
        BY <1>0, <3>1 DEF TypeOK, ServerResponse, ChunkNumbers
      <4> HIDE DEF n
      <4>2. <<n>> \in Seq(ChunkNumbers)
        BY <4>1
      <4> QED
        BY <4>2, ItemsOf
    <3> HIDE DEF items
    <3>3. OrderStep /\ stream'.reading = stream.reading
      BY <2>2, <3>1, <3>2, WriteFront
    <3> QED
      BY <1>1, <3>1, <3>3 DEF StackStep, InputStep
  <2> QED
    BY <2>1, <2>2
<1>6. ASSUME NEW r \in Requests, SendFinalChunk(r)
      PROVE  OrderStep /\ StackStep /\ InputStep
  <2> DEFINE n == res[r].given + 1
             data == IF FinalData THEN <<n>> ELSE <<>>
             items == Chunks(r, data) \o End(r)
             fin == <<Point("finish", 0)>>
  <2>1. CASE requests = <<>> \/ Head(requests) # r
    <3>1. UNCHANGED <<requests, arrived, wire, parsing, stream, stack>>
      BY <1>6, <2>1 DEF SendFinalChunk, Abort
    <3> QED
      BY <1>1, <3>1, PlainMove
  <2>2. CASE requests # <<>> /\ Head(requests) = r
    <3>1. /\ Write(items) /\ UNCHANGED <<requests, arrived, parsing>> /\ res[r].given <= MaxChunks
          /\ stack' = fin \o stack
      BY <1>6, <2>2 DEF SendFinalChunk
    <3>2. items \in Seq(Of(r))
      <4>1. n \in ChunkNumbers
        BY <1>0, <3>1 DEF TypeOK, ServerResponse, ChunkNumbers
      <4> HIDE DEF n
      <4>2. data \in Seq(ChunkNumbers)
        BY <4>1
      <4> HIDE DEF data
      <4>3. Chunks(r, data) \in Seq(Of(r)) /\ End(r) \in Seq(Of(r))
        BY <4>2, ItemsOf
      <4> DEFINE cs == Chunks(r, data)
                 e == End(r)
      <4> HIDE DEF cs, e
      <4>4. cs \o e \in Seq(Of(r))
        BY <4>3 DEF cs, e
      <4> QED
        BY <4>4 DEF cs, e
    <3> HIDE DEF items
    <3>3. OrderStep /\ stream'.reading = stream.reading
      BY <2>2, <3>1, <3>2, WriteFront
    <3>4. fin \in Seq(Plain)
      BY PlainFrames
    <3> HIDE DEF fin
    <3>5. StackStep
      BY <1>1, <3>1, <3>4 DEF StackStep, Called
    <3> QED
      BY <1>1, <3>1, <3>3, <3>5 DEF InputStep
  <2> QED
    BY <2>1, <2>2
<1>7. CASE CloseConnection \/ GracefulStop \/ \E r \in Requests : Drop(r)
  <2>2. /\ UNCHANGED <<requests, arrived, wire, parsing>>
        /\ UNCHANGED stack \/ stack' = Close \o stack \/ stack' = Shutdown \o stack
    BY <1>7 DEF CloseConnection, GracefulStop, Drop
  <2>3. stream'.reading = stream.reading
    BY <1>0, <1>7 DEF CloseConnection, GracefulStop, Drop, HardClose, SoftClose, Stream
  <2> QED
    BY <1>1, <2>2, <2>3, PlainMove, PlainCloses DEF Called
<1>8. ASSUME NEW r \in Requests, Upgrade(r)
      PROVE  OrderStep /\ StackStep /\ InputStep
  <2> DEFINE fs == <<Callback("finish", r), Point("remove", 0)>>
  <2>1. CASE requests # <<r>>
    <3>1. UNCHANGED <<requests, arrived, wire, parsing, stream, stack>>
      BY <1>8, <2>1 DEF Upgrade, Abort
    <3> QED
      BY <1>1, <3>1, PlainMove
  <2>2. CASE requests = <<r>>
    <3>1. /\ requests # <<>> /\ requests' = Tail(requests) /\ UNCHANGED <<arrived, wire, parsing>>
          /\ stack' = fs \o stack
      BY <1>8, <2>2 DEF Upgrade, Forget
    <3>2. stream'.reading = stream.reading
      BY <1>0, <1>8, <2>2 DEF Upgrade, Stream
    <3>3. fs \in Seq(Plain)
      BY PlainFrames DEF Events
    <3> HIDE DEF fs
    <3>4. StackStep
      BY <1>1, <3>1, <3>3 DEF StackStep, Called
    <3> QED
      BY <1>1, <3>1, <3>2, <3>4 DEF OrderStep, InputStep
  <2> QED
    BY <2>1, <2>2
<1> QED
  BY <1>2, <1>3, <1>4, <1>5, <1>6, <1>7, <1>8 DEF User

\* The response that is being written has reached its request, and what is
\* dropped meanwhile is behind it.
LEMMA WriteRejoins ==
    ASSUME TypeOK, TypeOK', OrderInv, WriteNextResponse, ~HasRejoin(stack)
    PROVE  Rejoins'
<1> DEFINE r == Top.r
           kept == IF res[r].st = "open" THEN res[r].parts ELSE <<>>
           then(pc) == [pc |-> pc, r |-> r, ev |-> "-", tmp |-> kept]
<1>0. /\ stack # <<>> /\ r \in Requests /\ stack \in Seq(Frame) /\ requests \in Seq(Requests)
      /\ Tail(stack) \in Seq(Frame) /\ UNCHANGED arrived
  BY TopRequest, Below DEF WriteNextResponse, At, TypeOK, input
<1>1. /\ requests # <<>> /\ Head(requests) = r
      /\ \E items \in Seq(Of(Head(requests))) : wire' = wire \o items
  BY WriteMove
<1>2. \A k \in 1 .. Len(wire') : wire'[k].r <= r
  BY <1>1, FrontWritten DEF OrderInv
<1>3. \/ stack' = <<Point("drop", 0), then("rejoin")>> \o Tail(stack) /\ requests' = Tail(requests)
      \/ stack' = <<then("wrote")>> \o Tail(stack)
  BY DEF WriteNextResponse, Goto
<1>4. kept \in Seq(ChunkNumbers)
  BY <1>0 DEF TypeOK, ServerResponse
<1> HIDE DEF kept
<1>5. then("rejoin") \in Frame /\ then("wrote") \in Frame /\ Point("drop", 0) \in Frame
  BY <1>0, <1>4, FrameTypes DEF Frame
<1>6. \A i \in 1 .. Len(Tail(stack)) : Tail(stack)[i].pc # "rejoin"
  BY <1>0, Below DEF HasRejoin
<1>7. CASE stack' = <<then("wrote")>> \o Tail(stack)
  <2> DEFINE fs == <<then("wrote")>>
  <2>1. fs \in Seq(Frame) /\ \A i \in 1 .. Len(fs) : fs[i].pc = "wrote"
    BY <1>5
  <2> HIDE DEF fs
  <2>2. \A i \in 1 .. Len(stack') : stack'[i].pc # "rejoin"
    <3>1. stack' = fs \o Tail(stack)
      BY <1>7 DEF fs
    <3> QED
      <4> DEFINE t == Tail(stack)
      <4> HIDE DEF t
      <4>1. /\ t \in Seq(Frame) /\ stack' = fs \o t /\ \A i \in 1 .. Len(t) : t[i].pc # "rejoin"
        BY <1>0, <1>6, <3>1 DEF t
      <4>2. \A i \in 1 .. Len(fs) : stack'[i].pc # "rejoin"
        BY <2>1, <4>1
      <4> QED
        BY <2>1, <4>1, <4>2, Splice
  <2> QED
    BY <2>2 DEF Rejoins
<1>8. CASE stack' = <<Point("drop", 0), then("rejoin")>> \o Tail(stack) /\ requests' = Tail(requests)
  <2> DEFINE fs == <<Point("drop", 0), then("rejoin")>>
  <2>1. /\ fs \in Seq(Frame) /\ Len(fs) = 2 /\ fs[1].pc = "drop" /\ fs[2].pc = "rejoin" /\ fs[2].r = r
    BY <1>5 DEF Point
  <2> HIDE DEF fs
  <2>2. stack' = fs \o Tail(stack)
    BY <1>8 DEF fs
  <2>3. /\ stack'[1] = fs[1] /\ \A i \in 1 .. Len(stack') : stack'[i].pc = "rejoin" => i = 2 /\ stack'[i].r = r
    <3> DEFINE t == Tail(stack)
    <3> HIDE DEF t
    <3>1. /\ t \in Seq(Frame) /\ stack' = fs \o t /\ \A i \in 1 .. Len(t) : t[i].pc # "rejoin"
      BY <1>0, <1>6, <2>2 DEF t
    <3>2. /\ \A i \in 1 .. Len(fs) : stack'[i] = fs[i]
          /\ \A i \in 1 .. Len(stack') :
                 i \in 1 .. Len(fs) \/ (i - Len(fs) \in 1 .. Len(t) /\ stack'[i] = t[i - Len(fs)])
      BY <2>1, <3>1, Splice
    <3>3. \A i \in 1 .. Len(stack') : stack'[i].pc = "rejoin" => i \in 1 .. 2
      BY <2>1, <3>1, <3>2
    <3> QED
      BY <2>1, <3>2, <3>3
  <2>4. Shielded(req', stack'[1])
    BY <2>1, <2>3 DEF Shielded
  <2>5. \A i \in 1 .. Len(requests') : r < requests'[i]
    <3>1. \A k \in 1 .. Len(wire') : wire'[k].r \in Int
      <4>1. \A k \in 1 .. Len(wire') : wire'[k] \in Item
        BY DEF TypeOK
      <4> QED
        BY <4>1, BoundsAssumption DEF Item, Requests
    <3> QED
      BY <1>0, <1>1, <1>2, <1>8, <3>1, FrontReached DEF OrderInv
  <2>6. r <= arrived'
    <3>1. 1 \in 1 .. Len(requests) /\ requests[1] = r
      BY <1>0, <1>1, QueueTail
    <3> QED
      BY <1>0, <3>1 DEF OrderInv, Sorted
  <2> SUFFICES ASSUME NEW k \in 1 .. Len(stack'), stack'[k].pc = "rejoin"
               PROVE  /\ \A i \in 1 .. k - 1 : Shielded(req', stack'[i])
                      /\ Reaching(wire', stack'[k].r) /\ stack'[k].r <= arrived'
                      /\ \A i \in 1 .. Len(requests') : stack'[k].r < requests'[i]
    BY DEF Rejoins
  <2>8. k = 2 /\ stack'[k].r = r /\ \A i \in 1 .. k - 1 : i = 1
    BY <2>3
  <2>9. \A i \in 1 .. k - 1 : Shielded(req', stack'[i])
    BY <2>4, <2>8
  <2>10. Reaching(wire', stack'[k].r)
    BY <1>2, <2>8 DEF Reaching
  <2> QED
    BY <2>5, <2>6, <2>8, <2>9, <2>10
<1> QED
  BY <1>3, <1>7, <1>8

\* Every step keeps the order.
LEMMA NextOrder ==
    ASSUME TypeOK, TypeOK', OrderInv, OwnOnly, Next
    PROVE  OrderInv'
<1>0. stack \in Seq(Frame)
  BY DEF TypeOK
<1>1. CASE Rejoin
  BY <1>1, RejoinKeeps
<1>2. CASE ~Rejoin /\ HasRejoin(stack)
  <2>1. CASE Top.pc # "rejoin"
    BY <1>2, <2>1, WindowKeeps
  <2>2. CASE Top.pc = "rejoin"
    <3>1. stack # <<>>
      BY <1>2 DEF HasRejoin
    <3> QED
      BY <1>2, <2>2, <3>1 DEF Next, Step, Event, User, At, Loop, UserMay, Parse, Deliver, Received, RequestError,
            Errored, WriteNextResponse, Wrote, FinishRequest, Finished, DropRequests, RemoveConnection,
            Return, OnRead, OnReadError, OnConnectionError, OnWrite, OnWriteError, OnShutdown, OnEof,
            OnIdleTimer, Respond, EnablePartial, SendContinue, SendChunk, SendFinalChunk, Drop, Upgrade,
            CloseConnection, GracefulStop
  <2> QED
    BY <2>1, <2>2
<1>3. CASE ~Rejoin /\ ~HasRejoin(stack)
  <2>1. OrderStep /\ StackStep /\ InputStep
    BY <1>3, StepMove, EventMove, UserMove DEF Next
  <2>2. Sorted' /\ Reached' /\ WireInOrder'
    BY <2>1, OrderStepKeeps DEF OrderInv
  <2>3. WriteTop' /\ Parsed'
    BY <2>1, StackStepKeeps DEF OrderInv
  <2>4. Rejoins'
    <3>1. CASE WriteNextResponse
      BY <1>3, <3>1, WriteRejoins
    <3>2. CASE CalmStep
      <4>1. ~HasRejoin(stack')
        BY <1>3, <3>2, CalmStepKeeps
      <4> QED
        BY <4>1 DEF HasRejoin, Rejoins
    <3> QED
      BY <3>1, <3>2, StepCalm, EventCalm, UserCalm DEF Next
  <2> QED
    BY <2>2, <2>3, <2>4 DEF OrderInv
<1> QED
  BY <1>1, <1>2, <1>3

\* Responses leave in the order of their requests, whatever the user answers
\* when, from which callback or from the loop, and whatever fails in between
\* (respond 143, finish_request 244, send_chunk 204, send_final_chunk 216), as
\* long as a callback only deals with the request it is given.  The order needs
\* that: while write_next_response() has the front out of the queue (166-174) a
\* callback that is made for a dropped request could answer the next one.
THEOREM InOrder ==
    ASSUME OwnOnly
    PROVE  Spec => []WireInOrder
<1>1. Init => OrderInv
  BY DEF Init, OrderInv, Sorted, Reached, Reaching, Parsed, WriteTop, Rejoins, WireInOrder
<1>2. TypeOK /\ TypeOK' /\ OrderInv /\ [Next]_vars => OrderInv'
  <2>1. ASSUME OrderInv, UNCHANGED vars PROVE OrderInv'
    BY <2>1 DEF vars, OrderInv, Sorted, Reached, Reaching, Parsed, NoInput, WriteTop, Rejoins, Shielded,
                WireInOrder
  <2> QED
    BY <2>1, NextOrder
<1>3. OrderInv => WireInOrder
  BY DEF OrderInv
<1> QED
  BY <1>1, <1>2, <1>3, TypeCorrect, PTL DEF Spec

-----------------------------------------------------------------------------
(* A response that announced the end is the last *)

\* The connection may still write: nothing is written after that (Write).
Running == stream.mode \in {"open", "user"} /\ fault = "none"

\* The stream does not call on_read() again.
Quieted == ~stream.reading \/ ~stream.listener

\* The event that the code on the stack s was entered by.
Base(s) == s[Len(s)]

\* on_read() is what the stream called, and it deals with the latest request.
ReadsLatest ==
    \A i \in 1 .. Len(stack) :
        stack[i].pc \in InRead => i = Len(stack) /\ (stack[i].pc # "on_read" => stack[i].r = arrived)

\* A queued request that is still arriving is the latest one and in the parser.
Undone ==
    \A i \in 1 .. Len(requests) :
        ~req[requests[i]].done => requests[i] = arrived /\ parsing = arrived

\* Every queued request is the latest one (so there is at most one).
OnlyLatest == \A i \in 1 .. Len(requests) : requests[i] = arrived

\* The latest request was received, or answered while it was arriving.
LatestDone == arrived # 0 /\ req[arrived].done
LatestFin == arrived # 0 /\ req[arrived].fin

\* A request that was answered while it was arriving is alone in the queue.
EarlyAlone == LatestFin => OnlyLatest

\* on_read() goes on below another routine only while it finishes a request that
\* was answered while it was arriving, and that empties the queue.
Covered ==
    LET n == Len(stack)
    IN  n > 1 /\ Base(stack).pc = "on_read" =>
            \/ n = 2 /\ stack[1].pc = "finish" /\ OnlyLatest /\ LatestDone
            \/ /\ stack[n - 1].pc = "finished" /\ requests = <<>>
               /\ \A j \in 1 .. n - 2 : Shielded(req, stack[j])

\* The front that is out of the queue was received, and it is put back into an
\* empty queue.
Held ==
    \A k \in 1 .. Len(stack) : stack[k].pc = "rejoin" =>
        /\ IF k = 1 THEN requests = <<>> ELSE stack[k - 1].pc = "drop"
        /\ req[stack[k].r].done /\ ~LatestFin

\* The code on the stack ends without another request: it finishes a request of
\* a closing connection, or turns the reading off.
Ending ==
    /\ stack # <<>>
    /\ \/ Base(stack).pc \in {"finish", "finished", "request_error"}
       \/ Base(stack).pc = "on_read" /\ Len(stack) > 1
       \/ Base(stack).pc \in {"deliver", "received"} /\ LatestDone

\* No other request is taken up.
NoMore == (Quieted /\ ~(Len(stack) = 1 /\ stack[1].pc = "on_read")) \/ Ending

\* r is alone in the queue and still arriving.
Arriving(r) == requests = <<r>> /\ ~req[r].done /\ parsing = r /\ ~HasRejoin(stack)

\* r was received, it is the only request that is left, and no other follows.
Remaining(r) ==
    /\ NoMore
    /\ \A k \in 1 .. Len(stack) : stack[k].pc = "rejoin" => stack[k].r = r
    /\ HasRejoin(stack) \/ requests = <<>> \/ (requests = <<r>> /\ req[r].done)

\* What holds once r announced the end of the connection.
Announced ==
    \A r \in Requests : Written(r, "lasthead") => closing /\ (Arriving(r) \/ Remaining(r))

\* The inductive invariant behind LastIsLast.
RunningInv ==
    /\ ReadsLatest /\ Undone /\ EarlyAlone
    /\ Covered /\ Held /\ Over(stack)
    /\ Announced

LastInv == LastIsLast /\ (Running => RunningInv)

-----------------------------------------------------------------------------
(* Steps of the stack *)

\* The step takes m frames off the stack and puts fs on it.
Moves(fs, m) ==
    /\ m <= Len(stack) /\ Len(stack') = Len(fs) + Len(stack) - m
    /\ \A i \in 1 .. Len(fs) : i \in 1 .. Len(stack') /\ stack'[i] = fs[i]
    /\ \A i \in 1 .. Len(stack') : i > Len(fs) =>
           i - Len(fs) + m \in m + 1 .. Len(stack) /\ stack'[i] = stack[i - Len(fs) + m]
    /\ \A j \in m + 1 .. Len(stack) :
           j - m + Len(fs) \in Len(fs) + 1 .. Len(stack') /\ stack'[j - m + Len(fs)] = stack[j]

\* A call puts frames on the stack.
LEMMA MovesCall ==
    ASSUME TypeOK, NEW fs \in Seq(Frame), stack' = fs \o stack
    PROVE  Moves(fs, 0)
<1>1. stack \in Seq(Frame)
  BY DEF TypeOK
<1>2. /\ Len(stack') = Len(fs) + Len(stack) /\ Len(fs) \in Nat /\ Len(stack) \in Nat
      /\ \A i \in 1 .. Len(fs) : stack'[i] = fs[i]
      /\ \A i \in 1 .. Len(stack) : stack'[i + Len(fs)] = stack[i]
      /\ \A i \in 1 .. Len(stack') :
             i \in 1 .. Len(fs) \/ (i - Len(fs) \in 1 .. Len(stack) /\ stack'[i] = stack[i - Len(fs)])
  BY <1>1, Splice
<1> QED
  BY <1>2 DEF Moves

\* A routine that goes on puts frames in the place of its own.
LEMMA MovesGoto ==
    ASSUME TypeOK, stack # <<>>, NEW fs \in Seq(Frame), stack' = fs \o Tail(stack)
    PROVE  Moves(fs, 1)
<1> DEFINE t == Tail(stack)
<1>1. /\ t \in Seq(Frame) /\ Len(t) = Len(stack) - 1 /\ Len(stack) \in Nat \ {0}
      /\ \A i \in 1 .. Len(t) : i + 1 \in 1 .. Len(stack) /\ t[i] = stack[i + 1]
  BY Below DEF TypeOK
<1> HIDE DEF t
<1>2. /\ Len(stack') = Len(fs) + Len(t) /\ Len(fs) \in Nat /\ Len(t) \in Nat
      /\ \A i \in 1 .. Len(fs) : stack'[i] = fs[i]
      /\ \A i \in 1 .. Len(t) : stack'[i + Len(fs)] = t[i]
      /\ \A i \in 1 .. Len(stack') :
             i \in 1 .. Len(fs) \/ (i - Len(fs) \in 1 .. Len(t) /\ stack'[i] = t[i - Len(fs)])
  BY <1>1, Splice DEF t
<1>3. \A i \in 1 .. Len(stack') : i > Len(fs) =>
           i - Len(fs) + 1 \in 2 .. Len(stack) /\ stack'[i] = stack[i - Len(fs) + 1]
  <2> TAKE i \in 1 .. Len(stack')
  <2> HAVE i > Len(fs)
  <2>1. i - Len(fs) \in 1 .. Len(t) /\ stack'[i] = t[i - Len(fs)]
    BY <1>2
  <2> QED
    BY <1>1, <1>2, <2>1
<1>4. \A j \in 2 .. Len(stack) :
           j - 1 + Len(fs) \in Len(fs) + 1 .. Len(stack') /\ stack'[j - 1 + Len(fs)] = stack[j]
  <2> TAKE j \in 2 .. Len(stack)
  <2>1. j - 1 \in 1 .. Len(t) /\ (j - 1) + 1 = j
    BY <1>1
  <2>2. stack'[(j - 1) + Len(fs)] = t[j - 1] /\ t[j - 1] = stack[j]
    BY <1>1, <1>2, <2>1
  <2> QED
    BY <1>1, <1>2, <2>1, <2>2
<1>5. 1 <= Len(stack) /\ Len(stack') = Len(fs) + Len(stack) - 1
  BY <1>1, <1>2
<1>6. \A i \in 1 .. Len(fs) : i \in 1 .. Len(stack') /\ stack'[i] = fs[i]
  BY <1>2
<1>7. 1 + 1 = 2
  OBVIOUS
<1> QED
  BY <1>3, <1>4, <1>5, <1>6, <1>7 DEF Moves

\* A step that leaves the stack alone.
LEMMA MovesNot ==
    ASSUME TypeOK, UNCHANGED stack
    PROVE  Moves(<<>>, 0)
<1>1. stack \in Seq(Frame) /\ Len(stack) \in Nat
  BY DEF TypeOK
<1> QED
  BY <1>1 DEF Moves

\* Frames of other routines than on_read(), drop_requests() and
\* write_next_response() while the front is out of the queue.
Tame == {f \in Frame : f.pc \notin InRead \cup {"drop", "rejoin"}}

\* A tame step leaves every drop_requests() over its caller.
LEMMA TameOver ==
    ASSUME TypeOK, Over(stack), NEW fs \in Seq(Tame), NEW m \in {0, 1}, Moves(fs, m)
    PROVE  Over(stack')
<1>1. Len(fs) \in Nat /\ Len(stack) \in Nat /\ \A i \in 1 .. Len(fs) : fs[i].pc # "drop"
  BY DEF TypeOK, Tame
<1> SUFFICES ASSUME NEW i \in 1 .. Len(stack'), stack'[i].pc = "drop"
             PROVE  i + 1 \in 1 .. Len(stack') /\ stack'[i + 1].pc = "rejoin"
  BY DEF Over
<1> DEFINE j == i - Len(fs) + m
<1>2. i > Len(fs)
  BY <1>1 DEF Moves
<1>3. j \in m + 1 .. Len(stack) /\ stack'[i] = stack[j]
  BY <1>2 DEF Moves
<1>4. j + 1 \in m + 1 .. Len(stack) /\ stack[j + 1].pc = "rejoin"
  <2>1. j \in 1 .. Len(stack) /\ j >= m + 1 /\ stack[j].pc = "drop"
    BY <1>1, <1>3
  <2>2. j + 1 \in 1 .. Len(stack) /\ stack[j + 1].pc = "rejoin"
    BY <2>1 DEF Over
  <2> HIDE DEF j
  <2> QED
    BY <1>1, <2>1, <2>2
<1>5. stack'[(j + 1) - m + Len(fs)] = stack[j + 1] /\ (j + 1) - m + Len(fs) \in Len(fs) + 1 .. Len(stack')
  BY <1>4 DEF Moves
<1>6. (j + 1) - m + Len(fs) = i + 1
  BY <1>1
<1>7. Len(fs) + 1 .. Len(stack') \subseteq 1 .. Len(stack')
  BY <1>1
<1> QED
  BY <1>4, <1>5, <1>6, <1>7

\* Frames of other routines than on_read().
Unread == {f \in Frame : f.pc \notin InRead}

\* A step with such frames leaves on_read() where it is.
LEMMA UnreadReads ==
    ASSUME TypeOK, ReadsLatest, NEW fs \in Seq(Unread), NEW m \in {0, 1}, Moves(fs, m), arrived' = arrived
    PROVE  ReadsLatest'
<1>1. Len(fs) \in Nat /\ Len(stack) \in Nat /\ \A i \in 1 .. Len(fs) : fs[i].pc \notin InRead
  BY DEF TypeOK, Unread
<1> SUFFICES ASSUME NEW i \in 1 .. Len(stack'), stack'[i].pc \in InRead
             PROVE  i = Len(stack') /\ (stack'[i].pc # "on_read" => stack'[i].r = arrived')
  BY DEF ReadsLatest
<1> DEFINE j == i - Len(fs) + m
<1>2. i > Len(fs)
  BY <1>1 DEF Moves
<1>3. j \in 1 .. Len(stack) /\ stack'[i] = stack[j] /\ Len(stack') = Len(fs) + Len(stack) - m
  BY <1>1, <1>2 DEF Moves
<1>4. j = Len(stack) /\ (stack[j].pc # "on_read" => stack[j].r = arrived)
  BY <1>3 DEF ReadsLatest
<1> QED
  BY <1>1, <1>3, <1>4

\* So does a tame one.
LEMMA TameReads ==
    ASSUME TypeOK, ReadsLatest, NEW fs \in Seq(Tame), NEW m \in {0, 1}, Moves(fs, m), arrived' = arrived
    PROVE  ReadsLatest'
<1>1. fs \in Seq(Unread)
  BY DEF Tame, Unread
<1> QED
  BY <1>1, UnreadReads

\* It puts no front back and takes none out.
LEMMA TameRejoins ==
    ASSUME TypeOK, NEW fs \in Seq(Tame), NEW m \in {0, 1}, Moves(fs, m)
    PROVE  /\ \A i \in 1 .. Len(stack') : stack'[i].pc = "rejoin" =>
                  /\ i > Len(fs) /\ i - Len(fs) + m \in m + 1 .. Len(stack)
                  /\ stack'[i] = stack[i - Len(fs) + m]
           /\ HasRejoin(stack') => HasRejoin(stack)
           /\ HasRejoin(stack) /\ (m = 1 => Top.pc # "rejoin") => HasRejoin(stack')
<1>1. Len(fs) \in Nat /\ Len(stack) \in Nat /\ \A i \in 1 .. Len(fs) : fs[i].pc # "rejoin"
  BY DEF TypeOK, Tame
<1>2. ASSUME NEW i \in 1 .. Len(stack'), stack'[i].pc = "rejoin"
      PROVE  /\ i > Len(fs) /\ i - Len(fs) + m \in m + 1 .. Len(stack)
             /\ stack'[i] = stack[i - Len(fs) + m]
  <2>1. i > Len(fs)
    BY <1>1, <1>2 DEF Moves
  <2> QED
    BY <2>1 DEF Moves
<1>3. HasRejoin(stack') => HasRejoin(stack)
  <2>1. m + 1 .. Len(stack) \subseteq 1 .. Len(stack)
    BY <1>1
  <2> QED
    BY <1>2, <2>1 DEF HasRejoin
<1>4. ASSUME HasRejoin(stack), m = 1 => Top.pc # "rejoin" PROVE HasRejoin(stack')
  <2>1. PICK k \in 1 .. Len(stack) : stack[k].pc = "rejoin"
    BY <1>4 DEF HasRejoin
  <2>2. k = 1 => Top = stack[k]
    BY <2>1 DEF Top, TypeOK
  <2>3. k \in m + 1 .. Len(stack)
    BY <1>1, <1>4, <2>1, <2>2
  <2>4. k - m + Len(fs) \in 1 .. Len(stack') /\ stack'[k - m + Len(fs)] = stack[k]
    BY <1>1, <2>3 DEF Moves
  <2> QED
    BY <2>1, <2>4 DEF HasRejoin
<1> QED
  BY <1>2, <1>3, <1>4

\* The base of the stack stays, unless it was on top.
LEMMA MovesBase ==
    ASSUME TypeOK, NEW fs \in Seq(Frame), NEW m \in {0, 1}, Moves(fs, m)
    PROVE  /\ Len(stack) > m => Len(stack') > 0 /\ Base(stack') = Base(stack) /\ Len(stack') >= Len(stack) - m
           /\ Len(stack) = m => Len(stack') = Len(fs) /\ \A i \in 1 .. Len(stack') : stack'[i] = fs[i]
<1>1. Len(fs) \in Nat /\ Len(stack) \in Nat
  BY DEF TypeOK
<1>2. ASSUME Len(stack) > m
      PROVE  Len(stack') > 0 /\ Base(stack') = Base(stack) /\ Len(stack') >= Len(stack) - m
  <2>1. Len(stack) \in m + 1 .. Len(stack) /\ Len(stack) - m + Len(fs) = Len(stack')
    BY <1>1, <1>2 DEF Moves
  <2>2. stack'[Len(stack) - m + Len(fs)] = stack[Len(stack)]
    BY <2>1 DEF Moves
  <2> QED
    BY <1>1, <1>2, <2>1, <2>2 DEF Base
<1>3. Len(stack) = m => Len(stack') = Len(fs) /\ \A i \in 1 .. Len(stack') : stack'[i] = fs[i]
  BY <1>1 DEF Moves
<1> QED
  BY <1>2, <1>3

\* on_read() that is below another routine stays below one, unless that was the
\* end of finish_request().
LEMMA CoveredDeep ==
    ASSUME TypeOK, Covered, Len(stack) > 1, Base(stack).pc = "on_read",
           Top.pc \notin {"finish", "finished"}
    PROVE  /\ Len(stack) > 2 /\ Shielded(req, Top) /\ requests = <<>>
           /\ stack[Len(stack) - 1].pc = "finished"
           /\ \A j \in 1 .. Len(stack) - 2 : Shielded(req, stack[j])
<1>1. stack \in Seq(Frame) /\ Len(stack) \in Nat /\ stack[1] = Top
  BY DEF TypeOK, Top
<1>2. /\ stack[Len(stack) - 1].pc = "finished" /\ requests = <<>>
      /\ \A j \in 1 .. Len(stack) - 2 : Shielded(req, stack[j])
  BY <1>1 DEF Covered
<1>3. Len(stack) # 2
  BY <1>1, <1>2 DEF Base
<1>4. Len(stack) > 2
  <2> DEFINE n == Len(stack)
  <2>1. n \in Nat /\ n > 1 /\ n # 2
    BY <1>1, <1>3
  <2> HIDE DEF n
  <2>2. n > 2
    BY <2>1
  <2> QED
    BY <2>2 DEF n
<1>5. 1 \in 1 .. Len(stack) - 2
  BY <1>1, <1>4 DEF Base
<1> QED
  BY <1>1, <1>2, <1>4, <1>5

\* A connection that is not in on_read(), or only there, does not get below it.
LEMMA UncoveredStays ==
    ASSUME TypeOK, NEW fs \in Seq(Unread), NEW m \in {0, 1}, Moves(fs, m),
           ~(Len(stack) > 1 /\ Base(stack).pc = "on_read"), stack # <<>> => Top.pc # "on_read"
    PROVE  Covered'
<1> SUFFICES ASSUME Len(stack') > 1, Base(stack').pc = "on_read" PROVE FALSE
  BY DEF Covered, Base
<1>1. /\ fs \in Seq(Frame) /\ Len(fs) \in Nat /\ Len(stack) \in Nat
      /\ \A i \in 1 .. Len(fs) : fs[i].pc \notin InRead
      /\ (stack # <<>> <=> Len(stack) > 0) /\ (stack # <<>> => stack[1] = Top)
  BY DEF TypeOK, Unread, Top
<1>2. CASE Len(stack) = m
  <2>1. Len(stack') = Len(fs) /\ \A i \in 1 .. Len(stack') : stack'[i] = fs[i]
    BY <1>1, <1>2, MovesBase
  <2> QED
    BY <1>1, <2>1 DEF Base, InRead
<1>3. CASE Len(stack) # m
  <2>1. Len(stack) > m
    <3> DEFINE n == Len(stack)
    <3>1. n \in Nat /\ n # m /\ m <= n
      BY <1>1, <1>3 DEF Moves
    <3> HIDE DEF n
    <3>2. n > m
      BY <3>1
    <3> QED
      BY <3>2 DEF n
  <2>2. Base(stack').pc = Base(stack).pc
    BY <1>1, <2>1, MovesBase
  <2>3. Len(stack) = 1
    <3> DEFINE n == Len(stack)
    <3>1. n \in Nat /\ n > m /\ ~(n > 1)
      BY <1>1, <2>1, <2>2 DEF Base
    <3> HIDE DEF n
    <3>2. n = 1
      BY <3>1
    <3> QED
      BY <3>2 DEF n
  <2> QED
    BY <1>1, <2>2, <2>3 DEF Base
<1> QED
  BY <1>2, <1>3

\* Code that is neither shielded nor to put the front back runs while the front
\* is in the queue.
LEMMA FrontIn ==
    ASSUME TypeOK, OrderInv, stack # <<>>, ~Shielded(req, Top), Top.pc # "rejoin"
    PROVE  ~HasRejoin(stack)
<1> SUFFICES ASSUME NEW k \in 1 .. Len(stack), stack[k].pc = "rejoin" PROVE FALSE
  BY DEF HasRejoin
<1>1. stack[1] = Top /\ Len(stack) \in Nat
  BY DEF TypeOK, Top
<1>2. 1 \in 1 .. k - 1
  BY <1>1
<1> QED
  BY <1>1, <1>2 DEF OrderInv, Rejoins

\* Such a step does not make the connection take up another request.
LEMMA TameNoMore ==
    ASSUME TypeOK, NoMore, NEW fs \in Seq(Tame), NEW m \in {0, 1}, Moves(fs, m), Quieted => Quieted',
           LatestDone => LatestDone',
           stack # <<>> => Top.pc \notin InRead \cup {"finish", "finished", "request_error"},
           Len(stack) > 1 /\ Base(stack).pc = "on_read" => Len(stack) > 2
    PROVE  NoMore'
<1>1. /\ Len(fs) \in Nat /\ Len(stack) \in Nat /\ fs \in Seq(Frame) /\ (stack # <<>> <=> Len(stack) > 0)
      /\ Len(stack') \in Nat /\ (stack # <<>> => stack[1] = Top)
      /\ \A i \in 1 .. Len(fs) : fs[i].pc \notin InRead
  BY DEF TypeOK, Tame, Moves, Top
<1>2. CASE Len(stack) > m
  <2>1. Len(stack') > 0 /\ Base(stack') = Base(stack) /\ Len(stack') >= Len(stack) - m
    BY <1>1, <1>2, MovesBase
  <2>2. stack # <<>> /\ stack' # <<>>
    BY <1>1, <1>2, <2>1
  <2>3. Base(stack).pc = "on_read" => Len(stack) > 2 /\ Len(stack') > 1
    <3> HAVE Base(stack).pc = "on_read"
    <3>1. Len(stack) # 1
      BY <1>1, <2>2 DEF Base, InRead
    <3> QED
      <4>1. Len(stack) > 1
        <5> DEFINE n == Len(stack)
        <5>1. n \in Nat /\ n > m /\ n # 1
          BY <1>1, <1>2, <3>1
        <5> HIDE DEF n
        <5>2. n > 1
          BY <5>1
        <5> QED
          BY <5>2 DEF n
      <4>2. Len(stack) > 2
        BY <4>1 DEF Base
      <4> QED
        BY <1>1, <2>1, <4>2 DEF Base
  <2>4. ~(Len(stack') = 1 /\ stack'[1].pc = "on_read")
    BY <2>1, <2>3 DEF Base
  <2>5. (Base(stack))' = Base(stack')
    BY DEF Base
  <2>6. Ending => Ending'
    BY <2>1, <2>2, <2>3, <2>5 DEF Ending
  <2> QED
    BY <2>4, <2>6 DEF NoMore
<1>3. CASE Len(stack) = m
  <2>1. Len(stack') = Len(fs) /\ \A i \in 1 .. Len(stack') : stack'[i] = fs[i]
    BY <1>1, <1>3, MovesBase
  <2>2. ~(Len(stack') = 1 /\ stack'[1].pc = "on_read")
    BY <1>1, <2>1 DEF InRead
  <2>3. ~Ending
    BY <1>1, <1>3 DEF Ending, Base, InRead
  <2> QED
    BY <2>2, <2>3 DEF NoMore
<1> QED
  BY <1>1, <1>2, <1>3 DEF Moves

\* So r stays the only request that is left.
LEMMA TameRemains ==
    ASSUME TypeOK, Covered, NEW r, Remaining(r), NEW fs \in Seq(Tame), NEW m \in {0, 1}, Moves(fs, m),
           Quieted => Quieted', LatestDone => LatestDone',
           stack # <<>> => Top.pc \notin InRead \cup {"finish", "finished", "request_error"}
    PROVE  NoMore' /\ \A k \in 1 .. Len(stack') : stack'[k].pc = "rejoin" => stack'[k].r = r
<1>1. Len(fs) \in Nat /\ Len(stack) \in Nat
  BY DEF TypeOK
<1>2. Len(stack) > 1 /\ Base(stack).pc = "on_read" => Len(stack) > 2
  <2> HAVE Len(stack) > 1 /\ Base(stack).pc = "on_read"
  <2>1. Top.pc \notin {"finish", "finished"}
    OBVIOUS
  <2> QED
    BY <2>1, CoveredDeep
<1>3. NoMore'
  BY <1>2, TameNoMore DEF Remaining
<1>4. ASSUME NEW k \in 1 .. Len(stack'), stack'[k].pc = "rejoin" PROVE stack'[k].r = r
  <2>1. k - Len(fs) + m \in 1 .. Len(stack) /\ stack'[k] = stack[k - Len(fs) + m]
    BY <1>1, <1>4, TameRejoins
  <2> QED
    BY <1>4, <2>1 DEF Remaining
<1> QED
  BY <1>3, <1>4

\* While on_read() finishes a request below, only shielded code runs on.
LEMMA TameCovered ==
    ASSUME TypeOK, OwnOnly, Next, Covered, NEW fs \in Seq(Tame), NEW m \in {0, 1}, Moves(fs, m),
           stack # <<>> => Top.pc \notin InRead \cup {"finish", "finished"}
    PROVE  Covered'
<1> SUFFICES ASSUME Len(stack') > 1, Base(stack').pc = "on_read"
             PROVE  /\ stack'[Len(stack') - 1].pc = "finished" /\ requests' = <<>>
                    /\ \A j \in 1 .. Len(stack') - 2 : Shielded(req', stack'[j])
  BY DEF Covered, Base, Shielded
<1>1. /\ stack \in Seq(Frame) /\ Len(fs) \in Nat /\ Len(stack) \in Nat /\ fs \in Seq(Frame)
      /\ \A i \in 1 .. Len(fs) : fs[i].pc \notin InRead
      /\ (stack # <<>> <=> Len(stack) > 0) /\ (stack # <<>> => stack[1] = Top)
  BY DEF TypeOK, Tame, Top
<1>2. Len(stack) > m /\ Base(stack') = Base(stack)
  <2>1. Len(stack) # m
    <3> SUFFICES ASSUME Len(stack) = m PROVE FALSE
      OBVIOUS
    <3>1. Len(stack') = Len(fs) /\ \A i \in 1 .. Len(stack') : stack'[i] = fs[i]
      BY <1>1, MovesBase
    <3> QED
      BY <1>1, <3>1 DEF Base, InRead
  <2>2. Len(stack) > m
    <3> DEFINE n == Len(stack)
    <3>1. n \in Nat /\ n # m /\ m <= n
      BY <1>1, <2>1 DEF Moves
    <3> HIDE DEF n
    <3>2. n > m
      BY <3>1
    <3> QED
      BY <3>2 DEF n
  <2> QED
    BY <1>1, <2>2, MovesBase
<1>3. Len(stack) > 1 /\ stack # <<>>
  <2> DEFINE n == Len(stack)
  <2>1. n \in Nat /\ n > m /\ n # 1
    BY <1>1, <1>2 DEF Base, InRead
  <2> HIDE DEF n
  <2>2. n > 1
    BY <2>1
  <2> QED
    BY <1>1, <2>2 DEF n
<1>4. Len(stack) > 2 /\ Shielded(req, Top) /\ requests = <<>>
  BY <1>2, <1>3, CoveredDeep
<1>5. WindowStep
  BY <1>3, <1>4, Window
<1>6. PICK gs \in Seq(Shields(req')) : Called(gs)
  BY <1>5 DEF WindowStep
<1>7. gs \in Seq(Frame) /\ Len(gs) \in Nat /\ \A i \in 1 .. Len(gs) : Shielded(req', gs[i])
  BY DEF Shields
<1>8. PICK d \in {0, 1} : Moves(gs, d)
  BY <1>3, <1>6, <1>7, MovesCall, MovesGoto DEF Called
<1>9. requests' = <<>>
  BY <1>4, <1>5 DEF WindowStep
<1>10. stack[Len(stack) - 1].pc = "finished" /\ \A j \in 1 .. Len(stack) - 2 : Shielded(req, stack[j])
  BY <1>2, <1>3, CoveredDeep
<1>11. Len(stack') = Len(gs) + Len(stack) - d
  BY <1>8 DEF Moves
<1>12. stack'[Len(stack') - 1] = stack[Len(stack) - 1]
  <2>1. Len(stack) - 1 \in d + 1 .. Len(stack) /\ (Len(stack) - 1) - d + Len(gs) = Len(stack') - 1
    BY <1>1, <1>4, <1>7, <1>11
  <2> QED
    BY <1>8, <2>1 DEF Moves
<1>13. ASSUME NEW j \in 1 .. Len(stack') - 2 PROVE Shielded(req', stack'[j])
  <2>1. CASE j \in 1 .. Len(gs)
    BY <1>7, <1>8, <2>1 DEF Moves
  <2>2. CASE j > Len(gs)
    <3> DEFINE i == j - Len(gs) + d
    <3>1. j \in 1 .. Len(stack')
      BY <1>1, <1>7, <1>11
    <3>2. i \in d + 1 .. Len(stack) /\ stack'[j] = stack[i]
      BY <1>8, <2>2, <3>1 DEF Moves
    <3>3. i \in 1 .. Len(stack) - 2 /\ i \in 1 .. Len(stack)
      BY <1>1, <1>7, <1>11, <3>2
    <3>4. Shielded(req, stack[i]) /\ stack[i] \in Frame
      BY <1>1, <1>10, <3>3
    <3>5. stack[i].pc = "callback" => stack[i].r \in Requests
      BY <3>4, FrameRequest
    <3> QED
      BY <1>5, <3>2, <3>4, <3>5 DEF Shielded, WindowStep
  <2> QED
    BY <1>1, <1>7, <2>1, <2>2
<1> QED
  BY <1>9, <1>10, <1>12, <1>13

-----------------------------------------------------------------------------
(* Steps that leave the queue and the parser alone *)

\* What a step of a routine does that only calls, returns or writes on.
QuietStep ==
    /\ UNCHANGED <<requests, parsing, arrived, closing>>
    /\ \A r \in Requests : req'[r].done = req[r].done /\ req'[r].fin = req[r].fin
    /\ Quieted => Quieted'
    /\ \A r \in Requests : Written(r, "lasthead")' => Written(r, "lasthead")
    /\ stack # <<>> => Top.pc \in {"errored", "wrote", "callback", "remove"}
    /\ \E fs \in Seq(Tame), m \in {0, 1} : Moves(fs, m)

\* It keeps what is known of a running connection.
LEMMA QuietKeeps ==
    ASSUME TypeOK, OwnOnly, Next, RunningInv, QuietStep
    PROVE  RunningInv'
<1>1. PICK fs \in Seq(Tame), m \in {0, 1} : Moves(fs, m)
  BY DEF QuietStep
<1>2. /\ Len(fs) \in Nat /\ Len(stack) \in Nat /\ (stack # <<>> => stack[1] = Top)
      /\ arrived \in 0 .. MaxRequests /\ \A i \in 1 .. Len(requests) : requests[i] \in Requests
      /\ \A i \in 1 .. Len(stack) : stack[i] \in Frame
  BY DEF TypeOK, Top
<1>3. Top.pc \notin InRead \cup {"finish", "finished", "request_error", "drop", "rejoin"} \/ stack = <<>>
  BY DEF QuietStep, InRead
<1>4. /\ LatestDone' = LatestDone /\ LatestFin' = LatestFin /\ OnlyLatest' = OnlyLatest
      /\ UNCHANGED <<requests, parsing, arrived, closing>>
  <2>1. arrived # 0 => arrived \in Requests
    BY <1>2 DEF Requests
  <2> QED
    BY <2>1 DEF QuietStep, LatestDone, LatestFin, OnlyLatest
<1>5. ReadsLatest'
  BY <1>1, <1>4, TameReads DEF RunningInv
<1>6. Undone'
  BY <1>2 DEF RunningInv, Undone, QuietStep
<1>7. EarlyAlone'
  BY <1>4 DEF RunningInv, EarlyAlone
<1>8. Covered'
  BY <1>1, <1>3, TameCovered DEF RunningInv
<1>9. Over(stack')
  BY <1>1, TameOver DEF RunningInv
<1>10. Held'
  <2> SUFFICES ASSUME NEW k \in 1 .. Len(stack'), stack'[k].pc = "rejoin"
               PROVE  /\ IF k = 1 THEN requests' = <<>> ELSE stack'[k - 1].pc = "drop"
                      /\ req'[stack'[k].r].done /\ ~LatestFin'
    BY DEF Held
  <2> DEFINE j == k - Len(fs) + m
  <2>1. k > Len(fs) /\ j \in m + 1 .. Len(stack) /\ stack'[k] = stack[j]
    BY <1>1, TameRejoins
  <2>2. j \in 1 .. Len(stack) /\ stack[j].r \in Requests
    <3>1. j \in 1 .. Len(stack)
      BY <2>1
    <3> QED
      BY <1>2, <2>1, <3>1, FrameRequest
  <2>3. req'[stack'[k].r].done /\ ~LatestFin'
    <3>1. req[stack[j].r].done /\ ~LatestFin
      BY <2>1, <2>2 DEF RunningInv, Held
    <3> QED
      BY <1>4, <2>1, <2>2, <3>1 DEF QuietStep
  <2>4. j # 1 /\ stack # <<>>
    BY <1>2, <1>3, <2>1, <2>2
  <2>5. stack[j - 1].pc = "drop" /\ j - 1 \in 1 .. Len(stack)
    BY <2>1, <2>2, <2>4 DEF RunningInv, Held
  <2>6. j - 1 # 1
    BY <1>2, <1>3, <2>4, <2>5
  <2>7. j - 1 \in m + 1 .. Len(stack) /\ (j - 1) - m + Len(fs) = k - 1
    BY <1>2, <2>5, <2>6
  <2>8. stack'[k - 1] = stack[j - 1] /\ k - 1 \in Len(fs) + 1 .. Len(stack')
    BY <1>1, <2>7 DEF Moves
  <2>9. k # 1
    BY <1>2, <2>8
  <2> QED
    BY <2>3, <2>5, <2>8, <2>9
<1>11. Announced'
  <2> SUFFICES ASSUME NEW r \in Requests, Written(r, "lasthead")'
               PROVE  closing' /\ (Arriving(r)' \/ Remaining(r)')
    BY DEF Announced
  <2>1. closing /\ (Arriving(r) \/ Remaining(r))
    BY DEF RunningInv, Announced, QuietStep
  <2>2. /\ HasRejoin(stack') => HasRejoin(stack)
        /\ HasRejoin(stack) => HasRejoin(stack')
    <3>1. HasRejoin(stack) => stack # <<>>
      BY DEF HasRejoin
    <3> QED
      BY <1>1, <1>3, <3>1, TameRejoins
  <2>3. HasRejoin(stack)' = HasRejoin(stack')
    BY DEF HasRejoin
  <2>4. CASE Arriving(r)
    <3>1. Arriving(r)'
      BY <1>4, <2>2, <2>3, <2>4 DEF Arriving, QuietStep
    <3> QED
      BY <1>4, <2>1, <3>1
  <2>5. CASE Remaining(r)
    <3>1. NoMore' /\ \A k \in 1 .. Len(stack') : stack'[k].pc = "rejoin" => stack'[k].r = r
      BY <1>1, <1>3, <1>4, <2>5, TameRemains DEF RunningInv, QuietStep
    <3>3. Remaining(r)'
      BY <1>4, <2>2, <2>3, <2>5, <3>1 DEF Remaining, QuietStep
    <3> QED
      BY <1>4, <2>1, <3>3
  <2> QED
    BY <2>1, <2>4, <2>5
<1>12. Over(stack)' = Over(stack')
  BY DEF Over
<1> QED
  BY <1>5, <1>6, <1>7, <1>8, <1>9, <1>10, <1>11, <1>12 DEF RunningInv

-----------------------------------------------------------------------------
(* While the front is out of the queue *)

\* Nothing changes of the head lines when nothing is written.
LEMMA SameHeads == UNCHANGED wire => \A r \in Requests : Written(r, "lasthead")' = Written(r, "lasthead")
  BY DEF Written

\* Points and callbacks that are tame.
LEMMA TameFrames ==
    /\ \A pc \in {"finish", "finished", "remove"} : Point(pc, 0) \in Tame
    /\ \A pc \in {"request_error", "errored", "write", "wrote"}, r \in Requests : Point(pc, r) \in Tame
    /\ \A ev \in Events, r \in Requests : Callback(ev, r) \in Tame
    /\ <<>> \in Seq(Tame)
  BY FrameTypes DEF Tame, InRead, Point, Callback

\* drop_requests() calls back on top of itself, or returns when the queue is
\* empty.
LEMMA DropMoves ==
    ASSUME TypeOK, DropRequests
    PROVE  /\ stack # <<>> /\ Top.pc = "drop" /\ UNCHANGED <<parsing, arrived, closing, stream, wire, fault>>
           /\ \A r \in Requests : req'[r].done = req[r].done /\ req'[r].fin = req[r].fin
           /\ \/ requests = <<>> /\ requests' = <<>> /\ Moves(<<>>, 1)
              \/ /\ requests # <<>> /\ requests' = Tail(requests)
                 /\ \E fs \in Seq(Tame) : Moves(fs, 0)
<1>0. /\ stack # <<>> /\ Top.pc = "drop" /\ UNCHANGED <<parsing, arrived, closing, stream, wire, fault>>
      /\ stack \in Seq(Frame) /\ Tail(stack) \in Seq(Frame)
  <2>1. stack # <<>> /\ Top.pc = "drop" /\ UNCHANGED <<parsing, arrived, closing, stream, wire, fault>>
    BY Zenon DEF DropRequests, At, input, flags
  <2> QED
    BY <2>1, Below DEF TypeOK
<1>1. CASE requests = <<>>
  <2>1. UNCHANGED <<requests, req>> /\ stack' = <<>> \o Tail(stack)
    BY <1>1 DEF DropRequests, Goto
  <2>2. <<>> \in Seq(Frame)
    OBVIOUS
  <2>3. Moves(<<>>, 1)
    BY <1>0, <2>1, <2>2, MovesGoto
  <2> QED
    BY <1>0, <1>1, <2>1, <2>3
<1>2. CASE requests # <<>>
  <2> DEFINE r == Head(requests)
             whys == {<<>>, <<Callback("partial_error", r)>>, <<Callback("error", r)>>, <<Callback("drop", r)>>}
  <2>1. /\ requests' = Tail(requests) /\ req' = [req EXCEPT ![r].conn = FALSE]
        /\ \E why \in whys : stack' = (<<Callback("finish", r)>> \o why \o <<Point("drop", 0)>>) \o Tail(stack)
    BY <1>2 DEF DropRequests, Goto, Forget
  <2>2. r \in Requests
    BY <1>2, HeadType
  <2> HIDE DEF r
  <2>3. /\ <<Callback("finish", r)>> \in Seq(Tame) /\ <<Callback("partial_error", r)>> \in Seq(Tame)
        /\ <<Callback("error", r)>> \in Seq(Tame) /\ <<Callback("drop", r)>> \in Seq(Tame) /\ <<>> \in Seq(Tame)
    BY <2>2, TameFrames DEF Events
  <2>4. PICK why \in Seq(Tame) :
            stack' = (<<Callback("finish", r)>> \o why \o <<Point("drop", 0)>>) \o Tail(stack)
    BY <2>1, <2>3
  <2>5. stack = <<Point("drop", 0)>> \o Tail(stack)
    <3>1. Top = Point("drop", 0)
      BY <1>0 DEF Top, Frame, Point
    <3> QED
      BY <1>0, <3>1 DEF Top
  <2> DEFINE fs == <<Callback("finish", r)>> \o why
  <2>6. fs \in Seq(Tame)
    BY <2>3
  <2>7. fs \in Seq(Frame) /\ <<Point("drop", 0)>> \in Seq(Frame)
    BY <2>6, FrameTypes DEF Tame
  <2> HIDE DEF fs
  <2>8. (fs \o <<Point("drop", 0)>>) \o Tail(stack) = fs \o (<<Point("drop", 0)>> \o Tail(stack))
    BY <1>0, <2>7
  <2>9. stack' = fs \o stack
    BY <2>4, <2>5, <2>8 DEF fs
  <2>10. Moves(fs, 0)
    BY <2>7, <2>9, MovesCall
  <2>11. \A q \in Requests : req'[q].done = req[q].done /\ req'[q].fin = req[q].fin
    BY <2>1, <2>2 DEF TypeOK, ServerRequest
  <2> QED
    BY <1>0, <1>2, <2>1, <2>6, <2>10, <2>11
<1> QED
  BY <1>1, <1>2

\* drop_requests() keeps what is known of a running connection: there it is only
\* called by write_next_response().
LEMMA DropKeeps ==
    ASSUME TypeOK, OwnOnly, Next, RunningInv, DropRequests
    PROVE  RunningInv'
<1>0. /\ stack # <<>> /\ Top.pc = "drop" /\ UNCHANGED <<parsing, arrived, closing, stream, wire>>
      /\ \A r \in Requests : req'[r].done = req[r].done /\ req'[r].fin = req[r].fin
  BY DropMoves
<1>1. PICK fs \in Seq(Tame), m \in {0, 1} :
          /\ Moves(fs, m)
          /\ \/ m = 1 /\ fs = <<>> /\ requests = <<>> /\ requests' = <<>>
             \/ m = 0 /\ requests # <<>> /\ requests' = Tail(requests)
  BY DropMoves, TameFrames
<1>2. /\ Len(fs) \in Nat /\ Len(stack) \in Nat /\ stack[1] = Top
      /\ arrived \in 0 .. MaxRequests /\ \A i \in 1 .. Len(requests) : requests[i] \in Requests
      /\ \A i \in 1 .. Len(stack) : stack[i] \in Frame
  BY <1>0 DEF TypeOK, Top
<1>3. \A i \in 1 .. Len(requests') : \E j \in 1 .. Len(requests) : requests'[i] = requests[j]
  BY <1>1, QueueTail DEF TypeOK
<1>4. HasRejoin(stack) /\ HasRejoin(stack')
  <2>1. 2 \in 1 .. Len(stack) /\ stack[2].pc = "rejoin"
    BY <1>0, <1>2 DEF RunningInv, Over
  <2>2. HasRejoin(stack)
    BY <2>1 DEF HasRejoin
  <2> QED
    BY <1>0, <1>1, <2>2, TameRejoins
<1>5. LatestDone' = LatestDone /\ LatestFin' = LatestFin /\ (OnlyLatest => OnlyLatest')
  <2>1. arrived # 0 => arrived \in Requests
    BY <1>2 DEF Requests
  <2> QED
    BY <1>0, <1>3, <2>1 DEF LatestDone, LatestFin, OnlyLatest
<1>6. ReadsLatest' /\ Covered' /\ Over(stack')
  BY <1>0, <1>1, TameReads, TameCovered, TameOver DEF RunningInv, InRead
<1>7. Undone'
  BY <1>0, <1>2, <1>3 DEF RunningInv, Undone
<1>8. EarlyAlone'
  BY <1>5 DEF RunningInv, EarlyAlone
<1>9. Held'
  <2> SUFFICES ASSUME NEW k \in 1 .. Len(stack'), stack'[k].pc = "rejoin"
               PROVE  /\ IF k = 1 THEN requests' = <<>> ELSE stack'[k - 1].pc = "drop"
                      /\ req'[stack'[k].r].done /\ ~LatestFin'
    BY DEF Held
  <2> DEFINE j == k - Len(fs) + m
  <2>1. k > Len(fs) /\ j \in m + 1 .. Len(stack) /\ stack'[k] = stack[j]
    BY <1>1, TameRejoins
  <2>2. j \in 1 .. Len(stack) /\ stack[j].r \in Requests
    <3>1. j \in 1 .. Len(stack)
      BY <2>1
    <3> QED
      BY <1>2, <2>1, <3>1, FrameRequest
  <2>3. req'[stack'[k].r].done /\ ~LatestFin'
    <3>1. req[stack[j].r].done /\ ~LatestFin
      BY <2>1, <2>2 DEF RunningInv, Held
    <3> QED
      BY <1>0, <1>5, <2>1, <2>2, <3>1
  <2>4. j # 1
    BY <1>0, <1>2, <2>1
  <2>5. stack[j - 1].pc = "drop" /\ j - 1 \in 1 .. Len(stack)
    BY <2>1, <2>2, <2>4 DEF RunningInv, Held
  <2>6. CASE k = 1
    <3>1. m = 1
      BY <1>2, <2>1, <2>4, <2>6
    <3> QED
      BY <1>1, <2>3, <2>6, <3>1
  <2>7. CASE k # 1
    <3>1. j - 1 \in m + 1 .. Len(stack) /\ (j - 1) - m + Len(fs) = k - 1
      <4>1. m = 1 => Len(fs) = 0
        BY <1>1
      <4> QED
        BY <1>2, <2>1, <2>5, <2>7, <4>1
    <3>2. stack'[k - 1] = stack[j - 1]
      BY <1>1, <3>1 DEF Moves
    <3> QED
      BY <2>3, <2>5, <2>7, <3>2
  <2> QED
    BY <2>6, <2>7
<1>10. Announced'
  <2> SUFFICES ASSUME NEW r \in Requests, Written(r, "lasthead")'
               PROVE  closing' /\ Remaining(r)'
    BY DEF Announced
  <2>1. closing /\ Remaining(r)
    BY <1>0, <1>4, SameHeads DEF RunningInv, Announced, Arriving
  <2>2. NoMore' /\ \A k \in 1 .. Len(stack') : stack'[k].pc = "rejoin" => stack'[k].r = r
    BY <1>0, <1>1, <1>5, <2>1, TameRemains DEF RunningInv, InRead, Quieted
  <2>3. HasRejoin(stack)'
    BY <1>4 DEF HasRejoin
  <2> QED
    BY <1>0, <2>1, <2>2, <2>3 DEF Remaining
<1>11. Over(stack)' = Over(stack')
  BY DEF Over
<1> QED
  BY <1>6, <1>7, <1>8, <1>9, <1>10, <1>11 DEF RunningInv

\* So does putting the front back.
LEMMA RejoinLast ==
    ASSUME TypeOK, TypeOK', OrderInv, RunningInv, Rejoin
    PROVE  RunningInv'
<1> DEFINE r == Top.r
           f == [Top EXCEPT !.pc = "wrote"]
<1>0. /\ stack # <<>> /\ Top.pc = "rejoin" /\ UNCHANGED <<parsing, arrived, closing, stream, wire, req>>
      /\ requests' = <<r>> \o requests /\ stack' = <<f>> \o Tail(stack) /\ r \in Requests
  BY TopRequest DEF Rejoin, At, Goto, input, flags
<1>1. f \in Tame
  <2> DEFINE t == Top
  <2>1. t \in Frame /\ t.pc = "rejoin"
    BY <1>0 DEF Top, TypeOK
  <2> HIDE DEF t
  <2>2. [t EXCEPT !.pc = "wrote"] \in Frame /\ [t EXCEPT !.pc = "wrote"].pc = "wrote"
    BY <2>1 DEF Frame
  <2> QED
    BY <2>2 DEF t, Tame, InRead
<1> HIDE DEF f
<1>2. PICK fs \in Seq(Tame) : Moves(fs, 1) /\ Len(fs) = 1
  <2>1. <<f>> \in Seq(Tame) /\ <<f>> \in Seq(Frame) /\ Len(<<f>>) = 1
    BY <1>1 DEF Tame
  <2> QED
    BY <1>0, <2>1, MovesGoto
<1>3. /\ Len(stack) \in Nat /\ stack[1] = Top /\ 1 \in 1 .. Len(stack)
      /\ \A i \in 1 .. Len(requests) : requests[i] \in Requests
  BY <1>0 DEF TypeOK, Top
<1>4. requests = <<>> /\ req[r].done /\ ~LatestFin
  BY <1>0, <1>3 DEF RunningInv, Held
<1>5. requests' = <<r>> /\ Len(requests') = 1 /\ requests'[1] = r
  BY <1>0, <1>4
<1>6. ReadsLatest' /\ Over(stack')
  BY <1>0, <1>2, TameReads, TameOver DEF RunningInv
<1>7. Undone' /\ EarlyAlone'
  BY <1>0, <1>4, <1>5 DEF Undone, EarlyAlone, LatestFin
<1>8. ~HasRejoin(stack')
  <2> SUFFICES ASSUME NEW i \in 1 .. Len(stack'), stack'[i].pc = "rejoin" PROVE FALSE
    BY DEF HasRejoin
  <2> DEFINE j == i - Len(fs) + 1
  <2>1. j \in 2 .. Len(stack) /\ stack[j].pc = "rejoin"
    <3>1. i - Len(fs) + 1 \in 1 + 1 .. Len(stack) /\ stack'[i] = stack[i - Len(fs) + 1]
      BY <1>2, TameRejoins
    <3> QED
      BY <1>3, <3>1
  <2>2. 1 \in 1 .. j - 1 /\ j \in 1 .. Len(stack)
    BY <2>1
  <2>3. Shielded(req, stack[1])
    BY <2>1, <2>2 DEF OrderInv, Rejoins
  <2> QED
    BY <1>0, <1>3, <2>3 DEF Shielded
<1>9. Held'
  BY <1>8 DEF Held, HasRejoin
<1>10. ~(Len(stack) > 1 /\ Base(stack).pc = "on_read")
  <2> SUFFICES ASSUME Len(stack) > 1, Base(stack).pc = "on_read" PROVE FALSE
    OBVIOUS
  <2>1. Shielded(req, Top)
    BY <1>0, CoveredDeep DEF RunningInv
  <2> QED
    BY <1>0, <2>1 DEF Shielded
<1>11. Covered'
  <2>1. fs \in Seq(Unread)
    BY DEF Tame, Unread
  <2> QED
    BY <1>0, <1>2, <1>10, <2>1, UncoveredStays
<1>12. Announced'
  <2> SUFFICES ASSUME NEW q \in Requests, Written(q, "lasthead")'
               PROVE  closing' /\ Remaining(q)'
    BY DEF Announced
  <2>1. HasRejoin(stack)
    BY <1>0, <1>3 DEF HasRejoin
  <2>2. closing /\ Remaining(q)
    BY <1>0, <2>1, SameHeads DEF RunningInv, Announced, Arriving
  <2>3. q = r
    BY <1>0, <1>3, <2>2 DEF Remaining
  <2>4. NoMore'
    <3>1. (Quieted => Quieted') /\ (LatestDone => LatestDone')
      BY <1>0 DEF Quieted, LatestDone
    <3>2. Top.pc \notin InRead \cup {"finish", "finished", "request_error"}
      BY <1>0 DEF InRead
    <3> QED
      BY <1>2, <1>10, <2>2, <3>1, <3>2, TameNoMore DEF Remaining
  <2>5. ~HasRejoin(stack)' /\ \A k \in 1 .. Len(stack') : stack'[k].pc # "rejoin"
    BY <1>8 DEF HasRejoin
  <2> QED
    BY <1>0, <1>4, <1>5, <2>2, <2>3, <2>4, <2>5 DEF Remaining
<1>13. Over(stack)' = Over(stack')
  BY DEF Over
<1> QED
  BY <1>6, <1>7, <1>9, <1>11, <1>12, <1>13 DEF RunningInv

-----------------------------------------------------------------------------
(* Writing *)

\* What is written after the head of a response, or before it.
Further == {i \in Item : i.k # "lasthead"}

\* What the wire is made of after a write.
LEMMA Joined ==
    ASSUME NEW w \in Seq(Item), NEW items \in Seq(Item)
    PROVE  /\ w \o items \in Seq(Item) /\ Len(w \o items) = Len(w) + Len(items)
           /\ Len(w) \in Nat /\ Len(items) \in Nat
           /\ \A i \in 1 .. Len(w) : (w \o items)[i] = w[i]
           /\ \A i \in 1 .. Len(items) : (w \o items)[Len(w) + i] = items[i]
  OBVIOUS

\* Writing such items announces nothing.
LEMMA FurtherHeads ==
    ASSUME TypeOK, NEW items \in Seq(Further), wire' \in {wire, wire \o items}, NEW r, Written(r, "lasthead")'
    PROVE  Written(r, "lasthead")
<1>1. wire \in Seq(Item) /\ items \in Seq(Item) /\ \A i \in 1 .. Len(items) : items[i].k # "lasthead"
  BY DEF TypeOK, Further
<1>2. PICK k \in DOMAIN wire' : wire'[k].r = r /\ wire'[k].k = "lasthead"
  BY DEF Written
<1>3. CASE wire' = wire
  BY <1>2, <1>3 DEF Written
<1>4. CASE wire' = wire \o items
  <2>1. k \in 1 .. Len(wire) + Len(items) /\ Len(wire) \in Nat /\ Len(items) \in Nat /\ DOMAIN wire = 1 .. Len(wire)
    BY <1>1, <1>2, <1>4
  <2>2. k \in 1 .. Len(wire) => wire'[k] = wire[k]
    BY <1>1, <1>4
  <2>3. k > Len(wire) => k - Len(wire) \in 1 .. Len(items) /\ wire'[k] = items[k - Len(wire)]
    BY <1>1, <1>4, <2>1
  <2>4. k \in 1 .. Len(wire)
    BY <1>1, <1>2, <2>1, <2>3
  <2> QED
    BY <1>2, <2>1, <2>2, <2>4 DEF Written
<1> QED
  BY <1>3, <1>4

\* Chunks and the end of a response are such items.
LEMMA FurtherItems ==
    ASSUME NEW r \in Requests, NEW ns \in Seq(ChunkNumbers)
    PROVE  Chunks(r, ns) \in Seq(Further) /\ End(r) \in Seq(Further) /\ <<>> \in Seq(Further)
<1>1. End(r) \in Seq(Further) /\ <<>> \in Seq(Further)
  BY BoundsAssumption DEF End, Further, Item
<1>2. Chunks(r, ns) \in Seq(Item)
  BY ChunksType, BoundsAssumption
<1>3. \A i \in 1 .. Len(Chunks(r, ns)) : Chunks(r, ns)[i].k # "lasthead"
  BY DEF Chunks
<1> DEFINE cs == Chunks(r, ns)
<1> HIDE DEF cs
<1>4. cs \in Seq(Item) /\ \A i \in 1 .. Len(cs) : cs[i].k # "lasthead"
  BY <1>2, <1>3 DEF cs
<1>5. \A i \in 1 .. Len(cs) : cs[i] \in Further
  BY <1>4 DEF Further
<1>6. cs \in Seq(Further)
  BY <1>4, <1>5
<1> QED
  BY <1>1, <1>6 DEF cs

\* write_next_response() writes for the front, announces the end of the
\* connection only with a last response, and leaves its frames on the stack.
LEMMA WriteFacts ==
    ASSUME TypeOK, OrderInv, WriteNextResponse
    PROVE  \E last \in BOOLEAN :
               /\ stack # <<>> /\ Top.pc = "write" /\ Top.r \in Requests
               /\ requests # <<>> /\ Head(requests) = Top.r /\ ~HasRejoin(stack)
               /\ UNCHANGED <<parsing, arrived, req>>
               /\ closing' = (closing \/ last)
               /\ Quieted => Quieted'
               /\ last /\ req[Top.r].done => Quieted'
               /\ \A q \in Requests :
                      Written(q, "lasthead")' => Written(q, "lasthead") \/ (last /\ q = Top.r)
               /\ \/ /\ last /\ Len(requests) > 1 /\ requests' = Tail(requests)
                     /\ \E fs \in Seq(Unread) :
                            /\ Moves(fs, 1) /\ Len(fs) = 2
                            /\ fs[1].pc = "drop" /\ fs[2].pc = "rejoin" /\ fs[2].r = Top.r
                  \/ /\ ~(last /\ Len(requests) > 1) /\ requests' = requests
                     /\ \E fs \in Seq(Tame) : Moves(fs, 1) /\ Len(fs) = 1 /\ fs[1].pc = "wrote"
<1> DEFINE r == Top.r
           kept == IF res[r].st = "open" THEN res[r].parts ELSE <<>>
           then(pc) == [pc |-> pc, r |-> r, ev |-> "-", tmp |-> kept]
           last == ~res[r].ka \/ ~req[r].shape.ka
           head == <<[r |-> r, k |-> IF last THEN "lasthead" ELSE "head", n |-> 0]>>
           body == IF res[r].st = "open" THEN <<>> ELSE Chunks(r, res[r].parts) \o End(r)
<1>0. /\ stack # <<>> /\ Top.pc = "write" /\ r \in Requests /\ stack \in Seq(Frame)
      /\ requests \in Seq(Requests) /\ wire \in Seq(Item) /\ stream \in Stream
      /\ stack[1] = Top /\ Len(stack) \in Nat \ {0}
  BY TopRequest, Below DEF WriteNextResponse, At, TypeOK, Top
<1>1. requests # <<>> /\ Head(requests) = r
  BY WriteMove
<1>2. ~HasRejoin(stack)
  BY <1>0, FrontIn DEF Shielded
<1>3. UNCHANGED <<parsing, arrived, req>> /\ closing' = (closing \/ last)
  BY DEF WriteNextResponse, input
<1>4. /\ stream'.listener = stream.listener /\ (stream'.reading => stream.reading)
      /\ last /\ req[r].done => ~stream'.reading
  BY <1>0 DEF WriteNextResponse, Stream
<1>5. (Quieted => Quieted') /\ (last /\ req[r].done => Quieted')
  BY <1>4 DEF Quieted
<1>6. res[r].parts \in Seq(ChunkNumbers) /\ kept \in Seq(ChunkNumbers)
  BY <1>0 DEF TypeOK, ServerResponse
<1>7. wire' \in {wire, wire \o head \o body}
  BY DEF WriteNextResponse
<1>8. /\ head \in Seq(Item) /\ Len(head) = 1 /\ head[1].r = r /\ (head[1].k = "lasthead" => last)
      /\ body \in Seq(Further)
  <2>1. head \in Seq(Item) /\ Len(head) = 1 /\ head[1].r = r /\ (head[1].k = "lasthead" => last)
    BY <1>0, BoundsAssumption DEF Item
  <2>2. Chunks(r, res[r].parts) \in Seq(Further) /\ End(r) \in Seq(Further) /\ <<>> \in Seq(Further)
    BY <1>0, <1>6, FurtherItems
  <2> DEFINE cs == Chunks(r, res[r].parts)
             e == End(r)
  <2> HIDE DEF cs, e
  <2>3. cs \o e \in Seq(Further)
    BY <2>2 DEF cs, e
  <2> QED
    BY <2>1, <2>2, <2>3 DEF cs, e
<1>9. \/ /\ last /\ Len(requests) > 1 /\ requests' = Tail(requests)
         /\ stack' = <<Point("drop", 0), then("rejoin")>> \o Tail(stack)
      \/ /\ ~(last /\ Len(requests) > 1) /\ requests' = requests
         /\ stack' = <<then("wrote")>> \o Tail(stack)
  BY DEF WriteNextResponse, Goto
<1> HIDE DEF head, body, kept
<1>10. ASSUME NEW q \in Requests, Written(q, "lasthead")'
       PROVE  Written(q, "lasthead") \/ (last /\ q = r)
  <2> HIDE DEF last
  <2>1. PICK k \in DOMAIN wire' : wire'[k].r = q /\ wire'[k].k = "lasthead"
    BY <1>10 DEF Written
  <2>2. CASE wire' = wire
    BY <2>1, <2>2 DEF Written
  <2>3. CASE wire' = wire \o head \o body
    <3>1. body \in Seq(Item) /\ \A i \in 1 .. Len(body) : body[i].k # "lasthead"
      BY <1>8 DEF Further
    <3> DEFINE w == wire \o head
    <3>2. /\ w \in Seq(Item) /\ Len(w) = Len(wire) + 1 /\ Len(wire) \in Nat /\ DOMAIN wire = 1 .. Len(wire)
          /\ \A i \in 1 .. Len(wire) : w[i] = wire[i]
          /\ w[Len(wire) + 1] = head[1]
      <4>1. 1 \in 1 .. Len(head) /\ DOMAIN wire = 1 .. Len(wire)
        BY <1>0, <1>8
      <4> QED
        BY <1>0, <1>8, <4>1, Joined
    <3> HIDE DEF w
    <3>3. wire' = w \o body
      BY <2>3 DEF w
    <3>4. k \in 1 .. Len(w) + Len(body) /\ Len(w) \in Nat /\ Len(body) \in Nat
      BY <2>1, <3>1, <3>2, <3>3
    <3>5. /\ k \in 1 .. Len(w) => wire'[k] = w[k]
          /\ k > Len(w) => k - Len(w) \in 1 .. Len(body) /\ wire'[k] = body[k - Len(w)]
      BY <3>1, <3>2, <3>3, <3>4
    <3>6. k \in 1 .. Len(wire) \/ k = Len(wire) + 1
      BY <2>1, <3>1, <3>2, <3>4, <3>5
    <3>7. CASE k \in 1 .. Len(wire)
      BY <2>1, <3>2, <3>5, <3>7 DEF Written
    <3>8. CASE k = Len(wire) + 1
      BY <1>8, <2>1, <3>2, <3>5, <3>8
    <3> QED
      BY <3>6, <3>7, <3>8
  <2> QED
    BY <1>7, <2>2, <2>3
<1>11. then("rejoin") \in Frame /\ then("wrote") \in Frame /\ Point("drop", 0) \in Frame
  BY <1>0, <1>6, FrameTypes DEF Frame
<1>12. CASE stack' = <<Point("drop", 0), then("rejoin")>> \o Tail(stack)
  <2> DEFINE fs == <<Point("drop", 0), then("rejoin")>>
  <2>1. /\ fs \in Seq(Frame) /\ fs \in Seq(Unread) /\ Len(fs) = 2
        /\ fs[1].pc = "drop" /\ fs[2].pc = "rejoin" /\ fs[2].r = Top.r
    BY <1>11 DEF Unread, InRead, Point
  <2>2. stack' = fs \o Tail(stack)
    BY <1>12
  <2> HIDE DEF fs
  <2>3. Moves(fs, 1)
    BY <1>0, <2>1, <2>2, MovesGoto
  <2>4. requests' = Tail(requests) /\ last /\ Len(requests) > 1
    <3>1. stack' # <<then("wrote")>> \o Tail(stack)
      <4>1. <<then("wrote")>> \in Seq(Frame) /\ Len(<<then("wrote")>>) = 1
        BY <1>11
      <4> DEFINE gs == <<then("wrote")>>
      <4> HIDE DEF gs
      <4>2. Len(gs \o Tail(stack)) = Len(stack)
        BY <1>0, <4>1, Splice, Below DEF gs
      <4>3. Len(stack') = Len(stack) + 1
        BY <1>0, <2>1, <2>3 DEF Moves
      <4>4. stack' # gs \o Tail(stack)
        BY <1>0, <4>2, <4>3
      <4> QED
        BY <4>4 DEF gs
    <3> QED
      BY <1>9, <3>1
  <2> QED
    BY <1>0, <1>1, <1>2, <1>3, <1>5, <1>10, <2>1, <2>3, <2>4
<1>13. CASE /\ ~(last /\ Len(requests) > 1) /\ requests' = requests
            /\ stack' = <<then("wrote")>> \o Tail(stack)
  <2> DEFINE fs == <<then("wrote")>>
  <2>1. fs \in Seq(Frame) /\ fs \in Seq(Tame) /\ Len(fs) = 1 /\ fs[1].pc = "wrote"
    BY <1>11 DEF Tame, InRead
  <2>2. stack' = fs \o Tail(stack)
    BY <1>13
  <2> HIDE DEF fs
  <2>3. Moves(fs, 1)
    BY <1>0, <2>1, <2>2, MovesGoto
  <2> QED
    BY <1>0, <1>1, <1>2, <1>3, <1>5, <1>10, <1>13, <2>1, <2>3
<1> QED
  BY <1>9, <1>12, <1>13

\* The front of a queue of several is not the latest request.
LEMMA FrontEarlier ==
    ASSUME TypeOK, Sorted, Len(requests) > 1
    PROVE  /\ requests # <<>> /\ 1 \in 1 .. Len(requests) /\ Head(requests) = requests[1]
           /\ Head(requests) # arrived /\ ~OnlyLatest
<1>1. requests \in Seq(Requests) /\ Len(requests) \in Nat /\ arrived \in Int /\ Requests \subseteq Int
  BY BoundsAssumption DEF TypeOK, Requests
<1>2. 1 \in 1 .. Len(requests) /\ 2 \in 1 .. Len(requests) /\ requests # <<>>
  BY <1>1
<1>3. requests[1] \in Int /\ requests[2] \in Int /\ Head(requests) = requests[1]
  <2>1. requests[1] \in Requests /\ requests[2] \in Requests /\ Head(requests) = requests[1]
    BY <1>1, <1>2
  <2> QED
    BY <1>1, <2>1
<1>4. requests[1] < requests[2] /\ requests[2] <= arrived
  BY <1>2 DEF Sorted
<1> QED
  BY <1>1, <1>2, <1>3, <1>4 DEF OnlyLatest

\* write_next_response() keeps what is known of a running connection.
LEMMA WriteLast ==
    ASSUME TypeOK, OrderInv, RunningInv, WriteNextResponse
    PROVE  RunningInv'
<1> DEFINE r == Top.r
<1>0. PICK last \in BOOLEAN :
               /\ stack # <<>> /\ Top.pc = "write" /\ r \in Requests
               /\ requests # <<>> /\ Head(requests) = r /\ ~HasRejoin(stack)
               /\ UNCHANGED <<parsing, arrived, req>>
               /\ closing' = (closing \/ last)
               /\ Quieted => Quieted'
               /\ last /\ req[r].done => Quieted'
               /\ \A q \in Requests :
                      Written(q, "lasthead")' => Written(q, "lasthead") \/ (last /\ q = r)
               /\ \/ /\ last /\ Len(requests) > 1 /\ requests' = Tail(requests)
                     /\ \E fs \in Seq(Unread) :
                            /\ Moves(fs, 1) /\ Len(fs) = 2
                            /\ fs[1].pc = "drop" /\ fs[2].pc = "rejoin" /\ fs[2].r = r
                  \/ /\ ~(last /\ Len(requests) > 1) /\ requests' = requests
                     /\ \E fs \in Seq(Tame) : Moves(fs, 1) /\ Len(fs) = 1 /\ fs[1].pc = "wrote"
  BY WriteFacts
<1> HIDE DEF r
<1>1. /\ Len(stack) \in Nat \ {0} /\ stack[1] = Top /\ Len(requests) \in Nat \ {0}
      /\ requests \in Seq(Requests) /\ requests[1] = r
  BY <1>0, Below, QueueTail DEF TypeOK, Top
<1>2. ~(Len(stack) > 1 /\ Base(stack).pc = "on_read")
  <2> SUFFICES ASSUME Len(stack) > 1, Base(stack).pc = "on_read" PROVE FALSE
    OBVIOUS
  <2>1. Shielded(req, Top)
    BY <1>0, CoveredDeep DEF RunningInv
  <2> QED
    BY <1>0, <2>1 DEF Shielded
<1>3. ASSUME NEW fs \in Seq(Unread), Moves(fs, 1), Len(fs) > 0
      PROVE  ReadsLatest' /\ Covered' /\ stack'[1] = fs[1] /\ 1 \in 1 .. Len(stack')
  <2>1. fs \in Seq(Frame) /\ Len(fs) \in Nat /\ \A i \in 1 .. Len(fs) : fs[i].pc \notin InRead
    BY DEF Unread
  <2>2. ReadsLatest'
    BY <1>0, <1>3, UnreadReads DEF RunningInv
  <2>4. Covered'
    BY <1>0, <1>2, <1>3, UncoveredStays
  <2>5. 1 \in 1 .. Len(fs)
    BY <1>3, <2>1
  <2> QED
    BY <1>3, <2>2, <2>4, <2>5 DEF Moves
<1>4. CASE requests' = requests /\ ~(last /\ Len(requests) > 1)
  <2>1. PICK fs \in Seq(Tame) : Moves(fs, 1) /\ Len(fs) = 1 /\ fs[1].pc = "wrote"
    <3>1. requests' # Tail(requests)
      BY <1>1, <1>4, QueueTail
    <3> QED
      BY <1>0, <3>1
  <2>2. fs \in Seq(Unread)
    BY DEF Tame, Unread
  <2>3. ReadsLatest' /\ Covered' /\ stack'[1].pc = "wrote"
    BY <1>3, <2>1, <2>2
  <2>4. Over(stack') /\ ~HasRejoin(stack')
    BY <1>0, <2>1, TameOver, TameRejoins DEF RunningInv
  <2>5. Undone' /\ EarlyAlone'
    BY <1>0, <1>4 DEF RunningInv, Undone, EarlyAlone, LatestFin, OnlyLatest
  <2>6. Held'
    BY <2>4 DEF Held, HasRejoin
  <2>7. Announced'
    <3> SUFFICES ASSUME NEW q \in Requests, Written(q, "lasthead")'
                 PROVE  closing' /\ (Arriving(q)' \/ Remaining(q)')
      BY DEF Announced
    <3>1. ~HasRejoin(stack)' /\ \A k \in 1 .. Len(stack') : stack'[k].pc # "rejoin"
      BY <2>4 DEF HasRejoin
    <3>2. CASE Written(q, "lasthead")
      <4>1. closing /\ (Arriving(q) \/ Remaining(q))
        BY <3>2 DEF RunningInv, Announced
      <4>2. CASE Arriving(q)
        BY <1>0, <1>4, <3>1, <4>1, <4>2 DEF Arriving
      <4>3. CASE Remaining(q)
        <5>1. NoMore'
          <6>1. Top.pc \notin InRead \cup {"finish", "finished", "request_error"}
            BY <1>0 DEF InRead
          <6>2. LatestDone => LatestDone'
            BY <1>0 DEF LatestDone
          <6> QED
            BY <1>0, <1>2, <2>1, <4>3, <6>1, <6>2, TameNoMore DEF Remaining
        <5> QED
          BY <1>0, <1>4, <3>1, <4>1, <4>3, <5>1 DEF Remaining
      <4> QED
        BY <4>1, <4>2, <4>3
    <3>3. CASE last /\ q = r
      <4>1. requests = <<q>>
        <5>1. Len(requests) = 1
          <6> DEFINE n == Len(requests)
          <6>1. n \in Nat \ {0} /\ ~(n > 1)
            BY <1>1, <1>4, <3>3
          <6> HIDE DEF n
          <6>2. n = 1
            BY <6>1
          <6> QED
            BY <6>2 DEF n
        <5> QED
          BY <1>1, <3>3, <5>1
      <4>2. CASE ~req[q].done
        <5>1. parsing = q
          BY <1>1, <3>3, <4>2 DEF RunningInv, Undone
        <5> QED
          BY <1>0, <1>4, <3>1, <3>3, <4>1, <4>2, <5>1 DEF Arriving
      <4>3. CASE req[q].done
        <5>1. NoMore'
          BY <1>0, <2>3, <3>3, <4>3 DEF NoMore
        <5> QED
          BY <1>0, <1>4, <3>1, <3>3, <4>1, <4>3, <5>1 DEF Remaining
      <4> QED
        BY <4>2, <4>3
    <3> QED
      BY <1>0, <3>2, <3>3
  <2>8. Over(stack)' = Over(stack')
    BY DEF Over
  <2> QED
    BY <2>3, <2>4, <2>5, <2>6, <2>7, <2>8 DEF RunningInv
<1>5. CASE requests' = Tail(requests) /\ last /\ Len(requests) > 1
  <2>1. PICK fs \in Seq(Unread) : /\ Moves(fs, 1) /\ Len(fs) = 2
                                  /\ fs[1].pc = "drop" /\ fs[2].pc = "rejoin" /\ fs[2].r = r
    BY <1>0, <1>5
  <2>2. ReadsLatest' /\ Covered' /\ stack'[1].pc = "drop"
    BY <1>3, <2>1
  <2>3. /\ 2 \in 1 .. Len(stack') /\ stack'[2] = fs[2]
        /\ \A i \in 1 .. Len(stack') : i > 2 => i - 1 \in 1 .. Len(stack) /\ stack'[i] = stack[i - 1]
    <3>1. 2 \in 1 .. Len(fs)
      BY <2>1
    <3>2. \A i \in 1 .. Len(stack') : i > 2 => i - 2 + 1 \in 1 + 1 .. Len(stack) /\ stack'[i] = stack[i - 2 + 1]
      BY <2>1 DEF Moves
    <3>3. \A i \in 1 .. Len(stack') : i > 2 => i - 1 \in 1 .. Len(stack) /\ stack'[i] = stack[i - 1]
      BY <1>1, <3>2
    <3> QED
      BY <2>1, <3>1, <3>3 DEF Moves
  <2>4. \A i \in 1 .. Len(stack') : stack'[i].pc = "rejoin" => i = 2
    <3> SUFFICES ASSUME NEW i \in 1 .. Len(stack'), stack'[i].pc = "rejoin" PROVE i = 2
      OBVIOUS
    <3>1. ~(i > 2)
      BY <1>0, <2>3 DEF HasRejoin
    <3>2. i # 1
      BY <2>2
    <3>3. Len(stack') \in Nat
      BY <1>1, <2>1 DEF Moves
    <3> QED
      BY <3>1, <3>2, <3>3
  <2>5. Over(stack')
    <3> SUFFICES ASSUME NEW i \in 1 .. Len(stack'), stack'[i].pc = "drop"
                 PROVE  i + 1 \in 1 .. Len(stack') /\ stack'[i + 1].pc = "rejoin"
      BY DEF Over
    <3>1. ~(i > 2)
      <4> SUFFICES ASSUME i > 2 PROVE FALSE
        OBVIOUS
      <4>1. i - 1 \in 1 .. Len(stack) /\ stack[i - 1].pc = "drop"
        BY <2>3
      <4>2. i - 1 + 1 \in 1 .. Len(stack) /\ stack[i - 1 + 1].pc = "rejoin"
        BY <4>1 DEF RunningInv, Over
      <4> QED
        BY <1>0, <4>2 DEF HasRejoin
    <3>2. i # 2
      BY <2>1, <2>3
    <3>3. i = 1
      BY <3>1, <3>2
    <3> QED
      BY <2>1, <2>3, <3>3
  <2>6. req[r].done /\ ~LatestFin
    BY <1>0, <1>1, <1>5, FrontEarlier DEF RunningInv, Undone, EarlyAlone, OrderInv
  <2>7. Undone' /\ EarlyAlone'
    <3>1. \A i \in 1 .. Len(requests') : \E j \in 1 .. Len(requests) : requests'[i] = requests[j]
      BY <1>0, <1>1, <1>5, QueueTail
    <3>2. Undone'
      BY <1>0, <3>1 DEF RunningInv, Undone
    <3>3. ~LatestFin'
      BY <1>0, <2>6 DEF LatestFin
    <3> QED
      BY <3>2, <3>3 DEF EarlyAlone
  <2>8. Held'
    <3>1. ~LatestFin' /\ req' = req
      BY <1>0, <2>6 DEF LatestFin
    <3> QED
      BY <2>1, <2>2, <2>3, <2>4, <2>6, <3>1 DEF Held
  <2>9. Announced'
    <3> SUFFICES ASSUME NEW q \in Requests, Written(q, "lasthead")'
                 PROVE  closing' /\ Remaining(q)'
      BY DEF Announced
    <3>1. q = r
      <4> SUFFICES ASSUME Written(q, "lasthead") PROVE FALSE
        BY <1>0
      <4>1. Arriving(q) \/ Remaining(q)
        BY DEF RunningInv, Announced
      <4>2. requests = <<q>>
        BY <1>0, <4>1 DEF Arriving, Remaining
      <4> QED
        BY <1>5, <4>2
    <3>2. NoMore'
      BY <1>0, <1>5, <2>2, <2>6 DEF NoMore
    <3>3. HasRejoin(stack)'
      BY <2>1, <2>3 DEF HasRejoin
    <3>4. \A k \in 1 .. Len(stack') : stack'[k].pc = "rejoin" => stack'[k].r = q
      BY <2>1, <2>3, <2>4, <3>1
    <3> QED
      BY <1>0, <1>5, <3>2, <3>3, <3>4 DEF Remaining
  <2>10. Over(stack)' = Over(stack')
    BY DEF Over
  <2> QED
    BY <2>2, <2>5, <2>7, <2>8, <2>9, <2>10 DEF RunningInv
<1> QED
  BY <1>0, <1>4, <1>5

-----------------------------------------------------------------------------
(* Finishing *)

\* finish_request() keeps what is known of a running connection.
LEMMA FinishLast ==
    ASSUME TypeOK, OrderInv, RunningInv, FinishRequest, fault' = "none"
    PROVE  RunningInv'
<1> DEFINE r == Head(requests)
<1>0. /\ stack # <<>> /\ Top.pc = "finish" /\ requests # <<>>
      /\ UNCHANGED <<parsing, arrived, closing, stream, wire>>
      /\ \/ ~req[r].done /\ req' = [req EXCEPT ![r].fin = TRUE] /\ stack' = <<>> \o Tail(stack) /\ UNCHANGED requests
         \/ /\ req[r].done /\ req' = [req EXCEPT ![r].conn = FALSE] /\ requests' = Tail(requests)
            /\ stack' = <<Callback("finish", r), Point("finished", 0)>> \o Tail(stack)
  BY DEF FinishRequest, At, Goto, Forget, Abort, input, flags
<1>1. /\ stack \in Seq(Frame) /\ Len(stack) \in Nat \ {0} /\ stack[1] = Top /\ req \in [Requests -> ServerRequest]
      /\ requests \in Seq(Requests) /\ Len(requests) \in Nat \ {0} /\ requests[1] = r /\ r \in Requests
      /\ arrived \in 0 .. MaxRequests /\ \A i \in 1 .. Len(requests) : requests[i] \in Requests
  BY <1>0, Below, QueueTail DEF TypeOK, Top
<1>2. ~HasRejoin(stack)
  BY <1>0, FrontIn DEF Shielded
<1>3. Len(stack) > 1 /\ Base(stack).pc = "on_read" =>
          Len(stack) = 2 /\ OnlyLatest /\ LatestDone
  BY <1>0 DEF RunningInv, Covered
<1>4. (arrived # 0 => arrived \in Requests) /\ (requests[1] = arrived \/ OnlyLatest => Len(requests) = 1)
  <2>1. ~(Len(requests) > 1) => Len(requests) = 1
    <3> DEFINE n == Len(requests)
    <3>1. n \in Nat \ {0}
      BY <1>1
    <3> HIDE DEF n
    <3>2. ~(n > 1) => n = 1
      BY <3>1
    <3> QED
      BY <3>2 DEF n
  <2> QED
    BY <1>1, <2>1, FrontEarlier DEF OrderInv, Requests
<1> HIDE DEF r
<1>5. CASE ~req[r].done
  <2>1. /\ req' = [req EXCEPT ![r].fin = TRUE] /\ stack' = <<>> \o Tail(stack) /\ UNCHANGED requests
        /\ r = arrived /\ parsing = arrived
    BY <1>0, <1>1, <1>5 DEF RunningInv, Undone
  <2>2. <<>> \in Seq(Tame) /\ <<>> \in Seq(Unread) /\ <<>> \in Seq(Frame)
    OBVIOUS
  <2>3. Moves(<<>>, 1)
    BY <1>0, <2>1, <2>2, MovesGoto
  <2>4. \A q \in Requests : req'[q].done = req[q].done
    BY <1>1, <2>1 DEF ServerRequest
  <2>5. ReadsLatest' /\ Over(stack') /\ ~HasRejoin(stack')
    BY <1>0, <1>2, <2>2, <2>3, TameReads, TameOver, TameRejoins DEF RunningInv
  <2>6. Undone' /\ EarlyAlone'
    <3>1. Undone'
      BY <1>0, <1>1, <2>1, <2>4 DEF RunningInv, Undone
    <3>2. Len(requests) = 1
      BY <1>1, <1>4, <2>1
    <3>3. OnlyLatest'
      BY <1>0, <1>1, <2>1, <3>2 DEF OnlyLatest
    <3> QED
      BY <3>1, <3>3 DEF EarlyAlone
  <2>7. Covered'
    <3>1. ~LatestDone
      BY <1>5, <2>1 DEF LatestDone
    <3> QED
      BY <1>0, <1>3, <2>2, <2>3, <3>1, UncoveredStays
  <2>8. Held'
    BY <2>5 DEF Held, HasRejoin
  <2>9. Announced'
    <3> SUFFICES ASSUME NEW q \in Requests, Written(q, "lasthead")'
                 PROVE  closing' /\ Arriving(q)'
      BY DEF Announced
    <3>1. closing /\ (Arriving(q) \/ Remaining(q))
      BY <1>0, SameHeads DEF RunningInv, Announced
    <3>2. Arriving(q)
      BY <1>0, <1>1, <1>2, <1>5, <3>1 DEF Remaining
    <3>3. ~HasRejoin(stack)'
      BY <2>5 DEF HasRejoin
    <3> QED
      BY <1>0, <2>1, <2>4, <3>1, <3>2, <3>3 DEF Arriving
  <2>10. Over(stack)' = Over(stack')
    BY DEF Over
  <2> QED
    BY <2>5, <2>6, <2>7, <2>8, <2>9, <2>10 DEF RunningInv
<1>6. CASE req[r].done
  <2> DEFINE fs == <<Callback("finish", r), Point("finished", 0)>>
  <2>1. req' = [req EXCEPT ![r].conn = FALSE] /\ requests' = Tail(requests) /\ stack' = fs \o Tail(stack)
    BY <1>0, <1>6
  <2>2. /\ fs \in Seq(Tame) /\ fs \in Seq(Unread) /\ fs \in Seq(Frame) /\ Len(fs) = 2
        /\ fs[1].pc = "callback" /\ fs[1].r = r /\ fs[2].pc = "finished"
    <3>1. Callback("finish", r) \in Tame /\ Point("finished", 0) \in Tame
      BY <1>1, TameFrames DEF Events
    <3>2. fs \in Seq(Tame) /\ Len(fs) = 2 /\ fs[1] = Callback("finish", r) /\ fs[2] = Point("finished", 0)
      BY <3>1
    <3> QED
      BY <3>1, <3>2 DEF Callback, Point, Tame, Unread
  <2> HIDE DEF fs
  <2>3. Moves(fs, 1)
    BY <1>0, <2>1, <2>2, MovesGoto
  <2>4. /\ \A q \in Requests : req'[q].done = req[q].done /\ req'[q].fin = req[q].fin
        /\ ~req'[r].conn
    BY <1>1, <2>1 DEF ServerRequest
  <2>5. ReadsLatest' /\ Over(stack') /\ ~HasRejoin(stack')
    BY <1>0, <1>2, <2>2, <2>3, TameReads, TameOver, TameRejoins DEF RunningInv
  <2>6. /\ \A i \in 1 .. Len(requests') : \E j \in 1 .. Len(requests) : requests'[i] = requests[j]
        /\ Len(requests) = 1 => requests' = <<>>
    <3>1. Len(Tail(requests)) = Len(requests) - 1 /\ Tail(requests) \in Seq(Requests)
      BY <1>0, <1>1
    <3>2. Len(requests) = 1 => Tail(requests) = <<>>
      <4> DEFINE t == Tail(requests)
      <4>1. t \in Seq(Requests) /\ Len(t) = Len(requests) - 1
        BY <3>1
      <4> HIDE DEF t
      <4>2. Len(requests) = 1 => t = <<>>
        BY <4>1
      <4> QED
        BY <4>2 DEF t
    <3>3. \A i \in 1 .. Len(Tail(requests)) : \E j \in 1 .. Len(requests) : Tail(requests)[i] = requests[j]
      BY <1>0, <1>1, QueueTail
    <3> QED
      BY <2>1, <3>2, <3>3
  <2>7. LatestDone' = LatestDone /\ LatestFin' = LatestFin /\ (OnlyLatest => OnlyLatest')
    <3>1. LatestDone' = LatestDone /\ LatestFin' = LatestFin
      BY <1>0, <1>4, <2>4 DEF LatestDone, LatestFin
    <3>2. OnlyLatest => OnlyLatest'
      BY <1>0, <2>6 DEF OnlyLatest
    <3> QED
      BY <3>1, <3>2
  <2>8. Undone' /\ EarlyAlone'
    <3>1. EarlyAlone'
      BY <2>7 DEF RunningInv, EarlyAlone
    <3>2. ASSUME NEW i \in 1 .. Len(requests'), ~req'[requests'[i]].done
          PROVE  requests'[i] = arrived' /\ parsing' = arrived'
      <4>1. PICK j \in 1 .. Len(requests) : requests'[i] = requests[j]
        BY <2>6
      <4>2. requests[j] \in Requests
        BY <1>1
      <4>3. ~req[requests[j]].done
        BY <2>4, <3>2, <4>1, <4>2
      <4> QED
        BY <1>0, <4>1, <4>3 DEF RunningInv, Undone
    <3> QED
      BY <3>1, <3>2 DEF Undone
  <2>9. /\ 1 \in 1 .. Len(stack') /\ stack'[1] = fs[1] /\ stack'[2] = fs[2] /\ Len(stack') = Len(stack) + 1
    <3>1. 1 \in 1 .. Len(fs) /\ 2 \in 1 .. Len(fs)
      BY <2>2
    <3> QED
      BY <1>1, <2>2, <2>3, <3>1 DEF Moves
  <2>10. Covered'
    <3>1. CASE Len(stack) > 1 /\ Base(stack).pc = "on_read"
      <4>1. Len(stack) = 2 /\ requests' = <<>> /\ Len(stack') = 3
        <5>1. Len(stack) = 2 /\ OnlyLatest
          BY <1>3, <3>1
        <5>2. Len(requests) = 1
          BY <1>4, <5>1
        <5>3. requests' = <<>>
          BY <2>6, <5>2
        <5> QED
          BY <2>9, <5>1, <5>3
      <4>2. Shielded(req', stack'[1])
        BY <2>2, <2>4, <2>9 DEF Shielded
      <4>3. Len(stack') - 1 = 2 /\ \A j \in 1 .. Len(stack') - 2 : j = 1
        BY <4>1
      <4> QED
        BY <2>2, <2>9, <4>1, <4>2, <4>3 DEF Covered
    <3>2. CASE ~(Len(stack) > 1 /\ Base(stack).pc = "on_read")
      BY <1>0, <2>2, <2>3, <3>2, UncoveredStays
    <3> QED
      BY <3>1, <3>2
  <2>11. Held'
    BY <2>5 DEF Held, HasRejoin
  <2>12. Announced'
    <3> SUFFICES ASSUME NEW q \in Requests, Written(q, "lasthead")'
                 PROVE  closing' /\ Remaining(q)'
      BY DEF Announced
    <3>1. closing /\ (Arriving(q) \/ Remaining(q))
      BY <1>0, SameHeads DEF RunningInv, Announced
    <3>2. Remaining(q) /\ requests = <<q>>
      BY <1>0, <1>1, <1>2, <1>6, <3>1 DEF Remaining, Arriving
    <3>3. requests' = <<>>
      BY <2>6, <3>2
    <3>4. NoMore'
      <4>1. stack' # <<>> /\ stack'[1].pc = "callback"
        BY <2>2, <2>9
      <4>2. Quieted => NoMore'
        BY <1>0, <4>1 DEF NoMore, Quieted
      <4>3. (Base(stack))' = Base(stack')
        BY DEF Base
      <4>4. CASE Len(stack) = 1
        <5>1. Base(stack').pc = "finished"
          BY <2>2, <2>9, <4>4 DEF Base
        <5> QED
          BY <4>1, <4>3, <5>1 DEF NoMore, Ending
      <4>5. CASE Len(stack) # 1
        <5>1. Len(stack) > 1 /\ Len(stack') > 1
          <6> DEFINE n == Len(stack)
          <6>1. n \in Nat \ {0} /\ n # 1 /\ Len(stack') = n + 1
            BY <1>1, <2>9, <4>5
          <6> HIDE DEF n
          <6>2. n > 1 /\ Len(stack') > 1
            BY <6>1
          <6> QED
            BY <6>2 DEF n
        <5>2. Base(stack') = Base(stack)
          BY <2>2, <2>3, <5>1, MovesBase
        <5>3. Ending => Ending'
          BY <2>7, <4>1, <4>3, <5>1, <5>2 DEF Ending
        <5> QED
          BY <3>2, <4>2, <5>3 DEF NoMore, Remaining
      <4> QED
        BY <4>4, <4>5
    <3>5. \A k \in 1 .. Len(stack') : stack'[k].pc # "rejoin"
      BY <2>5 DEF HasRejoin
    <3> QED
      BY <1>0, <3>1, <3>3, <3>4, <3>5 DEF Remaining
  <2>13. Over(stack)' = Over(stack')
    BY DEF Over
  <2> QED
    BY <2>5, <2>8, <2>10, <2>11, <2>12, <2>13 DEF RunningInv
<1> QED
  BY <1>5, <1>6

\* finish_request() goes on with the next request unless the connection ends.
LEMMA FinishedLast ==
    ASSUME TypeOK, OrderInv, RunningInv, Finished, fault' = "none", stream'.mode \in {"open", "user"}
    PROVE  RunningInv'
<1> DEFINE w == <<Point("write", Head(requests))>>
<1>0. /\ stack # <<>> /\ Top.pc = "finished" /\ ~closing /\ stream \in Stream
      /\ UNCHANGED <<requests, parsing, arrived, closing, req, wire>>
      /\ \/ stack' = <<>> \o Tail(stack)
         \/ stack' = w \o Tail(stack) /\ requests # <<>>
  <2>1. ~SoftClose
    BY DEF SoftClose, TypeOK, Stream
  <2> QED
    BY <2>1 DEF Finished, At, Goto, Abort, TypeOK, input, flags
<1>1. /\ stack \in Seq(Frame) /\ Len(stack) \in Nat \ {0} /\ stack[1] = Top
  BY <1>0, Below DEF TypeOK, Top
<1>2. PICK fs \in Seq(Tame) : Moves(fs, 1) /\ (requests = <<>> => Len(fs) = 0)
  <2>1. <<>> \in Seq(Tame) /\ <<>> \in Seq(Frame)
    OBVIOUS
  <2>2. CASE stack' = <<>> \o Tail(stack)
    <3>1. Moves(<<>>, 1)
      BY <1>0, <2>1, <2>2, MovesGoto
    <3> QED
      BY <2>1, <3>1
  <2>3. CASE stack' = w \o Tail(stack) /\ requests # <<>>
    <3>1. w \in Seq(Tame) /\ w \in Seq(Frame)
      <4>1. Point("write", Head(requests)) \in Tame
        BY <2>3, HeadType, TameFrames
      <4> QED
        BY <4>1 DEF Tame
    <3> HIDE DEF w
    <3>2. Moves(w, 1)
      BY <1>0, <2>3, <3>1, MovesGoto
    <3> QED
      BY <2>3, <3>1, <3>2
  <2> QED
    BY <1>0, <2>2, <2>3
<1>3. ~HasRejoin(stack')
  <2>1. ~HasRejoin(stack)
    BY <1>0, FrontIn DEF Shielded
  <2> QED
    BY <1>2, <2>1, TameRejoins
<1>4. ReadsLatest' /\ Over(stack')
  BY <1>0, <1>2, TameReads, TameOver DEF RunningInv
<1>5. Undone' /\ EarlyAlone'
  BY <1>0 DEF RunningInv, Undone, EarlyAlone, LatestFin, OnlyLatest
<1>6. Held'
  BY <1>3 DEF Held, HasRejoin
<1>7. Announced'
  BY <1>0, SameHeads DEF RunningInv, Announced
<1>8. Covered'
  <2>1. CASE Len(stack) > 1 /\ Base(stack).pc = "on_read"
    <3>1. requests = <<>> /\ \A j \in 1 .. Len(stack) - 2 : Shielded(req, stack[j])
      BY <1>0, <1>1, <2>1 DEF RunningInv, Covered
    <3>2. 1 \notin 1 .. Len(stack) - 2
      BY <1>0, <1>1, <3>1 DEF Shielded
    <3>3. Len(stack') = Len(stack) - 1
      BY <1>1, <1>2, <3>1 DEF Moves
    <3>4. ~(Len(stack') > 1)
      <4> DEFINE n == Len(stack)
      <4>1. n \in Nat \ {0} /\ 1 \notin 1 .. n - 2 /\ Len(stack') = n - 1
        BY <1>1, <3>2, <3>3
      <4> HIDE DEF n
      <4> QED
        BY <4>1
    <3> QED
      BY <3>4 DEF Covered
  <2>2. CASE ~(Len(stack) > 1 /\ Base(stack).pc = "on_read")
    <3>1. fs \in Seq(Unread)
      BY DEF Tame, Unread
    <3> QED
      BY <1>0, <1>2, <2>2, <3>1, UncoveredStays
  <2> QED
    BY <2>1, <2>2
<1>9. Over(stack)' = Over(stack')
  BY DEF Over
<1> QED
  BY <1>4, <1>5, <1>6, <1>7, <1>8, <1>9 DEF RunningInv

-----------------------------------------------------------------------------
(* Reading *)

\* A stack of at most three frames, of which only the lowest may be of on_read().
LEMMA ShortStack ==
    ASSUME NEW f \in Tame, NEW h \in Tame, NEW g \in Frame, g.pc \notin {"drop", "rejoin"},
           g.pc \in {"deliver", "received"} => g.r = arrived',
           stack' \in {<<>>, <<f>>, <<g>>, <<f, g>>, <<f, h, g>>}
    PROVE  ReadsLatest' /\ Held' /\ Over(stack') /\ Over(stack)' /\ ~HasRejoin(stack)'
<1>1. /\ f.pc \notin {"drop", "rejoin"} /\ f.pc \notin InRead
      /\ h.pc \notin {"drop", "rejoin"} /\ h.pc \notin InRead
  BY DEF Tame
<1>2. \A i \in 1 .. Len(stack') :
          (i = Len(stack') /\ stack'[i] \in {f, g}) \/ stack'[i] \in {f, h}
  <2>1. CASE stack' = <<>>
    BY <2>1
  <2>2. CASE stack' = <<f>>
    BY <2>2
  <2>3. CASE stack' = <<g>>
    BY <2>3
  <2>4. CASE stack' = <<f, g>>
    BY <2>4
  <2>5. CASE stack' = <<f, h, g>>
    <3>1. Len(<<f, h, g>>) = 3 /\ <<f, h, g>>[1] = f /\ <<f, h, g>>[2] = h /\ <<f, h, g>>[3] = g
      OBVIOUS
    <3>2. 1 .. 3 = {1, 2, 3}
      OBVIOUS
    <3> QED
      BY <2>5, <3>1, <3>2
  <2> QED
    BY <2>1, <2>2, <2>3, <2>4, <2>5
<1>3. ReadsLatest'
  BY <1>1, <1>2 DEF ReadsLatest, InRead
<1>4. Held' /\ Over(stack') /\ ~HasRejoin(stack)'
  BY <1>1, <1>2 DEF Held, Over, HasRejoin
<1>5. Over(stack)' = Over(stack')
  BY DEF Over
<1> QED
  BY <1>3, <1>4, <1>5

\* on_read() runs alone, unless it calls.
LEMMA ReadAlone ==
    ASSUME TypeOK, RunningInv, stack # <<>>, Top.pc \in InRead
    PROVE  /\ Len(stack) = 1 /\ stack[1] = Top /\ Base(stack) = Top /\ ~HasRejoin(stack)
           /\ Top.pc # "on_read" => Top.r = arrived
           /\ \A fs \in Seq(Frame) : fs \o Tail(stack) = fs
<1>1. stack \in Seq(Frame) /\ stack[1] = Top /\ 1 \in 1 .. Len(stack)
  BY Below DEF TypeOK, Top
<1>2. Len(stack) = 1 /\ (Top.pc # "on_read" => Top.r = arrived)
  BY <1>1 DEF RunningInv, ReadsLatest
<1>3. Base(stack) = Top
  BY <1>1, <1>2 DEF Base
<1>4. ~HasRejoin(stack)
  BY <1>1, <1>2 DEF HasRejoin, InRead
<1>5. Tail(stack) = <<>>
  <2> DEFINE t == Tail(stack)
  <2>1. t \in Seq(Frame) /\ Len(t) = 0
    BY <1>1, <1>2, Below
  <2> HIDE DEF t
  <2>2. t = <<>>
    BY <2>1
  <2> QED
    BY <2>2 DEF t
<1>6. \A fs \in Seq(Frame) : fs \o <<>> = fs
  OBVIOUS
<1> QED
  BY <1>1, <1>2, <1>3, <1>4, <1>5, <1>6

\* The callbacks of on_read().
LEMMA DeliverLast ==
    ASSUME TypeOK, RunningInv, Deliver
    PROVE  RunningInv'
<1> DEFINE r == Top.r
           g == Point("received", r)
           part == Callback("partial", r)
           rcv == Callback("receive", r)
           rqs == Callback("request", r)
<1>0. /\ stack # <<>> /\ Top.pc = "deliver" /\ r \in Requests
      /\ UNCHANGED <<requests, parsing, arrived, req, closing, stream, wire>>
      /\ stack' \in {<<part, g>> \o Tail(stack), <<rcv, rqs, g>> \o Tail(stack), <<g>> \o Tail(stack)}
  BY TopRequest DEF Deliver, At, Goto, input, flags
<1>1. /\ Len(stack) = 1 /\ stack[1] = Top /\ Base(stack) = Top /\ ~HasRejoin(stack)
      /\ r = arrived /\ \A fs \in Seq(Frame) : fs \o Tail(stack) = fs
  BY <1>0, ReadAlone DEF InRead
<1>2. g \in Frame /\ g.pc = "received" /\ g.r = r
  BY <1>0, FrameTypes DEF Point
<1>a. /\ part \in Tame /\ rcv \in Tame /\ rqs \in Tame
  BY <1>0, TameFrames DEF Callback, Events
<1>3. PICK f \in Tame, h \in Tame : stack' \in {<<f, h, g>>, <<f, g>>, <<g>>}
  <2> HIDE DEF g, part, rcv, rqs
  <2>1. <<part, g>> \in Seq(Frame) /\ <<rcv, rqs, g>> \in Seq(Frame) /\ <<g>> \in Seq(Frame)
    BY <1>2, <1>a DEF Tame
  <2>2. stack' \in {<<part, g>>, <<rcv, rqs, g>>, <<g>>}
    BY <1>0, <1>1, <2>1
  <2> QED
    BY <1>a, <2>2
<1> HIDE DEF g, r
<1>4. ReadsLatest' /\ Held' /\ Over(stack)' /\ ~HasRejoin(stack)'
  BY <1>0, <1>1, <1>2, <1>3, ShortStack
<1>5. Base(stack').pc = "received" /\ stack' # <<>> /\ (Base(stack))' = Base(stack')
  <2>1. CASE stack' = <<f, g>>
    BY <1>2, <2>1 DEF Base
  <2>2. CASE stack' = <<g>>
    BY <1>2, <2>2 DEF Base
  <2>3. CASE stack' = <<f, h, g>>
    BY <1>2, <2>3 DEF Base
  <2> QED
    BY <1>3, <2>1, <2>2, <2>3
<1>6. Undone' /\ EarlyAlone' /\ Covered' /\ (LatestDone => LatestDone')
  BY <1>0, <1>5 DEF RunningInv, Undone, EarlyAlone, LatestFin, OnlyLatest, Covered, LatestDone
<1>7. Announced'
  <2> SUFFICES ASSUME NEW q \in Requests, Written(q, "lasthead")'
               PROVE  closing' /\ (Arriving(q)' \/ Remaining(q)')
    BY DEF Announced
  <2>1. closing /\ (Arriving(q) \/ Remaining(q))
    BY <1>0, SameHeads DEF RunningInv, Announced
  <2>2. CASE Arriving(q)
    BY <1>0, <1>4, <2>1, <2>2 DEF Arriving
  <2>3. CASE Remaining(q)
    <3>1. NoMore'
      <4>1. stack'[1].pc # "on_read"
        BY <1>2, <1>3 DEF Tame, InRead
      <4>2. Quieted => NoMore'
        BY <1>0, <4>1 DEF NoMore, Quieted
      <4>3. Ending => Ending'
        BY <1>0, <1>1, <1>5, <1>6 DEF Ending
      <4> QED
        BY <2>3, <4>2, <4>3 DEF NoMore, Remaining
    <3>2. \A k \in 1 .. Len(stack') : stack'[k].pc # "rejoin"
      BY <1>4 DEF HasRejoin
    <3> QED
      BY <1>0, <1>1, <2>1, <2>3, <3>1, <3>2 DEF Remaining
  <2> QED
    BY <2>1, <2>2, <2>3
<1> QED
  BY <1>4, <1>6, <1>7 DEF RunningInv

\* Two frames make a stack of two.
LEMMA Pair ==
    ASSUME NEW f \in Frame, NEW g \in Frame
    PROVE  <<f>> \o <<g>> = <<f, g>>
<1> DEFINE a == <<f>> \o <<g>>
           b == <<f, g>>
<1>1. a \in Seq(Frame) /\ Len(a) = 2 /\ a[1] = f /\ a[2] = g
  OBVIOUS
<1>2. b \in Seq(Frame) /\ Len(b) = 2 /\ b[1] = f /\ b[2] = g
  OBVIOUS
<1> HIDE DEF a, b
<1>3. a = b
  <2>1. \A i \in 1 .. 2 : a[i] = b[i]
    BY <1>1, <1>2
  <2> QED
    BY <1>1, <1>2, <2>1
<1> QED
  BY <1>3 DEF a, b

\* The end of on_read()'s turn: it does not go on once the end is announced.
LEMMA ReceivedLast ==
    ASSUME TypeOK, RunningInv, NEW more \in BOOLEAN, Received(more)
    PROVE  RunningInv'
<1> DEFINE r == Top.r
           f == Point("finish", 0)
           g == Point("on_read", 0)
           next == IF more THEN <<g>> ELSE <<>>
<1>0. /\ stack # <<>> /\ Top.pc = "received" /\ r \in Requests /\ stream \in Stream
      /\ UNCHANGED <<requests, parsing, arrived, req, closing, wire>>
  BY TopRequest DEF Received, At, TypeOK, input, flags
<1>1. /\ Len(stack) = 1 /\ stack[1] = Top /\ Base(stack) = Top /\ ~HasRejoin(stack)
      /\ r = arrived /\ \A fs \in Seq(Frame) : fs \o Tail(stack) = fs
  BY <1>0, ReadAlone DEF InRead
<1>2. /\ f \in Tame /\ f \in Frame /\ f.pc = "finish" /\ g \in Frame /\ g.pc = "on_read" /\ <<>> \in Seq(Frame)
      /\ <<f>> \o next \in {<<f>>, <<f, g>>} /\ next \in {<<>>, <<g>>}
  <2>1. f \in Tame /\ f \in Frame /\ f.pc = "finish" /\ g \in Frame /\ g.pc = "on_read" /\ <<>> \in Seq(Frame)
    BY TameFrames, FrameTypes DEF Point, Tame
  <2> HIDE DEF f, g
  <2>2. <<f>> \o <<>> = <<f>>
    BY <2>1
  <2>3. <<f>> \o <<g>> = <<f, g>>
    BY <2>1, Pair
  <2> QED
    BY <2>1, <2>2, <2>3
<1>3. \/ ~req[r].done /\ stack' = <<>> /\ stream' = stream
      \/ req[r].done /\ req[r].fin /\ stack' \in {<<f>>, <<f, g>>} /\ stream' = stream
      \/ req[r].done /\ ~req[r].fin /\ stack' = <<>> /\ ~stream'.reading
      \/ req[r].done /\ ~req[r].fin /\ ~closing /\ stack' \in {<<>>, <<g>>} /\ stream' = stream
  <2> HIDE DEF f, g
  <2>1. <<f>> \in Seq(Frame) /\ <<f, g>> \in Seq(Frame) /\ <<g>> \in Seq(Frame)
    BY <1>2
  <2>2. \A fs \in {<<>>, <<f>>, <<f, g>>, <<g>>} : fs \o Tail(stack) = fs
    BY <1>1, <1>2, <2>1
  <2>3. \/ ~req[r].done /\ stack' = <<>> \o Tail(stack) /\ stream' = stream
        \/ req[r].done /\ req[r].fin /\ stack' = (<<f>> \o next) \o Tail(stack) /\ stream' = stream
        \/ req[r].done /\ ~req[r].fin /\ stack' = <<>> \o Tail(stack) /\ ~stream'.reading
        \/ req[r].done /\ ~req[r].fin /\ ~closing /\ stack' = next \o Tail(stack) /\ stream' = stream
    BY <1>0 DEF Received, Goto, Stream, f, g
  <2> QED
    BY <1>2, <2>2, <2>3
<1> HIDE DEF f, g, r, next
<1>4. ReadsLatest' /\ Held' /\ Over(stack)' /\ ~HasRejoin(stack)'
  BY <1>2, <1>3, ShortStack
<1>5. Undone' /\ EarlyAlone'
  BY <1>0 DEF RunningInv, Undone, EarlyAlone, LatestFin, OnlyLatest
<1>6. arrived # 0 /\ (req[r].done <=> LatestDone) /\ (LatestDone => LatestDone') /\ (req[r].fin => OnlyLatest')
  BY <1>0, <1>1 DEF RunningInv, EarlyAlone, LatestFin, OnlyLatest, LatestDone, Requests
<1>7. Covered'
  <2>1. CASE req[r].fin /\ req[r].done /\ stack' \in {<<f>>, <<f, g>>}
    <3>1. stack'[1].pc = "finish" /\ OnlyLatest' /\ LatestDone' /\ (Len(stack') > 1 => Len(stack') = 2)
      <4>1. CASE stack' = <<f>>
        BY <1>2, <1>6, <2>1, <4>1
      <4>2. CASE stack' = <<f, g>>
        BY <1>2, <1>6, <2>1, <4>2
      <4> QED
        BY <2>1, <4>1, <4>2
    <3> QED
      BY <3>1 DEF Covered
  <2>2. CASE stack' \in {<<>>, <<g>>}
    <3>1. ~(Len(stack') > 1)
      <4>1. CASE stack' = <<>>
        BY <4>1
      <4>2. CASE stack' = <<g>>
        BY <4>2
      <4> QED
        BY <2>2, <4>1, <4>2
    <3> QED
      BY <3>1 DEF Covered
  <2> QED
    BY <1>3, <2>1, <2>2
<1>8. Announced'
  <2> SUFFICES ASSUME NEW q \in Requests, Written(q, "lasthead")'
               PROVE  closing' /\ (Arriving(q)' \/ Remaining(q)')
    BY DEF Announced
  <2>1. closing /\ (Arriving(q) \/ Remaining(q))
    BY <1>0, SameHeads DEF RunningInv, Announced
  <2>2. CASE Arriving(q)
    BY <1>0, <1>4, <2>1, <2>2 DEF Arriving
  <2>3. CASE Remaining(q)
    <3>1. NoMore'
      <4>1. CASE stack' = <<>>
        <5>1. Quieted'
          BY <1>0, <1>1, <1>3, <1>6, <2>1, <2>3, <4>1 DEF Remaining, NoMore, Ending, Quieted
        <5> QED
          BY <4>1, <5>1 DEF NoMore
      <4>2. CASE stack' = <<f>>
        BY <1>2, <4>2 DEF NoMore, Ending, Base
      <4>3. CASE stack' = <<f, g>>
        BY <1>2, <4>3 DEF NoMore, Ending, Base
      <4> QED
        BY <1>3, <2>1, <4>1, <4>2, <4>3
    <3>2. \A k \in 1 .. Len(stack') : stack'[k].pc # "rejoin"
      BY <1>4 DEF HasRejoin
    <3> QED
      BY <1>0, <1>1, <2>1, <2>3, <3>1, <3>2 DEF Remaining
  <2> QED
    BY <2>1, <2>2, <2>3
<1> QED
  BY <1>4, <1>5, <1>7, <1>8 DEF RunningInv

\* A request that failed ends the reading.
LEMMA ErrorLast ==
    ASSUME TypeOK, OrderInv, OwnOnly, Next, RunningInv, RequestError
    PROVE  RunningInv'
<1> DEFINE r == Top.r
           cb(ev) == <<Callback(ev, r), Point("errored", r)>>
<1>0. /\ stack # <<>> /\ Top.pc = "request_error" /\ r \in Requests
      /\ UNCHANGED <<requests, parsing, arrived, req, closing, wire>> /\ ~stream'.reading
      /\ \E fs \in {cb("partial_error"), cb("error")} : stack' = fs \o Tail(stack)
  BY TopRequest DEF RequestError, At, Goto, TypeOK, Stream, input, flags
<1>1. PICK fs \in Seq(Tame) : Moves(fs, 1) /\ Len(fs) = 2 /\ fs[1].pc = "callback"
  <2>1. \A ev \in {"partial_error", "error"} :
            cb(ev) \in Seq(Tame) /\ cb(ev) \in Seq(Frame) /\ Len(cb(ev)) = 2 /\ cb(ev)[1].pc = "callback"
    <3> TAKE ev \in {"partial_error", "error"}
    <3>1. Callback(ev, r) \in Tame /\ Point("errored", r) \in Tame /\ Callback(ev, r).pc = "callback"
      BY <1>0, TameFrames DEF Events, Callback
    <3> QED
      BY <3>1 DEF Tame
  <2> HIDE DEF cb
  <2> QED
    BY <1>0, <2>1, MovesGoto
<1>2. ~HasRejoin(stack) /\ ~HasRejoin(stack') /\ HasRejoin(stack)' = HasRejoin(stack')
  <2>1. ~HasRejoin(stack)
    BY <1>0, FrontIn DEF Shielded
  <2>2. HasRejoin(stack)' = HasRejoin(stack')
    BY DEF HasRejoin
  <2> QED
    BY <1>1, <2>1, <2>2, TameRejoins
<1>3. ReadsLatest' /\ Covered' /\ Over(stack')
  BY <1>0, <1>1, TameReads, TameCovered, TameOver DEF RunningInv, InRead
<1>4. Undone' /\ EarlyAlone' /\ Held'
  BY <1>0, <1>2 DEF RunningInv, Undone, EarlyAlone, LatestFin, OnlyLatest, Held, HasRejoin
<1>5. Announced'
  <2> SUFFICES ASSUME NEW q \in Requests, Written(q, "lasthead")'
               PROVE  closing' /\ (Arriving(q)' \/ Remaining(q)')
    BY DEF Announced
  <2>1. closing /\ (Arriving(q) \/ Remaining(q))
    BY <1>0, SameHeads DEF RunningInv, Announced
  <2>2. NoMore'
    <3>1. stack'[1].pc = "callback"
      <4>1. 1 \in 1 .. Len(fs)
        BY <1>1
      <4> QED
        BY <1>1, <4>1 DEF Moves
    <3> QED
      BY <1>0, <3>1 DEF NoMore, Quieted
  <2>3. \A k \in 1 .. Len(stack') : stack'[k].pc # "rejoin"
    BY <1>2 DEF HasRejoin
  <2> QED
    BY <1>0, <1>2, <2>1, <2>2, <2>3 DEF Arriving, Remaining
<1>6. Over(stack)' = Over(stack')
  BY DEF Over
<1> QED
  BY <1>3, <1>4, <1>5, <1>6 DEF RunningInv

\* The stream calls on_read() only if it may.
LEMMA OnReadLast ==
    ASSUME TypeOK, RunningInv, OnRead
    PROVE  RunningInv'
<1> DEFINE g == Point("on_read", 0)
<1>0. /\ stack = <<>> /\ stack' = <<g>> /\ ~Quieted
      /\ UNCHANGED <<requests, parsing, arrived, req, closing, wire>>
  BY DEF OnRead, Loop, CanRead, Quieted, input, flags
<1>1. g \in Frame /\ g.pc = "on_read" /\ Point("finish", 0) \in Tame
  BY FrameTypes, TameFrames DEF Point
<1> HIDE DEF g
<1>2. ReadsLatest' /\ Held' /\ Over(stack)' /\ ~HasRejoin(stack)'
  BY <1>0, <1>1, ShortStack
<1>3. Undone' /\ EarlyAlone' /\ Covered'
  BY <1>0 DEF RunningInv, Undone, EarlyAlone, LatestFin, OnlyLatest, Covered
<1>4. Announced'
  <2> SUFFICES ASSUME NEW q \in Requests, Written(q, "lasthead")'
               PROVE  closing' /\ Arriving(q)'
    BY DEF Announced
  <2>1. closing /\ (Arriving(q) \/ Remaining(q))
    BY <1>0, SameHeads DEF RunningInv, Announced
  <2>2. ~Remaining(q)
    BY <1>0 DEF Remaining, NoMore, Ending
  <2> QED
    BY <1>0, <1>2, <2>1, <2>2 DEF Arriving
<1> QED
  BY <1>2, <1>3, <1>4 DEF RunningInv

\* What the queue is made of once r was put in.
LEMMA QueueWith ==
    ASSUME TypeOK, NEW r \in Requests, requests' \in {requests, Append(requests, r)}
    PROVE  \A i \in 1 .. Len(requests') : requests'[i] = r \/ \E j \in 1 .. Len(requests) : requests'[i] = requests[j]
<1>1. requests \in Seq(Requests) /\ Len(requests) \in Nat
  BY DEF TypeOK
<1>2. CASE requests' = Append(requests, r)
  <2>1. Len(requests') = Len(requests) + 1 /\ requests'[Len(requests) + 1] = r
        /\ \A i \in 1 .. Len(requests) : requests'[i] = requests[i]
    BY <1>1, <1>2
  <2> QED
    BY <1>1, <2>1
<1> QED
  BY <1>1, <1>2

\* on_read() takes up another request only while the latest one arrives.
LEMMA ParseLast ==
    ASSUME TypeOK, OrderInv, RunningInv, NEW result, NEW shape \in Shapes, Parse(result, shape)
    PROVE  RunningInv'
<1> DEFINE r == IF parsing # 0 THEN parsing ELSE arrived + 1
           over == result \in {"done", "error"}
           e == Point("request_error", r)
           d == Point("deliver", r)
           c == Callback("route", r)
<1>0. /\ stack # <<>> /\ Top.pc = "on_read" /\ MoreInput /\ requests' = Emplace(r)
      /\ arrived' = (IF parsing # 0 THEN arrived ELSE r) /\ parsing' = (IF over THEN 0 ELSE r)
      /\ UNCHANGED <<closing, stream, wire>>
  BY Zenon DEF Parse, At, flags
<1>1. r \in Requests
  BY <1>0, BoundsAssumption DEF MoreInput, TypeOK, Requests
<1>2. /\ Len(stack) = 1 /\ stack[1] = Top /\ Base(stack) = Top /\ ~HasRejoin(stack)
      /\ \A fs \in Seq(Frame) : fs \o Tail(stack) = fs
  BY <1>0, ReadAlone DEF InRead
<1>3. r = arrived' /\ parsing \in {0, arrived} /\ (parsing # 0 => r = arrived)
  <2>1. parsing \in {0, arrived}
    BY <1>0, <1>2 DEF OrderInv, Parsed, NoInput, InRead
  <2> QED
    BY <1>0, <2>1
<1>4. /\ \A q \in Requests : q # r => req'[q] = req[q]
      /\ req'[r].done = over /\ req'[r].fin = (parsing # 0 /\ req[r].fin)
  <2> DEFINE q == IF parsing # 0 THEN req[r] ELSE NewRequest(shape)
  <2>1. \E b \in BOOLEAN : req' = [req EXCEPT ![r] = [q EXCEPT !.done = over, !.routed = b]]
    <3>1. \E b : req' = [req EXCEPT ![r] = [q EXCEPT !.done = over, !.routed = q.routed \/ b]]
      BY DEF Parse
    <3> QED
      BY <3>1
  <2>2. q \in ServerRequest /\ q.fin = (parsing # 0 /\ req[r].fin)
    <3>1. req[r] \in ServerRequest /\ shape \in Shape
      BY <1>1, EnvironmentAssumption DEF TypeOK
    <3> QED
      BY <3>1 DEF ServerRequest, NewRequest
  <2> HIDE DEF q, r, over
  <2> QED
    BY <1>1, <2>1, <2>2 DEF TypeOK, ServerRequest
<1>5. \E fs \in {<<>>, <<e>>, <<c, d>>, <<d>>} : stack' = fs \o Tail(stack) /\ (over => fs # <<>>)
  BY DEF Parse, Goto
<1>6. /\ e \in Tame /\ e.pc = "request_error" /\ c \in Tame /\ c.pc = "callback"
      /\ d \in Frame /\ d.pc = "deliver" /\ d.r = r
  BY <1>1, FrameTypes, TameFrames DEF Point, Callback, Events
<1> HIDE DEF r, over, e, d, c
<1>7. stack' \in {<<>>, <<e>>, <<c, d>>, <<d>>} /\ (over => stack' # <<>>)
  <2>1. <<>> \in Seq(Frame) /\ <<e>> \in Seq(Frame) /\ <<c, d>> \in Seq(Frame) /\ <<d>> \in Seq(Frame)
    BY <1>6 DEF Tame
  <2> QED
    BY <1>2, <1>5, <2>1
<1>8. ReadsLatest' /\ Held' /\ Over(stack)' /\ ~HasRejoin(stack)'
  <2>1. CASE stack' = <<e>>
    BY <1>3, <1>6, <2>1, ShortStack
  <2>2. CASE stack' \in {<<>>, <<c, d>>, <<d>>}
    BY <1>3, <1>6, <2>2, ShortStack
  <2> QED
    BY <1>7, <2>1, <2>2
<1>9. /\ (Base(stack))' = Base(stack') /\ (stack' # <<>> => Base(stack').pc \in {"request_error", "deliver"})
      /\ (Len(stack') > 1 => stack' # <<>>)
  BY <1>6, <1>7 DEF Base
<1>10. Covered'
  BY <1>9 DEF Covered
<1>11. requests' \in {requests, Append(requests, r)}
  BY <1>0 DEF Emplace
<1>12. \A i \in 1 .. Len(requests') : requests'[i] = r \/ \E j \in 1 .. Len(requests) : requests'[i] = requests[j]
  BY <1>1, <1>11, QueueWith
<1>13. Undone'
  <2> SUFFICES ASSUME NEW i \in 1 .. Len(requests'), ~req'[requests'[i]].done
               PROVE  requests'[i] = arrived' /\ parsing' = arrived'
    BY DEF Undone
  <2>1. CASE requests'[i] = r
    BY <1>0, <1>3, <1>4, <2>1
  <2>2. CASE requests'[i] # r
    <3>1. PICK j \in 1 .. Len(requests) : requests'[i] = requests[j]
      BY <1>12, <2>2
    <3>2. requests[j] \in Requests
      BY DEF TypeOK
    <3>3. requests[j] = arrived /\ parsing = arrived
      BY <1>4, <2>2, <3>1, <3>2 DEF RunningInv, Undone
    <3> QED
      BY <1>3, <2>2, <3>1, <3>2, <3>3, BoundsAssumption DEF Requests
  <2> QED
    BY <2>1, <2>2
<1>14. EarlyAlone'
  <2> SUFFICES ASSUME LatestFin' PROVE OnlyLatest'
    BY DEF EarlyAlone
  <2>1. parsing # 0 /\ req[r].fin
    BY <1>3, <1>4 DEF LatestFin
  <2>2. LatestFin
    BY <1>3, <2>1 DEF LatestFin
  <2>3. OnlyLatest
    BY <2>2 DEF RunningInv, EarlyAlone
  <2> QED
    BY <1>3, <1>12, <2>1, <2>3 DEF OnlyLatest
<1>15. Announced'
  <2> SUFFICES ASSUME NEW q \in Requests, Written(q, "lasthead")'
               PROVE  closing' /\ (Arriving(q)' \/ Remaining(q)')
    BY DEF Announced
  <2>1. closing /\ (Arriving(q) \/ Remaining(q))
    BY <1>0, SameHeads DEF RunningInv, Announced
  <2>2. Arriving(q)
    <3>1. ~NoMore
      BY <1>0, <1>2 DEF NoMore, Ending
    <3> QED
      BY <2>1, <3>1 DEF Remaining
  <2>3. q # 0 /\ parsing = q /\ q = r /\ requests = <<q>> /\ Last(requests) = q
    BY <1>3, <2>2 DEF Arriving, Last, Requests
  <2>4. requests' = <<q>>
    BY <1>0, <2>3 DEF Emplace
  <2>5. CASE ~over
    BY <1>0, <1>4, <1>8, <2>1, <2>3, <2>4, <2>5 DEF Arriving
  <2>6. CASE over
    <3>1. LatestDone'
      BY <1>1, <1>3, <1>4, <2>3, <2>6 DEF LatestDone
    <3>2. NoMore'
      BY <1>7, <1>9, <2>6, <3>1 DEF NoMore, Ending
    <3>3. \A k \in 1 .. Len(stack') : stack'[k].pc # "rejoin"
      BY <1>8 DEF HasRejoin
    <3> QED
      BY <1>0, <1>4, <2>1, <2>3, <2>4, <2>6, <3>2, <3>3 DEF Remaining
  <2> QED
    BY <2>5, <2>6
<1> QED
  BY <1>8, <1>10, <1>13, <1>14, <1>15 DEF RunningInv

\* A read error ends the request that was arriving, or a new one.
LEMMA ReadErrorLast ==
    ASSUME TypeOK, OrderInv, RunningInv, OnReadError
    PROVE  RunningInv'
<1> DEFINE fresh == requests = <<>> \/ req[Last(requests)].done
           r == IF fresh THEN arrived + 1 ELSE Last(requests)
           q == IF fresh THEN NewRequest(PlainShape) ELSE req[r]
           e == Point("request_error", r)
<1>0. /\ stack = <<>> /\ ~Quieted /\ UNCHANGED <<parsing, closing, stream, wire>>
      /\ requests' = IF fresh THEN Append(requests, r) ELSE requests
      /\ arrived' = IF fresh THEN r ELSE arrived
      /\ req' = [req EXCEPT ![r] = [q EXCEPT !.done = TRUE]]
      /\ stack' = <<e>>
  BY DEF OnReadError, Loop, CanRead, Quieted, flags
<1>1. r \in Requests
  BY ErrorRequest
<1>2. /\ \A p \in Requests : p # r => req'[p] = req[p]
      /\ req'[r].done /\ req'[r].fin = (~fresh /\ req[r].fin)
  <2>1. q \in ServerRequest /\ q.fin = (~fresh /\ req[r].fin)
    <3>1. req[r] \in ServerRequest
      BY <1>1 DEF TypeOK
    <3> QED
      BY <3>1 DEF ServerRequest, NewRequest, PlainShape, Shape
  <2> HIDE DEF q, r, fresh
  <2> QED
    BY <1>0, <1>1, <2>1 DEF TypeOK, ServerRequest
<1>3. /\ requests \in Seq(Requests) /\ Len(requests) \in Nat /\ arrived \in Int
      /\ \A i \in 1 .. Len(requests) : requests[i] \in Requests /\ requests[i] \in Int
      /\ requests # <<>> => Len(requests) \in 1 .. Len(requests) /\ Last(requests) = requests[Len(requests)]
  BY BoundsAssumption DEF TypeOK, Requests, Last
<1>4. ~fresh => r = arrived /\ parsing = arrived /\ r = requests[Len(requests)]
  <2> HAVE ~fresh
  <2>1. r = requests[Len(requests)] /\ Len(requests) \in 1 .. Len(requests) /\ ~req[r].done
    BY <1>3
  <2> QED
    BY <2>1 DEF RunningInv, Undone
<1>5. \A i \in 1 .. Len(requests) : ~req[requests[i]].done => ~fresh
  <2> SUFFICES ASSUME NEW i \in 1 .. Len(requests), ~req[requests[i]].done, fresh PROVE FALSE
    OBVIOUS
  <2>1. requests # <<>> /\ requests[i] = arrived /\ req[requests[Len(requests)]].done
    BY <1>3 DEF RunningInv, Undone
  <2>2. i < Len(requests)
    BY <1>3, <2>1
  <2>3. requests[i] < requests[Len(requests)] /\ requests[Len(requests)] <= arrived
    BY <1>3, <2>1, <2>2 DEF OrderInv, Sorted
  <2> QED
    BY <1>3, <2>1, <2>3
<1>6. e \in Tame /\ e.pc = "request_error" /\ e \in Frame
  BY <1>1, TameFrames DEF Point, Tame
<1> HIDE DEF fresh, r, q, e
<1>7. ReadsLatest' /\ Held' /\ Over(stack)' /\ ~HasRejoin(stack)'
  BY <1>0, <1>6, ShortStack
<1>8. Covered'
  BY <1>0 DEF Covered
<1>9. \A i \in 1 .. Len(requests') : requests'[i] = r \/ \E j \in 1 .. Len(requests) : requests'[i] = requests[j]
  BY <1>0, <1>1, QueueWith
<1>10. Undone'
  <2> SUFFICES ASSUME NEW i \in 1 .. Len(requests') PROVE req'[requests'[i]].done
    BY DEF Undone
  <2>1. CASE requests'[i] = r
    BY <1>2, <2>1
  <2>2. CASE requests'[i] # r
    <3>1. PICK j \in 1 .. Len(requests) : requests'[i] = requests[j]
      BY <1>9, <2>2
    <3>2. req[requests[j]].done
      BY <1>4, <1>5, <2>2, <3>1 DEF RunningInv, Undone
    <3> QED
      BY <1>2, <1>3, <2>2, <3>1, <3>2
  <2> QED
    BY <2>1, <2>2
<1>11. EarlyAlone'
  <2> SUFFICES ASSUME LatestFin' PROVE OnlyLatest'
    BY DEF EarlyAlone
  <2>1. ~fresh /\ LatestFin
    BY <1>0, <1>2, <1>4 DEF LatestFin
  <2> QED
    BY <1>0, <2>1 DEF RunningInv, EarlyAlone, OnlyLatest
<1>12. Announced'
  <2> SUFFICES ASSUME NEW p \in Requests, Written(p, "lasthead")'
               PROVE  closing' /\ Remaining(p)'
    BY DEF Announced
  <2>1. closing /\ (Arriving(p) \/ Remaining(p))
    BY <1>0, SameHeads DEF RunningInv, Announced
  <2>2. Arriving(p)
    BY <1>0, <2>1 DEF Remaining, NoMore, Ending
  <2>3. ~fresh /\ p = r /\ requests' = <<p>>
    <3>1. requests = <<p>> /\ ~req[p].done
      BY <2>2 DEF Arriving
    <3>2. requests[1] = p /\ 1 \in 1 .. Len(requests) /\ Len(requests) = 1
      BY <3>1
    <3> QED
      BY <1>0, <1>4, <1>5, <3>1, <3>2
  <2>4. NoMore'
    BY <1>0, <1>6 DEF NoMore, Ending, Base
  <2>5. \A k \in 1 .. Len(stack') : stack'[k].pc # "rejoin"
    BY <1>7 DEF HasRejoin
  <2> QED
    BY <1>0, <1>2, <2>1, <2>3, <2>4, <2>5 DEF Remaining
<1> QED
  BY <1>7, <1>8, <1>10, <1>11, <1>12 DEF RunningInv

-----------------------------------------------------------------------------
(* What the user does *)

\* Whoever may touch a request finds the front in the queue.
LEMMA HolderFront ==
    ASSUME TypeOK, OrderInv, OwnOnly, NEW r \in Requests, Holds(r), stack # <<>> => Top.pc = "callback"
    PROVE  ~HasRejoin(stack)
<1>1. CASE stack = <<>>
  BY <1>1 DEF HasRejoin
<1>2. CASE stack # <<>>
  <2>1. Top.r = r /\ req[r].conn
    BY <1>2 DEF Holds
  <2>2. ~Shielded(req, Top)
    BY <1>2, <2>1 DEF Shielded
  <2> QED
    BY <1>2, <2>2, FrontIn
<1> QED
  BY <1>1, <1>2

\* After an upgrade the connection listens no more.
LEMMA UpgradeLast ==
    ASSUME TypeOK, OrderInv, OwnOnly, Next, RunningInv, NEW r \in Requests, Upgrade(r), fault' = "none"
    PROVE  RunningInv'
<1> DEFINE fs == <<Callback("finish", r), Point("remove", 0)>>
<1>0. /\ fault = "none" /\ (stack # <<>> => Top.pc = "callback")
      /\ Holds(r) /\ requests = <<r>> /\ requests' = <<>> /\ stack' = fs \o stack /\ ~stream'.listener
      /\ UNCHANGED <<parsing, arrived, closing, wire>> /\ req' = [req EXCEPT ![r].conn = FALSE]
  <2>1. /\ fault = "none" /\ (stack # <<>> => Top.pc = "callback") /\ Holds(r)
        /\ requests = <<r>> /\ stream' = [stream EXCEPT !.listener = FALSE, !.mode = IF @ = "open" THEN "user" ELSE @]
        /\ requests' = Tail(requests) /\ req' = [req EXCEPT ![r].conn = FALSE]
        /\ stack' = fs \o stack /\ UNCHANGED <<parsing, arrived, closing, wire>>
    BY DEF Upgrade, UserMay, Abort, Forget, input, flags
  <2>2. Tail(<<r>>) = <<>>
    OBVIOUS
  <2> QED
    BY <2>1, <2>2 DEF TypeOK, Stream
<1>1. ~HasRejoin(stack)
  BY <1>0, HolderFront
<1>2. fs \in Seq(Tame) /\ fs \in Seq(Frame) /\ Len(fs) = 2 /\ fs[1].pc = "callback"
  <2>1. Callback("finish", r) \in Tame /\ Point("remove", 0) \in Tame /\ Callback("finish", r).pc = "callback"
    BY TameFrames DEF Events, Callback
  <2> QED
    BY <2>1 DEF Tame
<1> HIDE DEF fs
<1>3. Moves(fs, 0)
  BY <1>0, <1>2, MovesCall
<1>4. ReadsLatest' /\ Covered' /\ Over(stack')
  BY <1>0, <1>2, <1>3, TameReads, TameCovered, TameOver DEF RunningInv, InRead
<1>5. ~HasRejoin(stack') /\ ~HasRejoin(stack)'
  <2>1. ~HasRejoin(stack')
    BY <1>1, <1>2, <1>3, TameRejoins
  <2> QED
    BY <2>1 DEF HasRejoin
<1>6. Undone' /\ EarlyAlone' /\ Held'
  BY <1>0, <1>5 DEF Undone, EarlyAlone, OnlyLatest, Held, HasRejoin
<1>7. Announced'
  <2> SUFFICES ASSUME NEW q \in Requests, Written(q, "lasthead")'
               PROVE  closing' /\ Remaining(q)'
    BY DEF Announced
  <2>1. closing
    BY <1>0, SameHeads DEF RunningInv, Announced
  <2>2. stack'[1].pc = "callback"
    <3>1. 1 \in 1 .. Len(fs)
      BY <1>2
    <3> QED
      BY <1>2, <1>3, <3>1 DEF Moves
  <2>3. NoMore' /\ \A k \in 1 .. Len(stack') : stack'[k].pc # "rejoin"
    BY <1>0, <1>5, <2>2 DEF NoMore, Quieted, HasRejoin
  <2> QED
    BY <1>0, <2>1, <2>3 DEF Remaining
<1>8. Over(stack)' = Over(stack')
  BY DEF Over
<1> QED
  BY <1>4, <1>6, <1>7, <1>8 DEF RunningInv

\* stream->write() leaves the reading alone.
LEMMA WriteQuiet ==
    ASSUME TypeOK, NEW items \in Seq(Further), Write(items)
    PROVE  (Quieted => Quieted') /\ \A r \in Requests : Written(r, "lasthead")' => Written(r, "lasthead")
<1>1. stream'.reading = stream.reading /\ stream'.listener = stream.listener /\ wire' \in {wire, wire \o items}
  BY DEF Write, TypeOK, Stream
<1> QED
  BY <1>1, FurtherHeads DEF Quieted

\* respond() takes up no request.
LEMMA RespondQuiet ==
    ASSUME TypeOK, NEW r \in Requests, NEW ka, NEW whole, NEW rest, respond(r, ka, whole, rest), fault' = "none",
           \/ rest = stack /\ (stack # <<>> => Top.pc = "callback")
           \/ rest = Tail(stack) /\ stack # <<>> /\ Top.pc = "errored"
    PROVE  QuietStep
<1>0. stack \in Seq(Frame) /\ Tail(stack) = <<>> \o Tail(stack) /\ stack = <<>> \o stack
  BY DEF TypeOK
<1>1. /\ UNCHANGED <<requests, parsing, arrived, closing, req, stream, wire>>
      /\ stack' = <<Point("write", r)>> \o rest \/ stack' = <<>> \o rest
  <2>1. rest = <<>> \o rest
    BY <1>0
  <2> QED
    BY <2>1 DEF respond, Abort, input
<1>2. PICK fs \in Seq(Tame) : stack' = fs \o rest
  <2>1. <<Point("write", r)>> \in Seq(Tame) /\ <<>> \in Seq(Tame)
    BY TameFrames
  <2> QED
    BY <1>1, <2>1
<1>3. fs \in Seq(Frame)
  BY DEF Tame
<1>4. \E m \in {0, 1} : Moves(fs, m)
  BY <1>2, <1>3, MovesCall, MovesGoto
<1> QED
  BY <1>1, <1>4, SameHeads DEF QuietStep, Quieted

\* Routines that only go on.
LEMMA StepQuiet ==
    ASSUME TypeOK, fault' = "none", Errored \/ Wrote \/ RemoveConnection \/ Return
    PROVE  QuietStep
<1> USE DEF At, Goto, input, flags
<1>0. /\ <<>> \in Seq(Tame) /\ <<>> \in Seq(Frame)
      /\ <<Point("finish", 0)>> \in Seq(Tame) /\ <<Point("finish", 0)>> \in Seq(Frame)
  BY TameFrames, FrameTypes
<1>1. CASE Errored
  <2>1. Top.r \in Requests /\ stack # <<>> /\ Top.pc = "errored"
    BY <1>1, TopRequest DEF Errored
  <2>2. CASE respond(Top.r, FALSE, TRUE, Tail(stack))
    BY <2>1, <2>2, RespondQuiet
  <2>3. CASE stack' = <<>> \o Tail(stack) /\ UNCHANGED <<requests, parsing, arrived, closing, req, stream, wire>>
    <3>1. Moves(<<>>, 1)
      BY <1>0, <2>1, <2>3, MovesGoto
    <3> QED
      BY <1>0, <2>1, <2>3, <3>1, SameHeads DEF QuietStep, Quieted
  <2> QED
    BY <1>1, <2>2, <2>3 DEF Errored
<1>2. CASE Wrote
  <2>1. /\ Top.r \in Requests /\ stack # <<>> /\ Top.pc = "wrote"
        /\ UNCHANGED <<requests, parsing, arrived, closing, req>>
    BY <1>2, TopRequest DEF Wrote
  <2> DEFINE fin == <<Point("finish", 0)>>
  <2>2. \E fs \in {<<>>, fin} : stack' = fs \o Tail(stack)
    BY <1>2 DEF Wrote
  <2> HIDE DEF fin
  <2>3. \E fs \in Seq(Tame), m \in {0, 1} : Moves(fs, m)
    BY <1>0, <2>1, <2>2, MovesGoto DEF fin
  <2>4. CASE UNCHANGED <<wire, stream>>
    BY <2>1, <2>3, <2>4, SameHeads DEF QuietStep, Quieted
  <2>5. CASE Write(Chunks(Top.r, Top.tmp))
    <3>1. Top.tmp \in Seq(ChunkNumbers)
      <4>1. Head(stack) \in Frame
        BY <2>1 DEF TypeOK
      <4> QED
        BY <2>1, <4>1 DEF Frame, Top
    <3>2. Chunks(Top.r, Top.tmp) \in Seq(Further)
      BY <2>1, <3>1, FurtherItems
    <3> QED
      BY <2>1, <2>3, <2>5, <3>2, WriteQuiet DEF QuietStep
  <2> QED
    BY <1>2, <2>4, <2>5 DEF Wrote
<1>3. CASE RemoveConnection \/ Return
  <2>1. /\ UNCHANGED <<requests, parsing, arrived, closing, req, stream, wire>> /\ stack' = <<>> \o Tail(stack)
        /\ stack # <<>> /\ Top.pc \in {"remove", "callback"}
    BY <1>3 DEF RemoveConnection, Return
  <2>2. Moves(<<>>, 1)
    BY <1>0, <2>1, MovesGoto
  <2> QED
    BY <1>0, <2>1, <2>2, SameHeads DEF QuietStep, Quieted
<1> QED
  BY <1>1, <1>2, <1>3

\* The user's answers.
LEMMA UserQuiet ==
    ASSUME TypeOK, fault' = "none", NEW r \in Requests,
           \/ \E ka, whole \in BOOLEAN : Respond(r, ka, whole)
           \/ EnablePartial(r) \/ SendContinue(r) \/ SendChunk(r) \/ SendFinalChunk(r)
    PROVE  QuietStep
<1>0. /\ req \in [Requests -> ServerRequest] /\ MaxChunks \in Nat /\ stack \in Seq(Frame)
      /\ <<>> \in Seq(Tame) /\ <<Point("finish", 0)>> \in Seq(Tame) /\ <<Point("finish", 0)>> \in Seq(Frame)
  BY BoundsAssumption, TameFrames, FrameTypes DEF TypeOK
<1>1. stack # <<>> => Top.pc = "callback"
  BY DEF Respond, EnablePartial, SendContinue, SendChunk, SendFinalChunk, UserMay
<1> USE DEF flags, input
<1>2. ASSUME NEW ka, NEW whole, Respond(r, ka, whole)
      PROVE  QuietStep
  <2>1. respond(r, ka, whole, stack)
    BY <1>2 DEF Respond
  <2> QED
    BY <1>1, <2>1, RespondQuiet
<1>3. ASSUME UNCHANGED <<requests, parsing, arrived, closing, stream, wire, stack>>,
             \A q \in Requests : req'[q].done = req[q].done /\ req'[q].fin = req[q].fin
      PROVE  QuietStep
  <2>1. Moves(<<>>, 0)
    BY <1>3, MovesNot
  <2> QED
    BY <1>0, <1>1, <1>3, <2>1, SameHeads DEF QuietStep, Quieted
<1>4. ASSUME NEW items \in Seq(Further), Write(items), UNCHANGED <<requests, parsing, arrived, closing, req>>,
             stack' = stack \/ stack' = <<Point("finish", 0)>> \o stack
      PROVE  QuietStep
  <2>1. \E fs \in Seq(Tame), m \in {0, 1} : Moves(fs, m)
    BY <1>0, <1>4, MovesNot, MovesCall
  <2> QED
    BY <1>1, <1>4, <2>1, WriteQuiet DEF QuietStep
<1>5. CASE EnablePartial(r)
  <2>1. /\ UNCHANGED <<requests, parsing, arrived, closing, stream, wire, stack>>
        /\ req' = [req EXCEPT ![r].partial = TRUE]
    BY <1>5 DEF EnablePartial
  <2>2. \A q \in Requests : req'[q].done = req[q].done /\ req'[q].fin = req[q].fin
    BY <1>0, <2>1 DEF ServerRequest
  <2> QED
    BY <1>3, <2>1, <2>2
<1>6. CASE SendContinue(r)
  <2> DEFINE items == <<[r |-> r, k |-> "continue", n |-> 0]>>
  <2>1. Write(items) /\ UNCHANGED <<requests, parsing, arrived, closing, req, stack>>
    BY <1>6 DEF SendContinue, Abort
  <2>2. items \in Seq(Further)
    BY <1>0 DEF Item, Further
  <2> HIDE DEF items
  <2> QED
    BY <1>4, <2>1, <2>2
<1>7. CASE SendChunk(r)
  <2> DEFINE n == res[r].given + 1
             items == Chunks(r, <<n>>)
  <2>1. /\ UNCHANGED <<requests, parsing, arrived, closing, req, stack>> /\ res[r].given < MaxChunks
        /\ Write(items) \/ UNCHANGED <<wire, stream>>
    BY <1>7 DEF SendChunk, Abort
  <2>2. items \in Seq(Further)
    <3>1. n \in ChunkNumbers
      BY <1>0, <2>1 DEF TypeOK, ServerResponse, ChunkNumbers
    <3> HIDE DEF n
    <3>2. <<n>> \in Seq(ChunkNumbers)
      BY <3>1
    <3> QED
      BY <3>2, FurtherItems
  <2> HIDE DEF items
  <2> QED
    BY <1>3, <1>4, <2>1, <2>2
<1>8. CASE SendFinalChunk(r)
  <2> DEFINE n == res[r].given + 1
             data == IF FinalData THEN <<n>> ELSE <<>>
             items == Chunks(r, data) \o End(r)
  <2>1. /\ UNCHANGED <<requests, parsing, arrived, closing, req>> /\ res[r].given <= MaxChunks
        /\ \/ Write(items) /\ stack' = <<Point("finish", 0)>> \o stack
           \/ UNCHANGED <<wire, stream, stack>>
    BY <1>8 DEF SendFinalChunk, Abort
  <2>2. items \in Seq(Further)
    <3>1. n \in ChunkNumbers
      BY <1>0, <2>1 DEF TypeOK, ServerResponse, ChunkNumbers
    <3> HIDE DEF n
    <3>2. data \in Seq(ChunkNumbers)
      BY <3>1
    <3> HIDE DEF data
    <3>3. Chunks(r, data) \in Seq(Further) /\ End(r) \in Seq(Further)
      BY <3>2, FurtherItems
    <3> DEFINE cs == Chunks(r, data)
               e == End(r)
    <3> HIDE DEF cs, e
    <3>4. cs \o e \in Seq(Further)
      BY <3>3 DEF cs, e
    <3> QED
      BY <3>4 DEF cs, e
  <2> HIDE DEF items
  <2> QED
    BY <1>3, <1>4, <2>1, <2>2
<1> QED
  BY <1>2, <1>5, <1>6, <1>7, <1>8

-----------------------------------------------------------------------------
(* Every step *)

\* A step after which the connection is still running keeps what is known of it.
LEMMA StepLast ==
    ASSUME TypeOK, TypeOK', OrderInv, RunningInv, OwnOnly, Step, Running'
    PROVE  RunningInv'
<1>0. Next /\ fault' = "none" /\ stream'.mode \in {"open", "user"}
  BY DEF Next, Running
<1>1. ASSUME NEW result, NEW shape \in Shapes, Parse(result, shape) PROVE RunningInv'
  BY <1>1, ParseLast
<1>2. ASSUME NEW more \in BOOLEAN, Received(more) PROVE RunningInv'
  BY <1>2, ReceivedLast
<1>3. CASE Deliver
  BY <1>3, DeliverLast
<1>4. CASE RequestError
  BY <1>0, <1>4, ErrorLast
<1>5. CASE Errored \/ Wrote \/ RemoveConnection \/ Return
  BY <1>0, <1>5, StepQuiet, QuietKeeps
<1>6. CASE WriteNextResponse
  BY <1>6, WriteLast
<1>7. CASE Rejoin
  BY <1>7, RejoinLast
<1>8. CASE FinishRequest
  BY <1>0, <1>8, FinishLast
<1>9. CASE Finished
  BY <1>0, <1>9, FinishedLast
<1>10. CASE DropRequests
  BY <1>0, <1>10, DropKeeps
<1> QED
  BY <1>1, <1>2, <1>3, <1>4, <1>5, <1>6, <1>7, <1>8, <1>9, <1>10 DEF Step

\* So does an event.
LEMMA EventLast ==
    ASSUME TypeOK, OrderInv, RunningInv, OwnOnly, Event, Running'
    PROVE  RunningInv'
<1>0. Next /\ fault' = "none" /\ stream'.mode \in {"open", "user"} /\ stream \in Stream
  BY DEF Next, Running, TypeOK
<1>1. CASE OnRead
  BY <1>1, OnReadLast
<1>2. CASE OnReadError
  BY <1>2, ReadErrorLast
<1>3. CASE OnWrite
  <2>1. /\ stack = <<>> /\ UNCHANGED <<requests, parsing, arrived, closing, req, wire, stack>>
        /\ stream'.reading = stream.reading /\ stream'.listener = stream.listener
    BY <1>0, <1>3 DEF OnWrite, Loop, Stream, input, flags
  <2>2. Moves(<<>>, 0) /\ <<>> \in Seq(Tame)
    BY <2>1, MovesNot, TameFrames
  <2>3. QuietStep
    BY <2>1, <2>2, SameHeads DEF QuietStep, Quieted
  <2> QED
    BY <1>0, <2>3, QuietKeeps
<1>4. CASE OnConnectionError \/ OnWriteError \/ OnShutdown \/ OnEof \/ OnIdleTimer
  BY <1>0, <1>4 DEF OnConnectionError, OnWriteError, OnShutdown, OnEof, OnIdleTimer, HardClose, Abort, Stream
<1> QED
  BY <1>1, <1>2, <1>3, <1>4 DEF Event

\* And so does what the user calls.
LEMMA UserLast ==
    ASSUME TypeOK, OrderInv, RunningInv, OwnOnly, User, Running'
    PROVE  RunningInv'
<1>0. Next /\ fault' = "none" /\ stream'.mode \in {"open", "user"} /\ stream \in Stream
  BY DEF Next, Running, TypeOK
<1>1. ASSUME NEW r \in Requests,
             \/ \E ka, whole \in BOOLEAN : Respond(r, ka, whole)
             \/ EnablePartial(r) \/ SendContinue(r) \/ SendChunk(r) \/ SendFinalChunk(r)
      PROVE  RunningInv'
  BY <1>0, <1>1, UserQuiet, QuietKeeps
<1>2. ASSUME NEW r \in Requests, Upgrade(r) PROVE RunningInv'
  BY <1>0, <1>2, UpgradeLast
<1>3. CASE CloseConnection \/ \E r \in Requests : Drop(r)
  BY <1>0, <1>3 DEF CloseConnection, Drop, HardClose, Stream
<1>4. CASE GracefulStop
  <2>1. ~SoftClose
    BY <1>0 DEF SoftClose, Stream
  <2>2. /\ UNCHANGED <<requests, parsing, arrived, closing, req, wire, stream, stack>>
        /\ stack # <<>> => Top.pc = "callback"
    BY <1>4, <2>1 DEF GracefulStop, UserMay, input
  <2>3. Moves(<<>>, 0) /\ <<>> \in Seq(Tame)
    BY <2>2, MovesNot, TameFrames
  <2>4. QuietStep
    BY <2>2, <2>3, SameHeads DEF QuietStep, Quieted
  <2> QED
    BY <1>0, <2>4, QuietKeeps
<1> QED
  BY <1>1, <1>2, <1>3, <1>4 DEF User

\* A connection that is closed or has failed does not run again.
LEMMA RunningEnds ==
    ASSUME TypeOK, Next, Running'
    PROVE  Running
<1>0. stream \in Stream /\ fault' = "none" /\ stream'.mode \in {"open", "user"}
  BY DEF TypeOK, Running
<1>1. fault = "none"
  BY DEF Next, Step, Event, User, At, Loop, UserMay, Parse, Deliver, Received, RequestError,
         Errored, WriteNextResponse, Rejoin, Wrote, FinishRequest, Finished, DropRequests, RemoveConnection,
         Return, OnRead, OnReadError, OnConnectionError, OnWrite, OnWriteError, OnShutdown, OnEof,
         OnIdleTimer, Respond, EnablePartial, SendContinue, SendChunk, SendFinalChunk, Drop, Upgrade,
         CloseConnection, GracefulStop
<1> SUFFICES stream.mode \in {"open", "user"}
  BY <1>1 DEF Running
<1> USE DEF Stream, Abort, Write, SoftClose, HardClose, respond, flags
<1>2. CASE Step
  <2>1. CASE \E result \in {"headers", "body", "done", "error"}, shape \in Shapes : Parse(result, shape)
    BY <1>0, <2>1 DEF Parse
  <2>2. CASE Deliver \/ RemoveConnection \/ Return \/ Rejoin \/ DropRequests
    BY <1>0, <2>2 DEF Deliver, RemoveConnection, Return, Rejoin, DropRequests
  <2>3. CASE (\E more \in BOOLEAN : Received(more)) \/ RequestError
    BY <1>0, <2>3 DEF Received, RequestError
  <2>4. CASE Errored \/ Wrote
    BY <1>0, <2>4 DEF Errored, Wrote
  <2>5. CASE WriteNextResponse
    BY <1>0, <2>5 DEF WriteNextResponse
  <2>6. CASE FinishRequest \/ Finished
    BY <1>0, <2>6 DEF FinishRequest, Finished
  <2> QED
    BY <1>2, <2>1, <2>2, <2>3, <2>4, <2>5, <2>6 DEF Step
<1>3. CASE Event
  BY <1>0, <1>3 DEF Event, OnRead, OnReadError, OnConnectionError, OnWrite, OnWriteError, OnShutdown, OnEof,
                    OnIdleTimer
<1>4. CASE User
  <2>1. CASE CloseConnection \/ GracefulStop \/ \E r \in Requests : Drop(r) \/ Upgrade(r) \/ EnablePartial(r)
    BY <1>0, <2>1 DEF CloseConnection, GracefulStop, Drop, Upgrade, EnablePartial
  <2>2. CASE \E r \in Requests, ka \in BOOLEAN, whole \in BOOLEAN : Respond(r, ka, whole)
    BY <1>0, <2>2 DEF Respond
  <2>3. CASE \E r \in Requests : SendContinue(r) \/ SendChunk(r)
    BY <1>0, <2>3 DEF SendContinue, SendChunk
  <2>4. CASE \E r \in Requests : SendFinalChunk(r)
    BY <1>0, <2>4 DEF SendFinalChunk
  <2> QED
    BY <1>4, <2>1, <2>2, <2>3, <2>4 DEF User
<1> QED
  BY <1>2, <1>3, <1>4 DEF Next

\* What is written is written for the front of a running connection.
LEMMA WireGrows ==
    ASSUME TypeOK, OrderInv, OwnOnly, Next, wire' # wire
    PROVE  /\ Running /\ ~HasRejoin(stack) /\ requests # <<>>
           /\ \E items \in Seq(Of(Head(requests))) : wire' = wire \o items
<1>1. ~Rejoin
  BY DEF Rejoin
<1>2. ~HasRejoin(stack)
  <2> SUFFICES ASSUME HasRejoin(stack) PROVE FALSE
    OBVIOUS
  <2>1. stack # <<>>
    BY DEF HasRejoin
  <2>2. CASE Top.pc = "rejoin"
    BY <1>1, <2>1, <2>2 DEF Next, Step, Event, User, At, Loop, UserMay, Parse, Deliver, Received, RequestError,
          Errored, WriteNextResponse, Wrote, FinishRequest, Finished, DropRequests, RemoveConnection,
          Return, OnRead, OnReadError, OnConnectionError, OnWrite, OnWriteError, OnShutdown, OnEof,
          OnIdleTimer, Respond, EnablePartial, SendContinue, SendChunk, SendFinalChunk, Drop, Upgrade,
          CloseConnection, GracefulStop
  <2>3. CASE Top.pc # "rejoin"
    <3>1. Shielded(req, Top)
      BY <2>1, <2>3, FrontIn
    <3>2. WindowStep
      BY <2>1, <3>1, Window
    <3> QED
      BY <3>2 DEF WindowStep
  <2> QED
    BY <2>2, <2>3
<1>3. OrderStep
  BY <1>1, StepMove, EventMove, UserMove DEF Next
<1>4. requests # <<>> /\ \E items \in Seq(Of(Head(requests))) : wire' = wire \o items
  BY <1>3 DEF OrderStep
<1>5. WriteNextResponse \/ Wrote \/ \E r \in Requests : SendContinue(r) \/ SendChunk(r) \/ SendFinalChunk(r)
  BY DEF Next, Step, Event, User, Parse, Deliver, Received, RequestError, Errored, Rejoin,
         FinishRequest, Finished, DropRequests, RemoveConnection,
         Return, OnRead, OnReadError, OnConnectionError, OnWrite, OnWriteError, OnShutdown, OnEof,
         OnIdleTimer, Respond, EnablePartial, Drop, Upgrade, CloseConnection, GracefulStop, respond, Abort
<1>6. Running
  BY <1>5 DEF WriteNextResponse, Wrote, SendContinue, SendChunk, SendFinalChunk, At, UserMay, Write, Running, Abort
<1> QED
  BY <1>2, <1>4, <1>6

\* What is written after the last head is of the same request.
LEMMA GrowsLast ==
    ASSUME TypeOK, OrderInv, OwnOnly, Next, LastInv
    PROVE  LastIsLast'
<1>1. CASE wire' = wire
  BY <1>1 DEF LastInv, LastIsLast
<1>2. CASE wire' # wire
  <2>1. Running /\ ~HasRejoin(stack) /\ requests # <<>>
    BY <1>2, WireGrows
  <2>2. PICK items \in Seq(Of(Head(requests))) : wire' = wire \o items
    BY <1>2, WireGrows
  <2>3. wire \in Seq(Item) /\ items \in Seq(Item) /\ \A i \in 1 .. Len(items) : items[i].r = Head(requests)
    BY DEF TypeOK, Of
  <2>4. /\ Len(wire') = Len(wire) + Len(items) /\ Len(wire) \in Nat /\ Len(items) \in Nat
        /\ DOMAIN wire = 1 .. Len(wire) /\ DOMAIN wire' = 1 .. Len(wire')
        /\ \A i \in 1 .. Len(wire) : wire'[i] = wire[i]
        /\ \A i \in 1 .. Len(items) : wire'[Len(wire) + i] = items[i]
    BY <2>2, <2>3, Joined
  <2>5. \A i \in DOMAIN wire' : i \notin DOMAIN wire => wire'[i].r = Head(requests)
    <3> SUFFICES ASSUME NEW i \in DOMAIN wire', i \notin DOMAIN wire PROVE wire'[i].r = Head(requests)
      OBVIOUS
    <3>1. i - Len(wire) \in 1 .. Len(items) /\ Len(wire) + (i - Len(wire)) = i
      BY <2>4
    <3> QED
      BY <2>3, <2>4, <3>1
  <2>6. \A i \in DOMAIN wire : wire[i].k = "lasthead" => wire[i].r = Head(requests)
    <3> SUFFICES ASSUME NEW i \in DOMAIN wire, wire[i].k = "lasthead" PROVE wire[i].r = Head(requests)
      OBVIOUS
    <3> DEFINE q == wire[i].r
    <3>1. q \in Requests /\ Written(q, "lasthead")
      <4>1. wire[i] \in Item
        BY <2>3
      <4> QED
        BY <4>1 DEF Item, Written
    <3>2. Arriving(q) \/ Remaining(q)
      BY <2>1, <3>1 DEF LastInv, RunningInv, Announced
    <3>3. requests = <<q>>
      BY <2>1, <3>2 DEF Arriving, Remaining
    <3> QED
      BY <3>3
  <2> SUFFICES ASSUME NEW i \in DOMAIN wire', NEW j \in DOMAIN wire', wire'[i].k = "lasthead", i < j
               PROVE  wire'[j].r = wire'[i].r
    BY DEF LastIsLast
  <2>7. CASE j \in DOMAIN wire
    <3>1. i \in DOMAIN wire
      BY <2>4, <2>7
    <3> QED
      BY <2>4, <2>7, <3>1 DEF LastInv, LastIsLast
  <2>8. CASE j \notin DOMAIN wire
    BY <2>4, <2>5, <2>6, <2>8
  <2> QED
    BY <2>7, <2>8
<1> QED
  BY <1>1, <1>2

\* A response that announced the end of the connection is the last one
\* (write_next_response 164-176, on_read 120-123), for any number of requests,
\* whatever the peer pipelines behind it and however the user's answers come, as
\* long as a callback only deals with the request it is given.
THEOREM LastAlwaysLast ==
    ASSUME OwnOnly
    PROVE  Spec => []LastIsLast
<1>1. Init => OrderInv /\ LastInv
  <2> SUFFICES ASSUME Init PROVE OrderInv /\ LastInv
    OBVIOUS
  <2>1. OrderInv
    BY DEF Init, OrderInv, Sorted, Reached, Reaching, Parsed, WriteTop, Rejoins, WireInOrder
  <2>2. wire = <<>> /\ requests = <<>> /\ stack = <<>> /\ arrived = 0
    BY DEF Init
  <2>3. LastIsLast /\ Announced /\ ReadsLatest /\ Undone /\ EarlyAlone /\ Covered /\ Held /\ Over(stack)
    BY <2>2 DEF LastIsLast, Announced, Written, ReadsLatest, Undone, EarlyAlone, OnlyLatest, Covered, Held, Over
  <2> QED
    BY <2>1, <2>3 DEF LastInv, RunningInv
<1>2. TypeOK /\ TypeOK' /\ OrderInv /\ LastInv /\ [Next]_vars => OrderInv' /\ LastInv'
  <2> SUFFICES ASSUME TypeOK, TypeOK', OrderInv, LastInv, [Next]_vars PROVE OrderInv' /\ LastInv'
    OBVIOUS
  <2>1. CASE UNCHANGED vars
    <3>1. OrderInv'
      BY <2>1 DEF vars, OrderInv, Sorted, Reached, Reaching, Parsed, NoInput, WriteTop, Rejoins, Shielded, WireInOrder
    <3>2. LastIsLast' /\ (Running' => Running)
      BY <2>1 DEF vars, LastInv, LastIsLast, Running
    <3>3. RunningInv => RunningInv'
      BY <2>1 DEF vars, RunningInv, Announced, Written, ReadsLatest, Undone, EarlyAlone, LatestFin, OnlyLatest, Covered,
                  LatestDone, Base, Shielded, Held, Over, Arriving, Remaining, NoMore, Quieted, Ending, HasRejoin
    <3> QED
      BY <3>1, <3>2, <3>3 DEF LastInv
  <2>2. CASE Next
    <3>1. OrderInv'
      BY <2>2, NextOrder
    <3>2. LastIsLast'
      BY <2>2, GrowsLast
    <3>3. ASSUME Running' PROVE RunningInv'
      <4>1. RunningInv
        BY <2>2, <3>3, RunningEnds DEF LastInv
      <4> QED
        BY <2>2, <3>3, <4>1, StepLast, EventLast, UserLast DEF Next
    <3> QED
      BY <3>1, <3>2, <3>3 DEF LastInv
  <2> QED
    BY <2>1, <2>2
<1>3. LastInv => LastIsLast
  BY DEF LastInv
<1> QED
  BY <1>1, <1>2, <1>3, TypeCorrect, PTL DEF Spec
=============================================================================
