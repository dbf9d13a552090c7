------------------------ MODULE ClientPoolFaultProofs ------------------------
(***************************************************************************)
(* No assertion of the client side fails, for every value of the constants *)
(* of ClientPool: a client that is put back was busy at its location, a     *)
(* redirect finds the request it is for, nothing invalidates the iterator   *)
(* that cancel_request() erases with, and a file is streamed to the client  *)
(* that has its request.  With it: between events every busy client serves  *)
(* a request of its location.  The user has to be Careful.  What the lists, *)
(* the clients, the requests and the calls under way say of each other is   *)
(* Fit, which is inductive on top of Live.                                  *)
(***************************************************************************)
EXTENDS ClientPoolLifeProofs

-----------------------------------------------------------------------------
(* What the assertions rest on *)

\* What more the user does for no assertion to fail: no request has an SSL context of
\* its own, which a redirect would take off it; the files of a form are sent once, as
\* reading uses them up; a body that is sent in chunks has no form; and no callback
\* that reports a request drops the pool, which may be in the middle of a queue.
Careful ==
  /\ Orderly
  /\ \A r \in Requests : Target[r].ctx = "default"
  /\ ~ReuseFiles /\ (RedirectLimit = 0 \/ \A r \in Requests : Files(r) = {})
  /\ \A r \in Chunked : Form[r] = <<>>
  /\ "destroy" \notin HandlerCalls["response"]

\* Two locations are the same if their hosts are.
NoCerts ==
  /\ \A r \in Requests : req[r].netloc.ctx = "default"
  /\ \A c \in Clients : client[c].netloc.ctx = "default"
  /\ \A f \in Frames(stack) : f.pc = "redirected" => f.ctx = "default"

\* A client knows its pool until that is gone.
Pooled == alive => \A c \in Clients : client[c].pool

\* A request waits for the place it is for.
Expects == \A n \in NetLocs : \A r \in Range(queue[n]) : req[r].pool => req[r].netloc = n

\* A client with a request is busy in the list of its place, which is the request's
\* unless that was redirected.
Serving ==
  \A c \in Clients : client[c].request # 0 =>
      /\ client[c].netloc \in NetLocs
      /\ client[c].pool => c \in busy[client[c].netloc]
      /\ ~client[c].inRedirect \/ client[c].redirectCanceled =>
             req[client[c].request].netloc = client[c].netloc

\* So is one that is about to get a request, and one that is about to be put back.
Handed ==
  /\ \A f \in Frames(stack) : f.pc = "request" /\ client[f.c].pool => f.c \in busy[req[f.r].netloc]
  /\ \A f \in Frames(stack) : f.pc = "putback" =>
         client[f.c].pool /\ client[f.c].netloc \in NetLocs /\ f.c \in busy[client[f.c].netloc]

\* A free client was at the place of its list, and a busy one has something to do.
Kinds ==
  alive => \A n \in NetLocs : /\ \A c \in free[n] : client[c].netloc = n
                              /\ \A c \in busy[n] : Taken(c)

\* A client is in a redirect only while analyze_request() waits for redirect_event.
Turning ==
  \A c \in Clients :
      /\ client[c].redirectCanceled => client[c].inRedirect
      /\ client[c].inRedirect => \E f \in Frames(stack) : f.pc = "redirected" /\ f.c = c

\* A client's item and the Streamer of that item know each other, and a request that is
\* still to be run has all its files.
Feeds ==
  /\ \A c \in Clients : client[c].field # 0 =>
         /\ client[c].request # 0 /\ client[c].field \in Files(client[c].request)
         /\ req[client[c].request].streamer[client[c].field] = c
  /\ \A r \in Requests : \A i \in Files(r) : req[r].streamer[i] # 0 =>
         /\ client[req[r].streamer[i]].request = r /\ client[req[r].streamer[i]].field = i
         /\ ~req[r].transferred
  /\ \A r \in Requests : /\ req[r].streamer \in [DOMAIN Form[r] -> 0 .. MaxClients]
                         /\ req[r].inputs \subseteq Files(r)
                         /\ Placing(r) \/ (Queued(r) /\ req[r].pool) => req[r].inputs = Files(r)
                         /\ req[r].client = 0 => ~req[r].transferred
  /\ RedirectLimit = 0 => \A f \in Frames(stack) : f.pc # "redirected"

\* cancel_request() waits to erase its request for the callback of that request only.
Erasing(s) ==
  \E e \in Frames(s) : /\ e.pc = "erase"
                       /\ \/ s = <<e>>
                          \/ \E k \in Frames(s) : k.pc = "callback" /\ k.ev = "response" /\ s = <<k, e>>

\* Nothing enters or leaves a queue that cancel_request() or ~Pool() goes on with.
Iterators ==
  /\ \A f \in Frames(stack) : f.pc \in {"erase", "abort"} => queue[f.n] = f.q
  /\ (\E f \in Frames(stack) : f.pc = "erase") => Erasing(stack)

\* What lists, clients, requests and calls say of each other.
Fit == NoCerts /\ Pooled /\ Expects /\ Serving /\ Handed /\ Kinds /\ Turning /\ Feeds /\ Iterators

\* A step leaves of client c what all this depends on; a client that
\* has lost its request may leave its redirect.
Fixed(c) ==
  /\ client'[c].netloc = client[c].netloc /\ client'[c].request = client[c].request
  /\ client'[c].pool = client[c].pool /\ client'[c].field = client[c].field
  /\ \/ /\ client'[c].inRedirect = client[c].inRedirect
        /\ client'[c].redirectCanceled = client[c].redirectCanceled
     \/ /\ client[c].request = 0 \/ client[c].redirectCanceled
        /\ ~client'[c].inRedirect /\ ~client'[c].redirectCanceled

\* And of request r.
Steady(r) ==
  /\ req'[r].netloc = req[r].netloc /\ req'[r].inputs = req[r].inputs
  /\ req'[r].streamer = req[r].streamer /\ (req'[r].pool => req[r].pool)
  /\ \/ req'[r].transferred = req[r].transferred /\ (req'[r].client = 0 => req[r].client = 0)
     \/ ~req'[r].transferred
     \/ Files(r) = {} /\ req'[r].client # 0

\* A step calls nothing that this speaks of.
CallsNone ==
  \A f \in Frames(stack') : f.pc \in {"request", "putback", "redirected", "erase", "abort"} => f \in Frames(stack)
\* The same, but for what cancel_request() and ~Pool() come back to.
CallsFew ==
  \A f \in Frames(stack') : f.pc \in {"request", "putback", "redirected"} => f \in Frames(stack)
\* Of what it speaks of, nothing returns but a redirect that its client has left.
EndsNone ==
  /\ \A f \in Frames(stack) : f.pc \in {"request", "putback"} => f \in Frames(stack')
  /\ \A f \in Frames(stack) : f.pc = "redirected" => f \in Frames(stack') \/ ~client'[f.c].inRedirect

\* A step that does none of it but for what cancel_request() and ~Pool() wait with.
LEMMA FitBeside ==
  ASSUME Live, Safe', Fit, UNCHANGED <<alive, free, busy>>,
         \A c \in Clients : Fixed(c), \A r \in Requests : Steady(r), CallsFew, EndsNone,
         \A f \in Frames(stack') : f.pc = "pool_request" => f \in Frames(stack) \/ req[f.r].inputs = Files(f.r),
         \A n \in NetLocs : Range(queue'[n]) \subseteq Range(queue[n]),
         Iterators'
  PROVE  Fit'
<1>1. /\ stack' \in Seq(Frame) /\ stack \in Seq(Frame)
      /\ queue \in [NetLocs -> Seq(Requests)] /\ queue' \in [NetLocs -> Seq(Requests)]
      /\ client \in [Clients -> Client] /\ client' \in [Clients -> Client]
      /\ req \in [Requests -> Request] /\ req' \in [Requests -> Request]
  BY DEF Live, Safe, TypeOK
<1>2. ASSUME NEW f \in Frames(stack')
      PROVE  /\ f.pc \in {"putback", "request", "redirected"} => f.c \in Clients
             /\ f.pc \in {"request", "pool_request"} => f.r \in Requests
  BY <1>1, FramesAreFrames, FrameFields
<1>3. ASSUME NEW c \in Clients PROVE Taken(c) => Taken(c)'
  BY DEF Fixed, Taken, Claimed, EndsNone
<1>4. ASSUME NEW n \in NetLocs, NEW r \in Range(queue'[n]) PROVE r \in Requests /\ r \in Range(queue[n])
  <2>1. queue'[n] \in Seq(Requests) /\ r \in Range(queue[n])
    BY <1>1
  <2>2. PICK i \in DOMAIN queue'[n] : r = queue'[n][i]
    BY DEF Range
  <2>3. queue'[n] \in [1 .. Len(queue'[n]) -> Requests]
    BY <2>1
  <2> QED
    BY <2>1, <2>2, <2>3
<1>5. ASSUME NEW c \in Clients, client[c].request # 0 PROVE client[c].request \in Requests
  BY <1>1, <1>5 DEF Client, Requests
<1>6. NoCerts'
  BY <1>1, <1>2 DEF Fit, NoCerts, Fixed, Steady, CallsFew
<1>7. Pooled' /\ Expects'
  <2>1. Pooled'
    BY DEF Fit, Pooled, Fixed
  <2>2. Expects'
    BY <1>4 DEF Fit, Expects, Steady
  <2> QED
    BY <2>1, <2>2
<1>8. Serving'
  <2> SUFFICES ASSUME NEW c \in Clients, client'[c].request # 0
               PROVE  /\ client'[c].netloc \in NetLocs
                      /\ client'[c].pool => c \in busy'[client'[c].netloc]
                      /\ ~client'[c].inRedirect \/ client'[c].redirectCanceled =>
                             req'[client'[c].request].netloc = client'[c].netloc
    BY DEF Serving
  <2>1. Fixed(c)
    OBVIOUS
  <2>2. client[c].request # 0 /\ client[c].request \in Requests
    BY <1>5, <2>1 DEF Fixed
  <2>3. req'[client[c].request].netloc = req[client[c].request].netloc
    BY <2>2 DEF Steady
  <2> QED
    BY <2>1, <2>2, <2>3 DEF Fit, Serving, Fixed
<1>9. Handed'
  <2>1. ASSUME NEW f \in Frames(stack'), f.pc = "request", client'[f.c].pool PROVE f.c \in busy'[req'[f.r].netloc]
    <3>1. f \in Frames(stack) /\ f.c \in Clients /\ f.r \in Requests
      BY <1>2, <2>1 DEF CallsFew
    <3>2. Fixed(f.c) /\ Steady(f.r)
      BY <3>1
    <3> QED
      BY <2>1, <3>1, <3>2 DEF Fit, Handed, Fixed, Steady
  <2>2. ASSUME NEW f \in Frames(stack'), f.pc = "putback"
        PROVE  client'[f.c].pool /\ client'[f.c].netloc \in NetLocs /\ f.c \in busy'[client'[f.c].netloc]
    <3>1. f \in Frames(stack) /\ f.c \in Clients
      BY <1>2, <2>2 DEF CallsFew
    <3>2. Fixed(f.c)
      BY <3>1
    <3> QED
      BY <2>2, <3>1, <3>2 DEF Fit, Handed, Fixed
  <2> QED
    BY <2>1, <2>2 DEF Handed
<1>10. Kinds'
  <2>1. \A n \in NetLocs : free[n] \subseteq Clients /\ busy[n] \subseteq Clients
    BY DEF Live, ListsCounted
  <2>2. alive' => \A n \in NetLocs : \A c \in free'[n] : client'[c].netloc = n
    BY <2>1 DEF Fit, Kinds, Fixed
  <2>3. alive' => \A n \in NetLocs : \A c \in busy'[n] : Taken(c)'
    BY <1>3, <2>1 DEF Fit, Kinds
  <2> QED
    BY <2>2, <2>3 DEF Kinds
<1>11. Turning'
  BY DEF Fit, Turning, Fixed, EndsNone
<1>12. Feeds'
  <2>1. ASSUME NEW c \in Clients, client'[c].field # 0
        PROVE  /\ client'[c].request # 0 /\ client'[c].field \in Files(client'[c].request)
               /\ req'[client'[c].request].streamer[client'[c].field] = c
    <3>1. Fixed(c)
      OBVIOUS
    <3>2. client[c].field # 0
      BY <2>1, <3>1 DEF Fixed
    <3>3. client[c].request # 0 /\ client[c].field \in Files(client[c].request)
          /\ req[client[c].request].streamer[client[c].field] = c
      BY <3>2 DEF Fit, Feeds
    <3>4. req'[client[c].request].streamer = req[client[c].request].streamer
      BY <1>5, <3>3 DEF Steady
    <3> QED
      BY <3>1, <3>3, <3>4 DEF Fixed
  <2>2. ASSUME NEW r \in Requests, NEW i \in Files(r), req'[r].streamer[i] # 0
        PROVE  /\ client'[req'[r].streamer[i]].request = r /\ client'[req'[r].streamer[i]].field = i
               /\ ~req'[r].transferred
    <3>1. Steady(r)
      OBVIOUS
    <3>2. req'[r].streamer[i] = req[r].streamer[i]
      BY <3>1 DEF Steady
    <3>3. client[req[r].streamer[i]].request = r /\ client[req[r].streamer[i]].field = i /\ ~req[r].transferred
      BY <2>2, <3>2 DEF Fit, Feeds
    <3>4. req[r].streamer[i] \in Clients
      <4>1. req[r].streamer \in [DOMAIN Form[r] -> 0 .. MaxClients] /\ i \in DOMAIN Form[r]
        BY DEF Fit, Feeds, Files
      <4>2. MaxClients \in Nat
        BY BoundsAssumption
      <4> QED
        BY <2>2, <3>2, <4>1, <4>2 DEF Clients
    <3>5. Fixed(req[r].streamer[i])
      BY <3>4
    <3>6. ~req'[r].transferred
      BY <3>1, <3>3 DEF Steady
    <3> QED
      BY <3>2, <3>3, <3>5, <3>6 DEF Fixed
  <2>3. ASSUME NEW r \in Requests
        PROVE  /\ req'[r].streamer \in [DOMAIN Form[r] -> 0 .. MaxClients]
               /\ req'[r].inputs \subseteq Files(r)
               /\ Placing(r)' \/ (Queued(r)' /\ req'[r].pool) => req'[r].inputs = Files(r)
               /\ req'[r].client = 0 => ~req'[r].transferred
    <3>1. Steady(r)
      OBVIOUS
    <3>2. /\ req[r].streamer \in [DOMAIN Form[r] -> 0 .. MaxClients]
          /\ req[r].inputs \subseteq Files(r)
          /\ Placing(r) \/ (Queued(r) /\ req[r].pool) => req[r].inputs = Files(r)
          /\ req[r].client = 0 => ~req[r].transferred
      BY DEF Fit, Feeds
    <3>3. Placing(r)' => req[r].inputs = Files(r)
      BY <3>2 DEF Placing, CallsFew
    <3>4. Queued(r)' => Queued(r)
      BY DEF Queued
    <3> QED
      BY <3>1, <3>2, <3>3, <3>4 DEF Steady
  <2>4. RedirectLimit = 0 => \A f \in Frames(stack') : f.pc # "redirected"
    BY DEF Fit, Feeds, CallsFew
  <2> QED
    BY <2>1, <2>2, <2>3, <2>4 DEF Feeds
<1> QED
  BY <1>6, <1>7, <1>8, <1>9, <1>10, <1>11, <1>12 DEF Fit

\* A step that does none of it.
LEMMA FitAlone ==
  ASSUME Live, Safe', Fit, UNCHANGED <<alive, free, busy>>,
         \A c \in Clients : Fixed(c), \A r \in Requests : Steady(r), CallsNone, EndsNone,
         \A f \in Frames(stack') : f.pc = "pool_request" => f \in Frames(stack) \/ req[f.r].inputs = Files(f.r),
         \A n \in NetLocs : Range(queue'[n]) \subseteq Range(queue[n]),
         \/ /\ queue' = queue
            /\ Normal \/ stack' \in {stack, Tail(stack)} \/ \A f \in Frames(stack) : f.pc # "erase"
         \/ \A f \in Frames(stack') : f.pc \notin {"erase", "abort"}
  PROVE  Fit'
<1>1. Iterators'
  <2>1. CASE \A f \in Frames(stack') : f.pc \notin {"erase", "abort"}
    BY <2>1 DEF Iterators
  <2>2. CASE queue' = queue /\ Normal
    <3>1. \A f \in Frames(stack') : f.pc \notin {"erase", "abort"}
      BY <2>2 DEF Normal, Dying, CallsNone
    <3> QED
      BY <3>1 DEF Iterators
  <2>3. CASE queue' = queue /\ stack' = stack
    BY <2>3 DEF Fit, Iterators
  <2>4. CASE queue' = queue /\ stack' = Tail(stack)
    <3>1. \A f \in Frames(stack') : f.pc \in {"erase", "abort"} => f \in Frames(stack)
      BY DEF CallsNone
    <3>2. ASSUME NEW f \in Frames(stack'), f.pc = "erase" PROVE Erasing(stack')
      <4>1. PICK e \in Frames(stack) : /\ e.pc = "erase"
                                      /\ \/ stack = <<e>>
                                         \/ \E k \in Frames(stack) : stack = <<k, e>>
        BY <3>1, <3>2 DEF Fit, Iterators, Erasing
      <4>2. CASE stack = <<e>>
        <5>1. stack' = <<>>
          BY <2>4, <4>2
        <5> QED
          BY <3>2, <5>1, Empty
      <4>3. ASSUME NEW k, stack = <<k, e>> PROVE stack' = <<e>>
        BY <2>4, <4>3
      <4>4. stack' = <<e>> => e \in Frames(stack')
        BY DEF Frames
      <4> QED
        BY <4>1, <4>2, <4>3, <4>4 DEF Erasing
    <3> QED
      BY <2>4, <3>1, <3>2 DEF Fit, Iterators
  <2>5. CASE queue' = queue /\ \A f \in Frames(stack) : f.pc # "erase"
    BY <2>5 DEF Fit, Iterators, CallsNone
  <2> QED
    BY <2>1, <2>2, <2>3, <2>4, <2>5
<1>2. CallsFew
  BY DEF CallsNone, CallsFew
<1> QED
  BY <1>1, <1>2, FitBeside

-----------------------------------------------------------------------------
(* Steps that touch nothing of it *)

\* What happens to a connection does not matter here.
LEMMA ConnKept ==
  ASSUME NEW cl \in Client
  PROVE  \A x \in {Reset(cl)} \cup {[cl EXCEPT !.conn = "connected"], [cl EXCEPT !.weak = TRUE]} :
            /\ x.netloc = cl.netloc /\ x.request = cl.request /\ x.pool = cl.pool /\ x.field = cl.field
            /\ x.inRedirect = cl.inRedirect /\ x.redirectCanceled = cl.redirectCanceled
  BY DEF Client, Reset

\* One client at most is touched, and not in what matters.
LEMMA OneFixed ==
  ASSUME client \in [Clients -> Client], NEW c \in Clients, NEW x, client' = [client EXCEPT ![c] = x],
         /\ x.netloc = client[c].netloc /\ x.request = client[c].request /\ x.pool = client[c].pool
         /\ x.field = client[c].field /\ x.inRedirect = client[c].inRedirect
         /\ x.redirectCanceled = client[c].redirectCanceled
  PROVE  \A d \in Clients : Fixed(d)
<1>1. \A d \in Clients : client'[d] = IF d = c THEN x ELSE client[d]
  OBVIOUS
<1> QED
  BY <1>1 DEF Fixed

\* Clients that a step leaves alone.
LEMMA AllFixed ==
  ASSUME UNCHANGED client
  PROVE  \A d \in Clients : Fixed(d)
  BY DEF Fixed

\* Requests that a step leaves alone.
LEMMA AllSteady ==
  ASSUME UNCHANGED req
  PROVE  \A r \in Requests : Steady(r)
  BY DEF Steady

\* A step that leaves the clients and the requests alone and the stack too.
LEMMA FitStill ==
  ASSUME Live, Safe', Fit, UNCHANGED <<alive, free, busy, queue, client, req, stack>>
  PROVE  Fit'
<1>1. CallsNone /\ EndsNone
  BY DEF CallsNone, EndsNone
<1> QED
  BY <1>1, AllFixed, AllSteady, FitAlone

\* The limit or the idle timeout is set.
LEMMA SettingFits ==
  ASSUME Live, Safe', Fit, NEW x, SetMaxConnections(x) \/ SetIdleTimeout(x)
  PROVE  Fit' /\ fault' = fault
  BY FitStill DEF SetMaxConnections, SetIdleTimeout, slots

\* A connection is made.
LEMMA OnConnectFits ==
  ASSUME Live, Safe', Fit, NEW c \in Clients, OnConnect(c)
  PROVE  Fit' /\ fault' = fault
<1>1. UNCHANGED <<alive, free, busy, queue, req, stack, fault>>
      /\ client' = [client EXCEPT ![c].conn = "connected"]
  BY DEF OnConnect, slots, pool
<1>2. client \in [Clients -> Client]
  BY DEF Live, Safe, TypeOK
<1>3. \A d \in Clients : Fixed(d)
  BY <1>1, <1>2, ConnKept, OneFixed
<1>4. CallsNone /\ EndsNone
  BY <1>1 DEF CallsNone, EndsNone
<1> QED
  BY <1>1, <1>3, <1>4, AllSteady, FitAlone

\* Something is called from the loop that places nothing.
LEMMA FitCall ==
  ASSUME Live, Safe', Fit, stack = <<>>, NEW f, stack' = <<f>>, f.pc = "on_read",
         UNCHANGED <<alive, free, busy, queue, req>>, \A d \in Clients : Fixed(d)
  PROVE  Fit'
<1>1. Normal /\ Frames(stack) = {}
  BY AtLoop
<1>2. Frames(stack') = {f}
  BY DEF Frames
<1>3. CallsNone /\ EndsNone
  BY <1>1, <1>2 DEF CallsNone, EndsNone
<1> QED
  BY <1>1, <1>2, <1>3, AllSteady, FitAlone

\* Bytes come in.
LEMMA OnReadFits ==
  ASSUME Live, Safe', Fit, NEW c \in Clients, NEW buf \in Buffers, OnRead(c, buf)
  PROVE  Fit' /\ fault' = fault
<1> DEFINE f == OnReadFrame(c, buf, Due(client[c]))
           o == IF Range(buf) \subseteq {"continue", "part", "bad"} \/ client[c].owed = <<>>
                THEN client[c].owed ELSE Tail(client[c].owed)
           x == [client[c] EXCEPT !.owed = o]
<1>1. stack = <<>> /\ UNCHANGED <<alive, free, busy, queue, req, fault>> /\ stack' = <<f>>
  BY DEF OnRead, Loop, slots, pool
<1>2. client \in [Clients -> Client] /\ client[c] \in Client
  BY DEF Live, Safe, TypeOK
<1>3. client' = [client EXCEPT ![c] = x]
  BY <1>2 DEF OnRead
<1>4. f.pc = "on_read"
  BY DEF OnReadFrame
<1> HIDE DEF f, o
<1>5. /\ x.netloc = client[c].netloc /\ x.request = client[c].request /\ x.pool = client[c].pool
      /\ x.field = client[c].field /\ x.inRedirect = client[c].inRedirect
      /\ x.redirectCanceled = client[c].redirectCanceled
  BY <1>2 DEF Client
<1> HIDE DEF x
<1>6. \A d \in Clients : Fixed(d)
  BY <1>2, <1>3, <1>5, OneFixed
<1> QED
  BY <1>1, <1>4, <1>6, FitCall

\* The server closes the connection.
LEMMA OnEofFits ==
  ASSUME Live, Safe', Fit, NEW c \in Clients, NEW m, OnEof(c, m)
  PROVE  Fit' /\ fault' = fault
<1> DEFINE f == OnReadFrame(c, <<m>>, Due(client[c]))
<1>1. stack = <<>> /\ UNCHANGED <<alive, free, busy, queue, req, fault>>
  BY DEF OnEof, Loop, slots, pool
<1>2. client \in [Clients -> Client] /\ client[c] \in Client
  BY DEF Live, Safe, TypeOK
<1>3. CASE client' = [client EXCEPT ![c] = Reset(@)] /\ UNCHANGED stack
  <2>1. \A d \in Clients : Fixed(d)
    BY <1>2, <1>3, ConnKept, OneFixed
  <2>2. CallsNone /\ EndsNone
    BY <1>3 DEF CallsNone, EndsNone
  <2> QED
    BY <1>1, <1>3, <2>1, <2>2, AllSteady, FitAlone
<1>4. CASE stack' = <<f>> /\ UNCHANGED client
  <2>1. f.pc = "on_read"
    BY DEF OnReadFrame
  <2> HIDE DEF f
  <2> QED
    BY <1>1, <1>4, <2>1, AllFixed, FitCall
<1> QED
  BY <1>3, <1>4 DEF OnEof

\* on_read() is done with its buffer.
LEMMA ReadEndFits ==
  ASSUME Live, Safe', Fit, ReadEnd
  PROVE  Fit' /\ fault' = fault
<1>1. At("on_read") /\ Goto(<<>>) /\ UNCHANGED <<alive, free, busy, queue, req, fault>> /\ Safe
  BY DEF ReadEnd, slots, pool, Live
<1>2. Frames(stack) = {Top} /\ Top.c \in Clients /\ Top.pc = "on_read" /\ Normal
  BY <1>1, ReadAlone, AtTop DEF At, Dying
<1>3. Frames(stack') = {}
  BY <1>1, ReadAlone, Returns, Empty
<1>4. client[Top.c] \in Client /\ client \in [Clients -> Client]
  BY <1>1, <1>2 DEF Safe, TypeOK
<1>5. \A d \in Clients : Fixed(d)
  <2>1. CASE UNCHANGED client
    BY <2>1, AllFixed
  <2>2. CASE client' = [client EXCEPT ![Top.c] = Reset(@)]
    <3> DEFINE x == Reset(client[Top.c])
    <3>1. /\ x.netloc = client[Top.c].netloc /\ x.request = client[Top.c].request
          /\ x.pool = client[Top.c].pool /\ x.field = client[Top.c].field
          /\ x.inRedirect = client[Top.c].inRedirect /\ x.redirectCanceled = client[Top.c].redirectCanceled
      BY <1>4, ConnKept
    <3>2. client' = [client EXCEPT ![Top.c] = x]
      BY <2>2
    <3> HIDE DEF x
    <3> QED
      BY <1>2, <1>4, <3>1, <3>2, OneFixed
  <2> QED
    BY <2>1, <2>2 DEF ReadEnd
<1>6. CallsNone /\ EndsNone
  BY <1>2, <1>3 DEF CallsNone, EndsNone
<1> QED
  BY <1>1, <1>2, <1>3, <1>5, <1>6, AllSteady, FitAlone

\* A part of a response, or a 100.
LEMMA InterimFits ==
  ASSUME Live, Safe', Fit, Interim
  PROVE  Fit' /\ fault' = fault
<1> DEFINE r == client[Top.c].request
           f == Callback(IF Head(Top.buf) = "part" THEN "partial" ELSE "continue", r, TRUE, Top.from)
           g == NextTurn
<1>1. Parses({"part", "continue"}) /\ Goto(<<f, g>>) /\ UNCHANGED <<alive, free, busy, queue, client, req, fault>> /\ Safe
  BY DEF Interim, slots, pool, Live
<1>2. /\ g \in Frame /\ g.pc = "on_read" /\ Frames(stack) = {Top} /\ Top.pc = "on_read" /\ Tail(stack) = <<>>
      /\ Top.from \in 0 .. MaxRequests
  BY <1>1, ParsesForRequest
<1>3. r \in Requests /\ Normal
  BY <1>1, ParsedRuns
<1>4. f \in Frame
  BY <1>2, <1>3, MadeFrames DEF Events
<1>5. f.pc = "callback"
  BY DEF Callback
<1> HIDE DEF f, g
<1>6. Frames(stack') = {f, g}
  <2>1. <<f, g>> \in Seq(Frame) /\ Frames(<<f, g>>) = {f, g}
    BY <1>2, <1>4, FewFrames
  <2>2. stack' = <<f, g>> \o <<>>
    BY <1>1, <1>2 DEF Goto
  <2> QED
    BY <2>1, <2>2, Empty, FramesTogether
<1>7. CallsNone /\ EndsNone
  BY <1>2, <1>5, <1>6 DEF CallsNone, EndsNone
<1> QED
  BY <1>1, <1>2, <1>3, <1>5, <1>6, <1>7, AllFixed, AllSteady, FitAlone

\* weak(true) between putback() and Pool::request().
LEMMA WeakenFits ==
  ASSUME Live, Safe', Fit, Weaken
  PROVE  Fit' /\ fault' = fault
<1>1. At("weaken") /\ Goto(<<>>) /\ UNCHANGED <<alive, free, busy, queue, req, fault>> /\ Safe
      /\ client' = [client EXCEPT ![Top.c] = [client[Top.c] EXCEPT !.weak = TRUE]]
  BY DEF Weaken, slots, pool, Live
<1>2. /\ stack' = Tail(stack) /\ Top \in Frame /\ Top.pc = "weaken" /\ Frames(stack) = {Top} \cup Frames(stack')
  BY <1>1, Returns, OnTop
<1>3. Top.c \in Clients
  BY <1>2, FrameFields
<1>4. client[Top.c] \in Client /\ client \in [Clients -> Client]
  BY <1>1, <1>3 DEF Safe, TypeOK
<1>5. \A d \in Clients : Fixed(d)
  <2> DEFINE x == [client[Top.c] EXCEPT !.weak = TRUE]
  <2>1. /\ x.netloc = client[Top.c].netloc /\ x.request = client[Top.c].request
        /\ x.pool = client[Top.c].pool /\ x.field = client[Top.c].field
        /\ x.inRedirect = client[Top.c].inRedirect /\ x.redirectCanceled = client[Top.c].redirectCanceled
    BY <1>4, ConnKept
  <2>2. client' = [client EXCEPT ![Top.c] = x]
    BY <1>1
  <2> HIDE DEF x
  <2> QED
    BY <1>3, <1>4, <2>1, <2>2, OneFixed
<1>6. CallsNone /\ EndsNone
  BY <1>2 DEF CallsNone, EndsNone
<1> QED
  BY <1>1, <1>2, <1>5, <1>6, AllSteady, FitAlone

\* A callback returns.
LEMMA ReturnFits ==
  ASSUME Live, Safe', Fit, Return
  PROVE  Fit' /\ fault' = fault
<1>1. At("callback") /\ Goto(<<>>) /\ UNCHANGED <<alive, free, busy, queue, client, req, fault>> /\ Safe
  BY DEF Return, Leave, slots, pool, Live
<1>2. /\ stack' = Tail(stack) /\ Top.pc = "callback" /\ Frames(stack) = {Top} \cup Frames(stack')
  BY <1>1, Returns, OnTop
<1>3. CallsNone /\ EndsNone
  BY <1>2 DEF CallsNone, EndsNone
<1> QED
  BY <1>1, <1>2, <1>3, AllFixed, AllSteady, FitAlone

-----------------------------------------------------------------------------
(* Reports, submissions and the queues *)

\* A report, or a queued request that is told.
LEMMA ReportSteady ==
  ASSUME NEW r \in Requests, req \in [Requests -> Request], req' = [req EXCEPT ![r] = Reported(@)]
  PROVE  \A x \in Requests : Steady(x)
<1>1. \A x \in Requests : x # r => Steady(x)
  BY DEF Steady
<1> DEFINE q == req[r]
           p == Reported(q)
<1>2. q \in Request /\ req'[r] = p
  OBVIOUS
<1> HIDE DEF q
<1>3. p.netloc = q.netloc /\ p.inputs = q.inputs /\ p.streamer = q.streamer /\ ~p.pool /\ ~p.transferred
  BY <1>2 DEF Reported, cleanup_after_redirect, Request
<1> HIDE DEF p
<1>4. Steady(r)
  BY <1>2, <1>3 DEF Steady, q
<1> QED
  BY <1>1, <1>4

\* A chunk is sent: the client has the request.
LEMMA SendChunkFits ==
  ASSUME Live, Safe', Fit, Careful, NEW r \in Requests, NEW final \in BOOLEAN, SendChunk(r, final)
  PROVE  Fit' /\ fault' = fault
<1>1. req[r].client # 0 /\ r \in Chunked /\ \E call : UserMay(call)
  BY DEF SendChunk
<1>2. Still(stack)
  BY <1>1, UserStill
<1>3. ~Notified(r)
  BY <1>2 DEF Still, Passing, Notified
<1>4. Lives(r, "running")
  BY <1>1, <1>3, LivesWhere DEF Live
<1>5. client[req[r].client].request = r
  BY <1>4 DEF Lives
<1>6. req' = [req EXCEPT ![r].transferred = final] /\ UNCHANGED <<pool, slots, client, submits, stack, fault>>
  BY <1>5 DEF SendChunk
<1>7. Files(r) = {}
  BY <1>1 DEF Careful, Files
<1>8. req \in [Requests -> Request]
  BY DEF Live, Safe, TypeOK
<1>9. Steady(r)
  BY <1>1, <1>6, <1>7, <1>8 DEF Steady, Request
<1>10. \A x \in Requests : Steady(x)
  BY <1>6, <1>9 DEF Steady
<1>11. CallsNone /\ EndsNone
  BY <1>6 DEF CallsNone, EndsNone
<1>12. UNCHANGED <<alive, free, busy, queue, client, stack>> /\ fault' = fault
  BY <1>6 DEF pool, slots
<1> QED
  BY <1>10, <1>11, <1>12, AllFixed, FitAlone

\* redirect_event gives the request the context it had: there is only the default.
LEMMA RestoreContextFits ==
  ASSUME Live, Safe', Fit, RestoreContext
  PROVE  Fit' /\ fault' = fault
<1>1. /\ UserMay("restore") /\ InRedirect /\ req' = [req EXCEPT ![Top.r].netloc.ctx = stack[2].ctx]
      /\ UNCHANGED <<alive, free, busy, queue, client, stack, fault>> /\ Safe
  BY DEF RestoreContext, pool, slots, Live
<1>2. Top.r \in Requests /\ stack[2] \in Frames(stack) /\ stack[2].pc = "redirected"
  BY <1>1, RedirectAlone
<1>3. stack[2].ctx = "default" /\ req[Top.r].netloc.ctx = "default"
  BY <1>2 DEF Fit, NoCerts
<1>4. PICK r \in Requests : r = Top.r
  BY <1>2
<1>5. req \in [Requests -> Request]
  BY <1>1 DEF Safe, TypeOK
<1>6. req' = [req EXCEPT ![r].netloc.ctx = "default"] /\ req[r].netloc.ctx = "default"
  BY <1>1, <1>3, <1>4
<1>7. req[r].netloc \in [host : Hosts, ctx : {"default", "own"}]
  BY <1>5 DEF Request, NetLocs
<1>8. [req[r].netloc EXCEPT !.ctx = "default"] = req[r].netloc
  BY <1>6, <1>7
<1>9. req'[r] = [req[r] EXCEPT !.netloc = [@ EXCEPT !.ctx = "default"]]
  BY <1>5, <1>6
<1>10. req'[r] = req[r]
  BY <1>5, <1>8, <1>9 DEF Request
<1>11. \A x \in Requests : Steady(x)
  <2>1. \A x \in Requests : req'[x] = req[x]
    BY <1>5, <1>6, <1>10
  <2> QED
    BY <2>1 DEF Steady
<1>12. CallsNone /\ EndsNone
  BY <1>1 DEF CallsNone, EndsNone
<1> QED
  BY <1>1, <1>11, <1>12, AllFixed, FitAlone

\* finish_and_notify(): the request is its user's again.
LEMMA FinishAndNotifyFits ==
  ASSUME Live, Safe', Fit, FinishAndNotify
  PROVE  Fit' /\ fault' = fault
<1>1. /\ At("notify") /\ Goto(<<Callback("response", Top.r, Top.ok, Top.from)>>)
      /\ req' = [req EXCEPT ![Top.r] = Reported(@)]
      /\ UNCHANGED <<alive, free, busy, queue, client, fault>> /\ Safe
  BY DEF FinishAndNotify, slots, pool, Live
<1>2. /\ stack \in Seq(Frame) /\ stack # <<>> /\ Top = Head(stack) /\ Top \in Frame /\ Top.pc = "notify"
      /\ Top \in Frames(stack) /\ Frames(stack) = {Top} \cup Frames(Tail(stack)) /\ Tail(stack) \in Seq(Frame)
  BY <1>1, OnTop
<1>3. Top.r \in Requests /\ Top.ok \in BOOLEAN /\ Top.from \in 0 .. MaxRequests
  BY <1>2, FrameFields
<1>4. PICK f \in Frame : f = Callback("response", Top.r, Top.ok, Top.from)
  BY <1>3, MadeFrames DEF Events
<1>5. f.pc = "callback"
  BY <1>4 DEF Callback
<1>6. Frames(stack') = {f} \cup Frames(Tail(stack))
  <2>1. <<f>> \in Seq(Frame) /\ Frames(<<f>>) = {f}
    BY FewFrames
  <2>2. stack' = <<f>> \o Tail(stack)
    BY <1>1, <1>4 DEF Goto
  <2> QED
    BY <1>2, <2>1, <2>2, FramesTogether
<1>7. Normal
  BY <1>1, AtTop DEF Dying
<1>8. req \in [Requests -> Request]
  BY <1>1 DEF Safe, TypeOK
<1>9. \A x \in Requests : Steady(x)
  BY <1>1, <1>3, <1>8, ReportSteady
<1>10. CallsNone /\ EndsNone
  BY <1>2, <1>5, <1>6 DEF CallsNone, EndsNone
<1> QED
  BY <1>1, <1>2, <1>5, <1>6, <1>7, <1>9, <1>10, AllFixed, FitAlone

\* The user submits a request, whose files were not read yet.
LEMMA SubmitFits ==
  ASSUME Live, Safe', Fit, Careful, NEW r \in Requests, Submit(r)
  PROVE  Fit' /\ fault' = fault
<1>1. /\ UserMay("request") /\ req[r].inputs = Files(r) /\ stack' = <<PoolRequestFrame(r)>> \o stack
      /\ UNCHANGED <<alive, free, busy, queue, client, req, fault>> /\ Safe
  BY DEF Submit, slots, pool, Live, Careful
<1>2. PICK f \in Frame : f = PoolRequestFrame(r)
  BY MadeFrames
<1>3. f.pc = "pool_request" /\ f.r = r
  BY <1>2 DEF PoolRequestFrame
<1>4. Frames(stack') = {f} \cup Frames(stack)
  <2>1. <<f>> \in Seq(Frame) /\ Frames(<<f>>) = {f}
    BY FewFrames
  <2>2. stack' = <<f>> \o stack /\ stack \in Seq(Frame)
    BY <1>1, <1>2 DEF Safe, TypeOK
  <2> QED
    BY <2>1, <2>2, FramesTogether
<1>5. \A g \in Frames(stack) : g.pc # "erase"
  <2>1. CASE stack = <<>>
    BY <2>1, AtLoop
  <2>2. CASE stack # <<>>
    <3>1. Top.pc = "callback" /\ "request" \in HandlerCalls[Top.ev] /\ Top \in Frames(stack)
      BY <1>1, <2>2, UserStill DEF UserMay
    <3>2. Top.ev \in Events
      BY <1>1, <3>1, FramesAreFrames, FrameFields DEF Safe, TypeOK
    <3>3. ~FromLoopOnly
      BY <3>1, <3>2 DEF FromLoopOnly
    <3> QED
      BY <3>3 DEF Live, Sound, Served
  <2> QED
    BY <2>1, <2>2
<1>6. CallsNone /\ EndsNone
  BY <1>3, <1>4 DEF CallsNone, EndsNone
<1> QED
  BY <1>1, <1>3, <1>4, <1>5, <1>6, AllFixed, AllSteady, FitAlone

\* cancel_request() erases the request it has told, from the queue it saw.
LEMMA EraseFits ==
  ASSUME Live, Safe', Fit, Erase
  PROVE  Fit' /\ fault' = fault
<1>1. At("erase") /\ Safe /\ Apart /\ Named
  BY DEF Erase, Live, Sound
<1>2. Top \in Frames(stack) /\ Top.pc = "erase" /\ stack # <<>> /\ Top = Head(stack) /\ Top \in Frame
  BY <1>1, OnTop
<1>3. queue[Top.n] = Top.q
  BY <1>2 DEF Fit, Iterators
<1>4. /\ queue' = [queue EXCEPT ![Top.n] = RemoveFirst(@, Top.r)] /\ Goto(<<>>)
      /\ UNCHANGED <<alive, free, busy, client, req, fault>>
  BY <1>3 DEF Erase, pool
<1>5. stack' = Tail(stack)
  BY <1>1, <1>4, Returns
<1>6. stack' = <<>>
  <2>1. PICK e \in Frames(stack) : /\ e.pc = "erase"
                                   /\ \/ stack = <<e>>
                                      \/ \E k \in Frames(stack) : k.pc = "callback" /\ stack = <<k, e>>
    BY <1>2 DEF Fit, Iterators, Erasing
  <2>2. ASSUME NEW k, k.pc = "callback", stack = <<k, e>> PROVE FALSE
    BY <1>2, <2>2
  <2>3. stack = <<e>>
    BY <2>1, <2>2
  <2> QED
    BY <1>5, <2>3
<1>7. Frames(stack') = {}
  BY <1>6, Empty
<1>8. Top.n \in NetLocs /\ Top.r \in Range(queue[Top.n])
  BY <1>1, <1>2, <1>3, FrameFields DEF Named
<1>9. \A n \in NetLocs : Range(queue'[n]) \subseteq Range(queue[n])
  <2>1. queue \in [NetLocs -> Seq(Requests)]
    BY <1>1 DEF Safe, TypeOK
  <2>2. Range(RemoveFirst(queue[Top.n], Top.r)) = Range(queue[Top.n]) \ {Top.r}
    BY <1>1, <1>8, <2>1, OneLeaves DEF Apart
  <2>3. \A n \in NetLocs : queue'[n] = IF n = Top.n THEN RemoveFirst(queue[Top.n], Top.r) ELSE queue[n]
    BY <1>4, <2>1
  <2> QED
    BY <2>2, <2>3
<1>10. CallsNone
  BY <1>7 DEF CallsNone
<1>11. Frames(stack) = {Top} \cup Frames(Tail(stack))
  BY <1>1, OnTop
<1>12. EndsNone
  BY <1>2, <1>5, <1>11 DEF EndsNone
<1> QED
  BY <1>4, <1>7, <1>9, <1>10, <1>12, AllFixed, AllSteady, FitAlone

\* ~Pool() tells a request, and its queue is the one it saw.
LEMMA AbortQueuedFits ==
  ASSUME Live, Safe', Fit, AbortQueued
  PROVE  Fit' /\ fault' = fault
<1>1. At("abort") /\ Safe
  BY DEF AbortQueued, Live
<1>2. /\ Top \in Frames(stack) /\ Top.pc = "abort" /\ stack # <<>> /\ Top = Head(stack) /\ Top \in Frame
      /\ Frames(stack) = {Top} \cup Frames(Tail(stack)) /\ Tail(stack) \in Seq(Frame)
  BY <1>1, OnTop
<1>3. queue[Top.n] = Top.q
  BY <1>2 DEF Fit, Iterators
<1>4. /\ req' = [req EXCEPT ![Top.r] = Reported(@)] /\ Goto(<<Callback("response", Top.r, FALSE, 0)>>)
      /\ UNCHANGED <<alive, free, busy, queue, client, fault>>
  BY <1>3 DEF AbortQueued, pool, slots
<1>5. Top.r \in Requests /\ 0 \in 0 .. MaxRequests
  BY <1>2, FrameFields, NoneIsThere
<1>6. PICK f \in Frame : f = Callback("response", Top.r, FALSE, 0)
  BY <1>5, MadeFrames DEF Events
<1>7. f.pc = "callback"
  BY <1>6 DEF Callback
<1>8. Frames(stack') = {f} \cup Frames(Tail(stack))
  <2>1. <<f>> \in Seq(Frame) /\ Frames(<<f>>) = {f}
    BY FewFrames
  <2>2. stack' = <<f>> \o Tail(stack)
    BY <1>4, <1>6 DEF Goto
  <2> QED
    BY <1>2, <2>1, <2>2, FramesTogether
<1>9. \A g \in Frames(stack) : g.pc # "erase"
  <2> SUFFICES ASSUME Erasing(stack) PROVE FALSE
    BY DEF Fit, Iterators
  <2>1. PICK e \in Frames(stack) : /\ e.pc = "erase"
                                   /\ \/ stack = <<e>>
                                      \/ \E k \in Frames(stack) : k.pc = "callback" /\ stack = <<k, e>>
    BY DEF Erasing
  <2>2. ASSUME NEW k, k.pc = "callback", stack = <<k, e>> PROVE FALSE
    BY <1>2, <2>2
  <2>3. stack = <<e>>
    BY <2>1, <2>2
  <2> QED
    BY <1>2, <2>1, <2>3
<1>10. req \in [Requests -> Request]
  BY <1>1 DEF Safe, TypeOK
<1>11. \A x \in Requests : Steady(x)
  BY <1>4, <1>5, <1>10, ReportSteady
<1>12. CallsNone /\ EndsNone
  BY <1>2, <1>7, <1>8 DEF CallsNone, EndsNone
<1> QED
  BY <1>2, <1>4, <1>7, <1>8, <1>9, <1>11, <1>12, AllFixed, FitAlone

\* A request that waits is told and its place in the queue is kept to erase it there.
LEMMA CancelRequestFits ==
  ASSUME Live, Safe', Fit, NEW r \in Requests, CancelRequest(r, stack), stack = <<>>,
         req[r].client = 0, req[r].pool
  PROVE  Fit' /\ fault' = fault
<1>1. Safe /\ Waits /\ Normal /\ Frames(stack) = {}
  BY AtLoop DEF Live
<1>2. Lives(r, "queued")
  BY <1>1, LivesWhere DEF Live, Placing, Notified
<1>3. PICK n \in NetLocs : r \in Range(queue[n])
  BY <1>2 DEF Lives, Queued
<1>4. req[r].netloc = n
  BY <1>3 DEF Fit, Expects
<1>5. n \in lists
  <2>1. queue[n] # <<>>
    BY <1>3 DEF Range
  <2> QED
    BY <1>1, <2>1 DEF Waits
<1> DEFINE f == Callback("response", r, FALSE, 0)
           e == QueuedFrame("erase", n, r)
<1>6. /\ req' = [req EXCEPT ![r] = Reported(@)] /\ stack' = <<f, e>> \o stack
      /\ UNCHANGED <<alive, free, busy, queue, client, fault>>
  BY <1>3, <1>4, <1>5 DEF CancelRequest, pool, slots
<1>7. queue \in [NetLocs -> Seq(Requests)] /\ req \in [Requests -> Request]
  BY <1>1 DEF Safe, TypeOK
<1>8. f \in Frame /\ e \in Frame
  BY <1>7, MadeFrames, QueuedFrames, NoneIsThere DEF Events
<1>9. f.pc = "callback" /\ f.ev = "response" /\ e.pc = "erase" /\ e.n = n /\ e.q = queue[n]
  BY DEF Callback, QueuedFrame
<1> HIDE DEF f, e
<1>10. stack' = <<f, e>> /\ Frames(stack') = {f, e}
  <2>1. <<f, e>> \in Seq(Frame) /\ Frames(<<f, e>>) = {f, e}
    BY <1>8, FewFrames
  <2>2. stack' = <<f, e>>
    BY <1>6
  <2> QED
    BY <2>1, <2>2
<1>11. \A x \in Requests : Steady(x)
  BY <1>6, <1>7, ReportSteady
<1>12. CallsFew /\ EndsNone
  BY <1>1, <1>9, <1>10 DEF CallsFew, EndsNone
<1>13. Iterators'
  <2>1. \A g \in Frames(stack') : g.pc \in {"erase", "abort"} => queue'[g.n] = g.q
    BY <1>6, <1>9, <1>10
  <2>2. Erasing(stack')
    BY <1>9, <1>10 DEF Erasing
  <2> QED
    BY <2>1, <2>2 DEF Iterators
<1> QED
  BY <1>6, <1>9, <1>10, <1>11, <1>12, <1>13, AllFixed, FitBeside

-----------------------------------------------------------------------------
(* Steps on one client and its request *)

\* What Fit says of one client.
ClientFits(c) ==
  /\ client[c].netloc.ctx = "default"
  /\ client[c].request # 0 =>
         /\ client[c].netloc \in NetLocs
         /\ client[c].pool => c \in busy[client[c].netloc]
         /\ ~client[c].inRedirect \/ client[c].redirectCanceled =>
                req[client[c].request].netloc = client[c].netloc
  /\ client[c].redirectCanceled => client[c].inRedirect
  /\ client[c].inRedirect => \E f \in Frames(stack) : f.pc = "redirected" /\ f.c = c
  /\ client[c].field # 0 =>
         /\ client[c].request # 0 /\ client[c].field \in Files(client[c].request)
         /\ req[client[c].request].streamer[client[c].field] = c

\* And of one request.
RequestFits(r) ==
  /\ req[r].netloc.ctx = "default"
  /\ req[r].streamer \in [DOMAIN Form[r] -> 0 .. MaxClients]
  /\ \A i \in Files(r) : req[r].streamer[i] # 0 =>
         /\ client[req[r].streamer[i]].request = r /\ client[req[r].streamer[i]].field = i
         /\ ~req[r].transferred
  /\ req[r].inputs \subseteq Files(r)
  /\ Placing(r) => req[r].inputs = Files(r)
  /\ req[r].client = 0 => ~req[r].transferred

\* A step that deals with client c and request r, and leaves the lists alone: it is
\* enough that these two fit after it, and that what it calls for them does.
LEMMA FitOne ==
  ASSUME Live, Safe', Fit, Normal, UNCHANGED <<alive, free, busy, queue>>,
         NEW c \in Clients, NEW r \in Requests,
         \A d \in Clients : d # c => Fixed(d) /\ client[d].request # r,
         \A q \in Requests : q # r => Steady(q) /\ client[c].request # q,
         client'[c].pool = client[c].pool,
         \A n \in NetLocs : alive /\ c \in free[n] => client'[c].netloc = n,
         alive /\ Taken(c) => Taken(c)', ~Queued(r), ClientFits(c)', RequestFits(r)',
         \A f \in Frames(stack') : f.pc \notin Dying,
         \A f \in Frames(stack') : f.pc \in {"request", "pool_request"} => f.r = r \/ f \in Frames(stack),
         \A f \in Frames(stack') : f.pc \in {"request", "putback"} =>
             \/ f \in Frames(stack) /\ f.c # c /\ (f.pc = "request" => f.r # r)
             \/ f.pc = "request" /\ (client'[f.c].pool => f.c \in busy[req'[f.r].netloc])
             \/ f.pc = "putback" /\ client'[f.c].pool /\ client'[f.c].netloc \in NetLocs
                /\ f.c \in busy[client'[f.c].netloc],
         \A f \in Frames(stack') : f.pc = "redirected" =>
             f \in Frames(stack) \/ (f.ctx = "default" /\ RedirectLimit # 0),
         \A f \in Frames(stack) : f.pc \in {"request", "putback", "redirected"} =>
             f \in Frames(stack') \/ f.c = c
  PROVE  Fit'
<1>1. /\ stack' \in Seq(Frame) /\ stack \in Seq(Frame)
      /\ queue \in [NetLocs -> Seq(Requests)]
      /\ client \in [Clients -> Client] /\ req \in [Requests -> Request]
  BY DEF Live, Safe, TypeOK
<1>2. ASSUME NEW f \in Frames(stack')
      PROVE  /\ f.pc \in {"putback", "request", "redirected"} => f.c \in Clients
             /\ f.pc \in {"request", "pool_request"} => f.r \in Requests
  BY <1>1, FramesAreFrames, FrameFields
<1>3. ASSUME NEW d \in Clients, alive PROVE Taken(d) => Taken(d)'
  BY <1>3 DEF Fixed, Taken, Claimed
<1>4. ASSUME NEW n \in NetLocs, NEW q \in Range(queue[n]) PROVE q \in Requests /\ q # r
  <2>1. queue[n] \in [1 .. Len(queue[n]) -> Requests]
    BY <1>1
  <2> QED
    BY <2>1 DEF Range, Queued
<1>5. ASSUME NEW d \in Clients, client[d].request # 0 PROVE client[d].request \in Requests
  BY <1>1, <1>5 DEF Client, Requests
<1>6. NoCerts'
  <2>1. \A d \in Clients : client'[d].netloc.ctx = "default"
    BY DEF Fit, NoCerts, Fixed, ClientFits
  <2>2. \A q \in Requests : req'[q].netloc.ctx = "default"
    BY DEF Fit, NoCerts, Steady, RequestFits
  <2>3. \A f \in Frames(stack') : f.pc = "redirected" => f.ctx = "default"
    BY DEF Fit, NoCerts
  <2> QED
    BY <2>1, <2>2, <2>3 DEF NoCerts
<1>7. Pooled' /\ Expects'
  <2>1. Pooled'
    BY DEF Fit, Pooled, Fixed
  <2>2. Expects'
    BY <1>4 DEF Fit, Expects, Steady
  <2> QED
    BY <2>1, <2>2
<1>8. Serving'
  <2> SUFFICES ASSUME NEW d \in Clients, d # c, client'[d].request # 0
               PROVE  /\ client'[d].netloc \in NetLocs
                      /\ client'[d].pool => d \in busy'[client'[d].netloc]
                      /\ ~client'[d].inRedirect \/ client'[d].redirectCanceled =>
                             req'[client'[d].request].netloc = client'[d].netloc
    BY DEF Serving, ClientFits
  <2>1. Fixed(d) /\ client[d].request # r
    OBVIOUS
  <2>2. client[d].request # 0 /\ client[d].request \in Requests
    BY <1>5, <2>1 DEF Fixed
  <2>3. req'[client[d].request].netloc = req[client[d].request].netloc
    BY <2>1, <2>2 DEF Steady
  <2> QED
    BY <2>1, <2>2, <2>3 DEF Fit, Serving, Fixed
<1>9. Handed'
  <2>1. ASSUME NEW f \in Frames(stack'), f.pc = "request", client'[f.c].pool PROVE f.c \in busy'[req'[f.r].netloc]
    <3>1. f.c \in Clients /\ f.r \in Requests
      BY <1>2, <2>1
    <3>2. CASE f \in Frames(stack) /\ f.c # c /\ f.r # r
      <4>1. Fixed(f.c) /\ Steady(f.r)
        BY <3>1, <3>2
      <4> QED
        BY <2>1, <3>1, <3>2, <4>1 DEF Fit, Handed, Fixed, Steady
    <3> QED
      BY <2>1, <3>2
  <2>2. ASSUME NEW f \in Frames(stack'), f.pc = "putback"
        PROVE  client'[f.c].pool /\ client'[f.c].netloc \in NetLocs /\ f.c \in busy'[client'[f.c].netloc]
    <3>1. f.c \in Clients
      BY <1>2, <2>2
    <3>2. CASE f \in Frames(stack) /\ f.c # c
      <4>1. Fixed(f.c)
        BY <3>1, <3>2
      <4> QED
        BY <2>2, <3>1, <3>2, <4>1 DEF Fit, Handed, Fixed
    <3> QED
      BY <2>2, <3>2
  <2> QED
    BY <2>1, <2>2 DEF Handed
<1>10. Kinds'
  <2>1. \A n \in NetLocs : free[n] \subseteq Clients /\ busy[n] \subseteq Clients
    BY DEF Live, ListsCounted
  <2>2. alive' => \A n \in NetLocs : \A d \in free'[n] : client'[d].netloc = n
    BY <2>1 DEF Fit, Kinds, Fixed
  <2>3. alive' => \A n \in NetLocs : \A d \in busy'[n] : Taken(d)'
    BY <1>3, <2>1 DEF Fit, Kinds
  <2> QED
    BY <2>2, <2>3 DEF Kinds
<1>11. Turning'
  <2> SUFFICES ASSUME NEW d \in Clients, d # c
               PROVE  /\ client'[d].redirectCanceled => client'[d].inRedirect
                      /\ client'[d].inRedirect => \E f \in Frames(stack') : f.pc = "redirected" /\ f.c = d
    BY DEF Turning, ClientFits
  <2>1. Fixed(d)
    OBVIOUS
  <2> QED
    BY <2>1 DEF Fit, Turning, Fixed
<1>12. Feeds'
  <2>1. ASSUME NEW d \in Clients, client'[d].field # 0, d # c
        PROVE  /\ client'[d].request # 0 /\ client'[d].field \in Files(client'[d].request)
               /\ req'[client'[d].request].streamer[client'[d].field] = d
    <3>1. Fixed(d) /\ client[d].request # r
      BY <2>1
    <3>2. client[d].field # 0
      BY <2>1, <3>1 DEF Fixed
    <3>3. client[d].request # 0 /\ client[d].field \in Files(client[d].request)
          /\ req[client[d].request].streamer[client[d].field] = d
      BY <3>2 DEF Fit, Feeds
    <3>4. req'[client[d].request].streamer = req[client[d].request].streamer
      BY <1>5, <3>1, <3>3 DEF Steady
    <3> QED
      BY <3>1, <3>3, <3>4 DEF Fixed
  <2>2. ASSUME NEW q \in Requests, q # r, NEW i \in Files(q), req'[q].streamer[i] # 0
        PROVE  /\ client'[req'[q].streamer[i]].request = q /\ client'[req'[q].streamer[i]].field = i
               /\ ~req'[q].transferred
    <3>1. Steady(q) /\ client[c].request # q
      BY <2>2
    <3>2. req'[q].streamer[i] = req[q].streamer[i]
      BY <3>1 DEF Steady
    <3>3. client[req[q].streamer[i]].request = q /\ client[req[q].streamer[i]].field = i /\ ~req[q].transferred
      BY <2>2, <3>2 DEF Fit, Feeds
    <3>4. req[q].streamer[i] \in Clients
      <4>1. req[q].streamer \in [DOMAIN Form[q] -> 0 .. MaxClients] /\ i \in DOMAIN Form[q]
        BY DEF Fit, Feeds, Files
      <4>2. MaxClients \in Nat
        BY BoundsAssumption
      <4> QED
        BY <2>2, <3>2, <4>1, <4>2 DEF Clients
    <3>5. Fixed(req[q].streamer[i])
      BY <3>1, <3>3, <3>4
    <3>6. ~req'[q].transferred
      BY <3>1, <3>3 DEF Steady
    <3> QED
      BY <3>2, <3>3, <3>5, <3>6 DEF Fixed
  <2>3. ASSUME NEW q \in Requests
        PROVE  /\ req'[q].streamer \in [DOMAIN Form[q] -> 0 .. MaxClients]
               /\ req'[q].inputs \subseteq Files(q)
               /\ Placing(q)' \/ (Queued(q)' /\ req'[q].pool) => req'[q].inputs = Files(q)
               /\ req'[q].client = 0 => ~req'[q].transferred
    <3>1. Queued(q)' => Queued(q)
      BY DEF Queued
    <3>2. CASE q = r
      BY <3>1, <3>2 DEF RequestFits
    <3>3. CASE q # r
      <4>1. Steady(q)
        BY <3>3
      <4>2. /\ req[q].streamer \in [DOMAIN Form[q] -> 0 .. MaxClients]
            /\ req[q].inputs \subseteq Files(q)
            /\ Placing(q) \/ (Queued(q) /\ req[q].pool) => req[q].inputs = Files(q)
            /\ req[q].client = 0 => ~req[q].transferred
        BY DEF Fit, Feeds
      <4>3. Placing(q)' => Placing(q)
        BY <3>3 DEF Placing
      <4> QED
        BY <3>1, <4>1, <4>2, <4>3 DEF Steady
    <3> QED
      BY <3>2, <3>3
  <2>4. RedirectLimit = 0 => \A f \in Frames(stack') : f.pc # "redirected"
    BY DEF Fit, Feeds
  <2>5. ClientFits(c)' /\ RequestFits(r)'
    OBVIOUS
  <2>6. \A d \in Clients : client'[d].field # 0 =>
          /\ client'[d].request # 0 /\ client'[d].field \in Files(client'[d].request)
          /\ req'[client'[d].request].streamer[client'[d].field] = d
    BY <2>1, <2>5 DEF ClientFits
  <2>7. \A q \in Requests : \A i \in Files(q) : req'[q].streamer[i] # 0 =>
          /\ client'[req'[q].streamer[i]].request = q /\ client'[req'[q].streamer[i]].field = i
          /\ ~req'[q].transferred
    BY <2>2, <2>5 DEF RequestFits
  <2> QED
    BY <2>3, <2>4, <2>6, <2>7 DEF Feeds
<1>13. Iterators'
  BY DEF Iterators, Dying
<1> QED
  BY <1>6, <1>7, <1>8, <1>9, <1>10, <1>11, <1>12, <1>13 DEF Fit

-----------------------------------------------------------------------------
(* The end of a request *)

\* The frames that finish_request() leaves.
LEMMA EndingIs ==
  ASSUME Safe, NEW c \in Clients, NEW ok \in BOOLEAN, NEW from \in 0 .. MaxRequests, NEW rest \in Seq(Frame),
         client[c].request \in Requests
  PROVE  Frames(Ending(c, ok, from) \o rest) =
           (IF client[c].pool THEN {AtClient("putback", c)} ELSE {})
           \cup {[pc |-> "notify", r |-> client[c].request, ok |-> ok, from |-> from]} \cup Frames(rest)
<1> DEFINE n == [pc |-> "notify", r |-> client[c].request, ok |-> ok, from |-> from]
           p == AtClient("putback", c)
           e == Ending(c, ok, from)
<1>1. n \in Frame /\ p \in Frame
  BY MadeFrames
<1>2. e = (IF client[c].pool THEN <<p>> ELSE <<>>) \o <<n>>
  BY Zenon DEF Ending
<1> HIDE DEF n, p
<1> DEFINE a == <<p>>
           b == <<n>>
<1>3. a \in Seq(Frame) /\ Frames(a) = {p} /\ b \in Seq(Frame) /\ Frames(b) = {n}
      /\ e = (IF client[c].pool THEN a ELSE <<>>) \o b
  BY <1>1, <1>2, FewFrames
<1> HIDE DEF a, b
<1>4. e \in Seq(Frame) /\ Frames(e) = (IF client[c].pool THEN {p} ELSE {}) \cup {n}
  <2>1. a \o b \in Seq(Frame) /\ <<>> \o b \in Seq(Frame)
    BY <1>3, Empty, ConcatProperties
  <2>2. Frames(a \o b) = {p} \cup {n} /\ Frames(<<>> \o b) = {} \cup {n}
    BY <1>3, Empty, FramesTogether
  <2> QED
    BY <1>3, <2>1, <2>2, Zenon
<1> HIDE DEF e
<1>5. Frames(e \o rest) = (IF client[c].pool THEN {p} ELSE {}) \cup {n} \cup Frames(rest)
  BY <1>4, FramesTogether
<1> QED
  BY <1>5 DEF n, p, e

\* An item that is a file is an item.
LEMMA FieldBound ==
  ASSUME NEW r \in Requests, NEW i \in Files(r)
  PROVE  i \in 1 .. Len(Form[r]) /\ i \in DOMAIN Form[r] /\ Len(Form[r]) \in Nat /\ i # 0 /\ i \in Nat
<1>1. Form[r] \in Seq(FormItems)
  BY EnvironmentAssumption
<1> QED
  BY <1>1 DEF Files

\* What finish_request() makes of a client.
LEMMA FinishedFields ==
  ASSUME NEW cl \in Client, NEW keep \in BOOLEAN
  PROVE  LET x == Finished(cl, keep)
         IN  /\ x.netloc = cl.netloc /\ x.pool = cl.pool /\ x.request = 0 /\ x.field = 0
             /\ x.inRedirect = cl.inRedirect /\ x.redirectCanceled = cl.redirectCanceled
  BY DEF Finished, Reset, Client

\* And of its request.
LEMMA StoppedFields ==
  ASSUME NEW q \in Request, NEW i \in Nat
  PROVE  LET x == Stopped(q, i)
         IN  /\ x.netloc = q.netloc /\ x.inputs = q.inputs /\ x.transferred = q.transferred
             /\ x.client = q.client /\ x.pool = q.pool
             /\ x.streamer = IF i = 0 THEN q.streamer ELSE [q.streamer EXCEPT ![i] = 0]
  BY DEF Stopped, Request

\* A streamer that is stopped leaves the others as they are.
LEMMA StoppedStreamers ==
  ASSUME NEW D, NEW s \in [D -> 0 .. MaxClients], NEW i
  PROVE  [s EXCEPT ![i] = 0] \in [D -> 0 .. MaxClients]
  BY NoneIsThere

\* Only the client of a running request has it, and only that one feeds it.
LEMMA RunsAlone ==
  ASSUME Live, Fit, NEW c \in Clients, client[c].request # 0
  PROVE  LET r == client[c].request
         IN  /\ r \in Requests /\ Lives(r, "running") /\ req[r].client = c /\ ~Queued(r)
             /\ \A d \in Clients : d # c => client[d].request # r
             /\ \A i \in Files(r) : req[r].streamer[i] # 0 => req[r].streamer[i] = c /\ client[c].field = i
             /\ client[c].field = 0 \/ client[c].field \in Files(r)
<1> DEFINE r == client[c].request
<1>1. r \in Requests
  BY HasRequest DEF Live
<1>2. Lives(r, "running") /\ req[r].client = c
  BY <1>1, LivesWhere DEF Live
<1>3. \A d \in Clients : d # c => client[d].request # r
  BY <1>2 DEF Lives
<1>4. ~Queued(r)
  BY <1>2 DEF Lives
<1>5. ASSUME NEW i \in Files(r), req[r].streamer[i] # 0 PROVE req[r].streamer[i] = c /\ client[c].field = i
  <2>1. req[r].streamer \in [DOMAIN Form[r] -> 0 .. MaxClients] /\ MaxClients \in Nat
    BY <1>1, BoundsAssumption DEF Fit, Feeds
  <2>2. i \in DOMAIN Form[r]
    BY <1>1, FieldBound
  <2>3. req[r].streamer[i] \in 0 .. MaxClients
    BY <2>1, <2>2
  <2>4. req[r].streamer[i] \in Clients
    BY <1>5, <2>1, <2>3 DEF Clients
  <2>5. client[req[r].streamer[i]].request = r /\ client[req[r].streamer[i]].field = i
    BY <1>1, <1>5 DEF Fit, Feeds
  <2> QED
    BY <1>3, <2>4, <2>5
<1>6. client[c].field = 0 \/ client[c].field \in Files(r)
  BY DEF Fit, Feeds
<1> QED
  BY <1>1, <1>2, <1>3, <1>4, <1>5, <1>6

\* finish_request(): the client is put back to the list of its place, its Streamer
\* stops, and the request is about to be reported.
LEMMA FinishRequestFits ==
  ASSUME Live, Safe', Fit, NEW c \in Clients, NEW cl \in Client, NEW keep \in BOOLEAN, NEW ok \in BOOLEAN,
         NEW from \in 0 .. MaxRequests, NEW rest \in Seq(Frame),
         FinishRequest(c, cl, keep, ok, from, rest), cl.request = client[c].request, cl.request # 0,
         cl.pool = client[c].pool, cl.netloc = client[c].netloc, cl.field = client[c].field,
         cl.redirectCanceled => cl.inRedirect, cl.inRedirect => client[c].inRedirect,
         Normal, Still(stack),
         \A f \in Frames(rest) : f \in Frames(stack) \/ f.pc = "on_read",
         \A f \in Frames(stack) : f.pc = "redirected" => f \in Frames(rest) \/ (f.c = c /\ ~cl.inRedirect)
  PROVE  Fit' /\ fault' = fault
<1>0. Safe /\ client[c].request # 0
  BY DEF Live
<1>1. PICK r \in Requests : r = client[c].request
  BY <1>0, RunsAlone
<1>2. /\ Lives(r, "running") /\ ~Queued(r)
      /\ \A d \in Clients : d # c => client[d].request # r
      /\ \A i \in Files(r) : req[r].streamer[i] # 0 => req[r].streamer[i] = c /\ client[c].field = i
      /\ client[c].field = 0 \/ client[c].field \in Files(r)
  BY <1>0, <1>1, RunsAlone
<1>3. cl.field <= Len(Form[cl.request]) /\ cl.field \in Nat /\ ~(cl.field > Len(Form[cl.request]))
  <2>1. Len(Form[r]) \in Nat
    BY EnvironmentAssumption
  <2>2. CASE cl.field = 0
    BY <1>1, <2>1, <2>2
  <2>3. CASE cl.field \in Files(r)
    BY <1>1, <2>3, FieldBound
  <2> QED
    BY <1>2, <2>2, <2>3
<1>4. /\ client' = [client EXCEPT ![c] = Finished(cl, keep)]
      /\ req' = [req EXCEPT ![cl.request] = Stopped(@, cl.field)]
      /\ stack' = Ending(c, ok, from) \o rest
      /\ UNCHANGED <<pool, slots, submits, fault>>
  BY <1>3, Zenon DEF FinishRequest
<1>5. client \in [Clients -> Client] /\ req \in [Requests -> Request]
  BY <1>0 DEF Safe, TypeOK
<1> DEFINE x == Finished(cl, keep)
           q == Stopped(req[r], cl.field)
           n == [pc |-> "notify", r |-> client[c].request, ok |-> ok, from |-> from]
           p == AtClient("putback", c)
<1>6. /\ x.netloc = cl.netloc /\ x.pool = cl.pool /\ x.request = 0 /\ x.field = 0
      /\ x.inRedirect = cl.inRedirect /\ x.redirectCanceled = cl.redirectCanceled
  BY FinishedFields
<1>7. /\ q.netloc = req[r].netloc /\ q.inputs = req[r].inputs /\ q.transferred = req[r].transferred
      /\ q.client = req[r].client /\ q.pool = req[r].pool
      /\ q.streamer = IF cl.field = 0 THEN req[r].streamer ELSE [req[r].streamer EXCEPT ![cl.field] = 0]
  <2>1. req[r] \in Request /\ cl.field \in Nat
    BY <1>3, <1>5
  <2> QED
    BY <2>1, StoppedFields
<1>8. n.pc = "notify" /\ p.pc = "putback" /\ p.c = c
  BY DEF AtClient
<1>9. Frames(stack') = (IF client[c].pool THEN {p} ELSE {}) \cup {n} \cup Frames(rest)
  BY <1>0, <1>1, <1>4, EndingIs
<1>10. client'[c] = x /\ \A d \in Clients : d # c => client'[d] = client[d]
  BY <1>4, <1>5
<1>11. req'[r] = q /\ \A y \in Requests : y # r => req'[y] = req[y]
  BY <1>1, <1>4, <1>5
<1>12. UNCHANGED <<alive, free, busy, queue, fault>>
  BY <1>4 DEF pool, slots
<1> HIDE DEF x, q, n, p
<1>13. \A d \in Clients : d # c => Fixed(d)
  BY <1>10 DEF Fixed
<1>14. \A y \in Requests : y # r => Steady(y)
  BY <1>11 DEF Steady
<1>15. \A f \in Frames(stack) : f.pc \notin {"request", "putback", "pool_request"}
  BY DEF Still, Passing
<1>16. \A f \in Frames(stack') : f = n \/ (f = p /\ client[c].pool) \/ f.pc = "on_read" \/ f \in Frames(stack)
  BY <1>9
<1>17. client[c].netloc \in NetLocs /\ (client[c].pool => c \in busy[client[c].netloc])
  BY <1>0 DEF Fit, Serving
<1>18. ClientFits(c)'
  <2>1. client'[c].netloc.ctx = "default"
    BY <1>6, <1>10 DEF Fit, NoCerts
  <2>2. ASSUME client'[c].inRedirect PROVE \E f \in Frames(stack') : f.pc = "redirected" /\ f.c = c
    <3>1. cl.inRedirect /\ client[c].inRedirect
      BY <1>6, <1>10, <2>2
    <3>2. PICK f \in Frames(stack) : f.pc = "redirected" /\ f.c = c
      BY <3>1 DEF Fit, Turning
    <3>3. f \in Frames(rest)
      BY <3>1, <3>2
    <3> QED
      BY <1>9, <3>2, <3>3
  <2> QED
    BY <1>6, <1>10, <2>1, <2>2 DEF ClientFits
<1>19. RequestFits(r)'
  <2>1. /\ req[r].streamer \in [DOMAIN Form[r] -> 0 .. MaxClients] /\ req[r].inputs \subseteq Files(r)
        /\ req[r].client = 0 => ~req[r].transferred
        /\ req[r].netloc.ctx = "default"
    BY DEF Fit, Feeds, NoCerts
  <2>2. req'[r].streamer \in [DOMAIN Form[r] -> 0 .. MaxClients]
    <3>1. req'[r].streamer = q.streamer
      BY <1>11
    <3>2. CASE cl.field = 0
      BY <1>7, <2>1, <3>1, <3>2
    <3>3. CASE cl.field # 0
      <4>1. req'[r].streamer = [req[r].streamer EXCEPT ![cl.field] = 0]
        BY <1>7, <3>1, <3>3
      <4>2. [req[r].streamer EXCEPT ![cl.field] = 0] \in [DOMAIN Form[r] -> 0 .. MaxClients]
        BY <2>1, StoppedStreamers, Zenon
      <4> QED
        BY <4>1, <4>2, Zenon
    <3> QED
      BY <3>2, <3>3
  <2>3. ASSUME NEW i \in Files(r) PROVE req'[r].streamer[i] = 0
    <3>1. i \in DOMAIN Form[r] /\ i # 0
      BY FieldBound
    <3>2. CASE req[r].streamer[i] = 0
      BY <1>7, <1>11, <2>1, <3>1, <3>2
    <3>3. CASE req[r].streamer[i] # 0
      <4>1. cl.field = i
        BY <1>2, <3>3
      <4> QED
        BY <1>7, <1>11, <2>1, <3>1, <4>1
    <3> QED
      BY <3>2, <3>3
  <2>4. ~Placing(r)'
    <3>1. \A f \in Frames(stack') : f.pc \notin {"pool_request", "request"}
      BY <1>8, <1>15, <1>16
    <3> QED
      BY <3>1 DEF Placing
  <2> QED
    BY <1>7, <1>11, <2>1, <2>2, <2>3, <2>4 DEF RequestFits
<1>20. alive => Taken(c)'
  <2> SUFFICES ASSUME alive PROVE Taken(c)'
    OBVIOUS
  <2>1. client[c].pool
    BY DEF Fit, Pooled
  <2>2. p \in Frames(stack')
    BY <1>9, <2>1
  <2> QED
    BY <1>8, <2>2 DEF Taken, Claimed
<1>21. \A m \in NetLocs : alive /\ c \in free[m] => client'[c].netloc = m
  BY <1>6, <1>10 DEF Fit, Kinds
<1>22. \A f \in Frames(stack') : f.pc \notin Dying
  BY <1>8, <1>16 DEF Normal, Dying
<1>23. \A f \in Frames(stack') : f.pc = "putback" => f = p /\ client[c].pool
  BY <1>8, <1>15, <1>16
<1>24. \A f \in Frames(stack') : f.pc \notin {"request", "pool_request"}
  BY <1>8, <1>15, <1>16
<1>25. \A f \in Frames(stack') : f.pc = "redirected" => f \in Frames(stack)
  BY <1>8, <1>16
<1>26. client'[c].pool = client[c].pool /\ client'[c].netloc = client[c].netloc
  BY <1>6, <1>10
<1>27. \A f \in Frames(stack') : f.pc = "putback" =>
          client'[f.c].pool /\ client'[f.c].netloc \in NetLocs /\ f.c \in busy[client'[f.c].netloc]
  BY <1>8, <1>17, <1>23, <1>26
<1>28. \A f \in Frames(stack) : f.pc \in {"request", "putback", "redirected"} => f \in Frames(stack') \/ f.c = c
  BY <1>9, <1>15
<1>29. Fit'
  BY <1>1, <1>2, <1>12, <1>13, <1>14, <1>18, <1>19, <1>20, <1>21, <1>22, <1>24, <1>25, <1>26, <1>27, <1>28, FitOne
<1> QED
  BY <1>12, <1>29

\* cancel() of a client.
LEMMA CancelFits ==
  ASSUME Live, Safe', Fit, NEW c \in Clients, NEW rest \in Seq(Frame), Cancel(c, rest), Normal, Still(stack),
         \A f \in Frames(rest) : f \in Frames(stack) \/ f.pc = "on_read",
         \A f \in Frames(stack) : f.pc = "redirected" => f \in Frames(rest)
  PROVE  Fit' /\ fault' = fault
<1> DEFINE cl == [client[c] EXCEPT !.expects = FALSE, !.redirectCanceled = @ \/ client[c].inRedirect]
<1>1. client[c].request # 0 /\ FinishRequest(c, cl, FALSE, FALSE, 0, rest)
  BY DEF Cancel
<1>2. client[c] \in Client
  BY DEF Live, Safe, TypeOK
<1>3. /\ cl \in Client /\ cl.request = client[c].request /\ cl.pool = client[c].pool
      /\ cl.netloc = client[c].netloc /\ cl.field = client[c].field /\ cl.inRedirect = client[c].inRedirect
      /\ cl.redirectCanceled = (client[c].redirectCanceled \/ client[c].inRedirect)
  BY <1>2 DEF Client
<1> HIDE DEF cl
<1>4. client[c].redirectCanceled => client[c].inRedirect
  BY DEF Fit, Turning
<1>5. cl.redirectCanceled => cl.inRedirect
  BY <1>3, <1>4
<1> QED
  BY <1>1, <1>3, <1>5, NoneIsThere, FinishRequestFits

\* A stream fails.
LEMMA OnErrorFits ==
  ASSUME Live, Safe', Fit, NEW c \in Clients, OnError(c)
  PROVE  Fit' /\ fault' = fault
<1>1. stack = <<>> /\ Cancel(c, <<>>)
  BY DEF OnError, Loop
<1>2. Normal /\ Still(stack) /\ Frames(stack) = {}
  BY <1>1, AtLoop
<1> QED
  BY <1>1, <1>2, Empty, CancelFits

\* The parser finds an error.
LEMMA ParseErrorFits ==
  ASSUME Live, Safe', Fit, ParseError
  PROVE  Fit' /\ fault' = fault
<1>1. Parses({"bad"}) /\ Cancel(Top.c, Tail(stack))
  BY DEF ParseError
<1>2. Top.c \in Clients /\ Tail(stack) = <<>> /\ Frames(stack) = {Top} /\ Top.pc = "on_read"
  BY <1>1, ParsesForRequest DEF Live
<1>3. Normal /\ Still(stack)
  BY <1>1, ParsedRuns
<1> QED
  BY <1>1, <1>2, <1>3, Empty, CancelFits

\* A response is complete.
LEMMA CompleteFits ==
  ASSUME Live, Safe', Fit, Complete
  PROVE  Fit' /\ fault' = fault
<1> DEFINE c == Top.c
           cl == [client[c] EXCEPT !.expects = FALSE]
           r == client[c].request
           ok == req[r].transferred
           keep == ok /\ Head(Top.buf) = "ok" /\ r \notin Closing
           rest == <<NextTurn>> \o Tail(stack)
<1>1. Parses({"ok", "close"}) /\ FinishRequest(c, cl, keep, ok, Top.from, rest)
  BY DEF Complete
<1>2. /\ c \in Clients /\ r \in Requests /\ r # 0 /\ Top.from \in 0 .. MaxRequests /\ NextTurn.pc = "on_read"
      /\ Frames(stack) = {Top} /\ Top.pc = "on_read"
  BY <1>1, ParsesForRequest DEF Live
<1>3. rest \in Seq(Frame) /\ Frames(rest) = {NextTurn}
  BY <1>1, Onward DEF Live
<1>4. Normal /\ Still(stack)
  BY <1>1, ParsedRuns
<1>5. client[c] \in Client /\ req[r] \in Request
  BY <1>2 DEF Live, Safe, TypeOK
<1>6. /\ cl \in Client /\ cl.request = r /\ cl.pool = client[c].pool
      /\ cl.netloc = client[c].netloc /\ cl.field = client[c].field /\ cl.inRedirect = client[c].inRedirect
      /\ cl.redirectCanceled = client[c].redirectCanceled
  BY <1>5 DEF Client
<1>7. ok \in BOOLEAN /\ keep \in BOOLEAN
  BY <1>5 DEF Request
<1>8. cl.redirectCanceled => cl.inRedirect
  BY <1>2, <1>6 DEF Fit, Turning
<1> HIDE DEF cl, ok, keep, rest
<1> QED
  BY <1>1, <1>2, <1>3, <1>4, <1>6, <1>7, <1>8, FinishRequestFits

\* Request::cancel() and on_timer().
LEMMA EndRequestFits ==
  ASSUME Live, Safe', Fit, NEW r \in Requests, EndRequest(r, stack), Still(stack),
         stack # <<>> => Top.pc = "callback" /\ Top \in Frames(stack) /\ Top.r = r,
         FromLoopOnly \/ req[r].client # 0
  PROVE  Fit' /\ fault' = fault
<1>1. req \in [Requests -> Request] /\ stack \in Seq(Frame) /\ Safe
  BY DEF Live, Safe, TypeOK
<1>2. CASE req[r].client # 0 /\ Cancel(req[r].client, stack)
  <2>1. req[r].client \in Clients
    BY <1>1, <1>2, BoundsAssumption DEF Request, Clients
  <2>2. Normal
    BY <1>2, NormalIf DEF Idles, Dying
  <2> QED
    BY <1>1, <1>2, <2>1, <2>2, CancelFits
<1>3. CASE req[r].client = 0 /\ req[r].pool /\ CancelRequest(r, stack)
  <2>1. stack = <<>>
    BY <1>3 DEF Live, Sound, Served
  <2> QED
    BY <1>3, <2>1, CancelRequestFits
<1> QED
  BY <1>2, <1>3, Zenon DEF EndRequest

\* The timer of a request fires.
LEMMA OnTimerFits ==
  ASSUME Live, Safe', Fit, Orderly, NEW r \in Requests, OnTimer(r)
  PROVE  Fit' /\ fault' = fault
<1>1. stack = <<>> /\ req[r].timer /\ EndRequest(r, stack)
  BY DEF OnTimer, Loop
<1>2. Still(stack)
  BY <1>1, AtLoop
<1>3. FromLoopOnly
  <2>1. r \notin Untimed
    BY <1>1 DEF Live, AllLive, Lives
  <2> QED
    BY <2>1 DEF Orderly
<1> QED
  BY <1>1, <1>2, <1>3, EndRequestFits

\* The user cancels a request.
LEMMA CancelCallFits ==
  ASSUME Live, Safe', Fit, Orderly, NEW r \in Requests, CancelCall(r)
  PROVE  Fit' /\ fault' = fault
<1>1. UserMay("cancel") /\ Holds(r) /\ EndRequest(r, stack)
  BY DEF CancelCall
<1>2. Still(stack) /\ (stack # <<>> => Top.pc = "callback" /\ Top \in Frames(stack) /\ Top.r \in Requests)
  BY <1>1, UserStill
<1>3. stack # <<>> => Top.r = r
  BY <1>1 DEF Holds, Orderly
<1>4. FromLoopOnly
  <2>1. CASE stack = <<>>
    BY <1>1, <2>1 DEF UserMay, Orderly
  <2>2. CASE stack # <<>>
    <3>1. Top.ev \in Events
      <4>1. Top \in Frame
        BY <1>2, <2>2, FramesAreFrames DEF Live, Safe, TypeOK
      <4> QED
        BY <1>2, <2>2, <4>1, FrameFields
    <3> QED
      BY <1>1, <2>2, <3>1 DEF UserMay, Orderly
  <2> QED
    BY <2>1, <2>2
<1> QED
  BY <1>1, <1>2, <1>3, <1>4, EndRequestFits

\* analyze_request() runs once at a time.
LEMMA OneRedirect ==
  ASSUME NEW s \in Seq(Frame), Stacked(s), NEW f \in Frames(s), NEW g \in Frames(s),
         f.pc = "redirected", g.pc = "redirected"
  PROVE  f = g
<1>1. PICK i \in 1 .. Len(s), j \in 1 .. Len(s) : f = s[i] /\ g = s[j]
  BY DEF Frames
<1>2. Len(s) \in Nat
  OBVIOUS
<1>3. i # Len(s) /\ j # Len(s)
  BY <1>1 DEF Stacked, Base
<1>4. s[i + 1].pc = "on_read" /\ s[j + 1].pc = "on_read"
  BY <1>1, <1>3 DEF Stacked, Above
<1>5. i + 1 \in 1 .. Len(s) /\ j + 1 \in 1 .. Len(s)
  BY <1>2, <1>3
<1>6. i + 1 = Len(s) /\ j + 1 = Len(s)
  BY <1>4, <1>5 DEF Stacked, Above
<1> QED
  BY <1>1, <1>2, <1>6

\* redirect_event throws: the client's request is cancelled and nothing is left to run.
LEMMA ThrowInRedirectFits ==
  ASSUME Live, Safe', Fit, ThrowInRedirect
  PROVE  Fit' /\ fault' = fault
<1>1. UserMay("throw") /\ InRedirect /\ Safe
  BY DEF ThrowInRedirect, Live
<1>2. stack[2].c \in Clients /\ stack[2] \in Frames(stack)
  BY <1>1, RedirectAlone
<1>3. Normal /\ Still(stack)
  BY <1>1, RedirectNormal, UserStill
<1>4. PICK c \in Clients : c = stack[2].c
  BY <1>2
<1> DEFINE cl == [client[c] EXCEPT !.inRedirect = FALSE, !.redirectCanceled = FALSE, !.expects = FALSE]
<1>5. client \in [Clients -> Client] /\ client[c] \in Client
  BY <1>1 DEF Safe, TypeOK
<1>6. /\ cl \in Client /\ cl.request = client[c].request /\ cl.pool = client[c].pool
      /\ cl.netloc = client[c].netloc /\ cl.field = client[c].field
      /\ ~cl.inRedirect /\ ~cl.redirectCanceled
  BY <1>5 DEF Client
<1>7. \A f \in Frames(stack) : f.pc = "redirected" => f.c = c
  BY <1>1, <1>2, <1>4, OneRedirect, RedirectAlone DEF Safe, TypeOK
<1>8. \/ /\ cl.request = 0 /\ client' = [client EXCEPT ![c] = cl] /\ stack' = <<>>
         /\ UNCHANGED <<pool, slots, req, submits, fault>>
      \/ cl.request # 0 /\ FinishRequest(c, cl, FALSE, FALSE, 0, <<>>)
  BY <1>4, Zenon DEF ThrowInRedirect
<1> HIDE DEF cl
<1>9. CASE /\ cl.request = 0 /\ client' = [client EXCEPT ![c] = cl] /\ stack' = <<>>
           /\ UNCHANGED <<pool, slots, req, submits, fault>>
  <2>1. UNCHANGED <<alive, free, busy, queue, req, fault>>
    BY <1>9 DEF slots, pool
  <2>2. client'[c] = cl /\ \A d \in Clients : d # c => client'[d] = client[d]
    BY <1>5, <1>9
  <2>3. Frames(stack') = {}
    BY <1>9, Empty
  <2>4. \A f \in Frames(stack) : f.pc \notin {"pool_request", "request", "putback"}
    BY <1>3 DEF Still, Passing
  <2>5. \A d \in Clients : Fixed(d)
    BY <1>6, <1>9, <2>2 DEF Fixed
  <2>6. CallsNone /\ EndsNone
    BY <1>6, <1>7, <2>2, <2>3, <2>4 DEF CallsNone, EndsNone
  <2> QED
    BY <1>3, <2>1, <2>3, <2>5, <2>6, AllSteady, FitAlone
<1>10. CASE cl.request # 0 /\ FinishRequest(c, cl, FALSE, FALSE, 0, <<>>)
  BY <1>3, <1>6, <1>7, <1>10, NoneIsThere, Empty, FinishRequestFits
<1> QED
  BY <1>8, <1>9, <1>10

-----------------------------------------------------------------------------
(* Files and redirects *)

\* What FormFile::start() makes of a request.
LEMMA StartedFields ==
  ASSUME NEW q \in Request, NEW i \in Nat, NEW c
  PROVE  LET x == Started(q, i, c)
         IN  /\ x.netloc = q.netloc /\ x.client = q.client /\ x.pool = q.pool
             /\ x.transferred = (q.transferred \/ i = 0) /\ x.inputs \subseteq q.inputs
             /\ x.streamer = IF i = 0 THEN q.streamer ELSE [q.streamer EXCEPT ![i] = c]
<1>1. CASE i = 0
  BY <1>1 DEF Started, Request
<1>2. CASE i # 0
  BY <1>2 DEF Started, Request
<1> QED
  BY <1>1, <1>2

\* A file was sent, or could not be: the client it was written to has its request still.
LEMMA OnStreamedFits ==
  ASSUME Live, Safe', Fit, NEW r \in Requests, NEW i \in Files(r), NEW ok \in BOOLEAN, OnStreamed(r, i, ok)
  PROVE  Fit' /\ fault' = fault
<1>1. stack = <<>> /\ req[r].streamer[i] \in Clients
  BY DEF OnStreamed, Loop
<1>2. PICK c \in Clients : c = req[r].streamer[i]
  BY <1>1
<1>3. /\ client \in [Clients -> Client] /\ client[c] \in Client /\ req \in [Requests -> Request] /\ req[r] \in Request
      /\ Safe
  BY DEF Live, Safe, TypeOK
<1>4. Normal /\ Still(stack) /\ Frames(stack) = {}
  BY <1>1, AtLoop
<1>5. c # 0 /\ r # 0
  BY BoundsAssumption DEF Clients, Requests
<1>6. client[c].request = r /\ client[c].field = i /\ ~req[r].transferred
  BY <1>2, <1>5 DEF Fit, Feeds
<1>7. /\ Lives(r, "running") /\ req[r].client = c /\ ~Queued(r)
      /\ \A d \in Clients : d # c => client[d].request # r
      /\ \A j \in Files(r) : req[r].streamer[j] # 0 => req[r].streamer[j] = c /\ client[c].field = j
  BY <1>5, <1>6, RunsAlone
<1> DEFINE file == FileFrom(r, i + 1)
<1>8. \/ FinishRequest(c, client[c], FALSE, FALSE, 0, <<>>)
      \/ /\ client' = [client EXCEPT ![c].field = file]
         /\ req' = [req EXCEPT ![r] = Started(Stopped(@, i), file, c)]
         /\ UNCHANGED <<pool, slots, submits, stack, fault>>
  BY <1>2, <1>6 DEF OnStreamed
<1>9. CASE FinishRequest(c, client[c], FALSE, FALSE, 0, <<>>)
  <2>1. client[c].redirectCanceled => client[c].inRedirect
    BY DEF Fit, Turning
  <2> QED
    BY <1>3, <1>4, <1>5, <1>6, <1>9, <2>1, NoneIsThere, Empty, FinishRequestFits
<1>10. CASE /\ client' = [client EXCEPT ![c].field = file]
            /\ req' = [req EXCEPT ![r] = Started(Stopped(@, i), file, c)]
            /\ UNCHANGED <<pool, slots, submits, stack, fault>>
  <2>1. i \in Nat /\ i # 0 /\ i + 1 \in Nat /\ i \in DOMAIN Form[r]
    BY FieldBound
  <2>2. file \in Files(r) \cup {0}
    BY <2>1, FilesNumbered
  <2>3. file \in Nat
    BY <2>2, FieldBound
  <2> HIDE DEF file
  <2> DEFINE a == Stopped(req[r], i)
             b == Started(a, file, c)
             x == [client[c] EXCEPT !.field = file]
  <2>4. /\ a \in Request /\ a.netloc = req[r].netloc /\ a.inputs = req[r].inputs
        /\ a.transferred = req[r].transferred /\ a.client = req[r].client
        /\ a.streamer = [req[r].streamer EXCEPT ![i] = 0]
    BY <1>3, <2>1, RequestFields, StoppedFields
  <2> HIDE DEF a
  <2>5. /\ b.netloc = a.netloc /\ b.client = a.client
        /\ b.transferred = (a.transferred \/ file = 0) /\ b.inputs \subseteq a.inputs
        /\ b.streamer = IF file = 0 THEN a.streamer ELSE [a.streamer EXCEPT ![file] = c]
    BY <2>3, <2>4, StartedFields
  <2>6. req'[r] = b /\ \A y \in Requests : y # r => req'[y] = req[y]
    BY <1>3, <1>10 DEF a
  <2>7. /\ x.netloc = client[c].netloc /\ x.request = r /\ x.pool = client[c].pool /\ x.field = file
        /\ x.inRedirect = client[c].inRedirect /\ x.redirectCanceled = client[c].redirectCanceled
    BY <1>3, <1>6 DEF Client
  <2>8. client'[c] = x /\ \A d \in Clients : d # c => client'[d] = client[d]
    BY <1>3, <1>10
  <2> HIDE DEF b, x
  <2>9. UNCHANGED <<alive, free, busy, queue, stack, fault>>
    BY <1>10 DEF pool, slots
  <2>10. \A d \in Clients : d # c => Fixed(d)
    BY <2>8 DEF Fixed
  <2>11. \A y \in Requests : y # r => Steady(y)
    BY <2>6 DEF Steady
  <2>12. /\ req[r].streamer \in [DOMAIN Form[r] -> 0 .. MaxClients] /\ req[r].inputs \subseteq Files(r)
         /\ req[r].netloc.ctx = "default" /\ client[c].netloc.ctx = "default"
         /\ client[c].netloc \in NetLocs /\ (client[c].pool => c \in busy[client[c].netloc])
         /\ ~client[c].inRedirect \/ client[c].redirectCanceled => req[r].netloc = client[c].netloc
         /\ client[c].redirectCanceled => client[c].inRedirect
         /\ client[c].inRedirect => \E f \in Frames(stack) : f.pc = "redirected" /\ f.c = c
    BY <1>5, <1>6 DEF Fit, Feeds, NoCerts, Serving, Turning
  <2>13. ASSUME NEW j \in DOMAIN Form[r]
         PROVE  /\ req'[r].streamer[j] = IF j = file /\ file # 0 THEN c ELSE IF j = i THEN 0 ELSE req[r].streamer[j]
                /\ req'[r].streamer \in [DOMAIN Form[r] -> 0 .. MaxClients]
    <3>1. c \in 0 .. MaxClients /\ 0 \in 0 .. MaxClients
      BY NoneIsThere, BoundsAssumption DEF Clients
    <3>2. a.streamer \in [DOMAIN Form[r] -> 0 .. MaxClients] /\ a.streamer[j] = IF j = i THEN 0 ELSE req[r].streamer[j]
      BY <2>4, <2>12, <3>1
    <3>3. file # 0 => file \in DOMAIN Form[r]
      BY <2>2, FieldBound
    <3> QED
      BY <2>5, <2>6, <3>1, <3>2, <3>3
  <2>14. ClientFits(c)'
    <3>1. file # 0 => file \in Files(r) /\ req'[r].streamer[file] = c
      BY <2>2, <2>13, FieldBound
    <3> QED
      BY <1>5, <2>5, <2>4, <2>6, <2>7, <2>8, <2>9, <2>12, <3>1 DEF ClientFits
  <2>15. RequestFits(r)'
    <3>1. ASSUME NEW j \in Files(r), req'[r].streamer[j] # 0
          PROVE  req'[r].streamer[j] = c /\ file = j /\ file # 0
      <4>1. j \in DOMAIN Form[r]
        BY FieldBound
      <4>2. j # i => req[r].streamer[j] = 0
        BY <1>6, <1>7
      <4> QED
        BY <2>13, <3>1, <4>1, <4>2
    <3>2. \A j \in Files(r) : req'[r].streamer[j] # 0 =>
             /\ client'[req'[r].streamer[j]].request = r /\ client'[req'[r].streamer[j]].field = j
             /\ ~req'[r].transferred
      <4> TAKE j \in Files(r)
      <4> HAVE req'[r].streamer[j] # 0
      <4>1. req'[r].streamer[j] = c /\ file = j /\ file # 0
        BY <3>1
      <4>2. client'[c].request = r /\ client'[c].field = file
        BY <2>7, <2>8
      <4>3. ~req[r].transferred
        BY <1>6
      <4>4. ~req'[r].transferred
        BY <2>4, <2>5, <2>6, <4>1, <4>3
      <4> QED
        BY <4>1, <4>2, <4>4
    <3>3. ~Placing(r)'
      BY <1>4, <2>9 DEF Placing
    <3>4. req'[r].client # 0
      BY <1>5, <1>7, <2>4, <2>5, <2>6
    <3>5. req'[r].netloc.ctx = "default" /\ req'[r].inputs \subseteq Files(r)
      BY <2>4, <2>5, <2>6, <2>12
    <3>6. req'[r].streamer \in [DOMAIN Form[r] -> 0 .. MaxClients]
      BY <2>1, <2>13
    <3> QED
      BY <3>2, <3>3, <3>4, <3>5, <3>6 DEF RequestFits
  <2>16. Taken(c)'
    BY <1>5, <2>7, <2>8 DEF Taken
  <2>17. \A m \in NetLocs : alive /\ c \in free[m] => client'[c].netloc = m
    BY <2>7, <2>8 DEF Fit, Kinds
  <2>18. client'[c].pool = client[c].pool /\ Frames(stack') = {}
    BY <1>4, <2>7, <2>8, <2>9
  <2>19. Fit'
    BY <1>4, <1>6, <1>7, <2>9, <2>10, <2>11, <2>14, <2>15, <2>16, <2>17, <2>18, FitOne
  <2> QED
    BY <2>9, <2>19
<1> QED
  BY <1>8, <1>9, <1>10

\* A redirect is refused, or redirect_event is called for the request with its next uri.
LEMMA RedirectFits ==
  ASSUME Live, Safe', Fit, NEW host, Redirect(host)
  PROVE  Fit' /\ fault' = fault
<1>1. Parses({"redirect", "redirect_close"}) /\ Safe
  BY DEF Redirect, Live
<1>2. /\ Top.c \in Clients /\ Frames(stack) = {Top} /\ Top.pc = "on_read" /\ Tail(stack) = <<>>
      /\ Top.from \in 0 .. MaxRequests /\ NextTurn.pc = "on_read" /\ NextTurn \in Frame
      /\ client[Top.c].request # 0
  BY <1>1, ParsesForRequest
<1>3. PICK c \in Clients : c = Top.c
  BY <1>2
<1>4. /\ client[c].request \in Requests /\ ~Queued(client[c].request)
      /\ \A d \in Clients : d # c => client[d].request # client[c].request
  BY <1>2, <1>3, RunsAlone
<1>5. PICK r \in Requests : r = client[c].request
  BY <1>4
<1>6. Normal /\ Still(stack)
  BY <1>1, ParsedRuns
<1> DEFINE count == IF RedirectLimit = 0 THEN 0 ELSE req[r].redirects + 1
           f == Callback("redirect", r, TRUE, Top.from)
           g == [pc |-> "redirected", c |-> c, close |-> Head(Top.buf) # "redirect", ctx |-> req[r].netloc.ctx]
           h == NextTurn
           loc == [host |-> host, ctx |-> "default"]
<1>7. \/ Cancel(c, <<h>> \o Tail(stack))
      \/ /\ RedirectLimit # 0
         /\ client' = [client EXCEPT ![c].expects = FALSE, ![c].inRedirect = TRUE]
         /\ req' = [req EXCEPT ![r].redirects = count, ![r].netloc = loc]
         /\ Goto(<<f, g, h>>) /\ UNCHANGED <<pool, slots, submits, fault>>
  BY <1>3, <1>5, Zenon DEF Redirect, Exhausted
<1>8. CASE Cancel(c, <<h>> \o Tail(stack))
  <2>1. <<h>> \o Tail(stack) \in Seq(Frame) /\ Frames(<<h>> \o Tail(stack)) = {h}
    BY <1>1, Onward
  <2> DEFINE rest == <<h>> \o Tail(stack)
  <2>2. rest \in Seq(Frame) /\ Frames(rest) = {h} /\ Cancel(c, rest) /\ h.pc = "on_read"
    BY <1>2, <1>8, <2>1
  <2> HIDE DEF rest, h
  <2> QED
    BY <1>2, <1>6, <2>2, CancelFits
<1>9. CASE /\ RedirectLimit # 0
           /\ client' = [client EXCEPT ![c].expects = FALSE, ![c].inRedirect = TRUE]
           /\ req' = [req EXCEPT ![r].redirects = count, ![r].netloc = loc]
           /\ Goto(<<f, g, h>>) /\ UNCHANGED <<pool, slots, submits, fault>>
  <2>1. UNCHANGED <<alive, free, busy, queue, fault>>
    BY <1>9 DEF slots, pool
  <2>2. client \in [Clients -> Client] /\ req \in [Requests -> Request] /\ client[c] \in Client /\ req[r] \in Request
    BY <1>1 DEF Safe, TypeOK
  <2> DEFINE x == [client[c] EXCEPT !.expects = FALSE, !.inRedirect = TRUE]
             q == [req[r] EXCEPT !.redirects = count, !.netloc = loc]
  <2>3. /\ x.netloc = client[c].netloc /\ x.request = r /\ x.pool = client[c].pool /\ x.field = client[c].field
        /\ x.inRedirect /\ x.redirectCanceled = client[c].redirectCanceled
    BY <1>5, <2>2 DEF Client
  <2>4. client'[c] = x /\ \A d \in Clients : d # c => client'[d] = client[d]
    BY <1>9, <2>2
  <2> HIDE DEF count
  <2>5. loc.ctx = "default"
    OBVIOUS
  <2> HIDE DEF loc
  <2>6. /\ q.netloc = loc /\ q.inputs = req[r].inputs /\ q.transferred = req[r].transferred
        /\ q.client = req[r].client /\ q.streamer = req[r].streamer
    BY <2>2 DEF Request
  <2>7. req'[r] = q /\ \A y \in Requests : y # r => req'[y] = req[y]
    BY <1>9, <2>2
  <2> HIDE DEF x, q
  <2>8. req[r].netloc.ctx = "default"
    BY DEF Fit, NoCerts
  <2>9. f \in Frame /\ g \in Frame
    BY <1>2, <2>8, MadeFrames DEF Events
  <2>10. f.pc = "callback" /\ g.pc = "redirected" /\ g.c = c /\ g.ctx = "default"
    BY <2>8 DEF Callback
  <2> HIDE DEF f, g, h
  <2>11. Frames(stack') = {f, g, h} /\ h.pc = "on_read"
    <3>1. <<f, g, h>> \in Seq(Frame) /\ Frames(<<f, g, h>>) = {f, g, h}
      BY <1>2, <2>9, ThreeFrames, Zenon DEF h
    <3>2. stack' = <<f, g, h>> \o <<>>
      BY <1>2, <1>9 DEF Goto
    <3> DEFINE fs == <<f, g, h>>
    <3>3. fs \in Seq(Frame) /\ Frames(fs) = {f, g, h} /\ stack' = fs \o <<>>
      BY <3>1, <3>2
    <3> HIDE DEF fs
    <3>4. Frames(stack') = {f, g, h}
      BY <3>3, Empty, FramesTogether
    <3>5. h.pc = "on_read"
      BY <1>2 DEF h
    <3> QED
      BY <3>4, <3>5
  <2>12. ~client[c].redirectCanceled
    BY <1>2 DEF Fit, Turning
  <2>13. /\ client[c].netloc.ctx = "default" /\ client[c].netloc \in NetLocs
         /\ client[c].pool => c \in busy[client[c].netloc]
         /\ client[c].field # 0 => client[c].field \in Files(r) /\ req[r].streamer[client[c].field] = c
    BY <1>2, <1>3, <1>5 DEF Fit, NoCerts, Serving, Feeds
  <2>14. ClientFits(c)'
    BY <1>2, <1>3, <1>5, <2>1, <2>3, <2>4, <2>6, <2>7, <2>10, <2>11, <2>12, <2>13 DEF ClientFits
  <2>15. RequestFits(r)'
    <3>1. /\ req[r].streamer \in [DOMAIN Form[r] -> 0 .. MaxClients] /\ req[r].inputs \subseteq Files(r)
          /\ req[r].client = 0 => ~req[r].transferred
          /\ \A i \in Files(r) : req[r].streamer[i] # 0 =>
                /\ client[req[r].streamer[i]].request = r /\ client[req[r].streamer[i]].field = i
                /\ ~req[r].transferred
      BY DEF Fit, Feeds
    <3>2. \A i \in Files(r) : req[r].streamer[i] # 0 => req[r].streamer[i] = c
      BY <1>2, <1>3, <1>5, RunsAlone
    <3>3. ~Placing(r)'
      BY <2>10, <2>11 DEF Placing
    <3> QED
      BY <2>3, <2>4, <2>5, <2>6, <2>7, <3>1, <3>2, <3>3 DEF RequestFits
  <2>16. Taken(c)'
    BY <1>2, <1>3, <1>5, <2>3, <2>4 DEF Taken
  <2>17. \A m \in NetLocs : alive /\ c \in free[m] => client'[c].netloc = m
    BY <2>3, <2>4 DEF Fit, Kinds
  <2>18. \A d \in Clients : d # c => Fixed(d)
    BY <2>4 DEF Fixed
  <2>19. \A y \in Requests : y # r => Steady(y)
    BY <2>7 DEF Steady
  <2>20. \A k \in Frames(stack') : /\ k.pc \notin Dying \cup {"request", "pool_request", "putback"}
                                   /\ k.pc = "redirected" => k.ctx = "default"
    BY <2>10, <2>11 DEF Dying
  <2>21. \A k \in Frames(stack) : k.pc \notin {"request", "putback", "redirected"}
    BY <1>2
  <2>22. client'[c].pool = client[c].pool
    BY <2>3, <2>4
  <2>23. Fit'
    BY <1>4, <1>5, <1>6, <1>9, <2>1, <2>14, <2>15, <2>16, <2>17, <2>18, <2>19, <2>20, <2>21, <2>22, FitOne
  <2> QED
    BY <2>1, <2>23
<1> QED
  BY <1>7, <1>8, <1>9

\* What a redirect leaves of its client.
LEMMA TurnedFields ==
  ASSUME NEW cl \in Client
  PROVE  LET a == [cl EXCEPT !.inRedirect = FALSE, !.redirectCanceled = FALSE]
             b == [a EXCEPT !.request = 0]
         IN  /\ a.netloc = cl.netloc /\ a.request = cl.request /\ a.pool = cl.pool /\ a.field = cl.field
             /\ ~a.inRedirect /\ ~a.redirectCanceled
             /\ \A x \in {b, Reset(b)} : /\ x.netloc = cl.netloc /\ x.request = 0 /\ x.pool = cl.pool
                                         /\ x.field = cl.field /\ ~x.inRedirect /\ ~x.redirectCanceled
<1> DEFINE a == [cl EXCEPT !.inRedirect = FALSE, !.redirectCanceled = FALSE]
           b == [a EXCEPT !.request = 0]
<1>1. /\ a.netloc = cl.netloc /\ a.request = cl.request /\ a.pool = cl.pool /\ a.field = cl.field
      /\ ~a.inRedirect /\ ~a.redirectCanceled /\ a \in Client
  BY DEF Client
<1> HIDE DEF a
<1>2. /\ b.netloc = a.netloc /\ b.request = 0 /\ b.pool = a.pool /\ b.field = a.field
      /\ b.inRedirect = a.inRedirect /\ b.redirectCanceled = a.redirectCanceled /\ b \in Client
  BY <1>1, NoneIsThere DEF Client
<1> HIDE DEF b
<1>3. /\ Reset(b).netloc = b.netloc /\ Reset(b).request = b.request /\ Reset(b).pool = b.pool
      /\ Reset(b).field = b.field /\ Reset(b).inRedirect = b.inRedirect
      /\ Reset(b).redirectCanceled = b.redirectCanceled
  BY <1>2, ConnKept
<1>4. \A x \in {b, Reset(b)} : /\ x.netloc = cl.netloc /\ x.request = 0 /\ x.pool = cl.pool
                               /\ x.field = cl.field /\ ~x.inRedirect /\ ~x.redirectCanceled
  BY <1>1, <1>2, <1>3
<1> QED
  BY <1>1, <1>4 DEF a, b

\* analyze_request() after redirect_event: the client is put back and the request goes
\* to the pool, or the client takes it again for the same place.
LEMMA RedirectedFits ==
  ASSUME Live, Safe', Fit, Careful, Redirected
  PROVE  Fit' /\ fault' = fault
<1>1. At("redirected") /\ UNCHANGED <<alive, free, busy, queue, fault>> /\ Safe
  BY DEF Redirected, pool, slots, Live
<1>2. /\ stack \in Seq(Frame) /\ stack # <<>> /\ Top = Head(stack) /\ Top \in Frame /\ Top.pc = "redirected"
      /\ Top \in Frames(stack) /\ Frames(stack) = {Top} \cup Frames(Tail(stack)) /\ Tail(stack) \in Seq(Frame)
  BY <1>1, OnTop
<1>3. /\ Top.c \in Clients /\ Top.close \in BOOLEAN
      /\ \A f \in Frames(Tail(stack)) : f.pc = "on_read" /\ f \in Frames(stack)
      /\ \A f \in Frames(stack) : f.pc \in {"redirected", "on_read"}
  BY <1>1, RedirectedAlone
<1>4. PICK c \in Clients : c = Top.c
  BY <1>3
<1>5. client \in [Clients -> Client] /\ req \in [Requests -> Request] /\ client[c] \in Client
  BY <1>1 DEF Safe, TypeOK
<1>6. Normal
  BY <1>3 DEF Normal, Dying
<1> DEFINE cl == [client[c] EXCEPT !.inRedirect = FALSE, !.redirectCanceled = FALSE]
           off == [cl EXCEPT !.request = 0]
           e == IF Top.close THEN Reset(off) ELSE off
<1>7. /\ cl.netloc = client[c].netloc /\ cl.request = client[c].request /\ cl.pool = client[c].pool
      /\ cl.field = client[c].field /\ ~cl.inRedirect /\ ~cl.redirectCanceled
      /\ e.netloc = client[c].netloc /\ e.request = 0 /\ e.pool = client[c].pool
      /\ e.field = client[c].field /\ ~e.inRedirect /\ ~e.redirectCanceled
  BY <1>5, TurnedFields
<1>8. CASE client[c].redirectCanceled
  <2>1. client' = [client EXCEPT ![c] = cl] /\ Goto(<<>>) /\ UNCHANGED req
    BY <1>4, <1>8, Zenon DEF Redirected
  <2> HIDE DEF cl, off, e
  <2>2. stack' = Tail(stack)
    BY <1>1, <2>1, Returns
  <2>3. client'[c] = cl /\ \A d \in Clients : d # c => client'[d] = client[d]
    BY <1>5, <2>1
  <2>4. \A d \in Clients : Fixed(d)
    BY <1>7, <1>8, <2>3 DEF Fixed
  <2>5. \A r \in Requests : Steady(r)
    BY <2>1, AllSteady
  <2>6. CallsNone /\ EndsNone
    BY <1>2, <1>3, <1>4, <1>7, <2>2, <2>3 DEF CallsNone, EndsNone
  <2>7. \A f \in Frames(stack') : f.pc # "pool_request"
    BY <1>3, <2>2
  <2>8. Fit'
    BY <1>1, <1>6, <2>4, <2>5, <2>6, <2>7, FitAlone
  <2> QED
    BY <1>1, <2>8
<1>9. CASE ~client[c].redirectCanceled
  <2>1. client[c].request # 0
    BY <1>1, <1>2, <1>4, <1>9 DEF Safe, Coherent, Redirecting
  <2>2. /\ client[c].request \in Requests /\ ~Queued(client[c].request)
        /\ \A d \in Clients : d # c => client[d].request # client[c].request
        /\ client[c].field = 0 \/ client[c].field \in Files(client[c].request)
    BY <2>1, RunsAlone
  <2>3. PICK r \in Requests : r = client[c].request
    BY <2>2
  <2>4. Files(r) = {} /\ client[c].field = 0
    BY <1>2, <2>2, <2>3 DEF Fit, Feeds, Careful
  <2> DEFINE q == cleanup_after_redirect(req[r])
             away == client[c].pool /\ req[r].netloc.host # client[c].netloc.host
  <2>5. /\ client' = [client EXCEPT ![c] = e]
        /\ req' = [req EXCEPT ![r] = cleanup_after_redirect(@)]
        /\ IF cl.pool /\ req[r].netloc.host # cl.netloc.host
           THEN Goto(<<AtClient("putback", c), AtClient("weaken", c), PoolRequestFrame(r)>>)
           ELSE Goto(<<ClientRequestFrame(c, r)>>)
    BY <1>4, <1>9, <2>3, Zenon DEF Redirected
  <2> HIDE DEF cl, off, e
  <2>6. \/ away /\ Goto(<<AtClient("putback", c), AtClient("weaken", c), PoolRequestFrame(r)>>)
        \/ ~away /\ Goto(<<ClientRequestFrame(c, r)>>)
    BY <1>7, <2>5
  <2>7. /\ q.netloc = req[r].netloc /\ q.inputs = req[r].inputs /\ q.streamer = req[r].streamer
        /\ q.client = 0 /\ ~q.transferred
    BY <1>5 DEF cleanup_after_redirect, Request
  <2>8. req'[r] = q /\ \A y \in Requests : y # r => req'[y] = req[y]
    BY <1>5, <2>5
  <2>9. client'[c] = e /\ \A d \in Clients : d # c => client'[d] = client[d]
    BY <1>5, <2>5
  <2> HIDE DEF q
  <2>10. /\ req[r].netloc.ctx = "default" /\ client[c].netloc.ctx = "default"
         /\ client[c].netloc \in NetLocs /\ (client[c].pool => c \in busy[client[c].netloc])
         /\ req[r].streamer \in [DOMAIN Form[r] -> 0 .. MaxClients] /\ req[r].inputs \subseteq Files(r)
    BY <2>1 DEF Fit, NoCerts, Serving, Feeds
  <2>11. ~away /\ client[c].pool => c \in busy[req[r].netloc]
    <3>1. req[r].netloc \in NetLocs
      BY <1>5 DEF Request
    <3>2. req[r].netloc.host = client[c].netloc.host => req[r].netloc = client[c].netloc
      BY <2>10, <3>1 DEF NetLocs
    <3> QED
      BY <2>10, <3>2
  <2>12. \E K \in SUBSET Frame :
           /\ Frames(stack') = K \cup Frames(Tail(stack))
           /\ \A k \in K : k.pc \in {"putback", "weaken", "pool_request", "request"}
           /\ \A k \in K : k.pc \in {"pool_request", "request"} => k.r = r
           /\ \A k \in K : k.pc \in {"putback", "request"} => k.c = c
           /\ \A k \in K : (k.pc = "request" => ~away) /\ (k.pc = "putback" => away)
           /\ \E k \in K : k.pc \in {"putback", "request"}
    <3>1. CASE ~away /\ Goto(<<ClientRequestFrame(c, r)>>)
      <4>1. PICK f \in Frame : f = ClientRequestFrame(c, r)
        BY MadeFrames
      <4>2. f.pc = "request" /\ f.r = r /\ f.c = c
        BY <4>1 DEF ClientRequestFrame
      <4>3. stack' = <<f>> \o Tail(stack)
        BY <3>1, <4>1 DEF Goto
      <4>4. <<f>> \in Seq(Frame) /\ Frames(<<f>>) = {f}
        BY FewFrames
      <4>5. Frames(stack') = {f} \cup Frames(Tail(stack))
        BY <1>2, <4>3, <4>4, FramesTogether
      <4> HIDE DEF away
      <4> WITNESS {f} \in SUBSET Frame
      <4> QED
        BY <3>1, <4>2, <4>5
    <3>2. CASE away /\ Goto(<<AtClient("putback", c), AtClient("weaken", c), PoolRequestFrame(r)>>)
      <4>1. PICK f \in Frame : f = AtClient("putback", c)
        BY MadeFrames
      <4>2. PICK g \in Frame : g = AtClient("weaken", c)
        BY MadeFrames
      <4>3. PICK h \in Frame : h = PoolRequestFrame(r)
        BY MadeFrames
      <4>4. f.pc = "putback" /\ f.c = c /\ g.pc = "weaken" /\ h.pc = "pool_request" /\ h.r = r
        BY <4>1, <4>2, <4>3 DEF AtClient, PoolRequestFrame
      <4>5. stack' = <<f, g, h>> \o Tail(stack)
        BY <3>2, <4>1, <4>2, <4>3 DEF Goto
      <4>6. Frames(stack') = {f, g, h} \cup Frames(Tail(stack))
        <5> DEFINE a == <<f, g, h>>
        <5>1. a \in Seq(Frame) /\ Frames(a) = {f, g, h} /\ stack' = a \o Tail(stack)
          BY <4>5, ThreeFrames, Zenon
        <5> HIDE DEF a
        <5> QED
          BY <1>2, <5>1, FramesTogether
      <4> HIDE DEF away
      <4> WITNESS {f, g, h} \in SUBSET Frame
      <4> QED
        BY <3>2, <4>4, <4>6
    <3> QED
      BY <2>6, <3>1, <3>2
  <2>13. PICK K \in SUBSET Frame :
           /\ Frames(stack') = K \cup Frames(Tail(stack))
           /\ \A k \in K : k.pc \in {"putback", "weaken", "pool_request", "request"}
           /\ \A k \in K : k.pc \in {"pool_request", "request"} => k.r = r
           /\ \A k \in K : k.pc \in {"putback", "request"} => k.c = c
           /\ \A k \in K : (k.pc = "request" => ~away) /\ (k.pc = "putback" => away)
           /\ \E k \in K : k.pc \in {"putback", "request"}
    BY <2>12
  <2>14. away => client[c].pool
    OBVIOUS
  <2> HIDE DEF away
  <2>15. ClientFits(c)'
    BY <1>7, <2>4, <2>9, <2>10 DEF ClientFits
  <2>16. RequestFits(r)'
    BY <2>4, <2>7, <2>8, <2>10 DEF RequestFits
  <2>17. Taken(c)'
    BY <2>13 DEF Taken, Claimed
  <2>18. client'[c].pool = client[c].pool /\ client'[c].netloc = client[c].netloc
    BY <1>7, <2>9
  <2>19. \A m \in NetLocs : alive /\ c \in free[m] => client'[c].netloc = m
    BY <2>18 DEF Fit, Kinds
  <2>20. \A d \in Clients : d # c => Fixed(d)
    BY <2>9 DEF Fixed
  <2>21. \A y \in Requests : y # r => Steady(y)
    BY <2>8 DEF Steady
  <2>22. \A f \in Frames(stack') : f.pc \notin Dying \cup {"redirected"}
    BY <1>3, <2>13 DEF Dying
  <2>23. \A f \in Frames(stack') : f.pc \in {"request", "pool_request"} => f.r = r
    BY <1>3, <2>13
  <2>24. \A f \in Frames(stack') : f.pc \in {"request", "putback"} =>
             \/ f.pc = "request" /\ (client'[f.c].pool => f.c \in busy[req'[f.r].netloc])
             \/ f.pc = "putback" /\ client'[f.c].pool /\ client'[f.c].netloc \in NetLocs
                /\ f.c \in busy[client'[f.c].netloc]
    <3> SUFFICES ASSUME NEW f \in Frames(stack'), f.pc \in {"request", "putback"}
                 PROVE  \/ f.pc = "request" /\ (client'[f.c].pool => f.c \in busy[req'[f.r].netloc])
                        \/ f.pc = "putback" /\ client'[f.c].pool /\ client'[f.c].netloc \in NetLocs
                           /\ f.c \in busy[client'[f.c].netloc]
      OBVIOUS
    <3>1. f \in K /\ f.c = c
      BY <1>3, <2>13
    <3>2. CASE f.pc = "request"
      <4>1. f.r = r /\ ~away
        BY <2>13, <3>1, <3>2
      <4> QED
        BY <2>7, <2>8, <2>11, <2>18, <3>1, <3>2, <4>1
    <3>3. CASE f.pc = "putback"
      BY <2>10, <2>13, <2>14, <2>18, <3>1, <3>3
    <3> QED
      BY <3>2, <3>3
  <2>25. \A f \in Frames(stack) : f.pc \in {"request", "putback", "redirected"} => f.c = c
    BY <1>2, <1>3, <1>4
  <2>26. Fit'
    BY <1>1, <1>6, <2>2, <2>3, <2>15, <2>16, <2>17, <2>18, <2>19, <2>20, <2>21, <2>22, <2>23, <2>24, <2>25, FitOne
  <2> QED
    BY <1>1, <2>26
<1> QED
  BY <1>8, <1>9

-----------------------------------------------------------------------------
(* A client takes a request *)

\* What the timer leaves of a request.
LEMMA TimedKeeps ==
  ASSUME NEW q \in Request, NEW r
  PROVE  LET a == Timed(q, r)
         IN  /\ a.netloc = q.netloc /\ a.inputs = q.inputs /\ a.streamer = q.streamer
             /\ a.transferred = q.transferred /\ a.client = q.client
  BY DEF Timed, Request

\* Client::request(): the client has the request and is at the first file of its form.
LEMMA ClientRequestFits ==
  ASSUME Live, Safe', Fit, Careful, ClientRequest
  PROVE  Fit' /\ fault' = fault
<1>1. At("request") /\ UNCHANGED <<alive, free, busy, queue>> /\ Safe
  BY ClientRequestGives DEF Live
<1>2. /\ stack \in Seq(Frame) /\ stack # <<>> /\ Top = Head(stack) /\ Top \in Frame /\ Top.pc = "request"
      /\ Top \in Frames(stack) /\ Frames(stack) = {Top} \cup Frames(Tail(stack)) /\ Tail(stack) \in Seq(Frame)
      /\ \A g \in Frames(Tail(stack)) : g.pc \notin {"putback", "request"}
  BY <1>1, OnTop
<1>3. Top.r \in Requests /\ Top.c \in Clients
  BY <1>2, FrameFields
<1>4. PICK r \in Requests : r = Top.r
  BY <1>3
<1>5. PICK c \in Clients : c = Top.c
  BY <1>3
<1>a. "proxy" \notin Failures
  BY DEF Careful, Orderly
<1>6. Normal
  BY <1>1, AtTop DEF Dying
<1>7. Placing(r) /\ Lives(r, "placing")
  <2>1. Placing(r)
    BY <1>2, <1>4 DEF Placing
  <2> QED
    BY <2>1, LivesWhere DEF Live
<1>8. /\ client[c].request = 0 /\ req[r].client = 0 /\ ~Queued(r)
      /\ \A d \in Clients : client[d].request # r
  BY <1>2, <1>4, <1>5, <1>7 DEF Lives, Live, Sound, Aside
<1>b. GivesRequest(c, r)
  BY <1>a, <1>4, <1>5, <1>8, ClientRequestGives
<1>9. /\ client \in [Clients -> Client] /\ req \in [Requests -> Request]
      /\ client[c] \in Client /\ req[r] \in Request /\ c \in 0 .. MaxClients /\ c # 0 /\ r # 0
      /\ r \in 0 .. MaxRequests /\ req[r].netloc \in NetLocs
  <2>1. client \in [Clients -> Client] /\ req \in [Requests -> Request]
    BY <1>1 DEF Safe, TypeOK
  <2>2. c \in 0 .. MaxClients /\ c # 0 /\ r # 0 /\ r \in 0 .. MaxRequests
    BY BoundsAssumption DEF Clients, Requests
  <2>3. req[r].netloc \in NetLocs
    BY <2>1 DEF Request
  <2> QED
    BY <2>1, <2>2, <2>3
<1>10. /\ req[r].inputs = Files(r) /\ ~req[r].transferred /\ client[c].field = 0
       /\ req[r].streamer \in [DOMAIN Form[r] -> 0 .. MaxClients]
       /\ req[r].netloc.ctx = "default" /\ (client[c].pool => c \in busy[req[r].netloc])
       /\ client[c].redirectCanceled => client[c].inRedirect
       /\ client[c].inRedirect => \E f \in Frames(stack) : f.pc = "redirected" /\ f.c = c
  <2>1. req[r].inputs = Files(r) /\ ~req[r].transferred /\ client[c].field = 0
        /\ req[r].streamer \in [DOMAIN Form[r] -> 0 .. MaxClients]
    BY <1>7, <1>8 DEF Fit, Feeds
  <2>2. req[r].netloc.ctx = "default" /\ (client[c].pool => c \in busy[req[r].netloc])
    BY <1>2, <1>4, <1>5 DEF Fit, NoCerts, Handed
  <2>3. /\ client[c].redirectCanceled => client[c].inRedirect
        /\ client[c].inRedirect => \E f \in Frames(stack) : f.pc = "redirected" /\ f.c = c
    BY DEF Fit, Turning
  <2> QED
    BY <2>1, <2>2, <2>3
<1>11. ASSUME NEW i \in Files(r) PROVE req[r].streamer[i] = 0
  <2>1. req[r].streamer[i] \in 0 .. MaxClients /\ MaxClients \in Nat
    BY <1>10, FieldBound, BoundsAssumption
  <2>2. req[r].streamer[i] # 0 => req[r].streamer[i] \in Clients /\ client[req[r].streamer[i]].request = r
    BY <2>1 DEF Fit, Feeds, Clients
  <2> QED
    BY <1>8, <2>2
<1> DEFINE file == FileFrom(r, 1)
           a == [req[r] EXCEPT !.client = c]
           b == IF r \in Chunked THEN a ELSE Started(a, file, c)
           t == Timed(b, r)
           n == req[r].netloc
           again == client[c].conn = "connected" /\ client[c].netloc = n /\ r \notin Closing
           cn == IF again THEN client[c].conn ELSE "connecting"
           fi == IF Form[r] = <<>> THEN client[c].field ELSE file
           ow == Append(IF again THEN client[c].owed ELSE <<>>, r)
           cl == [client[c] EXCEPT !.netloc = n, !.conn = cn, !.weak = FALSE, !.request = r, !.expects = TRUE,
                                   !.field = fi, !.owed = ow]
<1>12. file \in Files(r) \cup {0} /\ file \in Nat /\ (Form[r] = <<>> => file = 0)
  <2>1. 1 \in Nat
    OBVIOUS
  <2>2. file \in Files(r) \cup {0}
    BY <2>1, FilesNumbered
  <2> HIDE DEF file
  <2>3. file \in Nat
    BY <2>2, FieldBound
  <2>4. Form[r] = <<>> => Files(r) = {}
    BY DEF Files
  <2> QED
    BY <2>2, <2>3, <2>4
<1>13. fi = file /\ (r \in Chunked => file = 0)
  BY <1>10, <1>12 DEF Careful
<1>14. /\ client' = [client EXCEPT ![c] = cl]
       /\ Goto(<<>>)
       /\ fault' = IF file \in req[r].inputs \cup {0} THEN fault ELSE "form: no input"
  BY <1>b, Zenon DEF GivesRequest
<1>15. req' = [req EXCEPT ![r] = t]
  BY <1>b, Zenon DEF GivesRequest
<1>16. fault' = fault
  BY <1>10, <1>12, <1>14
<1> HIDE DEF file, fi, ow, cn, n
<1>17. /\ cl.netloc = n /\ cl.request = r /\ cl.pool = client[c].pool /\ cl.field = fi
       /\ cl.inRedirect = client[c].inRedirect /\ cl.redirectCanceled = client[c].redirectCanceled
  BY <1>9 DEF Client
<1> HIDE DEF cl
<1>18. client'[c] = cl /\ \A d \in Clients : d # c => client'[d] = client[d]
  BY <1>9, <1>14
<1>19. /\ a \in Request /\ a.netloc = req[r].netloc /\ a.client = c /\ a.inputs = req[r].inputs
       /\ a.streamer = req[r].streamer /\ a.transferred = req[r].transferred
  BY <1>9 DEF Request
<1> HIDE DEF a
<1>20. /\ b \in Request /\ b.netloc = a.netloc /\ b.client = a.client /\ b.inputs \subseteq a.inputs
       /\ b.streamer = IF file = 0 THEN a.streamer ELSE [a.streamer EXCEPT ![file] = c]
       /\ file # 0 => b.transferred = a.transferred
  <2>1. Started(a, file, c) \in Request
    BY <1>9, <1>12, <1>19, RequestFields
  <2>2. CASE r \in Chunked
    BY <1>13, <1>19, <2>2
  <2>3. CASE r \notin Chunked
    <3> DEFINE x == Started(a, file, c)
    <3>1. /\ x.netloc = a.netloc /\ x.client = a.client
          /\ x.transferred = (a.transferred \/ file = 0) /\ x.inputs \subseteq a.inputs
          /\ x.streamer = IF file = 0 THEN a.streamer ELSE [a.streamer EXCEPT ![file] = c]
      BY <1>12, <1>19, StartedFields
    <3>2. b = x /\ x \in Request
      BY <2>1, <2>3
    <3> HIDE DEF x, b
    <3>3. file # 0 => b.transferred = a.transferred
      <4>1. a.transferred \in BOOLEAN
        BY <1>19 DEF Request
      <4> QED
        BY <3>1, <3>2, <4>1
    <3> QED
      BY <3>1, <3>2, <3>3
  <2> QED
    BY <2>2, <2>3
<1> HIDE DEF b
<1>21. /\ t.netloc = b.netloc /\ t.inputs = b.inputs /\ t.streamer = b.streamer
       /\ t.transferred = b.transferred /\ t.client = b.client
  BY <1>20, TimedKeeps
<1>22. req'[r] = t /\ \A y \in Requests : y # r => req'[y] = req[y]
  BY <1>9, <1>15
<1> HIDE DEF t
<1>23. /\ req'[r].netloc = n /\ req'[r].client = c /\ req'[r].inputs \subseteq Files(r)
       /\ req'[r].streamer \in [DOMAIN Form[r] -> 0 .. MaxClients]
       /\ \A j \in Files(r) : req'[r].streamer[j] = IF j = file THEN c ELSE 0
       /\ file # 0 => ~req'[r].transferred
  <2>1. file # 0 => file \in DOMAIN Form[r]
    BY <1>12, FieldBound
  <2>2. req'[r].streamer = IF file = 0 THEN req[r].streamer ELSE [req[r].streamer EXCEPT ![file] = c]
    BY <1>19, <1>20, <1>21, <1>22
  <2>3. req'[r].streamer \in [DOMAIN Form[r] -> 0 .. MaxClients]
    BY <1>9, <1>10, <2>1, <2>2
  <2>4. ASSUME NEW j \in Files(r) PROVE req'[r].streamer[j] = IF j = file THEN c ELSE 0
    <3>1. j \in DOMAIN Form[r] /\ j # 0
      BY FieldBound
    <3> QED
      BY <1>10, <1>11, <2>1, <2>2, <3>1
  <2> QED
    BY <1>10, <1>19, <1>20, <1>21, <1>22, <2>3, <2>4 DEF n
<1>24. stack' = Tail(stack)
  BY <1>1, <1>14, Returns
<1>25. /\ \A f \in Frames(stack') : f \in Frames(stack) /\ f.pc \notin {"request", "putback"}
       /\ \A f \in Frames(stack) : f.pc \in {"request", "putback", "redirected"} => f \in Frames(stack') \/ f.c = c
       /\ \A f \in Frames(stack) : f.pc = "redirected" => f \in Frames(stack')
  BY <1>2, <1>5, <1>24
<1>26. ~Placing(r)'
  <2>1. \A f \in Frames(stack') : f.pc = "pool_request" => f.r # r
    BY <1>2, <1>4, <1>25 DEF Live, Sound, Aside
  <2> QED
    BY <1>25, <2>1 DEF Placing
<1>27. ClientFits(c)'
  <2>1. n.ctx = "default" /\ n \in NetLocs /\ (client[c].pool => c \in busy[n])
    BY <1>9, <1>10 DEF n
  <2>2. client'[c].inRedirect => \E f \in Frames(stack') : f.pc = "redirected" /\ f.c = c
    BY <1>10, <1>17, <1>18, <1>25
  <2>3. file # 0 => file \in Files(r) /\ req'[r].streamer[file] = c
    BY <1>12, <1>23
  <2> QED
    BY <1>1, <1>9, <1>10, <1>13, <1>17, <1>18, <1>23, <2>1, <2>2, <2>3 DEF ClientFits
<1>28. RequestFits(r)'
  <2>1. \A j \in Files(r) : req'[r].streamer[j] # 0 => req'[r].streamer[j] = c /\ j = file /\ file # 0
    <3> TAKE j \in Files(r)
    <3>1. j # 0
      BY FieldBound
    <3> QED
      BY <1>23, <3>1
  <2>2. \A j \in Files(r) : req'[r].streamer[j] # 0 =>
           /\ client'[req'[r].streamer[j]].request = r /\ client'[req'[r].streamer[j]].field = j
           /\ ~req'[r].transferred
    BY <1>13, <1>17, <1>18, <1>23, <2>1
  <2>3. req'[r].netloc.ctx = "default"
    BY <1>10, <1>23 DEF n
  <2> QED
    BY <1>9, <1>23, <1>26, <2>2, <2>3 DEF RequestFits
<1>29. Taken(c)'
  BY <1>9, <1>17, <1>18 DEF Taken
<1>30. ASSUME NEW m \in NetLocs, alive, c \in free[m] PROVE FALSE
  <2>1. c \in busy[req[r].netloc]
    BY <1>10, <1>30 DEF Fit, Pooled
  <2> QED
    BY <1>9, <1>30, <2>1 DEF Live, Slots
<1>31. \A d \in Clients : d # c => Fixed(d)
  BY <1>18 DEF Fixed
<1>32. \A y \in Requests : y # r => Steady(y) /\ client[c].request # y
  <2>1. \A y \in Requests : y # 0
    BY DEF Requests
  <2> QED
    BY <1>8, <1>22, <2>1 DEF Steady
<1>33. \A f \in Frames(stack') : f.pc \notin Dying
  BY <1>6, <1>25 DEF Normal
<1>34. client'[c].pool = client[c].pool
  BY <1>17, <1>18
<1>35. Fit'
  BY <1>1, <1>6, <1>8, <1>25, <1>27, <1>28, <1>29, <1>30, <1>31, <1>32, <1>33, <1>34, FitOne
<1> QED
  BY <1>16, <1>35

-----------------------------------------------------------------------------
(* The lists of the pool *)

\* A step makes client c a new one, or leaves it as it is but for its pool.
Renewed(c) == client[c].request = 0 /\ client'[c] = NewClient
Spared(c) ==
  /\ client'[c].netloc = client[c].netloc /\ client'[c].request = client[c].request
  /\ client'[c].field = client[c].field /\ (client'[c].pool => client[c].pool)
  /\ client'[c].inRedirect = client[c].inRedirect
  /\ client'[c].redirectCanceled = client[c].redirectCanceled

\* And request r but for whether the pool has it.
Held(r) ==
  /\ req'[r].netloc = req[r].netloc /\ req'[r].inputs = req[r].inputs /\ req'[r].client = req[r].client
  /\ req'[r].streamer = req[r].streamer /\ req'[r].transferred = req[r].transferred

\* A step of the pool on its lists: the clients that have a request stay where they are.
LEMMA FitLists ==
  ASSUME Live, Safe', Fit,
         \A c \in Clients : Spared(c) \/ Renewed(c), \A r \in Requests : Held(r),
         Pooled', Expects', Handed', Kinds', Iterators',
         \A c \in Clients : client[c].request # 0 /\ client'[c].pool =>
             \A n \in NetLocs : c \in busy[n] => c \in busy'[n],
         \A r \in Requests : Placing(r)' \/ (Queued(r)' /\ req'[r].pool) => req[r].inputs = Files(r),
         \A f \in Frames(stack') : f.pc = "redirected" => f \in Frames(stack),
         \A f \in Frames(stack) : f.pc = "redirected" => f \in Frames(stack')
  PROVE  Fit'
<1>1. client \in [Clients -> Client] /\ req \in [Requests -> Request]
  BY DEF Live, Safe, TypeOK
<1>2. ASSUME NEW c \in Clients, client[c].request # 0 PROVE client[c].request \in Requests
  BY <1>1, <1>2 DEF Client, Requests
<1>3. NewClient.netloc.ctx = "default" /\ NewClient.request = 0 /\ NewClient.field = 0
      /\ ~NewClient.inRedirect /\ ~NewClient.redirectCanceled
  BY DEF NewClient, NoLoc
<1>4. NoCerts'
  <2>1. \A r \in Requests : req'[r].netloc.ctx = "default"
    BY DEF Fit, NoCerts, Held
  <2>2. \A c \in Clients : client'[c].netloc.ctx = "default"
    BY <1>3 DEF Fit, NoCerts, Spared, Renewed
  <2>3. \A f \in Frames(stack') : f.pc = "redirected" => f.ctx = "default"
    BY DEF Fit, NoCerts
  <2> QED
    BY <2>1, <2>2, <2>3 DEF NoCerts
<1>5. Serving'
  <2> SUFFICES ASSUME NEW c \in Clients, client'[c].request # 0
               PROVE  /\ client'[c].netloc \in NetLocs
                      /\ client'[c].pool => c \in busy'[client'[c].netloc]
                      /\ ~client'[c].inRedirect \/ client'[c].redirectCanceled =>
                             req'[client'[c].request].netloc = client'[c].netloc
    BY DEF Serving
  <2>1. Spared(c)
    BY <1>3 DEF Renewed
  <2>2. client[c].request # 0 /\ client[c].request \in Requests
    BY <1>2, <2>1 DEF Spared
  <2>3. req'[client[c].request].netloc = req[client[c].request].netloc
    BY <2>2 DEF Held
  <2>4. /\ client[c].netloc \in NetLocs
        /\ client[c].pool => c \in busy[client[c].netloc]
        /\ ~client[c].inRedirect \/ client[c].redirectCanceled => req[client[c].request].netloc = client[c].netloc
    BY <2>2 DEF Fit, Serving
  <2>5. client'[c].pool => c \in busy'[client[c].netloc]
    BY <2>1, <2>2, <2>4 DEF Spared
  <2> QED
    BY <2>1, <2>3, <2>4, <2>5 DEF Spared
<1>6. Turning'
  <2> SUFFICES ASSUME NEW c \in Clients
               PROVE  /\ client'[c].redirectCanceled => client'[c].inRedirect
                      /\ client'[c].inRedirect => \E f \in Frames(stack') : f.pc = "redirected" /\ f.c = c
    BY DEF Turning
  <2>1. Spared(c) \/ Renewed(c)
    OBVIOUS
  <2> QED
    BY <1>3, <2>1 DEF Fit, Turning, Spared, Renewed
<1>7. Feeds'
  <2>1. ASSUME NEW c \in Clients, client'[c].field # 0
        PROVE  /\ client'[c].request # 0 /\ client'[c].field \in Files(client'[c].request)
               /\ req'[client'[c].request].streamer[client'[c].field] = c
    <3>1. Spared(c)
      BY <1>3, <2>1 DEF Renewed
    <3>2. client[c].field # 0
      BY <2>1, <3>1 DEF Spared
    <3>3. client[c].request # 0 /\ client[c].field \in Files(client[c].request)
          /\ req[client[c].request].streamer[client[c].field] = c
      BY <3>2 DEF Fit, Feeds
    <3>4. req'[client[c].request].streamer = req[client[c].request].streamer
      BY <1>2, <3>3 DEF Held
    <3> QED
      BY <3>1, <3>3, <3>4 DEF Spared
  <2>2. ASSUME NEW r \in Requests, NEW i \in Files(r), req'[r].streamer[i] # 0
        PROVE  /\ client'[req'[r].streamer[i]].request = r /\ client'[req'[r].streamer[i]].field = i
               /\ ~req'[r].transferred
    <3>1. Held(r) /\ r # 0
      BY DEF Requests
    <3>2. req'[r].streamer[i] = req[r].streamer[i]
      BY <3>1 DEF Held
    <3>3. client[req[r].streamer[i]].request = r /\ client[req[r].streamer[i]].field = i /\ ~req[r].transferred
      BY <2>2, <3>2 DEF Fit, Feeds
    <3>4. req[r].streamer[i] \in Clients
      <4>1. req[r].streamer \in [DOMAIN Form[r] -> 0 .. MaxClients] /\ i \in DOMAIN Form[r]
        BY DEF Fit, Feeds, Files
      <4>2. MaxClients \in Nat
        BY BoundsAssumption
      <4> QED
        BY <2>2, <3>2, <4>1, <4>2 DEF Clients
    <3>5. Spared(req[r].streamer[i])
      BY <3>1, <3>3, <3>4 DEF Renewed
    <3>6. ~req'[r].transferred
      BY <3>1, <3>3 DEF Held
    <3> QED
      BY <3>2, <3>3, <3>5, <3>6 DEF Spared
  <2>3. ASSUME NEW r \in Requests
        PROVE  /\ req'[r].streamer \in [DOMAIN Form[r] -> 0 .. MaxClients]
               /\ req'[r].inputs \subseteq Files(r)
               /\ Placing(r)' \/ (Queued(r)' /\ req'[r].pool) => req'[r].inputs = Files(r)
               /\ req'[r].client = 0 => ~req'[r].transferred
    <3>1. Held(r)
      OBVIOUS
    <3>2. /\ req[r].streamer \in [DOMAIN Form[r] -> 0 .. MaxClients]
          /\ req[r].inputs \subseteq Files(r)
          /\ req[r].client = 0 => ~req[r].transferred
      BY DEF Fit, Feeds
    <3> QED
      BY <3>1, <3>2 DEF Held
  <2>4. RedirectLimit = 0 => \A f \in Frames(stack') : f.pc # "redirected"
    BY DEF Fit, Feeds
  <2> QED
    BY <2>1, <2>2, <2>3, <2>4 DEF Feeds
<1> QED
  BY <1>4, <1>5, <1>6, <1>7 DEF Fit

\* putback(): the client goes from busy to free, or on to the next request of its list.
LEMMA PutbackFits ==
  ASSUME Live, Safe', Fit, Putback
  PROVE  Fit' /\ fault' = fault
<1>1. At("putback") /\ Safe
  BY DEF Putback, Live
<1>2. /\ stack \in Seq(Frame) /\ Top \in Frame /\ Top.pc = "putback"
      /\ Top \in Frames(stack) /\ Frames(stack) = {Top} \cup Frames(Tail(stack)) /\ Tail(stack) \in Seq(Frame)
      /\ \A g \in Frames(Tail(stack)) : g.pc \notin {"putback", "request"}
  BY <1>1, OnTop
<1>3. Top.c \in Clients
  BY <1>2, FrameFields
<1>4. PICK c \in Clients : c = Top.c
  BY <1>3
<1>5. PICK n \in NetLocs : n = client[c].netloc
  BY <1>2, <1>4 DEF Fit, Handed
<1>6. c \in busy[n] /\ client[c].pool /\ client[c].request = 0 /\ n \in lists
  <2>1. c \in busy[n] /\ client[c].pool
    BY <1>2, <1>4, <1>5 DEF Fit, Handed
  <2>2. client[c].request = 0
    BY <1>1, <1>2, <1>4 DEF Safe, Coherent, Owned
  <2> QED
    BY <2>1, <2>2 DEF Live, ListsCounted
<1>7. Normal /\ \A f \in Frames(Tail(stack)) : f.pc \notin Dying
  <2>1. Normal
    BY <1>1, AtTop DEF Dying
  <2> QED
    BY <1>2, <2>1 DEF Normal
<1>8. /\ queue \in [NetLocs -> Seq(Requests)] /\ free \in [NetLocs -> SUBSET Clients]
      /\ busy \in [NetLocs -> SUBSET Clients]
  BY <1>1 DEF Safe, TypeOK
<1>9. ASSUME NEW d \in Clients, d # c PROVE Taken(d) <=> client[d].request # 0
  BY <1>2, <1>4, <1>9 DEF Taken, Claimed
<1>10. ASSUME UNCHANGED client PROVE \A d \in Clients : Spared(d) \/ Renewed(d)
  BY <1>10 DEF Spared
<1>11. ASSUME UNCHANGED req PROVE \A r \in Requests : Held(r)
  BY <1>11 DEF Held
<1>12. CASE /\ queue[n] = <<>> /\ busy' = [busy EXCEPT ![n] = @ \ {c}] /\ free' = [free EXCEPT ![n] = @ \cup {c}]
            /\ Goto(<<>>) /\ UNCHANGED <<alive, queue, client, req, fault>>
  <2>1. stack' = Tail(stack)
    BY <1>1, <1>12, Returns
  <2>2. Frames(stack') = Frames(Tail(stack)) /\ \A f \in Frames(stack') : f \in Frames(stack)
    BY <1>2, <2>1
  <2>3. /\ \A m \in NetLocs : m # n => busy'[m] = busy[m] /\ free'[m] = free[m]
        /\ busy'[n] = busy[n] \ {c} /\ free'[n] = free[n] \cup {c}
    BY <1>8, <1>12
  <2>4. Pooled' /\ Expects'
    BY <1>12 DEF Fit, Pooled, Expects
  <2>5. Handed'
    BY <1>2, <2>2 DEF Handed
  <2>6. Kinds'
    <3>1. ASSUME alive', NEW m \in NetLocs, NEW d \in free'[m] PROVE client'[d].netloc = m
      BY <1>5, <1>12, <2>3, <3>1 DEF Fit, Kinds
    <3>2. ASSUME alive', NEW m \in NetLocs, NEW d \in busy'[m] PROVE Taken(d)'
      <4>1. d \in busy[m] /\ d # c /\ d \in Clients
        BY <1>6, <1>8, <2>3 DEF Live, Slots
      <4>2. Taken(d)
        BY <1>12, <3>2, <4>1 DEF Fit, Kinds
      <4> QED
        BY <1>9, <1>12, <4>1, <4>2 DEF Taken
    <3> QED
      BY <3>1, <3>2 DEF Kinds
  <2>7. Iterators'
    BY <1>7, <2>2 DEF Iterators, Dying
  <2>8. \A d \in Clients : client[d].request # 0 => \A m \in NetLocs : d \in busy[m] => d \in busy'[m]
    BY <1>6, <2>3
  <2>9. ASSUME NEW r \in Requests PROVE Placing(r)' \/ (Queued(r)' /\ req'[r].pool) => req[r].inputs = Files(r)
    <3>1. Placing(r)' => Placing(r)
      BY <2>2 DEF Placing
    <3>2. Queued(r)' /\ req'[r].pool => Queued(r) /\ req[r].pool
      BY <1>12 DEF Queued
    <3> QED
      BY <3>1, <3>2 DEF Fit, Feeds
  <2>10. \A f \in Frames(stack) : f.pc = "redirected" => f \in Frames(stack')
    BY <1>2, <2>2
  <2>11. Fit'
    BY <1>10, <1>11, <1>12, <2>2, <2>4, <2>5, <2>6, <2>7, <2>8, <2>9, <2>10, FitLists
  <2> QED
    BY <1>12, <2>11
<1>13. CASE /\ queue[n] # <<>> /\ queue' = [queue EXCEPT ![n] = Tail(@)]
            /\ Goto(<<ClientRequestFrame(c, Head(queue[n]))>>)
            /\ UNCHANGED <<alive, free, busy, client, req, fault>>
  <2> DEFINE q == queue[n]
  <2>1. q \in Seq(Requests) /\ q # <<>> /\ \A i, j \in 1 .. Len(q) : q[i] = q[j] => i = j
    BY <1>8, <1>13 DEF Live, Sound, Apart
  <2> HIDE DEF q
  <2>2. Head(q) \in Requests /\ Head(q) \in Range(q) /\ Range(Tail(q)) = Range(q) \ {Head(q)}
    BY <2>1, FirstLeaves
  <2>3. PICK r \in Requests : r = Head(q)
    BY <2>2
  <2>4. r \in Range(queue[n]) /\ Queued(r) /\ queue'[n] = Tail(q)
    BY <1>8, <1>13, <2>2, <2>3 DEF Queued, q
  <2>5. \A m \in NetLocs : Range(queue'[m]) \subseteq Range(queue[m])
    BY <1>8, <1>13, <2>2, <2>4 DEF q
  <2>6. req[r].pool /\ req[r].netloc = n /\ req[r].inputs = Files(r)
    <3>1. req[r].pool
      BY <1>7, <2>4 DEF Live, Sound, Ghosts, Normal, Dying
    <3> QED
      BY <2>4, <3>1 DEF Fit, Expects, Feeds
  <2>7. PICK f \in Frame : f = ClientRequestFrame(c, r)
    BY MadeFrames
  <2>8. f.pc = "request" /\ f.r = r /\ f.c = c
    BY <2>7 DEF ClientRequestFrame
  <2>9. Frames(stack') = {f} \cup Frames(Tail(stack))
    <3>1. stack' = <<f>> \o Tail(stack)
      BY <1>13, <2>3, <2>7 DEF Goto, q
    <3>2. <<f>> \in Seq(Frame) /\ Frames(<<f>>) = {f}
      BY FewFrames
    <3> QED
      BY <1>2, <3>1, <3>2, FramesTogether
  <2>10. Pooled'
    BY <1>13 DEF Fit, Pooled
  <2>11. Expects'
    BY <1>13, <2>5 DEF Fit, Expects
  <2>12. Handed'
    BY <1>2, <1>6, <1>13, <2>6, <2>8, <2>9 DEF Handed
  <2>13. Kinds'
    <3>1. ASSUME alive', NEW m \in NetLocs, NEW d \in free'[m] PROVE client'[d].netloc = m
      BY <1>13, <3>1 DEF Fit, Kinds
    <3>2. ASSUME alive', NEW m \in NetLocs, NEW d \in busy'[m] PROVE Taken(d)'
      <4>1. d \in Clients /\ Taken(d)
        BY <1>8, <1>13, <3>2 DEF Fit, Kinds
      <4>2. CASE d = c
        BY <2>8, <2>9, <4>2 DEF Taken, Claimed
      <4>3. CASE d # c
        BY <1>9, <1>13, <4>1, <4>3 DEF Taken
      <4> QED
        BY <4>2, <4>3
    <3> QED
      BY <3>1, <3>2 DEF Kinds
  <2>14. Iterators'
    BY <1>7, <2>8, <2>9 DEF Iterators, Dying
  <2>15. ASSUME NEW x \in Requests PROVE Placing(x)' \/ (Queued(x)' /\ req'[x].pool) => req[x].inputs = Files(x)
    <3>1. Placing(x)' => Placing(x) \/ x = r
      BY <1>2, <2>8, <2>9 DEF Placing
    <3>2. Queued(x)' /\ req'[x].pool => Queued(x) /\ req[x].pool
      BY <1>13, <2>5 DEF Queued
    <3> QED
      BY <2>6, <3>1, <3>2 DEF Fit, Feeds
  <2>16. /\ \A g \in Frames(stack') : g.pc = "redirected" => g \in Frames(stack)
         /\ \A g \in Frames(stack) : g.pc = "redirected" => g \in Frames(stack')
    BY <1>2, <2>8, <2>9
  <2>17. Fit'
    BY <1>10, <1>11, <1>13, <2>10, <2>11, <2>12, <2>13, <2>14, <2>15, <2>16, FitLists
  <2> QED
    BY <1>13, <2>17
<1>14. \/ /\ queue[n] = <<>> /\ busy' = [busy EXCEPT ![n] = @ \ {c}] /\ free' = [free EXCEPT ![n] = @ \cup {c}]
          /\ Goto(<<>>) /\ UNCHANGED <<alive, queue, client, req, fault>>
       \/ /\ queue[n] # <<>> /\ queue' = [queue EXCEPT ![n] = Tail(@)]
          /\ Goto(<<ClientRequestFrame(c, Head(queue[n]))>>)
          /\ UNCHANGED <<alive, free, busy, client, req, fault>>
  BY <1>4, <1>5, <1>6, Zenon DEF Putback, pool
<1> QED
  BY <1>12, <1>13, <1>14

\* check_inactivity(): the clients it drops had no request.
LEMMA CheckInactivityFits ==
  ASSUME Live, Safe', Fit, NEW old \in SUBSET UNION {free[n] : n \in NetLocs}, CheckInactivity(old)
  PROVE  Fit' /\ fault' = fault
<1>1. stack = <<>> /\ alive /\ Safe
  BY DEF CheckInactivity, Loop, Live
<1>2. Frames(stack) = {}
  BY <1>1, AtLoop
<1> DEFINE kept == {n \in lists : free[n] \ old # {} \/ busy[n] # {}}
<1>3. /\ free' = [n \in NetLocs |-> free[n] \ old]
      /\ queue' = [n \in NetLocs |-> IF n \in kept THEN queue[n] ELSE <<>>]
      /\ client' = [c \in Clients |-> IF c \in old THEN NewClient ELSE client[c]]
      /\ UNCHANGED <<alive, busy, req, stack, fault>>
  BY DEF CheckInactivity, pool
<1> HIDE DEF kept
<1>4. \A n \in NetLocs : free[n] \subseteq Clients /\ busy[n] \subseteq Clients
  BY DEF Live, ListsCounted
<1>5. ASSUME NEW c \in Clients, c \in old PROVE client[c].request = 0 /\ \A n \in NetLocs : c \notin busy[n]
  <2>1. PICK n \in NetLocs : c \in free[n]
    BY <1>5
  <2> QED
    BY <1>1, <2>1, FreeIsIdle DEF Live, Slots
<1>6. \A c \in Clients : Spared(c) \/ Renewed(c)
  <2> TAKE c \in Clients
  <2>1. CASE c \in old
    BY <1>3, <1>5, <2>1 DEF Renewed
  <2>2. CASE c \notin old
    BY <1>3, <2>2 DEF Spared
  <2> QED
    BY <2>1, <2>2
<1>7. \A r \in Requests : Held(r)
  BY <1>3 DEF Held
<1>8. Pooled'
  <2>1. NewClient.pool
    BY DEF NewClient
  <2> QED
    BY <1>3, <2>1 DEF Fit, Pooled
<1>9. \A n \in NetLocs : Range(queue'[n]) \subseteq Range(queue[n])
  <2> TAKE n \in NetLocs
  <2>1. queue'[n] = queue[n] \/ queue'[n] = <<>>
    BY <1>3
  <2>2. queue'[n] = <<>> => Range(queue'[n]) = {}
    BY DEF Range
  <2> QED
    BY <2>1, <2>2
<1>10. Expects'
  BY <1>3, <1>9 DEF Fit, Expects
<1>11. Handed' /\ Iterators'
  BY <1>2, <1>3 DEF Handed, Iterators
<1>12. Kinds'
  <2>1. ASSUME NEW n \in NetLocs, NEW c \in free'[n] PROVE client'[c].netloc = n
    <3>1. c \in free[n] /\ c \notin old /\ c \in Clients
      BY <1>3, <1>4
    <3> QED
      BY <1>1, <1>3, <3>1 DEF Fit, Kinds
  <2>2. ASSUME NEW n \in NetLocs, NEW c \in busy'[n] PROVE Taken(c)'
    <3>1. c \in busy[n] /\ c \in Clients
      BY <1>3, <1>4
    <3>2. c \notin old /\ Taken(c)
      BY <1>1, <1>5, <3>1 DEF Fit, Kinds
    <3> QED
      BY <1>3, <3>1, <3>2 DEF Taken, Claimed
  <2> QED
    BY <2>1, <2>2 DEF Kinds
<1>13. ASSUME NEW r \in Requests PROVE Placing(r)' \/ (Queued(r)' /\ req'[r].pool) => req[r].inputs = Files(r)
  <2>1. ~Placing(r)'
    BY <1>2, <1>3 DEF Placing
  <2>2. Queued(r)' /\ req'[r].pool => Queued(r) /\ req[r].pool
    BY <1>3, <1>9 DEF Queued
  <2> QED
    BY <2>1, <2>2 DEF Fit, Feeds
<1>14. Fit'
  BY <1>3, <1>6, <1>7, <1>8, <1>10, <1>11, <1>12, <1>13, FitLists
<1> QED
  BY <1>3, <1>14

\* Nothing erases under ~Pool().
LEMMA NoErase ==
  ASSUME Safe, Fit, At("~Pool")
  PROVE  \A f \in Frames(stack) : f.pc # "erase"
<1> SUFFICES ASSUME NEW f \in Frames(stack), f.pc = "erase" PROVE FALSE
  OBVIOUS
<1>1. stack # <<>> /\ Head(stack).pc = "~Pool"
  BY DEF At, Top
<1>2. PICK e \in Frames(stack) : /\ e.pc = "erase"
                                 /\ \/ stack = <<e>>
                                    \/ \E k \in Frames(stack) : k.pc = "callback" /\ stack = <<k, e>>
  BY DEF Fit, Iterators, Erasing
<1>3. CASE stack = <<e>>
  BY <1>1, <1>2, <1>3
<1>4. ASSUME NEW k \in Frames(stack), k.pc = "callback", stack = <<k, e>> PROVE FALSE
  BY <1>1, <1>4
<1> QED
  BY <1>2, <1>3, <1>4

\* The last reference to the pool goes where cancel_request() is not under way.
LEMMA DestroyFits ==
  ASSUME Live, Safe', Fit, Careful, Destroy
  PROVE  Fit' /\ fault' = fault
<1> DEFINE f == [pc |-> "~Pool", todo |-> lists]
<1>1. /\ UserMay("destroy") /\ alive' = FALSE /\ stack' = <<f>> \o stack
      /\ UNCHANGED <<lists, free, busy, queue, client, req, fault>> /\ Safe
  BY DEF Destroy, slots, Live
<1>2. f.pc = "~Pool" /\ f \in Frame
  <2>1. lists \in SUBSET NetLocs
    BY <1>1 DEF Safe, TypeOK
  <2> QED
    BY <2>1 DEF Frame
<1> HIDE DEF f
<1>3. Frames(stack') = {f} \cup Frames(stack)
  <2>1. stack \in Seq(Frame)
    BY <1>1 DEF Safe, TypeOK
  <2>2. <<f>> \in Seq(Frame) /\ Frames(<<f>>) = {f}
    BY <1>2, FewFrames
  <2> QED
    BY <1>1, <2>1, <2>2, FramesTogether
<1>4. \A g \in Frames(stack) : g.pc # "erase"
  <2> SUFFICES ASSUME NEW g \in Frames(stack), g.pc = "erase" PROVE FALSE
    OBVIOUS
  <2>1. PICK e \in Frames(stack) : /\ e.pc = "erase"
                                   /\ \/ stack = <<e>>
                                      \/ \E k \in Frames(stack) : k.ev = "response" /\ stack = <<k, e>>
    BY DEF Fit, Iterators, Erasing
  <2>2. CASE stack = <<e>>
    <3>1. stack # <<>> /\ Head(stack) = e
      BY <2>2
    <3> QED
      BY <1>1, <2>1, <3>1 DEF UserMay, Top
  <2>3. ASSUME NEW k \in Frames(stack), k.ev = "response", stack = <<k, e>> PROVE FALSE
    <3>1. stack # <<>> /\ Head(stack) = k
      BY <2>3
    <3> QED
      BY <1>1, <2>3, <3>1 DEF UserMay, Top, Careful
  <2> QED
    BY <2>1, <2>2, <2>3
<1>5. (\A c \in Clients : Spared(c)) /\ (\A r \in Requests : Held(r))
  BY <1>1 DEF Spared, Held
<1>6. Pooled' /\ Expects' /\ Kinds'
  BY <1>1 DEF Fit, Pooled, Expects, Kinds
<1>7. Handed'
  BY <1>1, <1>2, <1>3 DEF Fit, Handed
<1>8. Iterators'
  BY <1>1, <1>2, <1>3, <1>4 DEF Fit, Iterators
<1>9. ASSUME NEW r \in Requests PROVE Placing(r)' \/ (Queued(r)' /\ req'[r].pool) => req[r].inputs = Files(r)
  <2>1. Placing(r)' => Placing(r)
    BY <1>2, <1>3 DEF Placing
  <2>2. Queued(r)' /\ req'[r].pool => Queued(r) /\ req[r].pool
    BY <1>1 DEF Queued
  <2> QED
    BY <2>1, <2>2 DEF Fit, Feeds
<1>10. Fit'
  BY <1>1, <1>2, <1>3, <1>5, <1>6, <1>7, <1>8, <1>9, FitLists
<1> QED
  BY <1>1, <1>10

\* ~Pool() at one of its lists.
LEMMA DestroyListFits ==
  ASSUME Live, Safe', Fit, DestroyList
  PROVE  Fit' /\ fault' = fault
<1>1. At("~Pool") /\ UNCHANGED <<alive, free, busy, queue, req, fault>> /\ Safe
  BY DEF DestroyList, slots, pool, Live
<1>2. /\ stack \in Seq(Frame) /\ Top \in Frame /\ Top.pc = "~Pool"
      /\ Top \in Frames(stack) /\ Frames(stack) = {Top} \cup Frames(Tail(stack)) /\ Tail(stack) \in Seq(Frame)
      /\ \A g \in Frames(Tail(stack)) : g.pc \notin {"putback", "request"}
  BY <1>1, OnTop
<1>3. ~alive /\ Top.todo \in SUBSET NetLocs
  BY <1>1, <1>2, FrameFields DEF Safe, Coherent, PoolFrames
<1>4. PICK n \in Top.todo :
        /\ client' = [c \in Clients |-> IF c \in busy[n] THEN [client[c] EXCEPT !.pool = FALSE] ELSE client[c]]
        /\ Goto([i \in DOMAIN queue[n] |-> QueuedFrame("abort", n, queue[n][i])]
                \o <<[Top EXCEPT !.todo = @ \ {n}]>>)
  BY DEF DestroyList
<1>5. n \in NetLocs /\ queue \in [NetLocs -> Seq(Requests)] /\ client \in [Clients -> Client]
  BY <1>1, <1>3 DEF Safe, TypeOK
<1> DEFINE a == [i \in DOMAIN queue[n] |-> QueuedFrame("abort", n, queue[n][i])]
           g == [Top EXCEPT !.todo = @ \ {n}]
           u == a \o <<g>>
<1>6. a \in Seq(Frame) /\ \A f \in Frames(a) : f.pc = "abort" /\ f.n = n /\ f.q = queue[n]
  <2>1. a \in Seq(Frame)
    BY <1>5, TellingFrames
  <2>2. queue[n] \in Seq(Requests) /\ DOMAIN queue[n] = 1 .. Len(queue[n]) /\ Len(queue[n]) \in Nat
    BY <1>5
  <2>3. Len(a) = Len(queue[n])
    BY <2>2
  <2>4. \A i \in 1 .. Len(queue[n]) : a[i].pc = "abort" /\ a[i].n = n /\ a[i].q = queue[n]
    BY <2>2 DEF QueuedFrame
  <2> HIDE DEF a
  <2> QED
    BY <2>1, <2>3, <2>4 DEF Frames
<1>7. g \in Frame /\ g.pc = "~Pool"
  <2>1. Top \in [pc : {"~Pool"}, todo : SUBSET NetLocs]
    BY <1>2 DEF Frame
  <2> HIDE DEF Top
  <2>2. g \in [pc : {"~Pool"}, todo : SUBSET NetLocs]
    BY <2>1
  <2> HIDE DEF g
  <2> QED
    BY <2>2 DEF Frame
<1>8. Goto(u)
  BY <1>4
<1> HIDE DEF a, g
<1>9. u \in Seq(Frame) /\ Frames(u) = Frames(a) \cup {g}
  <2> DEFINE v == <<g>>
  <2>1. v \in Seq(Frame) /\ Frames(v) = {g}
    BY <1>7, FewFrames
  <2>2. u = a \o v
    OBVIOUS
  <2> HIDE DEF v, u
  <2> QED
    BY <1>6, <2>1, <2>2, FramesTogether, ConcatProperties
<1> HIDE DEF u
<1>10. Frames(stack') = Frames(a) \cup {g} \cup Frames(Tail(stack))
  <2>1. stack' = u \o Tail(stack)
    BY <1>8 DEF Goto
  <2> QED
    BY <1>2, <1>9, <2>1, FramesTogether
<1>11. \A c \in Clients : Spared(c)
  <2> TAKE c \in Clients
  <2> DEFINE x == [client[c] EXCEPT !.pool = FALSE]
  <2>1. client[c] \in Client
    BY <1>5
  <2>2. /\ x.netloc = client[c].netloc /\ x.request = client[c].request /\ x.field = client[c].field
        /\ ~x.pool /\ x.inRedirect = client[c].inRedirect /\ x.redirectCanceled = client[c].redirectCanceled
    BY <2>1 DEF Client
  <2>3. client'[c] = x \/ client'[c] = client[c]
    BY <1>4
  <2> HIDE DEF x
  <2> QED
    BY <2>2, <2>3 DEF Spared
<1>12. \A r \in Requests : Held(r)
  BY <1>1 DEF Held
<1>13. Pooled' /\ Expects' /\ Kinds'
  BY <1>1, <1>3 DEF Fit, Pooled, Expects, Kinds
<1>14. Handed'
  BY <1>2, <1>6, <1>7, <1>10 DEF Handed
<1>15. Iterators'
  <2>1. \A f \in Frames(stack') : f.pc # "erase"
    BY <1>1, <1>2, <1>6, <1>7, <1>10, NoErase
  <2>2. \A f \in Frames(stack') : f.pc = "abort" => queue'[f.n] = f.q
    BY <1>1, <1>2, <1>6, <1>7, <1>10 DEF Fit, Iterators
  <2> QED
    BY <2>1, <2>2 DEF Iterators
<1>16. ASSUME NEW r \in Requests PROVE Placing(r)' \/ (Queued(r)' /\ req'[r].pool) => req[r].inputs = Files(r)
  <2>1. Placing(r)' => Placing(r)
    BY <1>2, <1>6, <1>7, <1>10 DEF Placing
  <2>2. Queued(r)' /\ req'[r].pool => Queued(r) /\ req[r].pool
    BY <1>1 DEF Queued
  <2> QED
    BY <2>1, <2>2 DEF Fit, Feeds
<1>17. /\ \A f \in Frames(stack') : f.pc = "redirected" => f \in Frames(stack)
       /\ \A f \in Frames(stack) : f.pc = "redirected" => f \in Frames(stack')
  BY <1>2, <1>6, <1>7, <1>10
<1>18. Fit'
  BY <1>1, <1>11, <1>12, <1>13, <1>14, <1>15, <1>16, <1>17, FitLists
<1> QED
  BY <1>1, <1>18

\* ~Pool() at its end: a client that has a request knows no pool any more.
LEMMA DestroyEndFits ==
  ASSUME Live, Safe', Fit, DestroyEnd
  PROVE  Fit' /\ fault' = fault
<1>1. At("~Pool") /\ Top.todo = {} /\ UNCHANGED <<alive, req, fault>> /\ Safe /\ Goto(<<>>)
  BY DEF DestroyEnd, pool, Live
<1>2. /\ stack \in Seq(Frame) /\ Top \in Frame /\ Top.pc = "~Pool" /\ Top = Head(stack) /\ stack # <<>>
      /\ Top \in Frames(stack) /\ Frames(stack) = {Top} \cup Frames(Tail(stack)) /\ Tail(stack) \in Seq(Frame)
      /\ \A g \in Frames(Tail(stack)) : g.pc \notin {"putback", "request"}
      /\ \A g \in Frames(Tail(stack)) : g.pc # "~Pool"
  BY <1>1, OnTop
<1>3. ~alive
  BY <1>1, <1>2 DEF Safe, Coherent, PoolFrames
<1>4. stack' = Tail(stack)
  BY <1>1, Returns
<1>5. client \in [Clients -> Client]
  BY <1>1 DEF Safe, TypeOK
<1>6. /\ queue' = [n \in NetLocs |-> <<>>]
      /\ client' = [c \in Clients |-> IF \E n \in NetLocs : c \in free[n] THEN Reset(client[c]) ELSE client[c]]
  BY DEF DestroyEnd
<1>7. \A c \in Clients : Spared(c)
  <2> TAKE c \in Clients
  <2>1. client'[c] = Reset(client[c]) \/ client'[c] = client[c]
    BY <1>6
  <2>2. client[c] \in Client
    BY <1>5
  <2> QED
    BY <2>1, <2>2, ConnKept DEF Spared
<1>8. \A r \in Requests : Held(r)
  BY <1>1 DEF Held
<1>9. ASSUME NEW n \in NetLocs PROVE Range(queue'[n]) = {}
  <2>1. queue'[n] = <<>>
    BY <1>6
  <2> QED
    BY <2>1 DEF Range
<1>10. Pooled' /\ Expects' /\ Kinds'
  BY <1>1, <1>3, <1>9 DEF Pooled, Expects, Kinds
<1>11. Handed'
  BY <1>2, <1>4 DEF Handed
<1>12. Iterators'
  <2>1. \A f \in Frames(stack') : f.pc # "erase"
    BY <1>1, <1>2, <1>4, NoErase
  <2>2. \A f \in Frames(Tail(stack)) : f.pc # "abort"
    <3> DEFINE t == Tail(stack)
    <3>1. Dissolves(t, Idles) /\ t \in Seq(Frame)
      BY <1>2, DissolvesTop DEF Live, Sound
    <3>2. \A f \in Frames(t) : f.pc # "~Pool"
      BY <1>2
    <3>3. t = <<>> => Frames(t) = {}
      BY Empty
    <3> HIDE DEF t
    <3>4. t # <<>> => \A f \in Frames(t) : f.pc = "abort" => \E g \in Frames(t) : g.pc = "~Pool"
      BY <3>1, DissolvesTop
    <3>5. \A f \in Frames(t) : f.pc # "abort"
      BY <3>2, <3>3, <3>4
    <3> QED
      BY <3>5 DEF t
  <2> QED
    BY <1>4, <2>1, <2>2 DEF Iterators
<1>13. ASSUME NEW c \in Clients, client[c].request # 0 PROVE ~client'[c].pool
  <2>1. ~client[c].pool
    BY <1>1, <1>2, <1>3, <1>13 DEF Safe, Coherent, Owned, Taken
  <2> QED
    BY <1>7, <2>1 DEF Spared
<1>14. ASSUME NEW r \in Requests PROVE Placing(r)' \/ (Queued(r)' /\ req'[r].pool) => req[r].inputs = Files(r)
  <2>1. Placing(r)' => Placing(r)
    BY <1>2, <1>4 DEF Placing
  <2>2. ~Queued(r)'
    BY <1>9 DEF Queued
  <2> QED
    BY <2>1, <2>2 DEF Fit, Feeds
<1>15. /\ \A f \in Frames(stack') : f.pc = "redirected" => f \in Frames(stack)
       /\ \A f \in Frames(stack) : f.pc = "redirected" => f \in Frames(stack')
  BY <1>2, <1>4
<1>16. Fit'
  BY <1>7, <1>8, <1>10, <1>11, <1>12, <1>13, <1>14, <1>15, FitLists
<1> QED
  BY <1>1, <1>16

\* Pool::request(): a client is taken for the request, or the request waits for one.
LEMMA PoolRequestFits ==
  ASSUME Live, Safe', Fit, PoolRequest
  PROVE  Fit' /\ fault' = fault
<1>1. At("pool_request") /\ UNCHANGED <<alive, fault>> /\ Safe
  BY DEF PoolRequest, pool, Live
<1>2. /\ stack \in Seq(Frame) /\ stack # <<>> /\ Top = Head(stack) /\ Top \in Frame /\ Top.pc = "pool_request"
      /\ Top \in Frames(stack) /\ Frames(stack) = {Top} \cup Frames(Tail(stack)) /\ Tail(stack) \in Seq(Frame)
  BY <1>1, OnTop
<1>3. Top.r \in Requests
  BY <1>2, FrameFields
<1>4. PICK r \in Requests : r = Top.r
  BY <1>3
<1>5. /\ client \in [Clients -> Client] /\ req \in [Requests -> Request] /\ queue \in [NetLocs -> Seq(Requests)]
      /\ free \in [NetLocs -> SUBSET Clients] /\ busy \in [NetLocs -> SUBSET Clients] /\ req[r] \in Request
  BY <1>1 DEF Safe, TypeOK
<1>6. PICK n \in NetLocs : n = req[r].netloc
  BY <1>5 DEF Request
<1>7. Normal /\ alive /\ Still(Tail(stack))
  <2>1. Normal
    BY <1>1, AtTop DEF Dying
  <2>2. alive
    BY <1>1, <1>2 DEF Safe, Coherent, PoolFrames
  <2>3. Still(Tail(stack))
    BY <1>2, ShapePop DEF Live, Sound
  <2> QED
    BY <2>1, <2>2, <2>3
<1>8. \A f \in Frames(Tail(stack)) : /\ f \in Frames(stack)
                                     /\ f.pc \notin {"pool_request", "request", "putback"} \cup Dying
  BY <1>2, <1>7 DEF Still, Passing, Normal
<1>9. Placing(r) /\ req[r].inputs = Files(r) /\ \A m \in NetLocs : r \notin Range(queue[m])
  <2>1. Placing(r)
    BY <1>2, <1>4 DEF Placing
  <2>2. Lives(r, "placing")
    BY <2>1, LivesWhere DEF Live
  <2> QED
    BY <2>1, <2>2 DEF Lives, Queued, Fit, Feeds
<1>10. \A d \in Clients : Taken(d) => client[d].request # 0
  BY <1>2, <1>8 DEF Taken, Claimed
<1>11. ASSUME NEW c \in Clients, client[c].request = 0, \A m \in NetLocs : c \notin busy[m],
              client'[c] = client[c] \/ client'[c] = NewClient,
              \A d \in Clients : d # c => client'[d] = client[d],
              \A m \in NetLocs : free'[m] \subseteq free[m] /\ c \notin free'[m],
              busy' = [busy EXCEPT ![n] = @ \cup {c}],
              req' = [req EXCEPT ![r].pool = TRUE], UNCHANGED queue,
              Goto(<<ClientRequestFrame(c, r)>>)
       PROVE  Fit'
  <2>1. PICK f \in Frame : f = ClientRequestFrame(c, r)
    BY MadeFrames
  <2>2. f.pc = "request" /\ f.c = c /\ f.r = r
    BY <2>1 DEF ClientRequestFrame
  <2>3. Frames(stack') = {f} \cup Frames(Tail(stack))
    <3>1. stack' = <<f>> \o Tail(stack)
      BY <1>11, <2>1 DEF Goto
    <3>2. <<f>> \in Seq(Frame) /\ Frames(<<f>>) = {f}
      BY FewFrames
    <3> QED
      BY <1>2, <3>1, <3>2, FramesTogether
  <2>4. req'[r] = [req[r] EXCEPT !.pool = TRUE] /\ \A x \in Requests : x # r => req'[x] = req[x]
    BY <1>5, <1>11
  <2>5. \A x \in Requests : Held(x)
    <3> DEFINE a == [req[r] EXCEPT !.pool = TRUE]
    <3>1. /\ a.netloc = req[r].netloc /\ a.inputs = req[r].inputs /\ a.client = req[r].client
          /\ a.streamer = req[r].streamer /\ a.transferred = req[r].transferred
      BY <1>5 DEF Request
    <3>2. req'[r] = a
      BY <2>4
    <3> HIDE DEF a
    <3> QED
      BY <2>4, <3>1, <3>2 DEF Held
  <2>6. \A d \in Clients : Spared(d) \/ Renewed(d)
    BY <1>11 DEF Spared, Renewed
  <2>7. Pooled'
    <3>1. NewClient.pool
      BY DEF NewClient
    <3> QED
      BY <1>7, <1>11, <3>1 DEF Fit, Pooled
  <2>8. Expects'
    <3>1. ASSUME NEW m \in NetLocs, NEW x \in Range(queue[m]) PROVE x \in Requests /\ x # r
      <4>1. queue[m] \in [1 .. Len(queue[m]) -> Requests]
        BY <1>5
      <4> QED
        BY <1>9, <4>1 DEF Range
    <3> QED
      BY <1>11, <2>4, <3>1 DEF Fit, Expects
  <2>9. c \in busy'[n] /\ \A m \in NetLocs : busy'[m] \subseteq busy[m] \cup {c} /\ busy[m] \subseteq busy'[m]
    BY <1>5, <1>11
  <2>10. Handed'
    <3>1. req'[r].netloc = n
      BY <1>6, <2>5 DEF Held
    <3> QED
      BY <1>8, <2>2, <2>3, <2>9, <3>1 DEF Handed
  <2>11. Kinds'
    <3>1. ASSUME NEW m \in NetLocs, NEW d \in free'[m] PROVE client'[d].netloc = m
      <4>1. d \in free[m] /\ d # c /\ d \in Clients
        BY <1>5, <1>11
      <4> QED
        BY <1>7, <1>11, <4>1 DEF Fit, Kinds
    <3>2. ASSUME NEW m \in NetLocs, NEW d \in busy'[m] PROVE Taken(d)'
      <4>1. CASE d = c
        BY <2>2, <2>3, <4>1 DEF Taken, Claimed
      <4>2. CASE d # c
        <5>1. d \in busy[m] /\ d \in Clients
          BY <1>5, <2>9, <4>2
        <5>2. client[d].request # 0
          BY <1>7, <1>10, <5>1 DEF Fit, Kinds
        <5> QED
          BY <1>11, <4>2, <5>1, <5>2 DEF Taken
      <4> QED
        BY <4>1, <4>2
    <3> QED
      BY <3>1, <3>2 DEF Kinds
  <2>12. Iterators'
    BY <1>8, <2>2, <2>3 DEF Iterators, Dying
  <2>13. ASSUME NEW x \in Requests PROVE Placing(x)' \/ (Queued(x)' /\ req'[x].pool) => req[x].inputs = Files(x)
    <3>1. Placing(x)' => x = r
      BY <1>8, <2>2, <2>3 DEF Placing
    <3>2. Queued(x)' /\ req'[x].pool => x # r /\ Queued(x) /\ req[x].pool
      BY <1>9, <1>11, <2>4 DEF Queued
    <3> QED
      BY <1>9, <3>1, <3>2 DEF Fit, Feeds
  <2>14. /\ \A g \in Frames(stack') : g.pc = "redirected" => g \in Frames(stack)
         /\ \A g \in Frames(stack) : g.pc = "redirected" => g \in Frames(stack')
    BY <1>2, <2>2, <2>3
  <2> QED
    BY <2>5, <2>6, <2>7, <2>8, <2>9, <2>10, <2>11, <2>12, <2>13, <2>14, FitLists
<1>12. ASSUME NEW c \in free[n], free' = [free EXCEPT ![n] = @ \ {c}], busy' = [busy EXCEPT ![n] = @ \cup {c}],
              req' = [req EXCEPT ![r].pool = TRUE], Goto(<<ClientRequestFrame(c, r)>>), UNCHANGED <<queue, client>>
       PROVE  Fit'
  <2>1. client[c].request = 0 /\ c \in Clients
    BY <1>7, FreeIsIdle
  <2>2. \A m \in NetLocs : c \notin busy[m] /\ (m # n => c \notin free[m])
    BY DEF Live, Slots
  <2>3. \A m \in NetLocs : free'[m] \subseteq free[m] /\ c \notin free'[m]
    BY <1>5, <1>12, <2>2
  <2> QED
    BY <1>11, <1>12, <2>1, <2>2, <2>3
<1>13. ASSUME NEW c \in Unused, client' = [client EXCEPT ![c] = NewClient], busy' = [busy EXCEPT ![n] = @ \cup {c}],
              req' = [req EXCEPT ![r].pool = TRUE], Goto(<<ClientRequestFrame(c, r)>>),
              UNCHANGED <<free, queue>>
       PROVE  Fit'
  <2>1. c \in Clients /\ client[c].request = 0 /\ \A m \in NetLocs : c \notin free[m] /\ c \notin busy[m]
    BY DEF Unused
  <2>2. client'[c] = NewClient /\ \A d \in Clients : d # c => client'[d] = client[d]
    BY <1>5, <1>13, <2>1
  <2> QED
    BY <1>11, <1>13, <2>1, <2>2
<1>14. ASSUME queue' = [queue EXCEPT ![n] = Append(@, r)],
              req' = [req EXCEPT ![r] = Timed([@ EXCEPT !.pool = TRUE], r)], Goto(<<>>),
              UNCHANGED <<free, busy, client>>
       PROVE  Fit'
  <2>1. stack' = Tail(stack)
    BY <1>1, <1>14, Returns
  <2>2. Range(Append(queue[n], r)) = Range(queue[n]) \cup {r}
    <3>1. \A i, j \in 1 .. Len(queue[n]) : queue[n][i] = queue[n][j] => i = j
      BY DEF Live, Sound, Apart
    <3>2. queue[n] \in Seq(Requests)
      BY <1>5
    <3> QED
      BY <1>9, <3>1, <3>2, OneWaits
  <2>3. \A m \in NetLocs : Range(queue'[m]) = IF m = n THEN Range(queue[n]) \cup {r} ELSE Range(queue[m])
    <3>1. \A m \in NetLocs : queue'[m] = IF m = n THEN Append(queue[n], r) ELSE queue[m]
      BY <1>5, <1>14
    <3> QED
      BY <2>2, <3>1
  <2>4. Held(r) /\ \A x \in Requests : x # r => req'[x] = req[x]
    <3> DEFINE a == [req[r] EXCEPT !.pool = TRUE]
               t == Timed(a, r)
    <3>1. /\ a \in Request /\ a.netloc = req[r].netloc /\ a.inputs = req[r].inputs /\ a.client = req[r].client
          /\ a.streamer = req[r].streamer /\ a.transferred = req[r].transferred
      BY <1>5 DEF Request
    <3>2. req'[r] = t /\ \A x \in Requests : x # r => req'[x] = req[x]
      BY <1>5, <1>14
    <3> HIDE DEF a
    <3>3. /\ t.netloc = a.netloc /\ t.inputs = a.inputs /\ t.streamer = a.streamer
          /\ t.transferred = a.transferred /\ t.client = a.client
      BY <3>1, TimedKeeps
    <3> HIDE DEF t
    <3> QED
      BY <3>1, <3>2, <3>3 DEF Held
  <2>5. \A x \in Requests : Held(x)
    BY <2>4 DEF Held
  <2>6. \A d \in Clients : Spared(d) \/ Renewed(d)
    BY <1>14 DEF Spared
  <2>7. Pooled'
    BY <1>1, <1>14 DEF Fit, Pooled
  <2>8. Expects'
    <3> SUFFICES ASSUME NEW m \in NetLocs, NEW x \in Range(queue'[m]), req'[x].pool PROVE req'[x].netloc = m
      BY DEF Expects
    <3>1. CASE x = r
      <4>1. m = n
        BY <1>9, <2>3, <3>1
      <4> QED
        BY <1>6, <2>4, <3>1, <4>1 DEF Held
    <3>2. CASE x # r
      <4>1. x \in Range(queue[m])
        BY <2>3, <3>2
      <4>2. queue[m] \in [1 .. Len(queue[m]) -> Requests]
        BY <1>5
      <4>3. x \in Requests
        BY <4>1, <4>2 DEF Range
      <4> QED
        BY <2>4, <3>2, <4>1, <4>3 DEF Fit, Expects
    <3> QED
      BY <3>1, <3>2
  <2>9. Handed' /\ Iterators'
    BY <1>8, <2>1 DEF Handed, Iterators, Dying
  <2>10. Kinds'
    <3>1. ASSUME NEW m \in NetLocs, NEW d \in free'[m] PROVE client'[d].netloc = m
      BY <1>7, <1>14 DEF Fit, Kinds
    <3>2. ASSUME NEW m \in NetLocs, NEW d \in busy'[m] PROVE Taken(d)'
      <4>1. d \in busy[m] /\ d \in Clients
        BY <1>5, <1>14
      <4>2. client[d].request # 0
        BY <1>7, <1>10, <4>1 DEF Fit, Kinds
      <4> QED
        BY <1>14, <4>2 DEF Taken
    <3> QED
      BY <3>1, <3>2 DEF Kinds
  <2>11. ASSUME NEW x \in Requests PROVE Placing(x)' \/ (Queued(x)' /\ req'[x].pool) => req[x].inputs = Files(x)
    <3>1. ~Placing(x)'
      BY <1>8, <2>1 DEF Placing
    <3>2. Queued(x)' /\ req'[x].pool => x = r \/ (Queued(x) /\ req[x].pool)
      BY <2>3, <2>4 DEF Queued
    <3> QED
      BY <1>9, <3>1, <3>2 DEF Fit, Feeds
  <2>12. /\ \A g \in Frames(stack') : g.pc = "redirected" => g \in Frames(stack)
         /\ \A g \in Frames(stack) : g.pc = "redirected" => g \in Frames(stack')
    BY <1>2, <2>1
  <2> QED
    BY <1>14, <2>5, <2>6, <2>7, <2>8, <2>9, <2>10, <2>11, <2>12, FitLists
<1>15. \/ \E c \in free[n] :
             /\ free' = [free EXCEPT ![n] = @ \ {c}] /\ busy' = [busy EXCEPT ![n] = @ \cup {c}]
             /\ req' = [req EXCEPT ![r].pool = TRUE] /\ Goto(<<ClientRequestFrame(c, r)>>) /\ UNCHANGED <<queue, client>>
       \/ \E c \in Unused :
             /\ client' = [client EXCEPT ![c] = NewClient] /\ busy' = [busy EXCEPT ![n] = @ \cup {c}]
             /\ req' = [req EXCEPT ![r].pool = TRUE] /\ Goto(<<ClientRequestFrame(c, r)>>) /\ UNCHANGED <<free, queue>>
       \/ /\ queue' = [queue EXCEPT ![n] = Append(@, r)]
          /\ req' = [req EXCEPT ![r] = Timed([@ EXCEPT !.pool = TRUE], r)] /\ Goto(<<>>)
          /\ UNCHANGED <<free, busy, client>>
  <2>1. Unused # {} => (CHOOSE c \in Unused : TRUE) \in Unused
    OBVIOUS
  <2> QED
    BY <1>4, <1>6, <2>1, Zenon DEF PoolRequest
<1>16. Fit'
  BY <1>12, <1>13, <1>14, <1>15
<1> QED
  BY <1>1, <1>16

-----------------------------------------------------------------------------
(* The theorems *)

\* With a new pool all fits.
LEMMA InitFits ==
  ASSUME Init, Careful
  PROVE  Fit /\ fault = "none"
<1>1. stack = <<>> /\ Frames(stack) = {} /\ fault = "none"
  BY Empty DEF Init
<1>2. \A n \in NetLocs : queue[n] = <<>> /\ Range(queue[n]) = {} /\ free[n] = {} /\ busy[n] = {}
  BY DEF Init, Range
<1>3. \A c \in Clients : /\ client[c].netloc.ctx = "default" /\ client[c].pool /\ client[c].request = 0
                         /\ client[c].field = 0 /\ ~client[c].inRedirect /\ ~client[c].redirectCanceled
  BY DEF Init, NewClient, NoLoc
<1>4. ASSUME NEW r \in Requests
      PROVE  /\ req[r].netloc = Target[r] /\ ~req[r].pool /\ ~req[r].transferred /\ req[r].inputs = Files(r)
             /\ req[r].streamer = [i \in DOMAIN Form[r] |-> 0]
  <2>1. req[r] = NewRequest(r)
    BY DEF Init
  <2>2. /\ NewRequest(r).netloc = Target[r] /\ ~NewRequest(r).pool /\ ~NewRequest(r).transferred
        /\ NewRequest(r).inputs = Files(r) /\ NewRequest(r).streamer = [i \in DOMAIN Form[r] |-> 0]
    BY DEF NewRequest
  <2> QED
    BY <2>1, <2>2
<1>5. NoCerts
  <2>1. \A r \in Requests : Target[r].ctx = "default"
    BY Zenon DEF Careful
  <2>2. \A r \in Requests : req[r].netloc = Target[r]
    BY <1>4
  <2> QED
    BY <1>1, <1>3, <2>1, <2>2 DEF NoCerts
<1>6. Pooled /\ Expects /\ Serving
  BY <1>2, <1>3 DEF Pooled, Expects, Serving
<1>7. Handed /\ Kinds /\ Turning /\ Iterators
  BY <1>1, <1>2, <1>3 DEF Handed, Kinds, Turning, Iterators
<1>8. Feeds
  <2>1. ASSUME NEW r \in Requests
        PROVE  /\ req[r].streamer \in [DOMAIN Form[r] -> 0 .. MaxClients]
               /\ \A i \in Files(r) : req[r].streamer[i] = 0
    <3>1. req[r].streamer = [i \in DOMAIN Form[r] |-> 0]
      BY <1>4
    <3>2. \A i \in Files(r) : i \in DOMAIN Form[r]
      BY FieldBound
    <3> QED
      BY <3>1, <3>2, NoneIsThere
  <2> QED
    BY <1>1, <1>3, <1>4, <2>1 DEF Feeds
<1> QED
  BY <1>1, <1>5, <1>6, <1>7, <1>8 DEF Fit

\* Fit is inductive, and no step that starts from it fails.
LEMMA FitStep ==
  ASSUME Live, Safe', Fit, Careful, [Next]_vars
  PROVE  Fit' /\ fault' = fault
<1>1. Orderly
  BY DEF Careful
<1>2. CASE UNCHANGED vars
  BY <1>2, FitStill DEF vars, pool, slots
<1>3. CASE Internal
  BY <1>3, ReadEndFits, ParseErrorFits, InterimFits, CompleteFits, RedirectedFits, WeakenFits,
     ClientRequestFits, PoolRequestFits, PutbackFits, FinishAndNotifyFits, EraseFits, DestroyListFits,
     AbortQueuedFits, DestroyEndFits, Zenon DEF Internal
<1>4. CASE Return \/ \E host \in Hosts \cup {""} : Redirect(host)
  BY <1>4, ReturnFits, RedirectFits, Zenon
<1>5. CASE Event
  BY <1>1, <1>5, OnConnectFits, OnErrorFits, OnReadFits, OnEofFits, OnTimerFits, OnStreamedFits,
     CheckInactivityFits, Zenon DEF Event
<1>6. CASE User
  BY <1>1, <1>6, SubmitFits, CancelCallFits, SendChunkFits, RestoreContextFits, ThrowInRedirectFits,
     DestroyFits, SettingFits, Zenon DEF User
<1> QED
  BY <1>2, <1>3, <1>4, <1>5, <1>6, Zenon DEF Next, Step

\* All of it together.
Whole == Live /\ LimitHolds /\ Fit /\ fault = "none"

\* It holds in a new pool and every step of the specification keeps it.
LEMMA WholeHolds ==
  ASSUME Careful
  PROVE  (Init => Whole) /\ (Whole /\ [Next]_vars => Whole')
<1>1. Orderly
  BY DEF Careful
<1>2. ASSUME Init PROVE Whole
  BY <1>2, InitLive, InitFits DEF Whole
<1>3. ASSUME Whole, [Next]_vars PROVE Whole'
  <2>1. Live' /\ LimitHolds'
    BY <1>1, <1>3, LiveStep DEF Whole
  <2>2. Safe'
    BY <2>1 DEF Live
  <2>3. Fit' /\ fault' = fault
    BY <1>3, <2>2, FitStep DEF Whole
  <2> QED
    BY <1>3, <2>1, <2>3 DEF Whole
<1> QED
  BY <1>2, <1>3

\* No assertion of the client side fails and no iterator or pointer is used when it
\* is no longer good: Pool::putback() knows the location of its client and finds it
\* among the busy ones, Pool::cancel_request() finds its request in the queue of its
\* location and erases it with an iterator that is still valid after the callback,
\* ~Pool() goes through queues that stay as they are, a chunk is sent for a request
\* that its client runs, and FormFile finds its input, its client and its item.
THEOREM NeverFaults ==
  ASSUME Careful
  PROVE  Spec => []NoFault
<1>1. (Init => Whole) /\ (Whole /\ [Next]_vars => Whole')
  BY WholeHolds
<1>2. Whole => NoFault
  BY DEF Whole, NoFault
<1> QED
  BY <1>1, <1>2, PTL DEF Spec

\* Between events each busy client of a location runs a request of that location,
\* and each free one has none: no connection is lost to the pool by an error, a
\* cancel, a redirect or a timeout between Pool::request() and Pool::putback().
THEOREM BusyAlwaysServes ==
  ASSUME Careful
  PROVE  Spec => []BusyIsServing
<1>1. (Init => Whole) /\ (Whole /\ [Next]_vars => Whole')
  BY WholeHolds
<1>2. Whole => BusyIsServing
  <2> SUFFICES ASSUME Live, Fit, Loop, alive, NEW n \in NetLocs
               PROVE  /\ \A c \in busy[n] : /\ client[c].request # 0 /\ client[c].netloc = n
                                            /\ req[client[c].request].netloc = n
                      /\ \A c \in free[n] : client[c].request = 0 /\ client[c].netloc = n
    BY DEF Whole, BusyIsServing
  <2>1. Frames(stack) = {}
    BY AtLoop DEF Loop
  <2>2. ASSUME NEW c \in busy[n]
        PROVE  client[c].request # 0 /\ client[c].netloc = n /\ req[client[c].request].netloc = n
    <3>1. c \in Clients /\ Taken(c)
      BY DEF Live, ListsCounted, Fit, Kinds
    <3>2. client[c].request # 0
      BY <2>1, <3>1 DEF Taken, Claimed
    <3>3. ~client[c].inRedirect /\ client[c].pool
      BY <2>1, <3>1 DEF Fit, Turning, Pooled
    <3>4. client[c].netloc \in NetLocs /\ c \in busy[client[c].netloc]
          /\ req[client[c].request].netloc = client[c].netloc
      BY <3>1, <3>2, <3>3 DEF Fit, Serving
    <3>5. client[c].netloc = n
      BY <3>4 DEF Live, Slots
    <3> QED
      BY <3>2, <3>4, <3>5
  <2>3. ASSUME NEW c \in free[n] PROVE client[c].request = 0 /\ client[c].netloc = n
    BY FreeIsIdle DEF Fit, Kinds
  <2> QED
    BY <2>2, <2>3
<1> QED
  BY <1>1, <1>2, PTL DEF Spec

\* While a file is streamed, the client it is streamed to runs the request of its
\* form and is at that item: Client::finish_request() stops the streamer before the
\* connection goes to another request, and FormFile leaves no item behind.
THEOREM StreamerAlwaysServes ==
  ASSUME Careful
  PROVE  Spec => []StreamerServes
<1>1. (Init => Whole) /\ (Whole /\ [Next]_vars => Whole')
  BY WholeHolds
<1>2. Whole => StreamerServes
  BY DEF Whole, Fit, Feeds, StreamerServes
<1> QED
  BY <1>1, <1>2, PTL DEF Spec
=============================================================================
