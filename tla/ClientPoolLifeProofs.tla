------------------------ MODULE ClientPoolLifeProofs ------------------------
(***************************************************************************)
(* The life of a request in ClientPool, for every value of its constants:  *)
(* the pool, its clients and the requests implement RequestLife, a request *)
(* is in one place, and client and timer know of it, as long as the user   *)
(* is Orderly.  A request is in a phase (Lives) in which all that the       *)
(* queues, the clients, the call stack and the request say must agree, and  *)
(* every step is shown to be one turn of one request's life or none.        *)
(***************************************************************************)
EXTENDS ClientPoolProofs

-----------------------------------------------------------------------------
(* How the calls on the stack follow each other *)

\* Routines that hold a request while they run: the ones that place it, the one
\* that reports it, and those that wait between them.
Passing == {"notify", "pool_request", "request", "putback", "weaken"}

\* None of them is under way.
Still(s) == \A f \in Frames(s) : f.pc \notin Passing

\* On top: a report; Pool::request(); weak(true) before Pool::request().
Reports(s) == s # <<>> /\ Head(s).pc = "notify" /\ Still(Tail(s))
Hands(s) == s # <<>> /\ Head(s).pc = "pool_request" /\ Still(Tail(s))
Leaves(s) == s # <<>> /\ Head(s).pc = "weaken" /\ Hands(Tail(s))

\* At most one request is on its way, and one more that a client which is put
\* back takes from its queue meanwhile.
Shape(s) ==
  \/ Still(s) \/ Reports(s) \/ Hands(s) \/ Leaves(s)
  \/ s # <<>> /\ Head(s).pc = "putback" /\ (Reports(Tail(s)) \/ Leaves(Tail(s)))
  \/ /\ s # <<>> /\ Head(s).pc = "request"
     /\ Reports(Tail(s)) \/ Leaves(Tail(s)) \/ Still(Tail(s))

\* A routine is called where none of these is under way.
LEMMA ShapePush ==
  ASSUME NEW s \in Seq(Frame), Still(s), NEW f \in Frame, f.pc \notin {"putback", "weaken"}
  PROVE  Shape(<<f>> \o s) /\ (f.pc \notin Passing => Still(<<f>> \o s))
         /\ (f.pc = "notify" => Reports(<<f>> \o s)) /\ (f.pc = "pool_request" => Hands(<<f>> \o s))
<1> DEFINE t == <<f>> \o s
<1>1. t # <<>> /\ Head(t) = f /\ Tail(t) = s
  OBVIOUS
<1>2. <<f>> \in Seq(Frame) /\ Frames(<<f>>) = {f}
  BY FewFrames
<1>3. Frames(t) = {f} \cup Frames(s)
  BY <1>2, FramesTogether
<1> HIDE DEF t
<1>4. f.pc \notin Passing => Still(t)
  BY <1>3 DEF Still
<1>5. f.pc \in Passing => f.pc \in {"notify", "pool_request", "request"}
  BY DEF Passing
<1>6. f.pc = "notify" => Reports(t)
  BY <1>1 DEF Reports
<1>7. f.pc = "pool_request" => Hands(t)
  BY <1>1 DEF Hands
<1>8. Shape(t)
  BY <1>1, <1>4, <1>5, <1>6, <1>7 DEF Shape
<1> QED
  BY <1>4, <1>6, <1>7, <1>8 DEF t

\* The innermost routine returns.
LEMMA ShapePop ==
  ASSUME NEW s \in Seq(Frame), Shape(s), s # <<>>
  PROVE  /\ Shape(Tail(s))
         /\ Head(s).pc \notin Passing => Still(s) /\ Still(Tail(s))
         /\ Head(s).pc \in {"notify", "pool_request"} => Still(Tail(s))
         /\ Head(s).pc = "weaken" => Hands(Tail(s))
         /\ Head(s).pc = "putback" => Reports(Tail(s)) \/ Leaves(Tail(s))
         /\ Head(s).pc = "request" => Reports(Tail(s)) \/ Leaves(Tail(s)) \/ Still(Tail(s))
<1> DEFINE h == Head(s).pc
           t == Tail(s)
<1>1. Head(s) \in Frames(s) /\ \A f \in Frames(t) : f \in Frames(s)
  <2>1. Len(s) \in Nat /\ Len(s) >= 1 /\ Head(s) = s[1] /\ Len(t) = Len(s) - 1
    OBVIOUS
  <2>2. \A i \in 1 .. Len(t) : t[i] = s[i + 1] /\ i + 1 \in 1 .. Len(s)
    BY <2>1
  <2> QED
    BY <2>1, <2>2 DEF Frames
<1>2. Still(s) => h \notin Passing /\ Still(t)
  BY <1>1 DEF Still
<1>3. h \in Passing => h \in {"notify", "pool_request", "request", "putback", "weaken"}
  BY DEF Passing
<1>4. {"notify", "pool_request", "request", "putback", "weaken"} \subseteq Passing
  BY DEF Passing
<1>5. h \notin Passing => Still(s)
  BY <1>4 DEF Shape, Reports, Hands, Leaves
<1>6. h \in {"notify", "pool_request"} => Still(t)
  BY <1>2, <1>4 DEF Shape, Reports, Hands, Leaves
<1>7. h = "weaken" => Hands(t)
  BY <1>2, <1>4 DEF Shape, Reports, Hands, Leaves
<1>8. h = "putback" => Reports(t) \/ Leaves(t)
  BY <1>2, <1>4 DEF Shape, Reports, Hands, Leaves
<1>9. h = "request" => Reports(t) \/ Leaves(t) \/ Still(t)
  BY <1>2, <1>4 DEF Shape, Reports, Hands, Leaves
<1>10. Shape(t)
  BY <1>2, <1>3, <1>5, <1>6, <1>7, <1>8, <1>9 DEF Shape
<1> QED
  BY <1>2, <1>5, <1>6, <1>7, <1>8, <1>9, <1>10

\* What ~Pool() stands under: the queued requests it has still to tell, and
\* callbacks of requests in D; and whatever it has to tell stands on it.
Dissolves(s, D) ==
  /\ \A i, j \in 1 .. Len(s) : i < j /\ s[j].pc = "~Pool" =>
         s[i].pc = "abort" \/ (s[i].pc = "callback" /\ s[i].r \in D)
  /\ \A i \in 1 .. Len(s) : s[i].pc = "abort" => \E j \in i + 1 .. Len(s) : s[j].pc = "~Pool"

\* Without ~Pool() there is nothing to say.
LEMMA DissolvesNot ==
  ASSUME NEW s \in Seq(Frame), NEW D, \A f \in Frames(s) : f.pc \notin {"~Pool", "abort"}
  PROVE  Dissolves(s, D)
  BY DEF Dissolves, Frames

\* The more requests are over, the more may call back.
LEMMA DissolvesMore ==
  ASSUME NEW s \in Seq(Frame), NEW D, NEW E, D \subseteq E, Dissolves(s, D)
  PROVE  Dissolves(s, E)
  BY DEF Dissolves

\* A routine returns under which ~Pool() may be.
LEMMA DissolvesTop ==
  ASSUME NEW s \in Seq(Frame), NEW D, Dissolves(s, D), s # <<>>
  PROVE  /\ Dissolves(Tail(s), D)
         /\ \A f \in Frames(Tail(s)) : f.pc = "~Pool" =>
                Head(s).pc = "abort" \/ (Head(s).pc = "callback" /\ Head(s).r \in D)
         /\ Head(s).pc = "abort" => \E f \in Frames(Tail(s)) : f.pc = "~Pool"
         /\ \A f \in Frames(s) : f.pc = "abort" => \E g \in Frames(s) : g.pc = "~Pool"
<1> DEFINE t == Tail(s)
<1>1. Len(s) \in Nat /\ Len(s) >= 1 /\ Head(s) = s[1] /\ Len(t) = Len(s) - 1 /\ Len(t) \in Nat
  OBVIOUS
<1>2. \A i \in 1 .. Len(t) : t[i] = s[i + 1] /\ i + 1 \in 1 .. Len(s) /\ 1 < i + 1
  BY <1>1
<1>3. \A i \in 1 .. Len(s) : 1 < i => i - 1 \in 1 .. Len(t) /\ s[i] = t[i - 1]
  <2> TAKE i \in 1 .. Len(s)
  <2> SUFFICES ASSUME 1 < i PROVE i - 1 \in 1 .. Len(t) /\ s[i] = t[i - 1]
    OBVIOUS
  <2>1. i - 1 \in 1 .. Len(t) /\ (i - 1) + 1 = i
    BY <1>1
  <2> QED
    BY <1>2, <2>1
<1> HIDE DEF t
<1>4. ASSUME NEW i \in 1 .. Len(t), NEW j \in 1 .. Len(t), i < j, t[j].pc = "~Pool"
      PROVE  t[i].pc = "abort" \/ (t[i].pc = "callback" /\ t[i].r \in D)
  <2>1. i + 1 < j + 1
    BY <1>4
  <2> QED
    BY <1>2, <1>4, <2>1 DEF Dissolves
<1>5. ASSUME NEW i \in 1 .. Len(t), t[i].pc = "abort" PROVE \E j \in i + 1 .. Len(t) : t[j].pc = "~Pool"
  <2>1. PICK j \in (i + 1) + 1 .. Len(s) : s[j].pc = "~Pool"
    BY <1>2, <1>5 DEF Dissolves
  <2>2. j \in 1 .. Len(s) /\ 1 < j /\ j - 1 \in i + 1 .. Len(t)
    BY <1>1, <2>1
  <2> QED
    BY <1>3, <2>1, <2>2
<1>6. Dissolves(t, D)
  BY <1>4, <1>5 DEF Dissolves
<1>7. ASSUME NEW f \in Frames(t), f.pc = "~Pool"
      PROVE  Head(s).pc = "abort" \/ (Head(s).pc = "callback" /\ Head(s).r \in D)
  <2>1. PICK i \in 1 .. Len(t) : f = t[i]
    BY DEF Frames
  <2>2. s[i + 1].pc = "~Pool" /\ i + 1 \in 1 .. Len(s) /\ 1 \in 1 .. Len(s) /\ 1 < i + 1
    BY <1>1, <1>2, <1>7, <2>1
  <2> QED
    BY <1>1, <2>2 DEF Dissolves
<1>8. ASSUME NEW i \in 1 .. Len(s), s[i].pc = "abort" PROVE \E j \in 1 .. Len(s) : i < j /\ s[j].pc = "~Pool"
  <2>1. PICK j \in i + 1 .. Len(s) : s[j].pc = "~Pool"
    BY <1>8 DEF Dissolves
  <2> QED
    BY <1>1, <2>1
<1>9. Head(s).pc = "abort" => \E f \in Frames(t) : f.pc = "~Pool"
  <2> SUFFICES ASSUME Head(s).pc = "abort" PROVE \E f \in Frames(t) : f.pc = "~Pool"
    OBVIOUS
  <2>1. PICK j \in 1 .. Len(s) : 1 < j /\ s[j].pc = "~Pool"
    BY <1>1, <1>8
  <2> QED
    BY <1>3, <2>1 DEF Frames
<1>10. \A f \in Frames(s) : f.pc = "abort" => \E g \in Frames(s) : g.pc = "~Pool"
  BY <1>8 DEF Frames
<1> QED
  BY <1>6, <1>7, <1>9, <1>10 DEF t

\* Frames u are called on top of s.
LEMMA DissolvesOn ==
  ASSUME NEW s \in Seq(Frame), NEW u \in Seq(Frame), NEW D, Dissolves(s, D),
         \/ /\ \A f \in Frames(s) : f.pc # "~Pool"
            /\ \A f \in Frames(u) : f.pc # "abort" /\ (f.pc = "~Pool" => Len(u) = 1)
         \/ /\ \E f \in Frames(s) : f.pc = "~Pool"
            /\ \A f \in Frames(u) : f.pc = "abort" \/ (f.pc = "callback" /\ f.r \in D)
  PROVE  Dissolves(u \o s, D)
<1> DEFINE t == u \o s
<1>1. Len(s) \in Nat /\ Len(u) \in Nat /\ Len(t) = Len(u) + Len(s) /\ t \in Seq(Frame)
  OBVIOUS
<1>2. \A i \in 1 .. Len(t) : t[i] = IF i <= Len(u) THEN u[i] ELSE s[i - Len(u)]
  OBVIOUS
<1> HIDE DEF t
<1>3. \A i \in 1 .. Len(t) : i <= Len(u) => i \in 1 .. Len(u) /\ t[i] = u[i]
  BY <1>1, <1>2
<1>4. \A i \in 1 .. Len(t) : ~(i <= Len(u)) => i - Len(u) \in 1 .. Len(s) /\ t[i] = s[i - Len(u)]
  BY <1>1, <1>2
<1>5. \A i \in 1 .. Len(s) : i + Len(u) \in 1 .. Len(t) /\ t[i + Len(u)] = s[i]
  <2> TAKE i \in 1 .. Len(s)
  <2>1. i + Len(u) \in 1 .. Len(t) /\ ~(i + Len(u) <= Len(u)) /\ (i + Len(u)) - Len(u) = i
    BY <1>1
  <2> QED
    BY <1>4, <2>1
<1>6. ASSUME NEW i \in 1 .. Len(t), NEW j \in 1 .. Len(t), i < j, t[j].pc = "~Pool"
      PROVE  t[i].pc = "abort" \/ (t[i].pc = "callback" /\ t[i].r \in D)
  <2>1. CASE j <= Len(u)
    <3>1. j \in 1 .. Len(u) /\ u[j].pc = "~Pool" /\ Len(u) # 1
      BY <1>1, <1>3, <1>6, <2>1
    <3> QED
      BY <3>1 DEF Frames
  <2>2. CASE ~(j <= Len(u)) /\ i <= Len(u)
    <3>1. j - Len(u) \in 1 .. Len(s) /\ s[j - Len(u)].pc = "~Pool" /\ i \in 1 .. Len(u) /\ t[i] = u[i]
      BY <1>3, <1>4, <1>6, <2>2
    <3> QED
      BY <3>1 DEF Frames
  <2>3. CASE ~(j <= Len(u)) /\ ~(i <= Len(u))
    <3>1. j - Len(u) \in 1 .. Len(s) /\ s[j - Len(u)].pc = "~Pool"
          /\ i - Len(u) \in 1 .. Len(s) /\ t[i] = s[i - Len(u)]
      BY <1>4, <1>6, <2>3
    <3>2. i - Len(u) < j - Len(u)
      BY <1>1, <1>6
    <3> QED
      BY <3>1, <3>2 DEF Dissolves
  <2> QED
    BY <2>1, <2>2, <2>3
<1>7. ASSUME NEW i \in 1 .. Len(t), t[i].pc = "abort" PROVE \E j \in i + 1 .. Len(t) : t[j].pc = "~Pool"
  <2>1. CASE i <= Len(u)
    <3>1. i \in 1 .. Len(u) /\ u[i].pc = "abort"
      BY <1>3, <1>7, <2>1
    <3>2. PICK k \in 1 .. Len(s) : s[k].pc = "~Pool"
      BY <3>1 DEF Frames
    <3>3. k + Len(u) \in i + 1 .. Len(t)
      BY <1>1, <3>1
    <3> QED
      BY <1>5, <3>2, <3>3
  <2>2. CASE ~(i <= Len(u))
    <3>1. i - Len(u) \in 1 .. Len(s) /\ s[i - Len(u)].pc = "abort"
      BY <1>4, <1>7, <2>2
    <3>2. PICK k \in (i - Len(u)) + 1 .. Len(s) : s[k].pc = "~Pool"
      BY <3>1 DEF Dissolves
    <3>3. k \in 1 .. Len(s) /\ k + Len(u) \in i + 1 .. Len(t)
      BY <1>1, <3>1, <3>2
    <3> QED
      BY <1>5, <3>2, <3>3
  <2> QED
    BY <2>1, <2>2
<1> QED
  BY <1>6, <1>7 DEF Dissolves, t

-----------------------------------------------------------------------------
(* The life of a request in the structures of the pool *)

\* No callback submits a request.
FromLoopOnly == \A ev \in Events : "request" \notin HandlerCalls[ev]

\* What the user does for the requests to live orderly: a callback deals with
\* its own request only, no request is submitted while it is active, the limit
\* is never 0, no proxy is of a kind that is not supported, and either all
\* requests are submitted from the loop or none is cancelled and none times out.
Orderly ==
  /\ OwnOnly /\ ~Resubmits /\ 0 \notin Limits /\ "proxy" \notin Failures
  /\ \/ FromLoopOnly
     \/ /\ "cancel" \notin LoopCalls /\ \A ev \in Events : "cancel" \notin HandlerCalls[ev]
        /\ Untimed = Requests

\* Request r is on its way to a client; its report is about to be made.
Placing(r) == \E f \in Frames(stack) : f.pc \in {"pool_request", "request"} /\ f.r = r
Notified(r) == \E f \in Frames(stack) : f.pc = "notify" /\ f.r = r

\* Request r is in phase p of RequestLife, and all that the pool, the clients and
\* the request itself say agrees with it.
Lives(r, p) ==
  /\ Placing(r) <=> p = "placing"
  /\ Notified(r) <=> p = "ending"
  /\ \A c \in Clients : client[c].request = r <=> p = "running" /\ req[r].client = c
  /\ p = "running" => req[r].client \in Clients
  /\ p \in {"idle", "placing", "queued"} => req[r].client = 0
  /\ p = "queued" => Queued(r)
  /\ p \in {"placing", "running", "ending"} => ~Queued(r)
  /\ p # "placing" => (req[r].pool <=> p # "idle")
  /\ r \in Untimed => ~req[r].timer
  /\ r \notin Untimed /\ p # "placing" =>
         (req[r].timer <=> req[r].pool) /\ (req[r].listener <=> req[r].pool)

\* What the phases are.
Stages == {"idle", "placing", "queued", "running", "ending"}

\* Every request is in a phase.
AllLive == \A r \in Requests : \E p \in Stages : Lives(r, p)

\* A step that does nothing to request r.
Unmoved(r) ==
  /\ req'[r].pool = req[r].pool /\ req'[r].client = req[r].client
  /\ req'[r].timer = req[r].timer /\ req'[r].listener = req[r].listener
  /\ Placing(r)' <=> Placing(r)
  /\ Notified(r)' <=> Notified(r)
  /\ \A c \in Clients : client'[c].request = r <=> client[c].request = r
  /\ \A n \in NetLocs : r \in Range(queue'[n]) <=> r \in Range(queue[n])

\* A step that takes request r from one phase to another and leaves the others.
Moved(r, from, to) ==
  /\ Lives(r, from) /\ Lives(r, to)'
  /\ \A q \in Requests : q # r => Unmoved(q)

\* A step that leaves request r with its user.
Rests(r) == Lives(r, "idle") /\ Lives(r, "idle")'

\* What is not touched stays in its phase.
LEMMA UnmovedLives ==
  ASSUME NEW r, NEW p, Lives(r, p), Unmoved(r)
  PROVE  Lives(r, p)'
<1>1. Queued(r)' <=> Queued(r)
  BY DEF Unmoved, Queued
<1>2. /\ Placing(r)' <=> Placing(r)
      /\ Notified(r)' <=> Notified(r)
      /\ \A c \in Clients : client'[c].request = r <=> client[c].request = r
      /\ req'[r].pool = req[r].pool /\ req'[r].client = req[r].client
      /\ req'[r].timer = req[r].timer /\ req'[r].listener = req[r].listener
  BY DEF Unmoved
<1> QED
  BY <1>1, <1>2 DEF Lives

\* The phase of a request as RequestLife names it.
LEMMA PhaseIs ==
  ASSUME NEW r \in Requests, NEW p \in Stages, Lives(r, p), stack \in Seq(Frame)
  PROVE  Phase(r) = p
<1>1. DOMAIN stack = 1 .. Len(stack)
  OBVIOUS
<1>2. OnStack({"pool_request", "request"}, r) <=> Placing(r)
  BY <1>1 DEF OnStack, Placing, Frames
<1>3. OnStack({"notify"}, r) <=> Notified(r)
  BY <1>1 DEF OnStack, Notified, Frames
<1>4. Active(r) <=> p = "running"
  BY DEF Lives, Active
<1>5. p \in {"idle", "queued"} => (Queued(r) /\ req[r].pool <=> p = "queued")
  BY DEF Lives
<1>6. (Placing(r) <=> p = "placing") /\ (Notified(r) <=> p = "ending")
  BY DEF Lives
<1>7. p \in {"idle", "placing", "queued", "running", "ending"}
  BY DEF Stages
<1> QED
  BY <1>2, <1>3, <1>4, <1>5, <1>6, <1>7 DEF Phase

\* A request is in one phase only.
LEMMA OnePhase ==
  ASSUME NEW r \in Requests, NEW p \in Stages, NEW q \in Stages, Lives(r, p), Lives(r, q), stack \in Seq(Frame)
  PROVE  p = q
  BY PhaseIs

\* The requests whose phase can be read off.
LEMMA LivesWhere ==
  ASSUME AllLive, Safe, NEW r \in Requests
  PROVE  /\ Placing(r) => Lives(r, "placing")
         /\ Notified(r) => Lives(r, "ending")
         /\ \A c \in Clients : client[c].request = r => Lives(r, "running") /\ req[r].client = c
         /\ req[r].client # 0 /\ ~Notified(r) => Lives(r, "running")
         /\ Queued(r) /\ req[r].pool => Lives(r, "queued")
         /\ ~req[r].pool /\ ~Placing(r) => Lives(r, "idle")
         /\ req[r].pool /\ req[r].client = 0 /\ ~Placing(r) /\ ~Notified(r) => Lives(r, "queued")
<1>1. PICK p \in Stages : Lives(r, p)
  BY DEF AllLive
<1>2. p \in {"idle", "placing", "queued", "running", "ending"}
  BY DEF Stages
<1>3. 0 \notin Clients
  BY DEF Clients
<1>4. Placing(r) => p = "placing"
  BY <1>1 DEF Lives
<1>5. Notified(r) => p = "ending"
  BY <1>1 DEF Lives
<1>6. \A c \in Clients : client[c].request = r => p = "running" /\ req[r].client = c
  BY <1>1 DEF Lives
<1>7. req[r].client # 0 /\ ~Notified(r) => p = "running"
  BY <1>1, <1>2 DEF Lives
<1>8. Queued(r) /\ req[r].pool => p = "queued"
  BY <1>1, <1>2 DEF Lives
<1>9. ~req[r].pool /\ ~Placing(r) => p = "idle"
  BY <1>1, <1>2 DEF Lives
<1>10. req[r].pool /\ req[r].client = 0 /\ ~Placing(r) /\ ~Notified(r) => p = "queued"
  BY <1>1, <1>2, <1>3 DEF Lives
<1> QED
  BY <1>1, <1>4, <1>5, <1>6, <1>7, <1>8, <1>9, <1>10

\* A step that deals with other requests only.
LEMMA Untouched ==
  ASSUME NEW r \in Requests,
         req'[r].pool = req[r].pool /\ req'[r].client = req[r].client,
         req'[r].timer = req[r].timer /\ req'[r].listener = req[r].listener,
         \A f \in Frames(stack') : f.pc \in {"pool_request", "request", "notify"} /\ f.r = r => f \in Frames(stack),
         \A f \in Frames(stack) : f.pc \in {"pool_request", "request", "notify"} /\ f.r = r => f \in Frames(stack'),
         \A c \in Clients : client'[c].request = r <=> client[c].request = r,
         \A n \in NetLocs : r \in Range(queue'[n]) <=> r \in Range(queue[n])
  PROVE  Unmoved(r)
<1>1. Placing(r)' <=> Placing(r)
  BY DEF Placing
<1>2. Notified(r)' <=> Notified(r)
  BY DEF Notified
<1> QED
  BY <1>1, <1>2 DEF Unmoved

\* The phases after a step.
LEMMA LivesOn ==
  ASSUME AllLive, \/ \A q \in Requests : Unmoved(q) \/ Rests(q)
                  \/ \E r \in Requests : \E from \in Stages, to \in Stages : Moved(r, from, to)
  PROVE  AllLive'
<1>1. ASSUME NEW q \in Requests, Unmoved(q) \/ Rests(q) PROVE \E p \in Stages : Lives(q, p)'
  <2>1. CASE Unmoved(q)
    BY <2>1, UnmovedLives DEF AllLive
  <2>2. CASE Rests(q)
    BY <2>2 DEF Rests, Stages
  <2> QED
    BY <1>1, <2>1, <2>2
<1>2. ASSUME NEW r \in Requests, NEW from \in Stages, NEW to \in Stages, Moved(r, from, to)
      PROVE  \A q \in Requests : \E p \in Stages : Lives(q, p)'
  BY <1>1, <1>2 DEF Moved
<1>3. \A q \in Requests : \E p \in Stages : Lives(q, p)'
  BY <1>1, <1>2
<1> QED
  BY <1>3 DEF AllLive

-----------------------------------------------------------------------------
(* What the lives of the requests rest on *)

\* A client that is about to get a request of the pool has none, and what it gets
\* is not what Pool::request() is about to place.
Aside ==
  /\ \A f, g \in Frames(stack) : f.pc = "request" /\ g.pc = "pool_request" => f.r # g.r
  /\ \A f \in Frames(stack) : f.pc = "request" => client[f.c].request = 0 /\ req[f.r].pool

\* A request is in one queue at most, and there once.
Apart ==
  /\ \A n \in NetLocs : \A i, j \in 1 .. Len(queue[n]) : queue[n][i] = queue[n][j] => i = j
  /\ \A n, m \in NetLocs : n # m => Range(queue[n]) \cap Range(queue[m]) = {}

\* The requests that nobody has.
Idles == {r \in Requests : ~req[r].pool /\ req[r].client = 0}

\* The routines that end queued requests; none of them is under way.
Dying == {"~Pool", "abort", "erase"}
Normal == \A f \in Frames(stack) : f.pc \notin Dying

\* While cancel_request() waits to erase a request, which nobody has any more, only
\* callbacks of requests that were reported run.
Told ==
  (\E f \in Frames(stack) : f.pc = "erase") =>
      \A f \in Frames(stack) : f.pc \in {"~Pool", "abort"} \/ (f.pc \in {"erase", "callback"} /\ f.r \in Idles)

\* A request that was reported is in a queue only until cancel_request() or
\* ~Pool() comes back to it.
Ghosts ==
  \A n \in NetLocs : \A r \in Range(queue[n]) : ~req[r].pool =>
      \E f \in Frames(stack) : f.pc = "~Pool" \/ (f.pc = "erase" /\ f.r = r /\ f.n = n)

\* Both have a request of the queue they saw.
Named == \A f \in Frames(stack) : f.pc \in {"abort", "erase"} => f.r \in Range(f.q)

\* ~Pool() has told, or is about to tell, every request of the lists it is done with.
Left ==
  \A f \in Frames(stack) : f.pc = "~Pool" =>
      \A n \in NetLocs \ f.todo : \A r \in Range(queue[n]) :
          req[r].pool => \E g \in Frames(stack) : g.pc = "abort" /\ g.r = r

\* If requests are submitted from the loop only, the request of a callback has a
\* client or is over, and no callback waits for Pool::request(); if none is
\* cancelled, nothing is erased.
Served ==
  /\ FromLoopOnly =>
         /\ \A f \in Frames(stack) : f.pc = "callback" /\ req[f.r].pool => req[f.r].client # 0
         /\ (\E f \in Frames(stack) : f.pc = "pool_request") => \A f \in Frames(stack) : f.pc # "callback"
  /\ ~FromLoopOnly => \A f \in Frames(stack) : f.pc # "erase"

\* A client is in one list at most, and there free or busy.
Slots ==
  \A n, m \in NetLocs : /\ free[n] \cap busy[m] = {}
                        /\ n # m => free[n] \cap free[m] = {} /\ busy[n] \cap busy[m] = {}

\* All of this, and what the proof knows of the stack.
Sound ==
  /\ Shape(stack) /\ Aside /\ Apart /\ Dissolves(stack, Idles) /\ Told /\ Ghosts /\ Named /\ Left /\ Served

\* The inductive invariant of this module.
Live == Safe /\ ListsCounted /\ Waits /\ Slots /\ AllLive /\ Sound

\* The turns a request's life takes.
Turns == {<<"placing", "placing">>, <<"placing", "queued">>, <<"queued", "placing">>,
          <<"placing", "running">>, <<"running", "placing">>, <<"running", "ending">>,
          <<"ending", "idle">>, <<"queued", "idle">>}

\* A step takes no request out of its phase, or one by one turn, or the user
\* submits one.
Advance ==
  \/ (\A q \in Requests : Unmoved(q) \/ Rests(q)) /\ submits' = submits
  \/ \E r \in Requests : \E t \in Turns : Moved(r, t[1], t[2]) /\ submits' = submits
  \/ \E r \in Requests : Moved(r, "idle", "placing") /\ submits' = [submits EXCEPT ![r] = @ + 1]

\* When a routine that has no business with them is on top, none of the routines
\* that end queued requests is under way.
LEMMA NormalIf ==
  ASSUME Live, stack # <<>> => Top.pc \notin Dying /\ ~(Top.pc = "callback" /\ Top.r \in Idles)
  PROVE  Normal
<1> SUFFICES ASSUME NEW f \in Frames(stack), f.pc \in Dying PROVE FALSE
  BY DEF Normal
<1>1. stack \in Seq(Frame) /\ Stacked(stack) /\ Dissolves(stack, Idles)
  BY DEF Live, Safe, TypeOK, Sound
<1>2. stack # <<>>
  BY Empty
<1>3. Top = Head(stack) /\ Frames(stack) = {Top} \cup Frames(Tail(stack))
  BY <1>1, <1>2, Pop DEF Top
<1>4. Top.pc \notin {"~Pool", "abort", "erase"}
  BY <1>2 DEF Dying
<1>5. ASSUME NEW g \in Frames(stack), g.pc = "~Pool" PROVE FALSE
  <2>1. g \in Frames(Tail(stack))
    BY <1>3, <1>4, <1>5
  <2> QED
    BY <1>1, <1>2, <1>3, <1>4, <1>5, <2>1, DissolvesTop
<1>6. CASE f.pc = "~Pool"
  BY <1>5, <1>6
<1>7. CASE f.pc = "abort"
  BY <1>1, <1>2, <1>5, <1>7, DissolvesTop
<1>8. CASE f.pc = "erase"
  BY <1>2, <1>3, <1>4, <1>8 DEF Live, Sound, Told
<1> QED
  BY <1>6, <1>7, <1>8 DEF Dying

\* If none is before and none after a step, there is nothing to show for them.
LEMMA NormalSound ==
  ASSUME Live, Normal, Safe', \A f \in Frames(stack') : f.pc \notin Dying,
         \A q \in Requests : Unmoved(q) \/ (Queued(q)' => req'[q].pool)
  PROVE  Dissolves(stack', Idles') /\ Told' /\ Ghosts' /\ Named' /\ Left'
<1>1. stack' \in Seq(Frame) /\ queue' \in [NetLocs -> Seq(Requests)] /\ queue \in [NetLocs -> Seq(Requests)]
  BY DEF Safe, TypeOK, Live
<1>2. \A f \in Frames(stack') : f.pc \notin {"~Pool", "abort", "erase"}
  BY DEF Dying
<1>3. Dissolves(stack', Idles')
  BY <1>1, <1>2, DissolvesNot
<1>4. Told' /\ Named' /\ Left'
  BY <1>2 DEF Told, Named, Left
<1>5. ASSUME NEW n \in NetLocs, NEW r \in Range(queue'[n]) PROVE req'[r].pool
  <2>1. r \in Requests
    BY <1>1 DEF Range
  <2>2. Queued(r)'
    BY <1>5 DEF Queued
  <2>3. CASE Unmoved(r)
    <3>1. r \in Range(queue[n]) /\ req'[r].pool = req[r].pool
      BY <2>1, <2>3 DEF Unmoved
    <3> QED
      BY <3>1 DEF Live, Sound, Ghosts, Normal, Dying
  <2> QED
    BY <2>1, <2>2, <2>3
<1>6. Ghosts'
  BY <1>5 DEF Ghosts
<1> QED
  BY <1>3, <1>4, <1>6

\* A step in which nothing happens to any request.
LEMMA NothingMoves ==
  ASSUME Live, Normal, Safe', UNCHANGED <<queue, submits>>, Shape(stack'),
         \A c \in Clients : client'[c].request = client[c].request,
         \A r \in Requests : /\ req'[r].pool = req[r].pool /\ req'[r].client = req[r].client
                             /\ req'[r].timer = req[r].timer /\ req'[r].listener = req[r].listener,
         \A f \in Frames(stack') :
             \/ f \in Frames(stack)
             \/ f.pc \in {"on_read", "redirected"}
             \/ f.pc = "callback" /\ req[f.r].client # 0 /\ Still(stack),
         \A f \in Frames(stack) : f.pc \in {"pool_request", "request", "notify"} => f \in Frames(stack')
  PROVE  Sound' /\ Advance
<1>1. stack' \in Seq(Frame) /\ stack \in Seq(Frame)
  BY DEF Safe, TypeOK, Live
<1>2. ASSUME NEW q \in Requests PROVE Unmoved(q)
  BY Untouched
<1>3. \A f \in Frames(stack') : f.pc \in Passing \cup Dying => f \in Frames(stack)
  BY DEF Passing, Dying
<1>4. Dissolves(stack', Idles') /\ Told' /\ Ghosts' /\ Named' /\ Left'
  <2>1. \A f \in Frames(stack') : f.pc \notin Dying
    BY <1>3 DEF Normal
  <2> QED
    BY <1>2, <2>1, NormalSound
<1>5. Aside'
  <2>1. \A f \in Frames(stack') : f.pc \in {"request", "pool_request"} => f \in Frames(stack)
    BY <1>3 DEF Passing
  <2>2. \A f \in Frames(stack') : f.pc = "request" =>
            client'[f.c].request = client[f.c].request /\ req'[f.r].pool = req[f.r].pool
    BY <1>1, FramesAreFrames, FrameFields
  <2> QED
    BY <2>1, <2>2 DEF Live, Sound, Aside
<1>6. Apart'
  BY DEF Live, Sound, Apart
<1>7. Served'
  <2>1. \A f \in Frames(stack') : f.pc = "callback" => f.r \in Requests
    BY <1>1, FramesAreFrames, FrameFields
  <2>2. ASSUME FromLoopOnly, NEW f \in Frames(stack'), f.pc = "callback", req'[f.r].pool
        PROVE  req'[f.r].client # 0
    BY <2>1, <2>2 DEF Live, Sound, Served
  <2>3. ASSUME FromLoopOnly, NEW g \in Frames(stack'), g.pc = "pool_request",
               NEW f \in Frames(stack'), f.pc = "callback"
        PROVE  FALSE
    <3>1. g \in Frames(stack) /\ ~Still(stack)
      BY <1>3, <2>3 DEF Still, Passing
    <3> QED
      BY <2>3, <3>1 DEF Live, Sound, Served
  <2>4. ~FromLoopOnly => \A f \in Frames(stack') : f.pc # "erase"
    BY <1>3 DEF Dying, Live, Sound, Served
  <2> QED
    BY <2>2, <2>3, <2>4 DEF Served
<1>8. Sound'
  BY <1>4, <1>5, <1>6, <1>7 DEF Sound
<1> QED
  BY <1>2, <1>8 DEF Advance

\* A step that leaves all of this alone.
LEMMA SoundAlone ==
  ASSUME Live, UNCHANGED <<queue, client, req, submits, stack>>
  PROVE  Sound' /\ Advance
<1>1. Sound'
  <2>1. Idles' = Idles
    BY DEF Idles
  <2>2. Shape(stack') /\ Dissolves(stack', Idles')
    BY <2>1 DEF Live, Sound
  <2>3. Aside' /\ Apart' /\ Named' /\ Left' /\ Served'
    <3>1. Aside /\ Apart /\ Named /\ Left /\ Served
      BY DEF Live, Sound
    <3>2. Aside' /\ Apart'
      BY <3>1 DEF Aside, Apart
    <3>3. Named' /\ Left'
      BY <3>1 DEF Named, Left
    <3>4. Served'
      BY <3>1 DEF Served
    <3> QED
      BY <3>2, <3>3, <3>4
  <2>4. Told' /\ Ghosts'
    BY <2>1 DEF Live, Sound, Told, Ghosts
  <2> QED
    BY <2>2, <2>3, <2>4 DEF Sound
<1>2. ASSUME NEW q \in Requests PROVE Unmoved(q)
  BY Untouched
<1> QED
  BY <1>1, <1>2 DEF Advance

\* A callback returns.
LEMMA ReturnLives ==
  ASSUME Live, Safe', Return
  PROVE  Sound' /\ Advance
<1>1. At("callback") /\ Goto(<<>>) /\ UNCHANGED <<queue, client, req, submits>> /\ Safe
  BY DEF Return, Leave, slots, Live
<1>2. stack' = Tail(stack) /\ stack' \in Seq(Frame)
  BY <1>1, Returns
<1>3. stack \in Seq(Frame) /\ stack # <<>> /\ Top.pc = "callback" /\ Top = Head(stack)
      /\ Frames(stack) = {Top} \cup Frames(stack')
  BY <1>1, <1>2, OnTop
<1>4. Shape(stack') /\ Dissolves(stack', Idles')
  <2>1. Idles' = Idles
    BY <1>1 DEF Idles
  <2> QED
    BY <1>2, <1>3, <2>1, ShapePop, DissolvesTop DEF Live, Sound
<1>5. ASSUME NEW q \in Requests PROVE Unmoved(q)
  BY <1>1, <1>3, Untouched
<1>6. Aside' /\ Apart' /\ Named'
  BY <1>1, <1>3 DEF Live, Sound, Aside, Apart, Named
<1>7. Told' /\ Ghosts' /\ Left'
  <2>1. Idles' = Idles
    BY <1>1 DEF Idles
  <2>2. \A f \in Frames(stack) : f.pc # "callback" => f \in Frames(stack')
    BY <1>3
  <2>3. Told'
    BY <1>3, <2>1 DEF Live, Sound, Told
  <2>4. Ghosts'
    BY <1>1, <1>3, <2>2 DEF Live, Sound, Ghosts
  <2>5. Left'
    BY <1>1, <1>3, <2>2 DEF Live, Sound, Left
  <2> QED
    BY <2>3, <2>4, <2>5
<1>8. Served'
  BY <1>1, <1>3 DEF Live, Sound, Served
<1>9. Sound'
  BY <1>4, <1>6, <1>7, <1>8 DEF Sound
<1> QED
  BY <1>1, <1>5, <1>9 DEF Advance

-----------------------------------------------------------------------------
(* What is done to the records *)

\* Forms and resets leave the life of a request alone.
LEMMA FormsKeep ==
  ASSUME NEW q \in Request, NEW i, NEW c
  PROVE  LET a == Started(q, i, c)
             b == Stopped(q, i)
         IN  /\ a.pool = q.pool /\ a.client = q.client /\ a.timer = q.timer /\ a.listener = q.listener
             /\ b.pool = q.pool /\ b.client = q.client /\ b.timer = q.timer /\ b.listener = q.listener
  BY DEF Started, Stopped, Request

\* ensure_timer_active().
LEMMA TimerSet ==
  ASSUME NEW q \in Request, NEW r
  PROVE  LET a == Timed(q, r)
         IN  /\ a.pool = q.pool /\ a.client = q.client
             /\ r \in Untimed => a.timer = q.timer /\ a.listener = q.listener
             /\ r \notin Untimed => a.timer /\ a.listener
  BY DEF Timed, Request

\* What finish_and_notify() makes of a request.
LEMMA ReportEnds ==
  ASSUME NEW q \in Request
  PROVE  LET a == Reported(q)
         IN  ~a.pool /\ a.client = 0 /\ ~a.timer /\ ~a.listener
  BY DEF Reported, cleanup_after_redirect, Request

\* What cleanup_after_redirect() makes of it.
LEMMA CleanupKeeps ==
  ASSUME NEW q \in Request
  PROVE  LET a == cleanup_after_redirect(q)
         IN  a.pool = q.pool /\ a.client = 0 /\ a.timer = q.timer
  BY DEF cleanup_after_redirect, Request

\* A reset of the connection leaves the client its request.
LEMMA ResetKeeps ==
  ASSUME NEW cl \in Client
  PROVE  /\ Reset(cl).request = cl.request
         /\ \A keep \in BOOLEAN : Finished(cl, keep).request = 0
         /\ \A x : [cl EXCEPT !.pool = x].request = cl.request
         /\ \A x : [cl EXCEPT !.field = x].request = cl.request
         /\ \A x : [cl EXCEPT !.conn = x].request = cl.request
         /\ \A x : [cl EXCEPT !.owed = x].request = cl.request
         /\ \A x : [cl EXCEPT !.weak = x].request = cl.request
  BY DEF Reset, Finished, Client

\* One client is changed and keeps its request.
LEMMA OneClient ==
  ASSUME Safe, NEW c \in Clients, NEW cl, client' = [client EXCEPT ![c] = cl], cl.request = client[c].request
  PROVE  \A d \in Clients : client'[d].request = client[d].request
<1>1. client \in [Clients -> Client]
  BY DEF Safe, TypeOK
<1> QED
  BY <1>1

\* One request is changed and its life is not.
LEMMA OneRequest ==
  ASSUME Safe, NEW r \in Requests, NEW q, req' = [req EXCEPT ![r] = q],
         q.pool = req[r].pool, q.client = req[r].client, q.timer = req[r].timer, q.listener = req[r].listener
  PROVE  \A x \in Requests : /\ req'[x].pool = req[x].pool /\ req'[x].client = req[x].client
                             /\ req'[x].timer = req[x].timer /\ req'[x].listener = req[x].listener
<1>1. req \in [Requests -> Request]
  BY DEF Safe, TypeOK
<1> QED
  BY <1>1

-----------------------------------------------------------------------------
(* The actions that leave the lives of the requests alone *)

\* Nothing passes on a stack without the routines that pass requests on.
LEMMA StillShape ==
  ASSUME NEW s, \A f \in Frames(s) : f.pc \notin {"notify", "pool_request", "request", "putback", "weaken"}
  PROVE  Still(s) /\ Shape(s)
  BY DEF Still, Shape, Passing

\* Between events nothing is under way.
LEMMA AtLoop ==
  ASSUME Live, stack = <<>>
  PROVE  Normal /\ Frames(stack) = {} /\ Still(stack)
  BY Empty DEF Normal, Still

\* A routine other than a callback on top.
LEMMA AtTop ==
  ASSUME Live, NEW pc, At(pc), pc \notin Dying \cup {"callback"}
  PROVE  Normal
  BY NormalIf DEF At

\* An assertion fails.
LEMMA AbortLives ==
  ASSUME Live, NEW why, Abort(why)
  PROVE  Sound' /\ Advance
  BY SoundAlone DEF Abort, slots

\* The limit or the idle timeout is set.
LEMMA SettingLives ==
  ASSUME Live, NEW x, SetMaxConnections(x) \/ SetIdleTimeout(x)
  PROVE  Sound' /\ Advance
  BY SoundAlone DEF SetMaxConnections, SetIdleTimeout, slots

\* A connection is made.
LEMMA OnConnectLives ==
  ASSUME Live, Safe', NEW c \in Clients, OnConnect(c)
  PROVE  Sound' /\ Advance
<1>1. stack = <<>> /\ UNCHANGED <<queue, req, submits, stack>> /\ client' = [client EXCEPT ![c].conn = "connected"]
  BY DEF OnConnect, Loop, slots
<1>2. Normal /\ Frames(stack) = {} /\ Still(stack)
  BY <1>1, AtLoop
<1>3. Safe /\ client[c] \in Client
  BY DEF Live, Safe, TypeOK
<1>4. \A d \in Clients : client'[d].request = client[d].request
  BY <1>1, <1>3, ResetKeeps, OneClient
<1>5. Shape(stack')
  BY <1>1 DEF Live, Sound
<1> QED
  BY <1>1, <1>2, <1>4, <1>5, NothingMoves

\* Bytes come in.
LEMMA OnReadLives ==
  ASSUME Live, Safe', NEW c \in Clients, NEW buf \in Buffers, OnRead(c, buf)
  PROVE  Sound' /\ Advance
<1> DEFINE f == OnReadFrame(c, buf, Due(client[c]))
           o == IF Range(buf) \subseteq {"continue", "part", "bad"} \/ client[c].owed = <<>>
                THEN client[c].owed ELSE Tail(client[c].owed)
<1>1. stack = <<>> /\ UNCHANGED <<queue, req, submits>> /\ stack' = <<f>>
  BY DEF OnRead, Loop, slots
<1>2. Normal /\ Frames(stack) = {} /\ Still(stack)
  BY <1>1, AtLoop
<1>3. Safe /\ client[c] \in Client /\ client \in [Clients -> Client]
  BY DEF Live, Safe, TypeOK
<1>4. client' = [client EXCEPT ![c] = [client[c] EXCEPT !.owed = o]]
  BY <1>3 DEF OnRead
<1>5. \A d \in Clients : client'[d].request = client[d].request
  <2> HIDE DEF o
  <2> QED
    BY <1>3, <1>4, ResetKeeps, OneClient
<1>6. f.pc = "on_read"
  BY DEF OnReadFrame
<1> HIDE DEF f
<1>7. Frames(stack') = {f}
  <2>1. Len(stack') = 1 /\ stack'[1] = f
    BY <1>1
  <2> QED
    BY <2>1 DEF Frames
<1>8. Shape(stack')
  BY <1>6, <1>7, StillShape
<1> QED
  BY <1>1, <1>2, <1>5, <1>6, <1>7, <1>8, NothingMoves

\* The server closes the connection.
LEMMA OnEofLives ==
  ASSUME Live, Safe', NEW c \in Clients, NEW m, OnEof(c, m)
  PROVE  Sound' /\ Advance
<1> DEFINE f == OnReadFrame(c, <<m>>, Due(client[c]))
<1>1. stack = <<>> /\ UNCHANGED <<queue, req, submits>>
  BY DEF OnEof, Loop, slots
<1>2. Normal /\ Frames(stack) = {} /\ Still(stack)
  BY <1>1, AtLoop
<1>3. Safe /\ client[c] \in Client /\ client \in [Clients -> Client]
  BY DEF Live, Safe, TypeOK
<1>4. CASE client' = [client EXCEPT ![c] = Reset(@)] /\ UNCHANGED stack
  <2>1. client' = [client EXCEPT ![c] = Reset(client[c])]
    BY <1>3, <1>4
  <2>2. \A d \in Clients : client'[d].request = client[d].request
    BY <1>3, <2>1, ResetKeeps, OneClient
  <2>3. Shape(stack')
    BY <1>4 DEF Live, Sound
  <2> QED
    BY <1>1, <1>2, <1>4, <2>2, <2>3, NothingMoves
<1>5. CASE stack' = <<f>> /\ UNCHANGED client
  <2>1. f.pc = "on_read"
    BY DEF OnReadFrame
  <2> HIDE DEF f
  <2>2. Frames(stack') = {f}
    <3>1. Len(stack') = 1 /\ stack'[1] = f
      BY <1>5
    <3> QED
      BY <3>1 DEF Frames
  <2>3. Shape(stack')
    BY <2>1, <2>2, StillShape
  <2> QED
    BY <1>1, <1>2, <1>5, <2>1, <2>2, <2>3, NothingMoves
<1> QED
  BY <1>4, <1>5 DEF OnEof

\* on_read() is done with its buffer.
LEMMA ReadEndLives ==
  ASSUME Live, Safe', ReadEnd
  PROVE  Sound' /\ Advance
<1>1. At("on_read") /\ Goto(<<>>) /\ UNCHANGED <<queue, req, submits>> /\ Safe
  BY DEF ReadEnd, slots, Live
<1>2. Normal
  BY <1>1, AtTop DEF Dying
<1>3. Tail(stack) = <<>> /\ Frames(stack) = {Top} /\ Top.c \in Clients /\ Top.pc = "on_read"
  BY <1>1, ReadAlone DEF At
<1>4. Frames(stack') = {}
  BY <1>1, <1>3, Returns, Empty
<1>5. client[Top.c] \in Client /\ client \in [Clients -> Client]
  BY <1>1, <1>3 DEF Safe, TypeOK
<1>6. \A d \in Clients : client'[d].request = client[d].request
  <2>1. CASE UNCHANGED client
    BY <2>1
  <2>2. CASE client' = [client EXCEPT ![Top.c] = Reset(@)]
    <3>1. client' = [client EXCEPT ![Top.c] = Reset(client[Top.c])]
      BY <1>5, <2>2
    <3> QED
      BY <1>1, <1>3, <1>5, <3>1, ResetKeeps, OneClient
  <2> QED
    BY <2>1, <2>2 DEF ReadEnd
<1>7. Shape(stack')
  BY <1>4, StillShape
<1> QED
  BY <1>1, <1>2, <1>3, <1>4, <1>6, <1>7, NothingMoves

\* The request of a client that reads is running.
LEMMA ParsedRuns ==
  ASSUME Live, NEW ms, Parses(ms)
  PROVE  LET r == client[Top.c].request
         IN  /\ r \in Requests /\ r # 0 /\ Lives(r, "running") /\ req[r].client = Top.c /\ req[r].client # 0
             /\ Normal /\ Still(stack)
<1> DEFINE r == client[Top.c].request
<1>1. At("on_read") /\ Top.c \in Clients /\ r \in Requests /\ r # 0 /\ Frames(stack) = {Top} /\ Top.pc = "on_read"
  BY ParsesForRequest DEF Live
<1>2. Lives(r, "running") /\ req[r].client = Top.c
  BY <1>1, LivesWhere DEF Live
<1>3. 0 \notin Clients
  BY DEF Clients
<1>4. Normal
  BY <1>1, AtTop DEF Dying
<1>5. Still(stack)
  BY <1>1 DEF Still, Passing
<1> QED
  BY <1>1, <1>2, <1>3, <1>4, <1>5

\* A part of a response, or a 100.
LEMMA InterimLives ==
  ASSUME Live, Safe', Interim
  PROVE  Sound' /\ Advance
<1> DEFINE r == client[Top.c].request
           f == Callback(IF Head(Top.buf) = "part" THEN "partial" ELSE "continue", r, TRUE, Top.from)
           g == NextTurn
<1>1. Parses({"part", "continue"}) /\ Goto(<<f, g>>) /\ UNCHANGED <<queue, client, req, submits>> /\ Safe
  BY DEF Interim, slots, Live
<1>2. /\ g \in Frame /\ g.pc = "on_read" /\ Frames(stack) = {Top} /\ Top.pc = "on_read" /\ Tail(stack) = <<>>
      /\ Top.from \in 0 .. MaxRequests
  BY <1>1, ParsesForRequest
<1>3. r \in Requests /\ req[r].client # 0 /\ Normal /\ Still(stack)
  BY <1>1, ParsedRuns
<1>4. f \in Frame
  BY <1>2, <1>3, MadeFrames DEF Events
<1>5. f.pc = "callback" /\ f.r = r
  BY DEF Callback
<1> HIDE DEF f, g
<1>6. Frames(stack') = {f, g}
  <2>1. <<f, g>> \in Seq(Frame) /\ Frames(<<f, g>>) = {f, g}
    BY <1>2, <1>4, FewFrames
  <2>2. stack' = <<f, g>> \o <<>>
    BY <1>1, <1>2 DEF Goto
  <2> QED
    BY <2>1, <2>2, Empty, FramesTogether
<1>7. Shape(stack')
  BY <1>2, <1>5, <1>6, StillShape
<1> QED
  BY <1>1, <1>2, <1>3, <1>5, <1>6, <1>7, NothingMoves

\* weak(true) between putback() and Pool::request().
LEMMA WeakenLives ==
  ASSUME Live, Safe', Weaken
  PROVE  Sound' /\ Advance
<1>1. At("weaken") /\ Goto(<<>>) /\ UNCHANGED <<queue, req, submits>> /\ Safe
      /\ client' = [client EXCEPT ![Top.c].weak = TRUE]
  BY DEF Weaken, slots, Live
<1>2. Normal
  BY <1>1, AtTop DEF Dying
<1>3. /\ stack' = Tail(stack) /\ stack \in Seq(Frame) /\ stack # <<>> /\ Top = Head(stack) /\ Top \in Frame
      /\ Top.pc = "weaken" /\ Frames(stack) = {Top} \cup Frames(stack')
  BY <1>1, Returns, OnTop
<1>4. Top.c \in Clients
  BY <1>3, FrameFields
<1>5. client[Top.c] \in Client /\ client \in [Clients -> Client]
  BY <1>1, <1>4 DEF Safe, TypeOK
<1>6. \A d \in Clients : client'[d].request = client[d].request
  BY <1>1, <1>4, <1>5, ResetKeeps, OneClient
<1>7. Shape(stack')
  BY <1>3, ShapePop DEF Live, Sound
<1> QED
  BY <1>1, <1>2, <1>3, <1>6, <1>7, NothingMoves

\* A chunk is sent, and never for a client that has another request.
LEMMA SendChunkLives ==
  ASSUME Live, Safe', Orderly, NEW r \in Requests, NEW final \in BOOLEAN, SendChunk(r, final)
  PROVE  Sound' /\ Advance
<1>1. req[r].client # 0 /\ Holds(r) /\ fault = "none" /\ Safe
      /\ \E call : UserMay(call)
  BY DEF SendChunk, UserMay, Live
<1>2. CASE Abort("send: not active")
  BY <1>2, AbortLives
<1>3. CASE req' = [req EXCEPT ![r].transferred = final] /\ UNCHANGED <<pool, slots, client, submits, stack, fault>>
  <2>1. UNCHANGED <<queue, client, submits, stack>>
    BY <1>3 DEF slots
  <2>2. stack # <<>> => Top.pc = "callback" /\ Top.r = r
    BY <1>1 DEF UserMay, Holds, Orderly
  <2>3. Normal
    BY <1>1, <2>2, NormalIf DEF Idles, Dying
  <2>4. req \in [Requests -> Request]
    BY <1>1 DEF Safe, TypeOK
  <2>5. \A x \in Requests : /\ req'[x].pool = req[x].pool /\ req'[x].client = req[x].client
                            /\ req'[x].timer = req[x].timer /\ req'[x].listener = req[x].listener
    BY <1>3, <2>4 DEF Request
  <2>6. Shape(stack')
    BY <2>1 DEF Live, Sound
  <2> QED
    BY <2>1, <2>3, <2>5, <2>6, NothingMoves
<1> QED
  BY <1>2, <1>3, Zenon DEF SendChunk

\* redirect_event gives the request its SSL context back.
LEMMA RestoreContextLives ==
  ASSUME Live, Safe', RestoreContext
  PROVE  Sound' /\ Advance
<1>1. UserMay("restore") /\ InRedirect /\ Safe /\ UNCHANGED <<queue, client, submits, stack>>
      /\ req' = [req EXCEPT ![Top.r].netloc.ctx = stack[2].ctx]
  BY DEF RestoreContext, slots, Live
<1>2. Top.r \in Requests /\ stack[2] \in Frames(stack) /\ stack[2].pc = "redirected"
      /\ \A f \in Frames(stack) : f.pc # "~Pool"
  BY <1>1, RedirectAlone
<1>3. Normal
  <2> SUFFICES ASSUME NEW f \in Frames(stack), f.pc \in Dying PROVE FALSE
    BY DEF Normal
  <2>1. stack \in Seq(Frame) /\ stack # <<>>
    BY <1>1 DEF Safe, TypeOK, InRedirect
  <2>2. f.pc # "abort"
    BY <1>2, <2>1, DissolvesTop DEF Live, Sound
  <2>3. f.pc # "erase"
    BY <1>2 DEF Live, Sound, Told, Dying
  <2> QED
    BY <1>2, <2>2, <2>3 DEF Dying
<1>4. req \in [Requests -> Request]
  BY <1>1 DEF Safe, TypeOK
<1>5. \A x \in Requests : /\ req'[x].pool = req[x].pool /\ req'[x].client = req[x].client
                          /\ req'[x].timer = req[x].timer /\ req'[x].listener = req[x].listener
  BY <1>1, <1>2, <1>4 DEF Request
<1>6. Shape(stack')
  BY <1>1 DEF Live, Sound
<1> QED
  BY <1>1, <1>3, <1>5, <1>6, NothingMoves

-----------------------------------------------------------------------------
(* The end of a request that has a client *)

\* What finish_request() leaves on the stack.
LEMMA EndingFrames ==
  ASSUME Safe, NEW c \in Clients, NEW ok \in BOOLEAN, NEW from \in 0 .. MaxRequests, NEW rest \in Seq(Frame),
         Still(rest), client[c].request \in Requests
  PROVE  LET n == [pc |-> "notify", r |-> client[c].request, ok |-> ok, from |-> from]
             s == Ending(c, ok, from) \o rest
         IN  /\ Shape(s) /\ n \in Frames(s)
             /\ \A f \in Frames(s) : f = n \/ f.pc = "putback" \/ f \in Frames(rest)
             /\ Frames(rest) \subseteq Frames(s)
<1> DEFINE n == [pc |-> "notify", r |-> client[c].request, ok |-> ok, from |-> from]
           p == AtClient("putback", c)
           t == <<n>> \o rest
<1>1. n \in Frame /\ p \in Frame
  BY MadeFrames
<1>2. n.pc = "notify" /\ p.pc = "putback"
  BY DEF AtClient
<1>3. Ending(c, ok, from) = (IF client[c].pool THEN <<p>> ELSE <<>>) \o <<n>>
  BY Zenon DEF Ending
<1> HIDE DEF n, p
<1>4. <<n>> \in Seq(Frame) /\ Frames(<<n>>) = {n} /\ <<p>> \in Seq(Frame) /\ Frames(<<p>>) = {p}
  BY <1>1, FewFrames
<1>5. t \in Seq(Frame) /\ Frames(t) = {n} \cup Frames(rest)
  <2> DEFINE a == <<n>>
  <2>1. a \in Seq(Frame) /\ Frames(a) = {n} /\ t = a \o rest
    BY <1>4
  <2> HIDE DEF a, t
  <2>2. a \o rest \in Seq(Frame)
    BY <2>1, ConcatProperties
  <2> QED
    BY <2>1, <2>2, FramesTogether
<1>6. Shape(t) /\ Reports(t)
  BY <1>1, <1>2, ShapePush
<1>7. Ending(c, ok, from) \o rest = IF client[c].pool THEN <<p>> \o t ELSE t
  <2>1. (<<p>> \o <<n>>) \o rest = <<p>> \o (<<n>> \o rest)
    BY <1>4, ConcatAssociative
  <2>2. <<>> \o <<n>> = <<n>>
    OBVIOUS
  <2> QED
    BY <1>3, <2>1, <2>2
<1> DEFINE s == Ending(c, ok, from) \o rest
           u == <<p>> \o t
<1> HIDE DEF t
<1>8. u # <<>> /\ Head(u) = p /\ Tail(u) = t
  BY <1>5
<1>9. Frames(u) = {p} \cup Frames(t)
  BY <1>4, <1>5, FramesTogether
<1> HIDE DEF u
<1>10. Shape(u)
  BY <1>2, <1>6, <1>8 DEF Shape
<1>11. s = u \/ s = t
  BY <1>7 DEF u
<1> HIDE DEF s
<1>12. /\ Shape(s) /\ n \in Frames(s)
       /\ \A f \in Frames(s) : f = n \/ f.pc = "putback" \/ f \in Frames(rest)
       /\ Frames(rest) \subseteq Frames(s)
  BY <1>2, <1>5, <1>6, <1>9, <1>10, <1>11
<1> QED
  BY <1>12 DEF s, n

\* finish_request(): the request is about to be reported.
LEMMA FinishRequestLives ==
  ASSUME Live, Safe', NEW c \in Clients, NEW cl \in Client, NEW keep \in BOOLEAN, NEW ok \in BOOLEAN,
         NEW from \in 0 .. MaxRequests, NEW rest \in Seq(Frame),
         FinishRequest(c, cl, keep, ok, from, rest), cl.request = client[c].request, cl.request # 0,
         Normal, Still(stack),
         \A f \in Frames(rest) : f \in Frames(stack) \/ f.pc = "on_read"
  PROVE  Sound' /\ Advance
<1>0. Safe /\ client[c].request \in Requests
  BY HasRequest DEF Live
<1>1. PICK r \in Requests : r = client[c].request
  BY <1>0
<1> DEFINE n == [pc |-> "notify", r |-> r, ok |-> ok, from |-> from]
<1>2. Lives(r, "running") /\ req[r].client = c
  BY <1>0, <1>1, LivesWhere DEF Live
<1>3. CASE Abort("form: no such item")
  BY <1>3, AbortLives
<1>4. CASE /\ client' = [client EXCEPT ![c] = Finished(cl, keep)]
           /\ req' = [req EXCEPT ![cl.request] = Stopped(@, cl.field)]
           /\ stack' = Ending(c, ok, from) \o rest
           /\ UNCHANGED <<pool, slots, submits, fault>>
  <2>1. UNCHANGED <<queue, submits>>
    BY <1>4 DEF slots
  <2>2. Still(rest)
    BY DEF Still, Passing
  <2>3. /\ Shape(stack') /\ n \in Frames(stack')
        /\ \A f \in Frames(stack') : f = n \/ f.pc = "putback" \/ f \in Frames(rest)
    BY <1>0, <1>1, <1>4, <2>2, EndingFrames
  <2>4. n.pc = "notify" /\ n.r = r
    OBVIOUS
  <2> HIDE DEF n
  <2>5. \A f \in Frames(stack) : f.pc \notin {"pool_request", "request", "notify"}
    BY DEF Still, Passing
  <2>6. \A f \in Frames(stack') : f = n \/ f.pc \in {"putback", "on_read"} \/ f \in Frames(stack)
    BY <2>3
  <2>7. req \in [Requests -> Request] /\ client \in [Clients -> Client]
    BY <1>0 DEF Safe, TypeOK
  <2>8. req' = [req EXCEPT ![r] = Stopped(req[r], cl.field)]
    BY <1>1, <1>4, <2>7
  <2>9. \A x \in Requests : /\ req'[x].pool = req[x].pool /\ req'[x].client = req[x].client
                            /\ req'[x].timer = req[x].timer /\ req'[x].listener = req[x].listener
    <3> DEFINE q == Stopped(req[r], cl.field)
    <3>1. q.pool = req[r].pool /\ q.client = req[r].client /\ q.timer = req[r].timer /\ q.listener = req[r].listener
      BY <2>7, FormsKeep
    <3>2. req' = [req EXCEPT ![r] = q]
      BY <2>8
    <3> HIDE DEF q
    <3> QED
      BY <1>0, <3>1, <3>2, OneRequest
  <2>10. \A d \in Clients : client'[d].request = IF d = c THEN 0 ELSE client[d].request
    <3>1. Finished(cl, keep).request = 0
      BY ResetKeeps
    <3> QED
      BY <1>4, <2>7, <3>1
  <2>11. \A d \in Clients : client[d].request = r => d = c
    BY <1>2 DEF Lives
  <2>12. ASSUME NEW q \in Requests, q # r PROVE Unmoved(q)
    <3>1. \A d \in Clients : client'[d].request = q <=> client[d].request = q
      <4>1. q # 0
        BY DEF Requests
      <4> QED
        BY <1>1, <2>10, <2>12, <4>1
    <3>2. \A f \in Frames(stack') : f.pc \in {"pool_request", "request", "notify"} /\ f.r = q => f \in Frames(stack)
      BY <2>4, <2>6, <2>12
    <3> QED
      BY <2>1, <2>5, <2>9, <3>1, <3>2, Untouched
  <2>13. Lives(r, "ending")'
    <3>1. Notified(r)'
      BY <2>3, <2>4 DEF Notified
    <3>2. ~Placing(r)'
      BY <2>4, <2>5, <2>6 DEF Placing
    <3>3. \A d \in Clients : client'[d].request # r
      <4>1. r # 0
        BY DEF Requests
      <4> QED
        BY <2>10, <2>11, <4>1
    <3>4. ~Queued(r)'
      BY <1>2, <2>1 DEF Lives, Queued
    <3>5. req'[r].pool /\ (r \in Untimed => ~req'[r].timer) /\ (r \notin Untimed => req'[r].timer /\ req'[r].listener)
      BY <1>1, <1>2, <2>9 DEF Lives
    <3> QED
      BY <3>1, <3>2, <3>3, <3>4, <3>5 DEF Lives
  <2>14. Moved(r, "running", "ending")
    BY <1>2, <2>12, <2>13 DEF Moved
  <2>15. \A f \in Frames(stack') : f.pc \notin Dying
    BY <2>4, <2>6 DEF Normal, Dying
  <2>16. Dissolves(stack', Idles') /\ Told' /\ Ghosts' /\ Named' /\ Left'
    <3>1. ~Queued(r)'
      BY <2>13 DEF Lives
    <3>2. \A q \in Requests : Unmoved(q) \/ (Queued(q)' => req'[q].pool)
      BY <2>12, <3>1
    <3> QED
      BY <2>15, <3>2, NormalSound
  <2>17. Aside' /\ Apart'
    <3>1. \A f \in Frames(stack') : f.pc # "request"
      BY <2>4, <2>5, <2>6
    <3> QED
      BY <2>1, <3>1 DEF Aside, Apart, Live, Sound
  <2>18. Served'
    <3>1. \A f \in Frames(stack') : f.pc \notin {"pool_request", "erase"}
      BY <2>4, <2>5, <2>6, <2>15 DEF Dying
    <3>2. \A f \in Frames(stack') : f.pc = "callback" => f \in Frames(stack) /\ f.r \in Requests
      <4>1. stack \in Seq(Frame)
        BY <1>0 DEF Safe, TypeOK
      <4> QED
        BY <2>4, <2>6, <4>1, FramesAreFrames, FrameFields
    <3> QED
      BY <2>9, <3>1, <3>2 DEF Served, Live, Sound
  <2>19. Sound'
    BY <2>3, <2>16, <2>17, <2>18 DEF Sound
  <2>20. <<"running", "ending">> \in Turns
    BY DEF Turns
  <2> QED
    BY <1>1, <2>1, <2>14, <2>19, <2>20 DEF Advance
<1> QED
  BY <1>3, <1>4, Zenon DEF FinishRequest

\* cancel() of a client.
LEMMA CancelLives ==
  ASSUME Live, Safe', NEW c \in Clients, NEW rest \in Seq(Frame), Cancel(c, rest), Normal, Still(stack),
         \A f \in Frames(rest) : f \in Frames(stack) \/ f.pc = "on_read"
  PROVE  Sound' /\ Advance
<1> DEFINE cl == [client[c] EXCEPT !.expects = FALSE, !.redirectCanceled = @ \/ client[c].inRedirect]
<1>1. client[c].request # 0 /\ FinishRequest(c, cl, FALSE, FALSE, 0, rest)
  BY DEF Cancel
<1>2. client[c] \in Client
  BY DEF Live, Safe, TypeOK
<1>3. cl \in Client /\ cl.request = client[c].request
  BY <1>2 DEF Client
<1> HIDE DEF cl
<1> QED
  BY <1>1, <1>3, NoneIsThere, FinishRequestLives

\* A stream fails.
LEMMA OnErrorLives ==
  ASSUME Live, Safe', NEW c \in Clients, OnError(c)
  PROVE  Sound' /\ Advance
<1>1. stack = <<>> /\ Cancel(c, <<>>)
  BY DEF OnError, Loop
<1>2. Normal /\ Still(stack)
  BY <1>1, AtLoop
<1> QED
  BY <1>1, <1>2, Empty, CancelLives

\* The parser finds an error.
LEMMA ParseErrorLives ==
  ASSUME Live, Safe', ParseError
  PROVE  Sound' /\ Advance
<1>1. Parses({"bad"}) /\ Cancel(Top.c, Tail(stack))
  BY DEF ParseError
<1>2. Top.c \in Clients /\ Tail(stack) = <<>>
  BY <1>1, ParsesForRequest DEF Live
<1>3. Normal /\ Still(stack)
  BY <1>1, ParsedRuns
<1> QED
  BY <1>1, <1>2, <1>3, Empty, CancelLives

\* A response is complete.
LEMMA CompleteLives ==
  ASSUME Live, Safe', Complete
  PROVE  Sound' /\ Advance
<1> DEFINE c == Top.c
           cl == [client[c] EXCEPT !.expects = FALSE]
           r == client[c].request
           ok == req[r].transferred
           keep == ok /\ Head(Top.buf) = "ok" /\ r \notin Closing
           rest == <<NextTurn>> \o Tail(stack)
<1>1. Parses({"ok", "close"}) /\ FinishRequest(c, cl, keep, ok, Top.from, rest)
  BY DEF Complete
<1>2. c \in Clients /\ r \in Requests /\ r # 0 /\ Top.from \in 0 .. MaxRequests /\ NextTurn.pc = "on_read"
  BY <1>1, ParsesForRequest DEF Live
<1>3. rest \in Seq(Frame) /\ Frames(rest) = {NextTurn}
  BY <1>1, Onward DEF Live
<1>4. Normal /\ Still(stack)
  BY <1>1, ParsedRuns
<1>5. client[c] \in Client /\ req[r] \in Request
  BY <1>2 DEF Live, Safe, TypeOK
<1>6. cl \in Client /\ cl.request = r /\ ok \in BOOLEAN /\ keep \in BOOLEAN
  <2>1. cl \in Client /\ cl.request = r
    BY <1>5 DEF Client
  <2>2. ok \in BOOLEAN
    BY <1>5 DEF Request
  <2> QED
    BY <2>1, <2>2
<1> HIDE DEF cl, ok, keep, rest
<1> QED
  BY <1>1, <1>2, <1>3, <1>4, <1>6, FinishRequestLives

\* A redirect is refused, or redirect_event is called.
LEMMA RedirectLives ==
  ASSUME Live, Safe', NEW host, Redirect(host)
  PROVE  Sound' /\ Advance
<1> DEFINE c == Top.c
           r == client[c].request
           count == IF RedirectLimit = 0 THEN 0 ELSE req[r].redirects + 1
           f == Callback("redirect", r, TRUE, Top.from)
           g == [pc |-> "redirected", c |-> c, close |-> Head(Top.buf) # "redirect", ctx |-> req[r].netloc.ctx]
           h == NextTurn
<1>1. Parses({"redirect", "redirect_close"}) /\ Safe
  BY DEF Redirect, Live
<1>2. /\ c \in Clients /\ h.pc = "on_read" /\ h \in Frame /\ Frames(stack) = {Top} /\ Top.pc = "on_read"
      /\ Tail(stack) = <<>> /\ Top.from \in 0 .. MaxRequests
  BY <1>1, ParsesForRequest
<1>3. <<h>> \o Tail(stack) \in Seq(Frame) /\ Frames(<<h>> \o Tail(stack)) = {h}
  BY <1>1, Onward
<1>4. r \in Requests /\ req[r].client # 0 /\ Normal /\ Still(stack)
  BY <1>1, ParsedRuns
<1>5. CASE Cancel(c, <<h>> \o Tail(stack))
  BY <1>2, <1>3, <1>4, <1>5, CancelLives
<1>6. ASSUME client' = [client EXCEPT ![c].expects = FALSE, ![c].inRedirect = TRUE],
             req' = [req EXCEPT ![r].redirects = count, ![r].netloc = [host |-> host, ctx |-> "default"]],
             Goto(<<f, g, h>>), UNCHANGED <<pool, slots, submits, fault>>
      PROVE  Sound' /\ Advance
  <2>1. UNCHANGED <<queue, submits>>
    BY <1>6 DEF slots
  <2>2. client \in [Clients -> Client] /\ req \in [Requests -> Request]
    BY <1>1 DEF Safe, TypeOK
  <2>3. \A d \in Clients : client'[d].request = client[d].request
    <3> TAKE d \in Clients
    <3>1. client[d] \in Client
      BY <2>2
    <3>2. CASE d = c
      BY <1>2, <1>6, <2>2, <3>1, <3>2 DEF Client
    <3>3. CASE d # c
      BY <1>2, <1>6, <2>2, <3>3
    <3> QED
      BY <3>2, <3>3
  <2>4. \A x \in Requests : /\ req'[x].pool = req[x].pool /\ req'[x].client = req[x].client
                            /\ req'[x].timer = req[x].timer /\ req'[x].listener = req[x].listener
    <3> HIDE DEF count
    <3> TAKE x \in Requests
    <3>1. req[x] \in Request
      BY <2>2
    <3>2. CASE x = r
      BY <1>4, <1>6, <2>2, <3>1, <3>2 DEF Request
    <3>3. CASE x # r
      BY <1>4, <1>6, <2>2, <3>3
    <3> QED
      BY <3>2, <3>3
  <2>5. req[r].netloc.ctx \in {"default", "own"}
    BY <1>4, <2>2 DEF Request, NetLocs
  <2>6. f \in Frame /\ g \in Frame
    BY <1>2, <1>4, <2>5, MadeFrames DEF Events
  <2>7. f.pc = "callback" /\ f.r = r /\ g.pc = "redirected"
    BY DEF Callback
  <2> HIDE DEF f, g, h
  <2>8. Frames(stack') = {f, g, h}
    <3>1. <<f, g, h>> \in Seq(Frame) /\ Frames(<<f, g, h>>) = {f, g, h}
      BY <1>2, <2>6, ThreeFrames, ZenonT(30)
    <3>2. stack' = <<f, g, h>> \o <<>>
      BY <1>2, <1>6 DEF Goto
    <3> DEFINE fs == <<f, g, h>>
    <3>3. fs \in Seq(Frame) /\ Frames(fs) = {f, g, h} /\ stack' = fs \o <<>>
      BY <3>1, <3>2
    <3> HIDE DEF fs
    <3> QED
      BY <3>3, Empty, FramesTogether
  <2>9. Shape(stack')
    BY <1>2, <2>7, <2>8, StillShape
  <2> QED
    BY <1>2, <1>4, <2>1, <2>3, <2>4, <2>7, <2>8, <2>9, NothingMoves
<1> QED
  BY <1>5, <1>6 DEF Redirect

\* A file was sent, or could not be.
LEMMA OnStreamedLives ==
  ASSUME Live, Safe', NEW r \in Requests, NEW i \in Files(r), NEW ok \in BOOLEAN, OnStreamed(r, i, ok)
  PROVE  Sound' /\ Advance
<1> DEFINE c == req[r].streamer[i]
<1>1. stack = <<>> /\ c \in Clients
  BY DEF OnStreamed, Loop
<1>2. client \in [Clients -> Client] /\ client[c] \in Client /\ req \in [Requests -> Request] /\ Safe
  BY <1>1 DEF Live, Safe, TypeOK
<1>3. Normal /\ Still(stack) /\ Frames(stack) = {}
  BY <1>1, AtLoop
<1>4. CASE Abort("form: not its request")
  BY <1>4, AbortLives
<1>5. CASE client[c].request = r /\ FinishRequest(c, client[c], FALSE, FALSE, 0, <<>>)
  <2>1. r # 0
    BY DEF Requests
  <2> QED
    BY <1>1, <1>2, <1>3, <1>5, <2>1, NoneIsThere, Empty, FinishRequestLives
<1>6. ASSUME NEW file, client' = [client EXCEPT ![c].field = file],
             req' = [req EXCEPT ![r] = Started(Stopped(@, i), file, c)],
             UNCHANGED <<pool, slots, submits, stack, fault>>
      PROVE  Sound' /\ Advance
  <2>1. UNCHANGED <<queue, submits, stack>>
    BY <1>6 DEF slots
  <2>2. \A d \in Clients : client'[d].request = client[d].request
    BY <1>1, <1>2, <1>6, ResetKeeps, OneClient
  <2> DEFINE a == Stopped(req[r], i)
             b == Started(a, file, c)
  <2>3. i \in Nat
    BY FilesNumbered
  <2>4. a \in Request /\ a.pool = req[r].pool /\ a.client = req[r].client /\ a.timer = req[r].timer
        /\ a.listener = req[r].listener
    BY <1>2, <2>3, RequestFields, FormsKeep
  <2> HIDE DEF a
  <2>5. b.pool = a.pool /\ b.client = a.client /\ b.timer = a.timer /\ b.listener = a.listener
    BY <2>4, FormsKeep
  <2>6. req' = [req EXCEPT ![r] = b]
    BY <1>2, <1>6 DEF a
  <2> HIDE DEF b
  <2>7. \A x \in Requests : /\ req'[x].pool = req[x].pool /\ req'[x].client = req[x].client
                            /\ req'[x].timer = req[x].timer /\ req'[x].listener = req[x].listener
    BY <1>2, <2>4, <2>5, <2>6, OneRequest
  <2>8. Shape(stack')
    BY <2>1 DEF Live, Sound
  <2> QED
    BY <1>3, <2>1, <2>2, <2>7, <2>8, NothingMoves
<1> QED
  BY <1>4, <1>5, <1>6 DEF OnStreamed

-----------------------------------------------------------------------------
(* Reports and submissions *)

\* finish_and_notify(): the request is its user's again.
LEMMA FinishAndNotifyLives ==
  ASSUME Live, Safe', FinishAndNotify
  PROVE  Sound' /\ Advance
<1>1. /\ At("notify") /\ Goto(<<Callback("response", Top.r, Top.ok, Top.from)>>)
      /\ req' = [req EXCEPT ![Top.r] = Reported(@)] /\ UNCHANGED <<queue, client, submits>> /\ Safe
  BY DEF FinishAndNotify, slots, Live
<1>2. /\ stack \in Seq(Frame) /\ stack # <<>> /\ Top = Head(stack) /\ Top \in Frame /\ Top.pc = "notify"
      /\ Top \in Frames(stack) /\ Frames(stack) = {Top} \cup Frames(Tail(stack)) /\ Tail(stack) \in Seq(Frame)
  BY <1>1, OnTop
<1>3. Top.r \in Requests /\ Top.ok \in BOOLEAN /\ Top.from \in 0 .. MaxRequests
  BY <1>2, FrameFields
<1>4. PICK r \in Requests : r = Top.r
  BY <1>3
<1>5. PICK f \in Frame : f = Callback("response", Top.r, Top.ok, Top.from)
  BY <1>3, MadeFrames DEF Events
<1>6. f.pc = "callback" /\ f.r = r
  BY <1>4, <1>5 DEF Callback
<1>7. Still(Tail(stack)) /\ Normal
  <2>1. Still(Tail(stack))
    BY <1>2, ShapePop DEF Live, Sound
  <2>2. Normal
    BY <1>1, AtTop DEF Dying
  <2> QED
    BY <2>1, <2>2
<1>8. stack' = <<f>> \o Tail(stack)
  BY <1>1, <1>5 DEF Goto
<1>9. Frames(stack') = {f} \cup Frames(Tail(stack)) /\ Shape(stack')
  <2>1. <<f>> \in Seq(Frame) /\ Frames(<<f>>) = {f}
    BY FewFrames
  <2>2. Frames(stack') = {f} \cup Frames(Tail(stack))
    BY <1>2, <1>8, <2>1, FramesTogether
  <2>3. Shape(stack')
    BY <1>2, <1>6, <1>7, <1>8, ShapePush
  <2> QED
    BY <2>2, <2>3
<1>10. \A g \in Frames(Tail(stack)) : g.pc \notin {"notify", "pool_request", "request", "putback", "weaken"}
  BY <1>7 DEF Still, Passing
<1>11. Lives(r, "ending")
  BY <1>2, <1>4, LivesWhere DEF Live, Notified
<1>12. req \in [Requests -> Request]
  BY <1>1 DEF Safe, TypeOK
<1>13. \A x \in Requests : x # r => req'[x] = req[x]
  BY <1>1, <1>4, <1>12
<1>14. ~req'[r].pool /\ req'[r].client = 0 /\ ~req'[r].timer /\ ~req'[r].listener
  <2>1. req'[r] = Reported(req[r])
    BY <1>1, <1>4, <1>12
  <2> QED
    BY <1>12, <2>1, ReportEnds
<1>15. ASSUME NEW q \in Requests, q # r PROVE Unmoved(q)
  <2>1. \A g \in Frames(stack') : g.pc \in {"pool_request", "request", "notify"} /\ g.r = q => g \in Frames(stack)
    BY <1>2, <1>6, <1>9
  <2>2. \A g \in Frames(stack) : g.pc \in {"pool_request", "request", "notify"} /\ g.r = q => g \in Frames(stack')
    BY <1>2, <1>4, <1>10, <1>15
  <2> QED
    BY <1>1, <1>13, <1>15, <2>1, <2>2, Untouched
<1>16. Lives(r, "idle")'
  <2>1. ~Notified(r)' /\ ~Placing(r)'
    BY <1>6, <1>9, <1>10 DEF Notified, Placing
  <2>2. \A d \in Clients : client'[d].request # r
    BY <1>1, <1>11 DEF Lives
  <2> QED
    BY <1>14, <2>1, <2>2 DEF Lives
<1>17. Moved(r, "ending", "idle")
  BY <1>11, <1>15, <1>16 DEF Moved
<1>18. \A g \in Frames(stack') : g.pc \notin Dying
  BY <1>2, <1>6, <1>7, <1>9 DEF Normal, Dying
<1>19. Dissolves(stack', Idles') /\ Told' /\ Ghosts' /\ Named' /\ Left'
  <2>1. ~Queued(r)'
    BY <1>1, <1>11 DEF Lives, Queued
  <2>2. \A q \in Requests : Unmoved(q) \/ (Queued(q)' => req'[q].pool)
    BY <1>15, <2>1
  <2> QED
    BY <1>7, <1>18, <2>2, NormalSound
<1>20. Aside' /\ Apart'
  BY <1>1, <1>6, <1>9, <1>10 DEF Aside, Apart, Live, Sound
<1>21. Served'
  <2>1. \A g \in Frames(stack') : g.pc = "callback" => g = f \/ (g \in Frames(stack) /\ g.r \in Requests)
    BY <1>2, <1>9, FramesAreFrames, FrameFields
  <2>2. \A g \in Frames(stack') : g.pc \notin {"pool_request", "erase"}
    BY <1>6, <1>9, <1>10, <1>18 DEF Dying
  <2> QED
    BY <1>6, <1>13, <1>14, <2>1, <2>2 DEF Served, Live, Sound
<1>22. Sound'
  BY <1>9, <1>19, <1>20, <1>21 DEF Sound
<1>23. <<"ending", "idle">> \in Turns
  BY DEF Turns
<1> QED
  BY <1>1, <1>17, <1>22, <1>23 DEF Advance

\* What a user's call finds.
LEMMA UserStill ==
  ASSUME Live, NEW call, UserMay(call)
  PROVE  Still(stack) /\ (stack # <<>> => Top.pc = "callback" /\ Top \in Frames(stack) /\ Top.r \in Requests)
<1>1. stack \in Seq(Frame) /\ Stacked(stack) /\ (stack # <<>> => Top.pc = "callback")
  BY DEF UserMay, Live, Safe, TypeOK
<1>2. CASE stack = <<>>
  BY <1>2, AtLoop
<1>3. CASE stack # <<>>
  <2>1. Top = Head(stack) /\ Top \in Frame /\ Top \in Frames(stack)
    BY <1>1, <1>3, Pop DEF Top
  <2>2. Still(stack)
    BY <1>1, <1>3, <2>1, ShapePop DEF Live, Sound, Passing
  <2> QED
    BY <1>1, <2>1, <2>2, FrameFields
<1> QED
  BY <1>2, <1>3

\* The user submits a request that nobody has.
LEMMA SubmitLives ==
  ASSUME Live, Safe', Orderly, NEW r \in Requests, Submit(r)
  PROVE  Sound' /\ Advance
<1>1. /\ UserMay("request") /\ alive /\ ~req[r].pool /\ Safe
      /\ submits' = [submits EXCEPT ![r] = @ + 1] /\ stack' = <<PoolRequestFrame(r)>> \o stack
      /\ UNCHANGED <<queue, client, req>>
  BY DEF Submit, Orderly, slots, Live
<1>2. PICK g \in Frame : g = PoolRequestFrame(r)
  BY MadeFrames
<1>3. g.pc = "pool_request" /\ g.r = r
  BY <1>2 DEF PoolRequestFrame
<1>4. stack \in Seq(Frame) /\ stack' = <<g>> \o stack
  BY <1>1, <1>2 DEF Safe, TypeOK
<1>5. Still(stack) /\ (stack # <<>> => Top.pc = "callback" /\ Top \in Frame /\ ~FromLoopOnly)
  <2>1. Still(stack)
    BY <1>1, UserStill
  <2>2. ASSUME stack # <<>> PROVE Top.pc = "callback" /\ Top \in Frame /\ ~FromLoopOnly
    <3>1. Top.pc = "callback" /\ "request" \in HandlerCalls[Top.ev]
      BY <1>1, <2>2 DEF UserMay
    <3>2. Top \in Frame
      BY <1>1, <1>4, <2>2, UserStill, FramesAreFrames
    <3>3. Top.ev \in Events
      BY <3>1, <3>2, FrameFields
    <3> QED
      BY <3>1, <3>2, <3>3 DEF FromLoopOnly
  <2> QED
    BY <2>1, <2>2
<1>6. Normal
  <2>1. CASE stack = <<>>
    BY <2>1, AtLoop
  <2>2. CASE stack # <<>>
    <3>1. \A f \in Frames(stack) : f.pc # "~Pool"
      BY <1>1 DEF Safe, Coherent, PoolFrames
    <3>2. \A f \in Frames(stack) : f.pc # "abort"
      BY <1>4, <2>2, <3>1, DissolvesTop DEF Live, Sound
    <3>3. \A f \in Frames(stack) : f.pc # "erase"
      BY <1>5, <2>2 DEF Live, Sound, Served
    <3> QED
      BY <3>1, <3>2, <3>3 DEF Normal, Dying
  <2> QED
    BY <2>1, <2>2
<1>7. \A f \in Frames(stack) : f.pc \notin {"notify", "pool_request", "request", "putback", "weaken"}
  BY <1>5 DEF Still, Passing
<1>8. Lives(r, "idle") /\ ~Queued(r)
  <2>1. ~Placing(r)
    BY <1>7 DEF Placing
  <2>2. Lives(r, "idle")
    BY <1>1, <2>1, LivesWhere DEF Live
  <2>3. ~Queued(r)
    BY <1>1, <1>6 DEF Live, Sound, Ghosts, Normal, Dying, Queued
  <2> QED
    BY <2>2, <2>3
<1>9. Frames(stack') = {g} \cup Frames(stack) /\ Shape(stack')
  <2>1. <<g>> \in Seq(Frame) /\ Frames(<<g>>) = {g}
    BY FewFrames
  <2>2. Frames(stack') = {g} \cup Frames(stack)
    BY <1>4, <2>1, FramesTogether
  <2>3. Shape(stack')
    BY <1>3, <1>4, <1>5, ShapePush
  <2> QED
    BY <2>2, <2>3
<1>10. ASSUME NEW q \in Requests, q # r PROVE Unmoved(q)
  BY <1>1, <1>3, <1>9, <1>10, Untouched
<1>11. Lives(r, "placing")'
  <2>1. Placing(r)' /\ ~Notified(r)'
    BY <1>3, <1>7, <1>9 DEF Placing, Notified
  <2>2. ~Queued(r)' /\ req'[r] = req[r] /\ \A d \in Clients : client'[d].request # r
    BY <1>1, <1>8 DEF Queued, Lives
  <2> QED
    BY <1>8, <2>1, <2>2 DEF Lives
<1>12. Moved(r, "idle", "placing")
  BY <1>8, <1>10, <1>11 DEF Moved
<1>13. \A f \in Frames(stack') : f.pc \notin Dying
  BY <1>3, <1>6, <1>9 DEF Normal, Dying
<1>14. Dissolves(stack', Idles') /\ Told' /\ Ghosts' /\ Named' /\ Left'
  <2>1. ~Queued(r)'
    BY <1>11 DEF Lives
  <2>2. \A q \in Requests : Unmoved(q) \/ (Queued(q)' => req'[q].pool)
    BY <1>10, <2>1
  <2> QED
    BY <1>6, <1>13, <2>2, NormalSound
<1>15. Aside' /\ Apart'
  BY <1>1, <1>3, <1>7, <1>9 DEF Aside, Apart, Live, Sound
<1>16. Served'
  <2>1. FromLoopOnly => Frames(stack) = {}
    BY <1>5, Empty
  <2>2. ~FromLoopOnly => \A f \in Frames(stack') : f.pc # "erase"
    BY <1>13 DEF Dying
  <2> QED
    BY <1>3, <1>9, <2>1, <2>2 DEF Served
<1>17. Sound'
  BY <1>9, <1>14, <1>15, <1>16 DEF Sound
<1> QED
  BY <1>1, <1>12, <1>17 DEF Advance

-----------------------------------------------------------------------------
(* A request finds its client *)

\* A step that takes one request on, while no routine ends queued ones.
LEMMA OneMoves ==
  ASSUME Live, Normal, Safe', NEW r \in Requests, NEW from, NEW to, Moved(r, from, to), <<from, to>> \in Turns,
         UNCHANGED submits, Queued(r)' => req'[r].pool, Shape(stack'),
         \A f \in Frames(stack') : f.pc \notin Dying, Aside', Apart', Served'
  PROVE  Sound' /\ Advance
<1>1. \A q \in Requests : Unmoved(q) \/ (Queued(q)' => req'[q].pool)
  BY DEF Moved
<1>2. Dissolves(stack', Idles') /\ Told' /\ Ghosts' /\ Named' /\ Left'
  BY <1>1, NormalSound
<1>3. Sound'
  BY <1>2 DEF Sound
<1>4. <<from, to>>[1] = from /\ <<from, to>>[2] = to
  OBVIOUS
<1> QED
  BY <1>3, <1>4 DEF Advance

\* What Client::request() does unless it throws.
GivesRequest(c, r) ==
  LET n == req[r].netloc
      cl == client[c]
      again == cl.conn = "connected" /\ cl.netloc = n /\ r \notin Closing
      file == FileFrom(r, 1)
      field == IF Form[r] = <<>> THEN cl.field ELSE file
  IN  /\ client' = [client EXCEPT ![c] =
             [cl EXCEPT !.netloc = n, !.conn = IF again THEN cl.conn ELSE "connecting",
                        !.weak = FALSE, !.request = r, !.expects = TRUE, !.field = field,
                        !.owed = Append(IF again THEN cl.owed ELSE <<>>, r)]]
      /\ req' = [req EXCEPT ![r] = Timed(
             IF r \in Chunked THEN [@ EXCEPT !.client = c]
                              ELSE Started([@ EXCEPT !.client = c], file, c), r)]
      /\ fault' = IF file \in req[r].inputs \cup {0} THEN fault ELSE "form: no input"
      /\ Goto(<<>>)

\* It throws for a client or a request that is not free, or for its proxy.
LEMMA ClientRequestGives ==
  ASSUME ClientRequest
  PROVE  /\ At("request") /\ UNCHANGED <<alive, limit, idleTimer, lists, free, busy, queue, submits>>
         /\ "proxy" \notin Failures /\ client[Top.c].request = 0 /\ req[Top.r].client = 0
              => GivesRequest(Top.c, Top.r)
<1>1. At("request") /\ UNCHANGED <<alive, limit, idleTimer, lists, free, busy, queue, submits>>
  BY Zenon DEF ClientRequest, pool, slots
<1>2. "proxy" \notin Failures /\ client[Top.c].request = 0 /\ req[Top.r].client = 0
        => GivesRequest(Top.c, Top.r)
  BY Zenon DEF ClientRequest, GivesRequest
<1> QED
  BY <1>1, <1>2

\* Client::request(): the request is the client's.
LEMMA ClientRequestLives ==
  ASSUME Live, Safe', Orderly, ClientRequest
  PROVE  Sound' /\ Advance
<1>1. At("request") /\ UNCHANGED <<queue, submits>> /\ Safe
  BY ClientRequestGives DEF Live
<1>2. /\ stack \in Seq(Frame) /\ stack # <<>> /\ Top = Head(stack) /\ Top \in Frame /\ Top.pc = "request"
      /\ Top \in Frames(stack) /\ Frames(stack) = {Top} \cup Frames(Tail(stack)) /\ Tail(stack) \in Seq(Frame)
      /\ \A g \in Frames(Tail(stack)) : g.pc \notin {"putback", "request"}
  BY <1>1, OnTop
<1>3. Top.r \in Requests /\ Top.c \in Clients
  BY <1>2, FrameFields
<1>4. PICK r \in Requests : r = Top.r
  BY <1>3
<1>5. PICK c \in Clients : c = Top.c
  BY <1>3
<1>a. "proxy" \notin Failures
  BY DEF Orderly
<1>6. Normal
  BY <1>1, AtTop DEF Dying
<1>7. Placing(r) /\ Lives(r, "placing")
  <2>1. Placing(r)
    BY <1>2, <1>4 DEF Placing
  <2> QED
    BY <2>1, LivesWhere DEF Live
<1>8. client[c].request = 0 /\ req[r].pool /\ req[r].client = 0
  BY <1>2, <1>4, <1>5, <1>7 DEF Lives, Live, Sound, Aside
<1>b. GivesRequest(c, r)
  BY <1>a, <1>4, <1>5, <1>8, ClientRequestGives
<1> DEFINE a == [req[r] EXCEPT !.client = c]
           b == IF r \in Chunked THEN a ELSE Started(a, FileFrom(r, 1), c)
<1>9. /\ \E cl : cl.request = r /\ client' = [client EXCEPT ![c] = cl]
      /\ req' = [req EXCEPT ![r] = Timed(b, r)]
      /\ Goto(<<>>)
  <2>1. client[c] \in Client /\ req \in [Requests -> Request]
    BY <1>1 DEF Safe, TypeOK
  <2>2. Goto(<<>>)
    BY <1>b, Zenon DEF GivesRequest
  <2>3. req' = [req EXCEPT ![r] = Timed(b, r)]
    BY <1>b, Zenon DEF GivesRequest
  <2> DEFINE n == req[r].netloc
             again == client[c].conn = "connected" /\ client[c].netloc = n /\ r \notin Closing
             cn == IF again THEN client[c].conn ELSE "connecting"
             fi == IF Form[r] = <<>> THEN client[c].field ELSE FileFrom(r, 1)
             ow == Append(IF again THEN client[c].owed ELSE <<>>, r)
             cl == [client[c] EXCEPT !.netloc = n, !.conn = cn, !.weak = FALSE, !.request = r, !.expects = TRUE,
                                     !.field = fi, !.owed = ow]
  <2>4. client' = [client EXCEPT ![c] = cl]
    BY <1>b, Zenon DEF GivesRequest
  <2> HIDE DEF n, cn, fi, ow
  <2>5. cl.request = r
    BY <2>1 DEF Client
  <2> HIDE DEF cl
  <2> QED
    BY <2>2, <2>3, <2>4, <2>5
<1>10. client \in [Clients -> Client] /\ req \in [Requests -> Request]
  BY <1>1 DEF Safe, TypeOK
<1>11. \A d \in Clients : client'[d].request = IF d = c THEN r ELSE client[d].request
  BY <1>9, <1>10
<1>12. req'[r].pool /\ req'[r].client = c /\ (r \in Untimed => req'[r].timer = req[r].timer)
       /\ (r \notin Untimed => req'[r].timer /\ req'[r].listener)
  <2>1. a \in Request /\ a.pool = req[r].pool /\ a.client = c /\ a.timer = req[r].timer
    <3>1. c \in 0 .. MaxClients
      BY BoundsAssumption DEF Clients
    <3> QED
      BY <1>10, <3>1 DEF Request
  <2> HIDE DEF a
  <2>2. FileFrom(r, 1) \in Nat
    <3>1. 1 \in Nat
      OBVIOUS
    <3> QED
      BY <3>1, FilesNumbered
  <2>3. Started(a, FileFrom(r, 1), c) \in Request
    <3>1. c \in 0 .. MaxClients
      BY BoundsAssumption DEF Clients
    <3> QED
      BY <2>1, <2>2, <3>1, RequestFields
  <2>4. b \in Request /\ b.pool = a.pool /\ b.client = a.client /\ b.timer = a.timer
    BY <2>1, <2>3, FormsKeep
  <2> HIDE DEF b
  <2> DEFINE t == Timed(b, r)
  <2>5. /\ t.pool = b.pool /\ t.client = b.client
        /\ r \in Untimed => t.timer = b.timer
        /\ r \notin Untimed => t.timer /\ t.listener
    BY <2>4, TimerSet
  <2>6. req'[r] = t
    BY <1>9, <1>10
  <2> HIDE DEF t
  <2> QED
    BY <1>8, <2>1, <2>4, <2>5, <2>6
<1>13. \A x \in Requests : x # r => req'[x] = req[x]
  BY <1>9, <1>10
<1> HIDE DEF a, b
<1>14. stack' = Tail(stack) /\ Shape(stack')
  <2>1. stack' = Tail(stack)
    BY <1>1, <1>9, Returns
  <2> QED
    BY <1>2, <2>1, ShapePop DEF Live, Sound
<1>15. \A f \in Frames(stack') : f \in Frames(stack) /\ f.pc # "request"
  BY <1>2, <1>14
<1>16. ASSUME NEW q \in Requests, q # r PROVE Unmoved(q)
  <2>1. \A d \in Clients : client'[d].request = q <=> client[d].request = q
    <3>1. q # 0
      BY DEF Requests
    <3> QED
      BY <1>8, <1>11, <1>16, <3>1
  <2>2. \A f \in Frames(stack) : f.pc \in {"pool_request", "request", "notify"} /\ f.r = q => f \in Frames(stack')
    BY <1>2, <1>4, <1>14, <1>16
  <2> QED
    BY <1>1, <1>13, <1>15, <1>16, <2>1, <2>2, Untouched
<1>17. Lives(r, "running")'
  <2>1. ~Placing(r)'
    <3>1. \A f \in Frames(stack') : f.pc = "pool_request" => f.r # r
      BY <1>2, <1>4, <1>15 DEF Live, Sound, Aside
    <3> QED
      BY <1>15, <3>1 DEF Placing
  <2>2. ~Notified(r)'
    BY <1>7, <1>15 DEF Lives, Notified
  <2>3. ~Queued(r)'
    BY <1>1, <1>7 DEF Lives, Queued
  <2>4. r \in Untimed => ~req'[r].timer
    BY <1>7, <1>12 DEF Lives
  <2>5. \A d \in Clients : client'[d].request = r <=> d = c
    BY <1>7, <1>11 DEF Lives
  <2> QED
    BY <1>12, <2>1, <2>2, <2>3, <2>4, <2>5 DEF Lives
<1>18. Moved(r, "placing", "running") /\ <<"placing", "running">> \in Turns
  BY <1>7, <1>16, <1>17 DEF Moved, Turns
<1>19. \A f \in Frames(stack') : f.pc \notin Dying
  BY <1>6, <1>15 DEF Normal
<1>20. Aside' /\ Apart'
  BY <1>1, <1>15 DEF Aside, Apart, Live, Sound
<1>21. Served'
  <2>1. c # 0
    BY DEF Clients
  <2>2. \A f \in Frames(stack') : f.pc = "callback" => f.r \in Requests
    BY <1>2, <1>15, FramesAreFrames, FrameFields
  <2>3. ASSUME FromLoopOnly, NEW f \in Frames(stack'), f.pc = "callback", req'[f.r].pool PROVE req'[f.r].client # 0
    BY <1>12, <1>13, <1>15, <2>1, <2>2, <2>3 DEF Live, Sound, Served
  <2> QED
    BY <1>15, <2>3 DEF Served, Live, Sound
<1> QED
  BY <1>1, <1>6, <1>12, <1>14, <1>18, <1>19, <1>20, <1>21, OneMoves

\* A request enters a queue it is not in.
LEMMA OneWaits ==
  ASSUME NEW s \in Seq(Requests), NEW r \in Requests, r \notin Range(s),
         \A i, j \in 1 .. Len(s) : s[i] = s[j] => i = j
  PROVE  /\ Range(Append(s, r)) = Range(s) \cup {r}
         /\ \A i, j \in 1 .. Len(Append(s, r)) : Append(s, r)[i] = Append(s, r)[j] => i = j
<1> DEFINE t == Append(s, r)
<1>1. Len(t) = Len(s) + 1 /\ Len(s) \in Nat /\ DOMAIN t = 1 .. Len(t) /\ DOMAIN s = 1 .. Len(s)
  OBVIOUS
<1>2. t[Len(s) + 1] = r /\ \A i \in 1 .. Len(s) : t[i] = s[i]
  OBVIOUS
<1> HIDE DEF t
<1>3. \A i \in 1 .. Len(s) : s[i] # r
  BY <1>1 DEF Range
<1>4. \A i \in 1 .. Len(t) : i \in 1 .. Len(s) \/ i = Len(s) + 1
  BY <1>1
<1>5. \A i, j \in 1 .. Len(t) : t[i] = t[j] => i = j
  BY <1>2, <1>3, <1>4
<1>6. Range(t) = Range(s) \cup {r}
  <2>1. \A x \in Range(t) : x \in Range(s) \cup {r}
    BY <1>1, <1>2, <1>4 DEF Range
  <2>2. 1 .. Len(s) \subseteq 1 .. Len(t) /\ Len(s) + 1 \in 1 .. Len(t)
    BY <1>1
  <2>3. \A x \in Range(s) \cup {r} : x \in Range(t)
    BY <1>1, <1>2, <2>2 DEF Range
  <2> QED
    BY <2>1, <2>3
<1> QED
  BY <1>5, <1>6 DEF t

\* Between events and before Pool::request() goes on, a free client and an unused
\* one have no request.
LEMMA FreeIsIdle ==
  ASSUME Live, alive, NEW n \in NetLocs, NEW c \in free[n]
  PROVE  client[c].request = 0 /\ c \in Clients
<1>1. c \in Clients
  BY DEF Live, ListsCounted
<1>2. \A m \in NetLocs : c \notin busy[m]
  BY DEF Live, Slots
<1>3. ~Taken(c)
  BY <1>1, <1>2 DEF Live, Safe, Coherent, Owned
<1> QED
  BY <1>1, <1>3 DEF Taken

\* Pool::request(): the request is handed to a client, or waits.
LEMMA PoolRequestLives ==
  ASSUME Live, Safe', PoolRequest
  PROVE  Sound' /\ Advance
<1>1. At("pool_request") /\ UNCHANGED submits /\ Safe
  BY DEF PoolRequest, Live
<1>2. /\ stack \in Seq(Frame) /\ stack # <<>> /\ Top = Head(stack) /\ Top \in Frame /\ Top.pc = "pool_request"
      /\ Top \in Frames(stack) /\ Frames(stack) = {Top} \cup Frames(Tail(stack)) /\ Tail(stack) \in Seq(Frame)
  BY <1>1, OnTop
<1>3. Top.r \in Requests
  BY <1>2, FrameFields
<1>4. PICK r \in Requests : r = Top.r
  BY <1>3
<1>5. client \in [Clients -> Client] /\ req \in [Requests -> Request] /\ queue \in [NetLocs -> Seq(Requests)]
  BY <1>1 DEF Safe, TypeOK
<1>6. PICK n \in NetLocs : n = req[r].netloc
  BY <1>5 DEF Request
<1>7. Normal /\ alive /\ Still(Tail(stack))
  <2>1. Normal
    BY <1>1, AtTop DEF Dying
  <2>2. alive
    BY <1>1, <1>2 DEF Safe, Coherent, PoolFrames
  <2>3. Still(Tail(stack))
    BY <1>2, ShapePop DEF Live, Sound
  <2> QED
    BY <2>1, <2>2, <2>3
<1>8. \A f \in Frames(Tail(stack)) : f \in Frames(stack)
        /\ f.pc \notin {"notify", "pool_request", "request", "putback", "weaken"} \cup Dying
  BY <1>2, <1>7 DEF Still, Passing, Normal
<1>9. Lives(r, "placing")
  <2>1. Placing(r)
    BY <1>2, <1>4 DEF Placing
  <2> QED
    BY <2>1, LivesWhere DEF Live
<1>10. FromLoopOnly => \A f \in Frames(Tail(stack)) : f.pc # "callback"
  BY <1>2 DEF Live, Sound, Served
<1>11. ASSUME NEW c \in Clients, client[c].request = 0,
              \A d \in Clients : client'[d].request = client[d].request,
              req' = [req EXCEPT ![r].pool = TRUE], UNCHANGED queue,
              Goto(<<ClientRequestFrame(c, r)>>)
       PROVE  Sound' /\ Advance
  <2>1. PICK f \in Frame : f = ClientRequestFrame(c, r)
    BY MadeFrames
  <2>2. f.pc = "request" /\ f.c = c /\ f.r = r
    BY <2>1 DEF ClientRequestFrame
  <2>3. stack' = <<f>> \o Tail(stack)
    BY <1>11, <2>1 DEF Goto
  <2>4. Frames(stack') = {f} \cup Frames(Tail(stack)) /\ Shape(stack')
    <3>1. <<f>> \in Seq(Frame) /\ Frames(<<f>>) = {f}
      BY FewFrames
    <3>2. Frames(stack') = {f} \cup Frames(Tail(stack))
      BY <1>2, <2>3, <3>1, FramesTogether
    <3>3. Shape(stack')
      BY <1>2, <1>7, <2>2, <2>3, ShapePush
    <3> QED
      BY <3>2, <3>3
  <2>5. req'[r] = [req[r] EXCEPT !.pool = TRUE] /\ \A x \in Requests : x # r => req'[x] = req[x]
    BY <1>5, <1>11
  <2>6. req'[r].pool /\ req'[r].client = req[r].client /\ req'[r].timer = req[r].timer
    BY <1>5, <2>5 DEF Request
  <2>7. ASSUME NEW q \in Requests, q # r PROVE Unmoved(q)
    <3>1. \A g \in Frames(stack') : g.pc \in {"pool_request", "request", "notify"} /\ g.r = q => g \in Frames(stack)
      BY <1>8, <2>2, <2>4, <2>7
    <3>2. \A g \in Frames(stack) : g.pc \in {"pool_request", "request", "notify"} /\ g.r = q => g \in Frames(stack')
      BY <1>2, <1>4, <2>4, <2>7
    <3> QED
      BY <1>11, <2>5, <2>7, <3>1, <3>2, Untouched
  <2>8. Lives(r, "placing")'
    <3>1. Placing(r)' /\ ~Notified(r)'
      BY <1>8, <2>2, <2>4 DEF Placing, Notified
    <3>2. ~Queued(r)' /\ \A d \in Clients : client'[d].request # r
      BY <1>9, <1>11 DEF Queued, Lives
    <3> QED
      BY <1>9, <2>6, <3>1, <3>2 DEF Lives
  <2>9. Moved(r, "placing", "placing") /\ <<"placing", "placing">> \in Turns
    BY <1>9, <2>7, <2>8 DEF Moved, Turns
  <2>10. \A g \in Frames(stack') : g.pc \notin Dying
    BY <1>8, <2>2, <2>4 DEF Dying
  <2>11. Aside'
    BY <1>8, <1>11, <2>2, <2>4, <2>6 DEF Aside
  <2>12. Apart'
    BY <1>11 DEF Apart, Live, Sound
  <2>13. Served'
    BY <1>8, <1>10, <2>2, <2>4, <2>10 DEF Served, Dying
  <2> QED
    BY <1>1, <1>7, <2>4, <2>6, <2>9, <2>10, <2>11, <2>12, <2>13, OneMoves
<1>12. ASSUME NEW c \in free[n], req' = [req EXCEPT ![r].pool = TRUE], Goto(<<ClientRequestFrame(c, r)>>),
              UNCHANGED <<queue, client>>
       PROVE  Sound' /\ Advance
  BY <1>7, <1>11, <1>12, FreeIsIdle
<1>13. ASSUME NEW c \in Unused, client' = [client EXCEPT ![c] = NewClient],
              req' = [req EXCEPT ![r].pool = TRUE], Goto(<<ClientRequestFrame(c, r)>>),
              UNCHANGED queue
       PROVE  Sound' /\ Advance
  <2>1. c \in Clients /\ client[c].request = 0
    BY DEF Unused
  <2>2. NewClient.request = 0
    BY DEF NewClient
  <2>3. \A d \in Clients : client'[d].request = client[d].request
    BY <1>5, <1>13, <2>1, <2>2
  <2> QED
    BY <1>11, <1>13, <2>1, <2>3
<1>14. ASSUME queue' = [queue EXCEPT ![n] = Append(@, r)],
              req' = [req EXCEPT ![r] = Timed([@ EXCEPT !.pool = TRUE], r)], Goto(<<>>), UNCHANGED client
       PROVE  Sound' /\ Advance
  <2>1. stack' = Tail(stack) /\ Shape(stack')
    <3>1. stack' = Tail(stack)
      BY <1>1, <1>14, Returns
    <3> QED
      BY <1>2, <3>1, ShapePop DEF Live, Sound
  <2>2. ~Queued(r) /\ \A m \in NetLocs : r \notin Range(queue[m])
    BY <1>9 DEF Lives, Queued
  <2>3. /\ Range(Append(queue[n], r)) = Range(queue[n]) \cup {r}
        /\ \A i, j \in 1 .. Len(Append(queue[n], r)) : Append(queue[n], r)[i] = Append(queue[n], r)[j] => i = j
    <3>1. \A i, j \in 1 .. Len(queue[n]) : queue[n][i] = queue[n][j] => i = j
      BY DEF Live, Sound, Apart
    <3>2. queue[n] \in Seq(Requests)
      BY <1>5
    <3> QED
      BY <2>2, <3>1, <3>2, OneWaits
  <2>4. \A m \in NetLocs : queue'[m] = IF m = n THEN Append(queue[n], r) ELSE queue[m]
    BY <1>5, <1>14
  <2>5. \A m \in NetLocs : Range(queue'[m]) = IF m = n THEN Range(queue[n]) \cup {r} ELSE Range(queue[m])
    BY <2>3, <2>4
  <2>6. req'[r].pool /\ req'[r].client = req[r].client /\ (r \in Untimed => req'[r].timer = req[r].timer)
        /\ (r \notin Untimed => req'[r].timer /\ req'[r].listener)
    <3> DEFINE a == [req[r] EXCEPT !.pool = TRUE]
               t == Timed(a, r)
    <3>1. a \in Request /\ a.pool /\ a.client = req[r].client /\ a.timer = req[r].timer
      BY <1>5 DEF Request
    <3>2. req'[r] = t
      BY <1>5, <1>14
    <3> HIDE DEF a
    <3>3. /\ t.pool = a.pool /\ t.client = a.client
          /\ r \in Untimed => t.timer = a.timer
          /\ r \notin Untimed => t.timer /\ t.listener
      BY <3>1, TimerSet
    <3> HIDE DEF t
    <3> QED
      BY <3>1, <3>2, <3>3
  <2>7. \A x \in Requests : x # r => req'[x] = req[x]
    BY <1>5, <1>14
  <2>8. ASSUME NEW q \in Requests, q # r PROVE Unmoved(q)
    <3>1. \A g \in Frames(stack) : g.pc \in {"pool_request", "request", "notify"} /\ g.r = q => g \in Frames(stack')
      BY <1>2, <1>4, <2>1, <2>8
    <3>2. \A m \in NetLocs : q \in Range(queue'[m]) <=> q \in Range(queue[m])
      BY <2>5, <2>8
    <3> QED
      BY <1>8, <1>14, <2>1, <2>7, <2>8, <3>1, <3>2, Untouched
  <2>9. Lives(r, "queued")'
    <3>1. ~Placing(r)' /\ ~Notified(r)'
      BY <1>8, <2>1 DEF Placing, Notified
    <3>2. Queued(r)'
      BY <2>5 DEF Queued
    <3>3. \A d \in Clients : client'[d].request # r
      BY <1>9, <1>14 DEF Lives
    <3>4. req'[r].client = 0 /\ (r \in Untimed => ~req'[r].timer)
      BY <1>9, <2>6 DEF Lives
    <3> QED
      BY <2>6, <3>1, <3>2, <3>3, <3>4 DEF Lives
  <2>10. Moved(r, "placing", "queued") /\ <<"placing", "queued">> \in Turns
    BY <1>9, <2>8, <2>9 DEF Moved, Turns
  <2>11. \A g \in Frames(stack') : g.pc \notin Dying
    BY <1>8, <2>1
  <2>12. Aside' /\ Served'
    BY <1>8, <1>10, <2>1, <2>11 DEF Aside, Served, Dying
  <2>13. Apart'
    <3>1. ASSUME NEW m \in NetLocs
          PROVE  \A i, j \in 1 .. Len(queue'[m]) : queue'[m][i] = queue'[m][j] => i = j
      BY <2>3, <2>4 DEF Live, Sound, Apart
    <3>2. ASSUME NEW m \in NetLocs, NEW k \in NetLocs, m # k
          PROVE  Range(queue'[m]) \cap Range(queue'[k]) = {}
      BY <2>2, <2>5, <3>2 DEF Live, Sound, Apart
    <3> QED
      BY <3>1, <3>2 DEF Apart
  <2> QED
    BY <1>1, <1>7, <2>1, <2>6, <2>10, <2>11, <2>12, <2>13, OneMoves
<1>15. \/ \E c \in free[n] : req' = [req EXCEPT ![r].pool = TRUE] /\ Goto(<<ClientRequestFrame(c, r)>>)
                             /\ UNCHANGED <<queue, client>>
       \/ \E c \in Unused : client' = [client EXCEPT ![c] = NewClient] /\ req' = [req EXCEPT ![r].pool = TRUE]
                            /\ Goto(<<ClientRequestFrame(c, r)>>) /\ UNCHANGED queue
       \/ queue' = [queue EXCEPT ![n] = Append(@, r)] /\ Goto(<<>>) /\ UNCHANGED client
          /\ req' = [req EXCEPT ![r] = Timed([@ EXCEPT !.pool = TRUE], r)]
  <2>1. Unused # {} => (CHOOSE c \in Unused : TRUE) \in Unused
    OBVIOUS
  <2> QED
    BY <1>4, <1>6, <2>1, Zenon DEF PoolRequest
<1> QED
  BY <1>12, <1>13, <1>14, <1>15

\* The first request of a queue leaves it.
LEMMA FirstLeaves ==
  ASSUME NEW s \in Seq(Requests), s # <<>>, \A i, j \in 1 .. Len(s) : s[i] = s[j] => i = j
  PROVE  /\ Head(s) \in Requests /\ Head(s) \in Range(s) /\ Range(Tail(s)) = Range(s) \ {Head(s)}
         /\ \A i, j \in 1 .. Len(Tail(s)) : Tail(s)[i] = Tail(s)[j] => i = j
<1> DEFINE t == Tail(s)
<1>1. /\ Len(s) \in Nat /\ Len(s) >= 1 /\ Head(s) = s[1] /\ Len(t) = Len(s) - 1 /\ DOMAIN t = 1 .. Len(t)
      /\ DOMAIN s = 1 .. Len(s) /\ s[1] \in Requests /\ Len(t) \in Nat
  OBVIOUS
<1>2. \A i \in 1 .. Len(t) : t[i] = s[i + 1] /\ i + 1 \in 1 .. Len(s) /\ i + 1 # 1
  BY <1>1
<1>3. \A i \in 1 .. Len(s) : i # 1 => i - 1 \in 1 .. Len(t) /\ (i - 1) + 1 = i
  BY <1>1
<1> HIDE DEF t
<1>4. \A i \in 1 .. Len(s) : i # 1 => s[i] = t[i - 1]
  BY <1>2, <1>3
<1>5. 1 \in 1 .. Len(s)
  BY <1>1
<1>6. \A i, j \in 1 .. Len(t) : t[i] = t[j] => i = j
  <2> SUFFICES ASSUME NEW i \in 1 .. Len(t), NEW j \in 1 .. Len(t), t[i] = t[j] PROVE i = j
    OBVIOUS
  <2>1. i + 1 = j + 1
    BY <1>2
  <2> QED
    BY <1>1, <2>1
<1>7. Range(t) = Range(s) \ {s[1]}
  <2>1. \A x \in Range(t) : x \in Range(s) /\ x # s[1]
    BY <1>1, <1>2, <1>5 DEF Range
  <2>2. \A x \in Range(s) : x # s[1] => x \in Range(t)
    BY <1>1, <1>3, <1>4 DEF Range
  <2> QED
    BY <2>1, <2>2
<1>8. s[1] \in Range(s)
  BY <1>1, <1>5 DEF Range
<1> QED
  BY <1>1, <1>6, <1>7, <1>8 DEF t

\* Pool::putback(): the client takes the next request, or is free.
LEMMA PutbackLives ==
  ASSUME Live, Safe', Putback
  PROVE  Sound' /\ Advance
<1>1. At("putback") /\ Safe
  BY DEF Putback, Live
<1>2. /\ stack \in Seq(Frame) /\ stack # <<>> /\ Top = Head(stack) /\ Top \in Frame /\ Top.pc = "putback"
      /\ Top \in Frames(stack) /\ Frames(stack) = {Top} \cup Frames(Tail(stack)) /\ Tail(stack) \in Seq(Frame)
      /\ \A g \in Frames(Tail(stack)) : g.pc \notin {"putback", "request"}
  BY <1>1, OnTop
<1>3. PICK c \in Clients : c = Top.c
  BY <1>2, FrameFields
<1>4. client \in [Clients -> Client] /\ req \in [Requests -> Request] /\ queue \in [NetLocs -> Seq(Requests)]
      /\ lists \subseteq NetLocs
  BY <1>1 DEF Safe, TypeOK
<1>5. Normal /\ client[c].request = 0
  <2>1. Normal
    BY <1>1, AtTop DEF Dying
  <2>2. client[c].request = 0
    BY <1>1, <1>2, <1>3 DEF Safe, Coherent, Owned
  <2> QED
    BY <2>1, <2>2
<1>6. Shape(Tail(stack)) /\ (Reports(Tail(stack)) \/ Leaves(Tail(stack)))
  BY <1>2, ShapePop DEF Live, Sound
<1>7. ASSUME NEW why, Abort(why) PROVE Sound' /\ Advance
  BY <1>7, AbortLives
<1>8. ASSUME Goto(<<>>), UNCHANGED <<queue, client, req, submits>>
      PROVE  Sound' /\ Advance
  <2>1. stack' = Tail(stack)
    BY <1>1, <1>8, Returns
  <2> QED
    BY <1>2, <1>5, <1>6, <1>8, <2>1, NothingMoves
<1>9. ASSUME NEW n \in NetLocs, queue[n] # <<>>, queue' = [queue EXCEPT ![n] = Tail(@)],
             Goto(<<ClientRequestFrame(c, Head(queue[n]))>>), UNCHANGED <<client, req, submits>>
      PROVE  Sound' /\ Advance
  <2>1. queue[n] \in Seq(Requests) /\ \A i, j \in 1 .. Len(queue[n]) : queue[n][i] = queue[n][j] => i = j
    BY <1>4 DEF Live, Sound, Apart
  <2>2. /\ Head(queue[n]) \in Requests /\ Head(queue[n]) \in Range(queue[n])
        /\ Range(Tail(queue[n])) = Range(queue[n]) \ {Head(queue[n])}
        /\ \A i, j \in 1 .. Len(Tail(queue[n])) : Tail(queue[n])[i] = Tail(queue[n])[j] => i = j
    BY <1>9, <2>1, FirstLeaves
  <2>3. PICK r \in Requests : r = Head(queue[n])
    BY <2>2
  <2>4. Queued(r) /\ req[r].pool
    BY <1>5, <2>2, <2>3 DEF Queued, Live, Sound, Ghosts, Normal, Dying
  <2>5. Lives(r, "queued")
    BY <2>4, LivesWhere DEF Live
  <2>6. \A m \in NetLocs : queue'[m] = IF m = n THEN Tail(queue[n]) ELSE queue[m]
    BY <1>4, <1>9
  <2>7. \A m \in NetLocs : Range(queue'[m]) = IF m = n THEN Range(queue[n]) \ {r} ELSE Range(queue[m])
    BY <2>2, <2>3, <2>6
  <2>8. PICK f \in Frame : f = ClientRequestFrame(c, Head(queue[n]))
    BY <2>2, MadeFrames
  <2>9. f.pc = "request" /\ f.c = c /\ f.r = r
    BY <2>3, <2>8 DEF ClientRequestFrame
  <2>10. stack' = <<f>> \o Tail(stack)
    BY <1>9, <2>8 DEF Goto
  <2>11. Frames(stack') = {f} \cup Frames(Tail(stack)) /\ Shape(stack')
    <3>1. <<f>> \in Seq(Frame) /\ Frames(<<f>>) = {f}
      BY FewFrames
    <3>2. Frames(stack') = {f} \cup Frames(Tail(stack))
      BY <1>2, <2>10, <3>1, FramesTogether
    <3>3. stack' # <<>> /\ Head(stack') = f /\ Tail(stack') = Tail(stack)
      BY <1>2, <2>10
    <3>4. Shape(stack')
      BY <1>6, <2>9, <3>3 DEF Shape
    <3> QED
      BY <3>2, <3>4
  <2>12. ASSUME NEW q \in Requests, q # r PROVE Unmoved(q)
    <3>1. \A g \in Frames(stack') : g.pc \in {"pool_request", "request", "notify"} /\ g.r = q => g \in Frames(stack)
      BY <1>2, <2>9, <2>11, <2>12
    <3>2. \A g \in Frames(stack) : g.pc \in {"pool_request", "request", "notify"} /\ g.r = q => g \in Frames(stack')
      BY <1>2, <2>11
    <3>3. \A m \in NetLocs : q \in Range(queue'[m]) <=> q \in Range(queue[m])
      BY <2>7, <2>12
    <3> QED
      BY <1>9, <2>12, <3>1, <3>2, <3>3, Untouched
  <2>13. Lives(r, "placing")'
    <3>1. Placing(r)'
      BY <2>9, <2>11 DEF Placing
    <3>2. ~Notified(r)'
      BY <1>2, <2>5, <2>9, <2>11 DEF Notified, Lives
    <3>3. ~Queued(r)'
      <4>1. \A m \in NetLocs : m # n => r \notin Range(queue[m])
        BY <2>2, <2>3 DEF Live, Sound, Apart
      <4> QED
        BY <2>7, <4>1 DEF Queued
    <3>4. req'[r] = req[r] /\ \A d \in Clients : client'[d].request # r
      BY <1>9, <2>5 DEF Lives
    <3> QED
      BY <2>5, <3>1, <3>2, <3>3, <3>4 DEF Lives
  <2>14. Moved(r, "queued", "placing") /\ <<"queued", "placing">> \in Turns
    BY <2>5, <2>12, <2>13 DEF Moved, Turns
  <2>15. \A g \in Frames(stack') : g.pc \notin Dying
    BY <1>2, <1>5, <2>9, <2>11 DEF Normal, Dying
  <2>16. Aside'
    <3>1. \A g \in Frames(Tail(stack)) : g.pc = "pool_request" => g.r # r
      BY <1>2, <2>5 DEF Lives, Placing
    <3> QED
      BY <1>2, <1>5, <1>9, <2>4, <2>9, <2>11, <3>1 DEF Aside
  <2>17. Apart'
    <3>1. ASSUME NEW m \in NetLocs
          PROVE  \A i, j \in 1 .. Len(queue'[m]) : queue'[m][i] = queue'[m][j] => i = j
      BY <2>2, <2>6 DEF Live, Sound, Apart
    <3>2. ASSUME NEW m \in NetLocs, NEW k \in NetLocs, m # k
          PROVE  Range(queue'[m]) \cap Range(queue'[k]) = {}
      BY <2>7, <3>2 DEF Live, Sound, Apart
    <3> QED
      BY <3>1, <3>2 DEF Apart
  <2>18. Served'
    <3>1. \A g \in Frames(stack') : g.pc # "request" => g \in Frames(stack)
      BY <1>2, <2>9, <2>11
    <3> QED
      BY <1>9, <3>1 DEF Served, Live, Sound
  <2>19. ~Queued(r)'
    BY <2>13 DEF Lives
  <2> QED
    BY <1>5, <1>9, <2>11, <2>14, <2>15, <2>16, <2>17, <2>18, <2>19, OneMoves
<1> DEFINE n == client[c].netloc
<1>10. \/ \E why : Abort(why)
       \/ Goto(<<>>) /\ UNCHANGED <<queue, client, req, submits>>
       \/ /\ n \in lists /\ queue[n] # <<>> /\ queue' = [queue EXCEPT ![n] = Tail(@)]
          /\ Goto(<<ClientRequestFrame(c, Head(queue[n]))>>) /\ UNCHANGED <<client, req, submits>>
  BY <1>3, Zenon DEF Putback
<1> QED
  BY <1>4, <1>7, <1>8, <1>9, <1>10

-----------------------------------------------------------------------------
(* Redirects *)

\* What a redirect leaves on the stack when the request goes to another client.
LEMMA HandedOver ==
  ASSUME NEW t \in Seq(Frame), Still(t), NEW f \in Frame, f.pc = "putback", NEW g \in Frame, g.pc = "weaken",
         NEW h \in Frame, h.pc = "pool_request"
  PROVE  Shape(<<f, g, h>> \o t)
<1> DEFINE u == <<h>> \o t
<1>1. Hands(u) /\ u \in Seq(Frame)
  <2>1. Hands(u)
    BY ShapePush
  <2>2. <<h>> \in Seq(Frame)
    BY FewFrames
  <2> QED
    BY <2>1, <2>2, ConcatProperties
<1>2. <<f, g, h>> \o t = <<f>> \o (<<g>> \o u)
  <2> HIDE DEF u
  <2>1. <<f, g, h>> \o t = <<f>> \o (<<g>> \o (<<h>> \o t))
    BY PushThree, SMTT(30)
  <2> QED
    BY <2>1 DEF u
<1> HIDE DEF u
<1> DEFINE v == <<g>> \o u
<1>3. v \in Seq(Frame) /\ v # <<>> /\ Head(v) = g /\ Tail(v) = u
  BY <1>1
<1>4. Leaves(v)
  BY <1>1, <1>3 DEF Leaves
<1> HIDE DEF v
<1> DEFINE w == <<f>> \o v
<1>5. w # <<>> /\ Head(w) = f /\ Tail(w) = v
  BY <1>3
<1> HIDE DEF w
<1>6. Shape(w)
  BY <1>4, <1>5 DEF Shape
<1> QED
  BY <1>2, <1>6 DEF v, w

\* analyze_request() after redirect_event: the request is placed again.
LEMMA RedirectedLives ==
  ASSUME Live, Safe', Redirected
  PROVE  Sound' /\ Advance
<1>1. At("redirected") /\ UNCHANGED <<queue, submits>> /\ Safe
  BY DEF Redirected, slots, Live
<1>2. /\ stack \in Seq(Frame) /\ stack # <<>> /\ Top = Head(stack) /\ Top \in Frame /\ Top.pc = "redirected"
      /\ Top \in Frames(stack) /\ Frames(stack) = {Top} \cup Frames(Tail(stack)) /\ Tail(stack) \in Seq(Frame)
  BY <1>1, OnTop
<1>3. /\ Top.c \in Clients /\ Top.close \in BOOLEAN
      /\ \A f \in Frames(Tail(stack)) : f.pc = "on_read" /\ f \in Frames(stack)
      /\ \A f \in Frames(stack) : f.pc \in {"redirected", "on_read"}
  BY <1>1, RedirectedAlone
<1>4. PICK c \in Clients : c = Top.c
  BY <1>3
<1>5. client \in [Clients -> Client] /\ req \in [Requests -> Request] /\ client[c] \in Client
  BY <1>1 DEF Safe, TypeOK
<1>6. Normal /\ Still(stack) /\ Still(Tail(stack)) /\ Shape(Tail(stack))
  <2>1. Still(stack) /\ Still(Tail(stack))
    BY <1>3 DEF Still, Passing
  <2>2. Normal
    BY <1>3 DEF Normal, Dying
  <2>3. Shape(Tail(stack))
    BY <2>1 DEF Shape
  <2> QED
    BY <2>1, <2>2, <2>3
<1> DEFINE cl == [client[c] EXCEPT !.inRedirect = FALSE, !.redirectCanceled = FALSE]
           off == [cl EXCEPT !.request = 0]
           e == IF Top.close THEN Reset(off) ELSE off
<1>7. cl.request = client[c].request /\ e.request = 0
  <2>1. cl \in Client /\ cl.request = client[c].request
    BY <1>5 DEF Client
  <2> HIDE DEF cl
  <2>2. off \in Client /\ off.request = 0
    BY <2>1, NoneIsThere DEF Client
  <2> HIDE DEF off
  <2>3. Reset(off).request = 0
    BY <2>2, ResetKeeps
  <2> QED
    BY <2>1, <2>2, <2>3
<1>8. CASE client[c].redirectCanceled
  <2>1. client' = [client EXCEPT ![c] = cl] /\ Goto(<<>>) /\ UNCHANGED req
    BY <1>4, <1>8, Zenon DEF Redirected
  <2> HIDE DEF cl
  <2>2. stack' = Tail(stack)
    BY <1>1, <2>1, Returns
  <2>3. \A d \in Clients : client'[d].request = client[d].request
    BY <1>1, <1>7, <2>1, OneClient
  <2> QED
    BY <1>1, <1>2, <1>3, <1>6, <2>1, <2>2, <2>3, NothingMoves
<1>9. CASE ~client[c].redirectCanceled
  <2>1. client[c].request # 0 /\ client[c].request \in Requests
    <3>1. client[c].request # 0
      BY <1>1, <1>2, <1>4, <1>9 DEF Safe, Coherent, Redirecting
    <3> QED
      BY <1>1, <3>1, HasRequest
  <2>2. PICK r \in Requests : r = client[c].request
    BY <2>1
  <2>3. Lives(r, "running") /\ req[r].client = c
    BY <2>2, LivesWhere DEF Live
  <2>4. /\ client' = [client EXCEPT ![c] = e]
        /\ req' = [req EXCEPT ![r] = cleanup_after_redirect(@)]
        /\ \/ Goto(<<AtClient("putback", c), AtClient("weaken", c), PoolRequestFrame(r)>>)
           \/ Goto(<<ClientRequestFrame(c, r)>>)
    BY <1>4, <1>9, <2>2, Zenon DEF Redirected
  <2> HIDE DEF cl, off, e
  <2>5. \A d \in Clients : client'[d].request = IF d = c THEN 0 ELSE client[d].request
    BY <1>5, <1>7, <2>4
  <2>6. req'[r].pool = req[r].pool /\ req'[r].client = 0 /\ req'[r].timer = req[r].timer
    <3> DEFINE q == cleanup_after_redirect(req[r])
    <3>1. q.pool = req[r].pool /\ q.client = 0 /\ q.timer = req[r].timer
      BY <1>5, CleanupKeeps
    <3>2. req'[r] = q
      BY <1>5, <2>4
    <3> HIDE DEF q
    <3> QED
      BY <3>1, <3>2
  <2>7. \A x \in Requests : x # r => req'[x] = req[x]
    BY <1>5, <2>4
  <2>8. \E K \in SUBSET Frame :
           /\ Frames(stack') = K \cup Frames(Tail(stack)) /\ Shape(stack')
           /\ \A k \in K : k.pc \in {"putback", "weaken", "pool_request", "request"}
           /\ \A k \in K : k.pc \in {"pool_request", "request"} => k.r = r
           /\ \A k \in K : k.pc = "request" => k.c = c /\ K = {k}
           /\ \E k \in K : k.pc \in {"pool_request", "request"}
    <3>1. CASE Goto(<<ClientRequestFrame(c, r)>>)
      <4>1. PICK f \in Frame : f = ClientRequestFrame(c, r)
        BY MadeFrames
      <4>2. f.pc = "request" /\ f.r = r /\ f.c = c
        BY <4>1 DEF ClientRequestFrame
      <4>3. stack' = <<f>> \o Tail(stack)
        BY <3>1, <4>1 DEF Goto
      <4>4. <<f>> \in Seq(Frame) /\ Frames(<<f>>) = {f}
        BY FewFrames
      <4>5. Frames(stack') = {f} \cup Frames(Tail(stack))
        BY <1>2, <4>3, <4>4, FramesTogether
      <4>6. Shape(stack')
        BY <1>2, <1>6, <4>2, <4>3, ShapePush
      <4> WITNESS {f} \in SUBSET Frame
      <4> QED
        BY <4>2, <4>5, <4>6
    <3>2. CASE Goto(<<AtClient("putback", c), AtClient("weaken", c), PoolRequestFrame(r)>>)
      <4>1. PICK f \in Frame : f = AtClient("putback", c)
        BY MadeFrames
      <4>2. PICK g \in Frame : g = AtClient("weaken", c)
        BY MadeFrames
      <4>3. PICK h \in Frame : h = PoolRequestFrame(r)
        BY MadeFrames
      <4>4. f.pc = "putback" /\ g.pc = "weaken" /\ h.pc = "pool_request" /\ h.r = r
        BY <4>1, <4>2, <4>3 DEF AtClient, PoolRequestFrame
      <4>5. stack' = <<f, g, h>> \o Tail(stack)
        BY <3>2, <4>1, <4>2, <4>3 DEF Goto
      <4>6. Frames(stack') = {f, g, h} \cup Frames(Tail(stack))
        <5> DEFINE a == <<f, g, h>>
        <5>1. a \in Seq(Frame) /\ Frames(a) = {f, g, h} /\ stack' = a \o Tail(stack)
          BY <4>5, ThreeFrames, Zenon
        <5> HIDE DEF a
        <5> QED
          BY <1>2, <5>1, FramesTogether
      <4>7. Shape(stack')
        BY <1>2, <1>6, <4>4, <4>5, HandedOver
      <4> WITNESS {f, g, h} \in SUBSET Frame
      <4> QED
        BY <4>4, <4>6, <4>7
    <3> QED
      BY <2>4, <3>1, <3>2
  <2>9. PICK K \in SUBSET Frame :
           /\ Frames(stack') = K \cup Frames(Tail(stack)) /\ Shape(stack')
           /\ \A k \in K : k.pc \in {"putback", "weaken", "pool_request", "request"}
           /\ \A k \in K : k.pc \in {"pool_request", "request"} => k.r = r
           /\ \A k \in K : k.pc = "request" => k.c = c /\ K = {k}
           /\ \E k \in K : k.pc \in {"pool_request", "request"}
    BY <2>8
  <2>10. ASSUME NEW q \in Requests, q # r PROVE Unmoved(q)
    <3>1. \A d \in Clients : client'[d].request = q <=> client[d].request = q
      <4>1. q # 0
        BY DEF Requests
      <4> QED
        BY <2>2, <2>5, <2>10, <4>1
    <3>2. \A g \in Frames(stack') : g.pc \in {"pool_request", "request", "notify"} /\ g.r = q => g \in Frames(stack)
      BY <1>3, <2>9, <2>10
    <3>3. \A g \in Frames(stack) : g.pc \notin {"pool_request", "request", "notify"}
      BY <1>3
    <3> QED
      BY <1>1, <2>7, <2>10, <3>1, <3>2, <3>3, Untouched
  <2>11. Lives(r, "placing")'
    <3>1. Placing(r)' /\ ~Notified(r)'
      BY <1>3, <2>9 DEF Placing, Notified
    <3>2. \A d \in Clients : client'[d].request # r
      <4>1. r # 0 /\ \A d \in Clients : client[d].request = r => d = c
        BY <2>3 DEF Lives, Requests
      <4> QED
        BY <2>5, <4>1
    <3>3. ~Queued(r)' /\ (r \in Untimed => ~req'[r].timer)
      BY <1>1, <2>3, <2>6 DEF Queued, Lives
    <3> QED
      BY <2>6, <3>1, <3>2, <3>3 DEF Lives
  <2>12. Moved(r, "running", "placing") /\ <<"running", "placing">> \in Turns
    BY <2>3, <2>10, <2>11 DEF Moved, Turns
  <2>13. \A g \in Frames(stack') : g.pc \notin Dying /\ g.pc # "callback"
    BY <1>3, <2>9 DEF Dying
  <2>14. req'[r].pool
    BY <2>3, <2>6 DEF Lives
  <2>15. Aside'
    <3>1. \A f, g \in Frames(stack') : f.pc = "request" /\ g.pc = "pool_request" => f.r # g.r
      BY <1>3, <2>9
    <3>2. \A f \in Frames(stack') : f.pc = "request" => f.c = c /\ f.r = r
      BY <1>3, <2>9
    <3> QED
      BY <2>5, <2>14, <3>1, <3>2 DEF Aside
  <2>16. Apart'
    BY <1>1 DEF Apart, Live, Sound
  <2>17. Served'
    BY <2>13 DEF Served, Dying
  <2> QED
    BY <1>1, <1>6, <2>9, <2>12, <2>13, <2>14, <2>15, <2>16, <2>17, OneMoves
<1> QED
  BY <1>8, <1>9

\* No routine ends queued requests while redirect_event runs.
LEMMA RedirectNormal ==
  ASSUME Live, NEW call, UserMay(call), InRedirect
  PROVE  Normal
<1>1. Safe /\ stack \in Seq(Frame) /\ stack # <<>>
  BY DEF Live, Safe, TypeOK, InRedirect
<1>2. stack[2] \in Frames(stack) /\ stack[2].pc = "redirected" /\ \A f \in Frames(stack) : f.pc # "~Pool"
  BY <1>1, RedirectAlone
<1> SUFFICES ASSUME NEW f \in Frames(stack), f.pc \in Dying PROVE FALSE
  BY DEF Normal
<1>3. f.pc # "abort"
  BY <1>1, <1>2, DissolvesTop DEF Live, Sound
<1>4. f.pc # "erase"
  BY <1>2 DEF Live, Sound, Told, Dying
<1> QED
  BY <1>2, <1>3, <1>4 DEF Dying

\* redirect_event throws.
LEMMA ThrowInRedirectLives ==
  ASSUME Live, Safe', ThrowInRedirect
  PROVE  Sound' /\ Advance
<1>1. UserMay("throw") /\ InRedirect /\ Safe
  BY DEF ThrowInRedirect, Live
<1>2. stack[2].c \in Clients
  BY <1>1, RedirectAlone
<1>3. Normal /\ Still(stack)
  BY <1>1, RedirectNormal, UserStill
<1>4. PICK c \in Clients : c = stack[2].c
  BY <1>2
<1> DEFINE cl == [client[c] EXCEPT !.inRedirect = FALSE, !.redirectCanceled = FALSE, !.expects = FALSE]
<1>5. client[c] \in Client
  BY <1>1 DEF Safe, TypeOK
<1>6. cl \in Client /\ cl.request = client[c].request
  BY <1>5 DEF Client
<1>7. \/ /\ client' = [client EXCEPT ![c] = cl] /\ stack' = <<>>
         /\ UNCHANGED <<pool, slots, req, submits, fault>>
      \/ cl.request # 0 /\ FinishRequest(c, cl, FALSE, FALSE, 0, <<>>)
  BY <1>4, Zenon DEF ThrowInRedirect
<1> HIDE DEF cl
<1>8. CASE /\ client' = [client EXCEPT ![c] = cl] /\ stack' = <<>>
           /\ UNCHANGED <<pool, slots, req, submits, fault>>
  <2>1. UNCHANGED <<queue, req, submits>>
    BY <1>8 DEF slots
  <2>2. \A d \in Clients : client'[d].request = client[d].request
    BY <1>1, <1>6, <1>8, OneClient
  <2>3. Frames(stack') = {}
    BY <1>8, Empty
  <2>4. Shape(stack')
    BY <2>3, StillShape
  <2>5. \A f \in Frames(stack) : f.pc \notin {"pool_request", "request", "notify"}
    BY <1>3 DEF Still, Passing
  <2> QED
    BY <1>3, <2>1, <2>2, <2>3, <2>4, <2>5, NothingMoves
<1>9. CASE cl.request # 0 /\ FinishRequest(c, cl, FALSE, FALSE, 0, <<>>)
  BY <1>3, <1>6, <1>9, NoneIsThere, Empty, FinishRequestLives
<1> QED
  BY <1>7, <1>8, <1>9

-----------------------------------------------------------------------------
(* Inactive clients and the end of a request that waits *)

\* A list in which a request waits has clients, so check_inactivity() keeps it.
LEMMA CheckInactivityLives ==
  ASSUME Live, Safe', Orderly, NEW old \in SUBSET UNION {free[n] : n \in NetLocs}, CheckInactivity(old)
  PROVE  Sound' /\ Advance
<1> DEFINE kept == {n \in lists : free[n] \ old # {} \/ busy[n] # {}}
<1>1. /\ stack = <<>> /\ alive /\ UNCHANGED <<req, submits, stack>>
      /\ queue' = [n \in NetLocs |-> IF n \in kept THEN queue[n] ELSE <<>>]
      /\ client' = [c \in Clients |-> IF c \in old THEN NewClient ELSE client[c]]
  BY DEF CheckInactivity, Loop
<1>2. Normal /\ Frames(stack) = {} /\ Still(stack)
  BY <1>1, AtLoop
<1>3. queue \in [NetLocs -> Seq(Requests)] /\ queue' \in [NetLocs -> Seq(Requests)]
  BY DEF Live, Safe, TypeOK
<1>4. ASSUME NEW n \in NetLocs, queue[n] # <<>> PROVE n \in kept
  <2>1. n \in lists /\ \E m \in Limits : Cardinality(busy[n]) >= m
    BY <1>4 DEF Live, Waits
  <2>2. \A m \in Limits : m \in Nat /\ m # 0
    BY BoundsAssumption DEF Orderly
  <2>3. Cardinality({}) = 0
    BY FS_EmptySet
  <2>4. busy[n] # {}
    BY <2>1, <2>2, <2>3
  <2> QED
    BY <2>1, <2>4
<1>5. queue' = queue
  <2> HIDE DEF kept
  <2>1. \A n \in NetLocs : queue'[n] = queue[n]
    BY <1>1, <1>4
  <2> QED
    BY <1>3, <2>1
<1>6. \A c \in Clients : client'[c].request = client[c].request
  <2>1. \A c \in old : client[c].request = 0
    BY <1>1, FreeIsIdle
  <2>2. NewClient.request = 0
    BY DEF NewClient
  <2> QED
    BY <1>1, <2>1, <2>2
<1>7. Shape(stack')
  BY <1>1 DEF Live, Sound
<1> QED
  BY <1>1, <1>2, <1>5, <1>6, <1>7, NothingMoves

\* A request that waits is taken back between events: it is told at once, and
\* leaves its queue after that.
LEMMA CancelRequestLives ==
  ASSUME Live, Safe', FromLoopOnly, NEW r \in Requests, CancelRequest(r, stack), stack = <<>>,
         req[r].client = 0, req[r].pool
  PROVE  Sound' /\ Advance
<1>1. Frames(stack) = {} /\ Safe
  BY AtLoop DEF Live
<1>2. Lives(r, "queued")
  <2>1. ~Placing(r) /\ ~Notified(r)
    BY <1>1 DEF Placing, Notified
  <2> QED
    BY <2>1, LivesWhere DEF Live
<1>3. req \in [Requests -> Request] /\ queue \in [NetLocs -> Seq(Requests)]
  BY <1>1 DEF Safe, TypeOK
<1>4. PICK n \in NetLocs : n = req[r].netloc
  BY <1>3 DEF Request
<1>5. ASSUME NEW why, Abort(why) PROVE Sound' /\ Advance
  BY <1>5, AbortLives
<1>6. ASSUME r \in Range(queue[n]), req' = [req EXCEPT ![r] = Reported(@)],
             stack' = <<Callback("response", r, FALSE, 0), QueuedFrame("erase", n, r)>> \o stack,
             UNCHANGED <<pool, slots, client, submits, fault>>
      PROVE  Sound' /\ Advance
  <2>1. UNCHANGED <<queue, client, submits>>
    BY <1>6 DEF slots
  <2>2. PICK f \in Frame : f = Callback("response", r, FALSE, 0)
    BY MadeFrames, NoneIsThere DEF Events
  <2>3. PICK g \in Frame : g = QueuedFrame("erase", n, r)
    BY <1>3, QueuedFrames
  <2>4. f.pc = "callback" /\ f.r = r /\ g.pc = "erase" /\ g.r = r /\ g.n = n /\ g.q = queue[n]
    BY <2>2, <2>3 DEF Callback, QueuedFrame
  <2>5. Frames(stack') = {f, g}
    <3> DEFINE a == <<f, g>>
    <3>1. a \in Seq(Frame) /\ Frames(a) = {f, g} /\ stack' = a \o <<>>
      BY <1>6, <2>2, <2>3, FewFrames
    <3> HIDE DEF a
    <3> QED
      BY <3>1, Empty, FramesTogether
  <2>6. \A x \in Requests : x # r => req'[x] = req[x]
    BY <1>3, <1>6
  <2>7. ~req'[r].pool /\ req'[r].client = 0 /\ ~req'[r].timer /\ ~req'[r].listener
    <3>1. req'[r] = Reported(req[r])
      BY <1>3, <1>6
    <3> QED
      BY <1>3, <3>1, ReportEnds
  <2>8. ASSUME NEW q \in Requests, q # r PROVE Unmoved(q)
    BY <1>1, <2>1, <2>4, <2>5, <2>6, <2>8, Untouched
  <2>9. Lives(r, "idle")'
    <3>1. ~Placing(r)' /\ ~Notified(r)'
      BY <2>4, <2>5 DEF Placing, Notified
    <3>2. \A d \in Clients : client'[d].request # r
      BY <1>2, <2>1 DEF Lives
    <3> QED
      BY <2>7, <3>1, <3>2 DEF Lives
  <2>10. Moved(r, "queued", "idle") /\ <<"queued", "idle">> \in Turns
    BY <1>2, <2>8, <2>9 DEF Moved, Turns
  <2>11. r \in Idles'
    BY <2>7 DEF Idles
  <2>12. Shape(stack')
    BY <2>4, <2>5, StillShape
  <2>13. Dissolves(stack', Idles')
    <3>1. stack' \in Seq(Frame)
      BY DEF Safe, TypeOK
    <3> QED
      BY <2>4, <2>5, <3>1, DissolvesNot
  <2>14. Told' /\ Left' /\ Aside'
    BY <2>4, <2>5, <2>11 DEF Told, Left, Aside
  <2>15. Named'
    BY <1>6, <2>4, <2>5 DEF Named
  <2>16. Apart'
    BY <2>1 DEF Apart, Live, Sound
  <2>17. Ghosts'
    <3> SUFFICES ASSUME NEW m \in NetLocs, NEW x \in Range(queue'[m]), ~req'[x].pool
                 PROVE  \E h \in Frames(stack') : h.pc = "~Pool" \/ (h.pc = "erase" /\ h.r = x /\ h.n = m)
      BY DEF Ghosts
    <3>1. x \in Range(queue[m]) /\ x \in Requests
      BY <1>3, <2>1 DEF Range
    <3>2. x = r
      BY <1>1, <2>6, <3>1 DEF Live, Sound, Ghosts
    <3>3. m = n
      BY <1>6, <3>1, <3>2 DEF Live, Sound, Apart
    <3> QED
      BY <2>4, <2>5, <3>2, <3>3
  <2>18. Served'
    BY <2>4, <2>5, <2>7 DEF Served
  <2>19. Sound'
    BY <2>12, <2>13, <2>14, <2>15, <2>16, <2>17, <2>18 DEF Sound
  <2>20. <<"queued", "idle">>[1] = "queued" /\ <<"queued", "idle">>[2] = "idle"
    OBVIOUS
  <2> QED
    BY <2>1, <2>10, <2>19, <2>20 DEF Advance
<1> QED
  BY <1>4, <1>5, <1>6, Zenon DEF CancelRequest

\* Request::cancel() and on_timer().
LEMMA EndRequestLives ==
  ASSUME Live, Safe', NEW r \in Requests, EndRequest(r, stack), Still(stack),
         stack # <<>> => Top.pc = "callback" /\ Top \in Frames(stack) /\ Top.r = r,
         FromLoopOnly \/ req[r].client # 0
  PROVE  Sound' /\ Advance
<1>1. req[r] \in Request /\ stack \in Seq(Frame)
  BY DEF Live, Safe, TypeOK
<1>2. CASE req[r].client # 0 /\ Cancel(req[r].client, stack)
  <2>1. req[r].client \in Clients
    BY <1>1, <1>2, BoundsAssumption DEF Request, Clients
  <2>2. Normal
    BY <1>2, NormalIf DEF Idles, Dying
  <2> QED
    BY <1>1, <1>2, <2>1, <2>2, CancelLives
<1>3. CASE req[r].client = 0 /\ req[r].pool /\ CancelRequest(r, stack)
  <2>1. stack = <<>>
    BY <1>3 DEF Live, Sound, Served
  <2> QED
    BY <1>3, <2>1, CancelRequestLives
<1> QED
  BY <1>2, <1>3 DEF EndRequest

\* The timer of a request fires.
LEMMA OnTimerLives ==
  ASSUME Live, Safe', Orderly, NEW r \in Requests, OnTimer(r)
  PROVE  Sound' /\ Advance
<1>1. stack = <<>> /\ EndRequest(r, stack) /\ req[r].timer
  BY DEF OnTimer, Loop
<1>2. Still(stack)
  BY <1>1, AtLoop
<1>3. FromLoopOnly
  <2>1. r \in Untimed => ~req[r].timer
    BY DEF Live, AllLive, Lives
  <2> QED
    BY <1>1, <2>1 DEF Orderly, FromLoopOnly
<1> QED
  BY <1>1, <1>2, <1>3, EndRequestLives

\* The user cancels a request.
LEMMA CancelCallLives ==
  ASSUME Live, Safe', Orderly, NEW r \in Requests, CancelCall(r)
  PROVE  Sound' /\ Advance
<1>1. UserMay("cancel") /\ Holds(r) /\ EndRequest(r, stack)
  BY DEF CancelCall
<1>2. Still(stack) /\ (stack # <<>> => Top.pc = "callback" /\ Top \in Frames(stack))
  BY <1>1, UserStill
<1>3. stack # <<>> => Top.r = r
  BY <1>1 DEF Holds, Orderly
<1>4. FromLoopOnly
  <2>1. stack # <<>> => Top.ev \in Events
    BY <1>2, FramesAreFrames, FrameFields DEF Live, Safe, TypeOK
  <2> QED
    BY <1>1, <2>1 DEF UserMay, Orderly, FromLoopOnly
<1> QED
  BY <1>1, <1>2, <1>3, <1>4, EndRequestLives

-----------------------------------------------------------------------------
(* Requests that are taken out of a queue *)

\* A request that is in a queue once leaves it.
LEMMA OneLeaves ==
  ASSUME NEW s \in Seq(Requests), NEW r \in Range(s), \A i, j \in 1 .. Len(s) : s[i] = s[j] => i = j
  PROVE  /\ Range(RemoveFirst(s, r)) = Range(s) \ {r}
         /\ \A i, j \in 1 .. Len(RemoveFirst(s, r)) : RemoveFirst(s, r)[i] = RemoveFirst(s, r)[j] => i = j
<1> DEFINE I == {i \in 1 .. Len(s) : s[i] = r}
<1>1. Len(s) \in Nat /\ DOMAIN s = 1 .. Len(s) /\ I \in SUBSET Nat
  OBVIOUS
<1>2. I # {}
  BY <1>1 DEF Range
<1>3. SelectInSeq(s, LAMBDA v : v = r) = Min(I)
  BY <1>2, Zenon DEF SelectInSeq
<1>4. Min(I) \in I
  <2> HIDE DEF I
  <2> QED
    BY <1>1, <1>2, MinIsLeast
<1>5. RemoveFirst(s, r) = RemoveAt(s, Min(I))
  <2>1. \E i \in 1 .. Len(s) : s[i] = r
    BY <1>2
  <2> QED
    BY <1>3, <2>1, Zenon DEF RemoveFirst
<1>6. PICK k \in 1 .. Len(s) : k = Min(I) /\ s[k] = r
  BY <1>4
<1> HIDE DEF I
<1> DEFINE a == SubSeq(s, 1, k - 1)
           b == SubSeq(s, k + 1, Len(s))
           t == a \o b
<1>7. a \in Seq(Requests) /\ Len(a) = k - 1 /\ \A i \in 1 .. k - 1 : a[i] = s[i]
  BY <1>1, <1>6
<1>8. b \in Seq(Requests) /\ Len(b) = Len(s) - k /\ \A i \in 1 .. Len(s) - k : b[i] = s[k + i]
  BY <1>1, <1>6
<1> HIDE DEF a, b
<1>9. t \in Seq(Requests) /\ Len(t) = Len(a) + Len(b)
      /\ \A i \in 1 .. Len(a) + Len(b) : t[i] = IF i <= Len(a) THEN a[i] ELSE b[i - Len(a)]
  <2>1. /\ a \o b \in Seq(Requests) /\ Len(a \o b) = Len(a) + Len(b)
        /\ \A i \in 1 .. Len(a) + Len(b) : (a \o b)[i] = IF i <= Len(a) THEN a[i] ELSE b[i - Len(a)]
    <3>1. a \in Seq(Requests) /\ b \in Seq(Requests)
      BY <1>7, <1>8
    <3> QED
      BY <3>1, ConcatProperties
  <2> QED
    BY <2>1, Zenon
<1>10. Len(t) = Len(s) - 1 /\ DOMAIN t = 1 .. Len(t)
  BY <1>1, <1>7, <1>8, <1>9
<1>11. \A i \in 1 .. Len(t) : t[i] = IF i < k THEN s[i] ELSE s[i + 1]
  <2> TAKE i \in 1 .. Len(t)
  <2>1. CASE i < k
    <3>1. i <= Len(a) /\ i \in 1 .. k - 1 /\ i \in 1 .. Len(a) + Len(b)
      BY <1>1, <1>7, <1>8, <1>9, <1>10, <2>1
    <3> QED
      BY <1>7, <1>9, <2>1, <3>1
  <2>2. CASE ~(i < k)
    <3>1. ~(i <= Len(a)) /\ i - Len(a) \in 1 .. Len(s) - k /\ k + (i - Len(a)) = i + 1 /\ i \in 1 .. Len(a) + Len(b)
      BY <1>1, <1>7, <1>8, <1>9, <1>10, <2>2
    <3>2. t[i] = b[i - Len(a)]
      BY <1>9, <3>1
    <3> QED
      BY <1>8, <2>2, <3>1, <3>2
  <2> QED
    BY <2>1, <2>2
<1> HIDE DEF t
<1> DEFINE at(i) == IF i < k THEN i ELSE i + 1
<1>12. \A i \in 1 .. Len(t) : at(i) \in 1 .. Len(s) /\ at(i) # k /\ t[i] = s[at(i)]
  BY <1>1, <1>10, <1>11
<1>13. \A i, j \in 1 .. Len(t) : at(i) = at(j) => i = j
  BY <1>1, <1>10
<1>14. \A j \in 1 .. Len(s) : j # k => \E i \in 1 .. Len(t) : at(i) = j
  <2> TAKE j \in 1 .. Len(s)
  <2>1. CASE j < k
    <3>1. j \in 1 .. Len(t) /\ at(j) = j
      BY <1>1, <1>10, <2>1
    <3> QED
      BY <3>1
  <2>2. CASE j > k
    <3>1. j - 1 \in 1 .. Len(t) /\ at(j - 1) = j
      BY <1>1, <1>10, <2>2
    <3> QED
      BY <3>1
  <2> QED
    BY <2>1, <2>2
<1> HIDE DEF at
<1>15. \A i, j \in 1 .. Len(t) : t[i] = t[j] => i = j
  BY <1>12, <1>13
<1>16. Range(t) = Range(s) \ {r}
  <2>1. \A x \in Range(t) : x \in Range(s) /\ x # r
    BY <1>1, <1>6, <1>10, <1>12 DEF Range
  <2>2. \A x \in Range(s) : x # r => x \in Range(t)
    <3> TAKE x \in Range(s)
    <3> SUFFICES ASSUME x # r PROVE x \in Range(t)
      OBVIOUS
    <3>1. PICK j \in 1 .. Len(s) : x = s[j]
      BY <1>1 DEF Range
    <3>2. PICK i \in 1 .. Len(t) : at(i) = j
      BY <1>6, <1>14, <3>1
    <3>3. x = t[i]
      BY <1>12, <3>1, <3>2
    <3> QED
      BY <1>10, <3>3 DEF Range
  <2> QED
    BY <2>1, <2>2
<1>17. RemoveFirst(s, r) = t
  BY <1>5, <1>6 DEF RemoveAt, t, a, b
<1> QED
  BY <1>15, <1>16, <1>17

\* A request that is in no routine's hands and not the pool's is its user's.
LEMMA StillIdle ==
  ASSUME Live, Still(stack), NEW r \in Requests, ~req[r].pool
  PROVE  Lives(r, "idle")
<1>1. ~Placing(r)
  BY DEF Placing, Still, Passing
<1> QED
  BY <1>1, LivesWhere DEF Live

\* What stays with its user while nobody is given a request.
LEMMA RestsOn ==
  ASSUME NEW r \in Requests, Lives(r, "idle"), Still(stack), Still(stack'),
         \A c \in Clients : client'[c].request = client[c].request,
         ~req'[r].pool /\ req'[r].client = 0 /\ ~req'[r].timer /\ (r \notin Untimed => ~req'[r].listener)
  PROVE  Rests(r)
<1>1. ~Placing(r)' /\ ~Notified(r)'
  BY DEF Placing, Notified, Still, Passing
<1>2. \A c \in Clients : client'[c].request # r
  BY DEF Lives
<1>3. Lives(r, "idle")'
  BY <1>1, <1>2 DEF Lives
<1> QED
  BY <1>3 DEF Rests

\* What it needs for that.
LEMMA IdleFields ==
  ASSUME NEW r \in Requests, Lives(r, "idle")
  PROVE  ~req[r].pool /\ req[r].client = 0 /\ ~req[r].timer /\ (r \notin Untimed => ~req[r].listener)
  BY DEF Lives

\* cancel_request() erases the request it has told.
LEMMA EraseLives ==
  ASSUME Live, Safe', Erase
  PROVE  Sound' /\ Advance
<1>1. At("erase") /\ Safe
  BY DEF Erase, Live
<1>2. /\ stack \in Seq(Frame) /\ stack # <<>> /\ Top = Head(stack) /\ Top \in Frame /\ Top.pc = "erase"
      /\ Top \in Frames(stack) /\ Frames(stack) = {Top} \cup Frames(Tail(stack)) /\ Tail(stack) \in Seq(Frame)
  BY <1>1, OnTop
<1>3. PICK r \in Requests : r = Top.r
  BY <1>2, FrameFields
<1>4. PICK n \in NetLocs : n = Top.n
  BY <1>2, FrameFields
<1>5. queue \in [NetLocs -> Seq(Requests)]
  BY <1>1 DEF Safe, TypeOK
<1>6. CASE Abort("cancel: iterator")
  BY <1>6, AbortLives
<1>7. ASSUME queue[n] = Top.q, queue' = [queue EXCEPT ![n] = RemoveFirst(@, r)], Goto(<<>>),
             UNCHANGED <<client, req, submits>>
      PROVE  Sound' /\ Advance
  <2>1. r \in Range(queue[n]) /\ r \in Idles /\ ~req[r].pool
    BY <1>2, <1>3, <1>7 DEF Live, Sound, Named, Told, Idles
  <2>2. /\ Range(RemoveFirst(queue[n], r)) = Range(queue[n]) \ {r}
        /\ \A i, j \in 1 .. Len(RemoveFirst(queue[n], r)) :
               RemoveFirst(queue[n], r)[i] = RemoveFirst(queue[n], r)[j] => i = j
    <3>1. queue[n] \in Seq(Requests) /\ \A i, j \in 1 .. Len(queue[n]) : queue[n][i] = queue[n][j] => i = j
      BY <1>5 DEF Live, Sound, Apart
    <3> QED
      BY <2>1, <3>1, OneLeaves
  <2>3. \A m \in NetLocs : queue'[m] = IF m = n THEN RemoveFirst(queue[n], r) ELSE queue[m]
    BY <1>5, <1>7
  <2>4. \A m \in NetLocs : Range(queue'[m]) = IF m = n THEN Range(queue[n]) \ {r} ELSE Range(queue[m])
    BY <2>2, <2>3
  <2>5. stack' = Tail(stack)
    BY <1>1, <1>7, Returns
  <2>6. Still(stack) /\ Still(stack') /\ Shape(stack') /\ Dissolves(stack', Idles')
    <3>1. Top.pc \notin Passing
      BY <1>2 DEF Passing
    <3>2. Idles' = Idles
      BY <1>7 DEF Idles
    <3> QED
      BY <1>2, <2>5, <3>1, <3>2, ShapePop, DissolvesTop DEF Live, Sound
  <2>7. \A f \in Frames(stack') : f \in Frames(stack)
    BY <1>2, <2>5
  <2>8. \A f \in Frames(stack) \cup Frames(stack') : f.pc \notin {"pool_request", "request", "notify"}
    BY <2>6 DEF Still, Passing
  <2>9. ASSUME NEW q \in Requests PROVE Unmoved(q) \/ Rests(q)
    <3>1. CASE q = r
      <4>1. Lives(q, "idle")
        BY <2>1, <2>6, <3>1, StillIdle
      <4>2. ~req'[q].pool /\ req'[q].client = 0 /\ ~req'[q].timer /\ (q \notin Untimed => ~req'[q].listener)
        BY <1>7, <4>1, IdleFields
      <4>3. \A c \in Clients : client'[c].request = client[c].request
        BY <1>7
      <4> QED
        BY <2>6, <4>1, <4>2, <4>3, RestsOn
    <3>2. CASE q # r
      <4>1. \A m \in NetLocs : q \in Range(queue'[m]) <=> q \in Range(queue[m])
        BY <2>4, <3>2
      <4> QED
        BY <1>7, <2>8, <4>1, Untouched
    <3> QED
      BY <3>1, <3>2
  <2>10. Aside' /\ Served'
    BY <1>7, <2>7, <2>8 DEF Aside, Served, Live, Sound
  <2>11. Apart'
    <3>1. ASSUME NEW m \in NetLocs
          PROVE  \A i, j \in 1 .. Len(queue'[m]) : queue'[m][i] = queue'[m][j] => i = j
      BY <2>2, <2>3 DEF Live, Sound, Apart
    <3>2. ASSUME NEW m \in NetLocs, NEW k \in NetLocs, m # k
          PROVE  Range(queue'[m]) \cap Range(queue'[k]) = {}
      BY <2>4, <3>2 DEF Live, Sound, Apart
    <3> QED
      BY <3>1, <3>2 DEF Apart
  <2>12. Told'
    <3>1. Idles' = Idles
      BY <1>7 DEF Idles
    <3> QED
      BY <2>7, <3>1 DEF Told, Live, Sound
  <2>13. Named'
    BY <2>7 DEF Named, Live, Sound
  <2>14. Ghosts'
    <3> SUFFICES ASSUME NEW m \in NetLocs, NEW x \in Range(queue'[m]), ~req'[x].pool
                 PROVE  \E h \in Frames(stack') : h.pc = "~Pool" \/ (h.pc = "erase" /\ h.r = x /\ h.n = m)
      BY DEF Ghosts
    <3>1. x \in Range(queue[m]) /\ ~(m = n /\ x = r) /\ ~req[x].pool
      BY <1>7, <2>4
    <3>2. PICK h \in Frames(stack) : h.pc = "~Pool" \/ (h.pc = "erase" /\ h.r = x /\ h.n = m)
      BY <3>1 DEF Live, Sound, Ghosts
    <3>3. h # Top
      BY <1>2, <1>3, <1>4, <3>1, <3>2
    <3> QED
      BY <1>2, <2>5, <3>2, <3>3
  <2>15. Left'
    <3> SUFFICES ASSUME NEW f \in Frames(stack'), f.pc = "~Pool", NEW m \in NetLocs \ f.todo,
                        NEW x \in Range(queue'[m]), req'[x].pool
                 PROVE  \E g \in Frames(stack') : g.pc = "abort" /\ g.r = x
      BY DEF Left
    <3>1. x \in Range(queue[m]) /\ req[x].pool
      BY <1>7, <2>4
    <3>2. PICK g \in Frames(stack) : g.pc = "abort" /\ g.r = x
      BY <2>7, <3>1 DEF Live, Sound, Left
    <3> QED
      BY <1>2, <2>5, <3>2
  <2>16. Sound'
    BY <2>6, <2>10, <2>11, <2>12, <2>13, <2>14, <2>15 DEF Sound
  <2> QED
    BY <1>7, <2>9, <2>16 DEF Advance
<1> QED
  BY <1>3, <1>4, <1>6, <1>7, Zenon DEF Erase

-----------------------------------------------------------------------------
(* The end of the pool *)

\* ~Pool() tells a request that waits.
LEMMA AbortQueuedLives ==
  ASSUME Live, Safe', AbortQueued
  PROVE  Sound' /\ Advance
<1>1. At("abort") /\ Safe
  BY DEF AbortQueued, Live
<1>2. /\ stack \in Seq(Frame) /\ stack # <<>> /\ Top = Head(stack) /\ Top \in Frame /\ Top.pc = "abort"
      /\ Top \in Frames(stack) /\ Frames(stack) = {Top} \cup Frames(Tail(stack)) /\ Tail(stack) \in Seq(Frame)
  BY <1>1, OnTop
<1>3. PICK r \in Requests : r = Top.r
  BY <1>2, FrameFields
<1>4. Top.n \in NetLocs
  BY <1>2, FrameFields
<1>5. req \in [Requests -> Request]
  BY <1>1 DEF Safe, TypeOK
<1>6. CASE Abort("~Pool: iterator")
  BY <1>6, AbortLives
<1>7. ASSUME queue[Top.n] = Top.q, req' = [req EXCEPT ![r] = Reported(@)],
             Goto(<<Callback("response", r, FALSE, 0)>>), UNCHANGED <<queue, client, submits>>
      PROVE  Sound' /\ Advance
  <2>1. PICK f \in Frame : f = Callback("response", r, FALSE, 0)
    BY MadeFrames, NoneIsThere DEF Events
  <2>2. f.pc = "callback" /\ f.r = r
    BY <2>1 DEF Callback
  <2>3. stack' = <<f>> \o Tail(stack)
    BY <1>7, <2>1 DEF Goto
  <2>4. <<f>> \in Seq(Frame) /\ Frames(<<f>>) = {f} /\ Frames(stack') = {f} \cup Frames(Tail(stack))
    <3>1. <<f>> \in Seq(Frame) /\ Frames(<<f>>) = {f}
      BY FewFrames
    <3> QED
      BY <1>2, <2>3, <3>1, FramesTogether
  <2>5. Still(stack) /\ Still(stack') /\ Shape(stack')
    <3>1. Top.pc \notin Passing /\ f.pc \notin Passing
      BY <1>2, <2>2 DEF Passing
    <3>2. Still(stack) /\ Still(Tail(stack))
      BY <1>2, <3>1, ShapePop DEF Live, Sound
    <3>3. Still(stack')
      BY <2>4, <3>1, <3>2 DEF Still
    <3> QED
      BY <3>2, <3>3 DEF Shape
  <2>6. \A x \in Requests : x # r => req'[x] = req[x]
    BY <1>5, <1>7
  <2>7. ~req'[r].pool /\ req'[r].client = 0 /\ ~req'[r].timer /\ ~req'[r].listener
    <3>1. req'[r] = Reported(req[r])
      BY <1>5, <1>7
    <3> QED
      BY <1>5, <3>1, ReportEnds
  <2>8. Idles \subseteq Idles' /\ r \in Idles'
    BY <2>6, <2>7 DEF Idles
  <2>9. Queued(r)
    BY <1>2, <1>3, <1>4, <1>7 DEF Live, Sound, Named, Queued
  <2>10. \A g \in Frames(stack) \cup Frames(stack') : g.pc \notin {"pool_request", "request", "notify"}
    BY <2>5 DEF Still, Passing
  <2>11. ASSUME NEW q \in Requests, q # r PROVE Unmoved(q)
    BY <1>7, <2>6, <2>10, <2>11, Untouched
  <2>12. \A c \in Clients : client'[c].request = client[c].request
    BY <1>7
  <2>13. Advance
    <3>1. CASE req[r].pool
      <4>1. Lives(r, "queued")
        BY <2>9, <3>1, LivesWhere DEF Live
      <4>2. Lives(r, "idle")'
        <5>1. ~Placing(r)' /\ ~Notified(r)'
          BY <2>10 DEF Placing, Notified
        <5>2. \A c \in Clients : client'[c].request # r
          BY <2>12, <4>1 DEF Lives
        <5> QED
          BY <2>7, <5>1, <5>2 DEF Lives
      <4>3. Moved(r, "queued", "idle") /\ <<"queued", "idle">> \in Turns
        BY <2>11, <4>1, <4>2 DEF Moved, Turns
      <4>4. <<"queued", "idle">>[1] = "queued" /\ <<"queued", "idle">>[2] = "idle"
        OBVIOUS
      <4> QED
        BY <1>7, <4>3, <4>4 DEF Advance
    <3>2. CASE ~req[r].pool
      <4>1. Rests(r)
        BY <2>5, <2>7, <2>12, <3>2, StillIdle, RestsOn
      <4> QED
        BY <1>7, <2>11, <4>1 DEF Advance
    <3> QED
      BY <3>1, <3>2
  <2>14. /\ Dissolves(stack', Idles') /\ \E g \in Frames(Tail(stack)) : g.pc = "~Pool"
    <3>1. Dissolves(Tail(stack), Idles) /\ \E g \in Frames(Tail(stack)) : g.pc = "~Pool"
      BY <1>2, DissolvesTop DEF Live, Sound
    <3>2. Dissolves(Tail(stack), Idles')
      BY <1>2, <2>8, <3>1, DissolvesMore
    <3> QED
      BY <1>2, <2>2, <2>3, <2>4, <2>8, <3>1, <3>2, DissolvesOn
  <2>15. Aside' /\ Apart' /\ Named' /\ Ghosts'
    <3>1. Aside' /\ Apart'
      BY <1>7, <2>10 DEF Aside, Apart, Live, Sound
    <3>2. Named'
      BY <1>2, <2>2, <2>4 DEF Named, Live, Sound
    <3>3. Ghosts'
      BY <2>4, <2>14 DEF Ghosts
    <3> QED
      BY <3>1, <3>2, <3>3
  <2>16. Told'
    <3> SUFFICES ASSUME NEW e \in Frames(stack'), e.pc = "erase", NEW g \in Frames(stack')
                 PROVE  g.pc \in {"~Pool", "abort"} \/ (g.pc \in {"erase", "callback"} /\ g.r \in Idles')
      BY DEF Told
    <3>1. e \in Frames(stack)
      BY <1>2, <2>2, <2>4
    <3>2. CASE g = f
      BY <2>2, <2>8, <3>2
    <3>3. CASE g \in Frames(stack)
      BY <2>8, <3>1, <3>3 DEF Live, Sound, Told
    <3> QED
      BY <1>2, <2>4, <3>2, <3>3
  <2>17. Left'
    <3> SUFFICES ASSUME NEW d \in Frames(stack'), d.pc = "~Pool", NEW m \in NetLocs \ d.todo,
                        NEW x \in Range(queue'[m]), req'[x].pool
                 PROVE  \E g \in Frames(stack') : g.pc = "abort" /\ g.r = x
      BY DEF Left
    <3>1. d \in Frames(stack) /\ x \in Range(queue[m]) /\ x \in Requests
      <4>1. queue \in [NetLocs -> Seq(Requests)]
        BY <1>1 DEF Safe, TypeOK
      <4> QED
        BY <1>2, <1>7, <2>2, <2>4, <4>1 DEF Range
    <3>2. x # r /\ req[x].pool
      BY <2>6, <2>7, <3>1
    <3>3. PICK g \in Frames(stack) : g.pc = "abort" /\ g.r = x
      BY <3>1, <3>2 DEF Live, Sound, Left
    <3>4. g # Top
      BY <1>3, <3>2, <3>3
    <3> QED
      BY <1>2, <2>4, <3>3, <3>4
  <2>18. Served'
    <3>1. ASSUME FromLoopOnly, NEW g \in Frames(stack'), g.pc = "callback", req'[g.r].pool PROVE req'[g.r].client # 0
      <4>1. g \in Frames(stack) /\ g.r # r
        BY <1>2, <2>2, <2>4, <2>7, <3>1
      <4>2. g.r \in Requests
        BY <1>2, <3>1, <4>1, FramesAreFrames, FrameFields
      <4> QED
        BY <2>6, <3>1, <4>1, <4>2 DEF Live, Sound, Served
    <3>2. ~FromLoopOnly => \A g \in Frames(stack') : g.pc # "erase"
      BY <1>2, <2>2, <2>4 DEF Live, Sound, Served
    <3> QED
      BY <2>10, <3>1, <3>2 DEF Served
  <2>19. Sound'
    BY <2>5, <2>14, <2>15, <2>16, <2>17, <2>18 DEF Sound
  <2> QED
    BY <2>13, <2>19
<1> QED
  BY <1>3, <1>6, <1>7, Zenon DEF AbortQueued, slots

\* The last reference to the pool goes: every list in which a request waits is
\* still to be gone through.
LEMMA DestroyLives ==
  ASSUME Live, Safe', Destroy
  PROVE  Sound' /\ Advance
<1>1. /\ UserMay("destroy") /\ alive /\ stack' = <<[pc |-> "~Pool", todo |-> lists]>> \o stack
      /\ UNCHANGED <<queue, client, req, submits>> /\ Safe
  BY DEF Destroy, slots, Live
<1>2. stack \in Seq(Frame) /\ lists \subseteq NetLocs
  BY <1>1 DEF Safe, TypeOK
<1>3. PICK d \in Frame : d = [pc |-> "~Pool", todo |-> lists]
  BY <1>2 DEF Frame
<1>4. d.pc = "~Pool" /\ d.todo = lists
  BY <1>3
<1>5. stack' = <<d>> \o stack
  BY <1>1, <1>3
<1>6. <<d>> \in Seq(Frame) /\ Frames(<<d>>) = {d} /\ Frames(stack') = {d} \cup Frames(stack)
  <2>1. <<d>> \in Seq(Frame) /\ Frames(<<d>>) = {d}
    BY FewFrames
  <2> QED
    BY <1>2, <1>5, <2>1, FramesTogether
<1>7. Still(stack)
  BY <1>1, UserStill
<1>8. Shape(stack')
  BY <1>2, <1>4, <1>5, <1>7, ShapePush
<1>9. \A f \in Frames(stack) : f.pc # "~Pool"
  BY <1>1 DEF Safe, Coherent, PoolFrames
<1>10. Idles' = Idles
  BY <1>1 DEF Idles
<1>11. Dissolves(stack', Idles')
  <2>1. Len(<<d>>) = 1
    OBVIOUS
  <2> QED
    BY <1>2, <1>4, <1>5, <1>6, <1>9, <1>10, <2>1, DissolvesOn DEF Live, Sound
<1>12. ASSUME NEW q \in Requests PROVE Unmoved(q)
  BY <1>1, <1>4, <1>6, Untouched
<1>13. Aside' /\ Apart' /\ Named' /\ Served'
  <2>1. Aside /\ Apart /\ Named /\ Served
    BY DEF Live, Sound
  <2>2. \A f \in Frames(stack') : f.pc = "~Pool" \/ f \in Frames(stack)
    BY <1>4, <1>6
  <2>3. \A f \in Frames(stack) : f \in Frames(stack')
    BY <1>6
  <2>4. Aside'
    BY <1>1, <2>1, <2>2, <2>3 DEF Aside
  <2>5. Apart'
    BY <1>1, <2>1, <2>2, <2>3 DEF Apart
  <2>6. Named'
    BY <1>1, <2>1, <2>2, <2>3 DEF Named
  <2>7. Served'
    BY <1>1, <2>1, <2>2, <2>3 DEF Served
  <2> QED
    BY <2>4, <2>5, <2>6, <2>7
<1>14. Ghosts'
  BY <1>4, <1>6 DEF Ghosts
<1>15. Told'
  BY <1>4, <1>6, <1>10 DEF Told, Live, Sound
<1>16. Left'
  <2>1. \A n \in NetLocs \ lists : Range(queue'[n]) = {}
    <3> TAKE n \in NetLocs \ lists
    <3>1. queue'[n] = <<>>
      BY <1>1 DEF Live, Waits
    <3> QED
      BY <3>1 DEF Range
  <2> QED
    BY <1>4, <1>6, <1>9, <2>1 DEF Left
<1>17. Sound'
  BY <1>8, <1>11, <1>13, <1>14, <1>15, <1>16 DEF Sound
<1> QED
  BY <1>1, <1>12, <1>17 DEF Advance

\* The requests ~Pool() is about to tell: those of the list.
LEMMA TellingFrames ==
  ASSUME queue \in [NetLocs -> Seq(Requests)], NEW n \in NetLocs
  PROVE  LET a == [i \in DOMAIN queue[n] |-> QueuedFrame("abort", n, queue[n][i])]
         IN  /\ a \in Seq(Frame)
             /\ \A f \in Frames(a) : f.pc = "abort" /\ f.r \in Range(f.q)
             /\ \A r \in Range(queue[n]) : \E f \in Frames(a) : f.pc = "abort" /\ f.r = r
<1> DEFINE q == queue[n]
           a == [i \in DOMAIN q |-> QueuedFrame("abort", n, q[i])]
<1>1. q \in Seq(Requests) /\ DOMAIN q = 1 .. Len(q) /\ Len(q) \in Nat
  OBVIOUS
<1>2. \A i \in 1 .. Len(q) : a[i] = QueuedFrame("abort", n, q[i]) /\ a[i] \in Frame
  <2> TAKE i \in 1 .. Len(q)
  <2>1. a[i] = QueuedFrame("abort", n, q[i]) /\ q[i] \in Requests
    BY <1>1
  <2> QED
    BY <2>1, QueuedFrames
<1>3. \A i \in 1 .. Len(q) : a[i].pc = "abort" /\ a[i].r = q[i] /\ a[i].q = q
  BY <1>2 DEF QueuedFrame
<1>4. a \in Seq(Frame) /\ Len(a) = Len(q)
  <2> HIDE DEF q
  <2>1. a = [i \in 1 .. Len(q) |-> QueuedFrame("abort", n, q[i])]
    BY <1>1
  <2> QED
    BY <1>1, <1>2, <2>1, IsASeq
<1> HIDE DEF a, q
<1>5. \A f \in Frames(a) : f.pc = "abort" /\ f.r \in Range(f.q)
  BY <1>1, <1>3, <1>4 DEF Frames, Range
<1>6. \A r \in Range(q) : \E f \in Frames(a) : f.pc = "abort" /\ f.r = r
  BY <1>1, <1>3, <1>4 DEF Frames, Range
<1> QED
  BY <1>4, <1>5, <1>6 DEF a, q

\* ~Pool() takes the next list.
LEMMA DestroyListLives ==
  ASSUME Live, Safe', DestroyList
  PROVE  Sound' /\ Advance
<1>1. At("~Pool") /\ UNCHANGED <<queue, req, submits>> /\ Safe
  BY DEF DestroyList, slots, Live
<1>2. /\ stack \in Seq(Frame) /\ stack # <<>> /\ Top = Head(stack) /\ Top \in Frame /\ Top.pc = "~Pool"
      /\ Top \in Frames(stack) /\ Frames(stack) = {Top} \cup Frames(Tail(stack)) /\ Tail(stack) \in Seq(Frame)
      /\ \A g \in Frames(Tail(stack)) : g.pc # "~Pool"
  BY <1>1, OnTop
<1>3. PICK n \in Top.todo :
           /\ client' = [c \in Clients |-> IF c \in busy[n] THEN [client[c] EXCEPT !.pool = FALSE] ELSE client[c]]
           /\ Goto([i \in DOMAIN queue[n] |-> QueuedFrame("abort", n, queue[n][i])]
                   \o <<[Top EXCEPT !.todo = @ \ {n}]>>)
  BY DEF DestroyList
<1>4. Top.todo \in SUBSET NetLocs /\ n \in NetLocs
  BY <1>2, <1>3, FrameFields
<1>5. queue \in [NetLocs -> Seq(Requests)] /\ client \in [Clients -> Client]
  BY <1>1 DEF Safe, TypeOK
<1>6. PICK p \in Frame : p = [Top EXCEPT !.todo = @ \ {n}]
  BY <1>2, <1>4 DEF Frame
<1>7. p.pc = "~Pool" /\ p.todo = Top.todo \ {n}
  BY <1>2, <1>6 DEF Frame
<1>8. PICK a \in Seq(Frame) : a = [i \in DOMAIN queue[n] |-> QueuedFrame("abort", n, queue[n][i])]
  BY <1>4, <1>5, TellingFrames
<1>9. /\ \A f \in Frames(a) : f.pc = "abort" /\ f.r \in Range(f.q)
      /\ \A r \in Range(queue[n]) : \E f \in Frames(a) : f.pc = "abort" /\ f.r = r
  BY <1>4, <1>5, <1>8, TellingFrames
<1> DEFINE t == Tail(stack)
           u == <<p>> \o t
<1>10. <<p>> \in Seq(Frame) /\ Frames(<<p>>) = {p} /\ Len(<<p>>) = 1
  BY FewFrames
<1>11. u \in Seq(Frame) /\ Frames(u) = {p} \cup Frames(t)
  BY <1>2, <1>10, FramesTogether, ConcatProperties
<1>12. stack' = a \o u
  <2>1. stack' = (a \o <<p>>) \o t
    BY <1>3, <1>6, <1>8 DEF Goto
  <2> QED
    BY <1>2, <1>10, <2>1, ConcatAssociative
<1>13. Idles' = Idles
  BY <1>1 DEF Idles
<1>14. Dissolves(u, Idles)
  <2>1. Dissolves(t, Idles)
    BY <1>2, DissolvesTop DEF Live, Sound
  <2> QED
    BY <1>2, <1>7, <1>10, <2>1, DissolvesOn
<1> HIDE DEF t, u
<1>15. Frames(stack') = Frames(a) \cup {p} \cup Frames(t)
  BY <1>11, <1>12, FramesTogether
<1>16. Dissolves(stack', Idles')
  BY <1>7, <1>9, <1>11, <1>12, <1>13, <1>14, DissolvesOn
<1>17. Still(stack) /\ Still(stack') /\ Shape(stack')
  <2>1. Top.pc \notin Passing
    BY <1>2 DEF Passing
  <2>2. Still(stack) /\ Still(t)
    BY <1>2, <2>1, ShapePop DEF Live, Sound, t
  <2>3. Still(stack')
    BY <1>7, <1>9, <1>15, <2>2 DEF Still, Passing
  <2> QED
    BY <2>2, <2>3 DEF Shape
<1>18. \A g \in Frames(stack) \cup Frames(stack') : g.pc \notin {"pool_request", "request", "notify"}
  BY <1>17 DEF Still, Passing
<1>19. \A c \in Clients : client'[c].request = client[c].request
  BY <1>3, <1>5, ResetKeeps
<1>20. ASSUME NEW q \in Requests PROVE Unmoved(q)
  BY <1>1, <1>18, <1>19, Untouched
<1>21. \A g \in Frames(t) : g \in Frames(stack)
  BY <1>2 DEF t
<1>22. Aside' /\ Apart' /\ Named' /\ Ghosts'
  <2>1. Aside /\ Apart /\ Named /\ Ghosts
    BY DEF Live, Sound
  <2>2. \A g \in Frames(stack') :
            (g.pc = "abort" /\ g.r \in Range(g.q)) \/ g.pc = "~Pool" \/ g \in Frames(stack)
    BY <1>7, <1>9, <1>15, <1>21
  <2>3. Aside'
    BY <1>1, <1>18, <2>1, <2>2 DEF Aside
  <2>4. Apart'
    BY <1>1, <1>18, <2>1, <2>2 DEF Apart
  <2>5. Named'
    BY <1>1, <1>18, <2>1, <2>2 DEF Named
  <2>6. Ghosts'
    BY <1>7, <1>15 DEF Ghosts
  <2> QED
    BY <2>3, <2>4, <2>5, <2>6
<1>23. Told' /\ Served'
  <2>1. \A g \in Frames(stack') : g.pc \in {"~Pool", "abort"} \/ g \in Frames(stack)
    BY <1>7, <1>9, <1>15, <1>21
  <2>2. Told'
    BY <1>13, <2>1 DEF Told, Live, Sound
  <2>3. Served'
    BY <1>1, <1>18, <2>1 DEF Served, Live, Sound
  <2> QED
    BY <2>2, <2>3
<1>24. Left'
  <2> SUFFICES ASSUME NEW d \in Frames(stack'), d.pc = "~Pool", NEW m \in NetLocs \ d.todo,
                      NEW x \in Range(queue'[m]), req'[x].pool
               PROVE  \E g \in Frames(stack') : g.pc = "abort" /\ g.r = x
    BY DEF Left
  <2>1. d = p
    BY <1>2, <1>9, <1>15 DEF t
  <2>2. CASE m = n
    BY <1>1, <1>9, <1>15, <2>2
  <2>3. CASE m # n
    <3>1. m \in NetLocs \ Top.todo /\ x \in Range(queue[m]) /\ req[x].pool
      BY <1>1, <1>7, <2>1, <2>3
    <3>2. PICK g \in Frames(stack) : g.pc = "abort" /\ g.r = x
      BY <1>2, <3>1 DEF Live, Sound, Left
    <3>3. g \in Frames(t)
      BY <1>2, <3>2 DEF t
    <3> QED
      BY <1>15, <3>2, <3>3
  <2> QED
    BY <2>2, <2>3
<1>25. Sound'
  BY <1>16, <1>17, <1>22, <1>23, <1>24 DEF Sound
<1> QED
  BY <1>1, <1>20, <1>25 DEF Advance

\* The lists go, and nobody waits in them any more.
LEMMA DestroyEndLives ==
  ASSUME Live, Safe', DestroyEnd
  PROVE  Sound' /\ Advance
<1>1. /\ At("~Pool") /\ Top.todo = {} /\ queue' = [n \in NetLocs |-> <<>>] /\ Goto(<<>>)
      /\ client' = [c \in Clients |-> IF \E n \in NetLocs : c \in free[n] THEN Reset(client[c]) ELSE client[c]]
      /\ UNCHANGED <<req, submits>> /\ Safe
  BY DEF DestroyEnd, Live
<1>2. /\ stack \in Seq(Frame) /\ stack # <<>> /\ Top = Head(stack) /\ Top \in Frame /\ Top.pc = "~Pool"
      /\ Top \in Frames(stack) /\ Frames(stack) = {Top} \cup Frames(Tail(stack)) /\ Tail(stack) \in Seq(Frame)
      /\ \A g \in Frames(Tail(stack)) : g.pc # "~Pool"
  BY <1>1, OnTop
<1>3. stack' = Tail(stack)
  BY <1>1, Returns
<1>4. queue \in [NetLocs -> Seq(Requests)] /\ client \in [Clients -> Client]
  BY <1>1 DEF Safe, TypeOK
<1>5. Idles' = Idles
  BY <1>1 DEF Idles
<1>6. Still(stack) /\ Still(stack') /\ Shape(stack') /\ Dissolves(stack', Idles')
  <2>1. Top.pc \notin Passing
    BY <1>2 DEF Passing
  <2> QED
    BY <1>2, <1>3, <1>5, <2>1, ShapePop, DissolvesTop DEF Live, Sound
<1>7. \A f \in Frames(stack') : f \in Frames(stack) /\ f.pc \notin {"~Pool", "abort"}
  <2>1. ASSUME NEW f \in Frames(Tail(stack)), f.pc = "abort" PROVE FALSE
    <3>1. Tail(stack) # <<>>
      BY <2>1, Empty
    <3>2. Dissolves(Tail(stack), Idles)
      BY <1>2, DissolvesTop DEF Live, Sound
    <3> QED
      BY <1>2, <2>1, <3>1, <3>2, DissolvesTop
  <2> QED
    BY <1>2, <1>3, <2>1
<1>8. \A g \in Frames(stack) \cup Frames(stack') : g.pc \notin {"pool_request", "request", "notify"}
  BY <1>6 DEF Still, Passing
<1>9. \A c \in Clients : client'[c].request = client[c].request
  BY <1>1, <1>4, ResetKeeps
<1>10. \A n \in NetLocs : Range(queue'[n]) = {}
  BY <1>1 DEF Range
<1>11. ASSUME NEW q \in Requests PROVE Unmoved(q) \/ Rests(q)
  <2>1. CASE Queued(q)
    <3>1. PICK n \in NetLocs : q \in Range(queue[n])
      BY <2>1 DEF Queued
    <3>2. ASSUME req[q].pool PROVE FALSE
      <4>1. PICK g \in Frames(stack) : g.pc = "abort"
        BY <1>1, <1>2, <3>1, <3>2 DEF Live, Sound, Left
      <4> QED
        BY <1>2, <1>3, <1>7, <4>1
    <3>3. Lives(q, "idle")
      BY <1>6, <3>2, StillIdle
    <3>4. ~req'[q].pool /\ req'[q].client = 0 /\ ~req'[q].timer /\ (q \notin Untimed => ~req'[q].listener)
      BY <1>1, <3>3, IdleFields
    <3> QED
      BY <1>6, <1>9, <3>3, <3>4, RestsOn
  <2>2. CASE ~Queued(q)
    <3>1. \A m \in NetLocs : q \in Range(queue'[m]) <=> q \in Range(queue[m])
      BY <1>10, <2>2 DEF Queued
    <3> QED
      BY <1>1, <1>8, <1>9, <3>1, Untouched
  <2> QED
    BY <2>1, <2>2
<1>12. Aside' /\ Told' /\ Named' /\ Left' /\ Served'
  <2>1. Aside' /\ Named' /\ Left'
    BY <1>7, <1>8 DEF Aside, Named, Left, Live, Sound
  <2>2. Told'
    BY <1>5, <1>7 DEF Told, Live, Sound
  <2>3. Served'
    BY <1>1, <1>7, <1>8 DEF Served, Live, Sound
  <2> QED
    BY <2>1, <2>2, <2>3
<1>13. Apart'
  <2>1. \A n \in NetLocs : queue'[n] = <<>> /\ Len(<<>>) = 0
    BY <1>1
  <2> QED
    BY <1>10, <2>1 DEF Apart
<1>14. Ghosts'
  BY <1>10 DEF Ghosts
<1>15. Sound'
  BY <1>6, <1>12, <1>13, <1>14 DEF Sound
<1> QED
  BY <1>1, <1>11, <1>15 DEF Advance

-----------------------------------------------------------------------------
(* The inductive invariant *)

\* No client gets into a second list, and none is free and busy.
LEMMA SlotsStep ==
  ASSUME Safe, ListsCounted, Slots, [Next]_vars
  PROVE  Slots'
<1> USE DEF ListsCounted, Slots
<1>1. CASE UNCHANGED <<limit, lists, free, busy>>
  BY <1>1
<1>2. ASSUME NEW c, NEW n \in NetLocs, c \in free[n], free' = [free EXCEPT ![n] = @ \ {c}],
             busy' = [busy EXCEPT ![n] = @ \cup {c}]
      PROVE  Slots'
  <2>1. /\ \A k \in NetLocs : k # n => free'[k] = free[k] /\ busy'[k] = busy[k]
        /\ free'[n] = free[n] \ {c} /\ busy'[n] = busy[n] \cup {c}
    BY <1>2
  <2> QED
    BY <1>2, <2>1
<1>3. ASSUME NEW c, NEW n \in NetLocs, \A k \in NetLocs : c \notin free[k] \cup busy[k], free' = free,
             busy' = [busy EXCEPT ![n] = @ \cup {c}]
      PROVE  Slots'
  <2>1. /\ \A k \in NetLocs : k # n => busy'[k] = busy[k]
        /\ busy'[n] = busy[n] \cup {c}
    BY <1>3
  <2> QED
    BY <1>3, <2>1
<1>4. ASSUME NEW c, NEW n \in NetLocs, c \in busy[n], busy' = [busy EXCEPT ![n] = @ \ {c}],
             free' = [free EXCEPT ![n] = @ \cup {c}]
      PROVE  Slots'
  <2>1. /\ \A k \in NetLocs : k # n => free'[k] = free[k] /\ busy'[k] = busy[k]
        /\ busy'[n] = busy[n] \ {c} /\ free'[n] = free[n] \cup {c}
    BY <1>4
  <2> QED
    BY <1>4, <2>1
<1>5. CASE PoolRequest
  <2>1. At("pool_request")
    BY <1>5, Zenon DEF PoolRequest
  <2>2. req[Top.r].netloc \in NetLocs
    BY <2>1, OnTop, FramesAreFrames, FrameFields DEF Safe, TypeOK, Request
  <2> DEFINE n == req[Top.r].netloc
  <2>3. CASE \E c \in free[n] : /\ free' = [free EXCEPT ![n] = @ \ {c}]
                                /\ busy' = [busy EXCEPT ![n] = @ \cup {c}]
    BY <1>2, <2>2, <2>3, Zenon
  <2>4. CASE UNCHANGED free /\ \E c \in Unused : busy' = [busy EXCEPT ![n] = @ \cup {c}]
    BY <1>3, <2>2, <2>4, Zenon DEF Unused
  <2>5. CASE UNCHANGED <<free, busy>>
    BY <2>5
  <2> QED
    BY <1>5, <2>3, <2>4, <2>5, Zenon DEF PoolRequest
<1>6. CASE Putback
  <2>1. At("putback")
    BY <1>6, Zenon DEF Putback
  <2>2. client[Top.c].netloc \in NetLocs \/ client[Top.c].netloc \notin lists
    BY <2>1, OnTop, FramesAreFrames, FrameFields DEF Safe, TypeOK, Client
  <2> DEFINE n == client[Top.c].netloc
             c == Top.c
  <2>3. CASE UNCHANGED <<free, busy>>
    BY <2>3
  <2>4. CASE n \in lists /\ c \in busy[n] /\ busy' = [busy EXCEPT ![n] = @ \ {c}]
             /\ free' = [free EXCEPT ![n] = @ \cup {c}]
    BY <1>4, <2>2, <2>4, Zenon
  <2> QED
    BY <1>6, <2>3, <2>4, Zenon DEF Putback, Abort, slots
<1>7. CASE DestroyEnd
  BY <1>7 DEF DestroyEnd
<1>8. ASSUME NEW old, CheckInactivity(old) PROVE Slots'
  <2>1. free' = [n \in NetLocs |-> free[n] \ old] /\ busy' = busy
    BY <1>8 DEF CheckInactivity
  <2> QED
    BY <2>1
<1>9. ASSUME NEW m \in Limits, SetMaxConnections(m) PROVE Slots'
  BY <1>9 DEF SetMaxConnections, slots
<1> QED
  BY <1>1, <1>5, <1>6, <1>7, <1>8, <1>9, ListsAlone

\* Every step is one turn of the life of one request at most, and leaves the calls
\* and the queues as the next one needs them.
LEMMA SoundStep ==
  ASSUME Live, Safe', Orderly, [Next]_vars
  PROVE  Sound' /\ Advance
<1>1. CASE UNCHANGED vars
  BY <1>1, SoundAlone DEF vars, slots
<1>2. CASE Internal
  BY <1>2, ReadEndLives, ParseErrorLives, InterimLives, CompleteLives, RedirectedLives, WeakenLives,
     ClientRequestLives, PoolRequestLives, PutbackLives, FinishAndNotifyLives, EraseLives, DestroyListLives,
     AbortQueuedLives, DestroyEndLives, Zenon DEF Internal
<1>3. CASE Return \/ \E host \in Hosts \cup {""} : Redirect(host)
  BY <1>3, ReturnLives, RedirectLives, Zenon
<1>4. CASE Event
  BY <1>4, OnConnectLives, OnErrorLives, OnReadLives, OnEofLives, OnTimerLives, OnStreamedLives,
     CheckInactivityLives, Zenon DEF Event
<1>5. CASE User
  BY <1>5, SubmitLives, CancelCallLives, SendChunkLives, RestoreContextLives, ThrowInRedirectLives,
     DestroyLives, SettingLives, Zenon DEF User
<1> QED
  BY <1>1, <1>2, <1>3, <1>4, <1>5, Zenon DEF Next, Step

\* With a new pool every request is with its user.
LEMMA InitLive ==
  ASSUME Init
  PROVE  Live /\ LimitHolds /\ \A r \in Requests : Lives(r, "idle")
<1>1. Safe /\ ListsCounted /\ LimitHolds
  BY InitSafe, LimitInit
<1>2. stack = <<>> /\ Frames(stack) = {}
  BY Empty DEF Init
<1>3. \A n \in NetLocs : queue[n] = <<>> /\ Range(queue[n]) = {} /\ Len(queue[n]) = 0
  BY DEF Init, Range
<1>4. Waits /\ Slots
  BY <1>3 DEF Init, Waits, Slots
<1>5. ASSUME NEW r \in Requests PROVE Lives(r, "idle")
  <2>1. ~Placing(r) /\ ~Notified(r) /\ ~Queued(r)
    BY <1>2, <1>3 DEF Placing, Notified, Queued
  <2>2. \A c \in Clients : client[c].request = 0
    BY DEF Init, NewClient
  <2>3. req[r].client = 0 /\ ~req[r].pool /\ ~req[r].timer /\ ~req[r].listener
    BY DEF Init, NewRequest
  <2>4. r # 0
    BY DEF Requests
  <2> QED
    BY <2>1, <2>2, <2>3, <2>4 DEF Lives
<1>6. AllLive
  BY <1>5 DEF AllLive, Stages
<1>7. Shape(stack) /\ Dissolves(stack, Idles)
  <2>1. stack \in Seq(Frame)
    BY <1>1 DEF Safe, TypeOK
  <2>2. Still(stack)
    BY <1>2 DEF Still
  <2> QED
    BY <1>2, <2>1, <2>2, DissolvesNot DEF Shape
<1>8. Aside /\ Told /\ Named /\ Left /\ Served
  BY <1>2 DEF Aside, Told, Named, Left, Served
<1>9. Apart /\ Ghosts
  <2>1. \A n \in NetLocs : 1 .. Len(queue[n]) = {}
    BY <1>3
  <2>2. Apart
    BY <1>3, <2>1 DEF Apart
  <2>3. Ghosts
    BY <1>3 DEF Ghosts
  <2> QED
    BY <2>2, <2>3
<1> QED
  BY <1>1, <1>4, <1>5, <1>6, <1>7, <1>8, <1>9 DEF Live, Sound

\* Live is inductive.
LEMMA LiveStep ==
  ASSUME Live, LimitHolds, Orderly, [Next]_vars
  PROVE  (Live /\ LimitHolds)' /\ Advance
<1>1. Safe /\ ListsCounted /\ Waits /\ Slots /\ AllLive
  BY DEF Live
<1>2. Safe' /\ ListsCounted' /\ LimitHolds'
  BY <1>1, SafeStep, LimitStep
<1>3. Waits' /\ Slots'
  BY <1>1, WaitsStep, SlotsStep DEF Safe, TypeOK
<1>4. Sound' /\ Advance
  BY <1>2, SoundStep
<1>5. AllLive'
  <2>1. CASE \A q \in Requests : Unmoved(q) \/ Rests(q)
    BY <1>1, <2>1, LivesOn
  <2>2. ASSUME NEW r \in Requests, NEW t \in Turns, Moved(r, t[1], t[2]) PROVE AllLive'
    <3>1. t[1] \in Stages /\ t[2] \in Stages
      BY <2>2 DEF Turns, Stages
    <3> QED
      BY <1>1, <2>2, <3>1, LivesOn
  <2>3. ASSUME NEW r \in Requests, Moved(r, "idle", "placing") PROVE AllLive'
    BY <1>1, <2>3, LivesOn DEF Stages
  <2> QED
    BY <1>4, <2>1, <2>2, <2>3 DEF Advance
<1> QED
  BY <1>2, <1>3, <1>4, <1>5 DEF Live

-----------------------------------------------------------------------------
(* What the lives of the requests say *)

\* Between events and in a callback no request is on its way.
LEMMA Settled ==
  ASSUME Live, Loop \/ At("callback"), NEW r \in Requests
  PROVE  \E p \in {"idle", "queued", "running"} : Lives(r, p)
<1>1. stack \in Seq(Frame) /\ Shape(stack)
  BY DEF Live, Safe, TypeOK, Sound
<1>2. Still(stack)
  <2>1. CASE stack = <<>>
    BY <2>1, AtLoop
  <2>2. CASE stack # <<>>
    <3>1. Head(stack).pc = "callback"
      BY <2>2 DEF Loop, At, Top
    <3> QED
      BY <1>1, <3>1 DEF Shape, Reports, Hands, Leaves
  <2> QED
    BY <2>1, <2>2
<1>3. ~Placing(r) /\ ~Notified(r)
  BY <1>2 DEF Still, Passing, Placing, Notified
<1>4. PICK p \in Stages : Lives(r, p)
  BY DEF Live, AllLive
<1>5. p # "placing" /\ p # "ending"
  BY <1>3, <1>4 DEF Lives
<1> QED
  BY <1>4, <1>5 DEF Stages

\* Between events a request that was reported back is in no queue.
LEMMA NoGhosts ==
  ASSUME Live, Loop, NEW r \in Requests, Queued(r)
  PROVE  Lives(r, "queued")
<1>1. Frames(stack) = {} /\ AllLive /\ Safe
  BY AtLoop DEF Loop, Live
<1>2. req[r].pool
  BY <1>1 DEF Live, Sound, Ghosts, Queued
<1> QED
  BY <1>1, <1>2, LivesWhere

\* A queue is not longer than there are requests.
LEMMA QueueFits ==
  ASSUME Live, NEW n \in NetLocs
  PROVE  Len(queue[n]) \in Nat /\ Len(queue[n]) <= MaxRequests * MaxSubmits
<1>1. queue[n] \in Seq(Requests)
  BY DEF Live, Safe, TypeOK
<1> DEFINE k == Len(queue[n])
<1>2. k \in Nat /\ DOMAIN queue[n] = 1 .. k
  BY <1>1
<1>3. queue[n] \in Injection(1 .. k, Requests)
  <2>1. queue[n] \in [1 .. k -> Requests]
    BY <1>1
  <2>2. \A i, j \in DOMAIN queue[n] : queue[n][i] = queue[n][j] => i = j
    BY <1>2 DEF Live, Sound, Apart
  <2> QED
    BY <2>1, <2>2, Zenon DEF Injection, IsInjective
<1>4. MaxRequests \in Nat /\ MaxSubmits \in Nat /\ MaxSubmits >= 1 /\ MaxRequests >= 1
  BY BoundsAssumption
<1>5. IsFiniteSet(Requests) /\ Cardinality(Requests) = MaxRequests
  BY <1>4, FS_Interval DEF Requests
<1>6. Cardinality(1 .. k) <= MaxRequests /\ Cardinality(1 .. k) = k
  <2>1. Cardinality(1 .. k) <= MaxRequests
    <3>1. Cardinality(1 .. k) <= Cardinality(Requests)
      BY <1>3, <1>5, FS_Injection, Zenon
    <3> QED
      BY <1>5, <3>1
  <2>2. Cardinality(1 .. k) = IF 1 > k THEN 0 ELSE k - 1 + 1
    BY <1>2, FS_Interval, SMTT(30)
  <2> QED
    BY <1>2, <2>1, <2>2
<1>7. MaxRequests <= MaxRequests * MaxSubmits
  BY <1>4
<1>8. MaxRequests * MaxSubmits \in Nat
  BY <1>4
<1> HIDE DEF k
<1>9. k <= MaxRequests * MaxSubmits
  BY <1>2, <1>4, <1>6, <1>7, <1>8
<1> QED
  BY <1>2, <1>9 DEF k

\* The queue has the request it has once.
LEMMA QueuedOnce ==
  ASSUME Live, NEW r \in Requests
  PROVE  Cardinality({p \in NetLocs \X (1 .. MaxRequests * MaxSubmits) :
                          p[2] \in DOMAIN queue[p[1]] /\ queue[p[1]][p[2]] = r})
           = IF Queued(r) THEN 1 ELSE 0
<1> DEFINE S == {p \in NetLocs \X (1 .. MaxRequests * MaxSubmits) :
                     p[2] \in DOMAIN queue[p[1]] /\ queue[p[1]][p[2]] = r}
<1>1. \A n \in NetLocs : DOMAIN queue[n] = 1 .. Len(queue[n])
  BY DEF Live, Safe, TypeOK
<1>2. CASE ~Queued(r)
  <2>1. S = {}
    BY <1>2 DEF Queued, Range
  <2> QED
    BY <1>2, <2>1, FS_EmptySet
<1>3. CASE Queued(r)
  <2>1. PICK n \in NetLocs : r \in Range(queue[n])
    BY <1>3 DEF Queued
  <2>2. PICK i \in DOMAIN queue[n] : queue[n][i] = r
    BY <2>1 DEF Range
  <2>3. i \in 1 .. MaxRequests * MaxSubmits
    <3>1. Len(queue[n]) \in Nat /\ Len(queue[n]) <= MaxRequests * MaxSubmits
      BY QueueFits
    <3>2. i \in 1 .. Len(queue[n])
      BY <1>1, <2>2
    <3>3. MaxRequests * MaxSubmits \in Nat
      BY BoundsAssumption
    <3> DEFINE x == MaxRequests * MaxSubmits
    <3> HIDE DEF x
    <3>4. i \in 1 .. x
      BY <3>1, <3>2, <3>3 DEF x
    <3> QED
      BY <3>4 DEF x
  <2>4. ASSUME NEW m \in NetLocs, NEW j \in DOMAIN queue[m], queue[m][j] = r PROVE m = n /\ j = i
    <3>1. r \in Range(queue[m])
      BY <2>4 DEF Range
    <3>2. m = n
      BY <2>1, <3>1 DEF Live, Sound, Apart
    <3>3. j = i
      BY <1>1, <2>2, <2>4, <3>2 DEF Live, Sound, Apart
    <3> QED
      BY <3>2, <3>3
  <2>5. S = {<<n, i>>}
    <3>1. <<n, i>> \in S
      BY <2>2, <2>3
    <3>2. ASSUME NEW p \in S PROVE p = <<n, i>>
      <4>1. PICK m \in NetLocs, j \in 1 .. MaxRequests * MaxSubmits : p = <<m, j>>
        OBVIOUS
      <4>2. j \in DOMAIN queue[m] /\ queue[m][j] = r
        BY <4>1
      <4> QED
        BY <2>4, <4>1, <4>2
    <3> QED
      BY <3>1, <3>2
  <2> QED
    BY <1>3, <2>5, FS_Singleton
<1> QED
  BY <1>2, <1>3

\* A client has the request it has, and no other has it.
LEMMA ActiveOnce ==
  ASSUME NEW r \in Requests, NEW p \in Stages, Lives(r, p)
  PROVE  Cardinality({c \in Clients : client[c].request = r}) = IF p = "running" THEN 1 ELSE 0
<1>1. CASE p = "running"
  <2>1. {c \in Clients : client[c].request = r} = {req[r].client}
    BY <1>1 DEF Lives
  <2> QED
    BY <1>1, <2>1, FS_Singleton
<1>2. CASE p # "running"
  <2>1. {c \in Clients : client[c].request = r} = {}
    BY <1>2 DEF Lives
  <2> QED
    BY <1>2, <2>1, FS_EmptySet
<1> QED
  BY <1>1, <1>2

\* A user who deals with requests in an orderly way finds the client of a request and
\* the request of a client pointing to each other, between events and in every
\* callback: through redirects, retries, cancels, exceptions and the end of the pool
\* (Client::request 47, 96, analyze_request 251-256, finish_request 280).
THEOREM AlwaysLinked ==
  ASSUME Orderly
  PROVE  Spec => []Linked
<1> DEFINE Inv == Live /\ LimitHolds
<1>1. Init => Inv
  BY InitLive
<1>2. Inv /\ [Next]_vars => Inv'
  BY LiveStep
<1>3. Inv => Linked
  <2> SUFFICES ASSUME Live, NEW r \in Requests, NEW c \in Clients, Loop \/ At("callback")
               PROVE  req[r].client = c <=> client[c].request = r
    BY DEF Linked
  <2>1. PICK p \in {"idle", "queued", "running"} : Lives(r, p)
    BY Settled
  <2>2. c # 0
    BY DEF Clients
  <2> QED
    BY <2>1, <2>2 DEF Lives
<1> QED
  BY <1>1, <1>2, <1>3, PTL DEF Spec

\* For such a user the timeout covers a request from its submission to its report, in
\* the queue, on a client and from one redirect to the next, and no longer: between
\* events its timer runs and is listened to exactly while the pool has it
\* (ensure_timer_active, cleanup_after_redirect, finish_and_notify).
THEOREM TimerAlwaysCovers ==
  ASSUME Orderly
  PROVE  Spec => []TimerCovers
<1> DEFINE Inv == Live /\ LimitHolds
<1>1. Init => Inv
  BY InitLive
<1>2. Inv /\ [Next]_vars => Inv'
  BY LiveStep
<1>3. Inv => TimerCovers
  <2> SUFFICES ASSUME Live, NEW r \in Requests \ Untimed, Loop
               PROVE  /\ req[r].pool => req[r].timer /\ req[r].listener
                      /\ ~req[r].pool => ~req[r].timer /\ ~req[r].listener
    BY DEF TimerCovers
  <2>1. PICK p \in {"idle", "queued", "running"} : Lives(r, p)
    BY Settled
  <2> QED
    BY <2>1 DEF Lives
<1> QED
  BY <1>1, <1>2, <1>3, PTL DEF Spec

\* For such a user a request that was submitted and not yet reported back is in one
\* queue once or with one client, and any other is nowhere: none is lost and none is
\* run twice (Pool::request, putback, cancel_request, check_inactivity, ~Pool).
THEOREM AlwaysOnePlace ==
  ASSUME Orderly
  PROVE  Spec => []OnePlace
<1> DEFINE Inv == Live /\ LimitHolds
<1>1. Init => Inv
  BY InitLive
<1>2. Inv /\ [Next]_vars => Inv'
  BY LiveStep
<1>3. Inv => OnePlace
  <2> SUFFICES ASSUME Live PROVE OnePlace
    OBVIOUS
  <2>1. ASSUME Loop, NEW r \in Requests PROVE Places(r) = IF req[r].pool THEN 1 ELSE 0
    <3>1. PICK p \in {"idle", "queued", "running"} : Lives(r, p)
      BY <2>1, Settled
    <3>2. p \in Stages /\ stack \in Seq(Frame)
      BY DEF Stages, Live, Safe, TypeOK
    <3>3. Queued(r) <=> p = "queued"
      <4>1. Queued(r) => p = "queued"
        BY <2>1, <3>1, <3>2, NoGhosts, OnePhase DEF Stages
      <4> QED
        BY <3>1, <4>1 DEF Lives
    <3>4. req[r].pool <=> p # "idle"
      BY <3>1 DEF Lives
    <3>5. Cardinality({c \in Clients : client[c].request = r}) = IF p = "running" THEN 1 ELSE 0
      BY <3>1, <3>2, ActiveOnce
    <3>6. Places(r) = (IF p = "running" THEN 1 ELSE 0) + (IF Queued(r) THEN 1 ELSE 0)
      BY <3>5, QueuedOnce DEF Places
    <3> QED
      BY <3>1, <3>3, <3>4, <3>6
  <2>2. ASSUME NEW c \in Clients, client[c].request # 0 PROVE req[client[c].request].pool
    <3>1. client[c].request \in Requests
      BY <2>2 DEF Live, Safe, TypeOK, Client, Requests
    <3>2. AllLive /\ Safe
      BY DEF Live
    <3>3. Lives(client[c].request, "running")
      BY <3>1, <3>2, LivesWhere
    <3> QED
      BY <3>3 DEF Lives
  <2> QED
    BY <2>1, <2>2 DEF OnePlace
<1> QED
  BY <1>1, <1>2, <1>3, PTL DEF Spec

-----------------------------------------------------------------------------
(* The refinement of RequestLife *)

\* The phases are what the structures say.
Agrees == \A r \in Requests, p \in Stages : Lives(r, p) /\ stack \in Seq(Frame) => Phase(r) = p

\* A step that does not move request r does not change its phase.
LEMMA PhaseStays ==
  ASSUME Live, Live', Agrees, Agrees', NEW r \in Requests, Unmoved(r) \/ Rests(r)
  PROVE  Phase(r)' = Phase(r)
<1>1. stack \in Seq(Frame) /\ stack' \in Seq(Frame) /\ AllLive
  BY DEF Live, Safe, TypeOK
<1>2. PICK p \in Stages : Lives(r, p) /\ Lives(r, p)'
  <2>1. CASE Unmoved(r)
    BY <1>1, <2>1, UnmovedLives DEF AllLive
  <2>2. CASE Rests(r)
    BY <2>2 DEF Rests, Stages
  <2> QED
    BY <2>1, <2>2
<1>3. Phase(r) = p
  BY <1>1, <1>2 DEF Agrees
<1>4. Phase(r)' = p
  BY <1>1, <1>2 DEF Agrees
<1> QED
  BY <1>3, <1>4

\* A step that moves a request is a step of its life.
LEMMA PhaseMoves ==
  ASSUME Live, Live', Agrees, Agrees', NEW r \in Requests, NEW from \in Stages, NEW to \in Stages,
         Moved(r, from, to)
  PROVE  Life!Move(r, from, to)
<1>1. stack \in Seq(Frame) /\ stack' \in Seq(Frame)
  BY DEF Live, Safe, TypeOK
<1>2. Phase(r) = from /\ Phase(r)' = to
  BY <1>1 DEF Moved, Agrees
<1>3. \A q \in Requests : q # r => Phase(q)' = Phase(q)
  BY PhaseStays DEF Moved
<1> QED
  BY <1>2, <1>3 DEF Life!Move

\* A step of the pool, of a client or of the user is a step of one life or of none.
LEMMA LifeStep ==
  ASSUME Live, Live', Agrees, Agrees', Advance
  PROVE  Life!Next \/ UNCHANGED <<[r \in Requests |-> Phase(r)], submits>>
<1>1. CASE (\A q \in Requests : Unmoved(q) \/ Rests(q)) /\ submits' = submits
  BY <1>1, PhaseStays
<1>2. ASSUME NEW r \in Requests, NEW t \in Turns, Moved(r, t[1], t[2]), submits' = submits
      PROVE  Life!Next \/ UNCHANGED <<[q \in Requests |-> Phase(q)], submits>>
  <2>1. t[1] \in Stages /\ t[2] \in Stages
    BY <1>2 DEF Turns, Stages
  <2>2. Life!Move(r, t[1], t[2])
    BY <1>2, <2>1, PhaseMoves
  <2>3. CASE t = <<"placing", "placing">>
    <3>1. Life!Move(r, "placing", "placing")
      BY <2>2, <2>3
    <3> QED
      BY <1>2, <3>1 DEF Life!Move
  <2>4. CASE t # <<"placing", "placing">>
    <3>1. Life!Progress(r)
      BY <1>2, <2>2, <2>4 DEF Turns, Life!Progress, Life!Enqueue, Life!Dequeue, Life!Run, Life!Redirect,
         Life!Finish, Life!Report
    <3> QED
      BY <3>1 DEF Life!Next
  <2> QED
    BY <2>3, <2>4
<1>3. ASSUME NEW r \in Requests, Moved(r, "idle", "placing"), submits' = [submits EXCEPT ![r] = @ + 1]
      PROVE  Life!Next
  <2>1. Life!Move(r, "idle", "placing")
    BY <1>3, PhaseMoves DEF Stages
  <2> QED
    BY <1>3, <2>1 DEF Life!Next, Life!Submit
<1> QED
  BY <1>1, <1>2, <1>3 DEF Advance

\* For such a user the pool and its clients implement RequestLife: a request is run
\* only after it was submitted, a redirect takes it off its client before it is placed
\* again, and there is one report per submission (finish_and_notify, reached from
\* finish_request, cancel_request and ~Pool).  That the report comes is left to TLC.
THEOREM ImplementsLife ==
  ASSUME Orderly
  PROVE  Spec => Life!Spec
<1> DEFINE Inv == Live /\ LimitHolds
<1>1. Agrees
  BY PhaseIs DEF Agrees
<1>2. Init => Inv
  BY InitLive
<1>3. Inv /\ [Next]_vars => Inv' /\ Advance
  BY LiveStep
<1>4. Inv /\ Inv' /\ Agrees /\ Agrees' /\ Advance => [Life!Next]_<<[r \in Requests |-> Phase(r)], submits>>
  BY LifeStep
<1>5. Inv /\ Agrees /\ Init => Life!Init
  <2> SUFFICES ASSUME Live, Agrees, Init PROVE Life!Init
    OBVIOUS
  <2>1. \A r \in Requests : Phase(r) = "idle"
    BY InitLive DEF Agrees, Stages, Live, Safe, TypeOK
  <2> QED
    BY <2>1 DEF Life!Init, Init
<1> QED
  BY <1>1, <1>2, <1>3, <1>4, <1>5, PTL DEF Spec, Life!Spec
=============================================================================
