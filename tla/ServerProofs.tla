---------------------------- MODULE ServerProofs ----------------------------
(***************************************************************************)
(* Proofs about Server, for any number of connections and runs: the types,  *)
(* that a graceful stop only drains, that the state tells the truth between *)
(* events, and that connections live as ConnectionLife says.                *)
(***************************************************************************)
EXTENDS Server, WellFoundedInduction, TLAPS

-----------------------------------------------------------------------------
(* The call stack *)

\* The frames that the code pushes are frames.
LEMMA FrameTypes ==
  /\ \A ev \in Events, c \in 0 .. MaxConnections : Callback(ev, c) \in Frame
  /\ \A c \in Conns : Remove(c) \in Frame
  /\ \A pc \in {"stop", "~Server"} : CloseAll(pc) \in Frame
BY DEF Frame, Callback, Remove, CloseAll

\* Pushing frames and going on with frames keeps the stack a stack.
LEMMA StackTypes ==
  ASSUME NEW s \in Seq(Frame)
  PROVE  /\ \A f \in Frame : <<f>> \o s \in Seq(Frame)
         /\ \A f \in Frame : <<f>> \in Seq(Frame)
         /\ \A f, g \in Frame : <<f>> \o <<g>> \in Seq(Frame)
         /\ s # <<>> => Head(s) \in Frame /\ Tail(s) \in Seq(Frame)
         /\ s # <<>> => \A fs \in Seq(Frame) : fs \o Tail(s) \in Seq(Frame)
OBVIOUS

\* A nonempty set of naturals has a least element.
LEMMA MinNat ==
  ASSUME NEW S \in SUBSET Nat, S # {}
  PROVE  Min(S) \in S
<1> DEFINE R == {ss \in Nat \X Nat : ss[1] < ss[2]}
<1>1. IsWellFoundedOn(R, Nat)
  BY NatLessThanWellFounded DEF OpToRel
<1>2. PICK x \in S : \A y \in S : ~ (<<y, x>> \in R)
  BY <1>1, WFMin
<1>3. \A y \in S : ~ (y < x)
  <2> SUFFICES ASSUME NEW y \in S, y < x PROVE <<y, x>> \in R
    BY <1>2
  <2>1. <<y, x>> \in Nat \X Nat /\ <<y, x>>[1] = y /\ <<y, x>>[2] = x
    OBVIOUS
  <2> QED
    BY <2>1
<1>4. \A y \in S : x =< y
  BY <1>3, SMT
<1> QED
  BY <1>4 DEF Min

\* The connection that stop() closes next is one of the server's.
LEMMA MinMember ==
  ASSUME Members # {}
  PROVE  Min(Members) \in Members
<1>1. Members \subseteq Nat
  BY BoundsAssumption DEF Members, Conns
<1> QED
  BY <1>1, MinNat

\* Closing a connection pushes frames.
LEMMA CloseFramesType ==
  ASSUME NEW c \in Conns
  PROVE  CloseFrames(c) \in Seq(Frame)
<1>1. Callback("drop", c) \in Frame /\ Remove(c) \in Frame
  BY FrameTypes, BoundsAssumption DEF Conns, Events
<1> QED
  BY <1>1 DEF CloseFrames

\* The frames of a close() are pushed one by one.
LEMMA CloseSplit ==
  ASSUME NEW s \in Seq(Frame), NEW c \in Conns
  PROVE  CloseFrames(c) \o s = IF HasRequest(c) THEN <<Callback("drop", c)>> \o (<<Remove(c)>> \o s)
                               ELSE <<Remove(c)>> \o s
<1> DEFINE d == Callback("drop", c)
           r == Remove(c)
<1>1. d \in Frame /\ r \in Frame
  BY FrameTypes, BoundsAssumption DEF Conns, Events
<1>2. (<<d>> \o <<r>>) \o s = <<d>> \o (<<r>> \o s) /\ (<<>> \o <<r>>) \o s = <<r>> \o s
  BY <1>1
<1> QED
  BY <1>2 DEF CloseFrames

\* What graceful_stop() makes of a connection.
LEMMA ToldValues ==
  \A s \in Connection : /\ s = "idle" => Told(s) = "shut"
                        /\ s = "busy" => Told(s) = "stopping"
                        /\ s \notin {"idle", "busy"} => Told(s) = s
BY Zenon DEF Told

-----------------------------------------------------------------------------
(* Types *)

\* Every step of the server keeps the types.
LEMMA TypeStep == TypeOK /\ [Next]_vars => TypeOK'
<1> SUFFICES ASSUME TypeOK, [Next]_vars PROVE TypeOK'
  OBVIOUS
<1> USE BoundsAssumption
<1>1. /\ stack \in Seq(Frame) /\ conn \in [Conns -> Connection] /\ MaxConnections \in Nat
      /\ state \in {"initial", "running", "stopping", "destroyed"}
      /\ listeners \in {"none", "some", "all"} /\ muted \in BOOLEAN
      /\ lastid \in 0 .. MaxConnections /\ runs \in 0 .. MaxRuns /\ MaxRuns \in Nat
  BY DEF TypeOK
<1>2. /\ \A f \in Frame : <<f>> \o stack \in Seq(Frame) /\ <<f>> \in Seq(Frame)
      /\ stack # <<>> => Top \in Frame /\ \A fs \in Seq(Frame) : fs \o Tail(stack) \in Seq(Frame)
  BY <1>1, StackTypes DEF Top
<1>3. /\ Callback("stop", 0) \in Frame /\ Callback("run", 0) \in Frame
      /\ \A c \in Conns : /\ Callback("drop", c) \in Frame /\ Callback("request", c) \in Frame
                          /\ Callback("connect", c) \in Frame
      /\ \A c \in Conns : Remove(c) \in Frame
      /\ \A pc \in {"stop", "~Server"} : CloseAll(pc) \in Frame
  BY <1>1, FrameTypes DEF Conns, Events
<1>4. CASE StopLoop
  <2>1. CASE Members # {}
    <3>1. Min(Members) \in Conns
      BY <2>1, MinMember DEF Members
    <3>2. CloseFrames(Min(Members)) \in Seq(Frame) /\ <<Top>> \in Seq(Frame)
      BY <1>2, <1>4, <3>1, CloseFramesType DEF StopLoop, At
    <3>3. CloseFrames(Min(Members)) \o <<Top>> \in Seq(Frame)
      BY <3>2
    <3>4. stack' \in Seq(Frame)
      BY <1>2, <1>4, <2>1, <3>3 DEF StopLoop, At, Goto
    <3>5. conn' \in [Conns -> Connection]
      BY <1>1, <1>4, <2>1, <3>1 DEF StopLoop, Connection
    <3> QED
      BY <1>1, <1>4, <2>1, <3>4, <3>5 DEF StopLoop, TypeOK
  <2>2. CASE Members = {}
    <3>0. stack # <<>> /\ <<>> \in Seq(Frame)
      BY <1>4 DEF StopLoop, At
    <3>1. stack' \in Seq(Frame)
      <4>1. CASE Top.pc = "stop" /\ stack' = <<Callback("stop", 0)>> \o Tail(stack)
        BY <1>2, <1>3, <3>0, <4>1
      <4>2. CASE Top.pc = "~Server" /\ stack' = <<>> \o Tail(stack)
        BY <1>2, <3>0, <4>2
      <4> QED
        BY <1>4, <2>2, <4>1, <4>2 DEF StopLoop, Goto
    <3> QED
      BY <1>1, <1>4, <2>2, <3>1 DEF StopLoop, TypeOK
  <2> QED
    BY <2>1, <2>2
<1>5. CASE RemoveConnection
  <2>1. stack' \in Seq(Frame)
    BY <1>2, <1>3, <1>5 DEF RemoveConnection, At, Goto
  <2>2. conn' \in [Conns -> Connection]
    BY <1>1, <1>5 DEF RemoveConnection, Connection
  <2> QED
    BY <1>1, <1>5, <2>1, <2>2 DEF RemoveConnection, TypeOK
<1>6. CASE Return
  <2>1. stack' \in Seq(Frame)
    BY <1>2, <1>6 DEF Return, At, Goto
  <2> QED
    BY <1>1, <1>6, <2>1 DEF Return, TypeOK
<1>7. CASE Run
  <2>1. stack' \in Seq(Frame) /\ listeners' \in {"none", "some", "all"}
    BY <1>1, <1>2, <1>3, <1>7 DEF Run, StartListening
  <2>2. state' = "running" /\ muted' = FALSE /\ runs' = runs + 1 /\ runs < MaxRuns /\ UNCHANGED <<lastid, conn>>
    BY <1>7, Zenon DEF Run
  <2>3. muted' \in BOOLEAN
    BY <2>2
  <2>4. runs' \in 0 .. MaxRuns
    BY <1>1, <2>2
  <2> QED
    BY <1>1, <2>1, <2>2, <2>3, <2>4 DEF TypeOK
<1>8. CASE Configure
  BY <1>1, <1>8 DEF Configure, StartListening, TypeOK
<1>9. CASE Stop
  BY <1>1, <1>2, <1>3, <1>9 DEF Stop, TypeOK
<1>10. CASE GracefulStop
  <2>1. conn' \in [Conns -> Connection]
    <3>1. \A s \in Connection : Told(s) \in Connection
      BY ToldValues DEF Connection
    <3> QED
      BY <1>1, <1>10, <3>1 DEF GracefulStop
  <2>2. stack' \in Seq(Frame)
    BY <1>1, <1>2, <1>3, <1>10 DEF GracefulStop
  <2> QED
    BY <1>1, <1>10, <2>1, <2>2 DEF GracefulStop, TypeOK
<1>11. CASE Destroy
  BY <1>1, <1>2, <1>3, <1>11 DEF Destroy, TypeOK
<1>12. ASSUME NEW on \in BOOLEAN, Listen(on) PROVE TypeOK'
  BY <1>1, <1>12 DEF Listen, StartListening, TypeOK
<1>13. CASE OnEstablish
  <2>1. lastid' \in Conns /\ lastid' \in 0 .. MaxConnections
    BY <1>1, <1>13, SMT DEF OnEstablish, Conns
  <2>2. conn' \in [Conns -> Connection]
    BY <1>1, <1>13, <2>1 DEF OnEstablish, Connection
  <2>3. stack' \in Seq(Frame)
    BY <1>2, <1>3, <1>13, <2>1 DEF OnEstablish
  <2> QED
    BY <1>1, <1>13, <2>1, <2>2, <2>3 DEF OnEstablish, TypeOK
<1>14. ASSUME NEW c \in Conns, Receive(c) PROVE TypeOK'
  <2>1. conn' \in [Conns -> Connection]
    BY <1>1, <1>14 DEF Receive, Connection
  <2> QED
    BY <1>1, <1>2, <1>3, <1>14, <2>1 DEF Receive, TypeOK
<1>15. ASSUME NEW c \in Conns, OnEof(c) PROVE TypeOK'
  <2>1. conn' \in [Conns -> Connection]
    BY <1>1, <1>15 DEF OnEof, Connection
  <2> QED
    BY <1>1, <1>2, <1>3, <1>15, <2>1 DEF OnEof, TypeOK
<1>16. ASSUME NEW c \in Conns, OnShutdown(c) PROVE TypeOK'
  BY <1>1, <1>2, <1>3, <1>16 DEF OnShutdown, TypeOK
<1>17. ASSUME NEW c \in Conns, Close(c) PROVE TypeOK'
  <2>1. conn' \in [Conns -> Connection]
    BY <1>1, <1>17 DEF Close, Connection
  <2> QED
    BY <1>1, <1>17, <2>1, CloseFramesType DEF Close, TypeOK
<1>18. ASSUME NEW c \in Conns, NEW last \in BOOLEAN, Answer(c, last) PROVE TypeOK'
  <2>1. conn' \in [Conns -> Connection]
    BY <1>1, <1>18 DEF Answer, Connection
  <2> QED
    BY <1>1, <1>18, <2>1 DEF Answer, TypeOK
<1>19. CASE UNCHANGED vars
  BY <1>19 DEF vars, TypeOK
<1> QED
  BY <1>4, <1>5, <1>6, <1>7, <1>8, <1>9, <1>10, <1>11, <1>12, <1>13, <1>14, <1>15, <1>16, <1>17,
     <1>18, <1>19 DEF Next, Step

\* Every variable of the server keeps its type.
THEOREM TypeCorrect == Spec => []TypeOK
<1>1. Init => TypeOK
  <2>1. Init => muted \in BOOLEAN
    BY DEF Init
  <2>2. Init => /\ state \in {"initial"} /\ listeners \in {"none"} /\ stack \in Seq(Frame)
                /\ lastid \in 0 .. MaxConnections /\ runs \in 0 .. MaxRuns
                /\ conn \in [Conns -> Connection]
    BY BoundsAssumption DEF Init, Connection
  <2> QED
    BY <2>1, <2>2 DEF TypeOK
<1> QED
  BY <1>1, TypeStep, PTL DEF Spec

-----------------------------------------------------------------------------
(* A graceful stop only drains *)

\* A server that stops gracefully does not listen.
StopsListening == state = "stopping" => listeners = "none"

\* It waits for requests only: none of its connections is left idle or untold.
NoneLeftIdle ==
  state = "stopping" => \A c \in Conns : conn[c] \notin {"idle", "busy"}

\* While a server stops gracefully it does not listen, and none of its connections
\* is left idle or untold.
LEMMA StoppingInv == Spec => [](StopsListening /\ NoneLeftIdle)
<1> DEFINE Inv == StopsListening /\ NoneLeftIdle
<1>1. Init => Inv
  BY DEF Init, StopsListening, NoneLeftIdle
<1>2. TypeOK /\ Inv /\ [Next]_vars => Inv'
  <2> SUFFICES ASSUME TypeOK, Inv, [Next]_vars PROVE Inv'
    OBVIOUS
  <2>1. conn \in [Conns -> Connection]
    BY DEF TypeOK
  <2> USE DEF StopsListening, NoneLeftIdle
  <2>2. CASE StopLoop
    <3>1. Members # {} => Min(Members) \in Conns
      BY MinMember DEF Members
    <3> QED
      BY <2>1, <2>2, <3>1 DEF StopLoop
  <2>3. CASE RemoveConnection
    BY <2>1, <2>3 DEF RemoveConnection
  <2>4. CASE Return
    BY <2>4 DEF Return
  <2>5. CASE Run \/ Configure \/ Stop \/ Destroy
    BY <2>5 DEF Run, Configure, Stop, Destroy
  <2>6. CASE GracefulStop
    <3>1. \A c \in Conns : conn'[c] \notin {"idle", "busy"}
      BY <2>1, <2>6, ToldValues DEF GracefulStop
    <3> QED
      BY <2>6, <3>1 DEF GracefulStop
  <2>7. ASSUME NEW on \in BOOLEAN, Listen(on) PROVE Inv'
    BY <2>7 DEF Listen
  <2>8. CASE OnEstablish
    BY <2>8 DEF OnEstablish
  <2>9. ASSUME NEW c \in Conns, Receive(c) \/ OnEof(c) \/ OnShutdown(c) \/ Close(c) PROVE Inv'
    BY <2>1, <2>9 DEF Receive, OnEof, OnShutdown, Close
  <2>10. ASSUME NEW c \in Conns, NEW last \in BOOLEAN, Answer(c, last) PROVE Inv'
    BY <2>1, <2>10 DEF Answer, HasRequest
  <2>11. CASE UNCHANGED vars
    BY <2>11 DEF vars
  <2> QED
    BY <2>2, <2>3, <2>4, <2>5, <2>6, <2>7, <2>8, <2>9, <2>10, <2>11 DEF Next, Step
<1> QED
  BY <1>1, <1>2, TypeCorrect, PTL DEF Spec

\* A server that stops gracefully accepts no connection and lets none of those it
\* has take up a request, for any number of them, whatever the user does in which
\* callback and even if a location cannot be bound: it does not listen meanwhile,
\* and no connection is idle, which only an answer could make it (graceful_stop,
\* stop_listening, finish_request).
THEOREM GracefulOnlyDrains == Spec => GracefulDrains
<1> DEFINE Drains == state = "stopping" /\ state' = "stopping"
                       => /\ Members' \subseteq Members
                          /\ \A c \in Conns : HasRequest(c)' => HasRequest(c)
<1>1. TypeOK /\ (StopsListening /\ NoneLeftIdle) /\ [Next]_vars => [Drains]_vars
  <2> SUFFICES ASSUME TypeOK, StopsListening, NoneLeftIdle, [Next]_vars,
                      state = "stopping", state' = "stopping"
               PROVE  Drains
    OBVIOUS
  <2>1. conn \in [Conns -> Connection]
    BY DEF TypeOK
  <2> DEFINE Kept == \A c \in Conns :
                       /\ conn'[c] # "none" => conn[c] # "none"
                       /\ conn'[c] \in {"busy", "stopping"} => conn[c] \in {"busy", "stopping"}
  <2>2. SUFFICES Kept
    BY DEF Members, HasRequest
  <2>3. CASE UNCHANGED conn
    BY <2>3
  <2>4. CASE StopLoop
    <3>1. Members # {} => Min(Members) \in Conns /\ conn[Min(Members)] # "none"
      BY MinMember DEF Members
    <3> QED
      BY <2>1, <2>3, <2>4, <3>1 DEF StopLoop
  <2>5. CASE RemoveConnection
    BY <2>1, <2>5 DEF RemoveConnection
  <2>6. CASE Return \/ Stop \/ Destroy
    BY <2>3, <2>6 DEF Return, Stop, Destroy
  <2>7. ~(Run \/ Configure \/ GracefulStop \/ OnEstablish) /\ \A on \in BOOLEAN : ~Listen(on)
    BY DEF Run, Configure, GracefulStop, Listen, OnEstablish, StopsListening
  <2>8. ASSUME NEW c \in Conns, Receive(c) \/ OnEof(c) \/ OnShutdown(c) \/ Close(c) PROVE Kept
    <3>1. ~Receive(c)
      BY DEF Receive, NoneLeftIdle
    <3> QED
      BY <2>1, <2>8, <3>1 DEF OnEof, OnShutdown, Close
  <2>9. ASSUME NEW c \in Conns, NEW last \in BOOLEAN, Answer(c, last) PROVE Kept
    BY <2>1, <2>9 DEF Answer, HasRequest
  <2>10. CASE UNCHANGED vars
    BY <2>3, <2>10 DEF vars
  <2> QED
    BY <2>4, <2>5, <2>6, <2>7, <2>8, <2>9, <2>10 DEF Next, Step
<1> QED
  BY <1>1, TypeCorrect, StoppingInv, PTL DEF Spec, GracefulDrains

-----------------------------------------------------------------------------
(* What is on the call stack *)

\* A callback in which nothing is being torn down, and the one that tells the end.
Calm(f) == f.pc = "callback" /\ f.ev \in {"connect", "request", "run"}
Ends(f) == f.pc = "callback" /\ f.ev = "stop"

\* A call of stop() has not returned.
InStop(s) == \E i \in 1 .. Len(s) : s[i].pc = "stop"

\* Below a calm callback there are only calm ones.
Nested(s) == \A i, j \in 1 .. Len(s) : i < j /\ Calm(s[i]) => Calm(s[j])

\* Only the innermost frame tells the end.
EndsOnTop(s) == \A i \in 1 .. Len(s) : Ends(s[i]) => i = 1

\* The connections that are about to be removed are among cs.
RemovesFrom(s, cs) == \A i \in 1 .. Len(s) : s[i].pc = "remove" => s[i].c \in cs

\* A frame that is pushed.
LEMMA PushFacts ==
  ASSUME NEW s \in Seq(Frame), NEW f \in Frame
  PROVE  /\ <<f>> \o s # <<>> /\ Head(<<f>> \o s) = f
         /\ InStop(<<f>> \o s) <=> f.pc = "stop" \/ InStop(s)
         /\ Nested(s) /\ (~Calm(f) \/ s = <<>> \/ Calm(Head(s))) => Nested(<<f>> \o s)
         /\ EndsOnTop(s) /\ (s = <<>> \/ ~Ends(Head(s))) => EndsOnTop(<<f>> \o s)
         /\ \A cs : RemovesFrom(s, cs) /\ (f.pc = "remove" => f.c \in cs)
                        => RemovesFrom(<<f>> \o s, cs)
<1> DEFINE t == <<f>> \o s
<1>1. /\ t \in Seq(Frame) /\ Len(t) = Len(s) + 1 /\ t[1] = f /\ Len(s) \in Nat
      /\ \A i \in 2 .. Len(t) : t[i] = s[i - 1]
      /\ s # <<>> => Head(s) = s[1]
  OBVIOUS
<1>2. t # <<>> /\ Head(t) = f
  OBVIOUS
<1> HIDE DEF t
<1>3. InStop(t) <=> f.pc = "stop" \/ InStop(s)
  <2>1. ASSUME NEW i \in 1 .. Len(s), s[i].pc = "stop" PROVE InStop(t)
    <3>1. i + 1 \in 2 .. Len(t) /\ i + 1 \in 1 .. Len(t) /\ (i + 1) - 1 = i
      BY <1>1, SMT
    <3> QED
      BY <1>1, <2>1, <3>1 DEF InStop
  <2>2. ASSUME NEW i \in 2 .. Len(t), t[i].pc = "stop" PROVE InStop(s)
    <3>1. i - 1 \in 1 .. Len(s)
      BY <1>1, SMT
    <3> QED
      BY <1>1, <2>2, <3>1 DEF InStop
  <2>3. 1 .. Len(t) = {1} \cup 2 .. Len(t)
    BY <1>1, SMT
  <2> QED
    BY <1>1, <2>1, <2>2, <2>3 DEF InStop
<1>4. Nested(s) /\ (~Calm(f) \/ s = <<>> \/ Calm(Head(s))) => Nested(t)
  <2> SUFFICES ASSUME Nested(s), ~Calm(f) \/ s = <<>> \/ Calm(Head(s)),
                      NEW i \in 1 .. Len(t), NEW j \in 1 .. Len(t), i < j, Calm(t[i])
               PROVE  Calm(t[j])
    BY DEF Nested
  <2>1. t[j] = s[j - 1] /\ j - 1 \in 1 .. Len(s) /\ s # <<>>
    BY <1>1, SMT
  <2>2. CASE i = 1
    <3>1. Calm(s[1])
      BY <1>1, <2>1, <2>2
    <3>2. j - 1 = 1 \/ (1 < j - 1 /\ 1 \in 1 .. Len(s))
      BY <1>1, <2>1, SMT
    <3> QED
      BY <2>1, <3>1, <3>2 DEF Nested
  <2>3. CASE i # 1
    <3>1. t[i] = s[i - 1] /\ i - 1 \in 1 .. Len(s) /\ i - 1 < j - 1
      BY <1>1, <2>3, SMT
    <3> QED
      BY <2>1, <3>1 DEF Nested
  <2> QED
    BY <2>2, <2>3
<1>5. EndsOnTop(s) /\ (s = <<>> \/ ~Ends(Head(s))) => EndsOnTop(t)
  <2> SUFFICES ASSUME EndsOnTop(s), s = <<>> \/ ~Ends(Head(s)),
                      NEW i \in 1 .. Len(t), Ends(t[i]), i # 1
               PROVE  FALSE
    BY DEF EndsOnTop
  <2>1. t[i] = s[i - 1] /\ i - 1 \in 1 .. Len(s) /\ s # <<>>
    BY <1>1, SMT
  <2> QED
    BY <1>1, <2>1, SMT DEF EndsOnTop
<1>6. ASSUME NEW cs, RemovesFrom(s, cs), f.pc = "remove" => f.c \in cs
      PROVE  RemovesFrom(t, cs)
  <2> SUFFICES ASSUME NEW i \in 1 .. Len(t), t[i].pc = "remove" PROVE t[i].c \in cs
    BY DEF RemovesFrom
  <2>1. CASE i = 1
    BY <1>1, <1>6, <2>1
  <2>2. CASE i # 1
    <3>1. t[i] = s[i - 1] /\ i - 1 \in 1 .. Len(s)
      BY <1>1, <2>2, SMT
    <3> QED
      BY <1>6, <3>1 DEF RemovesFrom
  <2> QED
    BY <2>1, <2>2
<1> QED
  BY <1>2, <1>3, <1>4, <1>5, <1>6 DEF t

\* A frame that is popped.
LEMMA PopFacts ==
  ASSUME NEW s \in Seq(Frame), s # <<>>
  PROVE  /\ Tail(s) \in Seq(Frame)
         /\ InStop(s) <=> Head(s).pc = "stop" \/ InStop(Tail(s))
         /\ Nested(s) => Nested(Tail(s))
         /\ Nested(s) /\ Calm(Head(s)) => ~InStop(s)
         /\ EndsOnTop(s) => EndsOnTop(Tail(s)) /\ (Tail(s) # <<>> => ~Ends(Head(Tail(s))))
         /\ \A cs : RemovesFrom(s, cs) => RemovesFrom(Tail(s), cs)
                                          /\ (Head(s).pc = "remove" => Head(s).c \in cs)
         /\ <<>> \o Tail(s) = Tail(s)
         /\ \A fs \in Seq(Frame) : (fs \o <<Head(s)>>) \o Tail(s) = fs \o s
<1> DEFINE t == Tail(s)
<1>1. /\ t \in Seq(Frame) /\ Len(s) = Len(t) + 1 /\ Head(s) = s[1] /\ Len(t) \in Nat
      /\ \A i \in 1 .. Len(t) : t[i] = s[i + 1]
      /\ t # <<>> => Head(t) = t[1]
  OBVIOUS
<1>2. <<>> \o t = t
  OBVIOUS
<1>3. \A fs \in Seq(Frame) : (fs \o <<Head(s)>>) \o t = fs \o s
  OBVIOUS
<1> HIDE DEF t
<1>4. InStop(s) <=> Head(s).pc = "stop" \/ InStop(t)
  <2>1. ASSUME NEW i \in 2 .. Len(s), s[i].pc = "stop" PROVE InStop(t)
    <3>1. i - 1 \in 1 .. Len(t) /\ (i - 1) + 1 = i
      BY <1>1, SMT
    <3> QED
      BY <1>1, <2>1, <3>1 DEF InStop
  <2>2. ASSUME NEW i \in 1 .. Len(t), t[i].pc = "stop" PROVE InStop(s)
    <3>1. i + 1 \in 1 .. Len(s)
      BY <1>1, SMT
    <3> QED
      BY <1>1, <2>2, <3>1 DEF InStop
  <2>3. 1 .. Len(s) = {1} \cup 2 .. Len(s)
    BY <1>1, SMT
  <2> QED
    BY <1>1, <2>1, <2>2, <2>3 DEF InStop
<1>5. Nested(s) => Nested(t)
  <2> SUFFICES ASSUME Nested(s), NEW i \in 1 .. Len(t), NEW j \in 1 .. Len(t), i < j, Calm(t[i])
               PROVE  Calm(t[j])
    BY DEF Nested
  <2>1. i + 1 \in 1 .. Len(s) /\ j + 1 \in 1 .. Len(s) /\ i + 1 < j + 1
    BY <1>1, SMT
  <2> QED
    BY <1>1, <2>1 DEF Nested
<1>6. Nested(s) /\ Calm(Head(s)) => ~InStop(s)
  <2> SUFFICES ASSUME Nested(s), Calm(Head(s)), NEW i \in 1 .. Len(s), s[i].pc = "stop"
               PROVE  FALSE
    BY DEF InStop
  <2>1. CASE i = 1
    BY <1>1, <2>1 DEF Calm
  <2>2. CASE i # 1
    <3>1. 1 \in 1 .. Len(s) /\ 1 < i
      BY <1>1, <2>2, SMT
    <3> QED
      BY <1>1, <3>1 DEF Nested, Calm
  <2> QED
    BY <2>1, <2>2
<1>7. EndsOnTop(s) => EndsOnTop(t) /\ (t # <<>> => ~Ends(Head(t)))
  <2> SUFFICES ASSUME EndsOnTop(s), NEW i \in 1 .. Len(t), Ends(t[i]) PROVE FALSE
    <3>1. t # <<>> => 1 \in 1 .. Len(t)
      BY <1>1, SMT
    <3> QED
      BY <1>1, <3>1 DEF EndsOnTop
  <2>1. i + 1 \in 1 .. Len(s) /\ i + 1 # 1
    BY <1>1, SMT
  <2> QED
    BY <1>1, <2>1 DEF EndsOnTop
<1>8. ASSUME NEW cs, RemovesFrom(s, cs)
      PROVE  RemovesFrom(t, cs) /\ (Head(s).pc = "remove" => Head(s).c \in cs)
  <2>1. \A i \in 1 .. Len(t) : i + 1 \in 1 .. Len(s)
    BY <1>1, SMT
  <2>2. 1 \in 1 .. Len(s)
    BY <1>1, SMT
  <2> QED
    BY <1>1, <1>8, <2>1, <2>2 DEF RemovesFrom
<1> QED
  BY <1>1, <1>2, <1>3, <1>4, <1>5, <1>6, <1>7, <1>8 DEF t

-----------------------------------------------------------------------------
(* The state tells the truth *)

\* The uses of a server for which its state is honest: every location can be
\* bound, and while connections are dropped or the end is told the server is not
\* started again.
Disciplined ==
  /\ ~BindFailures
  /\ "run" \notin HandlerCalls["stop"]
  /\ HandlerCalls["drop"] \cap {"run", "configure", "listen"} = {}

StackOrder ==
  /\ Nested(stack)
  /\ EndsOnTop(stack)
  /\ stack # <<>> /\ Ends(Head(stack)) => state = "initial"

Honest ==
  /\ listeners \in {"none", "all"}
  /\ listeners = "all" => state = "running"
  /\ InStop(stack) => listeners = "none"
  /\ state = "running" => InStop(stack) \/ (listeners = "all" <=> ~muted)
  /\ state \in {"initial", "destroyed"} => Members = {}
  /\ state = "stopping" => Members # {}

\* Closing connections from some place in the code keeps the order of the stack.
LEMMA PushClose ==
  ASSUME NEW s \in Seq(Frame), s = <<>> \/ ~Ends(Head(s)), Nested(s), EndsOnTop(s), NEW c \in Conns
  PROVE  LET t == CloseFrames(c) \o s
         IN  /\ t \in Seq(Frame) /\ t # <<>> /\ ~Ends(Head(t))
             /\ Nested(t) /\ EndsOnTop(t) /\ (InStop(t) <=> InStop(s))
<1> DEFINE d == Callback("drop", c)
           r == Remove(c)
           u == <<r>> \o s
<1>1. /\ d \in Frame /\ ~Calm(d) /\ d.pc = "callback" /\ ~Ends(d)
      /\ r \in Frame /\ r.pc = "remove" /\ r.c = c /\ ~Calm(r) /\ ~Ends(r)
  <2>1. c \in 0 .. MaxConnections
    BY BoundsAssumption DEF Conns
  <2> QED
    BY <2>1, FrameTypes DEF Callback, Remove, Calm, Ends, Events
<1>2. CloseFrames(c) \o s = (IF HasRequest(c) THEN <<d>> \o u ELSE u)
  BY CloseSplit
<1>3. u \in Seq(Frame)
  BY <1>1
<1> HIDE DEF d, r
<1>4. /\ u # <<>> /\ Head(u) = r /\ Nested(u) /\ EndsOnTop(u) /\ (InStop(u) <=> InStop(s))
  BY <1>1, PushFacts
<1> HIDE DEF u
<1>5. /\ <<d>> \o u \in Seq(Frame) /\ <<d>> \o u # <<>> /\ Head(<<d>> \o u) = d
      /\ Nested(<<d>> \o u) /\ EndsOnTop(<<d>> \o u) /\ (InStop(<<d>> \o u) <=> InStop(u))
  <2>1. <<d>> \o u \in Seq(Frame)
    BY <1>1, <1>3
  <2> QED
    BY <1>1, <1>3, <1>4, <2>1, PushFacts
<1> QED
  BY <1>1, <1>2, <1>3, <1>4, <1>5

\* The server is started or made to listen only where nothing is torn down.
LEMMA StartPlace ==
  ASSUME Disciplined, TypeOK, StackOrder, Run \/ Configure \/ Listen(TRUE) \/ Listen(FALSE)
  PROVE  (stack = <<>> \/ Calm(Head(stack))) /\ ~InStop(stack)
<1>1. CASE stack = <<>>
  BY <1>1 DEF InStop
<1>2. CASE stack # <<>>
  <2>1. PICK call \in {"run", "configure", "listen"} :
          /\ UserMay(call)
          /\ call # "run" => state = "running"
    BY DEF Run, Configure, Listen
  <2>2. Head(stack) \in Frame /\ Head(stack).pc = "callback" /\ call \in HandlerCalls[Head(stack).ev]
    BY <1>2, <2>1 DEF UserMay, Loop, At, Top, TypeOK
  <2>3. Head(stack).ev \in Events
    BY <2>2 DEF Frame
  <2>4. Head(stack).ev # "drop"
    BY <2>1, <2>2 DEF Disciplined
  <2>5. Head(stack).ev # "stop"
    BY <1>2, <2>1, <2>2 DEF Disciplined, StackOrder, Ends
  <2>6. Calm(Head(stack))
    BY <2>2, <2>3, <2>4, <2>5 DEF Calm, Events
  <2> QED
    BY <1>2, <2>6, PopFacts DEF StackOrder, TypeOK
<1> QED
  BY <1>1, <1>2

\* The loop calls something that is neither stop() nor a stop callback.
LEMMA FirstFacts ==
  ASSUME NEW f \in Frame, f.pc # "stop", ~Ends(f), NEW s, s = <<>>
  PROVE  LET t == <<f>> \o s
         IN  Nested(t) /\ EndsOnTop(t) /\ (InStop(t) <=> InStop(s)) /\ ~Ends(Head(t))
<1>1. s \in Seq(Frame) /\ Nested(s) /\ EndsOnTop(s)
  BY DEF Nested, EndsOnTop
<1> QED
  BY <1>1, PushFacts

\* In these uses the order of the stack and the truth of the state are kept.
LEMMA HonestStep ==
  ASSUME Disciplined, TypeOK, TypeOK', StackOrder, Honest, [Next]_vars
  PROVE  StackOrder' /\ Honest'
<1> USE BoundsAssumption
<1>1. /\ stack \in Seq(Frame) /\ conn \in [Conns -> Connection] /\ conn' \in [Conns -> Connection]
      /\ state \in {"initial", "running", "stopping", "destroyed"}
      /\ listeners \in {"none", "some", "all"}
  BY DEF TypeOK
<1>2. /\ Nested(<<>>) /\ EndsOnTop(<<>>) /\ ~InStop(<<>>) /\ <<>> \in Seq(Frame)
      /\ \A f \in Frame : <<f>> \o <<>> = <<f>>
  BY DEF Nested, EndsOnTop, InStop
<1>3. /\ Callback("stop", 0) \in Frame /\ Callback("run", 0) \in Frame
      /\ \A c \in Conns : /\ Callback("drop", c) \in Frame /\ Callback("request", c) \in Frame
                          /\ Callback("connect", c) \in Frame
      /\ \A c \in Conns : Remove(c) \in Frame
      /\ \A pc \in {"stop", "~Server"} : CloseAll(pc) \in Frame
  BY FrameTypes DEF Conns, Events
<1>4. /\ Ends(Callback("stop", 0)) /\ Callback("stop", 0).pc # "stop"
      /\ ~Calm(Callback("stop", 0))
      /\ ~Ends(Callback("run", 0)) /\ Callback("run", 0).pc # "stop"
      /\ \A c \in Conns, ev \in {"drop", "request", "connect"} :
              ~Ends(Callback(ev, c)) /\ Callback(ev, c).pc # "stop"
      /\ \A c \in Conns : ~Ends(Remove(c)) /\ ~Calm(Remove(c)) /\ Remove(c).pc # "stop"
      /\ \A pc \in {"stop", "~Server"} : ~Ends(CloseAll(pc)) /\ ~Calm(CloseAll(pc)) /\ CloseAll(pc).pc = pc
  BY DEF Ends, Calm, Callback, Remove, CloseAll
<1>5. CASE StopLoop
  <2>1. stack # <<>> /\ Top = Head(stack) /\ ~Ends(Head(stack))
    BY <1>5 DEF StopLoop, At, Top, Ends
  <2>2. CASE Members # {}
    <3>1. Min(Members) \in Conns /\ Min(Members) \in Members
      BY <2>2, MinMember DEF Members
    <3>2. CloseFrames(Min(Members)) \in Seq(Frame)
      BY <3>1, CloseFramesType
    <3>3. stack' = CloseFrames(Min(Members)) \o stack
      BY <1>1, <1>5, <2>1, <2>2, <3>2, PopFacts DEF StopLoop, Goto
    <3>4. /\ stack' # <<>> /\ ~Ends(Head(stack')) /\ Nested(stack') /\ EndsOnTop(stack')
          /\ InStop(stack') <=> InStop(stack)
      BY <1>1, <2>1, <3>1, <3>3, PushClose DEF StackOrder
    <3>5. Members' = Members
      BY <1>1, <1>5, <2>2, <3>1 DEF StopLoop, Members
    <3>6. UNCHANGED <<state, listeners, muted>>
      BY <1>5, <2>2 DEF StopLoop
    <3> QED
      BY <3>4, <3>5, <3>6 DEF StackOrder, Honest
  <2>3. CASE Members = {} /\ Top.pc = "stop"
    <3>1. state' = "initial" /\ stack' = <<Callback("stop", 0)>> \o Tail(stack) /\ UNCHANGED <<conn, listeners, muted>>
      BY <1>5, <2>3 DEF StopLoop, Goto
    <3>2. InStop(stack)
      BY <1>1, <2>1, <2>3, PopFacts
    <3>3. /\ Tail(stack) \in Seq(Frame) /\ Nested(Tail(stack)) /\ EndsOnTop(Tail(stack))
          /\ Tail(stack) # <<>> => ~Ends(Head(Tail(stack)))
      BY <1>1, <2>1, PopFacts DEF StackOrder
    <3>4. Nested(stack') /\ EndsOnTop(stack')
      BY <1>3, <1>4, <3>1, <3>3, PushFacts
    <3>5. Members' = {}
      BY <2>3, <3>1 DEF Members
    <3> QED
      BY <3>1, <3>2, <3>4, <3>5 DEF StackOrder, Honest
  <2>4. CASE Members = {} /\ Top.pc = "~Server"
    <3>1. state' = "destroyed" /\ stack' = Tail(stack) /\ listeners' = "none" /\ UNCHANGED conn
      BY <1>1, <1>5, <2>1, <2>4, PopFacts DEF StopLoop, Goto
    <3>2. /\ Nested(stack') /\ EndsOnTop(stack') /\ (stack' # <<>> => ~Ends(Head(stack')))
      BY <1>1, <2>1, <3>1, PopFacts DEF StackOrder
    <3>3. Members' = {}
      BY <2>4, <3>1 DEF Members
    <3> QED
      BY <3>1, <3>2, <3>3 DEF StackOrder, Honest
  <2> QED
    BY <1>5, <2>2, <2>3, <2>4 DEF StopLoop
<1>6. CASE RemoveConnection
  <2>1. stack # <<>> /\ Top = Head(stack) /\ Top.pc = "remove" /\ Top \in Frame
    BY <1>1, <1>6 DEF RemoveConnection, At, Top
  <2>2. /\ Tail(stack) \in Seq(Frame) /\ Nested(Tail(stack)) /\ EndsOnTop(Tail(stack))
        /\ Tail(stack) # <<>> => ~Ends(Head(Tail(stack)))
        /\ InStop(stack) <=> InStop(Tail(stack))
        /\ <<>> \o Tail(stack) = Tail(stack)
    BY <1>1, <2>1, PopFacts DEF StackOrder
  <2>3. Top.c \in Conns
    BY <2>1 DEF Frame
  <2>4. Members' = Members \ {Top.c} /\ UNCHANGED <<listeners, muted>>
    BY <1>1, <1>6, <2>3 DEF RemoveConnection, Members
  <2>5. CASE state = "stopping" /\ Members \subseteq {Top.c}
    <3>1. state' = "initial" /\ stack' = <<Callback("stop", 0)>> \o Tail(stack)
      BY <1>6, <2>5 DEF RemoveConnection, Goto
    <3>2. Nested(stack') /\ EndsOnTop(stack') /\ (InStop(stack') <=> InStop(Tail(stack)))
      BY <1>3, <1>4, <2>2, <3>1, PushFacts
    <3> QED
      BY <2>2, <2>4, <2>5, <3>1, <3>2 DEF StackOrder, Honest
  <2>6. CASE ~(state = "stopping" /\ Members \subseteq {Top.c})
    <3>1. state' = state /\ stack' = Tail(stack)
      BY <1>6, <2>2, <2>6 DEF RemoveConnection, Goto
    <3> QED
      BY <2>2, <2>4, <2>6, <3>1 DEF StackOrder, Honest
  <2> QED
    BY <2>5, <2>6
<1>7. CASE Return
  <2>1. stack # <<>> /\ Head(stack).pc = "callback"
    BY <1>7 DEF Return, At, Top
  <2>2. stack' = Tail(stack) /\ UNCHANGED <<state, listeners, muted, conn>>
    BY <1>1, <1>7, <2>1, PopFacts DEF Return, Goto
  <2>3. /\ Nested(stack') /\ EndsOnTop(stack') /\ (stack' # <<>> => ~Ends(Head(stack')))
        /\ InStop(stack) <=> InStop(stack')
    BY <1>1, <2>1, <2>2, PopFacts DEF StackOrder
  <2> QED
    BY <2>2, <2>3 DEF StackOrder, Honest, Members
<1>8. CASE Run
  <2>1. (stack = <<>> \/ Calm(Head(stack))) /\ ~InStop(stack)
    BY <1>8, StartPlace
  <2>2. listeners = "none" /\ listeners' = "all" /\ state' = "running" /\ ~muted' /\ Members' = Members
    BY <1>8 DEF Run, Honest, StartListening, Disciplined, Members
  <2>3. stack' = <<Callback("run", 0)>> \o stack
    BY <1>8, <2>2 DEF Run
  <2>4. /\ Nested(stack') /\ EndsOnTop(stack') /\ ~InStop(stack') /\ ~Ends(Head(stack'))
    <3>1. stack = <<>> \/ ~Ends(Head(stack))
      BY <2>1 DEF Calm, Ends
    <3> QED
      BY <1>1, <1>3, <1>4, <2>1, <2>3, <3>1, PushFacts DEF StackOrder
  <2> QED
    BY <2>2, <2>4 DEF StackOrder, Honest
<1>9. CASE Configure
  <2>1. ~InStop(stack)
    BY <1>9, StartPlace
  <2> QED
    BY <1>9, <2>1 DEF Configure, StartListening, Disciplined, StackOrder, Honest, Members
<1>10. CASE Stop
  <2>1. state # "initial" /\ stack' = <<CloseAll("stop")>> \o stack /\ listeners' = "none" /\ UNCHANGED <<state, conn>>
    BY <1>10 DEF Stop
  <2>2. Nested(stack') /\ EndsOnTop(stack') /\ InStop(stack') /\ ~Ends(Head(stack'))
    BY <1>1, <1>3, <1>4, <2>1, PushFacts DEF StackOrder
  <2> QED
    BY <2>1, <2>2 DEF StackOrder, Honest, Members
<1>11. CASE GracefulStop
  <2>1. state = "running" /\ listeners' = "none"
    BY <1>11 DEF GracefulStop
  <2>2. Members' = Members
    BY <1>1, <1>11, ToldValues DEF GracefulStop, Members
  <2>3. CASE Members = {}
    <3>1. state' = "initial" /\ stack' = <<Callback("stop", 0)>> \o stack
      BY <1>11, <2>3 DEF GracefulStop
    <3>2. Nested(stack') /\ EndsOnTop(stack') /\ (InStop(stack') <=> InStop(stack))
      BY <1>1, <1>3, <1>4, <2>1, <3>1, PushFacts DEF StackOrder
    <3> QED
      BY <2>1, <2>2, <2>3, <3>1, <3>2 DEF StackOrder, Honest
  <2>4. CASE Members # {}
    <3>1. state' = "stopping" /\ stack' = stack
      BY <1>11, <2>4 DEF GracefulStop
    <3> QED
      BY <2>1, <2>2, <2>4, <3>1 DEF StackOrder, Honest
  <2> QED
    BY <2>3, <2>4
<1>12. CASE Destroy
  <2>1. stack = <<>> /\ stack' = <<CloseAll("~Server")>> \o stack /\ UNCHANGED <<state, listeners, muted, conn>>
    BY <1>2, <1>3, <1>12 DEF Destroy, Loop
  <2>2. Nested(stack') /\ EndsOnTop(stack') /\ (InStop(stack') <=> InStop(stack)) /\ ~Ends(Head(stack'))
    BY <1>1, <1>3, <1>4, <2>1, PushFacts DEF StackOrder
  <2> QED
    BY <2>1, <2>2 DEF StackOrder, Honest, Members
<1>13. ASSUME NEW on \in BOOLEAN, Listen(on) PROVE StackOrder' /\ Honest'
  <2>1. ~InStop(stack)
    BY <1>13, StartPlace
  <2>2. /\ UNCHANGED <<state, conn, stack>> /\ state = "running" /\ muted' = ~on
        /\ listeners' = IF on THEN "all" ELSE "none"
    BY <1>13 DEF Listen, StartListening, Disciplined
  <2> QED
    BY <2>1, <2>2 DEF StackOrder, Honest, Members
<1>14. CASE OnEstablish
  <2>1. lastid' \in Conns
    BY <1>14, SMT DEF OnEstablish, Conns, TypeOK
  <2>2. stack = <<>> /\ stack' = <<Callback("connect", lastid')>> \o stack /\ UNCHANGED <<state, listeners, muted>>
    BY <1>2, <1>3, <1>14, <2>1 DEF OnEstablish, Loop
  <2>3. Nested(stack') /\ EndsOnTop(stack') /\ (InStop(stack') <=> InStop(stack)) /\ ~Ends(Head(stack'))
    BY <1>3, <1>4, <2>1, <2>2, FirstFacts
  <2>4. listeners # "none"
    BY <1>14 DEF OnEstablish
  <2> QED
    BY <1>1, <2>2, <2>3, <2>4 DEF StackOrder, Honest
<1>15. ASSUME NEW c \in Conns, Receive(c) PROVE StackOrder' /\ Honest'
  <2>1. stack = <<>> /\ stack' = <<Callback("request", c)>> \o stack /\ UNCHANGED <<state, listeners, muted>>
    BY <1>2, <1>3, <1>15 DEF Receive, Loop
  <2>2. Nested(stack') /\ EndsOnTop(stack') /\ (InStop(stack') <=> InStop(stack)) /\ ~Ends(Head(stack'))
    BY <1>3, <1>4, <2>1, FirstFacts
  <2>3. Members' = Members
    BY <1>1, <1>15 DEF Receive, Members
  <2> QED
    BY <2>1, <2>2, <2>3 DEF StackOrder, Honest
<1>16. ASSUME NEW c \in Conns, OnEof(c) PROVE StackOrder' /\ Honest'
  <2>1. stack = <<>> /\ UNCHANGED <<state, listeners, muted>>
    BY <1>16 DEF OnEof, Loop
  <2>2. Nested(stack') /\ EndsOnTop(stack') /\ ~InStop(stack') /\ (stack' # <<>> => ~Ends(Head(stack')))
    <3>1. CASE stack' = <<>>
      BY <1>2, <3>1
    <3>2. CASE stack' = <<Callback("drop", c)>> \o stack
      <4>1. Nested(stack') /\ EndsOnTop(stack') /\ (InStop(stack') <=> InStop(stack)) /\ ~Ends(Head(stack'))
        BY <1>3, <1>4, <2>1, <3>2, FirstFacts
      <4> QED
        BY <1>2, <2>1, <4>1
    <3> QED
      BY <1>2, <1>3, <1>16, <2>1, <3>1, <3>2 DEF OnEof
  <2>3. Members' = Members
    BY <1>1, <1>16 DEF OnEof, Members
  <2> QED
    BY <1>2, <2>1, <2>2, <2>3 DEF StackOrder, Honest
<1>17. ASSUME NEW c \in Conns, OnShutdown(c) PROVE StackOrder' /\ Honest'
  <2>1. stack = <<>> /\ stack' = <<Remove(c)>> \o stack /\ UNCHANGED <<state, listeners, muted, conn>>
    BY <1>2, <1>3, <1>17 DEF OnShutdown, Loop
  <2>2. Nested(stack') /\ EndsOnTop(stack') /\ (InStop(stack') <=> InStop(stack)) /\ ~Ends(Head(stack'))
    BY <1>3, <1>4, <2>1, FirstFacts
  <2> QED
    BY <2>1, <2>2 DEF StackOrder, Honest, Members
<1>18. ASSUME NEW c \in Conns, Close(c) PROVE StackOrder' /\ Honest'
  <2>1. stack = <<>> /\ stack' = CloseFrames(c) \o stack /\ UNCHANGED <<state, listeners, muted>>
    <3>1. CloseFrames(c) \o <<>> = CloseFrames(c)
      BY CloseFramesType
    <3> QED
      BY <1>18, <3>1 DEF Close, Loop
  <2>2. Nested(stack') /\ EndsOnTop(stack') /\ (InStop(stack') <=> InStop(stack)) /\ ~Ends(Head(stack'))
    BY <1>1, <2>1, PushClose DEF StackOrder
  <2>3. Members' = Members
    BY <1>1, <1>18 DEF Close, Members
  <2> QED
    BY <2>1, <2>2, <2>3 DEF StackOrder, Honest
<1>19. ASSUME NEW c \in Conns, NEW last \in BOOLEAN, Answer(c, last) PROVE StackOrder' /\ Honest'
  <2>1. Members' = Members
    BY <1>1, <1>19 DEF Answer, HasRequest, Members
  <2> QED
    BY <1>19, <2>1 DEF Answer, StackOrder, Honest
<1>20. CASE UNCHANGED vars
  BY <1>20 DEF vars, StackOrder, Honest, Members
<1> QED
  BY <1>5, <1>6, <1>7, <1>8, <1>9, <1>10, <1>11, <1>12, <1>13, <1>14, <1>15, <1>16, <1>17, <1>18,
     <1>19, <1>20 DEF Next, Step

\* Between events the state of a server tells the truth (run, configure, stop,
\* graceful_stop, _stop_if_done): for any number of connections and runs, and for
\* every use that keeps to Disciplined.
THEOREM StateIsHonest == ASSUME Disciplined PROVE Spec => []StateHonest
<1>1. Init => StackOrder /\ Honest
  BY DEF Init, StackOrder, Honest, Nested, EndsOnTop, InStop, Members
<1>2. StackOrder /\ Honest => StateHonest
  <2>1. InStop(<<>>) = FALSE
    BY DEF InStop
  <2> QED
    BY <2>1 DEF Honest, StateHonest, Loop
<1>3. TypeOK /\ TypeOK' /\ (StackOrder /\ Honest) /\ [Next]_vars => (StackOrder /\ Honest)'
  BY HonestStep
<1> QED
  BY <1>1, <1>2, <1>3, TypeCorrect, PTL DEF Spec

-----------------------------------------------------------------------------
(* The connections live as ConnectionLife says *)

\* The connections that may be removed: a remove() on the stack is for one that
\* was accepted and is shut, closed or already gone.
Leaving == {c \in Conns : c <= lastid /\ conn[c] \in {"shut", "closed", "none"}}

\* Ids are given out in order, and only connections that end are removed.
LifeInv ==
  /\ \A c \in Conns : c > lastid => conn[c] = "none"
  /\ RemovesFrom(stack, Leaving)

\* What a step may do to connection c.
MayBecome(s) ==
  {t \in Connection : \/ s = "idle" /\ t \in {"busy", "shut", "closed"}
                      \/ s = "busy" /\ t \in {"idle", "stopping", "shut", "closed"}
                      \/ s = "stopping" /\ t \in {"shut", "closed"}
                      \/ s = "shut" /\ t \in {"closed", "none"}
                      \/ s = "closed" /\ t = "none"}

Moved(c) ==
  \/ conn'[c] = conn[c] /\ (c > lastid' <=> c > lastid)
  \/ c > lastid /\ ~(c > lastid') /\ conn'[c] = "idle"
  \/ ~(c > lastid) /\ ~(c > lastid') /\ conn'[c] \in MayBecome(conn[c])

\* Such steps are steps of ConnectionLife.
LEMMA MovedImplements ==
  ASSUME TypeOK, TypeOK', \A c \in Conns : Moved(c)
  PROVE  Life!Next
<1> DEFINE P == [c \in Conns |-> IF c > lastid THEN "new"
                                 ELSE IF conn[c] = "none" THEN "gone" ELSE conn[c]]
<1> SUFFICES ASSUME NEW c \in Conns, P'[c] # P[c] PROVE <<P[c], P'[c]>> \in Life!Moves
  BY DEF Life!Next
<1>1. /\ P[c] = IF c > lastid THEN "new" ELSE IF conn[c] = "none" THEN "gone" ELSE conn[c]
      /\ P'[c] = IF c > lastid' THEN "new" ELSE IF conn'[c] = "none" THEN "gone" ELSE conn'[c]
  OBVIOUS
<1>2. conn[c] \in Connection /\ conn'[c] \in Connection
  BY DEF TypeOK
<1> HIDE DEF P
<1>3. CASE c > lastid /\ ~(c > lastid') /\ conn'[c] = "idle"
  BY <1>1, <1>3 DEF Life!Moves
<1>4. CASE ~(c > lastid) /\ ~(c > lastid') /\ conn'[c] \in MayBecome(conn[c])
  <2>1. CASE conn[c] = "idle"
    BY <1>1, <1>4, <2>1 DEF MayBecome, Life!Moves
  <2>2. CASE conn[c] = "busy"
    BY <1>1, <1>4, <2>2 DEF MayBecome, Life!Moves
  <2>3. CASE conn[c] = "stopping"
    BY <1>1, <1>4, <2>3 DEF MayBecome, Life!Moves
  <2>4. CASE conn[c] \in {"shut", "closed"}
    BY <1>1, <1>4, <2>4 DEF MayBecome, Life!Moves
  <2> QED
    BY <1>4, <2>1, <2>2, <2>3, <2>4 DEF MayBecome
<1> QED
  BY <1>1, <1>3, <1>4 DEF Moved

\* What every step of the server does to its connections.
LEMMA MovedStep ==
  ASSUME TypeOK, TypeOK', LifeInv, [Next]_vars
  PROVE  \A c \in Conns : Moved(c)
<1> USE BoundsAssumption
<1> SUFFICES ASSUME NEW c \in Conns PROVE Moved(c)
  OBVIOUS
<1>1. /\ stack \in Seq(Frame) /\ conn \in [Conns -> Connection] /\ conn' \in [Conns -> Connection]
      /\ lastid \in Nat /\ lastid' \in Nat /\ MaxConnections \in Nat
  BY DEF TypeOK
<1>2. conn[c] \in Connection /\ conn'[c] \in Connection /\ (conn[c] # "none" => ~(c > lastid))
  BY <1>1 DEF LifeInv
<1>3. CASE UNCHANGED <<conn, lastid>>
  BY <1>3 DEF Moved
<1>4. CASE StopLoop
  <2>1. CASE Members # {}
    <3>1. Min(Members) \in Conns /\ conn[Min(Members)] # "none"
      BY <2>1, MinMember DEF Members
    <3>2. conn' = [conn EXCEPT ![Min(Members)] = "closed"] /\ lastid' = lastid
      BY <1>4, <2>1 DEF StopLoop
    <3>3. CASE c = Min(Members) /\ conn[c] # "closed"
      BY <1>1, <1>2, <3>1, <3>2, <3>3 DEF Moved, MayBecome, Connection
    <3> QED
      BY <1>1, <1>2, <3>1, <3>2, <3>3 DEF Moved
  <2> QED
    BY <1>3, <1>4, <2>1 DEF StopLoop
<1>5. CASE RemoveConnection
  <2>1. stack # <<>> /\ Top = Head(stack) /\ Top.pc = "remove" /\ Top \in Frame
    BY <1>1, <1>5 DEF RemoveConnection, At, Top
  <2>2. Top.c \in Leaving
    BY <1>1, <2>1, PopFacts DEF LifeInv
  <2>3. conn' = [conn EXCEPT ![Top.c] = "none"] /\ lastid' = lastid
    BY <1>5 DEF RemoveConnection
  <2> QED
    BY <1>1, <1>2, <2>2, <2>3 DEF Leaving, Moved, MayBecome, Connection
<1>6. CASE Return \/ Run \/ Configure \/ Stop \/ Destroy
  BY <1>3, <1>6 DEF Return, Run, Configure, Stop, Destroy
<1>7. CASE GracefulStop
  <2>1. conn'[c] = Told(conn[c]) /\ lastid' = lastid
    BY <1>1, <1>7 DEF GracefulStop
  <2>2. CASE conn[c] = "idle"
    BY <1>2, <2>1, <2>2, ToldValues DEF Moved, MayBecome, Connection
  <2>3. CASE conn[c] = "busy"
    BY <1>2, <2>1, <2>3, ToldValues DEF Moved, MayBecome, Connection
  <2> QED
    BY <1>2, <2>1, <2>2, <2>3, ToldValues DEF Moved
<1>8. ASSUME NEW on \in BOOLEAN, Listen(on) PROVE Moved(c)
  BY <1>3, <1>8 DEF Listen
<1>9. CASE OnEstablish
  <2>1. lastid' = lastid + 1 /\ lastid' \in Conns /\ conn' = [conn EXCEPT ![lastid'] = "idle"]
    BY <1>1, <1>9, SMT DEF OnEstablish, Conns
  <2>2. CASE c = lastid'
    BY <1>1, <2>1, <2>2, SMT DEF Moved
  <2>3. CASE c # lastid'
    <3>1. conn'[c] = conn[c]
      BY <1>1, <2>1, <2>3
    <3>2. c > lastid' <=> c > lastid
      BY <1>1, <2>1, <2>3, SMT DEF Conns
    <3> QED
      BY <3>1, <3>2 DEF Moved
  <2> QED
    BY <2>2, <2>3
<1>10. ASSUME NEW d \in Conns, Receive(d) PROVE Moved(c)
  BY <1>1, <1>2, <1>10 DEF Receive, Moved, MayBecome, Connection
<1>11. ASSUME NEW d \in Conns, OnEof(d) PROVE Moved(c)
  BY <1>1, <1>2, <1>11 DEF OnEof, Moved, MayBecome, Connection
<1>12. ASSUME NEW d \in Conns, OnShutdown(d) PROVE Moved(c)
  BY <1>3, <1>12 DEF OnShutdown
<1>13. ASSUME NEW d \in Conns, Close(d) PROVE Moved(c)
  <2>1. conn[d] # "none" /\ conn' = [conn EXCEPT ![d] = "closed"] /\ lastid' = lastid
    BY <1>13 DEF Close
  <2>2. CASE c = d /\ conn[c] # "closed"
    BY <1>1, <1>2, <2>1, <2>2 DEF Moved, MayBecome, Connection
  <2> QED
    BY <1>1, <1>2, <2>1, <2>2 DEF Moved
<1>14. ASSUME NEW d \in Conns, NEW last \in BOOLEAN, Answer(d, last) PROVE Moved(c)
  <2>1. conn[d] \in {"busy", "stopping"} /\ lastid' = lastid
    BY <1>14 DEF Answer, HasRequest
  <2>2. CASE c = d
    <3>1. conn'[c] = IF last \/ conn[c] = "stopping" THEN "shut" ELSE "idle"
      BY <1>1, <1>14, <2>2 DEF Answer
    <3> QED
      BY <1>1, <1>2, <2>1, <2>2, <3>1 DEF Moved, MayBecome, Connection
  <2>3. CASE c # d
    BY <1>1, <1>14, <2>1, <2>3 DEF Answer, Moved
  <2> QED
    BY <2>2, <2>3
<1> QED
  BY <1>3, <1>4, <1>5, <1>6, <1>7, <1>8, <1>9, <1>10, <1>11, <1>12, <1>13, <1>14
     DEF Next, Step, vars

\* The strengthening is kept.
LEMMA LifeInvStep ==
  ASSUME TypeOK, TypeOK', LifeInv, [Next]_vars
  PROVE  LifeInv'
<1> USE BoundsAssumption
<1>1. /\ stack \in Seq(Frame) /\ conn \in [Conns -> Connection] /\ conn' \in [Conns -> Connection]
      /\ lastid \in Nat /\ lastid' \in Nat /\ MaxConnections \in Nat
  BY DEF TypeOK
<1>2. \A c \in Conns : Moved(c)
  BY MovedStep
<1>3. \A c \in Conns : c > lastid' => conn'[c] = "none"
  BY <1>2 DEF Moved, LifeInv
<1>4. Leaving \subseteq Leaving'
  <2> SUFFICES ASSUME NEW c \in Leaving PROVE c \in Leaving'
    OBVIOUS
  <2>1. c \in Conns /\ c <= lastid /\ ~(c > lastid) /\ conn[c] \in {"shut", "closed", "none"}
    BY <1>1, SMT DEF Leaving, Conns
  <2>2. ~(c > lastid') /\ conn'[c] \in {"shut", "closed", "none"}
    BY <1>2, <2>1 DEF Moved, MayBecome
  <2>3. c <= lastid'
    BY <1>1, <2>1, <2>2, SMT DEF Conns
  <2> QED
    BY <2>1, <2>2, <2>3 DEF Leaving
<1>5. RemovesFrom(stack, Leaving')
  BY <1>4 DEF LifeInv, RemovesFrom
<1> DEFINE L == Leaving'
<1> HIDE DEF L
<1>6. RemovesFrom(stack, L)
  BY <1>5 DEF L
<1>7. RemovesFrom(stack', L)
  <2>1. /\ Callback("stop", 0) \in Frame /\ Callback("run", 0) \in Frame
        /\ \A c \in Conns : /\ Callback("drop", c) \in Frame /\ Callback("request", c) \in Frame
                            /\ Callback("connect", c) \in Frame
        /\ \A c \in Conns : Remove(c) \in Frame
        /\ \A pc \in {"stop", "~Server"} : CloseAll(pc) \in Frame
    BY <1>1, FrameTypes DEF Conns, Events
  <2>2. /\ \A ev \in Events, c \in 0 .. MaxConnections : Callback(ev, c).pc # "remove"
        /\ \A pc \in {"stop", "~Server"} : CloseAll(pc).pc # "remove"
        /\ \A c \in Conns : Remove(c).c = c
        /\ RemovesFrom(<<>>, L) /\ <<>> \in Seq(Frame)
        /\ \A f \in Frame : <<f>> \o <<>> = <<f>>
    BY DEF Callback, CloseAll, Remove, RemovesFrom
  <2>3. CASE stack' = stack
    BY <1>6, <2>3
  <2>4. CASE stack' = <<>>
    BY <2>2, <2>4
  <2>5. ASSUME NEW f \in Frame, f.pc # "remove", stack' = <<f>> \o stack PROVE RemovesFrom(stack', L)
    BY <1>1, <1>6, <2>5, PushFacts
  <2>6. ASSUME NEW f \in Frame, f.pc # "remove" \/ f.c \in L, stack' = <<f>>
        PROVE  RemovesFrom(stack', L)
    <3>1. stack' = <<f>> \o <<>>
      BY <2>2, <2>6
    <3>2. RemovesFrom(<<>>, L) /\ <<>> \in Seq(Frame)
      BY <2>2
    <3>3. f.pc = "remove" => f.c \in L
      BY <2>6
    <3>4. RemovesFrom(<<f>> \o <<>>, L)
      BY <3>2, <3>3, PushFacts
    <3> QED
      BY <3>1, <3>4
  <2>7. ASSUME stack # <<>>, stack' = Tail(stack) PROVE RemovesFrom(stack', L)
    BY <1>1, <1>6, <2>7, PopFacts
  <2>8. ASSUME stack # <<>>, NEW f \in Frame, f.pc # "remove", stack' = <<f>> \o Tail(stack)
        PROVE  RemovesFrom(stack', L)
    BY <1>1, <1>6, <2>8, PopFacts, PushFacts
  <2>9. ASSUME NEW c \in L, NEW s \in {stack, <<>>}, c \in Conns, stack' = CloseFrames(c) \o s
        PROVE  RemovesFrom(stack', L)
    <3> DEFINE d == Callback("drop", c)
               r == Remove(c)
               u == <<r>> \o s
    <3>1. d \in Frame /\ d.pc # "remove" /\ r \in Frame /\ r.pc = "remove" /\ r.c = c /\ s \in Seq(Frame)
      BY <1>1, <2>1, <2>2, <2>9 DEF Callback, Remove
    <3>2. CloseFrames(c) \o s = (IF HasRequest(c) THEN <<d>> \o u ELSE u)
      BY <2>9, <3>1, CloseSplit
    <3>3. u \in Seq(Frame)
      BY <3>1
    <3> HIDE DEF d, r
    <3>4. RemovesFrom(u, L)
      BY <1>6, <2>2, <3>1, PushFacts
    <3> HIDE DEF u
    <3>5. RemovesFrom(<<d>> \o u, L)
      BY <3>1, <3>3, <3>4, PushFacts
    <3> QED
      BY <2>9, <3>2, <3>4, <3>5
  <2>10. CASE StopLoop
    <3>1. stack # <<>> /\ Top = Head(stack)
      BY <2>10 DEF StopLoop, At, Top
    <3>2. CASE Members # {}
      <4>1. Min(Members) \in Conns /\ conn[Min(Members)] # "none"
        BY <3>2, MinMember DEF Members
      <4>2. Min(Members) \in L
        <5>1. ~(Min(Members) > lastid)
          BY <4>1 DEF LifeInv
        <5>2. Min(Members) <= lastid'
          BY <1>1, <2>10, <4>1, <5>1, SMT DEF StopLoop, Conns
        <5>3. conn'[Min(Members)] = "closed"
          BY <1>1, <2>10, <3>2, <4>1 DEF StopLoop
        <5> QED
          BY <4>1, <5>2, <5>3 DEF L, Leaving
      <4>3. CloseFrames(Min(Members)) \in Seq(Frame)
        BY <4>1, CloseFramesType
      <4>4. stack' = CloseFrames(Min(Members)) \o stack
        BY <1>1, <2>10, <3>1, <3>2, <4>3, PopFacts DEF StopLoop, Goto
      <4> QED
        BY <2>9, <4>1, <4>2, <4>4
    <3>3. CASE Members = {}
      <4>1. stack' = <<Callback("stop", 0)>> \o Tail(stack) \/ stack' = Tail(stack)
        BY <1>1, <2>10, <3>1, <3>3, PopFacts DEF StopLoop, Goto
      <4> QED
        BY <2>1, <2>7, <2>8, <3>1, <4>1 DEF Callback
    <3> QED
      BY <3>2, <3>3
  <2>11. CASE RemoveConnection
    <3>1. stack # <<>>
      BY <2>11 DEF RemoveConnection, At
    <3>2. stack' = <<Callback("stop", 0)>> \o Tail(stack) \/ stack' = Tail(stack)
      BY <1>1, <2>11, <3>1, PopFacts DEF RemoveConnection, Goto
    <3> QED
      BY <2>1, <2>7, <2>8, <3>1, <3>2 DEF Callback
  <2>12. CASE Return
    <3>1. stack # <<>> /\ stack' = Tail(stack)
      BY <1>1, <2>12, PopFacts DEF Return, At, Goto
    <3> QED
      BY <2>7, <3>1
  <2>13. CASE Run \/ GracefulStop
    <3>1. \/ stack' = stack \/ stack' = <<Callback("run", 0)>> \o stack
          \/ stack' = <<Callback("stop", 0)>> \o stack
      BY <2>13 DEF Run, GracefulStop
    <3> QED
      BY <2>1, <2>3, <2>5, <3>1 DEF Callback
  <2>14. CASE Configure \/ \E on \in BOOLEAN : Listen(on)
    BY <2>3, <2>14 DEF Configure, Listen
  <2>15. CASE Stop
    BY <2>1, <2>2, <2>5, <2>15 DEF Stop
  <2>16. CASE Destroy
    BY <2>1, <2>2, <2>6, <2>16 DEF Destroy
  <2>17. CASE OnEstablish
    <3>1. lastid' \in Conns
      BY <1>1, <2>17, SMT DEF OnEstablish, Conns
    <3> QED
      BY <2>1, <2>6, <2>17, <3>1 DEF OnEstablish, Callback
  <2>18. ASSUME NEW c \in Conns, Receive(c) PROVE RemovesFrom(stack', L)
    BY <2>1, <2>6, <2>18 DEF Receive, Callback
  <2>19. ASSUME NEW c \in Conns, OnEof(c) PROVE RemovesFrom(stack', L)
    <3>1. stack' = <<Callback("drop", c)>> \/ stack' = <<>>
      BY <2>19 DEF OnEof
    <3> QED
      BY <2>1, <2>4, <2>6, <3>1 DEF Callback
  <2>20. ASSUME NEW c \in Conns, OnShutdown(c) PROVE RemovesFrom(stack', L)
    <3>1. conn[c] = "shut" /\ stack' = <<Remove(c)>> /\ UNCHANGED <<conn, lastid>>
      BY <2>20 DEF OnShutdown
    <3>2. c \in L
      BY <1>1, <3>1, SMT DEF L, Leaving, LifeInv, Conns
    <3> QED
      BY <2>1, <2>2, <2>6, <3>1, <3>2
  <2>21. ASSUME NEW c \in Conns, Close(c) PROVE RemovesFrom(stack', L)
    <3>1. conn[c] # "none" /\ conn'[c] = "closed" /\ lastid' = lastid /\ stack' = CloseFrames(c)
      BY <1>1, <2>21 DEF Close
    <3>2. c \in L
      BY <1>1, <3>1, SMT DEF L, Leaving, LifeInv, Conns
    <3>3. stack' = CloseFrames(c) \o <<>>
      BY <3>1, CloseFramesType
    <3> QED
      BY <2>9, <3>2, <3>3
  <2>22. ASSUME NEW c \in Conns, NEW last \in BOOLEAN, Answer(c, last) PROVE RemovesFrom(stack', L)
    BY <2>3, <2>22 DEF Answer
  <2>23. CASE UNCHANGED vars
    BY <2>3, <2>23 DEF vars
  <2> QED
    BY <2>10, <2>11, <2>12, <2>13, <2>14, <2>15, <2>16, <2>17, <2>18, <2>19, <2>20, <2>21, <2>22,
       <2>23 DEF Next, Step
<1> QED
  BY <1>3, <1>7 DEF LifeInv, L

\* The safety part of ConnectionLife: whatever is done to the server and in which
\* callback, each of its connections goes only through the phases that
\* ConnectionLife allows (remove, graceful_stop, stop).
THEOREM ImplementsLife == Spec => Life!Spec
<1>1. Init => LifeInv /\ Life!Init
  BY BoundsAssumption DEF Init, LifeInv, RemovesFrom, Life!Init, Conns
<1>2. TypeOK /\ TypeOK' /\ LifeInv /\ [Next]_vars => LifeInv'
  BY LifeInvStep
<1>3. TypeOK /\ TypeOK' /\ LifeInv /\ [Next]_vars => Life!Next
  BY MovedStep, MovedImplements
<1> QED
  BY <1>1, <1>2, <1>3, TypeCorrect, PTL DEF Spec, Life!Spec
=============================================================================
