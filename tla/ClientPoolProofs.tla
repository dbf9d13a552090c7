-------------------------- MODULE ClientPoolProofs --------------------------
(***************************************************************************)
(* Proofs about ClientPool, for every value of its constants and whatever  *)
(* the callbacks do: the limit on connections and who waits for one, type  *)
(* correctness, the order of those who wait, and whose response it is.     *)
(* What makes type correctness more than a matter of types: a message is   *)
(* taken for the client's request, and a redirect goes on with it, without *)
(* a look at whether there still is one.                                   *)
(***************************************************************************)
EXTENDS ClientPool, FiniteSetTheorems, SequenceTheorems, WellFoundedInduction, TLAPS

-----------------------------------------------------------------------------
(* The limit on connections *)

\* What the limit rests on: the clients of a list are counted, a list that is
\* not there has none, and the limit is one the user has set.
ListsCounted ==
  /\ free \in [NetLocs -> SUBSET Clients] /\ busy \in [NetLocs -> SUBSET Clients]
  /\ \A n \in NetLocs : n \notin lists => free[n] = {} /\ busy[n] = {}
  /\ limit \in Limits

\* The clients of a place are a finite number.
LEMMA ClientsFinite ==
  ASSUME NEW S \in SUBSET Clients
  PROVE  IsFiniteSet(S) /\ Cardinality(S) \in Nat
<1>1. IsFiniteSet(Clients)
  BY FS_Interval, BoundsAssumption DEF Clients
<1> QED
  BY <1>1, FS_Subset, FS_CardinalityType

\* One client more.
LEMMA OneMore ==
  ASSUME NEW S \in SUBSET Clients, NEW c \in Clients
  PROVE  Cardinality(S \cup {c}) <= Cardinality(S) + 1
<1>1. IsFiniteSet(S) /\ Cardinality(S) \in Nat
  BY ClientsFinite
<1>2. Cardinality(S \cup {c}) = IF c \in S THEN Cardinality(S) ELSE Cardinality(S) + 1
  BY <1>1, FS_AddElement
<1> QED
  BY <1>1, <1>2

\* Most actions leave the lists and the limit alone.
LEMMA ListsAlone ==
  ASSUME [Next]_vars
  PROVE  \/ UNCHANGED <<limit, lists, free, busy>>
         \/ PoolRequest \/ Putback \/ DestroyEnd
         \/ \E old \in SUBSET UNION {free[n] : n \in NetLocs} : CheckInactivity(old)
         \/ \E m \in Limits : SetMaxConnections(m)
<1> DEFINE Alone == UNCHANGED <<limit, lists, free, busy>>
<1> USE DEF pool, slots
<1>1. CASE UNCHANGED vars
  BY <1>1 DEF vars
<1>2. ASSUME NEW c, NEW cl, NEW keep, NEW ok, NEW from, NEW rest,
             FinishRequest(c, cl, keep, ok, from, rest)
      PROVE  Alone
  BY <1>2, Zenon DEF FinishRequest, Abort
<1>3. ASSUME NEW c, NEW rest, Cancel(c, rest) PROVE Alone
  BY <1>2, <1>3, Zenon DEF Cancel
<1>4. ASSUME NEW r, NEW rest, EndRequest(r, rest) PROVE Alone
  <2>1. CASE CancelRequest(r, rest)
    BY <2>1, Zenon DEF CancelRequest, Abort
  <2> QED
    BY <1>3, <1>4, <2>1 DEF EndRequest
<1>5. CASE Internal
  <2>1. CASE ReadEnd \/ Interim \/ Weaken \/ FinishAndNotify
    BY <2>1, Zenon DEF ReadEnd, Interim, Weaken, FinishAndNotify
  <2>2. CASE ParseError \/ Complete
    BY <1>2, <1>3, <2>2, Zenon DEF ParseError, Complete
  <2>3. CASE Redirected \/ ClientRequest
    BY <2>3, Zenon DEF Redirected, ClientRequest
  <2>4. CASE Erase \/ DestroyList \/ AbortQueued
    BY <2>4, Zenon DEF Erase, DestroyList, AbortQueued, Abort
  <2> QED
    BY <1>5, <2>1, <2>2, <2>3, <2>4 DEF Internal
<1>6. CASE Return
  BY <1>6 DEF Return, Leave
<1>7. ASSUME NEW host, Redirect(host) PROVE Alone
  BY <1>3, <1>7, Zenon DEF Redirect
<1>8. ASSUME NEW c, OnConnect(c) \/ OnError(c) PROVE Alone
  BY <1>3, <1>8, Zenon DEF OnConnect, OnError
<1>9. ASSUME NEW c, NEW b, OnRead(c, b) \/ OnEof(c, b) PROVE Alone
  BY <1>9, Zenon DEF OnRead, OnEof
<1>10. ASSUME NEW r, NEW i, NEW ok, OnStreamed(r, i, ok) PROVE Alone
  BY <1>2, <1>10, Zenon DEF OnStreamed, Abort
<1>11. ASSUME NEW r, OnTimer(r) \/ CancelCall(r) \/ Submit(r) PROVE Alone
  BY <1>4, <1>11, Zenon DEF OnTimer, CancelCall, Submit
<1>12. ASSUME NEW r, NEW final, SendChunk(r, final) PROVE Alone
  BY <1>12, Zenon DEF SendChunk, Abort
<1>13. CASE RestoreContext \/ ThrowInRedirect \/ Destroy \/ \E on \in BOOLEAN : SetIdleTimeout(on)
  BY <1>2, <1>13, Zenon DEF RestoreContext, ThrowInRedirect, Destroy, SetIdleTimeout
<1>14. CASE Event
  BY <1>8, <1>9, <1>10, <1>11, <1>14, Zenon DEF Event
<1>15. CASE User
  BY <1>11, <1>12, <1>13, <1>15, Zenon DEF User
<1> QED
  BY <1>1, <1>5, <1>6, <1>7, <1>14, <1>15 DEF Next, Step, Internal

\* Nothing is counted at first.
LEMMA LimitInit ==
  ASSUME Init
  PROVE  ListsCounted /\ LimitHolds
<1>1. ListsCounted
  BY BoundsAssumption DEF Init, ListsCounted
<1>2. \A n \in NetLocs : Cardinality(free[n] \cup busy[n]) = 0
  BY FS_EmptySet DEF Init
<1> QED
  BY <1>1, <1>2, SMT DEF LimitHolds

\* Every step counts the clients of the lists and keeps to the limit.
LEMMA LimitStep ==
  ASSUME ListsCounted, LimitHolds, [Next]_vars
  PROVE  (ListsCounted /\ LimitHolds)'
<1> USE BoundsAssumption DEF ListsCounted
<1>1. ASSUME NEW n \in NetLocs, NEW S \in SUBSET (free[n] \cup busy[n])
      PROVE  \E m \in Limits \cup {1} : Cardinality(S) <= m
  <2>1. PICK m \in Limits \cup {1} : Cardinality(free[n] \cup busy[n]) <= m
    BY DEF LimitHolds
  <2>2. IsFiniteSet(free[n] \cup busy[n]) /\ Cardinality(free[n] \cup busy[n]) \in Nat
    BY ClientsFinite
  <2>3. Cardinality(S) <= Cardinality(free[n] \cup busy[n]) /\ Cardinality(S) \in Nat
    BY <2>2, FS_Subset, ClientsFinite
  <2> QED
    BY <2>1, <2>2, <2>3, SMT
<1>2. CASE UNCHANGED <<limit, lists, free, busy>>
  BY <1>2 DEF LimitHolds
<1>3. CASE PoolRequest
  <2> DEFINE n == req[Top.r].netloc
  <2>1. lists' = lists \cup {n} /\ limit' = limit
    BY <1>3, Zenon DEF PoolRequest, pool
  <2>2. CASE \E c \in free[n] : /\ free' = [free EXCEPT ![n] = @ \ {c}]
                                /\ busy' = [busy EXCEPT ![n] = @ \cup {c}]
    <3>0. PICK c \in free[n] : /\ free' = [free EXCEPT ![n] = @ \ {c}]
                              /\ busy' = [busy EXCEPT ![n] = @ \cup {c}]
      BY <2>2
    <3>1. \A k \in NetLocs : free'[k] \cup busy'[k] \in SUBSET (free[k] \cup busy[k])
      BY <3>0
    <3>2. ListsCounted'
      <4>1. n \in NetLocs => c \in Clients
        OBVIOUS
      <4>2. free' \in [NetLocs -> SUBSET Clients]
        BY <3>0, <4>1
      <4>3. busy' \in [NetLocs -> SUBSET Clients]
        BY <3>0, <4>1
      <4>4. \A k \in NetLocs : k \notin lists' => free'[k] = {} /\ busy'[k] = {}
        BY <2>1, <3>0
      <4> QED
        BY <2>1, <4>2, <4>3, <4>4
    <3> QED
      BY <1>1, <3>1, <3>2 DEF LimitHolds
  <2>3. ASSUME free[n] = {}, HasRoom(n),
               \E c \in Unused : busy' = [busy EXCEPT ![n] = @ \cup {c}], UNCHANGED free
        PROVE  (ListsCounted /\ LimitHolds)'
    <3>1. PICK c \in Clients : busy' = [busy EXCEPT ![n] = @ \cup {c}]
      BY <2>3 DEF Unused
    <3>2. ListsCounted'
      BY <2>1, <2>3, <3>1
    <3>3. ASSUME NEW k \in NetLocs PROVE \E m \in Limits \cup {1} : Cardinality((free[k] \cup busy[k])') <= m
      <4>1. CASE k # n
        <5>1. (free[k] \cup busy[k])' = free[k] \cup busy[k]
          BY <2>3, <3>1, <4>1
        <5> QED
          BY <5>1 DEF LimitHolds
      <4>2. CASE k = n
        <5>1. (free[k] \cup busy[k])' = busy[k] \cup {c}
          BY <2>3, <3>1, <4>2
        <5>2. Cardinality(busy[k] \cup {c}) <= Cardinality(busy[k]) + 1 /\ Cardinality(busy[k]) \in Nat
              /\ Cardinality(busy[k] \cup {c}) \in Nat
          BY OneMore, ClientsFinite
        <5>3. CASE k \notin lists
          <6>1. Cardinality(busy[k]) = 0
            <7>1. busy[k] = {}
              BY <5>3
            <7> QED
              BY <7>1, FS_EmptySet
          <6>2. Cardinality(busy[k] \cup {c}) <= 1
            BY <5>2, <6>1, SMT
          <6> QED
            BY <5>1, <6>2
        <5>4. CASE Cardinality(busy[k]) < limit
          <6>1. limit \in Limits /\ limit \in Nat
            OBVIOUS
          <6>2. Cardinality(busy[k] \cup {c}) <= limit
            BY <5>2, <5>4, <6>1, SMT
          <6> QED
            BY <5>1, <6>1, <6>2
        <5> QED
          BY <2>3, <4>2, <5>3, <5>4 DEF HasRoom
      <4> QED
        BY <4>1, <4>2
    <3> QED
      BY <3>2, <3>3 DEF LimitHolds
  <2>4. CASE UNCHANGED <<free, busy>>
    BY <2>1, <2>4 DEF LimitHolds
  <2> QED
    BY <1>3, <2>2, <2>3, <2>4, Zenon DEF PoolRequest
<1>4. CASE Putback
  <2>1. UNCHANGED <<limit, lists>>
    BY <1>4, Zenon DEF Putback, Abort, pool, slots
  <2>2. CASE UNCHANGED <<free, busy>>
    BY <2>1, <2>2 DEF LimitHolds
  <2>3. ASSUME NEW c, NEW n, n \in lists, c \in busy[n], busy' = [busy EXCEPT ![n] = @ \ {c}],
               free' = [free EXCEPT ![n] = @ \cup {c}]
        PROVE  (ListsCounted /\ LimitHolds)'
    <3>1. ListsCounted'
      BY <2>1, <2>3
    <3>2. \A k \in NetLocs : free'[k] \cup busy'[k] \in SUBSET (free[k] \cup busy[k])
      BY <2>3
    <3> QED
      BY <1>1, <3>1, <3>2 DEF LimitHolds
  <2> QED
    BY <1>4, <2>2, <2>3, Zenon DEF Putback, Abort, pool, slots
<1>5. CASE DestroyEnd
  <2>1. ListsCounted'
    BY <1>5 DEF DestroyEnd, pool
  <2>2. \A k \in NetLocs : free'[k] \cup busy'[k] \in SUBSET (free[k] \cup busy[k])
    BY <1>5 DEF DestroyEnd
  <2> QED
    BY <1>1, <2>1, <2>2 DEF LimitHolds
<1>6. ASSUME NEW old, CheckInactivity(old) PROVE (ListsCounted /\ LimitHolds)'
  <2>1. /\ free' = [n \in NetLocs |-> free[n] \ old] /\ busy' = busy /\ limit' = limit
        /\ lists' = {n \in lists : free[n] \ old # {} \/ busy[n] # {}}
    BY <1>6 DEF CheckInactivity, pool
  <2>2. ListsCounted'
    BY <2>1
  <2>3. \A k \in NetLocs : free'[k] \cup busy'[k] \in SUBSET (free[k] \cup busy[k])
    BY <2>1
  <2> QED
    BY <1>1, <2>2, <2>3 DEF LimitHolds
<1>7. ASSUME NEW m \in Limits, SetMaxConnections(m) PROVE (ListsCounted /\ LimitHolds)'
  BY <1>7 DEF SetMaxConnections, slots, LimitHolds
<1> QED
  BY <1>2, <1>3, <1>4, <1>5, <1>6, <1>7, ListsAlone

\* The connections to one place never exceed the largest max_connections that was
\* in force, whatever the callbacks do and however requests are used
\* (Pool::request, putback, check_inactivity, ~Pool).
THEOREM LimitAlwaysHolds == Spec => []LimitHolds
<1>1. Init => ListsCounted /\ LimitHolds
  BY LimitInit
<1>2. ListsCounted /\ LimitHolds /\ [Next]_vars => (ListsCounted /\ LimitHolds)'
  BY LimitStep
<1> QED
  BY <1>1, <1>2, PTL DEF Spec

-----------------------------------------------------------------------------
(* Requests that wait *)

\* What a waiting request rests on, also in the middle of a callback: its list
\* is there, has no free client and as many busy ones as some limit allowed.
Waits ==
  \A n \in NetLocs : queue[n] # <<>> =>
      n \in lists /\ free[n] = {} /\ \E m \in Limits : Cardinality(busy[n]) >= m

\* The actions that leave the queues, the lists and their clients alone.
LEMMA QueuesAlone ==
  ASSUME [Next]_vars
  PROVE  \/ UNCHANGED <<lists, free, busy, queue>>
         \/ PoolRequest \/ Putback \/ Erase \/ DestroyEnd
         \/ \E old \in SUBSET UNION {free[n] : n \in NetLocs} : CheckInactivity(old)
<1> DEFINE Alone == UNCHANGED <<lists, free, busy, queue>>
<1> USE DEF slots
<1>1. CASE UNCHANGED vars
  BY <1>1 DEF vars
<1>2. ASSUME NEW c, NEW cl, NEW keep, NEW ok, NEW from, NEW rest,
             FinishRequest(c, cl, keep, ok, from, rest)
      PROVE  Alone
  BY <1>2, Zenon DEF FinishRequest, Abort
<1>3. ASSUME NEW c, NEW rest, Cancel(c, rest) PROVE Alone
  BY <1>2, <1>3, Zenon DEF Cancel
<1>4. ASSUME NEW r, NEW rest, EndRequest(r, rest) PROVE Alone
  <2>1. CASE CancelRequest(r, rest)
    BY <2>1, Zenon DEF CancelRequest, Abort
  <2> QED
    BY <1>3, <1>4, <2>1 DEF EndRequest
<1>5. CASE Internal
  <2>1. CASE ReadEnd \/ Interim \/ Weaken \/ FinishAndNotify
    BY <2>1, Zenon DEF ReadEnd, Interim, Weaken, FinishAndNotify
  <2>2. CASE ParseError \/ Complete
    BY <1>2, <1>3, <2>2, Zenon DEF ParseError, Complete
  <2>3. CASE Redirected \/ ClientRequest
    BY <2>3, Zenon DEF Redirected, ClientRequest
  <2>4. CASE DestroyList \/ AbortQueued
    BY <2>4, Zenon DEF DestroyList, AbortQueued, Abort
  <2> QED
    BY <1>5, <2>1, <2>2, <2>3, <2>4 DEF Internal
<1>6. CASE Return
  BY <1>6 DEF Return, Leave
<1>7. ASSUME NEW host, Redirect(host) PROVE Alone
  BY <1>3, <1>7, Zenon DEF Redirect
<1>8. ASSUME NEW c, OnConnect(c) \/ OnError(c) PROVE Alone
  BY <1>3, <1>8, Zenon DEF OnConnect, OnError
<1>9. ASSUME NEW c, NEW b, OnRead(c, b) \/ OnEof(c, b) PROVE Alone
  BY <1>9, Zenon DEF OnRead, OnEof
<1>10. ASSUME NEW r, NEW i, NEW ok, OnStreamed(r, i, ok) PROVE Alone
  BY <1>2, <1>10, Zenon DEF OnStreamed, Abort
<1>11. ASSUME NEW r, OnTimer(r) \/ CancelCall(r) \/ Submit(r) PROVE Alone
  BY <1>4, <1>11, Zenon DEF OnTimer, CancelCall, Submit
<1>12. ASSUME NEW r, NEW final, SendChunk(r, final) PROVE Alone
  BY <1>12, Zenon DEF SendChunk, Abort
<1>13. CASE RestoreContext \/ ThrowInRedirect \/ Destroy
  BY <1>2, <1>13, Zenon DEF RestoreContext, ThrowInRedirect, Destroy
<1>14. ASSUME NEW x, SetMaxConnections(x) \/ SetIdleTimeout(x) PROVE Alone
  BY <1>14, Zenon DEF SetMaxConnections, SetIdleTimeout
<1>15. CASE Event
  BY <1>8, <1>9, <1>10, <1>11, <1>15, Zenon DEF Event
<1>16. CASE User
  BY <1>11, <1>12, <1>13, <1>14, <1>16, Zenon DEF User
<1> QED
  BY <1>1, <1>5, <1>6, <1>7, <1>15, <1>16 DEF Next, Step, Internal

\* A step keeps a queue behind clients that are all taken.
LEMMA WaitsStep ==
  ASSUME ListsCounted, DOMAIN queue = NetLocs, Waits, [Next]_vars
  PROVE  DOMAIN queue' = NetLocs /\ Waits'
<1>1. CASE UNCHANGED <<lists, free, busy, queue>>
  BY <1>1 DEF Waits
<1>2. CASE PoolRequest
  <2> DEFINE n == req[Top.r].netloc
  <2>1. lists' = lists \cup {n}
    BY <1>2, Zenon DEF PoolRequest
  <2>2. ASSUME NEW c \in free[n], free' = [free EXCEPT ![n] = @ \ {c}],
               busy' = [busy EXCEPT ![n] = @ \cup {c}], queue' = queue
        PROVE  DOMAIN queue' = NetLocs /\ Waits'
    <3>1. \A k \in NetLocs : queue[k] # <<>> => k # n
      BY <2>2 DEF Waits
    <3>2. \A k \in NetLocs : k # n => free'[k] = free[k] /\ busy'[k] = busy[k]
      BY <2>2 DEF ListsCounted
    <3> QED
      BY <2>1, <2>2, <3>1, <3>2 DEF Waits
  <2>3. ASSUME NEW c \in Clients, busy' = [busy EXCEPT ![n] = @ \cup {c}], UNCHANGED <<free, queue>>
        PROVE  DOMAIN queue' = NetLocs /\ Waits'
    <3>1. ASSUME NEW k \in NetLocs
          PROVE  Cardinality(busy[k]) \in Nat /\ Cardinality(busy'[k]) \in Nat
                 /\ Cardinality(busy'[k]) >= Cardinality(busy[k])
      <4>1. busy[k] \subseteq busy'[k] /\ busy[k] \subseteq Clients /\ busy'[k] \subseteq Clients
        BY <2>3 DEF ListsCounted
      <4>2. IsFiniteSet(busy'[k]) /\ Cardinality(busy[k]) \in Nat /\ Cardinality(busy'[k]) \in Nat
        BY <4>1, ClientsFinite
      <4>3. Cardinality(busy[k]) <= Cardinality(busy'[k])
        BY <4>1, <4>2, FS_Subset
      <4> QED
        BY <4>2, <4>3
    <3>2. ASSUME NEW k \in NetLocs, queue'[k] # <<>>
          PROVE  k \in lists' /\ free'[k] = {} /\ \E m \in Limits : Cardinality(busy'[k]) >= m
      <4>1. PICK m \in Limits : Cardinality(busy[k]) >= m
        BY <2>3, <3>2 DEF Waits
      <4>2. m \in Nat
        BY BoundsAssumption
      <4>3. Cardinality(busy'[k]) >= m
        BY <3>1, <4>1, <4>2, SMT
      <4>4. k \in lists' /\ free'[k] = {}
        BY <2>1, <2>3, <3>2 DEF Waits
      <4> QED
        BY <4>3, <4>4
    <3> QED
      BY <2>3, <3>2 DEF Waits
  <2>4. ASSUME free[n] = {}, ~HasRoom(n), queue' = [queue EXCEPT ![n] = Append(@, Top.r)],
               UNCHANGED <<free, busy>>
        PROVE  DOMAIN queue' = NetLocs /\ Waits'
    <3>1. n \in NetLocs => Cardinality(busy[n]) >= limit /\ limit \in Limits
      BY <2>4, ClientsFinite, BoundsAssumption DEF HasRoom, ListsCounted
    <3>2. \A k \in NetLocs : k # n => queue'[k] = queue[k]
      BY <2>4
    <3> QED
      BY <2>1, <2>4, <3>1, <3>2 DEF Waits
  <2> QED
    BY <1>2, <2>2, <2>3, <2>4, Zenon DEF PoolRequest, Unused
<1>3. CASE Putback
  <2> DEFINE c == Top.c
             n == client[c].netloc
  <2>1. CASE UNCHANGED <<lists, free, busy, queue>>
    BY <1>1, <2>1
  <2>2. ASSUME queue[n] = <<>>, busy' = [busy EXCEPT ![n] = @ \ {c}],
               free' = [free EXCEPT ![n] = @ \cup {c}], UNCHANGED <<lists, queue>>
        PROVE  DOMAIN queue' = NetLocs /\ Waits'
    <3>1. \A k \in NetLocs : k # n => free'[k] = free[k] /\ busy'[k] = busy[k]
      BY <2>2 DEF ListsCounted
    <3> QED
      BY <2>2, <3>1 DEF Waits
  <2>3. ASSUME queue[n] # <<>>, queue' = [queue EXCEPT ![n] = Tail(@)], UNCHANGED <<lists, free, busy>>
        PROVE  DOMAIN queue' = NetLocs /\ Waits'
    BY <2>3 DEF Waits
  <2> QED
    BY <1>3, <2>1, <2>2, <2>3, Zenon DEF Putback, Abort, slots
<1>4. CASE Erase
  <2>1. CASE UNCHANGED <<lists, free, busy, queue>>
    BY <1>1, <2>1
  <2>2. ASSUME queue' = [queue EXCEPT ![Top.n] = RemoveFirst(@, Top.r)], UNCHANGED <<lists, free, busy>>
        PROVE  DOMAIN queue' = NetLocs /\ Waits'
    <3>1. RemoveFirst(<<>>, Top.r) = <<>>
      BY DEF RemoveFirst
    <3>2. \A k \in NetLocs : queue[k] = <<>> => queue'[k] = <<>>
      BY <2>2, <3>1
    <3> QED
      BY <2>2, <3>2 DEF Waits
  <2> QED
    BY <1>4, <2>1, <2>2, Zenon DEF Erase, Abort, slots
<1>5. CASE DestroyEnd
  BY <1>5 DEF DestroyEnd, Waits
<1>6. ASSUME NEW old, CheckInactivity(old) PROVE DOMAIN queue' = NetLocs /\ Waits'
  <2> DEFINE kept == {n \in lists : free[n] \ old # {} \/ busy[n] # {}}
  <2>1. /\ free' = [n \in NetLocs |-> free[n] \ old] /\ lists' = kept /\ busy' = busy
        /\ queue' = [n \in NetLocs |-> IF n \in kept THEN queue[n] ELSE <<>>]
    BY <1>6 DEF CheckInactivity
  <2> QED
    BY <2>1 DEF Waits
<1> QED
  BY <1>1, <1>2, <1>3, <1>4, <1>5, <1>6, QueuesAlone

\* A request waits only while every connection it may use is taken, whatever
\* the callbacks do and however often the limit changes: no free client is
\* overlooked and no list with a queue is left without clients
\* (Pool::request, putback, cancel_request, check_inactivity).
THEOREM NeverLostWakeup == Spec => []NoLostWakeup
<1> DEFINE Inv == ListsCounted /\ LimitHolds /\ DOMAIN queue = NetLocs /\ Waits
<1>1. Init => Inv
  <2> SUFFICES ASSUME Init PROVE Inv
    OBVIOUS
  <2>1. DOMAIN queue = NetLocs /\ Waits
    BY DEF Init, Waits
  <2> QED
    BY <2>1, LimitInit
<1>2. Inv /\ [Next]_vars => Inv'
  <2> SUFFICES ASSUME Inv, [Next]_vars PROVE Inv'
    OBVIOUS
  <2> QED
    BY LimitStep, WaitsStep
<1>3. Inv => NoLostWakeup
  BY DEF Waits, NoLostWakeup
<1> QED
  BY <1>1, <1>2, <1>3, PTL DEF Spec

-----------------------------------------------------------------------------
(* Numbers, frames and stacks *)

\* A set of numbers has a least one.
LEMMA Least ==
  ASSUME NEW T \in SUBSET Nat, T # {}
  PROVE  \E x \in T : \A y \in T : x <= y
<1>1. PICK m \in T : TRUE
  OBVIOUS
<1> DEFINE S == 0 .. m
           R == StrictSubsetOrdering(S)
           Q == {0 .. x : x \in T \cap S}
<1>2. IsFiniteSet(S)
  BY FS_Interval
<1>3. IsWellFoundedOn(R, SUBSET S)
  BY <1>2, FS_StrictSubsetOrderingWellFounded, FS_FiniteSubsetsOfFinite
<1>4. Q \subseteq SUBSET S /\ Q # {}
  BY <1>1
<1>5. PICK A \in Q : \A B \in Q : <<B, A>> \notin R
  <2> HIDE DEF R, Q
  <2> QED
    BY <1>3, <1>4, WFMin
<1>6. PICK x \in T \cap S : A = 0 .. x
  BY <1>5
<1>7. ASSUME NEW y \in T PROVE x <= y
  <2> SUFFICES ASSUME y < x PROVE FALSE
    BY <1>6
  <2>1. y \in S /\ 0 .. y \in Q
    BY <1>6
  <2>2. 0 .. y \subseteq 0 .. x /\ 0 .. y # 0 .. x /\ {0 .. y, 0 .. x} \subseteq SUBSET S
    BY <1>6
  <2>3. <<0 .. y, 0 .. x>> \in R
    BY <2>2, Zenon DEF StrictSubsetOrdering
  <2> QED
    BY <1>5, <1>6, <2>1, <2>3
<1> QED
  BY <1>6, <1>7

\* Min of a set of numbers is its least element.
LEMMA MinIsLeast ==
  ASSUME NEW T \in SUBSET Nat, T # {}
  PROVE  Min(T) \in T /\ \A y \in T : Min(T) <= y
  BY Least DEF Min

\* What the frames of each routine hold.
LEMMA FrameFields ==
  ASSUME NEW f \in Frame
  PROVE  /\ f.pc \in {"on_read", "redirected", "putback", "weaken", "request"} => f.c \in Clients
         /\ f.pc = "on_read" => f.buf \in Seq(Messages) /\ f.from \in 0 .. MaxRequests
         /\ f.pc = "redirected" => f.close \in BOOLEAN /\ f.ctx \in {"default", "own"}
         /\ f.pc \in {"request", "pool_request", "notify", "callback", "erase", "abort"} => f.r \in Requests
         /\ f.pc \in {"notify", "callback"} => f.ok \in BOOLEAN /\ f.from \in 0 .. MaxRequests
         /\ f.pc = "callback" => f.ev \in Events
         /\ f.pc \in {"erase", "abort"} => f.n \in NetLocs /\ f.q \in Seq(Requests)
         /\ f.pc = "~Pool" => f.todo \in SUBSET NetLocs
         /\ f.pc \in {"on_read", "redirected", "putback", "weaken", "request", "pool_request",
                      "notify", "callback", "erase", "abort", "~Pool"}
  BY DEF Frame

\* The frames of a stack.
Frames(s) == {s[i] : i \in 1 .. Len(s)}

\* Which frame f may stand on which frame g: putback() and Client::request() are
\* on top; Pool::request() waits only for them, after a redirect; ~Pool() only
\* for the callbacks of what was queued; on_read() is called by the loop, and
\* redirect_event by analyze_request() in it.
Above(f, g) ==
  /\ g.pc \notin {"putback", "request"}
  /\ g.pc = "weaken" => f.pc \in {"putback", "request"}
  /\ g.pc = "pool_request" => f.pc = "weaken"
  /\ g.pc \in {"abort", "~Pool"} => f.pc \in {"abort", "callback"}
  /\ f.pc # "on_read"
  /\ f.pc = "redirected" => g.pc = "on_read"
  /\ f.pc = "callback" /\ f.ev = "redirect" => g.pc = "redirected"

\* Which frame may be the first one.
Base(f) == f.pc # "redirected" /\ (f.pc = "callback" => f.ev # "redirect")

\* The calls on a stack are those the code makes, and ~Pool() runs once.
Stacked(s) ==
  /\ \A i \in 1 .. Len(s) : IF i = Len(s) THEN Base(s[i]) ELSE Above(s[i], s[i + 1])
  /\ \A i, j \in 1 .. Len(s) : i < j => s[i].pc # "~Pool" \/ s[j].pc # "~Pool"

\* A routine calls another one.
LEMMA Push ==
  ASSUME NEW s \in Seq(Frame), Stacked(s), NEW f \in Frame,
         IF s = <<>> THEN Base(f) ELSE Above(f, Head(s)),
         f.pc = "~Pool" => \A g \in Frames(s) : g.pc # "~Pool"
  PROVE  /\ <<f>> \o s \in Seq(Frame) /\ Stacked(<<f>> \o s)
         /\ Frames(<<f>> \o s) = {f} \cup Frames(s)
         /\ <<f>> \o s # <<>> /\ Head(<<f>> \o s) = f
<1> DEFINE t == <<f>> \o s
<1>1. t \in Seq(Frame) /\ Len(t) = Len(s) + 1 /\ Len(s) \in Nat /\ t[1] = f
  OBVIOUS
<1>2. \A i \in 1 .. Len(s) : t[i + 1] = s[i]
  OBVIOUS
<1>3. \A i \in 1 .. Len(t) : i = 1 \/ (i - 1 \in 1 .. Len(s) /\ t[i] = s[i - 1])
  BY <1>1, <1>2
<1>4. t # <<>> /\ Head(t) = f
  BY <1>1
<1>5. Frames(t) = {f} \cup Frames(s)
  <2>1. \A g \in Frames(t) : g \in {f} \cup Frames(s)
    BY <1>1, <1>3 DEF Frames
  <2>2. \A i \in 1 .. Len(s) : i + 1 \in 1 .. Len(t)
    BY <1>1
  <2>3. \A g \in Frames(s) : g \in Frames(t)
    BY <1>2, <2>2 DEF Frames
  <2>4. f \in Frames(t)
    BY <1>1 DEF Frames
  <2> QED
    BY <2>1, <2>3, <2>4
<1>6. ASSUME NEW i \in 1 .. Len(t) PROVE IF i = Len(t) THEN Base(t[i]) ELSE Above(t[i], t[i + 1])
  <2>1. CASE i = 1 /\ s = <<>>
    BY <1>1, <2>1
  <2>2. CASE i = 1 /\ s # <<>>
    <3>1. t[2] = s[1] /\ Head(s) = s[1] /\ Len(t) # 1
      BY <1>1, <1>2, <2>2
    <3> QED
      BY <1>1, <2>2, <3>1
  <2>3. CASE i # 1
    <3>1. i - 1 \in 1 .. Len(s) /\ t[i] = s[i - 1]
      BY <1>3, <2>3
    <3>2. CASE i = Len(t)
      BY <1>1, <3>1, <3>2 DEF Stacked
    <3>3. CASE i # Len(t)
      <4>1. i \in 1 .. Len(s) /\ t[i + 1] = s[i] /\ i - 1 # Len(s) /\ (i - 1) + 1 = i
        BY <1>1, <1>2, <2>3, <3>3
      <4>2. Above(s[i - 1], s[(i - 1) + 1])
        BY <3>1, <4>1 DEF Stacked
      <4> QED
        BY <3>1, <3>3, <4>1, <4>2
    <3> QED
      BY <3>2, <3>3
  <2> QED
    BY <2>1, <2>2, <2>3
<1>7. ASSUME NEW i \in 1 .. Len(t), NEW j \in 1 .. Len(t), i < j
      PROVE  t[i].pc # "~Pool" \/ t[j].pc # "~Pool"
  <2>1. j - 1 \in 1 .. Len(s) /\ t[j] = s[j - 1]
    BY <1>3, <1>7
  <2>2. CASE i = 1
    BY <1>1, <2>1, <2>2 DEF Frames
  <2>3. CASE i # 1
    <3>1. i - 1 \in 1 .. Len(s) /\ t[i] = s[i - 1] /\ i - 1 < j - 1
      BY <1>3, <1>7, <2>3
    <3> QED
      BY <2>1, <3>1 DEF Stacked
  <2> QED
    BY <2>2, <2>3
<1> QED
  BY <1>1, <1>4, <1>5, <1>6, <1>7 DEF Stacked

\* The routines below the innermost k - 1 ones.
LEMMA Below ==
  ASSUME NEW s \in Seq(Frame), Stacked(s), NEW k \in 1 .. Len(s)
  PROVE  /\ SubSeq(s, k, Len(s)) \in Seq(Frame) /\ Stacked(SubSeq(s, k, Len(s)))
         /\ Frames(SubSeq(s, k, Len(s))) = {s[i] : i \in k .. Len(s)}
<1> DEFINE t == SubSeq(s, k, Len(s))
<1>1. Len(s) \in Nat /\ t \in Seq(Frame) /\ Len(t) = Len(s) - k + 1
  OBVIOUS
<1>2. \A i \in 1 .. Len(t) : t[i] = s[k + i - 1] /\ k + i - 1 \in k .. Len(s) /\ k + i - 1 \in 1 .. Len(s)
  BY <1>1
<1>3. Frames(t) = {s[i] : i \in k .. Len(s)}
  <2>1. \A g \in Frames(t) : g \in {s[i] : i \in k .. Len(s)}
    BY <1>2 DEF Frames
  <2>2. ASSUME NEW i \in k .. Len(s) PROVE s[i] \in Frames(t)
    <3>1. i - k + 1 \in 1 .. Len(t) /\ k + (i - k + 1) - 1 = i
      BY <1>1
    <3>2. t[i - k + 1] = s[i]
      BY <1>2, <3>1
    <3> QED
      BY <3>1, <3>2 DEF Frames
  <2> QED
    BY <2>1, <2>2
<1>4. ASSUME NEW i \in 1 .. Len(t) PROVE IF i = Len(t) THEN Base(t[i]) ELSE Above(t[i], t[i + 1])
  <2> DEFINE j == k + i - 1
  <2>1. j \in 1 .. Len(s) /\ t[i] = s[j] /\ (i = Len(t) <=> j = Len(s))
    BY <1>1, <1>2
  <2>2. i # Len(t) => t[i + 1] = s[j + 1]
    <3> SUFFICES ASSUME i # Len(t) PROVE t[i + 1] = s[j + 1]
      OBVIOUS
    <3>1. i + 1 \in 1 .. Len(t) /\ k + (i + 1) - 1 = j + 1
      BY <1>1
    <3> QED
      BY <1>2, <3>1
  <2>3. IF j = Len(s) THEN Base(s[j]) ELSE Above(s[j], s[j + 1])
    BY <2>1 DEF Stacked
  <2> HIDE DEF j
  <2> QED
    BY <2>1, <2>2, <2>3
<1>5. ASSUME NEW i \in 1 .. Len(t), NEW j \in 1 .. Len(t), i < j
      PROVE  t[i].pc # "~Pool" \/ t[j].pc # "~Pool"
  <2>1. k + i - 1 < k + j - 1
    BY <1>5
  <2> QED
    BY <1>2, <2>1 DEF Stacked
<1> QED
  BY <1>1, <1>3, <1>4, <1>5 DEF Stacked

\* The innermost routine returns to the one that called it.
LEMMA Pop ==
  ASSUME NEW s \in Seq(Frame), Stacked(s), s # <<>>
  PROVE  /\ Head(s) \in Frame /\ Tail(s) \in Seq(Frame) /\ Stacked(Tail(s))
         /\ Frames(s) = {Head(s)} \cup Frames(Tail(s))
         /\ IF Tail(s) = <<>> THEN Base(Head(s)) ELSE Above(Head(s), Head(Tail(s)))
         /\ \A g \in Frames(Tail(s)) : g.pc \notin {"putback", "request"}
         /\ Head(s).pc = "~Pool" => \A g \in Frames(Tail(s)) : g.pc # "~Pool"
<1> DEFINE t == Tail(s)
<1>1. /\ Len(s) \in Nat /\ Len(s) >= 1 /\ t \in Seq(Frame) /\ Len(t) = Len(s) - 1
      /\ Head(s) = s[1] /\ s[1] \in Frame
  OBVIOUS
<1>2. \A i \in 1 .. Len(t) : t[i] = s[i + 1] /\ i + 1 \in 2 .. Len(s)
  BY <1>1
<1>3. \A i \in 2 .. Len(s) : i - 1 \in 1 .. Len(t) /\ s[i] = t[i - 1]
  <2> TAKE i \in 2 .. Len(s)
  <2>1. i - 1 \in 1 .. Len(t) /\ (i - 1) + 1 = i
    BY <1>1
  <2> QED
    BY <1>2, <2>1
<1>4. Stacked(t)
  <2>1. CASE Len(s) = 1
    <3>1. 1 .. Len(t) = {}
      BY <1>1, <2>1
    <3> QED
      BY <3>1 DEF Stacked
  <2>2. CASE Len(s) # 1
    <3>1. t = SubSeq(s, 2, Len(s)) /\ 2 \in 1 .. Len(s)
      BY <1>1, <2>2, TailIsSubSeq
    <3> QED
      BY <3>1, Below
  <2> QED
    BY <2>1, <2>2
<1>5. Frames(s) = {Head(s)} \cup Frames(t)
  <2>1. ASSUME NEW i \in 1 .. Len(s) PROVE s[i] \in {Head(s)} \cup Frames(t)
    <3>1. CASE i = 1
      BY <1>1, <3>1
    <3>2. CASE i # 1
      BY <1>3, <3>2 DEF Frames
    <3> QED
      BY <3>1, <3>2
  <2>2. Head(s) \in Frames(s)
    BY <1>1 DEF Frames
  <2>3. \A i \in 1 .. Len(t) : i + 1 \in 1 .. Len(s)
    BY <1>1
  <2>4. \A g \in Frames(t) : g \in Frames(s)
    BY <1>2, <2>3 DEF Frames
  <2> QED
    BY <2>1, <2>2, <2>4 DEF Frames
<1>6. IF t = <<>> THEN Base(Head(s)) ELSE Above(Head(s), Head(t))
  <2>1. CASE t = <<>>
    <3>1. Len(s) = 1
      BY <1>1, <2>1
    <3> QED
      BY <1>1, <2>1, <3>1 DEF Stacked
  <2>2. CASE t # <<>>
    <3>1. Len(s) # 1 /\ 1 \in 1 .. Len(s) /\ Head(t) = s[1 + 1]
      BY <1>1, <1>2, <2>2
    <3>2. Above(s[1], s[1 + 1])
      BY <1>1, <3>1 DEF Stacked
    <3> QED
      BY <1>1, <2>2, <3>1, <3>2
  <2> QED
    BY <2>1, <2>2
<1>7. ASSUME NEW i \in 1 .. Len(t) PROVE t[i].pc \notin {"putback", "request"}
  <2>1. i + 1 \in 2 .. Len(s) /\ t[i] = s[i + 1]
    BY <1>2
  <2>2. i \in 1 .. Len(s) /\ i # Len(s)
    <3> HIDE DEF t
    <3> QED
      BY <1>1, <2>1
  <2>3. Above(s[i], s[i + 1])
    BY <2>2 DEF Stacked
  <2> QED
    BY <2>1, <2>3 DEF Above
<1>8. ASSUME Head(s).pc = "~Pool", NEW i \in 1 .. Len(t) PROVE t[i].pc # "~Pool"
  <2>1. 1 \in 1 .. Len(s) /\ i + 1 \in 1 .. Len(s) /\ 1 < i + 1
    BY <1>1
  <2> QED
    BY <1>1, <1>2, <1>8, <2>1 DEF Stacked
<1> QED
  BY <1>1, <1>4, <1>5, <1>6, <1>7, <1>8 DEF Frames

\* Frames are pushed one by one.
LEMMA PushTwo ==
  ASSUME NEW s \in Seq(Frame), NEW f \in Frame, NEW g \in Frame
  PROVE  <<f, g>> \o s = <<f>> \o (<<g>> \o s)
<1>1. <<f>> \in Seq(Frame) /\ <<g>> \in Seq(Frame) /\ <<f, g>> \in Seq(Frame)
  OBVIOUS
<1>2. <<f>> \o <<g>> \in Seq(Frame) /\ Len(<<f>> \o <<g>>) = 2
      /\ \A i \in 1 .. 2 : (<<f>> \o <<g>>)[i] = <<f, g>>[i]
  BY <1>1, ConcatProperties
<1>3. <<f, g>> = <<f>> \o <<g>>
  BY <1>1, <1>2, SeqEqual
<1> QED
  BY <1>1, <1>3, ConcatAssociative

\* Three frames pushed at once are three frames pushed one by one.
LEMMA PushThree ==
  ASSUME NEW s \in Seq(Frame), NEW f \in Frame, NEW g \in Frame, NEW h \in Frame
  PROVE  <<f, g, h>> \o s = <<f>> \o (<<g>> \o (<<h>> \o s))
<1>1. <<f, g, h>> = <<f>> \o <<g, h>> /\ <<f>> \in Seq(Frame) /\ <<g, h>> \in Seq(Frame)
  OBVIOUS
<1>2. <<f, g, h>> \o s = <<f>> \o (<<g, h>> \o s)
  BY <1>1, ConcatAssociative
<1> QED
  BY <1>2, PushTwo

\* Nothing is pushed.
LEMMA PushNone ==
  ASSUME NEW s \in Seq(Frame)
  PROVE  <<>> \o s = s
  OBVIOUS

\* Pool::request() waits only for putback(), Client::request() and weak().
LEMMA PlacingOnTop ==
  ASSUME NEW s \in Seq(Frame), Stacked(s), NEW f \in Frames(s), f.pc = "pool_request"
  PROVE  s # <<>> /\ Head(s).pc \in {"pool_request", "weaken", "putback", "request"}
<1>1. PICK i \in 1 .. Len(s) : f = s[i]
  BY DEF Frames
<1>2. Len(s) \in Nat /\ s # <<>> /\ Head(s) = s[1]
  BY <1>1
<1>3. ASSUME NEW j \in 2 .. Len(s) PROVE Above(s[j - 1], s[j])
  <2>1. j - 1 \in 1 .. Len(s) /\ j - 1 # Len(s) /\ (j - 1) + 1 = j
    BY <1>2
  <2> QED
    BY <2>1 DEF Stacked
<1>4. CASE i = 1
  BY <1>1, <1>2, <1>4
<1>5. CASE i # 1
  <2>1. s[i - 1].pc = "weaken"
    BY <1>1, <1>2, <1>3, <1>5 DEF Above
  <2>2. CASE i = 2
    BY <1>2, <2>1, <2>2
  <2>3. CASE i # 2
    <3>1. i - 1 \in 2 .. Len(s) /\ s[(i - 1) - 1].pc \in {"putback", "request"}
      BY <1>2, <1>3, <1>5, <2>1, <2>3 DEF Above
    <3>2. CASE i = 3
      BY <1>2, <3>1, <3>2
    <3>3. CASE i # 3
      <4>1. (i - 1) - 1 \in 2 .. Len(s)
        BY <1>2, <3>1, <3>3
      <4> QED
        BY <1>3, <3>1, <4>1 DEF Above
    <3> QED
      BY <3>2, <3>3
  <2> QED
    BY <2>2, <2>3
<1> QED
  BY <1>4, <1>5

\* The frames the routines make.
LEMMA MadeFrames ==
  /\ \A ev \in Events, r \in Requests, ok \in BOOLEAN, from \in 0 .. MaxRequests :
         Callback(ev, r, ok, from) \in Frame
  /\ \A r \in Requests, ok \in BOOLEAN, from \in 0 .. MaxRequests :
         [pc |-> "notify", r |-> r, ok |-> ok, from |-> from] \in Frame
  /\ \A c \in Clients : AtClient("putback", c) \in Frame /\ AtClient("weaken", c) \in Frame
  /\ \A c \in Clients, r \in Requests : ClientRequestFrame(c, r) \in Frame
  /\ \A r \in Requests : PoolRequestFrame(r) \in Frame
  /\ \A c \in Clients, buf \in Seq(Messages), from \in 0 .. MaxRequests :
         OnReadFrame(c, buf, from) \in Frame
  /\ \A c \in Clients, close \in BOOLEAN, ctx \in {"default", "own"} :
         [pc |-> "redirected", c |-> c, close |-> close, ctx |-> ctx] \in Frame
  /\ \A todo \in SUBSET NetLocs : [pc |-> "~Pool", todo |-> todo] \in Frame
<1> USE DEF Frame
<1>1. \A ev \in Events, r \in Requests, ok \in BOOLEAN, from \in 0 .. MaxRequests :
         Callback(ev, r, ok, from) \in Frame
  BY DEF Callback
<1>2. \A r \in Requests, ok \in BOOLEAN, from \in 0 .. MaxRequests :
         [pc |-> "notify", r |-> r, ok |-> ok, from |-> from] \in Frame
  OBVIOUS
<1>3. \A c \in Clients : AtClient("putback", c) \in Frame /\ AtClient("weaken", c) \in Frame
  BY DEF AtClient
<1>4. \A c \in Clients, r \in Requests : ClientRequestFrame(c, r) \in Frame
  BY DEF ClientRequestFrame
<1>5. \A r \in Requests : PoolRequestFrame(r) \in Frame
  BY DEF PoolRequestFrame
<1>6. \A c \in Clients, buf \in Seq(Messages), from \in 0 .. MaxRequests :
         OnReadFrame(c, buf, from) \in Frame
  BY DEF OnReadFrame
<1>7. \A c \in Clients, close \in BOOLEAN, ctx \in {"default", "own"} :
         [pc |-> "redirected", c |-> c, close |-> close, ctx |-> ctx] \in Frame
  OBVIOUS
<1>8. \A todo \in SUBSET NetLocs : [pc |-> "~Pool", todo |-> todo] \in Frame
  OBVIOUS
<1> QED
  BY <1>1, <1>2, <1>3, <1>4, <1>5, <1>6, <1>7, <1>8

\* The frames of the loops over a queue: cancel_request() and ~Pool().
LEMMA QueuedFrames ==
  ASSUME queue \in [NetLocs -> Seq(Requests)], NEW n \in NetLocs, NEW r \in Requests
  PROVE  QueuedFrame("erase", n, r) \in Frame /\ QueuedFrame("abort", n, r) \in Frame
<1>1. queue[n] \in Seq(Requests)
  OBVIOUS
<1> QED
  BY <1>1 DEF QueuedFrame, Frame

\* An exception out of Client::request() ends at the innermost callback; ~Pool()
\* has one above it by then and goes on.
LEMMA Caught ==
  ASSUME stack \in Seq(Frame), Stacked(stack), stack # <<>>, Top.pc = "request"
  PROVE  /\ Unwound \in Seq(Frame) /\ Stacked(Unwound)
         /\ Frames(Unwound) \subseteq Frames(Tail(stack))
         /\ \A f \in Frames(stack) : f.pc = "~Pool" => f \in Frames(Unwound)
<1> DEFINE I == {i \in 1 .. Len(stack) : stack[i].pc = "callback"}
           P == {i \in 1 .. Len(stack) : stack[i].pc \in {"abort", "~Pool"}}
<1>1. Unwound = IF I = {} THEN <<>> ELSE SubSeq(stack, Min(I), Len(stack))
  <2>1. SelectInSeq(stack, LAMBDA f : f.pc = "callback") = IF I # {} THEN Min(I) ELSE 0
    BY Zenon DEF SelectInSeq
  <2>2. I # {} => Min(I) # 0
    <3>1. I \in SUBSET Nat
      OBVIOUS
    <3>2. I # {} => Min(I) \in I
      <4> HIDE DEF I
      <4> QED
        BY <3>1, MinIsLeast
    <3> QED
      BY <3>2
  <2> HIDE DEF I
  <2> QED
    BY <2>1, <2>2, Zenon DEF Unwound
<1>2. Len(stack) \in Nat /\ Len(stack) >= 1 /\ Top = stack[1] /\ 1 \notin I /\ 1 \notin P
  BY DEF Top
<1>3. ASSUME P # {}
      PROVE  I # {} /\ \A p \in P : Min(I) <= p
  <2>1. P \in SUBSET Nat /\ I \in SUBSET Nat
    OBVIOUS
  <2>2. PICK m \in P : \A p \in P : m <= p
    <3> HIDE DEF P
    <3> QED
      BY <1>3, <2>1, Least
  <2>3. m - 1 \in 1 .. Len(stack) /\ m - 1 # Len(stack) /\ (m - 1) + 1 = m /\ m - 1 \notin P
    BY <1>2, <2>2
  <2>4. Above(stack[m - 1], stack[m])
    BY <2>3 DEF Stacked
  <2>5. m - 1 \in I
    BY <2>2, <2>3, <2>4 DEF Above
  <2>6. Min(I) <= m - 1 /\ Min(I) \in I
    <3> HIDE DEF I
    <3> QED
      BY <2>1, <2>5, MinIsLeast
  <2> HIDE DEF I, P
  <2>7. Min(I) \in Nat /\ m \in Nat
    BY <2>1, <2>2, <2>6
  <2>8. ASSUME NEW p \in P PROVE Min(I) <= p
    <3>1. p \in Nat /\ m <= p
      BY <2>1, <2>2
    <3> QED
      BY <2>6, <2>7, <3>1, SMT
  <2> QED
    BY <2>5, <2>8
<1>4. CASE I = {}
  <2>1. Unwound = <<>> /\ P = {}
    BY <1>1, <1>3, <1>4
  <2>2. \A f \in Frames(stack) : f.pc # "~Pool"
    BY <2>1 DEF Frames
  <2> QED
    BY <2>1, <2>2 DEF Frames, Stacked
<1>5. CASE I # {}
  <2> DEFINE k == Min(I)
  <2>1. I \in SUBSET Nat
    OBVIOUS
  <2>2. k \in I
    <3> HIDE DEF I
    <3> QED
      BY <1>5, <2>1, MinIsLeast
  <2>3. k \in 2 .. Len(stack)
    BY <1>2, <2>2
  <2> HIDE DEF k
  <2>4. /\ SubSeq(stack, k, Len(stack)) \in Seq(Frame) /\ Stacked(SubSeq(stack, k, Len(stack)))
        /\ Frames(SubSeq(stack, k, Len(stack))) = {stack[i] : i \in k .. Len(stack)}
    BY <1>2, <2>3, Below
  <2>5. Frames(Tail(stack)) = {stack[i] : i \in 2 .. Len(stack)}
    <3>1. 2 \in 1 .. Len(stack) /\ Tail(stack) = SubSeq(stack, 2, Len(stack))
      BY <1>2, <2>3, TailIsSubSeq
    <3> QED
      BY <3>1, Below
  <2>6. {stack[i] : i \in k .. Len(stack)} \subseteq {stack[i] : i \in 2 .. Len(stack)}
    <3>1. k .. Len(stack) \subseteq 2 .. Len(stack)
      BY <1>2, <2>3
    <3> QED
      BY <3>1
  <2>7. ASSUME NEW f \in Frames(stack), f.pc = "~Pool"
        PROVE  f \in {stack[i] : i \in k .. Len(stack)}
    <3>1. PICK i \in 1 .. Len(stack) : f = stack[i]
      BY DEF Frames
    <3>2. i \in P
      BY <2>7, <3>1
    <3>3. k <= i
      BY <1>3, <3>2 DEF k
    <3> QED
      BY <1>2, <2>3, <3>1, <3>3
  <2> QED
    BY <1>1, <1>5, <2>4, <2>5, <2>6, <2>7 DEF k
<1> QED
  BY <1>4, <1>5

\* ~Pool() tells the queued requests of a list: one frame for each, above its own.
LEMMA Telling ==
  ASSUME queue \in [NetLocs -> Seq(Requests)], NEW n \in NetLocs,
         NEW t \in Seq(Frame), Stacked(t), t # <<>>, Head(t).pc = "~Pool"
  PROVE  LET a == [i \in DOMAIN queue[n] |-> QueuedFrame("abort", n, queue[n][i])]
         IN  /\ a \o t \in Seq(Frame) /\ Stacked(a \o t)
             /\ \A f \in Frames(a \o t) : f.pc = "abort" \/ f \in Frames(t)
             /\ Frames(t) \subseteq Frames(a \o t)
<1> DEFINE q == queue[n]
           a == [i \in DOMAIN q |-> QueuedFrame("abort", n, q[i])]
           u == a \o t
<1>1. q \in Seq(Requests) /\ DOMAIN q = 1 .. Len(q) /\ Len(q) \in Nat
  OBVIOUS
<1>2. \A i \in 1 .. Len(q) : a[i] = QueuedFrame("abort", n, q[i]) /\ a[i].pc = "abort" /\ a[i] \in Frame
  <2> TAKE i \in 1 .. Len(q)
  <2>1. a[i] = QueuedFrame("abort", n, q[i]) /\ q[i] \in Requests
    BY <1>1
  <2>2. QueuedFrame("abort", n, q[i]).pc = "abort" /\ QueuedFrame("abort", n, q[i]) \in Frame
    BY <2>1, QueuedFrames DEF QueuedFrame
  <2> QED
    BY <2>1, <2>2
<1>3. a \in Seq(Frame) /\ Len(a) = Len(q)
  <2> HIDE DEF q
  <2>1. a = [i \in 1 .. Len(q) |-> QueuedFrame("abort", n, q[i])]
    BY <1>1
  <2> QED
    BY <1>1, <1>2, <2>1, IsASeq
<1> HIDE DEF a, q
<1>4. /\ u \in Seq(Frame) /\ Len(u) = Len(q) + Len(t)
      /\ \A i \in 1 .. Len(q) + Len(t) : u[i] = IF i <= Len(q) THEN a[i] ELSE t[i - Len(q)]
  <2>1. /\ a \o t \in Seq(Frame) /\ Len(a \o t) = Len(a) + Len(t)
        /\ \A i \in 1 .. Len(a) + Len(t) : (a \o t)[i] = IF i <= Len(a) THEN a[i] ELSE t[i - Len(a)]
    BY <1>3, ConcatProperties
  <2> QED
    BY <1>3, <2>1, Zenon
<1>5. Len(t) \in Nat /\ Len(t) >= 1 /\ t[1].pc = "~Pool"
  OBVIOUS
<1> HIDE DEF u
<1>l. Len(q) \in Nat /\ Len(t) \in Nat \ {0} /\ Len(u) = Len(q) + Len(t)
  BY <1>1, <1>4, <1>5
<1>6. \A i \in 1 .. Len(u) : \/ i \in 1 .. Len(q) /\ u[i] = a[i]
                             \/ i - Len(q) \in 1 .. Len(t) /\ u[i] = t[i - Len(q)]
  BY <1>1, <1>4, <1>5
<1>7. \A i \in 1 .. Len(t) : i + Len(q) \in 1 .. Len(u) /\ u[i + Len(q)] = t[i]
  <2> TAKE i \in 1 .. Len(t)
  <2>1. i + Len(q) \in 1 .. Len(q) + Len(t) /\ ~(i + Len(q) <= Len(q)) /\ (i + Len(q)) - Len(q) = i
    BY <1>1, <1>5
  <2> QED
    BY <1>4, <2>1
<1>8. \A f \in Frames(u) : f.pc = "abort" \/ f \in Frames(t)
  BY <1>2, <1>6 DEF Frames
<1>9. Frames(t) \subseteq Frames(u)
  <2>1. \A i \in 1 .. Len(t) : t[i] \in Frames(u)
    BY <1>7 DEF Frames
  <2> QED
    BY <2>1 DEF Frames
<1>10. ASSUME NEW i \in 1 .. Len(u)
       PROVE  IF i = Len(u) THEN Base(u[i]) ELSE Above(u[i], u[i + 1])
  <2>1. CASE i < Len(q)
    <3>1. i \in 1 .. Len(q) /\ i + 1 \in 1 .. Len(q) /\ i # Len(u) /\ i + 1 \in 1 .. Len(u)
      BY <1>l, <2>1
    <3>2. u[i] = a[i] /\ u[i + 1] = a[i + 1]
      BY <1>1, <1>4, <1>5, <3>1
    <3> QED
      BY <1>2, <3>1, <3>2 DEF Above
  <2>2. CASE i = Len(q)
    <3>1. i \in 1 .. Len(q) /\ i # Len(u) /\ 1 + Len(q) = i + 1
      BY <1>l, <2>2
    <3>2. u[i] = a[i] /\ u[i + 1] = t[1]
      BY <1>1, <1>4, <1>5, <1>7, <3>1
    <3> QED
      BY <1>2, <1>5, <3>1, <3>2 DEF Above
  <2>3. CASE i > Len(q)
    <3> DEFINE j == i - Len(q)
    <3>1. j \in 1 .. Len(t) /\ j + Len(q) = i /\ (j = Len(t) <=> i = Len(u))
      BY <1>l, <2>3
    <3>2. u[i] = t[j]
      BY <1>7, <3>1
    <3>3. j # Len(t) => j + 1 \in 1 .. Len(t) /\ (j + 1) + Len(q) = i + 1
      BY <1>l, <3>1
    <3> HIDE DEF j
    <3>4. j # Len(t) => u[i + 1] = t[j + 1]
      BY <1>7, <3>3
    <3>5. IF j = Len(t) THEN Base(t[j]) ELSE Above(t[j], t[j + 1])
      BY <3>1 DEF Stacked
    <3> QED
      BY <3>1, <3>2, <3>4, <3>5
  <2> QED
    BY <1>l, <2>1, <2>2, <2>3
<1>11. ASSUME NEW i \in 1 .. Len(u), NEW j \in 1 .. Len(u), i < j
       PROVE  u[i].pc # "~Pool" \/ u[j].pc # "~Pool"
  <2>1. CASE i \in 1 .. Len(q) /\ u[i] = a[i]
    BY <1>2, <2>1
  <2>2. CASE j \in 1 .. Len(q) /\ u[j] = a[j]
    BY <1>2, <2>2
  <2>3. CASE i - Len(q) \in 1 .. Len(t) /\ u[i] = t[i - Len(q)] /\ j - Len(q) \in 1 .. Len(t) /\ u[j] = t[j - Len(q)]
    <3>1. i - Len(q) < j - Len(q)
      BY <1>1, <1>11
    <3> QED
      BY <2>3, <3>1 DEF Stacked
  <2> QED
    BY <1>6, <2>1, <2>2, <2>3
<1>12. u \in Seq(Frame) /\ Stacked(u)
  BY <1>4, <1>10, <1>11 DEF Stacked
<1> QED
  BY <1>8, <1>9, <1>12 DEF u, a, q

-----------------------------------------------------------------------------
(* What the types rest on *)

\* on_read() of client c is under way.
Reading(c) == \E f \in Frames(stack) : f.pc = "on_read" /\ f.c = c

\* Client c has a request, or is about to be put back or to get one.
Claimed(c) == \E f \in Frames(stack) : f.pc \in {"putback", "request"} /\ f.c = c
Taken(c) == client[c].request # 0 \/ Claimed(c)

\* ~Pool() runs when the pool is gone, Pool::request() only before.
PoolFrames ==
  \A f \in Frames(stack) : (f.pc = "~Pool" => ~alive) /\ (f.pc = "pool_request" => alive)

\* A parser that expects an answer while there may be bytes for it has a request.
Expecting ==
  \A c \in Clients :
      client[c].expects /\ (client[c].conn # "closed" \/ Reading(c)) => client[c].request # 0

\* After redirect_event the client has its request still, or it was cancelled.
Redirecting ==
  \A f \in Frames(stack) : f.pc = "redirected" =>
      /\ client[f.c].inRedirect
      /\ ~client[f.c].redirectCanceled => client[f.c].request # 0 /\ ~client[f.c].expects

\* A client that is taken is busy in a list of the pool; ~Pool() lets go of it
\* before it is done, and a client in a redirect is not given away meanwhile.
Owned ==
  /\ alive => \A c \in Clients : Taken(c) => \E n \in NetLocs : c \in busy[n]
  /\ alive => \A c \in Clients :
         client[c].inRedirect => \E n \in NetLocs : c \in free[n] \cup busy[n]
  /\ ~alive => \A c \in Clients : Taken(c) /\ client[c].pool =>
         \E f \in Frames(stack) : f.pc = "~Pool" /\ \E n \in f.todo : c \in busy[n]
  /\ \A f \in Frames(stack) : f.pc = "putback" => client[f.c].request = 0

Coherent == PoolFrames /\ Expecting /\ Redirecting /\ Owned

\* What stands on a stack of frames is a frame.
LEMMA FramesAreFrames ==
  ASSUME NEW s \in Seq(Frame), NEW f \in Frames(s)
  PROVE  f \in Frame
<1>1. PICK i \in 1 .. Len(s) : f = s[i]
  BY DEF Frames
<1> QED
  BY <1>1

\* A step that gives no client a request, takes none from it and calls nothing
\* of the pool changes none of this.
LEMMA Calm ==
  ASSUME stack \in Seq(Frame), Coherent, UNCHANGED <<alive, free, busy>>,
         \A c \in Clients :
             /\ client'[c].request = client[c].request /\ client'[c].expects = client[c].expects
             /\ client'[c].inRedirect = client[c].inRedirect /\ client'[c].pool = client[c].pool
             /\ client'[c].redirectCanceled = client[c].redirectCanceled
             /\ client'[c].conn # "closed" => client[c].conn # "closed",
         \A f \in Frames(stack') :
             \/ f \in Frames(stack)
             \/ f.pc \in {"callback", "notify", "erase", "weaken"}
             \/ f.pc = "on_read" /\ (Reading(f.c) \/ client[f.c].conn # "closed"),
         \A f \in Frames(stack) : f.pc = "~Pool" => f \in Frames(stack')
  PROVE  Coherent'
<1>1. PoolFrames'
  BY DEF Coherent, PoolFrames
<1>2. Expecting'
  <2> SUFFICES ASSUME NEW c \in Clients, client'[c].expects, client'[c].conn # "closed" \/ Reading(c)'
               PROVE  client'[c].request # 0
    BY DEF Expecting
  <2>1. client[c].conn # "closed" \/ Reading(c)
    BY DEF Reading
  <2> QED
    BY <2>1 DEF Coherent, Expecting
<1>3. Redirecting'
  <2> SUFFICES ASSUME NEW f \in Frames(stack'), f.pc = "redirected"
               PROVE  /\ client'[f.c].inRedirect
                      /\ ~client'[f.c].redirectCanceled => client'[f.c].request # 0 /\ ~client'[f.c].expects
    BY DEF Redirecting
  <2>1. f \in Frames(stack) /\ f.c \in Clients
    BY FramesAreFrames, FrameFields
  <2> QED
    BY <2>1 DEF Coherent, Redirecting
<1>4. \A c \in Clients : Taken(c)' => Taken(c)
  BY DEF Taken, Claimed
<1>5. \A f \in Frames(stack') : f.pc = "putback" => client'[f.c].request = 0
  <2> SUFFICES ASSUME NEW f \in Frames(stack'), f.pc = "putback" PROVE client'[f.c].request = 0
    OBVIOUS
  <2>1. f \in Frames(stack) /\ f.c \in Clients
    BY FramesAreFrames, FrameFields
  <2> QED
    BY <2>1 DEF Coherent, Owned
<1>6. Owned'
  <2>1. CASE alive
    BY <1>4, <1>5, <2>1 DEF Coherent, Owned
  <2>2. CASE ~alive
    <3>1. ASSUME NEW c \in Clients, Taken(c)', client'[c].pool
          PROVE  \E f \in Frames(stack') : f.pc = "~Pool" /\ \E n \in f.todo : c \in busy'[n]
      <4>1. PICK f \in Frames(stack) : f.pc = "~Pool" /\ \E n \in f.todo : c \in busy[n]
        BY <1>4, <2>2, <3>1 DEF Coherent, Owned
      <4> QED
        BY <4>1
    <3> QED
      BY <1>5, <2>2, <3>1 DEF Owned
  <2> QED
    BY <2>1, <2>2
<1> QED
  BY <1>1, <1>2, <1>3, <1>6 DEF Coherent

-----------------------------------------------------------------------------
(* The records *)

\* 0 stands for none.
LEMMA NoneIsThere ==
  0 \in 0 .. MaxClients /\ 0 \in 0 .. MaxRequests /\ 0 \in 0 .. RedirectLimit + 1
<1>1. MaxClients \in Nat /\ MaxRequests \in Nat /\ RedirectLimit \in Nat
  BY BoundsAssumption
<1> QED
  BY <1>1

\* The fields of a client, one by one.
LEMMA ClientEntries ==
  ASSUME NEW cl \in Client
  PROVE  /\ \A x \in BOOLEAN : /\ [cl EXCEPT !.pool = x] \in Client
                               /\ [cl EXCEPT !.expects = x] \in Client
                               /\ [cl EXCEPT !.weak = x] \in Client
                               /\ [cl EXCEPT !.inRedirect = x] \in Client
                               /\ [cl EXCEPT !.redirectCanceled = x] \in Client
         /\ \A x \in NetLocs : [cl EXCEPT !.netloc = x] \in Client
         /\ \A x \in 0 .. MaxRequests : [cl EXCEPT !.request = x] \in Client
         /\ \A x \in {"closed", "connecting", "connected"} : [cl EXCEPT !.conn = x] \in Client
         /\ \A x \in Nat : [cl EXCEPT !.field = x] \in Client
         /\ \A x \in Seq(Requests) : [cl EXCEPT !.owed = x] \in Client
<1> DEFINE Owed == Seq(Requests)
           Locs == NetLocs \cup {NoLoc}
<1>1. NetLocs \subseteq Locs
  OBVIOUS
<1>2. Client = [pool : BOOLEAN, netloc : Locs, request : 0 .. MaxRequests, expects : BOOLEAN,
                weak : BOOLEAN, conn : {"closed", "connecting", "connected"}, inRedirect : BOOLEAN,
                redirectCanceled : BOOLEAN, field : Nat, owed : Owed]
  BY DEF Client
<1> HIDE DEF Owed, Locs
<1>3. \A x \in BOOLEAN : /\ [cl EXCEPT !.pool = x] \in Client
                         /\ [cl EXCEPT !.expects = x] \in Client
                         /\ [cl EXCEPT !.weak = x] \in Client
  BY <1>2
<1>4. \A x \in BOOLEAN : /\ [cl EXCEPT !.inRedirect = x] \in Client
                         /\ [cl EXCEPT !.redirectCanceled = x] \in Client
  BY <1>2
<1>5. \A x \in NetLocs : [cl EXCEPT !.netloc = x] \in Client
  BY <1>1, <1>2
<1>6. \A x \in 0 .. MaxRequests : [cl EXCEPT !.request = x] \in Client
  BY <1>2
<1>7. \A x \in {"closed", "connecting", "connected"} : [cl EXCEPT !.conn = x] \in Client
  BY <1>2
<1>8. \A x \in Nat : [cl EXCEPT !.field = x] \in Client
  BY <1>2
<1>9. \A x \in Owed : [cl EXCEPT !.owed = x] \in Client
  BY <1>2
<1> QED
  BY <1>3, <1>4, <1>5, <1>6, <1>7, <1>8, <1>9 DEF Owed

\* What is done to the fields of a client.
LEMMA ClientFields ==
  /\ NewClient \in Client
  /\ \A cl \in Client : Reset(cl) \in Client
  /\ \A cl \in Client, keep \in BOOLEAN : Finished(cl, keep) \in Client
<1>1. NewClient \in Client
  BY NoneIsThere DEF NewClient, Client
<1>2. ASSUME NEW cl \in Client PROVE Reset(cl) \in Client
  <2>1. <<>> \in Seq(Requests)
    OBVIOUS
  <2> QED
    BY <2>1, ClientEntries DEF Reset
<1>3. ASSUME NEW cl \in Client, NEW keep \in BOOLEAN PROVE Finished(cl, keep) \in Client
  <2> DEFINE done == [cl EXCEPT !.request = 0, !.field = 0]
  <2>1. done \in Client
    BY NoneIsThere, ClientEntries
  <2>2. [done EXCEPT !.weak = TRUE] \in Client
    BY <2>1, ClientEntries
  <2>3. Reset(done) \in Client
    BY <1>2, <2>1
  <2> QED
    BY <2>2, <2>3 DEF Finished
<1> QED
  BY <1>1, <1>2, <1>3

\* The items of a form are numbered.
LEMMA FilesNumbered ==
  ASSUME NEW r \in Requests
  PROVE  Files(r) \in SUBSET (Nat \ {0}) /\ \A i \in Nat : FileFrom(r, i) \in Files(r) \cup {0}
<1>1. Form[r] \in Seq(FormItems)
  BY EnvironmentAssumption
<1>2. Files(r) \in SUBSET (Nat \ {0})
  BY <1>1 DEF Files
<1>3. ASSUME NEW i \in Nat PROVE FileFrom(r, i) \in Files(r) \cup {0}
  <2> DEFINE left == {j \in Files(r) : j >= i}
  <2>1. left \in SUBSET Nat /\ left \subseteq Files(r)
    BY <1>2
  <2>2. left # {} => Min(left) \in left
    <3> HIDE DEF left
    <3> QED
      BY <2>1, MinIsLeast
  <2> QED
    BY <2>1, <2>2 DEF FileFrom
<1> QED
  BY <1>2, <1>3

\* What is done to the fields of a request.
LEMMA RequestFields ==
  ASSUME NEW q \in Request
  PROVE  /\ \A r : Timed(q, r) \in Request
         /\ cleanup_after_redirect(q) \in Request
         /\ Reported(q) \in Request
         /\ \A c \in 0 .. MaxClients : [q EXCEPT !.client = c] \in Request
         /\ \A i \in Nat : \A c \in 0 .. MaxClients : Started(q, i, c) \in Request
         /\ \A i \in Nat : Stopped(q, i) \in Request
<1> USE NoneIsThere
<1>1. \A r : Timed(q, r) \in Request
  BY DEF Timed, Request
<1>2. cleanup_after_redirect(q) \in Request
  BY DEF cleanup_after_redirect, Request
<1>3. Reported(q) \in Request
  BY <1>2 DEF Reported, Request
<1>4. \A c \in 0 .. MaxClients : [q EXCEPT !.client = c] \in Request
  BY DEF Request
<1>5. ASSUME NEW i \in Nat, NEW c \in 0 .. MaxClients PROVE [q.streamer EXCEPT ![i] = c] \in Seq(0 .. MaxClients)
  <2>1. q.streamer \in Seq(0 .. MaxClients)
    BY DEF Request
  <2>2. CASE i \in 1 .. Len(q.streamer)
    BY <2>1, <2>2, ExceptSeq
  <2>3. CASE i \notin 1 .. Len(q.streamer)
    <3>1. i \notin DOMAIN q.streamer
      BY <2>1, <2>3
    <3>2. [q.streamer EXCEPT ![i] = c] = q.streamer
      BY <2>1, <3>1
    <3> QED
      BY <2>1, <3>2
  <2> QED
    BY <2>2, <2>3
<1>6. ASSUME NEW i \in Nat, NEW c \in 0 .. MaxClients PROVE [q EXCEPT !.streamer[i] = c] \in Request
  BY <1>5 DEF Request
<1>7. ASSUME NEW i \in Nat, NEW c \in 0 .. MaxClients PROVE Started(q, i, c) \in Request
  <2>1. [q EXCEPT !.transferred = TRUE] \in Request
    BY DEF Request
  <2>2. [q EXCEPT !.inputs = @ \ {i}, !.streamer[i] = c] \in Request
    BY <1>5 DEF Request
  <2> QED
    BY <2>1, <2>2 DEF Started
<1>8. ASSUME NEW i \in Nat PROVE Stopped(q, i) \in Request
  BY <1>6 DEF Stopped
<1> QED
  BY <1>1, <1>2, <1>3, <1>4, <1>7, <1>8

-----------------------------------------------------------------------------
(* The actions *)

Safe == TypeOK /\ Stacked(stack) /\ Coherent

\* A failed assertion ends the behaviour.
LEMMA AbortSafe ==
  ASSUME Safe, NEW why \in Faults, Abort(why)
  PROVE  Safe'
<1>1. UNCHANGED <<alive, limit, idleTimer, lists, free, busy, queue, client, req, submits, stack>> /\ fault' = why
  BY DEF Abort, pool, slots
<1>2. TypeOK' /\ Stacked(stack')
  BY <1>1 DEF Safe, TypeOK
<1>3. Coherent'
  BY <1>1, Calm DEF Safe, TypeOK
<1> QED
  BY <1>2, <1>3 DEF Safe

\* What a routine on top of the stack knows.
LEMMA OnTop ==
  ASSUME Safe, NEW pc, At(pc)
  PROVE  /\ stack \in Seq(Frame) /\ stack # <<>> /\ Top = Head(stack) /\ Top \in Frame /\ Top.pc = pc
         /\ Top \in Frames(stack) /\ Frames(stack) = {Top} \cup Frames(Tail(stack))
         /\ Tail(stack) \in Seq(Frame) /\ Stacked(Tail(stack))
         /\ IF Tail(stack) = <<>> THEN Base(Top) ELSE Above(Top, Head(Tail(stack)))
         /\ \A g \in Frames(Tail(stack)) : g.pc \notin {"putback", "request"}
         /\ Top.pc = "~Pool" => \A g \in Frames(Tail(stack)) : g.pc # "~Pool"
<1>1. stack \in Seq(Frame) /\ stack # <<>> /\ Stacked(stack) /\ Top = Head(stack) /\ Top.pc = pc
  BY DEF Safe, TypeOK, At, Top
<1> QED
  BY <1>1, Pop

\* The routine on top returns, or goes on as another one.
LEMMA Returns ==
  ASSUME Safe, NEW pc, At(pc), Goto(<<>>)
  PROVE  stack' = Tail(stack) /\ stack' \in Seq(Frame) /\ Stacked(stack')
<1>1. Tail(stack) \in Seq(Frame) /\ Stacked(Tail(stack))
  BY OnTop
<1>2. stack' = Tail(stack)
  BY <1>1, PushNone DEF Goto
<1> QED
  BY <1>1, <1>2

\* The routine on top goes on as another frame, which may stand where it stood.
LEMMA GoesOn ==
  ASSUME Safe, NEW pc, At(pc), NEW f \in Frame, Goto(<<f>>),
         IF Tail(stack) = <<>> THEN Base(f) ELSE Above(f, Head(Tail(stack))), f.pc # "~Pool"
  PROVE  stack' \in Seq(Frame) /\ Stacked(stack') /\ Frames(stack') = {f} \cup Frames(Tail(stack))
<1>1. Tail(stack) \in Seq(Frame) /\ Stacked(Tail(stack)) /\ stack' = <<f>> \o Tail(stack)
  BY OnTop DEF Goto
<1> QED
  BY <1>1, Push

\* Return, and what only pops a frame that is not the pool's.
LEMMA LeaveSafe ==
  ASSUME Safe, Return
  PROVE  Safe'
<1>1. At("callback") /\ Goto(<<>>)
      /\ UNCHANGED <<alive, limit, idleTimer, lists, free, busy, queue, client, req, submits, fault>>
  BY DEF Return, Leave, pool, slots
<1>2. stack' = Tail(stack) /\ stack' \in Seq(Frame) /\ Stacked(stack')
  BY <1>1, Returns
<1>3. TypeOK'
  BY <1>1, <1>2 DEF Safe, TypeOK
<1>4. stack \in Seq(Frame) /\ Top.pc = "callback" /\ Frames(stack) = {Top} \cup Frames(stack')
  BY <1>1, <1>2, OnTop
<1>5. Coherent'
  BY <1>1, <1>4, Calm DEF Safe
<1> QED
  BY <1>2, <1>3, <1>5 DEF Safe

\* Request::finish_and_notify(): the request is reset and its callback is called.
LEMMA FinishAndNotifySafe ==
  ASSUME Safe, FinishAndNotify
  PROVE  Safe'
<1> DEFINE f == Callback("response", Top.r, Top.ok, Top.from)
<1>1. At("notify") /\ Goto(<<f>>) /\ req' = [req EXCEPT ![Top.r] = Reported(@)]
      /\ UNCHANGED <<alive, limit, idleTimer, lists, free, busy, queue, client, submits, fault>>
  BY DEF FinishAndNotify, pool, slots
<1>2. /\ stack \in Seq(Frame) /\ Top \in Frame /\ Top.pc = "notify"
      /\ Frames(stack) = {Top} \cup Frames(Tail(stack))
      /\ IF Tail(stack) = <<>> THEN Base(Top) ELSE Above(Top, Head(Tail(stack)))
  BY <1>1, OnTop
<1>3. Top.r \in Requests /\ f \in Frame
  BY <1>2, FrameFields, MadeFrames DEF Events
<1>4. f.pc = "callback" /\ f.ev = "response"
  BY DEF Callback
<1> HIDE DEF f
<1>5. stack' \in Seq(Frame) /\ Stacked(stack') /\ Frames(stack') = {f} \cup Frames(Tail(stack))
  <2>1. IF Tail(stack) = <<>> THEN Base(f) ELSE Above(f, Head(Tail(stack)))
    BY <1>2, <1>4 DEF Base, Above
  <2> QED
    BY <1>1, <1>3, <1>4, <2>1, GoesOn
<1>6. TypeOK'
  BY <1>1, <1>3, <1>5, RequestFields DEF Safe, TypeOK
<1>7. Coherent'
  BY <1>1, <1>2, <1>4, <1>5, Calm DEF Safe
<1> QED
  BY <1>5, <1>6, <1>7 DEF Safe

\* Tcp::weak(true), after the pool was called.
LEMMA WeakenSafe ==
  ASSUME Safe, Weaken
  PROVE  Safe'
<1>1. At("weaken") /\ Goto(<<>>) /\ client' = [client EXCEPT ![Top.c].weak = TRUE]
      /\ UNCHANGED <<alive, limit, idleTimer, lists, free, busy, queue, req, submits, fault>>
  BY DEF Weaken, pool, slots
<1>2. stack' = Tail(stack) /\ stack' \in Seq(Frame) /\ Stacked(stack')
  BY <1>1, Returns
<1>3. stack \in Seq(Frame) /\ Top \in Frame /\ Top.pc = "weaken" /\ Frames(stack) = {Top} \cup Frames(stack')
  BY <1>1, <1>2, OnTop
<1>4. Top.c \in Clients
  BY <1>3, FrameFields
<1>5. client \in [Clients -> Client]
  BY DEF Safe, TypeOK
<1>6. client' \in [Clients -> Client]
  BY <1>1, <1>4, <1>5, ClientEntries
<1>7. TypeOK'
  BY <1>1, <1>2, <1>6 DEF Safe, TypeOK
<1>8. \A c \in Clients : client'[c] = IF c = Top.c THEN [client[c] EXCEPT !.weak = TRUE] ELSE client[c]
  BY <1>1, <1>4, <1>5
<1>9. Coherent'
  BY <1>1, <1>3, <1>5, <1>8, Calm DEF Safe, Client
<1> QED
  BY <1>2, <1>7, <1>9 DEF Safe

\* A request is taken out of a queue.
LEMMA RemoveFirstQueue ==
  ASSUME NEW s \in Seq(Requests), NEW r
  PROVE  RemoveFirst(s, r) \in Seq(Requests)
<1> DEFINE I == {i \in 1 .. Len(s) : s[i] = r}
<1>1. CASE I = {}
  BY <1>1 DEF RemoveFirst
<1>2. CASE I # {}
  <2>1. SelectInSeq(s, LAMBDA v : v = r) = Min(I)
    BY <1>2, Zenon DEF SelectInSeq
  <2>2. Len(s) \in Nat /\ I \in SUBSET Nat
    OBVIOUS
  <2>3. Min(I) \in I
    <3> HIDE DEF I
    <3> QED
      BY <1>2, <2>2, MinIsLeast
  <2>4. RemoveFirst(s, r) = RemoveAt(s, Min(I))
    <3>1. \E i \in 1 .. Len(s) : s[i] = r
      BY <1>2
    <3> QED
      BY <2>1, <3>1, Zenon DEF RemoveFirst
  <2> DEFINE k == Min(I)
  <2>5. k \in 1 .. Len(s)
    BY <2>3
  <2> HIDE DEF k
  <2>6. SubSeq(s, 1, k - 1) \in Seq(Requests) /\ SubSeq(s, k + 1, Len(s)) \in Seq(Requests)
    BY <2>2, <2>5
  <2>7. RemoveAt(s, k) \in Seq(Requests)
    BY <2>6, ConcatProperties DEF RemoveAt
  <2> QED
    BY <2>4, <2>7 DEF k
<1> QED
  BY <1>1, <1>2

\* cancel_request() erases the request that it has notified from its queue.
LEMMA EraseSafe ==
  ASSUME Safe, Erase
  PROVE  Safe'
<1>1. CASE Abort("cancel: iterator")
  BY <1>1, AbortSafe DEF Faults
<1>2. ASSUME queue' = [queue EXCEPT ![Top.n] = RemoveFirst(@, Top.r)], Goto(<<>>),
             UNCHANGED <<pool, lists, free, busy, client, req, submits, fault>>
      PROVE  Safe'
  <2>1. At("erase") /\ UNCHANGED <<alive, limit, idleTimer, lists, free, busy, client, req, submits, fault>>
    BY <1>2 DEF Erase, pool
  <2>2. stack' = Tail(stack) /\ stack' \in Seq(Frame) /\ Stacked(stack')
    BY <1>2, <2>1, Returns
  <2>3. stack \in Seq(Frame) /\ Top \in Frame /\ Top.pc = "erase" /\ Frames(stack) = {Top} \cup Frames(stack')
    BY <2>1, <2>2, OnTop
  <2>4. queue' \in [NetLocs -> Seq(Requests)]
    <3>1. Top.n \in NetLocs /\ queue \in [NetLocs -> Seq(Requests)]
      BY <2>3, FrameFields DEF Safe, TypeOK
    <3>2. RemoveFirst(queue[Top.n], Top.r) \in Seq(Requests)
      BY <3>1, RemoveFirstQueue
    <3> QED
      BY <1>2, <3>1, <3>2
  <2>5. TypeOK'
    BY <2>1, <2>2, <2>4 DEF Safe, TypeOK
  <2>6. Coherent'
    BY <2>1, <2>3, Calm DEF Safe
  <2> QED
    BY <2>2, <2>5, <2>6 DEF Safe
<1> QED
  BY <1>1, <1>2, Zenon DEF Erase

\* ~Pool() aborts a queued request.
LEMMA AbortQueuedSafe ==
  ASSUME Safe, AbortQueued
  PROVE  Safe'
<1> DEFINE f == Callback("response", Top.r, FALSE, 0)
<1>1. CASE Abort("~Pool: iterator")
  BY <1>1, AbortSafe DEF Faults
<1>2. ASSUME req' = [req EXCEPT ![Top.r] = Reported(@)], Goto(<<f>>),
             UNCHANGED <<pool, slots, client, submits, fault>>
      PROVE  Safe'
  <2>1. At("abort") /\ UNCHANGED <<alive, limit, idleTimer, lists, free, busy, queue, client, submits, fault>>
    BY <1>2 DEF AbortQueued, pool, slots
  <2>2. /\ stack \in Seq(Frame) /\ Top \in Frame /\ Top.pc = "abort"
        /\ Frames(stack) = {Top} \cup Frames(Tail(stack))
        /\ IF Tail(stack) = <<>> THEN Base(Top) ELSE Above(Top, Head(Tail(stack)))
    BY <2>1, OnTop
  <2>3. Top.r \in Requests /\ f \in Frame
    BY <2>2, FrameFields, MadeFrames, NoneIsThere DEF Events
  <2>4. f.pc = "callback" /\ f.ev = "response"
    BY DEF Callback
  <2> HIDE DEF f
  <2>5. stack' \in Seq(Frame) /\ Stacked(stack') /\ Frames(stack') = {f} \cup Frames(Tail(stack))
    <3>1. IF Tail(stack) = <<>> THEN Base(f) ELSE Above(f, Head(Tail(stack)))
      BY <2>2, <2>4 DEF Base, Above
    <3> QED
      BY <1>2, <2>1, <2>3, <2>4, <3>1, GoesOn
  <2>6. TypeOK'
    BY <1>2, <2>1, <2>3, <2>5, RequestFields DEF Safe, TypeOK
  <2>7. Coherent'
    BY <2>1, <2>2, <2>4, <2>5, Calm DEF Safe
  <2> QED
    BY <2>5, <2>6, <2>7 DEF Safe
<1> QED
  BY <1>1, <1>2, Zenon DEF AbortQueued

\* The callbacks of a request that is cancelled while it is queued.
LEMMA CancelRequestSafe ==
  ASSUME Safe, NEW r \in Requests, CancelRequest(r, stack), stack = <<>> \/ Top.pc = "callback"
  PROVE  Safe'
<1> DEFINE n == req[r].netloc
           f == Callback("response", r, FALSE, 0)
           g == QueuedFrame("erase", n, r)
<1>1. CASE Abort("cancel: netloc") \/ Abort("cancel: not queued")
  BY <1>1, AbortSafe DEF Faults
<1>2. ASSUME req' = [req EXCEPT ![r] = Reported(@)], stack' = <<f, g>> \o stack,
             UNCHANGED <<pool, slots, client, submits, fault>>
      PROVE  Safe'
  <2>1. UNCHANGED <<alive, limit, idleTimer, lists, free, busy, queue, client, submits, fault>>
    BY <1>2 DEF pool, slots
  <2>2. stack \in Seq(Frame) /\ Stacked(stack) /\ req \in [Requests -> Request]
        /\ queue \in [NetLocs -> Seq(Requests)]
    BY DEF Safe, TypeOK
  <2>3. n \in NetLocs
    BY <2>2 DEF Request
  <2>4. f \in Frame /\ g \in Frame
    BY <2>2, <2>3, MadeFrames, QueuedFrames, NoneIsThere DEF Events
  <2>5. f.pc = "callback" /\ f.ev = "response" /\ g.pc = "erase"
    BY DEF Callback, QueuedFrame
  <2> HIDE DEF f, g, n
  <2>6. /\ <<g>> \o stack \in Seq(Frame) /\ Stacked(<<g>> \o stack)
        /\ Frames(<<g>> \o stack) = {g} \cup Frames(stack)
        /\ <<g>> \o stack # <<>> /\ Head(<<g>> \o stack) = g
    <3>1. IF stack = <<>> THEN Base(g) ELSE Above(g, Head(stack))
      BY <2>5 DEF Base, Above, Top
    <3> QED
      BY <2>2, <2>4, <2>5, <3>1, Push
  <2>7. stack' = <<f>> \o (<<g>> \o stack)
    BY <1>2, <2>2, <2>4, PushTwo
  <2>8. stack' \in Seq(Frame) /\ Stacked(stack') /\ Frames(stack') = {f, g} \cup Frames(stack)
    <3>1. Above(f, g)
      BY <2>5 DEF Above
    <3>2. /\ stack' \in Seq(Frame) /\ Stacked(stack')
          /\ Frames(stack') = {f} \cup Frames(<<g>> \o stack)
      BY <2>4, <2>5, <2>6, <2>7, <3>1, Push
    <3> QED
      BY <2>6, <3>2
  <2>9. TypeOK'
    BY <1>2, <2>1, <2>2, <2>8, RequestFields DEF Safe, TypeOK
  <2>10. Coherent'
    BY <2>1, <2>2, <2>5, <2>8, Calm DEF Safe
  <2> QED
    BY <2>8, <2>9, <2>10 DEF Safe
<1> QED
  BY <1>1, <1>2, Zenon DEF CancelRequest

\* A stack of one frame.
LEMMA Single ==
  ASSUME NEW f \in Frame, Base(f)
  PROVE  <<f>> \in Seq(Frame) /\ Stacked(<<f>>) /\ Frames(<<f>>) = {f}
<1>1. <<f>> \in Seq(Frame) /\ Len(<<f>>) = 1 /\ <<f>>[1] = f
  OBVIOUS
<1>2. \A i \in 1 .. 1 : i = 1
  OBVIOUS
<1>3. Frames(<<f>>) = {f}
  BY <1>1, <1>2 DEF Frames
<1> QED
  BY <1>1, <1>2, <1>3 DEF Stacked

\* Between events the stack is empty.
LEMMA Empty ==
  <<>> \in Seq(Frame) /\ Stacked(<<>>) /\ Frames(<<>>) = {}
  BY DEF Stacked, Frames

\* on_read() is called by the loop.
LEMMA ReadAlone ==
  ASSUME Safe, At("on_read")
  PROVE  Tail(stack) = <<>> /\ Frames(stack) = {Top} /\ Top.c \in Clients /\ Top \in Frame
         /\ Top.buf \in Seq(Messages) /\ Top.from \in 0 .. MaxRequests
<1>1. /\ Top \in Frame /\ Top.pc = "on_read" /\ Frames(stack) = {Top} \cup Frames(Tail(stack))
      /\ IF Tail(stack) = <<>> THEN Base(Top) ELSE Above(Top, Head(Tail(stack)))
  BY OnTop
<1>2. Tail(stack) = <<>>
  BY <1>1 DEF Above
<1> QED
  BY <1>1, <1>2, Empty, FrameFields

\* on_read() has taken everything that the buffer held.
LEMMA ReadEndSafe ==
  ASSUME Safe, ReadEnd
  PROVE  Safe'
<1>1. At("on_read") /\ Goto(<<>>) /\ (client' = client \/ client' = [client EXCEPT ![Top.c] = Reset(@)])
      /\ UNCHANGED <<alive, limit, idleTimer, lists, free, busy, queue, req, submits, fault>>
  BY DEF ReadEnd, pool, slots
<1>2. stack' = Tail(stack) /\ stack' \in Seq(Frame) /\ Stacked(stack')
  BY <1>1, Returns
<1>3. stack \in Seq(Frame) /\ Top.pc = "on_read" /\ Frames(stack) = {Top} \cup Frames(stack') /\ Top.c \in Clients
  BY <1>1, <1>2, OnTop, ReadAlone
<1>4. client \in [Clients -> Client]
  BY DEF Safe, TypeOK
<1>5. client' \in [Clients -> Client]
  BY <1>1, <1>3, <1>4, ClientFields
<1>6. TypeOK'
  BY <1>1, <1>2, <1>5 DEF Safe, TypeOK
<1>7. \A c \in Clients : client'[c] = client[c] \/ client'[c] = Reset(client[c])
  BY <1>1, <1>3, <1>4
<1>8. \A c \in Clients : client[c] \in Client
  BY <1>4
<1>9. Coherent'
  <2>1. \A cl \in Client :
            /\ Reset(cl).request = cl.request /\ Reset(cl).expects = cl.expects
            /\ Reset(cl).inRedirect = cl.inRedirect /\ Reset(cl).pool = cl.pool
            /\ Reset(cl).redirectCanceled = cl.redirectCanceled /\ Reset(cl).conn = "closed"
    BY DEF Reset, Client
  <2> QED
    BY <1>1, <1>3, <1>7, <1>8, <2>1, Calm DEF Safe
<1> QED
  BY <1>2, <1>6, <1>9 DEF Safe

\* on_connect() without an error.
LEMMA OnConnectSafe ==
  ASSUME Safe, NEW c \in Clients, OnConnect(c)
  PROVE  Safe'
<1>1. client[c].conn = "connecting" /\ client' = [client EXCEPT ![c].conn = "connected"]
      /\ UNCHANGED <<alive, limit, idleTimer, lists, free, busy, queue, req, submits, stack, fault>>
  BY DEF OnConnect, pool, slots
<1>2. client \in [Clients -> Client] /\ stack \in Seq(Frame)
  BY DEF Safe, TypeOK
<1>3. client' \in [Clients -> Client]
  BY <1>1, <1>2, ClientEntries
<1>4. TypeOK' /\ Stacked(stack')
  BY <1>1, <1>3 DEF Safe, TypeOK
<1>5. \A d \in Clients : client'[d] = client[d] \/ (d = c /\ client'[d] = [client[d] EXCEPT !.conn = "connected"])
  BY <1>1, <1>2
<1>6. Coherent'
  BY <1>1, <1>2, <1>5, Calm DEF Safe, Client
<1> QED
  BY <1>4, <1>6 DEF Safe

\* The request whose answer is due.
LEMMA DueIsRequest ==
  ASSUME NEW cl \in Client
  PROVE  Due(cl) \in 0 .. MaxRequests
<1>1. cl.owed \in Seq(Requests)
  BY DEF Client
<1>2. cl.owed # <<>> => Head(cl.owed) \in Requests
  BY <1>1
<1> QED
  BY <1>2, NoneIsThere DEF Due, Requests

\* on_read() is called with a buffer.
LEMMA OnReadSafe ==
  ASSUME Safe, NEW c \in Clients, NEW buf \in Buffers, OnRead(c, buf)
  PROVE  Safe'
<1> DEFINE f == OnReadFrame(c, buf, Due(client[c]))
<1>1. /\ stack = <<>> /\ client[c].conn = "connected" /\ stack' = <<f>>
      /\ client' = [client EXCEPT ![c].owed =
                      IF Range(buf) \subseteq {"continue", "part", "bad"} \/ @ = <<>>
                      THEN @ ELSE Tail(@)]
      /\ UNCHANGED <<alive, limit, idleTimer, lists, free, busy, queue, req, submits, fault>>
  BY DEF OnRead, Loop, pool, slots
<1>2. client \in [Clients -> Client] /\ stack \in Seq(Frame)
  BY DEF Safe, TypeOK
<1>3. f \in Frame /\ f.pc = "on_read" /\ f.c = c
  BY <1>2, MadeFrames, DueIsRequest, EnvironmentAssumption DEF OnReadFrame
<1> HIDE DEF f
<1>4. stack' \in Seq(Frame) /\ Stacked(stack') /\ Frames(stack') = {f}
  BY <1>1, <1>3, Single DEF Base
<1>5. PICK x \in Seq(Requests) : client' = [client EXCEPT ![c].owed = x]
  <2>1. client[c].owed \in Seq(Requests)
    BY <1>2 DEF Client
  <2>2. client[c].owed # <<>> => Tail(client[c].owed) \in Seq(Requests)
    BY <2>1
  <2> QED
    BY <1>1, <2>1, <2>2
<1>6. client' \in [Clients -> Client]
  BY <1>2, <1>5, ClientEntries
<1>7. TypeOK'
  BY <1>1, <1>4, <1>6 DEF Safe, TypeOK
<1>8. \A d \in Clients : client'[d] = client[d] \/ client'[d] = [client[d] EXCEPT !.owed = x]
  BY <1>2, <1>5
<1>9. Coherent'
  <2>1. Frames(stack) = {}
    BY <1>1, Empty
  <2>2. \A d \in Clients :
            /\ client'[d].request = client[d].request /\ client'[d].expects = client[d].expects
            /\ client'[d].inRedirect = client[d].inRedirect /\ client'[d].pool = client[d].pool
            /\ client'[d].redirectCanceled = client[d].redirectCanceled
            /\ client'[d].conn = client[d].conn
    <3>1. \A cl \in Client : LET e == [cl EXCEPT !.owed = x]
                            IN  /\ e.request = cl.request /\ e.expects = cl.expects
                                /\ e.inRedirect = cl.inRedirect /\ e.pool = cl.pool
                                /\ e.redirectCanceled = cl.redirectCanceled /\ e.conn = cl.conn
      BY DEF Client
    <3>2. \A d \in Clients : client[d] \in Client
      BY <1>2
    <3> TAKE d \in Clients
    <3>3. CASE client'[d] = client[d]
      BY <3>3
    <3>4. CASE client'[d] = [client[d] EXCEPT !.owed = x]
      BY <3>1, <3>2, <3>4
    <3> QED
      BY <1>8, <3>3, <3>4
  <2> QED
    BY <1>1, <1>2, <1>3, <1>4, <2>1, <2>2, Calm DEF Safe
<1> QED
  BY <1>4, <1>7, <1>9 DEF Safe

\* on_eof().
LEMMA OnEofSafe ==
  ASSUME Safe, NEW c \in Clients, NEW m \in {"bad", "close", "redirect_close"}, OnEof(c, m)
  PROVE  Safe'
<1> DEFINE f == OnReadFrame(c, <<m>>, Due(client[c]))
<1>1. /\ stack = <<>> /\ client[c].conn = "connected"
      /\ UNCHANGED <<alive, limit, idleTimer, lists, free, busy, queue, req, submits, fault>>
  BY DEF OnEof, Loop, pool, slots
<1>2. client \in [Clients -> Client] /\ stack \in Seq(Frame) /\ Frames(stack) = {}
  BY <1>1, Empty DEF Safe, TypeOK
<1>3. CASE client' = [client EXCEPT ![c] = Reset(@)] /\ stack' = stack
  <2>1. client' \in [Clients -> Client]
    BY <1>2, <1>3, ClientFields
  <2>2. TypeOK' /\ Stacked(stack')
    BY <1>1, <1>3, <2>1 DEF Safe, TypeOK
  <2>3. \A d \in Clients :
            /\ client'[d].request = client[d].request /\ client'[d].expects = client[d].expects
            /\ client'[d].inRedirect = client[d].inRedirect /\ client'[d].pool = client[d].pool
            /\ client'[d].redirectCanceled = client[d].redirectCanceled
            /\ client'[d].conn # "closed" => client[d].conn # "closed"
    BY <1>2, <1>3 DEF Reset, Client
  <2>4. Coherent'
    BY <1>1, <1>2, <1>3, <2>3, Calm DEF Safe
  <2> QED
    BY <2>2, <2>4 DEF Safe
<1>4. CASE stack' = <<f>> /\ client' = client
  <2>1. <<m>> \in Seq(Messages)
    BY DEF Messages
  <2>2. f \in Frame /\ f.pc = "on_read" /\ f.c = c
    BY <1>2, <2>1, MadeFrames, DueIsRequest DEF OnReadFrame
  <2> HIDE DEF f
  <2>3. stack' \in Seq(Frame) /\ Stacked(stack') /\ Frames(stack') = {f}
    BY <1>4, <2>2, Single DEF Base
  <2>4. TypeOK'
    BY <1>1, <1>4, <2>3 DEF Safe, TypeOK
  <2>5. Coherent'
    BY <1>1, <1>2, <1>4, <2>2, <2>3, Calm DEF Safe
  <2> QED
    BY <2>3, <2>4, <2>5 DEF Safe
<1> QED
  BY <1>3, <1>4, Zenon DEF OnEof

\* A message is only ever taken for a request that is there.
LEMMA ParsesForRequest ==
  ASSUME Safe, NEW ms, Parses(ms)
  PROVE  /\ At("on_read") /\ client[Top.c].expects /\ Top.c \in Clients
         /\ client[Top.c].request \in Requests /\ client[Top.c].request # 0
         /\ NextTurn \in Frame /\ NextTurn.pc = "on_read" /\ NextTurn.c = Top.c
         /\ Tail(stack) = <<>> /\ Frames(stack) = {Top} /\ Top.pc = "on_read"
         /\ Top.from \in 0 .. MaxRequests
<1>1. At("on_read") /\ Top.buf # <<>> /\ client[Top.c].expects
  BY DEF Parses
<1>2. /\ Tail(stack) = <<>> /\ Frames(stack) = {Top} /\ Top.c \in Clients /\ Top.pc = "on_read"
      /\ Top.buf \in Seq(Messages) /\ Top.from \in 0 .. MaxRequests
  BY <1>1, ReadAlone, OnTop
<1>3. Reading(Top.c)
  BY <1>2 DEF Reading
<1>4. client[Top.c].request # 0
  BY <1>1, <1>2, <1>3 DEF Safe, Coherent, Expecting
<1>5. client[Top.c].request \in 0 .. MaxRequests
  BY <1>2 DEF Safe, TypeOK, Client
<1>6. client[Top.c].request \in Requests
  <2>1. MaxRequests \in Nat
    BY BoundsAssumption
  <2> QED
    BY <1>4, <1>5, <2>1 DEF Requests
<1>7. Tail(Top.buf) \in Seq(Messages)
  BY <1>1, <1>2
<1>8. NextTurn \in Frame
  BY <1>2, <1>7, MadeFrames DEF NextTurn
<1> QED
  BY <1>1, <1>2, <1>4, <1>6, <1>8 DEF NextTurn, OnReadFrame

\* on_read() calls f and goes on.
LEMMA ReadCalls ==
  ASSUME NEW f \in Frame, f.pc \notin {"on_read", "redirected", "~Pool"}, f.pc = "callback" => f.ev # "redirect",
         NEW g \in Frame, g.pc = "on_read"
  PROVE  /\ <<f, g>> \o <<>> \in Seq(Frame) /\ Stacked(<<f, g>> \o <<>>)
         /\ Frames(<<f, g>> \o <<>>) = {f, g}
<1>1. /\ <<g>> \o <<>> \in Seq(Frame) /\ Stacked(<<g>> \o <<>>) /\ Frames(<<g>> \o <<>>) = {g} \cup {}
      /\ <<g>> \o <<>> # <<>> /\ Head(<<g>> \o <<>>) = g
  BY Push, Empty DEF Base
<1>2. Above(f, g)
  BY DEF Above
<1>3. /\ <<f>> \o (<<g>> \o <<>>) \in Seq(Frame) /\ Stacked(<<f>> \o (<<g>> \o <<>>))
      /\ Frames(<<f>> \o (<<g>> \o <<>>)) = {f} \cup Frames(<<g>> \o <<>>)
  BY <1>1, <1>2, Push
<1>4. <<f, g>> \o <<>> = <<f>> \o (<<g>> \o <<>>)
  BY PushTwo, Empty
<1> QED
  BY <1>1, <1>3, <1>4

\* A part of a response and a 100 Continue leave the request with its client.
LEMMA InterimSafe ==
  ASSUME Safe, Interim
  PROVE  Safe'
<1> DEFINE f == Callback(IF Head(Top.buf) = "part" THEN "partial" ELSE "continue",
                         client[Top.c].request, TRUE, Top.from)
           g == NextTurn
<1>1. /\ Parses({"part", "continue"}) /\ stack' = <<f, g>> \o Tail(stack)
      /\ UNCHANGED <<alive, limit, idleTimer, lists, free, busy, queue, client, req, submits, fault>>
  BY DEF Interim, Goto, pool, slots
<1>2. /\ Tail(stack) = <<>> /\ Frames(stack) = {Top} /\ Top.pc = "on_read"
      /\ g \in Frame /\ g.pc = "on_read" /\ g.c = Top.c
      /\ client[Top.c].request \in Requests /\ Top.from \in 0 .. MaxRequests
  BY <1>1, ParsesForRequest
<1>3. f \in Frame
  BY <1>2, MadeFrames DEF Events
<1>4. f.pc = "callback" /\ f.ev # "redirect"
  BY DEF Callback
<1> HIDE DEF f, g
<1>5. stack' \in Seq(Frame) /\ Stacked(stack') /\ Frames(stack') = {f, g}
  BY <1>1, <1>2, <1>3, <1>4, ReadCalls
<1>6. TypeOK'
  BY <1>1, <1>5 DEF Safe, TypeOK
<1>7. Coherent'
  <2>1. Reading(g.c) /\ stack \in Seq(Frame)
    BY <1>2 DEF Reading, Safe, TypeOK
  <2> QED
    BY <1>1, <1>2, <1>4, <1>5, <2>1, Calm DEF Safe
<1> QED
  BY <1>5, <1>6, <1>7 DEF Safe

\* send_chunk() and send_final_chunk().
LEMMA SendChunkSafe ==
  ASSUME Safe, NEW r \in Requests, NEW final \in BOOLEAN, SendChunk(r, final)
  PROVE  Safe'
<1>1. CASE Abort("send: not active")
  BY <1>1, AbortSafe DEF Faults
<1>2. CASE req' = [req EXCEPT ![r].transferred = final] /\ UNCHANGED <<pool, slots, client, submits, stack, fault>>
  <2>1. UNCHANGED <<alive, limit, idleTimer, lists, free, busy, queue, client, submits, stack, fault>>
    BY <1>2 DEF pool, slots
  <2>2. req' \in [Requests -> Request]
    <3>1. req \in [Requests -> Request] /\ req[r] \in Request
      BY DEF Safe, TypeOK
    <3>2. [req[r] EXCEPT !.transferred = final] \in Request
      BY <3>1 DEF Request
    <3> QED
      BY <1>2, <3>1, <3>2
  <2>3. TypeOK' /\ Stacked(stack')
    BY <2>1, <2>2 DEF Safe, TypeOK
  <2>4. Coherent'
    BY <2>1, Calm DEF Safe, TypeOK
  <2> QED
    BY <2>3, <2>4 DEF Safe
<1> QED
  BY <1>1, <1>2, Zenon DEF SendChunk

\* redirect_event is called by analyze_request(), and that by the loop's on_read().
LEMMA RedirectAlone ==
  ASSUME Safe, NEW call, UserMay(call), InRedirect
  PROVE  /\ Top.r \in Requests /\ stack[2] \in Frames(stack) /\ stack[2] \in Frame
         /\ stack[2].pc = "redirected"
         /\ stack[2].c \in Clients /\ stack[2].ctx \in {"default", "own"}
         /\ \A f \in Frames(stack) : f.pc # "~Pool"
<1>1. stack # <<>> /\ Top.pc = "callback" /\ Top.ev = "redirect" /\ stack[2].pc = "redirected" /\ At("callback")
  BY DEF UserMay, InRedirect, At
<1>2. /\ stack \in Seq(Frame) /\ Top \in Frame /\ Frames(stack) = {Top} \cup Frames(Tail(stack))
      /\ Tail(stack) \in Seq(Frame) /\ Stacked(Tail(stack))
      /\ IF Tail(stack) = <<>> THEN Base(Top) ELSE Above(Top, Head(Tail(stack)))
  BY <1>1, OnTop
<1> DEFINE t == Tail(stack)
<1>3. t # <<>>
  BY <1>1, <1>2 DEF Base
<1>4. Head(t) = stack[2]
  BY <1>2, <1>3
<1> HIDE DEF t
<1>5. /\ Head(t) \in Frame /\ Tail(t) \in Seq(Frame) /\ Stacked(Tail(t))
      /\ Frames(t) = {Head(t)} \cup Frames(Tail(t))
      /\ IF Tail(t) = <<>> THEN Base(Head(t)) ELSE Above(Head(t), Head(Tail(t)))
  BY <1>2, <1>3, Pop DEF t
<1> DEFINE u == Tail(t)
<1>6. u # <<>> /\ Head(u).pc = "on_read"
  BY <1>1, <1>4, <1>5 DEF Base, Above
<1> HIDE DEF u
<1>7. /\ Frames(u) = {Head(u)} \cup Frames(Tail(u))
      /\ IF Tail(u) = <<>> THEN Base(Head(u)) ELSE Above(Head(u), Head(Tail(u)))
  BY <1>5, <1>6, Pop DEF u
<1>8. Tail(u) = <<>>
  BY <1>6, <1>7 DEF Above
<1>9. Frames(stack) = {Top, stack[2], Head(u)}
  BY <1>2, <1>4, <1>5, <1>7, <1>8, Empty DEF t, u
<1> QED
  BY <1>1, <1>2, <1>4, <1>5, <1>6, <1>9, FrameFields

\* A redirect callback gives the request an SSL context again.
LEMMA RestoreContextSafe ==
  ASSUME Safe, RestoreContext
  PROVE  Safe'
<1>1. /\ req' = [req EXCEPT ![Top.r].netloc.ctx = stack[2].ctx]
      /\ UNCHANGED <<alive, limit, idleTimer, lists, free, busy, queue, client, submits, stack, fault>>
  BY DEF RestoreContext, pool, slots
<1>2. Top.r \in Requests /\ stack[2].ctx \in {"default", "own"}
  BY RedirectAlone DEF RestoreContext
<1>3. req' \in [Requests -> Request]
  <2>1. req \in [Requests -> Request] /\ req[Top.r] \in Request
    BY <1>2 DEF Safe, TypeOK
  <2>2. req[Top.r].netloc \in NetLocs
    BY <2>1 DEF Request
  <2>3. [req[Top.r].netloc EXCEPT !.ctx = stack[2].ctx] \in NetLocs
    BY <1>2, <2>2 DEF NetLocs
  <2>4. [req[Top.r] EXCEPT !.netloc.ctx = stack[2].ctx] \in Request
    BY <2>1, <2>3 DEF Request
  <2> QED
    BY <1>1, <1>2, <2>1, <2>4
<1>4. TypeOK' /\ Stacked(stack')
  BY <1>1, <1>3 DEF Safe, TypeOK
<1>5. Coherent'
  BY <1>1, Calm DEF Safe, TypeOK
<1> QED
  BY <1>4, <1>5 DEF Safe

\* max_connections() and idle_timeout() only change the pool's settings.
LEMMA SettingSafe ==
  ASSUME Safe, (\E m \in Limits : SetMaxConnections(m)) \/ (\E on \in BOOLEAN : SetIdleTimeout(on))
  PROVE  Safe'
<1>1. limit' \in Limits /\ idleTimer' \in BOOLEAN
      /\ UNCHANGED <<alive, lists, free, busy, queue, client, req, submits, stack, fault>>
  BY DEF SetMaxConnections, SetIdleTimeout, slots, Safe, TypeOK
<1>2. TypeOK' /\ Stacked(stack')
  BY <1>1 DEF Safe, TypeOK
<1>3. Coherent'
  BY <1>1, Calm DEF Safe, TypeOK
<1> QED
  BY <1>2, <1>3 DEF Safe

\* finish_request(): client c loses its request, is put back if it has a pool, and
\* the request is told.
LEMMA FinishRequestSafe ==
  ASSUME Safe, NEW c \in Clients, NEW cl \in Client, NEW keep \in BOOLEAN, NEW ok \in BOOLEAN,
         NEW from \in 0 .. MaxRequests, NEW rest \in Seq(Frame), Stacked(rest),
         FinishRequest(c, cl, keep, ok, from, rest),
         cl.request = client[c].request, cl.request # 0, cl.pool = client[c].pool,
         cl.inRedirect => client[c].inRedirect,
         rest # <<>> => Head(rest).pc \in {"callback", "on_read"},
         \A f \in Frames(rest) : f \in Frames(stack) \/ (f.pc = "on_read" /\ Reading(f.c)),
         \A f \in Frames(stack) : f.pc = "~Pool" => f \in Frames(rest),
         ~cl.expects \/ (~keep /\ \A f \in Frames(rest) : f.pc # "on_read"),
         \A f \in Frames(rest) : f.pc = "redirected" /\ f.c = c => cl.inRedirect /\ cl.redirectCanceled
  PROVE  Safe'
<1> DEFINE r == client[c].request
           e == Finished(cl, keep)
           p == AtClient("putback", c)
           g == [pc |-> "notify", r |-> r, ok |-> ok, from |-> from]
<1>1. CASE Abort("form: no such item")
  BY <1>1, AbortSafe DEF Faults
<1>2. ASSUME client' = [client EXCEPT ![c] = e], req' = [req EXCEPT ![cl.request] = Stopped(@, cl.field)],
             stack' = Ending(c, ok, from) \o rest, UNCHANGED <<pool, slots, submits, fault>>
      PROVE  Safe'
  <2>1. UNCHANGED <<alive, limit, idleTimer, lists, free, busy, queue, submits, fault>>
    BY <1>2 DEF pool, slots
  <2>2. client \in [Clients -> Client] /\ req \in [Requests -> Request] /\ stack \in Seq(Frame)
    BY DEF Safe, TypeOK
  <2>3. r \in Requests
    <3>1. r \in 0 .. MaxRequests /\ r # 0 /\ MaxRequests \in Nat
      BY <2>2, BoundsAssumption DEF Client
    <3> QED
      BY <3>1 DEF Requests
  <2>4. e \in Client /\ cl.field \in Nat
    BY ClientFields DEF Client
  <2>5. /\ e.request = 0 /\ e.expects = cl.expects /\ e.inRedirect = cl.inRedirect /\ e.pool = cl.pool
        /\ e.redirectCanceled = cl.redirectCanceled /\ (~keep => e.conn = "closed")
    BY DEF Finished, Reset, Client
  <2>6. p \in Frame /\ g \in Frame
    BY <2>3, MadeFrames
  <2>7. p.pc = "putback" /\ p.c = c /\ g.pc = "notify"
    BY DEF AtClient
  <2>8. stack' = IF client[c].pool THEN <<p, g>> \o rest ELSE <<g>> \o rest
    <3>1. <<>> \o <<g>> = <<g>> /\ <<p>> \o <<g>> = <<p, g>>
      <4>1. <<g>> \in Seq(Frame) /\ <<p, g>> \in Seq(Frame)
        BY <2>6
      <4>2. <<p, g>> \o <<>> = <<p>> \o (<<g>> \o <<>>)
        BY <2>6, Empty, PushTwo
      <4>3. <<p, g>> \o <<>> = <<p, g>>
        BY <4>1, ConcatEmptySeq
      <4>4. <<g>> \o <<>> = <<g>> /\ <<>> \o <<g>> = <<g>>
        BY <4>1, ConcatEmptySeq
      <4> QED
        BY <4>2, <4>3, <4>4, Zenon
    <3> QED
      BY <1>2, <3>1 DEF Ending
  <2> HIDE DEF e, p, g
  <2>9. /\ <<g>> \o rest \in Seq(Frame) /\ Stacked(<<g>> \o rest) /\ Frames(<<g>> \o rest) = {g} \cup Frames(rest)
        /\ <<g>> \o rest # <<>> /\ Head(<<g>> \o rest) = g
    <3>1. IF rest = <<>> THEN Base(g) ELSE Above(g, Head(rest))
      BY <2>7 DEF Base, Above
    <3> QED
      BY <2>6, <2>7, <3>1, Push
  <2>10. /\ stack' \in Seq(Frame) /\ Stacked(stack')
         /\ \A f \in Frames(stack') : f = g \/ (f = p /\ client[c].pool) \/ f \in Frames(rest)
         /\ Frames(rest) \subseteq Frames(stack')
    <3>1. CASE ~client[c].pool
      BY <2>8, <2>9, <3>1
    <3>2. CASE client[c].pool
      <4>1. Above(p, g)
        BY <2>7 DEF Above
      <4> DEFINE t == <<g>> \o rest
      <4>2. /\ <<p>> \o t \in Seq(Frame) /\ Stacked(<<p>> \o t)
            /\ Frames(<<p>> \o t) = {p} \cup Frames(t)
        <5>1. t \in Seq(Frame) /\ Stacked(t) /\ Above(p, Head(t)) /\ t # <<>> /\ p.pc # "~Pool"
          BY <2>7, <2>9, <4>1
        <5> HIDE DEF t
        <5> QED
          BY <2>6, <5>1, Push
      <4>3. stack' = <<p>> \o (<<g>> \o rest)
        BY <2>6, <2>8, <3>2, PushTwo
      <4> QED
        BY <2>9, <3>2, <4>2, <4>3
    <3> QED
      BY <3>1, <3>2
  <2>11. client' \in [Clients -> Client] /\ \A d \in Clients : client'[d] = IF d = c THEN e ELSE client[d]
    BY <1>2, <2>2, <2>4
  <2>12. req' \in [Requests -> Request]
    <3>1. Stopped(req[r], cl.field) \in Request
      BY <2>2, <2>3, <2>4, RequestFields
    <3> QED
      BY <1>2, <2>2, <2>3, <3>1
  <2>13. TypeOK'
    BY <2>1, <2>10, <2>11, <2>12 DEF Safe, TypeOK
  <2>14. PoolFrames'
    BY <2>1, <2>7, <2>10 DEF Safe, Coherent, PoolFrames
  <2>15. Expecting'
    <3> SUFFICES ASSUME NEW d \in Clients, client'[d].expects, client'[d].conn # "closed" \/ Reading(d)'
                 PROVE  client'[d].request # 0
      BY DEF Expecting
    <3>1. Reading(d)' => Reading(d)
      BY <2>7, <2>10 DEF Reading
    <3>2. CASE d # c
      BY <2>11, <3>1, <3>2 DEF Safe, Coherent, Expecting
    <3>3. CASE d = c
      <4>1. ~keep /\ \A f \in Frames(rest) : f.pc # "on_read"
        BY <2>5, <2>11, <3>3
      <4>2. ~Reading(d)' /\ client'[d].conn = "closed"
        BY <2>5, <2>7, <2>10, <2>11, <3>3, <4>1 DEF Reading
      <4> QED
        BY <4>2
    <3> QED
      BY <3>2, <3>3
  <2>16. Redirecting'
    <3> SUFFICES ASSUME NEW f \in Frames(stack'), f.pc = "redirected"
                 PROVE  /\ client'[f.c].inRedirect
                        /\ ~client'[f.c].redirectCanceled => client'[f.c].request # 0 /\ ~client'[f.c].expects
      BY DEF Redirecting
    <3>1. f \in Frames(rest) /\ f \in Frames(stack)
      BY <2>7, <2>10
    <3>2. f.c \in Clients
      BY <2>2, <3>1, FramesAreFrames, FrameFields
    <3>3. CASE f.c # c
      BY <2>11, <3>1, <3>2, <3>3 DEF Safe, Coherent, Redirecting
    <3>4. CASE f.c = c
      BY <2>5, <2>11, <3>1, <3>2, <3>4
    <3> QED
      BY <3>3, <3>4
  <2>17. \A d \in Clients : Taken(d)' => Taken(d)
    <3> SUFFICES ASSUME NEW d \in Clients, Taken(d)' PROVE Taken(d)
      OBVIOUS
    <3>1. CASE d = c
      BY <3>1 DEF Taken
    <3>2. CASE d # c
      BY <2>7, <2>10, <2>11, <3>2 DEF Taken, Claimed
    <3> QED
      BY <3>1, <3>2
  <2>18. \A f \in Frames(stack') : f.pc = "putback" => client'[f.c].request = 0
    <3> SUFFICES ASSUME NEW f \in Frames(stack'), f.pc = "putback" PROVE client'[f.c].request = 0
      OBVIOUS
    <3>1. f = p \/ f \in Frames(stack)
      BY <2>7, <2>10
    <3>2. CASE f = p
      BY <2>5, <2>7, <2>11, <3>2
    <3>3. CASE f \in Frames(stack)
      <4>1. f.c \in Clients /\ client[f.c].request = 0
        BY <2>2, <3>3, FramesAreFrames, FrameFields DEF Safe, Coherent, Owned
      <4> QED
        BY <2>5, <2>11, <4>1
    <3> QED
      BY <3>1, <3>2, <3>3
  <2>19. \A d \in Clients : client'[d].pool = client[d].pool /\ (client'[d].inRedirect => client[d].inRedirect)
    BY <2>5, <2>11
  <2>20. Owned'
    <3>1. CASE alive
      BY <2>1, <2>17, <2>18, <2>19, <3>1 DEF Safe, Coherent, Owned
    <3>2. CASE ~alive
      <4>1. ASSUME NEW d \in Clients, Taken(d)', client'[d].pool
            PROVE  \E f \in Frames(stack') : f.pc = "~Pool" /\ \E n \in f.todo : d \in busy'[n]
        <5>1. PICK f \in Frames(stack) : f.pc = "~Pool" /\ \E n \in f.todo : d \in busy[n]
          BY <2>17, <2>19, <3>2, <4>1 DEF Safe, Coherent, Owned
        <5> QED
          BY <2>1, <2>10, <5>1
      <4> QED
        BY <2>1, <2>18, <3>2, <4>1 DEF Owned
    <3> QED
      BY <3>1, <3>2
  <2> QED
    BY <2>10, <2>13, <2>14, <2>15, <2>16, <2>20 DEF Safe, Coherent
<1> QED
  BY <1>1, <1>2, Zenon DEF FinishRequest

\* cancel(): a redirect that is under way is told, and the client expects nothing.
LEMMA CancelSafe ==
  ASSUME Safe, NEW c \in Clients, NEW rest \in Seq(Frame), Stacked(rest), Cancel(c, rest),
         rest # <<>> => Head(rest).pc \in {"callback", "on_read"},
         \A f \in Frames(rest) : f \in Frames(stack) \/ (f.pc = "on_read" /\ Reading(f.c)),
         \A f \in Frames(stack) : f.pc = "~Pool" => f \in Frames(rest)
  PROVE  Safe'
<1> DEFINE cc == client[c].redirectCanceled \/ client[c].inRedirect
           cl == [client[c] EXCEPT !.expects = FALSE, !.redirectCanceled = cc]
<1>1. client[c] \in Client /\ client[c].request # 0
  BY DEF Safe, TypeOK, Cancel
<1>2. cc \in BOOLEAN
  BY <1>1 DEF Client
<1>3. FinishRequest(c, cl, FALSE, FALSE, 0, rest)
  BY <1>1 DEF Cancel, Client
<1> HIDE DEF cc
<1>4. cl \in Client
  BY <1>1, <1>2, ClientEntries
<1>5. /\ cl.request = client[c].request /\ cl.request # 0 /\ cl.pool = client[c].pool /\ ~cl.expects
      /\ cl.inRedirect = client[c].inRedirect /\ cl.redirectCanceled = cc
  BY <1>1 DEF Client
<1> HIDE DEF cl
<1>6. \A f \in Frames(rest) : f.pc = "redirected" /\ f.c = c => cl.inRedirect /\ cl.redirectCanceled
  BY <1>5 DEF Safe, Coherent, Redirecting, cc
<1>7. 0 \in 0 .. MaxRequests /\ FALSE \in BOOLEAN
  BY NoneIsThere
<1>8. cl.inRedirect => client[c].inRedirect
  BY <1>5
<1>9. ~cl.expects \/ (~FALSE /\ \A f \in Frames(rest) : f.pc # "on_read")
  BY <1>5
<1> QED
  BY <1>3, <1>4, <1>5, <1>6, <1>7, <1>8, <1>9, FinishRequestSafe, Zenon

\* Request::cancel() and on_timer().
LEMMA EndRequestSafe ==
  ASSUME Safe, NEW r \in Requests, EndRequest(r, stack), stack = <<>> \/ Top.pc = "callback"
  PROVE  Safe'
<1>1. CASE CancelRequest(r, stack)
  BY <1>1, CancelRequestSafe
<1>2. CASE req[r].client # 0 /\ Cancel(req[r].client, stack)
  <2>1. req[r].client \in 0 .. MaxClients /\ MaxClients \in Nat
    BY BoundsAssumption DEF Safe, TypeOK, Request
  <2>2. req[r].client \in Clients
    BY <1>2, <2>1 DEF Clients
  <2> QED
    BY <1>2, <2>2, CancelSafe DEF Safe, TypeOK, Top
<1> QED
  BY <1>1, <1>2 DEF EndRequest

\* The request's timer fires.
LEMMA OnTimerSafe ==
  ASSUME Safe, NEW r \in Requests, OnTimer(r)
  PROVE  Safe'
  BY EndRequestSafe DEF OnTimer, Loop

\* The user calls Request::cancel().
LEMMA CancelCallSafe ==
  ASSUME Safe, NEW r \in Requests, CancelCall(r)
  PROVE  Safe'
  BY EndRequestSafe DEF CancelCall, UserMay

\* An error of the stream ends the client's request.
LEMMA OnErrorSafe ==
  ASSUME Safe, NEW c \in Clients, OnError(c)
  PROVE  Safe'
<1>1. stack = <<>> /\ Cancel(c, <<>>)
  BY DEF OnError, Loop
<1> QED
  BY <1>1, Empty, CancelSafe

\* A response that cannot be parsed ends the client's request.
LEMMA ParseErrorSafe ==
  ASSUME Safe, ParseError
  PROVE  Safe'
<1>1. Parses({"bad"}) /\ Cancel(Top.c, Tail(stack))
  BY DEF ParseError
<1>2. Tail(stack) = <<>> /\ Frames(stack) = {Top} /\ Top.pc = "on_read" /\ Top.c \in Clients
  BY <1>1, ParsesForRequest
<1> QED
  BY <1>1, <1>2, Empty, CancelSafe

\* on_read() goes on with the rest of its buffer.
LEMMA Onward ==
  ASSUME Safe, NEW ms, Parses(ms)
  PROVE  /\ <<NextTurn>> \o Tail(stack) \in Seq(Frame) /\ Stacked(<<NextTurn>> \o Tail(stack))
         /\ Frames(<<NextTurn>> \o Tail(stack)) = {NextTurn}
         /\ Head(<<NextTurn>> \o Tail(stack)).pc = "on_read"
         /\ Reading(NextTurn.c)
<1> DEFINE g == NextTurn
<1>1. /\ Tail(stack) = <<>> /\ Frames(stack) = {Top} /\ Top.pc = "on_read"
      /\ g \in Frame /\ g.pc = "on_read" /\ g.c = Top.c
  BY ParsesForRequest
<1> HIDE DEF g
<1>2. /\ <<g>> \o <<>> \in Seq(Frame) /\ Stacked(<<g>> \o <<>>) /\ Frames(<<g>> \o <<>>) = {g} \cup {}
      /\ Head(<<g>> \o <<>>) = g
  BY <1>1, Push, Empty DEF Base
<1>3. Reading(g.c)
  BY <1>1 DEF Reading
<1> QED
  BY <1>1, <1>2, <1>3 DEF g

\* analyze_request() finishes a request whose response is complete.
LEMMA CompleteSafe ==
  ASSUME Safe, Complete
  PROVE  Safe'
<1> DEFINE c == Top.c
           cl == [client[c] EXCEPT !.expects = FALSE]
           rest == <<NextTurn>> \o Tail(stack)
           ok == req[client[c].request].transferred
           keep == ok /\ Head(Top.buf) = "ok" /\ client[c].request \notin Closing
<1>1. Parses({"ok", "close"}) /\ FinishRequest(c, cl, keep, ok, Top.from, rest)
  BY DEF Complete
<1>2. /\ Frames(stack) = {Top} /\ Top.pc = "on_read" /\ c \in Clients /\ client[c].request \in Requests
      /\ client[c].request # 0 /\ Top.from \in 0 .. MaxRequests
      /\ NextTurn.pc = "on_read"
  BY <1>1, ParsesForRequest
<1>3. /\ rest \in Seq(Frame) /\ Stacked(rest) /\ Frames(rest) = {NextTurn} /\ Head(rest).pc = "on_read"
      /\ Reading(NextTurn.c)
  BY <1>1, Onward
<1>4. client[c] \in Client /\ ok \in BOOLEAN
  BY <1>2 DEF Safe, TypeOK, Request
<1>5. keep \in BOOLEAN
  BY <1>4
<1>6. cl \in Client
  BY <1>4, ClientEntries
<1>7. /\ cl.request = client[c].request /\ cl.pool = client[c].pool /\ ~cl.expects
      /\ cl.inRedirect = client[c].inRedirect
  BY <1>4 DEF Client
<1> HIDE DEF c, cl, rest, ok, keep
<1> QED
  BY <1>1, <1>2, <1>3, <1>4, <1>5, <1>6, <1>7, FinishRequestSafe

\* A file of a form was sent.
LEMMA OnStreamedSafe ==
  ASSUME Safe, NEW r \in Requests, NEW i \in Files(r), NEW ok \in BOOLEAN, OnStreamed(r, i, ok)
  PROVE  Safe'
<1> DEFINE c == req[r].streamer[i]
           file == FileFrom(r, i + 1)
<1>1. stack = <<>> /\ c \in Clients
  BY DEF OnStreamed, Loop
<1>2. CASE Abort("form: not its request")
  BY <1>2, AbortSafe DEF Faults
<1>3. i \in Nat /\ i + 1 \in Nat /\ file \in Nat
  <2>1. i \in Nat /\ i + 1 \in Nat
    BY FilesNumbered
  <2> QED
    BY <2>1, FilesNumbered
<1>4. req[r] \in Request /\ client \in [Clients -> Client] /\ stack \in Seq(Frame)
  BY DEF Safe, TypeOK
<1>5. ASSUME client[c].request = r, c \in Clients, FinishRequest(c, client[c], FALSE, FALSE, 0, <<>>)
      PROVE  Safe'
  <2>1. client[c] \in Client /\ client[c].request # 0
    BY <1>4, <1>5 DEF Requests
  <2> QED
    BY <1>1, <1>5, <2>1, Empty, NoneIsThere, FinishRequestSafe
<1>6. ASSUME c \in Clients, client' = [client EXCEPT ![c].field = file],
             req' = [req EXCEPT ![r] = Started(Stopped(@, i), file, c)],
             UNCHANGED <<pool, slots, submits, stack, fault>>
      PROVE  Safe'
  <2>1. UNCHANGED <<alive, limit, idleTimer, lists, free, busy, queue, submits, stack, fault>>
    BY <1>6 DEF pool, slots
  <2>2. Started(Stopped(req[r], i), file, c) \in Request
    <3>1. Stopped(req[r], i) \in Request /\ c \in 0 .. MaxClients
      BY <1>3, <1>4, <1>6, RequestFields DEF Clients
    <3> QED
      BY <1>3, <3>1, RequestFields
  <2>3. req' \in [Requests -> Request]
    BY <1>6, <2>2 DEF Safe, TypeOK
  <2> HIDE DEF c, file
  <2>4. client' \in [Clients -> Client]
    BY <1>3, <1>4, <1>6, ClientEntries
  <2>5. TypeOK' /\ Stacked(stack')
    BY <2>1, <2>3, <2>4 DEF Safe, TypeOK
  <2>6. \A d \in Clients : client'[d] = client[d] \/ client'[d] = [client[d] EXCEPT !.field = file]
    BY <1>4, <1>6
  <2>7. \A d \in Clients :
            /\ client'[d].request = client[d].request /\ client'[d].expects = client[d].expects
            /\ client'[d].inRedirect = client[d].inRedirect /\ client'[d].pool = client[d].pool
            /\ client'[d].redirectCanceled = client[d].redirectCanceled
            /\ client'[d].conn = client[d].conn
    <3>1. \A cl \in Client : LET e == [cl EXCEPT !.field = file]
                            IN  /\ e.request = cl.request /\ e.expects = cl.expects
                                /\ e.inRedirect = cl.inRedirect /\ e.pool = cl.pool
                                /\ e.redirectCanceled = cl.redirectCanceled /\ e.conn = cl.conn
      BY DEF Client
    <3>2. \A d \in Clients : client[d] \in Client
      BY <1>4
    <3> TAKE d \in Clients
    <3>3. CASE client'[d] = client[d]
      BY <3>3
    <3>4. CASE client'[d] = [client[d] EXCEPT !.field = file]
      BY <3>1, <3>2, <3>4
    <3> QED
      BY <2>6, <3>3, <3>4
  <2>8. Coherent'
    BY <1>4, <2>1, <2>7, Calm DEF Safe
  <2> QED
    BY <2>5, <2>8 DEF Safe
<1> QED
  BY <1>1, <1>2, <1>5, <1>6, Zenon DEF OnStreamed

\* A step that claims no client anew leaves the busy ones to their lists.
LEMMA StillOwned ==
  ASSUME Owned, UNCHANGED <<alive, free, busy>>,
         \A c \in Clients : /\ Taken(c)' => Taken(c)
                            /\ client'[c].pool => client[c].pool
                            /\ client'[c].inRedirect => client[c].inRedirect \/ Taken(c),
         \A f \in Frames(stack) : f.pc = "~Pool" => f \in Frames(stack') \/ f.todo = {},
         \A f \in Frames(stack') : f.pc = "putback" => client'[f.c].request = 0
  PROVE  Owned'
<1>1. CASE alive
  BY <1>1 DEF Owned
<1>2. CASE ~alive
  <2>1. ASSUME NEW c \in Clients, Taken(c)', client'[c].pool
        PROVE  \E f \in Frames(stack') : f.pc = "~Pool" /\ \E n \in f.todo : c \in busy'[n]
    <3>1. PICK f \in Frames(stack) : f.pc = "~Pool" /\ \E n \in f.todo : c \in busy[n]
      BY <1>2, <2>1 DEF Owned
    <3> QED
      BY <3>1
  <2> QED
    BY <1>2, <2>1 DEF Owned
<1> QED
  BY <1>1, <1>2

\* An exception out of redirect_event is caught by analyze_request(), which cancels.
LEMMA ThrowInRedirectSafe ==
  ASSUME Safe, ThrowInRedirect
  PROVE  Safe'
<1> DEFINE c == stack[2].c
           cl == [client[c] EXCEPT !.inRedirect = FALSE, !.redirectCanceled = FALSE, !.expects = FALSE]
<1>1. c \in Clients /\ \A f \in Frames(stack) : f.pc # "~Pool"
  BY RedirectAlone DEF ThrowInRedirect
<1>2. client \in [Clients -> Client] /\ client[c] \in Client
  BY <1>1 DEF Safe, TypeOK
<1>3. cl \in Client
  BY <1>2, ClientEntries
<1>4. /\ cl.request = client[c].request /\ cl.pool = client[c].pool /\ ~cl.expects
      /\ ~cl.inRedirect /\ ~cl.redirectCanceled /\ cl.conn = client[c].conn
  BY <1>2 DEF Client
<1>5. ASSUME client' = [client EXCEPT ![c] = cl], stack' = <<>>, UNCHANGED <<pool, slots, req, submits, fault>>
      PROVE  Safe'
  <2> HIDE DEF c, cl
  <2>1. UNCHANGED <<alive, limit, idleTimer, lists, free, busy, queue, req, submits, fault>>
    BY <1>5 DEF pool, slots
  <2>2. client' \in [Clients -> Client] /\ \A d \in Clients : client'[d] = IF d = c THEN cl ELSE client[d]
    BY <1>2, <1>3, <1>5
  <2>3. stack' \in Seq(Frame) /\ Stacked(stack') /\ Frames(stack') = {}
    BY <1>5, Empty
  <2>4. TypeOK'
    BY <2>1, <2>2, <2>3 DEF Safe, TypeOK
  <2>5. PoolFrames' /\ Redirecting'
    BY <2>3 DEF PoolFrames, Redirecting
  <2>6. Expecting'
    BY <1>4, <2>2, <2>3 DEF Safe, Coherent, Expecting, Reading
  <2>7. Owned'
    <3>1. \A d \in Clients : Taken(d)' => Taken(d)
      BY <1>4, <2>2, <2>3 DEF Taken, Claimed
    <3>2. \A d \in Clients : client'[d].pool = client[d].pool /\ (client'[d].inRedirect => client[d].inRedirect)
      BY <1>4, <2>2
    <3> QED
      BY <1>1, <2>1, <2>3, <3>1, <3>2, StillOwned DEF Safe, Coherent
  <2> QED
    BY <2>3, <2>4, <2>5, <2>6, <2>7 DEF Safe, Coherent
<1>6. ASSUME cl.request # 0, FinishRequest(c, cl, FALSE, FALSE, 0, <<>>)
      PROVE  Safe'
  <2> HIDE DEF c, cl
  <2>1. cl.inRedirect => client[c].inRedirect
    BY <1>4
  <2>2. Frames(<<>>) = {} /\ <<>> \in Seq(Frame) /\ Stacked(<<>>)
    BY Empty
  <2> DEFINE rest == <<>>
  <2>3. /\ rest # <<>> => Head(rest).pc \in {"callback", "on_read"}
        /\ \A f \in Frames(rest) : f \in Frames(stack) \/ (f.pc = "on_read" /\ Reading(f.c))
        /\ \A f \in Frames(rest) : f.pc = "redirected" /\ f.c = c => cl.inRedirect /\ cl.redirectCanceled
        /\ \A f \in Frames(stack) : f.pc = "~Pool" => f \in Frames(rest)
        /\ ~cl.expects \/ (~FALSE /\ \A f \in Frames(rest) : f.pc # "on_read")
    BY <1>1, <1>4, <2>2
  <2>4. FinishRequest(c, cl, FALSE, FALSE, 0, rest) /\ rest \in Seq(Frame) /\ Stacked(rest)
    BY <1>6, <2>2
  <2>5. FALSE \in BOOLEAN /\ 0 \in 0 .. MaxRequests
    BY NoneIsThere
  <2>6. c \in Clients /\ cl.request = client[c].request /\ cl.request # 0 /\ cl.pool = client[c].pool
    BY <1>1, <1>4, <1>6
  <2> HIDE DEF rest
  <2> QED
    BY <1>3, <2>1, <2>3, <2>4, <2>5, <2>6, FinishRequestSafe, Zenon
<1> QED
  BY <1>5, <1>6, Zenon DEF ThrowInRedirect

\* on_read() calls analyze_request(), and that redirect_event.
LEMMA RedirectCalls ==
  ASSUME NEW f \in Frame, f.pc = "callback", NEW g \in Frame, g.pc = "redirected",
         NEW h \in Frame, h.pc = "on_read"
  PROVE  /\ <<f, g, h>> \o <<>> \in Seq(Frame) /\ Stacked(<<f, g, h>> \o <<>>)
         /\ Frames(<<f, g, h>> \o <<>>) = {f, g, h}
<1> DEFINE s == <<h>> \o <<>>
           t == <<g>> \o s
<1>1. s \in Seq(Frame) /\ Stacked(s) /\ Frames(s) = {h} \cup {} /\ s # <<>> /\ Head(s) = h
  BY Push, Empty DEF Base
<1> HIDE DEF s
<1>2. t \in Seq(Frame) /\ Stacked(t) /\ Frames(t) = {g} \cup Frames(s) /\ t # <<>> /\ Head(t) = g
  <2>1. Above(g, Head(s)) /\ g.pc # "~Pool"
    BY <1>1 DEF Above
  <2> QED
    BY <1>1, <2>1, Push
<1> HIDE DEF t
<1>3. <<f>> \o t \in Seq(Frame) /\ Stacked(<<f>> \o t) /\ Frames(<<f>> \o t) = {f} \cup Frames(t)
  <2>1. Above(f, Head(t)) /\ f.pc # "~Pool"
    BY <1>2 DEF Above
  <2> QED
    BY <1>2, <2>1, Push
<1>4. <<f, g, h>> \o <<>> = <<f>> \o t
  BY PushThree, Empty DEF t, s
<1> QED
  BY <1>1, <1>2, <1>3, <1>4

\* A redirect that is not one too many is counted.
LEMMA OneRedirectMore ==
  ASSUME RedirectLimit \in Nat, NEW x \in 0 .. RedirectLimit + 1, NEW count, count = x + 1,
         ~(count > RedirectLimit)
  PROVE  count \in 0 .. RedirectLimit + 1
<1>1. x \in Nat /\ x + 1 \in Nat
  OBVIOUS
<1> QED
  BY <1>1

\* analyze_request() takes up a redirect and calls redirect_event.
LEMMA RedirectSafe ==
  ASSUME Safe, NEW host \in Hosts \cup {""}, Redirect(host)
  PROVE  Safe'
<1> DEFINE c == Top.c
           r == client[c].request
           count == IF RedirectLimit = 0 THEN 0 ELSE req[r].redirects + 1
           f == Callback("redirect", r, TRUE, Top.from)
           g == [pc |-> "redirected", c |-> c, close |-> Head(Top.buf) # "redirect", ctx |-> req[r].netloc.ctx]
           h == NextTurn
<1>1. Parses({"redirect", "redirect_close"})
  BY DEF Redirect
<1>2. /\ Tail(stack) = <<>> /\ Frames(stack) = {Top} /\ Top.pc = "on_read" /\ c \in Clients
      /\ r \in Requests /\ r # 0 /\ Top.from \in 0 .. MaxRequests
      /\ h \in Frame /\ h.pc = "on_read" /\ h.c = c
  BY <1>1, ParsesForRequest
<1>3. CASE Cancel(c, <<NextTurn>> \o Tail(stack))
  <2> DEFINE rest == <<NextTurn>> \o Tail(stack)
  <2>1. /\ rest \in Seq(Frame) /\ Stacked(rest) /\ Frames(rest) = {NextTurn} /\ Head(rest).pc = "on_read"
        /\ Reading(NextTurn.c)
    BY <1>1, Onward
  <2> HIDE DEF rest, c, h
  <2>2. Cancel(c, rest)
    BY <1>3 DEF rest
  <2> QED
    BY <1>2, <2>1, <2>2, CancelSafe DEF h
<1>4. ASSUME ~Exhausted(count), host # "",
             client' = [client EXCEPT ![c].expects = FALSE, ![c].inRedirect = TRUE],
             req' = [req EXCEPT ![r].redirects = count, ![r].netloc = [host |-> host, ctx |-> "default"]],
             Goto(<<f, g, h>>), UNCHANGED <<pool, slots, submits, fault>>
      PROVE  Safe'
  <2>1. UNCHANGED <<alive, limit, idleTimer, lists, free, busy, queue, submits, fault>>
    BY <1>4 DEF pool, slots
  <2>2. /\ client \in [Clients -> Client] /\ req \in [Requests -> Request] /\ stack \in Seq(Frame)
        /\ client[c] \in Client /\ req[r] \in Request
    BY <1>2 DEF Safe, TypeOK
  <2> DEFINE cl == [client[c] EXCEPT !.expects = FALSE, !.inRedirect = TRUE]
  <2>3. cl \in Client
    BY <2>2, ClientEntries
  <2>4. /\ cl.request = r /\ cl.pool = client[c].pool /\ ~cl.expects /\ cl.inRedirect
    BY <2>2 DEF Client
  <2>5. client' = [client EXCEPT ![c] = cl]
    BY <1>2, <1>4, <2>2
  <2>6. f \in Frame /\ g \in Frame
    <3>1. f \in Frame
      BY <1>2, MadeFrames DEF Events
    <3>2. req[r].netloc.ctx \in {"default", "own"}
      BY <2>2 DEF Request, NetLocs
    <3>3. (Head(Top.buf) # "redirect") \in BOOLEAN
      OBVIOUS
    <3> QED
      BY <1>2, <3>1, <3>2, <3>3, MadeFrames
  <2>7. f.pc = "callback" /\ g.pc = "redirected" /\ g.c = c
    BY DEF Callback
  <2>8. req' \in [Requests -> Request]
    <3>1. count \in 0 .. RedirectLimit + 1
      <4> DEFINE x == req[r].redirects
      <4>1. x \in 0 .. RedirectLimit + 1 /\ RedirectLimit \in Nat
        BY <2>2, BoundsAssumption DEF Request
      <4>2. RedirectLimit # 0 /\ ~(count > RedirectLimit)
        BY <1>4 DEF Exhausted
      <4>3. count = x + 1
        BY <4>2
      <4> HIDE DEF count, x
      <4> QED
        BY <4>1, <4>2, <4>3, OneRedirectMore, Zenon
    <3>2. [host |-> host, ctx |-> "default"] \in NetLocs
      BY <1>4 DEF NetLocs
    <3> DEFINE loc == [host |-> host, ctx |-> "default"]
               q == [req[r] EXCEPT !.redirects = count, !.netloc = loc]
    <3>3. req' = [req EXCEPT ![r] = q]
      BY <1>2, <1>4, <2>2
    <3>4. q \in Request
      <4> HIDE DEF count, loc
      <4> QED
        BY <2>2, <3>1, <3>2 DEF Request, loc
    <3> HIDE DEF q
    <3> QED
      BY <1>2, <2>2, <3>3, <3>4
  <2> HIDE DEF f, g, h, cl, r, c, count
  <2>13. stack' \in Seq(Frame) /\ Stacked(stack') /\ Frames(stack') = {f, g, h}
    <3>1. stack' = <<f, g, h>> \o <<>>
      BY <1>2, <1>4 DEF Goto
    <3>2. h \in Frame /\ h.pc = "on_read"
      BY <1>2
    <3> QED
      BY <2>6, <2>7, <3>1, <3>2, RedirectCalls
  <2>14. client' \in [Clients -> Client] /\ \A d \in Clients : client'[d] = IF d = c THEN cl ELSE client[d]
    BY <1>2, <2>2, <2>3, <2>5
  <2>15. TypeOK'
    BY <2>1, <2>8, <2>13, <2>14 DEF Safe, TypeOK
  <2>16. PoolFrames'
    BY <1>2, <2>7, <2>13 DEF PoolFrames
  <2>17. Expecting'
    BY <1>2, <2>4, <2>7, <2>13, <2>14 DEF Safe, Coherent, Expecting, Reading
  <2>18. Redirecting'
    BY <1>2, <2>4, <2>7, <2>13, <2>14 DEF Redirecting
  <2>19. Owned'
    <3>1. \A d \in Clients : client'[d].request = client[d].request /\ client'[d].pool = client[d].pool
      BY <2>4, <2>14 DEF r
    <3>2. \A d \in Clients : Taken(d)' => Taken(d)
      BY <1>2, <2>7, <2>13, <3>1 DEF Taken, Claimed
    <3>3. \A d \in Clients : client'[d].inRedirect => client[d].inRedirect \/ Taken(d)
      BY <1>2, <2>14 DEF Taken, r
    <3>4. \A k \in Frames(stack) : k.pc # "~Pool"
      BY <1>2
    <3>5. \A k \in Frames(stack') : k.pc # "putback"
      BY <1>2, <2>7, <2>13
    <3> QED
      BY <2>1, <3>1, <3>2, <3>3, <3>4, <3>5, StillOwned DEF Safe, Coherent
  <2> QED
    BY <2>13, <2>15, <2>16, <2>17, <2>18, <2>19 DEF Safe, Coherent
<1> QED
  BY <1>3, <1>4, Zenon DEF Redirect

\* analyze_request() is called by the loop's on_read().
LEMMA RedirectedAlone ==
  ASSUME Safe, At("redirected")
  PROVE  /\ Top.c \in Clients /\ Top.close \in BOOLEAN /\ Top \in Frames(stack)
         /\ Tail(stack) # <<>> /\ Head(Tail(stack)).pc = "on_read"
         /\ \A f \in Frames(Tail(stack)) : f.pc = "on_read" /\ f \in Frames(stack)
         /\ \A f \in Frames(stack) : f.pc \in {"redirected", "on_read"}
<1> DEFINE t == Tail(stack)
<1>1. /\ Top \in Frame /\ Top.pc = "redirected" /\ Top \in Frames(stack)
      /\ Frames(stack) = {Top} \cup Frames(t) /\ t \in Seq(Frame) /\ Stacked(t)
      /\ IF t = <<>> THEN Base(Top) ELSE Above(Top, Head(t))
  BY OnTop
<1> HIDE DEF t
<1>2. t # <<>> /\ Head(t).pc = "on_read"
  BY <1>1 DEF Base, Above
<1>3. /\ Frames(t) = {Head(t)} \cup Frames(Tail(t))
      /\ IF Tail(t) = <<>> THEN Base(Head(t)) ELSE Above(Head(t), Head(Tail(t)))
  BY <1>1, <1>2, Pop
<1>4. Tail(t) = <<>>
  BY <1>2, <1>3 DEF Above
<1>5. Frames(t) = {Head(t)}
  BY <1>3, <1>4, Empty
<1> QED
  BY <1>1, <1>2, <1>5, FrameFields DEF t

\* analyze_request() calls the pool, or its own client again.
LEMMA MovesOn ==
  ASSUME NEW t \in Seq(Frame), Stacked(t), t # <<>>, Head(t).pc = "on_read",
         NEW f \in Frame, f.pc = "putback", NEW g \in Frame, g.pc = "weaken",
         NEW h \in Frame, h.pc = "pool_request"
  PROVE  /\ <<f, g, h>> \o t \in Seq(Frame) /\ Stacked(<<f, g, h>> \o t)
         /\ Frames(<<f, g, h>> \o t) = {f, g, h} \cup Frames(t)
<1> DEFINE u == <<h>> \o t
           v == <<g>> \o u
<1>1. u \in Seq(Frame) /\ Stacked(u) /\ Frames(u) = {h} \cup Frames(t) /\ u # <<>> /\ Head(u) = h
  <2>1. Above(h, Head(t)) /\ h.pc # "~Pool"
    BY DEF Above
  <2> QED
    BY <2>1, Push
<1> HIDE DEF u
<1>2. v \in Seq(Frame) /\ Stacked(v) /\ Frames(v) = {g} \cup Frames(u) /\ v # <<>> /\ Head(v) = g
  <2>1. Above(g, Head(u)) /\ g.pc # "~Pool"
    BY <1>1 DEF Above
  <2> QED
    BY <1>1, <2>1, Push
<1> HIDE DEF v
<1>3. <<f>> \o v \in Seq(Frame) /\ Stacked(<<f>> \o v) /\ Frames(<<f>> \o v) = {f} \cup Frames(v)
  <2>1. Above(f, Head(v)) /\ f.pc # "~Pool"
    BY <1>2 DEF Above
  <2> QED
    BY <1>2, <2>1, Push
<1>4. <<f, g, h>> \o t = <<f>> \o v
  <2>1. <<f, g, h>> \o t = <<f>> \o (<<g>> \o (<<h>> \o t))
    BY PushThree, ZenonT(30)
  <2> QED
    BY <2>1 DEF u, v
<1> QED
  BY <1>1, <1>2, <1>3, <1>4

\* The rest of analyze_request(), given what it leaves of client c and the stack.
LEMMA RedirectedStep ==
  ASSUME Safe, At("redirected"), NEW cl \in Client, NEW c \in Clients, c = Top.c,
         client' = [client EXCEPT ![c] = cl], req' \in [Requests -> Request],
         UNCHANGED <<alive, limit, idleTimer, lists, free, busy, queue, submits, fault>>,
         stack' \in Seq(Frame), Stacked(stack'),
         cl.pool = client[c].pool, ~cl.inRedirect, cl.expects = client[c].expects,
         \A f \in Frames(stack') : \/ f \in Frames(Tail(stack))
                                   \/ f.pc \in {"putback", "request"} /\ f.c = c /\ cl.request = 0
                                   \/ f.pc = "weaken"
                                   \/ f.pc = "pool_request" /\ client[c].pool,
         \/ cl.request = client[c].request /\ cl.conn = client[c].conn /\ Frames(stack') = Frames(Tail(stack))
         \/ ~client[c].redirectCanceled /\ cl.request = 0
  PROVE  Safe'
<1>1. /\ Top \in Frames(stack) /\ Top.pc = "redirected"
      /\ \A f \in Frames(Tail(stack)) : f.pc = "on_read" /\ f \in Frames(stack)
      /\ \A f \in Frames(stack) : f.pc \in {"redirected", "on_read"}
  BY RedirectedAlone DEF At
<1>2. client \in [Clients -> Client]
  BY DEF Safe, TypeOK
<1>3. client' \in [Clients -> Client] /\ \A d \in Clients : client'[d] = IF d = c THEN cl ELSE client[d]
  BY <1>2
<1>4. TypeOK'
  BY <1>3 DEF Safe, TypeOK
<1>5. ~client[c].redirectCanceled => client[c].request # 0 /\ ~client[c].expects
  BY <1>1 DEF Safe, Coherent, Redirecting
<1>6. Expecting'
  <2> SUFFICES ASSUME NEW d \in Clients, client'[d].expects, client'[d].conn # "closed" \/ Reading(d)'
               PROVE  client'[d].request # 0
    BY DEF Expecting
  <2>1. Reading(d)' => Reading(d)
    BY <1>1 DEF Reading
  <2>2. CASE d # c
    BY <1>3, <2>1, <2>2 DEF Safe, Coherent, Expecting
  <2>3. CASE d = c
    BY <1>3, <1>5, <2>1, <2>3 DEF Safe, Coherent, Expecting
  <2> QED
    BY <2>2, <2>3
<1>7. Redirecting'
  BY <1>1 DEF Redirecting
<1>8. \A d \in Clients : Taken(d)' => Taken(d)
  <2> SUFFICES ASSUME NEW d \in Clients, Taken(d)' PROVE Taken(d)
    OBVIOUS
  <2>1. CASE d # c
    BY <1>1, <1>3, <2>1 DEF Taken, Claimed
  <2>2. CASE d = c /\ cl.request = client[c].request /\ Frames(stack') = Frames(Tail(stack))
    BY <1>1, <1>3, <2>2 DEF Taken, Claimed
  <2>3. CASE d = c /\ ~client[c].redirectCanceled
    BY <1>5, <2>3 DEF Taken
  <2> QED
    BY <2>1, <2>2, <2>3
<1>9. Owned'
  <2>1. \A d \in Clients : /\ client'[d].pool => client[d].pool
                           /\ client'[d].inRedirect => client[d].inRedirect \/ Taken(d)
    BY <1>3
  <2>2. \A f \in Frames(stack') : f.pc = "putback" => client'[f.c].request = 0
    BY <1>1, <1>3
  <2>3. \A f \in Frames(stack) : f.pc # "~Pool"
    BY <1>1
  <2> QED
    BY <1>8, <2>1, <2>2, <2>3, StillOwned DEF Safe, Coherent
<1>10. PoolFrames'
  <2>1. ASSUME NEW f \in Frames(stack'), f.pc = "pool_request" PROVE alive
    <3>1. client[c].pool /\ ~client[c].redirectCanceled
      <4>1. f \notin Frames(Tail(stack))
        BY <1>1, <2>1
      <4> QED
        BY <2>1, <4>1
    <3>2. Taken(c)
      BY <1>5, <3>1 DEF Taken
    <3>3. \A g \in Frames(stack) : g.pc # "~Pool"
      BY <1>1
    <3> QED
      BY <3>1, <3>2, <3>3 DEF Safe, Coherent, Owned
  <2>2. \A f \in Frames(stack') : f.pc # "~Pool"
    BY <1>1
  <2> QED
    BY <2>1, <2>2 DEF PoolFrames
<1> QED
  BY <1>4, <1>6, <1>7, <1>9, <1>10 DEF Safe, Coherent

\* analyze_request() after redirect_event: cancelled, sent again over this client, or through the pool.
LEMMA RedirectedSafe ==
  ASSUME Safe, Redirected
  PROVE  Safe'
<1> DEFINE c == Top.c
           r == client[c].request
           cl == [client[c] EXCEPT !.inRedirect = FALSE, !.redirectCanceled = FALSE]
           off == [cl EXCEPT !.request = 0]
           new == IF Top.close THEN Reset(off) ELSE off
           p == AtClient("putback", c)
           w == AtClient("weaken", c)
           q == PoolRequestFrame(r)
           k == ClientRequestFrame(c, r)
<1>1. At("redirected") /\ UNCHANGED <<alive, limit, idleTimer, lists, free, busy, queue, submits, fault>>
  BY DEF Redirected, pool, slots
<1>2. /\ c \in Clients /\ Top.close \in BOOLEAN /\ Top \in Frames(stack)
      /\ Tail(stack) # <<>> /\ Head(Tail(stack)).pc = "on_read" /\ Top.pc = "redirected"
  BY <1>1, RedirectedAlone DEF At
<1>3. Tail(stack) \in Seq(Frame) /\ Stacked(Tail(stack)) /\ stack \in Seq(Frame)
  BY <1>1, OnTop
<1>4. client[c] \in Client /\ req \in [Requests -> Request]
  BY <1>2 DEF Safe, TypeOK
<1>5. cl \in Client
  BY <1>4, ClientEntries
<1>6. /\ cl.request = r /\ cl.pool = client[c].pool /\ ~cl.inRedirect
      /\ cl.expects = client[c].expects /\ cl.conn = client[c].conn
  BY <1>4 DEF Client
<1>7. ASSUME client' = [client EXCEPT ![c] = cl], Goto(<<>>), UNCHANGED req
      PROVE  Safe'
  <2>1. stack' = Tail(stack)
    BY <1>1, <1>7, Returns
  <2> HIDE DEF c, cl
  <2> QED
    BY <1>1, <1>2, <1>3, <1>4, <1>5, <1>6, <1>7, <2>1, RedirectedStep DEF c, r
<1>8. ASSUME ~client[c].redirectCanceled, client' = [client EXCEPT ![c] = new],
             req' = [req EXCEPT ![r] = cleanup_after_redirect(@)],
             \/ Goto(<<p, w, q>>) /\ cl.pool
             \/ Goto(<<k>>)
      PROVE  Safe'
  <2>1. r # 0
    BY <1>2, <1>8 DEF Safe, Coherent, Redirecting
  <2>2. r \in Requests
    <3>1. r \in 0 .. MaxRequests /\ MaxRequests \in Nat
      BY <1>4, BoundsAssumption DEF Client
    <3> QED
      BY <2>1, <3>1 DEF Requests
  <2>3. req' \in [Requests -> Request]
    BY <1>4, <1>8, <2>2, RequestFields
  <2> HIDE DEF cl
  <2>4. off \in Client
    BY <1>5, NoneIsThere, ClientEntries
  <2>5. off.request = 0 /\ off.pool = cl.pool /\ off.inRedirect = cl.inRedirect /\ off.expects = cl.expects
    BY <1>5 DEF Client
  <2> HIDE DEF off
  <2>6. new \in Client
    BY <2>4, ClientFields
  <2>7. new.request = 0 /\ new.pool = client[c].pool /\ ~new.inRedirect /\ new.expects = client[c].expects
    BY <1>6, <2>4, <2>5 DEF Reset, Client
  <2>8. p \in Frame /\ w \in Frame /\ q \in Frame /\ k \in Frame
    BY <1>2, <2>2, MadeFrames
  <2>9. /\ p.pc = "putback" /\ p.c = c /\ w.pc = "weaken" /\ q.pc = "pool_request"
        /\ k.pc = "request" /\ k.c = c
    BY DEF AtClient, PoolRequestFrame, ClientRequestFrame
  <2> HIDE DEF p, w, q, k, new
  <2>10. /\ stack' \in Seq(Frame) /\ Stacked(stack')
         /\ \/ Frames(stack') = {p, w, q} \cup Frames(Tail(stack)) /\ client[c].pool
            \/ Frames(stack') = {k} \cup Frames(Tail(stack))
    <3>1. CASE Goto(<<p, w, q>>) /\ cl.pool
      <4>1. stack' = <<p, w, q>> \o Tail(stack)
        BY <3>1 DEF Goto
      <4> QED
        <5> DEFINE t == Tail(stack)
        <5>1. t \in Seq(Frame) /\ Stacked(t) /\ t # <<>> /\ Head(t).pc = "on_read" /\ client[c].pool
          BY <1>2, <1>3, <1>6, <3>1
        <5>2. stack' = <<p, w, q>> \o t
          BY <4>1
        <5> HIDE DEF t, c, r
        <5>3. p.pc = "putback" /\ w.pc = "weaken" /\ q.pc = "pool_request"
          BY <2>9
        <5>4. /\ stack' \in Seq(Frame) /\ Stacked(stack')
              /\ Frames(stack') = {p, w, q} \cup Frames(t)
          BY <2>8, <5>1, <5>2, <5>3, MovesOn
        <5> QED
          BY <5>1, <5>4 DEF t
    <3>2. CASE Goto(<<k>>)
      <4>1. Above(k, Head(Tail(stack))) /\ k.pc # "~Pool"
        BY <1>2, <2>9 DEF Above
      <4> QED
        BY <1>1, <1>2, <2>8, <3>2, <4>1, GoesOn
    <3> QED
      BY <1>8, <3>1, <3>2
  <2>11. \A f \in Frames(stack') : \/ f \in Frames(Tail(stack))
                                   \/ f.pc \in {"putback", "request"} /\ f.c = c /\ new.request = 0
                                   \/ f.pc = "weaken"
                                   \/ f.pc = "pool_request" /\ client[c].pool
    BY <2>7, <2>9, <2>10
  <2>12. ~client[c].redirectCanceled /\ new.request = 0 /\ client' = [client EXCEPT ![c] = new]
         /\ c \in Clients /\ c = Top.c
    BY <1>2, <1>8, <2>7
  <2> HIDE DEF c, r
  <2> QED
    BY <1>1, <2>3, <2>6, <2>7, <2>10, <2>11, <2>12, RedirectedStep
<1> QED
  BY <1>7, <1>8, Zenon DEF Redirected

\* Client c is given request r, and Client::request() returns.
LEMMA Given ==
  ASSUME Safe, At("request"), NEW c \in Clients, c = Top.c, NEW r \in Requests, NEW cl \in Client,
         client' = [client EXCEPT ![c] = cl], req' \in [Requests -> Request], fault' \in Faults,
         UNCHANGED <<alive, limit, idleTimer, lists, free, busy, queue, submits>>, Goto(<<>>),
         client[c].request = 0, cl.request # 0, cl.pool = client[c].pool,
         cl.inRedirect = client[c].inRedirect, cl.redirectCanceled = client[c].redirectCanceled
  PROVE  Safe'
<1>1. stack' = Tail(stack) /\ stack' \in Seq(Frame) /\ Stacked(stack')
  BY Returns
<1>2. /\ stack \in Seq(Frame) /\ Top.pc = "request" /\ Frames(stack) = {Top} \cup Frames(stack')
      /\ \A g \in Frames(stack') : g.pc \notin {"putback", "request"}
  BY <1>1, OnTop
<1>3. client \in [Clients -> Client]
  BY DEF Safe, TypeOK
<1>4. client' \in [Clients -> Client] /\ \A d \in Clients : client'[d] = IF d = c THEN cl ELSE client[d]
  BY <1>3
<1>5. TypeOK'
  BY <1>1, <1>4 DEF Safe, TypeOK
<1>6. PoolFrames'
  BY <1>2 DEF Safe, Coherent, PoolFrames
<1>7. Expecting'
  <2> SUFFICES ASSUME NEW d \in Clients, client'[d].expects, client'[d].conn # "closed" \/ Reading(d)'
               PROVE  client'[d].request # 0
    BY DEF Expecting
  <2>1. CASE d = c
    BY <1>4, <2>1
  <2>2. CASE d # c
    <3>1. Reading(d)' => Reading(d)
      BY <1>2 DEF Reading
    <3> QED
      BY <1>4, <2>2, <3>1 DEF Safe, Coherent, Expecting
  <2> QED
    BY <2>1, <2>2
<1>8. Redirecting'
  <2> SUFFICES ASSUME NEW f \in Frames(stack'), f.pc = "redirected"
               PROVE  /\ client'[f.c].inRedirect
                      /\ ~client'[f.c].redirectCanceled => client'[f.c].request # 0 /\ ~client'[f.c].expects
    BY DEF Redirecting
  <2>1. f \in Frames(stack) /\ f.c \in Clients
    BY <1>2, FramesAreFrames, FrameFields
  <2> QED
    BY <1>4, <2>1 DEF Safe, Coherent, Redirecting
<1>9. \A d \in Clients : Taken(d)' => Taken(d)
  <2> SUFFICES ASSUME NEW d \in Clients, Taken(d)' PROVE Taken(d)
    OBVIOUS
  <2>1. CASE d = c
    BY <1>2, <2>1 DEF Taken, Claimed
  <2>2. CASE d # c
    BY <1>2, <1>4, <2>2 DEF Taken, Claimed
  <2> QED
    BY <2>1, <2>2
<1>10. Owned'
  <2>1. \A d \in Clients : /\ client'[d].pool => client[d].pool
                           /\ client'[d].inRedirect => client[d].inRedirect \/ Taken(d)
    BY <1>4
  <2>2. \A f \in Frames(stack') : f.pc = "putback" => client'[f.c].request = 0
    BY <1>2
  <2>3. \A f \in Frames(stack) : f.pc = "~Pool" => f \in Frames(stack')
    BY <1>2
  <2> QED
    BY <1>9, <2>1, <2>2, <2>3, StillOwned DEF Safe, Coherent
<1> QED
  BY <1>1, <1>5, <1>6, <1>7, <1>8, <1>10 DEF Safe, Coherent

\* Client::request().
LEMMA ClientRequestSafe ==
  ASSUME Safe, ClientRequest
  PROVE  Safe'
<1> DEFINE c == Top.c
           r == Top.r
           n == req[r].netloc
           again == client[c].conn = "connected" /\ client[c].netloc = n /\ r \notin Closing
           file == FileFrom(r, 1)
           field == IF Form[r] = <<>> THEN client[c].field ELSE file
           conn == IF again THEN client[c].conn ELSE "connecting"
           owed == Append(IF again THEN client[c].owed ELSE <<>>, r)
           cl == [client[c] EXCEPT !.netloc = n, !.conn = conn, !.weak = FALSE, !.request = r,
                                   !.expects = TRUE, !.field = field, !.owed = owed]
           given == [req[r] EXCEPT !.client = c]
           q == Timed(IF r \in Chunked THEN given ELSE Started(given, file, c), r)
<1>1. At("request") /\ UNCHANGED <<alive, limit, idleTimer, lists, free, busy, queue, submits>>
  BY Zenon DEF ClientRequest, pool, slots
<1>2. /\ stack \in Seq(Frame) /\ stack # <<>> /\ Top \in Frame /\ Top.pc = "request"
      /\ Frames(stack) = {Top} \cup Frames(Tail(stack)) /\ c \in Clients /\ r \in Requests
  BY <1>1, OnTop, FrameFields
<1>3. CASE stack' = Unwound /\ UNCHANGED <<client, req, fault>>
  <2>1. /\ stack' \in Seq(Frame) /\ Stacked(stack') /\ Frames(stack') \subseteq Frames(stack)
        /\ \A f \in Frames(stack) : f.pc = "~Pool" => f \in Frames(stack')
    BY <1>2, <1>3, Caught DEF Safe
  <2>2. TypeOK'
    BY <1>1, <1>3, <2>1 DEF Safe, TypeOK
  <2>3. Coherent'
    BY <1>1, <1>2, <1>3, <2>1, Calm DEF Safe
  <2> QED
    BY <2>1, <2>2, <2>3 DEF Safe
<1>4. ASSUME client[c].request = 0, client' = [client EXCEPT ![c] = cl], req' = [req EXCEPT ![r] = q],
             fault' = (IF file \in req[r].inputs \cup {0} THEN fault ELSE "form: no input"), Goto(<<>>)
      PROVE  Safe'
  <2>1. client[c] \in Client /\ req \in [Requests -> Request] /\ req[r] \in Request /\ fault \in Faults
    BY <1>2 DEF Safe, TypeOK
  <2>2. n \in NetLocs
    BY <2>1 DEF Request
  <2>3. file \in Nat /\ field \in Nat
    BY <1>2, <2>1, FilesNumbered DEF Client
  <2>4. conn \in {"closed", "connecting", "connected"}
    BY <2>1 DEF Client
  <2>5. owed \in Seq(Requests)
    <3>1. client[c].owed \in Seq(Requests)
      BY <2>1 DEF Client
    <3> QED
      BY <1>2, <3>1
  <2>6. r \in 0 .. MaxRequests /\ r # 0 /\ c \in 0 .. MaxClients
    BY <1>2 DEF Requests, Clients
  <2>7. q \in Request
    <3>1. given \in Request
      BY <2>1, <2>6, RequestFields
    <3> HIDE DEF given
    <3>2. Started(given, file, c) \in Request
      BY <2>3, <2>6, <3>1, RequestFields
    <3> QED
      BY <3>1, <3>2, RequestFields
  <2>8. req' \in [Requests -> Request]
    <3> HIDE DEF q
    <3> QED
      BY <1>2, <1>4, <2>1, <2>7
  <2>9. fault' \in Faults
    BY <1>4, <2>1 DEF Faults
  <2> DEFINE old == client[c]
             a == [old EXCEPT !.netloc = n, !.conn = conn]
             b == [a EXCEPT !.weak = FALSE, !.request = r]
             d == [b EXCEPT !.expects = TRUE, !.field = field]
             e == [d EXCEPT !.owed = owed]
  <2> HIDE DEF n, conn, field, owed, r, old
  <2>10. cl = e
    BY DEF old
  <2>11. a \in Client /\ a.pool = old.pool /\ a.inRedirect = old.inRedirect /\ a.redirectCanceled = old.redirectCanceled
    <3>1. a \in Client
      BY <2>1, <2>2, <2>4, ClientEntries DEF old
    <3> QED
      BY <2>1, <3>1 DEF Client, old
  <2> HIDE DEF a
  <2>12. b \in Client /\ b.pool = a.pool /\ b.inRedirect = a.inRedirect /\ b.redirectCanceled = a.redirectCanceled
         /\ b.request = r
    <3>1. b \in Client
      BY <2>6, <2>11, ClientEntries
    <3> QED
      BY <2>11, <3>1 DEF Client
  <2> HIDE DEF b
  <2>13. d \in Client /\ d.pool = b.pool /\ d.inRedirect = b.inRedirect /\ d.redirectCanceled = b.redirectCanceled
         /\ d.request = b.request
    <3>1. d \in Client
      BY <2>3, <2>12, ClientEntries
    <3> QED
      BY <2>12, <3>1 DEF Client
  <2> HIDE DEF d
  <2>14. e \in Client /\ e.pool = d.pool /\ e.inRedirect = d.inRedirect /\ e.redirectCanceled = d.redirectCanceled
         /\ e.request = d.request
    <3>1. e \in Client
      BY <2>5, <2>13, ClientEntries
    <3> QED
      BY <2>13, <3>1 DEF Client
  <2> HIDE DEF e, cl
  <2>15. /\ cl \in Client /\ cl.pool = client[c].pool /\ cl.inRedirect = client[c].inRedirect
         /\ cl.redirectCanceled = client[c].redirectCanceled /\ cl.request # 0
    BY <2>6, <2>10, <2>11, <2>12, <2>13, <2>14 DEF old
  <2> HIDE DEF q, file
  <2> QED
    BY <1>1, <1>2, <1>4, <2>8, <2>9, <2>15, Given
<1>5. ASSUME client' = [client EXCEPT ![c] = IF @.conn = "connected" THEN Reset(@) ELSE @],
             req' = [req EXCEPT ![r].client = c], stack' = Unwound, UNCHANGED fault
      PROVE  Safe'
  <2>1. /\ stack' \in Seq(Frame) /\ Stacked(stack') /\ Frames(stack') \subseteq Frames(stack)
        /\ \A f \in Frames(stack) : f.pc = "~Pool" => f \in Frames(stack')
    BY <1>2, <1>5, Caught DEF Safe
  <2>2. client \in [Clients -> Client] /\ req \in [Requests -> Request]
    BY DEF Safe, TypeOK
  <2>3. \A d \in Clients : client'[d] = client[d] \/ client'[d] = Reset(client[d])
    BY <1>2, <1>5, <2>2
  <2>4. client' \in [Clients -> Client]
    BY <1>2, <1>5, <2>2, ClientFields
  <2>5. req' \in [Requests -> Request]
    <3>1. given \in Request /\ req' = [req EXCEPT ![r] = given]
      BY <1>2, <1>5, <2>2, RequestFields DEF Clients
    <3> HIDE DEF given
    <3> QED
      BY <1>2, <2>2, <3>1
  <2>6. TypeOK'
    BY <1>1, <1>5, <2>1, <2>4, <2>5 DEF Safe, TypeOK
  <2>7. \A cl1 \in Client :
            /\ Reset(cl1).request = cl1.request /\ Reset(cl1).expects = cl1.expects
            /\ Reset(cl1).inRedirect = cl1.inRedirect /\ Reset(cl1).pool = cl1.pool
            /\ Reset(cl1).redirectCanceled = cl1.redirectCanceled /\ Reset(cl1).conn = "closed"
    BY DEF Reset, Client
  <2>8. \A d \in Clients : client[d] \in Client
    BY <2>2
  <2>9. Coherent'
    BY <1>1, <1>2, <2>1, <2>3, <2>7, <2>8, Calm DEF Safe
  <2> QED
    BY <2>1, <2>6, <2>9 DEF Safe
<1>6. \/ stack' = Unwound /\ UNCHANGED <<client, req, fault>>
      \/ /\ client' = [client EXCEPT ![c] = IF @.conn = "connected" THEN Reset(@) ELSE @]
         /\ req' = [req EXCEPT ![r].client = c] /\ stack' = Unwound /\ UNCHANGED fault
      \/ /\ client[c].request = 0
         /\ client' = [client EXCEPT ![c] = cl]
         /\ req' = [req EXCEPT ![r] = q]
         /\ fault' = IF file \in req[r].inputs \cup {0} THEN fault ELSE "form: no input"
         /\ Goto(<<>>)
  BY Zenon DEF ClientRequest
<1> HIDE DEF c, r, cl, q, given, file
<1> QED
  BY <1>3, <1>4, <1>5, <1>6, Zenon

\* Pool::request() hands the request to client c, new or free before.
LEMMA HandedOut ==
  ASSUME Safe, At("pool_request"), NEW c \in Clients, NEW n \in NetLocs, NEW r \in Requests,
         Goto(<<ClientRequestFrame(c, r)>>),
         busy' = [busy EXCEPT ![n] = @ \cup {c}], free' \in [NetLocs -> SUBSET Clients],
         \A k \in NetLocs : free[k] \subseteq free'[k] \cup {c},
         lists' \subseteq NetLocs, req' \in [Requests -> Request],
         UNCHANGED <<alive, limit, idleTimer, queue, submits, fault>>,
         \/ client' = client
         \/ c \in Unused /\ client' = [client EXCEPT ![c] = NewClient]
  PROVE  Safe'
<1> DEFINE g == ClientRequestFrame(c, r)
           t == Tail(stack)
<1>1. /\ stack \in Seq(Frame) /\ Top.pc = "pool_request" /\ Top \in Frames(stack)
      /\ Frames(stack) = {Top} \cup Frames(t) /\ t \in Seq(Frame) /\ Stacked(t)
      /\ IF t = <<>> THEN Base(Top) ELSE Above(Top, Head(t))
      /\ \A f \in Frames(t) : f.pc \notin {"putback", "request"}
  BY OnTop
<1>2. alive
  BY <1>1 DEF Safe, Coherent, PoolFrames
<1>3. g \in Frame /\ g.pc = "request" /\ g.c = c
  BY MadeFrames DEF ClientRequestFrame
<1> HIDE DEF g, t
<1>4. stack' \in Seq(Frame) /\ Stacked(stack') /\ Frames(stack') = {g} \cup Frames(t)
  <2>1. IF t = <<>> THEN Base(g) ELSE Above(g, Head(t))
    BY <1>1, <1>3 DEF Base, Above
  <2> QED
    BY <1>3, <2>1, GoesOn DEF g, t
<1>5. client \in [Clients -> Client] /\ busy \in [NetLocs -> SUBSET Clients]
  BY DEF Safe, TypeOK
<1>6. /\ client' \in [Clients -> Client]
      /\ \A d \in Clients : client'[d] = client[d] \/ (d = c /\ c \in Unused /\ client'[d] = NewClient)
  BY <1>5, ClientFields
<1>7. busy' \in [NetLocs -> SUBSET Clients] /\ c \in busy'[n] /\ \A k \in NetLocs : busy[k] \subseteq busy'[k]
  BY <1>5
<1>8. TypeOK'
  BY <1>4, <1>6, <1>7 DEF Safe, TypeOK
<1>9. PoolFrames'
  BY <1>1, <1>2, <1>3, <1>4 DEF Safe, Coherent, PoolFrames
<1>10. ~NewClient.expects /\ ~NewClient.inRedirect /\ NewClient.request = 0
  BY DEF NewClient
<1>11. Expecting'
  <2> SUFFICES ASSUME NEW d \in Clients, client'[d].expects, client'[d].conn # "closed" \/ Reading(d)'
               PROVE  client'[d].request # 0
    BY DEF Expecting
  <2>1. client'[d] = client[d]
    BY <1>6, <1>10
  <2>2. Reading(d)' => Reading(d)
    BY <1>1, <1>3, <1>4 DEF Reading
  <2> QED
    BY <2>1, <2>2 DEF Safe, Coherent, Expecting
<1>12. Redirecting'
  <2> SUFFICES ASSUME NEW f \in Frames(stack'), f.pc = "redirected"
               PROVE  /\ client'[f.c].inRedirect
                      /\ ~client'[f.c].redirectCanceled => client'[f.c].request # 0 /\ ~client'[f.c].expects
    BY DEF Redirecting
  <2>1. f \in Frames(stack) /\ f.c \in Clients
    BY <1>1, <1>3, <1>4, FramesAreFrames, FrameFields
  <2>2. client[f.c].inRedirect
    BY <2>1 DEF Safe, Coherent, Redirecting
  <2>3. f.c \notin Unused
    BY <1>2, <2>1, <2>2 DEF Safe, Coherent, Owned, Unused
  <2>4. client'[f.c] = client[f.c]
    BY <1>6, <2>1, <2>3
  <2> QED
    BY <2>1, <2>4 DEF Safe, Coherent, Redirecting
<1>13. Owned'
  <2>1. ASSUME NEW d \in Clients, Taken(d)' PROVE \E k \in NetLocs : d \in busy'[k]
    <3>1. CASE d = c
      BY <1>7, <3>1
    <3>2. CASE d # c
      <4>1. Taken(d)
        BY <1>1, <1>3, <1>4, <1>6, <2>1, <3>2 DEF Taken, Claimed
      <4> QED
        BY <1>2, <1>7, <4>1 DEF Safe, Coherent, Owned
    <3> QED
      BY <3>1, <3>2
  <2>2. ASSUME NEW d \in Clients, client'[d].inRedirect PROVE \E k \in NetLocs : d \in free'[k] \cup busy'[k]
    <3>1. CASE d = c
      BY <1>7, <3>1
    <3>2. CASE d # c
      <4>1. client[d].inRedirect
        BY <1>6, <2>2, <3>2
      <4>2. PICK k \in NetLocs : d \in free[k] \cup busy[k]
        BY <1>2, <4>1 DEF Safe, Coherent, Owned
      <4> QED
        BY <1>7, <3>2, <4>2
    <3> QED
      BY <3>1, <3>2
  <2>3. \A f \in Frames(stack') : f.pc # "putback"
    BY <1>1, <1>3, <1>4
  <2> QED
    BY <1>2, <2>1, <2>2, <2>3 DEF Owned
<1> QED
  BY <1>4, <1>8, <1>9, <1>11, <1>12, <1>13 DEF Safe, Coherent

\* Pool::request(): a client for the request, or a place in the queue.
LEMMA PoolRequestSafe ==
  ASSUME Safe, PoolRequest
  PROVE  Safe'
<1> DEFINE r == Top.r
           n == req[r].netloc
<1>1. /\ At("pool_request") /\ UNCHANGED <<alive, limit, idleTimer, submits, fault>>
      /\ lists' = lists \cup {n}
  BY DEF PoolRequest, pool
<1>2. /\ r \in Requests /\ Top.pc = "pool_request" /\ stack \in Seq(Frame) /\ stack # <<>>
      /\ Frames(stack) = {Top} \cup Frames(Tail(stack))
  BY <1>1, OnTop, FrameFields
<1>3. /\ req \in [Requests -> Request] /\ req[r] \in Request /\ n \in NetLocs
      /\ free \in [NetLocs -> SUBSET Clients] /\ queue \in [NetLocs -> Seq(Requests)]
  BY <1>2 DEF Safe, TypeOK, Request
<1>4. lists' \subseteq NetLocs
  BY <1>1, <1>3 DEF Safe, TypeOK
<1>5. [req[r] EXCEPT !.pool = TRUE] \in Request
  BY <1>3 DEF Request
<1>6. req' = [req EXCEPT ![r].pool = TRUE] => req' \in [Requests -> Request]
  BY <1>2, <1>3, <1>5
<1>7. ASSUME NEW c \in free[n], free' = [free EXCEPT ![n] = @ \ {c}], busy' = [busy EXCEPT ![n] = @ \cup {c}],
             req' = [req EXCEPT ![r].pool = TRUE], Goto(<<ClientRequestFrame(c, r)>>), UNCHANGED <<queue, client>>
      PROVE  Safe'
  <2> HIDE DEF n, r
  <2>1. c \in Clients /\ free' \in [NetLocs -> SUBSET Clients] /\ \A k \in NetLocs : free[k] \subseteq free'[k] \cup {c}
    BY <1>3, <1>7
  <2> QED
    BY <1>1, <1>2, <1>3, <1>4, <1>6, <1>7, <2>1, HandedOut
<1>8. ASSUME NEW c \in Unused, busy' = [busy EXCEPT ![n] = @ \cup {c}], client' = [client EXCEPT ![c] = NewClient],
             req' = [req EXCEPT ![r].pool = TRUE], Goto(<<ClientRequestFrame(c, r)>>), UNCHANGED <<free, queue>>
      PROVE  Safe'
  <2> HIDE DEF n, r
  <2>1. c \in Clients /\ free' \in [NetLocs -> SUBSET Clients] /\ \A k \in NetLocs : free[k] \subseteq free'[k] \cup {c}
    BY <1>3, <1>8 DEF Unused
  <2> QED
    BY <1>1, <1>2, <1>3, <1>4, <1>6, <1>8, <2>1, HandedOut
<1>9. ASSUME queue' = [queue EXCEPT ![n] = Append(@, r)], Goto(<<>>), UNCHANGED <<free, busy, client>>,
             req' = [req EXCEPT ![r] = Timed([@ EXCEPT !.pool = TRUE], r)]
      PROVE  Safe'
  <2>1. queue' \in [NetLocs -> Seq(Requests)]
    BY <1>2, <1>3, <1>9
  <2>2. req' \in [Requests -> Request]
    <3>1. Timed([req[r] EXCEPT !.pool = TRUE], r) \in Request
      BY <1>5, RequestFields
    <3> QED
      BY <1>2, <1>3, <1>9, <3>1
  <2>3. stack' = Tail(stack) /\ stack' \in Seq(Frame) /\ Stacked(stack')
    BY <1>1, <1>9, Returns
  <2>4. TypeOK'
    BY <1>1, <1>4, <1>9, <2>1, <2>2, <2>3 DEF Safe, TypeOK
  <2>5. Coherent'
    BY <1>1, <1>2, <1>9, <2>3, Calm DEF Safe
  <2> QED
    BY <2>3, <2>4, <2>5 DEF Safe
<1>10. ASSUME Unused # {} PROVE (CHOOSE c \in Unused : TRUE) \in Unused
  BY <1>10
<1> QED
  BY <1>7, <1>8, <1>9, <1>10, Zenon DEF PoolRequest

\* Pool::putback(): the client is free, or takes the request that waited longest.
LEMMA PutbackSafe ==
  ASSUME Safe, Putback
  PROVE  Safe'
<1> DEFINE c == Top.c
           n == client[c].netloc
           t == Tail(stack)
<1>1. At("putback")
  BY DEF Putback
<1>2. /\ stack \in Seq(Frame) /\ Top.pc = "putback" /\ Top \in Frames(stack) /\ c \in Clients
      /\ Frames(stack) = {Top} \cup Frames(t) /\ t \in Seq(Frame) /\ Stacked(t)
      /\ IF t = <<>> THEN Base(Top) ELSE Above(Top, Head(t))
      /\ \A f \in Frames(t) : f.pc \notin {"putback", "request"}
  BY <1>1, OnTop, FrameFields
<1>3. CASE Abort("putback: netloc") \/ Abort("putback: not busy")
  BY <1>3, AbortSafe DEF Faults
<1>4. /\ client \in [Clients -> Client] /\ busy \in [NetLocs -> SUBSET Clients] /\ free \in [NetLocs -> SUBSET Clients]
      /\ queue \in [NetLocs -> Seq(Requests)] /\ lists \subseteq NetLocs
  BY DEF Safe, TypeOK
<1>5. client[c].request = 0
  BY <1>2 DEF Safe, Coherent, Owned
<1>6. ASSUME n \in lists, busy' = [busy EXCEPT ![n] = @ \ {c}], free' = [free EXCEPT ![n] = @ \cup {c}],
             Goto(<<>>), UNCHANGED <<pool, lists, queue, client, req, submits, fault>>
      PROVE  Safe'
  <2>1. UNCHANGED <<alive, limit, idleTimer, lists, queue, client, req, submits, fault>>
    BY <1>6 DEF pool
  <2>2. stack' = t /\ stack' \in Seq(Frame) /\ Stacked(stack')
    BY <1>1, <1>6, Returns
  <2> HIDE DEF c, n, t
  <2>3. /\ busy' \in [NetLocs -> SUBSET Clients] /\ free' \in [NetLocs -> SUBSET Clients]
        /\ \A k \in NetLocs : \A d \in busy[k] : d \in busy'[k] \/ (d = c /\ d \in free'[k])
        /\ \A k \in NetLocs : free[k] \subseteq free'[k]
    BY <1>2, <1>4, <1>6
  <2>4. TypeOK'
    BY <2>1, <2>2, <2>3 DEF Safe, TypeOK
  <2>5. Frames(stack') \subseteq Frames(stack) /\ \A f \in Frames(stack) : f.pc = "~Pool" => f \in Frames(stack')
    BY <1>2, <2>2
  <2>6. PoolFrames'
    BY <2>1, <2>5 DEF Safe, Coherent, PoolFrames
  <2>7. Expecting'
    BY <2>1, <2>5 DEF Safe, Coherent, Expecting, Reading
  <2>8. Redirecting'
    BY <2>1, <2>5 DEF Safe, Coherent, Redirecting
  <2>9. \A d \in Clients : Taken(d)' => Taken(d) /\ d # c
    BY <1>2, <1>5, <2>1, <2>2 DEF Taken, Claimed
  <2>10. Owned'
    <3>1. \A f \in Frames(stack') : f.pc # "putback"
      BY <1>2, <2>2
    <3>2. CASE alive
      BY <2>1, <2>3, <2>9, <3>1, <3>2 DEF Safe, Coherent, Owned
    <3>3. CASE ~alive
      <4>1. ASSUME NEW d \in Clients, Taken(d)', client'[d].pool
            PROVE  \E f \in Frames(stack') : f.pc = "~Pool" /\ \E k \in f.todo : d \in busy'[k]
        <5>1. PICK f \in Frames(stack) : f.pc = "~Pool" /\ \E k \in f.todo : d \in busy[k]
          BY <2>1, <2>9, <3>3, <4>1 DEF Safe, Coherent, Owned
        <5>2. f.todo \in SUBSET NetLocs
          BY <1>2, <5>1, FramesAreFrames, FrameFields
        <5> QED
          BY <2>3, <2>5, <2>9, <4>1, <5>1, <5>2
      <4> QED
        BY <2>1, <3>1, <3>3, <4>1 DEF Owned
    <3> QED
      BY <3>2, <3>3
  <2> QED
    BY <2>2, <2>4, <2>6, <2>7, <2>8, <2>10 DEF Safe, Coherent
<1>7. ASSUME n \in lists, queue[n] # <<>>, queue' = [queue EXCEPT ![n] = Tail(@)],
             Goto(<<ClientRequestFrame(c, Head(queue[n]))>>),
             UNCHANGED <<pool, lists, free, busy, client, req, submits, fault>>
      PROVE  Safe'
  <2> DEFINE r == Head(queue[n])
             g == ClientRequestFrame(c, r)
  <2>1. UNCHANGED <<alive, limit, idleTimer, lists, free, busy, client, req, submits, fault>>
    BY <1>7 DEF pool
  <2>2. n \in NetLocs /\ queue[n] \in Seq(Requests)
    BY <1>4, <1>7
  <2>3. r \in Requests /\ queue' \in [NetLocs -> Seq(Requests)]
    <3>1. r \in Requests /\ Tail(queue[n]) \in Seq(Requests)
      BY <1>7, <2>2
    <3> QED
      BY <1>4, <1>7, <2>2, <3>1
  <2>4. g \in Frame /\ g.pc = "request" /\ g.c = c
    BY <1>2, <2>3, MadeFrames DEF ClientRequestFrame
  <2> HIDE DEF g, t
  <2>5. stack' \in Seq(Frame) /\ Stacked(stack') /\ Frames(stack') = {g} \cup Frames(t)
    <3>1. IF t = <<>> THEN Base(g) ELSE Above(g, Head(t))
      BY <1>2, <2>4 DEF Base, Above
    <3>2. Goto(<<g>>)
      BY <1>7 DEF g
    <3> QED
      BY <1>1, <2>4, <3>1, <3>2, GoesOn DEF t
  <2> HIDE DEF c, n, r
  <2>6. TypeOK'
    BY <2>1, <2>3, <2>5 DEF Safe, TypeOK
  <2>7. PoolFrames'
    BY <1>2, <2>1, <2>4, <2>5 DEF Safe, Coherent, PoolFrames
  <2>8. Expecting'
    BY <1>2, <2>1, <2>4, <2>5 DEF Safe, Coherent, Expecting, Reading
  <2>9. Redirecting'
    BY <1>2, <2>1, <2>4, <2>5 DEF Safe, Coherent, Redirecting
  <2>10. \A d \in Clients : Taken(d)' => Taken(d)
    BY <1>2, <2>1, <2>4, <2>5 DEF Taken, Claimed, c
  <2>11. Owned'
    <3>1. \A f \in Frames(stack') : f.pc # "putback"
      BY <1>2, <2>4, <2>5
    <3>2. \A f \in Frames(stack) : f.pc = "~Pool" => f \in Frames(stack')
      BY <1>2, <2>5
    <3> QED
      BY <2>1, <2>10, <3>1, <3>2, StillOwned DEF Safe, Coherent
  <2> QED
    BY <2>5, <2>6, <2>7, <2>8, <2>9, <2>11 DEF Safe, Coherent
<1> QED
  BY <1>3, <1>6, <1>7, Zenon DEF Putback

\* check_inactivity() drops clients that were free for too long.
LEMMA CheckInactivitySafe ==
  ASSUME Safe, NEW old \in SUBSET UNION {free[n] : n \in NetLocs}, CheckInactivity(old)
  PROVE  Safe'
<1> DEFINE kept == {n \in lists : free[n] \ old # {} \/ busy[n] # {}}
<1>1. /\ stack = <<>> /\ alive
      /\ free' = [n \in NetLocs |-> free[n] \ old]
      /\ lists' = kept
      /\ queue' = [n \in NetLocs |-> IF n \in kept THEN queue[n] ELSE <<>>]
      /\ client' = [c \in Clients |-> IF c \in old THEN NewClient ELSE client[c]]
      /\ UNCHANGED <<alive, limit, idleTimer, busy, req, submits, stack, fault>>
  BY DEF CheckInactivity, Loop, pool
<1>2. kept \subseteq lists
  OBVIOUS
<1> HIDE DEF kept
<1>3. /\ client \in [Clients -> Client] /\ busy \in [NetLocs -> SUBSET Clients] /\ free \in [NetLocs -> SUBSET Clients]
      /\ queue \in [NetLocs -> Seq(Requests)] /\ lists \subseteq NetLocs
  BY DEF Safe, TypeOK
<1>4. client' \in [Clients -> Client] /\ \A c \in Clients : client'[c] = IF c \in old THEN NewClient ELSE client[c]
  BY <1>1, <1>3, ClientFields
<1>5. queue' \in [NetLocs -> Seq(Requests)]
  <2>1. \A n \in NetLocs : (IF n \in kept THEN queue[n] ELSE <<>>) \in Seq(Requests)
    BY <1>3
  <2> QED
    BY <1>1, <2>1
<1>6. free' \in [NetLocs -> SUBSET Clients]
  BY <1>1, <1>3
<1>7. TypeOK' /\ Stacked(stack')
  BY <1>1, <1>2, <1>3, <1>4, <1>5, <1>6 DEF Safe, TypeOK
<1>8. ~NewClient.expects /\ ~NewClient.inRedirect /\ NewClient.request = 0
  BY DEF NewClient
<1>9. Frames(stack) = {} /\ Frames(stack') = {}
  BY <1>1, Empty
<1>10. PoolFrames' /\ Redirecting'
  BY <1>9 DEF PoolFrames, Redirecting
<1>11. Expecting'
  BY <1>4, <1>8, <1>9 DEF Safe, Coherent, Expecting, Reading
<1>12. Owned'
  <2>1. ASSUME NEW c \in Clients, Taken(c)' PROVE \E n \in NetLocs : c \in busy'[n]
    <3>1. Taken(c)
      BY <1>4, <1>8, <1>9, <2>1 DEF Taken, Claimed
    <3> QED
      BY <1>1, <3>1 DEF Safe, Coherent, Owned
  <2>2. ASSUME NEW c \in Clients, client'[c].inRedirect PROVE \E n \in NetLocs : c \in free'[n] \cup busy'[n]
    <3>1. c \notin old /\ client[c].inRedirect
      BY <1>4, <1>8, <2>2
    <3>2. PICK n \in NetLocs : c \in free[n] \cup busy[n]
      BY <1>1, <3>1 DEF Safe, Coherent, Owned
    <3> QED
      BY <1>1, <3>1, <3>2
  <2> QED
    BY <1>1, <1>9, <2>1, <2>2 DEF Owned
<1> QED
  BY <1>7, <1>10, <1>11, <1>12 DEF Safe, Coherent

\* ~Pool() takes up one location: its clients are detached, its queue is aborted.
LEMMA DestroyListSafe ==
  ASSUME Safe, DestroyList
  PROVE  Safe'
<1> DEFINE t == Tail(stack)
<1>1. At("~Pool") /\ UNCHANGED <<alive, limit, idleTimer, lists, free, busy, queue, req, submits, fault>>
  BY DEF DestroyList, pool, slots
<1>2. PICK n \in Top.todo :
           /\ client' = [c \in Clients |-> IF c \in busy[n] THEN [client[c] EXCEPT !.pool = FALSE] ELSE client[c]]
           /\ Goto([i \in DOMAIN queue[n] |-> QueuedFrame("abort", n, queue[n][i])]
                   \o <<[Top EXCEPT !.todo = @ \ {n}]>>)
  BY DEF DestroyList
<1>3. /\ stack \in Seq(Frame) /\ Top \in Frame /\ Top.pc = "~Pool" /\ Top \in Frames(stack)
      /\ Frames(stack) = {Top} \cup Frames(t) /\ t \in Seq(Frame) /\ Stacked(t)
      /\ IF t = <<>> THEN Base(Top) ELSE Above(Top, Head(t))
      /\ \A g \in Frames(t) : g.pc # "~Pool"
  BY <1>1, OnTop
<1>4. Top.todo \in SUBSET NetLocs /\ n \in NetLocs
  BY <1>2, <1>3, FrameFields
<1> DEFINE p == [Top EXCEPT !.todo = @ \ {n}]
           a == [i \in DOMAIN queue[n] |-> QueuedFrame("abort", n, queue[n][i])]
           u == <<p>> \o t
<1>5. p \in Frame /\ p.pc = "~Pool" /\ p.todo = Top.todo \ {n}
  BY <1>3, <1>4 DEF Frame
<1>6. queue \in [NetLocs -> Seq(Requests)] /\ client \in [Clients -> Client]
  BY DEF Safe, TypeOK
<1> HIDE DEF p, t
<1>7. /\ u \in Seq(Frame) /\ Stacked(u) /\ Frames(u) = {p} \cup Frames(t) /\ u # <<>> /\ Head(u) = p
  <2>1. IF t = <<>> THEN Base(p) ELSE Above(p, Head(t))
    BY <1>3, <1>5 DEF Base, Above
  <2> QED
    BY <1>3, <1>5, <2>1, Push
<1>8. stack' = a \o u
  <2>1. a \in Seq(Frame)
    <3>1. queue[n] \in Seq(Requests) /\ DOMAIN queue[n] = 1 .. Len(queue[n]) /\ Len(queue[n]) \in Nat
      BY <1>4, <1>6
    <3>2. \A i \in 1 .. Len(queue[n]) : QueuedFrame("abort", n, queue[n][i]) \in Frame
      <4> TAKE i \in 1 .. Len(queue[n])
      <4>1. queue[n][i] \in Requests
        BY <3>1
      <4> QED
        BY <1>4, <1>6, <4>1, QueuedFrames
    <3>3. a = [i \in 1 .. Len(queue[n]) |-> QueuedFrame("abort", n, queue[n][i])]
      BY <3>1
    <3> QED
      BY <3>1, <3>2, <3>3, IsASeq
  <2>2. stack' = (a \o <<p>>) \o t
    BY <1>2 DEF Goto, p, t
  <2>3. <<p>> \in Seq(Frame)
    BY <1>5
  <2> HIDE DEF a
  <2>4. (a \o <<p>>) \o t = a \o (<<p>> \o t)
    BY <1>3, <2>1, <2>3, ConcatAssociative, SMTT(30)
  <2> QED
    BY <2>2, <2>4
<1> HIDE DEF u
<1>9. /\ stack' \in Seq(Frame) /\ Stacked(stack')
      /\ \A f \in Frames(stack') : f.pc = "abort" \/ f \in Frames(u)
      /\ Frames(u) \subseteq Frames(stack')
  BY <1>4, <1>5, <1>6, <1>7, <1>8, Telling
<1> HIDE DEF a
<1>10. \A f \in Frames(stack') : f.pc = "abort" \/ f = p \/ f \in Frames(t)
  BY <1>7, <1>9
<1>11. /\ client' \in [Clients -> Client]
       /\ \A c \in Clients : client'[c] = IF c \in busy[n] THEN [client[c] EXCEPT !.pool = FALSE] ELSE client[c]
  BY <1>2, <1>6, ClientEntries
<1>12. TypeOK'
  BY <1>1, <1>9, <1>11 DEF Safe, TypeOK
<1>13. \A c \in Clients :
           /\ client'[c].request = client[c].request /\ client'[c].expects = client[c].expects
           /\ client'[c].inRedirect = client[c].inRedirect /\ client'[c].conn = client[c].conn
           /\ client'[c].redirectCanceled = client[c].redirectCanceled
           /\ client'[c].pool => client[c].pool /\ c \notin busy[n]
  <2>1. \A cl \in Client : LET e == [cl EXCEPT !.pool = FALSE]
                          IN  /\ e.request = cl.request /\ e.expects = cl.expects /\ ~e.pool
                              /\ e.inRedirect = cl.inRedirect /\ e.conn = cl.conn
                              /\ e.redirectCanceled = cl.redirectCanceled
    BY DEF Client
  <2>2. \A c \in Clients : client[c] \in Client
    BY <1>6
  <2> TAKE c \in Clients
  <2>3. CASE c \in busy[n]
    <3>1. client'[c] = [client[c] EXCEPT !.pool = FALSE]
      BY <1>11, <2>3
    <3> QED
      BY <2>1, <2>2, <3>1, <2>3
  <2>4. CASE c \notin busy[n]
    BY <1>11, <2>4
  <2> QED
    BY <2>3, <2>4
<1>14. PoolFrames'
  BY <1>1, <1>3, <1>5, <1>10 DEF Safe, Coherent, PoolFrames
<1>15. Expecting'
  <2>1. \A c \in Clients : Reading(c)' => Reading(c)
    BY <1>3, <1>5, <1>10 DEF Reading
  <2> QED
    BY <1>13, <2>1 DEF Safe, Coherent, Expecting
<1>16. Redirecting'
  <2> SUFFICES ASSUME NEW f \in Frames(stack'), f.pc = "redirected"
               PROVE  /\ client'[f.c].inRedirect
                      /\ ~client'[f.c].redirectCanceled => client'[f.c].request # 0 /\ ~client'[f.c].expects
    BY DEF Redirecting
  <2>1. f \in Frames(stack) /\ f.c \in Clients
    BY <1>3, <1>5, <1>10, FramesAreFrames, FrameFields
  <2> QED
    BY <1>13, <2>1 DEF Safe, Coherent, Redirecting
<1>17. Owned'
  <2>1. ~alive
    BY <1>3 DEF Safe, Coherent, PoolFrames
  <2>2. \A c \in Clients : Taken(c)' => Taken(c)
    BY <1>3, <1>5, <1>10, <1>13 DEF Taken, Claimed
  <2>3. ASSUME NEW c \in Clients, Taken(c)', client'[c].pool
        PROVE  \E f \in Frames(stack') : f.pc = "~Pool" /\ \E k \in f.todo : c \in busy'[k]
    <3>1. PICK f \in Frames(stack) : f.pc = "~Pool" /\ \E k \in f.todo : c \in busy[k]
      BY <1>13, <2>1, <2>2, <2>3 DEF Safe, Coherent, Owned
    <3>2. PICK k \in Top.todo : c \in busy[k]
      BY <1>3, <3>1
    <3>3. k \in p.todo
      BY <1>5, <1>13, <2>3, <3>2
    <3>4. p \in Frames(stack')
      BY <1>7, <1>9
    <3> QED
      BY <1>1, <1>5, <3>2, <3>3, <3>4
  <2>4. \A f \in Frames(stack') : f.pc = "putback" => client'[f.c].request = 0
    <3> SUFFICES ASSUME NEW f \in Frames(stack'), f.pc = "putback" PROVE client'[f.c].request = 0
      OBVIOUS
    <3>1. f \in Frames(stack) /\ f.c \in Clients
      BY <1>3, <1>5, <1>10, FramesAreFrames, FrameFields
    <3> QED
      BY <1>13, <3>1 DEF Safe, Coherent, Owned
  <2> QED
    BY <1>1, <2>1, <2>3, <2>4 DEF Owned
<1> QED
  BY <1>9, <1>12, <1>14, <1>15, <1>16, <1>17 DEF Safe, Coherent

\* ~Pool() is done with every location.
LEMMA DestroyEndSafe ==
  ASSUME Safe, DestroyEnd
  PROVE  Safe'
<1>1. /\ At("~Pool") /\ Top.todo = {} /\ Goto(<<>>)
      /\ lists' = {} /\ free' = [n \in NetLocs |-> {}] /\ busy' = [n \in NetLocs |-> {}]
      /\ queue' = [n \in NetLocs |-> <<>>]
      /\ client' = [c \in Clients |-> IF \E n \in NetLocs : c \in free[n] THEN Reset(client[c]) ELSE client[c]]
      /\ UNCHANGED <<alive, limit, idleTimer, req, submits, fault>>
  BY DEF DestroyEnd, pool
<1>2. stack' = Tail(stack) /\ stack' \in Seq(Frame) /\ Stacked(stack')
  BY <1>1, Returns
<1>3. /\ stack \in Seq(Frame) /\ Top.pc = "~Pool" /\ Top \in Frames(stack)
      /\ Frames(stack) = {Top} \cup Frames(stack')
      /\ \A g \in Frames(stack') : g.pc # "~Pool"
  BY <1>1, <1>2, OnTop
<1>4. ~alive
  BY <1>3 DEF Safe, Coherent, PoolFrames
<1>5. client \in [Clients -> Client]
  BY DEF Safe, TypeOK
<1>6. \A c \in Clients : client'[c] = client[c] \/ client'[c] = Reset(client[c])
  BY <1>1
<1>7. client' \in [Clients -> Client]
  BY <1>1, <1>5, ClientFields
<1>8. queue' \in [NetLocs -> Seq(Requests)]
  <2>1. <<>> \in Seq(Requests)
    OBVIOUS
  <2> QED
    BY <1>1, <2>1
<1>9. TypeOK'
  BY <1>1, <1>2, <1>7, <1>8 DEF Safe, TypeOK
<1>10. \A c \in Clients :
           /\ client'[c].request = client[c].request /\ client'[c].expects = client[c].expects
           /\ client'[c].inRedirect = client[c].inRedirect /\ client'[c].pool = client[c].pool
           /\ client'[c].redirectCanceled = client[c].redirectCanceled
           /\ client'[c].conn # "closed" => client[c].conn # "closed"
  <2>1. \A cl \in Client :
            /\ Reset(cl).request = cl.request /\ Reset(cl).expects = cl.expects
            /\ Reset(cl).inRedirect = cl.inRedirect /\ Reset(cl).pool = cl.pool
            /\ Reset(cl).redirectCanceled = cl.redirectCanceled /\ Reset(cl).conn = "closed"
    BY DEF Reset, Client
  <2>2. \A c \in Clients : client[c] \in Client
    BY <1>5
  <2> QED
    BY <1>6, <2>1, <2>2
<1>11. PoolFrames'
  BY <1>1, <1>3 DEF Safe, Coherent, PoolFrames
<1>12. Expecting'
  <2>1. \A c \in Clients : Reading(c)' => Reading(c)
    BY <1>3 DEF Reading
  <2> QED
    BY <1>10, <2>1 DEF Safe, Coherent, Expecting
<1>13. Redirecting'
  <2> SUFFICES ASSUME NEW f \in Frames(stack'), f.pc = "redirected"
               PROVE  /\ client'[f.c].inRedirect
                      /\ ~client'[f.c].redirectCanceled => client'[f.c].request # 0 /\ ~client'[f.c].expects
    BY DEF Redirecting
  <2>1. f \in Frames(stack) /\ f.c \in Clients
    BY <1>3, FramesAreFrames, FrameFields
  <2> QED
    BY <1>10, <2>1 DEF Safe, Coherent, Redirecting
<1>14. Owned'
  <2>1. \A c \in Clients : Taken(c)' => Taken(c)
    BY <1>3, <1>10 DEF Taken, Claimed
  <2>2. \A c \in Clients : ~(Taken(c)' /\ client'[c].pool)
    BY <1>1, <1>3, <1>4, <1>10, <2>1 DEF Safe, Coherent, Owned
  <2>3. \A f \in Frames(stack') : f.pc = "putback" => client'[f.c].request = 0
    <3> SUFFICES ASSUME NEW f \in Frames(stack'), f.pc = "putback" PROVE client'[f.c].request = 0
      OBVIOUS
    <3>1. f \in Frames(stack) /\ f.c \in Clients
      BY <1>3, FramesAreFrames, FrameFields
    <3> QED
      BY <1>10, <3>1 DEF Safe, Coherent, Owned
  <2> QED
    BY <1>1, <1>4, <2>2, <2>3 DEF Owned
<1> QED
  BY <1>2, <1>9, <1>11, <1>12, <1>13, <1>14 DEF Safe, Coherent

\* What a call of the user finds on the stack.
LEMMA UserCalls ==
  ASSUME Safe, NEW call, UserMay(call)
  PROVE  /\ stack \in Seq(Frame) /\ Stacked(stack) /\ (stack # <<>> => Head(stack).pc = "callback")
         /\ \A f \in Frames(stack) : f.pc # "pool_request"
<1>1. stack \in Seq(Frame) /\ Stacked(stack) /\ (stack # <<>> => Head(stack).pc = "callback")
  BY DEF Safe, TypeOK, UserMay, Top
<1> QED
  BY <1>1, PlacingOnTop

\* The user submits a request to the pool.
LEMMA SubmitSafe ==
  ASSUME Safe, NEW r \in Requests, Submit(r)
  PROVE  Safe'
<1> DEFINE g == PoolRequestFrame(r)
<1>1. /\ UserMay("request") /\ alive /\ submits[r] < MaxSubmits
      /\ submits' = [submits EXCEPT ![r] = @ + 1] /\ stack' = <<g>> \o stack
      /\ UNCHANGED <<alive, limit, idleTimer, lists, free, busy, queue, client, req, fault>>
  BY DEF Submit, pool, slots
<1>2. stack \in Seq(Frame) /\ Stacked(stack) /\ (stack # <<>> => Head(stack).pc = "callback")
  BY <1>1, UserCalls
<1>3. g \in Frame /\ g.pc = "pool_request"
  BY MadeFrames DEF PoolRequestFrame
<1> HIDE DEF g
<1>4. stack' \in Seq(Frame) /\ Stacked(stack') /\ Frames(stack') = {g} \cup Frames(stack)
  <2>1. IF stack = <<>> THEN Base(g) ELSE Above(g, Head(stack))
    BY <1>2, <1>3 DEF Base, Above
  <2> QED
    BY <1>1, <1>2, <1>3, <2>1, Push
<1>5. submits' \in [Requests -> 0 .. MaxSubmits]
  <2>1. submits \in [Requests -> 0 .. MaxSubmits] /\ MaxSubmits \in Nat
    BY BoundsAssumption DEF Safe, TypeOK
  <2>2. submits[r] + 1 \in 0 .. MaxSubmits
    <3>1. submits[r] \in 0 .. MaxSubmits
      BY <2>1
    <3> QED
      BY <1>1, <2>1, <3>1
  <2> QED
    BY <1>1, <2>1, <2>2
<1>6. TypeOK'
  BY <1>1, <1>4, <1>5 DEF Safe, TypeOK
<1>7. PoolFrames'
  BY <1>1, <1>3, <1>4 DEF Safe, Coherent, PoolFrames
<1>8. Expecting'
  BY <1>1, <1>3, <1>4 DEF Safe, Coherent, Expecting, Reading
<1>9. Redirecting'
  BY <1>1, <1>3, <1>4 DEF Safe, Coherent, Redirecting
<1>10. Owned'
  <2>1. \A c \in Clients : Taken(c)' => Taken(c)
    BY <1>1, <1>3, <1>4 DEF Taken, Claimed
  <2>2. \A f \in Frames(stack') : f.pc = "putback" => client'[f.c].request = 0
    BY <1>1, <1>3, <1>4 DEF Safe, Coherent, Owned
  <2> QED
    BY <1>1, <1>4, <2>1, <2>2, StillOwned DEF Safe, Coherent
<1> QED
  BY <1>4, <1>6, <1>7, <1>8, <1>9, <1>10 DEF Safe, Coherent

\* The pool is destroyed.
LEMMA DestroySafe ==
  ASSUME Safe, ListsCounted, Destroy
  PROVE  Safe'
<1> DEFINE g == [pc |-> "~Pool", todo |-> lists]
<1>1. /\ UserMay("destroy") /\ alive /\ alive' = FALSE /\ stack' = <<g>> \o stack
      /\ UNCHANGED <<limit, idleTimer, lists, free, busy, queue, client, req, submits, fault>>
  BY DEF Destroy, slots
<1>2. /\ stack \in Seq(Frame) /\ Stacked(stack) /\ (stack # <<>> => Head(stack).pc = "callback")
      /\ \A f \in Frames(stack) : f.pc # "pool_request"
  BY <1>1, UserCalls
<1>3. \A f \in Frames(stack) : f.pc # "~Pool"
  BY <1>1 DEF Safe, Coherent, PoolFrames
<1>4. g \in Frame /\ g.pc = "~Pool" /\ g.todo = lists
  BY MadeFrames DEF Safe, TypeOK
<1> HIDE DEF g
<1>5. stack' \in Seq(Frame) /\ Stacked(stack') /\ Frames(stack') = {g} \cup Frames(stack)
  <2>1. IF stack = <<>> THEN Base(g) ELSE Above(g, Head(stack))
    BY <1>2, <1>4 DEF Base, Above
  <2> QED
    BY <1>1, <1>2, <1>3, <1>4, <2>1, Push
<1>6. TypeOK'
  BY <1>1, <1>5 DEF Safe, TypeOK
<1>7. PoolFrames'
  BY <1>1, <1>2, <1>4, <1>5 DEF PoolFrames
<1>8. Expecting'
  BY <1>1, <1>4, <1>5 DEF Safe, Coherent, Expecting, Reading
<1>9. Redirecting'
  BY <1>1, <1>4, <1>5 DEF Safe, Coherent, Redirecting
<1>10. Owned'
  <2>1. \A c \in Clients : Taken(c)' => Taken(c)
    BY <1>1, <1>4, <1>5 DEF Taken, Claimed
  <2>2. \A f \in Frames(stack') : f.pc = "putback" => client'[f.c].request = 0
    BY <1>1, <1>4, <1>5 DEF Safe, Coherent, Owned
  <2>3. ASSUME NEW c \in Clients, Taken(c)'
        PROVE  \E f \in Frames(stack') : f.pc = "~Pool" /\ \E n \in f.todo : c \in busy'[n]
    <3>1. PICK n \in NetLocs : c \in busy[n]
      BY <1>1, <2>1, <2>3 DEF Safe, Coherent, Owned
    <3>2. n \in lists
      BY <3>1 DEF ListsCounted
    <3> QED
      BY <1>1, <1>4, <1>5, <3>1, <3>2
  <2> QED
    BY <1>1, <2>2, <2>3 DEF Owned
<1> QED
  BY <1>5, <1>6, <1>7, <1>8, <1>9, <1>10 DEF Safe, Coherent

-----------------------------------------------------------------------------
(* The specification *)

\* A new pool is safe.
LEMMA InitSafe ==
  ASSUME Init
  PROVE  Safe
<1>1. stack \in Seq(Frame) /\ Stacked(stack) /\ Frames(stack) = {}
  BY Empty DEF Init
<1>2. client \in [Clients -> Client]
  BY ClientFields DEF Init
<1>3. req \in [Requests -> Request]
  <2> SUFFICES ASSUME NEW r \in Requests PROVE NewRequest(r) \in Request
    BY DEF Init
  <2>1. Form[r] \in Seq(FormItems) /\ Target[r] \in NetLocs
    BY EnvironmentAssumption
  <2>2. Files(r) \in SUBSET Nat
    BY FilesNumbered
  <2> DEFINE none == [i \in DOMAIN Form[r] |-> 0]
  <2>3. none \in Seq(0 .. MaxClients)
    <3>1. DOMAIN Form[r] = 1 .. Len(Form[r]) /\ Len(Form[r]) \in Nat
      BY <2>1
    <3>2. none = [i \in 1 .. Len(Form[r]) |-> 0] /\ \A i \in 1 .. Len(Form[r]) : 0 \in 0 .. MaxClients
      BY <3>1, NoneIsThere
    <3> QED
      BY <3>1, <3>2, IsASeq
  <2> HIDE DEF none
  <2> QED
    BY <2>1, <2>2, <2>3, NoneIsThere DEF NewRequest, Request, none
<1>4. submits \in [Requests -> 0 .. MaxSubmits]
  BY BoundsAssumption DEF Init
<1>5. queue \in [NetLocs -> Seq(Requests)]
  <2>1. <<>> \in Seq(Requests)
    OBVIOUS
  <2> QED
    BY <2>1 DEF Init
<1>6. TypeOK
  BY <1>1, <1>2, <1>3, <1>4, <1>5, BoundsAssumption DEF Init, TypeOK, Faults
<1>7. \A c \in Clients : client[c].request = 0 /\ ~client[c].expects /\ ~client[c].inRedirect
  BY DEF Init, NewClient
<1>8. Coherent
  BY <1>1, <1>7 DEF Init, Coherent, PoolFrames, Expecting, Redirecting, Owned, Taken, Claimed
<1> QED
  BY <1>1, <1>6, <1>8 DEF Safe

\* Every step of the code and of the user keeps the types and the calls in order.
LEMMA SafeStep ==
  ASSUME Safe, ListsCounted, [Next]_vars
  PROVE  Safe'
<1>1. CASE UNCHANGED vars
  <2>1. UNCHANGED <<alive, limit, idleTimer, lists, free, busy, queue, client, req, submits, stack, fault>>
    BY <1>1 DEF vars, pool, slots
  <2>2. TypeOK' /\ Stacked(stack')
    BY <2>1 DEF Safe, TypeOK
  <2>3. Coherent'
    BY <2>1, Calm DEF Safe, TypeOK
  <2> QED
    BY <2>2, <2>3 DEF Safe
<1>2. CASE Internal
  BY <1>2, ReadEndSafe, ParseErrorSafe, InterimSafe, CompleteSafe, RedirectedSafe, WeakenSafe,
     ClientRequestSafe, PoolRequestSafe, PutbackSafe, FinishAndNotifySafe, EraseSafe, DestroyListSafe,
     AbortQueuedSafe, DestroyEndSafe, Zenon DEF Internal
<1>3. CASE Return \/ \E host \in Hosts \cup {""} : Redirect(host)
  BY <1>3, LeaveSafe, RedirectSafe, Zenon
<1>4. CASE Event
  BY <1>4, OnConnectSafe, OnErrorSafe, OnReadSafe, OnEofSafe, OnTimerSafe, OnStreamedSafe,
     CheckInactivitySafe, Zenon DEF Event
<1>5. CASE User
  BY <1>5, SubmitSafe, CancelCallSafe, SendChunkSafe, RestoreContextSafe, ThrowInRedirectSafe,
     DestroySafe, SettingSafe, Zenon DEF User
<1> QED
  BY <1>1, <1>2, <1>3, <1>4, <1>5, Zenon DEF Next, Step

\* The fields of the pool, of its clients and of the requests and the frames on
\* the call stack keep their types, whatever the callbacks do, when an exception
\* unwinds the stack and while the pool is destroyed.  In particular a message is
\* never taken for a request that is not there, and a redirect goes on with one
\* (Client::on_read, analyze_request, cancel, Pool::request, putback, ~Pool).
THEOREM TypeCorrect == Spec => []TypeOK
<1> DEFINE Inv == Safe /\ ListsCounted /\ LimitHolds
<1>1. Init => Inv
  BY InitSafe, LimitInit
<1>2. Inv /\ [Next]_vars => Inv'
  <2> SUFFICES ASSUME Inv, [Next]_vars PROVE Inv'
    OBVIOUS
  <2> QED
    BY SafeStep, LimitStep
<1>3. Inv => TypeOK
  BY DEF Safe
<1> QED
  BY <1>1, <1>2, <1>3, PTL DEF Spec

-----------------------------------------------------------------------------
(* Overtaking *)

\* While Pool::request() is on top of the stack, nothing else runs.
LEMMA PlacingRuns ==
  ASSUME At("pool_request"), Next
  PROVE  PoolRequest
<1>1. Top.pc = "pool_request" /\ stack # <<>>
  BY DEF At
<1>2. ~Loop /\ \A call : ~UserMay(call)
  BY <1>1 DEF Loop, UserMay
<1>3. \A pc : pc # "pool_request" => ~At(pc)
  BY <1>1 DEF At
<1>4. /\ ~At("on_read") /\ ~At("redirected") /\ ~At("weaken") /\ ~At("request") /\ ~At("putback")
      /\ ~At("notify") /\ ~At("erase") /\ ~At("~Pool") /\ ~At("abort") /\ ~At("callback")
  BY <1>3
<1>5. \A ms : ~Parses(ms)
  BY <1>4 DEF Parses
<1>6. Internal => PoolRequest
  BY <1>4, <1>5, Zenon DEF Internal, ReadEnd, ParseError, Interim, Complete, Redirected, Weaken,
     ClientRequest, Putback, FinishAndNotify, Erase, DestroyList, AbortQueued, DestroyEnd
<1>7. ~Return /\ \A host : ~Redirect(host)
  BY <1>4, <1>5, Zenon DEF Return, Leave, Redirect
<1>8. ~Event
  BY <1>2, Zenon DEF Event, OnConnect, OnError, OnRead, OnEof, OnTimer, OnStreamed, CheckInactivity
<1>9. ~User
  <2>1. \A r, final : ~Submit(r) /\ ~CancelCall(r) /\ ~SendChunk(r, final)
    BY <1>2, Zenon DEF Submit, CancelCall, SendChunk
  <2>2. ~RestoreContext /\ ~ThrowInRedirect /\ ~Destroy
    BY <1>2, Zenon DEF RestoreContext, ThrowInRedirect, Destroy
  <2>3. \A x : ~SetMaxConnections(x) /\ ~SetIdleTimeout(x)
    BY <1>2, Zenon DEF SetMaxConnections, SetIdleTimeout
  <2> QED
    BY <2>1, <2>2, <2>3, Zenon DEF User
<1> QED
  BY <1>6, <1>7, <1>8, <1>9, Zenon DEF Next, Step

\* As long as max_connections is not changed, Pool::request() hands out no client
\* while an earlier request for the same place waits, whatever the callbacks do
\* (Pool::request, putback).
THEOREM NeverOvertaken ==
  ASSUME Limits = {FirstLimit}
  PROVE  Spec => NoOvertaking
<1> DEFINE Inv == Safe /\ ListsCounted /\ LimitHolds /\ DOMAIN queue = NetLocs /\ Waits
           Step1 == At("pool_request") /\ stack' # <<>> /\ Head(stack').pc = "request"
                      => queue[req[Top.r].netloc] = <<>>
<1>1. Init => Inv
  <2> SUFFICES ASSUME Init PROVE Inv
    OBVIOUS
  <2>1. DOMAIN queue = NetLocs /\ Waits
    BY DEF Init, Waits
  <2> QED
    BY <2>1, InitSafe, LimitInit
<1>2. Inv /\ [Next]_vars => Inv'
  <2> SUFFICES ASSUME Inv, [Next]_vars PROVE Inv'
    OBVIOUS
  <2> QED
    BY SafeStep, LimitStep, WaitsStep
<1>3. Inv /\ [Next]_vars => [Step1]_vars
  <2> SUFFICES ASSUME Inv, Next, At("pool_request"), stack' # <<>>, Head(stack').pc = "request"
               PROVE  queue[req[Top.r].netloc] = <<>>
    OBVIOUS
  <2> DEFINE n == req[Top.r].netloc
  <2>1. PoolRequest
    BY PlacingRuns
  <2>2. Top.r \in Requests /\ \A g \in Frames(Tail(stack)) : g.pc # "request"
    BY OnTop, FrameFields
  <2>3. n \in NetLocs
    BY <2>2 DEF Safe, TypeOK, Request
  <2>4. CASE \E c \in free[n] : TRUE
    BY <2>3, <2>4 DEF Waits
  <2>5. CASE HasRoom(n)
    <3> SUFFICES ASSUME queue[n] # <<>> PROVE FALSE
      OBVIOUS
    <3>1. n \in lists /\ Cardinality(busy[n]) >= FirstLimit /\ limit = FirstLimit
      BY <2>3 DEF Waits, ListsCounted
    <3>2. Cardinality(busy[n]) < FirstLimit
      BY <2>5, <3>1 DEF HasRoom
    <3>3. Cardinality(busy[n]) \in Nat /\ FirstLimit \in Nat
      BY <2>3, ClientsFinite, BoundsAssumption DEF ListsCounted
    <3> QED
      BY <3>1, <3>2, <3>3
  <2>6. CASE Goto(<<>>)
    <3>1. stack' = Tail(stack) /\ stack' \in Seq(Frame) /\ Stacked(stack')
      BY <2>6, Returns
    <3>2. Head(stack') \in Frames(stack')
      BY <3>1, Pop
    <3> QED
      BY <2>2, <3>1, <3>2
  <2> QED
    BY <2>1, <2>4, <2>5, <2>6, Zenon DEF PoolRequest
<1> QED
  BY <1>1, <1>2, <1>3, PTL DEF Spec, NoOvertaking

-----------------------------------------------------------------------------
(* Whose response it is *)

\* Each read brings at most one message.
OneEach == \A buf \in Buffers : Len(buf) <= 1

\* A response that is reported was sent for the request it is reported to.
Answered ==
  \A f \in Frames(stack) : f.pc \in {"notify", "callback"} /\ f.ok => f.from = f.r

\* An idle client is owed nothing, one that waits is owed what it waits for.
Fits(c) ==
  /\ client[c].request = 0 => client[c].owed = <<>>
  /\ client[c].request # 0 /\ client[c].expects /\ client[c].conn # "closed"
       => client[c].owed = <<client[c].request>>

\* A message that on_read() has not taken yet is the only one, nothing runs above
\* it, and if the client takes it, it is meant for the client's request.
Unread ==
  \A f \in Frames(stack) : f.pc = "on_read" /\ f.buf # <<>> =>
      /\ Frames(stack) = {f} /\ Tail(f.buf) = <<>>
      /\ client[f.c].expects =>
           /\ f.from = client[f.c].request
           /\ Head(f.buf) \in {"ok", "redirect"} => client[f.c].owed = <<>>
           /\ Head(f.buf) \in {"part", "continue"} => Fits(f.c)

\* Every other client has what it needs to be reused.
Owes ==
  \A c \in Clients : Fits(c) \/ \E f \in Frames(stack) : f.pc = "on_read" /\ f.c = c /\ f.buf # <<>>

\* A client that keeps its connection over a redirect is owed nothing by then.
Moves ==
  \A f \in Frames(stack) : f.pc = "redirected" /\ ~f.close /\ ~client[f.c].redirectCanceled
      => client[f.c].owed = <<>>

Belongs == Answered /\ Unread /\ Owes /\ Moves

\* What a step leaves of a client: as much as there was, or a client to which
\* nothing is owed.
Kept(c) ==
  /\ client'[c].request = client[c].request /\ client'[c].expects = client[c].expects
  /\ client'[c].owed = client[c].owed
  /\ client'[c].conn # "closed" => client[c].conn # "closed"
Cleared(c) == client'[c].owed = <<>> /\ (client'[c].request = 0 \/ client'[c].conn = "closed")

\* A frame that reports nothing, or to the one it was meant for.
Plain(f) ==
  /\ f.pc # "redirected" /\ (f.pc = "on_read" => f.buf = <<>>)
  /\ f.pc \in {"notify", "callback"} /\ f.ok => f.from = f.r

\* The frames of a stack that is put together.
LEMMA FramesTogether ==
  ASSUME NEW s \in Seq(Frame), NEW t \in Seq(Frame)
  PROVE  Frames(s \o t) = Frames(s) \cup Frames(t)
<1>1. /\ Len(s) \in Nat /\ Len(t) \in Nat /\ Len(s \o t) = Len(s) + Len(t)
      /\ \A i \in 1 .. Len(s) : (s \o t)[i] = s[i]
      /\ \A i \in 1 .. Len(t) : (s \o t)[Len(s) + i] = t[i]
  OBVIOUS
<1>2. ASSUME NEW f \in Frames(s \o t) PROVE f \in Frames(s) \cup Frames(t)
  <2>1. PICK i \in 1 .. Len(s \o t) : f = (s \o t)[i]
    BY DEF Frames
  <2>2. CASE i <= Len(s)
    BY <1>1, <2>1, <2>2 DEF Frames
  <2>3. CASE i > Len(s)
    <3>1. i - Len(s) \in 1 .. Len(t) /\ Len(s) + (i - Len(s)) = i
      BY <1>1, <2>1, <2>3
    <3>2. f = t[i - Len(s)]
      BY <1>1, <2>1, <3>1
    <3> QED
      BY <3>1, <3>2 DEF Frames
  <2> QED
    BY <1>1, <2>1, <2>2, <2>3
<1>3. ASSUME NEW i \in 1 .. Len(s) PROVE s[i] \in Frames(s \o t)
  <2>1. i \in 1 .. Len(s \o t) /\ (s \o t)[i] = s[i]
    BY <1>1
  <2> QED
    BY <2>1 DEF Frames
<1>4. ASSUME NEW i \in 1 .. Len(t) PROVE t[i] \in Frames(s \o t)
  <2>1. Len(s) + i \in 1 .. Len(s \o t) /\ (s \o t)[Len(s) + i] = t[i]
    BY <1>1
  <2> QED
    BY <2>1 DEF Frames
<1> QED
  BY <1>2, <1>3, <1>4 DEF Frames

\* The frames of a short stack.
LEMMA FewFrames ==
  ASSUME NEW f \in Frame, NEW g \in Frame
  PROVE  /\ <<f>> \in Seq(Frame) /\ Frames(<<f>>) = {f}
         /\ <<f, g>> \in Seq(Frame) /\ Frames(<<f, g>>) = {f, g}
<1>1. <<f>> \in Seq(Frame) /\ <<f, g>> \in Seq(Frame)
  OBVIOUS
<1>2. Frames(<<f>>) = {f}
  BY DEF Frames
<1>3. Frames(<<f, g>>) = {f, g}
  BY DEF Frames
<1> QED
  BY <1>1, <1>2, <1>3

\* The frames of three that are pushed at once.
LEMMA ThreeFrames ==
  ASSUME NEW f \in Frame, NEW g \in Frame, NEW h \in Frame
  PROVE  <<f, g, h>> \in Seq(Frame) /\ Frames(<<f, g, h>>) = {f, g, h}
<1>1. <<f, g, h>> \in Seq(Frame)
  OBVIOUS
<1>2. Frames(<<f, g, h>>) = {f, g, h}
  BY DEF Frames
<1> QED
  BY <1>1, <1>2

\* A step that takes up no message and gives no client a request.
LEMMA Quiet ==
  ASSUME Belongs,
         \A c \in Clients :
             \/ Kept(c) /\ \A f \in Frames(stack) : f.pc = "on_read" /\ f.c = c => f.buf = <<>>
             \/ Cleared(c),
         \A f \in Frames(stack') :
             \/ f \in Frames(stack) /\ (f.pc = "on_read" => f.buf = <<>>)
             \/ Plain(f),
         \A f \in Frames(stack') : f.pc = "redirected" =>
             /\ f.c \in Clients
             /\ client[f.c].redirectCanceled => client'[f.c].redirectCanceled \/ Cleared(f.c)
  PROVE  Belongs'
<1>1. Answered'
  BY DEF Belongs, Answered, Plain
<1>2. Unread'
  BY DEF Unread, Plain
<1>3. Owes'
  <2> SUFFICES ASSUME NEW c \in Clients PROVE Fits(c)'
    BY DEF Owes
  <2>1. CASE Cleared(c)
    BY <2>1 DEF Cleared, Fits
  <2>2. CASE Kept(c) /\ \A f \in Frames(stack) : f.pc = "on_read" /\ f.c = c => f.buf = <<>>
    <3>1. Fits(c)
      BY <2>2 DEF Belongs, Owes
    <3> QED
      BY <2>2, <3>1 DEF Kept, Fits
  <2> QED
    BY <2>1, <2>2
<1>4. Moves'
  <2> SUFFICES ASSUME NEW f \in Frames(stack'), f.pc = "redirected", ~f.close,
                      ~client'[f.c].redirectCanceled
               PROVE  client'[f.c].owed = <<>>
    BY DEF Moves
  <2>1. f \in Frames(stack) /\ f.c \in Clients
    BY DEF Plain
  <2>2. CASE Cleared(f.c)
    BY <2>2 DEF Cleared
  <2>3. CASE ~Cleared(f.c)
    <3>1. client[f.c].owed = <<>>
      BY <2>1, <2>3 DEF Belongs, Moves
    <3> QED
      BY <2>1, <2>3, <3>1 DEF Kept
  <2> QED
    BY <2>2, <2>3
<1> QED
  BY <1>1, <1>2, <1>3, <1>4 DEF Belongs

\* Nothing runs above a message that is not taken yet.
LEMMA AllTaken ==
  ASSUME Safe, Belongs, stack = <<>> \/ Top.pc # "on_read"
  PROVE  \A f \in Frames(stack) : f.pc = "on_read" => f.buf = <<>>
<1>1. CASE stack = <<>>
  BY <1>1, Empty
<1>2. CASE stack # <<>>
  <2>1. Top \in Frames(stack)
    BY <1>2, Pop DEF Safe, TypeOK, Top
  <2> QED
    BY <1>2, <2>1 DEF Belongs, Unread
<1> QED
  BY <1>1, <1>2

\* A step that leaves the clients alone.
LEMMA QuietStack ==
  ASSUME Safe, Belongs, stack = <<>> \/ Top.pc # "on_read",
         \A c \in Clients : Kept(c) /\ client'[c].redirectCanceled = client[c].redirectCanceled,
         \A f \in Frames(stack') : f \in Frames(stack) \/ Plain(f)
  PROVE  Belongs'
<1>1. \A f \in Frames(stack) : f.pc = "on_read" => f.buf = <<>>
  BY AllTaken
<1>2. \A f \in Frames(stack') : f.pc = "redirected" => f.c \in Clients
  <2> SUFFICES ASSUME NEW f \in Frames(stack'), f.pc = "redirected" PROVE f.c \in Clients
    OBVIOUS
  <2>1. f \in Frame
    BY FramesAreFrames DEF Plain, Safe, TypeOK
  <2> QED
    BY <2>1, FrameFields
<1> QED
  BY <1>1, <1>2, Quiet

\* Whoever leaves the clients alone keeps them.
LEMMA SameClients ==
  ASSUME UNCHANGED client
  PROVE  \A c \in Clients : Kept(c) /\ client'[c].redirectCanceled = client[c].redirectCanceled
  BY DEF Kept

\* A routine returns.
LEMMA ReturnsQuietly ==
  ASSUME Safe, Belongs, NEW pc, pc # "on_read", At(pc), Goto(<<>>),
         \A c \in Clients : Kept(c) /\ client'[c].redirectCanceled = client[c].redirectCanceled
  PROVE  Belongs'
<1>1. stack' = Tail(stack) /\ Frames(stack) = {Top} \cup Frames(Tail(stack)) /\ Top.pc = pc
  BY OnTop, Returns
<1> QED
  BY <1>1, QuietStack

\* A routine calls another that reports nothing.
LEMMA GoesOnQuietly ==
  ASSUME Safe, Belongs, NEW pc, pc # "on_read", At(pc), NEW f \in Frame, Goto(<<f>>), Plain(f),
         \A c \in Clients : Kept(c) /\ client'[c].redirectCanceled = client[c].redirectCanceled
  PROVE  Belongs'
<1>1. Tail(stack) \in Seq(Frame) /\ Frames(stack) = {Top} \cup Frames(Tail(stack)) /\ Top.pc = pc
  BY OnTop
<1>2. Frames(stack') = {f} \cup Frames(Tail(stack))
  <2>1. <<f>> \in Seq(Frame) /\ Frames(<<f>>) = {f}
    BY FewFrames
  <2> QED
    BY <1>1, <2>1, FramesTogether DEF Goto
<1> QED
  BY <1>1, <1>2, QuietStack

\* An assert() fails: nothing else happens.
LEMMA AbortBelongs ==
  ASSUME Safe, Belongs, NEW why, Abort(why)
  PROVE  Belongs'
  BY DEF Abort, Belongs, Answered, Unread, Owes, Moves, Fits

\* finish_and_notify() reports what it was given.
LEMMA FinishAndNotifyBelongs ==
  ASSUME Safe, Belongs, FinishAndNotify
  PROVE  Belongs'
<1> DEFINE f == Callback("response", Top.r, Top.ok, Top.from)
<1>1. At("notify") /\ Goto(<<f>>) /\ UNCHANGED client
  BY DEF FinishAndNotify
<1>2. Top \in Frame /\ Top.pc = "notify" /\ Top \in Frames(stack)
  BY <1>1, OnTop
<1>3. Top.r \in Requests /\ Top.ok \in BOOLEAN /\ Top.from \in 0 .. MaxRequests
  BY <1>2, FrameFields
<1>4. f \in Frame
  BY <1>3, MadeFrames DEF Events
<1>5. Plain(f)
  BY <1>2 DEF Plain, Callback, Belongs, Answered
<1> HIDE DEF f
<1> QED
  BY <1>1, <1>4, <1>5, SameClients, GoesOnQuietly

\* weak(true) changes nothing that matters here.
LEMMA WeakenBelongs ==
  ASSUME Safe, Belongs, Weaken
  PROVE  Belongs'
<1>1. At("weaken") /\ Goto(<<>>) /\ client' = [client EXCEPT ![Top.c].weak = TRUE]
  BY DEF Weaken
<1>2. client \in [Clients -> Client]
  BY DEF Safe, TypeOK
<1>3. \A c \in Clients : Kept(c) /\ client'[c].redirectCanceled = client[c].redirectCanceled
  BY <1>1, <1>2 DEF Kept, Client
<1> QED
  BY <1>1, <1>3, ReturnsQuietly

\* cancel_request() erases what it has told.
LEMMA EraseBelongs ==
  ASSUME Safe, Belongs, Erase
  PROVE  Belongs'
<1>1. CASE Abort("cancel: iterator")
  BY <1>1, AbortBelongs
<1>2. CASE At("erase") /\ Goto(<<>>) /\ UNCHANGED client
  BY <1>2, SameClients, ReturnsQuietly
<1> QED
  BY <1>1, <1>2 DEF Erase

\* An error that is reported answers nothing.
LEMMA ErrorIsPlain ==
  ASSUME NEW ev, NEW r, NEW from
  PROVE  Plain(Callback(ev, r, FALSE, from))
  BY DEF Plain, Callback

\* ~Pool() tells a queued request.
LEMMA AbortQueuedBelongs ==
  ASSUME Safe, Belongs, AbortQueued
  PROVE  Belongs'
<1> DEFINE f == Callback("response", Top.r, FALSE, 0)
<1>1. CASE Abort("~Pool: iterator")
  BY <1>1, AbortBelongs
<1>2. CASE At("abort") /\ Goto(<<f>>) /\ UNCHANGED client
  <2>1. Top.r \in Requests
    BY <1>2, OnTop, FrameFields
  <2>2. f \in Frame /\ Plain(f)
    BY <2>1, MadeFrames, ErrorIsPlain, NoneIsThere DEF Events
  <2> HIDE DEF f
  <2> QED
    BY <1>2, <2>2, SameClients, GoesOnQuietly
<1> QED
  BY <1>1, <1>2 DEF AbortQueued

\* Something is called on top of what runs.
LEMMA CallsQuietly ==
  ASSUME Safe, Belongs, stack = <<>> \/ Top.pc # "on_read", NEW fs \in Seq(Frame),
         stack' = fs \o stack, \A f \in Frames(fs) : Plain(f), UNCHANGED client
  PROVE  Belongs'
<1>1. Frames(stack') = Frames(fs) \cup Frames(stack)
  BY FramesTogether DEF Safe, TypeOK
<1> QED
  BY <1>1, SameClients, QuietStack

\* cancel_request() of a queued request.
LEMMA CancelRequestBelongs ==
  ASSUME Safe, Belongs, NEW r \in Requests, CancelRequest(r, stack),
         stack = <<>> \/ Top.pc # "on_read"
  PROVE  Belongs'
<1> DEFINE n == req[r].netloc
           f == Callback("response", r, FALSE, 0)
           g == QueuedFrame("erase", n, r)
<1>1. CASE \E why \in Faults : Abort(why)
  BY <1>1, AbortBelongs
<1>2. CASE stack' = <<f, g>> \o stack /\ UNCHANGED client
  <2>1. n \in NetLocs /\ queue \in [NetLocs -> Seq(Requests)]
    BY DEF Safe, TypeOK, Request
  <2>2. f \in Frame /\ g \in Frame /\ Plain(f)
    BY <2>1, MadeFrames, QueuedFrames, ErrorIsPlain, NoneIsThere DEF Events
  <2>3. Plain(g)
    BY DEF Plain, QueuedFrame
  <2> HIDE DEF f, g
  <2>4. <<f, g>> \in Seq(Frame) /\ Frames(<<f, g>>) = {f, g}
    BY <2>2, FewFrames
  <2> QED
    BY <1>2, <2>2, <2>3, <2>4, CallsQuietly
<1> QED
  BY <1>1, <1>2 DEF CancelRequest, Faults

\* The connection is there: what was written to it is still to be answered.
LEMMA OnConnectBelongs ==
  ASSUME Safe, Belongs, NEW c \in Clients, OnConnect(c)
  PROVE  Belongs'
<1>1. /\ stack = <<>> /\ UNCHANGED stack /\ client[c].conn = "connecting"
      /\ client' = [client EXCEPT ![c].conn = "connected"]
  BY DEF OnConnect, Loop
<1>2. client \in [Clients -> Client]
  BY DEF Safe, TypeOK
<1>3. \A d \in Clients : Kept(d) /\ client'[d].redirectCanceled = client[d].redirectCanceled
  BY <1>1, <1>2 DEF Kept, Client
<1> QED
  BY <1>1, <1>3, QuietStack

\* Calls of the user that change neither clients nor stack.
LEMMA SettingBelongs ==
  ASSUME Safe, Belongs, UNCHANGED <<client, stack>>
  PROVE  Belongs'
  BY DEF Belongs, Answered, Unread, Owes, Moves, Fits

\* A piece of the body is sent.
LEMMA SendChunkBelongs ==
  ASSUME Safe, Belongs, NEW r \in Requests, NEW final \in BOOLEAN, SendChunk(r, final)
  PROVE  Belongs'
<1>1. CASE Abort("send: not active")
  BY <1>1, AbortBelongs
<1>2. CASE UNCHANGED <<client, stack>>
  BY <1>2, SettingBelongs
<1> QED
  BY <1>1, <1>2 DEF SendChunk

\* The user submits a request.
LEMMA SubmitBelongs ==
  ASSUME Safe, Belongs, NEW r \in Requests, Submit(r)
  PROVE  Belongs'
<1> DEFINE g == PoolRequestFrame(r)
<1>1. stack' = <<g>> \o stack /\ UNCHANGED client /\ (stack = <<>> \/ Top.pc = "callback")
  BY DEF Submit, UserMay
<1>2. g \in Frame /\ Plain(g)
  BY MadeFrames DEF Plain, PoolRequestFrame
<1> HIDE DEF g
<1>3. <<g>> \in Seq(Frame) /\ Frames(<<g>>) = {g}
  BY <1>2, FewFrames
<1> QED
  BY <1>1, <1>2, <1>3, CallsQuietly

\* The pool is destroyed.
LEMMA DestroyBelongs ==
  ASSUME Safe, Belongs, Destroy
  PROVE  Belongs'
<1> DEFINE g == [pc |-> "~Pool", todo |-> lists]
<1>1. stack' = <<g>> \o stack /\ UNCHANGED client /\ (stack = <<>> \/ Top.pc = "callback")
  BY DEF Destroy, UserMay
<1>2. g \in Frame /\ Plain(g)
  BY MadeFrames DEF Plain, Safe, TypeOK
<1> HIDE DEF g
<1>3. <<g>> \in Seq(Frame) /\ Frames(<<g>>) = {g}
  BY <1>2, FewFrames
<1> QED
  BY <1>1, <1>2, <1>3, CallsQuietly

\* ~Pool() lets the clients of a location go.
LEMMA DestroyListBelongs ==
  ASSUME Safe, Belongs, DestroyList
  PROVE  Belongs'
<1>1. At("~Pool")
  BY DEF DestroyList
<1>2. PICK n \in Top.todo :
           /\ client' = [c \in Clients |-> IF c \in busy[n] THEN [client[c] EXCEPT !.pool = FALSE] ELSE client[c]]
           /\ Goto([i \in DOMAIN queue[n] |-> QueuedFrame("abort", n, queue[n][i])]
                   \o <<[Top EXCEPT !.todo = @ \ {n}]>>)
  BY DEF DestroyList
<1> DEFINE a == [i \in DOMAIN queue[n] |-> QueuedFrame("abort", n, queue[n][i])]
           f == [Top EXCEPT !.todo = @ \ {n}]
<1>3. /\ Top \in Frame /\ Top.pc = "~Pool" /\ Tail(stack) \in Seq(Frame)
      /\ Frames(stack) = {Top} \cup Frames(Tail(stack))
  BY <1>1, OnTop
<1>4. n \in NetLocs /\ Top.todo \in SUBSET NetLocs
  BY <1>2, <1>3, FrameFields
<1>5. f \in Frame /\ f.pc = "~Pool"
  <2>1. Top = [pc |-> "~Pool", todo |-> Top.todo]
    BY <1>3 DEF Frame
  <2>2. f = [pc |-> "~Pool", todo |-> Top.todo \ {n}]
    BY <2>1
  <2>3. Top.todo \ {n} \in SUBSET NetLocs
    BY <1>4
  <2> QED
    BY <2>2, <2>3, MadeFrames
<1>6. a \in Seq(Frame) /\ \A g \in Frames(a) : g.pc = "abort"
  <2>1. queue[n] \in Seq(Requests) /\ queue \in [NetLocs -> Seq(Requests)]
    BY <1>4 DEF Safe, TypeOK
  <2>2. \A i \in DOMAIN queue[n] : QueuedFrame("abort", n, queue[n][i]) \in Frame
    BY <1>4, <2>1, QueuedFrames
  <2>3. a \in Seq(Frame) /\ Len(a) = Len(queue[n]) /\ DOMAIN queue[n] = 1 .. Len(queue[n])
    BY <2>1, <2>2
  <2>4. \A i \in 1 .. Len(a) : a[i].pc = "abort"
    BY <2>3 DEF QueuedFrame
  <2> HIDE DEF a
  <2> QED
    BY <2>3, <2>4 DEF Frames
<1>7. stack' = (a \o <<f>>) \o Tail(stack)
  BY <1>2 DEF Goto
<1> HIDE DEF a, f
<1>8. <<f>> \in Seq(Frame) /\ Frames(<<f>>) = {f}
  BY <1>5, FewFrames
<1> DEFINE b == a \o <<f>>
<1>9. b \in Seq(Frame) /\ Frames(b) = Frames(a) \cup {f}
  <2> DEFINE e == <<f>>
  <2>1. e \in Seq(Frame) /\ Frames(e) = {f} /\ b = a \o e
    BY <1>8
  <2> HIDE DEF e, b
  <2>2. a \o e \in Seq(Frame)
    BY <1>6, <2>1
  <2> QED
    BY <1>6, <2>1, <2>2, FramesTogether
<1>10. Frames(stack') = Frames(a) \cup {f} \cup Frames(Tail(stack))
  <2>1. stack' = b \o Tail(stack)
    BY <1>7
  <2> HIDE DEF b
  <2> QED
    BY <1>3, <1>9, <2>1, FramesTogether
<1>11. \A g \in Frames(stack') : g \in Frames(stack) \/ Plain(g)
  <2>1. Plain(f) /\ \A g \in Frames(a) : Plain(g)
    BY <1>5, <1>6 DEF Plain
  <2> QED
    BY <1>3, <1>10, <2>1
<1>12. client \in [Clients -> Client]
  BY DEF Safe, TypeOK
<1>13. \A c \in Clients : Kept(c) /\ client'[c].redirectCanceled = client[c].redirectCanceled
  BY <1>2, <1>12 DEF Kept, Client
<1> QED
  BY <1>1, <1>3, <1>11, <1>13, QuietStack

\* The free clients go with the pool.
LEMMA DestroyEndBelongs ==
  ASSUME Safe, Belongs, DestroyEnd
  PROVE  Belongs'
<1>1. /\ At("~Pool") /\ Goto(<<>>)
      /\ client' = [c \in Clients |-> IF \E n \in NetLocs : c \in free[n] THEN Reset(client[c]) ELSE client[c]]
  BY DEF DestroyEnd
<1>2. stack' = Tail(stack) /\ Frames(stack) = {Top} \cup Frames(Tail(stack)) /\ Top.pc = "~Pool"
  BY <1>1, OnTop, Returns
<1>3. client \in [Clients -> Client] /\ stack \in Seq(Frame)
  BY DEF Safe, TypeOK
<1>4. \A c \in Clients : Kept(c) \/ Cleared(c)
  BY <1>1, <1>3 DEF Kept, Cleared, Reset, Client
<1>5. \A c \in Clients : client'[c].redirectCanceled = client[c].redirectCanceled
  BY <1>1, <1>3 DEF Reset, Client
<1>6. \A f \in Frames(stack) : f.pc = "on_read" => f.buf = <<>>
  BY <1>2, AllTaken
<1>7. \A f \in Frames(stack') : f \in Frames(stack) /\ (f.pc = "redirected" => f.c \in Clients)
  <2>1. \A f \in Frames(stack) : f \in Frame
    BY <1>3, FramesAreFrames
  <2> QED
    BY <1>2, <2>1, FrameFields
<1> QED
  BY <1>4, <1>5, <1>6, <1>7, Quiet

\* check_inactivity() replaces clients by new ones.
LEMMA CheckInactivityBelongs ==
  ASSUME Safe, Belongs, NEW old, CheckInactivity(old)
  PROVE  Belongs'
<1>1. /\ stack = <<>> /\ UNCHANGED stack
      /\ client' = [c \in Clients |-> IF c \in old THEN NewClient ELSE client[c]]
  BY DEF CheckInactivity, Loop
<1>2. \A c \in Clients : Kept(c) \/ Cleared(c)
  BY <1>1 DEF Kept, Cleared, NewClient
<1>3. Frames(stack) = {} /\ Frames(stack') = {}
  BY <1>1, Empty
<1> QED
  BY <1>2, <1>3, Quiet

\* Pool::request() takes a free client, makes one, or lets the request wait.
LEMMA PoolRequestBelongs ==
  ASSUME Safe, Belongs, PoolRequest
  PROVE  Belongs'
<1>1. At("pool_request")
  BY DEF PoolRequest
<1>2. Top.r \in Requests /\ Top.pc = "pool_request" /\ Tail(stack) \in Seq(Frame) /\ stack \in Seq(Frame)
      /\ Frames(stack) = {Top} \cup Frames(Tail(stack))
  BY <1>1, OnTop, FrameFields
<1>3. req[Top.r].netloc \in NetLocs
  BY <1>2 DEF Safe, TypeOK, Request
<1>4. ASSUME NEW c \in Clients PROVE ClientRequestFrame(c, Top.r) \in Frame /\ Plain(ClientRequestFrame(c, Top.r))
  BY <1>2, MadeFrames DEF Plain, ClientRequestFrame
<1>5. CASE Goto(<<>>) /\ UNCHANGED client
  BY <1>1, <1>5, SameClients, ReturnsQuietly
<1>6. ASSUME NEW c \in free[req[Top.r].netloc], Goto(<<ClientRequestFrame(c, Top.r)>>), UNCHANGED client
      PROVE  Belongs'
  <2>1. c \in Clients
    BY <1>3, <1>6 DEF Safe, TypeOK
  <2> QED
    BY <1>1, <1>4, <1>6, <2>1, SameClients, GoesOnQuietly
<1>7. ASSUME NEW c \in Clients, Goto(<<ClientRequestFrame(c, Top.r)>>), client' = [client EXCEPT ![c] = NewClient]
      PROVE  Belongs'
  <2> DEFINE f == ClientRequestFrame(c, Top.r)
  <2>1. f \in Frame /\ Plain(f)
    BY <1>4
  <2>2. stack' = <<f>> \o Tail(stack)
    BY <1>7 DEF Goto
  <2> HIDE DEF f
  <2>3. Frames(stack') = {f} \cup Frames(Tail(stack))
    <3>1. <<f>> \in Seq(Frame) /\ Frames(<<f>>) = {f}
      BY <2>1, FewFrames
    <3> QED
      BY <1>2, <2>2, <3>1, FramesTogether
  <2>4. client \in [Clients -> Client]
    BY DEF Safe, TypeOK
  <2>5. \A d \in Clients : Cleared(d) \/ (Kept(d) /\ client'[d].redirectCanceled = client[d].redirectCanceled)
    BY <1>7, <2>4 DEF Kept, Cleared, NewClient
  <2>6. \A g \in Frames(stack) : g.pc = "on_read" => g.buf = <<>>
    BY <1>2, AllTaken
  <2>7. \A g \in Frames(Tail(stack)) : g.pc = "redirected" => g.c \in Clients
    <3>1. \A g \in Frames(stack) : g \in Frame
      BY <1>2, FramesAreFrames
    <3> QED
      BY <1>2, <3>1, FrameFields
  <2>8. \A g \in Frames(stack') : g.pc = "redirected" =>
             /\ g.c \in Clients
             /\ client[g.c].redirectCanceled => client'[g.c].redirectCanceled \/ Cleared(g.c)
    BY <2>1, <2>3, <2>5, <2>7 DEF Plain
  <2> QED
    BY <1>2, <2>1, <2>3, <2>5, <2>6, <2>8, Quiet
<1>8. CASE Unused # {}
  <2>1. (CHOOSE c \in Unused : TRUE) \in Clients
    BY <1>8 DEF Unused
  <2> QED
    BY <1>5, <1>6, <1>7, <2>1 DEF PoolRequest
<1>9. CASE Unused = {}
  BY <1>5, <1>6, <1>9 DEF PoolRequest
<1> QED
  BY <1>8, <1>9

\* Pool::putback() lets the client wait or gives it the next request.
LEMMA PutbackBelongs ==
  ASSUME Safe, Belongs, Putback
  PROVE  Belongs'
<1>1. At("putback")
  BY DEF Putback
<1>2. Top \in Frame /\ Top.pc = "putback"
  BY <1>1, OnTop
<1>3. Top.c \in Clients
  BY <1>2, FrameFields
<1> DEFINE c == Top.c
           n == client[c].netloc
<1>4. CASE \E why \in Faults : Abort(why)
  BY <1>4, AbortBelongs
<1>5. CASE Goto(<<>>) /\ UNCHANGED client
  BY <1>1, <1>5, SameClients, ReturnsQuietly
<1>6. ASSUME n \in lists, queue[n] # <<>>, Goto(<<ClientRequestFrame(c, Head(queue[n]))>>), UNCHANGED client
      PROVE  Belongs'
  <2>1. n \in NetLocs /\ queue[n] \in Seq(Requests)
    BY <1>6 DEF Safe, TypeOK
  <2>2. Head(queue[n]) \in Requests
    BY <1>6, <2>1
  <2>3. ClientRequestFrame(c, Head(queue[n])) \in Frame /\ Plain(ClientRequestFrame(c, Head(queue[n])))
    BY <1>3, <2>2, MadeFrames DEF Plain, ClientRequestFrame
  <2> QED
    BY <1>1, <1>6, <2>3, SameClients, GoesOnQuietly
<1> QED
  BY <1>4, <1>5, <1>6 DEF Putback, Faults

\* finish_request(): the connection is closed, or it has answered all it was asked.
LEMMA FinishRequestBelongs ==
  ASSUME Safe, Belongs, NEW c \in Clients, NEW cl \in Client, NEW keep \in BOOLEAN, NEW ok \in BOOLEAN,
         NEW from \in 0 .. MaxRequests, NEW rest \in Seq(Frame),
         FinishRequest(c, cl, keep, ok, from, rest),
         client[c].request \in Requests, keep => cl.owed = <<>>, ok => from = client[c].request,
         \A f \in Frames(rest) : \/ f \in Frames(stack) /\ (f.pc = "on_read" => f.buf = <<>>)
                                 \/ Plain(f),
         \A f \in Frames(stack) : f.pc = "on_read" /\ f.buf # <<>> => f.c = c
  PROVE  Belongs'
<1> DEFINE r == client[c].request
           e == Finished(cl, keep)
           p == AtClient("putback", c)
           g == [pc |-> "notify", r |-> r, ok |-> ok, from |-> from]
           s == Ending(c, ok, from)
<1>1. CASE Abort("form: no such item")
  BY <1>1, AbortBelongs
<1>2. ASSUME client' = [client EXCEPT ![c] = e], stack' = s \o rest
      PROVE  Belongs'
  <2>1. client \in [Clients -> Client] /\ stack \in Seq(Frame)
    BY DEF Safe, TypeOK
  <2>2. e.request = 0 /\ e.owed = <<>>
    BY DEF Finished, Reset, Client
  <2>3. p \in Frame /\ g \in Frame
    BY MadeFrames
  <2>4. Plain(p) /\ Plain(g)
    BY DEF Plain, AtClient
  <2>5. s = IF client[c].pool THEN <<p>> \o <<g>> ELSE <<>> \o <<g>>
    BY DEF Ending
  <2> HIDE DEF e, p, g, s
  <2>6. s \in Seq(Frame) /\ Frames(s) \subseteq {p, g}
    <3> DEFINE x == <<p>>
               y == <<g>>
    <3>1. /\ x \in Seq(Frame) /\ Frames(x) = {p} /\ y \in Seq(Frame) /\ Frames(y) = {g}
          /\ s = IF client[c].pool THEN x \o y ELSE <<>> \o y
      BY <2>3, <2>5, FewFrames
    <3> HIDE DEF x, y
    <3>2. x \o y \in Seq(Frame) /\ <<>> \o y = y
      BY <3>1, PushNone
    <3>3. Frames(x \o y) = {p, g}
      BY <3>1, FramesTogether
    <3> QED
      BY <3>1, <3>2, <3>3
  <2>7. Frames(stack') = Frames(s) \cup Frames(rest)
    BY <1>2, <2>6, FramesTogether
  <2>8. \A d \in Clients : IF d = c THEN Cleared(d) ELSE Kept(d) /\ client'[d] = client[d]
    BY <1>2, <2>1, <2>2 DEF Kept, Cleared
  <2>9. \A f \in Frames(stack') : \/ f \in Frames(stack) /\ (f.pc = "on_read" => f.buf = <<>>)
                                  \/ Plain(f)
    BY <2>4, <2>6, <2>7
  <2>10. \A f \in Frames(stack') : f.pc = "redirected" =>
             /\ f.c \in Clients
             /\ client[f.c].redirectCanceled => client'[f.c].redirectCanceled \/ Cleared(f.c)
    <3>1. \A f \in Frames(stack) : f \in Frame
      BY <2>1, FramesAreFrames
    <3>2. \A f \in Frames(stack') : f.pc = "redirected" => f.c \in Clients
      BY <2>9, <3>1, FrameFields DEF Plain
    <3> QED
      BY <2>8, <3>2
  <2>11. \A d \in Clients :
             \/ Kept(d) /\ \A f \in Frames(stack) : f.pc = "on_read" /\ f.c = d => f.buf = <<>>
             \/ Cleared(d)
    BY <2>8
  <2> QED
    BY <2>9, <2>10, <2>11, Quiet
<1> QED
  BY <1>1, <1>2, Zenon DEF FinishRequest

\* A client that has a request has one of the requests.
LEMMA HasRequest ==
  ASSUME Safe, NEW c \in Clients, client[c].request # 0
  PROVE  client[c] \in Client /\ client[c].request \in Requests
<1>1. client[c] \in Client
  BY DEF Safe, TypeOK
<1>2. client[c].request \in 0 .. MaxRequests /\ MaxRequests \in Nat
  BY <1>1, BoundsAssumption DEF Client
<1> QED
  BY <1>1, <1>2 DEF Requests

\* Client::cancel() closes the connection and reports an error.
LEMMA CancelBelongs ==
  ASSUME Safe, Belongs, NEW c \in Clients, NEW rest \in Seq(Frame), Cancel(c, rest),
         \A f \in Frames(rest) : \/ f \in Frames(stack) /\ (f.pc = "on_read" => f.buf = <<>>)
                                 \/ Plain(f),
         \A f \in Frames(stack) : f.pc = "on_read" /\ f.buf # <<>> => f.c = c
  PROVE  Belongs'
<1> DEFINE cl == [client[c] EXCEPT !.expects = FALSE, !.redirectCanceled = @ \/ client[c].inRedirect]
<1>1. client[c].request # 0 /\ FinishRequest(c, cl, FALSE, FALSE, 0, rest)
  BY DEF Cancel
<1>2. client[c] \in Client /\ client[c].request \in Requests
  BY <1>1, HasRequest
<1>3. cl \in Client
  BY <1>2 DEF Client
<1> HIDE DEF cl
<1> QED
  BY <1>1, <1>2, <1>3, NoneIsThere, FinishRequestBelongs

\* Request::cancel() and on_timer().
LEMMA EndRequestBelongs ==
  ASSUME Safe, Belongs, NEW r \in Requests, EndRequest(r, stack), stack = <<>> \/ Top.pc = "callback"
  PROVE  Belongs'
<1>1. \A f \in Frames(stack) : f.pc = "on_read" => f.buf = <<>>
  BY AllTaken
<1>2. stack \in Seq(Frame) /\ req[r].client \in 0 .. MaxClients /\ MaxClients \in Nat
  BY BoundsAssumption DEF Safe, TypeOK, Request
<1>3. CASE req[r].client # 0 /\ Cancel(req[r].client, stack)
  <2>1. req[r].client \in Clients
    BY <1>2, <1>3 DEF Clients
  <2> QED
    BY <1>1, <1>2, <1>3, <2>1, CancelBelongs
<1>4. CASE CancelRequest(r, stack)
  BY <1>4, CancelRequestBelongs
<1> QED
  BY <1>3, <1>4 DEF EndRequest

\* The request's timer fires.
LEMMA OnTimerBelongs ==
  ASSUME Safe, Belongs, NEW r \in Requests, OnTimer(r)
  PROVE  Belongs'
  BY EndRequestBelongs DEF OnTimer, Loop

\* The user cancels a request.
LEMMA CancelCallBelongs ==
  ASSUME Safe, Belongs, NEW r \in Requests, CancelCall(r)
  PROVE  Belongs'
  BY EndRequestBelongs DEF CancelCall, UserMay

\* An error of the stream.
LEMMA OnErrorBelongs ==
  ASSUME Safe, Belongs, NEW c \in Clients, OnError(c)
  PROVE  Belongs'
<1>1. stack = <<>> /\ Cancel(c, <<>>)
  BY DEF OnError, Loop
<1>2. Frames(stack) = {} /\ <<>> \in Seq(Frame) /\ Frames(<<>>) = {}
  BY <1>1, Empty
<1> QED
  BY <1>1, <1>2, CancelBelongs

\* A response that cannot be parsed.
LEMMA ParseErrorBelongs ==
  ASSUME Safe, Belongs, ParseError
  PROVE  Belongs'
<1>1. Parses({"bad"}) /\ Cancel(Top.c, Tail(stack))
  BY DEF ParseError
<1>2. Tail(stack) = <<>> /\ Frames(stack) = {Top} /\ Top.c \in Clients
  BY <1>1, ParsesForRequest
<1> QED
  BY <1>1, <1>2, Empty, CancelBelongs

\* What on_read() goes on with when it takes a message: an empty buffer.  The
\* message was meant for the client's request.
LEMMA Takes ==
  ASSUME Safe, Belongs, NEW ms, Parses(ms)
  PROVE  /\ NextTurn.pc = "on_read" /\ NextTurn.buf = <<>> /\ Plain(NextTurn) /\ NextTurn \in Frame
         /\ <<NextTurn>> \o Tail(stack) \in Seq(Frame)
         /\ Frames(<<NextTurn>> \o Tail(stack)) = {NextTurn}
         /\ Top.from = client[Top.c].request
         /\ Head(Top.buf) \in {"ok", "redirect"} => client[Top.c].owed = <<>>
         /\ Head(Top.buf) \in {"part", "continue"} => Fits(Top.c)
         /\ Frames(stack) = {Top} /\ Top.c \in Clients /\ client[Top.c].request \in Requests
         /\ client[Top.c].request # 0 /\ Tail(stack) = <<>> /\ Head(Top.buf) \in ms /\ Top.pc = "on_read"
<1>1. /\ Frames(stack) = {Top} /\ Top.c \in Clients /\ client[Top.c].request \in Requests /\ Tail(stack) = <<>>
      /\ Top.pc = "on_read" /\ client[Top.c].expects /\ NextTurn \in Frame /\ client[Top.c].request # 0
  BY ParsesForRequest
<1>2. Top.buf # <<>> /\ Head(Top.buf) \in ms
  BY DEF Parses
<1>3. /\ Tail(Top.buf) = <<>> /\ Top.from = client[Top.c].request
      /\ Head(Top.buf) \in {"ok", "redirect"} => client[Top.c].owed = <<>>
      /\ Head(Top.buf) \in {"part", "continue"} => Fits(Top.c)
  BY <1>1, <1>2 DEF Belongs, Unread
<1>4. NextTurn.pc = "on_read" /\ NextTurn.buf = <<>>
  BY <1>3 DEF NextTurn, OnReadFrame
<1> QED
  BY <1>1, <1>2, <1>3, <1>4, Onward DEF Plain

\* A complete response is reported to the request it was sent for.
LEMMA CompleteBelongs ==
  ASSUME Safe, Belongs, Complete
  PROVE  Belongs'
<1> DEFINE c == Top.c
           r == client[c].request
           ok == req[r].transferred
           cl == [client[c] EXCEPT !.expects = FALSE]
           keep == ok /\ Head(Top.buf) = "ok" /\ r \notin Closing
           rest == <<NextTurn>> \o Tail(stack)
<1>1. Parses({"ok", "close"}) /\ FinishRequest(c, cl, keep, ok, Top.from, rest)
  BY DEF Complete
<1>2. /\ Plain(NextTurn) /\ rest \in Seq(Frame) /\ Frames(rest) = {NextTurn}
      /\ Top.from = r /\ (Head(Top.buf) = "ok" => client[c].owed = <<>>)
      /\ Frames(stack) = {Top} /\ c \in Clients /\ r \in Requests
  BY <1>1, Takes
<1>3. ok \in BOOLEAN /\ keep \in BOOLEAN /\ Top.from \in 0 .. MaxRequests
  BY <1>1, <1>2, ParsesForRequest DEF Safe, TypeOK, Request
<1>4. client[c] \in Client
  BY <1>2 DEF Safe, TypeOK
<1>5. cl \in Client /\ cl.owed = client[c].owed
  BY <1>4 DEF Client
<1>6. keep => cl.owed = <<>>
  BY <1>2, <1>5
<1>7. \A f \in Frames(rest) : Plain(f)
  BY <1>2
<1>8. \A f \in Frames(stack) : f.c = c
  BY <1>2
<1> HIDE DEF cl, keep, rest, ok
<1> QED
  BY <1>1, <1>2, <1>3, <1>5, <1>6, <1>7, <1>8, FinishRequestBelongs

\* on_read() is done, or closes a connection that sent what nobody waits for.
LEMMA ReadEndBelongs ==
  ASSUME Safe, Belongs, ReadEnd
  PROVE  Belongs'
<1>1. At("on_read") /\ Goto(<<>>)
  BY DEF ReadEnd
<1>2. Frames(stack) = {Top} /\ Top.c \in Clients /\ Tail(stack) = <<>>
  BY <1>1, ReadAlone
<1>3. Frames(stack') = {}
  BY <1>1, <1>2, Returns, Empty
<1>4. client \in [Clients -> Client]
  BY DEF Safe, TypeOK
<1>5. CASE Top.buf = <<>> /\ UNCHANGED client
  BY <1>2, <1>3, <1>5, Quiet DEF Kept
<1>6. CASE client' = [client EXCEPT ![Top.c] = Reset(@)]
  <2>1. \A c \in Clients : IF c = Top.c THEN Cleared(c) ELSE Kept(c)
    BY <1>2, <1>4, <1>6 DEF Kept, Cleared, Reset, Client
  <2> QED
    BY <1>2, <1>3, <2>1, Quiet
<1> QED
  BY <1>5, <1>6 DEF ReadEnd

\* A part of a response or a 100 is shown to the request it was sent for.
LEMMA InterimBelongs ==
  ASSUME Safe, Belongs, Interim
  PROVE  Belongs'
<1> DEFINE r == client[Top.c].request
           f == Callback(IF Head(Top.buf) = "part" THEN "partial" ELSE "continue", r, TRUE, Top.from)
           g == NextTurn
<1>1. Parses({"part", "continue"}) /\ Goto(<<f, g>>) /\ UNCHANGED client
  BY DEF Interim
<1>2. /\ Plain(g) /\ g \in Frame /\ g.buf = <<>> /\ Top.from = r /\ Fits(Top.c) /\ Frames(stack) = {Top}
      /\ r \in Requests /\ Tail(stack) = <<>> /\ Top.c \in Clients
  BY <1>1, Takes
<1>3. Top.from \in 0 .. MaxRequests
  BY <1>1, ParsesForRequest
<1>4. f \in Frame
  BY <1>2, <1>3, MadeFrames DEF Events
<1>5. Plain(f)
  BY <1>2 DEF Plain, Callback
<1> HIDE DEF f, g
<1>6. Frames(stack') = {f, g}
  <2>1. <<f, g>> \in Seq(Frame) /\ Frames(<<f, g>>) = {f, g}
    BY <1>2, <1>4, FewFrames
  <2>2. stack' = <<f, g>> \o <<>>
    BY <1>1, <1>2 DEF Goto
  <2> QED
    BY <2>1, <2>2, Empty, FramesTogether
<1>7. Owes'
  <2> SUFFICES ASSUME NEW c \in Clients PROVE Fits(c)'
    BY DEF Owes
  <2>1. Fits(c)
    BY <1>2 DEF Belongs, Owes
  <2> QED
    BY <1>1, <2>1 DEF Fits
<1> QED
  BY <1>2, <1>5, <1>6, <1>7 DEF Belongs, Answered, Unread, Moves, Plain

\* A redirect is taken up: until redirect_event returns the client expects nothing.
LEMMA RedirectBelongs ==
  ASSUME Safe, Belongs, NEW host, Redirect(host)
  PROVE  Belongs'
<1> DEFINE c == Top.c
           r == client[c].request
           f == Callback("redirect", r, TRUE, Top.from)
           g == [pc |-> "redirected", c |-> c, close |-> Head(Top.buf) # "redirect", ctx |-> req[r].netloc.ctx]
           h == NextTurn
<1>1. Parses({"redirect", "redirect_close"})
  BY DEF Redirect
<1>2. /\ Plain(h) /\ h \in Frame /\ <<h>> \o Tail(stack) \in Seq(Frame) /\ Frames(<<h>> \o Tail(stack)) = {h}
      /\ Top.from = r /\ (Head(Top.buf) = "redirect" => client[c].owed = <<>>)
      /\ Frames(stack) = {Top} /\ c \in Clients /\ r \in Requests /\ r # 0 /\ Tail(stack) = <<>>
  BY <1>1, Takes
<1>3. CASE Cancel(c, <<h>> \o Tail(stack))
  BY <1>2, <1>3, CancelBelongs
<1>4. ASSUME client' = [client EXCEPT ![c].expects = FALSE, ![c].inRedirect = TRUE], Goto(<<f, g, h>>)
      PROVE  Belongs'
  <2>1. Top.from \in 0 .. MaxRequests
    BY <1>1, ParsesForRequest
  <2>2. req[r].netloc.ctx \in {"default", "own"}
    BY <1>2 DEF Safe, TypeOK, Request, NetLocs
  <2>3. f \in Frame /\ g \in Frame
    BY <1>2, <2>1, <2>2, MadeFrames DEF Events
  <2>4. Plain(f)
    BY <1>2 DEF Plain, Callback
  <2>5. g.pc = "redirected" /\ g.c = c /\ (~g.close => client[c].owed = <<>>)
    BY <1>2
  <2>6. client \in [Clients -> Client]
    BY DEF Safe, TypeOK
  <2>7. \A d \in Clients : IF d = c THEN /\ client'[d].request = r /\ ~client'[d].expects
                                         /\ client'[d].owed = client[d].owed
                                    ELSE client'[d] = client[d]
    BY <1>2, <1>4, <2>6 DEF Client
  <2> HIDE DEF f, g, h
  <2>8. Frames(stack') = {f, g, h}
    <3>1. <<f, g, h>> \in Seq(Frame) /\ Frames(<<f, g, h>>) = {f, g, h}
      BY <1>2, <2>3, ThreeFrames, Zenon
    <3>2. stack' = <<f, g, h>> \o <<>>
      BY <1>2, <1>4 DEF Goto
    <3> DEFINE fs == <<f, g, h>>
    <3>3. fs \in Seq(Frame) /\ Frames(fs) = {f, g, h} /\ stack' = fs \o <<>>
      BY <3>1, <3>2
    <3> HIDE DEF fs
    <3> QED
      BY <3>3, Empty, FramesTogether
  <2>9. Answered' /\ Unread'
    BY <2>4, <2>5, <2>8, <1>2 DEF Answered, Unread, Plain
  <2>10. Moves'
    BY <1>2, <2>4, <2>5, <2>7, <2>8 DEF Moves, Plain
  <2>11. Owes'
    <3> SUFFICES ASSUME NEW d \in Clients PROVE Fits(d)'
      BY DEF Owes
    <3>1. CASE d = c
      BY <1>2, <2>7, <3>1 DEF Fits
    <3>2. CASE d # c
      BY <1>2, <2>7, <3>2 DEF Belongs, Owes, Fits
    <3> QED
      BY <3>1, <3>2
  <2> QED
    BY <2>9, <2>10, <2>11 DEF Belongs
<1> QED
  BY <1>3, <1>4 DEF Redirect

\* After redirect_event the client lets go of the request, with nothing owed.
LEMMA RedirectedBelongs ==
  ASSUME Safe, Belongs, Redirected
  PROVE  Belongs'
<1> DEFINE c == Top.c
           r == client[c].request
           cl == [client[c] EXCEPT !.inRedirect = FALSE, !.redirectCanceled = FALSE]
           off == [cl EXCEPT !.request = 0]
           e == IF Top.close THEN Reset(off) ELSE off
<1>1. At("redirected")
  BY DEF Redirected
<1>2. /\ c \in Clients /\ Top \in Frames(stack) /\ Top.pc = "redirected" /\ Tail(stack) \in Seq(Frame)
      /\ Top.close \in BOOLEAN
      /\ \A f \in Frames(Tail(stack)) : f.pc = "on_read" /\ f \in Frames(stack)
  BY <1>1, RedirectedAlone, OnTop
<1>3. client \in [Clients -> Client] /\ client[c] \in Client
  BY <1>2 DEF Safe, TypeOK
<1>4. \A f \in Frames(stack) : f.pc = "on_read" => f.buf = <<>>
  BY <1>2, AllTaken
<1>5. CASE client' = [client EXCEPT ![c] = cl] /\ Goto(<<>>)
  <2>1. Frames(stack') = Frames(Tail(stack))
    BY <1>1, <1>5, Returns
  <2>2. \A d \in Clients : Kept(d)
    BY <1>2, <1>3, <1>5 DEF Kept, Client
  <2> QED
    BY <1>2, <1>4, <2>1, <2>2, Quiet
<1>6. ASSUME ~client[c].redirectCanceled, client' = [client EXCEPT ![c] = e],
             NEW fs \in Seq(Frame), Goto(fs), \A f \in Frames(fs) : Plain(f)
      PROVE  Belongs'
  <2>1. ~Top.close => client[c].owed = <<>>
    BY <1>2, <1>6 DEF Belongs, Moves
  <2>2. e.request = 0 /\ e.owed = <<>>
    BY <1>2, <1>3, <2>1 DEF Reset, Client
  <2> HIDE DEF e
  <2>3. \A d \in Clients : IF d = c THEN Cleared(d) ELSE Kept(d)
    BY <1>2, <1>3, <1>6, <2>2 DEF Kept, Cleared
  <2>4. Frames(stack') = Frames(fs) \cup Frames(Tail(stack))
    BY <1>2, <1>6, FramesTogether DEF Goto
  <2>5. \A f \in Frames(stack') : f.pc # "redirected"
    BY <1>2, <1>6, <2>4 DEF Plain
  <2> QED
    BY <1>2, <1>4, <1>6, <2>3, <2>4, <2>5, Quiet
<1>7. ASSUME ~client[c].redirectCanceled PROVE r \in Requests
  BY <1>1, <1>2, <1>7, HasRequest DEF Safe, Coherent, Redirecting
<1> DEFINE p == AtClient("putback", c)
           w == AtClient("weaken", c)
           q == PoolRequestFrame(r)
           k == ClientRequestFrame(c, r)
<1>8. ASSUME ~client[c].redirectCanceled
      PROVE  /\ <<p, w, q>> \in Seq(Frame) /\ <<k>> \in Seq(Frame)
             /\ \A f \in Frames(<<p, w, q>>) \cup Frames(<<k>>) : Plain(f)
  <2>1. p \in Frame /\ w \in Frame /\ q \in Frame /\ k \in Frame
    BY <1>2, <1>7, <1>8, MadeFrames
  <2>2. Plain(p) /\ Plain(w) /\ Plain(q) /\ Plain(k)
    BY DEF Plain, AtClient, PoolRequestFrame, ClientRequestFrame
  <2> HIDE DEF p, w, q, k
  <2>3. <<p, w, q>> \in Seq(Frame) /\ Frames(<<p, w, q>>) = {p, w, q}
    BY <2>1, ThreeFrames, Zenon
  <2>4. <<k>> \in Seq(Frame) /\ Frames(<<k>>) = {k}
    BY <2>1, FewFrames
  <2> QED
    BY <2>2, <2>3, <2>4
<1>9. CASE ~client[c].redirectCanceled /\ client' = [client EXCEPT ![c] = e]
           /\ (Goto(<<p, w, q>>) \/ Goto(<<k>>))
  BY <1>6, <1>8, <1>9, Zenon
<1> QED
  BY <1>5, <1>9, Zenon DEF Redirected

\* redirect_event throws: the connection is closed, or was closed by a cancel.
LEMMA ThrowInRedirectBelongs ==
  ASSUME Safe, Belongs, ThrowInRedirect
  PROVE  Belongs'
<1> DEFINE c == stack[2].c
           cl == [client[c] EXCEPT !.inRedirect = FALSE, !.redirectCanceled = FALSE, !.expects = FALSE]
<1>1. UserMay("throw") /\ InRedirect
  BY DEF ThrowInRedirect
<1>2. c \in Clients /\ stack # <<>> /\ Top.pc = "callback"
  BY <1>1, RedirectAlone DEF InRedirect, UserMay
<1>3. client \in [Clients -> Client] /\ client[c] \in Client
  BY <1>2 DEF Safe, TypeOK
<1>4. cl \in Client /\ cl.request = client[c].request /\ cl.owed = client[c].owed
  BY <1>3 DEF Client
<1>5. \A f \in Frames(stack) : f.pc = "on_read" => f.buf = <<>>
  BY <1>2, AllTaken
<1> HIDE DEF cl
<1>6. ASSUME cl.request = 0, client' = [client EXCEPT ![c] = cl], stack' = <<>>
      PROVE  Belongs'
  <2>1. client[c].owed = <<>>
    BY <1>2, <1>4, <1>5, <1>6 DEF Belongs, Owes, Fits
  <2>2. \A d \in Clients : IF d = c THEN Cleared(d) ELSE Kept(d)
    BY <1>2, <1>3, <1>4, <1>6, <2>1 DEF Kept, Cleared
  <2>3. Frames(stack') = {}
    BY <1>6, Empty
  <2> QED
    BY <1>5, <2>2, <2>3, Quiet
<1>7. ASSUME cl.request # 0, FinishRequest(c, cl, FALSE, FALSE, 0, <<>>)
      PROVE  Belongs'
  <2>1. client[c].request \in Requests
    BY <1>2, <1>4, <1>7, HasRequest
  <2> QED
    BY <1>2, <1>4, <1>5, <1>7, <2>1, NoneIsThere, Empty, FinishRequestBelongs
<1> QED
  BY <1>6, <1>7 DEF ThrowInRedirect, cl

\* A file was sent, or could not be.
LEMMA OnStreamedBelongs ==
  ASSUME Safe, Belongs, NEW r \in Requests, NEW i \in Files(r), NEW ok \in BOOLEAN, OnStreamed(r, i, ok)
  PROVE  Belongs'
<1> DEFINE c == req[r].streamer[i]
<1>1. stack = <<>> /\ c \in Clients
  BY DEF OnStreamed, Loop
<1>2. client \in [Clients -> Client] /\ client[c] \in Client /\ Frames(stack) = {}
  BY <1>1, Empty DEF Safe, TypeOK
<1>3. CASE Abort("form: not its request")
  BY <1>3, AbortBelongs
<1>4. CASE client[c].request = r /\ FinishRequest(c, client[c], FALSE, FALSE, 0, <<>>)
  BY <1>1, <1>2, <1>4, NoneIsThere, Empty, FinishRequestBelongs
<1>5. ASSUME NEW file, client' = [client EXCEPT ![c].field = file], UNCHANGED stack
      PROVE  Belongs'
  <2>1. \A d \in Clients : Kept(d) /\ client'[d].redirectCanceled = client[d].redirectCanceled
    BY <1>1, <1>2, <1>5 DEF Kept, Client
  <2> QED
    BY <1>1, <1>5, <2>1, QuietStack
<1> QED
  BY <1>3, <1>4, <1>5 DEF OnStreamed

\* Client::request() writes to a connection that owes nothing.
LEMMA ClientRequestBelongs ==
  ASSUME Safe, Belongs, ClientRequest
  PROVE  Belongs'
<1> DEFINE c == Top.c
           r == Top.r
           n == req[r].netloc
           cl == client[c]
           again == cl.conn = "connected" /\ cl.netloc = n /\ r \notin Closing
           file == FileFrom(r, 1)
           field == IF Form[r] = <<>> THEN cl.field ELSE file
           e == [cl EXCEPT !.netloc = n, !.conn = IF again THEN cl.conn ELSE "connecting",
                           !.weak = FALSE, !.request = r, !.expects = TRUE, !.field = field,
                           !.owed = Append(IF again THEN cl.owed ELSE <<>>, r)]
<1>1. At("request")
  BY Zenon DEF ClientRequest
<1>2. /\ Top \in Frame /\ Top.pc = "request" /\ stack \in Seq(Frame) /\ stack # <<>>
      /\ Frames(stack) = {Top} \cup Frames(Tail(stack))
  BY <1>1, OnTop
<1>3. c \in Clients /\ r \in Requests
  BY <1>2, FrameFields
<1>4. client \in [Clients -> Client] /\ cl \in Client
  BY <1>3 DEF Safe, TypeOK
<1>5. \A f \in Frames(stack) : f.pc = "on_read" => f.buf = <<>>
  BY <1>2, AllTaken
<1>6. CASE stack' = Unwound /\ UNCHANGED client
  <2>1. Frames(stack') \subseteq Frames(Tail(stack))
    BY <1>2, <1>6, Caught DEF Safe
  <2> QED
    BY <1>2, <1>6, <2>1, SameClients, QuietStack
<1>7. ASSUME cl.request = 0, client' = [client EXCEPT ![c] = e], Goto(<<>>)
      PROVE  Belongs'
  <2>1. cl.owed = <<>>
    BY <1>3, <1>5, <1>7 DEF Belongs, Owes, Fits
  <2>2. e.request = r /\ e.owed = <<r>> /\ e.redirectCanceled = cl.redirectCanceled
    <3>1. e.request = r /\ e.redirectCanceled = cl.redirectCanceled
          /\ e.owed = Append(IF again THEN cl.owed ELSE <<>>, r)
      BY <1>4 DEF Client
    <3>2. Append(IF again THEN cl.owed ELSE <<>>, r) = Append(<<>>, r)
      BY <2>1
    <3>3. Append(<<>>, r) = <<r>>
      OBVIOUS
    <3> QED
      BY <3>1, <3>2, <3>3
  <2> HIDE DEF e
  <2>3. \A d \in Clients : client'[d] = IF d = c THEN e ELSE client[d]
    BY <1>3, <1>4, <1>7
  <2>4. Frames(stack') \subseteq Frames(stack)
    BY <1>1, <1>2, <1>7, Returns
  <2>5. r # 0
    BY <1>3, BoundsAssumption DEF Requests
  <2>6. Answered' /\ Unread'
    BY <1>5, <2>4 DEF Belongs, Answered, Unread
  <2>7. Owes'
    <3> SUFFICES ASSUME NEW d \in Clients PROVE Fits(d)'
      BY DEF Owes
    <3>1. CASE d = c
      BY <2>2, <2>3, <2>5, <3>1 DEF Fits
    <3>2. CASE d # c
      BY <1>5, <2>3, <3>2 DEF Belongs, Owes, Fits
    <3> QED
      BY <3>1, <3>2
  <2>8. Moves'
    <3> SUFFICES ASSUME NEW f \in Frames(stack'), f.pc = "redirected", ~f.close,
                        ~client'[f.c].redirectCanceled
                 PROVE  client'[f.c].owed = <<>>
      BY DEF Moves
    <3>1. f \in Frames(stack) /\ f.c \in Clients
      BY <1>2, <2>4, FramesAreFrames, FrameFields
    <3>2. ~client[f.c].redirectCanceled
      BY <2>2, <2>3, <3>1
    <3>3. client[f.c].request # 0 /\ client[f.c].owed = <<>>
      BY <3>1, <3>2 DEF Safe, Coherent, Redirecting, Belongs, Moves
    <3> QED
      BY <1>7, <2>3, <3>1, <3>3
  <2> QED
    BY <2>6, <2>7, <2>8 DEF Belongs
<1>8. ASSUME client' = [client EXCEPT ![c] = IF @.conn = "connected" THEN Reset(@) ELSE @], stack' = Unwound
      PROVE  Belongs'
  <2>1. Frames(stack') \subseteq Frames(stack)
    BY <1>2, <1>8, Caught DEF Safe
  <2>2. \A d \in Clients : /\ Kept(d) \/ Cleared(d)
                          /\ client'[d].redirectCanceled = client[d].redirectCanceled
    BY <1>3, <1>4, <1>8 DEF Kept, Cleared, Reset, Client
  <2>3. \A f \in Frames(stack') : f.pc = "redirected" => f.c \in Clients
    BY <1>2, <2>1, FramesAreFrames, FrameFields
  <2> QED
    BY <1>5, <2>1, <2>2, <2>3, Quiet
<1> QED
  BY <1>6, <1>7, <1>8, Zenon DEF ClientRequest

\* on_read() is called: what comes is for the request that the client waits with.
LEMMA ArrivesBelongs ==
  ASSUME Safe, Belongs, stack = <<>>, NEW c \in Clients, client[c].conn = "connected",
         NEW buf \in Seq(Messages), Len(buf) <= 1, NEW f \in Frame,
         f.pc = "on_read", f.c = c, f.buf = buf, f.from = Due(client[c]), stack' = <<f>>,
         \A d \in Clients : d # c => client'[d] = client[d],
         client'[c].request = client[c].request, client'[c].expects = client[c].expects,
         client'[c].conn = client[c].conn,
         client'[c].owed = client[c].owed \/ (client'[c].owed = Tail(client[c].owed) /\ client[c].owed # <<>>),
         buf = <<>> \/ Head(buf) \in {"part", "continue"} => client'[c].owed = client[c].owed,
         buf # <<>> /\ Head(buf) \in {"ok", "redirect"} /\ client[c].owed # <<>>
             => client'[c].owed = Tail(client[c].owed)
  PROVE  Belongs'
<1>1. Frames(stack) = {} /\ Frames(stack') = {f}
  BY Empty, FewFrames
<1>2. \A d \in Clients : Fits(d)
  BY <1>1 DEF Belongs, Owes
<1>3. client[c] \in Client
  BY DEF Safe, TypeOK
<1>4. client[c].expects => client[c].request # 0 /\ client[c].owed = <<client[c].request>>
  BY <1>2 DEF Safe, Coherent, Expecting, Fits
<1>5. ASSUME client[c].expects PROVE f.from = client[c].request
  <2>1. client[c].owed = <<client[c].request>>
    BY <1>4, <1>5
  <2>2. <<client[c].request>> # <<>> /\ Head(<<client[c].request>>) = client[c].request
    OBVIOUS
  <2> QED
    BY <2>1, <2>2 DEF Due
<1>6. ASSUME client[c].expects, buf # <<>>, Head(buf) \in {"ok", "redirect"}
      PROVE  client'[c].owed = <<>>
  <2>1. client[c].owed = <<client[c].request>>
    BY <1>4, <1>6
  <2>2. <<client[c].request>> # <<>> /\ Tail(<<client[c].request>>) = <<>>
    OBVIOUS
  <2> QED
    BY <1>6, <2>1, <2>2
<1>7. ASSUME buf = <<>> \/ Head(buf) \in {"part", "continue"}
      PROVE  Fits(c)'
  <2>1. client'[c].owed = client[c].owed /\ Fits(c)
    BY <1>2, <1>7
  <2> QED
    BY <2>1 DEF Fits
<1>8. buf # <<>> => Tail(buf) = <<>>
  OBVIOUS
<1>9. Answered' /\ Moves'
  BY <1>1 DEF Answered, Moves
<1>10. Unread'
  BY <1>1, <1>5, <1>6, <1>7, <1>8 DEF Unread
<1>11. Owes'
  <2> SUFFICES ASSUME NEW d \in Clients PROVE Fits(d)' \/ (d = c /\ buf # <<>>)
    BY <1>1 DEF Owes
  <2> QED
    BY <1>2, <1>7 DEF Fits
<1> QED
  BY <1>9, <1>10, <1>11 DEF Belongs

\* on_read() with one message at most.
LEMMA OnReadBelongs ==
  ASSUME Safe, Belongs, OneEach, NEW c \in Clients, NEW buf \in Buffers, OnRead(c, buf)
  PROVE  Belongs'
<1> DEFINE f == OnReadFrame(c, buf, Due(client[c]))
           o == IF Range(buf) \subseteq {"continue", "part", "bad"} \/ client[c].owed = <<>>
                THEN client[c].owed ELSE Tail(client[c].owed)
<1>1. /\ stack = <<>> /\ client[c].conn = "connected" /\ stack' = <<f>>
      /\ client' = [client EXCEPT ![c].owed = o]
  BY DEF OnRead, Loop
<1>2. client \in [Clients -> Client] /\ client[c] \in Client /\ buf \in Seq(Messages) /\ Len(buf) <= 1
  BY EnvironmentAssumption DEF Safe, TypeOK, OneEach
<1>3. f \in Frame /\ f.pc = "on_read" /\ f.c = c /\ f.buf = buf /\ f.from = Due(client[c])
  BY <1>2, DueIsRequest, MadeFrames DEF OnReadFrame
<1>4. ASSUME buf = <<>> \/ Head(buf) \in {"part", "continue"}
      PROVE  Range(buf) \subseteq {"continue", "part", "bad"}
  <2>1. \A i \in DOMAIN buf : i = 1 /\ buf # <<>> /\ buf[i] = Head(buf)
    BY <1>2
  <2> QED
    BY <1>4, <2>1 DEF Range
<1>5. ASSUME buf # <<>>, Head(buf) \in {"ok", "redirect"}
      PROVE  ~(Range(buf) \subseteq {"continue", "part", "bad"})
  <2>1. 1 \in DOMAIN buf /\ buf[1] = Head(buf)
    BY <1>2, <1>5
  <2>2. Head(buf) \in Range(buf)
    BY <2>1 DEF Range
  <2> QED
    BY <1>5, <2>2
<1>6. /\ \A d \in Clients : d # c => client'[d] = client[d]
      /\ client'[c].request = client[c].request /\ client'[c].expects = client[c].expects
      /\ client'[c].conn = client[c].conn /\ client'[c].owed = o
  <2> HIDE DEF o
  <2> QED
    BY <1>1, <1>2 DEF Client
<1> HIDE DEF f
<1> QED
  BY <1>1, <1>2, <1>3, <1>4, <1>5, <1>6, ArrivesBelongs

\* The end of the stream is taken for the rest of the response.
LEMMA OnEofBelongs ==
  ASSUME Safe, Belongs, NEW c \in Clients, NEW m \in {"bad", "close", "redirect_close"}, OnEof(c, m)
  PROVE  Belongs'
<1> DEFINE f == OnReadFrame(c, <<m>>, Due(client[c]))
<1>1. stack = <<>> /\ client[c].conn = "connected"
  BY DEF OnEof, Loop
<1>2. client \in [Clients -> Client] /\ client[c] \in Client /\ Frames(stack) = {}
  BY <1>1, Empty DEF Safe, TypeOK
<1>3. CASE client' = [client EXCEPT ![c] = Reset(@)] /\ UNCHANGED stack
  <2>1. \A d \in Clients : IF d = c THEN Cleared(d) ELSE Kept(d)
    BY <1>2, <1>3 DEF Kept, Cleared, Reset, Client
  <2> QED
    BY <1>2, <1>3, <2>1, Quiet
<1>4. CASE stack' = <<f>> /\ UNCHANGED client
  <2> DEFINE buf == <<m>>
  <2>1. buf \in Seq(Messages) /\ Len(buf) <= 1 /\ buf # <<>> /\ Head(buf) = m
    BY DEF Messages
  <2>2. f = OnReadFrame(c, buf, Due(client[c]))
    OBVIOUS
  <2> HIDE DEF buf
  <2>3. f \in Frame /\ f.pc = "on_read" /\ f.c = c /\ f.buf = buf /\ f.from = Due(client[c])
    BY <1>2, <2>1, <2>2, DueIsRequest, MadeFrames DEF OnReadFrame
  <2> HIDE DEF f
  <2> QED
    BY <1>1, <1>4, <2>1, <2>3, ArrivesBelongs
<1> QED
  BY <1>3, <1>4 DEF OnEof

\* A new pool.
LEMMA InitBelongs ==
  ASSUME Init
  PROVE  Belongs
<1>1. Frames(stack) = {} /\ \A c \in Clients : client[c].request = 0 /\ client[c].owed = <<>>
  BY Empty DEF Init, NewClient
<1> QED
  BY <1>1 DEF Belongs, Answered, Unread, Owes, Moves, Fits

\* Every step keeps responses and requests together.
LEMMA BelongsStep ==
  ASSUME Safe, Belongs, OneEach, [Next]_vars
  PROVE  Belongs'
<1>1. CASE UNCHANGED vars
  BY <1>1, SettingBelongs DEF vars
<1>2. CASE Internal
  BY <1>2, ReadEndBelongs, ParseErrorBelongs, InterimBelongs, CompleteBelongs, RedirectedBelongs, WeakenBelongs,
     ClientRequestBelongs, PoolRequestBelongs, PutbackBelongs, FinishAndNotifyBelongs, EraseBelongs,
     DestroyListBelongs, AbortQueuedBelongs, DestroyEndBelongs, Zenon DEF Internal
<1>3. CASE Return
  BY <1>3, SameClients, ReturnsQuietly DEF Return, Leave
<1>4. CASE \E host \in Hosts \cup {""} : Redirect(host)
  BY <1>4, RedirectBelongs
<1>5. CASE Event
  BY <1>5, OnConnectBelongs, OnErrorBelongs, OnReadBelongs, OnEofBelongs, OnTimerBelongs, OnStreamedBelongs,
     CheckInactivityBelongs, Zenon DEF Event
<1>6. CASE User
  <2>1. CASE RestoreContext \/ (\E m \in Limits : SetMaxConnections(m)) \/ (\E on \in BOOLEAN : SetIdleTimeout(on))
    <3>1. UNCHANGED <<client, stack>>
      BY <2>1 DEF RestoreContext, SetMaxConnections, SetIdleTimeout
    <3> QED
      BY <3>1, SettingBelongs
  <2> QED
    BY <1>6, <2>1, SubmitBelongs, CancelCallBelongs, SendChunkBelongs, ThrowInRedirectBelongs, DestroyBelongs,
       Zenon DEF User
<1> QED
  BY <1>1, <1>2, <1>3, <1>4, <1>5, <1>6, Zenon DEF Next, Step

\* A response is reported only to the request it was sent for, whatever the
\* callbacks do, if each read brings one message at most: a callback between two
\* messages of one buffer can move the client on to another request (on_read,
\* set_context_request).
THEOREM ResponseAlwaysBelongs ==
  ASSUME OneEach
  PROVE  Spec => []ResponseBelongs
<1> DEFINE Inv == Safe /\ ListsCounted /\ LimitHolds /\ Belongs
<1>1. Init => Inv
  <2> SUFFICES ASSUME Init PROVE Inv
    OBVIOUS
  <2> QED
    BY InitSafe, LimitInit, InitBelongs
<1>2. Inv /\ [Next]_vars => Inv'
  <2> SUFFICES ASSUME Inv, [Next]_vars PROVE Inv'
    OBVIOUS
  <2> QED
    BY SafeStep, LimitStep, BelongsStep
<1>3. Inv => ResponseBelongs
  <2> SUFFICES ASSUME Inv, NEW i \in DOMAIN stack, stack[i].pc = "callback", stack[i].ok
               PROVE  stack[i].from = stack[i].r
    BY DEF ResponseBelongs
  <2>1. stack[i] \in Frames(stack)
    BY DEF Safe, TypeOK, Frames
  <2> QED
    BY <2>1 DEF Belongs, Answered
<1> QED
  BY <1>1, <1>2, <1>3, PTL DEF Spec
=============================================================================
