--------------------------- MODULE PoolIdleProofs ---------------------------
(***************************************************************************)
(* Proofs about PoolIdle, for every word size, every set of timeouts and    *)
(* any number of clients: an idle connection is dropped in time, and not    *)
(* before its time unless the unsigned difference wraps round.              *)
(***************************************************************************)
EXTENDS PoolIdle, TLAPS

\* A difference of times that is not negative does not wrap round.
LEMMA NoWrap == ASSUME NEW x \in 0 .. Word - 1 PROVE x % Word = x
  BY ClockAssumption, SMT

\* The later of two times.
LEMMA MaxOfTwo ==
  ASSUME NEW a \in Int, NEW b \in Int
  PROVE  Max({a, b}) \in Int /\ Max({a, b}) = IF a >= b THEN a ELSE b
  BY SMT DEF Max

\* The idle timer has a period, at most Second and at most the timeout.
LEMMA PeriodType ==
  ASSUME NEW t \in Timeouts, t # 0
  PROVE  Period(t) \in 1 .. Second /\ Period(t) <= t
  BY ClockAssumption, SMT DEF Period

\* Every variable of the pool keeps its type.
THEOREM TypeCorrect == Spec => []TypeOK
<1> USE ClockAssumption
<1>1. Init => TypeOK
  BY SMT DEF Init, TypeOK, FiresNext, Period
<1>2. TypeOK /\ [Next]_vars => TypeOK'
  <2> SUFFICES ASSUME TypeOK, [Next]_vars PROVE TypeOK'
    OBVIOUS
  <2> USE DEF TypeOK
  <2>1. ASSUME NEW t \in Timeouts PROVE FiresNext(t) \in 0 .. Word
    BY SMT DEF FiresNext, Period
  <2>2. CASE Tick
    BY <2>2, SMT DEF Tick
  <2>3. ASSUME NEW t \in Timeouts, SetTimeout(t) PROVE TypeOK'
    BY <2>1, <2>3, SMT DEF SetTimeout
  <2>4. ASSUME NEW c \in Clients, Take(c) PROVE TypeOK'
    BY <2>4, SMT DEF Take
  <2>5. ASSUME NEW c \in Clients, Putback(c) PROVE TypeOK'
    BY <2>5, SMT DEF Putback
  <2>6. CASE CheckInactivity
    BY <2>1, <2>6, SMT DEF CheckInactivity
  <2>7. CASE UNCHANGED vars
    BY <2>7 DEF vars
  <2> QED
    BY <2>2, <2>3, <2>4, <2>5, <2>6, <2>7 DEF Next
<1> QED
  BY <1>1, <1>2, PTL DEF Spec

-----------------------------------------------------------------------------
(* Dropped in time *)

\* The timer is due within its period, and before any free client has been idle
\* for the timeout and a period.
TimerSoon ==
  /\ since <= now
  /\ \A c \in Clients : last[c] <= now
  /\ timeout # 0 =>
       /\ now <= due /\ due <= now + Period(timeout)
       /\ \A c \in Clients : client[c] = "free" =>
              \/ due <= last[c] + timeout + Period(timeout)
              \/ due <= since + timeout + Period(timeout)

\* What check_inactivity() leaves was in use within the timeout.
LEMMA KeptIsFresh ==
  ASSUME TypeOK, NEW c \in Clients, client[c] = "free", ~Inactive(c), last[c] <= now
  PROVE  now <= last[c] + timeout
<1> USE ClockAssumption DEF TypeOK
<1>1. CASE now >= timeout
  <2>1. now - timeout \in 0 .. Word - 1
    BY <1>1, SMT
  <2>2. (now - timeout) % Word = now - timeout
    BY <2>1, NoWrap
  <2> QED
    BY <2>2, SMT DEF Inactive
<1>2. CASE now < timeout
  BY <1>2, SMT
<1> QED
  BY <1>1, <1>2, SMT

\* The timer is due soon whatever is done to the pool.
LEMMA TimerSoonStep == TypeOK /\ TypeOK' /\ TimerSoon /\ [Next]_vars => TimerSoon'
<1> SUFFICES ASSUME TypeOK, TypeOK', TimerSoon, [Next]_vars PROVE TimerSoon'
  OBVIOUS
<1> USE ClockAssumption DEF TypeOK
<1>0. ASSUME NEW t \in Timeouts, t # 0 PROVE Period(t) \in 1 .. Second /\ Period(t) <= t
  BY <1>0, PeriodType
<1>1. CASE Tick
  BY <1>0, <1>1, SMT DEF Tick, TimerSoon
<1>2. ASSUME NEW t \in Timeouts, SetTimeout(t) PROVE TimerSoon'
  BY <1>0, <1>2, SMT DEF SetTimeout, TimerSoon, FiresNext
<1>3. ASSUME NEW c \in Clients, Take(c) PROVE TimerSoon'
  BY <1>0, <1>3, SMT DEF Take, TimerSoon
<1>4. ASSUME NEW c \in Clients, Putback(c) PROVE TimerSoon'
  BY <1>0, <1>4, SMT DEF Putback, TimerSoon
<1>5. CASE CheckInactivity
  <2>1. \A c \in Clients : client'[c] = "free" => client[c] = "free" /\ ~Inactive(c)
    BY <1>5, SMT DEF CheckInactivity
  <2>2. \A c \in Clients : client'[c] = "free" => now <= last[c] + timeout
    BY <2>1, KeptIsFresh DEF TimerSoon
  <2>3. UNCHANGED <<now, timeout, last, since>> /\ due' = FiresNext(timeout)
    BY <1>5 DEF CheckInactivity
  <2> QED
    BY <1>0, <2>2, <2>3, SMT DEF TimerSoon, FiresNext
<1>6. CASE UNCHANGED vars
  BY <1>6 DEF vars, TimerSoon
<1> QED
  BY <1>1, <1>2, <1>3, <1>4, <1>5, <1>6 DEF Next

\* A connection that nobody uses goes at the latest one period after its timeout
\* (check_inactivity, idle_timeout).
THEOREM DroppedInTime == Spec => []IdleDropped
<1> USE ClockAssumption
<1>1. Init => TimerSoon
  <2> SUFFICES ASSUME Init PROVE TimerSoon
    OBVIOUS
  <2>1. timeout # 0 => Period(timeout) \in 1 .. Second
    BY PeriodType DEF Init
  <2> QED
    BY <2>1, SMT DEF Init, TimerSoon, FiresNext
<1>2. TypeOK /\ TimerSoon => IdleDropped
  <2> SUFFICES ASSUME TypeOK, TimerSoon, timeout # 0, NEW c \in Clients, client[c] = "free"
               PROVE  now <= Max({last[c], since}) + timeout + Period(timeout)
    BY DEF IdleDropped
  <2> USE DEF TypeOK
  <2>1. Period(timeout) \in 1 .. Second
    BY PeriodType
  <2>2. last[c] \in Int /\ since \in Int
    BY SMT
  <2>3. Max({last[c], since}) = IF last[c] >= since THEN last[c] ELSE since
    BY <2>2, MaxOfTwo
  <2> QED
    BY <2>1, <2>2, <2>3, SMT DEF TimerSoon
<1> QED
  BY <1>1, <1>2, TypeCorrect, TimerSoonStep, PTL DEF Spec

-----------------------------------------------------------------------------
(* Not before its time *)

\* When the loop's clock is past every timeout the user sets, a connection goes
\* only after it was idle for longer than the timeout (check_inactivity): its
\* remove_time does not wrap round.
THEOREM FreshAreKept ==
  ASSUME \A t \in Timeouts : t <= Start
  PROVE  Spec => FreshKept
<1> USE ClockAssumption
<1> DEFINE Kept == \A c \in Clients : client[c] = "free" /\ client'[c] = "none" => now - last[c] > timeout
<1>1. TypeOK /\ [Next]_vars => [Kept]_vars
  <2> SUFFICES ASSUME TypeOK, Next, NEW c \in Clients, client[c] = "free", client'[c] = "none"
               PROVE  now - last[c] > timeout
    OBVIOUS
  <2> USE DEF TypeOK
  <2>1. CheckInactivity
    BY SMT DEF Next, Tick, SetTimeout, Take, Putback
  <2>2. Inactive(c)
    BY <2>1, SMT DEF CheckInactivity
  <2>3. now - timeout \in 0 .. Word - 1
    BY SMT
  <2>4. (now - timeout) % Word = now - timeout
    BY <2>3, NoWrap
  <2> QED
    BY <2>2, <2>4, SMT DEF Inactive
<1> QED
  BY <1>1, TypeCorrect, PTL DEF Spec, FreshKept
=============================================================================
