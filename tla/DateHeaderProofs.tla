-------------------------- MODULE DateHeaderProofs --------------------------
(***************************************************************************)
(* Proofs about DateHeader: the cached text is always that of a second that *)
(* began after the loop's time it is filed under (Cached), so a text that   *)
(* is not outdated is current, whatever the clock does in between, and      *)
(* also where the subtraction of date_header_now() wraps around.            *)
(***************************************************************************)
EXTENDS DateHeader, TLAPS

\* The loop's time is behind the clock by Lag at most, and the clock stays
\* within Moments (Tick, Turn).
Clocks ==
    /\ time \in Nat /\ now \in Nat
    /\ Start <= now /\ now <= time /\ time - now <= Lag
    /\ SecondAt(time) <= Len(Moments)

\* The text was made no earlier than the time it is filed under
\* (date_header_now 183-186).
Cached ==
    /\ hdateTime \in Nat
    /\ hdateTime # 0 =>
           \E t \in Start .. time :
               hdateTime <= t /\ hdateStr = rfc822_date(Moments[SecondAt(t)])

-----------------------------------------------------------------------------
(* Arithmetic *)

\* The quotient of a division.
LEMMA DivBounds ==
    ASSUME NEW a \in Nat, NEW b \in Nat \ {0}
    PROVE  /\ a \div b \in Nat
           /\ b * (a \div b) <= a
           /\ a < b * (a \div b) + b
  BY SMT

\* A larger number has no smaller quotient.
LEMMA DivMonotone ==
    ASSUME NEW a \in Nat, NEW c \in Nat, a <= c, NEW b \in Nat \ {0}
    PROVE  a \div b <= c \div b
  BY SMT

\* A larger number of terms has no smaller product.
LEMMA TimesMonotone ==
    ASSUME NEW a \in Nat, NEW c \in Nat, a <= c, NEW b \in Nat
    PROVE  a * b <= c * b
<1>1. PICK d \in Nat : c = a + d
  BY SMT
<1>2. c * b = a * b + d * b
  BY <1>1, SMT
<1>3. d * b \in Nat /\ a * b \in Nat
  BY SMT
<1> QED
  BY <1>2, <1>3, SMT

\* The remainder of a number that is in range already.
LEMMA ModSmall ==
    ASSUME NEW a \in Nat, NEW b \in Nat, a < b
    PROVE  a % b = a
  BY SMT

\* What was made at time t, before end, under a time h that is less than s
\* behind now, is less than s + lag old.
LEMMA Age ==
    ASSUME NEW end \in Int, NEW t \in Int, NEW h \in Int, NEW n \in Int, NEW s \in Int,
           NEW lag \in Int, NEW tm \in Int, h <= t, t <= end, n < h + s, tm - n <= lag
    PROVE  tm - end < s + lag
  BY SMT

-----------------------------------------------------------------------------
(* The text *)

\* The name of a day tells the day.
LEMMA DayRead ==
    ASSUME NEW w \in 0 .. 6
    PROVE  (CHOOSE d \in 0 .. 6 : day_snames[d + 1] = day_snames[w + 1]) = w
<1>1. \A d \in 0 .. 6 : day_snames[d + 1] = day_snames[w + 1] => d = w
  BY SMT DEF day_snames
<1> QED
  BY <1>1

\* The name of a month tells the month.
LEMMA MonthRead ==
    ASSUME NEW w \in 0 .. 11
    PROVE  (CHOOSE m \in 0 .. 11 : month_snames[m + 1] = month_snames[w + 1]) = w
<1>1. \A m \in 0 .. 11 : month_snames[m + 1] = month_snames[w + 1] => m = w
  BY SMT DEF month_snames
<1> QED
  BY <1>1

\* Two digits are enough for a number below 100.
LEMMA DigitsRead ==
    ASSUME NEW k \in 0 .. 99
    PROVE  10 * (k \div 10) + (k % 10) = k
  BY SMT

\* Four digits are enough for a year.
LEMMA YearRead ==
    ASSUME NEW k \in Years
    PROVE  /\ k = 1000 * (k \div 1000) + (k % 1000)
           /\ k % 1000 = 100 * ((k % 1000) \div 100) + (k % 100)
           /\ k % 100 = 10 * ((k % 100) \div 10) + (k % 10)
           /\ {k, k % 1000, k % 100, k % 10, k \div 1000, (k % 1000) \div 100, (k % 100) \div 10} \subseteq Int
  BY SMT DEF Years

\* What is written is read back: rfc822_date() loses nothing and mixes no two
\* fields (rfc822_date 194-237).
THEOREM TextIsExact == \A dt \in DateTime : Read(rfc822_date(dt)) = dt
<1> TAKE dt \in DateTime
<1> DEFINE str == rfc822_date(dt)
<1>1. /\ str[1] = day_snames[dt.wday + 1] /\ str[4] = month_snames[dt.mon + 1]
      /\ str[2] = dt.mday \div 10 /\ str[3] = dt.mday % 10
      /\ str[5] = dt.year \div 1000 /\ str[6] = (dt.year % 1000) \div 100
      /\ str[7] = (dt.year % 100) \div 10 /\ str[8] = dt.year % 10
      /\ str[9] = dt.hour \div 10 /\ str[10] = dt.hour % 10
      /\ str[11] = dt.min \div 10 /\ str[12] = dt.min % 10
      /\ str[13] = dt.sec \div 10 /\ str[14] = dt.sec % 10
  BY DEF rfc822_date
<1>0. dt = [wday |-> dt.wday, mday |-> dt.mday, mon |-> dt.mon, year |-> dt.year,
            hour |-> dt.hour, min |-> dt.min, sec |-> dt.sec]
  BY SMTT(20) DEF DateTime
<1>2. dt.wday \in 0 .. 6 /\ dt.mon \in 0 .. 11
  BY DEF DateTime
<1>11. dt.year \in Years
  BY DEF DateTime
<1>12. dt.mday \in 0 .. 99 /\ dt.hour \in 0 .. 99
  BY DEF DateTime
<1>13. dt.min \in 0 .. 99 /\ dt.sec \in 0 .. 99
  BY DEF DateTime
<1> HIDE DEF str
<1>3. (CHOOSE d \in 0 .. 6 : day_snames[d + 1] = str[1]) = dt.wday
  BY <1>1, <1>2, DayRead
<1>4. (CHOOSE m \in 0 .. 11 : month_snames[m + 1] = str[4]) = dt.mon
  BY <1>1, <1>2, MonthRead
<1>5. 10 * str[2] + str[3] = dt.mday
  <2>1. 10 * (dt.mday \div 10) + (dt.mday % 10) = dt.mday
    BY <1>12, DigitsRead
  <2>2. str[2] = dt.mday \div 10 /\ str[3] = dt.mday % 10
    BY <1>1
  <2> QED
    BY <2>1, <2>2
<1>6. 10 * str[9] + str[10] = dt.hour
  <2>1. 10 * (dt.hour \div 10) + (dt.hour % 10) = dt.hour
    BY <1>12, DigitsRead
  <2>2. str[9] = dt.hour \div 10 /\ str[10] = dt.hour % 10
    BY <1>1
  <2> QED
    BY <2>1, <2>2
<1>7. 10 * str[11] + str[12] = dt.min
  <2>1. 10 * (dt.min \div 10) + (dt.min % 10) = dt.min
    BY <1>13, DigitsRead
  <2>2. str[11] = dt.min \div 10 /\ str[12] = dt.min % 10
    BY <1>1
  <2> QED
    BY <2>1, <2>2
<1>8. 10 * str[13] + str[14] = dt.sec
  <2>1. 10 * (dt.sec \div 10) + (dt.sec % 10) = dt.sec
    BY <1>13, DigitsRead
  <2>2. str[13] = dt.sec \div 10 /\ str[14] = dt.sec % 10
    BY <1>1
  <2> QED
    BY <2>1, <2>2
<1>9. 1000 * str[5] + 100 * str[6] + 10 * str[7] + str[8] = dt.year
  <2> DEFINE y == dt.year
  <2>1. y \in Years
    BY <1>11
  <2>2. /\ str[5] = y \div 1000 /\ str[6] = (y % 1000) \div 100
        /\ str[7] = (y % 100) \div 10 /\ str[8] = y % 10
    BY <1>1
  <2> HIDE DEF y
  <2>3. /\ y = 1000 * str[5] + (y % 1000) /\ y % 1000 = 100 * str[6] + (y % 100)
        /\ y % 100 = 10 * str[7] + str[8]
    BY <2>1, <2>2, YearRead
  <2>4. {y, y % 1000, y % 100, str[5], str[6], str[7], str[8]} \subseteq Int
    BY <2>1, <2>2, YearRead
  <2>5. 1000 * str[5] + 100 * str[6] + 10 * str[7] + str[8] = y
    BY <2>3, <2>4
  <2> QED
    BY <2>5 DEF y
<1>10. Read(str) = [wday |-> dt.wday, mday |-> dt.mday, mon |-> dt.mon, year |-> dt.year,
                   hour |-> dt.hour, min |-> dt.min, sec |-> dt.sec]
  <2> HIDE DEF str
  <2> QED
    BY <1>3, <1>4, <1>5, <1>6, <1>7, <1>8, <1>9, ZenonT(30) DEF Read
<1> QED
  BY <1>0, <1>10 DEF str

-----------------------------------------------------------------------------
(* The cache *)

\* The second of a time within Moments, and what its number says of the time.
LEMMA SecondBounds ==
    ASSUME Clocks, NEW t \in Start .. time
    PROVE  /\ SecondAt(t) \in 1 .. SecondAt(time) /\ SecondAt(t) \in DOMAIN Moments
           /\ t <= Start + SecondAt(t) * Second - 1
           /\ t < Word
<1> USE ClockAssumption
<1>1. /\ t - Start \in Nat /\ time - Start \in Nat /\ t - Start <= time - Start
      /\ Start \in Nat /\ Second \in Nat \ {0} /\ Len(Moments) \in Nat /\ t \in Nat /\ Word \in Nat
  BY SMT DEF Clocks
<1>2. (t - Start) \div Second \in Nat /\ (time - Start) \div Second \in Nat
  BY <1>1, DivBounds
<1>3. t - Start < Second * ((t - Start) \div Second) + Second
  BY <1>1, DivBounds
<1>4. (t - Start) \div Second <= (time - Start) \div Second
  BY <1>1, DivMonotone
<1>5. (time - Start) \div Second + 1 <= Len(Moments)
  BY DEF Clocks, SecondAt
<1> HIDE ClockAssumption
<1>6. SecondAt(t) \in 1 .. SecondAt(time) /\ SecondAt(t) \in 1 .. Len(Moments)
  BY <1>1, <1>2, <1>4, <1>5 DEF SecondAt
<1>7. t - Start < ((t - Start) \div Second + 1) * Second
  BY <1>1, <1>2, <1>3, SMT
<1>8. t <= Start + SecondAt(t) * Second - 1
  BY <1>1, <1>2, <1>7, SMT DEF SecondAt
<1>9. ((t - Start) \div Second + 1) * Second <= Len(Moments) * Second
  <2> DEFINE k == (t - Start) \div Second + 1
  <2>1. k \in Nat /\ k <= Len(Moments)
    BY <1>1, <1>2, <1>4, <1>5
  <2> HIDE DEF k
  <2>2. k * Second <= Len(Moments) * Second
    BY <1>1, <2>1, TimesMonotone
  <2> QED
    BY <2>2 DEF k
<1>10. t < Word
  BY <1>1, <1>2, <1>7, <1>9, ClockAssumption, SMT
<1> QED
  BY <1>6, <1>8, <1>10, ClockAssumption

\* The Date of a response, read back, is a moment that has come and that is less
\* than a second and one turn of the loop old, for every clock, every lag and
\* also in the first second, where now - Second wraps around
\* (date_header_now 182-188, rfc822_date 194-237).
THEOREM DateAlwaysCurrent == Spec => []DateIsCurrent
<1> DEFINE Inv == Clocks /\ Cached /\ DateIsCurrent
<1> USE ClockAssumption
<1>1. Init => Inv
  <2> SUFFICES ASSUME Init PROVE Inv
    OBVIOUS
  <2>1. Len(Moments) \in Nat \ {0}
    OBVIOUS
  <2>2. SecondAt(Start) = 1
    BY SMT DEF SecondAt
  <2>3. Clocks
    BY <2>1, <2>2, SMT DEF Init, Clocks
  <2> QED
    BY <2>3 DEF Init, Cached, DateIsCurrent
<1>2. Inv /\ [Next]_vars => Inv'
  <2> SUFFICES ASSUME Inv, [Next]_vars PROVE Inv'
    OBVIOUS
  <2>1. CASE Tick
    <3>1. Clocks'
      BY <2>1, SMT DEF Tick, Clocks, SecondAt
    <3>2. Start .. time \subseteq Start .. time'
      BY <2>1, SMT DEF Tick, Clocks
    <3>3. Cached'
      BY <2>1, <3>2 DEF Tick, Cached
    <3> QED
      BY <2>1, <3>1, <3>3 DEF Tick, DateIsCurrent
  <2>2. CASE Turn
    <3>1. Clocks'
      BY <2>2, SMT DEF Turn, Clocks, SecondAt
    <3> QED
      BY <2>2, <3>1 DEF Turn, Cached, DateIsCurrent
  <2>3. CASE DateHeaderNow
    <3>1. Clocks' /\ time' = time
      BY <2>3 DEF DateHeaderNow, Clocks, SecondAt
    <3>2. PICK t \in Start .. time :
              /\ hdateTime' <= t /\ hdateStr' = rfc822_date(Moments[SecondAt(t)])
              /\ now < hdateTime' + Second /\ hdateTime' \in Nat
      <4>1. CASE Outdated
        <5>1. hdateTime' = now /\ hdateStr' = rfc822_date(Moments[SecondAt(time)])
          BY <2>3, <4>1 DEF DateHeaderNow
        <5>2. time \in Start .. time /\ now <= time /\ now < now + Second /\ now \in Nat
          BY SMT DEF Clocks
        <5> QED
          BY <5>1, <5>2
      <4>2. CASE ~Outdated
        <5>1. /\ hdateTime' = hdateTime /\ hdateStr' = hdateStr /\ hdateTime # 0
              /\ ~(hdateTime <= (now - Second) % Word)
          BY <2>3, <4>2 DEF DateHeaderNow, Outdated
        <5>2. PICK t \in Start .. time :
                  hdateTime <= t /\ hdateStr = rfc822_date(Moments[SecondAt(t)])
          BY <5>1 DEF Cached
        <5>3. hdateTime \in Nat /\ now \in Nat /\ now \in Start .. time
          BY SMT DEF Cached, Clocks
        <5>4. CASE now < Second
          BY <5>1, <5>2, <5>3, <5>4, SMT
        <5>5. CASE ~(now < Second)
          <6>1. now - Second \in Nat /\ now - Second < Word
            BY <5>3, <5>5, SecondBounds, SMT
          <6>2. (now - Second) % Word = now - Second
            BY <6>1, ModSmall
          <6> QED
            BY <5>1, <5>2, <5>3, <6>2, SMT
        <5> QED
          BY <5>4, <5>5
      <4> QED
        BY <4>1, <4>2
    <3>3. Cached'
      BY <3>1, <3>2 DEF Cached
    <3>4. DateIsCurrent'
      <4> DEFINE i == SecondAt(t)
      <4>1. i \in 1 .. SecondAt(time) /\ i \in DOMAIN Moments /\ t <= Start + i * Second - 1
        BY SecondBounds
      <4>2. Moments[i] \in DateTime
        BY <4>1
      <4>3. sent' = rfc822_date(Moments[i])
        BY <2>3, <3>2 DEF DateHeaderNow
      <4>4. Read(sent') = Moments[i]
        BY <4>2, <4>3, TextIsExact
      <4>5. i \in Int
        BY <4>1 DEF Clocks, SecondAt
      <4> HIDE DEF i
      <4>6. time - (Start + i * Second - 1) < Second + Lag
        <5> DEFINE end == Start + i * Second - 1
        <5>1. end \in Int
          BY <4>5
        <5>2. t <= end
          BY <4>1
        <5>3. t \in Int /\ {time, now, Second, Lag, hdateTime'} \subseteq Int /\ time - now <= Lag
          BY <3>2, SMT DEF Clocks
        <5> HIDE DEF end
        <5>4. time - end < Second + Lag
          BY <3>2, <5>1, <5>2, <5>3, Age
        <5> QED
          BY <5>4 DEF end
      <4>7. i \in (1 .. SecondAt(time))'
        BY <3>1, <4>1 DEF SecondAt
      <4> QED
        BY <3>1, <4>4, <4>6, <4>7 DEF DateIsCurrent
    <3> QED
      BY <3>1, <3>3, <3>4
  <2>4. CASE UNCHANGED vars
    BY <2>4 DEF vars, Clocks, Cached, DateIsCurrent, SecondAt
  <2> QED
    BY <2>1, <2>2, <2>3, <2>4 DEF Next
<1> QED
  BY <1>1, <1>2, PTL DEF Spec
=============================================================================
