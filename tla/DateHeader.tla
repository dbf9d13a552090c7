----------------------------- MODULE DateHeader -----------------------------
(***************************************************************************)
(* The Date header of the server's responses: date_header_now() keeps the   *)
(* text of the current second and rfc822_date() writes it (Server.cc).  The *)
(* age of the text is told by the loop's time, which stands still while a   *)
(* callback runs, and the text itself by the system's clock.                *)
(***************************************************************************)
EXTENDS Integers, Sequences

CONSTANTS
    Word,       \* times are modulo Word (2^64 in the code)
    Second,     \* ticks in a second (1000 ms)
    Start,      \* the loop's time at the start
    Lag,        \* the most ticks one turn of the loop takes
    Moments     \* the seconds the system's clock goes through, as gmtime() has
                \* them

\* rfc822_date() writes four digits of a year.
Years == 1000 .. 9999

DateTime == [wday : 0 .. 6, mday : 1 .. 31, mon : 0 .. 11, year : Years,
             hour : 0 .. 23, min : 0 .. 59, sec : 0 .. 60]

ASSUME ClockAssumption ==
    /\ {Word, Start, Lag} \subseteq Nat /\ Second \in Nat \ {0}
    /\ Moments \in Seq(DateTime) /\ Moments # <<>>
    /\ Start + Len(Moments) * Second < Word

VARIABLES
    time,       \* the time that has passed, which std::time() follows
    now,        \* _loop->now()
    hdateTime,  \* _hdate_time
    hdateStr,   \* _hdate_str
    sent        \* the Date of the response that is being written, <<>> if none is

vars == <<time, now, hdateTime, hdateStr, sent>>

day_snames == <<"Sun", "Mon", "Tue", "Wed", "Thu", "Fri", "Sat">>
month_snames == <<"Jan", "Feb", "Mar", "Apr", "May", "Jun", "Jul", "Aug", "Sep", "Oct", "Nov", "Dec">>

\* The names and digits in the order they are written, without separators.
rfc822_date(dt) ==
    <<day_snames[dt.wday + 1], dt.mday \div 10, dt.mday % 10, month_snames[dt.mon + 1],
      dt.year \div 1000, (dt.year % 1000) \div 100, (dt.year % 100) \div 10, dt.year % 10,
      dt.hour \div 10, dt.hour % 10, dt.min \div 10, dt.min % 10, dt.sec \div 10, dt.sec % 10>>

\* The number of the second in Moments at time t.
SecondAt(t) == (t - Start) \div Second + 1

Init ==
    /\ time = Start /\ now = Start
    /\ hdateTime = 0 /\ hdateStr = <<>>
    /\ sent = <<>>

\* Time passes while the loop sleeps or a callback runs.
Tick ==
    /\ time - now < Lag /\ SecondAt(time + 1) <= Len(Moments)
    /\ time' = time + 1 /\ sent' = <<>>
    /\ UNCHANGED <<now, hdateTime, hdateStr>>

\* The loop's next turn takes the time.
Turn ==
    /\ now' = time /\ sent' = <<>>
    /\ UNCHANGED <<time, hdateTime, hdateStr>>

\* MUTANT: the text is made once.
OutdatedNever == hdateTime = 0

Outdated == hdateTime = 0 \/ hdateTime <= (now - Second) % Word

\* date_header_now(), for a response that is about to be written.
DateHeaderNow ==
    /\ hdateTime' = IF Outdated THEN now ELSE hdateTime
    /\ hdateStr' = IF Outdated THEN rfc822_date(Moments[SecondAt(time)]) ELSE hdateStr
    /\ sent' = hdateStr'
    /\ UNCHANGED <<time, now>>

Next == Tick \/ Turn \/ DateHeaderNow

Spec == Init /\ [][Next]_vars

-----------------------------------------------------------------------------
(* Properties *)

\* What a reader of a date makes of it, field by field.
Read(str) ==
    [wday |-> CHOOSE d \in 0 .. 6 : day_snames[d + 1] = str[1],
     mday |-> 10 * str[2] + str[3],
     mon  |-> CHOOSE m \in 0 .. 11 : month_snames[m + 1] = str[4],
     year |-> 1000 * str[5] + 100 * str[6] + 10 * str[7] + str[8],
     hour |-> 10 * str[9] + str[10],
     min  |-> 10 * str[11] + str[12],
     sec  |-> 10 * str[13] + str[14]]

\* The Date of a response, read back, is a moment that has come and that is less
\* than a second and one turn of the loop old (date_header_now 182-188,
\* rfc822_date 194-237).
DateIsCurrent ==
    sent # <<>> =>
        \E i \in 1 .. SecondAt(time) :
            /\ Read(sent) = Moments[i]
            /\ time - (Start + i * Second - 1) < Second + Lag
=============================================================================
