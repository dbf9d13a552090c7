------------------------------ MODULE PoolIdle ------------------------------
(***************************************************************************)
(* When the pool drops a connection that nobody uses: Pool::idle_timeout()  *)
(* and check_inactivity() with the time they work on, which ClientPool      *)
(* leaves open.  Times are in ticks; they are unsigned, so a difference     *)
(* below zero wraps round.                                                  *)
(***************************************************************************)
EXTENDS Integers, FiniteSets, FiniteSetsExt

CONSTANTS
    Clients,    \* the clients of one list
    Word,       \* times are modulo Word (2^64 in the code)
    Start,      \* the loop's time when the pool is made
    End,        \* bound: the last time of a behaviour
    Second,     \* the longest period of the idle timer (1000 ms)
    Timeouts,   \* the idle timeouts the user sets, 0 for none
    MaxSets     \* bound: how often the user sets one

ASSUME ClockAssumption ==
    /\ {Start, End, MaxSets} \subseteq Nat /\ Second \in Nat \ {0}
    /\ Start < End /\ Word \in Nat /\ End + Second < Word
    /\ Timeouts \subseteq 0 .. Word - 1

VARIABLES
    now,        \* _loop->now()
    timeout,    \* _idle_timeout
    due,        \* when _idle_timer fires next, Word if there is none
    client,     \* "none", "free" or "busy"
    last,       \* _last_activity_time
    sets,       \* how often idle_timeout() was called
    since       \* when it was called last

vars == <<now, timeout, due, client, last, sets, since>>

TypeOK ==
    /\ now \in Start .. End
    /\ timeout \in Timeouts
    /\ due \in 0 .. Word
    /\ client \in [Clients -> {"none", "free", "busy"}]
    /\ last \in [Clients -> 0 .. End]
    /\ sets \in 0 .. MaxSets
    /\ since \in Start .. End

Period(t) == IF t < Second THEN t ELSE Second

\* MUTANT: the timer always has its longest period.
FiresNextSlow(t) == IF t = 0 THEN Word ELSE now + Second + 1

\* When a timer that is started or has just fired is due, for timeout t.
FiresNext(t) == IF t = 0 THEN Word ELSE now + Period(t)

Init ==
    /\ now = Start /\ since = Start
    /\ timeout \in Timeouts
    /\ due = FiresNext(timeout)
    /\ client = [c \in Clients |-> "none"]
    /\ last = [c \in Clients |-> 0]
    /\ sets = 0

\* The loop fires its timers before time goes on.
Tick ==
    /\ now < End /\ due > now
    /\ now' = now + 1
    /\ UNCHANGED <<timeout, due, client, last, sets, since>>

\* idle_timeout(): the timer starts anew, or goes.
SetTimeout(t) ==
    /\ sets < MaxSets
    /\ timeout' = t /\ due' = FiresNext(t)
    /\ sets' = sets + 1 /\ since' = now
    /\ UNCHANGED <<now, client, last>>

\* Pool::request() takes a free client, or makes one if none is free.
Take(c) ==
    /\ \/ client[c] = "free"
       \/ client[c] = "none" /\ \A d \in Clients : client[d] # "free"
    /\ client' = [client EXCEPT ![c] = "busy"]
    /\ UNCHANGED <<now, timeout, due, last, sets, since>>

\* finish_request() and a redirect to another place: the client is put back.
Putback(c) ==
    /\ client[c] = "busy"
    /\ client' = [client EXCEPT ![c] = "free"]
    /\ last' = [last EXCEPT ![c] = now]
    /\ UNCHANGED <<now, timeout, due, sets, since>>

\* MUTANT: a client that was idle for just the timeout goes as well.
InactiveEarly(c) == client[c] = "free" /\ last[c] <= (now - timeout) % Word

\* The clients that check_inactivity() removes.
Inactive(c) == client[c] = "free" /\ last[c] < (now - timeout) % Word

CheckInactivity ==
    /\ due <= now
    /\ client' = [c \in Clients |-> IF Inactive(c) THEN "none" ELSE client[c]]
    /\ due' = FiresNext(timeout)
    /\ UNCHANGED <<now, timeout, last, sets, since>>

Next ==
    \/ Tick \/ CheckInactivity
    \/ \E t \in Timeouts : SetTimeout(t)
    \/ \E c \in Clients : Take(c) \/ Putback(c)

Spec == Init /\ [][Next]_vars

-----------------------------------------------------------------------------
(* Properties *)

\* A connection that nobody uses goes at the latest one period after its
\* timeout, also when the timeout is changed meanwhile (Pool.cc 26-41, 116-131).
IdleDropped ==
    timeout # 0 => \A c \in Clients : client[c] = "free" =>
        now <= Max({last[c], since}) + timeout + Period(timeout)

\* A connection goes only after it was idle for longer than the timeout: the
\* unsigned remove_time must not pass the present (Pool.cc 118, 122).
FreshKept ==
    [][\A c \in Clients : client[c] = "free" /\ client'[c] = "none" => now - last[c] > timeout]_vars
=============================================================================
