---------------------------- MODULE SyncRequest ----------------------------
(***************************************************************************)
(* http_request_sync() (http.icc) on top of the pool of ClientPool.  The    *)
(* thread has a loop of its own, which runs only inside a call: between     *)
(* two calls nothing is read, no timer fires, and servers go on closing     *)
(* the connections that the pool keeps.                                     *)
(***************************************************************************)
EXTENDS ClientPool

CONSTANT
    ReuseRequests   \* the user calls again with a request of an earlier call

ASSUME ReuseAssumption == ReuseRequests \in BOOLEAN

VARIABLES
    at,      \* where the call is: "out" of it, in its first "turn", in run()
    call,    \* the request of the present or the last call, 0 before the first
    ret,     \* the local variable ret
    eof,     \* what each server did with its end: nothing, or closed it "before"
             \* the present call or "during" it, which the client has not read yet
    dead     \* the requests with a callback that refers to the ret of a call
             \* that has returned

frame == <<at, call, ret, eof, dead>>
syncVars == <<vars, frame>>

SyncTypeOK ==
    /\ at \in {"out", "turn", "run"}
    /\ call \in 0 .. MaxRequests
    /\ ret \in {"none", "unset", "response", "error"}
    /\ eof \in [Clients -> {"no", "before", "during"}]
    /\ dead \subseteq Requests

SyncInit ==
    /\ Init
    /\ at = "out" /\ call = 0 /\ ret = "none"
    /\ eof = [c \in Clients |-> "no"]
    /\ dead = {}

\* Nothing is left to read on a connection that was given up.
StillOpen(ends) == [c \in Clients |-> IF client'[c].conn = "connected" THEN ends[c] ELSE "no"]

PeerCloses(c) ==
    /\ client[c].conn = "connected" /\ eof[c] = "no" /\ "eof" \in Failures
    /\ eof' = [eof EXCEPT ![c] = IF at = "out" THEN "before" ELSE "during"]
    /\ UNCHANGED <<vars, at, call, ret, dead>>

\* The BusyGuard admits one call at a time; ret gets its callback.
SyncCall(r) ==
    /\ at = "out" /\ submits[r] < MaxSubmits
    /\ ReuseRequests \/ r \notin dead
    /\ submits' = [submits EXCEPT ![r] = @ + 1]
    /\ at' = "turn" /\ call' = r /\ ret' = "unset"
    /\ UNCHANGED <<pool, slots, client, req, stack, fault, eof, dead>>

\* MUTANT: the request is submitted at once.
TurnSkipped ==
    /\ at = "turn"
    /\ at' = "run" /\ stack' = <<PoolRequestFrame(call)>>
    /\ UNCHANGED <<pool, slots, client, req, submits, fault, call, ret, eof, dead>>

\* run(NOWAIT_FORCE) unless the pool is empty: on_eof() of every connection that
\* was closed; then pool->request().
Turn ==
    /\ at = "turn"
    /\ client' = [c \in Clients |->
                      IF lists # {} /\ eof[c] # "no" /\ client[c].request = 0
                      THEN Reset(client[c]) ELSE client[c]]
    /\ eof' = StillOpen(eof)
    /\ at' = "run" /\ stack' = <<PoolRequestFrame(call)>>
    /\ UNCHANGED <<pool, slots, req, submits, fault, call, ret, dead>>

\* What the code, the loop's events and the user's callbacks do inside run().
\* ret is set when the response callbacks of the call's request are over.
Runs(action) ==
    /\ at = "run" /\ action
    /\ ret' = IF At("callback") /\ Top.ev = "response" /\ Top.r = call /\ stack' = Tail(stack)
              THEN IF Top.ok THEN "response" ELSE "error"
              ELSE ret
    /\ eof' = StillOpen(eof)
    /\ UNCHANGED <<at, call, dead>>

\* A connection is read up to its end.
SyncEvent ==
    \/ \E c \in Clients :
           \/ Runs(OnConnect(c)) \/ Runs(OnError(c))
           \/ eof[c] = "no" /\ \E buf \in Buffers : Runs(OnRead(c, buf))
           \/ eof[c] # "no" /\ \E m \in {"bad", "close", "redirect_close"} : Runs(OnEof(c, m))
    \/ \E old \in SUBSET UNION {free[n] : n \in NetLocs} : Runs(CheckInactivity(old))

\* The handles that keep run() going: connections and timers that are not weak.
Strong ==
    \/ \E c \in Clients : client[c].conn # "closed" /\ ~client[c].weak
    \/ \E r \in Requests : req[r].timer

\* MUTANT: run(ONCE) instead of run().
SyncReturnOnce ==
    /\ at = "run" /\ Loop
    /\ at' = "out" /\ dead' = dead \cup {call}
    /\ UNCHANGED <<vars, call, ret, eof>>

\* run() is over when nothing strong is left: the call returns ret.
SyncReturn ==
    /\ at = "run" /\ Loop /\ ~Strong
    /\ at' = "out" /\ dead' = dead \cup {call}
    /\ UNCHANGED <<vars, call, ret, eof>>

SyncNext ==
    \/ \E r \in Requests : SyncCall(r) \/ Runs(OnTimer(r))
    \/ Turn \/ SyncReturn
    \/ \E c \in Clients : PeerCloses(c)
    \/ SyncEvent \/ Runs(Step) \/ Runs(User)

SyncSpec == SyncInit /\ [][SyncNext]_syncVars

\* As in ClientPool: code that was entered runs on and timers are served.
SyncFairness ==
    /\ WF_syncVars(Turn) /\ WF_syncVars(SyncReturn) /\ WF_syncVars(Runs(Step))
    /\ \A r \in Requests : SF_syncVars(Runs(OnTimer(r)))

SyncFairSpec == SyncSpec /\ SyncFairness

-----------------------------------------------------------------------------
(* Properties *)

\* The call returns the result of its request, and nobody writes to ret after
\* that: no request that is still to be reported is left to a later call
\* (http.icc 31-43 with the references the pool, its timers and connections
\* keep on the loop).
ResultInTime ==
    /\ at = "out" /\ call # 0 => ret # "unset"
    /\ At("callback") /\ Top.ev = "response" => Top.r \notin dead

\* A call does not get a connection that its server closed while no call was in
\* progress, which would fail the request by another one's end of stream
\* (http.icc 38-40, Client::on_eof 300-316).
NoStaleConnection == \A c \in Clients : client[c].request # 0 => eof[c] # "before"

\* run() completes: after the last report no connection or timer holds the loop,
\* and until then a timer does (http.icc 41).
SyncEnds == (at # "out") ~> (at = "out")
=============================================================================
