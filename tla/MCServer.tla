------------------------------ MODULE MCServer ------------------------------
(* Instances of Server for TLC: what the user does in which callback. *)
EXTENDS Server

In(events, calls) == [ev \in Events |-> IF ev \in events THEN calls ELSE {}]

Silent == In({}, {})
StopInCallbacks == In({"connect", "request", "run"}, {"stop", "graceful", "configure", "answer", "listen"})
Restarting == In({"stop"}, {"run"})
=============================================================================
