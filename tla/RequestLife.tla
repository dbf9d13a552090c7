---------------------------- MODULE RequestLife ----------------------------
(***************************************************************************)
(* What the client promises for every request a user hands to it.  A       *)
(* request is with the user (idle), on its way to a connection (placing),   *)
(* waiting for one (queued), on one (running) or about to be reported back  *)
(* (ending).  Only a request that was submitted is ever put on a            *)
(* connection, a redirect takes it off and places it again, and it returns  *)
(* to the user by one report per submission, which is sure to come.         *)
(***************************************************************************)
EXTENDS Integers

CONSTANT Requests

VARIABLES
    phase,
    submitted   \* how often the user submitted each request

Phases == {"idle", "placing", "queued", "running", "ending"}

Init ==
    /\ phase = [r \in Requests |-> "idle"]
    /\ submitted = [r \in Requests |-> 0]

Move(r, from, to) ==
    /\ phase[r] = from
    /\ phase' = [phase EXCEPT ![r] = to]

Submit(r) ==
    /\ Move(r, "idle", "placing")
    /\ submitted' = [submitted EXCEPT ![r] = @ + 1]

Enqueue(r) == Move(r, "placing", "queued")
Dequeue(r) == Move(r, "queued", "placing")
Run(r) == Move(r, "placing", "running")
Redirect(r) == Move(r, "running", "placing")
Finish(r) == Move(r, "running", "ending")
Report(r) == \E from \in {"ending", "queued"} : Move(r, from, "idle")

\* What happens to a request without the user's doing.
Progress(r) ==
    /\ Enqueue(r) \/ Dequeue(r) \/ Run(r) \/ Redirect(r) \/ Finish(r) \/ Report(r)
    /\ UNCHANGED submitted

Next == \E r \in Requests : Submit(r) \/ Progress(r)

Spec == Init /\ [][Next]_<<phase, submitted>>

\* Every request that is with the client comes back to the user (finish_and_notify
\* 37-48, reached from every end of a request).
Returns == \A r \in Requests : phase[r] # "idle" ~> phase[r] = "idle"

\* The whole promise: the steps a request may take and its return.
Promise == Spec /\ Returns
=============================================================================
