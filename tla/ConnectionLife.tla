--------------------------- MODULE ConnectionLife ---------------------------
(***************************************************************************)
(* What a connection of the server goes through.  The server knows of its   *)
(* connections no more than this; ServerConnection shows that a connection  *)
(* keeps to it and Server that it relies on nothing else.                   *)
(*                                                                         *)
(* new: not accepted yet.  idle and busy: without and with requests.        *)
(* stopping: it closes after the present request and takes no turn back.    *)
(* shut: its stream is shut down and it waits for on_shutdown.  closed: its *)
(* stream is reset.  gone: the server has forgotten it, for good.           *)
(***************************************************************************)
CONSTANT Conns

VARIABLE phase

Init == phase \in [Conns -> {"new", "idle"}]

Moves ==
    {<<"new", "idle">>, <<"idle", "busy">>, <<"busy", "idle">>, <<"busy", "stopping">>}
    \cup {"idle", "busy", "stopping"} \X {"shut"}
    \cup {"idle", "busy", "stopping", "shut"} \X {"closed"}
    \cup {"shut", "closed"} \X {"gone"}
    \cup {"busy", "stopping"} \X {"gone"}   \* upgrade()

\* One call may move several connections: graceful_stop() tells them all.
Next == \A c \in Conns : phase'[c] # phase[c] => <<phase[c], phase'[c]>> \in Moves

Spec == Init /\ [][Next]_phase

\* A connection that is being closed leaves the server.
Leaves == \A c \in Conns : phase[c] \in {"shut", "closed"} ~> phase[c] = "gone"

Promise == Spec /\ Leaves
=============================================================================
