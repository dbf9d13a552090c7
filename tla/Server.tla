------------------------------- MODULE Server -------------------------------
(***************************************************************************)
(* The life of a Server (Server.cc, Server.h): running, stopping, stopping  *)
(* gracefully, and starting again, with the connections it owns.  A         *)
(* connection is reduced to what the server can tell of it; the module      *)
(* ServerConnection has the rest.  The stack is the call stack, innermost   *)
(* frame first, as in ServerConnection.                                     *)
(***************************************************************************)
EXTENDS Integers, Sequences, FiniteSetsExt

CONSTANTS
    MaxConnections,   \* bound: connections accepted in one behaviour
    MaxRuns,          \* bound: calls of run()
    LoopCalls,        \* calls the user makes from the event loop
    HandlerCalls,     \* calls the user makes inside each kind of callback
    BindFailures      \* start_listening() may fail at one of its locations

Calls == {"run", "stop", "graceful", "configure", "answer", "listen", "destroy"}
Events == {"run", "connect", "request", "drop", "stop"}

ASSUME BoundsAssumption ==
    /\ {MaxConnections, MaxRuns} \subseteq Nat \ {0}
    /\ LoopCalls \subseteq Calls
    /\ HandlerCalls \in [Events -> SUBSET Calls]
    /\ BindFailures \in BOOLEAN

VARIABLES
    state,      \* _state, and "destroyed"
    listeners,  \* _listeners holds none, some or all of the locations
    muted,      \* history: the user's last word on listening is stop_listening()
    lastid,     \* the id of the newest connection
    conn,       \* what each connection is doing; "none": not in _connections
    runs,       \* how often run() was called
    stack       \* the call stack

vars == <<state, listeners, muted, lastid, conn, runs, stack>>

Conns == 1 .. MaxConnections

\* idle and busy: it has no request or has some; stopping: busy and to be
\* closed after that; shut: it waits for on_shutdown; closed: its stream is
\* reset and it is about to be removed.
Connection == {"none", "idle", "busy", "stopping", "shut", "closed"}

Frame ==
    [pc : {"stop", "~Server"}] \cup [pc : {"remove"}, c : Conns]
    \cup [pc : {"callback"}, ev : Events, c : 0 .. MaxConnections]

TypeOK ==
    /\ state \in {"initial", "running", "stopping", "destroyed"}
    /\ listeners \in {"none", "some", "all"}
    /\ muted \in BOOLEAN
    /\ lastid \in 0 .. MaxConnections
    /\ conn \in [Conns -> Connection]
    /\ runs \in 0 .. MaxRuns
    /\ stack \in Seq(Frame)

Callback(ev, c) == [pc |-> "callback", ev |-> ev, c |-> c]
Remove(c) == [pc |-> "remove", c |-> c]
CloseAll(pc) == [pc |-> pc]

Top == Head(stack)
At(pc) == stack # <<>> /\ Top.pc = pc
Loop == stack = <<>>
Goto(fs) == stack' = fs \o Tail(stack)

UserMay(call) ==
    \/ Loop /\ state # "destroyed" /\ call \in LoopCalls
    \/ At("callback") /\ call \in HandlerCalls[Top.ev]

\* The keys of _connections.
Members == {c \in Conns : conn[c] # "none"}

Init ==
    /\ state = "initial"
    /\ listeners = "none"
    /\ muted = FALSE
    /\ lastid = 0
    /\ conn = [c \in Conns |-> "none"]
    /\ runs = 0
    /\ stack = <<>>

-----------------------------------------------------------------------------
(* run, configure, stop, graceful_stop and the destructor *)

\* start_listening() in the place of what is listening now: all locations, or
\* those before the one that could not be bound and an exception.
StartListening ==
    listeners' \in {"all"} \cup (IF BindFailures THEN {"none", "some"} ELSE {})

\* run(): the state is set before start_listening() can throw.
Run ==
    /\ UserMay("run") /\ state = "initial" /\ runs < MaxRuns
    /\ runs' = runs + 1
    /\ state' = "running"
    /\ muted' = FALSE
    /\ \/ /\ listeners # "none"
          /\ UNCHANGED <<listeners, stack>>
       \/ /\ listeners = "none"
          /\ StartListening
          /\ stack' = IF listeners' = "all" THEN <<Callback("run", 0)>> \o stack ELSE stack
    /\ UNCHANGED <<lastid, conn>>

\* MUTANT: a running server stops listening and does not start again.
ConfigureQuiet ==
    /\ UserMay("configure") /\ state = "running"
    /\ listeners' = "none"
    /\ muted' = FALSE
    /\ UNCHANGED <<state, lastid, conn, runs, stack>>

\* configure() of a running server listens anew.
Configure ==
    /\ UserMay("configure") /\ state = "running"
    /\ StartListening
    /\ muted' = FALSE
    /\ UNCHANGED <<state, lastid, conn, runs, stack>>

\* start_listening() and stop_listening() of a running server by the user.
Listen(on) ==
    /\ UserMay("listen") /\ state = "running"
    /\ IF on THEN listeners = "none" /\ StartListening ELSE listeners' = "none"
    /\ muted' = ~on
    /\ UNCHANGED <<state, lastid, conn, runs, stack>>

Stop ==
    /\ UserMay("stop") /\ state # "initial"
    /\ listeners' = "none"
    /\ stack' = <<CloseAll("stop")>> \o stack
    /\ UNCHANGED <<state, muted, lastid, conn, runs>>

HasRequest(c) == conn[c] \in {"busy", "stopping"}

\* close() of a connection: its requests are dropped, then it is removed.
CloseFrames(c) ==
    (IF HasRequest(c) THEN <<Callback("drop", c)>> ELSE <<>>) \o <<Remove(c)>>

\* ~Server(): the last reference goes; a request would hold one.
Destroy ==
    /\ UserMay("destroy") /\ Loop /\ \A c \in Conns : ~HasRequest(c)
    /\ stack' = <<CloseAll("~Server")>>
    /\ UNCHANGED <<state, listeners, muted, lastid, conn, runs>>

\* A turn of the loop over _connections in stop() and ~Server(), and what
\* follows the loop.
StopLoop ==
    /\ At("stop") \/ At("~Server")
    /\ \/ /\ Members # {}
          /\ conn' = [conn EXCEPT ![Min(Members)] = "closed"]
          /\ Goto(CloseFrames(Min(Members)) \o <<Top>>)
          /\ UNCHANGED <<state, listeners>>
       \/ /\ Members = {} /\ Top.pc = "stop"
          /\ state' = "initial"
          /\ Goto(<<Callback("stop", 0)>>)
          /\ UNCHANGED <<conn, listeners>>
       \/ /\ Members = {} /\ Top.pc = "~Server"
          /\ state' = "destroyed" /\ listeners' = "none"
          /\ Goto(<<>>)
          /\ UNCHANGED conn
    /\ UNCHANGED <<muted, lastid, runs>>

\* MUTANT: a connection that waits for on_shutdown is told again.
ToldAgain(s) == CASE s = "idle" -> "shut" [] s \in {"busy", "shut"} -> "stopping" [] OTHER -> s

\* ServerConnection::graceful_stop(): at once if it is idle, else later.
Told(s) == CASE s = "idle" -> "shut" [] s = "busy" -> "stopping" [] OTHER -> s

\* MUTANT: the server goes on listening.
GracefulStopListening ==
    /\ UserMay("graceful") /\ state = "running"
    /\ conn' = [c \in Conns |-> Told(conn[c])]
    /\ state' = IF Members = {} THEN "initial" ELSE "stopping"
    /\ stack' = IF Members = {} THEN <<Callback("stop", 0)>> \o stack ELSE stack
    /\ UNCHANGED <<listeners, muted, lastid, runs>>

\* graceful_stop(): one step, for no connection calls the user back when told.
GracefulStop ==
    /\ UserMay("graceful") /\ state = "running"
    /\ listeners' = "none"
    /\ conn' = [c \in Conns |-> Told(conn[c])]
    /\ state' = IF Members = {} THEN "initial" ELSE "stopping"
    /\ stack' = IF Members = {} THEN <<Callback("stop", 0)>> \o stack ELSE stack
    /\ UNCHANGED <<muted, lastid, runs>>

\* MUTANT: the last connection goes and nobody looks.
RemoveOnly ==
    /\ At("remove")
    /\ conn' = [conn EXCEPT ![Top.c] = "none"]
    /\ Goto(<<>>)
    /\ UNCHANGED <<state, listeners, muted, lastid, runs>>

\* remove(): the last connection of a stopping server ends the stop.
RemoveConnection ==
    /\ At("remove")
    /\ LET done == state = "stopping" /\ Members \subseteq {Top.c}
       IN  /\ conn' = [conn EXCEPT ![Top.c] = "none"]
           /\ state' = IF done THEN "initial" ELSE state
           /\ Goto(IF done THEN <<Callback("stop", 0)>> ELSE <<>>)
    /\ UNCHANGED <<listeners, muted, lastid, runs>>

-----------------------------------------------------------------------------
(* Connections *)

OnEstablish ==
    /\ Loop /\ listeners # "none" /\ lastid < MaxConnections
    /\ lastid' = lastid + 1
    /\ conn' = [conn EXCEPT ![lastid'] = "idle"]
    /\ stack' = <<Callback("connect", lastid')>>
    /\ UNCHANGED <<state, listeners, muted, runs>>

Receive(c) ==
    /\ Loop /\ conn[c] = "idle"
    /\ conn' = [conn EXCEPT ![c] = "busy"]
    /\ stack' = <<Callback("request", c)>>
    /\ UNCHANGED <<state, listeners, muted, lastid, runs>>

\* The last request is answered and finished: finish_request().
Answer(c, last) ==
    /\ UserMay("answer") /\ HasRequest(c)
    /\ conn' = [conn EXCEPT ![c] = IF last \/ @ = "stopping" THEN "shut" ELSE "idle"]
    /\ UNCHANGED <<state, listeners, muted, lastid, runs, stack>>

OnEof(c) ==
    /\ Loop /\ conn[c] \in {"idle", "busy", "stopping"}
    /\ conn' = [conn EXCEPT ![c] = "shut"]
    /\ stack' = IF HasRequest(c) THEN <<Callback("drop", c)>> ELSE <<>>
    /\ UNCHANGED <<state, listeners, muted, lastid, runs>>

OnShutdown(c) ==
    /\ Loop /\ conn[c] = "shut"
    /\ stack' = <<Remove(c)>>
    /\ UNCHANGED <<state, listeners, muted, lastid, conn, runs>>

\* A failed write or a timeout closes the connection.
Close(c) ==
    /\ Loop /\ conn[c] # "none"
    /\ conn' = [conn EXCEPT ![c] = "closed"]
    /\ stack' = CloseFrames(c)
    /\ UNCHANGED <<state, listeners, muted, lastid, runs>>

Return ==
    /\ At("callback")
    /\ Goto(<<>>)
    /\ UNCHANGED <<state, listeners, muted, lastid, conn, runs>>

-----------------------------------------------------------------------------
(* The specification *)

Step == StopLoop \/ RemoveConnection \/ Return

Next ==
    \/ Step
    \/ Run \/ Configure \/ Stop \/ GracefulStop \/ Destroy
    \/ \E on \in BOOLEAN : Listen(on)
    \/ OnEstablish
    \/ \E c \in Conns :
           \/ Receive(c) \/ OnEof(c) \/ OnShutdown(c) \/ Close(c)
           \/ \E last \in BOOLEAN : Answer(c, last)

Spec == Init /\ [][Next]_vars

\* Code that was entered runs on, and a shutdown completes even if other events
\* keep coming in between.  Nothing is assumed of the peers or of the user.
Fairness == WF_vars(Step) /\ \A c \in Conns : SF_vars(OnShutdown(c))

FairSpec == Spec /\ Fairness

-----------------------------------------------------------------------------
(* Properties *)

Life == INSTANCE ConnectionLife WITH
            phase <- [c \in Conns |-> IF c > lastid THEN "new"
                                      ELSE IF conn[c] = "none" THEN "gone" ELSE conn[c]]

Stopping(s) == s # <<>> /\ Head(s) = Callback("stop", 0)

\* stop_event tells the end of a run once: it is not fired for a server that
\* is already in its initial state (stop 54-61, _stop_if_done 143-148).
StopOnce == [][Stopping(stack') /\ Len(stack') >= Len(stack) /\ stack' # stack
                   => state # "initial"]_vars

\* Between events the state tells the truth: a server listens exactly while it
\* runs and the user has not stopped it from listening since it last ran or was
\* configured; one that has stopped or is destroyed has let go of all its
\* connections, and one that is stopping gracefully has some left to wait for
\* (run 47-52, configure 29-45, stop 54-61, graceful_stop 63-73,
\* stop_listening 149-159, _stop_if_done Server.h 143-148).
StateHonest ==
    Loop => /\ listeners = IF state = "running" /\ ~muted THEN "all" ELSE "none"
            /\ state \in {"initial", "destroyed"} => Members = {}
            /\ state = "stopping" => Members # {}

\* A server that stops gracefully only drains: until it has stopped it accepts no
\* connection and no connection takes up a request, whatever is done to it from
\* the loop or inside callbacks (graceful_stop 63-73, stop_listening 149-159,
\* ServerConnection::graceful_stop 324-333).
GracefulDrains ==
    [][state = "stopping" /\ state' = "stopping"
           => /\ Members' \subseteq Members
              /\ \A c \in Conns : HasRequest(c)' => HasRequest(c)]_vars

\* The destructor calls nobody back (Server.cc 22-23).
QuietDestructor == At("callback") => \A i \in DOMAIN stack : stack[i].pc # "~Server"

\* Every connection goes through the life ConnectionLife allows, whatever is done
\* to the server, and one that was shut or closed leaves it (remove 138-141).
ConnectionsLive == Life!Promise

\* A graceful stop ends when nothing waits for an answer of the user.
GracefulEnds ==
    [](state = "stopping" => <>(state # "stopping" \/ \E c \in Conns : HasRequest(c)))
=============================================================================
