------------------------- MODULE MCServerConnection -------------------------
(* Instances of ServerConnection for TLC: the kinds of request a run uses. *)
EXTENDS ServerConnection

Plain == [ka |-> TRUE, upg |-> "no", expect |-> FALSE]
NonKA == [Plain EXCEPT !.ka = FALSE]
Upgrading == [Plain EXCEPT !.upg = "exact"]
UpgradingCase == [Plain EXCEPT !.upg = "othercase"]

KeepAliveShapes == {Plain, NonKA}
ExpectShapes == {NonKA, [Plain EXCEPT !.expect = TRUE]}
UpgradeShapes == {Plain, Upgrading}
UpgradeCaseShapes == {Plain, UpgradingCase}

\* What the user does in which callback.
In(events, calls) == [ev \in Events |-> IF ev \in events THEN calls ELSE {}]

\* f and g together.
Both(f, g) == [ev \in Events |-> f[ev] \cup g[ev]]

Answers == In({"request"}, {"respond", "begin", "chunk", "final"})
Partial == In({"route"}, {"partial"})
Handlers ==
    Both(Partial, In({"request", "partial", "error", "partial_error"},
                     {"respond", "begin", "chunk", "final"}))
Droppers ==
    Both(Both(Handlers, In({"route", "receive"}, {"respond", "begin", "chunk", "final"})),
         In({"route", "receive", "request", "partial"}, {"drop"}))
AnswersAndDrops ==
    Both(In({"receive", "request"}, {"respond", "begin", "chunk", "final"}),
         In({"route", "receive", "request"}, {"drop"}))
ErrorDroppers == In({"error"}, {"drop"})
Stoppers == In({"request", "error"}, {"respond", "graceful"})
Upgraders == Both(Answers, In({"request"}, {"upgrade"}))
UpgradeOnly == In({"request"}, {"upgrade"})
FinishAnswers == In({"finish"}, {"begin"})
=============================================================================
