---------------------------- MODULE MCClientPool ----------------------------
(* Instances of ClientPool for TLC: where requests go, what servers send and *)
(* what the user does in which callback.                                     *)
EXTENDS ClientPool

HostA == [host |-> "a", ctx |-> "default"]
HostB == [host |-> "b", ctx |-> "default"]
OwnCert == [host |-> "a", ctx |-> "own"]

OneHost == [r \in Requests |-> HostA]
TwoHosts == [r \in Requests |-> IF r = MaxRequests THEN HostB ELSE HostA]
OwnCerts == [r \in Requests |-> OwnCert]

NoForm == [r \in Requests |-> <<>>]
Uploads == [NoForm EXCEPT ![2] = <<"file", "field", "file">>]
AllUploads == [r \in Requests |-> <<"file">>]

Answers == {<<"ok">>, <<"close">>}
Streams == {<<"part">>, <<"ok">>, <<"close">>, <<"bad">>}
Redirects == {<<"ok">>, <<"redirect">>, <<"redirect_close">>}
AllKinds == {<<m>> : m \in Messages}
Interims == {<<"continue">>, <<"continue", "ok">>, <<"ok">>}

In(events, calls) == [ev \in Events |-> IF ev \in events THEN calls ELSE {}]
Both(f, g) == [ev \in Events |-> f[ev] \cup g[ev]]

Silent == In({}, {})
Cancelling == In({"partial", "continue", "redirect"}, {"cancel"})
Retrying == In({"response"}, {"request"})
CancelThenThrow == In({"redirect"}, {"cancel", "throw"})
CancelInContinue == In({"continue"}, {"cancel"})
CancelOthers == In({"response"}, {"cancel"})
AgentHandlers == In({"redirect"}, {"throw"})
RedirectHandlers ==
    Both(In({"redirect"}, {"restore", "throw", "destroy"}), In({"partial", "continue"}, {"cancel"}))
=============================================================================
