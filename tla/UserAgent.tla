----------------------------- MODULE UserAgent -----------------------------
(***************************************************************************)
(* A UserAgent (UserAgent.cc) on top of the pool of ClientPool: it adds the *)
(* cookies of its jar and its SSL context to every request, again after     *)
(* every redirect, and collects the cookies of every response.  Its         *)
(* handlers were added after the user's, so they run after them, when the   *)
(* callback returns.                                                        *)
(*                                                                         *)
(* A cookie is known by who set it: the user, or the host that sent it.     *)
(***************************************************************************)
EXTENDS ClientPool

CONSTANT
    AgentCtx    \* _config.ssl_ctx, "default" if there is none

ASSUME AgentAssumption == AgentCtx \in {"default", "own"}

VARIABLES
    jar,        \* the cookies the jar has for each host
    cookies,    \* the cookies of each request
    peer        \* the host whose bytes are being processed

agent == <<jar, cookies>>
agentVars == <<vars, agent, peer>>

AgentTypeOK ==
    /\ jar \in [Hosts -> SUBSET Hosts]
    /\ cookies \in [Requests -> SUBSET (Hosts \cup {"user"})]
    /\ peer \in Hosts \cup {""}

AgentInit ==
    /\ Init
    /\ jar = [h \in Hosts |-> {}]
    /\ cookies = [r \in Requests |-> {"user"}]
    /\ peer = ""

\* inject(): the jar's cookies for the request's uri, and the agent's SSL context
\* if the request has none of its own.
Injected(r) == cookies[r] \cup jar'[req[r].netloc.host]

\* MUTANT: a request that is redirected goes on without.
WithContextOnce(q) ==
    IF q.redirects = 0 /\ q.netloc.ctx = "default" THEN [q EXCEPT !.netloc.ctx = AgentCtx] ELSE q

WithContext(q) == IF q.netloc.ctx = "default" THEN [q EXCEPT !.netloc.ctx = AgentCtx] ELSE q

\* collect() of a response that was sent for a uri of host h and sets a cookie
\* or none.
Collect(h, set) == jar' = IF set THEN [jar EXCEPT ![h] = @ \cup {peer}] ELSE jar

\* request()
AgentRequest(r) ==
    /\ UserMay("request") /\ Holds(r)
    /\ alive /\ submits[r] < MaxSubmits /\ ~req[r].pool
    /\ submits' = [submits EXCEPT ![r] = @ + 1]
    /\ req' = [req EXCEPT ![r] = WithContext(@)]
    /\ UNCHANGED jar
    /\ cookies' = [cookies EXCEPT ![r] = Injected(r)]
    /\ stack' = <<PoolRequestFrame(r)>> \o stack
    /\ UNCHANGED <<pool, slots, client, fault, peer>>

\* The agent's handler of response_event.
OnResponse(set) ==
    /\ At("callback") /\ Top.ev = "response" /\ Top.ok
    /\ Collect(req[Top.r].netloc.host, set)
    /\ Goto(<<>>)
    /\ UNCHANGED <<pool, slots, client, req, submits, fault, cookies, peer>>

\* The host of redirect_ctx->uri: the one the redirecting client is at.
PreviousHost == client[stack[2].c].netloc.host

\* The agent's handler of redirect_event; the request has its next uri already.
OnRedirect(set) ==
    /\ At("callback") /\ Top.ev = "redirect"
    /\ Collect(PreviousHost, set)
    /\ cookies' = [cookies EXCEPT ![Top.r] = Injected(Top.r)]
    /\ req' = [req EXCEPT ![Top.r] = WithContext(@)]
    /\ Goto(<<>>)
    /\ UNCHANGED <<pool, slots, client, submits, fault, peer>>

\* Other callbacks return to the client alone.
AgentReturn ==
    /\ Return /\ Top.ev # "redirect" /\ (Top.ev = "response" => ~Top.ok)
    /\ UNCHANGED <<agent, peer>>

\* MUTANT: the cookies follow the redirect.
RedirectKeeps(host) == Redirect(host) /\ UNCHANGED <<agent, peer>>

\* analyze_request() takes the cookies off a request that it redirects.
AgentRedirect(host) ==
    /\ Redirect(host)
    /\ cookies' = IF Head(stack').pc = "callback"
                  THEN [cookies EXCEPT ![client[Top.c].request] = {}] ELSE cookies
    /\ UNCHANGED <<jar, peer>>

AgentRead(c) ==
    /\ \/ \E buf \in Buffers : OnRead(c, buf)
       \/ \E m \in {"bad", "close", "redirect_close"} : OnEof(c, m)
    /\ peer' = client[c].netloc.host
    /\ UNCHANGED agent

AgentNext ==
    \/ \E r \in Requests : AgentRequest(r)
    \/ \E set \in BOOLEAN : OnResponse(set) \/ OnRedirect(set)
    \/ AgentReturn
    \/ \E host \in Hosts \cup {""} : AgentRedirect(host)
    \/ \E c \in Clients : AgentRead(c)
    \/ /\ \/ Internal \/ ThrowInRedirect
          \/ \E c \in Clients : OnConnect(c) \/ OnError(c)
          \/ \E r \in Requests : OnTimer(r) \/ CancelCall(r)
          \/ \E old \in SUBSET UNION {free[n] : n \in NetLocs} : CheckInactivity(old)
       /\ UNCHANGED <<agent, peer>>

AgentSpec == AgentInit /\ [][AgentNext]_agentVars

-----------------------------------------------------------------------------
(* Properties *)

\* The request a client runs and is not about to move, 0 if there is none.
Sent(c) == IF client[c].inRedirect THEN 0 ELSE client[c].request

\* A cookie is only sent to the host that set it, and the user's own ones only
\* to the host the user sent them to, through redirects, queues and repeated
\* requests, although a request has its next uri already when the cookies of a
\* redirect are collected (Client.cc 213-224, UserAgent.cc 12-24, 31-36).
CookiesStayHome ==
    \A c \in Clients : Sent(c) # 0 =>
        \A k \in cookies[Sent(c)] :
            client[c].netloc.host = IF k = "user" THEN Target[Sent(c)].host ELSE k

\* Every request of an agent with an SSL context goes out with a context, also
\* after redirects, which take it off (Client.cc 222, UserAgent.cc 34).
ContextKept ==
    AgentCtx = "own" => \A c \in Clients : Sent(c) # 0 => client[c].netloc.ctx = "own"
=============================================================================
