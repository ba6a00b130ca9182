---------------------------- MODULE BrowserProxy ----------------------------
(***************************************************************************)
(* The browser's gateway to the run API (bff/app.py, bff/proxy.py,          *)
(* bff/security.py).                                                        *)
(*                                                                         *)
(* A request is checked, takes a slot of its user and suspends until the    *)
(* gateway behind it answers; an event stream keeps its slot until it is    *)
(* closed, which its generator and its response both see to, in either      *)
(* order, and a generator left at a yield only when it is collected.        *)
(***************************************************************************)
EXTENDS Naturals, FiniteSets, FiniteSetsExt

CONSTANTS
  Users, GatewayRuns,
  Pending,          \* requests the browsers may have under way
  MaxSessions, MaxBound, MaxConnections, ConnectionsPerUser,
  MaxLogins         \* bound: logins

NoUser == "nobody"

ASSUME ProxyAssumption ==
  /\ NoUser \notin Users
  /\ IsFiniteSet(Users) /\ IsFiniteSet(GatewayRuns) /\ IsFiniteSet(Pending)
  /\ {MaxSessions, MaxBound, MaxConnections, ConnectionsPerUser, MaxLogins} \subseteq Nat

VARIABLES
  sessions,         \* the sessions there are, [id, user]
  logins,           \* sessions created so far
  runs,             \* run -> [user, live]: the bindings, live until their time is up
  pendingCreates, connections,
  request           \* [at, kind, user, session, owed, closed]

proxyVars == <<sessions, logins, runs, pendingCreates, connections, request>>

NoRun == "none"
NoSession == [id |-> 0, user |-> NoUser]
Free == [at |-> "idle", kind |-> "none", user |-> NoUser, session |-> NoSession,
         owed |-> {}, closed |-> FALSE]
Unowned == [user |-> NoUser, live |-> FALSE]

ProxyInit ==
  /\ sessions = {} /\ logins = 0
  /\ runs = [r \in GatewayRuns |-> Unowned]
  /\ pendingCreates = 0 /\ connections = [u \in Users |-> 0]
  /\ request = [q \in Pending |-> Free]

-----------------------------------------------------------------------------
\* login: whatever session the browser's cookie names is revoked, whoever it was.
Login(u, cookie) ==
  LET others == sessions \ {cookie} IN
  /\ logins < MaxLogins
  /\ IF Cardinality(others) < MaxSessions
     THEN sessions' = others \cup {[id |-> logins + 1, user |-> u]} /\ logins' = logins + 1
     ELSE sessions' = others /\ UNCHANGED logins
  /\ UNCHANGED <<runs, pendingCreates, connections, request>>

\* logout, or the session's time is up.
EndSession(s) ==
  /\ sessions' = sessions \ {s}
  /\ UNCHANGED <<logins, runs, pendingCreates, connections, request>>

\* run_ttl passes.
Expire(r) ==
  /\ runs[r].live /\ runs' = [runs EXCEPT ![r].live = FALSE]
  /\ UNCHANGED <<sessions, logins, pendingCreates, connections, request>>

-----------------------------------------------------------------------------
Pruned == [r \in GatewayRuns |-> IF runs[r].live THEN runs[r] ELSE Unowned]
Held(bindings) == {r \in GatewayRuns : bindings[r] # Unowned}
CanAcquire(u) ==
  /\ MapThenSumSet(LAMBDA v : connections[v], Users) < MaxConnections
  /\ connections[u] < ConnectionsPerUser
Acquire(u) == connections' = [connections EXCEPT ![u] = @ + 1]
Released(u) == connections' = [connections EXCEPT ![u] = IF @ = 0 THEN 0 ELSE @ - 1]
Asking(kind, s) ==
  [Free EXCEPT !.at = "asking", !.kind = kind, !.user = s.user, !.session = s]

\* create_run is authorized before it reads its body, and the session may end
\* while it does.
Reads(q, s) ==
  /\ request[q] = Free
  /\ request' = [request EXCEPT ![q] = [Asking("create", s) EXCEPT !.at = "reading"]]
  /\ UNCHANGED <<sessions, logins, runs, pendingCreates, connections>>

\* The body, its schema or the rate is refused.
TurnDown(q) ==
  /\ request[q].at = "reading" /\ request' = [request EXCEPT ![q] = Free]
  /\ UNCHANGED <<sessions, logins, runs, pendingCreates, connections>>

\* GatewayProxy.create up to the gateway's answer; a refusal has pruned.
Create(q) ==
  LET u == request[q].user
  IN /\ request[q].at = "reading" /\ runs' = Pruned
     /\ IF Cardinality(Held(Pruned)) + pendingCreates < MaxBound /\ CanAcquire(u)
        THEN /\ Acquire(u) /\ pendingCreates' = pendingCreates + 1
             /\ request' = [request EXCEPT ![q].at = "asking"]
        ELSE request' = [request EXCEPT ![q] = Free] /\ UNCHANGED <<connections, pendingCreates>>
     /\ UNCHANGED <<sessions, logins>>

\* query, and events, which may become a stream: the run must be the user's.
Ask(q, s, r) ==
  /\ request[q] = Free /\ runs' = Pruned
  /\ IF Pruned[r].user = s.user /\ CanAcquire(s.user)
     THEN Acquire(s.user) /\ request' = [request EXCEPT ![q] = Asking("ask", s)]
     ELSE UNCHANGED <<connections, request>>
  /\ UNCHANGED <<sessions, logins, pendingCreates>>

\* The gateway names a run, the same one for a repeated key; a run that is bound
\* to another user is turned down, like an error and a timeout.
CreateEnds(q, r) ==
  LET u == request[q].user
  IN /\ request[q].at = "asking" /\ request[q].kind = "create"
     /\ runs' = IF r \in GatewayRuns /\ runs[r].user \in {u, NoUser}
                THEN [runs EXCEPT ![r] = [user |-> u, live |-> TRUE]] ELSE runs
     /\ pendingCreates' = pendingCreates - 1 /\ Released(u)
     /\ request' = [request EXCEPT ![q] = Free] /\ UNCHANGED <<sessions, logins>>

AskEnds(q) ==
  /\ request[q].at = "asking" /\ request[q].kind # "create"
  /\ Released(request[q].user) /\ request' = [request EXCEPT ![q] = Free]
  /\ UNCHANGED <<sessions, logins, runs, pendingCreates>>

\* The response is there; its generator may never be started.
StreamOpens(q) ==
  /\ request[q].at = "asking" /\ request[q].kind = "ask"
  /\ request' = [request EXCEPT ![q].at = "open", ![q].owed = {"response"}]
  /\ UNCHANGED <<sessions, logins, runs, pendingCreates, connections>>

\* A chunk is passed while the session that asked is there.
Chunk(q) ==
  /\ request[q].at \in {"open", "streaming"}
  /\ request' = [request EXCEPT
       ![q].at = IF request[q].session \in sessions THEN "streaming" ELSE "ending",
       ![q].owed = {"response", "body"}]
  /\ UNCHANGED <<sessions, logins, runs, pendingCreates, connections>>

\* The gateway ends or breaks off, the time is up, or the browser leaves, maybe
\* before the generator began.
StreamEnds(q) ==
  /\ request[q].at \in {"open", "streaming"}
  /\ \E owed \in {request[q].owed, {"response", "body"}} :
       request' = [request EXCEPT ![q].at = "ending", ![q].owed = owed]
  /\ UNCHANGED <<sessions, logins, runs, pendingCreates, connections>>

\* Variant: the second call does not see that the first has closed.
Variant_CloseStream(q, who) ==
  /\ request[q].at = "ending" /\ who \in request[q].owed
  /\ request' = [request EXCEPT ![q] = [@ EXCEPT !.owed = @ \ {who}, !.at = "closing"]]
  /\ UNCHANGED <<sessions, logins, runs, pendingCreates, connections>>

\* close: the first call closes the gateway's response, which suspends, and then
\* gives the slot back; the other one finds it closed.
Settled(stream) == IF stream.at = "ending" /\ stream.owed = {} THEN Free ELSE stream
CloseStream(q, who) ==
  LET left == [request[q] EXCEPT !.owed = @ \ {who}]
  IN /\ request[q].at \in {"ending", "closing"} /\ who \in request[q].owed
     /\ request' = [request EXCEPT ![q] =
          IF left.closed THEN Settled(left) ELSE [left EXCEPT !.closed = TRUE, !.at = "closing"]]
     /\ UNCHANGED <<sessions, logins, runs, pendingCreates, connections>>

StreamReleases(q) ==
  /\ request[q].at = "closing" /\ Released(request[q].user)
  /\ request' = [request EXCEPT ![q] = Settled([@ EXCEPT !.at = "ending"])]
  /\ UNCHANGED <<sessions, logins, runs, pendingCreates>>

ProxyNext ==
  \/ \E u \in Users, cookie \in sessions \cup {NoSession} : Login(u, cookie)
  \/ \E s \in sessions : EndSession(s)
  \/ \E r \in GatewayRuns : Expire(r)
  \/ \E q \in Pending :
       \/ AskEnds(q) \/ StreamOpens(q) \/ Chunk(q) \/ StreamEnds(q) \/ StreamReleases(q)
       \/ TurnDown(q) \/ Create(q)
       \/ \E r \in GatewayRuns \cup {NoRun} : CreateEnds(q, r)
       \/ \E who \in {"body", "response"} : CloseStream(q, who)
       \/ \E s \in sessions : \/ Reads(q, s)
                             \/ \E r \in GatewayRuns : Ask(q, s, r)

-----------------------------------------------------------------------------
\* Capacity is neither lost nor given twice: a user's connections are the requests
\* that hold a slot, wherever a stream was cut off, and each limit holds at any
\* moment, the creates under way counted as the runs they may become.
CapacityIsKept ==
  LET holding(u) == {q \in Pending : /\ request[q].user = u /\ request[q].at \notin {"idle", "reading"}
                                     /\ request[q].at = "ending" => ~request[q].closed}
  IN /\ \A u \in Users : /\ connections[u] = Cardinality(holding(u))
                         /\ connections[u] <= ConnectionsPerUser
     /\ Cardinality(UNION {holding(u) : u \in Users}) <= MaxConnections
     /\ Cardinality(Held(runs)) + pendingCreates <= MaxBound
     /\ Cardinality(sessions) <= MaxSessions
=============================================================================
