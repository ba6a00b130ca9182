------------------------- MODULE AcquisitionGateway -------------------------
(***************************************************************************)
(* The acquisition of the sources of one enterprise (tianyancha/gateway.py, *)
(* tianyancha/client.py, tianyancha/transport.py,                           *)
(* agents/enterprise_context.py).                                           *)
(*                                                                         *)
(* A child per report submodule asks the gateway; children of one capability*)
(* share one query.  A query goes through its pages, each a call that is    *)
(* claimed from the budget, waits for a slot of the semaphore, and keeps it *)
(* through the client's retries.  The session behind the calls is opened by *)
(* the first of them and closed when the acquisition is over.               *)
(***************************************************************************)
EXTENDS SourceAnswers

CONSTANTS
  Submodules,      \* default_plan_ids
  Capabilities,
  CapabilityOf,    \* submodule -> its first declared capability, or NoCapability
  Financial,       \* capabilities of financial statements
  Unpaged,         \* _NO_PAGINATION: capabilities that take no page
  Sources,         \* capability -> the answers, page by page, the source may hold
  Searches,        \* [found, asked] the entity search may come to
  AsOf,            \* report_as_of
  MaxCalls,        \* max_mcp_calls
  MaxSlots,        \* max_concurrency
  MaxPages,        \* max_pages
  MaxAttempts,     \* max_retries + 1
  MaxCollections   \* bound: times the model calls the collection tool

NoCapability == "none"

ASSUME GatewayAssumption ==
  /\ CapabilityOf \in [Submodules -> Capabilities \cup {NoCapability}]
  /\ {MaxCalls, MaxSlots, MaxPages, MaxAttempts} \subseteq Nat \ {0}
  /\ \A a \in Searches : IsFiniteSet(a.found)

VARIABLES
  held,            \* capability -> its answers in this behaviour
  asked,           \* the search of this behaviour
  subject,         \* candidates resolved to, the memoised initialisation's
  task,            \* the memoised acquisition: "none", "initializing", "gathering",
                   \* "ready", "failed"
  child,           \* submodule -> "idle", "asking", "waiting", "done", "raised"
  context,         \* submodule -> what is known of it, once done
  query,           \* capability -> the shared query
  calls,           \* _mcp_calls
  session,         \* "none" or "open": _session and its owner task
  agent,           \* "running", "submitted", "failed"
  collections,     \* times the tool was called
  cancelled,       \* the cancellation token
  closed           \* aclose returned

gatewayVars == <<held, asked, subject, task, child, context, query, calls, session, agent,
                 collections, cancelled, closed>>
frame == <<held, asked>>

NotAsked == [state |-> "none", page |-> 0, attempts |-> 0, evidence |-> 0, records |-> 0,
             gaps |-> {}, why |-> "none"]
Variant_Slots == Cardinality({c \in Capabilities :
                               query[c].state \in {"calling", "backoff", "raised"}})
Slots == Cardinality({c \in Capabilities : query[c].state \in {"calling", "backoff"}})

\* The observation of a finished query; what the contract will not build (an
\* available one without evidence) raises.
Observation(q) ==
  LET status == SourceState(TRUE, TRUE, q.records + Cardinality(q.gaps), FALSE)
  IN [availability |-> IF status = "verified_records" THEN "available" ELSE "verified_empty",
      completeness |-> IF q.gaps = {} THEN "complete" ELSE "partial",
      evidence |-> IF status = "verified_empty" THEN 0 ELSE q.evidence]
Buildable(o) == o.availability = "available" => o.evidence > 0

NotKnown(availability) ==
  [availability |-> availability, completeness |-> "unknown", evidence |-> 0]

GatewayInit ==
  /\ held \in {h \in [Capabilities -> UNION {Sources[c] : c \in Capabilities}] :
                 \A c \in Capabilities : h[c] \in Sources[c]}
  /\ asked \in Searches /\ subject = {} /\ task = "none"
  /\ child = [s \in Submodules |-> "idle"]
  /\ context = [s \in Submodules |-> NotKnown("none")]
  /\ query = [c \in Capabilities |-> NotAsked]
  /\ calls = 0 /\ session = "none" /\ agent = "running" /\ collections = 0
  /\ cancelled = FALSE /\ closed = FALSE

-----------------------------------------------------------------------------
\* collect_enterprise_context: every call of the tool awaits the one acquisition,
\* one that failed too.
Collect ==
  /\ agent = "running" /\ collections < MaxCollections /\ collections' = collections + 1
  /\ task' = IF task = "none" THEN "initializing" ELSE task
  /\ UNCHANGED <<subject, child, context, query, calls, session, agent, cancelled, closed>>
  /\ UNCHANGED frame

\* initialize: the search and the capability manifest, a call each; no call left,
\* no unique match and any error of the two calls fail the acquisition for good.
Initialize ==
  LET matches == Matches(asked.found, asked.asked)
  IN /\ task = "initializing"
     /\ \/ /\ calls + 2 <= MaxCalls /\ Cardinality(matches) = 1 /\ ~cancelled
           /\ calls' = calls + 2 /\ subject' = matches /\ task' = "gathering"
           /\ session' = "open" /\ child' = [s \in Submodules |-> "asking"]
        \/ /\ \E n \in 0 .. 2 : calls + n <= MaxCalls /\ calls' = calls + n
           /\ session' \in {session, "open"}
           /\ task' = "failed" /\ UNCHANGED <<subject, child>>
     /\ UNCHANGED <<context, query, agent, collections, cancelled, closed>>
     /\ UNCHANGED frame

Resolve(s, what) == child' = [child EXCEPT ![s] = "done"] /\ context' = [context EXCEPT ![s] = what]

\* acquire_submodule: an absent capability, a cached result, the query under way
\* or a query of its own.  A query that raised was taken out and is asked anew.
Ask(s) ==
  LET c == CapabilityOf[s]
  IN /\ child[s] = "asking"
     /\ \/ /\ cancelled
           /\ child' = [child EXCEPT ![s] = "raised"] /\ UNCHANGED <<context, query>>
        \/ /\ ~cancelled /\ c = NoCapability
           /\ Resolve(s, NotKnown("capability_absent")) /\ UNCHANGED query
        \/ /\ ~cancelled /\ c # NoCapability
           /\ query' = IF query[c].state \in {"none", "raised"}
                       THEN [query EXCEPT ![c] = [NotAsked EXCEPT !.state = "claiming",
                                                                  !.page = 1]]
                       ELSE query
           /\ child' = [child EXCEPT ![s] = "waiting"] /\ UNCHANGED context
     /\ UNCHANGED <<subject, task, calls, session, agent, collections, cancelled, closed>>
     /\ UNCHANGED frame

Becomes(c, q) == query' = [query EXCEPT ![c] = q]
Raises(c, why) == Becomes(c, [query[c] EXCEPT !.state = "raised", !.why = why])
gathering == <<subject, task, child, context, agent, collections, cancelled, closed>>

\* _claim_call.
Claim(c) ==
  /\ query[c].state = "claiming"
  /\ IF cancelled THEN Raises(c, "cancelled") /\ UNCHANGED calls
     ELSE IF calls >= MaxCalls THEN Raises(c, "budget") /\ UNCHANGED calls
     ELSE calls' = calls + 1 /\ Becomes(c, [query[c] EXCEPT !.state = "queued"])
  /\ UNCHANGED session /\ UNCHANGED gathering /\ UNCHANGED frame

EnterSlot(c) ==
  /\ query[c].state = "queued" /\ Slots < MaxSlots
  /\ IF cancelled THEN Raises(c, "cancelled") /\ UNCHANGED session
     ELSE Becomes(c, [query[c] EXCEPT !.state = "calling", !.attempts = 1]) /\ session' = "open"
  /\ UNCHANGED calls /\ UNCHANGED gathering /\ UNCHANGED frame

PageOf(c) == IF query[c].page <= Len(held[c]) THEN held[c][query[c].page]
             ELSE [records |-> <<>>, texts |-> 0, rows |-> 0, counts |-> {}, years |-> {},
                   links |-> FALSE, total |-> Unknown, more |-> FALSE, repeats |-> 0]

\* A page that was read: the gaps it shows, and whether another is asked for.
Variant_Read(q, b, paged) ==
  LET all == q.evidence + b.fresh
      more == paged /\ b.paged /\ ~b.last /\ Truncated(b, all)
  IN [q EXCEPT !.evidence = all, !.records = @ + b.records, !.gaps = @ \cup b.reasons,
               !.state = IF more /\ q.page < MaxPages THEN "claiming" ELSE "done",
               !.page = IF more /\ q.page < MaxPages THEN @ + 1 ELSE @]

Read(q, b, paged) ==
  LET all == q.evidence + b.fresh
      more == paged /\ b.paged /\ ~b.last /\ Truncated(b, all)
      cut == more /\ q.page = MaxPages
  IN [q EXCEPT !.evidence = all, !.records = @ + b.records,
               !.gaps = @ \cup b.reasons \cup (IF cut THEN {"pagination_truncated"} ELSE {}),
               !.state = IF more /\ ~cut THEN "claiming" ELSE "done",
               !.page = IF more /\ ~cut THEN @ + 1 ELSE @]

\* The source answers.
Answer(c) ==
  /\ query[c].state = "calling" /\ session = "open"
  /\ IF cancelled THEN Raises(c, "cancelled")
     ELSE LET q == Read(query[c], Normalize(PageOf(c), c \in Financial, AsOf), c \notin Unpaged)
          IN IF q.state = "done" /\ ~Buildable(Observation(q)) THEN Raises(c, "error")
             ELSE Becomes(c, q)
  /\ UNCHANGED <<calls, session>> /\ UNCHANGED gathering /\ UNCHANGED frame

\* Rate limits, timeouts and transport faults are tried again after a pause, with
\* the slot kept; the last one, and any other, is a source error with what the
\* pages before it gave.
Fault(c) ==
  /\ query[c].state = "calling"
  /\ \/ /\ query[c].attempts < MaxAttempts
        /\ Becomes(c, [query[c] EXCEPT !.state = "backoff"])
     \/ Becomes(c, [query[c] EXCEPT !.state = "done", !.why = "source_error"])
  /\ session' \in {"none", session}     \* the owner may have ended with the fault
  /\ UNCHANGED calls /\ UNCHANGED gathering /\ UNCHANGED frame

Retry(c) ==
  /\ query[c].state = "backoff" /\ session' = "open"
  /\ Becomes(c, [query[c] EXCEPT !.state = "calling", !.attempts = @ + 1])
  /\ UNCHANGED calls /\ UNCHANGED gathering /\ UNCHANGED frame

\* A child gets the shared result, or what the query raised: a spent budget means
\* the submodule was not requested, anything else leaves the gathering.
Told(q) ==
  CASE q.why = "source_error" ->
         [availability |-> "source_error", completeness |-> "unknown", evidence |-> q.evidence]
    [] q.why = "budget" -> NotKnown("not_requested")
    [] OTHER -> Observation(q)

Wake(s) ==
  LET q == query[CapabilityOf[s]]
  IN /\ child[s] = "waiting" /\ q.state \in {"done", "raised"}
     /\ IF q.why \in {"cancelled", "error"}
        THEN child' = [child EXCEPT ![s] = "raised"] /\ UNCHANGED context
        ELSE Resolve(s, Told(q))
     /\ UNCHANGED <<subject, task, query, calls, session, agent, collections, cancelled, closed>>
     /\ UNCHANGED frame

\* gather: the first child that raises ends it, the others run on.
Gathered ==
  /\ task = "gathering"
  /\ \/ (\A s \in Submodules : child[s] = "done") /\ task' = "ready"
     \/ (\E s \in Submodules : child[s] = "raised") /\ task' = "failed"
  /\ UNCHANGED <<subject, child, context, query, calls, session, agent, collections, cancelled,
                 closed>> /\ UNCHANGED frame

\* submit_enterprise_context, and the end of the agent: without a submission, on
\* its deadline or a cancellation the run fails.
Submit ==
  /\ agent = "running" /\ task = "ready" /\ collections > 0 /\ agent' = "submitted"
  /\ UNCHANGED <<subject, task, child, context, query, calls, session, collections, cancelled,
                 closed>> /\ UNCHANGED frame

GiveUp ==
  /\ agent = "running" /\ agent' = "failed"
  /\ UNCHANGED <<subject, task, child, context, query, calls, session, collections, cancelled,
                 closed>> /\ UNCHANGED frame

CancelRun ==
  /\ ~cancelled /\ agent = "running" /\ cancelled' = TRUE
  /\ UNCHANGED <<subject, task, child, context, query, calls, session, agent, collections,
                 closed>> /\ UNCHANGED frame

\* aclose: the owner of the session leaves its contexts.
Close ==
  /\ agent \in {"submitted", "failed"} /\ ~closed /\ closed' = TRUE /\ session' = "none"
  /\ UNCHANGED <<subject, task, child, context, query, calls, agent, collections, cancelled>>
  /\ UNCHANGED frame

QueryStep(c) == Claim(c) \/ EnterSlot(c) \/ Answer(c) \/ Fault(c) \/ Retry(c)
GatewayNext ==
  \/ Collect \/ Initialize \/ Gathered \/ Submit \/ GiveUp \/ CancelRun \/ Close
  \/ \E s \in Submodules : Ask(s) \/ Wake(s)
  \/ \E c \in Capabilities : QueryStep(c)

\* The loop runs every ready task, a call ends by its own timeout and the agent by
\* its deadline; what may never happen is that the model collects, or that someone
\* cancels.  No step repeats for ever, so one condition for all the others is enough.
Progress ==
  \/ Initialize \/ Gathered \/ GiveUp \/ Close
  \/ \E s \in Submodules : Ask(s) \/ Wake(s)
  \/ \E c \in Capabilities : QueryStep(c)

-----------------------------------------------------------------------------
\* The sums of the first of n numbers.
Sums(n, x) == LET s[i \in 0 .. n] == IF i = 0 THEN 0 ELSE s[i - 1] + x[i] IN s

\* What the source holds: the records it would list, page after page, each once, or
\* the number it says it has when it lists none.
Lists(a) == Cardinality(Details(a)) + a.rows - a.repeats
Listed(h) == Sums(Len(h), [i \in 1 .. Len(h) |-> Lists(h[i])])[Len(h)]
Holds(c) == Largest({Listed(held[c])} \cup UNION {a.counts : a \in Range(held[c])})

\* A source that can be taken at its word: it lists a record as a row or in a
\* structure, says on every page but its last that there is more, and counts more
\* than it lists only when the count is all it gives.
Honest(h, paged) ==
  LET given == Sums(Len(h), [i \in 1 .. Len(h) |-> Fresh(h[i])])
  IN /\ Len(h) \in Nat /\ DOMAIN h = 1 .. Len(h) /\ (paged \/ Len(h) = 1)
     /\ \A i \in DOMAIN h :
          /\ {h[i].rows, h[i].texts} \subseteq Nat /\ (h[i].rows = 0 \/ Details(h[i]) = {})
          /\ Len(h[i].records) \in Nat /\ DOMAIN h[i].records = 1 .. Len(h[i].records)
          /\ h[i].repeats \in 0 .. Cardinality(Details(h[i])) + h[i].rows
          /\ IsFiniteSet(h[i].counts) /\ \A n \in h[i].counts : n \in Nat
          /\ i < Len(h) => h[i].more \/ Total(h[i]) > given[i]
     /\ \/ \A i \in DOMAIN h : h[i].counts \subseteq 0 .. Listed(h)
        \/ Len(h) = 1 /\ CountOnly(h[1])
HonestSources == \A c \in Capabilities : \A h \in Sources[c] : Honest(h, c \notin Unpaged)

\* What a submodule is told is true of an honest source: empty means there is nothing
\* and complete that nothing was left out, whatever the pages, the page limit,
\* the faults and the sharing of queries did; and it is the source of a company
\* that matches the one asked for.
ContextIsTrue ==
  \A s \in Submodules :
    child[s] = "done" /\ CapabilityOf[s] # NoCapability =>
      LET k == context[s]  n == Holds(CapabilityOf[s])
      IN /\ k.availability = "verified_empty" => n = 0
         /\ k.availability = "available" /\ k.completeness = "complete" => k.evidence >= n
         /\ \A c \in subject : Given(c.id) /\ Exact(c, asked.asked)
              /\ \A d \in asked.found : Given(d.id) /\ Given(d.name) /\ Exact(d, asked.asked)
                   /\ d.region = c.region /\ d.active => d = c \/ ~c.active

\* Once the acquisition gathers, it comes to an end: every child is told
\* something, with one slot and faulty sources too, and no query is left under
\* way for ever, not even one whose child nobody waits for.
EveryQueryEnds ==
  \A c \in Capabilities : query[c].state # "none" ~> query[c].state \in {"done", "raised"}
=============================================================================
