---------------------------- MODULE PeerStrategies ----------------------------
(***************************************************************************)
(* The two strategies of the runs that are not formal: orchestration/       *)
(* single.py asks for one domain after the other; multi.py starts the team  *)
(* runtime, investigates the domains concurrently under a semaphore while   *)
(* the team talks, merges, reviews and repairs.  A failed domain task fails *)
(* the run, and gather leaves its siblings running behind it.               *)
(***************************************************************************)
EXTENDS EvidenceReview

CONSTANTS
  Worlds,
  MaxTools,        \* max_tool_calls
  MaxParallel,     \* max_concurrency
  MaxRepairs       \* max_repair_rounds

ASSUME PeersAssumption ==
  /\ {MaxTools, MaxParallel} \subseteq Nat \ {0} /\ MaxRepairs \in Nat
  /\ TopK \in Nat

VARIABLES
  world, arm,      \* what there is to find; "single" or "multi"
  stage,           \* "start", "waiting", "gathering", "repairing", "completed", "failed"
  team,            \* the runtime: "none", "silent", "talking", "ended", "failed", or
                   \* "mute" when it was over before it said anything
  job,             \* domain -> "waiting", "asking", "done", "raised"
  claimed,         \* tool calls of the ledger
  store, findings, \* the evidence store; the findings so far
  issues, attempt, todo,  \* the last review, its round of repairs and what is left of it
  outcome

peerVars == <<world, arm, stage, team, job, claimed, store, findings, issues, attempt, todo,
              outcome>>

PeersInit ==
  /\ world \in Worlds /\ arm \in {"single", "multi"}
  /\ stage = "start" /\ team = "none" /\ job = [d \in Domains |-> "waiting"]
  /\ claimed = 0 /\ store = {} /\ findings = {}
  /\ issues = {} /\ attempt = 0 /\ todo = {} /\ outcome = {}

Fail == stage' = "failed"

-----------------------------------------------------------------------------
\* The subject, the plan, and the team's task; the hybrid toolset is also asked
\* what it can do.
Prepare(resolved) ==
  /\ stage = "start"
  /\ LET wanted == IF arm = "multi" /\ world.live THEN 2 ELSE 1
         ok == resolved /\ wanted <= MaxTools
     IN /\ claimed' = IF ok THEN wanted ELSE 1
        /\ IF ~ok THEN Fail /\ UNCHANGED team
           ELSE IF arm = "single" THEN stage' = "gathering" /\ UNCHANGED team
           ELSE stage' = "waiting" /\ team' = "silent"
  /\ UNCHANGED <<world, arm, job, store, findings, issues, attempt, todo, outcome>>

\* _collect_runtime_events, beside everything else: the first event makes it
\* ready; it ends, raises or runs into the deadline.
TeamTalks ==
  /\ team = "silent" /\ team' = "talking"
  /\ UNCHANGED <<world, arm, stage, job, claimed, store, findings, issues, attempt, todo, outcome>>
TeamEnds(how) ==
  /\ team \in {"silent", "talking"} /\ team' = IF team = "silent" THEN "mute" ELSE how
  /\ UNCHANGED <<world, arm, stage, job, claimed, store, findings, issues, attempt, todo, outcome>>

Begin ==
  /\ stage = "waiting" /\ team # "silent"
  /\ IF team = "mute" THEN Fail ELSE stage' = "gathering"
  /\ UNCHANGED <<world, arm, team, job, claimed, store, findings, issues, attempt, todo, outcome>>

-----------------------------------------------------------------------------
\* A task behind a failed run goes on as it would have.
Running == arm = "multi" /\ stage \in {"gathering", "failed"}

Enter(d) ==
  /\ Running /\ job[d] = "waiting"
  /\ Cardinality({e \in Domains : job[e] = "asking"}) < MaxParallel
  /\ team # "none" /\ team # "mute"
  /\ IF claimed < MaxTools THEN claimed' = claimed + 1 /\ job' = [job EXCEPT ![d] = "asking"]
     ELSE job' = [job EXCEPT ![d] = "raised"] /\ UNCHANGED claimed
  /\ UNCHANGED <<world, arm, stage, team, store, findings, issues, attempt, todo, outcome>>

Leave(d, lost) ==
  /\ Running /\ job[d] = "asking" /\ (lost => world.live)
  /\ LET got == Ingested(store, Investigated(world, d))
     IN IF lost THEN job' = [job EXCEPT ![d] = "raised"] /\ UNCHANGED <<store, findings>>
        ELSE /\ job' = [job EXCEPT ![d] = IF got.failed THEN "raised" ELSE "done"]
             /\ store' = got.store /\ findings' = findings \cup got.findings
  /\ UNCHANGED <<world, arm, stage, team, claimed, issues, attempt, todo, outcome>>

\* gather raises with the first task that does; the team is awaited only when
\* every task is done, and cancelled otherwise.
Interrupted ==
  /\ arm = "multi" /\ stage = "gathering"
  /\ \/ \E d \in Domains : job[d] = "raised"
     \/ team = "failed" /\ \A d \in Domains : job[d] = "done"
  /\ Fail /\ team' = IF team = "talking" THEN "failed" ELSE team
  /\ UNCHANGED <<world, arm, job, claimed, store, findings, issues, attempt, todo, outcome>>

Concluded(wrong) ==
  /\ stage' = "completed"
  /\ outcome' = {[findings |-> Finalized(findings', wrong), issues |-> wrong,
                  evidence |-> {x.item : x \in store'}]}

\* A round of repairs, if there is something to repair and a round left.
Round(wrong, n) ==
  /\ issues' = wrong
  /\ IF wrong = {} \/ n > MaxRepairs
     THEN Concluded(wrong) /\ UNCHANGED <<attempt, todo>>
     ELSE stage' = "repairing" /\ attempt' = n /\ todo' = wrong /\ UNCHANGED outcome

Review ==
  /\ arm = "multi" /\ stage = "gathering" /\ team = "ended" /\ \A d \in Domains : job[d] = "done"
  /\ UNCHANGED <<world, arm, team, job, claimed, store, findings>>
  /\ Round(Reviewed(findings, store), 1)

\* Only a conflict leads back to a domain, and everything of it is asked again.
Repair(issue) ==
  /\ stage = "repairing" /\ issue \in todo
  /\ LET got == Ingested(store, Versioned(Investigated(world, issue.domain), attempt, issue))
     IN IF issue.domain \notin Domains
        THEN todo' = todo \ {issue} /\ UNCHANGED <<stage, claimed, store, findings>>
        ELSE IF claimed = MaxTools THEN Fail /\ UNCHANGED <<todo, claimed, store, findings>>
        ELSE /\ claimed' = claimed + 1 /\ store' = got.store
             /\ IF got.failed THEN Fail /\ UNCHANGED <<todo, findings>>
                ELSE /\ todo' = todo \ {issue} /\ UNCHANGED stage
                     /\ findings' = Replaced(findings, got.findings)
  /\ UNCHANGED <<world, arm, team, job, issues, attempt, outcome>>

ReviewAgain ==
  /\ stage = "repairing" /\ todo = {}
  /\ UNCHANGED <<world, arm, team, job, claimed, store, findings>>
  /\ Round(Reviewed(findings, store), attempt + 1)

-----------------------------------------------------------------------------
\* single.py: the next domain, or the end of them; nothing is merged.
AskNext(lost) ==
  /\ arm = "single" /\ stage = "gathering" /\ \E d \in Domains : job[d] = "waiting"
  /\ lost => world.live
  /\ LET d == DomainOrder[Cardinality({e \in Domains : job[e] = "done"}) + 1]
         got == ToolsetArtifact(world, d)
     IN IF lost \/ claimed = MaxTools THEN Fail /\ UNCHANGED <<job, claimed, store, findings>>
        ELSE /\ claimed' = claimed + 1 /\ job' = [job EXCEPT ![d] = "done"] /\ UNCHANGED stage
             /\ store' = store \cup {[key |-> e.id, item |-> e] : e \in ToSet(got.evidence)}
             /\ findings' = findings \cup got.findings
  /\ UNCHANGED <<world, arm, team, issues, attempt, todo, outcome>>

ConcludeSingle ==
  /\ arm = "single" /\ stage = "gathering" /\ \A d \in Domains : job[d] = "done"
  /\ stage' = "completed" /\ outcome' = {SingleReviewed(findings, {x.item : x \in store})}
  /\ UNCHANGED <<world, arm, team, job, claimed, store, findings, issues, attempt, todo>>

PeersNext ==
  \/ \E ok \in BOOLEAN : Prepare(ok)
  \/ TeamTalks \/ \E how \in {"ended", "failed"} : TeamEnds(how)
  \/ Begin \/ Interrupted \/ Review \/ ReviewAgain \/ ConcludeSingle
  \/ \E d \in Domains : Enter(d) \/ \E lost \in BOOLEAN : Leave(d, lost)
  \/ \E i \in todo : Repair(i)
  \/ \E lost \in BOOLEAN : AskNext(lost)

-----------------------------------------------------------------------------
\* Whatever the order the domains came home in, and however their evidence was
\* merged, renamed and repaired: an accepted finding cites evidence of the
\* outcome, and in the multi arm none of it is of the future, has a negative
\* amount or is contradicted by other evidence of its field; a finding that is
\* not accepted is named by an issue that says why.
AcceptedIsSupported ==
  \A o \in outcome : \A f \in o.findings :
    LET cited == {e \in o.evidence : e.id \in f.cites}
    IN IF f.status = "accepted"
       THEN /\ f.cites # {} /\ f.cites \subseteq {e.id : e \in cited}
            /\ arm = "multi" => \A e \in cited :
                 /\ ~e.future /\ ~e.negative
                 /\ \A x \in o.evidence : x.field = e.field => x.value = e.value
       ELSE \E i \in o.issues : f.id \in i.findings
=============================================================================
