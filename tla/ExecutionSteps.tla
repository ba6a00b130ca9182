--------------------------- MODULE ExecutionSteps ---------------------------
(***************************************************************************)
(* The seven product steps a run shows its user                            *)
(* (application/execution_steps.py, contracts/execution_steps.py).          *)
(*                                                                         *)
(* A projector listens to the team's events, in whatever order the agents  *)
(* raise them, and turns the ones it trusts into step snapshots; at the    *)
(* end it completes every step from the validated result, or fails the     *)
(* ones that run.  A message is the tag of the sentence the user reads, a  *)
(* text or an identity is a model value, and a step is its number.          *)
(***************************************************************************)
EXTENDS Naturals, Sequences, FiniteSets, SequencesExt

CONSTANTS
  Members,          \* agents an event may name
  TeamEvents,       \* [type, member, ids, named, phase, section] events of the team
  Results,          \* public results a run may end with
  MaxExecutors,     \* 8 in the code: executors one snapshot names
  MaxTags,          \* 8 in the code: evidence one snapshot may cite
  MaxFacts          \* 3 in the code: facts one snapshot may state

NoMember == "none"

VARIABLES
  planned,          \* _plan_emitted
  finished,         \* _finished
  runtime,          \* _steps: step -> [state, message, executors]
  agentSteps,       \* _agent_steps: what an agent was last known to work on
  sections,         \* _report_sections
  shown,            \* the snapshots the last call returned, by step and in that order
  published         \* the result complete was given

stepVars == <<planned, finished, runtime, agentSteps, sections, shown, published>>

\* EXECUTION_STEP_IDS, by position.
Company == 1  Ownership == 2  Business == 3  Finance == 4  External == 5
Review == 6   Report == 7
Step == 1 .. 7

\* What one candidate fact names is named once (_unique, ProductResult).
ASSUME StepsAssumption ==
  /\ {MaxExecutors, MaxTags, MaxFacts} \subseteq Nat
  /\ \A e \in TeamEvents : e.member \in Members \cup {NoMember}
  /\ \A r \in Results : r.product => \A s \in Step \ {Report} :
       LET facts == r.candidates[s]
       IN /\ DOMAIN facts = 1 .. Len(facts) /\ Len(facts) \in Nat
          /\ \A k \in DOMAIN facts : LET ids == facts[k].ids IN
               DOMAIN ids = 1 .. Len(ids) /\ Len(ids) \in Nat /\ IsInjective(ids)

SectionStep ==
  [company_profile |-> Company, ownership |-> Ownership, business_analysis |-> Business,
   financial_analysis |-> Finance, bank_flow_analysis |-> Finance,
   external_verification |-> External]

ReportSection == DOMAIN SectionStep \cup {"business_plan", "risk_points"}

Observable ==
  {"entity.resolved", "acquisition.started", "acquisition.completed", "agent.started",
   "member.started", "agent.completed", "check.started", "check.completed",
   "submission.accepted", "evidence.collected", "source.fallback", "deepsearch.fallback",
   "review.started", "review.submitted", "review.issue", "review.repair_requested",
   "repair.requested", "conflict.detected", "report.started", "section.completed"}

IsReview(type) ==
  type \in {"review.started", "review.submitted", "review.issue", "review.repair_requested",
            "repair.requested", "conflict.detected"}
IsReport(type) == type \in {"report.started", "section.completed"}

-----------------------------------------------------------------------------
\* Where the code files an identifier: a report path by its section (two
\* verifications go to the step that owns their subject), a review to the
\* review, and a check or an acquisition item to every step its catalog row
\* names.  An identifier is [path : <<section, field>>] or [rows : set of paths].
StepOfPath(path) ==
  IF path = <<"external_verification", "registration">> THEN {Company}
  ELSE IF path = <<"external_verification", "credit">> THEN {Finance}
  ELSE {SectionStep[s] : s \in {path[1]} \cap DOMAIN SectionStep}

StepsForIdentifier(id) ==
  IF id.kind = "review" THEN {Review}
  ELSE IF id.kind = "check"      \* a check files by section only
  THEN {SectionStep[p[1]] : p \in {q \in id.paths : q[1] \in DOMAIN SectionStep}}
  ELSE UNION {StepOfPath(p) : p \in id.paths}

\* An agent whose event names nothing keeps to the steps it is known to work on.
StepsOf(e) ==
  IF e.type \in {"entity.resolved", "acquisition.started"} THEN {Company}
  ELSE IF e.type = "acquisition.completed" THEN {s \in 1 .. 5 : runtime[s].state = "running"}
  ELSE IF IsReview(e.type) THEN {Review}
  ELSE IF IsReport(e.type) THEN {Report}
  ELSE IF e.member # NoMember /\ (e.type = "agent.completed" \/ e.ids = {})
  THEN agentSteps[e.member]
  ELSE UNION {StepsForIdentifier(id) : id \in e.ids}

\* The report counts the sections it was told of, this event's included.
SectionsAfter(e) ==
  IF e.type \in Observable /\ IsReport(e.type) /\ e.section \in ReportSection
  THEN sections \cup {e.section} ELSE sections

Progress(e) ==
  IF e.type = "acquisition.completed" THEN <<"acquired">>
  ELSE IF e.type = "evidence.collected" THEN <<"evidence">>
  ELSE IF e.type \in {"source.fallback", "deepsearch.fallback"} THEN <<"fallback">>
  ELSE IF e.type = "agent.completed" THEN <<"returned">>
  ELSE IF IsReview(e.type) THEN <<"reviewing">>
  ELSE IF e.type = "report.started" THEN <<"composing">>
  ELSE IF e.type \in {"entity.resolved", "acquisition.started"} \/ e.phase = "acquisition"
  THEN <<"acquiring">>
  ELSE IF e.type \in {"check.completed", "submission.accepted"} THEN <<"checked">>
  ELSE IF e.type = "section.completed" THEN <<"sections", Cardinality(SectionsAfter(e))>>
  ELSE <<"checking">>

\* EventMapper._stage_for: an explicit stage or phase wins over the event's name.
StageFor(e) ==
  IF e.phase # "none" THEN e.phase
  ELSE IF e.type \in {"entity.resolved", "acquisition.started", "acquisition.completed"}
  THEN "acquisition"
  ELSE IF IsReview(e.type) THEN "adjudication"
  ELSE IF IsReport(e.type) THEN "reporting"
  ELSE IF e.type \in {"check.started", "check.completed", "submission.accepted",
                      "agent.started", "agent.completed"} THEN "investigation"
  ELSE "accepted"

NewExecutor(s, m) ==
  /\ m # NoMember /\ m \notin ToSet(runtime[s].executors)
  /\ Len(runtime[s].executors) < MaxExecutors

-----------------------------------------------------------------------------
\* What a finished step says: _references_and_gaps, _facts_and_sources,
\* _outcome.  A result gives, per step, the gaps its values disclose and the
\* candidate facts with the evidence each names, in order.
Gaps(s, r) == SelectSeq(r.gaps[s], LAMBDA g : g # "blank")

\* Facts so far and tags so far, after one more candidate: evidence the result
\* does not hold is dropped, so is new evidence once the tags are full, and a
\* fact left without evidence, or whose text was said before, is not stated.
AddFact(acc, c, r) ==
  LET Cite(t, i) ==
        IF i \notin r.evidence \/ (i \notin ToSet(t.tags) /\ Len(t.tags) >= MaxTags) THEN t
        ELSE [tags |-> IF i \in ToSet(t.tags) THEN t.tags ELSE Append(t.tags, i),
              refs |-> Append(t.refs, i)]
      cited == FoldLeft(Cite, [tags |-> acc.tags, refs |-> <<>>], c.ids)
  IN IF Len(acc.facts) = MaxFacts \/ c.text = "blank" THEN acc
     ELSE [tags |-> cited.tags,
           facts |-> IF cited.refs = <<>> \/ \E f \in ToSet(acc.facts) : f.text = c.text
                     THEN acc.facts
                     ELSE Append(acc.facts, [text |-> c.text, ids |-> cited.refs])]

FactsAndTags(s, r) ==
  FoldLeft(LAMBDA acc, c : AddFact(acc, c, r), [facts |-> <<>>, tags |-> <<>>],
           IF s = Report THEN <<>> ELSE r.candidates[s])

\* A finding bears on a step through the checks it names, or through what the
\* evidence it cites supports.
BearsOn(s, f, r) ==
  \/ s \in UNION {StepsForIdentifier(id) : id \in f.checks}
  \/ \E i \in f.cites \cap r.evidence :
       s \in UNION {StepsForIdentifier(id) : id \in r.supports[i]}

Verifications(s) ==
  CASE s = Company -> {"registration"} [] s = Finance -> {"credit"}
    [] s = External -> {"judicial", "tax", "public_opinion", "internal_record"}
    [] OTHER -> {}

Modules(s) == {m \in DOMAIN SectionStep : SectionStep[m] = s}

Variant_Outcome(s, r) ==
  IF s \in {Review, Report}
  THEN IF r.status = "partial" \/ Gaps(s, r) # <<>> THEN "inconclusive" ELSE "normal"
  ELSE IF Gaps(s, r) # <<>> THEN "inconclusive"
  ELSE IF \E f \in r.findings : BearsOn(s, f, r) THEN "attention" ELSE "normal"

Outcome(s, r) ==
  LET incomplete == r.status = "partial" \/ Gaps(s, r) # <<>>
      attention == \/ \E f \in r.findings : BearsOn(s, f, r)
                   \/ \E v \in Verifications(s) : r.verified[v] = "attention"
                   \/ s = Finance /\ r.reconciliation = "failed"
      doubtful == \/ Gaps(s, r) # <<>>
                  \/ \E m \in Modules(s) : r.modules[m] # "complete"
                  \/ \E v \in Verifications(s) : r.verified[v] = "inconclusive"
  IN IF s \in {Review, Report}
     THEN IF s = Review /\ r.findings # {} THEN "attention"
          ELSE IF incomplete THEN "inconclusive" ELSE "normal"
     ELSE IF attention THEN "attention" ELSE IF doubtful THEN "inconclusive" ELSE "normal"

\* A result of the older contract has nothing to unfold.
LegacyOutcome(s, r) ==
  IF s = Report /\ r.status = "completed" THEN "normal" ELSE "inconclusive"

Snapshot(s, rt, outcome, said) ==
  [step |-> s, state |-> rt.state, message |-> rt.message, executors |-> rt.executors,
   outcome |-> outcome, facts |-> said.facts, tags |-> said.tags]

NothingSaid == [facts |-> <<>>, tags |-> <<>>]

\* validate_snapshot: what the public contract refuses, which would fail the
\* run that raised it.
ValidSnapshot(x) ==
  /\ IsInjective(x.executors) /\ Len(x.executors) <= MaxExecutors
  /\ Len(x.facts) <= MaxFacts /\ Len(x.tags) <= MaxTags /\ IsInjective(x.tags)
  /\ \A i, j \in DOMAIN x.facts : x.facts[i].text = x.facts[j].text => i = j
  /\ \A f \in ToSet(x.facts) :
       IsInjective(f.ids) /\ Len(f.ids) <= MaxTags /\ ToSet(f.ids) \subseteq ToSet(x.tags)
  /\ x.outcome # "none" <=> x.state = "completed"

-----------------------------------------------------------------------------
StepsInit ==
  /\ planned = FALSE /\ finished = FALSE
  /\ runtime = [s \in Step |-> [state |-> "pending", message |-> <<"none">>, executors |-> <<>>]]
  /\ agentSteps = [m \in Members |-> {}]
  /\ sections = {} /\ shown = <<>> /\ published = [product |-> FALSE]

\* start: the fixed plan, once.
StartPlan ==
  /\ ~planned
  /\ planned' = TRUE
  /\ shown' = <<>>
  /\ UNCHANGED <<finished, runtime, agentSteps, sections, published>>

\* A step moves on a new message or a new executor, and never once it is over.
Changes(s, e) ==
  /\ runtime[s].state \in {"pending", "running"}
  /\ runtime[s].message # Progress(e) \/ NewExecutor(s, e.member)

After(s, e) ==
  [state |-> "running", message |-> Progress(e),
   executors |-> IF NewExecutor(s, e.member) THEN Append(runtime[s].executors, e.member)
                 ELSE runtime[s].executors]

\* observe: the sections and the agent's steps are remembered even when no
\* step changes.
Observe(e) ==
  /\ planned /\ ~finished /\ e.type \in Observable /\ StepsOf(e) # {}
  /\ sections' = SectionsAfter(e)
  /\ agentSteps' = IF e.member = NoMember THEN agentSteps
                   ELSE [agentSteps EXCEPT ![e.member] = @ \cup StepsOf(e)]
  /\ LET moved == {s \in StepsOf(e) : Changes(s, e)}
     IN /\ runtime' = [s \in Step |-> IF s \in moved THEN After(s, e) ELSE runtime[s]]
        /\ shown' = [s \in moved |-> Snapshot(s, After(s, e), "none", NothingSaid)]
  /\ UNCHANGED <<planned, finished, published>>

Ended(s, state) ==
  [runtime[s] EXCEPT !.state = state, !.message = <<"none">>]

\* complete: every step of the plan, whether or not an event ever reached it.
CompleteSteps(r) ==
  /\ planned /\ ~finished
  /\ finished' = TRUE /\ published' = r
  /\ runtime' = [s \in Step |-> Ended(s, "completed")]
  /\ shown' = [s \in Step |->
                 IF r.product
                 THEN Snapshot(s, Ended(s, "completed"), Outcome(s, r), FactsAndTags(s, r))
                 ELSE Snapshot(s, Ended(s, "completed"), LegacyOutcome(s, r), NothingSaid)]
  /\ UNCHANGED <<planned, agentSteps, sections>>

\* fail_active: the steps that run; the others stay as they are.
FailActive ==
  LET active == {s \in Step : runtime[s].state = "running"}
  IN /\ finished' = TRUE
     /\ runtime' = [s \in Step |-> IF s \in active THEN Ended(s, "failed") ELSE runtime[s]]
     /\ shown' = [s \in active |-> Snapshot(s, Ended(s, "failed"), "none", NothingSaid)]
     /\ UNCHANGED <<planned, agentSteps, sections, published>>

\* _run catches what start, observe and complete raise, and fails the rest
\* once; after complete nothing is running any more.
StepsNext ==
  \/ StartPlan
  \/ \E e \in TeamEvents : Observe(e)
  \/ \E r \in Results : CompleteSteps(r)
  \/ planned /\ ~finished /\ FailActive

-----------------------------------------------------------------------------
\* Every snapshot the projector builds is one the public contract accepts, since
\* a refusal would turn a finished run into a failed one; and no finding hides:
\* once the result is published, every step its checks or its evidence bear on
\* asks for attention, whatever gaps that step also discloses.
SnapshotsAreTrue ==
  \A i \in DOMAIN shown :
    /\ ValidSnapshot(shown[i])
    /\ shown[i].state = "completed" /\ published.product =>
         \A f \in published.findings :
           BearsOn(shown[i].step, f, published) /\ shown[i].step # Report
             => shown[i].outcome = "attention"
=============================================================================
