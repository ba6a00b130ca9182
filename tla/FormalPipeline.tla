--------------------------- MODULE FormalPipeline ---------------------------
(***************************************************************************)
(* One due diligence, from the request to the stored result                 *)
(* (application/service.py, application/formal_pipeline.py,                 *)
(* agents/single_investigator.py, reporting/product_model.py).              *)
(*                                                                         *)
(* A run buys model calls in three layers, acquisition, investigation and   *)
(* reporting.  Each layer has a ledger of its own, whose limits are what    *)
(* the recorded costs of the layers before it leave of the run's budget.    *)
(* Tokens are counted in one total; a call and its settlement are one       *)
(* action, since BudgetedModel shows what the calls of one ledger do to     *)
(* each other.                                                              *)
(***************************************************************************)
EXTENDS ReportWriting

CONSTANTS
  Checks,          \* the enabled checks of CHECK_CATALOG
  Policies,        \* [formal, live, mode, enforced, demo, scripted, deepsearch, enterprise]
  MaxRequests,     \* max_llm_requests of the run
  MaxTokens,       \* max_total_tokens of the run
  MaxReserve,      \* tokens one call can reserve
  MaxSchemaRetries,
  Drafts,          \* what the report model can answer; NoDraft is no JSON of the schema
  Facts            \* the report the projector prepared

\* A limit of the budget is a number; the report starts from sections over known
\* evidence.
ASSUME PipeAssumption ==
  /\ MaxRequests \in Nat /\ MaxTokens \in Nat /\ MaxReserve \in Nat
  /\ \A p \in Policies : p.enforced \in BOOLEAN
  /\ Facts \in [Sections -> [refs : SUBSET Known, numbers : {Facts[s].numbers : s \in Sections},
                            analysis : {"none", "model"},
                            status : {"complete", "partial", "unavailable"},
                            missing : BOOLEAN]]

NoDraft == [valid |-> FALSE]
Layer == {"acquisition", "investigation", "reporting"}
AcquisitionStage == {"collecting", "planning", "supplementing", "freezing"}

VARIABLES
  policy, stage,
  spent,           \* layer -> [requests, metered, recorded, unknown, unreported]
  charged,         \* layer -> tokens the provider counted, seen or not
  exhausted,       \* layer -> the ledger refused a call, and refuses everything after
  sources,         \* the Tianyancha gateway: "unused", "open" or "closed"
  accepted,        \* checks the single investigator's blackboard holds
  filled,          \* those among them the host filled in as inconclusive
  selfChecked,     \* _SelfCheckState.completed
  partial,         \* demo_partial_disclosure is set
  reportAllowed,   \* report_model_allowed
  tries, report, risks,
  metrics          \* the cost the artifacts state: [recorded, complete]

pipeVars == <<policy, stage, spent, charged, exhausted, sources, accepted, filled, selfChecked,
              partial, reportAllowed, tries, report, risks, metrics>>
investigationVars == <<accepted, filled, selfChecked, partial, reportAllowed>>
reportVars == <<tries, report, risks>>

Sum(f) == f["acquisition"] + f["investigation"] + f["reporting"]
Recorded(ls) == LET r(l) == IF l \in ls THEN spent[l].recorded ELSE 0
                IN r("acquisition") + r("investigation") + r("reporting")
Requests(ls) == LET r(l) == IF l \in ls THEN spent[l].requests ELSE 0
                IN r("acquisition") + r("investigation") + r("reporting")
Metered(ls) == LET r(l) == IF l \in ls THEN spent[l].metered ELSE 0
               IN r("acquisition") + r("investigation") + r("reporting")

Before(l) == CASE l = "acquisition" -> {} [] l = "investigation" -> {"acquisition"}
               [] OTHER -> {"acquisition", "investigation"}

\* A ledger's own limits: the run's, less what the earlier layers recorded.
TokensFor(l) == MaxTokens - Recorded(Before(l))
RequestsFor(l) == MaxRequests - Requests(Before(l))
Affordable(l, r) ==
  /\ spent[l].requests < RequestsFor(l)
  /\ policy.enforced => spent[l].recorded + spent[l].unreported + r <= TokensFor(l)

\* error_details()["provider_usage_complete"] of a ledger, and the count the
\* costs compare where no ledger is left.
Complete(l) == spent[l].unknown = 0 /\ spent[l].metered = spent[l].requests
CompleteCounts(ls) == Metered(ls) = Requests(ls)

-----------------------------------------------------------------------------
PipeInit ==
  /\ policy \in Policies /\ stage = "offered"
  /\ spent = [l \in Layer |-> [requests |-> 0, metered |-> 0, recorded |-> 0, unknown |-> 0,
                               unreported |-> 0]]
  /\ charged = [l \in Layer |-> 0] /\ exhausted = [l \in Layer |-> FALSE]
  /\ sources = "unused" /\ accepted = {} /\ filled = {} /\ selfChecked = FALSE
  /\ partial = FALSE /\ reportAllowed = TRUE /\ tries = 0 /\ report = Facts /\ risks = {}
  /\ metrics = [recorded |-> 0, complete |-> FALSE]

\* BudgetLedger.reserve_llm_request and complete_llm_request around one call of
\* t tokens: its usage is known, silent (it succeeded without usage) or it broke
\* off after usage was seen for the first u of them, or for none.
Settle(l, r, t, how, u) ==
  LET s == spent[l]
      known == how = "known" \/ (how = "silent" /\ ~policy.enforced) \/ (how = "broken" /\ u > 0)
      seen == CASE how = "known" -> t [] how = "broken" -> u
                [] OTHER -> IF policy.enforced THEN 0 ELSE r
      held == ~known \/ how = "broken"
  IN /\ spent' = [spent EXCEPT ![l] =
           [requests |-> s.requests + 1, metered |-> s.metered + (IF known THEN 1 ELSE 0),
            recorded |-> s.recorded + seen, unknown |-> s.unknown + (IF held THEN 1 ELSE 0),
            unreported |-> s.unreported + (IF held THEN r - seen ELSE 0)]]
     /\ charged' = [charged EXCEPT ![l] = @ + t]

CallEnds(l, how) ==
  \E r \in 1 .. MaxReserve : \E t \in 1 .. r : \E u \in 0 .. t :
    /\ Affordable(l, r) /\ (how # "broken" => u = 0) /\ Settle(l, r, t, how, u)

\* The agents of a layer call the model; a refusal exhausts the ledger for good.
Call(l) ==
  /\ \/ l = "acquisition" /\ stage \in {"collecting", "supplementing"}
     \/ l = "investigation" /\ stage = "investigating" /\ (policy.mode = "single" => ~selfChecked)
  /\ ~exhausted[l]
  /\ \/ (\E how \in {"known", "silent", "broken"} : CallEnds(l, how)) /\ UNCHANGED exhausted
     \/ /\ \E r \in 1 .. MaxReserve : ~Affordable(l, r)
        /\ exhausted' = [exhausted EXCEPT ![l] = TRUE] /\ UNCHANGED <<spent, charged>>
  /\ UNCHANGED <<policy, stage, sources, metrics>> /\ UNCHANGED investigationVars
  /\ UNCHANGED reportVars

\* What the artifacts of a failed run say it cost: each layer answers for itself
\* with its own ledger.
FailWith(cost, complete) ==
  /\ stage' = "failed" /\ metrics' = [recorded |-> cost, complete |-> complete]
  /\ sources' = IF sources = "open" THEN "closed" ELSE sources
  /\ UNCHANGED <<policy, spent, charged, exhausted>>

AcquisitionFailed ==
  /\ FailWith(spent["acquisition"].recorded,
              Complete("acquisition") /\ spent["acquisition"].requests > 0)
  /\ UNCHANGED investigationVars /\ UNCHANGED reportVars

Advance(next) ==
  /\ stage' = next
  /\ UNCHANGED <<policy, spent, charged, exhausted, metrics>> /\ UNCHANGED reportVars

\* A formal pipeline is built over live sources only and needs an enterprise.
Routed == policy.formal => policy.live /\ policy.enterprise

\* DueDiligenceService._execute up to the pipeline; the older strategies run
\* over a toolset of their own, a live one or the scenario's, and have no
\* accounted cost.
Begin ==
  /\ stage = "offered"
  /\ IF ~Routed THEN Advance("failed") /\ UNCHANGED sources
     ELSE /\ Advance(IF policy.formal THEN "collecting" ELSE "orchestrating")
          /\ sources' = IF policy.live THEN "open" ELSE sources
  /\ UNCHANGED investigationVars

Orchestrate ==
  /\ stage = "orchestrating" /\ sources' = IF sources = "open" THEN "closed" ELSE sources
  /\ \E next \in {"reviewing", "failed"} : Advance(next)
  /\ UNCHANGED investigationVars

Variant_ContextReturns ==
  /\ stage = "collecting" /\ Advance("planning") /\ UNCHANGED sources
  /\ UNCHANGED investigationVars

\* require_complete_usage: an unknown remainder never becomes a later layer's limit.
ContextReturns ==
  /\ stage = "collecting"
  /\ IF Complete("acquisition")
     THEN Advance("planning") /\ UNCHANGED sources /\ UNCHANGED investigationVars
     ELSE AcquisitionFailed

PlanSupplement ==
  /\ stage = "planning"
  /\ \E tasks \in BOOLEAN :
       IF tasks /\ ~policy.deepsearch THEN AcquisitionFailed
       ELSE /\ Advance(IF tasks THEN "supplementing" ELSE "freezing")
            /\ UNCHANGED sources /\ UNCHANGED investigationVars

SupplementReturns ==
  /\ stage = "supplementing"
  /\ IF Complete("acquisition")
     THEN Advance("freezing") /\ UNCHANGED sources /\ UNCHANGED investigationVars
     ELSE AcquisitionFailed

\* The snapshot is frozen with its cost, and every external source is closed.
Freeze ==
  /\ stage = "freezing" /\ Advance("granting") /\ sources' = "closed"
  /\ UNCHANGED investigationVars

\* An agent, a tool or the freezer raises.
AcquisitionFails == stage \in AcquisitionStage /\ AcquisitionFailed

\* investigate: an incomplete or spent acquisition gets no second allocation.
Grant ==
  /\ stage = "granting"
  /\ IF CompleteCounts({"acquisition"}) /\ RequestsFor("investigation") > 0
        /\ (policy.enforced => TokensFor("investigation") > 0)
     THEN Advance("investigating") /\ UNCHANGED sources
     ELSE FailWith(spent["acquisition"].recorded, CompleteCounts({"acquisition"}))
          /\ UNCHANGED reportVars
  /\ UNCHANGED investigationVars

InvestigationFailed ==
  /\ FailWith(Recorded({"acquisition", "investigation"}),
              CompleteCounts({"acquisition"}) /\ Complete("investigation"))
  /\ UNCHANGED investigationVars /\ UNCHANGED reportVars

\* submit_bound_check_results accepts what the gate passes, and runs the
\* self-check when every check is there.
Submit ==
  /\ stage = "investigating" /\ policy.mode = "single" /\ ~selfChecked
  /\ \E cs \in SUBSET (Checks \ accepted) :
       /\ cs # {} /\ accepted' = accepted \cup cs
       /\ selfChecked' \in {FALSE, accepted' = Checks}
  /\ UNCHANGED <<filled, partial, reportAllowed, sources>>
  /\ Advance(stage)

Variant_Returned(isPartial) ==
  /\ partial' = isPartial /\ UNCHANGED reportAllowed
  /\ Advance("reviewing") /\ UNCHANGED sources

\* invoke_accounted: a partial answer of one investigator, or one whose usage is
\* unknown, keeps the report model out; any other unknown usage fails the run.
Returned(isPartial) ==
  LET allowed == ~(isPartial /\ (policy.mode = "single" \/ ~Complete("investigation")))
  IN IF ~Complete("investigation") /\ policy.enforced /\ allowed
     THEN /\ FailWith(Recorded({"acquisition", "investigation"}), FALSE)
          /\ UNCHANGED <<partial, reportAllowed>> /\ UNCHANGED reportVars
     ELSE /\ partial' = isPartial /\ reportAllowed' = allowed
          /\ Advance("reviewing") /\ UNCHANGED sources

\* SingleInvestigatorAgent.run after its agent answered or ran out of time.
Finish(timedOut) ==
  LET missing == Checks \ accepted
      fill == ~policy.demo /\ missing # {} /\ ~policy.scripted
      checked == selfChecked \/ fill
  IN /\ stage = "investigating" /\ policy.mode = "single"
     /\ IF \/ timedOut /\ ~policy.demo
           \/ exhausted["investigation"]
           \/ ~policy.demo /\ (~checked \/ (missing # {} /\ policy.scripted))
        THEN InvestigationFailed
        ELSE /\ filled' = IF fill THEN missing ELSE {}
             /\ accepted' = IF fill THEN Checks ELSE accepted
             /\ selfChecked' = checked
             /\ Returned(policy.demo /\ (timedOut \/ missing # {} \/ ~selfChecked))

\* AgentTeamsInvestigatorTeam.run, which AgentTeam models: it completes every
\* check, or in a demo stops with what it has and discloses it.
TeamReturns ==
  /\ stage = "investigating" /\ policy.mode = "multi"
  /\ \/ accepted' = Checks /\ Returned(FALSE)
     \/ policy.demo /\ accepted' \in SUBSET Checks /\ Returned(TRUE)
  /\ UNCHANGED <<filled, selfChecked>>

InvestigationFails == stage = "investigating" /\ InvestigationFailed

-----------------------------------------------------------------------------
\* The result assembler, the fact projector and the product assembler run
\* between the investigation and the report; the cost so far goes on record.
CostOnRecord == Recorded({"acquisition", "investigation"})
Prepare ==
  /\ stage = "reviewing" /\ stage' = "writing"
  /\ metrics' = IF policy.formal
                THEN [recorded |-> CostOnRecord,
                      complete |-> CompleteCounts({"acquisition", "investigation"})]
                ELSE metrics
  /\ UNCHANGED <<policy, spent, charged, exhausted, sources>> /\ UNCHANGED investigationVars
  /\ UNCHANGED reportVars

HasModel == policy.formal /\ reportAllowed
NothingSpent == UNCHANGED <<spent, charged>>
Written(r, ns) ==
  /\ stage' = "publishing" /\ report' = r /\ risks' = ns
  /\ UNCHANGED <<policy, exhausted, sources, metrics, tries>> /\ UNCHANGED investigationVars

WriteWithoutModel ==
  stage = "writing" /\ ~HasModel /\ NothingSpent /\ Written(report, Unnarrated)

\* OpenJiuwenReportModel.generate refuses, or the call fails in a way no second
\* prompt repairs: the facts stay, and every section says the analysis is missing.
Refuses ==
  \/ ~CompleteCounts(Before("reporting")) /\ policy.enforced
  \/ RequestsFor("reporting") <= spent["reporting"].requests
  \/ policy.enforced /\ ~Affordable("reporting", 1)
  \/ tries > MaxSchemaRetries

FallBack ==
  /\ stage = "writing" /\ HasModel
  /\ \/ Refuses /\ NothingSpent
     \/ ~Refuses /\ (CallEnds("reporting", "broken") \/ NothingSpent)
  /\ Written(Fallback(report), Unnarrated)

\* A draft that breaks the schema or a grounding rule is asked for once more.
Draft(d) ==
  /\ stage = "writing" /\ HasModel /\ ~Refuses /\ tries < 2
  /\ \E how \in {"known", "silent"} : CallEnds("reporting", how)
  /\ IF d.valid /\ Accepted(d, report) THEN Written(Applied(d, report), Narrated(d))
     ELSE IF tries = 1 THEN Written(Fallback(report), Unnarrated)
     ELSE /\ tries' = tries + 1
          /\ UNCHANGED <<policy, stage, exhausted, sources, report, risks, metrics>>
          /\ UNCHANGED investigationVars

\* The finished cost, before ArtifactStore.complete is called.
Totals == [recorded |-> Recorded(Layer),
           complete |-> CompleteCounts(Layer) /\ (HasModel => Complete("reporting"))]

Publish ==
  /\ stage = "publishing"
  /\ stage' = "stored" /\ metrics' = IF policy.formal THEN Totals ELSE metrics
  /\ UNCHANGED <<policy, spent, charged, exhausted, sources>> /\ UNCHANGED investigationVars
  /\ UNCHANGED reportVars

\* An assembler, a projector, a contract or the store raises after the pipeline.
ReportingFails ==
  /\ stage \in {"reviewing", "writing", "publishing"}
  /\ IF policy.formal THEN FailWith(Totals.recorded, Totals.complete)
     ELSE FailWith(metrics.recorded, metrics.complete)
  /\ UNCHANGED investigationVars /\ UNCHANGED reportVars

\* CancelledError is not an Exception: no artifacts, but the sources close.
Cancel ==
  /\ stage \notin {"stored", "failed", "cancelled"}
  /\ stage' = "cancelled" /\ sources' = IF sources = "open" THEN "closed" ELSE sources
  /\ UNCHANGED <<policy, spent, charged, exhausted, metrics>> /\ UNCHANGED investigationVars
  /\ UNCHANGED reportVars

PipeNext ==
  \/ Begin \/ Orchestrate \/ ContextReturns \/ PlanSupplement \/ SupplementReturns \/ Freeze
  \/ AcquisitionFails \/ Grant \/ Submit \/ TeamReturns \/ InvestigationFails
  \/ \E l \in {"acquisition", "investigation"} : Call(l)
  \/ \E timedOut \in BOOLEAN : Finish(timedOut)
  \/ Prepare \/ WriteWithoutModel \/ FallBack \/ (\E d \in Drafts : Draft(d)) \/ Publish
  \/ ReportingFails \/ Cancel

PipeSpec == PipeInit /\ [][PipeNext]_pipeVars

-----------------------------------------------------------------------------
\* The three ledgers together keep to the one budget of the run: when tokens are
\* enforced, what the provider really counted, seen by a ledger or not, is never
\* more than the run may spend, and no run sends more requests than it may.
RunWithinBudget ==
  /\ policy.enforced => Sum(charged) <= MaxTokens
  /\ Requests(Layer) <= MaxRequests

\* What goes out is whole: a formal run has every check answered, or discloses that
\* it is partial, and a partial single investigation buys no more model calls; and
\* whatever a draft says, the reviewed risks come out exactly, each with exactly
\* its evidence, and no section loses the evidence or the numbers of its facts.
SuccessIsWhole ==
  /\ stage \in {"writing", "publishing", "stored"} /\ policy.formal =>
       /\ accepted = Checks \/ partial
       /\ partial /\ policy.mode = "single" => spent["reporting"].requests = 0
  /\ stage \in {"publishing", "stored"} =>
       /\ \A r \in Risks : \E n \in risks : n.id = r.id /\ n.evidence = r.evidence
       /\ \A n \in risks : \E r \in Risks : n.id = r.id /\ n.evidence = r.evidence
       /\ \A s \in Sections : /\ Facts[s].refs \subseteq report[s].refs
                              /\ report[s].refs \subseteq Known
                              /\ report[s].numbers = Facts[s].numbers
=============================================================================
