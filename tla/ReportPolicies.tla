--------------------------- MODULE ReportPolicies ---------------------------
(***************************************************************************)
(* How feedback changes the layout of reports (reporting/demo_store.py,     *)
(* reporting/replay.py, api/reporting_demo.py, contracts/report_policy.py). *)
(*                                                                         *)
(* A run is bound to the policy in force when it is accepted.  Feedback on  *)
(* its report becomes a candidate, evaluated by rendering the report again; *)
(* an operator applies it from another process, or resets.  The store's     *)
(* file lock spans each of these and a file is replaced in one rename, so   *)
(* that each is one step; readers take no lock.                             *)
(***************************************************************************)
EXTENDS Naturals

CONSTANTS
  PolicyRuns,       \* reports there may be feedback on
  FeedbackKeys,     \* idempotency keys
  TargetSets,       \* sets of target sections
  Disclosing,       \* run -> sections a gap of its report belongs to
  SuiteImproves,    \* implementation -> one of the eight cases gains a disclosure
  MaxPolicies,      \* bound: changes of the policy
  MaxUpgrades       \* bound: changes of the implementation

Base == <<>>                              \* version 1.1.0; a candidate's is its id
NoCandidate == [status |-> "none"]
Unbound == [policy |-> "none"]
EvolutionId == PolicyRuns \X FeedbackKeys

VARIABLES
  active,           \* state.json: the binding in force
  applied,          \* applied_evolution_id, Base when it is none
  bound,            \* run -> its reporting_policy
  replayable,       \* run -> the implementation that froze its snapshot
  candidates,       \* candidates/<id>.json
  implementation    \* implementation_fingerprint()

policyVars == <<active, applied, bound, replayable, candidates, implementation>>

Binding(placement, version, revision) ==
  [policy |-> placement, version |-> version, revision |-> revision]

PoliciesInit ==
  /\ active = Binding("appendix_only", Base, 0) /\ applied = Base
  /\ bound = [r \in PolicyRuns |-> Unbound] /\ replayable = [r \in PolicyRuns |-> {}]
  /\ candidates = [c \in EvolutionId |-> NoCandidate] /\ implementation = 0

\* RunCoordinator.create; a repeated request finds the run as it was.
AcceptRun(r) ==
  /\ bound[r] = Unbound /\ bound' = [bound EXCEPT ![r] = active]
  /\ UNCHANGED <<active, applied, replayable, candidates, implementation>>

\* ArtifactStore.complete freezes the snapshot, where the report reproduces.
FreezeReport(r) ==
  /\ bound[r] # Unbound /\ replayable[r] = {}
  /\ replayable' = [replayable EXCEPT ![r] = {implementation}]
  /\ UNCHANGED <<active, applied, bound, candidates, implementation>>

\* replay: every target of the feedback is disclosed more often than before, and
\* an independent case is too; what is placed in the section already gains nothing.
Passes(r, targets) ==
  /\ bound[r].policy = "appendix_only" /\ targets # {} /\ targets \subseteq Disclosing[r]
  /\ SuiteImproves[implementation]

CandidateOf(c) == Binding("section_and_appendix", c, active.revision + 1)

\* ReportingDemoStore.propose of a new key: on the policy in force only; a replay
\* that raises is a candidate that failed, and takes the key.
Propose(r, key, targets, raises) ==
  LET c == <<r, key>>
      status == IF raises \/ replayable[r] # {implementation} THEN "failed"
                ELSE IF Passes(r, targets) THEN "awaiting_approval" ELSE "rejected"
  IN /\ replayable[r] # {} /\ candidates[c] = NoCandidate /\ bound[r] = active
     /\ candidates' = [candidates EXCEPT ![c] =
          [status |-> status, targets |-> targets, binding |-> CandidateOf(c),
           by |-> implementation]]
     /\ UNCHANGED <<active, applied, bound, replayable, implementation>>

\* ReportingDemoStore.apply: everything propose found is checked again.
Apply(c) ==
  /\ candidates[c] # NoCandidate /\ applied # c /\ active.revision < MaxPolicies
  /\ candidates[c].status = "awaiting_approval" /\ bound[c[1]] = active
  /\ candidates[c].binding = CandidateOf(c)
  /\ candidates[c].by = implementation /\ Passes(c[1], candidates[c].targets)
  /\ active' = candidates[c].binding /\ applied' = c
  /\ UNCHANGED <<bound, replayable, candidates, implementation>>

\* Variant: a reset goes back to the first revision.
Variant_Reset ==
  /\ active.revision < MaxPolicies /\ active # Binding("appendix_only", Base, 0)
  /\ active' = Binding("appendix_only", Base, 0) /\ applied' = Base
  /\ UNCHANGED <<bound, replayable, candidates, implementation>>

\* ReportingDemoStore.reset.
Reset ==
  /\ active.revision < MaxPolicies
  /\ active' = Binding("appendix_only", Base, active.revision + 1) /\ applied' = Base
  /\ UNCHANGED <<bound, replayable, candidates, implementation>>

\* A deployment changes a renderer or the suite.
Upgrade ==
  /\ implementation < MaxUpgrades /\ implementation' = implementation + 1
  /\ UNCHANGED <<active, applied, bound, replayable, candidates>>

PoliciesNext ==
  \/ \E r \in PolicyRuns : AcceptRun(r) \/ FreezeReport(r)
  \/ \E r \in PolicyRuns, k \in FeedbackKeys, t \in TargetSets, raises \in BOOLEAN :
       Propose(r, k, t, raises)
  \/ (\E c \in EvolutionId : Apply(c)) \/ Reset \/ Upgrade

-----------------------------------------------------------------------------
\* What a report says of its policy is true, whatever was proposed, applied and
\* reset since, and in whatever order: one revision is one policy; a run is bound to
\* a changed layout only after a candidate was approved on the revision just before
\* it, and a candidate of an earlier revision is never in force again.
PoliciesAreEarned ==
  LET inForce == {active} \cup ({bound[r] : r \in PolicyRuns} \ {Unbound})
  IN \A b \in inForce :
       /\ \A d \in inForce : b.revision = d.revision => b = d
       /\ b.policy # "appendix_only" =>
            /\ candidates[b.version].status = "awaiting_approval"
            /\ candidates[b.version].binding = b
            /\ bound[b.version[1]].revision + 1 = b.revision
            /\ bound[b.version[1]].policy = "appendix_only"
       /\ b = active => applied = b.version
=============================================================================
