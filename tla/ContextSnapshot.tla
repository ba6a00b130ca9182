--------------------------- MODULE ContextSnapshot ---------------------------
(***************************************************************************)
(* From what the sources said to what an investigator reads of it           *)
(* (agents/deepsearch_runtime.py, acquisition/context_freezer.py,           *)
(* contracts/acquisition.py, investigation/snapshot_access.py).             *)
(*                                                                         *)
(* The supplement agent executes the planned tasks with tools that it calls *)
(* in any order, again after a submission too; its last answer of a task is *)
(* the one that counts.  The freezer merges the answers into the submodules *)
(* without touching what the sources said, and the readers of the frozen    *)
(* snapshot show each investigator what its checks grant, and record it.    *)
(***************************************************************************)
EXTENDS SupplementResearch

CONSTANTS
  Acquired,         \* [submodule -> context] the acquisition may hand over
  Settings,         \* [annual, gaps, agent, searchTool]: what is configured
  Webs, AnnualPages,\* what the web may hold at a call
  CallerInputs,     \* sets of inputs the caller may have given
  LowConfidence,    \* pages whose evidence is below low_confidence_threshold
  Grants,           \* check -> [agent, submodules]: SnapshotReadGrant
  MaxToolCalls,     \* bound: tool calls of the supplement agent
  MaxReads,         \* max_snapshot_reads
  MaxRefusals       \* bound: different reads that are refused

\* Acquired evidence is that of the sources, and a check can only be granted what the
\* acquisition always plans (ACQUISITION_CATALOG, load_check_catalog).
ASSUME SnapshotAssumption ==
  \A a \in Acquired :
    /\ \A s \in DOMAIN a : \A e \in a[s].evidence : e.layer = "source"
    /\ \A g \in DOMAIN Grants : Grants[g].submodules \subseteq DOMAIN a

Readers == {Grants[g].agent : g \in DOMAIN Grants}
ReadOp == {"assigned", "submodule", "evidence"}

VARIABLES
  setting,          \* the configuration of this behaviour
  acquired,         \* submodule -> [availability, completeness, evidence, gaps]
  inputs,           \* what the caller gave
  supplement,       \* "planning", "running", "ended", "failed"
  captured,         \* task -> {} or {outcome}: _DeepSearchState.captured
  submitted,        \* _DeepSearchState.submitted
  toolCalls,
  snapshot,         \* {} or {the frozen snapshot}
  reads,            \* _snapshot_reads of the ledger
  audit,            \* SnapshotReadAuditRecords
  seen              \* reader -> evidence it was shown

snapshotVars == <<setting, acquired, inputs, supplement, captured, submitted, toolCalls,
                  snapshot, reads, audit, seen>>

Tasks == Planned(acquired, setting.annual, setting.gaps)
BaselineTask == [target |-> AnnualReports, gap |-> Baseline]
AllTasks == [target : UNION {DOMAIN a : a \in Acquired},
             gap : {Baseline, "capability_absent", "source_error", "partial_coverage"}]

SnapshotInit ==
  /\ setting \in Settings /\ acquired \in Acquired /\ inputs \in CallerInputs
  /\ supplement = "planning" /\ captured = [t \in AllTasks |-> {}] /\ submitted = {}
  /\ toolCalls = 0 /\ snapshot = {} /\ reads = 0 /\ audit = {} /\ seen = [r \in Readers |-> {}]

frozenVars == <<snapshot, reads, audit, seen>>
given == <<setting, acquired, inputs>>

-----------------------------------------------------------------------------
\* The policy's plan: nothing to do, no agent or no search tool to do it with, or
\* the agent is built over its tasks.
PlanSupplement ==
  /\ supplement = "planning"
  /\ supplement' = CASE Tasks = {} -> "ended"
                     [] Tasks # {} /\ ~setting.agent -> "failed"
                     [] Tasks # {} /\ setting.agent /\ ~setting.searchTool
                          /\ Tasks # {BaselineTask} -> "failed"
                     [] OTHER -> "running"
  /\ UNCHANGED <<captured, submitted, toolCalls>> /\ UNCHANGED given /\ UNCHANGED frozenVars

Capture(t, outcome) ==
  /\ supplement = "running" /\ t \in Tasks /\ toolCalls < MaxToolCalls
  /\ toolCalls' = toolCalls + 1 /\ captured' = [captured EXCEPT ![t] = {outcome}]
  /\ UNCHANGED <<supplement, submitted>> /\ UNCHANGED given /\ UNCHANGED frozenVars

\* annual_report: with the subject, time and cutoff of its task, refused otherwise.
FetchAnnualReport == \E pages \in AnnualPages : Capture(BaselineTask, FetchLatest(pages))

\* bounded_web_search: one of the gap tasks.
SearchGap == \E t \in Tasks \ {BaselineTask}, web \in Webs : Capture(t, GapOutcome(t, web))

\* submit_supplement_outcome: of a task that was executed.
SubmitOutcome(t) ==
  /\ supplement = "running" /\ captured[t] # {} /\ t \notin submitted
  /\ submitted' = submitted \cup {t}
  /\ UNCHANGED <<supplement, captured, toolCalls>> /\ UNCHANGED given /\ UNCHANGED frozenVars

\* The agent's stream ends, or breaks.
EndSupplement ==
  /\ supplement = "running"
  /\ supplement' \in {IF submitted = Tasks THEN "ended" ELSE "failed", "failed"}
  /\ UNCHANGED <<captured, submitted, toolCalls>> /\ UNCHANGED given /\ UNCHANGED frozenVars

-----------------------------------------------------------------------------
\* The outcome a task is frozen with.
OutcomeOf(t) == CHOOSE o \in captured[t] : TRUE
SourceEvidence == UNION {acquired[s].evidence : s \in DOMAIN acquired}
InputEvidence == {[layer |-> "input", task |-> BaselineTask, page |-> i, published |-> Undated,
                   ours |-> TRUE] : i \in inputs}
OutcomesFor(s) == {t \in Tasks : t.target = s}

\* _validate_evidence.
Freezable == \A t \in Tasks : \A e \in OutcomeOf(t).evidence :
               e.layer = "web" /\ Current(e.published)

\* _merge_supplement: a submodule with its supplement beside it, partial from then
\* on; what the source said stays.
Merged(s) ==
  LET ts == OutcomesFor(s)
  IN [availability |-> acquired[s].availability,
      completeness |-> IF ts = {} THEN acquired[s].completeness ELSE "partial",
      evidence |-> acquired[s].evidence, gaps |-> acquired[s].gaps,
      supplemental |-> UNION {OutcomeOf(t).evidence : t \in ts},
      covered |-> {t \in ts : t.gap = Baseline
                     /\ OutcomeOf(t).status \in {"verified_records", "verified_empty"}}]

\* The gaps of the whole: an answered task takes away those of its submodule, one
\* without an answer, or with a weak one, adds its own, by its own name.
Variant_Resolves(t) == OutcomeOf(t).evidence # {} \/ OutcomeOf(t).status = "verified_empty"
Resolves(t) == OutcomeOf(t).evidence # {} /\ ~OutcomeOf(t).unresolved
FrozenGaps ==
  (UNION {{[target |-> s, why |-> w] : w \in acquired[s].gaps} :
            s \in {d \in DOMAIN acquired : ~\E t \in OutcomesFor(d) : Resolves(t)}})
  \cup {[task |-> t, why |-> OutcomeOf(t).status] : t \in
          {u \in Tasks : OutcomeOf(u).unresolved
                           \/ OutcomeOf(u).status \in {"verified_empty", "source_error"}}}
  \cup {[task |-> t, why |-> "low_confidence"] : t \in
          {u \in Tasks : \E e \in OutcomeOf(u).evidence : e.page \in LowConfidence}}

\* What is frozen: every submodule of the plan, every piece of evidence of the
\* three layers, the tasks and the gaps.
Frozen ==
  [contexts |-> [s \in DOMAIN acquired |-> Merged(s)],
   evidence |-> SourceEvidence \cup InputEvidence
                \cup UNION {OutcomeOf(t).evidence : t \in Tasks},
   tasks |-> Tasks, gaps |-> FrozenGaps]

\* validate_snapshot_references.
Consistent(f) ==
  /\ \A s \in DOMAIN f.contexts :
       f.contexts[s].evidence \cup f.contexts[s].supplemental \subseteq f.evidence
  /\ \A t \in f.tasks : t.target \in DOMAIN f.contexts

Freeze ==
  /\ supplement = "ended" /\ snapshot = {}
  /\ IF Freezable /\ Consistent(Frozen)
     THEN snapshot' = {Frozen} /\ UNCHANGED supplement
     ELSE supplement' = "failed" /\ UNCHANGED snapshot
  /\ UNCHANGED <<captured, submitted, toolCalls, reads, audit, seen>> /\ UNCHANGED given

-----------------------------------------------------------------------------
Layers(k) == k.evidence \cup k.supplemental
GrantsOf(r) == {g \in DOMAIN Grants : Grants[g].agent = r}
beforeReads == <<supplement, captured, submitted, toolCalls, snapshot>>
Record(r, g, op, s, what, allowed) ==
  [reader |-> r, task |-> g, operation |-> op, submodule |-> s, evidence |-> what,
   allowed |-> allowed]

\* read_assigned_context: one claim, all that the reader's checks grant, a record
\* for each check and submodule.
ReadAssigned(r) ==
  \E f \in snapshot :
    /\ reads < MaxReads /\ reads' = reads + 1
    /\ audit' = audit \cup UNION {{Record(r, g, "assigned", s, Layers(f.contexts[s]), TRUE) :
                                     s \in Grants[g].submodules \cap DOMAIN f.contexts} :
                                    g \in GrantsOf(r)}
    /\ seen' = [seen EXCEPT ![r] = @ \cup UNION {Layers(f.contexts[s]) : s \in
                                         UNION {Grants[g].submodules : g \in GrantsOf(r)}}]
    /\ UNCHANGED beforeReads /\ UNCHANGED given

\* _authorize: the task is one of the reader's, the submodule one of the task's.
Variant_Authorized(r, g, s) == g \in DOMAIN Grants /\ s \in Grants[g].submodules
Authorized(r, g, s) == g \in GrantsOf(r) /\ s \in Grants[g].submodules

\* read_submodule and read_evidence: refused and recorded, or claimed, recorded and
\* shown.  The claim waits for the ledger's lock, and nothing that was checked
\* before it can change meanwhile.
ReadPart(r, g, op, s, what) ==
  \E f \in snapshot :
    /\ what \subseteq f.evidence /\ s \in DOMAIN f.contexts
    /\ LET known == op = "evidence" => what \subseteq Layers(f.contexts[s])
           shown == IF op = "submodule" THEN Layers(f.contexts[s]) ELSE what
       IN IF Authorized(r, g, s) /\ known
          THEN /\ reads < MaxReads /\ reads' = reads + 1
               /\ audit' = audit \cup {Record(r, g, op, s, shown, TRUE)}
               /\ seen' = [seen EXCEPT ![r] = @ \cup shown]
          ELSE /\ Cardinality({a \in audit : ~a.allowed}) < MaxRefusals
               /\ audit' = audit \cup {Record(r, g, op, s, what, FALSE)}
               /\ UNCHANGED <<reads, seen>>
    /\ UNCHANGED beforeReads /\ UNCHANGED given

SnapshotNext ==
  \/ PlanSupplement \/ FetchAnnualReport \/ SearchGap \/ EndSupplement \/ Freeze
  \/ \E t \in AllTasks : SubmitOutcome(t)
  \/ \E r \in Readers : ReadAssigned(r)
  \/ \E r \in Readers, g \in DOMAIN Grants, s \in DOMAIN acquired :
       \/ ReadPart(r, g, "submodule", s, {})
       \/ \E e \in UNION {f.evidence : f \in snapshot} : ReadPart(r, g, "evidence", s, {e})

-----------------------------------------------------------------------------
\* The supplement never overstates: whatever the agent searched, repeated and
\* submitted, and in whatever order, a submodule of the snapshot has the
\* availability and the evidence of its source, an empty one nothing but the annual
\* report's; a gap of the source is still listed unless there is evidence for its
\* submodule, and a task without evidence is listed as one; and what was added is a
\* page about the subject, published by the report's date.
FrozenIsFaithful ==
  \A f \in snapshot :
    /\ DOMAIN f.contexts = DOMAIN acquired
    /\ \A s \in DOMAIN acquired :
         LET k == f.contexts[s]  a == acquired[s]
         IN /\ k.availability = a.availability /\ k.evidence = a.evidence
            /\ k.completeness = "complete" => a.completeness = "complete" /\ k.supplemental = {}
            /\ a.availability = "verified_empty" /\ s # AnnualReports => k.supplemental = {}
            /\ k.supplemental = {} =>
                 \A w \in a.gaps : [target |-> s, why |-> w] \in f.gaps
    /\ \A t \in f.tasks : (\E e \in f.contexts[t.target].supplemental : e.task = t)
         \/ [task |-> t, why |-> OutcomeOf(t).status] \in f.gaps
    /\ \A e \in f.evidence : e.layer = "web" =>
         e.ours /\ Current(e.published) /\ e.task \in submitted

\* What an investigator was shown is of a submodule that one of its own checks
\* grants, is in the snapshot, and stands in the audit as an allowed read, charged
\* to the run; a read that was refused showed nothing.
ReadsAreTraced ==
  \A r \in Readers :
    /\ seen[r] = UNION {a.evidence : a \in {b \in audit : b.reader = r /\ b.allowed}}
    /\ \A e \in seen[r] : \E f \in snapshot, g \in GrantsOf(r) : \E s \in Grants[g].submodules :
         e \in Layers(f.contexts[s]) /\ e \in f.evidence
    /\ seen[r] # {} => reads > 0
=============================================================================
