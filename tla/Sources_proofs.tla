--------------------------- MODULE Sources_proofs ---------------------------
(***************************************************************************)
(* Proofs about what is known of an enterprise, for every source, web, plan *)
(* and scenario: what a submodule is told of an honest source, what the     *)
(* freezer makes of the supplement, what the readers of the frozen snapshot *)
(* are shown, and what the older strategies accept.                         *)
(***************************************************************************)
EXTENDS AcquisitionGateway, ContextSnapshot, PeerStrategies, FiniteSetTheorems,
        WellFoundedInduction, TLAPS

PeersSpec == PeersInit /\ [][PeersNext]_peerVars

-----------------------------------------------------------------------------
(* The older strategies.  A finding is accepted only by a review of the     *)
(* store as it stands when the outcome is made, so what matters is that no  *)
(* issue of the four kinds can miss a finding it is about.                  *)

\* What the property says of one finding of an outcome.
Stands(o, f) ==
  /\ f.cites # {} /\ f.cites \subseteq {e.id : e \in o.evidence}
  /\ arm = "multi" => \A e \in {x \in o.evidence : x.id \in f.cites} :
       /\ ~e.future /\ ~e.negative
       /\ \A x \in o.evidence : x.field = e.field => x.value = e.value

\* An issue names the findings it was made of.
LEMMA IssueNames ==
  ASSUME NEW kind, NEW about, NEW domain, NEW F, NEW f \in F
  PROVE  f.id \in Issue(kind, about, domain, F).findings
  BY DEF Issue

\* A finding that no unsupported-evidence issue names cites known evidence.
LEMMA SupportedCites ==
  ASSUME NEW F, NEW E, NEW f \in F,
         \A i \in Unsupported(F, E) : f.id \notin i.findings
  PROVE  f.cites # {} /\ f.cites \subseteq {e.id : e \in E}
<1> SUFFICES ASSUME f.cites = {} \/ ~(f.cites \subseteq {e.id : e \in E}) PROVE FALSE
  OBVIOUS
<1>1. Issue("insufficient", f.id, "none", {f}) \in Unsupported(F, E)
  BY DEF Unsupported
<1>2. f.id \in Issue("insufficient", f.id, "none", {f}).findings
  BY IssueNames
<1> QED
  BY <1>1, <1>2

\* A finding that no other issue names cites nothing of the future, no negative
\* amount and nothing that other evidence of its field contradicts.
LEMMA FitCites ==
  ASSUME NEW F, NEW E, NEW f \in F, NEW e \in E, e.id \in f.cites,
         \A i \in Conflicts(F, E) \cup Unfit(F, E) : f.id \notin i.findings
  PROVE  /\ ~e.future /\ ~e.negative
         /\ \A x \in E : x.field = e.field => x.value = e.value
<1>1. f \in Citing(F, {e})
  BY DEF Citing
<1>2. ~e.future
  <2> SUFFICES ASSUME e.future PROVE FALSE
    OBVIOUS
  <2>1. Issue("future", e.id, "none", Citing(F, {e})) \in Unfit(F, E)
    BY DEF Unfit
  <2> QED
    BY <1>1, <2>1, IssueNames
<1>3. ~e.negative
  <2> SUFFICES ASSUME e.negative PROVE FALSE
    OBVIOUS
  <2>1. Issue("amount", e.id, "none", Citing(F, {e})) \in Unfit(F, E)
    BY DEF Unfit
  <2> QED
    BY <1>1, <2>1, IssueNames
<1>4. ASSUME NEW x \in E, x.field = e.field, x.value # e.value PROVE FALSE
  <2> DEFINE g == e.field
             about == Citing(F, {y \in E : y.field = g})
  <2>1. f \in about
    BY DEF Citing
  <2>2. Issue("conflict", g, g[1], about) \in Conflicts(F, E)
    BY <1>4 DEF Conflicts
  <2> QED
    BY <2>1, <2>2, IssueNames
<1> QED
  BY <1>2, <1>3, <1>4

\* What Finalized makes of a finding: accepted when no issue names it.
LEMMA FinalizedFinding ==
  ASSUME NEW F, NEW I, NEW g \in Finalized(F, I)
  PROVE  \E f \in F : /\ g.id = f.id /\ g.cites = f.cites
                      /\ g.status = "accepted" => \A i \in I : f.id \notin i.findings
                      /\ g.status # "accepted" => \E i \in I : f.id \in i.findings
<1>1. PICK f \in F : g = [id |-> f.id, cites |-> f.cites,
                          status |-> IF f.id \in UNION {i.findings : i \in I}
                                     THEN "unconfirmed" ELSE "accepted"]
  BY DEF Finalized
<1> QED
  BY <1>1

\* An outcome of a reviewed store stands.
LEMMA ReviewedOutcome ==
  ASSUME NEW F, NEW S, NEW g \in Finalized(F, Reviewed(F, S))
  PROVE  LET E == {x.item : x \in S}
             o == [findings |-> Finalized(F, Reviewed(F, S)), issues |-> Reviewed(F, S),
                   evidence |-> E]
         IN IF g.status = "accepted" THEN Stands(o, g)
            ELSE \E i \in o.issues : g.id \in i.findings
<1> DEFINE E == {x.item : x \in S}
           I == Reviewed(F, S)
<1>1. PICK f \in F : /\ g.id = f.id /\ g.cites = f.cites
                     /\ g.status = "accepted" => \A i \in I : f.id \notin i.findings
                     /\ g.status # "accepted" => \E i \in I : f.id \in i.findings
  BY FinalizedFinding
<1>2. Conflicts(F, E) \cup Unfit(F, E) \subseteq I /\ Unsupported(F, E) \subseteq I
  BY DEF Reviewed
<1> HIDE DEF I, E
<1>3. CASE g.status = "accepted"
  <2>1. g.cites # {} /\ g.cites \subseteq {e.id : e \in E}
    BY <1>1, <1>2, <1>3, SupportedCites
  <2>2. \A e \in E : e.id \in g.cites =>
          /\ ~e.future /\ ~e.negative
          /\ \A x \in E : x.field = e.field => x.value = e.value
    BY <1>1, <1>2, <1>3, FitCites
  <2> QED
    BY <1>3, <2>1, <2>2 DEF Stands, E
<1>4. CASE g.status # "accepted"
  BY <1>1, <1>4 DEF I
<1> QED
  BY <1>3, <1>4

\* A review that leaves nothing to repair, or no round to repair in, concludes with
\* what it found.
LEMMA RoundConcludes ==
  ASSUME AcceptedIsSupported, NEW n, Round(Reviewed(findings, store), n),
         UNCHANGED <<findings, store, arm>>
  PROVE  AcceptedIsSupported'
<1> DEFINE wrong == Reviewed(findings, store)
<1>1. CASE UNCHANGED outcome
  BY <1>1 DEF AcceptedIsSupported
<1>2. CASE outcome' = {[findings |-> Finalized(findings, wrong), issues |-> wrong,
                        evidence |-> {x.item : x \in store}]}
  <2> SUFFICES ASSUME NEW o \in outcome', NEW f \in o.findings
               PROVE  IF f.status = "accepted" THEN Stands(o, f)
                      ELSE \E i \in o.issues : f.id \in i.findings
    BY DEF AcceptedIsSupported, Stands
  <2> QED
    BY <1>2, ReviewedOutcome
<1> QED
  BY <1>1, <1>2 DEF Round, Concluded

\* The single arm reviews itself; its findings have evidence and nothing more is said.
LEMMA SingleConcludes ==
  ASSUME ConcludeSingle PROVE AcceptedIsSupported'
<1> DEFINE E == {x.item : x \in store}
           I == Unsupported(findings, E)
<1>1. /\ arm' = "single"
      /\ outcome' = {[findings |-> Finalized(findings, I), issues |-> I, evidence |-> E]}
  BY DEF ConcludeSingle, SingleReviewed
<1> HIDE DEF E
<1>2. ASSUME NEW f \in Finalized(findings, I)
      PROVE  IF f.status = "accepted" THEN f.cites # {} /\ f.cites \subseteq {e.id : e \in E}
             ELSE \E i \in I : f.id \in i.findings
  <2>1. PICK g \in findings : /\ f.id = g.id /\ f.cites = g.cites
                              /\ f.status = "accepted" => \A i \in I : g.id \notin i.findings
                              /\ f.status # "accepted" => \E i \in I : g.id \in i.findings
    BY FinalizedFinding
  <2> QED
    BY <2>1, SupportedCites
<1> HIDE DEF I
<1> QED
  BY <1>1, <1>2 DEF AcceptedIsSupported

\* For every scenario, source, order in which the domains come home and number of
\* repairs: what a run of the older strategies accepts cites evidence of its outcome
\* that holds, and what it does not accept is named by an issue.
THEOREM AcceptedStaysSupported == PeersSpec => []AcceptedIsSupported
<1>1. PeersInit => AcceptedIsSupported
  BY DEF PeersInit, AcceptedIsSupported
<1>2. AcceptedIsSupported /\ [PeersNext]_peerVars => AcceptedIsSupported'
  <2> SUFFICES ASSUME AcceptedIsSupported, [PeersNext]_peerVars PROVE AcceptedIsSupported'
    OBVIOUS
  <2>1. CASE UNCHANGED <<arm, outcome>>
    BY <2>1 DEF AcceptedIsSupported
  <2>2. CASE Review
    BY <2>2, RoundConcludes DEF Review
  <2>3. CASE ReviewAgain
    BY <2>3, RoundConcludes DEF ReviewAgain
  <2>4. CASE ConcludeSingle
    BY <2>4, SingleConcludes
  <2>5. PeersNext => UNCHANGED <<arm, outcome>> \/ Review \/ ReviewAgain \/ ConcludeSingle
    BY DEF PeersNext, Prepare, TeamTalks, TeamEnds, Begin, Enter, Leave, Interrupted, Repair,
           AskNext
  <2> QED
    BY <2>1, <2>2, <2>3, <2>4, <2>5 DEF peerVars
<1> QED
  BY <1>1, <1>2, PTL DEF PeersSpec

-----------------------------------------------------------------------------
(* The supplement and the frozen snapshot. *)

SnapshotSpec == SnapshotInit /\ [][SnapshotNext]_snapshotVars

\* What an execution of a task may leave: evidence of the web about the subject, of
\* its time and of this task, and no answer that is not called unresolved.
OutcomeFits(t, o) ==
  /\ \A e \in o.evidence : /\ e.layer = "web" /\ e.task = t
                           /\ e.ours /\ Current(e.published)
  /\ o.evidence = {} => o.unresolved

Captured ==
  /\ captured = [t \in AllTasks |-> captured[t]]
  /\ \A t \in AllTasks :
       \/ captured[t] = {}
       \/ t \in Tasks /\ \E o \in captured[t] : captured[t] = {o} /\ OutcomeFits(t, o)

\* Nothing is submitted that was not executed, the supplement ends with all of its
\* tasks submitted, and what is frozen is what the outcomes still say, since none is
\* captured any more.
SnapshotInv ==
  /\ acquired \in Acquired /\ Captured
  /\ submitted \subseteq {t \in Tasks : captured[t] # {}}
  /\ supplement = "planning" => submitted = {}
  /\ supplement = "ended" => submitted = Tasks
  /\ snapshot \subseteq {Frozen}
  /\ snapshot # {} => supplement = "ended" /\ Consistent(Frozen)

-----------------------------------------------------------------------------
\* A gap has one of three names, and an empty answer is none.
LEMMA GapTypes ==
  ASSUME NEW k, GapType(k) # "none"
  PROVE  /\ GapType(k) \in {"capability_absent", "source_error", "partial_coverage"}
         /\ k.availability # "verified_empty"
  BY DEF GapType

\* The tasks are the baseline's and those of open gaps, of submodules there are.
LEMMA TaskOf ==
  ASSUME acquired \in Acquired, NEW t \in Tasks
  PROVE  /\ t \in AllTasks /\ t.target \in DOMAIN acquired
         /\ \/ t = BaselineTask
            \/ /\ t.gap = GapType(acquired[t.target]) /\ t.gap # "none"
               /\ acquired[t.target].availability # "verified_empty"
<1>1. CASE t = BaselineTask /\ AnnualReports \in DOMAIN acquired
  BY <1>1 DEF BaselineTask, AllTasks
<1>2. ASSUME NEW s \in DOMAIN acquired, GapType(acquired[s]) # "none",
             t = [target |-> s, gap |-> GapType(acquired[s])]
      PROVE  /\ t \in AllTasks /\ t.target = s
             /\ t.gap = GapType(acquired[s]) /\ t.gap # "none"
             /\ acquired[s].availability # "verified_empty"
  <2>1. GapType(acquired[s]) \in {"capability_absent", "source_error", "partial_coverage"}
    BY <1>2, GapTypes
  <2>2. s \in UNION {DOMAIN a : a \in Acquired}
    OBVIOUS
  <2> QED
    BY <1>2, <2>1, <2>2, GapTypes DEF AllTasks
<1>3. \/ t = BaselineTask /\ AnnualReports \in DOMAIN acquired
      \/ \E s \in DOMAIN acquired : /\ GapType(acquired[s]) # "none"
                                    /\ t = [target |-> s, gap |-> GapType(acquired[s])]
  BY DEF Tasks, Planned, BaselineTask
<1> QED
  BY <1>1, <1>2, <1>3 DEF BaselineTask

\* A round keeps the fetched pages that name the subject and are of its time.
LEMMA RoundFits ==
  ASSUME NEW web, NEW queries, NEW before, NEW p \in RoundOf(web, queries, before).pages
  PROVE  Admissible(web.document[p], p)
  BY DEF RoundOf

\* What a search for a gap leaves fits its task.
LEMMA GapOutcomeFits == ASSUME NEW t, NEW web PROVE OutcomeFits(t, GapOutcome(t, web))
<1>1. \A p \in Research(web) : Admissible(web.document[p], p)
  BY RoundFits DEF Research
<1>2. \A e \in WebEvidence(t, web) : \E p \in Research(web) :
        /\ e.layer = "web" /\ e.task = t
        /\ e.published = web.document[p].published /\ e.ours = web.document[p].ours
  BY DEF WebEvidence
<1>3. \A e \in WebEvidence(t, web) : /\ e.layer = "web" /\ e.task = t
                                     /\ e.ours /\ Current(e.published)
  BY <1>1, <1>2 DEF Admissible
<1> QED
  BY <1>3 DEF OutcomeFits, GapOutcome

\* An annual report is evidence only when it was read in full, is the subject's and
\* was published in time.
LEMMA ReadInFull ==
  ASSUME NEW p, NEW year, ReadPage(p, year) = "verified_records"
  PROVE  p.ours /\ Current(p.published)
  BY DEF ReadPage

\* What the walk through the annual reports leaves fits the baseline task.
LEMMA LatestFits == ASSUME NEW pages PROVE OutcomeFits(BaselineTask, FetchLatest(pages))
<1> DEFINE years == {y \in DOMAIN pages : y < ReportYear /\ y >= ReportYear - Lookback}
           deciding == {y \in years : ReadPage(pages[y], y) # "skipped"}
           latest == CHOOSE y \in deciding : \A z \in deciding : z <= y
           status == IF deciding = {} THEN "verified_empty" ELSE ReadPage(pages[latest], latest)
           found == IF status # "verified_records" THEN {}
                    ELSE {[layer |-> "web", task |-> BaselineTask, page |-> latest,
                           published |-> pages[latest].published, ours |-> pages[latest].ours]}
<1> HIDE DEF latest, deciding
<1>1. FetchLatest(pages) =
        [status |-> status, evidence |-> found, unresolved |-> status # "verified_records"]
  BY DEF FetchLatest, BaselineTask, latest, deciding
<1>2. CASE status = "verified_records"
  <2>1. ReadPage(pages[latest], latest) = "verified_records"
    BY <1>2
  <2>2. pages[latest].ours /\ Current(pages[latest].published)
    BY <2>1, ReadInFull
  <2>3. found = {[layer |-> "web", task |-> BaselineTask, page |-> latest,
                  published |-> pages[latest].published, ours |-> pages[latest].ours]}
    BY <1>2
  <2> HIDE DEF found, status
  <2>4. \A e \in found : /\ e.layer = "web" /\ e.task = BaselineTask
                         /\ e.ours /\ Current(e.published)
    BY <2>2, <2>3
  <2>5. found # {}
    BY <2>3
  <2>6. FetchLatest(pages).evidence = found
    BY <1>1
  <2> QED
    BY <2>4, <2>5, <2>6 DEF OutcomeFits
<1>3. CASE status # "verified_records"
  <2>1. found = {}
    BY <1>3
  <2> HIDE DEF found, status
  <2>2. FetchLatest(pages).evidence = {}
    BY <1>1, <2>1
  <2>3. FetchLatest(pages).unresolved
    <3>1. FetchLatest(pages).unresolved = (status # "verified_records")
      <4> DEFINE open == status # "verified_records"
      <4>1. FetchLatest(pages) = [status |-> status, evidence |-> found, unresolved |-> open]
        BY <1>1
      <4>2. open \in BOOLEAN
        OBVIOUS
      <4> HIDE DEF open
      <4>3. FetchLatest(pages).unresolved = open
        BY <4>1, <4>2
      <4> QED
        BY <4>3 DEF open
    <3> QED
      BY <1>3, <3>1, Zenon
  <2> QED
    BY <2>2, <2>3 DEF OutcomeFits
<1> QED
  BY <1>2, <1>3

-----------------------------------------------------------------------------
\* Nothing that is frozen depends on more than what was acquired, given, configured
\* and captured.
LEMMA FrozenStays ==
  ASSUME UNCHANGED given, UNCHANGED captured
  PROVE  Tasks' = Tasks /\ Frozen' = Frozen /\ (Consistent(Frozen))' = Consistent(Frozen)
<1>1. Tasks' = Tasks
  BY DEF Tasks, given
<1>2. \A t : OutcomeOf(t)' = OutcomeOf(t)
  BY DEF OutcomeOf
<1>3. \A s : OutcomesFor(s)' = OutcomesFor(s)
  BY <1>1 DEF OutcomesFor
<1>4. \A s : Merged(s)' = Merged(s)
  BY <1>2, <1>3 DEF Merged, given
<1>5. \A t : Resolves(t)' = Resolves(t)
  BY <1>2 DEF Resolves
<1>6. FrozenGaps' = FrozenGaps
  BY <1>1, <1>2, <1>3, <1>5 DEF FrozenGaps, given
<1>7. SourceEvidence' = SourceEvidence /\ InputEvidence' = InputEvidence
  BY DEF SourceEvidence, InputEvidence, given
<1>8. Frozen' = Frozen
  BY <1>1, <1>2, <1>4, <1>6, <1>7 DEF Frozen, given
<1> QED
  BY <1>1, <1>8 DEF Consistent

LEMMA SnapshotStays ==
  ASSUME SnapshotInv, UNCHANGED given, UNCHANGED <<supplement, captured, submitted, snapshot>>
  PROVE  SnapshotInv'
  BY FrozenStays DEF SnapshotInv, Captured, given

LEMMA SnapshotInitially == ASSUME SnapshotInit PROVE SnapshotInv
  BY DEF SnapshotInit, SnapshotInv, Captured

LEMMA PlanSteps == ASSUME SnapshotInv, PlanSupplement PROVE SnapshotInv'
<1>1. UNCHANGED given /\ UNCHANGED <<captured, submitted, snapshot>>
  BY DEF PlanSupplement, frozenVars
<1>2. supplement = "planning" /\ supplement' \in {"ended", "failed", "running"}
      /\ (supplement' = "ended" => Tasks = {})
  BY DEF PlanSupplement
<1>3. Tasks' = Tasks /\ Frozen' = Frozen /\ (Consistent(Frozen))' = Consistent(Frozen)
  BY <1>1, FrozenStays
<1>4. snapshot = {} /\ submitted = {}
  BY <1>2 DEF SnapshotInv
<1> QED
  BY <1>1, <1>2, <1>3, <1>4 DEF SnapshotInv, Captured, given

LEMMA CaptureSteps ==
  ASSUME SnapshotInv, NEW t, NEW o, OutcomeFits(t, o), Capture(t, o)
  PROVE  SnapshotInv'
<1>1. /\ t \in Tasks /\ supplement = "running" /\ supplement' = "running"
      /\ captured' = [captured EXCEPT ![t] = {o}]
      /\ UNCHANGED given /\ UNCHANGED <<submitted, snapshot>>
  BY DEF Capture, frozenVars
<1>2. Tasks' = Tasks
  BY <1>1 DEF Tasks, given
<1>3. t \in AllTasks
  BY <1>1, TaskOf DEF SnapshotInv
<1>4. snapshot = {}
  BY <1>1 DEF SnapshotInv
<1>5. \A u \in AllTasks : captured'[u] = IF u = t THEN {o} ELSE captured[u]
  BY <1>1 DEF SnapshotInv, Captured
<1>6. Captured'
  BY <1>1, <1>2, <1>3, <1>5 DEF SnapshotInv, Captured
<1>7. submitted' \subseteq {u \in Tasks' : captured'[u] # {}}
  <2> SUFFICES ASSUME NEW u \in submitted PROVE u \in Tasks /\ captured'[u] # {}
    BY <1>1, <1>2
  <2>1. u \in Tasks /\ captured[u] # {}
    BY DEF SnapshotInv
  <2>2. u \in AllTasks
    BY <2>1, TaskOf DEF SnapshotInv
  <2> QED
    BY <2>1, <2>2, <1>5
<1> QED
  BY <1>1, <1>4, <1>6, <1>7 DEF SnapshotInv, given

LEMMA SubmitSteps == ASSUME SnapshotInv, NEW t \in AllTasks, SubmitOutcome(t) PROVE SnapshotInv'
<1>1. /\ supplement = "running" /\ captured[t] # {} /\ submitted' = submitted \cup {t}
      /\ UNCHANGED given /\ UNCHANGED <<supplement, captured, snapshot>>
  BY DEF SubmitOutcome, frozenVars
<1>2. Tasks' = Tasks /\ Frozen' = Frozen /\ (Consistent(Frozen))' = Consistent(Frozen)
  BY <1>1, FrozenStays
<1>3. t \in Tasks
  BY <1>1 DEF SnapshotInv, Captured
<1>4. Captured'
  BY <1>1, <1>2 DEF SnapshotInv, Captured
<1> QED
  BY <1>1, <1>2, <1>3, <1>4 DEF SnapshotInv, given

LEMMA EndSteps == ASSUME SnapshotInv, EndSupplement PROVE SnapshotInv'
<1>1. /\ supplement = "running" /\ supplement' \in {"ended", "failed"}
      /\ supplement' = "ended" => submitted = Tasks
      /\ UNCHANGED given /\ UNCHANGED <<captured, submitted, snapshot>>
  BY DEF EndSupplement, frozenVars
<1>2. Tasks' = Tasks /\ Frozen' = Frozen /\ (Consistent(Frozen))' = Consistent(Frozen)
  BY <1>1, FrozenStays
<1>3. snapshot = {}
  BY <1>1 DEF SnapshotInv
<1> QED
  BY <1>1, <1>2, <1>3 DEF SnapshotInv, Captured, given

LEMMA FreezeSteps == ASSUME SnapshotInv, Freeze PROVE SnapshotInv'
<1>1. /\ UNCHANGED given /\ UNCHANGED <<captured, submitted>> /\ supplement = "ended"
      /\ \/ Consistent(Frozen) /\ snapshot' = {Frozen} /\ supplement' = "ended"
         \/ snapshot' = {} /\ supplement' = "failed"
  BY DEF Freeze
<1>2. Tasks' = Tasks /\ Frozen' = Frozen /\ (Consistent(Frozen))' = Consistent(Frozen)
  BY <1>1, FrozenStays
<1> QED
  BY <1>1, <1>2 DEF SnapshotInv, Captured, given

LEMMA SnapshotSteps == ASSUME SnapshotInv, [SnapshotNext]_snapshotVars PROVE SnapshotInv'
<1>1. CASE PlanSupplement
  BY <1>1, PlanSteps
<1>2. CASE FetchAnnualReport
  BY <1>2, CaptureSteps, LatestFits DEF FetchAnnualReport
<1>3. CASE SearchGap
  BY <1>3, CaptureSteps, GapOutcomeFits DEF SearchGap
<1>4. CASE EndSupplement
  BY <1>4, EndSteps
<1>5. CASE Freeze
  BY <1>5, FreezeSteps
<1>6. CASE \E t \in AllTasks : SubmitOutcome(t)
  BY <1>6, SubmitSteps
<1>7. CASE UNCHANGED given /\ UNCHANGED <<supplement, captured, submitted, snapshot>>
  BY <1>7, SnapshotStays
<1>8. \/ PlanSupplement \/ FetchAnnualReport \/ SearchGap \/ EndSupplement \/ Freeze
      \/ \E t \in AllTasks : SubmitOutcome(t)
      \/ UNCHANGED given /\ UNCHANGED <<supplement, captured, submitted, snapshot>>
  <2>1. ASSUME NEW r, ReadAssigned(r)
        PROVE  UNCHANGED given /\ UNCHANGED <<supplement, captured, submitted, snapshot>>
    BY <2>1 DEF ReadAssigned, beforeReads
  <2>2. ASSUME NEW r, NEW g, NEW op, NEW s, NEW what, ReadPart(r, g, op, s, what)
        PROVE  UNCHANGED given /\ UNCHANGED <<supplement, captured, submitted, snapshot>>
    BY <2>2 DEF ReadPart, beforeReads
  <2>3. UNCHANGED snapshotVars =>
          UNCHANGED given /\ UNCHANGED <<supplement, captured, submitted, snapshot>>
    BY DEF snapshotVars, given
  <2> QED
    BY <2>1, <2>2, <2>3 DEF SnapshotNext
<1> QED
  BY <1>1, <1>2, <1>3, <1>4, <1>5, <1>6, <1>7, <1>8

\* Whatever is acquired, searched, repeated and submitted: what is frozen is what the
\* tasks' last outcomes say, each of which fits its task, and all were submitted.
THEOREM SnapshotInvariant == SnapshotSpec => []SnapshotInv
BY SnapshotInitially, SnapshotSteps, PTL DEF SnapshotSpec

-----------------------------------------------------------------------------
\* The outcome of a task that was executed is the one captured last.
LEMMA OutcomeOfFits ==
  ASSUME Captured, NEW t \in AllTasks, captured[t] # {}
  PROVE  OutcomeFits(t, OutcomeOf(t))
  BY DEF Captured, OutcomeOf

\* An empty submodule has no task but the baseline's.
LEMMA FaithfulTasks ==
  ASSUME SnapshotInv, NEW f \in snapshot
  PROVE  /\ f = Frozen /\ submitted = Tasks
         /\ \A t \in Tasks : /\ t.target \in DOMAIN acquired /\ OutcomeFits(t, OutcomeOf(t))
                             /\ \/ t = BaselineTask
                                \/ acquired[t.target].availability # "verified_empty"
<1>1. f = Frozen /\ submitted = Tasks
  BY DEF SnapshotInv
<1>2. ASSUME NEW t \in Tasks
      PROVE  /\ t.target \in DOMAIN acquired /\ OutcomeFits(t, OutcomeOf(t))
             /\ \/ t = BaselineTask
                \/ acquired[t.target].availability # "verified_empty"
  <2>1. captured[t] # {}
    BY <1>1 DEF SnapshotInv
  <2> QED
    BY <2>1, TaskOf, OutcomeOfFits DEF SnapshotInv
<1> QED
  BY <1>1, <1>2

\* What a submodule is frozen as.
LEMMA FrozenSubmodules ==
  ASSUME SnapshotInv, NEW f \in snapshot, NEW s \in DOMAIN acquired
  PROVE  /\ f.contexts[s].availability = acquired[s].availability
         /\ f.contexts[s].evidence = acquired[s].evidence
         /\ f.contexts[s].completeness =
              IF OutcomesFor(s) = {} THEN acquired[s].completeness ELSE "partial"
         /\ f.contexts[s].supplemental = UNION {OutcomeOf(t).evidence : t \in OutcomesFor(s)}
<1>1. f = Frozen
  BY FaithfulTasks
<1>2. f.contexts[s] = Merged(s)
  BY <1>1 DEF Frozen
<1> QED
  BY <1>2 DEF Merged

\* A gap of the source stays listed where nothing was added, and so does a task that
\* added nothing.
LEMMA FrozenGapsStay ==
  ASSUME SnapshotInv, NEW f \in snapshot
  PROVE  /\ \A s \in DOMAIN acquired : f.contexts[s].supplemental = {} =>
              \A w \in acquired[s].gaps : [target |-> s, why |-> w] \in f.gaps
         /\ \A t \in Tasks : OutcomeOf(t).evidence = {} =>
              [task |-> t, why |-> OutcomeOf(t).status] \in f.gaps
<1>1. f.gaps = FrozenGaps
  BY FaithfulTasks DEF Frozen
<1>2. ASSUME NEW s \in DOMAIN acquired, f.contexts[s].supplemental = {},
             NEW w \in acquired[s].gaps
      PROVE  [target |-> s, why |-> w] \in FrozenGaps
  <2>1. UNION {OutcomeOf(t).evidence : t \in OutcomesFor(s)} = {}
    BY <1>2, FrozenSubmodules
  <2>2. \A t \in OutcomesFor(s) : OutcomeOf(t).evidence = {}
    BY <2>1
  <2>3. ~\E t \in OutcomesFor(s) : Resolves(t)
    BY <2>2 DEF Resolves
  <2> DEFINE open == {d \in DOMAIN acquired : ~\E t \in OutcomesFor(d) : Resolves(t)}
             of(d) == {[target |-> d, why |-> v] : v \in acquired[d].gaps}
  <2>4. UNION {of(d) : d \in open} \subseteq FrozenGaps
    BY DEF FrozenGaps
  <2>5. s \in open /\ [target |-> s, why |-> w] \in of(s)
    BY <2>3
  <2> HIDE DEF open, of
  <2> QED
    BY <2>4, <2>5
<1>3. ASSUME NEW t \in Tasks, OutcomeOf(t).evidence = {}
      PROVE  [task |-> t, why |-> OutcomeOf(t).status] \in FrozenGaps
  <2>1. OutcomeOf(t).unresolved
    BY <1>3, FaithfulTasks DEF OutcomeFits
  <2> DEFINE unresolved == {u \in Tasks : OutcomeOf(u).unresolved
                              \/ OutcomeOf(u).status \in {"verified_empty", "source_error"}}
             listed == {[task |-> u, why |-> OutcomeOf(u).status] : u \in unresolved}
  <2>2. listed \subseteq FrozenGaps
    BY DEF FrozenGaps
  <2>3. t \in unresolved
    BY <2>1
  <2> HIDE DEF unresolved
  <2>4. [task |-> t, why |-> OutcomeOf(t).status] \in listed
    BY <2>3
  <2> QED
    BY <2>2, <2>4
<1> QED
  BY <1>1, <1>2, <1>3

\* What of the frozen evidence is of the web is of some task.
LEMMA FrozenEvidence ==
  ASSUME SnapshotInv, NEW f \in snapshot, NEW e \in f.evidence, e.layer = "web"
  PROVE  \E t \in Tasks : e \in OutcomeOf(t).evidence
<1>1. f.evidence = SourceEvidence \cup InputEvidence \cup UNION {OutcomeOf(t).evidence : t \in Tasks}
  BY FaithfulTasks DEF Frozen
<1>2. e \notin SourceEvidence
  <2>1. acquired \in Acquired
    BY DEF SnapshotInv
  <2>2. \A s \in DOMAIN acquired : \A x \in acquired[s].evidence : x.layer = "source"
    BY <2>1, SnapshotAssumption
  <2> QED
    BY <2>2 DEF SourceEvidence
<1>3. e \notin InputEvidence
  BY DEF InputEvidence
<1> QED
  BY <1>1, <1>2, <1>3

LEMMA FaithfulWhenFrozen == ASSUME SnapshotInv PROVE FrozenIsFaithful
<1> SUFFICES ASSUME NEW f \in snapshot
             PROVE  /\ DOMAIN f.contexts = DOMAIN acquired
                    /\ \A s \in DOMAIN acquired :
                         LET k == f.contexts[s]  a == acquired[s]
                         IN /\ k.availability = a.availability /\ k.evidence = a.evidence
                            /\ k.completeness = "complete" =>
                                 a.completeness = "complete" /\ k.supplemental = {}
                            /\ a.availability = "verified_empty" /\ s # AnnualReports =>
                                 k.supplemental = {}
                            /\ k.supplemental = {} =>
                                 \A w \in a.gaps : [target |-> s, why |-> w] \in f.gaps
                    /\ \A t \in f.tasks :
                         \/ \E e \in f.contexts[t.target].supplemental : e.task = t
                         \/ [task |-> t, why |-> OutcomeOf(t).status] \in f.gaps
                    /\ \A e \in f.evidence : e.layer = "web" =>
                         e.ours /\ Current(e.published) /\ e.task \in submitted
  BY DEF FrozenIsFaithful
<1>1. DOMAIN f.contexts = DOMAIN acquired /\ f.tasks = Tasks
  BY FaithfulTasks DEF Frozen
<1>2. ASSUME NEW s \in DOMAIN acquired
      PROVE  LET k == f.contexts[s]  a == acquired[s]
             IN /\ k.availability = a.availability /\ k.evidence = a.evidence
                /\ k.completeness = "complete" =>
                     a.completeness = "complete" /\ k.supplemental = {}
                /\ a.availability = "verified_empty" /\ s # AnnualReports => k.supplemental = {}
                /\ k.supplemental = {} =>
                     \A w \in a.gaps : [target |-> s, why |-> w] \in f.gaps
  <2>1. OutcomesFor(s) = {} =>
          UNION {OutcomeOf(t).evidence : t \in OutcomesFor(s)} = {}
    OBVIOUS
  <2>2. acquired[s].availability = "verified_empty" /\ s # AnnualReports => OutcomesFor(s) = {}
    BY FaithfulTasks DEF OutcomesFor, BaselineTask
  <2>3. f.contexts[s].supplemental = {} =>
          \A w \in acquired[s].gaps : [target |-> s, why |-> w] \in f.gaps
    BY FrozenGapsStay
  <2> QED
    BY <2>1, <2>2, <2>3, FrozenSubmodules
<1>3. ASSUME NEW t \in Tasks
      PROVE  \/ \E e \in f.contexts[t.target].supplemental : e.task = t
             \/ [task |-> t, why |-> OutcomeOf(t).status] \in f.gaps
  <2>1. CASE OutcomeOf(t).evidence = {}
    BY <2>1, FrozenGapsStay
  <2>2. CASE OutcomeOf(t).evidence # {}
    <3>1. PICK e \in OutcomeOf(t).evidence : e.task = t
      BY <2>2, FaithfulTasks DEF OutcomeFits
    <3>2. t \in OutcomesFor(t.target) /\ t.target \in DOMAIN acquired
      BY FaithfulTasks DEF OutcomesFor
    <3>3. f.contexts[t.target].supplemental =
            UNION {OutcomeOf(u).evidence : u \in OutcomesFor(t.target)}
      BY <3>2, FrozenSubmodules
    <3>4. e \in f.contexts[t.target].supplemental
      BY <3>1, <3>2, <3>3
    <3> QED
      BY <3>1, <3>4
  <2> QED
    BY <2>1, <2>2
<1>4. ASSUME NEW e \in f.evidence, e.layer = "web"
      PROVE  e.ours /\ Current(e.published) /\ e.task \in submitted
  <2>1. PICK t \in Tasks : e \in OutcomeOf(t).evidence
    BY <1>4, FrozenEvidence
  <2>2. submitted = Tasks /\ OutcomeFits(t, OutcomeOf(t))
    BY FaithfulTasks
  <2> QED
    BY <2>1, <2>2 DEF OutcomeFits
<1> QED
  BY <1>1, <1>2, <1>3, <1>4

\* For every plan, acquisition and web, and every order in which the agent searches,
\* repeats and submits: the frozen snapshot never overstates what was found.
THEOREM FrozenStaysFaithful == SnapshotSpec => []FrozenIsFaithful
BY SnapshotInvariant, FaithfulWhenFrozen, PTL

-----------------------------------------------------------------------------
(* Who reads what of it. *)

ReadsInv ==
  /\ reads \in Nat /\ seen = [r \in Readers |-> seen[r]]
  /\ ReadsAreTraced

\* What the frozen snapshot has for a reader is there: the submodules it grants and
\* their evidence.
LEMMA Granted ==
  ASSUME SnapshotInv, NEW f \in snapshot, NEW g \in DOMAIN Grants, NEW s \in Grants[g].submodules
  PROVE  s \in DOMAIN f.contexts /\ Layers(f.contexts[s]) \subseteq f.evidence
<1>1. acquired \in Acquired /\ f = Frozen /\ Consistent(f)
  BY FaithfulTasks DEF SnapshotInv
<1>2. s \in DOMAIN acquired
  BY <1>1, SnapshotAssumption
<1>3. DOMAIN f.contexts = DOMAIN acquired
  BY <1>1 DEF Frozen
<1> QED
  BY <1>1, <1>2, <1>3 DEF Consistent, Layers

\* A step that adds records of what it shows to one reader keeps every reader's trace.
LEMMA ShownIsTraced ==
  ASSUME ReadsInv, NEW r \in Readers, NEW shown, NEW new,
         \A a \in new : a.reader = r /\ a.allowed,
         UNION {a.evidence : a \in new} = shown,
         \A e \in shown : \E f \in snapshot, g \in GrantsOf(r) : \E s \in Grants[g].submodules :
           e \in Layers(f.contexts[s]) /\ e \in f.evidence,
         audit' = audit \cup new, seen' = [seen EXCEPT ![r] = @ \cup shown],
         reads' = reads + 1, UNCHANGED snapshot
  PROVE  ReadsInv'
<1>1. \A q \in Readers : seen'[q] = IF q = r THEN seen[q] \cup shown ELSE seen[q]
  BY DEF ReadsInv
<1>2. reads' \in Nat /\ reads' > 0
  BY DEF ReadsInv
<1>3. ASSUME NEW q \in Readers
      PROVE  seen'[q] = UNION {a.evidence : a \in {b \in audit' : b.reader = q /\ b.allowed}}
  <2> DEFINE of(set) == {b \in set : b.reader = q /\ b.allowed}
  <2>1. seen[q] = UNION {a.evidence : a \in of(audit)}
    BY DEF ReadsInv, ReadsAreTraced
  <2>2. of(audit') = of(audit) \cup (IF q = r THEN new ELSE {})
    OBVIOUS
  <2> HIDE DEF of
  <2>3. CASE q = r
    <3>1. UNION {a.evidence : a \in of(audit')}
            = (UNION {a.evidence : a \in of(audit)}) \cup UNION {a.evidence : a \in new}
      BY <2>2, <2>3
    <3> QED
      BY <3>1, <2>1, <2>3, <1>1 DEF of
  <2>4. CASE q # r
    BY <2>1, <2>2, <2>4, <1>1 DEF of
  <2> QED
    BY <2>3, <2>4
<1>4. ASSUME NEW q \in Readers, NEW e \in seen'[q]
      PROVE  \E f \in snapshot, g \in GrantsOf(q) : \E s \in Grants[g].submodules :
               e \in Layers(f.contexts[s]) /\ e \in f.evidence
  <2>1. CASE e \in seen[q]
    BY <2>1 DEF ReadsInv, ReadsAreTraced
  <2>2. CASE q = r /\ e \in shown
    BY <2>2
  <2> QED
    BY <1>1, <1>4, <2>1, <2>2
<1>5. seen' = [q \in Readers |-> seen'[q]]
  BY DEF ReadsInv
<1>6. ReadsAreTraced'
  BY <1>2, <1>3, <1>4 DEF ReadsAreTraced
<1> QED
  BY <1>2, <1>5, <1>6 DEF ReadsInv

LEMMA AssignedSteps ==
  ASSUME SnapshotInv, ReadsInv, NEW r \in Readers, ReadAssigned(r)
  PROVE  ReadsInv'
<1> DEFINE
      news(f) == UNION {{Record(r, g, "assigned", s, Layers(f.contexts[s]), TRUE) :
                           s \in Grants[g].submodules \cap DOMAIN f.contexts} : g \in GrantsOf(r)}
      all(f) == UNION {Layers(f.contexts[s]) : s \in
                         UNION {Grants[g].submodules : g \in GrantsOf(r)}}
<1>1. PICK f \in snapshot : /\ audit' = audit \cup news(f) /\ reads' = reads + 1
                            /\ seen' = [seen EXCEPT ![r] = @ \cup all(f)]
                            /\ UNCHANGED snapshot
  BY DEF ReadAssigned, beforeReads
<1>2. \A a \in news(f) : a.reader = r /\ a.allowed /\ a.task \in GrantsOf(r)
                         /\ a.submodule \in Grants[a.task].submodules
                         /\ a.evidence = Layers(f.contexts[a.submodule])
  BY DEF Record
<1>3. \A g \in GrantsOf(r) : \A s \in Grants[g].submodules :
        \E a \in news(f) : a.evidence = Layers(f.contexts[s])
  <2> SUFFICES ASSUME NEW g \in GrantsOf(r), NEW s \in Grants[g].submodules
               PROVE  \E a \in news(f) : a.evidence = Layers(f.contexts[s])
    OBVIOUS
  <2>1. s \in Grants[g].submodules \cap DOMAIN f.contexts
    BY Granted DEF GrantsOf
  <2>2. Record(r, g, "assigned", s, Layers(f.contexts[s]), TRUE) \in news(f)
    <3> DEFINE of(h) == {Record(r, h, "assigned", t, Layers(f.contexts[t]), TRUE) :
                           t \in Grants[h].submodules \cap DOMAIN f.contexts}
    <3>1. of(g) \in {of(h) : h \in GrantsOf(r)}
      OBVIOUS
    <3>2. Record(r, g, "assigned", s, Layers(f.contexts[s]), TRUE) \in of(g)
      BY <2>1
    <3>3. news(f) = UNION {of(h) : h \in GrantsOf(r)}
      OBVIOUS
    <3> HIDE DEF of, news
    <3> QED
      BY <3>1, <3>2, <3>3
  <2>3. Record(r, g, "assigned", s, Layers(f.contexts[s]), TRUE).evidence = Layers(f.contexts[s])
    BY DEF Record
  <2> QED
    BY <2>2, <2>3
<1>4. \A e \in all(f) : \E g \in GrantsOf(r) : \E s \in Grants[g].submodules :
        e \in Layers(f.contexts[s])
  OBVIOUS
<1>5. \A g \in GrantsOf(r) : \A s \in Grants[g].submodules : Layers(f.contexts[s]) \subseteq all(f)
  OBVIOUS
<1>6. \A g \in GrantsOf(r) : \A s \in Grants[g].submodules :
        Layers(f.contexts[s]) \subseteq f.evidence
  BY Granted DEF GrantsOf
<1> HIDE DEF news, all
<1>7. UNION {a.evidence : a \in news(f)} = all(f)
  <2>1. ASSUME NEW e \in all(f) PROVE \E a \in news(f) : e \in a.evidence
    BY <2>1, <1>3, <1>4
  <2>2. ASSUME NEW a \in news(f) PROVE a.evidence \subseteq all(f)
    BY <2>2, <1>2, <1>5
  <2> QED
    BY <2>1, <2>2
<1>8. \A e \in all(f) : \E k \in snapshot, g \in GrantsOf(r) : \E s \in Grants[g].submodules :
        e \in Layers(k.contexts[s]) /\ e \in k.evidence
  BY <1>4, <1>6
<1> QED
  BY <1>1, <1>2, <1>7, <1>8, ShownIsTraced

LEMMA PartSteps ==
  ASSUME SnapshotInv, ReadsInv, NEW r \in Readers, NEW g, NEW op, NEW s, NEW what,
         op \in {"submodule", "evidence"}, ReadPart(r, g, op, s, what)
  PROVE  ReadsInv'
<1>1. PICK f \in snapshot :
        LET known == op = "evidence" => what \subseteq Layers(f.contexts[s])
            shown == IF op = "submodule" THEN Layers(f.contexts[s]) ELSE what
        IN IF Authorized(r, g, s) /\ known
           THEN /\ reads' = reads + 1
                /\ audit' = audit \cup {Record(r, g, op, s, shown, TRUE)}
                /\ seen' = [seen EXCEPT ![r] = @ \cup shown]
           ELSE /\ audit' = audit \cup {Record(r, g, op, s, what, FALSE)}
                /\ UNCHANGED <<reads, seen>>
  BY DEF ReadPart
<1>2. UNCHANGED snapshot
  BY DEF ReadPart, beforeReads
<1> DEFINE known == op = "evidence" => what \subseteq Layers(f.contexts[s])
           shown == IF op = "submodule" THEN Layers(f.contexts[s]) ELSE what
<1>3. CASE Authorized(r, g, s) /\ known
  <2> DEFINE new == {Record(r, g, op, s, shown, TRUE)}
  <2>1. shown \subseteq Layers(f.contexts[s])
    BY <1>3
  <2>2. g \in GrantsOf(r) /\ g \in DOMAIN Grants /\ s \in Grants[g].submodules
    BY <1>3 DEF Authorized, GrantsOf
  <2>3. Layers(f.contexts[s]) \subseteq f.evidence
    BY <2>2, Granted
  <2>4. reads' = reads + 1 /\ audit' = audit \cup new /\ seen' = [seen EXCEPT ![r] = @ \cup shown]
    BY <1>1, <1>3
  <2>5. /\ \A a \in new : a.reader = r /\ a.allowed
        /\ UNION {a.evidence : a \in new} = shown
    BY DEF Record
  <2>6. \A e \in shown : \E k \in snapshot, h \in GrantsOf(r) : \E t \in Grants[h].submodules :
          e \in Layers(k.contexts[t]) /\ e \in k.evidence
    BY <2>1, <2>2, <2>3
  <2> HIDE DEF new, shown
  <2> QED
    BY <1>2, <2>4, <2>5, <2>6, ShownIsTraced
<1>4. CASE ~(Authorized(r, g, s) /\ known)
  <2>1. audit' = audit \cup {Record(r, g, op, s, what, FALSE)} /\ UNCHANGED <<reads, seen>>
    BY <1>1, <1>4
  <2>2. ~Record(r, g, op, s, what, FALSE).allowed
    BY DEF Record
  <2>3. \A q \in Readers : {b \in audit' : b.reader = q /\ b.allowed}
                             = {b \in audit : b.reader = q /\ b.allowed}
    BY <2>1, <2>2
  <2> QED
    BY <1>2, <2>1, <2>3 DEF ReadsInv, ReadsAreTraced
<1> QED
  BY <1>3, <1>4

LEMMA ReadsSteps ==
  ASSUME SnapshotInv, ReadsInv, [SnapshotNext]_snapshotVars PROVE ReadsInv'
<1>1. CASE UNCHANGED frozenVars
  BY <1>1 DEF frozenVars, ReadsInv, ReadsAreTraced
<1>2. CASE Freeze
  <2>1. UNCHANGED <<reads, audit, seen>> /\ snapshot = {}
    BY <1>2 DEF Freeze
  <2>2. \A r \in Readers : seen[r] = {}
    BY <2>1 DEF ReadsInv, ReadsAreTraced
  <2> QED
    BY <2>1, <2>2 DEF ReadsInv, ReadsAreTraced
<1>3. CASE \E r \in Readers : ReadAssigned(r)
  BY <1>3, AssignedSteps
<1>4. CASE \E r \in Readers, g \in DOMAIN Grants, s \in DOMAIN acquired :
             \/ ReadPart(r, g, "submodule", s, {})
             \/ \E e \in UNION {f.evidence : f \in snapshot} : ReadPart(r, g, "evidence", s, {e})
  <2>1. PICK r \in Readers, g \in DOMAIN Grants, s \in DOMAIN acquired :
          \/ ReadPart(r, g, "submodule", s, {})
          \/ \E e \in UNION {f.evidence : f \in snapshot} : ReadPart(r, g, "evidence", s, {e})
    BY <1>4
  <2>2. CASE ReadPart(r, g, "submodule", s, {})
    BY <2>2, PartSteps
  <2>3. ASSUME NEW e, ReadPart(r, g, "evidence", s, {e}) PROVE ReadsInv'
    BY <2>3, PartSteps
  <2> QED
    BY <2>1, <2>2, <2>3
<1>5. PlanSupplement \/ FetchAnnualReport \/ SearchGap \/ EndSupplement
        \/ (\E t \in AllTasks : SubmitOutcome(t)) => UNCHANGED frozenVars
  BY DEF PlanSupplement, FetchAnnualReport, SearchGap, EndSupplement, SubmitOutcome, Capture
<1>6. UNCHANGED snapshotVars => UNCHANGED frozenVars
  BY DEF snapshotVars, frozenVars
<1> QED
  BY <1>1, <1>2, <1>3, <1>4, <1>5, <1>6 DEF SnapshotNext

\* For every grant, snapshot and order of reads, refused ones among them: what an
\* investigator has seen is granted to it, is in the snapshot and stands in the audit.
THEOREM ReadsStayTraced == SnapshotSpec => []ReadsAreTraced
<1>1. SnapshotInit => ReadsInv
  BY DEF SnapshotInit, ReadsInv, ReadsAreTraced
<1>2. SnapshotInv /\ ReadsInv /\ [SnapshotNext]_snapshotVars => ReadsInv'
  BY ReadsSteps
<1>3. ReadsInv => ReadsAreTraced
  BY DEF ReadsInv
<1> QED
  BY <1>1, <1>2, <1>3, SnapshotInvariant, PTL DEF SnapshotSpec

-----------------------------------------------------------------------------
(* The acquisition.  A query has, at every page, the evidence of the pages   *)
(* before it: the sums of what they give, by induction over the pages, done  *)
(* by hand on the set of the numbers it holds of.                            *)

GatewaySpec == GatewayInit /\ [][GatewayNext]_gatewayVars

LEMMA LeastNatural ==
  ASSUME NEW T \in SUBSET Nat, T # {} PROVE \E m \in T : \A n \in T : m <= n
<1>1. \E x \in T : \A y \in T : ~(<<y, x>> \in OpToRel(<, Nat))
  BY NatLessThanWellFounded, WFMin
<1>2. PICK x \in T : \A y \in T : ~(<<y, x>> \in OpToRel(<, Nat))
  BY <1>1
<1>3. \A y \in T : ~(y < x)
  BY <1>2 DEF OpToRel
<1>4. \A y \in T : x <= y
  <2>1. x \in Nat /\ \A y \in T : y \in Nat
    BY <1>2
  <2> QED
    BY <1>3, <2>1
<1> QED
  BY <1>2, <1>4

\* A set of numbers that holds zero, and with every number the next, is all of them.
LEMMA NaturalSetInduction ==
  ASSUME NEW T \in SUBSET Nat, 0 \in T, \A n \in T : n + 1 \in T PROVE T = Nat
<1> SUFFICES ASSUME Nat \ T # {} PROVE FALSE
  OBVIOUS
<1>1. PICK m \in Nat \ T : \A n \in Nat \ T : m <= n
  BY LeastNatural
<1>2. m - 1 \in Nat /\ m - 1 \in T
  BY <1>1
<1> QED
  BY <1>1, <1>2

\* Sums are there, and each is the one before it with one number more.
LEMMA SumsAre ==
  ASSUME NEW n \in Nat, NEW x, \A i \in 1 .. n : x[i] \in Nat
  PROVE  /\ Sums(n, x) \in [0 .. n -> Nat] /\ Sums(n, x)[0] = 0
         /\ \A i \in 1 .. n : Sums(n, x)[i] = Sums(n, x)[i - 1] + x[i]
<1> DEFINE Next1(s, i) == IF i = 0 THEN 0 ELSE s[i - 1] + x[i]
           Summed(s, k) == s \in [0 .. k -> Nat] /\ \A i \in 0 .. k : s[i] = Next1(s, i)
           T == {k \in Nat : k <= n => \E s : Summed(s, k)}
<1>1. 0 \in T
  <2> DEFINE s == [i \in 0 .. 0 |-> 0]
  <2>1. Summed(s, 0)
    OBVIOUS
  <2> QED
    BY <2>1
<1>2. \A k \in T : k + 1 \in T
  <2> SUFFICES ASSUME NEW k \in Nat, k + 1 <= n, NEW s, Summed(s, k)
               PROVE  \E t : Summed(t, k + 1)
    <3> HIDE DEF Summed
    <3>1. \A k \in Nat : k + 1 \in Nat /\ (k + 1 <= n => k <= n)
      OBVIOUS
    <3> QED
      BY <3>1
  <2> DEFINE t == [i \in 0 .. k + 1 |-> IF i = k + 1 THEN s[k] + x[k + 1] ELSE s[i]]
  <2>1. \A i \in 0 .. k + 1 : i # k + 1 => i \in 0 .. k
    OBVIOUS
  <2>2. s[k] + x[k + 1] \in Nat
    OBVIOUS
  <2>3. t \in [0 .. k + 1 -> Nat]
    BY <2>1, <2>2
  <2>4. \A i \in 0 .. k : t[i] = s[i]
    OBVIOUS
  <2>5. t[k + 1] = t[k] + x[k + 1]
    BY <2>4
  <2> HIDE DEF t
  <2>6. ASSUME NEW i \in 0 .. k + 1 PROVE t[i] = Next1(t, i)
    <3>1. CASE i = k + 1
      BY <2>5, <3>1
    <3>2. CASE i = 0
      BY <2>4, <3>2
    <3>3. CASE i # 0 /\ i # k + 1
      <4>1. i \in 0 .. k /\ i - 1 \in 0 .. k
        BY <3>3
      <4> QED
        BY <2>4, <3>3, <4>1
    <3> QED
      BY <3>1, <3>2, <3>3
  <2>7. Summed(t, k + 1)
    BY <2>3, <2>6
  <2> HIDE DEF Summed
  <2> QED
    BY <2>7
<1>3. T \in SUBSET Nat
  OBVIOUS
<1> HIDE DEF T
<1>4. n \in T
  BY <1>1, <1>2, <1>3, NaturalSetInduction
<1>5. PICK s : Summed(s, n)
  <2>1. n <= n
    OBVIOUS
  <2> HIDE DEF Summed
  <2> QED
    BY <1>4, <2>1 DEF T
<1>6. s = [i \in 0 .. n |-> IF i = 0 THEN 0 ELSE s[i - 1] + x[i]]
  BY <1>5
<1> DEFINE S == CHOOSE f : f = [i \in 0 .. n |-> IF i = 0 THEN 0 ELSE f[i - 1] + x[i]]
<1>7. Sums(n, x) = S
  BY DEF Sums
<1>8. S = [i \in 0 .. n |-> IF i = 0 THEN 0 ELSE S[i - 1] + x[i]]
  BY <1>6
<1> HIDE DEF S
<1>9. \A k \in Nat : k <= n => S[k] \in Nat
  <2> DEFINE U == {k \in Nat : k <= n => S[k] \in Nat}
  <2>1. 0 \in U
    BY <1>8
  <2>2. \A k \in U : k + 1 \in U
    <3> SUFFICES ASSUME NEW k \in U, k + 1 <= n PROVE S[k + 1] \in Nat
      OBVIOUS
    <3>1. k + 1 \in 0 .. n /\ k + 1 # 0 /\ (k + 1) - 1 = k /\ k + 1 \in 1 .. n
      OBVIOUS
    <3>2. S[k + 1] = S[k] + x[k + 1]
      BY <1>8, <3>1
    <3>3. S[k] \in Nat /\ x[k + 1] \in Nat
      BY <3>1
    <3> QED
      BY <3>2, <3>3
  <2> HIDE DEF U
  <2>3. U \in SUBSET Nat
    BY DEF U
  <2>4. U = Nat
    BY <2>1, <2>2, <2>3, NaturalSetInduction
  <2> QED
    BY <2>4 DEF U
<1>10. \A i \in 0 .. n : S[i] = IF i = 0 THEN 0 ELSE S[i - 1] + x[i]
  BY <1>8
<1>11. S \in [0 .. n -> Nat]
  BY <1>8, <1>9
<1>12. S[0] = 0 /\ \A i \in 1 .. n : S[i] = S[i - 1] + x[i]
  BY <1>10
<1> QED
  BY <1>7, <1>11, <1>12

LEMMA FiniteHasLargest ==
  ASSUME NEW S, IsFiniteSet(S), S # {}, \A n \in S : n \in Nat
  PROVE  Largest(S) \in S /\ \A n \in S : n <= Largest(S)
<1> DEFINE Topped(s) == \E m \in s : \A n \in s : n <= m
           T == {k \in Nat : \E s \in SUBSET S : s # {} /\ Cardinality(s) = k /\ ~Topped(s)}
<1>1. T = {}
  <2> SUFFICES ASSUME T # {} PROVE FALSE
    OBVIOUS
  <2>1. T \in SUBSET Nat
    OBVIOUS
  <2>2. PICK k \in T : \A l \in T : k <= l
    BY <2>1, LeastNatural
  <2>3. PICK s \in SUBSET S : s # {} /\ Cardinality(s) = k /\ ~Topped(s)
    BY <2>2
  <2>4. PICK x \in s : TRUE
    BY <2>3
  <2> DEFINE r == s \ {x}
  <2>5. IsFiniteSet(s)
    BY FS_Subset
  <2>6. IsFiniteSet(r) /\ Cardinality(r) = k - 1 /\ k \in Nat
    BY <2>3, <2>4, <2>5, FS_RemoveElement
  <2>7. Cardinality(r) \in Nat
    BY <2>6, FS_CardinalityType
  <2>8. r = {} \/ Topped(r)
    <3> SUFFICES ASSUME r # {}, ~Topped(r) PROVE FALSE
      OBVIOUS
    <3>1. r \in SUBSET S
      OBVIOUS
    <3> HIDE DEF r, Topped
    <3>2. k - 1 \in T
      BY <2>6, <2>7, <3>1
    <3> QED
      BY <2>2, <2>6, <3>2
  <2>9. CASE r = {}
    <3>1. \A n \in s : n = x
      BY <2>9
    <3>2. x \in Nat
      BY <2>4
    <3>3. Topped(s)
      BY <2>4, <3>1, <3>2
    <3> QED
      BY <2>3, <3>3
  <2>10. CASE Topped(r)
    <3>1. PICK m \in r : \A n \in r : n <= m
      BY <2>10
    <3>2. m \in Nat /\ x \in Nat /\ \A n \in s : n \in Nat /\ (n = x \/ n \in r)
      BY <2>4
    <3>3. CASE m <= x
      <4>1. \A n \in s : n <= x
        BY <3>1, <3>2, <3>3
      <4>2. Topped(s)
        BY <2>4, <4>1
      <4> QED
        BY <2>3, <4>2
    <3>4. CASE x <= m
      <4>1. \A n \in s : n <= m
        BY <3>1, <3>2, <3>4
      <4>2. Topped(s)
        BY <3>1, <4>1
      <4> QED
        BY <2>3, <4>2
    <3> QED
      BY <3>2, <3>3, <3>4
  <2> QED
    BY <2>8, <2>9, <2>10
<1>2. Cardinality(S) \in Nat
  BY FS_CardinalityType
<1> HIDE DEF Topped
<1>3. Topped(S)
  BY <1>1, <1>2
<1> QED
  BY <1>3 DEF Topped, Largest

-----------------------------------------------------------------------------
(* Answers. *)

\* An answer as Honest takes it.
Sound(a) ==
  /\ {a.rows, a.texts} \subseteq Nat /\ (a.rows = 0 \/ Details(a) = {})
  /\ Len(a.records) \in Nat /\ DOMAIN a.records = 1 .. Len(a.records)
  /\ a.repeats \in 0 .. Cardinality(Details(a)) + a.rows
  /\ IsFiniteSet(a.counts) /\ \A n \in a.counts : n \in Nat
\* It lists and counts nothing.
Bare(a) == a.rows = 0 /\ Details(a) = {} /\ \A n \in a.counts : n = 0

LEMMA DetailsAreFinite ==
  ASSUME NEW a, Sound(a)
  PROVE  /\ IsFiniteSet(Details(a)) /\ Cardinality(Details(a)) \in Nat
         /\ Cardinality(Details(a)) <= Len(a.records)
         /\ a.records = Absent => Details(a) = {}
<1>1. Absent # <<>> /\ DOMAIN <<>> = {}
  BY DEF Absent
<1>2. Details(a) \subseteq 1 .. Len(a.records)
  BY <1>1 DEF Details, Structured, Sound
<1>3. 1 \in Int /\ Len(a.records) \in Int /\ Len(a.records) \in Nat
  BY DEF Sound
<1>4. IsFiniteSet(1 .. Len(a.records)) /\ Cardinality(1 .. Len(a.records)) = Len(a.records)
  <2>1. IsFiniteSet(1 .. Len(a.records))
        /\ Cardinality(1 .. Len(a.records)) = IF 1 > Len(a.records) THEN 0
                                              ELSE Len(a.records) - 1 + 1
    BY <1>3, FS_Interval
  <2> QED
    BY <1>3, <2>1
<1>5. IsFiniteSet(Details(a)) /\ Cardinality(Details(a)) <= Len(a.records)
  BY <1>2, <1>4, FS_Subset
<1>6. Cardinality(Details(a)) \in Nat
  BY <1>5, FS_CardinalityType
<1>7. a.records = Absent => Details(a) = {}
  BY <1>1 DEF Details, Structured
<1> QED
  BY <1>5, <1>6, <1>7

\* What counts only, lists years or links, lists no record.
LEMMA ListsNothing ==
  ASSUME NEW a, Sound(a), CountOnly(a) \/ DirectoryOnly(a) \/ LinkOnly(a)
  PROVE  a.rows = 0 /\ Details(a) = {}
<1>1. a.rows \in Nat
  BY DEF Sound
<1>2. CASE CountOnly(a)
  BY <1>2 DEF CountOnly
<1>3. CASE DirectoryOnly(a)
  <2>1. a.rows = 0
    BY <1>1, <1>3 DEF DirectoryOnly, Tabled
  <2>2. a.records = Absent \/ a.records = <<"directory">>
    BY <1>3 DEF DirectoryOnly
  <2>3. a.records = <<"directory">> => Details(a) = {}
    BY DEF Details, Structured, Absent
  <2> QED
    BY <2>1, <2>2, <2>3, DetailsAreFinite
<1>4. CASE LinkOnly(a)
  <2>1. a.rows = 0
    BY <1>1, <1>4 DEF LinkOnly, Tabled
  <2>2. Structured(a) = <<>> \/ a.records = <<"link">>
    BY <1>4 DEF LinkOnly
  <2>3. a.records = <<"link">> => Details(a) = {}
    BY DEF Details, Structured, Absent
  <2>4. Structured(a) = <<>> => Details(a) = {}
    <3>1. DOMAIN <<>> = {}
      OBVIOUS
    <3> QED
      BY <3>1 DEF Details
  <2> QED
    BY <2>1, <2>2, <2>3, <2>4
<1> QED
  BY <1>2, <1>3, <1>4

\* An answer gives at least what it lists.
LEMMA EvidenceIs ==
  ASSUME NEW a, Sound(a)
  PROVE  /\ EvidenceOf(a) \in Nat /\ Cardinality(Details(a)) + a.rows \in Nat
         /\ Cardinality(Details(a)) + a.rows <= EvidenceOf(a)
         /\ Fresh(a) \in Nat /\ Lists(a) \in Nat /\ Lists(a) <= Fresh(a)
<1>1. /\ Cardinality(Details(a)) \in Nat /\ Cardinality(Details(a)) <= Len(a.records)
      /\ a.records = Absent => Details(a) = {}
  BY DetailsAreFinite
<1>2. a.rows \in Nat /\ a.texts \in Nat /\ Len(a.records) \in Nat
      /\ (a.rows = 0 \/ Details(a) = {})
  BY DEF Sound
<1>3. Details(a) = {} => Cardinality(Details(a)) = 0
  BY FS_EmptySet
<1>4. CountOnly(a) \/ DirectoryOnly(a) \/ LinkOnly(a) => a.rows = 0 /\ Details(a) = {}
  BY ListsNothing
<1>5. ~Tabled(a) => a.rows = 0
  BY <1>2 DEF Tabled
<1> DEFINE d == Cardinality(Details(a))  e == EvidenceOf(a)
<1>6. \/ e = 1 /\ a.rows = 0 /\ d = 0
      \/ e = a.rows /\ d = 0 /\ a.rows > 0
      \/ e = d /\ a.rows = 0
      \/ e = a.texts /\ a.rows = 0 /\ d = 0
      \/ e = Len(a.records) /\ a.rows = 0
  <2>1. CASE CountOnly(a) \/ DirectoryOnly(a) \/ LinkOnly(a)
    BY <1>3, <1>4, <2>1 DEF EvidenceOf
  <2>2. CASE ~(CountOnly(a) \/ DirectoryOnly(a) \/ LinkOnly(a)) /\ Tabled(a)
    <3>1. e = IF a.rows > 0 THEN a.rows ELSE d
      BY <2>2 DEF EvidenceOf
    <3> QED
      BY <1>2, <1>3, <3>1
  <2>3. CASE ~(CountOnly(a) \/ DirectoryOnly(a) \/ LinkOnly(a)) /\ ~Tabled(a)
    <3>1. e = IF a.records = Absent THEN a.texts ELSE Len(a.records)
      BY <2>3 DEF EvidenceOf
    <3> QED
      BY <1>1, <1>3, <1>5, <2>3, <3>1
  <2> QED
    BY <2>1, <2>2, <2>3
<1> HIDE DEF d, e
<1>7. d \in Nat /\ d <= Len(a.records)
  BY <1>1 DEF d
<1>8. e \in Nat /\ d + a.rows \in Nat /\ d + a.rows <= e
  BY <1>2, <1>6, <1>7
<1>9. a.repeats \in 0 .. d + a.rows /\ Fresh(a) = e - a.repeats /\ Lists(a) = d + a.rows - a.repeats
  BY DEF Sound, Fresh, Lists, d, e
<1>10. Fresh(a) \in Nat /\ Lists(a) \in Nat /\ Lists(a) <= Fresh(a)
  BY <1>2, <1>7, <1>8, <1>9
<1> QED
  BY <1>8, <1>10 DEF d, e

\* One that counts for no record and shows no gap lists and counts nothing.
LEMMA NoRecordIsBare ==
  ASSUME NEW a, Sound(a), NEW financial, NEW asOf,
         Normalize(a, financial, asOf).records = 0, Normalize(a, financial, asOf).reasons = {}
  PROVE  Bare(a)
<1>1. CASE CountOnly(a) \/ DirectoryOnly(a) \/ LinkOnly(a)
  <2>1. ~(DirectoryOnly(a) \/ LinkOnly(a) \/ (CountOnly(a) /\ Largest(a.counts) > 0))
    BY DEF Normalize, Reasons
  <2>2. CountOnly(a) /\ ~(Largest(a.counts) > 0)
    BY <1>1, <2>1
  <2>3. a.counts # {} /\ IsFiniteSet(a.counts) /\ \A n \in a.counts : n \in Nat
    BY <2>2 DEF CountOnly, Sound
  <2>4. Largest(a.counts) \in a.counts /\ \A n \in a.counts : n <= Largest(a.counts)
    BY <2>3, FiniteHasLargest
  <2>5. \A n \in a.counts : n = 0
    BY <2>2, <2>3, <2>4
  <2> QED
    BY <1>1, <2>5, ListsNothing DEF Bare
<1>2. CASE ~(CountOnly(a) \/ DirectoryOnly(a) \/ LinkOnly(a))
  <2>1. EvidenceOf(a) = 0
    BY <1>2 DEF Normalize
  <2>2. /\ Cardinality(Details(a)) + a.rows <= 0 /\ Cardinality(Details(a)) \in Nat
        /\ a.rows \in Nat /\ IsFiniteSet(Details(a))
    BY <2>1, EvidenceIs, DetailsAreFinite DEF Sound
  <2>3. Cardinality(Details(a)) = 0 /\ a.rows = 0
    BY <2>2
  <2>4. Details(a) = {}
    BY <2>2, <2>3, FS_EmptySet
  <2>5. a.counts = {}
    BY <1>2, <2>3, <2>4 DEF CountOnly
  <2> QED
    BY <2>3, <2>4, <2>5 DEF Bare
<1> QED
  BY <1>1, <1>2

-----------------------------------------------------------------------------
(* A source, page after page. *)

GivenBy(h) == Sums(Len(h), [i \in 1 .. Len(h) |-> Fresh(h[i])])
ListedBy(h) == Sums(Len(h), [i \in 1 .. Len(h) |-> Lists(h[i])])

LEMMA HonestIsSound ==
  ASSUME NEW h, NEW paged, Honest(h, paged)
  PROVE  /\ Len(h) \in Nat /\ DOMAIN h = 1 .. Len(h) /\ (paged \/ Len(h) = 1)
         /\ \A i \in 1 .. Len(h) : Sound(h[i])
         /\ \A i \in 1 .. Len(h) : i < Len(h) => h[i].more \/ Total(h[i]) > GivenBy(h)[i]
         /\ \/ \A i \in 1 .. Len(h) : h[i].counts \subseteq 0 .. Listed(h)
            \/ Len(h) = 1 /\ CountOnly(h[1])
  BY DEF Honest, Sound, GivenBy

LEMMA GivenIs ==
  ASSUME NEW h, NEW paged, Honest(h, paged)
  PROVE  /\ GivenBy(h) \in [0 .. Len(h) -> Nat] /\ GivenBy(h)[0] = 0
         /\ \A i \in 1 .. Len(h) : GivenBy(h)[i] = GivenBy(h)[i - 1] + Fresh(h[i])
<1> DEFINE x == [i \in 1 .. Len(h) |-> Fresh(h[i])]
<1>1. Len(h) \in Nat /\ \A i \in 1 .. Len(h) : x[i] = Fresh(h[i]) /\ x[i] \in Nat
  BY HonestIsSound, EvidenceIs
<1>2. GivenBy(h) = Sums(Len(h), x)
  BY DEF GivenBy
<1> HIDE DEF x
<1> QED
  BY <1>1, <1>2, SumsAre

LEMMA ListedIs ==
  ASSUME NEW h, NEW paged, Honest(h, paged)
  PROVE  /\ ListedBy(h) \in [0 .. Len(h) -> Nat] /\ ListedBy(h)[0] = 0
         /\ \A i \in 1 .. Len(h) :
              ListedBy(h)[i] = ListedBy(h)[i - 1] + Lists(h[i])
         /\ Listed(h) = ListedBy(h)[Len(h)] /\ Listed(h) \in Nat
<1> DEFINE x == [i \in 1 .. Len(h) |-> Lists(h[i])]
<1>1. Len(h) \in Nat /\ \A i \in 1 .. Len(h) :
        x[i] = Lists(h[i]) /\ x[i] \in Nat
  BY HonestIsSound, EvidenceIs
<1>2. ListedBy(h) = Sums(Len(h), x) /\ Listed(h) = ListedBy(h)[Len(h)]
  BY DEF ListedBy, Listed
<1> HIDE DEF x
<1>3. /\ ListedBy(h) \in [0 .. Len(h) -> Nat] /\ ListedBy(h)[0] = 0
      /\ \A i \in 1 .. Len(h) : ListedBy(h)[i] = ListedBy(h)[i - 1] + x[i]
  BY <1>1, <1>2, SumsAre
<1>4. \A i \in 1 .. Len(h) :
        ListedBy(h)[i] = ListedBy(h)[i - 1] + Lists(h[i])
  BY <1>1, <1>3
<1>5. Listed(h) \in Nat
  BY <1>1, <1>2, <1>3
<1> QED
  BY <1>2, <1>3, <1>4, <1>5

\* All it gave is at least what it listed, and it listed nothing when all is bare.
LEMMA ListedIsGiven ==
  ASSUME NEW h, NEW paged, Honest(h, paged)
  PROVE  /\ Listed(h) <= GivenBy(h)[Len(h)]
         /\ (\A i \in 1 .. Len(h) : Bare(h[i])) => Listed(h) = 0
<1> DEFINE n == Len(h)  g == GivenBy(h)  l == ListedBy(h)
           T == {k \in Nat : k <= n => l[k] <= g[k]}
           U == {k \in Nat : k <= n => l[k] = 0}
           x(i) == Lists(h[i])
<1>1. /\ n \in Nat /\ g \in [0 .. n -> Nat] /\ l \in [0 .. n -> Nat] /\ g[0] = 0 /\ l[0] = 0
      /\ \A i \in 1 .. n : g[i] = g[i - 1] + Fresh(h[i]) /\ l[i] = l[i - 1] + x(i)
      /\ \A i \in 1 .. n : x(i) \in Nat /\ Fresh(h[i]) \in Nat /\ x(i) <= Fresh(h[i])
      /\ Listed(h) = l[n]
  <2>1. n \in Nat /\ \A i \in 1 .. n : Sound(h[i])
    BY HonestIsSound
  <2>2. \A i \in 1 .. n : x(i) \in Nat /\ Fresh(h[i]) \in Nat /\ x(i) <= Fresh(h[i])
    BY <2>1, EvidenceIs
  <2>3. /\ g \in [0 .. n -> Nat] /\ g[0] = 0
        /\ \A i \in 1 .. n : g[i] = g[i - 1] + Fresh(h[i])
    BY GivenIs
  <2>4. /\ l \in [0 .. n -> Nat] /\ l[0] = 0 /\ Listed(h) = l[n]
        /\ \A i \in 1 .. n : l[i] = l[i - 1] + x(i)
    BY ListedIs
  <2> QED
    BY <2>1, <2>2, <2>3, <2>4
<1>2. ASSUME \A i \in 1 .. n : Bare(h[i]) PROVE \A i \in 1 .. n : x(i) = 0
  <2> SUFFICES ASSUME NEW i \in 1 .. n PROVE x(i) = 0
    OBVIOUS
  <2>1. Details(h[i]) = {} /\ h[i].rows = 0
    BY <1>2 DEF Bare
  <2>2. Cardinality(Details(h[i])) = 0
    BY <2>1, FS_EmptySet
  <2>3. h[i].repeats \in 0 .. Cardinality(Details(h[i])) + h[i].rows
    BY HonestIsSound DEF Sound
  <2>4. h[i].repeats = 0
    BY <2>1, <2>2, <2>3
  <2> QED
    BY <2>1, <2>2, <2>4 DEF Lists
<1> HIDE DEF n, g, l, x
<1>3. 0 \in T /\ 0 \in U
  BY <1>1
<1>4. ASSUME NEW k \in Nat, k + 1 <= n
      PROVE  /\ k + 1 \in 1 .. n /\ (k + 1) - 1 = k /\ k <= n /\ l[k] \in Nat /\ g[k] \in Nat
             /\ l[k + 1] = l[k] + x(k + 1) /\ g[k + 1] = g[k] + Fresh(h[k + 1])
             /\ x(k + 1) \in Nat /\ Fresh(h[k + 1]) \in Nat
             /\ x(k + 1) <= Fresh(h[k + 1])
  <2>1. k + 1 \in 1 .. n /\ (k + 1) - 1 = k /\ k <= n /\ k \in 0 .. n
    BY <1>1, <1>4
  <2> QED
    BY <1>1, <2>1
<1>5. \A k \in T : k + 1 \in T
  <2> SUFFICES ASSUME NEW k \in Nat, k <= n => l[k] <= g[k], k + 1 <= n
               PROVE  l[k + 1] <= g[k + 1]
    OBVIOUS
  <2> QED
    BY <1>4
<1>6. (\A i \in 1 .. n : x(i) = 0) => \A k \in U : k + 1 \in U
  <2> SUFFICES ASSUME \A i \in 1 .. n : x(i) = 0, NEW k \in Nat, k <= n => l[k] = 0, k + 1 <= n
               PROVE  l[k + 1] = 0
    OBVIOUS
  <2> QED
    BY <1>4
<1>7. T \in SUBSET Nat /\ U \in SUBSET Nat
  OBVIOUS
<1> HIDE DEF T, U
<1>8. n \in T /\ ((\A i \in 1 .. n : x(i) = 0) => n \in U)
  BY <1>1, <1>3, <1>5, <1>6, <1>7, NaturalSetInduction
<1>9. Listed(h) <= g[n] /\ ((\A i \in 1 .. n : x(i) = 0) => Listed(h) = 0)
  <2>1. n <= n
    BY <1>1
  <2> QED
    BY <1>1, <1>8, <2>1 DEF T, U
<1>10. (\A i \in 1 .. n : Bare(h[i])) => \A i \in 1 .. n : x(i) = 0
  BY <1>2
<1> QED
  BY <1>9, <1>10 DEF n, g

-----------------------------------------------------------------------------
(* A query, page after page. *)

Fields == {"state", "page", "attempts", "evidence", "records", "gaps", "why"}
\* The pages read before the next one.
Before(q, h) == IF q.page <= Len(h) THEN q.page - 1 ELSE Len(h)
Counting(a) == CountOnly(a) /\ Largest(a.counts) > 0

\* On its way it has what the pages before gave.
Along(q, h, paged) ==
  /\ q.page \in Nat \ {0} /\ (paged \/ q.page = 1) /\ q.why = "none"
  /\ q.records \in Nat /\ IsFiniteSet(q.gaps) /\ q.evidence = GivenBy(h)[Before(q, h)]
  /\ q.gaps = {} => \A i \in 1 .. Before(q, h) :
       ~Counting(h[i]) /\ (q.records = 0 => Bare(h[i]))
\* At its end, without a gap, it has all there was.
Finished(q, h) ==
  /\ q.why = "none" /\ q.records \in Nat /\ IsFiniteSet(q.gaps)
  /\ q.gaps = {} => /\ Listed(h) <= q.evidence
                    /\ \A i \in 1 .. Len(h) : ~Counting(h[i]) /\ (q.records = 0 => Bare(h[i]))

Going == {"claiming", "queued", "calling", "backoff"}
Kept(q, h, paged) ==
  /\ DOMAIN q = Fields /\ q.state \in Going \cup {"none", "done", "raised"}
  /\ q.state \in Going => Along(q, h, paged)
  /\ q.state = "done" => q.why = "source_error" \/ Finished(q, h)
  /\ q.state = "raised" => q.why \in {"cancelled", "budget", "error"}

\* The answer a query reads next, whatever its source holds.
ToRead(q, h) == IF q.page <= Len(h) THEN h[q.page]
               ELSE [records |-> <<>>, texts |-> 0, rows |-> 0, counts |-> {}, years |-> {},
                     links |-> FALSE, total |-> Unknown, more |-> FALSE, repeats |-> 0]

LEMMA NothingMore ==
  ASSUME NEW financial, NEW asOf
  PROVE  LET b == Normalize([records |-> <<>>, texts |-> 0, rows |-> 0, counts |-> {},
                             years |-> {}, links |-> FALSE, total |-> Unknown, more |-> FALSE, repeats |-> 0],
                            financial, asOf)
         IN b.fresh = 0 /\ b.records = 0 /\ b.reasons = {}
<1> DEFINE a == [records |-> <<>>, texts |-> 0, rows |-> 0, counts |-> {}, years |-> {},
                 links |-> FALSE, total |-> Unknown, more |-> FALSE, repeats |-> 0]
<1>1. /\ a.records = <<>> /\ a.rows = 0 /\ a.counts = {} /\ a.years = {} /\ a.links = FALSE
      /\ a.repeats = 0
  OBVIOUS
<1>2. Absent # <<>> /\ Len(<<>>) = 0
  BY DEF Absent
<1> HIDE DEF a
<1>3. ~CountOnly(a) /\ ~DirectoryOnly(a) /\ ~LinkOnly(a) /\ ~Tabled(a)
  BY <1>1 DEF CountOnly, DirectoryOnly, LinkOnly, Tabled
<1>4. EvidenceOf(a) = 0 /\ Fresh(a) = 0
  <2>1. EvidenceOf(a) = 0
    BY <1>1, <1>2, <1>3 DEF EvidenceOf
  <2> QED
    BY <1>1, <2>1 DEF Fresh
<1>5. Reasons(a, financial, asOf) = {}
  BY <1>1, <1>3 DEF Reasons
<1>6. LET b == Normalize(a, financial, asOf)
      IN b.fresh = 0 /\ b.records = 0 /\ b.reasons = {}
  BY <1>3, <1>4, <1>5 DEF Normalize
<1> QED
  BY <1>6 DEF a

\* What reading a page adds to what was read.
LEMMA PageAdds ==
  ASSUME NEW h, NEW paged, Honest(h, paged), NEW q, Along(q, h, paged), NEW financial,
         NEW b, b = Normalize(ToRead(q, h), financial, AsOf)
  PROVE  LET k == IF q.page + 1 <= Len(h) THEN q.page ELSE Len(h)
             none == q.gaps \cup b.reasons = {}
         IN /\ q.evidence + b.fresh = GivenBy(h)[k] /\ k \in 0 .. Len(h)
            /\ q.records + b.records \in Nat /\ IsFiniteSet(b.reasons)
            /\ none => \A i \in 1 .. k :
                 ~Counting(h[i]) /\ (q.records + b.records = 0 => Bare(h[i]))
<1> DEFINE k == IF q.page + 1 <= Len(h) THEN q.page ELSE Len(h)
           a == ToRead(q, h)
<1>1. /\ q.page \in Nat \ {0} /\ q.records \in Nat /\ IsFiniteSet(q.gaps)
      /\ q.evidence = GivenBy(h)[Before(q, h)]
      /\ q.gaps = {} => \A i \in 1 .. Before(q, h) :
           ~Counting(h[i]) /\ (q.records = 0 => Bare(h[i]))
  BY DEF Along
<1>2. Len(h) \in Nat /\ \A i \in 1 .. Len(h) : Sound(h[i])
  BY HonestIsSound
<1>3. /\ GivenBy(h) \in [0 .. Len(h) -> Nat]
      /\ \A i \in 1 .. Len(h) : GivenBy(h)[i] = GivenBy(h)[i - 1] + Fresh(h[i])
  BY GivenIs
<1>4. k \in 0 .. Len(h)
  BY <1>1, <1>2
<1>5. IsFiniteSet(b.reasons)
  <2>1. b.reasons \subseteq {"missing_fields", "missing_period"}
    BY DEF Normalize, Reasons
  <2>2. IsFiniteSet({"missing_fields", "missing_period"})
    <3>1. IsFiniteSet({"missing_fields"} \cup {"missing_period"})
      BY FS_Singleton, FS_Union
    <3>2. {"missing_fields"} \cup {"missing_period"} = {"missing_fields", "missing_period"}
      OBVIOUS
    <3> QED
      BY <3>1, <3>2
  <2> QED
    BY <2>1, <2>2, FS_Subset
<1>6. CASE q.page <= Len(h)
  <2>1. a = h[q.page] /\ Before(q, h) = q.page - 1 /\ k = q.page /\ q.page \in 1 .. Len(h)
    BY <1>1, <1>2, <1>6 DEF ToRead, Before
  <2>2. Sound(a) /\ Fresh(a) \in Nat /\ EvidenceOf(a) \in Nat /\ b.fresh = Fresh(a)
    BY <1>2, <2>1, EvidenceIs DEF Normalize
  <2>3. q.evidence + b.fresh = GivenBy(h)[k]
    BY <1>1, <1>3, <2>1, <2>2
  <2>4. b.records \in Nat
    BY <2>2 DEF Normalize
  <2>5. b.reasons = {} => ~Counting(a)
    BY DEF Normalize, Reasons, Counting
  <2>6. b.reasons = {} /\ b.records = 0 => Bare(a)
    BY <2>2, NoRecordIsBare
  <2>7. ASSUME q.gaps \cup b.reasons = {}, NEW i \in 1 .. k
        PROVE  ~Counting(h[i]) /\ (q.records + b.records = 0 => Bare(h[i]))
    <3>1. q.gaps = {} /\ b.reasons = {}
      BY <2>7
    <3>2. q.records + b.records = 0 => q.records = 0 /\ b.records = 0
      BY <1>1, <2>4
    <3>3. i = q.page \/ i \in 1 .. Before(q, h)
      BY <1>1, <2>1
    <3> QED
      BY <1>1, <2>1, <2>5, <2>6, <3>1, <3>2, <3>3
  <2> QED
    BY <1>1, <1>4, <1>5, <2>3, <2>4, <2>7
<1>7. CASE ~(q.page <= Len(h))
  <2>1. Before(q, h) = Len(h) /\ k = Len(h)
    BY <1>1, <1>2, <1>7 DEF Before
  <2>2. b.fresh = 0 /\ b.records = 0 /\ b.reasons = {}
    <3>1. a = [records |-> <<>>, texts |-> 0, rows |-> 0, counts |-> {}, years |-> {},
               links |-> FALSE, total |-> Unknown, more |-> FALSE, repeats |-> 0]
      BY <1>7 DEF ToRead
    <3> QED
      BY <3>1, NothingMore
  <2>3. q.evidence + b.fresh = GivenBy(h)[k]
    <3>1. GivenBy(h)[Len(h)] \in Nat
      BY <1>2, <1>3
    <3> QED
      BY <1>1, <2>1, <2>2, <3>1
  <2>4. q.records + b.records = q.records
    BY <1>1, <2>2
  <2> QED
    BY <1>1, <1>4, <1>5, <2>1, <2>2, <2>3, <2>4
<1> QED
  BY <1>6, <1>7

\* A query that stops without a gap has read its source to the end.
LEMMA StopsAtTheEnd ==
  ASSUME NEW h, NEW paged, Honest(h, paged), NEW q, Along(q, h, paged), NEW financial,
         NEW b, b = Normalize(ToRead(q, h), financial, AsOf), q.gaps \cup b.reasons = {},
         ~(paged /\ b.paged /\ ~b.last /\ Truncated(b, q.evidence + b.fresh))
  PROVE  ~(q.page + 1 <= Len(h))
<1> SUFFICES ASSUME q.page + 1 <= Len(h) PROVE FALSE
  OBVIOUS
<1> DEFINE a == h[q.page]
<1>1. q.page \in Nat \ {0} /\ Len(h) \in Nat /\ (paged \/ Len(h) = 1)
  BY HonestIsSound DEF Along
<1>2. /\ q.page \in 1 .. Len(h) /\ q.page < Len(h) /\ q.page <= Len(h) /\ ToRead(q, h) = a
      /\ (IF q.page + 1 <= Len(h) THEN q.page ELSE Len(h)) = q.page
  BY <1>1 DEF ToRead
<1>3. paged
  <2>1. \A n \in Nat, k \in Nat \ {0} : k + 1 <= n => n # 1
    OBVIOUS
  <2>2. Len(h) # 1
    BY <1>1, <2>1
  <2> QED
    BY <1>1, <2>2
<1>4. a.more \/ Total(a) > GivenBy(h)[q.page]
  BY <1>2, HonestIsSound
<1>5. /\ q.evidence + b.fresh = GivenBy(h)[q.page] /\ GivenBy(h)[q.page] \in Nat
      /\ ~Counting(a)
  <2>1. q.evidence + b.fresh = GivenBy(h)[q.page] /\ ~Counting(h[q.page])
    BY <1>1, <1>2, PageAdds
  <2>2. GivenBy(h)[q.page] \in Nat
    BY <1>1, <1>2, GivenIs
  <2> QED
    BY <2>1, <2>2
<1>6. b.more = a.more /\ b.total = Total(a)
      /\ b.paged = (a.total # Unknown \/ a.counts # {} \/ a.more)
      /\ b.last = Counting(a)
  BY <1>2 DEF Normalize, Counting
<1>7. Truncated(b, q.evidence + b.fresh)
  <2>1. Unknown = -1
    BY DEF Unknown
  <2>2. Total(a) > GivenBy(h)[q.page] => Total(a) # Unknown
    BY <1>5, <2>1
  <2> QED
    BY <1>4, <1>5, <1>6, <2>2 DEF Truncated
<1>8. b.paged
  <2>1. ~(a.total # Unknown \/ a.counts # {} \/ a.more) => Total(a) = Unknown /\ ~a.more
    BY DEF Total
  <2>2. ~(Unknown > GivenBy(h)[q.page])
    BY <1>5 DEF Unknown
  <2> QED
    BY <1>4, <1>6, <2>1, <2>2
<1> QED
  BY <1>3, <1>5, <1>6, <1>7, <1>8

\* Reading keeps what is said of a query.
LEMMA ReadKeeps ==
  ASSUME NEW h, NEW paged, Honest(h, paged), NEW q, Kept(q, h, paged), q.state \in Going,
         NEW financial
  PROVE  Kept(Read(q, Normalize(ToRead(q, h), financial, AsOf), paged), h, paged)
<1> DEFINE b == Normalize(ToRead(q, h), financial, AsOf)
           all == q.evidence + b.fresh
           more == paged /\ b.paged /\ ~b.last /\ Truncated(b, all)
           cut == more /\ q.page = MaxPages
           gaps == q.gaps \cup b.reasons \cup (IF cut THEN {"pagination_truncated"} ELSE {})
           r == Read(q, b, paged)
           k == IF q.page + 1 <= Len(h) THEN q.page ELSE Len(h)
<1> SUFFICES Kept(r, h, paged)
  OBVIOUS
<1>1. Along(q, h, paged) /\ DOMAIN q = Fields
  BY DEF Kept
<1>2. /\ all = GivenBy(h)[k] /\ k \in 0 .. Len(h)
      /\ q.records + b.records \in Nat /\ IsFiniteSet(b.reasons)
      /\ q.gaps \cup b.reasons = {} => \A i \in 1 .. k :
           ~Counting(h[i]) /\ (q.records + b.records = 0 => Bare(h[i]))
  BY <1>1, PageAdds
<1>3. ~more /\ q.gaps \cup b.reasons = {} => ~(q.page + 1 <= Len(h))
  BY <1>1, StopsAtTheEnd
<1>4. /\ q.page \in Nat \ {0} /\ (paged \/ q.page = 1) /\ q.why = "none"
      /\ q.records \in Nat /\ IsFiniteSet(q.gaps) /\ Len(h) \in Nat
  BY <1>1, HonestIsSound DEF Along
<1>5. r = [q EXCEPT !.evidence = all, !.records = @ + b.records, !.gaps = gaps,
                    !.state = IF more /\ ~cut THEN "claiming" ELSE "done",
                    !.page = IF more /\ ~cut THEN @ + 1 ELSE @]
  BY DEF Read
<1>6. more => paged
  OBVIOUS
<1>7. IsFiniteSet(gaps)
  <2>1. IsFiniteSet(q.gaps \cup b.reasons)
    BY <1>2, <1>4, FS_Union
  <2>2. IsFiniteSet(IF cut THEN {"pagination_truncated"} ELSE {})
    BY FS_Singleton, FS_EmptySet
  <2> QED
    BY <2>1, <2>2, FS_Union
<1>8. gaps = {} => q.gaps \cup b.reasons = {} /\ ~cut
  OBVIOUS
<1> HIDE DEF b, all, gaps, more, cut, r
<1>9. /\ DOMAIN r = Fields /\ r.evidence = all /\ r.records = q.records + b.records
      /\ r.gaps = gaps /\ r.why = "none"
      /\ r.state = IF more /\ ~cut THEN "claiming" ELSE "done"
      /\ r.page = IF more /\ ~cut THEN q.page + 1 ELSE q.page
  BY <1>1, <1>4, <1>5 DEF Fields
<1>10. CASE more /\ ~cut
  <2>1. r.page = q.page + 1 /\ r.state = "claiming" /\ r.page \in Nat \ {0}
    BY <1>4, <1>9, <1>10
  <2>2. Before(r, h) = k
    BY <1>4, <2>1 DEF Before
  <2>3. Along(r, h, paged)
    BY <1>2, <1>6, <1>7, <1>8, <1>9, <1>10, <2>1, <2>2 DEF Along
  <2> QED
    BY <1>9, <2>1, <2>3 DEF Kept, Going
<1>11. CASE ~(more /\ ~cut)
  <2>1. r.state = "done"
    BY <1>9, <1>11
  <2>2. ASSUME r.gaps = {}
        PROVE  /\ Listed(h) <= r.evidence
               /\ \A i \in 1 .. Len(h) : ~Counting(h[i]) /\ (r.records = 0 => Bare(h[i]))
    <3>1. q.gaps \cup b.reasons = {} /\ ~more
      BY <1>8, <1>9, <1>11, <2>2
    <3>2. k = Len(h)
      BY <1>3, <3>1
    <3>3. r.evidence = GivenBy(h)[Len(h)]
      BY <1>2, <1>9, <3>2
    <3>4. Listed(h) <= r.evidence
      BY <3>3, ListedIsGiven
    <3> QED
      BY <1>2, <1>9, <3>1, <3>2, <3>4
  <2>3. Finished(r, h)
    BY <1>2, <1>7, <1>9, <2>2 DEF Finished
  <2> QED
    BY <1>9, <2>1, <2>3 DEF Kept, Going
<1> QED
  BY <1>10, <1>11

-----------------------------------------------------------------------------
(* What is told of it. *)

IsTrue(k, c) ==
  /\ k.availability = "verified_empty" => Holds(c) = 0
  /\ k.availability = "available" /\ k.completeness = "complete" => k.evidence >= Holds(c)

\* What an honest source holds, when none of its answers is a count alone.
LEMMA HoldsWhatItLists ==
  ASSUME NEW c, NEW h, h = held[c], NEW paged, Honest(h, paged),
         \A i \in 1 .. Len(h) : ~Counting(h[i])
  PROVE  Holds(c) = Listed(h)
<1> DEFINE said == UNION {a.counts : a \in Range(h)}
           all == {Listed(h)} \cup said
<1>1. /\ Len(h) \in Nat /\ DOMAIN h = 1 .. Len(h) /\ \A i \in 1 .. Len(h) : Sound(h[i])
      /\ \/ \A i \in 1 .. Len(h) : h[i].counts \subseteq 0 .. Listed(h)
         \/ Len(h) = 1 /\ CountOnly(h[1])
  BY HonestIsSound
<1>2. Listed(h) \in Nat
  BY ListedIs
<1>3. \A i \in 1 .. Len(h) : h[i].counts \subseteq 0 .. Listed(h)
  <2>1. CASE Len(h) = 1 /\ CountOnly(h[1])
    <3>1. 1 \in 1 .. Len(h) /\ \A i \in 1 .. Len(h) : i = 1
      BY <2>1
    <3>2. Sound(h[1]) /\ ~(Largest(h[1].counts) > 0) /\ h[1].counts # {}
      BY <1>1, <2>1, <3>1 DEF Counting, CountOnly
    <3>3. /\ Largest(h[1].counts) \in h[1].counts /\ \A n \in h[1].counts : n \in Nat
          /\ \A n \in h[1].counts : n <= Largest(h[1].counts)
      BY <3>2, FiniteHasLargest DEF Sound
    <3>4. \A n \in h[1].counts : n = 0
      BY <3>2, <3>3
    <3> QED
      BY <1>2, <3>1, <3>4
  <2> QED
    BY <1>1, <2>1
<1>4. \A n \in all : n \in Nat /\ n <= Listed(h)
  <2>1. \A a \in Range(h) : a.counts \subseteq 0 .. Listed(h)
    BY <1>1, <1>3 DEF Range
  <2> QED
    BY <1>2, <2>1
<1>5. Listed(h) \in all
  OBVIOUS
<1>6. Holds(c) = Largest(all)
  BY DEF Holds
<1> HIDE DEF all
<1>7. Largest(all) \in all /\ \A n \in all : n <= Largest(all)
  BY <1>2, <1>4, <1>5 DEF Largest
<1> QED
  BY <1>2, <1>4, <1>5, <1>6, <1>7

LEMMA FinishedIsTrue ==
  ASSUME NEW c, NEW h, h = held[c], NEW paged, Honest(h, paged), NEW q, Finished(q, h)
  PROVE  IsTrue(Observation(q), c)
<1> DEFINE status == SourceState(TRUE, TRUE, q.records + Cardinality(q.gaps), FALSE)
           o == Observation(q)
<1>1. /\ q.records \in Nat /\ Cardinality(q.gaps) \in Nat
      /\ Cardinality(q.gaps) = 0 => q.gaps = {}
  BY FS_CardinalityType, FS_EmptySet DEF Finished
<1>2. /\ o.availability = IF status = "verified_records" THEN "available" ELSE "verified_empty"
      /\ o.completeness = IF q.gaps = {} THEN "complete" ELSE "partial"
      /\ o.evidence = IF status = "verified_empty" THEN 0 ELSE q.evidence
  BY DEF Observation
<1>3. /\ status = "verified_records" \/ status = "verified_empty"
      /\ status = "verified_empty" => q.records = 0 /\ q.gaps = {}
  <2>1. status = IF q.records + Cardinality(q.gaps) > 0 THEN "verified_records"
                 ELSE "verified_empty"
    BY DEF SourceState
  <2> HIDE DEF status
  <2>2. ~(q.records + Cardinality(q.gaps) > 0) => q.records = 0 /\ Cardinality(q.gaps) = 0
    BY <1>1
  <2> QED
    BY <1>1, <2>1, <2>2
<1> HIDE DEF status, o
<1>4. q.gaps = {} => Holds(c) = Listed(h) /\ Listed(h) <= q.evidence
  BY HoldsWhatItLists DEF Finished
<1>5. q.gaps = {} /\ q.records = 0 => Listed(h) = 0
  BY ListedIsGiven DEF Finished
<1>6. o.availability = "verified_empty" => Holds(c) = 0
  BY <1>2, <1>3, <1>4, <1>5
<1>7. ASSUME o.availability = "available", o.completeness = "complete"
      PROVE  o.evidence >= Holds(c)
  <2>1. q.gaps = {} /\ status = "verified_records"
    BY <1>2, <1>3, <1>7
  <2>2. o.evidence = q.evidence
    BY <1>2, <2>1
  <2> QED
    BY <1>4, <2>1, <2>2
<1>8. IsTrue(o, c)
  BY <1>6, <1>7 DEF IsTrue
<1> QED
  BY <1>8 DEF o

\* Of a set of one, its member is the only one.
LEMMA OneOnly ==
  ASSUME NEW S, IsFiniteSet(S), Cardinality(S) = 1, NEW c \in S, NEW d \in S PROVE c = d
<1>1. IsFiniteSet(S \ {c}) /\ Cardinality(S \ {c}) = 0
  BY FS_RemoveElement
<1>2. S \ {c} = {}
  BY <1>1, FS_EmptySet
<1> QED
  BY <1>2

\* Who is resolved to matches what was asked, and no active company of its region does too.
RightlyResolved(found, e) ==
  \A c \in Matches(found, e) :
    Given(c.id) /\ Exact(c, e)
    /\ \A d \in found : Given(d.id) /\ Given(d.name) /\ Exact(d, e)
         /\ d.region = c.region /\ d.active => d = c \/ ~c.active

LEMMA OneMatch ==
  ASSUME NEW found, IsFiniteSet(found), NEW e, Cardinality(Matches(found, e)) = 1
  PROVE  RightlyResolved(found, e)
<1> DEFINE exact == {c \in Candidates(found) : Exact(c, e)}
           near == Regional(exact, e)
           active == {c \in near : c.active}
<1>1. near \subseteq exact /\ exact \subseteq found
  BY DEF Regional, Candidates
<1>2. IsFiniteSet(near) /\ IsFiniteSet(active) /\ Cardinality(near) \in Nat
  <2>1. IsFiniteSet(near)
    BY <1>1, FS_Subset
  <2>2. IsFiniteSet(active)
    BY <2>1, FS_Subset
  <2> QED
    BY <2>1, <2>2, FS_CardinalityType
<1>3. Matches(found, e) = IF Cardinality(near) > 1 /\ Cardinality(active) = 1 THEN active ELSE near
  BY DEF Matches
<1>4. \A c \in near, d \in exact : d.region = c.region => d \in near
  BY DEF Regional
<1>5. \A c \in exact : Given(c.id) /\ Exact(c, e)
  BY DEF Candidates
<1>6. \A d \in found : Given(d.id) /\ Given(d.name) /\ Exact(d, e) => d \in exact
  BY DEF Candidates
<1>7. active \subseteq near /\ \A c \in near : c.active => c \in active
  OBVIOUS
<1> HIDE DEF near, active, exact, Given, Exact
<1>8. IsFiniteSet(Matches(found, e)) /\ Matches(found, e) \subseteq near
      /\ (Matches(found, e) = near \/ Matches(found, e) = active)
  BY <1>2, <1>3, <1>7
<1>9. ASSUME NEW c \in Matches(found, e), NEW d \in found, Given(d.id), Given(d.name),
             Exact(d, e), d.region = c.region, d.active, c.active
      PROVE  d = c
  <2>1. d \in near /\ d \in active
    BY <1>4, <1>6, <1>7, <1>8, <1>9
  <2>2. d \in Matches(found, e)
    BY <1>8, <2>1
  <2> QED
    BY <1>8, <2>2, OneOnly
<1> QED
  BY <1>1, <1>5, <1>8, <1>9 DEF RightlyResolved

-----------------------------------------------------------------------------
(* The steps of an acquisition. *)

QueriesInv ==
  /\ query = [c \in Capabilities |-> query[c]]
  /\ \A c \in Capabilities : Kept(query[c], held[c], c \notin Unpaged)
ChildrenInv ==
  /\ child = [s \in Submodules |-> child[s]] /\ context = [s \in Submodules |-> context[s]]
  /\ \A s \in Submodules :
       child[s] = "done" /\ CapabilityOf[s] # NoCapability => IsTrue(context[s], CapabilityOf[s])
GatewayInv ==
  /\ \A c \in Capabilities : held[c] \in Sources[c]
  /\ asked \in Searches
  /\ \/ subject = {}
     \/ subject = Matches(asked.found, asked.asked) /\ Cardinality(subject) = 1
  /\ QueriesInv /\ ChildrenInv

LEMMA SourcesAreHonest ==
  ASSUME HonestSources, GatewayInv, NEW c \in Capabilities
  PROVE  Honest(held[c], c \notin Unpaged)
  BY DEF HonestSources, GatewayInv

LEMMA QueryIs ==
  ASSUME GatewayInv, NEW c \in Capabilities
  PROVE  Kept(query[c], held[c], c \notin Unpaged)
  BY DEF GatewayInv, QueriesInv

\* A step of one query keeps the others.
LEMMA QueryChanges ==
  ASSUME QueriesInv, UNCHANGED held, NEW c \in Capabilities, NEW x,
         query' = [query EXCEPT ![c] = x], Kept(x, held[c], c \notin Unpaged)
  PROVE  QueriesInv'
<1>1. query' = [d \in Capabilities |-> IF d = c THEN x ELSE query[d]]
  BY DEF QueriesInv
<1>2. query' = [d \in Capabilities |-> query'[d]]
  BY <1>1
<1> HIDE DEF Kept
<1>3. \A d \in Capabilities : Kept(query'[d], held[d], d \notin Unpaged)
  BY <1>1 DEF QueriesInv
<1> QED
  BY <1>2, <1>3 DEF QueriesInv

LEMMA TruthStays == ASSUME UNCHANGED held PROVE \A k, c : IsTrue(k, c)' = IsTrue(k, c)
  BY DEF IsTrue, Holds

\* A submodule that is told something true, or is only set waiting, keeps the others.
LEMMA ChildChanges ==
  ASSUME ChildrenInv, UNCHANGED held, NEW s \in Submodules, NEW x, NEW k,
         child' = [child EXCEPT ![s] = x], context' = [context EXCEPT ![s] = k],
         x = "done" /\ CapabilityOf[s] # NoCapability => IsTrue(k, CapabilityOf[s])
  PROVE  ChildrenInv'
<1>1. /\ child' = [t \in Submodules |-> IF t = s THEN x ELSE child[t]]
      /\ context' = [t \in Submodules |-> IF t = s THEN k ELSE context[t]]
  BY DEF ChildrenInv
<1>2. child' = [t \in Submodules |-> child'[t]] /\ context' = [t \in Submodules |-> context'[t]]
  BY <1>1
<1> HIDE DEF IsTrue
<1>3. \A t \in Submodules : child'[t] = "done" /\ CapabilityOf[t] # NoCapability
                              => IsTrue(context'[t], CapabilityOf[t])
  BY <1>1 DEF ChildrenInv
<1>4. \A y, c : IsTrue(y, c)' = IsTrue(y, c)
  BY TruthStays
<1>5. \A t \in Submodules : child'[t] = "done" /\ CapabilityOf[t] # NoCapability
                              => IsTrue(context[t], CapabilityOf[t])'
  BY <1>3, <1>4
<1> QED
  BY <1>2, <1>5 DEF ChildrenInv

LEMMA QueriesStay == ASSUME QueriesInv, UNCHANGED <<held, query>> PROVE QueriesInv'
  BY DEF QueriesInv
LEMMA ChildrenStay == ASSUME ChildrenInv, UNCHANGED <<held, child, context>> PROVE ChildrenInv'
<1>1. \A y, c : IsTrue(y, c)' = IsTrue(y, c)
  BY TruthStays
<1> HIDE DEF IsTrue
<1>2. \A t \in Submodules : child[t] = "done" /\ CapabilityOf[t] # NoCapability
                              => IsTrue(context[t], CapabilityOf[t])'
  BY <1>1 DEF ChildrenInv
<1> QED
  BY <1>2 DEF ChildrenInv

LEMMA NothingChanges ==
  ASSUME GatewayInv, UNCHANGED <<held, asked, subject, child, context, query>> PROVE GatewayInv'
<1>1. QueriesInv' /\ ChildrenInv'
  BY QueriesStay, ChildrenStay DEF GatewayInv
<1> QED
  BY <1>1 DEF GatewayInv

LEMMA OneQueryChanges ==
  ASSUME GatewayInv, NEW c \in Capabilities, NEW x, query' = [query EXCEPT ![c] = x],
         Kept(x, held[c], c \notin Unpaged), UNCHANGED <<held, asked, subject, child, context>>
  PROVE  GatewayInv'
<1>1. QueriesInv' /\ ChildrenInv'
  BY QueryChanges, ChildrenStay DEF GatewayInv
<1> QED
  BY <1>1 DEF GatewayInv

LEMMA GatewayInitially == ASSUME GatewayInit PROVE GatewayInv
<1>1. \A c \in Capabilities : Kept(NotAsked, held[c], c \notin Unpaged)
  <2>1. DOMAIN NotAsked = Fields /\ NotAsked.state = "none"
    BY DEF NotAsked, Fields
  <2> QED
    BY <2>1 DEF Kept, Going
<1>2. /\ query = [c \in Capabilities |-> NotAsked] /\ subject = {} /\ asked \in Searches
      /\ child = [s \in Submodules |-> "idle"]
      /\ context = [s \in Submodules |-> NotKnown("none")]
      /\ \A c \in Capabilities : held[c] \in Sources[c]
  BY DEF GatewayInit
<1>3. QueriesInv
  <2>1. query = [c \in Capabilities |-> query[c]] /\ \A c \in Capabilities : query[c] = NotAsked
    BY <1>2
  <2> QED
    BY <1>1, <2>1 DEF QueriesInv
<1>4. ChildrenInv
  BY <1>2 DEF ChildrenInv
<1>5. \A c \in Capabilities : held[c] \in Sources[c]
  BY <1>2
<1> HIDE DEF QueriesInv, ChildrenInv
<1> QED
  BY <1>2, <1>3, <1>4, <1>5 DEF GatewayInv

LEMMA InitializeKeeps == ASSUME GatewayInv, Initialize PROVE GatewayInv'
<1>1. UNCHANGED <<held, asked, context, query>>
  BY DEF Initialize, frame
<1>2. CASE UNCHANGED <<subject, child>>
  BY <1>1, <1>2, NothingChanges
<1>3. CASE ~UNCHANGED <<subject, child>>
  <2>1. /\ Cardinality(Matches(asked.found, asked.asked)) = 1
        /\ subject' = Matches(asked.found, asked.asked)
        /\ child' = [s \in Submodules |-> "asking"]
    BY <1>3 DEF Initialize
  <2>2. ChildrenInv'
    BY <1>1, <2>1 DEF ChildrenInv, GatewayInv
  <2>3. QueriesInv'
    BY <1>1, QueriesStay DEF GatewayInv
  <2> QED
    BY <1>1, <2>1, <2>2, <2>3 DEF GatewayInv
<1> QED
  BY <1>2, <1>3

LEMMA AskKeeps ==
  ASSUME HonestSources, GatewayInv, NEW s \in Submodules, Ask(s) PROVE GatewayInv'
<1> DEFINE c == CapabilityOf[s]
<1>1. UNCHANGED <<held, asked, subject>> /\ QueriesInv /\ ChildrenInv
  BY DEF Ask, frame, GatewayInv
<1>2. context = [context EXCEPT ![s] = context[s]]
  BY <1>1 DEF ChildrenInv
<1>3. CASE cancelled
  <2>1. child' = [child EXCEPT ![s] = "raised"] /\ UNCHANGED <<context, query>>
    BY <1>3 DEF Ask
  <2>2. ChildrenInv' /\ QueriesInv'
    BY <1>1, <1>2, <2>1, ChildChanges, QueriesStay
  <2> QED
    BY <1>1, <2>2 DEF GatewayInv
<1>4. CASE ~cancelled /\ c = NoCapability
  <2>1. /\ child' = [child EXCEPT ![s] = "done"]
        /\ context' = [context EXCEPT ![s] = NotKnown("capability_absent")] /\ UNCHANGED query
    BY <1>4 DEF Ask, Resolve
  <2>2. ChildrenInv' /\ QueriesInv'
    BY <1>1, <1>4, <2>1, ChildChanges, QueriesStay
  <2> QED
    BY <1>1, <2>2 DEF GatewayInv
<1>5. CASE ~cancelled /\ c # NoCapability
  <2> DEFINE fresh == [NotAsked EXCEPT !.state = "claiming", !.page = 1]
  <2>1. /\ query' = IF query[c].state \in {"none", "raised"} THEN [query EXCEPT ![c] = fresh]
                    ELSE query
        /\ child' = [child EXCEPT ![s] = "waiting"] /\ UNCHANGED context
    BY <1>5 DEF Ask
  <2>2. c \in Capabilities
    BY <1>5, GatewayAssumption
  <2>3. Kept(fresh, held[c], c \notin Unpaged)
    <3>1. /\ DOMAIN fresh = Fields /\ fresh.state = "claiming" /\ fresh.page = 1
          /\ fresh.evidence = 0 /\ fresh.records = 0 /\ fresh.gaps = {} /\ fresh.why = "none"
      BY DEF NotAsked, Fields
    <3> HIDE DEF fresh
    <3>2. Honest(held[c], c \notin Unpaged)
      BY <2>2, SourcesAreHonest
    <3>3. Len(held[c]) \in Nat /\ GivenBy(held[c])[0] = 0
      BY <3>2, HonestIsSound, GivenIs
    <3>4. Before(fresh, held[c]) = 0
      BY <3>1, <3>3 DEF Before
    <3>5. Along(fresh, held[c], c \notin Unpaged)
      BY <3>1, <3>3, <3>4, FS_EmptySet DEF Along
    <3> QED
      BY <3>1, <3>5 DEF Kept, Going
  <2> HIDE DEF fresh
  <2>4. QueriesInv'
    <3>1. CASE query[c].state \in {"none", "raised"}
      BY <1>1, <2>1, <2>2, <2>3, <3>1, QueryChanges
    <3>2. CASE query[c].state \notin {"none", "raised"}
      BY <1>1, <2>1, <3>2, QueriesStay
    <3> QED
      BY <3>1, <3>2
  <2>5. ChildrenInv'
    BY <1>1, <1>2, <2>1, ChildChanges
  <2> QED
    BY <1>1, <2>4, <2>5 DEF GatewayInv
<1> QED
  BY <1>3, <1>4, <1>5

\* A step of a query that reads nothing.
LEMMA OnItsWay ==
  ASSUME NEW h, NEW paged, NEW q, Kept(q, h, paged), q.state \in Going, NEW x, DOMAIN x = Fields,
         x.page = q.page, x.evidence = q.evidence, x.records = q.records, x.gaps = q.gaps,
         \/ x.state \in Going /\ x.why = q.why
         \/ x.state = "done" /\ x.why = "source_error"
         \/ x.state = "raised" /\ x.why \in {"cancelled", "budget", "error"}
  PROVE  Kept(x, h, paged)
<1>1. Along(q, h, paged)
  BY DEF Kept
<1>2. Before(x, h) = Before(q, h)
  BY DEF Before
<1>3. x.state \in Going => Along(x, h, paged)
  <2>1. ASSUME x.state \in Going PROVE x.why = q.why
    BY <2>1 DEF Going
  <2> HIDE DEF Before
  <2> QED
    BY <1>1, <1>2, <2>1 DEF Along
<1> HIDE DEF Along, Finished
<1>4. \/ x.state \in Going
      \/ x.state = "done" /\ x.why = "source_error"
      \/ x.state = "raised" /\ x.why \in {"cancelled", "budget", "error"}
  OBVIOUS
<1>5. x.state \in Going => x.state # "done" /\ x.state # "raised"
  BY DEF Going
<1> QED
  BY <1>3, <1>4, <1>5 DEF Kept

LEMMA Failing ==
  ASSUME GatewayInv, NEW c \in Capabilities, query[c].state \in Going,
         NEW why \in {"cancelled", "budget", "error"}, Raises(c, why)
  PROVE  \E x : query' = [query EXCEPT ![c] = x] /\ Kept(x, held[c], c \notin Unpaged)
<1> DEFINE q == query[c]
           x == [q EXCEPT !.state = "raised", !.why = why]
<1>1. Kept(q, held[c], c \notin Unpaged)
  BY QueryIs
<1>2. DOMAIN q = Fields
  BY <1>1 DEF Kept
<1>3. /\ DOMAIN x = Fields /\ x.state = "raised" /\ x.why = why
      /\ x.page = q.page /\ x.evidence = q.evidence /\ x.records = q.records /\ x.gaps = q.gaps
  BY <1>2 DEF Fields
<1>4. query' = [query EXCEPT ![c] = x]
  BY DEF Raises, Becomes
<1> HIDE DEF x, q
<1>5. q.state \in Going
  BY DEF q
<1>6. Kept(x, held[c], c \notin Unpaged)
  BY <1>1, <1>3, <1>5, OnItsWay
<1> QED
  BY <1>4, <1>6

\* The query moves on to a state of its way, or ends with the source's error.
LEMMA Moving ==
  ASSUME GatewayInv, NEW c \in Capabilities, query[c].state \in Going,
         NEW x, DOMAIN x = DOMAIN query[c],
         \A f \in Fields \ {"state", "attempts", "why"} : x[f] = query[c][f],
         (x.state \in Going /\ x.why = query[c].why) \/ (x.state = "done" /\ x.why = "source_error"),
         query' = [query EXCEPT ![c] = x]
  PROVE  \E y : query' = [query EXCEPT ![c] = y] /\ Kept(y, held[c], c \notin Unpaged)
<1> DEFINE q == query[c]
<1>1. Kept(q, held[c], c \notin Unpaged) /\ q.state \in Going
  BY QueryIs
<1>2. DOMAIN x = Fields
  BY <1>1 DEF Kept
<1>3. x.page = q.page /\ x.evidence = q.evidence /\ x.records = q.records /\ x.gaps = q.gaps
  BY DEF Fields
<1>4. (x.state \in Going /\ x.why = q.why) \/ (x.state = "done" /\ x.why = "source_error")
  OBVIOUS
<1> HIDE DEF q
<1>5. Kept(x, held[c], c \notin Unpaged)
  BY <1>1, <1>2, <1>3, <1>4, OnItsWay
<1> QED
  BY <1>5

LEMMA QueryStepKeeps ==
  ASSUME HonestSources, GatewayInv, NEW c \in Capabilities, QueryStep(c) PROVE GatewayInv'
<1> DEFINE q == query[c]
           Moved == \E x : query' = [query EXCEPT ![c] = x] /\ Kept(x, held[c], c \notin Unpaged)
<1>1. UNCHANGED <<held, asked, subject, child, context>>
  BY DEF QueryStep, Claim, EnterSlot, Answer, Fault, Retry, gathering, frame
<1>2. DOMAIN q = Fields /\ Kept(q, held[c], c \notin Unpaged)
  BY QueryIs DEF Kept
<1>3. CASE Claim(c)
  <2>1. q.state \in Going
    BY <1>3 DEF Claim, Going
  <2>2. ASSUME Raises(c, "cancelled") \/ Raises(c, "budget") PROVE Moved
    BY <2>1, <2>2, Failing
  <2>3. ASSUME Becomes(c, [q EXCEPT !.state = "queued"]) PROVE Moved
    <3> DEFINE x == [q EXCEPT !.state = "queued"]
    <3>1. /\ DOMAIN x = DOMAIN q /\ x.state \in Going /\ x.why = q.why
          /\ \A f \in Fields \ {"state", "attempts", "why"} : x[f] = q[f]
      BY <1>2 DEF Fields, Going
    <3>2. query' = [query EXCEPT ![c] = x]
      BY <2>3 DEF Becomes
    <3> HIDE DEF x
    <3> QED
      BY <2>1, <3>1, <3>2, Moving
  <2>4. Moved
    BY <1>3, <2>2, <2>3 DEF Claim
  <2> QED
    BY <1>1, <2>4, OneQueryChanges
<1>4. CASE EnterSlot(c)
  <2>1. q.state \in Going
    BY <1>4 DEF EnterSlot, Going
  <2>2. ASSUME Raises(c, "cancelled") PROVE Moved
    BY <2>1, <2>2, Failing
  <2>3. ASSUME Becomes(c, [q EXCEPT !.state = "calling", !.attempts = 1]) PROVE Moved
    <3> DEFINE x == [q EXCEPT !.state = "calling", !.attempts = 1]
    <3>1. /\ DOMAIN x = DOMAIN q /\ x.state \in Going /\ x.why = q.why
          /\ \A f \in Fields \ {"state", "attempts", "why"} : x[f] = q[f]
      BY <1>2 DEF Fields, Going
    <3>2. query' = [query EXCEPT ![c] = x]
      BY <2>3 DEF Becomes
    <3> HIDE DEF x
    <3> QED
      BY <2>1, <3>1, <3>2, Moving
  <2>4. Moved
    BY <1>4, <2>2, <2>3 DEF EnterSlot
  <2> QED
    BY <1>1, <2>4, OneQueryChanges
<1>5. CASE Answer(c)
  <2>1. q.state \in Going
    BY <1>5 DEF Answer, Going
  <2>2. ASSUME Raises(c, "cancelled") \/ Raises(c, "error") PROVE Moved
    BY <2>1, <2>2, Failing
  <2> DEFINE r == Read(q, Normalize(PageOf(c), c \in Financial, AsOf), c \notin Unpaged)
  <2>3. ASSUME Becomes(c, r) PROVE Moved
    <3>1. PageOf(c) = ToRead(q, held[c])
      BY DEF PageOf, ToRead
    <3>2. Honest(held[c], c \notin Unpaged)
      BY SourcesAreHonest
    <3>3. Kept(r, held[c], c \notin Unpaged)
      <4>1. Kept(Read(q, Normalize(ToRead(q, held[c]), c \in Financial, AsOf), c \notin Unpaged),
                 held[c], c \notin Unpaged)
        BY <1>2, <2>1, <3>2, ReadKeeps
      <4> QED
        BY <3>1, <4>1
    <3>4. query' = [query EXCEPT ![c] = r]
      BY <2>3 DEF Becomes
    <3> QED
      BY <3>3, <3>4
  <2>4. Moved
    BY <1>5, <2>2, <2>3 DEF Answer
  <2> QED
    BY <1>1, <2>4, OneQueryChanges
<1>6. CASE Fault(c)
  <2>1. q.state \in Going
    BY <1>6 DEF Fault, Going
  <2>2. ASSUME Becomes(c, [q EXCEPT !.state = "backoff"]) PROVE Moved
    <3> DEFINE x == [q EXCEPT !.state = "backoff"]
    <3>1. /\ DOMAIN x = DOMAIN q /\ x.state \in Going /\ x.why = q.why
          /\ \A f \in Fields \ {"state", "attempts", "why"} : x[f] = q[f]
      BY <1>2 DEF Fields, Going
    <3>2. query' = [query EXCEPT ![c] = x]
      BY <2>2 DEF Becomes
    <3> HIDE DEF x
    <3> QED
      BY <2>1, <3>1, <3>2, Moving
  <2>3. ASSUME Becomes(c, [q EXCEPT !.state = "done", !.why = "source_error"]) PROVE Moved
    <3> DEFINE x == [q EXCEPT !.state = "done", !.why = "source_error"]
    <3>1. /\ DOMAIN x = DOMAIN q /\ x.state = "done" /\ x.why = "source_error"
          /\ \A f \in Fields \ {"state", "attempts", "why"} : x[f] = q[f]
      BY <1>2 DEF Fields
    <3>2. query' = [query EXCEPT ![c] = x]
      BY <2>3 DEF Becomes
    <3> HIDE DEF x
    <3> QED
      BY <2>1, <3>1, <3>2, Moving
  <2>4. Moved
    BY <1>6, <2>2, <2>3 DEF Fault
  <2> QED
    BY <1>1, <2>4, OneQueryChanges
<1>7. CASE Retry(c)
  <2>1. q.state \in Going
    BY <1>7 DEF Retry, Going
  <2> DEFINE x == [q EXCEPT !.state = "calling", !.attempts = @ + 1]
  <2>2. /\ DOMAIN x = DOMAIN q /\ x.state \in Going /\ x.why = q.why
        /\ \A f \in Fields \ {"state", "attempts", "why"} : x[f] = q[f]
    BY <1>2 DEF Fields, Going
  <2>3. query' = [query EXCEPT ![c] = x]
    BY <1>7 DEF Retry, Becomes
  <2> HIDE DEF x
  <2>4. Moved
    BY <2>1, <2>2, <2>3, Moving
  <2> QED
    BY <1>1, <2>4, OneQueryChanges
<1> QED
  BY <1>3, <1>4, <1>5, <1>6, <1>7 DEF QueryStep

LEMMA WakeKeeps ==
  ASSUME HonestSources, GatewayInv, NEW s \in Submodules, Wake(s) PROVE GatewayInv'
<1> DEFINE c == CapabilityOf[s]
           q == query[c]
<1>1. UNCHANGED <<held, asked, subject, query>> /\ ChildrenInv /\ QueriesInv
  BY DEF Wake, frame, GatewayInv
<1>2. QueriesInv'
  BY <1>1, QueriesStay
<1>3. CASE child' = [child EXCEPT ![s] = "raised"] /\ UNCHANGED context
  <2>1. context' = [context EXCEPT ![s] = context[s]]
    BY <1>1, <1>3 DEF ChildrenInv
  <2>2. ChildrenInv'
    BY <1>1, <1>3, <2>1, ChildChanges
  <2> QED
    BY <1>1, <1>2, <2>2 DEF GatewayInv
<1>4. CASE q.why \notin {"cancelled", "error"} /\ Resolve(s, Told(q))
  <2>1. ASSUME c # NoCapability PROVE IsTrue(Told(q), c)
    <3>1. c \in Capabilities
      BY <2>1, GatewayAssumption
    <3>2. /\ q.state \in {"done", "raised"}
          /\ q.state = "done" => q.why = "source_error" \/ Finished(q, held[c])
          /\ q.state = "raised" => q.why \in {"cancelled", "budget", "error"}
      BY <3>1, QueryIs DEF Kept, Wake
    <3>3. CASE q.why = "source_error"
      <4>1. Told(q).availability = "source_error"
        BY <3>3 DEF Told
      <4> QED
        BY <4>1 DEF IsTrue
    <3>4. CASE q.why = "budget"
      <4>1. Told(q).availability = "not_requested"
        BY <3>4 DEF Told, NotKnown
      <4> QED
        BY <4>1 DEF IsTrue
    <3>5. CASE q.why # "source_error" /\ q.why # "budget"
      <4>1. Finished(q, held[c])
        BY <1>4, <3>2, <3>5
      <4>2. Told(q) = Observation(q)
        BY <3>5 DEF Told
      <4>3. Honest(held[c], c \notin Unpaged)
        BY <3>1, SourcesAreHonest
      <4>4. IsTrue(Observation(q), c)
        BY <4>1, <4>3, FinishedIsTrue
      <4> QED
        BY <4>2, <4>4
    <3> QED
      BY <3>3, <3>4, <3>5
  <2>2. /\ child' = [child EXCEPT ![s] = "done"]
        /\ context' = [context EXCEPT ![s] = Told(q)]
    BY <1>4 DEF Resolve
  <2>3. ChildrenInv'
    BY <1>1, <2>1, <2>2, ChildChanges
  <2> QED
    BY <1>1, <1>2, <2>3 DEF GatewayInv
<1> QED
  BY <1>3, <1>4 DEF Wake

\* ContextIsTrue holds of every acquisition whose sources are honest.
THEOREM ContextStaysTrue == ASSUME HonestSources PROVE GatewaySpec => []ContextIsTrue
<1>1. GatewayInit => GatewayInv
  BY GatewayInitially
<1>2. GatewayInv /\ [GatewayNext]_gatewayVars => GatewayInv'
  <2> SUFFICES ASSUME GatewayInv, [GatewayNext]_gatewayVars PROVE GatewayInv'
    OBVIOUS
  <2>1. CASE Collect \/ Gathered \/ Submit \/ GiveUp \/ CancelRun \/ Close
    <3>1. UNCHANGED <<held, asked, subject, child, context, query>>
      BY <2>1 DEF Collect, Gathered, Submit, GiveUp, CancelRun, Close, frame
    <3> QED
      BY <3>1, NothingChanges
  <2>2. CASE Initialize
    BY <2>2, InitializeKeeps
  <2>3. CASE \E s \in Submodules : Ask(s) \/ Wake(s)
    BY <2>3, AskKeeps, WakeKeeps
  <2>4. CASE \E c \in Capabilities : QueryStep(c)
    BY <2>4, QueryStepKeeps
  <2>5. CASE UNCHANGED gatewayVars
    <3>1. UNCHANGED <<held, asked, subject, child, context, query>>
      BY <2>5 DEF gatewayVars
    <3> QED
      BY <3>1, NothingChanges
  <2> QED
    BY <2>1, <2>2, <2>3, <2>4, <2>5 DEF GatewayNext
<1>3. GatewayInv => ContextIsTrue
  <2> SUFFICES ASSUME GatewayInv, NEW s \in Submodules, child[s] = "done",
                      CapabilityOf[s] # NoCapability
               PROVE  /\ IsTrue(context[s], CapabilityOf[s])
                      /\ \A c \in subject : Given(c.id) /\ Exact(c, asked.asked)
                           /\ \A d \in asked.found : Given(d.id) /\ Given(d.name)
                                /\ Exact(d, asked.asked)
                                /\ d.region = c.region /\ d.active => d = c \/ ~c.active
    BY DEF ContextIsTrue, IsTrue
  <2>1. IsTrue(context[s], CapabilityOf[s])
    BY DEF GatewayInv, ChildrenInv
  <2>2. IsFiniteSet(asked.found)
    BY GatewayAssumption DEF GatewayInv
  <2>3. subject # {} => subject = Matches(asked.found, asked.asked)
                        /\ RightlyResolved(asked.found, asked.asked)
    BY <2>2, OneMatch DEF GatewayInv
  <2> QED
    BY <2>1, <2>3 DEF RightlyResolved
<1> QED
  BY <1>1, <1>2, <1>3, PTL DEF GatewaySpec
=============================================================================
