--------------------------- MODULE DomainArtifacts ---------------------------
(***************************************************************************)
(* What the toolsets of the older strategies bring home of a domain:        *)
(* scenario_toolset.py from the files of a scenario, tianyancha_toolset.py  *)
(* from the live source with the scenario, the web and the annual reports   *)
(* beside it, agents/deepsearch_agent.py from a corpus alone.  An artifact  *)
(* is [evidence, findings, coverage, failed]: evidence a sequence in the    *)
(* order the code lists it, failed that it carries an error record.         *)
(***************************************************************************)
EXTENDS SupplementResearch

CONSTANTS
  Routes,          \* domain -> sequence of [submodule, prefer]: its planned routes
  NoTool,
  TopK             \* DeepSearchQuery.top_k

DomainOrder == <<"governance", "judicial", "operations", "peers">>
Domains == {DomainOrder[i] : i \in DOMAIN DomainOrder}

\* A world is what a run will find: [live, scene, tools, web, reports, research,
\* annual, corpus].  live tells the hybrid toolset from the scenario's; tools is
\* available tool -> [failed, ref, field, records, counted, truncated], ref the
\* place of its name in the order of raw references.
NotRepaired == <<>>
Ident(of, n) == [of |-> of, n |-> n, repair |-> NotRepaired]
Item(id, field, claim, value, from) ==
  [id |-> id, field |-> field, claim |-> claim, value |-> value, from |-> from, ref |-> 0,
   negative |-> FALSE, future |-> FALSE, chained |-> from \in {"web", "corpus"}]

-----------------------------------------------------------------------------
\* The scenario: [records, employees, documented, negative, future, override,
\* degraded].  Each piece of evidence has one finding, and is named as it is.
Governance(scene) == {"registration", "profile"}

Judicial(scene) == scene.records \cap {"dishonest", "restrictions", "executions"}

Operations(scene) ==
  {"employees"} \cup (scene.records \cap {"abnormal", "penalties"})
  \cup (IF {"abnormal", "decline"} \subseteq scene.records THEN {"decline"} ELSE {})
  \cup (IF scene.documented \ {scene.employees} # {} THEN {"documented"} ELSE {})

Peers(scene) == {"metrics"}

KindsOf(scene, d) ==
  CASE d = "governance" -> Governance(scene) [] d = "judicial" -> Judicial(scene)
    [] d = "operations" -> Operations(scene) [] d = "peers" -> Peers(scene)

\* The registration belongs to no domain that is investigated; what the notes
\* say of the staff is about the same field as what the annual report says.
Mocked(scene, d, kind) ==
  LET field == <<IF kind = "registration" THEN "company" ELSE d,
                 IF kind = "documented" THEN "employees" ELSE kind>>
      value == CASE kind = "employees" -> scene.employees
                 [] kind = "documented" -> CHOOSE n \in scene.documented : TRUE
                 [] OTHER -> 0
  IN [Item(Ident(kind, 0), field, kind, value, "mock")
        EXCEPT !.negative = kind \in scene.negative, !.future = scene.future]

MockFinding(d, kind) ==
  [id |-> <<d, kind>>, domain |-> IF kind = "registration" THEN "identity" ELSE d, claim |-> kind,
   cites |-> {Ident(k, 0) : k \in {kind} \cup (IF kind = "documented" THEN {"employees"} ELSE {})}]

Covered(what, status, count, complete) ==
  [what |-> what, status |-> status, count |-> count, complete |-> complete]
Unavailable(d, status) ==
  [evidence |-> <<>>, findings |-> {}, failed |-> status = "source_error",
   coverage |-> {Covered(d, status, 0, "complete")}]

\* The count of a domain without records is 1: the last line of investigate
\* replaces the coverage its own method made.
ScenarioArtifact(scene, d) ==
  LET override == scene.override[d]
      status == IF override = "source_error" THEN "degraded_mock"
                ELSE IF override = "none" THEN "verified_records" ELSE override
      kinds == KindsOf(scene, d)
      n == Cardinality(kinds)
      count == IF status = "capability_absent" THEN 0 ELSE IF n = 0 THEN 1 ELSE n
  IN IF override = "verified_empty" \/ (override = "source_error" /\ ~scene.degraded)
     THEN Unavailable(d, override)
     ELSE [evidence |-> SetToSeq({Mocked(scene, d, k) : k \in kinds}),
           findings |-> {MockFinding(d, k) : k \in kinds}, failed |-> FALSE,
           coverage |-> {Covered(d, status, count, "complete")}]

-----------------------------------------------------------------------------
ToolOf(w, r) ==
  LET available == {i \in DOMAIN r.prefer : r.prefer[i] \in DOMAIN w.tools}
  IN IF available = {} THEN NoTool ELSE r.prefer[Min(available)]

\* Each tool once, in the order of the routes.
ToolsOf(w, d) ==
  LET firsts == {i \in DOMAIN Routes[d] :
                   /\ ToolOf(w, Routes[d][i]) # NoTool
                   /\ \A j \in 1 .. i - 1 : ToolOf(w, Routes[d][j]) # ToolOf(w, Routes[d][i])}
      order == SetToSortSeq(firsts, <)
  IN [k \in DOMAIN order |-> ToolOf(w, Routes[d][order[k]])]

\* What a tool's answer is made into; a record returned twice is the same evidence.
LiveEvidence(w, d, t) ==
  LET a == w.tools[t]
  IN IF a.failed THEN <<>>
     ELSE [i \in DOMAIN a.records |->
             [Item(Ident(t, a.records[i].value), <<d, a.field>>, d, a.records[i].value, "tianyancha")
                EXCEPT !.ref = a.ref, !.negative = a.records[i].negative]]

LiveFinding(w, d, t) ==
  [id |-> <<d, t>>, domain |-> d, claim |-> t,
   cites |-> {e.id : e \in ToSet(LiveEvidence(w, d, t))}]

SubmoduleResult(w, r) ==
  LET t == ToolOf(w, r)
  IN IF t = NoTool THEN Covered(r.submodule, "capability_absent", 0, "unknown")
     ELSE IF w.tools[t].failed
     THEN Covered(r.submodule, IF w.scene.degraded THEN "degraded_mock" ELSE "source_error", 0,
                  "unknown")
     ELSE LET n == IF w.tools[t].counted THEN Len(w.tools[t].records) ELSE 0
          IN Covered(r.submodule, IF n > 0 THEN "verified_records" ELSE "verified_empty", n,
                     IF w.tools[t].truncated THEN "partial" ELSE "complete")

\* The web is asked about every submodule whose records were cut off; what it
\* finds is about the fields of the records themselves.
GapEvidence(w, d, r) ==
  LET result == SubmoduleResult(w, r)
      pages == IF w.research /\ result.status = "verified_records" /\ result.complete = "partial"
               THEN SetToSortSeq(Research(w.web), <) ELSE <<>>
  IN [i \in DOMAIN pages |-> Item(Ident(r.submodule, pages[i]),
                                  <<d, w.tools[ToolOf(w, r)].field>>, r.submodule, pages[i], "web")]

AnnualResult(w, d) ==
  IF w.annual /\ d = "operations" THEN {FetchLatest(w.reports)} ELSE {}
AnnualEvidence(w, d) ==
  LET found == UNION {a.evidence : a \in AnnualResult(w, d)}
  IN SetToSeq({Item(Ident("annual", e.page), <<d, "social_security">>, "annual", e.page, "web") :
                 e \in found})

SupplementCoverage(w, d) ==
  {Covered(r.submodule, "verified_records", Len(GapEvidence(w, d, r)), "complete") :
     r \in {x \in ToSet(Routes[d]) : GapEvidence(w, d, x) # <<>>}}
  \cup {Covered("annual", a.status, Cardinality(a.evidence),
                IF a.status = "source_error" THEN "unknown" ELSE "complete") :
          a \in AnnualResult(w, d)}

\* One submodule the source cannot answer brings in all the scenario has of the domain.
HybridArtifact(w, d) ==
  LET results == {SubmoduleResult(w, r) : r \in ToSet(Routes[d])}
      mock == \E c \in results : c.status \in {"capability_absent", "degraded_mock"}
      scenario == ScenarioArtifact(w.scene, d)
      tools == ToolsOf(w, d)
      live == FlattenSeq([i \in DOMAIN tools |-> LiveEvidence(w, d, tools[i])])
      web == FlattenSeq([i \in DOMAIN Routes[d] |-> GapEvidence(w, d, Routes[d][i])])
      answered == {t \in ToSet(tools) : LiveEvidence(w, d, t) # <<>>}
  IN [evidence |-> live \o (IF mock THEN scenario.evidence ELSE <<>>) \o web \o AnnualEvidence(w, d),
      findings |-> {LiveFinding(w, d, t) : t \in answered}
                   \cup (IF mock THEN scenario.findings ELSE {}),
      coverage |-> results \cup SupplementCoverage(w, d),
      failed |-> \/ ~w.scene.degraded /\ \E t \in ToSet(tools) : w.tools[t].failed
                 \/ \E a \in AnnualResult(w, d) : a.status = "source_error"]

-----------------------------------------------------------------------------
\* MockFallbackService.retrieve for a source that cannot answer: the best chunks
\* of the corpus.  corpus: chunk -> relevance.
Chunks(corpus) ==
  LET hits == {c \in DOMAIN corpus : corpus[c] > 0}
      order == SetToSortSeq(hits, LAMBDA c, e : corpus[c] > corpus[e]
                                               \/ (corpus[c] = corpus[e] /\ c < e))
  IN SubSeq(order, 1, IF Len(order) < TopK THEN Len(order) ELSE TopK)

CorpusArtifact(w, d) ==
  LET chunks == Chunks(w.corpus)
  IN [evidence |-> [i \in DOMAIN chunks |-> Item(Ident(d, chunks[i]), <<d, "mock_fallback">>, d,
                                                 chunks[i], "corpus")],
      findings |-> {}, failed |-> FALSE,
      coverage |-> {Covered(d, "capability_absent", 0, "complete")}]

\* The plan gives a domain to its specialist, or to the supplement agent when
\* the company has no tool of it.
AssignedTo(w, d) ==
  IF w.live /\ ToolsOf(w, d) = <<>> THEN "deepsearch-agent"
  ELSE CASE d = "governance" -> "governance-agent" [] d = "judicial" -> "judicial-compliance-agent"
         [] OTHER -> "operations-peer-agent"

Investigated(w, d) ==
  IF ~w.live THEN ScenarioArtifact(w.scene, d)
  ELSE IF AssignedTo(w, d) = "deepsearch-agent" THEN CorpusArtifact(w, d) ELSE HybridArtifact(w, d)

\* The single baseline asks the toolset itself, whatever the plan would say.
ToolsetArtifact(w, d) == IF w.live THEN HybridArtifact(w, d) ELSE ScenarioArtifact(w.scene, d)
=============================================================================
