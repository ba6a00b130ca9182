-------------------------- MODULE SupplementResearch --------------------------
(***************************************************************************)
(* What may be looked up beyond the sources, and what is taken from it:     *)
(* deepsearch/policy.py plans the tasks, deepsearch/supplement.py searches  *)
(* the web for one gap, deepsearch/tianyancha_annual_report.py walks back   *)
(* through the annual reports.                                              *)
(* Pages, years and answers are what they are found to be; the web itself   *)
(* is a parameter of the operators, since every call may find another.      *)
(***************************************************************************)
EXTENDS Integers, Sequences, FiniteSets, SequencesExt

CONSTANTS
  PlanOrder,        \* ACQUISITION_CATALOG.default_plan_ids, a sequence
  AnnualReports,    \* "annual_reports" of them
  AllowedGaps,      \* allowed_gap_submodules
  Queries,          \* initial_queries of the subject, by what they name
  SearchResults,    \* search_results_per_query
  Fetches,          \* fetches_per_round
  Lookback,         \* max_lookback_years
  ReportYear        \* report_as_of, in years

ASSUME ResearchAssumption ==
  /\ {SearchResults, Fetches, Lookback} \subseteq Nat \ {0}
  /\ ReportYear \in Nat /\ Cardinality(Queries) \in 1 .. 2

Undated == 0
Current(published) == published = Undated \/ published <= ReportYear

-----------------------------------------------------------------------------
\* A task is [target, gap]; the baseline task has no gap.  No caller of plan
\* passes conflicts or required facts, so a gap is the source's own.
Baseline == "baseline_enrichment"

GapType(k) ==
  CASE k.availability = "capability_absent" -> "capability_absent"
    [] k.availability = "source_error" -> "source_error"
    [] k.availability = "available" /\ k.gaps # {} -> "partial_coverage"
    [] OTHER -> "none"

\* SupplementPolicy.plan: the baseline task and the first gaps in plan order.
Planned(contexts, annual, maxGaps) ==
  LET Open(i) == /\ PlanOrder[i] \in DOMAIN contexts \cap AllowedGaps
                 /\ GapType(contexts[PlanOrder[i]]) # "none"
      first == {i \in DOMAIN PlanOrder :
                  Open(i) /\ Cardinality({j \in 1 .. i : Open(j)}) <= maxGaps}
  IN {[target |-> PlanOrder[i], gap |-> GapType(contexts[PlanOrder[i]])] : i \in first}
     \cup (IF annual /\ AnnualReports \in DOMAIN contexts
           THEN {[target |-> AnnualReports, gap |-> Baseline]} ELSE {})

-----------------------------------------------------------------------------
\* web.search: query -> [failed, found], found a sequence of [page, rank]; two
\* addresses of one canonical form are one page, a number.
\* web.document: page -> what fetching it gives, [got, page, published, ours]:
\* got is FALSE for a failure or no document, page is the canonical address it
\* came from, ours that its body names the subject.
Hits(web, queries) ==
  UNION {LET a == web.search[q]
         IN IF a.failed THEN {}
            ELSE {a.found[i] : i \in {j \in DOMAIN a.found : j <= SearchResults}} : q \in queries}

\* Each page once, with its best rank, the best ranks first.
Ranked(hits) ==
  LET pages == {h.page : h \in hits}
      rank(p) == LET rs == {h.rank : h \in {g \in hits : g.page = p}}
                 IN CHOOSE r \in rs : \A o \in rs : r <= o
  IN SetToSortSeq(pages, LAMBDA p, q : rank(p) < rank(q) \/ (rank(p) = rank(q) /\ p < q))

Admissible(d, p) == d.got /\ d.page = p /\ Current(d.published) /\ d.ours

RoundOf(web, queries, seen) ==
  LET fresh == SelectSeq(Ranked(Hits(web, queries)), LAMBDA p : p \notin seen)
      fetched == {fresh[i] : i \in {j \in DOMAIN fresh : j <= Fetches}}
  IN [seen |-> seen \cup fetched,
      pages |-> {p \in fetched : Admissible(web.document[p], p)}]

\* research: a second round with a rewritten query only when the first, whatever
\* failed in it, gave nothing; its pages are not fetched again.
Research(web) ==
  LET first == RoundOf(web, Queries, {})
  IN IF first.pages # {} THEN first.pages ELSE RoundOf(web, {"rewritten"}, first.seen).pages

WebEvidence(task, web) ==
  {[layer |-> "web", task |-> task, page |-> p, published |-> web.document[p].published,
    ours |-> web.document[p].ours] : p \in Research(web)}

GapOutcome(task, web) ==
  LET found == WebEvidence(task, web)
  IN [status |-> IF found # {} THEN "verified_records" ELSE "verified_empty",
      evidence |-> found, unresolved |-> found = {}]

-----------------------------------------------------------------------------
\* An annual report's page: [answer, labelled, ours, year, published, values];
\* answer is "page", "absent" (gone, or it says so) or "fault" (no answer, another
\* host, a redirect or an error).
ReadPage(p, year) ==
  CASE p.answer = "fault" -> "source_error"
    [] p.answer = "absent" -> "skipped"
    [] OTHER -> IF ~(p.labelled /\ p.ours) THEN "source_error"
                ELSE IF p.year # year \/ ~Current(p.published) THEN "skipped"
                ELSE IF p.values = 0 THEN "verified_empty" ELSE "verified_records"

\* fetch_latest: from the year before the report's back, the first page that
\* decides, none for empty.
FetchLatest(pages) ==
  LET years == {y \in DOMAIN pages : y < ReportYear /\ y >= ReportYear - Lookback}
      deciding == {y \in years : ReadPage(pages[y], y) # "skipped"}
      latest == CHOOSE y \in deciding : \A z \in deciding : z <= y
      status == IF deciding = {} THEN "verified_empty" ELSE ReadPage(pages[latest], latest)
      found == IF status # "verified_records" THEN {}
               ELSE {[layer |-> "web", task |-> [target |-> AnnualReports, gap |-> Baseline],
                      page |-> latest, published |-> pages[latest].published,
                      ours |-> pages[latest].ours]}
  IN [status |-> status, evidence |-> found, unresolved |-> status # "verified_records"]
=============================================================================
