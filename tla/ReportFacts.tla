----------------------------- MODULE ReportFacts -----------------------------
(***************************************************************************)
(* The facts of a report, projected from the frozen sources                 *)
(* (reporting/product_fact_projector.py) and calculated from them           *)
(* (reporting/product_metrics.py).  A text is a name, a figure a number, and *)
(* what was not disclosed is NotGiven; labels, units and aliases of fields  *)
(* are read as the field they stand for.                                    *)
(***************************************************************************)
EXTENDS RiskScoring, Sequences, SequencesExt

CONSTANTS
  FieldsOf,        \* capability -> the report fields <<module, field>> it is to fill
  Verifying,       \* area -> [capabilities, domains] of external verification
  Subject          \* name of the company

NotGiven == -10000            \* bound: no figure has this value
NotFinite == -20000           \* bound: a figure that is infinite or no number
Blank == {"", "-"}            \* names that are none

-----------------------------------------------------------------------------
\* _coverage_field_state: fields verified to be empty, and those a source left
\* open, with why; the last item that speaks of a field is heard.
GapReason(item) ==
  IF item.error = "not_requested" THEN "not_requested"
  ELSE IF Lost(item) THEN item.status
  ELSE IF item.completeness # "partial" THEN "none"
  ELSE IF "pagination_truncated" \in item.reasons THEN "pagination_truncated"
  ELSE IF "missing_period" \in item.reasons THEN "missing_period"
  ELSE IF "source_unavailable" \in item.reasons THEN "source_error" ELSE "not_disclosed"

VerifiedEmpty(item) == item.status = "verified_empty" /\ item.completeness = "complete"
EmptyFields(coverage) ==
  UNION {FieldsOf[i.capability] : i \in {j \in Range(coverage) : VerifiedEmpty(j)}}
SourceGaps(coverage) ==
  LET Speaks(k, f) == /\ ~VerifiedEmpty(coverage[k]) /\ GapReason(coverage[k]) # "none"
                      /\ f \in FieldsOf[coverage[k].capability]
      heard(k) == {f \in FieldsOf[coverage[k].capability] :
                     Speaks(k, f) /\ \A l \in DOMAIN coverage : Speaks(l, f) => l <= k}
  IN UNION {{[field |-> f, reason |-> GapReason(coverage[k])] : f \in heard(k)} :
              k \in DOMAIN coverage}

\* _verification: the accepted risks of the domains first; else whether a source
\* of the area answered.
Verification(area, coverage, findings) ==
  LET v == Verifying[area]
      risks == {f \in findings : f.status = "accepted" /\ f.class # "non_risk"
                                   /\ f.domain \in v.domains}
  IN CASE risks # {} -> "attention"
       [] risks = {} /\ (\E i \in Range(coverage) : i.capability \in v.capabilities
            /\ i.status \in {"verified_empty", "verified_records"}) -> "passed"
       [] OTHER -> "inconclusive"

-----------------------------------------------------------------------------
\* A source is [refs, table, rows, suppliers, total, ranked, confirmed, statements,
\* stated]: the evidence of a submodule, the values it discloses per field, its rows
\* [name, amount, ratio, period] and those of suppliers, the total and the length of
\* their ranking and whether their ratios are of that total, its statements, and every
\* other figure [kind, value] the report takes from it as it is.

\* Amount, Percentage and Number: what the report's contract lets a figure be.
InBounds(kind, n) ==
  n = NotGiven \/ /\ n # NotFinite
                  /\ kind \in {"amount", "percentage"} => 0 <= n
                  /\ kind = "percentage" => n <= 100
FiguresOf(source) ==
  LET rows == Range(source.rows) \cup Range(source.suppliers)
  IN source.stated \cup {[kind |-> "amount", value |-> r.amount] : r \in rows}
     \cup {[kind |-> "percentage", value |-> r.ratio] : r \in rows}
     \cup UNION {{[kind |-> "number", value |-> s.figures[f]] : f \in DOMAIN s.figures} :
                   s \in Range(source.statements)}

\* _registration_source: of two values neither is a fact.
Disclosed(table, field) ==
  IF field \in DOMAIN table /\ Cardinality(table[field]) = 1 THEN table[field] \ Blank ELSE {}

\* _ownership_rows: metadata and path rows name nobody.
Entities(rows) == SelectSeq(rows, LAMBDA r : r.name \notin Blank)

\* _relationship_graph: the company and everybody named, each once.
Graph(relations) ==
  IF relations = {} THEN [nodes |-> {}, edges |-> {}]
  ELSE [nodes |-> {Subject} \cup {r.name : r \in relations},
        edges |-> {<<r.name, Subject, r.kind>> : r \in {q \in relations : q.inward}}
                  \cup {<<Subject, r.name, r.kind>> : r \in {q \in relations : ~q.inward}}]

\* _financial_periods: one period per name, each later statement over the earlier.
Merged(statements) ==
  LET Names == {s.period : s \in Range(statements)}
      Figure(p, f) == FoldLeft(LAMBDA v, s : IF s.period = p /\ s.figures[f] # NotGiven
                                             THEN s.figures[f] ELSE v, NotGiven, statements)
      Scope(p) == FoldLeft(LAMBDA v, s : IF s.period = p /\ s.scope # "" THEN s.scope ELSE v,
                           "disclosed", statements)
  IN {[period |-> p, scope |-> Scope(p),
       figures |-> [f \in {"assets", "liabilities", "equity", "revenue"} |-> Figure(p, f)]] :
        p \in Names}

-----------------------------------------------------------------------------
\* A period is [kind, year, part]: only the same part of the year before, of the
\* same kind and scope, can be compared with.
Comparable(now, before) ==
  /\ now.scope # "" /\ now.scope = before.scope
  /\ now.period.kind = before.period.kind /\ now.period.part = before.period.part
  /\ now.period.year = before.period.year + 1

Magnitude(n) == IF n < 0 THEN -n ELSE n
Growth(now, before) ==
  IF NotGiven \in {now, before} \/ before = 0 THEN NotGiven
  ELSE ((now - before) * 100) \div Magnitude(before)
\* Rounded up, so that a part above its whole is above 100.
Percent(part, whole) ==
  IF NotGiven \in {part, whole} \/ whole = 0 THEN NotGiven ELSE -((-100 * part) \div whole)

\* _calculated_period, by the two ratios that show how they are made.
Calculated(p, all) ==
  LET before == {q \in all : Comparable(p, q)}
      Prior(f) == IF before = {} THEN NotGiven ELSE (CHOOSE q \in before : TRUE).figures[f]
  IN [p EXCEPT !.figures = @ @@ [growth |-> Growth(p.figures.revenue, Prior("revenue")),
                                 debt |-> Percent(p.figures.liabilities, p.figures.assets)]]

Reconciled(all) ==
  LET scopes == {p.scope : p \in all}
      Balanced(f) == {"assets", "liabilities", "equity"} \subseteq
                       {x \in DOMAIN f : f[x] # NotGiven}
      Off(f) == Magnitude(f.assets - f.liabilities - f.equity) > 1
  IN IF Cardinality(scopes) # 1 \/ "" \in scopes \/ \E p \in all : ~Balanced(p.figures)
     THEN "inconclusive"
     ELSE IF \E p \in all : Off(p.figures) THEN "failed" ELSE "passed"

\* _concentration: shares of one period, of a ranking that is complete that far, in a
\* stated total or else as they are stated of one; the first and the first five.
Ranked(rows, source) ==
  Cardinality({r.period : r \in Range(rows)} \ {""}) = 1 /\ source.ranked # NotGiven
Measurable(source) ==
  source.ranked > 0 /\ (source.total # NotGiven => InBounds("amount", source.total)
                                                   /\ source.total # 0)
Concentration(rows, source) ==
  LET Told(f) == \A r \in Range(rows) : r[f] # NotGiven /\ r.period # ""
      First(f, n) == FoldLeft(LAMBDA k, r : k + r[f], 0, SubSeq(rows, 1, n))
      ShareOf(n) ==
        IF ~Ranked(rows, source) \/ Len(rows) < n \/ source.ranked < n THEN NotGiven
        ELSE IF source.total # NotGiven /\ Told("amount")
        THEN Percent(First("amount", n), source.total)
        ELSE IF source.confirmed /\ Told("ratio") THEN First("ratio", n) ELSE NotGiven
  IN <<ShareOf(1), ShareOf(5)>>

\* calculate_bank_flow.  A bank flow is [from, to, inflow, receipts, months]: the
\* months it covers, its totals, and the inflow of each month.
SumOf(f, s) == MapThenSumSet(LAMBDA m : f[m], s)
Consistent(flow) ==
  LET said == {m \in DOMAIN flow.months : flow.months[m] # NotGiven}
      known == SumOf(flow.months, said)
  IN flow.inflow = NotGiven \/ DOMAIN flow.months = {}
       \/ IF said = DOMAIN flow.months THEN Magnitude(flow.inflow - known) <= 1
          ELSE known <= flow.inflow + 1
WholePeriod(flow) == NotGiven \notin {flow.from, flow.to}
RecentChange(flow) ==
  LET last == flow.to - 5 .. flow.to
      latest == {m \in DOMAIN flow.months : Cardinality({n \in DOMAIN flow.months : n > m}) < 6}
  IN IF WholePeriod(flow) /\ Consistent(flow) /\ latest = last /\ flow.from <= flow.to - 5
          /\ \A m \in last : flow.months[m] # NotGiven
     THEN Growth(SumOf(flow.months, flow.to - 2 .. flow.to),
                 SumOf(flow.months, flow.to - 5 .. flow.to - 3))
     ELSE NotGiven
ReceiptShare(flow) ==
  IF WholePeriod(flow) /\ Consistent(flow) THEN Percent(flow.receipts, flow.inflow) ELSE NotGiven
\* _repayment_gap: a balance only with every input of it, on stated assumptions.
NetBalance(flow) ==
  IF WholePeriod(flow) /\ flow.gap.stated /\ NotGiven \notin Range(flow.gap.in)
       /\ NotGiven \notin Range(flow.gap.out)
  THEN SumOf(flow.gap.in, DOMAIN flow.gap.in) - SumOf(flow.gap.out, DOMAIN flow.gap.out)
  ELSE NotGiven
=============================================================================
