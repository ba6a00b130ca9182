----------------------------- MODULE RiskScoring -----------------------------
(***************************************************************************)
(* From accepted checks to a decision: the findings they state              *)
(* (risk/engine.py), the rules that score them (risk/rules.py), what is left*)
(* to review (risk/quality.py, application/result_assembler.py) and the     *)
(* cards the customer sees (reporting/product_risks.py).                    *)
(***************************************************************************)
EXTENDS Integers, FiniteSets, FiniteSetsExt

CONSTANTS
  Rules,          \* [id, points, conditions]
  PassBelow,      \* pass_upper_exclusive
  RejectFrom,     \* reject_lower_inclusive
  Occurs          \* <<part, whole>>: texts of rules in texts of findings

ASSUME RulesAssumption ==
  /\ PassBelow \in Nat \ {0} /\ RejectFrom \in Nat /\ PassBelow < RejectFrom
  /\ \A r \in Rules : r.points \in Nat /\ r.conditions # {}
  /\ \A r, q \in Rules : r.id = q.id => r = q

-----------------------------------------------------------------------------
\* A check is [id, role, status, items, cites], an item of it [id, title, claim,
\* class, severity, evidence].
Domain(role) ==
  CASE role = "corporate" -> "governance"
    [] role = "judicial-compliance" -> "judicial"
    [] role = "financial-operations" -> "financial"
    [] role = "related-peer" -> "relationships"

FindingsOf(checks) ==
  UNION {{[id |-> <<c.id, i.id>>, check |-> c.id, domain |-> Domain(c.role), claim |-> i.claim,
           title |-> i.title, class |-> i.class, severity |-> i.severity,
           evidence |-> i.evidence, status |-> "accepted"] : i \in c.items} : c \in {d \in checks : d.status = "risk"}}

\* A condition is [field, operator, value]: the value it compares with, null for
\* none, or the values it lists.  What is compared is a text or a number; a field a
\* finding does not have is nothing.
Text(t) == [text |-> t]
Number(n) == [number |-> n]
ValueOf(f, field) ==
  LET stated == [check_id |-> Text(f.check), risk_id |-> Text(f.id[2]), title |-> Text(f.title)]
  IN CASE field \in {"domain", "claim", "severity", "status"} -> {Text(f[field])}
       [] field = "risk_class" -> {Text(f.class)}
       [] field = "value" -> {stated}
       [] field = "value.check_id" -> {stated.check_id}
       [] field = "value.risk_id" -> {stated.risk_id}
       [] field = "value.title" -> {stated.title}
       [] OTHER -> {}
Both(kind, a, b) == DOMAIN a = {kind} /\ DOMAIN b = {kind}
Met(cond, f) ==
  LET actual == ValueOf(f, cond.field)
      Related(R(_, _)) == \E a \in actual, b \in cond.value : R(a, b)
  IN CASE cond.operator = "exists" -> actual # {}
       [] cond.operator = "equals" -> actual = cond.value
       [] cond.operator = "not_equals" -> actual # cond.value
       [] cond.operator = "contains" -> Related(LAMBDA a, b :
            Both("text", a, b) /\ (a = b \/ <<b.text, a.text>> \in Occurs))
       [] cond.operator = "in" -> Related(LAMBDA a, b : a = b)
       [] cond.operator = "gte" -> Related(LAMBDA a, b : Both("number", a, b) /\ a.number >= b.number)
       [] cond.operator = "lte" -> Related(LAMBDA a, b : Both("number", a, b) /\ a.number <= b.number)
RuleMatches(rule, f) == \A c \in rule.conditions : Met(c, f)

\* A rule scores what is not confirmed only when it says so.
ScoresUnconfirmed(rule) ==
  [field |-> "status", operator |-> "equals", value |-> {Text("unconfirmed")}] \in rule.conditions
Applies(rule, f) ==
  RuleMatches(rule, f) /\ (f.status = "unconfirmed" => ScoresUnconfirmed(rule))

Scorable(findings) ==
  {f \in findings : f.status = "accepted" \/ \E r \in Rules : ScoresUnconfirmed(r)
                                                               /\ RuleMatches(r, f)}
\* A scorable finding without evidence, or with unknown evidence, is an error.
Backed(findings, known) ==
  \A f \in Scorable(findings) : f.evidence # {} /\ f.evidence \subseteq known

Hits(findings) == {h \in Rules \X Scorable(findings) : Applies(h[1], h[2])}
ScoreOf(findings) == MapThenSumSet(LAMBDA h : h[1].points, Hits(findings))
Band(score) ==
  IF score < PassBelow THEN "pass" ELSE IF score < RejectFrom THEN "manual_review" ELSE "reject"

\* evaluate: a major risk is one a rule hit, of admission or of high severity.
Decide(findings) ==
  [band |-> Band(ScoreOf(findings)), score |-> ScoreOf(findings),
   major |-> {f.id : f \in {g \in findings : /\ \E h \in Hits(findings) : h[2] = g
                                             /\ g.class = "admission"
                                                \/ g.severity \in {"high", "critical"}}}]

-----------------------------------------------------------------------------
\* A coverage item is [capability, status, completeness, reasons, error].
Closed(item) == item.status \in {"verified_records", "verified_empty", "degraded_mock"}
Lost(item) == item.status \in {"capability_absent", "source_error"}

\* Confidence in hundredths: coverage, evidence, freshness and the absence of
\* conflicts, by their weights; an evidence is [id, fresh, mock, ...].
Share(part, whole) == IF whole = {} THEN 100 ELSE (100 * Cardinality(part)) \div Cardinality(whole)
Confidence(coverage, findings, evidence, conflicts) ==
  LET known == {e.id : e \in evidence}
      accepted == {f \in findings : f.status = "accepted"}
      freshness == IF evidence # {} THEN Share({e \in evidence : e.fresh}, evidence)
                   ELSE IF coverage # {} /\ \A i \in coverage :
                             i.status \in {"verified_empty", "degraded_mock"} THEN 100 ELSE 0
  IN (40 * Share({i \in coverage : Closed(i)}, coverage)
      + 25 * Share({f \in accepted : f.evidence \subseteq known}, accepted)
      + 20 * freshness + 15 * (IF conflicts = {} THEN 100 ELSE 0)) \div 100

\* prepare: what keeps a report from being whole, whatever its decision.
Incomplete(coverage, checks, demo, errors) ==
  demo \/ errors \/ (\E i \in coverage : Lost(i)) \/ \E c \in checks : c.status = "inconclusive"

ReviewedInputs(coverage, checks, evidence, conflicts, demo, errors) ==
  LET findings == FindingsOf(checks)
  IN [findings |-> findings, decision |-> Decide(findings),
      confidence |-> Confidence(coverage, findings, evidence, conflicts),
      pending |-> {i.capability : i \in {j \in coverage : Lost(j)}} \cup conflicts,
      incomplete |-> Incomplete(coverage, checks, demo, errors)]

-----------------------------------------------------------------------------
\* project_risks: one card for the findings with one claim and one evidence set,
\* with the checks of all of them.
Variant_Cards(findings) ==
  LET shown == {f \in findings : f.status = "accepted" /\ f.class # "non_risk"}
  IN {[claim |-> CHOOSE x \in {f.claim : f \in {g \in shown : g.evidence = s}} : TRUE,
       evidence |-> s, checks |-> {f.check : f \in {g \in shown : g.evidence = s}}] :
        s \in {f.evidence : f \in shown}}
Cards(findings) ==
  LET shown == {f \in findings : f.status = "accepted" /\ f.class # "non_risk"}
      Same(s) == {f \in shown : <<f.claim, f.evidence>> = s}
  IN {[claim |-> s[1], evidence |-> s[2], checks |-> {f.check : f \in Same(s)}] :
        s \in {<<f.claim, f.evidence>> : f \in shown}}
=============================================================================
