---------------------------- MODULE ProductReport ----------------------------
(***************************************************************************)
(* The report of a run, from accepted checks to the published result:       *)
(* application/result_assembler.py, reporting/product_fact_projector.py,    *)
(* product_assembler.py, product_suggestions.py and the contract the result *)
(* must satisfy (contracts/product.py).  What is not there is the empty set;*)
(* a scalar that is there is a set of one.                                  *)
(***************************************************************************)
EXTENDS ReportFacts

CONSTANTS
  Cases,       \* what a run brings to its report
  Wishes       \* suggestions a model may make, with the evidence it cites for them

\* Fields that hold one value.
Scalars == {"capital", "address", "top1", "top5", "supplier_top5"}

VARIABLES
  case,        \* the case of this behaviour
  reportStage,       \* start, reviewed, projected, prepared, suggested, finished, refused
  reviewed,    \* ReviewedReportInputs
  product,      \* ProductReport: values, refs, status and gaps of each module
  citable,     \* evidence the report can cite
  cards,       \* risk cards
  result       \* ProductResult

productVars == <<case, reportStage, reviewed, product, citable, cards, result>>

-----------------------------------------------------------------------------
Relations == {"shareholders", "controllers", "investments"}
Areas == DOMAIN Verifying
SourcesOf ==
  [business_plan |-> {}, company_profile |-> {"registration", "shareholders"},
   ownership |-> Relations, business_analysis |-> {"suppliers_customers"},
   financial_analysis |-> {"summary", "balance"}, bank_flow_analysis |-> Relations,
   external_verification |-> UNION {Verifying[a].capabilities : a \in Areas}]
ReportModules == DOMAIN SourcesOf
PlanFields == {"application_amount", "application_term", "suggested_amount",
               "suggested_rate", "credit_term", "loan_term", "guarantee", "repayment"}
SuggestionFields == PlanFields \ {"application_amount", "application_term"}
\* Amounts stay, but without new credit no term of it applies.
TermFields == {"credit_term", "loan_term", "guarantee", "repayment"}
\* The fields of each module, of all that its contract has.
ReportFields ==
  [business_plan |-> PlanFields,
   company_profile |-> {"capital", "address", "shareholders", "highlights"},
   ownership |-> {"shareholders", "controllers", "graph"},
   business_analysis |-> {"customers", "suppliers", "top1", "top5", "supplier_top5"},
   financial_analysis |-> {"periods", "reconciliation"},
   bank_flow_analysis |-> {"graph", "inflow", "receipts", "change", "balance"},
   external_verification |-> Areas]
\* A path names a module of the report or a field of it.
Resolves(path) ==
  path[1] \in ReportModules /\ (path[2] = "*" \/ path[2] \in ReportFields[path[1]])

\* The acquisition's plan names a capability once, each comes to one of the states there
\* are, what answers is one, its fields are the report's, and none fills the business plan.
\* A scalar is filled by two of them only when the earlier one fills another field of the
\* module alone (config/acquisition-catalog-v1.json, report_fields), and what the caller
\* states is no domain of the investigation.
ASSUME ReportAssumption ==
  /\ \A x \in {"credit_info", "internal_record"} : x \in Areas /\ Verifying[x].domains = {}
  /\ \A c \in DOMAIN FieldsOf : \A f \in FieldsOf[c] : Resolves(f) /\ f[1] # "business_plan"
  /\ \A r \in Cases : DOMAIN r.plan = PlanFields /\ DOMAIN r.answers \subseteq DOMAIN FieldsOf
  /\ \A r \in Cases : LET cov == r.coverage IN
       /\ DOMAIN cov = 1 .. Len(cov) /\ Len(cov) \in Nat
       /\ \A k \in DOMAIN cov : /\ cov[k].capability \in DOMAIN FieldsOf
                                /\ Closed(cov[k]) \/ Lost(cov[k])
       /\ \A k, l \in DOMAIN cov : k < l =>
            /\ cov[k].capability # cov[l].capability
            /\ \A f \in FieldsOf[cov[k].capability] \cap FieldsOf[cov[l].capability] :
                 f[2] \in Scalars => \E g \in FieldsOf[cov[k].capability] : g[1] = f[1]
                   /\ \A c \in DOMAIN FieldsOf \ {cov[k].capability} : g \notin FieldsOf[c]

Given(n) == IF n = NotGiven THEN {} ELSE {n}
Or(known, default) == IF known = {} THEN default ELSE CHOOSE v \in known : TRUE
InputId(name) == "input-" \o name
DerivedId(module) == "derived-" \o module
CallerFields == PlanFields \cup {"bank_flow", "credit_info", "internal_record"}
DerivedFrom == {"financial_analysis", "bank_flow_analysis"}

\* What the report adds to the evidence has identities of its own.
ASSUME IdsAssumption ==
  /\ \A m, n \in CallerFields : InputId(m) = InputId(n) => m = n
  /\ \A m, n \in DerivedFrom : DerivedId(m) = DerivedId(n) => m = n
  /\ \A m \in CallerFields, n \in DerivedFrom : InputId(m) # DerivedId(n)
Cites(s) == UNION {case.answers[x].refs : x \in s}

\* What a caller supplied is evidence of its own, and no verification.
Supplied(c) ==
  {f \in PlanFields : c.plan[f] # {}}
  \cup {n \in {"bank_flow", "credit_info", "internal_record"} : c.given[n] # {}}

-----------------------------------------------------------------------------
\* ProductFactProjector.project.
\* What a contract refuses: a figure out of its bounds, a total or a ranking that
\* measures nothing, and a share above the whole.
Unprojectable(c) ==
  LET trade == c.answers.suppliers_customers
      shares == Range(Concentration(trade.rows, trade))
                  \cup {Concentration(trade.suppliers, trade)[2]}
  IN \/ \E x \in UNION {FiguresOf(c.answers[s]) : s \in DOMAIN c.answers} :
          ~InBounds(x.kind, x.value)
     \/ \E rows \in {trade.rows, trade.suppliers} : Ranked(rows, trade) /\ ~Measurable(trade)
     \/ \E n \in shares : ~InBounds("percentage", n)

\* A partner without a name is one all the same.
Partners(rows) == {IF r.name = "" THEN "undisclosed" ELSE r.name : r \in Range(rows)}
Named(s) == {r.name : r \in Range(Entities(case.answers[s].rows))}
EquityGraph ==
  Graph(UNION {{[name |-> n, kind |-> s, inward |-> s # "investments"] : n \in Named(s)} :
                 s \in Relations})
ProjectedValues ==
  LET a == case.answers
      trade == a.suppliers_customers
      Shares(rows) == Concentration(rows, trade)
  IN [business_plan |-> [f \in PlanFields |-> {}],
      company_profile |->
        [capital |-> Disclosed(a.registration.table, "capital"),
         address |-> Disclosed(a.registration.table, "address"),
         shareholders |-> Named("shareholders"), highlights |-> {}],
      ownership |-> [shareholders |-> Named("shareholders"),
                     controllers |-> Named("controllers"), graph |-> EquityGraph.nodes],
      business_analysis |->
        [customers |-> Partners(trade.rows), suppliers |-> Partners(trade.suppliers),
         top1 |-> Given(Shares(trade.rows)[1]), top5 |-> Given(Shares(trade.rows)[2]),
         supplier_top5 |-> Given(Shares(trade.suppliers)[2])],
      financial_analysis |-> [periods |-> Merged(a.summary.statements \o a.balance.statements),
                              reconciliation |-> {}],
      bank_flow_analysis |-> [graph |-> EquityGraph.nodes, inflow |-> {}, receipts |-> {},
                              change |-> {}, balance |-> {}],
      external_verification |-> [x \in Areas |-> {}]]
ProjectedChecks ==
  [x \in Areas |->
     LET status == Verification(x, case.coverage, reviewed.findings)
         risks == {f \in reviewed.findings : f.class # "non_risk"
                                             /\ f.domain \in Verifying[x].domains}
     IN [status |-> status,
         refs |-> CASE status = "attention" -> UNION {f.evidence : f \in risks}
                    [] status = "passed" -> Cites(Verifying[x].capabilities)
                    [] OTHER -> {},
         facts |-> IF status = "inconclusive" THEN {} ELSE Cites(Verifying[x].capabilities)]]

\* _public_evidence: a source supports the report fields of its submodule.
PublicEvidence ==
  {[id |-> e.id, type |-> e.type, mock |-> e.mock, parents |-> {},
    supports |-> UNION {FieldsOf[s] : s \in {x \in DOMAIN case.answers :
                                              e.id \in case.answers[x].refs}}] :
     e \in case.evidence}

-----------------------------------------------------------------------------
\* ProductReportAssembler.prepare.
CallerEvidence ==
  {[id |-> InputId(n), type |-> "user_input", mock |-> FALSE, parents |-> {},
    supports |-> CASE n \in PlanFields -> {<<"business_plan", n>>}
                   [] n = "bank_flow" -> {<<"bank_flow_analysis", "*">>}
                   [] OTHER -> {<<"external_verification", n>>}] : n \in Supplied(case)}

Flow == CHOOSE f \in case.given.bank_flow : TRUE
\* calculate_bank_flow: a share of the inflow above the whole fails the contract.
Uncalculable == case.given.bank_flow # {} /\ ReceiptShare(Flow) > 100
FlowValues ==
  IF case.given.bank_flow = {} THEN product.values.bank_flow_analysis
  ELSE [graph |-> EquityGraph.nodes, inflow |-> Given(Flow.inflow),
        receipts |-> Given(ReceiptShare(Flow)), change |-> Given(RecentChange(Flow)),
        balance |-> Given(NetBalance(Flow))]

\* Every period with its ratios, and the latest of them in the profile.
Statements ==
  LET periods == product.values.financial_analysis.periods
  IN {Calculated(p, periods) : p \in periods}
Latest == {p \in Statements : \A q \in Statements : q.period.year <= p.period.year}

\* credit_info and internal_record are stated, never verified, by the caller.
StatedChecks ==
  [x \in Areas |->
     IF x \in {"credit_info", "internal_record"} /\ x \in Supplied(case)
     THEN [status |-> "inconclusive", refs |-> {InputId(x)}, facts |-> {InputId(x)}]
     ELSE product.verified[x]]

PreparedRefs ==
  LET Inputs(names) == {InputId(n) : n \in Supplied(case) \cap names}
      Also(m) == CASE m = "business_plan" -> Inputs(PlanFields)
                   [] m = "bank_flow_analysis" -> Inputs({"bank_flow"})
                   [] m = "external_verification" -> Inputs({"credit_info", "internal_record"})
                   [] OTHER -> {}
  IN [m \in ReportModules |-> product.refs[m] \cup Also(m)]

\* One derived record per calculation, from everything its module refers to.
Variant_DerivedEvidence(refs, known) ==
  {[id |-> DerivedId(m), type |-> "derived", parents |-> refs[m], mock |-> FALSE,
    supports |-> {<<m, "*">>}] : m \in {x \in DerivedFrom : refs[x] # {}}}
DerivedEvidence(refs, known) ==
  {[id |-> DerivedId(m), type |-> "derived", parents |-> refs[m],
    mock |-> \E e \in known : e.id \in refs[m] /\ e.mock,
    supports |-> {<<m, "*">>} \cup
      IF m = "financial_analysis" /\ Statements # {}
      THEN {<<"company_profile", "highlights">>} ELSE {}] :
     m \in {x \in DerivedFrom : refs[x] # {}}}
WithDerived(refs, derived) ==
  [m \in ReportModules |->
     refs[m] \cup {e.id : e \in {d \in derived : \E f \in d.supports : f[1] = m}}]

-----------------------------------------------------------------------------
\* complete_missing_fields: a source's gap stays, unless a capability is absent
\* whose field another source supplied; then a field without value is a gap unless
\* it was verified to be empty.
GapsOf(m, values, refs, known) ==
  LET supported == UNION {e.supports : e \in {x \in known : x.id \in refs[m]}}
      disclosed == {<<m, f>> : f \in {x \in DOMAIN values[m] \cap Scalars : values[m][x] # {}}}
                     \cap supported
      told == {g \in SourceGaps(case.coverage) :
                 g.field[1] = m /\ ~(g.reason = "capability_absent" /\ g.field \in disclosed)}
      silent == {f \in DOMAIN values[m] :
                   /\ values[m][f] = {}
                   /\ <<m, f>> \notin {g.field : g \in told} \cup EmptyFields(case.coverage)}
  IN told \cup {[field |-> <<m, f>>,
                 reason |-> IF m \in {"business_plan", "bank_flow_analysis"}
                            THEN "not_provided" ELSE "not_disclosed"] : f \in silent}
StatusOf(gaps, refs) ==
  IF gaps = {} THEN "complete" ELSE IF refs # {} THEN "partial" ELSE "unavailable"
Variant_Completed(r, known) ==
  LET gaps == [m \in ReportModules |->
                 {g \in GapsOf(m, r.values, r.refs, known) : r.values[m][g.field[2]] = {}}]
  IN [r EXCEPT !.gaps = gaps, !.status = [m \in ReportModules |-> StatusOf(gaps[m], r.refs[m])]]
Completed(r, known) ==
  LET gaps == [m \in ReportModules |-> GapsOf(m, r.values, r.refs, known)]
  IN [r EXCEPT !.gaps = gaps, !.status = [m \in ReportModules |-> StatusOf(gaps[m], r.refs[m])]]

-----------------------------------------------------------------------------
\* SuggestionLimits and complete_suggestions.
Limits(plan) ==
  LET stop == reviewed.decision.band = "reject" \/ plan.suggested_amount = {0}
      term == Min({3, Or(plan.application_term, 3)})
  IN [stop |-> stop, term |-> term,
      amount |-> IF stop THEN 0 ELSE Min({10000, Or(plan.application_amount, 10000)}),
      default |-> IF cards # {} \/ reviewed.decision.band # "pass" THEN 1 ELSE term]
NoWish == [f \in SuggestionFields \cup {"cites"} |-> {}]
Stopped(limits, wish) == limits.stop \/ Or(wish.suggested_amount, limits.amount) = 0
Guidance(stopped) == IF stopped THEN "stop_guidance" ELSE "pricing_guidance"
Permitted(limits, wish) ==
  LET stopped == limits.stop \/ 0 \in wish.suggested_amount \cup {limits.amount}
      terms == wish.credit_term \cup wish.loan_term
  IN /\ \A n \in wish.suggested_amount : n <= limits.amount
     /\ \A n \in terms : n <= limits.term
     /\ \A c \in wish.credit_term, l \in wish.loan_term : l <= c
     /\ wish.suggested_rate \subseteq {Guidance(stopped)}
     /\ stopped => terms \cup wish.guarantee \cup wish.repayment = {}
Terms(limits, wish) ==
  LET credit == Or(wish.credit_term, Max({Or(wish.loan_term, 1), limits.default}))
      loan == Or(wish.loan_term, Min({credit, limits.default}))
      Unless(v) == IF Stopped(limits, wish) THEN {} ELSE {v}
  IN [suggested_amount |-> {Or(wish.suggested_amount, limits.amount)},
      suggested_rate |-> {Guidance(Stopped(limits, wish))},
      credit_term |-> Unless(credit), loan_term |-> Unless(loan),
      guarantee |-> Unless(Or(wish.guarantee, "legal_representative")),
      repayment |-> Unless(Or(wish.repayment, "equal_principal"))]

\* What the caller had suggested is kept, the rest is filled or, without new credit,
\* declined by the analysis; either way it is no gap any more.
Suggested(r, wish) ==
  LET plan == r.values.business_plan
      limits == Limits(plan)
      changes == {f \in SuggestionFields : plan[f] = {}}
      left == {g \in r.gaps.business_plan : g.field[2] \notin changes}
  IN [values |-> [r.values EXCEPT !.business_plan =
                    [f \in PlanFields |-> IF f \in changes THEN Terms(limits, wish)[f] ELSE plan[f]]],
      refs |-> [r.refs EXCEPT !.business_plan =
                  @ \cup wish.cites \cup UNION {c.evidence : c \in cards}],
      gaps |-> [r.gaps EXCEPT !.business_plan = left],
      status |-> [r.status EXCEPT !.business_plan = IF left = {} THEN "complete" ELSE "partial"],
      verified |-> r.verified, declined |-> Stopped(limits, wish)]
\* Without a draft that holds, each module says that its analysis is missing.
Unwritten(r) ==
  [r EXCEPT !.gaps = [m \in ReportModules |-> r.gaps[m] \cup
                        {[field |-> <<m, "analysis">>, reason |-> "generation_failed"]}],
            !.status = [m \in ReportModules |-> IF r.refs[m] # {} THEN "partial" ELSE "unavailable"]]

-----------------------------------------------------------------------------
\* ProductReportAssembler.finish.
Incompletely(r) == reviewed.incomplete \/ \E m \in ReportModules : r.status[m] # "complete"
Advice(r) ==
  IF reviewed.decision.band = "reject" THEN "stop"
  ELSE IF \/ Incompletely(r) \/ r.values.business_plan.suggested_amount = {0}
          \/ reviewed.decision.band = "manual_review"
       THEN "manual_review" ELSE "proceed"
Referenced(r) ==
  (UNION {r.refs[m] : m \in ReportModules})
  \cup (UNION {r.verified[x].refs \cup r.verified[x].facts : x \in Areas})
  \cup (UNION {c.evidence : c \in cards})
\* Everything referred to, and what that was derived from.
Lineage(refs) ==
  FoldLeft(LAMBDA s, k : s \cup UNION {e.parents : e \in {x \in citable : x.id \in s}},
           refs, [k \in 1 .. Cardinality(citable) |-> k])

\* Some record of any that are derived is derived from none of them.
Acyclic(derived) ==
  \A s \in SUBSET derived : s # {} => \E e \in s : e.parents \cap {x.id : x \in s} = {}

\* ProductResult.validate_references.
Satisfied(r) ==
  LET known == {e.id : e \in r.evidence}
  IN /\ r.mock = \E e \in r.evidence : e.mock
     /\ Cardinality(known) = Cardinality(r.evidence)
     /\ r.riskCount = Cardinality(r.cards)
     /\ Referenced(r.report) \cup (UNION {e.parents : e \in r.evidence}) \subseteq known
     /\ \A e \in r.evidence : \A path \in e.supports : Resolves(path)
     /\ \A e \in r.evidence : e.parents # {} =>
          e.mock = \E p \in r.evidence : p.id \in e.parents /\ p.mock
     /\ Acyclic({e \in r.evidence : e.parents # {}})

-----------------------------------------------------------------------------
ReportInit ==
  /\ case \in Cases /\ reportStage = "start" /\ citable = {} /\ cards = {}
  /\ reviewed = [findings |-> {}] /\ product = [values |-> {}] /\ result = [published |-> FALSE]

Refuse == reportStage' = "refused" /\ UNCHANGED <<case, reviewed, product, citable, cards, result>>

\* ResultAssembler.prepare.
ReviewReport ==
  /\ reportStage = "start"
  /\ LET r == ReviewedInputs(Range(case.coverage), case.checks, case.evidence, case.conflicts,
                     case.demo, case.errors)
     IN IF ~(case.reviewed \/ case.demo) \/ ~Backed(r.findings, {e.id : e \in case.evidence})
        THEN Refuse
        ELSE /\ reviewed' = r /\ reportStage' = "reviewed"
             /\ UNCHANGED <<case, product, citable, cards, result>>

ProjectReport ==
  /\ reportStage = "reviewed"
  /\ \/ Unprojectable(case) /\ Refuse
     \/ /\ ~Unprojectable(case)
        /\ product' = [values |-> ProjectedValues, verified |-> ProjectedChecks,
                      refs |-> [m \in ReportModules |-> Cites(SourcesOf[m])],
                      status |-> [m \in ReportModules |-> "unavailable"],
                      gaps |-> [m \in ReportModules |-> {}]]
        /\ citable' = PublicEvidence /\ cards' = Cards(reviewed.findings)
        /\ reportStage' = "projected"
        /\ UNCHANGED <<case, reviewed, result>>

PrepareReport ==
  /\ reportStage = "projected"
  /\ \/ Uncalculable /\ Refuse
     \/ /\ ~Uncalculable
        /\ LET known == citable \cup CallerEvidence
               derived == DerivedEvidence(PreparedRefs, known)
               checks == StatedChecks
               values == [product.values EXCEPT
                 !.business_plan = case.plan,
                 !.company_profile.highlights = Latest,
                 !.financial_analysis.periods = Statements,
                 !.financial_analysis.reconciliation = {Reconciled(Statements)},
                 !.bank_flow_analysis = FlowValues,
                 !.external_verification = [x \in Areas |-> checks[x].facts]]
           IN /\ product' = Completed([product EXCEPT !.values = values, !.verified = checks,
                                        !.refs = WithDerived(PreparedRefs, derived)],
                                     known \cup derived)
              /\ citable' = known \cup derived
        /\ reportStage' = "prepared"
        /\ UNCHANGED <<case, reviewed, cards, result>>

\* Without a model the rules suggest alone.  A draft whose wish a limit forbids, or that
\* cites what the report has not, is asked for once more and then given up, as is a
\* model that cannot be reached: the rules suggest, and the report says what it lacks.
SuggestTerms ==
  /\ reportStage = "prepared" /\ reportStage' = "suggested"
  /\ \/ product' = Suggested(product, NoWish)
     \/ \E wish \in Wishes : /\ Permitted(Limits(product.values.business_plan), wish)
                             /\ wish.cites \subseteq {e.id : e \in citable}
                             /\ product' = Suggested(product, wish)
     \/ product' = Unwritten(Suggested(product, NoWish))
  /\ UNCHANGED <<case, reviewed, citable, cards, result>>

FinishReport ==
  /\ reportStage = "suggested"
  /\ LET used == {e \in citable : e.id \in Lineage(Referenced(product))}
         made == [published |-> TRUE, report |-> product, cards |-> cards, evidence |-> used,
                  riskCount |-> Cardinality(cards), advice |-> Advice(product),
                  status |-> IF Incompletely(product) THEN "partial" ELSE "completed",
                  mock |-> \E e \in used : e.mock]
     IN IF Satisfied(made) THEN result' = made /\ reportStage' = "finished"
                                /\ UNCHANGED <<case, reviewed, product, citable, cards>>
        ELSE Refuse

ReportNext == ReviewReport \/ ProjectReport \/ PrepareReport \/ SuggestTerms \/ FinishReport

-----------------------------------------------------------------------------
\* A case whose evidence is known once and under no identity of the report's own, and
\* that cites nothing that is not there.
Traceable(c) ==
  LET ids == {e.id : e \in c.evidence}
  IN /\ IsFiniteSet(c.evidence) /\ \A d, e \in c.evidence : d.id = e.id => d = e
     /\ ids \cap ({InputId(n) : n \in CallerFields} \cup {DerivedId(m) : m \in DerivedFrom}) = {}
     /\ \A f \in FindingsOf(c.checks) : f.evidence # {} /\ f.evidence \subseteq ids
     /\ \A s \in (UNION {SourcesOf[m] : m \in ReportModules})
                  \cup (UNION {Verifying[x].capabilities : x \in Areas}) :
          c.answers[s].refs \subseteq ids

\* What was reviewed is reported (project, prepare, generate and finish after the team
\* has concluded), whatever its sources and its caller state.
ReviewedMeansReported == reportStage = "refused" => ~case.reviewed /\ ~case.demo

\* The one thing that turns a reviewed run's report down is a figure its contract
\* forbids, of a source or of the bank flow: no combination of modules, verification,
\* cards, advice, derived records and lineage fails the contract of the result
\* (ProductResult.validate_references).
OnlyFiguresRefuse ==
  reportStage = "refused" => ~(case.reviewed \/ case.demo) \/ Unprojectable(case) \/ Uncalculable

\* Between the accepted checks and the published result no risk is lost
\* (project_risks, _verification), and a run is only told to proceed when every check
\* was concluded, every source answered and the rules let it pass (finish).
NoRiskIsHidden ==
  result.published =>
    LET risks == {f \in FindingsOf(case.checks) : f.class # "non_risk"}
    IN /\ \A f \in risks : \E c \in result.cards :
            c.claim = f.claim /\ c.evidence = f.evidence /\ f.check \in c.checks
       /\ \A f \in risks, x \in Areas : f.domain \in Verifying[x].domains =>
            result.report.verified[x].status = "attention"
       /\ \A f \in risks : f.evidence \subseteq {e.id : e \in result.evidence}
       /\ result.advice = "proceed" =>
            /\ ScoreOf(FindingsOf(case.checks)) < PassBelow
            /\ \A c \in case.checks : c.status # "inconclusive"
            /\ \A i \in Range(case.coverage) : ~Lost(i)

\* A module called complete has every field filled or verified to be empty, except the
\* terms of a plan whose analysis says that no new credit is suggested (docs/api), and
\* each source of it was read to its end or its one field came from another source
\* (complete_missing_fields, complete_suggestions).
CompleteIsAnswered ==
  result.published => \A m \in ReportModules : result.report.status[m] = "complete" =>
    /\ \A f \in DOMAIN result.report.values[m] :
         \/ result.report.values[m][f] # {} \/ <<m, f>> \in EmptyFields(case.coverage)
         \/ m = "business_plan" /\ f \in TermFields /\ result.report.declined
    /\ \A i \in Range(case.coverage), f \in DOMAIN result.report.values[m] :
         <<m, f>> \in FieldsOf[i.capability] =>
           \/ Closed(i) /\ i.completeness # "partial"
           \/ i.status = "capability_absent" /\ result.report.values[m][f] # {}
=============================================================================
