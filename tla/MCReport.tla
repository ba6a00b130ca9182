------------------------------ MODULE MCReport ------------------------------
\* A small company and what a run may bring to its report.
EXTENDS ProductReport

Where(field, operator, value) == [field |-> field, operator |-> operator, value |-> value]
Claims(text) == Where("claim", "contains", {Text(text)})
Rule(id, points, conditions) == [id |-> id, points |-> points, conditions |-> conditions]
\* Rules like the shipped ones, and one for each of the other operators.
MCRules ==
  {Rule("A1", 40, {Where("risk_class", "equals", {Text("admission")}), Claims("dishonest")}),
   Rule("S1", 20, {Where("risk_class", "equals", {Text("attention")}), Claims("sued"),
                   Where("severity", "in", {Text("high"), Text("critical")})}),
   Rule("S2", 10, {Claims("pledged"), Where("value.title", "exists", {}),
                   Where("domain", "not_equals", {Text("judicial")})}),
   Rule("S3", 10, {Claims("pledged"), Where("value.amount", "gte", {Number(1)})}),
   Rule("U1", 5, {Where("status", "equals", {Text("unconfirmed")}), Claims("sued")})}
MCOccurs == {<<"sued", "sued twice">>, <<"pledged", "shares pledged">>}
MCFieldsOf ==
  [registration |-> {<<"company_profile", "capital">>, <<"company_profile", "address">>,
                     <<"external_verification", "registration">>},
   changes |-> {<<"company_profile", "capital">>, <<"external_verification", "registration">>},
   shareholders |-> {<<"company_profile", "shareholders">>, <<"ownership", "shareholders">>},
   controllers |-> {<<"ownership", "controllers">>}, investments |-> {<<"ownership", "graph">>},
   suppliers_customers |-> {<<"business_analysis", "customers">>,
                            <<"business_analysis", "suppliers">>},
   summary |-> {<<"financial_analysis", "periods">>},
   balance |-> {<<"financial_analysis", "periods">>},
   executions |-> {<<"external_verification", "judicial">>},
   arrears |-> {<<"external_verification", "tax">>}]
Area(capabilities, domains) == [capabilities |-> capabilities, domains |-> domains]
MCVerifying ==
  [registration |-> Area({"registration", "changes"}, {"identity", "governance"}),
   judicial |-> Area({"executions"}, {"judicial"}), tax |-> Area({"arrears"}, {"tax"}),
   credit_info |-> Area({}, {}), internal_record |-> Area({}, {})]

-----------------------------------------------------------------------------
Item(capability, status, completeness, reasons, error) ==
  [capability |-> capability, status |-> status, completeness |-> completeness,
   reasons |-> reasons, error |-> error]
Answered(c) == Item(c, "verified_records", "complete", {}, "")
Empty(c) == Item(c, "verified_empty", "complete", {}, "")
AllAnswered ==
  <<Answered("registration"), Answered("changes"), Answered("shareholders"),
    Answered("controllers"), Answered("investments"), Answered("suppliers_customers"),
    Answered("summary"), Answered("balance"), Empty("executions"), Empty("arrears")>>
MCCoverages ==
  {AllAnswered,
   [AllAnswered EXCEPT ![2] = Item("changes", "capability_absent", "unknown", {}, "none")],
   [AllAnswered EXCEPT ![9] = Item("executions", "source_error", "unknown", {}, "timeout")],
   [AllAnswered EXCEPT ![6] = Item("suppliers_customers", "verified_records", "partial",
                                   {"missing_period", "pagination_truncated"}, ""),
                       ![7] = Item("summary", "source_error", "unknown", {}, "not_requested"),
                       ![8] = Item("balance", "verified_records", "partial",
                                   {"source_unavailable"}, "")]}

Finding(id, claim, class, severity, evidence) ==
  [id |-> id, title |-> "risk", claim |-> claim, class |-> class, severity |-> severity,
   evidence |-> evidence]
Check(id, role, status, items) == [id |-> id, role |-> role, status |-> status, items |-> items]
Calm == Check("c1", "corporate", "no_risk", {})
MCChecks ==
  {{Calm},
   {Calm, Check("c2", "judicial-compliance", "risk",
                {Finding("1", "sued twice", "attention", "high", {"e1", "e2"}),
                 Finding("2", "dishonest", "admission", "low", {"e1", "e2"}),
                 Finding("3", "remark", "non_risk", "low", {"e1"})}),
    Check("c3", "financial-operations", "risk",
          {Finding("1", "sued twice", "attention", "low", {"e1", "e2"})})},
   {Check("c1", "corporate", "inconclusive", {}),
    Check("c4", "related-peer", "risk", {Finding("1", "shares pledged", "attention", "high", {"e3"})})}}

-----------------------------------------------------------------------------
Row(name, amount, period) ==
  [name |-> name, amount |-> amount, ratio |-> NotGiven, period |-> period]
Source(refs, rows) ==
  [refs |-> refs, rows |-> rows, table |-> [x \in {} |-> {}], statements |-> <<>>,
   suppliers |-> <<>>, total |-> NotGiven, ranked |-> NotGiven, confirmed |-> FALSE, stated |-> {}]
Statement(year, scope, assets, revenue) ==
  [period |-> [kind |-> "annual", part |-> "", year |-> year], scope |-> scope,
   figures |-> [assets |-> assets, liabilities |-> 60, equity |-> 40, revenue |-> revenue]]
Five(amount, ratio) == [k \in 1 .. 5 |-> [Row("p", amount, "2024") EXCEPT !.ratio = ratio]]
Stating(kind, value) == {[kind |-> kind, value |-> value]}
Trade(customers, suppliers, total, ranked) ==
  [Source({"e3"}, customers) EXCEPT !.suppliers = suppliers, !.total = total, !.ranked = ranked,
                                    !.stated = Stating("percentage", 100)]
\* Everything is disclosed.
MCAnswers ==
  [registration |-> [Source({"e1"}, <<>>) EXCEPT !.table = [capital |-> {"100"}, address |-> {"here"}]],
   changes |-> Source({}, <<>>),
   shareholders |-> Source({"e2"}, <<Row("ann", NotGiven, ""), Row("-", NotGiven, "")>>),
   controllers |-> Source({"e2"}, <<Row("ann", NotGiven, "")>>),
   investments |-> Source({"e2"}, <<Row("branch", NotGiven, "")>>),
   suppliers_customers |-> Trade(Five(20, NotGiven), Five(10, 20), 100, 5),
   summary |-> [Source({"e3"}, <<>>) EXCEPT !.statements =
                  <<Statement(2023, "group", 100, 50), Statement(2024, "", NotGiven, 75)>>],
   balance |-> [Source({"e4"}, <<>>) EXCEPT !.statements =
                  <<Statement(2024, "group", 100, NotGiven)>>],
   executions |-> Source({}, <<>>), arrears |-> Source({}, <<>>)]
\* Two capitals, customers of two periods, a balance that is off; no statement, no owner
\* and a ranking of one.
MCSoundAnswers ==
  {MCAnswers,
   [MCAnswers EXCEPT !.registration.table = [capital |-> {"100", "200"}],
                     !.suppliers_customers.rows = <<Row("bob", 30, "2024"), Row("", 20, "2023")>>,
                     !.balance.statements = <<Statement(2024, "own", 90, NotGiven)>>],
   [MCAnswers EXCEPT !.summary = Source({}, <<>>), !.balance = Source({}, <<>>),
                     !.shareholders = Source({}, <<>>), !.controllers = Source({}, <<>>),
                     !.investments = Source({}, <<>>),
                     !.suppliers_customers = Trade(<<Row("bob", 30, "2024")>>, <<>>, 100, 1)]}
\* A share of the first five, of the suppliers and by stated ratios above the whole, a
\* total and a ranking that measure nothing, figures out of their bounds.
MCRefusedAnswers ==
  {[MCAnswers EXCEPT !.suppliers_customers = t] :
     t \in {Trade(Five(21, 20), <<>>, 100, 5), Trade(Five(20, 20), Five(21, 20), 100, 5),
            [Trade(Five(NotGiven, 21), <<>>, NotGiven, 5) EXCEPT !.confirmed = TRUE],
            Trade(Five(20, 20), <<>>, -100, 5), Trade(Five(20, 20), <<>>, 100, 0),
            Trade(Five(-1, 20), <<>>, NotGiven, 5)}}
  \cup {[MCAnswers EXCEPT !.shareholders.stated = x] :
          x \in {Stating("percentage", 101), Stating("amount", -1), Stating("number", NotFinite)}}
-----------------------------------------------------------------------------
BankFlow(receipts, inflow, months) ==
  [from |-> 1, to |-> 6, inflow |-> inflow, receipts |-> receipts, months |-> months,
   gap |-> [stated |-> TRUE, in |-> [a |-> 30], out |-> [b |-> 20]]]
Steadily(n) == [m \in 1 .. 6 |-> n]
NoPlan == [f \in PlanFields |-> {}]
AllPlan ==
  [NoPlan EXCEPT !.application_amount = {5000}, !.application_term = {2}]
NothingGiven == [bank_flow |-> {}, credit_info |-> {}, internal_record |-> {}]
AllGiven ==
  [bank_flow |-> {BankFlow(80, 60, Steadily(10))} , credit_info |-> {"stated"},
   internal_record |-> {"stated"}]
Whole1 == [AllGiven EXCEPT !.bank_flow = {BankFlow(45, 60, Steadily(10))}]
\* An application without and with what is asked for, one that asks for nothing, terms
\* and an amount that are suggested already.
MCInputs ==
  {[plan |-> NoPlan, given |-> NothingGiven],
   [plan |-> AllPlan, given |-> Whole1],
   [plan |-> [AllPlan EXCEPT !.application_amount = {0}, !.suggested_amount = {4000}],
    given |-> NothingGiven],
   [plan |-> [AllPlan EXCEPT !.loan_term = {3}, !.suggested_amount = {4000}],
    given |-> [Whole1 EXCEPT !.bank_flow = {BankFlow(45, 60, Steadily(20))}]],
   [plan |-> [NoPlan EXCEPT !.suggested_amount = {0}],
    given |-> [NothingGiven EXCEPT
                 !.bank_flow = {BankFlow(45, 60, [m \in {1, 6} |-> IF m = 1 THEN NotGiven ELSE 5])},
                 !.credit_info = {"stated"}]]}

Evidence(id, type, mock, fresh) == [id |-> id, type |-> type, mock |-> mock, fresh |-> fresh]
Real == {Evidence(i, "tianyancha", FALSE, TRUE) : i \in {"e1", "e2", "e3", "e4"}}
Recorded1 ==
  {Evidence(i, IF i = "e4" THEN "mock" ELSE "tianyancha", i = "e4", i # "e1") :
     i \in {"e1", "e2", "e3", "e4"}}
RunsOf(inputs, answers) ==
  {[coverage |-> c, checks |-> k, answers |-> a, plan |-> i.plan, given |-> i.given,
    evidence |-> e, conflicts |-> x.conflicts, demo |-> x.demo, errors |-> x.errors,
    reviewed |-> x.reviewed] :
     c \in MCCoverages, k \in MCChecks, a \in answers, i \in inputs,
     e \in {Real, Recorded1},
     x \in {[conflicts |-> {}, demo |-> FALSE, errors |-> FALSE, reviewed |-> TRUE],
            [conflicts |-> {"f1"}, demo |-> TRUE, errors |-> TRUE, reviewed |-> FALSE],
            [conflicts |-> {}, demo |-> FALSE, errors |-> FALSE, reviewed |-> FALSE]}}
\* More receipts than inflow, as a caller may submit.
MCConflictingCases == RunsOf({[plan |-> NoPlan, given |-> AllGiven]}, {MCAnswers})
MCCases ==
  RunsOf(MCInputs, MCSoundAnswers)
  \cup RunsOf({[plan |-> NoPlan, given |-> NothingGiven]}, MCRefusedAnswers)
  \cup MCConflictingCases
ASSUME CasesAssumption == \A c \in MCCases : Traceable(c)
Wish(amount, credit, loan) ==
  [NoWish EXCEPT !.suggested_amount = amount, !.credit_term = credit, !.loan_term = loan]
MCWishes ==
  {[Wish({3000}, {2}, {1}) EXCEPT !.cites = {"e4"}], Wish({}, {1}, {2}), Wish({20000}, {}, {}),
   Wish({0}, {}, {}), [NoWish EXCEPT !.cites = {"e9"}],
   [NoWish EXCEPT !.loan_term = {2}, !.suggested_rate = {"pricing_guidance"}]}

=============================================================================
