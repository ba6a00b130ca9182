---------------------------- MODULE MCRunService ----------------------------
\* What happens inside one run and around it: its due diligence, the steps it shows,
\* the report it makes, the files it leaves, the layout its reports have, the proxy
\* browsers reach it through.  The six share no variable, so a behaviour follows
\* one of them and the others keep still; every invariant is checked in all.
EXTENDS ExecutionSteps, FormalPipeline, RunArtifacts, MCReport, ReportPolicies, BrowserProxy

VARIABLE focus

\* Every combination of arm, enforcement and demonstration for a formal run
\* with its sources; a run without a supplement agent, scripted ones, one
\* without an enterprise and one of the older strategies.
FullPolicy == [formal |-> TRUE, live |-> TRUE, mode |-> "multi", enforced |-> TRUE, demo |-> FALSE,
               scripted |-> FALSE, deepsearch |-> TRUE, enterprise |-> TRUE]
MCPolicies ==
  {[FullPolicy EXCEPT !.mode = m, !.enforced = e, !.demo = d] :
     m \in {"single", "multi"}, e \in BOOLEAN, d \in BOOLEAN}
  \cup {[FullPolicy EXCEPT !.deepsearch = FALSE], [FullPolicy EXCEPT !.enterprise = FALSE],
        [FullPolicy EXCEPT !.mode = "single", !.scripted = TRUE],
        [FullPolicy EXCEPT !.formal = FALSE],
        [FullPolicy EXCEPT !.formal = FALSE, !.live = FALSE]}

MCNumbersOf == [e1 |-> {"n1"}, e2 |-> {"n2"}]
MCRisks == {[id |-> "r1", evidence |-> {"e1"}, numbers |-> {"n1"}],
            [id |-> "r2", evidence |-> {"e2"}, numbers |-> {}]}
ProjectedSection(refs, numbers) ==
  [refs |-> refs, numbers |-> numbers, analysis |-> "none", status |-> "complete",
   missing |-> FALSE]
MCFacts == [profile |-> ProjectedSection({"e1"}, {"n1"}), plan |-> ProjectedSection({}, {})]

Claim(said, refs, numbers) == [said |-> said, refs |-> refs, numbers |-> numbers]
Silent == Claim(FALSE, {}, {})
Told(id, refs) == [id |-> id, claim |-> Claim(TRUE, refs, {}), case |-> "none"]
AnyDraft(profile, plan, told) ==
  [valid |-> TRUE, analyses |-> [profile |-> profile, plan |-> plan], reason |-> Silent,
   suggested |-> {}, supplied |-> FALSE, withinLimits |-> TRUE, risks |-> told,
   distinct |-> TRUE]
BothTold == {Told("r1", {"e1"}), Told("r2", {"e2"})}
\* A good draft, one that is no JSON, one that drops a risk, one that cites
\* another section's evidence, one with a number of nobody.
MCDrafts ==
  {NoDraft,
   AnyDraft(Claim(TRUE, {"e1"}, {"n1"}), Claim(TRUE, {"e1", "e2"}, {"n2"}), BothTold),
   AnyDraft(Claim(TRUE, {"e1"}, {"n1"}), Silent, {Told("r1", {"e1"})}),
   AnyDraft(Claim(TRUE, {"e2"}, {}), Silent, BothTold),
   AnyDraft(Claim(TRUE, {"e1"}, {"n3"}), Silent, BothTold)}

-----------------------------------------------------------------------------
TeamEvent(t, m, ids, phase, section) ==
  [type |-> t, member |-> m, ids |-> ids, phase |-> phase, section |-> section]
CompanyCheck == [kind |-> "check", paths |-> {<<"company_profile", "status">>}]
CreditItem == [kind |-> "acquisition", paths |-> {<<"external_verification", "credit">>,
                                                  <<"external_verification", "tax">>}]
ReviewTask == [kind |-> "review", paths |-> {}]
MCMembers == {"ann", "bob"}
MCTeamEvents ==
  {TeamEvent("acquisition.started", NoMember, {}, "none", "none"),
   TeamEvent("acquisition.completed", NoMember, {}, "none", "none"),
   TeamEvent("agent.started", "ann", {CompanyCheck}, "none", "none"),
   TeamEvent("check.started", "bob", {CompanyCheck, CreditItem}, "none", "none"),
   TeamEvent("agent.started", "bob", {ReviewTask}, "acquisition", "none"),
   TeamEvent("agent.completed", "ann", {}, "none", "none"),
   TeamEvent("evidence.collected", "bob", {}, "none", "none"),
   TeamEvent("report.started", NoMember, {}, "none", "none"),
   TeamEvent("section.completed", NoMember, {}, "none", "company_profile"),
   TeamEvent("section.completed", NoMember, {}, "none", "appendix"),
   TeamEvent("model.request.started", "ann", {CompanyCheck}, "none", "none")}

StatedFact(t, ids) == [text |-> t, ids |-> ids]
AllCalm ==
  [v \in {"registration", "credit", "judicial", "tax", "public_opinion", "internal_record"} |->
     "passed"]
Whole == [m \in DOMAIN SectionStep |-> "complete"]
PublicResult(findings, gaps, cands) ==
  [product |-> TRUE, status |-> "completed", findings |-> findings,
   evidence |-> {"e1", "e2", "e3"},
   supports |-> [i \in {"e1", "e2", "e3"} |-> IF i = "e3" THEN {CreditItem} ELSE {}],
   gaps |-> [s \in Step |-> gaps], candidates |-> [s \in Step |-> cands],
   verified |-> AllCalm, reconciliation |-> "passed", modules |-> Whole]
MCResults ==
  {PublicResult({}, <<>>,
     <<StatedFact("t1", <<"e1", "e2">>), StatedFact("t2", <<"e3", "e1">>),
       StatedFact("t1", <<"e2">>)>>),
   PublicResult({[checks |-> {CompanyCheck}, cites |-> {"e3"}]}, <<"gap", "blank">>,
     <<StatedFact("blank", <<"e1">>), StatedFact("t1", <<"lost">>),
       StatedFact("t2", <<"lost", "e2">>), StatedFact("t3", <<"e2">>),
       StatedFact("t4", <<"e1">>)>>),
   [product |-> FALSE, status |-> "completed"]}

-----------------------------------------------------------------------------
MCDisclosing == [r1 |-> {"s1"}, r2 |-> {"s1", "s2"}]
MCSuiteImproves == [i \in 0 .. 2 |-> i # 2]
NoReport == [published |-> FALSE]

Init ==
  /\ focus \in {"pipeline", "steps", "artifacts", "report", "policies", "proxy"}
  /\ PipeInit /\ (focus # "pipeline" => policy = FullPolicy)
  /\ StepsInit /\ ArtifactsInit /\ PoliciesInit /\ ProxyInit
  /\ IF focus = "report" THEN ReportInit
     ELSE /\ case = NoReport /\ reviewed = NoReport /\ product = NoReport /\ result = NoReport
          /\ reportStage = "start" /\ citable = {} /\ cards = {}

Next ==
  /\ UNCHANGED focus
  /\ \/ /\ focus = "pipeline" /\ PipeNext
        /\ UNCHANGED <<stepVars, artifactVars, productVars, policyVars, proxyVars>>
     \/ /\ focus = "steps" /\ StepsNext
        /\ UNCHANGED <<pipeVars, artifactVars, productVars, policyVars, proxyVars>>
     \/ /\ focus = "artifacts" /\ ArtifactsNext
        /\ UNCHANGED <<pipeVars, stepVars, productVars, policyVars, proxyVars>>
     \/ /\ focus = "report" /\ ReportNext
        /\ UNCHANGED <<pipeVars, stepVars, artifactVars, policyVars, proxyVars>>
     \/ /\ focus = "policies" /\ PoliciesNext
        /\ UNCHANGED <<pipeVars, stepVars, artifactVars, productVars, proxyVars>>
     \/ /\ focus = "proxy" /\ ProxyNext
        /\ UNCHANGED <<pipeVars, stepVars, artifactVars, productVars, policyVars>>

vars == <<focus, pipeVars, stepVars, artifactVars, productVars, policyVars, proxyVars>>
Spec == Init /\ [][Next]_vars
=============================================================================
