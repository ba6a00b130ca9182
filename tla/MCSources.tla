------------------------------ MODULE MCSources ------------------------------
EXTENDS AcquisitionGateway, ContextSnapshot, PeerStrategies

Company(id, name, region, active) ==
  [id |-> id, code |-> "", name |-> name, region |-> region, active |-> active]
AskedFor == [code |-> "", name |-> "acme", region |-> "sh"]
MCSearches ==
  {[found |-> f, asked |-> AskedFor] :
     f \in {{Company("1", "acme", "sh", TRUE), Company("2", "acme", "bj", TRUE),
             Company("3", "acmes", "sh", TRUE), Company("4", "acme", "sh", FALSE)},
            {Company("", "acme", "sh", TRUE)},
            {Company("1", "acme", "sh", TRUE), Company("2", "acme", "sh", TRUE)}}}

Nothing == [records |-> <<>>, texts |-> 0, rows |-> 0, counts |-> {}, years |-> {},
            links |-> FALSE, total |-> Unknown, more |-> FALSE, repeats |-> 0]
Records(n, total) == [Nothing EXCEPT !.records = [i \in 1 .. n |-> "detail"], !.total = total]
MCSubmodules == {"profile", "holders", "finance", "ships"}
MCCapabilityOf ==
  [profile |-> "c1", holders |-> "c1", finance |-> "c2", ships |-> NoCapability]
MCSources1 ==
  [c1 |-> {<<Records(1, 3), Records(1, 3), Records(1, 3)>>,
           <<Records(1, 2), [Records(2, 2) EXCEPT !.repeats = 1]>>,
           <<Records(1, 2), [Records(1, 2) EXCEPT !.repeats = 1], Records(1, 2)>>, <<Nothing>>},
   c2 |-> {<<[Nothing EXCEPT !.rows = 2, !.years = {2023, 2024}]>>,
           <<[Nothing EXCEPT !.counts = {2}]>>}]
ASSUME SourcesAssumption == HonestSources

-----------------------------------------------------------------------------
\* What the sources may have said of three submodules: nothing wrong, gaps
\* everywhere, nothing at all.
FromSource(s) == {[layer |-> "source", task |-> [target |-> s, gap |-> "none"], page |-> 0,
                   published |-> Undated, ours |-> TRUE]}
Said(availability, completeness, s, gaps) ==
  [availability |-> availability, completeness |-> completeness, gaps |-> gaps,
   evidence |-> IF availability = "available" THEN FromSource(s) ELSE {}]
MCPlanOrder == <<"annual_reports", "holders", "ships">>
MCAcquired ==
  {[annual_reports |-> Said("available", "partial", "annual_reports", {"truncated"}),
    holders |-> Said("verified_empty", "complete", "holders", {}),
    ships |-> Said("capability_absent", "unknown", "ships", {"absent"})],
   [annual_reports |-> Said("verified_empty", "complete", "annual_reports", {}),
    holders |-> Said("available", "complete", "holders", {}),
    ships |-> Said("source_error", "unknown", "ships", {"error"})]}
MCSettings ==
  {[annual |-> a, gaps |-> n, agent |-> b, searchTool |-> t] :
     <<a, n, b, t>> \in {<<TRUE, 0, TRUE, FALSE>>, <<FALSE, 0, FALSE, FALSE>>,
                        <<TRUE, 1, TRUE, TRUE>>, <<TRUE, 1, TRUE, FALSE>>,
                        <<TRUE, 0, FALSE, FALSE>>}}

Doc(got, page, published, ours) ==
  [got |-> got, page |-> page, published |-> published, ours |-> ours]
NoAnswer == [failed |-> TRUE, found |-> <<>>]
Found(pages) == [failed |-> FALSE,
                 found |-> [i \in DOMAIN pages |-> [page |-> pages[i], rank |-> i]]]
Web(a, b, c, docs) == [search |-> [name |-> a, code |-> b, rewritten |-> c], document |-> docs]
MCWebs ==
  {Web(NoAnswer, NoAnswer, NoAnswer, <<>>),
   Web(Found(<<1, 2>>), Found(<<2, 3>>), Found(<<3>>),
       <<Doc(TRUE, 1, Undated, FALSE), Doc(TRUE, 2, 2026, TRUE), Doc(TRUE, 3, 2025, TRUE)>>),
   Web(Found(<<1, 2>>), NoAnswer, Found(<<2>>),
       <<Doc(FALSE, 1, Undated, FALSE), Doc(TRUE, 2, 2024, TRUE)>>)}
Annual(answer, ours, year, published, values) ==
  [answer |-> answer, labelled |-> TRUE, ours |-> ours, year |-> year,
   published |-> published, values |-> values]
MCAnnualPages ==
  {[y \in {2023, 2024} |-> p[y - 2022]] : p \in
     {<<Annual("page", TRUE, 2023, 2024, 5), Annual("page", TRUE, 2023, 2024, 5)>>,
      <<Annual("absent", TRUE, 0, 0, 0), Annual("page", TRUE, 2024, 2026, 5)>>,
      <<Annual("page", TRUE, 2023, 2024, 5), Annual("fault", TRUE, 0, 0, 0)>>}}
MCGrants ==
  [c1 |-> [agent |-> "A", submodules |-> {"annual_reports"}],
   c2 |-> [agent |-> "B", submodules |-> {"ships", "holders"}]]

-----------------------------------------------------------------------------
\* Runs of the older strategies: scenarios with a contradiction, with evidence
\* that does not hold, with sources that fail; live sources that agree, that
\* repeat each other, that are cut off, and one tool for two domains.
Route(submodule, prefer) == [submodule |-> submodule, prefer |-> prefer]
MCRoutes ==
  [governance |-> <<Route("owners", <<"t1">>), Route("deals", <<"t5", "t2">>)>>,
   judicial |-> <<Route("cases", <<"t3">>)>>,
   operations |-> <<Route("penalties", <<"t4">>), Route("supply", <<"t2">>)>>,
   peers |-> <<Route("rivals", <<"t6">>)>>]
CalmScene ==
  [records |-> {"dishonest"}, employees |-> 80, documented |-> {}, negative |-> {},
   future |-> FALSE, override |-> [d \in Domains |-> "none"], degraded |-> FALSE]
Troubled ==
  [CalmScene EXCEPT !.records = {"executions", "abnormal", "decline", "penalties"},
                    !.documented = {50}, !.negative = {"executions"}]
Hidden(o, degraded) ==
  [Troubled EXCEPT !.override = [CalmScene.override EXCEPT !["judicial"] = o,
                                                          !["operations"] = "capability_absent"],
                   !.degraded = degraded]
Answered(ref, field, values) ==
  [failed |-> FALSE, ref |-> ref, field |-> field, counted |-> TRUE, truncated |-> FALSE,
   records |-> [i \in DOMAIN values |-> [value |-> values[i], negative |-> values[i] < 0]]]
Broken(ref) == [Answered(ref, "records", <<>>) EXCEPT !.failed = TRUE]
CutOff(ref) == [Answered(ref, "records", <<7>>) EXCEPT !.truncated = TRUE]
Offline(scene) ==
  [live |-> FALSE, scene |-> scene, tools |-> <<>>, web |-> CHOOSE w \in MCWebs : TRUE,
   reports |-> CHOOSE p \in MCAnnualPages : TRUE, research |-> FALSE, annual |-> FALSE,
   corpus |-> <<0, 2, 2, 1>>]
Online(scene, tools) == [Offline(scene) EXCEPT !.live = TRUE, !.tools = tools]
Tools(a, c, d) == ("t1" :> a) @@ ("t3" :> c) @@ ("t4" :> d)
MCWorlds ==
  {Offline(CalmScene), Offline(Troubled), Offline([Troubled EXCEPT !.future = TRUE]),
   Offline(Hidden("source_error", FALSE)), Offline(Hidden("source_error", TRUE)),
   Offline(Hidden("verified_empty", FALSE)),
   Online(CalmScene, Tools(Answered(1, "owners", <<7>>), Broken(3), Answered(4, "fines", <<-1>>))
                       @@ ("t5" :> Answered(2, "deals", <<8, 9>>))),
   Online([Troubled EXCEPT !.degraded = TRUE],
          Tools(Answered(5, "owners", <<7>>), Broken(3), Answered(4, "fines", <<>>))
            @@ ("t5" :> Answered(2, "owners", <<7>>))),
   [Online(CalmScene, Tools(Answered(1, "owners", <<>>), CutOff(3), Answered(4, "fines", <<2>>)))
      EXCEPT !.research = TRUE, !.annual = TRUE],
   [Online(CalmScene, Tools(CutOff(1), CutOff(3), Broken(4)))
      EXCEPT !.research = TRUE,
             !.web = Web(Found(<<2>>), NoAnswer, NoAnswer, <<Doc(FALSE, 1, Undated, FALSE),
                                                            Doc(TRUE, 2, 2025, TRUE)>>)],
   Online(CalmScene, Tools(Answered(1, "owners", <<7>>), Answered(3, "cases", <<5, 5>>), Broken(4))
                       @@ ("t6" :> Answered(6, "rivals", <<1>>))),
   Online(CalmScene, Tools(Answered(1, "owners", <<7>>), Broken(3), Answered(4, "fines", <<2>>))
                       @@ ("t2" :> Answered(2, "trade", <<3>>)))}

-----------------------------------------------------------------------------
VARIABLE focus   \* which part this behaviour is about

vars == <<focus, gatewayVars, snapshotVars, peerVars>>
\* The capabilities' answers come in two pairs, of the four there would be.
Init ==
  /\ focus \in {"acquisition", "snapshot", "strategy"}
  /\ GatewayInit /\ SnapshotInit /\ PeersInit
  /\ focus = "acquisition" => (held["c1"] = <<Nothing>>) = (Head(held["c2"]).rows = 0)
  /\ focus # "acquisition" => asked = CHOOSE a \in Searches : TRUE
  /\ focus # "acquisition" => held = [c \in Capabilities |-> CHOOSE a \in Sources[c] : TRUE]
  /\ focus # "snapshot" => setting = CHOOSE a \in Settings : TRUE
  /\ focus # "snapshot" => acquired = CHOOSE a \in Acquired : TRUE
  /\ focus # "snapshot" => inputs = CHOOSE a \in CallerInputs : TRUE
  /\ focus # "strategy" => world = Offline(CalmScene) /\ arm = "single"
Next ==
  \/ focus = "acquisition" /\ GatewayNext /\ UNCHANGED <<focus, snapshotVars, peerVars>>
  \/ focus = "snapshot" /\ SnapshotNext /\ UNCHANGED <<focus, gatewayVars, peerVars>>
  \/ focus = "strategy" /\ PeersNext /\ UNCHANGED <<focus, gatewayVars, snapshotVars>>
Acquisition == focus = "acquisition" /\ Progress /\ UNCHANGED <<focus, snapshotVars, peerVars>>
Spec == Init /\ [][Next]_vars /\ WF_vars(Acquisition)
=============================================================================
