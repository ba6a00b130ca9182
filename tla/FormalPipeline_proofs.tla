----------------------- MODULE FormalPipeline_proofs -----------------------
(***************************************************************************)
(* Proofs about FormalPipeline for every budget, policy, catalog of checks  *)
(* and report model.                                                        *)
(***************************************************************************)
EXTENDS FormalPipeline, TLAPS

BeforeInvestigation ==
  {"offered", "orchestrating", "collecting", "planning", "supplementing", "freezing",
   "granting"}
BeforeReporting == BeforeInvestigation \cup {"investigating", "reviewing"}
\* Stages in which every call of the acquisition has been accounted for.
AcquisitionSettled ==
  {"offered", "orchestrating", "planning", "freezing", "granting", "investigating",
   "reviewing", "writing"}
InvestigationSettled == {"reviewing", "writing"}

Spending == [requests : Nat, metered : Nat, recorded : Nat, unknown : Nat, unreported : Nat]
BudgetTypeOK ==
  /\ policy \in Policies /\ spent \in [Layer -> Spending] /\ charged \in [Layer -> Nat]

Committed(l) == spent[l].recorded + spent[l].unreported
Unused(l) == spent[l].requests = 0 /\ spent[l].recorded = 0 /\ spent[l].unreported = 0

\* A ledger commits what the provider counted, and knows of every remainder.
LedgerIsTrue(l) ==
  /\ policy.enforced => charged[l] <= Committed(l)
  /\ spent[l].unknown = 0 => spent[l].unreported = 0

\* What the ledgers commit together stays within the run's budget, because a layer
\* begins only when the one before it owes nothing: the limits of a ledger are made
\* from what the earlier ones recorded, which leaves their remainders out.
BudgetInv ==
  /\ BudgetTypeOK
  /\ \A l \in Layer : LedgerIsTrue(l)
  /\ policy.enforced =>
       Committed("acquisition") + Committed("investigation") + Committed("reporting")
         <= MaxTokens
  /\ spent["acquisition"].requests + spent["investigation"].requests
       + spent["reporting"].requests <= MaxRequests
  /\ stage \in BeforeInvestigation => Unused("investigation")
  /\ stage \in BeforeReporting => Unused("reporting")
  /\ stage \in AcquisitionSettled => spent["acquisition"].unreported = 0
  /\ stage \in InvestigationSettled /\ policy.enforced /\ reportAllowed =>
       spent["investigation"].unreported = 0

-----------------------------------------------------------------------------
\* A ledger's limits are the run's, less what the layers before it recorded.
LEMMA Limits ==
  ASSUME BudgetTypeOK
  PROVE  /\ TokensFor("acquisition") = MaxTokens /\ RequestsFor("acquisition") = MaxRequests
         /\ TokensFor("investigation") = MaxTokens - spent["acquisition"].recorded
         /\ RequestsFor("investigation") = MaxRequests - spent["acquisition"].requests
         /\ TokensFor("reporting")
              = MaxTokens - (spent["acquisition"].recorded + spent["investigation"].recorded)
         /\ RequestsFor("reporting")
              = MaxRequests - (spent["acquisition"].requests + spent["investigation"].requests)
<1>1. /\ Before("acquisition") = {} /\ Before("investigation") = {"acquisition"}
      /\ Before("reporting") = {"acquisition", "investigation"}
  BY DEF Before
<1>2. \A l \in Layer : spent[l].recorded \in Nat /\ spent[l].requests \in Nat
  BY DEF BudgetTypeOK, Spending
<1> QED
  BY <1>1, <1>2, PipeAssumption DEF TokensFor, RequestsFor, Recorded, Requests, Layer

\* A call of a ledger: one request more, commitments that grow by what was reserved
\* at most, and the ledger true again.
LEMMA CallEndsEffect ==
  ASSUME BudgetTypeOK, NEW l \in Layer, LedgerIsTrue(l), policy' = policy,
         NEW how \in {"known", "silent", "broken"}, CallEnds(l, how)
  PROVE  \E r \in 1 .. MaxReserve :
           /\ Affordable(l, r)
           /\ BudgetTypeOK' /\ LedgerIsTrue(l)'
           /\ \A k \in Layer \ {l} : spent'[k] = spent[k] /\ charged'[k] = charged[k]
           /\ spent'[l].requests = spent[l].requests + 1
           /\ policy.enforced => Committed(l)' <= Committed(l) + r
<1>0. PICK r \in 1 .. MaxReserve : \E t \in 1 .. r : \E u \in 0 .. t :
        Affordable(l, r) /\ (how # "broken" => u = 0) /\ Settle(l, r, t, how, u)
  BY DEF CallEnds
<1>1. PICK t \in 1 .. r : \E u \in 0 .. t :
        Affordable(l, r) /\ (how # "broken" => u = 0) /\ Settle(l, r, t, how, u)
  BY <1>0
<1>1a. PICK u \in 0 .. t :
        Affordable(l, r) /\ (how # "broken" => u = 0) /\ Settle(l, r, t, how, u)
  BY <1>1
<1> DEFINE s == spent[l]
           known == how = "known" \/ (how = "silent" /\ ~policy.enforced)
                      \/ (how = "broken" /\ u > 0)
           seen == CASE how = "known" -> t [] how = "broken" -> u
                     [] OTHER -> IF policy.enforced THEN 0 ELSE r
           held == ~known \/ how = "broken"
           new == [requests |-> s.requests + 1, metered |-> s.metered + (IF known THEN 1 ELSE 0),
                   recorded |-> s.recorded + seen,
                   unknown |-> s.unknown + (IF held THEN 1 ELSE 0),
                   unreported |-> s.unreported + (IF held THEN r - seen ELSE 0)]
<1>2. spent' = [spent EXCEPT ![l] = new] /\ charged' = [charged EXCEPT ![l] = @ + t]
  BY <1>1a DEF Settle
<1>3. r \in Nat /\ t \in Nat /\ u \in Nat /\ t <= r /\ u <= t
  BY <1>0, <1>1, <1>1a, PipeAssumption
<1>4. seen \in Nat /\ seen <= r
  BY <1>3
<1>5. (IF held THEN r - seen ELSE 0) \in Nat /\ (IF held THEN r - seen ELSE 0) + seen <= r
  BY <1>3, <1>4
<1>6. policy.enforced => t <= (IF held THEN r - seen ELSE 0) + seen
  BY <1>3
<1>7. s \in Spending
  BY DEF BudgetTypeOK
<1>8. ~held => (IF held THEN r - seen ELSE 0) = 0
  OBVIOUS
<1> HIDE DEF seen, known
<1>9. new \in Spending
  BY <1>4, <1>5, <1>7 DEF Spending
<1>10. BudgetTypeOK'
  BY <1>2, <1>3, <1>9 DEF BudgetTypeOK
<1>11. spent'[l] = new /\ charged'[l] = charged[l] + t /\ charged[l] \in Nat
  BY <1>2 DEF BudgetTypeOK
<1>12. /\ new.recorded = s.recorded + seen
       /\ new.unreported = s.unreported + (IF held THEN r - seen ELSE 0)
       /\ new.unknown = s.unknown + (IF held THEN 1 ELSE 0)
       /\ new.requests = s.requests + 1
  OBVIOUS
<1>13. s.recorded \in Nat /\ s.unreported \in Nat /\ s.unknown \in Nat
  BY <1>7 DEF Spending
<1> HIDE DEF new
<1>14. Committed(l)' = Committed(l) + seen + (IF held THEN r - seen ELSE 0)
  BY <1>4, <1>5, <1>11, <1>12, <1>13 DEF Committed
<1>15. LedgerIsTrue(l)'
  <2>1. policy'.enforced => charged'[l] <= Committed(l)'
    <3>1. Committed(l) \in Nat
      BY <1>13 DEF Committed
    <3> HIDE DEF held, s
    <3> QED
      BY <1>3, <1>4, <1>5, <1>6, <1>11, <1>14, <3>1 DEF LedgerIsTrue
  <2>2. spent'[l].unknown = 0 => spent'[l].unreported = 0
    BY <1>8, <1>11, <1>12, <1>13 DEF LedgerIsTrue
  <2> QED
    BY <2>1, <2>2 DEF LedgerIsTrue
<1>16. \A k \in Layer \ {l} : spent'[k] = spent[k] /\ charged'[k] = charged[k]
  BY <1>2 DEF BudgetTypeOK
<1>17. policy.enforced => Committed(l)' <= Committed(l) + r
  <2>1. Committed(l) \in Nat
    BY <1>13 DEF Committed
  <2> HIDE DEF held, s
  <2> QED
    BY <1>3, <1>4, <1>5, <1>14, <2>1
<1> QED
  BY <1>0, <1>1a, <1>10, <1>11, <1>12, <1>15, <1>16, <1>17

-----------------------------------------------------------------------------
\* A step that buys nothing keeps the budget, if the stage it moves to asks nothing new.
LEMMA NothingBought ==
  ASSUME BudgetInv, policy' = policy, spent' = spent, charged' = charged,
         stage' \in BeforeInvestigation => Unused("investigation"),
         stage' \in BeforeReporting => Unused("reporting"),
         stage' \in AcquisitionSettled => spent["acquisition"].unreported = 0,
         stage' \in InvestigationSettled /\ policy.enforced /\ reportAllowed' =>
           spent["investigation"].unreported = 0
  PROVE  BudgetInv'
  BY DEF BudgetInv, BudgetTypeOK, LedgerIsTrue, Committed, Unused

\* A call of a layer that starts where the earlier layers owe nothing, and that the
\* later ones have not followed, keeps the run within its budget.
LEMMA CallStaysWithin ==
  ASSUME BudgetInv, NEW l \in Layer, policy' = policy,
         NEW how \in {"known", "silent", "broken"}, CallEnds(l, how),
         l # "acquisition" => spent["acquisition"].unreported = 0,
         l # "reporting" => Unused("reporting"),
         l = "acquisition" => Unused("investigation"),
         l = "reporting" /\ policy.enforced => spent["investigation"].unreported = 0
  PROVE  /\ BudgetTypeOK' /\ \A k \in Layer : LedgerIsTrue(k)'
         /\ policy.enforced =>
              Committed("acquisition")' + Committed("investigation")' + Committed("reporting")'
                <= MaxTokens
         /\ spent'["acquisition"].requests + spent'["investigation"].requests
              + spent'["reporting"].requests <= MaxRequests
         /\ \A k \in Layer \ {l} : spent'[k] = spent[k]
<1>1. BudgetTypeOK /\ LedgerIsTrue(l)
  BY DEF BudgetInv
<1>2. PICK r \in 1 .. MaxReserve :
           /\ Affordable(l, r)
           /\ BudgetTypeOK' /\ LedgerIsTrue(l)'
           /\ \A k \in Layer \ {l} : spent'[k] = spent[k] /\ charged'[k] = charged[k]
           /\ spent'[l].requests = spent[l].requests + 1
           /\ policy.enforced => Committed(l)' <= Committed(l) + r
  BY <1>1, CallEndsEffect
<1>3. \A k \in Layer : LedgerIsTrue(k)'
  BY <1>2 DEF BudgetInv, LedgerIsTrue, Committed
<1>4. \A k \in Layer \ {l} : Committed(k)' = Committed(k)
  BY <1>2 DEF Committed
<1>5. \A k \in Layer : /\ spent[k].recorded \in Nat /\ spent[k].unreported \in Nat
                       /\ spent[k].requests \in Nat /\ Committed(k) \in Nat
                       /\ spent'[k].requests \in Nat /\ Committed(k)' \in Nat
  BY <1>1, <1>2 DEF BudgetTypeOK, Spending, Committed
<1>6. r \in Nat
  BY PipeAssumption
<1>7. /\ spent[l].requests < RequestsFor(l)
      /\ policy.enforced => Committed(l) + r <= TokensFor(l)
  BY <1>2 DEF Affordable, Committed
<1>8. CASE l = "acquisition"
  <2>1. Committed("investigation") = 0 /\ Committed("reporting") = 0
        /\ spent["investigation"].requests = 0 /\ spent["reporting"].requests = 0
    BY <1>8 DEF Unused, Committed
  <2>2. Committed("investigation")' = 0 /\ Committed("reporting")' = 0
        /\ spent'["investigation"].requests = 0 /\ spent'["reporting"].requests = 0
    BY <1>2, <1>4, <1>8, <2>1 DEF Layer
  <2> QED
    BY <1>1, <1>2, <1>3, <1>5, <1>6, <1>7, <1>8, <2>2, Limits, PipeAssumption DEF Layer
<1>9. CASE l = "investigation"
  <2>1. Committed("reporting") = 0 /\ spent["reporting"].requests = 0
        /\ Committed("acquisition") = spent["acquisition"].recorded
    BY <1>5, <1>9 DEF Unused, Committed, Layer
  <2>2. Committed("reporting")' = 0 /\ spent'["reporting"].requests = 0
        /\ Committed("acquisition")' = spent["acquisition"].recorded
        /\ spent'["acquisition"].requests = spent["acquisition"].requests
    BY <1>2, <1>4, <1>9, <2>1 DEF Layer
  <2> QED
    BY <1>1, <1>2, <1>3, <1>5, <1>6, <1>7, <1>9, <2>2, Limits, PipeAssumption DEF Layer
<1>10. CASE l = "reporting"
  <2>1. /\ Committed("acquisition") = spent["acquisition"].recorded
        /\ policy.enforced => Committed("investigation") = spent["investigation"].recorded
    BY <1>5, <1>10 DEF Committed, Layer
  <2>2. /\ Committed("acquisition")' = spent["acquisition"].recorded
        /\ policy.enforced => Committed("investigation")' = spent["investigation"].recorded
        /\ spent'["acquisition"].requests = spent["acquisition"].requests
        /\ spent'["investigation"].requests = spent["investigation"].requests
    BY <1>2, <1>4, <1>10, <2>1 DEF Layer
  <2> QED
    BY <1>1, <1>2, <1>3, <1>5, <1>6, <1>7, <1>10, <2>2, Limits, PipeAssumption DEF Layer
<1> QED
  BY <1>8, <1>9, <1>10 DEF Layer

\* At first nothing is spent.
LEMMA InitBudget == PipeInit => BudgetInv
  BY PipeAssumption
  DEF PipeInit, BudgetInv, BudgetTypeOK, Spending, LedgerIsTrue, Committed, Unused, Layer,
      BeforeInvestigation, BeforeReporting, AcquisitionSettled, InvestigationSettled

-----------------------------------------------------------------------------
(* One lemma per action, or per group of actions that buy nothing. *)

\* A failed or cancelled run asks nothing of its ledgers any more.
LEMMA EndingKeepsBudget ==
  ASSUME BudgetInv, stage' \in {"failed", "cancelled", "stored"},
         policy' = policy, spent' = spent, charged' = charged
  PROVE  BudgetInv'
  BY NothingBought
  DEF BeforeInvestigation, BeforeReporting, AcquisitionSettled, InvestigationSettled

\* A failed acquisition ends the run.
LEMMA AcquisitionFailedStep == ASSUME BudgetInv, AcquisitionFailed PROVE BudgetInv'
  BY EndingKeepsBudget DEF AcquisitionFailed, FailWith

\* So does a failed investigation.
LEMMA InvestigationFailedStep == ASSUME BudgetInv, InvestigationFailed PROVE BudgetInv'
  BY EndingKeepsBudget DEF InvestigationFailed, FailWith

\* Before the investigation a stage follows the other; a layer that owes anything
\* goes no further.
LEMMA AcquisitionStep ==
  ASSUME BudgetInv,
         Begin \/ Orchestrate \/ ContextReturns \/ PlanSupplement \/ SupplementReturns
           \/ Freeze \/ AcquisitionFails \/ Grant
  PROVE  BudgetInv'
<1>1. CASE Begin
  <2>1. CASE Routed
    BY <1>1, <2>1, NothingBought
    DEF Begin, Advance, BudgetInv, BeforeInvestigation, BeforeReporting, AcquisitionSettled,
        InvestigationSettled
  <2>2. CASE ~Routed
    BY <1>1, <2>2, EndingKeepsBudget DEF Begin, Advance
  <2> QED
    BY <2>1, <2>2
<1>2. CASE Orchestrate
  <2>1. PICK next \in {"reviewing", "failed"} : Advance(next)
    BY <1>2 DEF Orchestrate
  <2>2. /\ stage = "orchestrating" /\ stage' = next /\ policy' = policy /\ spent' = spent
        /\ charged' = charged
    BY <1>2, <2>1 DEF Orchestrate, Advance
  <2> QED
    BY <2>1, <2>2, NothingBought
    DEF BudgetInv, BeforeInvestigation, BeforeReporting, AcquisitionSettled,
        InvestigationSettled, Unused
<1>3. CASE ContextReturns
  <2>1. CASE Complete("acquisition")
    BY <1>3, <2>1, NothingBought
    DEF ContextReturns, Advance, Complete, BudgetInv, LedgerIsTrue, Layer, BeforeInvestigation,
        BeforeReporting, AcquisitionSettled, InvestigationSettled
  <2> QED
    BY <1>3, <2>1, AcquisitionFailedStep DEF ContextReturns
<1>4. CASE PlanSupplement
  <2>1. PICK tasks \in BOOLEAN :
          IF tasks /\ ~policy.deepsearch THEN AcquisitionFailed
          ELSE /\ Advance(IF tasks THEN "supplementing" ELSE "freezing")
               /\ UNCHANGED sources /\ UNCHANGED investigationVars
    BY <1>4 DEF PlanSupplement
  <2>2. CASE AcquisitionFailed
    BY <2>2, AcquisitionFailedStep
  <2>3. CASE Advance(IF tasks THEN "supplementing" ELSE "freezing")
    BY <1>4, <2>3, NothingBought
    DEF PlanSupplement, Advance, BudgetInv, BeforeInvestigation, BeforeReporting,
        AcquisitionSettled, InvestigationSettled
  <2> QED
    BY <2>1, <2>2, <2>3
<1>5. CASE SupplementReturns
  <2>1. CASE Complete("acquisition")
    BY <1>5, <2>1, NothingBought
    DEF SupplementReturns, Advance, Complete, BudgetInv, LedgerIsTrue, Layer,
        BeforeInvestigation, BeforeReporting, AcquisitionSettled, InvestigationSettled
  <2> QED
    BY <1>5, <2>1, AcquisitionFailedStep DEF SupplementReturns
<1>6. CASE Freeze
  BY <1>6, NothingBought
  DEF Freeze, Advance, BudgetInv, BeforeInvestigation, BeforeReporting, AcquisitionSettled,
      InvestigationSettled
<1>7. CASE AcquisitionFails
  BY <1>7, AcquisitionFailedStep DEF AcquisitionFails
<1>8. CASE Grant
  <2>1. CASE stage' = "investigating"
    <3>1. stage = "granting" /\ policy' = policy /\ spent' = spent /\ charged' = charged
      BY <1>8 DEF Grant, Advance, FailWith
    <3> QED
      BY <2>1, <3>1, NothingBought
      DEF BudgetInv, BeforeInvestigation, BeforeReporting, AcquisitionSettled,
          InvestigationSettled
  <2>2. CASE stage' # "investigating"
    BY <1>8, <2>2, EndingKeepsBudget DEF Grant, Advance, FailWith
  <2> QED
    BY <2>1, <2>2
<1> QED
  BY <1>1, <1>2, <1>3, <1>4, <1>5, <1>6, <1>7, <1>8

\* The agents' calls.
LEMMA CallStep ==
  ASSUME BudgetInv, NEW l \in {"acquisition", "investigation"}, Call(l) PROVE BudgetInv'
<1>1. /\ policy' = policy /\ stage' = stage /\ reportAllowed' = reportAllowed
      /\ \/ l = "acquisition" /\ stage \in {"collecting", "supplementing"}
         \/ l = "investigation" /\ stage = "investigating"
  BY DEF Call, investigationVars
<1>2. CASE \E how \in {"known", "silent", "broken"} : CallEnds(l, how)
  <2>1. PICK how \in {"known", "silent", "broken"} : CallEnds(l, how)
    BY <1>2
  <2>2. /\ BudgetTypeOK' /\ \A k \in Layer : LedgerIsTrue(k)'
        /\ policy.enforced =>
             Committed("acquisition")' + Committed("investigation")' + Committed("reporting")'
               <= MaxTokens
        /\ spent'["acquisition"].requests + spent'["investigation"].requests
             + spent'["reporting"].requests <= MaxRequests
        /\ \A k \in Layer \ {l} : spent'[k] = spent[k]
    BY <1>1, <2>1, CallStaysWithin
    DEF BudgetInv, Layer, BeforeInvestigation, BeforeReporting, AcquisitionSettled
  <2> QED
    BY <1>1, <2>2
    DEF BudgetInv, Unused, Layer, BeforeInvestigation, BeforeReporting, AcquisitionSettled,
        InvestigationSettled
<1>3. CASE UNCHANGED <<spent, charged>>
  BY <1>1, <1>3, NothingBought DEF BudgetInv
<1> QED
  BY <1>2, <1>3 DEF Call

\* An investigation that owes something leaves the report model out, when tokens
\* are enforced.
LEMMA ReturnedStep ==
  ASSUME BudgetInv, stage = "investigating", NEW isPartial, Returned(isPartial)
  PROVE  BudgetInv'
<1> DEFINE allowed == ~(isPartial /\ (policy.mode = "single" \/ ~Complete("investigation")))
<1>1. CASE ~Complete("investigation") /\ policy.enforced /\ allowed
  BY <1>1, EndingKeepsBudget DEF Returned, FailWith
<1>2. CASE ~(~Complete("investigation") /\ policy.enforced /\ allowed)
  <2>1. /\ stage' = "reviewing" /\ reportAllowed' = allowed /\ policy' = policy
        /\ spent' = spent /\ charged' = charged
    BY <1>2 DEF Returned, Advance
  <2>2. Complete("investigation") => spent["investigation"].unreported = 0
    BY DEF Complete, BudgetInv, LedgerIsTrue, Layer
  <2> QED
    BY <1>2, <2>1, <2>2, NothingBought
    DEF BudgetInv, BeforeInvestigation, BeforeReporting, AcquisitionSettled
<1> QED
  BY <1>1, <1>2

\* What is submitted and how the investigators end costs nothing by itself.
LEMMA InvestigationStep ==
  ASSUME BudgetInv,
         Submit \/ (\E timedOut \in BOOLEAN : Finish(timedOut)) \/ TeamReturns
           \/ InvestigationFails
  PROVE  BudgetInv'
<1>1. CASE Submit
  BY <1>1, NothingBought DEF Submit, Advance, BudgetInv, InvestigationSettled
<1>2. ASSUME NEW timedOut \in BOOLEAN, Finish(timedOut) PROVE BudgetInv'
  <2>1. stage = "investigating" /\ (InvestigationFailed \/ \E p : Returned(p))
    BY <1>2 DEF Finish
  <2> QED
    BY <2>1, InvestigationFailedStep, ReturnedStep
<1>3. CASE TeamReturns
  <2>1. stage = "investigating" /\ \E p : Returned(p)
    BY <1>3 DEF TeamReturns
  <2> QED
    BY <2>1, ReturnedStep
<1>4. CASE InvestigationFails
  BY <1>4, InvestigationFailedStep DEF InvestigationFails
<1> QED
  BY <1>1, <1>2, <1>3, <1>4

\* The report model buys only what acquisition and investigation left.
LEMMA ReportCall ==
  ASSUME BudgetInv, stage = "writing", HasModel, policy' = policy,
         reportAllowed' = reportAllowed, stage' \in {"writing", "publishing"},
         NEW how \in {"known", "silent", "broken"}, CallEnds("reporting", how)
  PROVE  BudgetInv'
<1>1. /\ spent["acquisition"].unreported = 0
      /\ policy.enforced => spent["investigation"].unreported = 0
  BY DEF BudgetInv, AcquisitionSettled, InvestigationSettled, HasModel
<1>2. /\ BudgetTypeOK' /\ \A k \in Layer : LedgerIsTrue(k)'
      /\ policy.enforced =>
           Committed("acquisition")' + Committed("investigation")' + Committed("reporting")'
             <= MaxTokens
      /\ spent'["acquisition"].requests + spent'["investigation"].requests
           + spent'["reporting"].requests <= MaxRequests
      /\ \A k \in Layer \ {"reporting"} : spent'[k] = spent[k]
  BY <1>1, CallStaysWithin DEF Layer
<1> QED
  BY <1>1, <1>2
  DEF BudgetInv, Unused, Layer, BeforeInvestigation, BeforeReporting, AcquisitionSettled,
      InvestigationSettled

\* From the assembled result to the stored report only the report model buys.
LEMMA ReportingStep ==
  ASSUME BudgetInv,
         Prepare \/ WriteWithoutModel \/ FallBack \/ (\E d \in Drafts : Draft(d)) \/ Publish
           \/ ReportingFails \/ Cancel
  PROVE  BudgetInv'
<1>1. CASE Prepare
  BY <1>1, NothingBought
  DEF Prepare, investigationVars, BudgetInv, BeforeInvestigation, BeforeReporting,
      AcquisitionSettled, InvestigationSettled
<1>2. ASSUME stage = "writing", stage' = "publishing", policy' = policy, NothingSpent
      PROVE  BudgetInv'
  BY <1>2, NothingBought
  DEF NothingSpent, BeforeInvestigation, BeforeReporting, AcquisitionSettled,
      InvestigationSettled
<1>3. CASE WriteWithoutModel
  BY <1>2, <1>3 DEF WriteWithoutModel, Written
<1>4. CASE FallBack
  <2>1. /\ stage = "writing" /\ HasModel /\ stage' = "publishing" /\ policy' = policy
        /\ reportAllowed' = reportAllowed
        /\ NothingSpent \/ CallEnds("reporting", "broken")
    BY <1>4 DEF FallBack, Written, investigationVars
  <2> QED
    BY <1>2, <2>1, ReportCall
<1>5. ASSUME NEW d \in Drafts, Draft(d) PROVE BudgetInv'
  <2>1. PICK how \in {"known", "silent"} : CallEnds("reporting", how)
    BY <1>5 DEF Draft
  <2>2. /\ stage = "writing" /\ HasModel /\ stage' \in {"writing", "publishing"}
        /\ policy' = policy /\ reportAllowed' = reportAllowed
    BY <1>5 DEF Draft, Written, investigationVars
  <2> QED
    BY <2>1, <2>2, ReportCall
<1>6. CASE Publish
  BY <1>6, EndingKeepsBudget DEF Publish
<1>7. CASE ReportingFails
  BY <1>7, EndingKeepsBudget DEF ReportingFails, FailWith
<1>8. CASE Cancel
  BY <1>8, EndingKeepsBudget DEF Cancel
<1> QED
  BY <1>1, <1>3, <1>4, <1>5, <1>6, <1>7, <1>8

-----------------------------------------------------------------------------
\* The invariant of the ledgers of one run.
THEOREM BudgetInvariant == PipeSpec => []BudgetInv
<1>1. BudgetInv /\ [PipeNext]_pipeVars => BudgetInv'
  <2> SUFFICES ASSUME BudgetInv, [PipeNext]_pipeVars PROVE BudgetInv'
    OBVIOUS
  <2>1. CASE Begin \/ Orchestrate \/ ContextReturns \/ PlanSupplement \/ SupplementReturns
               \/ Freeze \/ AcquisitionFails \/ Grant
    BY <2>1, AcquisitionStep
  <2>2. ASSUME NEW l \in {"acquisition", "investigation"}, Call(l) PROVE BudgetInv'
    BY <2>2, CallStep
  <2>3. CASE Submit \/ (\E timedOut \in BOOLEAN : Finish(timedOut)) \/ TeamReturns
               \/ InvestigationFails
    BY <2>3, InvestigationStep
  <2>4. CASE Prepare \/ WriteWithoutModel \/ FallBack \/ (\E d \in Drafts : Draft(d))
               \/ Publish \/ ReportingFails \/ Cancel
    BY <2>4, ReportingStep
  <2>5. CASE UNCHANGED pipeVars
    BY <2>5, NothingBought DEF pipeVars, BudgetInv
  <2> QED
    BY <2>1, <2>2, <2>3, <2>4, <2>5 DEF PipeNext
<1> QED
  BY InitBudget, <1>1, PTL DEF PipeSpec

\* For every budget and every division of it over the layers: what the provider
\* counted, seen or not, stays within the run's tokens when they are enforced, and
\* no run sends more requests than it may.
THEOREM WithinRunBudget == PipeSpec => []RunWithinBudget
<1>1. BudgetInv => RunWithinBudget
  <2> SUFFICES ASSUME BudgetInv PROVE RunWithinBudget
    OBVIOUS
  <2>1. \A l \in Layer : /\ charged[l] \in Nat /\ Committed(l) \in Nat
                         /\ spent[l].requests \in Nat
    BY DEF BudgetInv, BudgetTypeOK, Spending, Committed
  <2>2. policy.enforced => Sum(charged) <= MaxTokens
    BY <2>1, PipeAssumption DEF BudgetInv, LedgerIsTrue, Sum, Layer
  <2>3. Requests(Layer) <= MaxRequests
    BY <2>1 DEF BudgetInv, Requests, Layer
  <2> QED
    BY <2>2, <2>3 DEF RunWithinBudget
<1> QED
  BY <1>1, BudgetInvariant, PTL

-----------------------------------------------------------------------------
(* What goes out is whole. *)

Texts == {"none", "model"}
Statuses == {"complete", "partial", "unavailable"}
Section == [refs : SUBSET Known, numbers : {Facts[s].numbers : s \in Sections},
            analysis : Texts, status : Statuses, missing : BOOLEAN]
KeepsFacts ==
  \A s \in Sections : Facts[s].refs \subseteq report[s].refs
                      /\ report[s].numbers = Facts[s].numbers
Whole(narrated) ==
  /\ \A r \in Risks : \E n \in narrated : n.id = r.id /\ n.evidence = r.evidence
  /\ \A n \in narrated : \E r \in Risks : n.id = r.id /\ n.evidence = r.evidence

\* A single investigator that did not finish is partial and leaves the model out for
\* good; a draft that is not accepted leaves no trace in the report.
WholeInv ==
  /\ accepted \subseteq Checks
  /\ stage = "orchestrating" => ~policy.formal
  /\ stage \in {"reviewing", "writing", "publishing", "stored"} /\ policy.formal =>
       /\ accepted = Checks \/ partial
       /\ partial /\ policy.mode = "single" => ~reportAllowed
  /\ ~reportAllowed => spent["reporting"].requests = 0
  /\ report \in [Sections -> Section] /\ KeepsFacts
  /\ stage \in {"publishing", "stored"} => Whole(risks)

\* Without an accepted draft each risk is published as it was reviewed.
LEMMA UnnarratedIsWhole == Whole(Unnarrated)
<1>1. ASSUME NEW n \in Unnarrated
      PROVE  \E r \in Risks : n.id = r.id /\ n.evidence = r.evidence
  BY DEF Unnarrated
<1>2. ASSUME NEW r \in Risks
      PROVE  \E n \in Unnarrated : n.id = r.id /\ n.evidence = r.evidence
  <2> DEFINE n == [id |-> r.id, evidence |-> r.evidence, case |-> "none"]
  <2>1. n \in Unnarrated
    BY DEF Unnarrated
  <2>2. n.id = r.id /\ n.evidence = r.evidence
    OBVIOUS
  <2> HIDE DEF n
  <2> QED
    BY <2>1, <2>2
<1> QED
  BY <1>1, <1>2 DEF Whole

\* With one, too: the draft names every reviewed risk, and none with other evidence.
LEMMA NarratedIsWhole ==
  ASSUME NEW d, RisksAccepted(d) PROVE Whole(Narrated(d))
<1>1. \A n \in d.risks : \E r \in Risks : n.id = r.id /\ n.claim.refs = r.evidence
  BY DEF RisksAccepted
<1>2. ASSUME NEW m \in Narrated(d)
      PROVE  \E r \in Risks : m.id = r.id /\ m.evidence = r.evidence
  <2>1. PICK n \in d.risks : m = [id |-> n.id, evidence |-> n.claim.refs, case |-> n.case]
    BY DEF Narrated
  <2>2. m.id = n.id /\ m.evidence = n.claim.refs
    BY <2>1
  <2> QED
    BY <1>1, <2>2
<1>3. ASSUME NEW r \in Risks
      PROVE  \E m \in Narrated(d) : m.id = r.id /\ m.evidence = r.evidence
  <2>1. r.id \in {n.id : n \in d.risks}
    <3>1. r.id \in {t.id : t \in Risks}
      OBVIOUS
    <3> QED
      BY <3>1, Zenon DEF RisksAccepted
  <2>2. PICK n \in d.risks : n.id = r.id
    BY <2>1
  <2>3. PICK t \in Risks : n.id = t.id /\ n.claim.refs = t.evidence
    BY <1>1
  <2>4. t = r
    BY <2>2, <2>3, WritingAssumption
  <2> DEFINE m == [id |-> n.id, evidence |-> n.claim.refs, case |-> n.case]
  <2>5. m \in Narrated(d)
    BY DEF Narrated
  <2>6. m.id = r.id /\ m.evidence = r.evidence
    BY <2>2, <2>3, <2>4
  <2> HIDE DEF m
  <2> QED
    BY <2>5, <2>6
<1> QED
  BY <1>2, <1>3 DEF Whole

\* A section with another status is a section still.
LEMMA Marked ==
  ASSUME NEW q \in Section, NEW status \in Statuses,
         NEW w, w = [q EXCEPT !.status = status, !.missing = TRUE]
  PROVE  w \in Section /\ w.refs = q.refs /\ w.numbers = q.numbers
  BY DEF Section

\* An accepted draft adds evidence that is known and takes nothing away.
LEMMA AppliedKeepsFacts ==
  ASSUME report \in [Sections -> Section], KeepsFacts, NEW d, Accepted(d, report),
         report' = Applied(d, report)
  PROVE  report' \in [Sections -> Section] /\ KeepsFacts'
<1>1. ASSUME NEW s \in Sections
      PROVE  /\ report'[s] \in Section
             /\ report[s].refs \subseteq report'[s].refs
             /\ report'[s].numbers = report[s].numbers
  <2> DEFINE claim == d.analyses[s]
             refs == report[s].refs \cup claim.refs
             text == IF claim.said THEN "model" ELSE report[s].analysis
  <2>1. SectionAccepted(s, claim, report, d.suggested)
    BY DEF Accepted
  <2>2. report[s] \in Section
    OBVIOUS
  <2>3. CASE report[s].refs = {} /\ claim.refs = {}
    BY <2>2, <2>3 DEF Applied
  <2>4. CASE ~(report[s].refs = {} /\ claim.refs = {})
    <3>1. report[s].refs \subseteq Known /\ report[s].analysis \in Texts
      BY <2>2 DEF Section
    <3>2. refs \in SUBSET Known
      BY <2>1, <2>4, <3>1 DEF SectionAccepted, Grounded
    <3>3. text \in Texts
      BY <3>1 DEF Texts
    <3>4. report'[s] = [report[s] EXCEPT !.refs = refs, !.analysis = text]
      BY <2>4 DEF Applied
    <3>5. report[s].refs \subseteq refs
      OBVIOUS
    <3> HIDE DEF text, refs, claim
    <3> QED
      <4> DEFINE q == report[s]
                 w == report'[s]
      <4>1. q \in Section /\ w = [q EXCEPT !.refs = refs, !.analysis = text]
        BY <2>2, <3>4
      <4> HIDE DEF q, w
      <4>2. w \in Section /\ w.refs = refs /\ w.numbers = q.numbers
        BY <3>2, <3>3, <4>1 DEF Section
      <4> QED
        BY <3>5, <4>2 DEF q, w
  <2> QED
    BY <2>3, <2>4
<1>2. report' = [s \in Sections |-> report'[s]]
  BY DEF Applied
<1>3. report' \in [Sections -> Section]
  BY <1>1, <1>2
<1> QED
  BY <1>1, <1>3 DEF KeepsFacts

\* The fallback changes what is said of a section, never what it holds.
LEMMA FallbackKeepsFacts ==
  ASSUME report \in [Sections -> Section], KeepsFacts, report' = Fallback(report)
  PROVE  report' \in [Sections -> Section] /\ KeepsFacts'
<1>1. ASSUME NEW s \in Sections
      PROVE  /\ report'[s] \in Section
             /\ report'[s].refs = report[s].refs
             /\ report'[s].numbers = report[s].numbers
  <2> DEFINE status == IF report[s].refs = {} THEN "unavailable" ELSE "partial"
  <2>1. report[s] \in Section
    OBVIOUS
  <2>2. status \in Statuses
    BY DEF Statuses
  <2>3. report'[s] = [report[s] EXCEPT !.status = status, !.missing = TRUE]
    BY DEF Fallback
  <2> DEFINE q == report[s]
             w == report'[s]
  <2>4. q \in Section /\ w = [q EXCEPT !.status = status, !.missing = TRUE]
    BY <2>1, <2>3
  <2> HIDE DEF status, q, w
  <2>5. w \in Section /\ w.refs = q.refs /\ w.numbers = q.numbers
    BY <2>2, <2>4, Marked
  <2> QED
    BY <2>5 DEF q, w
<1>2. report' = [s \in Sections |-> report'[s]]
  BY DEF Fallback
<1>3. report' \in [Sections -> Section]
  BY <1>1, <1>2
<1> QED
  BY <1>1, <1>3 DEF KeepsFacts

\* A run starts from the facts, with nothing accepted and nothing spent.
LEMMA InitWhole == PipeInit => WholeInv
<1> SUFFICES ASSUME PipeInit PROVE WholeInv
  OBVIOUS
<1>1. /\ stage = "offered" /\ accepted = {} /\ reportAllowed = TRUE /\ report = Facts
  BY DEF PipeInit
<1>2. report \in [Sections -> Section]
  BY <1>1, PipeAssumption DEF Section, Texts, Statuses
<1>3. KeepsFacts
  BY <1>1 DEF KeepsFacts
<1> QED
  BY <1>1, <1>2, <1>3 DEF WholeInv

\* A step that changes neither what was accepted nor what is written, and reaches
\* the report only from within it or outside a formal run.
LEMMA WholeKept ==
  ASSUME WholeInv,
         UNCHANGED <<policy, accepted, partial, reportAllowed, report, risks>>,
         ~reportAllowed => spent'["reporting"].requests = spent["reporting"].requests,
         stage' = "orchestrating" => stage = "orchestrating" \/ ~policy.formal,
         stage' \in {"reviewing", "writing", "publishing", "stored"} =>
           stage \in {"reviewing", "writing", "publishing", "stored"} \/ ~policy.formal,
         stage' \in {"publishing", "stored"} => stage \in {"publishing", "stored"}
  PROVE  WholeInv'
<1>1. KeepsFacts'
  BY DEF WholeInv, KeepsFacts
<1>2. stage' \in {"publishing", "stored"} => Whole(risks)'
  BY DEF WholeInv, Whole
<1> QED
  BY <1>1, <1>2 DEF WholeInv

\* Up to the grant of the investigation, and after the report, nothing is decided.
LEMMA QuietStep ==
  ASSUME WholeInv,
         \/ Begin \/ Orchestrate \/ ContextReturns \/ PlanSupplement \/ SupplementReturns
         \/ Freeze \/ AcquisitionFails \/ Grant \/ InvestigationFails \/ InvestigationFailed
         \/ Prepare \/ Publish \/ ReportingFails \/ Cancel
  PROVE  WholeInv'
<1> USE DEF Advance, FailWith, investigationVars, reportVars
<1>1. CASE Begin
  BY <1>1, WholeKept DEF Begin, Routed
<1>2. CASE Orchestrate
  <2>1. ~policy.formal
    BY <1>2 DEF Orchestrate, WholeInv
  <2> QED
    BY <1>2, <2>1, WholeKept DEF Orchestrate
<1>3. CASE ContextReturns \/ SupplementReturns \/ AcquisitionFails
  BY <1>3, WholeKept DEF ContextReturns, SupplementReturns, AcquisitionFails, AcquisitionFailed
<1>4. CASE PlanSupplement
  BY <1>4, WholeKept DEF PlanSupplement, AcquisitionFailed
<1>5. CASE Freeze
  BY <1>5, WholeKept DEF Freeze
<1>6. CASE Grant
  BY <1>6, WholeKept DEF Grant
<1>7. CASE InvestigationFails \/ InvestigationFailed
  BY <1>7, WholeKept DEF InvestigationFails, InvestigationFailed
<1>8. CASE Prepare
  BY <1>8, WholeKept DEF Prepare
<1>9. CASE Publish
  BY <1>9, WholeKept DEF Publish
<1>10. CASE ReportingFails
  BY <1>10, WholeKept DEF ReportingFails
<1>11. CASE Cancel
  BY <1>11, WholeKept DEF Cancel
<1> QED
  BY <1>1, <1>2, <1>3, <1>4, <1>5, <1>6, <1>7, <1>8, <1>9, <1>10, <1>11

\* An investigation returns with every check, or says that it is partial; then a
\* single investigator leaves the report model out, which has bought nothing yet.
LEMMA ReturnedIsWhole ==
  ASSUME WholeInv, BudgetInv, stage = "investigating", NEW p \in BOOLEAN,
         accepted' \subseteq Checks, accepted' = Checks \/ p, Returned(p)
  PROVE  WholeInv'
<1> DEFINE allowed == ~(p /\ (policy.mode = "single" \/ ~Complete("investigation")))
<1>1. /\ policy' = policy /\ spent' = spent /\ report' = report /\ risks' = risks
      /\ \/ /\ stage' = "failed" /\ partial' = partial /\ reportAllowed' = reportAllowed
         \/ stage' = "reviewing" /\ partial' = p /\ reportAllowed' = allowed
  BY DEF Returned, FailWith, Advance, reportVars
<1>2. spent["reporting"].requests = 0
  BY DEF BudgetInv, BeforeReporting, Unused
<1>3. KeepsFacts' /\ report' \in [Sections -> Section]
  BY <1>1 DEF WholeInv, KeepsFacts
<1>4. stage' = "reviewing" =>
        (accepted' = Checks \/ partial') /\ (partial' /\ policy'.mode = "single" => ~reportAllowed')
  BY <1>1
<1> HIDE DEF allowed
<1> QED
  BY <1>1, <1>2, <1>3, <1>4 DEF WholeInv

\* What the investigators submit and how they end.
LEMMA InvestigationIsWhole ==
  ASSUME WholeInv, BudgetInv,
         Submit \/ (\E timedOut \in BOOLEAN : Finish(timedOut)) \/ TeamReturns
  PROVE  WholeInv'
<1>1. CASE Submit
  <2>1. /\ stage = "investigating" /\ stage' = stage /\ accepted' \subseteq Checks
        /\ UNCHANGED <<policy, partial, reportAllowed, report, risks, spent>>
    BY <1>1 DEF Submit, Advance, reportVars, WholeInv
  <2>2. KeepsFacts'
    BY <2>1 DEF WholeInv, KeepsFacts
  <2> QED
    BY <2>1, <2>2 DEF WholeInv
<1>2. ASSUME NEW timedOut \in BOOLEAN, Finish(timedOut) PROVE WholeInv'
  <2> DEFINE missing == Checks \ accepted
             fill == ~policy.demo /\ missing # {} /\ ~policy.scripted
             checked == selfChecked \/ fill
             p == policy.demo /\ (timedOut \/ missing # {} \/ ~selfChecked)
  <2>1. CASE InvestigationFailed
    BY <2>1, QuietStep
  <2>2. CASE ~InvestigationFailed
    <3>1. /\ stage = "investigating" /\ Returned(p)
          /\ accepted' = IF fill THEN Checks ELSE accepted
          /\ policy.demo \/ ~(missing # {} /\ policy.scripted)
      BY <1>2, <2>2 DEF Finish
    <3>2. accepted \subseteq Checks
      BY DEF WholeInv
    <3>3. accepted' \subseteq Checks /\ (accepted' = Checks \/ (policy.demo /\ missing # {}))
      BY <3>1, <3>2
    <3>4. accepted' = Checks \/ (policy.demo /\ (timedOut \/ missing # {} \/ ~selfChecked))
      BY <3>3
    <3>5. PICK q \in BOOLEAN : q = p
      BY Zenon
    <3> HIDE DEF p, fill, missing
    <3>6. accepted' = Checks \/ q
      BY <3>4, <3>5 DEF p, missing
    <3>7. Returned(q)
      BY <3>1, <3>5
    <3> QED
      BY <3>1, <3>3, <3>6, <3>7, ReturnedIsWhole
  <2> QED
    BY <2>1, <2>2
<1>3. CASE TeamReturns
  <2>1. stage = "investigating"
    BY <1>3 DEF TeamReturns
  <2>2. CASE accepted' = Checks /\ Returned(FALSE)
    BY <2>1, <2>2, ReturnedIsWhole
  <2>3. CASE accepted' \in SUBSET Checks /\ Returned(TRUE)
    BY <2>1, <2>3, ReturnedIsWhole
  <2> QED
    BY <1>3, <2>2, <2>3 DEF TeamReturns
<1> QED
  BY <1>1, <1>2, <1>3

\* The report is written from the facts, with the model's text or without it.
LEMMA WritingIsWhole ==
  ASSUME WholeInv, WriteWithoutModel \/ FallBack \/ (\E d \in Drafts : Draft(d))
  PROVE  WholeInv'
<1>1. ASSUME NEW ns, Whole(ns), NEW r, r \in [Sections -> Section], report' = r, KeepsFacts',
             stage = "writing", Written(r, ns),
             ~reportAllowed => spent'["reporting"].requests = spent["reporting"].requests
      PROVE  WholeInv'
  <2>1. /\ stage' = "publishing" /\ risks' = ns
        /\ UNCHANGED <<policy, accepted, partial, reportAllowed>>
    BY <1>1 DEF Written, investigationVars
  <2>2. Whole(risks)'
    BY <1>1, <2>1 DEF Whole
  <2> QED
    BY <1>1, <2>1, <2>2 DEF WholeInv
<1>2. report \in [Sections -> Section] /\ KeepsFacts
  BY DEF WholeInv
<1>3. CASE WriteWithoutModel
  <2>1. stage = "writing" /\ spent' = spent /\ report' = report /\ Written(report, Unnarrated)
    BY <1>3 DEF WriteWithoutModel, NothingSpent, Written
  <2>2. KeepsFacts'
    BY <1>2, <2>1 DEF KeepsFacts
  <2> QED
    BY <1>1, <1>2, <2>1, <2>2, UnnarratedIsWhole
<1>4. ASSUME stage = "writing", reportAllowed, Written(Fallback(report), Unnarrated)
      PROVE  WholeInv'
  <2>1. report' = Fallback(report)
    BY <1>4 DEF Written
  <2>2. report' \in [Sections -> Section] /\ KeepsFacts'
    BY <1>2, <2>1, FallbackKeepsFacts
  <2> QED
    BY <1>1, <1>4, <2>1, <2>2, UnnarratedIsWhole
<1>5. CASE FallBack
  BY <1>4, <1>5 DEF FallBack, HasModel
<1>6. ASSUME NEW d \in Drafts, Draft(d) PROVE WholeInv'
  <2>1. stage = "writing" /\ reportAllowed
    BY <1>6 DEF Draft, HasModel
  <2>2. CASE Accepted(d, report) /\ Written(Applied(d, report), Narrated(d))
    <3>1. report' = Applied(d, report)
      BY <2>2 DEF Written
    <3>2. report' \in [Sections -> Section] /\ KeepsFacts'
      BY <1>2, <2>2, <3>1, AppliedKeepsFacts
    <3>3. Whole(Narrated(d))
      BY <2>2, NarratedIsWhole DEF Accepted
    <3> QED
      BY <1>1, <2>1, <2>2, <3>1, <3>2, <3>3
  <2>3. CASE Written(Fallback(report), Unnarrated)
    BY <1>4, <2>1, <2>3
  <2>4. CASE UNCHANGED <<policy, stage, report, risks>> /\ UNCHANGED investigationVars
    BY <2>1, <2>4, WholeKept DEF investigationVars
  <2> QED
    BY <1>6, <2>2, <2>3, <2>4 DEF Draft
<1> QED
  BY <1>3, <1>5, <1>6

\* Every report that goes out is whole, for every catalog of checks, every set of
\* reviewed risks and every draft a model can answer.
THEOREM SuccessStaysWhole == PipeSpec => []SuccessIsWhole
<1>1. WholeInv /\ BudgetInv /\ [PipeNext]_pipeVars => WholeInv'
  <2> SUFFICES ASSUME WholeInv, BudgetInv, [PipeNext]_pipeVars PROVE WholeInv'
    OBVIOUS
  <2>1. CASE \/ Begin \/ Orchestrate \/ ContextReturns \/ PlanSupplement \/ SupplementReturns
             \/ Freeze \/ AcquisitionFails \/ Grant \/ InvestigationFails \/ Prepare \/ Publish
             \/ ReportingFails \/ Cancel
    BY <2>1, QuietStep
  <2>2. CASE Submit \/ (\E timedOut \in BOOLEAN : Finish(timedOut)) \/ TeamReturns
    BY <2>2, InvestigationIsWhole
  <2>3. ASSUME NEW l \in {"acquisition", "investigation"}, Call(l) PROVE WholeInv'
    <3>1. spent'["reporting"] = spent["reporting"]
      <4>1. spent' = spent \/ \E how \in {"known", "silent", "broken"} : CallEnds(l, how)
        BY <2>3 DEF Call
      <4>2. spent' = spent \/ \E x : spent' = [spent EXCEPT ![l] = x]
        BY <4>1 DEF CallEnds, Settle
      <4>3. spent \in [Layer -> Spending]
        BY DEF BudgetInv, BudgetTypeOK
      <4> QED
        BY <4>2, <4>3 DEF Layer
    <3>2. UNCHANGED <<policy, stage, accepted, partial, reportAllowed, report, risks>>
      BY <2>3 DEF Call, investigationVars, reportVars
    <3> QED
      BY <3>1, <3>2, WholeKept
  <2>4. CASE WriteWithoutModel \/ FallBack \/ (\E d \in Drafts : Draft(d))
    BY <2>4, WritingIsWhole
  <2>5. CASE UNCHANGED pipeVars
    BY <2>5, WholeKept DEF pipeVars
  <2> QED
    BY <2>1, <2>2, <2>3, <2>4, <2>5 DEF PipeNext
<1>2. WholeInv => SuccessIsWhole
  <2> SUFFICES ASSUME WholeInv PROVE SuccessIsWhole
    OBVIOUS
  <2>1. ASSUME NEW s \in Sections
        PROVE  /\ Facts[s].refs \subseteq report[s].refs /\ report[s].refs \subseteq Known
               /\ report[s].numbers = Facts[s].numbers
    <3>1. report[s] \in Section
      BY DEF WholeInv
    <3>2. report[s].refs \subseteq Known
      BY <3>1 DEF Section
    <3> QED
      BY <3>2 DEF WholeInv, KeepsFacts
  <2> QED
    BY <2>1 DEF SuccessIsWhole, WholeInv, Whole
<1> QED
  BY InitWhole, BudgetInvariant, <1>1, <1>2, PTL DEF PipeSpec
=============================================================================
