---------------------------- MODULE ReportWriting ----------------------------
(***************************************************************************)
(* What the report writer takes from a model's draft                        *)
(* (reporting/product_generator.py).                                        *)
(*                                                                         *)
(* The facts, the numbers and the reviewed risks are fixed before the model *)
(* is asked.  A draft adds an analysis per section, a suggestion with its   *)
(* reason and an explanation per risk; each is a claim [said, refs, numbers] *)
(* : whether there is text, the evidence it cites and the numbers in it.    *)
(* A section keeps the evidence it cites and the numbers its facts hold.    *)
(***************************************************************************)
EXTENDS Naturals, FiniteSets

CONSTANTS
  Sections,        \* SECTION_IDS, the business plan among them
  Plan,            \* the business plan's section
  Known,           \* evidence of the report
  NumbersOf,       \* evidence -> numbers of its summary and date
  Risks            \* reviewed risks: [id, evidence, numbers]

ASSUME WritingAssumption ==
  /\ Plan \in Sections /\ IsFiniteSet(Known)
  /\ \A r \in Risks : r.evidence # {} /\ r.evidence \subseteq Known
  /\ \A r, t \in Risks : r.id = t.id => r = t

Cited(refs) == UNION {NumbersOf[e] : e \in refs \cap Known}

\* _validate_text: every reference known, text only with references, and no
\* number the allowed sources do not hold.
Grounded(claim, allowed, known) ==
  /\ claim.refs \subseteq known
  /\ claim.said => claim.refs # {}
  /\ claim.numbers \subseteq allowed

AllNumbers(report) ==
  (UNION {report[s].numbers : s \in Sections}) \cup UNION {r.numbers : r \in Risks}

\* A section without evidence, for which the draft cites none, is left alone;
\* the business plan may draw on everything, another section on its own facts.
SectionAccepted(s, claim, report, suggested) ==
  \/ report[s].refs = {} /\ claim.refs = {}
  \/ IF s = Plan
     THEN Grounded(claim, AllNumbers(report) \cup suggested \cup Cited(claim.refs), Known)
     ELSE Grounded(claim, report[s].numbers \cup Cited(claim.refs), report[s].refs)

\* An empty reason is taken from the plan's own grounded analysis.
Reason(draft) ==
  IF ~draft.reason.said /\ draft.analyses[Plan].said /\ draft.analyses[Plan].refs # {}
  THEN [draft.analyses[Plan] EXCEPT !.refs = @ \cup draft.reason.refs]
  ELSE draft.reason

SuggestionAccepted(draft, report) ==
  LET reason == Reason(draft) IN
  /\ draft.withinLimits
  /\ draft.supplied \/ reason.said \/ reason.refs # {}
       => /\ reason.said
          /\ Grounded(reason, AllNumbers(report) \cup draft.suggested \cup Cited(reason.refs),
                      Known)

\* Exactly the reviewed risks, each with exactly its evidence.
RisksAccepted(draft) ==
  /\ draft.distinct /\ {n.id : n \in draft.risks} = {r.id : r \in Risks}
  /\ \A n \in draft.risks : \E r \in Risks :
       /\ n.id = r.id /\ n.claim.refs = r.evidence
       /\ Grounded(n.claim, r.numbers \cup Cited(r.evidence), r.evidence)
       /\ n.case \in {"none", "sentence"}

\* apply succeeds; anything else is a ValueError that costs an attempt.
Accepted(draft, report) ==
  /\ \A s \in Sections : SectionAccepted(s, draft.analyses[s], report, draft.suggested)
  /\ SuggestionAccepted(draft, report)
  /\ RisksAccepted(draft)

Applied(draft, report) ==
  [s \in Sections |->
     IF report[s].refs = {} /\ draft.analyses[s].refs = {} THEN report[s]
     ELSE [report[s] EXCEPT !.refs = @ \cup draft.analyses[s].refs,
                            !.analysis = IF draft.analyses[s].said THEN "model" ELSE @]]

\* The risks as published: their evidence is theirs, the text may grow.
Narrated(draft) ==
  {[id |-> n.id, evidence |-> n.claim.refs, case |-> n.case] : n \in draft.risks}

Unnarrated == {[id |-> r.id, evidence |-> r.evidence, case |-> "none"] : r \in Risks}

\* Without an accepted draft the facts stay and every section says so.
Fallback(report) ==
  [s \in Sections |->
     [report[s] EXCEPT !.status = IF report[s].refs = {} THEN "unavailable" ELSE "partial",
                       !.missing = TRUE]]
=============================================================================
