---------------------------- MODULE EvidenceGate ----------------------------
(***************************************************************************)
(* What a check may conclude from the frozen evidence of a run: the scope   *)
(* check, the downgrade of an unsupported conclusion and the evidence gate  *)
(* of investigation/validation.py, and the binding of an agent's draft to a *)
(* result (investigation/blackboard.py).                                    *)
(*                                                                         *)
(* A result keeps what these functions look at: its status, the evidence    *)
(* its facts and its risk items cite, whether it names missing evidence and *)
(* the conflicts it names.  The snapshot never changes, so its submodules   *)
(* are constants: Availability, EvidenceOf (the supplemental evidence       *)
(* included) and ConflictsOf.                                               *)
(***************************************************************************)
EXTENDS Naturals, FiniteSets

CONSTANTS
  Checks, Submodules, Identities,   \* identities an agent may cite
  Evidence, PublicWeb,              \* those of the snapshot, those from the public web
  Availability, EvidenceOf, ConflictsOf,
  Requires, MayUse,                 \* a check's required and optional submodules
  Minimum, NeedsAll, WebSuffices    \* its evidence requirements

Status == {"risk", "no_risk", "inconclusive"}

\* The states in which a required submodule blocks a conclusion.
Unusable == {"capability_absent", "source_error", "not_requested"}

ASSUME SnapshotAssumption ==
  /\ Availability \in [Submodules -> Unusable \cup {"available", "verified_empty"}]
  /\ IsFiniteSet(Identities) /\ Evidence \subseteq Identities /\ PublicWeb \subseteq Evidence
  /\ EvidenceOf \in [Submodules -> SUBSET Evidence]
  /\ ConflictsOf \in [Submodules -> SUBSET Evidence]

ASSUME CatalogAssumption ==
  /\ Requires \in [Checks -> SUBSET Submodules]
  /\ MayUse \in [Checks -> SUBSET Submodules]
  /\ Minimum \in [Checks -> Nat \ {0}]
  /\ NeedsAll \in [Checks -> BOOLEAN] /\ WebSuffices \in [Checks -> BOOLEAN]

Result == [status : Status, cited : SUBSET Identities, risks : SUBSET Identities,
           missing : BOOLEAN, conflicts : SUBSET Identities]

\* The validators of CheckResult: risk items exactly for a risk, each resting
\* on a cited fact, and nothing missing behind a no_risk.
WellFormed(r) ==
  /\ r.status = "risk" <=> r.risks # {}
  /\ r.status = "no_risk" => ~r.missing
  /\ r.risks \subseteq r.cited

InReach(c) == Requires[c] \cup MayUse[c]

InScope(c, r) == r.cited \subseteq Evidence \cap UNION {EvidenceOf[m] : m \in InReach(c)}

-----------------------------------------------------------------------------
Variant_Unavailable(c) == {m \in Requires[c] : Availability[m] = "capability_absent"}

Unavailable(c) == {m \in Requires[c] : Availability[m] \in Unusable}

\* Required submodules that hold data of which the result cites none.
Uncited(c, r) ==
  {m \in Requires[c] : Availability[m] = "available" /\ EvidenceOf[m] \cap r.cited = {}}

Conflicting(c) == UNION {ConflictsOf[m] : m \in InReach(c)}

OnlyPublicWeb(r) == r.cited # {} /\ r.cited \subseteq PublicWeb

\* validate_check_result_evidence_gate.
PassesGate(c, r) ==
  /\ r.status # "inconclusive" =>
       /\ Unavailable(c) = {}
       /\ Conflicting(c) = {} /\ r.conflicts = {}
       /\ Cardinality(r.cited) >= Minimum[c]
       /\ NeedsAll[c] => Uncited(c, r) = {}
  /\ r.status = "no_risk" => WebSuffices[c] \/ ~OnlyPublicWeb(r)
  /\ r.status = "inconclusive" =>
       \/ Unavailable(c) # {} \/ Conflicting(c) # {}
       \/ r.missing \/ r.conflicts # {}
       \/ Cardinality(r.cited) < Minimum[c]

-----------------------------------------------------------------------------
\* What a downgrade adds to the list of missing evidence.
Shortage(c, r) ==
  \/ Unavailable(c) # {}
  \/ NeedsAll[c] /\ Uncited(c, r) # {}
  \/ Cardinality(r.cited) < Minimum[c]
  \/ r.status = "no_risk" /\ OnlyPublicWeb(r) /\ ~WebSuffices[c]

\* downgrade_unsupported_check_conclusion.
Downgrade(c, r) ==
  LET conflicts == r.conflicts \cup Conflicting(c)
  IN  IF r.status # "inconclusive" /\ (Shortage(c, r) \/ conflicts # {})
      THEN [r EXCEPT !.status = "inconclusive", !.risks = {}, !.conflicts = conflicts,
                     !.missing = r.missing \/ Shortage(c, r)]
      ELSE r

\* A draft that concludes and at once names missing evidence is inconclusive.
DeclaresGap(d) == d.missing /\ d.status # "inconclusive"

Candidate(d) ==
  IF DeclaresGap(d) THEN [d EXCEPT !.status = "inconclusive", !.risks = {}] ELSE d

\* _bind_check_result: the result an agent's draft stands for.
Bound(c, d) == Downgrade(c, Candidate(d))
=============================================================================
