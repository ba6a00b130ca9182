----------------------------- MODULE MCAgentTeam -----------------------------
(* Two checks over a small snapshot: the first reads a registry, the second *)
(* an archive and a source that failed.  Drafts: supported, from the public *)
(* web only, without a gap, without its risk items.  Reviews: empty,   *)
(* asking for a repair, asking for one of unknown evidence, not valid.      *)
EXTENDS AgentTeam

CONSTANTS c1, c2

MCSubmodules == {"registry", "archive", "court"}
MCIdentities == {"filing", "web"}
MCEvidence == MCIdentities
MCPublicWeb == {"web"}
MCAvailability == [m \in MCSubmodules |-> IF m = "court" THEN "source_error" ELSE "available"]
MCEvidenceOf ==
  [m \in MCSubmodules |-> CASE m = "registry" -> {"filing", "web"}
                            [] m = "archive" -> {"filing"} [] OTHER -> {}]
MCConflictsOf == [m \in MCSubmodules |-> {}]
MCRequires == [c \in Checks |-> IF c = c2 THEN {"archive", "court"} ELSE {"registry"}]
MCMayUse == [c \in Checks |-> {}]
MCMinimum == [c \in Checks |-> 1]
MCNeedsAll == [c \in Checks |-> TRUE]
MCWebSuffices == [c \in Checks |-> FALSE]

Draft(s, cited, risks) ==
  [status |-> s, cited |-> cited, risks |-> risks, missing |-> FALSE, conflicts |-> {}]

MCDrafts ==
  {Draft("risk", {"filing"}, {"filing"}), Draft("no_risk", {"web"}, {}),
   Draft("inconclusive", {"web"}, {}),
   Draft("risk", {"filing"}, {})}

ReviewDraft(issues, repairs, known, valid) ==
  [issues |-> issues, repairs |-> repairs, known |-> known, valid |-> valid]

MCReviewDrafts ==
  {ReviewDraft("none", FALSE, TRUE, TRUE), ReviewDraft("some", TRUE, TRUE, TRUE),
   ReviewDraft("some", TRUE, FALSE, TRUE), ReviewDraft("some", FALSE, TRUE, FALSE)}
=============================================================================
