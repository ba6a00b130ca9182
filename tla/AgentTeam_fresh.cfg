SPECIFICATION Spec
CONSTANTS
  c1 = c1
  c2 = c2
  Checks = {c1, c2}
  Submodules <- MCSubmodules
  Identities <- MCIdentities
  Evidence <- MCEvidence
  PublicWeb <- MCPublicWeb
  Availability <- MCAvailability
  EvidenceOf <- MCEvidenceOf
  ConflictsOf <- MCConflictsOf
  Requires <- MCRequires
  MayUse <- MCMayUse
  Minimum <- MCMinimum
  NeedsAll <- MCNeedsAll
  WebSuffices <- MCWebSuffices
  Drafts <- MCDrafts
  ReviewDrafts <- MCReviewDrafts
  Issues = {"none", "some"}
  MaxRetries = 1
  MaxRounds = 1
  MaxVersions = 2
  MaxReviews = 2
  MaxAttempts = 3
  Modes = {FALSE}
INVARIANT ReviewCounts
CHECK_DEADLOCK FALSE
