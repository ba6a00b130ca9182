------------------------ MODULE SubmissionBlackboard ------------------------
(***************************************************************************)
(* The blackboard of one investigation (investigation/blackboard.py) and    *)
(* the assignment board beside it (investigation/assignments.py), as the    *)
(* tools given to the agents of a team drive them                           *)
(* (orchestration/investigation_team_tools.py).                             *)
(*                                                                         *)
(* A tool call never suspends: the locks are only ever free and nothing     *)
(* under them waits, so every call is one step.  It first claims a tool     *)
(* call from the investigation's budget ledger; a claim beyond a limit      *)
(* marks the ledger exhausted, for good, and every later claim is refused.  *)
(*                                                                         *)
(* A review's draft keeps its issues (a token: only equality matters),      *)
(* whether it asks for repairs, whether these name evidence that exists and *)
(* whether the draft is valid.                                              *)
(***************************************************************************)
EXTENDS EvidenceGate, Sequences

CONSTANTS
  Drafts,          \* what agents submit for a check
  ReviewDrafts,    \* what the reviewer submits
  Issues,
  MaxRetries, MaxRounds,   \* max_schema_retries, max_repair_rounds
  MaxVersions, MaxReviews  \* bounds of the model

ASSUME DraftAssumption ==
  /\ Drafts \subseteq Result
  /\ ReviewDrafts \subseteq
       [issues : Issues, repairs : BOOLEAN, known : BOOLEAN, valid : BOOLEAN]
  /\ MaxRetries \in Nat /\ MaxRounds \in Nat

VARIABLES
  ledger,       \* repair rounds and schema retries claimed, and whether it is exhausted
  plan,         \* an assignment plan was accepted
  submissions,  \* _submissions: every accepted result, with its version
  latest,       \* _latest_by_check: the version of the newest result, 0 for none
  reviews       \* _reviews, by version

boardVars == <<ledger, plan, submissions, latest, reviews>>

BoardInit ==
  /\ ledger = [rounds |-> 0, retries |-> 0, exhausted |-> FALSE]
  /\ plan = FALSE
  /\ submissions = {}
  /\ latest = [c \in Checks |-> 0]
  /\ reviews = <<>>

Submission == [check : Checks, version : Nat \ {0}, result : Result]

BoardTypeOK ==
  /\ ledger \in [rounds : Nat, retries : Nat, exhausted : BOOLEAN]
  /\ plan \in BOOLEAN
  /\ submissions \subseteq Submission
  /\ latest \in [Checks -> Nat]
  /\ reviews \in Seq([issues : Issues, repairs : BOOLEAN])

-----------------------------------------------------------------------------
(* What the board shows. *)

Submitted == {c \in Checks : latest[c] > 0}

Missing == Checks \ Submitted

NeedsRepair == reviews # <<>> /\ reviews[Len(reviews)].repairs

LatestResult(c, r) == [check |-> c, version |-> latest[c], result |-> r] \in submissions

-----------------------------------------------------------------------------
(* The ledger. *)

\* Any claim beyond its limit, made by the agents' model calls or tools.
ExhaustLedger == ledger' = [ledger EXCEPT !.exhausted = TRUE]

ClaimRetry ==
  IF ledger.retries < MaxRetries
  THEN ledger' = [ledger EXCEPT !.retries = @ + 1]
  ELSE ExhaustLedger

-----------------------------------------------------------------------------
(* The Leader's tool takes no arguments: the plan is the catalog's own, and *)
(* submitting it again is a replay.                                         *)
SubmitAssignments ==
  /\ ~ledger.exhausted
  /\ plan' = TRUE
  /\ UNCHANGED <<ledger, submissions, latest, reviews>>

(* The specialist's tool.  The version comes from the board, so an          *)
(* unchanged result is answered with the one accepted before.               *)
CommitResult(c, r) ==
  IF LatestResult(c, r)
  THEN UNCHANGED <<submissions, latest>>
  ELSE /\ latest[c] < MaxVersions
       /\ latest' = [latest EXCEPT ![c] = @ + 1]
       /\ submissions' = submissions \cup
            {[check |-> c, version |-> latest[c] + 1, result |-> r]}

\* Only a draft that is not well formed costs a schema retry; one out of
\* scope or refused by the gate raises a plain ValueError and costs nothing.
SubmitCheck(c, d) ==
  /\ ~ledger.exhausted
  /\ \/ /\ ~WellFormed(Candidate(d))
        /\ ClaimRetry
        /\ UNCHANGED <<submissions, latest>>
     \/ /\ WellFormed(Candidate(d))
        /\ ~(InScope(c, d) /\ PassesGate(c, Bound(c, d)))
        /\ UNCHANGED <<ledger, submissions, latest>>
     \/ /\ WellFormed(Candidate(d))
        /\ InScope(c, d) /\ PassesGate(c, Bound(c, d))
        /\ CommitResult(c, Bound(c, d))
        /\ UNCHANGED ledger
  /\ UNCHANGED <<plan, reviews>>

-----------------------------------------------------------------------------
\* _bind_review drops the repairs that name unknown evidence.
BoundReview(d) == [issues |-> d.issues, repairs |-> d.repairs /\ d.known]

IsReplay(review) == reviews # <<>> /\ reviews[Len(reviews)] = review

Variant_CommitReviewFree(review) ==
  /\ Len(reviews) < MaxReviews
  /\ reviews' = Append(reviews, review)
  /\ UNCHANGED ledger

\* The round is charged after the replay check and before the commit.
CommitReview(review) ==
  IF review.repairs /\ ledger.rounds >= MaxRounds
  THEN ExhaustLedger /\ UNCHANGED reviews
  ELSE /\ Len(reviews) < MaxReviews
       /\ reviews' = Append(reviews, review)
       /\ ledger' = IF review.repairs THEN [ledger EXCEPT !.rounds = @ + 1] ELSE ledger

\* The reviewer's tool: any ValueError costs a schema retry, an exhausted
\* ledger does not.
SubmitReview(d) ==
  /\ ~ledger.exhausted
  /\ \/ /\ ~d.valid
        /\ ClaimRetry
        /\ UNCHANGED reviews
     \/ /\ d.valid /\ IsReplay(BoundReview(d))
        /\ UNCHANGED <<ledger, reviews>>
     \/ /\ d.valid /\ ~IsReplay(BoundReview(d))
        /\ CommitReview(BoundReview(d))
  /\ UNCHANGED <<plan, submissions, latest>>

-----------------------------------------------------------------------------
(* The versions of a check are consecutive, its newest result is the one    *)
(* with the highest version, and no version repeats the one before it       *)
(* (submission_version, blackboard.py:263-274 and :818-823).                *)
VersionsAdvance ==
  \A c \in Checks :
    /\ {s.version : s \in {t \in submissions : t.check = c}} = 1..latest[c]
    /\ \A s, t \in submissions :
         /\ s.check = c /\ t.check = c /\ s # t
         => s.version # t.version /\ (t.version = s.version + 1 => s.result # t.result)

(* Every review that asks for repairs took exactly one repair round from    *)
(* the ledger, and never more than the budget has (blackboard.py:313-321).  *)
RoundsAreCharged ==
  /\ ledger.rounds = Cardinality({i \in DOMAIN reviews : reviews[i].repairs})
  /\ ledger.rounds <= MaxRounds

(* A result on the board that concludes rests on cited evidence of its      *)
(* scope, none of its required submodules was unusable, nothing it may use  *)
(* is in conflict, and "no risk" never rests on the public web alone where  *)
(* the catalog forbids it, whatever the agent drafted.                      *)
ConclusionsAreSupported ==
  \A s \in submissions :
    s.result.status # "inconclusive" =>
      /\ s.result.cited # {} /\ InScope(s.check, s.result)
      /\ \A m \in Requires[s.check] :
           Availability[m] \in {"available", "verified_empty"}
      /\ \A m \in InReach(s.check) : ConflictsOf[m] = {}
      /\ s.result.status = "no_risk" /\ ~WebSuffices[s.check] =>
           ~(s.result.cited \subseteq PublicWeb)
=============================================================================
