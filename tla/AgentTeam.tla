------------------------------ MODULE AgentTeam ------------------------------
(***************************************************************************)
(* The driver of a multi-agent investigation                                *)
(* (agents/agent_teams_investigator.py, run): it opens the runtime's event  *)
(* stream, follows the blackboard on every event, announces business        *)
(* milestones and the completion, gives the members some time to finish     *)
(* their coordination, closes the stream, and starts at most two recovery   *)
(* teams on the same board when the native team ends early.                 *)
(*                                                                         *)
(* The driver handles an event without giving way, so one event is one      *)
(* step.  The agents run between the driver's steps, from the opening of a  *)
(* stream until it is closed, also while the driver drains and closes it.   *)
(***************************************************************************)
EXTENDS SubmissionBlackboard

CONSTANTS MaxAttempts, \* the original team and its recoveries: 3 in the code
          Modes        \* the settings of demo_partial_enabled to look at

ASSUME TeamAssumption == MaxAttempts \in Nat \ {0} /\ Modes \subseteq BOOLEAN

VARIABLES
  demo,       \* demo_partial_enabled, fixed at the start
  phase,      \* where the driver is
  attempt,    \* the team at work, 1 for the original
  why,        \* why the stream is being closed
  minimum,    \* minimum_review_version
  announced,  \* the milestones published: versions of checks, versions of reviews
  ended,      \* team.completed was published
  cancelled,  \* the run's cancellation token
  outcome,    \* what run() returned or raised, "none" before
  fresh,      \* history: no attempt ended with checks missing since the last review
  endorsed    \* history: the reviewer's last accepted call asked for no repairs
              \* and no result came after it

driverVars == <<demo, phase, attempt, why, minimum, announced, ended, cancelled, outcome>>
history == <<fresh, endorsed>>
vars == <<boardVars, driverVars, history>>

Phases == {"next", "open", "draining", "closing", "done"}
Causes == {"none", "ended", "timeout", "failed", "cancelled"}
Outcomes == {"none", "completed", "partial", "failed", "unreviewed", "cancelled"}

Init ==
  /\ BoardInit
  /\ demo \in Modes
  /\ phase = "next" /\ attempt = 0 /\ why = "none"
  /\ minimum = 1
  /\ announced = [checks |-> {}, reviews |-> {}]
  /\ ended = FALSE /\ cancelled = FALSE
  /\ outcome = "none"
  /\ fresh = FALSE /\ endorsed = FALSE

-----------------------------------------------------------------------------
(* What the driver reads off the board. *)

\* _business_complete.
BusinessComplete(least) ==
  /\ Missing = {}
  /\ reviews # <<>> /\ Len(reviews) >= least
  /\ ~NeedsRepair

\* A demo stops before the review, once every check is in.
SkipsReview == demo /\ plan /\ Missing = {} /\ reviews = <<>>

\* The milestones publish_business_milestones has published by its end.
Published ==
  [checks |-> announced.checks \cup {<<c, latest[c]>> : c \in Submitted},
   reviews |-> announced.reviews \cup DOMAIN reviews]

Variant_NextMinimumStays == minimum

\* A review of an incomplete board does not count for the completed one.
NextMinimum ==
  IF Missing # {} /\ Len(reviews) + 1 > minimum THEN Len(reviews) + 1 ELSE minimum

\* How run() ends when no exception is under way (the code after the try).
Verdict(least) ==
  CASE ~plan -> "failed"
    [] plan /\ demo -> IF BusinessComplete(least) THEN "completed" ELSE "partial"
    [] plan /\ ~demo /\ Missing # {} -> "failed"
    [] plan /\ ~demo /\ Missing = {} /\ Len(reviews) < least -> "unreviewed"
    [] OTHER -> IF NeedsRepair THEN "failed" ELSE "completed"

-----------------------------------------------------------------------------
(* The agents. *)

AgentsRun == phase \in {"open", "draining", "closing"}

Assign ==
  /\ AgentsRun
  /\ SubmitAssignments
  /\ UNCHANGED <<driverVars, history>>

Investigate(c, d) ==
  /\ AgentsRun
  /\ SubmitCheck(c, d)
  /\ endorsed' = (endorsed /\ submissions' = submissions)
  /\ UNCHANGED <<driverVars, fresh>>

Review(d) ==
  /\ AgentsRun
  /\ SubmitReview(d)
  /\ fresh' = (fresh \/ reviews' # reviews)
  /\ endorsed' = IF d.valid /\ ledger'.exhausted = ledger.exhausted
                 THEN ~BoundReview(d).repairs
                 ELSE endorsed
  /\ UNCHANGED driverVars

\* A model call or a tool call beyond the investigation's budget.
Exhaust ==
  /\ AgentsRun
  /\ ~ledger.exhausted
  /\ ExhaustLedger
  /\ UNCHANGED <<plan, submissions, latest, reviews, driverVars, history>>

RequestCancel ==
  /\ phase # "done"
  /\ ~cancelled
  /\ cancelled' = TRUE
  /\ UNCHANGED <<boardVars, demo, phase, attempt, why, minimum, announced, ended, outcome, history>>

-----------------------------------------------------------------------------
(* The driver. *)

Stop(cause) == phase' = "closing" /\ why' = cause

Variant_ConcludeQuietly(result) ==
  /\ phase' = "done" /\ outcome' = result
  /\ UNCHANGED announced

\* Leaving the try: the milestones are published a last time, in any case.
Conclude(result) ==
  /\ phase' = "done" /\ outcome' = result
  /\ announced' = Published

\* The top of the loop; the recovery's event changes nothing here.
BeginAttempt ==
  /\ phase = "next"
  /\ \/ /\ cancelled
        /\ Conclude("cancelled")
        /\ UNCHANGED <<attempt, why>>
     \/ /\ ~cancelled /\ ledger.exhausted
        /\ Conclude("failed")
        /\ UNCHANGED <<attempt, why>>
     \/ /\ ~cancelled /\ ~ledger.exhausted
        /\ phase' = "open" /\ attempt' = attempt + 1 /\ why' = "none"
        /\ UNCHANGED <<announced, outcome>>
  /\ UNCHANGED <<boardVars, demo, minimum, ended, cancelled, history>>

\* An event of the stream: milestones first, then the completion.
ConsumeEvent ==
  /\ phase = "open"
  /\ \/ /\ cancelled
        /\ Stop("cancelled")
        /\ UNCHANGED <<announced, ended>>
     \/ /\ ~cancelled /\ ledger.exhausted
        /\ Stop("failed")
        /\ UNCHANGED <<announced, ended>>
     \/ /\ ~cancelled /\ ~ledger.exhausted
        /\ announced' = Published
        /\ \/ /\ SkipsReview
              /\ Stop("ended")
              /\ UNCHANGED ended
           \/ /\ ~SkipsReview /\ BusinessComplete(minimum)
              /\ ended' = TRUE
              /\ phase' = "draining"
              /\ UNCHANGED why
           \/ /\ ~SkipsReview /\ ~BusinessComplete(minimum)
              /\ UNCHANGED <<phase, why, ended>>
  /\ UNCHANGED <<boardVars, demo, attempt, minimum, cancelled, outcome, history>>

\* The stream ends, or the drain's ten seconds pass.
StreamEnds ==
  /\ phase \in {"open", "draining"}
  /\ Stop("ended")
  /\ UNCHANGED <<boardVars, demo, attempt, minimum, announced, ended, cancelled, outcome, history>>

\* The runtime raises, or the event sink does; the runtime also looks at the
\* cancellation token.
StreamRaises ==
  /\ phase \in {"open", "draining"}
  /\ Stop("failed") \/ (cancelled /\ Stop("cancelled"))
  /\ UNCHANGED <<boardVars, demo, attempt, minimum, announced, ended, cancelled, outcome, history>>

\* run()'s except clause, once the stream is closed.
AfterTimeout ==
  IF demo /\ plan
  THEN Conclude(IF cancelled THEN "cancelled" ELSE Verdict(minimum))
  ELSE Conclude("failed")

Variant_TimeoutNotInDrain ==
  /\ \/ /\ phase = "next"
        /\ AfterTimeout
        /\ UNCHANGED why
     \/ /\ phase = "open" \/ (phase = "closing" /\ why = "ended")
        /\ Stop("timeout")
        /\ UNCHANGED <<announced, outcome>>
  /\ UNCHANGED <<boardVars, demo, attempt, minimum, ended, cancelled, history>>

\* The deadline of the whole investigation, or the ledger's own.
Timeout ==
  /\ \/ /\ phase = "next"
        /\ AfterTimeout
        /\ UNCHANGED why
     \/ /\ \/ phase \in {"open", "draining"}
           \/ phase = "closing" /\ why = "ended"
        /\ Stop("timeout")
        /\ UNCHANGED <<announced, outcome>>
  /\ UNCHANGED <<boardVars, demo, attempt, minimum, ended, cancelled, history>>

Variant_AfterAttemptUnchecked ==
  \/ /\ BusinessComplete(minimum) \/ ~plan \/ demo
     /\ Conclude(Verdict(minimum))
     /\ UNCHANGED minimum
  \/ /\ ~BusinessComplete(minimum) /\ plan /\ ~demo
     /\ minimum' = NextMinimum
     /\ IF attempt < MaxAttempts
        THEN phase' = "next" /\ UNCHANGED <<announced, outcome>>
        ELSE Conclude(Verdict(NextMinimum))

\* After an attempt: give up, conclude or let a recovery team continue.
AfterAttempt ==
  \/ /\ ledger.exhausted
     /\ Conclude("failed")
     /\ UNCHANGED minimum
  \/ /\ ~ledger.exhausted
     /\ BusinessComplete(minimum) \/ ~plan \/ demo
     /\ Conclude(Verdict(minimum))
     /\ UNCHANGED minimum
  \/ /\ ~ledger.exhausted
     /\ ~BusinessComplete(minimum) /\ plan /\ ~demo
     /\ minimum' = NextMinimum
     /\ IF attempt < MaxAttempts
        THEN phase' = "next" /\ UNCHANGED <<announced, outcome>>
        ELSE Conclude(Verdict(NextMinimum))

\* aclose() of the stream has stopped the team, or failed to clean it up.
Close ==
  /\ phase = "closing"
  /\ \/ /\ why \in {"failed", "cancelled"}
        /\ Conclude(why)
        /\ UNCHANGED minimum
     \/ /\ why = "timeout"
        /\ AfterTimeout
        /\ UNCHANGED minimum
     \/ /\ Conclude("failed")
        /\ UNCHANGED minimum
     \/ /\ why = "ended"
        /\ AfterAttempt
  /\ fresh' = (fresh /\ Missing = {})
  /\ UNCHANGED <<boardVars, demo, attempt, why, ended, cancelled, endorsed>>

Next ==
  \/ Assign
  \/ \E c \in Checks, d \in Drafts : Investigate(c, d)
  \/ \E d \in ReviewDrafts : Review(d)
  \/ Exhaust \/ RequestCancel
  \/ BeginAttempt \/ ConsumeEvent \/ StreamEnds \/ StreamRaises
  \/ Timeout \/ Close

Spec == Init /\ [][Next]_vars

(* asyncio.timeout runs out whatever the team does, and the driver's own     *)
(* steps are not held up; the agents owe nothing.                            *)
FairSpec ==
  /\ Spec
  /\ WF_vars(BeginAttempt) /\ WF_vars(Timeout) /\ WF_vars(Close)

-----------------------------------------------------------------------------
TypeOK ==
  /\ BoardTypeOK
  /\ demo \in BOOLEAN
  /\ phase \in Phases /\ why \in Causes /\ outcome \in Outcomes
  /\ attempt \in 0..MaxAttempts
  /\ minimum \in Nat \ {0}
  /\ announced \in [checks : SUBSET (Checks \X (Nat \ {0})), reviews : SUBSET (Nat \ {0})]
  /\ ended \in BOOLEAN /\ cancelled \in BOOLEAN
  /\ fresh \in BOOLEAN /\ endorsed \in BOOLEAN

(* A completed investigation has every check, rests on a review without     *)
(* open repairs, and no attempt ended with checks missing since that review *)
(* was submitted (lines 311-317 and 356-362).                               *)
CompletionIsReviewedAfresh ==
  outcome = "completed" =>
    Missing = {} /\ reviews # <<>> /\ ~NeedsRepair /\ fresh

(* An investigation whose ledger ran out, possibly while the stream was     *)
(* being closed, is never completed, demonstrations aside (lines 304, 397). *)
ExhaustedNeverCompletes ==
  outcome = "completed" /\ ~demo => ~ledger.exhausted

(* Whatever ended the investigation, every result on the board and every    *)
(* review was announced, and nothing else (the finally clause, line 340).   *)
WhatCountsIsAnnounced ==
  phase = "done" =>
    /\ \A c \in Submitted : <<c, latest[c]>> \in announced.checks
    /\ announced.reviews = DOMAIN reviews
    /\ \A cv \in announced.checks :
         \E s \in submissions : s.check = cv[1] /\ s.version = cv[2]

(* The team implements a review round: whatever its attempts, its agents,   *)
(* its deadline and a cancellation do, whoever follows it sees answers and  *)
(* opinions come one by one, then one verdict that nothing comes after (the *)
(* stream is closed before run() returns, team_runtime.py:238-260), with    *)
(* all there is told (the finally clause, line 340).                        *)
Opinions == [i \in DOMAIN reviews |-> reviews[i].repairs]
Round == INSTANCE ReviewRound WITH
  answers <- latest, opinions <- Opinions, told <- announced, lenient <- demo, verdict <- outcome
KeepsTheRound == Round!Safety

(* The deadline ends every investigation.                                   *)
EveryInvestigationEnds == <>(phase = "done")

(* The reviewer's answer counts: a run with every check in is not turned    *)
(* down for want of a review when the reviewer's last accepted call looked  *)
(* at these results and asked for no repairs.  It is what a recovery team   *)
(* is told to obtain once the missing checks are in (lines 225-231).        *)
ReviewCounts == outcome = "unreviewed" => ~endorsed
=============================================================================
