-------------------------- MODULE AgentTeam_proofs --------------------------
(***************************************************************************)
(* Proofs about the evidence gate, the blackboard and the team's driver, for *)
(* every catalog, snapshot, set of drafts and budget.                        *)
(***************************************************************************)
EXTENDS AgentTeam, FiniteSetTheorems, TLAPS

-----------------------------------------------------------------------------
(* The evidence gate. *)

\* Every citation is a finite set, counted by a number.
LEMMA CitedIsFinite ==
  ASSUME NEW r \in Result
  PROVE  IsFiniteSet(r.cited) /\ Cardinality(r.cited) \in Nat
<1>1. r.cited \subseteq Identities
  BY DEF Result
<1> QED BY <1>1, FS_Subset, FS_CardinalityType, SnapshotAssumption

\* Binding keeps what is cited and gives a result.
LEMMA BoundType ==
  ASSUME NEW c \in Checks, NEW d \in Result
  PROVE  /\ Candidate(d) \in Result /\ Candidate(d).cited = d.cited
         /\ Bound(c, d) \in Result /\ Bound(c, d).cited = d.cited
<1>1. Candidate(d) \in Result /\ Candidate(d).cited = d.cited
  BY DEF Candidate, Result, Status
<1>2. Conflicting(c) \subseteq Identities
  BY SnapshotAssumption, CatalogAssumption DEF Conflicting, InReach
<1>3. ASSUME NEW r \in Result
      PROVE  Downgrade(c, r) \in Result /\ Downgrade(c, r).cited = r.cited
  <2>1. Shortage(c, r) \in BOOLEAN
    BY DEF Shortage
  <2>2. (r.conflicts \cup Conflicting(c)) \subseteq Identities /\ r.missing \in BOOLEAN
    BY <1>2 DEF Result
  <2> QED BY <2>1, <2>2 DEF Downgrade, Result, Status
<1> QED BY <1>1, <1>3 DEF Bound

\* A well formed draft that concludes, whether risk or no risk, is never refused by
\* the evidence gate: unsupported, it is downgraded to an inconclusive result that
\* the gate accepts (validation.py:90-169 against 172-240).
THEOREM ConclusionsPassTheGate ==
  ASSUME NEW c \in Checks, NEW d \in Result, d.status # "inconclusive"
  PROVE  PassesGate(c, Bound(c, d))
<1> DEFINE k == Candidate(d)
<1> DEFINE b == Bound(c, d)
<1>1. k \in Result /\ b \in Result /\ k.cited = d.cited /\ b.cited = d.cited
  BY BoundType
<1>2. Cardinality(d.cited) \in Nat /\ Minimum[c] \in Nat
  BY CitedIsFinite, CatalogAssumption
<1>3. CASE DeclaresGap(d)
  <2>1. k.status = "inconclusive" /\ k.missing
    BY <1>3 DEF Candidate, DeclaresGap, Result
  <2>2. b = k
    BY <2>1 DEF Bound, Downgrade
  <2> QED BY <2>1, <2>2 DEF PassesGate
<1>4. CASE ~DeclaresGap(d)
  <2>1. k = d
    BY <1>4 DEF Candidate
  <2>2. CASE Shortage(c, d) \/ d.conflicts \cup Conflicting(c) # {}
    <3>1. b = [d EXCEPT !.status = "inconclusive", !.risks = {},
                        !.conflicts = d.conflicts \cup Conflicting(c),
                        !.missing = d.missing \/ Shortage(c, d)]
      BY <2>1, <2>2 DEF Bound, Downgrade
    <3>2. /\ b.status = "inconclusive"
          /\ b.conflicts = d.conflicts \cup Conflicting(c)
          /\ b.missing = (d.missing \/ Shortage(c, d))
      BY <3>1 DEF Result
    <3>3. b.missing \/ b.conflicts # {}
      BY <2>2, <3>2
    <3> QED BY <3>2, <3>3 DEF PassesGate
  <2>3. CASE ~Shortage(c, d) /\ d.conflicts \cup Conflicting(c) = {}
    <3>1. b = d
      BY <2>1, <2>3 DEF Bound, Downgrade
    <3>2. Unavailable(c) = {} /\ Conflicting(c) = {} /\ d.conflicts = {}
      BY <2>3 DEF Shortage
    <3>3. Cardinality(d.cited) >= Minimum[c]
      BY <2>3, <1>2 DEF Shortage
    <3>4. NeedsAll[c] => Uncited(c, d) = {}
      BY <2>3 DEF Shortage
    <3>5. d.status = "no_risk" => WebSuffices[c] \/ ~OnlyPublicWeb(d)
      BY <2>3 DEF Shortage
    <3> QED BY <3>1, <3>2, <3>3, <3>4, <3>5 DEF PassesGate
  <2> QED BY <2>2, <2>3
<1> QED BY <1>3, <1>4

\* What passes the gate and concludes is supported by its evidence.
Supported(c, r) ==
  r.status # "inconclusive" =>
    /\ r.cited # {} /\ InScope(c, r)
    /\ \A m \in Requires[c] : Availability[m] \in {"available", "verified_empty"}
    /\ \A m \in InReach(c) : ConflictsOf[m] = {}
    /\ r.status = "no_risk" /\ ~WebSuffices[c] => ~(r.cited \subseteq PublicWeb)

\* A result the gate passes is supported by what the agent may read.
LEMMA GateSupports ==
  ASSUME NEW c \in Checks, NEW r \in Result, InScope(c, r), PassesGate(c, r)
  PROVE  Supported(c, r)
<1> SUFFICES ASSUME r.status # "inconclusive" PROVE Supported(c, r)
  BY DEF Supported
<1>1. /\ Unavailable(c) = {} /\ Conflicting(c) = {}
      /\ Cardinality(r.cited) >= Minimum[c]
      /\ r.status = "no_risk" => WebSuffices[c] \/ ~OnlyPublicWeb(r)
  BY DEF PassesGate
<1>2. Minimum[c] \in Nat \ {0} /\ Cardinality(r.cited) \in Nat
  BY CitedIsFinite, CatalogAssumption
<1>3. r.cited # {}
  BY <1>1, <1>2, FS_EmptySet
<1>4. \A m \in Requires[c] : Availability[m] \in {"available", "verified_empty"}
  <2> SUFFICES ASSUME NEW m \in Requires[c]
               PROVE  Availability[m] \in {"available", "verified_empty"}
    OBVIOUS
  <2>1. m \in Submodules /\ Availability[m] \notin Unusable
    BY <1>1, CatalogAssumption DEF Unavailable
  <2> QED BY <2>1, SnapshotAssumption
<1>5. \A m \in InReach(c) : ConflictsOf[m] = {}
  BY <1>1 DEF Conflicting
<1> QED BY <1>1, <1>3, <1>4, <1>5 DEF Supported, OnlyPublicWeb

-----------------------------------------------------------------------------
(* The invariant.  Its parts beyond the properties say why these hold:      *)
(* what is on the board passed the gate, an outcome exists only at the end, *)
(* a review that predates missing checks is below the minimum.              *)

Versions ==
  /\ \A s \in submissions : s.version \in 1..latest[s.check]
  /\ \A c \in Checks : \A n \in 1..latest[c] :
       \E s \in submissions : s.check = c /\ s.version = n
  /\ \A s, t \in submissions :
       s.check = t.check =>
         /\ s.version = t.version => s = t
         /\ t.version = s.version + 1 => s.result # t.result

Gated ==
  \A s \in submissions : InScope(s.check, s.result) /\ PassesGate(s.check, s.result)

Underway ==
  /\ phase # "done" => outcome = "none"
  /\ phase = "next" => attempt < MaxAttempts
  /\ AgentsRun => attempt \in 1..MaxAttempts

StaleIsShort == phase # "done" => fresh \/ Len(reviews) < minimum

AnnouncedIsThere ==
  /\ announced.reviews \subseteq DOMAIN reviews
  /\ \A cv \in announced.checks : cv[2] \in 1..latest[cv[1]]

AnnouncedAtEnd ==
  phase = "done" =>
    /\ \A c \in Submitted : <<c, latest[c]>> \in announced.checks
    /\ announced.reviews = DOMAIN reviews

Inv ==
  /\ TypeOK
  /\ Versions /\ RoundsAreCharged /\ Gated
  /\ Underway /\ StaleIsShort /\ AnnouncedIsThere /\ AnnouncedAtEnd
  /\ CompletionIsReviewedAfresh /\ ExhaustedNeverCompletes

-----------------------------------------------------------------------------
(* The board's steps. *)

BoardInv == BoardTypeOK /\ Versions /\ RoundsAreCharged /\ Gated

\* Nothing the board says changes when the board does not.
LEMMA BoardUnchanged == ASSUME BoardInv, UNCHANGED boardVars PROVE BoardInv'
BY DEF BoardInv, BoardTypeOK, Versions, RoundsAreCharged, Gated, boardVars

\* Claims leave the repair rounds alone.
LEMMA ClaimsKeepRounds ==
  ASSUME BoardTypeOK, ClaimRetry \/ ExhaustLedger
  PROVE  /\ ledger' \in [rounds : Nat, retries : Nat, exhausted : BOOLEAN]
         /\ ledger'.rounds = ledger.rounds
<1>1. ledger \in [rounds : Nat, retries : Nat, exhausted : BOOLEAN]
  BY DEF BoardTypeOK
<1>2. ledger.retries + 1 \in Nat
  BY <1>1
<1>3. CASE ExhaustLedger
  BY <1>1, <1>3 DEF ExhaustLedger
<1>4. CASE ledger' = [ledger EXCEPT !.retries = @ + 1]
  BY <1>1, <1>2, <1>4
<1> QED BY <1>3, <1>4 DEF ClaimRetry

\* The board after a step that changed at most the ledger and the plan.
LEMMA BoardAfterClaim ==
  ASSUME BoardInv, ledger' \in [rounds : Nat, retries : Nat, exhausted : BOOLEAN],
         ledger'.rounds = ledger.rounds, plan' \in BOOLEAN,
         UNCHANGED <<submissions, latest, reviews>>
  PROVE  BoardInv'
BY DEF BoardInv, BoardTypeOK, Versions, RoundsAreCharged, Gated

\* A new version of a check keeps the versions in order.
LEMMA CommitKeepsVersions ==
  ASSUME BoardTypeOK, Versions, NEW c \in Checks, NEW r \in Result,
         ~LatestResult(c, r),
         latest' = [latest EXCEPT ![c] = @ + 1],
         submissions' = submissions \cup
           {[check |-> c, version |-> latest[c] + 1, result |-> r]}
  PROVE  Versions' /\ latest' \in [Checks -> Nat] /\ submissions' \subseteq Submission
<1> DEFINE new == [check |-> c, version |-> latest[c] + 1, result |-> r]
<1>1. /\ latest \in [Checks -> Nat] /\ submissions \subseteq Submission
      /\ latest[c] \in Nat /\ new \in Submission
  BY DEF BoardTypeOK, Submission
<1>2. \A d \in Checks : latest'[d] = IF d = c THEN latest[c] + 1 ELSE latest[d]
  BY <1>1
<1>3. \A s \in submissions : s.check \in Checks /\ s.version \in Nat /\ latest[s.check] \in Nat
  BY <1>1 DEF Submission
<1>4. \A s \in submissions' : s.version \in 1..latest'[s.check]
  BY <1>1, <1>2, <1>3 DEF Versions
<1>5. ASSUME NEW d \in Checks, NEW n \in 1..latest'[d]
      PROVE  \E s \in submissions' : s.check = d /\ s.version = n
  <2>1. CASE d = c /\ n = latest[c] + 1
    <3>1. new.check = d /\ new.version = n /\ new \in submissions'
      BY <2>1
    <3> QED BY <3>1
  <2>2. CASE ~(d = c /\ n = latest[c] + 1)
    <3>1. n \in 1..latest[d]
      BY <1>1, <1>2, <1>5, <2>2
    <3>2. \E s \in submissions : s.check = d /\ s.version = n
      BY <3>1 DEF Versions
    <3> QED BY <3>2
  <2> QED BY <2>1, <2>2
<1>6. ASSUME NEW s \in submissions', NEW t \in submissions', s.check = t.check
      PROVE  /\ s.version = t.version => s = t
             /\ t.version = s.version + 1 => s.result # t.result
  <2>1. CASE s \in submissions /\ t \in submissions
    BY <1>6, <2>1 DEF Versions
  <2>2. CASE s = new /\ t = new
    BY <1>1, <2>2
  <2>3. CASE s \in submissions /\ t = new
    <3>1. s.version \in 1..latest[c] /\ s.check = c
      BY <1>6, <2>3 DEF Versions
    <3>2. s.version # t.version
      BY <1>1, <2>3, <3>1
    <3>3. ASSUME t.version = s.version + 1 PROVE s.result # r
      <4>1. s.version = latest[c]
        BY <1>1, <2>3, <3>1, <3>3
      <4>2. s = [check |-> c, version |-> latest[c], result |-> s.result]
        BY <1>1, <2>3, <3>1, <4>1 DEF Submission
      <4> QED BY <2>3, <4>2 DEF LatestResult
    <3> QED BY <2>3, <3>2, <3>3
  <2>4. CASE s = new /\ t \in submissions
    <3>1. t.version \in 1..latest[c] /\ s.version = latest[c] + 1
      BY <1>6, <2>4 DEF Versions
    <3> QED BY <1>1, <3>1
  <2> QED BY <2>1, <2>2, <2>3, <2>4
<1>7. latest' \in [Checks -> Nat] /\ submissions' \subseteq Submission
  BY <1>1
<1> QED BY <1>4, <1>5, <1>6, <1>7 DEF Versions

\* A specialist's submission, accepted, replayed or refused.
LEMMA SubmitCheckKeepsBoard ==
  ASSUME BoardInv, NEW c \in Checks, NEW d \in Drafts, SubmitCheck(c, d)
  PROVE  BoardInv'
<1>1. d \in Result
  BY DraftAssumption
<1>2. CASE ClaimRetry /\ UNCHANGED <<submissions, latest>>
  BY <1>2, ClaimsKeepRounds, BoardAfterClaim DEF SubmitCheck, BoardInv, BoardTypeOK
<1>3. CASE UNCHANGED <<ledger, submissions, latest>>
  BY <1>3, BoardUnchanged DEF SubmitCheck, boardVars
<1>4. CASE /\ InScope(c, d) /\ PassesGate(c, Bound(c, d))
           /\ CommitResult(c, Bound(c, d)) /\ UNCHANGED ledger
  <2> DEFINE r == Bound(c, d)
  <2>1. UNCHANGED <<plan, reviews, ledger>>
    BY <1>4 DEF SubmitCheck
  <2>2. CASE LatestResult(c, r)
    BY <1>4, <2>1, <2>2, BoardUnchanged DEF CommitResult, boardVars
  <2>3. CASE ~LatestResult(c, r)
    <3>1. r \in Result /\ InScope(c, r)
      BY <1>1, <1>4, BoundType DEF InScope
    <3>2. /\ latest' = [latest EXCEPT ![c] = @ + 1]
          /\ submissions' = submissions \cup
               {[check |-> c, version |-> latest[c] + 1, result |-> r]}
      BY <1>4, <2>3 DEF CommitResult
    <3>3. Versions' /\ latest' \in [Checks -> Nat] /\ submissions' \subseteq Submission
      <4> HIDE DEF r
      <4> QED BY <2>3, <3>1, <3>2, CommitKeepsVersions DEF BoardInv
    <3>4. Gated'
      BY <1>4, <3>1, <3>2 DEF Gated, BoardInv
    <3>5. BoardTypeOK' /\ RoundsAreCharged'
      BY <2>1, <3>3 DEF BoardInv, BoardTypeOK, RoundsAreCharged
    <3> QED BY <3>3, <3>4, <3>5 DEF BoardInv
  <2> QED BY <2>2, <2>3
<1> QED BY <1>2, <1>3, <1>4 DEF SubmitCheck

\* A review's submission, charged, replayed or refused.
LEMMA SubmitReviewKeepsBoard ==
  ASSUME BoardInv, NEW d \in ReviewDrafts, SubmitReview(d)
  PROVE  BoardInv'
<1>1. CASE ClaimRetry /\ UNCHANGED reviews
  BY <1>1, ClaimsKeepRounds, BoardAfterClaim DEF SubmitReview, BoardInv, BoardTypeOK
<1>2. CASE UNCHANGED <<ledger, reviews>>
  BY <1>2, BoardUnchanged DEF SubmitReview, boardVars
<1>3. CASE CommitReview(BoundReview(d))
  <2> DEFINE review == BoundReview(d)
  <2>1. UNCHANGED <<plan, submissions, latest>>
    BY DEF SubmitReview
  <2>2. CASE ExhaustLedger /\ UNCHANGED reviews
    BY <2>1, <2>2, ClaimsKeepRounds, BoardAfterClaim DEF BoardInv, BoardTypeOK
  <2>3. CASE /\ ~(review.repairs /\ ledger.rounds >= MaxRounds)
             /\ reviews' = Append(reviews, review)
             /\ ledger' = IF review.repairs THEN [ledger EXCEPT !.rounds = @ + 1] ELSE ledger
    <3>1. review \in [issues : Issues, repairs : BOOLEAN]
      BY DraftAssumption DEF BoundReview
    <3> HIDE DEF review
    <3>2. /\ reviews \in Seq([issues : Issues, repairs : BOOLEAN])
          /\ ledger \in [rounds : Nat, retries : Nat, exhausted : BOOLEAN]
      BY DEF BoardInv, BoardTypeOK
    <3>3. /\ reviews' \in Seq([issues : Issues, repairs : BOOLEAN])
          /\ Len(reviews) \in Nat /\ DOMAIN reviews = 1..Len(reviews)
          /\ DOMAIN reviews' = 1..(Len(reviews) + 1)
          /\ \A i \in 1..Len(reviews) : reviews'[i] = reviews[i]
          /\ reviews'[Len(reviews) + 1] = review
      BY <2>3, <3>1, <3>2
    <3> DEFINE asked == {i \in DOMAIN reviews : reviews[i].repairs}
    <3> DEFINE n == Len(reviews) + 1
    <3>4. IsFiniteSet(asked) /\ Cardinality(asked) \in Nat /\ n \notin asked
      <4>1. IsFiniteSet(1..Len(reviews))
        BY <3>3, FS_Interval
      <4> QED BY <3>3, <4>1, FS_Subset, FS_CardinalityType
    <3>5. ledger.rounds = Cardinality(asked) /\ ledger.rounds <= MaxRounds /\ MaxRounds \in Nat
      BY DraftAssumption DEF BoardInv, RoundsAreCharged
    <3>6. CASE review.repairs
      <4>1. {i \in DOMAIN reviews' : reviews'[i].repairs} = asked \cup {n}
        BY <3>3, <3>6
      <4>2. Cardinality(asked \cup {n}) = Cardinality(asked) + 1
        BY <3>4, FS_AddElement
      <4>3. ledger.rounds + 1 \in Nat
        BY <3>2
      <4>4. ledger' = [ledger EXCEPT !.rounds = ledger.rounds + 1]
        BY <2>3, <3>6
      <4>5. /\ ledger' \in [rounds : Nat, retries : Nat, exhausted : BOOLEAN]
            /\ ledger'.rounds = ledger.rounds + 1
        BY <3>2, <4>3, <4>4
      <4>6. ~(ledger.rounds >= MaxRounds)
        BY <2>3, <3>6
      <4> HIDE DEF asked
      <4>7. ledger'.rounds <= MaxRounds
        BY <3>2, <3>5, <4>5, <4>6
      <4>8. ledger'.rounds = Cardinality({i \in DOMAIN reviews' : reviews'[i].repairs})
        BY <3>5, <4>1, <4>2, <4>5
      <4>9. RoundsAreCharged'
        BY <4>7, <4>8 DEF RoundsAreCharged
      <4> QED BY <2>1, <3>3, <4>5, <4>9
              DEF BoardInv, BoardTypeOK, Versions, Gated
    <3>7. CASE ~review.repairs
      <4>1. {i \in DOMAIN reviews' : reviews'[i].repairs} = asked
        BY <3>3, <3>7
      <4>2. ledger' = ledger
        BY <2>3, <3>7
      <4> HIDE DEF asked
      <4>3. RoundsAreCharged'
        BY <3>5, <4>1, <4>2 DEF RoundsAreCharged
      <4> QED BY <2>1, <3>3, <4>2, <4>3
              DEF BoardInv, BoardTypeOK, Versions, Gated
    <3> QED BY <3>6, <3>7
  <2> QED BY <1>3, <2>2, <2>3 DEF CommitReview
<1> QED BY <1>1, <1>2, <1>3 DEF SubmitReview

-----------------------------------------------------------------------------
(* The driver's bookkeeping. *)

\* What the driver announces last is what the board holds.
LEMMA PublishedIsThere ==
  ASSUME TypeOK, Versions, AnnouncedIsThere
  PROVE  /\ Published \in [checks : SUBSET (Checks \X (Nat \ {0})), reviews : SUBSET (Nat \ {0})]
         /\ Published.reviews = DOMAIN reviews
         /\ \A cv \in Published.checks : cv[2] \in 1..latest[cv[1]]
         /\ \A c \in Submitted : <<c, latest[c]>> \in Published.checks
<1>1. /\ announced \in [checks : SUBSET (Checks \X (Nat \ {0})), reviews : SUBSET (Nat \ {0})]
      /\ latest \in [Checks -> Nat]
      /\ DOMAIN reviews = 1..Len(reviews) /\ Len(reviews) \in Nat
  BY DEF TypeOK, BoardTypeOK
<1>2. \A c \in Submitted : c \in Checks /\ latest[c] \in Nat \ {0} /\ latest[c] \in 1..latest[c]
  BY <1>1 DEF Submitted
<1>3. announced.reviews \cup DOMAIN reviews = DOMAIN reviews
  BY DEF AnnouncedIsThere
<1>4. DOMAIN reviews \subseteq Nat \ {0}
  BY <1>1
<1>5. announced.checks \cup {<<c, latest[c]>> : c \in Submitted} \subseteq Checks \X (Nat \ {0})
  BY <1>1, <1>2
<1>6. \A cv \in announced.checks \cup {<<c, latest[c]>> : c \in Submitted} :
        cv[2] \in 1..latest[cv[1]]
  BY <1>2 DEF AnnouncedIsThere
<1> QED BY <1>3, <1>4, <1>5, <1>6 DEF Published

\* A verdict of completion needs the whole board and a review that counts.
LEMMA VerdictIsSound ==
  ASSUME TypeOK, NEW least \in Nat \ {0}, Verdict(least) = "completed"
  PROVE  Missing = {} /\ reviews # <<>> /\ ~NeedsRepair /\ Len(reviews) >= least
<1>1. Len(reviews) \in Nat /\ plan \in BOOLEAN /\ demo \in BOOLEAN /\ Len(<<>>) = 0
  BY DEF TypeOK, BoardTypeOK
<1>2. CASE plan /\ demo
  BY <1>1, <1>2 DEF Verdict, BusinessComplete
<1>3. CASE plan /\ ~demo /\ Missing = {} /\ ~(Len(reviews) < least)
  BY <1>1, <1>3 DEF Verdict
<1>4. CASE ~plan
  BY <1>4 DEF Verdict
<1>5. CASE plan /\ ~demo /\ (Missing # {} \/ Len(reviews) < least)
  BY <1>1, <1>5 DEF Verdict
<1> QED BY <1>1, <1>2, <1>3, <1>4, <1>5

\* A verdict is an outcome.
LEMMA VerdictType == \A least : Verdict(least) \in Outcomes
BY DEF Verdict, Outcomes

\* What every step that leaves the board alone leaves alone.
Kept == /\ Versions' /\ RoundsAreCharged' /\ Gated' /\ BoardTypeOK'
        /\ UNCHANGED boardVars

\* A step that leaves the board alone keeps what is said of it.
LEMMA BoardKept == ASSUME Inv, UNCHANGED boardVars PROVE Kept
BY BoardUnchanged DEF Inv, TypeOK, BoardInv, Kept

\* Leaving run() in whatever way keeps the invariant, if a completion is one.
LEMMA ConcludeKeepsInv ==
  ASSUME Inv, phase # "done", NEW result \in Outcomes, Conclude(result),
         UNCHANGED <<boardVars, demo>>,
         attempt' \in 0..MaxAttempts, why' \in Causes, minimum' \in Nat \ {0},
         UNCHANGED <<ended, cancelled, endorsed>>, fresh' \in BOOLEAN,
         result = "completed" =>
           /\ Missing = {} /\ reviews # <<>> /\ ~NeedsRepair /\ fresh'
           /\ demo \/ ~ledger.exhausted
  PROVE  Inv'
<1>1. Kept
  BY BoardKept
<1>2. phase' = "done" /\ outcome' = result /\ announced' = Published
  BY DEF Conclude
<1>3. TypeOK'
  BY <1>1, <1>2, PublishedIsThere DEF Inv, TypeOK, Kept, Phases
<1>4. AnnouncedIsThere' /\ AnnouncedAtEnd'
  <2>1. UNCHANGED <<latest, reviews>> /\ Submitted' = Submitted
    BY DEF boardVars, Submitted
  <2> QED BY <1>2, <2>1, PublishedIsThere DEF Inv, AnnouncedIsThere, AnnouncedAtEnd
<1>5. Underway' /\ StaleIsShort'
  BY <1>2 DEF Underway, StaleIsShort, AgentsRun
<1>6. CompletionIsReviewedAfresh' /\ ExhaustedNeverCompletes'
  BY <1>2 DEF CompletionIsReviewedAfresh, ExhaustedNeverCompletes, Missing, Submitted,
              NeedsRepair, boardVars
<1> QED BY <1>1, <1>3, <1>4, <1>5, <1>6 DEF Inv, Kept

\* A step of the driver that goes on keeps the invariant.
LEMMA DriverGoesOn ==
  ASSUME Inv, phase # "done", phase' \in Phases \ {"done"},
         UNCHANGED <<boardVars, demo, outcome, endorsed>>,
         attempt' \in 0..MaxAttempts, why' \in Causes, minimum' \in Nat \ {0},
         ended' \in BOOLEAN, cancelled' \in BOOLEAN, fresh' \in BOOLEAN,
         announced' \in {announced, Published},
         phase' = "next" => attempt' < MaxAttempts,
         AgentsRun' => attempt' \in 1..MaxAttempts,
         fresh' \/ Len(reviews) < minimum'
  PROVE  Inv'
<1>1. Kept
  BY BoardKept
<1>2. outcome' = "none"
  BY DEF Inv, Underway
<1>3. TypeOK'
  BY <1>1, <1>2, PublishedIsThere DEF Inv, TypeOK, Kept, Outcomes
<1>4. AnnouncedIsThere' /\ AnnouncedAtEnd'
  <2>1. UNCHANGED <<latest, reviews>>
    BY DEF boardVars
  <2> QED BY <2>1, PublishedIsThere DEF Inv, AnnouncedIsThere, AnnouncedAtEnd
<1>5. Underway' /\ StaleIsShort'
  BY <1>2 DEF Underway, StaleIsShort, boardVars
<1>6. CompletionIsReviewedAfresh' /\ ExhaustedNeverCompletes'
  BY <1>2 DEF CompletionIsReviewedAfresh, ExhaustedNeverCompletes
<1> QED BY <1>1, <1>3, <1>4, <1>5, <1>6 DEF Inv, Kept

\* A step of an agent that keeps the board in order and loses nothing keeps
\* the invariant.
LEMMA AgentGoesOn ==
  ASSUME Inv, AgentsRun, BoardInv',
         UNCHANGED driverVars, fresh' \in BOOLEAN, endorsed' \in BOOLEAN,
         \A c \in Checks : latest'[c] >= latest[c],
         DOMAIN reviews \subseteq DOMAIN reviews',
         fresh' \/ (reviews' = reviews /\ fresh' = fresh)
  PROVE  Inv'
<1>1. phase # "done" /\ outcome = "none" /\ phase' = phase /\ outcome' = outcome
  BY DEF AgentsRun, Inv, Underway, driverVars
<1>2. TypeOK'
  BY DEF Inv, TypeOK, BoardInv, driverVars
<1>3. AnnouncedIsThere' /\ AnnouncedAtEnd'
  <2>1. announced' = announced
    BY DEF driverVars
  <2>2. ASSUME NEW cv \in announced.checks PROVE cv[2] \in 1..latest'[cv[1]]
    <3>1. cv[1] \in Checks /\ cv[2] \in Nat
      BY <2>2 DEF Inv, TypeOK
    <3>2. latest[cv[1]] \in Nat /\ latest'[cv[1]] \in Nat /\ cv[2] \in 1..latest[cv[1]]
      BY <2>2, <3>1 DEF Inv, TypeOK, BoardTypeOK, BoardInv, AnnouncedIsThere
    <3>3. latest'[cv[1]] >= latest[cv[1]]
      BY <3>1
    <3> QED BY <3>1, <3>2, <3>3
  <2> QED BY <1>1, <2>1, <2>2 DEF Inv, AnnouncedIsThere, AnnouncedAtEnd
<1>4. Underway' /\ StaleIsShort'
  BY <1>1 DEF Inv, Underway, StaleIsShort, AgentsRun, driverVars
<1>5. CompletionIsReviewedAfresh' /\ ExhaustedNeverCompletes'
  BY <1>1 DEF CompletionIsReviewedAfresh, ExhaustedNeverCompletes
<1> QED BY <1>2, <1>3, <1>4, <1>5 DEF Inv, BoardInv

-----------------------------------------------------------------------------
(* One lemma per action. *)

\* The coordinator assigns the checks.
LEMMA AssignKeeps == ASSUME Inv, Assign PROVE Inv'
<1>1. /\ AgentsRun /\ BoardInv /\ UNCHANGED <<driverVars, history>> /\ plan' = TRUE
      /\ UNCHANGED <<ledger, submissions, latest, reviews>>
  BY DEF Assign, SubmitAssignments, Inv, TypeOK, BoardInv
<1>2. BoardInv'
  BY <1>1, BoardAfterClaim DEF BoardInv, BoardTypeOK
<1>3. \A c \in Checks : latest'[c] >= latest[c]
  BY <1>1 DEF BoardInv, BoardTypeOK
<1> QED BY <1>1, <1>2, <1>3, AgentGoesOn DEF history, Inv, TypeOK

\* An investigator submits its draft.
LEMMA InvestigateKeeps ==
  ASSUME Inv, NEW c \in Checks, NEW d \in Drafts, Investigate(c, d) PROVE Inv'
<1>1. AgentsRun /\ BoardInv /\ SubmitCheck(c, d) /\ UNCHANGED <<driverVars, fresh>>
  BY DEF Investigate, Inv, TypeOK, BoardInv
<1>2. BoardInv'
  BY <1>1, SubmitCheckKeepsBoard
<1>3. reviews' = reviews /\ (latest' = latest \/ latest' = [latest EXCEPT ![c] = @ + 1])
  BY <1>1 DEF SubmitCheck, CommitResult
<1>4. \A e \in Checks : latest[e] \in Nat /\ latest'[e] >= latest[e]
  BY <1>1, <1>3 DEF BoardInv, BoardTypeOK
<1>5. endorsed' \in BOOLEAN /\ fresh' \in BOOLEAN
  BY <1>1 DEF Investigate, Inv, TypeOK
<1> QED BY <1>1, <1>2, <1>3, <1>4, <1>5, AgentGoesOn

\* The reviewer submits its review.
LEMMA ReviewKeeps == ASSUME Inv, NEW d \in ReviewDrafts, Review(d) PROVE Inv'
<1>1. /\ AgentsRun /\ BoardInv /\ SubmitReview(d) /\ UNCHANGED driverVars
      /\ fresh' = (fresh \/ reviews' # reviews)
  BY DEF Review, Inv, TypeOK, BoardInv
<1>2. BoardInv'
  BY <1>1, SubmitReviewKeepsBoard
<1>3. /\ latest' = latest
      /\ \/ reviews' = reviews
         \/ reviews' = Append(reviews, BoundReview(d))
  BY <1>1 DEF SubmitReview, CommitReview
<1>4. \A e \in Checks : latest'[e] >= latest[e]
  BY <1>1, <1>3 DEF BoardInv, BoardTypeOK
<1>5. DOMAIN reviews \subseteq DOMAIN reviews'
  <2>1. BoundReview(d) \in [issues : Issues, repairs : BOOLEAN]
    BY DraftAssumption DEF BoundReview
  <2>2. reviews \in Seq([issues : Issues, repairs : BOOLEAN])
    BY <1>1 DEF BoardInv, BoardTypeOK
  <2> QED BY <1>3, <2>1, <2>2
<1>6. endorsed' \in BOOLEAN /\ fresh' \in BOOLEAN
  <2>1. BoundReview(d).repairs \in BOOLEAN
    BY DraftAssumption DEF BoundReview
  <2> QED BY <1>1, <2>1 DEF Review, Inv, TypeOK
<1>7. fresh' \/ (reviews' = reviews /\ fresh' = fresh)
  BY <1>1 DEF Inv, TypeOK
<1> QED BY <1>1, <1>2, <1>4, <1>5, <1>6, <1>7, AgentGoesOn

\* The team runs out of its budget.
LEMMA ExhaustKeeps == ASSUME Inv, Exhaust PROVE Inv'
<1>1. /\ AgentsRun /\ BoardInv /\ ExhaustLedger /\ UNCHANGED <<driverVars, history>>
      /\ UNCHANGED <<plan, submissions, latest, reviews>>
  BY DEF Exhaust, Inv, TypeOK, BoardInv
<1>2. BoardInv'
  BY <1>1, ClaimsKeepRounds, BoardAfterClaim DEF BoardInv, BoardTypeOK
<1>3. \A c \in Checks : latest'[c] >= latest[c]
  BY <1>1 DEF BoardInv, BoardTypeOK
<1> QED BY <1>1, <1>2, <1>3, AgentGoesOn DEF history, Inv, TypeOK

\* The run is asked to stop.
LEMMA RequestCancelKeeps == ASSUME Inv, RequestCancel PROVE Inv'
BY DriverGoesOn DEF RequestCancel, Inv, TypeOK, Underway, StaleIsShort, AgentsRun, Phases, history

\* An attempt opens its session.
LEMMA BeginAttemptKeeps == ASSUME Inv, BeginAttempt PROVE Inv'
<1>1. /\ phase = "next" /\ UNCHANGED <<boardVars, demo, minimum, ended, cancelled, history>>
      /\ attempt \in 0..MaxAttempts /\ attempt < MaxAttempts /\ MaxAttempts \in Nat
      /\ why \in Causes
  BY TeamAssumption DEF BeginAttempt, Inv, TypeOK, Underway
<1>2. CASE \E r \in {"cancelled", "failed"} : Conclude(r) /\ UNCHANGED <<attempt, why>>
  BY <1>1, <1>2, ConcludeKeepsInv DEF Inv, TypeOK, history, Outcomes
<1>3. CASE /\ phase' = "open" /\ attempt' = attempt + 1 /\ why' = "none"
           /\ UNCHANGED <<announced, outcome>>
  <2>1. attempt' \in 1..MaxAttempts /\ attempt' \in 0..MaxAttempts /\ why' \in Causes
    BY <1>1, <1>3 DEF Causes
  <2> QED BY <1>1, <1>3, <2>1, DriverGoesOn DEF Inv, TypeOK, history, Phases, StaleIsShort
<1> QED BY <1>2, <1>3 DEF BeginAttempt

\* A session is told to stop.
LEMMA StopKeeps ==
  ASSUME Inv, AgentsRun, NEW cause \in Causes, Stop(cause),
         announced' \in {announced, Published},
         UNCHANGED <<boardVars, demo, attempt, minimum, ended, cancelled, outcome, history>>
  PROVE  Inv'
<1>1. phase # "done" /\ phase' = "closing" /\ why' = cause /\ attempt' \in 1..MaxAttempts
  BY DEF AgentsRun, Stop, Inv, Underway
<1> QED BY <1>1, DriverGoesOn DEF Inv, TypeOK, history, Phases, StaleIsShort

\* The stream gives an event.
LEMMA ConsumeEventKeeps == ASSUME Inv, ConsumeEvent PROVE Inv'
<1>1. /\ AgentsRun /\ phase = "open"
      /\ UNCHANGED <<boardVars, demo, attempt, minimum, cancelled, outcome, history>>
  BY DEF ConsumeEvent, AgentsRun
<1>2. CASE /\ \E cause \in {"cancelled", "failed", "ended"} : Stop(cause)
           /\ announced' \in {announced, Published} /\ UNCHANGED ended
  BY <1>1, <1>2, StopKeeps DEF Causes
<1>3. CASE /\ phase' \in {"open", "draining"} /\ UNCHANGED why
           /\ announced' = Published /\ ended' \in {ended, TRUE}
  <2>1. attempt' \in 1..MaxAttempts /\ ended' \in BOOLEAN
    BY <1>1, <1>3 DEF Inv, Underway, TypeOK
  <2> QED BY <1>1, <1>3, <2>1, DriverGoesOn DEF Inv, TypeOK, history, Phases, StaleIsShort
<1> QED BY <1>1, <1>2, <1>3 DEF ConsumeEvent

\* The stream ends.
LEMMA StreamEndsKeeps == ASSUME Inv, StreamEnds PROVE Inv'
BY StopKeeps DEF StreamEnds, AgentsRun, Causes

\* The stream breaks off.
LEMMA StreamRaisesKeeps == ASSUME Inv, StreamRaises PROVE Inv'
BY StopKeeps DEF StreamRaises, AgentsRun, Causes

\* The end of an investigation that timed out.
LEMMA AfterTimeoutConcludes ==
  ASSUME Inv, phase # "done", AfterTimeout,
         UNCHANGED <<boardVars, demo, attempt, why, minimum, ended, cancelled, endorsed>>,
         fresh' \in BOOLEAN, Missing = {} => fresh' = fresh
  PROVE  Inv'
<1>1. CASE demo /\ plan /\ ~cancelled
  <2>1. Conclude(Verdict(minimum))
    BY <1>1 DEF AfterTimeout
  <2>2. ASSUME Verdict(minimum) = "completed"
        PROVE  Missing = {} /\ reviews # <<>> /\ ~NeedsRepair /\ fresh'
    <3>1. Missing = {} /\ reviews # <<>> /\ ~NeedsRepair /\ Len(reviews) >= minimum
      BY <2>2, VerdictIsSound DEF Inv, TypeOK
    <3>2. fresh
      BY <3>1 DEF Inv, StaleIsShort, TypeOK, BoardTypeOK
    <3> QED BY <3>1, <3>2
  <2> QED BY <1>1, <2>1, <2>2, VerdictType, ConcludeKeepsInv DEF Inv, TypeOK
<1>2. CASE ~(demo /\ plan /\ ~cancelled)
  <2>1. Conclude("cancelled") \/ Conclude("failed")
    BY <1>2 DEF AfterTimeout
  <2> QED BY <2>1, ConcludeKeepsInv DEF Inv, TypeOK, Outcomes
<1> QED BY <1>1, <1>2

\* The time of an attempt is over.
LEMMA TimeoutKeeps == ASSUME Inv, Timeout PROVE Inv'
<1>1. UNCHANGED <<boardVars, demo, attempt, minimum, ended, cancelled, history>>
  BY DEF Timeout
<1>2. CASE phase = "next" /\ AfterTimeout /\ UNCHANGED why
  BY <1>1, <1>2, AfterTimeoutConcludes DEF history, Inv, TypeOK
<1>3. CASE AgentsRun /\ Stop("timeout") /\ UNCHANGED <<announced, outcome>>
  BY <1>1, <1>3, StopKeeps DEF Causes
<1> QED BY <1>2, <1>3 DEF Timeout, AgentsRun

\* After a normal end of the stream.
LEMMA AfterAttemptKeeps ==
  ASSUME Inv, phase = "closing", AfterAttempt,
         UNCHANGED <<boardVars, demo, attempt, why, ended, cancelled, endorsed>>,
         fresh' = (fresh /\ Missing = {})
  PROVE  Inv'
<1>1. /\ fresh' \in BOOLEAN /\ attempt \in 1..MaxAttempts /\ attempt' \in 0..MaxAttempts
      /\ why' \in Causes /\ minimum \in Nat \ {0} /\ Len(reviews) \in Nat
      /\ fresh \/ Len(reviews) < minimum
  BY DEF Inv, TypeOK, BoardTypeOK, Underway, AgentsRun, StaleIsShort
<1>2. NextMinimum \in Nat \ {0} /\ NextMinimum >= minimum
      /\ (Missing # {} => NextMinimum >= Len(reviews) + 1)
  BY <1>1 DEF NextMinimum
<1>3. ASSUME NEW least \in Nat \ {0}, least >= minimum, ~ledger.exhausted,
             Conclude(Verdict(least)), minimum' \in Nat \ {0}
      PROVE  Inv'
  <2>1. ASSUME Verdict(least) = "completed"
        PROVE  Missing = {} /\ reviews # <<>> /\ ~NeedsRepair /\ fresh'
    <3>1. Missing = {} /\ reviews # <<>> /\ ~NeedsRepair /\ Len(reviews) >= least
      BY <2>1, VerdictIsSound DEF Inv
    <3>2. ~(Len(reviews) < minimum)
      BY <1>1, <1>3, <3>1
    <3>3. fresh
      BY <1>1, <3>2
    <3>4. fresh'
      BY <3>1, <3>3, Zenon
    <3> QED BY <3>1, <3>4
  <2> QED BY <1>1, <1>3, <2>1, VerdictType, ConcludeKeepsInv
<1>4. CASE ledger.exhausted /\ Conclude("failed") /\ UNCHANGED minimum
  BY <1>1, <1>4, ConcludeKeepsInv DEF Outcomes
<1>5. CASE ~ledger.exhausted /\ Conclude(Verdict(minimum)) /\ UNCHANGED minimum
  BY <1>1, <1>3, <1>5
<1>6. CASE /\ ~ledger.exhausted /\ minimum' = NextMinimum
           /\ attempt < MaxAttempts /\ phase' = "next" /\ UNCHANGED <<announced, outcome>>
  <2>1. fresh' \/ Len(reviews) < minimum'
    <3>1. CASE Missing # {}
      BY <1>1, <1>2, <1>6, <3>1
    <3>2. CASE Missing = {} /\ fresh
      BY <3>2, Zenon
    <3>3. CASE Len(reviews) < minimum
      BY <1>1, <1>2, <1>6, <3>3
    <3> QED BY <1>1, <3>1, <3>2, <3>3
  <2> QED BY <1>1, <1>2, <1>6, <2>1, DriverGoesOn DEF Phases, AgentsRun, Inv, TypeOK
<1>7. CASE /\ ~ledger.exhausted /\ minimum' = NextMinimum /\ Conclude(Verdict(NextMinimum))
  BY <1>2, <1>3, <1>7
<1> QED BY <1>4, <1>5, <1>6, <1>7 DEF AfterAttempt

\* An attempt is closed and its outcome read.
LEMMA CloseKeeps == ASSUME Inv, Close PROVE Inv'
<1>1. /\ phase = "closing" /\ fresh' = (fresh /\ Missing = {})
      /\ UNCHANGED <<boardVars, demo, attempt, why, ended, cancelled, endorsed>>
      /\ fresh' \in BOOLEAN
  BY DEF Close
<1>2. CASE (\E r \in {"failed", "cancelled"} : Conclude(r)) /\ UNCHANGED minimum
  BY <1>1, <1>2, ConcludeKeepsInv DEF Inv, TypeOK, Outcomes
<1>3. CASE AfterTimeout /\ UNCHANGED minimum
  BY <1>1, <1>3, AfterTimeoutConcludes DEF Inv, TypeOK
<1>4. CASE AfterAttempt
  BY <1>1, <1>4, AfterAttemptKeeps
<1> QED BY <1>2, <1>3, <1>4 DEF Close

-----------------------------------------------------------------------------
(* The theorems. *)

\* At first no attempt has begun.
LEMMA InitInv == ASSUME Init PROVE Inv
<1>1. TypeOK
  <2>1. BoardTypeOK
    <3>1. ledger \in [rounds : Nat, retries : Nat, exhausted : BOOLEAN]
      BY DEF Init, BoardInit
    <3>2. plan \in BOOLEAN /\ submissions \subseteq Submission /\ latest \in [Checks -> Nat]
      BY DEF Init, BoardInit
    <3>3. reviews \in Seq([issues : Issues, repairs : BOOLEAN])
      <4> DEFINE S == [issues : Issues, repairs : BOOLEAN]
      <4>1. <<>> \in Seq(S)
        OBVIOUS
      <4> QED BY <4>1 DEF Init, BoardInit
    <3> QED BY <3>1, <3>2, <3>3 DEF BoardTypeOK
  <2>2. /\ demo \in BOOLEAN /\ attempt \in 0..MaxAttempts /\ minimum \in Nat \ {0}
        /\ phase \in Phases /\ why \in Causes /\ outcome \in Outcomes
    BY TeamAssumption DEF Init, Phases, Causes, Outcomes
  <2>3. announced \in [checks : SUBSET (Checks \X (Nat \ {0})), reviews : SUBSET (Nat \ {0})]
    BY DEF Init
  <2> QED BY <2>1, <2>2, <2>3 DEF Init, TypeOK
<1>2. Versions /\ Gated
  BY DEF Init, BoardInit, Versions, Gated
<1>3. RoundsAreCharged
  <2>1. {i \in DOMAIN reviews : reviews[i].repairs} = {}
    BY DEF Init, BoardInit
  <2> QED BY <2>1, FS_EmptySet, DraftAssumption DEF Init, BoardInit, RoundsAreCharged
<1>4. Underway /\ StaleIsShort
  BY TeamAssumption DEF Init, BoardInit, Underway, StaleIsShort, AgentsRun
<1>5. AnnouncedIsThere /\ AnnouncedAtEnd
  BY DEF Init, BoardInit, AnnouncedIsThere, AnnouncedAtEnd
<1>6. CompletionIsReviewedAfresh /\ ExhaustedNeverCompletes
  BY DEF Init, CompletionIsReviewedAfresh, ExhaustedNeverCompletes
<1> QED BY <1>1, <1>2, <1>3, <1>4, <1>5, <1>6 DEF Inv

\* The invariant is inductive.
LEMMA Invariant == Spec => []Inv
<1>1. Init => Inv
  BY InitInv
<1>2. Inv /\ [Next]_vars => Inv'
  <2> SUFFICES ASSUME Inv, [Next]_vars PROVE Inv'
    OBVIOUS
  <2>1. CASE UNCHANGED vars
    <3>1. UNCHANGED <<boardVars, driverVars, history>>
      BY <2>1 DEF vars
    <3>2. Kept
      BY <3>1, BoardKept
    <3> QED BY <3>1, <3>2
            DEF Inv, Kept, TypeOK, driverVars, boardVars, history, Underway, AgentsRun,
                StaleIsShort, AnnouncedIsThere, AnnouncedAtEnd, Submitted, Missing, NeedsRepair,
                CompletionIsReviewedAfresh, ExhaustedNeverCompletes
  <2>2. CASE Next
    BY <2>2, AssignKeeps, InvestigateKeeps, ReviewKeeps, ExhaustKeeps, RequestCancelKeeps,
       BeginAttemptKeeps, ConsumeEventKeeps, StreamEndsKeeps, StreamRaisesKeeps, TimeoutKeeps,
       CloseKeeps DEF Next
  <2> QED BY <2>1, <2>2
<1> QED BY <1>1, <1>2, PTL DEF Spec

\* The board and the driver keep their types.
THEOREM TypeCorrect == Spec => []TypeOK
<1>1. Inv => TypeOK
  BY DEF Inv
<1> QED BY <1>1, Invariant, PTL

\* Versions of a check are consecutive, the newest is the highest and no version
\* repeats the one before.
THEOREM VersionsAlwaysAdvance == Spec => []VersionsAdvance
<1>1. ASSUME Inv PROVE VersionsAdvance
  <2>1. \A c \in Checks : {s.version : s \in {t \in submissions : t.check = c}} = 1..latest[c]
    <3> SUFFICES ASSUME NEW c \in Checks
                 PROVE  {s.version : s \in {t \in submissions : t.check = c}} = 1..latest[c]
      OBVIOUS
    <3>1. \A s \in submissions : s.check = c => s.version \in 1..latest[c]
      BY <1>1 DEF Inv, Versions
    <3>2. \A n \in 1..latest[c] : \E s \in submissions : s.check = c /\ s.version = n
      BY <1>1 DEF Inv, Versions
    <3> QED BY <3>1, <3>2
  <2>2. \A s, t \in submissions :
          s.check = t.check /\ s # t =>
            s.version # t.version /\ (t.version = s.version + 1 => s.result # t.result)
    BY <1>1 DEF Inv, Versions
  <2> QED BY <2>1, <2>2 DEF VersionsAdvance
<1> QED BY <1>1, Invariant, PTL

\* Every review that asks for repairs took one repair round, within the budget.
THEOREM RepairsAreCharged == Spec => []RoundsAreCharged
<1>1. Inv => RoundsAreCharged
  BY DEF Inv
<1> QED BY <1>1, Invariant, PTL

\* Whatever agents draft, a conclusion on the board is supported by the snapshot.
THEOREM BoardIsSupported == Spec => []ConclusionsAreSupported
<1>1. ASSUME Inv PROVE ConclusionsAreSupported
  <2> SUFFICES ASSUME NEW s \in submissions PROVE Supported(s.check, s.result)
    BY DEF ConclusionsAreSupported, Supported
  <2>1. s.check \in Checks /\ s.result \in Result
    BY <1>1 DEF Inv, TypeOK, BoardTypeOK, Submission
  <2> QED BY <1>1, <2>1, GateSupports DEF Inv, Gated
<1> QED BY <1>1, Invariant, PTL

\* A completed investigation rests on a review of the complete board.
THEOREM CompletionIsReviewed == Spec => []CompletionIsReviewedAfresh
<1>1. Inv => CompletionIsReviewedAfresh
  BY DEF Inv
<1> QED BY <1>1, Invariant, PTL

\* Outside demonstrations an exhausted investigation is never completed.
THEOREM ExhaustionIsFinal == Spec => []ExhaustedNeverCompletes
<1>1. Inv => ExhaustedNeverCompletes
  BY DEF Inv
<1> QED BY <1>1, Invariant, PTL

\* However an investigation ends, what the board holds was announced, and only that.
THEOREM EndIsAnnounced == Spec => []WhatCountsIsAnnounced
<1>1. ASSUME Inv PROVE WhatCountsIsAnnounced
  <2>1. ASSUME NEW cv \in announced.checks
        PROVE  \E s \in submissions : s.check = cv[1] /\ s.version = cv[2]
    <3>1. cv[1] \in Checks /\ cv[2] \in 1..latest[cv[1]]
      BY <1>1, <2>1 DEF Inv, TypeOK, AnnouncedIsThere
    <3> QED BY <1>1, <3>1 DEF Inv, Versions
  <2> QED BY <1>1, <2>1 DEF Inv, AnnouncedAtEnd, WhatCountsIsAnnounced
<1> QED BY <1>1, Invariant, PTL

-----------------------------------------------------------------------------
(* The review round that a team implements. *)

\* The opinions are those of the reviews.
LEMMA OpinionsAre ==
  ASSUME BoardTypeOK
  PROVE  /\ Opinions \in Seq(BOOLEAN) /\ Len(Opinions) = Len(reviews)
         /\ DOMAIN Opinions = DOMAIN reviews /\ DOMAIN reviews = 1 .. Len(reviews)
         /\ Len(reviews) \in Nat
         /\ (reviews = <<>> <=> Opinions = <<>>)
<1>1. /\ reviews \in Seq([issues : Issues, repairs : BOOLEAN])
      /\ DOMAIN reviews = 1 .. Len(reviews) /\ Len(reviews) \in Nat
  BY DEF BoardTypeOK
<1>2. \A i \in 1 .. Len(reviews) : reviews[i].repairs \in BOOLEAN
  <2> DEFINE R == [issues : Issues, repairs : BOOLEAN]
  <2>1. \A r \in R : r.repairs \in BOOLEAN
    OBVIOUS
  <2>2. reviews \in Seq(R)
    BY <1>1
  <2> HIDE DEF R
  <2>3. \A i \in 1 .. Len(reviews) : reviews[i] \in R
    BY <2>2
  <2> QED
    BY <2>1, <2>3
<1>3. Opinions = [i \in 1 .. Len(reviews) |-> reviews[i].repairs]
  BY <1>1 DEF Opinions
<1>4. Opinions \in Seq(BOOLEAN) /\ Len(Opinions) = Len(reviews)
      /\ DOMAIN Opinions = 1 .. Len(reviews)
  BY <1>1, <1>2, <1>3
<1>5. reviews = <<>> <=> Len(reviews) = 0
  BY <1>1
<1>6. Opinions = <<>> <=> Len(Opinions) = 0
  BY <1>4
<1> QED
  BY <1>1, <1>4, <1>5, <1>6

\* A review more is an opinion more.
LEMMA ReviewIsAnOpinion ==
  ASSUME BoardTypeOK, NEW r \in [issues : Issues, repairs : BOOLEAN],
         reviews' = Append(reviews, r)
  PROVE  Opinions' = Append(Opinions, r.repairs)
<1> DEFINE n == Len(reviews)
<1>1. reviews \in Seq([issues : Issues, repairs : BOOLEAN]) /\ n \in Nat
  BY DEF BoardTypeOK
<1>2. /\ DOMAIN reviews' = 1 .. n + 1 /\ reviews'[n + 1] = r
      /\ \A i \in 1 .. n : reviews'[i] = reviews[i]
  BY <1>1
<1>3. Opinions' = [i \in 1 .. n + 1 |-> reviews'[i].repairs]
  BY <1>2 DEF Opinions
<1>4. Opinions \in Seq(BOOLEAN) /\ Len(Opinions) = n
      /\ \A i \in 1 .. n : Opinions[i] = reviews[i].repairs
  BY <1>1, OpinionsAre DEF Opinions
<1>5. /\ Append(Opinions, r.repairs) = [i \in 1 .. n + 1 |->
           IF i = n + 1 THEN r.repairs ELSE Opinions[i]]
  BY <1>1, <1>4
<1>6. \A i \in 1 .. n + 1 :
        reviews'[i].repairs = IF i = n + 1 THEN r.repairs ELSE Opinions[i]
  <2>1. \A i \in 1 .. n + 1 : i # n + 1 => i \in 1 .. n
    BY <1>1
  <2> QED
    BY <1>2, <1>4, <2>1
<1> QED
  BY <1>3, <1>5, <1>6

\* What the driver announces last is all there is to tell.
LEMMA AllIsPublished == ASSUME BoardTypeOK PROVE Round!All = Published
<1>1. DOMAIN Opinions = DOMAIN reviews
  BY OpinionsAre
<1>2. {<<c, latest[c]>> : c \in {d \in Checks : latest[d] > 0}}
        = {<<c, latest[c]>> : c \in Submitted}
  BY DEF Submitted
<1> QED
  BY <1>1, <1>2 DEF Round!All, Published

\* An outcome that what was submitted allows is a verdict of the round.
LEMMA ConcludesTheRound ==
  ASSUME Inv, phase # "done",
         NEW v \in {"completed", "partial", "unreviewed", "failed", "cancelled"}, Conclude(v),
         UNCHANGED <<latest, reviews, demo>>,
         v = "completed" => Missing = {} /\ reviews # <<>> /\ ~NeedsRepair,
         v = "unreviewed" => Missing = {} /\ ~demo, v = "partial" => demo
  PROVE  Round!Next
<1>1. outcome = "none" /\ BoardTypeOK
  BY DEF Inv, Underway, TypeOK
<1>2. outcome' = v /\ announced' = Published
  BY DEF Conclude
<1>3. Missing = {} => Round!Complete
  BY DEF Missing, Submitted, Round!Complete
<1>4. reviews # <<>> /\ ~NeedsRepair => Round!Approved
  <2> SUFFICES ASSUME reviews # <<>>, ~NeedsRepair PROVE Round!Approved
    OBVIOUS
  <2>1. /\ Opinions # <<>> /\ Len(Opinions) = Len(reviews) /\ DOMAIN reviews = 1 .. Len(reviews)
        /\ Len(reviews) \in Nat
    BY <1>1, OpinionsAre
  <2>2. Len(reviews) # 0
    BY <1>1 DEF BoardTypeOK
  <2>3. Opinions[Len(reviews)] = reviews[Len(reviews)].repairs
    BY <2>1, <2>2 DEF Opinions
  <2>4. ~reviews[Len(reviews)].repairs
    BY DEF NeedsRepair
  <2> QED
    BY <2>1, <2>3, <2>4 DEF Round!Approved
<1>5. announced' = Round!All
  BY <1>1, <1>2, AllIsPublished
<1>6. Opinions' = Opinions
  BY DEF Opinions
<1>7. Round!Conclude(v)
  BY <1>1, <1>2, <1>3, <1>4, <1>5, <1>6 DEF Round!Conclude
<1> QED
  BY <1>7 DEF Round!Next

\* The verdict of an attempt is one of the round's.
LEMMA VerdictConcludes ==
  ASSUME Inv, phase # "done", NEW least \in Nat \ {0}, Conclude(Verdict(least)),
         UNCHANGED <<latest, reviews, demo>>
  PROVE  Round!Next
<1> DEFINE v == Verdict(least)
<1>1. /\ v \in {"completed", "partial", "unreviewed", "failed"}
      /\ v = "unreviewed" => Missing = {} /\ ~demo
      /\ v = "partial" => demo
  <2>1. plan \in BOOLEAN /\ demo \in BOOLEAN
    BY DEF Inv, TypeOK, BoardTypeOK
  <2>2. CASE ~plan
    BY <2>2 DEF Verdict
  <2>3. CASE plan /\ demo
    BY <2>3 DEF Verdict
  <2>4. CASE plan /\ ~demo /\ Missing # {}
    BY <2>4 DEF Verdict
  <2>5. CASE plan /\ ~demo /\ Missing = {} /\ Len(reviews) < least
    BY <2>5 DEF Verdict
  <2>6. CASE plan /\ ~demo /\ Missing = {} /\ ~(Len(reviews) < least)
    BY <2>6 DEF Verdict
  <2> QED
    BY <2>1, <2>2, <2>3, <2>4, <2>5, <2>6
<1>2. v = "completed" => Missing = {} /\ reviews # <<>> /\ ~NeedsRepair
  BY VerdictIsSound DEF Inv
<1> HIDE DEF v
<1>3. Conclude(v)
  BY DEF v
<1> QED
  BY <1>1, <1>2, <1>3, ConcludesTheRound

\* Each step of the team is a step of its round, or none.
LEMMA StepsOfTheRound ==
  ASSUME Inv, Inv', [Next]_vars PROVE [Round!Next]_Round!round
<1>1. BoardTypeOK /\ RoundsAreCharged' /\ (phase # "done" => outcome = "none")
  BY DEF Inv, TypeOK, Underway
<1>2. UNCHANGED <<latest, reviews, announced, demo, outcome>> => UNCHANGED Round!round
  BY DEF Round!round, Opinions
<1>3. CASE UNCHANGED vars
  BY <1>2, <1>3 DEF vars, boardVars, driverVars
<1>4. CASE Assign \/ Exhaust \/ RequestCancel \/ StreamEnds \/ StreamRaises
  BY <1>2, <1>4 DEF Assign, SubmitAssignments, Exhaust, RequestCancel, StreamEnds, StreamRaises,
                    boardVars, driverVars
<1>5. ASSUME NEW c \in Checks, NEW d \in Drafts, Investigate(c, d)
      PROVE  [Round!Next]_Round!round
  <2>1. /\ outcome = "none" /\ UNCHANGED <<reviews, announced, demo, outcome>>
        /\ latest' = latest \/ latest' = [latest EXCEPT ![c] = @ + 1]
    BY <1>1, <1>5 DEF Investigate, SubmitCheck, CommitResult, AgentsRun, driverVars
  <2>2. CASE latest' = latest
    BY <1>2, <2>1, <2>2
  <2>3. CASE latest' = [latest EXCEPT ![c] = @ + 1]
    <3>1. Opinions' = Opinions
      BY <2>1 DEF Opinions
    <3>2. Round!Answer(c)
      BY <2>1, <2>3, <3>1 DEF Round!Answer
    <3> QED
      BY <3>2 DEF Round!Next
  <2> QED
    BY <2>1, <2>2, <2>3
<1>6. ASSUME NEW d \in ReviewDrafts, Review(d) PROVE [Round!Next]_Round!round
  <2> DEFINE r == BoundReview(d)
  <2>1. /\ outcome = "none" /\ UNCHANGED <<latest, announced, demo, outcome>>
        /\ reviews' = reviews \/ reviews' = Append(reviews, r)
    BY <1>1, <1>6 DEF Review, SubmitReview, CommitReview, AgentsRun, driverVars
  <2>2. CASE reviews' = reviews
    BY <1>2, <2>1, <2>2
  <2>3. CASE reviews' = Append(reviews, r)
    <3>1. r \in [issues : Issues, repairs : BOOLEAN] /\ r.repairs \in BOOLEAN
      BY DraftAssumption DEF BoundReview
    <3> HIDE DEF r
    <3>2. Opinions' = Append(Opinions, r.repairs)
      BY <1>1, <2>3, <3>1, ReviewIsAnOpinion
    <3>3. Round!Rounds(Opinions') <= MaxRounds
      <4>1. {i \in DOMAIN Opinions' : Opinions'[i]} = {i \in DOMAIN reviews' : reviews'[i].repairs}
        BY DEF Opinions
      <4>2. Cardinality({i \in DOMAIN reviews' : reviews'[i].repairs}) <= MaxRounds
        BY <1>1 DEF RoundsAreCharged
      <4>3. \A o : Round!Rounds(o) = Cardinality({i \in DOMAIN o : o[i]})
        BY DEF Round!Rounds, Round!Cardinality, Cardinality
      <4> QED
        BY <4>1, <4>2, <4>3
    <3>4. Round!Opine(r.repairs)
      BY <2>1, <3>2, <3>3 DEF Round!Opine
    <3> QED
      BY <3>1, <3>4 DEF Round!Next
  <2> QED
    BY <2>1, <2>2, <2>3
<1>7. CASE BeginAttempt
  <2>1. phase # "done" /\ UNCHANGED <<latest, reviews, demo>>
    BY <1>7 DEF BeginAttempt, boardVars
  <2>2. CASE Conclude("cancelled") \/ Conclude("failed")
    BY <2>1, <2>2, ConcludesTheRound
  <2>3. CASE UNCHANGED <<announced, outcome>>
    BY <1>2, <2>1, <2>3
  <2> QED
    BY <1>7, <2>2, <2>3 DEF BeginAttempt
<1>8. CASE ConsumeEvent
  <2>1. /\ outcome = "none" /\ UNCHANGED <<latest, reviews, demo, outcome>>
        /\ announced' = announced \/ announced' = Published
    BY <1>1, <1>8 DEF ConsumeEvent, boardVars
  <2>2. CASE announced' = announced
    BY <1>2, <2>1, <2>2
  <2>3. CASE announced' = Published
    <3>1. announced' = Round!All
      BY <1>1, <2>3, AllIsPublished
    <3>2. Opinions' = Opinions
      BY <2>1 DEF Opinions
    <3>3. Round!Tell
      BY <2>1, <3>1, <3>2 DEF Round!Tell
    <3> QED
      BY <3>3 DEF Round!Next
  <2> QED
    BY <2>1, <2>2, <2>3
<1>9. minimum \in Nat \ {0} /\ NextMinimum \in Nat \ {0}
  <2>1. minimum \in Nat \ {0} /\ Len(reviews) \in Nat
    BY DEF Inv, TypeOK, BoardTypeOK
  <2> QED
    BY <2>1 DEF NextMinimum
<1>10. ASSUME phase # "done", AfterTimeout, UNCHANGED <<latest, reviews, demo>>
       PROVE  Round!Next
  <2>1. CASE Conclude(Verdict(minimum))
    BY <1>9, <1>10, <2>1, VerdictConcludes
  <2>2. CASE Conclude("cancelled") \/ Conclude("failed")
    BY <1>10, <2>2, ConcludesTheRound
  <2> QED
    BY <1>10, <2>1, <2>2 DEF AfterTimeout
<1>11. CASE Timeout
  <2>1. phase # "done" /\ UNCHANGED <<latest, reviews, demo>>
    BY <1>11 DEF Timeout, boardVars
  <2>2. CASE AfterTimeout
    BY <1>10, <2>1, <2>2
  <2>3. CASE UNCHANGED <<announced, outcome>>
    BY <1>2, <2>1, <2>3
  <2> QED
    BY <1>11, <2>2, <2>3 DEF Timeout
<1>12. CASE Close
  <2>1. phase # "done" /\ UNCHANGED <<latest, reviews, demo>>
    BY <1>12 DEF Close, boardVars
  <2>2. CASE \E v \in {"failed", "cancelled"} : Conclude(v)
    BY <2>1, <2>2, ConcludesTheRound
  <2>3. CASE AfterTimeout
    BY <1>10, <2>1, <2>3
  <2>4. CASE AfterAttempt
    <3>1. CASE Conclude(Verdict(minimum)) \/ Conclude(Verdict(NextMinimum))
      BY <1>9, <2>1, <3>1, VerdictConcludes
    <3>2. CASE Conclude("failed")
      BY <2>1, <3>2, ConcludesTheRound
    <3>3. CASE UNCHANGED <<announced, outcome>>
      BY <1>2, <2>1, <3>3
    <3> QED
      BY <2>4, <3>1, <3>2, <3>3 DEF AfterAttempt
  <2> QED
    BY <1>12, <2>2, <2>3, <2>4 DEF Close
<1> QED
  BY <1>3, <1>4, <1>5, <1>6, <1>7, <1>8, <1>11, <1>12 DEF Next

\* For any number of checks, rounds and attempts: every step of the team and of its
\* driver is a step of the review round, or none.
THEOREM ImplementsRound == Spec => KeepsTheRound
<1>1. Init => Round!Init
  <2> SUFFICES ASSUME Init PROVE Round!Init
    OBVIOUS
  <2>1. Opinions = <<>>
    BY DEF Init, BoardInit, Opinions
  <2>2. demo \in BOOLEAN
    BY TeamAssumption DEF Init
  <2> QED
    BY <2>1, <2>2 DEF Init, BoardInit, Round!Init
<1>2. Inv /\ Inv' /\ [Next]_vars => [Round!Next]_Round!round
  BY StepsOfTheRound
<1> QED
  BY <1>1, <1>2, Invariant, PTL DEF Spec, KeepsTheRound, Round!Safety
=============================================================================
