------------------------- MODULE RunRestart_proofs -------------------------
(***************************************************************************)
(* Proofs about what crashes and restarts leave of a run, for every set of *)
(* runs, keys and cancel requests and every number of crashes: one         *)
(* Idempotency-Key is answered with one run as long as no write fails, and *)
(* a run found running is failed before any request is served, whatever    *)
(* fails.  Then, while nothing crashes and no write fails: the store and   *)
(* the stream of every run tell the same story whenever the loop is free,  *)
(* and every step of the coordinator is one its contract allows.           *)
(***************************************************************************)
EXTENDS RunLifecycle_proofs, FiniteSetTheorems

-----------------------------------------------------------------------------
(* The receipts.  A failing write is what breaks them: the receipt is       *)
(* entered in memory before it is written, so a later replay is answered    *)
(* from a receipt that a crash then forgets.                                *)

\* The labels of a create request whose two files are still to write.
Creation == {"write metadata", "write receipt"}

\* A key has at most one run, in the cache and in the file.
OneReceipt ==
  \A k \in Keys : /\ receipts[k] = {} \/ \E r \in Runs : receipts[k] = {r}
                  /\ idem[k] = {} \/ \E r \in Runs : idem[k] = {r}

\* The cache holds what the file holds, and one receipt more during a creation.
CacheHoldsReceipts ==
  /\ phase # "down" /\ pc \notin Creation => idem = receipts
  /\ pc \in Creation => \A k \in Keys : receipts[k] \subseteq idem[k]

\* Clients are answered from receipts that are on disk.
AnsweredFromDisk == \A k \in Keys : replied[k] \subseteq receipts[k]

\* A process that is down is in no section.
DownIsIdle == phase = "down" => pc = "idle"

KeyInv ==
  /\ faults = 0
  /\ OneReceipt
  /\ CacheHoldsReceipts
  /\ AnsweredFromDisk
  /\ DownIsIdle

\* The receipts and the answers of a step that is about none of them.
Aside == UNCHANGED <<receipts, idem, replied, faults>>

\* Without failing writes, no step of a section takes its error path there.
LEMMA NoFault ==
  ASSUME MaxFaults = 0, faults = 0
  PROVE  ~DiskFault /\ ~WriteRaises
BY DEF DiskFault, WriteRaises

\* A publication touches neither receipts nor answers.
LEMMA PublishAside ==
  ASSUME MaxFaults = 0, faults = 0, NEW r, NEW e, Publish(r, e) \/ PublishRaises(r, e)
  PROVE  UNCHANGED <<receipts, faults>>
BY NoFault DEF Publish, PublishRaises, Append_, disk

\* A step of a section already past its creation that leaves the receipts
\* alone and does not begin a creation.
LEMMA AsideKeeps ==
  ASSUME KeyInv, Aside, pc \notin Creation, pc' \notin Creation,
         phase # "down", phase' # "down"
  PROVE  KeyInv'
BY DEF KeyInv, Aside, OneReceipt, CacheHoldsReceipts, AnsweredFromDisk, DownIsIdle

\* Where the steps of a section that is not a creation lead.
LEMMA SectionAside ==
  ASSUME KeyInv, MaxFaults = 0, SectionStep, ~WriteMetadata, ~WriteReceipt, ~Accept
  PROVE  Aside /\ pc \notin Creation \cup {"idle"} /\ pc' \notin Creation /\ phase' \in {phase, "ready"}
<1>0. faults = 0
  BY DEF KeyInv
<1>1. CASE \/ AnnounceStart \/ AnnouncePhase \/ AnnouncePlan \/ CompleteSteps
           \/ AnnounceCancelled \/ FailSteps \/ AnnounceFailed \/ ConfirmCancel
           \/ RecoverAccepted \/ RecoverFailed
  <2>1. \E e : Publish(cur, e) \/ PublishRaises(cur, e)
    BY <1>1 DEF AnnounceStart, AnnouncePhase, AnnouncePlan, CompleteSteps,
       AnnounceCancelled, FailSteps, AnnounceFailed, ConfirmCancel, RecoverAccepted, RecoverFailed,
       Announce
  <2>2. UNCHANGED <<receipts, faults>>
    BY <1>0, <2>1, PublishAside
  <2>3. Rest /\ pc \notin Creation \cup {"idle"} /\ pc' \notin Creation
    BY <1>1 DEF AnnounceStart, AnnouncePhase, AnnouncePlan, CompleteSteps,
       AnnounceCancelled, FailSteps, AnnounceFailed, ConfirmCancel, RecoverAccepted, RecoverFailed,
       Announce, Goto, Leave, TaskReturns, TaskRaises, Creation
  <2> QED BY <2>2, <2>3 DEF Rest, Aside
<1>2. CASE \E c \in Callers : AnnounceRequest(c)
  <2>1. Publish(cur, "run.cancel_requested") \/ PublishRaises(cur, "run.cancel_requested")
    BY <1>2 DEF AnnounceRequest
  <2>2. UNCHANGED <<receipts, faults>>
    BY <1>0, <2>1, PublishAside
  <2>3. Rest /\ pc = "request" /\ pc' \in {"idle", "confirm"}
    BY <1>2 DEF AnnounceRequest
  <2> QED BY <2>2, <2>3 DEF Rest, Aside, Creation
<1>3. CASE ClosePhase \/ CloseReport \/ CloseRun
  <2>1. Rest /\ UNCHANGED <<receipts, faults>>
    BY <1>0, <1>3, NoFault DEF ClosePhase, CloseReport, CloseRun, Close, Append_, disk
  <2>2. pc \notin Creation \cup {"idle"} /\ pc' \notin Creation
    BY <1>3 DEF ClosePhase, CloseReport, CloseRun, Close, Goto, TaskReturns, Creation
  <2> QED BY <2>1, <2>2 DEF Rest, Aside
<1>4. CASE \/ SaveResult \/ Persist \/ SaveCancelled \/ SaveFailed \/ SaveConfirmed \/ SaveRecovered
           \/ \E r \in Runs : WriteRecovered(r)
  <2>1. Rest /\ UNCHANGED <<receipts, faults>>
    BY <1>0, <1>4, NoFault DEF SaveResult, Persist, SaveCancelled, SaveFailed, SaveConfirmed,
       SaveRecovered, WriteRecovered, SaveProjection, Save
  <2>2. pc \notin Creation \cup {"idle"} /\ pc' \notin Creation
    BY <1>4 DEF SaveResult, Persist, SaveCancelled, SaveFailed, SaveConfirmed, SaveRecovered,
       WriteRecovered, SaveProjection, Goto, Leave, TaskReturns, TaskRaises, Creation
  <2> QED BY <2>1, <2>2 DEF Rest, Aside
<1>5. CASE FinishRecovery \/ \E r \in Runs : NextRecovered(r)
  BY <1>5 DEF FinishRecovery, NextRecovered, Enter, Aside, Creation, disk, env
<1> QED BY <1>1, <1>2, <1>3, <1>4, <1>5 DEF SectionStep

\* The steps of a create request: the metadata, the receipt, the answer.
LEMMA CreationKeeps ==
  ASSUME KeyInv, TypeOK, MaxFaults = 0, WriteMetadata \/ WriteReceipt \/ Accept
  PROVE  KeyInv'
<1> USE DEF KeyInv
<1>1. CASE WriteMetadata
  <2>1. /\ pc = "write metadata" /\ pc' = "write receipt" /\ phase' = phase /\ Aside
    BY <1>1, NoFault DEF WriteMetadata, Save, Goto, Rest, Aside
  <2>2. pc \in Creation /\ pc' \in Creation
    BY <2>1 DEF Creation
  <2> QED BY <2>1, <2>2 DEF Aside, OneReceipt, CacheHoldsReceipts, AnsweredFromDisk, DownIsIdle
<1>2. CASE WriteReceipt
  <2>1. /\ pc = "write receipt" /\ pc' = "accept" /\ phase' = phase
        /\ receipts' = idem /\ UNCHANGED <<idem, replied, faults>>
    BY <1>2, NoFault DEF WriteReceipt, Goto, Rest
  <2>2. pc \in Creation /\ pc' \notin Creation /\ phase # "down"
    BY <2>1 DEF Creation, DownIsIdle
  <2> QED BY <2>1, <2>2 DEF OneReceipt, CacheHoldsReceipts, AnsweredFromDisk, DownIsIdle
<1>3. CASE Accept
  <2>1. /\ pc = "accept" /\ pc' = "idle" /\ phase' = phase /\ UNCHANGED <<receipts, idem, faults>>
        /\ \/ replied' = replied
           \/ replied' = [k \in Keys |-> IF idem[k] = {cur} THEN replied[k] \cup {cur} ELSE replied[k]]
    BY <1>3, PublishAside DEF Accept, Leave, Goto, Enter
  <2>2. pc \notin Creation /\ pc' \notin Creation /\ phase # "down"
    BY <2>1 DEF Creation, DownIsIdle
  <2>3. idem = receipts
    BY <2>2 DEF CacheHoldsReceipts
  <2>4. \A k \in Keys : replied'[k] \subseteq receipts[k]
    BY <2>1, <2>3 DEF AnsweredFromDisk
  <2> QED BY <2>1, <2>2, <2>3, <2>4 DEF OneReceipt, CacheHoldsReceipts, AnsweredFromDisk, DownIsIdle
<1> QED BY <1>1, <1>2, <1>3

\* The requests that a client sends.
LEMMA ClientKeeps ==
  ASSUME KeyInv, TypeOK, Client
  PROVE  KeyInv'
<1>0. idem \in [Keys -> SUBSET Runs] /\ replied \in [Keys -> SUBSET Runs]
  BY DEF TypeOK, RestType
<1>1. ASSUME NEW k \in Keys \cup {NoKey}, NEW r \in Runs, Create(k, r)
      PROVE  KeyInv'
  <2>1. /\ phase = "ready" /\ pc = "idle" /\ pc' = "write metadata" /\ phase' = phase
        /\ UNCHANGED <<receipts, replied, faults>>
        /\ \/ idem' = idem
           \/ k \in Keys /\ idem[k] = {} /\ idem' = [idem EXCEPT ![k] = {r}]
    BY <1>1 DEF Create, Idle, Enter, disk, env
  <2>2. pc \notin Creation /\ pc' \in Creation
    BY <2>1 DEF Creation
  <2>3. idem = receipts
    BY <2>1, <2>2 DEF KeyInv, CacheHoldsReceipts
  <2>4. \A j \in Keys : /\ idem[j] \subseteq idem'[j]
                        /\ idem'[j] = idem[j] \/ idem'[j] = {r}
    BY <1>0, <2>1
  <2>5. OneReceipt'
    BY <2>1, <2>4 DEF KeyInv, OneReceipt
  <2>6. CacheHoldsReceipts'
    BY <2>1, <2>2, <2>3, <2>4 DEF CacheHoldsReceipts
  <2>7. AnsweredFromDisk' /\ DownIsIdle' /\ faults' = 0
    BY <2>1 DEF KeyInv, AnsweredFromDisk, DownIsIdle
  <2> QED BY <2>5, <2>6, <2>7 DEF KeyInv
<1>2. ASSUME NEW k \in Keys, Replay(k)
      PROVE  KeyInv'
  <2>1. PICK r \in idem[k] : replied' = Reply(k, r)
    BY <1>2 DEF Replay
  <2>2. /\ phase = "ready" /\ pc = "idle" /\ pc' = pc /\ phase' = phase
        /\ UNCHANGED <<receipts, idem, faults>>
    BY <1>2 DEF Replay, Idle, disk, env
  <2>3. pc \notin Creation
    BY <2>2 DEF Creation
  <2>4. idem = receipts
    BY <2>2, <2>3 DEF KeyInv, CacheHoldsReceipts
  <2>5. \A j \in Keys : replied'[j] = replied[j] \/ (j = k /\ replied'[j] = replied[j] \cup {r})
    BY <1>0, <2>1 DEF Reply
  <2>6. \A j \in Keys : replied'[j] \subseteq receipts[j]
    BY <2>1, <2>4, <2>5 DEF KeyInv, AnsweredFromDisk
  <2> QED BY <2>2, <2>3, <2>4, <2>6
          DEF KeyInv, OneReceipt, CacheHoldsReceipts, AnsweredFromDisk, DownIsIdle
<1>3. ASSUME NEW r \in Runs, Get(r) \/ \E c \in Callers : RequestCancel(c, r)
      PROVE  KeyInv'
  <2>1. /\ Aside /\ phase = "ready" /\ pc = "idle" /\ pc' \in {"idle", "request"} /\ phase' = phase
    BY <1>3 DEF Get, RequestCancel, Idle, Enter, Aside, disk, env
  <2> QED BY <2>1, AsideKeeps DEF Creation
<1> QED BY <1>1, <1>2, <1>3 DEF Client

\* A crash forgets the cache, a restart reads it back.
LEMMA ProcessKeeps ==
  ASSUME KeyInv, TypeOK, Crash \/ Restart \/ Recover
  PROVE  KeyInv'
<1> USE DEF KeyInv
<1>1. CASE Crash
  <2>1. /\ phase' = "down" /\ pc' = "idle" /\ idem' = [k \in Keys |-> {}]
        /\ UNCHANGED <<receipts, replied, faults>>
    BY <1>1 DEF Crash, disk
  <2>2. pc' \notin Creation
    BY <2>1 DEF Creation
  <2> QED BY <2>1, <2>2 DEF OneReceipt, CacheHoldsReceipts, AnsweredFromDisk, DownIsIdle
<1>2. CASE Restart
  <2>1. /\ phase' = "booting" /\ idem' = receipts /\ UNCHANGED <<receipts, replied, faults, pc>>
    BY <1>2 DEF Restart, disk, env
  <2> QED BY <2>1 DEF OneReceipt, CacheHoldsReceipts, AnsweredFromDisk, DownIsIdle
<1>3. CASE Recover
  <2>1. /\ Aside /\ phase = "booting" /\ phase' \in {"booting", "ready"}
        /\ pc = "idle" /\ pc' \in {"idle", "write recovered"}
    BY <1>3 DEF Recover, Aside, disk, env
  <2> QED BY <2>1, AsideKeeps DEF Creation
<1> QED BY <1>1, <1>2, <1>3

\* Every step keeps the receipts in order, as long as no write fails.
LEMMA StepKeepsKeys ==
  ASSUME KeyInv, TypeOK, MaxFaults = 0, [Next]_vars
  PROVE  KeyInv'
<1>1. CASE SectionStep
  <2>1. CASE WriteMetadata \/ WriteReceipt \/ Accept
    BY <2>1, CreationKeeps
  <2>2. CASE ~WriteMetadata /\ ~WriteReceipt /\ ~Accept
    <3>1. Aside /\ pc \notin Creation \cup {"idle"} /\ pc' \notin Creation /\ phase' \in {phase, "ready"}
      BY <1>1, <2>2, SectionAside
    <3>2. phase # "down"
      BY <3>1 DEF KeyInv, DownIsIdle
    <3> QED BY <3>1, <3>2, AsideKeeps
  <2> QED BY <2>1, <2>2
<1>2. CASE Client
  BY <1>2, ClientKeeps
<1>3. ASSUME NEW r \in Runs, StartTask(r) \/ Progress(r) \/ WorkEnds(r) \/ DropTask(r)
      PROVE  KeyInv'
  <2>1. /\ phase = "ready" /\ pc = "idle" /\ phase' = phase
        /\ pc' \in {"idle", "start", "save result", "cancel", "fail steps", "fail"}
        /\ UNCHANGED <<idem, replied>>
    BY <1>3 DEF StartTask, Progress, WorkEnds, WorkReturns, WorkCancelled, WorkFails, DropTask,
       AtWork, Idle, Enter, Rest
  <2>2. CASE Progress(r)
    <3>1. UNCHANGED <<receipts, faults>>
      BY <2>2, PublishAside DEF Progress, KeyInv
    <3> QED BY <2>1, <3>1, AsideKeeps DEF Aside, Creation
  <2>3. CASE StartTask(r) \/ WorkEnds(r) \/ DropTask(r)
    <3>1. UNCHANGED <<receipts, faults>>
      BY <2>3 DEF StartTask, WorkEnds, WorkReturns, WorkCancelled, WorkFails, DropTask, disk, env
    <3> QED BY <2>1, <3>1, AsideKeeps DEF Aside, Creation
  <2> QED BY <1>3, <2>2, <2>3
<1>4. ASSUME NEW c \in Callers, ResumeCancel(c)
      PROVE  KeyInv'
  <2>1. Aside /\ phase = "ready" /\ pc = "idle" /\ pc' \in {"idle", "confirm"} /\ phase' = phase
    BY <1>4 DEF ResumeCancel, Idle, Enter, Aside, disk, env
  <2> QED BY <2>1, AsideKeeps DEF Creation
<1>5. CASE Crash \/ Restart \/ Recover
  BY <1>5, ProcessKeeps
<1>6. CASE UNCHANGED vars
  BY <1>6 DEF vars, KeyInv, OneReceipt, CacheHoldsReceipts, AnsweredFromDisk, DownIsIdle
<1> QED BY <1>1, <1>2, <1>3, <1>4, <1>5, <1>6 DEF Next

\* While no write fails, a client that repeats a create request with the same
\* key is answered with the same run, whatever crashes come between the first
\* answer, the writes behind it and the repetition.
THEOREM KeyNamesOneRun == MaxFaults = 0 => (Spec => []OneRunPerKey)
<1> SUFFICES ASSUME MaxFaults = 0 PROVE Spec => []OneRunPerKey
  OBVIOUS
<1>1. Init => KeyInv
  <2>1. "idle" \notin Creation
    BY DEF Creation
  <2> QED BY <2>1 DEF Init, KeyInv, OneReceipt, CacheHoldsReceipts, AnsweredFromDisk, DownIsIdle
<1>2. TypeOK /\ KeyInv /\ [Next]_vars => KeyInv'
  BY StepKeepsKeys
<1>3. KeyInv => OneRunPerKey
  <2> SUFFICES ASSUME KeyInv, NEW k \in Keys PROVE Cardinality(replied[k]) <= 1
    BY DEF OneRunPerKey
  <2>1. replied[k] = {} \/ \E r \in Runs : replied[k] = {r}
    BY DEF KeyInv, OneReceipt, AnsweredFromDisk
  <2>2. CASE replied[k] = {}
    BY <2>2, FS_EmptySet
  <2>3. ASSUME NEW r \in Runs, replied[k] = {r} PROVE Cardinality(replied[k]) <= 1
    <3>1. Cardinality({r}) = 1
      BY FS_Singleton
    <3> QED BY <2>3, <3>1
  <2> QED BY <2>1, <2>2, <2>3
<1> QED BY <1>1, <1>2, <1>3, TypeCorrect, PTL DEF Spec

-----------------------------------------------------------------------------
(* The runs found running. *)

\* What the stream of such a run may hold, and what GET may show of it.
FoundEvent == {"run.accepted", "run.started", "run.failed", "run.cancel_requested"}
FoundShown == {"none", "accepted", "running", "failed"}

\* What holds of such a run: it is stored as failed once requests are served,
\* recovery holds it as failed, and nothing that executes or confirms is about it.
Found(r) ==
  /\ meta[r].status \in {"running", "failed"}
  /\ phase = "ready" => meta[r].status = "failed"
  /\ pc \in Recovering => mem[r].status = "failed"
  /\ task[r] = "none"
  /\ \A k \in Keys : r \notin idem[k] /\ r \notin receipts[k]
  /\ \A e \in Event \ FoundEvent : ~Logged(r, e)
  /\ proj[r].status \in FoundShown
  /\ cur = r => pc \in Recovering \cup {"idle", "request"}
  /\ pc = "save recovered" /\ cur = r => proj[r].status = "failed"

\* A step that is about other runs.
Untouched(r) ==
  /\ meta'[r] = meta[r] /\ mem'[r] = mem[r] /\ log'[r] = log[r]
  /\ proj'[r] = proj[r] /\ task'[r] = task[r]

\* The cache holds such a run as failed whenever a handler looks at it.
LEMMA FoundInCache ==
  ASSUME IInv, NEW r \in Runs, Found(r), phase = "ready" \/ pc \in Recovering
  PROVE  /\ mem[r].status = "failed" /\ Terminal(mem[r]) /\ mem[r] # Absent
         /\ pc # "write recovered" => meta[r] = mem[r]
<1>1. phase = "ready" \/ pc # "idle"
  BY DEF Recovering
<1>2. meta[r] # Absent
  BY AcceptedFacts DEF Found
<1>3. mem[r] = meta[r] \/ (pc = "write recovered" /\ mem[r] = Interrupted(meta[r]))
  BY <1>1, <1>2 DEF IInv, ControlInv, CacheIsDisk
<1>4. mem[r].status = "failed"
  <2>1. CASE pc \in Recovering
    BY <2>1 DEF Found
  <2>2. CASE pc \notin Recovering
    BY <2>2, <1>3 DEF Found, Recovering
  <2> QED BY <2>1, <2>2
<1> QED BY <1>3, <1>4, AcceptedFacts DEF Terminal, TerminalStatus

\* Hydrated from such a cache and such a stream, it shows no success and no cancel.
LEMMA FoundIsShown ==
  ASSUME IInv, NEW r \in Runs, Found(r), phase = "ready" \/ pc \in Recovering
  PROVE  ProjectionOf(r).status \in FoundShown
<1>1. mem[r].status \in FoundShown
  BY FoundInCache DEF FoundShown
<1>2. ASSUME NEW e \in DOMAIN Effect, Logged(r, e) PROVE Effect[e] \in FoundShown
  <2>1. e \in FoundEvent
    BY <1>2, EffectType DEF Found
  <2> QED BY <2>1, <1>2, EffectFacts DEF FoundEvent, FoundShown
<1>3. Hydrated(r).status \in FoundShown
  BY <1>1, <1>2, HydratedFacts DEF IInv
<1> QED BY <1>3 DEF ProjectionOf, Found

\* A step about other runs, outside recovery, keeps what holds of the run.
LEMMA UntouchedKeeps ==
  ASSUME NEW r \in Runs, Found(r), Untouched(r), phase' = phase, pc' \notin Recovering,
         cur' = r => pc' \in {"idle", "request"},
         idem' = idem, receipts' \in {receipts, idem}
  PROVE  Found(r)'
BY DEF Found, Untouched, Recovering, Logged

\* A publication for another run does not touch this one.
LEMMA PublishElsewhere ==
  ASSUME TypeOK, NEW r \in Runs, NEW s \in Runs \ {r}, NEW e,
         Publish(s, e) \/ PublishRaises(s, e)
  PROVE  /\ meta'[r] = meta[r] /\ log'[r] = log[r] /\ proj'[r] = proj[r]
         /\ receipts' = receipts
BY DEF TypeOK, DataType, Publish, PublishRaises, Append_, disk

\* Neither does a write for another run.
LEMMA SaveElsewhere ==
  ASSUME TypeOK, NEW r \in Runs, NEW s \in Runs \ {r}, NEW x, Save(s, x) \/ WriteRaises
  PROVE  meta'[r] = meta[r] /\ log'[r] = log[r] /\ mem'[r] = mem[r] /\ receipts' = receipts
BY DEF TypeOK, DataType, Save, WriteRaises, disk

\* The sections of a create request, of an execution and of a confirmation are
\* never about a run found running, so they leave it alone.
LEMMA SectionElsewhere ==
  ASSUME TypeOK, NEW r \in Runs, Found(r),
         \/ WriteMetadata \/ WriteReceipt \/ Accept
         \/ AnnounceStart \/ AnnouncePhase \/ AnnouncePlan
         \/ SaveResult \/ CompleteSteps \/ Persist \/ ClosePhase \/ CloseReport \/ CloseRun
         \/ AnnounceCancelled \/ SaveCancelled
         \/ FailSteps \/ AnnounceFailed \/ SaveFailed
         \/ ConfirmCancel \/ SaveConfirmed
  PROVE  Found(r)'
<1>0. /\ cur \in Runs /\ task \in [Runs -> TaskState]
      /\ pc \notin Recovering \cup {"idle", "request"} => cur \in Runs \ {r}
  BY DEF Found, TypeOK, ControlType
<1>1. CASE \/ AnnounceStart \/ AnnouncePhase \/ AnnouncePlan \/ CompleteSteps
           \/ AnnounceCancelled \/ FailSteps \/ AnnounceFailed \/ ConfirmCancel
  <2>1. \E e : Publish(cur, e) \/ PublishRaises(cur, e)
    BY <1>1 DEF AnnounceStart, AnnouncePhase, AnnouncePlan, CompleteSteps,
       AnnounceCancelled, FailSteps, AnnounceFailed, ConfirmCancel, Announce
  <2>2. /\ pc \notin Recovering \cup {"idle", "request"} /\ pc' \notin Recovering
        /\ UNCHANGED <<mem, cur>> /\ Rest
    BY <1>1 DEF AnnounceStart, AnnouncePhase, AnnouncePlan, CompleteSteps,
       AnnounceCancelled, FailSteps, AnnounceFailed, ConfirmCancel,
       Announce, Goto, Leave, TaskReturns, TaskRaises, Recovering
  <2>3. UNCHANGED task \/ \E how : TaskEnds(cur, how)
    BY <1>1 DEF AnnounceStart, AnnouncePhase, AnnouncePlan, CompleteSteps,
       AnnounceCancelled, FailSteps, AnnounceFailed, ConfirmCancel,
       Announce, Goto, Leave, TaskReturns, TaskRaises
  <2>4. task'[r] = task[r]
    BY <1>0, <2>2, <2>3 DEF TaskEnds
  <2>5. Untouched(r) /\ receipts' = receipts
    BY <1>0, <2>1, <2>2, <2>4, PublishElsewhere DEF Untouched
  <2> QED BY <1>0, <2>2, <2>5, UntouchedKeeps DEF Rest
<1>2. CASE Accept
  <2>1. /\ pc = "accept" /\ pc' = "idle" /\ cur' = cur /\ UNCHANGED <<mem, idem, phase>>
        /\ Publish(cur, "run.accepted") \/ PublishRaises(cur, "run.accepted")
        /\ task' = task \/ task' = Schedule(cur)
    BY <1>2 DEF Accept, Leave, Goto, Enter
  <2>2. cur \in Runs \ {r}
    BY <1>0, <2>1 DEF Recovering
  <2>3. task'[r] = task[r]
    BY <1>0, <2>1, <2>2 DEF Schedule
  <2>4. Untouched(r) /\ receipts' = receipts
    BY <2>1, <2>2, <2>3, PublishElsewhere DEF Untouched
  <2> QED BY <2>1, <2>4, UntouchedKeeps DEF Recovering
<1>3. CASE ClosePhase \/ CloseReport \/ CloseRun
  <2>1. /\ pc \in Closing /\ pc' \notin Recovering /\ UNCHANGED <<mem, cur>> /\ Rest
        /\ UNCHANGED task \/ \E how : TaskEnds(cur, how)
        /\ UNCHANGED <<disk, proj>> \/ \E e : Append_(cur, e)
    BY <1>3 DEF ClosePhase, CloseReport, CloseRun, Close, Goto, TaskReturns, Closing, Recovering
  <2>2. cur \in Runs \ {r}
    BY <1>0, <2>1 DEF Closing, Recovering
  <2>3. task'[r] = task[r]
    BY <1>0, <2>1, <2>2 DEF TaskEnds
  <2>4. meta'[r] = meta[r] /\ log'[r] = log[r] /\ proj'[r] = proj[r] /\ receipts' = receipts
    BY <2>1, <2>2 DEF Append_, disk, TypeOK, DataType
  <2> QED BY <2>1, <2>2, <2>3, <2>4, UntouchedKeeps DEF Untouched, Rest
<1>4. CASE WriteMetadata \/ Persist \/ SaveCancelled \/ SaveFailed \/ SaveConfirmed
  <2>1. /\ pc \notin Recovering \cup {"idle", "request"} /\ pc' \notin Recovering
        /\ UNCHANGED <<proj, cur>> /\ Rest
    BY <1>4 DEF WriteMetadata, Persist, SaveCancelled, SaveFailed, SaveConfirmed,
       SaveProjection, Goto, Leave, TaskReturns, TaskRaises, Recovering
  <2>2. \E x : Save(cur, x) \/ WriteRaises
    BY <1>4 DEF WriteMetadata, Persist, SaveCancelled, SaveFailed, SaveConfirmed, SaveProjection
  <2>3. UNCHANGED task \/ \E how : TaskEnds(cur, how)
    BY <1>4 DEF WriteMetadata, Persist, SaveCancelled, SaveFailed, SaveConfirmed,
       SaveProjection, Goto, Leave, TaskReturns, TaskRaises
  <2>4. task'[r] = task[r]
    BY <1>0, <2>1, <2>3 DEF TaskEnds
  <2>5. Untouched(r) /\ receipts' = receipts
    BY <1>0, <2>1, <2>2, <2>4, SaveElsewhere DEF Untouched
  <2> QED BY <1>0, <2>1, <2>5, UntouchedKeeps DEF Rest
<1>5. CASE WriteReceipt
  <2>1. /\ pc = "write receipt" /\ pc' \in {"accept", "idle"} /\ Rest
        /\ UNCHANGED <<cur, task, meta, mem, log>> /\ receipts' \in {receipts, idem}
        /\ proj' = proj \/ proj' = [proj EXCEPT ![cur] = Accepted]
    BY <1>5 DEF WriteReceipt, Goto, Leave, WriteRaises, disk
  <2>2. cur \in Runs \ {r}
    BY <1>0, <2>1 DEF Recovering
  <2>3. Untouched(r)
    BY <2>1, <2>2 DEF Untouched, TypeOK, DataType
  <2> QED BY <2>1, <2>2, <2>3, UntouchedKeeps DEF Rest, Recovering
<1>6. CASE SaveResult
  <2>1. /\ pc = "save result" /\ pc' \notin Recovering /\ Rest
        /\ UNCHANGED <<cur, task, meta, mem, log, receipts, proj>>
    BY <1>6 DEF SaveResult, Goto, WriteRaises, disk, Recovering
  <2>2. cur \in Runs \ {r}
    BY <1>0, <2>1 DEF Recovering
  <2> QED BY <2>1, <2>2, UntouchedKeeps DEF Untouched, Rest
<1> QED BY <1>1, <1>2, <1>3, <1>4, <1>5, <1>6

\* One event of such a run appended to its stream, and what GET then shows.
LEMMA FoundPublishes ==
  ASSUME TypeOK, NEW r \in Runs, Found(r), NEW s \in Runs, NEW e \in FoundEvent,
         Publish(s, e) \/ PublishRaises(s, e)
  PROVE  /\ UNCHANGED <<meta, receipts>>
         /\ \A x \in Event \ FoundEvent : ~Logged(r, x)'
         /\ proj'[r].status \in FoundShown
<1>0. e \in Event
  BY Named DEF FoundEvent
<1>1. CASE Publish(s, e)
  <2>1. Append_(s, e)
    BY <1>1 DEF Publish
  <2>2. \A x \in Event \ FoundEvent : ~Logged(r, x)'
    BY <1>0, <2>1, AppendStep DEF Found
  <2>3. e \in DOMAIN Effect => Effect[e] \in FoundShown
    BY EffectFacts DEF FoundEvent, FoundShown
  <2>4. proj'[r].status \in FoundShown
    <3>1. \/ proj'[r].status = proj[r].status
          \/ e \in DOMAIN Effect /\ proj'[r].status = Effect[e]
      BY <1>0, <2>1, AppendStep
    <3> QED BY <2>3, <3>1 DEF Found
  <2> QED BY <2>1, <2>2, <2>4 DEF Append_
<1>2. CASE PublishRaises(s, e)
  BY <1>2 DEF PublishRaises, Found, Logged, disk
<1> QED BY <1>1, <1>2

\* A cancel request is announced on the run, which has no task and has ended.
LEMMA FoundIsAsked ==
  ASSUME IInv, NEW r \in Runs, Found(r), NEW c \in Callers, AnnounceRequest(c)
  PROVE  Found(r)'
<1>0. TypeOK /\ cur \in Runs /\ task \in [Runs -> TaskState]
  BY DEF IInv, TypeOK, ControlType
<1>1. /\ pc = "request" /\ pc' \in {"idle", "confirm"} /\ UNCHANGED <<mem, cur>> /\ Rest
      /\ Publish(cur, "run.cancel_requested") \/ PublishRaises(cur, "run.cancel_requested")
      /\ pc' = "confirm" => ~Terminal(mem[cur])
      /\ \/ task' = task
         \/ Live(cur) /\ task' = [task EXCEPT ![cur] = IF @ = "scheduled" THEN "dropped" ELSE @]
  BY DEF AnnounceRequest
<1>2. phase = "ready"
  BY <1>1 DEF IInv, ControlInv, SectionOwners, Recovering
<1>3. cur = r => pc' = "idle"
  BY <1>1, <1>2, FoundInCache
<1>4. task'[r] = "none"
  BY <1>0, <1>1 DEF Found, Live
<1>5. /\ UNCHANGED <<meta, receipts>>
      /\ \A x \in Event \ FoundEvent : ~Logged(r, x)'
      /\ proj'[r].status \in FoundShown
  <2>1. "run.cancel_requested" \in FoundEvent
    BY DEF FoundEvent
  <2> QED BY <1>0, <1>1, <2>1, FoundPublishes
<1> QED BY <1>1, <1>3, <1>4, <1>5 DEF Found, Rest, Recovering

\* Recovery writes the run as failed, ends its stream and saves what it then
\* shows; an interrupted recovery leaves it for the next one.
LEMMA FoundIsRecovered ==
  ASSUME IInv, NEW r \in Runs, Found(r),
         \/ RecoverAccepted \/ RecoverFailed \/ SaveRecovered \/ FinishRecovery
         \/ \E s \in Runs : WriteRecovered(s) \/ NextRecovered(s)
  PROVE  Found(r)'
<1>0. TypeOK /\ cur \in Runs /\ meta \in [Runs -> Resource] /\ mem \in [Runs -> Resource]
      /\ proj \in [Runs -> Resource] /\ log \in [Runs -> Seq(Event)]
  BY DEF IInv, TypeOK, ControlType, DataType
<1>1. CASE RecoverAccepted
  <2>1. /\ pc = "recover accept" /\ pc' \in {"recover fail", "idle"}
        /\ UNCHANGED <<mem, cur, task>> /\ Rest
        /\ Publish(cur, "run.accepted") \/ PublishRaises(cur, "run.accepted")
    BY <1>1 DEF RecoverAccepted, Announce, Goto, Leave
  <2>2. "run.accepted" \in FoundEvent
    BY DEF FoundEvent
  <2>3. /\ UNCHANGED <<meta, receipts>>
        /\ \A x \in Event \ FoundEvent : ~Logged(r, x)'
        /\ proj'[r].status \in FoundShown
    BY <1>0, <2>1, <2>2, FoundPublishes
  <2>4. pc \in Recovering /\ pc' \in Recovering \cup {"idle"} /\ pc' # "save recovered"
    BY <2>1 DEF Recovering
  <2> QED BY <2>1, <2>3, <2>4 DEF Found, Rest
<1>2. CASE RecoverFailed
  <2>1. /\ pc = "recover fail" /\ UNCHANGED <<mem, cur, task>> /\ Rest
        /\ \/ pc' = "save recovered" /\ Publish(cur, "run.failed")
           \/ pc' = "idle" /\ PublishRaises(cur, "run.failed")
    BY <1>2 DEF RecoverFailed, Announce, Goto, Leave
  <2>2. "run.failed" \in FoundEvent
    BY DEF FoundEvent
  <2>3. /\ UNCHANGED <<meta, receipts>>
        /\ \A x \in Event \ FoundEvent : ~Logged(r, x)'
        /\ proj'[r].status \in FoundShown
    BY <1>0, <2>1, <2>2, FoundPublishes
  <2>4. pc \in Recovering /\ pc' \in Recovering \cup {"idle"}
    BY <2>1 DEF Recovering
  <2>5. pc' = "save recovered" /\ cur = r => proj'[r].status = "failed"
    <3> SUFFICES ASSUME cur = r, Publish(cur, "run.failed") PROVE proj'[r].status = "failed"
      BY <2>1
    <3> DEFINE n == Len(log[r]) + 1
    <3>1. proj'[r] = Apply(proj[r], "run.failed", n)
      BY <1>0 DEF Publish, Append_
    <3>2. n \in Nat /\ proj[r].seq \in Nat /\ Len(log[r]) \in Nat
      BY <1>0 DEF Resource
    <3>3. CASE n > proj[r].seq
      <4>1. "run.failed" \in DOMAIN Effect /\ Effect["run.failed"] = "failed" /\ "run.failed" \in Event
        BY EffectFacts, Named
      <4>2. proj[r] \in Resource
        BY <1>0
      <4> HIDE DEF n
      <4>3. Apply(proj[r], "run.failed", n).status = Effect["run.failed"]
        BY <3>2, <3>3, <4>1, <4>2, ApplyFacts
      <4> QED BY <3>1, <4>1, <4>3
    <3>4. CASE n <= proj[r].seq
      <4>1. proj'[r] = proj[r]
        BY <3>1, <3>4 DEF Apply
      <4>2. proj[r].seq > Len(log[r])
        BY <3>2, <3>4
      <4>3. Terminal(proj[r])
        BY <4>2 DEF IInv, DataInv, Watermarks
      <4> QED BY <4>1, <4>3 DEF Terminal, TerminalStatus, Found, FoundShown
    <3> QED BY <3>2, <3>3, <3>4
  <2> QED BY <2>1, <2>3, <2>4, <2>5 DEF Found, Rest
<1>3. CASE SaveRecovered
  <2>1. /\ pc = "save recovered" /\ UNCHANGED <<proj, cur, task>> /\ Rest
        /\ \/ Save(cur, proj[cur]) /\ pc' = "next recovered"
           \/ WriteRaises /\ pc' = "idle"
    BY <1>3 DEF SaveRecovered, SaveProjection, Goto, Leave
  <2>2. UNCHANGED <<log, receipts>>
    BY <2>1 DEF Save, WriteRaises, disk
  <2>3. mem[r].status = "failed" /\ (cur = r => proj[r].status = "failed")
    BY <2>1 DEF Found, Recovering
  <2>4. meta'[r].status \in {meta[r].status, "failed"} /\ mem'[r].status = "failed"
    BY <1>0, <2>1, <2>3 DEF Save, WriteRaises, disk
  <2>5. pc' \in Recovering \cup {"idle"} /\ pc' # "save recovered"
    BY <2>1 DEF Recovering
  <2> QED BY <2>1, <2>2, <2>4, <2>5 DEF Found, Rest, Logged
<1>4. CASE FinishRecovery
  <2>1. /\ pc = "next recovered" /\ pc' = "idle" /\ phase' = "ready"
        /\ UNCHANGED <<meta, receipts, log, mem, idem, proj, task, cur>>
    BY <1>4 DEF FinishRecovery, disk
  <2>2. meta[r].status = "failed"
    BY <2>1, FoundInCache DEF Recovering
  <2> QED BY <2>1, <2>2 DEF Found, Recovering, Logged
<1>5. ASSUME NEW s \in Runs, WriteRecovered(s) PROVE Found(r)'
  <2>1. /\ pc = "write recovered" /\ pc' \in {"write recovered", "idle"}
        /\ UNCHANGED <<proj, cur, task>> /\ Rest
        /\ Save(s, mem[s]) \/ WriteRaises
    BY <1>5 DEF WriteRecovered, Goto, Leave
  <2>2. UNCHANGED <<log, receipts>>
    BY <2>1 DEF Save, WriteRaises, disk
  <2>3. mem[r].status = "failed"
    BY <2>1 DEF Found, Recovering
  <2>4. meta'[r].status \in {meta[r].status, "failed"} /\ mem'[r].status = "failed"
    BY <1>0, <2>1, <2>3 DEF Save, WriteRaises, disk
  <2>5. pc' \in Recovering \cup {"idle"} /\ pc' # "save recovered"
    BY <2>1 DEF Recovering
  <2> QED BY <2>1, <2>2, <2>4, <2>5 DEF Found, Rest, Logged
<1>6. ASSUME NEW s \in Runs, NextRecovered(s) PROVE Found(r)'
  <2>1. /\ pc \in {"write recovered", "next recovered"}
        /\ pc' \in {"recover accept", "recover fail"}
        /\ UNCHANGED <<meta, receipts, log, mem, idem, task, phase>>
        /\ proj' = [proj EXCEPT ![s] = ProjectionOf(s)]
    BY <1>6 DEF NextRecovered, Hydrate, Enter, disk
  <2>2. pc \in Recovering /\ pc' \in Recovering /\ pc' # "save recovered"
    BY <2>1 DEF Recovering
  <2>3. proj'[r].status \in FoundShown
    BY <1>0, <2>1, <2>2, FoundIsShown DEF Found
  <2> QED BY <2>1, <2>2, <2>3 DEF Found, Logged
<1> QED BY <1>1, <1>2, <1>3, <1>4, <1>5, <1>6

\* No request starts such a run: no key names it and its id is taken.
LEMMA FoundAtRequest ==
  ASSUME IInv, NEW r \in Runs, Found(r), Client
  PROVE  Found(r)'
<1>0. /\ task \in [Runs -> TaskState] /\ mem \in [Runs -> Resource] /\ proj \in [Runs -> Resource]
      /\ idem \in [Keys -> SUBSET Runs]
  BY DEF IInv, TypeOK, ControlType, DataType, RestType
<1>1. ASSUME NEW k \in Keys \cup {NoKey}, NEW s \in Runs, Create(k, s) PROVE Found(r)'
  <2>1. /\ meta[s] = Absent /\ phase = "ready" /\ phase' = phase /\ pc' = "write metadata" /\ cur' = s
        /\ mem' = [mem EXCEPT ![s] = Accepted]
        /\ idem' = idem \/ idem' = [idem EXCEPT ![k] = {s}]
        /\ UNCHANGED <<meta, receipts, log, proj, task>>
    BY <1>1 DEF Create, Fresh, Idle, Enter, disk
  <2>2. s # r
    BY <2>1, AcceptedFacts DEF Found
  <2>3. \A j \in Keys : r \notin idem'[j]
    BY <1>0, <2>1, <2>2 DEF Found
  <2> QED BY <2>1, <2>2, <2>3 DEF Found, Logged, Recovering
<1>2. ASSUME NEW k \in Keys, Replay(k) PROVE Found(r)'
  <2>1. PICK s \in idem[k] : proj' = [proj EXCEPT ![s] = ProjectionOf(s)] /\ task' = Schedule(s)
    BY <1>2 DEF Replay, Hydrate
  <2>2. /\ phase = "ready" /\ UNCHANGED <<meta, receipts, log, mem, idem, phase, pc, cur>>
    BY <1>2 DEF Replay, Idle, disk
  <2>3. s \in Runs /\ s # r
    BY <1>0 DEF Found
  <2>4. task'[r] = task[r] /\ proj'[r] = proj[r]
    BY <1>0, <2>1, <2>3 DEF Schedule
  <2> QED BY <2>2, <2>4 DEF Found, Logged
<1>3. ASSUME NEW s \in Runs, Get(s) \/ \E c \in Callers : RequestCancel(c, s) PROVE Found(r)'
  <2>1. /\ phase = "ready" /\ pc = "idle" /\ pc' \in {"idle", "request"}
        /\ UNCHANGED <<meta, receipts, log, mem, idem, task, phase>>
        /\ proj' = [proj EXCEPT ![s] = ProjectionOf(s)]
    BY <1>3 DEF Get, RequestCancel, Hydrate, Idle, Enter, disk
  <2>2. proj'[r].status \in FoundShown
    BY <1>0, <2>1, FoundIsShown DEF Found
  <2>3. pc' \notin Recovering
    BY <2>1 DEF Recovering
  <2> QED BY <2>1, <2>2, <2>3 DEF Found, Logged, Recovering
<1> QED BY <1>1, <1>2, <1>3 DEF Client

\* The tasks and the awaiting cancel requests are about other runs.
LEMMA FoundAmongTasks ==
  ASSUME IInv, NEW r \in Runs, Found(r),
         \/ \E s \in Runs : StartTask(s) \/ Progress(s) \/ WorkEnds(s) \/ DropTask(s)
         \/ \E c \in Callers : ResumeCancel(c)
  PROVE  Found(r)'
<1>0. TypeOK /\ task \in [Runs -> TaskState]
  BY DEF IInv, TypeOK, ControlType
<1>1. ASSUME NEW s \in Runs, StartTask(s) \/ Progress(s) \/ WorkEnds(s) \/ DropTask(s)
      PROVE  Found(r)'
  <2>1. /\ task[s] # "none"
        /\ pc = "idle" /\ pc' \notin Recovering /\ UNCHANGED <<phase, mem, idem>>
        /\ \/ pc' = "idle" /\ cur' = cur
           \/ cur' = s
    BY <1>1 DEF StartTask, Progress, WorkEnds, WorkReturns, WorkCancelled, WorkFails, DropTask,
       AtWork, Idle, Enter, Rest, Recovering
  <2>2. s # r
    BY <2>1 DEF Found
  <2>3. task'[r] = task[r]
    BY <1>0, <1>1, <2>2 DEF StartTask, Progress, WorkEnds, WorkReturns, WorkCancelled, WorkFails,
       DropTask, TaskEnds
  <2>4. meta'[r] = meta[r] /\ log'[r] = log[r] /\ proj'[r] = proj[r] /\ receipts' = receipts
    <3>1. CASE Progress(s)
      BY <1>0, <2>2, <3>1, PublishElsewhere DEF Progress
    <3>2. CASE StartTask(s) \/ WorkEnds(s) \/ DropTask(s)
      BY <3>2 DEF StartTask, WorkEnds, WorkReturns, WorkCancelled, WorkFails, DropTask, disk
    <3> QED BY <1>1, <3>1, <3>2
  <2> QED BY <2>1, <2>2, <2>3, <2>4, UntouchedKeeps DEF Untouched
<1>2. ASSUME NEW c \in Callers, ResumeCancel(c) PROVE Found(r)'
  <2>1. /\ phase = "ready" /\ pc = "idle"
        /\ UNCHANGED <<meta, receipts, log, mem, idem, proj, task, phase>>
        /\ \/ UNCHANGED <<pc, cur>>
           \/ pc' = "confirm" /\ cur' = call[c].run /\ ~Terminal(mem[call[c].run])
    BY <1>2 DEF ResumeCancel, Idle, Enter, disk
  <2>2. pc' = "confirm" => cur' # r
    BY <2>1, FoundInCache
  <2> QED BY <2>1, <2>2 DEF Found, Logged, Recovering
<1> QED BY <1>1, <1>2

\* A crash, a restart and the loading of the metadata.
LEMMA FoundAtRestart ==
  ASSUME IInv, NEW r \in Runs, Found(r), Crash \/ Restart \/ Recover
  PROVE  Found(r)'
<1>1. CASE Crash
  <2>1. /\ phase' = "down" /\ pc' = "idle" /\ UNCHANGED <<meta, receipts, log>>
        /\ task'[r] = "none" /\ proj'[r] = Absent /\ \A k \in Keys : idem'[k] = {}
    BY <1>1 DEF Crash, NoTask, disk
  <2> QED BY <2>1, AcceptedFacts DEF Found, FoundShown, Logged, Recovering
<1>2. CASE Restart
  <2>1. /\ phase' = "booting" /\ idem' = receipts
        /\ UNCHANGED <<meta, receipts, log, mem, proj, task, pc, cur>>
    BY <1>2 DEF Restart, disk
  <2> QED BY <2>1 DEF Found, Logged
<1>3. CASE Recover
  <2>1. /\ pc = "idle" /\ pc' \in {"idle", "write recovered"}
        /\ mem'[r] = Interrupted(meta[r])
        /\ batch' = {s \in Runs : meta[s].status = "running"}
        /\ IF batch' = {} THEN phase' = "ready" ELSE phase' = "booting"
        /\ UNCHANGED <<meta, receipts, log, idem, proj, task, cur>>
    BY <1>3 DEF Recover, disk
  <2>2. mem'[r].status = "failed"
    <3>1. meta[r] \in Resource
      BY DEF IInv, TypeOK, DataType
    <3> QED BY <2>1, <3>1 DEF Found, Interrupted, Resource
  <2>3. phase' = "ready" => meta[r].status = "failed"
    BY <2>1 DEF Found
  <2> QED BY <2>1, <2>2, <2>3 DEF Found, Logged, Recovering
<1> QED BY <1>1, <1>2, <1>3

\* What holds of the runs found running.
FoundInv == \A r \in LegacyRuns : Found(r)

\* It holds in every state, whatever crashes and fails.
LEMMA FoundInvariant == Spec => []FoundInv
<1>1. Init => FoundInv
  <2> SUFFICES ASSUME Init, NEW r \in LegacyRuns PROVE Found(r)
    BY DEF FoundInv
  <2>1. r \in Runs
    BY LegacyAssumption
  <2>2. log[r] = <<>> \/ log[r] = <<"run.accepted", "run.started">>
    BY <2>1 DEF Init
  <2>3. \A e \in Event \ FoundEvent : ~Logged(r, e)
    BY <2>2 DEF Logged, FoundEvent
  <2>4. meta[r].status = "running" /\ proj[r] = Absent /\ task[r] = "none"
    BY <2>1 DEF Init, NoTask
  <2> QED BY <2>3, <2>4, AcceptedFacts DEF Init, Found, FoundShown, Recovering
<1>2. IInv /\ FoundInv /\ [Next]_vars => FoundInv'
  <2> SUFFICES ASSUME IInv, FoundInv, [Next]_vars, NEW r \in LegacyRuns PROVE Found(r)'
    BY DEF FoundInv
  <2>1. r \in Runs /\ Found(r) /\ TypeOK
    BY LegacyAssumption DEF IInv, FoundInv
  <2>2. CASE SectionStep
    BY <2>1, <2>2, SectionElsewhere, FoundIsAsked, FoundIsRecovered DEF SectionStep
  <2>3. CASE Client
    BY <2>1, <2>3, FoundAtRequest
  <2>4. CASE \/ \E s \in Runs : StartTask(s) \/ Progress(s) \/ WorkEnds(s) \/ DropTask(s)
             \/ \E c \in Callers : ResumeCancel(c)
    BY <2>1, <2>4, FoundAmongTasks
  <2>5. CASE Crash \/ Restart \/ Recover
    BY <2>1, <2>5, FoundAtRestart
  <2>6. CASE UNCHANGED vars
    BY <2>1, <2>6 DEF vars, Found, Logged
  <2> QED BY <2>2, <2>3, <2>4, <2>5, <2>6 DEF Next
<1> QED BY <1>1, <1>2, Invariant, PTL DEF Spec

\* No request is ever served while a run found running is stored as running or
\* as anything but failed, however often crashes and failing writes interrupt
\* the recovery, and no later request revives it.
THEOREM FoundRunsEndFailed == Spec => []FoundRunningIsFailed
<1>1. FoundInv => FoundRunningIsFailed
  BY DEF FoundInv, FoundRunningIsFailed, Found, Idle
<1> QED BY <1>1, FoundInvariant, PTL

-----------------------------------------------------------------------------
(* The stored outcomes, as long as no write fails.  A failing append of the *)
(* last closing event is what revises one: the handler then stores the run  *)
(* as failed.                                                               *)

\* Where recovery is at one of its runs, and where a handler stores what it announced.
AtRecovered == {"recover accept", "recover fail", "save recovered"}
Storing == {"save cancelled", "save confirmed", "save failed"}

\* Who may overwrite which outcome: a handler saves terminal projections over
\* unfinished runs only, for it announced first what it saves, recovery touches
\* runs found running only, and a completed run that reaches the error handler
\* has a stream that has ended, so that the handler's own event is refused.
OutcomeInv ==
  /\ faults = 0
  /\ \A r \in Runs : meta[r].status = "running" => r \in LegacyRuns
  /\ batch \subseteq LegacyRuns
  /\ pc \in AtRecovered => cur \in LegacyRuns
  /\ pc = "write metadata" => meta[cur] = Absent
  /\ pc \in {"confirm", "save confirmed", "save failed"} => ~Terminal(meta[cur])
  /\ pc = "fail" /\ Terminal(meta[cur]) => HasTerminal(cur)
  /\ pc \in Storing => Terminal(proj[cur])

\* A step that revises no stored outcome.
OutcomesStay == \A r \in Runs : Terminal(meta[r]) => meta'[r].status = meta[r].status

\* The labels OutcomeInv says something about.
Sensitive ==
  AtRecovered \cup Storing \cup {"write metadata", "confirm", "fail"}

\* A step that stores nothing and leads to none of them.
LEMMA NeutralStep ==
  ASSUME OutcomeInv, UNCHANGED <<meta, faults>>, batch' \subseteq LegacyRuns,
         pc' \notin Sensitive
  PROVE  OutcomeInv' /\ OutcomesStay
BY DEF OutcomeInv, OutcomesStay, Sensitive, Storing

\* A step that stores x for the run of the section and leads to none of them.
LEMMA StoringStep ==
  ASSUME TypeOK, OutcomeInv, NEW x, Save(cur, x), UNCHANGED <<batch>>, pc' \notin Sensitive,
         ~Terminal(meta[cur]) \/ x.status = meta[cur].status,
         x.status = "running" => cur \in LegacyRuns
  PROVE  OutcomeInv' /\ OutcomesStay
<1>1. cur \in Runs /\ meta' = [meta EXCEPT ![cur] = x] /\ meta \in [Runs -> Resource] /\ faults' = faults
  BY DEF TypeOK, DataType, ControlType, Save
<1>2. \A r \in Runs : meta'[r] = IF r = cur THEN x ELSE meta[r]
  BY <1>1
<1>3. \A r \in Runs : meta'[r].status = "running" => r \in LegacyRuns
  BY <1>2 DEF OutcomeInv
<1>4. OutcomesStay
  BY <1>2 DEF OutcomesStay
<1> QED BY <1>1, <1>3, <1>4 DEF OutcomeInv, Sensitive, Storing

\* The cache tells an unfinished run from one that has its outcome.
LEMMA CacheTellsUnfinished ==
  ASSUME IInv, phase = "ready", pc # "write recovered", NEW r \in Runs, ~Terminal(mem[r])
  PROVE  ~Terminal(meta[r])
BY AcceptedFacts DEF IInv, ControlInv, CacheIsDisk

\* The run of a task at work, before its completion, is unfinished.
LEMMA WorkIsUnfinished ==
  ASSUME IInv, pc \in Working \cup (Failing \ {"fail", "save failed"})
  PROVE  ~Terminal(meta[cur])
<1>1. task[cur] = "working" /\ cur \in Runs
  BY DEF IInv, TypeOK, ControlType, ControlInv, SectionOwners
<1> QED BY <1>1 DEF IInv, ControlInv, WorkingIsUnfinished, Working, Failing, Closing

\* A terminal event that is published ends what GET shows.
LEMMA PublishEnds ==
  ASSUME IInv, NEW r \in Runs, NEW e \in TerminalEvent, Publish(r, e)
  PROVE  Terminal(proj'[r])
<1> DEFINE n == Len(log[r]) + 1
<1>1. /\ proj[r] \in Resource /\ proj[r].seq \in Nat /\ Len(log[r]) \in Nat /\ n \in Nat
      /\ proj \in [Runs -> Resource]
  BY DEF IInv, TypeOK, DataType, Resource
<1>2. proj'[r] = Apply(proj[r], e, n)
  BY <1>1 DEF Publish, Append_
<1>3. e \in Event /\ e \in DOMAIN Effect /\ Effect[e] \in TerminalStatus
  BY EffectFacts DEF TerminalEvent, TerminalStatus, Event
<1>4. CASE n > proj[r].seq
  <2> HIDE DEF n
  <2>1. Apply(proj[r], e, n).status = Effect[e]
    BY <1>1, <1>3, <1>4, ApplyFacts
  <2> QED BY <1>2, <1>3, <2>1 DEF Terminal
<1>5. CASE n <= proj[r].seq
  <2>1. proj'[r] = proj[r]
    BY <1>2, <1>5 DEF Apply
  <2>2. proj[r].seq > Len(log[r])
    BY <1>1, <1>5
  <2> QED BY <2>1, <2>2 DEF IInv, DataInv, Watermarks, Terminal
<1> QED BY <1>1, <1>4, <1>5

\* A publication stores nothing and does not fail for the disk.
LEMMA PublishStores ==
  ASSUME MaxFaults = 0, faults = 0, NEW r, NEW e, Publish(r, e) \/ PublishRaises(r, e)
  PROVE  UNCHANGED <<meta, faults>>
BY NoFault DEF Publish, PublishRaises, Append_, disk

\* The sections that lead to no sensitive place.
LEMMA NeutralSections ==
  ASSUME IInv, OutcomeInv, MaxFaults = 0,
         \/ WriteReceipt \/ Accept \/ AnnounceStart \/ AnnouncePhase
         \/ SaveResult \/ ClosePhase \/ CloseReport \/ FinishRecovery
  PROVE  OutcomeInv' /\ OutcomesStay
<1>0. faults = 0 /\ batch \subseteq LegacyRuns
  BY DEF OutcomeInv
<1>1. CASE WriteReceipt
  BY <1>0, <1>1, NoFault, NeutralStep
     DEF WriteReceipt, Goto, Rest, Sensitive, AtRecovered, Storing
<1>2. CASE Accept
  <2>1. UNCHANGED <<meta, faults>>
    BY <1>0, <1>2, PublishStores DEF Accept
  <2> QED BY <1>0, <1>2, <2>1, NeutralStep
          DEF Accept, Enter, Leave, Goto, Sensitive, AtRecovered, Storing
<1>3. CASE AnnounceStart \/ AnnouncePhase
  <2>1. UNCHANGED <<meta, faults>>
    BY <1>0, <1>3, PublishStores DEF AnnounceStart, AnnouncePhase, Announce
  <2>2. batch' = batch /\ pc' \notin Sensitive
    BY <1>3 DEF AnnounceStart, AnnouncePhase, Announce, Rest, Goto, TaskRaises,
       Sensitive, AtRecovered, Storing
  <2> QED BY <1>0, <2>1, <2>2, NeutralStep
<1>4. CASE SaveResult
  BY <1>0, <1>4, NoFault, NeutralStep DEF SaveResult, Goto, Rest, Sensitive, AtRecovered, Storing
<1>5. CASE ClosePhase \/ CloseReport
  <2>1. "progress" \notin TerminalEvent /\ "report.completed" \notin TerminalEvent
    BY DEF TerminalEvent
  <2>2. UNCHANGED <<meta, faults, batch>> /\ pc' \notin Sensitive
    BY <1>0, <1>5, <2>1, NoFault DEF ClosePhase, CloseReport, Close, CanAppend, Append_,
       Goto, Rest, Sensitive, AtRecovered, Storing
  <2> QED BY <1>0, <2>2, NeutralStep
<1>6. CASE FinishRecovery
  BY <1>0, <1>6, NeutralStep DEF FinishRecovery, disk, env, Sensitive, AtRecovered, Storing
<1> QED BY <1>1, <1>2, <1>3, <1>4, <1>5, <1>6

\* The sections of an execution that may lead to the error handler.
LEMMA WorkSections ==
  ASSUME IInv, OutcomeInv, MaxFaults = 0,
         AnnouncePlan \/ CompleteSteps \/ FailSteps \/ Persist \/ CloseRun
  PROVE  OutcomeInv' /\ OutcomesStay
<1>0. faults = 0 /\ batch \subseteq LegacyRuns /\ cur \in Runs /\ TypeOK
  BY DEF OutcomeInv, IInv, TypeOK, ControlType
<1>1. CASE AnnouncePlan \/ CompleteSteps \/ FailSteps
  <2>1. UNCHANGED <<meta, faults>>
    BY <1>0, <1>1, PublishStores DEF AnnouncePlan, CompleteSteps, FailSteps, Announce
  <2>2. /\ pc \in {"plan", "complete steps", "fail steps"} /\ cur' = cur /\ batch' = batch
        /\ pc' \in {"idle", "fail", "persist"}
    BY <1>1 DEF AnnouncePlan, CompleteSteps, FailSteps, Announce, Goto, Leave, TaskRaises, Rest
  <2>3. ~Terminal(meta[cur])
    BY <2>2, WorkIsUnfinished DEF Working, Failing
  <2> QED BY <2>1, <2>2, <2>3 DEF OutcomeInv, OutcomesStay, AtRecovered, Storing, Terminal
<1>2. CASE Persist
  <2>1. pc = "persist" /\ pc' = "close phase" /\ Save(cur, Prepared(cur)) /\ batch' = batch
    BY <1>0, <1>2, NoFault DEF Persist, Goto, Rest
  <2>2. ~Terminal(meta[cur])
    BY <2>1, WorkIsUnfinished DEF Working
  <2>3. Prepared(cur).status # "running"
    BY <2>2, PreparedFacts, EffectFacts DEF IInv, TypeOK, RestType
  <2> QED BY <1>0, <2>1, <2>2, <2>3, StoringStep DEF Sensitive, AtRecovered, Storing
<1>3. CASE CloseRun
  <2>1. /\ batch' = batch /\ cur' = cur
        /\ \/ Append_(cur, ending) /\ faults' = faults /\ pc' = "idle"
           \/ ~CanAppend(cur, ending) /\ UNCHANGED <<disk, faults>> /\ pc' = "fail"
    BY <1>0, <1>3, NoFault DEF CloseRun, Close, Goto, TaskReturns, Rest
  <2>2. UNCHANGED <<meta, faults>>
    BY <2>1 DEF Append_, disk
  <2>3. CASE pc' = "idle"
    BY <1>0, <2>1, <2>2, <2>3, NeutralStep DEF Sensitive, AtRecovered, Storing
  <2>4. CASE pc' = "fail"
    <3>1. HasTerminal(cur) /\ log' = log
      BY <2>1, <2>4 DEF CanAppend, disk
    <3> QED BY <2>1, <2>2, <2>4, <3>1
            DEF OutcomeInv, OutcomesStay, AtRecovered, Storing, HasTerminal
  <2> QED BY <2>1, <2>3, <2>4
<1> QED BY <1>1, <1>2, <1>3

\* The handlers that end a run: announced first, stored then.
LEMMA EndingSections ==
  ASSUME IInv, OutcomeInv, MaxFaults = 0,
         \/ AnnounceCancelled \/ AnnounceFailed \/ ConfirmCancel
         \/ SaveCancelled \/ SaveFailed \/ SaveConfirmed
  PROVE  OutcomeInv' /\ OutcomesStay
<1>0. /\ faults = 0 /\ batch \subseteq LegacyRuns /\ cur \in Runs /\ TypeOK
      /\ "run.cancelled" \in TerminalEvent /\ "run.failed" \in TerminalEvent
  BY DEF OutcomeInv, IInv, TypeOK, ControlType, TerminalEvent
<1>1. CASE AnnounceCancelled \/ AnnounceFailed \/ ConfirmCancel
  <2>1. PICK e \in {"run.cancelled", "run.failed"} :
          /\ Publish(cur, e) \/ PublishRaises(cur, e)
          /\ pc' # "idle" => Publish(cur, e)
    BY <1>1 DEF AnnounceCancelled, AnnounceFailed, ConfirmCancel, Announce, Goto, Leave, TaskRaises
  <2>2. UNCHANGED <<meta, faults>>
    BY <1>0, <2>1, PublishStores
  <2>3. /\ batch' = batch
        /\ pc' = "idle" \/ cur' = cur
        /\ \/ pc' = "idle"
           \/ pc = "cancel" /\ pc' = "save cancelled"
           \/ pc = "fail" /\ pc' = "save failed"
           \/ pc = "confirm" /\ pc' = "save confirmed"
    BY <1>1 DEF AnnounceCancelled, AnnounceFailed, ConfirmCancel, Announce, Goto, Leave, TaskRaises,
       Rest
  <2>4. CASE pc' = "idle"
    BY <1>0, <2>2, <2>3, <2>4, NeutralStep DEF Sensitive, AtRecovered, Storing
  <2>5. CASE pc' # "idle"
    <3>1. Terminal(proj'[cur])
      BY <1>0, <2>1, <2>5, PublishEnds
    <3>2. pc = "fail" => ~Terminal(meta[cur])
      <4>1. ~HasTerminal(cur)
        BY <1>0, <2>1, <2>5 DEF Publish, CanAppend
      <4> QED BY <4>1 DEF OutcomeInv
    <3> QED BY <2>2, <2>3, <2>5, <3>1, <3>2
            DEF OutcomeInv, OutcomesStay, AtRecovered, Storing, Terminal
  <2> QED BY <2>4, <2>5
<1>2. CASE SaveCancelled \/ SaveFailed \/ SaveConfirmed
  <2>1. /\ pc \in Storing /\ pc' = "idle" /\ batch' = batch /\ Save(cur, proj[cur])
    BY <1>0, <1>2, NoFault DEF SaveCancelled, SaveFailed, SaveConfirmed, SaveProjection, Goto, Leave,
       TaskReturns, TaskRaises, Rest, Storing
  <2>2. ~Terminal(meta[cur])
    BY <2>1, WorkIsUnfinished DEF OutcomeInv, Storing, Failing
  <2>3. proj[cur].status # "running"
    BY <2>1 DEF OutcomeInv, Terminal, TerminalStatus
  <2> QED BY <1>0, <2>1, <2>2, <2>3, StoringStep DEF Sensitive, AtRecovered, Storing
<1> QED BY <1>1, <1>2

\* The requests: a new run's metadata, and a cancel request on an idle run.
LEMMA RequestSections ==
  ASSUME IInv, OutcomeInv, MaxFaults = 0, WriteMetadata \/ \E c \in Callers : AnnounceRequest(c)
  PROVE  OutcomeInv' /\ OutcomesStay
<1>0. faults = 0 /\ batch \subseteq LegacyRuns /\ cur \in Runs /\ TypeOK
  BY DEF OutcomeInv, IInv, TypeOK, ControlType
<1>1. CASE WriteMetadata
  <2>1. /\ pc = "write metadata" /\ pc' = "write receipt" /\ batch' = batch /\ Save(cur, mem[cur])
    BY <1>0, <1>1, NoFault DEF WriteMetadata, Goto, Rest
  <2>2. meta[cur] = Absent
    BY <2>1 DEF OutcomeInv
  <2>3. mem[cur] = Absent \/ mem[cur] = Accepted
    BY <1>0, <2>1, <2>2 DEF IInv, ControlInv, CacheIsDisk
  <2>4. ~Terminal(meta[cur]) /\ mem[cur].status # "running"
    BY <2>2, <2>3, AcceptedFacts
  <2> QED BY <1>0, <2>1, <2>4, StoringStep DEF Sensitive, AtRecovered, Storing
<1>2. ASSUME NEW c \in Callers, AnnounceRequest(c) PROVE OutcomeInv' /\ OutcomesStay
  <2>1. /\ pc = "request" /\ pc' \in {"idle", "confirm"} /\ cur' = cur /\ batch' = batch
        /\ pc' = "confirm" => ~Terminal(mem[cur])
    BY <1>2 DEF AnnounceRequest, Rest
  <2>2. UNCHANGED <<meta, faults>>
    BY <1>0, <1>2, PublishStores DEF AnnounceRequest
  <2>3. pc' = "confirm" => ~Terminal(meta[cur])
    <3>1. phase = "ready"
      BY <2>1 DEF IInv, ControlInv, SectionOwners, Recovering
    <3> QED BY <1>0, <2>1, <3>1, CacheTellsUnfinished
  <2> QED BY <2>1, <2>2, <2>3 DEF OutcomeInv, OutcomesStay, AtRecovered, Storing, Terminal
<1> QED BY <1>1, <1>2

\* The recovery: it writes, ends and saves runs found running only.
LEMMA RecoverySections ==
  ASSUME IInv, OutcomeInv, FoundInv, MaxFaults = 0,
         \/ RecoverAccepted \/ RecoverFailed \/ SaveRecovered
         \/ \E s \in Runs : WriteRecovered(s) \/ NextRecovered(s)
  PROVE  OutcomeInv' /\ OutcomesStay
<1>0. faults = 0 /\ batch \subseteq LegacyRuns /\ cur \in Runs /\ TypeOK
  BY DEF OutcomeInv, IInv, TypeOK, ControlType
<1>1. CASE RecoverAccepted \/ RecoverFailed
  <2>1. UNCHANGED <<meta, faults>>
    BY <1>0, <1>1, PublishStores DEF RecoverAccepted, RecoverFailed, Announce
  <2>2. /\ pc \in AtRecovered /\ pc' \in AtRecovered \cup {"idle"} /\ cur' = cur /\ batch' = batch
    BY <1>1 DEF RecoverAccepted, RecoverFailed, Announce, Goto, Leave, Rest, AtRecovered
  <2> QED BY <2>1, <2>2 DEF OutcomeInv, OutcomesStay, AtRecovered, Storing
<1>2. CASE SaveRecovered
  <2>1. /\ pc = "save recovered" /\ pc' = "next recovered" /\ batch' = batch /\ Save(cur, proj[cur])
    BY <1>0, <1>2, NoFault DEF SaveRecovered, SaveProjection, Goto, Rest
  <2>2. cur \in LegacyRuns /\ Found(cur)
    BY <2>1 DEF OutcomeInv, AtRecovered, FoundInv
  <2>3. proj[cur].status = "failed" /\ meta[cur].status = "failed"
    BY <1>0, <2>1, <2>2, FoundInCache DEF Found, Recovering
  <2> QED BY <1>0, <2>1, <2>2, <2>3, StoringStep DEF Sensitive, AtRecovered, Storing
<1>3. ASSUME NEW s \in Runs, WriteRecovered(s) PROVE OutcomeInv' /\ OutcomesStay
  <2>1. /\ pc = "write recovered" /\ pc' = pc /\ s \in LegacyRuns /\ UNCHANGED <<batch, faults>>
        /\ meta' = [meta EXCEPT ![s] = mem[s]]
    BY <1>0, <1>3, NoFault DEF WriteRecovered, Save, Goto, Rest
  <2>2. meta[s].status \in {"running", "failed"} /\ mem[s].status = "failed"
    BY <2>1 DEF FoundInv, Found, Recovering
  <2>3. \A r \in Runs : meta'[r] = IF r = s THEN mem[s] ELSE meta[r]
    BY <1>0, <2>1 DEF TypeOK, DataType
  <2>4. OutcomesStay
    BY <2>2, <2>3 DEF OutcomesStay, Terminal, TerminalStatus
  <2>5. \A r \in Runs : meta'[r].status = "running" => r \in LegacyRuns
    BY <2>1, <2>3 DEF OutcomeInv
  <2> QED BY <2>1, <2>4, <2>5 DEF OutcomeInv, AtRecovered, Storing
<1>4. ASSUME NEW s \in Runs, NextRecovered(s) PROVE OutcomeInv' /\ OutcomesStay
  <2>1. /\ pc' \in {"recover accept", "recover fail"} /\ cur' = s /\ s \in batch
        /\ batch' = batch \ {s} /\ UNCHANGED <<meta, faults>>
    BY <1>4 DEF NextRecovered, Enter, disk, env
  <2> QED BY <2>1 DEF OutcomeInv, OutcomesStay, AtRecovered, Storing
<1> QED BY <1>1, <1>2, <1>3, <1>4

\* The steps taken outside the sections.
LEMMA OutsideSections ==
  ASSUME IInv, OutcomeInv, MaxFaults = 0,
         \/ Client
         \/ \E r \in Runs : StartTask(r) \/ Progress(r) \/ WorkEnds(r) \/ DropTask(r)
         \/ \E c \in Callers : ResumeCancel(c)
         \/ Crash \/ Restart \/ Recover
  PROVE  OutcomeInv' /\ OutcomesStay
<1>0. faults = 0 /\ batch \subseteq LegacyRuns /\ TypeOK
  BY DEF OutcomeInv, IInv
<1>1. ASSUME NEW k \in Keys \cup {NoKey}, NEW r \in Runs, Create(k, r)
      PROVE  OutcomeInv' /\ OutcomesStay
  <2>1. /\ pc' = "write metadata" /\ cur' = r /\ meta[r] = Absent
        /\ UNCHANGED <<meta, faults, batch>>
    BY <1>1 DEF Create, Fresh, Enter, disk, env
  <2> QED BY <2>1 DEF OutcomeInv, OutcomesStay, AtRecovered, Storing
<1>2. CASE \/ \E k \in Keys : Replay(k)
           \/ \E r \in Runs : Get(r)
           \/ \E c \in Callers, r \in Runs : RequestCancel(c, r)
  <2>1. UNCHANGED <<meta, faults, batch>> /\ pc' \in {"idle", "request"}
    BY <1>2 DEF Replay, Get, RequestCancel, Idle, Enter, disk, env
  <2> QED BY <1>0, <2>1, NeutralStep DEF Sensitive, AtRecovered, Storing
<1>3. ASSUME NEW r \in Runs, StartTask(r) \/ Progress(r) \/ WorkEnds(r) \/ DropTask(r)
      PROVE  OutcomeInv' /\ OutcomesStay
  <2>1. /\ Idle /\ UNCHANGED batch
        /\ \/ pc' \in {"idle", "start", "save result", "cancel", "fail steps"}
           \/ pc' = "fail" /\ cur' = r /\ task[r] = "working"
    BY <1>3 DEF StartTask, Progress, WorkEnds, WorkReturns, WorkCancelled, WorkFails, DropTask,
       AtWork, Idle, Enter, Rest
  <2>2. UNCHANGED <<meta, faults>>
    <3>1. CASE Progress(r)
      BY <1>0, <3>1, PublishStores DEF Progress
    <3>2. CASE StartTask(r) \/ WorkEnds(r) \/ DropTask(r)
      BY <3>2 DEF StartTask, WorkEnds, WorkReturns, WorkCancelled, WorkFails, DropTask, disk, env
    <3> QED BY <1>3, <3>1, <3>2
  <2>3. CASE pc' = "fail" /\ cur' = r /\ task[r] = "working"
    <3>1. ~Terminal(meta[r])
      BY <2>1, <2>3 DEF IInv, ControlInv, WorkingIsUnfinished, Idle, Closing
    <3> QED BY <2>1, <2>2, <2>3, <3>1 DEF OutcomeInv, OutcomesStay, AtRecovered, Storing, Terminal
  <2>4. CASE pc' # "fail"
    BY <1>0, <2>1, <2>2, <2>4, NeutralStep DEF Sensitive, AtRecovered, Storing
  <2> QED BY <2>1, <2>3, <2>4
<1>4. ASSUME NEW c \in Callers, ResumeCancel(c) PROVE OutcomeInv' /\ OutcomesStay
  <2>1. /\ Idle /\ UNCHANGED <<meta, faults, batch>>
        /\ \/ pc' = "idle"
           \/ pc' = "confirm" /\ cur' = call[c].run /\ ~Terminal(mem[call[c].run])
    BY <1>4 DEF ResumeCancel, Idle, Enter, disk, env
  <2>2. pc' = "confirm" => ~Terminal(meta[cur'])
    <3>1. call[c].run \in Runs
      BY <1>0 DEF TypeOK, ControlType, CallState
    <3> QED BY <2>1, <3>1, CacheTellsUnfinished DEF Idle
  <2>3. CASE pc' = "idle"
    BY <1>0, <2>1, <2>3, NeutralStep DEF Sensitive, AtRecovered, Storing
  <2>4. CASE pc' = "confirm"
    BY <2>1, <2>2, <2>4 DEF OutcomeInv, OutcomesStay, AtRecovered, Storing, Terminal
  <2> QED BY <2>1, <2>3, <2>4
<1>5. CASE Crash
  BY <1>0, <1>5, NeutralStep DEF Crash, disk, Sensitive, AtRecovered, Storing
<1>6. CASE Restart
  BY <1>6 DEF Restart, disk, env, OutcomeInv, OutcomesStay, Terminal, HasTerminal
<1>7. CASE Recover
  <2>1. batch' \subseteq LegacyRuns
    BY <1>7 DEF Recover, OutcomeInv
  <2> QED BY <1>7, <2>1, NeutralStep DEF Recover, disk, env, Sensitive, AtRecovered, Storing
<1> QED BY <1>1, <1>2, <1>3, <1>4, <1>5, <1>6, <1>7 DEF Client

\* The invariant of the outcomes is inductive, and its steps revise none.
LEMMA OutcomeSteps ==
  ASSUME MaxFaults = 0
  PROVE  /\ Init => OutcomeInv
         /\ IInv /\ FoundInv /\ OutcomeInv /\ [Next]_vars => OutcomeInv' /\ OutcomesStay
<1>1. Init => OutcomeInv
  <2>1. Init => \A r \in Runs : meta[r].status = "running" => r \in LegacyRuns
    BY AcceptedFacts DEF Init
  <2> QED BY <2>1 DEF Init, OutcomeInv, AtRecovered, Storing
<1>2. IInv /\ FoundInv /\ OutcomeInv /\ [Next]_vars => OutcomeInv' /\ OutcomesStay
  <2> SUFFICES ASSUME IInv, FoundInv, OutcomeInv, [Next]_vars PROVE OutcomeInv' /\ OutcomesStay
    OBVIOUS
  <2>1. CASE SectionStep
    BY <2>1, NeutralSections, WorkSections, EndingSections, RequestSections, RecoverySections
       DEF SectionStep
  <2>2. CASE UNCHANGED vars
    BY <2>2 DEF vars, OutcomeInv, OutcomesStay, Terminal, HasTerminal
  <2> QED BY <2>1, <2>2, OutsideSections DEF Next
<1> QED BY <1>1, <1>2

\* It holds in every state while no write fails.
LEMMA OutcomeInvariant == MaxFaults = 0 => (Spec => []OutcomeInv)
<1> SUFFICES ASSUME MaxFaults = 0 PROVE Spec => []OutcomeInv
  OBVIOUS
<1>1. Init => OutcomeInv
  BY OutcomeSteps
<1>2. IInv /\ FoundInv /\ OutcomeInv /\ [Next]_vars => OutcomeInv'
  BY OutcomeSteps
<1> QED BY <1>1, <1>2, Invariant, FoundInvariant, PTL DEF Spec

\* While no write fails, a stored outcome is never revised: not by a cancel that
\* races the task's own end, not by an error handler, not by the recovery after
\* a crash at any point, and not by a task started again.
THEOREM OutcomesAreFinal == MaxFaults = 0 => (Spec => OutcomeIsFinal)
<1> SUFFICES ASSUME MaxFaults = 0 PROVE Spec => OutcomeIsFinal
  OBVIOUS
<1>1. IInv /\ FoundInv /\ OutcomeInv /\ [Next]_vars =>
        [\A r \in Runs : Terminal(meta[r]) => meta'[r].status = meta[r].status]_vars
  BY OutcomeSteps DEF OutcomesStay
<1> QED BY <1>1, Invariant, FoundInvariant, OutcomeInvariant, PTL DEF Spec, OutcomeIsFinal

-----------------------------------------------------------------------------
(* The service while nothing crashes and no write fails. *)

\* The labels at which the section's run is not yet over.
Quiet == {"write receipt", "accept", "request", "fail"}

\* The stream of a run ends with the outcome the store holds, but for the run
\* that a handler is storing or that a completion is closing.
StreamsAgree ==
  \A r \in Runs :
    /\ \A e \in TerminalEvent : Logged(r, e) =>
         \/ meta[r].status = Effect[e]
         \/ cur = r /\ pc \in Storing /\ proj[r].status = Effect[e]
    /\ Terminal(meta[r]) => \/ HasTerminal(r) /\ proj[r].status = meta[r].status
                            \/ cur = r /\ pc \in Closing
    /\ proj[r].seq <= Len(log[r])

\* A stream has one start, and a run that began is at work or over.
StartedOnce ==
  \A r \in Runs :
    /\ \A i, j \in DOMAIN log[r] :
         log[r][i] = "run.started" /\ log[r][j] = "run.started" => i = j
    /\ Logged(r, "run.started") => \/ Terminal(meta[r])
                                   \/ task[r] = "working" /\ ~(cur = r /\ pc = "start")

\* What the sections rely on, so that the store refuses none of their events.
SectionsRelyOn ==
  /\ ahead = {}
  /\ pc \in Closing => ~HasTerminal(cur)
  /\ pc \in Storing => HasTerminal(cur)
  /\ pc \in Quiet => ~Terminal(meta[cur])

SteadyInv == StreamsAgree /\ StartedOnce /\ SectionsRelyOn

\* What is assumed of the environment.
Undisturbed == MaxFaults = 0 /\ MaxCrashes = 0 /\ LegacyRuns = {}

\* Everything known of a state before a step.
Known == IInv /\ OutcomeInv /\ SteadyInv /\ Undisturbed

\* The labels are apart.
LEMMA Apart ==
  /\ \A l \in Storing : l \notin Closing /\ l \notin Quiet /\ l \notin Working /\ l # "idle"
  /\ \A l \in Closing : l \notin Storing /\ l \notin Quiet /\ l \notin Working /\ l # "idle"
  /\ "idle" \notin Quiet \cup Working
BY DEF Storing, Closing, Quiet, Working

\* A run that is not over has no terminal event yet, unless it is being stored.
LEMMA UnfinishedIsOpen ==
  ASSUME Known, NEW r \in Runs, ~Terminal(meta[r]), pc \notin Storing
  PROVE  ~HasTerminal(r) /\ \A e \in TerminalEvent : CanAppend(r, e)
<1>1. \A e \in TerminalEvent : Effect[e] \in TerminalStatus
  BY EffectFacts DEF TerminalEvent, TerminalStatus
<1>2. \A e \in TerminalEvent : ~Logged(r, e)
  BY <1>1 DEF Known, SteadyInv, StreamsAgree, Terminal
<1> QED BY <1>2 DEF HasTerminal, Logged, CanAppend

\* An event the stream accepts is published: nothing is ahead and no write fails.
LEMMA PublishSucceeds ==
  ASSUME Known, NEW r \in Runs, NEW e, CanAppend(r, e)
  PROVE  ~PublishRaises(r, e)
BY NoFault DEF Known, Undisturbed, OutcomeInv, SteadyInv, SectionsRelyOn, PublishRaises

\* A step of a run's life that neither publishes nor stores.
LEMMA Frame ==
  ASSUME Known, UNCHANGED <<meta, log, proj, ahead>>,
         pc \notin Storing \cup Closing, pc' \notin Storing \cup Closing,
         pc' \in Quiet => ~Terminal(meta[cur']),
         \A r \in Runs : Logged(r, "run.started") =>
           Terminal(meta[r]) \/ (task'[r] = "working" /\ ~(cur' = r /\ pc' = "start"))
  PROVE  SteadyInv'
<1> USE DEF Known, SteadyInv
<1>1. StreamsAgree'
  BY DEF StreamsAgree, Logged, HasTerminal, Terminal
<1>2. StartedOnce'
  BY DEF StartedOnce, Logged, Terminal
<1>3. SectionsRelyOn'
  BY DEF SectionsRelyOn, Terminal
<1> QED BY <1>1, <1>2, <1>3

\* The same when the tasks at work stay at work and no execution begins.
LEMMA QuietFrame ==
  ASSUME Known, UNCHANGED <<meta, log, proj, ahead>>,
         pc \notin Storing \cup Closing, pc' \notin Storing \cup Closing \cup {"start"},
         pc' \in Quiet => ~Terminal(meta[cur']),
         \A r \in Runs : task[r] = "working" => task'[r] = "working"
  PROVE  SteadyInv'
BY Frame DEF Known, SteadyInv, StartedOnce

\* One event appended: what the streams and the projections are afterwards.
LEMMA AppendSteady ==
  ASSUME Known, NEW s \in Runs, NEW e \in Event, Append_(s, e)
  PROVE  /\ UNCHANGED meta
         /\ \A r \in Runs, x \in Event : Logged(r, x)' <=> (Logged(r, x) \/ (r = s /\ x = e))
         /\ \A r \in Runs : HasTerminal(r)' <=> (HasTerminal(r) \/ (r = s /\ e \in TerminalEvent))
         /\ \A r \in Runs : proj'[r].seq <= Len(log'[r])
         /\ \A r \in Runs \ {s} : proj'[r] = proj[r]
         /\ e \in DOMAIN Effect => proj'[s].status = Effect[e]
         /\ e \notin DOMAIN Effect => proj'[s].status = proj[s].status
         /\ (e = "run.started" => ~Logged(s, "run.started")) =>
              \A r \in Runs : \A i, j \in DOMAIN log'[r] :
                log'[r][i] = "run.started" /\ log'[r][j] = "run.started" => i = j
<1> DEFINE n == Len(log[s]) + 1
<1>0. TypeOK /\ TerminalEvent \subseteq Event
  BY DEF Known, IInv, Event
<1>1. /\ log \in [Runs -> Seq(Event)] /\ proj \in [Runs -> Resource]
      /\ log' = [log EXCEPT ![s] = Append(@, e)]
      /\ proj' = [proj EXCEPT ![s] = Apply(@, e, n)] /\ UNCHANGED meta
  BY <1>0 DEF TypeOK, DataType, Append_
<1>2. /\ Len(Append(log[s], e)) = n /\ Len(log[s]) \in Nat /\ n \in Nat
      /\ DOMAIN log[s] = 1..Len(log[s]) /\ DOMAIN Append(log[s], e) = 1..n
      /\ \A i \in DOMAIN log[s] : Append(log[s], e)[i] = log[s][i]
      /\ Append(log[s], e)[n] = e
  BY <1>1, AppendFacts
<1>3. /\ log'[s] = Append(log[s], e) /\ proj'[s] = Apply(proj[s], e, n)
      /\ \A r \in Runs \ {s} : log'[r] = log[r] /\ proj'[r] = proj[r]
  BY <1>1
<1>4. proj[s] \in Resource /\ proj[s].seq \in Nat /\ proj[s].seq <= Len(log[s])
  BY <1>1 DEF Known, SteadyInv, StreamsAgree, Resource
<1>5. n > proj[s].seq
  BY <1>2, <1>4
<1>6. /\ proj'[s].seq = n
      /\ e \in DOMAIN Effect => proj'[s].status = Effect[e]
      /\ e \notin DOMAIN Effect => proj'[s].status = proj[s].status
  <2> HIDE DEF n
  <2> QED BY <1>2, <1>3, <1>4, <1>5, ApplyFacts
<1>7. \A r \in Runs : proj'[r].seq <= Len(log'[r])
  BY <1>2, <1>3, <1>6 DEF Known, SteadyInv, StreamsAgree
<1>8. \A r \in Runs, x \in Event : Logged(r, x)' <=> (Logged(r, x) \/ (r = s /\ x = e))
  BY <1>0, AppendStep
<1>9. ASSUME NEW r \in Runs
      PROVE  HasTerminal(r)' <=> (HasTerminal(r) \/ (r = s /\ e \in TerminalEvent))
  <2>1. HasTerminal(r) <=> \E x \in TerminalEvent : Logged(r, x)
    BY DEF HasTerminal, Logged
  <2>2. HasTerminal(r)' <=> \E x \in TerminalEvent : Logged(r, x)'
    BY DEF HasTerminal, Logged
  <2> QED BY <1>0, <1>8, <2>1, <2>2
<1>10. ASSUME e = "run.started" => ~Logged(s, "run.started"),
              NEW r \in Runs, NEW i \in DOMAIN log'[r], NEW j \in DOMAIN log'[r],
              log'[r][i] = "run.started", log'[r][j] = "run.started"
       PROVE  i = j
  <2>1. CASE r # s
    BY <1>3, <1>10, <2>1 DEF Known, SteadyInv, StartedOnce
  <2>2. CASE r = s /\ e = "run.started"
    <3>1. \A k \in DOMAIN log[s] : log[s][k] # "run.started"
      BY <1>10, <2>2 DEF Logged
    <3>2. i = n /\ j = n
      BY <1>2, <1>3, <1>10, <2>2, <3>1
    <3> QED BY <3>2
  <2>3. CASE r = s /\ e # "run.started"
    <3>1. /\ i \in DOMAIN log[s] /\ j \in DOMAIN log[s]
          /\ log[s][i] = "run.started" /\ log[s][j] = "run.started"
      BY <1>2, <1>3, <1>10, <2>3
    <3> QED BY <2>3, <3>1 DEF Known, SteadyInv, StartedOnce
  <2> QED BY <2>1, <2>2, <2>3
<1> QED BY <1>1, <1>3, <1>6, <1>7, <1>8, <1>9, <1>10

\* An event that ends nothing, published for a run that is not over.
LEMMA PublishSteady ==
  ASSUME Known, NEW s \in Runs, NEW e \in Event \ TerminalEvent,
         Publish(s, e), ~Terminal(meta[s]),
         pc \notin Storing \cup Closing, pc' \notin Storing \cup Closing,
         pc' \in Quiet => ~Terminal(meta[cur']),
         e = "run.started" => ~Logged(s, "run.started"),
         \A r \in Runs : Logged(r, "run.started") \/ (r = s /\ e = "run.started") =>
           Terminal(meta[r]) \/ (task'[r] = "working" /\ ~(cur' = r /\ pc' = "start"))
  PROVE  SteadyInv'
<1>0. /\ Append_(s, e) /\ UNCHANGED ahead
      /\ TerminalEvent \subseteq Event /\ "run.started" \in Event
  BY DEF Publish, Event
<1>1. /\ UNCHANGED meta
      /\ \A r \in Runs, x \in Event : Logged(r, x)' <=> (Logged(r, x) \/ (r = s /\ x = e))
      /\ \A r \in Runs : HasTerminal(r)' <=> HasTerminal(r)
      /\ \A r \in Runs : proj'[r].seq <= Len(log'[r])
      /\ \A r \in Runs \ {s} : proj'[r] = proj[r]
      /\ \A r \in Runs : \A i, j \in DOMAIN log'[r] :
           log'[r][i] = "run.started" /\ log'[r][j] = "run.started" => i = j
  BY <1>0, AppendSteady
<1>2. StreamsAgree'
  <2>1. \A r \in Runs : \A x \in TerminalEvent : Logged(r, x)' => meta[r].status = Effect[x]
    BY <1>0, <1>1 DEF Known, SteadyInv, StreamsAgree
  <2>2. \A r \in Runs : Terminal(meta[r]) => HasTerminal(r)' /\ proj'[r].status = meta[r].status
    BY <1>1 DEF Known, SteadyInv, StreamsAgree
  <2> QED BY <1>1, <2>1, <2>2 DEF StreamsAgree, Terminal
<1>3. StartedOnce'
  BY <1>0, <1>1 DEF StartedOnce, Terminal
<1>4. SectionsRelyOn'
  BY <1>0, <1>1 DEF Known, SteadyInv, SectionsRelyOn, Terminal
<1> QED BY <1>2, <1>3, <1>4 DEF SteadyInv

\* The sections that announce the progress of an execution or of a creation.
LEMMA AnnouncedSteady ==
  ASSUME Known, NEW e \in Event \ TerminalEvent, Publish(cur, e),
         ~Terminal(meta[cur]), e # "run.started",
         pc \notin Storing \cup Closing, pc' \notin Storing \cup Closing \cup {"start"},
         cur' = cur, \A r \in Runs : task[r] = "working" => task'[r] = "working"
  PROVE  SteadyInv'
<1>0. cur \in Runs
  BY DEF Known, IInv, TypeOK, ControlType
<1>1. \A r \in Runs : Logged(r, "run.started") =>
        Terminal(meta[r]) \/ (task'[r] = "working" /\ ~(cur' = r /\ pc' = "start"))
  BY DEF Known, SteadyInv, StartedOnce
<1> QED BY <1>0, <1>1, PublishSteady

\* An execution starts once: its task was not at work, and a run that had begun
\* without being at work would be over.
LEMMA StartingSteady ==
  ASSUME Known, AnnounceStart
  PROVE  SteadyInv'
<1>0. /\ cur \in Runs /\ pc = "start" /\ "run.started" \in Event \ TerminalEvent
      /\ pc \notin Storing \cup Closing
  BY DEF Known, IInv, TypeOK, ControlType, AnnounceStart, Announce, Event, TerminalEvent,
         Storing, Closing
<1>1. ~PublishRaises(cur, "run.started")
  BY <1>0, PublishSucceeds DEF CanAppend
<1>2. /\ Publish(cur, "run.started") /\ pc' = "start phase" /\ UNCHANGED <<cur, task>>
  BY <1>1 DEF AnnounceStart, Announce, Goto
<1>3. ~Terminal(meta[cur]) /\ task[cur] = "working"
  BY <1>0, WorkIsUnfinished DEF Working, Known, IInv, ControlInv, SectionOwners
<1>4. ~Logged(cur, "run.started")
  BY <1>0, <1>3 DEF Known, SteadyInv, StartedOnce
<1>5. \A r \in Runs : Logged(r, "run.started") \/ r = cur =>
        Terminal(meta[r]) \/ (task'[r] = "working" /\ ~(cur' = r /\ pc' = "start"))
  BY <1>2, <1>3 DEF Known, SteadyInv, StartedOnce
<1>6. pc' \notin Storing \cup Closing \cup Quiet
  BY <1>2 DEF Storing, Closing, Quiet
<1> QED BY <1>0, <1>2, <1>3, <1>4, <1>5, <1>6, PublishSteady

\* The other announcements of an execution that is not over.
LEMMA WorkingSteady ==
  ASSUME Known, AnnouncePhase \/ AnnouncePlan \/ CompleteSteps \/ FailSteps
  PROVE  SteadyInv'
<1>0. /\ cur \in Runs /\ {"run.phase.started", "progress"} \subseteq Event \ TerminalEvent
      /\ pc \in Working \cup (Failing \ {"fail", "save failed"})
      /\ pc \notin Storing \cup Closing
  BY DEF Known, IInv, TypeOK, ControlType, AnnouncePhase, AnnouncePlan, CompleteSteps, FailSteps,
         Announce, Event, TerminalEvent, Storing, Closing, Working, Failing
<1>1. ~Terminal(meta[cur])
  BY <1>0, WorkIsUnfinished DEF Known
<1>2. \A e \in {"run.phase.started", "progress"} : ~PublishRaises(cur, e)
  BY <1>0, PublishSucceeds DEF CanAppend
<1>3. /\ \E e \in {"run.phase.started", "progress"} : Publish(cur, e)
      /\ pc' \in {"plan", "idle", "persist", "fail"} /\ UNCHANGED <<cur, task>>
  BY <1>2 DEF AnnouncePhase, AnnouncePlan, CompleteSteps, FailSteps, Announce, Goto, Leave
<1>4. pc' \notin Storing \cup Closing \cup {"start"}
  BY <1>3 DEF Storing, Closing
<1> QED BY <1>0, <1>1, <1>3, <1>4, AnnouncedSteady

\* The acceptance of a run, which starts its task.
LEMMA AcceptingSteady ==
  ASSUME Known, Accept
  PROVE  SteadyInv'
<1>0. /\ cur \in Runs /\ pc = "accept" /\ "run.accepted" \in Event \ TerminalEvent
      /\ pc \notin Storing \cup Closing
  BY DEF Known, IInv, TypeOK, ControlType, Accept, Event, TerminalEvent, Storing, Closing
<1>1. ~PublishRaises(cur, "run.accepted")
  BY <1>0, PublishSucceeds DEF CanAppend
<1>2. /\ Publish(cur, "run.accepted") /\ task' = Schedule(cur) /\ pc' = "idle" /\ cur' = cur
  BY <1>1 DEF Accept, Enter
<1>3. ~Terminal(meta[cur])
  BY <1>0 DEF Known, SteadyInv, SectionsRelyOn, Quiet
<1>4. \A r \in Runs : task[r] = "working" => task'[r] = "working"
  BY <1>2 DEF Schedule, Live, Known, IInv, TypeOK, ControlType
<1>5. pc' \notin Storing \cup Closing \cup {"start"}
  BY <1>2 DEF Storing, Closing
<1> QED BY <1>0, <1>2, <1>3, <1>4, <1>5, AnnouncedSteady

\* A cancel request announced on a run that is not over.
LEMMA AskingSteady ==
  ASSUME Known, NEW c \in Callers, AnnounceRequest(c)
  PROVE  SteadyInv'
<1>0. /\ cur \in Runs /\ pc = "request" /\ "run.cancel_requested" \in Event \ TerminalEvent
      /\ pc \notin Storing \cup Closing
  BY DEF Known, IInv, TypeOK, ControlType, AnnounceRequest, Event, TerminalEvent, Storing, Closing
<1>1. ~PublishRaises(cur, "run.cancel_requested")
  BY <1>0, PublishSucceeds DEF CanAppend
<1>2. /\ Publish(cur, "run.cancel_requested") /\ cur' = cur /\ pc' \in {"idle", "confirm"}
      /\ \/ task' = task
         \/ task' = [task EXCEPT ![cur] = IF @ = "scheduled" THEN "dropped" ELSE @]
  BY <1>1 DEF AnnounceRequest
<1>3. ~Terminal(meta[cur])
  BY <1>0 DEF Known, SteadyInv, SectionsRelyOn, Quiet
<1>4. \A r \in Runs : task[r] = "working" => task'[r] = "working"
  BY <1>2 DEF Known, IInv, TypeOK, ControlType
<1>5. pc' \notin Storing \cup Closing \cup {"start"}
  BY <1>2 DEF Storing, Closing
<1> QED BY <1>0, <1>2, <1>3, <1>4, <1>5, AnnouncedSteady

\* A handler announces the end of a run that is not over, and goes on to store it.
LEMMA EndingSteady ==
  ASSUME Known, AnnounceCancelled \/ AnnounceFailed \/ ConfirmCancel
  PROVE  SteadyInv'
<1>0. /\ cur \in Runs /\ {"run.cancelled", "run.failed"} \subseteq TerminalEvent
      /\ TerminalEvent \subseteq Event /\ TerminalEvent \subseteq DOMAIN Effect
      /\ "run.started" \in Event \ TerminalEvent
      /\ pc \in {"cancel", "fail", "confirm"} /\ pc \notin Storing \cup Closing
  BY EffectFacts DEF Known, IInv, TypeOK, ControlType, AnnounceCancelled, AnnounceFailed,
     ConfirmCancel, Announce, Event, TerminalEvent, Storing, Closing
<1>1. ~Terminal(meta[cur])
  <2>1. CASE pc = "cancel"
    BY <2>1, WorkIsUnfinished DEF Known, Failing
  <2>2. CASE pc = "fail"
    BY <2>2 DEF Known, SteadyInv, SectionsRelyOn, Quiet
  <2>3. CASE pc = "confirm"
    BY <2>3 DEF Known, OutcomeInv
  <2> QED BY <1>0, <2>1, <2>2, <2>3
<1>2. \A e \in {"run.cancelled", "run.failed"} : ~PublishRaises(cur, e)
  BY <1>0, <1>1, UnfinishedIsOpen, PublishSucceeds
<1>3. PICK e \in {"run.cancelled", "run.failed"} : Publish(cur, e)
  BY <1>2 DEF AnnounceCancelled, AnnounceFailed, ConfirmCancel, Announce
<1>4. pc' \in Storing /\ UNCHANGED <<cur, task>>
  BY <1>2 DEF AnnounceCancelled, AnnounceFailed, ConfirmCancel, Announce, Goto, Storing
<1>5. /\ Append_(cur, e) /\ UNCHANGED ahead
  BY <1>3 DEF Publish
<1>6. /\ UNCHANGED meta
      /\ \A r \in Runs, x \in Event : Logged(r, x)' <=> (Logged(r, x) \/ (r = cur /\ x = e))
      /\ \A r \in Runs : HasTerminal(r)' <=> (HasTerminal(r) \/ r = cur)
      /\ \A r \in Runs : proj'[r].seq <= Len(log'[r])
      /\ \A r \in Runs \ {cur} : proj'[r] = proj[r]
      /\ proj'[cur].status = Effect[e]
      /\ \A r \in Runs : \A i, j \in DOMAIN log'[r] :
           log'[r][i] = "run.started" /\ log'[r][j] = "run.started" => i = j
  BY <1>0, <1>3, <1>5, AppendSteady
<1>7. \A x \in TerminalEvent : ~Logged(cur, x)
  BY <1>0, <1>1, UnfinishedIsOpen DEF HasTerminal, Logged
<1>8. StreamsAgree'
  <2>1. ASSUME NEW r \in Runs, NEW x \in TerminalEvent, Logged(r, x)'
        PROVE  meta[r].status = Effect[x] \/ (cur = r /\ proj'[r].status = Effect[x])
    <3>1. CASE r = cur
      BY <1>0, <1>6, <1>7, <2>1, <3>1
    <3>2. CASE r # cur
      BY <1>0, <1>6, <2>1, <3>2 DEF Known, SteadyInv, StreamsAgree
    <3> QED BY <3>1, <3>2
  <2>2. \A r \in Runs : Terminal(meta[r]) => HasTerminal(r)' /\ proj'[r].status = meta[r].status
    BY <1>0, <1>1, <1>6 DEF Known, SteadyInv, StreamsAgree
  <2> QED BY <1>4, <1>6, <2>1, <2>2 DEF StreamsAgree, Terminal
<1>9. StartedOnce'
  <2>1. pc' # "start"
    BY <1>4 DEF Storing
  <2>2. \A r \in Runs : Logged(r, "run.started")' => Logged(r, "run.started")
    BY <1>0, <1>6
  <2> QED BY <1>4, <1>6, <2>1, <2>2 DEF Known, SteadyInv, StartedOnce, Terminal
<1>10. SectionsRelyOn'
  BY <1>0, <1>4, <1>5, <1>6, Apart DEF Known, SteadyInv, SectionsRelyOn
<1> QED BY <1>8, <1>9, <1>10 DEF SteadyInv

\* A step that stores x for the run of the section and leaves the streams alone.
LEMMA StoreSteady ==
  ASSUME Known, NEW x, Save(cur, x), UNCHANGED <<proj, ahead>>, cur' = cur,
         ~Terminal(meta[cur]), pc \notin Closing, pc' \notin Storing \cup {"start"},
         pc' \in Quiet => x.status \notin TerminalStatus,
         pc' \in Closing => ~HasTerminal(cur),
         \A e \in TerminalEvent : Logged(cur, e) => x.status = Effect[e],
         x.status \in TerminalStatus =>
           (HasTerminal(cur) /\ proj[cur].status = x.status) \/ pc' \in Closing,
         \A r \in Runs : task[r] = "working" =>
           task'[r] = "working" \/ (r = cur /\ x.status \in TerminalStatus)
  PROVE  SteadyInv'
<1>0. /\ cur \in Runs /\ log' = log
      /\ \A r \in Runs : meta'[r] = IF r = cur THEN x ELSE meta[r]
  BY DEF Known, IInv, TypeOK, DataType, ControlType, Save
<1>1. StreamsAgree'
  <2>1. ASSUME NEW r \in Runs, NEW e \in TerminalEvent, Logged(r, e)
        PROVE  meta'[r].status = Effect[e]
    BY <1>0, <2>1 DEF Known, SteadyInv, StreamsAgree
  <2>2. ASSUME NEW r \in Runs, Terminal(meta'[r])
        PROVE  \/ HasTerminal(r) /\ proj[r].status = meta'[r].status
               \/ cur = r /\ pc' \in Closing
    BY <1>0, <2>2 DEF Known, SteadyInv, StreamsAgree, Terminal
  <2> QED BY <1>0, <2>1, <2>2 DEF Known, SteadyInv, StreamsAgree, Logged, HasTerminal, Terminal
<1>2. StartedOnce'
  BY <1>0 DEF Known, SteadyInv, StartedOnce, Logged, Terminal
<1>3. SectionsRelyOn'
  BY <1>0 DEF Known, SteadyInv, SectionsRelyOn, HasTerminal, Terminal
<1> QED BY <1>1, <1>2, <1>3 DEF SteadyInv

\* A new run's metadata, a completion's outcome and a handler's projection.
LEMMA StoringSteady ==
  ASSUME Known, WriteMetadata \/ Persist \/ SaveCancelled \/ SaveFailed \/ SaveConfirmed
  PROVE  SteadyInv'
<1>0. /\ cur \in Runs /\ ~WriteRaises
      /\ \A e \in TerminalEvent : Effect[e] \in TerminalStatus
      /\ task \in [Runs -> TaskState]
  BY NoFault, EffectFacts DEF Known, IInv, OutcomeInv, Undisturbed, TypeOK, ControlType,
     TerminalEvent, TerminalStatus
<1>1. CASE WriteMetadata
  <2>1. /\ Save(cur, mem[cur]) /\ pc = "write metadata" /\ pc' = "write receipt"
        /\ UNCHANGED <<proj, ahead, cur, task>>
    BY <1>0, <1>1 DEF WriteMetadata, Goto
  <2>2. meta[cur] = Absent /\ pc \notin Storing \cup Closing
    BY <2>1 DEF Known, OutcomeInv, Storing, Closing
  <2>3. mem[cur] = Absent \/ mem[cur] = Accepted
    BY <1>0, <2>1, <2>2 DEF Known, IInv, ControlInv, CacheIsDisk
  <2>4. ~Terminal(meta[cur]) /\ mem[cur].status \notin TerminalStatus
    BY <2>2, <2>3, AcceptedFacts DEF Terminal
  <2>5. \A e \in TerminalEvent : ~Logged(cur, e)
    BY <1>0, <2>2, <2>4, UnfinishedIsOpen DEF HasTerminal, Logged
  <2>6. pc' \notin Storing \cup Closing \cup {"start"}
    BY <2>1 DEF Storing, Closing
  <2> QED BY <2>1, <2>2, <2>4, <2>5, <2>6, StoreSteady
<1>2. CASE Persist
  <2>1. /\ Save(cur, Prepared(cur)) /\ pc = "persist" /\ pc' = "close phase"
        /\ UNCHANGED <<proj, ahead, cur, task>>
    BY <1>0, <1>2 DEF Persist, Goto
  <2>2. ~Terminal(meta[cur]) /\ pc \notin Storing \cup Closing
    BY <2>1, WorkIsUnfinished DEF Known, Working, Storing, Closing
  <2>3. ~HasTerminal(cur) /\ \A e \in TerminalEvent : ~Logged(cur, e)
    BY <1>0, <2>2, UnfinishedIsOpen DEF HasTerminal, Logged
  <2>4. pc' \in Closing /\ pc' \notin Storing \cup Quiet \cup {"start"}
    BY <2>1 DEF Storing, Closing, Quiet
  <2> QED BY <2>1, <2>2, <2>3, <2>4, StoreSteady
<1>3. CASE SaveCancelled \/ SaveFailed \/ SaveConfirmed
  <2>1. /\ Save(cur, proj[cur]) /\ pc \in Storing /\ pc' = "idle"
        /\ UNCHANGED <<proj, ahead, cur>>
        /\ \/ UNCHANGED task
           \/ task' = [task EXCEPT ![cur] = "done"]
    BY <1>0, <1>3 DEF SaveCancelled, SaveFailed, SaveConfirmed, SaveProjection, Goto, Leave,
       TaskReturns, TaskRaises, TaskEnds, Storing
  <2>2. ~Terminal(meta[cur])
    BY <2>1, WorkIsUnfinished DEF Known, OutcomeInv, Storing, Failing
  <2>3. proj[cur].status \in TerminalStatus /\ HasTerminal(cur)
    BY <2>1 DEF Known, OutcomeInv, SteadyInv, SectionsRelyOn, Terminal
  <2>4. \A e \in TerminalEvent : Logged(cur, e) => proj[cur].status = Effect[e]
    BY <1>0, <2>2 DEF Known, SteadyInv, StreamsAgree, Terminal
  <2>5. pc' \notin Storing \cup Closing \cup Quiet \cup {"start"} /\ pc \notin Closing
    BY <2>1, Apart DEF Storing, Closing, Quiet
  <2>6. \A r \in Runs : task[r] = "working" => task'[r] = "working" \/ r = cur
    BY <1>0, <2>1
  <2> QED BY <2>1, <2>2, <2>3, <2>4, <2>5, <2>6, StoreSteady
<1> QED BY <1>1, <1>2, <1>3

\* The closing events of a completion: the store refuses none of them, and the
\* last one is the outcome that was stored before the first.
LEMMA ClosingSteady ==
  ASSUME Known, ClosePhase \/ CloseReport \/ CloseRun
  PROVE  SteadyInv'
<1>0. /\ cur \in Runs /\ pc \in Closing /\ ~HasTerminal(cur) /\ task \in [Runs -> TaskState]
      /\ ending \in TerminalEvent /\ {"progress", "report.completed"} \subseteq Event \ TerminalEvent
      /\ TerminalEvent \subseteq Event /\ TerminalEvent \subseteq DOMAIN Effect
      /\ "run.started" \in Event \ TerminalEvent
      /\ Effect[ending] \in TerminalStatus
  BY EffectFacts DEF Known, IInv, TypeOK, ControlType, RestType, SteadyInv, SectionsRelyOn,
     ClosePhase, CloseReport, CloseRun, Close, Closing, Event, TerminalEvent, TerminalStatus
<1>1. meta[cur].status = Effect[ending] /\ task[cur] = "working"
  BY <1>0 DEF Known, IInv, ControlInv, ClosingIsBacked, SectionOwners
<1>2. PICK e \in {"progress", "report.completed", ending} :
        /\ Append_(cur, e) /\ UNCHANGED <<ahead, cur>>
        /\ \/ e # ending /\ pc' \in Closing /\ UNCHANGED task
           \/ e = ending /\ pc' = "idle" /\ task' = [task EXCEPT ![cur] = "done"]
  <2>1. ~DiskFault /\ \A e \in Event : CanAppend(cur, e)
    BY <1>0, NoFault DEF CanAppend, Known, OutcomeInv, Undisturbed
  <2>2. CASE ClosePhase
    BY <1>0, <2>1, <2>2 DEF ClosePhase, Close, Goto, Closing
  <2>3. CASE CloseReport
    BY <1>0, <2>1, <2>3 DEF CloseReport, Close, Goto, Closing
  <2>4. CASE CloseRun
    BY <1>0, <2>1, <2>4 DEF CloseRun, Close, TaskReturns, TaskEnds
  <2> QED BY <2>2, <2>3, <2>4
<1>3. /\ UNCHANGED meta
      /\ \A r \in Runs, x \in Event : Logged(r, x)' <=> (Logged(r, x) \/ (r = cur /\ x = e))
      /\ \A r \in Runs : HasTerminal(r)' <=> (HasTerminal(r) \/ (r = cur /\ e \in TerminalEvent))
      /\ \A r \in Runs : proj'[r].seq <= Len(log'[r])
      /\ \A r \in Runs \ {cur} : proj'[r] = proj[r]
      /\ e = ending => proj'[cur].status = Effect[ending]
      /\ \A r \in Runs : \A i, j \in DOMAIN log'[r] :
           log'[r][i] = "run.started" /\ log'[r][j] = "run.started" => i = j
  BY <1>0, <1>2, AppendSteady
<1>4. \A x \in TerminalEvent : ~Logged(cur, x)
  BY <1>0 DEF HasTerminal, Logged
<1>5. StreamsAgree'
  <2>1. ASSUME NEW r \in Runs, NEW x \in TerminalEvent, Logged(r, x)'
        PROVE  meta[r].status = Effect[x]
    <3>1. CASE r = cur
      BY <1>0, <1>1, <1>3, <1>4, <2>1, <3>1
    <3>2. CASE r # cur
      BY <1>0, <1>3, <2>1, <3>2 DEF Known, SteadyInv, StreamsAgree
    <3> QED BY <3>1, <3>2
  <2>2. ASSUME NEW r \in Runs, Terminal(meta[r])
        PROVE  \/ HasTerminal(r)' /\ proj'[r].status = meta[r].status
               \/ cur = r /\ pc' \in Closing
    <3>1. CASE r = cur
      BY <1>0, <1>1, <1>2, <1>3, <3>1
    <3>2. CASE r # cur
      BY <1>3, <2>2, <3>2 DEF Known, SteadyInv, StreamsAgree
    <3> QED BY <3>1, <3>2
  <2> QED BY <1>2, <1>3, <2>1, <2>2 DEF StreamsAgree, Terminal
<1>6. StartedOnce'
  <2>1. pc' # "start"
    BY <1>2 DEF Closing
  <2>2. \A r \in Runs : Logged(r, "run.started")' => Logged(r, "run.started")
    BY <1>0, <1>2, <1>3
  <2>3. \A r \in Runs \ {cur} : task'[r] = task[r]
    BY <1>0, <1>2
  <2>4. Terminal(meta[cur])
    BY <1>0, <1>1 DEF Terminal
  <2> QED BY <1>2, <1>3, <2>1, <2>2, <2>3, <2>4 DEF Known, SteadyInv, StartedOnce, Terminal
<1>7. SectionsRelyOn'
  <2>1. pc' \notin Storing \cup Quiet
    BY <1>2, Apart
  <2>2. pc' \in Closing => ~HasTerminal(cur)'
    BY <1>0, <1>2, <1>3, Apart
  <2> QED BY <1>2, <2>1, <2>2 DEF Known, SteadyInv, SectionsRelyOn
<1> QED BY <1>5, <1>6, <1>7 DEF SteadyInv

\* The receipt of a new run, and the result of a run at work.
LEMMA WritingSteady ==
  ASSUME Known, WriteReceipt \/ SaveResult
  PROVE  SteadyInv'
<1>0. cur \in Runs /\ ~WriteRaises /\ \A r \in Runs : Len(log[r]) \in Nat
  <2>1. ~WriteRaises
    BY NoFault DEF Known, OutcomeInv, Undisturbed
  <2>2. cur \in Runs /\ \A r \in Runs : Len(log[r]) \in Nat
    BY DEF Known, IInv, TypeOK, ControlType, DataType
  <2> QED BY <2>1, <2>2
<1>1. CASE SaveResult
  <2>1. /\ pc = "save result" /\ pc' = "complete steps"
        /\ UNCHANGED <<meta, log, proj, ahead, cur, task>>
    BY <1>0, <1>1 DEF SaveResult, Goto
  <2> QED BY <2>1, QuietFrame DEF Storing, Closing, Quiet
<1>2. CASE WriteReceipt
  <2>1. /\ pc = "write receipt" /\ pc' = "accept" /\ UNCHANGED <<meta, log, ahead, cur, task>>
        /\ proj' = [proj EXCEPT ![cur] = Accepted]
    BY <1>0, <1>2 DEF WriteReceipt, Goto
  <2>2. /\ pc \in Quiet /\ pc \notin Storing \cup Closing /\ pc' \in Quiet
        /\ pc' \notin Storing \cup Closing \cup {"start"}
    BY <2>1 DEF Storing, Closing, Quiet
  <2>3. ~Terminal(meta[cur])
    BY <2>2 DEF Known, SteadyInv, SectionsRelyOn
  <2>4. \A r \in Runs : proj'[r] = proj[r] \/ (r = cur /\ proj'[r] = Accepted)
    BY <2>1 DEF Known, IInv, TypeOK, DataType
  <2>5. \A r \in Runs : proj'[r].seq <= Len(log[r])
    BY <1>0, <2>4, AcceptedFacts DEF Known, SteadyInv, StreamsAgree
  <2>6. StreamsAgree'
    BY <2>1, <2>2, <2>3, <2>4, <2>5
       DEF Known, SteadyInv, StreamsAgree, Logged, HasTerminal, Terminal
  <2>7. StartedOnce'
    BY <2>1, <2>2 DEF Known, SteadyInv, StartedOnce, Logged, Terminal
  <2>8. SectionsRelyOn'
    BY <2>1, <2>2, <2>3 DEF Known, SteadyInv, SectionsRelyOn, Terminal
  <2> QED BY <2>6, <2>7, <2>8 DEF SteadyInv
<1> QED BY <1>1, <1>2

\* Hydration changes what GET shows of a run that is not over only, and never
\* past the end of its stream.
LEMMA HydratingSteady ==
  ASSUME Known, Idle, NEW r \in Runs, proj' = [proj EXCEPT ![r] = ProjectionOf(r)],
         UNCHANGED <<meta, log, ahead>>, pc' \in {"idle", "request"},
         pc' = "request" => cur' = r /\ ~Terminal(ProjectionOf(r)),
         \A s \in Runs : task[s] = "working" => task'[s] = "working"
  PROVE  SteadyInv'
<1>0. /\ TypeOK /\ proj \in [Runs -> Resource] /\ pc = "idle" /\ phase = "ready"
      /\ \A s \in Runs : Len(log[s]) \in Nat
      /\ meta[r] \in Resource /\ mem[r] \in Resource
      /\ pc \notin Storing \cup Closing
  BY DEF Known, IInv, TypeOK, DataType, Idle, Storing, Closing
<1>1. Terminal(meta[r]) => ProjectionOf(r) = proj[r] /\ proj[r].status = meta[r].status
  <2> HAVE Terminal(meta[r])
  <2>1. proj[r].status = meta[r].status
    BY <1>0 DEF Known, SteadyInv, StreamsAgree
  <2>2. proj[r] # Absent
    BY <2>1, AcceptedFacts DEF Terminal
  <2> QED BY <2>1, <2>2 DEF ProjectionOf
<1>2. ProjectionOf(r).seq <= Len(log[r])
  <2>1. CASE proj[r] # Absent
    BY <2>1 DEF ProjectionOf, Known, SteadyInv, StreamsAgree
  <2>2. CASE proj[r] = Absent
    <3>1. ~Terminal(meta[r])
      BY <1>1, <2>2, AcceptedFacts DEF Terminal
    <3>2. ~(meta[r].seq > Len(log[r]))
      BY <3>1 DEF Known, IInv, DataInv, Watermarks
    <3>3. mem[r] = meta[r] \/ mem[r] = Accepted
      BY <1>0 DEF Known, IInv, ControlInv, CacheIsDisk
    <3>4. ~(mem[r].seq > Len(log[r]))
      BY <1>0, <3>2, <3>3, AcceptedFacts
    <3>5. ~(Hydrated(r).seq > Len(log[r])) /\ Hydrated(r).seq \in Nat
      BY <1>0, <3>4, HydratedFacts DEF Resource
    <3> QED BY <1>0, <2>2, <3>5 DEF ProjectionOf
  <2> QED BY <2>1, <2>2
<1>3. \A s \in Runs : proj'[s] = IF s = r THEN ProjectionOf(r) ELSE proj[s]
  BY <1>0
<1>4. pc' \notin Storing \cup Closing \cup {"start"}
  BY DEF Storing, Closing
<1>5. \A s \in Runs : Terminal(meta[s]) => proj'[s] = proj[s]
  BY <1>1, <1>3
<1>6. StreamsAgree'
  <2>1. \A s \in Runs : \A e \in TerminalEvent : Logged(s, e) => meta[s].status = Effect[e]
    BY <1>0 DEF Known, SteadyInv, StreamsAgree
  <2>2. \A s \in Runs : Terminal(meta[s]) => HasTerminal(s) /\ proj'[s].status = meta[s].status
    BY <1>0, <1>5 DEF Known, SteadyInv, StreamsAgree
  <2>3. \A s \in Runs : proj'[s].seq <= Len(log[s])
    BY <1>2, <1>3 DEF Known, SteadyInv, StreamsAgree
  <2> QED BY <2>1, <2>2, <2>3 DEF StreamsAgree, Logged, HasTerminal, Terminal
<1>7. StartedOnce'
  BY <1>4 DEF Known, SteadyInv, StartedOnce, Logged, Terminal
<1>8. SectionsRelyOn'
  <2>1. pc' \in Quiet => pc' = "request"
    BY DEF Quiet
  <2>2. pc' = "request" => ~Terminal(meta[r])
    BY <1>1 DEF Terminal
  <2> QED BY <1>4, <2>1, <2>2 DEF Known, SteadyInv, SectionsRelyOn, Terminal
<1> QED BY <1>6, <1>7, <1>8 DEF SteadyInv

\* The requests of the clients.
LEMMA ClientSteady ==
  ASSUME Known, Client
  PROVE  SteadyInv'
<1>0. /\ "idle" \notin Storing \cup Closing /\ task \in [Runs -> TaskState]
      /\ idem \in [Keys -> SUBSET Runs]
  BY DEF Storing, Closing, Known, IInv, TypeOK, ControlType, RestType
<1>1. ASSUME NEW k \in Keys \cup {NoKey}, NEW r \in Runs, Create(k, r) PROVE SteadyInv'
  <2>1. /\ pc = "idle" /\ pc' = "write metadata"
        /\ UNCHANGED <<meta, log, proj, ahead, task>>
    BY <1>1 DEF Create, Idle, Enter, disk
  <2> QED BY <2>1, QuietFrame DEF Storing, Closing, Quiet
<1>2. ASSUME NEW k \in Keys, Replay(k) PROVE SteadyInv'
  <2>1. PICK r \in idem[k] : proj' = [proj EXCEPT ![r] = ProjectionOf(r)] /\ task' = Schedule(r)
    BY <1>2 DEF Replay, Hydrate
  <2>2. /\ r \in Runs /\ Idle /\ pc' = "idle" /\ UNCHANGED <<meta, log, ahead>>
    BY <1>0, <1>2, <2>1 DEF Replay, Idle, disk
  <2>3. \A s \in Runs : task[s] = "working" => task'[s] = "working"
    BY <1>0, <2>1 DEF Schedule, Live
  <2> QED BY <2>1, <2>2, <2>3, HydratingSteady
<1>3. ASSUME NEW r \in Runs, Get(r) PROVE SteadyInv'
  BY <1>3, HydratingSteady DEF Get, Hydrate, Idle, disk
<1>4. ASSUME NEW c \in Callers, NEW r \in Runs, RequestCancel(c, r) PROVE SteadyInv'
  BY <1>4, HydratingSteady DEF RequestCancel, Hydrate, Enter, disk
<1> QED BY <1>1, <1>2, <1>3, <1>4 DEF Client

\* The tasks, and the cancel requests that resume.
LEMMA TasksSteady ==
  ASSUME Known,
         \/ \E r \in Runs : StartTask(r) \/ Progress(r) \/ WorkEnds(r) \/ DropTask(r)
         \/ \E c \in Callers : ResumeCancel(c)
  PROVE  SteadyInv'
<1>0. "idle" \notin Storing \cup Closing /\ task \in [Runs -> TaskState]
  BY DEF Storing, Closing, Known, IInv, TypeOK, ControlType
<1>1. ASSUME NEW r \in Runs, StartTask(r) PROVE SteadyInv'
  <2>1. /\ pc = "idle" /\ task[r] = "scheduled" /\ UNCHANGED <<meta, log, proj, ahead>>
        /\ \/ task' = [task EXCEPT ![r] = "done"] /\ pc' = "idle"
           \/ task' = [task EXCEPT ![r] = "working"] /\ pc' = "start" /\ cur' = r
    BY <1>1 DEF StartTask, Idle, Enter, TaskEnds, disk
  <2>2. pc' \notin Storing \cup Closing \cup Quiet
    BY <2>1 DEF Storing, Closing, Quiet
  <2>3. \A s \in Runs : Logged(s, "run.started") =>
          Terminal(meta[s]) \/ (task'[s] = "working" /\ ~(cur' = s /\ pc' = "start"))
    BY <1>0, <2>1 DEF Known, SteadyInv, StartedOnce
  <2> QED BY <1>0, <2>1, <2>2, <2>3, Frame
<1>2. ASSUME NEW r \in Runs, Progress(r) PROVE SteadyInv'
  <2>1. /\ Idle /\ task[r] = "working" /\ UNCHANGED <<task, pc, cur>>
        /\ Publish(r, "progress") \/ PublishRaises(r, "progress")
        /\ "progress" \in Event \ TerminalEvent
    BY <1>2 DEF Progress, AtWork, Event, TerminalEvent
  <2>2. Publish(r, "progress")
    BY <2>1, PublishSucceeds DEF CanAppend
  <2>3. ~Terminal(meta[r]) /\ pc = "idle"
    BY <2>1 DEF Known, IInv, ControlInv, WorkingIsUnfinished, Idle, Closing
  <2>4. \A s \in Runs : Logged(s, "run.started") =>
          Terminal(meta[s]) \/ (task'[s] = "working" /\ ~(cur' = s /\ pc' = "start"))
    BY <2>1, <2>3 DEF Known, SteadyInv, StartedOnce
  <2>5. pc' \notin Quiet
    BY <2>1, <2>3, Apart
  <2> QED BY <1>0, <2>1, <2>2, <2>3, <2>4, <2>5, PublishSteady
<1>3. ASSUME NEW r \in Runs, WorkEnds(r) PROVE SteadyInv'
  <2>1. /\ Idle /\ task[r] = "working" /\ cur' = r
        /\ pc' \in {"save result", "cancel", "fail steps", "fail"}
        /\ UNCHANGED <<meta, log, proj, ahead, task>>
    BY <1>3 DEF WorkEnds, WorkReturns, WorkCancelled, WorkFails, AtWork, Enter, disk
  <2>2. ~Terminal(meta[r])
    BY <2>1 DEF Known, IInv, ControlInv, WorkingIsUnfinished, Idle, Closing
  <2>3. pc' \notin Storing \cup Closing \cup {"start"}
    BY <2>1 DEF Storing, Closing
  <2> QED BY <1>0, <2>1, <2>2, <2>3, QuietFrame DEF Idle
<1>4. ASSUME NEW r \in Runs, DropTask(r) PROVE SteadyInv'
  <2>1. /\ pc = "idle" /\ pc' = "idle" /\ task[r] = "dropped" /\ task' = [task EXCEPT ![r] = "done"]
        /\ UNCHANGED <<meta, log, proj, ahead>>
    BY <1>4 DEF DropTask, Idle, TaskEnds, disk
  <2>2. \A s \in Runs : task[s] = "working" => task'[s] = "working"
    BY <1>0, <2>1
  <2> QED BY <1>0, <2>1, <2>2, QuietFrame, Apart
<1>5. ASSUME NEW c \in Callers, ResumeCancel(c) PROVE SteadyInv'
  <2>1. /\ pc = "idle" /\ pc' \in {"idle", "confirm"} /\ UNCHANGED <<meta, log, proj, ahead, task>>
    BY <1>5 DEF ResumeCancel, Idle, Enter, disk
  <2>2. pc' \notin Storing \cup Closing \cup Quiet \cup {"start"}
    BY <2>1 DEF Storing, Closing, Quiet
  <2> QED BY <1>0, <2>1, <2>2, QuietFrame
<1> QED BY <1>1, <1>2, <1>3, <1>4, <1>5

\* The process starts, finds nothing to recover and serves requests.
LEMMA BootingSteady ==
  ASSUME Known,
         \/ Crash \/ Restart \/ Recover \/ FinishRecovery
         \/ RecoverAccepted \/ RecoverFailed \/ SaveRecovered
         \/ \E s \in Runs : WriteRecovered(s) \/ NextRecovered(s)
  PROVE  SteadyInv'
<1>1. ~Crash
  BY DEF Crash, Known, Undisturbed, IInv, TypeOK, RestType
<1>2. ~RecoverAccepted /\ ~RecoverFailed /\ ~SaveRecovered
  BY DEF RecoverAccepted, RecoverFailed, SaveRecovered, Announce, SaveProjection, Known,
         OutcomeInv, Undisturbed, AtRecovered
<1>3. \A s \in Runs : ~WriteRecovered(s) /\ ~NextRecovered(s)
  BY DEF WriteRecovered, NextRecovered, Known, OutcomeInv, Undisturbed
<1>4. CASE Restart \/ Recover \/ FinishRecovery
  <2>1. /\ UNCHANGED <<meta, log, proj, ahead, task>> /\ pc \in Recovering \cup {"idle"}
        /\ pc' \in {pc, "idle", "write recovered"}
    BY <1>4 DEF Restart, Recover, FinishRecovery, disk, Known, IInv, ControlInv, SectionOwners,
       Recovering
  <2>2. /\ pc \notin Storing \cup Closing
        /\ pc' \notin Storing \cup Closing \cup Quiet \cup {"start"}
    BY <2>1 DEF Recovering, Storing, Closing, Quiet
  <2> QED BY <2>1, <2>2, QuietFrame
<1> QED BY <1>1, <1>2, <1>3, <1>4

\* The strengthened invariant of the steady service.
LEMMA SteadyInvariant == Undisturbed => (Spec => []SteadyInv)
<1> SUFFICES ASSUME Undisturbed PROVE Spec => []SteadyInv
  OBVIOUS
<1>0. MaxFaults = 0
  BY DEF Undisturbed
<1>1. Init => SteadyInv
  <2> SUFFICES ASSUME Init PROVE SteadyInv
    OBVIOUS
  <2>1. /\ pc = "idle" /\ ahead = {}
        /\ \A r \in Runs : log[r] = <<>> /\ meta[r] = Absent /\ proj[r] = Absent
    BY DEF Init, Undisturbed
  <2>2. pc \notin Storing \cup Closing \cup Quiet
    BY <2>1 DEF Storing, Closing, Quiet
  <2>3. \A r \in Runs : Len(log[r]) = 0 /\ \A e \in Event : ~Logged(r, e)
    BY <2>1 DEF Logged
  <2>4. TerminalEvent \subseteq Event /\ "run.started" \in Event
    BY DEF Event
  <2>5. StreamsAgree
    BY <2>1, <2>3, <2>4, AcceptedFacts DEF StreamsAgree
  <2>6. StartedOnce
    BY <2>1, <2>3, <2>4 DEF StartedOnce
  <2> QED BY <2>1, <2>2, <2>5, <2>6 DEF SteadyInv, SectionsRelyOn
<1>2. IInv /\ OutcomeInv /\ SteadyInv /\ [Next]_vars => SteadyInv'
  <2> SUFFICES ASSUME IInv, OutcomeInv, SteadyInv, [Next]_vars PROVE SteadyInv'
    OBVIOUS
  <2>1. Known
    BY DEF Known
  <2>2. CASE SectionStep
    BY <2>1, <2>2, AcceptingSteady, StartingSteady, WorkingSteady, AskingSteady, EndingSteady,
       StoringSteady, ClosingSteady, WritingSteady, BootingSteady DEF SectionStep
  <2>3. CASE Client
    BY <2>1, <2>3, ClientSteady
  <2>4. CASE \/ \E r \in Runs : StartTask(r) \/ Progress(r) \/ WorkEnds(r) \/ DropTask(r)
             \/ \E c \in Callers : ResumeCancel(c)
    BY <2>1, <2>4, TasksSteady
  <2>5. CASE Crash \/ Restart \/ Recover
    BY <2>1, <2>5, BootingSteady
  <2>6. CASE UNCHANGED vars
    BY <2>6 DEF vars, SteadyInv, StreamsAgree, StartedOnce, SectionsRelyOn, Logged, HasTerminal,
       Terminal
  <2> QED BY <2>2, <2>3, <2>4, <2>5, <2>6 DEF Next
<1>3. Spec => []OutcomeInv
  BY <1>0, OutcomeInvariant
<1> QED BY <1>1, <1>2, <1>3, Invariant, PTL DEF Spec

\* While nothing crashes and no write fails: whenever the loop is free, a run's
\* stored outcome, the end of its stream and what GET shows of it agree, and its
\* stream has one start, however many keys are replayed, however many cancel
\* requests await the task, and whichever of them is resumed first.
THEOREM StoresTellOneStory == Undisturbed => (Spec => []StoreAgreesWithStream)
<1> SUFFICES ASSUME Undisturbed PROVE Spec => []StoreAgreesWithStream
  OBVIOUS
<1>1. SteadyInv => StoreAgreesWithStream
  <2> SUFFICES ASSUME SteadyInv, Idle, NEW r \in Runs
               PROVE  /\ Terminal(meta[r]) <=> HasTerminal(r)
                      /\ \A e \in TerminalEvent : Logged(r, e) => meta[r].status = Effect[e]
                      /\ Terminal(meta[r]) => proj[r].status = meta[r].status
                      /\ Times(r, "run.started") <= 1
    BY DEF StoreAgreesWithStream
  <2>0. pc \notin Storing \cup Closing
    BY DEF Idle, Storing, Closing
  <2>1. \A e \in TerminalEvent : Logged(r, e) => meta[r].status = Effect[e]
    BY <2>0 DEF SteadyInv, StreamsAgree
  <2>2. Terminal(meta[r]) => HasTerminal(r) /\ proj[r].status = meta[r].status
    BY <2>0 DEF SteadyInv, StreamsAgree
  <2>3. HasTerminal(r) => Terminal(meta[r])
    <3>1. \A e \in TerminalEvent : Effect[e] \in TerminalStatus
      BY EffectFacts DEF TerminalEvent, TerminalStatus
    <3> QED BY <2>1, <3>1 DEF HasTerminal, Logged, Terminal
  <2>4. Times(r, "run.started") <= 1
    <3> DEFINE S == {i \in DOMAIN log[r] : log[r][i] = "run.started"}
    <3>1. CASE S = {}
      BY <3>1, FS_EmptySet DEF Times
    <3>2. ASSUME NEW i \in S PROVE Times(r, "run.started") <= 1
      <4>1. S = {i}
        BY DEF SteadyInv, StartedOnce
      <4>2. Cardinality({i}) = 1
        BY FS_Singleton
      <4> QED BY <4>1, <4>2 DEF Times
    <3> QED BY <3>1, <3>2
  <2> QED BY <2>1, <2>2, <2>3, <2>4
<1>2. Spec => []SteadyInv
  BY SteadyInvariant
<1> QED BY <1>1, <1>2, PTL

-----------------------------------------------------------------------------
(* The contract: the coordinator implements RunContract. *)

\* A run at work is shown as running once its start is announced.
Begun(r) == task[r] = "working" /\ ~(cur = r /\ pc = "start")

\* What GET shows of a run is known from where the run is: nothing while its
\* creation is being written, "accepted" until its start is announced, "running"
\* until a handler announces its end or the store holds its outcome.
Shown(r) ==
  /\ proj[r].status = "none" => proj[r] = Absent
  /\ proj[r] = Absent => task[r] = "none" /\ ~Terminal(meta[r])
  /\ mem[r] = Absent => proj[r] = Absent
  /\ mem[r] # Absent /\ proj[r] = Absent => cur = r /\ pc \in Creation
  /\ cur = r /\ pc \in Creation => proj[r] = Absent /\ mem[r] # Absent
  /\ cur = r /\ pc \in Creation \cup {"accept"} => task[r] = "none"
  /\ cur = r /\ pc \in {"accept", "request", "confirm"} => proj[r] # Absent
  /\ proj[r] # Absent /\ ~Terminal(meta[r]) /\ ~(cur = r /\ pc \in Storing) =>
       proj[r].status = IF Begun(r) THEN "running" ELSE "accepted"

\* A process that has not served a request yet has found nothing.
FoundNothing ==
  phase # "ready" =>
    phase = "booting" /\ \A r \in Runs : meta[r] = Absent /\ mem[r] = Absent /\ proj[r] = Absent

\* A cancel request is about a run it was shown.
AskedIsShown == \A c \in Callers : call[c].at # "none" => proj[call[c].run] # Absent

ShownInv == FoundNothing /\ AskedIsShown /\ \A r \in Runs : Shown(r)

\* No cancel request begins or changes its run.
CallsStay ==
  \A c \in Callers : call'[c].at # "none" => call[c].at # "none" /\ call'[c].run = call[c].run

\* What the contract sees of one run, and how it may move.
Public(r) == IF Terminal(meta[r]) THEN meta[r].status ELSE proj[r].status

Moves(from, to) ==
  \/ to = from
  \/ from = "none" /\ to = "accepted"
  \/ from = "accepted" /\ to \in {"running", "cancelled"}
  \/ from = "running" /\ to \in TerminalStatus

\* The invariant is kept, and the contract is.
Keeps == ShownInv' /\ [Contract!Next]_PublicStatus

\* One run moves, the others stay: that is a step of the contract.
LEMMA ContractStep ==
  ASSUME NEW s \in Runs, Moves(Public(s), Public(s)'),
         \A r \in Runs \ {s} : Public(r)' = Public(r)
  PROVE  [Contract!Next]_PublicStatus
<1>1. /\ PublicStatus = [r \in Runs |-> Public(r)]
      /\ PublicStatus' = [r \in Runs |-> Public(r)']
  BY DEF PublicStatus, Public, Terminal
<1> DEFINE to == Public(s)'
<1>2. PublicStatus' = [PublicStatus EXCEPT ![s] = to] /\ PublicStatus[s] = Public(s)
  BY <1>1
<1>3. to = Public(s) => PublicStatus' = PublicStatus
  BY <1>1
<1> HIDE DEF to
<1>4. TerminalStatus = Contract!Outcome
  BY DEF TerminalStatus, Contract!Outcome
<1>5. CASE to = Public(s)
  BY <1>3, <1>5
<1>6. CASE to # Public(s)
  <2>1. Moves(Public(s), to)
    BY DEF to
  <2>2. Contract!Accept(s) \/ Contract!Begin(s) \/ Contract!End(s)
    BY <1>2, <1>4, <1>6, <2>1
       DEF Moves, Contract!Accept, Contract!Begin, Contract!End, Contract!Outcome
  <2> QED BY <2>2 DEF Contract!Next
<1> QED BY <1>5, <1>6

\* No run moves: the contract stutters.
LEMMA ContractStutter ==
  ASSUME \A r \in Runs : Public(r)' = Public(r)
  PROVE  [Contract!Next]_PublicStatus
<1>1. /\ PublicStatus = [r \in Runs |-> Public(r)]
      /\ PublicStatus' = [r \in Runs |-> Public(r)']
  BY DEF PublicStatus, Public, Terminal
<1> QED BY <1>1

\* A task that ends wakes cancel requests and begins none.
LEMMA CallsStayAtEnd ==
  ASSUME NEW r, UNCHANGED call \/ \E how : TaskEnds(r, how)
  PROVE  CallsStay
BY DEF CallsStay, TaskEnds

\* The calls' part of the invariant, when no shown run is forgotten.
LEMMA AskedStays ==
  ASSUME Known, ShownInv, CallsStay, \A r \in Runs : proj'[r] = Absent => proj[r] = Absent
  PROVE  AskedIsShown'
BY DEF ShownInv, AskedIsShown, CallsStay, Known, IInv, TypeOK, ControlType, CallState

\* A step that is neither in a creation nor about what is stored or shown.
LEMMA ShownFrame ==
  ASSUME Known, ShownInv, \A r \in Runs : meta'[r] = meta[r] /\ proj'[r] = proj[r],
         \A r \in Runs : mem'[r] = Absent <=> mem[r] = Absent,
         phase' = "ready" \/ (phase' = phase /\ \A r \in Runs : mem'[r] = mem[r]),
         pc \notin Creation \cup Storing, pc' \notin Creation \cup Storing \cup {"accept"},
         pc' \in {"request", "confirm"} => proj[cur'] # Absent,
         \A r \in Runs : proj[r] = Absent => task'[r] = "none",
         \A r \in Runs : ~Terminal(meta[r]) /\ proj[r] # Absent => (Begun(r)' <=> Begun(r)),
         CallsStay \/ AskedIsShown'
  PROVE  Keeps
<1>1. \A r \in Runs : Public(r)' = Public(r)
  BY DEF Public, Terminal
<1>2. FoundNothing'
  BY DEF ShownInv, FoundNothing
<1>3. \A r \in Runs : Shown(r)'
  BY DEF ShownInv, Shown, Terminal
<1>4. AskedIsShown'
  BY AskedStays
<1> QED BY <1>1, <1>2, <1>3, <1>4, ContractStutter DEF ShownInv, Keeps

\* While the loop is free, a known run is shown, and hydrating it changes nothing.
LEMMA IdleIsShown ==
  ASSUME ShownInv, Idle, NEW r \in Runs, mem[r] # Absent
  PROVE  proj[r] # Absent /\ ProjectionOf(r) = proj[r]
BY DEF ShownInv, Shown, Idle, Creation, ProjectionOf

\* The requests of the clients move no run.
LEMMA ClientKept ==
  ASSUME Known, ShownInv, Client
  PROVE  Keeps
<1>0. /\ "idle" \notin Creation \cup Storing /\ task \in [Runs -> TaskState]
      /\ idem \in [Keys -> SUBSET Runs] /\ proj \in [Runs -> Resource]
      /\ mem \in [Runs -> Resource]
      /\ call \in [Callers -> CallState]
  BY DEF Creation, Storing, Known, IInv, TypeOK, ControlType, RestType, DataType
<1>1. ASSUME NEW k \in Keys \cup {NoKey}, NEW r \in Runs, Create(k, r) PROVE Keeps
  <2>1. /\ Idle /\ pc' = "write metadata" /\ cur' = r /\ mem[r] = Absent /\ phase' = "ready"
        /\ \A s \in Runs : mem'[s] = IF s = r THEN Accepted ELSE mem[s]
        /\ UNCHANGED <<meta, proj, task, call>>
    BY <1>0, <1>1 DEF Create, Fresh, Idle, Enter, disk
  <2>2. pc' \in Creation /\ pc' \notin Storing \cup {"start", "accept", "request", "confirm"}
    BY <2>1 DEF Creation, Storing
  <2>3. proj[r] = Absent /\ task[r] = "none"
    BY <2>1 DEF ShownInv, Shown
  <2>4. \A s \in Runs : mem[s] # Absent => proj[s] # Absent
    BY <2>1, IdleIsShown
  <2>5. \A s \in Runs : Begun(s)' <=> Begun(s)
    BY <2>1, <2>2 DEF Begun, Idle
  <2>6. \A s \in Runs : Shown(s)'
    BY <1>0, <2>1, <2>2, <2>3, <2>4, <2>5, AcceptedFacts DEF ShownInv, Shown, Idle, Terminal
  <2>7. FoundNothing' /\ AskedIsShown'
    BY <2>1 DEF ShownInv, FoundNothing, AskedIsShown
  <2>8. \A s \in Runs : Public(s)' = Public(s)
    BY <2>1 DEF Public, Terminal
  <2> QED BY <2>6, <2>7, <2>8, ContractStutter DEF Keeps, ShownInv
<1>2. ASSUME NEW k \in Keys, Replay(k) PROVE Keeps
  <2>1. PICK r \in idem[k] : /\ mem[r] # Absent /\ task' = Schedule(r)
                             /\ proj' = [proj EXCEPT ![r] = ProjectionOf(r)]
    BY <1>2 DEF Replay, Hydrate
  <2>2. /\ r \in Runs /\ Idle /\ pc' = "idle" /\ phase' = "ready"
        /\ UNCHANGED <<meta, mem, cur, call>>
    BY <1>0, <1>2, <2>1 DEF Replay, Idle, disk
  <2>3. proj[r] # Absent /\ \A s \in Runs : proj'[s] = proj[s]
    BY <1>0, <2>1, <2>2, IdleIsShown
  <2>4. \A s \in Runs : /\ task'[s] = "working" <=> task[s] = "working"
                        /\ s # r => task'[s] = task[s]
    BY <1>0, <2>1, <2>2 DEF Schedule, Live
  <2>5. \A s \in Runs : Begun(s)' <=> Begun(s)
    BY <2>2, <2>4 DEF Begun, Idle
  <2>6. \A s \in Runs : proj[s] = Absent => task'[s] = "none"
    BY <2>3, <2>4 DEF ShownInv, Shown
  <2>7. CallsStay
    BY <2>2 DEF CallsStay
  <2> QED BY <1>0, <2>2, <2>3, <2>5, <2>6, <2>7, ShownFrame DEF Idle
<1>3. ASSUME NEW r \in Runs, Get(r) \/ \E c \in Callers : RequestCancel(c, r) PROVE Keeps
  <2>1. /\ Idle /\ mem[r] # Absent /\ proj' = [proj EXCEPT ![r] = ProjectionOf(r)] /\ phase' = "ready"
        /\ pc' \in {"idle", "request"} /\ (pc' = "request" => cur' = r)
        /\ UNCHANGED <<meta, mem, task>>
        /\ \/ UNCHANGED call
           \/ \E c \in Callers : call' = [call EXCEPT ![c] = [at |-> "asking", run |-> r]]
    BY <1>3 DEF Get, RequestCancel, Hydrate, Idle, Enter, disk
  <2>2. proj[r] # Absent /\ \A s \in Runs : proj'[s] = proj[s]
    BY <1>0, <2>1, IdleIsShown
  <2>3. \A s \in Runs : Begun(s)' <=> Begun(s)
    BY <2>1 DEF Begun, Idle
  <2>4. \A s \in Runs : proj[s] = Absent => task'[s] = "none"
    BY <2>1 DEF ShownInv, Shown
  <2>5. AskedIsShown'
    <3>1. \A c \in Callers : call'[c] = call[c] \/ call'[c].run = r
      BY <1>0, <2>1
    <3>2. \A c \in Callers : call[c].run \in Runs
      BY <1>0 DEF CallState
    <3> QED BY <2>2, <3>1, <3>2 DEF ShownInv, AskedIsShown
  <2>6. pc' \notin Creation \cup Storing \cup {"accept", "confirm"}
    BY <2>1 DEF Creation, Storing
  <2> QED BY <1>0, <2>1, <2>2, <2>3, <2>4, <2>5, <2>6, ShownFrame DEF Idle
<1> QED BY <1>1, <1>2, <1>3 DEF Client

\* An event that ends no run, for a shown run that has no outcome yet.
LEMMA AnnouncedShown ==
  ASSUME Known, ShownInv, NEW s \in Runs, NEW e \in Event, Append_(s, e),
         UNCHANGED <<mem, phase>>, ~Terminal(meta[s]), proj[s] # Absent,
         pc \notin Creation \cup Storing, pc' \notin Creation \cup Storing \cup {"accept"},
         pc' \in {"request", "confirm"} => cur' = s,
         e \in DOMAIN Effect => Effect[e] = IF Begun(s)' THEN "running" ELSE "accepted",
         e \notin DOMAIN Effect => (Begun(s)' <=> Begun(s)),
         Begun(s) => Begun(s)',
         \A r \in Runs \ {s} : task'[r] = task[r] /\ (Begun(r)' <=> Begun(r)),
         CallsStay
  PROVE  Keeps
<1>1. /\ UNCHANGED meta
      /\ \A r \in Runs \ {s} : proj'[r] = proj[r]
      /\ e \in DOMAIN Effect => proj'[s].status = Effect[e]
      /\ e \notin DOMAIN Effect => proj'[s].status = proj[s].status
  BY AppendSteady
<1>2. proj[s].status = IF Begun(s) THEN "running" ELSE "accepted"
  BY DEF ShownInv, Shown
<1>3. proj'[s].status = IF Begun(s)' THEN "running" ELSE "accepted"
  BY <1>1, <1>2
<1>4. proj'[s].status # "none" /\ proj'[s] # Absent /\ \A r \in Runs : proj'[r] = Absent => proj[r] = Absent
  BY <1>1, <1>3, AcceptedFacts
<1>5. Moves(Public(s), Public(s)')
  BY <1>1, <1>2, <1>3 DEF Moves, Public, Terminal
<1>6. \A r \in Runs \ {s} : Public(r)' = Public(r)
  BY <1>1 DEF Public, Terminal
<1>7. FoundNothing'
  BY DEF ShownInv, FoundNothing
<1>8. AskedIsShown'
  BY <1>4, AskedStays
<1>9. Shown(s)'
  BY <1>1, <1>3, <1>4 DEF ShownInv, Shown, Terminal
<1>10. \A r \in Runs \ {s} : Shown(r)'
  BY <1>1 DEF ShownInv, Shown, Terminal
<1> QED BY <1>5, <1>6, <1>7, <1>8, <1>9, <1>10, ContractStep DEF Keeps, ShownInv

\* The announcements of a creation, of an execution at work and of the agents.
LEMMA AnnouncingKept ==
  ASSUME Known, ShownInv,
         \/ Accept \/ AnnounceStart \/ AnnouncePhase \/ AnnouncePlan \/ CompleteSteps \/ FailSteps
         \/ \E r \in Runs : Progress(r)
  PROVE  Keeps
<1>0. /\ cur \in Runs /\ task \in [Runs -> TaskState]
      /\ {"run.accepted", "run.started", "run.phase.started", "progress"} \subseteq Event \ TerminalEvent
  BY DEF Known, IInv, TypeOK, ControlType, Event, TerminalEvent
<1>1. \A r \in Runs, e \in Event \ TerminalEvent : ~PublishRaises(r, e)
  BY PublishSucceeds DEF CanAppend
<1>2. CASE Accept
  <2>1. /\ pc = "accept" /\ Append_(cur, "run.accepted") /\ task' = Schedule(cur)
        /\ pc' = "idle" /\ UNCHANGED <<mem, phase, cur, call>>
    BY <1>0, <1>1, <1>2 DEF Accept, Enter, Publish
  <2>2. ~Terminal(meta[cur]) /\ proj[cur] # Absent /\ task[cur] = "none"
    BY <1>0, <2>1 DEF Known, SteadyInv, SectionsRelyOn, Quiet, ShownInv, Shown
  <2>3. /\ task'[cur] = "scheduled" /\ \A r \in Runs \ {cur} : task'[r] = task[r]
    BY <1>0, <2>1, <2>2 DEF Schedule, Live
  <2>4. ~Begun(cur) /\ ~Begun(cur)' /\ \A r \in Runs \ {cur} : Begun(r)' <=> Begun(r)
    BY <2>1, <2>2, <2>3 DEF Begun
  <2>5. /\ pc \notin Creation \cup Storing
        /\ pc' \notin Creation \cup Storing \cup {"accept", "request", "confirm"}
    BY <2>1 DEF Creation, Storing
  <2>6. CallsStay
    BY <2>1 DEF CallsStay
  <2> QED BY <1>0, <2>1, <2>2, <2>3, <2>4, <2>5, <2>6, EffectFacts, AnnouncedShown
<1>3. CASE AnnounceStart
  <2>1. /\ pc = "start" /\ Append_(cur, "run.started") /\ pc' = "start phase"
        /\ UNCHANGED <<mem, phase, cur, call, task>>
    BY <1>0, <1>1, <1>3 DEF AnnounceStart, Announce, Goto, Rest, Publish
  <2>2. task[cur] = "working" /\ ~Terminal(meta[cur])
    BY <2>1, WorkIsUnfinished DEF Known, IInv, ControlInv, SectionOwners, Working
  <2>3. proj[cur] # Absent
    BY <1>0, <2>2 DEF ShownInv, Shown
  <2>4. ~Begun(cur) /\ Begun(cur)' /\ \A r \in Runs \ {cur} : Begun(r)' <=> Begun(r)
    BY <2>1, <2>2 DEF Begun
  <2>5. /\ pc \notin Creation \cup Storing
        /\ pc' \notin Creation \cup Storing \cup {"accept", "request", "confirm"}
    BY <2>1 DEF Creation, Storing
  <2>6. CallsStay
    BY <2>1 DEF CallsStay
  <2> QED BY <1>0, <2>1, <2>2, <2>3, <2>4, <2>5, <2>6, EffectFacts, AnnouncedShown
<1>4. CASE AnnouncePhase \/ AnnouncePlan \/ CompleteSteps \/ FailSteps
  <2>1. PICK e \in {"run.phase.started", "progress"} :
          /\ pc \in {"start phase", "plan", "complete steps", "fail steps"}
          /\ Append_(cur, e) /\ pc' \in {"plan", "idle", "persist", "fail"}
          /\ UNCHANGED <<mem, phase, cur, call, task>>
    <3>1. CASE AnnouncePhase
      BY <1>0, <1>1, <3>1 DEF AnnouncePhase, Announce, Goto, Rest, Publish
    <3>2. CASE AnnouncePlan
      BY <1>0, <1>1, <3>2 DEF AnnouncePlan, Announce, Goto, Leave, Rest, Publish
    <3>3. CASE CompleteSteps
      BY <1>0, <1>1, <3>3 DEF CompleteSteps, Announce, Goto, Rest, Publish
    <3>4. CASE FailSteps
      BY <1>0, <1>1, <3>4 DEF FailSteps, Announce, Goto, Rest, Publish
    <3> QED BY <1>4, <3>1, <3>2, <3>3, <3>4
  <2>2. task[cur] = "working" /\ ~Terminal(meta[cur])
    BY <2>1, WorkIsUnfinished DEF Known, IInv, ControlInv, SectionOwners, Working, Failing
  <2>3. proj[cur] # Absent
    BY <1>0, <2>2 DEF ShownInv, Shown
  <2>4. Begun(cur) /\ Begun(cur)' /\ \A r \in Runs \ {cur} : Begun(r)' <=> Begun(r)
    BY <2>1, <2>2 DEF Begun
  <2>5. /\ pc \notin Creation \cup Storing
        /\ pc' \notin Creation \cup Storing \cup {"accept", "request", "confirm"}
    BY <2>1 DEF Creation, Storing
  <2>6. CallsStay
    BY <2>1 DEF CallsStay
  <2> QED BY <1>0, <2>1, <2>2, <2>3, <2>4, <2>5, <2>6, EffectFacts, AnnouncedShown
<1>5. ASSUME NEW r \in Runs, Progress(r) PROVE Keeps
  <2>1. /\ Idle /\ task[r] = "working" /\ Append_(r, "progress") /\ pc' = "idle"
        /\ UNCHANGED <<mem, phase, cur, call, task>>
    BY <1>0, <1>1, <1>5 DEF Progress, AtWork, Idle, Rest, Publish
  <2>2. ~Terminal(meta[r]) /\ proj[r] # Absent
    BY <2>1 DEF Known, IInv, ControlInv, WorkingIsUnfinished, Idle, Closing, ShownInv, Shown
  <2>3. \A s \in Runs : Begun(s)' <=> Begun(s)
    BY <2>1 DEF Begun, Idle
  <2>4. /\ pc \notin Creation \cup Storing
        /\ pc' \notin Creation \cup Storing \cup {"accept", "request", "confirm"}
    BY <2>1 DEF Creation, Storing, Idle
  <2>5. CallsStay
    BY <2>1 DEF CallsStay
  <2> QED BY <1>0, <2>1, <2>2, <2>3, <2>4, <2>5, EffectFacts, AnnouncedShown
<1> QED BY <1>2, <1>3, <1>4, <1>5

\* A cancel request announced on a run moves no run.
LEMMA AskingKept ==
  ASSUME Known, ShownInv, NEW c \in Callers, AnnounceRequest(c)
  PROVE  Keeps
<1>0. /\ cur \in Runs /\ task \in [Runs -> TaskState] /\ call \in [Callers -> CallState]
      /\ "run.cancel_requested" \in Event \ TerminalEvent
      /\ pc = "request" /\ call[c].at = "asking"
  BY DEF Known, IInv, TypeOK, ControlType, Event, TerminalEvent, AnnounceRequest
<1>1. ~PublishRaises(cur, "run.cancel_requested")
  BY <1>0, PublishSucceeds DEF CanAppend
<1>2. /\ Append_(cur, "run.cancel_requested") /\ UNCHANGED <<mem, phase, cur>>
      /\ pc' \in {"idle", "confirm"}
      /\ \/ task' = task
         \/ task' = [task EXCEPT ![cur] = IF @ = "scheduled" THEN "dropped" ELSE @]
      /\ call' = [call EXCEPT ![c].at = "awaiting"] \/ call' = [call EXCEPT ![c].at = "none"]
  BY <1>1 DEF AnnounceRequest, Publish, Rest, NoCall
<1>3. ~Terminal(meta[cur]) /\ proj[cur] # Absent
  BY <1>0 DEF Known, SteadyInv, SectionsRelyOn, Quiet, ShownInv, Shown
<1>4. \A r \in Runs : /\ task'[r] = "working" <=> task[r] = "working"
                      /\ r # cur => task'[r] = task[r]
  BY <1>0, <1>2
<1>5. \A r \in Runs : Begun(r)' <=> Begun(r)
  BY <1>0, <1>2, <1>4 DEF Begun
<1>6. CallsStay
  BY <1>0, <1>2 DEF CallsStay, CallState
<1>7. /\ pc \notin Creation \cup Storing /\ pc' \notin Creation \cup Storing \cup {"accept"}
  BY <1>0, <1>2 DEF Creation, Storing
<1> QED BY <1>0, <1>2, <1>3, <1>4, <1>5, <1>6, <1>7, EffectFacts, AnnouncedShown

\* A handler announces the end of its run, and GET shows the outcome from then on:
\* an execution at work may end any way, a run without one is cancelled.
LEMMA EndingKept ==
  ASSUME Known, ShownInv, AnnounceCancelled \/ AnnounceFailed \/ ConfirmCancel
  PROVE  Keeps
<1>0. /\ cur \in Runs /\ {"run.cancelled", "run.failed"} \subseteq TerminalEvent
      /\ TerminalEvent \subseteq Event /\ TerminalEvent \subseteq DOMAIN Effect
      /\ pc \in {"cancel", "fail", "confirm"} /\ pc \notin Storing \cup Creation
  BY EffectFacts DEF Known, IInv, TypeOK, ControlType, AnnounceCancelled, AnnounceFailed,
     ConfirmCancel, Announce, Event, TerminalEvent, Storing, Creation
<1>1. ~Terminal(meta[cur])
  <2>1. CASE pc = "cancel"
    BY <2>1, WorkIsUnfinished DEF Known, Failing
  <2>2. CASE pc = "fail"
    BY <2>2 DEF Known, SteadyInv, SectionsRelyOn, Quiet
  <2>3. CASE pc = "confirm"
    BY <2>3 DEF Known, OutcomeInv
  <2> QED BY <1>0, <2>1, <2>2, <2>3
<1>2. \A e \in {"run.cancelled", "run.failed"} : ~PublishRaises(cur, e)
  BY <1>0, <1>1, UnfinishedIsOpen, PublishSucceeds
<1>3. PICK e \in {"run.cancelled", "run.failed"} :
        /\ Append_(cur, e) /\ pc' \in Storing /\ UNCHANGED <<mem, phase, cur, task, call>>
        /\ pc = "confirm" => e = "run.cancelled"
  <2>1. CASE AnnounceCancelled
    BY <1>2, <2>1 DEF AnnounceCancelled, Announce, Goto, Rest, Storing, Publish
  <2>2. CASE AnnounceFailed
    BY <1>2, <2>2 DEF AnnounceFailed, Announce, Goto, Rest, Storing, Publish
  <2>3. CASE ConfirmCancel
    BY <1>2, <2>3 DEF ConfirmCancel, Announce, Goto, Rest, Storing, Publish
  <2> QED BY <2>1, <2>2, <2>3
<1>4. /\ UNCHANGED meta
      /\ \A r \in Runs \ {cur} : proj'[r] = proj[r]
      /\ proj'[cur].status = Effect[e]
  BY <1>0, <1>3, AppendSteady
<1>5. Effect[e] \in TerminalStatus /\ (pc = "confirm" => Effect[e] = "cancelled")
  BY <1>3, EffectFacts DEF TerminalStatus
<1>6. proj'[cur] # Absent
  BY <1>4, <1>5, AcceptedFacts DEF Terminal
<1>7. /\ pc \in {"cancel", "fail"} => Begun(cur)
      /\ pc = "confirm" => ~Begun(cur)
  BY <1>0 DEF Begun, Known, IInv, ControlInv, SectionOwners, Failing
<1>8. proj[cur] # Absent
  BY <1>0, <1>7 DEF ShownInv, Shown, Begun
<1>9. proj[cur].status = IF Begun(cur) THEN "running" ELSE "accepted"
  BY <1>0, <1>1, <1>8 DEF ShownInv, Shown
<1>10. Moves(Public(cur), Public(cur)')
  <2>1. Public(cur) = proj[cur].status /\ Public(cur)' = Effect[e]
    BY <1>1, <1>3, <1>4, <1>5 DEF Public, Terminal
  <2>2. CASE Begun(cur)
    <3>1. Public(cur) = "running" /\ Public(cur)' \in TerminalStatus
      BY <1>5, <1>9, <2>1, <2>2
    <3> QED BY <3>1 DEF Moves
  <2>3. CASE ~Begun(cur)
    BY <1>0, <1>5, <1>7, <1>9, <2>1, <2>3 DEF Moves
  <2> QED BY <2>2, <2>3
<1>11. \A r \in Runs \ {cur} : Public(r)' = Public(r)
  BY <1>4 DEF Public, Terminal
<1>12. pc' \notin Creation \cup {"start", "accept", "request", "confirm"}
  BY <1>3 DEF Creation, Storing
<1>13. Shown(cur)'
  <2>1. mem'[cur] # Absent /\ proj'[cur].status # "none"
    BY <1>0, <1>3, <1>4, <1>5, <1>8 DEF ShownInv, Shown, TerminalStatus
  <2> QED BY <1>3, <1>6, <1>12, <2>1 DEF Shown
<1>14. ASSUME NEW r \in Runs \ {cur} PROVE Shown(r)'
  BY <1>0, <1>3, <1>4, <1>12 DEF ShownInv, Shown, Terminal, Begun
<1>15. FoundNothing'
  BY <1>0, <1>3, <1>4, <1>8 DEF ShownInv, FoundNothing
<1>16. AskedIsShown'
  <2>1. CallsStay
    BY <1>3 DEF CallsStay
  <2>2. \A r \in Runs : proj'[r] = Absent => proj[r] = Absent
    BY <1>4, <1>6
  <2> QED BY <2>1, <2>2, AskedStays
<1> QED BY <1>0, <1>3, <1>10, <1>11, <1>13, <1>14, <1>15, <1>16, ContractStep DEF Keeps, ShownInv

\* An outcome stored for the run of the section.
LEMMA StoredShown ==
  ASSUME Known, ShownInv, NEW x, Save(cur, x), UNCHANGED <<proj, phase, cur>>,
         x.status \in TerminalStatus, Moves(Public(cur), x.status), proj[cur] # Absent,
         pc \notin Creation,
         pc' \notin Creation \cup Storing \cup {"start", "accept", "request", "confirm"},
         pc # "start",
         \A r \in Runs \ {cur} : task'[r] = task[r],
         CallsStay
  PROVE  Keeps
<1>0. /\ cur \in Runs
      /\ \A r \in Runs : meta'[r] = IF r = cur THEN x ELSE meta[r]
      /\ \A r \in Runs : mem'[r] = IF r = cur THEN x ELSE mem[r]
  BY DEF Known, IInv, TypeOK, DataType, ControlType, Save
<1>1. x # Absent /\ Terminal(x)
  BY AcceptedFacts DEF Terminal
<1>2. Public(cur)' = x.status
  BY <1>0, <1>1 DEF Public, Terminal
<1>3. \A r \in Runs \ {cur} : Public(r)' = Public(r)
  BY <1>0 DEF Public, Terminal
<1>4. Shown(cur)'
  BY <1>0, <1>1 DEF ShownInv, Shown, Terminal
<1>5. \A r \in Runs \ {cur} : Shown(r)'
  BY <1>0 DEF ShownInv, Shown, Terminal, Begun
<1>6. FoundNothing'
  BY <1>0 DEF ShownInv, FoundNothing
<1>7. AskedIsShown'
  BY AskedStays
<1> QED BY <1>0, <1>2, <1>3, <1>4, <1>5, <1>6, <1>7, ContractStep DEF Keeps, ShownInv

\* What a handler announced, or a completion prepared, is stored as the outcome:
\* the handler's is shown already, the completion's is shown from now on.
LEMMA SavingKept ==
  ASSUME Known, ShownInv, Persist \/ SaveCancelled \/ SaveFailed \/ SaveConfirmed
  PROVE  Keeps
<1>0. cur \in Runs /\ ~WriteRaises /\ task \in [Runs -> TaskState]
  BY NoFault DEF Known, IInv, OutcomeInv, Undisturbed, TypeOK, ControlType
<1>1. CASE Persist
  <2>1. /\ Save(cur, Prepared(cur)) /\ pc = "persist" /\ pc' = "close phase"
        /\ UNCHANGED <<proj, phase, cur, task, call>>
    BY <1>0, <1>1 DEF Persist, Goto, Rest
  <2>2. task[cur] = "working" /\ ~Terminal(meta[cur])
    BY <2>1, WorkIsUnfinished DEF Known, IInv, ControlInv, SectionOwners, Working
  <2>3. Prepared(cur).status = Effect[ending]
    BY <2>2, PreparedFacts DEF Known
  <2>4. Prepared(cur).status \in TerminalStatus
    BY <2>3, EffectFacts DEF TerminalStatus, Known, IInv, TypeOK, RestType
  <2>5. proj[cur] # Absent /\ Begun(cur)
    BY <1>0, <2>1, <2>2 DEF ShownInv, Shown, Begun
  <2>6. pc \notin Creation \cup Storing \cup {"start"}
    BY <2>1 DEF Creation, Storing
  <2>7. Public(cur) = "running"
    BY <1>0, <2>2, <2>5, <2>6 DEF ShownInv, Shown, Public
  <2>8. Moves(Public(cur), Prepared(cur).status)
    BY <2>4, <2>7 DEF Moves
  <2>9. pc' \notin Creation \cup Storing \cup {"start", "accept", "request", "confirm"}
    BY <2>1 DEF Creation, Storing
  <2>10. CallsStay
    BY <2>1 DEF CallsStay
  <2> QED BY <2>1, <2>4, <2>5, <2>6, <2>8, <2>9, <2>10, StoredShown
<1>2. CASE SaveCancelled \/ SaveFailed \/ SaveConfirmed
  <2>1. /\ Save(cur, proj[cur]) /\ pc \in Storing /\ pc' = "idle"
        /\ UNCHANGED <<proj, phase, cur>>
        /\ \/ UNCHANGED <<task, call>>
           \/ \E how : TaskEnds(cur, how)
    BY <1>0, <1>2 DEF SaveCancelled, SaveFailed, SaveConfirmed, SaveProjection, Goto, Leave,
       TaskReturns, TaskRaises, Storing, Rest
  <2>2. ~Terminal(meta[cur])
    BY <2>1, WorkIsUnfinished DEF Known, OutcomeInv, Storing, Failing
  <2>3. proj[cur].status \in TerminalStatus /\ Public(cur) = proj[cur].status
    BY <2>1, <2>2 DEF Known, OutcomeInv, Terminal, Public
  <2>4. proj[cur] # Absent /\ Moves(Public(cur), proj[cur].status)
    BY <2>3, AcceptedFacts DEF Terminal, Moves
  <2>5. /\ pc \notin Creation /\ pc # "start"
        /\ pc' \notin Creation \cup Storing \cup {"start", "accept", "request", "confirm"}
    BY <2>1 DEF Creation, Storing
  <2>6. \A r \in Runs \ {cur} : task'[r] = task[r]
    BY <1>0, <2>1 DEF TaskEnds
  <2>7. CallsStay
    BY <1>0, <2>1, CallsStayAtEnd
  <2> QED BY <2>1, <2>3, <2>4, <2>5, <2>6, <2>7, StoredShown
<1> QED BY <1>1, <1>2

\* The closing events of a completion are of a run whose outcome is stored.
LEMMA ClosingKept ==
  ASSUME Known, ShownInv, ClosePhase \/ CloseReport \/ CloseRun
  PROVE  Keeps
<1>0. /\ cur \in Runs /\ pc \in Closing /\ ~HasTerminal(cur) /\ task \in [Runs -> TaskState]
      /\ {ending, "progress", "report.completed"} \subseteq Event
      /\ Effect[ending] \in TerminalStatus
  BY EffectFacts DEF Known, IInv, TypeOK, ControlType, RestType, SteadyInv, SectionsRelyOn,
     ClosePhase, CloseReport, CloseRun, Close, Closing, Event, TerminalEvent, TerminalStatus
<1>1. meta[cur].status = Effect[ending] /\ task[cur] = "working"
  BY <1>0 DEF Known, IInv, ControlInv, ClosingIsBacked, SectionOwners
<1>2. PICK e \in {"progress", "report.completed", ending} :
        /\ Append_(cur, e) /\ UNCHANGED <<mem, phase, cur>>
        /\ pc' \in {"close report", "close run", "idle"}
        /\ \/ UNCHANGED <<task, call>>
           \/ \E how : TaskEnds(cur, how)
  <2>1. ~DiskFault /\ \A e \in Event : CanAppend(cur, e)
    BY <1>0, NoFault DEF CanAppend, Known, OutcomeInv, Undisturbed
  <2>2. CASE ClosePhase
    BY <1>0, <2>1, <2>2 DEF ClosePhase, Close, Goto, Rest
  <2>3. CASE CloseReport
    BY <1>0, <2>1, <2>3 DEF CloseReport, Close, Goto, Rest
  <2>4. CASE CloseRun
    BY <1>0, <2>1, <2>4 DEF CloseRun, Close, TaskReturns, Rest
  <2> QED BY <2>2, <2>3, <2>4
<1>3. /\ UNCHANGED meta
      /\ \A r \in Runs \ {cur} : proj'[r] = proj[r]
      /\ e \in DOMAIN Effect => proj'[cur].status = Effect[e]
      /\ e \notin DOMAIN Effect => proj'[cur].status = proj[cur].status
  <2>1. e \in Event /\ Append_(cur, e)
    BY <1>0, <1>2
  <2> QED BY <1>0, <2>1, AppendSteady
<1>4. Terminal(meta[cur])
  BY <1>0, <1>1 DEF Terminal
<1>5. proj[cur] # Absent /\ proj[cur].status # "none"
  BY <1>0, <1>1 DEF ShownInv, Shown
<1>6. proj'[cur].status # "none" /\ proj'[cur] # Absent
  <2>1. proj'[cur].status # "none"
    BY <1>2, <1>3, <1>5, EffectType
  <2> QED BY <2>1, AcceptedFacts
<1>7. /\ pc \notin Creation \cup Storing \cup {"start"}
      /\ pc' \notin Creation \cup Storing \cup {"start", "accept", "request", "confirm"}
  BY <1>0, <1>2 DEF Creation, Storing, Closing
<1>8. \A r \in Runs \ {cur} : task'[r] = task[r]
  BY <1>0, <1>2 DEF TaskEnds
<1>9. \A r \in Runs : Public(r)' = Public(r)
  BY <1>3, <1>4 DEF Public, Terminal
<1>10. Shown(cur)'
  BY <1>0, <1>2, <1>3, <1>4, <1>5, <1>6, <1>7 DEF ShownInv, Shown, Terminal
<1>11. ASSUME NEW r \in Runs \ {cur} PROVE Shown(r)'
  BY <1>2, <1>3, <1>7, <1>8 DEF ShownInv, Shown, Terminal, Begun
<1>12. FoundNothing'
  BY <1>0, <1>2, <1>3, <1>5 DEF ShownInv, FoundNothing
<1>13. AskedIsShown'
  <2>1. CallsStay
    BY <1>0, <1>2, CallsStayAtEnd
  <2>2. \A r \in Runs : proj'[r] = Absent => proj[r] = Absent
    BY <1>3, <1>6
  <2> QED BY <2>1, <2>2, AskedStays
<1>14. ShownInv'
  BY <1>2, <1>10, <1>11, <1>12, <1>13 DEF ShownInv
<1> QED BY <1>9, <1>14, ContractStutter DEF Keeps

\* A creation is shown once its receipt is written.
LEMMA CreatingKept ==
  ASSUME Known, ShownInv, WriteMetadata \/ WriteReceipt
  PROVE  Keeps
<1>0. /\ cur \in Runs /\ ~WriteRaises
      /\ proj \in [Runs -> Resource] /\ mem \in [Runs -> Resource] /\ meta \in [Runs -> Resource]
  BY NoFault DEF Known, IInv, OutcomeInv, Undisturbed, TypeOK, ControlType, DataType
<1>1. CASE WriteMetadata
  <2>1. /\ pc = "write metadata" /\ pc' = "write receipt"
        /\ meta' = [meta EXCEPT ![cur] = mem[cur]] /\ mem' = [mem EXCEPT ![cur] = mem[cur]]
        /\ UNCHANGED <<proj, phase, cur, task, call>>
    BY <1>0, <1>1 DEF WriteMetadata, Goto, Rest, Save
  <2>2. /\ pc \in Creation /\ pc \notin Storing \cup {"start"}
        /\ pc' \in Creation /\ pc' \notin Storing \cup {"start", "request", "confirm"}
    BY <2>1 DEF Creation, Storing
  <2>3. phase = "ready"
    <3>1. pc \notin Recovering \cup {"idle"}
      BY <2>1 DEF Recovering
    <3> QED BY <3>1 DEF Known, IInv, ControlInv, SectionOwners
  <2>4. ~Terminal(meta[cur]) /\ ~Terminal(mem[cur])
    <3>1. meta[cur] = Absent
      BY <2>1 DEF Known, OutcomeInv
    <3>2. mem[cur] = Absent \/ mem[cur] = Accepted
      BY <1>0, <2>1, <2>3, <3>1 DEF Known, IInv, ControlInv, CacheIsDisk
    <3> QED BY <3>1, <3>2, AcceptedFacts
  <2>5. /\ \A r \in Runs : mem'[r] = mem[r] /\ (r # cur => meta'[r] = meta[r])
        /\ ~Terminal(meta'[cur])
    BY <1>0, <2>1, <2>4
  <2>6. \A r \in Runs : Public(r)' = Public(r)
    <3>1. \A r \in Runs : proj'[r] = proj[r]
      BY <2>1
    <3> QED BY <2>4, <2>5, <3>1 DEF Public, Terminal
  <2>7. \A r \in Runs : Begun(r)' <=> Begun(r)
    BY <2>1, <2>2 DEF Begun
  <2>8. \A r \in Runs : Terminal(meta'[r]) <=> Terminal(meta[r])
    BY <2>4, <2>5 DEF Terminal
  <2>9. \A r \in Runs : Shown(r)'
    BY <2>1, <2>2, <2>5, <2>7, <2>8 DEF ShownInv, Shown, Terminal
  <2>10. FoundNothing' /\ AskedIsShown'
    BY <2>1, <2>3 DEF ShownInv, FoundNothing, AskedIsShown
  <2> QED BY <2>6, <2>9, <2>10, ContractStutter DEF Keeps, ShownInv
<1>2. CASE WriteReceipt
  <2>1. /\ pc = "write receipt" /\ pc' = "accept" /\ proj' = [proj EXCEPT ![cur] = Accepted]
        /\ UNCHANGED <<meta, mem, phase, cur, task, call>>
    BY <1>0, <1>2 DEF WriteReceipt, Goto, Rest
  <2>2. /\ pc \in Creation /\ pc \notin Storing \cup {"start"}
        /\ pc' \notin Creation \cup Storing \cup {"start", "request", "confirm"}
    BY <2>1 DEF Creation, Storing
  <2>3. phase = "ready"
    <3>1. pc \notin Recovering \cup {"idle"}
      BY <2>1 DEF Recovering
    <3> QED BY <3>1 DEF Known, IInv, ControlInv, SectionOwners
  <2>4. ~Terminal(meta[cur])
    BY <2>1 DEF Known, SteadyInv, SectionsRelyOn, Quiet
  <2>5. proj[cur] = Absent /\ task[cur] = "none"
    BY <1>0, <2>2 DEF ShownInv, Shown
  <2>6. proj'[cur] = Accepted /\ \A r \in Runs \ {cur} : proj'[r] = proj[r]
    BY <1>0, <2>1
  <2>7. Accepted # Absent /\ Accepted.status = "accepted" /\ Absent.status = "none"
    BY AcceptedFacts
  <2>8. Moves(Public(cur), Public(cur)')
    BY <2>1, <2>4, <2>5, <2>6, <2>7 DEF Moves, Public, Terminal
  <2>9. \A r \in Runs \ {cur} : Public(r)' = Public(r)
    <3>1. \A r \in Runs : meta'[r] = meta[r]
      BY <2>1
    <3> QED BY <2>6, <3>1 DEF Public, Terminal
  <2>10. \A r \in Runs : Begun(r)' <=> Begun(r)
    BY <2>1, <2>2 DEF Begun
  <2>11. ~Begun(cur)
    BY <2>5 DEF Begun
  <2>12. Shown(cur)'
    <3>1. mem[cur] # Absent
      BY <1>0, <2>2 DEF ShownInv, Shown
    <3>2. proj'[cur] # Absent /\ proj'[cur].status = "accepted" /\ ~Begun(cur)'
      <4>1. UNCHANGED cur
        BY <2>1
      <4> QED BY <1>0, <2>6, <2>7, <2>10, <2>11, <4>1
    <3> QED BY <2>1, <2>2, <2>4, <2>5, <3>1, <3>2 DEF Shown, Terminal
  <2>13. \A r \in Runs \ {cur} : Shown(r)'
    BY <2>1, <2>2, <2>6, <2>10 DEF ShownInv, Shown, Terminal
  <2>14. FoundNothing' /\ AskedIsShown'
    BY <1>0, <2>1, <2>3, <2>6, <2>7 DEF ShownInv, FoundNothing, AskedIsShown, Known, IInv, TypeOK,
       ControlType, CallState
  <2> QED BY <1>0, <2>1, <2>8, <2>9, <2>12, <2>13, <2>14, ContractStep DEF Keeps, ShownInv
<1> QED BY <1>1, <1>2

\* Tasks that start or are dropped, work that ends, and cancel requests that
\* resume: none of them moves a run.
LEMMA TasksKept ==
  ASSUME Known, ShownInv,
         \/ \E r \in Runs : StartTask(r) \/ WorkEnds(r) \/ DropTask(r)
         \/ \E c \in Callers : ResumeCancel(c)
  PROVE  Keeps
<1>0. task \in [Runs -> TaskState] /\ call \in [Callers -> CallState]
  BY DEF Known, IInv, TypeOK, ControlType
<1>1. ASSUME NEW r \in Runs, StartTask(r) PROVE Keeps
  <2>1. /\ Idle /\ task[r] = "scheduled" /\ phase' = "ready" /\ UNCHANGED <<meta, mem, proj>>
        /\ \/ pc' = "idle" /\ TaskEnds(r, "returns")
           \/ task' = [task EXCEPT ![r] = "working"] /\ pc' = "start" /\ cur' = r /\ UNCHANGED call
    BY <1>1 DEF StartTask, Idle, Enter, disk
  <2>2. \A s \in Runs \ {r} : task'[s] = task[s]
    BY <1>0, <2>1 DEF TaskEnds
  <2>3. \A s \in Runs : proj[s] = Absent => task'[s] = "none"
    BY <2>1, <2>2 DEF ShownInv, Shown
  <2>4. \A s \in Runs : Begun(s)' <=> Begun(s)
    BY <1>0, <2>1, <2>2 DEF Begun, TaskEnds, Idle
  <2>5. CallsStay
    BY <2>1, CallsStayAtEnd
  <2>6. /\ pc \notin Creation \cup Storing
        /\ pc' \notin Creation \cup Storing \cup {"accept", "request", "confirm"}
    BY <2>1 DEF Creation, Storing, Idle
  <2> QED BY <2>1, <2>3, <2>4, <2>5, <2>6, ShownFrame
<1>2. ASSUME NEW r \in Runs, WorkEnds(r) PROVE Keeps
  <2>1. /\ Idle /\ phase' = "ready" /\ pc' \in {"save result", "cancel", "fail steps", "fail"}
        /\ UNCHANGED <<meta, mem, proj, task, call>>
    BY <1>2 DEF WorkEnds, WorkReturns, WorkCancelled, WorkFails, AtWork, Idle, Enter, disk
  <2>2. /\ pc \notin Creation \cup Storing \cup {"start"}
        /\ pc' \notin Creation \cup Storing \cup {"start", "accept", "request", "confirm"}
    BY <2>1 DEF Creation, Storing, Idle
  <2>3. \A s \in Runs : Begun(s)' <=> Begun(s)
    BY <2>1, <2>2 DEF Begun
  <2>4. \A s \in Runs : proj[s] = Absent => task'[s] = "none"
    BY <2>1 DEF ShownInv, Shown
  <2>5. CallsStay
    BY <2>1 DEF CallsStay
  <2> QED BY <2>1, <2>2, <2>3, <2>4, <2>5, ShownFrame
<1>3. ASSUME NEW r \in Runs, DropTask(r) PROVE Keeps
  <2>1. /\ Idle /\ task[r] = "dropped" /\ phase' = "ready" /\ pc' = "idle" /\ TaskEnds(r, "returns")
        /\ UNCHANGED <<meta, mem, proj, cur>>
    BY <1>3 DEF DropTask, Idle, disk
  <2>2. \A s \in Runs : task'[s] = IF s = r THEN "done" ELSE task[s]
    BY <1>0, <2>1 DEF TaskEnds
  <2>3. \A s \in Runs : proj[s] = Absent => task'[s] = "none"
    BY <2>1, <2>2 DEF ShownInv, Shown
  <2>4. \A s \in Runs : Begun(s)' <=> Begun(s)
    BY <2>1, <2>2 DEF Begun, Idle
  <2>5. CallsStay
    BY <2>1, CallsStayAtEnd
  <2>6. /\ pc \notin Creation \cup Storing
        /\ pc' \notin Creation \cup Storing \cup {"accept", "request", "confirm"}
    BY <2>1 DEF Creation, Storing, Idle
  <2> QED BY <2>1, <2>3, <2>4, <2>5, <2>6, ShownFrame
<1>4. ASSUME NEW c \in Callers, ResumeCancel(c) PROVE Keeps
  <2>1. /\ Idle /\ phase' = "ready" /\ UNCHANGED <<meta, mem, proj, task>>
        /\ call[c].at = "woken" /\ call' = [call EXCEPT ![c].at = "none"]
        /\ \/ pc' = "idle"
           \/ pc' = "confirm" /\ cur' = call[c].run
    BY <1>4 DEF ResumeCancel, Idle, Enter, disk, NoCall
  <2>2. /\ pc \notin Creation \cup Storing \cup {"start"}
        /\ pc' \notin Creation \cup Storing \cup {"start", "accept", "request"}
    BY <2>1 DEF Creation, Storing, Idle
  <2>3. \A s \in Runs : Begun(s)' <=> Begun(s)
    BY <2>1, <2>2 DEF Begun
  <2>4. \A s \in Runs : proj[s] = Absent => task'[s] = "none"
    BY <2>1 DEF ShownInv, Shown
  <2>5. CallsStay
    BY <1>0, <2>1 DEF CallsStay, CallState
  <2>6. pc' \in {"request", "confirm"} => proj[cur'] # Absent
    BY <2>1 DEF ShownInv, AskedIsShown
  <2> QED BY <2>1, <2>2, <2>3, <2>4, <2>5, <2>6, ShownFrame
<1> QED BY <1>1, <1>2, <1>3, <1>4

\* A stored result, and the start of a process that finds nothing, move no run.
LEMMA BootingKept ==
  ASSUME Known, ShownInv,
         \/ SaveResult \/ Crash \/ Restart \/ Recover \/ FinishRecovery
         \/ RecoverAccepted \/ RecoverFailed \/ SaveRecovered
         \/ \E s \in Runs : WriteRecovered(s) \/ NextRecovered(s)
  PROVE  Keeps
<1>0. ~WriteRaises
  BY NoFault DEF Known, OutcomeInv, Undisturbed
<1>1. ~Crash
  BY DEF Crash, Known, Undisturbed, IInv, TypeOK, RestType
<1>2. ~RecoverAccepted /\ ~RecoverFailed /\ ~SaveRecovered
  BY DEF RecoverAccepted, RecoverFailed, SaveRecovered, Announce, SaveProjection, Known,
         OutcomeInv, Undisturbed, AtRecovered
<1>3. \A s \in Runs : ~WriteRecovered(s) /\ ~NextRecovered(s)
  BY DEF WriteRecovered, NextRecovered, Known, OutcomeInv, Undisturbed
<1>4. ~Restart
  BY DEF Restart, ShownInv, FoundNothing
<1>5. CASE Recover
  <2>1. /\ phase = "booting" /\ pc = "idle" /\ UNCHANGED <<meta, proj, task, call>>
        /\ mem' = [r \in Runs |-> Interrupted(meta[r])]
        /\ batch' = {r \in Runs : meta[r].status = "running"}
        /\ IF batch' = {} THEN phase' = "ready" /\ pc' = pc
                          ELSE phase' = phase /\ pc' = "write recovered"
    BY <1>5 DEF Recover, disk
  <2>2. \A r \in Runs : meta[r] = Absent /\ mem[r] = Absent
    BY <2>1 DEF ShownInv, FoundNothing
  <2>3. batch' = {} /\ \A r \in Runs : mem'[r] = Absent
    BY <2>1, <2>2, AcceptedFacts DEF Interrupted
  <2>4. phase' = "ready" /\ pc' = "idle" /\ \A r \in Runs : mem'[r] = mem[r]
    BY <2>1, <2>2, <2>3
  <2>5. /\ pc \notin Creation \cup Storing \cup {"start"}
        /\ pc' \notin Creation \cup Storing \cup {"start", "accept", "request", "confirm"}
    BY <2>1, <2>4 DEF Creation, Storing
  <2>6. \A s \in Runs : Begun(s)' <=> Begun(s)
    BY <2>1, <2>5 DEF Begun
  <2>7. \A s \in Runs : proj[s] = Absent => task'[s] = "none"
    BY <2>1 DEF ShownInv, Shown
  <2>8. CallsStay /\ \A r \in Runs : meta'[r] = meta[r] /\ proj'[r] = proj[r]
    BY <2>1 DEF CallsStay
  <2> QED BY <2>4, <2>5, <2>6, <2>7, <2>8, ShownFrame
<1>6. CASE FinishRecovery \/ SaveResult
  <2>1. /\ UNCHANGED <<meta, mem, proj, task, call>>
        /\ phase' = "ready" \/ phase' = phase
        /\ pc \in {"next recovered", "save result"} /\ pc' \in {"idle", "complete steps"}
    BY <1>0, <1>6 DEF FinishRecovery, SaveResult, Goto, Rest, disk
  <2>2. /\ pc \notin Creation \cup Storing \cup {"start"}
        /\ pc' \notin Creation \cup Storing \cup {"start", "accept", "request", "confirm"}
    BY <2>1 DEF Creation, Storing
  <2>3. \A s \in Runs : Begun(s)' <=> Begun(s)
    BY <2>1, <2>2 DEF Begun
  <2>4. \A s \in Runs : proj[s] = Absent => task'[s] = "none"
    BY <2>1 DEF ShownInv, Shown
  <2>5. CallsStay
    BY <2>1 DEF CallsStay
  <2>6. /\ \A r \in Runs : meta'[r] = meta[r] /\ proj'[r] = proj[r] /\ mem'[r] = mem[r]
        /\ phase' = "ready" \/ phase' = phase
    BY <2>1
  <2> QED BY <2>2, <2>3, <2>4, <2>5, <2>6, ShownFrame
<1> QED BY <1>1, <1>2, <1>3, <1>4, <1>5, <1>6

\* Every step of the service keeps the invariant, and is a step of the contract.
LEMMA StepKept == Known /\ ShownInv /\ [Next]_vars => Keeps
<1> SUFFICES ASSUME Known, ShownInv, [Next]_vars PROVE Keeps
  OBVIOUS
<1>1. CASE SectionStep
  BY <1>1, CreatingKept, AnnouncingKept, AskingKept, EndingKept, SavingKept, ClosingKept,
     BootingKept DEF SectionStep
<1>2. CASE Client
  BY <1>2, ClientKept
<1>3. CASE \/ \E r \in Runs : StartTask(r) \/ Progress(r) \/ WorkEnds(r) \/ DropTask(r)
           \/ \E c \in Callers : ResumeCancel(c)
  BY <1>3, TasksKept, AnnouncingKept
<1>4. CASE Crash \/ Restart \/ Recover
  BY <1>4, BootingKept
<1>5. CASE UNCHANGED vars
  <2>1. ShownInv'
    BY <1>5 DEF vars, ShownInv, FoundNothing, AskedIsShown, Shown, Begun, Terminal
  <2>2. \A r \in Runs : Public(r)' = Public(r)
    BY <1>5 DEF vars, Public, Terminal
  <2> QED BY <2>1, <2>2, ContractStutter DEF Keeps
<1> QED BY <1>1, <1>2, <1>3, <1>4, <1>5 DEF Next

\* A service that finds nothing on disk shows nothing.
LEMMA InitShown == Undisturbed /\ Init => ShownInv /\ Contract!Init
<1> SUFFICES ASSUME Undisturbed, Init PROVE ShownInv /\ Contract!Init
  OBVIOUS
<1>1. /\ pc = "idle" /\ phase = "booting"
      /\ \A r \in Runs : /\ meta[r] = Absent /\ mem[r] = Absent /\ proj[r] = Absent
                         /\ task[r] = "none"
      /\ \A c \in Callers : call[c].at = "none"
  BY DEF Init, Undisturbed, NoTask, NoCalls
<1>2. \A r \in Runs : Shown(r)
  BY <1>1, AcceptedFacts DEF Shown, Creation
<1>3. Contract!Init
  <2>1. \A r \in Runs : (IF Terminal(meta[r]) THEN meta[r].status ELSE proj[r].status) = "none"
    BY <1>1, AcceptedFacts
  <2> QED BY <2>1 DEF Contract!Init, PublicStatus
<1> QED BY <1>1, <1>2, <1>3 DEF ShownInv, FoundNothing, AskedIsShown

\* While nothing crashes and no write fails, the coordinator takes no step its
\* contract does not allow: each run is accepted, may run and ends once, as the
\* clients see it, however creations, replays, cancel requests, the agents' events
\* and the ends of the tasks interleave.  (That it does end rests on fairness.)
THEOREM ImplementsContract ==
  Undisturbed => (Spec => Contract!Init /\ [][Contract!Next]_PublicStatus)
<1> SUFFICES ASSUME Undisturbed
             PROVE  Spec => Contract!Init /\ [][Contract!Next]_PublicStatus
  OBVIOUS
<1>0. MaxFaults = 0
  BY DEF Undisturbed
<1>1. Init => ShownInv /\ Contract!Init
  BY InitShown
<1>2. IInv /\ OutcomeInv /\ SteadyInv /\ ShownInv /\ [Next]_vars =>
        ShownInv' /\ [Contract!Next]_PublicStatus
  BY StepKept DEF Known, Keeps
<1>3. Spec => []OutcomeInv
  BY <1>0, OutcomeInvariant
<1>4. Spec => []SteadyInv
  BY SteadyInvariant
<1> QED BY <1>1, <1>2, <1>3, <1>4, Invariant, PTL DEF Spec
=============================================================================
