------------------------ MODULE RunLifecycle_proofs ------------------------
(***************************************************************************)
(* Proofs about RunLifecycle for every set of runs, keys and cancel        *)
(* requests, and every number of crashes and failing writes.               *)
(***************************************************************************)
EXTENDS RunLifecycleInv, TLAPS

-----------------------------------------------------------------------------
(* Facts about the data. *)

\* The status each event sets.
LEMMA EffectFacts ==
  /\ DOMAIN Effect = Event \ {"progress", "run.cancel_requested"}
  /\ Effect["run.accepted"] = "accepted"
  /\ Effect["run.started"] = "running"
  /\ Effect["run.phase.started"] = "running"
  /\ Effect["report.completed"] = "completed"
  /\ Effect["run.completed"] = "completed"
  /\ Effect["run.partial"] = "partial"
  /\ Effect["run.failed"] = "failed"
  /\ Effect["run.cancelled"] = "cancelled"
BY DEF Effect, Event, TerminalEvent

\* Every effect is a status, and only completion events have a success as effect.
LEMMA EffectType ==
  ASSUME NEW e \in DOMAIN Effect
  PROVE  /\ e \in Event
         /\ Effect[e] \in Status \ {"none"}
         /\ Effect[e] \in Success => e \in SuccessEvent \cup {"report.completed"}
BY EffectFacts DEF Event, TerminalEvent, Status, TerminalStatus, Success, SuccessEvent

\* A run that is absent or just created.
LEMMA AcceptedFacts ==
  /\ Accepted \in Resource /\ Absent \in Resource
  /\ Accepted.seq = 0 /\ Absent.seq = 0
  /\ Accepted.status = "accepted" /\ Absent.status = "none"
  /\ ~Terminal(Accepted) /\ ~Terminal(Absent)
  /\ Accepted.status \notin Success /\ Absent.status \notin Success
<1>1. Accepted.status = "accepted" /\ Absent.status = "none" /\ Accepted.seq = 0 /\ Absent.seq = 0
  BY DEF Accepted, Absent
<1>2. Accepted \in Resource /\ Absent \in Resource
  BY DEF Accepted, Absent, Resource, Status
<1> QED BY <1>1, <1>2 DEF Terminal, TerminalStatus, Success

\* Appending one event: its length, and what is in it.
LEMMA AppendFacts ==
  ASSUME NEW s \in Seq(Event), NEW e \in Event
  PROVE  /\ Append(s, e) \in Seq(Event)
         /\ Len(Append(s, e)) = Len(s) + 1
         /\ Len(s) \in Nat
         /\ DOMAIN s = 1..Len(s)
         /\ DOMAIN Append(s, e) = 1..(Len(s) + 1)
         /\ \A i \in DOMAIN s : Append(s, e)[i] = s[i]
         /\ Append(s, e)[Len(s) + 1] = e
OBVIOUS

\* Applying an event yields a resource, with the event's status or the old one,
\* and moves the watermark to the event or not at all.
LEMMA ApplyFacts ==
  ASSUME NEW p \in Resource, NEW e \in Event, NEW n \in Nat
  PROVE  /\ Apply(p, e, n) \in Resource
         /\ \/ Apply(p, e, n).status = p.status
            \/ e \in DOMAIN Effect /\ Apply(p, e, n).status = Effect[e]
         /\ n <= p.seq => Apply(p, e, n) = p
         /\ n > p.seq => /\ Apply(p, e, n).seq = n
                         /\ e \in DOMAIN Effect => Apply(p, e, n).status = Effect[e]
                         /\ e \notin DOMAIN Effect => Apply(p, e, n).status = p.status
BY EffectType DEF Apply, Resource, Status

\* Hydration: a resource whose status is the stored one or a logged event's, and
\* that is the stored one when the stored watermark is past the log.
LEMMA HydratedFacts ==
  ASSUME TypeOK, NEW r \in Runs
  PROVE  /\ Hydrated(r) \in Resource
         /\ \/ Hydrated(r).status = mem[r].status
            \/ \E e \in DOMAIN Effect : Logged(r, e) /\ Hydrated(r).status = Effect[e]
         /\ Hydrated(r).seq > Len(log[r]) => Hydrated(r).status = mem[r].status /\ mem[r].seq > Len(log[r])
<1> DEFINE Bearing(i) == i > mem[r].seq /\ log[r][i] \in DOMAIN Effect
           last == {i \in DOMAIN log[r] : Bearing(i) /\ \A j \in DOMAIN log[r] : j > i => ~Bearing(j)}
           i0 == CHOOSE i \in last : TRUE
           st == IF last = {} THEN mem[r].status ELSE Effect[log[r][i0]]
           sq == IF Len(log[r]) > mem[r].seq THEN Len(log[r]) ELSE mem[r].seq
<1>1. Hydrated(r) = [status |-> st, seq |-> sq]
  BY DEF Hydrated
<1>2. /\ log[r] \in Seq(Event) /\ Len(log[r]) \in Nat /\ DOMAIN log[r] = 1..Len(log[r])
      /\ mem[r] \in Resource
  BY DEF TypeOK, DataType
<1>3. last # {} => i0 \in last
  OBVIOUS
<1>4. last # {} => /\ log[r][i0] \in DOMAIN Effect /\ Logged(r, log[r][i0])
                   /\ st = Effect[log[r][i0]] /\ Len(log[r]) > mem[r].seq
  <2> HAVE last # {}
  <2>1. i0 \in DOMAIN log[r] /\ i0 > mem[r].seq /\ log[r][i0] \in DOMAIN Effect
    BY <1>3
  <2>2. Logged(r, log[r][i0])
    BY <2>1 DEF Logged
  <2>3. Len(log[r]) > mem[r].seq
    <3> HIDE DEF i0
    <3> QED BY <2>1, <1>2 DEF Resource
  <2> QED BY <2>1, <2>2, <2>3
<1>5. st \in Status
  <2>1. CASE last = {}
    BY <2>1, <1>2 DEF Resource
  <2>2. CASE last # {}
    BY <2>2, <1>4, EffectType
  <2> QED BY <2>1, <2>2
<1>6. sq \in Nat /\ (sq > Len(log[r]) => sq = mem[r].seq)
  BY <1>2 DEF Resource
<1>7. sq > Len(log[r]) => last = {}
  BY <1>4, <1>6, <1>2 DEF Resource
<1>8. Hydrated(r).status = st /\ Hydrated(r).seq = sq /\ Hydrated(r) \in Resource
  <2> HIDE DEF st, sq
  <2> QED BY <1>1, <1>5, <1>6 DEF Resource
<1> HIDE DEF i0
<1>9. st = mem[r].status \/ \E e \in DOMAIN Effect : Logged(r, e) /\ st = Effect[e]
  BY <1>4
<1>10. sq > Len(log[r]) => st = mem[r].status /\ mem[r].seq > Len(log[r])
  BY <1>6, <1>7
<1> QED BY <1>8, <1>9, <1>10

\* One appended event: what the logs and the projections hold afterwards.
LEMMA AppendStep ==
  ASSUME TypeOK, NEW r \in Runs, NEW e \in Event, Append_(r, e)
  PROVE  /\ log' \in [Runs -> Seq(Event)] /\ proj' \in [Runs -> Resource]
         /\ \A s \in Runs, x \in Event : Logged(s, x)' <=> (Logged(s, x) \/ (s = r /\ x = e))
         /\ \A s \in Runs : Len(log[s]) \in Nat /\ Len(log'[s]) \in Nat /\ Len(log'[s]) >= Len(log[s])
         /\ \A s \in Runs : proj'[s].seq > Len(log'[s]) =>
              proj'[s] = proj[s] /\ proj[s].seq > Len(log[s])
         /\ \A s \in Runs : \/ proj'[s].status = proj[s].status
                            \/ s = r /\ e \in DOMAIN Effect /\ proj'[s].status = Effect[e]
<1> DEFINE n == Len(log[r]) + 1
<1>1. /\ log \in [Runs -> Seq(Event)] /\ proj \in [Runs -> Resource]
      /\ log' = [log EXCEPT ![r] = Append(@, e)]
      /\ proj' = [proj EXCEPT ![r] = Apply(@, e, n)]
  BY DEF TypeOK, DataType, Append_
<1>2. /\ Append(log[r], e) \in Seq(Event)
      /\ Len(Append(log[r], e)) = n /\ Len(log[r]) \in Nat
      /\ DOMAIN log[r] = 1..Len(log[r]) /\ DOMAIN Append(log[r], e) = 1..n
      /\ \A i \in DOMAIN log[r] : Append(log[r], e)[i] = log[r][i]
      /\ Append(log[r], e)[n] = e
  BY <1>1, AppendFacts
<1>3. /\ log'[r] = Append(log[r], e) /\ proj'[r] = Apply(proj[r], e, n)
      /\ \A s \in Runs \ {r} : log'[s] = log[s] /\ proj'[s] = proj[s]
  BY <1>1
<1>4. /\ Apply(proj[r], e, n) \in Resource
      /\ \/ Apply(proj[r], e, n).status = proj[r].status
         \/ e \in DOMAIN Effect /\ Apply(proj[r], e, n).status = Effect[e]
      /\ n <= proj[r].seq => Apply(proj[r], e, n) = proj[r]
      /\ n > proj[r].seq => Apply(proj[r], e, n).seq = n
  BY <1>1, <1>2, ApplyFacts
<1>5. log' \in [Runs -> Seq(Event)] /\ proj' \in [Runs -> Resource]
  BY <1>1, <1>2, <1>4
<1>6. ASSUME NEW s \in Runs, NEW x \in Event
      PROVE  Logged(s, x)' <=> (Logged(s, x) \/ (s = r /\ x = e))
  <2>1. CASE s = r
    BY <2>1, <1>2, <1>3 DEF Logged
  <2>2. CASE s # r
    BY <2>2, <1>3 DEF Logged
  <2> QED BY <2>1, <2>2
<1>7. \A s \in Runs : Len(log[s]) \in Nat /\ Len(log'[s]) \in Nat /\ Len(log'[s]) >= Len(log[s])
  BY <1>1, <1>2, <1>3
<1>8. ASSUME NEW s \in Runs, proj'[s].seq > Len(log'[s])
      PROVE  proj'[s] = proj[s] /\ proj[s].seq > Len(log[s])
  <2>1. CASE s = r
    <3>1. proj[r].seq \in Nat /\ n \in Nat
      BY <1>1, <1>2 DEF Resource
    <3> QED BY <2>1, <3>1, <1>8, <1>2, <1>3, <1>4
  <2>2. CASE s # r
    BY <2>2, <1>8, <1>3
  <2> QED BY <2>1, <2>2
<1>9. \A s \in Runs : \/ proj'[s].status = proj[s].status
                      \/ s = r /\ e \in DOMAIN Effect /\ proj'[s].status = Effect[e]
  BY <1>3, <1>4
<1> QED BY <1>5, <1>6, <1>7, <1>8, <1>9

-----------------------------------------------------------------------------
(* Type correctness. *)

\* The types hold initially.
LEMMA InitType == Init => TypeOK
<1> SUFFICES ASSUME Init PROVE TypeOK
  OBVIOUS
<1> USE DEF Init
<1>1. <<>> \in Seq(Event) /\ <<"run.accepted", "run.started">> \in Seq(Event)
  BY DEF Event
<1>2. log \in [Runs -> Seq(Event)]
  BY <1>1
<1>3. \A r \in Runs : Len(log[r]) \in Nat
  BY <1>2
<1>4. Absent \in Resource /\ \A n \in Nat : [status |-> "running", seq |-> n] \in Resource
  BY DEF Absent, Resource, Status
<1>5. meta \in [Runs -> Resource]
  BY <1>3, <1>4
<1>6. DataType
  BY <1>2, <1>4, <1>5 DEF DataType
<1>7. ControlType
  BY DEF ControlType, Labels, TaskState, CallState, NoTask, NoCalls
<1>8. RestType
  BY DEF RestType
<1> QED BY <1>6, <1>7, <1>8 DEF TypeOK

\* What a step that publishes leaves of the data.
LEMMA PublishType ==
  ASSUME TypeOK, NEW r \in Runs, NEW e \in Event,
         Publish(r, e) \/ PublishRaises(r, e), UNCHANGED mem
  PROVE  DataType'
<1>1. CASE Publish(r, e)
  BY <1>1, AppendStep DEF TypeOK, Publish, Append_, DataType
<1>2. CASE PublishRaises(r, e)
  BY <1>2 DEF TypeOK, PublishRaises, DataType, DiskFault, disk
<1> QED BY <1>1, <1>2

\* What a write that raises leaves of the data.
LEMMA WriteRaisesType ==
  ASSUME TypeOK, WriteRaises, UNCHANGED <<proj, ahead>>
  PROVE  DataType'
BY DEF TypeOK, WriteRaises, DataType, DiskFault, disk

\* What a write of the repository leaves of the data.
LEMMA SaveType ==
  ASSUME TypeOK, NEW r \in Runs, NEW x \in Resource,
         Save(r, x) \/ WriteRaises, UNCHANGED <<proj, ahead>>
  PROVE  DataType'
<1>1. CASE Save(r, x)
  BY <1>1 DEF TypeOK, Save, DataType
<1>2. CASE WriteRaises
  BY <1>2, WriteRaisesType
<1> QED BY <1>1, <1>2

\* Where control goes.
LEMMA GotoType == ASSUME TypeOK, NEW l \in Labels, Goto(l) PROVE ControlType'
BY DEF TypeOK, Goto, ControlType

\* A task that ends keeps the types of the tasks and of the calls it wakes.
LEMMA TaskEndsType ==
  ASSUME TypeOK, NEW r \in Runs, NEW how, TaskEnds(r, how)
  PROVE  task' \in [Runs -> TaskState] /\ call' \in [Callers -> CallState]
BY DEF TypeOK, TaskEnds, ControlType, TaskState, CallState

\* The two ways an execution ends keep control well typed.
LEMMA TaskOverType == ASSUME TypeOK, TaskReturns \/ TaskRaises PROVE ControlType'
BY TaskEndsType DEF TypeOK, TaskReturns, TaskRaises, ControlType, Labels

\* The receipts, the tokens, the phase and the counters keep their type when none of them changes.
LEMMA RestUnchanged == ASSUME TypeOK, Rest PROVE RestType'
BY DEF TypeOK, RestType, Rest

\* Every event and label named below is one.
LEMMA Named ==
  /\ {"run.accepted", "run.started", "run.phase.started", "progress", "run.cancel_requested",
      "report.completed", "run.completed", "run.partial", "run.failed", "run.cancelled"} = Event
  /\ {"idle", "accept", "start", "start phase", "plan", "save result", "complete steps",
      "persist", "close phase", "close report", "close run", "cancel", "save cancelled",
      "fail steps", "fail", "save failed", "request", "confirm", "save confirmed",
      "write metadata", "write receipt", "write recovered", "next recovered",
      "recover accept", "recover fail", "save recovered"} = Labels
BY DEF Event, TerminalEvent, Labels

\* A section's step that publishes, and where control may go after it.
LEMMA AnnounceType ==
  ASSUME TypeOK, NEW e \in Event, NEW l \in Labels, NEW h \in Labels,
         Publish(cur, e) \/ PublishRaises(cur, e), UNCHANGED mem, Rest,
         \/ Goto(l)
         \/ Goto(h)
         \/ TaskReturns
         \/ TaskRaises
  PROVE  TypeOK'
<1>1. DataType'
  BY PublishType DEF TypeOK, ControlType
<1>2. ControlType'
  BY GotoType, TaskOverType
<1> QED BY <1>1, <1>2, RestUnchanged DEF TypeOK

\* A section's step that writes metadata, and where control may go after it.
LEMMA WriteType ==
  ASSUME TypeOK, NEW r \in Runs, NEW x \in Resource, NEW l \in Labels, NEW h \in Labels,
         Save(r, x) \/ WriteRaises, UNCHANGED <<proj, ahead>>, Rest,
         \/ Goto(l)
         \/ Goto(h)
         \/ TaskReturns
         \/ TaskRaises
  PROVE  TypeOK'
<1>1. DataType'
  BY SaveType
<1>2. ControlType'
  BY GotoType, TaskOverType
<1> QED BY <1>1, <1>2, RestUnchanged DEF TypeOK

\* The sections that publish one event.
LEMMA AnnouncingType ==
  ASSUME TypeOK,
         \/ AnnounceStart \/ AnnouncePhase \/ AnnouncePlan \/ CompleteSteps
         \/ AnnounceCancelled \/ FailSteps \/ AnnounceFailed \/ ConfirmCancel
         \/ RecoverAccepted \/ RecoverFailed
  PROVE  TypeOK'
<1>1. CASE AnnounceStart
  BY <1>1, AnnounceType, Named DEF AnnounceStart, Announce
<1>2. CASE AnnouncePhase
  BY <1>2, AnnounceType, Named DEF AnnouncePhase, Announce
<1>3. CASE AnnouncePlan
  BY <1>3, AnnounceType, Named DEF AnnouncePlan, Announce, Leave
<1>4. CASE CompleteSteps
  BY <1>4, AnnounceType, Named DEF CompleteSteps, Announce
<1>5. CASE AnnounceCancelled
  BY <1>5, AnnounceType, Named DEF AnnounceCancelled, Announce
<1>6. CASE FailSteps
  BY <1>6, AnnounceType, Named DEF FailSteps, Announce
<1>7. CASE AnnounceFailed
  BY <1>7, AnnounceType, Named DEF AnnounceFailed, Announce
<1>8. CASE ConfirmCancel
  BY <1>8, AnnounceType, Named DEF ConfirmCancel, Announce, Leave
<1>9. CASE RecoverAccepted
  BY <1>9, AnnounceType, Named DEF RecoverAccepted, Announce, Leave
<1>10. CASE RecoverFailed
  BY <1>10, AnnounceType, Named DEF RecoverFailed, Announce, Leave
<1> QED BY <1>1, <1>2, <1>3, <1>4, <1>5, <1>6, <1>7, <1>8, <1>9, <1>10

\* The projection prepared for completion is a resource.
LEMMA PreparedType == ASSUME TypeOK PROVE Prepared(cur) \in Resource
<1> DEFINE n == Len(log[cur])
           p1 == Apply(proj[cur], "progress", n + 1)
           p2 == Apply(p1, "report.completed", n + 2)
<1>0. ending \in Event /\ "progress" \in Event /\ "report.completed" \in Event
  BY DEF TypeOK, RestType, Event, TerminalEvent
<1>1. proj[cur] \in Resource /\ n \in Nat
  BY DEF TypeOK, DataType, ControlType
<1>2. p1 \in Resource
  BY <1>0, <1>1, ApplyFacts
<1> HIDE DEF p1
<1>3. p2 \in Resource
  BY <1>0, <1>1, <1>2, ApplyFacts
<1> HIDE DEF p2
<1>4. Apply(p2, ending, n + 3) \in Resource
  BY <1>0, <1>1, <1>3, ApplyFacts
<1> QED BY <1>4 DEF Prepared, p1, p2

\* The sections that write metadata.
LEMMA SavingType ==
  ASSUME TypeOK,
         \/ WriteMetadata \/ Persist \/ SaveCancelled \/ SaveFailed \/ SaveConfirmed
         \/ SaveRecovered \/ (\E r \in Runs : WriteRecovered(r))
  PROVE  TypeOK'
<1>0. cur \in Runs /\ \A r \in Runs : mem[r] \in Resource /\ proj[r] \in Resource
  BY DEF TypeOK, DataType, ControlType
<1>1. CASE WriteMetadata
  BY <1>0, <1>1, WriteType, Named DEF WriteMetadata, Leave
<1>2. CASE Persist
  BY <1>0, <1>2, WriteType, PreparedType, Named DEF Persist
<1>3. CASE SaveCancelled
  BY <1>0, <1>3, WriteType, Named DEF SaveCancelled, SaveProjection
<1>4. CASE SaveFailed
  BY <1>0, <1>4, WriteType, Named DEF SaveFailed, SaveProjection
<1>5. CASE SaveConfirmed
  BY <1>0, <1>5, WriteType, Named DEF SaveConfirmed, SaveProjection, Leave
<1>6. CASE SaveRecovered
  BY <1>0, <1>6, WriteType, Named DEF SaveRecovered, SaveProjection, Leave
<1>7. ASSUME NEW r \in Runs, WriteRecovered(r) PROVE TypeOK'
  BY <1>0, <1>7, WriteType, Named DEF WriteRecovered, Leave
<1> QED BY <1>1, <1>2, <1>3, <1>4, <1>5, <1>6, <1>7

\* The remaining steps of a section.
LEMMA ClosingType ==
  ASSUME TypeOK, ClosePhase \/ CloseReport \/ CloseRun
  PROVE  TypeOK'
<1>1. ASSUME NEW e \in Event, NEW l \in Labels, Rest, UNCHANGED <<mem, ahead>>,
             \/ Append_(cur, e) /\ UNCHANGED faults
             \/ DiskFault /\ UNCHANGED <<disk, proj>>
             \/ UNCHANGED faults /\ UNCHANGED <<disk, proj>>,
             Goto(l) \/ TaskReturns
      PROVE  TypeOK'
  <2>1. DataType'
    <3>1. CASE Append_(cur, e) /\ UNCHANGED faults
      BY <1>1, <3>1, AppendStep DEF TypeOK, DataType, ControlType, Append_
    <3>2. CASE UNCHANGED <<disk, proj>>
      BY <1>1, <3>2 DEF TypeOK, DataType, DiskFault, disk
    <3> QED BY <1>1, <3>1, <3>2
  <2>2. ControlType' /\ RestType'
    BY <1>1, GotoType, TaskOverType, RestUnchanged
  <2> QED BY <2>1, <2>2 DEF TypeOK
<1>2. ending \in Event
  BY DEF TypeOK, RestType, Event, TerminalEvent
<1>3. CASE ClosePhase
  BY <1>1, <1>3, Named DEF ClosePhase, Close
<1>4. CASE CloseReport
  BY <1>1, <1>4, Named DEF CloseReport, Close
<1>5. CASE CloseRun
  BY <1>1, <1>2, <1>5, Named DEF CloseRun, Close
<1> QED BY <1>3, <1>4, <1>5

\* The sections that write a receipt or a result, or move from one recovered run to the next.
LEMMA OtherSectionType ==
  ASSUME TypeOK,
         \/ WriteReceipt \/ Accept \/ SaveResult \/ FinishRecovery
         \/ \E c \in Callers : AnnounceRequest(c)
         \/ \E r \in Runs : NextRecovered(r)
  PROVE  TypeOK'
<1> USE DEF TypeOK
<1>1. CASE WriteReceipt
  <2>1. Accepted \in Resource
    BY DEF Accepted, Resource, Status
  <2>2. DataType'
    <3>1. CASE /\ receipts' = idem
               /\ proj' = [proj EXCEPT ![cur] = Accepted]
               /\ UNCHANGED <<meta, result, log, mem, faults, ahead>>
      BY <2>1, <3>1 DEF DataType, RestType
    <3>2. CASE WriteRaises /\ UNCHANGED <<proj, ahead>>
      BY <3>2, WriteRaisesType
    <3> QED BY <1>1, <3>1, <3>2 DEF WriteReceipt
  <2>3. ControlType'
    BY <1>1, GotoType, Named DEF WriteReceipt, Leave
  <2> QED BY <1>1, <2>2, <2>3, RestUnchanged DEF WriteReceipt
<1>2. CASE Accept
  <2>1. DataType'
    BY <1>2, PublishType, Named DEF Accept, ControlType
  <2>2. ControlType'
    <3>1. CASE Publish(cur, "run.accepted") /\ task' = Schedule(cur) /\ Enter("idle", cur) /\ UNCHANGED call
      BY <3>1 DEF Schedule, Enter, ControlType, Labels, TaskState
    <3> QED BY <1>2, <3>1, GotoType, Named DEF Accept, Leave
  <2>3. RestType'
    BY <1>2 DEF Accept, RestType, ControlType
  <2> QED BY <2>1, <2>2, <2>3
<1>3. CASE SaveResult
  <2>1. DataType'
    <3>1. CASE result' = result \cup {cur} /\ UNCHANGED <<meta, receipts, log, mem, faults>>
      BY <1>3, <3>1 DEF SaveResult, DataType, ControlType
    <3> QED BY <1>3, <3>1, WriteRaisesType DEF SaveResult
  <2>2. ControlType'
    BY <1>3, GotoType, Named DEF SaveResult
  <2> QED BY <1>3, <2>1, <2>2, RestUnchanged DEF SaveResult
<1>4. CASE FinishRecovery
  BY <1>4 DEF FinishRecovery, DataType, ControlType, RestType, Labels, disk, env
<1>5. ASSUME NEW c \in Callers, AnnounceRequest(c) PROVE TypeOK'
  <2>1. DataType'
    BY <1>5, PublishType, Named DEF AnnounceRequest, ControlType
  <2>2. call' \in [Callers -> CallState]
    BY <1>5 DEF AnnounceRequest, NoCall, CallState, ControlType
  <2>3. task' \in [Runs -> TaskState]
    BY <1>5 DEF AnnounceRequest, TaskState, ControlType
  <2>4. ControlType'
    BY <1>5, <2>2, <2>3 DEF AnnounceRequest, ControlType, Labels
  <2> QED BY <1>5, <2>1, <2>4, RestUnchanged DEF AnnounceRequest
<1>6. ASSUME NEW r \in Runs, NextRecovered(r) PROVE TypeOK'
  <2>1. DataType'
    BY <1>6, HydratedFacts DEF NextRecovered, Hydrate, ProjectionOf, DataType, disk, env
  <2>2. ControlType'
    BY <1>6 DEF NextRecovered, Enter, ControlType, Labels
  <2>3. RestType'
    BY <1>6 DEF NextRecovered, RestType, env
  <2> QED BY <2>1, <2>2, <2>3
<1> QED BY <1>1, <1>2, <1>3, <1>4, <1>5, <1>6

\* The steps taken while the loop is free.
LEMMA IdleStepType ==
  ASSUME TypeOK,
         \/ Client
         \/ \E r \in Runs : StartTask(r) \/ Progress(r) \/ WorkEnds(r) \/ DropTask(r)
         \/ \E c \in Callers : ResumeCancel(c)
  PROVE  TypeOK'
<1> USE DEF TypeOK
<1>1. ASSUME NEW k \in Keys \cup {NoKey}, NEW r \in Runs, Create(k, r) PROVE TypeOK'
  <2>1. Accepted \in Resource
    BY DEF Accepted, Resource, Status
  <2>2. idem' \in [Keys -> SUBSET Runs]
    BY <1>1 DEF Create, RestType
  <2> QED BY <1>1, <2>1, <2>2 DEF Create, Enter, DataType, ControlType, RestType, Labels, disk, env
<1>2. ASSUME NEW k \in Keys, Replay(k) PROVE TypeOK'
  <2> PICK r \in idem[k] : Hydrate(r) /\ task' = Schedule(r) /\ replied' = Reply(k, r)
    BY <1>2 DEF Replay
  <2>1. r \in Runs
    BY DEF RestType
  <2>2. DataType'
    BY <1>2, <2>1, HydratedFacts DEF Replay, Hydrate, ProjectionOf, DataType, disk, env
  <2>3. ControlType'
    BY <1>2, <2>1 DEF Replay, Schedule, ControlType, TaskState
  <2>4. RestType'
    BY <1>2, <2>1 DEF Replay, Reply, RestType, env
  <2> QED BY <2>2, <2>3, <2>4
<1>3. ASSUME NEW r \in Runs, Get(r) PROVE TypeOK'
  <2>1. DataType'
    BY <1>3, HydratedFacts DEF Get, Hydrate, ProjectionOf, DataType, disk, env
  <2> QED BY <1>3, <2>1 DEF Get, ControlType, RestType, env
<1>4. ASSUME NEW c \in Callers, NEW r \in Runs, RequestCancel(c, r) PROVE TypeOK'
  <2>1. DataType'
    BY <1>4, HydratedFacts DEF RequestCancel, Hydrate, ProjectionOf, DataType, disk, env
  <2>2. ControlType'
    BY <1>4 DEF RequestCancel, Enter, ControlType, CallState, Labels
  <2> QED BY <1>4, <2>1, <2>2 DEF RequestCancel, RestType, env
<1>5. ASSUME NEW r \in Runs, StartTask(r) PROVE TypeOK'
  <2>1. ControlType'
    <3>1. CASE TaskEnds(r, "returns") /\ UNCHANGED <<pc, cur>>
      BY <3>1, TaskEndsType DEF ControlType
    <3> QED BY <1>5, <3>1 DEF StartTask, Enter, ControlType, TaskState, Labels
  <2> QED BY <1>5, <2>1 DEF StartTask, DataType, RestType, disk, env
<1>6. ASSUME NEW r \in Runs, Progress(r) PROVE TypeOK'
  <2>1. DataType'
    BY <1>6, PublishType, Named DEF Progress
  <2> QED BY <1>6, <2>1, RestUnchanged DEF Progress, ControlType
<1>7. ASSUME NEW r \in Runs, WorkEnds(r) PROVE TypeOK'
  <2>1. ASSUME NEW t \in {"run.completed", "run.partial"}, WorkReturns(r, t) PROVE TypeOK'
    BY <2>1 DEF WorkReturns, Enter, DataType, ControlType, RestType, Labels, disk, env
  <2>2. CASE WorkCancelled(r)
    BY <2>2 DEF WorkCancelled, Enter, DataType, ControlType, RestType, Labels, disk, env
  <2>3. CASE WorkFails(r)
    BY <2>3 DEF WorkFails, Enter, DataType, ControlType, RestType, Labels, disk, env, Rest
  <2> QED BY <1>7, <2>1, <2>2, <2>3 DEF WorkEnds
<1>8. ASSUME NEW r \in Runs, DropTask(r) PROVE TypeOK'
  BY <1>8, TaskEndsType DEF DropTask, DataType, ControlType, RestType, disk, env
<1>9. ASSUME NEW c \in Callers, ResumeCancel(c) PROVE TypeOK'
  <2>1. call[c].run \in Runs /\ call' \in [Callers -> CallState]
    BY <1>9 DEF ResumeCancel, NoCall, ControlType, CallState
  <2>2. ControlType'
    BY <1>9, <2>1 DEF ResumeCancel, Enter, ControlType, Labels
  <2> QED BY <1>9, <2>2 DEF ResumeCancel, DataType, RestType, disk, env
<1> QED BY <1>1, <1>2, <1>3, <1>4, <1>5, <1>6, <1>7, <1>8, <1>9 DEF Client

\* Crash, restart and the first step of the recovery.
LEMMA ProcessType ==
  ASSUME TypeOK, Crash \/ Restart \/ Recover
  PROVE  TypeOK'
<1> USE DEF TypeOK
<1>1. Absent \in Resource
  BY DEF Absent, Resource, Status
<1>2. CASE Crash
  <2>1. DataType'
    BY <1>1, <1>2 DEF Crash, DataType, disk
  <2>2. \A c \in Callers : call[c].run \in Runs
    BY DEF ControlType, CallState
  <2>3. call' \in [Callers -> CallState]
    BY <1>2, <2>2 DEF Crash, NoCalls, CallState
  <2>4. ControlType'
    BY <1>2, <2>3 DEF Crash, NoTask, ControlType, TaskState, Labels
  <2>5. RestType'
    BY <1>2 DEF Crash, RestType
  <2> QED BY <2>1, <2>4, <2>5
<1>3. CASE Restart
  BY <1>3 DEF Restart, DataType, ControlType, RestType, disk, env
<1>4. CASE Recover
  <2>1. \A r \in Runs : Interrupted(meta[r]) \in Resource
    BY DEF Interrupted, DataType, Resource, Status, TerminalStatus
  <2>2. DataType'
    BY <1>4, <2>1 DEF Recover, DataType, disk, env
  <2> QED BY <1>4, <2>2 DEF Recover, ControlType, RestType, Labels, env
<1> QED BY <1>2, <1>3, <1>4

\* Every step keeps the types.
LEMMA StepType == TypeOK /\ [Next]_vars => TypeOK'
<1> SUFFICES ASSUME TypeOK, [Next]_vars PROVE TypeOK'
  OBVIOUS
<1>1. CASE SectionStep
  BY <1>1, AnnouncingType, SavingType, ClosingType, OtherSectionType DEF SectionStep
<1>2. CASE UNCHANGED vars
  BY <1>2 DEF vars, TypeOK, DataType, ControlType, RestType
<1> QED BY <1>1, <1>2, IdleStepType, ProcessType DEF Next

\* Every variable keeps its type: the coordinator never stores a status outside
\* the resource's states and never logs an event outside the public ones.
THEOREM TypeCorrect == Spec => []TypeOK
<1>1. Init => TypeOK
  BY InitType
<1>2. TypeOK /\ [Next]_vars => TypeOK'
  BY StepType
<1> QED BY <1>1, <1>2, PTL DEF Spec

-----------------------------------------------------------------------------
(* The data part of the invariant. *)

Revealing == SuccessEvent \cup {"report.completed"}

\* An append keeps the data in order if a completion event is backed by the
\* stored run and its result.
LEMMA AppendData ==
  ASSUME TypeOK, DataInv, NEW r \in Runs, NEW e \in Event, Append_(r, e),
         e \in Revealing => r \in result,
         e \in SuccessEvent => meta[r].status = Effect[e]
  PROVE  DataInv'
<1> USE DEF DataInv
<1>1. UNCHANGED <<meta, result>>
  BY DEF Append_
<1>2. SuccessHasResult'
  <2> SUFFICES ASSUME NEW s \in Runs,
                      \/ meta[s].status \in Success
                      \/ proj'[s].status \in Success
                      \/ \E x \in Revealing : Logged(s, x)'
               PROVE  s \in result
    BY <1>1 DEF SuccessHasResult, Revealing
  <2>0. Revealing \subseteq Event
    BY Named DEF Revealing, SuccessEvent, Event, TerminalEvent
  <2>1. CASE meta[s].status \in Success
    BY <2>1 DEF SuccessHasResult
  <2>2. CASE proj'[s].status \in Success
    BY <2>2, AppendStep, EffectType DEF SuccessHasResult, Revealing
  <2>3. CASE \E x \in Revealing : Logged(s, x)'
    BY <2>0, <2>3, AppendStep DEF SuccessHasResult, Revealing
  <2> QED BY <2>1, <2>2, <2>3
<1>3. LoggedSuccessIsStored'
  <2>1. SuccessEvent \subseteq Event
    BY DEF SuccessEvent, Event, TerminalEvent
  <2> QED BY <1>1, <2>1, AppendStep DEF LoggedSuccessIsStored
<1>4. Watermarks'
  <2>1. \A s \in Runs : meta[s].seq \in Nat
    BY DEF TypeOK, DataType, Resource
  <2> SUFFICES ASSUME NEW s \in Runs
               PROVE  /\ meta[s].seq > Len(log'[s]) => Terminal(meta[s])
                      /\ proj'[s].seq > Len(log'[s]) => Terminal(meta[s]) /\ Terminal(proj'[s])
    BY <1>1 DEF Watermarks, Terminal
  <2>2. Len(log[s]) \in Nat /\ Len(log'[s]) \in Nat /\ Len(log'[s]) >= Len(log[s])
    BY AppendStep
  <2>3. meta[s].seq > Len(log'[s]) => Terminal(meta[s])
    BY <2>1, <2>2 DEF Watermarks
  <2>4. proj'[s].seq > Len(log'[s]) => Terminal(meta[s]) /\ Terminal(proj'[s])
    BY AppendStep DEF Watermarks
  <2> QED BY <2>3, <2>4
<1> QED BY <1>2, <1>3, <1>4

\* Publishing an event that reveals no success keeps the data in order.
LEMMA PublishData ==
  ASSUME TypeOK, DataInv, NEW r \in Runs, NEW e \in Event \ Revealing,
         Publish(r, e) \/ PublishRaises(r, e)
  PROVE  DataInv'
<1>1. CASE Publish(r, e)
  BY <1>1, AppendData DEF Publish, Revealing
<1>2. CASE PublishRaises(r, e)
  BY <1>2 DEF PublishRaises, disk, DataInv, SuccessHasResult, LoggedSuccessIsStored, Watermarks, Logged
<1> QED BY <1>1, <1>2

\* A save keeps the data in order if what it stores has a result when it is a
\* success, agrees with a logged success, and is terminal when a watermark is
\* past the log.
LEMMA SaveData ==
  ASSUME TypeOK, DataInv, NEW r \in Runs, NEW x \in Resource, Save(r, x), UNCHANGED proj,
         x.status \in Success => r \in result,
         \A e \in SuccessEvent : Logged(r, e) => x.status = Effect[e],
         x.seq > Len(log[r]) \/ proj[r].seq > Len(log[r]) => Terminal(x)
  PROVE  DataInv'
<1> USE DEF DataInv
<1>1. UNCHANGED <<result, log, proj>> /\ meta' = [meta EXCEPT ![r] = x] /\ meta \in [Runs -> Resource]
  BY DEF Save, TypeOK, DataType
<1>2. \A s \in Runs : meta'[s] = IF s = r THEN x ELSE meta[s]
  BY <1>1
<1>3. SuccessHasResult'
  BY <1>1, <1>2 DEF SuccessHasResult, Logged
<1>4. LoggedSuccessIsStored'
  BY <1>1, <1>2 DEF LoggedSuccessIsStored, Logged
<1>5. Watermarks'
  BY <1>1, <1>2 DEF Watermarks, Terminal
<1> QED BY <1>3, <1>4, <1>5

\* A write that raises changes no data the invariant speaks of.
LEMMA WriteRaisesData ==
  ASSUME DataInv, WriteRaises, UNCHANGED proj PROVE DataInv'
BY DEF WriteRaises, disk, DataInv, SuccessHasResult, LoggedSuccessIsStored, Watermarks, Logged

\* Hydrating a projection shows no success without a result.
LEMMA HydrateData ==
  ASSUME TypeOK, DataInv, NEW r \in Runs, Hydrate(r), UNCHANGED disk,
         mem[r] = meta[r] \/ mem[r] = Accepted
  PROVE  DataInv'
<1> USE DEF DataInv
<1>1. UNCHANGED <<meta, result, log>> /\ proj' = [proj EXCEPT ![r] = ProjectionOf(r)]
      /\ proj \in [Runs -> Resource]
  BY DEF disk, Hydrate, TypeOK, DataType
<1>2. \A s \in Runs : proj'[s] = IF s = r THEN ProjectionOf(r) ELSE proj[s]
  BY <1>1
<1>3. Hydrated(r).status \in Success => r \in result
  BY HydratedFacts, EffectType DEF SuccessHasResult, Accepted, Success
<1>4. Hydrated(r).seq > Len(log[r]) => Terminal(meta[r]) /\ Terminal(Hydrated(r))
  <2>1. Len(log[r]) \in Nat
    BY DEF TypeOK, DataType
  <2> QED BY <2>1, HydratedFacts DEF Watermarks, Accepted, Terminal
<1>5. SuccessHasResult'
  BY <1>1, <1>2, <1>3 DEF SuccessHasResult, ProjectionOf, Logged
<1>6. LoggedSuccessIsStored'
  BY <1>1 DEF LoggedSuccessIsStored, Logged
<1>7. Watermarks'
  <2> SUFFICES ASSUME NEW s \in Runs
               PROVE  /\ meta[s].seq > Len(log[s]) => Terminal(meta[s])
                      /\ proj'[s].seq > Len(log[s]) => Terminal(meta[s]) /\ Terminal(proj'[s])
    BY <1>1 DEF Watermarks, Terminal
  <2>1. CASE s = r
    BY <2>1, <1>2, <1>4 DEF Watermarks, ProjectionOf
  <2>2. CASE s # r
    BY <2>2, <1>2 DEF Watermarks
  <2> QED BY <2>1, <2>2
<1> QED BY <1>5, <1>6, <1>7

-----------------------------------------------------------------------------
(* The control part of the invariant. *)

\* Publishing touches neither the stored runs nor their results, and afterwards
\* no success is logged if the published event was terminal and no success.
LEMMA PublishFrame ==
  ASSUME TypeOK, NEW r \in Runs, NEW e \in Event, Publish(r, e) \/ PublishRaises(r, e)
  PROVE  /\ UNCHANGED <<meta, result>>
         /\ Publish(r, e) /\ e \in TerminalEvent \ SuccessEvent =>
              \A x \in SuccessEvent : ~Logged(r, x)'
<1>1. UNCHANGED <<meta, result>>
  BY DEF Publish, Append_, PublishRaises, disk
<1>2. ASSUME Publish(r, e), e \in TerminalEvent \ SuccessEvent, NEW x \in SuccessEvent
      PROVE  ~Logged(r, x)'
  <2>1. ~Logged(r, x) /\ x \in Event
    BY <1>2 DEF Publish, CanAppend, HasTerminal, Logged, SuccessEvent, TerminalEvent, Event
  <2> QED BY <1>2, <2>1, AppendStep DEF Publish
<1> QED BY <1>1, <1>2

\* A request woken by the end of a task awaits no task at work.
LEMMA WokenAfterEnd ==
  ASSUME TypeOK, SectionOwners, NEW r \in Runs, NEW how, TaskEnds(r, how)
  PROVE  \A c \in Callers : call'[c].at = "woken" => task'[call'[c].run] # "working"
<1> SUFFICES ASSUME NEW c \in Callers, call'[c].at = "woken"
             PROVE  task'[call'[c].run] # "working"
  OBVIOUS
<1>1. task' = [task EXCEPT ![r] = "done"] /\ task \in [Runs -> TaskState]
  BY DEF TaskEnds, TypeOK, ControlType
<1>2. CASE call[c].at = "awaiting" /\ call[c].run = r
  <2>1. call'[c].run = r
    BY <1>2 DEF TaskEnds
  <2> QED BY <1>1, <2>1
<1>3. CASE ~(call[c].at = "awaiting" /\ call[c].run = r)
  <2>1. call'[c] = call[c]
    BY <1>3 DEF TaskEnds
  <2>2. task[call[c].run] # "working"
    BY <2>1 DEF SectionOwners
  <2>3. call[c].run \in Runs
    BY DEF TypeOK, ControlType, CallState
  <2> QED BY <1>1, <2>1, <2>2, <2>3
<1> QED BY <1>2, <1>3

\* What a section's step must leave for the runs it is not about.
\* and what it must leave of its own run in the cache.
OthersUntouched == \A r \in Runs \ {cur} : meta'[r] = meta[r] /\ mem'[r] = mem[r]
CurrentCached == mem'[cur] = meta'[cur] \/ (mem'[cur] = Accepted /\ meta'[cur] = Absent)

\* A task that is over owns no section, and its requests may resume.
LEMMA TaskOverControl ==
  ASSUME TypeOK, ControlInv, TaskReturns \/ TaskRaises, UNCHANGED phase,
         OthersUntouched, CurrentCached,
         pc \in Closing \cup Failing \cup {"start", "start phase"}
  PROVE  ControlInv'
<1> USE DEF ControlInv, OthersUntouched, CurrentCached
<1>1. /\ pc' = "idle" /\ cur' = cur /\ cur \in Runs
      /\ task' = [task EXCEPT ![cur] = "done"] /\ task \in [Runs -> TaskState]
  BY DEF TaskReturns, TaskRaises, TaskEnds, TypeOK, ControlType
<1>2. CacheIsDisk'
  BY <1>1 DEF CacheIsDisk, Closing, Failing
<1>3. WorkingIsUnfinished'
  BY <1>1 DEF WorkingIsUnfinished, Terminal
<1>4. \A c \in Callers : call'[c].at = "woken" => task'[call'[c].run] # "working"
  BY <1>1, WokenAfterEnd DEF TaskReturns, TaskRaises
<1>5. SectionOwners'
  BY <1>1, <1>4 DEF SectionOwners, Working, Closing, Failing, Recovering
<1>6. ClosingIsBacked' /\ SavedWithoutSuccess'
  BY <1>1 DEF ClosingIsBacked, SavedWithoutSuccess, Closing
<1> QED BY <1>2, <1>3, <1>5, <1>6

\* The next step of a section, or its end, without any change to the tasks.
LEMMA GotoControl ==
  ASSUME TypeOK, ControlInv, NEW l \in Labels, Goto(l), UNCHANGED phase,
         pc \notin {"idle", "write recovered"}, l # "write recovered",
         OthersUntouched, CurrentCached,
         l \in Working \cup Closing \cup Failing => task[cur] = "working",
         l \in {"confirm", "save confirmed"} => task[cur] # "working",
         l \in Recovering => phase = "booting",
         l \notin Recovering \cup {"idle"} => phase = "ready",
         task[cur] = "working" /\ Terminal(meta'[cur]) => l \in Closing \cup {"fail", "save failed"},
         ClosingIsBacked', SavedWithoutSuccess'
  PROVE  ControlInv'
<1> USE DEF ControlInv, OthersUntouched, CurrentCached
<1>1. pc' = l /\ UNCHANGED <<cur, task, call>> /\ cur \in Runs
  BY DEF Goto, TypeOK, ControlType
<1>2. CacheIsDisk'
  BY <1>1 DEF CacheIsDisk
<1>3. WorkingIsUnfinished'
  BY <1>1 DEF WorkingIsUnfinished, Terminal
<1>4. SectionOwners'
  BY <1>1 DEF SectionOwners
<1> QED BY <1>2, <1>3, <1>4

\* The sections of execute() that publish.
LEMMA AnnouncingInTask ==
  ASSUME IInv,
         \/ AnnounceStart \/ AnnouncePhase \/ AnnouncePlan \/ CompleteSteps
         \/ AnnounceCancelled \/ FailSteps \/ AnnounceFailed
  PROVE  DataInv' /\ ControlInv'
<1> USE DEF IInv
<1>0. /\ cur \in Runs
      /\ {"run.started", "run.phase.started", "progress", "run.cancelled", "run.failed"}
           \subseteq Event \ Revealing
      /\ {"run.cancelled", "run.failed"} \subseteq TerminalEvent \ SuccessEvent
  BY DEF TypeOK, ControlType, Event, TerminalEvent, Revealing, SuccessEvent
<1>1. /\ pc \in {"start", "start phase", "plan", "complete steps", "cancel", "fail steps", "fail"}
      /\ UNCHANGED <<mem, phase, ending>>
  BY DEF AnnounceStart, AnnouncePhase, AnnouncePlan, CompleteSteps, AnnounceCancelled, FailSteps,
         AnnounceFailed, Announce, Rest
<1>2. PICK e \in Event \ Revealing : Publish(cur, e) \/ PublishRaises(cur, e)
  BY <1>0 DEF AnnounceStart, AnnouncePhase, AnnouncePlan, CompleteSteps, AnnounceCancelled,
              FailSteps, AnnounceFailed, Announce
<1>3. DataInv'
  BY <1>0, <1>2, PublishData
<1>4. UNCHANGED <<meta, result>>
  BY <1>0, <1>2, PublishFrame
<1>5. /\ task[cur] = "working" /\ phase = "ready"
      /\ Terminal(meta[cur]) => pc = "fail"
      /\ CurrentCached /\ OthersUntouched
  BY <1>0, <1>1, <1>4 DEF ControlInv, SectionOwners, WorkingIsUnfinished, CacheIsDisk, Working,
     Closing, Failing, Recovering, CurrentCached, OthersUntouched
<1>6. pc \in Failing \cup {"start", "start phase"} /\ TaskRaises => ControlInv'
  BY <1>1, <1>5, TaskOverControl
<1>7. ASSUME NEW l \in {"start phase", "plan", "idle", "fail", "persist", "save cancelled", "save failed"},
             Goto(l), Terminal(meta[cur]) => l \in {"fail", "save failed"},
             l = "persist" => pc = "complete steps",
             l \in {"save cancelled", "save failed"} => \A x \in SuccessEvent : ~Logged(cur, x)'
      PROVE  ControlInv'
  <2>1. ClosingIsBacked'
    BY <1>1, <1>4, <1>7 DEF ControlInv, ClosingIsBacked, Closing, Goto
  <2>2. SavedWithoutSuccess'
    BY <1>7 DEF SavedWithoutSuccess, Goto, Logged
  <2>3. Terminal(meta'[cur]) => Terminal(meta[cur])
    BY <1>4, <1>7 DEF Terminal, Goto
  <2> QED BY <1>1, <1>5, <1>7, <2>1, <2>2, <2>3, GotoControl
          DEF Labels, Working, Closing, Failing, Recovering
<1>8. CASE AnnounceStart \/ AnnouncePhase
  BY <1>3, <1>5, <1>6, <1>7, <1>8 DEF AnnounceStart, AnnouncePhase, Announce
<1>9. CASE AnnouncePlan \/ CompleteSteps
  BY <1>3, <1>5, <1>7, <1>9 DEF AnnouncePlan, CompleteSteps, Announce, Leave
<1>10. CASE FailSteps
  BY <1>3, <1>5, <1>6, <1>7, <1>10 DEF FailSteps, Announce, Failing
<1>11. CASE AnnounceCancelled
  <2>1. CASE Publish(cur, "run.cancelled") /\ Goto("save cancelled")
    <3>1. \A x \in SuccessEvent : ~Logged(cur, x)'
      BY <1>0, <2>1, PublishFrame DEF Logged, Goto
    <3>2. ~Terminal(meta[cur])
      BY <1>5, <1>11 DEF AnnounceCancelled, Announce
    <3> QED BY <1>3, <1>7, <2>1, <3>1, <3>2
  <2> QED BY <1>3, <1>6, <1>11, <2>1 DEF AnnounceCancelled, Announce, Failing
<1>12. CASE AnnounceFailed
  <2>1. CASE Publish(cur, "run.failed") /\ Goto("save failed")
    <3>1. \A x \in SuccessEvent : ~Logged(cur, x)'
      BY <1>0, <2>1, PublishFrame DEF Logged, Goto
    <3> QED BY <1>3, <1>7, <2>1, <3>1
  <2> QED BY <1>3, <1>6, <1>12, <2>1 DEF AnnounceFailed, Announce, Failing
<1> QED BY <1>8, <1>9, <1>10, <1>11, <1>12

\* A save of the run's own projection, where no success has been logged.
LEMMA SaveProjectionData ==
  ASSUME IInv, Save(cur, proj[cur]), UNCHANGED proj,
         \A e \in SuccessEvent : ~Logged(cur, e)
  PROVE  DataInv'
<1>1. cur \in Runs /\ proj[cur] \in Resource
  BY DEF IInv, TypeOK, DataType, ControlType
<1>2. proj[cur].status \in Success => cur \in result
  BY <1>1 DEF IInv, DataInv, SuccessHasResult
<1>3. proj[cur].seq > Len(log[cur]) => Terminal(proj[cur])
  BY <1>1 DEF IInv, DataInv, Watermarks
<1>4. Len(log[cur]) \in Nat /\ proj[cur].seq \in Nat
  BY <1>1 DEF IInv, TypeOK, DataType, Resource
<1> QED BY <1>1, <1>2, <1>3, <1>4, SaveData DEF IInv

\* Every save leaves the run's cache equal to its file, and the other runs alone.
LEMMA SaveFrame ==
  ASSUME TypeOK, CacheIsDisk, pc \notin {"idle", "write recovered"},
         \/ \E x : Save(cur, x)
         \/ WriteRaises
  PROVE  OthersUntouched /\ CurrentCached /\ UNCHANGED <<log, result>>
<1>1. cur \in Runs /\ meta \in [Runs -> Resource] /\ mem \in [Runs -> Resource]
  BY DEF TypeOK, DataType, ControlType
<1> QED BY <1>1 DEF OthersUntouched, CurrentCached, Save, WriteRaises, disk, CacheIsDisk

\* The sections of execute() that close a completed run.
LEMMA ClosingInTask ==
  ASSUME IInv, ClosePhase \/ CloseReport \/ CloseRun
  PROVE  DataInv' /\ ControlInv'
<1> USE DEF IInv
<1>1. /\ pc \in Closing /\ cur \in Runs /\ phase = "ready" /\ task[cur] = "working"
      /\ cur \in result /\ meta[cur].status = Effect[ending]
      /\ ending \in SuccessEvent
  BY DEF ClosePhase, CloseReport, CloseRun, Close, TypeOK, ControlType, RestType, ControlInv,
         SectionOwners, ClosingIsBacked, Closing, Recovering, SuccessEvent
<1>2. /\ UNCHANGED <<meta, result, mem, phase, ending>>
      /\ \/ Goto("close report")
         \/ Goto("close run")
         \/ Goto("fail")
         \/ TaskReturns
      /\ \/ UNCHANGED <<disk, proj>>
         \/ \E e \in {"progress", "report.completed", ending} : Append_(cur, e)
  BY DEF ClosePhase, CloseReport, CloseRun, Close, Append_, disk, Rest
<1>3. DataInv'
  <2>1. CASE UNCHANGED <<disk, proj>>
    BY <2>1 DEF disk, DataInv, SuccessHasResult, LoggedSuccessIsStored, Watermarks, Logged
  <2>2. ASSUME NEW e \in {"progress", "report.completed", ending}, Append_(cur, e) PROVE DataInv'
    <3>1. e \in Event /\ (e \in SuccessEvent => e = ending)
      BY <1>1 DEF SuccessEvent, Event, TerminalEvent
    <3> QED BY <1>1, <2>2, <3>1, AppendData
  <2> QED BY <1>2, <2>1, <2>2
<1>4. OthersUntouched /\ CurrentCached
  BY <1>1, <1>2 DEF OthersUntouched, CurrentCached, ControlInv, CacheIsDisk, Closing
<1>5. CASE TaskReturns
  BY <1>1, <1>2, <1>3, <1>4, <1>5, TaskOverControl
<1>6. ASSUME NEW l \in {"close report", "close run", "fail"}, Goto(l) PROVE ControlInv'
  <2>1. ClosingIsBacked'
    BY <1>1, <1>2, <1>6 DEF ClosingIsBacked, Closing, Goto
  <2>2. SavedWithoutSuccess'
    BY <1>6 DEF SavedWithoutSuccess, Goto
  <2> QED BY <1>1, <1>2, <1>4, <1>6, <2>1, <2>2, GotoControl
          DEF Labels, Working, Closing, Failing, Recovering
<1> QED BY <1>2, <1>3, <1>5, <1>6

\* The sections of execute() that save an unsuccessful outcome.
LEMMA SavingInTask ==
  ASSUME IInv, SaveCancelled \/ SaveFailed
  PROVE  DataInv' /\ ControlInv'
<1> USE DEF IInv
<1>1. /\ pc \in {"save cancelled", "save failed"} /\ UNCHANGED <<proj, phase>>
      /\ Save(cur, proj[cur]) \/ WriteRaises
      /\ TaskReturns \/ TaskRaises
  BY DEF SaveCancelled, SaveFailed, SaveProjection, Rest
<1>2. DataInv'
  BY <1>1, SaveProjectionData, WriteRaisesData DEF ControlInv, SavedWithoutSuccess
<1>3. OthersUntouched /\ CurrentCached
  BY <1>1, SaveFrame DEF ControlInv
<1> QED BY <1>1, <1>2, <1>3, TaskOverControl DEF Failing

\* Saving the result: from here on the run may become a success.
LEMMA SavingResult ==
  ASSUME IInv, SaveResult
  PROVE  DataInv' /\ ControlInv'
<1> USE DEF IInv
<1>1. /\ pc = "save result" /\ UNCHANGED <<meta, log, mem, proj, phase, ending>>
      /\ \/ result' = result \cup {cur} /\ Goto("complete steps")
         \/ UNCHANGED result /\ Goto("fail steps")
         \/ UNCHANGED result /\ Goto("fail")
  BY DEF SaveResult, WriteRaises, disk, Rest
<1>2. cur \in Runs /\ task[cur] = "working" /\ phase = "ready" /\ ~Terminal(meta[cur])
  BY <1>1 DEF TypeOK, ControlType, ControlInv, SectionOwners, WorkingIsUnfinished, Working,
              Closing, Recovering
<1>3. DataInv'
  BY <1>1 DEF DataInv, SuccessHasResult, LoggedSuccessIsStored, Watermarks, Logged, Terminal
<1>4. OthersUntouched /\ CurrentCached
  BY <1>1, <1>2 DEF OthersUntouched, CurrentCached, ControlInv, CacheIsDisk
<1>5. ASSUME NEW l \in {"complete steps", "fail steps", "fail"}, Goto(l),
             l = "complete steps" => cur \in result'
      PROVE  ControlInv'
  <2>1. ClosingIsBacked'
    BY <1>5 DEF ClosingIsBacked, Closing, Goto
  <2>2. SavedWithoutSuccess'
    BY <1>5 DEF SavedWithoutSuccess, Goto
  <2>3. ~Terminal(meta'[cur])
    BY <1>1, <1>2 DEF Terminal
  <2> QED BY <1>1, <1>2, <1>4, <1>5, <2>1, <2>2, <2>3, GotoControl
          DEF Labels, Working, Closing, Failing, Recovering
<1> QED BY <1>1, <1>3, <1>5

\* The prepared projection has the outcome's status, for a run not yet terminal.
LEMMA PreparedFacts ==
  ASSUME IInv, ~Terminal(meta[cur])
  PROVE  Prepared(cur) \in Resource /\ Prepared(cur).status = Effect[ending]
<1> DEFINE n == Len(log[cur])
           p1 == Apply(proj[cur], "progress", n + 1)
           p2 == Apply(p1, "report.completed", n + 2)
           p3 == Apply(p2, ending, n + 3)
<1>0. ending \in DOMAIN Effect /\ DOMAIN Effect \subseteq Event
      /\ "progress" \in Event /\ "report.completed" \in Event
  BY EffectFacts DEF IInv, TypeOK, RestType, Event, TerminalEvent
<1>1. proj[cur] \in Resource /\ n \in Nat /\ proj[cur].seq \in Nat /\ proj[cur].seq <= n
  BY DEF IInv, TypeOK, DataType, ControlType, DataInv, Watermarks, Resource
<1>2. p1 \in Resource /\ p1.seq = n + 1
  BY <1>0, <1>1, ApplyFacts
<1> HIDE DEF p1
<1>3. p2 \in Resource /\ p2.seq = n + 2
  <2>1. n + 2 \in Nat /\ n + 2 > p1.seq
    BY <1>1, <1>2
  <2> QED BY <1>0, <1>2, <2>1, ApplyFacts
<1> HIDE DEF p2
<1>4. p3 \in Resource /\ p3.status = Effect[ending]
  <2>1. n + 3 \in Nat /\ n + 3 > p2.seq
    BY <1>1, <1>3
  <2> QED BY <1>0, <1>3, <2>1, ApplyFacts
<1> QED BY <1>4 DEF Prepared, p1, p2

\* Persisting the completed projection.
LEMMA PersistingOutcome ==
  ASSUME IInv, Persist
  PROVE  DataInv' /\ ControlInv'
<1> USE DEF IInv
<1>1. /\ pc = "persist" /\ UNCHANGED <<proj, phase, ending>>
      /\ \/ Save(cur, Prepared(cur)) /\ Goto("close phase")
         \/ WriteRaises /\ Goto("fail")
  BY DEF Persist, Rest
<1>2. /\ cur \in Runs /\ task[cur] = "working" /\ phase = "ready" /\ cur \in result
      /\ ~Terminal(meta[cur])
  BY <1>1 DEF TypeOK, ControlType, ControlInv, SectionOwners, WorkingIsUnfinished, ClosingIsBacked,
              Working, Closing, Recovering
<1>3. /\ Prepared(cur) \in Resource /\ Prepared(cur).status = Effect[ending]
      /\ Terminal(Prepared(cur))
  BY <1>2, PreparedFacts, EffectFacts DEF TypeOK, RestType, Terminal, TerminalStatus
<1>4. \A e \in SuccessEvent : ~Logged(cur, e)
  BY <1>2, EffectFacts DEF DataInv, LoggedSuccessIsStored, SuccessEvent, Terminal, TerminalStatus
<1>5. DataInv'
  BY <1>1, <1>2, <1>3, <1>4, SaveData, WriteRaisesData
<1>6. OthersUntouched /\ CurrentCached
  BY <1>1, SaveFrame DEF ControlInv
<1>7. CASE Save(cur, Prepared(cur)) /\ Goto("close phase")
  <2>1. meta'[cur] = Prepared(cur) /\ UNCHANGED result
    BY <1>2, <1>7 DEF Save, TypeOK, DataType
  <2>2. ClosingIsBacked'
    BY <1>1, <1>2, <1>3, <1>7, <2>1 DEF ClosingIsBacked, Goto
  <2>3. SavedWithoutSuccess'
    BY <1>7 DEF SavedWithoutSuccess, Goto
  <2> QED BY <1>1, <1>2, <1>5, <1>6, <1>7, <2>2, <2>3, GotoControl
          DEF Labels, Working, Closing, Failing, Recovering
<1>8. CASE WriteRaises /\ Goto("fail")
  <2>1. ClosingIsBacked' /\ SavedWithoutSuccess'
    BY <1>8 DEF ClosingIsBacked, SavedWithoutSuccess, Closing, Goto
  <2> QED BY <1>1, <1>2, <1>5, <1>6, <1>8, <2>1, GotoControl
          DEF Labels, Working, Closing, Failing, Recovering
<1> QED BY <1>1, <1>7, <1>8

\* The sections of a cancel request.
LEMMA Confirming ==
  ASSUME IInv, ConfirmCancel \/ SaveConfirmed
  PROVE  DataInv' /\ ControlInv'
<1> USE DEF IInv
<1>0. /\ cur \in Runs /\ pc \in {"confirm", "save confirmed"}
      /\ "run.cancelled" \in Event \ Revealing /\ "run.cancelled" \in TerminalEvent \ SuccessEvent
      /\ UNCHANGED <<phase, ending>>
  BY DEF TypeOK, ControlType, Event, TerminalEvent, Revealing, SuccessEvent, ConfirmCancel,
         SaveConfirmed, Announce, SaveProjection, Rest
<1>1. task[cur] # "working" /\ phase = "ready"
  BY <1>0 DEF ControlInv, SectionOwners, Recovering
<1>2. ASSUME NEW l \in {"idle", "save confirmed"}, Goto(l), OthersUntouched, CurrentCached,
             l = "save confirmed" => \A x \in SuccessEvent : ~Logged(cur, x)'
      PROVE  ControlInv'
  <2>1. ClosingIsBacked' /\ SavedWithoutSuccess'
    BY <1>2 DEF ClosingIsBacked, SavedWithoutSuccess, Closing, Goto, Logged
  <2> QED BY <1>0, <1>1, <1>2, <2>1, GotoControl DEF Labels, Working, Closing, Failing, Recovering
<1>3. CASE ConfirmCancel
  <2>1. /\ UNCHANGED mem
        /\ \/ Publish(cur, "run.cancelled") /\ Goto("save confirmed")
           \/ PublishRaises(cur, "run.cancelled") /\ Goto("idle")
    BY <1>3 DEF ConfirmCancel, Announce, Leave
  <2>2. DataInv' /\ UNCHANGED meta
    BY <1>0, <2>1, PublishData, PublishFrame
  <2>3. OthersUntouched /\ CurrentCached
    BY <1>0, <1>1, <2>1, <2>2 DEF OthersUntouched, CurrentCached, ControlInv, CacheIsDisk
  <2>4. CASE Publish(cur, "run.cancelled") /\ Goto("save confirmed")
    <3>1. \A x \in SuccessEvent : ~Logged(cur, x)'
      BY <1>0, <2>4, PublishFrame DEF Logged, Goto
    <3> QED BY <1>2, <2>2, <2>3, <2>4, <3>1
  <2> QED BY <1>2, <2>1, <2>2, <2>3, <2>4
<1>4. CASE SaveConfirmed
  <2>1. /\ UNCHANGED proj /\ Goto("idle") /\ pc = "save confirmed"
        /\ Save(cur, proj[cur]) \/ WriteRaises
    BY <1>4 DEF SaveConfirmed, SaveProjection, Leave
  <2>2. DataInv'
    BY <2>1, SaveProjectionData, WriteRaisesData DEF ControlInv, SavedWithoutSuccess
  <2>3. OthersUntouched /\ CurrentCached
    BY <1>0, <2>1, SaveFrame DEF ControlInv
  <2> QED BY <1>2, <2>1, <2>2, <2>3
<1> QED BY <1>3, <1>4

\* The section of POST /runs.
LEMMA Creating ==
  ASSUME IInv, WriteMetadata \/ WriteReceipt \/ Accept
  PROVE  DataInv' /\ ControlInv'
<1> USE DEF IInv
<1>0. /\ cur \in Runs /\ pc \in {"write metadata", "write receipt", "accept"}
      /\ "run.accepted" \in Event \ Revealing
      /\ UNCHANGED <<phase, ending>>
  BY DEF TypeOK, ControlType, Event, TerminalEvent, Revealing, SuccessEvent, WriteMetadata,
         WriteReceipt, Accept, Rest
<1>1. phase = "ready" /\ (mem[cur] = meta[cur] \/ (mem[cur] = Accepted /\ meta[cur] = Absent))
  BY <1>0 DEF ControlInv, CacheIsDisk, SectionOwners, Recovering
<1>2. task[cur] = "working" => ~Terminal(meta[cur])
  BY <1>0 DEF ControlInv, WorkingIsUnfinished, Closing
<1>3. ASSUME NEW l \in {"idle", "write receipt", "accept"}, Goto(l), OthersUntouched, CurrentCached,
             task[cur] = "working" => ~Terminal(meta'[cur])
      PROVE  ControlInv'
  <2>1. ClosingIsBacked' /\ SavedWithoutSuccess'
    BY <1>3 DEF ClosingIsBacked, SavedWithoutSuccess, Closing, Goto
  <2> QED BY <1>0, <1>1, <1>3, <2>1, GotoControl DEF Labels, Working, Closing, Failing, Recovering
<1>4. CASE WriteMetadata
  <2>1. /\ UNCHANGED proj
        /\ \/ Save(cur, mem[cur]) /\ Goto("write receipt")
           \/ WriteRaises /\ Goto("idle")
    BY <1>4 DEF WriteMetadata, Leave
  <2>2. OthersUntouched /\ CurrentCached
    BY <1>0, <2>1, SaveFrame DEF ControlInv
  <2>3. mem[cur] \in Resource /\ Len(log[cur]) \in Nat
    BY DEF TypeOK, DataType, ControlType
  <2>4. mem[cur].status \in Success => cur \in result
    BY <1>0, <1>1, AcceptedFacts DEF DataInv, SuccessHasResult
  <2>5. \A e \in SuccessEvent : Logged(cur, e) => mem[cur].status = Effect[e]
    BY <1>0, <1>1, EffectFacts, AcceptedFacts DEF DataInv, LoggedSuccessIsStored, SuccessEvent
  <2>6. mem[cur].seq > Len(log[cur]) \/ proj[cur].seq > Len(log[cur]) => Terminal(mem[cur])
    BY <1>0, <1>1, <2>3, AcceptedFacts DEF DataInv, Watermarks
  <2>7. DataInv'
    BY <1>0, <2>1, <2>3, <2>4, <2>5, <2>6, SaveData, WriteRaisesData
  <2>8. task[cur] = "working" => ~Terminal(meta'[cur])
    BY <1>0, <1>1, <1>2, <2>1, <2>3, AcceptedFacts DEF Save, WriteRaises, disk, TypeOK, DataType, Terminal
  <2> QED BY <1>3, <2>1, <2>2, <2>7, <2>8
<1>5. CASE WriteReceipt
  <2>1. /\ UNCHANGED <<meta, mem, log, result>>
        /\ UNCHANGED proj \/ proj' = [proj EXCEPT ![cur] = Accepted]
        /\ Goto("accept") \/ Goto("idle")
    BY <1>5 DEF WriteReceipt, WriteRaises, disk, Leave
  <2>2. \A r \in Runs : Len(log[r]) \in Nat /\ (proj'[r] = proj[r] \/ proj'[r] = Accepted)
    BY <2>1 DEF TypeOK, DataType
  <2>3. DataInv'
    <3>1. SuccessHasResult'
      BY <2>1, <2>2, AcceptedFacts DEF DataInv, SuccessHasResult, Logged
    <3>2. LoggedSuccessIsStored'
      BY <2>1 DEF DataInv, LoggedSuccessIsStored, Logged
    <3>3. Watermarks'
      BY <2>1, <2>2, AcceptedFacts DEF DataInv, Watermarks, Terminal
    <3> QED BY <3>1, <3>2, <3>3 DEF DataInv
  <2>4. OthersUntouched /\ CurrentCached
    BY <1>1, <2>1 DEF OthersUntouched, CurrentCached
  <2> QED BY <1>2, <1>3, <2>1, <2>3, <2>4
<1>6. CASE Accept
  <2>1. /\ UNCHANGED mem
        /\ Publish(cur, "run.accepted") \/ PublishRaises(cur, "run.accepted")
        /\ \/ task' = Schedule(cur) /\ Enter("idle", cur) /\ UNCHANGED call
           \/ Goto("idle")
    BY <1>6 DEF Accept, Leave
  <2>2. DataInv' /\ UNCHANGED meta
    BY <1>0, <2>1, PublishData, PublishFrame
  <2>3. OthersUntouched /\ CurrentCached
    BY <1>1, <2>1, <2>2 DEF OthersUntouched, CurrentCached
  <2>4. CASE task' = Schedule(cur) /\ Enter("idle", cur) /\ UNCHANGED call
    <3>1. \A r \in Runs : task'[r] = "working" => task[r] = "working"
      BY <1>0, <2>4 DEF Schedule, TypeOK, ControlType
    <3>2. CacheIsDisk'
      BY <1>0, <2>1, <2>2, <2>4 DEF Enter, ControlInv, CacheIsDisk
    <3>3. WorkingIsUnfinished'
      BY <1>0, <2>2, <3>1 DEF ControlInv, WorkingIsUnfinished, Terminal, Closing
    <3>4. SectionOwners'
      BY <1>0, <1>1, <2>4, <3>1
         DEF ControlInv, SectionOwners, Enter, Working, Closing, Failing, Recovering,
             TypeOK, ControlType, CallState
    <3>5. ClosingIsBacked' /\ SavedWithoutSuccess'
      BY <2>4 DEF ClosingIsBacked, SavedWithoutSuccess, Closing, Enter
    <3> QED BY <2>2, <3>2, <3>3, <3>4, <3>5 DEF ControlInv
  <2> QED BY <1>2, <1>3, <2>1, <2>2, <2>3, <2>4
<1> QED BY <1>4, <1>5, <1>6

\* The first step of a cancel request's section, after which it may wait.
LEMMA Requesting ==
  ASSUME IInv, NEW c \in Callers, AnnounceRequest(c)
  PROVE  DataInv' /\ ControlInv'
<1> USE DEF IInv
<1>0. /\ pc = "request" /\ UNCHANGED <<mem, cur, phase, ending>>
      /\ pc' \in {"idle", "confirm"}
      /\ Publish(cur, "run.cancel_requested") \/ PublishRaises(cur, "run.cancel_requested")
  BY DEF AnnounceRequest, Rest
<1>1. cur \in Runs /\ "run.cancel_requested" \in Event \ Revealing
  BY DEF TypeOK, ControlType, Event, TerminalEvent, Revealing, SuccessEvent
<1>2. DataInv' /\ UNCHANGED <<meta, result>>
  BY <1>0, <1>1, PublishData, PublishFrame
<1>3. phase = "ready"
  BY <1>0 DEF ControlInv, SectionOwners, Recovering
<1>4. CacheIsDisk'
  BY <1>0, <1>2 DEF ControlInv, CacheIsDisk
<1>5. \A r \in Runs : task'[r] = "working" => task[r] = "working"
  BY <1>1 DEF AnnounceRequest, TypeOK, ControlType
<1>6. WorkingIsUnfinished'
  BY <1>0, <1>2, <1>5 DEF ControlInv, WorkingIsUnfinished, Terminal, Closing
<1>7. pc' = "confirm" => task'[cur] # "working"
  BY DEF AnnounceRequest, Live
<1>8. ASSUME NEW d \in Callers, call'[d].at = "woken" PROVE task'[call'[d].run] # "working"
  <2>1. call'[d] = call[d]
    BY <1>8 DEF AnnounceRequest, NoCall, TypeOK, ControlType, CallState
  <2>2. call[d].run \in Runs
    BY DEF TypeOK, ControlType, CallState
  <2> QED BY <1>5, <1>8, <2>1, <2>2 DEF ControlInv, SectionOwners
<1>9. SectionOwners'
  BY <1>0, <1>3, <1>7, <1>8 DEF SectionOwners, Working, Closing, Failing, Recovering
<1>10. ClosingIsBacked' /\ SavedWithoutSuccess'
  BY <1>0 DEF ClosingIsBacked, SavedWithoutSuccess, Closing
<1> QED BY <1>2, <1>4, <1>6, <1>9, <1>10 DEF ControlInv

\* recover(): while it runs, no task exists, so only the cache needs an argument.
LEMMA RecoveringControl ==
  ASSUME ControlInv, phase = "booting", UNCHANGED <<task, call>>,
         pc' \in Recovering \cup {"idle"}, phase' \in {"booting", "ready"},
         pc' # "idle" => phase' = "booting",
         CacheIsDisk', SavedWithoutSuccess'
  PROVE  ControlInv'
<1> USE DEF ControlInv
<1>1. \A r \in Runs : task'[r] = "none"
  BY DEF SectionOwners
<1>2. WorkingIsUnfinished'
  BY <1>1 DEF WorkingIsUnfinished
<1>3. SectionOwners'
  BY <1>1 DEF SectionOwners, Working, Closing, Failing, Recovering
<1>4. ClosingIsBacked'
  BY DEF ClosingIsBacked, Closing, Recovering
<1> QED BY <1>2, <1>3, <1>4

\* The sections of recovery that publish.
LEMMA RecoveryAnnounces ==
  ASSUME IInv, RecoverAccepted \/ RecoverFailed
  PROVE  DataInv' /\ ControlInv'
<1> USE DEF IInv
<1>0. /\ cur \in Runs /\ {"run.accepted", "run.failed"} \subseteq Event \ Revealing
      /\ "run.failed" \in TerminalEvent \ SuccessEvent
      /\ pc \in {"recover accept", "recover fail"} /\ UNCHANGED <<mem, cur, task, call, phase>>
      /\ pc' \in {"idle", "recover fail", "save recovered"}
  BY DEF TypeOK, ControlType, Event, TerminalEvent, Revealing, SuccessEvent, RecoverAccepted,
         RecoverFailed, Announce, Leave, Goto, Rest
<1>1. PICK e \in {"run.accepted", "run.failed"} : Publish(cur, e) \/ PublishRaises(cur, e)
  BY DEF RecoverAccepted, RecoverFailed, Announce
<1>2. DataInv' /\ UNCHANGED <<meta, result>>
  BY <1>0, <1>1, PublishData, PublishFrame
<1>3. CacheIsDisk'
  BY <1>0, <1>2 DEF ControlInv, CacheIsDisk
<1>4. SavedWithoutSuccess'
  <2>1. CASE Publish(cur, "run.failed")
    <3>1. \A x \in SuccessEvent : ~Logged(cur, x)'
      BY <1>0, <2>1, PublishFrame DEF Logged
    <3> QED BY <1>0, <3>1 DEF SavedWithoutSuccess
  <2>2. CASE pc' # "save recovered"
    BY <1>0, <2>2 DEF SavedWithoutSuccess
  <2> QED BY <2>1, <2>2 DEF RecoverAccepted, RecoverFailed, Announce, Leave, Goto
<1>5. phase = "booting"
  BY <1>0 DEF ControlInv, SectionOwners, Recovering
<1> QED BY <1>0, <1>2, <1>3, <1>4, <1>5, RecoveringControl DEF Recovering

\* The sections of recovery that write metadata.
LEMMA RecoverySaves ==
  ASSUME IInv, SaveRecovered \/ (\E r \in Runs : WriteRecovered(r))
  PROVE  DataInv' /\ ControlInv'
<1> USE DEF IInv
<1>1. /\ pc \in {"save recovered", "write recovered"} /\ UNCHANGED <<cur, task, call, phase, proj, batch>>
      /\ pc' \in {"idle", "next recovered", "write recovered"}
  BY DEF SaveRecovered, SaveProjection, WriteRecovered, Leave, Goto, Rest
<1>2. phase = "booting"
  BY <1>1 DEF ControlInv, SectionOwners, Recovering
<1>3. SavedWithoutSuccess'
  BY <1>1 DEF SavedWithoutSuccess
<1>4. CASE SaveRecovered
  <2>1. /\ pc = "save recovered" /\ pc' # "write recovered"
        /\ Save(cur, proj[cur]) \/ WriteRaises
    BY <1>4 DEF SaveRecovered, SaveProjection, Leave, Goto
  <2>2. DataInv'
    BY <1>1, <2>1, SaveProjectionData, WriteRaisesData DEF ControlInv, SavedWithoutSuccess
  <2>3. OthersUntouched /\ CurrentCached
    BY <2>1, SaveFrame DEF ControlInv
  <2>4. CacheIsDisk'
    BY <2>1, <2>3 DEF ControlInv, CacheIsDisk, OthersUntouched, CurrentCached
  <2> QED BY <1>1, <1>2, <1>3, <2>2, <2>4, RecoveringControl DEF Recovering
<1>5. ASSUME NEW r \in Runs, WriteRecovered(r) PROVE DataInv' /\ ControlInv'
  <2>1. /\ pc = "write recovered"
        /\ \/ Save(r, mem[r]) /\ pc' = pc
           \/ WriteRaises /\ pc' = "idle"
    BY <1>5 DEF WriteRecovered, Leave, Goto
  <2>2. /\ meta \in [Runs -> Resource] /\ mem \in [Runs -> Resource]
        /\ Len(log[r]) \in Nat
    BY DEF TypeOK, DataType
  <2>3. CacheIsDisk'
    <3>1. CASE Save(r, mem[r]) /\ pc' = pc
      BY <1>1, <2>1, <2>2, <3>1 DEF ControlInv, CacheIsDisk, Save
    <3>2. CASE WriteRaises /\ pc' = "idle"
      BY <1>1, <1>2, <3>2 DEF CacheIsDisk
    <3> QED BY <2>1, <3>1, <3>2
  <2>4. \/ mem[r] = meta[r]
        \/ mem[r] = Accepted /\ meta[r] = Absent
        \/ meta[r].status = "running" /\ mem[r].status = "failed" /\ mem[r].seq = meta[r].seq
    BY <2>1, <2>2 DEF ControlInv, CacheIsDisk, Interrupted, Resource
  <2>5. mem[r].status \in Success => r \in result
    BY <2>4, AcceptedFacts DEF DataInv, SuccessHasResult, Success
  <2>6. \A e \in SuccessEvent : Logged(r, e) => mem[r].status = Effect[e]
    BY <2>4, EffectFacts, AcceptedFacts DEF DataInv, LoggedSuccessIsStored, SuccessEvent
  <2>7. mem[r].seq > Len(log[r]) \/ proj[r].seq > Len(log[r]) => Terminal(mem[r])
    <3>1. "running" \notin TerminalStatus
      BY DEF TerminalStatus
    <3> QED BY <2>2, <2>4, <3>1, AcceptedFacts DEF DataInv, Watermarks, Terminal
  <2>8. DataInv'
    BY <1>1, <2>1, <2>2, <2>5, <2>6, <2>7, SaveData, WriteRaisesData
  <2> QED BY <1>1, <1>2, <1>3, <2>3, <2>8, RecoveringControl DEF Recovering
<1> QED BY <1>4, <1>5

\* The sections of recovery that write nothing.
LEMMA RecoveryGoesOn ==
  ASSUME IInv, FinishRecovery \/ (\E r \in Runs : NextRecovered(r))
  PROVE  DataInv' /\ ControlInv'
<1> USE DEF IInv
<1>1. CASE FinishRecovery
  <2>1. /\ pc = "next recovered" /\ pc' = "idle" /\ phase' = "ready"
        /\ UNCHANGED <<meta, mem, proj, log, result, task, call>>
    BY <1>1 DEF FinishRecovery, disk
  <2>2. DataInv'
    BY <2>1 DEF DataInv, SuccessHasResult, LoggedSuccessIsStored, Watermarks, Logged, Terminal
  <2>3. CacheIsDisk' /\ SavedWithoutSuccess'
    BY <2>1 DEF ControlInv, CacheIsDisk, SavedWithoutSuccess
  <2>4. phase = "booting"
    BY <2>1 DEF ControlInv, SectionOwners, Recovering
  <2> QED BY <2>1, <2>2, <2>3, <2>4, RecoveringControl
<1>2. ASSUME NEW r \in Runs, NextRecovered(r) PROVE DataInv' /\ ControlInv'
  <2>1. /\ pc \in {"write recovered", "next recovered"}
        /\ pc = "write recovered" => \A s \in batch : meta[s] = mem[s]
        /\ pc' \in {"recover accept", "recover fail"}
        /\ Hydrate(r) /\ UNCHANGED <<disk, mem, task, call, phase>>
    BY <1>2 DEF NextRecovered, Enter
  <2>2. \A s \in Runs : mem[s] = meta[s] \/ (mem[s] = Accepted /\ meta[s] = Absent)
    BY <2>1 DEF ControlInv, CacheIsDisk
  <2>3. DataInv'
    BY <2>1, <2>2, HydrateData
  <2>4. CacheIsDisk' /\ SavedWithoutSuccess'
    BY <2>1, <2>2 DEF CacheIsDisk, SavedWithoutSuccess, disk
  <2>5. phase = "booting"
    BY <2>1 DEF ControlInv, SectionOwners, Recovering
  <2> QED BY <2>1, <2>3, <2>4, <2>5, RecoveringControl DEF Recovering
<1> QED BY <1>1, <1>2

\* A step taken while the loop is free, and the section it may begin.
LEMMA IdleControl ==
  ASSUME TypeOK, ControlInv, Idle, meta' = meta, phase' = phase,
         \A r \in Runs : mem'[r] = mem[r] \/ (mem'[r] = Accepted /\ meta[r] = Absent),
         \A r \in Runs : task'[r] = "working" => ~Terminal(meta[r]),
         \A c \in Callers : call'[c].at = "woken" => task'[call'[c].run] # "working",
         pc' \in {"idle", "write metadata", "start", "save result", "cancel", "fail steps", "fail",
                 "request", "confirm"},
         pc' \in {"start", "save result", "cancel", "fail steps", "fail"} => task'[cur'] = "working",
         pc' = "confirm" => task'[cur'] # "working"
  PROVE  ControlInv'
<1> USE DEF ControlInv, Idle
<1>1. CacheIsDisk'
  BY DEF CacheIsDisk
<1>2. WorkingIsUnfinished'
  BY DEF WorkingIsUnfinished, Terminal
<1>3. SectionOwners'
  BY DEF SectionOwners, Working, Closing, Failing, Recovering
<1>4. ClosingIsBacked' /\ SavedWithoutSuccess'
  BY DEF ClosingIsBacked, SavedWithoutSuccess, Closing
<1> QED BY <1>1, <1>2, <1>3, <1>4

\* What the free loop means for the tasks and the cache.
LEMMA IdleFacts ==
  ASSUME TypeOK, ControlInv, Idle
  PROVE  /\ \A r \in Runs : mem[r] = meta[r] \/ (mem[r] = Accepted /\ meta[r] = Absent)
         /\ \A r \in Runs : task[r] = "working" => ~Terminal(meta[r])
         /\ \A c \in Callers : /\ call[c].run \in Runs
                              /\ call[c].at = "woken" => task[call[c].run] # "working"
         /\ task \in [Runs -> TaskState] /\ call \in [Callers -> CallState]
BY DEF ControlInv, Idle, CacheIsDisk, WorkingIsUnfinished, SectionOwners, Closing, TypeOK,
       ControlType, CallState

\* A step that wakes no request and starts no awaited task.
LEMMA WokenStays ==
  ASSUME TypeOK, ControlInv,
         \A c \in Callers : call'[c].at = "woken" => call'[c] = call[c],
         \A c \in Callers : call[c].at = "woken" /\ task'[call[c].run] = "working" =>
                            task[call[c].run] = "working"
  PROVE  \A c \in Callers : call'[c].at = "woken" => task'[call'[c].run] # "working"
<1> SUFFICES ASSUME NEW c \in Callers, call'[c].at = "woken"
             PROVE  task'[call'[c].run] # "working"
  OBVIOUS
<1>1. call'[c] = call[c] /\ call[c].at = "woken"
  OBVIOUS
<1>2. task[call[c].run] # "working"
  BY <1>1 DEF ControlInv, SectionOwners
<1> QED BY <1>1, <1>2

\* Steps that leave everything the data part speaks of alone.
LEMMA DataUntouched ==
  ASSUME DataInv, meta' = meta, result' = result, log' = log, proj' = proj
  PROVE  DataInv'
BY DEF DataInv, SuccessHasResult, LoggedSuccessIsStored, Watermarks, Logged, Terminal

\* Requests.
LEMMA ClientSteps ==
  ASSUME IInv, Client
  PROVE  DataInv' /\ ControlInv'
<1> USE DEF IInv
<1>1. ASSUME NEW k \in Keys \cup {NoKey}, NEW r \in Runs, Create(k, r) PROVE DataInv' /\ ControlInv'
  <2>1. /\ Idle /\ UNCHANGED <<meta, result, log, proj, phase, task, call>> /\ pc' = "write metadata"
        /\ mem' = [mem EXCEPT ![r] = Accepted] /\ meta[r] = Absent
    BY <1>1 DEF Create, Fresh, Enter, disk
  <2>2. \A s \in Runs : mem'[s] = mem[s] \/ (mem'[s] = Accepted /\ meta[s] = Absent)
    BY <2>1 DEF TypeOK, DataType
  <2>3. DataInv'
    BY <2>1, DataUntouched
  <2>4. \A s \in Runs : task'[s] = "working" => ~Terminal(meta[s])
    BY <2>1, IdleFacts
  <2>5. \A c \in Callers : call'[c].at = "woken" => task'[call'[c].run] # "working"
    BY <2>1, IdleFacts, WokenStays
  <2>6. ControlInv'
    BY <2>1, <2>2, <2>4, <2>5, IdleControl
  <2> QED BY <2>3, <2>6
<1>2. ASSUME NEW k \in Keys, Replay(k) PROVE DataInv' /\ ControlInv'
  <2> PICK r \in idem[k] : Hydrate(r) /\ task' = Schedule(r)
    BY <1>2 DEF Replay
  <2>1. /\ r \in Runs /\ Idle /\ UNCHANGED <<disk, meta, mem, phase, call>> /\ pc' = "idle"
    BY <1>2 DEF Replay, Idle, disk, TypeOK, RestType
  <2>2. DataInv'
    BY <2>1, IdleFacts, HydrateData
  <2>3. \A s \in Runs : task'[s] = "working" => task[s] = "working"
    BY <2>1 DEF Schedule, TypeOK, ControlType
  <2>4. \A s \in Runs : task'[s] = "working" => ~Terminal(meta[s])
    BY <2>1, <2>3, IdleFacts
  <2>5. \A c \in Callers : call'[c].at = "woken" => task'[call'[c].run] # "working"
    <3>1. \A c \in Callers : call[c].run \in Runs
      BY DEF TypeOK, ControlType, CallState
    <3>2. call' = call
      BY <2>1
    <3> QED BY <2>3, <3>1, <3>2, WokenStays
  <2>6. ControlInv'
    BY <2>1, <2>4, <2>5, IdleControl
  <2> QED BY <2>2, <2>6
<1>3. ASSUME NEW r \in Runs, Get(r) PROVE DataInv' /\ ControlInv'
  <2>1. Idle /\ UNCHANGED <<disk, meta, mem, phase, task, call>> /\ pc' = "idle" /\ Hydrate(r)
    BY <1>3 DEF Get, Idle, disk
  <2>2. DataInv'
    BY <2>1, IdleFacts, HydrateData
  <2>3. \A s \in Runs : task'[s] = "working" => ~Terminal(meta[s])
    BY <2>1, IdleFacts
  <2>4. \A c \in Callers : call'[c].at = "woken" => task'[call'[c].run] # "working"
    BY <2>1, IdleFacts, WokenStays
  <2>5. ControlInv'
    BY <2>1, <2>3, <2>4, IdleControl
  <2> QED BY <2>2, <2>5
<1>4. ASSUME NEW c \in Callers, NEW r \in Runs, RequestCancel(c, r) PROVE DataInv' /\ ControlInv'
  <2>1. /\ Idle /\ UNCHANGED <<disk, meta, mem, phase, task>> /\ pc' = "request" /\ Hydrate(r)
        /\ call' = [call EXCEPT ![c] = [at |-> "asking", run |-> r]]
    BY <1>4 DEF RequestCancel, Idle, Enter, disk
  <2>2. \A d \in Callers : call'[d].at = "woken" => call'[d] = call[d]
    BY <2>1 DEF TypeOK, ControlType
  <2>3. DataInv'
    BY <2>1, IdleFacts, HydrateData
  <2>4. \A s \in Runs : task'[s] = "working" => ~Terminal(meta[s])
    BY <2>1, IdleFacts
  <2>5. \A d \in Callers : call'[d].at = "woken" => task'[call'[d].run] # "working"
    BY <2>1, <2>2, IdleFacts, WokenStays
  <2>6. ControlInv'
    BY <2>1, <2>4, <2>5, IdleControl
  <2> QED BY <2>3, <2>6
<1> QED BY <1>1, <1>2, <1>3, <1>4 DEF Client

\* The tasks.
LEMMA TaskSteps ==
  ASSUME IInv, NEW r \in Runs, StartTask(r) \/ Progress(r) \/ WorkEnds(r) \/ DropTask(r)
  PROVE  DataInv' /\ ControlInv'
<1> USE DEF IInv
<1>1. CASE StartTask(r) \/ DropTask(r)
  <2>1. Idle /\ UNCHANGED <<meta, result, log, proj, mem, phase>>
    BY <1>1 DEF StartTask, DropTask, disk
  <2>2. CASE TaskEnds(r, "returns") /\ pc' = "idle"
    <3>1. \A s \in Runs : task'[s] = "working" => task[s] = "working"
      BY <2>2 DEF TaskEnds, TypeOK, ControlType
    <3>2. \A c \in Callers : call'[c].at = "woken" => task'[call'[c].run] # "working"
      BY <2>2, WokenAfterEnd DEF ControlInv
    <3>3. \A s \in Runs : task'[s] = "working" => ~Terminal(meta[s])
      BY <2>1, <3>1, IdleFacts
    <3>4. ControlInv'
      BY <2>1, <2>2, <3>2, <3>3, IdleControl
    <3> QED BY <2>1, <3>4, DataUntouched
  <2>3. CASE StartTask(r) /\ ~Terminal(mem[r])
    <3>1. /\ task' = [task EXCEPT ![r] = "working"] /\ UNCHANGED call /\ pc' = "start" /\ cur' = r
          /\ task'[cur'] = "working"
          /\ \A c \in Callers : ~(call[c].at = "woken" /\ call[c].run = r)
      BY <2>3 DEF StartTask, Enter, Awaited, TypeOK, ControlType
    <3>2. ~Terminal(meta[r])
      BY <2>1, <2>3, IdleFacts, AcceptedFacts
    <3>3. task'[r] = "working" /\ \A s \in Runs \ {r} : task'[s] = task[s]
      BY <3>1 DEF TypeOK, ControlType
    <3>4. \A s \in Runs : task'[s] = "working" => ~Terminal(meta[s])
      BY <2>1, <3>2, <3>3, IdleFacts
    <3>5. \A c \in Callers : call'[c].at = "woken" => task'[call'[c].run] # "working"
      BY <2>1, <3>1, <3>3, IdleFacts, WokenStays
    <3>6. ControlInv'
      BY <2>1, <3>1, <3>3, <3>4, <3>5, IdleControl
    <3> QED BY <2>1, <3>6, DataUntouched
  <2> QED BY <1>1, <2>1, <2>2, <2>3 DEF StartTask, DropTask, Idle
<1>2. CASE Progress(r)
  <2>1. /\ Idle
        /\ Publish(r, "progress") \/ PublishRaises(r, "progress")
        /\ UNCHANGED <<mem, task, call, phase>> /\ pc' = "idle"
    BY <1>2 DEF Progress, AtWork, Idle, Rest
  <2>2. "progress" \in Event \ Revealing
    BY DEF Event, TerminalEvent, Revealing, SuccessEvent
  <2>3. DataInv' /\ UNCHANGED meta
    BY <2>1, <2>2, PublishData, PublishFrame
  <2>4. \A s \in Runs : task'[s] = "working" => ~Terminal(meta[s])
    BY <2>1, <2>3, IdleFacts
  <2>5. \A c \in Callers : call'[c].at = "woken" => task'[call'[c].run] # "working"
    BY <2>1, IdleFacts, WokenStays
  <2>6. ControlInv'
    BY <2>1, <2>3, <2>4, <2>5, IdleControl
  <2> QED BY <2>3, <2>6
<1>3. CASE WorkEnds(r)
  <2>1. /\ Idle /\ task[r] = "working" /\ cur' = r
        /\ pc' \in {"save result", "cancel", "fail steps", "fail"}
        /\ UNCHANGED <<meta, result, log, proj, mem, phase, task, call>>
    BY <1>3 DEF WorkEnds, WorkReturns, WorkCancelled, WorkFails, AtWork, Enter, disk, Rest
  <2>2. DataInv'
    BY <2>1, DataUntouched
  <2>3. \A s \in Runs : task'[s] = "working" => ~Terminal(meta[s])
    BY <2>1, IdleFacts
  <2>4. \A c \in Callers : call'[c].at = "woken" => task'[call'[c].run] # "working"
    BY <2>1, IdleFacts, WokenStays
  <2>5. ControlInv'
    BY <2>1, <2>3, <2>4, IdleControl
  <2> QED BY <2>2, <2>5
<1> QED BY <1>1, <1>2, <1>3

\* A cancel request that resumes.
LEMMA ResumeSteps ==
  ASSUME IInv, NEW c \in Callers, ResumeCancel(c)
  PROVE  DataInv' /\ ControlInv'
<1> USE DEF IInv
<1>1. /\ Idle /\ UNCHANGED <<meta, result, log, proj, mem, phase, task>>
      /\ call[c].at = "woken" /\ call' = NoCall(c)
      /\ \/ pc' = "idle"
         \/ pc' = "confirm" /\ cur' = call[c].run
  BY DEF ResumeCancel, Enter, Idle, disk
<1>2. \A d \in Callers : call'[d].at = "woken" => call'[d] = call[d]
  BY <1>1 DEF NoCall, TypeOK, ControlType, CallState
<1>3. DataInv'
  BY <1>1, DataUntouched
<1>4. \A s \in Runs : task'[s] = "working" => ~Terminal(meta[s])
  BY <1>1, IdleFacts
<1>5. \A d \in Callers : call'[d].at = "woken" => task'[call'[d].run] # "working"
  BY <1>1, <1>2, IdleFacts, WokenStays
<1>6. ControlInv'
  <2>1. task[call[c].run] # "working"
    BY <1>1 DEF ControlInv, SectionOwners
  <2>2. pc' = "confirm" => task'[cur'] # "working"
    <3> HAVE pc' = "confirm"
    <3>1. cur' = call[c].run /\ task' = task
      BY <1>1
    <3> QED BY <2>1, <3>1
  <2> QED BY <1>1, <1>4, <1>5, <2>2, IdleControl
<1> QED BY <1>3, <1>6

\* Crash, restart and the loading of the metadata.
LEMMA ProcessSteps ==
  ASSUME IInv, Crash \/ Restart \/ Recover
  PROVE  DataInv' /\ ControlInv'
<1> USE DEF IInv
<1>1. CASE Crash
  <2>1. /\ UNCHANGED <<meta, result, log>> /\ \A r \in Runs : proj'[r] = Absent /\ task'[r] = "none"
        /\ phase' = "down" /\ pc' = "idle"
        /\ \A c \in Callers : call'[c].at # "woken"
        /\ \A r \in Runs : Len(log[r]) \in Nat
    BY <1>1 DEF Crash, disk, NoTask, NoCalls, TypeOK, DataType
  <2>2. SuccessHasResult'
    BY <2>1, AcceptedFacts DEF DataInv, SuccessHasResult, Logged
  <2>3. LoggedSuccessIsStored'
    BY <2>1 DEF DataInv, LoggedSuccessIsStored, Logged
  <2>4. Watermarks'
    BY <2>1, AcceptedFacts DEF DataInv, Watermarks, Terminal
  <2>5. CacheIsDisk'
    BY <2>1 DEF CacheIsDisk
  <2>6. SectionOwners'
    BY <2>1 DEF SectionOwners, Working, Closing, Failing, Recovering
  <2>7. WorkingIsUnfinished' /\ ClosingIsBacked' /\ SavedWithoutSuccess'
    BY <2>1 DEF WorkingIsUnfinished, ClosingIsBacked, SavedWithoutSuccess, Closing
  <2> QED BY <2>2, <2>3, <2>4, <2>5, <2>6, <2>7 DEF DataInv, ControlInv
<1>2. CASE Restart
  <2>1. /\ phase = "down" /\ phase' = "booting"
        /\ UNCHANGED <<meta, result, log, proj, mem, task, call, pc, cur, batch, ending>>
    BY <1>2 DEF Restart, disk
  <2>2. DataInv'
    BY <2>1, DataUntouched
  <2>3. CacheIsDisk'
    BY <2>1 DEF ControlInv, CacheIsDisk, Interrupted
  <2>4. WorkingIsUnfinished' /\ ClosingIsBacked' /\ SavedWithoutSuccess'
    BY <2>1 DEF ControlInv, WorkingIsUnfinished, ClosingIsBacked, SavedWithoutSuccess, Terminal, Logged
  <2>5. SectionOwners'
    BY <2>1 DEF ControlInv, SectionOwners
  <2> QED BY <2>2, <2>3, <2>4, <2>5 DEF ControlInv
<1>3. CASE Recover
  <2>1. /\ phase = "booting" /\ pc = "idle"
        /\ UNCHANGED <<meta, result, log, proj, task, call>>
        /\ \A r \in Runs : mem'[r] = Interrupted(meta[r])
        /\ batch' = {r \in Runs : meta[r].status = "running"}
        /\ \/ batch' = {} /\ phase' = "ready" /\ pc' = "idle"
           \/ phase' = "booting" /\ pc' = "write recovered"
    BY <1>3 DEF Recover, disk
  <2>2. DataInv'
    BY <2>1, DataUntouched
  <2>3. \A r \in Runs : r \notin batch' => mem'[r] = meta[r]
    BY <2>1 DEF Interrupted
  <2>4. CacheIsDisk'
    BY <2>1, <2>3 DEF CacheIsDisk, Interrupted
  <2>5. SavedWithoutSuccess'
    BY <2>1 DEF SavedWithoutSuccess
  <2> QED BY <2>1, <2>2, <2>4, <2>5, RecoveringControl DEF Recovering
<1> QED BY <1>1, <1>2, <1>3

-----------------------------------------------------------------------------
(* The invariant, and what follows from it. *)

\* The invariant holds when the process first starts on its storage.
LEMMA InitInv == Init => IInv
<1> SUFFICES ASSUME Init PROVE IInv
  OBVIOUS
<1>1. TypeOK
  BY InitType
<1>2. /\ phase = "booting" /\ pc = "idle" /\ \A r \in Runs : task[r] = "none" /\ proj[r] = Absent
      /\ \A c \in Callers : call[c].at = "none"
  BY DEF Init, NoTask, NoCalls
<1>3. \A r \in Runs : meta[r].status \notin Success /\ meta[r].seq <= Len(log[r])
  <2> SUFFICES ASSUME NEW r \in Runs
               PROVE  meta[r].status \notin Success /\ meta[r].seq <= Len(log[r])
    OBVIOUS
  <2>1. Len(log[r]) \in Nat
    BY <1>1 DEF TypeOK, DataType
  <2>2. \/ meta[r] = Absent
        \/ meta[r] = [status |-> "running", seq |-> Len(log[r])]
    BY DEF Init
  <2> QED BY <2>1, <2>2, AcceptedFacts DEF Success
<1>4. \A r \in Runs, e \in Revealing : ~Logged(r, e)
  <2>1. \A r \in Runs : log[r] = <<>> \/ log[r] = <<"run.accepted", "run.started">>
    BY DEF Init
  <2> QED BY <2>1 DEF Logged, Revealing, SuccessEvent
<1>5. SuccessHasResult
  BY <1>2, <1>3, <1>4, AcceptedFacts DEF SuccessHasResult, Revealing
<1>6. LoggedSuccessIsStored
  BY <1>4 DEF LoggedSuccessIsStored, Revealing
<1>7. Watermarks
  <2>1. \A r \in Runs : Len(log[r]) \in Nat /\ meta[r].seq \in Nat
    BY <1>1 DEF TypeOK, DataType, Resource
  <2> QED BY <1>2, <1>3, <2>1, AcceptedFacts DEF Watermarks
<1>8. ControlInv
  BY <1>2 DEF ControlInv, CacheIsDisk, WorkingIsUnfinished, SectionOwners, ClosingIsBacked,
              SavedWithoutSuccess, Working, Closing, Failing, Recovering
<1> QED BY <1>1, <1>5, <1>6, <1>7, <1>8 DEF IInv, DataInv

\* Every step of the coordinator, of the clients and of the environment keeps the invariant.
LEMMA StepInv == IInv /\ [Next]_vars => IInv'
<1> SUFFICES ASSUME IInv, [Next]_vars PROVE DataInv' /\ ControlInv'
  BY StepType DEF IInv
<1>1. CASE SectionStep
  BY <1>1, AnnouncingInTask, ClosingInTask, SavingInTask, SavingResult, PersistingOutcome,
     Confirming, Creating, Requesting, RecoveryAnnounces, RecoverySaves, RecoveryGoesOn
     DEF SectionStep
<1>2. CASE Client
  BY <1>2, ClientSteps
<1>3. CASE \E r \in Runs : StartTask(r) \/ Progress(r) \/ WorkEnds(r) \/ DropTask(r)
  BY <1>3, TaskSteps
<1>4. CASE \E c \in Callers : ResumeCancel(c)
  BY <1>4, ResumeSteps
<1>5. CASE Crash \/ Restart \/ Recover
  BY <1>5, ProcessSteps
<1>6. CASE UNCHANGED vars
  <2>1. DataInv'
    BY <1>6, DataUntouched DEF vars, IInv
  <2>2. ControlInv'
    BY <1>6 DEF vars, IInv, ControlInv, CacheIsDisk, WorkingIsUnfinished, SectionOwners,
                ClosingIsBacked, SavedWithoutSuccess, Terminal, Logged
  <2> QED BY <2>1, <2>2
<1> QED BY <1>1, <1>2, <1>3, <1>4, <1>5, <1>6 DEF Next

\* The inductive invariant of the coordinator and its stores holds in every state, for
\* any sets of runs and callers and any number of crashes, write failures and cancels.
THEOREM Invariant == Spec => []IInv
<1>1. Init => IInv
  BY InitInv
<1>2. IInv /\ [Next]_vars => IInv'
  BY StepInv
<1> QED BY <1>1, <1>2, PTL DEF Spec

\* Whatever crashes and failing writes happen, and in whatever order the cancel
\* requests and the tasks run, a stored success has its result on disk.
THEOREM SuccessRestsOnResult == Spec => []StoredSuccessHasResult
<1>1. IInv => StoredSuccessHasResult
  BY DEF IInv, DataInv, SuccessHasResult, StoredSuccessHasResult, Success
<1> QED BY <1>1, Invariant, PTL

\* A completion event that anybody can see is backed by the stored run.
THEOREM CompletionRestsOnStore == Spec => []VisibleCompletionIsStored
<1>1. IInv => VisibleCompletionIsStored
  BY DEF IInv, DataInv, SuccessHasResult, LoggedSuccessIsStored, VisibleCompletionIsStored,
         SuccessEvent
<1> QED BY <1>1, Invariant, PTL

\* A client that GET tells of a success can fetch the result.
THEOREM ShownSuccessRestsOnResult == Spec => []ShownSuccessHasResult
<1>1. IInv => ShownSuccessHasResult
  BY DEF IInv, DataInv, SuccessHasResult, ShownSuccessHasResult, Success
<1> QED BY <1>1, Invariant, PTL

-----------------------------------------------------------------------------
(* The event logs. *)

\* The only way a step changes a log: it appends one event the store accepts.
Appends == \E r \in Runs, e \in Event : CanAppend(r, e) /\ Append_(r, e)

\* A publication, refused or not, appends one acceptable event or nothing.
LEMMA PublishAppends ==
  ASSUME TypeOK, NEW r \in Runs, NEW e \in Event, Publish(r, e) \/ PublishRaises(r, e)
  PROVE  log' = log \/ Appends
BY DEF Publish, PublishRaises, disk, Appends

\* So does every section of the coordinator.
LEMMA SectionAppends ==
  ASSUME TypeOK, SectionStep
  PROVE  log' = log \/ Appends
<1>0. cur \in Runs /\ ending \in Event
  BY DEF TypeOK, ControlType, RestType, Event, TerminalEvent
<1>1. CASE \/ AnnounceStart \/ AnnouncePhase \/ AnnouncePlan \/ CompleteSteps
           \/ AnnounceCancelled \/ FailSteps \/ AnnounceFailed \/ ConfirmCancel
           \/ RecoverAccepted \/ RecoverFailed \/ Accept
           \/ \E c \in Callers : AnnounceRequest(c)
  <2>1. \E e \in Event : Publish(cur, e) \/ PublishRaises(cur, e)
    BY <1>1, Named DEF AnnounceStart, AnnouncePhase, AnnouncePlan, CompleteSteps,
       AnnounceCancelled, FailSteps, AnnounceFailed, ConfirmCancel, RecoverAccepted, RecoverFailed,
       Announce, Accept, AnnounceRequest
  <2> QED BY <1>0, <2>1, PublishAppends
<1>2. CASE ClosePhase \/ CloseReport \/ CloseRun
  BY <1>0, <1>2, Named DEF ClosePhase, CloseReport, CloseRun, Close, Appends, disk
<1>3. CASE \/ WriteMetadata \/ WriteReceipt \/ SaveResult \/ Persist \/ SaveCancelled \/ SaveFailed
           \/ SaveConfirmed \/ SaveRecovered \/ FinishRecovery
           \/ \E r \in Runs : WriteRecovered(r) \/ NextRecovered(r)
  BY <1>3 DEF WriteMetadata, WriteReceipt, SaveResult, Persist, SaveCancelled, SaveFailed,
     SaveConfirmed, SaveRecovered, FinishRecovery, WriteRecovered, NextRecovered, SaveProjection,
     Save, WriteRaises, disk
<1> QED BY <1>1, <1>2, <1>3 DEF SectionStep

\* And so does every step of the system.
LEMMA StepAppends ==
  ASSUME TypeOK, [Next]_vars
  PROVE  log' = log \/ Appends
<1>1. CASE SectionStep
  BY <1>1, SectionAppends
<1>2. CASE Client
  BY <1>2 DEF Client, Create, Replay, Get, RequestCancel, disk
<1>3. ASSUME NEW r \in Runs, Progress(r) PROVE log' = log \/ Appends
  BY <1>3, PublishAppends, Named DEF Progress
<1>4. ASSUME NEW r \in Runs, StartTask(r) \/ WorkEnds(r) \/ DropTask(r) PROVE log' = log
  BY <1>4 DEF StartTask, WorkEnds, WorkReturns, WorkCancelled, WorkFails, DropTask, disk
<1>5. ASSUME NEW c \in Callers, ResumeCancel(c) PROVE log' = log
  BY <1>5 DEF ResumeCancel, disk
<1>6. CASE Crash \/ Restart \/ Recover
  BY <1>6 DEF Crash, Restart, Recover, disk
<1>7. CASE UNCHANGED vars
  BY <1>7 DEF vars
<1> QED BY <1>1, <1>2, <1>3, <1>4, <1>5, <1>6, <1>7 DEF Next

\* A run's stream ends once, whatever the handlers of a cancel, of a failure, of
\* a completion and of a recovery do and repeat.
THEOREM StreamEndsOnce == Spec => []OneTerminalEvent
<1>1. Init => OneTerminalEvent
  <2>1. Init => \A r \in Runs : log[r] = <<>> \/ log[r] = <<"run.accepted", "run.started">>
    BY DEF Init
  <2>2. \A i \in DOMAIN <<"run.accepted", "run.started">> :
          <<"run.accepted", "run.started">>[i] \notin TerminalEvent
    BY DEF TerminalEvent
  <2> QED BY <2>1, <2>2 DEF OneTerminalEvent
<1>2. TypeOK /\ OneTerminalEvent /\ [Next]_vars => OneTerminalEvent'
  <2> SUFFICES ASSUME TypeOK, OneTerminalEvent, [Next]_vars
               PROVE  OneTerminalEvent'
    OBVIOUS
  <2>1. CASE log' = log
    BY <2>1 DEF OneTerminalEvent
  <2>2. ASSUME NEW s \in Runs, NEW e \in Event, CanAppend(s, e), Append_(s, e),
               NEW r \in Runs, NEW i \in DOMAIN log'[r], NEW j \in DOMAIN log'[r],
               log'[r][i] \in TerminalEvent, log'[r][j] \in TerminalEvent
        PROVE  i = j
    <3>1. log' = [log EXCEPT ![s] = Append(@, e)] /\ log \in [Runs -> Seq(Event)]
      BY <2>2 DEF Append_, TypeOK, DataType
    <3>2. CASE r = s
      <4>1. log'[s] = Append(log[s], e)
        BY <3>1
      <4>2. CASE e \in TerminalEvent
        <5>1. \A k \in DOMAIN log[s] : log[s][k] \notin TerminalEvent
          BY <2>2, <4>2 DEF CanAppend, HasTerminal
        <5> QED BY <2>2, <3>1, <3>2, <4>1, <5>1, AppendFacts
      <4>3. CASE e \notin TerminalEvent
        <5>1. i \in DOMAIN log[s] /\ j \in DOMAIN log[s] /\ log[s][i] = log'[s][i] /\ log[s][j] = log'[s][j]
          BY <2>2, <3>1, <3>2, <4>1, <4>3, AppendFacts
        <5> QED BY <2>2, <3>2, <5>1 DEF OneTerminalEvent
      <4> QED BY <4>2, <4>3
    <3>3. CASE r # s
      BY <2>2, <3>1, <3>3 DEF OneTerminalEvent
    <3> QED BY <3>2, <3>3
  <2> QED BY <2>1, <2>2, StepAppends DEF Appends, OneTerminalEvent
<1> QED BY <1>1, <1>2, TypeCorrect, PTL DEF Spec
=============================================================================
