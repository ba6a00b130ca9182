---------------------------- MODULE RunLifecycle ----------------------------
(***************************************************************************)
(* The life of a due-diligence Run: RunCoordinator, the JSON run           *)
(* repository, the JSONL event store, RunProjection and RunEventPublisher, *)
(* as the versioned Run API composes them on shared storage.               *)
(*                                                                         *)
(* The service is one asyncio process.  A coroutine gives up the event     *)
(* loop only where it really suspends: while the agents work (_run_impl),  *)
(* and while a cancel request awaits the task.  Everything between two     *)
(* such points is a section that no other coroutine interleaves with; pc   *)
(* is the section's position and cur its run, and pc = "idle" when the     *)
(* loop is free.  A section still takes one step per disk write, because   *)
(* the process may crash, and a write may fail, between any two of them.   *)
(***************************************************************************)
EXTENDS Integers, Sequences, FiniteSets

CONSTANTS
  Runs,         \* run ids the id factory may hand out
  Keys,         \* (owner, Idempotency-Key) pairs; one request body per key
  NoKey,        \* a create request without an Idempotency-Key
  Callers,      \* HTTP requests that may be inside cancel() at the same time
  LegacyRuns,   \* runs whose metadata another writer left "running" on disk
  MaxCrashes,   \* bound: process crashes
  MaxFaults,    \* bound: disk writes that raise
  MaxLog,       \* bound: the runtime publishes no progress beyond this length
  MaxCancels    \* bound: cancel requests logged by one run

ASSUME NoKeyAssumption == NoKey \notin Keys
ASSUME LegacyAssumption == LegacyRuns \subseteq Runs
ASSUME BoundsAssumption == {MaxCrashes, MaxFaults, MaxLog, MaxCancels} \subseteq Nat

VARIABLES
  meta,       \* disk: metadata.json of each run
  receipts,   \* disk: idempotency.json
  result,     \* disk: runs with a result.json
  log,        \* disk: the run's .jsonl file, one event per line
  mem,        \* repository cache of metadata
  idem,       \* repository cache of the receipts
  proj,       \* RunProjection.resource of each hydrated run
  ahead,      \* runs whose publisher holds a sequence number past the log's end
  token,      \* cancellation token of each run
  task,       \* asyncio task of each run
  call,       \* progress of each cancel request
  phase,      \* "down", "booting" (recover() not run yet) or "ready"
  pc, cur,    \* the section that holds the loop, and its run
  ending,     \* terminal event of the result being completed
  batch,      \* runs that recover() still has to fail
  crashes, faults, \* environment counters
  replied     \* history: runs a key's create requests were answered with

disk   == <<meta, receipts, result, log>>
env    == <<crashes, faults>>
vars   == <<meta, receipts, result, log, mem, idem, proj, ahead, token, task,
            call, phase, pc, cur, ending, batch, crashes, faults, replied>>

-----------------------------------------------------------------------------
TerminalStatus == {"completed", "partial", "failed", "cancelled"}
Status == {"none", "accepted", "running"} \cup TerminalStatus

TerminalEvent == {"run.completed", "run.partial", "run.failed", "run.cancelled"}

\* Public events by their effect on the projection.  "progress" stands for every
\* event that leaves the status alone: plan, steps, phase.completed, telemetry.
Event == {"run.accepted", "run.started", "run.phase.started", "progress",
          "run.cancel_requested", "report.completed"} \cup TerminalEvent

\* RunProjection.apply: the status an event sets, for those that set one.
Effect == [e \in Event \ {"progress", "run.cancel_requested"} |->
             CASE e = "run.accepted" -> "accepted"
               [] e \in {"run.started", "run.phase.started"} -> "running"
               [] e \in {"report.completed", "run.completed"} -> "completed"
               [] e = "run.partial" -> "partial"
               [] e = "run.failed" -> "failed"
               [] e = "run.cancelled" -> "cancelled"]

Resource == [status : Status, seq : Nat]
Absent   == [status |-> "none", seq |-> 0]
Accepted == [status |-> "accepted", seq |-> 0]

Apply(p, e, n) ==
  IF n <= p.seq THEN p
  ELSE [status |-> IF e \in DOMAIN Effect THEN Effect[e] ELSE p.status, seq |-> n]

Terminal(p) == p.status \in TerminalStatus
HasTerminal(r) == \E i \in DOMAIN log[r] : log[r][i] \in TerminalEvent
Logged(r, e) == \E i \in DOMAIN log[r] : log[r][i] = e
Times(r, e) == Cardinality({i \in DOMAIN log[r] : log[r][i] = e})

\* _hydrate_projection: the stored resource, then the events past its watermark.
Hydrated(r) ==
  LET Bearing(i) == i > mem[r].seq /\ log[r][i] \in DOMAIN Effect
      last == {i \in DOMAIN log[r] : Bearing(i) /\ \A j \in DOMAIN log[r] : j > i => ~Bearing(j)}
  IN [status |-> IF last = {} THEN mem[r].status ELSE Effect[log[r][CHOOSE i \in last : TRUE]],
      seq |-> IF Len(log[r]) > mem[r].seq THEN Len(log[r]) ELSE mem[r].seq]

\* get(): hydrate the projection once per process.
ProjectionOf(r) == IF proj[r] = Absent THEN Hydrated(r) ELSE proj[r]
Hydrate(r) == proj' = [proj EXCEPT ![r] = ProjectionOf(r)]

Live(r) == task[r] \in {"scheduled", "dropped", "working"}

Labels ==
  {"idle", "write metadata", "write receipt", "accept",
   "start", "start phase", "plan", "save result", "complete steps", "persist",
   "close phase", "close report", "close run", "cancel", "save cancelled",
   "fail steps", "fail", "save failed", "request", "confirm", "save confirmed",
   "write recovered", "next recovered", "recover accept", "recover fail", "save recovered"}

-----------------------------------------------------------------------------
(* Sections: where control goes, and the writes a step of a section makes. *)

Idle == phase = "ready" /\ pc = "idle"

Enter(label, r) == pc' = label /\ cur' = r
Goto(label) == pc' = label /\ UNCHANGED <<cur, task, call>>
Leave == Goto("idle")

\* Variant: the requests that await the task are not resumed.
Variant_TaskEndsUnheard(r, how) ==
  task' = [task EXCEPT ![r] = "done"] /\ UNCHANGED call

\* The task is over: the cancel requests awaiting it are scheduled to resume,
\* or raise in their turn when it ended with an exception.
TaskEnds(r, how) ==
  /\ task' = [task EXCEPT ![r] = "done"]
  /\ call' = [c \in Callers |->
                IF call[c].at = "awaiting" /\ call[c].run = r
                THEN [at |-> IF how = "returns" THEN "woken" ELSE "none", run |-> r]
                ELSE call[c]]

TaskReturns == pc' = "idle" /\ cur' = cur /\ TaskEnds(cur, "returns")
TaskRaises  == pc' = "idle" /\ cur' = cur /\ TaskEnds(cur, "raises")

\* Variant: the store appends any event.
Variant_CanAppendAny(r, e) == TRUE

\* EventStore.append: a log takes one terminal event only.
CanAppend(r, e) == e \in TerminalEvent => ~HasTerminal(r)

Append_(r, e) ==
  /\ log' = [log EXCEPT ![r] = Append(@, e)]
  /\ proj' = [proj EXCEPT ![r] = Apply(@, e, Len(log[r]) + 1)]
  /\ UNCHANGED <<meta, receipts, result>>

DiskFault == faults < MaxFaults /\ faults' = faults + 1

\* RunEventPublisher.publish: the sequencer catches up with the store and takes
\* the next number before the append.  An append that is refused or fails leaves
\* it one number ahead, and from then on the store refuses every event of it:
\* only the comparison with the log matters, so the number itself is abstracted.
Publish(r, e) ==
  /\ r \notin ahead /\ CanAppend(r, e)
  /\ Append_(r, e)
  /\ UNCHANGED <<ahead, faults>>

PublishRaises(r, e) ==
  /\ IF r \notin ahead /\ CanAppend(r, e) THEN DiskFault ELSE UNCHANGED faults
  /\ ahead' = ahead \cup {r}
  /\ UNCHANGED <<disk, proj>>

\* JsonRunRepository.save: the file, then the cache.
Save(r, resource) ==
  /\ meta' = [meta EXCEPT ![r] = resource]
  /\ mem' = [mem EXCEPT ![r] = resource]
  /\ UNCHANGED <<receipts, result, log, faults>>

WriteRaises == DiskFault /\ UNCHANGED <<disk, mem>>

\* What a section's step leaves alone besides the writes above.
Rest == UNCHANGED <<idem, token, phase, ending, batch, crashes, replied>>

\* One step of a section that publishes e for the section's run.
Announce(here, e, next, onError) ==
  /\ pc = here
  /\ \/ Publish(cur, e) /\ next
     \/ PublishRaises(cur, e) /\ onError
  /\ UNCHANGED mem
  /\ Rest

\* One step of a section that saves the run's projection.
SaveProjection(here, next, onError) ==
  /\ pc = here
  /\ \/ Save(cur, proj[cur]) /\ next
     \/ WriteRaises /\ onError
  /\ UNCHANGED <<proj, ahead>>
  /\ Rest

-----------------------------------------------------------------------------
(* POST /runs: create() and then start(). *)

Fresh(r) ==
  /\ mem[r] = Absent /\ meta[r] = Absent /\ log[r] = <<>>
  /\ \A k \in Keys : r \notin replied[k]

Schedule(r) == IF Live(r) THEN task ELSE [task EXCEPT ![r] = "scheduled"]
Reply(k, r) == IF k = NoKey THEN replied ELSE [replied EXCEPT ![k] = @ \cup {r}]

\* A new run enters the repository's memory; its two files are still to write.
Create(k, r) ==
  /\ Idle
  /\ Fresh(r)
  /\ k # NoKey => idem[k] = {}
  /\ mem' = [mem EXCEPT ![r] = Accepted]
  /\ idem' = IF k = NoKey THEN idem ELSE [idem EXCEPT ![k] = {r}]
  /\ Enter("write metadata", r)
  /\ UNCHANGED <<disk, env, proj, ahead, token, task, call, phase, ending, batch, replied>>

WriteMetadata ==
  /\ pc = "write metadata"
  /\ \/ Save(cur, mem[cur]) /\ Goto("write receipt")
     \/ WriteRaises /\ Leave
  /\ UNCHANGED <<proj, ahead>>
  /\ Rest

\* _persist_idempotency rewrites every receipt the cache holds.
WriteReceipt ==
  /\ pc = "write receipt"
  /\ \/ /\ receipts' = idem
        /\ proj' = [proj EXCEPT ![cur] = Accepted]
        /\ Goto("accept")
        /\ UNCHANGED <<meta, result, log, mem, faults>>
     \/ WriteRaises /\ Leave /\ UNCHANGED proj
  /\ UNCHANGED ahead
  /\ Rest

\* run.accepted, then the endpoint starts the task and answers the client.
Accept ==
  /\ pc = "accept"
  /\ \/ /\ Publish(cur, "run.accepted")
        /\ task' = Schedule(cur)
        /\ replied' = [k \in Keys |-> IF idem[k] = {cur} THEN replied[k] \cup {cur} ELSE replied[k]]
        /\ Enter("idle", cur)
        /\ UNCHANGED call
     \/ PublishRaises(cur, "run.accepted") /\ Leave /\ UNCHANGED replied
  /\ UNCHANGED <<mem, idem, token, phase, ending, batch, crashes>>

\* The same key again: the receipt's run is returned, and started if no task of
\* it is live.
Replay(k) ==
  /\ Idle
  /\ \E r \in idem[k] :
       /\ mem[r] # Absent
       /\ Hydrate(r)
       /\ task' = Schedule(r)
       /\ replied' = Reply(k, r)
  /\ UNCHANGED <<disk, env, mem, idem, ahead, token, call, phase, pc, cur, ending, batch>>

\* GET, and the lookup every other endpoint begins with.
Get(r) ==
  /\ Idle
  /\ mem[r] # Absent
  /\ Hydrate(r)
  /\ UNCHANGED <<disk, env, mem, idem, ahead, token, task, call, phase, pc, cur,
                 ending, batch, replied>>

-----------------------------------------------------------------------------
(* execute(): the task of a run. *)

\* A woken cancel request was scheduled before any later task of the run.
Awaited(r) == \E c \in Callers : call[c].at = "woken" /\ call[c].run = r

\* Variant: execute() does not look at the stored status.
Variant_StartTaskBlindly(r) ==
  /\ Idle
  /\ task[r] = "scheduled"
  /\ ~Awaited(r)
  /\ task' = [task EXCEPT ![r] = "working"] /\ Enter("start", r) /\ UNCHANGED call
  /\ UNCHANGED <<disk, env, mem, idem, proj, ahead, token, phase, ending, batch, replied>>

StartTask(r) ==
  /\ Idle
  /\ task[r] = "scheduled"
  /\ ~Awaited(r)
  /\ IF Terminal(mem[r])
     THEN TaskEnds(r, "returns") /\ UNCHANGED <<pc, cur>>
     ELSE task' = [task EXCEPT ![r] = "working"] /\ Enter("start", r) /\ UNCHANGED call
  /\ UNCHANGED <<disk, env, mem, idem, proj, ahead, token, phase, ending, batch, replied>>

\* Outside the try: an exception here ends the task.
AnnounceStart == Announce("start", "run.started", Goto("start phase"), TaskRaises)
AnnouncePhase == Announce("start phase", "run.phase.started", Goto("plan"), TaskRaises)

\* The plan, after which the task suspends in _run_impl.
AnnouncePlan == Announce("plan", "progress", Leave, Goto("fail"))

AtWork(r) == Idle /\ task[r] = "working"

\* _runtime_sink: an event of the agents.  The runtime may swallow an exception.
Progress(r) ==
  /\ AtWork(r)
  /\ Len(log[r]) < MaxLog
  /\ Publish(r, "progress") \/ PublishRaises(r, "progress")
  /\ UNCHANGED <<mem, task, call, pc, cur>>
  /\ Rest

\* _run_impl returns a result; raise_if_cancelled discards it after a cancel.
WorkReturns(r, terminal) ==
  /\ AtWork(r)
  /\ ~token[r]
  /\ ending' = terminal
  /\ Enter("save result", r)
  /\ UNCHANGED <<disk, env, mem, idem, proj, ahead, token, task, call, phase, batch, replied>>

WorkCancelled(r) ==
  /\ AtWork(r)
  /\ token[r]
  /\ Enter("cancel", r)
  /\ UNCHANGED <<disk, env, mem, proj, ahead, task, call>>
  /\ UNCHANGED <<idem, token, phase, ending, batch, replied>>

WorkFails(r) ==
  /\ AtWork(r)
  /\ \E label \in {"fail steps", "fail"} : Enter(label, r)
  /\ UNCHANGED <<disk, env, mem, proj, ahead, task, call>>
  /\ UNCHANGED <<idem, token, phase, ending, batch, replied>>

\* Variant: a failing result write is swallowed.
Variant_SaveResultSwallows ==
  /\ pc = "save result"
  /\ \/ result' = result \cup {cur} /\ UNCHANGED <<meta, receipts, log, mem, faults>>
     \/ WriteRaises
  /\ Goto("complete steps")
  /\ UNCHANGED <<proj, ahead>>
  /\ Rest

SaveResult ==
  /\ pc = "save result"
  /\ \/ /\ result' = result \cup {cur}
        /\ Goto("complete steps")
        /\ UNCHANGED <<meta, receipts, log, mem, faults>>
     \/ WriteRaises /\ \E label \in {"fail steps", "fail"} : Goto(label)
  /\ UNCHANGED <<proj, ahead>>
  /\ Rest

CompleteSteps == Announce("complete steps", "progress", Goto("persist"), Goto("fail"))

\* complete(): the projection as it will be after the three closing events is
\* saved before any of them is appended.
Prepared(r) ==
  LET n == Len(log[r]) IN
  Apply(Apply(Apply(proj[r], "progress", n + 1), "report.completed", n + 2), ending, n + 3)

\* Variant: a failing save of the completed projection is swallowed.
Variant_PersistSwallows ==
  /\ pc = "persist"
  /\ Save(cur, Prepared(cur)) \/ WriteRaises
  /\ Goto("close phase")
  /\ UNCHANGED <<proj, ahead>>
  /\ Rest

Persist ==
  /\ pc = "persist"
  /\ \/ Save(cur, Prepared(cur)) /\ Goto("close phase")
     \/ WriteRaises /\ Goto("fail")
  /\ UNCHANGED <<proj, ahead>>
  /\ Rest

\* One closing event: appended with its prepared number, then applied.
Close(here, e, next) ==
  /\ pc = here
  /\ \/ CanAppend(cur, e) /\ Append_(cur, e) /\ next /\ UNCHANGED faults
     \/ /\ IF CanAppend(cur, e) THEN DiskFault ELSE UNCHANGED faults
        /\ Goto("fail")
        /\ UNCHANGED <<disk, proj>>
  /\ UNCHANGED <<mem, ahead>>
  /\ Rest

ClosePhase  == Close("close phase", "progress", Goto("close report"))
CloseReport == Close("close report", "report.completed", Goto("close run"))
CloseRun    == Close("close run", ending, TaskReturns)

\* except CancelledError.
AnnounceCancelled == Announce("cancel", "run.cancelled", Goto("save cancelled"), TaskRaises)
SaveCancelled == SaveProjection("save cancelled", TaskReturns, TaskRaises)

\* except Exception; an exception inside a handler ends the task.
FailSteps      == Announce("fail steps", "progress", Goto("fail"), TaskRaises)
AnnounceFailed == Announce("fail", "run.failed", Goto("save failed"), TaskRaises)
SaveFailed     == SaveProjection("save failed", TaskReturns, TaskRaises)

-----------------------------------------------------------------------------
(* POST /runs/{id}/cancel. *)

NoCall(c) == [call EXCEPT ![c].at = "none"]

RequestCancel(c, r) ==
  /\ Idle
  /\ call[c].at = "none"
  /\ Times(r, "run.cancel_requested") < MaxCancels
  /\ mem[r] # Absent
  /\ ~Terminal(ProjectionOf(r))
  /\ Hydrate(r)
  /\ token' = [token EXCEPT ![r] = TRUE]
  /\ call' = [call EXCEPT ![c] = [at |-> "asking", run |-> r]]
  /\ Enter("request", r)
  /\ UNCHANGED <<disk, env, mem, idem, ahead, task, phase, ending, batch, replied>>

\* task.cancel() and await it, or go on at once when no task is live.
AnnounceRequest(c) ==
  /\ pc = "request"
  /\ call[c].at = "asking"
  /\ \/ /\ Publish(cur, "run.cancel_requested")
        /\ \/ /\ Live(cur)
              /\ task' = [task EXCEPT ![cur] = IF @ = "scheduled" THEN "dropped" ELSE @]
              /\ call' = [call EXCEPT ![c].at = "awaiting"]
              /\ pc' = "idle"
           \/ /\ ~Live(cur)
              /\ call' = NoCall(c)
              /\ pc' = IF Terminal(mem[cur]) THEN "idle" ELSE "confirm"
              /\ UNCHANGED task
     \/ /\ PublishRaises(cur, "run.cancel_requested")
        /\ call' = NoCall(c)
        /\ pc' = "idle"
        /\ UNCHANGED task
  /\ UNCHANGED <<mem, cur>>
  /\ Rest

\* A task cancelled before its first step never runs execute().
DropTask(r) ==
  /\ Idle
  /\ task[r] = "dropped"
  /\ TaskEnds(r, "returns")
  /\ UNCHANGED <<disk, env, mem, idem, proj, ahead, token, phase, pc, cur, ending,
                 batch, replied>>

\* Variant: nobody ends a run whose task was cancelled before its first step.
Variant_ResumeCancelReturns(c) ==
  /\ Idle
  /\ call[c].at = "woken"
  /\ call' = NoCall(c)
  /\ UNCHANGED <<disk, env, mem, idem, proj, ahead, token, task, phase, pc, cur, ending,
                 batch, replied>>

ResumeCancel(c) ==
  /\ Idle
  /\ call[c].at = "woken"
  /\ call' = NoCall(c)
  /\ IF Terminal(mem[call[c].run]) THEN UNCHANGED <<pc, cur>> ELSE Enter("confirm", call[c].run)
  /\ UNCHANGED <<disk, env, mem, idem, proj, ahead, token, task, phase, ending, batch, replied>>

\* Variant: the confirmed cancellation is not saved.
Variant_ConfirmCancelUnsaved == Announce("confirm", "run.cancelled", Leave, Leave)
ConfirmCancel == Announce("confirm", "run.cancelled", Goto("save confirmed"), Leave)
SaveConfirmed == SaveProjection("save confirmed", Leave, Leave)

-----------------------------------------------------------------------------
(* The process: crash, restart, and recover() on the first request. *)

NoTask == [r \in Runs |-> "none"]
NoCalls(runOf) == [c \in Callers |-> [at |-> "none", run |-> runOf[c]]]

Crash ==
  /\ phase # "down"
  /\ crashes < MaxCrashes
  /\ crashes' = crashes + 1
  /\ phase' = "down" /\ pc' = "idle"
  /\ mem' = [r \in Runs |-> Absent]
  /\ idem' = [k \in Keys |-> {}]
  /\ proj' = [r \in Runs |-> Absent]
  /\ ahead' = {}
  /\ token' = [r \in Runs |-> FALSE]
  /\ task' = NoTask
  /\ call' = NoCalls([c \in Callers |-> call[c].run])
  /\ batch' = {}
  /\ UNCHANGED <<disk, faults, cur, ending, replied>>

\* Variant: the receipts are not loaded.
Variant_RestartForgets ==
  /\ phase = "down"
  /\ phase' = "booting"
  /\ UNCHANGED <<disk, env, mem, idem, proj, ahead, token, task, call, pc, cur, ending,
                 batch, replied>>

\* JsonRunRepository.__init__ loads the receipts, and nothing else.
Restart ==
  /\ phase = "down"
  /\ phase' = "booting"
  /\ idem' = receipts
  /\ UNCHANGED <<disk, env, mem, proj, ahead, token, task, call, pc, cur, ending,
                 batch, replied>>

\* recover_running: every metadata file is loaded, running ones become failed.
Interrupted(resource) ==
  IF resource.status = "running" THEN [resource EXCEPT !.status = "failed"] ELSE resource

\* Variant: _recovered is set before the recovered runs are written.
Variant_RecoverEarly ==
  /\ phase = "booting" /\ pc = "idle"
  /\ mem' = [r \in Runs |-> Interrupted(meta[r])]
  /\ batch' = {r \in Runs : meta[r].status = "running"}
  /\ phase' = "ready"
  /\ pc' = IF batch' = {} THEN pc ELSE "write recovered"
  /\ UNCHANGED <<disk, env, idem, proj, ahead, token, task, call, cur, ending, replied>>

Recover ==
  /\ phase = "booting" /\ pc = "idle"
  /\ mem' = [r \in Runs |-> Interrupted(meta[r])]
  /\ batch' = {r \in Runs : meta[r].status = "running"}
  /\ IF batch' = {} THEN phase' = "ready" /\ pc' = pc
                    ELSE phase' = phase   /\ pc' = "write recovered"
  /\ UNCHANGED <<disk, env, idem, proj, ahead, token, task, call, cur, ending, replied>>

\* An exception leaves _recovered false: the next request recovers again.
WriteRecovered(r) ==
  /\ pc = "write recovered"
  /\ r \in batch /\ meta[r] # mem[r]
  /\ \/ Save(r, mem[r]) /\ Goto(pc)
     \/ WriteRaises /\ Leave
  /\ UNCHANGED <<proj, ahead>>
  /\ Rest

NextRecovered(r) ==
  /\ \/ pc = "write recovered" /\ \A s \in batch : meta[s] = mem[s]
     \/ pc = "next recovered"
  /\ r \in batch
  /\ batch' = batch \ {r}
  /\ Hydrate(r)
  /\ Enter(IF log[r] = <<>> THEN "recover accept" ELSE "recover fail", r)
  /\ UNCHANGED <<disk, env, mem, idem, ahead, token, task, call, phase, ending, replied>>

RecoverAccepted == Announce("recover accept", "run.accepted", Goto("recover fail"), Leave)
RecoverFailed   == Announce("recover fail", "run.failed", Goto("save recovered"), Leave)
SaveRecovered   == SaveProjection("save recovered", Goto("next recovered"), Leave)

FinishRecovery ==
  /\ pc = "next recovered"
  /\ batch = {}
  /\ phase' = "ready" /\ pc' = "idle"
  /\ UNCHANGED <<disk, env, mem, idem, proj, ahead, token, task, call, cur, ending,
                 batch, replied>>

-----------------------------------------------------------------------------
\* The disk as the process finds it: empty but for the legacy runs.
Init ==
  /\ log \in [Runs -> {<<>>, <<"run.accepted", "run.started">>}]
  /\ \A r \in Runs \ LegacyRuns : log[r] = <<>>
  /\ meta = [r \in Runs |-> IF r \in LegacyRuns
                             THEN [status |-> "running", seq |-> Len(log[r])] ELSE Absent]
  /\ receipts = [k \in Keys |-> {}]
  /\ result = {}
  /\ mem = [r \in Runs |-> Absent] /\ proj = [r \in Runs |-> Absent]
  /\ idem = [k \in Keys |-> {}]
  /\ ahead = {}
  /\ token = [r \in Runs |-> FALSE]
  /\ task = NoTask
  /\ cur \in Runs
  /\ call = NoCalls([c \in Callers |-> cur])
  /\ phase = "booting" /\ pc = "idle"
  /\ ending = "run.completed"
  /\ batch = {}
  /\ crashes = 0 /\ faults = 0
  /\ replied = [k \in Keys |-> {}]

\* The steps of a section that has begun: the loop does not wait for anything.
SectionStep ==
  \/ WriteMetadata \/ WriteReceipt \/ Accept
  \/ AnnounceStart \/ AnnouncePhase \/ AnnouncePlan
  \/ SaveResult \/ CompleteSteps \/ Persist \/ ClosePhase \/ CloseReport \/ CloseRun
  \/ AnnounceCancelled \/ SaveCancelled
  \/ FailSteps \/ AnnounceFailed \/ SaveFailed
  \/ \E c \in Callers : AnnounceRequest(c)
  \/ ConfirmCancel \/ SaveConfirmed
  \/ \E r \in Runs : WriteRecovered(r) \/ NextRecovered(r)
  \/ RecoverAccepted \/ RecoverFailed \/ SaveRecovered \/ FinishRecovery

WorkEnds(r) ==
  \/ \E terminal \in {"run.completed", "run.partial"} : WorkReturns(r, terminal)
  \/ WorkCancelled(r)
  \/ WorkFails(r)

Client ==
  \/ \E k \in Keys \cup {NoKey}, r \in Runs : Create(k, r)
  \/ \E k \in Keys : Replay(k)
  \/ \E r \in Runs : Get(r)
  \/ \E c \in Callers, r \in Runs : RequestCancel(c, r)

Next ==
  \/ SectionStep
  \/ Client
  \/ \E r \in Runs : StartTask(r) \/ Progress(r) \/ WorkEnds(r) \/ DropTask(r)
  \/ \E c \in Callers : ResumeCancel(c)
  \/ Crash \/ Restart \/ Recover

\* The loop runs what is ready, a restarted process is sent a first request, and
\* the agents' work ends: budgets and deadlines bound it (see BudgetLedger).
Fairness ==
  /\ WF_vars(SectionStep)
  /\ WF_vars(Restart) /\ WF_vars(Recover)
  /\ \A r \in Runs : /\ SF_vars(StartTask(r))
                     /\ SF_vars(WorkEnds(r))
                     /\ SF_vars(DropTask(r))
  /\ \A c \in Callers : SF_vars(ResumeCancel(c))

Spec == Init /\ [][Next]_vars
FairSpec == Spec /\ Fairness

-----------------------------------------------------------------------------
(* Properties. *)

TaskState == {"none", "scheduled", "dropped", "working", "done"}
CallState == [at : {"none", "asking", "awaiting", "woken"}, run : Runs]

DataType ==
  /\ meta \in [Runs -> Resource] /\ mem \in [Runs -> Resource] /\ proj \in [Runs -> Resource]
  /\ log \in [Runs -> Seq(Event)]
  /\ receipts \in [Keys -> SUBSET Runs]
  /\ result \subseteq Runs /\ ahead \subseteq Runs
  /\ faults \in Nat

ControlType ==
  /\ pc \in Labels /\ cur \in Runs
  /\ task \in [Runs -> TaskState]
  /\ call \in [Callers -> CallState]

RestType ==
  /\ idem \in [Keys -> SUBSET Runs] /\ replied \in [Keys -> SUBSET Runs]
  /\ token \in [Runs -> BOOLEAN]
  /\ phase \in {"down", "booting", "ready"}
  /\ ending \in {"run.completed", "run.partial"}
  /\ batch \subseteq Runs
  /\ crashes \in Nat

\* Every variable keeps its type.
TypeOK == DataType /\ ControlType /\ RestType

\* A stored "completed" or "partial" always has its result on disk, whatever
\* crashes or failing writes came before (save_result precedes complete()).
StoredSuccessHasResult ==
  \A r \in Runs : meta[r].status \in {"completed", "partial"} => r \in result

\* A completion event that a subscriber or a replay can see is never ahead of
\* the stored run: complete() persists before any completion event is appended,
\* and no later write of any coroutine takes the stored status back.
VisibleCompletionIsStored ==
  \A r \in Runs : \A e \in {"run.completed", "run.partial"} :
    Logged(r, e) => meta[r].status = Effect[e] /\ r \in result

\* A client that GET tells "completed" or "partial" can fetch the result.
ShownSuccessHasResult ==
  Idle => \A r \in Runs : proj[r].status \in {"completed", "partial"} => r \in result

\* A log never holds two terminal events.
OneTerminalEvent ==
  \A r \in Runs : \A i, j \in DOMAIN log[r] :
    log[r][i] \in TerminalEvent /\ log[r][j] \in TerminalEvent => i = j

\* While nothing crashes or fails: whenever the loop is free, the stored run is
\* terminal exactly when its stream has ended, and with the same outcome, the
\* outcome is what GET shows, and the stream has one start, however often the
\* create request, the cancel requests and the task's own end interleave.
StoreAgreesWithStream ==
  Idle => \A r \in Runs :
    /\ Terminal(meta[r]) <=> HasTerminal(r)
    /\ \A e \in TerminalEvent : Logged(r, e) => meta[r].status = Effect[e]
    /\ Terminal(meta[r]) => proj[r].status = meta[r].status
    /\ Times(r, "run.started") <= 1

\* One Idempotency-Key never answers with two runs.
OneRunPerKey == \A k \in Keys : Cardinality(replied[k]) <= 1

\* Crashes never turn a stored outcome into another one.
OutcomeIsFinal ==
  [][\A r \in Runs : Terminal(meta[r]) => meta'[r].status = meta[r].status]_vars

\* Every accepted run ends, in the store and in its stream.
EveryRunEnds == \A r \in Runs : Logged(r, "run.accepted") ~> Terminal(meta[r]) /\ HasTerminal(r)

\* Every cancel request is answered.
CancelReturns == \A c \in Callers : call[c].at # "none" ~> call[c].at = "none"

\* No request is served before every run found running on disk is stored as
\* failed, however often a crash or a failing write interrupts the recovery.
FoundRunningIsFailed ==
  Idle => \A r \in LegacyRuns : meta[r].status = "failed"

\* Docs: a run left running by a restart is marked failed or interrupted.
InterruptedRunsAreFailed ==
  Idle /\ (\A c \in Callers : call[c].at = "none") =>
    \A r \in Runs : Logged(r, "run.started") /\ ~Live(r) => Terminal(meta[r])

\* The status of a run as its contract sees it: the stored outcome once there is
\* one, the projection until then.  A run whose creation is still being written
\* has none.
PublicStatus ==
  [r \in Runs |-> IF Terminal(meta[r]) THEN meta[r].status ELSE proj[r].status]

Contract == INSTANCE RunContract WITH status <- PublicStatus

\* While nothing crashes or fails, the coordinator keeps the contract: one
\* outcome, never revised, and reached by every accepted run.
KeepsContract == Contract!Spec
=============================================================================
