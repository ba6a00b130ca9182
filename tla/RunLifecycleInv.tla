--------------------------- MODULE RunLifecycleInv ---------------------------
(***************************************************************************)
(* The inductive invariant of RunLifecycle: what the coordinator's writes, *)
(* its tasks and its sections rely on between any two steps.               *)
(***************************************************************************)
EXTENDS RunLifecycle

Success == {"completed", "partial"}
SuccessEvent == {"run.completed", "run.partial"}
Working == {"start", "start phase", "plan", "save result", "complete steps", "persist"}
Closing == {"close phase", "close report", "close run"}
Failing == {"cancel", "save cancelled", "fail steps", "fail", "save failed"}
Recovering == {"write recovered", "next recovered", "recover accept", "recover fail",
               "save recovered"}

\* Once the metadata has been loaded, the cache is the disk, but for a run whose
\* first write failed and for the runs recovery is about to write.
CacheIsDisk ==
  phase = "ready" \/ pc # "idle" =>
    \A r \in Runs :
      \/ mem[r] = meta[r]
      \/ mem[r] = Accepted /\ meta[r] = Absent
      \/ pc = "write recovered" /\ r \in batch /\ mem[r] = Interrupted(meta[r])

\* A success that is stored, logged or projected rests on a stored result.
SuccessHasResult ==
  \A r \in Runs :
    \/ meta[r].status \in Success \/ proj[r].status \in Success
    \/ \E e \in SuccessEvent \cup {"report.completed"} : Logged(r, e)
    => r \in result

LoggedSuccessIsStored ==
  \A r \in Runs : \A e \in SuccessEvent : Logged(r, e) => meta[r].status = Effect[e]

\* A watermark past the end of the log belongs to a run that was being completed.
Watermarks ==
  \A r \in Runs :
    /\ meta[r].seq > Len(log[r]) => Terminal(meta[r])
    /\ proj[r].seq > Len(log[r]) => Terminal(meta[r]) /\ Terminal(proj[r])

\* The run of a task at work is stored as unfinished, until the task itself is
\* completing it.
WorkingIsUnfinished ==
  \A r \in Runs :
    task[r] = "working" /\ Terminal(meta[r]) =>
      cur = r /\ pc \in Closing \cup {"fail", "save failed"}

\* Who may be in which section: a task at work owns the sections of execute(),
\* a cancel request confirms only for a task that is over, and only recovery runs
\* before the first request is served.
SectionOwners ==
  /\ pc \in Working \cup Closing \cup Failing => task[cur] = "working"
  /\ pc \in {"confirm", "save confirmed"} => task[cur] # "working"
  /\ pc \in Recovering => phase = "booting"
  /\ pc \notin Recovering \cup {"idle"} => phase = "ready"
  /\ phase # "ready" => \A r \in Runs : task[r] = "none"
  /\ \A c \in Callers : call[c].at = "woken" => task[call[c].run] # "working"

ClosingIsBacked ==
  /\ pc \in {"complete steps", "persist"} \cup Closing => cur \in result
  /\ pc \in Closing => meta[cur].status = Effect[ending]

\* What a handler is about to save was announced, so no success was.
SavedWithoutSuccess ==
  pc \in {"save cancelled", "save failed", "save confirmed", "save recovered"} =>
    \A e \in SuccessEvent : ~Logged(cur, e)

\* What holds of the data whichever section runs.
DataInv == SuccessHasResult /\ LoggedSuccessIsStored /\ Watermarks

\* What holds of the sections and the tasks.
ControlInv ==
  /\ CacheIsDisk
  /\ WorkingIsUnfinished
  /\ SectionOwners
  /\ ClosingIsBacked
  /\ SavedWithoutSuccess

IInv == TypeOK /\ DataInv /\ ControlInv
=============================================================================
