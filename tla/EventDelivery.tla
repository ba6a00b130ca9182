--------------------------- MODULE EventDelivery ----------------------------
(***************************************************************************)
(* How the events of one Run reach its subscribers: the per-run log of     *)
(* JsonlEventStore, the bounded queue the store keeps for each subscriber, *)
(* RunCoordinator.subscribe, and what stands between it and the client --  *)
(* stream_sse_events with its own unbounded queue for an SSE client, or    *)
(* the v1 stream, whose consumer pulls one event at a time.                *)
(*                                                                         *)
(* An event is its sequence number; log gives the kind of each.  The locks *)
(* of the store guard sections without an await, so an append with its     *)
(* fan-out, or a registration with the read of the history, is one step.   *)
(***************************************************************************)
EXTENDS Integers, Sequences

CONSTANTS
  Streaming,  \* SSE clients, which reconnect with their Last-Event-ID
  Direct,     \* consumers of the v1 stream, which cannot resume
  MaxQueue,   \* max_queue of the store
  MaxLog,     \* bound: events of the run
  MaxBreaks   \* bound: disconnections and crashes

ASSUME ClientsAssumption == Streaming \cap Direct = {}
ASSUME QueueAssumption == MaxQueue \in Nat \ {0}
ASSUME BoundAssumption == MaxLog \in Nat /\ MaxBreaks \in Nat

VARIABLES
  log,     \* disk: the kind of each event, in order
  queue,   \* the store's queue of each registered subscription
  at,      \* where each client's subscription is
  after,   \* the subscription's cursor: the last event it yielded
  upto,    \* the last event of the history or of the gap it is yielding
  outbox,  \* yielded by the subscription, not yet received by the client
  seen,    \* the ids the client has received
  breaks   \* environment counter

vars == <<log, queue, at, after, upto, outbox, seen, breaks>>

Clients == Streaming \cup Direct

\* "open": the generator runs; "closing": it broke off at the terminal event;
\* "closed": its queue is unregistered too; "finished": the client saw the end;
\* "dropped": the client is gone and the server has not noticed; "lost": for good.
Place == {"away", "open", "closing", "closed", "finished", "dropped", "lost"}
Kind  == {"telemetry", "business", "terminal"}

\* The events append() never drops for want of room.
Protected == {"business", "terminal"}

-----------------------------------------------------------------------------
IsTerminal(n) == log[n] = "terminal"
Ended == IsTerminal(Len(log))
Registered(c) == at[c] \in {"open", "closing", "dropped"}

\* The Last-Event-ID a client sends, zero when it has none.
LastSeen(c) == IF seen[c] = <<>> THEN 0 ELSE seen[c][Len(seen[c])]

\* What a subscription's queue becomes when event n is fanned out to it: a full
\* queue loses the new event, or, when that is protected, its oldest one.
Offered(q, kind, n) ==
  IF Len(q) < MaxQueue THEN Append(q, n)
  ELSE IF kind \in Protected THEN Append(Tail(q), n)
  ELSE q

\* append(): persist, then fan out.  The publisher stops at the terminal event.
Publish(kind) ==
  /\ ~Ended
  /\ Len(log) < IF kind = "terminal" THEN MaxLog ELSE MaxLog - 1
  /\ log' = Append(log, kind)
  /\ queue' = [c \in Clients |->
                 IF Registered(c) THEN Offered(queue[c], kind, Len(log) + 1) ELSE queue[c]]
  /\ UNCHANGED <<at, after, upto, outbox, seen, breaks>>

\* Variant: a client that has everything is subscribed all the same.
Variant_ConnectAlways(c) ==
  /\ at[c] = "away"
  /\ at' = [at EXCEPT ![c] = "open"]
  /\ after' = [after EXCEPT ![c] = LastSeen(c)]
  /\ upto' = [upto EXCEPT ![c] = Len(log)]
  /\ UNCHANGED <<log, queue, outbox, seen, breaks>>

\* Variant: the cursor is taken from the log's end, so the history is not replayed.
Variant_ConnectNow(c) ==
  /\ at[c] = "away"
  /\ at' = [at EXCEPT ![c] = IF Ended THEN "finished" ELSE "open"]
  /\ after' = [after EXCEPT ![c] = Len(log)]
  /\ upto' = [upto EXCEPT ![c] = Len(log)]
  /\ UNCHANGED <<log, queue, outbox, seen, breaks>>

\* subscribe(): a client that has the terminal event is told so at once; any
\* other is registered first, and then the history past its cursor is read.
Connect(c) ==
  /\ at[c] = "away"
  /\ IF LastSeen(c) >= Len(log) /\ Ended
     THEN at' = [at EXCEPT ![c] = "finished"] /\ UNCHANGED <<after, upto>>
     ELSE /\ at' = [at EXCEPT ![c] = "open"]
          /\ after' = [after EXCEPT ![c] = LastSeen(c)]
          /\ upto' = [upto EXCEPT ![c] = Len(log)]
  /\ UNCHANGED <<log, queue, outbox, seen, breaks>>

\* The v1 generator is not resumed before its consumer took the last event; the
\* SSE producer always has room.
Room(c) == c \in Streaming \/ outbox[c] = <<>>

\* The subscription yields the next event of the history or of the gap, and
\* RunCoordinator.subscribe breaks off after the terminal one.
Yield(c) ==
  /\ at[c] = "open"
  /\ after[c] < upto[c]
  /\ Room(c)
  /\ after' = [after EXCEPT ![c] = @ + 1]
  /\ outbox' = [outbox EXCEPT ![c] = Append(@, after[c] + 1)]
  /\ at' = [at EXCEPT ![c] = IF IsTerminal(after[c] + 1) THEN "closing" ELSE @]
  /\ UNCHANGED <<log, queue, upto, seen, breaks>>

\* Variant: the event is yielded without the ones the queue lost before it.
Variant_TakeOnly(c) ==
  /\ at[c] = "open"
  /\ after[c] = upto[c]
  /\ queue[c] # <<>>
  /\ queue' = [queue EXCEPT ![c] = Tail(@)]
  /\ LET n == Head(queue[c]) IN
     IF n <= after[c] THEN UNCHANGED <<after, upto>>
     ELSE after' = [after EXCEPT ![c] = n - 1] /\ upto' = [upto EXCEPT ![c] = n]
  /\ UNCHANGED <<log, at, outbox, seen, breaks>>

\* The subscription takes the oldest event of its queue: a repeated one is
\* skipped, and one past a gap is yielded after the gap is read from the store.
Take(c) ==
  /\ at[c] = "open"
  /\ after[c] = upto[c]
  /\ queue[c] # <<>>
  /\ queue' = [queue EXCEPT ![c] = Tail(@)]
  /\ upto' = [upto EXCEPT ![c] = IF Head(queue[c]) > @ THEN Head(queue[c]) ELSE @]
  /\ UNCHANGED <<log, at, after, outbox, seen, breaks>>

\* The subscription's finally: the queue is given back.
Unregister(c) ==
  /\ at[c] \in {"closing", "dropped"}
  /\ at' = [at EXCEPT ![c] = IF @ = "closing" THEN "closed"
                             ELSE IF c \in Streaming THEN "away" ELSE "lost"]
  /\ queue' = [queue EXCEPT ![c] = <<>>]
  /\ UNCHANGED <<log, after, upto, outbox, seen, breaks>>

-----------------------------------------------------------------------------
(* The client, its connection, and the process. *)

Connected(c) == at[c] \in {"open", "closing", "closed"}

Receive(c) ==
  /\ Connected(c)
  /\ outbox[c] # <<>>
  /\ seen' = [seen EXCEPT ![c] = Append(@, Head(outbox[c]))]
  /\ outbox' = [outbox EXCEPT ![c] = Tail(@)]
  /\ UNCHANGED <<log, queue, at, after, upto, breaks>>

\* The response ends after everything yielded was sent.
Finish(c) ==
  /\ at[c] = "closed"
  /\ outbox[c] = <<>>
  /\ at' = [at EXCEPT ![c] = "finished"]
  /\ UNCHANGED <<log, queue, after, upto, outbox, seen, breaks>>

\* The client or the network drops the connection with what was in it.  (The
\* model lets an SSE client reconnect after the server has noticed; the queue of
\* a subscription nobody reads any more has no other effect.)
Disconnect(c) ==
  /\ breaks < MaxBreaks
  /\ Connected(c)
  /\ at' = [at EXCEPT ![c] = IF @ # "closed" THEN "dropped"
                             ELSE IF c \in Streaming THEN "away" ELSE "lost"]
  /\ outbox' = [outbox EXCEPT ![c] = <<>>]
  /\ breaks' = breaks + 1
  /\ UNCHANGED <<log, queue, after, upto, seen>>

\* The process dies and is restarted: only the log is left.
Crash ==
  /\ breaks < MaxBreaks
  /\ at' = [c \in Clients |-> IF ~Connected(c) /\ at[c] # "dropped" THEN at[c]
                              ELSE IF c \in Streaming THEN "away" ELSE "lost"]
  /\ queue' = [c \in Clients |-> <<>>]
  /\ outbox' = [c \in Clients |-> <<>>]
  /\ breaks' = breaks + 1
  /\ UNCHANGED <<log, after, upto, seen>>

\* A run's first event, run.accepted, is there before the run can be subscribed.
Init ==
  /\ log = <<"telemetry">>
  /\ queue = [c \in Clients |-> <<>>]
  /\ at = [c \in Clients |-> "away"]
  /\ after = [c \in Clients |-> 0] /\ upto = [c \in Clients |-> 0]
  /\ outbox = [c \in Clients |-> <<>>]
  /\ seen = [c \in Clients |-> <<>>]
  /\ breaks = 0

ServerStep(c) == Yield(c) \/ Take(c) \/ Unregister(c)
ClientStep(c) == Connect(c) \/ Receive(c) \/ Finish(c)

Next ==
  \/ \E kind \in Kind : Publish(kind)
  \/ \E c \in Clients : ServerStep(c) \/ ClientStep(c) \/ Disconnect(c)
  \/ Crash

\* The run ends (RunLifecycle!EveryRunEnds), the loop runs what is ready, and a
\* client reads its connection and, when it is dropped, comes back (the stream's
\* own "retry: 3000" asks it to).
Fairness ==
  /\ WF_vars(Publish("terminal"))
  /\ \A c \in Clients : /\ WF_vars(Yield(c)) /\ WF_vars(Take(c)) /\ WF_vars(Unregister(c))
                        /\ WF_vars(Connect(c)) /\ WF_vars(Receive(c)) /\ WF_vars(Finish(c))

Spec == Init /\ [][Next]_vars
FairSpec == Spec /\ Fairness

-----------------------------------------------------------------------------
(* Properties. *)

\* Every variable keeps its type.
TypeOK ==
  /\ log \in Seq(Kind) /\ log # <<>>
  /\ queue \in [Clients -> Seq(Nat)]
  /\ at \in [Clients -> Place]
  /\ after \in [Clients -> Nat] /\ upto \in [Clients -> Nat]
  /\ outbox \in [Clients -> Seq(Nat)]
  /\ seen \in [Clients -> Seq(Nat)]
  /\ breaks \in Nat

\* A client receives the run's events in order, from the first on, none twice
\* and none left out, whatever its queue dropped or evicted and however often it
\* had to reconnect.
DeliversInOrder == \A c \in Clients : \A i \in DOMAIN seen[c] : seen[c][i] = i

\* The end of the run, or of a check, never passes a subscription by: until it is
\* yielded it lies in what the subscription is yielding, or a queued event will
\* make the subscription read it from the store.
ProtectedWithinReach ==
  \A c \in Clients : at[c] = "open" =>
    \A n \in DOMAIN log : log[n] \in Protected /\ n > upto[c] =>
      queue[c] # <<>> /\ queue[c][Len(queue[c])] >= n

-----------------------------------------------------------------------------
(* What makes these inductive. *)

\* A subscription's cursor runs behind what it reads, and both behind the log;
\* what it yielded since it was opened is what the client has or will receive.
CursorInv ==
  \A c \in Clients : Connected(c) =>
    /\ after[c] <= upto[c] /\ upto[c] <= Len(log)
    /\ after[c] = Len(seen[c]) + Len(outbox[c])

\* What is under way to a client continues what it has received.
OutboxInv ==
  \A c \in Clients :
    /\ \A i \in DOMAIN outbox[c] : outbox[c][i] = Len(seen[c]) + i
    /\ Connected(c) \/ outbox[c] = <<>>
    /\ Len(seen[c]) <= Len(log)

\* Queued events are in the log, and a queue never exceeds its bound.
QueueInv ==
  \A c \in Clients :
    /\ Len(queue[c]) <= MaxQueue
    /\ \A i \in DOMAIN queue[c] : queue[c][i] <= Len(log)

IInv == TypeOK /\ CursorInv /\ OutboxInv /\ QueueInv /\ DeliversInOrder /\ ProtectedWithinReach

-----------------------------------------------------------------------------
(* The reliable feed, and when streams end. *)

Lost == {c \in Clients : at[c] = "lost"}
Feed == INSTANCE ReliableFeed WITH Leavers <- Direct, left <- Lost

\* The store and its subscriptions implement the reliable feed: telemetry that a
\* full queue dropped is delivered too, at the latest when the run ends.
DeliversTheLog == Feed!Spec

\* Once the run has ended every client's stream ends, a reconnecting one's too.
EveryStreamEnds == \A c \in Clients : Ended ~> at[c] \in {"finished", "lost"}
=============================================================================
