---------------------------- MODULE ReliableFeed ----------------------------
(***************************************************************************)
(* What the event stream of a Run promises: every subscriber is handed the *)
(* events of the log one by one, in order, none twice and none left out,   *)
(* up to the terminal event that closes the log.                           *)
(***************************************************************************)
EXTENDS Naturals, Sequences

CONSTANTS
  Clients,   \* subscribers
  Leavers    \* subscribers that may give up for good

VARIABLES log, seen, left

feed == <<log, seen, left>>

Closed == log # <<>> /\ log[Len(log)] = "terminal"

Init ==
  /\ log = <<"telemetry">>
  /\ seen = [c \in Clients |-> <<>>]
  /\ left = {}

Publish(kind) == ~Closed /\ log' = Append(log, kind) /\ UNCHANGED <<seen, left>>

Deliver(c) ==
  /\ c \notin left
  /\ Len(seen[c]) < Len(log)
  /\ seen' = [seen EXCEPT ![c] = Append(@, Len(@) + 1)]
  /\ UNCHANGED <<log, left>>

Leave(gone) ==
  /\ gone \subseteq Leavers
  /\ left' = left \cup gone
  /\ UNCHANGED <<log, seen>>

Next ==
  \/ \E kind \in {"telemetry", "business", "terminal"} : Publish(kind)
  \/ \E c \in Clients : Deliver(c)
  \/ \E gone \in SUBSET Leavers : Leave(gone)

Safety == Init /\ [][Next]_feed
Spec   == Safety /\ \A c \in Clients : WF_feed(Deliver(c))
=============================================================================
