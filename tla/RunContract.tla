---------------------------- MODULE RunContract -----------------------------
(***************************************************************************)
(* What a Run promises to the client that created it: it is accepted, it   *)
(* may run, and it ends once, with one outcome that never changes again.   *)
(***************************************************************************)
CONSTANT Runs

VARIABLE status

Outcome == {"completed", "partial", "failed", "cancelled"}

Init == status = [r \in Runs |-> "none"]

Accept(r) == status[r] = "none" /\ status' = [status EXCEPT ![r] = "accepted"]
Begin(r)  == status[r] = "accepted" /\ status' = [status EXCEPT ![r] = "running"]

\* A run may be cancelled before it begins.
End(r) ==
  \/ /\ status[r] = "running"
     /\ \E outcome \in Outcome : status' = [status EXCEPT ![r] = outcome]
  \/ status[r] = "accepted" /\ status' = [status EXCEPT ![r] = "cancelled"]

Next == \E r \in Runs : Accept(r) \/ Begin(r) \/ End(r)

\* Every accepted run ends: End stays enabled from acceptance on.
Fairness == \A r \in Runs : WF_status(End(r))

Spec == Init /\ [][Next]_status /\ Fairness
=============================================================================
