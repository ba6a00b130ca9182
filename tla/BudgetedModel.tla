---- MODULE BudgetedModel ----
\* Model calls made through the accounting proxy (orchestration/budgeted_model.py,
\* BudgetedModel) by the agents of one run, which share its BudgetLedger.  A call
\* reserves, takes an operation slot, is dispatched, comes to an end, gives the
\* slot back and, in a task of its own that cancellation cannot reach, settles
\* its reservation with the usage it saw.  Other agents run at every await: while
\* the provider works, and between the slot and the settlement.
EXTENDS BudgetLedger

CONSTANTS
  Estimates,    \* input estimates a request can have
  Asks,         \* output allowances a request can ask for
  Overshoot     \* how far the provider may go past a reservation; 0: never

ASSUME CallAssumption ==
  /\ Estimates \subseteq Nat
  /\ Asks \subseteq Nat \ {0}
  /\ Overshoot \in Nat

VARIABLES
  at,        \* [Calls -> {"idle", "running", "settling", "interrupted"}]
  usage,     \* _CallUsage of each call
  charge,    \* what the provider charges for a call that is not settled yet
  charged    \* what it has charged for the calls that are settled

calls == <<at, usage, charge, charged>>
vars == <<ledger, calls>>

Fresh == [dispatched |-> FALSE, succeeded |-> FALSE, known |-> FALSE, seen |-> Nothing]

Running == {c \in Calls : at[c] = "running"}

----
\* The deadline passes.
Tick ==
  /\ ~late /\ late' = TRUE
  /\ UNCHANGED <<claimed, requests, successful, metered, unknown, recorded, unreported,
                 held, reservations, hold, active, peak, reason, calls>>

\* An agent claims a counted resource, or is refused.
Claim(r) == (GrantClaim(r) \/ NoteRefusal(Spent(r))) /\ UNCHANGED calls

\* _accounted_call is refused a reservation.
Refused(c, estimate, ask) ==
  /\ at[c] = "idle"
  /\ NoteRefusal(OutOfBudget(estimate, ask))
  /\ UNCHANGED calls

\* It gets one, and a slot: the request goes out.
Dispatch(c, estimate, ask) ==
  /\ at[c] = "idle"
  /\ Reserve(c, estimate, ask) /\ EnterSlot
  /\ at' = [at EXCEPT ![c] = "running"]
  /\ usage' = [usage EXCEPT ![c].dispatched = TRUE]
  /\ UNCHANGED <<claimed, successful, metered, unknown, recorded, unreported,
                 charge, charged>>

\* It gets one and no slot: nothing was sent, and the reservation is to be released.
Decline(c, estimate, ask) ==
  /\ at[c] = "idle"
  /\ Reserve(c, estimate, ask) /\ RefuseSlot
  /\ at' = [at EXCEPT ![c] = "settling"]
  /\ UNCHANGED <<claimed, successful, metered, unknown, recorded, unreported,
                 usage, charge, charged>>

\* The slot is given back on every way out of the call.
LeaveSlot(c) ==
  /\ at[c] = "running"
  /\ active' = active - 1
  /\ at' = [at EXCEPT ![c] = "settling"]
  /\ UNCHANGED <<claimed, requests, successful, metered, unknown, recorded, unreported,
                 held, reservations, hold, peak, reason, late, charged>>

\* Usage the provider may charge for the call.
Chargeable(c) ==
  {x \in [Side -> 0 .. Both(hold[c]) + Overshoot] :
     \A s \in Side : x[s] <= hold[c][s] + Overshoot}

\* A report of usage is known when it carries both sides; a side it lacks counts 0.
Reports(x, exact) ==
  {y \in [seen : [Side -> 0 .. Both(x)], known : BOOLEAN] :
     /\ \A s \in Side : y.seen[s] <= x[s]
     /\ y.known /\ exact => y.seen = x
     /\ ~y.known => \E s \in Side : y.seen[s] = 0}

\* The response, or the end of the stream: usage it carries is what was charged.
Return(c) ==
  /\ LeaveSlot(c)
  /\ \E x \in Chargeable(c) : \E y \in Reports(x, TRUE) :
       /\ charge' = [charge EXCEPT ![c] = x]
       /\ usage' = [usage EXCEPT ![c] = [dispatched |-> TRUE, succeeded |-> TRUE,
                                         known |-> y.known, seen |-> y.seen]]

\* An error, a timeout, a cancellation, a consumer that closes the stream: what
\* was seen is a lower bound on what was charged.
Break(c) ==
  /\ LeaveSlot(c)
  /\ \E x \in Chargeable(c) : \E y \in Reports(x, FALSE) :
       /\ charge' = [charge EXCEPT ![c] = x]
       /\ usage' = [usage EXCEPT ![c] = [dispatched |-> TRUE, succeeded |-> FALSE,
                                         known |-> y.known, seen |-> y.seen]]

\* Variant: the settlement is not shielded from the cancellation.
Variant_CancelUnshielded(c) ==
  /\ at[c] = "settling"
  /\ at' = [at EXCEPT ![c] = "idle"]
  /\ usage' = [usage EXCEPT ![c] = Fresh]
  /\ UNCHANGED <<ledger, charge, charged>>

\* A cancellation that arrives while the call waits for its settlement.
CancelSettling(c) ==
  /\ at[c] = "settling"
  /\ at' = [at EXCEPT ![c] = "interrupted"]
  /\ UNCHANGED <<ledger, usage, charge, charged>>

\* _finish: the task that settles.
Settle(c) ==
  /\ at[c] \in {"settling", "interrupted"}
  /\ IF usage[c].dispatched
     THEN Complete(c, usage[c].seen, usage[c].known, usage[c].succeeded)
     ELSE Release(c)
  /\ at' = [at EXCEPT ![c] = "idle"]
  /\ usage' = [usage EXCEPT ![c] = Fresh]
  /\ charged' = Plus(charged, charge[c])
  /\ charge' = [charge EXCEPT ![c] = Nothing]

Init ==
  /\ InitLedger
  /\ at = [c \in Calls |-> "idle"]
  /\ usage = [c \in Calls |-> Fresh]
  /\ charge = [c \in Calls |-> Nothing]
  /\ charged = Nothing

Request(c) ==
  \E estimate \in Estimates, ask \in Asks :
    Refused(c, estimate, ask) \/ Dispatch(c, estimate, ask) \/ Decline(c, estimate, ask)

Next ==
  \/ Tick
  \/ \E r \in Resource : Claim(r)
  \/ \E c \in Calls :
       Request(c) \/ Return(c) \/ Break(c) \/ CancelSettling(c) \/ Settle(c)

Spec == Init /\ [][Next]_vars

\* The deadline comes; asyncio.timeout then ends a call that is still out; the
\* event loop runs the task that settles.
FairSpec ==
  /\ Spec
  /\ WF_vars(Tick)
  /\ \A c \in Calls : WF_vars(late /\ Break(c)) /\ WF_vars(Settle(c))

----
\* The sum of f[c], counted in unary so that it can be reasoned about.
Total(f) == Cardinality(UNION {{c} \X (1 .. f[c]) : c \in Calls})

HoldOf(s) == [c \in Calls |-> hold[c][s]]
ChargeOf(s) == [c \in Calls |-> charge[c][s]]

\* What the provider has charged so far, settled or not.
Spending == [s \in Side |-> charged[s] + Total(ChargeOf(s))]

Tokens == [Side -> Nat]

\* Every variable keeps its type: no counter the ledger publishes goes below the
\* zero that BudgetUsageSnapshot validates each time an error is raised.
TypeOK ==
  /\ claimed \in [Resource -> Nat]
  /\ requests \in Nat /\ successful \in Nat /\ metered \in Nat /\ unknown \in Nat
  /\ recorded \in Tokens /\ unreported \in Tokens /\ held \in Tokens
  /\ reservations \subseteq Calls
  /\ hold \in [Calls -> Tokens]
  /\ active \in Nat /\ peak \in Nat
  /\ reason \in {"none", "budget", "deadline"}
  /\ late \in BOOLEAN
  /\ at \in [Calls -> {"idle", "running", "settling", "interrupted"}]
  /\ usage \in [Calls -> [dispatched : BOOLEAN, succeeded : BOOLEAN, known : BOOLEAN,
                          seen : Tokens]]
  /\ charge \in [Calls -> Tokens]
  /\ charged \in Tokens

\* The ledger's totals are the sums of what the calls own, whatever order the
\* calls reserve, fail, are cancelled and settle in: the held tokens are those
\* of the open reservations, the active operations are the calls under way.
LedgerBalances ==
  /\ \A s \in Side : held[s] = Total(HoldOf(s))
  /\ reservations = {c \in Calls : at[c] # "idle"}
  /\ active = Cardinality(Running)
  /\ peak <= MaxConcurrency

\* With enforcement on and a provider that respects the allowance, what it
\* charges stays within the budget, calls that failed without a report included.
SpendingWithinBudget == ~Exceeded(Spending)

\* A settled call is never forgotten: what the provider charged is recorded, or
\* held as unreported to the end of the run.
NoFreeTokens == \A s \in Side : charged[s] <= recorded[s] + unreported[s]

\* When the ledger reports its usage as complete, the tokens it recorded are the
\* tokens that were charged.
CompleteUsageIsReal == UsageComplete => recorded = charged

\* A provider that overshoots is noticed at the settlement: a run past its
\* limits is exhausted.
OvershootIsNoticed == Enforced /\ Exceeded(recorded) => reason # "none"

\* Once exhausted, the ledger stays exhausted: it grants no claim and no
\* reservation any more, and only settles those it gave out.
ExhaustionIsFinal ==
  [][reason # "none" =>
       /\ reason' # "none"
       /\ claimed' = claimed
       /\ reservations' \subseteq reservations]_vars

\* A call that reserved ends with its reservation settled, also when it is
\* cancelled twice or its provider never answers.
EveryCallSettles == \A c \in Calls : c \in reservations ~> c \notin reservations

----
\* The inductive invariant behind the safety properties.

\* What is true of one call: it owns a reservation exactly while it is open, it
\* leaves nothing behind, an unsent request was not charged, usage is never seen
\* that was not charged, and the full report of a success is exact.
CallInv(c) ==
  /\ c \in reservations <=> at[c] # "idle"
  /\ at[c] = "idle" => hold[c] = Nothing /\ usage[c] = Fresh
  /\ ~usage[c].dispatched => charge[c] = Nothing
  /\ \A s \in Side : usage[c].seen[s] <= charge[c][s]
  /\ \A s \in Side : charge[c][s] <= hold[c][s] + Overshoot
  /\ usage[c].known /\ usage[c].succeeded => usage[c].seen = charge[c]

\* The totals against the calls.
TotalsInv ==
  /\ \A s \in Side : held[s] = Total(HoldOf(s))
  /\ active = Cardinality(Running)
  /\ active <= MaxConcurrency
  /\ peak <= MaxConcurrency
  /\ metered + Cardinality(reservations) <= requests

\* The tokens: what is committed covers what was charged, and respects the
\* limits; when every settled call was metered in full, the record is exact.
TokensInv ==
  /\ Overshoot = 0 => NoFreeTokens
  /\ Overshoot = 0 /\ Enforced => ~Exceeded(Committed)
  /\ Enforced /\ unknown = 0 /\ metered + Cardinality(reservations) = requests
       => recorded = charged
  /\ OvershootIsNoticed

IInv == TypeOK /\ (\A c \in Calls : CallInv(c)) /\ TotalsInv /\ TokensInv
====
