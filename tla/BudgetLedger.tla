---- MODULE BudgetLedger ----
\* The resource ledger that every agent of a run shares (orchestration/base.py,
\* BudgetLedger): claims on counted resources, reservations of tokens made
\* before a model call is dispatched and settled after it, the number of calls
\* under way, and the deadline.  Every method of the class does its work under
\* one asyncio.Lock without suspending, so each is one operator here and the
\* module that uses the ledger makes an action of it.
EXTENDS Integers, FiniteSets

CONSTANTS
  Calls,             \* the model calls of the run that can be under way at once
  MaxTokens,         \* max_input_tokens, max_output_tokens
  MaxTotal,          \* max_total_tokens
  MaxRequests,       \* max_llm_requests
  MaxConcurrency,    \* max_concurrency
  MaxClaims,         \* the limit of each counted resource
  Enforced           \* enforce_token_budget

Side == {"input", "output"}
Resource == {"tool", "snapshot", "schema", "repair"}

\* The bounds that RunBudget validates.
ASSUME BudgetAssumption ==
  /\ IsFiniteSet(Calls)
  /\ MaxTokens \in [Side -> Nat \ {0}]
  /\ MaxTotal \in Nat \ {0}
  /\ MaxTotal <= MaxTokens["input"] + MaxTokens["output"]
  /\ MaxRequests \in Nat \ {0}
  /\ MaxConcurrency \in Nat \ {0}
  /\ MaxClaims \in [Resource -> Nat]
  /\ Enforced \in BOOLEAN

VARIABLES
  claimed,        \* _tool_calls, _snapshot_reads, _schema_retries, _repair_rounds
  requests,       \* _llm_requests
  successful,     \* _successful_llm_requests
  metered,        \* _provider_usage_requests
  unknown,        \* _unknown_usage_requests
  recorded,       \* _input_tokens, _output_tokens
  unreported,     \* _unreported_input_tokens, _unreported_output_tokens
  held,           \* _reserved_input_tokens, _reserved_output_tokens
  reservations,   \* _reservations: the calls that own one
  hold,           \* the tokens of each reservation
  active,         \* _active_operations
  peak,           \* _peak_concurrency
  reason,         \* _exhausted_reason
  late            \* the clock is past _deadline

ledger == <<claimed, requests, successful, metered, unknown, recorded, unreported,
            held, reservations, hold, active, peak, reason, late>>

Nothing == [s \in Side |-> 0]
Plus(x, y) == [s \in Side |-> x[s] + y[s]]
Minus(x, y) == [s \in Side |-> x[s] - y[s]]

Shortfall(x, y) == [s \in Side |-> IF x[s] > y[s] THEN x[s] - y[s] ELSE 0]
Both(x) == x["input"] + x["output"]
Smaller(x, y) == IF x < y THEN x ELSE y

\* Variant: the tokens of a call whose usage never came are free again.
Variant_CommittedSeen == [s \in Side |-> recorded[s] + held[s]]

\* Tokens that are spent, may have been spent, or are promised to a call.
Committed == [s \in Side |-> recorded[s] + held[s] + unreported[s]]

Exceeded(x) == (\E s \in Side : x[s] > MaxTokens[s]) \/ Both(x) > MaxTotal

\* Variant: the reason of an earlier refusal is not looked at.
Variant_AvailableInTime == ~late

Available == ~late /\ reason = "none"

----
\* A read of the snapshot is a tool call too.
Charges(r) == IF r = "snapshot" THEN {"snapshot", "tool"} ELSE {r}

Spent(r) == \E q \in Charges(r) : claimed[q] >= MaxClaims[q]

\* claim_tool_call, claim_snapshot_read, claim_schema_retry, claim_repair_round.
GrantClaim(r) ==
  /\ Available /\ ~Spent(r)
  /\ claimed' = [q \in Resource |-> IF q \in Charges(r) THEN claimed[q] + 1 ELSE claimed[q]]
  /\ UNCHANGED <<requests, successful, metered, unknown, recorded, unreported, held,
                 reservations, hold, active, peak, reason, late>>

\* What a refusal writes down: the deadline each time, a limit the first time
\* it is hit, nothing when the ledger is already exhausted.
NoteRefusal(limitHit) ==
  /\ \/ late /\ reason' = "deadline"
     \/ Available /\ limitHit /\ reason' = "budget"
  /\ UNCHANGED <<claimed, requests, successful, metered, unknown, recorded, unreported,
                 held, reservations, hold, active, peak, late>>

----
\* reserve_llm_request.  The output allowance shrinks to what the limits leave.
Allowance(estimate, ask) ==
  IF Enforced
  THEN Smaller(ask, Smaller(MaxTokens["output"] - Committed["output"],
                            MaxTotal - Both(Committed) - estimate))
  ELSE ask

TokensShort(estimate, ask) ==
  Enforced /\ \/ Committed["input"] + estimate > MaxTokens["input"]
              \/ Allowance(estimate, ask) < 1

OutOfBudget(estimate, ask) == requests >= MaxRequests \/ TokensShort(estimate, ask)

Reservation(estimate, ask) ==
  [s \in Side |-> IF s = "input" THEN estimate ELSE Allowance(estimate, ask)]

Reserve(c, estimate, ask) ==
  /\ Available /\ ~OutOfBudget(estimate, ask)
  /\ reservations' = reservations \union {c}
  /\ hold' = [hold EXCEPT ![c] = Reservation(estimate, ask)]
  /\ held' = Plus(held, Reservation(estimate, ask))
  /\ requests' = requests + 1

\* operation_slot, on the way in: the deadline may pass since the reservation.
EnterSlot ==
  /\ active < MaxConcurrency
  /\ active' = active + 1
  /\ peak' = IF active' > peak THEN active' ELSE peak
  /\ UNCHANGED <<reason, late>>

RefuseSlot ==
  /\ UNCHANGED <<active, peak>>
  /\ \/ active >= MaxConcurrency /\ UNCHANGED <<reason, late>>
     \/ late' = TRUE /\ reason' = "deadline"

----
\* Variant: the reservation goes, its tokens stay in the total.
Variant_KeepHeld(c) ==
  /\ c \in reservations
  /\ reservations' = reservations \ {c}
  /\ hold' = [hold EXCEPT ![c] = Nothing]
  /\ held' = held

RemoveReservation(c) ==
  /\ c \in reservations
  /\ reservations' = reservations \ {c}
  /\ hold' = [hold EXCEPT ![c] = Nothing]
  /\ held' = Minus(held, hold[c])

\* release_llm_request: the request never left.
Release(c) ==
  /\ RemoveReservation(c)
  /\ requests' = requests - 1
  /\ UNCHANGED <<claimed, successful, metered, unknown, recorded, unreported, active,
                 peak, reason, late>>

\* Enforcement off: a success without usage is settled at its reservation.
SettledAtReservation(known, succeeded) == ~known /\ succeeded /\ ~Enforced

CountIf(b) == IF b THEN 1 ELSE 0

\* Variant: reported usage is taken as final, also that of a broken call.
Variant_RemainderIfUnmetered(metersIt, succeeded) == ~metersIt

\* Some usage of the call stays unseen, so the rest of its reservation is held.
LeavesRemainder(metersIt, succeeded) == ~metersIt \/ ~succeeded

\* Variant: the output side is not checked.
Variant_VerdictOnInput(x) ==
  IF Enforced /\ x["input"] > MaxTokens["input"] THEN "budget"
  ELSE IF late THEN "deadline" ELSE reason

\* _check_recorded_usage: what it leaves as the reason.
Verdict(x) == IF Enforced /\ Exceeded(x) THEN "budget"
              ELSE IF late THEN "deadline" ELSE reason

\* complete_llm_request with the usage that was seen.
Complete(c, seen, known, succeeded) ==
  LET deemed == SettledAtReservation(known, succeeded)
      metersIt == known \/ deemed
      observed == IF deemed THEN hold[c] ELSE seen
      open == LeavesRemainder(metersIt, succeeded)
  IN  /\ RemoveReservation(c)
      /\ successful' = successful + CountIf(succeeded \/ metersIt)
      /\ metered' = metered + CountIf(metersIt)
      /\ recorded' = Plus(recorded, observed)
      /\ unknown' = unknown + CountIf(open)
      /\ unreported' = IF open THEN Plus(unreported, Shortfall(hold[c], observed))
                       ELSE unreported
      /\ reason' = Verdict(recorded')
      /\ UNCHANGED <<claimed, requests, active, peak, late>>

\* error_details: "provider_usage_complete".
UsageComplete == metered = requests /\ unknown = 0 /\ reservations = {}

InitLedger ==
  /\ claimed = [r \in Resource |-> 0]
  /\ requests = 0 /\ successful = 0 /\ metered = 0 /\ unknown = 0
  /\ recorded = Nothing /\ unreported = Nothing /\ held = Nothing
  /\ reservations = {} /\ hold = [c \in Calls |-> Nothing]
  /\ active = 0 /\ peak = 0 /\ reason = "none" /\ late = FALSE
====
