------------------------- MODULE BudgetedModel_proofs -------------------------
(***************************************************************************)
(* Proofs about BudgetedModel for every set of calls, every budget and     *)
(* every provider.                                                         *)
(***************************************************************************)
EXTENDS BudgetedModel, FiniteSetTheorems, TLAPS

-----------------------------------------------------------------------------
(* Sums over the calls, counted in unary. *)

\* The units that Total counts, and those of one call.
Units(f) == UNION {{c} \X (1 .. f[c]) : c \in Calls}
UnitsOf(f, c) == {c} \X (1 .. f[c])

\* One call contributes its own amount.
LEMMA PartSize ==
  ASSUME NEW f \in [Calls -> Nat], NEW c \in Calls
  PROVE  IsFiniteSet(UnitsOf(f, c)) /\ Cardinality(UnitsOf(f, c)) = f[c]
<1>1. f[c] \in Nat
  OBVIOUS
<1>2. IsFiniteSet(1 .. f[c]) /\ Cardinality(1 .. f[c]) = f[c]
  <2>1. IsFiniteSet(1 .. f[c]) /\ Cardinality(1 .. f[c]) = IF 1 > f[c] THEN 0 ELSE f[c] - 1 + 1
    BY <1>1, FS_Interval
  <2> QED  BY <1>1, <2>1
<1>3. IsFiniteSet({c}) /\ Cardinality({c}) = 1
  BY FS_Singleton
<1>4. /\ IsFiniteSet({c} \X (1 .. f[c]))
      /\ Cardinality({c} \X (1 .. f[c])) = Cardinality({c}) * Cardinality(1 .. f[c])
  BY <1>2, <1>3, FS_Product
<1> QED  BY <1>1, <1>2, <1>3, <1>4 DEF UnitsOf

\* There are finitely many units.
LEMMA FiniteUnits ==
  ASSUME NEW f \in [Calls -> Nat]
  PROVE  IsFiniteSet(Units(f)) /\ Total(f) \in Nat /\ Total(f) = Cardinality(Units(f))
<1> DEFINE F == [c \in Calls |-> UnitsOf(f, c)]
           T == {UnitsOf(f, c) : c \in Calls}
<1>1. F \in Surjection(Calls, T)
  <2>1. F \in [Calls -> T]
    OBVIOUS
  <2>2. \A t \in T : \E c \in Calls : F[c] = t
    OBVIOUS
  <2> QED  BY <2>1, <2>2 DEF Surjection
<1>2. IsFiniteSet(Calls)
  BY BudgetAssumption DEF BudgetAssumption
<1> HIDE DEF F
<1>3. IsFiniteSet(T)
  <2> HIDE DEF T
  <2> QED  BY <1>1, <1>2, FS_Surjection
<1>4. \A t \in T : IsFiniteSet(t)
  BY PartSize
<1>5. IsFiniteSet(UNION T)
  <2> HIDE DEF T
  <2> QED  BY <1>3, <1>4, FS_UNION
<1>6. UNION T = Units(f)
  BY DEF Units, UnitsOf
<1>7. IsFiniteSet(Units(f))
  BY <1>5, <1>6
<1>8. Cardinality(Units(f)) \in Nat
  BY <1>7, FS_CardinalityType
<1> QED  BY <1>7, <1>8 DEF Units, Total

\* A sum of smaller amounts is not larger.
LEMMA TotalMonotone ==
  ASSUME NEW f \in [Calls -> Nat], NEW g \in [Calls -> Nat], \A c \in Calls : f[c] <= g[c]
  PROVE  Total(f) <= Total(g)
<1>1. Units(f) \subseteq Units(g)
  <2> SUFFICES ASSUME NEW u \in Units(f) PROVE u \in Units(g)
    OBVIOUS
  <2>1. PICK c \in Calls : u \in {c} \X (1 .. f[c])
    BY DEF Units
  <2>2. f[c] \in Nat /\ g[c] \in Nat /\ f[c] <= g[c]
    OBVIOUS
  <2>3. 1 .. f[c] \subseteq 1 .. g[c]
    BY <2>2
  <2>4. u \in {c} \X (1 .. g[c])
    BY <2>1, <2>3
  <2> QED  BY <2>4 DEF Units
<1>2. IsFiniteSet(Units(g))
  BY FiniteUnits
<1>3. Cardinality(Units(f)) <= Cardinality(Units(g))
  BY <1>1, <1>2, FS_Subset
<1> QED  BY <1>3, FiniteUnits

\* The units of the other calls.
Others(f, c) == UNION {UnitsOf(f, d) : d \in Calls \ {c}}

\* The sum is what one call contributes and what the others do.
LEMMA TotalSplit ==
  ASSUME NEW f \in [Calls -> Nat], NEW c \in Calls
  PROVE  Cardinality(Others(f, c)) \in Nat /\ Total(f) = Cardinality(Others(f, c)) + f[c]
<1>1. Units(f) = Others(f, c) \union UnitsOf(f, c)
  BY DEF Units, Others, UnitsOf
<1>2. Others(f, c) \intersect UnitsOf(f, c) = {}
  BY DEF Others, UnitsOf
<1>3. IsFiniteSet(UnitsOf(f, c)) /\ Cardinality(UnitsOf(f, c)) = f[c]
  BY PartSize
<1>4. IsFiniteSet(Others(f, c))
  <2>1. Others(f, c) \subseteq Units(f)
    BY <1>1
  <2> QED  BY <2>1, FiniteUnits, FS_Subset
<1>5. Cardinality(Others(f, c)) \in Nat
  BY <1>4, FS_CardinalityType
<1>6. Cardinality(Others(f, c) \union UnitsOf(f, c))
        = Cardinality(Others(f, c)) + Cardinality(UnitsOf(f, c))
            - Cardinality(Others(f, c) \intersect UnitsOf(f, c))
  BY <1>3, <1>4, FS_Union
<1>7. Cardinality(Others(f, c) \intersect UnitsOf(f, c)) = 0
  BY <1>2, FS_EmptySet
<1>8. f[c] \in Nat
  OBVIOUS
<1>9. Total(f) = Cardinality(Others(f, c) \union UnitsOf(f, c))
  BY <1>1, FiniteUnits
<1>10. Total(f) = Cardinality(Others(f, c)) + f[c] - 0
  BY <1>3, <1>6, <1>7, <1>9
<1> QED  BY <1>5, <1>8, <1>10

\* Changing one call's amount changes the sum by the difference.
LEMMA TotalChange ==
  ASSUME NEW f \in [Calls -> Nat], NEW g \in [Calls -> Nat], NEW c \in Calls,
         \A d \in Calls \ {c} : g[d] = f[d]
  PROVE  Total(g) = Total(f) - f[c] + g[c]
<1>1. Others(g, c) = Others(f, c)
  BY DEF Others, UnitsOf
<1>2. Cardinality(Others(f, c)) \in Nat /\ Total(f) = Cardinality(Others(f, c)) + f[c]
  BY TotalSplit
<1>3. Cardinality(Others(g, c)) \in Nat /\ Total(g) = Cardinality(Others(g, c)) + g[c]
  BY TotalSplit
<1>4. f[c] \in Nat /\ g[c] \in Nat
  OBVIOUS
<1> QED  BY <1>1, <1>2, <1>3, <1>4

\* Nobody owns anything: the sum is zero.
LEMMA TotalOfNothing ==
  ASSUME NEW f \in [Calls -> Nat], \A c \in Calls : f[c] = 0
  PROVE  Total(f) = 0
<1>1. Units(f) = {}
  BY DEF Units
<1> QED  BY <1>1, FS_EmptySet, FiniteUnits
-----------------------------------------------------------------------------
(* Facts about a state. *)

\* The values that the sums range over, and the committed tokens, are naturals.
LEMMA Values ==
  ASSUME TypeOK
  PROVE  /\ \A s \in Side : HoldOf(s) \in [Calls -> Nat] /\ ChargeOf(s) \in [Calls -> Nat]
         /\ Committed \in Tokens
         /\ IsFiniteSet(reservations) /\ Cardinality(reservations) \in Nat
         /\ IsFiniteSet(Running) /\ Cardinality(Running) \in Nat
<1>1. \A s \in Side : HoldOf(s) \in [Calls -> Nat] /\ ChargeOf(s) \in [Calls -> Nat]
  BY DEF TypeOK, Tokens, HoldOf, ChargeOf
<1>2. Committed \in Tokens
  BY DEF TypeOK, Tokens, Committed
<1>3. IsFiniteSet(Calls)
  BY BudgetAssumption DEF BudgetAssumption
<1>4. IsFiniteSet(reservations) /\ IsFiniteSet(Running)
  <2>1. reservations \in SUBSET Calls /\ Running \in SUBSET Calls
    BY DEF TypeOK, Running
  <2> QED  BY <1>3, <2>1, FS_Subset
<1> QED  BY <1>1, <1>2, <1>4, FS_CardinalityType

\* Nobody has a call, nothing is spent.
LEMMA InitInv == Init => IInv
<1> SUFFICES ASSUME Init PROVE IInv
  OBVIOUS
<1> USE DEF Init, InitLedger
<1>1. TypeOK
  BY DEF TypeOK, Tokens, Nothing, Fresh
<1>2. \A c \in Calls : CallInv(c)
  BY CallAssumption DEF CallAssumption, CallInv, Fresh, Nothing
<1>3. TotalsInv
  <2>1. \A s \in Side : held[s] = Total(HoldOf(s))
    <3> SUFFICES ASSUME NEW s \in Side PROVE held[s] = Total(HoldOf(s))
      OBVIOUS
    <3>1. HoldOf(s) \in [Calls -> Nat]
      BY <1>1, Values
    <3>2. \A c \in Calls : HoldOf(s)[c] = 0
      BY DEF HoldOf, Nothing
    <3>3. Total(HoldOf(s)) = 0
      BY <3>1, <3>2, TotalOfNothing
    <3> QED  BY <3>3 DEF Nothing
  <2>2. Running = {}
    BY DEF Running
  <2>3. Cardinality(Running) = 0 /\ Cardinality(reservations) = 0
    BY <2>2, FS_EmptySet
  <2> QED  BY <2>1, <2>3, BudgetAssumption DEF TotalsInv, BudgetAssumption
<1>4. TokensInv
  <2>1. NoFreeTokens
    BY DEF NoFreeTokens, Nothing
  <2>2. ~Exceeded(Committed)
    BY BudgetAssumption DEF BudgetAssumption, Exceeded, Committed, Nothing, Side, Both
  <2>3. OvershootIsNoticed
    BY BudgetAssumption
    DEF BudgetAssumption, OvershootIsNoticed, Exceeded, Nothing, Side, Both
  <2> QED  BY <2>1, <2>2, <2>3 DEF TokensInv
<1> QED  BY <1>1, <1>2, <1>3, <1>4 DEF IInv

-----------------------------------------------------------------------------
(* The two halves of a reservation's life. *)

\* A granted reservation is a vector of tokens within the limits.
LEMMA Granted ==
  ASSUME TypeOK, NEW estimate \in Estimates, NEW ask \in Asks, ~OutOfBudget(estimate, ask)
  PROVE  /\ Reservation(estimate, ask) \in Tokens
         /\ Enforced => /\ Committed["input"] + estimate <= MaxTokens["input"]
                        /\ Committed["output"] + Allowance(estimate, ask) <= MaxTokens["output"]
                        /\ Both(Committed) + estimate + Allowance(estimate, ask) <= MaxTotal
<1>1. estimate \in Nat /\ ask \in Nat \ {0}
  BY CallAssumption DEF CallAssumption
<1>2. Committed["input"] \in Nat /\ Committed["output"] \in Nat
  BY Values DEF Tokens, Side
<1>3. /\ MaxTokens["input"] \in Nat /\ MaxTokens["output"] \in Nat /\ MaxTotal \in Nat
      /\ Enforced \in BOOLEAN
  BY BudgetAssumption DEF BudgetAssumption, Side
<1> HIDE DEF Committed
<1>4. CASE ~Enforced
  BY <1>1, <1>4 DEF Reservation, Allowance, Tokens, Side
<1>5. CASE Enforced
  <2>1. ~(Allowance(estimate, ask) < 1) /\ ~(Committed["input"] + estimate > MaxTokens["input"])
    BY <1>5 DEF OutOfBudget, TokensShort
  <2>2. /\ Allowance(estimate, ask) \in Int
        /\ Allowance(estimate, ask) <= MaxTokens["output"] - Committed["output"]
        /\ Allowance(estimate, ask) <= MaxTotal - Both(Committed) - estimate
    BY <1>1, <1>2, <1>3, <1>5 DEF Allowance, Smaller, Both
  <2>3. Reservation(estimate, ask) \in Tokens
    BY <1>1, <2>1, <2>2 DEF Reservation, Tokens, Side
  <2> QED  BY <1>1, <1>2, <1>3, <2>1, <2>2, <2>3 DEF Both
<1> QED  BY <1>3, <1>4, <1>5

\* Making a reservation keeps the totals in step with the calls.
LEMMA ReserveStep ==
  ASSUME IInv, NEW c \in Calls, NEW estimate \in Estimates, NEW ask \in Asks,
         at[c] = "idle", Reserve(c, estimate, ask)
  PROVE  /\ hold' \in [Calls -> Tokens] /\ held' \in Tokens
         /\ hold'[c] = Reservation(estimate, ask) /\ hold'[c] \in Tokens
         /\ \A s \in Side : held'[s] = Total(HoldOf(s)')
         /\ c \notin reservations
         /\ Cardinality(reservations') = Cardinality(reservations) + 1
<1> USE DEF IInv
<1>1. Reservation(estimate, ask) \in Tokens
  BY Granted DEF Reserve
<1>2. hold' \in [Calls -> Tokens] /\ held' \in Tokens
  BY <1>1 DEF Reserve, TypeOK, Tokens, Plus
<1>3. hold'[c] = Reservation(estimate, ask)
  BY DEF Reserve, TypeOK
<1>4. c \notin reservations /\ hold[c] = Nothing
  BY DEF CallInv
<1>5. ASSUME NEW s \in Side PROVE held'[s] = Total(HoldOf(s)')
  <2>1. HoldOf(s) \in [Calls -> Nat] /\ HoldOf(s)' \in [Calls -> Nat]
    BY <1>2 DEF HoldOf, TypeOK, Tokens
  <2>2. \A d \in Calls \ {c} : HoldOf(s)'[d] = HoldOf(s)[d]
    BY DEF HoldOf, Reserve, TypeOK
  <2>3. Total(HoldOf(s)') = Total(HoldOf(s)) - HoldOf(s)[c] + HoldOf(s)'[c]
    BY <2>1, <2>2, TotalChange
  <2>4. HoldOf(s)[c] = 0 /\ HoldOf(s)'[c] = Reservation(estimate, ask)[s]
    BY <1>3, <1>4 DEF HoldOf, Nothing
  <2>5. held'[s] = held[s] + Reservation(estimate, ask)[s]
    BY DEF Reserve, Plus
  <2>6. held[s] = Total(HoldOf(s)) /\ held[s] \in Nat /\ Reservation(estimate, ask)[s] \in Nat
    BY <1>1 DEF TotalsInv, TypeOK, Tokens
  <2> QED  BY <2>3, <2>4, <2>5, <2>6
<1>6. Cardinality(reservations') = Cardinality(reservations) + 1
  <2>1. reservations' = reservations \union {c}
    BY DEF Reserve
  <2> QED  BY <1>4, <2>1, Values, FS_AddElement
<1> QED  BY <1>1, <1>2, <1>3, <1>4, <1>5, <1>6

\* Removing one does too.
LEMMA RemoveStep ==
  ASSUME IInv, NEW c \in Calls, RemoveReservation(c)
  PROVE  /\ hold' \in [Calls -> Tokens] /\ held' \in Tokens
         /\ hold'[c] = Nothing
         /\ \A s \in Side : held'[s] = Total(HoldOf(s)') /\ held'[s] = held[s] - hold[c][s]
         /\ Cardinality(reservations) >= 1
         /\ Cardinality(reservations') = Cardinality(reservations) - 1
<1> USE DEF IInv
<1>1. hold' \in [Calls -> Tokens] /\ hold'[c] = Nothing
  BY DEF RemoveReservation, TypeOK, Tokens, Nothing
<1>2. ASSUME NEW s \in Side
      PROVE  held'[s] = Total(HoldOf(s)') /\ held'[s] \in Nat /\ held'[s] = held[s] - hold[c][s]
  <2>1. HoldOf(s) \in [Calls -> Nat] /\ HoldOf(s)' \in [Calls -> Nat]
    BY <1>1 DEF HoldOf, TypeOK, Tokens
  <2>2. \A d \in Calls \ {c} : HoldOf(s)'[d] = HoldOf(s)[d]
    BY DEF HoldOf, RemoveReservation, TypeOK
  <2>3. Total(HoldOf(s)') = Total(HoldOf(s)) - HoldOf(s)[c] + HoldOf(s)'[c]
    BY <2>1, <2>2, TotalChange
  <2>4. HoldOf(s)[c] = hold[c][s] /\ HoldOf(s)'[c] = 0
    BY <1>1 DEF HoldOf, Nothing
  <2>5. held'[s] = held[s] - hold[c][s]
    BY DEF RemoveReservation, Minus
  <2>6. held[s] = Total(HoldOf(s)) /\ held[s] \in Nat /\ hold[c][s] \in Nat
    BY DEF TotalsInv, TypeOK, Tokens
  <2>7. Total(HoldOf(s)') \in Nat
    BY <2>1, FiniteUnits
  <2> QED  BY <2>3, <2>4, <2>5, <2>6, <2>7
<1>3. held' \in Tokens
  BY <1>2 DEF RemoveReservation, Minus, Tokens
<1>4. c \in reservations /\ reservations' = reservations \ {c}
  BY DEF RemoveReservation
<1>5. Cardinality(reservations') = Cardinality(reservations) - 1
  BY <1>4, Values, FS_RemoveElement
<1>6. IsFiniteSet(reservations')
  BY <1>4, Values, FS_RemoveElement
<1>7. Cardinality(reservations') \in Nat
  BY <1>6, FS_CardinalityType
<1> QED  BY <1>1, <1>2, <1>3, <1>5, <1>7, Values
-----------------------------------------------------------------------------
(* The actions. *)

\* What a step of another call leaves alone stays true of this one.
LEMMA OtherCall ==
  ASSUME NEW d \in Calls, CallInv(d),
         at'[d] = at[d], usage'[d] = usage[d], charge'[d] = charge[d], hold'[d] = hold[d],
         d \in reservations' <=> d \in reservations
  PROVE  CallInv(d)'
BY DEF CallInv

\* The clock, a claim and a refusal touch no token and no call.
LEMMA QuietStep ==
  ASSUME IInv,
         requests' = requests, successful' = successful, metered' = metered,
         unknown' = unknown, recorded' = recorded, unreported' = unreported, held' = held,
         reservations' = reservations, hold' = hold, active' = active, peak' = peak,
         at' = at, usage' = usage, charge' = charge, charged' = charged,
         claimed' \in [Resource -> Nat], late' \in BOOLEAN,
         reason' \in {"none", "budget", "deadline"}, reason # "none" => reason' # "none"
  PROVE  IInv'
<1> USE DEF IInv
<1>1. TypeOK'
  BY DEF TypeOK
<1>2. \A c \in Calls : CallInv(c)'
  BY OtherCall
<1>3. TotalsInv'
  BY DEF TotalsInv, HoldOf, Running
<1>4. TokensInv'
  BY DEF TokensInv, NoFreeTokens, Committed, OvershootIsNoticed
<1> QED  BY <1>1, <1>2, <1>3, <1>4

\* The clock.
LEMMA TickStep == ASSUME IInv, Tick PROVE IInv'
<1>1. late' \in BOOLEAN /\ claimed' \in [Resource -> Nat] /\ reason' \in {"none", "budget", "deadline"}
  BY DEF Tick, IInv, TypeOK
<1> QED  BY <1>1, QuietStep DEF Tick, calls

\* A granted or refused claim.
LEMMA ClaimStep == ASSUME IInv, NEW r \in Resource, Claim(r) PROVE IInv'
<1>1. CASE GrantClaim(r)
  <2>1. claimed' \in [Resource -> Nat]
    BY <1>1 DEF GrantClaim, IInv, TypeOK
  <2> QED  BY <1>1, <2>1, QuietStep DEF GrantClaim, Claim, calls, IInv, TypeOK
<1>2. CASE NoteRefusal(Spent(r))
  BY <1>2, QuietStep DEF NoteRefusal, Claim, calls, IInv, TypeOK, Available
<1> QED  BY <1>1, <1>2 DEF Claim

\* A refused reservation.
LEMMA RefusedStep ==
  ASSUME IInv, NEW c \in Calls, NEW estimate \in Estimates, NEW ask \in Asks,
         Refused(c, estimate, ask)
  PROVE  IInv'
BY QuietStep DEF Refused, NoteRefusal, calls, IInv, TypeOK, Available

\* What a granted reservation leaves of the invariant about tokens.
LEMMA TokensAfterReserve ==
  ASSUME IInv, NEW c \in Calls, NEW estimate \in Estimates, NEW ask \in Asks,
         at[c] = "idle", Reserve(c, estimate, ask),
         metered' = metered, unknown' = unknown, recorded' = recorded,
         unreported' = unreported, charged' = charged
  PROVE  TokensInv'
<1> USE DEF IInv
<1>1. Reservation(estimate, ask) \in Tokens /\ held' \in Tokens
  BY Granted, ReserveStep DEF Reserve
<1>2. \A s \in Side : Committed'[s] = Committed[s] + Reservation(estimate, ask)[s]
  BY <1>1 DEF Committed, Reserve, Plus, TypeOK, Tokens
<1>3. Overshoot = 0 /\ Enforced => ~Exceeded(Committed')
  <2> SUFFICES ASSUME Enforced PROVE ~Exceeded(Committed')
    OBVIOUS
  <2> HIDE DEF IInv
  <2>1. Committed \in Tokens
    BY Values DEF IInv
  <2>2. /\ Committed["input"] + estimate <= MaxTokens["input"]
        /\ Committed["output"] + Allowance(estimate, ask) <= MaxTokens["output"]
        /\ Both(Committed) + estimate + Allowance(estimate, ask) <= MaxTotal
    BY Granted DEF IInv, Reserve
  <2>3. /\ Reservation(estimate, ask)["input"] = estimate
        /\ Reservation(estimate, ask)["output"] = Allowance(estimate, ask)
    BY DEF Reservation, Side
  <2>4. /\ Committed'["input"] = Committed["input"] + estimate
        /\ Committed'["output"] = Committed["output"] + Allowance(estimate, ask)
    BY <1>2, <2>3 DEF Side
  <2>5. /\ Committed["input"] \in Nat /\ Committed["output"] \in Nat
        /\ estimate \in Nat /\ Allowance(estimate, ask) \in Nat
    BY <1>1, <2>1, <2>3 DEF Tokens, Side
  <2>6. MaxTokens["input"] \in Nat /\ MaxTokens["output"] \in Nat /\ MaxTotal \in Nat
    BY BudgetAssumption DEF BudgetAssumption, Side
  <2> HIDE DEF Committed
  <2>7. ~(Committed'["input"] > MaxTokens["input"]) /\ ~(Committed'["output"] > MaxTokens["output"])
    BY <2>2, <2>4, <2>5, <2>6
  <2>8. ~(Both(Committed') > MaxTotal)
    BY <2>2, <2>4, <2>5, <2>6 DEF Both
  <2> QED  BY <2>7, <2>8 DEF Exceeded, Side
<1>4. Cardinality(reservations') = Cardinality(reservations) + 1
  BY ReserveStep
<1>5. metered' + Cardinality(reservations') = requests'
        => metered + Cardinality(reservations) = requests
  <2>1. metered \in Nat /\ requests \in Nat /\ Cardinality(reservations) \in Nat
    BY Values DEF TypeOK
  <2>2. requests' = requests + 1
    BY DEF Reserve
  <2> QED  BY <1>4, <2>1, <2>2
<1>6. ~(Enforced /\ Exceeded(recorded))
  BY DEF Reserve, Available, TokensInv, OvershootIsNoticed
<1> QED
  BY <1>3, <1>5, <1>6 DEF TokensInv, NoFreeTokens, OvershootIsNoticed

\* The request goes out.
LEMMA DispatchStep ==
  ASSUME IInv, NEW c \in Calls, NEW estimate \in Estimates, NEW ask \in Asks,
         Dispatch(c, estimate, ask)
  PROVE  IInv'
<1> USE DEF IInv
<1>0. at[c] = "idle" /\ Reserve(c, estimate, ask) /\ EnterSlot
  BY DEF Dispatch
<1>1. /\ hold' \in [Calls -> Tokens] /\ held' \in Tokens
      /\ hold'[c] = Reservation(estimate, ask) /\ hold'[c] \in Tokens
      /\ \A s \in Side : held'[s] = Total(HoldOf(s)')
      /\ c \notin reservations
      /\ Cardinality(reservations') = Cardinality(reservations) + 1
  BY <1>0, ReserveStep
<1>2. TypeOK'
  <2>1. requests' \in Nat /\ reservations' \subseteq Calls
    BY <1>0 DEF Reserve, TypeOK
  <2>2. active' \in Nat /\ peak' \in Nat /\ reason' = reason /\ late' = late
    BY <1>0 DEF EnterSlot, TypeOK
  <2>3. at' \in [Calls -> {"idle", "running", "settling", "interrupted"}]
    BY DEF Dispatch, TypeOK
  <2>4. usage' \in [Calls -> [dispatched : BOOLEAN, succeeded : BOOLEAN, known : BOOLEAN,
                             seen : Tokens]]
    BY DEF Dispatch, TypeOK
  <2> QED  BY <1>1, <2>1, <2>2, <2>3, <2>4 DEF Dispatch, TypeOK
<1>3. ASSUME NEW d \in Calls PROVE CallInv(d)'
  <2>1. CASE d # c
    <3>1. /\ at'[d] = at[d] /\ usage'[d] = usage[d] /\ charge'[d] = charge[d]
          /\ hold'[d] = hold[d] /\ (d \in reservations' <=> d \in reservations)
      BY <2>1 DEF Dispatch, Reserve, TypeOK
    <3> QED  BY <3>1, OtherCall
  <2>2. CASE d = c
    <3>1. at'[c] = "running" /\ c \in reservations'
      BY <1>0 DEF Dispatch, Reserve, TypeOK
    <3>2. /\ usage'[c].dispatched = TRUE /\ usage'[c].seen = usage[c].seen
          /\ usage'[c].known = usage[c].known /\ charge'[c] = charge[c]
      BY DEF Dispatch, TypeOK
    <3>3. usage[c] = Fresh
      BY <1>0 DEF CallInv
    <3>3a. charge[c] = Nothing
      BY <3>3 DEF CallInv, Fresh
    <3>4. \A s \in Side : charge[c][s] = 0 /\ hold'[c][s] \in Nat /\ usage[c].seen[s] = 0
      BY <1>1, <3>3, <3>3a DEF Nothing, Tokens, Fresh
    <3>5. usage[c].known = FALSE
      BY <3>3 DEF Fresh
    <3>6. \A s \in Side : usage'[c].seen[s] <= charge'[c][s] /\ charge'[c][s] <= hold'[c][s] + Overshoot
      BY <3>2, <3>4, CallAssumption DEF CallAssumption
    <3> QED  BY <2>2, <3>1, <3>2, <3>5, <3>6 DEF CallInv
  <2> QED  BY <2>1, <2>2
<1>4. TotalsInv'
  <2>1. Running' = Running \union {c} /\ c \notin Running
    BY <1>0 DEF Dispatch, Running, TypeOK
  <2>2. Cardinality(Running') = Cardinality(Running) + 1
    BY <2>1, Values, FS_AddElement
  <2>3. active' = active + 1 /\ active < MaxConcurrency /\ active \in Nat
    BY <1>0 DEF EnterSlot, TypeOK
  <2>4. MaxConcurrency \in Nat
    BY BudgetAssumption DEF BudgetAssumption
  <2>5. active' <= MaxConcurrency
    BY <2>3, <2>4
  <2>6. peak' <= MaxConcurrency
    BY <1>0, <2>5 DEF EnterSlot, TotalsInv
  <2>7. metered' = metered /\ requests' = requests + 1
    BY <1>0 DEF Dispatch, Reserve
  <2>8. metered' + Cardinality(reservations') <= requests'
    BY <1>1, <2>7, Values DEF TypeOK, TotalsInv
  <2>9. active' = Cardinality(Running')
    BY <2>2, <2>3 DEF TotalsInv
  <2> QED  BY <1>1, <2>5, <2>6, <2>8, <2>9 DEF TotalsInv
<1>5. TokensInv'
  BY <1>0, TokensAfterReserve DEF Dispatch
<1> QED  BY <1>2, <1>3, <1>4, <1>5
\* The request stays at home.
LEMMA DeclineStep ==
  ASSUME IInv, NEW c \in Calls, NEW estimate \in Estimates, NEW ask \in Asks,
         Decline(c, estimate, ask)
  PROVE  IInv'
<1> USE DEF IInv
<1>0. at[c] = "idle" /\ Reserve(c, estimate, ask) /\ RefuseSlot
  BY DEF Decline
<1>1. /\ hold' \in [Calls -> Tokens] /\ held' \in Tokens
      /\ hold'[c] = Reservation(estimate, ask) /\ hold'[c] \in Tokens
      /\ \A s \in Side : held'[s] = Total(HoldOf(s)')
      /\ c \notin reservations
      /\ Cardinality(reservations') = Cardinality(reservations) + 1
  BY <1>0, ReserveStep
<1>2. TypeOK'
  <2>1. requests' \in Nat /\ reservations' \subseteq Calls
    BY <1>0 DEF Reserve, TypeOK
  <2>2. /\ active' = active /\ peak' = peak /\ reason' \in {"none", "budget", "deadline"}
        /\ late' \in BOOLEAN
    BY <1>0 DEF RefuseSlot, TypeOK
  <2>3. at' \in [Calls -> {"idle", "running", "settling", "interrupted"}]
    BY DEF Decline, TypeOK
  <2> QED  BY <1>1, <2>1, <2>2, <2>3 DEF Decline, TypeOK
<1>3. ASSUME NEW d \in Calls PROVE CallInv(d)'
  <2>1. CASE d # c
    <3>1. /\ at'[d] = at[d] /\ usage'[d] = usage[d] /\ charge'[d] = charge[d]
          /\ hold'[d] = hold[d] /\ (d \in reservations' <=> d \in reservations)
      BY <2>1 DEF Decline, Reserve, TypeOK
    <3> QED  BY <3>1, OtherCall
  <2>2. CASE d = c
    <3>1. at'[c] = "settling" /\ c \in reservations'
      BY <1>0 DEF Decline, Reserve, TypeOK
    <3>2. usage' = usage /\ charge' = charge
      BY DEF Decline
    <3>3. usage[c] = Fresh
      BY <1>0 DEF CallInv
    <3>3a. charge[c] = Nothing
      BY <3>3 DEF CallInv, Fresh
    <3>4. \A s \in Side : charge[c][s] = 0 /\ hold'[c][s] \in Nat /\ usage[c].seen[s] = 0
      BY <1>1, <3>3, <3>3a DEF Nothing, Tokens, Fresh
    <3>5. usage[c].known = FALSE
      BY <3>3 DEF Fresh
    <3>6. \A s \in Side : usage'[c].seen[s] <= charge'[c][s] /\ charge'[c][s] <= hold'[c][s] + Overshoot
      BY <3>2, <3>4, CallAssumption DEF CallAssumption
    <3> QED  BY <2>2, <3>1, <3>2, <3>3a, <3>5, <3>6 DEF CallInv
  <2> QED  BY <2>1, <2>2
<1>4. TotalsInv'
  <2>1. Running' = Running
    BY <1>0 DEF Decline, Running, TypeOK
  <2>2. active' = active /\ peak' = peak
    BY <1>0 DEF RefuseSlot
  <2>3. metered' = metered /\ requests' = requests + 1
    BY <1>0 DEF Decline, Reserve
  <2>4. metered' + Cardinality(reservations') <= requests'
    BY <1>1, <2>3, Values DEF TypeOK, TotalsInv
  <2> QED  BY <1>1, <2>1, <2>2, <2>4 DEF TotalsInv
<1>5. TokensInv'
  BY <1>0, TokensAfterReserve DEF Decline
<1> QED  BY <1>2, <1>3, <1>4, <1>5

\* The end of a call: the slot comes back, whatever the provider charged and
\* whatever was seen of it.
LEMMA LeaveStep ==
  ASSUME IInv, NEW c \in Calls, LeaveSlot(c), NEW ok \in BOOLEAN,
         NEW x \in Chargeable(c), NEW y \in Reports(x, ok),
         charge' = [charge EXCEPT ![c] = x],
         usage' = [usage EXCEPT ![c] = [dispatched |-> TRUE, succeeded |-> ok,
                                        known |-> y.known, seen |-> y.seen]]
  PROVE  IInv'
<1> USE DEF IInv
<1>0. x \in Tokens /\ \A s \in Side : x[s] <= hold[c][s] + Overshoot
  <2>1. x \in [Side -> 0 .. Both(hold[c]) + Overshoot]
    BY DEF Chargeable
  <2>2. Both(hold[c]) + Overshoot \in Nat
    BY CallAssumption DEF CallAssumption, TypeOK, Tokens, Side, Both
  <2> QED  BY <2>1, <2>2 DEF Tokens, Chargeable
<1>1. /\ y.seen \in Tokens /\ y.known \in BOOLEAN
      /\ \A s \in Side : y.seen[s] <= x[s]
      /\ y.known /\ ok => y.seen = x
  <2>1. y \in [seen : [Side -> 0 .. Both(x)], known : BOOLEAN]
    BY DEF Reports
  <2>2. Both(x) \in Nat
    BY <1>0 DEF Tokens, Side, Both
  <2> QED  BY <2>1, <2>2 DEF Tokens, Reports
<1>2. /\ hold' = hold /\ held' = held /\ reservations' = reservations
      /\ active' = active - 1 /\ at[c] = "running" /\ at' = [at EXCEPT ![c] = "settling"]
      /\ peak' = peak /\ metered' = metered /\ requests' = requests
      /\ recorded' = recorded /\ unreported' = unreported /\ charged' = charged
      /\ unknown' = unknown /\ reason' = reason
  BY DEF LeaveSlot
<1>3. Running' = Running \ {c} /\ c \in Running
  BY <1>2 DEF Running, TypeOK
<1>4. /\ Cardinality(Running') = Cardinality(Running) - 1
      /\ Cardinality(Running') \in Nat
  <2>1. Cardinality(Running') = Cardinality(Running) - 1 /\ IsFiniteSet(Running')
    BY <1>3, Values, FS_RemoveElement
  <2> QED  BY <2>1, FS_CardinalityType
<1>5. active' = Cardinality(Running') /\ active' \in Nat
  BY <1>2, <1>4 DEF TotalsInv
<1>6. TypeOK'
  <2>1. charge' \in [Calls -> Tokens]
    BY <1>0 DEF TypeOK
  <2>2. usage' \in [Calls -> [dispatched : BOOLEAN, succeeded : BOOLEAN, known : BOOLEAN,
                             seen : Tokens]]
    BY <1>1 DEF TypeOK
  <2>3. at' \in [Calls -> {"idle", "running", "settling", "interrupted"}]
    BY <1>2 DEF TypeOK
  <2> QED  BY <1>5, <2>1, <2>2, <2>3 DEF LeaveSlot, TypeOK
<1>7. ASSUME NEW d \in Calls PROVE CallInv(d)'
  <2>1. CASE d # c
    <3>1. at'[d] = at[d] /\ usage'[d] = usage[d] /\ charge'[d] = charge[d]
      BY <1>2, <2>1 DEF TypeOK
    <3> QED  BY <1>2, <3>1, OtherCall
  <2>2. CASE d = c
    <3>1. at'[c] = "settling" /\ charge'[c] = x
      BY <1>2 DEF TypeOK
    <3>2. /\ usage'[c].dispatched = TRUE /\ usage'[c].succeeded = ok
          /\ usage'[c].known = y.known /\ usage'[c].seen = y.seen
      BY DEF TypeOK
    <3>3. c \in reservations'
      BY <1>2 DEF CallInv
    <3>4. \A s \in Side : charge'[c][s] <= hold'[c][s] + Overshoot
      BY <1>0, <1>2, <3>1
    <3> QED  BY <1>1, <2>2, <3>1, <3>2, <3>3, <3>4 DEF CallInv
  <2> QED  BY <2>1, <2>2
<1>8. TotalsInv'
  <2>1. \A s \in Side : HoldOf(s)' = HoldOf(s)
    BY <1>2 DEF HoldOf
  <2>2. active' <= MaxConcurrency
    <3>1. active \in Nat /\ MaxConcurrency \in Nat /\ active <= MaxConcurrency
      BY BudgetAssumption DEF BudgetAssumption, TypeOK, TotalsInv
    <3> QED  BY <1>2, <3>1
  <2> QED  BY <1>2, <1>5, <2>1, <2>2 DEF TotalsInv
<1>9. TokensInv'
  BY <1>2 DEF TokensInv, NoFreeTokens, Committed, OvershootIsNoticed
<1> QED  BY <1>6, <1>7, <1>8, <1>9

\* A cancellation during the settlement.
LEMMA CancelStep == ASSUME IInv, NEW c \in Calls, CancelSettling(c) PROVE IInv'
<1> USE DEF IInv
<1>1. /\ at[c] = "settling" /\ at' = [at EXCEPT ![c] = "interrupted"]
      /\ usage' = usage /\ charge' = charge /\ charged' = charged /\ ledger' = ledger
  BY DEF CancelSettling
<1>2. TypeOK'
  BY <1>1 DEF TypeOK, ledger
<1>3. Running' = Running
  BY <1>1 DEF Running, TypeOK
<1>4. \A d \in Calls : CallInv(d)'
  BY <1>1 DEF CallInv, TypeOK, ledger
<1>5. TotalsInv'
  BY <1>1, <1>3 DEF TotalsInv, HoldOf, ledger
<1>6. TokensInv'
  BY <1>1 DEF TokensInv, NoFreeTokens, Committed, OvershootIsNoticed, ledger
<1> QED  BY <1>2, <1>4, <1>5, <1>6
\* Fewer tokens do not exceed a limit that more tokens respect.
LEMMA ExceededMonotone ==
  ASSUME NEW x \in Tokens, NEW y \in Tokens, \A s \in Side : y[s] <= x[s], ~Exceeded(x)
  PROVE  ~Exceeded(y)
<1>1. /\ x["input"] \in Nat /\ x["output"] \in Nat /\ y["input"] \in Nat /\ y["output"] \in Nat
      /\ y["input"] <= x["input"] /\ y["output"] <= x["output"]
  BY DEF Tokens, Side
<1>2. MaxTokens["input"] \in Nat /\ MaxTokens["output"] \in Nat /\ MaxTotal \in Nat
  BY BudgetAssumption DEF BudgetAssumption, Side
<1>3. ~(y["input"] > MaxTokens["input"]) /\ ~(y["output"] > MaxTokens["output"])
  BY <1>1, <1>2 DEF Exceeded, Side
<1>4. ~(Both(y) > MaxTotal)
  BY <1>1, <1>2 DEF Exceeded, Both
<1> QED  BY <1>3, <1>4 DEF Exceeded, Side

\* What every settlement does: the call is closed and its reservation removed.
LEMMA SettledCall ==
  ASSUME IInv, NEW c \in Calls, Settle(c)
  PROVE  /\ RemoveReservation(c)
         /\ \A d \in Calls : CallInv(d)'
         /\ Running' = Running /\ active' = active /\ peak' = peak
         /\ charge' \in [Calls -> Tokens] /\ charged' \in Tokens
         /\ at' \in [Calls -> {"idle", "running", "settling", "interrupted"}]
         /\ usage' \in [Calls -> [dispatched : BOOLEAN, succeeded : BOOLEAN,
                                  known : BOOLEAN, seen : Tokens]]
         /\ \A s \in Side : charged'[s] = charged[s] + charge[c][s]
<1> USE DEF IInv
<1>1. RemoveReservation(c) /\ active' = active /\ peak' = peak
  BY DEF Settle, Complete, Release
<1>2. /\ at[c] # "running" /\ at' = [at EXCEPT ![c] = "idle"]
      /\ usage' = [usage EXCEPT ![c] = Fresh] /\ charge' = [charge EXCEPT ![c] = Nothing]
      /\ charged' = Plus(charged, charge[c])
  BY DEF Settle
<1>3. Running' = Running
  BY <1>2 DEF Running, TypeOK
<1>4. charge' \in [Calls -> Tokens] /\ charged' \in Tokens
  BY <1>2 DEF TypeOK, Tokens, Nothing, Plus
<1>5. at' \in [Calls -> {"idle", "running", "settling", "interrupted"}]
  BY <1>2 DEF TypeOK
<1>6. usage' \in [Calls -> [dispatched : BOOLEAN, succeeded : BOOLEAN,
                           known : BOOLEAN, seen : Tokens]]
  <2>1. Fresh \in [dispatched : BOOLEAN, succeeded : BOOLEAN, known : BOOLEAN, seen : Tokens]
    BY DEF Fresh, Nothing, Tokens
  <2> QED  BY <1>2, <2>1 DEF TypeOK
<1>7. \A s \in Side : charged'[s] = charged[s] + charge[c][s]
  BY <1>2 DEF Plus
<1>8. ASSUME NEW d \in Calls PROVE CallInv(d)'
  <2>1. CASE d # c
    <3>1. /\ at'[d] = at[d] /\ usage'[d] = usage[d] /\ charge'[d] = charge[d]
          /\ hold'[d] = hold[d] /\ (d \in reservations' <=> d \in reservations)
      BY <1>1, <1>2, <2>1 DEF RemoveReservation, TypeOK
    <3> QED  BY <3>1, OtherCall
  <2>2. CASE d = c
    <3>1. /\ at'[c] = "idle" /\ usage'[c] = Fresh /\ charge'[c] = Nothing
          /\ hold'[c] = Nothing /\ c \notin reservations'
      BY <1>1, <1>2 DEF RemoveReservation, TypeOK
    <3>2. \A s \in Side : Nothing[s] = 0
      BY DEF Nothing
    <3> QED  BY <2>2, <3>1, <3>2, CallAssumption DEF CallInv, Fresh, CallAssumption
  <2> QED  BY <2>1, <2>2
<1> QED  BY <1>1, <1>2, <1>3, <1>4, <1>5, <1>6, <1>7, <1>8

\* A request that was never sent is released: it was not charged.
LEMMA ReleaseStep ==
  ASSUME IInv, NEW c \in Calls, Settle(c), ~usage[c].dispatched
  PROVE  IInv'
<1> USE DEF IInv
<1>1. /\ Release(c) /\ RemoveReservation(c) /\ requests' = requests - 1
      /\ metered' = metered /\ recorded' = recorded /\ unreported' = unreported
      /\ unknown' = unknown /\ reason' = reason
  BY DEF Settle, Release
<1>2. /\ hold' \in [Calls -> Tokens] /\ held' \in Tokens
      /\ \A s \in Side : held'[s] = Total(HoldOf(s)') /\ held'[s] = held[s] - hold[c][s]
      /\ Cardinality(reservations) >= 1
      /\ Cardinality(reservations') = Cardinality(reservations) - 1
  BY <1>1, RemoveStep
<1>3. /\ \A d \in Calls : CallInv(d)'
      /\ Running' = Running /\ active' = active /\ peak' = peak
      /\ charge' \in [Calls -> Tokens] /\ charged' \in Tokens
      /\ at' \in [Calls -> {"idle", "running", "settling", "interrupted"}]
      /\ usage' \in [Calls -> [dispatched : BOOLEAN, succeeded : BOOLEAN,
                               known : BOOLEAN, seen : Tokens]]
      /\ \A s \in Side : charged'[s] = charged[s] + charge[c][s]
  BY SettledCall
<1>4. metered \in Nat /\ requests \in Nat /\ Cardinality(reservations) \in Nat
      /\ metered + Cardinality(reservations) <= requests
  BY Values DEF TypeOK, TotalsInv
<1>5. requests' \in Nat /\ metered' + Cardinality(reservations') <= requests'
  BY <1>1, <1>2, <1>4
<1>6. TypeOK'
  <2>1. reservations' \subseteq Calls
    BY <1>1 DEF RemoveReservation, TypeOK
  <2> QED  BY <1>1, <1>2, <1>3, <1>5, <2>1 DEF TypeOK, Release
<1>7. TotalsInv'
  BY <1>2, <1>3, <1>5 DEF TotalsInv
<1>8. charged' = charged
  <2>1. charge[c] = Nothing
    BY DEF CallInv
  <2> QED  BY <2>1 DEF Settle, Plus, Nothing, TypeOK, Tokens
<1>9. TokensInv'
  <2>1. Overshoot = 0 => NoFreeTokens'
    BY <1>1, <1>8 DEF TokensInv, NoFreeTokens
  <2>2. Overshoot = 0 /\ Enforced => ~Exceeded(Committed')
    <3> SUFFICES ASSUME ~Exceeded(Committed) PROVE ~Exceeded(Committed')
      BY DEF TokensInv
    <3>1. Committed \in Tokens /\ Committed' \in Tokens
      BY <1>1, <1>2, Values DEF Committed, TypeOK, Tokens
    <3>2. \A s \in Side : Committed'[s] <= Committed[s]
      BY <1>1, <1>2 DEF Committed, TypeOK, Tokens
    <3> HIDE DEF IInv
    <3> QED  BY <3>1, <3>2, ExceededMonotone
  <2>3. Enforced /\ unknown' = 0 /\ metered' + Cardinality(reservations') = requests'
          => recorded' = charged'
    BY <1>1, <1>2, <1>4, <1>8 DEF TokensInv
  <2>4. OvershootIsNoticed'
    BY <1>1 DEF TokensInv, OvershootIsNoticed
  <2> QED  BY <2>1, <2>2, <2>3, <2>4 DEF TokensInv
<1> QED  BY <1>3, <1>6, <1>7, <1>9

\* What a completion records: tokens that the reservation and the report vouch
\* for, with the rest of the reservation kept when the report is not the whole.
LEMMA CompletionRecords ==
  ASSUME IInv, NEW c \in Calls, usage[c].dispatched,
         Complete(c, usage[c].seen, usage[c].known, usage[c].succeeded)
  PROVE  /\ recorded' \in Tokens /\ unreported' \in Tokens
         /\ Overshoot = 0 => \A s \in Side :
              /\ recorded'[s] + unreported'[s] >= recorded[s] + unreported[s] + charge[c][s]
              /\ recorded'[s] + unreported'[s] <= recorded[s] + unreported[s] + hold[c][s]
         /\ Enforced /\ unknown' = 0 =>
              /\ unknown = 0
              /\ \A s \in Side : recorded'[s] = recorded[s] + charge[c][s]
<1> USE DEF IInv
<1> DEFINE seen == usage[c].seen
           known == usage[c].known
           ok == usage[c].succeeded
           deemed == SettledAtReservation(known, ok)
           observed == IF deemed THEN hold[c] ELSE seen
           open == LeavesRemainder(known \/ deemed, ok)
<1>1. /\ recorded' = Plus(recorded, observed)
      /\ unknown' = unknown + CountIf(open)
      /\ unreported' = IF open THEN Plus(unreported, Shortfall(hold[c], observed)) ELSE unreported
  BY DEF Complete
<1>2. /\ seen \in Tokens /\ hold[c] \in Tokens /\ charge[c] \in Tokens
      /\ recorded \in Tokens /\ unreported \in Tokens /\ unknown \in Nat
      /\ known \in BOOLEAN /\ ok \in BOOLEAN /\ Enforced \in BOOLEAN
  BY BudgetAssumption DEF TypeOK, BudgetAssumption
<1>3. /\ \A s \in Side : seen[s] <= charge[c][s]
      /\ \A s \in Side : charge[c][s] <= hold[c][s] + Overshoot
      /\ known /\ ok => seen = charge[c]
  BY DEF CallInv
<1> HIDE DEF IInv, seen, known, ok
<1>4. observed \in Tokens
  BY <1>2
<1>5. Shortfall(hold[c], observed) \in Tokens
  <2> HIDE DEF observed
  <2> QED  BY <1>2, <1>4 DEF Shortfall, Tokens
<1>6. recorded' \in Tokens /\ unreported' \in Tokens
  <2> HIDE DEF observed, open
  <2> QED  BY <1>1, <1>2, <1>4, <1>5 DEF Plus, Tokens
<1>7. ASSUME Overshoot = 0, NEW s \in Side
      PROVE  /\ recorded'[s] + unreported'[s] >= recorded[s] + unreported[s] + charge[c][s]
             /\ recorded'[s] + unreported'[s] <= recorded[s] + unreported[s] + hold[c][s]
  <2>1. /\ observed[s] \in Nat /\ hold[c][s] \in Nat /\ charge[c][s] \in Nat
        /\ recorded[s] \in Nat /\ unreported[s] \in Nat /\ charge[c][s] <= hold[c][s]
    <3>1. observed[s] \in Nat /\ hold[c][s] \in Nat /\ charge[c][s] \in Nat
          /\ recorded[s] \in Nat /\ unreported[s] \in Nat
      <4> HIDE DEF observed
      <4> QED  BY <1>2, <1>4 DEF Tokens
    <3>2. charge[c][s] <= hold[c][s] + 0
      BY <1>3, <1>7
    <3> QED  BY <3>1, <3>2
  <2>2. observed[s] <= hold[c][s]
    <3>1. CASE deemed
      BY <2>1, <3>1
    <3>2. CASE ~deemed
      <4>1. observed[s] = seen[s]
        BY <3>2
      <4>2. seen[s] \in Nat /\ seen[s] <= charge[c][s]
        BY <1>2, <1>3 DEF Tokens
      <4> HIDE DEF observed
      <4> QED  BY <2>1, <4>1, <4>2
    <3> QED  BY <3>1, <3>2
  <2>3. ~open => observed[s] >= charge[c][s]
    <3> SUFFICES ASSUME ~open PROVE observed[s] >= charge[c][s]
      OBVIOUS
    <3>1. CASE deemed
      BY <2>1, <3>1
    <3>2. CASE ~deemed
      <4>1. known /\ ok
        BY <3>2 DEF LeavesRemainder
      <4>2. observed = charge[c]
        BY <1>3, <3>2, <4>1
      <4> HIDE DEF observed
      <4> QED  BY <2>1, <4>2
    <3> QED  BY <3>1, <3>2
  <2> HIDE DEF observed, open
  <2>4. recorded'[s] = recorded[s] + observed[s]
    BY <1>1 DEF Plus
  <2>5. CASE open
    <3>1. unreported'[s] = unreported[s] + (hold[c][s] - observed[s])
      <4>1. unreported'[s] = unreported[s] + Shortfall(hold[c], observed)[s]
        BY <1>1, <2>5 DEF Plus
      <4>2. Shortfall(hold[c], observed)[s] = hold[c][s] - observed[s]
        BY <2>1, <2>2 DEF Shortfall
      <4> QED  BY <4>1, <4>2
    <3> QED  BY <2>1, <2>4, <3>1
  <2>6. CASE ~open
    <3>1. unreported'[s] = unreported[s]
      BY <1>1, <2>6
    <3> QED  BY <2>1, <2>2, <2>3, <2>4, <2>6, <3>1
  <2> QED  BY <2>5, <2>6
<1>8. ASSUME Enforced, unknown' = 0
      PROVE  unknown = 0 /\ \A s \in Side : recorded'[s] = recorded[s] + charge[c][s]
  <2>1. ~open /\ unknown = 0
    <3> HIDE DEF open
    <3> QED  BY <1>1, <1>2, <1>8 DEF CountIf
  <2>2. ~deemed
    BY <1>8 DEF SettledAtReservation
  <2>3. known /\ ok
    BY <2>1, <2>2 DEF LeavesRemainder
  <2>4. observed = charge[c]
    BY <1>3, <2>2, <2>3
  <2> HIDE DEF observed
  <2> QED  BY <1>1, <2>1, <2>4 DEF Plus
<1> QED  BY <1>6, <1>7, <1>8
\* A request that was sent is completed.
LEMMA CompleteStep ==
  ASSUME IInv, NEW c \in Calls, Settle(c), usage[c].dispatched
  PROVE  IInv'
<1> USE DEF IInv
<1>1. /\ Complete(c, usage[c].seen, usage[c].known, usage[c].succeeded)
      /\ RemoveReservation(c) /\ requests' = requests
      /\ claimed' = claimed /\ late' = late /\ reason' = Verdict(recorded')
  BY DEF Settle, Complete
<1>2. /\ hold' \in [Calls -> Tokens] /\ held' \in Tokens
      /\ \A s \in Side : held'[s] = Total(HoldOf(s)') /\ held'[s] = held[s] - hold[c][s]
      /\ Cardinality(reservations) >= 1
      /\ Cardinality(reservations') = Cardinality(reservations) - 1
  BY <1>1, RemoveStep
<1>3. /\ \A d \in Calls : CallInv(d)'
      /\ Running' = Running /\ active' = active /\ peak' = peak
      /\ charge' \in [Calls -> Tokens] /\ charged' \in Tokens
      /\ at' \in [Calls -> {"idle", "running", "settling", "interrupted"}]
      /\ usage' \in [Calls -> [dispatched : BOOLEAN, succeeded : BOOLEAN,
                               known : BOOLEAN, seen : Tokens]]
      /\ \A s \in Side : charged'[s] = charged[s] + charge[c][s]
  BY SettledCall
<1>4. /\ recorded' \in Tokens /\ unreported' \in Tokens
      /\ Overshoot = 0 => \A s \in Side :
           /\ recorded'[s] + unreported'[s] >= recorded[s] + unreported[s] + charge[c][s]
           /\ recorded'[s] + unreported'[s] <= recorded[s] + unreported[s] + hold[c][s]
      /\ Enforced /\ unknown' = 0 =>
           /\ unknown = 0
           /\ \A s \in Side : recorded'[s] = recorded[s] + charge[c][s]
  BY <1>1, CompletionRecords
<1>5. /\ metered \in Nat /\ requests \in Nat /\ Cardinality(reservations) \in Nat
      /\ metered + Cardinality(reservations) <= requests
  BY Values DEF TypeOK, TotalsInv
<1>6. /\ metered' \in Nat /\ metered' <= metered + 1
      /\ successful' \in Nat /\ unknown' \in Nat
  BY <1>1 DEF Complete, CountIf, TypeOK
<1>7. metered' + Cardinality(reservations') <= requests'
  BY <1>1, <1>2, <1>5, <1>6
<1>8. reason' \in {"none", "budget", "deadline"}
  BY <1>1 DEF Verdict, TypeOK
<1>9. TypeOK'
  <2>1. reservations' \subseteq Calls
    BY <1>1 DEF RemoveReservation, TypeOK
  <2> QED  BY <1>1, <1>2, <1>3, <1>4, <1>6, <1>8, <2>1 DEF TypeOK
<1>10. TotalsInv'
  BY <1>2, <1>3, <1>7 DEF TotalsInv
<1>11. TokensInv'
  <2>1. ASSUME Overshoot = 0 PROVE NoFreeTokens'
    <3> SUFFICES ASSUME NEW s \in Side PROVE charged'[s] <= recorded'[s] + unreported'[s]
      BY DEF NoFreeTokens
    <3>1. charged[s] <= recorded[s] + unreported[s]
      BY <2>1 DEF TokensInv, NoFreeTokens
    <3>2. /\ charged[s] \in Nat /\ charge[c][s] \in Nat /\ recorded[s] \in Nat
          /\ unreported[s] \in Nat /\ recorded'[s] \in Nat /\ unreported'[s] \in Nat
      BY <1>4 DEF TypeOK, Tokens
    <3>3. recorded'[s] + unreported'[s] >= recorded[s] + unreported[s] + charge[c][s]
      BY <1>4, <2>1
    <3>4. charged'[s] = charged[s] + charge[c][s]
      BY <1>3
    <3> HIDE DEF IInv
    <3> QED  BY <3>1, <3>2, <3>3, <3>4
  <2>2. ASSUME Overshoot = 0, Enforced PROVE ~Exceeded(Committed')
    <3>1. Committed \in Tokens /\ Committed' \in Tokens
      BY <1>2, <1>4, Values DEF Committed, Tokens
    <3>2. ASSUME NEW s \in Side PROVE Committed'[s] <= Committed[s]
      <4>1. /\ hold[c][s] \in Nat /\ recorded[s] \in Nat /\ unreported[s] \in Nat
            /\ held[s] \in Nat /\ recorded'[s] \in Nat /\ unreported'[s] \in Nat
        BY <1>4 DEF TypeOK, Tokens
      <4>2. recorded'[s] + unreported'[s] <= recorded[s] + unreported[s] + hold[c][s]
        BY <1>4, <2>2
      <4>3. held'[s] = held[s] - hold[c][s]
        BY <1>2
      <4>4. /\ Committed[s] = recorded[s] + held[s] + unreported[s]
            /\ Committed'[s] = recorded'[s] + held'[s] + unreported'[s]
        BY DEF Committed
      <4> HIDE DEF IInv
      <4> QED  BY <4>1, <4>2, <4>3, <4>4
    <3>3. ~Exceeded(Committed)
      BY <2>2 DEF TokensInv
    <3> HIDE DEF IInv
    <3> QED  BY <3>1, <3>2, <3>3, ExceededMonotone
  <2>3. ASSUME Enforced, unknown' = 0, metered' + Cardinality(reservations') = requests'
        PROVE  recorded' = charged'
    <3>1. unknown = 0 /\ \A s \in Side : recorded'[s] = recorded[s] + charge[c][s]
      BY <1>4, <2>3
    <3>2. metered + Cardinality(reservations) = requests
      BY <1>1, <1>2, <1>5, <1>6, <2>3
    <3>3. recorded = charged
      BY <2>3, <3>1, <3>2 DEF TokensInv
    <3>4. \A s \in Side : recorded'[s] = charged'[s]
      BY <1>3, <3>1, <3>3
    <3> QED  BY <1>3, <1>4, <3>4 DEF Tokens
  <2>4. OvershootIsNoticed'
    BY <1>1 DEF OvershootIsNoticed, Verdict
  <2> QED  BY <2>1, <2>2, <2>3, <2>4 DEF TokensInv
<1> QED  BY <1>3, <1>9, <1>10, <1>11

-----------------------------------------------------------------------------
(* The theorems. *)

\* Every step keeps the invariant.
LEMMA StepInv == IInv /\ [Next]_vars => IInv'
<1> SUFFICES ASSUME IInv, [Next]_vars PROVE IInv'
  OBVIOUS
<1>1. CASE Tick
  BY <1>1, TickStep
<1>2. ASSUME NEW r \in Resource, Claim(r) PROVE IInv'
  BY <1>2, ClaimStep
<1>3. ASSUME NEW c \in Calls, Request(c) PROVE IInv'
  <2> PICK estimate \in Estimates, ask \in Asks :
        Refused(c, estimate, ask) \/ Dispatch(c, estimate, ask) \/ Decline(c, estimate, ask)
    BY <1>3 DEF Request
  <2> QED  BY RefusedStep, DispatchStep, DeclineStep
<1>4. ASSUME NEW c \in Calls, Return(c) PROVE IInv'
  <2> PICK x \in Chargeable(c) : \E y \in Reports(x, TRUE) :
        /\ charge' = [charge EXCEPT ![c] = x]
        /\ usage' = [usage EXCEPT ![c] = [dispatched |-> TRUE, succeeded |-> TRUE,
                                         known |-> y.known, seen |-> y.seen]]
    BY <1>4 DEF Return
  <2> PICK y \in Reports(x, TRUE) :
        /\ charge' = [charge EXCEPT ![c] = x]
        /\ usage' = [usage EXCEPT ![c] = [dispatched |-> TRUE, succeeded |-> TRUE,
                                         known |-> y.known, seen |-> y.seen]]
    OBVIOUS
  <2> QED  BY <1>4, LeaveStep DEF Return
<1>5. ASSUME NEW c \in Calls, Break(c) PROVE IInv'
  <2> PICK x \in Chargeable(c) : \E y \in Reports(x, FALSE) :
        /\ charge' = [charge EXCEPT ![c] = x]
        /\ usage' = [usage EXCEPT ![c] = [dispatched |-> TRUE, succeeded |-> FALSE,
                                         known |-> y.known, seen |-> y.seen]]
    BY <1>5 DEF Break
  <2> PICK y \in Reports(x, FALSE) :
        /\ charge' = [charge EXCEPT ![c] = x]
        /\ usage' = [usage EXCEPT ![c] = [dispatched |-> TRUE, succeeded |-> FALSE,
                                         known |-> y.known, seen |-> y.seen]]
    OBVIOUS
  <2> QED  BY <1>5, LeaveStep DEF Break
<1>6. ASSUME NEW c \in Calls, CancelSettling(c) PROVE IInv'
  BY <1>6, CancelStep
<1>7. ASSUME NEW c \in Calls, Settle(c) PROVE IInv'
  BY <1>7, ReleaseStep, CompleteStep
<1>8. CASE UNCHANGED vars
  <2>1. /\ claimed' \in [Resource -> Nat] /\ late' \in BOOLEAN
        /\ reason' \in {"none", "budget", "deadline"} /\ reason' = reason
    BY <1>8 DEF vars, ledger, IInv, TypeOK
  <2> QED  BY <1>8, <2>1, QuietStep DEF vars, ledger, calls
<1> QED  BY <1>1, <1>2, <1>3, <1>4, <1>5, <1>6, <1>7, <1>8 DEF Next

\* The inductive invariant holds throughout, for every budget, any number of
\* calls and any provider (BudgetLedger and BudgetedModel._accounted_call).
THEOREM Invariant == Spec => []IInv
<1>1. Init => IInv
  BY InitInv
<1>2. IInv /\ [Next]_vars => IInv'
  BY StepInv
<1> QED  BY <1>1, <1>2, PTL DEF Spec

\* Every variable keeps its type; no published counter becomes negative, which
\* BudgetUsageSnapshot would refuse to build.
THEOREM TypeCorrect == Spec => []TypeOK
<1>1. IInv => TypeOK
  BY DEF IInv
<1> QED  BY <1>1, Invariant, PTL

\* The totals the ledger keeps are the sums over its reservations and calls.
THEOREM Balanced == Spec => []LedgerBalances
<1>1. IInv => LedgerBalances
  <2> SUFFICES ASSUME IInv PROVE LedgerBalances
    OBVIOUS
  <2>1. reservations = {c \in Calls : at[c] # "idle"}
    BY DEF IInv, TypeOK, CallInv
  <2> QED  BY <2>1 DEF IInv, TotalsInv, LedgerBalances
<1> QED  BY <1>1, Invariant, PTL

\* With enforcement on, a provider that keeps to what a request allows it never
\* charges a run more than its token budget (reserve_llm_request, complete_llm_request).
THEOREM WithinBudget ==
  ASSUME Overshoot = 0, Enforced
  PROVE  Spec => []SpendingWithinBudget
<1>1. IInv => SpendingWithinBudget
  <2> SUFFICES ASSUME IInv PROVE ~Exceeded(Spending)
    BY DEF SpendingWithinBudget
  <2>1. TypeOK
    BY DEF IInv
  <2>2. Committed \in Tokens
    BY <2>1, Values
  <2>3. ASSUME NEW s \in Side PROVE Spending[s] \in Nat /\ Spending[s] <= Committed[s]
    <3>1. HoldOf(s) \in [Calls -> Nat] /\ ChargeOf(s) \in [Calls -> Nat]
      BY <2>1, Values
    <3>2. \A c \in Calls : ChargeOf(s)[c] <= HoldOf(s)[c]
      <4> SUFFICES ASSUME NEW c \in Calls PROVE ChargeOf(s)[c] <= HoldOf(s)[c]
        OBVIOUS
      <4>1. charge[c][s] <= hold[c][s] + Overshoot /\ hold[c][s] \in Nat
        BY DEF IInv, CallInv, TypeOK, Tokens
      <4>2. charge[c][s] <= hold[c][s]
        BY <4>1
      <4> QED  BY <4>2 DEF ChargeOf, HoldOf
    <3>3. Total(ChargeOf(s)) <= Total(HoldOf(s))
      BY <3>1, <3>2, TotalMonotone
    <3>4. Total(ChargeOf(s)) \in Nat /\ Total(HoldOf(s)) \in Nat
      BY <3>1, FiniteUnits
    <3>5. held[s] = Total(HoldOf(s)) /\ charged[s] <= recorded[s] + unreported[s]
      BY DEF IInv, TotalsInv, TokensInv, NoFreeTokens
    <3>6. charged[s] \in Nat /\ recorded[s] \in Nat /\ unreported[s] \in Nat
      BY <2>1 DEF TypeOK, Tokens
    <3>7. /\ Spending[s] = charged[s] + Total(ChargeOf(s))
          /\ Committed[s] = recorded[s] + held[s] + unreported[s]
      BY DEF Spending, Committed
    <3> QED  BY <3>3, <3>4, <3>5, <3>6, <3>7
  <2>4. Spending \in Tokens
    BY <2>3 DEF Spending, Tokens
  <2>5. ~Exceeded(Committed)
    BY DEF IInv, TokensInv
  <2> QED  BY <2>2, <2>3, <2>4, <2>5, ExceededMonotone
<1> QED  BY <1>1, Invariant, PTL

\* A settled call is accounted for in full, enforcement on or off.
THEOREM NothingIsFree ==
  ASSUME Overshoot = 0
  PROVE  Spec => []NoFreeTokens
<1>1. IInv => NoFreeTokens
  BY DEF IInv, TokensInv
<1> QED  BY <1>1, Invariant, PTL

\* With enforcement on, a complete report of usage is the usage, whatever the
\* provider does; with it off the runs show that it need not be.
THEOREM CompleteIsReal ==
  ASSUME Enforced
  PROVE  Spec => []CompleteUsageIsReal
<1>1. IInv => CompleteUsageIsReal
  <2> SUFFICES ASSUME IInv, UsageComplete PROVE recorded = charged
    BY DEF CompleteUsageIsReal
  <2>1. metered \in Nat
    BY DEF IInv, TypeOK
  <2>2. Cardinality(reservations) = 0
    BY FS_EmptySet DEF UsageComplete
  <2>3. metered + Cardinality(reservations) = requests /\ unknown = 0
    BY <2>1, <2>2 DEF UsageComplete
  <2> QED  BY <2>3 DEF IInv, TokensInv
<1> QED  BY <1>1, Invariant, PTL

\* A provider that charges past the limits exhausts the run at the settlement.
THEOREM OvershootNoticed == Spec => []OvershootIsNoticed
<1>1. IInv => OvershootIsNoticed
  BY DEF IInv, TokensInv
<1> QED  BY <1>1, Invariant, PTL

\* An exhausted ledger stays exhausted and gives nothing out any more.
THEOREM Final == Spec => ExhaustionIsFinal
<1> DEFINE A == reason # "none" =>
                  /\ reason' # "none"
                  /\ claimed' = claimed
                  /\ reservations' \subseteq reservations
<1>1. [Next]_vars => [A]_vars
  <2> SUFFICES ASSUME Next, reason # "none"
               PROVE  reason' # "none" /\ claimed' = claimed /\ reservations' \subseteq reservations
    OBVIOUS
  <2>1. CASE Tick
    BY <2>1 DEF Tick
  <2>2. ASSUME NEW r \in Resource, Claim(r)
        PROVE  reason' # "none" /\ claimed' = claimed /\ reservations' \subseteq reservations
    BY <2>2 DEF Claim, GrantClaim, NoteRefusal, Available
  <2>3. ASSUME NEW c \in Calls, Request(c)
        PROVE  reason' # "none" /\ claimed' = claimed /\ reservations' \subseteq reservations
    BY <2>3 DEF Request, Refused, NoteRefusal, Dispatch, Decline, Reserve, Available
  <2>4. ASSUME NEW c \in Calls, Return(c) \/ Break(c) \/ CancelSettling(c)
        PROVE  reason' # "none" /\ claimed' = claimed /\ reservations' \subseteq reservations
    BY <2>4 DEF Return, Break, LeaveSlot, CancelSettling, ledger
  <2>5. ASSUME NEW c \in Calls, Settle(c)
        PROVE  reason' # "none" /\ claimed' = claimed /\ reservations' \subseteq reservations
    BY <2>5 DEF Settle, Complete, Release, RemoveReservation, Verdict
  <2> QED  BY <2>1, <2>2, <2>3, <2>4, <2>5 DEF Next
<1> QED  BY <1>1, PTL DEF Spec, ExhaustionIsFinal
=============================================================================
