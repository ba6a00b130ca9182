------------------------- MODULE RunService_proofs -------------------------
(***************************************************************************)
(* Proofs about the parts a run's service is made of besides its pipeline:  *)
(* the product report with its gaps and risks, the steps its reader is      *)
(* shown, the artifacts a run leaves, the policies reports are written by   *)
(* and the proxy in front of it, for every value of their constants.        *)
(***************************************************************************)
EXTENDS ReportPolicies, RunArtifacts, ProductReport, BrowserProxy, ExecutionSteps,
        FiniteSetTheorems, WellFoundedInduction, TLAPS

-----------------------------------------------------------------------------
(* Least and greatest numbers, and what is folded over a set.              *)

LEMMA LeastNatural ==
  ASSUME NEW T \in SUBSET Nat, T # {} PROVE \E m \in T : \A n \in T : m <= n
<1>1. \E x \in T : \A y \in T : ~(<<y, x>> \in OpToRel(<, Nat))
  BY NatLessThanWellFounded, WFMin
<1>2. PICK x \in T : \A y \in T : ~(<<y, x>> \in OpToRel(<, Nat))
  BY <1>1
<1>3. \A y \in T : ~(y < x)
  BY <1>2 DEF OpToRel
<1>4. \A y \in T : x <= y
  <2>1. x \in Nat /\ \A y \in T : y \in Nat
    BY <1>2
  <2> QED
    BY <1>3, <2>1
<1> QED
  BY <1>2, <1>4

\* A set of numbers that holds zero, and with every number the next, is all of them.
LEMMA NaturalSetInduction ==
  ASSUME NEW T \in SUBSET Nat, 0 \in T, \A n \in T : n + 1 \in T PROVE T = Nat
<1> SUFFICES ASSUME Nat \ T # {} PROVE FALSE
  OBVIOUS
<1>1. PICK m \in Nat \ T : \A n \in Nat \ T : m <= n
  BY LeastNatural
<1>2. m - 1 \in Nat /\ m - 1 \in T
  BY <1>1
<1> QED
  BY <1>1, <1>2

-----------------------------------------------------------------------------
(* Folds: what is made of the elements of a finite set, taken one after    *)
(* another in the order of a function that names one of each set left.     *)

Picks(pick, S) == \A s \in SUBSET S : s # {} => pick[s] \in s

Sizes(pick, S) ==
  \A s \in SUBSET S :
    /\ IsFiniteSet(s) /\ Cardinality(s) \in Nat /\ (s = {} <=> Cardinality(s) = 0)
    /\ s # {} => /\ pick[s] \in s /\ s \ {pick[s]} \in SUBSET S
                 /\ Cardinality(s \ {pick[s]}) = Cardinality(s) - 1

LEMMA SubsetSizes ==
  ASSUME NEW S, IsFiniteSet(S), NEW pick, Picks(pick, S) PROVE Sizes(pick, S)
  BY FS_Subset, FS_CardinalityType, FS_EmptySet, FS_RemoveElement DEF Picks, Sizes

IsFold(h, S, pick, base, step) ==
  \A s \in SUBSET S :
    h[s] = IF s = {} THEN base ELSE step[<<h[s \ {pick[s]}], pick[s]>>]

\* There is a function that folds: on the sets of up to n elements, for each n in turn.
LEMMA FoldThere ==
  ASSUME NEW S, IsFiniteSet(S), NEW pick, Picks(pick, S), NEW A, NEW base \in A,
         NEW step \in [A \X S -> A]
  PROVE  \E h \in [SUBSET S -> A] : IsFold(h, S, pick, base, step)
<1> DEFINE Folds(h, s) == IF s = {} THEN base ELSE step[<<h[s \ {pick[s]}], pick[s]>>]
           Upto(n) == {s \in SUBSET S : Cardinality(s) <= n}
           T == {n \in Nat : \E h \in [Upto(n) -> A] : \A s \in Upto(n) : h[s] = Folds(h, s)}
<1>1. \A s \in SUBSET S :
        /\ IsFiniteSet(s) /\ Cardinality(s) \in Nat /\ (s = {} <=> Cardinality(s) = 0)
        /\ s # {} => /\ pick[s] \in s /\ s \ {pick[s]} \in SUBSET S
                     /\ Cardinality(s \ {pick[s]}) = Cardinality(s) - 1
  <2>1. Sizes(pick, S)
    BY SubsetSizes, Zenon
  <2> QED
    BY <2>1 DEF Sizes
<1>2. 0 \in T
  <2>1. \A s \in Upto(0) : s = {}
    <3>1. \A k \in Nat : k <= 0 => k = 0
      OBVIOUS
    <3>2. \A s \in SUBSET S : Cardinality(s) \in Nat /\ (s = {} <=> Cardinality(s) = 0)
      BY <1>1
    <3> QED
      BY <3>1, <3>2
  <2> HIDE DEF Upto
  <2> DEFINE h == [s \in Upto(0) |-> base]
  <2>2. h \in [Upto(0) -> A] /\ \A s \in Upto(0) : h[s] = Folds(h, s)
    BY <2>1
  <2> HIDE DEF h, Folds
  <2> QED
    BY <2>2
<1>3. ASSUME NEW n \in T PROVE n + 1 \in T
  <2>1. PICK g \in [Upto(n) -> A] : \A s \in Upto(n) : g[s] = Folds(g, s)
    OBVIOUS
  <2> DEFINE h == [s \in Upto(n + 1) |-> IF s \in Upto(n) THEN g[s] ELSE Folds(g, s)]
  <2>2. \A s \in Upto(n + 1) : s # {} => s \ {pick[s]} \in Upto(n) /\ pick[s] \in S
    <3> SUFFICES ASSUME NEW s \in Upto(n + 1), s # {}
                 PROVE  s \ {pick[s]} \in Upto(n) /\ pick[s] \in S
      OBVIOUS
    <3>1. /\ s \in SUBSET S /\ Cardinality(s) \in Nat /\ Cardinality(s) <= n + 1
          /\ Cardinality(s \ {pick[s]}) = Cardinality(s) - 1
          /\ pick[s] \in s /\ s \ {pick[s]} \in SUBSET S /\ n \in Nat
      BY <1>1
    <3>2. Cardinality(s) - 1 <= n
      BY <3>1
    <3> QED
      BY <3>1, <3>2
  <2>3. \A s \in Upto(n + 1) : Folds(h, s) = Folds(g, s) /\ Folds(g, s) \in A
    <3> SUFFICES ASSUME NEW s \in Upto(n + 1)
                 PROVE  Folds(h, s) = Folds(g, s) /\ Folds(g, s) \in A
      OBVIOUS
    <3>1. CASE s = {}
      BY <3>1
    <3>2. CASE s # {}
      <4> DEFINE r == s \ {pick[s]}
      <4>1. r \in Upto(n) /\ pick[s] \in S
        BY <2>2, <3>2
      <4>2. r \in Upto(n + 1)
        <5>1. Cardinality(r) \in Nat /\ Cardinality(r) <= n /\ n \in Nat /\ r \in SUBSET S
          BY <1>1, <4>1
        <5> HIDE DEF r
        <5> QED
          BY <5>1
      <4>3. h[r] = g[r] /\ g[r] \in A
        BY <4>1, <4>2
      <4> QED
        BY <3>2, <4>1, <4>3
    <3> QED
      BY <3>1, <3>2
  <2>4. \A s \in Upto(n + 1) : h[s] = Folds(g, s) /\ h[s] \in A
    BY <2>1, <2>3
  <2>5. h \in [Upto(n + 1) -> A] /\ \A s \in Upto(n + 1) : h[s] = Folds(h, s)
    BY <2>3, <2>4
  <2>6. n + 1 \in Nat
    OBVIOUS
  <2> HIDE DEF h, Upto, Folds
  <2> QED
    BY <2>5, <2>6
<1>4. T = Nat
  <2> HIDE DEF T
  <2>1. T \in SUBSET Nat
    BY DEF T
  <2> QED
    BY <1>2, <1>3, <2>1, NaturalSetInduction
<1>5. Cardinality(S) \in T
  BY <1>1, <1>4
<1>6. Upto(Cardinality(S)) = SUBSET S
  BY FS_Subset
<1>7. PICK h \in [SUBSET S -> A] : \A s \in SUBSET S : h[s] = Folds(h, s)
  BY <1>5, <1>6
<1> QED
  BY <1>7 DEF IsFold

\* What holds of the empty set and is kept by every step holds of every set.
LEMMA FoldKeeps ==
  ASSUME NEW S, IsFiniteSet(S), NEW pick, Picks(pick, S), NEW K \in SUBSET (SUBSET S), {} \in K,
         \A s \in SUBSET S : s # {} /\ s \ {pick[s]} \in K => s \in K
  PROVE  K = SUBSET S
<1> DEFINE T == {n \in Nat : \A s \in SUBSET S : Cardinality(s) = n => s \in K}
<1>1. \A s \in SUBSET S :
        /\ IsFiniteSet(s) /\ Cardinality(s) \in Nat /\ (s = {} <=> Cardinality(s) = 0)
        /\ s # {} => /\ pick[s] \in s /\ s \ {pick[s]} \in SUBSET S
                     /\ Cardinality(s \ {pick[s]}) = Cardinality(s) - 1
  <2>1. Sizes(pick, S)
    BY SubsetSizes, Zenon
  <2> QED
    BY <2>1 DEF Sizes
<1>2. 0 \in T
  BY <1>1
<1>3. ASSUME NEW n \in T PROVE n + 1 \in T
  <2> SUFFICES ASSUME NEW s \in SUBSET S, Cardinality(s) = n + 1 PROVE s \in K
    OBVIOUS
  <2>1. n \in Nat /\ n + 1 # 0
    OBVIOUS
  <2>2. s # {} /\ s \ {pick[s]} \in SUBSET S /\ Cardinality(s \ {pick[s]}) = n
    <3>1. s # {}
      BY <1>1, <2>1
    <3>2. Cardinality(s) - 1 = n
      BY <2>1
    <3> QED
      BY <1>1, <3>1, <3>2
  <2>3. s \ {pick[s]} \in K
    BY <2>2
  <2> QED
    BY <2>2, <2>3
<1>4. T = Nat
  <2> HIDE DEF T
  <2>1. T \in SUBSET Nat
    BY DEF T
  <2> QED
    BY <1>2, <1>3, <2>1, NaturalSetInduction
<1>5. \A s \in SUBSET S : Cardinality(s) \in T
  BY <1>1, <1>4
<1> QED
  BY <1>5

\* A set of numbers up to n has a greatest one.
LEMMA GreatestBelow ==
  ASSUME NEW n \in Nat, NEW T \in SUBSET (1 .. n), T # {} PROVE \E m \in T : \A k \in T : k <= m
<1> DEFINE D == {n - k : k \in T}
<1>1. D \in SUBSET Nat /\ D # {}
  <2>1. \A k \in T : n - k \in Nat
    OBVIOUS
  <2> QED
    BY <2>1
<1> HIDE DEF D
<1>2. PICK d \in D : \A e \in D : d <= e
  BY <1>1, LeastNatural
<1>3. PICK m \in T : d = n - m
  BY <1>2 DEF D
<1>4. \A k \in T : n - k \in D
  BY DEF D
<1>5. \A k \in T : n - m <= n - k
  BY <1>2, <1>3, <1>4
<1> QED
  BY <1>3, <1>5

\* FoldLeft takes the last element of what is left last.
LEMMA LastIsIn ==
  ASSUME NEW n \in Nat, NEW s \in SUBSET (1 .. n), s # {} PROVE Max(s) \in s
<1>1. \E m \in s : \A k \in s : k <= m
  BY GreatestBelow
<1>2. PICK m \in s : \A k \in s : m >= k
  BY <1>1
<1> QED
  BY <1>2 DEF Max

LastOne(n) == [s \in SUBSET (1 .. n) |-> Max(s)]

LEMMA LastPicks == ASSUME NEW n \in Nat PROVE Picks(LastOne(n), 1 .. n) /\ IsFiniteSet(1 .. n)
<1>1. IsFiniteSet(1 .. n)
  BY FS_Interval
<1>2. \A s \in SUBSET (1 .. n) : s # {} => Max(s) \in s
  BY LastIsIn
<1>3. Picks(LastOne(n), 1 .. n)
  BY <1>2 DEF Picks, LastOne
<1> QED
  BY <1>1, <1>3

\* The same of the lists' positions, taken from the last.
Kept(S, pick, K) ==
  /\ IsFiniteSet(S) /\ Picks(pick, S) /\ K \in SUBSET (SUBSET S) /\ {} \in K
  /\ \A s \in SUBSET S : s # {} /\ s \ {pick[s]} \in K => s \in K

LEMMA AllKept == ASSUME NEW S, NEW pick, NEW K, Kept(S, pick, K) PROVE K = SUBSET S
  BY FoldKeeps DEF Kept

LEMMA ListKeeps ==
  ASSUME NEW n \in Nat, NEW K \in SUBSET (SUBSET (1 .. n)), {} \in K,
         \A s \in SUBSET (1 .. n) : s # {} /\ s \ {LastOne(n)[s]} \in K => s \in K
  PROVE  K = SUBSET (1 .. n)
<1>1. Picks(LastOne(n), 1 .. n) /\ IsFiniteSet(1 .. n)
  BY LastPicks
<1>2. Kept(1 .. n, LastOne(n), K)
  BY <1>1 DEF Kept
<1> QED
  BY <1>2, AllKept, Zenon

-----------------------------------------------------------------------------
(* The product report.                                                      *)

ReportSpec == ReportInit /\ [][ReportNext]_productVars

-----------------------------------------------------------------------------
(* Gaps of the modules. *)

\* An item of the coverage leaves a field open.
Open(cov, k, f) ==
  /\ ~VerifiedEmpty(cov[k]) /\ GapReason(cov[k]) # "none" /\ f \in FieldsOf[cov[k].capability]

\* The last item that leaves a field open is heard of it.
LEMMA LastIsHeard ==
  ASSUME NEW cov, DOMAIN cov = 1 .. Len(cov), Len(cov) \in Nat,
         NEW i \in DOMAIN cov, NEW f, Open(cov, i, f)
  PROVE  \E k \in DOMAIN cov : /\ i <= k /\ Open(cov, k, f)
                               /\ \A l \in DOMAIN cov : Open(cov, l, f) => l <= k
                               /\ [field |-> f, reason |-> GapReason(cov[k])] \in SourceGaps(cov)
<1> DEFINE T == {k \in DOMAIN cov : Open(cov, k, f)}
           n == Len(cov)
<1>1. n \in Nat /\ T \in SUBSET (1 .. n) /\ i \in T
  OBVIOUS
<1> HIDE DEF n
<1>2. \E k \in T : \A l \in T : l <= k
  BY <1>1, GreatestBelow
<1>3. PICK k \in T : \A l \in T : l <= k
  BY <1>2
<1>4. k \in DOMAIN cov /\ Open(cov, k, f) /\ \A l \in DOMAIN cov : Open(cov, l, f) => l <= k
  BY <1>3
<1>5. i <= k
  BY <1>4
<1>6. [field |-> f, reason |-> GapReason(cov[k])] \in SourceGaps(cov)
  <2> DEFINE Speaks(j, g) == /\ ~VerifiedEmpty(cov[j]) /\ GapReason(cov[j]) # "none"
                             /\ g \in FieldsOf[cov[j].capability]
             heard(j) == {g \in FieldsOf[cov[j].capability] :
                            Speaks(j, g) /\ \A l \in DOMAIN cov : Speaks(l, g) => l <= j}
             of(j) == {[field |-> g, reason |-> GapReason(cov[j])] : g \in heard(j)}
  <2>1. SourceGaps(cov) = UNION {of(j) : j \in DOMAIN cov}
    BY DEF SourceGaps
  <2>2. f \in heard(k)
    BY <1>4 DEF Open
  <2>3. [field |-> f, reason |-> GapReason(cov[k])] \in of(k)
    BY <2>2
  <2> HIDE DEF of
  <2> QED
    BY <1>4, <2>1, <2>3
<1> QED
  BY <1>4, <1>5, <1>6

\* A source that was not read to its end has a reason for it.
LEMMA OpenSource ==
  ASSUME NEW i, Closed(i) \/ Lost(i), ~(Closed(i) /\ i.completeness # "partial")
  PROVE  /\ ~VerifiedEmpty(i) /\ GapReason(i) # "none"
         /\ GapReason(i) = "capability_absent" => i.status = "capability_absent"
  BY DEF VerifiedEmpty, Closed, Lost, GapReason

\* The gaps of a module tell of every field that is neither filled, verified to be empty
\* nor excused, and there are none only when each of its sources was read to its end or is
\* absent and its field filled.
GapsTell(m, values, gaps, excused, cov) ==
  /\ \A f \in DOMAIN values[m] \ excused :
       values[m][f] = {} => <<m, f>> \in EmptyFields(cov) \/ \E g \in gaps : g.field = <<m, f>>
  /\ m # "business_plan" /\ gaps = {} => \A i \in Range(cov), f \in DOMAIN values[m] :
       <<m, f>> \in FieldsOf[i.capability] =>
         \/ Closed(i) /\ i.completeness # "partial"
         \/ i.status = "capability_absent" /\ values[m][f] # {}

\* GapsOf, with what it is made of.
LEMMA GapsMadeOf ==
  ASSUME NEW r \in Cases, r = case, NEW m, NEW values, NEW refs, NEW known
  PROVE  \E disclosed :
           /\ \A p \in disclosed : p[2] \in Scalars /\ values[m][p[2]] # {}
           /\ \A g \in SourceGaps(case.coverage) :
                g.field[1] = m /\ ~(g.reason = "capability_absent" /\ g.field \in disclosed)
                  => g \in GapsOf(m, values, refs, known)
<1> DEFINE supported == UNION {e.supports : e \in {x \in known : x.id \in refs[m]}}
           disclosed == {<<m, f>> : f \in {x \in DOMAIN values[m] \cap Scalars : values[m][x] # {}}}
                          \cap supported
<1>1. \A p \in disclosed : p[2] \in Scalars /\ values[m][p[2]] # {}
  OBVIOUS
<1>2. \A g \in SourceGaps(case.coverage) :
        g.field[1] = m /\ ~(g.reason = "capability_absent" /\ g.field \in disclosed)
          => g \in GapsOf(m, values, refs, known)
  BY DEF GapsOf
<1> HIDE DEF disclosed
<1> QED
  BY <1>1, <1>2

\* Each source of the coverage, as it was assumed.
LEMMA CoverageIs ==
  ASSUME case \in Cases
  PROVE  LET cov == case.coverage
         IN /\ DOMAIN cov = 1 .. Len(cov) /\ Len(cov) \in Nat
            /\ \A k \in DOMAIN cov : /\ cov[k].capability \in DOMAIN FieldsOf
                                     /\ Closed(cov[k]) \/ Lost(cov[k])
            /\ \A k, l \in DOMAIN cov : k < l =>
                 /\ cov[k].capability # cov[l].capability
                 /\ \A f \in FieldsOf[cov[k].capability] \cap FieldsOf[cov[l].capability] :
                      f[2] \in Scalars => \E g \in FieldsOf[cov[k].capability] : g[1] = f[1]
                        /\ \A c \in DOMAIN FieldsOf \ {cov[k].capability} : g \notin FieldsOf[c]
  BY ReportAssumption

LEMMA GapsOfTell ==
  ASSUME case \in Cases, NEW m, NEW values, NEW refs, NEW known
  PROVE  GapsTell(m, values, GapsOf(m, values, refs, known), {}, case.coverage)
<1> DEFINE cov == case.coverage
           gaps == GapsOf(m, values, refs, known)
<1>1. ASSUME NEW f \in DOMAIN values[m], values[m][f] = {}
      PROVE  <<m, f>> \in EmptyFields(cov) \/ \E g \in gaps : g.field = <<m, f>>
  <2> DEFINE supported == UNION {e.supports : e \in {x \in known : x.id \in refs[m]}}
             disclosed == {<<m, x>> : x \in {y \in DOMAIN values[m] \cap Scalars :
                                               values[m][y] # {}}} \cap supported
             told == {g \in SourceGaps(cov) :
                        g.field[1] = m /\ ~(g.reason = "capability_absent" /\ g.field \in disclosed)}
             silent == {x \in DOMAIN values[m] :
                          /\ values[m][x] = {}
                          /\ <<m, x>> \notin {g.field : g \in told} \cup EmptyFields(cov)}
             reason == IF m \in {"business_plan", "bank_flow_analysis"}
                       THEN "not_provided" ELSE "not_disclosed"
  <2>1. gaps = told \cup {[field |-> <<m, x>>, reason |-> reason] : x \in silent}
    BY DEF GapsOf
  <2>2. f \in silent \/ (\E g \in told : g.field = <<m, f>>) \/ <<m, f>> \in EmptyFields(cov)
    BY <1>1
  <2> HIDE DEF told, silent, gaps, reason
  <2>3. CASE f \in silent
    <3>1. [field |-> <<m, f>>, reason |-> reason] \in gaps
      BY <2>1, <2>3
    <3> QED
      BY <3>1
  <2>4. CASE \E g \in told : g.field = <<m, f>>
    BY <2>1, <2>4
  <2> QED
    BY <2>2, <2>3, <2>4
<1>2. ASSUME m # "business_plan", gaps = {}, NEW i \in Range(cov), NEW f \in DOMAIN values[m],
             <<m, f>> \in FieldsOf[i.capability], ~(Closed(i) /\ i.completeness # "partial")
      PROVE  i.status = "capability_absent" /\ values[m][f] # {}
  <2>1. PICK disclosed :
          /\ \A p \in disclosed : p[2] \in Scalars /\ values[m][p[2]] # {}
          /\ \A g \in SourceGaps(cov) :
               g.field[1] = m /\ ~(g.reason = "capability_absent" /\ g.field \in disclosed)
                 => g \in gaps
    BY GapsMadeOf
  <2> HIDE DEF gaps
  <2>2. DOMAIN cov = 1 .. Len(cov) /\ Len(cov) \in Nat
    BY CoverageIs
  <2>3. PICK j \in DOMAIN cov : i = cov[j]
    BY DEF Range
  <2>4. /\ ~VerifiedEmpty(i) /\ GapReason(i) # "none"
        /\ GapReason(i) = "capability_absent" => i.status = "capability_absent"
    <3>1. Closed(i) \/ Lost(i)
      BY <2>3, CoverageIs
    <3> QED
      BY <3>1, <1>2, OpenSource
  <2>5. \A g \in FieldsOf[i.capability] : Open(cov, j, g)
    BY <2>3, <2>4 DEF Open
  <2> HIDE DEF cov
  <2>6. \A g \in FieldsOf[i.capability] : g[1] = m =>
          \E k \in DOMAIN cov : /\ j <= k /\ g \in FieldsOf[cov[k].capability]
                                /\ GapReason(cov[k]) = "capability_absent" /\ g \in disclosed
    <3> SUFFICES ASSUME NEW g \in FieldsOf[i.capability], g[1] = m
                 PROVE  \E k \in DOMAIN cov :
                          /\ j <= k /\ g \in FieldsOf[cov[k].capability]
                          /\ GapReason(cov[k]) = "capability_absent" /\ g \in disclosed
      OBVIOUS
    <3>1. PICK k \in DOMAIN cov :
            /\ j <= k /\ Open(cov, k, g)
            /\ [field |-> g, reason |-> GapReason(cov[k])] \in SourceGaps(cov)
      BY <2>2, <2>5, LastIsHeard
    <3>2. GapReason(cov[k]) = "capability_absent" /\ g \in disclosed
      BY <3>1, <2>1, <1>2
    <3> QED
      BY <3>1, <3>2 DEF Open
  <2>7. PICK k \in DOMAIN cov : /\ j <= k /\ <<m, f>> \in FieldsOf[cov[k].capability]
                                /\ GapReason(cov[k]) = "capability_absent"
                                /\ <<m, f>> \in disclosed
    BY <2>6, <1>2
  <2>8. f \in Scalars /\ values[m][f] # {}
    BY <2>7, <2>1
  <2>9. GapReason(i) = "capability_absent"
    <3>1. CASE j = k
      BY <3>1, <2>3, <2>7
    <3>2. CASE j < k
      <4>1. PICK g \in FieldsOf[cov[j].capability] :
              /\ g[1] = m
              /\ \A c \in DOMAIN FieldsOf \ {cov[j].capability} : g \notin FieldsOf[c]
        <5>1. \A x \in FieldsOf[cov[j].capability] \cap FieldsOf[cov[k].capability] :
                x[2] \in Scalars => \E g \in FieldsOf[cov[j].capability] : g[1] = x[1]
                  /\ \A c \in DOMAIN FieldsOf \ {cov[j].capability} : g \notin FieldsOf[c]
          BY <3>2, CoverageIs DEF cov
        <5> QED
          BY <5>1, <1>2, <2>3, <2>7, <2>8
      <4>2. PICK l \in DOMAIN cov : /\ j <= l /\ g \in FieldsOf[cov[l].capability]
                                    /\ GapReason(cov[l]) = "capability_absent"
        BY <4>1, <2>3, <2>6
      <4>3. cov[l].capability \in DOMAIN FieldsOf
            /\ (j < l => cov[j].capability # cov[l].capability)
        BY CoverageIs DEF cov
      <4>4. j = l
        BY <4>1, <4>2, <4>3, <2>2
      <4> QED
        BY <4>2, <4>4, <2>3
    <3> QED
      BY <3>1, <3>2, <2>2, <2>7
  <2> QED
    BY <2>4, <2>8, <2>9
<1> QED
  BY <1>1, <1>2 DEF GapsTell

-----------------------------------------------------------------------------
(* The steps of a report. *)

Shaped(p) ==
  p = [values |-> p.values, verified |-> p.verified, refs |-> p.refs, status |-> p.status,
       gaps |-> p.gaps]

\* The terms of a plan are excused when its analysis declines them.
Excused(m, p) == IF m = "business_plan" /\ p.declined THEN TermFields ELSE {}
\* A module called complete has no gap, and the gaps tell.
Told(p, excused) == \A m \in ReportModules :
  /\ p.status[m] = "complete" => p.gaps[m] = {}
  /\ GapsTell(m, p.values, p.gaps[m], excused[m], case.coverage)

\* The gaps tell of everything once it is prepared, and of all but what was declined once
\* terms were suggested; only a finished report is published, the one that was prepared.
GapsInv ==
  /\ case \in Cases
  /\ reportStage = "prepared" => Told(product, [m \in ReportModules |-> {}])
  /\ reportStage \in {"suggested", "finished"} =>
       Told(product, [m \in ReportModules |-> Excused(m, product)])
  /\ reportStage \in {"projected", "prepared"} =>
       /\ Shaped(product)
       /\ product.values = [m \in ReportModules |-> product.values[m]]
       /\ product.gaps = [m \in ReportModules |-> product.gaps[m]]
       /\ product.status = [m \in ReportModules |-> product.status[m]]
  /\ reportStage = "prepared" => product.values["business_plan"] = case.plan
  /\ IF result.published THEN reportStage = "finished" /\ result.report = product
                         ELSE reportStage # "finished"

LEMMA SectionNames ==
  ReportModules = {"business_plan", "company_profile", "ownership", "business_analysis",
                   "financial_analysis", "bank_flow_analysis", "external_verification"}
  BY DEF ReportModules, SourcesOf

\* A status is complete only without gaps.
LEMMA CompleteStatus == ASSUME NEW gaps, NEW refs, StatusOf(gaps, refs) = "complete" PROVE gaps = {}
  BY DEF StatusOf

LEMMA CompletedTells ==
  ASSUME case \in Cases, NEW r, Shaped(r), NEW known
  PROVE  LET c == Completed(r, known)
         IN /\ c = [values |-> r.values, verified |-> r.verified, refs |-> r.refs,
                    status |-> c.status, gaps |-> c.gaps]
            /\ c.status = [m \in ReportModules |-> c.status[m]]
            /\ c.gaps = [m \in ReportModules |-> c.gaps[m]]
            /\ \A m \in ReportModules :
                 /\ c.status[m] = "complete" => c.gaps[m] = {}
                 /\ GapsTell(m, r.values, c.gaps[m], {}, case.coverage)
<1> DEFINE gaps == [m \in ReportModules |-> GapsOf(m, r.values, r.refs, known)]
           status == [m \in ReportModules |-> StatusOf(gaps[m], r.refs[m])]
<1>1. Completed(r, known) = [r EXCEPT !.gaps = gaps, !.status = status]
  BY DEF Completed
<1>2. \A m \in ReportModules : /\ status[m] = "complete" => gaps[m] = {}
                               /\ GapsTell(m, r.values, gaps[m], {}, case.coverage)
  BY CompleteStatus, GapsOfTell
<1>3. gaps = [m \in ReportModules |-> gaps[m]] /\ status = [m \in ReportModules |-> status[m]]
  OBVIOUS
<1> HIDE DEF gaps, status
<1>4. Completed(r, known) = [values |-> r.values, verified |-> r.verified, refs |-> r.refs,
                             status |-> status, gaps |-> gaps]
  BY <1>1 DEF Shaped
<1> QED
  BY <1>2, <1>3, <1>4

LEMMA GapsInitially == ASSUME ReportInit PROVE GapsInv
  BY DEF ReportInit, GapsInv

LEMMA ReviewGaps == ASSUME GapsInv, ReviewReport PROVE GapsInv'
<1>1. /\ UNCHANGED <<case, product, result>> /\ reportStage = "start"
      /\ reportStage' \in {"refused", "reviewed"}
  BY DEF ReviewReport, Refuse
<1> QED
  BY <1>1 DEF GapsInv

LEMMA ProjectGaps == ASSUME GapsInv, ProjectReport PROVE GapsInv'
<1>1. CASE Refuse
  BY <1>1 DEF Refuse, GapsInv, ProjectReport
<1>2. CASE ~Refuse
  <2>1. /\ product' = [values |-> ProjectedValues, verified |-> ProjectedChecks,
                       refs |-> [m \in ReportModules |-> Cites(SourcesOf[m])],
                       status |-> [m \in ReportModules |-> "unavailable"],
                       gaps |-> [m \in ReportModules |-> {}]]
        /\ reportStage = "reviewed" /\ reportStage' = "projected" /\ UNCHANGED <<case, result>>
    BY <1>2 DEF ProjectReport
  <2>2. ProjectedValues = [m \in ReportModules |-> ProjectedValues[m]]
    BY SectionNames DEF ProjectedValues
  <2> HIDE DEF ReportModules, ProjectedValues
  <2>3. /\ Shaped(product') /\ product'.values = ProjectedValues
        /\ product'.status = [m \in ReportModules |-> "unavailable"]
        /\ product'.gaps = [m \in ReportModules |-> {}]
    BY <2>1 DEF Shaped
  <2> QED
    BY <2>1, <2>2, <2>3 DEF GapsInv
<1> QED
  BY <1>1, <1>2

\* What the gaps tell of a module depends on its own values only.
LEMMA TellsOf ==
  ASSUME NEW m, NEW values, NEW others, NEW gaps, NEW cov, values[m] = others[m],
         GapsTell(m, values, gaps, {}, cov)
  PROVE  GapsTell(m, others, gaps, {}, cov)
  BY DEF GapsTell

LEMMA PrepareGaps == ASSUME GapsInv, PrepareReport PROVE GapsInv'
<1>1. CASE Refuse
  BY <1>1 DEF Refuse, GapsInv, PrepareReport
<1>2. CASE ~Refuse
  <2> DEFINE known == citable \cup CallerEvidence
             derived == DerivedEvidence(PreparedRefs, known)
             checks == StatedChecks
             values == [product.values EXCEPT
               !.business_plan = case.plan,
               !.company_profile.highlights = Latest,
               !.financial_analysis.periods = Statements,
               !.financial_analysis.reconciliation = {Reconciled(Statements)},
               !.bank_flow_analysis = FlowValues,
               !.external_verification = [x \in Areas |-> checks[x].facts]]
             refs == WithDerived(PreparedRefs, derived)
             all == known \cup derived
             r == [product EXCEPT !.values = values, !.verified = checks, !.refs = refs]
  <2>1. /\ product' = Completed(r, all) /\ reportStage = "projected" /\ reportStage' = "prepared"
        /\ UNCHANGED <<case, result>>
    BY <1>2 DEF PrepareReport
  <2>2. Shaped(product) /\ product.values = [m \in ReportModules |-> product.values[m]]
    BY <2>1 DEF GapsInv
  <2>3. /\ values = [m \in ReportModules |-> values[m]]
        /\ values["business_plan"] = case.plan
    BY <2>2, SectionNames
  <2> HIDE DEF values, checks, refs, all, derived, known
  <2>4. r = [product EXCEPT !.values = values, !.verified = checks, !.refs = refs]
    OBVIOUS
  <2> HIDE DEF r
  <2>5. Shaped(r) /\ r.values = values
    <3>1. PICK v, c, x, st, g :
            product = [values |-> v, verified |-> c, refs |-> x, status |-> st, gaps |-> g]
      BY <2>2 DEF Shaped
    <3>2. r = [values |-> values, verified |-> checks, refs |-> refs, status |-> st, gaps |-> g]
      BY <2>4, <3>1
    <3> QED
      BY <3>2 DEF Shaped
  <2> DEFINE c == Completed(r, all)
  <2>6. /\ c = [values |-> values, verified |-> r.verified, refs |-> r.refs,
                status |-> c.status, gaps |-> c.gaps]
        /\ c.status = [m \in ReportModules |-> c.status[m]]
        /\ c.gaps = [m \in ReportModules |-> c.gaps[m]]
        /\ \A m \in ReportModules : /\ c.status[m] = "complete" => c.gaps[m] = {}
                                    /\ GapsTell(m, values, c.gaps[m], {}, case.coverage)
    BY <2>5, CompletedTells DEF GapsInv
  <2>7. product' = c
    BY <2>1
  <2> HIDE DEF c, ReportModules
  <2>8. Shaped(c) /\ c.values = values
    BY <2>6 DEF Shaped
  <2>9. case' = case /\ case \in Cases /\ result' = result /\ ~result.published
    BY <2>1 DEF GapsInv
  <2>10. Told(c, [m \in ReportModules |-> {}])
    BY <2>6, <2>8 DEF Told
  <2>11. Told(product, [m \in ReportModules |-> {}])'
    BY <2>7, <2>9, <2>10 DEF Told
  <2> QED
    BY <2>1, <2>3, <2>6, <2>7, <2>8, <2>9, <2>11 DEF GapsInv
<1> QED
  BY <1>1, <1>2

\* A step suggests by some wish that cites what the report has, with or without the
\* analyses a model was to write.
LEMMA SuggestedByRules ==
  ASSUME SuggestTerms
  PROVE  \E wish : /\ wish.cites \subseteq {e.id : e \in citable}
                   /\ \/ product' = Suggested(product, wish)
                      \/ product' = Unwritten(Suggested(product, wish))
<1>1. NoWish.cites = {}
  BY DEF NoWish
<1>2. CASE product' = Suggested(product, NoWish) \/ product' = Unwritten(Suggested(product, NoWish))
  BY <1>1, <1>2
<1>3. CASE \E wish \in Wishes : /\ Permitted(Limits(product.values.business_plan), wish)
                                /\ wish.cites \subseteq {e.id : e \in citable}
                                /\ product' = Suggested(product, wish)
  BY <1>3
<1> QED
  BY <1>2, <1>3 DEF SuggestTerms

\* What a suggestion leaves alone, and what it refers to.
LEMMA SuggestedKeeps ==
  ASSUME NEW r, NEW wish
  PROVE  LET refs == [r.refs EXCEPT !.business_plan =
                        @ \cup wish.cites \cup UNION {c.evidence : c \in cards}]
         IN /\ Suggested(r, wish).verified = r.verified /\ Suggested(r, wish).refs = refs
            /\ Unwritten(Suggested(r, wish)).verified = r.verified
            /\ Unwritten(Suggested(r, wish)).refs = refs
<1> DEFINE refs == [r.refs EXCEPT !.business_plan =
                      @ \cup wish.cites \cup UNION {c.evidence : c \in cards}]
           t == Suggested(r, wish)
<1>1. t.verified = r.verified /\ t.refs = refs
  BY DEF Suggested
<1>2. PICK v, x, g, st, c, d : t = [values |-> v, refs |-> x, gaps |-> g, status |-> st,
                                    verified |-> c, declined |-> d]
  BY DEF Suggested
<1> HIDE DEF t, refs
<1>3. Unwritten(t).verified = t.verified /\ Unwritten(t).refs = t.refs
  BY <1>2 DEF Unwritten
<1> QED
  BY <1>1, <1>3 DEF t, refs

\* A term is left empty only when new credit is declined.
LEMMA OnlyTermsAreDeclined ==
  ASSUME NEW limits, NEW wish, NEW f \in SuggestionFields, Terms(limits, wish)[f] = {}
  PROVE  f \in TermFields /\ Stopped(limits, wish)
<1>1. f \in {"suggested_amount", "suggested_rate", "credit_term", "loan_term", "guarantee", "repayment"}
  BY DEF SuggestionFields, PlanFields
<1>2. f \notin {"suggested_amount", "suggested_rate"}
  BY DEF Terms
<1>3. f \in TermFields
  BY <1>1, <1>2 DEF TermFields
<1>4. ~Stopped(limits, wish) => Terms(limits, wish)[f] # {}
  BY <1>3 DEF Terms, TermFields
<1> QED
  BY <1>3, <1>4

\* The terms suggested take away the gaps of the fields they fill or decline.
LEMMA SuggestedTold ==
  ASSUME case \in Cases, NEW r, r.values["business_plan"] = case.plan,
         r.values = [m \in ReportModules |-> r.values[m]],
         r.gaps = [m \in ReportModules |-> r.gaps[m]],
         r.status = [m \in ReportModules |-> r.status[m]],
         Told(r, [m \in ReportModules |-> {}]), NEW wish
  PROVE  LET s == Suggested(r, wish) IN Told(s, [m \in ReportModules |-> Excused(m, s)])
<1> DEFINE plan == case.plan
           declined == Stopped(Limits(plan), wish)
           changes == {x \in SuggestionFields : plan[x] = {}}
           left == {g \in r.gaps["business_plan"] : g.field[2] \notin changes}
           filled == [f \in PlanFields |-> IF f \in changes THEN Terms(Limits(plan), wish)[f]
                                           ELSE plan[f]]
           mark == IF left = {} THEN "complete" ELSE "partial"
           V == [r.values EXCEPT !["business_plan"] = filled]
           G == [r.gaps EXCEPT !["business_plan"] = left]
           S == [r.status EXCEPT !["business_plan"] = mark]
           s == Suggested(r, wish)
<1>1. s.values = V /\ s.gaps = G /\ s.status = S /\ s.declined = declined
  BY DEF Suggested
<1>2. DOMAIN plan = PlanFields
  BY ReportAssumption
<1>3. "business_plan" \in ReportModules
  BY SectionNames
<1>4. \A m \in ReportModules : /\ r.status[m] = "complete" => r.gaps[m] = {}
                               /\ GapsTell(m, r.values, r.gaps[m], {}, case.coverage)
  BY DEF Told
<1>5. V["business_plan"] = filled
  <2> HIDE DEF filled, ReportModules
  <2> QED
    BY <1>3
<1>6. GapsTell("business_plan", V, left, IF declined THEN TermFields ELSE {}, case.coverage)
  <2> DEFINE excused == IF declined THEN TermFields ELSE {}
             told == r.gaps["business_plan"]
             empty == EmptyFields(case.coverage)
  <2>1. \A f \in PlanFields : plan[f] = {} => <<"business_plan", f>> \in empty
                                  \/ \E g \in told : g.field = <<"business_plan", f>>
    BY <1>2, <1>3, <1>4 DEF GapsTell
  <2>2. \A f \in PlanFields \ excused : filled[f] = {} => f \notin changes /\ plan[f] = {}
    <3> SUFFICES ASSUME NEW f \in PlanFields \ excused, filled[f] = {}
                 PROVE  f \notin changes /\ plan[f] = {}
      OBVIOUS
    <3>1. f \notin changes
      BY OnlyTermsAreDeclined
    <3> QED
      BY <3>1
  <2> HIDE DEF plan, changes, declined, told, empty, excused
  <2>3. \A f \in PlanFields \ excused : filled[f] = {} =>
          <<"business_plan", f>> \in empty \/ \E g \in left : g.field = <<"business_plan", f>>
    <3> SUFFICES ASSUME NEW f \in PlanFields \ excused, filled[f] = {}
                 PROVE  <<"business_plan", f>> \in empty
                          \/ \E g \in left : g.field = <<"business_plan", f>>
      OBVIOUS
    <3>1. f \notin changes /\ plan[f] = {}
      BY <2>2
    <3>2. \A g \in told : g.field = <<"business_plan", f>> => g \in left
      BY <3>1 DEF told
    <3> QED
      BY <2>1, <3>1, <3>2
  <2>4. DOMAIN filled = PlanFields
    OBVIOUS
  <2> HIDE DEF filled, left, V
  <2>5. GapsTell("business_plan", V, left, excused, case.coverage)
    BY <1>5, <2>3, <2>4 DEF GapsTell, empty
  <2> QED
    BY <2>5 DEF excused
<1> HIDE DEF s, filled, left, mark, declined, changes, plan, ReportModules
<1>7. /\ G["business_plan"] = left /\ S["business_plan"] = mark
      /\ \A m \in ReportModules \ {"business_plan"} :
           V[m] = r.values[m] /\ G[m] = r.gaps[m] /\ S[m] = r.status[m]
  BY <1>3
<1> HIDE DEF V, G, S
<1> SUFFICES ASSUME NEW m \in ReportModules
             PROVE  /\ s.status[m] = "complete" => s.gaps[m] = {}
                    /\ GapsTell(m, s.values, s.gaps[m], Excused(m, s), case.coverage)
  BY DEF Told, s
<1>8. CASE m = "business_plan"
  <2>1. s.status[m] = "complete" => s.gaps[m] = {}
    BY <1>1, <1>7, <1>8 DEF mark
  <2>2. Excused(m, s) = IF declined THEN TermFields ELSE {}
    BY <1>1, <1>8 DEF Excused
  <2> QED
    BY <1>1, <1>6, <1>7, <1>8, <2>1, <2>2
<1>9. CASE m # "business_plan"
  <2>1. V[m] = r.values[m] /\ G[m] = r.gaps[m] /\ S[m] = r.status[m] /\ Excused(m, s) = {}
    BY <1>7, <1>9 DEF Excused
  <2> QED
    BY <1>1, <1>4, <2>1, TellsOf
<1> QED
  BY <1>8, <1>9

\* Without the analyses no module is complete.
LEMMA UnwrittenTold ==
  ASSUME NEW r, NEW wish, NEW s, s = Suggested(r, wish),
         Told(s, [m \in ReportModules |-> Excused(m, s)])
  PROVE  LET u == Unwritten(s) IN Told(u, [m \in ReportModules |-> Excused(m, u)])
<1> DEFINE missing(m) == {[field |-> <<m, "analysis">>, reason |-> "generation_failed"]}
           G == [m \in ReportModules |-> s.gaps[m] \cup missing(m)]
           S == [m \in ReportModules |-> IF s.refs[m] # {} THEN "partial" ELSE "unavailable"]
           u == Unwritten(s)
<1>1. PICK v, x, g, st, c, d : s = [values |-> v, refs |-> x, gaps |-> g, status |-> st,
                                    verified |-> c, declined |-> d]
  BY DEF Suggested
<1>2. u = [s EXCEPT !.gaps = G, !.status = S]
  BY DEF Unwritten
<1> HIDE DEF G, S, u
<1>3. u.values = s.values /\ u.declined = s.declined /\ u.gaps = G /\ u.status = S
  BY <1>1, <1>2
<1>4. \A m \in ReportModules : S[m] # "complete" /\ G[m] # {} /\ s.gaps[m] \subseteq G[m]
  BY DEF S, G
<1>5. ASSUME NEW m \in ReportModules
      PROVE  /\ u.status[m] = "complete" => u.gaps[m] = {}
             /\ GapsTell(m, u.values, u.gaps[m], Excused(m, u), case.coverage)
  <2>1. GapsTell(m, s.values, s.gaps[m], Excused(m, s), case.coverage)
    BY DEF Told
  <2>2. Excused(m, u) = Excused(m, s)
    BY <1>3 DEF Excused
  <2> HIDE DEF ReportModules
  <2>3. GapsTell(m, u.values, u.gaps[m], Excused(m, s), case.coverage)
    BY <1>3, <1>4, <2>1 DEF GapsTell
  <2> QED
    BY <1>3, <1>4, <2>2, <2>3
<1> QED
  BY <1>5 DEF Told, u

LEMMA SuggestGaps == ASSUME GapsInv, SuggestTerms PROVE GapsInv'
<1>1. /\ reportStage = "prepared" /\ reportStage' = "suggested" /\ UNCHANGED <<case, result>>
  BY DEF SuggestTerms
<1>2. /\ case \in Cases /\ product.values["business_plan"] = case.plan /\ ~result.published
      /\ product.values = [m \in ReportModules |-> product.values[m]]
      /\ product.gaps = [m \in ReportModules |-> product.gaps[m]]
      /\ product.status = [m \in ReportModules |-> product.status[m]]
      /\ Told(product, [m \in ReportModules |-> {}])
  BY <1>1 DEF GapsInv
<1>3. PICK wish : product' = Suggested(product, wish) \/ product' = Unwritten(Suggested(product, wish))
  BY SuggestedByRules
<1> DEFINE s == Suggested(product, wish)
<1>4. Told(s, [m \in ReportModules |-> Excused(m, s)])
  BY <1>2, SuggestedTold
<1>5. LET u == Unwritten(s) IN Told(u, [m \in ReportModules |-> Excused(m, u)])
  BY <1>4, UnwrittenTold
<1> HIDE DEF s
<1>6. Told(product', [m \in ReportModules |-> Excused(m, product')])
  BY <1>3, <1>4, <1>5 DEF s
<1>7. Told(product, [m \in ReportModules |-> Excused(m, product)])'
  BY <1>1, <1>6 DEF Told
<1> QED
  BY <1>1, <1>2, <1>7 DEF GapsInv

LEMMA SameTold ==
  ASSUME UNCHANGED <<case, product>> PROVE \A e : Told(product, e)' <=> Told(product, e)
  BY DEF Told

LEMMA FinishGaps == ASSUME GapsInv, FinishReport PROVE GapsInv'
<1>1. /\ UNCHANGED <<case, product>> /\ reportStage = "suggested"
      /\ \/ reportStage' = "refused" /\ result' = result
         \/ reportStage' = "finished" /\ result'.published /\ result'.report = product
  BY DEF FinishReport, Refuse
<1>2. \A e : Told(product, e)' <=> Told(product, e)
  BY <1>1, SameTold
<1> QED
  BY <1>1, <1>2 DEF GapsInv

LEMMA AnsweredWhenComplete == ASSUME GapsInv PROVE CompleteIsAnswered
<1> SUFFICES ASSUME result.published, NEW m \in ReportModules, product.status[m] = "complete"
             PROVE  /\ \A f \in DOMAIN product.values[m] :
                         \/ product.values[m][f] # {} \/ <<m, f>> \in EmptyFields(case.coverage)
                         \/ m = "business_plan" /\ f \in TermFields /\ product.declined
                    /\ \A i \in Range(case.coverage), f \in DOMAIN product.values[m] :
                         <<m, f>> \in FieldsOf[i.capability] =>
                           \/ Closed(i) /\ i.completeness # "partial"
                           \/ i.status = "capability_absent" /\ product.values[m][f] # {}
  BY DEF GapsInv, CompleteIsAnswered
<1>1. GapsTell(m, product.values, {}, Excused(m, product), case.coverage)
  BY DEF GapsInv, Told
<1>2. \A f \in Excused(m, product) : m = "business_plan" /\ f \in TermFields /\ product.declined
  BY DEF Excused
<1>3. ASSUME NEW f \in DOMAIN product.values[m]
      PROVE  \/ product.values[m][f] # {} \/ <<m, f>> \in EmptyFields(case.coverage)
             \/ m = "business_plan" /\ f \in TermFields /\ product.declined
  BY <1>1, <1>2 DEF GapsTell
<1>4. CASE m = "business_plan"
  <2>1. \A i \in Range(case.coverage) : \A f : <<m, f>> \notin FieldsOf[i.capability]
    <3>1. \A i \in Range(case.coverage) : i.capability \in DOMAIN FieldsOf
      BY CoverageIs DEF GapsInv, Range
    <3>2. \A c \in DOMAIN FieldsOf : \A f \in FieldsOf[c] : f[1] # "business_plan"
      BY ReportAssumption
    <3> QED
      BY <3>1, <3>2, <1>4
  <2> QED
    BY <2>1, <1>3
<1>5. CASE m # "business_plan"
  BY <1>1, <1>3, <1>5 DEF GapsTell
<1> QED
  BY <1>4, <1>5

LEMMA UnchangedGaps == ASSUME GapsInv, UNCHANGED productVars PROVE GapsInv'
<1>1. UNCHANGED <<case, reportStage, product, result>>
  BY DEF productVars
<1>2. \A e : Told(product, e)' <=> Told(product, e)
  BY <1>1, SameTold
<1> QED
  BY <1>1, <1>2 DEF GapsInv

\* For every run, wish and catalog that is as assumed: a module that is called complete has
\* its fields filled or verified to be empty, but for terms its analysis declines, and from
\* sources read to their end.
THEOREM CompleteStaysAnswered == ReportSpec => []CompleteIsAnswered
<1>1. ReportInit => GapsInv
  BY GapsInitially
<1>2. GapsInv /\ [ReportNext]_productVars => GapsInv'
  <2>1. GapsInv /\ UNCHANGED productVars => GapsInv'
    BY UnchangedGaps
  <2> QED
    BY <2>1, ReviewGaps, ProjectGaps, PrepareGaps, SuggestGaps, FinishGaps DEF ReportNext
<1> QED
  BY <1>1, <1>2, AnsweredWhenComplete, PTL DEF ReportSpec

-----------------------------------------------------------------------------
(* Risks. *)

ReviewOfInputs == ReviewedInputs(Range(case.coverage), case.checks, case.evidence, case.conflicts,
                         case.demo, case.errors)
AtRisk == {f \in FindingsOf(case.checks) : f.class # "non_risk"}
Attended(verified) ==
  \A x \in Areas, f \in AtRisk :
    f.domain \in Verifying[x].domains => verified[x].status = "attention"

\* A report is made of the review it began with: the areas of its risks stay under
\* attention, and what is published cites the evidence of its cards.
RisksInv ==
  /\ reportStage \in {"reviewed", "projected", "prepared", "suggested", "finished"} =>
       reviewed = ReviewOfInputs
  /\ reportStage \in {"projected", "prepared", "suggested", "finished"} =>
       cards = Cards(FindingsOf(case.checks)) /\ Attended(product.verified)
  /\ result.published =>
       /\ result.report = product /\ result.cards = cards /\ result.advice = Advice(product)
       /\ \A c \in cards : c.evidence \subseteq {e.id : e \in result.evidence}

\* A check's finding is accepted, and has a card of its own claim and evidence.
LEMMA EveryRiskHasACard ==
  ASSUME NEW f \in AtRisk
  PROVE  /\ f.status = "accepted"
         /\ \E c \in Cards(FindingsOf(case.checks)) :
              c.claim = f.claim /\ c.evidence = f.evidence /\ f.check \in c.checks
<1> DEFINE all == FindingsOf(case.checks)
           stated == {g \in all : g.status = "accepted" /\ g.class # "non_risk"}
           Same(s) == {g \in stated : <<g.claim, g.evidence>> = s}
           s == <<f.claim, f.evidence>>
           c == [claim |-> s[1], evidence |-> s[2], checks |-> {g.check : g \in Same(s)}]
<1>1. \A g \in all : g.status = "accepted"
  BY DEF FindingsOf
<1>2. f \in stated
  BY <1>1 DEF AtRisk
<1>3. f \in Same(s)
  BY <1>2
<1> HIDE DEF stated
<1>4. c \in Cards(all)
  BY <1>2 DEF Cards, stated
<1>5. c.claim = f.claim /\ c.evidence = f.evidence /\ f.check \in c.checks
  BY <1>3
<1> HIDE DEF c
<1> QED
  BY <1>1, <1>2, <1>4, <1>5 DEF stated

\* The areas of a risk are under attention once the facts are projected.
LEMMA ProjectedAttend ==
  ASSUME reviewed = ReviewOfInputs PROVE Attended(ProjectedChecks)
<1> SUFFICES ASSUME NEW x \in Areas, NEW f \in AtRisk, f.domain \in Verifying[x].domains
             PROVE  ProjectedChecks[x].status = "attention"
  BY DEF Attended
<1>1. f \in reviewed.findings /\ f.status = "accepted" /\ f.class # "non_risk"
  BY EveryRiskHasACard DEF AtRisk, ReviewOfInputs, ReviewedInputs
<1>2. Verification(x, case.coverage, reviewed.findings) = "attention"
  BY <1>1 DEF Verification
<1>3. ProjectedChecks[x].status = Verification(x, case.coverage, reviewed.findings)
  BY DEF ProjectedChecks
<1> QED
  BY <1>2, <1>3

\* What the caller states is of no risk's domain.
LEMMA StatedAttend == ASSUME Attended(product.verified) PROVE Attended(StatedChecks)
<1> SUFFICES ASSUME NEW x \in Areas, NEW f \in AtRisk, f.domain \in Verifying[x].domains
             PROVE  StatedChecks[x].status = "attention"
  BY DEF Attended
<1>1. x \notin {"credit_info", "internal_record"}
  <2>1. x \in {"credit_info", "internal_record"} => Verifying[x].domains = {}
    BY ReportAssumption DEF Areas
  <2> QED
    BY <2>1
<1>2. StatedChecks[x] = product.verified[x]
  BY <1>1 DEF StatedChecks
<1> QED
  BY <1>2 DEF Attended

\* The review, the risks and the advice depend on the case alone.
LEMMA SameCase ==
  ASSUME UNCHANGED case
  PROVE  /\ ReviewOfInputs' = ReviewOfInputs /\ AtRisk' = AtRisk
         /\ \A v : Attended(v)' = Attended(v)
  BY DEF ReviewOfInputs, AtRisk, Attended

\* Until it is finished a report publishes nothing.
LEMMA NotYetPublished == ASSUME GapsInv, reportStage # "finished" PROVE ~result.published
  BY DEF GapsInv

LEMMA RisksInitially == ASSUME ReportInit PROVE RisksInv
  BY DEF ReportInit, RisksInv

LEMMA ReviewRisks == ASSUME GapsInv, RisksInv, ReviewReport PROVE RisksInv'
<1>1. /\ UNCHANGED <<case, result>> /\ reportStage = "start"
      /\ \/ reportStage' = "refused"
         \/ reportStage' = "reviewed" /\ reviewed' = ReviewOfInputs
  BY DEF ReviewReport, Refuse, ReviewOfInputs
<1>2. ~result'.published
  BY <1>1, NotYetPublished
<1>3. ReviewOfInputs' = ReviewOfInputs
  BY <1>1, SameCase
<1> QED
  BY <1>1, <1>2, <1>3 DEF RisksInv

LEMMA ProjectRisks == ASSUME GapsInv, RisksInv, ProjectReport PROVE RisksInv'
<1>1. /\ UNCHANGED <<case, reviewed, result>> /\ reportStage = "reviewed"
      /\ \/ reportStage' = "refused"
         \/ /\ reportStage' = "projected" /\ cards' = Cards(reviewed.findings)
            /\ product'.verified = ProjectedChecks
  <2>1. CASE Refuse
    BY <2>1 DEF ProjectReport, Refuse
  <2>2. CASE ~Refuse
    <3> HIDE DEF ProjectedChecks, ProjectedValues, ReportModules
    <3> QED
      BY <2>2 DEF ProjectReport
  <2> QED
    BY <2>1, <2>2
<1>2. ~result'.published /\ reviewed = ReviewOfInputs
  BY <1>1, NotYetPublished DEF RisksInv
<1>3. ReviewOfInputs' = ReviewOfInputs /\ \A v : Attended(v)' = Attended(v)
  BY <1>1, SameCase
<1>4. Attended(ProjectedChecks) /\ reviewed.findings = FindingsOf(case.checks)
  BY <1>2, ProjectedAttend DEF ReviewOfInputs, ReviewedInputs
<1>5. CASE reportStage' = "refused"
  BY <1>2, <1>5 DEF RisksInv
<1>6. CASE reportStage' # "refused"
  <2>1. Attended(product.verified)'
    BY <1>1, <1>3, <1>4, <1>6 DEF Attended, AtRisk
  <2> QED
    BY <1>1, <1>2, <1>3, <1>4, <1>6, <2>1 DEF RisksInv
<1> QED
  BY <1>5, <1>6

LEMMA PrepareRisks == ASSUME GapsInv, RisksInv, PrepareReport PROVE RisksInv'
<1>1. /\ UNCHANGED <<case, reviewed, cards, result>> /\ reportStage = "projected"
      /\ \/ reportStage' = "refused"
         \/ /\ reportStage' = "prepared"
            /\ product'.verified = StatedChecks
  <2>1. CASE Refuse
    BY <2>1 DEF PrepareReport, Refuse
  <2>2. CASE ~Refuse
    <3> DEFINE known == citable \cup CallerEvidence
               derived == DerivedEvidence(PreparedRefs, known)
               checks == StatedChecks
               values == [product.values EXCEPT
                 !.business_plan = case.plan,
                 !.company_profile.highlights = Latest,
                 !.financial_analysis.periods = Statements,
                 !.financial_analysis.reconciliation = {Reconciled(Statements)},
                 !.bank_flow_analysis = FlowValues,
                 !.external_verification = [x \in Areas |-> checks[x].facts]]
               refs == WithDerived(PreparedRefs, derived)
               all == known \cup derived
               r == [product EXCEPT !.values = values, !.verified = checks, !.refs = refs]
    <3>1. /\ product' = Completed(r, all) /\ reportStage = "projected" /\ reportStage' = "prepared"
          /\ UNCHANGED <<case, reviewed, cards, result>>
      BY <2>2 DEF PrepareReport
    <3>2. Shaped(product) /\ case \in Cases
      BY <3>1 DEF GapsInv
    <3> HIDE DEF values, checks, refs, all, derived, known
    <3>3. r = [product EXCEPT !.values = values, !.verified = checks, !.refs = refs]
      OBVIOUS
    <3> HIDE DEF r
    <3>4. Shaped(r) /\ r.verified = checks
      <4>1. PICK v, c, x, st, g :
              product = [values |-> v, verified |-> c, refs |-> x, status |-> st, gaps |-> g]
        BY <3>2 DEF Shaped
      <4>2. r = [values |-> values, verified |-> checks, refs |-> refs, status |-> st, gaps |-> g]
        BY <3>3, <4>1
      <4> QED
        BY <4>2 DEF Shaped
    <3> DEFINE c == Completed(r, all)
    <3>5. c = [values |-> r.values, verified |-> r.verified, refs |-> r.refs,
               status |-> c.status, gaps |-> c.gaps]
      BY <3>2, <3>4, CompletedTells
    <3>6. product' = c
      BY <3>1
    <3> HIDE DEF c
    <3>7. product'.verified = checks
      BY <3>4, <3>5, <3>6
    <3> QED
      BY <3>1, <3>7 DEF checks
  <2> QED
    BY <2>1, <2>2
<1>2. ~result'.published /\ reviewed = ReviewOfInputs /\ Attended(product.verified)
      /\ cards = Cards(FindingsOf(case.checks))
  BY <1>1, NotYetPublished DEF RisksInv
<1>3. ReviewOfInputs' = ReviewOfInputs
  BY <1>1, SameCase
<1>4. Attended(StatedChecks)
  BY <1>2, StatedAttend
<1>5. CASE reportStage' = "refused"
  BY <1>2, <1>5 DEF RisksInv
<1>6. CASE reportStage' # "refused"
  <2>1. Attended(product.verified)'
    BY <1>1, <1>4, <1>6 DEF Attended, AtRisk
  <2> QED
    BY <1>1, <1>2, <1>3, <1>6, <2>1 DEF RisksInv
<1> QED
  BY <1>5, <1>6

LEMMA SuggestRisks == ASSUME GapsInv, RisksInv, SuggestTerms PROVE RisksInv'
<1>1. /\ UNCHANGED <<case, reviewed, cards, result>> /\ reportStage = "prepared"
      /\ reportStage' = "suggested" /\ product'.verified = product.verified
  <2>1. PICK wish : product' = Suggested(product, wish)
                    \/ product' = Unwritten(Suggested(product, wish))
    BY SuggestedByRules
  <2>2. CASE product' = Suggested(product, wish)
    BY <2>2, SuggestedKeeps DEF SuggestTerms
  <2>3. CASE product' = Unwritten(Suggested(product, wish))
    BY <2>3, SuggestedKeeps DEF SuggestTerms
  <2> QED
    BY <2>1, <2>2, <2>3
<1>2. ~result'.published
  BY <1>1, NotYetPublished
<1>3. ReviewOfInputs' = ReviewOfInputs
  BY <1>1, SameCase
<1> QED
  BY <1>1, <1>2, <1>3 DEF RisksInv, Attended, AtRisk

LEMMA FinishRisks == ASSUME GapsInv, RisksInv, FinishReport PROVE RisksInv'
<1>1. /\ UNCHANGED <<case, reviewed, product, cards>> /\ reportStage = "suggested"
      /\ \/ reportStage' = "refused" /\ result' = result
         \/ /\ reportStage' = "finished" /\ result'.report = product /\ result'.cards = cards
            /\ result'.advice = Advice(product) /\ Satisfied(result')
  <2> DEFINE used == {e \in citable : e.id \in Lineage(Referenced(product))}
             made == [published |-> TRUE, report |-> product, cards |-> cards, evidence |-> used,
                      riskCount |-> Cardinality(cards), advice |-> Advice(product),
                      status |-> IF Incompletely(product) THEN "partial" ELSE "completed",
                      mock |-> \E e \in used : e.mock]
  <2>1. /\ reportStage = "suggested" /\ UNCHANGED <<case, reviewed, product, cards>>
        /\ \/ Satisfied(made) /\ result' = made /\ reportStage' = "finished"
           \/ reportStage' = "refused" /\ result' = result
    BY DEF FinishReport, Refuse
  <2>2. made.report = product /\ made.cards = cards /\ made.advice = Advice(product)
    OBVIOUS
  <2> HIDE DEF made
  <2> QED
    BY <2>1, <2>2
<1>2. ~result.published
  BY <1>1, NotYetPublished
<1>3. ReviewOfInputs' = ReviewOfInputs
  BY <1>1, SameCase
<1>4. CASE reportStage' = "refused"
  BY <1>1, <1>2, <1>4 DEF RisksInv
<1>5. CASE reportStage' # "refused"
  <2>1. Referenced(product) \subseteq {e.id : e \in result'.evidence}
    BY <1>1, <1>5 DEF Satisfied
  <2>2. \A c \in cards : c.evidence \subseteq {e.id : e \in result'.evidence}
    <3>1. (UNION {c.evidence : c \in cards}) \subseteq Referenced(product)
      BY DEF Referenced
    <3>2. \A c \in cards : c.evidence \subseteq UNION {k.evidence : k \in cards}
      OBVIOUS
    <3> QED
      BY <2>1, <3>1, <3>2
  <2>3. Advice(product)' = Advice(product)
    BY <1>1 DEF Advice, Incompletely
  <2> QED
    BY <1>1, <1>3, <1>5, <2>2, <2>3 DEF RisksInv, Attended, AtRisk
<1> QED
  BY <1>4, <1>5

\* Who is told to proceed passed the rules, with every check concluded and no source lost.
LEMMA ProceedWhenSound ==
  ASSUME reviewed = ReviewOfInputs, Advice(product) = "proceed"
  PROVE  /\ ScoreOf(FindingsOf(case.checks)) < PassBelow
         /\ \A c \in case.checks : c.status # "inconclusive"
         /\ \A i \in Range(case.coverage) : ~Lost(i)
<1> DEFINE score == ScoreOf(FindingsOf(case.checks))
<1>1. /\ reviewed.decision.band = Band(score)
      /\ reviewed.incomplete = Incomplete(Range(case.coverage), case.checks, case.demo, case.errors)
  BY DEF ReviewOfInputs, ReviewedInputs, Decide
<1>2. reviewed.decision.band \notin {"reject", "manual_review"} /\ ~reviewed.incomplete
  BY DEF Advice, Incompletely
<1> HIDE DEF score
<1>3. score < PassBelow
  BY <1>1, <1>2 DEF Band
<1>4. ~Incomplete(Range(case.coverage), case.checks, case.demo, case.errors)
  BY <1>1, <1>2
<1> QED
  BY <1>3, <1>4 DEF Incomplete, score

LEMMA ShownWhenPublished == ASSUME GapsInv, RisksInv PROVE NoRiskIsHidden
<1> SUFFICES ASSUME result.published PROVE NoRiskIsHidden
  BY DEF NoRiskIsHidden
<1>1. /\ reviewed = ReviewOfInputs /\ cards = Cards(FindingsOf(case.checks)) /\ Attended(product.verified)
      /\ result.report = product /\ result.cards = cards /\ result.advice = Advice(product)
      /\ \A c \in cards : c.evidence \subseteq {e.id : e \in result.evidence}
  BY DEF GapsInv, RisksInv
<1>2. \A f \in AtRisk : \E c \in result.cards :
         c.claim = f.claim /\ c.evidence = f.evidence /\ f.check \in c.checks
  BY <1>1, EveryRiskHasACard
<1>3. \A f \in AtRisk, x \in Areas : f.domain \in Verifying[x].domains =>
         result.report.verified[x].status = "attention"
  BY <1>1 DEF Attended
<1>4. \A f \in AtRisk : f.evidence \subseteq {e.id : e \in result.evidence}
  BY <1>1, <1>2
<1>5. result.advice = "proceed" =>
         /\ ScoreOf(FindingsOf(case.checks)) < PassBelow
         /\ \A c \in case.checks : c.status # "inconclusive"
         /\ \A i \in Range(case.coverage) : ~Lost(i)
  BY <1>1, ProceedWhenSound
<1> QED
  BY <1>2, <1>3, <1>4, <1>5 DEF NoRiskIsHidden, AtRisk

\* For every run, wish and set of rules: a published result shows each accepted risk with
\* its evidence, keeps its areas under attention, and tells nobody to proceed whose score
\* or whose sources forbid it.
THEOREM NoRiskStaysHidden == ReportSpec => []NoRiskIsHidden
<1>1. ReportInit => GapsInv /\ RisksInv
  BY GapsInitially, RisksInitially
<1>2. GapsInv /\ RisksInv /\ [ReportNext]_productVars => (GapsInv /\ RisksInv)'
  <2>1. GapsInv /\ RisksInv /\ UNCHANGED productVars => (GapsInv /\ RisksInv)'
    <3>1. GapsInv /\ UNCHANGED productVars => GapsInv'
      BY UnchangedGaps
    <3>2. ASSUME RisksInv, UNCHANGED productVars PROVE RisksInv'
      <4>1. ReviewOfInputs' = ReviewOfInputs
        BY <3>2, SameCase DEF productVars
      <4> QED
        BY <3>2, <4>1 DEF RisksInv, productVars, Attended, AtRisk, Advice, Incompletely
    <3> QED
      BY <3>1, <3>2
  <2> QED
    BY <2>1, ReviewGaps, ProjectGaps, PrepareGaps, SuggestGaps, FinishGaps,
       ReviewRisks, ProjectRisks, PrepareRisks, SuggestRisks, FinishRisks DEF ReportNext
<1> QED
  BY <1>1, <1>2, ShownWhenPublished, PTL DEF ReportSpec

-----------------------------------------------------------------------------
(* Evidence and what it was derived from. *)

Ids(S) == {e.id : e \in S}
ParentsOf(S, x) == UNION {e.parents : e \in {y \in S : y.id \in x}}

\* Evidence known once, derived from evidence that is not itself derived.
Rooted(S) ==
  /\ IsFiniteSet(S) /\ \A d, e \in S : d.id = e.id => d = e
  /\ \A e \in S : \A p \in e.parents : \E q \in S : q.id = p /\ q.parents = {}
  /\ \A e \in S : e.parents # {} => e.mock = \E q \in S : q.id \in e.parents /\ q.mock

\* What comes of identities after the steps of the lineage.
TracedNext(h, s, refs) ==
  IF s = {} THEN refs
  ELSE h[s \ {Max(s)}] \cup UNION {e.parents : e \in {x \in citable : x.id \in h[s \ {Max(s)}]}}
Traced(refs) ==
  CHOOSE h : h = [s \in SUBSET (DOMAIN [k \in 1 .. Cardinality(citable) |-> k]) |->
                    TracedNext(h, s, refs)]

LEMMA LineageIsTraced ==
  ASSUME NEW refs
  PROVE  Lineage(refs) = Traced(refs)[DOMAIN [k \in 1 .. Cardinality(citable) |-> k]]
  BY DEF Lineage, FoldLeft, MapThenFoldSet, Traced, TracedNext

LEMMA TracedUnfold ==
  ASSUME NEW n \in Nat, n = Cardinality(citable), NEW refs
  PROVE  \A s \in SUBSET (1 .. n) : Traced(refs)[s] = TracedNext(Traced(refs), s, refs)
<1> DEFINE S == SUBSET (refs \cup UNION {e.parents : e \in citable})
           Next1(x) == x \cup UNION {e.parents : e \in {y \in citable : y.id \in x}}
           step == [p \in S \X (1 .. n) |-> Next1(p[1])]
<1>1. refs \in S
  OBVIOUS
<1>2. step \in [S \X (1 .. n) -> S] /\ \A x \in S, k \in 1 .. n : step[<<x, k>>] = Next1(x)
  <2>1. \A p \in S \X (1 .. n) : p[1] \in S
    OBVIOUS
  <2>2. \A x \in S : Next1(x) \in S
    OBVIOUS
  <2> QED
    BY <2>1, <2>2
<1> HIDE DEF step, S
<1>3. Picks(LastOne(n), 1 .. n) /\ IsFiniteSet(1 .. n)
  BY LastPicks
<1>4. \E h \in [SUBSET (1 .. n) -> S] : IsFold(h, 1 .. n, LastOne(n), refs, step)
  BY <1>1, <1>2, <1>3, FoldThere, Zenon
<1>5. PICK h \in [SUBSET (1 .. n) -> S] : \A s \in SUBSET (1 .. n) :
        h[s] = IF s = {} THEN refs ELSE step[<<h[s \ {LastOne(n)[s]}], LastOne(n)[s]>>]
  BY <1>4 DEF IsFold
<1>6. \A s \in SUBSET (1 .. n) : h[s] = TracedNext(h, s, refs)
  <2> SUFFICES ASSUME NEW s \in SUBSET (1 .. n), s # {} PROVE h[s] = TracedNext(h, s, refs)
    BY <1>5 DEF TracedNext
  <2>1. LastOne(n)[s] = Max(s) /\ Max(s) \in 1 .. n
    BY LastIsIn DEF LastOne
  <2>2. h[s \ {Max(s)}] \in S
    OBVIOUS
  <2> QED
    BY <1>2, <1>5, <2>1, <2>2 DEF TracedNext
<1>7. DOMAIN [k \in 1 .. Cardinality(citable) |-> k] = 1 .. n
  OBVIOUS
<1>8. h = [s \in SUBSET (DOMAIN [k \in 1 .. Cardinality(citable) |-> k]) |-> TracedNext(h, s, refs)]
  BY <1>6, <1>7
<1>9. Traced(refs) = [s \in SUBSET (DOMAIN [k \in 1 .. Cardinality(citable) |-> k]) |->
                        TracedNext(Traced(refs), s, refs)]
  BY <1>8 DEF Traced
<1> QED
  BY <1>7, <1>9

\* The lineage of what is referred to is that and its parents, since these have none.
LEMMA LineageIs ==
  ASSUME Rooted(citable), NEW refs, refs \subseteq Ids(citable)
  PROVE  Lineage(refs) = refs \cup ParentsOf(citable, refs)
<1> DEFINE n == Cardinality(citable)
           F == Traced(refs)
           all == refs \cup ParentsOf(citable, refs)
           K == {s \in SUBSET (1 .. n) : F[s] = IF s = {} THEN refs ELSE all}
<1>1. n \in Nat
  BY FS_CardinalityType DEF Rooted
<1>2. \A s \in SUBSET (1 .. n) : F[s] = TracedNext(F, s, refs)
  BY <1>1, TracedUnfold
<1>3. ParentsOf(citable, all) = ParentsOf(citable, refs)
  <2>1. \A e \in citable : e.id \in ParentsOf(citable, refs) => e.parents = {}
    <3> SUFFICES ASSUME NEW e \in citable, NEW d \in citable, e.id \in d.parents
                 PROVE  e.parents = {}
      BY DEF ParentsOf
    <3>1. PICK q \in citable : q.id = e.id /\ q.parents = {}
      BY DEF Rooted
    <3> QED
      BY <3>1 DEF Rooted
  <2> QED
    BY <2>1 DEF ParentsOf
<1>4. \A s \in SUBSET (1 .. n) : s # {} =>
        F[s] = F[s \ {Max(s)}] \cup ParentsOf(citable, F[s \ {Max(s)}])
  BY <1>2 DEF TracedNext, ParentsOf
<1>5. F[{}] = refs
  BY <1>2 DEF TracedNext
<1> HIDE DEF F, all, n
<1>6. {} \in K
  BY <1>5
<1>7. \A s \in SUBSET (1 .. n) : s # {} /\ s \ {LastOne(n)[s]} \in K => s \in K
  <2> SUFFICES ASSUME NEW s \in SUBSET (1 .. n), s # {}, s \ {LastOne(n)[s]} \in K PROVE s \in K
    OBVIOUS
  <2>1. LastOne(n)[s] = Max(s)
    BY DEF LastOne
  <2>2. F[s \ {Max(s)}] = refs \/ F[s \ {Max(s)}] = all
    BY <2>1
  <2>3. F[s] = F[s \ {Max(s)}] \cup ParentsOf(citable, F[s \ {Max(s)}])
    BY <1>4
  <2>4. F[s] = all
    BY <1>3, <2>2, <2>3 DEF all
  <2> QED
    BY <2>4
<1>8. K \in SUBSET (SUBSET (1 .. n))
  OBVIOUS
<1> HIDE DEF K
<1>9. K = SUBSET (1 .. n)
  BY <1>1, <1>6, <1>7, <1>8, ListKeeps
<1>10. F[1 .. n] = IF 1 .. n = {} THEN refs ELSE all
  BY <1>9 DEF K
<1>11. Lineage(refs) = F[1 .. n]
  <2>1. DOMAIN [k \in 1 .. Cardinality(citable) |-> k] = 1 .. n
    BY DEF n
  <2> QED
    BY <2>1, LineageIsTraced DEF F
<1>12. CASE 1 .. n = {}
  <2>1. n = 0
    BY <1>1, <1>12
  <2>2. citable = {}
    BY <2>1, FS_EmptySet DEF n, Rooted
  <2>3. all = refs
    BY <2>2 DEF all, ParentsOf
  <2> QED
    BY <1>10, <1>11, <2>3 DEF all
<1> QED
  BY <1>10, <1>11, <1>12 DEF all

-----------------------------------------------------------------------------
(* The evidence of a report: the run's, the caller's, and the derived. *)

CaseIds == Ids(case.evidence)
CallerIds == {InputId(n) : n \in CallerFields}
DerivedIds == {DerivedId(m) : m \in DerivedFrom}
\* Evidence of which each identity is one, and none is derived.
Plain(S) ==
  /\ IsFiniteSet(S) /\ \A d, e \in S : d.id = e.id => d = e
  /\ \A e \in S : e.parents = {}
\* Evidence for fields the report has.
Supported(S) == \A e \in S : \A path \in e.supports : Resolves(path)

LEMMA ImageIsFinite ==
  ASSUME NEW S, IsFiniteSet(S), NEW f PROVE IsFiniteSet({f[x] : x \in S})
<1> DEFINE T == {f[x] : x \in S}
           g == [x \in S |-> f[x]]
<1>1. g \in Surjection(S, T)
  BY DEF Surjection
<1> HIDE DEF g, T
<1>2. IsFiniteSet(T)
  BY <1>1, FS_Surjection
<1> QED
  BY <1>2 DEF T

LEMMA FieldsAreFinite == IsFiniteSet(CallerFields) /\ IsFiniteSet(DerivedFrom)
<1> DEFINE f == <<"application_amount", "application_term", "suggested_amount", "suggested_rate",
                  "credit_term", "loan_term", "guarantee", "repayment", "bank_flow",
                  "credit_info", "internal_record">>
           g == <<"financial_analysis", "bank_flow_analysis">>
<1>1. CallerFields = {f[x] : x \in 1 .. 11}
  BY DEF CallerFields, PlanFields
<1>2. DerivedFrom = {g[x] : x \in 1 .. 2}
  BY DEF DerivedFrom
<1> HIDE DEF f, g
<1>3. IsFiniteSet(1 .. 11) /\ IsFiniteSet(1 .. 2)
  <2>1. 1 \in Int /\ 2 \in Int /\ 11 \in Int
    OBVIOUS
  <2> QED
    BY <2>1, FS_Interval
<1> QED
  BY <1>1, <1>2, <1>3, ImageIsFinite

LEMMA PublicIsPlain ==
  ASSUME Traceable(case), case \in Cases
  PROVE  Plain(PublicEvidence) /\ Ids(PublicEvidence) = CaseIds /\ Supported(PublicEvidence)
<1> DEFINE supported(e) == UNION {FieldsOf[s] : s \in {x \in DOMAIN case.answers :
                                                        e.id \in case.answers[x].refs}}
           f == [e \in case.evidence |->
                   [id |-> e.id, type |-> e.type, mock |-> e.mock, parents |-> {},
                    supports |-> supported(e)]]
<1>1. PublicEvidence = {f[e] : e \in case.evidence}
  BY DEF PublicEvidence
<1>2. \A e : \A path \in supported(e) : Resolves(path)
  BY ReportAssumption
<1> HIDE DEF supported
<1>3. \A e \in case.evidence : f[e].id = e.id /\ f[e].parents = {} /\ f[e].supports = supported(e)
  OBVIOUS
<1> HIDE DEF f
<1>4. IsFiniteSet(case.evidence) /\ \A d, e \in case.evidence : d.id = e.id => d = e
  BY DEF Traceable
<1>5. IsFiniteSet(PublicEvidence)
  BY <1>1, <1>4, ImageIsFinite
<1>6. \A d, e \in PublicEvidence : d.id = e.id => d = e
  BY <1>1, <1>3, <1>4
<1>7. \A e \in PublicEvidence : e.parents = {}
  BY <1>1, <1>3
<1>8. Ids(PublicEvidence) = CaseIds
  BY <1>1, <1>3 DEF Ids, CaseIds
<1>9. Supported(PublicEvidence)
  BY <1>1, <1>3, <1>2 DEF Supported
<1> QED
  BY <1>5, <1>6, <1>7, <1>8, <1>9 DEF Plain

LEMMA SuppliedAreFields == Supplied(case) \subseteq CallerFields
  BY DEF Supplied, CallerFields

LEMMA CallerIsPlain ==
  /\ Plain(CallerEvidence) /\ Ids(CallerEvidence) \subseteq CallerIds
  /\ \A n \in Supplied(case) : InputId(n) \in Ids(CallerEvidence)
  /\ Supported(CallerEvidence)
<1> DEFINE supported(n) ==
             CASE n \in PlanFields -> {<<"business_plan", n>>}
               [] n = "bank_flow" -> {<<"bank_flow_analysis", "*">>}
               [] OTHER -> {<<"external_verification", n>>}
           f == [n \in Supplied(case) |->
                   [id |-> InputId(n), type |-> "user_input", mock |-> FALSE, parents |-> {},
                    supports |-> supported(n)]]
<1>1. CallerEvidence = {f[n] : n \in Supplied(case)}
  BY DEF CallerEvidence
<1>2. \A n \in CallerFields : \A path \in supported(n) : Resolves(path)
  <2>1. {"credit_info", "internal_record"} \subseteq Areas
    <3>1. \A x \in {"credit_info", "internal_record"} : x \in Areas /\ Verifying[x].domains = {}
      BY ReportAssumption
    <3> QED
      BY <3>1
  <2>2. \A n \in PlanFields : Resolves(<<"business_plan", n>>)
    BY SectionNames DEF Resolves, ReportFields
  <2>3. Resolves(<<"bank_flow_analysis", "*">>)
    BY SectionNames DEF Resolves
  <2>4. \A n \in Areas : Resolves(<<"external_verification", n>>)
    BY SectionNames DEF Resolves, ReportFields
  <2> SUFFICES ASSUME NEW n \in CallerFields, NEW path \in supported(n) PROVE Resolves(path)
    OBVIOUS
  <2>5. CASE n \in PlanFields
    <3>1. supported(n) = {<<"business_plan", n>>}
      BY <2>5 DEF PlanFields
    <3> HIDE DEF supported
    <3> QED
      BY <2>2, <2>5, <3>1
  <2>6. CASE n = "bank_flow" /\ n \notin PlanFields
    BY <2>3, <2>6
  <2>7. CASE n \in {"credit_info", "internal_record"} /\ n \notin PlanFields
    <3>1. path = <<"external_verification", n>> /\ n \in Areas
      BY <2>1, <2>7
    <3> QED
      BY <2>4, <3>1
  <2> QED
    BY <2>5, <2>6, <2>7 DEF CallerFields
<1> HIDE DEF supported
<1>3. \A n \in Supplied(case) : /\ f[n].id = InputId(n) /\ f[n].parents = {}
                                /\ f[n].supports = supported(n)
  OBVIOUS
<1> HIDE DEF f
<1>4. IsFiniteSet(Supplied(case))
  BY SuppliedAreFields, FieldsAreFinite, FS_Subset
<1>5. IsFiniteSet(CallerEvidence)
  BY <1>1, <1>4, ImageIsFinite
<1>6. \A d, e \in CallerEvidence : d.id = e.id => d = e
  BY <1>1, <1>3, SuppliedAreFields, IdsAssumption
<1>7. \A e \in CallerEvidence : e.parents = {}
  BY <1>1, <1>3
<1>8. Ids(CallerEvidence) \subseteq CallerIds
  BY <1>1, <1>3, SuppliedAreFields DEF Ids, CallerIds
<1>9. \A n \in Supplied(case) : InputId(n) \in Ids(CallerEvidence)
  BY <1>1, <1>3 DEF Ids
<1>10. Supported(CallerEvidence)
  BY <1>1, <1>3, <1>2, SuppliedAreFields DEF Supported
<1> QED
  BY <1>5, <1>6, <1>7, <1>8, <1>9, <1>10 DEF Plain

\* What the run and the caller know does not share an identity.
LEMMA KnownIsPlain ==
  ASSUME Traceable(case), case \in Cases
  PROVE  LET known == PublicEvidence \cup CallerEvidence
         IN /\ Plain(known) /\ Ids(known) = CaseIds \cup Ids(CallerEvidence)
            /\ Supported(known)
<1> DEFINE A == PublicEvidence
           B == CallerEvidence
<1>1. /\ Plain(A) /\ Ids(A) = CaseIds /\ Plain(B) /\ Ids(B) \subseteq CallerIds
      /\ Supported(A) /\ Supported(B)
  BY PublicIsPlain, CallerIsPlain
<1>2. CaseIds \cap CallerIds = {}
  BY DEF Traceable, CaseIds, Ids, CallerIds
<1> HIDE DEF A, B
<1>3. IsFiniteSet(A \cup B)
  BY <1>1, FS_Union DEF Plain
<1>4. \A d \in A, e \in B : d.id # e.id
  BY <1>1, <1>2 DEF Ids
<1>5. \A d, e \in A \cup B : d.id = e.id => d = e
  BY <1>1, <1>4 DEF Plain
<1>6. \A e \in A \cup B : e.parents = {}
  BY <1>1 DEF Plain
<1>7. Ids(A \cup B) = Ids(A) \cup Ids(B)
  BY DEF Ids
<1>8. Plain(A \cup B) /\ Ids(A \cup B) = CaseIds \cup Ids(B)
  BY <1>1, <1>3, <1>5, <1>6, <1>7 DEF Plain
<1>9. Supported(A \cup B)
  BY <1>1 DEF Supported
<1> QED
  BY <1>8, <1>9 DEF A, B

\* What is derived from plain evidence can be traced to it.
LEMMA DerivedIsRooted ==
  ASSUME NEW known, Plain(known), Ids(known) \cap DerivedIds = {},
         NEW refs, \A m \in DerivedFrom : refs[m] \subseteq Ids(known)
  PROVE  LET derived == DerivedEvidence(refs, known)
         IN Rooted(known \cup derived) /\ Supported(derived)
<1> DEFINE given == {x \in DerivedFrom : refs[x] # {}}
           marked(m) == \E e \in known : e.id \in refs[m] /\ e.mock
           supported(m) == {<<m, "*">>} \cup
             (IF m = "financial_analysis" /\ Statements # {}
              THEN {<<"company_profile", "highlights">>} ELSE {})
           f == [m \in given |-> [id |-> DerivedId(m), type |-> "derived", parents |-> refs[m],
                                  mock |-> marked(m), supports |-> supported(m)]]
           D == DerivedEvidence(refs, known)
<1>1. D = {f[m] : m \in given}
  BY DEF DerivedEvidence
<1>2. \A m \in DerivedFrom : \A path \in supported(m) : Resolves(path)
  BY SectionNames DEF DerivedFrom, Resolves, ReportFields
<1> HIDE DEF supported
<1>3. \A m \in given : /\ f[m].id = DerivedId(m) /\ f[m].parents = refs[m] /\ f[m].mock = marked(m)
                        /\ f[m].supports = supported(m)
  OBVIOUS
<1> HIDE DEF f, D, marked
<1>4. IsFiniteSet(given)
  BY FieldsAreFinite, FS_Subset
<1>5. IsFiniteSet(D)
  BY <1>1, <1>4, ImageIsFinite
<1>6. IsFiniteSet(known \cup D)
  BY <1>5, FS_Union DEF Plain
<1>7. \A d, e \in D : d.id = e.id => d = e
  BY <1>1, <1>3, IdsAssumption
<1>8. \A d \in D, e \in known : d.id # e.id
  BY <1>1, <1>3 DEF Ids, DerivedIds
<1>9. \A d, e \in known \cup D : d.id = e.id => d = e
  BY <1>7, <1>8 DEF Plain
<1>10. \A e \in D : \A p \in e.parents : \E q \in known : q.id = p /\ q.parents = {}
  <2> SUFFICES ASSUME NEW m \in given, NEW p \in refs[m]
               PROVE  \E q \in known : q.id = p /\ q.parents = {}
    BY <1>1, <1>3
  <2>1. p \in Ids(known)
    OBVIOUS
  <2> QED
    BY <2>1 DEF Ids, Plain
<1>11. \A e \in known \cup D : \A p \in e.parents : \E q \in known \cup D : q.id = p /\ q.parents = {}
  BY <1>10 DEF Plain
<1>12. ASSUME NEW e \in known \cup D, e.parents # {}
       PROVE  e.mock = \E q \in known \cup D : q.id \in e.parents /\ q.mock
  <2>1. PICK m \in given : e = f[m]
    BY <1>1, <1>12 DEF Plain
  <2>2. e.parents = refs[m] /\ e.mock = marked(m)
    BY <1>3, <2>1
  <2>3. \A q \in D : q.id \notin refs[m]
    <3>1. refs[m] \subseteq Ids(known)
      OBVIOUS
    <3> QED
      BY <1>1, <1>3, <3>1 DEF DerivedIds
  <2>4. (\E q \in known \cup D : q.id \in refs[m] /\ q.mock)
          <=> (\E q \in known : q.id \in refs[m] /\ q.mock)
    BY <2>3
  <2>5. e.mock = \E q \in known : q.id \in refs[m] /\ q.mock
    BY <2>2 DEF marked
  <2> QED
    BY <2>2, <2>4, <2>5
<1>13. Rooted(known \cup D)
  BY <1>6, <1>9, <1>11, <1>12 DEF Rooted
<1>14. Supported(D)
  BY <1>1, <1>3, <1>2 DEF Supported
<1> QED
  BY <1>13, <1>14 DEF D

-----------------------------------------------------------------------------
(* What a result holds of it. *)

\* A report that refers to nothing but what is known.
RefersTo(refs, checks, ids) ==
  /\ \A m \in ReportModules : refs[m] \subseteq ids
  /\ \A x \in Areas : checks[x].refs \subseteq ids /\ checks[x].facts \subseteq ids
  /\ \A c \in cards : c.evidence \subseteq ids

LEMMA ReferencedIsKnown ==
  ASSUME NEW r, NEW ids, RefersTo(r.refs, r.verified, ids) PROVE Referenced(r) \subseteq ids
  BY DEF Referenced, RefersTo

\* Evidence with what it refers to and was derived from.
Accepted(refs, used) ==
  LET known == {e.id : e \in used}
  IN /\ Cardinality(known) = Cardinality(used)
     /\ refs \cup (UNION {e.parents : e \in used}) \subseteq known
     /\ \A e \in used : e.parents # {} => e.mock = \E p \in used : p.id \in e.parents /\ p.mock
     /\ Acyclic({e \in used : e.parents # {}})

\* The evidence used, of what can be traced, is evidence the contract accepts.
LEMMA UsedIsAccepted ==
  ASSUME Rooted(citable), NEW refs, refs \subseteq Ids(citable),
         NEW used, used = {e \in citable : e.id \in Lineage(refs)}
  PROVE  Accepted(refs, used)
<1> DEFINE all == refs \cup ParentsOf(citable, refs)
           known == {e.id : e \in used}
<1>1. used = {e \in citable : e.id \in all}
  BY LineageIs
<1>2. all \subseteq Ids(citable)
  BY DEF ParentsOf, Rooted, Ids
<1>3. all \subseteq known
  BY <1>1, <1>2 DEF Ids
<1>4. \A e \in used : e.parents \subseteq all
  <2> SUFFICES ASSUME NEW e \in used, NEW p \in e.parents PROVE p \in all
    OBVIOUS
  <2>1. CASE e.id \in refs
    BY <1>1, <2>1 DEF ParentsOf
  <2>2. CASE e.id \notin refs
    <3>1. e \in citable /\ e.id \in ParentsOf(citable, refs)
      BY <1>1, <2>2
    <3>2. PICK d \in citable : e.id \in d.parents
      BY <3>1 DEF ParentsOf
    <3>3. PICK q \in citable : q.id = e.id /\ q.parents = {}
      BY <3>2 DEF Rooted
    <3>4. q = e
      BY <3>1, <3>3 DEF Rooted
    <3> QED
      BY <3>3, <3>4
  <2> QED
    BY <2>1, <2>2
<1>5. used \subseteq citable /\ IsFiniteSet(used)
  BY <1>1, FS_Subset DEF Rooted
<1>6. Cardinality(known) = Cardinality(used)
  <2> DEFINE g == [e \in used |-> e.id]
  <2>1. g \in Bijection(used, known)
    <3>1. \A d, e \in used : d.id = e.id => d = e
      BY <1>5 DEF Rooted
    <3>2. g \in [used -> known] /\ \A d, e \in used : g[d] = g[e] => d = e
      BY <3>1
    <3>3. \A k \in known : \E e \in used : g[e] = k
      OBVIOUS
    <3> HIDE DEF g, known
    <3> QED
      BY <3>2, <3>3 DEF Bijection, Injection, Surjection, IsInjective
  <2> HIDE DEF g, known
  <2> QED
    BY <1>5, <2>1, FS_Bijection DEF ExistsBijection
<1>7. ASSUME NEW e \in used, e.parents # {}
      PROVE  e.mock = \E p \in used : p.id \in e.parents /\ p.mock
  <2>1. e \in citable
    BY <1>5
  <2>2. e.mock = \E q \in citable : q.id \in e.parents /\ q.mock
    BY <1>7, <2>1 DEF Rooted
  <2>3. \A q \in citable : q.id \in e.parents => q \in used
    BY <1>1, <1>4
  <2>4. (\E q \in citable : q.id \in e.parents /\ q.mock)
          <=> (\E p \in used : p.id \in e.parents /\ p.mock)
    BY <1>5, <2>3
  <2> QED
    BY <2>2, <2>4
<1>8. Acyclic({e \in used : e.parents # {}})
  <2> DEFINE derived == {e \in used : e.parents # {}}
  <2> SUFFICES ASSUME NEW s \in SUBSET derived, NEW e \in s
               PROVE  e.parents \cap {x.id : x \in s} = {}
    BY Zenon DEF Acyclic
  <2> SUFFICES ASSUME NEW x \in s, x.id \in e.parents PROVE FALSE
    OBVIOUS
  <2>1. e \in citable /\ x \in citable /\ x.parents # {}
    BY <1>5
  <2>2. PICK q \in citable : q.id = x.id /\ q.parents = {}
    BY <2>1 DEF Rooted
  <2>3. q = x
    BY <2>1, <2>2 DEF Rooted
  <2> QED
    BY <2>1, <2>2, <2>3
<1> HIDE DEF all
<1>9. refs \cup (UNION {e.parents : e \in used}) \subseteq known
  <2>1. refs \subseteq all
    BY DEF all
  <2> QED
    BY <1>3, <1>4, <2>1
<1> QED
  BY <1>6, <1>7, <1>9, <1>8 DEF Accepted

-----------------------------------------------------------------------------
AllTraceable == \A c \in Cases : Traceable(c)

\* What the report refers to is known at every stage, so that its contract has nothing
\* to refuse but a figure.
RefsInv ==
  /\ reportStage \notin {"start", "refused"} => reviewed.findings = FindingsOf(case.checks)
  /\ reportStage \in {"projected", "prepared"} =>
       product.refs = [m \in ReportModules |-> product.refs[m]]
  /\ reportStage = "projected" =>
       citable = PublicEvidence /\ RefersTo(product.refs, product.verified, CaseIds)
  /\ reportStage \in {"prepared", "suggested"} =>
       /\ Rooted(citable) /\ Supported(citable)
       /\ RefersTo(product.refs, product.verified, Ids(citable))
  /\ OnlyFiguresRefuse

LEMMA ReviewRefs ==
  ASSUME AllTraceable, GapsInv, RefsInv, ReviewReport PROVE RefsInv'
<1> DEFINE r == ReviewedInputs(Range(case.coverage), case.checks, case.evidence, case.conflicts,
                               case.demo, case.errors)
<1>1. r.findings = FindingsOf(case.checks)
  BY DEF ReviewedInputs
<1>2. Backed(r.findings, {e.id : e \in case.evidence})
  BY <1>1 DEF AllTraceable, GapsInv, Traceable, Backed, Scorable
<1>3. \/ ~(case.reviewed \/ case.demo) /\ reportStage' = "refused" /\ case' = case
      \/ reviewed' = r /\ reportStage' = "reviewed" /\ case' = case
  BY <1>2 DEF ReviewReport, Refuse
<1> HIDE DEF r
<1> QED
  BY <1>1, <1>3 DEF RefsInv, OnlyFiguresRefuse

\* Risk cards cite what their findings cite.
LEMMA CardsCite ==
  ASSUME NEW findings, NEW ids, \A f \in findings : f.evidence \subseteq ids
  PROVE  \A c \in Cards(findings) : c.evidence \subseteq ids
  BY DEF Cards

LEMMA CitesKnown ==
  ASSUME Traceable(case)
  PROVE  /\ \A m \in ReportModules : Cites(SourcesOf[m]) \subseteq CaseIds
         /\ \A x \in Areas : Cites(Verifying[x].capabilities) \subseteq CaseIds
<1>1. \A s \in (UNION {SourcesOf[m] : m \in ReportModules})
               \cup (UNION {Verifying[x].capabilities : x \in Areas}) :
        case.answers[s].refs \subseteq CaseIds
  BY DEF Traceable, CaseIds, Ids
<1>2. \A m \in ReportModules : \A s \in SourcesOf[m] : case.answers[s].refs \subseteq CaseIds
  BY <1>1
<1>3. \A x \in Areas : \A s \in Verifying[x].capabilities : case.answers[s].refs \subseteq CaseIds
  BY <1>1
<1> QED
  BY <1>2, <1>3 DEF Cites

LEMMA ProjectRefs ==
  ASSUME AllTraceable, GapsInv, RefsInv, ProjectReport PROVE RefsInv'
<1>1. Traceable(case)
  BY DEF AllTraceable, GapsInv
<1> SUFFICES ASSUME ~Unprojectable(case) PROVE RefsInv'
  BY DEF ProjectReport, Refuse, RefsInv, OnlyFiguresRefuse
<1>2. /\ reportStage = "reviewed" /\ reportStage' = "projected"
      /\ product' = [values |-> ProjectedValues, verified |-> ProjectedChecks,
                     refs |-> [m \in ReportModules |-> Cites(SourcesOf[m])],
                     status |-> [m \in ReportModules |-> "unavailable"],
                     gaps |-> [m \in ReportModules |-> {}]]
      /\ citable' = PublicEvidence /\ cards' = Cards(reviewed.findings)
      /\ case' = case /\ reviewed' = reviewed
  BY DEF ProjectReport
<1>3. /\ product'.refs = [m \in ReportModules |-> Cites(SourcesOf[m])]
      /\ product'.verified = ProjectedChecks
  BY <1>2
<1>4. \A f \in reviewed.findings : f.evidence \subseteq CaseIds
  BY <1>1, <1>2 DEF RefsInv, Traceable, CaseIds, Ids
<1>5. \A c \in cards' : c.evidence \subseteq CaseIds
  BY <1>2, <1>4, CardsCite
<1>6. \A x \in Areas : /\ ProjectedChecks[x].refs \subseteq CaseIds
                       /\ ProjectedChecks[x].facts \subseteq CaseIds
  <2> SUFFICES ASSUME NEW x \in Areas
               PROVE  /\ ProjectedChecks[x].refs \subseteq CaseIds
                      /\ ProjectedChecks[x].facts \subseteq CaseIds
    OBVIOUS
  <2> DEFINE status == Verification(x, case.coverage, reviewed.findings)
             risks == {f \in reviewed.findings : f.class # "non_risk"
                                                 /\ f.domain \in Verifying[x].domains}
             told == CASE status = "attention" -> UNION {f.evidence : f \in risks}
                       [] status = "passed" -> Cites(Verifying[x].capabilities)
                       [] OTHER -> {}
             stated == IF status = "inconclusive" THEN {} ELSE Cites(Verifying[x].capabilities)
  <2>1. ProjectedChecks[x].refs = told /\ ProjectedChecks[x].facts = stated
    BY DEF ProjectedChecks
  <2>2. Cites(Verifying[x].capabilities) \subseteq CaseIds
    BY <1>1, CitesKnown
  <2>3. (UNION {f.evidence : f \in risks}) \subseteq CaseIds
    BY <1>4
  <2> HIDE DEF status, risks
  <2> QED
    BY <2>1, <2>2, <2>3
<1>7. CaseIds' = CaseIds /\ PublicEvidence' = PublicEvidence
  BY <1>2 DEF CaseIds, PublicEvidence
<1>8. \A m \in ReportModules : product'.refs[m] \subseteq CaseIds
  BY <1>1, <1>3, CitesKnown
<1>9. RefersTo(product.refs, product.verified, CaseIds)'
  BY <1>3, <1>5, <1>6, <1>7, <1>8 DEF RefersTo
<1>10. product'.refs = [m \in ReportModules |-> product'.refs[m]]
  BY <1>3
<1> QED
  BY <1>2, <1>7, <1>9, <1>10 DEF RefsInv, OnlyFiguresRefuse

\* What the caller adds is known as well.
LEMMA PreparedKnown ==
  ASSUME Traceable(case), RefersTo(product.refs, product.verified, CaseIds)
  PROVE  LET ids == CaseIds \cup Ids(CallerEvidence)
         IN /\ \A m \in ReportModules : PreparedRefs[m] \subseteq ids
            /\ \A x \in Areas : /\ StatedChecks[x].refs \subseteq ids
                                /\ StatedChecks[x].facts \subseteq ids
<1> DEFINE ids == CaseIds \cup Ids(CallerEvidence)
           Inputs(names) == {InputId(n) : n \in Supplied(case) \cap names}
           Also(m) == CASE m = "business_plan" -> Inputs(PlanFields)
                        [] m = "bank_flow_analysis" -> Inputs({"bank_flow"})
                        [] m = "external_verification" -> Inputs({"credit_info", "internal_record"})
                        [] OTHER -> {}
<1>1. \A n \in Supplied(case) : InputId(n) \in ids
  BY CallerIsPlain
<1>2. \A names : Inputs(names) \subseteq ids
  BY <1>1
<1>3. /\ \A m \in ReportModules : product.refs[m] \subseteq ids
      /\ \A x \in Areas : product.verified[x].refs \subseteq ids /\ product.verified[x].facts \subseteq ids
  BY DEF RefersTo
<1>4. PreparedRefs = [m \in ReportModules |-> product.refs[m] \cup Also(m)]
  BY DEF PreparedRefs
<1>5. \A x \in Areas : StatedChecks[x].refs \subseteq ids /\ StatedChecks[x].facts \subseteq ids
  BY <1>1, <1>3 DEF StatedChecks
<1> HIDE DEF Inputs, ids
<1>6. \A m : Also(m) \subseteq ids
  <2> SUFFICES ASSUME NEW m PROVE Also(m) \subseteq ids
    OBVIOUS
  <2>1. /\ Inputs(PlanFields) \subseteq ids /\ Inputs({"bank_flow"}) \subseteq ids
        /\ Inputs({"credit_info", "internal_record"}) \subseteq ids /\ {} \subseteq ids
    BY <1>2
  <2> QED
    BY <2>1
<1> HIDE DEF Also
<1>7. \A m \in ReportModules : PreparedRefs[m] \subseteq ids
  BY <1>3, <1>4, <1>6
<1> QED
  BY <1>5, <1>7 DEF ids

LEMMA WithDerivedKnown ==
  ASSUME NEW refs, NEW derived, NEW ids, \A m \in ReportModules : refs[m] \subseteq ids
  PROVE  \A m \in ReportModules : WithDerived(refs, derived)[m] \subseteq ids \cup Ids(derived)
  BY DEF WithDerived, Ids

LEMMA RefsInitially == ASSUME ReportInit PROVE RefsInv
  BY DEF ReportInit, RefsInv, OnlyFiguresRefuse

LEMMA PrepareRefs ==
  ASSUME AllTraceable, GapsInv, RefsInv, PrepareReport PROVE RefsInv'
<1> DEFINE known == citable \cup CallerEvidence
           derived == DerivedEvidence(PreparedRefs, known)
           checks == StatedChecks
           values == [product.values EXCEPT
             !.business_plan = case.plan,
             !.company_profile.highlights = Latest,
             !.financial_analysis.periods = Statements,
             !.financial_analysis.reconciliation = {Reconciled(Statements)},
             !.bank_flow_analysis = FlowValues,
             !.external_verification = [x \in Areas |-> checks[x].facts]]
           refs == WithDerived(PreparedRefs, derived)
           all == known \cup derived
           r == [product EXCEPT !.values = values, !.verified = checks, !.refs = refs]
<1>1. Traceable(case)
  BY DEF AllTraceable, GapsInv
<1>2. CASE Uncalculable
  <2>1. UNCHANGED case /\ reportStage' = "refused"
    BY <1>2 DEF PrepareReport, Refuse
  <2>2. Uncalculable'
    BY <1>2, <2>1 DEF Uncalculable, Flow
  <2> QED
    BY <2>1, <2>2 DEF RefsInv, OnlyFiguresRefuse
<1> SUFFICES ASSUME ~Uncalculable PROVE RefsInv'
  BY <1>2
<1>3. /\ product' = Completed(r, all) /\ reportStage = "projected" /\ reportStage' = "prepared"
      /\ UNCHANGED <<case, reviewed, cards, result>> /\ citable' = all
  BY DEF PrepareReport
<1>4. /\ Shaped(product) /\ case \in Cases
      /\ citable = PublicEvidence /\ RefersTo(product.refs, product.verified, CaseIds)
      /\ reviewed.findings = FindingsOf(case.checks)
  BY <1>3 DEF GapsInv, RefsInv
<1>5. /\ Plain(known) /\ Ids(known) = CaseIds \cup Ids(CallerEvidence) /\ Supported(known)
  BY <1>1, <1>4, KnownIsPlain
<1>6. Ids(known) \cap DerivedIds = {}
  <2>1. Ids(CallerEvidence) \subseteq CallerIds
    BY CallerIsPlain
  <2>2. CallerIds \cap DerivedIds = {}
    BY IdsAssumption DEF CallerIds, DerivedIds
  <2>3. CaseIds \cap DerivedIds = {}
    BY <1>1 DEF Traceable, CaseIds, Ids, DerivedIds
  <2> QED
    BY <1>5, <2>1, <2>2, <2>3
<1>7. /\ \A m \in ReportModules : PreparedRefs[m] \subseteq Ids(known)
      /\ \A x \in Areas : checks[x].refs \subseteq Ids(known) /\ checks[x].facts \subseteq Ids(known)
  BY <1>1, <1>4, <1>5, PreparedKnown
<1>8. Rooted(all) /\ Supported(derived)
  <2>1. DerivedFrom \subseteq ReportModules
    BY SectionNames DEF DerivedFrom
  <2> QED
    BY <1>5, <1>6, <1>7, <2>1, DerivedIsRooted
<1>9. \A m \in ReportModules : refs[m] \subseteq Ids(known) \cup Ids(derived)
  BY <1>7, WithDerivedKnown
<1>10. Supported(all)
  BY <1>5, <1>8 DEF Supported
<1>11. Ids(all) = Ids(known) \cup Ids(derived)
  BY DEF Ids
<1>12. refs = [m \in ReportModules |-> refs[m]]
  BY DEF WithDerived
<1> HIDE DEF values, checks, refs, derived, known
<1>13. r = [product EXCEPT !.values = values, !.verified = checks, !.refs = refs]
  OBVIOUS
<1> HIDE DEF r, all
<1>14. Shaped(r) /\ r.verified = checks /\ r.refs = refs
  <2>1. PICK v, c, x, st, g :
          product = [values |-> v, verified |-> c, refs |-> x, status |-> st, gaps |-> g]
    BY <1>4 DEF Shaped
  <2>2. r = [values |-> values, verified |-> checks, refs |-> refs, status |-> st, gaps |-> g]
    BY <1>13, <2>1
  <2> QED
    BY <2>2 DEF Shaped
<1> DEFINE c == Completed(r, all)
<1>15. c = [values |-> r.values, verified |-> r.verified, refs |-> r.refs,
            status |-> c.status, gaps |-> c.gaps]
  BY <1>4, <1>14, CompletedTells
<1>16. product' = c
  BY <1>3
<1> HIDE DEF c
<1>17. product'.verified = checks /\ product'.refs = refs
  BY <1>14, <1>15, <1>16
<1>18. \A k \in cards : k.evidence \subseteq Ids(all)
  BY <1>4, <1>5, <1>11 DEF RefersTo
<1>19. RefersTo(refs, checks, Ids(all))
  BY <1>7, <1>9, <1>11, <1>18 DEF RefersTo
<1>20. /\ RefersTo(product.refs, product.verified, Ids(citable))'
       /\ Rooted(citable)' /\ Supported(citable)'
  <2>1. Ids(citable)' = Ids(all) /\ cards' = cards
    BY <1>3 DEF Ids
  <2>2. Rooted(citable)'
    BY <1>3, <1>8 DEF Rooted
  <2>3. Supported(citable)'
    BY <1>3, <1>10 DEF Supported
  <2> QED
    BY <1>17, <1>19, <2>1, <2>2, <2>3 DEF RefersTo
<1>21. product'.refs = [m \in ReportModules |-> product'.refs[m]]
  BY <1>12, <1>17
<1> QED
  BY <1>3, <1>4, <1>20, <1>21 DEF RefsInv, OnlyFiguresRefuse

LEMMA SuggestRefs ==
  ASSUME AllTraceable, GapsInv, RefsInv, SuggestTerms PROVE RefsInv'
<1>1. /\ reportStage = "prepared" /\ reportStage' = "suggested"
      /\ UNCHANGED <<case, reviewed, citable, cards, result>>
  BY DEF SuggestTerms
<1>2. /\ product.refs = [m \in ReportModules |-> product.refs[m]]
      /\ Rooted(citable) /\ Supported(citable)
      /\ RefersTo(product.refs, product.verified, Ids(citable))
      /\ reviewed.findings = FindingsOf(case.checks)
  BY <1>1 DEF RefsInv
<1>3. PICK wish : /\ wish.cites \subseteq {e.id : e \in citable}
                  /\ \/ product' = Suggested(product, wish)
                     \/ product' = Unwritten(Suggested(product, wish))
  BY SuggestedByRules
<1> DEFINE more == UNION {c.evidence : c \in cards}
<1>4. /\ product'.refs = [product.refs EXCEPT !["business_plan"] = @ \cup wish.cites \cup more]
      /\ product'.verified = product.verified
  BY <1>3, SuggestedKeeps
<1>5. more \subseteq Ids(citable) /\ wish.cites \subseteq Ids(citable)
  BY <1>2, <1>3 DEF RefersTo, Ids
<1> HIDE DEF more
<1>6. \A m \in ReportModules : product'.refs[m] \subseteq Ids(citable)
  BY <1>2, <1>4, <1>5 DEF RefersTo
<1>7. RefersTo(product'.refs, product'.verified, Ids(citable))
  BY <1>2, <1>4, <1>6 DEF RefersTo
<1>8. Ids(citable)' = Ids(citable) /\ Rooted(citable)' /\ Supported(citable)'
  BY <1>1, <1>2 DEF Ids, Rooted, Supported
<1>9. RefersTo(product.refs, product.verified, Ids(citable))'
  BY <1>1, <1>7, <1>8 DEF RefersTo
<1> QED
  BY <1>1, <1>2, <1>8, <1>9 DEF RefsInv, OnlyFiguresRefuse

LEMMA FinishRefs ==
  ASSUME AllTraceable, GapsInv, RefsInv, FinishReport PROVE RefsInv'
<1> DEFINE refs == Referenced(product)
           used == {e \in citable : e.id \in Lineage(refs)}
           made == [published |-> TRUE, report |-> product, cards |-> cards, evidence |-> used,
                    riskCount |-> Cardinality(cards), advice |-> Advice(product),
                    status |-> IF Incompletely(product) THEN "partial" ELSE "completed",
                    mock |-> \E e \in used : e.mock]
<1>1. reportStage = "suggested" /\ UNCHANGED <<case, reviewed>>
  BY DEF FinishReport, Refuse
<1>2. /\ Rooted(citable) /\ Supported(citable)
      /\ RefersTo(product.refs, product.verified, Ids(citable))
      /\ reviewed.findings = FindingsOf(case.checks)
  BY <1>1 DEF RefsInv
<1>3. refs \subseteq Ids(citable)
  BY <1>2, ReferencedIsKnown
<1> HIDE DEF refs
<1>4. Accepted(refs, used)
  <2>1. used = {e \in citable : e.id \in Lineage(refs)}
    OBVIOUS
  <2> HIDE DEF used
  <2> QED
    BY <1>2, <1>3, <2>1, UsedIsAccepted
<1>5. \A e \in used : \A path \in e.supports : Resolves(path)
  BY <1>2 DEF Supported
<1>6. /\ made.evidence = used /\ made.report = product /\ made.cards = cards
      /\ made.riskCount = Cardinality(cards) /\ made.mock = \E e \in used : e.mock
  OBVIOUS
<1>7. (Satisfied(made) /\ reportStage' = "finished") \/ (~Satisfied(made) /\ reportStage' = "refused")
  BY DEF FinishReport, Refuse, refs
<1> HIDE DEF made, used
<1>8. Satisfied(made)
  BY <1>4, <1>6, <1>5 DEF Satisfied, Accepted, refs
<1>9. reportStage' = "finished"
  BY <1>7, <1>8
<1> QED
  BY <1>1, <1>2, <1>9 DEF RefsInv, OnlyFiguresRefuse

\* For every run whose evidence can be traced, and whatever a model wishes: only a figure
\* that a contract forbids turns the report of a reviewed run down; its modules, its
\* verification, its cards, what they refer to and what that was derived from never do.
THEOREM ReviewedIsReported ==
  ASSUME AllTraceable PROVE ReportSpec => []OnlyFiguresRefuse
<1>1. ReportInit => GapsInv /\ RefsInv
  BY GapsInitially, RefsInitially
<1>2. GapsInv /\ RefsInv /\ [ReportNext]_productVars => (GapsInv /\ RefsInv)'
  <2>1. GapsInv /\ RefsInv /\ UNCHANGED productVars => (GapsInv /\ RefsInv)'
    <3>1. GapsInv /\ UNCHANGED productVars => GapsInv'
      BY UnchangedGaps
    <3>2. ASSUME RefsInv, UNCHANGED productVars PROVE RefsInv'
      <4>1. UNCHANGED <<case, reportStage, reviewed, product, citable, cards>>
        BY <3>2 DEF productVars
      <4>2. UNCHANGED <<PublicEvidence, CaseIds>> /\ Ids(citable)' = Ids(citable)
            /\ Rooted(citable)' = Rooted(citable) /\ Supported(citable)' = Supported(citable)
            /\ Unprojectable(case)' = Unprojectable(case) /\ Uncalculable' = Uncalculable
        BY <4>1 DEF PublicEvidence, CaseIds, Ids, Rooted, Supported, Unprojectable, Uncalculable, Flow
      <4>3. /\ RefersTo(product.refs, product.verified, CaseIds)'
                 = RefersTo(product.refs, product.verified, CaseIds)
            /\ RefersTo(product.refs, product.verified, Ids(citable))'
                 = RefersTo(product.refs, product.verified, Ids(citable))
        BY <4>1, <4>2 DEF RefersTo
      <4> QED
        BY <3>2, <4>1, <4>2, <4>3 DEF RefsInv, OnlyFiguresRefuse
    <3> QED
      BY <3>1, <3>2
  <2> QED
    BY <2>1, ReviewGaps, ProjectGaps, PrepareGaps, SuggestGaps, FinishGaps,
       ReviewRefs, ProjectRefs, PrepareRefs, SuggestRefs, FinishRefs DEF ReportNext
<1>3. GapsInv /\ RefsInv => OnlyFiguresRefuse
  BY DEF RefsInv
<1> QED
  BY <1>1, <1>2, <1>3, PTL DEF ReportSpec

-----------------------------------------------------------------------------
(* The steps a reader is shown.                                             *)

-----------------------------------------------------------------------------
(* What a finished step says. *)

\* Each piece of evidence of a candidate is cited in turn, and so is each candidate.
CiteOne(t, i, r) ==
  IF i \notin r.evidence \/ (i \notin ToSet(t.tags) /\ Len(t.tags) >= MaxTags) THEN t
  ELSE [tags |-> IF i \in ToSet(t.tags) THEN t.tags ELSE Append(t.tags, i),
        refs |-> Append(t.refs, i)]
CitesNext(h, s, tags, ids, r) ==
  IF s = {} THEN [tags |-> tags, refs |-> <<>>]
  ELSE CiteOne(h[s \ {Max(s)}], ids[Max(s)], r)
CitedBy(tags, ids, r) ==
  CHOOSE h : h = [s \in SUBSET (DOMAIN ids) |-> CitesNext(h, s, tags, ids, r)]
FactsNext(h, s, list, r) ==
  IF s = {} THEN NothingSaid ELSE AddFact(h[s \ {Max(s)}], list[Max(s)], r)
Stated(list, r) == CHOOSE h : h = [s \in SUBSET (DOMAIN list) |-> FactsNext(h, s, list, r)]

LEMMA AddFactIs ==
  ASSUME NEW acc, NEW c, NEW r
  PROVE  LET cited == CitedBy(acc.tags, c.ids, r)[DOMAIN c.ids]
         IN AddFact(acc, c, r) =
              IF Len(acc.facts) = MaxFacts \/ c.text = "blank" THEN acc
              ELSE [tags |-> cited.tags,
                    facts |-> IF cited.refs = <<>> \/ \E f \in ToSet(acc.facts) : f.text = c.text
                              THEN acc.facts
                              ELSE Append(acc.facts, [text |-> c.text, ids |-> cited.refs])]
  BY DEF AddFact, FoldLeft, MapThenFoldSet, CitedBy, CitesNext, CiteOne

LEMMA FactsAre ==
  ASSUME NEW s, NEW r
  PROVE  LET list == IF s = Report THEN <<>> ELSE r.candidates[s]
         IN FactsAndTags(s, r) = Stated(list, r)[DOMAIN list]
  BY DEF FactsAndTags, FoldLeft, MapThenFoldSet, Stated, FactsNext, NothingSaid

\* A longer list.
Grows(E, s, x, t) ==
  /\ t \in Seq(E) /\ Len(t) = Len(s) + 1 /\ Len(s) \in Nat /\ ToSet(t) = ToSet(s) \cup {x}
  /\ IsInjective(s) /\ x \notin ToSet(s) => IsInjective(t)

LEMMA Appended ==
  ASSUME NEW E, NEW s \in Seq(E), NEW x \in E PROVE Grows(E, s, x, Append(s, x))
<1> DEFINE t == Append(s, x)
<1>1. /\ t \in Seq(E) /\ Len(t) = Len(s) + 1 /\ Len(s) \in Nat /\ DOMAIN s = 1 .. Len(s)
      /\ DOMAIN t = 1 .. Len(s) + 1 /\ t[Len(s) + 1] = x /\ \A k \in 1 .. Len(s) : t[k] = s[k]
  OBVIOUS
<1> HIDE DEF t
<1>2. ToSet(t) = ToSet(s) \cup {x}
  <2>1. \A k \in DOMAIN t : k = Len(s) + 1 \/ k \in DOMAIN s
    BY <1>1
  <2>2. \A k \in DOMAIN s : k \in DOMAIN t /\ Len(s) + 1 \in DOMAIN t
    BY <1>1
  <2>3. Len(s) + 1 \in DOMAIN t
    BY <1>1
  <2> QED
    BY <1>1, <2>1, <2>2, <2>3 DEF ToSet
<1>3. ASSUME IsInjective(s), x \notin ToSet(s) PROVE IsInjective(t)
  <2> SUFFICES ASSUME NEW a \in DOMAIN t, NEW b \in DOMAIN t, t[a] = t[b] PROVE a = b
    BY DEF IsInjective
  <2>1. (a = Len(s) + 1 \/ a \in DOMAIN s) /\ (b = Len(s) + 1 \/ b \in DOMAIN s)
    BY <1>1
  <2>2. \A k \in DOMAIN s : s[k] # x /\ t[k] = s[k]
    BY <1>1, <1>3 DEF ToSet
  <2> QED
    BY <1>1, <1>3, <2>1, <2>2 DEF IsInjective
<1> QED
  BY <1>1, <1>2, <1>3 DEF t, Grows

\* Evidence cited so far: tags once and within their number, references among the tags.
CiteLists(r) == [tags : Seq(r.evidence), refs : Seq(r.evidence)]
Fits(t, tags) ==
  /\ IsInjective(t.tags) /\ Len(t.tags) <= MaxTags /\ ToSet(tags) \subseteq ToSet(t.tags)
  /\ ToSet(t.refs) \subseteq ToSet(t.tags) /\ IsInjective(t.refs)

LEMMA CiteStep ==
  ASSUME NEW r, NEW t \in CiteLists(r), NEW i
  PROVE  /\ CiteOne(t, i, r) \in CiteLists(r)
         /\ ToSet(CiteOne(t, i, r).refs) \subseteq ToSet(t.refs) \cup {i}
         /\ \A tags : Fits(t, tags) /\ i \notin ToSet(t.refs) => Fits(CiteOne(t, i, r), tags)
<1> DEFINE c == CiteOne(t, i, r)
<1>1. t.tags \in Seq(r.evidence) /\ t.refs \in Seq(r.evidence)
  BY DEF CiteLists
<1>2. CASE c = t
  BY <1>2
<1>3. CASE c # t
  <2>1. /\ i \in r.evidence /\ (i \in ToSet(t.tags) \/ ~(Len(t.tags) >= MaxTags))
        /\ c = [tags |-> IF i \in ToSet(t.tags) THEN t.tags ELSE Append(t.tags, i),
                refs |-> Append(t.refs, i)]
    BY <1>3 DEF CiteOne
  <2> HIDE DEF c
  <2>2. /\ c.tags = IF i \in ToSet(t.tags) THEN t.tags ELSE Append(t.tags, i)
        /\ c.refs = Append(t.refs, i)
    BY <2>1
  <2>3. /\ c.refs \in Seq(r.evidence) /\ ToSet(c.refs) = ToSet(t.refs) \cup {i}
        /\ IsInjective(t.refs) /\ i \notin ToSet(t.refs) => IsInjective(c.refs)
    <3>1. i \in r.evidence /\ t.refs \in Seq(r.evidence)
      BY <1>1, <2>1
    <3>2. Grows(r.evidence, t.refs, i, c.refs)
      BY <2>2, <3>1, Appended, Zenon
    <3> QED
      BY <3>2 DEF Grows
  <2>4. /\ c.tags \in Seq(r.evidence) /\ ToSet(c.tags) = ToSet(t.tags) \cup {i}
        /\ IsInjective(t.tags) => IsInjective(c.tags)
        /\ Len(t.tags) <= MaxTags => Len(c.tags) <= MaxTags
    <3>1. CASE i \in ToSet(t.tags)
      BY <1>1, <2>2, <3>1
    <3>2. CASE i \notin ToSet(t.tags)
      <4>1. c.tags = Append(t.tags, i) /\ ~(Len(t.tags) >= MaxTags) /\ MaxTags \in Nat
        BY <2>1, <2>2, <3>2, StepsAssumption
      <4>2. /\ c.tags \in Seq(r.evidence) /\ Len(c.tags) = Len(t.tags) + 1 /\ Len(t.tags) \in Nat
            /\ ToSet(c.tags) = ToSet(t.tags) \cup {i}
            /\ IsInjective(t.tags) => IsInjective(c.tags)
        <5>1. i \in r.evidence /\ t.tags \in Seq(r.evidence)
          BY <1>1, <2>1
        <5>2. Grows(r.evidence, t.tags, i, c.tags)
          BY <4>1, <5>1, Appended, Zenon
        <5> QED
          BY <3>2, <5>2 DEF Grows
      <4> QED
        BY <4>1, <4>2
    <3> QED
      BY <3>1, <3>2
  <2>5. c \in CiteLists(r)
    BY <2>1, <2>3, <2>4 DEF CiteLists
  <2>6. \A tags : Fits(t, tags) /\ i \notin ToSet(t.refs) => Fits(c, tags)
    BY <2>3, <2>4 DEF Fits
  <2> QED
    BY <2>3, <2>5, <2>6 DEF c
<1> QED
  BY <1>2, <1>3

\* Identifiers of a candidate.
IsList(s) == DOMAIN s = 1 .. Len(s) /\ Len(s) \in Nat

LEMMA CitedUnfold ==
  ASSUME NEW r, NEW tags \in Seq(r.evidence), NEW ids, IsList(ids)
  PROVE  LET F == CitedBy(tags, ids, r)
         IN \A s \in SUBSET (DOMAIN ids) : F[s] = CitesNext(F, s, tags, ids, r)
<1> DEFINE n == Len(ids)
           base == [tags |-> tags, refs |-> <<>>]
           step == [p \in CiteLists(r) \X (1 .. n) |-> CiteOne(p[1], ids[p[2]], r)]
<1>1. n \in Nat /\ DOMAIN ids = 1 .. n
  BY DEF IsList
<1>2. base \in CiteLists(r)
  BY DEF CiteLists
<1>3. step \in [CiteLists(r) \X (1 .. n) -> CiteLists(r)]
  <2>1. \A p \in CiteLists(r) \X (1 .. n) : p[1] \in CiteLists(r)
    OBVIOUS
  <2>2. \A p \in CiteLists(r) \X (1 .. n) : CiteOne(p[1], ids[p[2]], r) \in CiteLists(r)
    BY <2>1, CiteStep
  <2> QED
    BY <2>2
<1>4. \A t \in CiteLists(r), k \in 1 .. n : step[<<t, k>>] = CiteOne(t, ids[k], r)
  OBVIOUS
<1> HIDE DEF step, base, n
<1>5. Picks(LastOne(n), 1 .. n) /\ IsFiniteSet(1 .. n)
  BY <1>1, LastPicks
<1>6. \E h \in [SUBSET (1 .. n) -> CiteLists(r)] : IsFold(h, 1 .. n, LastOne(n), base, step)
  BY <1>2, <1>3, <1>5, FoldThere, Zenon
<1>7. PICK h \in [SUBSET (1 .. n) -> CiteLists(r)] : \A s \in SUBSET (1 .. n) :
        h[s] = IF s = {} THEN base ELSE step[<<h[s \ {LastOne(n)[s]}], LastOne(n)[s]>>]
  BY <1>6 DEF IsFold
<1>8. \A s \in SUBSET (1 .. n) : h[s] = CitesNext(h, s, tags, ids, r)
  <2> SUFFICES ASSUME NEW s \in SUBSET (1 .. n), s # {} PROVE h[s] = CitesNext(h, s, tags, ids, r)
    BY <1>7 DEF CitesNext, base
  <2>1. LastOne(n)[s] = Max(s) /\ Max(s) \in 1 .. n
    BY <1>1, LastIsIn DEF LastOne
  <2>2. h[s \ {Max(s)}] \in CiteLists(r)
    OBVIOUS
  <2> QED
    BY <1>4, <1>7, <2>1, <2>2 DEF CitesNext
<1>9. h = [s \in SUBSET (DOMAIN ids) |-> CitesNext(h, s, tags, ids, r)]
  BY <1>1, <1>8
<1>10. CitedBy(tags, ids, r)
         = [s \in SUBSET (DOMAIN ids) |-> CitesNext(CitedBy(tags, ids, r), s, tags, ids, r)]
  BY <1>9 DEF CitedBy
<1> QED
  BY <1>10

LEMMA CitedFits ==
  ASSUME NEW r, NEW tags \in Seq(r.evidence), IsInjective(tags), Len(tags) <= MaxTags,
         NEW ids, IsList(ids), IsInjective(ids)
  PROVE  LET t == CitedBy(tags, ids, r)[DOMAIN ids] IN t \in CiteLists(r) /\ Fits(t, tags)
<1> DEFINE F == CitedBy(tags, ids, r)
           n == Len(ids)
           NamedIn(s) == {ids[k] : k \in s}
           K == {s \in SUBSET (1 .. n) : /\ F[s] \in CiteLists(r) /\ Fits(F[s], tags)
                                         /\ ToSet(F[s].refs) \subseteq NamedIn(s)}
<1>1. n \in Nat /\ DOMAIN ids = 1 .. n
  BY DEF IsList
<1>2. \A s \in SUBSET (1 .. n) : F[s] = CitesNext(F, s, tags, ids, r)
  BY <1>1, CitedUnfold
<1> HIDE DEF F, n
<1>3. {} \in K
  <2>1. F[{}] = [tags |-> tags, refs |-> <<>>]
    BY <1>2 DEF CitesNext
  <2>2. ToSet(<<>>) = {} /\ IsInjective(<<>>)
    BY DEF ToSet, IsInjective
  <2>3. /\ F[{}] \in CiteLists(r) /\ F[{}].tags = tags /\ F[{}].refs = <<>>
    BY <2>1 DEF CiteLists
  <2>4. Fits(F[{}], tags) /\ ToSet(F[{}].refs) \subseteq NamedIn({})
    BY <2>2, <2>3 DEF Fits
  <2> QED
    BY <2>3, <2>4
<1>4. ASSUME NEW s \in SUBSET (1 .. n), s # {}, s \ {LastOne(n)[s]} \in K PROVE s \in K
  <2> DEFINE x == Max(s)
             q == s \ {x}
  <2>1. LastOne(n)[s] = x /\ x \in s
    BY <1>1, <1>4, LastIsIn DEF LastOne
  <2>2. F[q] \in CiteLists(r) /\ Fits(F[q], tags) /\ ToSet(F[q].refs) \subseteq NamedIn(q)
    BY <1>4, <2>1
  <2>3. F[s] = CiteOne(F[q], ids[x], r)
    BY <1>2, <1>4 DEF CitesNext
  <2>4. ids[x] \notin NamedIn(q)
    BY <1>1, <2>1 DEF IsInjective
  <2>5. NamedIn(s) = NamedIn(q) \cup {ids[x]}
    BY <2>1
  <2> HIDE DEF x, q, NamedIn
  <2>6. /\ F[s] \in CiteLists(r) /\ Fits(F[s], tags)
        /\ ToSet(F[s].refs) \subseteq ToSet(F[q].refs) \cup {ids[x]}
    <3>1. ids[x] \notin ToSet(F[q].refs)
      BY <2>2, <2>4
    <3> QED
      BY <2>2, <2>3, <3>1, CiteStep, Zenon
  <2> QED
    BY <2>2, <2>5, <2>6
<1> HIDE DEF K
<1>5. K \in SUBSET (SUBSET (1 .. n))
  BY DEF K
<1>6. \A s \in SUBSET (1 .. n) : s # {} /\ s \ {LastOne(n)[s]} \in K => s \in K
  BY <1>4
<1>7. K = SUBSET (1 .. n)
  BY <1>1, <1>3, <1>5, <1>6, ListKeeps
<1>8. 1 .. n \in K
  BY <1>7
<1> QED
  BY <1>1, <1>8 DEF K, F

\* A list that names nothing twice is no longer than the list it draws from.
LEMMA NoLonger ==
  ASSUME NEW E, NEW s \in Seq(E), NEW t \in Seq(E), IsInjective(s), ToSet(s) \subseteq ToSet(t)
  PROVE  Len(s) <= Len(t)
<1>1. /\ Len(s) \in Nat /\ Len(t) \in Nat
      /\ DOMAIN s = 1 .. Len(s) /\ DOMAIN t = 1 .. Len(t)
  OBVIOUS
<1> DEFINE m == Len(s)
           n == Len(t)
           g == [k \in 1 .. m |-> CHOOSE j \in 1 .. n : t[j] = s[k]]
<1>2. \A k \in 1 .. m : g[k] \in 1 .. n /\ t[g[k]] = s[k]
  <2> SUFFICES ASSUME NEW k \in 1 .. m PROVE g[k] \in 1 .. n /\ t[g[k]] = s[k]
    OBVIOUS
  <2>1. s[k] \in ToSet(s)
    BY <1>1 DEF ToSet
  <2>2. \E j \in 1 .. n : t[j] = s[k]
    BY <1>1, <2>1 DEF ToSet
  <2> QED
    BY <2>2
<1>3. \A j, k \in 1 .. m : s[j] = s[k] => j = k
  BY <1>1 DEF IsInjective
<1>4. g \in Injection(1 .. m, 1 .. n)
  <2>1. g \in [1 .. m -> 1 .. n]
    BY <1>2
  <2> HIDE DEF g
  <2>2. \A j, k \in 1 .. m : g[j] = g[k] => j = k
    BY <1>2, <1>3
  <2> QED
    BY <2>1, <2>2 DEF Injection, IsInjective
<1> HIDE DEF g
<1>5. /\ IsFiniteSet(1 .. n) /\ Cardinality(1 .. n) = n
      /\ IsFiniteSet(1 .. m) /\ Cardinality(1 .. m) = m
  <2> HIDE DEF m, n
  <2>1. m \in Nat /\ n \in Nat
    BY <1>1 DEF m, n
  <2> QED
    BY <2>1, FS_Interval
<1>6. Cardinality(1 .. m) <= Cardinality(1 .. n)
  BY <1>4, <1>5, FS_Injection
<1> QED
  BY <1>5, <1>6

\* What a step may say: as much as validate_snapshot accepts.
Sayable(x) ==
  /\ IsInjective(x.tags) /\ Len(x.tags) <= MaxTags /\ Len(x.facts) <= MaxFacts
  /\ \A i, j \in DOMAIN x.facts : x.facts[i].text = x.facts[j].text => i = j
  /\ \A f \in ToSet(x.facts) :
       IsInjective(f.ids) /\ Len(f.ids) <= MaxTags /\ ToSet(f.ids) \subseteq ToSet(x.tags)
Fact(r, T) == [text : T, ids : Seq(r.evidence)]
Said(r, T) == {x \in [facts : Seq(Fact(r, T)), tags : Seq(r.evidence)] : Sayable(x)}

LEMMA NothingIsSayable == ASSUME NEW r, NEW T PROVE NothingSaid \in Said(r, T)
<1> DEFINE x == NothingSaid
<1>1. /\ x \in [facts : Seq(Fact(r, T)), tags : Seq(r.evidence)]
      /\ x.facts = <<>> /\ x.tags = <<>>
  BY DEF NothingSaid
<1>2. IsInjective(<<>>) /\ ToSet(<<>>) = {} /\ DOMAIN <<>> = {} /\ Len(<<>>) = 0
  BY DEF IsInjective, ToSet
<1>3. {MaxTags, MaxFacts} \subseteq Nat
  BY StepsAssumption
<1> HIDE DEF x
<1>4. Sayable(x)
  BY <1>1, <1>2, <1>3 DEF Sayable
<1>5. x \in Said(r, T)
  BY <1>1, <1>4 DEF Said
<1> QED
  BY <1>5 DEF x

\* One more candidate leaves what is said sayable.
LEMMA AddFactKeeps ==
  ASSUME NEW r, NEW T, NEW acc \in Said(r, T),
         NEW c, IsList(c.ids), IsInjective(c.ids), c.text \in T
  PROVE  AddFact(acc, c, r) \in Said(r, T)
<1> DEFINE cited == CitedBy(acc.tags, c.ids, r)[DOMAIN c.ids]
           x == AddFact(acc, c, r)
<1>1. /\ acc.facts \in Seq(Fact(r, T)) /\ acc.tags \in Seq(r.evidence) /\ Sayable(acc)
  BY DEF Said
<1>2. cited \in CiteLists(r) /\ Fits(cited, acc.tags)
  BY <1>1, CitedFits DEF Sayable
<1>3. x = IF Len(acc.facts) = MaxFacts \/ c.text = "blank" THEN acc
          ELSE [tags |-> cited.tags,
                facts |-> IF cited.refs = <<>> \/ \E f \in ToSet(acc.facts) : f.text = c.text
                          THEN acc.facts
                          ELSE Append(acc.facts, [text |-> c.text, ids |-> cited.refs])]
  BY AddFactIs
<1> SUFFICES x \in Said(r, T)
  OBVIOUS
<1> HIDE DEF x, cited
<1>4. CASE x = acc
  BY <1>4
<1>5. CASE x # acc
  <2>1. /\ Len(acc.facts) # MaxFacts
        /\ x = [tags |-> cited.tags,
                facts |-> IF cited.refs = <<>> \/ \E f \in ToSet(acc.facts) : f.text = c.text
                          THEN acc.facts
                          ELSE Append(acc.facts, [text |-> c.text, ids |-> cited.refs])]
    BY <1>3, <1>5
  <2>2. /\ cited.tags \in Seq(r.evidence) /\ cited.refs \in Seq(r.evidence)
        /\ IsInjective(cited.tags) /\ Len(cited.tags) <= MaxTags
        /\ ToSet(acc.tags) \subseteq ToSet(cited.tags)
        /\ ToSet(cited.refs) \subseteq ToSet(cited.tags) /\ IsInjective(cited.refs)
    BY <1>2 DEF CiteLists, Fits
  <2>3. Len(cited.refs) <= MaxTags
    <3>1. Len(cited.refs) <= Len(cited.tags)
      BY <2>2, NoLonger
    <3> QED
      BY <2>2, <3>1, StepsAssumption
  <2>4. x.tags = cited.tags
    BY <2>1
  <2>5. CASE x.facts = acc.facts
    <3>1. x \in [facts : Seq(Fact(r, T)), tags : Seq(r.evidence)]
      BY <1>1, <2>1, <2>2, <2>5
    <3>2. \A f \in ToSet(acc.facts) : ToSet(f.ids) \subseteq ToSet(x.tags)
      BY <1>1, <2>2, <2>4 DEF Sayable
    <3>3. Sayable(x)
      BY <1>1, <2>2, <2>4, <2>5, <3>2 DEF Sayable
    <3> QED
      BY <3>1, <3>3 DEF Said
  <2>6. CASE x.facts # acc.facts
    <3> DEFINE f == [text |-> c.text, ids |-> cited.refs]
    <3>1. /\ x.facts = Append(acc.facts, f)
          /\ \A k \in ToSet(acc.facts) : k.text # c.text
      BY <2>1, <2>6
    <3>2. f \in Fact(r, T) /\ f.text = c.text /\ f.ids = cited.refs
      BY <2>2 DEF Fact
    <3> HIDE DEF f
    <3>3. Grows(Fact(r, T), acc.facts, f, x.facts)
      BY <1>1, <3>1, <3>2, Appended, Zenon
    <3>4. x \in [facts : Seq(Fact(r, T)), tags : Seq(r.evidence)]
      BY <2>1, <2>2, <2>4, <3>3 DEF Grows
    <3>5. Len(x.facts) <= MaxFacts
      BY <1>1, <2>1, <3>3, StepsAssumption DEF Grows, Sayable
    <3>6. \A i, j \in DOMAIN x.facts : x.facts[i].text = x.facts[j].text => i = j
      <4>1. /\ DOMAIN acc.facts = 1 .. Len(acc.facts) /\ Len(acc.facts) \in Nat
            /\ DOMAIN x.facts = 1 .. Len(acc.facts) + 1
            /\ x.facts[Len(acc.facts) + 1] = f
            /\ \A k \in 1 .. Len(acc.facts) : x.facts[k] = acc.facts[k]
        BY <1>1, <3>1, <3>2
      <4>2. \A k \in 1 .. Len(acc.facts) : acc.facts[k].text # c.text
        BY <3>1, <4>1 DEF ToSet
      <4>3. \A k \in DOMAIN x.facts : k = Len(acc.facts) + 1 \/ k \in 1 .. Len(acc.facts)
        BY <4>1
      <4> SUFFICES ASSUME NEW i \in DOMAIN x.facts, NEW j \in DOMAIN x.facts,
                          x.facts[i].text = x.facts[j].text
                   PROVE  i = j
        OBVIOUS
      <4>4. CASE i \in 1 .. Len(acc.facts) /\ j \in 1 .. Len(acc.facts)
        BY <1>1, <4>1, <4>4 DEF Sayable
      <4> QED
        BY <3>2, <4>1, <4>2, <4>3, <4>4
    <3>7. \A k \in ToSet(x.facts) :
            IsInjective(k.ids) /\ Len(k.ids) <= MaxTags /\ ToSet(k.ids) \subseteq ToSet(x.tags)
      <4> SUFFICES ASSUME NEW k \in ToSet(x.facts)
                   PROVE  /\ IsInjective(k.ids) /\ Len(k.ids) <= MaxTags
                          /\ ToSet(k.ids) \subseteq ToSet(x.tags)
        OBVIOUS
      <4>1. k \in ToSet(acc.facts) \/ k = f
        BY <3>3 DEF Grows
      <4>2. CASE k \in ToSet(acc.facts)
        BY <1>1, <2>2, <2>4, <4>2 DEF Sayable
      <4>3. CASE k = f
        BY <2>2, <2>3, <2>4, <3>2, <4>3
      <4> QED
        BY <4>1, <4>2, <4>3
    <3>8. Sayable(x)
      BY <2>2, <2>4, <3>5, <3>6, <3>7 DEF Sayable
    <3> QED
      BY <3>4, <3>8 DEF Said
  <2> QED
    BY <2>5, <2>6
<1> QED
  BY <1>4, <1>5

\* The candidates of a step: lists that name an identifier once.
Listed(list) ==
  IsList(list) /\ \A k \in DOMAIN list : IsList(list[k].ids) /\ IsInjective(list[k].ids)
Texts(list) == {list[k].text : k \in DOMAIN list}

LEMMA StatedUnfold ==
  ASSUME NEW r, NEW list, Listed(list)
  PROVE  LET F == Stated(list, r)
         IN \A s \in SUBSET (DOMAIN list) : F[s] = FactsNext(F, s, list, r)
<1> DEFINE n == Len(list)
           S == Said(r, Texts(list))
           step == [p \in S \X (1 .. n) |-> AddFact(p[1], list[p[2]], r)]
<1>1. n \in Nat /\ DOMAIN list = 1 .. n
  BY DEF Listed, IsList
<1>2. NothingSaid \in S
  BY NothingIsSayable
<1>3. \A x \in S, k \in 1 .. n : AddFact(x, list[k], r) \in S
  <2> SUFFICES ASSUME NEW x \in S, NEW k \in 1 .. n PROVE AddFact(x, list[k], r) \in S
    OBVIOUS
  <2> DEFINE c == list[k]
  <2>1. IsList(c.ids) /\ IsInjective(c.ids) /\ c.text \in Texts(list)
    BY <1>1 DEF Listed, Texts
  <2> HIDE DEF c
  <2>2. AddFact(x, c, r) \in S
    BY <2>1, AddFactKeeps
  <2> QED
    BY <2>2 DEF c
<1> HIDE DEF S
<1>4. step \in [S \X (1 .. n) -> S] /\ \A x \in S, k \in 1 .. n : step[<<x, k>>] = AddFact(x, list[k], r)
  <2>1. \A p \in S \X (1 .. n) : p[1] \in S /\ p[2] \in 1 .. n
    OBVIOUS
  <2>2. \A p \in S \X (1 .. n) : AddFact(p[1], list[p[2]], r) \in S
    BY <1>3, <2>1
  <2> QED
    BY <2>2
<1> HIDE DEF step, n
<1>5. Picks(LastOne(n), 1 .. n) /\ IsFiniteSet(1 .. n)
  BY <1>1, LastPicks
<1>6. \E h \in [SUBSET (1 .. n) -> S] : IsFold(h, 1 .. n, LastOne(n), NothingSaid, step)
  BY <1>2, <1>4, <1>5, FoldThere, Zenon
<1>7. PICK h \in [SUBSET (1 .. n) -> S] : \A s \in SUBSET (1 .. n) :
        h[s] = IF s = {} THEN NothingSaid ELSE step[<<h[s \ {LastOne(n)[s]}], LastOne(n)[s]>>]
  BY <1>6 DEF IsFold
<1>8. \A s \in SUBSET (1 .. n) : h[s] = FactsNext(h, s, list, r)
  <2> SUFFICES ASSUME NEW s \in SUBSET (1 .. n), s # {} PROVE h[s] = FactsNext(h, s, list, r)
    BY <1>7 DEF FactsNext
  <2>1. LastOne(n)[s] = Max(s) /\ Max(s) \in 1 .. n
    BY <1>1, LastIsIn DEF LastOne
  <2>2. h[s \ {Max(s)}] \in S
    OBVIOUS
  <2> QED
    BY <1>4, <1>7, <2>1, <2>2 DEF FactsNext
<1>9. h = [s \in SUBSET (DOMAIN list) |-> FactsNext(h, s, list, r)]
  BY <1>1, <1>8
<1>10. Stated(list, r) = [s \in SUBSET (DOMAIN list) |-> FactsNext(Stated(list, r), s, list, r)]
  BY <1>9 DEF Stated
<1> QED
  BY <1>10

\* What a step says of all its candidates is sayable.
LEMMA StatedIsSayable ==
  ASSUME NEW r, NEW list, Listed(list)
  PROVE  Sayable(Stated(list, r)[DOMAIN list])
<1> DEFINE F == Stated(list, r)
           n == Len(list)
           S == Said(r, Texts(list))
           K == {s \in SUBSET (1 .. n) : F[s] \in S}
<1>1. n \in Nat /\ DOMAIN list = 1 .. n
  BY DEF Listed, IsList
<1>2. \A s \in SUBSET (1 .. n) : F[s] = FactsNext(F, s, list, r)
  BY <1>1, StatedUnfold
<1> HIDE DEF F, n
<1>3. {} \in K
  BY <1>2, NothingIsSayable DEF FactsNext
<1>4. \A s \in SUBSET (1 .. n) : s # {} /\ s \ {LastOne(n)[s]} \in K => s \in K
  <2> SUFFICES ASSUME NEW s \in SUBSET (1 .. n), s # {}, s \ {LastOne(n)[s]} \in K PROVE s \in K
    OBVIOUS
  <2> DEFINE x == Max(s)
             c == list[x]
             a == F[s \ {x}]
  <2>1. LastOne(n)[s] = x /\ x \in 1 .. n
    BY <1>1, LastIsIn DEF LastOne
  <2>2. a \in S
    BY <2>1
  <2>3. IsList(c.ids) /\ IsInjective(c.ids) /\ c.text \in Texts(list)
    BY <1>1, <2>1 DEF Listed, Texts
  <2>4. F[s] = AddFact(a, c, r)
    BY <1>2 DEF FactsNext
  <2> HIDE DEF x, c, a
  <2>5. F[s] \in S
    BY <2>2, <2>3, <2>4, AddFactKeeps
  <2> QED
    BY <2>5
<1>5. K \in SUBSET (SUBSET (1 .. n))
  OBVIOUS
<1> HIDE DEF K
<1>6. K = SUBSET (1 .. n)
  BY <1>1, <1>3, <1>4, <1>5, ListKeeps
<1>7. 1 .. n \in K
  BY <1>6
<1> QED
  BY <1>1, <1>7 DEF K, F, Said

-----------------------------------------------------------------------------
StepsSpec == StepsInit /\ [][StepsNext]_stepVars

\* Beside what is shown, the steps name each agent once, and no more than one
\* snapshot takes; and what completes is one of the results.
Executors(x) == x \in Seq(Members) /\ IsInjective(x) /\ Len(x) <= MaxExecutors
StepShaped(x) == x = [state |-> x.state, message |-> x.message, executors |-> x.executors]
ExecutorsInv ==
  /\ DOMAIN runtime = Step
  /\ \A s \in Step : StepShaped(runtime[s]) /\ Executors(runtime[s].executors)
PublishedInv == published.product => published \in Results
KnownInv == agentSteps \in [Members -> SUBSET Step]
StepsInv == ExecutorsInv /\ KnownInv /\ PublishedInv /\ SnapshotsAreTrue

LEMMA StartsTrue == StepsInit => StepsInv
<1> SUFFICES ASSUME StepsInit PROVE StepsInv
  OBVIOUS
<1>1. /\ runtime = [s \in Step |-> [state |-> "pending", message |-> <<"none">>,
                                     executors |-> <<>>]]
      /\ agentSteps = [m \in Members |-> {}]
      /\ shown = <<>> /\ published = [product |-> FALSE]
  BY DEF StepsInit
<1>2. Executors(<<>>)
  BY StepsAssumption DEF Executors, IsInjective
<1>3. ExecutorsInv
  BY <1>1, <1>2 DEF ExecutorsInv, StepShaped
<1>4. KnownInv /\ PublishedInv /\ SnapshotsAreTrue
  BY <1>1 DEF KnownInv, PublishedInv, SnapshotsAreTrue
<1> QED
  BY <1>3, <1>4 DEF StepsInv

\* A step that moves names one agent more, if it does not know it and has room.
LEMMA AfterFits ==
  ASSUME ExecutorsInv, NEW s \in Step, NEW e \in TeamEvents
  PROVE  LET x == After(s, e) IN /\ StepShaped(x) /\ x.state = "running" /\ Executors(x.executors)
<1> DEFINE x == After(s, e)
           old == runtime[s].executors
           m == e.member
<1>1. StepShaped(x) /\ x.state = "running"
      /\ x.executors = IF NewExecutor(s, m) THEN Append(old, m) ELSE old
  BY DEF After, StepShaped
<1>2. Executors(old)
  BY DEF ExecutorsInv
<1>3. CASE ~NewExecutor(s, m)
  BY <1>1, <1>2, <1>3
<1>4. CASE NewExecutor(s, m)
  <2>1. m # NoMember /\ m \notin ToSet(old) /\ Len(old) < MaxExecutors
    BY <1>4 DEF NewExecutor
  <2>2. m \in Members
    BY <2>1, StepsAssumption
  <2> HIDE DEF x, old, m
  <2>3. old \in Seq(Members) /\ x.executors = Append(old, m)
    BY <1>1, <1>2, <1>4 DEF Executors
  <2>4. Grows(Members, old, m, x.executors)
    BY <2>2, <2>3, Appended, Zenon
  <2>5. Executors(x.executors)
    BY <1>2, <2>1, <2>4, StepsAssumption DEF Executors, Grows
  <2> QED
    BY <1>1, <2>5 DEF x
<1> QED
  BY <1>3, <1>4

LEMMA EndedFits ==
  ASSUME ExecutorsInv, NEW s \in Step, NEW state
  PROVE  LET x == Ended(s, state) IN StepShaped(x) /\ x.state = state /\ Executors(x.executors)
<1> DEFINE o == runtime[s]
           x == [o EXCEPT !.state = state, !.message = <<"none">>]
<1>1. StepShaped(o) /\ Executors(o.executors)
  BY DEF ExecutorsInv
<1> HIDE DEF o
<1>2. DOMAIN o = {"state", "message", "executors"}
  BY <1>1 DEF StepShaped
<1>3. /\ DOMAIN x = {"state", "message", "executors"}
      /\ x.state = state /\ x.message = <<"none">> /\ x.executors = o.executors
  BY <1>2
<1>4. x = [f \in {"state", "message", "executors"} |-> x[f]]
  BY <1>2
<1>5. StepShaped(x)
  <2> HIDE DEF x
  <2> QED
    BY <1>4 DEF StepShaped
<1>6. Ended(s, state) = x
  BY DEF Ended, o
<1> QED
  BY <1>1, <1>3, <1>5, <1>6

\* What the contract asks of a snapshot is asked of its parts.
LEMMA SnapshotFits ==
  ASSUME NEW s, NEW rt, NEW outcome, NEW said,
         Executors(rt.executors), Sayable(said), outcome # "none" <=> rt.state = "completed"
  PROVE  LET x == Snapshot(s, rt, outcome, said)
         IN /\ ValidSnapshot(x) /\ x.state = rt.state /\ x.step = s /\ x.outcome = outcome
<1> DEFINE x == Snapshot(s, rt, outcome, said)
<1>1. /\ x.state = rt.state /\ x.step = s /\ x.outcome = outcome /\ x.executors = rt.executors
      /\ x.facts = said.facts /\ x.tags = said.tags
  BY DEF Snapshot
<1> HIDE DEF x
<1>2. ValidSnapshot(x)
  BY <1>1 DEF ValidSnapshot, Executors, Sayable
<1> QED
  BY <1>1, <1>2 DEF x

LEMMA NothingSayable == Sayable(NothingSaid)
  BY NothingIsSayable DEF Said

\* What the completed steps show: a snapshot of what the result says.
LEMMA CompleteShows ==
  ASSUME ExecutorsInv, NEW r \in Results, CompleteSteps(r) PROVE SnapshotsAreTrue'
<1> DEFINE outcome(s) == IF r.product THEN Outcome(s, r) ELSE LegacyOutcome(s, r)
           said(s) == IF r.product THEN FactsAndTags(s, r) ELSE NothingSaid
           x(s) == Snapshot(s, Ended(s, "completed"), outcome(s), said(s))
<1>1. shown' = [s \in Step |-> x(s)] /\ published' = r
  BY DEF CompleteSteps
<1>2. \A s \in Step : Sayable(said(s))
  <2> SUFFICES ASSUME NEW s \in Step, r.product PROVE Sayable(FactsAndTags(s, r))
    BY NothingSayable
  <2> DEFINE list == IF s = Report THEN <<>> ELSE r.candidates[s]
  <2>1. Listed(list)
    <3>1. CASE s = Report
      BY <3>1 DEF Listed, IsList
    <3>2. CASE s # Report
      BY <3>2, StepsAssumption DEF Listed, IsList
    <3> QED
      BY <3>1, <3>2
  <2>2. FactsAndTags(s, r) = Stated(list, r)[DOMAIN list]
    BY FactsAre
  <2> HIDE DEF list
  <2> QED
    BY <2>1, <2>2, StatedIsSayable
<1>3. \A s \in Step : outcome(s) # "none"
  BY DEF Outcome, LegacyOutcome
<1>4. \A s \in Step, f \in r.findings :
        r.product /\ BearsOn(s, f, r) /\ s # Report => outcome(s) = "attention"
  BY DEF Outcome
<1> HIDE DEF outcome, said
<1>5. ASSUME NEW s \in Step PROVE ValidSnapshot(x(s)) /\ x(s).step = s /\ x(s).outcome = outcome(s)
  <2> DEFINE rt == Ended(s, "completed")
  <2>1. Executors(rt.executors) /\ rt.state = "completed"
    BY EndedFits
  <2> HIDE DEF rt
  <2>2. outcome(s) # "none" <=> rt.state = "completed"
    BY <1>3, <2>1
  <2>3. Sayable(said(s))
    BY <1>2
  <2>4. LET y == Snapshot(s, rt, outcome(s), said(s)) IN
          ValidSnapshot(y) /\ y.step = s /\ y.outcome = outcome(s)
    BY <2>1, <2>2, <2>3, SnapshotFits
  <2> QED
    BY <2>4 DEF rt
<1> HIDE DEF x
<1>6. \A i \in DOMAIN shown' : i \in Step /\ shown'[i] = x(i)
  BY <1>1
<1> QED
  BY <1>1, <1>4, <1>5, <1>6 DEF SnapshotsAreTrue

\* Before the end a snapshot shows a step that runs, or that failed.
LEMMA MovedShows ==
  ASSUME ExecutorsInv, NEW moved \in SUBSET Step, NEW rt, NEW state, state # "completed",
         \A s \in moved : Executors(rt[s].executors) /\ rt[s].state = state,
         shown' = [s \in moved |-> Snapshot(s, rt[s], "none", NothingSaid)]
  PROVE  SnapshotsAreTrue'
<1>1. ASSUME NEW s \in moved
      PROVE  ValidSnapshot(shown'[s]) /\ shown'[s].state # "completed"
  <2>1. shown'[s] = Snapshot(s, rt[s], "none", NothingSaid)
    OBVIOUS
  <2>2. LET x == Snapshot(s, rt[s], "none", NothingSaid) IN ValidSnapshot(x) /\ x.state = rt[s].state
    BY SnapshotFits, NothingSayable
  <2> QED
    BY <2>1, <2>2
<1>2. DOMAIN shown' = moved
  OBVIOUS
<1> QED
  BY <1>1, <1>2 DEF SnapshotsAreTrue

\* An event is filed under steps there are.
LEMMA FiledUnderSteps ==
  ASSUME KnownInv, NEW e \in TeamEvents PROVE StepsOf(e) \subseteq Step
<1>1. \A s \in DOMAIN SectionStep : SectionStep[s] \in Step
  BY DEF SectionStep, Step, Company, Ownership, Business, Finance, External
<1>2. \A p : StepOfPath(p) \subseteq Step
  BY <1>1 DEF StepOfPath, Step, Company, Finance
<1>3. \A id : StepsForIdentifier(id) \subseteq Step
  BY <1>1, <1>2 DEF StepsForIdentifier, Step, Review
<1>4. UNION {StepsForIdentifier(id) : id \in e.ids} \subseteq Step
  BY <1>3
<1>5. e.member # NoMember => agentSteps[e.member] \subseteq Step
  BY StepsAssumption DEF KnownInv
<1>6. {Company, Review, Report} \subseteq Step /\ {s \in 1 .. 5 : runtime[s].state = "running"} \subseteq Step
  BY DEF Company, Review, Report, Step
<1> QED
  BY <1>4, <1>5, <1>6 DEF StepsOf

LEMMA StepsStayTrue ==
  ASSUME StepsInv, [StepsNext]_stepVars PROVE StepsInv'
<1> USE DEF StepsInv
<1>1. CASE StartPlan
  <2>1. shown' = <<>> /\ runtime' = runtime /\ published' = published
    BY <1>1 DEF StartPlan
  <2> QED
    BY <1>1, <2>1 DEF StartPlan, KnownInv, ExecutorsInv, PublishedInv, SnapshotsAreTrue
<1>2. ASSUME NEW e \in TeamEvents, Observe(e) PROVE StepsInv'
  <2> DEFINE moved == {s \in StepsOf(e) : Changes(s, e)}
             rt == [s \in Step |-> After(s, e)]
  <2>1. /\ runtime' = [s \in Step |-> IF s \in moved THEN After(s, e) ELSE runtime[s]]
        /\ shown' = [s \in moved |-> Snapshot(s, After(s, e), "none", NothingSaid)]
        /\ published' = published
        /\ agentSteps' = IF e.member = NoMember THEN agentSteps
                         ELSE [agentSteps EXCEPT ![e.member] = @ \cup StepsOf(e)]
    BY <1>2 DEF Observe
  <2>2. StepsOf(e) \subseteq Step /\ moved \in SUBSET Step
    BY FiledUnderSteps
  <2>3. \A s \in Step : StepShaped(rt[s]) /\ rt[s].state = "running" /\ Executors(rt[s].executors)
    BY AfterFits
  <2>4. /\ runtime' = [s \in Step |-> IF s \in moved THEN rt[s] ELSE runtime[s]]
        /\ shown' = [s \in moved |-> Snapshot(s, rt[s], "none", NothingSaid)]
    BY <2>1, <2>2
  <2> HIDE DEF moved, rt
  <2>5. ExecutorsInv'
    BY <2>3, <2>4 DEF ExecutorsInv
  <2>6. SnapshotsAreTrue'
    <3>1. /\ ExecutorsInv /\ moved \in SUBSET Step
          /\ \A s \in moved : Executors(rt[s].executors) /\ rt[s].state = "running"
          /\ shown' = [s \in moved |-> Snapshot(s, rt[s], "none", NothingSaid)]
      BY <2>2, <2>3, <2>4
    <3> QED
      BY <3>1, MovedShows
  <2>7. KnownInv'
    BY <2>1, <2>2 DEF KnownInv
  <2> QED
    BY <2>1, <2>5, <2>6, <2>7 DEF PublishedInv
<1>3. ASSUME NEW r \in Results, CompleteSteps(r) PROVE StepsInv'
  <2>1. runtime' = [s \in Step |-> Ended(s, "completed")] /\ published' = r
    BY <1>3 DEF CompleteSteps
  <2>2. ExecutorsInv'
    <3>1. \A s \in Step : StepShaped(Ended(s, "completed")) /\ Executors(Ended(s, "completed").executors)
      BY EndedFits
    <3> QED
      BY <2>1, <3>1 DEF ExecutorsInv
  <2>3. SnapshotsAreTrue'
    BY <1>3, CompleteShows
  <2> QED
    BY <1>3, <2>1, <2>2, <2>3 DEF CompleteSteps, KnownInv, PublishedInv
<1>4. CASE FailActive
  <2> DEFINE running == {s \in Step : runtime[s].state = "running"}
             rt == [s \in Step |-> Ended(s, "failed")]
  <2>1. /\ runtime' = [s \in Step |-> IF s \in running THEN rt[s] ELSE runtime[s]]
        /\ shown' = [s \in running |-> Snapshot(s, rt[s], "none", NothingSaid)]
        /\ published' = published
    BY <1>4 DEF FailActive
  <2>2. \A s \in Step : StepShaped(rt[s]) /\ rt[s].state = "failed" /\ Executors(rt[s].executors)
    BY EndedFits
  <2>3. running \in SUBSET Step
    OBVIOUS
  <2> HIDE DEF running, rt
  <2>4. ExecutorsInv'
    BY <2>1, <2>2 DEF ExecutorsInv
  <2>5. SnapshotsAreTrue'
    BY <2>1, <2>2, <2>3, MovedShows
  <2> QED
    BY <1>4, <2>1, <2>4, <2>5 DEF FailActive, KnownInv, PublishedInv
<1>5. CASE UNCHANGED stepVars
  BY <1>5 DEF stepVars, KnownInv, ExecutorsInv, PublishedInv, SnapshotsAreTrue
<1> QED
  BY <1>1, <1>2, <1>3, <1>4, <1>5 DEF StepsNext

\* Every snapshot a step is shown by is one the public contract accepts, and a
\* published finding is never hidden by the gaps of a step it bears on.
THEOREM SnapshotsStayTrue == StepsSpec => []SnapshotsAreTrue
<1>1. StepsInv /\ [StepsNext]_stepVars => StepsInv'
  BY StepsStayTrue
<1>2. StepsInv => SnapshotsAreTrue
  BY DEF StepsInv
<1> QED
  BY <1>1, <1>2, StartsTrue, PTL DEF StepsSpec

-----------------------------------------------------------------------------
(* The artifacts.                                                           *)

ArtifactsSpec == ArtifactsInit /\ [][ArtifactsNext]_artifactVars

\* What is left to write of a result and of a failure, as far as the writing came.
FullRests ==
  {<<"replay", "investigation", "result", "metrics", "report", "manifest">>,
   <<"investigation", "result", "metrics", "report", "manifest">>,
   <<"result", "metrics", "report", "manifest">>,
   <<"metrics", "report", "manifest">>, <<"report", "manifest">>, <<"manifest">>}
FailureRests ==
  {<<"error", "metrics", "manifest">>, <<"metrics", "manifest">>, <<"manifest">>}
Whole == {"investigation", "result", "metrics", "report"}
Left(rest) == {rest[i] : i \in DOMAIN rest}

\* There is no manifest until the last file is there, and then the files are either
\* all of the completed run or marked by an error.
ArtifactsInv ==
  /\ files \in [Name -> {"none", "run", "failure"}] /\ files["report"] \in {"none", "run"}
  /\ task \in {"running", "completing", "failing", "returned", "raised", "stopped"}
  /\ task \in {"running", "returned", "raised", "stopped"} => todo = <<>>
  /\ task = "running" => files["error"] = "none" /\ manifest = NoManifest
  /\ task = "completing" => /\ todo \in FullRests /\ files["error"] = "none"
                            /\ \A n \in Whole : n \in Left(todo) \/ files[n] = "run"
  /\ task = "failing" => /\ todo \in FailureRests
                         /\ "error" \in Left(todo) \/ files["error"] = "failure"
  /\ \/ manifest = NoManifest
     \/ /\ manifest = files /\ task = "returned"
        /\ \A n \in Whole : files[n] = "run"
     \/ manifest = files /\ task = "raised" /\ files["error"] = "failure"

LEMMA Rests ==
  /\ Full \in FullRests /\ Tail(Full) \in FullRests /\ Failure \in FailureRests
  /\ Whole \subseteq Left(Full) /\ Whole \subseteq Left(Tail(Full)) /\ "error" \in Left(Failure)
  BY DEF Full, Failure, FullRests, FailureRests, Whole, Left

\* What is left of a sequence is its head and what is left of its tail.
LEMMA LeftUnfolds ==
  ASSUME NEW X, NEW rest \in Seq(X), rest # <<>>
  PROVE  Left(rest) = {Head(rest)} \cup Left(Tail(rest))
<1>1. /\ Len(rest) \in Nat /\ Len(rest) > 0 /\ DOMAIN rest = 1 .. Len(rest)
      /\ Head(rest) = rest[1] /\ Tail(rest) \in Seq(X) /\ Len(Tail(rest)) = Len(rest) - 1
  OBVIOUS
<1>5. DOMAIN Tail(rest) = 1 .. (Len(rest) - 1)
  BY <1>1
<1>6. \A i \in 1 .. (Len(rest) - 1) : Tail(rest)[i] = rest[i + 1]
  BY <1>1
<1>2. ASSUME NEW x \in Left(rest) PROVE x \in {Head(rest)} \cup Left(Tail(rest))
  <2>1. PICK i \in 1 .. Len(rest) : x = rest[i]
    BY <1>1, <1>5, <1>6, <1>2 DEF Left
  <2>2. CASE i = 1
    BY <1>1, <1>5, <1>6, <2>1, <2>2
  <2>3. CASE i # 1
    <3>1. i - 1 \in DOMAIN Tail(rest) /\ Tail(rest)[i - 1] = x
      BY <1>1, <1>5, <1>6, <2>1, <2>3
    <3> QED
      BY <3>1 DEF Left
  <2> QED
    BY <2>2, <2>3
<1>3. ASSUME NEW x \in Left(Tail(rest)) PROVE x \in Left(rest)
  <2>1. PICK i \in 1 .. (Len(rest) - 1) : x = rest[i + 1]
    BY <1>1, <1>5, <1>6, <1>3 DEF Left
  <2>2. i + 1 \in DOMAIN rest
    BY <1>1, <1>5, <1>6
  <2> QED
    BY <2>1, <2>2 DEF Left
<1>4. Head(rest) \in Left(rest)
  <2>1. 1 \in DOMAIN rest
    BY <1>1, <1>5, <1>6
  <2> QED
    BY <1>1, <1>5, <1>6, <2>1 DEF Left
<1> QED
  BY <1>2, <1>3, <1>4

\* The files are written one by one, the manifest last.
LEMMA FullAdvances ==
  ASSUME NEW rest \in FullRests
  PROVE  /\ rest # <<>> /\ Left(rest) = {Head(rest)} \cup Left(Tail(rest))
         /\ \/ rest = <<"manifest">>
            \/ Tail(rest) \in FullRests /\ Head(rest) \in Name \ {"error"}
<1>1. CASE rest = <<"replay", "investigation", "result", "metrics", "report", "manifest">>
  <2>1. rest \in Seq(Name \cup {"manifest"}) /\ rest # <<>>
    BY <1>1 DEF Name
  <2>2. /\ Tail(rest) = <<"investigation", "result", "metrics", "report", "manifest">>
        /\ Head(rest) = "replay"
    BY <1>1
  <2> QED
    BY <2>1, <2>2, LeftUnfolds DEF FullRests, Name
<1>2. CASE rest = <<"investigation", "result", "metrics", "report", "manifest">>
  <2>1. rest \in Seq(Name \cup {"manifest"}) /\ rest # <<>>
    BY <1>2 DEF Name
  <2>2. /\ Tail(rest) = <<"result", "metrics", "report", "manifest">>
        /\ Head(rest) = "investigation"
    BY <1>2
  <2> QED
    BY <2>1, <2>2, LeftUnfolds DEF FullRests, Name
<1>3. CASE rest = <<"result", "metrics", "report", "manifest">>
  <2>1. rest \in Seq(Name \cup {"manifest"}) /\ rest # <<>>
    BY <1>3 DEF Name
  <2>2. Tail(rest) = <<"metrics", "report", "manifest">> /\ Head(rest) = "result"
    BY <1>3
  <2> QED
    BY <2>1, <2>2, LeftUnfolds DEF FullRests, Name
<1>4. CASE rest = <<"metrics", "report", "manifest">>
  <2>1. rest \in Seq(Name \cup {"manifest"}) /\ rest # <<>>
    BY <1>4 DEF Name
  <2>2. Tail(rest) = <<"report", "manifest">> /\ Head(rest) = "metrics"
    BY <1>4
  <2> QED
    BY <2>1, <2>2, LeftUnfolds DEF FullRests, Name
<1>5. CASE rest = <<"report", "manifest">>
  <2>1. rest \in Seq(Name \cup {"manifest"}) /\ rest # <<>>
    BY <1>5 DEF Name
  <2>2. Tail(rest) = <<"manifest">> /\ Head(rest) = "report"
    BY <1>5
  <2> QED
    BY <2>1, <2>2, LeftUnfolds DEF FullRests, Name
<1>6. CASE rest = <<"manifest">>
  <2>1. rest \in Seq(Name \cup {"manifest"}) /\ rest # <<>>
    BY <1>6 DEF Name
  <2> QED
    BY <1>6, <2>1, LeftUnfolds
<1> QED
  BY <1>1, <1>2, <1>3, <1>4, <1>5, <1>6 DEF FullRests

LEMMA FailureAdvances ==
  ASSUME NEW rest \in FailureRests
  PROVE  /\ rest # <<>> /\ Left(rest) = {Head(rest)} \cup Left(Tail(rest))
         /\ \/ rest = <<"manifest">> /\ "error" \notin Left(rest)
            \/ Tail(rest) \in FailureRests /\ Head(rest) \in Name \ {"report"}
<1>1. CASE rest = <<"error", "metrics", "manifest">>
  <2>1. rest \in Seq(Name \cup {"manifest"}) /\ rest # <<>>
    BY <1>1 DEF Name
  <2>2. Tail(rest) = <<"metrics", "manifest">> /\ Head(rest) = "error"
    BY <1>1
  <2> QED
    BY <2>1, <2>2, LeftUnfolds DEF FailureRests, Name
<1>2. CASE rest = <<"metrics", "manifest">>
  <2>1. rest \in Seq(Name \cup {"manifest"}) /\ rest # <<>>
    BY <1>2 DEF Name
  <2>2. Tail(rest) = <<"manifest">> /\ Head(rest) = "metrics"
    BY <1>2
  <2> QED
    BY <2>1, <2>2, LeftUnfolds DEF FailureRests, Name
<1>3. CASE rest = <<"manifest">>
  <2>1. rest \in Seq(Name \cup {"manifest"}) /\ rest # <<>>
    BY <1>3 DEF Name
  <2> QED
    BY <1>3, <2>1, LeftUnfolds DEF Left
<1> QED
  BY <1>1, <1>2, <1>3 DEF FailureRests

LEMMA LastLeft ==
  ASSUME NEW rest, rest = <<"manifest">>
  PROVE  Head(rest) = "manifest" /\ Tail(rest) = <<>> /\ Left(rest) = {"manifest"}
  BY DEF Left

LEMMA ArtifactsInitially == ASSUME ArtifactsInit PROVE ArtifactsInv
  BY DEF ArtifactsInit, ArtifactsInv, Name

\* The trace is rewritten when a run ends, and nothing else.
LEMMA TraceOnly ==
  ASSUME files \in [Name -> {"none", "run", "failure"}], Trace
  PROVE  /\ files' \in [Name -> {"none", "run", "failure"}]
         /\ \A n \in Name \ {"trace"} : files'[n] = files[n]
  BY DEF Trace, Name

LEMMA CompleteRunSteps == ASSUME ArtifactsInv, CompleteRun PROVE ArtifactsInv'
<1>1. todo' \in FullRests /\ Whole \subseteq Left(todo')
  BY Rests DEF CompleteRun
<1>2. manifest' = NoManifest /\ task' = "completing"
  BY DEF CompleteRun, ArtifactsInv
<1>3. files' \in [Name -> {"none", "run", "failure"}]
      /\ files'["report"] = files["report"] /\ files'["error"] = files["error"]
  BY TraceOnly DEF ArtifactsInv, CompleteRun, Name
<1> QED
  BY <1>1, <1>2, <1>3 DEF ArtifactsInv, CompleteRun

LEMMA FailSteps == ASSUME ArtifactsInv, FailRun PROVE ArtifactsInv'
<1>1. todo' = Failure /\ Failure \in FailureRests /\ "error" \in Left(Failure)
  BY Rests DEF FailRun
<1>2. manifest' = NoManifest /\ task' = "failing"
  BY DEF FailRun, ArtifactsInv
<1>3. files' \in [Name -> {"none", "run", "failure"}] /\ files'["report"] = files["report"]
  BY TraceOnly DEF ArtifactsInv, FailRun, Name
<1> QED
  BY <1>1, <1>2, <1>3 DEF ArtifactsInv, FailRun

LEMMA ReplaceSteps == ASSUME ArtifactsInv, Replace PROVE ArtifactsInv'
<1> DEFINE head == Head(todo)
           rest == Tail(todo)
<1>1. task \in {"completing", "failing"} /\ todo # <<>> /\ todo' = rest
  BY DEF Replace
<1>2. manifest = NoManifest
  BY <1>1 DEF ArtifactsInv
<1>3. CASE todo = <<"manifest">>
  <2>1. head = "manifest" /\ rest = <<>> /\ Left(todo) = {"manifest"}
    BY <1>3, LastLeft
  <2>2. manifest' = files /\ files' = files
        /\ task' = IF task = "failing" THEN "raised" ELSE "returned"
    BY <2>1 DEF Replace
  <2> QED
    BY <1>1, <2>1, <2>2 DEF ArtifactsInv, Whole
<1>4. CASE task = "completing" /\ todo # <<"manifest">>
  <2>1. /\ todo \in FullRests /\ files["error"] = "none"
        /\ \A n \in Whole : n \in Left(todo) \/ files[n] = "run"
    BY <1>4 DEF ArtifactsInv
  <2>2. /\ rest \in FullRests /\ rest # <<>> /\ head \in Name \ {"error"}
        /\ Left(todo) = {head} \cup Left(rest)
    BY <1>4, <2>1, FullAdvances
  <2>3. head # "manifest"
    BY <2>2 DEF Name
  <2>4. files' = [files EXCEPT ![head] = "run"] /\ task' = task /\ manifest' = manifest
    BY <1>4, <2>2, <2>3 DEF Replace
  <2>5. files \in [Name -> {"none", "run", "failure"}]
    BY DEF ArtifactsInv
  <2>6. files' \in [Name -> {"none", "run", "failure"}]
    BY <2>2, <2>4, <2>5
  <2>7. \A n \in Name : files'[n] = IF n = head THEN "run" ELSE files[n]
    BY <2>4, <2>5
  <2>8. \A n \in Whole : n \in Left(rest) \/ files'[n] = "run"
    BY <2>1, <2>2, <2>7 DEF Whole, Name
  <2>9. files'["error"] = "none" /\ files'["report"] \in {"none", "run"}
    BY <2>1, <2>2, <2>7 DEF Name, ArtifactsInv
  <2> QED
    BY <1>1, <1>2, <1>4, <2>2, <2>4, <2>6, <2>8, <2>9 DEF ArtifactsInv
<1>5. CASE task = "failing" /\ todo # <<"manifest">>
  <2>1. /\ todo \in FailureRests
        /\ "error" \in Left(todo) \/ files["error"] = "failure"
    BY <1>5 DEF ArtifactsInv
  <2>2. /\ rest \in FailureRests /\ rest # <<>> /\ head \in Name \ {"report"}
        /\ Left(todo) = {head} \cup Left(rest)
    BY <1>5, <2>1, FailureAdvances
  <2>3. head # "manifest"
    BY <2>2 DEF Name
  <2>4. files' = [files EXCEPT ![head] = "failure"] /\ task' = task /\ manifest' = manifest
    BY <1>5, <2>2, <2>3 DEF Replace
  <2>5. files \in [Name -> {"none", "run", "failure"}]
    BY DEF ArtifactsInv
  <2>6. files' \in [Name -> {"none", "run", "failure"}]
    BY <2>2, <2>4, <2>5
  <2>7. \A n \in Name : files'[n] = IF n = head THEN "failure" ELSE files[n]
    BY <2>4, <2>5
  <2>8. "error" \in Left(rest) \/ files'["error"] = "failure"
    BY <2>1, <2>2, <2>7 DEF Name
  <2>9. files'["report"] \in {"none", "run"}
    BY <2>1, <2>2, <2>7 DEF Name, ArtifactsInv
  <2> QED
    BY <1>1, <1>2, <1>5, <2>2, <2>4, <2>6, <2>8, <2>9 DEF ArtifactsInv
<1> QED
  BY <1>1, <1>3, <1>4, <1>5

LEMMA ReplayFaultSteps == ASSUME ArtifactsInv, ReplayFault PROVE ArtifactsInv'
<1>1. /\ task = "completing" /\ task' = task /\ manifest' = manifest
      /\ todo' = Tail(todo) /\ Head(todo) = "replay"
      /\ files' = [files EXCEPT !["replay"] = "none"]
  BY DEF ReplayFault
<1>2. todo \in FullRests /\ todo # <<"manifest">>
  BY <1>1, LastLeft DEF ArtifactsInv
<1>3. todo' \in FullRests /\ Left(todo) = {"replay"} \cup Left(todo')
  BY <1>1, <1>2, FullAdvances
<1>4. files' \in [Name -> {"none", "run", "failure"}]
      /\ \A n \in Name : n # "replay" => files'[n] = files[n]
  BY <1>1 DEF ArtifactsInv, Name
<1>5. /\ \A n \in Whole : n \in Left(todo') \/ files'[n] = "run"
      /\ files'["error"] = "none" /\ files'["report"] \in {"none", "run"}
  BY <1>1, <1>3, <1>4 DEF ArtifactsInv, Whole, Name
<1> QED
  BY <1>1, <1>3, <1>4, <1>5 DEF ArtifactsInv

LEMMA WriteFaultSteps == ASSUME ArtifactsInv, WriteFault PROVE ArtifactsInv'
<1>1. task \in {"completing", "failing"} /\ manifest' = manifest
  BY DEF WriteFault
<1>2. manifest = NoManifest
  BY <1>1 DEF ArtifactsInv
<1>3. CASE task = "completing"
  <2>1. task' = "failing" /\ todo' = Failure /\ Trace
    BY <1>3 DEF WriteFault
  <2>2. files' \in [Name -> {"none", "run", "failure"}] /\ files'["report"] = files["report"]
    BY <2>1, TraceOnly DEF ArtifactsInv, Name
  <2> QED
    BY <1>1, <1>2, <2>1, <2>2, Rests DEF ArtifactsInv
<1>4. CASE task = "failing"
  BY <1>1, <1>2, <1>4 DEF WriteFault, ArtifactsInv
<1> QED
  BY <1>1, <1>3, <1>4

LEMMA ArtifactsSteps ==
  ASSUME ArtifactsInv, [ArtifactsNext]_artifactVars PROVE ArtifactsInv'
<1>1. CASE WriteTemporary \/ UNCHANGED artifactVars
  BY <1>1 DEF WriteTemporary, artifactVars, ArtifactsInv
<1>2. CASE Stop
  BY <1>2 DEF Stop, ArtifactsInv
<1> QED
  BY <1>1, <1>2, CompleteRunSteps, FailSteps, ReplaceSteps, ReplayFaultSteps, WriteFaultSteps
     DEF ArtifactsNext

LEMMA WholeWhenRead == ASSUME ArtifactsInv PROVE ReadableResultIsWhole
<1>1. NoManifest # files
  BY DEF NoManifest, ArtifactsInv, Name
<1>2. CASE Verifies
  <2>1. \/ \A n \in Whole : files[n] = "run"
        \/ files["error"] = "failure"
    BY <1>1, <1>2 DEF ArtifactsInv, Verifies
  <2>2. files["report"] \in {"none", "run"}
    BY DEF ArtifactsInv
  <2> QED
    BY <2>1, <2>2 DEF ReadableResultIsWhole, ReplayReadable, Whole
<1>3. CASE ~Verifies
  BY <1>3 DEF ReadableResultIsWhole, ResultReadable, ReplayReadable
<1> QED
  BY <1>2, <1>3

\* Wherever a write fails and wherever the process stops: a result that can be read is
\* marked by an error or whole, and a replay stands beside the report of its run.
THEOREM ReadableStaysWhole == ArtifactsSpec => []ReadableResultIsWhole
<1>1. ArtifactsInit => ArtifactsInv
  BY ArtifactsInitially
<1>2. ArtifactsInv /\ [ArtifactsNext]_artifactVars => ArtifactsInv'
  BY ArtifactsSteps
<1> QED
  BY <1>1, <1>2, WholeWhenRead, PTL DEF ArtifactsSpec

-----------------------------------------------------------------------------
(* The report policies.                                                     *)

PoliciesSpec == PoliciesInit /\ [][PoliciesNext]_policyVars

Placement == {"appendix_only", "section_and_appendix"}
AnyBinding ==
  [policy : Placement, version : EvolutionId \cup {Base}, revision : Nat]
Proposed ==
  [status : {"awaiting_approval", "rejected", "failed"}, targets : TargetSets,
   binding : AnyBinding, by : Nat]

PoliciesTypeOK ==
  /\ active \in AnyBinding /\ applied \in EvolutionId \cup {Base}
  /\ bound \in [PolicyRuns -> AnyBinding \cup {Unbound}]
  /\ candidates \in [EvolutionId -> Proposed \cup {NoCandidate}]
  /\ implementation \in Nat

\* Every binding in force or of a run that is not the base was earned by the
\* candidate it is named after, on the revision just before.
Earned(b) ==
  b.policy # "appendix_only" =>
    /\ b.version \in EvolutionId
    /\ candidates[b.version].status = "awaiting_approval"
    /\ candidates[b.version].binding = b
    /\ bound[b.version[1]].revision + 1 = b.revision
    /\ bound[b.version[1]].policy = "appendix_only"

\* The revision grows with each change, so that a run which is bound to the
\* revision in force is bound to the policy in force.
PoliciesInv ==
  /\ PoliciesTypeOK
  /\ applied = active.version
  /\ Earned(active)
  /\ \A r \in PolicyRuns : bound[r] # Unbound =>
       /\ Earned(bound[r])
       /\ bound[r].revision <= active.revision
       /\ bound[r].revision = active.revision => bound[r] = active
  /\ \A r, s \in PolicyRuns :
       bound[r] # Unbound /\ bound[s] # Unbound /\ bound[r].revision = bound[s].revision
         => bound[r] = bound[s]
  /\ \A c \in EvolutionId : candidates[c] # NoCandidate => bound[c[1]] # Unbound

-----------------------------------------------------------------------------
\* Records are told apart by what they hold.
LEMMA UnboundIsNoBinding == ASSUME NEW b \in AnyBinding PROVE b # Unbound
  BY DEF AnyBinding, Unbound, Placement

\* NoCandidate stands for the absence of one, so no proposal equals it.
LEMMA NoCandidateIsNotProposed == ASSUME NEW c \in Proposed PROVE c # NoCandidate
  BY DEF Proposed, NoCandidate

\* A binding that is frozen is one.
LEMMA BindingType ==
  ASSUME NEW p \in Placement, NEW v \in EvolutionId \cup {Base}, NEW n \in Nat
  PROVE  /\ Binding(p, v, n) \in AnyBinding
         /\ Binding(p, v, n).policy = p /\ Binding(p, v, n).version = v
         /\ Binding(p, v, n).revision = n
  BY DEF Binding, AnyBinding

\* Nothing has been proposed at first.
LEMMA InitPolicies == PoliciesInit => PoliciesInv
<1>1. /\ Base \in EvolutionId \cup {Base} /\ "appendix_only" \in Placement
  BY DEF Placement
<1>2. Binding("appendix_only", Base, 0) \in AnyBinding
  BY <1>1, BindingType
<1>3. /\ Binding("appendix_only", Base, 0).policy = "appendix_only"
      /\ Binding("appendix_only", Base, 0).version = Base
  BY <1>1, BindingType
<1> QED
  BY <1>1, <1>2, <1>3 DEF PoliciesInit, PoliciesInv, PoliciesTypeOK, Earned

-----------------------------------------------------------------------------
(* One lemma per operation. *)

\* A run is bound to what is in force, which is earned.
LEMMA AcceptRunStep ==
  ASSUME PoliciesInv, NEW r \in PolicyRuns, AcceptRun(r) PROVE PoliciesInv'
<1>1. /\ bound' = [bound EXCEPT ![r] = active] /\ active' = active /\ applied' = applied
      /\ candidates' = candidates /\ implementation' = implementation /\ bound[r] = Unbound
  BY DEF AcceptRun
<1>2. active \in AnyBinding /\ active # Unbound
  BY UnboundIsNoBinding DEF PoliciesInv, PoliciesTypeOK
<1>3. PoliciesTypeOK'
  BY <1>1, <1>2 DEF PoliciesInv, PoliciesTypeOK
<1>4. \A s \in PolicyRuns : bound'[s] = IF s = r THEN active ELSE bound[s]
  BY <1>1 DEF PoliciesInv, PoliciesTypeOK
<1>5. ASSUME NEW b, Earned(b), b \in AnyBinding PROVE Earned(b)'
  <2>1. CASE b.policy = "appendix_only"
    BY <2>1 DEF Earned
  <2>2. CASE b.policy # "appendix_only"
    <3>1. b.version[1] \in PolicyRuns
      BY <1>5, <2>2 DEF Earned, EvolutionId
    <3>2. bound[b.version[1]].policy # Unbound.policy
      BY <1>5, <2>2 DEF Earned, Unbound
    <3>3. bound'[b.version[1]] = bound[b.version[1]]
      BY <3>1, <3>2, <1>1, <1>4
    <3> QED
      BY <1>1, <1>5, <2>2, <3>3 DEF Earned
  <2> QED
    BY <2>1, <2>2
<1>6. ASSUME NEW s \in PolicyRuns, bound'[s] # Unbound
      PROVE  /\ Earned(bound[s])'
             /\ bound'[s].revision <= active'.revision
             /\ bound'[s].revision = active'.revision => bound'[s] = active'
  <2>1. CASE s = r
    BY <1>1, <1>2, <1>4, <1>5, <2>1 DEF PoliciesInv, AnyBinding
  <2>2. CASE s # r
    <3>1. bound'[s] = bound[s] /\ bound[s] # Unbound /\ bound[s] \in AnyBinding
      BY <1>4, <1>6, <2>2 DEF PoliciesInv, PoliciesTypeOK
    <3>2. Earned(bound[s])'
      BY <3>1, <1>5 DEF PoliciesInv
    <3> QED
      BY <1>1, <3>1, <3>2 DEF PoliciesInv
  <2> QED
    BY <2>1, <2>2
<1> QED
  BY <1>1, <1>2, <1>3, <1>4, <1>5, <1>6 DEF PoliciesInv

\* Freezing a report changes none of this.
LEMMA FreezeReportStep ==
  ASSUME PoliciesInv, NEW r \in PolicyRuns, FreezeReport(r) PROVE PoliciesInv'
  BY DEF FreezeReport, PoliciesInv, PoliciesTypeOK, Earned

\* A key that was taken keeps its candidate.
LEMMA ProposeStep ==
  ASSUME PoliciesInv, NEW r \in PolicyRuns, NEW k \in FeedbackKeys, NEW t \in TargetSets,
         NEW raises \in BOOLEAN, Propose(r, k, t, raises)
  PROVE  PoliciesInv'
<1> DEFINE c == <<r, k>>
           status == IF raises \/ replayable[r] # {implementation} THEN "failed"
                     ELSE IF Passes(r, t) THEN "awaiting_approval" ELSE "rejected"
           new == [status |-> status, targets |-> t, binding |-> CandidateOf(c),
                   by |-> implementation]
<1>1. /\ candidates' = [candidates EXCEPT ![c] = new]
      /\ candidates[c] = NoCandidate /\ bound[r] = active
      /\ active' = active /\ applied' = applied /\ bound' = bound
      /\ implementation' = implementation
  BY DEF Propose
<1>2. c \in EvolutionId /\ active \in AnyBinding /\ active # Unbound
  BY UnboundIsNoBinding DEF EvolutionId, PoliciesInv, PoliciesTypeOK
<1>3. CandidateOf(c) \in AnyBinding
  <2>1. active.revision + 1 \in Nat /\ "section_and_appendix" \in Placement
    BY <1>2 DEF AnyBinding, Placement
  <2> QED
    BY <1>2, <2>1, BindingType DEF CandidateOf
<1>4. new \in Proposed
  <2>1. status \in {"awaiting_approval", "rejected", "failed"}
    OBVIOUS
  <2> HIDE DEF status
  <2> QED
    BY <1>3, <2>1 DEF Proposed, PoliciesInv, PoliciesTypeOK
<1>5. PoliciesTypeOK'
  BY <1>1, <1>4 DEF PoliciesInv, PoliciesTypeOK
<1> HIDE DEF new, c
<1>6. \A d \in EvolutionId : d # c => candidates'[d] = candidates[d]
  BY <1>1 DEF PoliciesInv, PoliciesTypeOK
<1>7. ASSUME NEW b, Earned(b) PROVE Earned(b)'
  <2>1. b.policy # "appendix_only" => b.version # c
    BY <1>1, <1>7 DEF Earned, NoCandidate
  <2> QED
    BY <1>1, <1>6, <1>7, <2>1 DEF Earned
<1>8. \A d \in EvolutionId : candidates'[d] # NoCandidate => bound[d[1]] # Unbound
  BY <1>1, <1>2, <1>6 DEF PoliciesInv, c
<1> QED
  BY <1>1, <1>5, <1>7, <1>8 DEF PoliciesInv

\* What comes into force is earned, on the revision just before.
LEMMA ApplyStep ==
  ASSUME PoliciesInv, NEW c \in EvolutionId, Apply(c) PROVE PoliciesInv'
<1>1. /\ active' = candidates[c].binding /\ applied' = c
      /\ bound' = bound /\ candidates' = candidates /\ implementation' = implementation
      /\ candidates[c].status = "awaiting_approval" /\ candidates[c] # NoCandidate
      /\ bound[c[1]] = active /\ bound[c[1]].policy = "appendix_only"
      /\ active' = Binding("section_and_appendix", c, active.revision + 1)
  BY DEF Apply, CandidateOf, Passes
<1>2. active \in AnyBinding /\ active.revision \in Nat /\ c \in EvolutionId \cup {Base}
      /\ "section_and_appendix" \in Placement
  BY DEF PoliciesInv, PoliciesTypeOK, AnyBinding, Placement
<1>3. /\ active' \in AnyBinding /\ active'.policy = "section_and_appendix"
      /\ active'.version = c /\ active'.revision = active.revision + 1
  BY <1>1, <1>2, BindingType
<1>4. PoliciesTypeOK'
  BY <1>1, <1>3 DEF PoliciesInv, PoliciesTypeOK
<1>5. Earned(active)'
  BY <1>1, <1>3 DEF Earned
<1>6. ASSUME NEW s \in PolicyRuns, bound[s] # Unbound
      PROVE  /\ Earned(bound[s])' /\ bound'[s].revision <= active'.revision
             /\ bound'[s].revision # active'.revision
  <2>1. bound[s] \in AnyBinding /\ bound[s].revision \in Nat
        /\ bound[s].revision <= active.revision
    BY <1>6 DEF PoliciesInv, PoliciesTypeOK, AnyBinding
  <2>2. Earned(bound[s])'
    BY <1>1, <1>6 DEF PoliciesInv, Earned
  <2> QED
    BY <1>1, <1>2, <1>3, <2>1, <2>2
<1> QED
  BY <1>1, <1>3, <1>4, <1>5, <1>6 DEF PoliciesInv

\* A reset is a revision of its own.
LEMMA ResetStep == ASSUME PoliciesInv, Reset PROVE PoliciesInv'
<1>1. /\ active' = Binding("appendix_only", Base, active.revision + 1) /\ applied' = Base
      /\ bound' = bound /\ candidates' = candidates /\ implementation' = implementation
  BY DEF Reset
<1>2. active \in AnyBinding /\ active.revision \in Nat /\ active.revision + 1 \in Nat
      /\ Base \in EvolutionId \cup {Base} /\ "appendix_only" \in Placement
  BY DEF PoliciesInv, PoliciesTypeOK, AnyBinding, Placement
<1>3. /\ active' \in AnyBinding /\ active'.policy = "appendix_only"
      /\ active'.version = Base /\ active'.revision = active.revision + 1
  BY <1>1, <1>2, BindingType
<1>4. PoliciesTypeOK'
  BY <1>1, <1>2, <1>3 DEF PoliciesInv, PoliciesTypeOK
<1>5. Earned(active)'
  BY <1>3 DEF Earned
<1>6. ASSUME NEW s \in PolicyRuns, bound[s] # Unbound
      PROVE  /\ Earned(bound[s])' /\ bound'[s].revision <= active'.revision
             /\ bound'[s].revision # active'.revision
  <2>1. bound[s] \in AnyBinding /\ bound[s].revision \in Nat
        /\ bound[s].revision <= active.revision
    BY <1>6 DEF PoliciesInv, PoliciesTypeOK, AnyBinding
  <2>2. Earned(bound[s])'
    BY <1>1, <1>6 DEF PoliciesInv, Earned
  <2> QED
    BY <1>1, <1>2, <1>3, <2>1, <2>2
<1> QED
  BY <1>1, <1>3, <1>4, <1>5, <1>6 DEF PoliciesInv

\* A deployment touches no policy.
LEMMA UpgradeStep == ASSUME PoliciesInv, Upgrade PROVE PoliciesInv'
  BY DEF Upgrade, PoliciesInv, PoliciesTypeOK, Earned

-----------------------------------------------------------------------------
\* The inductive invariant, in particular that types are kept and that the layout
\* in force is the one the store says was applied.
THEOREM PoliciesInvariant == PoliciesSpec => []PoliciesInv
<1>1. PoliciesInv /\ [PoliciesNext]_policyVars => PoliciesInv'
  <2> SUFFICES ASSUME PoliciesInv, [PoliciesNext]_policyVars PROVE PoliciesInv'
    OBVIOUS
  <2>1. ASSUME NEW r \in PolicyRuns, AcceptRun(r) PROVE PoliciesInv'
    BY <2>1, AcceptRunStep
  <2>2. ASSUME NEW r \in PolicyRuns, FreezeReport(r) PROVE PoliciesInv'
    BY <2>2, FreezeReportStep
  <2>3. ASSUME NEW r \in PolicyRuns, NEW k \in FeedbackKeys, NEW t \in TargetSets,
               NEW raises \in BOOLEAN, Propose(r, k, t, raises)
        PROVE  PoliciesInv'
    BY <2>3, ProposeStep
  <2>4. ASSUME NEW c \in EvolutionId, Apply(c) PROVE PoliciesInv'
    BY <2>4, ApplyStep
  <2>5. CASE Reset
    BY <2>5, ResetStep
  <2>6. CASE Upgrade
    BY <2>6, UpgradeStep
  <2>7. CASE UNCHANGED policyVars
    BY <2>7 DEF policyVars, PoliciesInv, PoliciesTypeOK, Earned
  <2> QED
    BY <2>1, <2>2, <2>3, <2>4, <2>5, <2>6, <2>7 DEF PoliciesNext
<1> QED
  BY InitPolicies, <1>1, PTL DEF PoliciesSpec

\* For every number of runs, keys, approvals and resets: one revision is one policy,
\* a changed layout was approved on the revision just before it, and what was
\* replaced never comes back.
THEOREM LayoutsAreEarned == PoliciesSpec => []PoliciesAreEarned
<1>1. PoliciesInv => PoliciesAreEarned
  <2> SUFFICES ASSUME PoliciesInv PROVE PoliciesAreEarned
    OBVIOUS
  <2> DEFINE inForce == {active} \cup ({bound[r] : r \in PolicyRuns} \ {Unbound})
  <2>1. \A b, d \in inForce : b.revision = d.revision => b = d
    BY DEF PoliciesInv
  <2>2. \A b \in inForce : Earned(b)
    BY DEF PoliciesInv
  <2> QED
    BY <2>1, <2>2 DEF PoliciesAreEarned, Earned, PoliciesInv
<1> QED
  BY <1>1, PoliciesInvariant, PTL

-----------------------------------------------------------------------------
(* The proxy.                                                               *)

-----------------------------------------------------------------------------
(* The slots of all users. *)

\* What MapThenSumSet adds up, one user after another.
FirstOf(s) == CHOOSE u \in s : TRUE
Adds(h, s) == IF s = {} THEN 0 ELSE connections[FirstOf(s)] + h[s \ {FirstOf(s)}]
Slots == CHOOSE h : h = [s \in SUBSET Users |-> Adds(h, s)]

LEMMA AcquireBelow ==
  ASSUME NEW u PROVE CanAcquire(u) <=> /\ Slots[Users] < MaxConnections
                                       /\ connections[u] < ConnectionsPerUser
  BY DEF CanAcquire, MapThenSumSet, MapThenFoldSet, Slots, Adds, FirstOf

LEMMA FirstIsOne == ASSUME NEW s, s # {} PROVE FirstOf(s) \in s
  BY DEF FirstOf

FirstOne == [s \in SUBSET Users |-> FirstOf(s)]

LEMMA FirstPicks == Picks(FirstOne, Users)
  BY FirstIsOne DEF Picks, FirstOne

LEMMA SlotsUnfold ==
  ASSUME connections \in [Users -> Nat]
  PROVE  \A s \in SUBSET Users : Slots[s] = Adds(Slots, s)
<1> DEFINE step == [p \in Nat \X Users |-> connections[p[2]] + p[1]]
<1>1. step \in [Nat \X Users -> Nat]
  <2>1. \A p \in Nat \X Users : p[1] \in Nat /\ connections[p[2]] \in Nat
    OBVIOUS
  <2>2. \A p \in Nat \X Users : connections[p[2]] + p[1] \in Nat
    BY <2>1
  <2> QED
    BY <2>2
<1>2. \A n \in Nat, u \in Users : step[<<n, u>>] = connections[u] + n
  OBVIOUS
<1> HIDE DEF step
<1>10. IsFiniteSet(Users) /\ 0 \in Nat
  BY ProxyAssumption
<1>11. \E h \in [SUBSET Users -> Nat] : IsFold(h, Users, FirstOne, 0, step)
  BY <1>1, <1>10, FirstPicks, FoldThere, Zenon
<1>3. PICK h \in [SUBSET Users -> Nat] : \A s \in SUBSET Users :
        h[s] = IF s = {} THEN 0 ELSE step[<<h[s \ {FirstOne[s]}], FirstOne[s]>>]
  BY <1>11 DEF IsFold
<1>4. \A s \in SUBSET Users : h[s] = Adds(h, s)
  <2> SUFFICES ASSUME NEW s \in SUBSET Users, s # {} PROVE h[s] = Adds(h, s)
    BY <1>3 DEF Adds
  <2>1. FirstOne[s] = FirstOf(s) /\ FirstOf(s) \in Users
    BY FirstIsOne DEF FirstOne
  <2>2. h[s \ {FirstOf(s)}] \in Nat
    OBVIOUS
  <2> QED
    BY <1>2, <1>3, <2>1, <2>2 DEF Adds
<1>5. h = [s \in SUBSET Users |-> Adds(h, s)]
  BY <1>4
<1>6. Slots = [s \in SUBSET Users |-> Adds(Slots, s)]
  BY <1>5 DEF Slots
<1> QED
  BY <1>6

-----------------------------------------------------------------------------
(* Requests and the slots they hold. *)

ProxySpec == ProxyInit /\ [][ProxyNext]_proxyVars

Session == [id : Nat, user : Users \cup {NoUser}]
Request ==
  [at : {"idle", "reading", "asking", "open", "streaming", "ending", "closing"},
   kind : {"none", "create", "ask"}, user : Users \cup {NoUser}, session : Session,
   owed : SUBSET {"body", "response"}, closed : BOOLEAN]

\* A user's slot is held from the moment a request is asked until its stream, if it
\* became one, was closed.
Holds(p, u) ==
  p.user = u /\ p.at \notin {"idle", "reading"} /\ (p.at = "ending" => ~p.closed)
Holding(u) == {q \in Pending : Holds(request[q], u)}
HoldingAny == {q \in Pending : \E u \in Users : Holds(request[q], u)}

\* A stream is closed once it ends; only who reads a body creates.
Settling(p) ==
  /\ p.closed => p.at \in {"ending", "closing"}
  /\ p.at = "closing" => p.closed
  /\ p.at # "idle" => p.user \in Users
  /\ p.at = "reading" => p.kind = "create"
RequestsInv ==
  /\ request \in [Pending -> Request] /\ \A q \in Pending : Settling(request[q])
  /\ IsFiniteSet(sessions) /\ Cardinality(sessions) <= MaxSessions
  /\ sessions \subseteq [id : Nat, user : Users] /\ logins \in Nat
SlotsInv ==
  /\ connections \in [Users -> Nat]
  /\ \A u \in Users : /\ connections[u] = Cardinality(Holding(u))
                      /\ connections[u] <= ConnectionsPerUser
  /\ Cardinality(HoldingAny) <= MaxConnections
Creating == {q \in Pending : request[q].kind = "create" /\ request[q].at = "asking"}
BoundInv ==
  /\ DOMAIN runs = GatewayRuns /\ pendingCreates = Cardinality(Creating)
  /\ Cardinality(Held(runs)) + pendingCreates <= MaxBound
ProxyInv == RequestsInv /\ SlotsInv /\ BoundInv

LEMMA UnionBelow ==
  ASSUME NEW A, NEW B, IsFiniteSet(A), IsFiniteSet(B)
  PROVE  /\ Cardinality(A \cup B) <= Cardinality(A) + Cardinality(B)
         /\ Cardinality(A \cup B) \in Nat /\ Cardinality(A) \in Nat
<1>1. IsFiniteSet(A \cap B) /\ IsFiniteSet(A \cup B)
  BY FS_Subset, FS_Union
<1>2. /\ Cardinality(A \cap B) \in Nat /\ Cardinality(A) \in Nat /\ Cardinality(B) \in Nat
      /\ Cardinality(A \cup B) \in Nat
  BY <1>1, FS_CardinalityType
<1>3. Cardinality(A \cup B) = Cardinality(A) + Cardinality(B) - Cardinality(A \cap B)
  BY FS_Union
<1>4. Cardinality(A \cup B) <= Cardinality(A) + Cardinality(B)
  BY <1>2, <1>3
<1> QED
  BY <1>2, <1>4

\* The requests that hold a slot are no more than the slots given.
LEMMA HoldingBelow ==
  ASSUME SlotsInv PROVE Cardinality(HoldingAny) <= Slots[Users] /\ Slots[Users] \in Nat
<1> DEFINE Of(s) == {q \in Pending : \E u \in s : Holds(request[q], u)}
           K == {s \in SUBSET Users : Cardinality(Of(s)) <= Slots[s] /\ Slots[s] \in Nat}
<1>1. \A s \in SUBSET Users : Slots[s] = Adds(Slots, s)
  BY SlotsUnfold DEF SlotsInv
<1>2. {} \in K
  <2>1. Of({}) = {} /\ Slots[{}] = 0
    BY <1>1 DEF Adds
  <2> QED
    BY <2>1, FS_EmptySet
<1>3. ASSUME NEW s \in SUBSET Users, s # {}, s \ {FirstOne[s]} \in K PROVE s \in K
  <2> DEFINE u == FirstOf(s)
             r == s \ {u}
  <2>1. u \in s /\ r \in SUBSET Users /\ FirstOne[s] = u
    BY <1>3, FirstIsOne DEF FirstOne
  <2>2. Cardinality(Of(r)) <= Slots[r] /\ Slots[r] \in Nat
    BY <1>3, <2>1
  <2>3. Slots[s] = connections[u] + Slots[r] /\ connections[u] \in Nat
        /\ connections[u] = Cardinality(Holding(u))
    BY <1>1, <1>3, <2>1 DEF Adds, SlotsInv
  <2>4. Of(s) = Of(r) \cup Holding(u)
    BY <2>1 DEF Holding
  <2>5. IsFiniteSet(Of(r)) /\ IsFiniteSet(Holding(u))
    BY ProxyAssumption, FS_Subset DEF Holding
  <2> HIDE DEF Of, u, r
  <2>6. Cardinality(Of(s)) <= Cardinality(Of(r)) + Cardinality(Holding(u))
        /\ Cardinality(Of(s)) \in Nat /\ Cardinality(Of(r)) \in Nat
    BY <2>4, <2>5, UnionBelow
  <2> QED
    BY <2>2, <2>3, <2>6
<1> HIDE DEF K
<1>4. K \in SUBSET (SUBSET Users)
  BY DEF K
<1>5. K = SUBSET Users
  BY <1>2, <1>3, <1>4, FirstPicks, ProxyAssumption, FoldKeeps
<1>6. Users \in K
  BY <1>5
<1> QED
  BY <1>6 DEF HoldingAny, K

\* One request changes: how the slots of its user follow.
SlotKept(q) == \A u \in Users : Holds(request[q], u)' <=> Holds(request[q], u)
OthersStay(q) == \A p \in Pending \ {q} : request'[p] = request[p]

LEMMA HoldingFinite ==
  ASSUME NEW u
  PROVE  /\ IsFiniteSet(Holding(u)) /\ Cardinality(Holding(u)) \in Nat
         /\ IsFiniteSet(HoldingAny) /\ Cardinality(HoldingAny) \in Nat
  BY ProxyAssumption, FS_Subset, FS_CardinalityType DEF Holding, HoldingAny

LEMMA SlotStays ==
  ASSUME SlotsInv, NEW q \in Pending, UNCHANGED connections, OthersStay(q), SlotKept(q)
  PROVE  SlotsInv'
<1>1. \A p \in Pending, u \in Users : Holds(request[p], u)' <=> Holds(request[p], u)
  <2> SUFFICES ASSUME NEW p \in Pending, NEW u \in Users, p # q
               PROVE  Holds(request[p], u)' <=> Holds(request[p], u)
    BY DEF SlotKept
  <2>1. request'[p] = request[p]
    BY DEF OthersStay
  <2> QED
    BY <2>1 DEF Holds
<1>2. \A u \in Users : Holding(u)' = Holding(u)
  BY <1>1 DEF Holding
<1>3. HoldingAny' = HoldingAny
  BY <1>1 DEF HoldingAny
<1> QED
  BY <1>2, <1>3 DEF SlotsInv

LEMMA SlotTaken ==
  ASSUME SlotsInv, NEW q \in Pending, NEW u \in Users, OthersStay(q), CanAcquire(u), Acquire(u),
         Holds(request[q], u)', \A v \in Users : ~Holds(request[q], v)
  PROVE  SlotsInv'
<1>1. \A p \in Pending \ {q} : \A v : Holds(request[p], v)' <=> Holds(request[p], v)
  BY DEF OthersStay, Holds
<1>2. \A v \in Users \ {u} : ~Holds(request[q], v)'
  BY DEF Holds
<1>3. Holding(u)' = Holding(u) \cup {q} /\ q \notin Holding(u)
  BY <1>1 DEF Holding
<1>4. \A v \in Users \ {u} : Holding(v)' = Holding(v)
  BY <1>1, <1>2 DEF Holding
<1>5. HoldingAny' = HoldingAny \cup {q} /\ q \notin HoldingAny
  BY <1>1 DEF HoldingAny
<1>6. Slots[Users] < MaxConnections /\ connections[u] < ConnectionsPerUser
  BY AcquireBelow
<1>7. Cardinality(HoldingAny) < MaxConnections
  <2>1. Cardinality(HoldingAny) <= Slots[Users] /\ Slots[Users] \in Nat
    BY HoldingBelow
  <2>2. Cardinality(HoldingAny) \in Nat /\ MaxConnections \in Nat
    BY HoldingFinite, ProxyAssumption
  <2> QED
    BY <1>6, <2>1, <2>2
<1>8. Cardinality(HoldingAny') <= MaxConnections
  <2>1. Cardinality(HoldingAny') = Cardinality(HoldingAny) + 1
    BY <1>5, HoldingFinite, FS_AddElement
  <2> QED
    BY <1>7, <2>1, HoldingFinite, ProxyAssumption
<1>9. Cardinality(Holding(u)') = Cardinality(Holding(u)) + 1
  BY <1>3, HoldingFinite, FS_AddElement
<1>10. connections' = [connections EXCEPT ![u] = @ + 1]
  BY DEF Acquire
<1>11. connections' \in [Users -> Nat]
  BY <1>10 DEF SlotsInv
<1>12. ASSUME NEW v \in Users
       PROVE  connections'[v] = Cardinality(Holding(v)') /\ connections'[v] <= ConnectionsPerUser
  <2>1. CASE v = u
    <3>1. connections'[v] = connections[u] + 1 /\ connections[u] = Cardinality(Holding(u))
          /\ connections[u] \in Nat
      BY <2>1, <1>10 DEF SlotsInv
    <3>2. ConnectionsPerUser \in Nat
      BY ProxyAssumption
    <3> QED
      BY <2>1, <3>1, <3>2, <1>6, <1>9
  <2>2. CASE v # u
    BY <2>2, <1>4, <1>10 DEF SlotsInv
  <2> QED
    BY <2>1, <2>2
<1> QED
  BY <1>8, <1>11, <1>12 DEF SlotsInv

LEMMA SlotReleased ==
  ASSUME SlotsInv, NEW q \in Pending, NEW u \in Users, OthersStay(q), Released(u),
         Holds(request[q], u), \A v \in Users : ~Holds(request[q], v)'
  PROVE  SlotsInv'
<1>1. \A p \in Pending \ {q} : \A v : Holds(request[p], v)' <=> Holds(request[p], v)
  BY DEF OthersStay, Holds
<1>2. \A v \in Users \ {u} : ~Holds(request[q], v)
  BY DEF Holds
<1>3. Holding(u)' = Holding(u) \ {q} /\ q \in Holding(u)
  BY <1>1 DEF Holding
<1>4. \A v \in Users \ {u} : Holding(v)' = Holding(v)
  BY <1>1, <1>2 DEF Holding
<1>5. HoldingAny' \subseteq HoldingAny
  BY <1>1 DEF HoldingAny
<1>6. Cardinality(HoldingAny') <= MaxConnections
  <2>1. Cardinality(HoldingAny') <= Cardinality(HoldingAny) /\ Cardinality(HoldingAny') \in Nat
    BY <1>5, HoldingFinite, FS_Subset, FS_CardinalityType
  <2> QED
    BY <2>1, HoldingFinite, ProxyAssumption DEF SlotsInv
<1>7. Cardinality(Holding(u)') = Cardinality(Holding(u)) - 1 /\ Cardinality(Holding(u)) # 0
  BY <1>3, HoldingFinite, FS_RemoveElement, FS_EmptySet
<1>8. connections' = [connections EXCEPT ![u] = IF @ = 0 THEN 0 ELSE @ - 1]
  BY DEF Released
<1>9. connections[u] \in Nat /\ connections[u] # 0 /\ connections[u] = Cardinality(Holding(u))
      /\ connections[u] <= ConnectionsPerUser
  BY <1>7 DEF SlotsInv
<1>10. connections' \in [Users -> Nat] /\ connections'[u] = connections[u] - 1
  BY <1>8, <1>9 DEF SlotsInv
<1>11. ASSUME NEW v \in Users
       PROVE  connections'[v] = Cardinality(Holding(v)') /\ connections'[v] <= ConnectionsPerUser
  <2>1. CASE v = u
    <3>1. ConnectionsPerUser \in Nat
      BY ProxyAssumption
    <3> QED
      BY <2>1, <3>1, <1>7, <1>9, <1>10
  <2>2. CASE v # u
    BY <2>2, <1>4, <1>8 DEF SlotsInv
  <2> QED
    BY <2>1, <2>2
<1> QED
  BY <1>6, <1>10, <1>11 DEF SlotsInv

-----------------------------------------------------------------------------
(* The steps of the proxy. *)

Counted(p) == p.kind = "create" /\ p.at = "asking"

LEMMA RequestChanges ==
  ASSUME RequestsInv, NEW q \in Pending, NEW p \in Request, Settling(p),
         request' = [request EXCEPT ![q] = p], UNCHANGED <<sessions, logins>>
  PROVE  RequestsInv' /\ request'[q] = p /\ OthersStay(q)
<1>1. request \in [Pending -> Request]
  BY DEF RequestsInv
<1> HIDE DEF Request
<1>2. request' \in [Pending -> Request] /\ request'[q] = p
      /\ \A r \in Pending \ {q} : request'[r] = request[r]
  BY <1>1
<1>3. \A r \in Pending : Settling(request'[r])
  BY <1>2 DEF RequestsInv
<1> QED
  BY <1>2, <1>3 DEF RequestsInv, OthersStay, Settling

\* A request as one is, and the slots it holds.
LEMMA RequestIs ==
  ASSUME RequestsInv, NEW q \in Pending
  PROVE  /\ request[q] \in Request /\ Settling(request[q])
         /\ Free \in Request /\ Settling(Free) /\ ~Counted(Free)
         /\ \A u \in Users : ~Holds(Free, u)
<1>1. NoSession \in Session
  BY DEF NoSession, Session
<1>2. Free \in Request
  BY <1>1 DEF Free, Request
<1>3. Settling(Free) /\ ~Counted(Free) /\ \A u \in Users : ~Holds(Free, u)
  BY DEF Settling, Counted, Holds, Free
<1> QED
  BY <1>2, <1>3 DEF RequestsInv

LEMMA CreatingFinite == IsFiniteSet(Creating) /\ Cardinality(Creating) \in Nat
  BY ProxyAssumption, FS_Subset, FS_CardinalityType DEF Creating

LEMMA HeldFinite == \A b : IsFiniteSet(Held(b)) /\ Cardinality(Held(b)) \in Nat
  BY ProxyAssumption, FS_Subset, FS_CardinalityType DEF Held

LEMMA HeldFewer ==
  ASSUME NEW a, NEW b, Held(a) \subseteq Held(b) PROVE Cardinality(Held(a)) <= Cardinality(Held(b))
  BY HeldFinite, FS_Subset

LEMMA PrunedFewer == DOMAIN Pruned = GatewayRuns /\ Held(Pruned) \subseteq Held(runs)
  BY DEF Pruned, Held

LEMMA OneMore ==
  ASSUME NEW S, NEW x, IsFiniteSet(S)
  PROVE  IsFiniteSet(S \cup {x}) /\ Cardinality(S \cup {x}) <= Cardinality(S) + 1
<1>1. Cardinality(S) \in Nat
  BY FS_CardinalityType
<1>2. CASE x \in S
  <2>1. S \cup {x} = S
    BY <1>2
  <2>2. Cardinality(S) <= Cardinality(S) + 1
    BY <1>1
  <2> QED
    BY <2>1, <2>2
<1>3. CASE x \notin S
  <2>1. Cardinality(S \cup {x}) = Cardinality(S) + 1 /\ IsFiniteSet(S \cup {x})
    BY <1>3, FS_AddElement
  <2> QED
    BY <1>1, <2>1
<1> QED
  BY <1>2, <1>3

LEMMA CountStays ==
  ASSUME BoundInv, NEW q \in Pending, OthersStay(q), UNCHANGED pendingCreates,
         ~Counted(request[q]), ~Counted(request'[q]),
         DOMAIN runs' = GatewayRuns, Held(runs') \subseteq Held(runs)
  PROVE  BoundInv'
<1>1. Creating' = Creating
  <2>1. \A p \in Pending : Counted(request'[p]) <=> Counted(request[p])
    BY DEF OthersStay
  <2> QED
    BY <2>1 DEF Creating, Counted
<1>2. Cardinality(Held(runs')) <= Cardinality(Held(runs))
  BY HeldFewer
<1>3. /\ Cardinality(Held(runs)) \in Nat /\ Cardinality(Held(runs')) \in Nat /\ MaxBound \in Nat
      /\ pendingCreates \in Nat
  BY HeldFinite, CreatingFinite, ProxyAssumption DEF BoundInv
<1>4. Cardinality(Held(runs')) + pendingCreates' <= MaxBound
  BY <1>2, <1>3 DEF BoundInv
<1>5. Held(runs)' = Held(runs')
  BY DEF Held
<1> QED
  BY <1>1, <1>4, <1>5 DEF BoundInv

LEMMA CountGrows ==
  ASSUME BoundInv, NEW q \in Pending, OthersStay(q), pendingCreates' = pendingCreates + 1,
         ~Counted(request[q]), Counted(request'[q]),
         DOMAIN runs' = GatewayRuns, Cardinality(Held(runs')) + pendingCreates < MaxBound
  PROVE  BoundInv'
<1>1. Creating' = Creating \cup {q} /\ q \notin Creating
  BY DEF OthersStay, Creating, Counted
<1>2. Cardinality(Creating') = Cardinality(Creating) + 1
  BY <1>1, CreatingFinite, FS_AddElement
<1>3. /\ Cardinality(Held(runs')) \in Nat /\ MaxBound \in Nat /\ pendingCreates \in Nat
  BY HeldFinite, CreatingFinite, ProxyAssumption DEF BoundInv
<1>4. Cardinality(Held(runs')) + pendingCreates' <= MaxBound
  BY <1>3
<1>5. Held(runs)' = Held(runs')
  BY DEF Held
<1> QED
  BY <1>2, <1>4, <1>5 DEF BoundInv

LEMMA CountShrinks ==
  ASSUME BoundInv, NEW q \in Pending, OthersStay(q), pendingCreates' = pendingCreates - 1,
         Counted(request[q]), ~Counted(request'[q]), DOMAIN runs' = GatewayRuns,
         NEW r, Held(runs') \subseteq Held(runs) \cup {r}
  PROVE  BoundInv'
<1>1. Creating' = Creating \ {q} /\ q \in Creating
  BY DEF OthersStay, Creating, Counted
<1>2. Cardinality(Creating') = Cardinality(Creating) - 1 /\ Cardinality(Creating) # 0
  BY <1>1, CreatingFinite, FS_RemoveElement, FS_EmptySet
<1>3. Cardinality(Held(runs')) <= Cardinality(Held(runs)) + 1
  <2> DEFINE A == Held(runs)
             B == Held(runs')
  <2>1. IsFiniteSet(A) /\ Cardinality(A) \in Nat /\ IsFiniteSet(B) /\ Cardinality(B) \in Nat
    BY HeldFinite
  <2>2. B \subseteq A \cup {r}
    OBVIOUS
  <2> HIDE DEF A, B
  <2>3. IsFiniteSet(A \cup {r}) /\ Cardinality(A \cup {r}) <= Cardinality(A) + 1
    BY <2>1, OneMore
  <2>4. Cardinality(B) <= Cardinality(A \cup {r}) /\ Cardinality(A \cup {r}) \in Nat
    BY <2>2, <2>3, FS_Subset, FS_CardinalityType
  <2>5. Cardinality(B) <= Cardinality(A) + 1
    BY <2>1, <2>3, <2>4
  <2> QED
    BY <2>5 DEF A, B
<1>4. /\ Cardinality(Held(runs)) \in Nat /\ Cardinality(Held(runs')) \in Nat /\ MaxBound \in Nat
      /\ pendingCreates \in Nat /\ pendingCreates # 0
  BY <1>2, HeldFinite, CreatingFinite, ProxyAssumption DEF BoundInv
<1>5. Cardinality(Held(runs')) + pendingCreates' <= MaxBound
  BY <1>3, <1>4 DEF BoundInv
<1>6. Held(runs)' = Held(runs')
  BY DEF Held
<1> QED
  BY <1>2, <1>5, <1>6 DEF BoundInv

LEMMA SlotsSame == ASSUME SlotsInv, UNCHANGED <<request, connections>> PROVE SlotsInv'
  BY DEF SlotsInv, Holding, HoldingAny, Holds

LEMMA BoundSame ==
  ASSUME BoundInv, UNCHANGED <<request, runs, pendingCreates>> PROVE BoundInv'
  BY DEF BoundInv, Creating, Held

\* Sessions.
LEMMA StepLogin ==
  ASSUME ProxyInv, NEW u \in Users, NEW cookie, Login(u, cookie) PROVE ProxyInv'
<1> DEFINE others == sessions \ {cookie}
<1>1. IsFiniteSet(sessions) /\ Cardinality(sessions) \in Nat /\ sessions \subseteq [id : Nat, user : Users]
      /\ Cardinality(sessions) <= MaxSessions /\ MaxSessions \in Nat /\ logins \in Nat
  BY ProxyAssumption, FS_CardinalityType DEF ProxyInv, RequestsInv
<1>2. IsFiniteSet(others) /\ Cardinality(others) <= Cardinality(sessions) /\ Cardinality(others) \in Nat
      /\ others \subseteq [id : Nat, user : Users]
  BY <1>1, FS_Subset, FS_CardinalityType
<1> HIDE DEF others
<1>3. IsFiniteSet(sessions') /\ Cardinality(sessions') <= MaxSessions
      /\ sessions' \subseteq [id : Nat, user : Users] /\ logins' \in Nat
  <2>1. CASE Cardinality(others) < MaxSessions
    <3> DEFINE new == [id |-> logins + 1, user |-> u]
    <3>1. sessions' = others \cup {new} /\ logins' = logins + 1
      BY <2>1 DEF Login, others
    <3>2. new \in [id : Nat, user : Users]
      BY <1>1
    <3> HIDE DEF new
    <3>3. IsFiniteSet(others \cup {new}) /\ Cardinality(others \cup {new}) <= Cardinality(others) + 1
      BY <1>2, OneMore
    <3>4. Cardinality(others \cup {new}) \in Nat
      BY <3>3, FS_CardinalityType
    <3> QED
      BY <1>1, <1>2, <2>1, <3>1, <3>2, <3>3, <3>4
  <2>2. CASE ~(Cardinality(others) < MaxSessions)
    <3>1. sessions' = others /\ logins' = logins
      BY <2>2 DEF Login, others
    <3> QED
      BY <1>1, <1>2, <3>1
  <2> QED
    BY <2>1, <2>2
<1>4. UNCHANGED <<runs, pendingCreates, connections, request>>
  BY DEF Login
<1>5. RequestsInv'
  BY <1>3, <1>4 DEF ProxyInv, RequestsInv, Settling
<1> QED
  BY <1>4, <1>5, SlotsSame, BoundSame DEF ProxyInv

LEMMA StepEndSession ==
  ASSUME ProxyInv, NEW s, EndSession(s) PROVE ProxyInv'
<1>1. IsFiniteSet(sessions) /\ Cardinality(sessions) \in Nat /\ Cardinality(sessions) <= MaxSessions
      /\ MaxSessions \in Nat
  BY ProxyAssumption, FS_CardinalityType DEF ProxyInv, RequestsInv
<1>2. IsFiniteSet(sessions') /\ Cardinality(sessions') <= Cardinality(sessions)
      /\ Cardinality(sessions') \in Nat
  BY <1>1, FS_Subset, FS_CardinalityType DEF EndSession
<1>3. Cardinality(sessions') <= MaxSessions
  BY <1>1, <1>2
<1>4. UNCHANGED <<logins, runs, pendingCreates, connections, request>> /\ sessions' \subseteq sessions
  BY DEF EndSession
<1>5. RequestsInv'
  BY <1>2, <1>3, <1>4 DEF ProxyInv, RequestsInv, Settling
<1> QED
  BY <1>4, <1>5, SlotsSame, BoundSame DEF ProxyInv

\* A binding's time is up.
LEMMA StepExpire == ASSUME ProxyInv, NEW r \in GatewayRuns, Expire(r) PROVE ProxyInv'
<1>1. UNCHANGED <<sessions, logins, pendingCreates, connections, request>>
      /\ DOMAIN runs' = GatewayRuns /\ Held(runs') \subseteq Held(runs) \cup {}
  <2>1. runs' = [runs EXCEPT ![r].live = FALSE] /\ DOMAIN runs = GatewayRuns /\ runs[r].live
    BY DEF Expire, ProxyInv, BoundInv
  <2>2. runs[r] # Unowned
    BY <2>1 DEF Unowned
  <2>3. \A x \in GatewayRuns \ {r} : runs'[x] = runs[x]
    BY <2>1
  <2> QED
    BY <2>1, <2>2, <2>3 DEF Expire, Held
<1>2. Cardinality(Held(runs')) <= Cardinality(Held(runs))
  BY <1>1, HeldFewer
<1>3. /\ Cardinality(Held(runs)) \in Nat /\ Cardinality(Held(runs')) \in Nat /\ MaxBound \in Nat
      /\ pendingCreates \in Nat
  BY HeldFinite, CreatingFinite, ProxyAssumption DEF ProxyInv, BoundInv
<1>4. Cardinality(Held(runs')) + pendingCreates' <= MaxBound
  BY <1>1, <1>2, <1>3 DEF ProxyInv, BoundInv
<1>5. Held(runs)' = Held(runs')
  BY DEF Held
<1>6. RequestsInv' /\ BoundInv'
  BY <1>1, <1>4, <1>5 DEF ProxyInv, RequestsInv, BoundInv, Creating, Settling
<1> QED
  BY <1>1, <1>6, SlotsSame DEF ProxyInv

\* A request of a session there is.
LEMMA AskingIs ==
  ASSUME NEW s \in sessions, RequestsInv, NEW kind \in {"create", "ask"}
  PROVE  /\ Asking(kind, s) \in Request /\ Asking(kind, s).at = "asking"
         /\ Asking(kind, s).kind = kind /\ Asking(kind, s).user = s.user /\ s.user \in Users
         /\ ~Asking(kind, s).closed
<1>1. s \in [id : Nat, user : Users]
  BY DEF RequestsInv
<1>2. PICK n \in Nat, u \in Users : s = [id |-> n, user |-> u]
  BY <1>1
<1>5. s \in Session /\ s.user \in Users
  BY <1>2 DEF Session
<1> DEFINE x == Free
           y == Asking(kind, s)
<1>3. x = [at |-> "idle", kind |-> "none", user |-> NoUser, session |-> NoSession,
           owed |-> {}, closed |-> FALSE]
  BY DEF Free
<1>4. y = [x EXCEPT !.at = "asking", !.kind = kind, !.user = s.user, !.session = s]
  BY DEF Asking
<1> HIDE DEF x, y
<1>6. y = [at |-> "asking", kind |-> kind, user |-> s.user, session |-> s,
           owed |-> {}, closed |-> FALSE]
  BY <1>3, <1>4
<1>7. s.user \in Users \cup {NoUser}
  BY <1>5
<1>8. y \in Request /\ y.at = "asking" /\ y.kind = kind /\ y.user = s.user /\ ~y.closed
  BY <1>5, <1>6, <1>7 DEF Request
<1> QED
  BY <1>5, <1>8 DEF y

\* A step that leaves the slots and the creates alone.
LEMMA Quiet ==
  ASSUME ProxyInv, NEW q \in Pending, NEW p \in Request, Settling(p),
         request' = [request EXCEPT ![q] = p],
         UNCHANGED <<sessions, logins, runs, pendingCreates, connections>>,
         ~Counted(request[q]), ~Counted(p),
         \A u \in Users : Holds(p, u) <=> Holds(request[q], u)
  PROVE  ProxyInv'
<1>1. RequestsInv' /\ request'[q] = p /\ OthersStay(q)
  BY RequestChanges DEF ProxyInv
<1>2. SlotKept(q)
  BY <1>1 DEF SlotKept, Holds
<1>3. SlotsInv'
  BY <1>1, <1>2, SlotStays DEF ProxyInv
<1>4. DOMAIN runs' = GatewayRuns /\ Held(runs') \subseteq Held(runs)
  BY DEF ProxyInv, BoundInv
<1>5. BoundInv'
  BY <1>1, <1>4, CountStays DEF ProxyInv
<1> QED
  BY <1>1, <1>3, <1>5 DEF ProxyInv

LEMMA StepReads ==
  ASSUME ProxyInv, NEW q \in Pending, NEW s \in sessions, Reads(q, s) PROVE ProxyInv'
<1> DEFINE x == Asking("create", s)
           p == [x EXCEPT !.at = "reading"]
<1>1. /\ x \in Request /\ x.kind = "create" /\ x.user = s.user /\ s.user \in Users /\ ~x.closed
  BY AskingIs DEF ProxyInv
<1> HIDE DEF x
<1>2. /\ p \in Request /\ p.kind = "create" /\ p.user = s.user /\ ~p.closed /\ p.at = "reading"
  BY <1>1 DEF Request
<1>3. request' = [request EXCEPT ![q] = p] /\ request[q] = Free
      /\ UNCHANGED <<sessions, logins, runs, pendingCreates, connections>>
  BY DEF Reads, x
<1> HIDE DEF p
<1>4. Settling(p) /\ ~Counted(p) /\ \A u \in Users : ~Holds(p, u)
  BY <1>1, <1>2 DEF Settling, Counted, Holds
<1>5. ~Counted(request[q]) /\ \A u \in Users : ~Holds(request[q], u)
  BY <1>3, RequestIs DEF ProxyInv
<1> QED
  BY <1>2, <1>3, <1>4, <1>5, Quiet

LEMMA StepTurnDown == ASSUME ProxyInv, NEW q \in Pending, TurnDown(q) PROVE ProxyInv'
<1>1. /\ request' = [request EXCEPT ![q] = Free] /\ request[q].at = "reading"
      /\ UNCHANGED <<sessions, logins, runs, pendingCreates, connections>>
  BY DEF TurnDown
<1>2. /\ Free \in Request /\ Settling(Free) /\ ~Counted(Free) /\ \A u \in Users : ~Holds(Free, u)
  BY RequestIs DEF ProxyInv
<1>3. ~Counted(request[q]) /\ \A u \in Users : ~Holds(request[q], u)
  BY <1>1 DEF Counted, Holds
<1> QED
  BY <1>1, <1>2, <1>3, Quiet

LEMMA StepStreamOpens == ASSUME ProxyInv, NEW q \in Pending, StreamOpens(q) PROVE ProxyInv'
<1> DEFINE x == request[q]
           p == [x EXCEPT !.at = "open", !.owed = {"response"}]
<1>1. x \in Request /\ Settling(x)
  BY RequestIs DEF ProxyInv
<1>2. /\ request' = [request EXCEPT ![q] = p] /\ x.at = "asking" /\ x.kind = "ask"
      /\ UNCHANGED <<sessions, logins, runs, pendingCreates, connections>>
  BY DEF StreamOpens
<1> HIDE DEF x
<1>3. p \in Request /\ p.at = "open" /\ p.kind = x.kind /\ p.user = x.user /\ p.closed = x.closed
  BY <1>1 DEF Request
<1> HIDE DEF p
<1>4. Settling(p) /\ ~Counted(p) /\ ~Counted(x) /\ \A u \in Users : Holds(p, u) <=> Holds(x, u)
  BY <1>1, <1>2, <1>3 DEF Settling, Counted, Holds
<1> QED
  BY <1>2, <1>3, <1>4, Quiet DEF x

\* A stream goes on or ends: its slot stays its own until it is closed.
LEMMA Streams ==
  ASSUME ProxyInv, NEW q \in Pending, request[q].at \in {"open", "streaming"},
         NEW at \in {"streaming", "ending"}, NEW owed \in SUBSET {"body", "response"},
         request' = [request EXCEPT ![q].at = at, ![q].owed = owed],
         UNCHANGED <<sessions, logins, runs, pendingCreates, connections>>
  PROVE  ProxyInv'
<1> DEFINE x == request[q]
           p == [x EXCEPT !.at = at, !.owed = owed]
<1>1. x \in Request /\ Settling(x)
  BY RequestIs DEF ProxyInv
<1>2. /\ request' = [request EXCEPT ![q] = p] /\ x.at \in {"open", "streaming"}
  OBVIOUS
<1> HIDE DEF x
<1>3. p \in Request /\ p.at = at /\ p.kind = x.kind /\ p.user = x.user /\ p.closed = x.closed
  BY <1>1 DEF Request
<1> HIDE DEF p
<1>4. Settling(p) /\ ~Counted(p) /\ ~Counted(x) /\ \A u \in Users : Holds(p, u) <=> Holds(x, u)
  BY <1>1, <1>2, <1>3 DEF Settling, Counted, Holds
<1> QED
  BY <1>2, <1>3, <1>4, Quiet DEF x

LEMMA StepChunk == ASSUME ProxyInv, NEW q \in Pending, Chunk(q) PROVE ProxyInv'
<1> DEFINE at == IF request[q].session \in sessions THEN "streaming" ELSE "ending"
<1>1. /\ request[q].at \in {"open", "streaming"} /\ at \in {"streaming", "ending"}
      /\ request' = [request EXCEPT ![q].at = at, ![q].owed = {"response", "body"}]
      /\ UNCHANGED <<sessions, logins, runs, pendingCreates, connections>>
  BY DEF Chunk
<1> HIDE DEF at
<1>2. {"response", "body"} \in SUBSET {"body", "response"}
  OBVIOUS
<1> QED
  BY <1>1, <1>2, Streams

LEMMA StepStreamEnds == ASSUME ProxyInv, NEW q \in Pending, StreamEnds(q) PROVE ProxyInv'
<1>1. PICK owed \in {request[q].owed, {"response", "body"}} :
        request' = [request EXCEPT ![q].at = "ending", ![q].owed = owed]
  BY DEF StreamEnds
<1>2. request[q].owed \in SUBSET {"body", "response"}
  <2>1. request[q] \in Request
    BY RequestIs DEF ProxyInv
  <2> QED
    BY <2>1 DEF Request
<1>3. owed \in SUBSET {"body", "response"} /\ request[q].at \in {"open", "streaming"}
      /\ UNCHANGED <<sessions, logins, runs, pendingCreates, connections>>
  BY <1>1, <1>2 DEF StreamEnds
<1> QED
  BY <1>1, <1>3, Streams

\* A settled stream is free or as it was.
LEMMA SettledIs == ASSUME NEW x PROVE Settled(x) = Free \/ Settled(x) = x
  BY DEF Settled

LEMMA StepCloseStream ==
  ASSUME ProxyInv, NEW q \in Pending, NEW who \in {"body", "response"}, CloseStream(q, who)
  PROVE  ProxyInv'
<1> DEFINE x == request[q]
           left == [x EXCEPT !.owed = @ \ {who}]
           closing == [left EXCEPT !.closed = TRUE, !.at = "closing"]
           p == IF left.closed THEN Settled(left) ELSE closing
<1>1. x \in Request /\ Settling(x)
  BY RequestIs DEF ProxyInv
<1>2. /\ request' = [request EXCEPT ![q] = p] /\ x.at \in {"ending", "closing"}
      /\ UNCHANGED <<sessions, logins, runs, pendingCreates, connections>>
  BY DEF CloseStream
<1> HIDE DEF x
<1>3. /\ left \in Request /\ left.at = x.at /\ left.kind = x.kind /\ left.user = x.user
      /\ left.closed = x.closed
  BY <1>1 DEF Request
<1> HIDE DEF left
<1>4. /\ closing \in Request /\ closing.at = "closing" /\ closing.kind = left.kind
      /\ closing.user = left.user /\ closing.closed
  BY <1>3 DEF Request
<1>5. /\ Free \in Request /\ Settling(Free) /\ ~Counted(Free) /\ \A u \in Users : ~Holds(Free, u)
  BY RequestIs DEF ProxyInv
<1>6. ~Counted(x)
  BY <1>2 DEF Counted
<1> HIDE DEF closing
<1>7. p \in Request /\ Settling(p) /\ ~Counted(p) /\ \A u \in Users : Holds(p, u) <=> Holds(x, u)
  <2>1. CASE ~left.closed
    <3>1. p = closing
      BY <2>1
    <3>2. Settling(closing) /\ ~Counted(closing)
      BY <1>1, <1>2, <1>3, <1>4 DEF Settling, Counted
    <3>3. \A u \in Users : Holds(closing, u) <=> Holds(x, u)
      BY <1>2, <1>3, <1>4, <2>1 DEF Holds
    <3> HIDE DEF p
    <3> QED
      BY <1>4, <3>1, <3>2, <3>3
  <2>2. CASE left.closed
    <3>1. p = Settled(left)
      BY <2>2
    <3> HIDE DEF p
    <3>2. CASE p = left
      BY <1>1, <1>2, <1>3, <3>2 DEF Settling, Counted, Holds
    <3>3. CASE p # left
      <4>1. p = Free /\ left.at = "ending"
        BY <3>1, <3>3 DEF Settled
      <4>2. \A u \in Users : ~Holds(x, u)
        BY <1>3, <2>2, <4>1 DEF Holds
      <4> QED
        BY <1>5, <4>1, <4>2
    <3> QED
      BY <3>2, <3>3
  <2> QED
    BY <2>1, <2>2
<1> HIDE DEF p
<1> QED
  BY <1>2, <1>6, <1>7, Quiet DEF x

\* A request gives its slot back.
LEMMA Gives ==
  ASSUME ProxyInv, NEW q \in Pending, NEW p \in Request, Settling(p), ~Counted(p),
         request' = [request EXCEPT ![q] = p], UNCHANGED <<sessions, logins>>,
         request[q].at \notin {"idle", "reading"}, request[q].at = "ending" => ~request[q].closed,
         \A u \in Users : ~Holds(p, u), Released(request[q].user)
  PROVE  RequestsInv' /\ SlotsInv' /\ OthersStay(q) /\ request'[q] = p
<1>1. RequestsInv' /\ request'[q] = p /\ OthersStay(q)
  BY RequestChanges DEF ProxyInv
<1>2. request[q].user \in Users /\ Holds(request[q], request[q].user)
  BY RequestIs DEF ProxyInv, Settling, Holds
<1>3. \A u \in Users : ~Holds(request[q], u)'
  BY <1>1 DEF Holds
<1>4. SlotsInv'
  BY <1>1, <1>2, <1>3, SlotReleased DEF ProxyInv
<1> QED
  BY <1>1, <1>4

LEMMA StepAskEnds == ASSUME ProxyInv, NEW q \in Pending, AskEnds(q) PROVE ProxyInv'
<1>1. /\ request' = [request EXCEPT ![q] = Free] /\ Released(request[q].user)
      /\ UNCHANGED <<sessions, logins, runs, pendingCreates>>
      /\ request[q].at = "asking" /\ request[q].kind # "create"
  BY DEF AskEnds
<1>2. /\ Free \in Request /\ Settling(Free) /\ ~Counted(Free) /\ \A u \in Users : ~Holds(Free, u)
  BY RequestIs DEF ProxyInv
<1>3. RequestsInv' /\ SlotsInv' /\ OthersStay(q) /\ request'[q] = Free
  BY <1>1, <1>2, Gives
<1>4. ~Counted(request[q]) /\ DOMAIN runs' = GatewayRuns /\ Held(runs') \subseteq Held(runs)
  BY <1>1 DEF Counted, ProxyInv, BoundInv
<1>5. BoundInv'
  BY <1>1, <1>2, <1>3, <1>4, CountStays DEF ProxyInv
<1> QED
  BY <1>3, <1>5 DEF ProxyInv

LEMMA StepStreamReleases == ASSUME ProxyInv, NEW q \in Pending, StreamReleases(q) PROVE ProxyInv'
<1> DEFINE x == request[q]
           y == [x EXCEPT !.at = "ending"]
           p == Settled(y)
<1>1. x \in Request /\ Settling(x)
  BY RequestIs DEF ProxyInv
<1>2. /\ request' = [request EXCEPT ![q] = p] /\ x.at = "closing" /\ Released(x.user)
      /\ UNCHANGED <<sessions, logins, runs, pendingCreates>>
  BY DEF StreamReleases
<1> HIDE DEF x
<1>3. y \in Request /\ y.at = "ending" /\ y.kind = x.kind /\ y.user = x.user /\ y.closed = x.closed
  BY <1>1 DEF Request
<1> HIDE DEF y
<1>4. /\ Free \in Request /\ Settling(Free) /\ ~Counted(Free) /\ \A u \in Users : ~Holds(Free, u)
  BY RequestIs DEF ProxyInv
<1>5. Settling(y) /\ ~Counted(y) /\ \A u \in Users : ~Holds(y, u)
  BY <1>1, <1>2, <1>3 DEF Settling, Counted, Holds
<1>6. p \in Request /\ Settling(p) /\ ~Counted(p) /\ \A u \in Users : ~Holds(p, u)
  <2>1. p = Free \/ p = y
    BY SettledIs
  <2> HIDE DEF p
  <2> QED
    BY <2>1, <1>3, <1>4, <1>5
<1> HIDE DEF p
<1>7. RequestsInv' /\ SlotsInv' /\ OthersStay(q) /\ request'[q] = p
  BY <1>2, <1>6, Gives DEF x
<1>8. ~Counted(request[q]) /\ DOMAIN runs' = GatewayRuns /\ Held(runs') \subseteq Held(runs)
  BY <1>2 DEF Counted, ProxyInv, BoundInv, x
<1>9. BoundInv'
  BY <1>2, <1>6, <1>7, <1>8, CountStays DEF ProxyInv
<1> QED
  BY <1>7, <1>9 DEF ProxyInv

LEMMA StepCreateEnds ==
  ASSUME ProxyInv, NEW q \in Pending, NEW r, CreateEnds(q, r) PROVE ProxyInv'
<1>1. /\ request' = [request EXCEPT ![q] = Free] /\ Released(request[q].user)
      /\ UNCHANGED <<sessions, logins>> /\ pendingCreates' = pendingCreates - 1
      /\ request[q].at = "asking" /\ request[q].kind = "create"
  BY DEF CreateEnds
<1>2. /\ Free \in Request /\ Settling(Free) /\ ~Counted(Free) /\ \A u \in Users : ~Holds(Free, u)
  BY RequestIs DEF ProxyInv
<1>3. RequestsInv' /\ SlotsInv' /\ OthersStay(q) /\ request'[q] = Free
  BY <1>1, <1>2, Gives
<1>4. DOMAIN runs' = GatewayRuns /\ Held(runs') \subseteq Held(runs) \cup {r}
  BY DEF CreateEnds, ProxyInv, BoundInv, Held
<1>5. BoundInv'
  BY <1>1, <1>2, <1>3, <1>4, CountShrinks DEF ProxyInv, Counted
<1> QED
  BY <1>3, <1>5 DEF ProxyInv

\* A request takes a slot.
LEMMA Takes ==
  ASSUME ProxyInv, NEW q \in Pending, NEW p \in Request, Settling(p), p.at = "asking",
         request' = [request EXCEPT ![q] = p], UNCHANGED <<sessions, logins>>,
         \A u \in Users : ~Holds(request[q], u), CanAcquire(p.user), Acquire(p.user)
  PROVE  RequestsInv' /\ SlotsInv' /\ OthersStay(q) /\ request'[q] = p
<1>1. RequestsInv' /\ request'[q] = p /\ OthersStay(q)
  BY RequestChanges DEF ProxyInv
<1>2. p.user \in Users /\ Holds(p, p.user)
  BY DEF Settling, Holds
<1>3. Holds(request[q], p.user)'
  BY <1>1, <1>2 DEF Holds
<1>4. SlotsInv'
  BY <1>1, <1>2, <1>3, SlotTaken DEF ProxyInv
<1> QED
  BY <1>1, <1>4

LEMMA StepCreate == ASSUME ProxyInv, NEW q \in Pending, Create(q) PROVE ProxyInv'
<1> DEFINE x == request[q]
           p == [x EXCEPT !.at = "asking"]
           fits == Cardinality(Held(Pruned)) + pendingCreates < MaxBound /\ CanAcquire(x.user)
<1>1. x \in Request /\ Settling(x)
  BY RequestIs DEF ProxyInv
<1>2. /\ x.at = "reading" /\ runs' = Pruned /\ UNCHANGED <<sessions, logins>>
      /\ \/ /\ fits /\ Acquire(x.user) /\ pendingCreates' = pendingCreates + 1
            /\ request' = [request EXCEPT ![q] = p]
         \/ /\ request' = [request EXCEPT ![q] = Free] /\ UNCHANGED <<connections, pendingCreates>>
  BY DEF Create
<1>3. ~Counted(request[q]) /\ \A u \in Users : ~Holds(request[q], u)
  BY <1>2 DEF Counted, Holds
<1>4. DOMAIN runs' = GatewayRuns /\ Held(runs') \subseteq Held(runs)
  BY <1>2, PrunedFewer
<1>5. /\ Free \in Request /\ Settling(Free) /\ ~Counted(Free) /\ \A u \in Users : ~Holds(Free, u)
  BY RequestIs DEF ProxyInv
<1>6. CASE /\ fits /\ Acquire(x.user) /\ pendingCreates' = pendingCreates + 1
           /\ request' = [request EXCEPT ![q] = p]
  <2> HIDE DEF x
  <2>1. p \in Request /\ p.at = "asking" /\ p.kind = x.kind /\ p.user = x.user /\ p.closed = x.closed
    BY <1>1 DEF Request
  <2> HIDE DEF p
  <2>2. Settling(p) /\ Counted(p)
    BY <1>1, <1>2, <2>1 DEF Settling, Counted
  <2>3. RequestsInv' /\ SlotsInv' /\ OthersStay(q) /\ request'[q] = p
    BY <1>2, <1>3, <1>6, <2>1, <2>2, Takes
  <2>4. Cardinality(Held(runs')) + pendingCreates < MaxBound
    BY <1>2, <1>6
  <2>5. BoundInv'
    BY <1>3, <1>4, <1>6, <2>2, <2>3, <2>4, CountGrows DEF ProxyInv
  <2> QED
    BY <2>3, <2>5 DEF ProxyInv
<1>7. CASE /\ request' = [request EXCEPT ![q] = Free] /\ UNCHANGED <<connections, pendingCreates>>
  <2>1. RequestsInv' /\ request'[q] = Free /\ OthersStay(q)
    BY <1>2, <1>5, <1>7, RequestChanges DEF ProxyInv
  <2>2. SlotKept(q)
    BY <1>3, <1>5, <2>1 DEF SlotKept, Holds
  <2>3. SlotsInv'
    BY <1>7, <2>1, <2>2, SlotStays DEF ProxyInv
  <2>4. BoundInv'
    BY <1>3, <1>4, <1>5, <1>7, <2>1, CountStays DEF ProxyInv
  <2> QED
    BY <2>1, <2>3, <2>4 DEF ProxyInv
<1> QED
  BY <1>2, <1>6, <1>7

LEMMA StepAsk ==
  ASSUME ProxyInv, NEW q \in Pending, NEW s \in sessions, NEW r \in GatewayRuns, Ask(q, s, r)
  PROVE  ProxyInv'
<1> DEFINE p == Asking("ask", s)
<1>1. /\ request[q] = Free /\ runs' = Pruned /\ UNCHANGED <<sessions, logins, pendingCreates>>
      /\ \/ CanAcquire(s.user) /\ Acquire(s.user) /\ request' = [request EXCEPT ![q] = p]
         \/ UNCHANGED <<connections, request>>
  BY DEF Ask
<1>2. ~Counted(request[q]) /\ \A u \in Users : ~Holds(request[q], u)
  BY <1>1, RequestIs DEF ProxyInv
<1>3. DOMAIN runs' = GatewayRuns /\ Held(runs') \subseteq Held(runs)
  BY <1>1, PrunedFewer
<1>4. /\ p \in Request /\ p.at = "asking" /\ p.kind = "ask" /\ p.user = s.user /\ s.user \in Users
      /\ ~p.closed
  BY AskingIs DEF ProxyInv
<1> HIDE DEF p
<1>5. CASE CanAcquire(s.user) /\ Acquire(s.user) /\ request' = [request EXCEPT ![q] = p]
  <2>1. Settling(p) /\ ~Counted(p)
    BY <1>4 DEF Settling, Counted
  <2>2. RequestsInv' /\ SlotsInv' /\ OthersStay(q) /\ request'[q] = p
    BY <1>1, <1>2, <1>4, <1>5, <2>1, Takes
  <2>3. BoundInv'
    BY <1>1, <1>2, <1>3, <2>1, <2>2, CountStays DEF ProxyInv
  <2> QED
    BY <2>2, <2>3 DEF ProxyInv
<1>6. CASE UNCHANGED <<connections, request>>
  <2>1. OthersStay(q) /\ request'[q] = request[q]
    BY <1>6 DEF OthersStay
  <2>2. BoundInv'
    BY <1>1, <1>2, <1>3, <2>1, CountStays DEF ProxyInv
  <2>3. RequestsInv'
    BY <1>1, <1>6 DEF ProxyInv, RequestsInv, Settling
  <2> QED
    BY <1>6, <2>2, <2>3, SlotsSame DEF ProxyInv
<1> QED
  BY <1>1, <1>5, <1>6

-----------------------------------------------------------------------------
LEMMA ProxyInitially == ASSUME ProxyInit PROVE ProxyInv
<1>1. RequestsInv
  <2>1. Free \in Request /\ Settling(Free)
    <3>1. NoSession \in Session
      BY DEF NoSession, Session
    <3> QED
      BY <3>1 DEF Free, Request, Settling
  <2> QED
    BY <2>1, ProxyAssumption, FS_EmptySet DEF ProxyInit, RequestsInv
<1>2. \A q \in Pending : /\ \A u : Holds(request[q], u) => FALSE
                         /\ ~(request[q].kind = "create" /\ request[q].at = "asking")
  BY DEF ProxyInit, Holds, Free
<1>3. SlotsInv
  <2>1. (\A u \in Users : Holding(u) = {}) /\ HoldingAny = {}
    BY <1>2 DEF Holding, HoldingAny
  <2>2. connections = [u \in Users |-> 0] /\ MaxConnections \in Nat /\ ConnectionsPerUser \in Nat
    BY ProxyAssumption DEF ProxyInit
  <2> QED
    BY <2>1, <2>2, FS_EmptySet DEF SlotsInv
<1>4. BoundInv
  <2>1. Creating = {}
    BY <1>2 DEF Creating
  <2>2. Held(runs) = {} /\ DOMAIN runs = GatewayRuns /\ pendingCreates = 0 /\ MaxBound \in Nat
    BY ProxyAssumption DEF ProxyInit, Held
  <2> QED
    BY <2>1, <2>2, FS_EmptySet DEF BoundInv
<1> QED
  BY <1>1, <1>3, <1>4 DEF ProxyInv

LEMMA ProxySteps == ASSUME ProxyInv, ProxyNext PROVE ProxyInv'
<1>1. CASE \E u \in Users, cookie \in sessions \cup {NoSession} : Login(u, cookie)
  BY <1>1, StepLogin
<1>2. CASE \E s \in sessions : EndSession(s)
  BY <1>2, StepEndSession
<1>3. CASE \E r \in GatewayRuns : Expire(r)
  BY <1>3, StepExpire
<1>4. ASSUME NEW q \in Pending,
             \/ AskEnds(q) \/ StreamOpens(q) \/ Chunk(q) \/ StreamEnds(q) \/ StreamReleases(q)
             \/ TurnDown(q) \/ Create(q)
      PROVE  ProxyInv'
  BY <1>4, StepAskEnds, StepStreamOpens, StepChunk, StepStreamEnds, StepStreamReleases,
     StepTurnDown, StepCreate
<1>5. ASSUME NEW q \in Pending, NEW r \in GatewayRuns \cup {NoRun}, CreateEnds(q, r)
      PROVE  ProxyInv'
  BY <1>5, StepCreateEnds
<1>6. ASSUME NEW q \in Pending, NEW who \in {"body", "response"}, CloseStream(q, who)
      PROVE  ProxyInv'
  BY <1>6, StepCloseStream
<1>7. ASSUME NEW q \in Pending, NEW s \in sessions,
             Reads(q, s) \/ \E r \in GatewayRuns : Ask(q, s, r)
      PROVE  ProxyInv'
  BY <1>7, StepReads, StepAsk
<1> QED
  BY <1>1, <1>2, <1>3, <1>4, <1>5, <1>6, <1>7 DEF ProxyNext

LEMMA CapacityFollows == ASSUME ProxyInv PROVE CapacityIsKept
<1> DEFINE holding(u) == {q \in Pending : /\ request[q].user = u
                                          /\ request[q].at \notin {"idle", "reading"}
                                          /\ request[q].at = "ending" => ~request[q].closed}
<1>1. \A u : holding(u) = Holding(u)
  BY DEF Holding, Holds
<1>2. (UNION {holding(u) : u \in Users}) = HoldingAny
  BY DEF HoldingAny, Holds
<1> HIDE DEF holding
<1>3. /\ \A u \in Users : /\ connections[u] = Cardinality(holding(u))
                          /\ connections[u] <= ConnectionsPerUser
      /\ Cardinality(UNION {holding(u) : u \in Users}) <= MaxConnections
  BY <1>1, <1>2 DEF ProxyInv, SlotsInv
<1>4. Cardinality(Held(runs)) + pendingCreates <= MaxBound /\ Cardinality(sessions) <= MaxSessions
  BY DEF ProxyInv, BoundInv, RequestsInv
<1> QED
  BY <1>3, <1>4 DEF CapacityIsKept, holding

\* For every number of users, requests and runs, and every limit: a slot is given back
\* once, by whichever call closes the stream, and no limit is passed.
THEOREM CapacityStaysKept == ProxySpec => []CapacityIsKept
<1>1. ProxyInit => ProxyInv
  BY ProxyInitially
<1>2. ProxyInv /\ [ProxyNext]_proxyVars => ProxyInv'
  <2>1. ProxyInv /\ UNCHANGED proxyVars => ProxyInv'
    <3> SUFFICES ASSUME ProxyInv, UNCHANGED proxyVars PROVE ProxyInv'
      OBVIOUS
    <3>1. RequestsInv'
      BY DEF ProxyInv, RequestsInv, Settling, proxyVars
    <3> QED
      BY <3>1, SlotsSame, BoundSame DEF ProxyInv, proxyVars
  <2> QED
    BY <2>1, ProxySteps
<1> QED
  BY <1>1, <1>2, CapacityFollows, PTL DEF ProxySpec
=============================================================================
