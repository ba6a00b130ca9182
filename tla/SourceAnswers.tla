---------------------------- MODULE SourceAnswers ----------------------------
(***************************************************************************)
(* What Tianyancha's answers are taken to mean: which company a search      *)
(* names (tianyancha/entity.py), which tools it offers for it               *)
(* (capabilities.py), and how many records an answer holds (normalizer.py). *)
(* Texts, tables and mappings are reduced to what they are found to be; a   *)
(* record is counted, never read.                                           *)
(***************************************************************************)
EXTENDS Integers, Sequences, FiniteSets, SequencesExt

-----------------------------------------------------------------------------
\* A candidate is [id, code, name, region, active], the enterprise asked for
\* [code, name, region]; "" is a value that is not given.
Given(x) == x # ""

Exact(c, e) ==
  /\ Given(e.code) => c.code = e.code
  /\ Given(e.name) => c.name = e.name

\* _candidate: how near a candidate is, in hundredths.
Score(c, e) ==
  LET base == CASE Given(e.code) /\ Given(c.code) -> IF c.code = e.code THEN 100 ELSE 0
                [] Given(e.name) /\ ~(Given(e.code) /\ Given(c.code)) ->
                     IF c.name = e.name THEN 90 ELSE 0
                [] OTHER -> 0
      here == Given(e.region) /\ c.region = e.region /\ base <= 95
  IN IF here THEN base + 5 ELSE base

\* A candidate without an identity or a name is no candidate.
Candidates(found) == {c \in found : Given(c.id) /\ Given(c.name)}

Regional(cs, e) ==
  LET here == {c \in cs : Given(e.region) /\ c.region = e.region}
  IN IF here # {} THEN here ELSE cs

\* The one exact match, of the region when it has one, the active one when only
\* one is: anything else is refused, and no score decides.
Matches(found, e) ==
  LET near == Regional({c \in Candidates(found) : Exact(c, e)}, e)
      active == {c \in near : c.active}
  IN IF Cardinality(near) > 1 /\ Cardinality(active) = 1 THEN active ELSE near

-----------------------------------------------------------------------------
\* An answer is [records, texts, rows, counts, years, links, total, more, repeats]:
\* the structured records by what they hold or Absent, the texts that are no table,
\* the rows and the totals of its tables, the years and links it names, its
\* structured page metadata (Unknown when it gives none), and how much of what it
\* gives was given before, by it or by a page before it.
Absent == <<"absent">>
Unknown == -1

Structured(a) == IF a.records = Absent THEN <<>> ELSE a.records
Details(a) == {i \in DOMAIN Structured(a) : Structured(a)[i] = "detail"}
Tabled(a) == a.rows > 0 \/ a.counts # {}
Largest(s) == CHOOSE n \in s : \A k \in s : k <= n

CountOnly(a) == a.counts # {} /\ a.rows = 0 /\ Details(a) = {}
DirectoryOnly(a) ==
  a.years # {} /\ ~Tabled(a) /\ (a.records = Absent \/ a.records = <<"directory">>)
LinkOnly(a) ==
  /\ a.links /\ ~Tabled(a) /\ ~DirectoryOnly(a)
  /\ Structured(a) = <<>> \/ a.records = <<"link">>

\* Evidence: the rows of a table before the structured details, every structured
\* record otherwise, the texts when there is no structure; one item that only
\* counts, lists years or links.
EvidenceOf(a) ==
  IF CountOnly(a) \/ DirectoryOnly(a) \/ LinkOnly(a) THEN 1
  ELSE IF Tabled(a) THEN IF a.rows > 0 THEN a.rows ELSE Cardinality(Details(a))
  ELSE IF a.records = Absent THEN a.texts ELSE Len(a.records)

\* The gateway knows evidence by its identity, which is made of what it says, and
\* adds only what it does not have yet.
Fresh(a) == EvidenceOf(a) - a.repeats

Total(a) == IF a.total = Unknown /\ a.counts # {} THEN Largest(a.counts) ELSE a.total

\* The last three years not after the report's date; a financial answer that
\* names fewer misses a period.
Selected(a, asOf) == {y \in a.years : y <= asOf
                        /\ Cardinality({z \in a.years : z > y /\ z <= asOf}) < 3}

Reasons(a, financial, asOf) ==
  (IF DirectoryOnly(a) \/ LinkOnly(a) \/ (CountOnly(a) /\ Largest(a.counts) > 0)
   THEN {"missing_fields"} ELSE {})
  \cup (IF financial /\ a.years # {} /\ Cardinality(Selected(a, asOf)) < 3
        THEN {"missing_period"} ELSE {})

Normalize(a, financial, asOf) ==
  [fresh |-> Fresh(a),
   records |-> IF CountOnly(a) \/ DirectoryOnly(a) \/ LinkOnly(a) THEN 0 ELSE EvidenceOf(a),
   total |-> Total(a), more |-> a.more,
   paged |-> a.total # Unknown \/ a.counts # {} \/ a.more,
   reasons |-> Reasons(a, financial, asOf),
   last |-> CountOnly(a) /\ Largest(a.counts) > 0]

\* PaginationMetadata.is_truncated.
Truncated(b, returned) == b.more \/ (b.total # Unknown /\ b.total > returned)

\* SourceStateMachine.transition.
SourceState(available, succeeded, records, degraded) ==
  IF ~available THEN "capability_absent"
  ELSE IF succeeded THEN IF records > 0 THEN "verified_records" ELSE "verified_empty"
  ELSE IF degraded THEN "degraded_mock" ELSE "source_error"
=============================================================================
