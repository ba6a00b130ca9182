---------------------------- MODULE EvidenceReview ----------------------------
(***************************************************************************)
(* orchestration/evidence_store.py, reviewer.py and repair.py: artifacts are *)
(* merged into one store of the run, the findings are reviewed against it,  *)
(* and what is wrong becomes repair tasks.  The cache of ingested artifacts *)
(* is left out: every task and every repair has an id of its own.           *)
(***************************************************************************)
EXTENDS DomainArtifacts

\* A store is a set of [key, item]: _by_id.  The item of a key need not bear it.
Fact(e) == <<e.field, e.claim, e.value>>
At(store, id) == {x \in store : x.key = id}
Alike(store, e) == {x \in store : Fact(x.item) = Fact(e)}

\* EvidenceMerger knows no priority of public web pages: merging two is a KeyError.
Mergeable(x, e) == "web" \notin {x.item.from, e.from}
\* Of two sources of a fact the one with the smaller reference speaks for it,
\* under the key of the first.
MergedInto(x, e) ==
  [x EXCEPT !.item = [(IF e.ref < x.item.ref THEN e ELSE x.item) EXCEPT !.chained = TRUE]]

\* ingest, for one piece of evidence; s is [store, keyOf, failed].
PutIn(s, e) ==
  LET alike == Alike(s.store, e)
      x == CHOOSE y \in alike : TRUE
      key == IF alike = {} THEN e.id ELSE x.key
      entry == IF alike = {} THEN [key |-> e.id, item |-> [e EXCEPT !.chained = TRUE]]
               ELSE MergedInto(x, e)
  IN IF s.failed THEN s
     ELSE IF \/ \E y \in At(s.store, e.id) : y.item # e
             \/ alike # {} /\ ~Mergeable(x, e)
     THEN [s EXCEPT !.failed = TRUE]
     ELSE [s EXCEPT !.store = (s.store \ alike) \cup {entry}, !.keyOf = s.keyOf @@ (e.id :> key)]

Ingested(store, artifact) ==
  LET s == FoldLeft(PutIn, [store |-> store, keyOf |-> <<>>, failed |-> FALSE], artifact.evidence)
  IN [store |-> s.store, failed |-> s.failed,
      findings |-> IF s.failed THEN {}
                   ELSE {[f EXCEPT !.cites = {s.keyOf[c] : c \in f.cites}] : f \in artifact.findings}]

-----------------------------------------------------------------------------
\* An issue is [kind, about, domain, findings]; domain is where its field leads
\* a repair, and leads nowhere for any other issue than a conflict.
Issue(kind, about, domain, findings) ==
  [kind |-> kind, about |-> about, domain |-> domain, findings |-> {f.id : f \in findings}]
Citing(findings, items) == {f \in findings : \E e \in items : e.id \in f.cites}

Variant_Conflicts(findings, evidence) ==
  {Issue("conflict", g, g[1], Citing(findings, {e \in evidence : e.field = g})) :
     g \in {e.field : e \in {x \in evidence : \E y \in evidence :
                               y.field = x.field /\ y.from # x.from /\ y.value # x.value}}}
Conflicts(findings, evidence) ==
  {Issue("conflict", g, g[1], Citing(findings, {e \in evidence : e.field = g})) :
     g \in {e.field : e \in {x \in evidence : \E y \in evidence :
                               y.field = x.field /\ y.value # x.value}}}

Unsupported(findings, evidence) ==
  {Issue("insufficient", f.id, "none", {f}) :
     f \in {g \in findings : g.cites = {} \/ ~(g.cites \subseteq {e.id : e \in evidence})}}

Unfit(findings, evidence) ==
  {Issue("future", e.id, "none", Citing(findings, {e})) : e \in {x \in evidence : x.future}}
  \cup {Issue("amount", e.id, "none", Citing(findings, {e})) : e \in {x \in evidence : x.negative}}

Duplicates(findings) ==
  LET twins(f) == {g \in findings : g.domain = f.domain /\ g.claim = f.claim}
  IN {Issue("duplicate", f.claim, "none", twins(f)) : f \in {g \in findings : twins(g) # {g}}}

Reviewed(findings, store) ==
  LET evidence == {x.item : x \in store}
  IN Conflicts(findings, evidence) \cup Unsupported(findings, evidence)
     \cup Unfit(findings, evidence) \cup Duplicates(findings)

\* finalize_unresolved: what an open issue names is not accepted.
Finalized(findings, issues) ==
  {[id |-> f.id, cites |-> f.cites,
    status |-> IF f.id \in UNION {i.findings : i \in issues} THEN "unconfirmed" ELSE "accepted"] :
     f \in findings}

-----------------------------------------------------------------------------
\* A repair's evidence has names of its own; its findings keep theirs.
Versioned(artifact, attempt, issue) ==
  LET named(id) == [id EXCEPT !.repair = <<attempt, issue.about>>]
  IN [artifact EXCEPT
        !.evidence = [i \in DOMAIN artifact.evidence |->
                        [artifact.evidence[i] EXCEPT !.id = named(artifact.evidence[i].id)]],
        !.findings = {[f EXCEPT !.cites = {named(c) : c \in f.cites}] : f \in artifact.findings}]

\* finding_by_id, after a repair's findings.
Replaced(findings, newer) ==
  {f \in findings : \A g \in newer : g.id # f.id} \cup newer

\* The single baseline's own review: a finding needs evidence, and no more.
SingleReviewed(findings, evidence) ==
  LET issues == Unsupported(findings, evidence) IN
  [findings |-> Finalized(findings, issues), issues |-> issues, evidence |-> evidence]
=============================================================================
