----------------------------- MODULE ReviewRound -----------------------------
(***************************************************************************)
(* What an investigation promises whoever asked for it: checks are answered *)
(* and answered anew, a reviewer approves or asks for repairs a limited     *)
(* number of times, and what there is gets told, none of it taken back.     *)
(* Then there is one verdict, with everything told; it calls complete only  *)
(* what is answered and approved, and nothing moves after it.               *)
(***************************************************************************)
EXTENDS Naturals, Sequences, FiniteSets

CONSTANTS Checks, MaxRounds

VARIABLES
  answers,    \* check -> how often it was answered
  opinions,   \* the reviewer's, TRUE where it asks for repairs
  told,       \* the answers and the opinions that were announced
  lenient,    \* a part will do
  verdict     \* "none" before

round == <<answers, opinions, told, lenient, verdict>>

Complete == \A c \in Checks : answers[c] > 0
Approved == opinions # <<>> /\ ~opinions[Len(opinions)]
Rounds(o) == Cardinality({i \in DOMAIN o : o[i]})
All == [checks |-> told.checks \cup {<<c, answers[c]>> : c \in {d \in Checks : answers[d] > 0}},
        reviews |-> told.reviews \cup DOMAIN opinions]

Init ==
  /\ answers = [c \in Checks |-> 0] /\ opinions = <<>>
  /\ told = [checks |-> {}, reviews |-> {}]
  /\ lenient \in BOOLEAN /\ verdict = "none"

Answer(c) ==
  /\ verdict = "none" /\ answers' = [answers EXCEPT ![c] = @ + 1]
  /\ UNCHANGED <<opinions, told, lenient, verdict>>

Opine(repairs) ==
  /\ verdict = "none" /\ opinions' = Append(opinions, repairs) /\ Rounds(opinions') <= MaxRounds
  /\ UNCHANGED <<answers, told, lenient, verdict>>

Tell ==
  /\ verdict = "none" /\ told' = All
  /\ UNCHANGED <<answers, opinions, lenient, verdict>>

Conclude(v) ==
  /\ verdict = "none" /\ verdict' = v /\ told' = All
  /\ v = "completed" => Complete /\ Approved
  /\ v = "unreviewed" => Complete /\ ~lenient
  /\ v = "partial" => lenient
  /\ UNCHANGED <<answers, opinions, lenient>>

Next ==
  \/ \E c \in Checks : Answer(c)
  \/ \E repairs \in BOOLEAN : Opine(repairs)
  \/ Tell
  \/ \E v \in {"completed", "partial", "unreviewed", "failed", "cancelled"} : Conclude(v)

Safety == Init /\ [][Next]_round
=============================================================================
