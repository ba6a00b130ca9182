---------------------------- MODULE RunArtifacts ----------------------------
(***************************************************************************)
(* The files a run leaves (observability/artifacts.py) and who may read     *)
(* them.  A file goes to a temporary name and is then renamed; the          *)
(* manifest, written last, names every other file with its hash.  A write   *)
(* can fail halfway, which makes the service record a failure over what is  *)
(* there, and the process can stop between any two steps.                   *)
(***************************************************************************)
EXTENDS Naturals, Sequences, FiniteSets

Name == {"trace", "replay", "investigation", "result", "metrics", "report", "error"}

VARIABLES
  files,       \* name -> whose content it has: "none", "run" or "failure"
  temps,       \* names whose temporary file is there, the manifest's included
  manifest,    \* the hashes of the last manifest, or NoManifest
  todo,        \* what the call under way still writes, in order
  task         \* "running", "completing", "failing", "returned", "raised", "stopped"

artifactVars == <<files, temps, manifest, todo, task>>

NoManifest == [n \in Name |-> "no manifest"]
Variant_Full == <<"replay", "investigation", "result", "metrics", "manifest", "report">>

\* The order of complete.
Full == <<"replay", "investigation", "result", "metrics", "report", "manifest">>
Failure == <<"error", "metrics", "manifest">>

\* verify_manifest: each listed file has its hash and every file of the
\* directory, a temporary one too, is listed.
Verifies == manifest = files /\ temps = {}

\* load_result and load_replay: nothing is read that does not verify, and a
\* replay is given out only beside the report it was frozen with.
ResultReadable == Verifies /\ files["result"] # "none"
ReplayReadable == Verifies /\ files["replay"] # "none" /\ files["report"] # "none"

ArtifactsInit ==
  /\ files = [n \in Name |-> "none"] /\ temps = {} /\ manifest = NoManifest
  /\ todo = <<>> /\ task = "running"

Trace == files' = [files EXCEPT !["trace"] = "run"]

\* complete: the snapshot is written only for a bound policy and a view.
CompleteRun ==
  /\ task = "running" /\ task' = "completing"
  /\ todo' \in {Full, Tail(Full)}
  /\ Trace /\ UNCHANGED <<temps, manifest>>

\* fail: the trace gets its last event first.
FailRun ==
  /\ task = "running" /\ task' = "failing" /\ todo' = Failure
  /\ Trace /\ UNCHANGED <<temps, manifest>>

\* _write_text up to the rename.
WriteTemporary ==
  /\ todo # <<>> /\ task \in {"completing", "failing"} /\ Head(todo) \notin temps
  /\ temps' = temps \cup {Head(todo)}
  /\ UNCHANGED <<files, manifest, todo, task>>

\* The rename.  The manifest hashes the files that are there and leaves the
\* temporary ones out.
Replace ==
  /\ todo # <<>> /\ task \in {"completing", "failing"} /\ Head(todo) \in temps
  /\ temps' = temps \ {Head(todo)} /\ todo' = Tail(todo)
  /\ IF Head(todo) = "manifest"
     THEN manifest' = files /\ UNCHANGED files
     ELSE /\ files' = [files EXCEPT ![Head(todo)] =
                         IF task = "failing" THEN "failure" ELSE "run"]
          /\ UNCHANGED manifest
  /\ task' = IF Tail(todo) # <<>> THEN task
             ELSE IF task = "failing" THEN "raised" ELSE "returned"

\* A fault of the replay snapshot, or one too large or changed on its way to
\* disk, costs the replay only.
ReplayFault ==
  /\ task = "completing" /\ todo # <<>> /\ Head(todo) = "replay"
  /\ todo' = Tail(todo) /\ temps' = temps \ {"replay"}
  /\ files' = [files EXCEPT !["replay"] = "none"]
  /\ UNCHANGED <<manifest, task>>

\* Any other fault leaves the call; the service then records the failure, unless
\* recording it was what failed.
WriteFault ==
  /\ todo # <<>> /\ task \in {"completing", "failing"} /\ Head(todo) # "replay"
  /\ IF task = "completing" THEN task' = "failing" /\ todo' = Failure /\ Trace
     ELSE task' = "raised" /\ todo' = <<>> /\ UNCHANGED files
  /\ UNCHANGED <<temps, manifest>>

Stop ==
  /\ task \in {"running", "completing", "failing"}
  /\ task' = "stopped" /\ todo' = <<>>
  /\ UNCHANGED <<files, temps, manifest>>

ArtifactsNext ==
  CompleteRun \/ FailRun \/ WriteTemporary \/ Replace \/ ReplayFault \/ WriteFault \/ Stop

\* What a reader is given is whole: a result that can be read and is not marked
\* by an error has its investigation, metrics and report, all of the completed
\* run, wherever a fault or a stop cut the writing; and it stays readable.
ReadableResultIsWhole ==
  /\ ResultReadable /\ files["error"] = "none" =>
       \A n \in {"investigation", "result", "metrics", "report"} : files[n] = "run"
  /\ ReplayReadable => files["report"] = "run"
=============================================================================
