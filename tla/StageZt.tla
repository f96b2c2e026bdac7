------------------------------- MODULE StageZt -------------------------------
(***************************************************************************)
(* Binary staging of the test harness, src/zttest/ztlab/stagezt/stagezt.go.*)
(*                                                                         *)
(* A fablab run stages executables into the kit's bin directory, which     *)
(* persists from one run to the next.  Each Stage*Once wrapper runs        *)
(* StageExecutable at most once per run under a DoOnce key.                *)
(* StageExecutable first removes the target when the version is "" or      *)
(* "latest".  For "" it copies, in order of preference, the source         *)
(* argument, the <EXEC>_PATH variable or the executable found on PATH.     *)
(* For a version it returns at once if the file is in the kit, and         *)
(* otherwise downloads it.  A run may stop at any step (a crash, or the    *)
(* operator), and a new run starts with the directory as it was left.      *)
(* A file is named by <<executable, version>>; run.GetBinDir() is taken to *)
(* be the kit's BuildKitDir/BuildBinDir, which FileExists checks.          *)
(***************************************************************************)
EXTENDS Naturals

CONSTANTS Execs, Versions, MaxRuns, Absent

ASSUME VersionsAssumption == "" \in Versions /\ "latest" \in Versions /\ Execs # {}
ASSUME MaxRunsAssumption == MaxRuns \in Nat \ {0}

Files == Execs \X Versions
Sources == {"source", "env", "path", "download"}
\* A file in the bin directory records the run that wrote it (0: before the
\* first run modelled) and where it came from.
Binary == [run : 0..MaxRuns, from : Sources]

ASSUME AbsentAssumption == Absent \notin Binary

VARIABLES
  bin,       \* bin[f]: the binary at file f, or Absent
  run,       \* the number of the current run
  onceDone,  \* the DoOnce keys run in this run
  pc,        \* "idle", or "stage" after the removal step of a staging
  cur,       \* the file of the current or last staging
  result     \* result[f]: "none", "ok" or "err" for this run

vars == <<bin, run, onceDone, pc, cur, result>>

\* The op of the Stage*Once wrappers: "install.<exec>-local" for version
\* "", "install.<exec>-<version>" otherwise.
OnceKey(f) == <<f[1], IF f[2] = "" THEN "local" ELSE f[2]>>

\* The test `version == "" || version == "latest"` of lines 103 and 147.
RemovesTargetLocalOnly(v) == v = ""
RemovesTarget(v) == v = "" \/ v = "latest"

Init ==
  /\ bin \in [Files -> {Absent} \cup [run : {0}, from : Sources]]
  /\ run = 1 /\ onceDone = {} /\ pc = "idle"
  /\ cur = CHOOSE f \in Files : TRUE
  /\ result = [f \in Files |-> "none"]

\* A Stage*Once call whose key DoOnce has not yet run: lines 96-105, the
\* target's name and its removal.
StageBegin(f) ==
  /\ pc = "idle" /\ OnceKey(f) \notin onceDone
  /\ onceDone' = onceDone \cup {OnceKey(f)}
  /\ bin' = IF RemovesTarget(f[2]) THEN [bin EXCEPT ![f] = Absent] ELSE bin
  /\ pc' = "stage" /\ cur' = f
  /\ UNCHANGED <<run, result>>

\* Lines 107-122: a local executable is copied from the first of source,
\* env var and PATH that is there, or staging fails; a CopyFile that fails
\* half-way may leave the part it wrote.
StageLocal ==
  /\ pc = "stage" /\ cur[2] = ""
  /\ \/ \E s \in {"source", "env", "path"} :
          /\ bin' = [bin EXCEPT ![cur] = [run |-> run, from |-> s]]
          /\ result' = [result EXCEPT ![cur] = "ok"]
     \/ /\ result' = [result EXCEPT ![cur] = "err"]
        /\ \E s \in {"source", "env", "path"} :
             bin' \in {bin, [bin EXCEPT ![cur] = [run |-> run, from |-> s]]}
  /\ pc' = "idle"
  /\ UNCHANGED <<run, onceDone, cur>>

\* Lines 125-137: a version is kept when the kit has it, else fetched by
\* the fallback (getzt.Install*, lines 69-85); FileExists or the download
\* may fail.
StageVersion ==
  /\ pc = "stage" /\ cur[2] # ""
  /\ \/ /\ bin[cur] # Absent
        /\ result' = [result EXCEPT ![cur] = "ok"]
        /\ UNCHANGED bin
     \/ /\ bin[cur] = Absent
        /\ bin' = [bin EXCEPT ![cur] = [run |-> run, from |-> "download"]]
        /\ result' = [result EXCEPT ![cur] = "ok"]
     \/ /\ result' = [result EXCEPT ![cur] = "err"]
        /\ UNCHANGED bin
  /\ pc' = "idle"
  /\ UNCHANGED <<run, onceDone, cur>>

\* The run ends or crashes, at any step; the next run keeps the directory.
Restart ==
  /\ run < MaxRuns
  /\ run' = run + 1
  /\ onceDone' = {} /\ pc' = "idle"
  /\ result' = [f \in Files |-> "none"]
  /\ UNCHANGED <<bin, cur>>

\* The last run has staged everything it will.
Finished == run = MaxRuns /\ pc = "idle" /\ UNCHANGED vars

Next == (\E f \in Files : StageBegin(f)) \/ StageLocal \/ StageVersion \/ Restart \/ Finished

Spec == Init /\ [][Next]_vars

-----------------------------------------------------------------------------

\* A staging of "latest" or of the local build that reports success has put
\* a binary written in this run at the target: never one left by an earlier
\* run, even one that crashed half-way (the removal of lines 103-105).
StagedIsFresh ==
  \A f \in Files :
    f[2] \in {"", "latest"} /\ result[f] = "ok" =>
      bin[f] # Absent /\ bin[f].run = run

====
