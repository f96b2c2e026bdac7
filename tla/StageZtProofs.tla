---------------------------- MODULE StageZtProofs ----------------------------
(***************************************************************************)
(* StagedIsFresh of StageZt for every set of executables and versions and *)
(* every number of runs.                                                  *)
(***************************************************************************)
EXTENDS StageZt, TLAPS

\* The bin directory, the run counter and the staging step keep their types.
STypeOK ==
  /\ bin \in [Files -> {Absent} \cup Binary]
  /\ run \in 1..MaxRuns
  /\ pc \in {"idle", "stage"} /\ cur \in Files
  /\ result \in [Files -> {"none", "ok", "err"}]

\* A file that has a result, or is being staged, had its DoOnce key run
\* in this run; the file being staged has no result yet; and a local or
\* latest target stays absent from its removal to its copy.
OnceInv ==
  /\ \A f \in Files : result[f] # "none" => OnceKey(f) \in onceDone
  /\ pc = "stage" => OnceKey(cur) \in onceDone /\ result[cur] = "none"
  /\ pc = "stage" /\ RemovesTarget(cur[2]) => bin[cur] = Absent

\* The invariant FreshStaging rests on: StagedIsFresh with what makes it
\* inductive.
SInv == STypeOK /\ OnceInv /\ StagedIsFresh
-----------------------------------------------------------------------------
LEMMA InitSInv == Init => SInv
<1> SUFFICES ASSUME Init PROVE SInv
    OBVIOUS
<1>1. Files # {}
    <2>1. PICK e \in Execs : TRUE
        BY VersionsAssumption
    <2>2. <<e, "">> \in Files
        BY <2>1, VersionsAssumption DEF Files
    <2>3. QED
        BY <2>2
<1>2. STypeOK
    <2>1. [run : {0}, from : Sources] \subseteq Binary
        BY MaxRunsAssumption DEF Binary
    <2>2. bin \in [Files -> {Absent} \cup Binary]
        BY <2>1 DEF Init
    <2>3. cur \in Files
        BY <1>1 DEF Init
    <2>4. QED
        BY <2>2, <2>3, MaxRunsAssumption DEF Init, STypeOK
<1>3. OnceInv /\ StagedIsFresh
    BY DEF Init, OnceInv, StagedIsFresh
<1>4. QED
    BY <1>2, <1>3 DEF SInv

\* The steps that stage cur change bin and result at cur only.
LEMMA NextSInv == SInv /\ [Next]_vars => SInv'
<1> SUFFICES ASSUME SInv, [Next]_vars PROVE SInv'
    OBVIOUS
<1> USE MaxRunsAssumption DEF SInv, STypeOK, OnceInv, StagedIsFresh
<1>1. ASSUME NEW f \in Files, StageBegin(f) PROVE SInv'
    <2>1. result[f] = "none"
        BY <1>1 DEF StageBegin
    <2>2. QED
        BY <1>1, <2>1 DEF StageBegin
<1>2. ASSUME StageLocal PROVE SInv'
    <2>1. /\ pc = "stage" /\ cur \in Files /\ cur[2] = ""
          /\ result[cur] = "none" /\ bin[cur] = Absent
        BY <1>2 DEF StageLocal, RemovesTarget
    <2> DEFINE Wrote(s) == [run |-> run, from |-> s]
    <2>2. PICK s \in {"source", "env", "path"} :
              /\ bin' \in {bin, [bin EXCEPT ![cur] = Wrote(s)]}
              /\ result' \in {[result EXCEPT ![cur] = "ok"], [result EXCEPT ![cur] = "err"]}
              /\ result'[cur] = "ok" => bin' = [bin EXCEPT ![cur] = Wrote(s)]
        BY <1>2 DEF StageLocal, Wrote
    <2>3. Wrote(s) \in Binary /\ Wrote(s).run = run
        <3>1. run \in 1..MaxRuns
            OBVIOUS
        <3>2. QED
            BY ONLY <3>1, MaxRunsAssumption DEF Binary, Sources, Wrote
    <2>4. STypeOK'
        <3>1. bin' \in [Files -> {Absent} \cup Binary]
            BY <2>1, <2>2, <2>3
        <3>2. result' \in [Files -> {"none", "ok", "err"}]
            BY <2>1, <2>2
        <3>3. run' = run /\ pc' = "idle" /\ cur' = cur
            BY <1>2 DEF StageLocal
        <3>4. QED
            BY <3>1, <3>2, <3>3
    <2>5. OnceInv'
        BY <1>2, <2>1, <2>2 DEF StageLocal
    <2>6. StagedIsFresh'
        BY <1>2, <2>1, <2>2, <2>3, AbsentAssumption DEF StageLocal
    <2>7. QED
        BY <2>4, <2>5, <2>6
<1>3. ASSUME StageVersion PROVE SInv'
    <2>1. /\ pc = "stage" /\ cur \in Files /\ cur[2] # ""
          /\ result[cur] = "none"
          /\ cur[2] = "latest" => bin[cur] = Absent
        BY <1>3 DEF StageVersion, RemovesTarget
    <2> DEFINE Fetched == [run |-> run, from |-> "download"]
    <2>2. Fetched \in Binary
        <3>1. run \in 1..MaxRuns
            OBVIOUS
        <3>2. QED
            BY ONLY <3>1, MaxRunsAssumption DEF Fetched, Binary, Sources
    <2>3. /\ bin' \in {bin, [bin EXCEPT ![cur] = Fetched]}
          /\ result' \in {[result EXCEPT ![cur] = "ok"], [result EXCEPT ![cur] = "err"]}
          /\ result'[cur] = "ok" /\ cur[2] \in {"", "latest"} =>
                bin'[cur] # Absent /\ bin'[cur].run = run
          /\ run' = run /\ pc' = "idle" /\ cur' = cur /\ onceDone' = onceDone
        <3>1. bin[cur] \in {Absent} \cup Binary
            BY <2>1
        <3>2. Fetched # Absent
            BY <2>2, AbsentAssumption
        <3>3. CASE bin[cur] # Absent /\ result' = [result EXCEPT ![cur] = "ok"]
                   /\ bin' = bin
            <4>1. cur[2] \notin {"", "latest"}
                BY <2>1, <3>3
            <4>2. QED
                BY <1>3, <2>1, <3>3, <4>1 DEF StageVersion
        <3>4. CASE bin[cur] = Absent /\ bin' = [bin EXCEPT ![cur] = Fetched]
                   /\ result' = [result EXCEPT ![cur] = "ok"]
            BY <1>3, <2>1, <3>2, <3>4 DEF StageVersion, Fetched
        <3>5. CASE result' = [result EXCEPT ![cur] = "err"] /\ bin' = bin
            BY <1>3, <2>1, <3>5 DEF StageVersion
        <3>6. QED
            BY <1>3, <3>3, <3>4, <3>5 DEF StageVersion, Fetched
    <2>4. STypeOK'
        <3>1. bin' \in [Files -> {Absent} \cup Binary]
            BY <2>1, <2>2, <2>3
        <3>2. result' \in [Files -> {"none", "ok", "err"}]
            BY <2>1, <2>3
        <3>3. QED
            BY <2>3, <3>1, <3>2
    <2>5. OnceInv'
        BY <2>1, <2>3
    <2>6. StagedIsFresh'
        BY <2>1, <2>3
    <2>7. QED
        BY <2>4, <2>5, <2>6
<1>4. ASSUME Restart PROVE SInv'
    <2>1. run' \in 1..MaxRuns
        <3>1. run \in 1..MaxRuns /\ run < MaxRuns /\ run' = run + 1
            BY <1>4 DEF Restart
        <3>2. QED
            BY ONLY <3>1, MaxRunsAssumption
    <2>2. QED
        BY <1>4, <2>1 DEF Restart
<1>5. ASSUME Finished \/ UNCHANGED vars PROVE SInv'
    BY <1>5 DEF Finished, vars
<1>6. QED
    BY <1>1, <1>2, <1>3, <1>4, <1>5 DEF Next

(* A successful staging of a local or latest build serves a binary written *)
(* in the same run, for any number of runs and whatever step a run stopped *)
(* at: the removal of stagezt.go lines 103-105 and the DoOnce keys of the  *)
(* Stage*Once wrappers keep a binary of an earlier run from being served.  *)
THEOREM FreshStaging == Spec => []StagedIsFresh
<1>1. Init => SInv
    BY InitSInv
<1>2. SInv /\ [Next]_vars => SInv'
    BY NextSInv
<1>3. SInv => StagedIsFresh
    BY DEF SInv
<1>4. QED
    BY <1>1, <1>2, <1>3, PTL DEF Spec


(* The staging invariant holds in every state, for any executables,       *)
(* versions and number of runs: a staging that has reported, or is under  *)
(* way, ran under its DoOnce key in this run, and a local or latest        *)
(* target removed at lines 103-105 stays absent until it is copied.       *)
THEOREM StageInductive == Spec => []SInv
BY InitSInv, NextSInv, PTL DEF Spec

====
