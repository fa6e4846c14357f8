--------------------------- MODULE AgentCycleProofs ---------------------------
(***************************************************************************)
(* Theorems about AgentCycle, for any steps, paths, contents and bounds:   *)
(* nothing is saved that was not pushed, and no change of a monitored file *)
(* is swallowed.  The invariant Sound says, for the step that runs, what   *)
(* it has read and what its result is.                                     *)
(***************************************************************************)
EXTENDS AgentCycle, TLAPS

\* The points of a step at which its result is there.
Assessed == {"archive", "push", "poll", "latest", "commit"}

\* Where the step stands, and what the cloud has.
StepInv ==
    /\ pc \in {"exists", "stat", "hash", "commit"} => Current = Fim
    /\ pc = "scan" => Current # Fim
    /\ pc \in {"stat", "hash"} => path \in Paths
    /\ job = "completed" => stored
    /\ pc \in {"latest", "commit"} /\ Pushing => stored

\* What the integrity step has read, and what it reports of it.
FimInv ==
    /\ pc \in {"exists", "stat", "hash"} \cup Assessed /\ Current = Fim => before \in {None, baseline}
    /\ pc \in Assessed /\ Current = Fim =>
           result = Compare(before, seen) /\ \A p \in Paths : seen[p] # None

Sound == TypeOK /\ StepInv /\ FimInv

-----------------------------------------------------------------------------

\* The findings of the integrity step are findings.
LEMMA CompareType ==
    ASSUME NEW olds, NEW news
    PROVE  Compare(olds, news) \in SUBSET Findings
<1>1. \A rule \in {"created", "removed", "changed"}, p \in Paths :
        FimFinding(rule, p, High) \in Findings
  <2>. TAKE rule \in {"created", "removed", "changed"}, p \in Paths
  <2>1. FimFinding(rule, p, High) \in
          [rule: {"created", "removed", "changed"}, at: Paths, severity: {High}]
    BY DEF FimFinding
  <2>. QED
    BY <2>1 DEF Findings
<1>2. \A rule \in {"permission", "unreadable"}, p \in Paths :
        FimFinding(rule, p, Medium) \in Findings
  <2>. TAKE rule \in {"permission", "unreadable"}, p \in Paths
  <2>1. FimFinding(rule, p, Medium) \in
          [rule: {"permission", "unreadable"}, at: Paths, severity: {Medium}]
    BY DEF FimFinding
  <2>. QED
    BY <2>1 DEF Findings
<1>3. \A old, new : \A p \in Paths : Changed(old, new, p) \in SUBSET Findings
  BY <1>1, <1>2 DEF Changed, ChangedInPlace
<1>. QED
  BY <1>2, <1>3 DEF Compare

\* A path whose record changed is reported, unless it could not be read before
\* or its mode could not be read.
LEMMA ChangeReported ==
    ASSUME NEW p \in Paths,
           NEW old \in Record \cup {Absent}, NEW new \in Record \cup {Absent},
           old # new, ~Lacks(old, "hash"), ~Lacks(old, "mode"), ~Lacks(new, "mode")
    PROVE  \E f \in Changed(old, new, p) \cup
                     (IF new # Absent /\ new.hash = None
                      THEN {FimFinding("unreadable", p, Medium)} ELSE {}) : f.at = p
<1>1. /\ FimFinding("created", p, High).at = p
      /\ FimFinding("removed", p, High).at = p
      /\ FimFinding("changed", p, High).at = p
      /\ FimFinding("permission", p, Medium).at = p
      /\ FimFinding("unreadable", p, Medium).at = p
  BY DEF FimFinding
<1>2. CASE old = Absent \/ new = Absent
  BY <1>1, <1>2 DEF Changed
<1>3. CASE old # Absent /\ new # Absent
  <2>1. /\ old \in Record /\ new \in Record
        /\ old.hash # None /\ old.mode # None /\ new.mode # None
    BY <1>3 DEF Lacks
  <2>2. old.hash # new.hash \/ old.mode # new.mode
    BY <2>1 DEF Record
  <2>3. Changed(old, new, p) = ChangedInPlace(old, new, p)
    BY <1>3 DEF Changed
  <2>4. CASE new.hash = None
    BY <1>1, <1>3, <2>4
  <2>5. CASE new.hash # None
    BY <1>1, <2>1, <2>2, <2>3, <2>5 DEF ChangedInPlace
  <2>. QED
    BY <2>4, <2>5
<1>. QED
  BY <1>2, <1>3

-----------------------------------------------------------------------------

LEMMA StepsType == /\ DOMAIN Steps = 1..Len(Steps) /\ Len(Steps) \in Nat \ {0}
                   /\ \A i \in DOMAIN Steps : Steps[i] \in Range(Steps)
BY AgentAssumption DEF Range

\* What a step forgets is typed again.
LEMMA ForgetType ==
    ASSUME ForgetStep
    PROVE  /\ path' \in Paths \cup {None} /\ stat' \in Modes \cup {None}
           /\ seen' \in [Paths -> Record \cup {Absent, None}]
           /\ result' \in SUBSET Findings
           /\ stored' = FALSE /\ job' = "none"
BY DEF ForgetStep, Unread

\* Whatever ends a step, the next one starts from a typed state.
LEMMA NextStepType ==
    ASSUME TypeOK, NextStep
    PROVE  step' \in DOMAIN Steps /\ pc' \in {"load", "asleep"}
BY StepsType DEF TypeOK, NextStep

LEMMA StepFailsType ==
    ASSUME TypeOK, StepFails
    PROVE  errors' \subseteq Range(Steps) /\ code' \in 0..2
BY StepsType DEF TypeOK, StepFails, ExitCode, Current

LEMMA SoundInit == Init => Sound
<1>. SUFFICES ASSUME Init
              PROVE  Sound
  OBVIOUS
<1>1. 1 \in DOMAIN Steps /\ 0 \in 0..2
  BY StepsType
<1>2. 0 \in 0..MaxChanges /\ 0 \in 0..MaxFailures /\ 0 \in 0..MaxCrashes
  BY AgentAssumption
<1>3. TypeOK
  BY <1>1, <1>2 DEF Init, TypeOK, Unread
<1>4. StepInv /\ FimInv
  BY DEF Init, StepInv, FimInv, Assessed
<1>. QED
  BY <1>3, <1>4 DEF Sound

LEMMA SoundStep == Sound /\ [Next]_vars => Sound'
<1>. SUFFICES ASSUME Sound, [Next]_vars
              PROVE  Sound'
  OBVIOUS
<1>. USE DEF hostVars, disk, remote, memory, summary, bounds
<1>1. CASE Wake
  <2>1. /\ scanned' = {} /\ errors' = {} /\ code' = 0 /\ drifted' = FALSE
        /\ pc' = "load"
    BY <1>1, Zenon DEF Wake
  <2>2. UNCHANGED <<hostVars, disk, remote, memory, bounds>>
    BY <1>1 DEF Wake
  <2>3. TypeOK'
    <3>1. code' \in 0..2
      BY <2>1
    <3>2. scanned' \subseteq Range(Steps) /\ errors' \subseteq Range(Steps)
      BY <2>1
    <3>3. drifted' \in BOOLEAN
      BY <2>1
    <3>. QED
      BY <2>1, <2>2, <3>1, <3>2, <3>3 DEF Sound, TypeOK
  <2>4. StepInv' /\ FimInv'
    BY <1>1 DEF Wake, Sound, StepInv, FimInv, Assessed, Current
  <2>. QED
    BY <2>3, <2>4 DEF Sound
<1>2. CASE Load
  <2>1. TypeOK'
    BY <1>2, AgentAssumption DEF Load, MayFail, Sound, TypeOK
  <2>2. StepInv' /\ FimInv'
    BY <1>2 DEF Load, Sound, TypeOK, StepInv, FimInv, Assessed, Current
  <2>. QED
    BY <2>1, <2>2 DEF Sound
<1>3. CASE Exists
  <2>1. TypeOK'
    BY <1>3 DEF Exists, Sound, TypeOK
  <2>2. StepInv' /\ FimInv'
    BY <1>3 DEF Exists, Sound, TypeOK, StepInv, FimInv, Assessed, Current
  <2>. QED
    BY <2>1, <2>2 DEF Sound
<1>4. CASE Stat
  <2>1. path \in Paths
    BY <1>4 DEF Stat, Sound, StepInv
  <2>2. stat' \in Modes \cup {None}
    BY <1>4, <2>1 DEF Stat, Sound, TypeOK, File
  <2>3. TypeOK'
    BY <1>4, <2>2 DEF Stat, Sound, TypeOK
  <2>4. StepInv' /\ FimInv'
    BY <1>4 DEF Stat, Sound, StepInv, FimInv, Assessed, Current
  <2>. QED
    BY <2>3, <2>4 DEF Sound
<1>5. CASE Hash
  <2>. DEFINE hash == IF host[path] = Absent THEN None
                      ELSE IF host[path].readable THEN host[path].content ELSE None
  <2>1. path \in Paths
    BY <1>5 DEF Hash, Sound, StepInv
  <2>2. hash \in Contents \cup {None}
    BY <2>1 DEF Sound, TypeOK, File
  <2>3. [mode |-> stat, hash |-> hash] \in Record
    BY <2>2 DEF Sound, TypeOK, Record
  <2>4. seen' \in [Paths -> Record \cup {Absent, None}]
    BY <1>5, <2>3 DEF Hash, Sound, TypeOK
  <2>5. TypeOK'
    BY <1>5, <2>4 DEF Hash, Sound, TypeOK
  <2>6. StepInv' /\ FimInv'
    BY <1>5 DEF Hash, Sound, StepInv, FimInv, Assessed, Current
  <2>. QED
    BY <2>5, <2>6 DEF Sound
<1>6. CASE Assess
  <2>1. TypeOK'
    BY <1>6, CompareType DEF Assess, Sound, TypeOK
  <2>2. StepInv' /\ FimInv'
    BY <1>6 DEF Assess, Sound, StepInv, FimInv, Assessed, Current
  <2>. QED
    BY <2>1, <2>2 DEF Sound
<1>7. CASE Scan
  <2>1. Current \in Targets
    BY <1>7, StepsType DEF Scan, Sound, TypeOK, StepInv, Targets, Current
  <2>2. result' \in SUBSET Findings
    BY <1>7, <2>1 DEF Scan, Sound, TypeOK, Findings
  <2>3. TypeOK'
    BY <1>7, <2>2 DEF Scan, Sound, TypeOK
  <2>4. StepInv' /\ FimInv'
    BY <1>7 DEF Scan, Sound, StepInv, FimInv, Assessed, Current
  <2>. QED
    BY <2>3, <2>4 DEF Sound
<1>8. CASE Archive
  BY <1>8 DEF Archive, Sound, TypeOK, StepInv, FimInv, Assessed, Current
<1>9. CASE Push
  BY <1>9 DEF Push, AfterAccepted, Sound, TypeOK, StepInv, FimInv, Assessed, Current
<1>10. CASE Poll
  BY <1>10 DEF Poll, Sound, TypeOK, StepInv, FimInv, Assessed, Current
<1>11. CASE PushFails \/ Fail
  <2>1. /\ StepFails /\ ForgetStep /\ failures' \in 0..MaxFailures
        /\ UNCHANGED <<hostVars, disk, scanned, drifted, crashes>>
    BY <1>11, AgentAssumption DEF PushFails, Fail, MayFail, Sound, TypeOK
  <2>2. TypeOK' /\ pc' \in {"load", "asleep"}
    BY <2>1, ForgetType, NextStepType, StepFailsType DEF StepFails, Sound, TypeOK
  <2>. QED
    BY <2>1, <2>2, ForgetType DEF Sound, StepInv, FimInv, Assessed
<1>12. CASE SaveLatest
  <2>1. Current \in Range(Steps)
    BY StepsType DEF Sound, TypeOK, Current
  <2>2. TypeOK'
    BY <1>12, <2>1 DEF SaveLatest, Sound, TypeOK
  <2>3. StepInv' /\ FimInv'
    BY <1>12 DEF SaveLatest, Sound, StepInv, FimInv, Assessed, Current
  <2>. QED
    BY <2>2, <2>3 DEF Sound
<1>13. CASE Commit
  <2>1. seen \in [Paths -> Record \cup {Absent}]
    BY <1>13 DEF Commit, Sound, TypeOK, StepInv, FimInv, Assessed
  <2>2. TypeOK'
    BY <1>13, <2>1 DEF Commit, NewBaseline, Sound, TypeOK
  <2>3. StepInv' /\ FimInv'
    BY <1>13 DEF Commit, Sound, StepInv, FimInv, Assessed, Current
  <2>. QED
    BY <2>2, <2>3 DEF Sound
<1>14. CASE StepDone
  <2>1. scanned' \subseteq Range(Steps) /\ code' \in 0..2
    BY <1>14, StepsType DEF StepDone, ExitCode, Sound, TypeOK, Current
  <2>2. TypeOK' /\ pc' \in {"load", "asleep"}
    BY <1>14, <2>1, ForgetType, NextStepType DEF StepDone, Sound, TypeOK
  <2>. QED
    BY <1>14, <2>2, ForgetType DEF StepDone, Sound, StepInv, FimInv, Assessed
<1>15. CASE CloudIngests
  <2>1. failures' \in 0..MaxFailures
    BY <1>15, AgentAssumption DEF CloudIngests, MayFail, Sound, TypeOK
  <2>2. TypeOK'
    BY <1>15, <2>1 DEF CloudIngests, Sound, TypeOK
  <2>3. StepInv' /\ FimInv'
    BY <1>15 DEF CloudIngests, Sound, StepInv, FimInv, Assessed, Current
  <2>. QED
    BY <2>2, <2>3 DEF Sound
<1>16. CASE HostChanges
  <2>1. TypeOK'
    BY <1>16, AgentAssumption DEF HostChanges, Sound, TypeOK
  <2>2. StepInv' /\ FimInv'
    BY <1>16 DEF HostChanges, Sound, StepInv, FimInv, Assessed, Current
  <2>. QED
    BY <2>1, <2>2 DEF Sound
<1>17. CASE Crash
  <2>1. crashes' \in 0..MaxCrashes /\ code' \in 0..2 /\ step' \in DOMAIN Steps
    BY <1>17, AgentAssumption, StepsType DEF Crash, Sound, TypeOK
  <2>2. ForgetStep /\ pc' = "killed"
    BY <1>17 DEF Crash
  <2>3. TypeOK'
    BY <1>17, <2>1, <2>2, ForgetType DEF Crash, Sound, TypeOK
  <2>. QED
    BY <2>2, <2>3, ForgetType DEF Sound, StepInv, FimInv, Assessed
<1>18. CASE UNCHANGED vars
  BY <1>18 DEF vars, Sound, TypeOK, StepInv, FimInv, Assessed, Current
<1>. QED
  BY <1>1, <1>2, <1>3, <1>4, <1>5, <1>6, <1>7, <1>8, <1>9, <1>10, <1>11, <1>12,
     <1>13, <1>14, <1>15, <1>16, <1>17, <1>18 DEF Next, Agent

LEMMA SoundAlways == Spec => []Sound
BY SoundInit, SoundStep, PTL DEF Spec

-----------------------------------------------------------------------------

\* Every variable keeps its type.
THEOREM CycleTypeCorrect == Spec => []TypeOK
<1>1. Sound => TypeOK
  BY DEF Sound
<1>. QED
  BY <1>1, SoundAlways, PTL

\* run_watch_cycle writes latest.json, and has the integrity baseline written,
\* only when the cloud has stored the result (upload.py, 200 and 202 answers).
THEOREM SavedWasPushed == Spec => PushedBeforeSaved
<1>1. Sound /\ [Next]_vars =>
        [Pushing /\ (latest' # latest \/ baseline' # baseline) => stored]_vars
  <2>. SUFFICES ASSUME Sound, Next, Pushing, latest' # latest \/ baseline' # baseline
                PROVE  stored
    BY DEF vars
  <2>1. SaveLatest \/ Commit
    BY DEF Next, Agent, Wake, Load, Exists, Stat, Hash, Assess, Scan, Archive, Push, Poll,
           PushFails, StepDone, Fail, CloudIngests, HostChanges, Crash, disk
  <2>. QED
    BY <2>1 DEF SaveLatest, Commit, Sound, StepInv
<1>. QED
  BY <1>1, SoundAlways, PTL DEF Spec, PushedBeforeSaved

\* The integrity baseline moves past no change of a monitored path that was not
\* reported (fim.py, _compare; agent/runner.py, fim_commit).
THEOREM NoChangeSwallowed == Spec => NothingSwallowed
<1>1. Sound /\ [Next]_vars =>
        [\A p \in Paths :
           (before # None /\ baseline' # baseline /\ baseline'[p] # baseline[p]) =>
              \/ \E f \in result : f.at = p
              \/ Lacks(baseline[p], "hash")
              \/ Lacks(baseline[p], "mode") \/ Lacks(baseline'[p], "mode")]_vars
  <2>. SUFFICES ASSUME Sound, Next, NEW p \in Paths,
                       before # None, baseline' # baseline, baseline'[p] # baseline[p],
                       ~Lacks(baseline[p], "hash"), ~Lacks(baseline[p], "mode"),
                       ~Lacks(baseline'[p], "mode")
                PROVE  \E f \in result : f.at = p
    BY DEF vars, disk
  <2>1. Commit
    BY DEF Next, Agent, Wake, Load, Exists, Stat, Hash, Assess, Scan, Archive, Push, Poll,
           PushFails, SaveLatest, StepDone, Fail, CloudIngests, HostChanges, Crash, disk
  <2>2. before = baseline /\ result = Compare(baseline, seen) /\ baseline' = seen
    BY <2>1 DEF Commit, NewBaseline, Sound, StepInv, FimInv, Assessed
  <2>3. baseline[p] \in Record \cup {Absent} /\ seen[p] \in Record \cup {Absent}
    BY <2>1, <2>2 DEF Commit, Sound, TypeOK, StepInv, FimInv, Assessed
  <2>4. PICK f \in Changed(baseline[p], seen[p], p) \cup
                   (IF seen[p] # Absent /\ seen[p].hash = None
                    THEN {FimFinding("unreadable", p, Medium)} ELSE {}) : f.at = p
    BY <2>2, <2>3, ChangeReported
  <2>5. f \in Compare(baseline, seen)
    BY <2>2, <2>4 DEF Compare
  <2>. QED
    BY <2>2, <2>4, <2>5
<1>. QED
  BY <1>1, SoundAlways, PTL DEF Spec, NothingSwallowed

-----------------------------------------------------------------------------

\* A drift that was saved is in the exit code, or its step is about to add it:
\* nothing between the two writes reads latest.json again.
DriftInv == drifted => code > 0 \/ (pc \in {"commit", "done"} /\ CycleDrift)

\* A step that ends, well or not, leaves no lower exit code, and one that fails
\* leaves a failure.
LEMMA CodeStays ==
    ASSUME TypeOK, [Next]_vars, ~Wake, ~Crash
    PROVE  /\ code > 0 => code' > 0
           /\ PushFails \/ Fail => code' > 0
           /\ StepDone /\ CycleDrift => code' > 0
<1>. USE DEF hostVars, disk, remote, memory, summary, bounds
<1>0. code \in 0..2
  BY DEF TypeOK
<1>1. PushFails \/ Fail => code' = 2
  BY DEF PushFails, Fail, StepFails, ExitCode
<1>2. StepDone => code' = 2 \/ code' = (IF CycleDrift /\ code = 0 THEN 1 ELSE code)
  BY DEF StepDone, ExitCode
<1>3. PushFails \/ Fail \/ StepDone \/ code' = code
  BY DEF Next, Agent, Load, Exists, Stat, Hash, Assess, Scan, Archive, Push, Poll, SaveLatest,
         Commit, CloudIngests, HostChanges, vars
<1>. QED
  BY <1>0, <1>1, <1>2, <1>3

LEMMA DriftInvStep ==
    ASSUME Sound, DriftInv, [Next]_vars
    PROVE  DriftInv'
<1>. USE DEF hostVars, disk, remote, memory, summary, bounds
<1>1. CASE Wake \/ Crash
  BY <1>1 DEF Wake, Crash, DriftInv
<1>2. CASE ~Wake /\ ~Crash
  <2>. DEFINE signalled == code > 0
              recorded == pc \in {"commit", "done"} /\ CycleDrift
  <2>1. /\ signalled => signalled'
        /\ PushFails \/ Fail => signalled'
        /\ StepDone /\ CycleDrift => signalled'
    BY <1>2, CodeStays DEF Sound
  <2>2. drifted => signalled \/ recorded
    BY DEF DriftInv
  <2>. HIDE DEF signalled
  <2>3. CASE SaveLatest
    <3>1. pc' \in {"commit", "done"} /\ CycleDrift' = CycleDrift
      BY <2>3 DEF SaveLatest, CycleDrift, Drift
    <3>2. drifted' => drifted \/ CycleDrift
      BY <2>3, Zenon DEF SaveLatest, CycleDrift
    <3>3. ~recorded
      BY <2>3 DEF SaveLatest
    <3>. QED
      BY <2>1, <2>2, <3>1, <3>2, <3>3 DEF DriftInv, signalled
  <2>4. CASE ~SaveLatest
    <3>1. drifted' = drifted
      BY <1>2, <2>4, Zenon DEF Next, Agent, Load, Exists, Stat, Hash, Assess, Scan, Archive, Push,
           Poll, PushFails, Commit, StepDone, Fail, CloudIngests, HostChanges, vars
    <3>2. recorded => recorded' \/ PushFails \/ Fail \/ StepDone
      BY <1>2, <2>4 DEF Next, Agent, Load, Exists, Stat, Hash, Assess, Scan, Archive, Push, Poll,
           Commit, CloudIngests, HostChanges, vars, CycleDrift, Drift
    <3>. QED
      BY <2>1, <2>2, <3>1, <3>2 DEF DriftInv, signalled
  <2>. QED
    BY <2>3, <2>4
<1>. QED
  BY <1>1, <1>2

\* A new finding at or above the floor that latest.json takes in is in the exit
\* code of the cycle, whatever fails after it was written (agent/runner.py,
\* run_agent_cycle; watch/scheduler.py, run_watch_cycle).
THEOREM DriftAlwaysSignalled == Spec => []DriftSignalled
<1>1. Init => DriftInv
  BY DEF Init, DriftInv
<1>2. Sound /\ DriftInv /\ [Next]_vars => DriftInv'
  BY DriftInvStep
<1>3. DriftInv => DriftSignalled
  BY DEF DriftInv, DriftSignalled
<1>. QED
  BY <1>1, <1>2, <1>3, SoundAlways, PTL DEF Spec

===============================================================================
