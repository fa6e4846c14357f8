------------------------------ MODULE AgentCycle ------------------------------
(***************************************************************************)
(* `nephilex agent` and `nephilex watch`: the cycles of run_agent_cycle    *)
(* (agent/runner.py), run_watch_cycle (watch/scheduler.py) and the file    *)
(* integrity step (agent/fim.py).  A cycle runs the steps one after the    *)
(* other; a step scans, pushes the result to the cloud and only then       *)
(* writes latest.json and, for file integrity, the integrity baseline.     *)
(* `nephilex watch` is the instance whose only step is its target.         *)
(*                                                                         *)
(* The host changes at any time, also while it is read; any step may       *)
(* fail, and the process may be killed between any two writes.             *)
(***************************************************************************)
EXTENDS Naturals, Sequences, FiniteSets, Functions

CONSTANTS
    Steps,        \* the steps of a cycle, in order
    Fim,          \* the file integrity step
    Paths,        \* integrity_paths
    Contents,     \* what a file may hold
    Modes,        \* its mode and owner
    Results,      \* the findings a scan of a target may report: sets of findings
    Absent,       \* the file does not exist
    None,         \* not known, or not there
    Pushing,      \* config.push
    Floor,        \* config.fail_on_drift; 0 when it is off, or "info"
    MaxChanges,   \* bound: changes of the host
    MaxFailures,  \* bound: operations that fail
    MaxCrashes    \* bound: times the process is killed

Severities == 0..4

Medium == 2
High == 3

ASSUME AgentAssumption ==
    /\ Steps \in Seq(Range(Steps)) /\ Len(Steps) > 0
    /\ Floor \in Severities
    /\ MaxChanges \in Nat /\ MaxFailures \in Nat /\ MaxCrashes \in Nat

VARIABLES
    host,       \* the monitored files as they are
    issues,     \* what a scan of each target would find now
    baseline,   \* integrity.json
    latest,     \* latest.json of every step
    job,        \* the asynchronous ingest of the result that is being pushed
    pc,         \* where the cycle stands
    step,       \* the index of the step that runs
    previous,   \* latest.json as the step read it
    before,     \* integrity.json as the step read it
    path,       \* the path that is being read
    stat,       \* its mode, once read
    seen,       \* the records of the paths read so far
    result,     \* the findings of the step
    scanned,    \* AgentCycleSummary.targets_scanned, as a set
    errors,     \* AgentCycleSummary.errors, as the set of steps that failed
    code,       \* AgentCycleSummary.exit_code
    stored,     \* the cloud has stored the result of this step
    drifted,    \* latest.json took in a new finding at or above Floor in this cycle
    changes,    \* changes of the host so far
    failures,   \* failures so far
    crashes     \* kills so far

hostVars == <<host, issues, changes>>
disk == <<baseline, latest>>
remote == <<job, stored>>
memory == <<step, previous, before, path, stat, seen, result>>
summary == <<scanned, errors, code, drifted>>
bounds == <<failures, crashes>>
vars == <<hostVars, disk, remote, pc, memory, summary, bounds>>

-----------------------------------------------------------------------------
(***************************************************************************)
(* Findings and records.                                                   *)
(***************************************************************************)

Targets == Range(Steps) \ {Fim}

Current == Steps[step]

File == [content: Contents, mode: Modes, readable: BOOLEAN]

\* _record: stat and hash are None when they could not be read.
Record == [mode: Modes \cup {None}, hash: Contents \cup {None}]

FimFinding(rule, p, severity) == [rule |-> rule, at |-> p, severity |-> severity]

Findings ==
    (UNION Results)
    \cup [rule: {"created", "removed", "changed"}, at: Paths, severity: {High}]
    \cup [rule: {"permission", "unreadable"}, at: Paths, severity: {Medium}]

\* The file is there in both records: content, then mode when the content is equal.
ChangedInPlace(old, new, p) ==
    IF old.hash # new.hash
    THEN IF None \in {old.hash, new.hash} THEN {} ELSE {FimFinding("changed", p, High)}
    ELSE IF None \in {old.mode, new.mode} \/ old.mode = new.mode THEN {}
         ELSE {FimFinding("permission", p, Medium)}

\* Mutant: a path that did not exist is treated as one newly added to the config.
ChangedIfKnown(old, new, p) ==
    CASE old = Absent -> {}
      [] old # Absent /\ new = Absent -> {FimFinding("removed", p, High)}
      [] OTHER -> ChangedInPlace(old, new, p)

\* What is said of a path whose record was `old` and is now `new`.
Changed(old, new, p) ==
    CASE old = Absent /\ new = Absent -> {}
      [] old = Absent /\ new # Absent -> {FimFinding("created", p, High)}
      [] old # Absent /\ new = Absent -> {FimFinding("removed", p, High)}
      [] OTHER -> ChangedInPlace(old, new, p)

\* _compare: an unreadable path is reported in every cycle; the first cycle, with
\* no baseline, only establishes it.
Compare(olds, news) ==
    {FimFinding("unreadable", p, Medium) :
        p \in {q \in Paths : news[q] # Absent /\ news[q].hash = None}}
    \cup (IF olds = None THEN {} ELSE UNION {Changed(olds[p], news[p], p) : p \in Paths})

\* compare_scans and highest_added_severity: a finding that is new, or has another
\* severity.  A floor of "info" is Severity 0, which counts as no floor.
Drift(old, new) ==
    /\ old # None
    /\ Floor > 0
    /\ \E f \in new \ old : f.severity >= Floor

\* Mutant: the snapshot is compared with latest.json after that was written.
DriftAfterSave == Drift(latest[Current], result)

CycleDrift == Drift(previous, result)

-----------------------------------------------------------------------------
Unread == [p \in Paths |-> None]

Init ==
    /\ host \in [Paths -> File \cup {Absent}]
    /\ issues \in [Targets -> Results]
    /\ baseline = None
    /\ latest = [s \in Range(Steps) |-> None]
    /\ job = "none" /\ stored = FALSE
    /\ pc = "asleep"
    /\ step = 1
    /\ previous = None /\ before = None
    /\ path = None /\ stat = None /\ seen = Unread /\ result = {}
    /\ scanned = {} /\ errors = {} /\ code = 0 /\ drifted = FALSE
    /\ changes = 0 /\ failures = 0 /\ crashes = 0

-----------------------------------------------------------------------------
(***************************************************************************)
(* The host, the cloud and whoever kills the process.                      *)
(***************************************************************************)

MayFail == failures < MaxFailures /\ failures' = failures + 1

HostChanges ==
    /\ changes < MaxChanges
    /\ changes' = changes + 1
    /\ \/ \E p \in Paths : \E new \in (File \cup {Absent}) \ {host[p]} :
            host' = [host EXCEPT ![p] = new] /\ UNCHANGED issues
       \/ \E t \in Targets : \E new \in Results \ {issues[t]} :
            issues' = [issues EXCEPT ![t] = new] /\ UNCHANGED host
    /\ UNCHANGED <<disk, remote, pc, memory, summary, bounds>>

\* The cloud finishes an asynchronous ingest.
CloudIngests ==
    /\ job = "accepted"
    /\ \/ job' = "completed" /\ stored' = TRUE /\ UNCHANGED failures
       \/ job' = "failed" /\ UNCHANGED stored /\ MayFail
    /\ UNCHANGED <<hostVars, disk, pc, memory, summary, crashes>>

\* What a process forgets when it ends, or a step when it is over.
ForgetStep ==
    /\ previous' = None /\ before' = None
    /\ path' = None /\ stat' = None /\ seen' = Unread /\ result' = {}
    /\ stored' = FALSE /\ job' = "none"

\* The files are written by os.replace: they are the old ones or the new ones.
Crash ==
    /\ pc \notin {"asleep", "killed"}
    /\ crashes < MaxCrashes
    /\ crashes' = crashes + 1
    /\ pc' = "killed"
    /\ step' = 1
    /\ ForgetStep
    /\ scanned' = {} /\ errors' = {} /\ code' = 0 /\ drifted' = FALSE
    /\ UNCHANGED <<hostVars, disk, failures>>

-----------------------------------------------------------------------------
(***************************************************************************)
(* The cycle.                                                              *)
(***************************************************************************)

\* The interval is over, cron starts the agent, or systemd restarts it.
Wake ==
    /\ pc \in {"asleep", "killed"}
    /\ pc' = "load"
    /\ scanned' = {} /\ errors' = {} /\ code' = 0 /\ drifted' = FALSE
    /\ UNCHANGED <<hostVars, disk, remote, memory, bounds>>

\* The next step, or the end of the cycle.
NextStep ==
    IF step < Len(Steps)
    THEN pc' = "load" /\ step' = step + 1
    ELSE pc' = "asleep" /\ step' = 1

\* summary.exit_code: 2 when a step failed.
ExitCode(worst, failed) == IF failed # {} THEN 2 ELSE worst

\* load_snapshot and _load_state.  A file that cannot be read, or parsed, is as
\* good as none: the step then establishes a new baseline.
Load ==
    /\ pc = "load"
    /\ \/ /\ previous' = latest[Current]
          /\ before' = IF Current = Fim THEN baseline ELSE None
          /\ UNCHANGED failures
       \/ /\ MayFail
          /\ \/ previous' = None /\ before' = IF Current = Fim THEN baseline ELSE None
             \/ previous' = latest[Current] /\ before' = None
    /\ pc' = IF Current = Fim THEN "exists" ELSE "scan"
    /\ UNCHANGED <<hostVars, disk, remote, step, path, stat, seen, result, summary, crashes>>

\* _record, first read: is there a file?
Exists ==
    /\ pc = "exists"
    /\ \E p \in {q \in Paths : seen[q] = None} :
         IF host[p] = Absent
         THEN /\ seen' = [seen EXCEPT ![p] = Absent]
              /\ UNCHANGED <<pc, path>>
         ELSE /\ path' = p
              /\ pc' = "stat"
              /\ UNCHANGED seen
    /\ UNCHANGED <<hostVars, disk, remote, step, previous, before, stat, result, summary, bounds>>

\* Second read: _stat_sig.
Stat ==
    /\ pc = "stat"
    /\ stat' = IF host[path] = Absent THEN None ELSE host[path].mode
    /\ pc' = "hash"
    /\ UNCHANGED <<hostVars, disk, remote, step, previous, before, path, seen, result, summary, bounds>>

\* Third read: _hash_file; the hash of a directory also covers the entries of it
\* that could not be read.
Hash ==
    /\ pc = "hash"
    /\ LET file == host[path]
           hash == IF file = Absent THEN None ELSE IF file.readable THEN file.content ELSE None
       IN  seen' = [seen EXCEPT ![path] = [mode |-> stat, hash |-> hash]]
    /\ path' = None /\ stat' = None
    /\ pc' = "exists"
    /\ UNCHANGED <<hostVars, disk, remote, step, previous, before, result, summary, bounds>>

\* Every path is read: the findings of the integrity step.
Assess ==
    /\ pc = "exists"
    /\ \A p \in Paths : seen[p] # None
    /\ result' = Compare(before, seen)
    /\ pc' = "archive"
    /\ UNCHANGED <<hostVars, disk, remote, step, previous, before, path, stat, seen, summary, bounds>>

Scan ==
    /\ pc = "scan"
    /\ result' = issues[Current]
    /\ pc' = "archive"
    /\ UNCHANGED <<hostVars, disk, remote, step, previous, before, path, stat, seen, summary, bounds>>

\* The archived snapshot, which nothing reads.
Archive ==
    /\ pc = "archive"
    /\ pc' = IF Pushing THEN "push" ELSE "latest"
    /\ UNCHANGED <<hostVars, disk, remote, memory, summary, bounds>>

\* Mutant: a scan that was accepted for later counts as pushed.
AcceptedIsPushed == "latest"

AfterAccepted == "poll"

\* push_result: stored at once, or accepted (202) to be ingested later.
Push ==
    /\ pc = "push"
    /\ \/ /\ stored' = TRUE
          /\ pc' = "latest"
          /\ UNCHANGED job
       \/ /\ job' = "accepted"
          /\ pc' = AfterAccepted
          /\ UNCHANGED stored
    /\ UNCHANGED <<hostVars, disk, memory, summary, bounds>>

\* The poll that sees the ingest completed.
Poll ==
    /\ pc = "poll"
    /\ job = "completed"
    /\ pc' = "latest"
    /\ UNCHANGED <<hostVars, disk, remote, memory, summary, bounds>>

\* The step is over and failed.
StepFails ==
    /\ errors' = errors \cup {Current}
    /\ code' = ExitCode(code, errors')
    /\ NextStep

\* PushError: the request or its answer was lost, the ingest failed, or polling
\* it took too long.  The cloud may have the result, now or later, all the same: it
\* is sent again in the next cycle.
PushFails ==
    /\ pc \in {"push", "poll"}
    /\ IF job = "failed" THEN UNCHANGED failures ELSE MayFail
    /\ StepFails
    /\ ForgetStep
    /\ UNCHANGED <<hostVars, disk, scanned, drifted, crashes>>

-----------------------------------------------------------------------------

SaveLatest ==
    /\ pc = "latest"
    /\ latest' = [latest EXCEPT ![Current] = result]
    /\ drifted' = (drifted \/ Drift(previous, result))
    /\ pc' = IF Current = Fim THEN "commit" ELSE "done"
    /\ UNCHANGED <<hostVars, baseline, remote, memory, scanned, errors, code, bounds>>

\* Mutant: commit_fn is not passed on.
KeptBaseline == baseline

NewBaseline == seen

\* fim_commit: save_integrity_state.
Commit ==
    /\ pc = "commit"
    /\ baseline' = NewBaseline
    /\ pc' = "done"
    /\ UNCHANGED <<hostVars, latest, remote, memory, summary, bounds>>

\* The step succeeded: its drift counts for the exit code.
StepDone ==
    /\ pc = "done"
    /\ scanned' = scanned \cup {Current}
    /\ code' = ExitCode(IF CycleDrift /\ code = 0 THEN 1 ELSE code, errors)
    /\ NextStep
    /\ ForgetStep
    /\ UNCHANGED <<hostVars, disk, errors, drifted, bounds>>

\* Any other exception: a target that cannot be resolved, a scan that raises, a
\* snapshot or baseline that cannot be written.  (The failure itself is pushed as a
\* finding of its own, once, whether or not that succeeds.)
Fail ==
    /\ pc \in {"load", "exists", "stat", "scan", "archive", "latest", "commit"}
    /\ MayFail
    /\ StepFails
    /\ ForgetStep
    /\ UNCHANGED <<hostVars, disk, scanned, drifted, crashes>>

Agent ==
    \/ Wake \/ Load \/ Exists \/ Stat \/ Hash \/ Assess \/ Scan
    \/ Archive \/ Push \/ Poll \/ PushFails
    \/ SaveLatest \/ Commit \/ StepDone \/ Fail

Next == Agent \/ CloudIngests \/ HostChanges \/ Crash

\* The agent and the cloud keep going.
Fairness == WF_vars(Agent) /\ WF_vars(CloudIngests)

Spec == Init /\ [][Next]_vars /\ Fairness

-----------------------------------------------------------------------------
(***************************************************************************)
(* Properties.                                                             *)
(***************************************************************************)

\* Type invariant.
TypeOK ==
    /\ host \in [Paths -> File \cup {Absent}]
    /\ issues \in [Targets -> Results]
    /\ baseline = None \/ baseline \in [Paths -> Record \cup {Absent}]
    /\ latest \in [Range(Steps) -> {None} \cup SUBSET Findings]
    /\ job \in {"none", "accepted", "completed", "failed"} /\ stored \in BOOLEAN
    /\ pc \in {"asleep", "killed", "load", "exists", "stat", "hash", "scan",
               "archive", "push", "poll", "latest", "commit", "done"}
    /\ step \in DOMAIN Steps
    /\ result \in SUBSET Findings
    /\ path \in Paths \cup {None} /\ stat \in Modes \cup {None}
    /\ seen \in [Paths -> Record \cup {Absent, None}]
    /\ scanned \subseteq Range(Steps) /\ errors \subseteq Range(Steps)
    /\ code \in 0..2 /\ drifted \in BOOLEAN
    /\ changes \in 0..MaxChanges /\ failures \in 0..MaxFailures /\ crashes \in 0..MaxCrashes

\* "If the push fails the snapshot is not advanced": latest.json and the integrity
\* baseline take in nothing the cloud has not stored.
PushedBeforeSaved ==
    [][Pushing /\ (latest' # latest \/ baseline' # baseline) => stored]_vars

\* A field of a record that could not be read.
Lacks(record, field) == record # Absent /\ record[field] = None

\* "A failed upload does not swallow a change": the integrity baseline moves from
\* one record of a path to another only in a step that reported on the path.  A
\* path that was unreadable has been reported before, in every cycle it was; a
\* change of mode alone is not seen when the mode could not be read.
NothingSwallowed ==
    [][\A p \in Paths :
         (before # None /\ baseline' # baseline /\ baseline'[p] # baseline[p]) =>
            \/ \E f \in result : f.at = p
            \/ Lacks(baseline[p], "hash")
            \/ Lacks(baseline[p], "mode") \/ Lacks(baseline'[p], "mode")]_vars

\* "Exit non-zero when new/changed findings meet this severity": a finding that
\* latest.json takes in is not lost for the exit code, whatever fails after that.
DriftSignalled == pc = "asleep" /\ drifted => code > 0

\* The integrity baseline catches up with the files once they stop changing, so
\* that (NothingSwallowed) every change that lasts is reported in the end.
Recorded(p) ==
    IF host[p] = Absent THEN baseline[p] = Absent
    ELSE baseline[p] # Absent
         /\ baseline[p].mode = host[p].mode
         /\ baseline[p].hash = IF host[p].readable THEN host[p].content ELSE None

CatchesUp == <>[](baseline # None /\ \A p \in Paths : Recorded(p))

=============================================================================
