-------------------------------- MODULE Triage --------------------------------
(***************************************************************************)
(* The commands that decide whether a project passes: scan, import, policy *)
(* check, baseline create and the check of a web site (cli/commands,       *)
(* cli/_common.py).  Each reads what is there when it runs (the code, the  *)
(* settings and exceptions in the tree, a baseline, the reports of other   *)
(* tools, the state of the tracked secrets, the date), filters and merges  *)
(* the findings, and answers with an exit status.                          *)
(*                                                                         *)
(* One command is one step; what matters is what one leaves for the next,  *)
(* and what changes between them.  A finding's fingerprint is its rule and *)
(* its file: the text a rule flags in a file is taken to be one text.      *)
(***************************************************************************)
EXTENDS SarifImport

CONSTANTS
    Scanners,       \* the scanners that run, in the order they are selected (a sequence)
    Problems,       \* what they can find: findings of FindingPipeline
    ProfileScanners,    \* the scanners of each --profile
    Commands,       \* the command lines in use: records, see Plain in the MC module
    Trees,          \* the settings and comments a tree may hold
    RefSettings,    \* the settings at the ref that --config-from-ref names
    Entries,        \* the exceptions that may be added
    MaxDay,         \* the last day
    MaxEntries,     \* the exceptions of a tree
    MaxResults,     \* MAX_RESULTS
    Broken,         \* a --diff range that git cannot answer for
    NoRun           \* no command has just run

\* What a scanner reports.
IsFinding(f) ==
    /\ {"scanner", "file", "rule", "cwe", "line", "severity", "original", "confidence"} \subseteq DOMAIN f
    /\ f.line \in Nat /\ f.rule \in Int /\ f.confidence \in Int
    /\ f.severity \in Severities /\ f.original = f.severity

\* A baseline is made of what a scan finds, never less another baseline.
IsCommand(o) ==
    /\ o.cmd = "baseline" => ~o.baseline
    /\ {o.failOn, o.minSeverity} \subseteq Severities \cup {None}
    /\ \A f \in o.probed : f.severity \in Severities
    /\ IsSeq(o.files) /\ \A file \in ToSet(o.files) : IsLog(file)

IsSettings(s) ==
    s \in [failOn : Severities \cup {None}, minSeverity : Severities, failOnError : {"yes", "no", None},
           allow : {s.allow}, exclude : {s.exclude}, policies : {s.policies}]

ASSUME ProblemsAssumption ==
    IsFiniteSet(Problems) /\ (\A f \in Problems : IsFinding(f)) /\ IsSeq(Scanners)

ASSUME CommandsAssumption ==
    /\ \A o \in Commands : IsCommand(o)
    /\ \A s \in {RefSettings} \cup {t.settings : t \in Trees} : IsSettings(s)
    /\ \A entry \in Entries : entry.until \in Nat \cup {None}
    /\ None \notin Nat

VARIABLES
    today,          \* the date
    code,           \* the problems that are in the code
    working,        \* the secrets that the provider accepts, by fingerprint
    tree,           \* [settings, comments]: what the tree says of its own findings
    exceptions,     \* .nephilex/exceptions.yml: a sequence
    baseline,       \* the fingerprints of the baseline report, or None (there is none)
    rotation,       \* the tracked secrets: fingerprint -> the day it was first live
    last            \* the command that has just run and what it answered, or NoRun

project == <<code, working, tree, exceptions>>
vars == <<today, project, baseline, rotation, last>>

Fingerprint(f) == <<f.rule, f.file>>

Fingerprints(F) == {Fingerprint(f) : f \in F}

-----------------------------------------------------------------------------
(***************************************************************************)
(* The configuration of a command.                                         *)
(***************************************************************************)
Defaults ==
    [failOn |-> None, minSeverity |-> Info, failOnError |-> None, allow |-> {}, exclude |-> {},
     policies |-> {}]

\* Mutant: settings that come from a ref leave the tree trusted.
TrustedAsPlaced(o) == o.place = "local" \/ o.trustRemote

\* A tree is trusted when it is the user's own, or when the user says so; never when the
\* settings come from a ref.
Trusted(o) == ~o.fromRef /\ (o.place = "local" \/ o.trustRemote)

SettingsOf(o, t) ==
    IF o.fromRef THEN RefSettings ELSE IF Trusted(o) THEN t.settings ELSE Defaults

Strict(profile) == profile \in {"ci", "production"}

\* An explicit flag wins over the profile, and the profile over the settings.
Configured(o, t) ==
    LET s == SettingsOf(o, t)
        errors == IF Strict(o.profile) THEN "yes" ELSE s.failOnError
    IN  [s EXCEPT !.failOn = FirstGiven(o.failOn, s.failOn),
                  !.minSeverity = FirstGiven(o.minSeverity, s.minSeverity),
                  !.failOnError = FirstGiven(o.failOnError, errors)]

\* What the command line alone, or a file it names, makes wrong: exit status 2.
Mistaken(o, t) ==
    \/ o.fromRef /\ o.trustRemote
    \/ o.verify /\ o.place # "local"
    \/ o.profile # None /\ o.scanners # None
    \/ o.place = "site" /\ (o.files # <<>> \/ o.cmd # "scan")
    \/ o.cmd = "policy" /\ Configured(o, t).policies = {}
    \/ ~CanImport(o.files, MaxResults)

-----------------------------------------------------------------------------
(***************************************************************************)
(* Exceptions.                                                             *)
(***************************************************************************)
\* Mutant: an entry holds whatever its date.
NeverExpires(entry, day) == TRUE

Unexpired(entry, day) == entry.until = None \/ entry.until >= day

\* The last entry of a fingerprint that has not expired.
Active(entries, day) ==
    LET Rules(i) == Unexpired(entries[i], day)
        Later(i) == \E k \in (i + 1)..Len(entries) :
                        Rules(k) /\ entries[k].rule = entries[i].rule /\ entries[k].file = entries[i].file
    IN  {[rule |-> entries[i].rule, file |-> entries[i].file, status |-> entries[i].status] :
             i \in {k \in DOMAIN entries : Rules(k) /\ ~Later(k)}}

-----------------------------------------------------------------------------
(***************************************************************************)
(* The findings of a command.                                              *)
(***************************************************************************)
\* o.failed are the scanners that crash: they report nothing, which is an error.
Selected(o) ==
    IF o.scanners # None THEN o.scanners
    ELSE IF o.profile # None THEN ProfileScanners[o.profile]
    ELSE ToSet(Scanners)

Ran(o) == (ToSet(Scanners) \cap Selected(o)) \ o.failed

Errors(o) == o.failed # {}

ScannerPosition == [s \in ToSet(Scanners) |-> CHOOSE i \in DOMAIN Scanners : Scanners[i] = s]

\* The provider's answer about a secret: none without --verify-secrets.
Verdict(o, f) ==
    IF f.scanner # Secrets \/ ~o.verify THEN None
    ELSE IF ~o.network THEN "unknown"
    ELSE IF Fingerprint(f) \in working THEN "live"
    ELSE "invalid"

Rated(f, severity) == [f EXCEPT !.severity = severity, !.original = severity]

Verified(o, f) ==
    CASE Verdict(o, f) = "live" -> Rated(f, Critical)
      [] Verdict(o, f) = "invalid" -> Rated(f, Greatest(Low, f.severity - 1))
      [] OTHER -> f

\* A check of files looks at the files it is given, everything else at all.
Detected(o) ==
    {Verified(o, f) : f \in {g \in code : g.scanner \in Ran(o) /\ o.paths \in {None, {g.file}}}}

Comments(t) == [file \in {f.file : f \in Problems} |-> {c \in t.comments : c.file = file}]

\* The pipeline's view of the configuration.
Pipeline(o, t, entries) ==
    LET c == Configured(o, t)
    IN  [trusted |-> Trusted(o), allow |-> c.allow, minSeverity |-> c.minSeverity, failOn |-> c.failOn,
         failOnError |-> c.failOnError, exceptions |-> Active(entries, today)]

\* What the imported files give, for the files that the commands name.
FilesFound == [files \in {o.files : o \in Commands} |-> ImportAll(files)]

Excluded(o, t, f) == f.file \in Configured(o, t).exclude

Importance(f) == <<f.severity, f.confidence, f.line, f.rule>>

LeastImportant(F) == CHOOSE f \in F : \A g \in F : ~Above(Importance(f), Importance(g))

\* The most important first.
ByImportance(F) ==
    LET sorted[S \in SUBSET F] ==
            IF S = {} THEN <<>>
            ELSE LET f == LeastImportant(S) IN Append(sorted[S \ {f}], f)
    IN  sorted[F]

\* The findings of the scan itself.
Scanned(o, t, entries) ==
    LET F == {f \in Detected(o) : ~Excluded(o, t, f)}
    IN  ByImportance(Finish(Pipeline(o, t, entries), None, F, Ran(o), Comments(t), ScannerPosition).findings)

\* Imported findings go through what a scan's findings go through, but are folded into
\* those of the scan where de-duplication comes.
Imports(o, t) == {f \in ToSet(FilesFound[o.files]) : ~Excluded(o, t, f)}

OpenImports(c, t, F) ==
    Unlisted(c, Uncommented(c, F, [file \in {f.file : f \in F} |-> {m \in t.comments : m.file = file}]))

\* The first n of the merged findings are those of the scan.
Together(c, F, open, merged, n) ==
    {merged[i] : i \in 1..n}
        \cup Complete(c, None, F, open, {merged[i] : i \in DOMAIN merged \ 1..n}).findings

\* Of the imported findings, a sequence, those of the set F count.
Combine(c, t, native, imported, F) ==
    LET open == OpenImports(c, t, F)
    IN  Together(c, F, open, MergeFindings(native, imported, open), Len(native))

Combined(o, t, entries) ==
    Combine(Pipeline(o, t, entries), t,
            IF o.cmd = "import" THEN <<>> ELSE Scanned(o, t, entries), FilesFound[o.files], Imports(o, t))

AfterBaseline(o, F) ==
    IF o.baseline /\ baseline # None THEN {f \in F : Fingerprint(f) \notin baseline} ELSE F

\* o.diff is None, Broken (no repository, an unknown ref), or the changed places: a set
\* of <<file, line>>, in which a file without a line counts at any line.
InDiff(f, scope) ==
    IF f.line = NoLine THEN \E place \in scope : place[1] = f.file ELSE <<f.file, f.line>> \in scope

AfterDiff(o, F) ==
    IF o.diff \in {None, Broken} THEN F ELSE {f \in F : InDiff(f, o.diff)}

\* A probe of a running site reports beside the scan, whatever the severity filter.
Site(o) == {f \in o.probed : o.minSeverity # None => f.severity >= o.minSeverity}

Report(o, t, entries) ==
    IF o.place = "site" THEN Site(o)
    ELSE AfterDiff(o, AfterBaseline(o, Combined(o, t, entries) \cup o.probed))

-----------------------------------------------------------------------------
(***************************************************************************)
(* The gates.                                                              *)
(***************************************************************************)
\* Mutant: a policy matches what is above its severity.
MatchesAbove(f, policy) == f.severity > policy.severity /\ Names(policy.scanner, f.scanner)

\* A policy is a record [severity, scanner, action]; scanner may be Wildcard.
Matches(f, policy) == f.severity >= policy.severity /\ Names(policy.scanner, f.scanner)

Blocked(policies, F) == \E p \in policies : p.action = "block" /\ \E f \in F : Matches(f, p)

\* A policy check always gates, so errors fail it unless the settings say otherwise.
PolicyFails(c, F, errors) ==
    (errors /\ c.failOnError \in {None, "yes"}) \/ Blocked(c.policies, F)

\* A check of files always gates as well, at HIGH if nothing else is said.
CheckFails(c, F, errors) ==
    (errors /\ c.failOnError \in {None, "yes"}) \/ \E f \in F : f.severity >= FirstGiven(c.failOn, HighSeverity)

Fails(o, t, F) ==
    LET c == Configured(o, t)
    IN  CASE o.cmd = "policy" -> PolicyFails(c, F, Errors(o))
          [] o.cmd = "check" -> CheckFails([c EXCEPT !.failOn = o.failOn], F, Errors(o))
          [] o.cmd = "baseline" -> FALSE
          [] o.place = "site" -> o.failOn # None /\ Highest(F) >= o.failOn
          [] OTHER -> ShouldFail(c, F, Errors(o))

ExitStatus(o, t, F) == IF Fails(o, t, F) THEN 1 ELSE 0

-----------------------------------------------------------------------------
(***************************************************************************)
(* Secrets that stay live.                                                 *)
(***************************************************************************)
\* The state a finding has when the pipeline is done with it: a verdict that is not one
\* of its own states gives way to one.
StateOf(verdict) ==
    IF verdict \in {"verified", "confirmed", "fixed", "accepted", "false_positive", "likely", "detected"}
    THEN verdict ELSE "confirmed"

LiveIn(o, F) == {Fingerprint(f) : f \in {g \in F : g.scanner = Secrets /\ StateOf(Verdict(o, g)) = "live"}}

Tracked(live) ==
    [p \in live |-> IF p \in DOMAIN rotation THEN rotation[p] ELSE today]

-----------------------------------------------------------------------------
(***************************************************************************)
(* The steps.                                                              *)
(***************************************************************************)
Init ==
    /\ today = 0
    /\ code \in SUBSET Problems
    /\ working = {Fingerprint(f) : f \in {g \in Problems : g.scanner = Secrets}}
    /\ tree \in Trees
    /\ exceptions = <<>>
    /\ baseline = None
    /\ rotation = <<>>
    /\ last = NoRun

Outcome(o, status, findings) == [command |-> o, status |-> status, findings |-> findings]

\* A mistake is told before anything is scanned or written.
Refuse(o) ==
    /\ last = NoRun /\ Mistaken(o, tree)
    /\ last' = Outcome(o, 2, {})
    /\ UNCHANGED <<today, project, baseline, rotation>>

Answer(o, F) ==
    /\ last' = Outcome(o, ExitStatus(o, tree, F), F)
    /\ baseline' = IF o.cmd = "baseline" THEN Fingerprints(F) ELSE baseline
    /\ rotation' = IF o.track THEN Tracked(LiveIn(o, F)) ELSE rotation
    /\ UNCHANGED <<today, project>>

Run(o) ==
    /\ last = NoRun /\ ~Mistaken(o, tree)
    /\ Answer(o, Report(o, tree, exceptions))

\* The code changes by one problem that comes or goes.
Develop(f) ==
    /\ last = NoRun
    /\ code' = IF f \in code THEN code \ {f} ELSE code \cup {f}
    /\ UNCHANGED <<today, working, tree, exceptions, baseline, rotation, last>>

\* Someone revokes a secret at its provider.
Revoke(p) ==
    /\ last = NoRun
    /\ working' = working \ {p}
    /\ UNCHANGED <<today, code, tree, exceptions, baseline, rotation, last>>

AddException(entry) ==
    /\ last = NoRun
    /\ Len(exceptions) < MaxEntries
    /\ exceptions' = Append(exceptions, entry)
    /\ UNCHANGED <<today, code, working, tree, baseline, rotation, last>>

\* The user has read the answer: what changes, and what runs next, comes after it.
Proceed ==
    /\ last # NoRun
    /\ last' = NoRun
    /\ UNCHANGED <<today, project, baseline, rotation>>

NextDay ==
    /\ last = NoRun
    /\ today < MaxDay
    /\ today' = today + 1
    /\ UNCHANGED <<project, baseline, rotation, last>>

Next ==
    \/ \E o \in Commands : Refuse(o) \/ Run(o)
    \/ \E f \in Problems : Develop(f)
    \/ \E p \in working : Revoke(p)
    \/ \E entry \in Entries : AddException(entry)
    \/ Proceed \/ NextDay

Spec == Init /\ [][Next]_vars

-----------------------------------------------------------------------------
(***************************************************************************)
(* Properties.                                                             *)
(***************************************************************************)
Answered(statuses) == last # NoRun /\ last.status \in statuses

\* Why a problem may be missing from a report: the settings, an entry that has not
\* expired, the baseline or the range of the command.
Excused(o, f) ==
    LET c == Configured(o, tree)
    IN  \/ Excluded(o, tree, f)
        \/ Trusted(o) /\ Commented(f, [file \in {f.file} |-> {m \in tree.comments : m.file = file}])
        \/ Allowed(f, c.allow)
        \/ f.severity < c.minSeverity
        \/ Trusted(o) /\ \E i \in DOMAIN exceptions :
               /\ exceptions[i].rule = f.rule /\ exceptions[i].file = f.file
               /\ exceptions[i].status = "suppress" /\ exceptions[i].until \notin 0..(today - 1)
        \/ o.baseline /\ baseline # None /\ Fingerprint(f) \in baseline
        \/ o.diff \notin {None, Broken} /\ ~InDiff(f, o.diff)

\* One finding stands for another: it is about the same weakness, and so are findings of F
\* all the way from the one to the other.  (Findings are folded neighbour by neighbour.)
Linked(f, g, F) ==
    /\ f.file = g.file /\ f.cwe = g.cwe
    /\ \A n \in Least(f.line, g.line)..(Greatest(f.line, g.line) - 1) :
           \E h \in F : h.file = f.file /\ h.cwe = f.cwe /\ h.line \in (n + 1)..(n + Window)

\* What a command looks at: the problems in the code, and the results it imports.
Natives(o) == IF o.cmd = "import" THEN {} ELSE Detected(o)

AllRepresented(o, native, imported) ==
    LET F == native \cup imported
        Open(f) == f.scanner = Regex /\ f.cwe \in Owned /\ Ast \in Ran(o)
        Shows(f, g) == Linked(f, g, F) /\ (f \in imported => g.severity >= f.severity)
    IN  \A f \in F :
            \/ Excused(o, f) \/ Open(f)
            \/ \E g \in last.findings : Shows(f, g)
            \/ \E g \in F \ {f} : Linked(f, g, F) /\ Excused(o, g)

\* A problem that the scan finds or another tool reports is in the report, or excused, or
\* what it was folded into is; a report from another tool never loses severity on the way.
\* (engine._finish, merge_findings, apply_exceptions, apply_baseline, apply_diff)
Represented ==
    Answered({0, 1}) /\ last.command.place # "site" =>
        AllRepresented(last.command, Natives(last.command), ToSet(FilesFound[last.command.files]))

FileAccounted(file, own, found) ==
    /\ \A f \in ToSet(own) :
           \E g \in ToSet(found) : g.scanner = f.scanner /\ g.rule = f.rule /\ g.file = f.file
    /\ Len(own) + Cardinality(Left(file)) = ResultCount(file)

AllAccounted(files, found) ==
    /\ \A i \in DOMAIN found : Up \notin ToSet(found[i].file) /\ found[i].file # <<>>
    /\ \A i \in DOMAIN files : FileAccounted(files[i], FileFindings(files[i]), found)

\* Each result of an imported file is a finding, or one of those that are left out (it is
\* no problem, absent, suppressed, or lies outside the project), or repeats a result that
\* is a finding; and no finding lies outside the project.  (import_sarif, PathResolver)
ImportAccounted ==
    Answered({0, 1}) => AllAccounted(last.command.files, FilesFound[last.command.files])

\* The same findings pass or fail alike: a scan with --fail-on fails exactly when a check
\* of the policy that blocks that severity does, and a check of the files.
\* (should_fail, policy/engine.py, cli/commands/check.py)
GatesAgree ==
    Answered({0, 1}) /\ last.command.place # "site" =>
        \A s \in Low..Critical :
            LET c == [Configured(last.command, tree) EXCEPT !.failOn = s,
                        !.policies = {[severity |-> s, scanner |-> Wildcard, action |-> "block"]}]
            IN  \A errors \in BOOLEAN :
                    /\ ShouldFail(c, last.findings, errors) = PolicyFails(c, last.findings, errors)
                    /\ ShouldFail(c, last.findings, errors) = CheckFails(c, last.findings, errors)

\* A tree that is not trusted has no say: what it holds changes neither the report nor
\* the answer.  (load_project_config)
TreeHasNoSay ==
    Answered({0, 1, 2}) /\ (last.command.fromRef \/ (last.command.place = "remote" /\ ~last.command.trustRemote)) =>
        \A t \in Trees :
            LET o == last.command
                F == Report(o, t, <<>>)
            IN  last = IF Mistaken(o, t) THEN Outcome(o, 2, {}) ELSE Outcome(o, ExitStatus(o, t, F), F)

\* A secret that a tracking scan reports as live is tracked from then on, so that a later
\* scan can tell how long it has been.  (track_rotations, assign_verification_state)
LiveSecretsTracked ==
    Answered({0, 1}) /\ last.command.track =>
        \A f \in last.findings : Verdict(last.command, f) = "live" => Fingerprint(f) \in DOMAIN rotation
=============================================================================
