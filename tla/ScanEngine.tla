------------------------------ MODULE ScanEngine ------------------------------
(***************************************************************************)
(* `nephilex scan`: ScanEngine.scan (core/engine.py) over a project whose  *)
(* files may change meanwhile (core/project.py), with the scan cache that  *)
(* all scans of the project share (core/cache.py).                         *)
(*                                                                         *)
(* Each run is a process.  It walks the project and loads the cache, runs  *)
(* its scanners in parallel threads, saves the cache by replacing the      *)
(* cache file, and finishes: see FindingPipeline.  A thread of a cached    *)
(* scanner first reads every file and looks it up, and later scans the     *)
(* files it missed; a file is opened once more then, to tell binary files. *)
(***************************************************************************)
EXTENDS FindingPipeline

CONSTANTS
    Runs,                  \* the scans
    Scanners,              \* the scanners of the registry
    FileLocal,             \* those with file_local
    ContextReaders,        \* those whose analysis reads the project context
    Files,
    Texts,                 \* what a file may hold
    Empty,                 \* the empty text; what an unreadable file reads as
    Gone,                  \* the file is not there
    Unread,                \* the text of a file that a run has not read yet
    Configs,               \* the configurations a scan may be started with
    Reports(_, _, _, _, _, _), \* (code, scanner, options, sanitizers, ast, text): its findings
    Comments(_),           \* the nephilex-ignore comments in a text
    MaxVersion,            \* bound: upgrades of the installed code
    MaxEdits,              \* bound: changes of files
    MaxFaults              \* bound: scanner crashes, failed saves and killed runs

ASSUME ScanAssumption ==
    /\ Empty \in Texts /\ Gone \notin Texts /\ Unread \notin Texts
    /\ IsFiniteSet(Scanners) /\ IsFiniteSet(Files) /\ FileLocal \subseteq Scanners
    /\ ContextReaders \subseteq Scanners
    /\ MaxVersion \in Nat /\ MaxEdits \in Nat /\ MaxFaults \in Nat
    /\ \A c \in Configs : c.scanners \in Seq(Scanners)

\* min_severity, fail_on and fail_on_error; the last two may be unset.
ASSUME ConfigAssumption ==
    \A c \in Configs :
        /\ c.minSeverity \in Severities /\ c.failOn \in Severities \cup {None}
        /\ c.failOnError \in {None, "yes", "no"}

\* A chain is no scanner's finding, and no injection.
ASSUME ChainAssumption ==
    /\ ChainScanner \notin Scanners \cup {Secrets}
    /\ NoCwe \notin InjectionCwes

VARIABLES
    disk,       \* the files of the project
    store,      \* the cache file
    version,    \* the installed code
    pc,         \* where each run stands
    config,     \* the configuration of each run
    code,       \* the code it was started with
    listed,     \* the files it walked
    text,       \* FileRef._text: the text it read of each file
    memory,     \* ScanCache._entries
    dirty,      \* ScanCache._dirty
    worker,     \* the state of each scanner
    missed,     \* the files that the cache did not have
    found,      \* the findings of each scanner, as pairs of file and issue
    result,     \* what the run reported
    vanished,   \* the files that were away at some time
    edits,      \* changes of files so far
    faults      \* faults so far

project == <<disk, version, vanished, edits>>
progress == <<text, memory, dirty, worker, missed, found>>
start == <<config, code, listed>>
vars == <<project, store, pc, start, progress, result, faults>>

-----------------------------------------------------------------------------
(***************************************************************************)
(* The configuration of a run.                                             *)
(***************************************************************************)

\* The AST tier needs its parser; elsewhere a scanner applies to the project.
Selected(c) == {s \in ToSet(c.scanners) : s = Ast => c.parser}

\* _ast_scanner_selected: the regex tier leaves some rules to a tier that runs.
AstRunning(c) == c.parser /\ Ast \in ToSet(c.scanners)

Position(c) == [s \in ToSet(c.scanners) |-> CHOOSE i \in DOMAIN c.scanners : c.scanners[i] = s]

\* The context comes with the configuration, or from a trusted tree.
ContextOf(c) ==
    IF c.context # None THEN c.context ELSE IF c.trusted THEN c.treeContext ELSE None

Sanitizers(c, s) ==
    IF s \in ContextReaders /\ ContextOf(c) # None THEN ContextOf(c).sanitizers ELSE None

Cached(c, s) == c.cache /\ s \in FileLocal \ c.uncacheable

\* What scanner s of run r says about a text.
Detected(r, s, t) ==
    Reports(code[r], s, config[r].options[s], Sanitizers(config[r], s), AstRunning(config[r]), t)

\* A scanner makes finitely many findings of a text; rules, lines, confidences and
\* severities compare like numbers.
ASSUME ReportsAssumption ==
    \A v \in 0..MaxVersion, c \in Configs, ast \in BOOLEAN, t \in Texts :
        \A s \in Selected(c) :
            LET issues == Reports(v, s, c.options[s], Sanitizers(c, s), ast, t)
            IN  /\ IsFiniteSet(issues)
                /\ \A i \in issues : /\ i.rule \in Nat /\ i.line \in Nat /\ i.confidence \in Nat
                                     /\ i.severity \in Severities

-----------------------------------------------------------------------------
(***************************************************************************)
(* The cache.  An entry is keyed by the scanner with its options           *)
(* (scanner_key) and the path with the text (file_key).                    *)
(***************************************************************************)
\* Mutant: the key leaves out the sanitizers of the project context.
ScannerKeyOfOptions(c, s) == <<s, c.options[s], None>>

ScannerKey(c, s) == <<s, c.options[s], Sanitizers(c, s)>>

FileKey(f, t) == <<f, t>>

\* Mutant: the version of the cache file is not compared.
LoadedAny(v) == store.entries

Loaded(v) == IF store.code = v THEN store.entries ELSE {}

Lookup(entries, skey, fkey) == {e \in entries : e.scanner = skey /\ e.file = fkey}

Stored(skey, fkey, issues) == [scanner |-> skey, file |-> fkey, issues |-> issues]

\* store replaces the entry of its key; prune drops what is not a live file.
Updated(entries, skey, new, live) ==
    {e \in entries \cup new :
        e.scanner = skey => e \in new \/ (e.file \in live /\ \A n \in new : n.file # e.file)}

\* FileRef.text, for the files fs: read once, and empty when that fails.
ReadTexts(r, fs) ==
    [f \in Files |->
        IF f \in fs /\ text[r][f] = Unread
        THEN IF disk[f] = Gone THEN Empty ELSE disk[f]
        ELSE text[r][f]]

-----------------------------------------------------------------------------
Idle == [s \in Scanners |-> "out"]

Init ==
    /\ disk \in [Files -> Texts \cup {Gone}]
    /\ store = [code |-> 0, entries |-> {}]
    /\ version = 0
    /\ pc = [r \in Runs |-> "idle"]
    /\ config = [r \in Runs |-> None]
    /\ code = [r \in Runs |-> 0]
    /\ listed = [r \in Runs |-> {}]
    /\ text = [r \in Runs |-> [f \in Files |-> Unread]]
    /\ memory = [r \in Runs |-> {}]
    /\ dirty = [r \in Runs |-> FALSE]
    /\ worker = [r \in Runs |-> Idle]
    /\ missed = [r \in Runs |-> [s \in Scanners |-> {}]]
    /\ found = [r \in Runs |-> [s \in Scanners |-> {}]]
    /\ result = [r \in Runs |-> None]
    /\ vanished = {f \in Files : disk[f] = Gone}
    /\ edits = 0 /\ faults = 0

\* The scan starts: it walks the files, asks each scanner whether it applies, and
\* opens the cache.  A scanner whose check crashes has failed; a cache file that
\* cannot be read is an empty one.  Nephilex may have been upgraded before.
Start(r) ==
    /\ pc[r] = "idle"
    /\ version' \in version..MaxVersion
    /\ \E c \in Configs, broken \in SUBSET Scanners, unreadable \in SUBSET {r} :
          /\ Selected(c) # {} /\ broken \subseteq Selected(c)
          /\ faults' = faults + Cardinality(broken) + Cardinality(unreadable)
          /\ faults' <= MaxFaults
          /\ pc' = [pc EXCEPT ![r] = "scanning"]
          /\ config' = [config EXCEPT ![r] = c]
          /\ worker' = [worker EXCEPT ![r] =
                [s \in Scanners |-> IF s \in broken THEN "failed"
                                    ELSE IF s \in Selected(c) THEN "ready" ELSE "out"]]
          /\ memory' = [memory EXCEPT ![r] = IF c.cache /\ unreadable = {} THEN Loaded(version') ELSE {}]
    /\ code' = [code EXCEPT ![r] = version']
    /\ listed' = [listed EXCEPT ![r] = {f \in Files : disk[f] # Gone}]
    /\ UNCHANGED <<disk, vanished, edits, store, text, dirty, missed, found, result>>

\* _scan_cached up to the scan: key every file by its text and look it up.
LookUp(r, s) ==
    LET texts == ReadTexts(r, listed[r])
        Hits(f) == Lookup(memory[r], ScannerKey(config[r], s), FileKey(f, texts[f]))
    IN  /\ pc[r] = "scanning" /\ worker[r][s] = "ready" /\ Cached(config[r], s)
        /\ text' = [text EXCEPT ![r] = texts]
        /\ missed' = [missed EXCEPT ![r][s] = {f \in listed[r] : Hits(f) = {}}]
        /\ found' = [found EXCEPT ![r][s] =
              UNION {{<<f, i>> : i \in UNION {e.issues : e \in Hits(f)}} : f \in listed[r]}]
        /\ worker' = [worker EXCEPT ![r][s] = "looked"]
        /\ UNCHANGED <<project, store, pc, start, memory, dirty, result, faults>>

\* What a scanner reports on the files fs: one that cannot be opened to tell
\* whether it is binary is passed over.
Scanned(r, s, fs, texts) ==
    UNION {{<<f, i>> : i \in Detected(r, s, texts[f])} : f \in {g \in fs : disk[g] # Gone}}

\* _scan_cached from the scan of the missed files on: store, then prune.
ScanMissed(r, s) ==
    LET fresh == Scanned(r, s, missed[r][s], text[r])
        skey == ScannerKey(config[r], s)
        live == {FileKey(f, text[r][f]) : f \in listed[r]}
        Of(f) == {p[2] : p \in {q \in fresh : q[1] = f}}
        new == {Stored(skey, FileKey(f, text[r][f]), Of(f)) : f \in missed[r][s]}
        entries == Updated(memory[r], skey, new, live)
    IN  /\ pc[r] = "scanning" /\ worker[r][s] = "looked"
        /\ found' = [found EXCEPT ![r][s] = @ \cup fresh]
        /\ memory' = [memory EXCEPT ![r] = entries]
        /\ dirty' = [dirty EXCEPT ![r] = @ \/ new # {} \/ memory[r] \ entries # {}]
        /\ worker' = [worker EXCEPT ![r][s] = "ok"]
        /\ UNCHANGED <<project, store, pc, start, text, missed, result, faults>>

\* A scan without the cache: the text is read when the scanner gets to the file.
ScanAll(r, s) ==
    LET texts == ReadTexts(r, {f \in listed[r] : disk[f] # Gone})
    IN  /\ pc[r] = "scanning" /\ worker[r][s] = "ready" /\ ~Cached(config[r], s)
        /\ text' = [text EXCEPT ![r] = texts]
        /\ found' = [found EXCEPT ![r][s] = Scanned(r, s, listed[r], texts)]
        /\ worker' = [worker EXCEPT ![r][s] = "ok"]
        /\ UNCHANGED <<project, store, pc, start, memory, dirty, missed, result, faults>>

\* The scanner raises somewhere in its scan: its findings are dropped and nothing
\* is stored.
ScannerFails(r, s) ==
    /\ pc[r] = "scanning" /\ faults < MaxFaults
    /\ worker[r][s] = IF Cached(config[r], s) THEN "looked" ELSE "ready"
    /\ Cached(config[r], s) => missed[r][s] # {}
    /\ \E fs \in SUBSET listed[r] : text' = [text EXCEPT ![r] = ReadTexts(r, fs)]
    /\ found' = [found EXCEPT ![r][s] = {}]
    /\ worker' = [worker EXCEPT ![r][s] = "failed"]
    /\ faults' = faults + 1
    /\ UNCHANGED <<project, store, pc, start, memory, dirty, missed, result>>

\* All threads have ended: ScanCache.save replaces the cache file, or fails and
\* leaves it.
Joined(r) == pc[r] = "scanning" /\ \A s \in Scanners : worker[r][s] \in {"out", "ok", "failed"}

Save(r) ==
    /\ Joined(r)
    /\ pc' = [pc EXCEPT ![r] = "saved"]
    /\ store' = IF config[r].cache /\ dirty[r]
                THEN [code |-> code[r], entries |-> memory[r]] ELSE store
    /\ UNCHANGED <<project, start, progress, result, faults>>

SaveFails(r) ==
    /\ Joined(r) /\ config[r].cache /\ dirty[r] /\ faults < MaxFaults
    /\ pc' = [pc EXCEPT ![r] = "saved"]
    /\ faults' = faults + 1
    /\ UNCHANGED <<project, store, start, progress, result>>
-----------------------------------------------------------------------------
Ran(r) == {s \in Scanners : worker[r][s] = "ok"}

Failed(r) == {s \in Scanners : worker[r][s] = "failed"}

Raw(r) == UNION {{FindingOf(s, p[1], p[2]) : p \in found[r][s]} : s \in Ran(r)}

CommentsOf(r) == [f \in Files |-> IF text[r][f] = Unread THEN {} ELSE Comments(text[r][f])]

\* _finish and the gate.
Report(r) ==
    LET c == config[r]
        out == Finish(c, ContextOf(c), Raw(r), Ran(r), CommentsOf(r), Position(c))
    IN  /\ pc[r] = "saved"
        /\ result' = [result EXCEPT ![r] =
              [findings |-> out.findings, audited |-> out.audited, failed |-> Failed(r),
               exit |-> IF ShouldFail(c, out.findings, Failed(r) # {}) THEN 1 ELSE 0]]
        /\ pc' = [pc EXCEPT ![r] = "done"]
        /\ memory' = [memory EXCEPT ![r] = {}]
        /\ UNCHANGED <<project, store, start, text, dirty, worker, missed, found, faults>>

\* The process is killed; all it held is lost.
Die(r) ==
    /\ pc[r] \in {"scanning", "saved"} /\ faults < MaxFaults
    /\ pc' = [pc EXCEPT ![r] = "dead"]
    /\ worker' = [worker EXCEPT ![r] = Idle]
    /\ text' = [text EXCEPT ![r] = [f \in Files |-> Unread]]
    /\ memory' = [memory EXCEPT ![r] = {}]
    /\ dirty' = [dirty EXCEPT ![r] = FALSE]
    /\ missed' = [missed EXCEPT ![r] = [s \in Scanners |-> {}]]
    /\ found' = [found EXCEPT ![r] = [s \in Scanners |-> {}]]
    /\ faults' = faults + 1
    /\ UNCHANGED <<project, store, start, result>>

\* The files change while scans run; a file may be away for a moment.
Edit(f) ==
    /\ edits < MaxEdits
    /\ \E t \in (Texts \cup {Gone}) \ {disk[f]} :
          /\ disk' = [disk EXCEPT ![f] = t]
          /\ vanished' = IF t = Gone THEN vanished \cup {f} ELSE vanished
    /\ edits' = edits + 1
    /\ UNCHANGED <<version, store, pc, start, progress, result, faults>>

RunStep(r) ==
    \/ Start(r)
    \/ \E s \in Scanners : LookUp(r, s) \/ ScanMissed(r, s) \/ ScanAll(r, s) \/ ScannerFails(r, s)
    \/ Save(r) \/ SaveFails(r) \/ Report(r) \/ Die(r)

Next ==
    \/ \E r \in Runs : RunStep(r)
    \/ \E f \in Files : Edit(f)

Spec == Init /\ [][Next]_vars
-----------------------------------------------------------------------------
(***************************************************************************)
(* Properties.                                                             *)
(***************************************************************************)

\* The type invariant of the scans and of the cache they share.
TypeOK ==
    /\ disk \in [Files -> Texts \cup {Gone}]
    /\ version \in Nat /\ edits \in Nat /\ faults \in Nat
    /\ vanished \subseteq Files
    /\ pc \in [Runs -> {"idle", "scanning", "saved", "done", "dead"}]
    /\ config \in [Runs -> Configs \cup {None}]
    /\ code \in [Runs -> Nat]
    /\ listed \in [Runs -> SUBSET Files]
    /\ text \in [Runs -> [Files -> Texts \cup {Unread}]]
    /\ dirty \in [Runs -> BOOLEAN]
    /\ worker \in [Runs -> [Scanners -> {"out", "ready", "looked", "ok", "failed"}]]
    /\ missed \in [Runs -> [Scanners -> SUBSET Files]]

\* What the code v makes of a text under a scanner key, with or without the AST tier;
\* a file that was away for a moment may count as clean.
Sound(v, e) ==
    \/ \E ast \in BOOLEAN :
          e.issues = Reports(v, e.scanner[1], e.scanner[2], e.scanner[3], ast, e.file[2])
    \/ e.issues = {} /\ e.file[1] \in vanished

\* Whatever the interleaving of the scans, the edits and the faults, an entry of the
\* cache, in the file or in a run, holds what its own scanner with its own options and
\* sanitizers makes of its own text (core/cache.py: "an edited file never does").
CacheSound ==
    /\ \A e \in store.entries : Sound(store.code, e)
    /\ \A r \in Runs : \A e \in memory[r] : Sound(code[r], e)

FoundIn(r, s, f) == {p[2] : p \in {q \in found[r][s] : q[1] = f}}

\* A scanner that ran reports, for each file, what it makes of the very text this run
\* read of the file: never findings of another text, another code, other options or
\* another sanitizer list, whoever filled the cache (core/engine.py, _scan_cached).
NothingStale ==
    \A r \in Runs : \A s \in Ran(r) : \A f \in listed[r] :
        \/ \E ast \in (IF Cached(config[r], s) THEN BOOLEAN ELSE {AstRunning(config[r])}) :
              FoundIn(r, s, f) = Reports(code[r], s, config[r].options[s],
                                         Sanitizers(config[r], s), ast, text[r][f])
        \/ FoundIn(r, s, f) = {} /\ f \in vanished

Done(r) == pc[r] = "done"

Reported(r, x) ==
    \E y \in result[r].findings :
        y = [x EXCEPT !.severity = y.severity]

\* Hidden by somebody's decision, which a trusted tree's audit log then holds.
Suppressed(r, x) ==
    /\ \/ config[r].trusted /\ Commented(x, CommentsOf(r))
       \/ Allowed(x, config[r].allow)
       \/ config[r].trusted /\ Excepted(x, config[r].exceptions, {"suppress"})
    /\ config[r].trusted =>
          \E y \in result[r].audited : y = [x EXCEPT !.severity = y.severity]

BelowFloor(r, x) == x.original < config[r].minSeverity

\* Folded into a finding of the same class in the same file that it does not outrank,
\* with another tier's report of that class between the two.
Folded(r, x) ==
    \E y, z \in Raw(r) :
        /\ y.file = x.file /\ z.file = x.file /\ y.cwe = x.cwe /\ z.cwe = x.cwe
        /\ ~Outranks(x, y) /\ z.scanner # x.scanner
        /\ Reported(r, y) \/ BelowFloor(r, y) \/ Suppressed(r, y)

\* Every finding of a scanner that ran is in the report, or is suppressed on record,
\* decided by the AST tier that ran, folded into a better one, or below min_severity
\* as the scanner graded it: project context lowers a finding but never hides it.
Accounted ==
    \A r \in Runs : Done(r) => \A x \in Raw(r) :
        Reported(r, x) \/ Suppressed(r, x) \/ Redundant(x, Ran(r)) \/ Folded(r, x)
            \/ BelowFloor(r, x)

\* A gating scan that exits 0 had no scanner crash, unless that was waived; every
\* finding at or above fail_on was lowered by context or is not in the report for one
\* of the reasons of Accounted; and a credential is not reported beside an injection
\* when chains gate, but where the chain is suppressed (should_fail, errors_fail_gate).
GateHolds ==
    \A r \in Runs : Done(r) /\ result[r].exit = 0 /\ config[r].failOn # None =>
        /\ config[r].failOnError # "no" => Selected(config[r]) = Ran(r)
        /\ \A x \in Raw(r) : x.severity >= config[r].failOn =>
              \/ ~Reported(r, x)
              \/ ContextOf(config[r]) # None /\ x.file \in ContextOf(config[r]).internal
        /\ ~\E file \in Files, x, y \in result[r].findings :
              /\ x.file = file /\ y.file = file /\ x.scanner = Secrets
              /\ y.cwe \in InjectionCwes /\ config[r].failOn <= HighSeverity
              /\ ~(config[r].trusted /\ Excepted(Chain(file), config[r].exceptions, {"suppress"}))
=============================================================================
