----------------------------- MODULE SarifImport -----------------------------
(***************************************************************************)
(* The import of SARIF results (importers/sarif.py, _paths.py, merge.py):  *)
(* which results are kept, where their locations point, how severe they    *)
(* are, when two are the same result, and how an imported result is folded *)
(* into a finding that already reports it.                                 *)
(*                                                                         *)
(* A path is a sequence of segments.  A location is a record [kind, path,  *)
(* base]: kind is "relative", "absolute", "external" or "refused" (a UNC   *)
(* path, another host, an unknown scheme, a NUL byte).                     *)
(***************************************************************************)
EXTENDS FindingPipeline

CONSTANTS
    Root,         \* the segments of the project root
    Up,           \* the segment ".."
    Unsafe,       \* what resolving a location outside the project gives
    AtRoot        \* what a base without a usable value stands for

IsSeq(s) == s \in Seq(ToSet(s))

ASSUME RootAssumption == IsSeq(Root)

MaxBaseChain == 8

DedupeWindow == 2

-----------------------------------------------------------------------------
(***************************************************************************)
(* Where a location points.                                                *)
(***************************************************************************)
\* One segment further: Unsafe when it climbs out.
Walk(at, segment) ==
    IF at = Unsafe \/ (at = <<>> /\ segment = Up) THEN Unsafe
    ELSE IF segment = Up THEN Front(at)
    ELSE Append(at, segment)

\* A path with its ".." resolved: Unsafe when it climbs out or nothing is left.
CleanRelative(path) ==
    LET at[k \in 0..Len(path)] == IF k = 0 THEN <<>> ELSE Walk(at[k - 1], path[k])
    IN  IF at[Len(path)] = <<>> THEN Unsafe ELSE at[Len(path)]

\* The part of an absolute path below the root, or Unsafe.
InsideRoot(path) ==
    LET clean == CleanRelative(path)
    IN  IF clean # Unsafe /\ Len(clean) > Len(Root) /\ IsPrefix(Root, clean)
        THEN SubSeq(clean, Len(Root) + 1, Len(clean))
        ELSE Unsafe

\* The value of a base, given that of its parent.
Below(entry, parent) ==
    IF entry.kind = "absolute" THEN (IF entry.path = <<>> THEN AtRoot ELSE entry)
    ELSE IF entry.kind # "relative" \/ parent = Unsafe THEN Unsafe
    ELSE IF parent = AtRoot THEN entry
    ELSE [parent EXCEPT !.path = parent.path \o entry.path]

Named(values, id) == IF id \in DOMAIN values THEN values[id] ELSE AtRoot

\* A base is a location that may name a parent base: its value, AtRoot for a base that
\* is not defined (%SRCROOT% often is not), or Unsafe.
BaseOf(bases, name) ==
    LET Value[n \in 0..(MaxBaseChain + 1)] ==
            IF n = 0
            THEN [id \in DOMAIN bases |-> AtRoot]
            ELSE [id \in DOMAIN bases |-> Below(bases[id], Named(Value[n - 1], bases[id].base))]
    IN  Named(Value[MaxBaseChain + 1], name)

\* The path of the finding, relative to the root; a link stays as it is.  The base may
\* be the checkout of the machine that wrote the file: the path is then taken from here.
Resolve(bases, location) ==
    LET relative == CleanRelative(location.path)
        base == BaseOf(bases, location.base)
        joined == base.path \o relative
    IN  IF location.kind = "external" THEN location.path
        ELSE IF location.kind = "absolute" THEN InsideRoot(location.path)
        ELSE IF location.kind = "refused" \/ relative = Unsafe \/ base = Unsafe THEN Unsafe
        ELSE IF base = AtRoot THEN relative
        ELSE IF base.kind = "relative" THEN CleanRelative(joined)
        ELSE IF InsideRoot(joined) # Unsafe THEN InsideRoot(joined)
        ELSE relative

-----------------------------------------------------------------------------
(***************************************************************************)
(* What a result says.  A result is a record; a field the tool left out is *)
(* None.  A rule descriptor is a record [id, score, level, cwes, secret].  *)
(***************************************************************************)
Problem(result) == result.kind \notin {"pass", "notApplicable", "informational"}

\* A suppression without a status counts as accepted.
Suppressed(result) == \E status \in result.suppressions : status \in {None, "accepted"}

SkipReason(result) ==
    IF ~Problem(result) THEN "not_a_problem"
    ELSE IF result.baselineState = "absent" THEN "absent"
    ELSE IF Suppressed(result) THEN "suppressed"
    ELSE None

NoRule == [id |-> None, score |-> None, level |-> None, cwes |-> {}, secret |-> FALSE]

\* The descriptor by the index, unless the id of the result names another known rule.
RuleFor(rules, result) ==
    LET ById(id) == IF \E r \in ToSet(rules) : r.id = id
                    THEN rules[CHOOSE i \in DOMAIN rules :
                                   /\ rules[i].id = id
                                   /\ \A k \in 1..(i - 1) : rules[k].id # id]
                    ELSE NoRule
        indexed == IF result.index \in DOMAIN rules THEN rules[result.index] ELSE NoRule
        disagrees == result.rule # None /\ indexed.id \notin {None, result.rule}
                         /\ ById(result.rule) # NoRule
    IN  IF result.rule # None /\ (disagrees \/ indexed = NoRule) THEN ById(result.rule) ELSE indexed

RuleId(rule, result) == IF result.rule # None THEN result.rule ELSE rule.id

\* The buckets of a security-severity score, given in tenths.
FromScore(score) ==
    IF score >= 90 THEN Critical
    ELSE IF score >= 70 THEN HighSeverity
    ELSE IF score >= 40 THEN 2
    ELSE IF score >= 1 THEN Low
    ELSE Info

\* A severity in the tool's own words counts as the level it is rated like.
FromLevel(level) ==
    CASE level = "error" -> HighSeverity [] level = "warning" -> 2 [] level = "note" -> Low
      [] OTHER -> Info

FirstGiven(a, b) == IF a # None THEN a ELSE b

\* A score decides before a level; the result before its rule; a credential that nobody
\* rated is not a warning.
SeverityOf(rule, result, secret) ==
    LET score == FirstGiven(result.score, rule.score)
        level == FirstGiven(result.level, rule.level)
    IN  IF score # None THEN FromScore(score)
        ELSE IF level # None THEN FromLevel(level)
        ELSE IF secret THEN HighSeverity
        ELSE 2

\* One step below what the tool claims.
ConfidenceOf(result) == Greatest(0, result.precision - 1)

\* The finding of a result of a run.  mark is the fingerprint the tool gave, if any.
Imported(run, result) ==
    LET rule == RuleFor(run.rules, result)
        cwes == rule.cwes \cup result.cwes
        secret == run.secretTool \/ rule.secret
        class == IF cwes # {} THEN CHOOSE c \in cwes : TRUE ELSE NoCwe
    IN  [scanner |-> run.tool, file |-> Resolve(run.bases, result.location),
         rule |-> RuleId(rule, result), cwe |-> class,
         line |-> IF result.location.kind = "external" THEN NoLine ELSE result.line,
         severity |-> SeverityOf(rule, result, secret),
         original |-> SeverityOf(rule, result, secret),
         confidence |-> ConfidenceOf(result), fix |-> FALSE, mark |-> result.mark]

-----------------------------------------------------------------------------
(***************************************************************************)
(* A file, and all the files of one import.                                *)
(***************************************************************************)
\* The id of an imported finding: the tool's own fingerprint stands for the line.
IdOf(f) == <<f.scanner, f.rule, f.file, IF f.mark # None THEN f.mark ELSE f.line>>

Kept(run, result) ==
    SkipReason(result) = None /\ Resolve(run.bases, result.location) # Unsafe

Take(total, run, result) ==
    IF Kept(run, result) THEN Append(total, Imported(run, result)) ELSE total

RunFindings(run) ==
    LET taken[k \in 0..Len(run.results)] ==
            IF k = 0 THEN <<>> ELSE Take(taken[k - 1], run, run.results[k])
    IN  taken[Len(run.results)]

FileFindings(file) ==
    LET taken[i \in 0..Len(file.runs)] ==
            IF i = 0 THEN <<>> ELSE taken[i - 1] \o RunFindings(file.runs[i])
    IN  taken[Len(file.runs)]

\* The results a file holds that are not taken, with the reason.
Left(file) ==
    LET all == UNION {{<<i, k>> : k \in DOMAIN file.runs[i].results} : i \in DOMAIN file.runs}
    IN  {p \in all : ~Kept(file.runs[p[1]], file.runs[p[1]].results[p[2]])}

ResultCount(file) ==
    LET count[i \in 0..Len(file.runs)] ==
            IF i = 0 THEN 0 ELSE count[i - 1] + Len(file.runs[i].results)
    IN  count[Len(file.runs)]

\* Mutant: one result for each place, whatever rule it is of.
AddPlaces(total, f) ==
    IF \E g \in ToSet(total) : g.file = f.file /\ g.line = f.line THEN total ELSE Append(total, f)

\* A result whose id another one had before it is a duplicate, in one file or across files.
\* (The suffix that keeps two results with one id apart is for ids that differ in nothing
\* but a shortened digest.)
AddNew(total, f) == IF \E g \in ToSet(total) : IdOf(g) = IdOf(f) THEN total ELSE Append(total, f)

\* A location as it is read: a link is taken as it is, its segments mean nothing.
IsLocation(l) ==
    /\ l = [kind |-> l.kind, path |-> l.path, base |-> l.base] /\ IsSeq(l.path)
    /\ l.kind = "external" => l.path # <<>> /\ Up \notin ToSet(l.path)

\* What is read of a file: whatever is no list, no string and no number counts as missing.
IsLog(file) ==
    /\ IsSeq(file.runs)
    /\ \A run \in ToSet(file.runs) :
          /\ IsSeq(run.results)
          /\ \A id \in DOMAIN run.bases : IsLocation(run.bases[id])
          /\ \A result \in ToSet(run.results) : IsLocation(result.location) /\ result.line \in Nat

Acceptable(file) == file.readable /\ file.version \in {None, "2.1.0"}

\* A file is refused when it is no SARIF log, or when the import would hold more than
\* max results.
CanImport(files, max) ==
    /\ \A i \in DOMAIN files : Acceptable(files[i])
    /\ FoldLeft(LAMBDA n, file : n + ResultCount(file), 0, files) <= max

\* The findings of one more file.
AddAll(total, new) ==
    LET sum[k \in 0..Len(new)] == IF k = 0 THEN total ELSE AddNew(sum[k - 1], new[k])
    IN  sum[Len(new)]

ImportAll(files) ==
    LET sum[i \in 0..Len(files)] ==
            IF i = 0 THEN <<>> ELSE AddAll(sum[i - 1], FileFindings(files[i]))
    IN  sum[Len(files)]

-----------------------------------------------------------------------------
(***************************************************************************)
(* merge_findings: imported findings are folded into the findings that     *)
(* report the same issue, the first n of which are the scan's own.         *)
(***************************************************************************)
Distance(f, g) == IF f.line = NoLine \/ g.line = NoLine THEN 0 ELSE Greatest(f.line - g.line, g.line - f.line)

SameIssue(f, g) ==
    /\ f.scanner # g.scanner /\ f.file = g.file
    /\ ChainScanner \notin {f.scanner, g.scanner}
    /\ f.line # NoLine /\ g.line # NoLine /\ f.cwe = g.cwe /\ f.cwe # NoCwe
    /\ Distance(f, g) <= DedupeWindow

Stronger(f, g) == Above(<<f.severity, f.confidence>>, <<g.severity, g.confidence>>)

\* The one that is kept is never rated lower than what is folded into it.
Recorded(kept, duplicate) == [kept EXCEPT !.severity = Greatest(kept.severity, duplicate.severity)]

FoldInto(n, kept, f) ==
    LET candidates == {i \in DOMAIN kept : SameIssue(kept[i], f)}
        Closer(i, k) == \/ Distance(kept[i], f) < Distance(kept[k], f)
                        \/ Distance(kept[i], f) = Distance(kept[k], f) /\ i <= k
        match == CHOOSE i \in candidates : \A k \in candidates : Closer(i, k)
    IN  IF candidates = {}
        THEN Append(kept, f)
        ELSE [kept EXCEPT ![match] = IF match > n /\ Stronger(f, kept[match])
                                     THEN Recorded(f, kept[match])
                                     ELSE Recorded(kept[match], f)]

\* Of the imported findings those that are open are taken, one after the other.
MergeFindings(native, imported, open) ==
    LET kept[k \in 0..Len(imported)] ==
            IF k = 0 THEN native
            ELSE IF imported[k] \in open THEN FoldInto(Len(native), kept[k - 1], imported[k])
            ELSE kept[k - 1]
    IN  kept[Len(imported)]
=============================================================================
