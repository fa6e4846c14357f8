--------------------------- MODULE FindingPipeline ---------------------------
(***************************************************************************)
(* What a scan does with the findings of its scanners before it reports    *)
(* them (core/engine.py, _finish): suppressions, the allowlist, the        *)
(* preference of the AST tier, de-duplication, project context, attack     *)
(* chains, the severity filter and the exceptions, and the gate.           *)
(***************************************************************************)
EXTENDS Integers, Sequences, FiniteSets, SequencesExt

CONSTANTS
    Regex,        \* the scanner "patterns"
    Ast,          \* the scanner "ast-python"
    Secrets,      \* the scanner "secrets"
    ChainScanner, \* the scanner name of attack chains
    Owned,        \* _AST_OWNED_CWE
    InjectionCwes,    \* _INJECTION_CWES
    NoCwe,        \* a finding without a weakness class
    Wildcard,     \* a suppression that names no rule, or no path
    None

Window == 3       \* _DEDUPE_WINDOW

NoLine == 0       \* a finding about a whole file

Info == 0
Low == 1
HighSeverity == 3
Critical == 4

Severities == Info..Critical

-----------------------------------------------------------------------------
(***************************************************************************)
(* A finding: what the scanner said (rule, class, place, severity,         *)
(* confidence, whether a deterministic rewrite exists) and the severity it *)
(* had before the project context changed it.                              *)
(***************************************************************************)
FindingOf(scanner, file, issue) ==
    [scanner |-> scanner, file |-> file, rule |-> issue.rule, cwe |-> issue.cwe,
     line |-> issue.line, severity |-> issue.severity, original |-> issue.severity,
     confidence |-> issue.confidence, fix |-> issue.fix]

\* A comment or an entry that names a rule matches that rule; Wildcard matches all.
Names(pattern, value) == pattern \in {Wildcard, value}

\* The nephilex-ignore comment on the finding's own line.
Commented(f, comments) ==
    f.line # NoLine /\ \E c \in comments[f.file] : c.line = f.line /\ Names(c.rule, f.rule)

Allowed(f, allow) ==
    \E e \in allow : (e.rule # Wildcard \/ e.file # Wildcard) /\ Names(e.rule, f.rule) /\ Names(e.file, f.file)

Excepted(f, exceptions, statuses) ==
    \E e \in exceptions : e.rule = f.rule /\ e.file = f.file /\ e.status \in statuses

\* The regex tier's guess at a class that the AST tier decides.
Redundant(f, ran) == Ast \in ran /\ f.scanner = Regex /\ f.cwe \in Owned

-----------------------------------------------------------------------------
(***************************************************************************)
(* De-duplication.                                                         *)
(***************************************************************************)
FixRank(f) == IF f.fix THEN 1 ELSE 0

AstRank(f) == IF f.scanner = Ast THEN 1 ELSE 0

Rank(f) == <<f.confidence, f.severity, FixRank(f), AstRank(f)>>

\* Tuples are compared from the left.
Above(s, t) == \E i \in DOMAIN s : s[i] > t[i] /\ \A j \in 1..(i - 1) : s[j] = t[j]

\* f takes the place of prev: by rank, or on a full tie by the lower rule.
Outranks(f, prev) == Above(Append(Rank(f), prev.rule), Append(Rank(prev), f.rule))

Mergeable(f) == f.line # NoLine /\ f.cwe # NoCwe

\* The findings of one weakness class in one file are taken by line; on one line in
\* the order the scanners were selected.
After(f, g, position) ==
    Above(<<f.line, position[f.scanner], f.rule>>, <<g.line, position[g.scanner], g.rule>>)

LastOf(G, position) == CHOOSE f \in G : \A g \in G : ~After(g, f, position)

\* Two tiers, the same weakness, a few lines apart.
SameWeakness(prev, f) == prev.scanner # f.scanner /\ f.line - prev.line <= Window

Merge(kept, f) ==
    IF kept # <<>> /\ SameWeakness(Last(kept), f)
    THEN IF Outranks(f, Last(kept)) THEN Append(Front(kept), f) ELSE kept
    ELSE Append(kept, f)

\* What the loop has kept of a set of such findings when it has taken all of them.
Survivors(G, position) ==
    LET kept[S \in SUBSET G] ==
            IF S = {} THEN <<>>
            ELSE LET f == LastOf(S, position) IN Merge(kept[S \ {f}], f)
    IN  kept[G]

Dedupe(F, position) ==
    LET Passthrough == {f \in F : ~Mergeable(f)}
        Group(f) == {g \in F \ Passthrough : g.file = f.file /\ g.cwe = f.cwe}
        Groups == {Group(f) : f \in F \ Passthrough}
    IN  Passthrough \cup UNION {ToSet(Survivors(G, position)) : G \in Groups}

-----------------------------------------------------------------------------
(***************************************************************************)
(* Project context: sensitive files raise a finding, internal files lower  *)
(* it.                                                                     *)
(***************************************************************************)
Least(a, b) == IF a < b THEN a ELSE b

Greatest(a, b) == IF a > b THEN a ELSE b

Raised(severity) == IF severity >= Low THEN Least(Critical, severity + 1) ELSE severity

Lowered(severity) == Greatest(Info, severity - 1)

Placed(f, context) ==
    LET raised == IF f.file \in context.sensitive THEN Raised(f.severity) ELSE f.severity
    IN  [f EXCEPT !.severity = IF f.file \in context.internal THEN Lowered(raised) ELSE raised]

ApplyContext(F, context) ==
    IF context = None THEN F ELSE {Placed(f, context) : f \in F}

\* An injection beside a credential in one file: the chain "secret-plus-injection".
\* It names its members' classes and the line of one; nothing looks at them any more.
Chain(file) ==
    [scanner |-> ChainScanner, file |-> file, rule |-> 0, cwe |-> NoCwe, line |-> NoLine,
     severity |-> HighSeverity, original |-> HighSeverity, confidence |-> 2, fix |-> FALSE]

Chains(F) ==
    LET Linked(file) ==
            /\ \E f \in F : f.file = file /\ f.scanner = Secrets
            /\ \E f \in F : f.file = file /\ f.cwe \in InjectionCwes
    IN  {Chain(file) : file \in {g \in {f.file : f \in F} : Linked(g)}}

\* Mutant: the filter looks at the severity after the context only.
ShownNow(f, floor) == f.severity >= floor

\* The severity a finding is filtered by: a lowered one still counts as it was.
Shown(f, floor) == Greatest(f.severity, f.original) >= floor

-----------------------------------------------------------------------------
(***************************************************************************)
(* The pipeline for the findings F of one scan.  c is its configuration,   *)
(* ran the scanners that ran, comments the nephilex-ignore comments of the *)
(* files it read, position the place of a scanner in the selection.        *)
(***************************************************************************)
Uncommented(c, F, comments) ==
    IF c.trusted THEN {f \in F : ~Commented(f, comments)} ELSE F

Unlisted(c, F) == {f \in F : ~Allowed(f, c.allow)}

PreferAst(F, ran) == {f \in F : ~Redundant(f, ran)}

Filtered(c, F) == {f \in F : Shown(f, c.minSeverity)}

Unexcepted(c, F) ==
    IF c.trusted THEN {f \in F : ~Excepted(f, c.exceptions, {"suppress"})} ELSE F

\* What follows de-duplication: open are the findings of F that no comment and no entry
\* of the allowlist suppressed, distinct what de-duplication left of them.
Complete(c, context, F, open, distinct) ==
    LET placed == ApplyContext(distinct, context)
        filtered == Filtered(c, placed \cup Chains(placed))
        matched == {f \in filtered : Excepted(f, c.exceptions, {"suppress", "accept"})}
    IN  [findings |-> Unexcepted(c, filtered),
         audited |-> IF c.trusted THEN (F \ open) \cup matched ELSE {}]

Finish(c, context, F, ran, comments, position) ==
    LET open == Unlisted(c, Uncommented(c, F, comments))
    IN  Complete(c, context, F, open, Dedupe(PreferAst(open, ran), position))

Highest(F) ==
    IF F = {} THEN Info ELSE CHOOSE s \in {f.severity : f \in F} : \A f \in F : f.severity <= s

\* Mutant: errors fail the run only when the configuration says so.
FailsOnErrorsIfAsked(c, errors) == errors /\ c.failOnError = "yes"

FailsOnErrors(c, errors) ==
    errors /\ IF c.failOnError # None THEN c.failOnError = "yes" ELSE c.failOn # None

ShouldFail(c, F, errors) ==
    FailsOnErrors(c, errors) \/ (c.failOn # None /\ Highest(F) >= c.failOn)
=============================================================================
