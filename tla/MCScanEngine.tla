----------------------------- MODULE MCScanEngine -----------------------------
(***************************************************************************)
(* A small instance of ScanEngine: the regex tier, the AST tier and the    *)
(* secrets scanner over one or two Python files, and the configurations    *)
(* that make them interact.                                                *)
(***************************************************************************)
EXTENDS ScanEngine

CONSTANTS r1, r2, regex, ast, secrets, app, lib, tainted, nested, noisy, all, strict, none

Issue(rule, cwe, line, severity, confidence, fix) ==
    [rule |-> rule, cwe |-> cwe, line |-> line, severity |-> severity,
     confidence |-> confidence, fix |-> fix]

Sql == "CWE-89"
Shell == "CWE-78"
Redirect == "CWE-601"
Credential == "CWE-798"

Skipped == Issue(9, none, 0, 0, 1, FALSE)

\* patterns: an owned class, a rule it leaves to a running AST tier, and three shell
\* smells a few lines apart.
RegexReports(options, running, t) ==
    CASE t = tainted ->
           {Issue(1, Sql, 4, 3, 2, TRUE)}
             \cup (IF running THEN {} ELSE {Issue(2, Redirect, 8, 2, 2, FALSE)})
      [] t = nested -> {Issue(1, Sql, 4, 3, 2, TRUE)}
      [] t = noisy -> {Issue(3, Shell, 5, 3, 3, FALSE)}
                           \cup (IF options = strict THEN {} ELSE {Issue(4, Shell, 1, 2, 1, FALSE)})
      [] OTHER -> {}

\* ast-python: it confirms the owned class unless the context names a sanitizer, and
\* notes the file that it cannot analyze.
AstReports(v, sanitizers, t) ==
    CASE t = tainted -> IF sanitizers # none THEN {} ELSE {Issue(5, Sql, 5, 3, 3, FALSE)}
      [] t = nested -> {Skipped}
      [] t = noisy -> {Issue(6, Shell, 3, 2, 2, FALSE)}
                           \cup (IF v = 0 THEN {} ELSE {Issue(7, Redirect, 8, 2, 2, FALSE)})
      [] OTHER -> {}

MCReports(v, scanner, options, sanitizers, running, t) ==
    CASE scanner = regex -> RegexReports(options, running, t)
      [] scanner = ast -> AstReports(v, sanitizers, t)
      [] OTHER -> IF t = noisy THEN {Issue(8, Credential, 9, 4, 3, FALSE)} ELSE {}

\* One suppression comment, on the shell call of the noisy text.
MCComments(t) == IF t = noisy THEN {[line |-> 3, rule |-> 6]} ELSE {}

Context == [internal |-> {app}, sensitive |-> {lib}, sanitizers |-> strict]

Base ==
    [scanners |-> <<regex, ast>>, parser |-> TRUE, cache |-> TRUE, uncacheable |-> {},
     options |-> [s \in {regex, ast, secrets} |-> all], trusted |-> FALSE, context |-> none,
     treeContext |-> Context, allow |-> {}, exceptions |-> {}, minSeverity |-> 1, failOn |-> 3,
     failOnError |-> none]

Trusted ==
    [Base EXCEPT !.trusted = TRUE, !.minSeverity = 3, !.options[regex] = strict,
                 !.exceptions = {[rule |-> 5, file |-> app, status |-> "suppress"]}]

RegexOnly ==
    [Base EXCEPT !.scanners = <<regex, secrets>>,
                 !.allow = {[rule |-> 3, file |-> app]}, !.uncacheable = {secrets},
                 !.failOnError = "no"]

Symmetry == Permutations(Runs)

MCConfigs == {Base, Trusted, RegexOnly}

\* The files as they are at first; any text may take the place of either.
MCInit == Init /\ disk[lib] = tainted /\ disk[app] = noisy

MCSpec == MCInit /\ [][Next]_vars
=============================================================================
