------------------------------- MODULE MCTriage -------------------------------
(***************************************************************************)
(* A small instance of Triage: three files, the regex tier, the AST tier   *)
(* and the secrets scanner, the reports of two other tools, and the        *)
(* commands that make them interact.                                       *)
(***************************************************************************)
EXTENDS Triage

CONSTANTS regex, ast, secrets, semgrep, trivy, any, none, top, broken

App == <<"src", "app">>
Lib == <<"src", "lib">>
Env == <<"env">>
MCRoot == <<"home", "shop">>

Sql == "CWE-89"
Shell == "CWE-78"
Credential == "CWE-798"

Detection(scanner, file, rule, cwe, line, severity, confidence) ==
    FindingOf(scanner, file, [rule |-> rule, cwe |-> cwe, line |-> line, severity |-> severity,
                              confidence |-> confidence, fix |-> FALSE])

Weak == Detection(regex, Lib, 3, Shell, 3, Low, 1)
Confirmed == Detection(ast, App, 5, Sql, 5, HighSeverity, 2)
Guess == Detection(regex, App, 1, Sql, 4, HighSeverity, 1)
Key == Detection(secrets, Env, 8, Credential, 9, HighSeverity, 2)

MCProblems == {Weak, Confirmed, Guess, Key}

-----------------------------------------------------------------------------
At(kind, path, base) == [kind |-> kind, path |-> path, base |-> base]

Result(rule, location, line) ==
    [kind |-> "fail", baselineState |-> none, suppressions |-> {}, rule |-> rule, index |-> none,
     score |-> none, level |-> none, cwes |-> {}, precision |-> 1, location |-> location,
     line |-> line, mark |-> none]

Rule(id, score, level, cwes, secret) ==
    [id |-> id, score |-> score, level |-> level, cwes |-> cwes, secret |-> secret]

\* One tool: it rates the weak call critical; of the rest, two count as no finding, one
\* climbs out of the project, one is a credential nobody rated.
Semgrep ==
    [readable |-> TRUE, version |-> "2.1.0", runs |-> <<
        [tool |-> semgrep, secretTool |-> FALSE,
         bases |-> [root |-> At("absolute", <<>>, none), sub |-> At("relative", <<"src">>, "root")],
         rules |-> <<Rule(11, 95, "note", {Shell}, FALSE), Rule(12, none, none, {Credential}, TRUE)>>,
         results |-> <<
            Result(11, At("relative", <<"lib">>, "sub"), 4),
            [Result(11, At("relative", Lib, none), 3) EXCEPT !.kind = "pass"],
            [Result(11, At("relative", Lib, none), 3) EXCEPT !.suppressions = {none}],
            Result(11, At("relative", <<top, "etc">>, none), 1),
            [Result(none, At("relative", <<"src", top, "env">>, none), 9) EXCEPT !.index = 2],
            Result(12, At("external", <<"link">>, none), 0)>>]>>]

\* Another: its paths name the checkout of another machine, or this one's; two results
\* have one fingerprint; one repeats in the same place under another rule.
Trivy ==
    [readable |-> TRUE, version |-> none, runs |-> <<
        [tool |-> trivy, secretTool |-> FALSE,
         bases |-> [ci |-> At("absolute", <<"builds", "7">>, none)],
         rules |-> <<Rule(21, none, "error", {Shell}, FALSE)>>,
         results |-> <<
            Result(21, At("relative", Lib, "ci"), 5),
            [Result(21, At("absolute", MCRoot \o App, none), 8) EXCEPT !.mark = "m"],
            [Result(21, At("absolute", MCRoot \o App, none), 9) EXCEPT !.mark = "m"],
            [Result(22, At("absolute", <<"home", "shop", top, "other", "x">>, none), 1) EXCEPT !.level = "note"],
            [Result(22, At("relative", App, none), 8) EXCEPT !.level = "note", !.cwes = {Shell}],
            [Result(22, At("relative", App, none), 8) EXCEPT !.baselineState = "absent"]>>]>>]

Foreign == [readable |-> TRUE, version |-> "2.0.0", runs |-> <<>>]

-----------------------------------------------------------------------------
(***************************************************************************)
(* The command lines.                                                      *)
(***************************************************************************)
Plain ==
    [cmd |-> "scan", place |-> "local", trustRemote |-> FALSE, fromRef |-> FALSE, failOn |-> none,
     minSeverity |-> none, failOnError |-> none, profile |-> none, scanners |-> none, failed |-> {},
     files |-> <<>>, baseline |-> FALSE, diff |-> none, verify |-> FALSE, network |-> TRUE,
     track |-> FALSE, probed |-> {}, paths |-> none]

Gated == [Plain EXCEPT !.failOn = HighSeverity]
Both == [Gated EXCEPT !.files = <<Semgrep, Trivy>>]
Exposed == Detection("posture", <<"site">>, 31, none, NoLine, 2, 2)
LibOnly == {<<Lib, n>> : n \in 1..5}

MCCommands ==
    {Plain, Both,
     [Gated EXCEPT !.failed = {ast}], [Gated EXCEPT !.failed = {ast}, !.failOnError = "no"],
     [Gated EXCEPT !.baseline = TRUE, !.probed = {Exposed}],
     [Both EXCEPT !.cmd = "import"], [Both EXCEPT !.baseline = TRUE], [Both EXCEPT !.diff = LibOnly],
     [Gated EXCEPT !.diff = broken], [Plain EXCEPT !.cmd = "baseline"],
     [Plain EXCEPT !.cmd = "policy"], [Plain EXCEPT !.cmd = "policy", !.fromRef = TRUE],
     [Plain EXCEPT !.verify = TRUE, !.track = TRUE, !.profile = "ci"],
     [Plain EXCEPT !.verify = TRUE, !.track = TRUE, !.network = FALSE],
     [Gated EXCEPT !.place = "remote"], [Gated EXCEPT !.place = "remote", !.trustRemote = TRUE],
     [Gated EXCEPT !.fromRef = TRUE, !.files = <<Trivy>>],
     [Gated EXCEPT !.place = "site", !.probed = {Exposed}], [Plain EXCEPT !.files = <<Foreign>>],
     [Plain EXCEPT !.place = "remote", !.verify = TRUE],
     [Plain EXCEPT !.scanners = {regex, secrets}, !.failOn = 2],
     [Plain EXCEPT !.cmd = "check", !.paths = {Lib}, !.failOn = Low]}

Settings(failOn, minSeverity, policies) ==
    [failOn |-> failOn, minSeverity |-> minSeverity, failOnError |-> none, allow |-> {},
     exclude |-> {}, policies |-> policies]

BlockHigh == {[severity |-> HighSeverity, scanner |-> any, action |-> "block"]}
WarnKeys == {[severity |-> Low, scanner |-> secrets, action |-> "warn"]}

MCRef == Settings(HighSeverity, Info, BlockHigh)

MCTrees ==
    {[settings |-> Settings(2, Low, BlockHigh \cup WarnKeys), comments |-> {}],
     [settings |-> [Settings(none, HighSeverity, WarnKeys) EXCEPT !.exclude = {Env},
                        !.allow = {[rule |-> 11, file |-> any]}],
      comments |-> {[file |-> App, line |-> 5, rule |-> any]}]}

MCEntries ==
    {[rule |-> 5, file |-> App, status |-> "suppress", until |-> 0],
     [rule |-> 3, file |-> Lib, status |-> "accept", until |-> none]}

MCScanners == <<regex, ast, secrets>>

MCProfiles == [ci |-> {regex, secrets}]
=============================================================================
