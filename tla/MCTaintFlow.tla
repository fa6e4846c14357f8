----------------------------- MODULE MCTaintFlow -----------------------------
(***************************************************************************)
(* The analyses of TaintFlow and of PromptFlow on all small programs of a  *)
(* few kinds, against what those programs can do, and SecretScan on small  *)
(* lines and histories. A program grows by one statement at its end or by  *)
(* wrapping its last statements into a compound one, and so does a line by *)
(* its pieces; each theme has the statements and the compounds that make   *)
(* one part of one of the analyses interact.                               *)
(***************************************************************************)
EXTENDS PythonRuns

CONSTANTS MaxInline, LoopDepth,        \* as in PromptFlow
          MaxScanLine, WindowOverlap, FixedLength, OpenLength,
          MinValue, Lead, Short, MaxAdded,   \* as in SecretScan
          Themes, MaxSize, Larger     \* Larger: themes with programs one step longer

VARIABLES theme, stmts, size,
          facts,       \* what is known of a program with models before the walk
          found        \* what the analysis of the program reports

P == INSTANCE PromptPrograms
S == INSTANCE SecretLines

vars == <<theme, stmts, size, facts, found>>

(***************************************************************************)
(* Nodes. A sink has the number of the step that appended it as its line.  *)
(***************************************************************************)
Node(kind, at, sub) == [k |-> kind, at |-> at, sub |-> sub, line |-> 0]
Name(x) == Node("name", <<x>>, <<>>)
Const(c) == Node("const", c, <<>>)
String(s) == Const(Text(s))
Attr(e, x) == Node("attr", <<x>>, <<e>>)
CallAt(line, f, args) == [Node("call", <<>>, <<f>> \o args) EXCEPT !.line = line]
Fn(f, args) == CallAt(0, f, args)
Index(x, i) == Node("index", <<>>, <<x, i>>)
Cmp(x, op, y) == Node("cmp", <<op>>, <<x, y>>)
List(es) == Node("list", <<>>, es)
Pair(k, v) == Node("pair", <<>>, <<k, v>>)

BlockOf(ss) == Node("block", <<>>, ss)
Expr(e) == Node("expr", <<>>, <<e>>)
Set(x, e) == Node("assign", <<>>, <<x, e>>)
If1(c, ss) == Node("if", <<>>, <<c, BlockOf(ss)>>)
IfElse(c, ss, ts) == Node("if", <<>>, <<c, BlockOf(ss), Node("else", <<>>, <<BlockOf(ts)>>)>>)
While(c, ss) == Node("while", <<>>, <<c, BlockOf(ss)>>)
For(x, e, ss) == Node("for", <<>>, <<x, e, BlockOf(ss)>>)
Try(ss, hs) == Node("try", <<>>, <<BlockOf(ss), Node("except", <<>>, <<BlockOf(hs)>>)>>)
Def(name, routed, ss) == Node("def", <<name, routed>>, <<BlockOf(ss)>>)
Jump(kind) == Node(kind, <<>>, <<>>)
Return(line, e) == [Node("return", <<>>, <<e>>) EXCEPT !.line = line]
Else(n, ss) == [n EXCEPT !.sub = Append(@, Node("else", <<>>, <<BlockOf(ss)>>))]
Finally(n, ss) == [n EXCEPT !.sub = Append(@, Node("finally", <<>>, <<BlockOf(ss)>>))]

a == Name("a")
b == Name("b")
Args == Attr(Name("request"), "args")
Perhaps == Fn(Name("f"), <<>>)
Shell(line, e) == Expr(CallAt(line, Attr(Name("os"), "system"), <<e>>))
Seven == List(<<String("7")>>)

(***************************************************************************)
(* The statements of a theme, and the compounds made of its last ones.     *)
(***************************************************************************)
HasDef(ss) == \E n \in UNION {Subtree(s) : s \in ToSet(ss)} : n.k = "def"

BranchStmts(l) ==
    {Set(a, Fn(Name("input"), <<>>)), Set(a, String("x")), Set(b, a), Shell(l, a), Shell(l, b),
     Node("augmented", <<"+">>, <<b, a>>), Jump("return")}
BranchForms(ss) ==
    {If1(Perhaps, ss), IfElse(Perhaps, <<Set(a, b)>>, ss), IfElse(Perhaps, <<Jump("return")>>, ss),
     Try(ss, <<Set(b, String("y"))>>), Try(<<Set(b, a), Jump("raise")>>, ss),
     Finally(Try(ss, <<Jump("raise")>>), <<Set(b, a)>>),
     Node("match", <<>>, <<a, Node("case", <<>>, <<Node("literals", <<>>, <<String("7")>>), BlockOf(ss)>>),
                              Node("case", <<>>, <<b, BlockOf(<<Set(a, String("z"))>>)>>)>>),
     Finally(Try(ss, <<Set(a, b)>>), <<Jump("pass")>>)}
        \cup (IF HasDef(ss) THEN {} ELSE {Def("view", "view", Append(ss, Return(MaxSize + 2, a)))})

LoopStmts(l) ==
    {Set(a, b), Set(b, Name("c")), Set(Name("c"), Args), Set(b, String("x")), Shell(l, a),
     Shell(l, Args)}
LoopForms(ss) ==
    {While(Perhaps, ss), While(Perhaps, Append(ss, If1(Perhaps, <<Jump("break")>>))),
     While(Const(Truth(TRUE)), <<If1(Perhaps, <<Jump("break")>>)>> \o ss),
     While(Const(Truth(TRUE)), ss), For(a, Name("c"), <<If1(Perhaps, <<Jump("continue")>>)>> \o ss),
     Else(For(b, List(<<a, String("x")>>), Append(ss, If1(Perhaps, <<Jump("break")>>))),
          <<Set(a, String("x"))>>)}

GuardStmts(l) ==
    {Set(a, Fn(Name("input"), <<>>)), Set(b, Fn(Attr(Attr(Name("os"), "path"), "realpath"), <<a>>)),
     Set(b, Fn(Name("urlparse"), <<a>>)), Shell(l, a), Expr(CallAt(l, Name("open"), <<b>>)),
     Expr(CallAt(l, Name("redirect"), <<a>>)), Node("assert", <<>>, <<Cmp(a, "not in", Seven)>>),
     Node("assert", <<>>, <<Cmp(String("7"), "==", a)>>)}
Guards ==
    {Cmp(a, "in", Seven), Cmp(String("7"), "==", a), Fn(Attr(a, "isdigit"), <<>>),
     Fn(Attr(b, "startswith"), <<String("/base")>>), Fn(Name("is_safe_url"), <<a>>),
     Cmp(Attr(b, "netloc"), "in", Seven)}
GuardForms(ss) ==
    UNION {{If1(g, ss), IfElse(g, <<Jump("return")>>, ss),
            If1(Node("bool", <<"or">>, <<g, Perhaps>>), ss),
            IfElse(Node("not", <<>>, <<Node("bool", <<"and">>, <<g, Perhaps>>)>>),
                   <<Jump("return")>>, ss)} : g \in Guards}

d == Name("d")
ContainerStmts(l) ==
    {Set(d, Node("dict", <<>>, <<Pair(String("k"), String("x"))>>)), Set(d, List(<<a, String("x")>>)),
     Set(a, Args), Set(Index(d, String("k")), a), Set(Index(d, a), String("x")),
     Set(a, Index(d, String("k"))), Set(a, Fn(Attr(d, "get"), <<String("j")>>)),
     Expr(Fn(Attr(d, "append"), <<a>>)), Set(a, Fn(Attr(d, "pop"), <<>>)), Set(Name("e"), d),
     Set(a, Index(Name("e"), Const(Num(0)))), Set(List(<<b, a>>), d), Shell(l, a),
     Set(Name("e"), Index(d, Node("slice", <<>>, <<Const(Num(1)), Const(NONE)>>))),
     Expr(Fn(Attr(d, "extend"), <<Name("e")>>)), Expr(Fn(Attr(d, "insert"), <<Const(Num(0)), a>>)),
     Set(b, Fn(Attr(d, "setdefault"), <<String("j"), a>>)),
     Expr(CallAt(l, Name("eval"), <<d>>))}
ContainerForms(ss) ==
    {If1(Perhaps, ss), For(a, d, ss), For(b, List(<<a, b>>), ss),
     If1(Perhaps, Append(ss, Set(a, Node("comp", <<>>, <<b, Node("in", <<>>, <<b, d>>)>>))))}

\* Nothing is dirty before the first step, and what the last one cleans reaches no sink.
CleanStmts(l) ==
    (IF l > MaxSize THEN {}
     ELSE {Set(a, Args), Set(b, Fn(Name("escape"), <<a>>)), Set(b, Fn(Name("escape_string"), <<a>>)),
           Set(a, Fn(Attr(a, "strip"), <<>>)), Set(a, Fn(Name("quote"), <<a>>)),
           Set(b, Node("bin", <<"+">>, <<a, b>>)), Set(a, Node("fstring", <<>>, <<b, String("x")>>))})
    \cup (IF l = 1 THEN {}
          ELSE {Expr(CallAt(l, Name("HttpResponse"), <<b>>)), Expr(CallAt(l, Attr(Name("pickle"), "loads"), <<b>>)),
                Expr(CallAt(l, Attr(Name("db"), "execute"), <<b>>)), Shell(l, b)})
CleanForms(ss) == {If1(Perhaps, ss), IfElse(Perhaps, <<Set(b, a)>>, ss)}

c == Name("c")
ConstStmts(l) ==
    {Set(c, Const(Num(1))), Set(c, Const(Num(0))), Set(a, Args), Shell(l, a), Shell(l, Args),
     Set(a, Node("cond", <<>>, <<a, c, String("x")>>)),
     Set(c, Node("bin", <<"-">>, <<c, Const(Num(1))>>)),
     Expr(Node("bool", <<"and">>, <<c, Node("walrus", <<>>, <<a, String("w")>>)>>)),
     Def("g", "plain", <<Node("global", <<"c">>, <<>>), Set(c, Const(Num(1)))>>)}
ConstForms(ss) ==
    {If1(c, ss), If1(Node("not", <<>>, <<c>>), ss), IfElse(Cmp(c, "==", Const(Num(1))), <<Set(a, String("x"))>>, ss),
     While(c, Append(ss, Jump("break"))),
     Node("if", <<>>, <<Node("bool", <<"or">>, <<Perhaps, c>>), BlockOf(ss),
                        Node("elif", <<>>, <<Perhaps, BlockOf(<<Set(a, String("x"))>>)>>)>>)}
        \cup (IF HasDef(ss) THEN {} ELSE {Def("h", "plain", ss)})

NestStmts(l) == {Set(a, Args), Set(a, String("x")), Shell(l, a), Shell(l, Args)}
NestForms(ss) == {While(Perhaps, ss), If1(Perhaps, ss), Node("with", <<>>, <<Node("item", <<>>, <<a, b>>), BlockOf(ss)>>)}

Stmts(t, l) ==
    CASE t \in P!PromptThemes -> P!Stmts(t, l)
      [] t \in S!SecretThemes -> S!Stmts(t, l)
      [] t = "branches" -> BranchStmts(l)
      [] t = "loops" -> LoopStmts(l)
      [] t = "guards" -> GuardStmts(l)
      [] t = "containers" -> ContainerStmts(l)
      [] t = "cleaning" -> CleanStmts(l)
      [] t = "constants" -> ConstStmts(l)
      [] OTHER -> NestStmts(l)

Forms(t, l, ss) ==
    CASE t \in P!PromptThemes -> P!Forms(t, l, ss)
      [] t \in S!SecretThemes -> S!Forms(t, ss)
      [] t = "branches" -> BranchForms(ss)
      [] t = "loops" -> LoopForms(ss)
      [] t = "guards" -> GuardForms(ss)
      [] t = "containers" -> ContainerForms(ss)
      [] t = "cleaning" -> CleanForms(ss)
      [] t = "constants" -> ConstForms(ss)
      [] OTHER -> NestForms(ss)

MCInputs == {{}, {"22"}, {"601"}, XssClean}

Known(t, ss) == IF t \in P!PromptThemes THEN P!Facts(t, P!Module(t, ss)) ELSE <<>>

\* What is reported about the statements ss; the secrets scanner is run by its property.
Reported(t, ss, known) ==
    CASE t \in P!PromptThemes -> P!Found(P!Module(t, ss), known)
      [] t \in S!SecretThemes -> {}
      [] OTHER -> Run(BlockOf(ss)).emits

\* An empty program, about which nothing is said.
Init == theme \in Themes /\ stmts = <<>> /\ size = 0 /\ facts = <<>> /\ found = {}

Extend ==
    /\ size < MaxSize + (IF theme \in Larger THEN 1 ELSE 0)
    /\ \E s \in Stmts(theme, size + 1) : stmts' = Append(stmts, s)
    /\ size' = size + 1
    /\ UNCHANGED theme

Wrap ==
    /\ size < MaxSize + (IF theme \in Larger THEN 1 ELSE 0)
    /\ \E i \in DOMAIN stmts :
           \E form \in Forms(theme, size + 1, SubSeq(stmts, i, Len(stmts))) :
               stmts' = Append(SubSeq(stmts, 1, i - 1), form)
    /\ size' = size + 1
    /\ UNCHANGED theme

Next == (Extend \/ Wrap) /\ facts' = Known(theme', stmts') /\ found' = Reported(theme', stmts', facts')

Spec == Init /\ [][Next]_vars
-----------------------------------------------------------------------------
Program == BlockOf(stmts)
Prompts == size > 0 /\ theme \in P!PromptThemes
Secrets == theme \in S!SecretThemes
Flows == theme \notin P!PromptThemes \cup S!SecretThemes
Module == P!Module(theme, stmts)
Exact == {Atom(x, {}) : x \in {Num(0), Num(1), Text("7")}}

AllReported(runs, reported) == \A w \in runs : w.gaps = {} => w.hits \subseteq reported

\* Whatever the program does and whatever is sent to it, a harmful text that reaches a sink
\* is reported there, on every path the analysis claims to follow (_pyflow.py:1-36): through
\* branches, loops, handlers, guards, sanitizers, containers and functions.
DangerFlagged ==
    Flows =>
    LET unset == IF theme = "constants" THEN Exact ELSE {Opaque}
    IN  AllReported(RunsOf(Program, unset), found)

\* Code that cannot run is not reported: the branch of a condition that folds to a constant,
\* and what follows a return, a raise or an endless loop (_pyflow.py:26-27). A condition on a
\* value that is not known may go one way at one place and the other way at the next.
OnlyLiveCodeFlagged ==
    Flows =>
    {e[2] : e \in found} \subseteq UNION {w.seen : w \in RunsOf(Program, {Opaque})}

\* Whatever a program that uses a model does, and whatever the model, its documents and its
\* clients say: an answer that reaches a sink, an argument of a tool that does, a credential
\* in a prompt, a foreign role or instruction, and a model that reads what others wrote and
\* can act on it are reported (llm_taint.py:1-33), unless a check on the way vouches for the
\* value. The runs name what the walk does not follow.
DangerTold == Prompts => P!EveryDangerTold(P!RunsOf(Module, facts), found)

\* What is reported can happen: a value that was replaced, checked, escaped for its sink or
\* validated against a schema is not, whatever was done to it before.
OnlyDangerTold == 
    Prompts /\ P!Straight(Module) =>
        P!OnlyDangersTold(P!RunsOf(Module, facts), found)

\* Every token, and every random value of a name that says secret, is reported with its text at
\* its columns if it is no longer than windows overlap (scanners/_text.py:24), and no snippet
\* shows more of a token or of the value of such a name than a mask leaves (secrets.py:97-107):
\* of those whole in its window, and in no other value. Each line of the history that is
\* searched has a secret of its own reported, under a commit and a file it was in, and a history
\* that was not read to its end has a note, unless git itself failed (secrets.py:277).
SecretsToldMasked ==
    Secrets => LET text == S!Flat(stmts)
               IN  IF theme = S!LineTheme THEN S!LineTold(text)
                   ELSE \A given \in S!Circumstances : S!HistoryTold(given, text)
=============================================================================
