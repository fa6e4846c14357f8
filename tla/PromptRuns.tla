----------------------------- MODULE PromptRuns -----------------------------
(***************************************************************************)
(* What a program that uses a language model can do, for the programs that *)
(* the analysis of PromptFlow looks at: the reference it is compared with. *)
(* Nothing here is code of the scanner. Which functions are models, tools, *)
(* sinks and sanitizers is a fact about libraries, and taken from the      *)
(* tables of the analysis; the flow of values is not.                      *)
(*                                                                         *)
(* A value is the set of the texts in it that somebody outside wrote: each *)
(* is a taint with its flavor. A condition goes both ways, and a check     *)
(* that holds makes the value it checked harmless. A function expression   *)
(* runs where it stands, or not at all. A run also notes what happened in  *)
(* it that the analyses do not follow:                                     *)
(*   join     code that did not run rebinds or checks a name that holds a  *)
(*            text: both branches are walked one after the other           *)
(*   sense    a check failed where the analysis takes it to hold           *)
(*   stale    a name was bound again after it was looked up in a table     *)
(*   schema   a field of a schema that is not defined in the file          *)
(*   global   a function reads a text from a global                        *)
(*   merged   one value has the answers of two models                      *)
(*   deep     more calls inside one another than the analysis follows      *)
(*   memo     a function is called again with texts that differ only in    *)
(*            what the memo of the analysis leaves out: whether they are   *)
(*            framed, come from outside, and their schema and tool         *)
(*   lost     a name is bound in a branch whose condition checks something *)
(*   closure  a function changes a name of the function around it          *)
(*   callback what a function is called on is handed to a callback         *)
(*   spread   an object with a fixed role takes in the keys of another     *)
(*   inner    a model is asked inside the argument of a sink: the analysis *)
(*            looks at the sink first, and does not know the call then     *)
(***************************************************************************)
EXTENDS PromptFlow

J == INSTANCE PromptFlowJs

(***************************************************************************)
(* The two languages: the facts about their libraries.                     *)
(***************************************************************************)
Words(ctx) ==
    IF ctx.js
    THEN [clean |-> J!CLEAN_FUNCS, text |-> {"String"}, tests |-> J!CLEAN_METHODS,
          strings |-> J!STRING_METHODS, pushes |-> J!MUTATORS, escapes |-> J!SANITIZERS,
          schemas |-> J!SCHEMA_METHODS]
    ELSE [clean |-> CLEAN_FUNCS, text |-> {"str"}, tests |-> CLEAN_METHODS, strings |-> STRING_METHODS,
          pushes |-> MUTATORS, escapes |-> KIND_SANITIZERS, schemas |-> VALIDATE_METHODS]

SourceOf(call, ctx) ==
    CASE ~ctx.js -> Source(call, ctx)
      [] J!Source(call, ctx) # Clean -> J!Source(call, ctx)
      [] OTHER -> J!ExternalSource(call, ctx)

SinksOf(call, ctx) == IF ctx.js THEN J!SinkArgs(call, ctx) ELSE SinkArgs(call, ctx)
SafeUrl(n, ctx) == IF ctx.js THEN HostPinned(n) ELSE Pinned(n)
Credential(n, ctx) == IF ctx.js THEN J!IsSecret(n) ELSE IsSecret(n)
FromClient(n, ctx) == IF ctx.js THEN J!IsRequest(n) ELSE IsRequest(n)
PromptOf(call, ctx) == IF ctx.js THEN J!PromptArgs(call) ELSE PromptArgs(call)

\* The tool that a call makes of a function, in a sequence of at most one.
ToolMade(call, ctx) == IF ctx.js THEN J!ToolHandler(call, ctx) ELSE <<>>

ToolsGiven(call, ctx) ==
    LET made == {o \in ctx.owners : o.by = "decl" /\ o.call.k = "call" /\ ToolMade(o.call, ctx) # <<>>}
        vars == [v \in {o.name : o \in made} |->
                    ToolMade((CHOOSE o \in made : o.name = v).call, ctx)[1].name]
        given == J!Option(call, "tools")
    IN  IF ~ctx.js THEN DOMAIN ToolsOf(call, ctx)
        ELSE IF given = <<>> THEN {}
        ELSE DOMAIN J!ResolveTools(given[1], [ctx |-> ctx, toolVars |-> vars])

\* The parts of the messages of a model call.
PartsOf(call, ctx) ==
    IF ctx.js THEN {[role |-> FALSE, node |-> x] : x \in ToSet(J!GivenMessages(call))}
    ELSE UNION {ToSet(Messages(x)) : x \in ToSet(Keyword(call, "messages"))}

\* The instructions in an expression.
InstructionsIn(n, w) ==
    CASE ~w.ctx.js -> SystemPromptExprs(n)
      [] n.k = "dict" /\ Entry(n, "role") # <<>> /\ Entry(n, "role")[1].at = <<"system">> -> Entry(n, "content")
      [] n.k = "call" /\ "llm" \in DOMAIN w.lib[n].source -> J!Instructions(n)
      [] OTHER -> <<>>

\* A role that is not written out.
RolesIn(n, ctx) ==
    IF ctx.js /\ n.k = "dict" /\ Entry(n, "content") # <<>>
    THEN SelectSeq(Entry(n, "role"), LAMBDA x : x.k # "lit") ELSE <<>>

Text1(flavor, line) == [f |-> flavor] @@ Fresh(line)

\* What a library does in a call.
Library(call, ctx) ==
    [source |-> SourceOf(call, ctx), sinks |-> SinksOf(call, ctx), prompt |-> PromptOf(call, ctx),
     parts |-> PartsOf(call, ctx), made |-> ToolMade(call, ctx), tools |-> ToolsGiven(call, ctx)]

\* (@@ makes TLC compute the function once.)
LibraryOf(module, ctx) == [call \in {n \in Nodes(module) : n.k = "call"} |-> Library(call, ctx)] @@ <<>>

NewRun(module, ctx) ==
    [ctx |-> ctx, lib |-> LibraryOf(module, ctx), env |-> <<>>, globals |-> <<>>, rows |-> <<>>, depth |-> 0, defs |-> <<>>,
     called |-> {}, reads |-> {}, outs |-> {}, acts |-> {}, gives |-> {}, uses |-> {}, events |-> {}, gaps |-> {}]

Gap(w, gap, happened) == IF happened THEN [w EXCEPT !.gaps = @ \cup {gap}] ELSE w

\* Something dangerous happened, to texts from these lines.
Event(w, rule, detail, lines) ==
    IF lines = {} THEN w ELSE [w EXCEPT !.events = @ \cup {<<rule, detail, lines>>}]

Held(f, key) == IF key \in DOMAIN f THEN f[key] ELSE {}

Is(flavor, v) == {t \in v : t.f = flavor}
LinesOf(v) == {t.line : t \in v}

(***************************************************************************)
(* Values.                                                                 *)
(***************************************************************************)
Framed(v) == {[t EXCEPT !.structural = FALSE] : t \in v}
Escaped(v, kinds) == {[t EXCEPT !.kinds = @ \ kinds] : t \in v}
Parsed(v, model) == {[t EXCEPT !.validated = TRUE, !.model = model] : t \in v}

KnownSchema(t, attr, models) == t.model \in DOMAIN models.fields /\ attr \in DOMAIN models.fields[t.model]

\* A field of a value: a schema that pins it leaves no text in it.
FieldOf(v, attr, models) ==
    LET Schema(t) == models.fields[t.model][attr]
        known == {t \in v : t.validated /\ KnownSchema(t, attr, models)}
        open == {t \in known : ~Schema(t).fixed}
    IN  {t \in v : ~t.validated /\ (t.f = "llm" => attr \notin CLEAN_ATTRS)}
            \cup {IF Schema(t).holds = None THEN [t EXCEPT !.validated = FALSE]
                  ELSE [t EXCEPT !.model = Schema(t).holds] : t \in open}

Unseen(v, attr, models) ==
    \E t \in v : (t.validated /\ ~KnownSchema(t, attr, models)) \/ (t.f = "llm" /\ attr = "parsed")

Outcome(v, w) == {[v |-> v, w |-> w]}

\* A value arrives at a sink. An answer of a model, or an argument that a model chose, is
\* reported there; either says what the model can do.
Arrive(w, kind, line, v) ==
    LET harmful == {t \in v : ~t.validated /\ kind \in t.kinds}
        answers == Is("llm", harmful)
        arguments == Is("tool-arg", harmful)
        Here(ts, kinds) == IF ts # {} /\ kind \in kinds THEN {line} ELSE {}
        noted == [w EXCEPT !.outs = @ \cup {<<t.line, kind>> : t \in answers},
                           !.acts = @ \cup {<<t.tool, kind>> : t \in arguments}]
        reported == Event(Event(Event(noted, "insecure-output-handling", kind, Here(answers, SINK_SPECS)),
                                "tool-handler-exec", kind, Here(arguments, {"shell", "code"})),
                          "tool-argument-to-sink", kind,
                          Here(answers, {"recipient"}) \cup Here(arguments, TOOL_ARG_SINKS))
    IN  Gap(reported, "merged", Cardinality(LinesOf(answers)) > 1)

(***************************************************************************)
(* Checks: the names whose values are harmless when a condition is true,   *)
(* or false.                                                               *)
(***************************************************************************)
Known(w, n) == n.k = "name" /\ n.at \in DOMAIN w.env

\* One test of a JavaScript condition; that of the host of a URL is one of the URL.
VouchedJs(c, truth, w) ==
    LET args == Positional(c)
        Of(n) == IF n.k = "attr" /\ n.at = <<"hostname">> THEN n.sub[1] ELSE n
        Key(n) == IF Known(w, Of(n)) THEN {Of(n).at} ELSE {}
        All(ns) == UNION {Key(x) : x \in ToSet(ns)}
        recv == Receiver(c)
        fixed == recv.k # "lit" /\ ~(Known(w, recv) /\ w.env[recv.at] # {})
    IN  CASE c.k = "cmp" /\ c.at[1] \in {"===", "!=="} ->
               IF truth = (c.at[1] = "===")
               THEN UNION {Key(c.sub[i]) : i \in {j \in {1, 2} : c.sub[3 - j].k = "lit"}} ELSE {}
          [] c.k = "cmp" -> IF truth THEN Key(c.sub[1]) ELSE {}
          [] c.k = "call" /\ IsMethod(c) /\ truth ->
               (CASE Called(c) \in {"includes", "has"} -> IF fixed THEN All(args) ELSE {}
                  [] Called(c) = "hasOwn" -> All(Tail(args))
                  [] Called(c) = "test" -> IF recv.k = "regex" THEN All(args) ELSE {}
                  [] Called(c) = "startsWith" -> IF args[1].at = <<"weak">> THEN {} ELSE Key(recv)
                  [] OTHER -> {})
          [] OTHER -> {}

RECURSIVE Vouched(_, _, _)
Vouched(c, truth, w) ==
    LET Either(a, b) == UNION {Vouched(c.sub[i], truth, w) : i \in {a, b}}
    IN  CASE w.ctx.js /\ c.k \notin {"not", "bool"} -> VouchedJs(c, truth, w)
          [] c.k = "cmp" /\ c.at[1] \in {"in", "not in", "==", "!="} ->
               IF truth = (c.at[1] \in {"in", "=="}) /\ Known(w, c.sub[1]) THEN {c.sub[1].at} ELSE {}
          [] c.k = "cmp" /\ c.at[1] = "is" -> IF truth THEN {} ELSE Held(w.rows, c.sub[1].at)
          [] c.k = "not" /\ c.sub[1].k = "name" -> IF truth THEN {} ELSE Held(w.rows, c.sub[1].at)
          [] c.k = "not" -> Vouched(c.sub[1], ~truth, w)
          [] c.k = "bool" -> IF truth = (c.at[1] = "and") THEN Either(1, 2) ELSE {}
          [] c.k = "call" /\ IsMethod(c) /\ Called(c) \in CHECK_METHODS ->
               IF truth /\ Known(w, Receiver(c)) THEN {Receiver(c).at} ELSE {}
          [] OTHER -> {}

\* Every name that some part of a condition checks, in either sense.
Checked(c, w) == UNION {UNION {Vouched(x, truth, w) : truth \in BOOLEAN} : x \in Nodes(c)}

Holding(w) == {key \in DOMAIN w.env : w.env[key] # {}}

\* The names that code binds or checks.
Touched(n, w) ==
    LET Binds(x) == CASE x.k \in {"decl", "assign", "for"} -> {Text(t) : t \in ToSet(Targets(x.sub[1]))}
                      [] x.k = "item" -> {Text(x.sub[i]) : i \in {2} \cap DOMAIN x.sub}
                      [] OTHER -> {}
    IN  UNION {Binds(x) \cup Checked(x, w) : x \in Nodes(n)}

Skip(n, w) == Gap(w, "join", Touched(n, w) \cap Holding(w) # {})

Bound(w, target, v) ==
    LET key == Text(target)
        again == {row \in DOMAIN w.rows : key \in w.rows[row]}
        kept == Drop(w.rows, again \cup {key})
        html == target.k = "attr" /\ target.at = <<"innerHTML">>
    IN  CASE html -> Arrive(w, "html", target.line, v)
          [] target.k = "name" -> Gap([w EXCEPT !.env = Put(@, key, v), !.rows = kept], "stale", again # {})
          [] target.k = "index" ->
               [w EXCEPT !.env = Put(@, Text(target.sub[1]), v \cup Held(@, Text(target.sub[1])))]
          [] OTHER -> w

RECURSIVE Step(_, _, _)

\* One recursion for expressions and for blocks.
Eval(e, w) == Step("value", e, w)
RunBlock(block, w) == Step("block", block, w)

EvalAll(es, w) ==
    FoldLeft(LAMBDA acc, e : UNION {{[v |-> Append(a.v, r.v), w |-> r.w] : r \in Eval(e, a.w)} : a \in acc},
             {[v |-> <<>>, w |-> w]}, es)

All(vs) == UNION ToSet(vs)

\* The texts that an expression has as its value here.
Texts(e, w) == UNION {r.v : r \in Eval(e, w)}

(***************************************************************************)
(* Calls.                                                                  *)
(***************************************************************************)
\* The body of a function: a block, or the expression it returns.
RunBody(fn, w) ==
    IF Last(fn.sub).k = "block" THEN RunBlock(Last(fn.sub), w) ELSE Eval(Last(fn.sub), w)

\* A function: however it ends, what it returns and the run it leaves.
Apply(def, args, w) ==
    LET inside == [w EXCEPT !.env = args, !.rows = <<>>, !.depth = @ + 1,
                            !.globals = IF w.depth = 0 THEN w.env ELSE @]
    IN  IF w.depth > MaxInline THEN Outcome({}, Gap(w, "deep", TRUE))
        ELSE {[v |-> o.v, w |-> [o.w EXCEPT !.env = w.env, !.rows = w.rows, !.depth = w.depth,
                                            !.globals = w.globals]] : o \in RunBody(def, inside)}

\* A function expression runs with the names around it, or it does not.
Callback(fn, given, w) ==
    LET names == UNION {{<<x>> : x \in J!ParamNames(p)} : p \in ToSet(J!Params(fn))}
        inside == [w EXCEPT !.env = given @@ Drop(@, names)]
        Changed(o) == \E key \in DOMAIN w.env \ names : o.w.env[key] # w.env[key]
    IN  {[v |-> o.v, w |-> [Gap(o.w, "closure", Changed(o)) EXCEPT !.env = w.env, !.rows = w.rows]] :
            o \in RunBody(fn, inside)}

\* A model calls a tool with arguments of its choice, but for those of a closed set.
CallTool(tool, w) ==
    LET names == J!ParamNames(J!Params(tool.fn)[1]) \ tool.fixed
        given == [key \in {<<x>> : x \in names} |->
                     {[Text1("tool-arg", tool.fn.line) EXCEPT !.tool = tool.name]}]
        Gives(v) == {tool.name} \X LinesOf({t \in Is("untrusted", v) : t.external})
    IN  {[v |-> {}, w |-> [r.w EXCEPT !.gives = @ \cup Gives(r.v)]] : r \in Callback(tool.fn, given, w)}

\* What the memo of the analysis tells apart of a text.
Shape(t) == <<t.f, t.line, t.kinds, t.validated>>
Shapes(args) == [key \in DOMAIN args |-> {Shape(t) : t \in args[key]}]

CallLocal(call, vs, w) ==
    LET name == Called(call)
        def == w.ctx.local[name]
        params == Params(def)
        args == [key \in {<<params[i].at[1]>> : i \in DOMAIN params} |->
                    vs[CHOOSE i \in DOMAIN params : params[i].at[1] = key[1]]]
        alike == \E x \in w.called : x[1] = name /\ x[2] # args /\ Shapes(x[2]) = Shapes(args)
    IN  Apply(def, args, [Gap(w, "memo", alike) EXCEPT !.called = @ \cup {<<name, args>>}])

\* A model reads its prompt and answers. What it reads and which tools it has are noted, a
\* credential or a message of somebody else's making is dangerous.
AskModel(call, answer, w) ==
    LET read == w.lib[call].prompt
        prompt == All([i \in DOMAIN read |-> Texts(read[i], w)])
        line == call.line
        Foreign(p) == {t \in Is("untrusted", Texts(p.node, w)) : p.role \/ (t.structural /\ ~t.external)}
        external == {t \in Is("untrusted", prompt) : t.external}
        asked == [w EXCEPT !.reads = @ \cup {<<line, t.line>> : t \in external},
                           !.uses = @ \cup {<<line, tool>> : tool \in w.lib[call].tools}]
        roles == UNION {LinesOf(Foreign(p)) : p \in w.lib[call].parts}
    IN  Outcome({[Text1("llm", line) EXCEPT !.validated = answer.validated, !.model = answer.model]},
                Event(Event(asked, "secret-sent-to-model", "", LinesOf(Is("secret", prompt))),
                      "untrusted-message-role", "", roles))

\* What a call of anything else returns, of a receiver and arguments.
Result(call, recv, args, ctx) ==
    LET last == Called(call)
        words == Words(ctx)
        method == IsMethod(call)
        all == recv \cup args
        schema == method /\ last \in words.schemas /\ Text(Receiver(call)) # <<"JSON">>
    IN  CASE ~method /\ last \in words.clean -> {}
          [] (~method /\ last \in words.text) \/ (~ctx.js /\ last \in MESSAGES) -> Framed(args)
          [] schema -> Parsed(args, IF ctx.js THEN None ELSE Last(Text(Receiver(call))))
          [] ~ctx.js /\ last = "validate_json" -> Parsed(args, None)
          [] method /\ last \in words.tests -> {}
          [] method /\ last = "get" -> recv
          [] last \in DOMAIN words.escapes -> Escaped(all \ Is("secret", all), words.escapes[last])
          [] OTHER -> IF method /\ last \in words.strings THEN all ELSE all \ Is("secret", all)

Asks(e, w) == \E x \in Nodes(e) : x.k = "call" /\ "llm" \in DOMAIN w.lib[x].source

Sinks(call, w) ==
    LET Arg(acc, s) ==
            FoldLeft(LAMBDA a, arg : IF s.kind = "ssrf" /\ SafeUrl(arg, w.ctx) THEN a
                                     ELSE Gap(Arrive(a, s.kind, call.line, Texts(arg, w)), "inner", Asks(arg, w)),
                     acc, s.args)
    IN  FoldLeft(Arg, w, w.lib[call].sinks)

Perform(call, vs, w) ==
    LET source == w.lib[call].source
        method == IsMethod(call)
        takes == \E x \in ToSet(Positional(call)) : x.k = "fn" /\ Len(x.sub) > 1
        reached == Gap(Sinks(call, w), "callback", takes /\ All(vs) # {})
        args == All(IF method THEN Tail(vs) ELSE vs)
        local == ~method /\ Called(call) \in DOMAIN w.ctx.local
        mutates == IsCallOf(call, Words(w.ctx).pushes)
    IN  CASE "llm" \in DOMAIN source -> AskModel(call, source["llm"], reached)
          [] "untrusted" \in DOMAIN source ->
               Outcome({[f |-> "untrusted"] @@ source["untrusted"]}, reached)
          [] Credential(call, w.ctx) -> Outcome({Text1("secret", call.line)}, reached)
          [] local -> CallLocal(call, vs, reached)
          [] mutates -> Outcome({}, [reached EXCEPT !.env = Put(@, Text(Receiver(call)), args \cup vs[1])])
          [] OTHER -> Outcome(Result(call, IF method THEN vs[1] ELSE {}, args, w.ctx), reached)

\* Text in the instructions of a model, or as the role of a message.
Instructs(e, w) ==
    LET Told(run, rule, es) ==
            FoldLeft(LAMBDA acc, x : Event(acc, rule, "", LinesOf(Is("untrusted", Texts(x, w)))), run, es)
        instructed == Told(w, "untrusted-input-in-system-prompt", InstructionsIn(e, w))
    IN  Told(instructed, "untrusted-message-role", RolesIn(e, w.ctx))

EvalNode(e, w) ==
    LET parts == EvalAll(e.sub, w)
        lit == \/ e.k = "dict" /\ Entry(e, "role") # <<>> /\ Entry(e, "role")[1].k = "lit"
               \/ e.k = "tuple" /\ e.sub[1].k = "lit"
               \/ e.k = "fstring"
        recv == IF IsMethod(e) THEN <<Receiver(e)>> ELSE <<>>
        Spread(v) == lit /\ e.k = "dict" /\ \E i \in DOMAIN e.sub : e.sub[i].k = "spread" /\ v[i] # {}
    IN  CASE e.k \in {"lit", "cmp", "not", "regex"} -> Outcome({}, w)
          [] e.k = "fn" -> Outcome({}, w) \cup {[r EXCEPT !.v = {}] : r \in Callback(e, <<>>, w)}
          [] e.k = "name" ->
               IF e.at \in DOMAIN w.env THEN Outcome(w.env[e.at], w)
               ELSE Outcome(Held(w.globals, e.at), Gap(w, "global", Held(w.globals, e.at) # {}))
          [] e.k = "attr" ->
               IF FromClient(e, w.ctx) THEN Outcome({Text1("untrusted", e.line)}, w)
               ELSE IF Credential(e, w.ctx) THEN Outcome({Text1("secret", e.line)}, w)
               ELSE IF w.ctx.js THEN IF e.at = <<"length">> THEN Outcome({}, w) ELSE Eval(e.sub[1], w)
               ELSE {[v |-> FieldOf(r.v, e.at[1], w.ctx.models),
                      w |-> Gap(r.w, "schema", Unseen(r.v, e.at[1], w.ctx.models))] : r \in Eval(e.sub[1], w)}
          [] e.k = "index" ->
               IF Credential(e, w.ctx) THEN Outcome({Text1("secret", e.line)}, w) ELSE Eval(e.sub[1], w)
          [] e.k = "cond" -> Eval(e.sub[IF w.ctx.js THEN 2 ELSE 1], w) \cup Eval(e.sub[3], w)
          [] e.k = "call" /\ w.lib[e].made # <<>> ->
               Outcome({}, w) \cup CallTool(w.lib[e].made[1], w)
          [] e.k = "call" ->
               UNION {Perform(e, r.v, Instructs(e, r.w)) : r \in EvalAll(recv \o Arguments(e), w)}
          [] OTHER -> {[v |-> IF lit THEN Framed(All(r.v)) ELSE All(r.v),
                      w |-> Instructs(e, Gap(r.w, "spread", Spread(r.v)))] : r \in parts}

(***************************************************************************)
(* Statements: how each ends, what it returns and the run it leaves.       *)
(***************************************************************************)
End(kind, v, w) == [kind |-> kind, v |-> v, w |-> w]
Ends(kind, rs) == {End(kind, r.v, r.w) : r \in rs}
Next1(w) == {End("next", {}, w)}

RunAssign(n, w) ==
    LET left == n.sub[1]
        augmented == n.k = "augmented"
        isGet == ~w.ctx.js /\ n.sub[2].k = "call" /\ IsMethod(n.sub[2]) /\ Called(n.sub[2]) = "get"
        key == IF isGet THEN Positional(n.sub[2])[1] ELSE left
        Row(x) == IF isGet /\ Known(w, key) /\ left.k = "name"
                  THEN [x EXCEPT !.rows = Put(@, left.at, {key.at})] ELSE x
        inner == left.k = "attr" /\ Asks(n.sub[2], w)
        Told(x, v) == Event(x, "untrusted-input-in-system-prompt", "",
                            IF ~w.ctx.js /\ left.k = "name" /\ left.at[1] \in SYSTEM_PROMPT_NAMES
                            THEN LinesOf(Is("untrusted", v)) ELSE {})
    IN  {End("next", {}, Told(Row(Bound(Gap(r.w, "inner", inner), left, r.v \cup (IF augmented THEN Held(r.w.env, left.at) ELSE {}))),
                              r.v)) : r \in Eval(n.sub[2], w)}

\* One of the branches runs, or none when there is no else. The analysis takes the checks of
\* the condition to hold inside the first, or after it if that leaves.
RunIf(n, w) ==
    LET others == SubSeq(n.sub, 3, Len(n.sub))
        SkipAll(x, ns) == FoldLeft(LAMBDA a, b : Skip(b, a), x, ns)
        Way(truth, x) ==
            LET vouched == Vouched(n.sub[1], truth, x)
                believed == IF truth = Leaves(n.sub[2]) THEN {} ELSE Checked(n.sub[1], x)
                wrong == (believed \ vouched) \cap Holding(x) # {}
                own == x.ctx.js /\ truth /\ ~Leaves(n.sub[2]) /\ Checked(n.sub[1], x) # {}
                lost == own /\ \E y \in Nodes(n.sub[2]) :
                            y.k \in {"decl", "assign"} \/ IsCallOf(y, J!MUTATORS)
            IN  [Gap(Gap(x, "sense", wrong), "lost", lost) EXCEPT !.env = [key \in DOMAIN @ |->
                    IF key \in vouched THEN {} ELSE @[key]]]
        First(x) == {[o EXCEPT !.w = SkipAll(@, others)] : o \in RunBlock(n.sub[2], x)}
        Other(x, i) == RunBlock(Last(others[i].sub), SkipAll(x, SubSeq(others, 1, i - 1)))
        None1(x) == IF \E i \in DOMAIN others : others[i].k = "else" THEN {} ELSE Next1(SkipAll(x, others))
        Second(x) == None1(x) \cup UNION {Other(x, i) : i \in DOMAIN others}
    IN  UNION {First(Way(TRUE, r.w)) \cup Second(Skip(n.sub[2], Way(FALSE, r.w))) : r \in Eval(n.sub[1], w)}

\* A loop runs as often as the analysis walks its body, or less.
RunLoop(n, w) ==
    LET body == IF n.k = "for" THEN n.sub[3] ELSE n.sub[2]
        Start1(x, v) == IF n.k = "for" THEN Bound(x, n.sub[1], v) ELSE x
        Round(ends, v) ==
            UNION {IF o.kind \in {"next", "continue"} THEN RunBlock(body, Start1(o.w, v)) ELSE {o} : o \in ends}
        Left(ends) ==
            {[o EXCEPT !.kind = IF @ = "return" THEN @ ELSE "next", !.w = Skip(n, @)] : o \in ends}
        Full(ends) == {[o EXCEPT !.kind = IF @ = "return" THEN @ ELSE "next"] : o \in ends}
        From(r) == LET one == Round(Next1(r.w), r.v)
                   IN  Left(Next1(r.w)) \cup Left(one) \cup Full(Round(one, r.v))
    IN  UNION {From(r) : r \in Eval(IF n.k = "for" THEN n.sub[2] ELSE n.sub[1], w)}

RunWith(n, w) ==
    LET item == n.sub[1]
    IN  UNION {RunBlock(Last(n.sub), IF Len(item.sub) = 2 THEN Bound(r.w, item.sub[2], r.v) ELSE r.w) :
                  r \in Eval(item.sub[1], w)}

\* An exception may leave the body after any of its statements.
RunTry(n, w) ==
    LET body == n.sub[1]
        handler == Last(n.sub[2].sub)
        Raised(i) == {[o EXCEPT !.w = Skip([body EXCEPT !.sub = SubSeq(@, i + 1, Len(@))], @)] :
                         o \in RunBlock([body EXCEPT !.sub = SubSeq(@, 1, i)], w)}
    IN  {[o EXCEPT !.w = Skip(handler, @)] : o \in RunBlock(body, w)}
            \cup UNION {UNION {RunBlock(handler, o.w) : o \in Raised(i)} : i \in 0 .. Len(body.sub) - 1}

RunStmt(n, w) ==
    CASE n.k = "def" /\ w.ctx.js -> Next1(w) \cup {End("next", {}, r.w) : r \in Callback(n, <<>>, w)}
      [] n.k = "def" -> Next1([w EXCEPT !.defs = Append(@, n)])
      [] n.k \in {"decl", "assign", "augmented"} -> RunAssign(n, w)
      [] n.k = "expr" -> {End("next", {}, r.w) : r \in Eval(n.sub[1], w)}
      [] n.k = "return" -> IF n.sub = <<>> THEN {End("return", {}, w)} ELSE Ends("return", Eval(n.sub[1], w))
      [] n.k \in {"break", "continue"} -> {End(n.k, {}, w)}
      [] n.k = "if" -> RunIf(n, w)
      [] n.k \in {"for", "while"} -> RunLoop(n, w)
      [] n.k = "with" -> RunWith(n, w)
      [] n.k = "try" -> RunTry(n, w)
      [] OTHER -> Next1(w)

\* What follows a break or a continue is skipped.
RunStmts(block, w) ==
    FoldLeft(LAMBDA ends, n :
                UNION {CASE o.kind = "next" -> RunStmt(n, o.w)
                         [] o.kind = "return" -> {o}
                         [] OTHER -> {[o EXCEPT !.w = Skip(n, @)]} : o \in ends},
             Next1(w), block.sub)

\* A function that a model or a client calls, or with values of the program that are harmless.
RunDef(def, w) ==
    LET tool == <<def.at[1]>> \in w.ctx.toolFuncs
        Given(p) ==
            CASE p.at[2] \in CONSTRAINED \/ p.at[1] \in SKIP_PARAMS -> {}
              [] tool -> {[Text1("tool-arg", def.line) EXCEPT !.tool = def.at[1]]}
              [] def.at[2] = "route" -> {[Text1("untrusted", def.line) EXCEPT !.external = p.at[2] = "UploadFile"]}
              [] OTHER -> {}
        params == ToSet(Params(def))
        args == [key \in {<<p.at[1]>> : p \in params} |-> Given(CHOOSE p \in params : p.at[1] = key[1])]
        Gives(v) == IF tool THEN {def.at[1]} \X LinesOf({t \in Is("untrusted", v) : t.external}) ELSE {}
    IN  {[r.w EXCEPT !.gives = @ \cup Gives(r.v)] : r \in Apply(def, args, w)}

\* The statements of a module, and then the functions it defines.
RunModule(module, w) ==
    LET Calls(o) == FoldLeft(LAMBDA ws, def : UNION {RunDef(def, x) : x \in ws}, {o.w}, o.w.defs)
    IN  UNION {Calls(o) : o \in RunBlock(module, w)}

Step(what, n, w) ==
    CASE what = "value" -> EvalNode(n, w)
      [] what = "block" -> RunStmts(n, w)
      [] what = "module" -> RunModule(n, w)

RunsOf(module, ctx) == Step("module", module, NewRun(module, ctx))

\* The model calls that read what somebody outside wrote, in the prompt or from a tool, and
\* that can act: through a tool, or by an answer that reaches a sink.
Steered(w) ==
    LET lines == {r[1] : r \in w.reads}
                     \cup {u[1] : u \in {x \in w.uses : \E g \in w.gives : g[1] = x[2]}}
        acting == {o[1] : o \in w.outs}
                      \cup {u[1] : u \in {x \in w.uses : \E a \in w.acts : a[1] = x[2]}}
    IN  lines \cap acting

(***************************************************************************)
(* The analysis against the runs.                                          *)
(***************************************************************************)
\* Every danger of a run that the analysis follows is found.
EveryDangerTold(runs, found) ==
    \A w \in {x \in runs : x.gaps = {}} :
        /\ \A e \in w.events : \E line \in e[3] : <<e[1], e[2], line>> \in found
        /\ \A line \in Steered(w) :
               \E s \in {"medium", "high"} : <<"indirect-prompt-injection", s, line>> \in found

\* What is found is a danger of some run. Code that a jump skips is walked all the same, but
\* for what follows an if that leaves and binds nothing, or the end of a function.
Leaving(n) == n.k = "if" /\ Len(n.sub) = 2 /\ \A x \in Nodes(n) : x.k \notin {"assign", "decl"}

Straight(module) ==
    \A n \in Nodes(module) :
        /\ \A i \in DOMAIN n.sub :
               IF n.sub[i].k = "block"
               THEN n.k \in {"def", "fn"} \/ Leaving(n) \/ \A x \in ToSet(n.sub[i].sub) : x.k \notin Jumps
               ELSE n.sub[i].k \in Jumps => i = Len(n.sub)
        /\ n.k = "def" => \A x \in Nodes(n) : x.k = "def" => x = n

OnlyDangersTold(runs, found) ==
    (\A w \in runs : w.gaps = {}) =>
        \A e \in found : \E w \in runs :
            \/ e[1] = "indirect-prompt-injection" /\ e[3] \in Steered(w)
            \/ \E x \in w.events : x[1] = e[1] /\ x[2] = e[2] /\ e[3] \in x[3]
=============================================================================
