------------------------------ MODULE PromptFlow ------------------------------
(***************************************************************************)
(* The analysis of Python programs that use language models                *)
(* (scanners/llm_taint.py, with llm_prompt.py and the index of schemas in  *)
(* llm_ast.py): one walk in the order of the statements, with one scope    *)
(* per function and no join of branches, and calls of local functions      *)
(* followed with the taints of their arguments.                            *)
(*                                                                         *)
(* The tables name one member of each group of names that is treated       *)
(* alike; imports are taken to be resolved.                                *)
(***************************************************************************)
EXTENDS PromptValues

CONSTANTS MaxInline,   \* local calls followed inside one another
          LoopDepth    \* loops whose bodies run twice

LLM_CTOR == {"ChatOpenAI", "create_agent"}
DERIVE_METHODS == {"bind_tools", "with_structured_output"}
SOURCE_METHODS == {"invoke", "create"}
CREATE_PARENTS == {"completions"}
DIRECT_SOURCES == {<<"litellm", "completion">>}
CLEAN_ATTRS == {"id", "usage"}
NON_PROMPT_KWARGS == {"tools", "response_format"}
RETRIEVAL_METHODS == {"similarity_search"}
CLEAN_FUNCS == {"int", "len"}
CLEAN_METHODS == {"startswith", "isdigit", "count"}
STRING_METHODS == {"format", "strip"}
MUTATORS == {"append", "update"}
VALIDATE_METHODS == {"model_validate_json"}
SKIP_PARAMS == {"self", "ctx"}
CONSTRAINED == {"int", "Literal"}
CHECK_METHODS == {"isdigit", "is_relative_to", "startswith"}
FREE_TEXT == {"bio"}
MESSAGES == {"SystemMessage", "HumanMessage"}
CLAUSES == {"except", "else", "elif", "finally", "case"}
STATEMENTS ==
    {"def", "class", "assign", "augmented", "expr", "return", "raise", "if", "for", "while", "with", "try",
     "match", "break", "continue", "pass"}
SYSTEM_PROMPT_NAMES == {"system_prompt"}
EMAIL_HEADERS == {"to"}

KIND_SANITIZERS ==
    [quote |-> {"shell"}, escape |-> {"html"}, basename |-> {"file"}, url_quote |-> {"ssrf", "shell"}]

BUILTIN_TOOL_CAPS == [ShellTool |-> {"shell"}, RequestsPostTool |-> {"ssrf", "send"}]
BUILTIN_TOOL_EXTERNAL == {"RequestsPostTool", "TavilySearch"}

(***************************************************************************)
(* Before the walk: objects, tools, local functions, schemas.              *)
(***************************************************************************)
Kinds(objects, key) == IF key \in DOMAIN objects THEN objects[key].kind ELSE None

RECURSIVE ReceiverKind(_, _)

\* An LCEL chain is a model if one of its links is.
IsModelPipe(n, objects) ==
    n.k = "bin" /\ n.at = <<"|">>
        /\ \E side \in ToSet(n.sub) : ReceiverKind(side, objects) \in {"llm", "llm-structured"}

\* What a call constructs.
CtorKind(call, objects) ==
    LET path == Text(call.sub[1])
        last == Called(call)
        derived == IsMethod(call) /\ ReceiverKind(Receiver(call), objects) = "llm"
    IN  CASE path # <<>> /\ Len(path) = 1 /\ last \in LLM_CTOR -> "llm"
          [] path = <<"pipeline">> -> "llm-callable"
          [] path = <<"WebLoader">> -> "loader"
          [] path = <<"SQLDatabase">> -> "sqldb"
          [] path = <<"requests", "Session">> -> "http"
          [] path = <<"IMAP4">> -> "mailbox"
          [] path = <<"User", "query", "get">> -> "orm"
          [] IsMethod(call) /\ last = "as_retriever" -> "retriever"
          [] IsMethod(call) /\ last = "as_query_engine" -> "llm"
          [] derived /\ last = "with_structured_output" -> "llm-structured"
          [] derived /\ last \in DERIVE_METHODS -> "llm"
          [] OTHER -> None

\* The kind of the object at the root of a chain of attributes and calls.
ReceiverKind(n, objects) ==
    CASE n.k = "name" -> Kinds(objects, n.at)
      [] n.k = "attr" ->
           IF Text(n) \in DOMAIN objects THEN Kinds(objects, Text(n))
           ELSE ReceiverKind(n.sub[1], objects)
      [] n.k = "call" ->
           LET kind == CtorKind(n, objects)
           IN  IF kind = None /\ IsMethod(n) THEN ReceiverKind(Receiver(n), objects) ELSE kind
      [] IsModelPipe(n, objects) -> "llm"
      [] OTHER -> None

RECURSIVE RootName(_, _)
RootName(n, objects) ==
    CASE n.k = "name" -> n.at
      [] n.k = "attr" -> IF Text(n) \in DOMAIN objects THEN Text(n) ELSE RootName(n.sub[1], objects)
      [] OTHER -> <<>>

\* Every name or attribute that is bound to a value somewhere.
Bindings(module) ==
    LET nodes == SelectSeq(Preorder(module), LAMBDA n : n.k \in {"assign", "item"} /\ Len(n.sub) = 2)
        Binding(n) ==
            LET at == IF n.k = "item" THEN 2 ELSE 1
            IN  [key |-> Text(n.sub[at]), right |-> n.sub[3 - at]]
    IN  SelectSeq([i \in DOMAIN nodes |-> Binding(nodes[i])], LAMBDA b : b.key # <<>>)

\* The schema that a model object was built with.
SchemaOf(call) ==
    LET schema == Keyword(call, "schema") \o Positional(call)
    IN  IF Called(call) = "with_structured_output" /\ schema # <<>> /\ schema[1].k = "name"
        THEN schema[1].at[1] ELSE None

BindObject(objects, b) ==
    LET kind == CASE b.right.k = "call" -> CtorKind(b.right, objects)
                  [] IsModelPipe(b.right, objects) -> "llm"
                  [] OTHER -> None
    IN  IF kind = None \/ Kinds(objects, b.key) = kind THEN objects
        ELSE Put(objects, b.key, [kind |-> kind,
                                  schema |-> IF b.right.k = "call" THEN SchemaOf(b.right) ELSE None])

\* Three passes over the bindings, since a chain may name a model that is bound later.
CollectObjects(module) ==
    LET typed == {p \in Nodes(module) : p.k = "param" /\ p.at[2] \in LLM_CTOR}
        start == [key \in {<<p.at[1]>> : p \in typed} |-> [kind |-> "llm", schema |-> None]]
        bound == Bindings(module)
        Pass(objects, i) == FoldLeft(BindObject, objects, bound)
    IN  FoldLeft(Pass, start, <<1, 2, 3>>)

\* The expression by which a call hands a model its tools.
ToolsArg(call) ==
    LET given == Keyword(call, "tools")
        pos == Positional(call)
    IN  CASE given # <<>> -> given
          [] Called(call) = "bind_tools" /\ pos # <<>> -> <<pos[1]>>
          [] Called(call) = "create_agent" /\ Len(pos) > 1 -> <<pos[2]>>
          [] OTHER -> <<>>

\* The tools of the objects, and the objects that retrieve documents into their own prompt.
ObjectTools(module, objects) ==
    LET Add(acc, b) ==
            LET root == IF IsMethod(b.right) THEN RootName(Receiver(b.right), objects) ELSE <<>>
                inherited == IF root \in DOMAIN acc /\ root # b.key THEN acc[root] ELSE {}
            IN  IF b.right.k = "call" /\ Kinds(objects, b.key) \in {"llm", "llm-structured"}
                THEN AddTo(acc, b.key, ToSet(ToolsArg(b.right)) \cup inherited) ELSE acc
    IN  FoldLeft(Add, <<>>, Bindings(module))

RagObjects(module, objects) ==
    {b.key : b \in {x \in ToSet(Bindings(module)) :
        x.right.k = "call" /\ Called(x.right) = "as_query_engine" /\ Kinds(objects, x.key) = "llm"}}

Defs(module) == SelectSeq(Preorder(module), LAMBDA n : n.k = "def")

\* Functions that a model may call: decorated, wrapped, given to an agent or dispatched by name.
ToolFuncs(module) ==
    LET nodes == Nodes(module)
        defined == {<<d.at[1]>> : d \in ToSet(Defs(module))}
        decorated == {<<d.at[1]>> : d \in {x \in ToSet(Defs(module)) : x.at[2] = "tool"}}
        calls == {n \in nodes : n.k = "call"}
        wrapped == UNION {{Text(a) : a \in ToSet(SubSeq(Positional(c), 1, 1))} :
                              c \in {x \in calls : Called(x) = "Tool"}}
        given == UNION {UNION {{Text(x) : x \in Nodes(a)} : a \in ToSet(Keyword(c, "tools"))} :
                            c \in {x \in calls : Called(x) = "create_agent"}}
        tables == {n \in nodes : n.k = "assign" /\ Text(n.sub[1]) = <<"handlers">>
                                     /\ n.sub[2].k = "dict"}
        dispatched == UNION {{Text(p.sub[1]) : p \in ToSet(t.sub[2].sub)} : t \in tables}
    IN  decorated \cup {w \in wrapped : w # <<>>} \cup (defined \cap (given \cup dispatched))

\* Functions defined once are followed at their calls.
LocalFuncs(module) ==
    LET defs == Defs(module)
        Once(d) == Len(SelectSeq(defs, LAMBDA x : x.at[1] = d.at[1])) = 1
    IN  FoldLeft(LAMBDA acc, d : Put(acc, d.at[1], d), <<>>, SelectSeq(defs, Once))

\* The fields of the schemas: whether the annotation pins the value, and the schema it holds.
ModelIndex(module) ==
    LET classes == {n \in Nodes(module) : n.k = "class"}
        Grow(known, i) == known \cup {c.at[1] : c \in {x \in classes : x.at[2] \in known}}
        models == FoldLeft(Grow, {"BaseModel"}, [i \in 1..Cardinality(classes) |-> i]) \ {"BaseModel"}
        enums == {c.at[1] : c \in {x \in classes : x.at[2] = "Enum"}}
        Fields(c) ==
            [f \in {x.at[1] : x \in ToSet(c.sub[1].sub)} |->
                LET ann == (CHOOSE x \in ToSet(c.sub[1].sub) : x.at[1] = f).at[2]
                    fixed == ann \in CONSTRAINED \cup enums
                IN  [fixed |-> fixed,
                     holds |-> IF ann \in models \ {c.at[1]} /\ ~fixed THEN ann ELSE None]]
    IN  [fields |-> [m \in models |-> Fields(CHOOSE c \in classes : c.at[1] = m)], enums |-> enums]

(***************************************************************************)
(* Sinks and sources.                                                      *)
(***************************************************************************)
\* The program of an argv that starts with a list; of another, what it starts with.
Program(argv, other) ==
    LET left == Leftmost(argv)
    IN  CASE left.k \in {"list", "tuple"} -> SubSeq(left.sub, 1, 1)
          [] left.k = "name" -> <<left>>
          [] OTHER -> <<other>>

\* A URL whose host is literal, also when a template is filled in.
Pinned(n) ==
    HostPinned(n) \/ (n.k = "call" /\ IsMethod(n) /\ Called(n) = "format" /\ Receiver(n).at = <<"pinned">>)

\* What a call does with which of its arguments.
SinkArgs(call, ctx) ==
    LET path == Text(call.sub[1])
        last == Called(call)
        pos == Positional(call)
        first == SubSeq(pos, 1, 1)
        Sink(kind, args) == <<[kind |-> kind, args |-> args]>>
        IfAny(kind, args) == IF args = <<>> THEN <<>> ELSE Sink(kind, args)
        once == pos[1].k = "name" /\ pos[1].at \in DOMAIN ctx.assigns
                    /\ Len(ctx.assigns[pos[1].at]) = 1 /\ ctx.assigns[pos[1].at][1].k \in {"list", "bin"}
        argv == IF once THEN ctx.assigns[pos[1].at][1] ELSE pos[1]
        program == Program(argv, IF once THEN Leftmost(argv) ELSE argv)
        http == path \in {<<"requests", "get">>, <<"requests", "post">>}
                    \/ (IsMethod(call) /\ last \in {"get", "post"}
                            /\ ReceiverKind(Receiver(call), ctx.objects) = "http")
    IN  CASE path = <<"os", "system">> -> Sink("shell", first)
          [] path = <<"subprocess", "run">> ->
               IF pos = <<>> THEN <<>>
               ELSE IfAny("shell", IF Keyword(call, "shell") # <<>> THEN first ELSE program)
          [] path = <<"eval">> -> Sink("code", first)
          [] IsMethod(call) /\ last = "execute" -> Sink("sql", first)
          [] IsMethod(call) /\ last = "run" /\ ReceiverKind(Receiver(call), ctx.objects) = "sqldb" ->
               Sink("sql", first)
          [] path = <<"open">> -> IF Len(pos) > 1 /\ pos[2].at = <<"w">> THEN Sink("file", first) ELSE <<>>
          [] path = <<"os", "remove">> -> Sink("file", first)
          [] path = <<"shutil", "move">> -> Sink("file", SubSeq(pos, 1, 2))
          [] IsMethod(call) /\ last = "write_text" /\ Receiver(call).k # "lit" ->
               Sink("file", <<Receiver(call)>>)
          [] http -> Sink("ssrf", first)
                         \o (IF last = "post" THEN Sink("send", Keyword(call, "json") \o Tail(pos)) ELSE <<>>)
          [] IsMethod(call) /\ last = "sendmail" -> IfAny("recipient", SubSeq(pos, 2, 2))
          [] last = "render_template_string" -> Sink("ssti", first)
          [] last = "Markup" -> Sink("html", first)
          [] path = <<"pickle", "loads">> -> Sink("deser", first)
          [] OTHER -> <<>>

\* The functions with side effects of their own.
FuncEffects(module, objects, assigns) ==
    LET Kinds2(c) == {s.kind : s \in ToSet(SinkArgs(c, [objects |-> objects, assigns |-> assigns]))}
    IN  {d.at[1] : d \in {x \in ToSet(Defs(module)) :
            \E c \in Nodes(x) : c.k = "call" /\ Kinds2(c) \ {"ssrf", "html"} # {}}}

\* The text names the input of a request.
IsRequest(n) == \E x \in Nodes(n) : x.k = "attr" /\ Text(x) = <<"request", "args">>

\* A file whose path is built from a variable.
VariableFile(recv) ==
    LET file == Leftmost(recv)
        path == Positional(file)
        callees == UNION {Nodes(c.sub[1]) : c \in {x \in Nodes(path[1]) : x.k = "call"}}
    IN  /\ file.k = "call" /\ Called(file) \in {"open", "Path"} /\ path # <<>>
        /\ \E x \in Nodes(path[1]) \ callees : x.k = "name" /\ x.at # <<"BASE">>

\* An environment variable whose name says that it holds a credential.
IsSecret(n) ==
    \/ n.k = "index" /\ Text(n.sub[1]) = <<"os", "environ">> /\ n.sub[2].at = <<"API_KEY">>
    \/ n.k = "call" /\ Text(n.sub[1]) = <<"os", "getenv">> /\ n.sub[2].at = <<"API_KEY">>

\* What a call brings in by itself: the answer of a model, or untrusted data.
Source(call, ctx) ==
    LET fn == call.sub[1]
        path == Text(fn)
        last == Called(call)
        kind == IF IsMethod(call) THEN ReceiverKind(Receiver(call), ctx.objects) ELSE None
        format == Keyword(call, "response_format")
        Answer(model, validated) ==
            One("llm", [Fresh(call.line) EXCEPT !.model = model, !.validated = validated])
        model == IF format # <<>> /\ format[1].k = "name" THEN format[1].at[1] ELSE None
        parent == Text(Receiver(call))
        asked == last \in SOURCE_METHODS
                     /\ (last = "create" => parent # <<>> /\ Last(parent) \in CREATE_PARENTS)
        External == Untrusted(call.line, TRUE)
    IN  CASE path \in DIRECT_SOURCES -> Answer(model, FALSE)
          [] fn.k = "name" /\ Kinds(ctx.objects, path) = "llm-callable" -> Answer(model, FALSE)
          [] kind = "llm-structured" /\ asked ->
               LET root == RootName(Receiver(call), ctx.objects)
               IN  Answer(IF root = <<>> THEN model ELSE ctx.objects[root].schema, TRUE)
          [] kind = "llm" /\ asked -> Answer(model, FALSE)
          [] IsMethod(call) /\ IsSuffix(<<"chat", "completions", "create">>, path) -> Answer(model, FALSE)
          [] IsMethod(call) /\ \/ kind = "retriever" /\ last = "invoke"
                               \/ last \in RETRIEVAL_METHODS
                               \/ kind = "loader" /\ last = "load"
                               \/ kind = "http" /\ last \in {"get", "post"}
                               \/ last = "read" /\ VariableFile(Receiver(call))
                               \/ kind = "mailbox" /\ last = "fetch" -> External
          [] path \in {<<"requests", "get">>, <<"requests", "post">>} -> External
          [] IsRequest(fn) \/ path = <<"input">> -> Untrusted(call.line, FALSE)
          [] OTHER -> Clean

\* The expressions of a node that are text of a system prompt.
SystemPromptExprs(n) ==
    LET Role(x) == Entry(x, "role")
    IN  CASE n.k = "dict" /\ Role(n) # <<>> /\ Role(n)[1].at = <<"system">> -> Entry(n, "content")
          [] n.k = "tuple" /\ Len(n.sub) = 2 /\ n.sub[1].at = <<"system">> -> <<n.sub[2]>>
          [] n.k = "call" /\ Called(n) = "SystemMessage" -> SubSeq(Positional(n), 1, 1)
          [] n.k = "call" /\ Called(n) \in {"create", "create_agent"} ->
               Keyword(n, "instructions") \o Keyword(n, "system_prompt")
          [] OTHER -> <<>>

PromptArgs(call) ==
    Positional(call) \o FlattenSeq([i \in 1..Len(call.sub) |->
        IF call.sub[i].k = "kw" /\ call.sub[i].at[1] \notin NON_PROMPT_KWARGS THEN call.sub[i].sub ELSE <<>>])

CallTools(call, ctx) ==
    LET root == IF IsMethod(call) THEN RootName(Receiver(call), ctx.objects) ELSE <<>>
    IN  ToSet(ToolsArg(call)) \cup (IF root \in DOMAIN ctx.objTools THEN ctx.objTools[root] ELSE {})

\* What is known of the tools of two expressions.
Both(f, g) ==
    [t \in DOMAIN f \cup DOMAIN g |->
        (IF t \in DOMAIN f THEN f[t] ELSE {}) \cup (IF t \in DOMAIN g THEN g[t] ELSE {})]

RECURSIVE ResolveTools(_, _, _)
\* The tools an expression names, with what is known of them.
ResolveTools(n, ctx, depth) ==
    LET Of(x) ==
            CASE x.k = "name" /\ x.at \in ctx.toolFuncs -> One(x.at[1], {})
              [] x.k = "name" /\ x.at \in DOMAIN ctx.assigns /\ depth < 3 ->
                   FoldLeft(LAMBDA acc, right : Both(acc, ResolveTools(right, ctx, depth + 1)),
                            <<>>, ctx.assigns[x.at])
              [] x.k = "call" /\ Called(x) \in DOMAIN BUILTIN_TOOL_CAPS ->
                   One(Called(x), BUILTIN_TOOL_CAPS[Called(x)])
              [] x.k = "call" /\ Called(x) \in BUILTIN_TOOL_EXTERNAL -> One(Called(x), {})
              [] OTHER -> <<>>
    IN  FoldLeft(LAMBDA acc, x : Both(acc, Of(x)), <<>>, Preorder(n))

ToolsOf(call, ctx) ==
    FoldLeft(Both, <<>>, SetToSeq({ResolveTools(n, ctx, 0) : n \in CallTools(call, ctx)}))

\* The literals of the constants of a module, by name.
ConstantStrings(module) ==
    LET Literals(n) == {x \in Nodes(n) : x.k = "lit"}
        Add(acc, n) == IF n.k = "assign" /\ n.sub[1].k = "name" /\ Literals(n.sub[2]) # {}
                       THEN Put(acc, n.sub[1].at, Literals(n.sub[2])) ELSE acc
    IN  FoldLeft(Add, <<>>, module.sub)

(***************************************************************************)
(* The state of the walk. ctx is what is known before it, and the scope    *)
(* maps names and attributes, as sequences, to taints; control has the     *)
(* conditions of the enclosing branches that something untrusted decides,  *)
(* and rets what each function that is walked returns.                     *)
(***************************************************************************)
Assignments(bound) ==
    FoldLeft(LAMBDA acc, b : Put(acc, b.key, Append(IF b.key \in DOMAIN acc THEN acc[b.key] ELSE <<>>, b.right)),
             <<>>, bound)

ContextOf(module, objects, assigns) ==
    [js |-> FALSE, objects |-> objects, assigns |-> assigns, effects |-> FuncEffects(module, objects, assigns),
     objTools |-> ObjectTools(module, objects), rag |-> RagObjects(module, objects),
     toolFuncs |-> ToolFuncs(module), local |-> LocalFuncs(module), models |-> ModelIndex(module),
     consts |-> ConstantStrings(module)]

Context(module) == ContextOf(module, CollectObjects(module), Assignments(Bindings(module)))

Start(ctx) ==
    [ctx |-> ctx, scope |-> <<>>, lookups |-> <<>>, control |-> <<>>, loop |-> 0, rets |-> <<>>,
     stack |-> <<>>, memo |-> <<>>, calls |-> <<>>, caps |-> <<>>, gives |-> <<>>, found |-> {}]

R(v, m) == [v |-> v, m |-> m]

RECURSIVE Walk(_, _, _)

\* One recursion: the taints of an expression, the sinks inside it, and a statement.
Ev(n, m) == Walk("value", n, m)
CheckAll(n, m) == Walk("sinks", n, m).m
Statement(n, m) == Walk("statement", n, m).m

EvAll(ns, m) ==
    FoldLeft(LAMBDA acc, n : LET r == Ev(n, acc.m) IN R(Append(acc.v, r.v), r.m), R(<<>>, m), ns)

UnionOf(ns, m) == LET r == EvAll(ns, m) IN R(FoldLeft(Merge, Clean, r.v), r.m)

RECURSIVE InOrder(_, _)
\* _walk_stmts, _generic: nodes in the order of the source; a node that is neither a
\* statement nor an expression is its children.
InOrder(ns, m) ==
    LET n == Head(ns)
    IN  CASE ns = <<>> -> m
          [] n.k = "block" \/ n.k \in CLAUSES -> InOrder(n.sub \o Tail(ns), m)
          [] OTHER -> InOrder(Tail(ns), After(m, Walk(IF n.k \in STATEMENTS THEN "statement" ELSE "sinks", n, m).m))

Block(block, m) == InOrder(block.sub, m)

(***************************************************************************)
(* Values.                                                                 *)
(***************************************************************************)
RECURSIVE Tested(_)
\* The values a condition tests: of a comparison, what it compares.
Tested(n) ==
    IF n.k \in {"cmp", "bool", "not"} THEN FlattenSeq([i \in DOMAIN n.sub |-> Tested(n.sub[i])])
    ELSE <<n>>

DecidedBy(cond, m) == UnionOf(Tested(cond), m)

Field(t, attr, models) ==
    LET fields == models.fields
        known == t.model \in DOMAIN fields /\ attr \in DOMAIN fields[t.model]
    IN  IF known THEN fields[t.model][attr] ELSE [fixed |-> TRUE, holds |-> None]

\* An attribute of a value: a field of a validated one is judged by the schema.
AttrOf(base, attr, models) ==
    LET kept == {f \in DOMAIN base :
                    IF base[f].validated
                    THEN Field(base[f], attr, models).holds # None \/ ~Field(base[f], attr, models).fixed
                    ELSE f = "llm" => attr \notin CLEAN_ATTRS}
        Of(f, t) ==
            IF t.validated
            THEN LET field == Field(t, attr, models)
                 IN  IF field.holds # None THEN [t EXCEPT !.model = field.holds]
                     ELSE [t EXCEPT !.validated = FALSE]
            ELSE [t EXCEPT !.validated = f = "llm" /\ attr = "parsed"]
    IN  [f \in kept |-> Of(f, base[f])]

EvAttribute(n, m) ==
    LET obj == n.sub[1]
        base == Ev(obj, m)
        stored == obj.k = "name" /\ Kinds(m.ctx.objects, obj.at) = "orm" /\ n.at[1] \in FREE_TEXT
    IN  IF Text(n) # <<>> /\ Text(n) \in DOMAIN m.scope THEN R(m.scope[Text(n)], m)
        ELSE IF IsRequest(n) THEN R(Untrusted(n.line, FALSE), m)
        ELSE IF stored THEN R(Untrusted(n.line, TRUE), m)
        ELSE R(AttrOf(base.v, n.at[1], m.ctx.models), base.m)

EvSubscript(n, m) ==
    LET value == Ev(n.sub[1], m)
        key == Ev(n.sub[2], value.m)
    IN  IF IsRequest(n) THEN R(Untrusted(n.line, FALSE), m)
        ELSE IF IsSecret(n) THEN R(Secret(n.line), m)
        ELSE R(Selected(value.v, key.v), key.m)

\* then IF test ELSE other
EvConditional(n, m) ==
    LET values == UnionOf(<<n.sub[1], n.sub[3]>>, m)
        test == DecidedBy(n.sub[2], values.m)
    IN  R(Selected(values.v, test.v), test.m)

EvParts(n, m) ==
    LET parts == UnionOf(n.sub, m)
        fixed == CASE n.k = "dict" -> Entry(n, "role") # <<>> /\ Entry(n, "role")[1].k = "lit"
                   [] n.k = "tuple" -> Len(n.sub) = 2 /\ n.sub[1].k = "lit"
                   [] OTHER -> n.k = "fstring"
    IN  IF fixed THEN R(ContentOnly(parts.v), parts.m) ELSE parts

\* What a comprehension keeps is selected by what it goes over and what it tests.
EvComprehension(n, m) ==
    LET Clause(acc, c) ==
            LET by == IF c.k = "if" THEN DecidedBy(c.sub[1], acc.m) ELSE Ev(c, acc.m)
            IN  R(Selected(acc.v, by.v), by.m)
    IN  FoldLeft(Clause, UnionOf(n.sub, m), Tail(n.sub))

(***************************************************************************)
(* Calls.                                                                  *)
(***************************************************************************)
\* The external content that reaches a model call: in its prompt, retrieved by the object
\* itself, or returned by its tools.
CallSources(call, m) ==
    LET prompt == EvAll(PromptArgs(call), m)
        args == SelectSeq(prompt.v, LAMBDA ts : "untrusted" \in DOMAIN ts /\ ts["untrusted"].external)
        root == IF IsMethod(call) THEN RootName(Receiver(call), m.ctx.objects) ELSE <<>>
        tools == DOMAIN ToolsOf(call, m.ctx)
        given == {m.gives[t] : t \in tools \cap DOMAIN m.gives}
    IN  R([i \in DOMAIN args |-> args[i]["untrusted"].line]
              \o (IF root \in m.ctx.rag THEN <<call.line>> ELSE <<>>)
              \o SetToSeq(given)
              \o (IF tools \cap BUILTIN_TOOL_EXTERNAL # {} THEN <<call.line>> ELSE <<>>),
          prompt.m)

\* The answer of a model remembers external content that was in its prompt.
EvSource(call, source, m) ==
    LET from == CallSources(call, m)
    IN  IF "llm" \notin DOMAIN source THEN R(source, m)
        ELSE R([source EXCEPT !["llm"].via = IF from.v = <<>> THEN 0 ELSE from.v[1]], from.m)

Params(def) == SelectSeq(def.sub, LAMBDA n : n.k = "param")
Body(def) == Last(def.sub)

\* The body of a local function is walked once for each combination of taints of its
\* arguments; a call that recurs, or is nested too deep, returns nothing tainted.
InlineWith(call, keywords, args, m) ==
    LET name == call.sub[1].at[1]
        def == m.ctx.local[name]
        params == [i \in DOMAIN Params(def) |-> Params(def)[i].at[1]]
        pos == Positional(call)
        Passed(p) ==
            LET byName == {i \in DOMAIN keywords : keywords[i].at[1] = p}
                byPlace == {i \in DOMAIN pos : i <= Len(params) /\ params[i] = p}
            IN  {i + Len(pos) : i \in byName} \cup byPlace
        tainted == {p \in ToSet(params) : \E i \in Passed(p) : args.v[i] # Clean}
        Shape(p, t) == {<<p, f, t[f].line, t[f].via, t[f].kinds, t[f].validated>> : f \in DOMAIN t}
        Return(after, key) ==
            [v |-> Last(after.rets),
             m |-> [after EXCEPT !.memo = Put(@, key, Last(after.rets)), !.stack = m.stack,
                                 !.rets = m.rets, !.control = m.control, !.scope = m.scope]]
        Body1(callee, key) ==
            IF key \in DOMAIN args.m.memo THEN R(args.m.memo[key], args.m)
            ELSE Return(Block(Body(def),
                              [args.m EXCEPT !.memo = Put(@, key, Clean), !.stack = Append(@, name),
                                             !.rets = Append(@, Clean), !.control = <<>>, !.scope = callee]), key)
        With(callee) == Body1(callee, <<name, UNION {Shape(p, callee[p]) : p \in DOMAIN callee}>>)
    IN  IF params # <<>> /\ params[1] = "self" THEN R(Clean, m)
        ELSE With([key \in {<<p>> : p \in tainted} |->
                      args.v[Max({i \in Passed(key[1]) : args.v[i] # Clean})]])

Inline(call, m) ==
    LET keywords == SelectSeq(Tail(call.sub), LAMBDA n : n.k = "kw")
        given == Positional(call) \o [i \in DOMAIN keywords |-> keywords[i].sub[1]]
        followed == call.sub[1].at[1] \notin ToSet(m.stack) /\ Len(m.stack) < MaxInline
    IN  IF followed THEN InlineWith(call, keywords, EvAll(given, m), m) ELSE R(Clean, m)

IsLocal(call, m) == call.sub[1].k = "name" /\ call.sub[1].at[1] \in DOMAIN m.ctx.local

EvLocal(call, args) ==
    LET With(body) == R(Merge(args.v, body.v), body.m)
    IN  With(Inline(call, args.m))

\* A value looked up by a key comes from the table or is the default. Only methods of strings
\* keep a secret in the result.
EvOtherCall(call, m) ==
    LET last == Called(call)
        method == IsMethod(call)
        recv == IF method THEN Ev(Receiver(call), m) ELSE R(Clean, m)
        rest == UnionOf(IF method /\ last = "get" THEN Tail(Arguments(call)) ELSE Arguments(call), recv.m)
        all == Merge(recv.v, rest.v)
        carried == IF method /\ last \in STRING_METHODS THEN all ELSE Without(all, {"secret"})
        removed == IF last \in DOMAIN KIND_SANITIZERS THEN KIND_SANITIZERS[last] ELSE {}
    IN  CASE method /\ last \in CLEAN_METHODS /\ recv.v # Clean -> R(Clean, recv.m)
          [] method /\ last = "get" -> R(all, rest.m)
          [] OTHER -> R(Strip(carried, removed), rest.m)

EvCall(call, m) ==
    LET source == Source(call, m.ctx)
        args == UnionOf(Arguments(call), m)
        last == Called(call)
        plain == call.sub[1].k = "name"
        schema == IF plain THEN last
                  ELSE IF IsMethod(call) /\ Receiver(call).k = "name" THEN Receiver(call).at[1]
                  ELSE None
    IN  CASE source # Clean -> EvSource(call, source, m)
          [] IsSecret(call) -> R(Secret(call.line), m)
          [] plain /\ last \in CLEAN_FUNCS -> R(Clean, m)
          [] IsLocal(call, m) -> EvLocal(call, args)
          [] (plain /\ last = "str") \/ last \in MESSAGES -> R(ContentOnly(args.v), args.m)
          [] \/ IsMethod(call) /\ last \in VALIDATE_METHODS
             \/ plain /\ last \in DOMAIN m.ctx.models.fields -> R(Validated(args.v, schema), args.m)
          [] last = "validate_json" -> R(Validated(args.v, None), args.m)
          [] plain /\ last \in m.ctx.models.enums -> R(Clean, m)
          [] OTHER -> EvOtherCall(call, m)

Value(n, m) ==
    CASE n.k \in {"lit", "cmp", "not", "lambda"} -> R(Clean, m)
      [] n.k = "name" -> R(Get(m.scope, n.at), m)
      [] n.k = "attr" -> EvAttribute(n, m)
      [] n.k = "index" -> EvSubscript(n, m)
      [] n.k = "call" -> EvCall(n, m)
      [] n.k = "cond" -> EvConditional(n, m)
      [] n.k = "comp" -> EvComprehension(n, m)
      [] OTHER -> EvParts(n, m)

(***************************************************************************)
(* What is reported.                                                       *)
(***************************************************************************)
CheckSink(call, m) ==
    LET Check(acc, s) ==
            FoldLeft(LAMBDA a, arg :
                        LET r == Ev(arg, a)
                        IN  IF s.kind = "ssrf" /\ Pinned(arg) THEN a
                            ELSE Hit(r.m, s.kind, call.line, r.v), acc, s.args)
    IN  FoldLeft(Check, m, SinkArgs(call, m.ctx))

RECURSIVE Messages(_)
\* The parts of a list of messages: roles, and values that are messages as a whole.
Messages(n) ==
    CASE n.k \in {"paren", "splat"} -> Messages(n.sub[1])
      [] n.k = "bin" -> Messages(n.sub[1]) \o Messages(n.sub[2])
      [] n.k = "list" ->
           FlattenSeq([i \in DOMAIN n.sub |->
               LET el == n.sub[i]
                   role == Entry(el, "role")
               IN  IF el.k = "dict" THEN [j \in DOMAIN role |-> [role |-> TRUE, node |-> role[j]]]
                   ELSE Messages(el)])
      [] OTHER -> <<[role |-> FALSE, node |-> n]>>

\* The first role or message that somebody outside controls.
RoleControl(target, m) ==
    LET parts == Messages(target)
        r == EvAll([i \in DOMAIN parts |-> parts[i].node], m)
        Bad(i) == /\ "untrusted" \in DOMAIN r.v[i]
                  /\ LET t == r.v[i]["untrusted"] IN parts[i].role \/ (t.structural /\ ~t.external)
        bad == {i \in DOMAIN parts : Bad(i)}
    IN  IF bad = {} THEN r.m
        ELSE Report(r.m, MessageRole(r.v[Min(bad)]["untrusted"]))

CheckRoles(call, m) ==
    LET pos == Positional(call)
        inDict == IF pos # <<>> /\ pos[1].k = "dict"
                  THEN Entry(pos[1], "messages") \o Entry(pos[1], "input") ELSE <<>>
        targets == Keyword(call, "messages") \o Keyword(call, "input") \o Keyword(call, "contents") \o inDict
    IN  FoldLeft(LAMBDA acc, t : RoleControl(t, acc), m, targets)

CheckModelCall(call, m) ==
    LET line == call.line
        noted == [m EXCEPT !.calls = IF line \in DOMAIN @ THEN @ ELSE Put(@, line, NewCall)]
        Known(from) == [from.m EXCEPT !.calls[line].sources = @ \cup ToSet(from.v),
                                      !.calls[line].tools = Both(@, ToolsOf(call, m.ctx))]
        Sent(acc, ts) ==
            IF "secret" \in DOMAIN ts THEN Report(acc, SecretToModel(ts["secret"])) ELSE acc
        Read(prompt) == CheckRoles(call, FoldLeft(Sent, prompt.m, prompt.v))
    IN  IF "llm" \notin DOMAIN Source(call, m.ctx) THEN m
        ELSE Read(EvAll(PromptArgs(call), Known(CallSources(call, noted))))

\* Untrusted data chooses which tools a model gets, and one of them has effects.
CheckToolSelection(call, m) ==
    LET given == ToolsArg(call)
        r == Ev(given[1], m)
        tools == ResolveTools(given[1], m.ctx, 0)
        raw == "untrusted" \in DOMAIN r.v /\ r.v["untrusted"].structural /\ ~r.v["untrusted"].external
        effectful == {t \in DOMAIN tools : tools[t] # {} \/ t \in m.ctx.effects \cup DOMAIN r.m.caps}
    IN  IF given = <<>> THEN m
        ELSE IF ("selector" \in DOMAIN r.v \/ raw) /\ effectful # {}
        THEN Report(r.m, ToolSelection(call.line))
        ELSE r.m

\* The literals of an expression and of the constants it names.
Leaks(expr, m, what) ==
    {n \in Nodes(expr) \cup UNION {m.ctx.consts[x.at] : x \in {y \in Nodes(expr) :
                                       y.k = "name" /\ y.at \in DOMAIN m.ctx.consts}} :
        n.k = "lit" /\ n.at = <<what>>}

LeakFindings(expr, m) ==
    {<<"secret-in-system-prompt", "", n.line>> : n \in Leaks(expr, m, "credential")}
        \cup {<<"internal-url-in-system-prompt", "", n.line>> : n \in Leaks(expr, m, "internal url")}

SystemPrompt(expr, m) ==
    LET leaked == [m EXCEPT !.found = @ \cup LeakFindings(expr, m)]
        r == Ev(expr, leaked)
    IN  IF "untrusted" \in DOMAIN r.v
        THEN Report(r.m, InputInSystemPrompt(r.v["untrusted"]))
        ELSE r.m

\* The nodes of an expression that may hold a sink or a prompt.
Checkable(n) == SelectSeq(Preorder(n), LAMBDA x : x.k \in {"call", "dict", "tuple"})

\* The body of a local function is walked for the sinks in it.
Follow(call, m) == IF IsLocal(call, m) THEN Ev(call, m).m ELSE m

CheckCall(n, m) == IF n.k = "call" THEN Follow(n, CheckToolSelection(n, CheckModelCall(n, CheckSink(n, m)))) ELSE m

CheckPrompt(n, m) == FoldLeft(LAMBDA acc, e : SystemPrompt(e, acc), m, SystemPromptExprs(n))

RECURSIVE CheckNodes(_, _)
CheckNodes(ns, m) ==
    IF ns = <<>> THEN m ELSE CheckNodes(Tail(ns), CheckPrompt(Head(ns), CheckCall(Head(ns), m)))

(***************************************************************************)
(* Guards.                                                                 *)
(***************************************************************************)
TaintedNames(n, m) ==
    {Text(x) : x \in {y \in Nodes(n) : y.k \in {"name", "attr"} /\ Text(y) \in DOMAIN m.scope}}

RECURSIVE Root(_)
Root(n) == IF n.k \in {"attr", "index"} THEN Root(n.sub[1]) ELSE n

\* What an allowlist comparison constrains: a name, or the argument of a call such as urlparse.
CheckedValue(n, m) ==
    IF Text(n) # <<>> /\ Text(n) \in DOMAIN m.scope THEN {Text(n)}
    ELSE IF Root(n).k = "call" THEN TaintedNames(Root(n), m)
    ELSE {}

LookedUp(n, m) == IF n.k = "name" /\ n.at \in DOMAIN m.lookups THEN m.lookups[n.at] ELSE {}

GuardedByCall(n, m) ==
    LET path == Text(n.sub[1])
        last == Called(n)
        pos == Positional(n)
        weak == last = "startswith" /\ pos # <<>> /\ pos[1].at = <<"weak">>
        Names(ns) == UNION {TaintedNames(x, m) : x \in ToSet(ns)}
    IN  CASE path = <<"re", "fullmatch">> -> Names(Tail(pos))
          [] IsMethod(n) /\ last = "fullmatch" -> Names(pos)
          [] IsMethod(n) /\ last \in CHECK_METHODS -> IF weak THEN {} ELSE TaintedNames(Receiver(n), m)
          [] path = <<"os", "path", "commonpath">> -> Names(pos)
          [] OTHER -> {}

GuardedBy(n, m) ==
    LET op == n.at[1]
        Opposite(is(_)) == {i \in {1, 2} : is(n.sub[3 - i])}
        IsNone(x) == x.k = "lit" /\ x.at = <<"None">>
    IN  CASE n.k = "cmp" /\ op \in {"in", "not in"} ->
               IF n.sub[2].k \in {"lit", "fstring"} \/ TaintedNames(n.sub[2], m) # {} THEN {}
               ELSE CheckedValue(n.sub[1], m)
          [] n.k = "cmp" /\ op \in {"==", "!="} ->
               UNION {CheckedValue(n.sub[i], m) :
                          i \in Opposite(LAMBDA x : x.k \in {"lit", "fstring"} /\ ~IsNone(x))}
          [] n.k = "cmp" /\ op \in {"is", "is not"} ->
               UNION {LookedUp(n.sub[i], m) : i \in Opposite(IsNone)}
          [] n.k = "not" -> LookedUp(n.sub[1], m)
          [] n.k = "call" -> GuardedByCall(n, m)
          [] OTHER -> {}

GuardedNames(cond, m) == UNION {GuardedBy(n, m) : n \in Nodes(cond)}

(***************************************************************************)
(* Statements.                                                             *)
(***************************************************************************)
RECURSIVE Targets(_)
Targets(n) == IF n.k \in {"name", "attr", "index"} THEN <<n>>
              ELSE FlattenSeq([i \in DOMAIN n.sub |-> Targets(n.sub[i])])

\* A branch that something untrusted decides selects what is bound in it.
InBranch(ts, m) == IF m.control = <<>> THEN ts ELSE Merge(ts, One("selector", Last(m.control)))

MergeInto(m, key, ts) ==
    IF ts = Clean THEN m ELSE [m EXCEPT !.scope = Put(@, key, Merge(Get(@, key), ts))]

Bind(target, ts, m, strong) ==
    LET One1(acc, n) ==
            LET chosen == InBranch(ts, acc)
            IN  IF n.k = "index" THEN MergeInto(acc, Text(n.sub[1]), ts)
                ELSE IF ~strong THEN MergeInto(acc, Text(n), chosen)
                ELSE IF chosen = Clean THEN [acc EXCEPT !.scope = Drop(@, {Text(n)})]
                ELSE [acc EXCEPT !.scope = Put(@, Text(n), chosen)]
    IN  FoldLeft(One1, m, Targets(target))

\* msg["To"] = value is a recipient of mail.
HeaderSinks(n, m) ==
    LET left == n.sub[1]
        right == n.sub[2]
        paired == left.k = "tuple" /\ right.k = "tuple" /\ Len(left.sub) = Len(right.sub)
        pairs == IF paired THEN [i \in DOMAIN left.sub |-> <<left.sub[i], right.sub[i]>>]
                 ELSE <<<<left, right>>>>
        Header(acc, p) ==
            LET r == Ev(p[2], acc)
            IN  IF p[1].k = "index" /\ p[1].sub[2].k = "lit" /\ p[1].sub[2].at[1] \in EMAIL_HEADERS
                THEN Hit(r.m, "recipient", n.line, r.v) ELSE acc
    IN  FoldLeft(Header, m, pairs)

\* row = TABLE.get(key): a later test of row vouches for key.
RecordLookup(n, m) ==
    LET left == n.sub[1]
        right == n.sub[2]
        isGet == right.k = "call" /\ IsMethod(right) /\ Called(right) = "get" /\ Positional(right) # <<>>
        keys == IF isGet THEN TaintedNames(Positional(right)[1], m) ELSE {}
        cleared == Drop(m.lookups, {left.at})
    IN  IF left.k # "name" THEN m
        ELSE [m EXCEPT !.lookups = IF keys = {} THEN cleared ELSE Put(cleared, left.at, keys)]

AssignTo(n, m) ==
    LET left == n.sub[1]
        right == n.sub[2]
        nested == right.k \in {"assign", "augmented"}
        value == IF nested THEN Ev(right.sub[1], Statement(right, m)) ELSE Ev(right, CheckAll(right, m))
        old == Ev(left, value.m)
        bound == IF n.k = "augmented" THEN Bind(left, Merge(old.v, value.v), old.m, FALSE)
                 ELSE Bind(left, value.v, value.m, TRUE)
        known == RecordLookup(n, HeaderSinks(n, bound))
    IN  IF left.k \in {"name", "attr"} /\ left.at[1] \in SYSTEM_PROMPT_NAMES THEN SystemPrompt(right, known)
        ELSE known

IsCallOf(n, methods) ==
    n.k = "call" /\ IsMethod(n) /\ Called(n) \in methods /\ Receiver(n).k \in {"name", "attr"}

\* items.append(x) puts the taints of x into items.
Mutation(n, m) ==
    LET args == UnionOf(Arguments(n), m)
    IN  IF IsCallOf(n, MUTATORS) THEN MergeInto(args.m, Text(Receiver(n)), InBranch(args.v, args.m)) ELSE m

\* jsonschema.validate(instance = data, ...) vouches for data.
SchemaGuard(n, m) ==
    LET target == Keyword(n, "instance") \o Positional(n)
        guards == n.k = "call" /\ Text(n.sub[1]) = <<"jsonschema", "validate">> /\ target # <<>>
    IN  IF guards /\ target[1].k = "name" /\ target[1].at \in DOMAIN m.scope
        THEN [m EXCEPT !.scope[target[1].at] = Validated(@, None)] ELSE m

Return(n, m) ==
    LET checked == IF n.sub = <<>> THEN m ELSE CheckAll(n.sub[1], m)
        value == Ev(n.sub[1], checked)
    IN  IF n.sub = <<>> \/ m.rets = <<>> THEN checked
        ELSE [value.m EXCEPT !.rets[Len(m.rets)] = Merge(@, value.v)]

\* The names that a condition checks are clean where it holds, and after it when the other
\* case leaves. Both branches are walked, one after the other.
If(n, m) ==
    LET cond == n.sub[1]
        cons == n.sub[2]
        tested == CheckAll(cond, m)
        guarded == GuardedNames(cond, tested)
        decided == DecidedBy(cond, tested)
        inside == IF Decides(decided.v)
                  THEN [decided.m EXCEPT !.control = Append(@, Decider(decided.v))] ELSE decided.m
        saved == Restrict(inside.scope, IF Leaves(cons) THEN {} ELSE guarded \cap DOMAIN inside.scope)
        then == Block(cons, [inside EXCEPT !.scope = Drop(@, DOMAIN saved)])
        other == InOrder(SubSeq(n.sub, 3, Len(n.sub)), [then EXCEPT !.scope = @ @@ saved])
    IN  [other EXCEPT !.control = m.control,
                      !.scope = IF Leaves(cons) THEN Drop(@, guarded) ELSE @]

\* Mutant: every body is walked once.
PassesOnce(m) == <<1>>

\* The bodies of the outer loops are walked twice: the second time sees what the first appended.
Passes(m) == IF m.loop <= LoopDepth THEN <<1, 2>> ELSE <<1>>

For(n, m) ==
    LET right == Ev(n.sub[2], CheckAll(n.sub[2], m))
        bound == [Bind(n.sub[1], right.v, right.m, TRUE) EXCEPT !.loop = @ + 1]
        Pass(acc, i) == InOrder(SubSeq(n.sub, 3, Len(n.sub)), acc)
    IN  [FoldLeft(Pass, bound, Passes(bound)) EXCEPT !.loop = m.loop]

While(n, m) ==
    LET inside == [m EXCEPT !.loop = @ + 1]
        Pass(acc, i) == Block(n.sub[2], CheckAll(n.sub[1], acc))
        after == [FoldLeft(Pass, inside, Passes(inside)) EXCEPT !.loop = m.loop]
    IN  InOrder(SubSeq(n.sub, 3, Len(n.sub)), after)

With(n, m) ==
    LET Item(acc, item) ==
            LET value == Ev(item.sub[1], CheckAll(item.sub[1], acc))
            IN  IF Len(item.sub) = 2 THEN Bind(item.sub[2], value.v, value.m, TRUE) ELSE value.m
    IN  Block(Last(n.sub), FoldLeft(Item, m, SelectSeq(Preorder(n), LAMBDA x : x.k = "item")))

\* The parameters of a tool are chosen by the model, those of a route by the client.
ParamTaint(def, param, isTool) ==
    LET name == param.at[1]
        ann == param.at[2]
        control == [Fresh(def.line) EXCEPT !.kinds = {}]
    IN  CASE ann \in CONSTRAINED -> IF isTool THEN Clean ELSE One("control", control)
          [] isTool -> One("tool-arg", [Fresh(def.line) EXCEPT !.tool = def.at[1]])
          [] OTHER -> Untrusted(def.line, ann = "UploadFile")

Function(def, m) ==
    LET isTool == <<def.at[1]>> \in m.ctx.toolFuncs
        isRoute == def.at[2] = "route" /\ ~isTool
        Skipped(p) == p.at[1] \in SKIP_PARAMS \/ (isRoute /\ (p.at[1] = "request" \/ p.at[2] = "Depends"))
        params == {p \in ToSet(Params(def)) :
                      (isTool \/ isRoute) /\ ~Skipped(p) /\ ParamTaint(def, p, isTool) # Clean}
        scope == [key \in {<<p.at[1]>> : p \in params} |->
                     ParamTaint(def, CHOOSE p \in params : p.at[1] = key[1], isTool)]
        after == Block(Body(def), [m EXCEPT !.scope = scope, !.control = <<>>, !.rets = Append(@, Clean)])
        returned == Last(after.rets)
        gives == isTool /\ "untrusted" \in DOMAIN returned /\ returned["untrusted"].external
                     /\ def.at[1] \notin DOMAIN after.gives
    IN  [after EXCEPT !.scope = m.scope, !.control = m.control, !.rets = m.rets,
                      !.gives = IF gives THEN Put(@, def.at[1], returned["untrusted"].line) ELSE @]

Execute(n, m) ==
    CASE n.k = "def" -> Function(n, m)
      [] n.k = "class" -> Block(n.sub[1], m)
      [] n.k \in {"assign", "augmented"} -> AssignTo(n, m)
      [] n.k = "expr" -> Mutation(n.sub[1], SchemaGuard(n.sub[1], CheckAll(n.sub[1], m)))
      [] n.k = "return" -> Return(n, m)
      [] n.k = "if" -> If(n, m)
      [] n.k = "for" -> For(n, m)
      [] n.k = "while" -> While(n, m)
      [] n.k = "with" -> With(n, m)
      [] OTHER -> Block(n, m)

Walk(what, n, m) ==
    CASE what = "value" -> Value(n, m)
      [] what = "sinks" -> R(Clean, CheckNodes(Checkable(n), m))
      [] what = "statement" -> R(Clean, Execute(n, m))

\* run: the findings of a module.
Analysis(module, ctx) == Findings(Statement(module, Start(ctx)))
=============================================================================
