----------------------------- MODULE PromptFlowJs -----------------------------
(***************************************************************************)
(* The analysis of JavaScript and TypeScript programs that use language    *)
(* models (scanners/llm_taint_js.py): one walk in the order of the         *)
(* statements like that of PromptFlow, with imports, closures and tools    *)
(* whose handlers are function expressions.                                *)
(*                                                                         *)
(* A table that is a set in the source has all its names; of one that is a *)
(* pattern it has the names written out, and one for each wildcard. Nodes  *)
(* are as in PromptFlow; "decl" is a declaration with a value, "fn" a      *)
(* function expression, whose line is its place in the file, and a call    *)
(* with the token "new" makes an object. Types, comments and await leave   *)
(* no node, and what a C-like loop does first stands before it.            *)
(***************************************************************************)
EXTENDS PromptValues

CONSTANTS MaxInline,   \* local calls followed inside one another
          LoopDepth    \* loops whose bodies run twice

LLM_PACKAGES ==
    {"openai", "@anthropic-ai/sdk", "@langchain/core", "langchain", "ai", "@ai-sdk/openai", "ollama",
     "ollama/browser", "@google/generative-ai", "@google/genai", "llamaindex", "@llamaindex/core",
     "@mistralai/mistralai", "groq-sdk", "cohere-ai", "@openai/agents"}
JS_LLM_CTOR ==
    {"OpenAI", "AzureOpenAI", "Anthropic", "AnthropicBedrock", "AnthropicVertex", "GoogleGenerativeAI",
     "GoogleGenAI", "Ollama", "Groq", "Mistral", "CohereClient", "CohereClientV2", "LLMChain",
     "ConversationChain", "RetrievalQAChain", "AgentExecutor", "LLM", "Agent", "ChatOpenAI", "AzureChatOpenAI"}
AI_SDK_TEXT == {"generateText", "streamText"}
AI_SDK_OBJECT == {"generateObject", "streamObject"}
SOURCE_METHODS ==
    {"create", "parse", "stream", "invoke", "call", "predict", "generateContent", "generateContentStream",
     "sendMessage", "sendMessageStream", "chat", "complete", "run", "query", "generate"}
CREATE_PARENTS == {"completions", "responses", "messages"}
DERIVE_METHODS ==
    {"getGenerativeModel", "bindTools", "bind", "withStructuredOutput", "withRetry", "withConfig",
     "startChat", "asQueryEngine", "asChatEngine"}
CLEAN_FUNCS == {"Number", "parseInt", "parseFloat", "Boolean", "isNaN"}
CLEAN_METHODS == {"startsWith", "endsWith", "includes", "indexOf", "test", "length", "has"}
SANITIZERS ==
    [sanitize |-> {"html"}, sanitizeHtml |-> {"html"}, escapeHtml |-> {"html"}, escape |-> {"html"},
     encodeURIComponent |-> {"ssrf", "shell", "html"}, quote |-> {"shell"}, basename |-> {"file"}]
SCHEMA_METHODS == {"parse", "parseAsync", "validateSync", "assert"}
STRING_METHODS ==
    {"join", "concat", "replace", "replaceAll", "trim", "toString", "slice", "substring", "toLowerCase",
     "toUpperCase", "padStart", "padEnd"}
MUTATORS == {"push", "unshift", "add", "set"}
HTTP_FUNCS == {"fetch", "axios", "got", "ky", "request"}
HTTP_VERBS == {"get", "post", "put", "patch", "delete", "head", "request"}
FS_MODULES == {"fs", "node:fs", "fs/promises", "node:fs/promises", "fs-extra"}
FS_WRITE ==
    {"writeFile", "writeFileSync", "appendFile", "appendFileSync", "unlink", "unlinkSync", "rm", "rmSync",
     "rmdir", "rmdirSync", "rename", "renameSync", "createWriteStream"}
FS_READ == {"readFile", "readFileSync"}
CP_MODULES == {"child_process", "node:child_process"}
CP_EXEC == {"exec", "execSync"}
CP_SPAWN == {"spawn", "spawnSync", "execFile", "execFileSync", "fork"}
VM_RUN == {"runInContext", "runInNewContext", "runInThisContext"}
REQUEST_MEMBER ==
    {r \o <<part>> : r \in {<<"req">>, <<"request">>, <<"ctx", "request">>},
                     part \in {"body", "query", "params", "cookies"}}
REQUEST_CALL == {<<r, call>> : r \in {"req", "request"}, call \in {"json", "formData", "text"}}
SECRET_ENV == {"SECRET", "TOKEN", "PASSWORD", "API_KEY", "PRIVATE_KEY", "CREDENTIAL", "SIGNING_KEY"}
SQL_RECEIVER == {"db", "sql", "database", "conn", "pool", "client", "knex", "stmt"}
NON_PROMPT_KEYS ==
    {"model", "tools", "tool_choice", "toolChoice", "max_tokens", "maxTokens", "max_output_tokens",
     "maxOutputTokens", "temperature", "top_p", "topP", "stream", "response_format", "maxSteps", "stopWhen",
     "seed", "metadata", "store", "parallel_tool_calls", "reasoning", "thinking", "providerOptions",
     "abortSignal", "headers", "maxRetries", "schema", "output"}
CONSTRAINED_ZOD ==
    {<<"z", type>> : type \in {"enum", "nativeEnum", "number", "boolean", "literal", "int", "bigint", "date"}}
    \cup {<<"z", "coerce", "number">>}
\* s[i:j] of a sequence that may be shorter.
Slice(s, i, j) == SubSeq(s, i, Min({j, Len(s)}))

STATEMENTS ==
    {"decl", "assign", "augmented", "expr", "return", "raise", "if", "for", "while", "try", "def", "break", "continue"}
CLAUSES == {"else", "except", "finally", "case", "class"}

(***************************************************************************)
(* Before the walk: imports, models, functions.                            *)
(***************************************************************************)
IsNew(call) == call.at = <<"new">>

\* What one part of a pattern binds: the name itself, or the one that a key is bound to.
Bound(x) == IF x.k = "pair" THEN x.sub[1].at[1] ELSE x.at[1]

\* nodes: those of the file. Local names, with the module and the export they stand for; a module
\* as a whole stands for itself. A promisified function is the function.
CollectImports(nodes) ==
    LET Calls(n, names) ==
            n.k = "decl" /\ n.sub[2].k = "call" /\ ~IsNew(n.sub[2]) /\ Text(n.sub[2].sub[1]) \in names
        Given(n) == Slice(Positional(n.sub[2]), 1, 1)
        Whole(acc, n) == Put(acc, n.sub[1].at[1], <<Given(n)[1].at[1], Given(n)[1].at[1]>>)
        Part(acc, n, x) == Put(acc, Bound(x), <<Given(n)[1].at[1], x.at[1]>>)
        Required(acc, n) ==
            IF n.sub[1].k = "name" THEN Whole(acc, n)
            ELSE FoldLeft(LAMBDA parts, x : Part(parts, n, x), acc, n.sub[1].sub)
        Promised(acc, n) == Put(acc, n.sub[1].at[1], acc[Given(n)[1].at[1]])
        Add(acc, n) ==
            IF n.k = "import" THEN Put(acc, n.at[1], <<n.at[2], n.at[3]>>)
            ELSE IF Calls(n, {<<"promisify">>, <<"util", "promisify">>})
            THEN IF n.sub[1].k = "name" /\ \E x \in ToSet(Given(n)) : x.k = "name" /\ x.at[1] \in DOMAIN acc
                 THEN Promised(acc, n) ELSE acc
            ELSE IF Calls(n, {<<"require">>, <<"import">>}) /\ \E x \in ToSet(Given(n)) : x.k = "lit"
            THEN Required(acc, n)
            ELSE acc
    IN  FoldLeft(Add, <<>>, nodes)

ModuleOf(name, imports) == IF name \in DOMAIN imports THEN imports[name][1] ELSE None
ExportOf(name, imports) == IF name \in DOMAIN imports THEN imports[name][2] ELSE None

HeadOf(n) == LET path == Text(n) IN IF path = <<>> THEN None ELSE path[1]
RECURSIVE RootIsLlm(_, _)
\* A model, what derives one, or a chain with one in it.
IsLlmValue(v, ctx) ==
    LET fn == v.sub[1]
        imported == ModuleOf(HeadOf(fn), ctx.imports) \in LLM_PACKAGES
        helpers == AI_SDK_TEXT \cup AI_SDK_OBJECT \cup {"tool", "jsonSchema", "zodSchema"}
        derived ==
            \/ Called(v) \in DERIVE_METHODS /\ RootIsLlm(Receiver(v), ctx)
            \/ Called(v) = "pipe" /\ \E x \in ToSet(Positional(v)) \cup {Receiver(v)} : RootIsLlm(x, ctx)
    IN  /\ v.k = "call"
        /\ IF IsNew(v) THEN imported /\ Called(v) \in JS_LLM_CTOR
           ELSE \/ fn.k = "name" /\ imported /\ ExportOf(fn.at[1], ctx.imports) \notin helpers
                \/ IsMethod(v) /\ derived

RootIsLlm(n, ctx) ==
    CASE n.k = "name" -> n.at \in ctx.objects
      [] n.k = "attr" -> Text(n) \in ctx.objects \/ RootIsLlm(n.sub[1], ctx)
      [] n.k = "call" -> IsLlmValue(n, ctx)
      [] OTHER -> FALSE

Declared(nodes) ==
    SelectSeq(nodes, LAMBDA n : n.k \in {"decl", "assign"} /\ Text(n.sub[1]) # <<>>)

\* Three passes, since a model may derive from one that is bound later.
CollectObjects(decls, imports) ==
    LET Add(objects, n) ==
            IF IsLlmValue(n.sub[2], [imports |-> imports, objects |-> objects])
            THEN objects \cup {Text(n.sub[1])} ELSE objects
        Pass(objects, i) == FoldLeft(Add, objects, decls)
    IN  FoldLeft(Pass, {}, <<1, 2, 3>>)

McpServers(decls, imports) ==
    LET IsServer(v) ==
            /\ v.k = "call" /\ IsNew(v)
            /\ \/ Called(v) = "McpServer"
               \/ Called(v) = "Server" /\ ModuleOf(HeadOf(v.sub[1]), imports) = "@modelcontextprotocol/sdk"
    IN  {Text(n.sub[1]) : n \in {x \in ToSet(decls) : IsServer(x.sub[2])}}

RECURSIVE RootName(_)
\* The name that a chain of attributes and method calls starts with.
RootName(n) ==
    CASE n.k = "name" -> n.at
      [] n.k = "attr" -> RootName(n.sub[1])
      [] n.k = "call" /\ ~IsNew(n) /\ IsMethod(n) -> RootName(Receiver(n))
      [] OTHER -> <<>>

\* Functions defined once are followed at their calls.
CollectFunctions(nodes) ==
    LET Named(n) == n.k = "def" \/ (n.k = "decl" /\ n.sub[1].k = "name" /\ n.sub[2].k = "fn")
        defs == SelectSeq(nodes, Named)
        NameOf(n) == IF n.k = "def" THEN n.at[1] ELSE n.sub[1].at[1]
        Once(n) == Len(SelectSeq(defs, LAMBDA x : NameOf(x) = NameOf(n))) = 1
    IN  FoldLeft(LAMBDA acc, n : Put(acc, NameOf(n), IF n.k = "def" THEN n ELSE n.sub[2]),
                 <<>>, SelectSeq(defs, Once))

\* The names that calls are given by where they stand: a declaration or a key.
Owners(nodes) ==
    {[call |-> n.sub[2], by |-> "decl", name |-> n.sub[1].at[1]] :
         n \in {x \in ToSet(nodes) : x.k = "decl" /\ x.sub[1].k = "name"}}
    \cup {[call |-> n.sub[1], by |-> "pair", name |-> n.at[1]] : n \in {x \in ToSet(nodes) : x.k = "pair"}}

Context(module) ==
    LET nodes == Preorder(module)
        decls == Declared(nodes)
        imports == CollectImports(nodes)
    IN  [js |-> TRUE, imports |-> imports, objects |-> CollectObjects(decls, imports),
         servers |-> McpServers(decls, imports), local |-> CollectFunctions(nodes), owners |-> Owners(nodes)]

Start(ctx) ==
    [ctx |-> ctx, scope |-> <<>>, loop |-> 0, rets |-> <<>>, stack |-> <<>>, memo |-> <<>>, calls |-> <<>>,
     caps |-> <<>>, gives |-> <<>>, toolVars |-> <<>>, done |-> {}, found |-> {}]

R(v, m) == [v |-> v, m |-> m]

(***************************************************************************)
(* Sources and sinks.                                                      *)
(***************************************************************************)
\* The answer of a model.
Source(call, ctx) ==
    LET fn == call.sub[1]
        last == Called(call)
        imported == fn.k = "name" /\ ModuleOf(fn.at[1], ctx.imports) = "ai"
        Exported(names) == imported /\ ExportOf(fn.at[1], ctx.imports) \in names
        Answer(validated) == One("llm", [Fresh(call.line) EXCEPT !.validated = validated])
        ollama == ModuleOf(HeadOf(fn), ctx.imports) \in {"ollama", "ollama/browser"} /\ last \in {"chat", "generate"}
        parent == Receiver(call)
        asked == /\ last \in SOURCE_METHODS /\ RootIsLlm(parent, ctx)
                 /\ last \in {"create", "parse", "stream"} =>
                        parent.k \in {"name", "attr"} /\ Last(parent.at) \in CREATE_PARENTS
    IN  IF Exported(AI_SDK_TEXT) \/ (IsMethod(call) /\ (ollama \/ asked)) THEN Answer(FALSE)
        ELSE IF Exported(AI_SDK_OBJECT) THEN Answer(TRUE)
        ELSE Clean

\* Input of a request, and content from outside the program.
ExternalSource(call, ctx) ==
    LET fn == call.sub[1]
        last == Called(call)
        head == HeadOf(fn)
        from == ModuleOf(head, ctx.imports)
        plain == fn.k = "name"
        http == \/ plain /\ (last \in {"fetch", "axios", "got", "ky"} \/ from \in {"axios", "got", "node-fetch", "undici"})
                \/ /\ IsMethod(call) /\ last \in HTTP_VERBS
                   /\ head \in {"axios", "got", "ky"} \/ from \in {"axios", "got", "undici"}
        read == from \in FS_MODULES /\ (IF plain THEN ExportOf(head, ctx.imports) ELSE last) \in FS_READ
        args == Positional(call)
        opened == read /\ (plain \/ IsMethod(call)) /\ args # <<>> /\ args[1].k \notin {"lit", "fstring"}
    IN  IF Text(fn) \in REQUEST_CALL THEN Untrusted(call.line, FALSE)
        ELSE IF http \/ opened THEN Untrusted(call.line, TRUE)
        ELSE Clean

RECURSIVE Spine(_)
\* The attributes that the text of an expression starts with; whatever is not one ends them.
Spine(n) ==
    CASE n.k = "name" -> n.at
      [] n.k = "attr" -> Spine(n.sub[1]) \o n.at
      [] n.k \in {"call", "index"} -> Append(Spine(n.sub[1]), None)
      [] OTHER -> <<None>>

IsRequest(n) ==
    /\ n.k = "attr"
    /\ LET spine == Spine(n) IN \E i \in 2..3 : Slice(spine, 1, i) \in REQUEST_MEMBER

\* An environment variable whose name says that it holds a credential.
IsSecret(n) ==
    \/ n.k = "attr" /\ \E name \in SECRET_ENV : Text(n) = <<"process", "env", name>>
    \/ /\ n.k = "index" /\ Text(n.sub[1]) = <<"process", "env">>
       /\ n.sub[2].k = "lit" /\ n.sub[2].at[1] \in SECRET_ENV

HasMarkup(n) == \E x \in Nodes(n) : x.k = "lit" /\ x.at = <<"markup">>

\* What a call does with which of its arguments.
SinkArgs(call, ctx) ==
    LET fn == call.sub[1]
        path == Text(fn)
        pos == Positional(call)
        first == Slice(pos, 1, 1)
        head == HeadOf(fn)
        from == ModuleOf(head, ctx.imports)
        plain == fn.k = "name"
        export == ExportOf(head, ctx.imports)
        last == IF plain /\ from \in CP_MODULES THEN export ELSE Called(call)
        Sink(kind, args) == <<[kind |-> kind, args |-> args]>>
        Given(key) == IF first = <<>> \/ first[1].k # "dict" THEN <<>> ELSE Entry(first[1], key)
        mail == \/ last = "sendMail" \/ (Len(path) > 2 /\ Slice(path, Len(path) - 1, Len(path)) = <<"emails", "send">>)
                \/ from = "@sendgrid/mail" /\ last \in {"send", "sendMultiple"}
        database == ToSet(Text(Receiver(call))) \cap SQL_RECEIVER # {}
        sql == \/ last \in {"query", "execute", "raw", "$queryRawUnsafe", "$executeRawUnsafe", "unsafe"}
               \/ last = "prepare" /\ database
        client == \/ head \in {"axios", "got", "ky", "superagent"}
                  \/ from \in {"axios", "got", "undici", "http", "https", "node:http", "node:https"}
        answer == last \in {"send", "write", "end"} /\ head \in {"res", "response", "reply"}
                      /\ first # <<>> /\ HasMarkup(first[1])
        OfMethod ==
            IF sql THEN IF RootIsLlm(Receiver(call), ctx) THEN <<>> ELSE Sink("sql", first)
            ELSE IF from \in FS_MODULES /\ last \in FS_WRITE
            THEN Sink("file", Slice(pos, 1, IF last \in {"rename", "renameSync"} THEN 2 ELSE 1))
            ELSE IF client THEN IF last \in HTTP_VERBS THEN Sink("ssrf", first) ELSE <<>>
            ELSE IF path \in {<<"document", "write">>, <<"document", "writeln">>} THEN Sink("html", first)
            ELSE IF last = "insertAdjacentHTML" /\ Len(pos) > 1 THEN Sink("html", <<pos[2]>>)
            ELSE IF answer THEN Sink("html", first)
            ELSE <<>>
        OfName ==
            IF from \in FS_MODULES /\ export \in FS_WRITE THEN Sink("file", first)
            ELSE IF head \in HTTP_FUNCS \/ from \in {"axios", "got", "undici", "node-fetch"} THEN Sink("ssrf", first)
            ELSE <<>>
    IN  IF IsNew(call) /\ path = <<"Function">> THEN Sink("code", pos)
        ELSE IF path = <<"eval">> \/ (from \in {"vm", "node:vm"} /\ Called(call) \in VM_RUN) THEN Sink("code", first)
        ELSE IF from \in CP_MODULES /\ last \in CP_EXEC \cup CP_SPAWN THEN Sink("shell", first)
        ELSE IF mail THEN Sink("recipient", Given("to") \o Given("cc") \o Given("bcc"))
        ELSE IF IsMethod(call) THEN OfMethod
        ELSE IF plain THEN OfName
        ELSE <<>>

(***************************************************************************)
(* Tools.                                                                  *)
(***************************************************************************)
Params(fn) == Front(fn.sub)
Body(fn) == Last(fn.sub)
\* The names that a parameter binds: its own, or those of a pattern.
ParamNames(p) == IF p.k = "param" THEN {p.at[1]} ELSE {Bound(x) : x \in ToSet(p.sub)}

RECURSIVE FirstCall(_)
\* The call that a chain of calls starts with, as a sequence of at most one.
FirstCall(n) ==
    LET inner == FirstCall(n.sub[1])
    IN  IF n.k \notin {"call", "attr"} THEN <<>>
        ELSE IF inner # <<>> THEN inner
        ELSE IF n.k = "call" /\ ~IsNew(n) THEN <<n>> ELSE <<>>

\* The fields of a zod schema, or of a raw shape, whose values are of a closed set.
ConstrainedKeys(schema) ==
    LET Shape(x) == IF x.k = "call" /\ ~IsNew(x) THEN Slice(Positional(x), 1, 1) ELSE <<x>>
        Closed(x) == \E call \in ToSet(FirstCall(x)) : Text(call.sub[1]) \in CONSTRAINED_ZOD
        shapes == UNION {{y \in ToSet(Shape(x)) : y.k = "dict"} : x \in ToSet(schema)}
    IN  {p.at[1] : p \in {x \in UNION {ToSet(y.sub) : y \in shapes} : x.k = "pair" /\ Closed(x.sub[1])}}

\* The tool that a call defines, as a sequence of at most one.
ToolHandler(call, ctx) ==
    LET fn == call.sub[1]
        args == Positional(call)
        imported == fn.k = "name" /\ ExportOf(fn.at[1], ctx.imports) = "tool"
        from == IF fn.k = "name" THEN ModuleOf(fn.at[1], ctx.imports) ELSE None
        owner == {o.name : o \in {x \in ctx.owners : x.call = call}}
        Named(name, default) == IF name # <<>> /\ name[1].k = "lit" THEN name[1].at[1] ELSE default
        parent == IF owner = {} THEN "tool" ELSE CHOOSE name \in owner : TRUE
        Option(i, key) == IF Len(args) >= i /\ args[i].k = "dict" THEN Entry(args[i], key) ELSE <<>>
        Tool(handler, name, schema) ==
            IF handler = <<>> \/ handler[1].k # "fn" THEN <<>>
            ELSE <<[fn |-> handler[1], name |-> name, fixed |-> ConstrainedKeys(schema)]>>
        served == /\ IsMethod(call) /\ Called(call) \in {"tool", "registerTool"}
                  /\ RootName(Receiver(call)) \in ctx.servers /\ args # <<>>
        shapes == SelectSeq(SubSeq(args, 2, Len(args) - 1), LAMBDA x : x.k = "dict")
    IN  IF imported /\ from \in {"ai", "@openai/agents"}
        THEN Tool(Option(1, "execute"), Named(Option(1, "name"), parent),
                  Slice(Option(1, "parameters") \o Option(1, "inputSchema"), 1, 1))
        ELSE IF imported /\ from \in {"langchain", "@langchain/core"}
        THEN Tool(Slice(args, 1, 1), Named(Option(2, "name"), parent), Option(2, "schema"))
        ELSE IF IsNew(call) /\ Called(call) \in {"DynamicStructuredTool", "DynamicTool"}
        THEN Tool(Option(1, "func"), Named(Option(1, "name"), parent), Option(1, "schema"))
        ELSE IF served
        THEN Tool(<<Last(args)>>, Named(args, "tool"),
                  IF Called(call) = "registerTool" /\ Len(args) > 2 THEN Option(2, "inputSchema")
                  ELSE Slice(shapes, 1, 1))
        ELSE <<>>

\* The tools that an expression names.
ResolveTools(n, m) ==
    LET Of(value, tool, key) ==
            IF tool # <<>> THEN tool[1].name
            ELSE IF value.k = "name" /\ value.at[1] \in DOMAIN m.toolVars THEN m.toolVars[value.at[1]]
            ELSE key
        Tool(value) == IF value.k = "call" THEN ToolHandler(value, m.ctx) ELSE <<>>
        names == {x.at[1] : x \in {y \in Nodes(n) : y.k = "name"}}
        found == IF n.k = "dict" THEN {Of(p.sub[1], Tool(p.sub[1]), p.at[1]) : p \in {x \in ToSet(n.sub) : x.k = "pair"}}
                 ELSE {m.toolVars[x] : x \in names \cap DOMAIN m.toolVars}
    IN  [t \in found |-> {}]

RECURSIVE Walk(_, _, _)

\* One recursion: the taints of an expression, the sinks inside it, and a statement.
Ev(n, m) == Walk("value", n, m)
CheckAll(n, m) == Walk("sinks", n, m).m

UnionOf(ns, m) ==
    FoldLeft(LAMBDA acc, n : LET r == Ev(n, acc.m) IN R(Merge(acc.v, r.v), r.m), R(Clean, m), ns)

RECURSIVE InOrder(_, _)
\* _block, _generic: nodes in the order of the source.
InOrder(ns, m) ==
    LET n == Head(ns)
        what == IF n.k \in STATEMENTS THEN "statement" ELSE "sinks"
    IN  IF ns = <<>> THEN m
        ELSE IF n.k \in CLAUSES \cup {"block"} THEN InOrder(n.sub \o Tail(ns), m)
        ELSE InOrder(Tail(ns), After(m, Walk(what, n, m).m))

\* The body of a function sees what encloses it, but changes nothing there.
Function(fn, tainted, m) ==
    LET hidden == UNION {ParamNames(p) : p \in ToSet(Params(fn))}
        inside == [m EXCEPT !.scope = tainted @@ Drop(@, {<<p>> : p \in hidden}), !.rets = Append(@, Clean)]
        value == Ev(Body(fn), CheckAll(Body(fn), inside))
        after == IF Body(fn).k = "block" THEN InOrder(Body(fn).sub, inside)
                 ELSE [value.m EXCEPT !.rets[Len(value.m.rets)] = Merge(@, value.v)]
    IN  R(Last(after.rets), [after EXCEPT !.scope = m.scope, !.rets = m.rets])

\* The body of a local function is walked once for each combination of taints of its
\* arguments, with nothing of what encloses it.
Inline(call, m) ==
    LET name == call.sub[1].at[1]
        fn == m.ctx.local[name]
        pos == Positional(call)
        n == Min({Len(Params(fn)), Len(pos)})
        Pass(acc, i) == LET r == Ev(pos[i], acc.m) IN R(Append(acc.v, r.v), r.m)
        args == FoldLeft(Pass, R(<<>>, m), [i \in 1..n |-> i])
        At(key) == CHOOSE i \in 1..n : key[1] \in ParamNames(Params(fn)[i])
        passed == UNION {{<<p>> : p \in ParamNames(Params(fn)[i])} : i \in {j \in 1..n : args.v[j] # Clean}}
        callee == [key \in passed |-> args.v[At(key)]]
        Shape(ts) == {<<f, ts[f].line, ts[f].kinds, ts[f].validated, ts[f].external>> : f \in DOMAIN ts}
        key == <<name, {<<p, Shape(callee[p])>> : p \in DOMAIN callee}>>
        inside == [args.m EXCEPT !.memo = Put(@, key, Clean), !.stack = Append(@, name), !.scope = <<>>]
        body == Function(fn, callee, inside)
    IN  IF name \in ToSet(m.stack) \/ Len(m.stack) >= MaxInline THEN R(Clean, m)
        ELSE IF key \in DOMAIN args.m.memo THEN R(args.m.memo[key], args.m)
        ELSE R(body.v, [body.m EXCEPT !.memo = Put(@, key, body.v), !.stack = m.stack, !.scope = m.scope])

\* A tool whose handler returns content from outside gives it to the models that have the tool.
GivesBack(tool, r) ==
    IF "untrusted" \in DOMAIN r.v /\ r.v["untrusted"].external /\ tool.name \notin DOMAIN r.m.gives
    THEN [r.m EXCEPT !.gives = Put(@, tool.name, r.v["untrusted"].line)] ELSE r.m

\* The handler of a tool is walked with arguments that the model chooses.
WalkHandler(call, tool, m) ==
    LET owner == {o \in m.ctx.owners : o.call = call /\ o.by = "decl"}
        named == [m EXCEPT !.done = @ \cup {tool.fn.line},
                           !.toolVars = [v \in {o.name : o \in owner} |-> tool.name] @@ @]
        params == Slice(Params(tool.fn), 1, 1)
        args == UNION {ParamNames(p) : p \in ToSet(params)} \ tool.fixed
        tainted == [key \in {<<p>> : p \in args} |->
                       One("tool-arg", [Fresh(tool.fn.line) EXCEPT !.tool = tool.name])]
    IN  IF tool.fn.line \in m.done THEN m ELSE GivesBack(tool, Function(tool.fn, tainted, named))

WalkTool(call, m) == FoldLeft(LAMBDA acc, tool : WalkHandler(call, tool, acc), m, ToolHandler(call, m.ctx))

(***************************************************************************)
(* Values.                                                                 *)
(***************************************************************************)
\* Text in a string or in a message with a fixed role cannot change the shape of the messages.
RoleFixed(n) == n.k = "dict" /\ Entry(n, "role") # <<>> /\ Entry(n, "role")[1].k = "lit"

\* What a call gives back of its receiver and its arguments.
Passed(call, recv, args) ==
    LET last == Called(call)
        method == IsMethod(call)
        all == IF method /\ last = "get" THEN recv ELSE Merge(recv, args)
        kept == IF method /\ last \in STRING_METHODS THEN all ELSE Without(all, {"secret"})
    IN  IF method /\ recv # Clean /\ last \in CLEAN_METHODS THEN Clean
        ELSE IF method /\ last \in SCHEMA_METHODS /\ Text(Receiver(call)) # <<"JSON">> THEN Validated(args, None)
        ELSE IF last \in DOMAIN SANITIZERS THEN Strip(kept, SANITIZERS[last])
        ELSE kept

\* With what a local function returns for its arguments, and then with its receiver.
Given(call, args) ==
    LET inlined == Inline(call, args.m)
    IN  IF call.sub[1].k = "name" /\ Called(call) \in DOMAIN args.m.ctx.local
        THEN R(Merge(args.v, inlined.v), inlined.m) ELSE args

OnReceiver(call, given) ==
    LET recv == IF IsMethod(call) THEN Ev(Receiver(call), given.m) ELSE R(Clean, given.m)
    IN  R(Passed(call, recv.v, given.v), recv.m)

\* What a call returns: of what it is given, unless it is a model or brings something in.
EvCall(n, m) ==
    LET plain == n.sub[1].k = "name"
        args == UnionOf(Positional(n), m)
    IN  IF Source(n, m.ctx) # Clean THEN R(Source(n, m.ctx), m)
        ELSE IF ExternalSource(n, m.ctx) # Clean THEN R(ExternalSource(n, m.ctx), m)
        ELSE IF plain /\ Called(n) \in CLEAN_FUNCS THEN R(Clean, m)
        ELSE IF plain /\ Called(n) = "String" THEN R(ContentOnly(args.v), args.m)
        ELSE OnReceiver(n, Given(n, args))

\* Of what is bound to it, of the environment or a request, or of what it is part of.
EvAttr(n, m) ==
    IF Text(n) # <<>> /\ Text(n) \in DOMAIN m.scope THEN R(m.scope[Text(n)], m)
    ELSE IF IsSecret(n) THEN R(Secret(n.line), m)
    ELSE IF IsRequest(n) THEN R(Untrusted(n.line, FALSE), m)
    ELSE IF n.at = <<"length">> THEN R(Clean, m)
    ELSE Ev(n.sub[1], m)

Value(n, m) ==
    LET parts == UnionOf(n.sub, m)
    IN  CASE n.k \in {"lit", "fn", "cmp", "not", "regex"} -> R(Clean, m)
          [] n.k = "name" -> R(Get(m.scope, n.at), m)
          [] n.k = "attr" -> EvAttr(n, m)
          [] n.k = "index" -> IF IsSecret(n) THEN R(Secret(n.line), m) ELSE Ev(n.sub[1], m)
          [] n.k = "cond" -> UnionOf(Tail(n.sub), m)
          [] n.k = "call" -> EvCall(n, m)
          [] n.k = "fstring" -> R(ContentOnly(parts.v), parts.m)
          [] n.k = "dict" -> IF RoleFixed(n) THEN R(ContentOnly(parts.v), parts.m) ELSE parts
          [] OTHER -> parts

(***************************************************************************)
(* Sinks and prompts.                                                      *)
(***************************************************************************)
Sink(m, kind, line, arg) ==
    IF kind = "ssrf" /\ HostPinned(arg) THEN m
    ELSE LET r == Ev(arg, m) IN Hit(r.m, kind, line, r.v)

CheckCall(call, m) ==
    FoldLeft(LAMBDA acc, s : FoldLeft(LAMBDA x, arg : Sink(x, s.kind, call.line, arg), acc, s.args),
             m, SinkArgs(call, m.ctx))

SystemPrompt(expr, m) ==
    LET r == Ev(expr, m)
    IN  IF "untrusted" \in DOMAIN r.v
        THEN Report(r.m, InputInSystemPrompt(r.v["untrusted"])) ELSE r.m

ReportRole(m, taint) == Report(m, MessageRole(taint))

\* A message in place: its instructions, or the role that something chooses.
CheckMessage(dict, m) ==
    LET role == Entry(dict, "role")
        content == Entry(dict, "content")
        r == Ev(role[1], m)
        written == role[1].k = "lit"
    IN  IF role = <<>> \/ content = <<>> THEN m
        ELSE IF written /\ role[1].at[1] \in {"system", "developer"} THEN SystemPrompt(content[1], m)
        ELSE IF written THEN m
        ELSE IF "untrusted" \in DOMAIN r.v THEN ReportRole(r.m, r.v["untrusted"])
        ELSE r.m

Options(call) == IF Positional(call) # <<>> /\ Positional(call)[1].k = "dict" THEN <<Positional(call)[1]>> ELSE <<>>
Option(call, key) == IF Options(call) = <<>> THEN <<>> ELSE Entry(Options(call)[1], key)

\* What a call gives a model to read.
PromptArgs(call) ==
    IF Options(call) = <<>> THEN Positional(call)
    ELSE LET pairs == SelectSeq(Options(call)[1].sub, LAMBDA p : p.k = "pair" /\ p.at[1] \notin NON_PROMPT_KEYS)
         IN  [i \in DOMAIN pairs |-> pairs[i].sub[1]]

Instructions(call) == Option(call, "system") \o Option(call, "instructions")

\* Messages that are not written out in the call.
GivenMessages(call) ==
    SelectSeq(Slice(Option(call, "messages") \o Option(call, "input"), 1, 1),
              LAMBDA x : x.k \notin {"list", "lit", "fstring"})

CheckModelCall(call, m) ==
    LET line == call.line
        known == IF line \in DOMAIN m.calls THEN m ELSE [m EXCEPT !.calls = Put(@, line, NewCall)]
        Read(acc, arg) ==
            LET r == Ev(arg, acc)
                outside == "untrusted" \in DOMAIN r.v /\ r.v["untrusted"].external
                noted == IF outside THEN [r.m EXCEPT !.calls[line].sources = @ \cup {r.v["untrusted"].line}]
                         ELSE r.m
            IN  IF "secret" \in DOMAIN r.v
                THEN Report(noted, SecretToModel(r.v["secret"])) ELSE noted
        Tools(acc, n) ==
            [acc EXCEPT !.calls[line].tools = @ @@ ResolveTools(n, acc)]
        Role(acc, n) ==
            LET r == Ev(n, acc)
                bad == "untrusted" \in DOMAIN r.v /\ r.v["untrusted"].structural /\ ~r.v["untrusted"].external
            IN  IF bad THEN ReportRole(r.m, r.v["untrusted"]) ELSE r.m
        read == FoldLeft(Read, known, PromptArgs(call))
        equipped == FoldLeft(Tools, read, Option(call, "tools"))
        instructed == FoldLeft(LAMBDA acc, x : SystemPrompt(x, acc), equipped, Instructions(call))
    IN  IF IsNew(call) \/ Source(call, m.ctx) = Clean THEN m
        ELSE FoldLeft(Role, instructed, GivenMessages(call))

InnerHtml(n) == n.k = "assign" /\ n.sub[1].k = "attr" /\ n.sub[1].at[1] \in {"innerHTML", "outerHTML"}

\* The sinks, prompts and functions inside an expression, the outer ones first.
CheckExpr(n, m) ==
    LET Followed(asked) ==
            IF ~IsNew(n) /\ n.sub[1].k = "name" /\ Called(n) \in DOMAIN m.ctx.local THEN EvCall(n, asked).m
            ELSE asked
        Inside(acc, c) == After(acc, CheckAll(c, acc))
        Then(here) == FoldLeft(Inside, here, n.sub)
    IN  CASE n.k = "fn" -> IF n.line \in m.done THEN m ELSE Function(n, <<>>, m).m
          [] OTHER ->
               Then(CASE n.k = "call" -> Followed(CheckModelCall(n, CheckCall(n, WalkTool(n, m))))
                      [] n.k = "dict" -> CheckMessage(n, m)
                      [] n.k = "assign" -> IF InnerHtml(n) THEN Sink(m, "html", n.line, n.sub[2]) ELSE m
                      [] n.k = "jsx" -> Sink(m, "html", n.line, n.sub[1])
                      [] OTHER -> m)

(***************************************************************************)
(* Statements.                                                             *)
(***************************************************************************)
RECURSIVE BindTo(_, _, _)
BindTo(target, taint, m) ==
    LET key == Text(target)
        object == Text(target.sub[1])
    IN  CASE target.k \in {"name", "attr"} ->
               [m EXCEPT !.scope = IF taint = Clean THEN Drop(@, {key}) ELSE Put(@, key, taint)]
          [] target.k = "index" ->
               IF taint = Clean THEN m ELSE [m EXCEPT !.scope = Put(@, object, Merge(Get(@, object), taint))]
          [] OTHER -> FoldLeft(LAMBDA acc, x : BindTo(IF x.k = "pair" THEN x.sub[1] ELSE x, taint, acc), m, target.sub)

\* What is pushed into an array is in it.
Mutation(call, m) ==
    LET key == Text(Receiver(call))
        r == UnionOf(Positional(call), m)
    IN  IF IsMethod(call) /\ Called(call) \in MUTATORS /\ key # <<>> /\ r.v # Clean
        THEN [r.m EXCEPT !.scope = Put(@, key, Merge(Get(@, key), r.v))] ELSE m

Known(n, m) == IF Text(n) # <<>> /\ Text(n) \in DOMAIN m.scope THEN {Text(n)} ELSE {}

\* The names that a test of a value vouches for: the host of a URL stands for the URL.
Vouches(n, m) ==
    IF n.k = "attr" /\ n.at[1] \in {"hostname", "host", "origin"} /\ Known(n, m) = {} THEN Known(n.sub[1], m) ELSE Known(n, m)

\* The names that one test in a condition checks.
Tests(n, m) ==
    LET args == Positional(n)
        recv == Receiver(n)
        All(ns) == UNION {Vouches(x, m) : x \in ToSet(ns)}
        member == n.k = "call" /\ IsMethod(n)
        clean == Ev(recv, m).v = Clean
    IN  CASE member /\ Called(n) \in {"includes", "has"} -> IF clean /\ recv.k # "lit" THEN All(args) ELSE {}
          [] member /\ Called(n) = "hasOwn" /\ Text(recv) = <<"Object">> -> All(Slice(args, 2, 2))
          [] member /\ Called(n) = "test" -> IF recv.k = "regex" THEN All(args) ELSE {}
          [] member /\ Called(n) = "startsWith" /\ args # <<>> ->
               IF args[1].at = <<"weak">> THEN {} ELSE Known(recv, m)
          [] n.k = "cmp" /\ n.at[1] \in {"===", "==", "!==", "!="} ->
               UNION {Known(n.sub[i], m) : i \in {j \in {1, 2} : n.sub[3 - j].k = "lit"}}
          [] n.k = "cmp" /\ n.at[1] = "in" -> IF Ev(n.sub[2], m).v = Clean THEN Vouches(n.sub[1], m) ELSE {}
          [] OTHER -> {}

Guarded(cond, m) == UNION {Tests(n, m) : n \in Nodes(cond)}

RECURSIVE Exits(_)
Exits(n) == n.k \in Jumps \/ (n.k = "block" /\ n.sub # <<>> /\ Exits(Last(n.sub)))

\* Inside a branch that a test guards, what it checked is clean; the branch has a scope of its
\* own then, and what it binds is forgotten after it.
If(n, m) ==
    LET checked == CheckAll(n.sub[1], m)
        guarded == Guarded(n.sub[1], checked)
        exits == Exits(n.sub[2])
        Hidden(x) == [x EXCEPT !.scope = Drop(@, guarded)]
        first == IF guarded # {} /\ ~exits
                 THEN [InOrder(n.sub[2].sub, Hidden(checked)) EXCEPT !.scope = checked.scope]
                 ELSE InOrder(n.sub[2].sub, checked)
        second == InOrder(SubSeq(n.sub, 3, Len(n.sub)), first)
    IN  IF exits THEN Hidden(second) ELSE second

\* A body is walked twice, in the outer loops: what one round leaves, the next one sees.
Rounds(Round(_), m) ==
    LET inside == [m EXCEPT !.loop = @ + 1]
        once == Round(inside)
        all == IF inside.loop <= LoopDepth THEN Round(once) ELSE once
    IN  [all EXCEPT !.loop = m.loop]

ForIn(n, m) ==
    LET r == Ev(n.sub[2], CheckAll(n.sub[2], m))
    IN  Rounds(LAMBDA x : InOrder(n.sub[3].sub, x), BindTo(n.sub[1], r.v, r.m))

\* Its condition, what it does after each round, and its body.
While(n, m) ==
    LET Heads(x) == FoldLeft(LAMBDA acc, head : After(acc, CheckAll(head, acc)), x, Front(n.sub))
    IN  Rounds(LAMBDA x : InOrder(Last(n.sub).sub, Heads(x)), m)

Assign(n, m) ==
    LET checked == IF n.k = "decl" THEN CheckAll(n.sub[2], m) ELSE CheckAll(n, m)
        right == Ev(n.sub[2], checked)
        left == Ev(n.sub[1], right.m)
    IN  IF n.k = "augmented" THEN BindTo(n.sub[1], Merge(left.v, right.v), left.m)
        ELSE BindTo(n.sub[1], right.v, right.m)

Return(n, m) ==
    LET checked == CheckAll(n.sub[1], m)
        r == Ev(n.sub[1], checked)
    IN  IF n.sub = <<>> THEN m
        ELSE IF checked.rets = <<>> THEN checked
        ELSE [r.m EXCEPT !.rets[Len(r.m.rets)] = Merge(@, r.v)]

Stmt(n, m) ==
    CASE n.k \in {"decl", "assign", "augmented"} -> Assign(n, m)
      [] n.k = "expr" -> LET x == CheckAll(n.sub[1], m) IN IF n.sub[1].k = "call" THEN Mutation(n.sub[1], x) ELSE x
      [] n.k = "return" -> Return(n, m)
      [] n.k = "if" -> If(n, m)
      [] n.k = "for" -> ForIn(n, m)
      [] n.k = "while" -> While(n, m)
      [] n.k = "def" -> Function(n, <<>>, m).m
      [] OTHER -> InOrder(n.sub, m)

Walk(what, n, m) ==
    CASE what = "value" -> Value(n, m)
      [] what = "sinks" -> R(Clean, CheckExpr(n, m))
      [] what = "statement" -> R(Clean, Stmt(n, m))

\* What is found in a module, with what is known before the walk.
Analysis(module, ctx) == Findings(Walk("statement", module, Start(ctx)).m)
=============================================================================
