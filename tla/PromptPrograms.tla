---------------------------- MODULE PromptPrograms ----------------------------
(***************************************************************************)
(* The programs on which the analysis of PromptFlow is compared with what  *)
(* they can do. Each theme has the statements and the compounds that make  *)
(* one part of the analysis interact.                                      *)
(***************************************************************************)
EXTENDS PromptRuns

PyThemes == {"flows", "checks", "calls", "tools", "roles", "shapes", "schemas"}
JsThemes == {"js flows", "js checks", "js calls", "js tools", "js roles"}
PromptThemes == PyThemes \cup JsThemes

(***************************************************************************)
(* Nodes. A call has the number of the step that appended it as its line.  *)
(***************************************************************************)
Node(kind, at, sub) == [k |-> kind, at |-> at, sub |-> sub, line |-> 0]
At(line, n) == [n EXCEPT !.line = line]
Name(x) == Node("name", <<x>>, <<>>)
Lit(x) == Node("lit", <<x>>, <<>>)
Attr(e, x) == Node("attr", <<x>>, <<e>>)
Fn(f, args) == Node("call", <<>>, <<f>> \o args)
Method(e, x, args) == Fn(Attr(e, x), args)
Kw(x, e) == Node("kw", <<x>>, <<e>>)
List(es) == Node("list", <<>>, es)
Message(role, e) == Node("dict", <<>>, <<Node("pair", <<"role">>, <<role>>), Node("pair", <<"content">>, <<e>>)>>)

BlockOf(ss) == Node("block", <<>>, ss)
Expr(e) == Node("expr", <<>>, <<e>>)
Assign(x, e) == Node("assign", <<>>, <<x, e>>)
If1(c, ss) == Node("if", <<>>, <<c, BlockOf(ss)>>)
IfElse(c, ss, ts) == Node("if", <<>>, <<c, BlockOf(ss), Node("else", <<>>, <<BlockOf(ts)>>)>>)
Def(line, name, decorator, params, ss) == At(line, Node("def", <<name, decorator>>, Append(params, BlockOf(ss))))
Param(x, ann) == Node("param", <<x, ann>>, <<>>)
Give(e) == Node("return", <<>>, <<e>>)
Leave == Node("return", <<>>, <<>>)

a == Name("a")
b == Name("b")
llm == Name("llm")
Args == Attr(Name("request"), "args")
Perhaps == Fn(Name("f"), <<>>)
Allowed == Name("ALLOWED")
Cmp(x, op, y) == Node("cmp", <<op>>, <<x, y>>)

Model == Assign(llm, Fn(Name("ChatOpenAI"), <<>>))
Ask(l, e) == At(l, Method(llm, "invoke", <<e>>))
Fetch(l) == At(l, Method(Name("requests"), "get", <<Lit("u")>>))
Shell(l, e) == Expr(At(l, Method(Name("os"), "system", <<e>>)))
Html(l, e) == Expr(At(l, Fn(Name("Markup"), <<e>>)))

(***************************************************************************)
(* The statements of a theme, and the compounds made of its last ones.     *)
(***************************************************************************)
FlowStmts(l) ==
    {Assign(a, Ask(l, b)), Assign(b, Ask(l, a)), Assign(b, Fetch(l)), Assign(b, a), Assign(a, Lit("x")),
     Assign(b, Fn(Name("quote"), <<a>>)), Assign(b, Node("fstring", <<>>, <<a, b>>)), Shell(l, b), Html(l, b)}
FlowForms(l, ss) ==
    {If1(Perhaps, ss), IfElse(Perhaps, <<Assign(b, Lit("y"))>>, ss),
     Node("while", <<>>, <<Perhaps, BlockOf(ss)>>), Node("for", <<>>, <<b, a, BlockOf(ss)>>),
     Node("try", <<>>, <<BlockOf(ss), Node("except", <<>>, <<BlockOf(<<Assign(a, b)>>)>>)>>)}

CheckStmts(l) ==
    {Assign(a, Ask(l, Lit("q"))), Assign(b, a), Shell(l, a), Shell(l, b),
     Assign(Name("row"), Method(Name("TABLE"), "get", <<a>>))}
Checks == {Cmp(a, "in", Allowed), Cmp(a, "not in", Allowed), Cmp(b, "==", Lit("x")), Method(a, "isdigit", <<>>),
           Cmp(Name("row"), "is", Lit("None")), Node("not", <<>>, <<Name("row")>>),
           Node("bool", <<"and">>, <<Cmp(a, "in", Allowed), Perhaps>>)}
CheckForms(l, ss) == UNION {{If1(c, ss), IfElse(c, <<Leave>>, ss), If1(c, Append(ss, Leave))} : c \in Checks}

CallStmts(l) ==
    {Assign(a, Ask(l, b)), Assign(b, Fetch(l)), Assign(a, At(l, Fn(Name("h"), <<b>>))), Shell(l, a),
     Give(a), Expr(At(l, Fn(Name("h"), <<a>>))), Expr(Method(b, "append", <<a>>))}
CallForms(l, ss) == {Def(l, "h", "plain", <<Param("a", "str")>>, ss), Def(l, "v", "route", <<Param("b", "str")>>, ss),
                     If1(Perhaps, ss)}

ToolStmts(l) ==
    {Assign(Name("agent"), At(l, Fn(Name("create_agent"), <<llm, List(<<Name("t"), Name("s")>>)>>))),
     Expr(At(l, Method(Name("agent"), "invoke", <<a>>))), Assign(a, Fetch(l)), Shell(l, a), Give(a),
     Expr(At(l, Fn(Name("open"), <<a, Lit("w")>>)))}
ToolForms(l, ss) == {Def(l, "t", "tool", <<Param("a", "str")>>, ss), Def(l, "s", "tool", <<Param("b", "int")>>, ss),
                     Def(l, "v", "route", <<Param("a", "UploadFile")>>, ss)}

RoleStmts(l) ==
    {Assign(a, Args), Assign(b, Fetch(l)), Assign(b, Message(Lit("user"), a)), Assign(b, Message(Lit("system"), a)),
     Assign(a, Node("index", <<>>, <<Attr(Name("os"), "environ"), Lit("API_KEY")>>)),
     Assign(a, Node("list", <<>>, <<b, a>>)),
     Expr(At(l, Method(llm, "invoke", <<Kw("messages", List(<<Message(a, Lit("x"))>>))>>))),
     Expr(At(l, Method(llm, "invoke", <<Kw("messages", b)>>))),
     Assign(Name("system_prompt"), Node("fstring", <<>>, <<a>>))}
RoleForms(l, ss) == {If1(Perhaps, ss), Def(l, "v", "route", <<Param("a", "str"), Param("b", "int")>>, ss)}

\* h gives a model its parameter as the messages.
ShapeStmts(l) ==
    LET Ask1(e) == Expr(At(l, Fn(Name("h"), <<e>>)))
        framed == Node("fstring", <<>>, <<a>>)
    IN  {Assign(a, Args), Assign(a, Fetch(l)), Assign(a, framed), Ask1(a), Ask1(framed)}
ShapeForms(l, ss) == {If1(Perhaps, ss), Def(l, "v", "route", <<Param("a", "str")>>, ss)}

SchemaStmts(l) ==
    {Assign(a, Ask(l, Lit("q"))), Assign(b, Method(Name("Plan"), "model_validate_json", <<a>>)),
     Assign(b, Attr(b, "step")), Assign(a, Attr(b, "mode")), Assign(a, Attr(b, "text")),
     Assign(b, Attr(a, "parsed")), Shell(l, a), Html(l, b)}
SchemaForms(l, ss) == {If1(Perhaps, ss)}

(***************************************************************************)
(* JavaScript: a handler of requests, with functions inside it. A function *)
(* has the line of its step, above the others.                             *)
(***************************************************************************)
FnAt(l, params, body) == At(20 + l, Node("fn", <<>>, Append(params, body)))
ParamJs(x) == Node("param", <<x>>, <<>>)
Decl(x, e) == Node("decl", <<>>, <<x, e>>)
New(x, args) == Node("call", <<"new">>, <<Name(x)>> \o args)
Object(pairs) == Node("dict", <<>>, pairs)
Key(x, e) == Node("pair", <<x>>, <<e>>)
Template(es) == Node("fstring", <<>>, es)
Req == Attr(Name("req"), "body")
Exec(l, e) == Expr(At(l, Fn(Name("exec"), <<e>>)))
FetchJs(l) == At(l, Fn(Name("fetch"), <<Lit("u")>>))
InnerHtml(l, e) == At(l, Assign(At(l, Attr(Name("el"), "innerHTML")), e))
Import(x, module, export) == Node("import", <<x, module, export>>, <<>>)

JsFlowStmts(l) ==
    {Assign(b, Ask(l, b)), Assign(b, FetchJs(l)), Assign(a, b), Assign(b, Lit("x")),
     Assign(b, Fn(Name("encodeURIComponent"), <<b>>)), Expr(Method(a, "push", <<b>>)), Exec(l, b), InnerHtml(l, a)}
JsFlowForms(l, ss) ==
    {If1(Perhaps, ss), Node("for", <<>>, <<b, a, BlockOf(ss)>>), Node("while", <<>>, <<Perhaps, BlockOf(ss)>>),
     Node("try", <<>>, <<BlockOf(Append(ss, Expr(Perhaps))), Node("except", <<>>, <<BlockOf(<<Assign(a, b)>>)>>)>>),
     Expr(Fn(Name("later"), <<FnAt(l, <<>>, BlockOf(ss))>>)),
     Expr(Method(a, "forEach", <<FnAt(l, <<ParamJs("b")>>, BlockOf(ss))>>))}

\* a is an answer, and b made of it.
JsCheckStmts(l) == {Assign(a, Lit("x")), Assign(b, a), Exec(l, a), Exec(l, b)}
JsChecks ==
    {Method(Allowed, "has", <<a>>), Cmp(a, "!==", Lit("x")), Cmp(b, "in", Name("TABLE")),
     Method(Allowed, "includes", <<Attr(b, "hostname")>>), Method(Lit("xy"), "includes", <<a>>),
     Method(a, "startsWith", <<Lit("weak")>>), Method(Node("regex", <<>>, <<>>), "test", <<a>>)}
JsCheckForms(l, ss) ==
    LET has == Method(Allowed, "has", <<a>>)
    IN  UNION {{If1(c, ss), If1(c, Append(ss, Leave))} : c \in JsChecks}
            \cup {IfElse(has, <<Leave>>, ss), If1(Node("bool", <<"and">>, <<has, Perhaps>>), ss),
                  If1(Node("bool", <<"or">>, <<has, Perhaps>>), Append(ss, Leave))}

\* a is an answer, and b comes from outside.
JsCallStmts(l) ==
    {Assign(a, Ask(l, b)), Assign(b, Lit("x")), Assign(a, At(l, Fn(Name("h"), <<b>>))), Exec(l, a), Give(a),
     Expr(At(l, Fn(Name("h"), <<Template(<<a>>)>>))), Decl(Name("h"), FnAt(l, <<ParamJs("b")>>, Ask(l, b)))}
JsCallForms(l, ss) ==
    {Decl(Name("h"), FnAt(l, <<ParamJs("a")>>, BlockOf(ss))),
     At(l + 20, Node("def", <<"h">>, <<ParamJs("b"), BlockOf(ss)>>)), If1(Perhaps, ss)}

\* t is a tool of the model and s one of the server; the argument b is of a closed set.
Schema == Method(Name("z"), "object", <<Object(<<Key("b", Method(Method(Name("z"), "number", <<>>), "optional", <<>>))>>)>>)
Destructured == Node("pattern", <<>>, <<a, b>>)
Equipped(l) ==
    At(l, Fn(Name("generateText"), <<Object(<<Key("prompt", b), Key("tools", Object(<<Key("u", Name("t"))>>))>>)>>))
JsToolStmts(l) ==
    {Assign(b, FetchJs(l)), Assign(b, a), Assign(a, Ask(l, b)), Exec(l, a), Exec(l, b), Give(a),
     Give(FetchJs(l)), Expr(At(l, Method(Name("fs"), "writeFileSync", <<a, b>>)))}
JsToolForms(l, ss) ==
    LET handler == FnAt(l, <<Destructured>>, BlockOf(ss))
        nested == \E x \in UNION {Nodes(s) : s \in ToSet(ss)} : x.k = "fn"
    IN  IF nested THEN {}
        ELSE {Decl(Name("t"), Fn(Name("tool"), <<Object(<<Key("inputSchema", Schema), Key("execute", handler)>>)>>)),
              Expr(Method(Name("server"), "registerTool", <<Lit("s"), Object(<<Key("inputSchema", Schema)>>), handler>>)),
              Expr(Method(Name("server"), "tool", <<Lit("s"), handler>>))}

JsRoleStmts(l) ==
    {Assign(a, At(l, Req)), Assign(b, FetchJs(l)), Assign(b, Message(Lit("user"), a)), Assign(b, Message(Lit("system"), a)),
     Assign(a, Node("list", <<>>, <<b>>)), Assign(a, Template(<<a>>)), Assign(a, Fn(Name("hash"), <<a>>)),
     Assign(a, At(l, Attr(Attr(Name("process"), "env"), "API_KEY"))),
     Assign(b, Object(<<Key("role", Lit("user")), Node("spread", <<>>, <<a>>)>>)),
     Expr(Ask(l, Object(<<Key("messages", List(<<Message(a, Lit("x"))>>))>>))),
     Expr(Ask(l, Object(<<Key("messages", b), Key("system", a)>>)))}
JsRoleForms(l, ss) == {If1(Perhaps, ss), Expr(Fn(Name("later"), <<FnAt(l, <<>>, BlockOf(ss))>>))}

\* What the handler has when the program starts.
JsGiven(t) ==
    CASE t = "js checks" -> <<Assign(a, Ask(0, Lit("q"))), Assign(b, New("URL", <<a>>))>>
      [] t = "js calls" -> <<Assign(a, Ask(9, Lit("q"))), Assign(b, FetchJs(9))>>
      [] OTHER -> <<>>

\* A model that has the tool t is asked at the end.
JsRest(t) == IF t = "js tools" THEN <<Assign(Name("answer"), Equipped(60)), Exec(61, Name("answer"))>> ELSE <<>>

Require(module) == Fn(Name("require"), <<Lit(module)>>)
JsPrelude(t) ==
    <<Import("OpenAI", "openai", "OpenAI"), Decl(llm, New("OpenAI", <<>>))>> \o
    (CASE t = "js flows" ->
            <<Decl(Node("pattern", <<>>, <<Key("exec", Name("run"))>>), Require("child_process")),
              Decl(Name("exec"), Fn(Attr(Name("util"), "promisify"), <<Name("run")>>))>>
       [] t = "js tools" ->
            <<Import("exec", "node:child_process", "exec"), Decl(Name("fs"), Require("fs")),
              Import("generateText", "ai", "generateText"), Import("tool", "ai", "tool"),
              Decl(Name("server"), New("McpServer", <<>>))>>
       [] OTHER -> <<Import("exec", "child_process", "exec")>>)

Class(name, base, fields) == Node("class", <<name, base>>, <<BlockOf(fields)>>)
FieldNode(x, ann) == Node("field", <<x, ann>>, <<>>)
Prelude(t) ==
    <<Model>> \o
    (CASE t = "shapes" ->
            <<Def(0, "h", "plain", <<Param("b", "str")>>,
                  <<Expr(At(9, Method(llm, "invoke", <<Kw("messages", b)>>)))>>)>>
       [] t = "schemas" ->
          <<Class("Step", "BaseModel", <<FieldNode("text", "str"), FieldNode("mode", "Literal")>>),
            Class("Plan", "BaseModel", <<FieldNode("step", "Step"), FieldNode("mode", "Mode"), FieldNode("text", "str")>>),
            Class("Mode", "Enum", <<>>)>>
       [] OTHER -> <<>>)

Stmts(t, l) ==
    CASE t = "flows" -> FlowStmts(l)
      [] t = "checks" -> CheckStmts(l)
      [] t = "calls" -> CallStmts(l)
      [] t = "tools" -> ToolStmts(l)
      [] t = "roles" -> RoleStmts(l)
      [] t = "shapes" -> ShapeStmts(l)
      [] t = "schemas" -> SchemaStmts(l)
      [] t = "js flows" -> JsFlowStmts(l)
      [] t = "js checks" -> JsCheckStmts(l)
      [] t = "js calls" -> JsCallStmts(l)
      [] t = "js tools" -> JsToolStmts(l)
      [] OTHER -> JsRoleStmts(l)

Forms(t, l, ss) ==
    CASE t = "flows" -> FlowForms(l, ss)
      [] t = "checks" -> CheckForms(l, ss)
      [] t = "calls" -> CallForms(l, ss)
      [] t = "tools" -> ToolForms(l, ss)
      [] t = "roles" -> RoleForms(l, ss)
      [] t = "shapes" -> ShapeForms(l, ss)
      [] t = "schemas" -> SchemaForms(l, ss)
      [] t = "js flows" -> JsFlowForms(l, ss)
      [] t = "js checks" -> JsCheckForms(l, ss)
      [] t = "js calls" -> JsCallForms(l, ss)
      [] t = "js tools" -> JsToolForms(l, ss)
      [] OTHER -> JsRoleForms(l, ss)

Handler(ss) ==
    Expr(Method(Name("app"), "post", <<FnAt(70, <<ParamJs("req"), ParamJs("res")>>, BlockOf(ss))>>))

Module(t, ss) ==
    IF t \in JsThemes THEN BlockOf(Append(JsPrelude(t), Handler(JsGiven(t) \o ss \o JsRest(t)))) ELSE BlockOf(Prelude(t) \o ss)

\* What is known of a module before the walk.
Facts(t, module) == IF t \in JsThemes THEN J!Context(module) ELSE Context(module)

Found(module, ctx) == IF ctx.js THEN J!Analysis(module, ctx) ELSE Analysis(module, ctx)
=============================================================================
