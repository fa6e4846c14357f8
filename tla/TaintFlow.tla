------------------------------ MODULE TaintFlow ------------------------------
(***************************************************************************)
(* The flow-sensitive analysis of scanners/_pyflow.py: it walks a syntax   *)
(* tree statement by statement, keeps an abstract value per variable and   *)
(* reports the calls where untrusted data reaches a sink.                  *)
(*                                                                         *)
(* A node is [k, at, sub, line]: its kind, its token (a name, operators or *)
(* a constant, always as a sequence), its children in the order of the     *)
(* source, and its line. A dotted name is a sequence of names. The tables  *)
(* name one member of each group of functions that is treated alike.       *)
(***************************************************************************)
EXTENDS TaintValues

CONSTANTS MaxExprDepth, MaxStmtDepth, LoopRounds, MaxSteps,
          Trusted,       \* dotted names the project context does not count as sources
          Sanitizers     \* names the project context names as sanitizers

ASSUME LimitsAssumption == {MaxExprDepth, MaxStmtDepth, LoopRounds, MaxSteps} \subseteq Nat

SinkCwes ==
    [sql |-> {"89"}, sqlBuilding |-> {"89"}, command |-> {"78"}, path |-> {"22"}, code |-> {"95"},
     deser |-> {"502"}, xss |-> {"79"}, redirect |-> {"601"}, xxe |-> {"611"}, ldap |-> {"90"},
     xpath |-> {"643"}, trust |-> {"501"}, random |-> {"330"}]

XssClean == {"79", "80"}

SOURCES == {<<"request", "args">>, <<"sys", "argv">>, <<"os", "environ">>, <<"request", "path">>}
REQUEST_PATH == {<<"request", "path">>}
LIT_ATTRS == {<<"os", "sep">>}

NUMERIC_SANITIZERS == {"int", "len"}
UNIVERSAL_SANITIZERS == NUMERIC_SANITIZERS \cup {"quote", "basename"}
PURE_FUNCTIONS == {"str", "sorted", "join", "copy"}
PURE_METHODS == {"strip", "replace", "format", "join", "get", "copy", "keys", "values"}
DICT_CTORS == {"dict", "ConfigParser"}
LIST_CTORS == {"list", "deque"}
MUTATORS ==
    {"append", "insert", "extend", "pop", "remove", "clear", "set", "update", "setdefault", "add"}
Removers == {"pop", "remove", "clear", "sort"}

SQL_ESCAPES == {"escape_string"}
LDAP_ESCAPES == {"escape_filter_chars"}
XSS_ESCAPES == {"escape", "escape_string", "escape_filter_chars", "strip_tags"}

CMD_FN == {<<"os", "system">>, <<"subprocess", "run">>, <<"os", "execv">>}
SHELL_CMD_FN == {<<"subprocess", "run">>}
PATH_FN == {<<"open">>, <<"os", "remove">>, <<"shutil", "copy">>, <<"send_from_directory">>}
TWO_PATH_FN == {<<"shutil", "copy">>}
CODE_FN == {<<"eval">>}
DESER_FN == {<<"pickle", "loads">>}
YAML_LOAD_FN == {<<"yaml", "load">>}
PATH_METHODS == {"exists", "open", "read_text"}
PATH_CTORS == {"Path"}
NORMALIZERS == {<<"os", "path", "realpath">>}
LDAP_SEARCH == {"search", "search_s"}
XML_PARSE == {"parseString", "parse"}
REDIRECT_FNS == {"redirect"}
MARKUP_FNS == {"Markup"}
DJANGO_RESPONSES == {"HttpResponse"}
WEAK_RANDOM_FUNCS == {"randint", "choice"}
SENSITIVE == {"token", "password"}
SESSIONS == {"session"}

(***************************************************************************)
(* Syntax trees.                                                           *)
(***************************************************************************)
RECURSIVE Subtree(_)
Subtree(n) == {n} \cup UNION {Subtree(n.sub[i]) : i \in DOMAIN n.sub}

RECURSIVE Path(_)
\* The dotted name of an identifier or attribute chain, and <<>> of anything else.
Path(n) ==
    CASE n.k = "name" -> n.at
      [] n.k = "attr" -> LET p == Path(n.sub[1]) IN IF p = <<>> THEN <<>> ELSE p \o n.at
      [] OTHER -> <<>>

\* Whether the text of a node names an untrusted source.
IsSource(n) ==
    \E x \in Subtree(n) :
        \/ x.k = "attr" /\ Path(x) \in SOURCES \ Trusted
        \/ x.k = "call" /\ Path(x.sub[1]) = <<"input">>

RECURSIVE Unwrap(_)
\* x from str(x) and (x).
Unwrap(n) ==
    CASE n.k = "paren" -> Unwrap(n.sub[1])
      [] n.k = "call" /\ Path(n.sub[1]) = <<"str">> /\ Len(n.sub) = 2 -> Unwrap(n.sub[2])
      [] OTHER -> n

(***************************************************************************)
(* The state of a run: the variables at this point and whether it is live, *)
(* the sinks reported, the verdicts on calls for the pattern scanner, the  *)
(* exits of the enclosing loops, the enclosing functions, and the work.    *)
(***************************************************************************)
Start(consts, methods, functions) ==
    [vars |-> <<>>, live |-> TRUE, emits |-> {}, verdicts |-> {}, quiet |-> FALSE, steps |-> 0,
     exits |-> <<>>, fns |-> <<>>, returns |-> {}, consts |-> consts, methods |-> methods,
     functions |-> functions, ldap |-> TRUE, xml |-> TRUE]

Here(m) == [vars |-> m.vars, live |-> m.live]
At(m, s) == [m EXCEPT !.vars = s.vars, !.live = s.live]
StopLive(m) == m
Bind(m, name, v) == [m EXCEPT !.vars = Put(m.vars, name, v)]
Stop(m) == [m EXCEPT !.live = FALSE, !.vars = <<>>]

\* A sink is reported unless the expression is evaluated again for a guard.
Emit(m, sinks, line) ==
    IF m.quiet THEN m ELSE [m EXCEPT !.emits = @ \cup {<<s, line>> : s \in sinks}]

\* Of several verdicts on a line the worst one counts: tainted, unknown, literal.
Verdict(m, kind, line, v) ==
    [m EXCEPT !.verdicts =
        @ \cup {<<kind, line, IF v.taint THEN "tainted" ELSE IF v.lit THEN "literal" ELSE "unknown">>}]

StaticPath(m) == m.fns # <<>> /\ Last(m.fns).staticPath

R(v, m) == [v |-> v, m |-> m]

RECURSIVE Walk(_, _, _, _, _)

\* One recursion for an expression, a block, a statement, the target of a value, and a
\* condition that holds or fails.
Ev(e, m, d) == Walk("expression", e, UNKNOWN, m, d)
ExecBlock(block, m, d) == Walk("block", block, UNKNOWN, m, d).m
Assign(target, v, m) == Walk("target", target, v, m, 0).m
Refine(cond, m, truth) == Walk(IF truth THEN "holds" ELSE "fails", cond, UNKNOWN, m, 0).m

\* The values of several expressions, evaluated from left to right.
EvAll(es, m, d) ==
    FoldLeft(LAMBDA acc, e : LET r == Ev(e, acc.m, d)
                             IN  [vs |-> Append(acc.vs, r.v), m |-> r.m],
             [vs |-> <<>>, m |-> m], es)

Loud(r, quiet) == [r EXCEPT !.m.quiet = quiet]

EvQuiet(e, m) == Loud(Ev(e, [m EXCEPT !.quiet = TRUE], 0), m.quiet)

(***************************************************************************)
(* Assignments.                                                            *)
(***************************************************************************)
TokenOf(n) == IF n.k \in {"name", "attr"} THEN n.at[1] ELSE ""

\* Assigning to a name forgets what was known of its attributes.
KillPrefix(m, name) ==
    [m EXCEPT !.vars = Restrict(m.vars, {n \in DOMAIN m.vars : ~IsStrictPrefix(name, n)})]

AssignName(target, v, m) ==
    LET leaks == v.weak /\ TokenOf(target) \in SENSITIVE
        reported == Emit(m, IF leaks THEN {"random"} ELSE {}, target.line)
        path == Path(target)
    IN  IF path = <<>> THEN Ev(target.sub[1], reported, 0).m
        ELSE KillPrefix(Bind(reported, path, v), path)

AssignElement(target, v, m) ==
    LET base == target.sub[1]
        idx == Ev(target.sub[2], m, 0)
        name == TokenOf(base)
        sinks ==
            (IF name \in SESSIONS /\ \E x \in {v, idx.v} : TaintedFor(x, SinkCwes.trust)
             THEN {"trust"} ELSE {})
            \cup (IF name = "headers" /\ idx.v.const = Text("location")
                       /\ TaintedFor(v, SinkCwes.redirect)
                  THEN {"redirect"} ELSE {})
            \cup (IF v.weak /\ (name \in SENSITIVE \/ idx.v.const \in {Text(s) : s \in SENSITIVE})
                  THEN {"random"} ELSE {})
        reported == Emit(idx.m, sinks, target.line)
        path == Path(base)
    IN  IF path = <<>> THEN Ev(base, reported, 0).m
        ELSE Bind(reported, path, StoreElem(Get(reported.vars, path), idx.v, v))

AssignEach(targets, vs, m) ==
    FoldLeft(LAMBDA acc, i : Assign(targets[i], vs[i], acc), m, [i \in DOMAIN targets |-> i])

\* A sequence of the same length is taken apart, any other value goes to every target.
AssignParts(target, v, m) ==
    LET targets == target.sub
        exact == /\ v.seq # <<>>
                 /\ Len(v.seq[1]) = Len(targets)
                 /\ \A i \in DOMAIN targets : targets[i].k # "splat"
    IN  AssignEach(targets, IF exact THEN v.seq[1] ELSE [i \in DOMAIN targets |-> ElemOf(v)], m)

AssignTarget(target, v, m) ==
    CASE target.k \in {"name", "attr"} -> AssignName(target, v, m)
      [] target.k = "index" -> AssignElement(target, v, m)
      [] target.k = "list" -> AssignParts(target, v, m)
      [] target.k \in {"splat", "paren"} -> Assign(target.sub[1], Summary(v), m)
      [] OTHER -> m

(***************************************************************************)
(* Expressions.                                                            *)
(***************************************************************************)
EvAttribute(e, m, d) ==
    LET path == Path(e)
        obj == Ev(e.sub[1], m, d)
        flags == (obj.v.flags \cap {<<"reqobj">>})
                     \cup (IF e.at = <<"parent">> THEN obj.v.flags \cap {<<"path">>} ELSE {})
    IN  IF path \in REQUEST_PATH /\ StaticPath(m) THEN R(LIT, m)
        ELSE IF IsSource(e) THEN R(TAINT, m)
        ELSE IF path \in DOMAIN m.vars THEN R(m.vars[path], m)
        ELSE IF path \in LIT_ATTRS THEN R(LIT, m)
        ELSE R([Derived(obj.v) EXCEPT !.flags = flags], obj.m)

\* A formatted string; one without interpolations is a literal.
EvString(e, m, d) ==
    LET parts == EvAll(e.sub, m, d)
        v == Combine(ToSet(parts.vs))
    IN  IF e.sub = <<>> THEN R(LIT, m)
        ELSE R([v EXCEPT !.flags = IF v.lit THEN {} ELSE {<<"dyn">>}], parts.m)

\* Adjacent string literals.
EvConcat(e, m, d) ==
    LET parts == EvAll(e.sub, m, d)
        v == Combine(ToSet(parts.vs))
        consts == [i \in DOMAIN parts.vs |-> parts.vs[i].const]
        whole == FoldLeft(LAMBDA a, c : FoldBinary("+", a, c), Text(""), consts)
    IN  R([v EXCEPT !.const = whole, !.flags = IF v.lit THEN {} ELSE {<<"dyn">>}], parts.m)

Binop(op, a, b) ==
    LET v == Combine({a, b})
        flags == (IF op = "/" THEN a.flags \cap {<<"path">>} ELSE {})
                     \cup (IF op \in {"%", "+"} /\ ~v.lit THEN {<<"dyn">>} ELSE {})
    IN  IF op = "+" /\ a.seq # <<>> /\ b.seq # <<>> THEN SeqVal(a.seq[1] \o b.seq[1], {})
        ELSE [v EXCEPT !.const = FoldBinary(op, a.const, b.const), !.flags = flags]

EvBinary(e, m, d) ==
    LET a == Ev(e.sub[1], m, d)
        b == Ev(e.sub[2], a.m, d)
    IN  R(Binop(e.at[1], a.v, b.v), b.m)

EvUnary(e, m, d) ==
    LET a == Ev(e.sub[1], m, d)
        const == IF ~IsInt(a.v.const) THEN NOCONST
                 ELSE CASE e.at = <<"-">> -> Num(-a.v.const[2])
                        [] e.at = <<"+">> -> a.v.const
                        [] OTHER -> Num(-a.v.const[2] - 1)
    IN  R([Derived(a.v) EXCEPT !.const = const], a.m)

EvNot(e, m, d) ==
    LET a == Ev(e.sub[1], m, d)
        ts == Truths(a.v.const)
    IN  R([UNKNOWN EXCEPT !.lit = a.v.lit,
                          !.const = IF ts = BOOLEAN THEN NOCONST ELSE Truth(ts = {FALSE})], a.m)

\* A chain of comparisons: its constant is known when every link before a false one is.
EvCompare(e, m, d) ==
    LET operands == EvAll(e.sub, m, d)
        vs == operands.vs
        link == [i \in DOMAIN e.at |-> FoldCompare(e.at[i], vs[i].const, vs[i + 1].const)]
        Decides(i) == link[i] # Truth(TRUE) /\ \A j \in 1 .. i - 1 : link[j] = Truth(TRUE)
        const == IF \E i \in DOMAIN vs : vs[i].const = NOCONST THEN NOCONST
                 ELSE IF \E i \in DOMAIN link : Decides(i)
                 THEN link[CHOOSE i \in DOMAIN link : Decides(i)]
                 ELSE Truth(TRUE)
    IN  R([UNKNOWN EXCEPT !.lit = \A i \in DOMAIN vs : vs[i].lit, !.const = const], operands.m)

EvBoolean(e, m, d) ==
    LET left == Ev(e.sub[1], m, d)
        right == Ev(e.sub[2], left.m, d)
        ts == Truths(left.v.const)
    IN  IF ts = BOOLEAN THEN R(Combine({left.v, right.v}), right.m)
        ELSE IF ts = {e.at = <<"or">>} THEN left
        ELSE right

\* then IF test ELSE other
EvConditional(e, m, d) ==
    LET test == Ev(e.sub[2], m, d)
        ts == Truths(test.v.const)
        then == Ev(e.sub[1], test.m, d)
        other == Ev(e.sub[3], IF ts = BOOLEAN THEN then.m ELSE test.m, d)
    IN  IF ts = {TRUE} THEN then
        ELSE IF ts = {FALSE} THEN other
        ELSE R(Join(then.v, other.v), other.m)

\* The part of a sequence between two constant bounds, an omitted one being NONE.
SliceOf(seq, low, high) ==
    LET Clamp(n) == IF n < 0 THEN Max({0, Len(seq) + n}) ELSE Min({n, Len(seq)})
    IN  SubSeq(seq, (IF low = NONE THEN 0 ELSE Clamp(low[2])) + 1,
                    IF high = NONE THEN Len(seq) ELSE Clamp(high[2]))

EvSlice(e, value, m, d) ==
    LET bounds == EvAll(e.sub[2].sub, m, d)
        c == [i \in DOMAIN bounds.vs |-> bounds.vs[i].const]
        known == \A i \in DOMAIN c : c[i] = NONE \/ IsInt(c[i])
    IN  R(IF known /\ IsText(value.const)
          THEN [UNKNOWN EXCEPT !.lit = value.lit,
                               !.const = Text(SliceOf(value.const[2], c[1], c[2]))]
          ELSE IF known /\ value.seq # <<>> THEN SeqVal(SliceOf(value.seq[1], c[1], c[2]), {})
          ELSE Summary(value), bounds.m)

EvSubscript(e, m, d) ==
    LET value == Ev(e.sub[1], m, d)
        v == value.v
        subs == EvAll(Tail(e.sub), value.m, d)
        idx == subs.vs[1]
        Element ==
            CASE v.seq # <<>> /\ IsInt(idx.const) ->
                   LET p == Position(idx.const, Len(v.seq[1]))
                   IN  IF p = 0 THEN Summary(v) ELSE v.seq[1][p]
              [] v.seq = <<>> /\ v.elems # <<>> /\ Hashable(idx.const) ->
                   Get(v.elems[1], idx.const)
              [] IsText(v.const) /\ Position(idx.const, Len(v.const[2])) # 0 ->
                   LET p == Position(idx.const, Len(v.const[2]))
                   IN  Literal(Text(SubSeq(v.const[2], p, p)))
              [] OTHER -> Summary(v)
    IN  IF e.sub[2].k = "slice" THEN EvSlice(e, v, value.m, d)
        ELSE IF Len(e.sub) # 2 THEN R(Summary(v), subs.m)
        ELSE R(Element, subs.m)

EvSequence(e, m, d) ==
    LET elts == EvAll(e.sub, m, d)
    IN  R(IF (\E i \in DOMAIN e.sub : e.sub[i].k = "splat") \/ Len(elts.vs) > MaxItems
          THEN Combine(ToSet(elts.vs)) ELSE SeqVal(elts.vs, {}), elts.m)

\* A set, and the pair of a dict comprehension.
EvSet(e, m, d) == LET elts == EvAll(e.sub, m, d) IN R(Combine(ToSet(elts.vs)), elts.m)

\* A dict is known item by item when every key is constant. Every pair has a key and a
\* value, and an entry that is not a pair is unpacked into the dict.
EvDict(e, m, d) ==
    LET halves == FlattenSeq([i \in DOMAIN e.sub |->
                                  IF e.sub[i].k = "pair" THEN e.sub[i].sub ELSE <<e.sub[i]>>])
        r == EvAll(halves, m, d)
        Key(j) == r.vs[2 * j - 1].const
        pairs == \A i \in DOMAIN e.sub : e.sub[i].k = "pair"
        keys == {Key(j) : j \in DOMAIN e.sub}
        items == [c \in keys |-> r.vs[2 * Max({j \in DOMAIN e.sub : Key(j) = c})]]
    IN  IF pairs /\ (\A j \in DOMAIN e.sub : Hashable(Key(j))) /\ Cardinality(keys) <= MaxItems
        THEN R(DictVal(items, {}), r.m)
        ELSE R(Combine(ToSet(r.vs)), r.m)

\* A comprehension binds its names in a copy of the state.
EvComprehension(e, m, d) ==
    LET Clause(acc, c) ==
            IF c.k = "if" THEN EvAll(c.sub, acc, d).m
            ELSE LET it == Ev(c.sub[2], acc, d) IN Assign(c.sub[1], ElemOf(it.v), it.m)
        body == Ev(e.sub[1], FoldLeft(Clause, m, Tail(e.sub)), d)
    IN  R(Derived(body.v), At(body.m, Here(m)))

EvWalrus(e, m, d) ==
    LET r == Ev(e.sub[2], m, d) IN R(r.v, Assign(e.sub[1], r.v, r.m))

EvSplat(e, m, d) == LET r == Ev(e.sub[1], m, d) IN R(Summary(r.v), r.m)

\* A kind without a handler: a value of its parts that is never literal.
EvOther(e, m, d) ==
    LET r == EvAll(e.sub, m, d) IN R([Combine(ToSet(r.vs)) EXCEPT !.lit = FALSE], r.m)

(***************************************************************************)
(* Calls. A call has its function first and then its arguments; a keyword  *)
(* argument is a node of its own kind.                                     *)
(***************************************************************************)
\* What is known of a call once its parts are evaluated, recv being its receiver if any.
Call(e, recv, vs) ==
    LET args == Tail(e.sub)
        ArgKind(i) == args[i].k
        Of(kinds) == SelectSeq([i \in DOMAIN args |-> i], LAMBDA i : ArgKind(i) \in kinds)
        Chosen(is) == [j \in DOMAIN is |-> vs[is[j]]]
        keywords == ToSet(Of({"kwarg"}))
        positional == SelectSeq([i \in DOMAIN args |-> i],
                                LAMBDA i : ArgKind(i) \notin {"kwarg", "splat"})
    IN  [fn |-> Path(e.sub[1]), last |-> TokenOf(e.sub[1]), recv |-> recv, line |-> e.line,
         recvNode |-> IF e.sub[1].k = "attr" THEN e.sub[1].sub ELSE <<>>,
         pos |-> Chosen(positional), posNodes |-> [j \in DOMAIN positional |-> args[positional[j]]],
         kw |-> [n \in {args[i].at[1] : i \in keywords} |->
                    vs[CHOOSE i \in keywords : args[i].at[1] = n]],
         kwNodes |-> [n \in {args[i].at[1] : i \in keywords} |->
                         args[CHOOSE i \in keywords : args[i].at[1] = n].sub[1]],
         extra |-> Chosen(Of({"splat"}))]

Keyword(c, names) == {c.kw[n] : n \in names \cap DOMAIN c.kw}
\* The i-th argument, or the one given under one of these names: a set of at most one.
Arg(c, i, names) == IF i <= Len(c.pos) THEN {c.pos[i]} ELSE Keyword(c, names)
EveryArg(c) == ToSet(c.pos) \cup Keyword(c, DOMAIN c.kw) \cup ToSet(c.extra)
NoArgs(c) == EveryArg(c) = {}
Recv(c) == ToSet(c.recv)
HasFlag(c, flag) == \E v \in Recv(c) : <<flag>> \in v.flags
FirstPos(c) == SubSeq(c.pos, 1, Min({1, Len(c.pos)}))
KwIs(c, name, const) == name \in DOMAIN c.kw /\ c.kw[name].const = const

IsWeakRandom(c) ==
    /\ c.last \in WEAK_RANDOM_FUNCS
    /\ \/ c.fn = <<"random", c.last>>
       \/ HasFlag(c, "weakrng")

SpecificClean(c) ==
    (IF c.last \in XSS_ESCAPES THEN XssClean ELSE {})
        \cup (IF c.last \in SQL_ESCAPES THEN SinkCwes.sql ELSE {})
        \cup (IF c.last \in LDAP_ESCAPES THEN SinkCwes.ldap ELSE {})

\* The result is a cursor, a process, a file or what a query found, not the input.
ResultIsNotInput(c) ==
    \/ c.last = "execute"
    \/ c.fn \in CMD_FN \cup PATH_FN
    \/ HasFlag(c, "path") /\ c.last \in PATH_METHODS
    \/ c.last \in LDAP_SEARCH /\ c.recv # <<>>
    \/ c.last = "xpath"

ReturnsInput(c, m) ==
    \/ /\ c.recvNode = <<>> \/ Path(c.recvNode[1]) # <<>>
       /\ \/ c.fn = <<"input">>
          \/ \E i \in DOMAIN c.fn : \E s \in SOURCES \ Trusted : IsPrefix(s, SubSeq(c.fn, i, Len(c.fn)))
       /\ ~(StaticPath(m) /\ c.recvNode # <<>> /\ Path(c.recvNode[1]) \in REQUEST_PATH)
    \/ c.last \in m.methods /\ HasFlag(c, "reqobj")
    \/ c.last \in m.functions /\ (c.recvNode = <<>> \/ Path(c.recvNode[1]) \notin DOMAIN m.vars)

\* A numeric sanitizer returns a number; any other one text that is not input.
Sanitized(c) ==
    [UNKNOWN EXCEPT !.lit = c.last \in NUMERIC_SANITIZERS \/ \A a \in EveryArg(c) : a.lit,
                    !.weak = \E a \in EveryArg(c) : a.weak]

CleanedOf(v, cwes) == IF v.taint THEN [v EXCEPT !.clean = @ \cup cwes] ELSE v

\* Reads of a tracked container: a value in a sequence of length one, if it is such a read.
ContainerRead(c) ==
    LET recv == c.recv[1]
        items == recv.elems # <<>>
        keys == IF c.last = "pop" THEN FirstPos(c) ELSE SubSeq(c.pos, 1, Min({2, Len(c.pos)}))
        found == Lookup(recv, [i \in DOMAIN keys |-> keys[i].const])
        default == IF Len(c.pos) > 1 /\ Len(keys) = 1 THEN {c.pos[2]} ELSE Keyword(c, {"fallback"})
        p == IF c.pos = <<>> THEN Len(recv.seq[1]) ELSE Position(c.pos[1].const, Len(recv.seq[1]))
    IN  IF c.recv = <<>> THEN <<>>
        ELSE IF c.last \in {"get", "pop"} /\ c.pos # <<>> /\ items
        THEN IF found # <<>> THEN found
             ELSE IF default # {} THEN <<Summary(CHOOSE v \in default : TRUE)>>
             ELSE <<UNKNOWN>>
        ELSE IF c.last = "pop" /\ recv.seq # <<>> /\ p > 0 THEN <<recv.seq[1][p]>>
        ELSE IF c.last = "copy" /\ NoArgs(c) THEN <<recv>>
        ELSE IF c.last \in {"values", "items"} /\ items THEN <<Summary(recv)>>
        ELSE IF c.last = "keys" /\ items THEN <<LIT>>
        ELSE <<>>

IsRequest(n) == n.k = "name" /\ n.at = <<"request">>

ResultFlags(c, v) ==
    LET derivesPath == HasFlag(c, "path") /\ c.last \in {"resolve", "joinpath"}
        urlOf == IF c.last = "urlparse" /\ c.pos # <<>> THEN Path(c.posNodes[1]) ELSE <<>>
        requests == {n \in ToSet(c.posNodes) \cup {c.kwNodes[k] : k \in DOMAIN c.kw} : IsRequest(n)}
    IN  (IF c.last \in PATH_CTORS \/ derivesPath THEN {<<"path">>} ELSE {})
            \cup (IF c.fn \in NORMALIZERS \/ (derivesPath /\ c.last = "resolve")
                  THEN {<<"normalized">>} ELSE {})
            \cup (IF urlOf = <<>> THEN {} ELSE {<<"urlof", urlOf>>})
            \cup (IF requests = {} THEN {} ELSE {<<"reqobj">>})
            \cup (IF c.last = "XMLParser" /\ KwIs(c, "resolve_entities", Truth(TRUE))
                  THEN {<<"xxe">>} ELSE {})
            \cup (IF c.last = "format" /\ c.recv # <<>> /\ ~v.lit THEN {<<"dyn">>} ELSE {})

\* The result of any other call depends on the receiver and the arguments; it is literal
\* when the function is pure, a module being a namespace and not a value.
ComputedResult(c, m) ==
    LET v == Combine(Recv(c) \cup EveryArg(c))
        pure == c.last \in PURE_FUNCTIONS \cup (IF c.recvNode = <<>> THEN {} ELSE PURE_METHODS)
        names == {n[1] : n \in {x \in DOMAIN m.vars : Len(x) = 1}}
        namespace == \E r \in Recv(c) : /\ ~r.taint
                                        /\ Path(c.recvNode[1]) # <<>>
                                        /\ Path(c.recvNode[1])[1] \notin names
        recvLit == \A r \in Recv(c) : r.lit \/ (namespace /\ c.last \in PURE_FUNCTIONS)
        ofText == c.fn = <<"str">> /\ Len(c.pos) = 1 /\ IsText(c.pos[1].const)
    IN  [CleanedOf(v, SpecificClean(c)) EXCEPT
            !.lit = pure /\ recvLit /\ \A a \in EveryArg(c) : a.lit,
            !.flags = ResultFlags(c, v),
            !.const = IF ofText THEN c.pos[1].const ELSE NOCONST]

CallResult(c, m) ==
    LET read == ContainerRead(c)
        body == IF c.pos[1].seq \in {<<>>, << <<>> >>} THEN c.pos[1] ELSE c.pos[1].seq[1][1]
    IN  IF ReturnsInput(c, m) THEN TAINT
        ELSE IF IsWeakRandom(c) THEN [UNKNOWN EXCEPT !.weak = TRUE]
        ELSE IF c.fn = <<"random", "Random">> THEN [UNKNOWN EXCEPT !.flags = {<<"weakrng">>}]
        ELSE IF c.last \in UNIVERSAL_SANITIZERS \cup Sanitizers THEN Sanitized(c)
        ELSE IF NoArgs(c) /\ c.last \in DICT_CTORS THEN [LIT EXCEPT !.elems = << <<>> >>]
        ELSE IF NoArgs(c) /\ c.last \in LIST_CTORS THEN [LIT EXCEPT !.seq = << <<>> >>]
        ELSE IF ResultIsNotInput(c) THEN UNKNOWN
        ELSE IF c.last \in REDIRECT_FNS THEN CleanedOf(Combine(EveryArg(c)), XssClean)
        ELSE IF read # <<>> THEN read[1]
        ELSE IF c.last \in {"jsonify", "render_template"}
        THEN CleanedOf(Combine(EveryArg(c)), XssClean)
        ELSE IF c.last \in {"make_response", "Response"} /\ c.pos # <<>> THEN Summary(body)
        ELSE ComputedResult(c, m)

\* A call that changes a tracked list. Nothing when the change cannot be followed.
MutateList(cur, c) ==
    LET seq == cur.seq[1]
        p == IF c.pos = <<>> THEN Len(seq) ELSE Position(c.pos[1].const, Len(seq))
    IN  CASE c.last = "append" /\ Len(c.pos) = 1 -> <<SeqVal(Append(seq, c.pos[1]), cur.flags)>>
          [] c.last = "insert" /\ Len(c.pos) = 2 /\ IsInt(c.pos[1].const) ->
               LET at == SliceOf(seq, NONE, c.pos[1].const)
               IN  <<SeqVal(InsertAt(seq, Len(at) + 1, c.pos[2]), cur.flags)>>
          [] c.last = "extend" /\ Len(c.pos) = 1 /\ c.pos[1].seq # <<>> ->
               <<SeqVal(seq \o c.pos[1].seq[1], cur.flags)>>
          [] c.last = "pop" /\ p > 0 -> <<SeqVal(RemoveAt(seq, p), cur.flags)>>
          [] c.last = "clear" -> <<SeqVal(<<>>, cur.flags)>>
          [] OTHER -> <<>>

MutateDict(cur, c) ==
    LET items == cur.elems[1]
        n == Len(c.pos)
        key == c.pos[1].const
        IsKey(i) == Hashable(c.pos[i].const)
        stored == IF n = 2 THEN key ELSE <<"pair", key, c.pos[2].const>>
        Of(f) == <<DictVal(f, cur.flags)>>
    IN  CASE c.last = "set" /\ n \in {2, 3} /\ (\A i \in 1 .. n - 1 : IsKey(i)) ->
               Of(Put(items, stored, c.pos[n]))
          [] c.last = "pop" /\ n > 0 /\ IsKey(1) -> Of(Restrict(items, DOMAIN items \ {key}))
          [] c.last = "setdefault" /\ n > 0 /\ IsKey(1) ->
               Of(IF key \in DOMAIN items THEN items
                  ELSE Put(items, key, IF n > 1 THEN c.pos[2] ELSE Literal(NONE)))
          [] c.last = "update" /\ n = 1 /\ c.pos[1].elems # <<>> /\ DOMAIN c.kw = {} ->
               Of([k \in DOMAIN items \cup DOMAIN c.pos[1].elems[1] |->
                      IF k \in DOMAIN c.pos[1].elems[1] THEN c.pos[1].elems[1][k] ELSE items[k]])
          [] c.last = "clear" -> Of(<<>>)
          [] OTHER -> <<>>

Mutate(cur, c) ==
    LET list == IF cur.seq = <<>> THEN <<>> ELSE MutateList(cur, c)
        dict == IF cur.elems = <<>> \/ (c.pos = <<>> /\ c.last # "clear") THEN <<>>
                ELSE MutateDict(cur, c)
        kept == IF c.last \in Removers THEN {} ELSE {Summary(a) : a \in EveryArg(c)}
    IN  IF list # <<>> THEN list[1]
        ELSE IF dict # <<>> THEN dict[1]
        ELSE [Combine({Summary(cur)} \cup kept) EXCEPT !.flags = cur.flags]

\* What a call does to its receiver; a receiver nothing is known of is left alone
\* unless untrusted data goes into it.
CallEffects(c, m) ==
    LET path == IF c.recvNode = <<>> THEN <<>> ELSE Path(c.recvNode[1])
        cur == Get(m.vars, path)
        known == path \in DOMAIN m.vars \/ \E a \in EveryArg(c) : a.taint \/ a.weak
    IN  IF path = <<>> THEN m
        ELSE IF c.last = "setFeature"
        THEN IF Len(c.pos) >= 2 /\ c.pos[2].const = Truth(TRUE)
             THEN Bind(m, path, [cur EXCEPT !.flags = @ \cup {<<"xxe">>}]) ELSE m
        ELSE IF c.last \in MUTATORS /\ known THEN Bind(m, path, Mutate(cur, c))
        ELSE m

(***************************************************************************)
(* Sinks.                                                                  *)
(***************************************************************************)
AnyTainted(vs, sink) == \E v \in vs : TaintedFor(v, SinkCwes[sink])
If(condition, sinks) == IF condition THEN sinks ELSE {}

SqlSinks(c) ==
    LET query == Arg(c, 1, {"sql", "query"})
    IN  IF c.last # "execute" THEN {}
        ELSE IF AnyTainted(query, "sql") THEN {"sql"}
        ELSE If(\E q \in query : q.param /\ ~q.lit /\ <<"dyn">> \in q.flags, {"sqlBuilding"})

\* Only the program is a command, except where every argument reaches it.
CommandValues(c) ==
    ToSet(c.extra) \cup (IF c.fn = <<"os", "execv">> THEN ToSet(c.pos)
                         ELSE Arg(c, 1, {"args", "cmd", "command"}))

PathValues(c) ==
    ToSet(CASE c.fn \in TWO_PATH_FN -> SubSeq(c.pos, 1, Min({2, Len(c.pos)}))
            [] c.last = "send_from_directory" -> SubSeq(c.pos, 2, Min({2, Len(c.pos)}))
            [] OTHER -> FirstPos(c))
        \cup Keyword(c, {"file", "filename", "path", "name", "src", "dst"})

\* A loader that is not named, or is not a safe one.
YamlUnsafe(c) ==
    LET nodes == IF "Loader" \in DOMAIN c.kwNodes THEN {c.kwNodes["Loader"]}
                 ELSE ToSet(SubSeq(c.posNodes, 2, Min({2, Len(c.posNodes)})))
    IN  \A n \in nodes : TokenOf(n) # "SafeLoader"

Deserializes(c) == c.fn \in DESER_FN \/ (c.fn \in YAML_LOAD_FN /\ YamlUnsafe(c))
DataArg(c) == Arg(c, 1, {"data", "stream", "file", "s"})

LdapValues(c) ==
    IF c.last = "search"
    THEN ToSet(SubSeq(c.pos, 1, Min({2, Len(c.pos)}))) \cup Keyword(c, {"search_base", "search_filter"})
    ELSE {c.pos[i] : i \in {1, 3} \cap DOMAIN c.pos} \cup Keyword(c, {"base", "filterstr"})

OnRegex(c) == c.recvNode[1].at = <<"re">>

XpathValues(c, m) ==
    IF c.last = "xpath" THEN Arg(c, 1, {"path"})
    ELSE IF c.fn = <<"elementpath", "select">> THEN Arg(c, 2, {"path"})
    ELSE IF m.xml /\ c.last = "find" /\ c.recvNode # <<>> /\ ~OnRegex(c) THEN Arg(c, 1, {"path"})
    ELSE {}

\* External entities are enabled in the parser or in an argument after the data.
XxeSinks(c) ==
    LET parsers == Recv(c) \cup ToSet(SubSeq(c.pos, 2, Len(c.pos))) \cup Keyword(c, DOMAIN c.kw)
    IN  If(/\ c.last \in XML_PARSE
           /\ \E v \in parsers : <<"xxe">> \in v.flags
           /\ AnyTainted(ToSet(FirstPos(c)), "xxe"), {"xxe"})

HtmlSinks(c) ==
    If(/\ \/ c.last \in MARKUP_FNS
          \/ c.last \in DJANGO_RESPONSES /\ ~KwIs(c, "content_type", Text("text/plain"))
       /\ AnyTainted(ToSet(FirstPos(c)), "xss"), {"xss"})

RandomSinks(c) ==
    LET secrets == {n \in DOMAIN c.kw : n \in SENSITIVE /\ c.kw[n].weak}
    IN  If(/\ \E v \in EveryArg(c) : v.weak
           /\ c.last = "set_cookie" \/ c.last \in SENSITIVE \/ secrets # {}, {"random"})

TrustSinks(c) ==
    If(/\ c.last \in {"update", "setdefault"}
       /\ c.recvNode # <<>>
       /\ TokenOf(c.recvNode[1]) \in SESSIONS
       /\ AnyTainted(EveryArg(c), "trust"), {"trust"})

SinksOf(c, m) ==
    SqlSinks(c)
        \cup If(c.fn \in CMD_FN /\ AnyTainted(CommandValues(c), "command"), {"command"})
        \cup If(\/ c.fn \in PATH_FN /\ AnyTainted(PathValues(c), "path")
                \/ /\ HasFlag(c, "path")
                   /\ c.last \in PATH_METHODS
                   /\ AnyTainted(Recv(c), "path"), {"path"})
        \cup If(c.fn \in CODE_FN /\ AnyTainted(Arg(c, 1, {"source"}), "code"), {"code"})
        \cup If(Deserializes(c) /\ AnyTainted(DataArg(c), "deser"), {"deser"})
        \cup If(/\ m.ldap /\ c.last \in LDAP_SEARCH /\ c.recvNode # <<>> /\ ~OnRegex(c)
                /\ AnyTainted(LdapValues(c), "ldap"), {"ldap"})
        \cup If(AnyTainted(XpathValues(c, m), "xpath"), {"xpath"})
        \cup XxeSinks(c)
        \cup If(/\ c.last \in REDIRECT_FNS
                /\ AnyTainted(Arg(c, 1, {"location", "url"}), "redirect"), {"redirect"})
        \cup HtmlSinks(c) \cup TrustSinks(c) \cup RandomSinks(c)

\* The verdicts that let the pattern scanner drop or keep its finding on the line.
Verdicts(c, m) ==
    LET shell == c.fn = <<"os", "system">>
                     \/ (c.fn \in SHELL_CMD_FN /\ "shell" \in DOMAIN c.kw
                             /\ ~KwIs(c, "shell", Truth(FALSE)))
        Judge(acc, kind, vs) ==
            IF vs = {} THEN acc ELSE Verdict(acc, kind, c.line, CHOOSE v \in vs : TRUE)
        commands == IF Arg(c, 1, {"args"}) # {} THEN Arg(c, 1, {"args"})
                    ELSE ToSet(SubSeq(c.extra, 1, Min({1, Len(c.extra)})))
        judged == IF shell THEN Judge(m, "shell", commands) ELSE m
    IN  IF Deserializes(c) THEN Judge(judged, "deser", DataArg(c)) ELSE judged

CheckSinks(c, m) == Verdicts(c, Emit(m, SinksOf(c, m), c.line))

\* The receiver, then the arguments, then the sinks, the result and the effects.
EvCall(e, m, d) ==
    LET fn == e.sub[1]
        recv == IF fn.k = "attr" THEN Ev(fn.sub[1], m, d)
                ELSE IF fn.k = "name" THEN R(UNKNOWN, m)
                ELSE Ev(fn, m, d)
        nodes == [i \in 1 .. Len(e.sub) - 1 |->
                      IF e.sub[i + 1].k = "kwarg" THEN e.sub[i + 1].sub[1] ELSE e.sub[i + 1]]
        args == EvAll(nodes, recv.m, d)
        c == Call(e, IF fn.k = "attr" THEN <<recv.v>> ELSE <<>>, args.vs)
        checked == CheckSinks(c, args.m)
    IN  R(CallResult(c, checked), CallEffects(c, checked))

(***************************************************************************)
(* Past the nesting limits: one scan of the whole subtree. Any source or   *)
(* tainted variable in it taints it, and the calls in it are checked for   *)
(* the simple sinks; nothing in it is assigned.                            *)
(***************************************************************************)
FlatTainted(n, m) ==
    \/ IsSource(n)
    \/ \E x \in Subtree(n) : x.k = "name" /\ Get(m.vars, x.at).taint

FlatSink(call) ==
    LET fn == Path(call.sub[1])
    IN  CASE TokenOf(call.sub[1]) = "execute" -> {"sql"}
          [] fn \in CMD_FN -> {"command"}
          [] fn \in PATH_FN -> {"path"}
          [] fn \in CODE_FN -> {"code"}
          [] fn \in DESER_FN -> {"deser"}
          [] OTHER -> {}

FlatCall(call, m) ==
    LET args == IF FlatSink(call) = {"sql"} THEN SubSeq(call.sub, 2, Min({2, Len(call.sub)}))
                ELSE Tail(call.sub)
    IN  If(\E i \in DOMAIN args : FlatTainted(args[i], m), FlatSink(call))

Flat(n, m) ==
    LET found == {<<s, x.line>> : <<s, x>> \in
                     UNION {FlatCall(x, m) \X {x} : x \in {y \in Subtree(n) : y.k = "call"}}}
    IN  R([UNKNOWN EXCEPT !.taint = FlatTainted(n, m)],
          IF m.quiet THEN m ELSE [m EXCEPT !.emits = @ \cup found])

EvNode(e, m, d) ==
    IF d > MaxExprDepth THEN Flat(e, m)
    ELSE CASE e.k = "name" -> R(Get(m.vars, e.at), m)
           [] e.k = "const" -> R(Literal(e.at), m)
           [] e.k = "attr" -> EvAttribute(e, m, d + 1)
           [] e.k = "call" -> EvCall(e, m, d + 1)
           [] e.k = "fstring" -> EvString(e, m, d + 1)
           [] e.k = "concat" -> EvConcat(e, m, d + 1)
           [] e.k = "paren" -> Ev(e.sub[1], m, d + 1)
           [] e.k = "bin" -> EvBinary(e, m, d + 1)
           [] e.k = "unary" -> EvUnary(e, m, d + 1)
           [] e.k = "not" -> EvNot(e, m, d + 1)
           [] e.k = "cmp" -> EvCompare(e, m, d + 1)
           [] e.k = "bool" -> EvBoolean(e, m, d + 1)
           [] e.k = "cond" -> EvConditional(e, m, d + 1)
           [] e.k = "index" -> EvSubscript(e, m, d + 1)
           [] e.k = "list" -> EvSequence(e, m, d + 1)
           [] e.k \in {"set", "pair"} -> EvSet(e, m, d + 1)
           [] e.k = "dict" -> EvDict(e, m, d + 1)
           [] e.k = "comp" -> EvComprehension(e, m, d + 1)
           [] e.k = "walrus" -> EvWalrus(e, m, d + 1)
           [] e.k = "splat" -> EvSplat(e, m, d + 1)
           [] e.k = "lambda" -> R(UNKNOWN, m)
           [] OTHER -> EvOther(e, m, d + 1)

(***************************************************************************)
(* Guards: what a condition that holds, or fails, tells of the variables.  *)
(* Only complete mitigations count: allowlists, digit checks, a resolved   *)
(* path inside a base directory, a checked host.                           *)
(***************************************************************************)
RECURSIVE AtomsOfEither(_, _)
AtomsOfEither(cond, truth) ==
    CASE cond.k = "paren" -> AtomsOfEither(cond.sub[1], truth)
      [] cond.k = "not" -> AtomsOfEither(cond.sub[1], ~truth)
      [] cond.k = "bool" -> AtomsOfEither(cond.sub[1], truth) \o AtomsOfEither(cond.sub[2], truth)
      [] OTHER -> <<[node |-> cond, holds |-> truth]>>

RECURSIVE Atoms(_, _)
\* The atomic conditions implied by cond having this truth value.
Atoms(cond, truth) ==
    CASE cond.k = "paren" -> Atoms(cond.sub[1], truth)
      [] cond.k = "not" -> Atoms(cond.sub[1], ~truth)
      [] cond.k = "bool" ->
           IF (cond.at = <<"and">>) = truth
           THEN Atoms(cond.sub[1], truth) \o Atoms(cond.sub[2], truth) ELSE <<>>
      [] OTHER -> <<[node |-> cond, holds |-> truth]>>

\* A variable is cleared for these classes; a value that is not tainted has none to clear.
Clean(m, path, cwes) ==
    IF Get(m.vars, path).taint THEN Bind(m, path, CleanedOf(m.vars[path], cwes)) ELSE m

Normalized(path, m) == path # <<>> /\ <<"normalized">> \in Get(m.vars, path).flags

RECURSIVE PathContained(_, _)
\* The resolved path that this condition proves to lie inside a base directory.
PathContained(n, m) ==
    LET Resolved(x) == LET p == Path(Unwrap(x)) IN IF Normalized(p, m) THEN p ELSE <<>>
        sides == [i \in DOMAIN n.sub |-> PathContained(n.sub[i], m)]
    IN  CASE n.k = "paren" -> sides[1]
          [] n.k = "bool" /\ n.at = <<"or">> -> IF sides[1] = sides[2] THEN sides[1] ELSE <<>>
          [] n.k = "cmp" /\ n.at = <<"==">> -> Resolved(n.sub[1])
          [] n.k = "call" /\ Path(n.sub[1]) = <<"any">> /\ Len(n.sub) = 2 /\ n.sub[2].k = "comp" ->
               PathContained(n.sub[2].sub[1], m)
          [] n.k = "call" /\ n.sub[1].k = "attr"
                 /\ n.sub[1].at[1] \in {"is_relative_to", "startswith"} ->
               Resolved(n.sub[1].sub[1])
          [] OTHER -> <<>>

\* The host of a parsed URL is an allowed one: the URL is no open redirect.
CleanUrlHost(n, m) ==
    LET obj == n.sub[1]
        urls == IF obj.k = "call"
                THEN IF TokenOf(obj.sub[1]) = "urlparse" THEN {Path(obj.sub[2])} ELSE {}
                ELSE {f[2] : f \in {x \in Get(m.vars, Path(obj)).flags : x[1] = "urlof"}}
    IN  IF n.k # "attr" \/ n.at # <<"netloc">> THEN m
        ELSE FoldSet(LAMBDA u, acc : Clean(acc, u, SinkCwes.redirect), m, urls)

\* x is now known to be one of some literals, or to be this one.
Becomes(x, literal, m) ==
    LET path == Path(x)
    IN  CleanUrlHost(x, IF path = <<>> THEN m ELSE Bind(m, path, literal))

RefineCompare(n, m, holds) ==
    LET op == n.at[1]
        member == (op = "in" /\ holds) \/ (op = "not in" /\ ~holds)
        equal == (op = "==" /\ holds) \/ (op = "!=" /\ ~holds)
        Equate(acc, x, y) ==
            LET r == EvQuiet(y, acc)
            IN  IF r.v.lit THEN Becomes(x, Literal(r.v.const), r.m) ELSE r.m
        set == EvQuiet(n.sub[2], m)
    IN  IF Len(n.sub) # 2 THEN m
        ELSE IF member THEN IF set.v.lit THEN Becomes(n.sub[1], LIT, set.m) ELSE set.m
        ELSE IF equal THEN Equate(Equate(m, n.sub[1], n.sub[2]), n.sub[2], n.sub[1])
        ELSE m

DigitChecks == {"isdigit", "isalnum"}
SafeUrlChecks == {"is_safe_url"}

RefineCall(n, m, holds) ==
    LET fn == n.sub[1]
        last == TokenOf(fn)
        path == IF fn.k = "attr" THEN Path(Unwrap(fn.sub[1])) ELSE <<>>
        checked == IF last \in SafeUrlChecks /\ Len(n.sub) > 1 THEN Path(n.sub[2]) ELSE <<>>
    IN  IF ~holds \/ (fn.k = "attr" /\ path = <<>>) THEN m
        ELSE IF fn.k = "attr" /\ last \in DigitChecks
        THEN Bind(m, path, [LIT EXCEPT !.weak = Get(m.vars, path).weak])
        ELSE IF fn.k = "attr" /\ last \in {"startswith", "is_relative_to"} /\ Normalized(path, m)
        THEN Clean(m, path, SinkCwes.path)
        ELSE IF checked # <<>> THEN Clean(m, checked, SinkCwes.redirect)
        ELSE m

RefineBy(cond, m, truth) ==
    LET Apply(acc, atom) ==
            LET contained == IF atom.holds THEN PathContained(atom.node, acc) ELSE <<>>
                cleaned == IF contained = <<>> THEN acc ELSE Clean(acc, contained, SinkCwes.path)
            IN  CASE atom.node.k = "cmp" -> RefineCompare(atom.node, cleaned, atom.holds)
                  [] atom.node.k = "call" -> RefineCall(atom.node, cleaned, atom.holds)
                  [] OTHER -> cleaned
    IN  FoldLeft(Apply, m, Atoms(cond, truth))

(***************************************************************************)
(* Statements. The children of a statement are its expressions, its block  *)
(* and its clauses.                                                        *)
(***************************************************************************)
Clauses(n, kind) == SelectSeq(n.sub, LAMBDA x : x.k = kind)
Block(n) == CHOOSE b \in ToSet(n.sub) : b.k = "block"

\* Every arm of an if whose condition may hold is run in the state that its condition and
\* the failed ones before it leave; a condition known to hold ends the chain.
ExecIf(n, m, d) ==
    LET arms == <<[sub |-> SubSeq(n.sub, 1, 2)]>> \o Clauses(n, "elif")
        Arm(acc, arm) ==
            LET test == Ev(arm.sub[1], acc.m, 0)
                ts == Truths(test.v.const)
                entered == IF ts = BOOLEAN THEN Refine(arm.sub[1], test.m, TRUE) ELSE test.m
                run == IF TRUE \in ts THEN ExecBlock(arm.sub[2], entered, d + 1) ELSE test.m
                back == At(run, Here(test.m))
            IN  IF ~acc.pending THEN acc
                ELSE [m |-> IF ts = BOOLEAN THEN Refine(arm.sub[1], back, FALSE) ELSE back,
                      results |-> acc.results \cup (IF TRUE \in ts THEN {Here(run)} ELSE {}),
                      pending |-> FALSE \in ts]
        tried == FoldLeft(Arm, [m |-> m, results |-> {}, pending |-> TRUE], arms)
        else == Clauses(n, "else")
        last == IF tried.pending /\ else # <<>> THEN ExecBlock(else[1].sub[1], tried.m, d + 1)
                ELSE tried.m
    IN  At(last, JoinStates(tried.results \cup (IF tried.pending THEN {Here(last)} ELSE {})))

\* One more round of a loop: a for binds its next element, a while takes its condition.
Enter(n, elem, ts, m) ==
    IF n.k = "for" THEN Assign(n.sub[1], elem, m)
    ELSE LET test == Ev(n.sub[1], m, 0)
         IN  IF ts = BOOLEAN THEN Refine(n.sub[1], test.m, TRUE) ELSE test.m

Exits(m, kind) == {x.state : x \in {y \in Last(m.exits) : y.kind = kind}}

RECURSIVE Rounds(_, _, _, _, _, _)
\* m is in the state at the head of the loop; k rounds are left.
Rounds(n, elem, ts, m, k, d) ==
    LET out == ExecBlock(Block(n), Enter(n, elem, ts, m), d + 1)
        head == JoinStates({Here(m), Here(out)} \cup Exits(out, "continue"))
    IN  IF k = 0 THEN m
        ELSE IF head = Here(m) THEN At(out, head)
        ELSE Rounds(n, elem, ts, At(out, head), k - 1, d)

\* Only the two outermost loops are repeated, deeper ones run once.
LoopLeft(run, breaks, exits) ==
    LET left == IF breaks = {} THEN run ELSE At(run, JoinStates({Here(run)} \cup breaks))
    IN  [left EXCEPT !.exits = exits]

AfterRounds(run, exits) == LoopLeft(run, Exits(run, "break"), exits)

Loop(n, elem, ts, m, d) ==
    LET rounds == IF Len(m.exits) < 2 THEN LoopRounds ELSE 1
    IN  AfterRounds(Rounds(n, elem, ts, [m EXCEPT !.exits = Append(@, {})], rounds, d), m.exits)

AfterFor(else, after, d) ==
    IF else # <<>> /\ after.live THEN ExecBlock(else[1].sub[1], after, d + 1) ELSE after

ExecFor(n, m, d) ==
    LET iterated == Ev(n.sub[2], m, 0)
    IN  AfterFor(Clauses(n, "else"), Loop(n, ElemOf(iterated.v), BOOLEAN, iterated.m, d), d)

RECURSIVE HasBreak(_)
HasBreak(n) ==
    \/ n.k = "break"
    \/ n.k \notin {"for", "while", "def", "class"} /\ \E i \in DOMAIN n.sub : HasBreak(n.sub[i])

\* Only a break leaves a loop whose condition is always true.
AfterWhile(n, ts, after) == IF ts = {TRUE} /\ ~HasBreak(Block(n)) THEN Stop(after) ELSE after

ExecWhile(n, m, d) ==
    LET test == Ev(n.sub[1], m, 0)
        ts == Truths(test.v.const)
    IN  IF ts = {FALSE} THEN test.m
        ELSE AfterWhile(n, ts, Loop(n, UNKNOWN, ts, test.m, d))

\* A handler starts from the states before and after the body.
TryClause(acc, c, entry, d) ==
    CASE c.k = "else" /\ acc.normal.live ->
           LET run == ExecBlock(c.sub[1], At(acc.m, acc.normal), d + 1)
           IN  [acc EXCEPT !.m = run, !.normal = Here(run)]
      [] c.k = "except" ->
           LET named == IF Len(c.sub) = 1 THEN At(acc.m, entry)
                        ELSE Assign(c.sub[1], UNKNOWN, At(acc.m, entry))
               run == ExecBlock(Block(c), named, d + 1)
           IN  [acc EXCEPT !.m = run, !.results = @ \cup {Here(run)}]
      [] OTHER -> acc

\* Without a path that goes on, the finally runs from the entry of the handlers.
TryEnd(finally, m, entry, merged, d) ==
    CASE finally = <<>> -> At(m, merged)
      [] merged.live -> ExecBlock(finally[1].sub[1], At(m, merged), d + 1)
      [] OTHER -> Stop(ExecBlock(finally[1].sub[1], At(m, entry), d + 1))

TryMerge(n, tried, entry, d) ==
    TryEnd(Clauses(n, "finally"), tried.m, entry, JoinStates(tried.results \cup {tried.normal}), d)

TryFrom(n, out, entry, d) ==
    TryMerge(n, FoldLeft(LAMBDA acc, c : TryClause(acc, c, entry, d),
                         [m |-> out, normal |-> Here(out), results |-> {}], Tail(n.sub)), entry, d)

ExecTry(n, m, d) ==
    LET out == ExecBlock(n.sub[1], m, d + 1)
    IN  TryFrom(n, out, JoinStates({Here(m), Here(out)}), d)

ExecWith(n, m, d) ==
    LET Item(acc, item) ==
            LET r == Ev(item.sub[1], acc, 0)
            IN  IF Len(item.sub) = 1 THEN r.m ELSE Assign(item.sub[2], r.v, r.m)
    IN  ExecBlock(Block(n), FoldLeft(Item, m, Clauses(n, "item")), d + 1)

\* Whether the pattern of a case matches: a capture and _ always do, and literals do when
\* the constant of the subject is one of them.
MatchStatic(pattern, const) ==
    CASE pattern.k \in {"name", "wildcard"} -> {TRUE}
      [] pattern.k = "literals" /\ const # NOCONST ->
           {\E i \in DOMAIN pattern.sub : SameConst(const, pattern.sub[i].at)}
      [] OTHER -> BOOLEAN

CaptureNames(pattern) == {x.at : x \in {y \in Subtree(pattern) : y.k = "name"}}

ExecMatch(n, m, d) ==
    LET subject == Ev(n.sub[1], m, 0)
        Arm(acc, c) ==
            LET ts == MatchStatic(c.sub[1], subject.v.const)
                captured == FoldSet(LAMBDA x, mm : Bind(mm, x, Summary(subject.v)),
                                    At(acc.m, Here(subject.m)), CaptureNames(c.sub[1]))
                guarded == Len(c.sub) = 3
                test == IF guarded THEN Ev(c.sub[2], captured, 0) ELSE R(UNKNOWN, captured)
                run == ExecBlock(Block(c), test.m, d + 1)
            IN  IF acc.done \/ ts = {FALSE} THEN acc
                ELSE IF Truths(test.v.const) = {FALSE} THEN [acc EXCEPT !.m = test.m]
                ELSE [m |-> run, results |-> acc.results \cup {Here(run)},
                      done |-> ts = {TRUE} /\ ~guarded]
        tried == FoldLeft(Arm, [m |-> subject.m, results |-> {}, done |-> FALSE], Clauses(n, "case"))
    IN  At(tried.m, JoinStates(tried.results \cup (IF tried.done THEN {} ELSE {Here(subject.m)})))

\* The parameters of a function are of its caller.
ParamVals(params) ==
    [p \in {params[i].at : i \in DOMAIN params} \ {<<"self">>, <<"cls">>} |->
        [UNKNOWN EXCEPT !.param = TRUE]]

\* A function is run where it is defined, from the module's constants and its parameters.
\* at is its name and how it is routed: "view" for a route, "static" for a literal one.
ExecFunction(n, m, d) ==
    LET params == ParamVals(Clauses(n, "name"))
        ctx == [view |-> n.at[2] \in {"view", "static"}, sensitive |-> n.at[1] \in SENSITIVE,
                staticPath |-> n.at[2] = "static"]
        scope == [x \in DOMAIN m.consts \cup DOMAIN params |->
                     IF x \in DOMAIN params THEN params[x] ELSE m.consts[x]]
        inside == [At(m, [vars |-> scope, live |-> TRUE]) EXCEPT !.fns = Append(@, ctx)]
    IN  [At(ExecBlock(Block(n), inside, d + 1), Here(m)) EXCEPT !.fns = m.fns]

ExecReturn(n, m) ==
    LET r == IF n.sub = <<>> THEN R(Literal(NONE), m) ELSE Ev(n.sub[1], m, 0)
        sinks == If(Last(m.fns).view /\ TaintedFor(r.v, SinkCwes.xss), {"xss"})
                     \cup If(Last(m.fns).sensitive /\ r.v.weak, {"random"})
    IN  Stop(IF m.fns = <<>> THEN r.m
             ELSE [Emit(r.m, sinks, n.line) EXCEPT !.returns = @ \cup {r.v}])

ExecAssign(n, m) ==
    LET r == Ev(Last(n.sub), m, 0)
    IN  FoldLeft(LAMBDA acc, target : Assign(target, r.v, acc), r.m, Front(n.sub))

ExecAugmented(n, m) ==
    LET r == Ev(n.sub[2], m, 0)
        cur == Ev(n.sub[1], r.m, 0)
    IN  Assign(n.sub[1], Binop(n.at[1], cur.v, r.v), cur.m)

ExecAssert(n, m) == Refine(n.sub[1], Ev(n.sub[1], m, 0).m, TRUE)

\* A break or continue leaves its state with the innermost loop.
ExecJump(n, m) ==
    LET exit == [kind |-> n.k, state |-> Here(m)]
    IN  Stop(IF m.exits = <<>> THEN m
             ELSE [m EXCEPT !.exits[Len(m.exits)] = @ \cup {exit}])

ExecStmt(n, before, d) ==
    LET m == [before EXCEPT !.steps = @ + 1]
    IN  IF d > MaxStmtDepth THEN Flat(n, m).m
        ELSE CASE n.k = "assign" -> ExecAssign(n, m)
               [] n.k = "augmented" -> ExecAugmented(n, m)
               [] n.k = "if" -> ExecIf(n, m, d)
               [] n.k = "for" -> ExecFor(n, m, d)
               [] n.k = "while" -> ExecWhile(n, m, d)
               [] n.k = "try" -> ExecTry(n, m, d)
               [] n.k = "with" -> ExecWith(n, m, d)
               [] n.k = "match" -> ExecMatch(n, m, d)
               [] n.k = "def" -> ExecFunction(n, m, d)
               [] n.k = "class" ->
                    At(ExecBlock(Block(n), At(m, [vars |-> <<>>, live |-> TRUE]), d + 1), Here(m))
               [] n.k = "return" -> ExecReturn(n, m)
               [] n.k = "raise" -> Stop(EvAll(n.sub, m, 0).m)
               [] n.k \in {"break", "continue"} -> ExecJump(n, m)
               [] n.k = "assert" -> ExecAssert(n, m)
               [] n.k = "block" -> ExecBlock(n, m, d + 1)
               [] n.k \in {"pass", "import", "global"} -> m
               [] OTHER -> EvAll(n.sub, m, 0).m

\* Statement by statement while the state is live and the budget lasts.
ExecStmts(block, m, d) ==
    FoldLeft(LAMBDA acc, n : IF acc.live /\ acc.steps <= MaxSteps
                             THEN Walk("statement", n, UNKNOWN, acc, d).m ELSE acc,
             m, block.sub)

Walk(what, n, v, m, d) ==
    CASE what = "expression" -> EvNode(n, m, d)
      [] what = "target" -> R(v, AssignTarget(n, v, m))
      [] what \in {"holds", "fails"} -> R(v, RefineBy(n, m, what = "holds"))
      [] what = "statement" -> R(v, ExecStmt(n, m, d))
      [] OTHER -> R(v, ExecStmts(n, m, d))

(***************************************************************************)
(* A run over a module.                                                    *)
(***************************************************************************)
\* Names bound once at module level, to a literal, and declared global nowhere.
ConstantsOf(bound, value, global) ==
    LET Binds(name) == {i \in DOMAIN bound : bound[i].sub[1].at = name}
        Fixed(i) == /\ bound[i].k = "assign"
                    /\ Last(bound[i].sub).k \in {"const", "concat", "bin", "paren", "fstring"}
                    /\ value[i].lit
                    /\ ~value[i].weak
        names == {bound[i].sub[1].at : i \in {j \in DOMAIN bound : Fixed(j)}} \ global
    IN  [x \in {y \in names : Cardinality(Binds(y)) = 1} |-> value[CHOOSE i \in Binds(x) : TRUE]]

ModuleConstants(module, fresh) ==
    LET bound == SelectSeq(module.sub, LAMBDA n : n.k \in {"assign", "augmented"}
                                                      /\ n.sub[1].k = "name")
        global == {<<x>> : x \in UNION {ToSet(n.at) : n \in {y \in Subtree(module) : y.k = "global"}}}
    IN  ConstantsOf(bound, [i \in DOMAIN bound |-> EvQuiet(Last(bound[i].sub), fresh).v], global)

\* Whether a function returns untrusted input with nothing given to it.
ReturnsTaint(def, fresh) ==
    LET ctx == [view |-> FALSE, sensitive |-> FALSE, staticPath |-> FALSE]
    IN  \E v \in ExecBlock(Block(def), [fresh EXCEPT !.fns = <<ctx>>], 0).returns : v.taint

\* The functions and methods of the module whose calls are sources of their own.
Callables(module, defs) ==
    LET InClass == {n \in UNION {Subtree(c) : c \in {x \in Subtree(module) : x.k = "class"}} :
                       n.k = "def"}
    IN  [methods |-> {n.at[1] : n \in defs \cap InClass},
         functions |-> {n.at[1] : n \in defs \ InClass}]

SourceCallables(module, fresh) ==
    Callables(module, {n \in Subtree(module) :
                           n.k = "def" /\ n.at[2] = "plain" /\ ReturnsTaint(n, fresh)})

RunWith(module, consts, sources) ==
    ExecBlock(module, Start(consts, sources.methods, sources.functions), 0)

Run(module) ==
    RunWith(module, ModuleConstants(module, Start(<<>>, {}, {})),
            SourceCallables(module, Start(<<>>, {}, {})))
=============================================================================
