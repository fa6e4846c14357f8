----------------------------- MODULE PythonRuns -----------------------------
(***************************************************************************)
(* What a Python program can do, for the programs that the flow analysis   *)
(* of TaintFlow looks at: the reference the analysis is compared with.     *)
(* Nothing here is code of the scanner.                                    *)
(*                                                                         *)
(* A value is an atom or a reference to a container in the heap. An atom   *)
(* has its exact constant or none, and the attacker's texts it contains,   *)
(* each with the classes it was made harmless for. A condition that is not *)
(* determined goes both ways.                                              *)
(*                                                                         *)
(* A run also notes what happened in it that the analysis does not follow: *)
(*   alias    a container is changed while two names refer to it           *)
(*   key      a key that the attacker chose is read back                   *)
(*   partial  an exception leaves a try block in the middle, where a name  *)
(*            has a value that it has neither before nor after the block   *)
(*   orelse   a break passes over the else of its loop, or a while has one *)
(*   global   a function reads a global that holds an attacker's text      *)
(*   skipped  a name assigned in a part of an expression that did not run  *)
(*   deep     a statement below the depth the analysis follows has effects *)
(***************************************************************************)
EXTENDS TaintFlow

CONSTANTS MaxIterations,    \* rounds of a loop that nothing else bounds
          Inputs            \* what an attacker may send to input(): sets of harmless classes;
                            \* the request always holds a text that is harmless for none

Anything == <<"unknown">>
Atom(const, texts) == [ref |-> 0, const |-> const, texts |-> texts, resolved |-> FALSE]
Opaque == Atom(Anything, {})
Reference(n) == [Opaque EXCEPT !.ref = n]

\* An attacker's text: entirely harmless ones are digits.
Sent(harmless) ==
    IF harmless = XssClean THEN Atom(Text("7"), {}) ELSE Atom(Anything, {harmless})

\* A run: the names of the current scope, the globals of a function and which of them it
\* may assign, the containers, the functions defined, the sinks reached with a harmful text,
\* the lines reached, and the gaps.
NewRun(unset) ==
    [env |-> <<>>, unset |-> unset, globals |-> <<>>, assigns |-> {}, heap |-> <<>>, defs |-> <<>>, view |-> FALSE,
     hits |-> {}, seen |-> {}, gaps |-> {}]

Gap(w, gap) == [w EXCEPT !.gaps = @ \cup {gap}]
Value(w, name) ==
    IF name \in DOMAIN w.env THEN w.env[name]
    ELSE IF name \in DOMAIN w.globals THEN w.globals[name]
    ELSE w.unset
Bound(w, name, v) ==
    IF name \in w.assigns THEN [w EXCEPT !.globals = Put(w.globals, name, v)]
    ELSE [w EXCEPT !.env = Put(w.env, name, v)]

IsList(w, v) == v.ref # 0 /\ w.heap[v.ref].k = "list"
IsDict(w, v) == v.ref # 0 /\ w.heap[v.ref].k = "dict"
Items(w, v) == w.heap[v.ref].items     \* <<key, value>> pairs, the key of a list unused

RECURSIVE Texts(_, _)
\* The attacker's texts in a value and in what it contains.
Texts(w, v) ==
    v.texts \cup (IF v.ref = 0 THEN {}
                  ELSE UNION {UNION {Texts(w, x) : x \in ToSet(Items(w, v)[i])} :
                                 i \in DOMAIN Items(w, v)})

Alloc(w, kind, items) ==
    [v |-> Reference(Len(w.heap) + 1), w |-> [w EXCEPT !.heap = Append(@, [k |-> kind, items |-> items])]]

\* How many names and container slots refer to a container.
Holders(w, ref) ==
    Cardinality({n \in DOMAIN w.env : w.env[n].ref = ref})
        + Cardinality({<<h, i>> \in (DOMAIN w.heap) \X (1 .. MaxItems) :
                           i \in DOMAIN w.heap[h].items /\ w.heap[h].items[i][2].ref = ref})

Changed(w, ref, items) ==
    LET changed == [w EXCEPT !.heap[ref].items = items]
    IN  IF Holders(w, ref) > 1 THEN Gap(changed, "alias") ELSE changed

Truth1(w, v) ==
    IF v.ref # 0 THEN {Items(w, v) # <<>>}
    ELSE IF v.const = Anything THEN IF v.texts = {} THEN BOOLEAN ELSE {TRUE}
    ELSE Truths(v.const)

Computed(op, w, a, b) ==
    LET const == FoldBinary(op, a.const, b.const)
    IN  Atom(IF const = NOCONST THEN Anything ELSE const, Texts(w, a) \cup Texts(w, b))

\* Whether two atoms are equal: a harmful text equals no constant of the program.
Equal(a, b) ==
    IF a.const # Anything /\ b.const # Anything THEN {a.const = b.const}
    ELSE IF (a.texts # {} /\ b.const # Anything) \/ (b.texts # {} /\ a.const # Anything) THEN {FALSE}
    ELSE BOOLEAN

Member(w, a, b) ==
    IF b.ref = 0 THEN BOOLEAN
    ELSE LET Slot(i) == IF IsDict(w, b) THEN Items(w, b)[i][1] ELSE Items(w, b)[i][2]
             equal == {Equal(a, Slot(i)) : i \in DOMAIN Items(w, b)}
         IN  IF {TRUE} \in equal THEN {TRUE} ELSE IF equal \subseteq {{FALSE}} THEN {FALSE} ELSE BOOLEAN

(***************************************************************************)
(* Functions of the programs.                                              *)
(***************************************************************************)
Danger(w, v, cwe) == \E text \in Texts(w, v) : cwe \notin text

SinkOf(fn) ==
    CASE fn = <<"os", "system">> -> {<<"command", "78">>}
      [] fn = <<"open">> -> {<<"path", "22">>}
      [] fn = <<"redirect">> -> {<<"redirect", "601">>}
      [] fn = <<"HttpResponse">> -> {<<"xss", "79">>}
      [] fn = <<"eval">> -> {<<"code", "95">>}
      [] fn = <<"pickle", "loads">> -> {<<"deser", "502">>}
      [] Last(fn) = "execute" -> {<<"sql", "89">>}
      [] OTHER -> {}

Hit(w, fn, v, line) ==
    [w EXCEPT !.seen = @ \cup {line},
              !.hits = @ \cup {<<s[1], line>> : s \in {x \in SinkOf(fn) : Danger(w, v, x[2])}}]

Escaped(v, cwes) == [v EXCEPT !.const = Anything, !.texts = {t \cup cwes : t \in @}]

\* Whether a resolved path lies in the base directory; one with .. in it may seem to.
Within(v) == IF v.resolved THEN {\A t \in v.texts : "22" \in t} ELSE BOOLEAN

\* A call of a function of a value that is not a container.
Applied(last, w, v, others) ==
    LET all == {v} \cup others
        texts == UNION {Texts(w, x) : x \in all}
    IN  CASE last \in UNIVERSAL_SANITIZERS -> {Opaque}
          [] last = "escape" -> {Escaped(v, XssClean)}
          [] last = "escape_string" -> {Escaped(v, XssClean \cup {"89"})}
          [] last = "realpath" -> {[v EXCEPT !.const = Anything, !.resolved = TRUE]}
          [] last = "isdigit" ->
               {Atom(Truth(b), {}) : b \in IF v.const = Anything
                                           THEN IF v.texts = {} THEN BOOLEAN ELSE {FALSE}
                                           ELSE {v.const = Text("7")}}
          [] last = "startswith" -> {Atom(Truth(b), {}) : b \in Within(v)}
          [] last = "is_safe_url" ->
               {Atom(Truth(b), {}) : b \in IF v.texts = {} THEN BOOLEAN
                                           ELSE {\A t \in v.texts : "601" \in t}}
          [] OTHER -> {Atom(Anything, texts)}

RECURSIVE Step(_, _, _, _)

\* One recursion for expressions and blocks.
Eval(e, w) == Step("expression", e, w, 0)
RunBlock(block, w, d) == Step("block", block, w, d)

\* The outcomes of evaluating several expressions from left to right.
EvalAll(es, w) ==
    FoldLeft(LAMBDA acc, e : UNION {{[vs |-> Append(a.vs, r.v), w |-> r.w] : r \in Eval(e, a.w)} :
                                       a \in acc},
             {[vs |-> <<>>, w |-> w]}, es)

Walruses(e) == {x \in Subtree(e) : x.k = "walrus"}
Skip(e, w) == IF Walruses(e) = {} THEN w ELSE Gap(w, "skipped")

\* The value that an index or a key selects.
Selected(w, v, key) ==
    LET items == Items(w, v)
        p == Position(key.const, Len(items))
        found == {i \in DOMAIN items : Equal(items[i][1], key) # {FALSE}}
    IN  IF v.ref = 0 THEN {Atom(Anything, v.texts)}
        ELSE IF IsDict(w, v) THEN {items[i][2] : i \in found}
        ELSE IF IsInt(key.const) THEN IF p = 0 THEN {} ELSE {items[p][2]}
        ELSE {items[i][2] : i \in DOMAIN items}

\* The elements that a loop over a value visits, and whether they were keys.
Elements(w, v) ==
    IF v.ref = 0 THEN [i \in 1 .. MaxIterations |-> Atom(Anything, v.texts)]
    ELSE [i \in DOMAIN Items(w, v) |-> Items(w, v)[i][IF IsDict(w, v) THEN 1 ELSE 2]]

\* Reading keys back is followed by the analysis only when they are constants.
ReadKeys(w, v) ==
    IF IsDict(w, v) /\ \E i \in DOMAIN Items(w, v) : Items(w, v)[i][1].texts # {}
    THEN Gap(w, "key") ELSE w

\* cur[key] = v
Stored(w, cur, key, v) ==
    LET items == Items(w, cur)
        p == Position(key.const, Len(items))
        at == {i \in DOMAIN items : Equal(items[i][1], key) = {TRUE}}
    IN  IF cur.ref = 0 THEN w
        ELSE IF IsDict(w, cur)
        THEN Changed(w, cur.ref, IF at = {} THEN Append(items, <<key, v>>)
                                 ELSE [items EXCEPT ![CHOOSE i \in at : TRUE] = <<key, v>>])
        ELSE IF p = 0 THEN w
        ELSE Changed(w, cur.ref, [items EXCEPT ![p] = <<Opaque, v>>])

\* A method of a container: the outcomes, or none when it is no such method.
Method(last, w, v, args) ==
    LET items == Items(w, v)
        Done(x, items2) == {[v |-> x, w |-> Changed(w, v.ref, items2)]}
        at == {i \in DOMAIN items : Equal(items[i][1], args[1]) # {FALSE}}
    IN  CASE v.ref = 0 -> {}
          [] last = "append" /\ IsList(w, v) -> Done(Opaque, Append(items, <<Opaque, args[1]>>))
          [] last = "pop" /\ IsList(w, v) /\ items # <<>> -> Done(Last(items)[2], Front(items))
          [] last = "clear" -> Done(Opaque, <<>>)
          [] last = "extend" /\ IsList(w, v) /\ IsList(w, args[1]) ->
               Done(Opaque, items \o Items(w, args[1]))
          [] last = "insert" /\ IsList(w, v) ->
               Done(Opaque, InsertAt(items, Min({args[1].const[2], Len(items)}) + 1, <<Opaque, args[2]>>))
          [] last = "setdefault" /\ IsDict(w, v) /\ at = {} ->
               Done(args[2], Append(items, <<args[1], args[2]>>))
          [] last \in {"get", "setdefault"} /\ IsDict(w, v) ->
               {[v |-> items[i][2], w |-> w] : i \in at}
                   \cup (IF at = {} THEN {[v |-> Atom(NONE, {}), w |-> w]} ELSE {})
          [] last = "copy" -> {Alloc(w, w.heap[v.ref].k, items)}
          [] OTHER -> {}

Called(e, w) ==
    LET fn == e.sub[1]
        name == Path(fn)
        last == TokenOf(fn)
        recv == IF fn.k = "attr" /\ name \notin SOURCES THEN <<fn.sub[1]>> ELSE <<>>
        Outcomes(r) ==
            LET v == IF r.vs = <<>> THEN Opaque ELSE r.vs[1]
                args == SubSeq(r.vs, Len(recv) + 1, Len(r.vs))
                others == ToSet(Tail(r.vs))
                harmed == IF args = <<>> \/ SinkOf(name) = {} THEN r.w
                          ELSE Hit(r.w, name, args[1], e.line)
            IN  IF name = <<"input">> THEN {[v |-> Sent(h), w |-> r.w] : h \in Inputs}
                ELSE IF SinkOf(name) # {} THEN {[v |-> Opaque, w |-> harmed]}
                ELSE IF Method(last, r.w, v, args) # {} THEN Method(last, r.w, v, args)
                ELSE IF r.vs = <<>> THEN {[v |-> Opaque, w |-> r.w]}
                ELSE {[v |-> x, w |-> r.w] : x \in Applied(last, r.w, v, others)}
    IN  UNION {Outcomes(r) : r \in EvalAll(recv \o Tail(e.sub), w)}

EvalNode(e, w) ==
    CASE e.k = "name" ->
           LET v == Value(w, e.at)
               foreign == e.at \notin DOMAIN w.env /\ Texts(w, v) # {}
           IN  {[v |-> v, w |-> IF foreign THEN Gap(w, "global") ELSE w]}
      [] e.k = "const" -> {[v |-> Atom(e.at, {}), w |-> w]}
      [] e.k = "attr" ->
           IF Path(e) \in SOURCES THEN {[v |-> Sent({}), w |-> w]}
           ELSE IF e.at = <<"netloc">>
           THEN {[v |-> IF r.v.texts # {} /\ (\A t \in r.v.texts : "601" \in t)
                        THEN Atom(Text("7"), {}) ELSE r.v,
                  w |-> r.w] : r \in Eval(e.sub[1], w)}
           ELSE {[v |-> Atom(Anything, r.v.texts), w |-> r.w] : r \in Eval(e.sub[1], w)}
      [] e.k = "call" -> Called(e, w)
      [] e.k = "bin" -> {[v |-> Computed(e.at[1], r.w, r.vs[1], r.vs[2]), w |-> r.w] : r \in EvalAll(e.sub, w)}
      [] e.k = "fstring" ->
           {[v |-> Atom(Anything, UNION {Texts(r.w, x) : x \in ToSet(r.vs)}), w |-> r.w] :
               r \in EvalAll(e.sub, w)}
      [] e.k = "paren" -> Eval(e.sub[1], w)
      [] e.k = "not" ->
           UNION {{[v |-> Atom(Truth(~b), {}), w |-> r.w] : b \in Truth1(r.w, r.v)} :
                     r \in Eval(e.sub[1], w)}
      [] e.k = "cmp" ->
           LET Outcome(r) == IF e.at[1] \in {"in", "not in"} THEN Member(r.w, r.vs[1], r.vs[2])
                             ELSE Equal(r.vs[1], r.vs[2])
               positive == e.at[1] \in {"in", "=="}
           IN  UNION {{[v |-> Atom(Truth(b = positive), {}), w |-> r.w] : b \in Outcome(r)} :
                         r \in EvalAll(e.sub, w)}
      [] e.k = "bool" ->
           LET stop == e.at = <<"or">>
               After(r) == (IF stop \in Truth1(r.w, r.v) THEN {[r EXCEPT !.w = Skip(e.sub[2], r.w)]}
                            ELSE {})
                               \cup (IF ~stop \in Truth1(r.w, r.v) THEN Eval(e.sub[2], r.w) ELSE {})
           IN  UNION {After(r) : r \in Eval(e.sub[1], w)}
      [] e.k = "cond" ->
           UNION {UNION {Eval(e.sub[IF b THEN 1 ELSE 3], Skip(e.sub[IF b THEN 3 ELSE 1], r.w)) :
                            b \in Truth1(r.w, r.v)} : r \in Eval(e.sub[2], w)}
      [] e.k = "index" /\ e.sub[2].k = "slice" ->
           UNION {IF ~IsList(r.w, r.vs[1]) THEN {[v |-> Atom(Anything, r.vs[1].texts), w |-> r.w]}
                  ELSE {Alloc(r.w, "list", SliceOf(Items(r.w, r.vs[1]), r.vs[2].const, r.vs[3].const))} :
                     r \in EvalAll(<<e.sub[1]>> \o e.sub[2].sub, w)}
      [] e.k = "index" ->
           UNION {{[v |-> x, w |-> r.w] : x \in Selected(r.w, r.vs[1], r.vs[2])} :
                     r \in EvalAll(e.sub, w)}
      [] e.k = "list" ->
           {Alloc(r.w, "list", [i \in DOMAIN r.vs |-> <<Opaque, r.vs[i]>>]) : r \in EvalAll(e.sub, w)}
      [] e.k = "dict" ->
           {Alloc(r.w, "dict", [i \in DOMAIN e.sub |-> <<r.vs[2 * i - 1], r.vs[2 * i]>>]) :
               r \in EvalAll(FlattenSeq([i \in DOMAIN e.sub |-> e.sub[i].sub]), w)}
      [] e.k = "comp" ->
           UNION {LET elems == Elements(r.w, r.v)
                      Inner(i) == Eval(e.sub[1], Bound(ReadKeys(r.w, r.v), e.sub[2].sub[1].at, elems[i]))
                      texts == UNION {UNION {Texts(x.w, x.v) : x \in Inner(i)} : i \in DOMAIN elems}
                  IN  {Alloc(Skip(e.sub[1], ReadKeys(r.w, r.v)), "list",
                             <<<<Opaque, Atom(Anything, texts)>>>>)} : r \in Eval(e.sub[2].sub[2], w)}
      [] e.k = "walrus" -> {[r EXCEPT !.w = Bound(r.w, e.sub[1].at, r.v)] : r \in Eval(e.sub[2], w)}
      [] OTHER -> {[v |-> Opaque, w |-> w]}

(***************************************************************************)
(* Statements: the outcomes are how a statement ends and the run it leaves. *)
(***************************************************************************)
End(kind, w) == [kind |-> kind, w |-> w]

RECURSIVE Put1(_, _, _)
\* Assigning a value to a target.
Put1(target, v, w) ==
    CASE target.k = "name" -> {Bound(w, target.at, v)}
      [] target.k = "index" -> {Stored(r.w, r.vs[1], r.vs[2], v) : r \in EvalAll(target.sub, w)}
      [] target.k = "list" ->
           LET parts == Elements(w, v)
           IN  IF v.ref # 0 /\ Len(parts) # Len(target.sub) THEN {}
               ELSE FoldLeft(LAMBDA ws, i : UNION {Put1(target.sub[i], parts[i], x) : x \in ws},
                             {w}, [i \in DOMAIN target.sub |-> i])
      [] OTHER -> {w}

Assigned(stmts) ==
    {x.at : x \in {y \in UNION {Subtree(s) : s \in ToSet(stmts)} : y.k = "name"}}

\* Leaving a try block before its i-th statement is seen by the analysis as long as what was
\* assigned before is assigned nowhere after it, and the block goes on to its end.
Middle(block, i, ends) ==
    /\ i > 1
    /\ \/ ~ends
       \/ LET names == {j \in DOMAIN block.sub : block.sub[j].k # "pass"}
              Targets(js) == UNION {Assigned(<<block.sub[j]>>) : j \in js}
          IN  Targets({j \in names : j < i}) \cap Targets({j \in names : j >= i}) # {}

RECURSIVE Iterate(_, _, _, _, _)
\* The rounds of a loop: elems are the elements left, of a for loop. A run is left after k.
Iterate(n, elems, w, k, d) ==
    LET heads == IF n.k = "for"
                 THEN IF elems = <<>> THEN {} ELSE Put1(n.sub[1], elems[1], w)
                 ELSE {r.w : r \in {x \in Eval(n.sub[1], w) : TRUE \in Truth1(x.w, x.v)}}
        ends == IF n.k = "for" THEN {w}
                ELSE {r.w : r \in {x \in Eval(n.sub[1], w) : FALSE \in Truth1(x.w, x.v)}}
        outs == UNION {RunBlock(Block(n), x, d + 1) : x \in heads}
        else == Clauses(n, "else")
        More(o) == CASE o.kind \in {"next", "continue"} ->
                          Iterate(n, IF elems = <<>> THEN <<>> ELSE Tail(elems), o.w, k - 1, d)
                     [] o.kind = "break" ->
                          {End("next", IF else = <<>> THEN o.w ELSE Gap(o.w, "orelse"))}
                     [] OTHER -> {o}
        After(x) == IF else = <<>> THEN {End("next", x)}
                    ELSE RunBlock(else[1].sub[1], IF n.k = "for" THEN x ELSE Gap(x, "orelse"), d + 1)
    IN  UNION {After(x) : x \in ends}
            \cup (IF k = 0 THEN {End("left", w)} ELSE UNION {More(o) : o \in outs})

RunTry(n, w, d) ==
    LET block == n.sub[1]
        whole == RunBlock(block, w, d + 1)
        ends == \E o \in whole : o.kind = "next"
        Upto(i) == RunBlock([block EXCEPT !.sub = SubSeq(@, 1, i - 1)], w, d + 1)
        Raised(i) == {IF Middle(block, i, ends) THEN Gap(o.w, "partial") ELSE o.w :
                          o \in {x \in Upto(i) : x.kind = "next"}}
        raised == UNION {Raised(i) : i \in DOMAIN block.sub}
                      \cup {Gap(o.w, "partial") : o \in {x \in whole : x.kind = "raise"}}
        handlers == Clauses(n, "except")
        else == Clauses(n, "else")
        finally == Clauses(n, "finally")
        Normal(o) == IF o.kind # "next" \/ else = <<>> THEN {o} ELSE RunBlock(else[1].sub[1], o.w, d + 1)
        outs == UNION {Normal(o) : o \in {x \in whole : x.kind # "raise"}}
                    \cup (IF handlers = <<>> THEN {End("raise", x) : x \in raised}
                          ELSE UNION {RunBlock(Block(handlers[1]), x, d + 1) : x \in raised})
        Final(o) == {IF f.kind = "next" THEN End(o.kind, f.w) ELSE f :
                         f \in RunBlock(finally[1].sub[1], o.w, d + 1)}
    IN  IF finally = <<>> THEN outs ELSE UNION {Final(o) : o \in outs}

RunMatch(n, w, d) ==
    LET Matches(p, x, v) ==
            CASE p.k \in {"name", "wildcard"} -> {TRUE}
              [] p.k = "literals" ->
                   LET equal == {Equal(v, Atom(p.sub[i].at, {})) : i \in DOMAIN p.sub}
                   IN  IF {TRUE} \in equal THEN {TRUE} ELSE UNION equal
              [] OTHER -> BOOLEAN
        Caught(c, r) == IF c.sub[1].k = "name" THEN Bound(r.w, c.sub[1].at, r.v) ELSE r.w
        Try(acc, c) ==
            [left |-> {r \in acc.left : FALSE \in Matches(c.sub[1], r.w, r.v)},
             outs |-> acc.outs \cup UNION {RunBlock(Block(c), Caught(c, r), d + 1) :
                          r \in {x \in acc.left : TRUE \in Matches(c.sub[1], x.w, x.v)}}]
        all == FoldLeft(Try, [left |-> Eval(n.sub[1], w), outs |-> {}], Clauses(n, "case"))
    IN  all.outs \cup {End("next", r.w) : r \in all.left}

RunIf(n, w, d) ==
    LET arms == <<[sub |-> SubSeq(n.sub, 1, 2)]>> \o Clauses(n, "elif")
        else == Clauses(n, "else")
        From(acc, arm) ==
            LET tests == UNION {Eval(arm.sub[1], x) : x \in acc.left}
            IN  [left |-> {r.w : r \in {x \in tests : FALSE \in Truth1(x.w, x.v)}},
                 outs |-> acc.outs \cup UNION {RunBlock(arm.sub[2], r.w, d + 1) :
                                                  r \in {x \in tests : TRUE \in Truth1(x.w, x.v)}}]
        all == FoldLeft(From, [left |-> {w}, outs |-> {}], arms)
    IN  all.outs \cup UNION {IF else = <<>> THEN {End("next", x)}
                             ELSE RunBlock(else[1].sub[1], x, d + 1) : x \in all.left}

RunStmt(n, before, d) ==
    LET effects == n.k # "expr"
        w == IF d > MaxStmtDepth /\ effects THEN Gap(before, "deep") ELSE before
        Next(ws) == {End("next", x) : x \in ws}
    IN  CASE n.k = "assign" ->
               Next(UNION {FoldLeft(LAMBDA ws, t : UNION {Put1(t, r.v, x) : x \in ws}, {r.w}, Front(n.sub)) :
                              r \in Eval(Last(n.sub), w)})
          [] n.k = "augmented" ->
               Next(UNION {Put1(n.sub[1], Computed(n.at[1], r.w, r.vs[1], r.vs[2]), r.w) : r \in EvalAll(n.sub, w)})
          [] n.k = "if" -> RunIf(n, w, d)
          [] n.k = "for" ->
               UNION {Iterate(n, Elements(r.w, r.v), ReadKeys(r.w, r.v), MaxIterations, d) :
                         r \in Eval(n.sub[2], w)}
          [] n.k = "while" -> Iterate(n, <<>>, w, MaxIterations, d)
          [] n.k = "try" -> RunTry(n, w, d)
          [] n.k = "with" ->
               UNION {RunBlock(Block(n), IF Len(n.sub[1].sub) = 1 THEN r.w
                                         ELSE Bound(r.w, n.sub[1].sub[2].at, r.v), d + 1) :
                         r \in Eval(n.sub[1].sub[1], w)}
          [] n.k = "match" -> RunMatch(n, w, d)
          [] n.k = "def" -> Next({[w EXCEPT !.defs = Append(@, n)]})
          [] n.k = "global" -> Next({[w EXCEPT !.assigns = @ \cup {<<x>> : x \in ToSet(n.at)}]})
          [] n.k = "return" ->
               {End("return", IF r.w.view THEN Hit(r.w, <<"HttpResponse">>, r.v, n.line) ELSE r.w) :
                   r \in IF n.sub = <<>> THEN {[v |-> Opaque, w |-> w]} ELSE Eval(n.sub[1], w)}
          [] n.k \in {"raise", "break", "continue"} -> {End(n.k, w)}
          [] n.k = "assert" ->
               Next({r.w : r \in {x \in Eval(n.sub[1], w) : TRUE \in Truth1(x.w, x.v)}})
          [] n.k = "expr" -> Next({r.w : r \in Eval(n.sub[1], w)})
          [] OTHER -> Next({w})

\* A statement without an outcome fails: an index out of range, an assertion.
Raises(outs, w) == IF outs = {} THEN {End("raise", w)} ELSE outs

RunStmts(block, w, d) ==
    FoldLeft(LAMBDA outs, n : {o \in outs : o.kind # "next"}
                                  \cup UNION {Raises(RunStmt(n, o.w, d), o.w) :
                                                 o \in {x \in outs : x.kind = "next"}},
             {End("next", w)}, block.sub)

Step(what, n, w, d) == IF what = "expression" THEN EvalNode(n, w) ELSE RunStmts(n, w, d)

\* A function is called with values of its caller, that are harmless.
RunFunction(def, w) ==
    LET inside == [w EXCEPT !.globals = w.env, !.env = <<>>, !.view = def.at[2] # "plain"]
    IN  {[o.w EXCEPT !.env = o.w.globals, !.globals = <<>>, !.assigns = {}, !.view = FALSE] :
            o \in RunBlock(Block(def), inside, 1)}

\* Every run of a module, however it ends: each of its functions may be called afterwards, in
\* their order and then once more.
RunsOf(module, unset) ==
    LET ended == {o.w : o \in UNION {RunBlock(module, NewRun(v), 0) : v \in unset}}
        Calls(w) == FoldLeft(LAMBDA ws, def : ws \cup UNION {RunFunction(def, x) : x \in ws},
                             {w}, w.defs \o w.defs)
    IN  UNION {Calls(w) : w \in ended}
=============================================================================
