----------------------------- MODULE TaintValues -----------------------------
(***************************************************************************)
(* The abstract values of the Python flow analysis (scanners/_pyflow.py):  *)
(* what is known of one expression or variable, how values are computed    *)
(* from one another, and how the values of two paths are joined.           *)
(*                                                                         *)
(* A constant is a pair of its type and its value, so that constants of    *)
(* different types differ; a missing container structure is the empty      *)
(* sequence and a known one a sequence of length one.                      *)
(***************************************************************************)
EXTENDS Integers, Sequences, FiniteSetsExt, SequencesExt

CONSTANTS MaxItems,     \* container elements tracked one by one
          MaxStr        \* the longest folded string

ASSUME BoundsAssumption == MaxItems \in Nat /\ MaxStr \in Nat

NOCONST == <<"no constant">>

UNKNOWN ==
    [taint |-> FALSE, clean |-> {}, lit |-> FALSE, const |-> NOCONST, weak |-> FALSE,
     param |-> FALSE, flags |-> {}, elems |-> <<>>, seq |-> <<>>]

LIT == [UNKNOWN EXCEPT !.lit = TRUE]
TAINT == [UNKNOWN EXCEPT !.taint = TRUE]
Literal(const) == [LIT EXCEPT !.const = const]

TaintedFor(v, cwes) == v.taint /\ cwes \cap v.clean = {}

\* The classes of which every tainted value of vs was cleared.
ClearedFor(vs) ==
    LET tainted == {v \in vs : v.taint}
    IN  {c \in UNION {v.clean : v \in tainted} : \A v \in tainted : c \in v.clean}

\* A value computed from all of vs: tainted if one is, literal if all are.
Combine(vs) ==
    [UNKNOWN EXCEPT !.taint = \E v \in vs : v.taint,
                    !.clean = ClearedFor(vs),
                    !.lit = \A v \in vs : v.lit,
                    !.weak = \E v \in vs : v.weak,
                    !.param = \E v \in vs : v.param]

\* A value computed from v alone, without its constant, flags and structure.
Derived(v) ==
    [UNKNOWN EXCEPT !.taint = v.taint, !.clean = v.clean, !.lit = v.lit,
                    !.weak = v.weak, !.param = v.param]

Summary(v) == Derived(v)

\* One element when iterating over v: an element of a list, a key of a dict.
ElemOf(v) ==
    IF v.seq # <<>> THEN Combine(ToSet(v.seq[1]))
    ELSE IF v.elems # <<>> THEN LIT
    ELSE Derived(v)

SameConst(a, b) == a # NOCONST /\ a = b

DictVal(items, flags) ==
    [Combine({items[k] : k \in DOMAIN items}) EXCEPT !.elems = <<items>>, !.flags = flags]

SeqVal(seq, flags) ==
    [Combine(ToSet(seq)) EXCEPT !.seq = IF Len(seq) > MaxItems THEN <<>> ELSE <<seq>>,
                                !.flags = flags]

RECURSIVE Join(_, _)
\* The least upper bound of two values that reach the same point.
Join(a, b) ==
    LET JoinItems(f, g) ==
            [k \in DOMAIN f \cup DOMAIN g |->
                IF k \notin DOMAIN g THEN f[k]
                ELSE IF k \notin DOMAIN f THEN g[k]
                ELSE Join(f[k], g[k])]
        sameShape == a.seq # <<>> /\ b.seq # <<>> /\ Len(a.seq[1]) = Len(b.seq[1])
    IN  IF a = b THEN a
        ELSE [taint |-> a.taint \/ b.taint,
              clean |-> ClearedFor({a, b}),
              lit |-> a.lit /\ b.lit,
              const |-> IF SameConst(a.const, b.const) THEN a.const ELSE NOCONST,
              weak |-> a.weak \/ b.weak,
              param |-> a.param \/ b.param,
              flags |-> a.flags \cup b.flags,
              elems |-> IF a.elems # <<>> /\ b.elems # <<>>
                        THEN <<JoinItems(a.elems[1], b.elems[1])>> ELSE <<>>,
              seq |-> IF sameShape
                      THEN <<[i \in DOMAIN a.seq[1] |-> Join(a.seq[1][i], b.seq[1][i])]>>
                      ELSE <<>>]

(***************************************************************************)
(* A state maps the variables to their values, and is live until a return. *)
(***************************************************************************)
DEAD == [vars |-> <<>>, live |-> FALSE]

Get(vars, name) == IF name \in DOMAIN vars THEN vars[name] ELSE UNKNOWN

Put(vars, name, v) ==
    [n \in DOMAIN vars \cup {name} |-> IF n = name THEN v ELSE vars[n]]

\* A variable that one of the live states does not know is joined with UNKNOWN.
JoinStates(states) ==
    LET live == {s \in states : s.live}
        JoinAll(vs) == LET v == CHOOSE x \in vs : TRUE IN FoldSet(Join, v, vs \ {v})
    IN  IF live = {} THEN DEAD
        ELSE [vars |-> [n \in UNION {DOMAIN s.vars : s \in live} |->
                            JoinAll({Get(s.vars, n) : s \in live})],
              live |-> TRUE]

(***************************************************************************)
(* Constants: truth, arithmetic and comparison.                            *)
(***************************************************************************)
Num(n) == <<"int", n>>
Text(s) == <<"str", s>>
Truth(b) == <<"bool", b>>
NONE == <<"none">>

IsInt(c) == c[1] = "int"
IsText(c) == c[1] = "str"
Hashable(c) == c # NOCONST /\ c # NONE

\* The truth values that a condition with this constant may have.
Truths(const) ==
    IF const = NOCONST THEN BOOLEAN
    ELSE {const \notin {Num(0), Text(""), Truth(FALSE), NONE}}

FoldBinary(op, a, b) ==
    LET numbers == IsInt(a) /\ IsInt(b)
    IN  IF op = "+" /\ numbers THEN Num(a[2] + b[2])
        ELSE IF op = "-" /\ numbers THEN Num(a[2] - b[2])
        ELSE IF op = "*" /\ numbers THEN Num(a[2] * b[2])
        ELSE IF op = "//" /\ numbers /\ b[2] # 0
             THEN Num(IF b[2] > 0 THEN a[2] \div b[2] ELSE (-a[2]) \div (-b[2]))
        ELSE IF op = "+" /\ IsText(a) /\ IsText(b) /\ Len(a[2]) + Len(b[2]) <= MaxStr
             THEN Text(a[2] \o b[2])
        ELSE NOCONST

\* Values of two types are unequal and are not ordered.
FoldCompare(op, a, b) ==
    LET numbers == IsInt(a) /\ IsInt(b)
        Within(s, t) == \E i \in 1 .. Len(t) + 1, j \in 0 .. Len(t) : SubSeq(t, i, j) = s
        identity == NONE \in {a, b} \/ a[1] = "bool"
    IN  CASE op = "==" \/ (op = "is" /\ identity) -> Truth(a = b)
          [] op = "!=" \/ (op = "is not" /\ identity) -> Truth(a # b)
          [] op = "<" /\ numbers -> Truth(a[2] < b[2])
          [] op = ">" /\ numbers -> Truth(a[2] > b[2])
          [] op = "<=" /\ numbers -> Truth(a[2] <= b[2])
          [] op = ">=" /\ numbers -> Truth(a[2] >= b[2])
          [] op = "in" /\ IsText(a) /\ IsText(b) -> Truth(Within(a[2], b[2]))
          [] op = "not in" /\ IsText(a) /\ IsText(b) -> Truth(~Within(a[2], b[2]))
          [] OTHER -> NOCONST

(***************************************************************************)
(* Containers whose elements are known one by one.                         *)
(***************************************************************************)
\* The position of a Python index in a sequence of this length, and 0 when it has none.
Position(const, length) ==
    IF ~IsInt(const) \/ const[2] \notin -length .. length - 1 THEN 0
    ELSE IF const[2] < 0 THEN length + const[2] + 1 ELSE const[2] + 1

\* cur[idx] = val on a tracked container, and else one value for all its elements.
StoreElem(cur, idx, val) ==
    IF cur.elems # <<>> /\ Hashable(idx.const)
           /\ Cardinality(DOMAIN cur.elems[1] \cup {idx.const}) <= MaxItems
    THEN DictVal(Put(cur.elems[1], idx.const, val), cur.flags)
    ELSE IF cur.seq # <<>> /\ Position(idx.const, Len(cur.seq[1])) # 0
    THEN SeqVal([cur.seq[1] EXCEPT ![Position(idx.const, Len(cur.seq[1]))] = val], cur.flags)
    ELSE [Combine({Summary(cur), Summary(val)}) EXCEPT !.flags = cur.flags]

\* The value under the first of the keys that the dict has: a pair of keys is a
\* configparser's section and option. Nothing when a key is not constant or is missing.
Lookup(recv, keys) ==
    LET items == recv.elems[1]
        pair == <<"pair", keys[1], keys[Len(keys)]>>
    IN  IF \E i \in DOMAIN keys : keys[i] = NOCONST THEN <<>>
        ELSE IF Len(keys) = 2 /\ pair \in DOMAIN items THEN <<items[pair]>>
        ELSE IF keys[1] \in DOMAIN items THEN <<items[keys[1]]>>
        ELSE <<>>
=============================================================================
