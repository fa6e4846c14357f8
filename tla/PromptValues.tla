----------------------------- MODULE PromptValues -----------------------------
(***************************************************************************)
(* What the two analyses of programs that use language models have in      *)
(* common (scanners/llm_taint.py, llm_taint_js.py, llm_agent.py): the      *)
(* taints of a value, how they are merged, what is known of a model call,  *)
(* and what is reported when a tainted value reaches a sink.               *)
(*                                                                         *)
(* A node of a syntax tree is [k, at, sub, line]: its kind, its token (a   *)
(* name or the like, as a sequence), its children in the order of the      *)
(* source, and its line. A taint set is a function from flavors to taints. *)
(***************************************************************************)
EXTENDS Naturals, Sequences, FiniteSets, TLC, Functions, SequencesExt, FiniteSetsExt

\* y, the state m being evaluated first: TLC would evaluate the steps of a walk from the last
\* to the first, each inside the next, and run out of stack.
After(m, y) == IF m.loop >= 0 THEN y ELSE m

None == "none"      \* no model, no tool, no name

ACTION_KINDS == {"send", "recipient"}
ALL_KINDS == {"shell", "code", "sql", "file", "ssrf", "html", "ssti", "deser"} \cup ACTION_KINDS
SINK_SPECS == ALL_KINDS \ ACTION_KINDS
TOOL_ARG_SINKS == {"file", "ssrf", "sql", "recipient"}
LOW_IMPACT == {"html"}

Clean == <<>>

\* kinds: the sinks the value is still dangerous for; line: where it comes from; via: the
\* line of external content that was in the prompt of the model it comes from, or 0.
Fresh(line) ==
    [kinds |-> ALL_KINDS, line |-> line, model |-> None, validated |-> FALSE,
     external |-> FALSE, via |-> 0, structural |-> TRUE, tool |-> None]

One(flavor, taint) == [f \in {flavor} |-> taint]

Untrusted(line, external) == One("untrusted", [Fresh(line) EXCEPT !.external = external])

Secret(line) == One("secret", Fresh(line))

Combine(cur, t) ==
    LET base == IF t.external /\ ~cur.external THEN t ELSE cur
        other == IF t.external /\ ~cur.external THEN cur ELSE t
    IN  [base EXCEPT !.kinds = cur.kinds \cup t.kinds,
                     !.external = cur.external \/ t.external,
                     !.via = IF @ # 0 THEN @ ELSE other.via,
                     !.structural = cur.structural \/ t.structural,
                     !.tool = IF @ # None THEN @ ELSE other.tool]

\* Of two taints of one flavor, one that is not validated wins.
Merge(a, b) ==
    [f \in DOMAIN a \cup DOMAIN b |->
        CASE f \notin DOMAIN b -> a[f]
          [] f \notin DOMAIN a -> b[f]
          [] a[f].validated -> b[f]
          [] ~a[f].validated /\ b[f].validated -> a[f]
          [] OTHER -> Combine(a[f], b[f])]

Without(ts, flavors) == [f \in DOMAIN ts \ flavors |-> ts[f]]

\* Mutant: an escaped value stays dangerous for the sink it was escaped for.
StripNothing(ts, kinds) == ts

Strip(ts, kinds) ==
    LET left == {f \in DOMAIN ts : ts[f].kinds \ kinds # {}}
    IN  [f \in left |-> [ts[f] EXCEPT !.kinds = @ \ kinds]]

\* Untrusted text inside a fixed structure: a string, or a message with a given role.
ContentOnly(ts) ==
    [f \in DOMAIN ts |-> IF f = "untrusted" THEN [ts[f] EXCEPT !.structural = FALSE] ELSE ts[f]]

Validated(ts, model) ==
    [f \in DOMAIN ts |-> [ts[f] EXCEPT !.validated = TRUE, !.model = model]]

\* What decided between alternatives: untrusted data or a flag from the request.
Decider(ts) ==
    IF "untrusted" \in DOMAIN ts THEN ts["untrusted"] ELSE ts["control"]

Decides(ts) == {"untrusted", "control"} \cap DOMAIN ts # {}

Selected(out, by) == IF Decides(by) THEN Merge(out, One("selector", Decider(by))) ELSE out

Get(scope, key) == IF key \in DOMAIN scope THEN scope[key] ELSE Clean

Put(f, key, value) == (key :> value) @@ f

Drop(f, keys) == [x \in DOMAIN f \ keys |-> f[x]]

(***************************************************************************)
(* Syntax trees.                                                           *)
(***************************************************************************)
RECURSIVE Preorder(_), Preorders(_)
Preorders(ns) == IF ns = <<>> THEN <<>> ELSE Preorder(Head(ns)) \o Preorders(Tail(ns))
Preorder(n) == <<n>> \o Preorders(n.sub)

Nodes(n) == ToSet(Preorder(n))

RECURSIVE Text(_)
\* The text of a name or a chain of attributes; <<>> of anything else.
Text(n) ==
    CASE n.k = "name" -> n.at
      [] n.k = "attr" -> LET p == Text(n.sub[1]) IN IF p = <<>> THEN <<>> ELSE p \o n.at
      [] OTHER -> <<>>

\* The last component of what a call calls.
Called(call) == LET fn == call.sub[1] IN IF fn.k \in {"name", "attr"} THEN Last(fn.at) ELSE None

Receiver(call) == call.sub[1].sub[1]

IsMethod(call) == call.sub[1].k = "attr"

\* call_args: the positional arguments of a call, and its keyword arguments.
Positional(call) == SelectSeq(Tail(call.sub), LAMBDA x : x.k # "kw")
Keyword(call, name) ==
    LET found == SelectSeq(Tail(call.sub), LAMBDA x : x.k = "kw" /\ x.at = <<name>>)
    IN  IF found = <<>> THEN <<>> ELSE found[1].sub
Arguments(call) == Positional(call) \o [i \in 1..(Len(call.sub) - 1 - Len(Positional(call))) |->
                        SelectSeq(Tail(call.sub), LAMBDA x : x.k = "kw")[i].sub[1]]

\* The value of a key in the display of a dictionary or object, as a sequence.
Entry(dict, key) ==
    LET found == SelectSeq(dict.sub, LAMBDA x : x.k = "pair" /\ x.at = <<key>>)
    IN  IF found = <<>> THEN <<>> ELSE found[1].sub

RECURSIVE Leftmost(_)
Leftmost(n) == IF n.k = "bin" THEN Leftmost(n.sub[1]) ELSE n

\* A URL whose scheme and host are literal: only its path and its query vary.
HostPinned(n) ==
    \/ n.k = "fstring" /\ n.at = <<"pinned">>
    \/ n.k = "bin" /\ Leftmost(n).k = "lit" /\ Leftmost(n).at = <<"pinned">>

\* A block that ends by leaving it, or the program.
Jumps == {"return", "raise", "continue", "break"}
Leaves(block) ==
    /\ block.sub # <<>>
    /\ LET last == Last(block.sub)
       IN  last.k \in Jumps \/ (last.k = "expr" /\ last.sub[1].k = "call" /\ Called(last.sub[1]) = "exit")

(***************************************************************************)
(* Model calls and reports. m.calls has, for each line of a model call,    *)
(* the lines of the external content in its prompt, its tools with what    *)
(* they can do, and the kinds of sinks its output reaches; m.caps what     *)
(* the arguments of each tool reach; m.gives the external content that a   *)
(* tool returns; m.found what was reported: rule, detail and line.         *)
(***************************************************************************)
NewCall == [sources |-> {}, tools |-> <<>>, sinks |-> {}]

\* What is reported: the rule, what tells findings of a rule apart, and the line. The wording,
\* the weakness classes and the advice of a rule are fixed.
OutputToSink(kind, line) == <<"insecure-output-handling", kind, line>>
ToolExec(kind, line) == <<"tool-handler-exec", kind, line>>
ToolArgument(kind, line) == <<"tool-argument-to-sink", kind, line>>
MessageRole(taint) == <<"untrusted-message-role", "", taint.line>>
ToolSelection(line) == <<"untrusted-tool-selection", "", line>>
SecretToModel(taint) == <<"secret-sent-to-model", "", taint.line>>
InputInSystemPrompt(taint) == <<"untrusted-input-in-system-prompt", "", taint.line>>

Report(m, finding) == [m EXCEPT !.found = @ \cup {finding}]

AddTo(f, key, values) == Put(f, key, values \cup (IF key \in DOMAIN f THEN f[key] ELSE {}))

ReportOutput(m, kind, line) == Report(m, OutputToSink(kind, line))
ReportToolArg(m, kind, line) == Report(m, ToolArgument(kind, line))
ReportTool(m, kind, line) == Report(m, ToolExec(kind, line))

\* The answer of a model, or an argument that a model chose for a tool, reaches a sink.
HitOutput(m, kind, line, t) ==
    LET noted == IF t.line \in DOMAIN m.calls
                 THEN [m EXCEPT !.calls[t.line].sinks = @ \cup {kind}] ELSE m
    IN  CASE kind \in SINK_SPECS -> ReportOutput(noted, kind, line)
          [] kind = "recipient" -> ReportToolArg(noted, kind, line)
          [] OTHER -> noted

HitArgument(m, kind, line, t) ==
    LET noted == [m EXCEPT !.caps = AddTo(@, t.tool, {kind})]
    IN  CASE kind \in {"shell", "code"} -> ReportTool(noted, kind, line)
          [] kind \in TOOL_ARG_SINKS -> ReportToolArg(noted, kind, line)
          [] OTHER -> noted

\* A value with these taints reaches a sink of this kind at this line.
Hit(m, kind, line, ts) ==
    LET live == {f \in DOMAIN ts : ~ts[f].validated /\ kind \in ts[f].kinds}
        first == IF "llm" \in live THEN HitOutput(m, kind, line, ts["llm"]) ELSE m
    IN  IF "tool-arg" \in live THEN HitArgument(first, kind, line, ts["tool-arg"]) ELSE first

\* A model call that reads external content and can act on it.
Indirect(m, line) ==
    LET call == m.calls[line]
        Caps(tool) == call.tools[tool] \cup (IF tool \in DOMAIN m.caps THEN m.caps[tool] ELSE {})
        sources == call.sources \cup {m.gives[t] : t \in DOMAIN call.tools \cap DOMAIN m.gives}
        kinds == UNION {Caps(t) : t \in DOMAIN call.tools} \cup call.sinks
    IN  IF sources = {} \/ kinds = {} THEN {}
        ELSE {<<"indirect-prompt-injection", IF kinds \subseteq LOW_IMPACT THEN "medium" ELSE "high",
                line>>}

Findings(m) == m.found \cup UNION {Indirect(m, line) : line \in DOMAIN m.calls}
=============================================================================
