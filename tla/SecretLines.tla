----------------------------- MODULE SecretLines -----------------------------
(***************************************************************************)
(* Lines and histories for SecretScan, and what is asked of what it says   *)
(* of them.                                                                *)
(***************************************************************************)
EXTENDS SecretScan

LineTheme == "secret lines"
LogTheme == "secret history"
SecretThemes == {LineTheme, LogTheme}

Token == <<"A", "x", "x", "x">>
OpenToken == <<"G", "x", "y", "x">>

Pieces ==
    {Token, OpenToken, <<"B", " ", "x", "x">>, <<"K", "=", "'", "x", "y", "'">>,
     <<"k", "=", "'", "x", "x", "'">>, <<"K", "=", "y", "y", "y">>, <<"'", "K", "'", " ", "=", "'", "y", "'">>,
     <<"K", "=", "'", "P", "x", "'">>, <<"k", "=">>, <<"'">>, <<" ">>, <<"y">>,
     <<"y", "y", " ", "y", "y", "y", " ">>}

LogLine(kind, of, cells) == [k |-> kind, of |-> of, cells |-> cells]
Added(cells) == LogLine("added", "", cells)

Lines == {Token, OpenToken, OpenToken \o <<" ">> \o Token, <<"y">> \o Token,
          OpenToken \o <<"y", "y", "y", "y", "y", "y">>}

\* A log starts with a commit and its first file; each commit and each file has a name of its own.
Names == <<"one", "two", "three", "four">>

Hunks(l) ==
    LET File(t) == <<LogLine("file", Names[l], <<>>), Added(t)>>
        first == {<<LogLine("commit", Names[l], <<>>)>> \o File(t) : t \in Lines}
    IN  IF l = 1 THEN first
        ELSE first \cup {File(t) : t \in Lines} \cup {<<Added(t)>> : t \in Lines}
                   \cup {<<LogLine("removed", "", Token)>>}

Stmts(t, l) == IF t = LineTheme THEN Pieces ELSE Hunks(l)

Flat(segments) == FlattenSeq(segments)

\* The end of the line again, behind a space, or between quotes, or inside a secret.
Forms(t, ss) ==
    IF t = LogTheme THEN {}
    ELSE {Flat(ss) \o <<" ">> \o Flat(ss), <<"'">> \o Flat(ss) \o <<"'">>,
          <<"K", "=", "'", "y", " ">> \o Flat(ss) \o <<" ", "y", "'">>}
-----------------------------------------------------------------------------
(***************************************************************************)
(* The secrets of a line, wherever a pattern may start.                    *)
(***************************************************************************)
Free(ms) == {m \in ms : \A n \in ms : n.from < m.from => n.to <= m.from}

Tokens(rule, line) == Free(UNION {SignatureAt(rule, line, i) : i \in 1..Len(line)})

Values(line) ==
    {m \in Free(UNION {AssignmentAt(line, i) : i \in 1..Len(line)}) :
        NamesSecret(line, m) /\ Plausible(Text(line, m.val)) /\ Random(Text(line, m.val))}

SecretPairs(line) ==
    {m \in Free(UNION {PairAt(line, i) : i \in 1..Len(line)}) : NamesSecret(line, m)}

Fits(m) == m.to - m.from <= WindowOverlap

\* Every token, and every random value of a secret, is reported with its text at its columns.
AllFound(line, found) ==
    LET Said(rule, text, val) ==
            \E f \in found : f.rule = rule /\ f.text = text /\ Text(line, f.at) = Text(line, val)
    IN  /\ \A rule \in ToSet(Signatures) : \A m \in Tokens(rule, line) :
               Fits(m) => Said(rule, Text(line, <<m.from, m.to>>), m.val)
        /\ \A m \in Values(line) : Fits(m) => Said("high-entropy-string", Text(line, m.val), m.val)

\* A snippet shows no more of a secret that is whole in it than a mask leaves.
AllMasked(line, found) ==
    \A f \in found :
        LET w == Window(line, f.offset)
            secrets == UNION {Tokens(rule, w) : rule \in ToSet(Signatures)} \cup SecretPairs(w)
        IN  \A m \in secrets :
                LET clear == {p \in m.val[1]..(m.val[2] - 1) : f.offset + p \in f.shown}
                IN  Cardinality(clear) <= Cardinality(Redact(m.val))

AllTold(line, found) == AllFound(line, found) /\ AllMasked(line, found)

\* The line stands in a file behind another one, beside a binary file, and the history cannot be read.
LineTold(line) ==
    LET Files == <<[path |-> "image", binary |-> TRUE, lines |-> <<line>>],
                   [path |-> "env", binary |-> FALSE, lines |-> <<OpenToken, line>>]>>
        Options == [entropy |-> TRUE, history |-> TRUE]
        Of(found) == {f.of : f \in {g \in ToSet(found) : g.path = "env" /\ g.line = 2}}
    IN  AllTold(line, Of(Scan(Files, Options, [Calm EXCEPT !.breaks = TRUE], <<>>).found))

\* Every line of the history that is searched has a secret of its own among the findings, each
\* under a commit and a file that have it, and a history that git or the pass did not read
\* to its end has a note.
AllHistory(c, log, said) ==
    LET Searched == {i \in DOMAIN log : log[i].k = "added"}
        Before(i, kind) == Max({j \in 1..i : log[j].k = kind})
        Holds(i, rule, text) ==
            \E m \in Tokens(rule, log[i].cells) : Text(log[i].cells, <<m.from, m.to>>) = text
        Secret(i) == Len(log[i].cells) <= MaxAdded /\ \E r \in ToSet(Signatures) : Tokens(r, log[i].cells) # {}
        there == c.git /\ c.repository
        stopped == c.slow \/ c.big \/ c.breaks
    IN  /\ there /\ stopped => said.notes # {}
        /\ there /\ ~c.slow /\ ~c.breaks /\ (c.big \/ ~c.fails) =>
               \A i \in Searched : Secret(i) => \E s \in said.secrets : Holds(i, s.rule, s.text)
        /\ \A s \in said.secrets :
               \E i \in Searched : /\ Holds(i, s.rule, s.text)
                                  /\ log[Before(i, "commit")].of = s.commit
                                  /\ log[Before(i, "file")].of = s.path

HistoryTold(c, log) == AllHistory(c, log, ScanHistory(c, log))
=============================================================================
