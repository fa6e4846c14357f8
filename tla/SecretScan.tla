------------------------------ MODULE SecretScan ------------------------------
(***************************************************************************)
(* The secrets scanner (scanners/secrets.py): a line is searched in        *)
(* windows that overlap (scanners/_text.py), each match is reported once,  *)
(* and the snippet of a finding is its window with every secret masked.    *)
(* The same signatures are searched in the history of the repository       *)
(* (scanners/secrets_history.py).                                          *)
(*                                                                         *)
(* A line is a sequence of cells: a character, or a word no pattern        *)
(* divides. "A" is the head of a token of fixed length (AKIA...), "G" that *)
(* of a token of at least some length (ghp_...), "B" the word "bearer";    *)
(* "K" is a word that names a secret, "k" another one, "P" one that marks  *)
(* a placeholder; "x" is a random character and "y" one of a language.     *)
(* There is one kind of quote and one of separator, and the upper bounds   *)
(* of the patterns are left out. Places count from 1, and what is matched  *)
(* ends before "to", as columns do.                                        *)
(***************************************************************************)
EXTENDS Integers, FiniteSets, Sequences, SequencesExt, FiniteSetsExt, TLC

CONSTANTS MaxScanLine, WindowOverlap,    \* the windows of a line, the overlap being the shorter
          FixedLength, OpenLength,       \* tokens, without their heads
          MinValue,                      \* values whose randomness is measured
          Lead, Short,                   \* what a mask shows, and of which values nothing
          MaxAdded                       \* lines of the history that are searched

(***************************************************************************)
(* Patterns. A match has the part of it that is the secret.                *)
(***************************************************************************)
Word == {"A", "G", "B", "K", "k", "P", "x", "y"}

\* The place behind the longest run of such cells that starts at i.
RunEnd(line, i, cells) ==
    CHOOSE j \in i..(Len(line) + 1) : /\ j > Len(line) \/ line[j] \notin cells
                                      /\ \A k \in i..(j - 1) : line[k] \in cells

Spaces(line, i) == RunEnd(line, i, {" "})

Boundary(line, i) == i = 1 \/ line[i - 1] \notin Word

Match(from, to, valFrom, valTo) == [from |-> from, to |-> to, val |-> <<valFrom, valTo>>]

Signatures == <<"aws-access-key-id", "github-token", "generic-bearer">>

\* The matches of a signature that start at i: at most one.
SignatureAt(rule, line, i) ==
    LET word == RunEnd(line, i + 1, Word)
        random == RunEnd(line, i + 1, {"x"})
        letters == RunEnd(line, i + 1, Word \ {"G"})
        value == Spaces(line, i + 1)
        end == RunEnd(line, value, Word \cup {"="})
        Found(it, from, to) == IF it THEN {Match(i, to, from, to)} ELSE {}
    IN  CASE rule = "aws-access-key-id" ->
               Found(/\ line[i] = "A" /\ Boundary(line, i)
                     /\ word = random /\ word = i + 1 + FixedLength, i, word)
          [] rule = "github-token" ->
               Found(line[i] = "G" /\ Boundary(line, i) /\ word = letters /\ word > i + OpenLength, i, word)
          [] rule = "generic-bearer" ->
               Found(line[i] = "B" /\ value > i + 1 /\ end >= value + OpenLength, value, end)

\* Where the quoted text ends that starts at i: nowhere if it is empty or open.
Closing(line, i) ==
    LET ends == {j \in i..Len(line) : line[j] = "'"} IN {j \in ends : j = Min(ends) /\ j > i}

\* A key and a quoted value of some length.
AssignmentAt(line, i) ==
    LET key == RunEnd(line, i, Word)
        sep == Spaces(line, key)
        quote == Spaces(line, sep + 1)
        starts == /\ line[i] \in Word /\ Boundary(line, i)
                  /\ sep < Len(line) /\ line[sep] = "=" /\ quote < Len(line) /\ line[quote] = "'"
    IN  {Match(i, j + 1, quote + 1, j) :
            j \in {e \in IF starts THEN Closing(line, quote + 1) ELSE {} : e > quote + MinValue}}

\* A key, quoted or not, and a value, quoted or not.
PairAt(line, i) ==
    LET key == RunEnd(line, i, Word)
        sep == Spaces(line, IF key <= Len(line) /\ line[key] = "'" THEN key + 1 ELSE key)
        value == Spaces(line, sep + 1)
        bare == RunEnd(line, value, Word \cup {"="})
    IN  IF ~(line[i] \in Word /\ Boundary(line, i) /\ sep < Len(line) /\ line[sep] = "=" /\ value <= Len(line))
        THEN {}
        ELSE IF line[value] = "'" THEN {Match(i, j + 1, value + 1, j) : j \in Closing(line, value + 1)}
        ELSE {Match(i, to, value, to) : to \in {bare} \ {value}}

NamesSecret(line, m) == \E j \in m.from..(RunEnd(line, m.from, Word) - 1) : line[j] = "K"

\* The matches of a pattern from the left, each behind the end of the last one.
FindIter(At(_, _), line) ==
    LET starts == SelectSeq([i \in 1..Len(line) |-> i], LAMBDA i : At(line, i) # {})
        Take(found, i) == IF found # <<>> /\ i < Last(found).to THEN found
                          ELSE Append(found, CHOOSE m \in At(line, i) : TRUE)
    IN  FoldLeft(Take, <<>>, starts)

Matches(rule, line) == FindIter(LAMBDA l, i : SignatureAt(rule, l, i), line)

SecretAssignments(line) == SelectSeq(FindIter(AssignmentAt, line), LAMBDA m : NamesSecret(line, m))

Text(line, span) == SubSeq(line, span[1], span[2] - 1)

(***************************************************************************)
(* Masks: the places of a line that a snippet shows.                       *)
(***************************************************************************)
SecretSpans(line) ==
    UNION {{m.val : m \in ToSet(Matches(rule, line))} : rule \in ToSet(Signatures)}
        \cup {m.val : m \in {p \in ToSet(FindIter(PairAt, line)) : NamesSecret(line, p)}}
        \cup {m.val : m \in ToSet(SecretAssignments(line))}

\* The longest of the spans that start at a place, from the left.
Sorted(spans) ==
    LET starts == {s[1] : s \in spans}
        places == SelectSeq([i \in 1..Max({0} \cup starts) |-> i], LAMBDA i : i \in starts)
    IN  [n \in DOMAIN places |-> <<places[n], Max({s[2] : s \in {t \in spans : t[1] = places[n]}})>>]

\* Mutant: of spans that overlap, the last one says where the mask ends.
MergedToLast(spans) ==
    LET Add(merged, s) ==
            IF merged # <<>> /\ s[1] <= Last(merged)[2]
            THEN Append(Front(merged), <<Last(merged)[1], s[2]>>) ELSE Append(merged, s)
    IN  FoldLeft(Add, <<>>, Sorted(spans))

\* Spans that overlap or touch are masked as one.
Merged(spans) ==
    LET Add(merged, s) ==
            IF merged # <<>> /\ s[1] <= Last(merged)[2]
            THEN Append(Front(merged), <<Last(merged)[1], Max({Last(merged)[2], s[2]})>>)
            ELSE Append(merged, s)
    IN  FoldLeft(Add, <<>>, Sorted(spans))

\* What a mask leaves of a span: its first places, or nothing of a short one.
Redact(span) == IF span[2] - span[1] <= Short THEN {} ELSE span[1]..(span[1] + Lead - 1)

Unmasked(line, spans) == (1..Len(line)) \ UNION {(s[1]..(s[2] - 1)) \ Redact(s) : s \in spans}

Shown(line) == Unmasked(line, ToSet(Merged(SecretSpans(line))))

(***************************************************************************)
(* The scan of a line.                                                     *)
(***************************************************************************)
\* How many cells of the line are before each of its windows.
Offsets(line) ==
    LET step == MaxScanLine - WindowOverlap
        beyond == {i \in 0..Len(line) : i * step + MaxScanLine >= Len(line)}
    IN  [i \in 1..(Min(beyond) + 1) |-> (i - 1) * step]

Window(line, offset) ==
    SubSeq(line, offset + 1, IF offset + MaxScanLine < Len(line) THEN offset + MaxScanLine ELSE Len(line))

Columns(span, offset) == <<offset + span[1], offset + span[2]>>

\* A quoted value is measured if it is no placeholder and no text of several words.
Plausible(value) ==
    LET words == {i \in DOMAIN value : value[i] # " "}
    IN  words # {} /\ value[1] # "P" /\ \A i \in Min(words)..Max(words) : value[i] # " "

Random(value) == "x" \in ToSet(value)

\* What is reported: the rule, the text that tells the findings of a line apart, the columns of
\* the secret, and the columns that the snippet shows, which is the window it was found in.
MakeFinding(rule, text, val, offset, shown) ==
    [rule |-> rule, text |-> text, at |-> Columns(val, offset), offset |-> offset,
     shown |-> {offset + p : p \in shown}]

Signed(rule, ms, w, offset, shown) ==
    [i \in DOMAIN ms |-> MakeFinding(rule, Text(w, <<ms[i].from, ms[i].to>>), ms[i].val, offset, shown)]

Measured(ms, w, offset, shown) ==
    LET Counts(m) == Plausible(Text(w, m.val)) /\ Random(Text(w, m.val))
        Finding(m) == MakeFinding("high-entropy-string", Text(w, m.val), m.val, offset, shown)
    IN  FoldLeft(LAMBDA acc, m : IF Counts(m) THEN Append(acc, Finding(m)) ELSE acc, <<>>, ms)

Candidates(w, offset, shown, entropy) ==
    FlattenSeq([r \in DOMAIN Signatures |->
                   Signed(Signatures[r], Matches(Signatures[r], w), w, offset, shown)])
        \o (IF entropy THEN Measured(SecretAssignments(w), w, offset, shown) ELSE <<>>)

ScanLine(line, entropy) ==
    LET New(found, f) ==
            IF \E g \in ToSet(found) : g.rule = f.rule /\ g.text = f.text THEN found ELSE Append(found, f)
        Scanned(w, offset) == Candidates(w, offset, Shown(w), entropy)
    IN  FoldLeft(New, <<>>, FlattenSeq([i \in 1..Len(Offsets(line)) |->
                                Scanned(Window(line, Offsets(line)[i]), Offsets(line)[i])]))

(***************************************************************************)
(* The history: the lines of "git log -p", the newest commit first. What   *)
(* git meets: whether it is there and the project a repository, whether it *)
(* is killed for its time or for the size of what it prints, and whether   *)
(* it fails; "breaks" is an error of the pass itself.                      *)
(***************************************************************************)
Calm == [git |-> TRUE, repository |-> TRUE, slow |-> FALSE, big |-> FALSE, fails |-> FALSE, breaks |-> FALSE]

Circumstances ==
    {Calm, [Calm EXCEPT !.git = FALSE], [Calm EXCEPT !.repository = FALSE], [Calm EXCEPT !.slow = TRUE],
     [Calm EXCEPT !.big = TRUE], [Calm EXCEPT !.big = TRUE, !.slow = TRUE],
     [Calm EXCEPT !.big = TRUE, !.fails = TRUE], [Calm EXCEPT !.fails = TRUE], [Calm EXCEPT !.breaks = TRUE]}

\* The results of a git command: none of one that raises. One that printed too much is killed,
\* which is no failure of it.
Run(c) ==
    IF ~c.git \/ c.slow THEN {}
    ELSE IF c.big THEN {[code |-> 0, truncated |-> TRUE]}
    ELSE {[code |-> IF c.fails THEN 128 ELSE 0, truncated |-> FALSE]}

RunGit(c) == Run(c)

IsGitRepo(c) == c.repository /\ \E r \in RunGit([c EXCEPT !.slow = FALSE, !.big = FALSE, !.fails = FALSE]) : r.code = 0

\* One secret of a line: the first match of the first signature that has one.
FirstSecret(line, matches) ==
    LET first == Min({r \in DOMAIN Signatures : matches[r] # <<>>})
        m == Head(matches[first])
    IN  IF \A r \in DOMAIN Signatures : matches[r] = <<>> THEN {}
        ELSE {[rule |-> Signatures[first], text |-> Text(line, <<m.from, m.to>>)]}

HistoryFinding(secret, s) ==
    [rule |-> secret.rule, text |-> secret.text, commit |-> s.commit, path |-> s.path]

ReadLog(log) ==
    LET Secrets(line) ==
            IF Len(line) > MaxAdded THEN {}
            ELSE FirstSecret(line, [r \in DOMAIN Signatures |-> Matches(Signatures[r], line)])
        New(x, s) == \A f \in s.found : f.rule # x.rule \/ f.text # x.text
        Added(s, line) ==
            [s EXCEPT !.found = @ \cup {HistoryFinding(x, s) : x \in {y \in Secrets(line) : New(y, s)}}]
        Read(s, l) ==
            CASE l.k = "commit" -> [s EXCEPT !.commit = l.of]
              [] l.k = "file" -> [s EXCEPT !.path = l.of]
              [] l.k = "added" -> Added(s, l.cells)
              [] OTHER -> s
    IN  FoldLeft(Read, [commit |-> "", path |-> "", found |-> {}], log).found

FindHistorySecrets(c, log) ==
    LET proc == RunGit(c)
    IN  IF ~IsGitRepo(c) THEN [secrets |-> {}, truncated |-> FALSE]
        ELSE IF proc = {} THEN [secrets |-> {}, truncated |-> TRUE]
        ELSE IF \E r \in proc : r.code # 0 THEN [secrets |-> {}, truncated |-> FALSE]
        ELSE [secrets |-> ReadLog(log), truncated |-> \E r \in proc : r.truncated]

HistoryIncomplete == "history-scan-incomplete"
HistoryFailed == "history-scan-failed"

\* What the scan says of the history: its secrets, and notes.
ScanHistory(c, log) ==
    IF c.breaks THEN [secrets |-> {}, notes |-> {HistoryFailed}]
    ELSE LET found == FindHistorySecrets(c, log)
         IN  [secrets |-> found.secrets, notes |-> IF found.truncated THEN {HistoryIncomplete} ELSE {}]

(***************************************************************************)
(* The scan: of each file that may hold text, and of the history if that   *)
(* is asked for. What the files have does not depend on the history.       *)
(***************************************************************************)
ScanFile(file, entropy) ==
    LET Placed(n, found) == [i \in DOMAIN found |-> [path |-> file.path, line |-> n, of |-> found[i]]]
    IN  IF file.binary THEN <<>>
        ELSE FlattenSeq([n \in DOMAIN file.lines |-> Placed(n, ScanLine(file.lines[n], entropy))])

Scan(files, options, c, log) ==
    [found |-> FlattenSeq([i \in DOMAIN files |-> ScanFile(files[i], options.entropy)]),
     history |-> IF options.history THEN ScanHistory(c, log) ELSE [secrets |-> {}, notes |-> {}]]
=============================================================================
