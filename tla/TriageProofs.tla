----------------------------- MODULE TriageProofs -----------------------------
(***************************************************************************)
(* Proofs about Triage, for any problems, commands, trees, entries and     *)
(* imported files: a tree that is not trusted has no say; no finding is    *)
(* lost on the way to the report; every result of an imported file is      *)
(* accounted for; the gates agree.                                         *)
(***************************************************************************)
EXTENDS Triage, FiniteSetTheorems, SequenceTheorems, WellFoundedInduction, TLAPS

-----------------------------------------------------------------------------
(***************************************************************************)
(* A tree that is not trusted.  Two runs of one command on two trees, with *)
(* two lists of exceptions, agree step by step: on the configuration, on   *)
(* what the pipeline makes of the findings, on the report, on the answer.  *)
(***************************************************************************)

LEMMA SameConfiguration ==
    ASSUME NEW o, ~Trusted(o), NEW t, NEW u
    PROVE  Configured(o, t) = Configured(o, u)
<1>1. SettingsOf(o, t) = SettingsOf(o, u)
  BY DEF SettingsOf
<1>. QED
  BY <1>1 DEF Configured

LEMMA SameMistakes ==
    ASSUME NEW o, ~Trusted(o), NEW t, NEW u
    PROVE  Mistaken(o, t) <=> Mistaken(o, u)
BY SameConfiguration DEF Mistaken

\* Two configurations of the pipeline that differ in the exceptions alone, neither of
\* which trusts them.
Alike(c, d) ==
    /\ ~c.trusted /\ ~d.trusted
    /\ c.allow = d.allow /\ c.minSeverity = d.minSeverity

LEMMA PipelinesAlike ==
    ASSUME NEW o, ~Trusted(o), NEW t, NEW u, NEW e, NEW d
    PROVE  Alike(Pipeline(o, t, e), Pipeline(o, u, d))
BY SameConfiguration DEF Pipeline, Alike

LEMMA CompleteAlike ==
    ASSUME NEW c, NEW d, Alike(c, d), NEW context, NEW F, NEW open, NEW distinct, NEW G, NEW also
    PROVE  Complete(c, context, F, open, distinct).findings
              = Complete(d, context, G, also, distinct).findings
<1>. DEFINE placed == ApplyContext(distinct, context)
            all == placed \cup Chains(placed)
<1>1. Filtered(c, all) = Filtered(d, all)
  BY DEF Alike, Filtered
<1>2. Unexcepted(c, Filtered(c, all)) = Filtered(c, all) /\ Unexcepted(d, Filtered(d, all)) = Filtered(d, all)
  BY DEF Alike, Unexcepted
<1>3. Complete(c, context, F, open, distinct).findings = Unexcepted(c, Filtered(c, all))
  BY DEF Complete
<1>4. Complete(d, context, G, also, distinct).findings = Unexcepted(d, Filtered(d, all))
  BY DEF Complete
<1>. QED
  BY <1>1, <1>2, <1>3, <1>4

\* Comments are not read, and the allowlists are one.
LEMMA OpenAlike ==
    ASSUME NEW c, NEW d, Alike(c, d), NEW F, NEW comments, NEW others
    PROVE  Unlisted(c, Uncommented(c, F, comments)) = Unlisted(d, Uncommented(d, F, others))
BY DEF Alike, Unlisted, Uncommented

LEMMA ScannedAlike ==
    ASSUME NEW o, ~Trusted(o), NEW t, NEW u, NEW e, NEW d
    PROVE  Scanned(o, t, e) = Scanned(o, u, d)
<1>. DEFINE c == Pipeline(o, t, e)
            b == Pipeline(o, u, d)
            F == {f \in Detected(o) : ~Excluded(o, t, f)}
            G == {f \in Detected(o) : ~Excluded(o, u, f)}
<1>1. Alike(c, b)
  BY PipelinesAlike
<1>2. F = G
  BY SameConfiguration DEF Excluded
<1>. HIDE DEF c, b, F, G
<1>3. Unlisted(c, Uncommented(c, F, Comments(t))) = Unlisted(b, Uncommented(b, G, Comments(u)))
  BY <1>1, <1>2, OpenAlike
<1>4. Finish(c, None, F, Ran(o), Comments(t), ScannerPosition).findings
        = Finish(b, None, G, Ran(o), Comments(u), ScannerPosition).findings
  BY <1>1, <1>3, CompleteAlike DEF Finish
<1>5. /\ Scanned(o, t, e) = ByImportance(Finish(c, None, F, Ran(o), Comments(t), ScannerPosition).findings)
      /\ Scanned(o, u, d) = ByImportance(Finish(b, None, G, Ran(o), Comments(u), ScannerPosition).findings)
  BY DEF Scanned, c, b, F, G
<1>. QED
  BY <1>4, <1>5

LEMMA CombineAlike ==
    ASSUME NEW c, NEW d, Alike(c, d), NEW t, NEW u, NEW native, NEW imported, NEW F
    PROVE  Combine(c, t, native, imported, F) = Combine(d, u, native, imported, F)
<1>1. OpenImports(c, t, F) = OpenImports(d, u, F)
  BY OpenAlike DEF OpenImports
<1>2. ASSUME NEW open, NEW merged, NEW n
      PROVE  Together(c, F, open, merged, n) = Together(d, F, open, merged, n)
  BY CompleteAlike DEF Together
<1>. QED
  BY <1>1, <1>2 DEF Combine

LEMMA SameReport ==
    ASSUME NEW o, ~Trusted(o), NEW t, NEW u, NEW e, NEW d
    PROVE  Report(o, t, e) = Report(o, u, d)
<1>1. Imports(o, t) = Imports(o, u)
  BY SameConfiguration DEF Imports, Excluded
<1>2. Scanned(o, t, e) = Scanned(o, u, d)
  BY ScannedAlike
<1>3. Combined(o, t, e) = Combined(o, u, d)
  BY <1>1, <1>2, PipelinesAlike, CombineAlike DEF Combined
<1>. QED
  BY <1>3 DEF Report

LEMMA SameStatus ==
    ASSUME NEW o, ~Trusted(o), NEW t, NEW u, NEW F
    PROVE  ExitStatus(o, t, F) = ExitStatus(o, u, F)
<1>1. Configured(o, t) = Configured(o, u)
  BY SameConfiguration
<1>. QED
  BY <1>1 DEF ExitStatus, Fails

\* What a report depends on.
LEMMA SameLater ==
    ASSUME UNCHANGED <<today, code, working>>, NEW o, o.baseline => UNCHANGED baseline,
           NEW t, NEW e
    PROVE  Report(o, t, e)' = Report(o, t, e)
<1>1. \A f : Verdict(o, f)' = Verdict(o, f)
  BY DEF Verdict
<1>2. Detected(o)' = Detected(o)
  BY <1>1 DEF Detected, Verified
<1>3. Pipeline(o, t, e)' = Pipeline(o, t, e)
  BY DEF Pipeline
<1>4. Combined(o, t, e)' = Combined(o, t, e)
  BY <1>2, <1>3 DEF Combined, Scanned
<1>. QED
  BY <1>4 DEF Report, AfterBaseline

\* The answer of a command whose settings the tree has no say in.
Ruled(o, t) ==
    last = IF Mistaken(o, t) THEN Outcome(o, 2, {})
           ELSE Outcome(o, ExitStatus(o, t, Report(o, t, <<>>)), Report(o, t, <<>>))

NoSay == last # NoRun => \A o : last.command = o /\ ~Trusted(o) => \A t \in Trees : Ruled(o, t)

LEMMA NoSayStep == NoSay /\ [Next]_vars => NoSay'
<1>. SUFFICES ASSUME NoSay, [Next]_vars, last' # NoRun,
                     NEW o, last'.command = o, ~Trusted(o), NEW t \in Trees
              PROVE  Ruled(o, t)'
  BY DEF NoSay, Trusted
<1>1. ASSUME NEW b \in Commands, Refuse(b)
      PROVE  Ruled(o, t)'
  <2>1. last' = Outcome(b, 2, {}) /\ Mistaken(b, tree)
    BY <1>1 DEF Refuse
  <2>2. b = o
    BY <2>1 DEF Outcome
  <2>. QED
    BY <2>1, <2>2, SameMistakes DEF Ruled
<1>2. ASSUME NEW b \in Commands, Run(b)
      PROVE  Ruled(o, t)'
  <2>. DEFINE F == Report(b, tree, exceptions)
  <2>1. /\ last' = Outcome(b, ExitStatus(b, tree, F), F) /\ ~Mistaken(b, tree)
        /\ UNCHANGED <<today, code, working>>
        /\ b.cmd # "baseline" => UNCHANGED baseline
    BY <1>2 DEF Run, Answer, project
  <2>2. b = o
    BY <2>1 DEF Outcome
  <2>3. o.baseline => UNCHANGED baseline
    BY <2>1, <2>2, CommandsAssumption DEF IsCommand
  <2>4. Report(o, t, <<>>)' = F
    BY <2>1, <2>2, <2>3, SameLater, SameReport
  <2>5. ~Mistaken(o, t)
    BY <2>1, <2>2, SameMistakes
  <2>6. ExitStatus(o, t, F) = ExitStatus(o, tree, F)
    BY SameStatus
  <2>. HIDE DEF F
  <2>. QED
    BY <2>1, <2>2, <2>4, <2>5, <2>6 DEF Ruled
<1>3. CASE UNCHANGED <<today, code, working, baseline, last>>
  <2>1. Ruled(o, t)
    BY <1>3 DEF NoSay
  <2>2. Report(o, t, <<>>)' = Report(o, t, <<>>)
    BY <1>3, SameLater
  <2>. QED
    BY <1>3, <2>1, <2>2 DEF Ruled
<1>4. ASSUME last = NoRun, UNCHANGED last
      PROVE  FALSE
  BY <1>4
<1>5. CASE Proceed
  BY <1>5 DEF Proceed
<1>. QED
  BY <1>1, <1>2, <1>3, <1>4, <1>5 DEF Next, vars, project, Develop, Revoke, AddException, NextDay

\* A tree that is not trusted has no say: what it holds changes neither the report nor
\* the answer of any command (core/config.py, load_project_config).
THEOREM NoSayForTheTree == Spec => []TreeHasNoSay
<1>1. Init => NoSay
  BY DEF Init, NoSay
<1>2. NoSay => TreeHasNoSay
  <2>. SUFFICES ASSUME NoSay, last # NoRun, ~Trusted(last.command), NEW t \in Trees
                PROVE  Ruled(last.command, t)
    BY DEF TreeHasNoSay, Answered, Trusted, Ruled
  <2>. QED
    BY DEF NoSay
<1>. QED
  BY <1>1, <1>2, NoSayStep, PTL DEF Spec

-----------------------------------------------------------------------------
(***************************************************************************)
(* Loops.  A loop over a sequence is a function on 0..n, a loop over a set *)
(* a function on its subsets; such a function exists because each of its   *)
(* values is made of an earlier one.                                       *)
(***************************************************************************)

\* A set of natural numbers that is not empty has a least one.
LEMMA LeastNumber ==
    ASSUME NEW T, T \subseteq Nat, T # {}
    PROVE  \E n \in T : \A m \in T : ~(m < n)
<1>1. PICK n \in T : \A m \in T : ~(<<m, n>> \in OpToRel(<, Nat))
  BY NatLessThanWellFounded, WFMin
<1>2. \A m \in T : m < n => <<m, n>> \in OpToRel(<, Nat)
  BY DEF OpToRel
<1>. QED
  BY <1>1, <1>2

\* Induction along a loop.
LEMMA Along ==
    ASSUME NEW n \in Nat, NEW P, 0 \in P, \A k \in 1..n : k - 1 \in P => k \in P
    PROVE  \A k \in 0..n : k \in P
<1>. DEFINE Bad == {k \in 0..n : k \notin P}
<1>. SUFFICES ASSUME Bad # {}
              PROVE  FALSE
  OBVIOUS
<1>1. Bad \subseteq Nat
  OBVIOUS
<1>2. PICK k \in Bad : \A m \in Bad : ~(m < k)
  BY <1>1, LeastNumber
<1>3. k \in 1..n /\ k - 1 \in 0..n /\ k - 1 < k
  BY <1>2
<1>. QED
  BY <1>2, <1>3

\* A loop over n elements that starts with a and stays in D.
IsLoop(g, n, D, a, step) ==
    g \in [0..n -> D] /\ g[0] = a /\ \A k \in 1..n : g[k] = step[k][g[k - 1]]

LEMMA LoopExists ==
    ASSUME NEW n \in Nat, NEW D, NEW a \in D, NEW step \in [1..n -> [D -> D]]
    PROVE  \E g : IsLoop(g, n, D, a, step)
<1>. DEFINE Loop(g, m) == /\ g \in [0..m -> D] /\ g[0] = a
                          /\ \A k \in 1..m : g[k] = step[k][g[k - 1]]
            P == {m \in 0..n : \E g : Loop(g, m)}
<1>1. 0 \in P
  <2>. DEFINE g == [k \in 0..0 |-> a]
  <2>1. Loop(g, 0)
    OBVIOUS
  <2>. HIDE DEF Loop, g
  <2>. QED
    BY <2>1
<1>2. ASSUME NEW m \in 1..n, m - 1 \in P
      PROVE  m \in P
  <2>1. PICK g : Loop(g, m - 1)
    <3>. HIDE DEF Loop
    <3>. QED
      BY <1>2
  <2>. DEFINE h == [k \in 0..m |-> IF k = m THEN step[m][g[m - 1]] ELSE g[k]]
  <2>2. m - 1 \in 0..(m - 1) /\ g[m - 1] \in D
    BY <2>1
  <2>3. step[m][g[m - 1]] \in D
    BY <2>2
  <2>4. h \in [0..m -> D]
    <3>1. \A k \in 0..m : k # m => k \in 0..(m - 1) /\ g[k] \in D
      BY <2>1
    <3>. QED
      BY <2>3, <3>1
  <2>5. h[0] = a /\ h[m] = step[m][h[m - 1]]
    BY <2>1
  <2>6. ASSUME NEW k \in 1..(m - 1)
        PROVE  h[k] = step[k][h[k - 1]]
    BY <2>1
  <2>. HIDE DEF h
  <2>7. \A k \in 1..m : h[k] = step[k][h[k - 1]]
    BY <2>5, <2>6
  <2>8. Loop(h, m)
    BY <2>4, <2>5, <2>7
  <2>9. m \in 0..n
    OBVIOUS
  <2>. HIDE DEF Loop
  <2>. QED
    BY <2>8, <2>9
<1>. HIDE DEF P, Loop
<1>3. \A k \in 0..n : k \in P
  BY <1>1, <1>2, Along
<1>4. PICK g : Loop(g, n)
  BY <1>3 DEF P
<1>. QED
  BY <1>4 DEF Loop, IsLoop

\* Of some sets of findings one is the smallest.
LEMMA SmallestSet ==
    ASSUME NEW G, IsFiniteSet(G), NEW Bad, Bad \subseteq SUBSET G, Bad # {}
    PROVE  \E S \in Bad : \A T \in Bad : T \subseteq S => T = S
<1>1. IsWellFoundedOn(StrictSubsetOrdering(G), SUBSET G)
  BY FS_StrictSubsetOrderingWellFounded, FS_FiniteSubsetsOfFinite, Zenon
<1>2. PICK S \in Bad : \A T \in Bad : ~(<<T, S>> \in StrictSubsetOrdering(G))
  BY <1>1, WFMin
<1>. QED
  BY <1>2 DEF StrictSubsetOrdering

\* An order on a finite set has an end.
LEMMA EndOfOrder ==
    ASSUME NEW S, IsFiniteSet(S), S # {}, NEW R,
           \A x \in S : <<x, x>> \notin R,
           \A x, y, z \in S : <<x, y>> \in R /\ <<y, z>> \in R => <<x, z>> \in R
    PROVE  \E x \in S : \A y \in S : <<y, x>> \notin R
<1>. DEFINE Over(x) == {y \in S : <<y, x>> \in R}
            Bad == {Over(y) : y \in S}
<1>1. Bad \subseteq SUBSET S /\ Bad # {} /\ \A y \in S : Over(y) \in Bad
  <2>1. \A y \in S : Over(y) \in SUBSET S
    OBVIOUS
  <2>. HIDE DEF Over
  <2>. QED
    BY <2>1
<1>2. \A T \in Bad : \E y \in S : T = Over(y)
  OBVIOUS
<1>. HIDE DEF Bad
<1>3. PICK T \in Bad : \A U \in Bad : U \subseteq T => U = T
  BY <1>1, SmallestSet
<1>4. PICK x \in S : T = Over(x)
  BY <1>2
<1>5. ASSUME NEW y \in S, <<y, x>> \in R
      PROVE  FALSE
  <2>1. Over(y) \subseteq Over(x) /\ y \in Over(x) /\ y \notin Over(y)
    BY <1>5
  <2>. QED
    BY <1>1, <1>3, <1>4, <2>1
<1>. QED
  BY <1>5

\* Induction along a loop over a set, which takes pick[S] last of S.
LEMMA AlongSet ==
    ASSUME NEW G, IsFiniteSet(G), NEW pick, \A S \in SUBSET G : S # {} => pick[S] \in S,
           NEW P, {} \in P, \A S \in SUBSET G : S # {} /\ S \ {pick[S]} \in P => S \in P
    PROVE  \A S \in SUBSET G : S \in P
<1>. DEFINE Bad == {S \in SUBSET G : S \notin P}
<1>. SUFFICES ASSUME Bad # {}
              PROVE  FALSE
  OBVIOUS
<1>1. Bad \subseteq SUBSET G
  OBVIOUS
<1>2. PICK S \in Bad : \A T \in Bad : T \subseteq S => T = S
  <2>. HIDE DEF Bad
  <2>. QED
    BY <1>1, SmallestSet
<1>. DEFINE T == S \ {pick[S]}
<1>3. S \in SUBSET G /\ S # {} /\ T \in SUBSET G /\ T \subseteq S /\ T # S
  BY <1>2
<1>. QED
  BY <1>2, <1>3

\* A loop over a finite set that starts with a and stays in D.
IsSetLoop(g, G, pick, D, a, step) ==
    /\ g \in [SUBSET G -> D] /\ g[{}] = a
    /\ \A S \in SUBSET G : S # {} => g[S] = step[pick[S]][g[S \ {pick[S]}]]

LEMMA SetLoopExists ==
    ASSUME NEW G, IsFiniteSet(G), NEW pick, \A S \in SUBSET G : S # {} => pick[S] \in S,
           NEW D, NEW a \in D, NEW step \in [G -> [D -> D]]
    PROVE  \E g : IsSetLoop(g, G, pick, D, a, step)
<1>. DEFINE UpTo(n) == {S \in SUBSET G : Cardinality(S) <= n}
            Loop(g, n) == /\ g \in [UpTo(n) -> D]
                          /\ g[{}] = a
                          /\ \A S \in UpTo(n) : S # {} => g[S] = step[pick[S]][g[S \ {pick[S]}]]
            N == Cardinality(G)
            P == {n \in 0..N : \E g : Loop(g, n)}
<1>1. \A S \in SUBSET G : IsFiniteSet(S) /\ Cardinality(S) \in Nat /\ Cardinality(S) <= N
  BY FS_Subset, FS_CardinalityType
<1>2. N \in Nat /\ Cardinality({}) = 0 /\ UpTo(N) = SUBSET G
  BY <1>1, FS_CardinalityType, FS_EmptySet
<1>3. 0 \in P
  <2>1. \A S \in UpTo(0) : S = {}
    BY <1>1, FS_EmptySet
  <2>. DEFINE g == [S \in UpTo(0) |-> a]
  <2>2. {} \in UpTo(0)
    BY <1>2
  <2>3. Loop(g, 0)
    BY <2>1, <2>2
  <2>. HIDE DEF Loop, g
  <2>. QED
    BY <1>2, <2>3
<1>4. ASSUME NEW n \in 1..N, n - 1 \in P
      PROVE  n \in P
  <2>1. PICK g : Loop(g, n - 1)
    <3>. HIDE DEF Loop
    <3>. QED
      BY <1>4
  <2>. DEFINE V(S) == IF S = {} THEN a ELSE step[pick[S]][g[S \ {pick[S]}]]
              h == [S \in UpTo(n) |-> V(S)]
  <2>2. ASSUME NEW S \in UpTo(n), S # {}
        PROVE  S \ {pick[S]} \in UpTo(n - 1) /\ S \ {pick[S]} \in UpTo(n) /\ pick[S] \in G
    <3>1. pick[S] \in S
      BY <2>2
    <3>2. Cardinality(S \ {pick[S]}) = Cardinality(S) - 1
      BY <1>1, <3>1, FS_RemoveElement
    <3>3. Cardinality(S) \in Nat /\ Cardinality(S) <= n
      BY <1>1
    <3>. QED
      BY <3>1, <3>2, <3>3
  <2>3. {} \in UpTo(n) /\ {} \in UpTo(n - 1)
    BY <1>2
  <2>4. ASSUME NEW S \in UpTo(n - 1)
        PROVE  g[S] = V(S)
    BY <2>1
  <2>5. ASSUME NEW S \in UpTo(n)
        PROVE  V(S) \in D
    <3>1. CASE S = {}
      BY <3>1
    <3>2. CASE S # {}
      <4>1. g[S \ {pick[S]}] \in D /\ pick[S] \in G
        BY <2>1, <2>2, <3>2
      <4>2. \A x \in G, d \in D : step[x][d] \in D
        OBVIOUS
      <4>. QED
        BY <3>2, <4>1, <4>2
    <3>. QED
      BY <3>1, <3>2
  <2>6. h \in [UpTo(n) -> D]
    BY <2>5
  <2>7. h[{}] = a
    BY <2>3
  <2>8. ASSUME NEW S \in UpTo(n), S # {}
        PROVE  h[S] = step[pick[S]][h[S \ {pick[S]}]]
    <3>. DEFINE T == S \ {pick[S]}
    <3>1. T \in UpTo(n - 1) /\ T \in UpTo(n)
      BY <2>2, <2>8
    <3>2. h[T] = g[T]
      BY <2>4, <3>1
    <3>3. h[S] = step[pick[S]][g[T]]
      BY <2>8
    <3>. QED
      BY <3>2, <3>3
  <2>. HIDE DEF h
  <2>9. Loop(h, n)
    BY <2>6, <2>7, <2>8
  <2>. HIDE DEF Loop
  <2>. QED
    BY <2>9
<1>. HIDE DEF P, N
<1>5. N \in P
  BY <1>2, <1>3, <1>4, Along
<1>6. PICK g : Loop(g, N)
  <2>. HIDE DEF Loop
  <2>. QED
    BY <1>5 DEF P
<1>7. UpTo(N) = SUBSET G
  BY <1>2
<1>. HIDE DEF UpTo
<1>. QED
  BY <1>6, <1>7 DEF IsSetLoop

-----------------------------------------------------------------------------
(***************************************************************************)
(* Links between findings: they can be joined, and read backwards.         *)
(***************************************************************************)

OnePlace(f, g) == f.file = g.file /\ f.cwe = g.cwe /\ f.line = g.line

LEMMA LinkedSelf ==
    ASSUME NEW f, NEW g, OnePlace(f, g), f.line \in Int, NEW F
    PROVE  Linked(f, g, F)
BY DEF Linked, OnePlace, Least, Greatest

\* A link is about the places alone, and holds among more findings.
LEMMA LinkedSame ==
    ASSUME NEW f, NEW g, NEW x, NEW y, OnePlace(f, x), OnePlace(g, y), NEW F, NEW G, F \subseteq G,
           Linked(f, g, F)
    PROVE  Linked(x, y, G)
BY DEF Linked, OnePlace

LEMMA LinkedBack ==
    ASSUME NEW f, NEW g, f.line \in Int, g.line \in Int, NEW F, Linked(f, g, F)
    PROVE  Linked(g, f, F)
<1>1. Least(f.line, g.line) = Least(g.line, f.line) /\ Greatest(f.line, g.line) = Greatest(g.line, f.line)
  BY DEF Least, Greatest
<1>. QED
  BY <1>1 DEF Linked

\* Neighbours are linked.
LEMMA LinkedNext ==
    ASSUME NEW F, NEW f \in F, NEW g \in F, f.line \in Int, g.line \in Int,
           f.file = g.file, f.cwe = g.cwe, f.line <= g.line, g.line <= f.line + Window
    PROVE  Linked(f, g, F)
<1>1. Least(f.line, g.line) = f.line /\ Greatest(f.line, g.line) = g.line
  BY DEF Least, Greatest
<1>2. \A n \in f.line..(g.line - 1) : g.line \in (n + 1)..(n + Window)
  BY DEF Window
<1>. QED
  BY <1>1, <1>2 DEF Linked

LEMMA LinkedJoin ==
    ASSUME NEW f, NEW g, NEW h, f.line \in Int, g.line \in Int, h.line \in Int, NEW F,
           Linked(f, g, F), Linked(g, h, F)
    PROVE  Linked(f, h, F)
<1>. DEFINE Step(n) == \E x \in F : x.file = f.file /\ x.cwe = f.cwe /\ x.line \in (n + 1)..(n + Window)
<1>1. f.file = g.file /\ f.cwe = g.cwe /\ f.file = h.file /\ f.cwe = h.cwe
  BY DEF Linked
<1>2. \A n \in Least(f.line, g.line)..(Greatest(f.line, g.line) - 1) : Step(n)
  BY DEF Linked
<1>3. \A n \in Least(g.line, h.line)..(Greatest(g.line, h.line) - 1) : Step(n)
  BY <1>1 DEF Linked
<1>4. ASSUME NEW n \in Least(f.line, h.line)..(Greatest(f.line, h.line) - 1)
      PROVE  \/ n \in Least(f.line, g.line)..(Greatest(f.line, g.line) - 1)
             \/ n \in Least(g.line, h.line)..(Greatest(g.line, h.line) - 1)
  BY DEF Least, Greatest
<1>5. \A n \in Least(f.line, h.line)..(Greatest(f.line, h.line) - 1) : Step(n)
  <2>. HIDE DEF Step
  <2>. QED
    BY <1>2, <1>3, <1>4
<1>. QED
  BY <1>1, <1>5 DEF Linked

-----------------------------------------------------------------------------
(***************************************************************************)
(* De-duplication.  What survives stands for what does not: it is linked   *)
(* to it by findings of the same class in the same file.                   *)
(***************************************************************************)
LEMMA AboveThree ==
    ASSUME NEW a \in Int, NEW b \in Int, NEW c \in Int, NEW x \in Int, NEW y \in Int, NEW z \in Int
    PROVE  Above(<<a, b, c>>, <<x, y, z>>)
             <=> a > x \/ (a = x /\ (b > y \/ (b = y /\ c > z)))
<1>. DEFINE s == <<a, b, c>>  t == <<x, y, z>>
           First(i) == s[i] > t[i] /\ \A j \in 1..(i - 1) : s[j] = t[j]
<1>1. First(1) <=> a > x
  OBVIOUS
<1>2. First(2) <=> a = x /\ b > y
  <2>1. 1..(2 - 1) = {1}
    OBVIOUS
  <2>. QED
    BY <2>1
<1>3. First(3) <=> a = x /\ b = y /\ c > z
  <2>1. 1..(3 - 1) = {1, 2}
    OBVIOUS
  <2>. QED
    BY <2>1
<1>4. DOMAIN s = {1, 2, 3}
  OBVIOUS
<1>5. Above(s, t) <=> First(1) \/ First(2) \/ First(3)
  <2>. HIDE DEF s, t
  <2>. QED
    BY <1>4 DEF Above
<1>. QED
  BY <1>1, <1>2, <1>3, <1>5

LEMMA AboveFour ==
    ASSUME NEW s, NEW t, DOMAIN s = 1..4, \A n \in 1..4 : s[n] \in Int /\ t[n] \in Int
    PROVE  Above(s, t) <=>
              \/ s[1] > t[1]
              \/ /\ s[1] = t[1]
                 /\ \/ s[2] > t[2]
                    \/ /\ s[2] = t[2]
                       /\ s[3] > t[3] \/ (s[3] = t[3] /\ s[4] > t[4])
<1>. DEFINE First(i) == s[i] > t[i] /\ \A j \in 1..(i - 1) : s[j] = t[j]
<1>1. First(1) <=> s[1] > t[1]
  OBVIOUS
<1>2. First(2) <=> s[1] = t[1] /\ s[2] > t[2]
  <2>1. 1..(2 - 1) = {1}
    OBVIOUS
  <2>. QED
    BY <2>1
<1>3. First(3) <=> s[1] = t[1] /\ s[2] = t[2] /\ s[3] > t[3]
  <2>1. 1..(3 - 1) = {1, 2}
    OBVIOUS
  <2>. QED
    BY <2>1
<1>4. First(4) <=> s[1] = t[1] /\ s[2] = t[2] /\ s[3] = t[3] /\ s[4] > t[4]
  <2>1. 1..(4 - 1) = {1, 2, 3}
    OBVIOUS
  <2>. QED
    BY <2>1
<1>5. DOMAIN s = {1, 2, 3, 4}
  OBVIOUS
<1>6. Above(s, t) <=> First(1) \/ First(2) \/ First(3) \/ First(4)
  BY <1>5 DEF Above
<1>. HIDE DEF First
<1>. QED
  BY <1>1, <1>2, <1>3, <1>4, <1>6

\* What is compared of findings are numbers.
Numbers(F) == \A f \in F : f.line \in Int /\ f.rule \in Int /\ f.confidence \in Int /\ f.severity \in Int

Positions(F, position) == \A f \in F : position[f.scanner] \in Int

LEMMA AfterMeans ==
    ASSUME NEW S, NEW position, Numbers(S), Positions(S, position), NEW f \in S, NEW g \in S
    PROVE  After(f, g, position) <=>
              \/ f.line > g.line
              \/ /\ f.line = g.line
                 /\ \/ position[f.scanner] > position[g.scanner]
                    \/ position[f.scanner] = position[g.scanner] /\ f.rule > g.rule
<1>. DEFINE a == f.line  b == position[f.scanner]  c == f.rule
            d == g.line  e == position[g.scanner]  h == g.rule
<1>1. After(f, g, position) <=> Above(<<a, b, c>>, <<d, e, h>>)
  BY DEF After
<1>2. a \in Int /\ b \in Int /\ c \in Int /\ d \in Int /\ e \in Int /\ h \in Int
  BY DEF Numbers, Positions
<1>. HIDE DEF a, b, c, d, e, h
<1>3. After(f, g, position) <=> a > d \/ (a = d /\ (b > e \/ (b = e /\ c > h)))
  BY <1>1, <1>2, AboveThree
<1>. QED
  BY <1>3 DEF a, b, c, d, e, h

\* The last finding is there, and none is further down.
LEMMA LastOfIsThere ==
    ASSUME NEW S, IsFiniteSet(S), S # {}, NEW position, Numbers(S), Positions(S, position)
    PROVE  LastOf(S, position) \in S /\ \A g \in S : g.line <= LastOf(S, position).line
<1>. DEFINE R == {p \in S \X S : After(p[1], p[2], position)}
<1>1. \A x, y \in S : <<x, y>> \in R <=> After(x, y, position)
  OBVIOUS
<1>2. \A x \in S : x.line \in Int /\ position[x.scanner] \in Int /\ x.rule \in Int
  BY DEF Numbers, Positions
<1>3. \A x \in S : ~After(x, x, position)
  BY <1>2, AfterMeans
<1>4. \A x, y, z \in S : After(x, y, position) /\ After(y, z, position) => After(x, z, position)
  BY <1>2, AfterMeans
<1>. HIDE DEF R
<1>5. PICK x \in S : \A y \in S : <<y, x>> \notin R
  BY <1>1, <1>3, <1>4, EndOfOrder
<1>6. LastOf(S, position) \in S /\ \A g \in S : ~After(g, LastOf(S, position), position)
  <2>1. \E f \in S : \A g \in S : ~After(g, f, position)
    BY <1>1, <1>5
  <2>. QED
    BY <2>1 DEF LastOf
<1>7. \A f, g \in S : ~After(g, f, position) => g.line <= f.line
  BY <1>2, AfterMeans
<1>. QED
  BY <1>6, <1>7

LEMMA PartOf ==
    ASSUME NEW F, NEW S \in SUBSET F, NEW position, IsFiniteSet(F), Numbers(F), Positions(F, position)
    PROVE  IsFiniteSet(S) /\ Numbers(S) /\ Positions(S, position)
BY FS_Subset DEF Numbers, Positions

LEMMA Appended ==
    ASSUME NEW S, NEW K \in Seq(S), NEW f \in S
    PROVE  /\ Append(K, f) \in Seq(S)
           /\ ToSet(K) \subseteq ToSet(Append(K, f)) /\ f \in ToSet(Append(K, f))
<1>. DEFINE A == Append(K, f)
<1>1. /\ A \in Seq(S) /\ Len(A) = Len(K) + 1 /\ A[Len(K) + 1] = f
      /\ \A i \in 1..Len(K) : A[i] = K[i]
  BY AppendProperties
<1>2. DOMAIN A = 1..(Len(K) + 1) /\ DOMAIN K = 1..Len(K) /\ Len(K) \in Nat
  BY <1>1, LenProperties
<1>. HIDE DEF A
<1>3. f \in ToSet(A)
  BY <1>1, <1>2 DEF ToSet
<1>4. ASSUME NEW i \in DOMAIN K
      PROVE  K[i] \in ToSet(A)
  BY <1>1, <1>2 DEF ToSet
<1>5. \A y \in ToSet(K) : \E i \in DOMAIN K : y = K[i]
  BY DEF ToSet
<1>. QED
  BY <1>1, <1>3, <1>4, <1>5 DEF A

LEMMA LastReplaced ==
    ASSUME NEW S, NEW K \in Seq(S), K # <<>>, NEW f \in S
    PROVE  /\ Last(K) \in S /\ Last(K) \in ToSet(K)
           /\ Append(Front(K), f) \in Seq(S) /\ f \in ToSet(Append(Front(K), f))
           /\ \A y \in ToSet(K) : y = Last(K) \/ y \in ToSet(Append(Front(K), f))
<1>1. Len(K) \in Nat /\ Len(K) # 0 /\ DOMAIN K = 1..Len(K)
  BY LenProperties, EmptySeq
<1>2. Last(K) \in S /\ Last(K) \in ToSet(K)
  BY <1>1, ElementOfSeq DEF Last, ToSet
<1>3. /\ Front(K) \in Seq(S) /\ Len(Front(K)) = Len(K) - 1
      /\ \A i \in 1..(Len(K) - 1) : Front(K)[i] = K[i]
  BY <1>1, SubSeqProperties DEF Front
<1>4. ASSUME NEW i \in 1..Len(K), K[i] # Last(K)
      PROVE  K[i] \in ToSet(Front(K))
  <2>1. i \in 1..(Len(K) - 1)
    BY <1>1, <1>4 DEF Last
  <2>2. DOMAIN Front(K) = 1..(Len(K) - 1)
    BY <1>3, LenProperties
  <2>. QED
    BY <1>3, <2>1, <2>2 DEF ToSet
<1>5. \A y \in ToSet(K) : \E i \in 1..Len(K) : y = K[i]
  BY <1>1 DEF ToSet
<1>. QED
  BY <1>2, <1>3, <1>4, <1>5, Appended

LEMMA MergeStays ==
    ASSUME NEW S, NEW K \in Seq(S), NEW f \in S
    PROVE  Merge(K, f) \in Seq(S)
BY Appended, LastReplaced DEF Merge

\* One step of the loop of Survivors.
KeptOf(g, S, position) ==
    IF S = {} THEN <<>>
    ELSE LET f == LastOf(S, position) IN Merge(g[S \ {f}], f)

IsKept(g, G, position) == g = [S \in SUBSET G |-> KeptOf(g, S, position)]

LEMMA SurvivorsExist ==
    ASSUME NEW G, IsFiniteSet(G), NEW position, Numbers(G), Positions(G, position)
    PROVE  \E g : IsKept(g, G, position)
<1>. DEFINE pick == [S \in SUBSET G |-> LastOf(S, position)]
            D == Seq(G)
            step == [f \in G |-> [K \in D |-> Merge(K, f)]]
<1>1. \A S \in SUBSET G : S # {} => LastOf(S, position) \in S
  BY PartOf, LastOfIsThere
<1>2. step \in [G -> [D -> D]]
  BY MergeStays
<1>3. <<>> \in D
  OBVIOUS
<1>4. \A S \in SUBSET G : S # {} => pick[S] \in S
  BY <1>1
<1>. HIDE DEF pick, step, D
<1>5. PICK g : IsSetLoop(g, G, pick, D, <<>>, step)
  BY <1>2, <1>3, <1>4, SetLoopExists
<1>6. ASSUME NEW S \in SUBSET G
      PROVE  g[S] = KeptOf(g, S, position)
  <2>1. CASE S = {}
    BY <1>5, <2>1 DEF KeptOf, IsSetLoop
  <2>2. CASE S # {}
    <3>1. pick[S] = LastOf(S, position) /\ pick[S] \in G /\ S \ {pick[S]} \in SUBSET G
      BY <1>4, <2>2 DEF pick
    <3>2. g[S \ {pick[S]}] \in D
      BY <1>5, <3>1 DEF IsSetLoop
    <3>3. step[pick[S]][g[S \ {pick[S]}]] = Merge(g[S \ {pick[S]}], pick[S])
      BY <3>1, <3>2 DEF step
    <3>. QED
      BY <1>5, <2>2, <3>1, <3>3 DEF KeptOf, IsSetLoop
  <2>. QED
    BY <2>1, <2>2
<1>7. g = [S \in SUBSET G |-> KeptOf(g, S, position)]
  BY <1>5, <1>6 DEF IsSetLoop
<1>. QED
  BY <1>7 DEF IsKept

\* A kept sequence of findings of S stands for S: each is linked to one that is kept.
Stands(K, S) ==
    K \in Seq(S) /\ \A x \in S : \E y \in ToSet(K) : Linked(x, y, S)

\* The findings of one class in one file.
OneClass(S) == \A x, y \in S : x.file = y.file /\ x.cwe = y.cwe

\* Taking the next finding keeps that.
LEMMA MergeStands ==
    ASSUME NEW S, OneClass(S), \A x \in S : x.line \in Int,
           NEW f \in S, \A g \in S : g.line <= f.line, NEW K, Stands(K, S \ {f})
    PROVE  Stands(Merge(K, f), S)
<1>. DEFINE T == S \ {f}
<1>1. K \in Seq(S) /\ K \in Seq(T)
  BY DEF Stands
<1>2. \A x, y, g \in S : Linked(x, y, T) => Linked(x, y, S)
  BY LinkedSame DEF OnePlace
<1>3. \A y \in ToSet(K) : y \in T
  BY <1>1, LenProperties, ElementOfSeq DEF ToSet
<1>4. \A x \in T : \E y \in ToSet(K) : Linked(x, y, S)
  BY <1>2, <1>3 DEF Stands
<1>5. Linked(f, f, S)
  BY LinkedSelf DEF OnePlace
<1>6. CASE ~(K # <<>> /\ SameWeakness(Last(K), f))
  <2>1. Merge(K, f) = Append(K, f)
    BY <1>6 DEF Merge
  <2>. QED
    BY <1>1, <1>4, <1>5, <2>1, Appended DEF Stands
<1>7. CASE K # <<>> /\ SameWeakness(Last(K), f)
  <2>. DEFINE p == Last(K)
  <2>1. p \in T /\ p \in ToSet(K) /\ f.line - p.line <= Window
    BY <1>1, <1>7, LastReplaced DEF SameWeakness
  <2>. HIDE DEF p
  <2>2. Window \in Int /\ p \in S /\ p.line <= f.line /\ p.line \in Int /\ f.line \in Int
    BY <2>1 DEF Window
  <2>3. Linked(p, f, S)
    BY <2>1, <2>2, LinkedNext DEF OneClass
  <2>4. Linked(f, p, S)
    BY <2>2, <2>3, LinkedBack
  <2>5. CASE ~Outranks(f, p)
    <3>1. Merge(K, f) = K
      BY <1>7, <2>5 DEF Merge, p
    <3>. QED
      BY <1>1, <1>4, <2>1, <2>4, <3>1 DEF Stands
  <2>6. CASE Outranks(f, p)
    <3>. DEFINE N == Append(Front(K), f)
    <3>1. Merge(K, f) = N
      BY <1>7, <2>6 DEF Merge, p
    <3>2. /\ N \in Seq(S) /\ f \in ToSet(N)
          /\ \A y \in ToSet(K) : y = p \/ y \in ToSet(N)
      BY <1>1, <1>7, LastReplaced DEF p
    <3>. HIDE DEF N
    <3>3. ASSUME NEW x \in T
          PROVE  \E y \in ToSet(N) : Linked(x, y, S)
      <4>1. PICK y \in ToSet(K) : Linked(x, y, S)
        BY <1>4
      <4>2. CASE y # p
        BY <3>2, <4>1, <4>2
      <4>3. CASE y = p
        <5>1. Linked(x, f, S)
          BY <2>2, <2>3, <4>1, <4>3, LinkedJoin
        <5>. QED
          BY <3>2, <5>1
      <4>. QED
        BY <4>2, <4>3
    <3>. QED
      BY <1>5, <3>1, <3>2, <3>3 DEF Stands
  <2>. QED
    BY <2>5, <2>6
<1>. QED
  BY <1>6, <1>7

\* What survives of one class in one file stands for all of it.
LEMMA SurvivorsStand ==
    ASSUME NEW G, IsFiniteSet(G), OneClass(G), NEW position, Numbers(G), Positions(G, position)
    PROVE  Stands(Survivors(G, position), G)
<1>. DEFINE kept == CHOOSE g : IsKept(g, G, position)
            pick == [S \in SUBSET G |-> LastOf(S, position)]
            P == {S \in SUBSET G : Stands(kept[S], S)}
<1>1. kept = [S \in SUBSET G |-> KeptOf(kept, S, position)]
  <2>1. IsKept(kept, G, position)
    BY SurvivorsExist
  <2>. QED
    BY <2>1 DEF IsKept
<1>2. Survivors(G, position) = kept[G]
  BY DEF Survivors, KeptOf, IsKept
<1>. HIDE DEF kept
<1>3. {} \in P
  <2>1. kept[{}] = <<>>
    BY <1>1 DEF KeptOf
  <2>2. Stands(<<>>, {})
    BY DEF Stands
  <2>. QED
    BY <2>1, <2>2
<1>4. ASSUME NEW S \in SUBSET G, S # {}
      PROVE  pick[S] \in S /\ (S \ {pick[S]} \in P => S \in P)
  <2>. DEFINE f == LastOf(S, position)
  <2>1. pick[S] = f
    OBVIOUS
  <2>2. f \in S /\ \A g \in S : g.line <= f.line
    <3>1. IsFiniteSet(S) /\ Numbers(S) /\ Positions(S, position)
      BY PartOf
    <3>. QED
      BY <1>4, <3>1, LastOfIsThere
  <2>3. kept[S] = Merge(kept[S \ {f}], f)
    BY <1>1, <1>4 DEF KeptOf
  <2>. HIDE DEF f, pick
  <2>4. ASSUME S \ {f} \in P
        PROVE  S \in P
    <3>1. Stands(kept[S \ {f}], S \ {f})
      BY <2>4
    <3>2. OneClass(S) /\ \A x \in S : x.line \in Int
      BY DEF OneClass, Numbers
    <3>3. Stands(kept[S], S)
      BY <2>2, <2>3, <3>1, <3>2, MergeStands
    <3>. QED
      BY <3>3
  <2>. QED
    BY <2>1, <2>2, <2>4
<1>. HIDE DEF pick, P
<1>5. /\ \A S \in SUBSET G : S # {} => pick[S] \in S
      /\ \A S \in SUBSET G : S # {} /\ S \ {pick[S]} \in P => S \in P
  BY <1>4
<1>6. \A S \in SUBSET G : S \in P
  BY <1>3, <1>5, AlongSet
<1>. QED
  BY <1>2, <1>6 DEF P

\* De-duplication makes nothing up, and what it leaves stands for what it does not.
LEMMA DedupeStands ==
    ASSUME NEW F, IsFiniteSet(F), NEW position, Numbers(F), Positions(F, position)
    PROVE  /\ Dedupe(F, position) \subseteq F
           /\ \A x \in F : \E y \in Dedupe(F, position) : Linked(x, y, F)
<1>. DEFINE Passthrough == {f \in F : ~Mergeable(f)}
            Group(f) == {g \in F \ Passthrough : g.file = f.file /\ g.cwe = f.cwe}
            Groups == {Group(f) : f \in F \ Passthrough}
            D == Dedupe(F, position)
<1>1. D = Passthrough \cup UNION {ToSet(Survivors(G, position)) : G \in Groups}
  BY DEF Dedupe
<1>2. \A f \in F \ Passthrough : Group(f) \in Groups /\ f \in Group(f)
  OBVIOUS
<1>3. ASSUME NEW G \in Groups
      PROVE  G \in SUBSET F /\ OneClass(G)
  BY DEF OneClass
<1>. HIDE DEF Groups, Group, D
<1>4. ASSUME NEW G \in Groups
      PROVE  Stands(Survivors(G, position), G)
  BY <1>3, PartOf, SurvivorsStand
<1>5. ASSUME NEW G \in Groups
      PROVE  ToSet(Survivors(G, position)) \subseteq G
  <2>1. Survivors(G, position) \in Seq(G)
    BY <1>4 DEF Stands
  <2>. QED
    BY <2>1, LenProperties, ElementOfSeq DEF ToSet
<1>6. D \subseteq F
  BY <1>1, <1>3, <1>5
<1>7. ASSUME NEW x \in F, x \notin Passthrough
      PROVE  \E y \in D : Linked(x, y, F)
  <2>1. Group(x) \in Groups /\ x \in Group(x)
    BY <1>2, <1>7
  <2>. DEFINE G == Group(x)
  <2>2. PICK y \in ToSet(Survivors(G, position)) : Linked(x, y, G)
    BY <1>4, <2>1 DEF Stands
  <2>3. y \in D
    BY <1>1, <2>1, <2>2
  <2>4. Linked(x, y, F)
    BY <1>3, <2>1, <2>2, LinkedSame DEF OnePlace
  <2>. QED
    BY <2>3, <2>4
<1>8. ASSUME NEW x \in Passthrough
      PROVE  x \in D /\ Linked(x, x, F)
  BY <1>1, LinkedSelf DEF OnePlace, Numbers
<1>. QED
  BY <1>6, <1>7, <1>8 DEF D

-----------------------------------------------------------------------------
(***************************************************************************)
(* The findings of a scan, in order: nothing gets lost.                    *)
(***************************************************************************)
LEMMA LeastImportantIsThere ==
    ASSUME NEW S, IsFiniteSet(S), S # {}, Numbers(S)
    PROVE  LeastImportant(S) \in S
<1>. DEFINE R == {p \in S \X S : Above(Importance(p[2]), Importance(p[1]))}
<1>1. \A x, y \in S : <<x, y>> \in R <=> Above(Importance(y), Importance(x))
  OBVIOUS
<1>2. \A x \in S : x.line \in Int /\ x.severity \in Int /\ x.rule \in Int /\ x.confidence \in Int
  BY DEF Numbers
<1>3. ASSUME NEW x \in S, NEW y \in S
      PROVE  Above(Importance(y), Importance(x)) <=>
                \/ y.severity > x.severity
                \/ /\ y.severity = x.severity
                   /\ \/ y.confidence > x.confidence
                      \/ /\ y.confidence = x.confidence
                         /\ y.line > x.line \/ (y.line = x.line /\ y.rule > x.rule)
  <2>. DEFINE s == Importance(y)  t == Importance(x)
  <2>1. DOMAIN s = 1..4 /\ s[1] = y.severity /\ s[2] = y.confidence /\ s[3] = y.line /\ s[4] = y.rule
    BY DEF Importance
  <2>2. t[1] = x.severity /\ t[2] = x.confidence /\ t[3] = x.line /\ t[4] = x.rule
    BY DEF Importance
  <2>. HIDE DEF s, t
  <2>3. \A n \in 1..4 : s[n] \in Int /\ t[n] \in Int
    <3>1. \A n \in 1..4 : n = 1 \/ n = 2 \/ n = 3 \/ n = 4
      OBVIOUS
    <3>. QED
      BY <1>2, <2>1, <2>2, <3>1
  <2>4. Above(s, t) <=> \/ s[1] > t[1]
                       \/ /\ s[1] = t[1]
                          /\ \/ s[2] > t[2]
                             \/ /\ s[2] = t[2]
                                /\ s[3] > t[3] \/ (s[3] = t[3] /\ s[4] > t[4])
    BY <2>1, <2>3, AboveFour
  <2>. QED
    BY <2>1, <2>2, <2>4 DEF s, t
<1>4. \A x \in S : ~Above(Importance(x), Importance(x))
  BY <1>2, <1>3
<1>5. \A x, y, z \in S : Above(Importance(y), Importance(x)) /\ Above(Importance(z), Importance(y))
                            => Above(Importance(z), Importance(x))
  BY <1>2, <1>3
<1>. HIDE DEF R
<1>8. \A x \in S : <<x, x>> \notin R
  BY <1>1, <1>4
<1>9. \A x, y, z \in S : <<x, y>> \in R /\ <<y, z>> \in R => <<x, z>> \in R
  BY <1>1, <1>5
<1>6. PICK x \in S : \A y \in S : <<y, x>> \notin R
  BY <1>8, <1>9, EndOfOrder
<1>7. \E f \in S : \A g \in S : ~Above(Importance(f), Importance(g))
  BY <1>1, <1>6
<1>. QED
  BY <1>7 DEF LeastImportant

LEMMA AppendedSet ==
    ASSUME NEW S, NEW K \in Seq(S), NEW f \in S
    PROVE  ToSet(Append(K, f)) = ToSet(K) \cup {f}
<1>. DEFINE A == Append(K, f)
<1>1. /\ Len(A) = Len(K) + 1 /\ A[Len(K) + 1] = f
      /\ \A i \in 1..Len(K) : A[i] = K[i]
  BY AppendProperties
<1>2. DOMAIN A = 1..(Len(K) + 1) /\ DOMAIN K = 1..Len(K) /\ Len(K) \in Nat
  BY <1>1, AppendProperties, LenProperties
<1>. HIDE DEF A
<1>3. \A y \in ToSet(A) : \E i \in DOMAIN A : y = A[i]
  BY DEF ToSet
<1>4. \A y \in ToSet(A) : y \in ToSet(K) \cup {f}
  <2>1. \A i \in DOMAIN A : i = Len(K) + 1 \/ i \in 1..Len(K)
    BY <1>2
  <2>2. \A i \in 1..Len(K) : K[i] \in ToSet(K)
    BY <1>2 DEF ToSet
  <2>. QED
    BY <1>1, <1>3, <2>1, <2>2
<1>. QED
  BY <1>4, Appended DEF A

\* One step of the loop of ByImportance.
SortedOf(g, S) ==
    IF S = {} THEN <<>>
    ELSE LET f == LeastImportant(S) IN Append(g[S \ {f}], f)

IsOrdering(g, F) == g = [S \in SUBSET F |-> SortedOf(g, S)]

LEMMA SortedExists ==
    ASSUME NEW F, IsFiniteSet(F), Numbers(F)
    PROVE  \E g : IsOrdering(g, F)
<1>. DEFINE pick == [S \in SUBSET F |-> LeastImportant(S)]
            D == Seq(F)
            step == [f \in F |-> [K \in D |-> Append(K, f)]]
<1>1. \A S \in SUBSET F : S # {} => LeastImportant(S) \in S
  <2>1. \A S \in SUBSET F : IsFiniteSet(S) /\ Numbers(S)
    BY FS_Subset DEF Numbers
  <2>. QED
    BY <2>1, LeastImportantIsThere
<1>2. step \in [F -> [D -> D]]
  BY AppendProperties
<1>3. <<>> \in D
  OBVIOUS
<1>4. \A S \in SUBSET F : S # {} => pick[S] \in S
  BY <1>1
<1>. HIDE DEF pick, step, D
<1>5. PICK g : IsSetLoop(g, F, pick, D, <<>>, step)
  BY <1>2, <1>3, <1>4, SetLoopExists
<1>6. ASSUME NEW S \in SUBSET F
      PROVE  g[S] = SortedOf(g, S)
  <2>1. CASE S = {}
    BY <1>5, <2>1 DEF SortedOf, IsSetLoop
  <2>2. CASE S # {}
    <3>1. pick[S] = LeastImportant(S) /\ pick[S] \in F /\ S \ {pick[S]} \in SUBSET F
      BY <1>4, <2>2 DEF pick
    <3>2. g[S \ {pick[S]}] \in D
      BY <1>5, <3>1 DEF IsSetLoop
    <3>3. step[pick[S]][g[S \ {pick[S]}]] = Append(g[S \ {pick[S]}], pick[S])
      BY <3>1, <3>2 DEF step
    <3>. QED
      BY <1>5, <2>2, <3>1, <3>3 DEF SortedOf, IsSetLoop
  <2>. QED
    BY <2>1, <2>2
<1>7. g = [S \in SUBSET F |-> SortedOf(g, S)]
  BY <1>5, <1>6 DEF IsSetLoop
<1>. QED
  BY <1>7 DEF IsOrdering

LEMMA OrderedIsAll ==
    ASSUME NEW F, IsFiniteSet(F), Numbers(F)
    PROVE  ByImportance(F) \in Seq(F) /\ ToSet(ByImportance(F)) = F
<1>. DEFINE sorted == CHOOSE g : IsOrdering(g, F)
            pick == [S \in SUBSET F |-> LeastImportant(S)]
            P == {S \in SUBSET F : sorted[S] \in Seq(S) /\ ToSet(sorted[S]) = S}
<1>1. sorted = [S \in SUBSET F |-> SortedOf(sorted, S)]
  <2>1. IsOrdering(sorted, F)
    BY SortedExists
  <2>. QED
    BY <2>1 DEF IsOrdering
<1>2. ByImportance(F) = sorted[F]
  BY DEF ByImportance, SortedOf, IsOrdering
<1>. HIDE DEF sorted
<1>3. {} \in P
  <2>1. sorted[{}] = <<>>
    BY <1>1 DEF SortedOf
  <2>2. ToSet(<<>>) = {} /\ <<>> \in Seq({})
    BY DEF ToSet
  <2>. QED
    BY <2>1, <2>2
<1>4. ASSUME NEW S \in SUBSET F, S # {}
      PROVE  pick[S] \in S /\ (S \ {pick[S]} \in P => S \in P)
  <2>. DEFINE f == LeastImportant(S)  K == sorted[S \ {f}]
  <2>1. pick[S] = f
    OBVIOUS
  <2>2. f \in S
    <3>1. IsFiniteSet(S) /\ Numbers(S)
      BY FS_Subset DEF Numbers
    <3>. QED
      BY <1>4, <3>1, LeastImportantIsThere
  <2>3. sorted[S] = Append(K, f)
    BY <1>1, <1>4 DEF SortedOf
  <2>. HIDE DEF f, pick
  <2>4. ASSUME S \ {f} \in P
        PROVE  S \in P
    <3>1. K \in Seq(S \ {f}) /\ ToSet(K) = S \ {f}
      BY <2>4
    <3>. HIDE DEF K
    <3>2. K \in Seq(S)
      BY <3>1
    <3>4. Append(K, f) \in Seq(S) /\ ToSet(Append(K, f)) = ToSet(K) \cup {f}
      BY <2>2, <3>2, Appended, AppendedSet
    <3>3. Append(K, f) \in Seq(S) /\ ToSet(Append(K, f)) = S
      BY <2>2, <3>1, <3>4
    <3>. QED
      BY <2>3, <3>3
  <2>. QED
    BY <2>1, <2>2, <2>4
<1>. HIDE DEF pick, P
<1>5. /\ \A S \in SUBSET F : S # {} => pick[S] \in S
      /\ \A S \in SUBSET F : S # {} /\ S \ {pick[S]} \in P => S \in P
  BY <1>4
<1>6. \A S \in SUBSET F : S \in P
  BY <1>3, <1>5, AlongSet
<1>. QED
  BY <1>2, <1>6 DEF P

-----------------------------------------------------------------------------
(***************************************************************************)
(* What the scanners report, and the configuration.                        *)
(***************************************************************************)

\* What is said of a finding but for its severity.
Fields == {"scanner", "file", "rule", "cwe", "line", "severity", "original", "confidence"}

SamePlace(f, g) ==
    g.scanner = f.scanner /\ g.file = f.file /\ g.rule = f.rule /\ g.cwe = f.cwe /\ g.line = f.line

LEMMA RatedIs ==
    ASSUME NEW f, IsFinding(f), NEW s \in Severities
    PROVE  IsFinding(Rated(f, s)) /\ SamePlace(f, Rated(f, s))
<1>. DEFINE g == Rated(f, s)
<1>1. g = [[f EXCEPT !.severity = s] EXCEPT !.original = s]
  BY DEF Rated
<1>. DEFINE h == [f EXCEPT !.severity = s]
<1>2. DOMAIN h = DOMAIN f /\ h.severity = s /\ \A x \in DOMAIN f : x # "severity" => h[x] = f[x]
  BY DEF IsFinding
<1>. HIDE DEF h
<1>3. DOMAIN g = DOMAIN h /\ g.original = s /\ \A x \in DOMAIN h : x # "original" => g[x] = h[x]
  BY <1>1, <1>2 DEF IsFinding, h
<1>. HIDE DEF g
<1>4. g.severity = s /\ g.confidence = f.confidence /\ SamePlace(f, g)
  BY <1>2, <1>3 DEF IsFinding, SamePlace
<1>5. IsFinding(g)
  BY <1>2, <1>3, <1>4 DEF IsFinding, SamePlace
<1>. QED
  BY <1>4, <1>5 DEF g

LEMMA VerifiedIs ==
    ASSUME NEW o, NEW f, IsFinding(f)
    PROVE  IsFinding(Verified(o, f)) /\ SamePlace(f, Verified(o, f))
<1>1. CASE Verdict(o, f) = "live"
  <2>1. Verified(o, f) = Rated(f, Critical)
    BY <1>1 DEF Verified
  <2>2. Critical \in Severities
    BY DEF Critical, Severities, Info
  <2>. QED
    BY <2>1, <2>2, RatedIs
<1>2. CASE Verdict(o, f) = "invalid"
  <2>1. Verified(o, f) = Rated(f, Greatest(Low, f.severity - 1))
    BY <1>2 DEF Verified
  <2>2. Greatest(Low, f.severity - 1) \in Severities
    BY DEF Critical, Severities, Info, IsFinding, Greatest, Low
  <2>. QED
    BY <2>1, <2>2, RatedIs
<1>3. CASE Verdict(o, f) # "live" /\ Verdict(o, f) # "invalid"
  <2>1. Verified(o, f) = f
    BY <1>3 DEF Verified
  <2>. QED
    BY <2>1 DEF SamePlace
<1>. QED
  BY <1>1, <1>2, <1>3

LEMMA ImageFinite ==
    ASSUME NEW S, IsFiniteSet(S), NEW g
    PROVE  IsFiniteSet({g[x] : x \in S})
<1>. DEFINE T == {g[x] : x \in S}
            h == [x \in S |-> g[x]]
<1>1. h \in Surjection(S, T)
  BY DEF Surjection
<1>. QED
  BY <1>1, FS_Surjection

LEMMA DetectedIs ==
    ASSUME code \subseteq Problems, NEW o
    PROVE  /\ IsFiniteSet(Detected(o))
           /\ \A f \in Detected(o) : /\ IsFinding(f) /\ f.scanner \in Ran(o)
                                     /\ \E g \in Problems : f.file = g.file
<1>. DEFINE S == {g \in code : g.scanner \in Ran(o) /\ o.paths \in {None, {g.file}}}
<1>1. S \subseteq Problems
  OBVIOUS
<1>2. IsFiniteSet(S)
  BY <1>1, ProblemsAssumption, FS_Subset
<1>3. Detected(o) = {Verified(o, f) : f \in S}
  BY DEF Detected
<1>4. \A f \in S : f.scanner \in Ran(o)
  OBVIOUS
<1>. HIDE DEF S
<1>5. IsFiniteSet({Verified(o, f) : f \in S})
  <2>. DEFINE g == [f \in S |-> Verified(o, f)]
  <2>1. {g[f] : f \in S} = {Verified(o, f) : f \in S}
    OBVIOUS
  <2>. HIDE DEF g
  <2>. QED
    BY <1>2, <2>1, ImageFinite
<1>6. \A f \in Detected(o) : \E g \in S : f = Verified(o, g)
  BY <1>3
<1>7. \A g \in S : IsFinding(Verified(o, g)) /\ SamePlace(g, Verified(o, g))
  BY <1>1, VerifiedIs, ProblemsAssumption
<1>. QED
  BY <1>1, <1>3, <1>4, <1>5, <1>6, <1>7 DEF SamePlace

LEMMA ScannersPlaced ==
    ASSUME NEW o, NEW F, \A f \in F : f.scanner \in Ran(o)
    PROVE  Positions(F, ScannerPosition)
<1>. SUFFICES ASSUME NEW s \in ToSet(Scanners)
              PROVE  ScannerPosition[s] \in Int
  BY DEF Positions, Ran
<1>1. DOMAIN Scanners = 1..Len(Scanners) /\ Len(Scanners) \in Nat
  BY ProblemsAssumption, LenProperties DEF IsSeq
<1>2. \E i \in DOMAIN Scanners : Scanners[i] = s
  BY DEF ToSet
<1>3. ScannerPosition[s] = CHOOSE i \in DOMAIN Scanners : Scanners[i] = s
  BY DEF ScannerPosition
<1>. QED
  BY <1>1, <1>2, <1>3

LEMMA ConfiguredIs ==
    ASSUME NEW o \in Commands, NEW t \in Trees
    PROVE  /\ Configured(o, t).minSeverity \in Severities
           /\ "failOn" \in DOMAIN Configured(o, t) /\ "policies" \in DOMAIN Configured(o, t)
           /\ "failOnError" \in DOMAIN Configured(o, t)
<1>. DEFINE s == SettingsOf(o, t)
            errors == IF Strict(o.profile) THEN "yes" ELSE s.failOnError
            c == Configured(o, t)
<1>1. IsSettings(s)
  <2>1. IsSettings(Defaults)
    BY DEF IsSettings, Defaults, Severities, Info, Critical
  <2>2. IsSettings(RefSettings) /\ IsSettings(t.settings)
    BY CommandsAssumption
  <2>. QED
    BY <2>1, <2>2 DEF SettingsOf
<1>2. o.minSeverity \in Severities \cup {None}
  BY CommandsAssumption DEF IsCommand
<1>3. c = [s EXCEPT !.failOn = FirstGiven(o.failOn, s.failOn),
                    !.minSeverity = FirstGiven(o.minSeverity, s.minSeverity),
                    !.failOnError = FirstGiven(o.failOnError, errors)]
  BY DEF Configured
<1>4. /\ DOMAIN s = {"failOn", "minSeverity", "failOnError", "allow", "exclude", "policies"}
      /\ s.minSeverity \in Severities
  BY <1>1 DEF IsSettings
<1>. HIDE DEF s, c, errors
<1>5. DOMAIN c = DOMAIN s /\ c.minSeverity = FirstGiven(o.minSeverity, s.minSeverity)
  BY <1>3, <1>4
<1>6. c.minSeverity \in Severities
  BY <1>2, <1>4, <1>5 DEF FirstGiven
<1>. QED
  BY <1>4, <1>5, <1>6 DEF c

-----------------------------------------------------------------------------
(***************************************************************************)
(* The pipeline: why a finding is left out, and what stands for it.        *)
(***************************************************************************)
LeftOut(c, comments, x) ==
    \/ c.trusted /\ Commented(x, comments)
    \/ Allowed(x, c.allow)
    \/ x.severity < c.minSeverity
    \/ c.trusted /\ Excepted(x, c.exceptions, {"suppress"})

LEMMA Completed ==
    ASSUME NEW c, c.minSeverity \in Severities, NEW F, NEW open, NEW D, NEW x \in D,
           x.severity \in Severities, x.original \in Severities, x.original <= x.severity
    PROVE  LET out == Complete(c, None, F, open, D).findings
           IN  \/ x \in out
               \/ x.severity < c.minSeverity
               \/ c.trusted /\ Excepted(x, c.exceptions, {"suppress"})
<1>. DEFINE filtered == Filtered(c, D \cup Chains(D))
<1>1. Complete(c, None, F, open, D).findings = Unexcepted(c, filtered)
  BY DEF Complete, ApplyContext
<1>2. x \in filtered \/ x.severity < c.minSeverity
  <2>1. Greatest(x.severity, x.original) = x.severity
    BY DEF Greatest, Severities, Info, Critical
  <2>2. ~(x.severity >= c.minSeverity) => x.severity < c.minSeverity
    BY DEF Severities, Info, Critical
  <2>. QED
    BY <2>1, <2>2 DEF Filtered, Shown
<1>. HIDE DEF filtered
<1>. QED
  BY <1>1, <1>2 DEF Unexcepted

\* Nothing is made up but chains.
LEMMA CompletedMade ==
    ASSUME NEW c, NEW F, NEW open, NEW D
    PROVE  Complete(c, None, F, open, D).findings \subseteq D \cup {Chain(file) : file \in {x.file : x \in D}}
<1>1. Complete(c, None, F, open, D).findings = Unexcepted(c, Filtered(c, D \cup Chains(D)))
  BY DEF Complete, ApplyContext
<1>2. Chains(D) \subseteq {Chain(file) : file \in {x.file : x \in D}}
  BY DEF Chains
<1>. QED
  BY <1>1, <1>2 DEF Unexcepted, Filtered

LEMMA Finished ==
    ASSUME NEW c, c.minSeverity \in Severities, NEW F, IsFiniteSet(F), \A x \in F : IsFinding(x),
           NEW ran, NEW comments, NEW position, Positions(F, position), NEW x \in F
    PROVE  LET out == Finish(c, None, F, ran, comments, position).findings
           IN  \/ LeftOut(c, comments, x)
               \/ Redundant(x, ran)
               \/ \E y \in F : Linked(x, y, F) /\ (y \in out \/ LeftOut(c, comments, y))
<1>. DEFINE open == Unlisted(c, Uncommented(c, F, comments))
            left == PreferAst(open, ran)
            D == Dedupe(left, position)
            out == Finish(c, None, F, ran, comments, position).findings
<1>1. out = Complete(c, None, F, open, D).findings
  BY DEF Finish
<1>2. open \subseteq F /\ left \subseteq open
  BY DEF Unlisted, Uncommented, PreferAst
<1>3. CASE x \notin open
  BY <1>3 DEF Unlisted, Uncommented, LeftOut
<1>4. CASE x \in open /\ x \notin left
  BY <1>4 DEF PreferAst
<1>5. CASE x \in left
  <2>. HIDE DEF open, left
  <2>1. Numbers(F)
    BY DEF Numbers, IsFinding, Severities, Info, Critical
  <2>2. left \in SUBSET F
    BY <1>2
  <2>3. IsFiniteSet(left) /\ Numbers(left) /\ Positions(left, position)
    BY <2>1, <2>2, PartOf
  <2>4. D \subseteq left /\ \E y \in D : Linked(x, y, left)
    BY <1>5, <2>3, DedupeStands
  <2>. HIDE DEF D, out
  <2>5. PICK y \in D : Linked(x, y, left)
    BY <2>4
  <2>6. y \in F /\ Linked(x, y, F)
    BY <2>2, <2>4, <2>5, LinkedSame DEF OnePlace
  <2>7. y.severity \in Severities /\ y.original \in Severities /\ y.original <= y.severity
    BY <2>6 DEF IsFinding, Severities, Info, Critical
  <2>8. y \in out \/ LeftOut(c, comments, y)
    BY <1>1, <2>7, Completed DEF LeftOut
  <2>. QED
    BY <2>6, <2>8 DEF out
<1>. QED
  BY <1>3, <1>4, <1>5

LEMMA FinishedMade ==
    ASSUME NEW c, NEW F, IsFiniteSet(F), \A x \in F : IsFinding(x),
           NEW ran, NEW comments, NEW position, Positions(F, position)
    PROVE  Finish(c, None, F, ran, comments, position).findings
              \subseteq F \cup {Chain(file) : file \in {x.file : x \in F}}
<1>. DEFINE open == Unlisted(c, Uncommented(c, F, comments))
            left == PreferAst(open, ran)
            D == Dedupe(left, position)
            out == Finish(c, None, F, ran, comments, position).findings
<1>1. out = Complete(c, None, F, open, D).findings
  BY DEF Finish
<1>2. left \in SUBSET F
  BY DEF Unlisted, Uncommented, PreferAst
<1>3. Numbers(F)
  BY DEF Numbers, IsFinding, Severities, Info, Critical
<1>. HIDE DEF out, left
<1>4. IsFiniteSet(left) /\ Numbers(left) /\ Positions(left, position)
  BY <1>2, <1>3, PartOf
<1>5. D \subseteq left
  BY <1>4, DedupeStands
<1>. HIDE DEF D, open
<1>6. out \subseteq D \cup {Chain(file) : file \in {x.file : x \in D}}
  BY <1>1, CompletedMade
<1>7. D \subseteq F
  BY <1>2, <1>5
<1>. QED
  BY <1>6, <1>7 DEF out

\* What the pipeline of a command leaves out is excused.
LEMMA LeftOutExcused ==
    ASSUME today \in Nat, exceptions \in Seq(Entries), NEW o, NEW comments, NEW x,
           comments[x.file] = {m \in tree.comments : m.file = x.file},
           LeftOut(Pipeline(o, tree, exceptions), comments, x)
    PROVE  Excused(o, x)
<1>. DEFINE c == Pipeline(o, tree, exceptions)
            b == Configured(o, tree)
<1>1. /\ c.trusted = Trusted(o) /\ c.allow = b.allow /\ c.minSeverity = b.minSeverity
      /\ c.exceptions = Active(exceptions, today)
  BY DEF Pipeline
<1>. HIDE DEF c
<1>2. CASE c.trusted /\ Commented(x, comments)
  <2>1. Commented(x, [file \in {x.file} |-> {m \in tree.comments : m.file = file}])
    BY <1>2 DEF Commented
  <2>. QED
    BY <1>1, <1>2, <2>1 DEF Excused
<1>3. CASE Allowed(x, c.allow) \/ x.severity < c.minSeverity
  BY <1>1, <1>3 DEF Excused
<1>4. CASE c.trusted /\ Excepted(x, c.exceptions, {"suppress"})
  <2>1. PICK e \in Active(exceptions, today) : e.rule = x.rule /\ e.file = x.file /\ e.status = "suppress"
    BY <1>1, <1>4 DEF Excepted
  <2>2. PICK i \in DOMAIN exceptions :
            /\ e = [rule |-> exceptions[i].rule, file |-> exceptions[i].file, status |-> exceptions[i].status]
            /\ Unexpired(exceptions[i], today)
    BY <2>1 DEF Active
  <2>3. exceptions[i] \in Entries
    BY <2>2, LenProperties, ElementOfSeq
  <2>4. exceptions[i].until \in Nat \cup {None} /\ None \notin Nat
    BY <2>3, CommandsAssumption
  <2>5. exceptions[i].until \notin 0..(today - 1)
    BY <2>2, <2>4 DEF Unexpired
  <2>6. exceptions[i].rule = x.rule /\ exceptions[i].file = x.file /\ exceptions[i].status = "suppress"
    BY <2>1, <2>2
  <2>. QED
    BY <1>1, <1>4, <2>2, <2>5, <2>6 DEF Excused
<1>. QED
  BY <1>2, <1>3, <1>4 DEF LeftOut, c

-----------------------------------------------------------------------------
(***************************************************************************)
(* The merge of imported findings.  Each place of the merged list belongs  *)
(* to one finding, which may gain severity and make room for another one   *)
(* of the same issue; what was folded into it stays linked to it.          *)
(***************************************************************************)
Solid(f) == Fields \subseteq DOMAIN f /\ f.line \in Nat /\ f.severity \in Severities

\* g is y, rated as high or higher.
Rises(g, y) ==
    /\ Solid(g) /\ SamePlace(y, g) /\ g.original = y.original
    /\ y.severity \in Severities /\ g.severity >= y.severity

LEMMA SeverityGiven ==
    ASSUME NEW f, Solid(f), NEW s \in Severities
    PROVE  LET g == [f EXCEPT !.severity = s]
           IN  /\ Solid(g) /\ SamePlace(f, g) /\ g.original = f.original
               /\ g.severity = s /\ g.confidence = f.confidence
<1>. DEFINE g == [f EXCEPT !.severity = s]
<1>1. DOMAIN g = DOMAIN f /\ g.severity = s /\ \A x \in DOMAIN f : x # "severity" => g[x] = f[x]
  BY DEF Solid, Fields
<1>. HIDE DEF g
<1>2. /\ g.scanner = f.scanner /\ g.file = f.file /\ g.rule = f.rule /\ g.cwe = f.cwe
      /\ g.line = f.line /\ g.original = f.original /\ g.confidence = f.confidence
  BY <1>1 DEF Solid, Fields
<1>3. Solid(g)
  BY <1>1, <1>2 DEF Solid
<1>. QED
  BY <1>1, <1>2, <1>3 DEF g, SamePlace

LEMMA RecordedIs ==
    ASSUME NEW g, NEW y, Rises(g, y), NEW h, Solid(h)
    PROVE  /\ Rises(Recorded(g, h), y)
           /\ Recorded(g, h).severity >= g.severity /\ Recorded(g, h).severity >= h.severity
<1>. DEFINE s == Greatest(g.severity, h.severity)
            r == Recorded(g, h)
<1>1. s \in Severities /\ s >= g.severity /\ s >= h.severity /\ s \in Int /\ g.severity \in Int
  BY DEF Rises, Solid, Greatest, Severities, Info, Critical
<1>2. r = [g EXCEPT !.severity = s]
  BY DEF Recorded
<1>. HIDE DEF s, r
<1>3. Solid(r) /\ SamePlace(g, r) /\ r.original = g.original /\ r.severity = s
  BY <1>1, <1>2, SeverityGiven DEF Rises
<1>4. y.severity \in Int /\ g.severity >= y.severity
  BY DEF Rises, Severities, Info, Critical
<1>5. SamePlace(y, r) /\ r.original = y.original
  BY <1>3 DEF Rises, SamePlace
<1>. QED
  BY <1>1, <1>3, <1>4, <1>5 DEF Rises, r

\* Where an imported finding goes: to the end, or to the nearest place of its issue.
LEMMA FoldIntoIs ==
    ASSUME NEW X, \A x \in X : Solid(x), NEW K \in Seq(X), NEW f \in X, NEW n
    PROVE  \/ FoldInto(n, K, f) = Append(K, f)
           \/ \E m \in 1..Len(K) :
                 /\ SameIssue(K[m], f)
                 /\ FoldInto(n, K, f) = [K EXCEPT ![m] = IF m > n /\ Stronger(f, K[m])
                                                        THEN Recorded(f, K[m])
                                                        ELSE Recorded(K[m], f)]
<1>. DEFINE candidates == {i \in DOMAIN K : SameIssue(K[i], f)}
            Closer(i, k) == \/ Distance(K[i], f) < Distance(K[k], f)
                            \/ Distance(K[i], f) = Distance(K[k], f) /\ i <= k
            match == CHOOSE i \in candidates : \A k \in candidates : Closer(i, k)
<1>1. CASE candidates = {}
  BY <1>1 DEF FoldInto
<1>2. CASE candidates # {}
  <2>1. DOMAIN K = 1..Len(K) /\ Len(K) \in Nat
    BY LenProperties
  <2>2. \A i \in DOMAIN K : Distance(K[i], f) \in Nat
    <3>1. \A i \in DOMAIN K : K[i] \in X
      BY <2>1, ElementOfSeq
    <3>2. \A i \in DOMAIN K : K[i].line \in Nat /\ f.line \in Nat
      BY <3>1 DEF Solid
    <3>. QED
      BY <3>2 DEF Distance, Greatest
  <2>. DEFINE Distances == {Distance(K[i], f) : i \in candidates}
  <2>3. Distances \subseteq Nat /\ Distances # {}
    BY <1>2, <2>2
  <2>4. /\ \A i \in candidates : Distance(K[i], f) \in Distances
        /\ \A a \in Distances : \E i \in candidates : Distance(K[i], f) = a
    OBVIOUS
  <2>. HIDE DEF Distances
  <2>5. PICK d \in Distances : \A e \in Distances : ~(e < d)
    BY <2>3, LeastNumber
  <2>. DEFINE Nearest == {i \in candidates : Distance(K[i], f) = d}
  <2>6. Nearest \subseteq Nat /\ Nearest # {}
    BY <2>1, <2>4
  <2>. HIDE DEF Nearest
  <2>7. PICK m \in Nearest : \A i \in Nearest : ~(i < m)
    BY <2>6, LeastNumber
  <2>8. m \in candidates /\ Distance(K[m], f) = d
    BY <2>7 DEF Nearest
  <2>9. ASSUME NEW k \in candidates
        PROVE  Closer(m, k)
    <3>1. Distance(K[k], f) \in Distances /\ Distance(K[k], f) \in Nat /\ d \in Nat
      BY <2>2, <2>3, <2>4
    <3>2. CASE Distance(K[k], f) = d
      <4>1. k \in Nearest /\ k \in Nat /\ m \in Nat
        BY <2>1, <2>6, <3>2 DEF Nearest
      <4>. QED
        BY <2>7, <2>8, <3>2, <4>1
    <3>3. CASE Distance(K[k], f) # d
      BY <2>5, <2>8, <3>1, <3>3
    <3>. QED
      BY <3>2, <3>3
  <2>. HIDE DEF Closer
  <2>10. match \in candidates
    BY <2>8, <2>9
  <2>11. FoldInto(n, K, f) = [K EXCEPT ![match] = IF match > n /\ Stronger(f, K[match])
                                                   THEN Recorded(f, K[match])
                                                   ELSE Recorded(K[match], f)]
    BY <1>2 DEF FoldInto, Closer
  <2>. HIDE DEF match
  <2>. QED
    BY <2>1, <2>10, <2>11
<1>. QED
  BY <1>1, <1>2

\* Two findings of one issue are linked.
LEMMA OneIssue ==
    ASSUME NEW F, NEW f \in F, Solid(f), NEW y \in F, NEW g, Rises(g, y), SameIssue(g, f)
    PROVE  Linked(f, g, F) /\ Linked(g, f, F)
<1>1. /\ g.line \in Nat /\ f.line \in Nat /\ y.line = g.line /\ y.file = g.file /\ y.cwe = g.cwe
      /\ OnePlace(y, g)
  BY DEF Rises, Solid, SamePlace, OnePlace
<1>2. /\ g.file = f.file /\ g.cwe = f.cwe
      /\ Greatest(g.line - f.line, f.line - g.line) <= 2
  BY DEF SameIssue, Distance, DedupeWindow
<1>3. f.line <= g.line + Window /\ g.line <= f.line + Window
  BY <1>1, <1>2 DEF Greatest, Window
<1>4. Linked(f, y, F)
  <2>1. CASE f.line <= g.line
    BY <1>1, <1>2, <1>3, <2>1, LinkedNext
  <2>2. CASE ~(f.line <= g.line)
    <3>1. g.line <= f.line
      BY <1>1, <2>2
    <3>2. Linked(y, f, F)
      BY <1>1, <1>2, <1>3, <3>1, LinkedNext
    <3>. QED
      BY <1>1, <3>2, LinkedBack
  <2>. QED
    BY <2>1, <2>2
<1>5. OnePlace(f, f)
  BY DEF OnePlace
<1>6. Linked(f, g, F)
  BY <1>1, <1>4, <1>5, LinkedSame
<1>. QED
  BY <1>1, <1>6, LinkedBack

\* The place i of K stands for x, and it is a finding of F or an imported one.
StandsAt(K, i, x, native, F) ==
    /\ Linked(x, K[i], F) /\ K[i].severity >= x.severity
    /\ i \in 1..Len(native) => native[i] \in F

\* The merged list K stands for the native findings, place by place, and for the imported
\* findings that were done.
Folds(K, native, open, done, F) ==
    /\ Len(K) >= Len(native)
    /\ \A i \in 1..Len(native) : Rises(K[i], native[i])
    /\ \A i \in (Len(native) + 1)..Len(K) : \E z \in open : Rises(K[i], z)
    /\ \A x \in done : \E i \in 1..Len(K) : StandsAt(K, i, x, native, F)

\* The place m of the list changes: what it stood for, it still stands for.
LEMMA PlaceChanged ==
    ASSUME NEW native, Len(native) \in Nat, NEW open, NEW done, NEW F,
           \A x \in done : x.line \in Nat /\ x.severity \in Severities,
           NEW X, \A x \in X : Solid(x), NEW K \in Seq(X), Folds(K, native, open, done, F),
           NEW m \in 1..Len(K), NEW e, Solid(e), Linked(K[m], e, F), e.severity >= K[m].severity,
           m \in 1..Len(native) => Rises(e, native[m]),
           m \notin 1..Len(native) => \E z \in open : Rises(e, z)
    PROVE  Folds([K EXCEPT ![m] = e], native, open, done, F)
<1>. DEFINE L == [K EXCEPT ![m] = e]
<1>1. DOMAIN K = 1..Len(K) /\ Len(K) \in Nat
  BY LenProperties
<1>2. /\ Len(L) = Len(K) /\ L[m] = e /\ \A i \in 1..Len(K) : i # m => L[i] = K[i]
  <2>1. DOMAIN L = 1..Len(K) /\ L[m] = e /\ \A i \in 1..Len(K) : i # m => L[i] = K[i]
    BY <1>1
  <2>2. L \in Seq(X \cup {e})
    <3>1. \A i \in 1..Len(K) : L[i] \in X \cup {e}
      BY <1>1, <2>1, ElementOfSeq
    <3>. QED
      BY <1>1, <2>1, <3>1
  <2>. QED
    BY <1>1, <2>1, <2>2, LenProperties
<1>. HIDE DEF L
<1>3. \A i \in 1..Len(native) : Rises(L[i], native[i])
  BY <1>1, <1>2 DEF Folds
<1>4. \A i \in (Len(native) + 1)..Len(L) : \E z \in open : Rises(L[i], z)
  BY <1>1, <1>2 DEF Folds
<1>5. ASSUME NEW x \in done
      PROVE  \E i \in 1..Len(L) : StandsAt(L, i, x, native, F)
  <2>1. PICK i \in 1..Len(K) : StandsAt(K, i, x, native, F)
    BY DEF Folds
  <2>2. CASE i # m
    BY <1>2, <2>1, <2>2 DEF StandsAt
  <2>3. CASE i = m
    <3>1. K[m] \in X
      BY <1>1, ElementOfSeq
    <3>2. /\ K[m].line \in Nat /\ e.line \in Nat /\ x.line \in Nat
          /\ K[m].severity \in Int /\ e.severity \in Int /\ x.severity \in Int
      BY <3>1 DEF Solid, Severities, Info, Critical
    <3>3. Linked(x, e, F)
      BY <2>1, <2>3, <3>2, LinkedJoin DEF StandsAt
    <3>4. e.severity >= x.severity
      BY <2>1, <2>3, <3>2 DEF StandsAt
    <3>. QED
      BY <1>2, <2>1, <2>3, <3>3, <3>4 DEF StandsAt
  <2>. QED
    BY <2>2, <2>3
<1>6. Len(L) >= Len(native)
  BY <1>2 DEF Folds
<1>7. Folds(L, native, open, done, F)
  BY <1>3, <1>4, <1>5, <1>6 DEF Folds
<1>. QED
  BY <1>7 DEF L

LEMMA FoldStep ==
    ASSUME NEW native, Len(native) \in Nat, NEW F, NEW open \in SUBSET F, NEW done \in SUBSET open,
           \A i \in 1..Len(native) : native[i] \in F \/ native[i].cwe = NoCwe,
           \A x \in open : Solid(x),
           NEW X, \A x \in X : Solid(x), NEW K \in Seq(X), Folds(K, native, open, done, F),
           NEW f \in open, f \in X
    PROVE  Folds(FoldInto(Len(native), K, f), native, open, done \cup {f}, F)
<1>. DEFINE n == Len(native)
<1>1. DOMAIN K = 1..Len(K) /\ Len(K) \in Nat
  BY LenProperties
<1>2. Rises(f, f) /\ Solid(f) /\ f \in F
  BY DEF Rises, SamePlace, Solid, Severities, Info, Critical
<1>3. CASE FoldInto(n, K, f) = Append(K, f)
  <2>. DEFINE L == Append(K, f)
  <2>1. Len(L) = Len(K) + 1 /\ L[Len(K) + 1] = f /\ \A i \in 1..Len(K) : L[i] = K[i]
    BY AppendProperties
  <2>. HIDE DEF L
  <2>2. Len(L) >= n /\ \A i \in 1..n : Rises(L[i], native[i])
    BY <1>1, <2>1 DEF Folds
  <2>3. \A i \in (n + 1)..Len(L) : \E z \in open : Rises(L[i], z)
    <3>1. \A i \in (n + 1)..Len(L) : i = Len(K) + 1 \/ i \in (n + 1)..Len(K)
      BY <1>1, <2>1
    <3>2. \A i \in (n + 1)..Len(K) : i \in 1..Len(K)
      BY <1>1
    <3>. QED
      BY <1>2, <2>1, <3>1, <3>2 DEF Folds
  <2>4. Linked(f, f, F) /\ f.severity >= f.severity
    BY <1>2, LinkedSelf DEF OnePlace, Solid, Severities, Info, Critical
  <2>5. \A x \in done : \E i \in 1..Len(L) : StandsAt(L, i, x, native, F)
    <3>1. \A i \in 1..Len(K) : i \in 1..Len(L)
      BY <1>1, <2>1
    <3>. QED
      BY <2>1, <3>1 DEF Folds, StandsAt
  <2>6. Len(K) + 1 \in 1..Len(L) /\ Len(K) + 1 \notin 1..n
    BY <1>1, <2>1 DEF Folds
  <2>7. StandsAt(L, Len(K) + 1, f, native, F)
    BY <2>1, <2>4, <2>6 DEF StandsAt
  <2>8. Folds(L, native, open, done \cup {f}, F)
    BY <2>2, <2>3, <2>5, <2>6, <2>7 DEF Folds
  <2>. QED
    BY <1>3, <2>8 DEF L
<1>4. CASE FoldInto(n, K, f) # Append(K, f)
  <2>. DEFINE e(i) == IF i > n /\ Stronger(f, K[i]) THEN Recorded(f, K[i]) ELSE Recorded(K[i], f)
  <2>1. PICK m \in 1..Len(K) : SameIssue(K[m], f) /\ FoldInto(n, K, f) = [K EXCEPT ![m] = e(m)]
    BY <1>4, FoldIntoIs
  <2>2. K[m] \in X /\ Solid(K[m])
    BY <1>1, ElementOfSeq
  <2>3. PICK y \in F : /\ Rises(K[m], y)
                       /\ m \in 1..n => y = native[m]
                       /\ m \notin 1..n => y \in open
    <3>1. CASE m \in 1..n
      <4>1. Rises(K[m], native[m])
        BY <3>1 DEF Folds
      <4>2. K[m].cwe # NoCwe
        BY <2>1 DEF SameIssue
      <4>3. native[m].cwe # NoCwe
        BY <4>1, <4>2 DEF Rises, SamePlace
      <4>. QED
        BY <3>1, <4>1, <4>3
    <3>2. CASE m \notin 1..n
      <4>1. m \in (n + 1)..Len(K)
        BY <1>1, <3>2
      <4>. QED
        BY <3>2, <4>1 DEF Folds
    <3>. QED
      BY <3>1, <3>2
  <2>4. Linked(f, K[m], F) /\ Linked(K[m], f, F)
    BY <1>2, <2>1, <2>3, OneIssue
  <2>5. /\ Solid(e(m)) /\ Linked(K[m], e(m), F) /\ Linked(f, e(m), F)
        /\ e(m).severity >= K[m].severity /\ e(m).severity >= f.severity
        /\ Rises(e(m), y) \/ (m \notin 1..n /\ Rises(e(m), f))
    <3>. DEFINE d == e(m)
    <3>0. OnePlace(K[m], K[m]) /\ OnePlace(f, f)
      BY DEF OnePlace
    <3>1. CASE m > n /\ Stronger(f, K[m])
      <4>1. d = Recorded(f, K[m])
        BY <3>1
      <4>. HIDE DEF d
      <4>2. /\ Rises(d, f) /\ d.severity >= K[m].severity /\ d.severity >= f.severity
        BY <1>2, <2>2, <4>1, RecordedIs
      <4>3. OnePlace(f, d) /\ Solid(d)
        BY <4>2 DEF Rises, SamePlace, OnePlace
      <4>4. Linked(K[m], d, F)
        BY <2>4, <3>0, <4>3, LinkedSame
      <4>5. Linked(f, d, F)
        BY <1>2, <4>3, LinkedSelf DEF Solid
      <4>6. m \notin 1..n
        BY <1>1, <3>1
      <4>. QED
        BY <4>2, <4>3, <4>4, <4>5, <4>6 DEF d
    <3>2. CASE ~(m > n /\ Stronger(f, K[m]))
      <4>1. d = Recorded(K[m], f)
        BY <3>2
      <4>. HIDE DEF d
      <4>2. /\ Rises(d, y) /\ d.severity >= K[m].severity /\ d.severity >= f.severity
        BY <1>2, <2>3, <4>1, RecordedIs
      <4>3. OnePlace(K[m], d) /\ Solid(d)
        BY <2>3, <4>2 DEF Rises, SamePlace, OnePlace
      <4>4. Linked(f, d, F)
        BY <2>4, <3>0, <4>3, LinkedSame
      <4>5. Linked(K[m], d, F)
        BY <2>2, <4>3, LinkedSelf DEF Solid
      <4>. QED
        BY <4>2, <4>3, <4>4, <4>5 DEF d
    <3>. QED
      BY <3>1, <3>2
  <2>. DEFINE d == e(m)  L == [K EXCEPT ![m] = d]
  <2>6. FoldInto(n, K, f) = L
    BY <2>1
  <2>7. \A x \in done : x.line \in Nat /\ x.severity \in Severities
    BY DEF Solid
  <2>. HIDE DEF d
  <2>8. m \in 1..n => Rises(d, native[m])
    BY <2>3, <2>5 DEF d
  <2>9. m \notin 1..n => \E z \in open : Rises(d, z)
    BY <2>3, <2>5 DEF d
  <2>10. Folds(L, native, open, done, F)
    BY <2>5, <2>7, <2>8, <2>9, PlaceChanged DEF d
  <2>11. m \in 1..Len(L) /\ L[m] = d
    <3>1. DOMAIN L = 1..Len(K) /\ L[m] = d
      BY <1>1
    <3>2. L \in Seq(X \cup {d})
      <4>1. \A i \in 1..Len(K) : L[i] \in X \cup {d}
        BY <1>1, ElementOfSeq
      <4>. QED
        BY <1>1, <3>1, <4>1
    <3>. QED
      BY <1>1, <3>1, <3>2, LenProperties
  <2>. HIDE DEF L
  <2>12. StandsAt(L, m, f, native, F)
    BY <2>3, <2>5, <2>11 DEF d, StandsAt
  <2>. QED
    BY <2>6, <2>10, <2>11, <2>12 DEF Folds
<1>. QED
  BY <1>3, <1>4

Risen(A) == A \cup {[f EXCEPT !.severity = s] : f \in A, s \in Severities}

LEMMA RisenSolid ==
    ASSUME NEW A, \A x \in A : Solid(x), NEW g \in Risen(A)
    PROVE  Solid(g)
BY SeverityGiven DEF Risen

LEMMA RisenAgain ==
    ASSUME NEW A, \A x \in A : Solid(x), NEW g \in Risen(A), NEW h, Solid(h)
    PROVE  Recorded(g, h) \in Risen(A)
<1>. DEFINE s == Greatest(g.severity, h.severity)
<1>1. s \in Severities
  BY RisenSolid DEF Solid, Greatest, Severities, Info, Critical
<1>2. Recorded(g, h) = [g EXCEPT !.severity = s]
  BY DEF Recorded
<1>. HIDE DEF s
<1>3. CASE g \in A
  BY <1>1, <1>2, <1>3 DEF Risen
<1>4. CASE g \notin A
  <2>1. PICK f \in A, r \in Severities : g = [f EXCEPT !.severity = r]
    BY <1>4 DEF Risen
  <2>2. [g EXCEPT !.severity = s] = [f EXCEPT !.severity = s]
    BY <2>1 DEF Solid, Fields
  <2>. QED
    BY <1>1, <1>2, <2>2 DEF Risen
<1>. QED
  BY <1>3, <1>4

LEMMA FoldIntoStays ==
    ASSUME NEW A, \A x \in A : Solid(x), NEW K \in Seq(Risen(A)), NEW f \in A, NEW n
    PROVE  FoldInto(n, K, f) \in Seq(Risen(A))
<1>. DEFINE X == Risen(A)
            e(i) == IF i > n /\ Stronger(f, K[i]) THEN Recorded(f, K[i]) ELSE Recorded(K[i], f)
<1>1. f \in X /\ \A x \in X : Solid(x)
  <2>1. f \in X
    BY DEF Risen
  <2>. QED
    BY <2>1, RisenSolid
<1>2. DOMAIN K = 1..Len(K) /\ Len(K) \in Nat /\ \A i \in 1..Len(K) : K[i] \in X
  BY LenProperties, ElementOfSeq
<1>3. CASE FoldInto(n, K, f) = Append(K, f)
  <2>. HIDE DEF X
  <2>1. Append(K, f) \in Seq(X)
    BY <1>1, AppendProperties DEF X
  <2>. QED
    BY <1>3, <2>1 DEF X
<1>4. ASSUME NEW m \in 1..Len(K), FoldInto(n, K, f) = [K EXCEPT ![m] = e(m)]
      PROVE  FoldInto(n, K, f) \in Seq(X)
  <2>1. e(m) \in X
    BY <1>1, <1>2, RisenAgain
  <2>. DEFINE L == [K EXCEPT ![m] = e(m)]
  <2>2. DOMAIN L = 1..Len(K) /\ \A i \in 1..Len(K) : L[i] \in X
    <3>. HIDE DEF X
    <3>. QED
      BY <1>2, <2>1
  <2>3. L = [i \in 1..Len(K) |-> L[i]]
    BY <1>2
  <2>. HIDE DEF L, X
  <2>4. L \in Seq(X)
    BY <1>2, <2>2, <2>3
  <2>. QED
    BY <1>4, <2>4 DEF L
<1>. HIDE DEF X
<1>5. \/ FoldInto(n, K, f) = Append(K, f)
      \/ \E m \in 1..Len(K) : FoldInto(n, K, f) = [K EXCEPT ![m] = e(m)]
  BY <1>1, FoldIntoIs DEF X
<1>. QED
  BY <1>3, <1>4, <1>5 DEF X

\* One step of the loop of MergeFindings.
MergedOf(g, k, native, imported, open) ==
    IF k = 0 THEN native
    ELSE IF imported[k] \in open THEN FoldInto(Len(native), g[k - 1], imported[k])
    ELSE g[k - 1]

IsMerged(g, native, imported, open) ==
    g = [k \in 0..Len(imported) |-> MergedOf(g, k, native, imported, open)]

LEMMA MergedExists ==
    ASSUME NEW A, \A x \in A : Solid(x), NEW native \in Seq(A), NEW imported \in Seq(A), NEW open
    PROVE  \E g : IsMerged(g, native, imported, open)
<1>. DEFINE D == Seq(Risen(A))
            n == Len(imported)
            Step(k, K) == IF imported[k] \in open THEN FoldInto(Len(native), K, imported[k]) ELSE K
            step == [k \in 1..n |-> [K \in D |-> Step(k, K)]]
<1>1. n \in Nat /\ \A k \in 1..n : imported[k] \in A
  BY LenProperties, ElementOfSeq
<1>2. step \in [1..n -> [D -> D]]
  <2>1. \A k \in 1..n, K \in D : Step(k, K) \in D
    BY <1>1, FoldIntoStays
  <2>. HIDE DEF Step, D
  <2>. QED
    BY <2>1
<1>3. native \in D
  <2>1. A \subseteq Risen(A)
    BY DEF Risen
  <2>. QED
    BY <2>1
<1>. HIDE DEF D, n, step, Step
<1>4. PICK g : IsLoop(g, n, D, native, step)
  BY <1>1, <1>2, <1>3, LoopExists
<1>5. ASSUME NEW k \in 0..n
      PROVE  g[k] = MergedOf(g, k, native, imported, open)
  <2>1. CASE k = 0
    BY <1>4, <2>1 DEF IsLoop, MergedOf
  <2>2. CASE k # 0
    <3>1. k \in 1..n /\ k - 1 \in 0..n
      BY <1>1, <2>2
    <3>2. g[k] = step[k][g[k - 1]] /\ g[k - 1] \in D
      BY <1>4, <3>1 DEF IsLoop
    <3>3. step[k][g[k - 1]] = Step(k, g[k - 1])
      BY <3>1, <3>2 DEF step
    <3>. QED
      BY <2>2, <3>2, <3>3 DEF MergedOf, Step
  <2>. QED
    BY <2>1, <2>2
<1>6. g = [k \in 0..n |-> MergedOf(g, k, native, imported, open)]
  BY <1>4, <1>5 DEF IsLoop
<1>. QED
  BY <1>6 DEF IsMerged, n

\* Merging keeps the native findings in their places, and an imported finding that is
\* open in a place that is linked to it and as severe.
LEMMA MergeStandsForAll ==
    ASSUME NEW A, \A x \in A : Solid(x), NEW native \in Seq(A), NEW imported \in Seq(A),
           NEW F, NEW open \in SUBSET F, open \subseteq ToSet(imported),
           \A i \in 1..Len(native) : native[i] \in F \/ native[i].cwe = NoCwe
    PROVE  /\ MergeFindings(native, imported, open) \in Seq(Risen(A))
           /\ Folds(MergeFindings(native, imported, open), native, open, open, F)
<1>. DEFINE kept == CHOOSE g : IsMerged(g, native, imported, open)
            n == Len(imported)
            Done(k) == {x \in open : \E i \in 1..k : imported[i] = x}
            Fine(k) == kept[k] \in Seq(Risen(A)) /\ Folds(kept[k], native, open, Done(k), F)
            P == {k \in 0..n : Fine(k)}
<1>1. kept = [k \in 0..n |-> MergedOf(kept, k, native, imported, open)]
  <2>1. IsMerged(kept, native, imported, open)
    BY MergedExists
  <2>. QED
    BY <2>1 DEF IsMerged
<1>2. MergeFindings(native, imported, open) = kept[n]
  BY DEF MergeFindings, MergedOf, IsMerged
<1>. HIDE DEF kept
<1>3. /\ n \in Nat /\ \A k \in 1..n : imported[k] \in A
      /\ DOMAIN imported = 1..n /\ Len(native) \in Nat /\ \A i \in 1..Len(native) : native[i] \in A
  BY LenProperties, ElementOfSeq
<1>4. \A x \in open : x \in A /\ Solid(x)
  BY <1>3 DEF ToSet
<1>5. \A x \in Risen(A) : Solid(x)
  BY RisenSolid
<1>6. A \subseteq Risen(A)
  BY DEF Risen
<1>7. 0 \in P
  <2>1. kept[0] = native
    BY <1>1, <1>3 DEF MergedOf
  <2>2. native \in Seq(Risen(A))
    BY <1>6
  <2>3. \A i \in 1..Len(native) : Rises(native[i], native[i])
    BY <1>3 DEF Rises, SamePlace, Solid, Severities, Info, Critical
  <2>4. Done(0) = {} /\ (Len(native) + 1)..Len(native) = {}
    BY <1>3
  <2>5. Folds(native, native, open, Done(0), F)
    BY <1>3, <2>3, <2>4 DEF Folds
  <2>6. Fine(0)
    BY <2>1, <2>2, <2>5
  <2>7. 0 \in 0..n
    BY <1>3
  <2>. HIDE DEF Fine
  <2>. QED
    BY <2>6, <2>7
<1>8. ASSUME NEW k \in 1..n, k - 1 \in P
      PROVE  k \in P
  <2>. DEFINE K == kept[k - 1]  f == imported[k]
  <2>1. K \in Seq(Risen(A)) /\ Folds(K, native, open, Done(k - 1), F)
    BY <1>8
  <2>2. kept[k] = IF f \in open THEN FoldInto(Len(native), K, f) ELSE K
    <3>1. k \in 0..n /\ k # 0
      BY <1>3
    <3>2. kept[k] = MergedOf(kept, k, native, imported, open)
      BY <1>1, <3>1
    <3>. QED
      BY <3>1, <3>2 DEF MergedOf
  <2>3. \A x \in open : (\E i \in 1..k : imported[i] = x) <=> ((\E i \in 1..(k - 1) : imported[i] = x) \/ x = f)
    <3>1. \A i \in 1..k : i = k \/ i \in 1..(k - 1)
      BY <1>3
    <3>2. \A i \in 1..(k - 1) : i \in 1..k
      BY <1>3
    <3>3. k \in 1..k
      BY <1>3
    <3>. QED
      BY <3>1, <3>2, <3>3
  <2>4. Done(k) = IF f \in open THEN Done(k - 1) \cup {f} ELSE Done(k - 1)
    BY <2>3
  <2>5. Done(k - 1) \in SUBSET open
    OBVIOUS
  <2>. HIDE DEF K, f, Done
  <2>6. ASSUME f \in open
        PROVE  Fine(k)
    <3>1. f \in A /\ f \in Risen(A)
      BY <1>4, <1>6, <2>6
    <3>2. FoldInto(Len(native), K, f) \in Seq(Risen(A))
      BY <2>1, <3>1, FoldIntoStays
    <3>. DEFINE X == Risen(A)
    <3>. HIDE DEF X
    <3>4. K \in Seq(X) /\ f \in X /\ \A x \in X : Solid(x)
      BY <1>5, <2>1, <3>1 DEF X
    <3>3. Folds(FoldInto(Len(native), K, f), native, open, Done(k - 1) \cup {f}, F)
      BY <1>3, <1>4, <2>1, <2>5, <2>6, <3>4, FoldStep
    <3>5. kept[k] = FoldInto(Len(native), K, f) /\ Done(k) = Done(k - 1) \cup {f}
      BY <2>2, <2>4, <2>6
    <3>. QED
      BY <3>2, <3>3, <3>5
  <2>7. ASSUME f \notin open
        PROVE  Fine(k)
    BY <2>1, <2>2, <2>4, <2>7
  <2>8. k \in 0..n
    BY <1>3
  <2>9. Fine(k)
    BY <2>6, <2>7
  <2>. HIDE DEF Fine
  <2>. QED
    BY <2>8, <2>9
<1>. HIDE DEF P, n
<1>9. \A k \in 0..n : k \in P
  BY <1>3, <1>7, <1>8, Along
<1>10. n \in P
  BY <1>3, <1>9
<1>11. Done(n) = open
  BY <1>3 DEF ToSet
<1>. QED
  BY <1>2, <1>10, <1>11 DEF P, n

-----------------------------------------------------------------------------
(***************************************************************************)
(* Paths of imported findings: none leaves the project.                    *)
(***************************************************************************)
LEMMA FrontStays ==
    ASSUME NEW S, NEW s \in Seq(S), s # <<>>
    PROVE  Front(s) \in Seq(S)
<1>1. Len(s) \in Nat /\ Len(s) # 0 /\ DOMAIN s = 1..Len(s)
  BY LenProperties, EmptySeq
<1>2. Front(s) = [i \in 1..(Len(s) - 1) |-> s[i]]
  BY <1>1 DEF Front
<1>3. \A i \in 1..(Len(s) - 1) : s[i] \in S
  BY <1>1, ElementOfSeq
<1>4. [i \in 1..(Len(s) - 1) |-> s[i]] \in Seq(S)
  BY <1>1, <1>3
<1>. QED
  BY <1>2, <1>4

\* One step of the loop of CleanRelative.
WalkedOf(g, k, path) == IF k = 0 THEN <<>> ELSE Walk(g[k - 1], path[k])

IsWalked(g, path) == g = [k \in 0..Len(path) |-> WalkedOf(g, k, path)]

LEMMA WalkIs ==
    ASSUME NEW at, NEW segment
    PROVE  /\ at = Unsafe => Walk(at, segment) = Unsafe
           /\ at # Unsafe /\ segment # Up => Walk(at, segment) = Append(at, segment)
           /\ at # Unsafe /\ segment = Up /\ at = <<>> => Walk(at, segment) = Unsafe
           /\ at # Unsafe /\ segment = Up /\ at # <<>> => Walk(at, segment) = Front(at)
BY DEF Walk

LEMMA WalkStays ==
    ASSUME NEW S, NEW at \in {Unsafe} \cup Seq(S \ {Up}), NEW segment \in S
    PROVE  Walk(at, segment) \in {Unsafe} \cup Seq(S \ {Up})
<1>1. CASE at # Unsafe /\ segment # Up
  <2>1. Walk(at, segment) = Append(at, segment)
    BY <1>1, WalkIs
  <2>. QED
    BY <1>1, <2>1, AppendProperties
<1>2. CASE at # Unsafe /\ segment = Up /\ at # <<>>
  <2>1. Walk(at, segment) = Front(at)
    BY <1>2, WalkIs
  <2>. QED
    BY <1>2, <2>1, FrontStays
<1>3. CASE at = Unsafe \/ (segment = Up /\ at = <<>>)
  BY <1>3, WalkIs
<1>. QED
  BY <1>1, <1>2, <1>3

LEMMA CleanRelativeIs ==
    ASSUME NEW S, NEW path \in Seq(S)
    PROVE  \/ CleanRelative(path) = Unsafe
           \/ CleanRelative(path) \in Seq(S \ {Up}) /\ CleanRelative(path) # <<>>
<1>. DEFINE n == Len(path)
            D == {Unsafe} \cup Seq(S \ {Up})
            step == [k \in 1..n |-> [at \in D |-> Walk(at, path[k])]]
            at == CHOOSE g : IsWalked(g, path)
<1>1. n \in Nat /\ \A k \in 1..n : path[k] \in S
  BY LenProperties, ElementOfSeq
<1>2. \A k \in 1..n, d \in D : Walk(d, path[k]) \in D
  BY <1>1, WalkStays
<1>3. <<>> \in D
  OBVIOUS
<1>4. step \in [1..n -> [D -> D]]
  <2>. HIDE DEF D
  <2>. QED
    BY <1>2
<1>. HIDE DEF n, D, step
<1>5. PICK g : IsLoop(g, n, D, <<>>, step)
  BY <1>1, <1>3, <1>4, LoopExists
<1>6. ASSUME NEW k \in 0..n
      PROVE  g[k] = WalkedOf(g, k, path)
  <2>1. CASE k = 0
    BY <1>5, <2>1 DEF IsLoop, WalkedOf
  <2>2. CASE k # 0
    <3>1. k \in 1..n /\ k - 1 \in 0..n
      BY <1>1, <2>2
    <3>2. g[k] = step[k][g[k - 1]] /\ g[k - 1] \in D
      BY <1>5, <3>1 DEF IsLoop
    <3>3. step[k][g[k - 1]] = Walk(g[k - 1], path[k])
      BY <3>1, <3>2 DEF step
    <3>. QED
      BY <2>2, <3>2, <3>3 DEF WalkedOf
  <2>. QED
    BY <2>1, <2>2
<1>7. IsWalked(g, path)
  <2>1. g = [k \in 0..n |-> WalkedOf(g, k, path)]
    BY <1>5, <1>6 DEF IsLoop
  <2>. QED
    BY <2>1 DEF IsWalked, n
<1>8. at = [k \in 0..n |-> WalkedOf(at, k, path)]
  <2>1. IsWalked(at, path)
    BY <1>7
  <2>. QED
    BY <2>1 DEF IsWalked, n
<1>9. CleanRelative(path) = IF at[n] = <<>> THEN Unsafe ELSE at[n]
  BY DEF CleanRelative, WalkedOf, IsWalked, n
<1>. HIDE DEF at
<1>. DEFINE P == {k \in 0..n : at[k] \in D}
<1>10. 0 \in P
  BY <1>1, <1>3, <1>8 DEF WalkedOf
<1>11. ASSUME NEW k \in 1..n, k - 1 \in P
       PROVE  k \in P
  <2>1. k \in 0..n /\ k # 0 /\ at[k - 1] \in D
    BY <1>1, <1>11
  <2>2. at[k] = Walk(at[k - 1], path[k])
    BY <1>8, <2>1 DEF WalkedOf
  <2>. QED
    BY <1>2, <2>1, <2>2
<1>. HIDE DEF P
<1>12. \A k \in 0..n : k \in P
  BY <1>1, <1>10, <1>11, Along
<1>13. at[n] \in D
  BY <1>1, <1>12 DEF P
<1>. QED
  BY <1>9, <1>13 DEF D

\* A path that stays in the project.
Within(path) == Up \notin ToSet(path) /\ path # <<>>

LEMMA CleanIsWithin ==
    ASSUME NEW S, NEW path \in Seq(S \ {Up}), path # <<>>
    PROVE  Within(path)
<1>1. \A i \in DOMAIN path : path[i] \in S \ {Up}
  BY LenProperties, ElementOfSeq
<1>. QED
  BY <1>1 DEF Within, ToSet

LEMMA InsideRootIs ==
    ASSUME NEW S, NEW path \in Seq(S)
    PROVE  InsideRoot(path) = Unsafe \/ Within(InsideRoot(path))
<1>. DEFINE clean == CleanRelative(path)
            below == SubSeq(clean, Len(Root) + 1, Len(clean))
<1>. SUFFICES ASSUME clean # Unsafe, Len(clean) > Len(Root)
              PROVE  Within(below)
  BY DEF InsideRoot
<1>1. clean \in Seq(S \ {Up})
  BY CleanRelativeIs
<1>2. Len(clean) \in Nat /\ Len(Root) \in Nat
  BY <1>1, RootAssumption, LenProperties DEF IsSeq
<1>. HIDE DEF clean
<1>3. below \in Seq(S \ {Up}) /\ Len(below) = Len(clean) - Len(Root)
  <2>1. Len(Root) + 1 \in 1..(Len(clean) + 1) /\ Len(clean) \in Len(Root)..Len(clean)
    BY <1>2
  <2>. QED
    BY <1>1, <1>2, <2>1, SubSeqProperties
<1>. HIDE DEF below
<1>4. below # <<>>
  <2>1. Len(below) # 0
    BY <1>2, <1>3
  <2>. QED
    BY <2>1, EmptySeq
<1>. QED
  BY <1>3, <1>4, CleanIsWithin

-----------------------------------------------------------------------------
\* What a base can be: not defined, outside, or a location with a path of segments.
Places(bases) ==
    LET Segments == UNION {ToSet(bases[id].path) : id \in DOMAIN bases}
    IN  [kind : {bases[id].kind : id \in DOMAIN bases}, path : Seq(Segments),
         base : {bases[id].base : id \in DOMAIN bases}]

\* One step of the loop of BaseOf.
ValueOf(g, n, bases) ==
    IF n = 0
    THEN [id \in DOMAIN bases |-> AtRoot]
    ELSE [id \in DOMAIN bases |-> Below(bases[id], Named(g[n - 1], bases[id].base))]

IsValue(g, bases) == g = [n \in 0..(MaxBaseChain + 1) |-> ValueOf(g, n, bases)]

LEMMA BelowIs ==
    ASSUME NEW bases, \A id \in DOMAIN bases : IsLocation(bases[id]), NEW id \in DOMAIN bases,
           NEW parent \in {AtRoot, Unsafe} \cup Places(bases)
    PROVE  Below(bases[id], parent) \in {AtRoot, Unsafe} \cup Places(bases)
<1>. DEFINE entry == bases[id]
            Segments == UNION {ToSet(bases[i].path) : i \in DOMAIN bases}
            Kinds == {bases[i].kind : i \in DOMAIN bases}
            Parents == {bases[i].base : i \in DOMAIN bases}
<1>1. Places(bases) = [kind : Kinds, path : Seq(Segments), base : Parents]
  BY DEF Places
<1>2. /\ entry = [kind |-> entry.kind, path |-> entry.path, base |-> entry.base]
      /\ entry.path \in Seq(ToSet(entry.path))
  BY DEF IsLocation, IsSeq
<1>3. entry.kind \in Kinds /\ entry.base \in Parents /\ ToSet(entry.path) \subseteq Segments
  OBVIOUS
<1>. HIDE DEF entry, Segments, Kinds, Parents
<1>4. entry.path \in Seq(Segments)
  BY <1>2, <1>3
<1>5. entry \in Places(bases)
  BY <1>1, <1>2, <1>3, <1>4
<1>6. CASE parent # AtRoot /\ parent # Unsafe
  <2>. DEFINE whole == parent.path \o entry.path
  <2>1. parent \in [kind : Kinds, path : Seq(Segments), base : Parents]
    BY <1>1, <1>6
  <2>2. whole \in Seq(Segments)
    BY <1>4, <2>1, ConcatProperties
  <2>. HIDE DEF whole
  <2>3. [parent EXCEPT !.path = whole] \in Places(bases)
    BY <1>1, <2>1, <2>2
  <2>4. Below(entry, parent) \in {Unsafe, AtRoot, entry, [parent EXCEPT !.path = whole]}
    BY <1>6 DEF Below, whole
  <2>. QED
    BY <1>5, <2>3, <2>4 DEF entry
<1>7. CASE parent = AtRoot \/ parent = Unsafe
  <2>1. Below(entry, parent) \in {Unsafe, AtRoot, entry}
    BY <1>7 DEF Below
  <2>. QED
    BY <1>5, <2>1 DEF entry
<1>. QED
  BY <1>6, <1>7

LEMMA BaseOfIs ==
    ASSUME NEW bases, \A id \in DOMAIN bases : IsLocation(bases[id]), NEW name
    PROVE  BaseOf(bases, name) \in {AtRoot, Unsafe} \cup Places(bases)
<1>. DEFINE n == MaxBaseChain + 1
            V == {AtRoot, Unsafe} \cup Places(bases)
            D == [DOMAIN bases -> V]
            Applied(d) == [id \in DOMAIN bases |-> Below(bases[id], Named(d, bases[id].base))]
            step == [k \in 1..n |-> [d \in D |-> Applied(d)]]
            a == [id \in DOMAIN bases |-> AtRoot]
            value == CHOOSE g : IsValue(g, bases)
<1>1. n \in Nat
  BY DEF MaxBaseChain
<1>2. \A d \in D : \A id : Named(d, id) \in V
  BY DEF Named
<1>3. ASSUME NEW d \in D
      PROVE  Applied(d) \in D
  <2>1. \A id \in DOMAIN bases : Below(bases[id], Named(d, bases[id].base)) \in V
    BY <1>2, BelowIs
  <2>. HIDE DEF V
  <2>. QED
    BY <2>1
<1>4. a \in D
  OBVIOUS
<1>5. step \in [1..n -> [D -> D]]
  <2>. HIDE DEF D, Applied
  <2>. QED
    BY <1>3
<1>. HIDE DEF n, V, D, Applied, step, a
<1>6. PICK g : IsLoop(g, n, D, a, step)
  BY <1>1, <1>4, <1>5, LoopExists
<1>7. ASSUME NEW k \in 0..n
      PROVE  g[k] = ValueOf(g, k, bases)
  <2>1. CASE k = 0
    BY <1>6, <2>1 DEF IsLoop, ValueOf, a
  <2>2. CASE k # 0
    <3>1. k \in 1..n /\ k - 1 \in 0..n
      BY <1>1, <2>2
    <3>2. g[k] = step[k][g[k - 1]] /\ g[k - 1] \in D
      BY <1>6, <3>1 DEF IsLoop
    <3>3. step[k][g[k - 1]] = Applied(g[k - 1])
      BY <3>1, <3>2 DEF step
    <3>. QED
      BY <2>2, <3>2, <3>3 DEF ValueOf, Applied
  <2>. QED
    BY <2>1, <2>2
<1>8. IsValue(g, bases)
  <2>1. g = [k \in 0..n |-> ValueOf(g, k, bases)]
    BY <1>6, <1>7 DEF IsLoop
  <2>. QED
    BY <2>1 DEF IsValue, n
<1>9. value = [k \in 0..n |-> ValueOf(value, k, bases)]
  <2>1. IsValue(value, bases)
    BY <1>8
  <2>. QED
    BY <2>1 DEF IsValue, n
<1>10. BaseOf(bases, name) = Named(value[n], name)
  BY DEF BaseOf, ValueOf, IsValue, n
<1>. HIDE DEF value
<1>. DEFINE P == {k \in 0..n : value[k] \in D}
<1>11. 0 \in P
  BY <1>1, <1>4, <1>9 DEF ValueOf, a
<1>12. ASSUME NEW k \in 1..n, k - 1 \in P
       PROVE  k \in P
  <2>1. k \in 0..n /\ k # 0 /\ value[k - 1] \in D
    BY <1>1, <1>12
  <2>2. value[k] = Applied(value[k - 1])
    BY <1>9, <2>1 DEF ValueOf, Applied
  <2>. QED
    BY <1>3, <2>1, <2>2
<1>. HIDE DEF P
<1>13. \A k \in 0..n : k \in P
  BY <1>1, <1>11, <1>12, Along
<1>14. value[n] \in D
  BY <1>1, <1>13 DEF P
<1>. QED
  BY <1>2, <1>10, <1>14 DEF V

\* Wherever a location points, it is refused or it is below the root.
LEMMA ResolveIs ==
    ASSUME NEW bases, \A id \in DOMAIN bases : IsLocation(bases[id]), NEW l, IsLocation(l)
    PROVE  Resolve(bases, l) = Unsafe \/ Within(Resolve(bases, l))
<1>. DEFINE S == ToSet(l.path)
            relative == CleanRelative(l.path)
            base == BaseOf(bases, l.base)
            joined == base.path \o relative
            Segments == UNION {ToSet(bases[id].path) : id \in DOMAIN bases}
<1>1. l.path \in Seq(S)
  BY DEF IsLocation, IsSeq
<1>2. relative = Unsafe \/ (relative \in Seq(S \ {Up}) /\ relative # <<>> /\ Within(relative))
  BY <1>1, CleanRelativeIs, CleanIsWithin
<1>3. InsideRoot(l.path) = Unsafe \/ Within(InsideRoot(l.path))
  BY <1>1, InsideRootIs
<1>4. l.kind = "external" => Within(l.path)
  BY DEF IsLocation, Within
<1>5. ASSUME relative # Unsafe, base # Unsafe, base # AtRoot
      PROVE  joined \in Seq(S \cup Segments)
  <2>1. base \in Places(bases)
    BY <1>5, BaseOfIs
  <2>2. base.path \in Seq(Segments)
    BY <2>1 DEF Places
  <2>. HIDE DEF base, relative, S, Segments
  <2>3. base.path \in Seq(S \cup Segments) /\ relative \in Seq(S \cup Segments)
    BY <1>2, <1>5, <2>2
  <2>. QED
    BY <2>3, ConcatProperties
<1>6. ASSUME relative # Unsafe, base # Unsafe, base # AtRoot
      PROVE  /\ CleanRelative(joined) = Unsafe \/ Within(CleanRelative(joined))
             /\ InsideRoot(joined) = Unsafe \/ Within(InsideRoot(joined))
  <2>1. joined \in Seq(S \cup Segments)
    BY <1>5, <1>6
  <2>. HIDE DEF joined, S, Segments
  <2>. QED
    BY <2>1, CleanRelativeIs, CleanIsWithin, InsideRootIs
<1>. HIDE DEF S, Segments
<1>. HIDE DEF relative, base
<1>7. CASE l.kind \in {"external", "absolute"}
  BY <1>3, <1>4, <1>7 DEF Resolve
<1>8. CASE l.kind \notin {"external", "absolute"}
  <2>1. Resolve(bases, l) =
          IF l.kind = "refused" \/ relative = Unsafe \/ base = Unsafe THEN Unsafe
          ELSE IF base = AtRoot THEN relative
          ELSE IF base.kind = "relative" THEN CleanRelative(joined)
          ELSE IF InsideRoot(joined) # Unsafe THEN InsideRoot(joined)
          ELSE relative
    BY <1>8 DEF Resolve, relative, base
  <2>. HIDE DEF joined
  <2>. QED
    BY <1>2, <1>6, <2>1
<1>. QED
  BY <1>7, <1>8

-----------------------------------------------------------------------------
(***************************************************************************)
(* The import of files: every result is a finding, is left out, or repeats *)
(* a finding.                                                              *)
(***************************************************************************)
\* The findings that a run, a file and some files can give.
OfRun(run) == {Imported(run, r) : r \in {x \in ToSet(run.results) : Kept(run, x)}}

OfFile(file) == UNION {OfRun(run) : run \in ToSet(file.runs)}

OfFiles(files) == UNION {OfFile(file) : file \in ToSet(files)}

LEMMA SeqElements ==
    ASSUME NEW s, IsSeq(s)
    PROVE  /\ Len(s) \in Nat /\ DOMAIN s = 1..Len(s)
           /\ \A i \in 1..Len(s) : s[i] \in ToSet(s)
<1>1. s \in Seq(ToSet(s))
  BY DEF IsSeq
<1>. QED
  BY <1>1, LenProperties, ElementOfSeq

LEMMA TakeStays ==
    ASSUME NEW run, NEW r \in ToSet(run.results), NEW K \in Seq(OfRun(run))
    PROVE  /\ Take(K, run, r) \in Seq(OfRun(run))
           /\ Len(Take(K, run, r)) = Len(K) + (IF Kept(run, r) THEN 1 ELSE 0)
<1>1. CASE Kept(run, r)
  <2>1. Imported(run, r) \in OfRun(run)
    BY <1>1 DEF OfRun
  <2>. QED
    BY <1>1, <2>1, AppendProperties DEF Take
<1>2. CASE ~Kept(run, r)
  <2>1. Len(K) \in Nat
    BY LenProperties
  <2>. QED
    BY <1>2, <2>1 DEF Take
<1>. QED
  BY <1>1, <1>2

\* One step of the loop of RunFindings.
TakenOf(g, k, run) == IF k = 0 THEN <<>> ELSE Take(g[k - 1], run, run.results[k])

IsTaken(g, run) == g = [k \in 0..Len(run.results) |-> TakenOf(g, k, run)]

LEMMA RunFindingsAre ==
    ASSUME NEW run, IsSeq(run.results)
    PROVE  \E g : /\ IsTaken(g, run) /\ RunFindings(run) = g[Len(run.results)]
                  /\ \A k \in 0..Len(run.results) : g[k] \in Seq(OfRun(run))
<1>. DEFINE n == Len(run.results)
            X == OfRun(run)
            D == Seq(X)
            step == [k \in 1..n |-> [K \in D |-> Take(K, run, run.results[k])]]
            taken == CHOOSE g : IsTaken(g, run)
<1>1. n \in Nat /\ \A k \in 1..n : run.results[k] \in ToSet(run.results)
  BY SeqElements
<1>2. \A k \in 1..n, K \in D : Take(K, run, run.results[k]) \in D
  BY <1>1, TakeStays
<1>3. <<>> \in D
  OBVIOUS
<1>4. step \in [1..n -> [D -> D]]
  <2>. HIDE DEF D
  <2>. QED
    BY <1>2
<1>. HIDE DEF n, D, step
<1>5. PICK g : IsLoop(g, n, D, <<>>, step)
  BY <1>1, <1>3, <1>4, LoopExists
<1>6. ASSUME NEW k \in 0..n
      PROVE  g[k] = TakenOf(g, k, run)
  <2>1. CASE k = 0
    BY <1>5, <2>1 DEF IsLoop, TakenOf
  <2>2. CASE k # 0
    <3>1. k \in 1..n /\ k - 1 \in 0..n
      BY <1>1, <2>2
    <3>2. g[k] = step[k][g[k - 1]] /\ g[k - 1] \in D
      BY <1>5, <3>1 DEF IsLoop
    <3>3. step[k][g[k - 1]] = Take(g[k - 1], run, run.results[k])
      BY <3>1, <3>2 DEF step
    <3>. QED
      BY <2>2, <3>2, <3>3 DEF TakenOf
  <2>. QED
    BY <2>1, <2>2
<1>7. IsTaken(g, run)
  <2>1. g = [k \in 0..n |-> TakenOf(g, k, run)]
    BY <1>5, <1>6 DEF IsLoop
  <2>. QED
    BY <2>1 DEF IsTaken, n
<1>8. IsTaken(taken, run)
  BY <1>7
<1>9. taken = [k \in 0..n |-> TakenOf(taken, k, run)]
  BY <1>8 DEF IsTaken, n
<1>10. RunFindings(run) = taken[n]
  BY DEF RunFindings, TakenOf, IsTaken, n
<1>. HIDE DEF taken
<1>. DEFINE P == {k \in 0..n : taken[k] \in D}
<1>11. 0 \in P
  BY <1>1, <1>3, <1>9 DEF TakenOf
<1>12. ASSUME NEW k \in 1..n, k - 1 \in P
       PROVE  k \in P
  <2>1. k \in 0..n /\ k # 0 /\ taken[k - 1] \in D
    BY <1>1, <1>12
  <2>2. taken[k] = Take(taken[k - 1], run, run.results[k])
    BY <1>9, <2>1 DEF TakenOf
  <2>. QED
    BY <1>2, <2>1, <2>2
<1>. HIDE DEF P
<1>13. \A k \in 0..n : k \in P
  BY <1>1, <1>11, <1>12, Along
<1>14. \A k \in 0..n : taken[k] \in D
  BY <1>13 DEF P
<1>. QED
  BY <1>8, <1>10, <1>14 DEF n, D

IsFile(file) == IsSeq(file.runs) /\ \A run \in ToSet(file.runs) : IsSeq(run.results)

\* One step of the loops of FileFindings and ResultCount.
TotalOf(g, i, file) == IF i = 0 THEN <<>> ELSE g[i - 1] \o RunFindings(file.runs[i])

IsTotal(g, file) == g = [i \in 0..Len(file.runs) |-> TotalOf(g, i, file)]

CountOf(g, i, file) == IF i = 0 THEN 0 ELSE g[i - 1] + Len(file.runs[i].results)

IsCount(g, file) == g = [i \in 0..Len(file.runs) |-> CountOf(g, i, file)]

LEMMA FileFindingsAre ==
    ASSUME NEW file, IsFile(file)
    PROVE  \E g : /\ IsTotal(g, file) /\ FileFindings(file) = g[Len(file.runs)]
                  /\ \A i \in 0..Len(file.runs) : g[i] \in Seq(OfFile(file))
<1>. DEFINE n == Len(file.runs)
            D == Seq(OfFile(file))
            new(k) == RunFindings(file.runs[k])
            step == [k \in 1..n |-> [K \in D |-> K \o new(k)]]
            total == CHOOSE g : IsTotal(g, file)
<1>1. n \in Nat /\ \A k \in 1..n : file.runs[k] \in ToSet(file.runs)
  BY SeqElements DEF IsFile
<1>2. ASSUME NEW k \in 1..n
      PROVE  new(k) \in D
  <2>. DEFINE run == file.runs[k]
  <2>1. run \in ToSet(file.runs) /\ IsSeq(run.results)
    BY <1>1 DEF IsFile
  <2>2. OfRun(run) \subseteq OfFile(file)
    BY <2>1 DEF OfFile
  <2>. HIDE DEF run
  <2>3. Len(run.results) \in 0..Len(run.results)
    BY <2>1, SeqElements
  <2>4. RunFindings(run) \in Seq(OfRun(run))
    BY <2>1, <2>3, RunFindingsAre
  <2>. QED
    BY <2>2, <2>4 DEF run
<1>3. \A k \in 1..n, K \in D : K \o new(k) \in D
  BY <1>2, ConcatProperties
<1>4. <<>> \in D
  OBVIOUS
<1>. HIDE DEF n, D, new
<1>5. step \in [1..n -> [D -> D]]
  BY <1>3
<1>. HIDE DEF step
<1>6. PICK g : IsLoop(g, n, D, <<>>, step)
  BY <1>1, <1>4, <1>5, LoopExists
<1>7. ASSUME NEW k \in 0..n
      PROVE  g[k] = TotalOf(g, k, file)
  <2>1. CASE k = 0
    BY <1>6, <2>1 DEF IsLoop, TotalOf
  <2>2. CASE k # 0
    <3>1. k \in 1..n /\ k - 1 \in 0..n
      BY <1>1, <2>2
    <3>2. g[k] = step[k][g[k - 1]] /\ g[k - 1] \in D
      BY <1>6, <3>1 DEF IsLoop
    <3>3. step[k][g[k - 1]] = g[k - 1] \o new(k)
      BY <3>1, <3>2 DEF step
    <3>. QED
      BY <2>2, <3>2, <3>3 DEF TotalOf, new
  <2>. QED
    BY <2>1, <2>2
<1>8. IsTotal(g, file)
  <2>1. g = [k \in 0..n |-> TotalOf(g, k, file)]
    BY <1>6, <1>7 DEF IsLoop
  <2>. QED
    BY <2>1 DEF IsTotal, n
<1>9. IsTotal(total, file)
  BY <1>8
<1>10. total = [k \in 0..n |-> TotalOf(total, k, file)]
  BY <1>9 DEF IsTotal, n
<1>11. FileFindings(file) = total[n]
  BY DEF FileFindings, TotalOf, IsTotal, n
<1>. HIDE DEF total
<1>. DEFINE P == {k \in 0..n : total[k] \in D}
<1>12. 0 \in P
  BY <1>1, <1>4, <1>10 DEF TotalOf
<1>13. ASSUME NEW k \in 1..n, k - 1 \in P
       PROVE  k \in P
  <2>1. k \in 0..n /\ k # 0 /\ total[k - 1] \in D
    BY <1>1, <1>13
  <2>2. total[k] = total[k - 1] \o new(k)
    BY <1>10, <2>1 DEF TotalOf, new
  <2>. QED
    BY <1>3, <2>1, <2>2
<1>. HIDE DEF P
<1>14. \A k \in 0..n : k \in P
  BY <1>1, <1>12, <1>13, Along
<1>15. \A k \in 0..n : total[k] \in D
  BY <1>14 DEF P
<1>. QED
  BY <1>9, <1>11, <1>15 DEF n, D

LEMMA ResultCountIs ==
    ASSUME NEW file, IsFile(file)
    PROVE  \E g : IsCount(g, file) /\ ResultCount(file) = g[Len(file.runs)]
<1>. DEFINE n == Len(file.runs)
            new(k) == Len(file.runs[k].results)
            step == [k \in 1..n |-> [c \in Nat |-> c + new(k)]]
            count == CHOOSE g : IsCount(g, file)
<1>1. n \in Nat /\ \A k \in 1..n : file.runs[k] \in ToSet(file.runs)
  BY SeqElements DEF IsFile
<1>2. \A k \in 1..n : new(k) \in Nat
  BY <1>1, SeqElements DEF IsFile
<1>. HIDE DEF n, new
<1>3. step \in [1..n -> [Nat -> Nat]]
  BY <1>2
<1>. HIDE DEF step
<1>4. PICK g : IsLoop(g, n, Nat, 0, step)
  BY <1>1, <1>3, LoopExists
<1>5. ASSUME NEW k \in 0..n
      PROVE  g[k] = CountOf(g, k, file)
  <2>1. CASE k = 0
    BY <1>4, <2>1 DEF IsLoop, CountOf
  <2>2. CASE k # 0
    <3>1. k \in 1..n /\ k - 1 \in 0..n
      BY <1>1, <2>2
    <3>2. g[k] = step[k][g[k - 1]] /\ g[k - 1] \in Nat
      BY <1>4, <3>1 DEF IsLoop
    <3>3. step[k][g[k - 1]] = g[k - 1] + new(k)
      BY <3>1, <3>2 DEF step
    <3>. QED
      BY <2>2, <3>2, <3>3 DEF CountOf, new
  <2>. QED
    BY <2>1, <2>2
<1>6. IsCount(g, file)
  <2>1. g = [k \in 0..n |-> CountOf(g, k, file)]
    BY <1>4, <1>5 DEF IsLoop
  <2>. QED
    BY <2>1 DEF IsCount, n
<1>7. IsCount(count, file)
  BY <1>6
<1>8. ResultCount(file) = count[n]
  BY DEF ResultCount, CountOf, IsCount, n
<1>. QED
  BY <1>7, <1>8 DEF n

\* What is left out of a file, up to the result k of its run i.
LeftUpTo(file, i, k) == {p \in Left(file) : p[1] < i \/ (p[1] = i /\ p[2] <= k)}

LEMMA LeftIs ==
    ASSUME NEW file, IsFile(file)
    PROVE  /\ \A p \in Left(file) : p = <<p[1], p[2]>> /\ p[1] \in 1..Len(file.runs) /\ p[2] \in Nat \ {0}
           /\ \A i \in 1..Len(file.runs) :
                 /\ \A k : <<i, k>> \in Left(file) <=> /\ k \in 1..Len(file.runs[i].results)
                                                       /\ ~Kept(file.runs[i], file.runs[i].results[k])
                 /\ Len(file.runs[i].results) \in Nat
<1>. DEFINE all == UNION {{<<i, k>> : k \in DOMAIN file.runs[i].results} : i \in DOMAIN file.runs}
<1>1. Left(file) = {p \in all : ~Kept(file.runs[p[1]], file.runs[p[1]].results[p[2]])}
  BY DEF Left
<1>2. DOMAIN file.runs = 1..Len(file.runs) /\ Len(file.runs) \in Nat
  BY SeqElements DEF IsFile
<1>3. ASSUME NEW i \in 1..Len(file.runs)
      PROVE  /\ DOMAIN file.runs[i].results = 1..Len(file.runs[i].results)
             /\ Len(file.runs[i].results) \in Nat
  <2>1. file.runs[i] \in ToSet(file.runs)
    BY SeqElements DEF IsFile
  <2>. QED
    BY <2>1, SeqElements DEF IsFile
<1>4. \A p \in all : \E i \in 1..Len(file.runs) : \E k \in 1..Len(file.runs[i].results) : p = <<i, k>>
  BY <1>2, <1>3
<1>5. \A i \in 1..Len(file.runs) : \A k \in 1..Len(file.runs[i].results) : <<i, k>> \in all
  BY <1>2, <1>3
<1>. HIDE DEF all
<1>6. \A p \in Left(file) : p = <<p[1], p[2]>> /\ p[1] \in 1..Len(file.runs) /\ p[2] \in Nat \ {0}
  BY <1>1, <1>3, <1>4
<1>7. ASSUME NEW i \in 1..Len(file.runs), NEW k
      PROVE  <<i, k>> \in Left(file) <=> /\ k \in 1..Len(file.runs[i].results)
                                         /\ ~Kept(file.runs[i], file.runs[i].results[k])
  <2>1. <<i, k>> \in all <=> k \in 1..Len(file.runs[i].results)
    BY <1>4, <1>5
  <2>. QED
    BY <1>1, <2>1
<1>. QED
  BY <1>3, <1>6, <1>7

\* Along one run: what is taken and what is left out add up.
LEMMA RunCounted ==
    ASSUME NEW file, IsFile(file), NEW i \in 1..Len(file.runs), IsFiniteSet(LeftUpTo(file, i, 0))
    PROVE  LET run == file.runs[i]
               n == Len(run.results)
           IN  /\ IsFiniteSet(LeftUpTo(file, i, n))
               /\ Len(RunFindings(run)) + Cardinality(LeftUpTo(file, i, n))
                    = n + Cardinality(LeftUpTo(file, i, 0))
<1>. DEFINE run == file.runs[i]
            n == Len(run.results)
            S(k) == LeftUpTo(file, i, k)
            c == Cardinality(S(0))
<1>1. IsSeq(run.results) /\ n \in Nat /\ c \in Nat
  BY SeqElements, FS_CardinalityType DEF IsFile
<1>2. PICK taken : /\ IsTaken(taken, run) /\ RunFindings(run) = taken[n]
                   /\ \A k \in 0..n : taken[k] \in Seq(OfRun(run))
  BY <1>1, RunFindingsAre
<1>3. \A k \in 0..n : taken[k] = TakenOf(taken, k, run)
  BY <1>2 DEF IsTaken
<1>. HIDE DEF c
<1>. DEFINE Fine(k) == IsFiniteSet(S(k)) /\ Len(taken[k]) + Cardinality(S(k)) = k + c
            P == {k \in 0..n : Fine(k)}
<1>4. 0 \in P
  <2>1. taken[0] = <<>>
    BY <1>1, <1>3 DEF TakenOf
  <2>2. Fine(0)
    BY <1>1, <2>1 DEF c
  <2>. HIDE DEF Fine
  <2>. QED
    BY <1>1, <2>2
<1>5. ASSUME NEW k \in 1..n, k - 1 \in P
      PROVE  k \in P
  <2>. DEFINE r == run.results[k]
              K == taken[k - 1]
  <2>1. /\ k \in 0..n /\ k # 0 /\ k - 1 \in 0..n /\ K \in Seq(OfRun(run)) /\ r \in ToSet(run.results)
        /\ k - 1 \in Nat
    BY <1>1, <1>2, SeqElements
  <2>2. IsFiniteSet(S(k - 1)) /\ Len(K) + Cardinality(S(k - 1)) = k - 1 + c
    BY <1>5
  <2>3. taken[k] = Take(K, run, r)
    BY <1>3, <2>1 DEF TakenOf
  <2>4. <<i, k>> \in Left(file) <=> ~Kept(run, r)
    BY LeftIs
  <2>5. \A p \in Left(file) : p = <<p[1], p[2]>> /\ p[1] \in Int /\ p[2] \in Int
    BY LeftIs
  <2>6. S(k) = S(k - 1) \cup (IF Kept(run, r) THEN {} ELSE {<<i, k>>})
    <3>1. \A p \in S(k) : p \in S(k - 1) \/ p = <<i, k>>
      BY <2>1, <2>5 DEF LeftUpTo
    <3>2. \A p \in S(k - 1) : p \in S(k)
      BY <2>1, <2>5 DEF LeftUpTo
    <3>3. <<i, k>> \in Left(file) => <<i, k>> \in S(k)
      BY <2>1 DEF LeftUpTo
    <3>4. S(k) \subseteq Left(file)
      BY DEF LeftUpTo
    <3>. HIDE DEF S, r
    <3>. QED
      BY <2>4, <3>1, <3>2, <3>3, <3>4
  <2>7. <<i, k>> \notin S(k - 1)
    BY <2>1 DEF LeftUpTo
  <2>8. Len(Take(K, run, r)) = Len(K) + (IF Kept(run, r) THEN 1 ELSE 0)
    BY <2>1, TakeStays
  <2>9. Len(K) \in Nat /\ Cardinality(S(k - 1)) \in Nat
    BY <2>1, <2>2, LenProperties, FS_CardinalityType
  <2>. HIDE DEF r, K, S
  <2>10. Fine(k)
    <3>. DEFINE T == S(k - 1)  U == S(k)  x == <<i, k>>
                a == Len(K)  b == Cardinality(T)
    <3>. HIDE DEF x
    <3>1. CASE Kept(run, r)
      <4>1. U = T /\ Len(taken[k]) = a + 1
        BY <2>3, <2>6, <2>8, <2>9, <3>1
      <4>2. IsFiniteSet(T) /\ a + b = k - 1 + c /\ a \in Nat /\ b \in Nat
        BY <2>2, <2>9
      <4>. HIDE DEF T, U, a, b
      <4>3. Cardinality(U) = b
        BY <4>1 DEF b
      <4>4. a + 1 + b = k + c
        BY <1>1, <2>1, <4>2
      <4>. QED
        BY <4>1, <4>2, <4>3, <4>4 DEF U
    <3>2. CASE ~Kept(run, r)
      <4>1. U = T \cup {x} /\ Len(taken[k]) = a
        BY <2>3, <2>6, <2>8, <2>9, <3>2 DEF x
      <4>2. IsFiniteSet(T) /\ a + b = k - 1 + c /\ x \notin T /\ a \in Nat /\ b \in Nat
        BY <2>2, <2>7, <2>9 DEF x
      <4>. HIDE DEF T, U
      <4>3. IsFiniteSet(U) /\ Cardinality(U) = b + 1
        BY <4>1, <4>2, FS_AddElement DEF b
      <4>. HIDE DEF a, b
      <4>4. a + (b + 1) = k + c
        BY <1>1, <2>1, <4>2
      <4>. QED
        BY <4>1, <4>3, <4>4 DEF U
    <3>. QED
      BY <3>1, <3>2
  <2>. HIDE DEF Fine
  <2>. QED
    BY <2>1, <2>10
<1>. HIDE DEF P, n, run
<1>6. \A k \in 0..n : k \in P
  BY <1>1, <1>4, <1>5, Along
<1>7. Fine(n)
  <2>1. n \in P
    BY <1>1, <1>6
  <2>. HIDE DEF Fine
  <2>. QED
    BY <2>1 DEF P
<1>. QED
  BY <1>2, <1>7 DEF run, n, c

LEMMA AllCounted ==
    ASSUME NEW file, IsFile(file)
    PROVE  Len(FileFindings(file)) + Cardinality(Left(file)) = ResultCount(file)
<1>. DEFINE n == Len(file.runs)
            S(i) == LeftUpTo(file, i + 1, 0)
<1>1. n \in Nat /\ \A i \in 1..n : IsSeq(file.runs[i].results)
  BY SeqElements DEF IsFile
<1>2. PICK total : /\ IsTotal(total, file) /\ FileFindings(file) = total[n]
                   /\ \A i \in 0..n : total[i] \in Seq(OfFile(file))
  BY FileFindingsAre
<1>3. PICK count : IsCount(count, file) /\ ResultCount(file) = count[n]
  BY ResultCountIs
<1>4. \A i \in 0..n : total[i] = TotalOf(total, i, file) /\ count[i] = CountOf(count, i, file)
  BY <1>2, <1>3 DEF IsTotal, IsCount
<1>5. \A p \in Left(file) : p[1] \in 1..n /\ p[2] \in Nat \ {0}
  BY LeftIs
<1>. DEFINE Fine(i) == IsFiniteSet(S(i)) /\ Len(total[i]) + Cardinality(S(i)) = count[i]
            P == {i \in 0..n : Fine(i)}
<1>6. 0 \in P
  <2>1. total[0] = <<>> /\ count[0] = 0
    BY <1>1, <1>4 DEF TotalOf, CountOf
  <2>2. S(0) = {}
    BY <1>1, <1>5 DEF LeftUpTo
  <2>. HIDE DEF S
  <2>3. Fine(0)
    BY <2>1, <2>2, FS_EmptySet
  <2>. HIDE DEF Fine
  <2>. QED
    BY <1>1, <2>3
<1>7. ASSUME NEW i \in 1..n, i - 1 \in P
      PROVE  i \in P
  <2>. DEFINE run == file.runs[i]
              m == Len(run.results)
              K == total[i - 1]
              new == RunFindings(run)
  <2>1. i \in 0..n /\ i # 0 /\ i - 1 \in 0..n /\ m \in Nat /\ m \in 0..m
    BY <1>1, SeqElements
  <2>2. IsFiniteSet(S(i - 1)) /\ Len(K) + Cardinality(S(i - 1)) = count[i - 1]
    BY <1>7
  <2>3. S(i - 1) = LeftUpTo(file, i, 0)
    BY <2>1
  <2>4. S(i) = LeftUpTo(file, i, m)
    <3>1. ASSUME NEW p \in Left(file)
          PROVE  p \in S(i) <=> p \in LeftUpTo(file, i, m)
      <4>0. p = <<p[1], p[2]>> /\ p[1] \in 1..n /\ p[2] \in Nat \ {0}
        BY LeftIs
      <4>1. CASE p[1] = i
        <5>1. <<i, p[2]>> \in Left(file)
          BY <4>0, <4>1
        <5>2. p[2] \in 1..m
          BY <5>1, LeftIs
        <5>. QED
          BY <2>1, <4>0, <4>1, <5>2 DEF LeftUpTo
      <4>2. CASE p[1] # i
        BY <2>1, <4>0, <4>2 DEF LeftUpTo
      <4>. QED
        BY <4>1, <4>2
    <3>. QED
      BY <3>1 DEF LeftUpTo
  <2>5. IsFiniteSet(S(i)) /\ Len(new) + Cardinality(S(i)) = m + Cardinality(S(i - 1))
    BY <2>2, <2>3, <2>4, RunCounted
  <2>6. total[i] = K \o new /\ count[i] = count[i - 1] + m
    BY <1>4, <2>1 DEF TotalOf, CountOf
  <2>7. K \in Seq(OfFile(file)) /\ new \in Seq(OfFile(file))
    <3>1. new \in Seq(OfRun(run))
      BY <1>1, <2>1, RunFindingsAre
    <3>2. run \in ToSet(file.runs)
      BY SeqElements DEF IsFile
    <3>3. OfRun(run) \subseteq OfFile(file)
      BY <3>2 DEF OfFile
    <3>. QED
      BY <1>2, <2>1, <3>1, <3>3
  <2>. HIDE DEF new, m, S
  <2>8. Len(total[i]) = Len(K) + Len(new) /\ Len(K) \in Nat /\ Len(new) \in Nat
    BY <2>6, <2>7, ConcatProperties, LenProperties
  <2>9. Cardinality(S(i)) \in Nat /\ Cardinality(S(i - 1)) \in Nat
    BY <2>2, <2>5, FS_CardinalityType
  <2>10. Fine(i)
    <3>. DEFINE a == Len(K)  b == Cardinality(S(i - 1))  c == Len(new)  d == Cardinality(S(i))
    <3>1. a + b = count[i - 1] /\ c + d = m + b /\ count[i] = count[i - 1] + m /\ Len(total[i]) = a + c
      BY <2>2, <2>5, <2>6, <2>8
    <3>2. a \in Nat /\ b \in Nat /\ c \in Nat /\ d \in Nat /\ m \in Nat
      BY <2>1, <2>8, <2>9
    <3>. HIDE DEF a, b, c, d
    <3>3. Len(total[i]) + d = count[i]
      BY <3>1, <3>2
    <3>. QED
      BY <2>5, <3>3 DEF d
  <2>. HIDE DEF Fine
  <2>. QED
    BY <2>1, <2>10
<1>. HIDE DEF P, n
<1>8. \A i \in 0..n : i \in P
  BY <1>1, <1>6, <1>7, Along
<1>9. Fine(n)
  <2>1. n \in P
    BY <1>1, <1>8
  <2>. HIDE DEF Fine
  <2>. QED
    BY <2>1 DEF P
<1>10. S(n) = Left(file)
  <2>1. \A p \in Left(file) : p[1] < n + 1
    BY <1>1, <1>5
  <2>. QED
    BY <2>1 DEF LeftUpTo
<1>. QED
  BY <1>2, <1>3, <1>9, <1>10

-----------------------------------------------------------------------------
(***************************************************************************)
(* The files of one import together.                                       *)
(***************************************************************************)
\* Every id of new is that of an element of total.
Holds(total, new) == \A f \in ToSet(new) : \E g \in ToSet(total) : IdOf(g) = IdOf(f)

LEMMA AddNewIs ==
    ASSUME NEW X, NEW K \in Seq(X), NEW f \in X
    PROVE  /\ AddNew(K, f) \in Seq(X) /\ ToSet(K) \subseteq ToSet(AddNew(K, f))
           /\ \E g \in ToSet(AddNew(K, f)) : IdOf(g) = IdOf(f)
<1>1. CASE \E g \in ToSet(K) : IdOf(g) = IdOf(f)
  BY <1>1 DEF AddNew
<1>2. CASE ~\E g \in ToSet(K) : IdOf(g) = IdOf(f)
  <2>1. AddNew(K, f) = Append(K, f)
    BY <1>2 DEF AddNew
  <2>. QED
    BY <2>1, Appended
<1>. QED
  BY <1>1, <1>2

\* One step of the loops of AddAll and ImportAll.
AddedOf(g, k, total, new) == IF k = 0 THEN total ELSE AddNew(g[k - 1], new[k])

IsAdded(g, total, new) == g = [k \in 0..Len(new) |-> AddedOf(g, k, total, new)]

SumOf(g, i, files) == IF i = 0 THEN <<>> ELSE AddAll(g[i - 1], FileFindings(files[i]))

IsSum(g, files) == g = [i \in 0..Len(files) |-> SumOf(g, i, files)]

LEMMA AddAllIs ==
    ASSUME NEW X, NEW total \in Seq(X), NEW new \in Seq(X)
    PROVE  /\ AddAll(total, new) \in Seq(X) /\ ToSet(total) \subseteq ToSet(AddAll(total, new))
           /\ Holds(AddAll(total, new), new)
<1>. DEFINE n == Len(new)
            D == Seq(X)
            step == [k \in 1..n |-> [K \in D |-> AddNew(K, new[k])]]
            sum == CHOOSE g : IsAdded(g, total, new)
<1>1. n \in Nat /\ DOMAIN new = 1..n /\ \A k \in 1..n : new[k] \in X
  BY LenProperties, ElementOfSeq
<1>2. \A k \in 1..n, K \in D : AddNew(K, new[k]) \in D
  BY <1>1, AddNewIs
<1>. HIDE DEF n, D
<1>3. step \in [1..n -> [D -> D]]
  BY <1>2
<1>4. total \in D
  BY DEF D
<1>. HIDE DEF step
<1>5. PICK g : IsLoop(g, n, D, total, step)
  BY <1>1, <1>3, <1>4, LoopExists
<1>6. ASSUME NEW k \in 0..n
      PROVE  g[k] = AddedOf(g, k, total, new)
  <2>1. CASE k = 0
    BY <1>5, <2>1 DEF IsLoop, AddedOf
  <2>2. CASE k # 0
    <3>1. k \in 1..n /\ k - 1 \in 0..n
      BY <1>1, <2>2
    <3>2. g[k] = step[k][g[k - 1]] /\ g[k - 1] \in D
      BY <1>5, <3>1 DEF IsLoop
    <3>3. step[k][g[k - 1]] = AddNew(g[k - 1], new[k])
      BY <3>1, <3>2 DEF step
    <3>. QED
      BY <2>2, <3>2, <3>3 DEF AddedOf
  <2>. QED
    BY <2>1, <2>2
<1>7. IsAdded(g, total, new)
  <2>1. g = [k \in 0..n |-> AddedOf(g, k, total, new)]
    BY <1>5, <1>6 DEF IsLoop
  <2>. QED
    BY <2>1 DEF IsAdded, n
<1>8. sum = [k \in 0..n |-> AddedOf(sum, k, total, new)]
  <2>1. IsAdded(sum, total, new)
    BY <1>7
  <2>. QED
    BY <2>1 DEF IsAdded, n
<1>9. AddAll(total, new) = sum[n]
  BY DEF AddAll, AddedOf, IsAdded, n
<1>. HIDE DEF sum
<1>. DEFINE Fine(k) == /\ sum[k] \in D /\ ToSet(total) \subseteq ToSet(sum[k])
                       /\ \A i \in 1..k : \E x \in ToSet(sum[k]) : IdOf(x) = IdOf(new[i])
            P == {k \in 0..n : Fine(k)}
<1>10. 0 \in P
  <2>1. sum[0] = total
    BY <1>1, <1>8 DEF AddedOf
  <2>2. Fine(0)
    BY <1>4, <2>1
  <2>. HIDE DEF Fine
  <2>. QED
    BY <1>1, <2>2
<1>11. ASSUME NEW k \in 1..n, k - 1 \in P
       PROVE  k \in P
  <2>. DEFINE K == sum[k - 1]
  <2>1. k \in 0..n /\ k # 0 /\ new[k] \in X
    BY <1>1
  <2>2. /\ K \in D /\ ToSet(total) \subseteq ToSet(K)
        /\ \A i \in 1..(k - 1) : \E x \in ToSet(K) : IdOf(x) = IdOf(new[i])
    BY <1>11
  <2>3. sum[k] = AddNew(K, new[k])
    BY <1>8, <2>1 DEF AddedOf
  <2>. HIDE DEF K
  <2>4. /\ sum[k] \in D /\ ToSet(K) \subseteq ToSet(sum[k])
        /\ \E x \in ToSet(sum[k]) : IdOf(x) = IdOf(new[k])
    <3>1. K \in Seq(X)
      BY <2>2 DEF D
    <3>2. /\ AddNew(K, new[k]) \in Seq(X) /\ ToSet(K) \subseteq ToSet(AddNew(K, new[k]))
          /\ \E x \in ToSet(AddNew(K, new[k])) : IdOf(x) = IdOf(new[k])
      BY <2>1, <3>1, AddNewIs
    <3>. QED
      BY <2>3, <3>2 DEF D
  <2>5. \A i \in 1..k : i = k \/ i \in 1..(k - 1)
    BY <1>1
  <2>6. \A i \in 1..k : \E x \in ToSet(sum[k]) : IdOf(x) = IdOf(new[i])
    BY <2>2, <2>4, <2>5
  <2>7. Fine(k)
    BY <2>2, <2>4, <2>6
  <2>. HIDE DEF Fine
  <2>. QED
    BY <2>1, <2>7
<1>. HIDE DEF P
<1>12. \A k \in 0..n : k \in P
  BY <1>1, <1>10, <1>11, Along
<1>13. Fine(n)
  <2>1. n \in P
    BY <1>1, <1>12
  <2>. HIDE DEF Fine
  <2>. QED
    BY <2>1 DEF P
<1>14. Holds(sum[n], new)
  BY <1>1, <1>13 DEF Holds, ToSet
<1>. QED
  BY <1>9, <1>13, <1>14 DEF D

AreFiles(files) == IsSeq(files) /\ \A file \in ToSet(files) : IsLog(file)

LEMMA ImportAllIs ==
    ASSUME NEW files, AreFiles(files)
    PROVE  /\ ImportAll(files) \in Seq(OfFiles(files))
           /\ \A i \in 1..Len(files) : Holds(ImportAll(files), FileFindings(files[i]))
<1>. DEFINE n == Len(files)
            X == OfFiles(files)
            D == Seq(X)
            new(k) == FileFindings(files[k])
            step == [k \in 1..n |-> [K \in D |-> AddAll(K, new(k))]]
            sum == CHOOSE g : IsSum(g, files)
<1>1. n \in Nat /\ \A k \in 1..n : files[k] \in ToSet(files)
  BY SeqElements DEF AreFiles
<1>2. ASSUME NEW k \in 1..n
      PROVE  new(k) \in D
  <2>. DEFINE file == files[k]
  <2>1. file \in ToSet(files) /\ IsFile(file)
    BY <1>1 DEF AreFiles, IsLog, IsFile
  <2>2. OfFile(file) \subseteq X
    BY <2>1 DEF OfFiles
  <2>. HIDE DEF file
  <2>3. Len(file.runs) \in 0..Len(file.runs)
    BY <2>1, SeqElements DEF IsFile
  <2>4. FileFindings(file) \in Seq(OfFile(file))
    BY <2>1, <2>3, FileFindingsAre
  <2>. QED
    BY <2>2, <2>4 DEF file
<1>3. \A k \in 1..n, K \in D : AddAll(K, new(k)) \in D
  BY <1>2, AddAllIs
<1>4. <<>> \in D
  OBVIOUS
<1>. HIDE DEF n, D, new
<1>5. step \in [1..n -> [D -> D]]
  BY <1>3
<1>. HIDE DEF step
<1>6. PICK g : IsLoop(g, n, D, <<>>, step)
  BY <1>1, <1>4, <1>5, LoopExists
<1>7. ASSUME NEW k \in 0..n
      PROVE  g[k] = SumOf(g, k, files)
  <2>1. CASE k = 0
    BY <1>6, <2>1 DEF IsLoop, SumOf
  <2>2. CASE k # 0
    <3>1. k \in 1..n /\ k - 1 \in 0..n
      BY <1>1, <2>2
    <3>2. g[k] = step[k][g[k - 1]] /\ g[k - 1] \in D
      BY <1>6, <3>1 DEF IsLoop
    <3>3. step[k][g[k - 1]] = AddAll(g[k - 1], new(k))
      BY <3>1, <3>2 DEF step
    <3>. QED
      BY <2>2, <3>2, <3>3 DEF SumOf, new
  <2>. QED
    BY <2>1, <2>2
<1>8. IsSum(g, files)
  <2>1. g = [k \in 0..n |-> SumOf(g, k, files)]
    BY <1>6, <1>7 DEF IsLoop
  <2>. QED
    BY <2>1 DEF IsSum, n
<1>9. sum = [k \in 0..n |-> SumOf(sum, k, files)]
  <2>1. IsSum(sum, files)
    BY <1>8
  <2>. QED
    BY <2>1 DEF IsSum, n
<1>10. ImportAll(files) = sum[n]
  BY DEF ImportAll, SumOf, IsSum, n
<1>. HIDE DEF sum
<1>. DEFINE Fine(k) == sum[k] \in D /\ \A i \in 1..k : Holds(sum[k], new(i))
            P == {k \in 0..n : Fine(k)}
<1>11. 0 \in P
  <2>1. sum[0] = <<>>
    BY <1>1, <1>9 DEF SumOf
  <2>2. Fine(0)
    BY <1>4, <2>1
  <2>. HIDE DEF Fine
  <2>. QED
    BY <1>1, <2>2
<1>12. ASSUME NEW k \in 1..n, k - 1 \in P
       PROVE  k \in P
  <2>. DEFINE K == sum[k - 1]
  <2>1. k \in 0..n /\ k # 0 /\ new(k) \in D
    BY <1>1, <1>2
  <2>2. K \in D /\ \A i \in 1..(k - 1) : Holds(K, new(i))
    BY <1>12
  <2>3. sum[k] = AddAll(K, new(k))
    BY <1>9, <2>1 DEF SumOf, new
  <2>. HIDE DEF K
  <2>4. sum[k] \in D /\ ToSet(K) \subseteq ToSet(sum[k]) /\ Holds(sum[k], new(k))
    BY <2>1, <2>2, <2>3, AddAllIs DEF D
  <2>5. \A i \in 1..k : i = k \/ i \in 1..(k - 1)
    BY <1>1
  <2>6. \A i \in 1..(k - 1) : Holds(sum[k], new(i))
    BY <2>2, <2>4 DEF Holds
  <2>7. Fine(k)
    BY <2>4, <2>5, <2>6
  <2>. HIDE DEF Fine
  <2>. QED
    BY <2>1, <2>7
<1>. HIDE DEF P
<1>13. \A k \in 0..n : k \in P
  BY <1>1, <1>11, <1>12, Along
<1>14. Fine(n)
  <2>1. n \in P
    BY <1>1, <1>13
  <2>. HIDE DEF Fine
  <2>. QED
    BY <2>1 DEF P
<1>. QED
  BY <1>10, <1>14 DEF D, n, new

\* Where an imported finding comes from.
LEMMA ImportedFrom ==
    ASSUME NEW files, AreFiles(files), NEW f \in OfFiles(files)
    PROVE  \E run, result : /\ f = Imported(run, result) /\ Kept(run, result)
                            /\ \A id \in DOMAIN run.bases : IsLocation(run.bases[id])
                            /\ IsLocation(result.location) /\ result.line \in Nat
<1>1. PICK file \in ToSet(files) : f \in OfFile(file)
  BY DEF OfFiles
<1>2. PICK run \in ToSet(file.runs) : f \in OfRun(run)
  BY <1>1 DEF OfFile
<1>3. PICK result \in ToSet(run.results) : Kept(run, result) /\ f = Imported(run, result)
  BY <1>2 DEF OfRun
<1>4. IsLog(file)
  BY DEF AreFiles
<1>. QED
  BY <1>3, <1>4 DEF IsLog

LEMMA Accounted ==
    ASSUME NEW files, AreFiles(files)
    PROVE  AllAccounted(files, ImportAll(files))
<1>. DEFINE found == ImportAll(files)
<1>1. found \in Seq(OfFiles(files)) /\ \A i \in 1..Len(files) : Holds(found, FileFindings(files[i]))
  BY ImportAllIs
<1>. HIDE DEF found
<1>2. ASSUME NEW i \in DOMAIN found
      PROVE  Up \notin ToSet(found[i].file) /\ found[i].file # <<>>
  <2>1. found[i] \in OfFiles(files)
    BY <1>1, LenProperties, ElementOfSeq
  <2>2. PICK run, result : /\ found[i] = Imported(run, result) /\ Kept(run, result)
                           /\ \A id \in DOMAIN run.bases : IsLocation(run.bases[id])
                           /\ IsLocation(result.location)
    BY <2>1, ImportedFrom
  <2>3. found[i].file = Resolve(run.bases, result.location)
    BY <2>2 DEF Imported
  <2>4. Resolve(run.bases, result.location) # Unsafe
    BY <2>2 DEF Kept
  <2>. QED
    BY <2>2, <2>3, <2>4, ResolveIs DEF Within
<1>3. ASSUME NEW i \in DOMAIN files
      PROVE  FileAccounted(files[i], FileFindings(files[i]), found)
  <2>. DEFINE file == files[i]
  <2>1. i \in 1..Len(files) /\ file \in ToSet(files)
    BY SeqElements DEF AreFiles
  <2>2. IsFile(file)
    BY <2>1 DEF AreFiles, IsLog, IsFile
  <2>3. Holds(found, FileFindings(file))
    BY <1>1, <2>1
  <2>. HIDE DEF file
  <2>4. \A f, g : IdOf(g) = IdOf(f) => g.scanner = f.scanner /\ g.rule = f.rule /\ g.file = f.file
    BY DEF IdOf
  <2>5. \A f \in ToSet(FileFindings(file)) :
            \E g \in ToSet(found) : g.scanner = f.scanner /\ g.rule = f.rule /\ g.file = f.file
    BY <2>3, <2>4 DEF Holds
  <2>6. Len(FileFindings(file)) + Cardinality(Left(file)) = ResultCount(file)
    BY <2>2, AllCounted
  <2>7. FileAccounted(file, FileFindings(file), found)
    BY <2>5, <2>6 DEF FileAccounted
  <2>. QED
    BY <2>7 DEF file
<1>4. AllAccounted(files, found)
  BY <1>2, <1>3 DEF AllAccounted
<1>. QED
  BY <1>4 DEF found

-----------------------------------------------------------------------------
(***************************************************************************)
(* What a command reports on: the findings of the scan, in order, and the  *)
(* imported ones.                                                          *)
(***************************************************************************)
LEMMA SeverityOfIs ==
    ASSUME NEW rule, NEW result, NEW secret
    PROVE  SeverityOf(rule, result, secret) \in Severities
<1>1. \A level : FromLevel(level) \in Severities
  BY DEF FromLevel, Severities, Info, Low, HighSeverity, Critical
<1>2. \A score : FromScore(score) \in Severities
  BY DEF FromScore, Severities, Info, Low, HighSeverity, Critical
<1>3. HighSeverity \in Severities /\ 2 \in Severities
  BY DEF Severities, Info, HighSeverity, Critical
<1>. QED
  BY <1>1, <1>2, <1>3 DEF SeverityOf

LEMMA ImportedIs ==
    ASSUME NEW files, AreFiles(files), NEW f \in OfFiles(files)
    PROVE  Solid(f) /\ f.original = f.severity
<1>1. PICK run, result : f = Imported(run, result) /\ result.line \in Nat
  BY ImportedFrom
<1>2. /\ Fields \subseteq DOMAIN f /\ f.original = f.severity
      /\ f.line \in {NoLine, result.line}
  BY <1>1 DEF Imported, Fields
<1>3. f.severity \in Severities
  BY <1>1, SeverityOfIs DEF Imported
<1>. QED
  BY <1>1, <1>2, <1>3 DEF Solid, NoLine

LEMMA ChainIs ==
    ASSUME NEW file
    PROVE  /\ Solid(Chain(file)) /\ Chain(file).cwe = NoCwe /\ Chain(file).file = file
           /\ Chain(file).rule \in Int /\ Chain(file).confidence \in Int
<1>. DEFINE c == Chain(file)
<1>1. /\ Fields \subseteq DOMAIN c /\ c.line = NoLine /\ c.severity = HighSeverity /\ c.cwe = NoCwe
      /\ c.file = file /\ c.rule = 0 /\ c.confidence = 2
  BY DEF Chain, Fields
<1>. HIDE DEF c
<1>2. Solid(c) /\ c.rule \in Int /\ c.confidence \in Int
  BY <1>1 DEF Solid, NoLine, HighSeverity, Severities, Info, Critical
<1>. QED
  BY <1>1, <1>2 DEF c

\* The findings of the scan that the pipeline lets through.
Considered(o, t) == {f \in Detected(o) : ~Excluded(o, t, f)}

ScanResult(o, t, e) == Finish(Pipeline(o, t, e), None, Considered(o, t), Ran(o), Comments(t), ScannerPosition).findings

LEMMA OpenIs ==
    ASSUME code \subseteq Problems, NEW o, NEW t
    PROVE  /\ IsFiniteSet(Considered(o, t)) /\ Positions(Considered(o, t), ScannerPosition)
           /\ \A f \in Considered(o, t) : IsFinding(f) /\ \E g \in Problems : f.file = g.file
<1>. DEFINE F == Considered(o, t)
<1>1. F \subseteq Detected(o)
  BY DEF Considered
<1>. HIDE DEF F
<1>2. \A f \in F : IsFinding(f) /\ f.scanner \in Ran(o) /\ \E g \in Problems : f.file = g.file
  BY <1>1, DetectedIs
<1>3. IsFiniteSet(F)
  BY <1>1, DetectedIs, FS_Subset
<1>4. Positions(F, ScannerPosition)
  BY <1>2, ScannersPlaced
<1>. QED
  BY <1>2, <1>3, <1>4 DEF F

LEMMA ScannedIs ==
    ASSUME code \subseteq Problems, NEW o, NEW t, NEW e
    PROVE  /\ Scanned(o, t, e) \in Seq(ScanResult(o, t, e)) /\ ToSet(Scanned(o, t, e)) = ScanResult(o, t, e)
           /\ \A f \in ScanResult(o, t, e) : Solid(f) /\ (f \in Detected(o) \/ f.cwe = NoCwe)
<1>. DEFINE F == Considered(o, t)
            C == {Chain(file) : file \in {x.file : x \in F}}
            out == ScanResult(o, t, e)
<1>1. /\ IsFiniteSet(F) /\ Positions(F, ScannerPosition)
      /\ \A f \in F : IsFinding(f)
  BY OpenIs
<1>2. F \subseteq Detected(o)
  BY DEF Considered
<1>. HIDE DEF F
<1>3. out \subseteq F \cup C
  BY <1>1, FinishedMade DEF ScanResult, F
<1>4. IsFiniteSet(C)
  <2>. DEFINE h == [x \in F |-> Chain(x.file)]
  <2>1. C = {h[x] : x \in F}
    OBVIOUS
  <2>. HIDE DEF h
  <2>. QED
    BY <1>1, <2>1, ImageFinite
<1>5. \A f \in F : Solid(f) /\ f.rule \in Int /\ f.confidence \in Int
  BY <1>1 DEF IsFinding, Solid, Fields
<1>6. \A f \in C : Solid(f) /\ f.rule \in Int /\ f.confidence \in Int /\ f.cwe = NoCwe
  BY ChainIs
<1>. HIDE DEF C
<1>7. IsFiniteSet(F \cup C)
  BY <1>1, <1>4, FS_Union
<1>. HIDE DEF out
<1>8. IsFiniteSet(out)
  BY <1>3, <1>7, FS_Subset
<1>9. \A f \in out : Solid(f) /\ f.rule \in Int /\ f.confidence \in Int
  BY <1>3, <1>5, <1>6
<1>10. Numbers(out)
  BY <1>9 DEF Numbers, Solid, Severities, Info, Critical
<1>11. Scanned(o, t, e) = ByImportance(out)
  BY DEF Scanned, out, ScanResult, Considered
<1>12. Scanned(o, t, e) \in Seq(out) /\ ToSet(Scanned(o, t, e)) = out
  BY <1>8, <1>10, <1>11, OrderedIsAll
<1>. QED
  BY <1>2, <1>3, <1>6, <1>9, <1>12 DEF out

\* The scan's own part of what is merged.
Own(o, t, e) == IF o.cmd = "import" THEN <<>> ELSE Scanned(o, t, e)

Parts(o, t, e) == ToSet(Own(o, t, e)) \cup ToSet(FilesFound[o.files])

LEMMA PartsAre ==
    ASSUME code \subseteq Problems, NEW o \in Commands, NEW t, NEW e
    PROVE  /\ Own(o, t, e) \in Seq(Parts(o, t, e)) /\ FilesFound[o.files] \in Seq(Parts(o, t, e))
           /\ \A f \in Parts(o, t, e) : Solid(f)
           /\ \A f \in ToSet(FilesFound[o.files]) : f.original = f.severity
           /\ \A i \in 1..Len(Own(o, t, e)) :
                 Own(o, t, e)[i] \in Natives(o) \/ Own(o, t, e)[i].cwe = NoCwe
<1>. DEFINE own == Own(o, t, e)
            found == FilesFound[o.files]
            files == o.files
<1>1. AreFiles(files)
  BY CommandsAssumption DEF IsCommand, AreFiles
<1>2. found = ImportAll(files)
  BY DEF FilesFound
<1>. HIDE DEF found, files
<1>3. found \in Seq(OfFiles(files))
  BY <1>1, <1>2, ImportAllIs
<1>4. \A i \in DOMAIN found : found[i] \in OfFiles(files)
  BY <1>3, LenProperties, ElementOfSeq
<1>5. \A f \in ToSet(found) : Solid(f) /\ f.original = f.severity
  BY <1>1, <1>4, ImportedIs DEF ToSet
<1>6. found \in Seq(ToSet(found))
  BY <1>3 DEF ToSet
<1>7. /\ own \in Seq(ToSet(own))
      /\ \A f \in ToSet(own) : Solid(f) /\ (f \in Natives(o) \/ f.cwe = NoCwe)
  <2>1. CASE o.cmd = "import"
    BY <2>1 DEF Own, ToSet
  <2>2. CASE o.cmd # "import"
    <3>1. own = Scanned(o, t, e) /\ Natives(o) = Detected(o)
      BY <2>2 DEF Own, Natives
    <3>. QED
      BY <3>1, ScannedIs
  <2>. QED
    BY <2>1, <2>2
<1>. HIDE DEF own
<1>8. \A i \in 1..Len(own) : own[i] \in ToSet(own)
  BY <1>7, LenProperties, ElementOfSeq
<1>9. Parts(o, t, e) = ToSet(own) \cup ToSet(found)
  BY DEF Parts, own, found
<1>. QED
  BY <1>5, <1>6, <1>7, <1>8, <1>9 DEF own, found

Taken(o, t, e) == OpenImports(Pipeline(o, t, e), t, Imports(o, t))

Merged(o, t, e) == MergeFindings(Own(o, t, e), FilesFound[o.files], Taken(o, t, e))

\* Everything a command looks at.
LookedAt(o) == Natives(o) \cup ToSet(FilesFound[o.files])

LEMMA MergedIs ==
    ASSUME code \subseteq Problems, NEW o \in Commands, NEW t, NEW e
    PROVE  /\ Merged(o, t, e) \in Seq(Risen(Parts(o, t, e)))
           /\ Folds(Merged(o, t, e), Own(o, t, e), Taken(o, t, e), Taken(o, t, e), LookedAt(o))
<1>. DEFINE own == Own(o, t, e)
            found == FilesFound[o.files]
            open == Taken(o, t, e)
            A == Parts(o, t, e)
            F == LookedAt(o)
<1>1. open \subseteq ToSet(found)
  BY DEF Taken, OpenImports, Unlisted, Uncommented, Imports
<1>2. open \in SUBSET F
  BY <1>1 DEF LookedAt
<1>3. /\ own \in Seq(A) /\ found \in Seq(A) /\ \A x \in A : Solid(x)
      /\ \A i \in 1..Len(own) : own[i] \in F \/ own[i].cwe = NoCwe
  BY PartsAre DEF LookedAt
<1>4. Merged(o, t, e) = MergeFindings(own, found, open)
  BY DEF Merged
<1>. HIDE DEF own, found, open, A, F
<1>5. /\ MergeFindings(own, found, open) \in Seq(Risen(A))
      /\ Folds(MergeFindings(own, found, open), own, open, open, F)
  BY <1>1, <1>2, <1>3, MergeStandsForAll
<1>. QED
  BY <1>4, <1>5 DEF own, open, A, F

\* The findings of the scan come first; the rest of the merged list is filtered.
LEMMA CombinedIs ==
    ASSUME NEW o, NEW t, NEW e
    PROVE  LET K == Merged(o, t, e)
               n == Len(Own(o, t, e))
           IN  Combined(o, t, e) =
                 {K[i] : i \in 1..n}
                   \cup Complete(Pipeline(o, t, e), None, Imports(o, t), Taken(o, t, e),
                                 {K[i] : i \in DOMAIN K \ 1..n}).findings
BY DEF Combined, Combine, Together, Merged, Taken, Own

LEMMA ReportSevere ==
    ASSUME code \subseteq Problems, NEW o \in Commands, NEW t, NEW e, NEW f \in Report(o, t, e)
    PROVE  f.severity \in Severities
<1>. DEFINE K == Merged(o, t, e)
            n == Len(Own(o, t, e))
            D == {K[i] : i \in DOMAIN K \ 1..n}
<1>1. \A g \in o.probed : g.severity \in Severities
  BY CommandsAssumption DEF IsCommand
<1>2. K \in Seq(Risen(Parts(o, t, e))) /\ Len(K) >= n
  BY MergedIs DEF Folds
<1>3. n \in Nat /\ DOMAIN K = 1..Len(K) /\ Len(K) \in Nat
  BY <1>2, PartsAre, LenProperties
<1>4. \A i \in DOMAIN K : Solid(K[i])
  <2>1. \A i \in DOMAIN K : K[i] \in Risen(Parts(o, t, e))
    BY <1>2, <1>3, ElementOfSeq
  <2>. QED
    BY <2>1, PartsAre, RisenSolid
<1>5. \A i \in 1..n : i \in DOMAIN K
  BY <1>2, <1>3
<1>. HIDE DEF K, n
<1>6. \A g \in D \cup {K[i] : i \in 1..n} : Solid(g)
  BY <1>4, <1>5
<1>7. Complete(Pipeline(o, t, e), None, Imports(o, t), Taken(o, t, e), D).findings
        \subseteq D \cup {Chain(file) : file \in {x.file : x \in D}}
  BY CompletedMade
<1>8. ASSUME NEW g \in Combined(o, t, e)
      PROVE  g.severity \in Severities
  <2>1. g \in {K[i] : i \in 1..n} \cup Complete(Pipeline(o, t, e), None, Imports(o, t), Taken(o, t, e), D).findings
    BY CombinedIs DEF K, n
  <2>. HIDE DEF D
  <2>2. g \in {K[i] : i \in 1..n} \cup D \/ \E file : g = Chain(file)
    BY <1>7, <2>1
  <2>. QED
    BY <1>6, <2>2, ChainIs DEF Solid
<1>9. f \in Combined(o, t, e) \cup o.probed
  BY DEF Report, Site, AfterDiff, AfterBaseline
<1>. QED
  BY <1>1, <1>8, <1>9

-----------------------------------------------------------------------------
(***************************************************************************)
(* The gates.                                                              *)
(***************************************************************************)
\* The highest severity of some findings is reached, and none is above it.
LEMMA HighestIs ==
    ASSUME NEW F, \A f \in F : f.severity \in Severities, F # {}
    PROVE  /\ \E f \in F : f.severity = Highest(F)
           /\ \A f \in F : f.severity <= Highest(F)
<1>. DEFINE S == {f.severity : f \in F}
            T == {4 - s : s \in S}
            Tops(s) == \A f \in F : f.severity <= s
<1>1. \A f \in F : f.severity \in 0..4 /\ f.severity \in S
  BY DEF Severities, Info, Critical
<1>2. S \subseteq 0..4 /\ S # {} /\ \A s \in S : \E f \in F : f.severity = s
  BY <1>1
<1>3. Highest(F) = CHOOSE s \in S : Tops(s)
  BY DEF Highest
<1>. HIDE DEF S
<1>4. T \subseteq Nat /\ T # {} /\ \A s \in S : 4 - s \in T
  <2>1. \A s \in S : 4 - s \in T /\ 4 - s \in Nat
    BY <1>2
  <2>2. \A n \in T : \E s \in S : n = 4 - s
    OBVIOUS
  <2>. HIDE DEF T
  <2>. QED
    BY <1>2, <2>1, <2>2
<1>5. \A n \in T : \E s \in S : n = 4 - s
  OBVIOUS
<1>. HIDE DEF T
<1>6. PICK n \in T : \A m \in T : ~(m < n)
  BY <1>4, LeastNumber
<1>7. PICK top \in S : n = 4 - top
  BY <1>5
<1>8. ASSUME NEW f \in F
      PROVE  f.severity <= top
  <2>1. 4 - f.severity \in T /\ f.severity \in 0..4 /\ top \in 0..4
    BY <1>1, <1>2, <1>4
  <2>2. ~(4 - f.severity < 4 - top)
    BY <1>6, <1>7, <2>1
  <2>. QED
    BY <2>1, <2>2
<1>9. Tops(top)
  BY <1>8
<1>. HIDE DEF Tops
<1>10. Highest(F) \in S /\ Tops(Highest(F))
  BY <1>3, <1>9
<1>. QED
  BY <1>2, <1>10 DEF Tops

LEMMA HighestReaches ==
    ASSUME NEW F, \A f \in F : f.severity \in Severities, NEW s \in Low..Critical
    PROVE  Highest(F) >= s <=> \E f \in F : f.severity >= s
<1>1. CASE F = {}
  BY <1>1 DEF Highest, Info, Low, Critical
<1>2. CASE F # {}
  <2>1. PICK f \in F : f.severity = Highest(F)
    BY <1>2, HighestIs
  <2>2. \A g \in F : g.severity <= Highest(F) /\ g.severity \in Int
    BY <1>2, HighestIs DEF Severities, Info, Critical
  <2>. QED
    BY <2>1, <2>2 DEF Low, Critical
<1>. QED
  BY <1>1, <1>2

LEMMA OneGate ==
    ASSUME NEW F, \A f \in F : f.severity \in Severities, NEW s \in Low..Critical, NEW c, NEW errors \in BOOLEAN,
           c.failOn = s, c.policies = {[severity |-> s, scanner |-> Wildcard, action |-> "block"]}
    PROVE  /\ ShouldFail(c, F, errors) = PolicyFails(c, F, errors)
           /\ ShouldFail(c, F, errors) = CheckFails(c, F, errors)
<1>. DEFINE Reached == \E f \in F : f.severity >= s
            Erring == errors /\ c.failOnError \in {None, "yes"}
<1>1. s # None
  BY CommandsAssumption DEF Low, Critical
<1>2. FailsOnErrors(c, errors) <=> Erring
  BY <1>1 DEF FailsOnErrors
<1>3. ShouldFail(c, F, errors) <=> Erring \/ Reached
  BY <1>1, <1>2, HighestReaches DEF ShouldFail
<1>4. Blocked(c.policies, F) <=> Reached
  BY DEF Blocked, Matches, Names
<1>5. PolicyFails(c, F, errors) <=> Erring \/ Reached
  BY <1>4 DEF PolicyFails
<1>6. CheckFails(c, F, errors) <=> Erring \/ Reached
  BY <1>1 DEF CheckFails, FirstGiven
<1>. QED
  BY <1>3, <1>5, <1>6 DEF ShouldFail, PolicyFails, CheckFails

-----------------------------------------------------------------------------
(***************************************************************************)
(* Nothing gets lost on the way to the report.                             *)
(***************************************************************************)
\* The comments on one file.
CommentsOn(file) == [f \in {file} |-> {m \in tree.comments : m.file = f}]

LEMMA PipelineIs ==
    ASSUME NEW o \in Commands, tree \in Trees
    PROVE  LET c == Pipeline(o, tree, exceptions)
           IN  c.minSeverity \in Severities /\ c.trusted = Trusted(o)
BY ConfiguredIs DEF Pipeline

\* What the baseline or the range of the command takes out of a report is excused.
LEMMA ReportedOrExcused ==
    ASSUME NEW o, o.place # "site", NEW y, NEW g \in Combined(o, tree, exceptions), SamePlace(y, g)
    PROVE  g \in Report(o, tree, exceptions) \/ Excused(o, y)
<1>. DEFINE all == Combined(o, tree, exceptions) \cup o.probed
<1>1. Fingerprint(g) = Fingerprint(y) /\ \A scope : InDiff(g, scope) <=> InDiff(y, scope)
  BY DEF SamePlace, Fingerprint, InDiff
<1>2. g \in AfterBaseline(o, all) \/ (o.baseline /\ baseline # None /\ Fingerprint(y) \in baseline)
  BY <1>1 DEF AfterBaseline
<1>3. ASSUME g \in AfterBaseline(o, all)
      PROVE  \/ g \in AfterDiff(o, AfterBaseline(o, all))
             \/ o.diff \notin {None, Broken} /\ ~InDiff(y, o.diff)
  BY <1>1, <1>3 DEF AfterDiff
<1>4. Report(o, tree, exceptions) = AfterDiff(o, AfterBaseline(o, all))
  BY DEF Report
<1>. HIDE DEF all
<1>. QED
  BY <1>2, <1>3, <1>4 DEF Excused

\* A finding of the scan is in the scan's result, or what was kept of it is.
LEMMA NativeStays ==
    ASSUME code \subseteq Problems, today \in Nat, exceptions \in Seq(Entries), tree \in Trees,
           NEW o \in Commands, NEW f \in Detected(o)
    PROVE  \/ Excused(o, f)
           \/ Redundant(f, Ran(o))
           \/ \E y \in Detected(o) : /\ Linked(f, y, Detected(o))
                                     /\ y \in ScanResult(o, tree, exceptions) \/ Excused(o, y)
<1>. DEFINE F == Considered(o, tree)
            c == Pipeline(o, tree, exceptions)
<1>1. F \subseteq Detected(o)
  BY DEF Considered
<1>2. f \notin F => Excused(o, f)
  BY DEF Considered, Excused
<1>3. /\ IsFiniteSet(F) /\ Positions(F, ScannerPosition)
      /\ \A x \in F : IsFinding(x) /\ \E g \in Problems : x.file = g.file
  BY OpenIs
<1>4. c.minSeverity \in Severities
  BY PipelineIs
<1>5. ASSUME NEW x \in F, LeftOut(c, Comments(tree), x)
      PROVE  Excused(o, x)
  <2>1. Comments(tree)[x.file] = {m \in tree.comments : m.file = x.file}
    BY <1>3 DEF Comments
  <2>. QED
    BY <1>5, <2>1, LeftOutExcused
<1>. HIDE DEF F, c
<1>6. ASSUME f \in F
      PROVE  \/ LeftOut(c, Comments(tree), f)
             \/ Redundant(f, Ran(o))
             \/ \E y \in F : /\ Linked(f, y, F)
                             /\ \/ y \in Finish(c, None, F, Ran(o), Comments(tree), ScannerPosition).findings
                                \/ LeftOut(c, Comments(tree), y)
  BY <1>3, <1>4, <1>6, Finished
<1>7. Finish(c, None, F, Ran(o), Comments(tree), ScannerPosition).findings = ScanResult(o, tree, exceptions)
  BY DEF ScanResult, F, c
<1>8. \A y \in F : Linked(f, y, F) => Linked(f, y, Detected(o))
  BY <1>1 DEF Linked
<1>. QED
  BY <1>1, <1>2, <1>5, <1>6, <1>7, <1>8

\* A place of the merged list is in the report, or what it stands for is excused.
LEMMA PlaceStays ==
    ASSUME code \subseteq Problems, today \in Nat, exceptions \in Seq(Entries), tree \in Trees,
           NEW o \in Commands, o.place # "site",
           NEW i \in 1..Len(Merged(o, tree, exceptions)), NEW y, Rises(Merged(o, tree, exceptions)[i], y),
           i \notin 1..Len(Own(o, tree, exceptions)) => y.original = y.severity
    PROVE  Merged(o, tree, exceptions)[i] \in Report(o, tree, exceptions) \/ Excused(o, y)
<1>. DEFINE K == Merged(o, tree, exceptions)
            n == Len(Own(o, tree, exceptions))
            c == Pipeline(o, tree, exceptions)
            F == Imports(o, tree)
            open == Taken(o, tree, exceptions)
            D == {K[j] : j \in DOMAIN K \ 1..n}
            rest == Complete(c, None, F, open, D).findings
            g == K[i]
<1>1. SamePlace(y, g) /\ Rises(g, y)
  BY DEF Rises
<1>2. DOMAIN K = 1..Len(K)
  BY MergedIs, LenProperties
<1>3. Combined(o, tree, exceptions) = {K[j] : j \in 1..n} \cup rest
  BY CombinedIs
<1>4. c.minSeverity \in Severities
  BY PipelineIs
<1>5. CASE i \in 1..n
  <2>1. g \in {K[j] : j \in 1..n}
    BY <1>5
  <2>2. g \in Combined(o, tree, exceptions)
    BY <1>3, <2>1
  <2>. HIDE DEF g
  <2>3. g \in Report(o, tree, exceptions) \/ Excused(o, y)
    BY <1>1, <2>2, ReportedOrExcused
  <2>. QED
    BY <2>3 DEF g
<1>6. CASE i \notin 1..n
  <2>1. g \in D
    BY <1>2, <1>6
  <2>2. /\ g.severity \in Severities /\ g.original \in Severities /\ g.original <= g.severity
        /\ y.severity \in Severities /\ y.severity <= g.severity
    BY <1>1, <1>6 DEF Rises, Solid, Severities, Info, Critical
  <2>. HIDE DEF D, g, K, c, F, open, n
  <2>3. \/ g \in rest
        \/ g.severity < c.minSeverity
        \/ c.trusted /\ Excepted(g, c.exceptions, {"suppress"})
    BY <1>4, <2>1, <2>2, Completed
  <2>4. g.severity < c.minSeverity => y.severity < c.minSeverity
    BY <1>4, <2>2 DEF Severities, Info, Critical
  <2>5. Excepted(g, c.exceptions, {"suppress"}) => Excepted(y, c.exceptions, {"suppress"})
    BY <1>1 DEF Excepted, SamePlace
  <2>6. g \in rest \/ LeftOut(c, CommentsOn(y.file), y)
    BY <2>3, <2>4, <2>5 DEF LeftOut
  <2>. HIDE DEF rest
  <2>7. CASE g \in rest
    <3>1. g \in Combined(o, tree, exceptions)
      BY <1>3, <2>7
    <3>2. g \in Report(o, tree, exceptions) \/ Excused(o, y)
      BY <1>1, <3>1, ReportedOrExcused
    <3>. QED
      BY <3>2 DEF g, K
  <2>8. CASE LeftOut(c, CommentsOn(y.file), y)
    <3>1. CommentsOn(y.file)[y.file] = {m \in tree.comments : m.file = y.file}
      BY DEF CommentsOn
    <3>2. LeftOut(Pipeline(o, tree, exceptions), CommentsOn(y.file), y)
      BY <2>8 DEF c
    <3>. QED
      BY <3>1, <3>2, LeftOutExcused
  <2>. QED
    BY <2>6, <2>7, <2>8
<1>. QED
  BY <1>5, <1>6

\* An imported finding is left out for a reason, or it is taken.
LEMMA TakenOrExcused ==
    ASSUME today \in Nat, exceptions \in Seq(Entries), tree \in Trees,
           NEW o \in Commands, NEW f \in ToSet(FilesFound[o.files])
    PROVE  f \in Taken(o, tree, exceptions) \/ Excused(o, f)
<1>. DEFINE F == Imports(o, tree)
            c == Pipeline(o, tree, exceptions)
            comments == [file \in {x.file : x \in F} |-> {m \in tree.comments : m.file = file}]
<1>1. f \in F \/ Excused(o, f)
  BY DEF Imports, Excused
<1>2. Taken(o, tree, exceptions) = Unlisted(c, Uncommented(c, F, comments))
  BY DEF Taken, OpenImports
<1>3. ASSUME f \in F
      PROVE  comments[f.file] = {m \in tree.comments : m.file = f.file}
  BY <1>3
<1>. HIDE DEF F, comments
<1>4. ASSUME f \in F, f \notin Taken(o, tree, exceptions)
      PROVE  Excused(o, f)
  <2>1. LeftOut(c, comments, f)
    <3>. HIDE DEF c
    <3>. QED
      BY <1>2, <1>4 DEF Unlisted, Uncommented, LeftOut
  <2>. QED
    BY <1>3, <1>4, <2>1, LeftOutExcused
<1>. QED
  BY <1>1, <1>4

\* What it takes for a finding to be represented in the findings G of a report.
IsRepresented(o, f, G) ==
    LET F == LookedAt(o)
        imported == ToSet(FilesFound[o.files])
    IN  \/ Excused(o, f) \/ Redundant(f, Ran(o))
        \/ \E g \in G : Linked(f, g, F) /\ (f \in imported => g.severity >= f.severity)
        \/ \E g \in F \ {f} : Linked(f, g, F) /\ Excused(o, g)

\* A place of the merged list stands for f: it is in the report, or something is excused.
LEMMA ByPlace ==
    ASSUME code \subseteq Problems, today \in Nat, exceptions \in Seq(Entries), tree \in Trees,
           NEW o \in Commands, o.place # "site", NEW f \in LookedAt(o),
           NEW i \in 1..Len(Merged(o, tree, exceptions)), NEW y \in LookedAt(o),
           Rises(Merged(o, tree, exceptions)[i], y),
           i \notin 1..Len(Own(o, tree, exceptions)) => y.original = y.severity,
           Linked(f, y, LookedAt(o)),
           f \in ToSet(FilesFound[o.files]) => Merged(o, tree, exceptions)[i].severity >= f.severity
    PROVE  IsRepresented(o, f, Report(o, tree, exceptions))
<1>. DEFINE g == Merged(o, tree, exceptions)[i]
            G == Report(o, tree, exceptions)
            F == LookedAt(o)
            imported == ToSet(FilesFound[o.files])
<1>1. g \in G \/ Excused(o, y)
  BY PlaceStays
<1>2. Linked(f, g, F)
  BY LinkedSame DEF Rises, SamePlace, OnePlace
<1>3. f \in imported => g.severity >= f.severity
  OBVIOUS
<1>4. IsRepresented(o, f, G)
        <=> \/ Excused(o, f) \/ Redundant(f, Ran(o))
            \/ \E x \in G : Linked(f, x, F) /\ (f \in imported => x.severity >= f.severity)
            \/ \E x \in F \ {f} : Linked(f, x, F) /\ Excused(o, x)
  BY DEF IsRepresented
<1>. HIDE DEF g, G, F, imported
<1>5. y \in F /\ Linked(f, y, F)
  BY DEF F
<1>6. IsRepresented(o, f, G)
  BY <1>1, <1>2, <1>3, <1>4, <1>5
<1>. QED
  BY <1>6 DEF G

LEMMA NativeRepresented ==
    ASSUME code \subseteq Problems, today \in Nat, exceptions \in Seq(Entries), tree \in Trees,
           NEW o \in Commands, o.place # "site",
           NEW f \in Natives(o), f \notin ToSet(FilesFound[o.files])
    PROVE  IsRepresented(o, f, Report(o, tree, exceptions))
<1>. DEFINE F == LookedAt(o)
            K == Merged(o, tree, exceptions)
            own == Own(o, tree, exceptions)
<1>1. /\ Natives(o) = Detected(o) /\ own = Scanned(o, tree, exceptions)
  BY DEF Natives, Own
<1>2. Detected(o) \subseteq F /\ f \in Detected(o) /\ f \in F
  BY <1>1 DEF LookedAt
<1>3. CASE Excused(o, f) \/ Redundant(f, Ran(o))
  BY <1>3 DEF IsRepresented
<1>4. ASSUME NEW y \in Detected(o), Linked(f, y, Detected(o)), Excused(o, y)
      PROVE  IsRepresented(o, f, Report(o, tree, exceptions))
  <2>1. y \in F /\ Linked(f, y, F)
    BY <1>2, <1>4 DEF Linked
  <2>. QED
    BY <1>4, <2>1 DEF IsRepresented
<1>5. ASSUME NEW y \in Detected(o), Linked(f, y, Detected(o)), y \in ScanResult(o, tree, exceptions)
      PROVE  IsRepresented(o, f, Report(o, tree, exceptions))
  <2>1. y \in F /\ Linked(f, y, F)
    BY <1>2, <1>5 DEF Linked
  <2>2. y \in ToSet(own) /\ DOMAIN own = 1..Len(own)
    BY <1>1, <1>5, ScannedIs, LenProperties
  <2>3. PICK i \in 1..Len(own) : own[i] = y
    BY <2>2 DEF ToSet
  <2>4. Len(K) >= Len(own) /\ \A j \in 1..Len(own) : Rises(K[j], own[j])
    BY MergedIs DEF Folds
  <2>5. Len(K) \in Nat /\ Len(own) \in Nat
    BY MergedIs, PartsAre, LenProperties
  <2>6. i \in 1..Len(K) /\ Rises(K[i], y)
    BY <2>3, <2>4, <2>5
  <2>. HIDE DEF F, K, own
  <2>. QED
    BY <1>2, <2>1, <2>3, <2>6, ByPlace DEF F, K, own
<1>. QED
  BY <1>2, <1>3, <1>4, <1>5, NativeStays

LEMMA ImportRepresented ==
    ASSUME code \subseteq Problems, today \in Nat, exceptions \in Seq(Entries), tree \in Trees,
           NEW o \in Commands, o.place # "site", NEW f \in ToSet(FilesFound[o.files])
    PROVE  IsRepresented(o, f, Report(o, tree, exceptions))
<1>. DEFINE F == LookedAt(o)
            K == Merged(o, tree, exceptions)
            own == Own(o, tree, exceptions)
            open == Taken(o, tree, exceptions)
            found == ToSet(FilesFound[o.files])
<1>1. found \subseteq F /\ f \in F
  BY DEF LookedAt
<1>2. CASE Excused(o, f)
  BY <1>2 DEF IsRepresented
<1>3. CASE ~Excused(o, f)
  <2>1. f \in open
    BY <1>3, TakenOrExcused
  <2>2. Folds(K, own, open, open, F)
    BY MergedIs
  <2>3. PICK i \in 1..Len(K) : StandsAt(K, i, f, own, F)
    BY <2>1, <2>2 DEF Folds
  <2>4. PICK y \in F : Rises(K[i], y) /\ (i \notin 1..Len(own) => y.original = y.severity)
    <3>1. CASE i \in 1..Len(own)
      BY <2>2, <2>3, <3>1 DEF Folds, StandsAt
    <3>2. CASE i \notin 1..Len(own)
      <4>1. Len(K) \in Nat /\ Len(own) \in Nat
        BY MergedIs, PartsAre, LenProperties
      <4>2. i \in (Len(own) + 1)..Len(K)
        BY <3>2, <4>1
      <4>3. PICK z \in open : Rises(K[i], z)
        BY <2>2, <4>2 DEF Folds
      <4>4. z \in found
        BY DEF Taken, OpenImports, Unlisted, Uncommented, Imports
      <4>5. z.original = z.severity
        BY <4>4, PartsAre
      <4>. QED
        BY <1>1, <4>3, <4>4, <4>5
    <3>. QED
      BY <3>1, <3>2
  <2>5. Linked(f, y, F)
    <3>1. OnePlace(K[i], y) /\ OnePlace(f, f)
      BY <2>4 DEF Rises, SamePlace, OnePlace
    <3>. QED
      BY <2>3, <3>1, LinkedSame DEF StandsAt
  <2>6. K[i].severity >= f.severity
    BY <2>3 DEF StandsAt
  <2>. HIDE DEF F, K, own
  <2>. QED
    BY <1>1, <2>4, <2>5, <2>6, ByPlace DEF F, K, own
<1>. QED
  BY <1>2, <1>3

-----------------------------------------------------------------------------
(***************************************************************************)
(* The inductive invariant: what an answer was made from is still there    *)
(* while it is read.                                                       *)
(***************************************************************************)
\* What a report was made from is still there while it is read.
Answers ==
    /\ code \subseteq Problems /\ tree \in Trees /\ exceptions \in Seq(Entries) /\ today \in Nat
    /\ last # NoRun => /\ last.command \in Commands
                       /\ last.status \in {0, 1} =>
                             last.findings = Report(last.command, tree, exceptions)

LEMMA AnswersStep == Answers /\ [Next]_vars => Answers'
<1>. SUFFICES ASSUME Answers, [Next]_vars
              PROVE  Answers'
  OBVIOUS
<1>1. ASSUME NEW o \in Commands, Refuse(o)
      PROVE  Answers'
  <2>1. last'.command = o /\ last'.status = 2 /\ UNCHANGED <<code, tree, exceptions, today>>
    BY <1>1 DEF Refuse, Outcome, project
  <2>. QED
    BY <2>1 DEF Answers
<1>2. ASSUME NEW o \in Commands, Run(o)
      PROVE  Answers'
  <2>1. /\ last'.command = o /\ last'.findings = Report(o, tree, exceptions)
        /\ UNCHANGED <<code, working, tree, exceptions, today>>
        /\ o.cmd # "baseline" => UNCHANGED baseline
    BY <1>2 DEF Run, Answer, Outcome, project
  <2>2. o.baseline => UNCHANGED baseline
    BY <2>1, CommandsAssumption DEF IsCommand
  <2>3. ASSUME NEW t, NEW e
        PROVE  Report(o, t, e)' = Report(o, t, e)
    BY <2>1, <2>2, SameLater
  <2>. QED
    BY <2>1, <2>3 DEF Answers
<1>3. CASE UNCHANGED <<today, code, working, tree, exceptions, baseline, last>>
  <2>1. ASSUME NEW o, NEW t, NEW e
        PROVE  Report(o, t, e)' = Report(o, t, e)
    BY <1>3, SameLater
  <2>. QED
    BY <1>3, <2>1 DEF Answers
<1>4. ASSUME NEW f \in Problems, Develop(f)
      PROVE  Answers'
  BY <1>4 DEF Develop, Answers
<1>5. ASSUME NEW p, Revoke(p)
      PROVE  Answers'
  BY <1>5 DEF Revoke, Answers
<1>6. ASSUME NEW entry \in Entries, AddException(entry)
      PROVE  Answers'
  <2>1. exceptions' \in Seq(Entries)
    BY <1>6, AppendProperties DEF AddException, Answers
  <2>. QED
    BY <1>6, <2>1 DEF AddException, Answers
<1>7. CASE Proceed
  BY <1>7 DEF Proceed, project, Answers
<1>8. CASE NextDay
  BY <1>8 DEF NextDay, project, Answers
<1>. QED
  BY <1>1, <1>2, <1>3, <1>4, <1>5, <1>6, <1>7, <1>8 DEF Next, vars, project

\* A problem that the scan finds or another tool reports is in the report, is excused, or
\* was folded into one that is; and no report of another tool loses severity on the way
\* (engine._finish, merge_findings, apply_exceptions, apply_baseline, apply_diff).
THEOREM NothingLost == Spec => []Represented
<1>1. Init => Answers
  BY DEF Init, Answers
<1>2. Answers => Represented
  <2>. SUFFICES ASSUME Answers, last # NoRun, last.status \in {0, 1}, last.command.place # "site"
                PROVE  LET o == last.command
                       IN  AllRepresented(o, Natives(o), ToSet(FilesFound[o.files]))
    BY DEF Represented, Answered
  <2>. DEFINE o == last.command
              found == ToSet(FilesFound[o.files])
  <2>1. o \in Commands /\ last.findings = Report(o, tree, exceptions) /\ o.place # "site"
    BY DEF Answers
  <2>. HIDE DEF o
  <2>2. ASSUME NEW f \in LookedAt(o)
        PROVE  IsRepresented(o, f, last.findings)
    <3>1. CASE f \in found
      BY <2>1, <3>1, ImportRepresented DEF Answers
    <3>2. CASE f \notin found
      <4>1. f \in Natives(o)
        BY <3>2 DEF LookedAt
      <4>. QED
        BY <2>1, <3>2, <4>1, NativeRepresented DEF Answers
    <3>. QED
      BY <3>1, <3>2
  <2>3. AllRepresented(o, Natives(o), found)
    BY <2>2 DEF AllRepresented, IsRepresented, LookedAt, Redundant
  <2>. QED
    BY <2>3 DEF o
<1>. QED
  BY <1>1, <1>2, AnswersStep, PTL DEF Spec

\* Each result of an imported file is a finding, is left out for one of the reasons there
\* are, or repeats a result that is a finding, and no finding lies outside the project
\* (importers/sarif.py, importers/_paths.py).
THEOREM ResultsAccounted == Spec => []ImportAccounted
<1>1. Init => Answers
  BY DEF Init, Answers
<1>2. Answers => ImportAccounted
  <2>. SUFFICES ASSUME Answers, last # NoRun
                PROVE  AllAccounted(last.command.files, FilesFound[last.command.files])
    BY DEF ImportAccounted, Answered
  <2>1. last.command \in Commands /\ AreFiles(last.command.files)
    BY CommandsAssumption DEF Answers, IsCommand, AreFiles
  <2>2. FilesFound[last.command.files] = ImportAll(last.command.files)
    BY <2>1 DEF FilesFound
  <2>. QED
    BY <2>1, <2>2, Accounted
<1>. QED
  BY <1>1, <1>2, AnswersStep, PTL DEF Spec

\* The same findings pass or fail alike, whichever command gates them: --fail-on, a policy
\* that blocks that severity, a check of files (should_fail, policy/engine.py, check.py).
THEOREM GatesAlike == Spec => []GatesAgree
<1>1. Init => Answers
  BY DEF Init, Answers
<1>2. Answers => GatesAgree
  <2>. SUFFICES ASSUME Answers, last # NoRun, last.status \in {0, 1}, NEW s \in Low..Critical, NEW errors \in BOOLEAN
                PROVE  LET c == [Configured(last.command, tree) EXCEPT !.failOn = s,
                                   !.policies = {[severity |-> s, scanner |-> Wildcard, action |-> "block"]}]
                       IN  /\ ShouldFail(c, last.findings, errors) = PolicyFails(c, last.findings, errors)
                           /\ ShouldFail(c, last.findings, errors) = CheckFails(c, last.findings, errors)
    BY DEF GatesAgree, Answered
  <2>. DEFINE b == Configured(last.command, tree)
              d == [b EXCEPT !.failOn = s]
              p == {[severity |-> s, scanner |-> Wildcard, action |-> "block"]}
              c == [d EXCEPT !.policies = p]
  <2>1. "failOn" \in DOMAIN b /\ "policies" \in DOMAIN b
    BY ConfiguredIs DEF Answers
  <2>. HIDE DEF b
  <2>2. c.failOn = s /\ c.policies = p
    BY <2>1
  <2>3. [b EXCEPT !.failOn = s, !.policies = p] = c
    OBVIOUS
  <2>4. \A f \in last.findings : f.severity \in Severities
    BY ReportSevere DEF Answers
  <2>. HIDE DEF c, d
  <2>5. /\ ShouldFail(c, last.findings, errors) = PolicyFails(c, last.findings, errors)
        /\ ShouldFail(c, last.findings, errors) = CheckFails(c, last.findings, errors)
    BY <2>2, <2>4, OneGate
  <2>. QED
    BY <2>3, <2>5 DEF b
<1>. QED
  BY <1>1, <1>2, AnswersStep, PTL DEF Spec
===============================================================================
