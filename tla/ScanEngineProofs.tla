--------------------------- MODULE ScanEngineProofs ---------------------------
(***************************************************************************)
(* Theorems about ScanEngine, for any number of scans, scanners, files,    *)
(* texts and configurations: the shared cache stays true to its keys, no   *)
(* scan reports findings of another text, no finding gets lost between the *)
(* scanner and the report, and the gate tells.  The invariant Honest says  *)
(* what each scanner has found at each point of its run; Upright adds what *)
(* the report is made of.                                                  *)
(***************************************************************************)
EXTENDS ScanEngine, FiniteSetTheorems, SequenceTheorems, TLAPS

\* Whatever is away now was away at some time.
Away == \A f \in Files : disk[f] = Gone => f \in vanished

\* One entry per key.
OneEach(entries) ==
    \A d, e \in entries : d.scanner = e.scanner /\ d.file = e.file => d = e

\* The findings of a set of pairs that concern file f.
Slice(pairs, f) == {p[2] : p \in {q \in pairs : q[1] = f}}

\* With or without the AST tier, for a cached scanner; as configured otherwise.
Tiers(c, s) == IF Cached(c, s) THEN BOOLEAN ELSE {AstRunning(c)}

\* The code v with configuration c and scanner s has found, in the file f that reads t,
\* what it makes of t; or nothing, if f was away.
Says(away, v, c, s, f, t, pairs) ==
    \/ /\ t # Unread
       /\ \E ast \in Tiers(c, s) :
             Slice(pairs, f) = Reports(v, s, c.options[s], Sanitizers(c, s), ast, t)
    \/ Slice(pairs, f) = {} /\ f \in away

Finds(r, s, f) == Says(vanished, code[r], config[r], s, f, text[r][f], found[r][s])

\* A scanner between the lookup and the scan of what it missed.
Looked(r, s) ==
    /\ Cached(config[r], s)
    /\ missed[r][s] \subseteq listed[r]
    /\ \A f \in listed[r] : text[r][f] # Unread
    /\ \A f \in listed[r] \ missed[r][s] : Finds(r, s, f)
    /\ \A f \in missed[r][s] : Slice(found[r][s], f) = {}

Worked(r, s) ==
    /\ worker[r][s] \in {"out", "ready", "failed"} => found[r][s] = {}
    /\ worker[r][s] = "looked" => Looked(r, s)
    /\ worker[r][s] = "ok" => \A f \in listed[r] : Finds(r, s, f)

Table(f, S) == f = [x \in S |-> f[x]]

Shape ==
    /\ Table(memory, Runs)
    /\ Table(found, Runs)
    /\ \A r \in Runs : Table(found[r], Scanners)
    /\ \A r \in Runs : pc[r] = "idle" => \A s \in Scanners : worker[r][s] = "out"

\* CacheSound and OneEach for the entries of one cache of the code v.
Good(away, v, entries) ==
    /\ OneEach(entries)
    /\ \A e \in entries :
          \/ \E ast \in BOOLEAN :
                e.issues = Reports(v, e.scanner[1], e.scanner[2], e.scanner[3], ast, e.file[2])
          \/ e.issues = {} /\ e.file[1] \in away

Cache ==
    /\ Good(vanished, store.code, store.entries)
    /\ \A r \in Runs : Good(vanished, code[r], memory[r])

Honest ==
    /\ TypeOK
    /\ Shape
    /\ Away
    /\ Cache
    /\ \A r \in Runs, s \in Scanners : Worked(r, s)

-----------------------------------------------------------------------------

LEMMA SliceOfUnion ==
    ASSUME NEW P, NEW Q, NEW f
    PROVE  Slice(P \cup Q, f) = Slice(P, f) \cup Slice(Q, f)
BY DEF Slice

LEMMA SliceOfNone == ASSUME NEW f PROVE Slice({}, f) = {}
BY DEF Slice

\* What is unread may be read; what is read stays.
LEMMA Reading ==
    ASSUME TypeOK, NEW r \in Runs, NEW fs \in SUBSET Files
    PROVE  /\ ReadTexts(r, fs) \in [Files -> Texts \cup {Unread}]
           /\ \A f \in Files : text[r][f] # Unread => ReadTexts(r, fs)[f] = text[r][f]
           /\ \A f \in fs : ReadTexts(r, fs)[f] # Unread
BY ScanAssumption DEF TypeOK, ReadTexts

\* Each step keeps the type of every variable.
LEMMA TypeInit == Init => TypeOK
BY ScanAssumption DEF Init, TypeOK, Idle

LEMMA TypeStep == TypeOK /\ [Next]_vars => TypeOK'
<1>. SUFFICES ASSUME TypeOK, [Next]_vars
              PROVE  TypeOK'
  OBVIOUS
<1>1. ASSUME NEW r \in Runs, Start(r)
      PROVE  TypeOK'
  <2>1. PICK c \in Configs, broken \in SUBSET Scanners, unreadable \in SUBSET {r} :
          /\ faults' = faults + Cardinality(broken) + Cardinality(unreadable)
          /\ faults' <= MaxFaults
          /\ config' = [config EXCEPT ![r] = c]
          /\ worker' = [worker EXCEPT ![r] =
                [s \in Scanners |-> IF s \in broken THEN "failed"
                                    ELSE IF s \in Selected(c) THEN "ready" ELSE "out"]]
    BY <1>1 DEF Start
  <2>2. faults' \in Nat
    <3>1. IsFiniteSet(broken) /\ IsFiniteSet(unreadable)
      BY ScanAssumption, FS_Subset, FS_Singleton
    <3>2. Cardinality(broken) \in Nat /\ Cardinality(unreadable) \in Nat
      BY <3>1, FS_CardinalityType
    <3>. QED
      BY <2>1, <3>2 DEF TypeOK
  <2>3. version' \in Nat
    BY <1>1, ScanAssumption DEF Start, TypeOK
  <2>4. config' \in [Runs -> Configs \cup {None}]
    BY <2>1 DEF TypeOK
  <2>5. worker' \in [Runs -> [Scanners -> {"out", "ready", "looked", "ok", "failed"}]]
    BY <2>1 DEF TypeOK
  <2>. QED
    BY <1>1, <2>2, <2>3, <2>4, <2>5 DEF Start, TypeOK
<1>2. ASSUME NEW r \in Runs, NEW s \in Scanners, LookUp(r, s)
      PROVE  TypeOK'
  <2>1. ReadTexts(r, listed[r]) \in [Files -> Texts \cup {Unread}]
    BY Reading DEF TypeOK
  <2>. QED
    BY <1>2, <2>1 DEF LookUp, TypeOK, project, start
<1>3. ASSUME NEW r \in Runs, NEW s \in Scanners, ScanMissed(r, s)
      PROVE  TypeOK'
  BY <1>3 DEF ScanMissed, TypeOK, project, start
<1>4. ASSUME NEW r \in Runs, NEW s \in Scanners, ScanAll(r, s)
      PROVE  TypeOK'
  <2>1. ReadTexts(r, {f \in listed[r] : disk[f] # Gone}) \in [Files -> Texts \cup {Unread}]
    <3>1. {f \in listed[r] : disk[f] # Gone} \in SUBSET Files
      BY DEF TypeOK
    <3>. QED
      BY <3>1, Reading
  <2>. QED
    BY <1>4, <2>1 DEF ScanAll, TypeOK, project, start
<1>5. ASSUME NEW r \in Runs, NEW s \in Scanners, ScannerFails(r, s)
      PROVE  TypeOK'
  <2>1. PICK fs \in SUBSET listed[r] : text' = [text EXCEPT ![r] = ReadTexts(r, fs)]
    BY <1>5 DEF ScannerFails
  <2>2. ReadTexts(r, fs) \in [Files -> Texts \cup {Unread}]
    <3>1. fs \in SUBSET Files
      BY DEF TypeOK
    <3>. QED
      BY <3>1, Reading
  <2>. QED
    BY <1>5, <2>1, <2>2 DEF ScannerFails, TypeOK, project, start
<1>6. ASSUME NEW r \in Runs, Save(r) \/ SaveFails(r)
      PROVE  TypeOK'
  <2>1. pc' = [pc EXCEPT ![r] = "saved"] /\ faults' \in {faults, faults + 1}
    BY <1>6 DEF Save, SaveFails
  <2>2. UNCHANGED <<project, start, progress>>
    BY <1>6 DEF Save, SaveFails
  <2>. QED
    BY <2>1, <2>2 DEF TypeOK, project, start, progress
<1>7. ASSUME NEW r \in Runs, Report(r)
      PROVE  TypeOK'
  BY <1>7 DEF Report, TypeOK, project, start
<1>8. ASSUME NEW r \in Runs, Die(r)
      PROVE  TypeOK'
  BY <1>8 DEF Die, TypeOK, Idle, project, start
<1>9. ASSUME NEW f \in Files, Edit(f)
      PROVE  TypeOK'
  BY <1>9 DEF Edit, TypeOK, start, progress
<1>10. ASSUME UNCHANGED vars
       PROVE  TypeOK'
  BY <1>10 DEF vars, TypeOK, project, start, progress
<1>. QED
  BY <1>1, <1>2, <1>3, <1>4, <1>5, <1>6, <1>7, <1>8, <1>9, <1>10 DEF Next, RunStep

-----------------------------------------------------------------------------

\* Files change by edits only.
LEMMA OnlyEdits == [Next]_vars => (\E f \in Files : Edit(f)) \/ UNCHANGED <<disk, vanished>>
<1>. SUFFICES ASSUME Next \/ UNCHANGED vars, ~\E f \in Files : Edit(f)
              PROVE  UNCHANGED <<disk, vanished>>
  OBVIOUS
<1>1. ASSUME NEW r \in Runs, Start(r)
      PROVE  UNCHANGED <<disk, vanished>>
  BY <1>1 DEF Start
<1>2. ASSUME NEW r \in Runs, NEW s \in Scanners,
             LookUp(r, s) \/ ScanMissed(r, s) \/ ScanAll(r, s) \/ ScannerFails(r, s)
      PROVE  UNCHANGED project
  BY <1>2, Zenon DEF LookUp, ScanMissed, ScanAll, ScannerFails
<1>3. ASSUME NEW r \in Runs, Save(r) \/ SaveFails(r) \/ Report(r) \/ Die(r)
      PROVE  UNCHANGED project
  BY <1>3, Zenon DEF Save, SaveFails, Report, Die
<1>4. ASSUME UNCHANGED vars
      PROVE  UNCHANGED project
  BY <1>4 DEF vars
<1>. QED
  BY <1>1, <1>2, <1>3, <1>4 DEF Next, RunStep, project

\* A file that was away once stays in vanished, and one that is away is in it.
LEMMA VanishedGrows == [Next]_vars => vanished \subseteq vanished'
<1>1. ASSUME NEW f \in Files, Edit(f)
      PROVE  vanished \subseteq vanished'
  BY <1>1 DEF Edit
<1>. QED
  BY <1>1, OnlyEdits

LEMMA AwayStep == TypeOK /\ Away /\ [Next]_vars => Away'
<1>. SUFFICES ASSUME TypeOK, Away, [Next]_vars
              PROVE  Away'
  OBVIOUS
<1>1. ASSUME NEW f \in Files, Edit(f)
      PROVE  Away'
  BY <1>1 DEF Edit, Away, TypeOK
<1>2. ASSUME UNCHANGED <<disk, vanished>>
      PROVE  Away'
  BY <1>2 DEF Away
<1>. QED
  BY <1>1, <1>2, OnlyEdits

LEMMA TableExcept ==
    ASSUME NEW S, NEW f, Table(f, S), NEW a \in S, NEW v
    PROVE  /\ Table([f EXCEPT ![a] = v], S)
           /\ [f EXCEPT ![a] = v][a] = v
           /\ \A x \in S \ {a} : [f EXCEPT ![a] = v][x] = f[x]
BY DEF Table

LEMMA ShapeStep == TypeOK /\ Shape /\ [Next]_vars => Shape'
<1>. SUFFICES ASSUME TypeOK, Shape, [Next]_vars
              PROVE  Shape'
  OBVIOUS
<1>. DEFINE Idles == \A r \in Runs : pc[r] = "idle" => \A s \in Scanners : worker[r][s] = "out"
            Founds == Table(found, Runs) /\ \A r \in Runs : Table(found[r], Scanners)
<1>1. UNCHANGED memory => Table(memory, Runs)'
  BY DEF Shape
<1>2. ASSUME NEW r \in Runs, NEW m, memory' = [memory EXCEPT ![r] = m]
      PROVE  Table(memory, Runs)'
  BY <1>2, TableExcept DEF Shape
<1>3. UNCHANGED found => Founds'
  BY DEF Shape
<1>4. ASSUME NEW r \in Runs, NEW x, found' = [found EXCEPT ![r] = x], Table(x, Scanners)
      PROVE  Founds'
  <2>1. Table(found, Runs)' /\ found'[r] = x /\ \A q \in Runs \ {r} : found'[q] = found[q]
    <3>1. Table(found, Runs)
      BY DEF Shape
    <3>2. /\ Table([found EXCEPT ![r] = x], Runs)
          /\ [found EXCEPT ![r] = x][r] = x
          /\ \A q \in Runs \ {r} : [found EXCEPT ![r] = x][q] = found[q]
      BY <3>1 DEF Table
    <3>. QED
      BY <3>2, <1>4, Zenon
  <2>2. ASSUME NEW q \in Runs
        PROVE  Table(found'[q], Scanners)
    BY <1>4, <2>1 DEF Shape
  <2>. QED
    BY <2>1, <2>2
<1>5. ASSUME NEW r \in Runs, NEW s \in Scanners, NEW x, found' = [found EXCEPT ![r][s] = x]
      PROVE  Founds'
  <2>1. found' = [found EXCEPT ![r] = [found[r] EXCEPT ![s] = x]]
    BY <1>5
  <2>2. Table([found[r] EXCEPT ![s] = x], Scanners)
    BY TableExcept DEF Shape
  <2>. QED
    BY <2>1, <2>2, <1>4
<1>6. UNCHANGED <<pc, worker>> => Idles'
  BY DEF Shape
<1>7. ASSUME NEW r \in Runs, NEW p, p # "idle", pc' = [pc EXCEPT ![r] = p],
             worker' = worker \/ \E w : worker' = [worker EXCEPT ![r] = w]
      PROVE  Idles'
  BY <1>7 DEF Shape, TypeOK
<1>8. ASSUME NEW r \in Runs, pc[r] # "idle", pc' = pc,
             NEW s \in Scanners, NEW w, worker' = [worker EXCEPT ![r][s] = w]
      PROVE  Idles'
  BY <1>8 DEF Shape, TypeOK
<1>11. ASSUME NEW r \in Runs, Start(r)
       PROVE  Shape'
  <2>1. Table(memory, Runs)'
    BY <1>11, <1>2 DEF Start
  <2>2. Founds'
    BY <1>11, <1>3 DEF Start
  <2>3. Idles'
    <3>1. pc' = [pc EXCEPT ![r] = "scanning"] /\ \E w : worker' = [worker EXCEPT ![r] = w]
      BY <1>11 DEF Start
    <3>. QED
      BY <3>1, <1>7
  <2>. QED
    BY <2>1, <2>2, <2>3 DEF Shape
<1>12. ASSUME NEW r \in Runs, NEW s \in Scanners,
              LookUp(r, s) \/ ScanMissed(r, s) \/ ScanAll(r, s) \/ ScannerFails(r, s)
       PROVE  Shape'
  <2>1. Table(memory, Runs)'
    BY <1>12, <1>1, <1>2, Zenon DEF LookUp, ScanMissed, ScanAll, ScannerFails
  <2>2. Founds'
    <3>1. PICK x : found' = [found EXCEPT ![r][s] = x]
      BY <1>12, Zenon DEF LookUp, ScanMissed, ScanAll, ScannerFails
    <3>. QED
      BY <3>1, <1>5
  <2>3. Idles'
    <3>1. pc' = pc /\ pc[r] # "idle"
      BY <1>12 DEF LookUp, ScanMissed, ScanAll, ScannerFails
    <3>2. PICK w : worker' = [worker EXCEPT ![r][s] = w]
      BY <1>12 DEF LookUp, ScanMissed, ScanAll, ScannerFails
    <3>. QED
      BY <3>1, <3>2, <1>8
  <2>. QED
    BY <2>1, <2>2, <2>3 DEF Shape
<1>13. ASSUME NEW r \in Runs, Save(r) \/ SaveFails(r)
       PROVE  Shape'
  <2>1. pc' = [pc EXCEPT ![r] = "saved"] /\ UNCHANGED <<memory, worker, found>>
    BY <1>13 DEF Save, SaveFails, progress
  <2>. QED
    BY <2>1, <1>1, <1>3, <1>7 DEF Shape
<1>14. ASSUME NEW r \in Runs, Report(r)
       PROVE  Shape'
  <2>1. /\ pc' = [pc EXCEPT ![r] = "done"] /\ memory' = [memory EXCEPT ![r] = {}]
        /\ UNCHANGED <<worker, found>>
    BY <1>14 DEF Report
  <2>. QED
    BY <2>1, <1>2, <1>3, <1>7 DEF Shape
<1>15. ASSUME NEW r \in Runs, Die(r)
       PROVE  Shape'
  <2>1. /\ pc' = [pc EXCEPT ![r] = "dead"] /\ memory' = [memory EXCEPT ![r] = {}]
        /\ \E w : worker' = [worker EXCEPT ![r] = w]
        /\ found' = [found EXCEPT ![r] = [s \in Scanners |-> {}]]
    BY <1>15 DEF Die
  <2>2. Table([s \in Scanners |-> {}], Scanners)
    BY DEF Table
  <2>3. Idles'
    BY <2>1, <1>7
  <2>4. Founds'
    BY <2>1, <2>2, <1>4
  <2>. QED
    BY <2>1, <2>3, <2>4, <1>2 DEF Shape
<1>16. ASSUME NEW f \in Files, Edit(f)
       PROVE  Shape'
  BY <1>16, <1>1, <1>3, <1>6 DEF Edit, Shape, progress
<1>17. ASSUME UNCHANGED vars
       PROVE  Shape'
  BY <1>17, <1>1, <1>3, <1>6 DEF vars, Shape, progress
<1>. QED
  BY <1>11, <1>12, <1>13, <1>14, <1>15, <1>16, <1>17 DEF Next, RunStep

-----------------------------------------------------------------------------

LEMMA GoodStays ==
    ASSUME NEW away, NEW more, away \subseteq more, NEW v, NEW entries, Good(away, v, entries)
    PROVE  Good(more, v, entries)
BY DEF Good

LEMMA GoodNone == ASSUME NEW away, NEW v PROVE Good(away, v, {})
BY DEF Good, OneEach

LEMMA GoodLoaded ==
    ASSUME NEW away, NEW v, Good(away, store.code, store.entries)
    PROVE  Good(away, v, Loaded(v))
BY GoodNone DEF Loaded

\* New entries with one file key each replace those of their keys.
LEMMA GoodUpdated ==
    ASSUME NEW away, NEW v, NEW entries, Good(away, v, entries),
           NEW new, Good(away, v, new), NEW skey, NEW live,
           \A n \in new : n.scanner = skey
    PROVE  Good(away, v, Updated(entries, skey, new, live))
<1>. DEFINE U == Updated(entries, skey, new, live)
<1>1. ASSUME NEW d \in U, NEW e \in U, d.scanner = e.scanner, d.file = e.file
      PROVE  d = e
  <2>1. CASE d.scanner = skey /\ d \in new
    <3>1. e \in new
      BY <1>1, <2>1 DEF Updated
    <3>. QED
      BY <1>1, <2>1, <3>1 DEF Good, OneEach
  <2>2. CASE d.scanner = skey /\ d \notin new
    <3>1. d \in entries /\ e \notin new /\ e \in entries
      BY <1>1, <2>2 DEF Updated
    <3>. QED
      BY <1>1, <3>1 DEF Good, OneEach
  <2>3. CASE d.scanner # skey
    <3>1. d \in entries /\ e \in entries
      BY <1>1, <2>3 DEF Updated
    <3>. QED
      BY <1>1, <3>1 DEF Good, OneEach
  <2>. QED
    BY <2>1, <2>2, <2>3
<1>2. \A e \in U : e \in entries \/ e \in new
  BY DEF Updated
<1>. QED
  BY <1>1, <1>2 DEF Good, OneEach

\* The findings of some scanned files, sliced by file.
LEMMA ScannedSlice ==
    ASSUME NEW r, NEW s, NEW fs, NEW T, NEW f
    PROVE  Slice(Scanned(r, s, fs, T), f) =
               IF f \in fs /\ disk[f] # Gone THEN Detected(r, s, T[f]) ELSE {}
<1>. DEFINE P == Scanned(r, s, fs, T)
<1>1. ASSUME NEW x \in Slice(P, f)
      PROVE  f \in fs /\ disk[f] # Gone /\ x \in Detected(r, s, T[f])
  <2>1. PICK q \in P : q[1] = f /\ q[2] = x
    BY <1>1 DEF Slice
  <2>2. PICK g \in {h \in fs : disk[h] # Gone} : q \in {<<g, i>> : i \in Detected(r, s, T[g])}
    BY <2>1 DEF Scanned
  <2>3. PICK i \in Detected(r, s, T[g]) : q = <<g, i>>
    BY <2>2
  <2>. QED
    BY <2>1, <2>2, <2>3
<1>2. ASSUME f \in fs, disk[f] # Gone, NEW x \in Detected(r, s, T[f])
      PROVE  x \in Slice(P, f)
  <2>1. <<f, x>> \in P
    BY <1>2 DEF Scanned
  <2>. QED
    BY <2>1 DEF Slice
<1>. QED
  BY <1>1, <1>2

\* The entries that ScanMissed stores.
Fresh(r, s, fs) ==
    {Stored(ScannerKey(config[r], s), FileKey(f, text[r][f]),
            Slice(Scanned(r, s, fs, text[r]), f)) : f \in fs}

LEMMA GoodFresh ==
    ASSUME Away, NEW r, NEW s, NEW fs \in SUBSET Files
    PROVE  /\ Good(vanished, code[r], Fresh(r, s, fs))
           /\ \A n \in Fresh(r, s, fs) : n.scanner = ScannerKey(config[r], s)
<1>1. ASSUME NEW d \in Fresh(r, s, fs), NEW e \in Fresh(r, s, fs), d.file = e.file
      PROVE  d = e
  <2>1. PICK f \in fs : d = Stored(ScannerKey(config[r], s), FileKey(f, text[r][f]),
                                   Slice(Scanned(r, s, fs, text[r]), f))
    BY DEF Fresh
  <2>2. PICK g \in fs : e = Stored(ScannerKey(config[r], s), FileKey(g, text[r][g]),
                                   Slice(Scanned(r, s, fs, text[r]), g))
    BY DEF Fresh
  <2>3. FileKey(f, text[r][f]) = FileKey(g, text[r][g])
    BY <1>1, <2>1, <2>2 DEF Stored
  <2>4. f = g
    BY <2>3 DEF FileKey
  <2>. QED
    BY <2>1, <2>2, <2>4
<1>2. ASSUME NEW e \in Fresh(r, s, fs)
      PROVE  /\ e.scanner = ScannerKey(config[r], s)
             /\ \/ \E ast \in BOOLEAN :
                      e.issues = Reports(code[r], e.scanner[1], e.scanner[2], e.scanner[3], ast,
                                         e.file[2])
                \/ e.issues = {} /\ e.file[1] \in vanished
  <2>1. PICK f \in fs : e = Stored(ScannerKey(config[r], s), FileKey(f, text[r][f]),
                                   Slice(Scanned(r, s, fs, text[r]), f))
    BY DEF Fresh
  <2>2. /\ e.scanner = <<s, config[r].options[s], Sanitizers(config[r], s)>>
        /\ e.file = <<f, text[r][f]>>
        /\ e.issues = Slice(Scanned(r, s, fs, text[r]), f)
    BY <2>1 DEF Stored, ScannerKey, FileKey
  <2>3. CASE disk[f] # Gone
    <3>1. e.issues = Detected(r, s, text[r][f])
      BY <2>2, <2>3, ScannedSlice
    <3>2. AstRunning(config[r]) \in BOOLEAN
      BY DEF AstRunning
    <3>. QED
      BY <2>2, <3>1, <3>2 DEF Detected, ScannerKey
  <2>4. CASE disk[f] = Gone
    <3>1. e.issues = {}
      BY <2>2, <2>4, ScannedSlice
    <3>. QED
      BY <2>2, <2>4, <3>1 DEF Away, ScannerKey
  <2>. QED
    BY <2>3, <2>4
<1>. QED
  BY <1>1, <1>2 DEF Good, OneEach

\* What ScanMissed does to the caches.
LEMMA ScanMissedStores ==
    ASSUME NEW r \in Runs, NEW s \in Scanners, ScanMissed(r, s)
    PROVE  \E live : memory' = [memory EXCEPT ![r] =
                        Updated(memory[r], ScannerKey(config[r], s), Fresh(r, s, missed[r][s]), live)]
<1>. DEFINE live == {FileKey(f, text[r][f]) : f \in listed[r]}
<1>1. memory' = [memory EXCEPT ![r] =
                    Updated(memory[r], ScannerKey(config[r], s), Fresh(r, s, missed[r][s]), live)]
  BY DEF ScanMissed, Fresh, Slice
<1>. QED
  BY <1>1

\* The caches of all runs stay good when one changes.
LEMMA GoodEvery ==
    ASSUME TypeOK, Shape, Cache, [Next]_vars,
           NEW r \in Runs, code' = [code EXCEPT ![r] = code'[r]],
           NEW entries, memory' = [memory EXCEPT ![r] = entries],
           Good(vanished, code'[r], entries), store' = store
    PROVE  Cache'
<1>1. vanished \subseteq vanished'
  BY VanishedGrows
<1>2. Good(vanished', store.code, store.entries)
  BY <1>1, GoodStays DEF Cache
<1>3. ASSUME NEW q \in Runs
      PROVE  Good(vanished', code'[q], memory'[q])
  <2>1. CASE q = r
    <3>1. memory'[q] = entries
      BY <2>1, TableExcept DEF Shape
    <3>. QED
      BY <2>1, <3>1, <1>1, GoodStays
  <2>2. CASE q # r
    <3>1. memory'[q] = memory[q] /\ code'[q] = code[q]
      BY <2>2, TableExcept DEF Shape, TypeOK
    <3>. QED
      BY <3>1, <1>1, GoodStays DEF Cache
  <2>. QED
    BY <2>1, <2>2
<1>. QED
  BY <1>2, <1>3 DEF Cache

\* A step that leaves store, memory and code alone.
LEMMA GoodSame ==
    ASSUME Cache, [Next]_vars, UNCHANGED <<store, memory, code>>
    PROVE  Cache'
<1>1. vanished \subseteq vanished'
  BY VanishedGrows
<1>. QED
  BY <1>1, GoodStays DEF Cache

LEMMA CacheStep == TypeOK /\ Shape /\ Away /\ Cache /\ [Next]_vars => Cache'
<1>. SUFFICES ASSUME TypeOK, Shape, Away, Cache, [Next]_vars
              PROVE  Cache'
  OBVIOUS
<1>. code \in [Runs -> Nat]
  BY DEF TypeOK
<1>1. ASSUME NEW r \in Runs, Start(r)
      PROVE  Cache'
  <2>1. /\ code' = [code EXCEPT ![r] = version'] /\ store' = store
        /\ \E entries \in {Loaded(version'), {}} : memory' = [memory EXCEPT ![r] = entries]
    BY <1>1, Zenon DEF Start
  <2>2. PICK entries \in {Loaded(version'), {}} : memory' = [memory EXCEPT ![r] = entries]
    BY <2>1
  <2>3. code'[r] = version' /\ code' = [code EXCEPT ![r] = code'[r]]
    BY <2>1
  <2>4. Good(vanished, code'[r], entries)
    BY <2>2, <2>3, GoodLoaded, GoodNone DEF Cache
  <2>. QED
    BY <2>1, <2>2, <2>3, <2>4, GoodEvery
<1>2. ASSUME NEW r \in Runs, NEW s \in Scanners, ScanMissed(r, s)
      PROVE  Cache'
  <2>1. PICK live : memory' = [memory EXCEPT ![r] =
           Updated(memory[r], ScannerKey(config[r], s), Fresh(r, s, missed[r][s]), live)]
    BY <1>2, ScanMissedStores
  <2>2. store' = store /\ code' = code
    BY <1>2 DEF ScanMissed, project, start
  <2>3. missed[r][s] \in SUBSET Files
    BY DEF TypeOK
  <2>4. Good(vanished, code[r],
             Updated(memory[r], ScannerKey(config[r], s), Fresh(r, s, missed[r][s]), live))
    BY <2>3, GoodFresh, GoodUpdated DEF Cache
  <2>5. code' = [code EXCEPT ![r] = code'[r]]
    BY <2>2
  <2>. QED
    BY <2>1, <2>2, <2>4, <2>5, GoodEvery
<1>3. ASSUME NEW r \in Runs, NEW s \in Scanners, LookUp(r, s) \/ ScanAll(r, s) \/ ScannerFails(r, s)
      PROVE  Cache'
  BY <1>3, GoodSame DEF LookUp, ScanAll, ScannerFails, start
<1>4. ASSUME NEW r \in Runs, Save(r)
      PROVE  Cache'
  <2>1. memory' = memory /\ code' = code /\ vanished' = vanished
    BY <1>4 DEF Save, project, start, progress
  <2>2. CASE store' = store
    BY <2>1, <2>2, GoodSame
  <2>3. CASE store' = [code |-> code[r], entries |-> memory[r]]
    BY <2>1, <2>3 DEF Cache
  <2>. QED
    BY <1>4, <2>2, <2>3 DEF Save
<1>5. ASSUME NEW r \in Runs, SaveFails(r)
      PROVE  Cache'
  BY <1>5, GoodSame DEF SaveFails, start, progress
<1>6. ASSUME NEW r \in Runs, Report(r) \/ Die(r)
      PROVE  Cache'
  <2>1. memory' = [memory EXCEPT ![r] = {}] /\ store' = store /\ code' = code
    BY <1>6 DEF Report, Die, start
  <2>2. code' = [code EXCEPT ![r] = code'[r]]
    BY <2>1
  <2>. QED
    BY <2>1, <2>2, GoodNone, GoodEvery
<1>7. ASSUME NEW f \in Files, Edit(f)
      PROVE  Cache'
  BY <1>7, GoodSame DEF Edit, start, progress
<1>8. ASSUME UNCHANGED vars
      PROVE  Cache'
  BY <1>8, GoodSame DEF vars, start, progress
<1>. QED
  BY <1>1, <1>2, <1>3, <1>4, <1>5, <1>6, <1>7, <1>8 DEF Next, RunStep

-----------------------------------------------------------------------------

LEMMA SaysStays ==
    ASSUME NEW away, NEW more, away \subseteq more, NEW v, NEW c, NEW s, NEW f,
           NEW t, NEW u, t # Unread => u = t, NEW pairs, Says(away, v, c, s, f, t, pairs)
    PROVE  Says(more, v, c, s, f, u, pairs)
BY DEF Says

\* Another run or scanner moves: what s has found in r still stands.
LEMMA WorkedSame ==
    ASSUME TypeOK, [Next]_vars, NEW r \in Runs, NEW s \in Scanners, Worked(r, s),
           config'[r] = config[r], code'[r] = code[r], listed'[r] = listed[r],
           worker'[r][s] = worker[r][s], missed'[r][s] = missed[r][s],
           found'[r][s] = found[r][s],
           \A f \in Files : text[r][f] # Unread => text'[r][f] = text[r][f]
    PROVE  Worked(r, s)'
<1>1. vanished \subseteq vanished'
  BY VanishedGrows
<1>2. ASSUME NEW f \in Files, Finds(r, s, f)
      PROVE  Finds(r, s, f)'
  BY <1>1, <1>2, SaysStays DEF Finds
<1>3. listed[r] \subseteq Files
  BY DEF TypeOK
<1>4. Looked(r, s) => Looked(r, s)'
  BY <1>2, <1>3 DEF Looked
<1>. QED
  BY <1>2, <1>3, <1>4 DEF Worked

\* A step of scanner s of run r leaves every other scanner and run as it was.
LEMMA OtherScanner ==
    ASSUME TypeOK, Shape, [Next]_vars, NEW r \in Runs, NEW s \in Scanners,
           NEW q \in Runs, NEW z \in Scanners, <<q, z>> # <<r, s>>, Worked(q, z),
           UNCHANGED start,
           \E a : worker' = [worker EXCEPT ![r][s] = a],
           missed' = missed \/ \E a : missed' = [missed EXCEPT ![r][s] = a],
           \E a : found' = [found EXCEPT ![r][s] = a],
           text' = text \/ \E fs \in SUBSET Files : text' = [text EXCEPT ![r] = ReadTexts(r, fs)]
    PROVE  Worked(q, z)'
<1>1. config'[q] = config[q] /\ code'[q] = code[q] /\ listed'[q] = listed[q]
  BY DEF start
<1>2. worker'[q][z] = worker[q][z]
  BY DEF TypeOK
<1>3. missed'[q][z] = missed[q][z]
  BY DEF TypeOK
<1>4. found'[q][z] = found[q][z]
  <2>1. PICK a : found' = [found EXCEPT ![r] = [found[r] EXCEPT ![s] = a]]
    OBVIOUS
  <2>2. CASE q # r
    BY <2>1, <2>2, TableExcept DEF Shape
  <2>3. CASE q = r
    <3>1. found'[q] = [found[r] EXCEPT ![s] = a]
      BY <2>1, <2>3, TableExcept DEF Shape
    <3>2. z # s
      BY <2>3
    <3>. QED
      BY <2>3, <3>1, <3>2, TableExcept DEF Shape
  <2>. QED
    BY <2>2, <2>3
<1>5. \A f \in Files : text[q][f] # Unread => text'[q][f] = text[q][f]
  <2>1. CASE text' = text
    BY <2>1
  <2>2. ASSUME NEW fs \in SUBSET Files, text' = [text EXCEPT ![r] = ReadTexts(r, fs)]
        PROVE  \A f \in Files : text[q][f] # Unread => text'[q][f] = text[q][f]
    BY <2>2, Reading DEF TypeOK
  <2>. QED
    BY <2>1, <2>2
<1>. QED
  BY <1>1, <1>2, <1>3, <1>4, <1>5, WorkedSame

\* A hit in the cache says what the scanner would.
LEMMA HitSays ==
    ASSUME Cache, NEW r \in Runs, NEW s, Cached(config[r], s), NEW f, NEW t, t # Unread,
           NEW e \in Lookup(memory[r], ScannerKey(config[r], s), FileKey(f, t)),
           NEW pairs,
           Slice(pairs, f) =
               UNION {d.issues : d \in Lookup(memory[r], ScannerKey(config[r], s), FileKey(f, t))}
    PROVE  Says(vanished, code[r], config[r], s, f, t, pairs)
<1>. DEFINE H == Lookup(memory[r], ScannerKey(config[r], s), FileKey(f, t))
<1>1. e \in memory[r] /\ Good(vanished, code[r], memory[r])
  BY DEF Lookup, Cache
<1>2. \A d \in H : d = e
  BY <1>1 DEF Lookup, Good, OneEach
<1>3. UNION {d.issues : d \in H} = e.issues
  BY <1>2
<1>4. /\ e.scanner = <<s, config[r].options[s], Sanitizers(config[r], s)>>
      /\ e.file = <<f, t>>
  BY DEF Lookup, ScannerKey, FileKey
<1>5. \/ \E ast \in BOOLEAN :
             e.issues = Reports(code[r], s, config[r].options[s], Sanitizers(config[r], s), ast, t)
      \/ e.issues = {} /\ f \in vanished
  BY <1>1, <1>4 DEF Good
<1>. QED
  BY <1>3, <1>5 DEF Says, Tiers

\* What LookUp takes from the cache for the files fs.
Hits(r, s, T, f) == Lookup(memory[r], ScannerKey(config[r], s), FileKey(f, T[f]))

HitPairs(r, s, T, fs) ==
    UNION {{<<f, i>> : i \in UNION {e.issues : e \in Hits(r, s, T, f)}} : f \in fs}

LEMMA HitSlice ==
    ASSUME NEW r, NEW s, NEW T, NEW fs, NEW f \in fs
    PROVE  Slice(HitPairs(r, s, T, fs), f) = UNION {e.issues : e \in Hits(r, s, T, f)}
<1>. DEFINE P == HitPairs(r, s, T, fs)
<1>1. ASSUME NEW x \in Slice(P, f)
      PROVE  x \in UNION {e.issues : e \in Hits(r, s, T, f)}
  <2>1. PICK q \in P : q[1] = f /\ q[2] = x
    BY <1>1 DEF Slice
  <2>2. PICK g \in fs : q \in {<<g, i>> : i \in UNION {e.issues : e \in Hits(r, s, T, g)}}
    BY <2>1 DEF HitPairs
  <2>3. PICK i \in UNION {e.issues : e \in Hits(r, s, T, g)} : q = <<g, i>>
    BY <2>2
  <2>. QED
    BY <2>1, <2>3
<1>2. ASSUME NEW x \in UNION {e.issues : e \in Hits(r, s, T, f)}
      PROVE  x \in Slice(P, f)
  <2>1. <<f, x>> \in P
    BY <1>2 DEF HitPairs
  <2>. QED
    BY <2>1 DEF Slice
<1>. QED
  BY <1>1, <1>2

LEMMA LookUpWorks ==
    ASSUME TypeOK, Shape, Away, Cache, NEW r \in Runs, NEW s \in Scanners, Worked(r, s), LookUp(r, s)
    PROVE  Worked(r, s)'
<1>. DEFINE texts == ReadTexts(r, listed[r])
            H(f) == Hits(r, s, texts, f)
            P == HitPairs(r, s, texts, listed[r])
<1>1. /\ UNCHANGED <<vanished, config, code, listed>>
      /\ Cached(config[r], s)
  BY DEF LookUp, project, start
<1>2. worker'[r][s] = "looked"
  BY DEF LookUp, TypeOK
<1>3. missed'[r][s] = {f \in listed[r] : H(f) = {}}
  BY DEF LookUp, TypeOK, Hits
<1>4. text'[r] = texts
  BY DEF LookUp, TypeOK
<1>5. found'[r][s] = P
  <2>1. found' = [found EXCEPT ![r][s] = P]
    BY DEF LookUp, HitPairs, Hits
  <2>. HIDE DEF P
  <2>. QED
    BY <2>1 DEF Shape, Table
<1>6. listed[r] \in SUBSET Files
  BY DEF TypeOK
<1>7. \A f \in listed[r] : texts[f] # Unread
  BY <1>6, Reading
<1>8. ASSUME NEW f \in listed[r]
      PROVE  Slice(P, f) = UNION {e.issues : e \in H(f)}
  BY HitSlice
<1>9. ASSUME NEW f \in listed[r], H(f) # {}
      PROVE  Says(vanished, code[r], config[r], s, f, texts[f], P)
  <2>1. PICK e \in H(f) : TRUE
    BY <1>9
  <2>. QED
    BY <1>1, <1>7, <1>8, <2>1, HitSays DEF Hits
<1>10. ASSUME NEW f \in listed[r], H(f) = {}
       PROVE  Slice(P, f) = {}
  BY <1>8, <1>10
<1>. HIDE DEF P, H, texts
<1>11. Looked(r, s)'
  <2>1. Cached(config[r], s)' /\ missed'[r][s] \subseteq listed'[r]
    BY <1>1, <1>3
  <2>2. \A f \in listed'[r] : text'[r][f] # Unread
    BY <1>1, <1>4, <1>7
  <2>3. \A f \in listed'[r] \ missed'[r][s] : Finds(r, s, f)'
    BY <1>1, <1>3, <1>4, <1>5, <1>9 DEF Finds
  <2>4. \A f \in missed'[r][s] : Slice(found'[r][s], f) = {}
    BY <1>3, <1>5, <1>10
  <2>. QED
    BY <2>1, <2>2, <2>3, <2>4 DEF Looked
<1>. QED
  BY <1>2, <1>11 DEF Worked

LEMMA ScanMissedWorks ==
    ASSUME TypeOK, Shape, Away, NEW r \in Runs, NEW s \in Scanners, Worked(r, s), ScanMissed(r, s)
    PROVE  Worked(r, s)'
<1>. DEFINE fresh == Scanned(r, s, missed[r][s], text[r])
<1>1. UNCHANGED <<vanished, config, code, listed, text>> /\ Looked(r, s)
  BY DEF ScanMissed, project, start, Worked
<1>2. worker'[r][s] = "ok"
  BY DEF ScanMissed, TypeOK
<1>3. found'[r][s] = found[r][s] \cup fresh
  <2>1. found' = [found EXCEPT ![r][s] = found[r][s] \cup fresh]
    BY DEF ScanMissed
  <2>. HIDE DEF fresh
  <2>. QED
    BY <2>1 DEF Shape, Table
<1>4. \A f : Slice(found'[r][s], f) = Slice(found[r][s], f) \cup Slice(fresh, f)
  BY <1>3, SliceOfUnion
<1>5. ASSUME NEW f \in listed[r], f \notin missed[r][s]
      PROVE  Finds(r, s, f)'
  <2>1. Slice(fresh, f) = {}
    BY <1>5, ScannedSlice
  <2>2. Slice(found'[r][s], f) = Slice(found[r][s], f)
    BY <1>4, <2>1
  <2>3. Finds(r, s, f)
    BY <1>1, <1>5 DEF Looked
  <2>. QED
    BY <1>1, <2>2, <2>3 DEF Finds, Says
<1>6. ASSUME NEW f \in missed[r][s]
      PROVE  Finds(r, s, f)'
  <2>1. Slice(found'[r][s], f) = Slice(fresh, f)
    BY <1>1, <1>4 DEF Looked
  <2>2. f \in Files /\ text[r][f] # Unread /\ Cached(config[r], s)
    BY <1>1 DEF Looked, TypeOK
  <2>3. CASE disk[f] # Gone
    <3>1. Slice(found'[r][s], f) = Detected(r, s, text[r][f])
      BY <2>1, <2>3, ScannedSlice
    <3>2. AstRunning(config[r]) \in Tiers(config[r], s)
      BY DEF AstRunning, Tiers
    <3>. QED
      BY <1>1, <2>2, <3>1, <3>2 DEF Finds, Says, Detected
  <2>4. CASE disk[f] = Gone
    <3>1. Slice(found'[r][s], f) = {}
      BY <2>1, <2>4, ScannedSlice
    <3>. QED
      BY <1>1, <2>2, <2>4, <3>1 DEF Finds, Says, Away
  <2>. QED
    BY <2>3, <2>4
<1>. QED
  BY <1>1, <1>2, <1>5, <1>6 DEF Worked

LEMMA ScanAllWorks ==
    ASSUME TypeOK, Shape, Away, NEW r \in Runs, NEW s \in Scanners, Worked(r, s), ScanAll(r, s)
    PROVE  Worked(r, s)'
<1>. DEFINE there == {f \in listed[r] : disk[f] # Gone}
            texts == ReadTexts(r, there)
            all == Scanned(r, s, listed[r], texts)
<1>1. UNCHANGED <<vanished, config, code, listed>> /\ ~Cached(config[r], s)
  BY DEF ScanAll, project, start
<1>2. worker'[r][s] = "ok"
  BY DEF ScanAll, TypeOK
<1>3. text'[r] = texts
  BY DEF ScanAll, TypeOK
<1>4. found'[r][s] = all
  <2>1. found' = [found EXCEPT ![r][s] = all]
    BY DEF ScanAll
  <2>. HIDE DEF all
  <2>. QED
    BY <2>1 DEF Shape, Table
<1>5. there \in SUBSET Files /\ listed[r] \subseteq Files
  BY DEF TypeOK
<1>6. ASSUME NEW f \in listed[r]
      PROVE  Finds(r, s, f)'
  <2>1. CASE disk[f] # Gone
    <3>1. texts[f] # Unread
      BY <2>1, <1>5, Reading
    <3>2. Slice(all, f) = Detected(r, s, texts[f])
      BY <2>1, ScannedSlice
    <3>3. AstRunning(config[r]) \in Tiers(config[r], s)
      BY DEF AstRunning, Tiers
    <3>. HIDE DEF all, texts
    <3>. QED
      BY <1>1, <1>3, <1>4, <3>1, <3>2, <3>3 DEF Finds, Says, Detected
  <2>2. CASE disk[f] = Gone
    <3>1. Slice(all, f) = {}
      BY <2>2, ScannedSlice
    <3>2. f \in vanished
      BY <1>5, <2>2 DEF Away
    <3>. HIDE DEF all, texts
    <3>. QED
      BY <1>1, <1>4, <3>1, <3>2 DEF Finds, Says
  <2>. QED
    BY <2>1, <2>2
<1>. QED
  BY <1>1, <1>2, <1>6 DEF Worked

LEMMA WorkedStep ==
    ASSUME Honest, [Next]_vars, NEW q \in Runs, NEW z \in Scanners
    PROVE  Worked(q, z)'
<1>. TypeOK /\ Shape /\ Away /\ Cache /\ Worked(q, z)
  BY DEF Honest
<1>1. ASSUME NEW r \in Runs, Start(r)
      PROVE  Worked(q, z)'
  <2>1. PICK c \in Configs, broken \in SUBSET Scanners : worker' = [worker EXCEPT ![r] =
              [s \in Scanners |-> IF s \in broken THEN "failed"
                                  ELSE IF s \in Selected(c) THEN "ready" ELSE "out"]]
    BY <1>1 DEF Start
  <2>2. found' = found
    BY <1>1 DEF Start
  <2>3. CASE q = r
    <3>1. found[q][z] = {}
      BY <1>1, <2>3 DEF Start, Shape, Worked
    <3>2. worker'[q][z] \in {"failed", "ready", "out"}
      BY <2>1, <2>3 DEF TypeOK
    <3>. QED
      BY <2>2, <3>1, <3>2 DEF Worked
  <2>4. CASE q # r
    <3>1. /\ \E a : config' = [config EXCEPT ![r] = a]
          /\ \E a : code' = [code EXCEPT ![r] = a]
          /\ \E a : listed' = [listed EXCEPT ![r] = a]
      BY <1>1 DEF Start
    <3>2. config'[q] = config[q] /\ code'[q] = code[q] /\ listed'[q] = listed[q]
      BY <2>4, <3>1 DEF TypeOK
    <3>3. worker'[q][z] = worker[q][z] /\ missed' = missed /\ text' = text
      BY <1>1, <2>1, <2>4 DEF TypeOK, Start
    <3>. QED
      BY <2>2, <3>2, <3>3, WorkedSame
  <2>. QED
    BY <2>3, <2>4
<1>2. ASSUME NEW r \in Runs, NEW s \in Scanners, LookUp(r, s)
      PROVE  Worked(q, z)'
  <2>1. CASE <<q, z>> = <<r, s>>
    BY <1>2, <2>1, LookUpWorks
  <2>2. CASE <<q, z>> # <<r, s>>
    <3>1. /\ UNCHANGED start
          /\ \E a : worker' = [worker EXCEPT ![r][s] = a]
          /\ \E a : missed' = [missed EXCEPT ![r][s] = a]
          /\ text' = [text EXCEPT ![r] = ReadTexts(r, listed[r])]
      BY <1>2 DEF LookUp
    <3>2. \E a : found' = [found EXCEPT ![r][s] = a]
      BY <1>2, Zenon DEF LookUp
    <3>3. listed[r] \in SUBSET Files
      BY DEF TypeOK
    <3>. QED
      BY <2>2, <3>1, <3>2, <3>3, OtherScanner
  <2>. QED
    BY <2>1, <2>2
<1>3. ASSUME NEW r \in Runs, NEW s \in Scanners, ScanMissed(r, s)
      PROVE  Worked(q, z)'
  <2>1. CASE <<q, z>> = <<r, s>>
    BY <1>3, <2>1, ScanMissedWorks
  <2>2. CASE <<q, z>> # <<r, s>>
    <3>1. /\ UNCHANGED <<start, missed, text>>
          /\ \E a : worker' = [worker EXCEPT ![r][s] = a]
      BY <1>3 DEF ScanMissed
    <3>2. \E a : found' = [found EXCEPT ![r][s] = a]
      BY <1>3, Zenon DEF ScanMissed
    <3>. QED
      BY <2>2, <3>1, <3>2, OtherScanner
  <2>. QED
    BY <2>1, <2>2
<1>4. ASSUME NEW r \in Runs, NEW s \in Scanners, ScanAll(r, s)
      PROVE  Worked(q, z)'
  <2>1. CASE <<q, z>> = <<r, s>>
    BY <1>4, <2>1, ScanAllWorks
  <2>2. CASE <<q, z>> # <<r, s>>
    <3>1. /\ UNCHANGED <<start, missed>>
          /\ \E a : worker' = [worker EXCEPT ![r][s] = a]
          /\ text' = [text EXCEPT ![r] = ReadTexts(r, {f \in listed[r] : disk[f] # Gone})]
      BY <1>4 DEF ScanAll
    <3>2. \E a : found' = [found EXCEPT ![r][s] = a]
      BY <1>4, Zenon DEF ScanAll
    <3>3. {f \in listed[r] : disk[f] # Gone} \in SUBSET Files
      BY DEF TypeOK
    <3>. QED
      BY <2>2, <3>1, <3>2, <3>3, OtherScanner
  <2>. QED
    BY <2>1, <2>2
<1>5. ASSUME NEW r \in Runs, NEW s \in Scanners, ScannerFails(r, s)
      PROVE  Worked(q, z)'
  <2>1. found' = [found EXCEPT ![r][s] = {}] /\ worker' = [worker EXCEPT ![r][s] = "failed"]
    BY <1>5 DEF ScannerFails
  <2>2. CASE <<q, z>> = <<r, s>>
    <3>1. found'[q][z] = {} /\ worker'[q][z] = "failed"
      BY <2>1, <2>2 DEF TypeOK, Shape, Table
    <3>. QED
      BY <3>1 DEF Worked
  <2>3. CASE <<q, z>> # <<r, s>>
    <3>1. UNCHANGED <<start, missed>>
      BY <1>5 DEF ScannerFails
    <3>2. \E fs \in SUBSET Files : text' = [text EXCEPT ![r] = ReadTexts(r, fs)]
      BY <1>5 DEF ScannerFails, TypeOK
    <3>. QED
      BY <2>1, <2>3, <3>1, <3>2, OtherScanner
  <2>. QED
    BY <2>2, <2>3
<1>6. ASSUME NEW r \in Runs, Save(r) \/ SaveFails(r) \/ Report(r)
      PROVE  Worked(q, z)'
  <2>1. UNCHANGED <<config, code, listed, text, worker, missed, found>>
    BY <1>6 DEF Save, SaveFails, Report, start, progress
  <2>. QED
    BY <2>1, WorkedSame
<1>7. ASSUME NEW r \in Runs, Die(r)
      PROVE  Worked(q, z)'
  <2>1. /\ found' = [found EXCEPT ![r] = [s \in Scanners |-> {}]]
        /\ worker' = [worker EXCEPT ![r] = Idle]
        /\ missed' = [missed EXCEPT ![r] = [s \in Scanners |-> {}]]
        /\ text' = [text EXCEPT ![r] = [f \in Files |-> Unread]]
        /\ UNCHANGED <<config, code, listed>>
    BY <1>7 DEF Die, start
  <2>2. CASE q = r
    <3>1. worker'[q][z] = "out"
      BY <2>1, <2>2 DEF TypeOK, Idle
    <3>2. found'[q] = [s \in Scanners |-> {}]
      BY <2>1, <2>2 DEF Shape, Table
    <3>. QED
      BY <3>1, <3>2 DEF Worked
  <2>3. CASE q # r
    <3>1. worker'[q] = worker[q] /\ missed'[q] = missed[q] /\ text'[q] = text[q]
      BY <2>1, <2>3 DEF TypeOK
    <3>2. found'[q] = found[q]
      BY <2>1, <2>3 DEF Shape, Table
    <3>. QED
      BY <2>1, <3>1, <3>2, WorkedSame
  <2>. QED
    BY <2>2, <2>3
<1>8. ASSUME NEW f \in Files, Edit(f)
      PROVE  Worked(q, z)'
  BY <1>8, WorkedSame DEF Edit, start, progress
<1>9. ASSUME UNCHANGED vars
      PROVE  Worked(q, z)'
  BY <1>9, WorkedSame DEF vars, start, progress
<1>. QED
  BY <1>1, <1>2, <1>3, <1>4, <1>5, <1>6, <1>7, <1>8, <1>9 DEF Next, RunStep

-----------------------------------------------------------------------------

LEMMA HonestInit == Init => Honest
<1>. SUFFICES ASSUME Init
              PROVE  Honest
  OBVIOUS
<1>1. TypeOK
  BY TypeInit
<1>2. Shape
  BY DEF Init, Shape, Table, Idle
<1>3. Away
  BY DEF Init, Away
<1>4. Cache
  BY GoodNone DEF Init, Cache
<1>5. ASSUME NEW r \in Runs, NEW s \in Scanners
      PROVE  Worked(r, s)
  BY DEF Init, Worked, Idle
<1>. QED
  BY <1>1, <1>2, <1>3, <1>4, <1>5 DEF Honest

LEMMA HonestStep == Honest /\ [Next]_vars => Honest'
<1>. SUFFICES ASSUME Honest, [Next]_vars
              PROVE  Honest'
  OBVIOUS
<1>. TypeOK /\ Shape /\ Away /\ Cache
  BY DEF Honest
<1>1. TypeOK' /\ Shape' /\ Away' /\ Cache'
  BY TypeStep, ShapeStep, AwayStep, CacheStep
<1>2. \A r \in Runs, s \in Scanners : Worked(r, s)'
  BY WorkedStep
<1>. QED
  BY <1>1, <1>2 DEF Honest

LEMMA HonestAlways == Spec => []Honest
BY HonestInit, HonestStep, PTL DEF Spec

\* Every variable of the scans and of their cache keeps its type.
THEOREM ScanTypeCorrect == Spec => []TypeOK
<1>1. Honest => TypeOK
  BY DEF Honest
<1>. QED
  BY <1>1, HonestAlways, PTL

\* No entry of the cache, in the file or in a run, ever holds what belongs to another
\* scanner, options, sanitizers, path, text or version (core/cache.py).
THEOREM CacheStaysSound == Spec => []CacheSound
<1>1. Honest => CacheSound
  BY DEF Honest, Cache, Good, CacheSound, Sound
<1>. QED
  BY <1>1, HonestAlways, PTL

\* A scanner that ran reports what it makes of the very text that its scan read, or
\* nothing of a file that was away for a moment (core/engine.py, _scan_cached).
THEOREM NoStaleFinding == Spec => []NothingStale
<1>1. ASSUME Honest  PROVE  NothingStale
  <2>. SUFFICES ASSUME NEW r \in Runs, NEW s \in Ran(r), NEW f \in listed[r]
                PROVE  \/ \E ast \in (IF Cached(config[r], s) THEN BOOLEAN ELSE {AstRunning(config[r])}) :
                             FoundIn(r, s, f) = Reports(code[r], s, config[r].options[s],
                                                        Sanitizers(config[r], s), ast, text[r][f])
                       \/ FoundIn(r, s, f) = {} /\ f \in vanished
    BY DEF NothingStale
  <2>1. Finds(r, s, f)
    BY <1>1 DEF Ran, Honest, Worked
  <2>2. FoundIn(r, s, f) = Slice(found[r][s], f)
    BY DEF FoundIn, Slice
  <2>. QED
    BY <2>1, <2>2 DEF Finds, Says, Tiers
<1>. QED
  BY <1>1, HonestAlways, PTL

-----------------------------------------------------------------------------
(***************************************************************************)
(* De-duplication.  A finding that is not kept has a kept one of its class *)
(* in its file that it does not outrank, while another tier reports that   *)
(* class there too.  The loop over the findings of a class is a function on*)
(* their subsets: it exists because each set is handled after a smaller    *)
(* one, and what it keeps stands for a set because it does for the smaller.*)
(***************************************************************************)

\* Of some sets of findings one is the smallest.
LEMMA SmallestSet ==
    ASSUME NEW G, IsFiniteSet(G), NEW Bad, Bad \subseteq SUBSET G, Bad # {}
    PROVE  \E S \in Bad : \A T \in Bad : T \subseteq S => T = S
<1>1. IsWellFoundedOn(StrictSubsetOrdering(G), SUBSET G)
  BY FS_StrictSubsetOrderingWellFounded, FS_FiniteSubsetsOfFinite, Zenon
<1>2. PICK S \in Bad : \A T \in Bad : ~(<<T, S>> \in StrictSubsetOrdering(G))
  BY <1>1, WFMin
<1>. QED
  BY <1>2 DEF StrictSubsetOrdering

LEMMA AboveThree ==
    ASSUME NEW a \in Int, NEW b \in Int, NEW c \in Int, NEW x \in Int, NEW y \in Int, NEW z \in Int
    PROVE  Above(<<a, b, c>>, <<x, y, z>>)
             <=> a > x \/ (a = x /\ (b > y \/ (b = y /\ c > z)))
<1>. DEFINE s == <<a, b, c>>  t == <<x, y, z>>
           First(i) == s[i] > t[i] /\ \A j \in 1..(i - 1) : s[j] = t[j]
<1>1. First(1) <=> a > x
  OBVIOUS
<1>2. First(2) <=> a = x /\ b > y
  <2>1. 1..(2 - 1) = {1}
    OBVIOUS
  <2>. QED
    BY <2>1
<1>3. First(3) <=> a = x /\ b = y /\ c > z
  <2>1. 1..(3 - 1) = {1, 2}
    OBVIOUS
  <2>. QED
    BY <2>1
<1>4. DOMAIN s = {1, 2, 3}
  OBVIOUS
<1>5. Above(s, t) <=> First(1) \/ First(2) \/ First(3)
  <2>. HIDE DEF s, t
  <2>. QED
    BY <1>4 DEF Above
<1>. QED
  BY <1>1, <1>2, <1>3, <1>5

LEMMA AboveFive ==
    ASSUME NEW s \in Seq(Int), NEW t \in Seq(Int), Len(s) = 5
    PROVE  Above(s, t) <=>
             \/ s[1] > t[1]
             \/ s[1] = t[1] /\ s[2] > t[2]
             \/ s[1] = t[1] /\ s[2] = t[2] /\ s[3] > t[3]
             \/ s[1] = t[1] /\ s[2] = t[2] /\ s[3] = t[3] /\ s[4] > t[4]
             \/ s[1] = t[1] /\ s[2] = t[2] /\ s[3] = t[3] /\ s[4] = t[4] /\ s[5] > t[5]
<1>. DEFINE First(i) == s[i] > t[i] /\ \A j \in 1..(i - 1) : s[j] = t[j]
<1>1. First(1) <=> s[1] > t[1]
  OBVIOUS
<1>2. First(2) <=> s[1] = t[1] /\ s[2] > t[2]
  OBVIOUS
<1>3. First(3) <=> s[1] = t[1] /\ s[2] = t[2] /\ s[3] > t[3]
  <2>1. 1..(3 - 1) = {1, 2}
    OBVIOUS
  <2>. QED
    BY <2>1
<1>4. First(4) <=> s[1] = t[1] /\ s[2] = t[2] /\ s[3] = t[3] /\ s[4] > t[4]
  <2>1. 1..(4 - 1) = {1, 2, 3}
    OBVIOUS
  <2>. QED
    BY <2>1
<1>5. First(5) <=> s[1] = t[1] /\ s[2] = t[2] /\ s[3] = t[3] /\ s[4] = t[4] /\ s[5] > t[5]
  <2>1. 1..(5 - 1) = {1, 2, 3, 4}
    OBVIOUS
  <2>. QED
    BY <2>1
<1>6. DOMAIN s = {1, 2, 3, 4, 5}
  <2>1. DOMAIN s = 1..5
    OBVIOUS
  <2>. QED
    BY <2>1
<1>7. Above(s, t) <=> First(1) \/ First(2) \/ First(3) \/ First(4) \/ First(5)
  BY <1>6 DEF Above
<1>. QED
  BY <1>1, <1>2, <1>3, <1>4, <1>5, <1>7

\* What de-duplication compares are numbers.
Graded(f) ==
    /\ f.line \in Int /\ f.rule \in Int
    /\ f.confidence \in Int /\ f.severity \in Int

\* Outranks, spelled out.
Beats(f, g) ==
    \/ f.confidence > g.confidence
    \/ f.confidence = g.confidence /\ f.severity > g.severity
    \/ f.confidence = g.confidence /\ f.severity = g.severity /\ FixRank(f) > FixRank(g)
    \/ f.confidence = g.confidence /\ f.severity = g.severity /\ FixRank(f) = FixRank(g)
          /\ AstRank(f) > AstRank(g)
    \/ f.confidence = g.confidence /\ f.severity = g.severity /\ FixRank(f) = FixRank(g)
          /\ AstRank(f) = AstRank(g) /\ g.rule > f.rule

LEMMA OutranksMeans ==
    ASSUME NEW f, NEW g, Graded(f), Graded(g)
    PROVE  Outranks(f, g) <=> Beats(f, g)
<1>. DEFINE s == Append(Rank(f), g.rule)  t == Append(Rank(g), f.rule)
<1>1. Rank(f) \in Seq(Int) /\ Rank(g) \in Seq(Int)
  BY DEF Rank, Graded, FixRank, AstRank
<1>2. f.rule \in Int /\ g.rule \in Int
  BY DEF Graded
<1>3. s \in Seq(Int) /\ Len(s) = Len(Rank(f)) + 1 /\ t \in Seq(Int)
  <2>. HIDE DEF s, t
  <2>1. \A u \in Seq(Int), e \in Int : Append(u, e) \in Seq(Int) /\ Len(Append(u, e)) = Len(u) + 1
    BY AppendProperties
  <2>. QED
    BY <1>1, <1>2, <2>1 DEF s, t
<1>4. /\ s[Len(Rank(f)) + 1] = g.rule /\ t[Len(Rank(g)) + 1] = f.rule
      /\ \A i \in 1..Len(Rank(f)) : s[i] = Rank(f)[i]
      /\ \A i \in 1..Len(Rank(g)) : t[i] = Rank(g)[i]
  <2>1. \A u \in Seq(Int), e \in Int :
           Append(u, e)[Len(u) + 1] = e /\ \A i \in 1..Len(u) : Append(u, e)[i] = u[i]
    BY AppendProperties
  <2>. QED
    BY <1>1, <1>2, <2>1
<1>5. /\ s[1] = f.confidence /\ s[2] = f.severity /\ s[3] = FixRank(f) /\ s[4] = AstRank(f)
      /\ t[1] = g.confidence /\ t[2] = g.severity /\ t[3] = FixRank(g) /\ t[4] = AstRank(g)
  <2>1. Len(Rank(f)) = 4 /\ Len(Rank(g)) = 4
    BY DEF Rank
  <2>. HIDE DEF s, t
  <2>. QED
    BY <1>4, <2>1 DEF Rank
<1>6. Outranks(f, g) <=> Above(s, t)
  BY DEF Outranks
<1>. HIDE DEF s, t
<1>. QED
  <2>1. Len(s) = 5 /\ s[5] = g.rule /\ t[5] = f.rule
    BY <1>3, <1>4 DEF Rank
  <2>. QED
    BY <1>3, <1>5, <1>6, <2>1, AboveFive DEF Beats

\* No two findings outrank each other, and not to be outranked is transitive.
LEMMA OutranksOrder ==
    ASSUME NEW f, NEW g, NEW h, Graded(f), Graded(g), Graded(h)
    PROVE  /\ ~(Outranks(f, g) /\ Outranks(g, f))
           /\ ~Outranks(f, g) /\ ~Outranks(g, h) => ~Outranks(f, h)
<1>. DEFINE Numbers(x) == /\ x.rule \in Int /\ x.confidence \in Int /\ x.severity \in Int
                          /\ FixRank(x) \in Int /\ AstRank(x) \in Int
<1>1. Numbers(f) /\ Numbers(g) /\ Numbers(h)
  BY DEF Graded, FixRank, AstRank
<1>2. ~(Beats(f, g) /\ Beats(g, f))
  BY <1>1 DEF Beats
<1>3. ~Beats(f, g) /\ ~Beats(g, h) => ~Beats(f, h)
  BY <1>1 DEF Beats
<1>. QED
  BY <1>2, <1>3, OutranksMeans

\* A set of natural numbers that is not empty has a least one.
LEMMA LeastNumber ==
    ASSUME NEW T, T \subseteq Nat, T # {}
    PROVE  \E n \in T : \A m \in T : ~(m < n)
<1>1. PICK n \in T : \A m \in T : ~(<<m, n>> \in OpToRel(<, Nat))
  BY NatLessThanWellFounded, WFMin
<1>2. \A m \in T : m < n => <<m, n>> \in OpToRel(<, Nat)
  BY DEF OpToRel
<1>. QED
  BY <1>1, <1>2

\* What the order of de-duplication compares are numbers.
Ordered(S, position) ==
    \A f \in S : f.line \in Int /\ position[f.scanner] \in Int /\ f.rule \in Int

\* The last finding is there: of the sets of those after some finding, one is smallest.
LEMMA LastOfIsThere ==
    ASSUME NEW S, IsFiniteSet(S), S # {}, NEW position, Ordered(S, position)
    PROVE  LastOf(S, position) \in S
<1>. DEFINE Later(x) == {y \in S : After(y, x, position)}
<1>1. ASSUME NEW f \in S, NEW g \in S
      PROVE  After(f, g, position) <=>
                \/ f.line > g.line
                \/ /\ f.line = g.line
                   /\ \/ position[f.scanner] > position[g.scanner]
                      \/ position[f.scanner] = position[g.scanner] /\ f.rule > g.rule
  <2>1. /\ f.line \in Int /\ position[f.scanner] \in Int /\ f.rule \in Int
        /\ g.line \in Int /\ position[g.scanner] \in Int /\ g.rule \in Int
    BY DEF Ordered
  <2>. DEFINE a == f.line  b == position[f.scanner]  c == f.rule
              d == g.line  e == position[g.scanner]  h == g.rule
  <2>2. After(f, g, position) <=> Above(<<a, b, c>>, <<d, e, h>>)
    BY DEF After
  <2>3. a \in Int /\ b \in Int /\ c \in Int /\ d \in Int /\ e \in Int /\ h \in Int
    BY <2>1
  <2>. HIDE DEF a, b, c, d, e, h
  <2>4. After(f, g, position) <=> a > d \/ (a = d /\ (b > e \/ (b = e /\ c > h)))
    BY <2>2, <2>3, AboveThree
  <2>. QED
    BY <2>4 DEF a, b, c, d, e, h
<1>2. \A f, g, h \in S : /\ ~After(f, f, position)
                         /\ After(f, g, position) /\ After(g, h, position) => After(f, h, position)
  BY <1>1 DEF Ordered
<1>3. PICK x \in S : \A y \in S : Later(y) \subseteq Later(x) => Later(y) = Later(x)
  <2>. DEFINE Bad == {Later(y) : y \in S}
  <2>1. Bad \subseteq SUBSET S /\ Bad # {} /\ \A y \in S : Later(y) \in Bad
    OBVIOUS
  <2>2. \A T \in Bad : \E y \in S : T = Later(y)
    OBVIOUS
  <2>. HIDE DEF Bad
  <2>3. PICK T \in Bad : \A U \in Bad : U \subseteq T => U = T
    BY <2>1, SmallestSet
  <2>4. PICK y \in S : T = Later(y)
    BY <2>2
  <2>5. \A z \in S : Later(z) \subseteq Later(y) => Later(z) = Later(y)
    BY <2>1, <2>3, <2>4
  <2>. QED
    BY <2>5
<1>4. ASSUME NEW g \in S, After(g, x, position)
      PROVE  FALSE
  <2>1. Later(g) \subseteq Later(x) /\ g \in Later(x) /\ g \notin Later(g)
    BY <1>2, <1>4
  <2>. QED
    BY <1>3, <2>1
<1>. QED
  BY <1>4 DEF LastOf

\* One step of the loop of Survivors.
Kept(g, S, position) ==
    IF S = {} THEN <<>>
    ELSE LET f == LastOf(S, position) IN Merge(g[S \ {f}], f)

LEMMA OrderedPart ==
    ASSUME NEW S, NEW T \in SUBSET S, NEW position, Ordered(S, position)
    PROVE  Ordered(T, position)
BY DEF Ordered

IsKept(g, G, position) == g = [S \in SUBSET G |-> Kept(g, S, position)]

LEMMA SurvivorsExist ==
    ASSUME NEW G, IsFiniteSet(G), NEW position, Ordered(G, position)
    PROVE  \E g : IsKept(g, G, position)
<1>. DEFINE UpTo(n) == {S \in SUBSET G : Cardinality(S) <= n}
           Exists(n) == \E g : g = [S \in UpTo(n) |-> Kept(g, S, position)]
<1>1. \A S \in SUBSET G : IsFiniteSet(S) /\ Cardinality(S) \in Nat
  BY FS_Subset, FS_CardinalityType
<1>2. Exists(0)
  <2>1. \A S \in UpTo(0) : S = {}
    BY <1>1, FS_EmptySet
  <2>. DEFINE g == [S \in UpTo(0) |-> <<>>]
  <2>2. g = [S \in UpTo(0) |-> Kept(g, S, position)]
    BY <2>1 DEF Kept
  <2>. QED
    BY <2>2
<1>3. ASSUME NEW n \in Nat, Exists(n)
      PROVE  Exists(n + 1)
  <2>1. PICK g : g = [S \in UpTo(n) |-> Kept(g, S, position)]
    BY <1>3
  <2>. DEFINE h == [S \in UpTo(n + 1) |-> Kept(g, S, position)]
  <2>2. ASSUME NEW S \in UpTo(n + 1)
        PROVE  Kept(h, S, position) = Kept(g, S, position)
    <3>1. CASE S = {}
      BY <3>1 DEF Kept
    <3>2. CASE S # {}
      <4>. DEFINE f == LastOf(S, position)
      <4>1. f \in S
        BY <1>1, <3>2, OrderedPart, LastOfIsThere
      <4>. HIDE DEF f
      <4>2. S \ {f} \in SUBSET G /\ Cardinality(S \ {f}) = Cardinality(S) - 1
        BY <1>1, <4>1, FS_RemoveElement
      <4>3. Cardinality(S) \in Nat /\ Cardinality(S) <= n + 1
        BY <1>1
      <4>4. S \ {f} \in UpTo(n) /\ S \ {f} \in UpTo(n + 1)
        BY <4>2, <4>3
      <4>5. g[S \ {f}] = Kept(g, S \ {f}, position)
        BY <2>1, <4>4
      <4>6. h[S \ {f}] = g[S \ {f}]
        BY <4>4, <4>5
      <4>. HIDE DEF h
      <4>. QED
        BY <3>2, <4>6 DEF Kept, f
    <3>. QED
      BY <3>1, <3>2
  <2>3. h = [S \in UpTo(n + 1) |-> Kept(h, S, position)]
    <3>1. [S \in UpTo(n + 1) |-> Kept(g, S, position)] = [S \in UpTo(n + 1) |-> Kept(h, S, position)]
      <4>. HIDE DEF h
      <4>. QED
        BY <2>2
    <3>. QED
      BY <3>1
  <2>. QED
    BY <2>3
<1>4. \A n \in Nat : Exists(n)
  <2>. DEFINE Bad == {n \in Nat : ~Exists(n)}
  <2>. SUFFICES ASSUME Bad # {}
                PROVE  FALSE
    OBVIOUS
  <2>1. Bad \subseteq Nat /\ \A n \in Nat : n \in Bad <=> ~Exists(n)
    OBVIOUS
  <2>. HIDE DEF Bad, Exists
  <2>2. PICK n \in Bad : \A m \in Bad : ~(m < n)
    BY <2>1, LeastNumber
  <2>3. n \in Nat /\ n # 0
    BY <1>2, <2>1, <2>2
  <2>4. n - 1 \in Nat /\ (n - 1) + 1 = n /\ n - 1 < n
    BY <2>3
  <2>5. Exists(n - 1)
    BY <2>1, <2>2, <2>4
  <2>6. Exists((n - 1) + 1)
    BY <1>3, <2>4, <2>5
  <2>. QED
    BY <2>1, <2>2, <2>4, <2>6
<1>5. Cardinality(G) \in Nat /\ UpTo(Cardinality(G)) = SUBSET G
  BY FS_Subset, FS_CardinalityType
<1>. HIDE DEF UpTo
<1>6. Exists(Cardinality(G))
  BY <1>4, <1>5
<1>. QED
  BY <1>5, <1>6 DEF IsKept

\* A kept sequence of findings of S stands for S: every finding of S is in it, or is
\* represented by one that it does not outrank while another tier reports it too.
Stands(K, S) ==
    /\ K \in Seq(S)
    /\ \A x \in S : \E y \in ToSet(K) :
          y = x \/ (~Outranks(x, y) /\ \E z \in S : z.scanner # x.scanner)

LEMMA Appended ==
    ASSUME NEW S, NEW K \in Seq(S), NEW f \in S
    PROVE  /\ Append(K, f) \in Seq(S)
           /\ ToSet(K) \subseteq ToSet(Append(K, f)) /\ f \in ToSet(Append(K, f))
<1>. DEFINE A == Append(K, f)
<1>1. /\ A \in Seq(S) /\ Len(A) = Len(K) + 1 /\ A[Len(K) + 1] = f
      /\ \A i \in 1..Len(K) : A[i] = K[i]
  BY AppendProperties
<1>2. DOMAIN A = 1..(Len(K) + 1) /\ DOMAIN K = 1..Len(K) /\ Len(K) \in Nat
  BY <1>1, LenProperties
<1>. HIDE DEF A
<1>3. f \in ToSet(A)
  BY <1>1, <1>2 DEF ToSet
<1>4. ASSUME NEW i \in DOMAIN K
      PROVE  K[i] \in ToSet(A)
  BY <1>1, <1>2 DEF ToSet
<1>5. \A y \in ToSet(K) : \E i \in DOMAIN K : y = K[i]
  BY DEF ToSet
<1>. QED
  BY <1>1, <1>3, <1>4, <1>5 DEF A

LEMMA LastReplaced ==
    ASSUME NEW S, NEW K \in Seq(S), K # <<>>, NEW f \in S
    PROVE  /\ Last(K) \in S /\ Last(K) \in ToSet(K)
           /\ Append(Front(K), f) \in Seq(S) /\ f \in ToSet(Append(Front(K), f))
           /\ \A y \in ToSet(K) : y = Last(K) \/ y \in ToSet(Append(Front(K), f))
<1>1. Len(K) \in Nat /\ Len(K) # 0 /\ DOMAIN K = 1..Len(K)
  BY LenProperties, EmptySeq
<1>2. Last(K) \in S /\ Last(K) \in ToSet(K)
  BY <1>1, ElementOfSeq DEF Last, ToSet
<1>3. /\ Front(K) \in Seq(S) /\ Len(Front(K)) = Len(K) - 1
      /\ \A i \in 1..(Len(K) - 1) : Front(K)[i] = K[i]
  BY <1>1, SubSeqProperties DEF Front
<1>4. ASSUME NEW i \in 1..Len(K), K[i] # Last(K)
      PROVE  K[i] \in ToSet(Front(K))
  <2>1. i \in 1..(Len(K) - 1)
    BY <1>1, <1>4 DEF Last
  <2>2. DOMAIN Front(K) = 1..(Len(K) - 1)
    BY <1>3, LenProperties
  <2>. QED
    BY <1>3, <2>1, <2>2 DEF ToSet
<1>5. \A y \in ToSet(K) : \E i \in 1..Len(K) : y = K[i]
  BY <1>1 DEF ToSet
<1>. QED
  BY <1>2, <1>3, <1>4, <1>5, Appended

\* Taking one more finding keeps that.
LEMMA MergeStands ==
    ASSUME NEW S, NEW f \in S, NEW K, Stands(K, S \ {f}), \A x \in S : Graded(x)
    PROVE  Stands(Merge(K, f), S)
<1>. DEFINE T == S \ {f}
            Represented(x, y) == y = x \/ (~Outranks(x, y) /\ \E z \in S : z.scanner # x.scanner)
<1>1. K \in Seq(S) /\ K \in Seq(T)
  BY DEF Stands
<1>2. \A x \in T : \E y \in ToSet(K) : Represented(x, y)
  BY DEF Stands
<1>3. CASE ~(K # <<>> /\ SameWeakness(Last(K), f))
  <2>1. Merge(K, f) = Append(K, f)
    BY <1>3 DEF Merge
  <2>. QED
    BY <1>1, <1>2, <2>1, Appended DEF Stands
<1>4. CASE K # <<>> /\ SameWeakness(Last(K), f)
  <2>1. Last(K) \in T /\ Last(K) \in ToSet(K) /\ Last(K).scanner # f.scanner
    BY <1>1, <1>4, LastReplaced DEF SameWeakness
  <2>2. CASE ~Outranks(f, Last(K))
    <3>1. Merge(K, f) = K
      BY <1>4, <2>2 DEF Merge
    <3>2. Represented(f, Last(K))
      BY <2>1, <2>2
    <3>. QED
      BY <1>1, <1>2, <2>1, <3>1, <3>2 DEF Stands
  <2>3. CASE Outranks(f, Last(K))
    <3>. DEFINE N == Append(Front(K), f)
    <3>1. Merge(K, f) = N
      BY <1>4, <2>3 DEF Merge
    <3>2. /\ N \in Seq(S) /\ f \in ToSet(N)
          /\ \A y \in ToSet(K) : y = Last(K) \/ y \in ToSet(N)
      BY <1>1, <1>4, LastReplaced
    <3>. HIDE DEF N
    <3>3. ASSUME NEW x \in T
          PROVE  \E y \in ToSet(N) : Represented(x, y)
      <4>1. PICK y \in ToSet(K) : Represented(x, y)
        BY <1>2
      <4>2. CASE y # Last(K)
        BY <3>2, <4>1, <4>2
      <4>3. CASE y = Last(K)
        <5>1. ~Outranks(Last(K), f)
          BY <2>1, <2>3, OutranksOrder
        <5>2. CASE x = Last(K)
          BY <2>1, <3>2, <5>1, <5>2
        <5>3. CASE x # Last(K)
          <6>1. ~Outranks(x, Last(K)) /\ \E z \in S : z.scanner # x.scanner
            BY <4>1, <4>3, <5>3
          <6>2. ~Outranks(x, f)
            BY <2>1, <5>1, <6>1, OutranksOrder
          <6>. QED
            BY <3>2, <6>1, <6>2
        <5>. QED
          BY <5>2, <5>3
      <4>. QED
        BY <4>2, <4>3
    <3>. QED
      BY <3>1, <3>2, <3>3 DEF Stands
  <2>. QED
    BY <2>2, <2>3
<1>. QED
  BY <1>3, <1>4

\* What survives of one class in one file stands for all of it.
LEMMA SurvivorsStand ==
    ASSUME NEW G, IsFiniteSet(G), NEW position, Ordered(G, position), \A x \in G : Graded(x)
    PROVE  Stands(Survivors(G, position), G)
<1>. DEFINE kept == CHOOSE g : IsKept(g, G, position)
<1>1. kept = [S \in SUBSET G |-> Kept(kept, S, position)]
  <2>1. IsKept(kept, G, position)
    BY SurvivorsExist
  <2>. QED
    BY <2>1 DEF IsKept
<1>2. Survivors(G, position) = kept[G]
  BY DEF Survivors, Kept, IsKept
<1>. HIDE DEF kept
<1>. DEFINE Bad == {S \in SUBSET G : ~Stands(kept[S], S)}
<1>3. ASSUME Bad # {}
      PROVE  FALSE
  <2>1. Bad \subseteq SUBSET G /\ \A S \in SUBSET G : S \in Bad <=> ~Stands(kept[S], S)
    OBVIOUS
  <2>. HIDE DEF Bad
  <2>2. PICK S \in Bad : \A T \in Bad : T \subseteq S => T = S
    BY <1>3, <2>1, SmallestSet
  <2>3. S \in SUBSET G /\ kept[S] = Kept(kept, S, position)
    BY <1>1, <2>1
  <2>4. CASE S = {}
    <3>1. kept[S] = <<>>
      BY <2>3, <2>4 DEF Kept
    <3>2. Stands(kept[S], S)
      BY <2>4, <3>1 DEF Stands
    <3>. QED
      BY <2>1, <3>2
  <2>5. CASE S # {}
    <3>. DEFINE f == LastOf(S, position)
    <3>1. f \in S
      <4>1. IsFiniteSet(S)
        BY <2>3, FS_Subset
      <4>. QED
        BY <2>3, <2>5, <4>1, OrderedPart, LastOfIsThere
    <3>. HIDE DEF f
    <3>2. kept[S] = Merge(kept[S \ {f}], f)
      BY <2>3, <2>5 DEF Kept, f
    <3>3. S \ {f} \in SUBSET G /\ S \ {f} \subseteq S /\ S \ {f} # S
      BY <2>3, <3>1
    <3>4. Stands(kept[S \ {f}], S \ {f})
      BY <2>1, <2>2, <3>3
    <3>5. Stands(kept[S], S)
      BY <2>3, <3>1, <3>2, <3>4, MergeStands
    <3>. QED
      BY <2>1, <3>5
  <2>. QED
    BY <2>4, <2>5
<1>4. Stands(kept[G], G)
  BY <1>3
<1>. QED
  BY <1>2, <1>4

\* Numbers with which de-duplication works.
Numbered(F, position) == Ordered(F, position) /\ \A x \in F : Graded(x)

\* De-duplication hides a finding only behind one of the same class in the same file
\* that it does not outrank, and only when another tier reports that class there.
LEMMA DedupeStands ==
    ASSUME NEW F, IsFiniteSet(F), NEW position, Numbered(F, position)
    PROVE  /\ Dedupe(F, position) \subseteq F
           /\ \A x \in F : \/ x \in Dedupe(F, position)
                           \/ \E y \in Dedupe(F, position), z \in F :
                                 /\ y.file = x.file /\ z.file = x.file
                                 /\ y.cwe = x.cwe /\ z.cwe = x.cwe
                                 /\ ~Outranks(x, y) /\ z.scanner # x.scanner
<1>. DEFINE Passthrough == {f \in F : ~Mergeable(f)}
            Group(f) == {g \in F \ Passthrough : g.file = f.file /\ g.cwe = f.cwe}
            Groups == {Group(f) : f \in F \ Passthrough}
            D == Dedupe(F, position)
<1>1. D = Passthrough \cup UNION {ToSet(Survivors(G, position)) : G \in Groups}
  BY DEF Dedupe
<1>2. ASSUME NEW G \in SUBSET F
      PROVE  Stands(Survivors(G, position), G)
  <2>1. IsFiniteSet(G) /\ Ordered(G, position) /\ \A x \in G : Graded(x)
    BY FS_Subset, OrderedPart DEF Numbered
  <2>. QED
    BY <2>1, SurvivorsStand
<1>3. \A G \in Groups : G \in SUBSET F
  OBVIOUS
<1>. HIDE DEF D, Groups
<1>4. ASSUME NEW G \in SUBSET F
      PROVE  ToSet(Survivors(G, position)) \subseteq G
  <2>1. Survivors(G, position) \in Seq(G)
    BY <1>2 DEF Stands
  <2>. QED
    BY <2>1, LenProperties, ElementOfSeq DEF ToSet
<1>5. D \subseteq F
  BY <1>1, <1>3, <1>4
<1>6. ASSUME NEW x \in F, x \notin Passthrough
      PROVE  \/ x \in D
             \/ \E y \in D, z \in F :
                   /\ y.file = x.file /\ z.file = x.file /\ y.cwe = x.cwe /\ z.cwe = x.cwe
                   /\ ~Outranks(x, y) /\ z.scanner # x.scanner
  <2>1. Group(x) \in Groups /\ x \in Group(x) /\ Group(x) \in SUBSET F
    BY <1>6 DEF Groups
  <2>2. \A g \in Group(x) : g.file = x.file /\ g.cwe = x.cwe
    OBVIOUS
  <2>. HIDE DEF Group
  <2>3. PICK y \in ToSet(Survivors(Group(x), position)) :
            y = x \/ (~Outranks(x, y) /\ \E z \in Group(x) : z.scanner # x.scanner)
    BY <1>2, <2>1 DEF Stands
  <2>4. y \in D /\ y \in Group(x)
    BY <1>1, <1>4, <2>1, <2>3
  <2>. QED
    BY <2>1, <2>2, <2>3, <2>4
<1>7. \A x \in Passthrough : x \in D
  BY <1>1
<1>. QED
  BY <1>5, <1>6, <1>7 DEF D

-----------------------------------------------------------------------------
(***************************************************************************)
(* The rest of the pipeline: what becomes of each finding, and how severe  *)
(* what it reports is.                                                     *)
(***************************************************************************)

\* A finding as the scanners make it.
WellMade(x) ==
    /\ x = [scanner |-> x.scanner, file |-> x.file, rule |-> x.rule, cwe |-> x.cwe,
            line |-> x.line, severity |-> x.severity, original |-> x.severity,
            confidence |-> x.confidence, fix |-> x.fix]
    /\ x.severity \in Severities

\* y is x, perhaps with another severity.
Recast(x, y) == y = [x EXCEPT !.severity = y.severity]

LEMMA RecastSame ==
    ASSUME NEW x, WellMade(x), NEW y, Recast(x, y)
    PROVE  /\ y.scanner = x.scanner /\ y.file = x.file /\ y.rule = x.rule /\ y.cwe = x.cwe
           /\ y.original = x.severity
BY DEF WellMade, Recast

\* Project context changes the severity only, lowers it by one step at most, and that
\* in internal files alone.
LEMMA PlacedRecasts ==
    ASSUME NEW x, WellMade(x), NEW context
    PROVE  /\ Recast(x, Placed(x, context))
           /\ Placed(x, context).severity \in Severities
           /\ Placed(x, context).severity >= x.severity - 1
           /\ x.file \notin context.internal => Placed(x, context).severity >= x.severity
<1>. DEFINE raised == IF x.file \in context.sensitive THEN Raised(x.severity) ELSE x.severity
            placed == IF x.file \in context.internal THEN Lowered(raised) ELSE raised
<1>1. x.severity \in 0..4
  BY DEF WellMade, Severities, Info, Critical
<1>2. raised \in 0..4 /\ raised >= x.severity
  BY <1>1 DEF Raised, Least, Critical, Low
<1>3. /\ placed \in 0..4 /\ placed >= x.severity - 1
      /\ x.file \notin context.internal => placed >= x.severity
  <2>. HIDE DEF raised
  <2>. QED
    BY <1>1, <1>2 DEF Lowered, Greatest, Info
<1>4. Placed(x, context) = [x EXCEPT !.severity = placed]
  BY DEF Placed
<1>. HIDE DEF placed
<1>5. Recast(x, Placed(x, context)) /\ Placed(x, context).severity = placed
  BY <1>4 DEF WellMade, Recast
<1>. QED
  BY <1>3, <1>5 DEF Severities, Info, Critical

\* Context as a whole: every finding stays, in its cast, and none is new.
LEMMA ContextKeeps ==
    ASSUME NEW D, \A x \in D : WellMade(x), NEW context
    PROVE  /\ \A x \in D : \E p \in ApplyContext(D, context) : Recast(x, p)
           /\ \A p \in ApplyContext(D, context) : \E x \in D :
                 /\ Recast(x, p) /\ p.severity \in Severities /\ p.severity >= x.severity - 1
                 /\ context = None \/ x.file \notin context.internal => p.severity >= x.severity
<1>1. CASE context = None
  <2>1. ApplyContext(D, context) = D
    BY <1>1 DEF ApplyContext
  <2>2. \A x \in D : Recast(x, x) /\ x.severity \in Severities /\ x.severity >= x.severity - 1
                     /\ x.severity >= x.severity
    BY DEF Recast, WellMade, Severities, Info, Critical
  <2>. QED
    BY <2>1, <2>2
<1>2. CASE context # None
  <2>1. ApplyContext(D, context) = {Placed(x, context) : x \in D}
    BY <1>2 DEF ApplyContext
  <2>. QED
    BY <1>2, <2>1, PlacedRecasts
<1>. QED
  BY <1>1, <1>2

\* What becomes of the findings that are left when suppressions and de-duplication are
\* done: each is reported, excepted on record, or below the severity asked for.
LEMMA Completed ==
    ASSUME NEW c, c.minSeverity \in Severities, NEW context, NEW F, NEW open,
           NEW D, NEW x \in D, \A d \in D : WellMade(d)
    PROVE  LET out == Complete(c, context, F, open, D)
           IN  \/ \E y \in out.findings : Recast(x, y)
               \/ /\ c.trusted /\ Excepted(x, c.exceptions, {"suppress"})
                  /\ \E y \in out.audited : Recast(x, y)
               \/ x.original < c.minSeverity
<1>. DEFINE placed == ApplyContext(D, context)
            filtered == Filtered(c, placed \cup Chains(placed))
            matched == {f \in filtered : Excepted(f, c.exceptions, {"suppress", "accept"})}
            out == Complete(c, context, F, open, D)
<1>1. /\ out.findings = Unexcepted(c, filtered)
      /\ c.trusted => matched \subseteq out.audited
  BY DEF Complete
<1>2. PICK p \in placed : Recast(x, p) /\ p.severity \in Severities
  <2>1. PICK p \in placed : Recast(x, p)
    BY ContextKeeps
  <2>2. p.severity \in Severities
    BY <2>1, ContextKeeps
  <2>. QED
    BY <2>1, <2>2
<1>3. /\ WellMade(x) /\ p.original = x.original /\ p.file = x.file /\ p.rule = x.rule
      /\ x.original = x.severity /\ x.severity \in Int /\ p.severity \in Int /\ c.minSeverity \in Int
  BY <1>2, RecastSame DEF WellMade, Severities, Info, Critical
<1>. HIDE DEF placed, out
<1>4. CASE ~Shown(p, c.minSeverity)
  <2>1. x.original < c.minSeverity
    BY <1>3, <1>4 DEF Shown, Greatest
  <2>. QED
    BY <2>1 DEF out
<1>5. CASE Shown(p, c.minSeverity)
  <2>1. p \in filtered
    BY <1>2, <1>5 DEF Filtered
  <2>. HIDE DEF filtered
  <2>2. CASE c.trusted /\ Excepted(p, c.exceptions, {"suppress"})
    <3>1. Excepted(x, c.exceptions, {"suppress"})
      BY <1>3, <2>2 DEF Excepted
    <3>2. p \in matched
      BY <2>1, <2>2 DEF Excepted
    <3>. QED
      BY <1>1, <1>2, <2>2, <3>1, <3>2 DEF out
  <2>3. CASE ~(c.trusted /\ Excepted(p, c.exceptions, {"suppress"}))
    <3>1. p \in out.findings
      BY <1>1, <2>1, <2>3 DEF Unexcepted
    <3>. QED
      BY <1>2, <3>1 DEF out
  <2>. QED
    BY <2>2, <2>3
<1>. QED
  BY <1>4, <1>5

\* The fate of a finding in the pipeline: it is reported, or one of the four reasons
\* for leaving it out holds.
SetAside(c, comments, audited, x) ==
    /\ \/ c.trusted /\ Commented(x, comments)
       \/ Allowed(x, c.allow)
       \/ c.trusted /\ Excepted(x, c.exceptions, {"suppress"})
    /\ c.trusted => \E y \in audited : Recast(x, y)

Fate(c, comments, out, x) ==
    \/ \E y \in out.findings : Recast(x, y)
    \/ SetAside(c, comments, out.audited, x)
    \/ x.original < c.minSeverity

LEMMA Finished ==
    ASSUME NEW c, c.minSeverity \in Severities, NEW context, NEW F, IsFiniteSet(F),
           \A x \in F : WellMade(x), NEW ran, NEW comments, NEW position, Numbered(F, position),
           NEW x \in F
    PROVE  LET out == Finish(c, context, F, ran, comments, position)
           IN  \/ Fate(c, comments, out, x)
               \/ Redundant(x, ran)
               \/ \E y, z \in F :
                     /\ y.file = x.file /\ z.file = x.file /\ y.cwe = x.cwe /\ z.cwe = x.cwe
                     /\ ~Outranks(x, y) /\ z.scanner # x.scanner /\ Fate(c, comments, out, y)
<1>. DEFINE open == Unlisted(c, Uncommented(c, F, comments))
            left == PreferAst(open, ran)
            D == Dedupe(left, position)
            out == Finish(c, context, F, ran, comments, position)
<1>1. out = Complete(c, context, F, open, D)
  BY DEF Finish
<1>2. c.trusted => F \ open \subseteq out.audited
  <2>. HIDE DEF open, D
  <2>. QED
    BY <1>1 DEF Complete
<1>3. open \subseteq F /\ left \subseteq open
  BY DEF Unlisted, Uncommented, PreferAst
<1>4. CASE x \notin open
  <2>1. (c.trusted /\ Commented(x, comments)) \/ Allowed(x, c.allow)
    BY <1>4 DEF Unlisted, Uncommented
  <2>2. Recast(x, x)
    BY DEF WellMade, Recast
  <2>. HIDE DEF open, D, left, out
  <2>3. SetAside(c, comments, out.audited, x)
    BY <1>2, <1>4, <2>1, <2>2 DEF SetAside
  <2>. QED
    BY <2>3 DEF Fate, out
<1>5. CASE x \in open /\ x \notin left
  BY <1>5 DEF PreferAst
<1>6. ASSUME NEW d \in D
      PROVE  Fate(c, comments, out, d)
  <2>1. \A f \in D : WellMade(f)
    <3>1. D \subseteq left
      <4>1. IsFiniteSet(left) /\ Numbered(left, position)
        <5>. HIDE DEF left
        <5>. QED
          BY <1>3, FS_Subset, OrderedPart DEF Numbered
      <4>. HIDE DEF left
      <4>. QED
        BY <4>1, DedupeStands
    <3>. HIDE DEF D, left, open
    <3>. QED
      BY <1>3, <3>1
  <2>. HIDE DEF D, left, open, out
  <2>. QED
    BY <1>1, <2>1, Completed DEF Fate, SetAside
<1>7. CASE x \in left
  <2>1. IsFiniteSet(left) /\ Numbered(left, position)
    <3>. HIDE DEF left
    <3>. QED
      BY <1>3, FS_Subset, OrderedPart DEF Numbered
  <2>. HIDE DEF left
  <2>2. /\ D \subseteq left
        /\ \/ x \in D
           \/ \E y \in D, z \in left :
                 /\ y.file = x.file /\ z.file = x.file /\ y.cwe = x.cwe /\ z.cwe = x.cwe
                 /\ ~Outranks(x, y) /\ z.scanner # x.scanner
    BY <1>7, <2>1, DedupeStands
  <2>. HIDE DEF D, open, out
  <2>3. CASE x \in D
    BY <1>6, <2>3 DEF out
  <2>4. CASE x \notin D
    <3>1. PICK y \in D, z \in left :
              /\ y.file = x.file /\ z.file = x.file /\ y.cwe = x.cwe /\ z.cwe = x.cwe
              /\ ~Outranks(x, y) /\ z.scanner # x.scanner
      BY <2>2, <2>4
    <3>2. y \in F /\ z \in F /\ Fate(c, comments, out, y)
      BY <1>3, <1>6, <2>2
    <3>. QED
      BY <3>1, <3>2 DEF out
  <2>. QED
    BY <2>3, <2>4
<1>. QED
  BY <1>4, <1>5, <1>7

-----------------------------------------------------------------------------

LEMMA HighestBounds ==
    ASSUME NEW F, \A f \in F : f.severity \in Severities, NEW f \in F
    PROVE  Highest(F) \in Int /\ f.severity <= Highest(F)
<1>. DEFINE S == {g.severity : g \in F}
            T == {4 - s : s \in S}
            Tops(s) == s \in S /\ \A g \in F : g.severity <= s
<1>1. \A g \in F : g.severity \in 0..4 /\ g.severity \in S
  BY DEF Severities, Info, Critical
<1>2. S \subseteq 0..4 /\ S # {}
  BY <1>1
<1>. HIDE DEF S
<1>3. T \subseteq Nat /\ T # {} /\ \A s \in S : 4 - s \in T
  <2>1. \A s \in S : 4 - s \in T
    OBVIOUS
  <2>2. \A s \in S : 4 - s \in Nat
    BY <1>2
  <2>3. \A t \in T : \E s \in S : t = 4 - s
    OBVIOUS
  <2>. HIDE DEF T
  <2>. QED
    BY <1>2, <2>1, <2>2, <2>3
<1>4. \A n \in T : \E s \in S : n = 4 - s
  OBVIOUS
<1>. HIDE DEF T
<1>5. PICK n \in T : \A m \in T : ~(m < n)
  BY <1>3, LeastNumber
<1>6. PICK top \in S : n = 4 - top
  BY <1>4
<1>7. ASSUME NEW g \in F
      PROVE  g.severity <= top
  <2>1. 4 - g.severity \in T /\ g.severity \in 0..4 /\ top \in 0..4
    BY <1>1, <1>2, <1>3
  <2>2. ~(4 - g.severity < 4 - top)
    BY <1>5, <1>6, <2>1
  <2>. QED
    BY <2>1, <2>2
<1>8. Tops(top)
  BY <1>7
<1>9. Highest(F) = CHOOSE s : Tops(s)
  BY DEF Highest, S
<1>. HIDE DEF Tops
<1>10. Tops(Highest(F))
  BY <1>8, <1>9
<1>11. f.severity <= Highest(F) /\ Highest(F) \in S
  BY <1>10 DEF Tops
<1>12. \A s \in S : s \in Int
  BY <1>2
<1>. QED
  BY <1>11, <1>12

\* What is reported is a finding of a scanner, in its cast, or a chain.
LEMMA OutComes ==
    ASSUME NEW c, NEW context, NEW F, IsFiniteSet(F), \A x \in F : WellMade(x),
           NEW ran, NEW comments, NEW position, Numbered(F, position)
    PROVE  LET out == Finish(c, context, F, ran, comments, position)
               D == Dedupe(PreferAst(Unlisted(c, Uncommented(c, F, comments)), ran), position)
               placed == ApplyContext(D, context)
           IN  /\ out.findings = Unexcepted(c, Filtered(c, placed \cup Chains(placed)))
               /\ \A p \in placed : \E x \in F :
                     /\ Recast(x, p) /\ p.severity \in Severities /\ p.severity >= x.severity - 1
                     /\ context = None \/ x.file \notin context.internal => p.severity >= x.severity
<1>. DEFINE open == Unlisted(c, Uncommented(c, F, comments))
            left == PreferAst(open, ran)
            D == Dedupe(left, position)
            placed == ApplyContext(D, context)
            out == Finish(c, context, F, ran, comments, position)
<1>1. out.findings = Unexcepted(c, Filtered(c, placed \cup Chains(placed)))
  BY DEF Finish, Complete
<1>2. left \subseteq F
  BY DEF Unlisted, Uncommented, PreferAst
<1>. HIDE DEF left
<1>3. D \subseteq left
  <2>1. IsFiniteSet(left) /\ Numbered(left, position)
    BY <1>2, FS_Subset, OrderedPart DEF Numbered
  <2>. QED
    BY <2>1, DedupeStands
<1>. HIDE DEF D
<1>4. D \subseteq F /\ \A x \in D : WellMade(x)
  BY <1>2, <1>3
<1>5. \A p \in placed : \E x \in D :
          /\ Recast(x, p) /\ p.severity \in Severities /\ p.severity >= x.severity - 1
          /\ context = None \/ x.file \notin context.internal => p.severity >= x.severity
  BY <1>4, ContextKeeps
<1>. QED
  BY <1>1, <1>4, <1>5 DEF D, left

\* Every reported severity is one.
LEMMA OutGraded ==
    ASSUME NEW c, NEW context, NEW F, IsFiniteSet(F), \A x \in F : WellMade(x),
           NEW ran, NEW comments, NEW position, Numbered(F, position),
           NEW y \in Finish(c, context, F, ran, comments, position).findings
    PROVE  y.severity \in Severities
<1>. DEFINE D == Dedupe(PreferAst(Unlisted(c, Uncommented(c, F, comments)), ran), position)
            placed == ApplyContext(D, context)
<1>1. y \in Unexcepted(c, Filtered(c, placed \cup Chains(placed)))
  BY OutComes
<1>2. \A p \in placed : p.severity \in Severities
  BY OutComes
<1>. HIDE DEF placed
<1>3. y \in placed \/ y \in Chains(placed)
  BY <1>1 DEF Unexcepted, Filtered
<1>4. y \in Chains(placed) => y.severity = 3
  BY DEF Chains, Chain, HighSeverity
<1>. QED
  BY <1>2, <1>3, <1>4 DEF Severities, Info, Critical

\* A reported finding of a scanner is no lower than graded, but in an internal file.
LEMMA OutLowered ==
    ASSUME NEW c, NEW context, NEW F, IsFiniteSet(F), \A x \in F : WellMade(x),
           NEW ran, NEW comments, NEW position, Numbered(F, position),
           NEW x \in F, x.scanner # ChainScanner,
           NEW y \in Finish(c, context, F, ran, comments, position).findings, Recast(x, y),
           context = None \/ x.file \notin context.internal
    PROVE  y.severity >= x.severity
<1>. DEFINE D == Dedupe(PreferAst(Unlisted(c, Uncommented(c, F, comments)), ran), position)
            placed == ApplyContext(D, context)
<1>1. y \in Unexcepted(c, Filtered(c, placed \cup Chains(placed)))
  BY OutComes
<1>2. \A p \in placed : \E w \in F :
          /\ Recast(w, p)
          /\ context = None \/ w.file \notin context.internal => p.severity >= w.severity
  BY OutComes
<1>. HIDE DEF placed
<1>3. y.scanner = x.scanner /\ y.file = x.file /\ y.original = x.severity
  BY RecastSame
<1>4. \A z \in Chains(placed) : z.scanner = ChainScanner
  BY DEF Chains, Chain
<1>5. y \in placed
  BY <1>1, <1>3, <1>4 DEF Unexcepted, Filtered
<1>6. PICK w \in F : /\ Recast(w, y)
                     /\ context = None \/ w.file \notin context.internal => y.severity >= w.severity
  BY <1>2, <1>5
<1>7. y.file = w.file /\ y.original = w.severity
  BY <1>6, RecastSame
<1>. QED
  BY <1>3, <1>6, <1>7

\* A credential beside an injection in the report: unless the chain of the two is
\* excepted, something of its severity is reported.
LEMMA OutChained ==
    ASSUME ChainScanner # Secrets, NoCwe \notin InjectionCwes,
           NEW c, c.minSeverity \in Severities, NEW context, NEW F, IsFiniteSet(F),
           \A x \in F : WellMade(x),
           NEW ran, NEW comments, NEW position, Numbered(F, position),
           NEW x \in Finish(c, context, F, ran, comments, position).findings,
           NEW y \in Finish(c, context, F, ran, comments, position).findings,
           NEW file, x.file = file, y.file = file, x.scanner = Secrets, y.cwe \in InjectionCwes,
           ~(c.trusted /\ Excepted(Chain(file), c.exceptions, {"suppress"}))
    PROVE  \E z \in Finish(c, context, F, ran, comments, position).findings :
              z.severity >= HighSeverity
<1>. DEFINE D == Dedupe(PreferAst(Unlisted(c, Uncommented(c, F, comments)), ran), position)
            placed == ApplyContext(D, context)
            filtered == Filtered(c, placed \cup Chains(placed))
<1>1. Finish(c, context, F, ran, comments, position).findings = Unexcepted(c, filtered)
  BY OutComes
<1>2. \A p \in placed : \E w \in F : Recast(w, p) /\ p.severity \in Severities
                                     /\ p.severity >= w.severity - 1
  BY OutComes
<1>. HIDE DEF placed
<1>3. \A z \in Chains(placed) : z.scanner = ChainScanner /\ z.cwe = NoCwe
  BY DEF Chains, Chain
<1>4. x \in filtered /\ y \in filtered
  BY <1>1 DEF Unexcepted
<1>5. x \in placed /\ y \in placed
  BY <1>3, <1>4 DEF Filtered
<1>6. Chain(file) \in Chains(placed)
  BY <1>5 DEF Chains
<1>7. c.minSeverity \in 0..4
  BY DEF Severities, Info, Critical
<1>8. CASE c.minSeverity <= 3
  <2>1. Chain(file).severity = 3 /\ Chain(file).original = 3
    BY DEF Chain, HighSeverity
  <2>2. Shown(Chain(file), c.minSeverity)
    BY <1>7, <1>8, <2>1 DEF Shown, Greatest
  <2>3. Chain(file) \in filtered
    BY <1>6, <2>2 DEF Filtered
  <2>4. Chain(file) \in Unexcepted(c, filtered)
    BY <2>3 DEF Unexcepted
  <2>. QED
    BY <1>1, <2>1, <2>4 DEF HighSeverity
<1>9. CASE c.minSeverity = 4
  <2>1. Shown(x, 4)
    BY <1>4, <1>9 DEF Filtered
  <2>2. PICK w \in F : Recast(w, x) /\ x.severity \in Severities /\ x.severity >= w.severity - 1
    BY <1>2, <1>5
  <2>3. x.original = w.severity /\ w.severity \in 0..4 /\ x.severity \in 0..4
    BY <2>2, RecastSame DEF WellMade, Severities, Info, Critical
  <2>4. x.severity >= 3
    BY <2>1, <2>2, <2>3 DEF Shown, Greatest
  <2>. QED
    BY <2>4 DEF HighSeverity
<1>. QED
  BY <1>7, <1>8, <1>9

-----------------------------------------------------------------------------
(***************************************************************************)
(* A run.  Upright adds to Honest what the report of a finished run stands *)
(* on: its findings are of walked files, its workers are the scanners it   *)
(* selected, all have ended, and the report was made of just these.        *)
(***************************************************************************)

\* What the report of a run is made of.
OutOf(r) ==
    Finish(config[r], ContextOf(config[r]), Raw(r), Ran(r), CommentsOf(r), Position(config[r]))

Verdict(r) ==
    [findings |-> OutOf(r).findings, audited |-> OutOf(r).audited, failed |-> Failed(r),
     exit |-> IF ShouldFail(config[r], OutOf(r).findings, Failed(r) # {}) THEN 1 ELSE 0]

\* A run has findings of walked files only, runs what it selected, joins its threads
\* before it saves, and its report stays what its threads made it.
Settled(r) ==
    /\ code[r] \in 0..MaxVersion
    /\ pc[r] # "idle" => config[r] \in Configs
    /\ \A s \in Scanners : \A p \in found[r][s] : p[1] \in listed[r]
    /\ pc[r] \in {"scanning", "saved", "done"} =>
          \A s \in Scanners : worker[r][s] = "out" <=> s \notin Selected(config[r])
    /\ pc[r] \in {"saved", "done"} => \A s \in Scanners : worker[r][s] \in {"out", "ok", "failed"}
    /\ pc[r] = "done" => result[r] = Verdict(r)

Upright ==
    /\ Honest
    /\ version \in 0..MaxVersion
    /\ Table(result, Runs)
    /\ \A r \in Runs : Settled(r)

LEMMA SettledSame ==
    ASSUME NEW r \in Runs, Settled(r), pc'[r] = pc[r], config'[r] = config[r], code'[r] = code[r],
           listed'[r] = listed[r], text'[r] = text[r], worker'[r] = worker[r],
           found'[r] = found[r], result'[r] = result[r]
    PROVE  Settled(r)'
<1>1. Ran(r)' = Ran(r) /\ Failed(r)' = Failed(r) /\ CommentsOf(r)' = CommentsOf(r)
  BY DEF Ran, Failed, CommentsOf
<1>2. Raw(r)' = Raw(r)
  BY <1>1 DEF Raw
<1>3. OutOf(r)' = OutOf(r)
  BY <1>1, <1>2 DEF OutOf
<1>4. Verdict(r)' = Verdict(r)
  BY <1>1, <1>3 DEF Verdict
<1>. QED
  BY <1>4 DEF Settled

\* A step of one run changes nothing of another.
Same(q) ==
    /\ pc'[q] = pc[q] /\ config'[q] = config[q] /\ code'[q] = code[q] /\ listed'[q] = listed[q]
    /\ text'[q] = text[q] /\ worker'[q] = worker[q] /\ found'[q] = found[q]
    /\ result'[q] = result[q]

LEMMA OneRunMoves ==
    ASSUME TypeOK, Shape, Table(result, Runs), NEW r \in Runs, RunStep(r),
           NEW q \in Runs, q # r
    PROVE  Same(q)
<1>. DEFINE Moved(f, g) == g = f \/ \E a : g = [f EXCEPT ![r] = a]
<1>1. \A f, g : Table(f, Runs) /\ Moved(f, g) => g[q] = f[q]
  BY TableExcept
<1>2. /\ Table(pc, Runs) /\ Table(config, Runs) /\ Table(code, Runs) /\ Table(listed, Runs)
      /\ Table(text, Runs) /\ Table(worker, Runs)
  BY DEF TypeOK, Table
<1>3. Table(found, Runs)
  BY DEF Shape
<1>4. Moved(pc, pc') /\ Moved(result, result')
  BY Zenon DEF RunStep, Start, LookUp, ScanMissed, ScanAll, ScannerFails, Save, SaveFails, Report, Die
<1>5. Moved(config, config') /\ Moved(code, code') /\ Moved(listed, listed')
  BY Zenon DEF RunStep, Start, LookUp, ScanMissed, ScanAll, ScannerFails, Save, SaveFails, Report, Die,
               start
<1>6. Moved(text, text')
  BY Zenon DEF RunStep, Start, LookUp, ScanMissed, ScanAll, ScannerFails, Save, SaveFails, Report, Die,
               progress
<1>7. Moved(worker, worker')
  BY Zenon DEF RunStep, Start, LookUp, ScanMissed, ScanAll, ScannerFails, Save, SaveFails, Report, Die,
               progress
<1>8. Moved(found, found')
  BY Zenon DEF RunStep, Start, LookUp, ScanMissed, ScanAll, ScannerFails, Save, SaveFails, Report, Die,
               progress
<1>. HIDE DEF Moved
<1>. QED
  BY <1>1, <1>2, <1>3, <1>4, <1>5, <1>6, <1>7, <1>8 DEF Same

\* What a scanner reports on some files is about those files.
LEMMA ScannedWhere ==
    ASSUME NEW r, NEW s, NEW fs, NEW T, NEW p \in Scanned(r, s, fs, T)
    PROVE  p[1] \in fs
<1>1. PICK g \in {h \in fs : disk[h] # Gone} : p \in {<<g, i>> : i \in Detected(r, s, T[g])}
  BY DEF Scanned
<1>. QED
  BY <1>1

LEMMA HitWhere ==
    ASSUME NEW r, NEW s, NEW T, NEW fs, NEW p \in HitPairs(r, s, T, fs)
    PROVE  p[1] \in fs
<1>1. PICK g \in fs : p \in {<<g, i>> : i \in UNION {e.issues : e \in Hits(r, s, T, g)}}
  BY DEF HitPairs
<1>. QED
  BY <1>1

LEMMA StartSettles ==
    ASSUME Upright, NEW r \in Runs, Start(r)
    PROVE  Settled(r)'
<1>1. /\ TypeOK /\ Shape /\ version \in 0..MaxVersion
      /\ \A s \in Scanners : Worked(r, s)
  BY DEF Upright, Honest
<1>2. version' \in 0..MaxVersion /\ code'[r] = version'
  BY <1>1, ScanAssumption DEF Start, TypeOK
<1>3. PICK c \in Configs, broken \in SUBSET Scanners :
          /\ broken \subseteq Selected(c)
          /\ config' = [config EXCEPT ![r] = c]
          /\ worker' = [worker EXCEPT ![r] =
                [s \in Scanners |-> IF s \in broken THEN "failed"
                                    ELSE IF s \in Selected(c) THEN "ready" ELSE "out"]]
  BY DEF Start
<1>4. config'[r] = c /\ pc'[r] = "scanning" /\ found' = found
  BY <1>1, <1>3 DEF Start, TypeOK
<1>5. ASSUME NEW s \in Scanners
      PROVE  /\ worker'[r][s] = "out" <=> s \notin Selected(c)
             /\ found[r][s] = {}
  <2>1. worker'[r][s] = IF s \in broken THEN "failed"
                        ELSE IF s \in Selected(c) THEN "ready" ELSE "out"
    BY <1>1, <1>3 DEF TypeOK
  <2>2. worker[r][s] = "out"
    BY <1>1 DEF Start, Shape
  <2>. QED
    BY <1>1, <1>3, <2>1, <2>2 DEF Worked
<1>6. Selected(config'[r]) = Selected(c)
  BY <1>4
<1>. QED
  BY <1>2, <1>4, <1>5, <1>6 DEF Settled, Selected

\* A scanner of the run gets on: it was selected, and finds things in walked files.
LEMMA ScannerSettles ==
    ASSUME Upright, NEW r \in Runs, NEW s \in Scanners, pc[r] = "scanning", pc'[r] = "scanning",
           worker[r][s] \in {"ready", "looked"},
           UNCHANGED start,
           NEW w, w # "out", worker' = [worker EXCEPT ![r][s] = w],
           NEW pairs, found' = [found EXCEPT ![r][s] = pairs], \A p \in pairs : p[1] \in listed[r]
    PROVE  Settled(r)'
<1>1. TypeOK /\ Shape /\ Settled(r)
  BY DEF Upright, Honest
<1>2. UNCHANGED <<config, code, listed>>
  BY DEF start
<1>3. ASSUME NEW z \in Scanners
      PROVE  worker'[r][z] = "out" <=> z \notin Selected(config[r])
  BY <1>1 DEF TypeOK, Settled
<1>4. ASSUME NEW z \in Scanners, NEW p \in found'[r][z]
      PROVE  p[1] \in listed[r]
  <2>. DEFINE all == [found[r] EXCEPT ![s] = pairs]
  <2>1. found' = [found EXCEPT ![r] = all]
    OBVIOUS
  <2>. HIDE DEF all
  <2>2. found'[r] = all
    BY <1>1, <2>1, TableExcept DEF Shape
  <2>3. found'[r][z] = IF z = s THEN pairs ELSE found[r][z]
    BY <1>1, <2>2, TableExcept DEF Shape, all
  <2>. QED
    BY <1>1, <1>4, <2>3 DEF Settled
<1>5. Selected(config'[r]) = Selected(config[r]) /\ config[r] \in Configs /\ code[r] \in 0..MaxVersion
  BY <1>1, <1>2 DEF Settled
<1>. QED
  BY <1>2, <1>3, <1>4, <1>5 DEF Settled, Selected

LEMMA LookUpSettles ==
    ASSUME Upright, NEW r \in Runs, NEW s \in Scanners, LookUp(r, s)
    PROVE  Settled(r)'
<1>. DEFINE pairs == HitPairs(r, s, ReadTexts(r, listed[r]), listed[r])
<1>1. /\ pc[r] = "scanning" /\ pc' = pc /\ worker[r][s] = "ready" /\ UNCHANGED start
      /\ worker' = [worker EXCEPT ![r][s] = "looked"]
  BY DEF LookUp
<1>2. found' = [found EXCEPT ![r][s] = pairs]
  BY DEF LookUp, HitPairs, Hits
<1>3. \A p \in pairs : p[1] \in listed[r]
  BY HitWhere
<1>. HIDE DEF pairs
<1>. QED
  BY <1>1, <1>2, <1>3, ScannerSettles

LEMMA ScanMissedSettles ==
    ASSUME Upright, NEW r \in Runs, NEW s \in Scanners, ScanMissed(r, s)
    PROVE  Settled(r)'
<1>. DEFINE pairs == found[r][s] \cup Scanned(r, s, missed[r][s], text[r])
<1>1. /\ pc[r] = "scanning" /\ pc' = pc /\ worker[r][s] = "looked" /\ UNCHANGED start
      /\ worker' = [worker EXCEPT ![r][s] = "ok"]
  BY DEF ScanMissed
<1>2. found' = [found EXCEPT ![r][s] = pairs]
  BY DEF ScanMissed
<1>3. missed[r][s] \subseteq listed[r] /\ \A p \in found[r][s] : p[1] \in listed[r]
  BY <1>1 DEF Upright, Honest, Worked, Looked, Settled
<1>4. \A p \in pairs : p[1] \in listed[r]
  BY <1>3, ScannedWhere
<1>. HIDE DEF pairs
<1>. QED
  BY <1>1, <1>2, <1>4, ScannerSettles

LEMMA ScanAllSettles ==
    ASSUME Upright, NEW r \in Runs, NEW s \in Scanners, ScanAll(r, s)
    PROVE  Settled(r)'
<1>. DEFINE texts == ReadTexts(r, {f \in listed[r] : disk[f] # Gone})
            pairs == Scanned(r, s, listed[r], texts)
<1>1. /\ pc[r] = "scanning" /\ pc' = pc /\ worker[r][s] = "ready" /\ UNCHANGED start
      /\ worker' = [worker EXCEPT ![r][s] = "ok"]
  BY DEF ScanAll
<1>2. found' = [found EXCEPT ![r][s] = pairs]
  BY DEF ScanAll
<1>3. \A p \in pairs : p[1] \in listed[r]
  BY ScannedWhere
<1>. HIDE DEF pairs
<1>. QED
  BY <1>1, <1>2, <1>3, ScannerSettles

LEMMA ScannerFailsSettles ==
    ASSUME Upright, NEW r \in Runs, NEW s \in Scanners, ScannerFails(r, s)
    PROVE  Settled(r)'
<1>1. /\ pc[r] = "scanning" /\ pc' = pc /\ worker[r][s] \in {"ready", "looked"} /\ UNCHANGED start
      /\ worker' = [worker EXCEPT ![r][s] = "failed"]
      /\ found' = [found EXCEPT ![r][s] = {}]
  BY DEF ScannerFails
<1>. DEFINE none == {}
<1>2. found' = [found EXCEPT ![r][s] = none] /\ \A p \in none : p[1] \in listed[r]
  BY <1>1
<1>. HIDE DEF none
<1>. QED
  BY <1>1, <1>2, ScannerSettles

LEMMA EndSettles ==
    ASSUME Upright, NEW r \in Runs, Save(r) \/ SaveFails(r) \/ Report(r) \/ Die(r)
    PROVE  Settled(r)'
<1>1. TypeOK /\ Shape /\ Table(result, Runs) /\ Settled(r)
  BY DEF Upright, Honest
<1>2. UNCHANGED <<config, code, listed>>
  BY DEF Save, SaveFails, Report, Die, start
<1>3. Selected(config'[r]) = Selected(config[r]) /\ code'[r] \in 0..MaxVersion
  BY <1>1, <1>2 DEF Settled
<1>4. CASE Save(r) \/ SaveFails(r)
  <2>1. UNCHANGED <<worker, found>> /\ Joined(r) /\ pc'[r] = "saved"
    BY <1>1, <1>4 DEF Save, SaveFails, progress, TypeOK
  <2>. QED
    BY <1>1, <1>2, <1>3, <2>1 DEF Settled, Joined, Selected
<1>5. CASE Report(r)
  <2>1. UNCHANGED <<worker, found, text>> /\ pc[r] = "saved" /\ pc'[r] = "done"
    BY <1>1, <1>5 DEF Report, TypeOK
  <2>2. result' = [result EXCEPT ![r] = Verdict(r)]
    BY <1>5 DEF Report, Verdict, OutOf
  <2>3. result'[r] = Verdict(r)
    BY <1>1, <2>2, TableExcept
  <2>4. Ran(r)' = Ran(r) /\ Failed(r)' = Failed(r) /\ CommentsOf(r)' = CommentsOf(r)
    BY <2>1 DEF Ran, Failed, CommentsOf
  <2>5. Raw(r)' = Raw(r)
    BY <2>1, <2>4 DEF Raw
  <2>6. OutOf(r)' = OutOf(r)
    BY <1>2, <2>4, <2>5 DEF OutOf
  <2>7. Verdict(r)' = Verdict(r)
    BY <1>2, <2>4, <2>6 DEF Verdict
  <2>. QED
    BY <1>1, <1>2, <1>3, <2>1, <2>3, <2>7 DEF Settled, Selected
<1>6. CASE Die(r)
  <2>1. pc'[r] = "dead" /\ found' = [found EXCEPT ![r] = [s \in Scanners |-> {}]] /\ pc[r] # "idle"
    BY <1>1, <1>6 DEF Die, TypeOK
  <2>2. found'[r] = [s \in Scanners |-> {}]
    BY <1>1, <2>1, TableExcept DEF Shape
  <2>. QED
    BY <1>1, <1>2, <1>3, <2>1, <2>2 DEF Settled
<1>. QED
  BY <1>4, <1>5, <1>6

LEMMA UprightInit == Init => Upright
<1>. SUFFICES ASSUME Init
              PROVE  Upright
  OBVIOUS
<1>1. Honest
  BY HonestInit
<1>2. version \in 0..MaxVersion /\ Table(result, Runs)
  BY ScanAssumption DEF Init, Table
<1>3. ASSUME NEW r \in Runs
      PROVE  Settled(r)
  BY <1>2, ScanAssumption DEF Init, Settled
<1>. QED
  BY <1>1, <1>2, <1>3 DEF Upright

LEMMA UprightStep == Upright /\ [Next]_vars => Upright'
<1>. SUFFICES ASSUME Upright, [Next]_vars
              PROVE  Upright'
  OBVIOUS
<1>1. TypeOK /\ Shape /\ Table(result, Runs) /\ \A q \in Runs : Settled(q)
  BY DEF Upright, Honest
<1>2. Honest'
  BY HonestStep DEF Upright
<1>3. CASE \E r \in Runs : RunStep(r)
  <2>1. PICK r \in Runs : RunStep(r)
    BY <1>3
  <2>2. Settled(r)'
    BY <2>1, StartSettles, LookUpSettles, ScanMissedSettles, ScanAllSettles, ScannerFailsSettles,
       EndSettles DEF RunStep
  <2>3. ASSUME NEW q \in Runs, q # r
        PROVE  Settled(q)'
    <3>1. Same(q)
      BY <1>1, <2>1, <2>3, OneRunMoves
    <3>. QED
      BY <1>1, <3>1, SettledSame DEF Same
  <2>4. version' \in version..MaxVersion \/ version' = version
    BY <2>1, Zenon DEF RunStep, Start, LookUp, ScanMissed, ScanAll, ScannerFails, Save, SaveFails,
                       Report, Die, project
  <2>5. version' \in 0..MaxVersion
    BY <2>4, ScanAssumption DEF Upright
  <2>6. result' = result \/ \E a : result' = [result EXCEPT ![r] = a]
    BY <2>1, Zenon DEF RunStep, Start, LookUp, ScanMissed, ScanAll, ScannerFails, Save, SaveFails,
                       Report, Die
  <2>7. Table(result', Runs)
    BY <1>1, <2>6, TableExcept
  <2>. QED
    BY <1>2, <2>2, <2>3, <2>5, <2>7 DEF Upright
<1>4. CASE (\E f \in Files : Edit(f)) \/ UNCHANGED vars
  <2>1. UNCHANGED <<version, pc, start, progress, result>>
    BY <1>4 DEF Edit, vars, project
  <2>2. ASSUME NEW q \in Runs
        PROVE  Settled(q)'
    BY <1>1, <2>1, SettledSame DEF start, progress
  <2>. QED
    BY <1>1, <1>2, <2>1, <2>2 DEF Upright
<1>. QED
  BY <1>3, <1>4 DEF Next

LEMMA UprightAlways == Spec => []Upright
BY UprightInit, UprightStep, PTL DEF Spec

-----------------------------------------------------------------------------

\* What a scanner of a finished run found in a file is finite and graded.
LEMMA FoundGraded ==
    ASSUME Upright, NEW r \in Runs, Done(r), NEW s \in Ran(r), NEW f \in listed[r]
    PROVE  /\ s \in Scanners /\ s \in ToSet(config[r].scanners)
           /\ IsFiniteSet(Slice(found[r][s], f))
           /\ \A i \in Slice(found[r][s], f) :
                 /\ i.rule \in Nat /\ i.line \in Nat /\ i.confidence \in Nat
                 /\ i.severity \in Severities
<1>1. TypeOK /\ Settled(r) /\ s \in Scanners /\ worker[r][s] = "ok"
  BY DEF Upright, Honest, Ran
<1>2. Finds(r, s, f)
  BY <1>1 DEF Upright, Honest, Worked
<1>3. s \in Selected(config[r]) /\ config[r] \in Configs /\ code[r] \in 0..MaxVersion
  BY <1>1 DEF Settled, Done
<1>4. s \in ToSet(config[r].scanners)
  BY <1>3 DEF Selected
<1>5. CASE Slice(found[r][s], f) = {}
  BY <1>1, <1>4, <1>5, FS_EmptySet
<1>6. CASE Slice(found[r][s], f) # {}
  <2>1. text[r][f] \in Texts
    BY <1>1, <1>2, <1>6 DEF Finds, Says, TypeOK
  <2>2. PICK ast \in BOOLEAN :
            Slice(found[r][s], f) =
                Reports(code[r], s, config[r].options[s], Sanitizers(config[r], s), ast, text[r][f])
    BY <1>2, <1>6 DEF Finds, Says, Tiers, AstRunning
  <2>. QED
    BY <1>1, <1>3, <1>4, <2>1, <2>2, ReportsAssumption
<1>. QED
  BY <1>5, <1>6

\* The place of a scanner in the selection is a number.
LEMMA PositionIs ==
    ASSUME NEW c \in Configs, NEW s \in ToSet(c.scanners)
    PROVE  Position(c)[s] \in Int
<1>1. DOMAIN c.scanners = 1..Len(c.scanners) /\ Len(c.scanners) \in Nat
  BY ScanAssumption, LenProperties
<1>2. \E i \in DOMAIN c.scanners : c.scanners[i] = s
  BY DEF ToSet
<1>3. Position(c)[s] = CHOOSE i \in DOMAIN c.scanners : c.scanners[i] = s
  BY DEF Position
<1>. QED
  BY <1>1, <1>2, <1>3

LEMMA ImageFinite ==
    ASSUME NEW S, IsFiniteSet(S), NEW g
    PROVE  IsFiniteSet({g[x] : x \in S})
<1>. DEFINE T == {g[x] : x \in S}
            h == [x \in S |-> g[x]]
<1>1. h \in Surjection(S, T)
  BY DEF Surjection
<1>. QED
  BY <1>1, FS_Surjection

\* What a finished run found is well made, and de-duplication can work with it.
LEMMA RawMade ==
    ASSUME Upright, NEW r \in Runs, Done(r)
    PROVE  /\ IsFiniteSet(Raw(r))
           /\ \A x \in Raw(r) : WellMade(x) /\ x.scanner \in Scanners /\ x.file \in listed[r]
           /\ Numbered(Raw(r), Position(config[r]))
<1>. DEFINE Of(s, f) == {FindingOf(s, f, i) : i \in Slice(found[r][s], f)}
            By(s) == UNION {Of(s, f) : f \in listed[r]}
            All == UNION {By(s) : s \in Ran(r)}
<1>1. TypeOK /\ Settled(r)
  BY DEF Upright, Honest
<1>2. IsFiniteSet(listed[r]) /\ IsFiniteSet(Ran(r)) /\ Ran(r) \subseteq Scanners
  <2>1. listed[r] \in SUBSET Files /\ Ran(r) \in SUBSET Scanners
    BY <1>1 DEF TypeOK, Ran
  <2>. QED
    BY <2>1, ScanAssumption, FS_Subset
<1>3. ASSUME NEW s \in Ran(r)
      PROVE  IsFiniteSet(By(s))
  <2>1. ASSUME NEW f \in listed[r]
        PROVE  IsFiniteSet(Of(s, f))
    <3>. DEFINE g == [i \in Slice(found[r][s], f) |-> FindingOf(s, f, i)]
    <3>1. IsFiniteSet({g[i] : i \in Slice(found[r][s], f)})
      BY FoundGraded, ImageFinite
    <3>2. {g[i] : i \in Slice(found[r][s], f)} = Of(s, f)
      OBVIOUS
    <3>. QED
      BY <3>1, <3>2
  <2>. HIDE DEF Of
  <2>2. IsFiniteSet({Of(s, f) : f \in listed[r]})
    <3>. DEFINE g == [f \in listed[r] |-> Of(s, f)]
    <3>1. IsFiniteSet({g[f] : f \in listed[r]})
      BY <1>2, ImageFinite
    <3>. QED
      BY <3>1
  <2>3. \A S \in {Of(s, f) : f \in listed[r]} : IsFiniteSet(S)
    BY <2>1
  <2>. QED
    BY <2>2, <2>3, FS_UNION
<1>4. IsFiniteSet(All)
  <2>. HIDE DEF By
  <2>1. IsFiniteSet({By(s) : s \in Ran(r)})
    <3>. DEFINE g == [s \in Ran(r) |-> By(s)]
    <3>1. IsFiniteSet({g[s] : s \in Ran(r)})
      BY <1>2, ImageFinite
    <3>. QED
      BY <3>1
  <2>2. \A S \in {By(s) : s \in Ran(r)} : IsFiniteSet(S)
    BY <1>3
  <2>. QED
    BY <2>1, <2>2, FS_UNION
<1>5. ASSUME NEW x \in Raw(r)
      PROVE  \E s \in Ran(r), f \in listed[r] : \E i \in Slice(found[r][s], f) : x = FindingOf(s, f, i)
  <2>1. PICK s \in Ran(r) : x \in {FindingOf(s, p[1], p[2]) : p \in found[r][s]}
    BY <1>5 DEF Raw
  <2>2. PICK p \in found[r][s] : x = FindingOf(s, p[1], p[2])
    BY <2>1
  <2>3. p[1] \in listed[r] /\ p[2] \in Slice(found[r][s], p[1])
    BY <1>1, <2>2 DEF Settled, Ran, Slice
  <2>. QED
    BY <2>2, <2>3
<1>6. Raw(r) \subseteq All
  <2>1. \A s \in Ran(r), f \in listed[r] : \A i \in Slice(found[r][s], f) : FindingOf(s, f, i) \in All
    OBVIOUS
  <2>. HIDE DEF All
  <2>. QED
    BY <1>5, <2>1
<1>. HIDE DEF All
<1>7. ASSUME NEW x \in Raw(r)
      PROVE  /\ WellMade(x) /\ x.scanner \in Scanners /\ x.file \in listed[r] /\ Graded(x)
             /\ Position(config[r])[x.scanner] \in Int
  <2>1. PICK s \in Ran(r), f \in listed[r] : \E i \in Slice(found[r][s], f) : x = FindingOf(s, f, i)
    BY <1>5
  <2>2. PICK i \in Slice(found[r][s], f) : x = FindingOf(s, f, i)
    BY <2>1
  <2>3. /\ s \in Scanners /\ s \in ToSet(config[r].scanners)
        /\ i.rule \in Nat /\ i.line \in Nat /\ i.confidence \in Nat /\ i.severity \in Severities
    BY <2>2, FoundGraded
  <2>4. WellMade(x) /\ x.scanner = s /\ x.file = f
    BY <2>2, <2>3 DEF FindingOf, WellMade
  <2>5. Graded(x)
    BY <2>2, <2>3 DEF FindingOf, Graded, Severities, Info, Critical
  <2>6. Position(config[r])[s] \in Int
    BY <1>1, <2>3, PositionIs DEF Settled, Done
  <2>. QED
    BY <2>3, <2>4, <2>5, <2>6
<1>8. Numbered(Raw(r), Position(config[r]))
  BY <1>7 DEF Numbered, Ordered, Graded
<1>. QED
  BY <1>4, <1>6, <1>7, <1>8, FS_Subset

\* No finding of a scanner that ran gets lost without one of the reasons for it.
THEOREM NothingGetsLost == Spec => []Accounted
<1>1. ASSUME Upright
      PROVE  Accounted
  <2>. SUFFICES ASSUME NEW r \in Runs, Done(r), NEW x \in Raw(r)
                PROVE  Reported(r, x) \/ Suppressed(r, x) \/ Redundant(x, Ran(r)) \/ Folded(r, x)
                          \/ BelowFloor(r, x)
    BY DEF Accounted
  <2>. DEFINE c == config[r]
  <2>1. /\ result[r].findings = OutOf(r).findings /\ result[r].audited = OutOf(r).audited
        /\ c.minSeverity \in Severities
    <3>1. result[r] = Verdict(r) /\ c \in Configs
      BY <1>1 DEF Upright, Settled, Done
    <3>2. /\ Verdict(r).findings = OutOf(r).findings
          /\ Verdict(r).audited = OutOf(r).audited
      BY DEF Verdict
    <3>. QED
      BY <3>1, <3>2, ConfigAssumption
  <2>2. ASSUME NEW y, Fate(c, CommentsOf(r), OutOf(r), y)
        PROVE  Reported(r, y) \/ Suppressed(r, y) \/ BelowFloor(r, y)
    BY <2>1, <2>2 DEF Fate, SetAside, Recast, Reported, Suppressed, BelowFloor
  <2>3. /\ IsFiniteSet(Raw(r)) /\ \A y \in Raw(r) : WellMade(y)
        /\ Numbered(Raw(r), Position(c))
    BY <1>1, RawMade
  <2>. HIDE DEF c
  <2>4. \/ Fate(c, CommentsOf(r), OutOf(r), x)
        \/ Redundant(x, Ran(r))
        \/ \E y, z \in Raw(r) :
              /\ y.file = x.file /\ z.file = x.file /\ y.cwe = x.cwe /\ z.cwe = x.cwe
              /\ ~Outranks(x, y) /\ z.scanner # x.scanner
              /\ Fate(c, CommentsOf(r), OutOf(r), y)
    BY <2>1, <2>3, Finished DEF OutOf, c
  <2>. QED
    BY <2>2, <2>4 DEF Folded
<1>. QED
  BY <1>1, UprightAlways, PTL

\* A gating scan that exits 0 reports nothing of the severity it gates on.
LEMMA BelowGate ==
    ASSUME Upright, NEW r \in Runs, Done(r), result[r].exit = 0, config[r].failOn # None
    PROVE  /\ result[r].findings = OutOf(r).findings
           /\ \A y \in result[r].findings : y.severity \in Int /\ y.severity < config[r].failOn
           /\ ~FailsOnErrors(config[r], Failed(r) # {})
<1>. DEFINE c == config[r]
<1>1. result[r] = Verdict(r) /\ c \in Configs
  BY DEF Upright, Settled, Done
<1>2. /\ Verdict(r).findings = OutOf(r).findings
      /\ Verdict(r).exit = IF ShouldFail(c, OutOf(r).findings, Failed(r) # {}) THEN 1 ELSE 0
  BY DEF Verdict
<1>3. ~ShouldFail(c, OutOf(r).findings, Failed(r) # {})
  BY <1>1, <1>2
<1>4. c.failOn \in Int
  BY <1>1, ConfigAssumption DEF Severities, Info, Critical
<1>5. \A y \in OutOf(r).findings : y.severity \in Severities
  BY RawMade, OutGraded DEF OutOf
<1>6. ASSUME NEW y \in OutOf(r).findings
      PROVE  y.severity \in Int /\ y.severity < c.failOn
  <2>1. Highest(OutOf(r).findings) \in Int /\ y.severity <= Highest(OutOf(r).findings)
    BY <1>5, HighestBounds
  <2>2. y.severity \in Int
    BY <1>5 DEF Severities, Info, Critical
  <2>3. ~(Highest(OutOf(r).findings) >= c.failOn)
    BY <1>3 DEF ShouldFail
  <2>. QED
    BY <1>4, <2>1, <2>2, <2>3
<1>. QED
  BY <1>1, <1>2, <1>3, <1>6 DEF ShouldFail

\* The gate of a scan holds what it says (should_fail, errors_fail_gate).
THEOREM GateTells == Spec => []GateHolds
<1>1. ASSUME Upright
      PROVE  GateHolds
  <2>. SUFFICES ASSUME NEW r \in Runs, Done(r), result[r].exit = 0, config[r].failOn # None
                PROVE  /\ config[r].failOnError # "no" => Selected(config[r]) = Ran(r)
                       /\ \A x \in Raw(r) : x.severity >= config[r].failOn =>
                             \/ ~Reported(r, x)
                             \/ /\ ContextOf(config[r]) # None
                                /\ x.file \in ContextOf(config[r]).internal
                       /\ ~\E file \in Files, x, y \in result[r].findings :
                             /\ x.file = file /\ y.file = file /\ x.scanner = Secrets
                             /\ y.cwe \in InjectionCwes /\ config[r].failOn <= HighSeverity
                             /\ ~(config[r].trusted
                                    /\ Excepted(Chain(file), config[r].exceptions, {"suppress"}))
    BY DEF GateHolds
  <2>. DEFINE c == config[r]  context == ContextOf(c)
  <2>1. /\ result[r].findings = OutOf(r).findings
        /\ \A y \in result[r].findings : y.severity \in Int /\ y.severity < c.failOn
        /\ ~FailsOnErrors(c, Failed(r) # {})
    BY <1>1, BelowGate
  <2>2. c \in Configs /\ Settled(r)
    BY <1>1 DEF Upright, Settled, Done
  <2>3. /\ c.minSeverity \in Severities /\ c.failOn \in Int
        /\ c.failOnError \in {None, "yes", "no"}
    BY <2>2, ConfigAssumption DEF Severities, Info, Critical
  <2>4. /\ IsFiniteSet(Raw(r)) /\ Numbered(Raw(r), Position(c))
        /\ \A x \in Raw(r) : WellMade(x) /\ x.scanner \in Scanners
    BY <1>1, RawMade
  <2>5. OutOf(r) = Finish(c, context, Raw(r), Ran(r), CommentsOf(r), Position(c))
    BY DEF OutOf
  <2>6. ASSUME c.failOnError # "no"
        PROVE  Selected(c) = Ran(r)
    <3>1. Failed(r) = {}
      BY <2>1, <2>3, <2>6 DEF FailsOnErrors
    <3>2. \A s \in Scanners : worker[r][s] = "ok" <=> s \in Selected(c)
      BY <2>2, <3>1 DEF Settled, Done, Failed
    <3>3. Selected(c) \subseteq Scanners
      <4>1. \A i \in DOMAIN c.scanners : c.scanners[i] \in Scanners
        BY <2>2, ScanAssumption, ElementOfSeq, LenProperties
      <4>. QED
        BY <4>1 DEF Selected, ToSet
    <3>. QED
      BY <3>2, <3>3 DEF Ran
  <2>7. ASSUME NEW x \in Raw(r), x.severity >= c.failOn, Reported(r, x)
        PROVE  context # None /\ x.file \in context.internal
    <3>1. PICK y \in OutOf(r).findings : Recast(x, y)
      BY <2>1, <2>7 DEF Reported, Recast
    <3>2. y.severity < c.failOn /\ y.severity \in Int /\ x.severity \in Int
      BY <2>1, <2>4, <3>1 DEF WellMade, Severities, Info, Critical
    <3>3. x.scanner # ChainScanner
      BY <2>4, ChainAssumption
    <3>. HIDE DEF c, context
    <3>4. context = None \/ x.file \notin context.internal => y.severity >= x.severity
      BY <2>4, <2>5, <3>1, <3>3, OutLowered
    <3>. QED
      BY <2>3, <2>7, <3>2, <3>4
  <2>8. ASSUME NEW file \in Files, NEW x \in result[r].findings, NEW y \in result[r].findings,
               x.file = file, y.file = file, x.scanner = Secrets, y.cwe \in InjectionCwes,
               c.failOn <= HighSeverity,
               ~(c.trusted /\ Excepted(Chain(file), c.exceptions, {"suppress"}))
        PROVE  FALSE
    <3>1. ChainScanner # Secrets /\ NoCwe \notin InjectionCwes
      BY ChainAssumption
    <3>. HIDE DEF c, context
    <3>2. PICK z \in OutOf(r).findings : z.severity >= HighSeverity
      BY <2>1, <2>3, <2>4, <2>5, <2>8, <3>1, OutChained
    <3>. QED
      BY <2>1, <2>3, <2>8, <3>2 DEF HighSeverity
  <2>. QED
    BY <2>6, <2>7, <2>8
<1>. QED
  BY <1>1, UprightAlways, PTL
===============================================================================
