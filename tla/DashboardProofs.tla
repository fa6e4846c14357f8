---------------------------- MODULE DashboardProofs ----------------------------
(***************************************************************************)
(* Theorems about Dashboard, for any number of requests, reports and kept  *)
(* scans.                                                                  *)
(***************************************************************************)
EXTENDS Dashboard, FiniteSetTheorems, WellFoundedInduction, TLAPS

\* A bounded set of numbers that is not empty has a largest element.
LEMMA MaxExists ==
    ASSUME NEW S \in SUBSET Nat, S # {}, NEW n \in Nat, \A k \in S : k <= n
    PROVE  \E x \in S : \A y \in S : x >= y
<1>. DEFINE Less == {p \in Nat \X Nat : p[1] < p[2]}
            Above == {n - k : k \in S}
<1>1. IsWellFoundedOn(Less, Nat)
  BY NatLessThanWellFounded DEF OpToRel
<1>2. Above \subseteq Nat /\ Above # {}
  <2>1. \A k \in S : k \in Nat /\ n - k \in Nat
    OBVIOUS
  <2>2. PICK k \in S : TRUE
    OBVIOUS
  <2>3. n - k \in Above
    OBVIOUS
  <2>. QED
    BY <2>1, <2>3, Zenon
<1>3. PICK a \in Above : \A b \in Above : <<b, a>> \notin Less
  <2>. HIDE DEF Less, Above
  <2>. QED  BY <1>1, <1>2, WFMin
<1>4. \A b \in Above : a <= b
  <2>1. SUFFICES ASSUME NEW b \in Above
                 PROVE  a <= b
    OBVIOUS
  <2>2. a \in Nat /\ b \in Nat /\ <<b, a>> \notin Less
    <3>. HIDE DEF Less, Above
    <3>. QED  BY <1>2, <1>3
  <2>3. ~(b < a)
    <3>. HIDE DEF Above
    <3>. QED  BY <2>2
  <2>. QED
    <3>. HIDE DEF Above
    <3>. QED  BY <2>2, <2>3
<1>5. PICK x \in S : a = n - x
  OBVIOUS
<1>6. ASSUME NEW y \in S PROVE x >= y
  <2>1. n - y \in Above
    OBVIOUS
  <2>2. n - x <= n - y /\ x \in Nat /\ y \in Nat
    <3>. HIDE DEF Above
    <3>. QED  BY <1>4, <1>5, <2>1
  <2>. QED
    BY <2>2
<1>. QED
  BY <1>6

Bounded(rows) == \E n \in Nat : \A k \in DOMAIN rows : k <= n

Solid(t) == IsDatabase(t) /\ Bounded(t.projects) /\ Bounded(t.scans) /\ Bounded(t.findings)

LEMMA NextKeyIsNew ==
    ASSUME NEW rows, DOMAIN rows \subseteq Keys, Bounded(rows)
    PROVE  NextKey(rows) \in Keys /\ \A k \in DOMAIN rows : k < NextKey(rows)
<1>1. CASE DOMAIN rows = {}
  BY <1>1 DEF NextKey, Keys
<1>2. CASE DOMAIN rows # {}
  <2>1. DOMAIN rows \in SUBSET Nat
    BY DEF Keys
  <2>2. PICK n \in Nat : \A k \in DOMAIN rows : k <= n
    BY DEF Bounded
  <2>3. \E x \in DOMAIN rows : \A y \in DOMAIN rows : x >= y
    BY <1>2, <2>1, <2>2, MaxExists
  <2>4. Max(DOMAIN rows) \in DOMAIN rows /\ \A y \in DOMAIN rows : Max(DOMAIN rows) >= y
    BY <2>3 DEF Max
  <2>5. NextKey(rows) = Max(DOMAIN rows) + 1
    BY <1>2 DEF NextKey
  <2>. HIDE DEF Keys
  <2>. QED
    BY <2>1, <2>4, <2>5 DEF Keys
<1>. QED
  BY <1>1, <1>2

LEMMA RowAdded ==
    ASSUME NEW rows, NEW Row, IsTable(rows, Row), Bounded(rows), NEW k \in Keys, NEW row \in Row
    PROVE  /\ IsTable(WithRow(rows, k, row), Row)
           /\ Bounded(WithRow(rows, k, row))
<1>1. IsFiniteSet(DOMAIN rows \cup {k})
  BY FS_AddElement DEF IsTable
<1>2. PICK n \in Nat : \A j \in DOMAIN rows : j <= n
  BY DEF Bounded
<1>3. \A j \in DOMAIN rows \cup {k} : j <= n + k
  BY <1>2 DEF IsTable, Keys
<1>4. n + k \in Nat
  BY <1>2 DEF Keys
<1>5. Bounded(WithRow(rows, k, row))
  BY <1>3, <1>4 DEF Bounded, WithRow
<1>. QED
  BY <1>1, <1>5 DEF IsTable, WithRow

LEMMA RowsRemoved ==
    ASSUME NEW rows, NEW Row, IsTable(rows, Row), Bounded(rows), NEW keys
    PROVE  /\ IsTable(Without(rows, keys), Row)
           /\ Bounded(Without(rows, keys))
           /\ DOMAIN Without(rows, keys) = DOMAIN rows \ keys
           /\ \A j \in DOMAIN rows \ keys : Without(rows, keys)[j] = rows[j]
<1>1. IsFiniteSet(DOMAIN rows \ keys)
  BY FS_Difference DEF IsTable
<1>. QED
  BY <1>1 DEF IsTable, Bounded, Without, Restrict

\* The second table has the rows of the first and the findings of a report.
AddsFindings(rows, more, r) ==
    \E new \in SUBSET Keys :
        /\ IsFiniteSet(new) /\ Cardinality(new) = Size[r]
        /\ DOMAIN more = DOMAIN rows \cup new
        /\ \A f \in new : more[f].by = r
        /\ \A f \in DOMAIN rows \ new : more[f] = rows[f]

\* What WithFindings adds: as many rows as the report has findings.
LEMMA FindingsAdded ==
    ASSUME DashboardAssumption, NEW r \in Requests, scan[r] \in Keys,
           NEW rows, IsTable(rows, FindingRow), Bounded(rows)
    PROVE  /\ IsTable(WithFindings(rows, r), FindingRow)
           /\ Bounded(WithFindings(rows, r))
           /\ AddsFindings(rows, WithFindings(rows, r), r)
<1>. DEFINE first == NextKey(rows)
            new == first..(first + Size[r] - 1)
            row == [scan |-> scan[r], by |-> r]
<1>1. first \in Keys /\ Size[r] \in Nat
  BY NextKeyIsNew DEF IsTable, DashboardAssumption
<1>2. IsFiniteSet(new) /\ Cardinality(new) = Size[r] /\ new \subseteq Keys
  <2>. HIDE DEF first
  <2>1. first \in Int /\ first + Size[r] - 1 \in Int
    BY <1>1 DEF Keys
  <2>2. PICK last \in Int : last = first + Size[r] - 1
    BY <2>1
  <2>4. /\ IsFiniteSet(first..last)
        /\ Cardinality(first..last) = IF first > last THEN 0 ELSE last - first + 1
    BY <2>1, FS_Interval
  <2>5. Cardinality(first..last) = Size[r]
    BY <1>1, <2>1, <2>2, <2>4 DEF Keys
  <2>3. new \subseteq Keys
    BY <1>1 DEF Keys
  <2>. HIDE DEF new
  <2>. QED
    BY <2>2, <2>3, <2>4, <2>5 DEF new
<1>3. row \in FindingRow /\ row.by = r
  BY DEF FindingRow
<1>4. WithFindings(rows, r) = [f \in DOMAIN rows \cup new |-> IF f \in new THEN row ELSE rows[f]]
  BY DEF WithFindings
<1>5. IsFiniteSet(DOMAIN rows \cup new)
  BY <1>2, FS_Union DEF IsTable
<1>6. Bounded(WithFindings(rows, r))
  <2>. HIDE DEF first
  <2>1. PICK n \in Nat : \A j \in DOMAIN rows : j <= n
    BY DEF Bounded
  <2>2. \A j \in DOMAIN rows \cup new : j <= n + first + Size[r]
    BY <1>1, <2>1 DEF IsTable, Keys
  <2>3. n + first + Size[r] \in Nat
    BY <1>1, <2>1 DEF Keys
  <2>. QED
    BY <1>4, <2>2, <2>3 DEF Bounded
<1>. HIDE DEF new, row
<1>. QED
  BY <1>2, <1>3, <1>4, <1>5, <1>6 DEF IsTable, AddsFindings

-----------------------------------------------------------------------------

\* The changes of the request that has stored its scan and not its findings.
Draft(r) ==
    /\ scan[r] \in Keys
    /\ draft.findings = db.findings
    /\ DOMAIN draft.scans = DOMAIN db.scans \cup {scan[r]}
    /\ draft.scans[scan[r]].by = r
    /\ \A i \in DOMAIN db.scans \ {scan[r]} : draft.scans[i] = db.scans[i]

\* What the holder of the lock has changed, at each point of its transaction.
TxInv ==
    /\ lock # Nobody => pc[lock] \in {"named", "scanned", "swept"}
    /\ \A r \in Requests :
         /\ pc[r] \in {"named", "scanned"} => lock = r /\ project[r] \in Keys
         /\ pc[r] = "scanned" => Draft(r)
         /\ lock = r /\ pc[r] # "scanned" =>
                draft.scans = db.scans /\ draft.findings = db.findings
         /\ lock = r /\ pc[r] = "swept" => emptied[r] # {}

StoreInv == TypeOK /\ Solid(db) /\ Solid(draft) /\ TxInv

LEMMA EmptyIsSolid == Solid(Empty)
<1>1. DOMAIN <<>> = {}
  OBVIOUS
<1>2. IsFiniteSet({})
  BY FS_EmptySet
<1>. QED
  BY <1>1, <1>2 DEF Solid, IsDatabase, IsTable, Bounded, Empty

LEMMA StoreInit == DashboardAssumption /\ Init => StoreInv
<1>. SUFFICES ASSUME DashboardAssumption, Init PROVE StoreInv
  OBVIOUS
<1>1. Solid(db) /\ Solid(draft) /\ IsDatabase(db) /\ IsDatabase(draft)
  BY EmptyIsSolid DEF Init, Solid
<1>2. TypeOK
  BY <1>1 DEF Init, TypeOK, Labels, DashboardAssumption
<1>3. TxInv
  BY DEF Init, TxInv
<1>. QED
  BY <1>1, <1>2, <1>3 DEF StoreInv

\* A table of a database may be replaced by another of its kind.
LEMMA TableReplaced ==
    ASSUME NEW t, Solid(t), NEW rows, Bounded(rows)
    PROVE  /\ IsTable(rows, Slugs) =>
                /\ Solid([t EXCEPT !.projects = rows])
                /\ [t EXCEPT !.projects = rows].scans = t.scans
                /\ [t EXCEPT !.projects = rows].findings = t.findings
           /\ IsTable(rows, ScanRow) =>
                /\ Solid([t EXCEPT !.scans = rows])
                /\ [t EXCEPT !.scans = rows].scans = rows
                /\ [t EXCEPT !.scans = rows].findings = t.findings
           /\ IsTable(rows, FindingRow) =>
                /\ Solid([t EXCEPT !.findings = rows])
                /\ [t EXCEPT !.findings = rows].scans = t.scans
                /\ [t EXCEPT !.findings = rows].findings = rows
<1>1. PICK p, s, f : t = [projects |-> p, scans |-> s, findings |-> f]
  BY DEF Solid, IsDatabase
<1>2. /\ [t EXCEPT !.projects = rows] = [projects |-> rows, scans |-> s, findings |-> f]
      /\ [t EXCEPT !.scans = rows] = [projects |-> p, scans |-> rows, findings |-> f]
      /\ [t EXCEPT !.findings = rows] = [projects |-> p, scans |-> s, findings |-> rows]
  BY <1>1
<1>3. /\ IsTable(p, Slugs) /\ IsTable(s, ScanRow) /\ IsTable(f, FindingRow)
      /\ Bounded(p) /\ Bounded(s) /\ Bounded(f)
  BY <1>1 DEF Solid, IsDatabase
<1>. QED
  BY <1>1, <1>2, <1>3 DEF Solid, IsDatabase

LEMMA StoreStep ==
    ASSUME DashboardAssumption, StoreInv, [Next]_vars
    PROVE  StoreInv'
<1>. USE DEF StoreInv
<1>1. ASSUME NEW r \in Requests, Reject(r)
      PROVE  StoreInv'
  <2>1. TypeOK'
    BY <1>1 DEF TypeOK, Reject, Goto, Labels, locals, Answer
  <2>2. Solid(db)' /\ Solid(draft)'
    BY <1>1 DEF Reject
  <2>3. TxInv'
    BY <1>1 DEF TypeOK, TxInv, Draft, Reject, Goto, locals
  <2>. QED
    BY <2>1, <2>2, <2>3
<1>2. ASSUME NEW r \in Requests, FindProject(r)
      PROVE  StoreInv'
  <2>1. TypeOK'
    <3>1. PICK p \in Nat : project' = [project EXCEPT ![r] = p]
      BY <1>2 DEF FindProject, Named, TypeOK, IsDatabase, IsTable, Keys
    <3>. QED
      BY <3>1, <1>2 DEF TypeOK, FindProject, Goto, Labels, locals, Named
  <2>2. Solid(db)' /\ Solid(draft)'
    BY <1>2 DEF FindProject
  <2>3. TxInv'
    BY <1>2 DEF TypeOK, TxInv, Draft, FindProject, Goto, locals
  <2>. QED
    BY <2>1, <2>2, <2>3
<1>3. ASSUME NEW r \in Requests, NameTaken(r)
      PROVE  StoreInv'
  <2>1. TypeOK'
    BY <1>3 DEF TypeOK, NameTaken, Goto, Labels, locals, Named, Answer
  <2>2. Solid(db)' /\ Solid(draft)'
    BY <1>3 DEF NameTaken
  <2>3. TxInv'
    BY <1>3 DEF TypeOK, TxInv, Draft, NameTaken, Goto, locals
  <2>. QED
    BY <2>1, <2>2, <2>3
<1>4. ASSUME NEW r \in Requests, Refresh(r)
      PROVE  StoreInv'
  <2>1. TypeOK'
    BY <1>4 DEF TypeOK, Refresh, Goto, Labels, locals
  <2>2. Solid(db)' /\ Solid(draft)'
    BY <1>4 DEF Refresh
  <2>3. TxInv'
    BY <1>4 DEF TypeOK, TxInv, Draft, Refresh, Goto, locals
  <2>. QED
    BY <2>1, <2>2, <2>3
<1>5. ASSUME NEW r \in Requests, RefreshFails(r)
      PROVE  StoreInv'
  <2>1. TypeOK'
    BY <1>5 DEF TypeOK, RefreshFails, Goto, Labels, locals, Answer
  <2>2. Solid(db)' /\ Solid(draft)'
    BY <1>5 DEF RefreshFails
  <2>3. TxInv'
    BY <1>5 DEF TypeOK, TxInv, Draft, RefreshFails, Goto, locals
  <2>. QED
    BY <2>1, <2>2, <2>3
<1>6. ASSUME NEW r \in Requests, NothingToSweep(r)
      PROVE  StoreInv'
  <2>1. TypeOK'
    BY <1>6 DEF TypeOK, NothingToSweep, Goto, Labels, locals, Answer
  <2>2. Solid(db)' /\ Solid(draft)'
    BY <1>6 DEF NothingToSweep
  <2>3. TxInv'
    BY <1>6 DEF TypeOK, TxInv, Draft, NothingToSweep, Goto, locals
  <2>. QED
    BY <2>1, <2>2, <2>3
<1>7. ASSUME NEW r \in Requests, Count(r)
      PROVE  StoreInv'
  <2>1. TypeOK'
    <3>1. PICK n \in Nat : excess' = [excess EXCEPT ![r] = n]
      <4>1. Cardinality(DOMAIN db.scans) \in Nat /\ Kept \in Nat
        BY FS_CardinalityType DEF TypeOK, IsDatabase, IsTable, Kept, DashboardAssumption
      <4>2. PICK n \in Int : n = TooMany(Cardinality(DOMAIN db.scans))
        BY <4>1 DEF TooMany
      <4>3. n > 0 /\ excess' = [excess EXCEPT ![r] = n]
        BY <1>7, <4>2 DEF Count
      <4>4. n \in Nat
        BY <4>3
      <4>. QED
        BY <4>3, <4>4
    <3>. QED
      BY <3>1, <1>7 DEF TypeOK, Count, Goto, Labels, locals, TooMany, Kept
  <2>2. Solid(db)' /\ Solid(draft)'
    BY <1>7 DEF Count
  <2>3. TxInv'
    BY <1>7 DEF TypeOK, TxInv, Draft, Count, Goto, locals
  <2>. QED
    BY <2>1, <2>2, <2>3
<1>8. ASSUME NEW r \in Requests, SelectStale(r)
      PROVE  StoreInv'
  <2>1. TypeOK'
    <3>1. PICK keys \in SUBSET Keys, owners \in SUBSET Keys :
              stale' = [stale EXCEPT ![r] = keys] /\ suspects' = [suspects EXCEPT ![r] = owners]
      <4>1. PICK keys \in SUBSET DOMAIN db.scans :
                /\ stale' = [stale EXCEPT ![r] = keys]
                /\ suspects' = [suspects EXCEPT ![r] = {db.scans[i].project : i \in keys}]
        BY <1>8 DEF SelectStale, Oldest
      <4>2. keys \subseteq Keys /\ {db.scans[i].project : i \in keys} \subseteq Keys
        BY <4>1 DEF TypeOK, IsDatabase, IsTable, ScanRow
      <4>. QED
        BY <4>1, <4>2
    <3>. QED
      BY <3>1, <1>8 DEF TypeOK, SelectStale, Goto, Labels, locals, Oldest
  <2>2. Solid(db)' /\ Solid(draft)'
    BY <1>8 DEF SelectStale
  <2>3. TxInv'
    BY <1>8 DEF TypeOK, TxInv, Draft, SelectStale, Goto, locals
  <2>. QED
    BY <2>1, <2>2, <2>3
<1>9. ASSUME NEW r \in Requests, SelectFindings(r)
      PROVE  StoreInv'
  <2>1. TypeOK'
    <3>1. {f \in DOMAIN db.findings : db.findings[f].scan \in stale[r]} \subseteq Keys
      BY DEF TypeOK, IsDatabase, IsTable
    <3>. QED
      BY <3>1, <1>9 DEF TypeOK, SelectFindings, Goto, Labels, locals
  <2>2. Solid(db)' /\ Solid(draft)'
    BY <1>9 DEF SelectFindings
  <2>3. TxInv'
    BY <1>9 DEF TypeOK, TxInv, Draft, SelectFindings, Goto, locals
  <2>. QED
    BY <2>1, <2>2, <2>3
<1>10. ASSUME NEW r \in Requests, Respond(r)
      PROVE  StoreInv'
  <2>1. TypeOK'
    BY <1>10 DEF TypeOK, Respond, Goto, Labels, locals, Answer
  <2>2. Solid(db)' /\ Solid(draft)'
    BY <1>10 DEF Respond
  <2>3. TxInv'
    BY <1>10 DEF TypeOK, TxInv, Draft, Respond, Goto, locals
  <2>. QED
    BY <2>1, <2>2, <2>3
<1>11. ASSUME NEW r \in Requests, AddProject(r)
       PROVE  StoreInv'
  <2>. DEFINE p == NextKey(db.projects)
              t == [db EXCEPT !.projects = WithRow(@, p, SlugOf[r])]
  <2>1. p \in Keys /\ SlugOf[r] \in Slugs
    BY NextKeyIsNew DEF Solid, IsDatabase, IsTable, DashboardAssumption
  <2>2. Solid(t) /\ t.scans = db.scans /\ t.findings = db.findings
    <3>1. IsTable(WithRow(db.projects, p, SlugOf[r]), Slugs) /\ Bounded(WithRow(db.projects, p, SlugOf[r]))
      <4>. HIDE DEF p
      <4>. QED  BY <2>1, RowAdded DEF Solid, IsDatabase
    <3>. QED
      BY <3>1, TableReplaced
  <2>3. draft' = t /\ db' = db /\ lock' = r /\ project' = [project EXCEPT ![r] = p]
    BY <1>11 DEF AddProject, Flush
  <2>. HIDE DEF p, t
  <2>4. TypeOK'
    BY <2>1, <2>2, <2>3, <1>11 DEF Solid, TypeOK, AddProject, Goto, Labels, Keys, DashboardAssumption
  <2>5. TxInv'
    BY <2>1, <2>2, <2>3, <1>11 DEF TypeOK, TxInv, Draft, AddProject, Goto, DashboardAssumption
  <2>. QED
    BY <2>2, <2>3, <2>4, <2>5
<1>12. ASSUME NEW r \in Requests, AddScan(r)
       PROVE  StoreInv'
  <2>1. Seen(r) = draft /\ draft.scans = db.scans /\ draft.findings = db.findings
    BY <1>12 DEF AddScan, MayWrite, Seen, TypeOK, TxInv, DashboardAssumption
  <2>2. PICK k \in Keys : k = NextKey(draft.scans)
    BY NextKeyIsNew DEF Solid, IsDatabase, IsTable
  <2>3. project[r] \in Keys
    BY <1>12 DEF AddScan, TxInv, TypeOK, Keys
  <2>4. ScanTime(r) \in Nat
    BY DEF ScanTime, TypeOK, DashboardAssumption
  <2>5. PICK row \in ScanRow : row = [project |-> project[r], time |-> ScanTime(r), by |-> r]
    BY <2>3, <2>4 DEF ScanRow
  <2>7. PICK rows :
            /\ rows = WithRow(draft.scans, k, row)
            /\ IsTable(rows, ScanRow) /\ Bounded(rows)
            /\ DOMAIN rows = DOMAIN draft.scans \cup {k}
            /\ rows[k] = row
            /\ \A j \in DOMAIN draft.scans \ {k} : rows[j] = draft.scans[j]
    <3>1. IsTable(draft.scans, ScanRow) /\ Bounded(draft.scans)
      BY DEF Solid, IsDatabase
    <3>2. IsTable(WithRow(draft.scans, k, row), ScanRow)
      BY <2>2, <2>5, <3>1, RowAdded
    <3>3. Bounded(WithRow(draft.scans, k, row))
      BY <2>2, <2>5, <3>1, RowAdded
    <3>4. DOMAIN WithRow(draft.scans, k, row) = DOMAIN draft.scans \cup {k}
      BY DEF WithRow
    <3>5. WithRow(draft.scans, k, row)[k] = row
      BY DEF WithRow
    <3>6. \A j \in DOMAIN draft.scans \ {k} : WithRow(draft.scans, k, row)[j] = draft.scans[j]
      BY DEF WithRow
    <3>. QED
      BY <3>2, <3>3, <3>4, <3>5, <3>6, Zenon
  <2>. DEFINE t == [draft EXCEPT !.scans = rows]
  <2>6. draft' = t /\ db' = db /\ lock' = r /\ scan' = [scan EXCEPT ![r] = k]
    BY <1>12, <2>1, <2>2, <2>5, <2>7 DEF AddScan, Flush
  <2>8. Solid(t) /\ t.scans = rows /\ t.findings = db.findings
    <3>1. Solid(draft)
      OBVIOUS
    <3>2. Solid([draft EXCEPT !.scans = rows])
      BY <2>7, <3>1, TableReplaced
    <3>3. [draft EXCEPT !.scans = rows].scans = rows
      BY <2>7, <3>1, TableReplaced
    <3>4. [draft EXCEPT !.scans = rows].findings = draft.findings
      BY <2>7, <3>1, TableReplaced
    <3>. QED
      BY <2>1, <3>2, <3>3, <3>4
  <2>. HIDE DEF t
  <2>9. TypeOK'
    BY <2>2, <2>6, <2>8, <1>12 DEF Solid, TypeOK, AddScan, Goto, Labels, Keys, DashboardAssumption
  <2>10. Draft(r)'
    BY <2>1, <2>2, <2>5, <2>6, <2>7, <2>8 DEF Draft, TypeOK
  <2>11. TxInv'
    <3>1. pc' = [pc EXCEPT ![r] = "scanned"] /\ project' = project /\ lock \in {Nobody, r}
      BY <1>12 DEF AddScan, Goto, MayWrite
    <3>2. \A q \in Requests \ {r} : lock # q
      BY <3>1 DEF DashboardAssumption
    <3>. QED
      BY <2>3, <2>6, <2>10, <3>1, <3>2 DEF TxInv, TypeOK
  <2>. QED
    BY <2>6, <2>8, <2>9, <2>11
<1>13. ASSUME NEW r \in Requests, StoreFindings(r)
       PROVE  StoreInv'
  <2>1. scan[r] \in Keys
    BY <1>13 DEF StoreFindings, TxInv, Draft
  <2>. DEFINE t == [draft EXCEPT !.findings = WithFindings(@, r)]
  <2>2. IsTable(WithFindings(draft.findings, r), FindingRow) /\ Bounded(WithFindings(draft.findings, r))
    BY <2>1, FindingsAdded DEF Solid, IsDatabase
  <2>3. Solid(t)
    BY <2>2, TableReplaced
  <2>4. draft' = t /\ db' = t /\ lock' = Nobody
    BY <1>13 DEF StoreFindings, Commit
  <2>. HIDE DEF t
  <2>5. TypeOK'
    <3>1. since' \in [Requests -> SUBSET Requests]
      BY <1>13 DEF StoreFindings, TypeOK
    <3>. QED
      BY <2>3, <2>4, <3>1, <1>13 DEF Solid, TypeOK, StoreFindings, Goto, Labels
  <2>6. TxInv'
    BY <2>4, <1>13 DEF TypeOK, TxInv, StoreFindings, Goto, DashboardAssumption
  <2>. QED
    BY <2>3, <2>4, <2>5, <2>6
<1>14. ASSUME NEW r \in Requests, DropStale(r)
       PROVE  StoreInv'
  <2>. DEFINE t == [db EXCEPT !.scans = Without(@, stale[r]), !.findings = Without(@, doomed[r])]
  <2>1. Solid(t)
    <3>. DEFINE u == [db EXCEPT !.scans = Without(@, stale[r])]
    <3>1. IsTable(Without(db.scans, stale[r]), ScanRow) /\ Bounded(Without(db.scans, stale[r]))
      BY RowsRemoved DEF Solid, IsDatabase
    <3>2. Solid(u) /\ u.findings = db.findings
      BY <3>1, TableReplaced
    <3>3. IsTable(Without(db.findings, doomed[r]), FindingRow) /\ Bounded(Without(db.findings, doomed[r]))
      BY RowsRemoved DEF Solid, IsDatabase
    <3>4. t = [u EXCEPT !.findings = Without(db.findings, doomed[r])]
      BY <3>2 DEF Solid, IsDatabase
    <3>. HIDE DEF t, u
    <3>. QED
      BY <3>2, <3>3, <3>4, TableReplaced
  <2>2. draft' = t /\ db' = t /\ lock' = Nobody
    BY <1>14 DEF DropStale, Commit
  <2>. HIDE DEF t
  <2>3. TypeOK'
    BY <2>1, <2>2, <1>14 DEF Solid, TypeOK, DropStale, Goto, Labels, locals
  <2>4. TxInv'
    BY <2>2, <1>14 DEF TypeOK, TxInv, DropStale, Goto, locals, DashboardAssumption
  <2>. QED
    BY <2>1, <2>2, <2>3, <2>4
<1>15. ASSUME NEW r \in Requests, CheckProject(r)
       PROVE  StoreInv'
  <2>1. PICK p \in suspects[r] :
            /\ suspects' = [suspects EXCEPT ![r] = @ \ {p}]
            /\ emptied' = [emptied EXCEPT ![r] =
                   @ \cup {q \in {p} \cap DOMAIN Seen(r).projects :
                             \A i \in DOMAIN Seen(r).scans : Seen(r).scans[i].project # q}]
    BY <1>15 DEF CheckProject
  <2>2. PICK gone \in SUBSET Keys : emptied' = [emptied EXCEPT ![r] = @ \cup gone]
    <3>1. p \in Keys
      BY DEF TypeOK
    <3>. QED
      BY <2>1, <3>1
  <2>3. pc' = pc /\ db' = db
    BY <1>15 DEF CheckProject, Goto, TypeOK, Flush
  <2>4. CASE emptied[r] = {}
    <3>1. draft' = draft /\ lock' = lock
      BY <1>15, <2>4 DEF CheckProject
    <3>2. TypeOK'
      BY <2>1, <2>2, <2>3, <3>1, <1>15 DEF TypeOK, CheckProject
    <3>3. TxInv'
      BY <2>3, <3>1, <1>15 DEF TypeOK, TxInv, Draft, CheckProject
    <3>. QED
      BY <2>3, <3>1, <3>2, <3>3
  <2>5. CASE emptied[r] # {}
    <3>1. Seen(r) = draft /\ draft.scans = db.scans /\ draft.findings = db.findings
      BY <1>15, <2>5 DEF CheckProject, MayWrite, Seen, TypeOK, TxInv, DashboardAssumption
    <3>2. draft' = WithoutEmptied(r) /\ lock' = r /\ pc[r] = "swept"
      BY <1>15, <2>5 DEF CheckProject, Flush
    <3>3. Solid(draft)' /\ draft'.scans = db.scans /\ draft'.findings = db.findings
      <4>1. PICK rows : /\ rows = Without(draft.projects, emptied[r])
                        /\ IsTable(rows, Slugs) /\ Bounded(rows)
        BY RowsRemoved DEF Solid, IsDatabase
      <4>2. draft' = [draft EXCEPT !.projects = rows]
        BY <3>1, <3>2, <4>1 DEF WithoutEmptied
      <4>3. Solid([draft EXCEPT !.projects = rows])
        BY <4>1, TableReplaced
      <4>4. /\ [draft EXCEPT !.projects = rows].scans = draft.scans
            /\ [draft EXCEPT !.projects = rows].findings = draft.findings
        BY <4>1, TableReplaced
      <4>. QED
        BY <3>1, <4>2, <4>3, <4>4, Zenon
    <3>4. TypeOK'
      BY <2>1, <2>2, <2>3, <3>2, <3>3, <1>15 DEF Solid, TypeOK, CheckProject, DashboardAssumption
    <3>5. TxInv'
      <4>1. lock \in {Nobody, r}
        BY <1>15, <2>5 DEF CheckProject, MayWrite
      <4>. QED
        BY <2>3, <3>2, <3>3, <4>1, <1>15 DEF TypeOK, TxInv, CheckProject, DashboardAssumption
    <3>. QED
      BY <2>3, <3>3, <3>4, <3>5
  <2>. QED
    BY <2>4, <2>5
<1>16. ASSUME NEW r \in Requests, DropProjects(r)
       PROVE  StoreInv'
  <2>1. CASE emptied[r] = {}
    <3>1. draft' = draft /\ lock' = lock /\ db' = db
      BY <1>16, <2>1 DEF DropProjects
    <3>2. lock # r
      BY <1>16, <2>1 DEF DropProjects, TxInv
    <3>3. TypeOK'
      BY <3>1, <1>16 DEF TypeOK, DropProjects, Goto, Labels, locals
    <3>4. TxInv'
      BY <3>1, <3>2, <1>16 DEF TypeOK, TxInv, Draft, DropProjects, Goto, locals
    <3>. QED
      BY <3>1, <3>3, <3>4
  <2>2. CASE emptied[r] # {}
    <3>1. Seen(r) = draft /\ draft.scans = db.scans /\ draft.findings = db.findings
      BY <1>16, <2>2 DEF DropProjects, MayWrite, Seen, TypeOK, TxInv, DashboardAssumption
    <3>2. draft' = WithoutEmptied(r) /\ db' = WithoutEmptied(r) /\ lock' = Nobody
      BY <1>16, <2>2 DEF DropProjects, Commit
    <3>3. Solid(draft)' /\ Solid(db)'
      <4>1. PICK rows : /\ rows = Without(draft.projects, emptied[r])
                        /\ IsTable(rows, Slugs) /\ Bounded(rows)
        BY RowsRemoved DEF Solid, IsDatabase
      <4>2. WithoutEmptied(r) = [draft EXCEPT !.projects = rows]
        BY <3>1, <3>2, <4>1 DEF WithoutEmptied
      <4>3. Solid([draft EXCEPT !.projects = rows])
        BY <4>1, TableReplaced
      <4>4. /\ [draft EXCEPT !.projects = rows].scans = draft.scans
            /\ [draft EXCEPT !.projects = rows].findings = draft.findings
        BY <4>1, TableReplaced
      <4>. QED
        BY <3>2, <4>2, <4>3
    <3>4. TypeOK'
      BY <3>2, <3>3, <1>16 DEF Solid, TypeOK, DropProjects, Goto, Labels, locals
    <3>5. TxInv'
      BY <3>2, <1>16 DEF TypeOK, TxInv, DropProjects, Goto, MayWrite, locals, DashboardAssumption
    <3>. QED
      BY <3>3, <3>4, <3>5
  <2>. QED
    BY <2>1, <2>2
<1>17. ASSUME NEW r \in Requests, Fail(r)
       PROVE  StoreInv'
  <2>1. draft' = (IF lock = r THEN db ELSE draft) /\ db' = db
        /\ lock' = IF lock = r THEN Nobody ELSE lock
    BY <1>17 DEF Fail, Rollback
  <2>2. Solid(draft)' /\ Solid(db)'
    BY <2>1
  <2>3. pc' = [pc EXCEPT ![r] = GivenUp(r)] /\ GivenUp(r) \in {"unswept", "done"}
    BY <1>17 DEF Fail, Goto, GivenUp
  <2>4. TypeOK'
    BY <2>1, <2>3, <1>17 DEF TypeOK, Fail, Answer, Labels, locals, DashboardAssumption
  <2>5. TxInv'
    BY <2>1, <2>3, <1>17 DEF TypeOK, TxInv, Draft, Fail, locals, DashboardAssumption
  <2>. QED
    BY <2>2, <2>4, <2>5
<1>18. ASSUME Kill
       PROVE  StoreInv'
  <2>1. draft' = db /\ db' = db /\ lock' = Nobody
    BY <1>18 DEF Kill
  <2>2. pc' \in [Requests -> {"idle", "unswept", "done"}]
    BY <1>18 DEF Kill, GivenUp
  <2>3. TypeOK'
    BY <2>1, <2>2, <1>18 DEF TypeOK, Kill, Labels, locals, DashboardAssumption
  <2>4. TxInv'
    BY <2>1, <2>2 DEF TxInv, TypeOK, DashboardAssumption
  <2>. QED
    BY <2>1, <2>3, <2>4
<1>19. CASE UNCHANGED vars
  BY <1>19 DEF vars, locals, TypeOK, TxInv, Draft
<1>. QED
  BY <1>1, <1>2, <1>3, <1>4, <1>5, <1>6, <1>7, <1>8, <1>9, <1>10, <1>11, <1>12, <1>13,
     <1>14, <1>15, <1>16, <1>17, <1>18, <1>19 DEF Next, Ingest, Retention


\* Every state is of its type, however the requests interleave and fail.
THEOREM TypeCorrect == Spec => []TypeOK
<1>1. Init => StoreInv
  BY StoreInit, DashboardAssumption
<1>2. StoreInv /\ [Next]_vars => StoreInv'
  BY StoreStep, DashboardAssumption
<1>3. StoreInv => TypeOK
  BY DEF StoreInv
<1>. QED
  BY <1>1, <1>2, <1>3, PTL DEF Spec

-----------------------------------------------------------------------------

Early == {"idle", "found", "named", "scanned"}

\* A request that has not committed has no rows.
Fresh == \A r \in Requests : pc[r] \in Early => Visible(r) = {} /\ FindingsOf(r) = {}

AtomicInv == StoreInv /\ Fresh

\* The scans and findings of the second database are rows of the first.
Fewer(s, t) ==
    /\ \A i \in DOMAIN t.scans : i \in DOMAIN s.scans /\ t.scans[i] = s.scans[i]
    /\ \A i \in DOMAIN t.findings : i \in DOMAIN s.findings /\ t.findings[i] = s.findings[i]

\* Rows are added by the commit of a report only.
LEMMA OnlyStoreFindingsAdds ==
    ASSUME DashboardAssumption, StoreInv, [Next]_vars
    PROVE  \/ \E r \in Requests : StoreFindings(r)
           \/ /\ Fewer(db, db')
              /\ \A r \in Requests : pc'[r] \in Early => pc[r] \in Early
<1>. USE DEF StoreInv
<1>. DEFINE Quiet == Fewer(db, db') /\ \A r \in Requests : pc'[r] \in Early => pc[r] \in Early
<1>1. ASSUME db' = db PROVE Fewer(db, db')
  BY <1>1 DEF Fewer
<1>2. ASSUME NEW r \in Requests, NEW label, pc' = [pc EXCEPT ![r] = label],
             label \in Early => pc[r] \in Early
      PROVE  \A q \in Requests : pc'[q] \in Early => pc[q] \in Early
  BY <1>2 DEF TypeOK
<1>3. ASSUME NEW r \in Requests, Reject(r) \/ FindProject(r) \/ AddProject(r) \/ NameTaken(r) \/ AddScan(r)
      PROVE  Quiet
  <2>1. pc[r] \in Early /\ db' = db
    BY <1>3 DEF Reject, FindProject, AddProject, NameTaken, AddScan, Flush, Early
  <2>2. \E label : pc' = [pc EXCEPT ![r] = label]
    BY <1>3 DEF Reject, FindProject, AddProject, NameTaken, AddScan, Goto
  <2>. QED
    BY <1>1, <1>2, <2>1, <2>2
<1>4. ASSUME NEW r \in Requests,
             \/ Refresh(r) \/ RefreshFails(r) \/ NothingToSweep(r) \/ Count(r) \/ SelectStale(r)
             \/ SelectFindings(r) \/ Respond(r) \/ Fail(r)
      PROVE  Quiet
  <2>1. db' = db
    BY <1>4 DEF Refresh, RefreshFails, NothingToSweep, Count, SelectStale, SelectFindings,
                Respond, Fail, Rollback
  <2>2. \E label \in Labels \ Early : pc' = [pc EXCEPT ![r] = label]
    BY <1>4 DEF Refresh, RefreshFails, NothingToSweep, Count, SelectStale, SelectFindings,
                Respond, Fail, Goto, GivenUp, Early, Labels
  <2>. QED
    BY <1>1, <1>2, <2>1, <2>2
<1>5. ASSUME NEW r \in Requests, DropStale(r)
      PROVE  Quiet
  <2>1. pc' = [pc EXCEPT ![r] = "swept"]
    BY <1>5 DEF DropStale, Goto
  <2>2. db'.scans = Without(db.scans, stale[r]) /\ db'.findings = Without(db.findings, doomed[r])
    BY <1>5 DEF DropStale, Commit, Solid, IsDatabase
  <2>3. Fewer(db, db')
    BY <2>2 DEF Fewer, Without, Restrict
  <2>. QED
    BY <1>2, <2>1, <2>3 DEF Early
<1>6. ASSUME NEW r \in Requests, CheckProject(r)
      PROVE  Quiet
  <2>1. db' = db /\ pc' = [pc EXCEPT ![r] = "swept"]
    BY <1>6 DEF CheckProject, Goto, Flush
  <2>. QED
    BY <1>1, <1>2, <2>1 DEF Early
<1>7. ASSUME NEW r \in Requests, DropProjects(r)
      PROVE  Quiet
  <2>1. pc' = [pc EXCEPT ![r] = "expired"]
    BY <1>7 DEF DropProjects, Goto
  <2>2. CASE emptied[r] = {}
    BY <1>1, <1>2, <1>7, <2>1, <2>2 DEF DropProjects, Early
  <2>3. CASE emptied[r] # {}
    <3>1. Seen(r) = draft /\ draft.scans = db.scans /\ draft.findings = db.findings
      BY <1>7, <2>3 DEF DropProjects, MayWrite, Seen, TypeOK, TxInv, DashboardAssumption
    <3>2. db' = [draft EXCEPT !.projects = Without(draft.projects, emptied[r])]
      BY <1>7, <2>3, <3>1 DEF DropProjects, Commit, WithoutEmptied
    <3>3. db'.scans = db.scans /\ db'.findings = db.findings
      BY <3>1, <3>2 DEF Solid, IsDatabase
    <3>4. Fewer(db, db')
      BY <3>3 DEF Fewer
    <3>. QED
      BY <1>2, <2>1, <3>4 DEF Early
  <2>. QED
    BY <2>2, <2>3
<1>8. ASSUME Kill
      PROVE  Quiet
  <2>1. db' = db
    BY <1>8 DEF Kill
  <2>2. \A r \in Requests : pc'[r] \in Early => pc[r] \in Early
    BY <1>8 DEF Kill, GivenUp, Early
  <2>. QED
    BY <1>1, <2>1, <2>2
<1>9. CASE UNCHANGED vars
  BY <1>1, <1>9 DEF vars
<1>. HIDE DEF Quiet
<1>. QED
  BY <1>3, <1>4, <1>5, <1>6, <1>7, <1>8, <1>9 DEF Next, Ingest, Retention, Quiet

\* What the commit of a report makes visible.
LEMMA ReportCommitted ==
    ASSUME DashboardAssumption, AtomicInv, NEW r \in Requests, StoreFindings(r)
    PROVE  /\ Visible(r)' = {scan[r]}
           /\ IsFiniteSet(FindingsOf(r)') /\ Cardinality(FindingsOf(r)') = Size[r]
           /\ \A q \in Requests \ {r} : /\ Visible(q)' \subseteq Visible(q)
                                        /\ FindingsOf(q)' \subseteq FindingsOf(q)
<1>. USE DEF AtomicInv, StoreInv
<1>1. Draft(r) /\ Visible(r) = {} /\ FindingsOf(r) = {}
  BY DEF StoreFindings, TxInv, Fresh, Early
<1>2. PICK new \in SUBSET Keys :
          /\ IsFiniteSet(new) /\ Cardinality(new) = Size[r]
          /\ DOMAIN WithFindings(db.findings, r) = DOMAIN db.findings \cup new
          /\ \A f \in new : WithFindings(db.findings, r)[f].by = r
          /\ \A f \in DOMAIN db.findings \ new : WithFindings(db.findings, r)[f] = db.findings[f]
  <2>1. IsTable(db.findings, FindingRow) /\ Bounded(db.findings) /\ scan[r] \in Keys
    BY <1>1 DEF Solid, IsDatabase, Draft
  <2>2. AddsFindings(db.findings, WithFindings(db.findings, r), r)
    BY <2>1, FindingsAdded
  <2>. QED
    BY <2>2, Zenon DEF AddsFindings
<1>3. db'.scans = draft.scans /\ db'.findings = WithFindings(db.findings, r)
  BY <1>1 DEF StoreFindings, Commit, Solid, IsDatabase, Draft
<1>4. Visible(r)' = {scan[r]}
  BY <1>1, <1>3 DEF Visible, Draft
<1>5. FindingsOf(r)' = new
  BY <1>1, <1>2, <1>3 DEF FindingsOf
<1>6. ASSUME NEW q \in Requests \ {r}
      PROVE  Visible(q)' \subseteq Visible(q)
  BY <1>1, <1>3 DEF Visible, Draft
<1>7. ASSUME NEW q \in Requests \ {r}
      PROVE  FindingsOf(q)' \subseteq FindingsOf(q)
  BY <1>2, <1>3 DEF FindingsOf
<1>. QED
  BY <1>2, <1>4, <1>5, <1>6, <1>7

LEMMA FewerVisible ==
    ASSUME Fewer(db, db'), NEW r \in Requests
    PROVE  Visible(r)' \subseteq Visible(r) /\ FindingsOf(r)' \subseteq FindingsOf(r)
  BY DEF Fewer, Visible, FindingsOf

LEMMA AtomicStep ==
    ASSUME DashboardAssumption, AtomicInv, [Next]_vars
    PROVE  AtomicInv'
<1>1. StoreInv'
  BY StoreStep DEF AtomicInv
<1>2. Fresh'
  <2>1. ASSUME NEW r \in Requests, StoreFindings(r)
        PROVE  Fresh'
    <3>1. pc' = [pc EXCEPT ![r] = "stored"]
      BY <2>1 DEF StoreFindings, Goto
    <3>2. SUFFICES ASSUME NEW q \in Requests, pc'[q] \in Early
                   PROVE  Visible(q)' = {} /\ FindingsOf(q)' = {}
      BY DEF Fresh
    <3>3. q # r /\ pc[q] \in Early
      BY <3>1, <3>2 DEF AtomicInv, StoreInv, TypeOK, Early
    <3>. QED
      BY <2>1, <3>3, ReportCommitted DEF AtomicInv, Fresh
  <2>2. CASE /\ Fewer(db, db')
             /\ \A r \in Requests : pc'[r] \in Early => pc[r] \in Early
    BY <2>2, FewerVisible DEF AtomicInv, Fresh
  <2>. QED
    BY <2>1, <2>2, OnlyStoreFindingsAdds DEF AtomicInv
<1>. QED
  BY <1>1, <1>2 DEF AtomicInv

\* A report becomes visible with its one scan and all its findings, whatever
\* other requests do and whenever a statement fails or the server is killed.
THEOREM ReportsWhole == Spec => IngestAtomic
<1>. DEFINE Whole == \A r \in Requests :
                /\ ~(Visible(r)' \subseteq Visible(r)) => Cardinality(FindingsOf(r)') = Size[r]
                /\ ~(FindingsOf(r)' \subseteq FindingsOf(r)) => Cardinality(Visible(r)') = 1
<1>1. Init => AtomicInv
  <2>1. Init => Fresh
    BY DEF Init, Empty, Fresh, Visible, FindingsOf
  <2>. QED
    BY <2>1, StoreInit, DashboardAssumption DEF AtomicInv
<1>2. AtomicInv /\ [Next]_vars => AtomicInv'
  BY AtomicStep, DashboardAssumption
<1>3. AtomicInv /\ [Next]_vars => [Whole]_vars
  <2>. SUFFICES ASSUME AtomicInv, [Next]_vars PROVE Whole
    OBVIOUS
  <2>1. ASSUME NEW r \in Requests, StoreFindings(r)
        PROVE  Whole
    <3>1. Cardinality(Visible(r)') = 1
      BY <2>1, ReportCommitted, FS_Singleton, DashboardAssumption
    <3>. QED
      BY <2>1, <3>1, ReportCommitted, DashboardAssumption
  <2>2. CASE Fewer(db, db')
    BY <2>2, FewerVisible
  <2>. HIDE DEF Whole
  <2>. QED
    BY <2>1, <2>2, OnlyStoreFindingsAdds, DashboardAssumption DEF AtomicInv
<1>. QED
  BY <1>1, <1>2, <1>3, PTL DEF Spec, IngestAtomic, Whole

-----------------------------------------------------------------------------

\* The requests that committed after this one counted and may still delete.
Later(r) == since[r] \cap Unsettled

\* How many scans remain when the request has deleted those that it counted or
\* selected: those that are kept and those of the later requests.
CountedRest ==
    \A r \in Requests : pc[r] = "counted" =>
        Cardinality(DOMAIN db.scans) <= excess[r] + Kept + Cardinality(Later(r))
SelectedRest ==
    \A r \in Requests : pc[r] \in {"stale", "doomed"} =>
        Cardinality(DOMAIN db.scans \ stale[r]) <= Kept + Cardinality(Later(r))

\* Who committed after a later request counted, did so after this one counted.
SinceNested ==
    \A r \in Requests : \A q \in since[r] :
        r \in Sweeping /\ q \in Sweeping => since[q] \subseteq since[r]
SinceCommitted == \A r \in Requests : \A q \in since[r] : q # r /\ pc[q] \notin Early

SweepInv ==
    /\ StoreInv
    /\ HistoryBounded /\ CountedRest /\ SelectedRest
    /\ SinceNested /\ SinceCommitted

LEMMA FewerElements ==
    ASSUME NEW S, IsFiniteSet(S), NEW T, T \subseteq S
    PROVE  /\ IsFiniteSet(T)
           /\ Cardinality(T) \in Nat /\ Cardinality(S) \in Nat
           /\ Cardinality(T) <= Cardinality(S)
  BY FS_Subset, FS_CardinalityType

LEMMA OneMore ==
    ASSUME NEW S, IsFiniteSet(S), NEW T, NEW x, T \subseteq S \cup {x}
    PROVE  Cardinality(T) <= Cardinality(S) + 1
<1>1. IsFiniteSet(S \cup {x}) /\ Cardinality(S \cup {x}) <= Cardinality(S) + 1
  <2>1. Cardinality(S) \in Nat
    BY FS_CardinalityType
  <2>2. Cardinality(S \cup {x}) = IF x \in S THEN Cardinality(S) ELSE Cardinality(S) + 1
    BY FS_AddElement
  <2>. QED
    BY <2>1, <2>2, FS_AddElement
<1>2. Cardinality(T) <= Cardinality(S \cup {x})
  BY <1>1, FS_Subset
<1>3. Cardinality(T) \in Nat /\ Cardinality(S) \in Nat /\ Cardinality(S \cup {x}) \in Nat
  BY <1>1, FS_Subset, FS_CardinalityType
<1>. QED
  BY <1>1, <1>2, <1>3

LEMMA OneLess ==
    ASSUME NEW S, IsFiniteSet(S), NEW T, NEW x \in S, T \subseteq S \ {x}
    PROVE  Cardinality(T) + 1 <= Cardinality(S)
<1>1. IsFiniteSet(S \ {x}) /\ Cardinality(S \ {x}) = Cardinality(S) - 1
  BY FS_RemoveElement
<1>2. Cardinality(T) <= Cardinality(S \ {x})
  BY <1>1, FS_Subset
<1>3. Cardinality(T) \in Nat /\ Cardinality(S) \in Nat
  BY <1>1, FS_Subset, FS_CardinalityType
<1>. QED
  BY <1>1, <1>2, <1>3

\* The oldest scans are as many as were asked for, or all.
LEMMA SelectedLeaves ==
    ASSUME NEW rows, IsFiniteSet(DOMAIN rows), NEW n \in Nat, NEW keys \in Oldest(rows, n)
    PROVE  \/ DOMAIN rows \ keys = {}
           \/ Cardinality(DOMAIN rows \ keys) = Cardinality(DOMAIN rows) - n
<1>1. keys \subseteq DOMAIN rows /\ (keys # DOMAIN rows => Cardinality(keys) = n)
  BY DEF Oldest
<1>2. DOMAIN rows = (DOMAIN rows \ keys) \cup keys /\ (DOMAIN rows \ keys) \cap keys = {}
  BY <1>1
<1>3. IsFiniteSet(keys) /\ IsFiniteSet(DOMAIN rows \ keys)
  BY <1>1, FewerElements
<1>4. Cardinality(DOMAIN rows) = Cardinality(DOMAIN rows \ keys) + Cardinality(keys) - 0
  BY <1>2, <1>3, FS_Union, FS_EmptySet
<1>5. Cardinality(DOMAIN rows \ keys) \in Nat
  BY <1>3, FS_CardinalityType
<1>. QED
  BY <1>1, <1>4, <1>5

LEMMA SweepTypes ==
    ASSUME DashboardAssumption, StoreInv
    PROVE  /\ IsFiniteSet(DOMAIN db.scans) /\ IsFiniteSet(Unsettled)
           /\ \A r \in Requests : IsFiniteSet(Later(r))
           /\ Kept \in Nat
<1>1. IsFiniteSet(DOMAIN db.scans)
  BY DEF StoreInv, TypeOK, IsDatabase, IsTable
<1>2. IsFiniteSet(Unsettled)
  BY FewerElements DEF Unsettled, DashboardAssumption
<1>3. \A r \in Requests : IsFiniteSet(Later(r))
  BY <1>2, FewerElements DEF Later
<1>. QED
  BY <1>1, <1>2, <1>3 DEF Kept, DashboardAssumption

\* A step that touches neither the scans nor the requests that sweep.
Calm ==
    /\ db'.scans = db.scans /\ since' = since /\ excess' = excess /\ stale' = stale
    /\ \A r \in Requests :
         /\ pc'[r] = "counted" => pc[r] = "counted"
         /\ pc'[r] \in {"stale", "doomed"} => pc[r] \in {"stale", "doomed"}
         /\ pc'[r] \in Early => pc[r] \in Early
    /\ Unsettled' = Unsettled

LEMMA CalmStep ==
    ASSUME SweepInv, StoreInv', Calm
    PROVE  SweepInv'
<1>1. \A r \in Requests : Later(r)' = Later(r)
  BY DEF Calm, Later
<1>2. HistoryBounded'
  BY DEF SweepInv, HistoryBounded, Calm, Kept
<1>3. CountedRest'
  BY <1>1 DEF SweepInv, CountedRest, Calm, Kept
<1>4. SelectedRest'
  BY <1>1 DEF SweepInv, SelectedRest, Calm, Kept
<1>5. SinceNested'
  BY DEF SweepInv, SinceNested, Calm, Sweeping
<1>6. SinceCommitted'
  BY DEF SweepInv, SinceCommitted, Calm, StoreInv, TypeOK
<1>. QED
  BY <1>2, <1>3, <1>4, <1>5, <1>6 DEF SweepInv

Pending == {"stored", "refreshed", "counted", "stale", "doomed", "unswept"}

\* A request moves on and leaves the scans, and what it is about to do to them,
\* alone.
CalmMove(r, label) ==
    /\ pc' = [pc EXCEPT ![r] = label]
    /\ label \in {"counted", "stale", "doomed"} => label = "doomed" /\ pc[r] = "stale"
    /\ label \in Early => pc[r] \in Early
    /\ label \in Pending <=> pc[r] \in Pending
    /\ db'.scans = db.scans /\ since' = since /\ excess' = excess /\ stale' = stale

\* The database's scans are as they were unless a report is committed or old
\* scans are deleted.
LEMMA CalmSteps ==
    ASSUME DashboardAssumption, StoreInv, [Next]_vars
    PROVE  \/ Calm
           \/ \E r \in Requests : \/ NothingToSweep(r) \/ Count(r) \/ SelectStale(r)
                                  \/ StoreFindings(r) \/ DropStale(r)
<1>. USE DEF StoreInv
<1>1. ASSUME NEW r \in Requests, NEW label, CalmMove(r, label)
      PROVE  Calm
  <2>1. pc[r] \in Labels /\ DOMAIN pc = Requests
    BY DEF TypeOK
  <2>2. \A q \in Requests : pc'[q] = IF q = r THEN label ELSE pc[q]
    BY <1>1, <2>1 DEF CalmMove
  <2>3. Unsettled' = Unsettled
    BY <1>1, <2>2 DEF CalmMove, Unsettled, Pending
  <2>. QED
    BY <1>1, <2>2, <2>3 DEF Calm, CalmMove, Early
<1>2. ASSUME NEW r \in Requests, Reject(r)
      PROVE  CalmMove(r, "done")
  BY <1>2 DEF Reject, Goto, locals, Early, Pending, CalmMove
<1>3. ASSUME NEW r \in Requests, FindProject(r)
      PROVE  CalmMove(r, "found")
  BY <1>3 DEF FindProject, Goto, Early, Pending, CalmMove
<1>4. ASSUME NEW r \in Requests, AddProject(r)
      PROVE  CalmMove(r, "named")
  <2>1. db' = db
    BY <1>4 DEF AddProject, Flush
  <2>. QED
    BY <1>4, <2>1 DEF AddProject, Goto, Early, Pending, CalmMove
<1>5. ASSUME NEW r \in Requests, NameTaken(r)
      PROVE  CalmMove(r, "done")
  BY <1>5 DEF NameTaken, Goto, locals, Early, Pending, CalmMove
<1>6. ASSUME NEW r \in Requests, AddScan(r)
      PROVE  CalmMove(r, "scanned")
  <2>1. db' = db /\ pc[r] \in {"named", "found"}
    BY <1>6 DEF AddScan, Flush
  <2>. QED
    BY <1>6, <2>1 DEF AddScan, Goto, Early, Pending, CalmMove
<1>7. ASSUME NEW r \in Requests, Refresh(r)
      PROVE  CalmMove(r, "refreshed")
  BY <1>7 DEF Refresh, Goto, locals, Early, Pending, CalmMove
<1>8. ASSUME NEW r \in Requests, RefreshFails(r)
      PROVE  CalmMove(r, "unswept")
  BY <1>8 DEF RefreshFails, Goto, locals, Early, Pending, CalmMove
<1>9. ASSUME NEW r \in Requests, SelectFindings(r)
      PROVE  CalmMove(r, "doomed")
  BY <1>9 DEF SelectFindings, Goto, Early, Pending, CalmMove
<1>10. ASSUME NEW r \in Requests, CheckProject(r)
       PROVE  CalmMove(r, "swept")
  <2>1. db' = db
    BY <1>10 DEF CheckProject, Flush
  <2>. QED
    BY <1>10, <2>1 DEF CheckProject, Goto, Early, Pending, CalmMove
<1>11. ASSUME NEW r \in Requests, DropProjects(r)
       PROVE  CalmMove(r, "expired")
  <2>1. db'.scans = db.scans
    <3>1. CASE emptied[r] = {}
      BY <1>11, <3>1 DEF DropProjects
    <3>2. CASE emptied[r] # {}
      <4>1. Seen(r) = draft /\ draft.scans = db.scans
        BY <1>11, <3>2 DEF DropProjects, MayWrite, Seen, TypeOK, TxInv, DashboardAssumption
      <4>2. db' = [draft EXCEPT !.projects = Without(draft.projects, emptied[r])]
        BY <1>11, <3>2, <4>1 DEF DropProjects, Commit, WithoutEmptied
      <4>. QED
        BY <4>1, <4>2 DEF Solid, IsDatabase
    <3>. QED
      BY <3>1, <3>2
  <2>. QED
    BY <1>11, <2>1 DEF DropProjects, Goto, locals, Early, Pending, CalmMove
<1>12. ASSUME NEW r \in Requests, Respond(r)
       PROVE  CalmMove(r, "done")
  BY <1>12 DEF Respond, Goto, locals, Early, Pending, CalmMove
<1>13. ASSUME NEW r \in Requests, Fail(r)
       PROVE  CalmMove(r, GivenUp(r))
  <2>1. db' = db
    BY <1>13 DEF Fail, Rollback
  <2>. QED
    BY <1>13, <2>1 DEF Fail, Goto, GivenUp, Stopped, locals, Early, Pending, CalmMove
<1>14. ASSUME Kill
       PROVE  Calm
  <2>1. db' = db /\ since' = since /\ excess' = excess /\ stale' = stale
    BY <1>14 DEF Kill, locals
  <2>2. \A r \in Requests : pc'[r] = IF pc[r] \in {"idle", "unswept"} THEN pc[r] ELSE GivenUp(r)
    BY <1>14 DEF Kill
  <2>3. Unsettled' = Unsettled
    BY <2>2 DEF Unsettled, GivenUp
  <2>. QED
    BY <2>1, <2>2, <2>3 DEF Calm, GivenUp, Early
<1>15. CASE UNCHANGED vars
  BY <1>15 DEF vars, locals, Calm, Unsettled
<1>. QED
  BY <1>1, <1>2, <1>3, <1>4, <1>5, <1>6, <1>7, <1>8, <1>9, <1>10, <1>11, <1>12, <1>13, <1>14, <1>15
     DEF Next, Ingest, Retention

LEMMA NothingToSweepStep ==
    ASSUME DashboardAssumption, SweepInv, StoreInv', NEW r \in Requests, NothingToSweep(r)
    PROVE  SweepInv'
<1>. USE DEF SweepInv
<1>1. /\ db' = db /\ since' = since /\ excess' = excess /\ stale' = stale
      /\ pc' = [pc EXCEPT ![r] = "done"] /\ pc[r] = "refreshed"
  BY DEF NothingToSweep, Goto, locals
<1>2. /\ IsFiniteSet(DOMAIN db.scans) /\ IsFiniteSet(Unsettled') /\ Kept \in Nat
      /\ \A q \in Requests : IsFiniteSet(Later(q)')
  <2>1. IsFiniteSet(Unsettled')
    BY FewerElements DEF Unsettled, DashboardAssumption
  <2>. QED
    BY <2>1, SweepTypes, FewerElements DEF Later
<1>3. Cardinality(DOMAIN db.scans) <= Kept
  <2>1. Cardinality(DOMAIN db.scans) \in Nat
    BY <1>2, FS_CardinalityType
  <2>. QED
    BY <1>2, <2>1 DEF NothingToSweep, TooMany
<1>4. \A q \in Requests : pc'[q] = IF q = r THEN "done" ELSE pc[q]
  BY <1>1 DEF StoreInv, TypeOK
<1>5. HistoryBounded'
  <2>1. Cardinality(Unsettled') \in Nat /\ Cardinality(DOMAIN db.scans) \in Nat
    BY <1>2, FS_CardinalityType
  <2>. QED
    BY <1>1, <1>2, <1>3, <2>1 DEF HistoryBounded, Kept
<1>6. ASSUME NEW q \in Requests, pc'[q] = "counted"
      PROVE  Cardinality(DOMAIN db.scans) <= excess[q] + Kept + Cardinality(Later(q)')
  <2>1. Cardinality(Later(q)') \in Nat /\ Cardinality(DOMAIN db.scans) \in Nat /\ excess[q] \in Nat
    BY <1>2, FS_CardinalityType DEF StoreInv, TypeOK
  <2>. QED
    BY <1>2, <1>3, <2>1
<1>7. ASSUME NEW q \in Requests, pc'[q] \in {"stale", "doomed"}
      PROVE  Cardinality(DOMAIN db.scans \ stale[q]) <= Kept + Cardinality(Later(q)')
  <2>1. Cardinality(Later(q)') \in Nat
    BY <1>2, FS_CardinalityType
  <2>2. PICK rest : rest = DOMAIN db.scans \ stale[q]
    OBVIOUS
  <2>3. /\ Cardinality(rest) \in Nat /\ Cardinality(DOMAIN db.scans) \in Nat
        /\ Cardinality(rest) <= Cardinality(DOMAIN db.scans)
    BY <1>2, <2>2, FewerElements
  <2>. QED
    BY <1>2, <1>3, <2>1, <2>2, <2>3
<1>8. SinceNested' /\ SinceCommitted'
  BY <1>1, <1>4 DEF SinceNested, SinceCommitted, Sweeping, Early, StoreInv, TypeOK
<1>. QED
  BY <1>1, <1>5, <1>6, <1>7, <1>8 DEF CountedRest, SelectedRest, Kept

LEMMA CountStep ==
    ASSUME DashboardAssumption, SweepInv, StoreInv', NEW r \in Requests, Count(r)
    PROVE  SweepInv'
<1>. USE DEF SweepInv
<1>1. /\ db' = db /\ stale' = stale
      /\ excess' = [excess EXCEPT ![r] = TooMany(Cardinality(DOMAIN db.scans))]
      /\ since' = [since EXCEPT ![r] = {}]
      /\ pc' = [pc EXCEPT ![r] = "counted"] /\ pc[r] = "refreshed"
  BY DEF Count, Goto
<1>2. \A q \in Requests : /\ pc'[q] = IF q = r THEN "counted" ELSE pc[q]
                          /\ q # r => since'[q] = since[q] /\ excess'[q] = excess[q]
  BY <1>1 DEF StoreInv, TypeOK
<1>3. Unsettled' = Unsettled
  BY <1>1, <1>2 DEF Unsettled
<1>4. \A q \in Requests \ {r} : Later(q)' = Later(q)
  BY <1>2, <1>3 DEF Later
<1>5. HistoryBounded'
  BY <1>1, <1>3 DEF HistoryBounded, Kept
<1>6. CountedRest'
  <2>1. Cardinality(DOMAIN db.scans) <= excess'[r] + Kept + Cardinality(Later(r)')
    <3>1. Cardinality(DOMAIN db.scans) \in Nat /\ Kept \in Nat
      BY SweepTypes, FS_CardinalityType
    <3>2. Later(r)' = {}
      BY <1>1 DEF Later, StoreInv, TypeOK
    <3>3. excess'[r] = Cardinality(DOMAIN db.scans) - Kept
      BY <1>1 DEF TooMany, StoreInv, TypeOK
    <3>. QED
      BY <3>1, <3>2, <3>3, FS_EmptySet
  <2>. QED
    BY <1>1, <1>2, <1>4, <2>1 DEF CountedRest, Kept
<1>7. SelectedRest'
  BY <1>1, <1>2, <1>4 DEF SelectedRest, Kept
<1>8. SinceNested'
  BY <1>1, <1>2 DEF SinceNested, SinceCommitted, Sweeping, Early, StoreInv, TypeOK
<1>9. SinceCommitted'
  BY <1>1, <1>2 DEF SinceCommitted, Early, StoreInv, TypeOK
<1>. QED
  BY <1>5, <1>6, <1>7, <1>8, <1>9

LEMMA SelectStaleStep ==
    ASSUME DashboardAssumption, SweepInv, StoreInv', NEW r \in Requests, SelectStale(r)
    PROVE  SweepInv'
<1>. USE DEF SweepInv
<1>1. PICK keys \in Oldest(db.scans, excess[r]) :
          /\ db' = db /\ since' = since /\ excess' = excess
          /\ stale' = [stale EXCEPT ![r] = keys]
          /\ pc' = [pc EXCEPT ![r] = "stale"] /\ pc[r] = "counted"
  BY DEF SelectStale, Goto
<1>2. \A q \in Requests : /\ pc'[q] = IF q = r THEN "stale" ELSE pc[q]
                          /\ q # r => stale'[q] = stale[q]
  BY <1>1 DEF StoreInv, TypeOK
<1>3. Unsettled' = Unsettled
  BY <1>1, <1>2 DEF Unsettled
<1>4. \A q \in Requests : Later(q)' = Later(q)
  BY <1>1, <1>3 DEF Later
<1>5. HistoryBounded'
  BY <1>1, <1>3 DEF HistoryBounded, Kept
<1>6. CountedRest'
  BY <1>1, <1>2, <1>4 DEF CountedRest, Kept
<1>7. SelectedRest'
  <2>1. Cardinality(DOMAIN db.scans \ keys) <= Kept + Cardinality(Later(r))
    <3>1. /\ Cardinality(DOMAIN db.scans) \in Nat /\ Cardinality(Later(r)) \in Nat
          /\ Kept \in Nat /\ excess[r] \in Nat /\ IsFiniteSet(DOMAIN db.scans)
      BY SweepTypes, FS_CardinalityType DEF StoreInv, TypeOK
    <3>2. Cardinality(DOMAIN db.scans) <= excess[r] + Kept + Cardinality(Later(r))
      BY <1>1 DEF CountedRest
    <3>3. \/ DOMAIN db.scans \ keys = {}
          \/ Cardinality(DOMAIN db.scans \ keys) = Cardinality(DOMAIN db.scans) - excess[r]
      BY <1>1, <3>1, SelectedLeaves
    <3>. QED
      BY <3>1, <3>2, <3>3, FS_EmptySet
  <2>2. stale'[r] = keys
    BY <1>1 DEF StoreInv, TypeOK
  <2>. QED
    BY <1>1, <1>2, <1>4, <2>1, <2>2 DEF SelectedRest, Kept
<1>8. SinceNested'
  BY <1>1, <1>2 DEF SinceNested, Sweeping
<1>9. SinceCommitted'
  BY <1>1, <1>2 DEF SinceCommitted, Early, StoreInv, TypeOK
<1>. QED
  BY <1>5, <1>6, <1>7, <1>8, <1>9

LEMMA StoreFindingsStep ==
    ASSUME DashboardAssumption, SweepInv, StoreInv', NEW r \in Requests, StoreFindings(r)
    PROVE  SweepInv'
<1>. USE DEF SweepInv
<1>1. /\ stale' = stale /\ excess' = excess
      /\ since' = [q \in Requests |-> IF q \in Sweeping THEN since[q] \cup {r} ELSE since[q]]
      /\ pc' = [pc EXCEPT ![r] = "stored"] /\ pc[r] = "scanned"
  BY DEF StoreFindings, Goto
<1>2. DOMAIN db'.scans = DOMAIN db.scans \cup {scan[r]}
  BY <1>1 DEF StoreFindings, Commit, StoreInv, TxInv, Draft, Solid, IsDatabase
<1>3. \A q \in Requests : pc'[q] = IF q = r THEN "stored" ELSE pc[q]
  BY <1>1 DEF StoreInv, TypeOK
<1>4. Unsettled' = Unsettled \cup {r} /\ r \notin Unsettled
  BY <1>1, <1>3 DEF Unsettled
<1>5. Sweeping' = Sweeping /\ r \notin Sweeping
  BY <1>1, <1>3 DEF Sweeping
<1>6. \A q \in Requests : r \notin since[q]
  BY <1>1 DEF SinceCommitted, Early
<1>7. /\ IsFiniteSet(DOMAIN db.scans) /\ Kept \in Nat
      /\ IsFiniteSet(Unsettled) /\ IsFiniteSet(Unsettled')
      /\ \A q \in Requests : IsFiniteSet(Later(q)) /\ IsFiniteSet(Later(q)')
  <2>1. IsFiniteSet(Unsettled')
    BY FewerElements DEF Unsettled, DashboardAssumption
  <2>. QED
    BY <2>1, SweepTypes, FewerElements DEF Later
<1>8. \A q \in Requests : q \in Sweeping => Later(q)' = Later(q) \cup {r} /\ r \notin Later(q)
  BY <1>1, <1>4, <1>6 DEF Later
<1>9. \A q \in Requests : q \in Sweeping =>
          Cardinality(Later(q)') = Cardinality(Later(q)) + 1 /\ Cardinality(Later(q)) \in Nat
  BY <1>7, <1>8, FS_AddElement, FS_CardinalityType
<1>10. HistoryBounded'
  <2>1. Cardinality(Unsettled') = Cardinality(Unsettled) + 1 /\ Cardinality(Unsettled) \in Nat
    BY <1>4, <1>7, FS_AddElement, FS_CardinalityType
  <2>2. PICK now : now = DOMAIN db'.scans
    OBVIOUS
  <2>3. Cardinality(now) <= Cardinality(DOMAIN db.scans) + 1
    BY <1>2, <1>7, <2>2, OneMore
  <2>4. Cardinality(now) \in Nat /\ Cardinality(DOMAIN db.scans) \in Nat
    BY <1>2, <1>7, <2>2, FS_AddElement, FS_CardinalityType
  <2>. QED
    BY <1>7, <2>1, <2>2, <2>3, <2>4 DEF HistoryBounded, Kept
<1>11. CountedRest'
  <2>1. SUFFICES ASSUME NEW q \in Requests, pc'[q] = "counted"
                 PROVE  Cardinality(DOMAIN db'.scans) <= excess[q] + Kept + Cardinality(Later(q)')
    BY <1>1 DEF CountedRest, Kept
  <2>2. pc[q] = "counted" /\ q \in Sweeping
    BY <1>3, <2>1 DEF Sweeping
  <2>3. PICK now : now = DOMAIN db'.scans
    OBVIOUS
  <2>4. Cardinality(now) <= Cardinality(DOMAIN db.scans) + 1
    BY <1>2, <1>7, <2>3, OneMore
  <2>5. /\ Cardinality(now) \in Nat /\ Cardinality(DOMAIN db.scans) \in Nat
        /\ excess[q] \in Nat
    BY <1>2, <1>7, <2>3, FS_AddElement, FS_CardinalityType DEF StoreInv, TypeOK
  <2>6. Cardinality(DOMAIN db.scans) <= excess[q] + Kept + Cardinality(Later(q))
    BY <2>2 DEF CountedRest
  <2>. QED
    BY <1>7, <1>9, <2>2, <2>3, <2>4, <2>5, <2>6
<1>12. SelectedRest'
  <2>1. SUFFICES ASSUME NEW q \in Requests, pc'[q] \in {"stale", "doomed"}
                 PROVE  Cardinality(DOMAIN db'.scans \ stale[q]) <= Kept + Cardinality(Later(q)')
    BY <1>1 DEF SelectedRest, Kept
  <2>2. pc[q] \in {"stale", "doomed"} /\ q \in Sweeping
    BY <1>3, <2>1 DEF Sweeping
  <2>3. PICK now, before : now = DOMAIN db'.scans \ stale[q] /\ before = DOMAIN db.scans \ stale[q]
    OBVIOUS
  <2>4. IsFiniteSet(before) /\ now \subseteq before \cup {scan[r]}
    BY <1>2, <1>7, <2>3, FewerElements
  <2>5. IsFiniteSet(now) /\ Cardinality(now) <= Cardinality(before) + 1
    BY <2>4, OneMore, FS_AddElement, FewerElements
  <2>6. Cardinality(now) \in Nat /\ Cardinality(before) \in Nat
    BY <2>4, <2>5, FS_CardinalityType
  <2>7. Cardinality(before) <= Kept + Cardinality(Later(q))
    BY <2>2, <2>3 DEF SelectedRest
  <2>. QED
    BY <1>7, <1>9, <2>2, <2>3, <2>5, <2>6, <2>7
<1>13. SinceNested'
  <2>1. SUFFICES ASSUME NEW p \in Requests, NEW q \in since'[p],
                        p \in Sweeping, q \in Sweeping
                 PROVE  since'[q] \subseteq since'[p]
    BY <1>5 DEF SinceNested
  <2>2. q \in Requests /\ p \in Requests
    BY <2>1 DEF Sweeping
  <2>3. since'[q] = since[q] \cup {r} /\ since'[p] = since[p] \cup {r}
    BY <1>1, <2>1, <2>2
  <2>4. q \in since[p]
    BY <1>5, <2>1, <2>3
  <2>5. since[q] \subseteq since[p]
    BY <2>1, <2>2, <2>4 DEF SinceNested
  <2>. QED
    BY <2>3, <2>5
<1>14. SinceCommitted'
  BY <1>1, <1>3, <1>5 DEF SinceCommitted, Early
<1>. QED
  BY <1>10, <1>11, <1>12, <1>13, <1>14

LEMMA DropStaleStep ==
    ASSUME DashboardAssumption, SweepInv, StoreInv', NEW r \in Requests, DropStale(r)
    PROVE  SweepInv'
<1>. USE DEF SweepInv
<1>1. /\ stale' = stale /\ excess' = excess /\ since' = since
      /\ pc' = [pc EXCEPT ![r] = "swept"] /\ pc[r] = "doomed"
  BY DEF DropStale, Goto, locals
<1>2. DOMAIN db'.scans = DOMAIN db.scans \ stale[r]
  BY DEF DropStale, Commit, Without, Restrict, StoreInv, Solid, IsDatabase
<1>3. \A q \in Requests : pc'[q] = IF q = r THEN "swept" ELSE pc[q]
  BY <1>1 DEF StoreInv, TypeOK
<1>4. Unsettled' = Unsettled \ {r} /\ r \in Unsettled
  BY <1>1, <1>3 DEF Unsettled
<1>5. Sweeping' = Sweeping \ {r} /\ r \in Sweeping
  BY <1>1, <1>3 DEF Sweeping
<1>6. r \notin since[r]
  BY DEF SinceCommitted
<1>7. /\ IsFiniteSet(DOMAIN db.scans) /\ Kept \in Nat
      /\ IsFiniteSet(Unsettled) /\ IsFiniteSet(Unsettled')
      /\ \A q \in Requests : IsFiniteSet(Later(q)) /\ IsFiniteSet(Later(q)')
  <2>1. IsFiniteSet(Unsettled')
    BY FewerElements DEF Unsettled, DashboardAssumption
  <2>. QED
    BY <2>1, SweepTypes, FewerElements DEF Later
<1>8. PICK now : now = DOMAIN db'.scans
  OBVIOUS
<1>9. /\ IsFiniteSet(now) /\ Cardinality(now) \in Nat
      /\ Cardinality(DOMAIN db.scans) \in Nat /\ Cardinality(now) <= Cardinality(DOMAIN db.scans)
  BY <1>2, <1>7, <1>8, FewerElements
<1>10. Cardinality(now) <= Kept + Cardinality(Later(r))
  BY <1>1, <1>2, <1>8 DEF SelectedRest
<1>11. HistoryBounded'
  <2>1. Later(r) \subseteq Unsettled'
    BY <1>4, <1>6 DEF Later
  <2>2. /\ Cardinality(Later(r)) \in Nat /\ Cardinality(Unsettled') \in Nat
        /\ Cardinality(Later(r)) <= Cardinality(Unsettled')
    BY <1>7, <2>1, FewerElements
  <2>. QED
    BY <1>7, <1>8, <1>9, <1>10, <2>2 DEF HistoryBounded, Kept
\* What is true of each other request that sweeps.
<1>12. ASSUME NEW q \in Requests, q \in Sweeping, q # r
       PROVE  \/ Later(q)' = Later(q)
              \/ Cardinality(now) <= Kept + Cardinality(Later(q)')
  <2>1. CASE r \notin since[q]
    BY <1>1, <1>4, <2>1 DEF Later
  <2>2. CASE r \in since[q]
    <3>1. since[r] \subseteq since[q]
      BY <1>5, <1>12, <2>2 DEF SinceNested
    <3>2. Later(r) \subseteq Later(q)'
      BY <1>1, <1>4, <1>6, <3>1 DEF Later
    <3>3. /\ Cardinality(Later(r)) \in Nat /\ Cardinality(Later(q)') \in Nat
          /\ Cardinality(Later(r)) <= Cardinality(Later(q)')
      BY <1>7, <3>2, FewerElements
    <3>. QED
      BY <1>7, <1>9, <1>10, <3>3
  <2>. QED
    BY <2>1, <2>2
<1>13. CountedRest'
  <2>1. SUFFICES ASSUME NEW q \in Requests, pc'[q] = "counted"
                 PROVE  Cardinality(now) <= excess[q] + Kept + Cardinality(Later(q)')
    BY <1>1, <1>8 DEF CountedRest, Kept
  <2>2. pc[q] = "counted" /\ q \in Sweeping /\ q # r
    BY <1>3, <2>1 DEF Sweeping
  <2>3. Cardinality(DOMAIN db.scans) <= excess[q] + Kept + Cardinality(Later(q))
    BY <2>2 DEF CountedRest
  <2>4. Cardinality(Later(q)) \in Nat /\ Cardinality(Later(q)') \in Nat /\ excess[q] \in Nat
    BY <1>7, FS_CardinalityType DEF StoreInv, TypeOK
  <2>5. CASE Later(q)' = Later(q)
    BY <1>7, <1>9, <2>3, <2>4, <2>5
  <2>6. CASE Cardinality(now) <= Kept + Cardinality(Later(q)')
    BY <1>7, <1>9, <2>4, <2>6
  <2>. QED
    BY <1>12, <2>2, <2>5, <2>6
<1>14. SelectedRest'
  <2>1. SUFFICES ASSUME NEW q \in Requests, pc'[q] \in {"stale", "doomed"}
                 PROVE  Cardinality(now \ stale[q]) <= Kept + Cardinality(Later(q)')
    BY <1>1, <1>8 DEF SelectedRest, Kept
  <2>2. pc[q] \in {"stale", "doomed"} /\ q \in Sweeping /\ q # r
    BY <1>3, <2>1 DEF Sweeping
  <2>3. PICK rest, before : rest = now \ stale[q] /\ before = DOMAIN db.scans \ stale[q]
    OBVIOUS
  <2>4. Cardinality(before) <= Kept + Cardinality(Later(q))
    BY <2>2, <2>3 DEF SelectedRest
  <2>5. Cardinality(Later(q)) \in Nat /\ Cardinality(Later(q)') \in Nat
    BY <1>7, FS_CardinalityType
  <2>6. IsFiniteSet(before) /\ rest \subseteq before /\ rest \subseteq now
    BY <1>2, <1>7, <1>8, <2>3, FewerElements
  <2>7. /\ Cardinality(rest) \in Nat /\ Cardinality(before) \in Nat
        /\ Cardinality(rest) <= Cardinality(before) /\ Cardinality(rest) <= Cardinality(now)
    BY <1>9, <2>6, FewerElements
  <2>8. CASE Later(q)' = Later(q)
    BY <1>7, <2>3, <2>4, <2>5, <2>7, <2>8
  <2>9. CASE Cardinality(now) <= Kept + Cardinality(Later(q)')
    BY <1>7, <1>9, <2>3, <2>5, <2>7, <2>9
  <2>. QED
    BY <1>12, <2>2, <2>8, <2>9
<1>15. SinceNested'
  BY <1>1, <1>5 DEF SinceNested
<1>16. SinceCommitted'
  BY <1>1, <1>3 DEF SinceCommitted, Early
<1>. QED
  BY <1>11, <1>13, <1>14, <1>15, <1>16

\* "so the database cannot grow without bound": for each scan more than are
\* kept there is a request that is about to delete some, or gave up, however the
\* counts, selections and deletions of the requests interleave.
THEOREM Bounds == Spec => []HistoryBounded
<1>1. Init => SweepInv
  <2>. SUFFICES ASSUME Init PROVE SweepInv
    OBVIOUS
  <2>1. HistoryBounded
    <3>1. DOMAIN db.scans = {} /\ Unsettled = {}
      BY DEF Init, Empty, Unsettled
    <3>2. Kept \in Nat
      BY DashboardAssumption DEF Kept, DashboardAssumption
    <3>. QED
      BY <3>1, <3>2, FS_EmptySet DEF HistoryBounded
  <2>2. CountedRest /\ SelectedRest /\ SinceNested /\ SinceCommitted
    BY DEF Init, CountedRest, SelectedRest, SinceNested, SinceCommitted
  <2>. QED
    BY <2>1, <2>2, StoreInit, DashboardAssumption DEF SweepInv
<1>2. SweepInv /\ [Next]_vars => SweepInv'
  <2>. SUFFICES ASSUME SweepInv, [Next]_vars PROVE SweepInv'
    OBVIOUS
  <2>1. StoreInv /\ StoreInv'
    BY StoreStep, DashboardAssumption DEF SweepInv
  <2>2. CASE Calm
    BY <2>1, <2>2, CalmStep
  <2>3. ASSUME NEW r \in Requests,
               \/ NothingToSweep(r) \/ Count(r) \/ SelectStale(r)
               \/ StoreFindings(r) \/ DropStale(r)
        PROVE  SweepInv'
    BY <2>1, <2>3, NothingToSweepStep, CountStep, SelectStaleStep, StoreFindingsStep,
       DropStaleStep, DashboardAssumption
  <2>. QED
    BY <2>1, <2>2, <2>3, CalmSteps, DashboardAssumption
<1>3. SweepInv => HistoryBounded
  BY DEF SweepInv
<1>. QED
  BY <1>1, <1>2, <1>3, PTL DEF Spec

===============================================================================
