------------------------------ MODULE Dashboard ------------------------------
(***************************************************************************)
(* The dashboard's store (dashboard/store.py, app.py, db.py): every posted *)
(* report is ingested in a thread and a session of its own, and then old   *)
(* scans are deleted so that MaxScans are left.  Nothing but the database  *)
(* keeps the sessions apart.                                               *)
(*                                                                         *)
(* The database is SQLite as the driver uses it: a SELECT sees what is     *)
(* committed at that moment; the first change of a transaction takes the   *)
(* one write lock, and a commit makes all changes visible and releases it; *)
(* a new row gets the largest key plus one, so that a deleted key may come *)
(* back; foreign keys are declared but not enforced.                       *)
(***************************************************************************)
EXTENDS Integers, FiniteSets, FiniteSetsExt, Functions

CONSTANTS
    Requests,   \* the posts of reports
    Nobody,     \* the holder of a free write lock
    Slugs,      \* the names of projects, as _slugify makes them
    SlugOf,     \* the project each report is about
    When,       \* when each scan ran, according to its report
    Size,       \* how many findings each report has
    MaxScans,   \* NEPHILEX_DASHBOARD_MAX_SCANS
    MaxFaults   \* bound: failing statements and kills of the server

ASSUME DashboardAssumption ==
    /\ IsFiniteSet(Requests) /\ Nobody \notin Requests
    /\ SlugOf \in [Requests -> Slugs]
    /\ When \in [Requests -> Nat] /\ Size \in [Requests -> Nat]
    /\ MaxScans \in Nat /\ MaxFaults \in Nat

VARIABLES
    db,        \* the committed rows: key -> row for each table
    draft,     \* the same with the changes of the transaction in progress
    lock,      \* the request whose transaction that is, or Nobody
    clock,     \* the time of the server
    pc,        \* where each request stands
    project,   \* the key of the report's project; 0 if there was none
    scan,      \* the key of the stored scan
    excess,    \* how many scans are too many, as counted
    stale,     \* the scans selected for deletion
    doomed,    \* their findings
    suspects,  \* the projects still to look at for scans
    emptied,   \* the projects found without scans, marked for deletion
    reply,     \* what the client is told
    faults,    \* how many statements failed and kills happened
    since      \* auxiliary: the requests that committed after this one counted

locals == <<project, scan, excess, stale, doomed, suspects, emptied, since>>
vars == <<db, draft, lock, clock, pc, reply, faults, locals>>

Labels == {"idle", "found", "named", "scanned", "stored", "refreshed", "counted",
           "stale", "doomed", "swept", "expired", "unswept", "done"}

Keys == Nat \ {0}

ScanRow == [project: Keys, time: Nat, by: Requests]
FindingRow == [scan: Keys, by: Requests]

Empty == [projects |-> <<>>, scans |-> <<>>, findings |-> <<>>]

Init ==
    /\ db = Empty /\ draft = Empty
    /\ lock = Nobody
    /\ clock = 1
    /\ pc = [r \in Requests |-> "idle"]
    /\ project = [r \in Requests |-> 0]
    /\ scan = [r \in Requests |-> 0]
    /\ excess = [r \in Requests |-> 0]
    /\ stale = [r \in Requests |-> {}]
    /\ doomed = [r \in Requests |-> {}]
    /\ suspects = [r \in Requests |-> {}]
    /\ emptied = [r \in Requests |-> {}]
    /\ reply = [r \in Requests |-> "none"]
    /\ faults = 0
    /\ since = [r \in Requests |-> {}]

Goto(r, label) == pc' = [pc EXCEPT ![r] = label]

Answer(r, what) == reply' = [reply EXCEPT ![r] = what]

\* The rows without those of some keys.
Without(rows, keys) == Restrict(rows, DOMAIN rows \ keys)

\* The key of the next row: the rowid of SQLite without AUTOINCREMENT.
NextKey(rows) == IF DOMAIN rows = {} THEN 1 ELSE Max(DOMAIN rows) + 1

WithRow(rows, k, row) == [j \in DOMAIN rows \cup {k} |-> IF j = k THEN row ELSE rows[j]]

\* A change needs the write lock, and waits for it.
MayWrite(r) == lock \in {Nobody, r}

\* What a SELECT of a request sees: its own changes too.
Seen(r) == IF lock = r THEN draft ELSE db

\* Mutant: what is flushed is committed at once.
FlushAndCommit(r, rows) == draft' = rows /\ db' = rows /\ lock' = r

\* Changes sent to the database in the transaction of the request.
Flush(r, rows) == draft' = rows /\ lock' = r /\ db' = db

Commit(rows) == draft' = rows /\ db' = rows /\ lock' = Nobody

\* session.rollback(), which does nothing for a session without changes.
Rollback(r) ==
    /\ lock' = IF lock = r THEN Nobody ELSE lock
    /\ draft' = IF lock = r THEN db ELSE draft
    /\ UNCHANGED db

-----------------------------------------------------------------------------
(***************************************************************************)
(* ingest_report.                                                          *)
(***************************************************************************)

\* Too large, not JSON, or not a report: the store is not touched.
Reject(r) ==
    /\ pc[r] = "idle"
    /\ Goto(r, "done")
    /\ Answer(r, "invalid")
    /\ UNCHANGED <<db, draft, lock, clock, faults, locals>>

Named(name) == {p \in DOMAIN db.projects : db.projects[p] = name}

\* _get_or_create_project: the look-up; 0 stands for None.
FindProject(r) ==
    /\ pc[r] = "idle"
    /\ \E p \in Named(SlugOf[r]) \cup {0} :
         /\ p = 0 <=> Named(SlugOf[r]) = {}
         /\ project' = [project EXCEPT ![r] = p]
    /\ Goto(r, "found")
    /\ UNCHANGED <<db, draft, lock, clock, reply, faults,
                   scan, excess, stale, doomed, suspects, emptied, since>>

\* _get_or_create_project: there was none.
AddProject(r) ==
    /\ pc[r] = "found" /\ project[r] = 0 /\ lock = Nobody
    /\ Named(SlugOf[r]) = {}
    /\ LET p == NextKey(db.projects)
       IN  /\ Flush(r, [db EXCEPT !.projects = WithRow(@, p, SlugOf[r])])
           /\ project' = [project EXCEPT ![r] = p]
    /\ Goto(r, "named")
    /\ UNCHANGED <<clock, reply, faults,
                   scan, excess, stale, doomed, suspects, emptied, since>>

\* ... but by now another request has added it, and the slug is unique.
NameTaken(r) ==
    /\ pc[r] = "found" /\ project[r] = 0 /\ lock = Nobody
    /\ Named(SlugOf[r]) # {}
    /\ Goto(r, "done")
    /\ Answer(r, "invalid")
    /\ UNCHANGED <<db, draft, lock, clock, faults, locals>>

\* _scan_time: when the report says, but not later than now.
ScanTime(r) == IF When[r] < clock THEN When[r] ELSE clock

\* _store_result: the row of the scan, flushed for its key.
AddScan(r) ==
    /\ pc[r] = "named" \/ (pc[r] = "found" /\ project[r] # 0)
    /\ MayWrite(r)
    /\ LET k == NextKey(Seen(r).scans)
           row == [project |-> project[r], time |-> ScanTime(r), by |-> r]
       IN  /\ Flush(r, [Seen(r) EXCEPT !.scans = WithRow(@, k, row)])
           /\ scan' = [scan EXCEPT ![r] = k]
    /\ clock' = clock + 1
    /\ Goto(r, "scanned")
    /\ UNCHANGED <<reply, faults, project, excess, stale, doomed, suspects, emptied, since>>

\* The rows of the findings of a report, after those that are there.
WithFindings(rows, r) ==
    LET first == NextKey(rows)
        new == first..(first + Size[r] - 1)
    IN  [f \in DOMAIN rows \cup new |->
           IF f \in new THEN [scan |-> scan[r], by |-> r] ELSE rows[f]]

\* The requests that have counted the scans and not deleted any yet.
Sweeping == {r \in Requests : pc[r] \in {"counted", "stale", "doomed"}}

\* _store_result: the rows of the findings and the one commit.
StoreFindings(r) ==
    /\ pc[r] = "scanned"
    /\ Commit([draft EXCEPT !.findings = WithFindings(@, r)])
    /\ since' = [q \in Requests |-> IF q \in Sweeping THEN since[q] \cup {r} ELSE since[q]]
    /\ Goto(r, "stored")
    /\ UNCHANGED <<clock, reply, faults,
                   project, scan, excess, stale, doomed, suspects, emptied>>

\* session.refresh: the row of the scan is read again.
Refresh(r) ==
    /\ pc[r] = "stored"
    /\ scan[r] \in DOMAIN db.scans
    /\ Goto(r, "refreshed")
    /\ UNCHANGED <<db, draft, lock, clock, reply, faults, locals>>

\* ... which another request may have deleted by now.
RefreshFails(r) ==
    /\ pc[r] = "stored"
    /\ scan[r] \notin DOMAIN db.scans
    /\ Goto(r, "unswept")
    /\ Answer(r, "invalid")
    /\ UNCHANGED <<db, draft, lock, clock, faults, locals>>

-----------------------------------------------------------------------------
(***************************************************************************)
(* enforce_retention.                                                      *)
(***************************************************************************)

Kept == IF MaxScans < 1 THEN 1 ELSE MaxScans

\* Mutant: one scan more may stay.
LaxExcess(n) == n - Kept - 1

TooMany(n) == n - Kept

\* There are not more scans than are kept: the client gets its answer.
NothingToSweep(r) ==
    /\ pc[r] = "refreshed"
    /\ TooMany(Cardinality(DOMAIN db.scans)) <= 0
    /\ Goto(r, "done")
    /\ Answer(r, "ok")
    /\ UNCHANGED <<db, draft, lock, clock, faults, locals>>

\* The scans are counted ...
Count(r) ==
    /\ pc[r] = "refreshed"
    /\ LET n == TooMany(Cardinality(DOMAIN db.scans))
       IN  n > 0 /\ excess' = [excess EXCEPT ![r] = n]
    /\ since' = [since EXCEPT ![r] = {}]
    /\ Goto(r, "counted")
    /\ UNCHANGED <<db, draft, lock, clock, reply, faults,
                   project, scan, stale, doomed, suspects, emptied>>

Older(rows, i, j) ==
    rows[i].time < rows[j].time \/ (rows[i].time = rows[j].time /\ i < j)

\* The n oldest scans, or all if there are fewer.
Oldest(rows, n) ==
    {keys \in SUBSET DOMAIN rows :
        /\ Cardinality(keys) <= n
        /\ keys # DOMAIN rows => Cardinality(keys) = n
        /\ \A i \in keys, j \in DOMAIN rows \ keys : Older(rows, i, j)}

\* ... as many of the oldest are selected ...
SelectStale(r) ==
    /\ pc[r] = "counted"
    /\ \E keys \in Oldest(db.scans, excess[r]) :
         /\ stale' = [stale EXCEPT ![r] = keys]
         /\ suspects' = [suspects EXCEPT ![r] = {db.scans[i].project : i \in keys}]
    /\ Goto(r, "stale")
    /\ UNCHANGED <<db, draft, lock, clock, reply, faults,
                   project, scan, excess, doomed, emptied, since>>

\* ... then their findings ...
SelectFindings(r) ==
    /\ pc[r] = "stale"
    /\ doomed' = [doomed EXCEPT ![r] =
                    {f \in DOMAIN db.findings : db.findings[f].scan \in stale[r]}]
    /\ Goto(r, "doomed")
    /\ UNCHANGED <<db, draft, lock, clock, reply, faults,
                   project, scan, excess, stale, suspects, emptied, since>>

\* ... and the rows with those keys are deleted, the missing ones with a
\* warning of the library.
DropStale(r) ==
    /\ pc[r] = "doomed" /\ lock = Nobody
    /\ Commit([db EXCEPT !.scans = Without(@, stale[r]),
                         !.findings = Without(@, doomed[r])])
    /\ Goto(r, "swept")
    /\ UNCHANGED <<clock, reply, faults, locals>>

\* The projects marked so far, which the next statement flushes.
WithoutEmptied(r) == [Seen(r) EXCEPT !.projects = Without(@, emptied[r])]

\* A project without scans is marked for deletion; marked ones are flushed
\* first, which takes the lock.
CheckProject(r) ==
    /\ pc[r] = "swept"
    /\ IF emptied[r] = {}
       THEN UNCHANGED <<db, draft, lock>>
       ELSE MayWrite(r) /\ Flush(r, WithoutEmptied(r))
    /\ \E p \in suspects[r] :
         /\ suspects' = [suspects EXCEPT ![r] = @ \ {p}]
         /\ emptied' = [emptied EXCEPT ![r] =
                @ \cup {q \in {p} \cap DOMAIN Seen(r).projects :
                          \A i \in DOMAIN Seen(r).scans : Seen(r).scans[i].project # q}]
    /\ Goto(r, "swept")
    /\ UNCHANGED <<clock, reply, faults, project, scan, excess, stale, doomed, since>>

\* The second commit; every object of the session is to be read again.
DropProjects(r) ==
    /\ pc[r] = "swept" /\ suspects[r] = {}
    /\ IF emptied[r] = {}
       THEN UNCHANGED <<db, draft, lock>>
       ELSE MayWrite(r) /\ Commit(WithoutEmptied(r))
    /\ Goto(r, "expired")
    /\ UNCHANGED <<clock, reply, faults, locals>>

\* The answer names the scan, whose row is read again unless this request has
\* deleted it itself; if another has, the request ends in an error.
Respond(r) ==
    /\ pc[r] = "expired"
    /\ Goto(r, "done")
    /\ Answer(r, IF scan[r] \in stale[r] \cup DOMAIN db.scans THEN "ok" ELSE "error")
    /\ UNCHANGED <<db, draft, lock, clock, faults, locals>>

-----------------------------------------------------------------------------
(***************************************************************************)
(* Failures.                                                               *)
(***************************************************************************)

Stopped == {"idle", "expired", "unswept", "done"}

\* Where a request ends that fails: its scan is stored and the old ones are
\* not deleted, or not.
GivenUp(r) ==
    IF pc[r] \in {"stored", "refreshed", "counted", "stale", "doomed"} THEN "unswept" ELSE "done"

\* A statement fails: the lock did not become free in time, the disk is full.
\* The client is told that its report is invalid.
Fail(r) ==
    /\ faults < MaxFaults
    /\ faults' = faults + 1
    /\ pc[r] \notin Stopped
    /\ Goto(r, GivenUp(r))
    /\ Answer(r, "invalid")
    /\ Rollback(r)
    /\ UNCHANGED <<clock, locals>>

\* The server is killed; SQLite rolls back when the file is opened again.
Kill ==
    /\ faults < MaxFaults
    /\ faults' = faults + 1
    /\ \E r \in Requests : pc[r] \notin Stopped
    /\ pc' = [r \in Requests |->
                IF pc[r] \in {"idle", "unswept"} THEN pc[r] ELSE GivenUp(r)]
    /\ reply' = [r \in Requests |->
                   IF pc[r] # "idle" /\ reply[r] = "none" THEN "lost" ELSE reply[r]]
    /\ draft' = db /\ lock' = Nobody
    /\ UNCHANGED <<db, clock, locals>>

Ingest(r) ==
    \/ Reject(r) \/ FindProject(r) \/ AddProject(r) \/ NameTaken(r)
    \/ AddScan(r) \/ StoreFindings(r) \/ Refresh(r) \/ RefreshFails(r)

Retention(r) ==
    \/ NothingToSweep(r) \/ Count(r) \/ SelectStale(r) \/ SelectFindings(r)
    \/ DropStale(r) \/ CheckProject(r) \/ DropProjects(r)

Next ==
    \/ \E r \in Requests : Ingest(r) \/ Retention(r) \/ Respond(r) \/ Fail(r)
    \/ Kill

Spec == Init /\ [][Next]_vars

-----------------------------------------------------------------------------
(***************************************************************************)
(* Properties.                                                             *)
(***************************************************************************)

IsTable(rows, Row) ==
    /\ IsFiniteSet(DOMAIN rows) /\ DOMAIN rows \subseteq Keys
    /\ \A k \in DOMAIN rows : rows[k] \in Row

IsDatabase(t) ==
    /\ t = [projects |-> t.projects, scans |-> t.scans, findings |-> t.findings]
    /\ IsTable(t.projects, Slugs)
    /\ IsTable(t.scans, ScanRow)
    /\ IsTable(t.findings, FindingRow)

\* Type invariant; there are uncommitted changes only while somebody has the lock.
TypeOK ==
    /\ IsDatabase(db) /\ IsDatabase(draft)
    /\ lock \in Requests \cup {Nobody}
    /\ lock = Nobody => draft = db
    /\ clock \in Nat /\ faults \in 0..MaxFaults
    /\ pc \in [Requests -> Labels]
    /\ project \in [Requests -> Nat]
    /\ scan \in [Requests -> Nat]
    /\ excess \in [Requests -> Nat]
    /\ stale \in [Requests -> SUBSET Keys]
    /\ doomed \in [Requests -> SUBSET Keys]
    /\ suspects \in [Requests -> SUBSET Keys]
    /\ emptied \in [Requests -> SUBSET Keys]
    /\ since \in [Requests -> SUBSET Requests]
    /\ reply \in [Requests -> {"none", "ok", "invalid", "error", "lost"}]

\* "The project, scan, and findings are written in one transaction: a report
\* that fails part-way through never leaves a half-ingested scan behind": a scan
\* becomes visible with all its findings, and nothing of a report otherwise.
Visible(r) == {i \in DOMAIN db.scans : db.scans[i].by = r}
FindingsOf(r) == {f \in DOMAIN db.findings : db.findings[f].by = r}

IngestAtomic ==
    [][\A r \in Requests :
         /\ ~(Visible(r)' \subseteq Visible(r)) => Cardinality(FindingsOf(r)') = Size[r]
         /\ ~(FindingsOf(r)' \subseteq FindingsOf(r)) => Cardinality(Visible(r)') = 1]_vars

\* The requests whose scan is stored and that have not deleted the old ones,
\* or gave up before they did.
Unsettled ==
    {r \in Requests : pc[r] \in {"stored", "refreshed", "counted", "stale", "doomed", "unswept"}}

\* "so the database cannot grow without bound": however the deletions of the
\* requests interleave, more scans than are kept means that requests are still
\* about to delete some, or gave up.
HistoryBounded == Cardinality(DOMAIN db.scans) <= Kept + Cardinality(Unsettled)

=============================================================================
