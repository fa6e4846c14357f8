------------------------------- MODULE AuditLog -------------------------------
(***************************************************************************)
(* The tamper-evident audit log, .nephilex/audit.log (audit/log.py).       *)
(*                                                                         *)
(* Several processes (scans, fixes, monitors) append batches of events to  *)
(* one JSON-lines file.  append_events opens the file, takes an exclusive  *)
(* flock with a deadline, reads the head of the hash chain under the lock, *)
(* and writes one sealed record per event.  A process can die or run into  *)
(* an OSError between any two bytes, so the file may end in a partial      *)
(* line.  verify_log walks the chain; people edit, delete and rewrite      *)
(* lines behind its back.                                                  *)
(*                                                                         *)
(* A digest (a record's hash, or the sha256 of the raw bytes of a damaged  *)
(* line) is a number never used before: SHA-256 is taken to be free of     *)
(* collisions, and 0 stands for GENESIS_HASH.                              *)
(***************************************************************************)
EXTENDS Naturals, Sequences, FiniteSets

CONSTANTS
    Writers,     \* the processes that call append_events, each of them once
    NoWriter,    \* the lock is free
    Keys,        \* what dedupe_key tells apart
    Batches,     \* the argument `events` of a call: sequences of events
    MaxRead,     \* MAX_READ_BYTES, counted in lines of the log
    ChunkLines,  \* the 1 MiB read unit of _count_lines, counted in lines
    MaxTampers   \* bound: how often somebody changes the file by hand

\* An event: its dedupe key, AuditEvent.once (true of every suppression event
\* and of no other), and whether its action is one of ACTIONS.
Event == [key: Keys, once: BOOLEAN, known: BOOLEAN]

ASSUME AuditAssumption ==
    /\ NoWriter \notin Writers
    /\ Batches \subseteq Seq(Event) \ {<<>>}
    /\ MaxRead \in Nat
    /\ ChunkLines \in Nat \ {0}
    /\ MaxTampers \in Nat

VARIABLES
    log,         \* the non-blank lines of the file, in order
    terminated,  \* the file is empty or its last byte is a newline
    lock,        \* the holder of the flock, or NoWriter
    fresh,       \* the next unused digest
    pc,          \* where each call stands
    batch,       \* the events each call was given
    done,        \* how many of them the call has sealed or skipped
    plan,        \* what the call read under the lock, see Plan
    result,      \* AppendResult of the call: records written, and a warning
    tampers,     \* how often the file was changed by hand
    tampering,   \* the kinds of those changes
    anchor       \* the last head noted by somebody who ran verify, see Anchor

fileVars == <<log, terminated, fresh>>
callVars == <<pc, batch, done, plan, result>>
vars == <<log, terminated, lock, fresh, pc, batch, done, plan, result, tampers, tampering, anchor>>

Genesis == 0

Kinds == {"sealed", "edited", "torn"}

\* One line: a record that hashes to its own `hash` ("sealed"), one that still
\* parses but does not ("edited"), or bytes that are no JSON object ("torn").
Line == [kind: Kinds, digest: Nat, prev: Nat, seq: Nat, key: Keys, once: BOOLEAN, by: Writers]

Labels == {"start", "opened", "locked", "writing", "partial", "done", "crashed"}

\* What a call keeps while it holds the lock: the keys `once` events are
\* compared with, whether they are skipped altogether, the head of the chain,
\* and the number of records written so far.
Plan == [seen: SUBSET Keys, skip: BOOLEAN, prev: Nat, seq: Nat, written: Nat]

AppendResult == [written: Nat, warned: BOOLEAN]

NoPlan == [seen |-> {}, skip |-> FALSE, prev |-> Genesis, seq |-> 0, written |-> 0]

\* A verified head somebody kept: the digest and, to state what it protects,
\* the lines the log had at that moment.
NoAnchor == [digest |-> Genesis, lines |-> <<>>]

-----------------------------------------------------------------------------

Init ==
    /\ log = <<>>
    /\ terminated = TRUE
    /\ lock = NoWriter
    /\ fresh = 1
    /\ pc = [w \in Writers |-> "start"]
    /\ batch \in [Writers -> Batches]
    /\ done = [w \in Writers |-> 0]
    /\ plan = [w \in Writers |-> NoPlan]
    /\ result = [w \in Writers |-> [written |-> 0, warned |-> FALSE]]
    /\ tampers = 0
    /\ tampering = {}
    /\ anchor = NoAnchor

Warn(w) == result' = [result EXCEPT ![w].warned = TRUE]

Goto(w, label) == pc' = [pc EXCEPT ![w] = label]

\* os.open with O_APPEND | O_CREAT after _log_path has accepted the path.
Open(w) ==
    /\ pc[w] = "start"
    /\ Goto(w, "opened")
    /\ UNCHANGED <<fileVars, lock, batch, done, plan, result, tampers, tampering, anchor>>

\* _log_path refuses a symlink, or the directory or file cannot be opened.
OpenFails(w) ==
    /\ pc[w] = "start"
    /\ Goto(w, "done")
    /\ Warn(w)
    /\ UNCHANGED <<fileVars, lock, batch, done, plan, tampers, tampering, anchor>>

\* Mutant: the exclusive lock is not taken.
NoLocking == TRUE

\* LockFree is what flock(LOCK_EX | LOCK_NB) answers.
LockFree == lock = NoWriter

Acquire(w) ==
    /\ pc[w] = "opened"
    /\ LockFree
    /\ lock' = w
    /\ Goto(w, "locked")
    /\ UNCHANGED <<fileVars, batch, done, plan, result, tampers, tampering, anchor>>

\* The lock was still taken when the deadline passed.
LockTimeout(w) ==
    /\ pc[w] = "opened"
    /\ ~LockFree
    /\ Goto(w, "done")
    /\ Warn(w)
    /\ UNCHANGED <<fileVars, lock, batch, done, plan, tampers, tampering, anchor>>

-----------------------------------------------------------------------------
(***************************************************************************)
(* Under the lock: the head of the chain and the keys already recorded.    *)
(***************************************************************************)

WantsDedupe(w) == \E j \in DOMAIN batch[w] : batch[w][j].once

Oversized == Len(log) > MaxRead

\* Mutant: only the last line is looked at.
KeysOfLastLine == IF log # <<>> /\ log[Len(log)].once THEN {log[Len(log)].key} ELSE {}

\* The keys of every suppression record that parses, sealed or not.
KeysInLog == {log[i].key : i \in {j \in DOMAIN log : log[j].kind # "torn" /\ log[j].once}}

Damaged(line) == line.kind = "torn"

\* _count_lines counts a line twice when it straddles two read units.
LineCounts == {Len(log) + twice : twice \in 0..(Len(log) \div ChunkLines)}

\* The (prev_hash, prev_seq) a new record continues from.
Heads ==
    IF log = <<>> THEN {[prev |-> Genesis, seq |-> 0]}
    ELSE LET last == log[Len(log)]
         IN  IF Damaged(last)
             THEN {[prev |-> last.digest, seq |-> n] : n \in LineCounts}
             ELSE {[prev |-> last.digest, seq |-> last.seq]}

\* Mutant: the size limit silently drops the suppression events.
WarnedOfTailOnly(w) == log # <<>> /\ Damaged(log[Len(log)])

\* What _append_locked warns of before it writes.
HeadWarning(w) ==
    \/ WantsDedupe(w) /\ Oversized
    \/ log # <<>> /\ Damaged(log[Len(log)])

ReadHead(w) ==
    /\ pc[w] = "locked"
    /\ \A j \in DOMAIN batch[w] : batch[w][j].known
    /\ \E head \in Heads :
         plan' = [plan EXCEPT ![w] =
                    [seen    |-> IF WantsDedupe(w) /\ ~Oversized THEN KeysInLog ELSE {},
                     skip    |-> WantsDedupe(w) /\ Oversized,
                     prev    |-> head.prev,
                     seq     |-> head.seq,
                     written |-> 0]]
    /\ IF HeadWarning(w) THEN Warn(w) ELSE UNCHANGED result
    /\ Goto(w, "writing")
    /\ UNCHANGED <<fileVars, lock, batch, done, tampers, tampering, anchor>>

\* An action outside ACTIONS raises before anything is written.
RejectBatch(w) ==
    /\ pc[w] = "locked"
    /\ \E j \in DOMAIN batch[w] : ~batch[w][j].known
    /\ lock' = NoWriter
    /\ Goto(w, "done")
    /\ Warn(w)
    /\ UNCHANGED <<fileVars, batch, done, plan, tampers, tampering, anchor>>

-----------------------------------------------------------------------------
(***************************************************************************)
(* Sealing and writing.  The code seals the whole batch and then writes    *)
(* it; under the lock that is the same as sealing and writing one event    *)
(* after the other.                                                        *)
(***************************************************************************)

Pending(w) == done[w] < Len(batch[w])

NextEvent(w) == batch[w][done[w] + 1]

\* A `once` event whose key is known, or that cannot be compared with the log.
Skipped(w) ==
    /\ NextEvent(w).once
    /\ plan[w].skip \/ NextEvent(w).key \in plan[w].seen

SkipEvent(w) ==
    /\ pc[w] = "writing"
    /\ Pending(w)
    /\ Skipped(w)
    /\ done' = [done EXCEPT ![w] = @ + 1]
    /\ UNCHANGED <<fileVars, lock, pc, batch, plan, result, tampers, tampering, anchor>>

\* The record for w's next event, as it stands in the file.
Record(w, kind) ==
    [kind |-> kind, digest |-> fresh, prev |-> plan[w].prev, seq |-> plan[w].seq + 1,
     key |-> NextEvent(w).key, once |-> NextEvent(w).once, by |-> w]

\* Mutant: records are glued onto a partial line.
NeverNewline == FALSE

\* The payload starts with a newline when the file does not end in one.
NewlineFirst == ~terminated

PrevDigest(i) == IF i = 1 THEN Genesis ELSE log[i - 1].digest

\* Mutant: a damaged tail is replaced by the new record instead of kept.
TailRepaired(line) ==
    IF log # <<>> /\ Damaged(log[Len(log)])
    THEN [log EXCEPT ![Len(log)] = [line EXCEPT !.prev = PrevDigest(Len(log)), !.seq = Len(log)]]
    ELSE Append(log, line)

\* The lines after writing `line`: glued to a partial line they damage both.
Extended(line) ==
    IF terminated \/ NewlineFirst
    THEN Append(log, line)
    ELSE [log EXCEPT ![Len(log)].kind = "torn"]

\* w's plan once its next event is in the file under `digest`.
Advanced(w, digest) ==
    [seen |-> IF NextEvent(w).once THEN plan[w].seen \cup {NextEvent(w).key} ELSE plan[w].seen,
     skip |-> plan[w].skip, prev |-> digest,
     seq |-> plan[w].seq + 1, written |-> plan[w].written + 1]

WriteLine(w) ==
    /\ pc[w] = "writing"
    /\ Pending(w)
    /\ ~Skipped(w)
    /\ log' = Extended(Record(w, "sealed"))
    /\ terminated' = TRUE
    /\ fresh' = fresh + 1
    /\ plan' = [plan EXCEPT ![w] = Advanced(w, fresh)]
    /\ done' = [done EXCEPT ![w] = @ + 1]
    /\ UNCHANGED <<lock, pc, batch, result, tampers, tampering, anchor>>

\* os.write took only a part of the line: some of its bytes, or all of them
\* but the newline.
WritePart(w) ==
    /\ pc[w] = "writing"
    /\ Pending(w)
    /\ ~Skipped(w)
    /\ \E kind \in {"torn", "sealed"} : log' = Extended(Record(w, kind))
    /\ terminated' = FALSE
    /\ fresh' = fresh + 1
    /\ Goto(w, "partial")
    /\ UNCHANGED <<lock, batch, done, plan, result, tampers, tampering, anchor>>

\* The write loop continues with the rest of the line.
WriteRest(w) ==
    /\ pc[w] = "partial"
    /\ log' = [log EXCEPT ![Len(log)] = Record(w, "sealed")]
    /\ terminated' = TRUE
    /\ fresh' = fresh + 1
    /\ plan' = [plan EXCEPT ![w] = Advanced(w, fresh)]
    /\ done' = [done EXCEPT ![w] = @ + 1]
    /\ Goto(w, "writing")
    /\ UNCHANGED <<lock, batch, result, tampers, tampering, anchor>>

\* fsync, result.written, _unlock and close.
Finish(w) ==
    /\ pc[w] = "writing"
    /\ ~Pending(w)
    /\ result' = [result EXCEPT ![w].written = plan[w].written]
    /\ lock' = NoWriter
    /\ Goto(w, "done")
    /\ UNCHANGED <<fileVars, batch, done, plan, tampers, tampering, anchor>>

\* Mutant: the error path leaves the lock held.
WriteFailsLocked(w) ==
    /\ pc[w] \in {"writing", "partial"}
    /\ plan[w].written > 0 \/ (Pending(w) /\ ~Skipped(w))
    /\ Goto(w, "done")
    /\ Warn(w)
    /\ UNCHANGED <<fileVars, lock, batch, done, plan, tampers, tampering, anchor>>

\* write or fsync raised OSError (a full disk): a warning, whatever was written.
WriteFails(w) ==
    /\ pc[w] \in {"writing", "partial"}
    /\ plan[w].written > 0 \/ (Pending(w) /\ ~Skipped(w))
    /\ lock' = NoWriter
    /\ Goto(w, "done")
    /\ Warn(w)
    /\ UNCHANGED <<fileVars, batch, done, plan, tampers, tampering, anchor>>

\* The process dies; the operating system drops its lock.
Crash(w) ==
    /\ pc[w] \in {"opened", "locked", "writing", "partial"}
    /\ lock' = IF lock = w THEN NoWriter ELSE lock
    /\ Goto(w, "crashed")
    /\ UNCHANGED <<fileVars, batch, done, plan, result, tampers, tampering, anchor>>

-----------------------------------------------------------------------------
(***************************************************************************)
(* verify_log.                                                             *)
(***************************************************************************)

\* Mutant: the hash of a record is not recomputed.
LinkOnly(i) == log[i].kind # "torn" /\ log[i].prev = PrevDigest(i) /\ log[i].seq = i

\* _check_record accepts line i after its predecessor.
RecordOK(i) ==
    /\ log[i].kind = "sealed"
    /\ log[i].prev = PrevDigest(i)
    /\ log[i].seq = i

VerifyOK == \A i \in DOMAIN log : RecordOK(i)

\* The line VerifyResult.line names when the chain is broken.
FirstBroken(i) ==
    /\ i \in DOMAIN log
    /\ ~RecordOK(i)
    /\ \A j \in 1..(i - 1) : RecordOK(j)

\* Mutant: the anchor is compared by position only.
AnchorByLength == VerifyOK /\ Len(log) >= Len(anchor.lines)

\* verify --anchor: the anchored record must still be in the chain.
AnchorOK == VerifyOK /\ \E i \in DOMAIN log : log[i].digest = anchor.digest

\* A successful verify whose head is kept somewhere safe (a CI artifact).
KeepAnchor ==
    /\ VerifyOK
    /\ log # <<>>
    /\ anchor = NoAnchor
    /\ anchor' = [digest |-> log[Len(log)].digest, lines |-> log]
    /\ UNCHANGED <<fileVars, lock, callVars, tampers, tampering>>

-----------------------------------------------------------------------------
(***************************************************************************)
(* Changes made by hand, by an editor or a merge, while no append runs.    *)
(***************************************************************************)

Tamper(kind) ==
    /\ lock = NoWriter
    /\ tampers < MaxTampers
    /\ tampers' = tampers + 1
    /\ tampering' = tampering \cup {kind}
    /\ terminated' = TRUE
    /\ UNCHANGED <<lock, callVars, anchor>>

\* The content of a record is edited, its hash left alone.
EditLine ==
    /\ \E i \in DOMAIN log, k \in Keys :
         /\ log[i].kind = "sealed"
         /\ log' = [log EXCEPT ![i].kind = "edited", ![i].key = k]
    /\ fresh' = fresh
    /\ Tamper("edit")

Without(i) == SubSeq(log, 1, i - 1) \o SubSeq(log, i + 1, Len(log))

\* A record is deleted; at the end of the log that is a truncation.
DropLine ==
    \E i \in DOMAIN log :
        /\ log' = Without(i)
        /\ fresh' = fresh
        /\ Tamper(IF i = Len(log) THEN "truncate" ELSE "drop")

\* Two neighbouring records change places.
SwapLines ==
    /\ \E i \in 1..(Len(log) - 1) :
         log' = [log EXCEPT ![i] = log[i + 1], ![i + 1] = log[i]]
    /\ fresh' = fresh
    /\ Tamper("swap")

\* Line i is deleted and everything after it sealed anew.
RewriteTail ==
    \E i \in DOMAIN log :
        /\ \A j \in DOMAIN log : log[j].kind = "sealed"
        /\ log' = [j \in 1..(Len(log) - 1) |->
                     IF j < i THEN log[j]
                     ELSE [log[j + 1] EXCEPT
                             !.digest = fresh + j, !.seq = j,
                             !.prev = IF j = 1 THEN Genesis
                                      ELSE IF j = i THEN log[j - 1].digest ELSE fresh + j - 1]]
        /\ fresh' = fresh + Len(log)
        /\ Tamper("rewrite")

-----------------------------------------------------------------------------

Append_events(w) ==
    \/ Open(w) \/ OpenFails(w)
    \/ Acquire(w) \/ LockTimeout(w)
    \/ ReadHead(w) \/ RejectBatch(w)
    \/ SkipEvent(w) \/ WriteLine(w) \/ WritePart(w) \/ WriteRest(w)
    \/ Finish(w) \/ WriteFails(w)

ByHand == EditLine \/ DropLine \/ SwapLines \/ RewriteTail

Next ==
    \/ \E w \in Writers : Append_events(w) \/ Crash(w)
    \/ KeepAnchor
    \/ ByHand

\* A call that has begun keeps running unless its process dies.
Spec == Init /\ [][Next]_vars /\ \A w \in Writers : WF_vars(Append_events(w))

-----------------------------------------------------------------------------
(***************************************************************************)
(* Properties.                                                             *)
(***************************************************************************)

\* Type invariant: every variable keeps the shape its comment gives it.
TypeOK ==
    /\ log \in Seq(Line)
    /\ terminated \in BOOLEAN
    /\ lock \in Writers \cup {NoWriter}
    /\ fresh \in Nat \ {0}
    /\ pc \in [Writers -> Labels]
    /\ batch \in [Writers -> Batches]
    /\ done \in [Writers -> Nat]
    /\ plan \in [Writers -> Plan]
    /\ result \in [Writers -> AppendResult]
    /\ tampers \in Nat
    /\ tampering \subseteq {"edit", "drop", "truncate", "swap", "rewrite"}
    /\ anchor \in [digest: Nat, lines: Seq(Line)]

\* "Parallel scans and fixes therefore extend one chain instead of forking it"
\* and "verify points at the damaged line": as long as nobody changes the file
\* by hand, verify accepts every record before the first line a crash or an
\* OSError left damaged, and the first line it rejects is that one.
ChainExtended ==
    tampers = 0 =>
        \A i \in DOMAIN log :
            (\A j \in 1..i : log[j].kind = "sealed") => RecordOK(i)

\* A single edit, deletion before the last line, or exchange of two records is
\* detected for good, however many records were appended since.
TamperDetected ==
    (tampers = 1 /\ tampering \subseteq {"edit", "drop", "swap"}) => ~VerifyOK

\* verify --anchor succeeds only while every line up to the anchored one is as
\* it was when the anchor was taken: truncation and a re-sealed rewrite, which
\* the chain alone accepts, are caught.
AnchorProtects ==
    (anchor # NoAnchor /\ AnchorOK) =>
        /\ Len(anchor.lines) <= Len(log)
        /\ \A i \in DOMAIN anchor.lines : log[i] = anchor.lines[i]

\* Suppression events are recorded once per content, whatever the interleaving
\* of the scans that saw them.
RecordedOnce ==
    tampers = 0 =>
        \A i, j \in DOMAIN log :
            /\ log[i].kind = "sealed" /\ log[j].kind = "sealed"
            /\ log[i].once /\ log[j].once /\ log[i].key = log[j].key
            => i = j

\* AppendResult.written is never more than what is in the file: the records of
\* a call that reported n written records are there, side by side, in the
\* order of its events.
WrittenIsThere ==
    tampers = 0 =>
        \A w \in Writers : result[w].written > 0 =>
            \E first \in DOMAIN log :
                /\ first + result[w].written - 1 <= Len(log)
                /\ \A i \in first..(first + result[w].written - 1) :
                      log[i].by = w /\ log[i].kind = "sealed"
                /\ \A i \in DOMAIN log : log[i].by = w =>
                      i \in first..(first + result[w].written - 1)

\* No silent loss: a call that returns without a warning leaves every one of
\* its events in the log, newly written or recorded earlier.
InLog(event) == \E i \in DOMAIN log : log[i].kind # "torn" /\ log[i].key = event.key

NoSilentLoss ==
    [][\A w \in Writers :
         (pc[w] # "done" /\ pc'[w] = "done" /\ ~result'[w].warned) =>
            \A j \in DOMAIN batch[w] : InLog(batch[w][j])']_vars

\* Damage stays visible: once verify names a line no write is still working on,
\* it names the same line after any further appends, crashes and failures.
DamageStays ==
    [][\A i \in DOMAIN log :
         /\ FirstBroken(i)
         /\ \A w \in Writers : pc[w] # "partial"
         /\ tampers' = tampers
         => FirstBroken(i)']_vars

\* Every append that got as far as opening the file returns without the lock,
\* or its process died: the wait is bounded and no path keeps the lock.
AppendReturns ==
    \A w \in Writers : pc[w] = "opened" ~> (pc[w] \in {"done", "crashed"} /\ lock # w)

-----------------------------------------------------------------------------
(***************************************************************************)
(* The log implements the trail of AuditTrail: readers see the records     *)
(* that hash to themselves, and the flock is whose turn it is.             *)
(***************************************************************************)

Readable(line) == line.kind = "sealed"

\* How many of the lines up to line i are readable, and which one is the n-th.
ReadableUpTo(lines, i) == Cardinality({j \in 1..i : Readable(lines[j])})

Nth(lines, n) == CHOOSE i \in 1..Len(lines) : Readable(lines[i]) /\ ReadableUpTo(lines, i) = n

\* What a reader learns from a line.
Content(line) == [by |-> line.by, key |-> line.key, once |-> line.once]

EntriesOf(lines) ==
    [n \in 1..ReadableUpTo(lines, Len(lines)) |-> Content(lines[Nth(lines, n)])]

Entries == EntriesOf(log)

Trail == INSTANCE AuditTrail WITH trail <- Entries, turn <- lock

\* Readers of the log see one trail that only grows, written by one process at
\* a time, with every suppression in it once (append_events, docs/audit-log.md).
ImplementsTrail == Trail!Spec

=============================================================================
