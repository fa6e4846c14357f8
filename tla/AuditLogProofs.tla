---------------------------- MODULE AuditLogProofs ----------------------------
(***************************************************************************)
(* Proofs about AuditLog, for any number of writers, any batches and any   *)
(* bound on changes by hand: the chain and what tampering does to it, and  *)
(* then that a suppression is recorded once, that no event is lost without *)
(* a warning, that what a call reports as written is there, and that       *)
(* readers see the trail of AuditTrail.                                    *)
(***************************************************************************)
EXTENDS AuditLog, Integers, SequenceTheorems, FiniteSetTheorems, WellFoundedInduction, TLAPS

-----------------------------------------------------------------------------
(***************************************************************************)
(* Operators.                                                              *)
(***************************************************************************)

\* A batch is a non-empty sequence of events, so its next event is an event.
LEMMA NextEventType ==
    ASSUME NEW w \in Writers, batch \in [Writers -> Batches], done \in [Writers -> Nat], Pending(w)
    PROVE  NextEvent(w) \in Event
<1>1. batch[w] \in Seq(Event)
  BY AuditAssumption
<1>2. done[w] + 1 \in 1..Len(batch[w])
  BY <1>1 DEF Pending
<1>. QED
  BY <1>1, <1>2, ElementOfSeq DEF NextEvent

\* What Extended returns: the newline in front of the payload keeps every
\* earlier line as it is.
LEMMA ExtendedAppends ==
    ASSUME NEW line, terminated \in BOOLEAN
    PROVE  Extended(line) = Append(log, line)
BY DEF Extended, NewlineFirst

\* A record sealed by w is a line of the log.
LEMMA RecordType ==
    ASSUME NEW w \in Writers, TypeOK, Pending(w), NEW kind \in Kinds
    PROVE  Record(w, kind) \in Line
<1>1. NextEvent(w) \in Event
  BY NextEventType DEF TypeOK
<1>2. plan[w].prev \in Nat /\ plan[w].seq + 1 \in Nat /\ fresh \in Nat
  BY DEF TypeOK, Plan
<1>3. NextEvent(w).key \in Keys /\ NextEvent(w).once \in BOOLEAN
  BY <1>1 DEF Event
<1>. QED
  BY <1>2, <1>3 DEF Record, Line

-----------------------------------------------------------------------------
(***************************************************************************)
(* Type correctness.                                                       *)
(***************************************************************************)

\* The head a writer continues from is a digest and a sequence number.
LEMMA HeadsType ==
    ASSUME TypeOK
    PROVE  Heads \subseteq [prev: Nat, seq: Nat]
<1>1. CASE log = <<>>
  BY <1>1 DEF Heads, Genesis
<1>2. CASE log # <<>>
  <2>1. log[Len(log)] \in Line
    BY <1>2 DEF TypeOK
  <2>2. LineCounts \subseteq Nat
    BY AuditAssumption DEF LineCounts, TypeOK
  <2>. QED
    BY <1>2, <2>1, <2>2 DEF Heads, Line
<1>. QED
  BY <1>1, <1>2

LEMMA KeysInLogType ==
    ASSUME TypeOK
    PROVE  KeysInLog \subseteq Keys
<1>1. \A i \in DOMAIN log : log[i] \in Line
  BY DEF TypeOK
<1>. QED
  BY <1>1 DEF KeysInLog, Line

LEMMA AdvancedType ==
    ASSUME TypeOK, NEW w \in Writers, Pending(w), NEW digest \in Nat
    PROVE  Advanced(w, digest) \in Plan
<1>1. NextEvent(w) \in Event
  BY NextEventType DEF TypeOK
<1>2. plan[w] \in Plan
  BY DEF TypeOK
<1>3. (IF NextEvent(w).once THEN plan[w].seen \cup {NextEvent(w).key} ELSE plan[w].seen) \in SUBSET Keys
  BY <1>1, <1>2 DEF Event, Plan
<1>4. /\ plan[w].skip \in BOOLEAN
      /\ plan[w].seq + 1 \in Nat
      /\ plan[w].written + 1 \in Nat
  BY <1>2 DEF Plan
<1>. QED
  BY <1>3, <1>4 DEF Advanced, Plan

LEMMA WarnType ==
    ASSUME TypeOK, NEW w \in Writers, Warn(w)
    PROVE  result' \in [Writers -> AppendResult]
BY DEF Warn, TypeOK, AppendResult

LEMMA GotoType ==
    ASSUME TypeOK, NEW w \in Writers, NEW label \in Labels, Goto(w, label)
    PROVE  pc' \in [Writers -> Labels]
BY DEF Goto, TypeOK

\* The changes by hand keep the log a sequence of lines.
LEMMA ByHandType ==
    ASSUME TypeOK, ByHand
    PROVE  log' \in Seq(Line) /\ fresh' \in Nat \ {0}
<1>1. CASE EditLine
  <2>1. PICK i \in DOMAIN log, k \in Keys : log' = [log EXCEPT ![i].kind = "edited", ![i].key = k]
    BY <1>1 DEF EditLine
  <2>. DEFINE edited == [log[i] EXCEPT !.kind = "edited", !.key = k]
  <2>2. log[i] \in Line /\ i \in 1..Len(log)
    BY DEF TypeOK
  <2>3. edited \in Line
    BY <2>2 DEF Line, Kinds
  <2>4. log' = [log EXCEPT ![i] = edited]
    BY <2>1, <2>2 DEF TypeOK, Line
  <2>5. log \in Seq(Line)
    BY DEF TypeOK
  <2>. HIDE DEF edited
  <2>6. log' \in Seq(Line)
    BY <2>2, <2>3, <2>4, <2>5, ExceptSeq
  <2>7. fresh' = fresh
    BY <1>1 DEF EditLine
  <2>. QED
    BY <2>6, <2>7 DEF TypeOK
<1>2. CASE DropLine
  <2>1. PICK i \in DOMAIN log : log' = Without(i)
    BY <1>2 DEF DropLine
  <2>2. i \in 1..Len(log) /\ Len(log) \in Nat /\ \A j \in 1..Len(log) : log[j] \in Line
    BY DEF TypeOK
  <2>3. SubSeq(log, 1, i - 1) \in Seq(Line)
    BY <2>2, SubSeqProperties
  <2>4. SubSeq(log, i + 1, Len(log)) \in Seq(Line)
    BY <2>2, SubSeqProperties
  <2>. QED
    BY <1>2, <2>1, <2>3, <2>4, ConcatProperties DEF DropLine, Without, TypeOK
<1>3. CASE SwapLines
  <2>0. Len(log) \in Nat /\ \A j \in 1..Len(log) : log[j] \in Line
    BY DEF TypeOK
  <2>1. PICK i \in 1..(Len(log) - 1) :
            log' = [log EXCEPT ![i] = log[i + 1], ![i + 1] = log[i]]
    BY <1>3 DEF SwapLines
  <2>4. log \in [1..Len(log) -> Line]
    BY LenProperties DEF TypeOK
  <2>5. i \in 1..Len(log) /\ i + 1 \in 1..Len(log)
    BY <2>0
  <2>6. log[i] \in Line /\ log[i + 1] \in Line
    BY <2>0, <2>5
  <2>2. log' \in [1..Len(log) -> Line]
    BY <2>1, <2>4, <2>5, <2>6
  <2>3. log' \in Seq(Line)
    BY <2>0, <2>2, SeqDef
  <2>. QED
    BY <1>3, <2>3 DEF SwapLines, TypeOK
<1>4. CASE RewriteTail
  <2>1. PICK i \in DOMAIN log :
            /\ log' = [j \in 1..(Len(log) - 1) |->
                         IF j < i THEN log[j]
                         ELSE [log[j + 1] EXCEPT
                                 !.digest = fresh + j, !.seq = j,
                                 !.prev = IF j = 1 THEN Genesis
                                          ELSE IF j = i THEN log[j - 1].digest
                                          ELSE fresh + j - 1]]
            /\ fresh' = fresh + Len(log)
    BY <1>4 DEF RewriteTail
  <2>2. Len(log) - 1 \in Nat /\ fresh \in Nat \ {0} /\ \A j \in 1..Len(log) : log[j] \in Line
    BY DEF TypeOK
  <2>3. \A j \in 1..(Len(log) - 1) :
           [log[j + 1] EXCEPT !.digest = fresh + j, !.seq = j,
                              !.prev = IF j = 1 THEN Genesis
                                       ELSE IF j = i THEN log[j - 1].digest
                                       ELSE fresh + j - 1] \in Line
    <3>. SUFFICES ASSUME NEW j \in 1..(Len(log) - 1)
                  PROVE  [log[j + 1] EXCEPT !.digest = fresh + j, !.seq = j,
                              !.prev = IF j = 1 THEN Genesis
                                       ELSE IF j = i THEN log[j - 1].digest
                                       ELSE fresh + j - 1] \in Line
      OBVIOUS
    <3>1. (IF j = 1 THEN Genesis ELSE IF j = i THEN log[j - 1].digest ELSE fresh + j - 1) \in Nat
      <4>1. CASE j = 1
        BY <4>1 DEF Genesis
      <4>2. CASE j # 1
        <5>1. log[j - 1] \in Line
          BY <2>2, <4>2
        <5>. QED
          BY <2>2, <4>2, <5>1 DEF Line
      <4>. QED
        BY <4>1, <4>2
    <3>2. log[j + 1] \in Line /\ j \in Nat /\ fresh + j \in Nat
      BY <2>2
    <3>. QED
      BY <3>1, <3>2 DEF Line
  <2>. DEFINE resealed(j) ==
                [log[j + 1] EXCEPT !.digest = fresh + j, !.seq = j,
                              !.prev = IF j = 1 THEN Genesis
                                       ELSE IF j = i THEN log[j - 1].digest
                                       ELSE fresh + j - 1]
  <2>5. log' = [j \in 1..(Len(log) - 1) |-> IF j < i THEN log[j] ELSE resealed(j)]
    BY <2>1
  <2>6. \A j \in 1..(Len(log) - 1) : resealed(j) \in Line
    BY <2>3
  <2>8. \A j \in 1..(Len(log) - 1) : log[j] \in Line
    BY <2>2
  <2>. HIDE DEF resealed
  <2>4. log' \in [1..(Len(log) - 1) -> Line]
    BY <2>5, <2>6, <2>8
  <2>7. log' \in Seq(Line)
    BY <2>2, <2>4, SeqDef
  <2>9. fresh' \in Nat \ {0}
    <3>1. fresh \in Nat \ {0} /\ Len(log) \in Nat /\ fresh' = fresh + Len(log)
      BY <2>1, LenProperties DEF TypeOK
    <3>. QED
      BY <3>1
  <2>. QED
    BY <2>7, <2>9
<1>. QED
  BY <1>1, <1>2, <1>3, <1>4 DEF ByHand

-----------------------------------------------------------------------------
(***************************************************************************)
(* Type correctness and the lock.  A call writes only while it holds the   *)
(* flock, so nobody touches the partial line it is working on.             *)
(***************************************************************************)

Holding == {"locked", "writing", "partial"}

LockInv == \A w \in Writers : pc[w] \in Holding <=> lock = w

PartialInv == \A w \in Writers : pc[w] = "partial" => Pending(w) /\ ~Skipped(w) /\ log # <<>>

CallInv == TypeOK /\ LockInv /\ PartialInv

USE DEF Holding

LEMMA CallInvInit == Init => CallInv
<1>. SUFFICES ASSUME Init
              PROVE  CallInv
  OBVIOUS
<1>1. NoPlan \in Plan
  BY DEF NoPlan, Plan, Genesis
<1>2. NoAnchor \in [digest: Nat, lines: Seq(Line)]
  BY DEF NoAnchor, Genesis
<1>3. [written |-> 0, warned |-> FALSE] \in AppendResult
  BY DEF AppendResult
<1>4. TypeOK
  BY <1>1, <1>2, <1>3 DEF Init, TypeOK, Labels
<1>5. LockInv /\ PartialInv
  BY AuditAssumption DEF Init, LockInv, PartialInv
<1>. QED
  BY <1>4, <1>5 DEF CallInv

LEMMA CallInvStep == CallInv /\ [Next]_vars => CallInv'
<1>. SUFFICES ASSUME CallInv, [Next]_vars
              PROVE  CallInv'
  OBVIOUS
<1>. USE DEF CallInv
<1>1. ASSUME NEW w \in Writers,
             Open(w) \/ OpenFails(w) \/ Acquire(w) \/ LockTimeout(w) \/ RejectBatch(w) \/ Crash(w)
      PROVE  CallInv'
  <2>1. pc' \in [Writers -> Labels]
    BY <1>1, GotoType DEF Open, OpenFails, Acquire, LockTimeout, RejectBatch, Crash, Labels
  <2>2. result' \in [Writers -> AppendResult]
    BY <1>1, WarnType DEF TypeOK, Open, OpenFails, Acquire, LockTimeout, RejectBatch, Crash
  <2>3. lock' \in Writers \cup {NoWriter}
    BY <1>1 DEF TypeOK, Open, OpenFails, Acquire, LockTimeout, RejectBatch, Crash
  <2>4. UNCHANGED <<log, terminated, fresh, batch, done, plan, tampers, tampering, anchor>>
    BY <1>1 DEF Open, OpenFails, Acquire, LockTimeout, RejectBatch, Crash, fileVars
  <2>5. TypeOK'
    BY <2>1, <2>2, <2>3, <2>4 DEF TypeOK
  <2>6. ASSUME Open(w) \/ OpenFails(w) \/ LockTimeout(w)
        PROVE  LockInv'
    BY <2>6, <2>1 DEF TypeOK, LockInv, Open, OpenFails, LockTimeout, Goto
  <2>7. ASSUME Acquire(w)
        PROVE  LockInv'
    BY <2>7, <2>1, AuditAssumption DEF TypeOK, LockInv, LockFree, Acquire, Goto
  <2>8. ASSUME RejectBatch(w)
        PROVE  LockInv'
    BY <2>8, <2>1, AuditAssumption DEF TypeOK, LockInv, RejectBatch, Goto
  <2>9. ASSUME Crash(w)
        PROVE  LockInv'
    BY <2>9, <2>1, AuditAssumption DEF TypeOK, LockInv, Crash, Goto
  <2>10. LockInv'
    BY <1>1, <2>6, <2>7, <2>8, <2>9
  <2>11. \A v \in Writers : pc'[v] = "partial" => pc[v] = "partial"
    BY <1>1 DEF TypeOK, Open, OpenFails, Acquire, LockTimeout, RejectBatch, Crash, Goto
  <2>12. PartialInv'
    BY <2>4, <2>11 DEF PartialInv, Pending, Skipped, NextEvent
  <2>. QED
    BY <2>5, <2>10, <2>12
<1>2. ASSUME NEW w \in Writers, ReadHead(w)
      PROVE  CallInv'
  <2>1. PICK head \in Heads :
          plan' = [plan EXCEPT ![w] =
                     [seen |-> IF WantsDedupe(w) /\ ~Oversized THEN KeysInLog ELSE {},
                      skip |-> WantsDedupe(w) /\ Oversized,
                      prev |-> head.prev, seq |-> head.seq, written |-> 0]]
    BY <1>2 DEF ReadHead
  <2>2. head \in [prev: Nat, seq: Nat]
    BY HeadsType
  <2>3. (WantsDedupe(w) /\ Oversized) \in BOOLEAN
    OBVIOUS
  <2>4. [seen |-> IF WantsDedupe(w) /\ ~Oversized THEN KeysInLog ELSE {},
         skip |-> WantsDedupe(w) /\ Oversized,
         prev |-> head.prev, seq |-> head.seq, written |-> 0]
           \in Plan
    BY <2>2, <2>3, KeysInLogType DEF Plan
  <2>5. plan' \in [Writers -> Plan]
    BY <2>1, <2>4 DEF TypeOK
  <2>10. pc' \in [Writers -> Labels]
    BY <1>2, GotoType DEF ReadHead, Labels
  <2>11. result' \in [Writers -> AppendResult]
    BY <1>2, WarnType DEF ReadHead, TypeOK
  <2>12. UNCHANGED <<log, terminated, fresh, lock, batch, done, tampers, tampering, anchor>>
    BY <1>2 DEF ReadHead, fileVars
  <2>6. TypeOK'
    BY <2>5, <2>10, <2>11, <2>12 DEF TypeOK
  <2>7. LockInv'
    BY <1>2 DEF TypeOK, LockInv, ReadHead, Goto
  <2>8. \A v \in Writers : pc'[v] = "partial" => v # w /\ pc[v] = "partial" /\ plan'[v] = plan[v]
    BY <1>2, <2>1 DEF TypeOK, ReadHead, Goto
  <2>9. PartialInv'
    BY <1>2, <2>8 DEF TypeOK, PartialInv, Pending, Skipped, NextEvent, ReadHead, fileVars
  <2>. QED
    BY <2>6, <2>7, <2>9
<1>3. ASSUME NEW w \in Writers, SkipEvent(w) \/ Finish(w) \/ WriteFails(w)
      PROVE  CallInv'
  <2>4. pc' \in [Writers -> Labels]
    BY <1>3, GotoType DEF TypeOK, SkipEvent, Finish, WriteFails, Labels
  <2>5. result' \in [Writers -> AppendResult]
    <3>1. CASE Finish(w)
      BY <3>1 DEF Finish, TypeOK, AppendResult, Plan
    <3>2. CASE SkipEvent(w) \/ WriteFails(w)
      BY <3>2, WarnType DEF SkipEvent, WriteFails, TypeOK
    <3>. QED
      BY <1>3, <3>1, <3>2
  <2>6. lock' \in Writers \cup {NoWriter}
    BY <1>3 DEF TypeOK, SkipEvent, Finish, WriteFails
  <2>7. done' \in [Writers -> Nat]
    BY <1>3 DEF TypeOK, SkipEvent, Finish, WriteFails
  <2>8. UNCHANGED <<log, terminated, fresh, batch, plan, tampers, tampering, anchor>>
    BY <1>3 DEF SkipEvent, Finish, WriteFails, fileVars
  <2>1. TypeOK'
    BY <2>4, <2>5, <2>6, <2>7, <2>8 DEF TypeOK
  <2>2. LockInv'
    BY <1>3, AuditAssumption DEF TypeOK, LockInv, SkipEvent, Finish, WriteFails, Goto, fileVars
  <2>3. PartialInv'
    BY <1>3 DEF TypeOK, PartialInv, Pending, Skipped, NextEvent, SkipEvent, Finish, WriteFails, Goto, fileVars
  <2>. QED
    BY <2>1, <2>2, <2>3
<1>4. ASSUME NEW w \in Writers, WriteLine(w)
      PROVE  CallInv'
  <2>1. /\ log' = Append(log, Record(w, "sealed"))
        /\ Record(w, "sealed") \in Line
    <3>1. log' = Append(log, Record(w, "sealed"))
      BY <1>4, ExtendedAppends DEF WriteLine, TypeOK
    <3>2. Record(w, "sealed") \in Line
      BY <1>4, RecordType DEF WriteLine, Kinds
    <3>. QED
      BY <3>1, <3>2
  <2>2. log' \in Seq(Line)
    <3>1. log \in Seq(Line)
      BY DEF TypeOK
    <3>. QED
      BY <2>1, <3>1, AppendProperties
  <2>3. plan' = [plan EXCEPT ![w] = Advanced(w, fresh)]
        /\ Advanced(w, fresh) \in Plan
    BY <1>4, AdvancedType DEF WriteLine, TypeOK
  <2>7. /\ terminated' \in BOOLEAN
        /\ fresh' \in Nat \ {0}
        /\ plan' \in [Writers -> Plan]
        /\ done' \in [Writers -> Nat]
        /\ UNCHANGED <<lock, pc, batch, result, tampers, tampering, anchor>>
    BY <1>4, <2>3 DEF TypeOK, WriteLine
  <2>4. TypeOK'
    BY <2>2, <2>7 DEF TypeOK
  <2>5. LockInv' /\ \A v \in Writers : pc'[v] # "partial"
    BY <1>4 DEF TypeOK, LockInv, WriteLine
  <2>6. PartialInv'
    BY <2>5 DEF PartialInv
  <2>. QED
    BY <2>4, <2>5, <2>6
<1>5. ASSUME NEW w \in Writers, WritePart(w)
      PROVE  CallInv'
  <2>1. PICK kind \in {"torn", "sealed"} : log' = Extended(Record(w, kind))
    BY <1>5 DEF WritePart
  <2>2. /\ log' = Append(log, Record(w, kind))
        /\ Record(w, kind) \in Line
    <3>1. log' = Append(log, Record(w, kind))
      BY <2>1, ExtendedAppends DEF TypeOK
    <3>2. Record(w, kind) \in Line
      BY <1>5, RecordType DEF WritePart, Kinds
    <3>. QED
      BY <3>1, <3>2
  <2>3. log' \in Seq(Line) /\ log' # <<>>
    <3>1. log \in Seq(Line)
      BY DEF TypeOK
    <3>. QED
      BY <2>2, <3>1, AppendProperties
  <2>7. terminated' \in BOOLEAN /\ fresh' \in Nat \ {0}
    <3>1. fresh' = fresh + 1 /\ fresh \in Nat
      BY <1>5 DEF TypeOK, WritePart
    <3>2. terminated' \in BOOLEAN
      BY <1>5 DEF WritePart
    <3>3. fresh' \in Nat \ {0}
      BY <3>1
    <3>. QED
      BY <3>2, <3>3
  <2>9. UNCHANGED <<lock, batch, done, plan, result, tampers, tampering, anchor>>
    BY <1>5 DEF WritePart
  <2>8. pc' \in [Writers -> Labels]
    BY <1>5, GotoType DEF WritePart, Labels
  <2>4. TypeOK'
    BY <2>3, <2>7, <2>8, <2>9 DEF TypeOK
  <2>5. LockInv'
    BY <1>5 DEF TypeOK, LockInv, WritePart, Goto
  <2>6. PartialInv'
    BY <1>5, <2>3 DEF TypeOK, PartialInv, Pending, Skipped, NextEvent, WritePart, Goto
  <2>. QED
    BY <2>4, <2>5, <2>6
<1>6. ASSUME NEW w \in Writers, WriteRest(w)
      PROVE  CallInv'
  <2>1. Pending(w) /\ log # <<>>
    BY <1>6 DEF WriteRest, PartialInv
  <2>2. Record(w, "sealed") \in Line
    BY <2>1, RecordType DEF Kinds
  <2>3. log' \in Seq(Line)
    BY <1>6, <2>1, <2>2, ExceptSeq DEF TypeOK, WriteRest
  <2>4. plan' = [plan EXCEPT ![w] = Advanced(w, fresh)]
        /\ Advanced(w, fresh) \in Plan
    BY <1>6, <2>1, AdvancedType DEF WriteRest, TypeOK
  <2>8. /\ terminated' \in BOOLEAN
        /\ fresh' \in Nat \ {0}
        /\ plan' \in [Writers -> Plan]
        /\ done' \in [Writers -> Nat]
        /\ UNCHANGED <<lock, batch, result, tampers, tampering, anchor>>
    BY <1>6, <2>4 DEF TypeOK, WriteRest
  <2>9. pc' \in [Writers -> Labels]
    BY <1>6, GotoType DEF WriteRest, Labels
  <2>5. TypeOK'
    BY <2>3, <2>8, <2>9 DEF TypeOK
  <2>6. LockInv' /\ \A v \in Writers : pc'[v] # "partial"
    BY <1>6 DEF TypeOK, LockInv, WriteRest, Goto
  <2>7. PartialInv'
    BY <2>6 DEF PartialInv
  <2>. QED
    BY <2>5, <2>6, <2>7
<1>7. CASE KeepAnchor
  <2>1. /\ UNCHANGED <<log, terminated, fresh, lock, pc, batch, done, plan, result, tampers, tampering>>
        /\ anchor' = [digest |-> log[Len(log)].digest, lines |-> log]
    BY <1>7 DEF KeepAnchor, fileVars, callVars
  <2>2. log[Len(log)].digest \in Nat
    <3>1. log # <<>> /\ log \in Seq(Line)
      BY <1>7 DEF KeepAnchor, TypeOK
    <3>2. log[Len(log)] \in Line
      BY <3>1
    <3>. QED
      BY <3>2 DEF Line
  <2>3. TypeOK'
    BY <2>1, <2>2 DEF TypeOK
  <2>4. LockInv' /\ PartialInv'
    BY <2>1 DEF LockInv, PartialInv, Pending, Skipped, NextEvent
  <2>. QED
    BY <2>3, <2>4
<1>8. CASE ByHand
  <2>1. log' \in Seq(Line) /\ fresh' \in Nat \ {0}
    BY <1>8, ByHandType
  <2>2. PICK kind \in {"edit", "drop", "truncate", "swap", "rewrite"} : Tamper(kind)
    BY <1>8 DEF ByHand, EditLine, DropLine, SwapLines, RewriteTail
  <2>3. TypeOK'
    BY <2>1, <2>2 DEF Tamper, TypeOK, callVars
  <2>4. LockInv' /\ \A v \in Writers : pc'[v] \notin Holding
    BY <2>2, AuditAssumption DEF Tamper, LockInv, callVars
  <2>5. PartialInv'
    BY <2>4 DEF PartialInv
  <2>. QED
    BY <2>3, <2>4, <2>5
<1>9. CASE UNCHANGED vars
  BY <1>9 DEF vars, TypeOK, LockInv, PartialInv, Pending, Skipped, NextEvent
<1>. QED
  BY <1>1, <1>2, <1>3, <1>4, <1>5, <1>6, <1>7, <1>8, <1>9 DEF Next, Append_events

LEMMA CallInvAlways == Spec => []CallInv
BY CallInvInit, CallInvStep, PTL DEF Spec

\* Every variable keeps its type (append_events and verify_log).
THEOREM TypeCorrect == Spec => []TypeOK
BY CallInvAlways, PTL DEF CallInv

-----------------------------------------------------------------------------
(***************************************************************************)
(* One chain.  The head a writer read under the lock stays the head of the *)
(* file until it lets go of the lock, also while its own line is half      *)
(* written; so every record it seals continues the chain.                  *)
(***************************************************************************)

SealedUpTo(i) == \A j \in 1..i : log[j].kind = "sealed"

Chain == \A i \in DOMAIN log : SealedUpTo(i) => RecordOK(i)

HeadInv ==
    \A w \in Writers :
        /\ pc[w] = "writing" =>
              /\ plan[w].prev = PrevDigest(Len(log) + 1)
              /\ SealedUpTo(Len(log)) => plan[w].seq = Len(log)
        /\ pc[w] = "partial" =>
              /\ plan[w].prev = PrevDigest(Len(log))
              /\ SealedUpTo(Len(log) - 1) => plan[w].seq + 1 = Len(log)

ChainInv == tampers = 0 => Chain /\ HeadInv

\* A line that continues the chain may be appended to it.
LEMMA ChainAppend ==
    ASSUME TypeOK, Chain, NEW line \in Line, log' = Append(log, line),
           line.prev = PrevDigest(Len(log) + 1),
           SealedUpTo(Len(log)) => line.seq = Len(log) + 1
    PROVE  Chain'
<1>1. /\ Len(log) \in Nat
      /\ Len(log') = Len(log) + 1
      /\ DOMAIN log' = 1..(Len(log) + 1)
      /\ \A j \in 1..Len(log) : log'[j] = log[j]
      /\ log'[Len(log) + 1] = line
  BY DEF TypeOK
<1>. SUFFICES ASSUME NEW i \in 1..(Len(log) + 1), SealedUpTo(i)'
              PROVE  RecordOK(i)'
  BY <1>1 DEF Chain
<1>2. \A j \in 1..i : log'[j].kind = "sealed"
  BY DEF SealedUpTo
<1>3. i \in Nat /\ i <= Len(log) + 1 /\ i >= 1
  BY <1>1
<1>4. log'[i].kind = "sealed"
  BY <1>2, <1>3
<1>5. CASE i \in 1..Len(log)
  <2>1. SealedUpTo(i)
    BY <1>1, <1>2, <1>5 DEF SealedUpTo
  <2>2. RecordOK(i) /\ i \in DOMAIN log
    BY <1>5, <2>1 DEF Chain, TypeOK
  <2>3. PrevDigest(i)' = PrevDigest(i)
    <3>1. CASE i = 1
      BY <3>1 DEF PrevDigest
    <3>2. CASE i # 1
      <4>1. i - 1 \in 1..Len(log)
        BY <1>1, <1>5, <3>2
      <4>. QED
        BY <1>1, <4>1, <3>2 DEF PrevDigest
    <3>. QED
      BY <3>1, <3>2
  <2>. QED
    BY <1>1, <1>5, <2>2, <2>3 DEF RecordOK
<1>6. CASE i = Len(log) + 1
  <2>1. SealedUpTo(Len(log))
    BY <1>1, <1>2, <1>6 DEF SealedUpTo
  <2>2. PrevDigest(i)' = PrevDigest(i)
    <3>1. CASE i = 1
      BY <3>1 DEF PrevDigest
    <3>2. CASE i # 1
      <4>1. i - 1 \in 1..Len(log)
        BY <1>1, <1>6, <3>2
      <4>. QED
        BY <1>1, <4>1, <3>2 DEF PrevDigest
    <3>. QED
      BY <3>1, <3>2
  <2>. QED
    BY <1>1, <1>4, <1>6, <2>1, <2>2 DEF RecordOK
<1>. QED
  BY <1>1, <1>3, <1>5, <1>6

\* The positions of a sequence of n elements: all but the last, and the last.
LEMMA Positions ==
    ASSUME NEW n \in Nat, n >= 1
    PROVE  /\ n \in 1..n
           /\ \A i \in 1..n : i = n \/ i \in 1..(n - 1)
           /\ \A i \in 1..n : i # 1 => i - 1 \in 1..(n - 1)
           /\ \A i \in 1..(n - 1) : i \in 1..n /\ i # n
           /\ \A i \in 1..(n - 1) : \A j \in 1..i : j \in 1..(n - 1)
           /\ \A i \in 1..n : i \in 1..i
OBVIOUS

\* The line that replaces the last one leaves the others in place.
LEMMA ReplaceLast ==
    ASSUME log \in Seq(Line), log # <<>>, NEW line \in Line, log' = [log EXCEPT ![Len(log)] = line]
    PROVE  /\ Len(log') = Len(log)
           /\ DOMAIN log' = 1..Len(log)
           /\ \A j \in 1..(Len(log) - 1) : log'[j] = log[j]
           /\ log'[Len(log)] = line
<1>1. Len(log) \in Nat /\ Len(log) >= 1
  OBVIOUS
<1>2. Len(log) \in 1..Len(log)
  BY <1>1, Positions
<1>3. /\ log' \in Seq(Line)
      /\ Len(log') = Len(log)
      /\ \A j \in 1..Len(log) : log'[j] = IF j = Len(log) THEN line ELSE log[j]
  BY <1>2, ExceptSeq, SMT
<1>4. DOMAIN log' = 1..Len(log)
  BY <1>3
<1>. QED
  BY <1>1, <1>2, <1>3, <1>4, Positions, Zenon

\* A last line that continues the chain may stand in for the last line.
LEMMA ChainReplaceLast ==
    ASSUME TypeOK, Chain, log # <<>>, NEW line \in Line, log' = [log EXCEPT ![Len(log)] = line],
           line.prev = PrevDigest(Len(log)),
           SealedUpTo(Len(log) - 1) => line.seq = Len(log)
    PROVE  Chain'
<1>. DEFINE n == Len(log)
<1>1. n \in Nat /\ n >= 1 /\ DOMAIN log = 1..n
  BY DEF TypeOK
<1>2. DOMAIN log' = 1..n /\ (\A j \in 1..(n - 1) : log'[j] = log[j]) /\ log'[n] = line
  BY ReplaceLast, Zenon DEF TypeOK
<1>3. line.prev = PrevDigest(n) /\ (SealedUpTo(n - 1) => line.seq = n)
  OBVIOUS
<1>. HIDE DEF n
<1>. SUFFICES ASSUME NEW i \in 1..n, SealedUpTo(i)'
              PROVE  RecordOK(i)'
  BY <1>2, Zenon DEF Chain
<1>4. /\ \A j \in 1..i : log'[j].kind = "sealed"
      /\ log'[i].kind = "sealed"
  BY <1>1, Positions, Zenon DEF SealedUpTo
<1>6. PrevDigest(i)' = PrevDigest(i)
  <2>1. CASE i = 1
    BY <2>1, SMT DEF PrevDigest
  <2>2. CASE i # 1
    <3>1. log'[i - 1] = log[i - 1]
      BY <1>1, <1>2, <2>2, Positions, Zenon
    <3>. QED
      BY <3>1, <2>2, SMT DEF PrevDigest
  <2>. QED
    BY <2>1, <2>2, Zenon
<1>7. CASE i \in 1..(n - 1)
  <2>1. SealedUpTo(i)
    BY <1>1, <1>2, <1>4, <1>7, Positions, Zenon DEF SealedUpTo
  <2>2. RecordOK(i)
    BY <1>1, <2>1, Zenon DEF Chain
  <2>. QED
    BY <1>2, <1>6, <1>7, <2>2, Zenon DEF RecordOK
<1>8. CASE i = n
  <2>1. SealedUpTo(n - 1)
    <3>1. \A j \in 1..(n - 1) : j \in 1..n /\ log'[j] = log[j]
      BY <1>1, <1>2, Positions, Zenon
    <3>. QED
      BY <1>4, <1>8, <3>1, Zenon DEF SealedUpTo
  <2>. QED
    BY <1>2, <1>3, <1>4, <1>6, <1>8, <2>1, Zenon DEF RecordOK
<1>. QED
  BY <1>1, <1>7, <1>8, Positions, Zenon

\* A change by hand is counted.
LEMMA ByHandCounts ==
    ASSUME TypeOK, ByHand
    PROVE  tampers' # 0
<1>1. PICK kind \in {"edit", "drop", "truncate", "swap", "rewrite"} : Tamper(kind)
  BY DEF ByHand, EditLine, DropLine, SwapLines, RewriteTail
<1>2. tampers \in Nat /\ tampers' = tampers + 1
  BY <1>1 DEF TypeOK, Tamper
<1>. QED
  BY <1>2

LEMMA ChainInvInit == Init => ChainInv
BY DEF Init, ChainInv, Chain, HeadInv

\* Nobody else is writing while w holds the lock.
LEMMA OnlyHolderWrites ==
    ASSUME CallInv, NEW w \in Writers, pc[w] \in Holding
    PROVE  \A v \in Writers : v # w => pc[v] \notin Holding
BY DEF CallInv, LockInv

\* The steps that leave the file alone and read nothing from it.
Quiet(w) ==
    \/ Open(w) \/ OpenFails(w) \/ Acquire(w) \/ LockTimeout(w) \/ RejectBatch(w)
    \/ SkipEvent(w) \/ Finish(w) \/ WriteFails(w) \/ Crash(w)

LEMMA QuietStep ==
    ASSUME CallInv, NEW w \in Writers, Quiet(w)
    PROVE  /\ UNCHANGED <<log, fresh, batch, plan, tampers>>
           /\ \A v \in Writers : pc'[v] \in {"writing", "partial"} => pc'[v] = pc[v]
<1>1. UNCHANGED <<log, fresh, batch, plan, tampers>>
  BY DEF Quiet, Open, OpenFails, Acquire, LockTimeout, RejectBatch, SkipEvent, Finish,
         WriteFails, Crash, fileVars
<1>2. \A v \in Writers : pc'[v] \in {"writing", "partial"} => pc'[v] = pc[v]
  BY DEF CallInv, TypeOK, Quiet, Open, OpenFails, Acquire, LockTimeout, RejectBatch, SkipEvent,
         Finish, WriteFails, Crash, Goto
<1>. QED
  BY <1>1, <1>2

\* Under the lock the head is that of the last line; when every line is sealed,
\* its sequence number is the length of the log.
LEMMA HeadRead ==
    ASSUME TypeOK, Chain, NEW head \in Heads
    PROVE  /\ head.prev = PrevDigest(Len(log) + 1)
           /\ SealedUpTo(Len(log)) => head.seq = Len(log)
<1>1. CASE log = <<>>
  BY <1>1 DEF Heads, PrevDigest
<1>2. CASE log # <<>>
  <2>1. Len(log) \in Nat /\ Len(log) >= 1 /\ DOMAIN log = 1..Len(log)
    BY <1>2 DEF TypeOK
  <2>2. Len(log) + 1 # 1 /\ (Len(log) + 1) - 1 = Len(log) /\ Len(log) \in 1..Len(log)
    BY <2>1
  <2>3. PrevDigest(Len(log) + 1) = log[Len(log)].digest
    BY <2>2 DEF PrevDigest
  <2>4. head.prev = log[Len(log)].digest
    BY <1>2 DEF Heads
  <2>5. ASSUME SealedUpTo(Len(log))
        PROVE  head.seq = Len(log)
    <3>1. log[Len(log)].kind = "sealed"
      BY <2>2, <2>5 DEF SealedUpTo
    <3>2. log[Len(log)].seq = Len(log)
      BY <2>1, <2>2, <2>5 DEF Chain, RecordOK
    <3>. QED
      BY <1>2, <3>1, <3>2 DEF Heads, Damaged
  <2>. QED
    BY <2>3, <2>4, <2>5
<1>. QED
  BY <1>1, <1>2

LEMMA ChainInvStep ==
    ASSUME CallInv, CallInv', ChainInv, [Next]_vars
    PROVE  ChainInv'
<1>. SUFFICES ASSUME tampers' = 0
              PROVE  Chain' /\ HeadInv'
  BY DEF ChainInv
<1>. USE DEF CallInv
<1>0. ~ByHand
  BY ByHandCounts
<1>10. tampers = 0
  BY <1>0 DEF Next, Append_events, Open, OpenFails, Acquire, LockTimeout, ReadHead, RejectBatch,
         SkipEvent, WriteLine, WritePart, WriteRest, Finish, WriteFails, Crash, KeepAnchor, vars
<1>11. Chain /\ HeadInv
  BY <1>10 DEF ChainInv
<1>1. ASSUME NEW w \in Writers, Quiet(w)
      PROVE  Chain' /\ HeadInv'
  BY <1>11, <1>1, QuietStep DEF Chain, HeadInv, SealedUpTo, RecordOK, PrevDigest
<1>2. ASSUME NEW w \in Writers, ReadHead(w)
      PROVE  Chain' /\ HeadInv'
  <2>1. PICK head \in Heads :
          plan' = [plan EXCEPT ![w] =
                     [seen |-> IF WantsDedupe(w) /\ ~Oversized THEN KeysInLog ELSE {},
                      skip |-> WantsDedupe(w) /\ Oversized,
                      prev |-> head.prev, seq |-> head.seq, written |-> 0]]
    BY <1>2 DEF ReadHead
  <2>2. plan'[w].prev = head.prev /\ plan'[w].seq = head.seq
    BY <2>1 DEF TypeOK
  <2>3. log' = log /\ pc' = [pc EXCEPT ![w] = "writing"] /\ pc[w] = "locked"
    BY <1>2 DEF ReadHead, Goto, fileVars
  <2>4. pc'[w] = "writing" /\ \A v \in Writers : v # w => pc'[v] = pc[v] /\ pc[v] \notin Holding
    BY <2>3, OnlyHolderWrites DEF TypeOK
  <2>5. HeadInv'
    BY <1>11, <2>2, <2>3, <2>4, HeadRead DEF HeadInv, SealedUpTo, PrevDigest
  <2>6. Chain'
    BY <1>11, <2>3 DEF Chain, SealedUpTo, RecordOK, PrevDigest
  <2>. QED
    BY <2>5, <2>6
<1>3. ASSUME NEW w \in Writers, WriteLine(w)
      PROVE  Chain' /\ HeadInv'
  <2>. DEFINE line == Record(w, "sealed")
  <2>1. log' = Append(log, line) /\ line \in Line
    BY <1>3, ExtendedAppends, RecordType DEF WriteLine, TypeOK, Kinds
  <2>2. /\ line.prev = PrevDigest(Len(log) + 1)
        /\ SealedUpTo(Len(log)) => line.seq = Len(log) + 1
        /\ line.digest = fresh /\ line.seq = plan[w].seq + 1
    BY <1>11, <1>3 DEF WriteLine, HeadInv, Record
  <2>3. plan'[w].prev = fresh /\ plan'[w].seq = plan[w].seq + 1
    BY <1>3 DEF WriteLine, Advanced, TypeOK
  <2>4. pc' = pc /\ pc[w] = "writing" /\ \A v \in Writers : v # w => pc[v] \notin Holding
    BY <1>3, OnlyHolderWrites DEF WriteLine
  <2>. HIDE DEF line
  <2>5. Chain'
    BY <1>11, <2>1, <2>2, ChainAppend
  <2>6. HeadInv'
    <3>1. PICK n \in Nat : n = Len(log)
      BY DEF TypeOK
    <3>2. /\ Len(log') = n + 1
          /\ \A j \in 1..n : log'[j] = log[j]
          /\ log'[n + 1] = line
      BY <2>1, <3>1 DEF TypeOK
    <3>3. PrevDigest(n + 1 + 1)' = fresh
      BY <2>2, <3>2 DEF PrevDigest
    <3>4. SealedUpTo(n + 1)' => SealedUpTo(n)
      BY <3>2 DEF SealedUpTo
    <3>5. /\ plan'[w].prev = PrevDigest(Len(log) + 1)'
          /\ SealedUpTo(Len(log))' => plan'[w].seq = Len(log)'
      BY <2>2, <2>3, <3>1, <3>2, <3>3, <3>4
    <3>. QED
      BY <2>4, <3>5 DEF HeadInv
  <2>. QED
    BY <2>5, <2>6
<1>4. ASSUME NEW w \in Writers, WritePart(w)
      PROVE  Chain' /\ HeadInv'
  <2>1. PICK kind \in {"torn", "sealed"} : log' = Extended(Record(w, kind))
    BY <1>4 DEF WritePart
  <2>. DEFINE line == Record(w, kind)
  <2>2. log' = Append(log, line) /\ line \in Line
    BY <1>4, <2>1, ExtendedAppends, RecordType DEF WritePart, TypeOK, Kinds
  <2>3. /\ line.prev = PrevDigest(Len(log) + 1)
        /\ SealedUpTo(Len(log)) => line.seq = Len(log) + 1
    BY <1>11, <1>4 DEF WritePart, HeadInv, Record
  <2>4. /\ plan' = plan
        /\ plan[w].prev = PrevDigest(Len(log) + 1)
        /\ SealedUpTo(Len(log)) => plan[w].seq = Len(log)
    BY <1>11, <1>4 DEF WritePart, HeadInv
  <2>5. pc' = [pc EXCEPT ![w] = "partial"] /\ pc[w] = "writing"
    BY <1>4 DEF WritePart, Goto
  <2>6. pc'[w] = "partial" /\ \A v \in Writers : v # w => pc'[v] = pc[v] /\ pc[v] \notin Holding
    BY <2>5, OnlyHolderWrites DEF TypeOK
  <2>. HIDE DEF line
  <2>7. Chain'
    BY <1>11, <2>2, <2>3, ChainAppend
  <2>8. HeadInv'
    <3>1. PICK n \in Nat : n = Len(log)
      BY DEF TypeOK
    <3>2. Len(log') = n + 1 /\ \A j \in 1..n : log'[j] = log[j]
      BY <2>2, <3>1 DEF TypeOK
    <3>3. PrevDigest(n + 1)' = PrevDigest(n + 1)
      <4>1. CASE n = 0
        BY <4>1 DEF PrevDigest
      <4>2. CASE n # 0
        BY <3>2, <4>2 DEF PrevDigest
      <4>. QED
        BY <4>1, <4>2
    <3>4. SealedUpTo(n)' => SealedUpTo(n)
      BY <3>2 DEF SealedUpTo
    <3>5. n + 1 - 1 = n
      OBVIOUS
    <3>6. /\ plan'[w].prev = PrevDigest(Len(log))'
          /\ SealedUpTo(Len(log) - 1)' => plan'[w].seq + 1 = Len(log)'
      BY <2>4, <3>1, <3>2, <3>3, <3>4, <3>5
    <3>. QED
      BY <2>6, <3>6 DEF HeadInv
  <2>. QED
    BY <2>7, <2>8
<1>5. ASSUME NEW w \in Writers, WriteRest(w)
      PROVE  Chain' /\ HeadInv'
  <2>. DEFINE line == Record(w, "sealed")
  <2>1. pc[w] = "partial" /\ log # <<>> /\ Pending(w)
    BY <1>5 DEF WriteRest, PartialInv
  <2>2. log' = [log EXCEPT ![Len(log)] = line] /\ line \in Line
    BY <1>5, <2>1, RecordType DEF WriteRest, Kinds
  <2>3. /\ line.prev = PrevDigest(Len(log))
        /\ SealedUpTo(Len(log) - 1) => line.seq = Len(log)
        /\ line.digest = fresh /\ line.seq = plan[w].seq + 1
    BY <1>11, <2>1 DEF HeadInv, Record
  <2>4. plan'[w].prev = fresh /\ plan'[w].seq = plan[w].seq + 1
    BY <1>5 DEF WriteRest, Advanced, TypeOK
  <2>5. pc' = [pc EXCEPT ![w] = "writing"]
    BY <1>5 DEF WriteRest, Goto
  <2>6. pc'[w] = "writing" /\ \A v \in Writers : v # w => pc'[v] = pc[v] /\ pc[v] \notin Holding
    BY <2>1, <2>5, OnlyHolderWrites DEF TypeOK
  <2>. HIDE DEF line
  <2>7. Chain'
    BY <1>11, <2>1, <2>2, <2>3, ChainReplaceLast
  <2>8. HeadInv'
    <3>1. PICK n \in Nat : n = Len(log) /\ n >= 1
      BY <2>1 DEF TypeOK
    <3>2. Len(log') = n /\ (\A j \in 1..(n - 1) : log'[j] = log[j]) /\ log'[n] = line
      BY <2>1, <2>2, <3>1, ReplaceLast, Zenon DEF TypeOK
    <3>3. PrevDigest(n + 1)' = fresh
      <4>1. n + 1 # 1 /\ (n + 1) - 1 = n
        BY <3>1
      <4>. QED
        BY <2>3, <3>2, <4>1 DEF PrevDigest
    <3>4. SealedUpTo(n)' => SealedUpTo(n - 1)
      <4>1. \A j \in 1..(n - 1) : j \in 1..n
        BY <3>1, Positions
      <4>. QED
        BY <3>2, <4>1 DEF SealedUpTo
    <3>5. /\ plan'[w].prev = PrevDigest(Len(log) + 1)'
          /\ SealedUpTo(Len(log))' => plan'[w].seq = Len(log)'
      BY <2>3, <2>4, <3>1, <3>2, <3>3, <3>4
    <3>. QED
      BY <2>6, <3>5 DEF HeadInv
  <2>. QED
    BY <2>7, <2>8
<1>6. CASE KeepAnchor \/ UNCHANGED vars
  BY <1>11, <1>6 DEF KeepAnchor, vars, fileVars, callVars, Chain, HeadInv, SealedUpTo, RecordOK, PrevDigest
<1>. QED
  BY <1>0, <1>1, <1>2, <1>3, <1>4, <1>5, <1>6 DEF Next, Append_events, Quiet

LEMMA ChainInvAlways == Spec => []ChainInv
<1>1. CallInv /\ CallInv' /\ ChainInv /\ [Next]_vars => ChainInv'
  BY ChainInvStep
<1>. QED
  BY <1>1, ChainInvInit, CallInvAlways, PTL DEF Spec

\* Appends extend one chain, whoever is interrupted where: verify accepts every
\* record before the first damaged line (append_events, docs/audit-log.md).
THEOREM OneChain == Spec => []ChainExtended
<1>1. ChainInv => ChainExtended
  BY DEF ChainInv, Chain, SealedUpTo, ChainExtended
<1>. QED
  BY <1>1, ChainInvAlways, PTL

-----------------------------------------------------------------------------
(***************************************************************************)
(* What a step that is no change by hand does to the file.                 *)
(***************************************************************************)

FileKept == log' = log /\ fresh' = fresh

LineAdded ==
    \E w \in Writers, line \in Line :
        /\ pc[w] = "writing"
        /\ log' = Append(log, line)
        /\ fresh' = fresh + 1
        /\ line.digest = fresh /\ line.prev = plan[w].prev

LineCompleted ==
    \E w \in Writers, line \in Line :
        /\ pc[w] = "partial" /\ log # <<>>
        /\ log' = [log EXCEPT ![Len(log)] = line]
        /\ fresh' = fresh + 1
        /\ line.digest = fresh /\ line.prev = plan[w].prev

LEMMA FileStep ==
    ASSUME CallInv, [Next]_vars, ~ByHand
    PROVE  /\ FileKept \/ LineAdded \/ LineCompleted
           /\ FileKept => \A w \in Writers : pc'[w] = "partial" => pc[w] = "partial"
           /\ LineCompleted => \A w \in Writers : pc'[w] # "partial"
<1>1. ASSUME NEW w \in Writers, Quiet(w)
      PROVE  FileKept /\ \A v \in Writers : pc'[v] = "partial" => pc[v] = "partial"
  BY <1>1, QuietStep DEF FileKept
<1>2. ASSUME NEW w \in Writers, ReadHead(w)
      PROVE  FileKept /\ \A v \in Writers : pc'[v] = "partial" => pc[v] = "partial"
  BY <1>2 DEF CallInv, TypeOK, ReadHead, Goto, fileVars, FileKept
<1>3. ASSUME NEW w \in Writers, WriteLine(w) \/ WritePart(w)
      PROVE  LineAdded /\ fresh' # fresh /\ \A v \in Writers : pc[v] # "partial"
  <2>1. PICK kind \in {"torn", "sealed"} : log' = Extended(Record(w, kind))
    BY <1>3 DEF WriteLine, WritePart
  <2>2. Pending(w) /\ fresh' = fresh + 1 /\ pc[w] = "writing"
    BY <1>3 DEF WriteLine, WritePart
  <2>3. Record(w, kind) \in Line
    BY <2>2, RecordType DEF CallInv, Kinds
  <2>4. log' = Append(log, Record(w, kind))
    BY <2>1, ExtendedAppends DEF CallInv, TypeOK
  <2>5. Record(w, kind).digest = fresh /\ Record(w, kind).prev = plan[w].prev
    BY DEF Record
  <2>6. LineAdded
    BY <2>2, <2>3, <2>4, <2>5 DEF LineAdded
  <2>7. fresh \in Nat
    BY DEF CallInv, TypeOK
  <2>8. fresh' # fresh
    BY <2>2, <2>7
  <2>9. \A v \in Writers : pc[v] # "partial"
    BY <2>2, OnlyHolderWrites
  <2>. QED
    BY <2>6, <2>8, <2>9
<1>4. ASSUME NEW w \in Writers, WriteRest(w)
      PROVE  LineCompleted /\ fresh' # fresh /\ \A v \in Writers : pc'[v] # "partial"
  <2>1. /\ pc[w] = "partial" /\ log # <<>> /\ Pending(w) /\ fresh' = fresh + 1
        /\ pc' = [pc EXCEPT ![w] = "writing"]
        /\ log' = [log EXCEPT ![Len(log)] = Record(w, "sealed")]
    BY <1>4 DEF CallInv, PartialInv, WriteRest, Goto
  <2>2. Record(w, "sealed") \in Line
    BY <2>1, RecordType DEF CallInv, Kinds
  <2>3. Record(w, "sealed").digest = fresh /\ Record(w, "sealed").prev = plan[w].prev
    BY DEF Record
  <2>4. LineCompleted
    BY <2>1, <2>2, <2>3 DEF LineCompleted
  <2>5. \A v \in Writers : v # w => pc[v] \notin Holding
    BY <2>1, OnlyHolderWrites
  <2>6. \A v \in Writers : pc'[v] # "partial"
    BY <2>1, <2>5 DEF CallInv, TypeOK
  <2>7. fresh \in Nat
    BY DEF CallInv, TypeOK
  <2>8. fresh' # fresh
    BY <2>1, <2>7
  <2>. QED
    BY <2>4, <2>6, <2>8
<1>5. ASSUME KeepAnchor \/ UNCHANGED vars
      PROVE  FileKept /\ pc' = pc
  BY <1>5 DEF KeepAnchor, vars, fileVars, callVars, FileKept
<1>6. LineAdded => ~LineCompleted
  <2>. SUFFICES ASSUME LineAdded, LineCompleted
                PROVE  FALSE
    OBVIOUS
  <2>1. log \in Seq(Line)
    BY DEF CallInv, TypeOK
  <2>2. Len(log') = Len(log) + 1 /\ Len(log) \in Nat
    BY <2>1 DEF LineAdded
  <2>3. Len(log') = Len(log)
    BY <2>1, ReplaceLast DEF LineCompleted
  <2>. QED
    BY <2>2, <2>3
<1>7. ASSUME LineCompleted
      PROVE  fresh' # fresh
  <2>1. fresh \in Nat
    BY DEF CallInv, TypeOK
  <2>. QED
    BY <1>7, <2>1 DEF LineCompleted
<1>. QED
  BY <1>1, <1>2, <1>3, <1>4, <1>5, <1>6, <1>7 DEF Next, Append_events, Quiet, FileKept

\* The digest in front of a line whose predecessor stays.
LEMMA PrevKept ==
    ASSUME NEW n \in Nat, \A j \in 1..n : log'[j] = log[j], NEW i \in 1..(n + 1)
    PROVE  PrevDigest(i)' = PrevDigest(i)
<1>1. i # 1 => i - 1 \in 1..n
  OBVIOUS
<1>. QED
  BY <1>1 DEF PrevDigest

\* What is left when line i is deleted.
LEMMA WithoutLines ==
    ASSUME log \in Seq(Line), NEW n \in Nat, n = Len(log), NEW i \in 1..n, log' = Without(i)
    PROVE  /\ DOMAIN log' = 1..(n - 1)
           /\ \A j \in 1..(n - 1) : log'[j] = IF j < i THEN log[j] ELSE log[j + 1]
<1>1. /\ Len(SubSeq(log, 1, i - 1)) = i - 1 /\ Len(SubSeq(log, i + 1, n)) = n - i
      /\ \A j \in 1..(i - 1) : SubSeq(log, 1, i - 1)[j] = log[j]
      /\ \A j \in 1..(n - i) : SubSeq(log, i + 1, n)[j] = log[i + j]
      /\ SubSeq(log, 1, i - 1) \in Seq(Line) /\ SubSeq(log, i + 1, n) \in Seq(Line)
  OBVIOUS
<1>. DEFINE before == SubSeq(log, 1, i - 1)
            after == SubSeq(log, i + 1, n)
<1>2. log' = before \o after
  BY DEF Without
<1>3. /\ before \in Seq(Line) /\ after \in Seq(Line)
      /\ Len(before) = i - 1 /\ Len(after) = n - i
      /\ \A j \in 1..(i - 1) : before[j] = log[j]
      /\ \A j \in 1..(n - i) : after[j] = log[i + j]
  BY <1>1
<1>. HIDE DEF before, after
<1>4. Len(log') = Len(before) + Len(after) /\ log' \in Seq(Line)
  BY <1>2, <1>3, ConcatProperties
<1>5. \A j \in 1..(Len(before) + Len(after)) :
         log'[j] = IF j <= Len(before) THEN before[j] ELSE after[j - Len(before)]
  BY <1>2, <1>3, ConcatProperties
<1>6. \A j \in 1..(n - 1) : j \in 1..((i - 1) + (n - i))
  OBVIOUS
<1>7. \A j \in 1..(n - 1) : log'[j] = IF j <= i - 1 THEN before[j] ELSE after[j - (i - 1)]
  BY <1>3, <1>5, <1>6
<1>8. DOMAIN log' = 1..(n - 1)
  BY <1>3, <1>4
<1>9. ASSUME NEW j \in 1..(n - 1)
      PROVE  log'[j] = IF j < i THEN log[j] ELSE log[j + 1]
  <2>1. CASE j < i
    <3>1. j \in 1..(i - 1)
      BY <2>1
    <3>. QED
      BY <1>3, <1>7, <2>1, <3>1
  <2>2. CASE ~(j < i)
    <3>1. j - (i - 1) \in 1..(n - i) /\ i + (j - (i - 1)) = j + 1 /\ ~(j <= i - 1)
      BY <2>2
    <3>. QED
      BY <1>3, <1>7, <2>2, <3>1
  <2>. QED
    BY <2>1, <2>2
<1>. QED
  BY <1>8, <1>9

-----------------------------------------------------------------------------
(***************************************************************************)
(* Damage stays.  A line is judged by itself and the digest in front of    *)
(* it, and an append touches neither.                                      *)
(***************************************************************************)

\* Appending a line changes nothing about the lines before it.
LEMMA AppendKeeps ==
    ASSUME log \in Seq(Line), NEW line, log' = Append(log, line), NEW i \in DOMAIN log
    PROVE  RecordOK(i)' <=> RecordOK(i)
<1>1. PICK n \in Nat : n = Len(log)
  OBVIOUS
<1>2. DOMAIN log = 1..n /\ \A j \in 1..n : log'[j] = log[j]
  BY <1>1
<1>3. i # 1 => i - 1 \in 1..n
  BY <1>2
<1>4. PrevDigest(i)' = PrevDigest(i)
  BY <1>2, <1>3 DEF PrevDigest
<1>. QED
  BY <1>2, <1>4 DEF RecordOK

\* While no line is half written, an uncounted step leaves the file as it is or
\* adds a line to it.
LEMMA OnlyAppends ==
    ASSUME CallInv, [Next]_vars, tampers' = tampers, \A w \in Writers : pc[w] # "partial"
    PROVE  log' = log \/ \E line : log' = Append(log, line)
<1>1. ~ByHand
  <2>1. ByHand => tampers' = tampers + 1
    BY DEF ByHand, EditLine, DropLine, SwapLines, RewriteTail, Tamper
  <2>2. tampers \in Nat
    BY DEF CallInv, TypeOK
  <2>. QED
    BY <2>1, <2>2
<1>. QED
  BY <1>1, FileStep DEF FileKept, LineAdded, LineCompleted

LEMMA DamageStep ==
    ASSUME CallInv, [Next]_vars, NEW i \in DOMAIN log, FirstBroken(i),
           tampers' = tampers, \A w \in Writers : pc[w] # "partial"
    PROVE  FirstBroken(i)'
<1>1. CASE log' = log
  BY <1>1 DEF FirstBroken, RecordOK, PrevDigest
<1>2. ASSUME NEW line, log' = Append(log, line)
      PROVE  FirstBroken(i)'
  <2>1. PICK n \in Nat : n = Len(log)
    BY DEF CallInv, TypeOK
  <2>2. DOMAIN log = 1..n /\ DOMAIN log' = 1..(n + 1)
    BY <1>2, <2>1 DEF CallInv, TypeOK
  <2>3. i \in DOMAIN log' /\ \A j \in 1..(i - 1) : j \in DOMAIN log
    BY <2>2
  <2>4. \A j \in DOMAIN log : RecordOK(j)' <=> RecordOK(j)
    BY <1>2, AppendKeeps DEF CallInv, TypeOK
  <2>. QED
    BY <2>3, <2>4 DEF FirstBroken
<1>. QED
  BY <1>1, <1>2, OnlyAppends

\* Once verify names a line that no write is still working on, it names that
\* line after whatever the calls do next (verify_log, docs/audit-log.md).
THEOREM DamageForGood == Spec => DamageStays
<1>1. CallInv /\ [Next]_vars =>
        [\A i \in DOMAIN log :
           /\ FirstBroken(i)
           /\ \A w \in Writers : pc[w] # "partial"
           /\ tampers' = tampers
           => FirstBroken(i)']_vars
  BY DamageStep
<1>. QED
  BY <1>1, CallInvAlways, PTL DEF Spec, DamageStays

-----------------------------------------------------------------------------
(***************************************************************************)
(* Digests.  No two lines of the file share one, none is that of the       *)
(* genesis, and those to come are new.                                     *)
(***************************************************************************)

DigestInv ==
    /\ \A i \in DOMAIN log : log[i].digest > 0 /\ log[i].digest < fresh
    /\ \A i, j \in DOMAIN log : log[i].digest = log[j].digest => i = j

LEMMA DigestInvInit == Init => DigestInv
BY DEF Init, DigestInv

LEMMA DigestInvStep ==
    ASSUME CallInv, DigestInv, [Next]_vars
    PROVE  DigestInv'
<1>. USE DEF CallInv
<1>0. PICK n \in Nat : n = Len(log) /\ DOMAIN log = 1..n
  BY DEF TypeOK
<1>. DEFINE d(i) == log[i].digest
<1>1. fresh \in Nat \ {0} /\ log \in Seq(Line) /\ \A i \in 1..n : d(i) \in Nat /\ d(i) > 0 /\ d(i) < fresh
  <2>1. \A i \in 1..n : log[i] \in Line
    BY <1>0 DEF TypeOK
  <2>2. \A i \in 1..n : d(i) > 0 /\ d(i) < fresh
    BY <1>0 DEF DigestInv
  <2>3. \A i \in 1..n : d(i) \in Nat
    BY <2>1 DEF Line
  <2>. QED
    BY <2>2, <2>3 DEF TypeOK
<1>2. \A i, j \in 1..n : d(i) = d(j) => i = j
  BY <1>0 DEF DigestInv
<1>3. CASE FileKept
  BY <1>3 DEF FileKept, DigestInv
<1>4. CASE LineAdded
  <2>1. PICK line \in Line : log' = Append(log, line) /\ fresh' = fresh + 1 /\ line.digest = fresh
    BY <1>4 DEF LineAdded
  <2>2. DOMAIN log' = 1..(n + 1) /\ (\A i \in 1..n : log'[i] = log[i]) /\ log'[n + 1] = line
    BY <1>0, <1>1, <2>1
  <2>3. \A i \in 1..(n + 1) : log'[i].digest = IF i = n + 1 THEN fresh ELSE d(i)
    BY <2>1, <2>2
  <2>. HIDE DEF d
  <2>. QED
    BY <1>1, <1>2, <2>1, <2>2, <2>3 DEF DigestInv
<1>5. CASE LineCompleted
  <2>1. PICK line \in Line : /\ log' = [log EXCEPT ![Len(log)] = line] /\ log # <<>>
                             /\ fresh' = fresh + 1 /\ line.digest = fresh
    BY <1>5 DEF LineCompleted
  <2>2. DOMAIN log' = 1..n /\ (\A i \in 1..(n - 1) : log'[i] = log[i]) /\ log'[n] = line
    BY <1>0, <1>1, <2>1, ReplaceLast, Zenon
  <2>3. \A i \in 1..n : log'[i].digest = IF i = n THEN fresh ELSE d(i)
    BY <1>0, <2>1, <2>2
  <2>. HIDE DEF d
  <2>. QED
    BY <1>1, <1>2, <2>1, <2>2, <2>3 DEF DigestInv
<1>6. CASE EditLine
  <2>1. PICK i \in DOMAIN log, k \in Keys : log' = [log EXCEPT ![i].kind = "edited", ![i].key = k]
    BY <1>6 DEF EditLine
  <2>2. DOMAIN log' = 1..n /\ \A j \in 1..n : log'[j].digest = d(j)
    BY <1>0, <1>1, <2>1 DEF Line
  <2>3. fresh' = fresh
    BY <1>6 DEF EditLine
  <2>. HIDE DEF d
  <2>. QED
    BY <1>1, <1>2, <2>2, <2>3 DEF DigestInv
<1>7. CASE DropLine
  <2>1. PICK i \in 1..n : log' = Without(i) /\ fresh' = fresh
    BY <1>0, <1>7 DEF DropLine
  <2>2. DOMAIN log' = 1..(n - 1) /\ \A j \in 1..(n - 1) : log'[j] = IF j < i THEN log[j] ELSE log[j + 1]
    BY <1>0, <1>1, <2>1, WithoutLines
  <2>3. \A j \in 1..(n - 1) : log'[j].digest = IF j < i THEN d(j) ELSE d(j + 1)
    BY <2>2
  <2>. HIDE DEF d
  <2>4. \A j \in 1..(n - 1) : j \in 1..n /\ j + 1 \in 1..n
    OBVIOUS
  <2>5. \A j \in 1..(n - 1) : log'[j].digest > 0 /\ log'[j].digest < fresh
    BY <1>1, <2>3, <2>4
  <2>6. \A j, k \in 1..(n - 1) : log'[j].digest = log'[k].digest => j = k
    BY <1>2, <2>1, <2>3, <2>4
  <2>. QED
    BY <2>1, <2>2, <2>5, <2>6 DEF DigestInv
<1>8. CASE SwapLines
  <2>1. PICK i \in 1..(n - 1) : log' = [log EXCEPT ![i] = log[i + 1], ![i + 1] = log[i]]
    BY <1>0, <1>8 DEF SwapLines
  <2>2. fresh' = fresh
    BY <1>8 DEF SwapLines
  <2>3. DOMAIN log' = 1..n
    BY <1>0, <2>1
  <2>4. \A j \in 1..n : log'[j] = IF j = i THEN log[i + 1] ELSE IF j = i + 1 THEN log[i] ELSE log[j]
    BY <1>0, <2>1
  <2>5. \A j \in 1..n : log'[j].digest = IF j = i THEN d(i + 1) ELSE IF j = i + 1 THEN d(i) ELSE d(j)
    BY <2>4
  <2>. HIDE DEF d
  <2>8. i \in 1..n /\ i + 1 \in 1..n
    BY <2>1
  <2>6. \A j \in 1..n : log'[j].digest > 0 /\ log'[j].digest < fresh'
    BY <1>1, <2>2, <2>5, <2>8
  <2>7. \A j, k \in 1..n : log'[j].digest = log'[k].digest => j = k
    BY <1>2, <2>1, <2>5
  <2>. QED
    BY <2>3, <2>6, <2>7 DEF DigestInv
<1>9. CASE RewriteTail
  <2>1. PICK i \in 1..n :
          /\ log' = [j \in 1..(Len(log) - 1) |->
                     IF j < i THEN log[j]
                     ELSE [log[j + 1] EXCEPT
                             !.digest = fresh + j, !.seq = j,
                             !.prev = IF j = 1 THEN Genesis
                                      ELSE IF j = i THEN log[j - 1].digest ELSE fresh + j - 1]]
          /\ fresh' = fresh + Len(log)
    BY <1>0, <1>9 DEF RewriteTail
  <2>2. DOMAIN log' = 1..(n - 1) /\ \A j \in 1..(n - 1) : log'[j] = IF j < i THEN log[j] ELSE [log[j + 1] EXCEPT
                             !.digest = fresh + j, !.seq = j,
                             !.prev = IF j = 1 THEN Genesis
                                      ELSE IF j = i THEN log[j - 1].digest ELSE fresh + j - 1]
    BY <1>0, <2>1
  <2>3. \A j \in 1..(n - 1) : log[j + 1] \in Line
    BY <1>0, <1>1
  <2>4. \A j \in 1..(n - 1) : log'[j].digest = IF j < i THEN d(j) ELSE fresh + j
    <3>. SUFFICES ASSUME NEW j \in 1..(n - 1)
                  PROVE  log'[j].digest = IF j < i THEN d(j) ELSE fresh + j
      OBVIOUS
    <3>1. CASE j < i
      BY <2>2, <3>1
    <3>2. CASE ~(j < i)
      <4>. DEFINE before == IF j = 1 THEN Genesis ELSE IF j = i THEN log[j - 1].digest ELSE fresh + j - 1
      <4>1. log'[j] = [log[j + 1] EXCEPT !.digest = fresh + j, !.seq = j, !.prev = before]
        BY <2>2, <3>2
      <4>. HIDE DEF before
      <4>. QED
        BY <2>3, <3>2, <4>1 DEF Line
    <3>. QED
      BY <3>1, <3>2
  <2>5. fresh' = fresh + n
    BY <1>0, <2>1
  <2>. HIDE DEF d
  <2>6. \A j \in 1..(n - 1) : log'[j].digest > 0 /\ log'[j].digest < fresh'
    BY <1>1, <2>4, <2>5
  <2>7. \A j, k \in 1..(n - 1) : log'[j].digest = log'[k].digest => j = k
    BY <1>1, <1>2, <2>4
  <2>. QED
    BY <2>2, <2>6, <2>7 DEF DigestInv
<1>. QED
  BY <1>3, <1>4, <1>5, <1>6, <1>7, <1>8, <1>9, FileStep DEF ByHand

LEMMA DigestInvAlways == Spec => []DigestInv
<1>1. CallInv /\ DigestInv /\ [Next]_vars => DigestInv'
  BY DigestInvStep
<1>. QED
  BY <1>1, DigestInvInit, CallInvAlways, PTL DEF Spec

-----------------------------------------------------------------------------
(***************************************************************************)
(* Tampering.  Until somebody changes the file, every line names the       *)
(* digest in front of it; as no two digests are equal, a single change     *)
(* leaves a line that does not, and only a write in progress, of which     *)
(* there is none, could replace that line.                                 *)
(***************************************************************************)

Linked == \A i \in DOMAIN log : log[i].prev = PrevDigest(i)

\* A line verify rejects that no write will touch.
Fixed(i) ==
    /\ i \in DOMAIN log
    /\ ~RecordOK(i)
    /\ \A w \in Writers : pc[w] = "partial" => i < Len(log)

Evident == tampering \subseteq {"edit", "drop", "swap"} => \E i : Fixed(i)

TamperInv ==
    /\ tampers = 0 => Linked
    /\ tampers = 1 => Evident

LEMMA TamperInvInit == Init => TamperInv
BY DEF Init, TamperInv, Linked

LEMMA LinkedStep ==
    ASSUME CallInv, HeadInv, Linked, [Next]_vars, ~ByHand
    PROVE  Linked'
<1>. USE DEF CallInv
<1>0. PICK n \in Nat : n = Len(log) /\ DOMAIN log = 1..n
  BY DEF TypeOK
<1>1. CASE FileKept
  BY <1>1 DEF FileKept, Linked, PrevDigest
<1>2. CASE LineAdded
  <2>1. PICK line \in Line : log' = Append(log, line) /\ line.prev = PrevDigest(n + 1)
    BY <1>0, <1>2 DEF LineAdded, HeadInv
  <2>2. DOMAIN log' = 1..(n + 1) /\ (\A i \in 1..n : log'[i] = log[i]) /\ log'[n + 1] = line
    BY <1>0, <2>1 DEF TypeOK
  <2>3. \A i \in 1..(n + 1) : PrevDigest(i)' = PrevDigest(i)
    BY <2>2, PrevKept
  <2>4. \A i \in 1..(n + 1) : i = n + 1 \/ i \in 1..n
    OBVIOUS
  <2>. QED
    BY <1>0, <2>1, <2>2, <2>3, <2>4 DEF Linked
<1>3. CASE LineCompleted
  <2>1. PICK line \in Line : /\ log' = [log EXCEPT ![Len(log)] = line] /\ log # <<>>
                             /\ line.prev = PrevDigest(n)
    BY <1>0, <1>3 DEF LineCompleted, HeadInv
  <2>2. DOMAIN log' = 1..n /\ (\A i \in 1..(n - 1) : log'[i] = log[i]) /\ log'[n] = line
    BY <1>0, <2>1, ReplaceLast, Zenon DEF TypeOK
  <2>3. n - 1 \in Nat /\ (n - 1) + 1 = n /\ \A i \in 1..n : i = n \/ i \in 1..(n - 1)
    BY <1>0, <2>1
  <2>4. \A i \in 1..n : PrevDigest(i)' = PrevDigest(i)
    BY <2>2, <2>3, PrevKept
  <2>. QED
    BY <1>0, <2>1, <2>2, <2>3, <2>4 DEF Linked
<1>. QED
  BY <1>1, <1>2, <1>3, FileStep

\* A line verify rejects stays rejected while the file only grows.
LEMMA FixedStep ==
    ASSUME CallInv, [Next]_vars, ~ByHand, NEW i, Fixed(i)
    PROVE  Fixed(i)'
<1>. USE DEF CallInv
<1>0. PICK n \in Nat : n = Len(log) /\ DOMAIN log = 1..n
  BY DEF TypeOK
<1>1. CASE FileKept
  <2>1. \A w \in Writers : pc'[w] = "partial" => pc[w] = "partial"
    BY <1>1, FileStep
  <2>. QED
    BY <1>1, <2>1 DEF FileKept, Fixed, RecordOK, PrevDigest
<1>2. CASE LineAdded
  <2>1. PICK line : log' = Append(log, line)
    BY <1>2 DEF LineAdded
  <2>2. RecordOK(i)' <=> RecordOK(i)
    BY <2>1, AppendKeeps DEF Fixed, TypeOK
  <2>3. i \in 1..n /\ Len(log') = n + 1 /\ DOMAIN log' = 1..(n + 1)
    BY <1>0, <2>1 DEF Fixed, TypeOK
  <2>. QED
    BY <2>2, <2>3 DEF Fixed
<1>3. CASE LineCompleted
  <2>1. PICK line \in Line : log' = [log EXCEPT ![Len(log)] = line] /\ log # <<>>
    BY <1>3 DEF LineCompleted
  <2>2. i \in 1..n /\ i < n
    BY <1>0, <1>3 DEF LineCompleted, Fixed
  <2>3. DOMAIN log' = 1..n /\ \A j \in 1..(n - 1) : log'[j] = log[j]
    BY <1>0, <2>1, ReplaceLast, Zenon DEF TypeOK
  <2>4. i \in 1..(n - 1) /\ (i # 1 => i - 1 \in 1..(n - 1))
    BY <2>2
  <2>5. PrevDigest(i)' = PrevDigest(i)
    BY <2>3, <2>4 DEF PrevDigest
  <2>6. RecordOK(i)' <=> RecordOK(i)
    BY <2>3, <2>4, <2>5 DEF RecordOK
  <2>7. \A w \in Writers : pc'[w] # "partial"
    BY <1>3, FileStep
  <2>. QED
    BY <2>2, <2>3, <2>6, <2>7 DEF Fixed
<1>. QED
  BY <1>1, <1>2, <1>3, FileStep

\* A first change, by an edit, a deletion inside the log or an exchange.
LEMMA FirstChange ==
    ASSUME CallInv, DigestInv, Linked, ByHand, tampering' \subseteq {"edit", "drop", "swap"}
    PROVE  \E i : Fixed(i)'
<1>. USE DEF CallInv
<1>0. PICK n \in Nat : n = Len(log) /\ DOMAIN log = 1..n
  BY DEF TypeOK
<1>1. \A w \in Writers : pc'[w] # "partial"
  BY AuditAssumption DEF ByHand, EditLine, DropLine, SwapLines, RewriteTail, Tamper, LockInv, callVars
<1>2. CASE EditLine
  <2>1. PICK i \in DOMAIN log, k \in Keys : log' = [log EXCEPT ![i].kind = "edited", ![i].key = k]
    BY <1>2 DEF EditLine
  <2>2. log[i] \in Line
    BY DEF TypeOK
  <2>3. i \in DOMAIN log' /\ log'[i].kind = "edited"
    BY <2>1, <2>2 DEF Line
  <2>. QED
    BY <1>1, <2>3 DEF Fixed, RecordOK
\* The line that follows the deleted one still names it.
<1>3. ASSUME NEW i \in 1..(n - 1), log'[i] = log[i + 1], i \in DOMAIN log',
             i # 1 => log'[i - 1] = log[i - 1]
      PROVE  Fixed(i)'
  <2>1. i + 1 \in 1..n /\ i + 1 # 1 /\ (i + 1) - 1 = i /\ i \in 1..n
    OBVIOUS
  <2>2. log'[i].prev = log[i].digest
    BY <1>0, <1>3, <2>1 DEF Linked, PrevDigest
  <2>3. log[i].digest # PrevDigest(i)'
    <3>1. CASE i = 1
      BY <1>0, <2>1, <3>1 DEF PrevDigest, Genesis, DigestInv
    <3>2. CASE i # 1
      <4>1. i - 1 \in 1..n /\ i - 1 # i
        BY <3>2
      <4>. QED
        BY <1>0, <1>3, <2>1, <3>2, <4>1 DEF PrevDigest, DigestInv
    <3>. QED
      BY <3>1, <3>2
  <2>. QED
    BY <1>1, <1>3, <2>2, <2>3 DEF Fixed, RecordOK
<1>4. CASE DropLine
  <2>1. PICK i \in 1..n : log' = Without(i) /\ (i = n => "truncate" \in tampering')
    BY <1>0, <1>4 DEF DropLine, Tamper
  <2>2. i \in 1..(n - 1)
    BY <2>1
  <2>3. DOMAIN log' = 1..(n - 1) /\ \A j \in 1..(n - 1) : log'[j] = IF j < i THEN log[j] ELSE log[j + 1]
    BY <1>0, <2>1, WithoutLines DEF TypeOK
  <2>4. i \in DOMAIN log' /\ log'[i] = log[i + 1] /\ (i # 1 => log'[i - 1] = log[i - 1])
    BY <2>2, <2>3
  <2>. QED
    BY <1>3, <2>2, <2>4
<1>5. CASE SwapLines
  <2>1. PICK i \in 1..(n - 1) : log' = [log EXCEPT ![i] = log[i + 1], ![i + 1] = log[i]]
    BY <1>0, <1>5 DEF SwapLines
  <2>2. i \in 1..n /\ i # i + 1 /\ i - 1 # i /\ i - 1 # i + 1
    BY <2>1
  <2>3. i \in DOMAIN log' /\ log'[i] = log[i + 1] /\ (i # 1 => log'[i - 1] = log[i - 1])
    BY <1>0, <2>1, <2>2
  <2>. QED
    BY <1>3, <2>3
<1>6. ~RewriteTail
  <2>1. RewriteTail => Tamper("rewrite")
    BY Zenon DEF RewriteTail
  <2>. QED
    BY <2>1 DEF Tamper
<1>. QED
  BY <1>2, <1>4, <1>5, <1>6 DEF ByHand

LEMMA TamperInvStep ==
    ASSUME CallInv, ChainInv, DigestInv, TamperInv, [Next]_vars
    PROVE  TamperInv'
<1>. USE DEF CallInv
<1>0. tampers \in Nat
  BY DEF TypeOK
<1>1. CASE ByHand
  <2>1. tampers' = tampers + 1
    BY <1>1 DEF ByHand, EditLine, DropLine, SwapLines, RewriteTail, Tamper
  <2>2. tampers' # 0 /\ (tampers' = 1 => tampers = 0)
    BY <1>0, <2>1
  <2>. QED
    BY <1>1, <2>2, FirstChange DEF TamperInv, Evident
<1>2. CASE ~ByHand
  <2>1. UNCHANGED <<tampers, tampering>>
    BY <1>2 DEF Next, Append_events, Open, OpenFails, Acquire, LockTimeout, ReadHead, RejectBatch,
         SkipEvent, WriteLine, WritePart, WriteRest, Finish, WriteFails, Crash, KeepAnchor, vars
  <2>2. tampers = 0 => Linked'
    BY <1>2, LinkedStep DEF TamperInv, ChainInv
  <2>3. Evident => Evident'
    BY <1>2, <2>1, FixedStep DEF Evident
  <2>. QED
    BY <2>1, <2>2, <2>3 DEF TamperInv
<1>. QED
  BY <1>1, <1>2

LEMMA TamperInvAlways == Spec => []TamperInv
<1>1. CallInv /\ ChainInv /\ DigestInv /\ TamperInv /\ [Next]_vars => TamperInv'
  BY TamperInvStep
<1>. QED
  BY <1>1, TamperInvInit, CallInvAlways, ChainInvAlways, DigestInvAlways, PTL DEF Spec

\* One edit, deletion inside the log or exchange of neighbours is found by every
\* later verify (verify_log, docs/audit-log.md).
THEOREM TamperingFound == Spec => []TamperDetected
<1>1. TamperInv => TamperDetected
  BY DEF TamperInv, Evident, Fixed, TamperDetected, VerifyOK
<1>. QED
  BY <1>1, TamperInvAlways, PTL

-----------------------------------------------------------------------------
(***************************************************************************)
(* The anchor.  The lines it stands for were a chain; a record of the file *)
(* with the digest of one of them is that line, and a chain that holds the *)
(* last of them leads back through all the others.                         *)
(***************************************************************************)

AnchorInv ==
    /\ anchor # NoAnchor => anchor.lines # <<>> /\ anchor.digest = anchor.lines[Len(anchor.lines)].digest
    /\ \A j \in DOMAIN anchor.lines :
          /\ anchor.lines[j].digest < fresh
          /\ anchor.lines[j].seq = j
          /\ j # 1 => anchor.lines[j].prev = anchor.lines[j - 1].digest
    /\ \A i \in DOMAIN log, j \in DOMAIN anchor.lines :
          log[i].kind = "sealed" /\ log[i].digest = anchor.lines[j].digest => log[i] = anchor.lines[j]

LEMMA AnchorInvInit == Init => AnchorInv
BY DEF Init, AnchorInv, NoAnchor

\* A line of the file after a step is a line it had, or one that does not count
\* as a record, or has a new digest.
LEMMA LinesOfStep ==
    ASSUME CallInv, [Next]_vars
    PROVE  /\ fresh' >= fresh
           /\ \A i \in DOMAIN log' :
                 \/ \E j \in DOMAIN log : log'[i] = log[j]
                 \/ log'[i].kind # "sealed"
                 \/ log'[i].digest >= fresh
<1>. USE DEF CallInv
<1>0. PICK n \in Nat : n = Len(log) /\ DOMAIN log = 1..n
  BY DEF TypeOK
<1>1. log \in Seq(Line) /\ fresh \in Nat /\ \A i \in 1..n : log[i] \in Line
  BY <1>0 DEF TypeOK
<1>. DEFINE old(line) == \E j \in 1..n : line = log[j]
<1>2. \A i \in 1..n : old(log[i])
  OBVIOUS
<1>. DEFINE goal == /\ fresh' >= fresh
                    /\ \A i \in DOMAIN log' : old(log'[i]) \/ log'[i].kind # "sealed" \/ log'[i].digest >= fresh
<1>3. SUFFICES goal
  BY <1>0
<1>4. CASE FileKept
  BY <1>0, <1>1, <1>2, <1>4 DEF FileKept
<1>. HIDE DEF old
<1>5. CASE LineAdded
  <2>1. PICK line \in Line : log' = Append(log, line) /\ fresh' = fresh + 1 /\ line.digest = fresh
    BY <1>5 DEF LineAdded
  <2>2. DOMAIN log' = 1..(n + 1) /\ (\A i \in 1..n : log'[i] = log[i]) /\ log'[n + 1] = line
    BY <1>0, <1>1, <2>1
  <2>3. \A i \in 1..(n + 1) : i = n + 1 \/ i \in 1..n
    OBVIOUS
  <2>. QED
    BY <1>1, <1>2, <2>1, <2>2, <2>3
<1>6. CASE LineCompleted
  <2>1. PICK line \in Line : /\ log' = [log EXCEPT ![Len(log)] = line] /\ log # <<>>
                             /\ fresh' = fresh + 1 /\ line.digest = fresh
    BY <1>6 DEF LineCompleted
  <2>2. DOMAIN log' = 1..n /\ (\A i \in 1..(n - 1) : log'[i] = log[i]) /\ log'[n] = line
    BY <1>0, <1>1, <2>1, ReplaceLast, Zenon
  <2>3. \A i \in 1..n : i = n \/ i \in 1..(n - 1)
    OBVIOUS
  <2>. QED
    BY <1>1, <1>2, <2>1, <2>2, <2>3
<1>7. CASE EditLine
  <2>1. PICK i \in DOMAIN log, k \in Keys : log' = [log EXCEPT ![i].kind = "edited", ![i].key = k]
    BY <1>7 DEF EditLine
  <2>2. DOMAIN log' = 1..n /\ (\A j \in 1..n : j # i => log'[j] = log[j]) /\ log'[i].kind = "edited"
    BY <1>0, <1>1, <2>1 DEF Line
  <2>3. fresh' = fresh
    BY <1>7 DEF EditLine
  <2>. QED
    BY <1>1, <1>2, <2>2, <2>3
<1>8. CASE DropLine
  <2>1. PICK i \in 1..n : log' = Without(i) /\ fresh' = fresh
    BY <1>0, <1>8 DEF DropLine
  <2>2. DOMAIN log' = 1..(n - 1) /\ \A j \in 1..(n - 1) : log'[j] = IF j < i THEN log[j] ELSE log[j + 1]
    BY <1>0, <1>1, <2>1, WithoutLines
  <2>3. \A j \in 1..(n - 1) : j \in 1..n /\ j + 1 \in 1..n
    OBVIOUS
  <2>. QED
    BY <1>1, <1>2, <2>1, <2>2, <2>3
<1>9. CASE SwapLines
  <2>1. PICK i \in 1..(n - 1) : log' = [log EXCEPT ![i] = log[i + 1], ![i + 1] = log[i]]
    BY <1>0, <1>9 DEF SwapLines
  <2>2. fresh' = fresh
    BY <1>9 DEF SwapLines
  <2>3. i \in 1..n /\ i + 1 \in 1..n
    BY <2>1
  <2>4. /\ DOMAIN log' = 1..n
        /\ \A j \in 1..n : log'[j] = IF j = i THEN log[i + 1] ELSE IF j = i + 1 THEN log[i] ELSE log[j]
    BY <1>0, <2>1
  <2>. QED
    BY <1>1, <1>2, <2>2, <2>3, <2>4
<1>10. CASE RewriteTail
  <2>1. PICK i \in 1..n :
          /\ log' = [j \in 1..(Len(log) - 1) |->
                     IF j < i THEN log[j]
                     ELSE [log[j + 1] EXCEPT
                             !.digest = fresh + j, !.seq = j,
                             !.prev = IF j = 1 THEN Genesis
                                      ELSE IF j = i THEN log[j - 1].digest ELSE fresh + j - 1]]
          /\ fresh' = fresh + Len(log)
    BY <1>0, <1>10 DEF RewriteTail
  <2>2. DOMAIN log' = 1..(n - 1)
    BY <1>0, <2>1
  <2>3. ASSUME NEW j \in 1..(n - 1)
        PROVE  old(log'[j]) \/ log'[j].digest = fresh + j
    <3>1. CASE j < i
      <4>1. j \in 1..n
        OBVIOUS
      <4>2. log'[j] = log[j]
        BY <1>0, <2>1, <3>1
      <4>. QED
        BY <1>2, <4>1, <4>2
    <3>2. CASE ~(j < i)
      <4>. DEFINE before == IF j = 1 THEN Genesis ELSE IF j = i THEN log[j - 1].digest ELSE fresh + j - 1
      <4>1. log'[j] = [log[j + 1] EXCEPT !.digest = fresh + j, !.seq = j, !.prev = before]
        BY <1>0, <2>1, <3>2
      <4>2. log[j + 1] \in Line
        BY <1>1
      <4>. HIDE DEF before
      <4>. QED
        BY <4>1, <4>2 DEF Line
    <3>. QED
      BY <3>1, <3>2
  <2>4. fresh' = fresh + n
    BY <1>0, <2>1
  <2>5. fresh' >= fresh /\ \A j \in 1..(n - 1) : fresh + j >= fresh
    BY <1>1, <2>4
  <2>. QED
    BY <2>2, <2>3, <2>5
<1>. QED
  BY <1>4, <1>5, <1>6, <1>7, <1>8, <1>9, <1>10, FileStep DEF ByHand

LEMMA AnchorInvStep ==
    ASSUME CallInv, CallInv', DigestInv, AnchorInv, [Next]_vars
    PROVE  AnchorInv'
<1>. USE DEF CallInv
<1>0. fresh \in Nat /\ fresh' \in Nat /\ fresh' >= fresh
  BY LinesOfStep DEF TypeOK
<1>1. CASE KeepAnchor
  <2>1. /\ VerifyOK /\ log # <<>> /\ log' = log /\ fresh' = fresh
        /\ anchor' = [digest |-> log[Len(log)].digest, lines |-> log]
    BY <1>1 DEF KeepAnchor, fileVars
  <2>2. \A i \in DOMAIN log : i # 1 => log[i].prev = log[i - 1].digest
    BY <2>1 DEF VerifyOK, RecordOK, PrevDigest
  <2>3. \A i \in DOMAIN log : log[i].digest < fresh /\ log[i].seq = i
    BY <2>1 DEF VerifyOK, RecordOK, DigestInv
  <2>4. \A i, j \in DOMAIN log : log[i].digest = log[j].digest => log[i] = log[j]
    BY DEF DigestInv
  <2>. QED
    BY <2>1, <2>2, <2>3, <2>4 DEF AnchorInv
<1>2. CASE ~KeepAnchor
  <2>1. anchor' = anchor
    <3>1. ASSUME NEW w \in Writers, Append_events(w) \/ Crash(w)
          PROVE  anchor' = anchor
      BY <3>1 DEF Append_events, Open, OpenFails, Acquire, LockTimeout, ReadHead, RejectBatch,
           SkipEvent, WriteLine, WritePart, WriteRest, Finish, WriteFails, Crash
    <3>2. ByHand => anchor' = anchor
      BY DEF ByHand, EditLine, DropLine, SwapLines, RewriteTail, Tamper
    <3>3. UNCHANGED vars => anchor' = anchor
      BY DEF vars
    <3>. QED
      BY <1>2, <3>1, <3>2, <3>3 DEF Next
  <2>2. \A j \in DOMAIN anchor.lines : anchor.lines[j].digest \in Nat
    <3>1. anchor.lines \in Seq(Line)
      BY DEF TypeOK
    <3>2. \A j \in DOMAIN anchor.lines : anchor.lines[j] \in Line
      BY <3>1
    <3>. QED
      BY <3>2 DEF Line
  <2>3. \A i \in DOMAIN log' : log'[i].digest \in Nat
    <3>1. \A i \in DOMAIN log' : log'[i] \in Line
      BY DEF TypeOK
    <3>. QED
      BY <3>1 DEF Line
  <2>4. \A j \in DOMAIN anchor.lines : anchor.lines[j].digest < fresh
    BY DEF AnchorInv
  <2>5. \A j \in DOMAIN anchor.lines : anchor.lines[j].digest < fresh'
    BY <1>0, <2>2, <2>4
  <2>6. ASSUME NEW i \in DOMAIN log', NEW j \in DOMAIN anchor.lines,
               log'[i].kind = "sealed", log'[i].digest = anchor.lines[j].digest
        PROVE  log'[i] = anchor.lines[j]
    <3>1. ~(log'[i].digest >= fresh)
      BY <1>0, <2>3, <2>4, <2>6
    <3>2. PICK k \in DOMAIN log : log'[i] = log[k]
      BY <2>6, <3>1, LinesOfStep
    <3>. QED
      BY <2>6, <3>2 DEF AnchorInv
  <2>. QED
    BY <2>1, <2>5, <2>6 DEF AnchorInv, NoAnchor
<1>. QED
  BY <1>1, <1>2

LEMMA AnchorInvAlways == Spec => []AnchorInv
<1>1. CallInv /\ CallInv' /\ DigestInv /\ AnchorInv /\ [Next]_vars => AnchorInv'
  BY AnchorInvStep
<1>. QED
  BY <1>1, AnchorInvInit, CallInvAlways, DigestInvAlways, PTL DEF Spec

\* A non-empty set of numbers has a smallest element.
LEMMA Least ==
    ASSUME NEW T, T \subseteq Nat, T # {}
    PROVE  \E x \in T : \A y \in T : x <= y
<1>. DEFINE R == OpToRel(<, Nat)
<1>1. IsWellFoundedOn(R, Nat)
  BY NatLessThanWellFounded
<1>2. \A x, y \in Nat : x < y => <<x, y>> \in R
  BY DEF OpToRel
<1>. HIDE DEF R
<1>3. PICK x \in T : \A y \in T : ~ (<<y, x>> \in R)
  BY <1>1, WFMin
<1>4. ASSUME NEW y \in T
      PROVE  x <= y
  <2>1. x \in Nat /\ y \in Nat /\ ~(y < x)
    BY <1>2, <1>3
  <2>. QED
    BY <2>1
<1>. QED
  BY <1>4

\* A non-empty set of positions has a last one.
LEMMA Largest ==
    ASSUME NEW n \in Nat, NEW S, S \subseteq 1..n, S # {}
    PROVE  \E m \in S : \A k \in S : k <= m
<1>. DEFINE T == {n - k : k \in S}
<1>1. \A k \in S : k \in Int /\ n - k \in Nat
  OBVIOUS
<1>2. T \subseteq Nat /\ T # {}
  BY <1>1
<1>3. \A k \in S : n - k \in T
  OBVIOUS
<1>4. \A x \in T : \E k \in S : x = n - k
  OBVIOUS
<1>. HIDE DEF T
<1>5. PICK x \in T : \A y \in T : x <= y
  BY <1>2, Least
<1>6. PICK m \in S : x = n - m
  BY <1>4
<1>7. \A k \in S : n - m <= n - k
  BY <1>3, <1>5, <1>6
<1>. QED
  BY <1>1, <1>7

\* The anchored line is where it was, and so is every line it leads back to.
LEMMA AnchorLeadsBack ==
    ASSUME CallInv, AnchorInv, anchor # NoAnchor, AnchorOK
    PROVE  /\ Len(anchor.lines) <= Len(log)
           /\ \A i \in DOMAIN anchor.lines : log[i] = anchor.lines[i]
<1>. DEFINE kept == anchor.lines
<1>1. PICK n \in Nat : n = Len(log) /\ DOMAIN log = 1..n
  BY DEF CallInv, TypeOK
<1>2. PICK m \in Nat : m = Len(kept) /\ DOMAIN kept = 1..m /\ m >= 1
  <2>1. kept \in Seq(Line) /\ kept # <<>>
    BY DEF CallInv, TypeOK, AnchorInv
  <2>. HIDE DEF kept
  <2>. QED
    BY <2>1
<1>3. \A i \in 1..n : log[i].kind = "sealed" /\ log[i].prev = PrevDigest(i) /\ log[i].seq = i
  BY <1>1 DEF AnchorOK, VerifyOK, RecordOK
<1>4. \A i \in 1..n, j \in 1..m : log[i].digest = kept[j].digest => log[i] = kept[j]
  BY <1>1, <1>2, <1>3 DEF AnchorInv
<1>5. \A j \in 1..m : kept[j].seq = j /\ (j # 1 => kept[j].prev = kept[j - 1].digest)
  BY <1>2 DEF AnchorInv
<1>6. PICK i \in 1..n : log[i].digest = kept[m].digest
  BY <1>1, <1>2 DEF AnchorOK, AnchorInv
<1>. HIDE DEF kept
<1>7. m \in 1..n /\ log[m] = kept[m]
  <2>1. m \in 1..m
    BY <1>2
  <2>2. log[i] = kept[m]
    BY <1>4, <1>6, <2>1
  <2>3. i = m
    BY <1>3, <1>5, <2>1, <2>2
  <2>. QED
    BY <2>2, <2>3
<1>. DEFINE S == {k \in 1..m : log[k] # kept[k]}
<1>8. S = {}
  <2>. SUFFICES ASSUME S # {}
                PROVE  FALSE
    OBVIOUS
  <2>1. PICK k \in S : \A l \in S : l <= k
    BY Largest
  <2>2. k \in 1..m /\ k # m /\ log[k] # kept[k]
    BY <1>7, <2>1
  <2>3. k + 1 \in 1..m /\ ~(k + 1 <= k) /\ k + 1 # 1 /\ (k + 1) - 1 = k /\ k \in 1..n /\ k + 1 \in 1..n
    BY <1>7, <2>2
  <2>4. log[k + 1] = kept[k + 1]
    BY <2>1, <2>3
  <2>5. log[k].digest = kept[k].digest
    BY <1>3, <1>5, <2>3, <2>4 DEF PrevDigest
  <2>. QED
    BY <1>4, <2>2, <2>3, <2>5
<1>. QED
  BY <1>1, <1>2, <1>7, <1>8 DEF kept

\* While verify --anchor accepts the log, every line up to the anchored one is
\* as it was when the anchor was taken (verify_log, docs/audit-log.md).
THEOREM AnchorKept == Spec => []AnchorProtects
<1>1. CallInv /\ AnchorInv => AnchorProtects
  BY AnchorLeadsBack DEF AnchorProtects
<1>. QED
  BY <1>1, CallInvAlways, AnchorInvAlways, PTL

-----------------------------------------------------------------------------
USE DEF Holding

-----------------------------------------------------------------------------
(***************************************************************************)
(* Once.  Between reading the log and letting go of the lock, the keys a   *)
(* call compares its events with hold every suppression record of the      *)
(* file; the line it is working on is the exception.                       *)
(***************************************************************************)

\* Line i is a suppression record with key k.
Records(i, k) == log[i].kind = "sealed" /\ log[i].once /\ log[i].key = k

Once == \A i, j \in DOMAIN log : \A k : Records(i, k) /\ Records(j, k) => i = j

SeenInv ==
    \A w \in Writers :
        (WantsDedupe(w) /\ ~plan[w].skip) =>
            /\ pc[w] = "writing" =>
                  \A i \in DOMAIN log : \A k : Records(i, k) => k \in plan[w].seen
            /\ pc[w] = "partial" =>
                  \A i \in 1..(Len(log) - 1) : \A k : Records(i, k) => k \in plan[w].seen

OnceInv == tampers = 0 => Once /\ SeenInv

\* No line with the key of an event that is written is a suppression record.
LEMMA NextIsNew ==
    ASSUME TypeOK, NEW w \in Writers, Pending(w), ~Skipped(w), NextEvent(w).once
    PROVE  /\ WantsDedupe(w) /\ ~plan[w].skip
           /\ NextEvent(w).key \notin plan[w].seen
<1>1. done[w] + 1 \in DOMAIN batch[w]
  <2>1. batch[w] \in Seq(Event) /\ done[w] \in Nat
    BY AuditAssumption DEF TypeOK
  <2>. QED
    BY <2>1 DEF Pending
<1>. QED
  BY <1>1 DEF Skipped, WantsDedupe, NextEvent

LEMMA OnceInvInit == Init => OnceInv
BY DEF Init, OnceInv, Once, SeenInv

LEMMA OnceInvStep ==
    ASSUME CallInv, CallInv', OnceInv, [Next]_vars
    PROVE  OnceInv'
<1>. SUFFICES ASSUME tampers' = 0
              PROVE  Once' /\ SeenInv'
  BY DEF OnceInv
<1>. USE DEF CallInv
<1>0. ~ByHand
  BY ByHandCounts
<1>10. tampers = 0
  BY <1>0 DEF Next, Append_events, Open, OpenFails, Acquire, LockTimeout, ReadHead, RejectBatch,
         SkipEvent, WriteLine, WritePart, WriteRest, Finish, WriteFails, Crash, KeepAnchor, vars
<1>11. Once /\ SeenInv
  BY <1>10 DEF OnceInv
<1>1. ASSUME NEW w \in Writers, Quiet(w)
      PROVE  Once' /\ SeenInv'
  BY <1>11, <1>1, QuietStep DEF Once, SeenInv, Records, WantsDedupe
<1>2. ASSUME NEW w \in Writers, ReadHead(w)
      PROVE  Once' /\ SeenInv'
  <2>1. /\ plan'[w].seen = IF WantsDedupe(w) /\ ~Oversized THEN KeysInLog ELSE {}
        /\ plan'[w].skip = (WantsDedupe(w) /\ Oversized)
        /\ \A v \in Writers : v # w => plan'[v] = plan[v]
    BY <1>2 DEF ReadHead, TypeOK
  <2>2. UNCHANGED <<log, batch>> /\ pc' = [pc EXCEPT ![w] = "writing"] /\ pc[w] = "locked"
    BY <1>2 DEF ReadHead, Goto, fileVars
  <2>3. pc'[w] = "writing" /\ \A v \in Writers : v # w => pc'[v] = pc[v] /\ pc[v] \notin Holding
    BY <2>2, OnlyHolderWrites DEF TypeOK
  <2>4. \A i \in DOMAIN log : \A k : Records(i, k) => k \in KeysInLog
    BY DEF Records, KeysInLog
  <2>5. ASSUME WantsDedupe(w), ~plan'[w].skip
        PROVE  plan'[w].seen = KeysInLog
    BY <2>1, <2>5
  <2>6. SeenInv'
    BY <2>2, <2>3, <2>4, <2>5 DEF SeenInv, Records, WantsDedupe
  <2>7. Once'
    BY <1>11, <2>2 DEF Once, Records
  <2>. QED
    BY <2>6, <2>7
<1>3. ASSUME NEW w \in Writers, WriteLine(w)
      PROVE  Once' /\ SeenInv'
  <2>. DEFINE line == Record(w, "sealed")
  <2>1. log' = Append(log, line) /\ line \in Line
    BY <1>3, ExtendedAppends, RecordType DEF WriteLine, TypeOK, Kinds
  <2>2. line.once = NextEvent(w).once /\ line.key = NextEvent(w).key
    BY DEF Record
  <2>3. plan'[w].skip = plan[w].skip
        /\ plan'[w].seen = IF NextEvent(w).once THEN plan[w].seen \cup {NextEvent(w).key} ELSE plan[w].seen
    BY <1>3 DEF WriteLine, Advanced, TypeOK
  <2>4. UNCHANGED <<pc, batch>> /\ pc[w] = "writing" /\ \A v \in Writers : v # w => pc[v] \notin Holding
    BY <1>3, OnlyHolderWrites DEF WriteLine
  <2>5. line.once => WantsDedupe(w) /\ ~plan[w].skip /\ line.key \notin plan[w].seen
    BY <1>3, <2>2, NextIsNew DEF WriteLine
  <2>. HIDE DEF line
  <2>6. PICK n \in Nat : n = Len(log)
    BY DEF TypeOK
  <2>7. /\ DOMAIN log = 1..n /\ DOMAIN log' = 1..(n + 1)
        /\ \A j \in 1..n : log'[j] = log[j]
        /\ log'[n + 1] = line
    BY <2>1, <2>6 DEF TypeOK
  <2>8. \A i \in 1..n : \A k : Records(i, k)' <=> Records(i, k)
    BY <2>7 DEF Records
  <2>9. \A k : Records(n + 1, k)' => line.once /\ line.key = k
    BY <2>7 DEF Records
  <2>10. \A i \in 1..(n + 1) : i \in 1..n \/ i = n + 1
    OBVIOUS
  <2>11. \A i \in 1..n : \A k : WantsDedupe(w) /\ ~plan[w].skip /\ Records(i, k) => k \in plan[w].seen
    BY <1>11, <2>4, <2>7 DEF SeenInv
  <2>12. \A i \in 1..n : \A k : ~(Records(i, k)' /\ Records(n + 1, k)')
    BY <2>5, <2>8, <2>9, <2>11
  <2>13. Once'
    BY <1>11, <2>7, <2>8, <2>10, <2>12 DEF Once
  <2>14. WantsDedupe(w)' = WantsDedupe(w)
    BY <2>4 DEF WantsDedupe
  <2>15. \A i \in 1..(n + 1) : \A k :
            (WantsDedupe(w)' /\ ~plan'[w].skip /\ Records(i, k)') => k \in plan'[w].seen
    BY <2>2, <2>3, <2>8, <2>9, <2>10, <2>11, <2>14
  <2>16. SeenInv'
    BY <2>4, <2>7, <2>15 DEF SeenInv
  <2>. QED
    BY <2>13, <2>16
<1>4. ASSUME NEW w \in Writers, WritePart(w)
      PROVE  Once' /\ SeenInv'
  <2>1. PICK kind \in {"torn", "sealed"} : log' = Extended(Record(w, kind))
    BY <1>4 DEF WritePart
  <2>. DEFINE line == Record(w, kind)
  <2>2. log' = Append(log, line) /\ line \in Line
    BY <1>4, <2>1, ExtendedAppends, RecordType DEF WritePart, TypeOK, Kinds
  <2>3. line.once = NextEvent(w).once /\ line.key = NextEvent(w).key
    BY DEF Record
  <2>4. UNCHANGED <<plan, batch>> /\ pc' = [pc EXCEPT ![w] = "partial"] /\ pc[w] = "writing"
    BY <1>4 DEF WritePart, Goto
  <2>5. pc'[w] = "partial" /\ \A v \in Writers : v # w => pc'[v] = pc[v] /\ pc[v] \notin Holding
    BY <2>4, OnlyHolderWrites DEF TypeOK
  <2>6. line.once => WantsDedupe(w) /\ ~plan[w].skip /\ line.key \notin plan[w].seen
    BY <1>4, <2>3, NextIsNew DEF WritePart
  <2>. HIDE DEF line
  <2>7. PICK n \in Nat : n = Len(log)
    BY DEF TypeOK
  <2>8. /\ DOMAIN log = 1..n /\ DOMAIN log' = 1..(n + 1) /\ Len(log') = n + 1
        /\ \A j \in 1..n : log'[j] = log[j]
        /\ log'[n + 1] = line
    BY <2>2, <2>7 DEF TypeOK
  <2>9. \A i \in 1..n : \A k : Records(i, k)' <=> Records(i, k)
    BY <2>8 DEF Records
  <2>10. \A k : Records(n + 1, k)' => line.once /\ line.key = k
    BY <2>8 DEF Records
  <2>11. (\A i \in 1..(n + 1) : i \in 1..n \/ i = n + 1) /\ (n + 1) - 1 = n
    OBVIOUS
  <2>12. \A i \in 1..n : \A k : WantsDedupe(w) /\ ~plan[w].skip /\ Records(i, k) => k \in plan[w].seen
    BY <1>11, <2>4, <2>8 DEF SeenInv
  <2>13. \A i \in 1..n : \A k : ~(Records(i, k)' /\ Records(n + 1, k)')
    BY <2>6, <2>9, <2>10, <2>12
  <2>14. Once'
    BY <1>11, <2>8, <2>9, <2>11, <2>13 DEF Once
  <2>15. \A i \in 1..n : \A k :
            (WantsDedupe(w)' /\ ~plan'[w].skip /\ Records(i, k)') => k \in plan'[w].seen
    BY <2>4, <2>9, <2>12 DEF WantsDedupe
  <2>16. SeenInv'
    BY <2>5, <2>8, <2>11, <2>15 DEF SeenInv
  <2>. QED
    BY <2>14, <2>16
<1>5. ASSUME NEW w \in Writers, WriteRest(w)
      PROVE  Once' /\ SeenInv'
  <2>. DEFINE line == Record(w, "sealed")
  <2>1. pc[w] = "partial" /\ log # <<>> /\ Pending(w) /\ ~Skipped(w)
    BY <1>5 DEF WriteRest, PartialInv
  <2>2. log' = [log EXCEPT ![Len(log)] = line] /\ line \in Line
    BY <1>5, <2>1, RecordType DEF WriteRest, Kinds
  <2>3. line.once = NextEvent(w).once /\ line.key = NextEvent(w).key
    BY DEF Record
  <2>4. plan'[w].skip = plan[w].skip
        /\ plan'[w].seen = IF NextEvent(w).once THEN plan[w].seen \cup {NextEvent(w).key} ELSE plan[w].seen
    BY <1>5 DEF WriteRest, Advanced, TypeOK
  <2>5. pc' = [pc EXCEPT ![w] = "writing"] /\ batch' = batch
    BY <1>5 DEF WriteRest, Goto
  <2>6. pc'[w] = "writing" /\ \A v \in Writers : v # w => pc'[v] = pc[v] /\ pc[v] \notin Holding
    BY <2>1, <2>5, OnlyHolderWrites DEF TypeOK
  <2>7. line.once => WantsDedupe(w) /\ ~plan[w].skip /\ line.key \notin plan[w].seen
    BY <2>1, <2>3, NextIsNew
  <2>. HIDE DEF line
  <2>8. PICK n \in Nat : n = Len(log) /\ n >= 1
    BY <2>1 DEF TypeOK
  <2>9. DOMAIN log' = 1..n /\ (\A j \in 1..(n - 1) : log'[j] = log[j]) /\ log'[n] = line
    BY <2>1, <2>2, <2>8, ReplaceLast, Zenon DEF TypeOK
  <2>10. \A i \in 1..(n - 1) : \A k : Records(i, k)' <=> Records(i, k)
    BY <2>9 DEF Records
  <2>11. \A k : Records(n, k)' => line.once /\ line.key = k
    BY <2>9 DEF Records
  <2>12. /\ \A i \in 1..n : i \in 1..(n - 1) \/ i = n
         /\ \A i \in 1..(n - 1) : i \in 1..n
    BY <2>8, Positions
  <2>13. \A i \in 1..(n - 1) : \A k :
            WantsDedupe(w) /\ ~plan[w].skip /\ Records(i, k) => k \in plan[w].seen
    BY <1>11, <2>1, <2>8 DEF SeenInv
  <2>14. \A i \in 1..(n - 1) : \A k : ~(Records(i, k)' /\ Records(n, k)')
    BY <2>7, <2>10, <2>11, <2>13
  <2>15. DOMAIN log = 1..n
    BY <2>8 DEF TypeOK
  <2>16. Once'
    BY <1>11, <2>9, <2>10, <2>12, <2>14, <2>15 DEF Once
  <2>17. \A i \in 1..n : \A k :
            (WantsDedupe(w)' /\ ~plan'[w].skip /\ Records(i, k)') => k \in plan'[w].seen
    BY <2>3, <2>4, <2>5, <2>10, <2>11, <2>12, <2>13 DEF WantsDedupe
  <2>18. SeenInv'
    BY <2>6, <2>9, <2>17 DEF SeenInv
  <2>. QED
    BY <2>16, <2>18
<1>6. CASE KeepAnchor \/ UNCHANGED vars
  BY <1>11, <1>6 DEF KeepAnchor, vars, fileVars, callVars, Once, SeenInv, Records, WantsDedupe
<1>. QED
  BY <1>0, <1>1, <1>2, <1>3, <1>4, <1>5, <1>6 DEF Next, Append_events, Quiet

LEMMA OnceInvAlways == Spec => []OnceInv
<1>1. CallInv /\ CallInv' /\ OnceInv /\ [Next]_vars => OnceInv'
  BY OnceInvStep
<1>. QED
  BY <1>1, OnceInvInit, CallInvAlways, PTL DEF Spec

\* A suppression is in the log once, whatever the interleaving of the scans
\* that saw it and wherever they were interrupted (append_events, once_keys).
THEOREM OnceAlways == Spec => []RecordedOnce
<1>1. OnceInv => RecordedOnce
  BY DEF OnceInv, Once, Records, RecordedOnce
<1>. QED
  BY <1>1, OnceInvAlways, PTL

-----------------------------------------------------------------------------
(***************************************************************************)
(* No silent loss.  Unless the call has a warning to return, the events it *)
(* is done with and the keys it compares with are in the file.             *)
(***************************************************************************)

Has(k) == \E i \in DOMAIN log : log[i].kind # "torn" /\ log[i].key = k

Kept(w) ==
    /\ ~plan[w].skip
    /\ \A k \in plan[w].seen : Has(k)
    /\ \A j \in 1..done[w] : Has(batch[w][j].key)

LossInv ==
    \A w \in Writers :
        /\ pc[w] \in {"start", "opened", "locked"} => done[w] = 0
        /\ pc[w] \in {"writing", "partial"} => result[w].warned \/ Kept(w)
        /\ pc[w] = "partial" => log[Len(log)].kind = "torn" \/ log[Len(log)].key = NextEvent(w).key

LEMMA LossInvInit == Init => LossInv
BY DEF Init, LossInv

\* Appending a line loses no event.
LEMMA HasAppend ==
    ASSUME TypeOK, NEW line \in Line, log' = Append(log, line), NEW k
    PROVE  /\ Has(k) => Has(k)'
           /\ line.kind # "torn" /\ line.key = k => Has(k)'
<1>1. PICK n \in Nat : n = Len(log)
  BY DEF TypeOK
<1>2. /\ DOMAIN log = 1..n /\ DOMAIN log' = 1..(n + 1)
      /\ \A j \in 1..n : log'[j] = log[j]
      /\ log'[n + 1] = line
  BY <1>1 DEF TypeOK
<1>3. n + 1 \in 1..(n + 1) /\ \A j \in 1..n : j \in 1..(n + 1)
  OBVIOUS
<1>. QED
  BY <1>2, <1>3 DEF Has

\* Nor does completing the last line.
LEMMA HasReplace ==
    ASSUME TypeOK, log # <<>>, NEW line \in Line, log' = [log EXCEPT ![Len(log)] = line],
           line.kind # "torn",
           log[Len(log)].kind = "torn" \/ log[Len(log)].key = line.key,
           NEW k
    PROVE  /\ Has(k) => Has(k)'
           /\ line.key = k => Has(k)'
<1>1. PICK n \in Nat : n = Len(log) /\ n >= 1
  BY DEF TypeOK
<1>2. DOMAIN log' = 1..n /\ (\A j \in 1..(n - 1) : log'[j] = log[j]) /\ log'[n] = line
  BY <1>1, ReplaceLast, Zenon DEF TypeOK
<1>3. DOMAIN log = 1..n
  BY <1>1 DEF TypeOK
<1>4. n \in 1..n /\ (\A i \in 1..n : i = n \/ i \in 1..(n - 1)) /\ \A i \in 1..(n - 1) : i \in 1..n
  BY <1>1, Positions
<1>. QED
  BY <1>1, <1>2, <1>3, <1>4 DEF Has

LEMMA LossInvStep ==
    ASSUME CallInv, CallInv', LossInv, [Next]_vars
    PROVE  LossInv'
<1>. USE DEF CallInv
<1>1. ASSUME NEW w \in Writers,
             Open(w) \/ OpenFails(w) \/ Acquire(w) \/ LockTimeout(w) \/ RejectBatch(w)
               \/ Finish(w) \/ WriteFails(w) \/ Crash(w)
      PROVE  LossInv'
  <2>1. UNCHANGED <<log, batch, plan, done>>
    BY <1>1 DEF Open, OpenFails, Acquire, LockTimeout, RejectBatch, Finish, WriteFails, Crash, fileVars
  <2>2. \A v \in Writers :
          /\ pc'[v] \in {"writing", "partial"} => pc'[v] = pc[v] /\ result'[v] = result[v]
          /\ pc'[v] \in {"start", "opened", "locked"} => pc[v] \in {"start", "opened", "locked"}
    BY <1>1 DEF TypeOK, Open, OpenFails, Acquire, LockTimeout, RejectBatch, Finish, WriteFails,
                Crash, Goto, Warn
  <2>. QED
    BY <2>1, <2>2 DEF LossInv, Kept, Has, NextEvent
<1>2. ASSUME NEW w \in Writers, ReadHead(w)
      PROVE  LossInv'
  <2>1. /\ plan'[w].seen = IF WantsDedupe(w) /\ ~Oversized THEN KeysInLog ELSE {}
        /\ plan'[w].skip = (WantsDedupe(w) /\ Oversized)
        /\ \A v \in Writers : v # w => plan'[v] = plan[v]
    BY <1>2 DEF ReadHead, TypeOK
  <2>2. UNCHANGED <<log, batch, done>> /\ pc' = [pc EXCEPT ![w] = "writing"] /\ pc[w] = "locked"
    BY <1>2 DEF ReadHead, Goto, fileVars
  <2>3. pc'[w] = "writing" /\ \A v \in Writers : v # w => pc'[v] = pc[v] /\ pc[v] \notin Holding
    BY <2>2, OnlyHolderWrites DEF TypeOK
  <2>4. plan'[w].skip => result'[w].warned
    BY <1>2, <2>1 DEF ReadHead, HeadWarning, Warn, TypeOK, AppendResult
  <2>5. \A k \in KeysInLog : Has(k)
    BY DEF Has, KeysInLog
  <2>6. \A k \in plan'[w].seen : Has(k)
    BY <2>1, <2>5
  <2>7. 1..done'[w] = {}
    BY <2>2 DEF LossInv
  <2>8. result'[w].warned \/ Kept(w)'
    BY <2>2, <2>4, <2>6, <2>7 DEF Kept, Has
  <2>. QED
    BY <2>2, <2>3, <2>8 DEF LossInv
<1>3. ASSUME NEW w \in Writers, SkipEvent(w)
      PROVE  LossInv'
  <2>1. UNCHANGED <<log, batch, plan, pc, result>> /\ pc[w] = "writing" /\ done' = [done EXCEPT ![w] = @ + 1]
    BY <1>3 DEF SkipEvent, fileVars
  <2>2. done[w] \in Nat /\ done'[w] = done[w] + 1 /\ \A v \in Writers : v # w => done'[v] = done[v]
    BY <2>1 DEF TypeOK
  <2>3. \A v \in Writers : v # w => pc[v] \notin Holding
    BY <2>1, OnlyHolderWrites
  <2>4. result[w].warned \/ Kept(w)
    BY <2>1 DEF LossInv
  <2>5. Kept(w) => Has(batch[w][done[w] + 1].key)
    BY <1>3 DEF Kept, SkipEvent, Skipped, NextEvent
  <2>6. \A j \in 1..(done[w] + 1) : j \in 1..done[w] \/ j = done[w] + 1
    BY <2>2
  <2>7. Kept(w) => Kept(w)'
    BY <2>1, <2>2, <2>5, <2>6 DEF Kept, Has
  <2>. QED
    BY <2>1, <2>2, <2>3, <2>4, <2>7 DEF LossInv
<1>4. ASSUME NEW w \in Writers, WriteLine(w) \/ WriteRest(w)
      PROVE  LossInv'
  <2>. DEFINE line == Record(w, "sealed")
  <2>1. /\ Pending(w)
        /\ plan' = [plan EXCEPT ![w] = Advanced(w, fresh)]
        /\ done' = [done EXCEPT ![w] = @ + 1]
        /\ UNCHANGED <<batch, result>>
        /\ pc[w] \in Holding /\ pc[w] \in {"writing", "partial"}
    BY <1>4 DEF WriteLine, WriteRest, PartialInv
  <2>2. line \in Line /\ line.kind = "sealed" /\ line.key = NextEvent(w).key
    BY <2>1, RecordType DEF Record, Kinds
  <2>3. \A k : (Has(k) => Has(k)') /\ (line.key = k => Has(k)')
    <3>1. CASE WriteLine(w)
      <4>1. log' = Append(log, line)
        BY <3>1, ExtendedAppends DEF WriteLine, TypeOK
      <4>. HIDE DEF line
      <4>. QED
        BY <2>2, <4>1, HasAppend
    <3>2. CASE WriteRest(w)
      <4>1. log' = [log EXCEPT ![Len(log)] = line] /\ log # <<>> /\ pc[w] = "partial"
        BY <3>2 DEF WriteRest, PartialInv
      <4>2. log[Len(log)].kind = "torn" \/ log[Len(log)].key = line.key
        BY <2>2, <4>1 DEF LossInv
      <4>. HIDE DEF line
      <4>. QED
        BY <2>2, <4>1, <4>2, HasReplace
    <3>. QED
      BY <1>4, <3>1, <3>2
  <2>. HIDE DEF line
  <2>4. /\ done[w] \in Nat /\ done'[w] = done[w] + 1
        /\ \A v \in Writers : v # w => pc[v] \notin Holding /\ done'[v] = done[v]
    BY <2>1, OnlyHolderWrites DEF TypeOK
  <2>5. pc'[w] = "writing" /\ \A v \in Writers : v # w => pc'[v] = pc[v]
    BY <1>4 DEF TypeOK, WriteLine, WriteRest, Goto
  <2>6. /\ plan'[w].skip = plan[w].skip
        /\ plan'[w].seen \subseteq plan[w].seen \cup {NextEvent(w).key}
    BY <2>1 DEF Advanced, TypeOK
  <2>7. \A j \in 1..(done[w] + 1) : j \in 1..done[w] \/ j = done[w] + 1
    BY <2>4
  <2>8. NextEvent(w) = batch[w][done[w] + 1]
    BY DEF NextEvent
  <2>9. Kept(w) => Kept(w)'
    <3>1. Kept(w) => \A k \in plan'[w].seen : Has(k)'
      BY <2>2, <2>3, <2>6 DEF Kept
    <3>2. Kept(w) => \A j \in 1..(done[w] + 1) : \A k : k = batch[w][j].key => Has(k)'
      BY <2>2, <2>3, <2>7, <2>8 DEF Kept
    <3>3. Kept(w) => \A j \in 1..done'[w] : Has(batch[w][j].key)'
      BY <2>1, <2>4, <3>2
    <3>. QED
      BY <2>6, <3>1, <3>3 DEF Kept
  <2>10. result'[w].warned \/ Kept(w)'
    BY <2>1, <2>9 DEF LossInv
  <2>. QED
    BY <2>4, <2>5, <2>10 DEF LossInv
<1>5. ASSUME NEW w \in Writers, WritePart(w)
      PROVE  LossInv'
  <2>1. PICK kind \in {"torn", "sealed"} : log' = Extended(Record(w, kind))
    BY <1>5 DEF WritePart
  <2>. DEFINE line == Record(w, kind)
  <2>2. log' = Append(log, line) /\ line \in Line
    BY <1>5, <2>1, ExtendedAppends, RecordType DEF WritePart, TypeOK, Kinds
  <2>3. line.key = NextEvent(w).key
    BY DEF Record
  <2>4. UNCHANGED <<plan, batch, done, result>> /\ pc' = [pc EXCEPT ![w] = "partial"] /\ pc[w] = "writing"
    BY <1>5 DEF WritePart, Goto
  <2>5. pc'[w] = "partial" /\ \A v \in Writers : v # w => pc'[v] = pc[v] /\ pc[v] \notin Holding
    BY <2>4, OnlyHolderWrites DEF TypeOK
  <2>. HIDE DEF line
  <2>6. \A k : Has(k) => Has(k)'
    BY <2>2, HasAppend
  <2>7. log'[Len(log')] = line
    BY <2>2 DEF TypeOK
  <2>8. log'[Len(log')].key = NextEvent(w)'.key
    BY <2>3, <2>4, <2>7 DEF NextEvent
  <2>9. result'[w].warned \/ Kept(w)'
    BY <2>4, <2>6 DEF LossInv, Kept
  <2>. QED
    BY <2>4, <2>5, <2>8, <2>9 DEF LossInv
<1>6. CASE ByHand
  <2>1. PICK kind \in {"edit", "drop", "truncate", "swap", "rewrite"} : Tamper(kind)
    BY <1>6 DEF ByHand, EditLine, DropLine, SwapLines, RewriteTail
  <2>2. \A v \in Writers : pc'[v] = pc[v] /\ pc[v] \notin Holding /\ done'[v] = done[v]
    BY <2>1, AuditAssumption DEF Tamper, LockInv, callVars
  <2>. QED
    BY <2>2 DEF LossInv
<1>7. CASE KeepAnchor \/ UNCHANGED vars
  BY <1>7 DEF KeepAnchor, vars, fileVars, callVars, LossInv, Kept, Has, NextEvent
<1>. QED
  BY <1>1, <1>2, <1>3, <1>4, <1>5, <1>6, <1>7 DEF Next, Append_events

\* Only Finish returns without a warning, and then every event is in the file.
LEMMA ReturnsWithEvents ==
    ASSUME CallInv, LossInv, [Next]_vars, NEW w \in Writers,
           pc[w] # "done", pc'[w] = "done", ~result'[w].warned, NEW j \in DOMAIN batch[w]
    PROVE  InLog(batch[w][j])'
<1>. USE DEF CallInv
<1>1. ~ByHand /\ ~KeepAnchor /\ ~UNCHANGED vars
  BY DEF ByHand, EditLine, DropLine, SwapLines, RewriteTail, Tamper, KeepAnchor, callVars, vars
<1>2. PICK v \in Writers : Append_events(v) \/ Crash(v)
  BY <1>1 DEF Next
<1>3. v = w
  BY <1>2 DEF TypeOK, Append_events, Open, OpenFails, Acquire, LockTimeout, ReadHead, RejectBatch,
              SkipEvent, WriteLine, WritePart, WriteRest, Finish, WriteFails, Crash, Goto
<1>4. Finish(w)
  BY <1>2, <1>3 DEF TypeOK, AppendResult, Append_events, Open, OpenFails, Acquire, LockTimeout,
              ReadHead, RejectBatch, SkipEvent, WriteLine, WritePart, WriteRest, WriteFails, Crash,
              Goto, Warn
<1>5. pc[w] = "writing" /\ ~Pending(w) /\ UNCHANGED <<log, batch>> /\ ~result[w].warned
  BY <1>4 DEF Finish, fileVars, TypeOK, AppendResult
<1>6. j \in 1..done[w]
  <2>1. batch[w] \in Seq(Event) /\ done[w] \in Nat
    BY AuditAssumption DEF TypeOK
  <2>. QED
    BY <1>5, <2>1 DEF Pending
<1>7. Has(batch[w][j].key)
  BY <1>5, <1>6 DEF LossInv, Kept
<1>. QED
  BY <1>5, <1>7 DEF Has, InLog

\* A call that returns without a warning leaves each of its events in the log
\* (append_events; AppendResult.warnings).
THEOREM NothingLostSilently == Spec => NoSilentLoss
<1>1. CallInv /\ CallInv' /\ LossInv /\ [Next]_vars => LossInv'
  BY LossInvStep
<1>2. CallInv /\ LossInv /\ [Next]_vars =>
        [\A w \in Writers :
           (pc[w] # "done" /\ pc'[w] = "done" /\ ~result'[w].warned) =>
              \A j \in DOMAIN batch[w] : InLog(batch[w][j])']_vars
  BY ReturnsWithEvents
<1>3. Spec => []LossInv
  BY <1>1, LossInvInit, CallInvAlways, PTL DEF Spec
<1>. QED
  BY <1>2, <1>3, CallInvAlways, PTL DEF Spec, NoSilentLoss

-----------------------------------------------------------------------------
(***************************************************************************)
(* What was reported is there.  The lines of a call are the last ones of   *)
(* the file while it writes, and stay together when it is done.            *)
(***************************************************************************)

\* The lines of w are those from first to last, and those before `open` are whole.
Wrote(w, first, last, open) ==
    /\ \A i \in DOMAIN log : log[i].by = w <=> first <= i /\ i <= last
    /\ \A i \in DOMAIN log : log[i].by = w /\ i < open => log[i].kind = "sealed"

Placed(w) ==
    /\ pc[w] \in {"start", "opened", "locked"} => \A i \in DOMAIN log : log[i].by # w
    /\ pc[w] \notin {"done", "crashed"} => result[w].written = 0
    /\ pc[w] = "writing" =>
          /\ plan[w].written <= Len(log)
          /\ Wrote(w, Len(log) - plan[w].written + 1, Len(log), Len(log) + 1)
    /\ pc[w] = "partial" =>
          /\ plan[w].written < Len(log)
          /\ Wrote(w, Len(log) - plan[w].written, Len(log), Len(log))
    /\ pc[w] \in {"done", "crashed"} /\ result[w].written > 0 =>
          \E first \in DOMAIN log :
             /\ first + result[w].written - 1 <= Len(log)
             /\ Wrote(w, first, first + result[w].written - 1, Len(log) + 1)

WrittenInv == tampers = 0 => \A w \in Writers : Placed(w)

LEMMA WrittenInvInit == Init => WrittenInv
<1>. SUFFICES ASSUME Init, NEW w \in Writers
              PROVE  Placed(w)
  BY DEF WrittenInv
<1>1. pc[w] = "start" /\ result[w].written = 0 /\ DOMAIN log = {}
  BY DEF Init
<1>. QED
  BY <1>1 DEF Placed

\* A warning says nothing of what was written.
LEMMA WarnKeeps ==
    ASSUME TypeOK, NEW w \in Writers, Warn(w) \/ UNCHANGED result, NEW v \in Writers
    PROVE  result'[v].written = result[v].written
<1>1. result[w] \in AppendResult /\ result[v] \in AppendResult /\ result \in [Writers -> AppendResult]
  BY DEF TypeOK
<1>2. CASE Warn(w)
  <2>1. result'[v] = IF v = w THEN [result[v] EXCEPT !.warned = TRUE] ELSE result[v]
    BY <1>1, <1>2 DEF Warn
  <2>. QED
    BY <1>1, <2>1 DEF AppendResult
<1>. QED
  BY <1>2

\* A line of w that is added or completed is none of v's.
LEMMA OthersPlaced ==
    ASSUME CallInv, NEW v \in Writers, Placed(v), pc[v] \notin {"writing", "partial"},
           UNCHANGED <<pc[v], result[v]>>,
           NEW n \in Nat, n >= Len(log), DOMAIN log' = 1..n, Len(log') = n,
           \A i \in 1..n : \/ i \in DOMAIN log /\ log'[i] = log[i]
                           \/ log'[i].by # v /\ (i \in DOMAIN log => log[i].by # v)
    PROVE  Placed(v)'
<1>1. PICK m \in Nat : m = Len(log) /\ DOMAIN log = 1..m
  BY DEF CallInv, TypeOK
<1>2. m <= n /\ \A i \in 1..m : i \in 1..n
  BY <1>1
<1>3. \A i \in 1..n : log'[i].by = v => i \in 1..m /\ log'[i] = log[i]
  BY <1>1
<1>4. \A i \in 1..m : log[i].by = v => log'[i] = log[i]
  BY <1>1, <1>2
<1>5. pc[v] \in {"start", "opened", "locked"} => \A i \in DOMAIN log' : log'[i].by # v
  BY <1>1, <1>3 DEF Placed
<1>6. ASSUME pc[v] \in {"done", "crashed"}, result[v].written > 0
      PROVE  \E first \in DOMAIN log' :
               /\ first + result[v].written - 1 <= Len(log')
               /\ Wrote(v, first, first + result[v].written - 1, Len(log) + 1)'
  <2>1. PICK k \in Nat : k = result[v].written
    BY DEF CallInv, TypeOK, AppendResult
  <2>2. PICK first \in 1..m : first + k - 1 <= m /\ Wrote(v, first, first + k - 1, m + 1)
    BY <1>1, <1>6, <2>1 DEF Placed
  <2>3. \A i \in 1..m : log[i].by = v <=> first <= i /\ i <= first + k - 1
    BY <1>1, <2>2 DEF Wrote
  <2>4. \A i \in 1..m : log[i].by = v => log[i].kind = "sealed"
    BY <1>1, <2>2 DEF Wrote
  <2>5. ASSUME NEW i \in 1..n
        PROVE  log'[i].by = v <=> first <= i /\ i <= first + k - 1
    <3>1. first <= i /\ i <= first + k - 1 => i \in 1..m
      BY <1>1, <2>2
    <3>. QED
      BY <1>3, <1>4, <2>3, <3>1
  <2>6. \A i \in 1..n : log'[i].by = v => log'[i].kind = "sealed"
    BY <1>3, <2>4
  <2>7. first \in 1..n /\ first + k - 1 <= n
    BY <1>2, <2>1, <2>2
  <2>. QED
    BY <2>1, <2>5, <2>6, <2>7 DEF Wrote
<1>. QED
  BY <1>5, <1>6 DEF Placed

LEMMA WrittenInvStep ==
    ASSUME CallInv, CallInv', WrittenInv, [Next]_vars
    PROVE  WrittenInv'
<1>. SUFFICES ASSUME tampers' = 0
              PROVE  \A v \in Writers : Placed(v)'
  BY DEF WrittenInv
<1>. USE DEF CallInv
<1>0. ~ByHand
  BY ByHandCounts
<1>10. tampers = 0
  BY <1>0 DEF Next, Append_events, Open, OpenFails, Acquire, LockTimeout, ReadHead, RejectBatch,
         SkipEvent, WriteLine, WritePart, WriteRest, Finish, WriteFails, Crash, KeepAnchor, vars
<1>11. \A v \in Writers : Placed(v)
  BY <1>10 DEF WrittenInv
<1>12. PICK n \in Nat : n = Len(log) /\ DOMAIN log = 1..n
  BY DEF TypeOK
<1>1. ASSUME NEW w \in Writers,
             Open(w) \/ OpenFails(w) \/ Acquire(w) \/ LockTimeout(w) \/ RejectBatch(w)
               \/ SkipEvent(w) \/ WriteFails(w) \/ Crash(w)
      PROVE  \A v \in Writers : Placed(v)'
  <2>1. log' = log /\ plan' = plan
    BY <1>1 DEF Open, OpenFails, Acquire, LockTimeout, RejectBatch, SkipEvent, WriteFails, Crash, fileVars
  <2>2. Warn(w) \/ UNCHANGED result
    BY <1>1 DEF Open, OpenFails, Acquire, LockTimeout, RejectBatch, SkipEvent, WriteFails, Crash
  <2>3. \A v \in Writers : result'[v].written = result[v].written
    BY <2>2, WarnKeeps
  <2>4. \A v \in Writers :
           \/ pc'[v] = pc[v]
           \/ pc[v] \notin {"done", "crashed"} /\ pc'[v] \in {"done", "crashed"}
           \/ pc[v] \in {"start", "opened"} /\ pc'[v] \in {"opened", "locked"}
    BY <1>1 DEF TypeOK, Open, OpenFails, Acquire, LockTimeout, RejectBatch, SkipEvent,
                WriteFails, Crash, Goto
  <2>5. ~(0 > 0)
    OBVIOUS
  <2>. QED
    BY <1>11, <2>1, <2>3, <2>4, <2>5 DEF Placed, Wrote
<1>2. ASSUME NEW w \in Writers, ReadHead(w)
      PROVE  \A v \in Writers : Placed(v)'
  <2>1. plan'[w].written = 0 /\ \A v \in Writers : v # w => plan'[v] = plan[v]
    BY <1>2 DEF ReadHead, TypeOK
  <2>2. log' = log /\ pc' = [pc EXCEPT ![w] = "writing"] /\ pc[w] = "locked"
    BY <1>2 DEF ReadHead, Goto, fileVars
  <2>3. pc'[w] = "writing" /\ \A v \in Writers : v # w => pc'[v] = pc[v]
    BY <2>2 DEF TypeOK
  <2>4. \A v \in Writers : result'[v].written = result[v].written
    BY <1>2, WarnKeeps DEF ReadHead
  <2>5. Wrote(w, n - 0 + 1, n, n + 1)'
    BY <1>11, <1>12, <2>2 DEF Placed, Wrote
  <2>6. Placed(w)'
    BY <1>11, <1>12, <2>1, <2>2, <2>3, <2>4, <2>5 DEF Placed
  <2>7. ASSUME NEW v \in Writers, v # w
        PROVE  Placed(v)'
    BY <1>11, <2>1, <2>2, <2>3, <2>4, <2>7 DEF Placed, Wrote
  <2>. QED
    BY <2>6, <2>7
<1>3. ASSUME NEW w \in Writers, WriteLine(w)
      PROVE  \A v \in Writers : Placed(v)'
  <2>. DEFINE line == Record(w, "sealed")
  <2>1. log' = Append(log, line) /\ line \in Line
    BY <1>3, ExtendedAppends, RecordType DEF WriteLine, TypeOK, Kinds
  <2>2. line.by = w /\ line.kind = "sealed"
    BY DEF Record
  <2>3. PICK k \in Nat : k = plan[w].written /\ plan'[w].written = k + 1
    BY <1>3 DEF WriteLine, Advanced, TypeOK, Plan
  <2>4. pc' = pc /\ result' = result /\ pc[w] = "writing" /\ \A v \in Writers : v # w => pc[v] \notin Holding
    BY <1>3, OnlyHolderWrites DEF WriteLine
  <2>. HIDE DEF line
  <2>5. DOMAIN log' = 1..(n + 1) /\ Len(log') = n + 1 /\ (\A i \in 1..n : log'[i] = log[i]) /\ log'[n + 1] = line
    BY <1>12, <2>1 DEF TypeOK
  <2>6. \A i \in 1..(n + 1) : i \in 1..n \/ (i = n + 1 /\ i \notin 1..n)
    OBVIOUS
  <2>7. ASSUME NEW v \in Writers, v # w
        PROVE  Placed(v)'
    <3>1. \A i \in 1..(n + 1) : \/ i \in DOMAIN log /\ log'[i] = log[i]
                                \/ log'[i].by # v /\ (i \in DOMAIN log => log[i].by # v)
      BY <1>12, <2>2, <2>5, <2>6, <2>7
    <3>2. n + 1 \in Nat /\ n + 1 >= Len(log)
      BY <1>12
    <3>. QED
      BY <1>11, <2>4, <2>5, <2>7, <3>1, <3>2, OthersPlaced
  <2>8. k <= n /\ \A i \in 1..n : log[i].by = w <=> n - k + 1 <= i
    BY <1>11, <1>12, <2>3, <2>4 DEF Placed, Wrote
  <2>9. \A i \in 1..n : log[i].by = w => log[i].kind = "sealed"
    BY <1>11, <1>12, <2>4 DEF Placed, Wrote
  <2>10. \A i \in 1..(n + 1) : log'[i].by = w <=> (n + 1) - (k + 1) + 1 <= i /\ i <= n + 1
    <3>1. (n + 1) - (k + 1) + 1 = n - k + 1 /\ \A i \in 1..(n + 1) : i <= n + 1
      OBVIOUS
    <3>2. n - k + 1 <= n + 1
      OBVIOUS
    <3>. QED
      BY <2>2, <2>5, <2>6, <2>8, <3>1, <3>2
  <2>11. \A i \in 1..(n + 1) : log'[i].by = w => log'[i].kind = "sealed"
    BY <2>2, <2>5, <2>6, <2>9
  <2>12. k + 1 <= n + 1 /\ Wrote(w, (n + 1) - (k + 1) + 1, n + 1, (n + 1) + 1)'
    BY <2>5, <2>8, <2>10, <2>11 DEF Wrote
  <2>13. result[w].written = 0
    BY <1>11, <2>4 DEF Placed
  <2>14. Placed(w)'
    BY <2>3, <2>4, <2>5, <2>12, <2>13 DEF Placed
  <2>. QED
    BY <2>7, <2>14
<1>4. ASSUME NEW w \in Writers, WritePart(w)
      PROVE  \A v \in Writers : Placed(v)'
  <2>1. PICK kind \in {"torn", "sealed"} : log' = Extended(Record(w, kind))
    BY <1>4 DEF WritePart
  <2>. DEFINE line == Record(w, kind)
  <2>2. log' = Append(log, line) /\ line \in Line /\ line.by = w
    BY <1>4, <2>1, ExtendedAppends, RecordType DEF WritePart, TypeOK, Kinds, Record
  <2>3. PICK k \in Nat : k = plan[w].written /\ plan' = plan
    BY <1>4 DEF WritePart, TypeOK, Plan
  <2>4. result' = result /\ pc' = [pc EXCEPT ![w] = "partial"] /\ pc[w] = "writing"
    BY <1>4 DEF WritePart, Goto
  <2>5. pc'[w] = "partial" /\ \A v \in Writers : v # w => pc'[v] = pc[v] /\ pc[v] \notin Holding
    BY <2>4, OnlyHolderWrites DEF TypeOK
  <2>. HIDE DEF line
  <2>6. DOMAIN log' = 1..(n + 1) /\ Len(log') = n + 1 /\ (\A i \in 1..n : log'[i] = log[i]) /\ log'[n + 1] = line
    BY <1>12, <2>2 DEF TypeOK
  <2>7. \A i \in 1..(n + 1) : i \in 1..n \/ (i = n + 1 /\ i \notin 1..n)
    OBVIOUS
  <2>8. ASSUME NEW v \in Writers, v # w
        PROVE  Placed(v)'
    <3>1. \A i \in 1..(n + 1) : \/ i \in DOMAIN log /\ log'[i] = log[i]
                                \/ log'[i].by # v /\ (i \in DOMAIN log => log[i].by # v)
      BY <1>12, <2>2, <2>6, <2>7, <2>8
    <3>2. n + 1 \in Nat /\ n + 1 >= Len(log)
      BY <1>12
    <3>. QED
      BY <1>11, <2>4, <2>5, <2>6, <2>8, <3>1, <3>2, OthersPlaced
  <2>9. k <= n /\ \A i \in 1..n : log[i].by = w <=> n - k + 1 <= i
    BY <1>11, <1>12, <2>3, <2>4 DEF Placed, Wrote
  <2>10. \A i \in 1..n : log[i].by = w => log[i].kind = "sealed"
    BY <1>11, <1>12, <2>4 DEF Placed, Wrote
  <2>11. \A i \in 1..(n + 1) : log'[i].by = w <=> (n + 1) - k <= i /\ i <= n + 1
    BY <2>2, <2>3, <2>6, <2>7, <2>9
  <2>12. \A i \in 1..(n + 1) : log'[i].by = w /\ i < n + 1 => log'[i].kind = "sealed"
    BY <2>6, <2>7, <2>10
  <2>13. Placed(w)'
    BY <1>11, <2>3, <2>4, <2>5, <2>6, <2>9, <2>11, <2>12 DEF Placed, Wrote
  <2>. QED
    BY <2>8, <2>13
<1>5. ASSUME NEW w \in Writers, WriteRest(w)
      PROVE  \A v \in Writers : Placed(v)'
  <2>. DEFINE line == Record(w, "sealed")
  <2>1. pc[w] = "partial" /\ log # <<>> /\ Pending(w)
    BY <1>5 DEF WriteRest, PartialInv
  <2>2. log' = [log EXCEPT ![Len(log)] = line] /\ line \in Line
    BY <1>5, <2>1, RecordType DEF WriteRest, Kinds
  <2>3. line.by = w /\ line.kind = "sealed"
    BY DEF Record
  <2>4. PICK k \in Nat : k = plan[w].written /\ plan'[w].written = k + 1
    BY <1>5 DEF WriteRest, Advanced, TypeOK, Plan
  <2>5. result' = result /\ pc' = [pc EXCEPT ![w] = "writing"]
    BY <1>5 DEF WriteRest, Goto
  <2>6. pc'[w] = "writing" /\ \A v \in Writers : v # w => pc'[v] = pc[v] /\ pc[v] \notin Holding
    BY <2>1, <2>5, OnlyHolderWrites DEF TypeOK
  <2>. HIDE DEF line
  <2>7. /\ DOMAIN log' = 1..n /\ Len(log') = n
        /\ \A i \in 1..(n - 1) : log'[i] = log[i]
        /\ log'[n] = line
    BY <1>12, <2>1, <2>2, ReplaceLast, Zenon DEF TypeOK
  <2>8. n >= 1 /\ \A i \in 1..n : i \in 1..(n - 1) \/ i = n
    BY <1>12, <2>1 DEF TypeOK
  <2>9. k < n /\ \A i \in 1..n : log[i].by = w <=> n - k <= i
    BY <1>11, <1>12, <2>1, <2>4 DEF Placed, Wrote
  <2>10. \A i \in 1..n : log[i].by = w /\ i < n => log[i].kind = "sealed"
    BY <1>11, <1>12, <2>1 DEF Placed, Wrote
  <2>11. n \in 1..n /\ log[n].by = w
    BY <2>4, <2>8, <2>9
  <2>12. ASSUME NEW v \in Writers, v # w
         PROVE  Placed(v)'
    <3>1. \A i \in 1..n : \/ i \in DOMAIN log /\ log'[i] = log[i]
                          \/ log'[i].by # v /\ (i \in DOMAIN log => log[i].by # v)
      BY <1>12, <2>3, <2>7, <2>8, <2>11, <2>12
    <3>2. n \in Nat /\ n >= Len(log)
      BY <1>12
    <3>. QED
      BY <1>11, <2>5, <2>6, <2>7, <2>12, <3>1, <3>2, OthersPlaced
  <2>13. \A i \in 1..n : log'[i].by = w <=> n - (k + 1) + 1 <= i /\ i <= n
    BY <2>3, <2>4, <2>7, <2>8, <2>9
  <2>14. \A i \in 1..n : log'[i].by = w => log'[i].kind = "sealed"
    BY <2>3, <2>7, <2>8, <2>10
  <2>15. Placed(w)'
    BY <1>11, <2>1, <2>4, <2>5, <2>6, <2>7, <2>9, <2>13, <2>14 DEF Placed, Wrote
  <2>. QED
    BY <2>12, <2>15
<1>6. ASSUME NEW w \in Writers, Finish(w)
      PROVE  \A v \in Writers : Placed(v)'
  <2>1. log' = log /\ plan' = plan /\ pc' = [pc EXCEPT ![w] = "done"] /\ pc[w] = "writing"
    BY <1>6 DEF Finish, Goto, fileVars
  <2>2. PICK k \in Nat : k = plan[w].written /\ result'[w].written = k
    BY <1>6 DEF Finish, TypeOK, Plan, AppendResult
  <2>3. \A v \in Writers : v # w => result'[v] = result[v] /\ pc'[v] = pc[v]
    BY <1>6, <2>1 DEF Finish, TypeOK
  <2>4. k <= n /\ Wrote(w, n - k + 1, n, n + 1)
    BY <1>11, <1>12, <2>1, <2>2 DEF Placed
  <2>5. k > 0 => n - k + 1 \in 1..n /\ (n - k + 1) + k - 1 <= n /\ (n - k + 1) + k - 1 = n
    BY <2>4
  <2>6. k > 0 => \E first \in DOMAIN log' :
                   first + k - 1 <= Len(log') /\ Wrote(w, first, first + k - 1, Len(log) + 1)'
    BY <1>12, <2>1, <2>4, <2>5 DEF Wrote
  <2>7. pc'[w] = "done"
    BY <2>1 DEF TypeOK
  <2>8. Placed(w)'
    BY <2>2, <2>6, <2>7 DEF Placed
  <2>9. ASSUME NEW v \in Writers, v # w
        PROVE  Placed(v)'
    BY <1>11, <2>1, <2>3, <2>9 DEF Placed, Wrote
  <2>. QED
    BY <2>8, <2>9
<1>7. CASE KeepAnchor \/ UNCHANGED vars
  BY <1>11, <1>7 DEF KeepAnchor, vars, fileVars, callVars, Placed, Wrote
<1>. QED
  BY <1>0, <1>1, <1>2, <1>3, <1>4, <1>5, <1>6, <1>7 DEF Next, Append_events

LEMMA WrittenInvAlways == Spec => []WrittenInv
<1>1. CallInv /\ CallInv' /\ WrittenInv /\ [Next]_vars => WrittenInv'
  BY WrittenInvStep
<1>. QED
  BY <1>1, WrittenInvInit, CallInvAlways, PTL DEF Spec

\* The records a call reported as written are in the file, side by side and
\* whole, and it wrote no others (append_events; AppendResult.written).
THEOREM ReportedIsWritten == Spec => []WrittenIsThere
<1>1. ASSUME CallInv, WrittenInv
      PROVE  WrittenIsThere
  <2>. SUFFICES ASSUME tampers = 0, NEW w \in Writers, result[w].written > 0
                PROVE  \E first \in DOMAIN log :
                         /\ first + result[w].written - 1 <= Len(log)
                         /\ \A i \in first..(first + result[w].written - 1) :
                               log[i].by = w /\ log[i].kind = "sealed"
                         /\ \A i \in DOMAIN log : log[i].by = w =>
                               i \in first..(first + result[w].written - 1)
    BY DEF WrittenIsThere
  <2>1. PICK k \in Nat : k = result[w].written
    BY <1>1 DEF CallInv, TypeOK, AppendResult
  <2>2. PICK n \in Nat : n = Len(log) /\ DOMAIN log = 1..n
    BY <1>1 DEF CallInv, TypeOK
  <2>3. PICK first \in 1..n : first + k - 1 <= n /\ Wrote(w, first, first + k - 1, n + 1)
    BY <1>1, <2>1, <2>2 DEF WrittenInv, Placed
  <2>4. \A i \in 1..n : log[i].by = w <=> first <= i /\ i <= first + k - 1
    BY <2>2, <2>3 DEF Wrote
  <2>5. \A i \in 1..n : log[i].by = w => log[i].kind = "sealed"
    BY <2>2, <2>3 DEF Wrote
  <2>6. \A i \in first..(first + k - 1) : i \in 1..n /\ first <= i /\ i <= first + k - 1
    BY <2>1, <2>3
  <2>7. \A i \in 1..n : first <= i /\ i <= first + k - 1 => i \in first..(first + k - 1)
    BY <2>1, <2>3
  <2>. QED
    BY <2>1, <2>2, <2>3, <2>4, <2>5, <2>6, <2>7
<1>. QED
  BY <1>1, CallInvAlways, WrittenInvAlways, PTL

-----------------------------------------------------------------------------
(***************************************************************************)
(* What readers see: the readable lines, counted from the first.           *)
(***************************************************************************)

\* The count of readable lines goes up by one with each of them.
LEMMA CountStep ==
    ASSUME NEW lines, NEW i \in Nat
    PROVE  /\ ReadableUpTo(lines, 0) = 0
           /\ ReadableUpTo(lines, i) \in Nat
           /\ ReadableUpTo(lines, i + 1) =
                IF Readable(lines[i + 1]) THEN ReadableUpTo(lines, i) + 1 ELSE ReadableUpTo(lines, i)
<1>. DEFINE upTo(k) == {j \in 1..k : Readable(lines[j])}
<1>1. upTo(0) = {}
  OBVIOUS
<1>2. IsFiniteSet(upTo(i))
  <2>1. IsFiniteSet(1..i)
    BY FS_Interval
  <2>. QED
    BY <2>1, FS_Subset
<1>3. i + 1 \notin 1..i /\ 1..(i + 1) = (1..i) \cup {i + 1}
  OBVIOUS
<1>4. upTo(i + 1) = IF Readable(lines[i + 1]) THEN upTo(i) \cup {i + 1} ELSE upTo(i)
  BY <1>3
<1>5. i + 1 \notin upTo(i)
  BY <1>3
<1>. HIDE DEF upTo
<1>6. Cardinality(upTo(i)) \in Nat
  BY <1>2, FS_CardinalityType
<1>7. Cardinality(upTo(i + 1)) =
        IF Readable(lines[i + 1]) THEN Cardinality(upTo(i)) + 1 ELSE Cardinality(upTo(i))
  BY <1>2, <1>4, <1>5, FS_AddElement
<1>8. \A k : ReadableUpTo(lines, k) = Cardinality(upTo(k))
  BY DEF ReadableUpTo, upTo
<1>. QED
  BY <1>1, <1>6, <1>7, <1>8, FS_EmptySet

\* Of two lines the later has no smaller count, and a larger one if readable.
LEMMA CountGrows ==
    ASSUME NEW lines, NEW i \in Nat, NEW j \in Nat, i < j
    PROVE  /\ ReadableUpTo(lines, i) <= ReadableUpTo(lines, j)
           /\ Readable(lines[j]) => ReadableUpTo(lines, i) < ReadableUpTo(lines, j)
<1>. DEFINE upTo(k) == {l \in 1..k : Readable(lines[l])}
<1>1. j - 1 \in Nat /\ (j - 1) + 1 = j /\ \A l \in 1..i : l \in 1..(j - 1)
  OBVIOUS
<1>2. upTo(i) \subseteq upTo(j - 1)
  BY <1>1
<1>3. IsFiniteSet(upTo(j - 1))
  <2>1. IsFiniteSet(1..(j - 1))
    BY <1>1, FS_Interval
  <2>. QED
    BY <2>1, FS_Subset
<1>. HIDE DEF upTo
<1>4. Cardinality(upTo(i)) <= Cardinality(upTo(j - 1))
  BY <1>2, <1>3, FS_Subset
<1>5. ReadableUpTo(lines, i) <= ReadableUpTo(lines, j - 1)
  BY <1>4 DEF ReadableUpTo, upTo
<1>6. /\ ReadableUpTo(lines, i) \in Nat
      /\ ReadableUpTo(lines, j - 1) \in Nat
      /\ ReadableUpTo(lines, j) = IF Readable(lines[j]) THEN ReadableUpTo(lines, j - 1) + 1
                                  ELSE ReadableUpTo(lines, j - 1)
  BY <1>1, CountStep
<1>. QED
  BY <1>5, <1>6

\* Every count up to the last is the count of one readable line.
LEMMA CountReached ==
    ASSUME NEW lines, NEW m \in Nat, NEW n \in 1..ReadableUpTo(lines, m)
    PROVE  \E i \in 1..m : Readable(lines[i]) /\ ReadableUpTo(lines, i) = n
<1>. DEFINE T == {i \in 1..m : ReadableUpTo(lines, i) >= n}
<1>1. ReadableUpTo(lines, m) \in Nat /\ ReadableUpTo(lines, 0) = 0
  BY CountStep
<1>2. m \in T
  <2>1. m # 0
    BY <1>1
  <2>. QED
    BY <1>1, <2>1
<1>3. PICK i \in T : \A j \in T : i <= j
  <2>1. T \subseteq Nat /\ T # {}
    BY <1>2
  <2>. HIDE DEF T
  <2>. QED
    BY <2>1, Least
<1>4. i \in 1..m /\ i - 1 \in Nat /\ (i - 1) + 1 = i /\ ReadableUpTo(lines, i) >= n
  BY <1>3
<1>5. ReadableUpTo(lines, i - 1) < n
  <2>1. ReadableUpTo(lines, i - 1) \in Nat
    BY <1>4, CountStep
  <2>2. CASE i = 1
    BY <1>1, <2>2
  <2>3. CASE i # 1
    <3>1. i - 1 \in 1..m /\ ~(i <= i - 1)
      BY <1>4, <2>3
    <3>2. ~(ReadableUpTo(lines, i - 1) >= n)
      BY <1>3, <3>1
    <3>. QED
      BY <2>1, <3>2
  <2>. QED
    BY <2>2, <2>3
<1>6. /\ ReadableUpTo(lines, i - 1) \in Nat
      /\ ReadableUpTo(lines, i) = IF Readable(lines[i]) THEN ReadableUpTo(lines, i - 1) + 1
                                  ELSE ReadableUpTo(lines, i - 1)
  BY <1>4, CountStep
<1>7. Readable(lines[i]) /\ ReadableUpTo(lines, i) = n
  BY <1>4, <1>5, <1>6
<1>. QED
  BY <1>4, <1>7

\* What EntriesOf returns: a trail with the content of every readable line at
\* its count, and of nothing else.
LEMMA EntriesListed ==
    ASSUME NEW lines \in Seq(Line)
    PROVE  /\ EntriesOf(lines) \in Seq(Trail!Entry)
           /\ Len(EntriesOf(lines)) = ReadableUpTo(lines, Len(lines))
           /\ \A i \in 1..Len(lines) : Readable(lines[i]) =>
                 EntriesOf(lines)[ReadableUpTo(lines, i)] = Content(lines[i])
<1>1. PICK m \in Nat : m = Len(lines) /\ \A i \in 1..m : lines[i] \in Line
  OBVIOUS
<1>2. PICK c \in Nat : c = ReadableUpTo(lines, m)
  BY CountStep
<1>. DEFINE is(n, i) == Readable(lines[i]) /\ ReadableUpTo(lines, i) = n
<1>3. \A n \in 1..c : \E i \in 1..m : is(n, i)
  BY <1>2, CountReached
<1>4. \A n \in 1..c : Nth(lines, n) \in 1..m /\ is(n, Nth(lines, n))
  BY <1>1, <1>3 DEF Nth
<1>5. ASSUME NEW n, NEW i \in 1..m, NEW j \in 1..m, is(n, i), is(n, j)
      PROVE  i = j
  <2>1. \A k \in 1..m : ReadableUpTo(lines, k) \in Nat
    BY CountStep
  <2>2. ~(i < j) /\ ~(j < i)
    BY <1>5, <2>1, CountGrows
  <2>. QED
    BY <2>2
<1>6. ASSUME NEW i \in 1..m, Readable(lines[i])
      PROVE  ReadableUpTo(lines, i) \in 1..c /\ Nth(lines, ReadableUpTo(lines, i)) = i
  <2>1. PICK n \in Nat : n = ReadableUpTo(lines, i)
    BY CountStep
  <2>2. n >= 1
    <3>1. 0 < i
      OBVIOUS
    <3>2. ReadableUpTo(lines, 0) < ReadableUpTo(lines, i)
      BY <1>6, <3>1, CountGrows
    <3>. QED
      BY <2>1, <3>2, CountStep
  <2>3. n <= c
    <3>1. CASE i = m
      BY <1>2, <2>1, <3>1
    <3>2. CASE i # m
      <4>1. i < m
        BY <3>2
      <4>. QED
        BY <1>2, <2>1, <4>1, CountGrows
    <3>. QED
      BY <3>1, <3>2
  <2>4. n \in 1..c /\ is(n, i)
    BY <1>6, <2>1, <2>2, <2>3
  <2>5. Nth(lines, n) \in 1..m /\ is(n, Nth(lines, n))
    BY <1>4, <2>4
  <2>. HIDE DEF is
  <2>6. Nth(lines, n) = i
    BY <1>5, <2>4, <2>5
  <2>. QED
    BY <2>1, <2>4, <2>6
<1>7. \A line \in Line : Content(line) \in Trail!Entry
  BY DEF Content, Trail!Entry, Line
<1>8. EntriesOf(lines) = [n \in 1..c |-> Content(lines[Nth(lines, n)])]
  BY <1>1, <1>2 DEF EntriesOf
<1>. HIDE DEF is
<1>9. \A n \in 1..c : Content(lines[Nth(lines, n)]) \in Trail!Entry
  BY <1>1, <1>4, <1>7
<1>10. EntriesOf(lines) \in [1..c -> Trail!Entry]
  BY <1>8, <1>9
<1>11. EntriesOf(lines) \in Seq(Trail!Entry) /\ Len(EntriesOf(lines)) = c
  <2>1. EntriesOf(lines) \in Seq(Trail!Entry)
    BY <1>10, SeqDef
  <2>. QED
    BY <1>10, <2>1, LenProperties
<1>12. \A i \in 1..m : Readable(lines[i]) =>
          EntriesOf(lines)[ReadableUpTo(lines, i)] = Content(lines[i])
  BY <1>6, <1>8
<1>. QED
  BY <1>1, <1>2, <1>11, <1>12

\* And it is the only one.
LEMMA EntriesOnly ==
    ASSUME NEW lines \in Seq(Line), NEW trail \in Seq(Trail!Entry),
           Len(trail) = ReadableUpTo(lines, Len(lines)),
           \A i \in 1..Len(lines) : Readable(lines[i]) => trail[ReadableUpTo(lines, i)] = Content(lines[i])
    PROVE  trail = EntriesOf(lines)
<1>1. /\ EntriesOf(lines) \in Seq(Trail!Entry)
      /\ Len(EntriesOf(lines)) = Len(trail)
  BY EntriesListed
<1>2. ASSUME NEW n \in 1..Len(trail)
      PROVE  trail[n] = EntriesOf(lines)[n]
  <2>1. Len(lines) \in Nat
    OBVIOUS
  <2>2. PICK i \in 1..Len(lines) : Readable(lines[i]) /\ ReadableUpTo(lines, i) = n
    BY <2>1, CountReached
  <2>. QED
    BY <2>2, EntriesListed
<1>. QED
  BY <1>1, <1>2, SeqEqual

\* The counts depend on the lines counted alone.
LEMMA CountSame ==
    ASSUME NEW lines, NEW others, NEW m \in Nat, \A i \in 1..m : lines[i] = others[i], NEW k \in 0..m
    PROVE  ReadableUpTo(lines, k) = ReadableUpTo(others, k)
<1>1. \A j \in 1..k : j \in 1..m
  OBVIOUS
<1>2. {j \in 1..k : Readable(lines[j])} = {j \in 1..k : Readable(others[j])}
  BY <1>1
<1>. QED
  BY <1>2 DEF ReadableUpTo

\* A line at the end, in place of a last line that could not be read if there is
\* one more, is the last entry of the trail or is not in it.
LEMMA EntriesExtended ==
    ASSUME NEW lines \in Seq(Line), NEW others \in Seq(Line), NEW m \in Nat,
           Len(others) = m + 1, \A i \in 1..m : others[i] = lines[i],
           Len(lines) = m \/ (Len(lines) = m + 1 /\ ~Readable(lines[m + 1]))
    PROVE  EntriesOf(others) = IF Readable(others[m + 1])
                               THEN Append(EntriesOf(lines), Content(others[m + 1]))
                               ELSE EntriesOf(lines)
<1>. DEFINE trail == EntriesOf(lines)
            extended == IF Readable(others[m + 1]) THEN Append(trail, Content(others[m + 1])) ELSE trail
            upTo(i) == ReadableUpTo(lines, i)
            c == upTo(m)
<1>1. c \in Nat /\ upTo(Len(lines)) = c
  BY CountStep
<1>2. \A k \in 0..m : ReadableUpTo(others, k) = upTo(k)
  BY CountSame
<1>3. /\ ReadableUpTo(others, m) = c
      /\ ReadableUpTo(others, m + 1) = IF Readable(others[m + 1]) THEN c + 1 ELSE c
  <2>1. m \in 0..m
    OBVIOUS
  <2>2. ReadableUpTo(others, m) = c
    BY <1>2, <2>1
  <2>. QED
    BY <2>2, CountStep
<1>4. /\ trail \in Seq(Trail!Entry)
      /\ Len(trail) = c
      /\ \A i \in 1..m : Readable(others[i]) => trail[upTo(i)] = Content(others[i])
  <2>1. \A i \in 1..m : i \in 1..Len(lines)
    OBVIOUS
  <2>. QED
    BY <1>1, <2>1, EntriesListed
<1>5. \A i \in 1..m : Readable(others[i]) => upTo(i) \in 1..c
  <2>. SUFFICES ASSUME NEW i \in 1..m, Readable(others[i])
                PROVE  upTo(i) \in 1..c
    OBVIOUS
  <2>1. upTo(i) \in Nat /\ upTo(0) = 0 /\ Readable(lines[i])
    BY CountStep
  <2>2. 0 < i
    OBVIOUS
  <2>3. upTo(0) < upTo(i)
    BY <2>1, <2>2, CountGrows
  <2>4. upTo(i) <= c
    <3>1. CASE i = m
      BY <1>1, <3>1
    <3>2. CASE i < m
      BY <3>2, CountGrows
    <3>. QED
      BY <3>1, <3>2
  <2>. QED
    BY <1>1, <2>1, <2>3, <2>4
<1>6. Content(others[m + 1]) \in Trail!Entry
  <2>1. others[m + 1] \in Line
    OBVIOUS
  <2>. QED
    BY <2>1 DEF Content, Trail!Entry, Line
<1>7. \A i \in 1..(m + 1) : i = m + 1 \/ i \in 1..m
  OBVIOUS
<1>8. \A i \in 1..m : ReadableUpTo(others, i) = upTo(i)
  BY <1>2
<1>. HIDE DEF trail, upTo, c
<1>9. /\ extended \in Seq(Trail!Entry)
      /\ Len(extended) = ReadableUpTo(others, m + 1)
  BY <1>1, <1>3, <1>4, <1>6
<1>10. ASSUME NEW i \in 1..(m + 1), Readable(others[i])
       PROVE  extended[ReadableUpTo(others, i)] = Content(others[i])
  <2>1. CASE i = m + 1
    <3>1. extended = Append(trail, Content(others[m + 1])) /\ ReadableUpTo(others, i) = c + 1
      BY <1>3, <1>10, <2>1
    <3>. QED
      BY <1>1, <1>4, <1>6, <2>1, <3>1
  <2>2. CASE i \in 1..m
    <3>1. ReadableUpTo(others, i) \in 1..c /\ trail[ReadableUpTo(others, i)] = Content(others[i])
      BY <1>4, <1>5, <1>8, <1>10, <2>2
    <3>2. \A k \in 1..c : extended[k] = trail[k]
      BY <1>1, <1>4, <1>6
    <3>. QED
      BY <3>1, <3>2
  <2>. QED
    BY <1>7, <2>1, <2>2
<1>. HIDE DEF extended
<1>11. extended = EntriesOf(others)
  BY <1>9, <1>10, EntriesOnly
<1>. QED
  BY <1>11 DEF extended, trail

\* A last line that says the same as the one it replaces changes nothing.
LEMMA EntriesSame ==
    ASSUME NEW lines \in Seq(Line), NEW others \in Seq(Line), NEW m \in Nat,
           Len(others) = m + 1, Len(lines) = m + 1, \A i \in 1..m : others[i] = lines[i],
           Readable(lines[m + 1]), Readable(others[m + 1]), Content(lines[m + 1]) = Content(others[m + 1])
    PROVE  EntriesOf(others) = EntriesOf(lines)
<1>1. \A k \in 0..m : ReadableUpTo(others, k) = ReadableUpTo(lines, k)
  BY CountSame
<1>2. \A k \in 1..(m + 1) : k = m + 1 \/ (k \in 1..m /\ k \in 0..m)
  OBVIOUS
<1>3. ReadableUpTo(others, m + 1) = ReadableUpTo(lines, m + 1)
  <2>1. m \in 0..m
    OBVIOUS
  <2>2. ReadableUpTo(others, m) = ReadableUpTo(lines, m)
    BY <1>1, <2>1
  <2>3. ReadableUpTo(others, m + 1) = ReadableUpTo(others, m) + 1
    BY CountStep
  <2>4. ReadableUpTo(lines, m + 1) = ReadableUpTo(lines, m) + 1
    BY CountStep
  <2>. QED
    BY <2>2, <2>3, <2>4
<1>4. \A k \in 1..(m + 1) : /\ ReadableUpTo(others, k) = ReadableUpTo(lines, k)
                            /\ Readable(others[k]) <=> Readable(lines[k])
                            /\ Content(others[k]) = Content(lines[k])
  BY <1>1, <1>2, <1>3
<1>5. EntriesOf(lines) \in Seq(Trail!Entry) /\ Len(EntriesOf(lines)) = ReadableUpTo(others, Len(others))
  BY <1>3, EntriesListed
<1>6. \A i \in 1..Len(others) : Readable(others[i]) =>
         EntriesOf(lines)[ReadableUpTo(others, i)] = Content(others[i])
  BY <1>4, EntriesListed
<1>. QED
  BY <1>5, <1>6, EntriesOnly

-----------------------------------------------------------------------------
(***************************************************************************)
(* The refinement.  A step of a call begins or ends its turn, adds its     *)
(* next event to the trail, or does nothing a reader sees; a line of which *)
(* all but the newline is in the file is read before it is complete.       *)
(***************************************************************************)

\* The line a call is working on is that of its next event.
OwnLine ==
    \A w \in Writers : pc[w] = "partial" => Content(log[Len(log)]) = Content(Record(w, "sealed"))

LEMMA OwnLineInit == Init => OwnLine
BY DEF Init, OwnLine

LEMMA OwnLineStep ==
    ASSUME CallInv, CallInv', OwnLine, [Next]_vars
    PROVE  OwnLine'
<1>. USE DEF CallInv
<1>1. \A w \in Writers : Content(Record(w, "sealed")) = [by |-> w, key |-> NextEvent(w).key, once |-> NextEvent(w).once]
  BY DEF Content, Record
<1>2. \A w \in Writers : pc'[w] = "partial" =>
        Content(log[Len(log)])' = [by |-> w, key |-> NextEvent(w).key, once |-> NextEvent(w).once]'
  <2>1. ASSUME NEW w \in Writers, Quiet(w) \/ ReadHead(w) \/ WriteLine(w) \/ WriteRest(w),
               NEW v \in Writers, pc'[v] = "partial"
        PROVE  pc[v] = "partial" /\ log' = log /\ UNCHANGED <<batch, done[v]>>
    <3>1. CASE Quiet(w)
      <4>1. pc[v] = "partial" /\ log' = log /\ batch' = batch
        BY <2>1, <3>1, QuietStep
      <4>2. CASE SkipEvent(w)
        <5>1. v # w
          BY <4>1, <4>2 DEF SkipEvent
        <5>. QED
          BY <4>1, <4>2, <5>1 DEF SkipEvent, TypeOK
      <4>3. ~SkipEvent(w) => done' = done
        BY <3>1 DEF Quiet, Open, OpenFails, Acquire, LockTimeout, RejectBatch, Finish, WriteFails, Crash
      <4>. QED
        BY <4>1, <4>2, <4>3
    <3>2. CASE ReadHead(w)
      BY <2>1, <3>2 DEF ReadHead, Goto, TypeOK, fileVars
    <3>3. CASE WriteLine(w) \/ WriteRest(w)
      <4>1. pc[w] \in {"writing", "partial"} /\ pc'[w] = "writing" /\ \A u \in Writers : u # w => pc'[u] = pc[u]
        BY <3>3 DEF WriteLine, WriteRest, Goto, TypeOK
      <4>. QED
        BY <2>1, <4>1, OnlyHolderWrites
    <3>. QED
      BY <2>1, <3>1, <3>2, <3>3
  <2>2. ASSUME NEW w \in Writers, WritePart(w), NEW v \in Writers, pc'[v] = "partial"
        PROVE  Content(log[Len(log)])' = [by |-> v, key |-> NextEvent(v).key, once |-> NextEvent(v).once]'
    <3>1. PICK kind \in {"torn", "sealed"} : log' = Extended(Record(w, kind))
      BY <2>2 DEF WritePart
    <3>2. log' = Append(log, Record(w, kind))
      <4>1. terminated \in BOOLEAN
        BY DEF TypeOK
      <4>. HIDE DEF CallInv
      <4>. QED
        BY <3>1, <4>1, ExtendedAppends
    <3>3. UNCHANGED <<batch, done>> /\ pc[w] = "writing" /\ \A u \in Writers : u # w => pc'[u] = pc[u]
      BY <2>2 DEF WritePart, Goto, TypeOK
    <3>4. v = w
      BY <2>2, <3>3, OnlyHolderWrites
    <3>5. log'[Len(log')] = Record(w, kind)
      BY <3>2 DEF TypeOK
    <3>6. NextEvent(w)' = NextEvent(w)
      BY <3>3 DEF NextEvent
    <3>. QED
      BY <3>4, <3>5, <3>6 DEF Content, Record
  <2>3. ByHand => \A v \in Writers : pc'[v] # "partial"
    BY AuditAssumption DEF ByHand, EditLine, DropLine, SwapLines, RewriteTail, Tamper, LockInv, callVars
  <2>4. KeepAnchor \/ UNCHANGED vars => UNCHANGED <<log, pc, batch, done>>
    BY DEF KeepAnchor, vars, fileVars, callVars
  <2>5. ASSUME NEW v \in Writers, pc'[v] = "partial",
               pc[v] = "partial" /\ log' = log /\ UNCHANGED <<batch, done[v]>>
        PROVE  Content(log[Len(log)])' = [by |-> v, key |-> NextEvent(v).key, once |-> NextEvent(v).once]'
    BY <1>1, <2>5 DEF OwnLine, Content, NextEvent
  <2>. QED
    BY <2>1, <2>2, <2>3, <2>4, <2>5 DEF Next, Append_events, Quiet
<1>. QED
  BY <1>2 DEF OwnLine, Content, Record

LEMMA OwnLineAlways == Spec => []OwnLine
<1>1. CallInv /\ CallInv' /\ OwnLine /\ [Next]_vars => OwnLine'
  BY OwnLineStep
<1>. QED
  BY <1>1, OwnLineInit, CallInvAlways, PTL DEF Spec

LEMMA EntriesPrime == Entries' = EntriesOf(log')
BY DEF Entries, EntriesOf, ReadableUpTo, Readable, Nth, Content

\* A record that is no suppression of a content the trail has is one the
\* abstract trail accepts.
LEMMA TrailRecord ==
    ASSUME TypeOK, NEW w \in Writers, lock = w, lock' = w, NEW line \in Line, line.by = w,
           Entries' = Append(Entries, Content(line)),
           \A i \in DOMAIN log : Readable(log[i]) /\ log[i].once /\ line.once => log[i].key # line.key
    PROVE  Trail!Record(w)
<1>1. Content(line) \in Trail!Entry
  BY DEF Content, Trail!Entry, Line
<1>2. ASSUME NEW n \in DOMAIN Entries
      PROVE  \E i \in DOMAIN log : Readable(log[i]) /\ Entries[n] = Content(log[i])
  <2>1. log \in Seq(Line) /\ Len(log) \in Nat /\ DOMAIN log = 1..Len(log)
    BY DEF TypeOK
  <2>2. Entries \in Seq(Trail!Entry) /\ Len(Entries) = ReadableUpTo(log, Len(log))
    BY <2>1, EntriesListed DEF Entries
  <2>3. n \in 1..ReadableUpTo(log, Len(log))
    BY <2>2
  <2>4. PICK i \in 1..Len(log) : Readable(log[i]) /\ ReadableUpTo(log, i) = n
    BY <2>1, <2>3, CountReached
  <2>. QED
    BY <2>1, <2>4, EntriesListed DEF Entries
<1>3. ASSUME NEW n \in DOMAIN Entries, line.once
      PROVE  ~(Entries[n].once /\ Entries[n].key = line.key)
  <2>1. PICK i \in DOMAIN log : Readable(log[i]) /\ Entries[n] = Content(log[i])
    BY <1>2
  <2>2. Entries[n].once = log[i].once /\ Entries[n].key = log[i].key
    BY <2>1 DEF Content
  <2>. QED
    BY <1>3, <2>1, <2>2
<1>4. Content(line).by = w /\ Content(line).once = line.once /\ Content(line).key = line.key
  BY DEF Content
<1>. QED
  BY <1>1, <1>3, <1>4 DEF Trail!Record

\* No line that can be read back is a suppression of the content that is written.
LEMMA NextNotInFile ==
    ASSUME CallInv, Once, SeenInv, NEW w \in Writers, Pending(w), ~Skipped(w),
           pc[w] = "writing" \/ (pc[w] = "partial" /\ log # <<>> /\ ~Readable(log[Len(log)])),
           NEW i \in DOMAIN log, Readable(log[i]), log[i].once, NextEvent(w).once
    PROVE  log[i].key # NextEvent(w).key
<1>1. WantsDedupe(w) /\ ~plan[w].skip /\ NextEvent(w).key \notin plan[w].seen
  BY NextIsNew DEF CallInv
<1>2. Records(i, log[i].key)
  BY DEF Records, Readable
<1>3. log[i].key \in plan[w].seen
  <2>1. CASE pc[w] = "writing"
    BY <1>1, <1>2, <2>1 DEF SeenInv
  <2>2. CASE pc[w] = "partial" /\ ~Readable(log[Len(log)])
    <3>1. i \in 1..Len(log) /\ i # Len(log)
      BY <2>2 DEF CallInv, TypeOK
    <3>2. i \in 1..(Len(log) - 1)
      BY <3>1 DEF CallInv, TypeOK
    <3>. QED
      BY <1>1, <1>2, <2>2, <3>2 DEF SeenInv
  <2>. QED
    BY <2>1, <2>2
<1>. QED
  BY <1>1, <1>3

LEMMA TrailStep ==
    ASSUME CallInv, CallInv', OnceInv, OwnLine, tampers = 0, [Next]_vars, ~ByHand
    PROVE  [Trail!Next]_<<Entries, lock>>
<1>. USE DEF CallInv
<1>0. /\ log \in Seq(Line) /\ log' \in Seq(Line) /\ Once /\ SeenInv
      /\ Entries' = EntriesOf(log') /\ Entries = EntriesOf(log)
  BY EntriesPrime DEF TypeOK, OnceInv, Entries
<1>1. ASSUME NEW w \in Writers, Open(w) \/ OpenFails(w) \/ LockTimeout(w) \/ ReadHead(w) \/ SkipEvent(w)
      PROVE  log' = log /\ lock' = lock
  BY <1>1 DEF Open, OpenFails, LockTimeout, ReadHead, SkipEvent, fileVars
<1>2. ASSUME NEW w \in Writers, Acquire(w)
      PROVE  Trail!Next
  <2>1. lock = NoWriter /\ lock' = w /\ log' = log
    BY <1>2 DEF Acquire, LockFree, fileVars
  <2>. QED
    BY <1>0, <2>1 DEF Trail!Next, Trail!Begin
<1>3. ASSUME NEW w \in Writers, RejectBatch(w) \/ Finish(w) \/ WriteFails(w) \/ Crash(w)
      PROVE  Trail!Next \/ (log' = log /\ lock' = lock)
  <2>1. log' = log
    BY <1>3 DEF RejectBatch, Finish, WriteFails, Crash, fileVars
  <2>2. lock' = lock \/ (lock = w /\ lock' = NoWriter)
    <3>1. ASSUME RejectBatch(w) \/ Finish(w) \/ WriteFails(w)
          PROVE  lock = w /\ lock' = NoWriter
      BY <3>1 DEF RejectBatch, Finish, WriteFails, LockInv
    <3>2. Crash(w) => lock' = lock \/ (lock = w /\ lock' = NoWriter)
      BY DEF Crash
    <3>. QED
      BY <1>3, <3>1, <3>2
  <2>. QED
    BY <1>0, <2>1, <2>2 DEF Trail!Next, Trail!End
<1>4. ASSUME NEW w \in Writers, WriteLine(w) \/ WritePart(w)
      PROVE  [Trail!Next]_<<Entries, lock>>
  <2>1. PICK kind \in {"torn", "sealed"} : log' = Extended(Record(w, kind))
    BY <1>4 DEF WriteLine, WritePart
  <2>. DEFINE line == Record(w, kind)
  <2>2. pc[w] = "writing" /\ Pending(w) /\ ~Skipped(w) /\ lock' = lock /\ lock = w
    BY <1>4 DEF WriteLine, WritePart, LockInv
  <2>3. line \in Line /\ log' = Append(log, line)
    BY <2>1, <2>2, ExtendedAppends, RecordType DEF TypeOK, Kinds
  <2>4. line.by = w /\ line.key = NextEvent(w).key /\ line.once = NextEvent(w).once
    BY DEF Record
  <2>. HIDE DEF line
  <2>5. PICK n \in Nat : n = Len(log)
    BY <1>0
  <2>6. Len(log') = n + 1 /\ (\A i \in 1..n : log'[i] = log[i]) /\ log'[n + 1] = line
    BY <1>0, <2>3, <2>5
  <2>7. Entries' = IF Readable(line) THEN Append(Entries, Content(line)) ELSE Entries
    BY <1>0, <2>5, <2>6, EntriesExtended
  <2>8. \A i \in DOMAIN log : Readable(log[i]) /\ log[i].once /\ line.once => log[i].key # line.key
    BY <1>0, <2>2, <2>4, NextNotInFile
  <2>9. CASE Readable(line)
    <3>1. Trail!Record(w)
      BY <2>2, <2>3, <2>4, <2>7, <2>8, <2>9, TrailRecord
    <3>. QED
      BY <3>1 DEF Trail!Next
  <2>10. CASE ~Readable(line)
    BY <2>2, <2>7, <2>10
  <2>. QED
    BY <2>9, <2>10
<1>5. ASSUME NEW w \in Writers, WriteRest(w)
      PROVE  [Trail!Next]_<<Entries, lock>>
  <2>. DEFINE line == Record(w, "sealed")
  <2>1. pc[w] = "partial" /\ log # <<>> /\ Pending(w) /\ ~Skipped(w) /\ lock' = lock /\ lock = w
    BY <1>5 DEF WriteRest, PartialInv, LockInv
  <2>2. log' = [log EXCEPT ![Len(log)] = line] /\ line \in Line
    BY <1>5, <2>1, RecordType DEF WriteRest, Kinds
  <2>3. /\ line.by = w /\ line.key = NextEvent(w).key /\ line.once = NextEvent(w).once
        /\ Readable(line)
        /\ Content(log[Len(log)]) = Content(line)
    BY <2>1 DEF Record, Readable, OwnLine
  <2>. HIDE DEF line
  <2>4. PICK m \in Nat : Len(log) = m + 1 /\ (m + 1) - 1 = m
    <3>1. Len(log) \in Nat /\ Len(log) # 0
      BY <1>0, <2>1
    <3>2. Len(log) - 1 \in Nat /\ Len(log) = (Len(log) - 1) + 1
      BY <3>1
    <3>. QED
      BY <3>2
  <2>5. Len(log') = m + 1 /\ (\A i \in 1..m : log'[i] = log[i]) /\ log'[m + 1] = line
    BY <1>0, <2>1, <2>2, <2>4, ReplaceLast, Zenon
  <2>6. CASE Readable(log[m + 1])
    <3>1. Content(log[m + 1]) = Content(log'[m + 1]) /\ Readable(log'[m + 1])
      BY <2>3, <2>4, <2>5
    <3>2. EntriesOf(log') = EntriesOf(log)
      BY <1>0, <2>4, <2>5, <2>6, <3>1, EntriesSame
    <3>. QED
      BY <1>0, <2>1, <3>2
  <2>7. CASE ~Readable(log[m + 1])
    <3>1. Entries' = Append(Entries, Content(line))
      BY <1>0, <2>3, <2>4, <2>5, <2>7, EntriesExtended
    <3>2. \A i \in DOMAIN log : Readable(log[i]) /\ log[i].once /\ line.once => log[i].key # line.key
      BY <1>0, <2>1, <2>3, <2>4, <2>7, NextNotInFile
    <3>3. Trail!Record(w)
      BY <2>1, <2>2, <2>3, <3>1, <3>2, TrailRecord
    <3>. QED
      BY <3>3 DEF Trail!Next
  <2>. QED
    BY <2>6, <2>7
<1>6. KeepAnchor \/ UNCHANGED vars => log' = log /\ lock' = lock
  BY DEF KeepAnchor, vars, fileVars
<1>7. log' = log => Entries' = Entries
  BY <1>0
<1>. QED
  BY <1>1, <1>2, <1>3, <1>4, <1>5, <1>6, <1>7 DEF Next, Append_events

LEMMA TrailInit == Init => Trail!Init
<1>. SUFFICES ASSUME Init
              PROVE  Entries = <<>> /\ lock = NoWriter
  BY DEF Trail!Init
<1>1. log = <<>> /\ log \in Seq(Line) /\ Len(log) = 0
  BY DEF Init
<1>2. Entries \in Seq(Trail!Entry) /\ Len(Entries) = 0
  BY <1>1, EntriesListed, CountStep DEF Entries
<1>. QED
  BY <1>2 DEF Init

\* Nobody changes the file by hand.
LEMMA Untouched ==
    ASSUME MaxTampers = 0
    PROVE  Spec => [](tampers = 0)
<1>1. Init => tampers = 0
  BY DEF Init
<1>2. tampers = 0 /\ [Next]_vars => (tampers = 0)'
  <2>1. ~(0 < MaxTampers)
    OBVIOUS
  <2>2. ByHand => tampers < MaxTampers
    BY DEF ByHand, EditLine, DropLine, SwapLines, RewriteTail, Tamper
  <2>. QED
    BY <2>1, <2>2 DEF Next, Append_events, Open, OpenFails, Acquire, LockTimeout, ReadHead, RejectBatch,
         SkipEvent, WriteLine, WritePart, WriteRest, Finish, WriteFails, Crash, KeepAnchor, vars
<1>. QED
  BY <1>1, <1>2, PTL DEF Spec

\* As long as nobody changes the file by hand, readers of the log see one trail
\* that only grows, written by one process at a time, with every suppression in
\* it once: the log implements AuditTrail (append_events, docs/audit-log.md).
THEOREM TrailImplemented ==
    ASSUME MaxTampers = 0
    PROVE  Spec => ImplementsTrail
<1>1. tampers = 0 /\ (tampers = 0)' /\ [Next]_vars => ~ByHand
  <2>1. ByHand => tampers' = tampers + 1
    BY DEF ByHand, EditLine, DropLine, SwapLines, RewriteTail, Tamper
  <2>. QED
    BY <2>1
<1>2. CallInv /\ CallInv' /\ OnceInv /\ OwnLine /\ tampers = 0 /\ (tampers = 0)' /\ [Next]_vars
        => [Trail!Next]_<<Entries, lock>>
  BY <1>1, TrailStep
<1>. QED
  BY <1>2, TrailInit, Untouched, CallInvAlways, OnceInvAlways, OwnLineAlways, PTL
     DEF Spec, ImplementsTrail, Trail!Spec

===============================================================================
