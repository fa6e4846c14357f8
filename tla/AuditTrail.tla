------------------------------ MODULE AuditTrail ------------------------------
(***************************************************************************)
(* What the audit log promises its readers, without files, locks, hashes   *)
(* or crashes: one trail that only grows, written by one process at a      *)
(* time, in which a suppression is recorded once.  AuditLog implements it  *)
(* as long as nobody changes the file by hand.                             *)
(***************************************************************************)
EXTENDS Sequences

CONSTANTS Writers, NoWriter, Keys

VARIABLES
    trail,  \* the records that can be read back, in order
    turn    \* the process that may extend the trail, or NoWriter

Entry == [by: Writers, key: Keys, once: BOOLEAN]

Init ==
    /\ trail = <<>>
    /\ turn = NoWriter

Begin(w) ==
    /\ turn = NoWriter
    /\ turn' = w
    /\ UNCHANGED trail

Record(w) ==
    /\ turn = w
    /\ \E entry \in Entry :
         /\ entry.by = w
         /\ entry.once => \A i \in DOMAIN trail : ~(trail[i].once /\ trail[i].key = entry.key)
         /\ trail' = Append(trail, entry)
    /\ UNCHANGED turn

End(w) ==
    /\ turn = w
    /\ turn' = NoWriter
    /\ UNCHANGED trail

Next == \E w \in Writers : Begin(w) \/ Record(w) \/ End(w)

Spec == Init /\ [][Next]_<<trail, turn>>

===============================================================================
