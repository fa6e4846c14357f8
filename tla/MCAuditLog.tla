------------------------------ MODULE MCAuditLog ------------------------------
(***************************************************************************)
(* A small instance of AuditLog: three calls, two suppressions and a fix.  *)
(***************************************************************************)
EXTENDS AuditLog, TLC

CONSTANTS w1, w2, w3, ignore, exception, fix

ThreeCalls == {w1, w2, w3}
TwoCalls == {w1, w2}
MCKeys == {ignore, exception, fix}

Suppression(k) == [key |-> k, once |-> TRUE, known |-> TRUE]
Fix == [key |-> fix, once |-> FALSE, known |-> TRUE]
Unknown == [key |-> fix, once |-> FALSE, known |-> FALSE]

\* A scan that sees one suppression, a scan that sees two, and a fix.
ScansAndFixes ==
    {<<Suppression(ignore)>>, <<Suppression(exception), Suppression(ignore)>>, <<Fix>>}

\* A scan, two fixes of one run, and a batch the log refuses.
WithRefused == {<<Suppression(ignore)>>, <<Fix, Fix>>, <<Fix, Unknown>>}

CallSymmetry == Permutations(ThreeCalls)
===============================================================================
