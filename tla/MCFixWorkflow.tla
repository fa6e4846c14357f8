---------------------------- MODULE MCFixWorkflow ----------------------------
(***************************************************************************)
(* A small instance of FixWorkflow: two files with a finding and one       *)
(* without.                                                                *)
(***************************************************************************)
EXTENDS FixWorkflow, TLC

CONSTANTS app, db, notes

MCFiles == {app, db, notes}
MCFindings == {app, db}

Situation(force, openPr, verify, ignored, scanned) ==
    [force |-> force, openPr |-> openPr, verify |-> verify,
     ignored |-> ignored, readable |-> TRUE, scanned |-> scanned]

\* fix --verify-with-tests --force-branch --open-pr, plain fix, and fix
\* --force-branch in a project that ignores the log.
MCSituations ==
    {Situation(TRUE, TRUE, TRUE, FALSE, TRUE),
     Situation(FALSE, FALSE, FALSE, FALSE, FALSE),
     Situation(TRUE, FALSE, FALSE, TRUE, TRUE)}
==============================================================================
