----------------------------- MODULE MCDashboard -----------------------------
(***************************************************************************)
(* A small instance of Dashboard: three reports of two projects, one of    *)
(* them of an old scan, of which one scan is kept.                         *)
(***************************************************************************)
EXTENDS Dashboard

CONSTANTS r1, r2, r3, app, web

MCRequests == {r1, r2, r3}
MCSlugs == {app, web}

MCSlugOf == [r \in Requests |-> IF r = r2 THEN web ELSE app]
MCSize == [r \in Requests |-> IF r = r2 THEN 2 ELSE 1]

\* The report of r3 is older than any other scan.
MCWhen == [r \in Requests |-> IF r = r3 THEN 0 ELSE 9]
===============================================================================
