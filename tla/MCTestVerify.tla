---------------------------- MODULE MCTestVerify ----------------------------
(***************************************************************************)
(* A small instance of TestVerify: three fixes in two files.               *)
(***************************************************************************)
EXTENDS TestVerify

CONSTANTS f1, f2, f3, app, db

MCFixes == {f1, f2, f3}

MCFileOf == [f \in MCFixes |-> IF f = f3 THEN db ELSE app]
=============================================================================
