---------------------------- MODULE MCAgentCycle ----------------------------
(***************************************************************************)
(* A small instance of AgentCycle: one monitored file and one target whose *)
(* only issue changes its severity.                                        *)
(***************************************************************************)
EXTENDS AgentCycle

CONSTANTS sshd, fim, app, a, b, m1, m2

MCSteps == <<fim, app>>

Issue(severity) == [rule |-> "issue", at |-> app, severity |-> severity]

MCResults == {{Issue(Medium)}, {Issue(High)}}

\* The two contents and the two modes are alike: a file that is there starts with
\* the first of each.
MCInit ==
    /\ Init
    /\ host[sshd] = Absent \/ (host[sshd].content = a /\ host[sshd].mode = m1)

MCSpec == MCInit /\ [][Next]_vars /\ Fairness
=============================================================================
