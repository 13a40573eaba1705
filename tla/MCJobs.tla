------------------------------- MODULE MCJobs -------------------------------
(* Jobs for TLC: a scenario of two jobs with a date.                         *)
EXTENDS Jobs

MCItem(n, d) == [name |-> n, start |-> d]

MCOneScenario == {<<MCItem(1, 1), MCItem(2, 1)>>}

=============================================================================
