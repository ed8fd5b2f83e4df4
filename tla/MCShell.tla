------------------------------ MODULE MCShell ------------------------------
(***************************************************************************)
(* Shell for TLC: the pipelines a user types in each run.                  *)
(***************************************************************************)
EXTENDS Shell

(* One with a program the shell does not know among them.                  *)
PipelinesTyped == {<<"u1", "u2">>, <<"u1", "ls">>, <<"u1", "u2", "u2">>}

JustTwoStages == {<<"u1", "u2">>}

=============================================================================
