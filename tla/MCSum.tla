-------------------------------- MODULE MCSum --------------------------------
(***************************************************************************)
(* ExampleSum with three subtasks and three numbers, no two sums of which  *)
(* are the same.                                                           *)
(***************************************************************************)
EXTENDS ExampleSum

CONSTANTS t1, t2, t3

ThreeSubtasks == {t1, t2, t3}
Numbers == <<1, 2, 4>>

=============================================================================
