---------------------------- MODULE MCGroupSetup ----------------------------
(* An instance of GroupSetup for TLC: a dangerous group whose name comes   *)
(* between those of two safe ones, and a seed in each kind; another seed of*)
(* the dangerous group is written with its context, and its short name is  *)
(* the seed of a safe group.                                               *)
EXTENDS GroupSetup

CONSTANTS x, y, ctxY

Names == {x, y, ctxY}
ShortNames == [s \in Names |-> IF s = ctxY THEN y ELSE s]
ThreeGroups == <<"calculus", "file_read", "programming">>
OneDangerous == {"file_read"}
Seeds == [g \in Group |-> CASE g = "calculus"    -> {}
                            [] g = "file_read"   -> {x, ctxY}
                            [] g = "programming" -> {y}]
=============================================================================
