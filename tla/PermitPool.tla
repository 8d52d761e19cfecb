----------------------------- MODULE PermitPool -----------------------------
(***************************************************************************)
(* A pool as those see it who only wait for it: Size permits, each taken   *)
(* and given back by the client that took it, or lost when the kernel of   *)
(* its worker does not start.                                              *)
(***************************************************************************)
EXTENDS Naturals, FiniteSets

CONSTANTS Client, Size

VARIABLES
  holders,   \* the clients that have a permit
  leaked     \* how many permits are lost

vars == <<holders, leaked>>

Room == Cardinality(holders) + leaked < Size

Init == holders = {} /\ leaked = 0

Take(c) ==
  /\ c \notin holders /\ Room
  /\ holders' = holders \cup {c}
  /\ UNCHANGED leaked

Give(c) ==
  /\ c \in holders
  /\ holders' = holders \ {c}
  /\ UNCHANGED leaked

(* Its permit, or one that it has just taken. *)
Lose(c) ==
  /\ c \in holders \/ Room
  /\ holders' = holders \ {c}
  /\ leaked' = leaked + 1

Next == \E c \in Client : Take(c) \/ Give(c) \/ Lose(c)

Spec == Init /\ [][Next]_vars
=============================================================================
