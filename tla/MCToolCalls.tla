---------------------------- MODULE MCToolCalls ----------------------------
(* Instances of ToolCalls for TLC: a role with limits of its own, a role   *)
(* that inherits them and has another filter, and a role that the server   *)
(* does not know (of a token that is older than the config file).          *)
EXTENDS ToolCalls, TLC

CONSTANTS q1, q2, q3, admin, reader, gone, plot, run, sysPlot

OneRequest == {q1}
TwoRequests == {q1, q2}
ThreeRequests == {q1, q2, q3}
Roles == {admin, reader, gone}
Tools == {"evaluate", "evaluate_image"}
ShortNames == [s \in {plot, run, sysPlot} |-> IF s = sysPlot THEN plot ELSE s]
Exprs == {{sysPlot}, {run}}   \* System`Plot, Run
Limits == 0..2
Lengths == {1, 3}

Settings(tools, filter, hard, size) ==
  [tools |-> tools, filter |-> filter, hard |-> hard, size |-> size]

RuntimesOf == [x \in Roles |->
  CASE x = admin  -> Settings(Tools, Filter("blacklist", {plot}), 2, 1)
    [] x = reader -> Settings({"evaluate"}, Filter("whitelist", {plot}), 0, 0)
    [] x = gone   -> None]
Defaults == Settings({"evaluate"}, Filter("blacklist", {}), 1, 2)

RequestSymmetry == Permutations(Request)
=============================================================================
