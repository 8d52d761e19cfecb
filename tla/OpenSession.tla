---------------------------- MODULE OpenSession ----------------------------
(***************************************************************************)
(* What a kernel session promises the threads that use it, with no kernel, *)
(* lock or retry: it is open or not, and what the last of the operations   *)
(* under way has made of it counts.  start() and an evaluation do not      *)
(* return before they have found the session or made it open; stop() makes *)
(* it closed, or finds it closed, as it returns.  start() and an evaluation*)
(* may also raise: where no start of a kernel can fail, only after that,   *)
(* and else at any moment, with the session as they have left it by then.  *)
(***************************************************************************)
CONSTANTS
  User,
  MayFail  \* whether starting a kernel may fail

VARIABLES
  open,    \* whether there is a session
  op,      \* what each user is doing
  done,    \* whether it has taken effect
  raised   \* users whose last operation raised

vars == <<open, op, done, raised>>

Opening == {"start", "evaluate"}
Operation == Opening \cup {"stop"}

Init ==
  /\ open = FALSE
  /\ op = [u \in User |-> "none"]
  /\ done = [u \in User |-> FALSE]
  /\ raised = {}

(* How the last one ended may be forgotten now.                            *)
Begin(u) ==
  /\ op[u] = "none"
  /\ \E kind \in Operation : op' = [op EXCEPT ![u] = kind]
  /\ raised' \in {raised, raised \ {u}}
  /\ UNCHANGED <<open, done>>

TakesEffect(u) ==
  /\ op[u] \in Opening /\ ~done[u]
  /\ open' = TRUE
  /\ done' = [done EXCEPT ![u] = TRUE]
  /\ UNCHANGED <<op, raised>>

(* An evaluation looks at the session again, or replaces it.               *)
StartsOver(u) ==
  /\ op[u] = "evaluate"
  /\ open' \in {open, FALSE}
  /\ done' = [done EXCEPT ![u] = FALSE]
  /\ UNCHANGED <<op, raised>>

(* The user may begin its next operation in the same step.                 *)
Ends(u) ==
  /\ \E next \in Operation \cup {"none"} : op' = [op EXCEPT ![u] = next]
  /\ done' = [done EXCEPT ![u] = FALSE]

Returns(u) ==
  /\ \/ op[u] \in Opening /\ ~done[u] /\ open' = TRUE
     \/ op[u] \in Opening /\ done[u] /\ UNCHANGED open
     \/ op[u] = "stop" /\ open' = FALSE
  /\ Ends(u)
  /\ raised' = raised \ {u}

Raises(u) ==
  /\ op[u] \in Opening /\ (done[u] \/ MayFail)
  /\ Ends(u)
  /\ raised' = raised \cup {u}
  /\ UNCHANGED open

Next == \E u \in User : \/ Begin(u) \/ TakesEffect(u) \/ StartsOver(u)
                       \/ Returns(u) \/ Raises(u)

Spec == Init /\ [][Next]_vars
=============================================================================
