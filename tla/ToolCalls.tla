----------------------------- MODULE ToolCalls -----------------------------
(***************************************************************************)
(* Tool calls (src/mma_mcp/tools/__init__.py and tools/evaluate.py): the   *)
(* role's policy, the expression filter, the thread of the executor that   *)
(* evaluates while the coroutine sends heartbeats, the answer.             *)
(*                                                                         *)
(* A coroutine gives way only where it awaits: policy, filter and          *)
(* submission are one step.  Its task has a context of its own, so what it *)
(* reads from current_client and _active_filter is its caller's; threads   *)
(* of the executor run in a context in which nobody has set current_client.*)
(*                                                                         *)
(* The pool is reduced to its permits and to the cleanup that ends every   *)
(* use of a worker; KernelPool has the rest.                               *)
(***************************************************************************)
EXTENDS Naturals, Sequences, FiniteSets, SecurityPolicy

CONSTANTS
  Request,     \* tool calls
  Role, Tool, Expr,   \* an expression is the set of its symbols
  Limit, Length,      \* hard timeouts and result sizes; lengths of results
  Runtimes,    \* ctx.role_runtimes, None for roles it does not have
  Global,      \* the settings for callers without a role
  None,
  Threads,     \* of the default executor
  PoolSize,
  MaxLeaks     \* bound: kernels that fail to start, each leaks a permit

Runtime == [tools : SUBSET Tool, hard : Limit, size : Limit]
Caller  == Role \cup {None}

(* The form asked for is one that exists, or not; images have none.        *)
Call == {c \in [role : Caller, tool : Tool, expr : Expr, form : BOOLEAN] :
           c.tool = "evaluate" \/ c.form}

ASSUME ToolAssumption ==
  /\ IsFiniteSet(Request)
  /\ None \notin Role
  /\ Limit \subseteq Nat /\ Length \subseteq Nat
  /\ \A x \in Role : Runtimes[x] # None =>
       Runtimes[x].tools \subseteq Tool /\ {Runtimes[x].hard, Runtimes[x].size} \subseteq Limit
  /\ Global # None /\ Global.tools \subseteq Tool
  /\ {Global.hard, Global.size} \subseteq Limit
  /\ Threads \in Nat \ {0} /\ PoolSize \in Nat \ {0}
  /\ MaxLeaks \in 0..(PoolSize - 1)

VARIABLES
  call,     \* what each request asks for, None before it arrives
  pc,       \* of its coroutine
  answer,   \* what it returned
  queue,    \* the executor's queue of jobs
  job,      \* where the job of each request is, or its outcome
  result,   \* the length of the result it computed
  limit,    \* the hard timeout it was evaluated under, None if it was not
  ended,    \* how its evaluation ended, None before
  permits,  \* free permits of the pool
  leaks

jobVars == <<queue, job, result, limit, ended, permits, leaks>>
vars == <<call, pc, answer, jobVars>>

Outcomes == {"value", "timeout", "error"}
Done(r)  == job[r] \in Outcomes
Cleaning == {r \in Request : job[r] = "cleaning"}
Holding  == {r \in Request : job[r] \in {"evaluating", "cleaning"}}
InThread == {r \in Request : job[r] = "acquiring"} \cup Holding

Init ==
  /\ call = [r \in Request |-> None]
  /\ pc = [r \in Request |-> "new"]
  /\ answer = [r \in Request |-> None]
  /\ queue = << >>
  /\ job = [r \in Request |-> "none"]
  /\ result = [r \in Request |-> 0]
  /\ limit = [r \in Request |-> None]
  /\ ended = [r \in Request |-> None]
  /\ permits = PoolSize
  /\ leaks = 0

-----------------------------------------------------------------------------
(* The settings of a caller: _current_role_runtime, hard_timeout and       *)
(* max_result_size of ToolContext; _apply_role_policy.                     *)

HasRuntime(x) == x # None /\ Runtimes[x] # None

(* A mutant: 0 is not taken for "inherit". *)
HardTimeoutAsIs(x) == IF HasRuntime(x) THEN Runtimes[x].hard ELSE 0

HardTimeout(x) == IF HasRuntime(x) /\ Runtimes[x].hard > 0
                  THEN Runtimes[x].hard ELSE Global.hard
MaxSize(x)     == IF HasRuntime(x) /\ Runtimes[x].size > 0
                  THEN Runtimes[x].size ELSE Global.size

(* The tools of all roles, or those enabled if there are no roles. *)
Known == {x \in Role : HasRuntime(x)}
Bound == IF Known = {} THEN Global.tools ELSE UNION {Runtimes[x].tools : x \in Known}

(* Callers without a role, and all if there are no roles. *)
UsesDefaults(x) == x = None \/ Known = {}

Allowed(x, tool) ==
  UsesDefaults(x) \/ (HasRuntime(x) /\ tool \in Runtimes[x].tools)

(* A mutant: the contextvar is not set. *)
ActiveFilterGlobal(x) == Global.filter
ActiveFilter(x) == IF UsesDefaults(x) THEN Global.filter ELSE Runtimes[x].filter

(* ToolContext.check, and the form. *)
Checked(c) == Passes(ActiveFilter(c.role), c.expr) /\ c.form

-----------------------------------------------------------------------------
(* The coroutine up to its first await: _async_body, _apply_role_policy,   *)
(* ctx.check.                                                              *)

Answers(r, kind) == /\ pc' = [pc EXCEPT ![r] = "end"]
                    /\ answer' = [answer EXCEPT ![r] = [kind |-> kind, length |-> 0]]

Arrives(r, c) == /\ pc[r] = "new"
                 /\ c.tool \in Bound
                 /\ call' = [call EXCEPT ![r] = c]

Denied(r, c) ==
  /\ Arrives(r, c)
  /\ ~Allowed(c.role, c.tool)
  /\ Answers(r, "denied")
  /\ UNCHANGED jobVars

(* SecurityError: by the filter, or for a form that does not exist. *)
Rejected(r, c) ==
  /\ Arrives(r, c)
  /\ Allowed(c.role, c.tool)
  /\ ~Checked(c)
  /\ Answers(r, "rejected")
  /\ UNCHANGED jobVars

Submitted(r, c) ==
  /\ Arrives(r, c)
  /\ Allowed(c.role, c.tool)
  /\ Checked(c)
  /\ pc' = [pc EXCEPT ![r] = "await"]
  /\ queue' = Append(queue, r)
  /\ job' = [job EXCEPT ![r] = "queued"]
  /\ UNCHANGED <<answer, result, limit, ended, permits, leaks>>

-----------------------------------------------------------------------------
(* The job, in a thread: _do_eval.                                         *)

ThreadTakes(r) ==
  /\ queue # << >> /\ r = Head(queue)
  /\ Cardinality(InThread) < Threads
  /\ queue' = Tail(queue)
  /\ job' = [job EXCEPT ![r] = "acquiring"]
  /\ UNCHANGED <<call, pc, answer, result, limit, ended, permits, leaks>>

(* pool.worker(), then ctx.timeout and ctx.hard_timeout. *)
Evaluates(r) ==
  /\ job[r] = "acquiring" /\ permits > 0
  /\ permits' = permits - 1
  /\ job' = [job EXCEPT ![r] = "evaluating"]
  /\ limit' = [limit EXCEPT ![r] = HardTimeout(None)]
  /\ UNCHANGED <<call, pc, answer, queue, result, ended, leaks>>

(* The kernel does not start: the permit is not given back. *)
StartFails(r) ==
  /\ job[r] = "acquiring" /\ permits > 0
  /\ leaks < MaxLeaks
  /\ permits' = permits - 1 /\ leaks' = leaks + 1
  /\ job' = [job EXCEPT ![r] = "error"]
  /\ UNCHANGED <<call, pc, answer, queue, result, limit, ended>>

(* A result, KernelTimeout under a hard timeout, or another exception.     *)
Evaluated(r, outcome, n) ==
  /\ job[r] = "evaluating"
  /\ outcome = "timeout" => limit[r] > 0
  /\ outcome # "value" => n = 0
  /\ job' = [job EXCEPT ![r] = "cleaning"]
  /\ ended' = [ended EXCEPT ![r] = outcome]
  /\ result' = [result EXCEPT ![r] = n]
  /\ UNCHANGED <<call, pc, answer, queue, limit, permits, leaks>>

EvaluationEnds(r) ==
  \E outcome \in Outcomes, n \in Length \cup {0} : Evaluated(r, outcome, n)

(* The finally of pool.worker(): the cleanup evaluates once more, without  *)
(* a hard timeout, and whatever it raises is dropped; then the worker is   *)
(* given back, and only then the future has its outcome.                   *)
JobEnds(r) ==
  /\ job[r] = "cleaning"
  /\ job' = [job EXCEPT ![r] = ended[r]]
  /\ permits' = permits + 1
  /\ UNCHANGED <<call, pc, answer, queue, result, limit, ended, leaks>>

-----------------------------------------------------------------------------
(* The coroutine: _run_with_heartbeat, the answer of _async_body.          *)

(* A mutant: the truncation is done in the thread. *)
TruncatedInThread(c, n) ==
  LET m == MaxSize(None) IN
  IF c.tool = "evaluate" /\ m > 0 /\ n > m THEN m ELSE n

(* The length of what evaluate returns for a result of length n; images    *)
(* are not cut.                                                            *)
Truncated(c, n) ==
  LET m == MaxSize(c.role) IN
  IF c.tool = "evaluate" /\ m > 0 /\ n > m THEN m ELSE n

Delivered(r) ==
  /\ pc' = [pc EXCEPT ![r] = "end"]
  /\ answer' = [answer EXCEPT ![r] =
       [kind |-> job[r],
        length |-> IF job[r] = "value" THEN Truncated(call[r], result[r]) ELSE 0]]

Returns(r) ==
  /\ pc[r] = "await" /\ Done(r)
  /\ Delivered(r)
  /\ UNCHANGED <<call, jobVars>>

(* Five seconds pass; the job may have ended just now. *)
Heartbeat(r) ==
  /\ pc[r] = "await"
  /\ pc' = [pc EXCEPT ![r] = "report"]
  /\ UNCHANGED <<call, answer, jobVars>>

(* A mutant: the result is taken after one heartbeat. *)
ReportedUnchecked(r) ==
  /\ pc[r] = "report"
  /\ Delivered(r)
  /\ UNCHANGED <<call, jobVars>>

(* report_progress returns; `while not future.done()`. *)
Reported(r) ==
  /\ pc[r] = "report"
  /\ IF Done(r) THEN Delivered(r)
     ELSE pc' = [pc EXCEPT ![r] = "await"] /\ UNCHANGED answer
  /\ UNCHANGED <<call, jobVars>>

(* report_progress raises: the call is answered, its job goes on. *)
ReportFails(r) ==
  /\ pc[r] = "report"
  /\ Answers(r, "unsent")
  /\ UNCHANGED <<call, jobVars>>

(* A mutant: the worker of a cancelled call is given back at once. *)
CancelledReleasing(r) ==
  /\ pc[r] \in {"await", "report"}
  /\ pc' = [pc EXCEPT ![r] = "cancelled"]
  /\ permits' = IF r \in Holding THEN permits + 1 ELSE permits
  /\ UNCHANGED <<call, answer, queue, job, result, limit, ended, leaks>>

(* The client cancels the call, or its session ends: nothing is answered,  *)
(* the future is shielded, the job goes on, even if it has not begun yet.  *)
Cancelled(r) ==
  /\ pc[r] \in {"await", "report"}
  /\ pc' = [pc EXCEPT ![r] = "cancelled"]
  /\ UNCHANGED <<call, answer, jobVars>>

Next ==
  \E r \in Request :
    \/ \E c \in Call : Denied(r, c) \/ Rejected(r, c) \/ Submitted(r, c)
    \/ ThreadTakes(r) \/ Evaluates(r) \/ StartFails(r)
    \/ EvaluationEnds(r) \/ JobEnds(r)
    \/ Returns(r) \/ Heartbeat(r) \/ Reported(r) \/ ReportFails(r)
    \/ Cancelled(r)

Spec == Init /\ [][Next]_vars

(* Threads and coroutines keep running, report_progress returns or raises, *)
(* and an evaluation ends if a hard timeout watches over it (CallsEnd of   *)
(* KernelSession).  Nothing makes clients call, or cancel, and nothing     *)
(* makes a cleanup end: the kernel may hang in it.                         *)
Fairness ==
  \A r \in Request :
    /\ WF_vars(ThreadTakes(r))
    /\ WF_vars(Evaluates(r) \/ StartFails(r))
    /\ WF_vars(job[r] = "evaluating" /\ limit[r] > 0 /\ EvaluationEnds(r))
    /\ WF_vars(Returns(r) \/ Heartbeat(r) \/ Reported(r) \/ ReportFails(r))

FairSpec == Spec /\ Fairness
-----------------------------------------------------------------------------
(* Properties                                                              *)

(* Every variable keeps its type: requests, futures and the pool's permits.*)
TypeOK ==
  /\ call \in [Request -> Call \cup {None}]
  /\ pc \in [Request -> {"new", "await", "report", "end", "cancelled"}]
  /\ \A r \in Request : answer[r] # None =>
       /\ answer[r].kind \in {"denied", "rejected", "unsent"} \cup Outcomes
       /\ answer[r].length \in Length \cup Limit \cup {0}
  /\ queue \in Seq(Request)
  /\ job \in [Request -> {"none", "queued", "acquiring", "evaluating", "cleaning"}
                           \cup Outcomes]
  /\ result \in [Request -> Length \cup {0}]
  /\ limit \in [Request -> Limit \cup {None}]
  /\ ended \in [Request -> Outcomes \cup {None}]
  /\ permits \in 0..PoolSize /\ leaks \in 0..MaxLeaks

(* "Each client is bound to a role that controls which tools it can        *)
(* access, which Wolfram symbols it can use" (README.md:156): whatever     *)
(* other calls are in progress, what reaches a kernel is a tool of the     *)
(* caller's role and an expression that the filter of this role passes.    *)
EvaluatedAsAllowed ==
  \A r \in Request : job[r] # "none" =>
    LET c == call[r]
        policy == IF UsesDefaults(c.role) THEN Global ELSE Runtimes[c.role] IN
    /\ policy # None
    /\ UsesDefaults(c.role) \/ c.tool \in policy.tools
    /\ Passes(policy.filter, c.expr)

(* "... and resource limits (timeout, result size)": the text a caller     *)
(* gets is cut to what its role allows, or the default if the role does    *)
(* not say (the note that says so is not counted).                         *)
WithinResultSize ==
  \A r \in Request : answer[r] # None /\ answer[r].kind = "value" =>
    LET c == call[r] IN
    c.tool = "evaluate" /\ MaxSize(c.role) > 0
      => answer[r].length <= MaxSize(c.role)

(* ... and it is evaluated under the hard timeout of its role.             *)
HardTimeoutOfRole ==
  \A r \in Request : limit[r] # None => limit[r] = HardTimeout(call[r].role)

(* Calls that are cancelled, or whose heartbeat fails, keep their worker   *)
(* until their evaluation and its cleanup end, and then give it back:      *)
(* never are more evaluations running than the pool has workers.           *)
WorkersAccounted ==
  permits + Cardinality(Holding) + leaks = PoolSize

(* With a hard timeout a call that was submitted is answered, unless its   *)
(* own cleanup hangs, or cleanups that hang hold all threads or, with the  *)
(* kernels that did not start, all workers: heartbeats do not disturb the  *)
(* evaluation, jobs of abandoned calls in the queue, in the threads and on *)
(* the workers do not block it for good.                                   *)
Unblocked(r) ==
  /\ r \notin Cleaning
  /\ Cardinality(Cleaning) < Threads
  /\ Cardinality(Cleaning) + leaks < PoolSize

Answered ==
  Global.hard > 0 =>
    \A r \in Request :
      []<>Unblocked(r) => (pc[r] = "await" ~> pc[r] \in {"end", "cancelled"})

(* ... with what its evaluation returned or raised, unless a heartbeat     *)
(* could not be sent: never before the evaluation has ended, and never with*)
(* what another call's heartbeat or cancellation made of it.               *)
OwnOutcome ==
  \A r \in Request : pc[r] = "end" /\ job[r] # "none" =>
    answer[r].kind \in {"unsent", job[r]}
=============================================================================
