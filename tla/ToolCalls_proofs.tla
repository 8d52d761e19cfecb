-------------------------- MODULE ToolCalls_proofs --------------------------
(***************************************************************************)
(* Proofs about ToolCalls, for any number of calls, threads and workers,   *)
(* any roles, and any filters: what Passes says of a filter is not used.   *)
(***************************************************************************)
EXTENDS ToolCalls, FiniteSetTheorems, SequenceTheorems, TLAPS

(* The types, those of an answer spelled out. *)
Kinds == {"denied", "rejected", "unsent"} \cup Outcomes
Answer == [kind : Kinds, length : Length \cup Limit \cup {0}]

TypeInv ==
  /\ call \in [Request -> Call \cup {None}]
  /\ pc \in [Request -> {"new", "await", "report", "end", "cancelled"}]
  /\ answer \in [Request -> Answer \cup {None}]
  /\ queue \in Seq(Request)
  /\ job \in [Request -> {"none", "queued", "acquiring", "evaluating", "cleaning"}
                           \cup Outcomes]
  /\ result \in [Request -> Length \cup {0}]
  /\ limit \in [Request -> Limit \cup {None}]
  /\ ended \in [Request -> Outcomes \cup {None}]
  /\ \A r \in Request : job[r] = "cleaning" => ended[r] \in Outcomes
  /\ permits \in Nat /\ leaks \in 0..MaxLeaks
  /\ \A r \in Request : pc[r] \in {"await", "report"} => call[r] \in Call

(* The limits of a caller are limits. *)
LEMMA SettingsType ==
  /\ HardTimeout(None) \in Limit
  /\ \A x \in Caller : MaxSize(x) \in Limit
  BY ToolAssumption DEF HardTimeout, MaxSize, HasRuntime, Caller

LEMMA TruncatedType ==
  ASSUME NEW c \in Call, NEW n \in Length \cup {0}
  PROVE  Truncated(c, n) \in Length \cup Limit \cup {0}
  <1>1. c.role \in Caller
    BY DEF Call
  <1> QED
    BY <1>1, SettingsType DEF Truncated

(* Handing out the first job of the queue. *)
LEMMA QueueFacts ==
  ASSUME NEW S, NEW q \in Seq(S), q # << >>
  PROVE  /\ Head(q) = q[1] /\ 1 \in 1..Len(q)
         /\ Tail(q) \in Seq(S) /\ Len(Tail(q)) = Len(q) - 1
         /\ \A i \in 1..Len(Tail(q)) : Tail(q)[i] = q[i + 1]
  <1>1. Len(q) \in Nat \ {0}
    BY EmptySeq
  <1>2. 1 \in 1..Len(q)
    BY <1>1
  <1> QED
    BY <1>2, HeadTailProperties

LEMMA AppendFacts ==
  ASSUME NEW S, NEW q \in Seq(S), NEW x \in S
  PROVE  /\ Append(q, x) \in Seq(S)
         /\ Len(Append(q, x)) = Len(q) + 1
         /\ \A i \in 1..Len(q) : Append(q, x)[i] = q[i]
         /\ Append(q, x)[Len(q) + 1] = x
  BY SMT

-----------------------------------------------------------------------------
(* Type correctness, but for the upper bound of permits.                   *)
LEMMA InitType == Init => TypeInv
  BY ToolAssumption, EmptySeq DEF Init, TypeInv

LEMMA DeliveredType ==
  ASSUME TypeInv, NEW r \in Request, Done(r), call[r] \in Call, Delivered(r)
  PROVE  answer' \in [Request -> Answer \cup {None}]
  <1>1. Truncated(call[r], result[r]) \in Length \cup Limit \cup {0}
    BY TruncatedType DEF TypeInv
  <1>2. [kind |-> job[r],
         length |-> IF job[r] = "value" THEN Truncated(call[r], result[r]) ELSE 0]
          \in Answer
    BY <1>1 DEF Answer, Kinds, Done
  <1> QED
    BY <1>2 DEF TypeInv, Delivered

LEMMA NextType == TypeInv /\ [Next]_vars => TypeInv'
  <1> SUFFICES ASSUME TypeInv, [Next]_vars PROVE TypeInv'
    OBVIOUS
  <1> USE DEF TypeInv, jobVars
  <1>a. ASSUME NEW r \in Request, NEW kind \in {"denied", "rejected", "unsent"},
               Answers(r, kind)
        PROVE  /\ answer' \in [Request -> Answer \cup {None}]
               /\ pc' = [pc EXCEPT ![r] = "end"]
    <2>1. [kind |-> kind, length |-> 0] \in Answer
      BY DEF Answer, Kinds
    <2> QED
      BY <1>a, <2>1 DEF Answers
  <1>1. ASSUME NEW r \in Request, NEW c \in Call, Denied(r, c) \/ Rejected(r, c)
        PROVE  TypeInv'
    <2>1. /\ answer' \in [Request -> Answer \cup {None}]
          /\ pc' = [pc EXCEPT ![r] = "end"]
      BY <1>1, <1>a DEF Denied, Rejected
    <2>2. call' = [call EXCEPT ![r] = c] /\ UNCHANGED jobVars
      BY <1>1 DEF Denied, Rejected, Arrives
    <2> QED
      BY <2>1, <2>2
  <1>2. ASSUME NEW r \in Request, NEW c \in Call, Submitted(r, c) PROVE TypeInv'
    <2>1. queue' \in Seq(Request)
      BY <1>2, AppendFacts DEF Submitted
    <2> QED
      BY <1>2, <2>1 DEF Submitted, Arrives
  <1>3. ASSUME NEW r \in Request, ThreadTakes(r) PROVE TypeInv'
    <2>1. queue' \in Seq(Request)
      BY <1>3, QueueFacts DEF ThreadTakes
    <2> QED
      BY <1>3, <2>1 DEF ThreadTakes
  <1>4. ASSUME NEW r \in Request, Evaluates(r) PROVE TypeInv'
    <2>1. permits' \in Nat
      BY <1>4 DEF Evaluates
    <2> QED
      BY <1>4, <2>1, SettingsType DEF Evaluates
  <1>5. ASSUME NEW r \in Request, StartFails(r) PROVE TypeInv'
    <2>1. permits' \in Nat /\ leaks' \in 0..MaxLeaks
      BY <1>5, ToolAssumption DEF StartFails
    <2> QED
      BY <1>5, <2>1 DEF StartFails, Outcomes
  <1>6. ASSUME NEW r \in Request, EvaluationEnds(r) PROVE TypeInv'
    <2>1. PICK outcome \in Outcomes, n \in Length \cup {0} : Evaluated(r, outcome, n)
      BY <1>6 DEF EvaluationEnds
    <2> QED
      BY <2>1 DEF Evaluated
  <1>13. ASSUME NEW r \in Request, JobEnds(r) PROVE TypeInv'
    <2>1. permits' \in Nat /\ ended[r] \in Outcomes
      BY <1>13 DEF JobEnds
    <2>2. \A q \in Request : job'[q] = "cleaning" => job[q] = "cleaning"
      BY <1>13, <2>1 DEF JobEnds, Outcomes
    <2> QED
      BY <1>13, <2>1, <2>2 DEF JobEnds
  <1>7. ASSUME NEW r \in Request, pc[r] \in {"await", "report"}, Done(r), Delivered(r),
               UNCHANGED <<call, jobVars>>
        PROVE  TypeInv'
    BY <1>7, DeliveredType DEF Delivered
  <1>8. ASSUME NEW r \in Request, Returns(r) PROVE TypeInv'
    BY <1>7, <1>8 DEF Returns
  <1>9. ASSUME NEW r \in Request, Reported(r) PROVE TypeInv'
    <2>1. CASE Done(r)
      BY <1>7, <1>9, <2>1 DEF Reported
    <2>2. CASE ~Done(r)
      BY <1>9, <2>2 DEF Reported
    <2> QED
      BY <2>1, <2>2
  <1>10. ASSUME NEW r \in Request, ReportFails(r) PROVE TypeInv'
    <2>1. /\ answer' \in [Request -> Answer \cup {None}]
          /\ pc' = [pc EXCEPT ![r] = "end"]
      BY <1>10, <1>a DEF ReportFails
    <2> QED
      BY <1>10, <2>1 DEF ReportFails
  <1>11. ASSUME NEW r \in Request, Heartbeat(r) \/ Cancelled(r) PROVE TypeInv'
    BY <1>11 DEF Heartbeat, Cancelled
  <1>12. CASE UNCHANGED vars
    BY <1>12 DEF vars
  <1> QED
    BY <1>1, <1>2, <1>3, <1>4, <1>5, <1>6, <1>8, <1>9, <1>10, <1>11, <1>12, <1>13 DEF Next

-----------------------------------------------------------------------------
(* Jobs.  What is in the queue is queued, once; a job stands for a call    *)
(* that was checked; an answer was taken from a job that had ended.        *)

Permissible(c) ==
  LET policy == IF UsesDefaults(c.role) THEN Global ELSE Runtimes[c.role] IN
  /\ policy # None
  /\ UsesDefaults(c.role) \/ c.tool \in policy.tools
  /\ Passes(policy.filter, c.expr)

QueueInv ==
  /\ \A i \in 1..Len(queue) : job[queue[i]] = "queued"
  /\ \A i, j \in 1..Len(queue) : queue[i] = queue[j] => i = j

JobInv ==
  \A r \in Request :
    /\ pc[r] = "new" => job[r] = "none"
    /\ job[r] # "none" => Permissible(call[r])
    /\ pc[r] = "end" /\ job[r] # "none" =>
         answer[r].kind = "unsent" \/ (Done(r) /\ answer[r].kind = job[r])

(* Only calls that ended have an answer. *)
SizeInv ==
  /\ WithinResultSize
  /\ \A r \in Request : pc[r] = "new" => answer[r] = None

Inv == TypeInv /\ QueueInv /\ JobInv /\ WorkersAccounted /\ SizeInv

LEMMA CheckedIsPermissible ==
  ASSUME NEW c, Allowed(c.role, c.tool), Checked(c)
  PROVE  Permissible(c)
  BY ToolAssumption DEF Allowed, Checked, ActiveFilter, HasRuntime, Permissible

LEMMA InitInv == Init => Inv
  <1> SUFFICES ASSUME Init PROVE Inv
    OBVIOUS
  <1>1. QueueInv /\ JobInv
    BY EmptySeq DEF Init, QueueInv, JobInv
  <1>2. WorkersAccounted
    <2>1. Holding = {} /\ permits = PoolSize /\ leaks = 0
      BY DEF Init, Holding
    <2> QED
      BY <2>1, ToolAssumption, FS_EmptySet DEF WorkersAccounted
  <1>3. SizeInv
    BY DEF Init, SizeInv, WithinResultSize
  <1> QED
    BY <1>1, <1>2, <1>3, InitType DEF Inv

LEMMA NextQueue == TypeInv /\ QueueInv /\ JobInv /\ [Next]_vars => QueueInv'
  <1> SUFFICES ASSUME TypeInv, QueueInv, JobInv, [Next]_vars PROVE QueueInv'
    OBVIOUS
  <1>0. /\ queue \in Seq(Request) /\ Len(queue) \in Nat
        /\ \A i \in 1..Len(queue) : queue[i] \in Request
        /\ Len(queue') \in Nat
        /\ job = [q \in Request |-> job[q]]
    BY NextType, ElementOfSeq DEF TypeInv
  (* Steps that do not touch the queue touch no job that is queued. *)
  <1>1. ASSUME NEW r \in Request, UNCHANGED queue,
               \/ UNCHANGED job
               \/ job[r] # "queued" /\ \E x : job' = [job EXCEPT ![r] = x]
        PROVE  QueueInv'
    BY <1>0, <1>1 DEF QueueInv
  <1>2. ASSUME NEW r \in Request, NEW c \in Call, Submitted(r, c) PROVE QueueInv'
    <2>1. /\ Len(queue') = Len(queue) + 1
          /\ \A i \in 1..Len(queue) : queue'[i] = queue[i]
          /\ queue'[Len(queue) + 1] = r
      BY <1>2, <1>0, AppendFacts DEF Submitted
    <2>2. \A i \in 1..Len(queue') : i \in 1..Len(queue) \/ i = Len(queue) + 1
      BY <1>0, <2>1
    <2>3. job[r] = "none" /\ job' = [job EXCEPT ![r] = "queued"]
      BY <1>2 DEF Submitted, Arrives, JobInv
    <2> QED
      BY <1>0, <2>1, <2>2, <2>3 DEF QueueInv
  <1>3. ASSUME NEW r \in Request, ThreadTakes(r) PROVE QueueInv'
    <2>1. /\ r = queue[1] /\ 1 \in 1..Len(queue)
          /\ Len(queue') = Len(queue) - 1
          /\ \A i \in 1..Len(queue') : queue'[i] = queue[i + 1]
      BY <1>3, <1>0, QueueFacts DEF ThreadTakes
    <2>2. /\ \A i \in 1..Len(queue') : i + 1 \in 1..Len(queue) /\ i + 1 # 1
          /\ \A i, j \in 1..Len(queue') : i + 1 = j + 1 => i = j
      BY <1>0, <2>1
    <2>3. \A i \in 1..Len(queue') : queue'[i] # r /\ queue'[i] \in Request
      BY <1>0, <2>1, <2>2 DEF QueueInv
    <2>4. job' = [job EXCEPT ![r] = "acquiring"]
      BY <1>3 DEF ThreadTakes
    <2>5. \A i \in 1..Len(queue') : job'[queue'[i]] = job[queue[i + 1]]
      BY <1>0, <2>1, <2>3, <2>4
    <2>6. \A i \in 1..Len(queue') : job'[queue'[i]] = "queued"
      BY <2>2, <2>5 DEF QueueInv
    <2>7. \A i, j \in 1..Len(queue') : queue'[i] = queue'[j] => i = j
      BY <2>1, <2>2 DEF QueueInv
    <2> QED
      BY <2>6, <2>7 DEF QueueInv
  <1>4. ASSUME NEW r \in Request, NEW c \in Call, Denied(r, c) \/ Rejected(r, c)
        PROVE  QueueInv'
    BY <1>1, <1>4 DEF Denied, Rejected, jobVars
  <1>5. ASSUME NEW r \in Request, Evaluates(r) \/ StartFails(r) PROVE QueueInv'
    BY <1>1, <1>5 DEF Evaluates, StartFails
  <1>6. ASSUME NEW r \in Request, EvaluationEnds(r) \/ JobEnds(r) PROVE QueueInv'
    <2>1. /\ UNCHANGED queue /\ job[r] \in {"evaluating", "cleaning"}
          /\ \E x : job' = [job EXCEPT ![r] = x]
      BY <1>6 DEF EvaluationEnds, JobEnds, Evaluated
    <2> QED
      BY <1>1, <2>1
  <1>7. ASSUME NEW r \in Request,
               Returns(r) \/ Heartbeat(r) \/ Reported(r) \/ ReportFails(r) \/ Cancelled(r)
        PROVE  QueueInv'
    BY <1>1, <1>7 DEF Returns, Heartbeat, Reported, ReportFails, Cancelled, jobVars
  <1>8. CASE UNCHANGED vars
    BY <1>8 DEF vars, jobVars, QueueInv
  <1> QED
    BY <1>2, <1>3, <1>4, <1>5, <1>6, <1>7, <1>8 DEF Next

LEMMA NextJob == TypeInv /\ QueueInv /\ JobInv /\ [Next]_vars => JobInv'
  <1> SUFFICES ASSUME TypeInv, QueueInv, JobInv, [Next]_vars PROVE JobInv'
    OBVIOUS
  <1> USE DEF JobInv, TypeInv, Done
  <1>1. ASSUME NEW r \in Request, NEW c \in Call, Denied(r, c) \/ Rejected(r, c)
        PROVE  JobInv'
    BY <1>1 DEF Denied, Rejected, Arrives, Answers, jobVars
  <1>2. ASSUME NEW r \in Request, NEW c \in Call, Submitted(r, c) PROVE JobInv'
    <2>1. Permissible(c)
      BY <1>2, CheckedIsPermissible DEF Submitted
    <2> QED
      BY <1>2, <2>1 DEF Submitted, Arrives
  (* A job that has begun and not ended goes on. *)
  <1>3. ASSUME NEW r \in Request, job[r] \notin {"none"} \cup Outcomes,
               NEW x, job' = [job EXCEPT ![r] = x], x # "none",
               UNCHANGED <<call, pc, answer>>
        PROVE  JobInv'
    BY <1>3
  <1>4. ASSUME NEW r \in Request, ThreadTakes(r) PROVE JobInv'
    <2>1. job[r] = "queued"
      BY <1>4, QueueFacts DEF ThreadTakes, QueueInv
    <2> QED
      BY <1>3, <1>4, <2>1 DEF ThreadTakes, Outcomes
  <1>5. ASSUME NEW r \in Request, Evaluates(r) \/ StartFails(r) PROVE JobInv'
    BY <1>3, <1>5 DEF Evaluates, StartFails, Outcomes
  <1>6. ASSUME NEW r \in Request, EvaluationEnds(r) PROVE JobInv'
    BY <1>3, <1>6 DEF EvaluationEnds, Evaluated, Outcomes
  <1>11. ASSUME NEW r \in Request, JobEnds(r) PROVE JobInv'
    BY <1>3, <1>11 DEF JobEnds, Outcomes
  <1>7. ASSUME NEW r \in Request, pc[r] # "new", Done(r), Delivered(r),
               UNCHANGED <<call, jobVars>>
        PROVE  JobInv'
    BY <1>7 DEF Delivered, jobVars
  <1>8. ASSUME NEW r \in Request, Returns(r) \/ Reported(r) PROVE JobInv'
    <2>1. CASE Delivered(r) /\ Done(r)
      BY <1>7, <1>8, <2>1 DEF Returns, Reported
    <2>2. CASE UNCHANGED <<call, jobVars, answer>> /\ pc' = [pc EXCEPT ![r] = "await"]
      BY <1>8, <2>2 DEF Returns, Reported, jobVars
    <2> QED
      BY <1>8, <2>1, <2>2 DEF Returns, Reported
  <1>9. ASSUME NEW r \in Request, Heartbeat(r) \/ ReportFails(r) \/ Cancelled(r)
        PROVE  JobInv'
    BY <1>9 DEF Heartbeat, ReportFails, Cancelled, Answers, jobVars
  <1>10. CASE UNCHANGED vars
    BY <1>10 DEF vars, jobVars
  <1> QED
    BY <1>1, <1>2, <1>4, <1>5, <1>6, <1>8, <1>9, <1>10, <1>11 DEF Next

LEMMA NextWorkers ==
  TypeInv /\ QueueInv /\ JobInv /\ WorkersAccounted /\ [Next]_vars => WorkersAccounted'
  <1> SUFFICES ASSUME TypeInv, QueueInv, JobInv, WorkersAccounted, [Next]_vars
               PROVE  WorkersAccounted'
    OBVIOUS
  <1>0. /\ IsFiniteSet(Holding) /\ Cardinality(Holding) \in Nat
        /\ permits \in Nat /\ leaks \in Nat /\ PoolSize \in Nat
    <2>1. IsFiniteSet(Holding)
      <3>1. Holding \subseteq Request
        BY DEF Holding
      <3> QED
        BY <3>1, ToolAssumption, FS_Subset
    <2> QED
      BY <2>1, ToolAssumption, FS_CardinalityType DEF TypeInv
  <1>s. ASSUME Holding' = Holding, UNCHANGED <<permits, leaks>>
        PROVE  WorkersAccounted'
    BY <1>s DEF WorkersAccounted
  <1>j. ASSUME NEW r \in Request, NEW x, job' = [job EXCEPT ![r] = x]
        PROVE  /\ x \in {"evaluating", "cleaning"} => Holding' = Holding \cup {r}
               /\ x \notin {"evaluating", "cleaning"} => Holding' = Holding \ {r}
    BY <1>j DEF Holding, TypeInv
  <1>1. ASSUME NEW r \in Request, NEW c \in Call, Submitted(r, c)
        PROVE  WorkersAccounted'
    <2>1. job[r] = "none" /\ job' = [job EXCEPT ![r] = "queued"]
      BY <1>1 DEF Submitted, Arrives, JobInv
    <2>2. Holding' = Holding
      BY <2>1, <1>j DEF Holding
    <2> QED
      BY <1>1, <1>s, <2>2 DEF Submitted
  <1>2. ASSUME NEW r \in Request, ThreadTakes(r) PROVE WorkersAccounted'
    <2>1. job[r] = "queued" /\ job' = [job EXCEPT ![r] = "acquiring"]
      BY <1>2, QueueFacts DEF ThreadTakes, QueueInv, TypeInv
    <2>2. Holding' = Holding
      BY <2>1, <1>j DEF Holding
    <2> QED
      BY <1>2, <1>s, <2>2 DEF ThreadTakes
  <1>3. ASSUME NEW r \in Request, Evaluates(r) PROVE WorkersAccounted'
    <2>1. r \notin Holding /\ Holding' = Holding \cup {r}
      BY <1>3, <1>j DEF Evaluates, Holding
    <2>2. Cardinality(Holding') = Cardinality(Holding) + 1
      BY <1>0, <2>1, FS_AddElement
    <2> QED
      BY <1>0, <1>3, <2>2 DEF Evaluates, WorkersAccounted
  <1>4. ASSUME NEW r \in Request, StartFails(r) PROVE WorkersAccounted'
    <2>1. Holding' = Holding
      BY <1>4, <1>j DEF StartFails, Holding
    <2> QED
      BY <1>0, <1>4, <2>1 DEF StartFails, WorkersAccounted
  <1>10. ASSUME NEW r \in Request, EvaluationEnds(r) PROVE WorkersAccounted'
    <2>1. PICK outcome \in Outcomes, n \in Length \cup {0} : Evaluated(r, outcome, n)
      BY <1>10 DEF EvaluationEnds
    <2>2. r \in Holding /\ Holding' = Holding \cup {r}
      BY <2>1, <1>j DEF Evaluated, Holding
    <2> QED
      BY <1>s, <2>1, <2>2 DEF Evaluated
  <1>5. ASSUME NEW r \in Request, JobEnds(r) PROVE WorkersAccounted'
    <2>1. ended[r] \in Outcomes
      BY <1>5 DEF JobEnds, TypeInv
    <2>2. r \in Holding /\ Holding' = Holding \ {r}
      BY <1>5, <2>1, <1>j DEF JobEnds, Holding, Outcomes
    <2>3. Cardinality(Holding') = Cardinality(Holding) - 1
      BY <1>0, <2>2, FS_RemoveElement
    <2> QED
      BY <1>0, <1>5, <2>3 DEF JobEnds, WorkersAccounted
  <1>6. CASE UNCHANGED jobVars
    BY <1>6, <1>s DEF jobVars, Holding
  <1>7. ASSUME NEW r \in Request, NEW c \in Call, Denied(r, c) \/ Rejected(r, c)
        PROVE  WorkersAccounted'
    BY <1>6, <1>7 DEF Denied, Rejected
  <1>8. ASSUME NEW r \in Request,
               Returns(r) \/ Heartbeat(r) \/ Reported(r) \/ ReportFails(r) \/ Cancelled(r)
        PROVE  WorkersAccounted'
    BY <1>6, <1>8 DEF Returns, Heartbeat, Reported, ReportFails, Cancelled
  <1>9. CASE UNCHANGED vars
    BY <1>6, <1>9 DEF vars
  <1> QED
    BY <1>1, <1>2, <1>3, <1>4, <1>5, <1>7, <1>8, <1>9, <1>10 DEF Next

LEMMA NextSize == TypeInv /\ SizeInv /\ [Next]_vars => SizeInv'
  <1> SUFFICES ASSUME TypeInv, SizeInv, [Next]_vars PROVE SizeInv'
    OBVIOUS
  <1>0. /\ call \in [Request -> Call \cup {None}]
        /\ pc \in [Request -> {"new", "await", "report", "end", "cancelled"}]
        /\ answer \in [Request -> Answer \cup {None}]
        /\ \A q \in Request : result[q] \in Length \cup {0}
        /\ \A q \in Request : pc[q] \in {"await", "report"} => call[q] \in Call
    BY DEF TypeInv
  <1> USE <1>0 DEF SizeInv, WithinResultSize
  <1>1. ASSUME NEW r \in Request, NEW c \in Call, Denied(r, c) \/ Rejected(r, c)
        PROVE  SizeInv'
    BY <1>1 DEF Denied, Rejected, Arrives, Answers
  <1>2. ASSUME NEW r \in Request, NEW c \in Call, Submitted(r, c) PROVE SizeInv'
    <2>1. /\ \A q \in Request \ {r} : call'[q] = call[q] /\ pc'[q] = pc[q]
          /\ answer' = answer /\ answer[r] = None /\ pc'[r] = "await"
      BY <1>2 DEF Submitted, Arrives
    <2>2. \A q \in Request : answer'[q] # None => call'[q] = call[q]
      BY <2>1
    <2> QED
      BY <2>1, <2>2 DEF MaxSize, HasRuntime
  <1>3. CASE UNCHANGED <<call, pc, answer>>
    BY <1>3
  <1>4. ASSUME NEW r \in Request,
               \/ ThreadTakes(r) \/ Evaluates(r) \/ StartFails(r)
               \/ EvaluationEnds(r) \/ JobEnds(r)
        PROVE  SizeInv'
    <2>1. UNCHANGED <<call, pc, answer>>
      BY <1>4 DEF ThreadTakes, Evaluates, StartFails, EvaluationEnds, Evaluated, JobEnds
    <2> QED
      BY <1>3, <2>1
  <1>5. ASSUME NEW r \in Request, Delivered(r), pc[r] \in {"await", "report"},
               UNCHANGED call
        PROVE  SizeInv'
    <2>1. ASSUME call[r].tool = "evaluate", MaxSize(call[r].role) > 0
          PROVE  Truncated(call[r], result[r]) <= MaxSize(call[r].role)
      <3>1. MaxSize(call[r].role) \in Nat /\ result[r] \in Nat
        <4>1. call[r].role \in Caller
          BY <1>5 DEF Call
        <4>2. MaxSize(call[r].role) \in Limit
          BY <4>1, SettingsType
        <4>3. Limit \subseteq Nat /\ Length \subseteq Nat
          BY ToolAssumption
        <4>4. result[r] \in Length \cup {0}
          OBVIOUS
        <4>5. MaxSize(call[r].role) \in Nat
          BY <4>2, <4>3, Zenon
        <4>6. result[r] \in Nat
          <5>1. 0 \in Nat
            OBVIOUS
          <5> QED
            BY <4>3, <4>4, <5>1, Zenon
        <4> QED
          BY <4>5, <4>6, Zenon
      <3> QED
        BY <2>1, <3>1 DEF Truncated
    <2>2. answer'[r].kind = "value" =>
            answer'[r].length = Truncated(call[r], result[r])
      BY <1>5 DEF Delivered
    <2>3. \A s \in Request : s # r => answer'[s] = answer[s] /\ pc'[s] = pc[s]
      BY <1>5 DEF Delivered
    <2>4. pc'[r] = "end"
      BY <1>5 DEF Delivered
    <2> QED
      BY <1>5, <2>1, <2>2, <2>3, <2>4 DEF MaxSize, HasRuntime
  <1>6. ASSUME NEW r \in Request, Returns(r) \/ Reported(r) PROVE SizeInv'
    <2>1. CASE Delivered(r)
      BY <1>5, <1>6, <2>1 DEF Returns, Reported
    <2>2. CASE UNCHANGED <<call, answer>> /\ pc' = [pc EXCEPT ![r] = "await"]
      BY <2>2
    <2> QED
      BY <1>6, <2>1, <2>2 DEF Returns, Reported
  <1>7. ASSUME NEW r \in Request, Heartbeat(r) \/ ReportFails(r) \/ Cancelled(r)
        PROVE  SizeInv'
    BY <1>7 DEF Heartbeat, ReportFails, Cancelled, Answers
  <1>8. CASE UNCHANGED vars
    BY <1>3, <1>8 DEF vars
  <1> QED
    BY <1>1, <1>2, <1>4, <1>6, <1>7, <1>8 DEF Next

LEMMA Invariance == Spec => []Inv
  <1>1. Inv /\ [Next]_vars => Inv'
    BY NextType, NextQueue, NextJob, NextWorkers, NextSize DEF Inv
  <1> QED
    BY <1>1, InitInv, PTL DEF Spec

(* Only tools and expressions that the role of the caller allows reach a   *)
(* kernel (tools/__init__.py), whatever its filter is.                     *)
THEOREM Policy == Spec => []EvaluatedAsAllowed
  <1>1. Inv => EvaluatedAsAllowed
    BY DEF Inv, JobInv, Permissible, EvaluatedAsAllowed
  <1> QED
    BY <1>1, Invariance, PTL

(* Every worker is free, evaluating, or lost to a start that failed;       *)
(* cancellations and failed heartbeats neither take one nor give one back. *)
THEOREM Workers == Spec => []WorkersAccounted
  <1>1. Inv => WorkersAccounted
    BY DEF Inv
  <1> QED
    BY <1>1, Invariance, PTL

(* The evaluations take and give back the permits of the pool as the pool  *)
(* lets them (tools/evaluate.py:77, 103; pool.py:150, 159, 185).           *)
Gate == INSTANCE PermitPool WITH Client <- Request, Size <- PoolSize,
                                 holders <- Holding, leaked <- leaks

LEMMA GateStep ==
  ASSUME Inv, [Next]_vars
  PROVE  [Gate!Next]_(Gate!vars)
  <1>0. /\ TypeInv
        /\ job \in [Request -> {"none", "queued", "acquiring", "evaluating", "cleaning"}
                               \cup Outcomes]
        /\ permits \in Nat /\ leaks \in Nat /\ PoolSize \in Nat
        /\ permits + Cardinality(Holding) + leaks = PoolSize
        /\ Cardinality(Holding) \in Nat
    <2>1. IsFiniteSet(Holding)
      <3>1. Holding \subseteq Request
        BY DEF Holding
      <3> QED
        BY <3>1, ToolAssumption, FS_Subset
    <2> QED
      BY <2>1, ToolAssumption, FS_CardinalityType DEF Inv, TypeInv, WorkersAccounted
  <1>1. permits > 0 => Gate!Room
    <2>1. Gate!Cardinality(Holding) = Cardinality(Holding)
      BY Zenon DEF Gate!Cardinality, Cardinality
    <2> QED
      BY <1>0, <2>1 DEF Gate!Room
  <1>s. ASSUME Holding' = Holding, UNCHANGED leaks PROVE UNCHANGED Gate!vars
    BY <1>s DEF Gate!vars
  <1>2. ASSUME NEW r \in Request, Evaluates(r) PROVE Gate!Next
    <2>1. r \notin Holding /\ Holding' = Holding \cup {r} /\ permits > 0 /\ leaks' = leaks
      BY <1>0, <1>2 DEF Evaluates, Holding
    <2>2. Gate!Take(r)
      BY <1>1, <2>1 DEF Gate!Take
    <2> QED
      BY <2>2 DEF Gate!Next
  <1>11. ASSUME NEW r \in Request, EvaluationEnds(r) PROVE UNCHANGED Gate!vars
    <2>1. PICK outcome \in Outcomes, n \in Length \cup {0} : Evaluated(r, outcome, n)
      BY <1>11 DEF EvaluationEnds
    <2>2. Holding' = Holding /\ leaks' = leaks
      BY <1>0, <2>1 DEF Evaluated, Holding
    <2> QED
      BY <1>s, <2>2
  <1>3. ASSUME NEW r \in Request, JobEnds(r) PROVE Gate!Next
    <2>1. ended[r] \in Outcomes
      BY <1>0, <1>3 DEF JobEnds, TypeInv
    <2>2. r \in Holding /\ Holding' = Holding \ {r} /\ leaks' = leaks
      BY <1>0, <1>3, <2>1 DEF JobEnds, Holding, Outcomes
    <2>3. Gate!Give(r)
      BY <2>2 DEF Gate!Give
    <2> QED
      BY <2>3 DEF Gate!Next
  <1>4. ASSUME NEW r \in Request, StartFails(r) PROVE Gate!Next
    <2>1. Holding' = Holding \ {r} /\ leaks' = leaks + 1 /\ permits > 0
      BY <1>0, <1>4 DEF StartFails, Holding
    <2>2. Gate!Lose(r)
      BY <1>1, <2>1 DEF Gate!Lose
    <2> QED
      BY <2>2 DEF Gate!Next
  <1>5. ASSUME NEW r \in Request, NEW c \in Call, Submitted(r, c) PROVE UNCHANGED Gate!vars
    <2>1. job[r] = "none" /\ job' = [job EXCEPT ![r] = "queued"] /\ leaks' = leaks
      BY <1>5 DEF Submitted, Arrives, JobInv, Inv
    <2> QED
      BY <1>0, <1>s, <2>1 DEF Holding
  <1>6. ASSUME NEW r \in Request, ThreadTakes(r) PROVE UNCHANGED Gate!vars
    <2>1. job[r] = "queued" /\ job' = [job EXCEPT ![r] = "acquiring"] /\ leaks' = leaks
      BY <1>6, QueueFacts DEF ThreadTakes, QueueInv, TypeInv, Inv
    <2> QED
      BY <1>0, <1>s, <2>1 DEF Holding
  <1>7. ASSUME UNCHANGED jobVars PROVE UNCHANGED Gate!vars
    BY <1>7, <1>s DEF jobVars, Holding
  <1>8. ASSUME NEW r \in Request, NEW c \in Call, Denied(r, c) \/ Rejected(r, c)
        PROVE  UNCHANGED Gate!vars
    BY <1>7, <1>8 DEF Denied, Rejected
  <1>9. ASSUME NEW r \in Request,
               Returns(r) \/ Heartbeat(r) \/ Reported(r) \/ ReportFails(r) \/ Cancelled(r)
        PROVE  UNCHANGED Gate!vars
    BY <1>7, <1>9 DEF Returns, Heartbeat, Reported, ReportFails, Cancelled
  <1>10. CASE UNCHANGED vars
    BY <1>7, <1>10 DEF vars
  <1> QED
    BY <1>2, <1>3, <1>4, <1>5, <1>6, <1>8, <1>9, <1>10, <1>11 DEF Next

(* Whatever becomes of the calls, their jobs use the pool like a PermitPool*)
(* and so see of it what KernelPool shows its calls.                       *)
THEOREM JobsUsePermits == Spec => Gate!Spec
  <1>1. Init => Gate!Init
    BY DEF Init, Gate!Init, Holding
  <1>2. Inv /\ [Next]_vars => [Gate!Next]_(Gate!vars)
    BY GateStep
  <1> QED
    BY <1>1, <1>2, Invariance, PTL DEF Spec, Gate!Spec

(* The answer to a call is the outcome of its own evaluation, once it has  *)
(* ended, or says that a heartbeat could not be sent.                      *)
THEOREM Outcome == Spec => []OwnOutcome
  <1>1. Inv => OwnOutcome
    BY DEF Inv, JobInv, OwnOutcome
  <1> QED
    BY <1>1, Invariance, PTL

(* No caller gets more of a result than its role allows.                   *)
THEOREM ResultSize == Spec => []WithinResultSize
  <1>1. Inv => WithinResultSize
    BY DEF Inv, SizeInv
  <1> QED
    BY <1>1, Invariance, PTL

(* Every variable keeps its type in every behaviour. *)
THEOREM TypeCorrect == Spec => []TypeOK
  <1>1. Inv => TypeOK
    <2> SUFFICES ASSUME Inv PROVE TypeOK
      OBVIOUS
    <2>1. permits \in 0..PoolSize
      <3>1. IsFiniteSet(Holding)
        <4>1. Holding \subseteq Request
          BY DEF Holding
        <4> QED
          BY <4>1, ToolAssumption, FS_Subset
      <3>2. Cardinality(Holding) \in Nat
        BY <3>1, FS_CardinalityType
      <3> QED
        BY <3>2, ToolAssumption DEF Inv, TypeInv, WorkersAccounted
    <2> QED
      BY <2>1 DEF Inv, TypeInv, TypeOK, Answer, Kinds
  <1> QED
    BY <1>1, Invariance, PTL
=============================================================================
