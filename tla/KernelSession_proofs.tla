------------------------ MODULE KernelSession_proofs ------------------------
(***************************************************************************)
(* Proofs about KernelSession: its types, that there is never more than    *)
(* one kernel process, what calls leave behind and how they leave the      *)
(* executor, what a shared session looks like from outside, and which      *)
(* faults the only caller of a session does not see.                       *)
(***************************************************************************)
EXTENDS KernelSession, TLAPS

(* The helpers of one line are expanded everywhere. *)
USE DEF Unlinked, Unassigned, Joinable, Restart, CallWhy, OtherWhy, User

(* A thread between the two statements that replace the session or its     *)
(* kernel holds the lock, and no kernel is alive behind _session.  With    *)
(* SingleKernel it is inductive: whoever gets the lock finds that nobody   *)
(* else is in the middle of a swap.                                        *)
SwapInv ==
  \A p \in Proc : pc[p] \in {"starting", "clear"} =>
    lock = p /\ session # NoSession /\ kern[session] \notin Live

LEMMA CallerIsProc == /\ Caller \subseteq Proc /\ Health \subseteq Proc
                      /\ Owner \subseteq Proc /\ NoProc \notin Proc
  BY SessionAssumption DEF Proc

-----------------------------------------------------------------------------
LEMMA InitType == Init => TypeOK
  <1> SUFFICES ASSUME Init PROVE TypeOK
    OBVIOUS
  <1>1. /\ age \in 0..IdleTimeout /\ faults \in 0..MaxFaults
        /\ begun \in [Caller -> 0..MaxFaults]
    BY SessionAssumption DEF Init
  <1>2. pc \in [Proc -> Where]
    BY DEF Init, Where
  <1> QED
    BY <1>1, <1>2 DEF Init, TypeOK, Live

LEMMA LeaveType ==
  ASSUME TypeOK, NEW p \in Proc, NEW r \in {"ok", "error", "timeout"},
         Leave(p, r)
  PROVE  /\ pc' \in [Proc -> Where]
         /\ why' \in [Proc -> CallWhy \cup OtherWhy]
         /\ snap' \in [Proc -> Session \cup {NoSession}]
         /\ joins' \in [Proc -> Health \cup {NoProc}]
         /\ tmp' \subseteq Caller
         /\ outcome' \in [User -> {"none", "ok", "error", "timeout"}]
         /\ begun' \in [Caller -> 0..MaxFaults]
  BY DEF TypeOK, Leave, Where

LEMMA RaisesType ==
  ASSUME TypeOK, NEW p \in Proc, NEW k \in BOOLEAN, Raises(p, k)
  PROVE  /\ pc' \in [Proc -> Where]
         /\ why' \in [Proc -> CallWhy \cup OtherWhy]
         /\ snap' \in [Proc -> Session \cup {NoSession}]
         /\ joins' \in [Proc -> Health \cup {NoProc}]
         /\ tmp' \subseteq Caller
         /\ outcome' \in [User -> {"none", "ok", "error", "timeout"}]
         /\ begun' \in [Caller -> 0..MaxFaults]
  <1>1. CASE Leave(p, "error")
    BY <1>1, LeaveType
  <1>2. CASE ~Leave(p, "error")
    BY <1>2 DEF Raises, TypeOK, callVars, Where
  <1> QED
    BY <1>1, <1>2

LEMMA ContinueType ==
  ASSUME TypeOK, NEW p \in Proc, NEW S, Continue(p, S)
  PROVE  /\ pc' \in [Proc -> Where]
         /\ why' \in [Proc -> CallWhy \cup OtherWhy]
         /\ snap' \in [Proc -> Session \cup {NoSession}]
         /\ joins' \in [Proc -> Health \cup {NoProc}]
         /\ tmp' \subseteq Caller
         /\ outcome' \in [User -> {"none", "ok", "error", "timeout"}]
         /\ begun' \in [Caller -> 0..MaxFaults]
  <1>1. AfterStart(p) \in Where
    BY DEF AfterStart, Where
  <1>2. pc' \in [Proc -> Where]
    BY <1>1 DEF TypeOK, Continue, Where
  <1> QED
    BY <1>2 DEF TypeOK, Continue, callVars

LEMMA SharedType ==
  ASSUME TypeOK, NEW p \in Proc, SharedStep(p)
  PROVE  TypeOK'
  <1>1. CASE StartLocked(p)
    BY <1>1 DEF TypeOK, StartLocked, Goto, Fresh, healthVars, callVars, Where
  <1>2. CASE StartedAlready(p)
    BY <1>2, ContinueType DEF TypeOK, StartedAlready, sessionVars, healthVars
  <1>3. CASE StartSucceeds(p)
    <2>1. kern' \in [Session -> Live \cup {"off", "dead"}]
      BY <1>3 DEF TypeOK, StartSucceeds, Live
    <2>2. age' \in 0..IdleTimeout
      BY <1>3, SessionAssumption DEF StartSucceeds
    <2>3. PICK S : Continue(p, S)
      BY <1>3 DEF StartSucceeds
    <2>4. /\ healthRef' \in Health \cup {NoProc, Unstarted}
          /\ healthStop' \in BOOLEAN
      BY <1>3 DEF TypeOK, StartSucceeds, FreeThreads
    <2> QED
      BY <1>3, <2>1, <2>2, <2>3, <2>4, ContinueType DEF TypeOK, StartSucceeds
  <1>4. CASE ConstructorFails(p) \/ StartFails(p)
    <2>1. faults' \in 0..MaxFaults /\ MaxFaults \in Nat
      BY <1>4, SessionAssumption DEF TypeOK, ConstructorFails, StartFails
    <2>2. UNCHANGED <<session, kern, healthVars>> /\ lock' \in {lock, NoProc}
      BY <1>4 DEF ConstructorFails, StartFails, sessionVars
    <2>3. PICK k \in BOOLEAN : Raises(p, k)
      BY <1>4 DEF ConstructorFails, StartFails
    <2> QED
      BY <2>1, <2>2, <2>3, RaisesType DEF TypeOK, healthVars
  <1>5. CASE ThreadLimit(p)
    <2>1. age' \in 0..IdleTimeout
      BY <1>5, SessionAssumption DEF ThreadLimit
    <2> QED
      BY <1>5, <2>1, RaisesType DEF TypeOK, ThreadLimit, Live
  <1>6. CASE NoHealthThread(p)
    BY <1>6 DEF TypeOK, NoHealthThread, Goto, sessionVars, healthVars,
                callVars, Where
  <1>7. CASE SignalHealth(p)
    BY <1>7 DEF TypeOK, SignalHealth, Goto, sessionVars, callVars, Where
  <1>8. CASE JoinRaises(p)
    BY <1>8, RaisesType DEF TypeOK, JoinRaises, sessionVars
  <1>9. CASE Joined(p)
    BY <1>9 DEF TypeOK, Joined, Goto, sessionVars, callVars, Where
  <1>10. CASE StopLocked(p)
    BY <1>10 DEF TypeOK, StopLocked, Goto, healthVars, callVars, Where, Live
  <1>11. CASE StoppedAlready(p)
    BY <1>11 DEF TypeOK, StoppedAlready, Proceed, AfterStop, sessionVars,
                 healthVars, callVars, Where
  <1>12. CASE ClearSession(p)
    BY <1>12 DEF TypeOK, ClearSession, Proceed, AfterStop, healthVars,
                 callVars, Where
  <1> QED
    BY <1>1, <1>2, <1>3, <1>4, <1>5, <1>6, <1>7, <1>8, <1>9, <1>10, <1>11,
       <1>12 DEF SharedStep

LEMMA KernelExceptionType ==
  ASSUME TypeOK, NEW c \in Caller, KernelException(c)
  PROVE  /\ pc' \in [Proc -> Where]
         /\ why' \in [Proc -> CallWhy \cup OtherWhy]
         /\ snap' \in [Proc -> Session \cup {NoSession}]
         /\ joins' \in [Proc -> Health \cup {NoProc}]
         /\ tmp' \subseteq Caller
         /\ outcome' \in [User -> {"none", "ok", "error", "timeout"}]
         /\ begun' \in [Caller -> 0..MaxFaults]
  <1>1. c \in Proc
    BY CallerIsProc
  <1>2. CASE Leave(c, "error")
    BY <1>1, <1>2, LeaveType
  <1>3. CASE ~Leave(c, "error")
    BY <1>1, <1>3 DEF KernelException, TypeOK, callVars, Where
  <1> QED
    BY <1>2, <1>3

LEMMA CallType ==
  ASSUME TypeOK, NEW c \in Caller, Call(c) \/ EvalStep(c)
  PROVE  TypeOK'
  <1>0. c \in Proc
    BY CallerIsProc
  <1>1. CASE Call(c)
    BY <1>0, <1>1 DEF TypeOK, Call, sessionVars, healthVars, Where
  <1>2. CASE EnsureStarted(c)
    <2>1. AfterStart(c) \in Where
      BY DEF AfterStart, Where
    <2> QED
      BY <1>0, <1>2, <2>1 DEF TypeOK, EnsureStarted, sessionVars, healthVars,
                              callVars, Where
  <1>3. CASE MakeTemp(c)
    BY <1>0, <1>3 DEF TypeOK, MakeTemp, Goto, sessionVars, healthVars, Where
  <1>4. CASE Begin(c)
    <2>1. age' \in 0..IdleTimeout
      BY <1>4, SessionAssumption DEF Begin, TypeOK
    <2>2. CASE session = NoSession
      BY <1>4, <2>1, <2>2, KernelExceptionType DEF TypeOK, Begin, sessionVars
    <2>3. CASE session # NoSession
      BY <1>0, <1>4, <2>1, <2>3 DEF TypeOK, Begin, sessionVars, callVars, Where
    <2> QED
      BY <2>2, <2>3
  <1>5. CASE EvalReturns(c)
    <2>1. age' \in 0..IdleTimeout
      BY <1>5, SessionAssumption DEF EvalReturns, TypeOK
    <2> QED
      BY <1>0, <1>5, <2>1, LeaveType DEF TypeOK, EvalReturns, sessionVars
  <1>6. CASE EvalRaises(c)
    BY <1>6, KernelExceptionType DEF TypeOK, EvalRaises, sessionVars,
                                     healthVars
  <1>7. CASE EvalTimesOut(c)
    BY <1>0, <1>7 DEF TypeOK, EvalTimesOut, Goto, sessionVars, healthVars,
                      callVars, Where
  <1>8. CASE RaiseTimeout(c)
    BY <1>0, <1>8, LeaveType DEF TypeOK, RaiseTimeout, LeaveExecutor, sessionVars, healthVars
  <1>9. CASE RaiseFailure(c)
    BY <1>0, <1>9, LeaveType DEF TypeOK, RaiseFailure, LeaveExecutor, sessionVars, healthVars
  <1>10. CASE RetryAfterFailure(c)
    BY <1>10, KernelExceptionType DEF TypeOK, RetryAfterFailure, LeaveExecutor, sessionVars,
                                      healthVars
  <1> QED
    BY <1>1, <1>2, <1>3, <1>4, <1>5, <1>6, <1>7, <1>8, <1>9, <1>10 DEF EvalStep

LEMMA HealthType ==
  ASSUME TypeOK, NEW h \in Health, HealthStep(h)
  PROVE  TypeOK'
  <1>0. h \in Proc
    BY CallerIsProc
  <1> USE DEF TypeOK, Goto, sessionVars, healthVars, callVars, Where
  <1>1. CASE HealthExit(h)
    BY <1>0, <1>1 DEF HealthExit
  <1>2. CASE HealthIdle(h)
    BY <1>0, <1>2 DEF HealthIdle
  <1>3. CASE HealthPings(h)
    BY <1>0, <1>3 DEF HealthPings
  <1>4. CASE PingBegins(h)
    BY <1>0, <1>4 DEF PingBegins
  <1>5. CASE PingReturns(h)
    BY <1>0, <1>5 DEF PingReturns
  <1>6. CASE PingFails(h)
    BY <1>0, <1>6 DEF PingFails
  <1>7. CASE PingOdd(h)
    <2>1. faults' \in 0..MaxFaults
      BY <1>7, SessionAssumption DEF PingOdd
    <2> QED
      BY <1>0, <1>7, <2>1 DEF PingOdd
  <1> QED
    BY <1>1, <1>2, <1>3, <1>4, <1>5, <1>6, <1>7 DEF HealthStep

LEMMA NextType == TypeOK /\ [Next]_vars => TypeOK'
  <1> SUFFICES ASSUME TypeOK, [Next]_vars PROVE TypeOK'
    OBVIOUS
  <1>1. ASSUME NEW p \in Proc, SharedStep(p) PROVE TypeOK'
    BY <1>1, SharedType
  <1>2. ASSUME NEW c \in Caller, Call(c) \/ EvalStep(c) PROVE TypeOK'
    BY <1>2, CallType
  <1>3. ASSUME NEW o \in Owner, Enter(o) \/ Exit(o) PROVE TypeOK'
    BY <1>3, CallerIsProc DEF TypeOK, Enter, Exit, Goto, sessionVars,
                              healthVars, callVars, Where
  <1>4. ASSUME NEW h \in Health, HealthStep(h) PROVE TypeOK'
    BY <1>4, HealthType
  <1>5. CASE KernelFault
    <2>1. faults' \in 0..MaxFaults
      BY <1>5, SessionAssumption DEF TypeOK, KernelFault
    <2>2. kern' \in [Session -> Live \cup {"off", "dead"}]
      BY <1>5 DEF TypeOK, KernelFault, Live
    <2> QED
      BY <1>5, <2>1, <2>2 DEF TypeOK, KernelFault, healthVars, procVars,
                              callVars
  <1>6. CASE Tick
    <2>1. age' \in 0..IdleTimeout
      BY <1>6, SessionAssumption DEF TypeOK, Tick
    <2> QED
      BY <1>6, <2>1 DEF TypeOK, Tick, sessionVars, procVars, callVars
  <1>7. CASE UNCHANGED vars
    BY <1>7 DEF TypeOK, vars, sessionVars, healthVars, procVars, callVars
  <1> QED
    BY <1>1, <1>2, <1>3, <1>4, <1>5, <1>6, <1>7 DEF Next

(* Every variable of a kernel session keeps its type (kernel.py:81-103).   *)
THEOREM TypeCorrect == Spec => []TypeOK
  BY InitType, NextType, PTL DEF Spec

-----------------------------------------------------------------------------
(* A step that leaves lock, session and kernels alone and takes no process *)
(* into a swap preserves the invariant.                                    *)
LEMMA Elsewhere ==
  ASSUME TypeOK, SwapInv, SingleKernel,
         UNCHANGED <<lock, session, kern>>,
         \A q \in Proc : pc'[q] \in {"starting", "clear"} => pc'[q] = pc[q]
  PROVE  SwapInv' /\ SingleKernel'
  BY DEF SwapInv, SingleKernel, Live

(* How the ways back from start() and out of a call move processes. *)
LEMMA LeaveMoves ==
  ASSUME TypeOK, NEW p \in Proc, NEW r, Leave(p, r)
  PROVE  /\ pc'[p] \notin {"starting", "clear"}
         /\ \A q \in Proc \ {p} : pc'[q] = pc[q]
  BY DEF TypeOK, Leave

LEMMA RaisesMoves ==
  ASSUME TypeOK, NEW p \in Proc, NEW k, Raises(p, k)
  PROVE  /\ pc'[p] \notin {"starting", "clear"}
         /\ \A q \in Proc \ {p} : pc'[q] = pc[q]
  BY LeaveMoves DEF TypeOK, Raises

LEMMA ContinueMoves ==
  ASSUME TypeOK, NEW p \in Proc, NEW S, Continue(p, S)
  PROVE  /\ pc'[p] \notin {"starting", "clear"}
         /\ \A q \in Proc \ {p} : pc'[q] \in {pc[q], "wait"}
  <1>1. AfterStart(p) \notin {"starting", "clear"}
    BY DEF AfterStart
  <1> QED
    BY <1>1 DEF TypeOK, Continue

LEMMA SharedSingle ==
  ASSUME TypeOK, SwapInv, SingleKernel, NEW p \in Proc, SharedStep(p)
  PROVE  SwapInv' /\ SingleKernel'
  <1>0. p # NoProc
    BY CallerIsProc
  <1>1. CASE StartLocked(p)
    <2>1. PICK s \in Fresh : session' = s
      BY <1>1 DEF StartLocked
    <2>2. s \in Session /\ kern[s] \notin Live /\ s # NoSession
      BY <2>1, SessionAssumption DEF Fresh
    <2>3. \A q \in Session : kern[q] \notin Live
      BY <1>1, SessionAssumption DEF SingleKernel, StartLocked
    <2>4. \A q \in Proc \ {p} : pc'[q] = pc[q]
      BY <1>1 DEF StartLocked, Goto, TypeOK
    <2>5. \A q \in Proc : pc[q] \notin {"starting", "clear"}
      BY <1>1, CallerIsProc DEF StartLocked, SwapInv
    <2>6. lock' = p /\ kern' = kern
      BY <1>1 DEF StartLocked
    <2> QED
      BY <2>1, <2>2, <2>3, <2>4, <2>5, <2>6 DEF SwapInv, SingleKernel, Live
  <1>2. CASE StartedAlready(p)
    <2>1. \A q \in Proc : pc'[q] \in {"starting", "clear"} => pc'[q] = pc[q]
      BY <1>2, ContinueMoves DEF StartedAlready
    <2> QED
      BY <1>2, <2>1, Elsewhere DEF StartedAlready, sessionVars
  <1>3. CASE StartSucceeds(p)
    <2>1. \A q \in Proc \ {p} : pc[q] \notin {"starting", "clear"}
      BY <1>3 DEF StartSucceeds, SwapInv
    <2>2. PICK S : Continue(p, S)
      BY <1>3 DEF StartSucceeds
    <2>3. \A q \in Proc : pc'[q] \notin {"starting", "clear"}
      BY <2>1, <2>2, ContinueMoves
    <2>4. SingleKernel'
      BY <1>3 DEF StartSucceeds, SingleKernel, TypeOK, Live
    <2> QED
      BY <2>3, <2>4 DEF SwapInv
  <1>13. CASE ConstructorFails(p)
    <2>1. \A q \in Proc : pc'[q] \in {"starting", "clear"} => pc'[q] = pc[q]
      BY <1>13, RaisesMoves DEF ConstructorFails
    <2> QED
      BY <1>13, <2>1, Elsewhere DEF ConstructorFails, sessionVars
  <1>4. CASE StartFails(p)
    <2>1. \A q \in Proc : pc'[q] \notin {"starting", "clear"}
      BY <1>4, RaisesMoves DEF StartFails, SwapInv
    <2>2. SingleKernel'
      BY <1>4 DEF StartFails, SingleKernel, Live
    <2> QED
      BY <2>1, <2>2 DEF SwapInv
  <1>5. CASE ThreadLimit(p)
    <2>1. \A q \in Proc : pc'[q] \notin {"starting", "clear"}
      BY <1>5, RaisesMoves DEF ThreadLimit, SwapInv
    <2>2. SingleKernel'
      BY <1>5 DEF ThreadLimit, SingleKernel, TypeOK, Live
    <2> QED
      BY <2>1, <2>2 DEF SwapInv
  <1>6. CASE NoHealthThread(p)
    BY <1>6, Elsewhere DEF NoHealthThread, Goto, sessionVars, TypeOK
  <1>7. CASE SignalHealth(p)
    BY <1>7, Elsewhere DEF SignalHealth, Goto, sessionVars, TypeOK
  <1>8. CASE JoinRaises(p)
    <2>1. \A q \in Proc : pc'[q] \in {"starting", "clear"} => pc'[q] = pc[q]
      BY <1>8, RaisesMoves DEF JoinRaises
    <2> QED
      BY <1>8, <2>1, Elsewhere DEF JoinRaises, sessionVars
  <1>9. CASE Joined(p)
    BY <1>9, Elsewhere DEF Joined, Goto, sessionVars, TypeOK
  <1>10. CASE StopLocked(p)
    <2>1. \A q \in Proc : pc[q] \notin {"starting", "clear"}
      BY <1>10, CallerIsProc DEF StopLocked, SwapInv
    <2>2. \A q \in Proc \ {p} : pc'[q] = pc[q]
      BY <1>10 DEF StopLocked, Goto, TypeOK
    <2>3. kern'[session] = "off"
      BY <1>10 DEF StopLocked, TypeOK
    <2>4. lock' = p /\ session' = session /\ session # NoSession
      BY <1>10 DEF StopLocked
    <2>5. SingleKernel'
      BY <1>10 DEF StopLocked, SingleKernel, TypeOK, Live
    <2> QED
      BY <2>1, <2>2, <2>3, <2>4, <2>5 DEF SwapInv, Live
  <1>11. CASE StoppedAlready(p)
    BY <1>11, Elsewhere DEF StoppedAlready, Proceed, AfterStop, sessionVars,
                            TypeOK
  <1>12. CASE ClearSession(p)
    <2>1. \A q \in Proc : pc'[q] \notin {"starting", "clear"}
      BY <1>12 DEF ClearSession, Proceed, AfterStop, SwapInv, TypeOK
    <2>2. SingleKernel'
      BY <1>12 DEF ClearSession, SingleKernel, SwapInv, Live
    <2> QED
      BY <2>1, <2>2 DEF SwapInv
  <1> QED
    BY <1>1, <1>2, <1>3, <1>4, <1>5, <1>6, <1>7, <1>8, <1>9, <1>10, <1>11,
       <1>12, <1>13 DEF SharedStep

LEMMA CallSingle ==
  ASSUME TypeOK, SwapInv, SingleKernel, NEW c \in Caller,
         Call(c) \/ EvalStep(c)
  PROVE  SwapInv' /\ SingleKernel'
  <1>0. c \in Proc
    BY CallerIsProc
  <1>1. UNCHANGED <<lock, session, kern>>
    BY DEF Call, EvalStep, EnsureStarted, MakeTemp, Begin, EvalReturns,
           EvalRaises, EvalTimesOut, RaiseTimeout, RaiseFailure, RetryAfterFailure, LeaveExecutor,
           sessionVars
  <1> DEFINE Moves == \A q \in Proc : pc'[q] \in {"starting", "clear"}
                                         => pc'[q] = pc[q]
  <1>2. ASSUME NEW r, Leave(c, r) PROVE Moves
    BY <1>0, <1>2, LeaveMoves
  <1>3. ASSUME KernelException(c) PROVE Moves
    <2>1. CASE Leave(c, "error")
      BY <1>2, <2>1
    <2>2. CASE pc' = [pc EXCEPT ![c] = "stopHealth"]
      BY <1>0, <2>2 DEF TypeOK
    <2> QED
      BY <1>3, <2>1, <2>2 DEF KernelException
  <1>4. Moves
    <2>1. CASE EnsureStarted(c)
      <3>1. AfterStart(c) \notin {"starting", "clear"}
        BY DEF AfterStart
      <3> QED
        BY <1>0, <2>1, <3>1 DEF EnsureStarted, TypeOK
    <2>2. CASE Call(c)
      BY <1>0, <2>2 DEF Call, TypeOK
    <2>3. CASE MakeTemp(c)
      BY <1>0, <2>3 DEF MakeTemp, Goto, TypeOK
    <2>4. CASE Begin(c)
      <3>1. CASE session = NoSession
        BY <1>3, <2>4, <3>1 DEF Begin
      <3>2. CASE session # NoSession
        BY <1>0, <2>4, <3>2 DEF Begin, TypeOK
      <3> QED
        BY <3>1, <3>2
    <2>5. CASE EvalReturns(c)
      BY <1>2, <2>5 DEF EvalReturns
    <2>6. CASE EvalRaises(c)
      BY <1>3, <2>6 DEF EvalRaises
    <2>7. CASE EvalTimesOut(c)
      BY <1>0, <2>7 DEF EvalTimesOut, Goto, TypeOK
    <2>8. CASE RaiseTimeout(c)
      BY <1>2, <2>8 DEF RaiseTimeout
    <2>9. CASE RaiseFailure(c)
      BY <1>2, <2>9 DEF RaiseFailure
    <2>10. CASE RetryAfterFailure(c)
      BY <1>3, <2>10 DEF RetryAfterFailure
    <2> QED
      BY <2>1, <2>2, <2>3, <2>4, <2>5, <2>6, <2>7, <2>8, <2>9, <2>10 DEF EvalStep
  <1> QED
    BY <1>1, <1>4, Elsewhere

LEMMA HealthSingle ==
  ASSUME TypeOK, SwapInv, SingleKernel, NEW h \in Health, HealthStep(h)
  PROVE  SwapInv' /\ SingleKernel'
  <1>1. UNCHANGED <<lock, session, kern>>
    BY DEF HealthStep, HealthExit, HealthIdle, HealthPings, PingBegins,
           PingReturns, PingOdd, PingFails, sessionVars
  <1>2. \A q \in Proc : pc'[q] \in {"starting", "clear"} => pc'[q] = pc[q]
    BY CallerIsProc DEF HealthStep, HealthExit, HealthIdle, HealthPings,
       PingBegins, PingReturns, PingOdd, PingFails, Goto, TypeOK
  <1> QED
    BY <1>1, <1>2, Elsewhere

LEMMA NextSingle ==
  TypeOK /\ SwapInv /\ SingleKernel /\ [Next]_vars => SwapInv' /\ SingleKernel'
  <1> SUFFICES ASSUME TypeOK, SwapInv, SingleKernel, [Next]_vars
               PROVE  SwapInv' /\ SingleKernel'
    OBVIOUS
  <1>1. ASSUME NEW p \in Proc, SharedStep(p) PROVE SwapInv' /\ SingleKernel'
    BY <1>1, SharedSingle
  <1>2. ASSUME NEW c \in Caller, Call(c) \/ EvalStep(c)
        PROVE  SwapInv' /\ SingleKernel'
    BY <1>2, CallSingle
  <1>3. ASSUME NEW o \in Owner, Enter(o) \/ Exit(o)
        PROVE  SwapInv' /\ SingleKernel'
    BY <1>3, CallerIsProc, Elsewhere DEF Enter, Exit, Goto, sessionVars, TypeOK
  <1>4. ASSUME NEW h \in Health, HealthStep(h) PROVE SwapInv' /\ SingleKernel'
    BY <1>4, HealthSingle
  <1>5. CASE KernelFault
    (* Only a kernel that is up fails, so nobody is in a swap. *)
    <2>1. \A q \in Proc : pc'[q] \notin {"starting", "clear"}
      BY <1>5 DEF KernelFault, SwapInv, Live, procVars
    <2>2. SingleKernel'
      BY <1>5 DEF KernelFault, SingleKernel, TypeOK, Live
    <2> QED
      BY <2>1, <2>2 DEF SwapInv
  <1>6. CASE Tick
    BY <1>6, Elsewhere DEF Tick, sessionVars, procVars
  <1>7. CASE UNCHANGED vars
    BY <1>7, Elsewhere DEF vars, sessionVars, procVars
  <1> QED
    BY <1>1, <1>2, <1>3, <1>4, <1>5, <1>6, <1>7 DEF Next

(* However starts, stops, restarts, idle stops and faults interleave, at   *)
(* most one kernel process is alive, and it is the one behind _session     *)
(* (the with self._lock blocks of kernel.py).                              *)
THEOREM OneKernel == Spec => []SingleKernel
  <1>1. Init => TypeOK /\ SwapInv /\ SingleKernel
    BY InitType DEF Init, SwapInv, SingleKernel, Live
  <1>2. TypeOK /\ SwapInv /\ SingleKernel /\ [Next]_vars
          => TypeOK' /\ SwapInv' /\ SingleKernel'
    BY NextType, NextSingle
  <1> QED
    BY <1>1, <1>2, PTL DEF Spec
-----------------------------------------------------------------------------
(* Who holds the lock is in the middle of a swap, and a call that is under *)
(* way knows what for: so start, stop and restart bring it back into the   *)
(* call and never out of it, and only Leave ends it.                       *)
HoldInv == lock # NoProc => pc[lock] \in {"starting", "clear"}

UnderWay(c) ==
  /\ joins[c] # NoProc => pc[c] = "join"
  /\ c \in tmp => pc[c] # "out"
  /\ pc[c] # "out" => why[c] \in CallWhy

CleanInv == HoldInv /\ \A c \in Caller : UnderWay(c)

(* A step of p touches the call of no other process.                       *)
LEMMA OthersUnderWay ==
  ASSUME NEW p, CleanInv,
         \A c \in Caller \ {p} : /\ pc'[c] = pc[c] /\ why'[c] = why[c] /\ joins'[c] = joins[c]
                                 /\ c \in tmp' <=> c \in tmp,
         p \in Caller => UnderWay(p)',
         HoldInv'
  PROVE  CleanInv'
  BY DEF CleanInv, UnderWay

LEMMA LeaveClean ==
  ASSUME TypeOK, CleanInv, NEW p \in Proc, NEW r, Leave(p, r), pc[p] # "join",
         lock' = IF lock = p THEN NoProc ELSE lock
  PROVE  CleanInv'
  <1>1. \A q \in Proc \ {p} : pc'[q] = pc[q] /\ why'[q] = why[q] /\ joins'[q] = joins[q]
    BY DEF TypeOK, Leave
  <1>2. tmp' = tmp \ {p}
    BY DEF Leave
  <1>3. HoldInv'
    BY <1>1 DEF CleanInv, HoldInv, TypeOK
  <1>4. p \in Caller => UnderWay(p)'
    <2>1. p \in Caller => pc'[p] = "out" /\ joins'[p] = joins[p] /\ joins[p] = NoProc
      BY SessionAssumption DEF TypeOK, Leave, CleanInv, UnderWay
    <2> QED
      BY <1>2, <2>1 DEF UnderWay
  <1> QED
    BY <1>1, <1>2, <1>3, <1>4, CallerIsProc, OthersUnderWay

LEMMA RaisesClean ==
  ASSUME TypeOK, CleanInv, NEW p \in Proc, NEW k, Raises(p, k), pc[p] \notin {"out", "join"},
         lock' = IF lock = p THEN NoProc ELSE lock
  PROVE  CleanInv'
  <1>1. CASE Leave(p, "error")
    BY <1>1, LeaveClean
  <1>2. CASE ~Leave(p, "error")
    <2>1. /\ pc' = [pc EXCEPT ![p] = pc'[p]] /\ pc'[p] # "out"
          /\ why' = [why EXCEPT ![p] = why'[p]]
          /\ why[p] # "odd" => why'[p] \in {"retry", "failed"}
          /\ UNCHANGED <<joins, tmp>>
      BY <1>2 DEF Raises, callVars, TypeOK
    <2>2. \A q \in Proc \ {p} : pc'[q] = pc[q] /\ why'[q] = why[q] /\ joins'[q] = joins[q]
      BY <2>1 DEF TypeOK
    <2>3. HoldInv'
      BY <2>2 DEF CleanInv, HoldInv, TypeOK
    <2>4. p \in Caller => UnderWay(p)'
      <3>1. p \in Caller /\ why[p] = "odd" => pc[p] = "out"
        BY DEF CleanInv, UnderWay
      <3> QED
        BY <2>1, <3>1 DEF CleanInv, UnderWay, TypeOK
    <2> QED
      BY <2>1, <2>2, <2>3, <2>4, CallerIsProc, OthersUnderWay
  <1> QED
    BY <1>1, <1>2

LEMMA ContinueClean ==
  ASSUME TypeOK, CleanInv, NEW p \in Proc, NEW S \in SUBSET Health, Continue(p, S),
         pc[p] \in {"lockStart", "starting"}, \A h \in S : h # lock',
         lock' = IF lock = p THEN NoProc ELSE lock
  PROVE  CleanInv'
  <1>1. Caller \cap S = {}
    BY SessionAssumption
  <1>2. \A q \in Proc \ {p} : q \notin S => pc'[q] = pc[q]
    BY DEF TypeOK, Continue
  <1>3. \A q \in Caller \ {p} : pc'[q] = pc[q] /\ why'[q] = why[q]
    BY <1>1, <1>2, CallerIsProc DEF TypeOK, Continue
  <1>4. joins' = joins /\ tmp' = tmp
    BY DEF Continue, callVars
  <1>5. HoldInv'
    BY <1>2 DEF CleanInv, HoldInv, TypeOK
  <1>6. p \in Caller => UnderWay(p)'
    <2>1. p \in Caller => why'[p] = why[p] /\ pc'[p] = AfterStart(p)
      BY <1>1 DEF TypeOK, Continue
    <2>2. p \in Caller => why[p] \in CallWhy /\ joins[p] = NoProc
      BY DEF CleanInv, UnderWay
    <2>3. p \in Caller => AfterStart(p) \notin {"out"}
      BY <2>2 DEF AfterStart
    <2> QED
      BY <1>4, <2>1, <2>2, <2>3 DEF UnderWay
  <1> QED
    BY <1>3, <1>4, <1>5, <1>6, OthersUnderWay

LEMMA SharedClean ==
  ASSUME TypeOK, SwapInv, CleanInv, NEW p \in Proc, SharedStep(p) PROVE CleanInv'
  <1>0. p # NoProc /\ (pc[p] \in {"starting", "clear"} => lock = p)
    BY CallerIsProc DEF SwapInv
  <1> USE CallerIsProc
  <1>1. CASE StartLocked(p)
    BY <1>0, <1>1 DEF CleanInv, HoldInv, UnderWay, TypeOK, StartLocked, Goto, callVars
  <1>2. CASE StartedAlready(p)
    BY <1>0, <1>2, ContinueClean DEF StartedAlready, sessionVars
  <1>3. CASE StartSucceeds(p)
    <2>1. PICK S \in SUBSET Health : Continue(p, S)
      BY <1>3 DEF StartSucceeds, FreeThreads
    <2> QED
      BY <1>0, <1>3, <2>1, ContinueClean DEF StartSucceeds
  <1>4. CASE ConstructorFails(p) \/ StartFails(p) \/ ThreadLimit(p)
    BY <1>0, <1>4, RaisesClean DEF ConstructorFails, StartFails, ThreadLimit, sessionVars
  <1>5. CASE JoinRaises(p)
    <2>1. lock # p
      BY <1>0, <1>5 DEF JoinRaises, CleanInv, HoldInv
    <2> QED
      BY <1>5, <2>1, RaisesClean DEF JoinRaises, sessionVars
  <1>6. CASE NoHealthThread(p) \/ SignalHealth(p) \/ Joined(p)
    BY <1>0, <1>6 DEF CleanInv, HoldInv, UnderWay, TypeOK, NoHealthThread, SignalHealth, Joined,
                      Goto, sessionVars, callVars
  <1>7. CASE StopLocked(p)
    BY <1>0, <1>7 DEF CleanInv, HoldInv, UnderWay, TypeOK, StopLocked, Goto, callVars
  <1>8. CASE StoppedAlready(p) \/ ClearSession(p)
    BY <1>0, <1>8 DEF CleanInv, HoldInv, UnderWay, TypeOK, StoppedAlready, ClearSession,
                      Proceed, AfterStop, sessionVars, callVars
  <1> QED
    BY <1>1, <1>2, <1>3, <1>4, <1>5, <1>6, <1>7, <1>8 DEF SharedStep

LEMMA CallClean ==
  ASSUME TypeOK, CleanInv, NEW c \in Caller, Call(c) \/ EvalStep(c) PROVE CleanInv'
  <1>0. c \in Proc /\ (pc[c] \in {"out", "ensure", "temp", "begin", "eval", "raise"} => lock # c)
    BY CallerIsProc DEF CleanInv, HoldInv
  <1> USE CallerIsProc
  <1>1. CASE Call(c)
    BY <1>0, <1>1 DEF CleanInv, HoldInv, UnderWay, TypeOK, Call, sessionVars
  <1>2. CASE EnsureStarted(c)
    <2>1. why[c] \in CallWhy
      BY <1>2 DEF CleanInv, UnderWay, EnsureStarted
    <2>2. AfterStart(c) \in {"temp", "raise", "begin"}
      BY <2>1 DEF AfterStart
    <2> QED
      BY <1>0, <1>2, <2>1, <2>2 DEF CleanInv, HoldInv, UnderWay, TypeOK, EnsureStarted,
                                    sessionVars, callVars
  <1>3. CASE MakeTemp(c)
    BY <1>0, <1>3 DEF CleanInv, HoldInv, UnderWay, TypeOK, MakeTemp, Goto, sessionVars
  <1>4. ASSUME KernelException(c), pc[c] \in {"begin", "eval", "raise"}, UNCHANGED lock PROVE CleanInv'
    <2>1. CASE Leave(c, "error")
      BY <1>0, <1>4, <2>1, LeaveClean
    <2>2. CASE ~Leave(c, "error")
      BY <1>0, <1>4, <2>2 DEF KernelException, CleanInv, HoldInv, UnderWay, TypeOK, callVars
    <2> QED
      BY <2>1, <2>2
  <1>5. CASE Begin(c)
    <2>1. CASE session = NoSession
      BY <1>4, <1>5, <2>1 DEF Begin, sessionVars
    <2>2. CASE session # NoSession
      BY <1>0, <1>5, <2>2 DEF CleanInv, HoldInv, UnderWay, TypeOK, Begin, sessionVars, callVars
    <2> QED
      BY <2>1, <2>2
  <1>6. CASE EvalRaises(c)
    BY <1>4, <1>6 DEF EvalRaises, sessionVars
  <1>7. CASE EvalReturns(c) \/ RaiseTimeout(c) \/ RaiseFailure(c)
    BY <1>0, <1>7, LeaveClean DEF EvalReturns, RaiseTimeout, RaiseFailure, LeaveExecutor,
                                  sessionVars
  <1>8. CASE EvalTimesOut(c)
    BY <1>0, <1>8 DEF CleanInv, HoldInv, UnderWay, TypeOK, EvalTimesOut, Goto, sessionVars, callVars
  <1>9. CASE RetryAfterFailure(c)
    BY <1>4, <1>9 DEF RetryAfterFailure, LeaveExecutor, sessionVars
  <1> QED
    BY <1>1, <1>2, <1>3, <1>5, <1>6, <1>7, <1>8, <1>9 DEF EvalStep

LEMMA NextClean == TypeOK /\ SwapInv /\ CleanInv /\ [Next]_vars => CleanInv'
  <1> SUFFICES ASSUME TypeOK, SwapInv, CleanInv, [Next]_vars PROVE CleanInv'
    OBVIOUS
  <1>1. ASSUME NEW p \in Proc, SharedStep(p) PROVE CleanInv'
    BY <1>1, SharedClean
  <1>2. ASSUME NEW c \in Caller, Call(c) \/ EvalStep(c) PROVE CleanInv'
    BY <1>2, CallClean
  <1>3. ASSUME NEW o \in Owner, Enter(o) \/ Exit(o) PROVE CleanInv'
    BY <1>3, CallerIsProc, SessionAssumption
       DEF Enter, Exit, Goto, CleanInv, HoldInv, UnderWay, TypeOK, sessionVars, callVars
  <1>4. ASSUME NEW h \in Health, HealthStep(h) PROVE CleanInv'
    BY <1>4, CallerIsProc, SessionAssumption
       DEF HealthStep, HealthExit, HealthIdle, HealthPings, PingBegins, PingReturns, PingOdd, PingFails,
           Goto, CleanInv, HoldInv, UnderWay, TypeOK, sessionVars, callVars
  <1>5. CASE KernelFault \/ Tick \/ UNCHANGED vars
    BY <1>5 DEF KernelFault, Tick, vars, CleanInv, HoldInv, UnderWay, sessionVars, procVars, callVars
  <1> QED
    BY <1>1, <1>2, <1>3, <1>4, <1>5 DEF Next

(* A call that has ended, in whichever way, has left neither its temporary *)
(* file, nor the lock, nor a join behind (kernel.py:155-222, 243-311), for *)
(* any number of callers, owners and health threads.                       *)
THEOREM CleansUp == Spec => []CallsCleanUp
  <1>1. Init => TypeOK /\ SwapInv /\ CleanInv
    <2>1. Init => CleanInv
      BY CallerIsProc, SessionAssumption DEF Init, CleanInv, HoldInv, UnderWay
    <2>2. Init => SwapInv
      BY DEF Init, SwapInv
    <2> QED
      BY InitType, <2>1, <2>2
  <1>2. TypeOK /\ SwapInv /\ CleanInv => CallsCleanUp
    BY CallerIsProc DEF CleanInv, HoldInv, UnderWay, CallsCleanUp
  <1>3. Spec => []SwapInv
    <2>1. Init => TypeOK /\ SwapInv /\ SingleKernel
      BY InitType DEF Init, SwapInv, SingleKernel, Live
    <2> QED
      BY <2>1, NextType, NextSingle, PTL DEF Spec
  <1> QED
    BY <1>1, <1>2, <1>3, NextType, NextClean, PTL DEF Spec
-----------------------------------------------------------------------------
(* Leaving the executor after a hard timeout.                              *)

(* What a call that came to its hard timeout was evaluated on: no longer   *)
(* _session once the restart has got past the old one, unless a join with  *)
(* a health thread has raised before.                                      *)
Gone(c) ==
  /\ pc[c] = "ensure" => why[c] \in {"image", "first"}
  /\ pc[c] = "eval" => snap[c] \in Session
  /\ pc[c] = "raise" => why[c] \in {"timeout", "late", "failed", "retry"}
  /\ why[c] \in {"timeout", "late", "failed", "retry"} => snap[c] \in Session
  /\ why[c] \in {"timeout", "late"} /\ pc[c] \in {"lockStart", "starting", "raise"} =>
       snap[c] # session
  /\ why[c] = "retry" => pc[c] = "raise" /\ snap[c] # session
  /\ why[c] = "failed" => pc[c] = "raise" /\ (snap[c] # session \/ HasHealth)

GoneInv == (healthRef # NoProc => HasHealth) /\ \A c \in Caller : Gone(c)

LEMMA OthersGone ==
  ASSUME GoneInv, NEW p, session' \in {session, NoSession} \cup Fresh,
         healthRef' # NoProc => healthRef # NoProc \/ HasHealth,
         \A c \in Caller \ {p} : pc'[c] = pc[c] /\ why'[c] = why[c] /\ snap'[c] = snap[c],
         p \in Caller => Gone(p)'
  PROVE  GoneInv'
  <1>1. ASSUME NEW c \in Caller \ {p}, Gone(c) PROVE Gone(c)'
    <2>1. snap[c] \in Session /\ snap[c] # session => snap[c] # session'
      BY CallerIsProc, SessionAssumption DEF Fresh
    <2> QED
      BY <1>1, <2>1 DEF Gone, HasHealth
  <1> QED
    BY <1>1 DEF GoneInv, HasHealth

LEMMA LeaveGone ==
  ASSUME TypeOK, GoneInv, NEW p \in Proc, NEW r, Leave(p, r),
         session' = session, healthRef' # NoProc => healthRef # NoProc \/ HasHealth
  PROVE  GoneInv'
  <1>1. \A q \in Proc \ {p} : pc'[q] = pc[q] /\ why'[q] = why[q] /\ snap'[q] = snap[q]
    BY DEF TypeOK, Leave
  <1>2. p \in Caller => Gone(p)'
    <2>1. p \in Caller => pc'[p] = "out" /\ why'[p] = "none"
      BY SessionAssumption DEF TypeOK, Leave
    <2> QED
      BY <2>1 DEF Gone
  <1> QED
    BY <1>1, <1>2, CallerIsProc, OthersGone

LEMMA RaisesGone ==
  ASSUME TypeOK, GoneInv, NEW p \in Proc, NEW k \in BOOLEAN, Raises(p, k), session' = session,
         healthRef' # NoProc => healthRef # NoProc \/ HasHealth,
         pc[p] \in {"lockStart", "starting"} \/ (HasHealth /\ ~k),
         p \in Caller => why[p] \in CallWhy
  PROVE  GoneInv'
  <1>1. CASE Leave(p, "error")
    BY <1>1, LeaveGone
  <1>2. CASE ~Leave(p, "error") /\ why[p] # "odd"
    <2>1. /\ why[p] \in {"timeout", "late"} /\ pc' = [pc EXCEPT ![p] = "raise"]
          /\ why' = [why EXCEPT ![p] = IF @ = "timeout" /\ k THEN "retry" ELSE "failed"]
          /\ snap' = snap
      BY <1>2 DEF Raises
    <2>2. \A q \in Proc \ {p} : pc'[q] = pc[q] /\ why'[q] = why[q] /\ snap'[q] = snap[q]
      BY <2>1 DEF TypeOK
    <2>3. p \in Caller => Gone(p)'
      BY <2>1 DEF GoneInv, Gone, TypeOK, HasHealth
    <2> QED
      BY <2>2, <2>3, CallerIsProc, OthersGone
  <1>3. CASE why[p] = "odd"
    <2>1. \A q \in Proc \ {p} : pc'[q] = pc[q] /\ why'[q] = why[q] /\ snap'[q] = snap[q]
      BY <1>3 DEF Raises, Leave, TypeOK
    <2> QED
      BY <1>3, <2>1, CallerIsProc, OthersGone
  <1> QED
    BY <1>1, <1>2, <1>3

LEMMA ContinueGone ==
  ASSUME TypeOK, CleanInv, GoneInv, NEW p \in Proc, NEW S \in SUBSET Health, Continue(p, S),
         pc[p] \in {"lockStart", "starting"}, session' = session,
         healthRef' # NoProc => healthRef # NoProc \/ HasHealth
  PROVE  GoneInv'
  <1>1. Caller \cap S = {}
    BY SessionAssumption
  <1>2. \A q \in Caller \ {p} : pc'[q] = pc[q] /\ why'[q] = why[q] /\ snap'[q] = snap[q]
    BY <1>1, CallerIsProc DEF TypeOK, Continue
  <1>3. p \in Caller => Gone(p)'
    <2>1. p \in Caller => why'[p] = why[p] /\ pc'[p] = AfterStart(p) /\ snap'[p] = snap[p]
      BY <1>1 DEF TypeOK, Continue
    <2>2. p \in Caller => why[p] \in CallWhy \ {"failed", "retry"}
      BY DEF CleanInv, UnderWay, GoneInv, Gone
    <2>3. p \in Caller => Gone(p)
      BY DEF GoneInv
    <2> QED
      BY <2>1, <2>2, <2>3 DEF Gone, AfterStart
  <1> QED
    BY <1>2, <1>3, OthersGone

LEMMA SharedGone ==
  ASSUME TypeOK, CleanInv, GoneInv, NEW p \in Proc, SharedStep(p) PROVE GoneInv'
  <1> USE CallerIsProc, SessionAssumption
  <1>0. p \in Caller => why[p] \in CallWhy
    BY DEF SharedStep, StartLocked, StartedAlready, StartSucceeds, ConstructorFails, StartFails,
           ThreadLimit, NoHealthThread, SignalHealth, JoinRaises, Joined, StopLocked,
           StoppedAlready, ClearSession, Goto, CleanInv, UnderWay
  <1>1. CASE StartLocked(p)
    <2>1. PICK s \in Fresh : session' = s
      BY <1>1 DEF StartLocked
    <2>2. \A q \in Proc : snap[q] # s
      BY <2>1 DEF Fresh
    <2>3. \A q \in Proc \ {p} : pc'[q] = pc[q]
      BY <1>1 DEF TypeOK, StartLocked, Goto
    <2>4. why' = why /\ snap' = snap /\ healthRef' = healthRef /\ pc[p] = "lockStart" /\ pc'[p] = "starting"
      BY <1>1 DEF TypeOK, StartLocked, Goto, healthVars
    <2>5. p \in Caller => Gone(p)'
      BY <2>1, <2>2, <2>4 DEF GoneInv, Gone
    <2> QED
      BY <2>1, <2>3, <2>4, <2>5, OthersGone
  <1>2. CASE StartedAlready(p)
    BY <1>2, ContinueGone DEF StartedAlready, sessionVars, healthVars
  <1>3. CASE StartSucceeds(p)
    <2>1. PICK S \in SUBSET Health : Continue(p, S)
      BY <1>3 DEF StartSucceeds, FreeThreads
    <2>2. healthRef' # NoProc => healthRef # NoProc \/ HasHealth
      BY <1>3 DEF StartSucceeds
    <2> QED
      BY <1>3, <2>1, <2>2, ContinueGone DEF StartSucceeds
  <1>4. CASE ConstructorFails(p) \/ StartFails(p)
    <2>1. /\ pc[p] \in {"lockStart", "starting"} /\ session' = session
          /\ healthRef' # NoProc => healthRef # NoProc \/ HasHealth
      BY <1>4 DEF ConstructorFails, StartFails, sessionVars, healthVars
    <2>2. Raises(p, TRUE) \/ Raises(p, FALSE)
      BY <1>4 DEF ConstructorFails, StartFails
    <2>3. CASE Raises(p, TRUE)
      BY <1>0, <2>1, <2>3, RaisesGone
    <2>4. CASE Raises(p, FALSE)
      BY <1>0, <2>1, <2>4, RaisesGone
    <2> QED
      BY <2>2, <2>3, <2>4
  <1>5. CASE ThreadLimit(p)
    BY <1>0, <1>5, RaisesGone DEF ThreadLimit
  <1>6. CASE JoinRaises(p)
    <2>1. HasHealth
      BY <1>6 DEF JoinRaises, GoneInv
    <2> QED
      BY <1>0, <1>6, <2>1, RaisesGone DEF JoinRaises, sessionVars
  <1>7. CASE NoHealthThread(p) \/ SignalHealth(p) \/ Joined(p) \/ StopLocked(p)
    <2>1. /\ why' = why /\ snap' = snap /\ session' = session
          /\ healthRef' \in {healthRef, NoProc}
          /\ pc[p] # "eval" /\ pc'[p] \in {"join", "lockStop", "clear"}
          /\ \A q \in Proc \ {p} : pc'[q] = pc[q]
      BY <1>7 DEF TypeOK, NoHealthThread, SignalHealth, Joined, StopLocked, Goto, sessionVars,
                  healthVars
    <2>2. p \in Caller => Gone(p)'
      <3>1. p \in Caller => Gone(p) /\ pc[p] # "raise"
        BY <1>7 DEF GoneInv, NoHealthThread, SignalHealth, Joined, StopLocked, Goto
      <3> QED
        BY <2>1, <3>1 DEF Gone
    <2> QED
      BY <2>1, <2>2, OthersGone
  <1>8. CASE StoppedAlready(p) \/ ClearSession(p)
    <2>1. /\ snap' = snap /\ session' = NoSession /\ healthRef' = healthRef
          /\ pc[p] \in {"lockStop", "clear"} /\ pc'[p] \in {"out", "wait", "lockStart"}
          /\ \A q \in Proc \ {p} : pc'[q] = pc[q] /\ why'[q] = why[q]
          /\ why'[p] \in {why[p], "none"}
      BY <1>8 DEF TypeOK, StoppedAlready, ClearSession, Proceed, AfterStop, sessionVars, healthVars
    <2>2. p \in Caller => Gone(p)'
      <3>1. p \in Caller => Gone(p)
        BY DEF GoneInv
      <3>2. snap[p] \in Session => snap'[p] # session'
        BY <2>1
      <3> QED
        BY <2>1, <3>1, <3>2 DEF Gone
    <2> QED
      BY <2>1, <2>2, OthersGone
  <1> QED
    BY <1>1, <1>2, <1>3, <1>4, <1>5, <1>6, <1>7, <1>8 DEF SharedStep

LEMMA CallGone ==
  ASSUME TypeOK, CleanInv, GoneInv, NEW c \in Caller, Call(c) \/ EvalStep(c) PROVE GoneInv'
  <1>0. c \in Proc /\ Gone(c) /\ UnderWay(c)
    BY CallerIsProc DEF GoneInv, CleanInv
  <1> USE CallerIsProc, SessionAssumption
  <1>1. session' = session /\ healthRef' = healthRef
    BY DEF Call, EvalStep, EnsureStarted, MakeTemp, Begin, EvalReturns, EvalRaises, EvalTimesOut,
           RaiseTimeout, RaiseFailure, RetryAfterFailure, LeaveExecutor, sessionVars, healthVars
  <1>2. ASSUME NEW r, Leave(c, r) PROVE GoneInv'
    BY <1>0, <1>1, <1>2, LeaveGone
  <1>3. ASSUME Gone(c)', \A q \in Proc \ {c} : pc'[q] = pc[q] /\ why'[q] = why[q] /\ snap'[q] = snap[q]
        PROVE  GoneInv'
    BY <1>1, <1>3, OthersGone
  <1>4. ASSUME KernelException(c) PROVE GoneInv'
    <2>1. CASE Leave(c, "error")
      BY <1>2, <2>1
    <2>2. CASE ~Leave(c, "error")
      <3>1. /\ pc' = [pc EXCEPT ![c] = "stopHealth"] /\ why' = [why EXCEPT ![c] = "crash"]
            /\ snap' = [snap EXCEPT ![c] = NoSession]
        BY <1>4, <2>2 DEF KernelException
      <3> QED
        BY <1>0, <1>3, <3>1 DEF Gone, TypeOK
    <2> QED
      BY <2>1, <2>2
  <1>5. CASE Call(c)
    BY <1>0, <1>3, <1>5 DEF Call, Gone, TypeOK
  <1>6. CASE EnsureStarted(c)
    <2>1. /\ pc' = [pc EXCEPT ![c] = pc'[c]] /\ pc'[c] \in {"lockStart", AfterStart(c)}
          /\ why' = why /\ snap' = snap /\ pc[c] = "ensure"
      BY <1>0, <1>6 DEF EnsureStarted, TypeOK
    <2>2. why[c] \in {"image", "first"}
      BY <1>0, <2>1 DEF Gone
    <2>3. pc'[c] \in {"lockStart", "temp", "begin"}
      BY <2>1, <2>2 DEF AfterStart
    <2> QED
      BY <1>0, <1>3, <2>1, <2>2, <2>3 DEF Gone, TypeOK
  <1>7. CASE MakeTemp(c)
    BY <1>0, <1>3, <1>7 DEF MakeTemp, Goto, Gone, TypeOK
  <1>8. CASE Begin(c)
    <2>1. CASE session = NoSession
      BY <1>4, <1>8, <2>1 DEF Begin
    <2>2. CASE session # NoSession
      <3>1. /\ pc' = [pc EXCEPT ![c] = "eval"] /\ snap' = [snap EXCEPT ![c] = session]
            /\ why' = why /\ pc[c] = "begin"
        BY <1>8, <2>2 DEF Begin
      <3>2. why[c] \notin {"retry", "failed"} /\ session \in Session
        BY <1>0, <2>2, <3>1 DEF Gone, TypeOK
      <3> QED
        BY <1>0, <1>3, <3>1, <3>2 DEF Gone, TypeOK
    <2> QED
      BY <2>1, <2>2
  <1>9. CASE EvalReturns(c) \/ RaiseTimeout(c) \/ RaiseFailure(c)
    BY <1>2, <1>9 DEF EvalReturns, RaiseTimeout, RaiseFailure
  <1>10. CASE EvalRaises(c) \/ RetryAfterFailure(c)
    BY <1>4, <1>10 DEF EvalRaises, RetryAfterFailure
  <1>11. CASE EvalTimesOut(c)
    <2>1. /\ pc' = [pc EXCEPT ![c] = "stopHealth"] /\ snap' = snap /\ pc[c] = "eval"
          /\ why' = [why EXCEPT ![c] = IF @ = "first" THEN "timeout" ELSE "late"]
      BY <1>11 DEF EvalTimesOut, Goto
    <2>2. pc'[c] = "stopHealth" /\ snap'[c] = snap[c] /\ why'[c] \in {"timeout", "late"}
      BY <1>0, <2>1 DEF TypeOK
    <2>3. Gone(c)'
      BY <1>0, <2>1, <2>2 DEF Gone
    <2> QED
      BY <1>0, <1>3, <2>1, <2>3 DEF TypeOK
  <1> QED
    BY <1>5, <1>6, <1>7, <1>8, <1>9, <1>10, <1>11 DEF EvalStep

LEMMA NextGone == TypeOK /\ CleanInv /\ GoneInv /\ [Next]_vars => GoneInv'
  <1> SUFFICES ASSUME TypeOK, CleanInv, GoneInv, [Next]_vars PROVE GoneInv'
    OBVIOUS
  <1>1. ASSUME NEW p \in Proc, SharedStep(p) PROVE GoneInv'
    BY <1>1, SharedGone
  <1>2. ASSUME NEW c \in Caller, Call(c) \/ EvalStep(c) PROVE GoneInv'
    BY <1>2, CallGone
  <1>3. ASSUME NEW p \in Proc \ Caller, session' = session, healthRef' = healthRef,
               \A q \in Proc \ {p} : pc'[q] = pc[q] /\ why'[q] = why[q] /\ snap'[q] = snap[q]
        PROVE  GoneInv'
    BY <1>3, CallerIsProc, OthersGone
  <1>4. ASSUME NEW o \in Owner, Enter(o) \/ Exit(o) PROVE GoneInv'
    BY <1>3, <1>4, CallerIsProc, SessionAssumption
       DEF Enter, Exit, Goto, TypeOK, sessionVars, healthVars
  <1>5. ASSUME NEW h \in Health, HealthStep(h) PROVE GoneInv'
    BY <1>3, <1>5, CallerIsProc, SessionAssumption
       DEF HealthStep, HealthExit, HealthIdle, HealthPings, PingBegins, PingReturns, PingOdd, PingFails,
           Goto, TypeOK, sessionVars, healthVars
  <1>6. CASE KernelFault \/ Tick \/ UNCHANGED vars
    BY <1>6 DEF KernelFault, Tick, vars, GoneInv, Gone, HasHealth, sessionVars, healthVars, procVars
  <1> QED
    BY <1>1, <1>2, <1>4, <1>5, <1>6 DEF Next

(* "the kernel ... is force-restarted" (kernel.py:226-227, 251-264): who   *)
(* has restarted a kernel that did not answer in time does not wait for    *)
(* the evaluation that is pending on it when it leaves the executor,       *)
(* whatever the restart came to and whoever else starts and stops the      *)
(* session; unless joining a health thread has raised, which leaves the    *)
(* kernel that hangs alone.                                                *)
NobodyWaitsForHungKernel ==
  \A c \in Caller : pc[c] = "raise" /\ kern[snap[c]] \in Live => why[c] = "failed" /\ HasHealth

THEOREM TimeoutsEnd == Spec => []NobodyWaitsForHungKernel
  <1>1. Init => TypeOK /\ SwapInv /\ SingleKernel /\ CleanInv /\ GoneInv
    <2>1. Init => CleanInv
      BY CallerIsProc, SessionAssumption DEF Init, CleanInv, HoldInv, UnderWay
    <2>2. Init => SwapInv /\ SingleKernel
      BY DEF Init, SwapInv, SingleKernel, Live
    <2>3. Init => GoneInv
      BY CallerIsProc, SessionAssumption DEF Init, GoneInv, Gone
    <2> QED
      BY InitType, <2>1, <2>2, <2>3
  <1>2. TypeOK /\ SwapInv /\ SingleKernel /\ CleanInv /\ GoneInv /\ [Next]_vars
          => TypeOK' /\ SwapInv' /\ SingleKernel' /\ CleanInv' /\ GoneInv'
    BY NextType, NextSingle, NextClean, NextGone
  <1>3. SingleKernel /\ GoneInv => NobodyWaitsForHungKernel
    BY DEF SingleKernel, GoneInv, Gone, NobodyWaitsForHungKernel
  <1> QED
    BY <1>1, <1>2, <1>3, PTL DEF Spec
-----------------------------------------------------------------------------
(* Whether there is a session, for users that share it: the refinement     *)
(* that lets the pool treat a session as open or closed.                   *)

Kind(reason) == IF reason = "exit" THEN "stop"
                ELSE IF reason = "enter" THEN "start" ELSE "evaluate"
USE DEF Kind

(* What each user is doing, whether it has found or made the session open  *)
(* and has not given it up for a restart since, and who has got an error.  *)
(* A restart that has failed has not made it open.                         *)
OpOf == [u \in User |-> IF pc[u] = "out" THEN "none"
                        ELSE Kind(why[u])]
Settled(pcOf, reason) ==
  /\ reason # "exit"
  /\ \/ pcOf \in {"temp", "begin", "eval", "starting"}
     \/ pcOf = "raise" /\ reason \in {"timeout", "late"}
USE DEF Settled
DoneOf == [u \in User |-> Settled(pc[u], why[u])]
RaisedOf == {u \in User : outcome[u] = "error"}
Opened == session # NoSession

Shared == INSTANCE OpenSession
            WITH open <- Opened, op <- OpOf, done <- DoneOf, raised <- RaisedOf,
                 MayFail <- StartMayFail

(* Nobody joins a health thread, the owners are in start() or stop(), and  *)
(* a restart that failed is one of a kernel that could not be started.     *)
Owning(o) ==
  \/ pc[o] = "out"
  \/ /\ outcome[o] = "none"
     /\ \/ why[o] = "enter" /\ pc[o] \in {"lockStart", "starting"}
        \/ why[o] = "exit" /\ pc[o] \in {"stopHealth", "lockStop", "clear"}

Failing(c) == pc[c] = "raise" /\ why[c] \in {"retry", "failed"} => StartMayFail

UseInv ==
  /\ healthRef = NoProc /\ \A h \in Health : pc[h] = "none"
  /\ \A o \in Owner : Owning(o)
  /\ \A c \in Caller : Failing(c)

(* A step of p leaves the others where they are. *)
Apart(p) == /\ \A q \in Proc \ {p} : pc'[q] = pc[q] /\ why'[q] = why[q]
            /\ \A q \in User \ {p} : outcome'[q] = outcome[q]

LEMMA OthersUse ==
  ASSUME UseInv, NEW p \in User, Apart(p), healthRef' = healthRef, p \in Owner => Owning(p)',
         p \in Caller => Failing(p)'
  PROVE  UseInv'
  <1>1. \A o \in Owner \ {p} : Owning(o)'
    BY CallerIsProc DEF UseInv, Owning, Apart
  <1>2. \A h \in Health : pc'[h] = "none"
    BY CallerIsProc, SessionAssumption DEF UseInv, Apart
  <1>3. \A c \in Caller \ {p} : Failing(c)'
    BY CallerIsProc DEF UseInv, Failing, Apart
  <1> QED
    BY <1>1, <1>2, <1>3 DEF UseInv

(* In which way a step changes what is seen from outside. *)
LEMMA SeenAsStep ==
  ASSUME NEW u \in User, Apart(u),
         \/ /\ OpOf[u] = "none" /\ OpOf'[u] \in {"start", "evaluate", "stop"} /\ ~DoneOf'[u]
            /\ session' = session /\ outcome'[u] = "none"
         \/ /\ OpOf[u] \in {"start", "evaluate"} /\ ~DoneOf[u]
            /\ OpOf'[u] = OpOf[u] /\ DoneOf'[u] /\ session' # NoSession
            /\ outcome'[u] = outcome[u]
         \/ /\ OpOf[u] = "evaluate" /\ OpOf'[u] = "evaluate" /\ ~DoneOf'[u]
            /\ session' \in {session, NoSession} /\ outcome'[u] = outcome[u]
         \/ /\ OpOf[u] \in {"start", "evaluate"} /\ OpOf'[u] = "none" /\ ~DoneOf'[u]
            /\ IF DoneOf[u] THEN session' = session ELSE session' # NoSession
            /\ outcome'[u] # "error"
         \/ /\ OpOf[u] = "stop" /\ OpOf'[u] = "none" /\ ~DoneOf'[u]
            /\ session' = NoSession /\ outcome'[u] # "error"
         \/ /\ OpOf[u] \in {"start", "evaluate"} /\ OpOf'[u] = "none" /\ ~DoneOf'[u]
            /\ DoneOf[u] \/ StartMayFail
            /\ session' = session /\ outcome'[u] = "error"
         \/ /\ OpOf'[u] = OpOf[u] /\ DoneOf'[u] = DoneOf[u] /\ session' = session
            /\ outcome'[u] = outcome[u]
  PROVE  [Shared!Next]_(Shared!vars)
  <1>1. \A v \in User \ {u} : OpOf'[v] = OpOf[v] /\ DoneOf'[v] = DoneOf[v]
    BY CallerIsProc DEF OpOf, DoneOf, Apart
  <1>2. OpOf' = [OpOf EXCEPT ![u] = OpOf'[u]]
    BY <1>1 DEF OpOf
  <1>3. DoneOf' = [DoneOf EXCEPT ![u] = DoneOf'[u]]
    BY <1>1 DEF DoneOf
  <1>4. DoneOf[u] \in BOOLEAN /\ DoneOf'[u] \in BOOLEAN
    BY DEF DoneOf
  <1>5. OpOf[u] = "none" => ~DoneOf[u]
    BY DEF OpOf, DoneOf
  <1>11. /\ RaisedOf' = IF outcome'[u] = "error" THEN RaisedOf \cup {u} ELSE RaisedOf \ {u}
         /\ outcome'[u] = outcome[u] => RaisedOf' = RaisedOf
    BY DEF RaisedOf, Apart
  <1>6. CASE /\ OpOf[u] = "none" /\ OpOf'[u] \in {"start", "evaluate", "stop"} /\ ~DoneOf'[u]
             /\ session' = session /\ outcome'[u] = "none"
    <2>1. DoneOf' = DoneOf
      BY <1>1, <1>3, <1>4, <1>5, <1>6 DEF DoneOf
    <2>2. Opened' = Opened /\ RaisedOf' = RaisedOf \ {u}
      BY <1>6, <1>11 DEF Opened
    <2>3. Shared!Begin(u)
      BY <1>2, <1>6, <2>1, <2>2 DEF Shared!Begin, Shared!Operation, Shared!Opening
    <2> QED
      BY <2>3 DEF Shared!Next
  <1>7. CASE /\ OpOf[u] \in {"start", "evaluate"} /\ ~DoneOf[u]
             /\ OpOf'[u] = OpOf[u] /\ DoneOf'[u] /\ session' # NoSession
             /\ outcome'[u] = outcome[u]
    <2>1. Opened' = TRUE /\ RaisedOf' = RaisedOf
      BY <1>7, <1>11 DEF Opened
    <2>2. DoneOf' = [DoneOf EXCEPT ![u] = TRUE]
      BY <1>3, <1>4, <1>7
    <2>3. OpOf' = OpOf
      BY <1>1, <1>7 DEF OpOf
    <2>4. Shared!TakesEffect(u)
      BY <1>7, <2>1, <2>2, <2>3 DEF Shared!TakesEffect, Shared!Opening
    <2> QED
      BY <2>4 DEF Shared!Next
  <1>8. CASE /\ OpOf[u] = "evaluate" /\ OpOf'[u] = "evaluate" /\ ~DoneOf'[u]
             /\ session' \in {session, NoSession} /\ outcome'[u] = outcome[u]
    <2>1. Opened' \in {Opened, FALSE} /\ RaisedOf' = RaisedOf
      BY <1>8, <1>11 DEF Opened
    <2>2. DoneOf' = [DoneOf EXCEPT ![u] = FALSE]
      BY <1>3, <1>4, <1>8
    <2>3. OpOf' = OpOf
      BY <1>1, <1>8 DEF OpOf
    <2>4. Shared!StartsOver(u)
      BY <1>8, <2>1, <2>2, <2>3 DEF Shared!StartsOver
    <2> QED
      BY <2>4 DEF Shared!Next
  <1>9. CASE /\ OpOf'[u] = "none" /\ ~DoneOf'[u] /\ outcome'[u] # "error"
             /\ \/ /\ OpOf[u] \in {"start", "evaluate"}
                   /\ IF DoneOf[u] THEN session' = session ELSE session' # NoSession
                \/ OpOf[u] = "stop" /\ session' = NoSession
    <2>1. \/ OpOf[u] \in Shared!Opening /\ ~DoneOf[u] /\ Opened' = TRUE
          \/ OpOf[u] \in Shared!Opening /\ DoneOf[u] /\ Opened' = Opened
          \/ OpOf[u] = "stop" /\ Opened' = FALSE
      BY <1>9 DEF Shared!Opening, Opened
    <2>2. DoneOf' = [DoneOf EXCEPT ![u] = FALSE]
      BY <1>3, <1>4, <1>9
    <2>3. OpOf' = [OpOf EXCEPT ![u] = "none"] /\ RaisedOf' = RaisedOf \ {u}
      BY <1>2, <1>9, <1>11
    <2>4. Shared!Returns(u)
      BY <2>1, <2>2, <2>3 DEF Shared!Returns, Shared!Ends
    <2> QED
      BY <2>4 DEF Shared!Next
  <1>12. CASE /\ OpOf[u] \in {"start", "evaluate"} /\ OpOf'[u] = "none" /\ ~DoneOf'[u]
              /\ DoneOf[u] \/ StartMayFail
              /\ session' = session /\ outcome'[u] = "error"
    <2>1. Opened' = Opened /\ RaisedOf' = RaisedOf \cup {u}
      BY <1>11, <1>12 DEF Opened
    <2>2. DoneOf' = [DoneOf EXCEPT ![u] = FALSE]
      BY <1>3, <1>4, <1>12
    <2>3. OpOf' = [OpOf EXCEPT ![u] = "none"]
      BY <1>2, <1>12
    <2>4. Shared!Raises(u)
      BY <1>12, <2>1, <2>2, <2>3 DEF Shared!Raises, Shared!Ends, Shared!Opening
    <2> QED
      BY <2>4 DEF Shared!Next
  <1>10. CASE /\ OpOf'[u] = OpOf[u] /\ DoneOf'[u] = DoneOf[u] /\ session' = session
              /\ outcome'[u] = outcome[u]
    <2>1. OpOf' = OpOf /\ DoneOf' = DoneOf
      BY <1>1, <1>10 DEF OpOf, DoneOf
    <2>2. Opened' = Opened /\ RaisedOf' = RaisedOf
      BY <1>10, <1>11 DEF Opened
    <2> QED
      BY <2>1, <2>2 DEF Shared!vars
  <1> QED
    BY <1>6, <1>7, <1>8, <1>9, <1>10, <1>12

(* The steps, by what they do to the process and to the session.           *)
LEMMA SharedSeen ==
  ASSUME ~HasHealth, TypeOK, SwapInv, CleanInv, UseInv, NEW p \in Proc, SharedStep(p)
  PROVE  UseInv' /\ [Shared!Next]_(Shared!vars)
  <1>1. pc[p] \notin {"none", "out"}
    BY DEF SharedStep, StartLocked, StartedAlready, StartSucceeds, ConstructorFails, StartFails,
           ThreadLimit, NoHealthThread, SignalHealth, JoinRaises, Joined, StopLocked,
           StoppedAlready, ClearSession, Goto
  <1>2. p \in User /\ p \notin Health /\ healthRef = NoProc /\ healthRef \notin Health \cup {p, Unstarted}
    BY <1>1, CallerIsProc, SessionAssumption DEF UseInv, Proc
  <1>3. \/ p \in Caller /\ p \notin Owner /\ why[p] \in CallWhy
        \/ p \in Owner /\ p \notin Caller /\ why[p] = "enter" /\ pc[p] \in {"lockStart", "starting"}
           /\ outcome[p] = "none"
        \/ p \in Owner /\ p \notin Caller /\ why[p] = "exit" /\ pc[p] \in {"stopHealth", "lockStop", "clear"}
           /\ outcome[p] = "none"
    BY <1>1, <1>2, SessionAssumption DEF CleanInv, UnderWay, UseInv, Owning
  <1>4. OpOf[p] = Kind(why[p])
    BY <1>1, <1>2 DEF OpOf
  <1>5. OpOf'[p] = IF pc'[p] = "out" THEN "none" ELSE Kind(why'[p])
    BY <1>2 DEF OpOf
  <1>6. DoneOf[p] = Settled(pc[p], why[p]) /\ DoneOf'[p] = Settled(pc'[p], why'[p])
    BY <1>2 DEF DoneOf
  <1>7. CASE StartLocked(p)
    <2>1. /\ pc[p] = "lockStart" /\ pc'[p] = "starting" /\ why' = why /\ Apart(p)
          /\ session' \in Session /\ healthRef' = healthRef /\ outcome' = outcome
      BY <1>7 DEF StartLocked, Goto, TypeOK, Fresh, Apart, healthVars, callVars
    <2>2. session' # NoSession /\ why'[p] # "exit"
      BY <1>3, <2>1, SessionAssumption
    <2>3. UseInv'
      BY <1>2, <1>3, <2>1, OthersUse DEF Owning, Failing
    <2>4. OpOf[p] \in {"start", "evaluate"} /\ ~DoneOf[p] /\ OpOf'[p] = OpOf[p] /\ DoneOf'[p]
      BY <1>4, <1>5, <1>6, <2>1, <2>2
    <2> QED
      BY <1>2, <2>1, <2>2, <2>3, <2>4, SeenAsStep
  <1>8. CASE StartedAlready(p)
    <2>1. /\ pc[p] = "lockStart" /\ pc'[p] = AfterStart(p) /\ Apart(p)
          /\ session # NoSession /\ session' = session /\ healthRef' = healthRef
          /\ why'[p] = IF p \in Caller THEN why[p] ELSE "none"
          /\ outcome' = outcome
      BY <1>8 DEF StartedAlready, Continue, TypeOK, Apart, sessionVars, healthVars, callVars
    <2>2. CASE p \in Caller
      <3>1. /\ \/ AfterStart(p) \in {"temp", "begin"}
               \/ AfterStart(p) = "raise" /\ why[p] \in {"timeout", "late"}
            /\ why[p] # "exit"
        BY <1>3, <2>2 DEF AfterStart
      <3>2. OpOf[p] = "evaluate" /\ ~DoneOf[p] /\ OpOf'[p] = OpOf[p] /\ DoneOf'[p]
        BY <1>3, <1>4, <1>5, <1>6, <2>1, <2>2, <3>1
      <3>3. Failing(p)'
        BY <2>1, <2>2, <3>1 DEF Failing
      <3> QED
        BY <1>2, <1>3, <2>1, <2>2, <3>2, <3>3, SeenAsStep, OthersUse
    <2>3. CASE p \in Owner
      <3>1. why[p] = "enter" /\ pc'[p] = "out" /\ p \notin Caller /\ outcome'[p] = "none"
        BY <1>3, <2>1, <2>3 DEF AfterStart
      <3>2. OpOf[p] = "start" /\ ~DoneOf[p] /\ OpOf'[p] = "none" /\ ~DoneOf'[p]
        BY <1>4, <1>5, <1>6, <2>1, <3>1
      <3>3. Owning(p)'
        BY <3>1 DEF Owning
      <3> QED
        BY <1>2, <2>1, <3>1, <3>2, <3>3, SeenAsStep, OthersUse
    <2> QED
      BY <1>3, <2>2, <2>3
  <1>9. CASE StartSucceeds(p)
    <2>1. /\ pc[p] = "starting" /\ pc'[p] = AfterStart(p) /\ Apart(p)
          /\ session' = session /\ healthRef' = healthRef
          /\ why'[p] = IF p \in Caller THEN why[p] ELSE "none"
          /\ outcome' = outcome
      BY <1>9 DEF StartSucceeds, Continue, TypeOK, Apart, callVars
    <2>2. CASE p \in Caller
      <3>1. /\ \/ AfterStart(p) \in {"temp", "begin"}
               \/ AfterStart(p) = "raise" /\ why[p] \in {"timeout", "late"}
            /\ why[p] # "exit"
        BY <1>3, <2>2 DEF AfterStart
      <3>2. OpOf'[p] = OpOf[p] /\ DoneOf'[p] = DoneOf[p]
        BY <1>3, <1>4, <1>5, <1>6, <2>1, <2>2, <3>1
      <3>3. Failing(p)'
        BY <2>1, <2>2, <3>1 DEF Failing
      <3> QED
        BY <1>2, <1>3, <2>1, <2>2, <3>2, <3>3, SeenAsStep, OthersUse
    <2>3. CASE p \in Owner
      <3>1. why[p] = "enter" /\ pc'[p] = "out" /\ p \notin Caller /\ outcome'[p] = "none"
        BY <1>3, <2>1, <2>3 DEF AfterStart
      <3>2. OpOf[p] = "start" /\ DoneOf[p] /\ OpOf'[p] = "none" /\ ~DoneOf'[p]
        BY <1>4, <1>5, <1>6, <2>1, <3>1
      <3>3. Owning(p)'
        BY <3>1 DEF Owning
      <3> QED
        BY <1>2, <2>1, <3>1, <3>2, <3>3, SeenAsStep, OthersUse
    <2> QED
      BY <1>3, <2>2, <2>3
  <1>10. CASE ConstructorFails(p) \/ StartFails(p)
    <2>1. /\ pc[p] \in {"lockStart", "starting"} /\ session' = session /\ healthRef' = healthRef
          /\ StartMayFail /\ why[p] # "exit"
      BY <1>3, <1>10 DEF ConstructorFails, StartFails, sessionVars, healthVars
    <2>2. PICK k : Raises(p, k)
      BY <1>10 DEF ConstructorFails, StartFails
    <2>3. CASE Leave(p, "error")
      <3>1. pc'[p] = "out" /\ Apart(p) /\ outcome'[p] = "error"
        BY <1>2, <2>3 DEF Leave, TypeOK, Apart
      <3>2. OpOf[p] \in {"start", "evaluate"} /\ OpOf'[p] = "none" /\ ~DoneOf'[p]
        BY <1>4, <1>5, <1>6, <2>1, <3>1
      <3>3. (p \in Owner => Owning(p)') /\ (p \in Caller => Failing(p)')
        BY <3>1 DEF Owning, Failing
      <3>4. UseInv'
        BY <1>2, <2>1, <3>1, <3>3, OthersUse
      <3> QED
        BY <1>2, <2>1, <3>1, <3>2, <3>4, SeenAsStep
    <2>4. CASE ~Leave(p, "error")
      <3>1. why[p] \in {"timeout", "late"}
        BY <1>3, <2>2, <2>4 DEF Raises
      <3>2. /\ pc'[p] = "raise" /\ why'[p] \in {"retry", "failed"} /\ Apart(p)
            /\ outcome' = outcome
        BY <1>2, <2>2, <2>4, <3>1 DEF Raises, TypeOK, Apart, callVars
      <3>3. p \notin Owner /\ OpOf[p] = "evaluate" /\ OpOf'[p] = "evaluate" /\ ~DoneOf'[p]
        BY <1>3, <1>4, <1>5, <1>6, <3>1, <3>2
      <3>4. UseInv'
        BY <1>2, <2>1, <3>2, <3>3, OthersUse DEF Failing
      <3> QED
        BY <1>2, <2>1, <3>2, <3>3, <3>4, SeenAsStep
    <2> QED
      BY <2>3, <2>4
  <1>11. CASE ThreadLimit(p) \/ SignalHealth(p) \/ JoinRaises(p)
    BY <1>2, <1>11 DEF ThreadLimit, SignalHealth, JoinRaises
  <1>12. CASE NoHealthThread(p) \/ Joined(p) \/ StopLocked(p)
    <2>1. /\ pc[p] \in {"stopHealth", "join", "lockStop"} /\ pc'[p] \in {"lockStop", "clear"}
          /\ Apart(p) /\ why' = why /\ session' = session /\ healthRef' = healthRef
          /\ outcome' = outcome
      BY <1>2, <1>12 DEF NoHealthThread, Joined, StopLocked, Goto, TypeOK, Apart, sessionVars,
                         healthVars, callVars
    <2>2. OpOf'[p] = OpOf[p] /\ DoneOf'[p] = DoneOf[p]
      BY <1>4, <1>5, <1>6, <2>1
    <2>3. (p \in Owner => Owning(p)') /\ (p \in Caller => Failing(p)')
      BY <1>3, <2>1 DEF Owning, Failing
    <2> QED
      BY <1>2, <2>1, <2>2, <2>3, SeenAsStep, OthersUse
  <1>13. CASE StoppedAlready(p) \/ ClearSession(p)
    <2>1. /\ pc[p] \in {"lockStop", "clear"} /\ pc'[p] = AfterStop(p) /\ Apart(p)
          /\ why'[p] = IF why[p] \in {"exit", "idle"} THEN "none" ELSE why[p]
          /\ session' = NoSession /\ healthRef' = healthRef /\ outcome' = outcome
      BY <1>13 DEF StoppedAlready, ClearSession, Proceed, TypeOK, Apart, sessionVars, healthVars,
                   callVars
    <2>2. CASE p \in Caller
      <3>1. pc'[p] = "lockStart" /\ why'[p] = why[p] /\ why[p] # "exit"
        BY <1>3, <2>1, <2>2 DEF AfterStop
      <3>2. OpOf[p] = "evaluate" /\ OpOf'[p] = "evaluate" /\ ~DoneOf'[p] /\ Failing(p)'
        BY <1>3, <1>4, <1>5, <1>6, <2>1, <2>2, <3>1 DEF Failing
      <3> QED
        BY <1>2, <1>3, <2>1, <2>2, <3>2, SeenAsStep, OthersUse
    <2>3. CASE p \in Owner
      <3>1. why[p] = "exit" /\ pc'[p] = "out" /\ p \notin Caller /\ outcome'[p] = "none"
        BY <1>3, <2>1, <2>3 DEF AfterStop
      <3>2. OpOf[p] = "stop" /\ OpOf'[p] = "none" /\ ~DoneOf'[p]
        BY <1>4, <1>5, <1>6, <3>1
      <3>3. Owning(p)'
        BY <3>1 DEF Owning
      <3> QED
        BY <1>2, <2>1, <3>1, <3>2, <3>3, SeenAsStep, OthersUse
    <2> QED
      BY <1>3, <2>2, <2>3
  <1> QED
    BY <1>7, <1>8, <1>9, <1>10, <1>11, <1>12, <1>13 DEF SharedStep

LEMMA CallSeen ==
  ASSUME TypeOK, CleanInv, UseInv, NEW c \in Caller, Call(c) \/ EvalStep(c)
  PROVE  UseInv' /\ [Shared!Next]_(Shared!vars)
  <1>1. /\ c \in Proc /\ c \in User /\ c \notin Owner /\ c \notin Health
        /\ pc[c] # "out" => why[c] \in CallWhy
    BY CallerIsProc, SessionAssumption DEF CleanInv, UnderWay
  <1>2. session' = session /\ healthRef' = healthRef
    BY DEF Call, EvalStep, EnsureStarted, MakeTemp, Begin, EvalReturns, EvalRaises, EvalTimesOut,
           RaiseTimeout, RaiseFailure, RetryAfterFailure, LeaveExecutor, sessionVars, healthVars
  <1>3. OpOf[c] = IF pc[c] = "out" THEN "none" ELSE Kind(why[c])
    BY <1>1 DEF OpOf
  <1>4. OpOf'[c] = IF pc'[c] = "out" THEN "none" ELSE Kind(why'[c])
    BY <1>1 DEF OpOf
  <1>5. DoneOf[c] = Settled(pc[c], why[c]) /\ DoneOf'[c] = Settled(pc'[c], why'[c])
    BY <1>1 DEF DoneOf
  <1>6. ASSUME Apart(c), pc'[c] # "raise" PROVE UseInv'
    BY <1>1, <1>2, <1>6, OthersUse DEF Failing
  <1>7. CASE Call(c)
    <2>1. /\ pc[c] = "out" /\ pc'[c] = "ensure" /\ why'[c] \in {"image", "first"} /\ Apart(c)
          /\ outcome'[c] = "none"
      BY <1>1, <1>7 DEF Call, TypeOK, Apart
    <2>2. OpOf[c] = "none" /\ OpOf'[c] = "evaluate" /\ ~DoneOf'[c]
      BY <1>3, <1>4, <1>5, <2>1
    <2> QED
      BY <1>1, <1>2, <1>6, <2>1, <2>2, SeenAsStep
  <1>8. CASE EnsureStarted(c)
    <2>1. /\ pc[c] = "ensure" /\ why' = why /\ Apart(c) /\ why[c] \in CallWhy
          /\ pc'[c] = IF session = NoSession THEN "lockStart" ELSE AfterStart(c)
          /\ outcome' = outcome
      BY <1>1, <1>8 DEF EnsureStarted, TypeOK, Apart, callVars
    <2>2. /\ \/ AfterStart(c) \in {"temp", "begin"}
             \/ AfterStart(c) = "raise" /\ why[c] \in {"timeout", "late"}
          /\ why[c] # "exit"
      BY <2>1 DEF AfterStart
    <2>3. UseInv'
      BY <1>1, <1>2, <2>1, <2>2, OthersUse DEF Failing
    <2>4. CASE session = NoSession
      <3>1. OpOf'[c] = OpOf[c] /\ DoneOf'[c] = DoneOf[c]
        BY <1>3, <1>4, <1>5, <2>1, <2>4
      <3> QED
        BY <1>1, <1>2, <2>1, <2>3, <3>1, SeenAsStep
    <2>5. CASE session # NoSession
      <3>1. OpOf[c] = "evaluate" /\ ~DoneOf[c] /\ OpOf'[c] = OpOf[c] /\ DoneOf'[c]
        BY <1>3, <1>4, <1>5, <2>1, <2>2, <2>5
      <3> QED
        BY <1>1, <1>2, <2>1, <2>3, <2>5, <3>1, SeenAsStep
    <2> QED
      BY <2>4, <2>5
  <1>9. CASE MakeTemp(c)
    <2>1. /\ pc[c] = "temp" /\ pc'[c] = "ensure" /\ why'[c] = "first" /\ Apart(c)
          /\ why[c] \in CallWhy /\ outcome' = outcome
      BY <1>1, <1>9 DEF MakeTemp, Goto, TypeOK, Apart
    <2>2. OpOf[c] = "evaluate" /\ OpOf'[c] = "evaluate" /\ ~DoneOf'[c]
      BY <1>3, <1>4, <1>5, <2>1
    <2> QED
      BY <1>1, <1>2, <1>6, <2>1, <2>2, SeenAsStep
  (* The steps from the evaluation on: the session is as it was, and what  *)
  (* leaves with an error has been settled or could not be started.        *)
  <1>10. ASSUME pc[c] \in {"begin", "eval", "raise"}, NEW r, Leave(c, r),
                r # "error" => DoneOf[c], r = "error" => DoneOf[c] \/ StartMayFail
         PROVE  UseInv' /\ [Shared!Next]_(Shared!vars)
    <2>1. Apart(c) /\ pc'[c] = "out" /\ outcome'[c] = r
      BY <1>1, <1>10 DEF Leave, TypeOK, Apart
    <2>2. OpOf[c] = "evaluate" /\ OpOf'[c] = "none" /\ ~DoneOf'[c]
      BY <1>1, <1>3, <1>4, <1>5, <1>10, <2>1
    <2> QED
      BY <1>1, <1>2, <1>6, <1>10, <2>1, <2>2, SeenAsStep
  <1>11. ASSUME pc[c] \in {"begin", "eval", "raise"}, Apart(c), pc'[c] \in {"eval", "stopHealth"},
                why'[c] \in CallWhy, outcome' = outcome, pc'[c] = "eval" => DoneOf[c]
         PROVE  UseInv' /\ [Shared!Next]_(Shared!vars)
    <2>1. OpOf[c] = "evaluate" /\ OpOf'[c] = "evaluate" /\ (DoneOf'[c] => DoneOf[c])
      BY <1>1, <1>3, <1>4, <1>5, <1>11
    <2>2. UseInv'
      BY <1>6, <1>11
    <2>3. DoneOf[c] \in BOOLEAN /\ DoneOf'[c] \in BOOLEAN
      BY <1>5
    <2>4. CASE DoneOf'[c]
      BY <1>1, <1>2, <1>11, <2>1, <2>2, <2>3, <2>4, SeenAsStep
    <2>5. CASE ~DoneOf'[c]
      BY <1>1, <1>2, <1>11, <2>1, <2>2, <2>5, SeenAsStep
    <2> QED
      BY <2>4, <2>5
  <1>13. ASSUME pc[c] \in {"begin", "eval"} \/ (pc[c] = "raise" /\ why[c] = "retry"), KernelException(c)
         PROVE  UseInv' /\ [Shared!Next]_(Shared!vars)
    <2>1. CASE why[c] = "crash"
      <3>1. Leave(c, "error") /\ DoneOf[c]
        BY <1>5, <1>13, <2>1 DEF KernelException
      <3> QED
        BY <1>10, <1>13, <3>1
    <2>2. CASE why[c] # "crash"
      <3>1. Apart(c) /\ pc'[c] = "stopHealth" /\ why'[c] = "crash" /\ outcome' = outcome
        BY <1>1, <1>13, <2>2 DEF KernelException, TypeOK, Apart, callVars
      <3> QED
        BY <1>11, <1>13, <3>1
    <2> QED
      BY <2>1, <2>2
  <1>14. CASE Begin(c)
    <2>1. CASE session = NoSession
      BY <1>13, <1>14, <2>1 DEF Begin
    <2>2. CASE session # NoSession
      <3>1. /\ pc[c] = "begin" /\ pc'[c] = "eval" /\ why'[c] = why[c] /\ Apart(c)
            /\ outcome' = outcome
        BY <1>1, <1>14, <2>2 DEF Begin, TypeOK, Apart, callVars
      <3>2. DoneOf[c] /\ why'[c] \in CallWhy
        BY <1>1, <1>5, <3>1
      <3> QED
        BY <1>11, <3>1, <3>2
    <2> QED
      BY <2>1, <2>2
  <1>15. CASE EvalReturns(c) \/ RaiseTimeout(c)
    <2>1. /\ \/ pc[c] = "eval"
             \/ pc[c] = "raise" /\ why[c] \in {"timeout", "late"}
          /\ Leave(c, "ok") \/ Leave(c, "timeout")
      BY <1>15 DEF EvalReturns, RaiseTimeout, LeaveExecutor
    <2>2. DoneOf[c]
      BY <1>1, <1>5, <2>1
    <2> QED
      BY <1>10, <2>1, <2>2
  <1>16. CASE RaiseFailure(c)
    <2>1. pc[c] = "raise" /\ why[c] = "failed" /\ Leave(c, "error")
      BY <1>16 DEF RaiseFailure, LeaveExecutor
    <2>2. StartMayFail
      BY <2>1 DEF UseInv, Failing
    <2> QED
      BY <1>10, <2>1, <2>2
  <1>17. CASE EvalRaises(c) \/ RetryAfterFailure(c)
    BY <1>13, <1>17 DEF EvalRaises, RetryAfterFailure, LeaveExecutor
  <1>18. CASE EvalTimesOut(c)
    <2>1. /\ pc[c] = "eval" /\ pc'[c] = "stopHealth" /\ why'[c] \in {"timeout", "late"} /\ Apart(c)
          /\ outcome' = outcome
      BY <1>1, <1>18 DEF EvalTimesOut, Goto, TypeOK, Apart, callVars
    <2> QED
      BY <1>11, <2>1
  <1> QED
    BY <1>7, <1>8, <1>9, <1>14, <1>15, <1>16, <1>17, <1>18 DEF EvalStep

LEMMA NextSeen ==
  ASSUME ~HasHealth, TypeOK, SwapInv, CleanInv, UseInv, [Next]_vars
  PROVE  UseInv' /\ [Shared!Next]_(Shared!vars)
  <1>1. ASSUME NEW p \in Proc, SharedStep(p) PROVE UseInv' /\ [Shared!Next]_(Shared!vars)
    BY <1>1, SharedSeen
  <1>2. ASSUME NEW c \in Caller, Call(c) \/ EvalStep(c)
        PROVE  UseInv' /\ [Shared!Next]_(Shared!vars)
    BY <1>2, CallSeen
  <1>3. ASSUME NEW o \in Owner, Enter(o) \/ Exit(o)
        PROVE  UseInv' /\ [Shared!Next]_(Shared!vars)
    <2>1. /\ o \in Proc /\ o \in User
      BY CallerIsProc
    <2>2. /\ pc[o] = "out" /\ Apart(o) /\ outcome'[o] = "none" /\ session' = session /\ healthRef' = healthRef
          /\ \/ pc'[o] = "lockStart" /\ why'[o] = "enter"
             \/ pc'[o] = "stopHealth" /\ why'[o] = "exit"
      BY <1>3, <2>1 DEF Enter, Exit, Goto, TypeOK, Apart, sessionVars, healthVars
    <2>3. OpOf[o] = "none" /\ OpOf'[o] \in {"start", "stop"} /\ ~DoneOf'[o]
      BY <2>1, <2>2 DEF OpOf, DoneOf
    <2>4. Owning(o)'
      BY <2>2 DEF Owning
    <2>5. o \notin Caller
      BY SessionAssumption
    <2> QED
      BY <2>1, <2>2, <2>3, <2>4, <2>5, SeenAsStep, OthersUse
  <1>4. ASSUME NEW h \in Health PROVE ~HealthStep(h)
    BY DEF UseInv, HealthStep, HealthExit, HealthIdle, HealthPings, PingBegins, PingReturns,
           PingOdd, PingFails, Wakes, Goto
  <1>5. CASE KernelFault \/ Tick \/ UNCHANGED vars
    <2>1. /\ pc' = pc /\ why' = why /\ session' = session /\ healthRef' = healthRef
          /\ outcome' = outcome
      BY <1>5 DEF KernelFault, Tick, vars, sessionVars, healthVars, procVars, callVars
    <2>2. UNCHANGED Shared!vars
      BY <2>1 DEF Shared!vars, OpOf, DoneOf, RaisedOf, Opened
    <2> QED
      BY <2>1, <2>2 DEF UseInv, Owning, Failing
  <1> QED
    BY <1>1, <1>2, <1>3, <1>4, <1>5 DEF Next

LEMMA InitSeen == Init => TypeOK /\ SwapInv /\ SingleKernel /\ CleanInv /\ UseInv /\ Shared!Init
  <1> SUFFICES ASSUME Init PROVE TypeOK /\ SwapInv /\ SingleKernel /\ CleanInv /\ UseInv /\ Shared!Init
    OBVIOUS
  <1>1. CleanInv
    BY CallerIsProc, SessionAssumption DEF Init, CleanInv, HoldInv, UnderWay
  <1>2. SwapInv /\ SingleKernel
    BY DEF Init, SwapInv, SingleKernel, Live
  <1>3. UseInv /\ \A u \in User : pc[u] = "out"
    BY CallerIsProc, SessionAssumption DEF Init, UseInv, Owning, Failing
  <1>4. /\ Opened = FALSE /\ OpOf = [u \in User |-> "none"] /\ DoneOf = [u \in User |-> FALSE]
        /\ RaisedOf = {}
    BY <1>3 DEF Init, Opened, OpOf, DoneOf, RaisedOf
  <1> QED
    BY <1>1, <1>2, <1>3, <1>4, InitType DEF Shared!Init

(* A session without a health thread, as each in the pool is, can be taken *)
(* for one that is open or not, by any number of threads that start it,    *)
(* evaluate on it and stop it at the same time: whatever they restart in   *)
(* between, an evaluation or a start() that returns, or ends by its hard   *)
(* timeout, has found it or made it open, the stop() of the owner has      *)
(* closed it, and who comes last decides; one that raises may leave it     *)
(* closed only where starting a kernel may fail (kernel.py:107-142,        *)
(* 214-264, 327-337): the constructor may raise before _session is set.    *)
THEOREM OpenOrClosed == ASSUME ~HasHealth PROVE Spec => Shared!Spec
  <1>1. Init => TypeOK /\ SwapInv /\ SingleKernel /\ CleanInv /\ UseInv /\ Shared!Init
    BY InitSeen
  <1>2. TypeOK /\ SwapInv /\ SingleKernel /\ CleanInv /\ UseInv /\ [Next]_vars
          => /\ TypeOK' /\ SwapInv' /\ SingleKernel' /\ CleanInv' /\ UseInv'
             /\ [Shared!Next]_(Shared!vars)
    BY NextType, NextSingle, NextClean, NextSeen
  <1> QED
    BY <1>1, <1>2, PTL DEF Spec, Shared!Spec

(* One user at a time, as the pool has it until stop() (SessionsInTurn).   *)
OneAtATime ==
  \A u \in User : pc[u] = "out" /\ pc'[u] # "out" => \A v \in User \ {u} : pc[v] = "out"

SpecInTurn == Init /\ [][Next /\ OneAtATime]_vars

(* When an operation ends there is no session if it was stop(), and there  *)
(* is one if it was not, unless starting a kernel may fail and it raised.  *)
EndsAsMeant ==
  \A u \in User : pc[u] # "out" /\ pc'[u] = "out" =>
    /\ why[u] = "exit" => session' = NoSession
    /\ session' = NoSession => why[u] = "exit" \/ (StartMayFail /\ outcome'[u] = "error")

InTurnInv ==
  /\ \A u, v \in User : pc[u] # "out" /\ pc[v] # "out" => u = v
  /\ \A u \in User : DoneOf[u] => session # NoSession

LEMMA NextInTurn ==
  ASSUME InTurnInv, [Shared!Next]_(Shared!vars), [Next /\ OneAtATime]_vars
  PROVE  InTurnInv' /\ EndsAsMeant
  <1>0. \A u \in User : /\ OpOf[u] = "none" <=> pc[u] = "out"
                        /\ OpOf'[u] = "none" <=> pc'[u] = "out"
                        /\ OpOf[u] = "stop" <=> pc[u] # "out" /\ why[u] = "exit"
                        /\ OpOf[u] \in {"start", "evaluate"} <=> pc[u] # "out" /\ why[u] # "exit"
    BY DEF OpOf
  <1>1. CASE UNCHANGED Shared!vars
    <2>1. OpOf' = OpOf /\ DoneOf' = DoneOf /\ (session' = NoSession <=> session = NoSession)
      BY <1>1 DEF Shared!vars, Opened
    <2> QED
      BY <1>0, <2>1 DEF InTurnInv, EndsAsMeant
  <1>2. ASSUME NEW u \in User,
               \/ Shared!Begin(u) \/ Shared!TakesEffect(u) \/ Shared!StartsOver(u)
               \/ Shared!Returns(u) \/ Shared!Raises(u)
        PROVE  InTurnInv' /\ EndsAsMeant
    <2>1. \A v \in User \ {u} : OpOf'[v] = OpOf[v] /\ DoneOf'[v] = DoneOf[v]
      BY <1>2 DEF Shared!Begin, Shared!TakesEffect, Shared!StartsOver, Shared!Returns,
                  Shared!Raises, Shared!Ends, OpOf, DoneOf
    <2>2. CASE Shared!Begin(u)
      <3>1. pc[u] = "out" /\ pc'[u] # "out" /\ DoneOf' = DoneOf
            /\ (session' = NoSession <=> session = NoSession)
        BY <1>0, <2>2 DEF Shared!Begin, Shared!Operation, Shared!Opening, OpOf, Opened
      <3>2. OneAtATime
        BY <3>1 DEF vars, procVars
      <3>3. \A v \in User \ {u} : pc[v] = "out" /\ pc'[v] = "out"
        BY <1>0, <2>1, <3>1, <3>2 DEF OneAtATime
      <3> QED
        BY <3>1, <3>3 DEF InTurnInv, EndsAsMeant
    <2>3. CASE \/ Shared!TakesEffect(u) \/ Shared!StartsOver(u)
               \/ Shared!Returns(u) \/ Shared!Raises(u)
      <3>1. pc[u] # "out"
        BY <1>0, <2>3 DEF Shared!TakesEffect, Shared!StartsOver, Shared!Returns, Shared!Raises,
                          Shared!Opening
      <3>2. \A v \in User \ {u} : pc[v] = "out" /\ pc'[v] = "out" /\ ~DoneOf'[v]
        BY <1>0, <2>1, <3>1 DEF InTurnInv, DoneOf
      <3>3. DoneOf'[u] => session' # NoSession
        <4>1. CASE Shared!TakesEffect(u)
          BY <4>1 DEF Shared!TakesEffect, Opened
        <4>2. CASE Shared!StartsOver(u) \/ Shared!Returns(u) \/ Shared!Raises(u)
          BY <4>2 DEF Shared!StartsOver, Shared!Returns, Shared!Raises, Shared!Ends, DoneOf
        <4> QED
          BY <2>3, <4>1, <4>2
      <3>4. pc'[u] = "out" =>
              /\ why[u] = "exit" => session' = NoSession
              /\ session' = NoSession => why[u] = "exit" \/ (StartMayFail /\ outcome'[u] = "error")
        <4>1. CASE Shared!Returns(u)
          <5>1. \/ OpOf[u] \in {"start", "evaluate"} /\ (Opened' = TRUE \/ (DoneOf[u] /\ Opened' = Opened))
                \/ OpOf[u] = "stop" /\ Opened' = FALSE
            BY <4>1 DEF Shared!Returns, Shared!Opening
          <5>2. Opened' <=> OpOf[u] # "stop"
            BY <5>1 DEF InTurnInv, Opened
          <5> QED
            BY <1>0, <3>1, <5>2 DEF Opened
        <4>2. CASE Shared!Raises(u)
          <5>1. /\ OpOf[u] \in {"start", "evaluate"} /\ (DoneOf[u] \/ StartMayFail)
                /\ Opened' = Opened /\ RaisedOf' = RaisedOf \cup {u}
            BY <4>2 DEF Shared!Raises, Shared!Opening
          <5>2. why[u] # "exit" /\ outcome'[u] = "error"
            BY <1>0, <5>1 DEF RaisedOf
          <5> QED
            BY <5>1, <5>2 DEF InTurnInv, Opened
        <4>3. CASE Shared!TakesEffect(u) \/ Shared!StartsOver(u)
          <5>1. OpOf' = OpOf
            BY <4>3 DEF Shared!TakesEffect, Shared!StartsOver
          <5> QED
            BY <1>0, <3>1, <5>1
        <4> QED
          BY <2>3, <4>1, <4>2, <4>3
      <3> QED
        BY <3>1, <3>2, <3>3, <3>4 DEF InTurnInv, EndsAsMeant
    <2> QED
      BY <1>2, <2>2, <2>3
  <1> QED
    BY <1>1, <1>2 DEF Shared!Next

(* So the pool, where calls, reaper and recycling use a session in turn,   *)
(* finds it open after a start, an evaluation or a cleanup that returned,  *)
(* closed after a stop, and after one that raised still open unless a      *)
(* kernel could not be started (pool.py:103-111, 159, 181-184).            *)
THEOREM InTurn == ASSUME ~HasHealth PROVE SpecInTurn => [][EndsAsMeant]_vars
  <1>1. SpecInTurn => Spec
    BY PTL DEF SpecInTurn, Spec
  <1>2. SpecInTurn => Shared!Spec
    BY <1>1, OpenOrClosed
  <1>3. Init => InTurnInv
    BY CallerIsProc, SessionAssumption DEF Init, InTurnInv, DoneOf
  <1>4. InTurnInv /\ [Shared!Next]_(Shared!vars) /\ [Next /\ OneAtATime]_vars => InTurnInv'
    BY NextInTurn
  <1>5. InTurnInv /\ [Shared!Next]_(Shared!vars) /\ [Next /\ OneAtATime]_vars => [EndsAsMeant]_vars
    BY NextInTurn
  <1> QED
    BY <1>2, <1>3, <1>4, <1>5, PTL DEF SpecInTurn, Shared!Spec

-----------------------------------------------------------------------------
(* A session with a single caller, as in the pool.                         *)

Alone(c) == c \in Caller /\ Proc \subseteq {c} \cup Health /\ ~HasHealth

(* What may have gone wrong before, and what the call has repaired: a      *)
(* kernel that does not answer has cost a fault, and on the second attempt *)
(* it has cost one since the first.                                        *)
Excused(c) == faults > begun[c] /\ (StartMayFail \/ faults >= 2)

MaskInv(c) ==
  /\ healthRef = NoProc /\ \A h \in Health : pc[h] = "none"
  /\ begun[c] <= faults
  /\ \A s \in Session : kern[s] = "dead" => faults >= 1
  /\ session # NoSession /\ kern[session] = "off" =>
       StartMayFail \/ pc[c] \in {"starting", "clear"}
  /\ pc[c] = "ensure" => why[c] \in {"image", "first"}
  /\ pc[c] = "lockStart" => session = NoSession
  /\ pc[c] \in {"begin", "eval"} => session # NoSession
  /\ pc[c] = "eval" => snap[c] = session
  /\ pc[c] # "out" /\ why[c] = "crash" => StartMayFail \/ faults >= 1
  /\ pc[c] \in {"begin", "eval"} /\ why[c] = "crash" => kern[session] \in Live \/ Excused(c)
  /\ pc[c] # "out" /\ why[c] \in {"retry", "failed"} => Excused(c) /\ pc[c] = "raise"
  /\ outcome[c] = "error" => Excused(c)

LEMMA InitMasked == ASSUME NEW c, Alone(c), Init PROVE MaskInv(c)
  <1>1. c \in Proc /\ c \in Caller /\ Caller \cap Health = {}
    BY CallerIsProc, SessionAssumption DEF Alone
  <1> QED
    BY <1>1, CallerIsProc DEF Init, MaskInv

LEMMA SharedMasked ==
  ASSUME TypeOK, SwapInv, CleanInv, NEW c, Alone(c), MaskInv(c), NEW p \in Proc, SharedStep(p)
  PROVE  MaskInv(c)'
  <1>1. /\ c \in Proc /\ c \in Caller /\ c \notin Health /\ c # NoProc
        /\ faults \in Nat /\ begun[c] \in Nat /\ ~HasHealth /\ UnderWay(c)
    BY CallerIsProc, SessionAssumption DEF Alone, TypeOK, CleanInv
  <1>2. p = c
    <2>1. pc[p] # "none"
      BY DEF SharedStep, StartLocked, StartedAlready, StartSucceeds, ConstructorFails, StartFails,
             ThreadLimit, NoHealthThread, SignalHealth, JoinRaises, Joined, StopLocked, StoppedAlready,
             ClearSession, Goto
    <2> QED
      BY <2>1 DEF Alone, MaskInv
  <1>3. healthRef = NoProc /\ healthRef \notin Health \cup {c, Unstarted}
    BY <1>1, CallerIsProc, SessionAssumption DEF MaskInv
  <1>4. pc[c] # "out" => why[c] \in CallWhy
    BY <1>1 DEF UnderWay
  <1> USE <1>1, <1>2, <1>3, <1>4
  <1>5. CASE StartLocked(c)
    BY <1>5, SessionAssumption DEF StartLocked, Goto, Fresh, MaskInv, Excused, TypeOK, Live, healthVars, callVars
  <1>6. CASE StartedAlready(c)
    BY <1>6 DEF StartedAlready, MaskInv
  <1>7. CASE StartSucceeds(c)
    <2>1. pc[c] = "starting" /\ session \in Session
      BY <1>7 DEF StartSucceeds, MaskInv, TypeOK, SwapInv
    <2>0. why' = why
      BY <1>7 DEF StartSucceeds, Continue, TypeOK
    <2>2. /\ kern' = [kern EXCEPT ![session] = "up"]
          /\ why' = why /\ snap' = snap /\ outcome' = outcome /\ begun' = begun
          /\ faults' = faults /\ session' = session /\ healthRef' = healthRef
      BY <1>7, <2>0 DEF StartSucceeds, Continue, callVars
    <2>3. pc' = [q \in Proc |-> IF q = c THEN AfterStart(c) ELSE pc[q]]
      BY <1>7 DEF StartSucceeds, Continue
    <2>4. pc'[c] \in {"temp", "raise", "begin"} /\ \A h \in Health : pc'[h] = "none"
      BY <2>1, <2>3 DEF AfterStart, MaskInv, Proc
    <2>5. kern' \in [Session -> Live \cup {"off", "dead"}] /\ kern'[session] = "up"
      BY <2>1, <2>2 DEF TypeOK, Live
    <2>6. \A s \in Session : kern'[s] = "dead" => kern[s] = "dead"
      BY <2>1, <2>2 DEF TypeOK
    <2> QED
      BY <2>1, <2>2, <2>4, <2>5, <2>6, SessionAssumption DEF MaskInv, Excused, Live
  <1>8. CASE ConstructorFails(c) \/ StartFails(c)
    <2>1. PICK k : Raises(c, k)
      BY <1>8 DEF ConstructorFails, StartFails
    <2>2. /\ pc[c] \in {"lockStart", "starting"} /\ faults' = faults + 1 /\ StartMayFail
          /\ UNCHANGED <<session, kern, healthRef>> /\ why[c] # "odd"
      BY <1>8 DEF ConstructorFails, StartFails, sessionVars, healthVars
    <2>3. CASE Leave(c, "error")
      BY <2>2, <2>3 DEF Leave, MaskInv, Excused, TypeOK
    <2>4. CASE ~Leave(c, "error")
      <3>1. /\ pc' = [pc EXCEPT ![c] = "raise"] /\ why' = [why EXCEPT ![c] = why'[c]]
            /\ why'[c] \in {"retry", "failed"} /\ UNCHANGED <<snap, outcome, begun>>
        BY <2>1, <2>2, <2>4 DEF Raises, callVars, TypeOK
      <3> QED
        BY <2>2, <3>1 DEF MaskInv, Excused, TypeOK
    <2> QED
      BY <2>3, <2>4
  <1>9. CASE ThreadLimit(c) \/ SignalHealth(c) \/ JoinRaises(c)
    BY <1>9 DEF ThreadLimit, SignalHealth, JoinRaises
  <1>10. CASE NoHealthThread(c)
    BY <1>10 DEF NoHealthThread, Goto, MaskInv, Excused, TypeOK, sessionVars, healthVars, callVars
  <1>11. CASE Joined(c)
    BY <1>11 DEF Joined, Goto, MaskInv, Excused, TypeOK, sessionVars, callVars
  <1>12. CASE StopLocked(c)
    BY <1>12 DEF StopLocked, Goto, MaskInv, Excused, TypeOK, Live, healthVars, callVars
  <1>13. CASE StoppedAlready(c) \/ ClearSession(c)
    <2>1. pc[c] \in {"lockStop", "clear"}
      BY <1>13 DEF StoppedAlready, ClearSession
    <2>2. pc' = [pc EXCEPT ![c] = "lockStart"] /\ why' = why
      BY <1>13, <2>1 DEF StoppedAlready, ClearSession, Proceed, AfterStop, TypeOK
    <2>3. session' = NoSession /\ UNCHANGED <<kern, healthVars, snap, callVars, faults>>
      BY <1>13 DEF StoppedAlready, ClearSession, sessionVars
    <2>4. pc'[c] = "lockStart" /\ \A h \in Health : pc'[h] = "none"
      BY <2>2 DEF MaskInv, TypeOK
    <2> QED
      BY <2>1, <2>2, <2>3, <2>4 DEF MaskInv, Excused, healthVars, callVars
  <1> QED
    BY <1>5, <1>6, <1>7, <1>8, <1>9, <1>10, <1>11, <1>12, <1>13 DEF SharedStep

LEMMA LeaveMasked ==
  ASSUME TypeOK, NEW c, Alone(c), MaskInv(c), NEW result,
         Leave(c, result), UNCHANGED <<sessionVars, healthRef, faults>>,
         pc[c] # "starting", pc[c] # "clear", result = "error" => Excused(c)
  PROVE  MaskInv(c)'
  <1>1. c \in Proc /\ c \in Caller /\ c \notin Health
    BY CallerIsProc, SessionAssumption DEF Alone
  <1>2. pc'[c] = "out" /\ outcome'[c] = result /\ \A h \in Health : pc'[h] = "none"
    BY <1>1 DEF Leave, TypeOK, MaskInv
  <1>3. UNCHANGED <<begun, faults, session, kern, healthRef>>
    BY DEF Leave, sessionVars
  <1> QED
    BY <1>2, <1>3 DEF MaskInv, Excused

LEMMA CallMasked ==
  ASSUME TypeOK, CleanInv, NEW c, Alone(c), MaskInv(c), Call(c) \/ EvalStep(c)
  PROVE  MaskInv(c)'
  <1>1. /\ c \in Proc /\ c \in Caller /\ c \notin Health
        /\ faults \in Nat /\ begun[c] \in Nat /\ UnderWay(c)
    BY CallerIsProc, SessionAssumption DEF Alone, TypeOK, CleanInv
  <1> USE <1>1
  <1>2. CASE Call(c)
    BY <1>2 DEF Call, Excused, sessionVars, healthVars, MaskInv, TypeOK
  <1>3. CASE EnsureStarted(c)
    BY <1>3 DEF EnsureStarted, AfterStart, Excused, sessionVars, healthVars, callVars, MaskInv, TypeOK
  <1>4. CASE MakeTemp(c)
    BY <1>4 DEF MakeTemp, Goto, Excused, sessionVars, healthVars, MaskInv, TypeOK
  <1>5. CASE Begin(c)
    <2>1. pc[c] = "begin" /\ session # NoSession
      BY <1>5 DEF Begin, MaskInv, TypeOK
    <2>2. /\ pc' = [pc EXCEPT ![c] = "eval"] /\ snap' = [snap EXCEPT ![c] = session]
          /\ UNCHANGED <<why, callVars, sessionVars, healthRef, faults>>
      BY <1>5, <2>1 DEF Begin, MaskInv, TypeOK
    <2>3. pc'[c] = "eval" /\ snap'[c] = session /\ \A h \in Health : pc'[h] = "none"
      BY <2>2 DEF MaskInv, TypeOK
    <2> QED
      BY <2>1, <2>2, <2>3 DEF Excused, sessionVars, callVars, MaskInv, TypeOK
  <1>6. CASE EvalReturns(c) \/ RaiseTimeout(c) \/ RaiseFailure(c)
    <2>1. PICK result \in {"ok", "timeout", "error"} :
            Leave(c, result) /\ (result = "error" => RaiseFailure(c))
      BY <1>6 DEF EvalReturns, RaiseTimeout, RaiseFailure
    <2>2. UNCHANGED <<sessionVars, healthRef, faults>>
      BY <1>6 DEF EvalReturns, RaiseTimeout, RaiseFailure, LeaveExecutor, healthVars
    <2>3. pc[c] \in {"eval", "raise"} /\ (result = "error" => Excused(c))
      BY <1>6, <2>1 DEF EvalReturns, RaiseTimeout, RaiseFailure, LeaveExecutor, MaskInv
    <2> QED
      BY <2>1, <2>2, <2>3, LeaveMasked
  <1>7. CASE EvalTimesOut(c)
    BY <1>7 DEF EvalTimesOut, Goto, Excused, sessionVars, healthVars, callVars, MaskInv, TypeOK, Live
  <1>8. CASE EvalRaises(c)
    <2>1. session \in Session /\ kern[session] \in {"dead", "off"} /\ kern[session] \notin Live
      BY <1>8 DEF EvalRaises, Live, MaskInv, TypeOK
    <2>2. StartMayFail \/ faults >= 1
      BY <1>8, <2>1 DEF EvalRaises, MaskInv, TypeOK
    <2>3. CASE why[c] = "first"
      <3>1. /\ pc' = [pc EXCEPT ![c] = "stopHealth"] /\ why' = [why EXCEPT ![c] = "crash"]
            /\ UNCHANGED <<callVars, sessionVars, healthVars, faults>>
        BY <1>8, <2>3 DEF EvalRaises, KernelException, MaskInv, TypeOK
      <3>2. pc'[c] = "stopHealth" /\ why'[c] = "crash" /\ \A h \in Health : pc'[h] = "none"
        BY <3>1 DEF MaskInv, TypeOK
      <3> QED
        BY <1>8, <2>2, <3>1, <3>2 DEF EvalRaises, Excused, sessionVars, healthVars, callVars, MaskInv, TypeOK
    <2>4. CASE why[c] = "crash"
      <3>1. Leave(c, "error") /\ UNCHANGED <<sessionVars, healthRef, faults>>
        BY <1>8, <2>4 DEF EvalRaises, KernelException, healthVars, MaskInv, TypeOK
      <3>2. Excused(c)
        BY <1>8, <2>1, <2>4 DEF EvalRaises, MaskInv, TypeOK
      <3>3. pc[c] # "starting" /\ pc[c] # "clear"
        BY <1>8 DEF EvalRaises, MaskInv, TypeOK
      <3> QED
        BY <3>1, <3>2, <3>3, LeaveMasked
    <2> QED
      BY <1>8, <2>3, <2>4 DEF EvalRaises, KernelException, MaskInv
  <1>9. CASE RetryAfterFailure(c)
    <2>1. /\ pc' = [pc EXCEPT ![c] = "stopHealth"] /\ why' = [why EXCEPT ![c] = "crash"]
          /\ UNCHANGED <<callVars, sessionVars, healthVars, faults>>
      BY <1>9 DEF RetryAfterFailure, LeaveExecutor, KernelException
    <2>2. pc'[c] = "stopHealth" /\ why'[c] = "crash" /\ \A h \in Health : pc'[h] = "none"
      BY <2>1 DEF MaskInv, TypeOK
    <2>3. Excused(c) /\ pc[c] = "raise"
      BY <1>9 DEF RetryAfterFailure, LeaveExecutor, MaskInv
    <2>4. UNCHANGED <<healthRef, begun, faults, session, kern, outcome>>
      BY <2>1 DEF sessionVars, healthVars, callVars
    <2>5. Excused(c)' /\ (StartMayFail \/ faults' >= 1)
      BY <2>3, <2>4 DEF Excused
    <2> QED
      BY <2>2, <2>3, <2>4, <2>5 DEF MaskInv
  <1> QED
    BY <1>2, <1>3, <1>4, <1>5, <1>6, <1>7, <1>8, <1>9 DEF EvalStep

LEMMA NextMasked ==
  ASSUME NEW c, Alone(c), TypeOK, SwapInv, CleanInv, MaskInv(c), [Next]_vars
  PROVE  MaskInv(c)'
  <1>1. /\ c \in Proc /\ c \in Caller /\ c \notin Health
        /\ faults \in Nat /\ begun[c] \in Nat
    BY CallerIsProc, SessionAssumption DEF Alone, TypeOK
  <1>2. ASSUME NEW p \in Proc, SharedStep(p) PROVE MaskInv(c)'
    BY <1>2, SharedMasked
  <1>3. ASSUME NEW d \in Caller, Call(d) \/ EvalStep(d) PROVE MaskInv(c)'
    <2>1. d = c
      BY CallerIsProc, SessionAssumption DEF Alone
    <2> QED
      BY <1>3, <2>1, CallMasked
  <1>4. ASSUME NEW o \in Owner PROVE FALSE
    BY CallerIsProc, SessionAssumption DEF Alone
  <1>5. ASSUME NEW h \in Health, HealthStep(h) PROVE MaskInv(c)'
    BY <1>5 DEF HealthStep, HealthExit, HealthIdle, HealthPings, PingBegins, PingReturns,
                PingOdd, PingFails, Wakes, Goto, MaskInv
  <1>6. CASE KernelFault
    BY <1>1, <1>6 DEF KernelFault, MaskInv, Excused, TypeOK, Live, healthVars, procVars, callVars
  <1>7. CASE Tick \/ UNCHANGED vars
    BY <1>7 DEF Tick, vars, MaskInv, Excused, sessionVars, healthVars, procVars, callVars
  <1> QED
    BY <1>2, <1>3, <1>4, <1>5, <1>6, <1>7 DEF Next

(* "the session is automatically restarted and the call retried once"      *)
(* (kernel.py:3-4): the only caller of a session without a health thread,  *)
(* as each session of the pool is, sees an error only if a fault happened  *)
(* during its call, and unless starting a kernel fails it takes two.       *)
THEOREM Masked ==
  ASSUME NEW CONSTANT c, Alone(c)
  PROVE  Spec => []FaultsMasked
  <1>1. Caller = {c}
    BY CallerIsProc, SessionAssumption DEF Alone
  <1>2. Init => TypeOK /\ SwapInv /\ SingleKernel /\ CleanInv /\ MaskInv(c)
    <2>1. Init => CleanInv
      BY CallerIsProc, SessionAssumption DEF Init, CleanInv, HoldInv, UnderWay
    <2>2. Init => SwapInv /\ SingleKernel
      BY DEF Init, SwapInv, SingleKernel, Live
    <2> QED
      BY InitType, InitMasked, <2>1, <2>2
  <1>3. TypeOK /\ SwapInv /\ SingleKernel /\ CleanInv /\ MaskInv(c) /\ [Next]_vars
          => TypeOK' /\ SwapInv' /\ SingleKernel' /\ CleanInv' /\ MaskInv(c)'
    BY NextType, NextSingle, NextClean, NextMasked
  <1>4. MaskInv(c) => FaultsMasked
    BY <1>1 DEF MaskInv, Excused, FaultsMasked
  <1> QED
    BY <1>2, <1>3, <1>4, PTL DEF Spec
=============================================================================
