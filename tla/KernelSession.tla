--------------------------- MODULE KernelSession ---------------------------
(***************************************************************************)
(* One Wolfram kernel session (src/mma_mcp/kernel.py): start, stop and     *)
(* restart under a lock, evaluation with a hard timeout and one retry, and *)
(* the background thread that pings the kernel and stops it when idle.     *)
(*                                                                         *)
(* start(), stop() and restart() are called from evaluations, from the     *)
(* health thread and by the owner of the session.  They are modelled once: *)
(* why[p] says what process p came for, and so where it goes on.           *)
(*                                                                         *)
(* External: the kernel process behind a WolframLanguageSession.  It may   *)
(* crash or stop responding; evaluating on a crashed, stopped or unstarted *)
(* session raises WolframKernelException; stopping a session ends the      *)
(* evaluation pending on it.                                               *)
(***************************************************************************)
EXTENDS Naturals, FiniteSets

CONSTANTS
  Caller,         \* threads that evaluate
  Owner,          \* threads that enter and leave the session (start, stop)
  Health,         \* the health threads that can exist at a time
  Session,        \* identities of WolframLanguageSession objects
  NoProc, NoSession,
  Unstarted,      \* a Thread object whose start() has failed
  Pings,          \* health_check_interval > 0
  IdleTimeout,    \* idle_timeout in ticks; 0 = never
  HardTimeout,    \* hard_timeout > 0
  StartMayFail,   \* whether session.start() may raise
  MaxFaults       \* bound: crashes, hangs, odd answers and failed starts

ASSUME SessionAssumption ==
  /\ IsFiniteSet(Session) /\ NoSession \notin Session /\ NoProc # Unstarted
  /\ {NoProc, Unstarted} \cap (Caller \cup Owner \cup Health) = {}
  /\ Caller \cap Owner = {} /\ Health \cap (Caller \cup Owner) = {}
  /\ IdleTimeout \in Nat /\ MaxFaults \in Nat
  /\ {Pings, HardTimeout, StartMayFail} \subseteq BOOLEAN

User == Caller \cup Owner
Proc == Caller \cup Owner \cup Health

VARIABLES
  lock,        \* who holds _lock
  session,     \* _session
  kern,        \* what is behind each session object
  age,         \* now - _last_activity, saturated at IdleTimeout
  healthRef,   \* _health_thread
  healthStop,  \* the event _health_stop
  pc,          \* where each process is
  why,         \* what it came for
  snap,        \* the session it evaluates on, its local `session`
  joins,       \* the thread it joins, the local `thread`
  tmp,         \* callers whose temporary file exists
  outcome,     \* how the last call of each caller or owner ended
  faults,      \* faults so far
  begun        \* history: faults when the caller's call began

sessionVars == <<lock, session, kern>>
healthVars  == <<healthRef, healthStop, age>>
procVars    == <<pc, why, snap, joins>>
callVars    == <<tmp, outcome, begun>>
vars == <<sessionVars, healthVars, procVars, callVars, faults>>

Live == {"up", "hung"}
HasHealth == Pings \/ IdleTimeout > 0
Evaluating(p) == pc[p] = "eval"

Init ==
  /\ lock = NoProc /\ session = NoSession
  /\ kern = [s \in Session |-> "off"]
  /\ age = 0
  /\ healthRef = NoProc /\ healthStop = FALSE
  /\ pc = [p \in Proc |-> IF p \in Health THEN "none" ELSE "out"]
  /\ why = [p \in Proc |-> "none"]
  /\ snap = [p \in Proc |-> NoSession]
  /\ joins = [p \in Proc |-> NoProc]
  /\ tmp = {}
  /\ outcome = [u \in User |-> "none"]
  /\ faults = 0
  /\ begun = [c \in Caller |-> 0]

Goto(p, from, to) == pc[p] = from /\ pc' = [pc EXCEPT ![p] = to]

(* A mutant: no finally around the evaluation. *)
UnlinkedAfterSuccess(p, result) == IF result = "ok" THEN tmp \ {p} ELSE tmp
Unlinked(p, result) == tmp \ {p}

(* Process p returns, or ends by an exception: a caller's temporary file   *)
(* is unlinked (the finally of evaluate_to_image), a health thread ends.   *)
Leave(p, result) ==
  /\ pc' = [pc EXCEPT ![p] = IF p \in Health THEN "none" ELSE "out"]
  /\ why' = [why EXCEPT ![p] = "none"]
  /\ snap' = [snap EXCEPT ![p] = NoSession]
  /\ tmp' = Unlinked(p, result)
  /\ outcome' = IF p \in User THEN [outcome EXCEPT ![p] = result]
                              ELSE outcome
  /\ UNCHANGED <<joins, begun>>

(* start() or restart() raises.  After a hard timeout this happens inside  *)
(* the with block of the executor, which first waits for the evaluation    *)
(* that is still pending; and on the first attempt what then comes out, if *)
(* it is a WolframKernelException, is caught by evaluate().  After an odd  *)
(* answer to a ping it happens inside the try of the ping, and the handler *)
(* restarts once more.                                                     *)
Raises(p, kernelException) ==
  \/ why[p] \notin {"timeout", "late", "odd"} /\ Leave(p, "error")
  \/ /\ why[p] = "odd"
     /\ pc' = [pc EXCEPT ![p] = "stopHealth"]
     /\ why' = [why EXCEPT ![p] = "ping"]
     /\ UNCHANGED <<snap, joins, callVars>>
  \/ /\ why[p] \in {"timeout", "late"}
     /\ pc' = [pc EXCEPT ![p] = "raise"]
     /\ why' = [why EXCEPT ![p] = IF @ = "timeout" /\ kernelException
                                  THEN "retry" ELSE "failed"]
     /\ UNCHANGED <<snap, joins, callVars>>

-----------------------------------------------------------------------------
(* start()                                                                 *)

(* Sessions nothing refers to and no kernel runs behind. *)
Fresh == {s \in Session : /\ s # session /\ kern[s] \notin Live
                          /\ \A p \in Proc : snap[p] # s}

(* Where a process goes on after start(), which spawned the threads S. *)
AfterStart(p) == CASE why[p] = "enter"   -> "out"
                   [] why[p] = "image"   -> "temp"
                   [] why[p] \in {"timeout", "late"} -> "raise"
                   [] why[p] \in {"ping", "odd"} -> "wait"
                   [] OTHER              -> "begin"
Continue(p, S) ==
  /\ pc' = [q \in Proc |-> IF q \in S THEN "wait"
                           ELSE IF q = p THEN AfterStart(p) ELSE pc[q]]
  /\ why' = [why EXCEPT ![p] = IF p \in Caller THEN @ ELSE "none"]
  /\ UNCHANGED <<snap, joins, callVars>>

(* A mutant: _session is not looked at again under the lock. *)
NoLook == TRUE
Unassigned == session = NoSession

(* _make_session() raises under the lock: _session is still None.          *)
ConstructorFails(p) ==
  /\ StartMayFail /\ faults < MaxFaults
  /\ pc[p] = "lockStart"
  /\ lock = NoProc /\ Unassigned
  /\ faults' = faults + 1
  /\ \E kernelException \in BOOLEAN : Raises(p, kernelException)
  /\ UNCHANGED <<sessionVars, healthVars>>

(* with self._lock: _session is assigned before the kernel is started, and *)
(* the other threads read it without the lock.                             *)
StartLocked(p) ==
  /\ Goto(p, "lockStart", "starting")
  /\ lock = NoProc /\ lock' = p
  /\ Unassigned
  /\ \E s \in Fresh : session' = s
  /\ UNCHANGED <<kern, healthVars, why, snap, joins, callVars, faults>>

(* Somebody else has started it: return. *)
StartedAlready(p) ==
  /\ pc[p] = "lockStart"
  /\ lock = NoProc /\ session # NoSession
  /\ Continue(p, {})
  /\ UNCHANGED <<sessionVars, healthVars, faults>>

FreeThreads == {h \in Health : /\ pc[h] = "none" /\ healthRef # h
                               /\ \A q \in Proc : joins[q] # h}

(* _session.start() returns; then _start_health_thread(), under the lock.  *)
(* _health_stop is shared with a previous thread that may still run.       *)
StartSucceeds(p) ==
  /\ pc[p] = "starting"
  /\ kern' = [kern EXCEPT ![session] = "up"]
  /\ age' = 0
  /\ lock' = NoProc
  /\ IF HasHealth
     THEN \E h \in FreeThreads :
            healthRef' = h /\ healthStop' = FALSE /\ Continue(p, {h})
     ELSE Continue(p, {}) /\ UNCHANGED <<healthRef, healthStop>>
  /\ UNCHANGED <<session, faults>>

(* The health thread cannot be started: the kernel runs, start() raises,   *)
(* and _health_thread is a thread that was never started.                  *)
ThreadLimit(p) ==
  /\ pc[p] = "starting"
  /\ HasHealth /\ FreeThreads = {}
  /\ kern' = [kern EXCEPT ![session] = "up"]
  /\ age' = 0
  /\ lock' = NoProc
  /\ healthRef' = Unstarted /\ healthStop' = FALSE
  /\ Raises(p, FALSE)
  /\ UNCHANGED <<session, faults>>

(* _session.start() raises, a WolframKernelException or something else:    *)
(* _session stays assigned, to a session that is not running.              *)
StartFails(p) ==
  /\ StartMayFail /\ faults < MaxFaults
  /\ pc[p] = "starting"
  /\ faults' = faults + 1
  /\ lock' = NoProc
  /\ \E kernelException \in BOOLEAN : Raises(p, kernelException)
  /\ UNCHANGED <<session, kern, healthVars>>

-----------------------------------------------------------------------------
(* stop() and the first half of restart()                                  *)

(* _stop_health_thread: read _health_thread, set the event, join. *)
NoHealthThread(p) ==
  /\ Goto(p, "stopHealth", "lockStop")
  /\ healthRef = NoProc
  /\ UNCHANGED <<sessionVars, healthVars, why, snap, joins, callVars, faults>>

(* A mutant: a thread that was never started is joined like any other. *)
AnyThread(p) == (Health \cup {Unstarted}) \ {p}
Joinable(p) == Health \ {p}

SignalHealth(p) ==
  /\ Goto(p, "stopHealth", "join")
  /\ healthRef \in Joinable(p)
  /\ healthStop' = TRUE
  /\ joins' = [joins EXCEPT ![p] = healthRef]
  /\ UNCHANGED <<sessionVars, healthRef, age, why, snap, callVars, faults>>

(* join() raises RuntimeError in the thread itself and for a thread that   *)
(* was never started.                                                      *)
JoinRaises(p) ==
  /\ pc[p] = "stopHealth" /\ healthRef \in {p, Unstarted}
  /\ healthStop' = TRUE
  /\ Raises(p, FALSE)
  /\ UNCHANGED <<sessionVars, healthRef, age, faults>>

(* join() returns because the thread has ended, or after 5 seconds.  A     *)
(* thread that only sleeps does not take 5 seconds to see the event: the   *)
(* timeout needs it to be held up, in a ping or at the lock, or a start()  *)
(* that has cleared the event before the thread has seen it.               *)
Joined(p) ==
  /\ Goto(p, "join", "lockStop")
  /\ \/ pc[joins[p]] \in {"none", "ping", "eval"} \/ ~healthStop
     \/ pc[joins[p]] # "wait" /\ lock # NoProc
  /\ healthRef' = NoProc
  /\ joins' = [joins EXCEPT ![p] = NoProc]
  /\ UNCHANGED <<sessionVars, healthStop, age, why, snap, callVars, faults>>

(* Where stop(), _stop_session_only() and restart() go on. *)
AfterStop(p) == CASE why[p] = "exit" -> "out"
                  [] why[p] = "idle" -> "wait"
                  [] OTHER           -> "lockStart"
Proceed(p) ==
  /\ pc' = [pc EXCEPT ![p] = AfterStop(p)]
  /\ why' = [why EXCEPT ![p] = IF @ \in {"exit", "idle"} THEN "none" ELSE @]

(* with self._lock: _session.stop() ... *)
StopLocked(p) ==
  /\ Goto(p, "lockStop", "clear")
  /\ lock = NoProc /\ lock' = p
  /\ session # NoSession
  /\ kern' = [kern EXCEPT ![session] = "off"]
  /\ UNCHANGED <<session, healthVars, why, snap, joins, callVars, faults>>

StoppedAlready(p) ==
  /\ pc[p] = "lockStop"
  /\ lock = NoProc /\ session = NoSession
  /\ Proceed(p)
  /\ UNCHANGED <<sessionVars, healthVars, snap, joins, callVars, faults>>

(* ... and only then _session = None. *)
ClearSession(p) ==
  /\ pc[p] = "clear"
  /\ session' = NoSession
  /\ lock' = NoProc
  /\ Proceed(p)
  /\ UNCHANGED <<kern, healthVars, snap, joins, callVars, faults>>

SharedStep(p) ==
  \/ StartLocked(p) \/ StartedAlready(p) \/ StartSucceeds(p)
  \/ ConstructorFails(p) \/ StartFails(p) \/ ThreadLimit(p)
  \/ NoHealthThread(p) \/ SignalHealth(p) \/ JoinRaises(p) \/ Joined(p)
  \/ StopLocked(p) \/ StoppedAlready(p) \/ ClearSession(p)

-----------------------------------------------------------------------------
(* evaluate(), evaluate_to_string(), evaluate_to_image()                   *)

(* evaluate_to_image ensures that the kernel is started before evaluate    *)
(* does so once more.                                                      *)
Call(c) ==
  /\ pc[c] = "out"
  /\ \E kind \in {"image", "first"} :
       /\ pc' = [pc EXCEPT ![c] = "ensure"]
       /\ why' = [why EXCEPT ![c] = kind]
  /\ outcome' = [outcome EXCEPT ![c] = "none"]
  /\ begun' = [begun EXCEPT ![c] = faults]
  /\ UNCHANGED <<sessionVars, healthVars, snap, joins, tmp, faults>>

(* _ensure_started: an unlocked look at _session. *)
EnsureStarted(c) ==
  /\ pc[c] = "ensure"
  /\ pc' = [pc EXCEPT ![c] = IF session = NoSession THEN "lockStart"
                             ELSE AfterStart(c)]
  /\ UNCHANGED <<sessionVars, healthVars, why, snap, joins, callVars, faults>>

MakeTemp(c) ==
  /\ Goto(c, "temp", "ensure")
  /\ why' = [why EXCEPT ![c] = "first"]
  /\ tmp' = tmp \cup {c}
  /\ UNCHANGED <<sessionVars, healthVars, snap, joins, outcome, begun, faults>>

(* A mutant: every attempt is unguarded. *)
KernelExceptionUnguarded(c) == Leave(c, "error")

(* A WolframKernelException: the first attempt, also if it came to its     *)
(* hard timeout, restarts and tries again, the second is not guarded.      *)
KernelException(c) ==
  \/ /\ why[c] \in {"first", "retry"}
     /\ pc' = [pc EXCEPT ![c] = "stopHealth"]
     /\ why' = [why EXCEPT ![c] = "crash"]
     /\ snap' = [snap EXCEPT ![c] = NoSession]
     /\ UNCHANGED <<joins, callVars>>
  \/ why[c] = "crash" /\ Leave(c, "error")

(* _last_activity = now (not on the second attempt); session =             *)
(* self._session; None raises like a dead kernel.                          *)
Begin(c) ==
  /\ pc[c] = "begin"
  /\ age' = IF why[c] = "first" THEN 0 ELSE age
  /\ IF session = NoSession
     THEN KernelException(c)
     ELSE /\ pc' = [pc EXCEPT ![c] = "eval"]
          /\ snap' = [snap EXCEPT ![c] = session]
          /\ UNCHANGED <<why, joins, callVars>>
  /\ UNCHANGED <<sessionVars, healthRef, healthStop, faults>>

EvalReturns(c) ==
  /\ pc[c] = "eval" /\ kern[snap[c]] = "up"
  /\ age' = IF why[c] = "first" THEN 0 ELSE age
  /\ Leave(c, "ok")
  /\ UNCHANGED <<sessionVars, healthRef, healthStop, faults>>

EvalRaises(c) ==
  /\ pc[c] = "eval" /\ kern[snap[c]] \in {"dead", "off"}
  /\ KernelException(c)
  /\ UNCHANGED <<sessionVars, healthVars, faults>>

(* A mutant: KernelTimeout is raised without a restart. *)
NoRestart == "raise"
Restart == "stopHealth"

(* future.result(timeout=hard_timeout): the kernel does not respond. *)
EvalTimesOut(c) ==
  /\ HardTimeout
  /\ Goto(c, "eval", Restart)
  /\ kern[snap[c]] = "hung"
  /\ why' = [why EXCEPT ![c] = IF @ = "first" THEN "timeout" ELSE "late"]
  /\ UNCHANGED <<sessionVars, healthVars, snap, joins, callVars, faults>>

(* raise KernelTimeout, or what restart() raised; leaving the executor's   *)
(* with block waits for the evaluation that is still pending on the old    *)
(* session.                                                                *)
LeaveExecutor(c) ==
  /\ pc[c] = "raise" /\ kern[snap[c]] \notin Live
  /\ UNCHANGED <<sessionVars, healthVars, faults>>
RaiseTimeout(c) ==
  LeaveExecutor(c) /\ why[c] \in {"timeout", "late"} /\ Leave(c, "timeout")
RaiseFailure(c) ==
  LeaveExecutor(c) /\ why[c] = "failed" /\ Leave(c, "error")
RetryAfterFailure(c) ==
  LeaveExecutor(c) /\ why[c] = "retry" /\ KernelException(c)

EvalStep(c) ==
  \/ EnsureStarted(c) \/ MakeTemp(c) \/ Begin(c) \/ EvalReturns(c)
  \/ EvalRaises(c) \/ EvalTimesOut(c)
  \/ RaiseTimeout(c) \/ RaiseFailure(c) \/ RetryAfterFailure(c)

-----------------------------------------------------------------------------
(* The owner: __enter__ and __exit__, start() and stop().                  *)

Enter(o) ==
  /\ Goto(o, "out", "lockStart")
  /\ why' = [why EXCEPT ![o] = "enter"]
  /\ outcome' = [outcome EXCEPT ![o] = "none"]
  /\ UNCHANGED <<sessionVars, healthVars, snap, joins, tmp, begun, faults>>

Exit(o) ==
  /\ Goto(o, "out", "stopHealth")
  /\ why' = [why EXCEPT ![o] = "exit"]
  /\ outcome' = [outcome EXCEPT ![o] = "none"]
  /\ UNCHANGED <<sessionVars, healthVars, snap, joins, tmp, begun, faults>>

-----------------------------------------------------------------------------
(* The health thread: _health_loop.                                        *)

HealthExit(h) ==
  /\ Goto(h, "wait", "none")
  /\ healthStop
  /\ UNCHANGED <<sessionVars, healthVars, why, snap, joins, callVars, faults>>

(* The interval is over and there is a session. *)
Wakes(h) == pc[h] = "wait" /\ ~healthStop /\ session # NoSession
IsIdle == IdleTimeout > 0 /\ age >= IdleTimeout

(* Idle for too long: stop the session, whatever it does once the lock is  *)
(* there.                                                                  *)
HealthIdle(h) ==
  /\ Wakes(h) /\ IsIdle
  /\ Goto(h, "wait", "lockStop")
  /\ why' = [why EXCEPT ![h] = "idle"]
  /\ UNCHANGED <<sessionVars, healthVars, snap, joins, callVars, faults>>

HealthPings(h) ==
  /\ Wakes(h) /\ ~IsIdle /\ Pings
  /\ Goto(h, "wait", "ping")
  /\ UNCHANGED <<sessionVars, healthVars, why, snap, joins, callVars, faults>>

(* self._session.evaluate: _session is read again and may be None, an      *)
(* AttributeError, which is treated as a failed ping.                      *)
PingBegins(h) ==
  /\ pc[h] = "ping"
  /\ IF session = NoSession
     THEN /\ pc' = [pc EXCEPT ![h] = "stopHealth"]
          /\ why' = [why EXCEPT ![h] = "ping"]
          /\ UNCHANGED snap
     ELSE /\ pc' = [pc EXCEPT ![h] = "eval"]
          /\ snap' = [snap EXCEPT ![h] = session]
          /\ UNCHANGED why
  /\ UNCHANGED <<sessionVars, healthVars, joins, callVars, faults>>

(* The answer is 2 ... *)
PingReturns(h) ==
  /\ Goto(h, "eval", "wait")
  /\ kern[snap[h]] = "up"
  /\ snap' = [snap EXCEPT ![h] = NoSession]
  /\ UNCHANGED <<sessionVars, healthVars, why, joins, callVars, faults>>

(* ... or something else, restart() inside the try ...                     *)
PingOdd(h) ==
  /\ faults < MaxFaults
  /\ Goto(h, "eval", "stopHealth")
  /\ kern[snap[h]] = "up"
  /\ why' = [why EXCEPT ![h] = "odd"]
  /\ snap' = [snap EXCEPT ![h] = NoSession]
  /\ faults' = faults + 1
  /\ UNCHANGED <<sessionVars, healthVars, joins, callVars>>

(* ... or an exception: restart().  A kernel that hangs hangs the ping.    *)
PingFails(h) ==
  /\ Goto(h, "eval", "stopHealth")
  /\ kern[snap[h]] \in {"dead", "off"}
  /\ why' = [why EXCEPT ![h] = "ping"]
  /\ snap' = [snap EXCEPT ![h] = NoSession]
  /\ UNCHANGED <<sessionVars, healthVars, joins, callVars, faults>>

HealthStep(h) ==
  \/ HealthExit(h) \/ HealthIdle(h) \/ HealthPings(h) \/ PingBegins(h)
  \/ PingReturns(h) \/ PingOdd(h) \/ PingFails(h)

-----------------------------------------------------------------------------
(* External: the kernel process, and the clock.                            *)

KernelFault ==
  /\ faults < MaxFaults
  /\ session # NoSession /\ kern[session] = "up"
  /\ \E f \in {"dead", "hung"} : kern' = [kern EXCEPT ![session] = f]
  /\ faults' = faults + 1
  /\ UNCHANGED <<lock, session, healthVars, procVars, callVars>>

Tick ==
  /\ age < IdleTimeout
  /\ age' = age + 1
  /\ UNCHANGED <<sessionVars, healthRef, healthStop, procVars, callVars,
                 faults>>

Next ==
  \/ \E p \in Proc : SharedStep(p)
  \/ \E c \in Caller : Call(c) \/ EvalStep(c)
  \/ \E o \in Owner : Enter(o) \/ Exit(o)
  \/ \E h \in Health : HealthStep(h)
  \/ KernelFault
  \/ Tick

Spec == Init /\ [][Next]_vars

(* Threads keep running: a lock that is free is taken, a kernel that is up *)
(* answers, a timeout that is due fires.                                   *)
Fairness ==
  /\ \A p \in Proc : WF_vars(SharedStep(p))
  /\ \A c \in Caller : WF_vars(EvalStep(c))
  /\ \A h \in Health : WF_vars(HealthStep(h))

FairSpec == Spec /\ Fairness
-----------------------------------------------------------------------------
(* Properties                                                              *)

Where == {"none", "out", "ensure", "temp", "begin", "eval", "raise",
          "stopHealth", "join", "lockStop", "clear", "lockStart", "starting",
          "wait", "ping"}
CallWhy == {"image", "first", "crash", "timeout", "late", "failed", "retry"}
OtherWhy == {"none", "enter", "exit", "idle", "ping", "odd"}

(* Every variable keeps its type: the fields of KernelSession and the      *)
(* locals of the threads inside its methods.                               *)
TypeOK ==
  /\ lock \in Proc \cup {NoProc}
  /\ session \in Session \cup {NoSession}
  /\ kern \in [Session -> Live \cup {"off", "dead"}]
  /\ age \in 0..IdleTimeout
  /\ healthRef \in Health \cup {NoProc, Unstarted} /\ healthStop \in BOOLEAN
  /\ pc \in [Proc -> Where]
  /\ why \in [Proc -> CallWhy \cup OtherWhy]
  /\ snap \in [Proc -> Session \cup {NoSession}]
  /\ joins \in [Proc -> Health \cup {NoProc}]
  /\ tmp \subseteq Caller
  /\ outcome \in [User -> {"none", "ok", "error", "timeout"}]
  /\ faults \in 0..MaxFaults /\ begun \in [Caller -> 0..MaxFaults]

(* "Wraps a single WolframLanguageSession" (kernel.py:79): however starts, *)
(* restarts, idle stops and faults of several threads interleave, at most  *)
(* one kernel process is alive, and it is the one behind _session: none is *)
(* orphaned by a second start or an assignment that forgets it.            *)
SingleKernel == \A s \in Session : kern[s] \in Live => s = session

(* "the session is automatically restarted and the call retried once"      *)
(* (kernel.py:3-4): the only caller of a session sees an error only if a   *)
(* fault happens during its call: whatever crashed earlier is repaired,    *)
(* and a first crash is masked (unless starting the kernel fails too).     *)
FaultsMasked ==
  \A c \in Caller : outcome[c] = "error" =>
    /\ faults > begun[c]
    /\ StartMayFail \/ faults >= 2

(* Whichever way a call ends, KernelTimeout and failed restarts included,  *)
(* its temporary file is gone and the lock is not left with it.            *)
CallsCleanUp ==
  \A c \in Caller : pc[c] = "out" =>
    c \notin tmp /\ lock # c /\ joins[c] = NoProc

(* "force-restarted" (kernel.py:226-227): with a hard timeout, every call  *)
(* ends, however often the kernel crashes or hangs, and although leaving   *)
(* the executor waits for the evaluation that hangs.                       *)
CallsEnd == \A c \in Caller : pc[c] # "out" ~> pc[c] = "out"
=============================================================================
