----------------------------- MODULE KernelPool -----------------------------
(***************************************************************************)
(* The pool of Wolfram kernel workers (src/mma_mcp/pool.py).               *)
(*                                                                         *)
(* Tool calls run on executor threads.  Each call enters worker(), blocks  *)
(* on a semaphore, takes a worker under the pool's lock, starts its kernel *)
(* OUTSIDE the lock, evaluates, cleans up, and gives worker and permit     *)
(* back.  A reaper thread stops workers idle for too long, and stop()      *)
(* may be called by another thread while calls are in flight.              *)
(*                                                                         *)
(* Every `with self._lock` block is one action: nothing in it blocks.      *)
(* What happens between two lock blocks is an action of its own.           *)
(***************************************************************************)
EXTENDS Naturals, Sequences, FiniteSets

CONSTANTS
  Thread,         \* executor threads that run tool calls
  Worker,         \* identities of _Worker objects
  NoWorker,       \* "no worker"
  PoolSize,       \* pool_size, after the cpu_count default of line 57
  PoolMinIdle,    \* pool_min_idle, as configured
  MaxRequests,    \* max_requests_per_worker; 0 = never recycle
  IdleTimeout,    \* idle_timeout in ticks; 0 = never reclaim
  StartMayFail,   \* whether KernelSession.start() may raise
  CountCap        \* bound: request counters saturate here

ASSUME PoolAssumption ==
  /\ IsFiniteSet(Thread) /\ IsFiniteSet(Worker)
  /\ NoWorker \notin Worker
  /\ PoolSize \in Nat \ {0} /\ PoolMinIdle \in Nat
  /\ MaxRequests \in Nat /\ IdleTimeout \in Nat
  /\ StartMayFail \in BOOLEAN
  /\ CountCap \in Nat /\ CountCap >= MaxRequests

VARIABLES
  pc,        \* where each thread is inside worker()
  cur,       \* the worker each thread is dealing with
  sem,       \* value of _semaphore
  all,       \* _all_workers
  idle,      \* _idle, oldest release first
  open,      \* workers whose KernelSession holds a session
  reqs,      \* request_count of each worker in use or idle, 0 for others
  age,       \* now - last_used of each idle worker, saturated at IdleTimeout
  expired,   \* workers the reaper's stale `now` finds timed out
  reaper,    \* where the reaper thread is
  reapList,  \* to_stop of _reap_idle
  reapStop,  \* the event _reaper_stop
  main,      \* where the caller of stop() is
  stopList,  \* `workers` of stop()
  lost       \* history: workers whose start() raised in _acquire

callVars  == <<pc, cur>>
poolVars  == <<sem, all, idle>>
workVars  == <<open, reqs, age>>
reapVars  == <<expired, reaper, reapList, reapStop>>
stopVars  == <<main, stopList>>
vars == <<callVars, poolVars, workVars, reapVars, stopVars, lost>>

(* pool.py:58, pool.py:76 *)
MinIdle == IF PoolMinIdle < 1 THEN 1
           ELSE IF PoolMinIdle > PoolSize THEN PoolSize ELSE PoolMinIdle
HasReaper == IdleTimeout > 0 /\ PoolSize > MinIdle

Phase == {"out", "wait", "take", "start", "use", "cleanup", "bump",
          "release", "stopOld", "signal"}

(* The threads that hold a permit, and those that hold a worker which is   *)
(* neither idle nor given up.                                              *)
HoldsPermit == {"take", "start", "use", "cleanup", "bump", "release",
                "stopOld", "signal"}
HoldsWorker == {"start", "use", "cleanup", "bump", "release"}
Permitted == {t \in Thread : pc[t] \in HoldsPermit}
Busy      == {t \in Thread : pc[t] \in HoldsWorker}

Pooled   == {idle[i] : i \in DOMAIN idle}
Held     == {cur[t] : t \in Busy}
Recycled == {cur[t] : t \in {u \in Thread : pc[u] = "stopOld"}}
Retiring == Recycled \cup reapList

(* A Python object is new when nothing refers to it any more. *)
Fresh == Worker \ (all \cup Pooled \cup Held \cup Retiring \cup stopList
                       \cup lost \cup open)

(* The workers whose present last_used the reaper may still read. *)
Aging == Pooled \cup {cur[t] : t \in {u \in Thread : pc[u] = "release"}}

Init ==
  /\ pc = [t \in Thread |-> "out"]
  /\ cur = [t \in Thread |-> NoWorker]
  /\ sem = PoolSize
  /\ idle \in {s \in [1..MinIdle -> Worker] :
                 \A i, j \in 1..MinIdle : s[i] = s[j] => i = j}
  /\ all = Pooled
  /\ open = {}
  /\ reqs = [w \in Worker |-> 0]
  /\ age = [w \in Worker |-> 0]
  /\ expired = {}
  /\ reaper = IF HasReaper THEN "wait" ELSE "none"
  /\ reapList = {}
  /\ reapStop = FALSE
  /\ main = "serving"
  /\ stopList = {}
  /\ lost = {}

-----------------------------------------------------------------------------
(* One tool call: worker(), _acquire, _cleanup, _release.                  *)

Goto(t, from, to) == pc[t] = from /\ pc' = [pc EXCEPT ![t] = to]

(* Nobody reads the fields of these workers again. *)
Forget(f, S) == [w \in Worker |-> IF w \in S THEN 0 ELSE f[w]]

Call(t) ==
  /\ Goto(t, "out", "wait")
  /\ UNCHANGED <<cur, poolVars, workVars, reapVars, stopVars, lost>>

(* A mutant: the permit is taken without waiting for one. *)
NoWait == TRUE
Available == sem > 0

(* _semaphore.acquire() *)
AcquirePermit(t) ==
  /\ Available
  /\ sem' = sem - 1
  /\ Goto(t, "wait", "take")
  /\ UNCHANGED <<cur, all, idle, workVars, reapVars, stopVars, lost>>

(* A mutant: _idle[-1] instead of _idle.pop(). *)
Unpopped == idle
Popped == SubSeq(idle, 1, Len(idle) - 1)

(* The lock block of _acquire: pop the most recently released worker ...   *)
TakeIdle(t) ==
  /\ idle # <<>>
  /\ Goto(t, "take", "start")
  /\ cur' = [cur EXCEPT ![t] = idle[Len(idle)]]
  /\ idle' = Popped
  /\ age' = Forget(age, {idle[Len(idle)]})
  /\ UNCHANGED <<sem, all, open, reqs, reapVars, stopVars, lost>>

(* ... or create one, with request_count 0. *)
TakeNew(t) ==
  /\ idle = <<>>
  /\ Goto(t, "take", "start")
  /\ \E w \in Fresh :
       /\ cur' = [cur EXCEPT ![t] = w]
       /\ all' = all \cup {w}
  /\ UNCHANGED <<sem, idle, workVars, reapVars, stopVars, lost>>

(* Outside the lock a call starts the session of its worker, which is a    *)
(* no-op if it is open, and evaluates on it, which starts one that is not, *)
(* whoever closed it (_ensure_started).  When this ends the session is     *)
(* open, unless stop(), which asks nobody, has closed it meanwhile; that   *)
(* it did so earlier than that is not told apart.  And when a start raised *)
(* in it, also one that an evaluation made, the session may be open or not:*)
(* KernelSession.start assigns _session before it starts the kernel, but   *)
(* making the session may raise, too.                                      *)
ThroughStop == Worker \ (all \cup stopList)
Opens(w) ==
  \/ open' = open \cup {w}
  \/ w \in ThroughStop /\ UNCHANGED open
Raised(w) == StartMayFail /\ open' = open \ {w}

Ends(t, from, to) ==
  Goto(t, from, to) /\ UNCHANGED <<cur, poolVars, reqs, age, reapVars, stopVars, lost>>

(* w.session.start() of _acquire, the body of the with block, and _cleanup,*)
(* one more evaluate whose exceptions are swallowed.                       *)
Start(t)   == Ends(t, "start", "use") /\ Opens(cur[t])
Use(t)     == Ends(t, "use", "cleanup") /\ (Opens(cur[t]) \/ Raised(cur[t]))
Cleanup(t) == Ends(t, "cleanup", "bump") /\ (Opens(cur[t]) \/ Raised(cur[t]))

(* start() raises: _acquire has no try, so the permit is not given back    *)
(* and the worker stays in _all_workers.                                   *)
StartRaises(t) ==
  /\ StartMayFail
  /\ cur[t] \notin open
  /\ Goto(t, "start", "out")
  /\ lost' = lost \cup {cur[t]}
  /\ reqs' = Forget(reqs, {cur[t]})
  /\ cur' = [cur EXCEPT ![t] = NoWorker]
  /\ UNCHANGED <<poolVars, age, reapVars, stopVars>>
StartFails(t) == StartRaises(t) /\ (Opens(cur[t]) \/ Raised(cur[t]))

(* request_count += 1, last_used = now *)
Bump(t) ==
  /\ Goto(t, "bump", "release")
  /\ reqs' = [reqs EXCEPT ![cur[t]] = IF @ < CountCap THEN @ + 1 ELSE @]
  /\ age' = [age EXCEPT ![cur[t]] = 0]
  /\ expired' = expired \ {cur[t]}
  /\ UNCHANGED <<cur, poolVars, open, reaper, reapList, reapStop, stopVars,
                 lost>>

(* A mutant: `>` for `>=`. *)
RecycleLate(w) == MaxRequests > 0 /\ reqs[w] > MaxRequests

(* request_count >= max_requests *)
Recycle(w) == MaxRequests > 0 /\ reqs[w] >= MaxRequests

(* The lock block of _release: back to _idle ... *)
ReleaseBack(t) ==
  /\ Goto(t, "release", "signal")
  /\ ~Recycle(cur[t])
  /\ idle' = Append(idle, cur[t])
  /\ cur' = [cur EXCEPT ![t] = NoWorker]
  /\ UNCHANGED <<sem, all, workVars, reapVars, stopVars, lost>>

(* Mutants: the old worker is put back into _idle; it stays in             *)
(* _all_workers; its replacement is not appended to _all_workers.          *)
ReplacedByItself(old, new) == all' = all /\ idle' = Append(idle, old)
ReplacedListed(old, new) == all' = all \cup {new} /\ idle' = Append(idle, new)
ReplacedUnlisted(old, new) == all' = all \ {old} /\ idle' = Append(idle, new)
Replaced(old, new) ==
  all' = (all \ {old}) \cup {new} /\ idle' = Append(idle, new)

(* ... or recycled: the old worker leaves _all_workers if it is there, its *)
(* replacement is available before the old kernel is stopped.              *)
ReleaseRecycle(t) ==
  /\ Goto(t, "release", "stopOld")
  /\ Recycle(cur[t])
  /\ \E w \in Fresh : Replaced(cur[t], w)
  /\ reqs' = Forget(reqs, {cur[t]})
  /\ age' = Forget(age, {cur[t]})
  /\ UNCHANGED <<cur, sem, open, reapVars, stopVars, lost>>

(* A mutant: the session of a worker is not stopped. *)
Forgotten(w) == UNCHANGED open
Closed(w) == open' = open \ {w}

(* worker.session.stop(), outside the lock *)
OldEnds(t) ==
  /\ Goto(t, "stopOld", "signal")
  /\ cur' = [cur EXCEPT ![t] = NoWorker]
  /\ UNCHANGED <<poolVars, reqs, age, reapVars, stopVars, lost>>
StopOld(t) == OldEnds(t) /\ Closed(cur[t])

(* A mutant: an early return before _semaphore.release(). *)
NotGivenBack == sem
GivenBack == sem + 1

(* _semaphore.release() *)
Signal(t) ==
  /\ Goto(t, "signal", "out")
  /\ sem' = GivenBack
  /\ UNCHANGED <<cur, all, idle, workVars, reapVars, stopVars, lost>>

(* Without a hard timeout the kernel answers or not, and _cleanup has none.*)
Evaluates(t) == Use(t) \/ Cleanup(t)
Moves(t) ==
  \/ AcquirePermit(t) \/ TakeIdle(t) \/ TakeNew(t) \/ Start(t)
  \/ StartFails(t) \/ Bump(t) \/ ReleaseBack(t)
  \/ ReleaseRecycle(t) \/ StopOld(t) \/ Signal(t)
CallStep(t) == Moves(t) \/ Evaluates(t)

-----------------------------------------------------------------------------
(* The reaper thread: _reaper_loop and _reap_idle.                         *)

(* wait(timeout=30) returned and the event is not set: read the clock.     *)
(* The lock is taken later, so what this `now` says can be stale by then.  *)
ReaperNow ==
  /\ reaper = "wait" /\ ~reapStop
  /\ reaper' = "reap"
  /\ expired' = {w \in Aging : age[w] >= IdleTimeout}
  /\ UNCHANGED <<callVars, poolVars, workVars, reapList, reapStop, stopVars,
                 lost>>

ReaperExit ==
  /\ reaper = "wait" /\ reapStop
  /\ reaper' = "exited"
  /\ UNCHANGED <<callVars, poolVars, workVars, expired, reapList, reapStop,
                 stopVars, lost>>

(* A mutant: `> self._min_idle + 1`. *)
ExcessButOne(n) == n > MinIdle + 1
Excess(n) == n > MinIdle

(* The while loop of _reap_idle would take the first n idle workers.       *)
Reapable(n) ==
  /\ n \in 0..Len(idle)
  /\ n > 0 => Excess(Len(idle) - (n - 1))
  /\ \A i \in 1..n : idle[i] \in expired

Prefix(n) == {idle[i] : i \in 1..n}

(* It takes them all: the next one is not expired or not in excess.        *)
ReapIdle ==
  /\ reaper = "reap"
  /\ \E n \in 0..Len(idle) :
       /\ Reapable(n) /\ ~Reapable(n + 1)
       /\ Prefix(n) \subseteq all
       /\ idle' = SubSeq(idle, n + 1, Len(idle))
       /\ all' = all \ Prefix(n)
       /\ reapList' = Prefix(n)
       /\ reqs' = Forget(reqs, Prefix(n)) /\ age' = Forget(age, Prefix(n))
  /\ reaper' = "stopping"
  /\ expired' = {}
  /\ UNCHANGED <<callVars, sem, open, reapStop, stopVars, lost>>

(* _all_workers.remove(w) raises ValueError for the n-th, already popped   *)
(* from _idle: the thread ends, and the n-1 workers of to_stop with it.    *)
ReaperDies ==
  /\ reaper = "reap"
  /\ \E n \in 1..Len(idle) :
       /\ Reapable(n)
       /\ Prefix(n - 1) \subseteq all /\ idle[n] \notin all
       /\ idle' = SubSeq(idle, n + 1, Len(idle))
       /\ all' = all \ Prefix(n - 1)
       /\ reqs' = Forget(reqs, Prefix(n)) /\ age' = Forget(age, Prefix(n))
  /\ reaper' = "dead"
  /\ expired' = {}
  /\ UNCHANGED <<callVars, sem, open, reapList, reapStop, stopVars, lost>>

ReapedEnds(w) ==
  /\ reaper = "stopping"
  /\ reapList' = reapList \ {w}
  /\ UNCHANGED <<callVars, poolVars, reqs, age, expired, reaper, reapStop,
                 stopVars, lost>>
ReaperStopOne == \E w \in reapList : ReapedEnds(w) /\ Closed(w)

ReaperDone ==
  /\ reaper = "stopping" /\ reapList = {}
  /\ reaper' = "wait"
  /\ UNCHANGED <<callVars, poolVars, workVars, expired, reapList, reapStop,
                 stopVars, lost>>

ReaperStep == ReaperNow \/ ReaperExit \/ ReapIdle \/ ReaperDies
              \/ ReaperStopOne \/ ReaperDone

-----------------------------------------------------------------------------
(* stop(), called once, by a thread that is not a tool call.               *)

StopBegins ==
  /\ main = "serving"
  /\ main' = IF HasReaper THEN "join" ELSE "clear"
  /\ reapStop' = HasReaper
  /\ UNCHANGED <<callVars, poolVars, workVars, expired, reaper, reapList,
                 stopList, lost>>

(* join(timeout=5) returns when the thread has ended, or after 5 seconds.  *)
Joined ==
  /\ main = "join"
  /\ main' = "clear"
  /\ UNCHANGED <<callVars, poolVars, workVars, reapVars, stopList, lost>>

StopClears ==
  /\ main = "clear"
  /\ main' = "stopping"
  /\ stopList' = all
  /\ all' = {} /\ idle' = <<>>
  /\ reqs' = Forget(reqs, Pooled) /\ age' = Forget(age, Pooled)
  /\ UNCHANGED <<callVars, sem, open, reapVars, lost>>

ListedEnds(w) ==
  /\ main = "stopping"
  /\ stopList' = stopList \ {w}
  /\ UNCHANGED <<callVars, poolVars, reqs, age, reapVars, main, lost>>
StopOne == \E w \in stopList : ListedEnds(w) /\ Closed(w)

StopReturns ==
  /\ main = "stopping" /\ stopList = {}
  /\ main' = "stopped"
  /\ UNCHANGED <<callVars, poolVars, workVars, reapVars, stopList, lost>>

StopStep == Joined \/ StopClears \/ StopOne \/ StopReturns

-----------------------------------------------------------------------------
(* Time passes. *)
Tick ==
  /\ \E w \in Aging : age[w] < IdleTimeout
  /\ age' = [w \in Worker |-> IF w \in Aging /\ age[w] < IdleTimeout
                              THEN age[w] + 1 ELSE age[w]]
  /\ UNCHANGED <<callVars, poolVars, open, reqs, reapVars, stopVars, lost>>

Next ==
  \/ \E t \in Thread : Call(t) \/ CallStep(t)
  \/ ReaperStep
  \/ StopBegins \/ StopStep
  \/ Tick

Spec == Init /\ [][Next]_vars

(* A thread inside worker() keeps running, the reaper and stop() are never *)
(* suspended for good, and time passes.  No fairness for evaluations and   *)
(* cleanups, which may hang for good, for new calls, for stop() being      *)
(* called, or among the threads blocked on the semaphore.                  *)
Fairness ==
  /\ \A t \in Thread : WF_vars(Moves(t))
  /\ WF_vars(ReaperStep)
  /\ WF_vars(StopStep)
  /\ WF_vars(Tick)

FairSpec == Spec /\ Fairness
-----------------------------------------------------------------------------
(* Properties                                                              *)

(* Every variable keeps its type: what pool.py stores where. *)
TypeOK ==
  /\ pc \in [Thread -> Phase]
  /\ cur \in [Thread -> Worker \cup {NoWorker}]
  /\ sem \in Nat
  /\ all \subseteq Worker
  /\ idle \in Seq(Worker)
  /\ open \subseteq Worker
  /\ reqs \in [Worker -> Nat]
  /\ age \in [Worker -> Nat]
  /\ expired \subseteq Worker
  /\ reaper \in {"none", "wait", "reap", "stopping", "exited", "dead"}
  /\ reapList \subseteq Worker
  /\ reapStop \in BOOLEAN
  /\ main \in {"serving", "join", "clear", "stopping", "stopped"}
  /\ stopList \subseteq Worker
  /\ lost \subseteq Worker

(* "Exclusive use: no sharing" (pool.py:3-5): a worker that a call holds   *)
(* is held by no other call, is not in _idle, and is not being stopped by  *)
(* the reaper or by a recycling call, whatever they interleave with.       *)
ExclusiveUse ==
  /\ \A t, u \in Busy : cur[t] = cur[u] => t = u
  /\ Held \cap Pooled = {}
  /\ (Held \cup Pooled) \cap Retiring = {}
  /\ \A i, j \in DOMAIN idle : idle[i] = idle[j] => i = j

(* "max workers" (config.py:32): _all_workers never exceeds pool_size,     *)
(* although _acquire tests only whether _idle is empty: permits, recycled  *)
(* workers and calls in flight across stop() all have to add up.           *)
WithinPoolSize == Cardinality(all) <= PoolSize

(* Every session that is open belongs to _idle, to a call, to a failed     *)
(* start or to somebody about to stop it: no kernel process is forgotten,  *)
(* not even when stop() ends sessions of calls in flight, which open them  *)
(* again, or when the reaper dies of a ValueError after that.              *)
NoForgottenKernel ==
  open \subseteq Pooled \cup Held \cup Retiring \cup stopList \cup lost

(* Apart from kernels about to be stopped, at most pool_size are open.     *)
LiveKernelBound == Cardinality(open \ (Retiring \cup stopList)) <= PoolSize

(* A worker handed to a call has served fewer than max_requests_per_worker *)
(* requests ("Restart a worker after this many evaluations", config.py:452)*)
RecycledInTime ==
  MaxRequests > 0 =>
    /\ \A w \in Pooled : reqs[w] < MaxRequests
    /\ \A t \in Busy : pc[t] # "release" => reqs[cur[t]] < MaxRequests

(* `self._all_workers.remove(w)` in the reaper cannot raise, hence cannot  *)
(* end the reaper thread, before stop() has emptied the list.              *)
ReaperSurvives ==
  main \in {"serving", "join", "clear"} => Pooled \subseteq all /\ reaper # "dead"

(* The permits: each is available, held by a call inside worker(), or was  *)
(* leaked by a start() that raised.                                        *)
PermitsAccounted == sem + Cardinality(Permitted) + Cardinality(lost) = PoolSize

(* The pool implements its promise; a worker is leased while the body of   *)
(* the with statement, the cleanup and the counter update run.             *)
LeaseOf == [t \in Thread |-> IF pc[t] \in {"use", "cleanup", "bump"}
                             THEN cur[t] ELSE NoWorker]
Lease == INSTANCE WorkerLease WITH lease <- LeaseOf, served <- reqs,
                                   Size <- PoolSize
LeaseSpec == Lease!Spec

(* Permits keep coming back: however calls, failed starts, recycling and   *)
(* the reaper interleave, a pool without a permit gets one again, unless   *)
(* each of them is leaked or with a call that never leaves its evaluation  *)
(* or cleanup (pool.py:108, 195: no timeout): a call that hangs for good   *)
(* costs the others its own permit and no more.                            *)
InKernel(t) == pc[t] \in {"use", "cleanup"}
HangsForGood(T) ==
  \A t \in Thread : IF t \in T THEN <>[]InKernel(t) ELSE []<>~InKernel(t)
PermitsRecirculate ==
  \A T \in SUBSET Thread :
    HangsForGood(T) => []<>(sem > 0 \/ Cardinality(lost) + Cardinality(T) = PoolSize)

(* "workers beyond pool_min_idle are shut down after idle timeout"         *)
(* (ARCHITECTURE.md:165): unless calls or stop() keep coming, excess idle  *)
(* workers and their kernels go away.                                      *)
Quiet == main = "serving" /\ \A t \in Thread : pc[t] \in {"out", "wait"}
ExcessReclaimed ==
  HasReaper => (<>[]Quiet => <>[](Len(idle) <= MinIdle /\ reapList = {}))

(* "blocks if at capacity" (pool.py:149): a call waits only while every    *)
(* worker is in use.                                                       *)
BlocksOnlyAtCapacity ==
  (\E t \in Thread : pc[t] = "wait") /\ sem = 0
     => Cardinality(Permitted) = PoolSize
=============================================================================
