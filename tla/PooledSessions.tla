--------------------------- MODULE PooledSessions ---------------------------
(***************************************************************************)
(* The pool over its sessions.  KernelPool takes an operation on a session *)
(* for one step.  Here the session of every worker is an OpenSession, and  *)
(* its steps are those of the pool: an operation has a beginning, effects  *)
(* and an end, with the steps of everybody else in between, those of       *)
(* stop() on the same session included.  live is what there really is;     *)
(* open is what it was when an operation on the session last ended, which  *)
(* is all that KernelPool knows.                                           *)
(***************************************************************************)
EXTENDS KernelPool

VARIABLES
  live,    \* workers whose session is open
  done,    \* threads whose operation under way has taken effect
  raised   \* threads and workers: the last operation of one on the other raised

sessVars   == <<live, done, raised>>
pooledVars == <<vars, sessVars>>

Operating == {t \in Thread : pc[t] \in {"start", "use", "cleanup"}}

PooledInit == Init /\ live = {} /\ done = {} /\ raised = {}

-----------------------------------------------------------------------------
(* What the parties of the pool do with the session of w: the calls, the   *)
(* reaper, and the thread in stop().                                       *)

Caller(t) == <<"call", t>>
ReaperThread == <<"thread", "reaper">>
Stopper      == <<"thread", "stop">>
Party == {Caller(t) : t \in Thread} \cup {ReaperThread, Stopper}

CallOp(t, w) ==
  IF cur[t] # w THEN "none"
  ELSE IF pc[t] = "start" THEN "start"
  ELSE IF pc[t] \in {"use", "cleanup"} THEN "evaluate"
  ELSE IF pc[t] = "stopOld" THEN "stop" ELSE "none"

OpOn(w) == [p \in Party |->
  IF p = ReaperThread THEN IF w \in reapList THEN "stop" ELSE "none"
  ELSE IF p = Stopper THEN IF w \in stopList THEN "stop" ELSE "none"
  ELSE CallOp(p[2], w)]
DoneOn(w) == [p \in Party |-> \E t \in done : p = Caller(t) /\ cur[t] = w]
RaisedOn(w) == {Caller(t) : t \in {u \in Thread : <<u, w>> \in raised}}

SessionOf(w) == INSTANCE OpenSession WITH User <- Party, MayFail <- StartMayFail,
                                          open <- w \in live, op <- OpOn(w),
                                          done <- DoneOn(w), raised <- RaisedOn(w)

-----------------------------------------------------------------------------
(* The steps of the session of w, and those of the pool that go with them. *)

Changes(w) == live' \in {live \cup {w}, live \ {w}}
Seen(w) == open' = (open \ {w}) \cup (live' \cap {w})

(* Inside an operation of a call.                                          *)
Works(t, w) ==
  /\ cur[t] = w /\ UNCHANGED vars
  /\ Changes(w) /\ done' \in {done \cup {t}, done \ {t}} /\ UNCHANGED raised
  /\ SessionOf(w)!TakesEffect(Caller(t)) \/ SessionOf(w)!StartsOver(Caller(t))

(* An operation of a call returns ...                                      *)
CallReturns(t, w) ==
  /\ \/ Ends(t, "start", "use") \/ Ends(t, "use", "cleanup")
     \/ Ends(t, "cleanup", "bump") \/ OldEnds(t)
  /\ SessionOf(w)!Returns(Caller(t))
  /\ raised' = raised \ {<<t, w>>}

(* ... or raises: the pool gives up on a start, and only on a start.       *)
CallRaises(t, w) ==
  /\ StartRaises(t) \/ Ends(t, "use", "cleanup") \/ Ends(t, "cleanup", "bump")
  /\ SessionOf(w)!Raises(Caller(t))
  /\ raised' = raised \cup {<<t, w>>}

CallEnds(t, w) ==
  /\ CallReturns(t, w) \/ CallRaises(t, w)
  /\ cur[t] = w /\ Changes(w) /\ done' = done \ {t} /\ Seen(w)

(* A stop() of the session by the reaper, or by stop() of the pool.        *)
ThreadReturns(w) ==
  /\ Changes(w) /\ UNCHANGED <<done, raised>>
  /\ \/ ReapedEnds(w) /\ SessionOf(w)!Returns(ReaperThread)
     \/ ListedEnds(w) /\ SessionOf(w)!Returns(Stopper)
  /\ Seen(w)

(* The pool begins an operation, or does what concerns no session.         *)
Elsewhere ==
  /\ \/ \E t \in Thread :
          \/ Call(t) \/ AcquirePermit(t) \/ TakeIdle(t) \/ TakeNew(t) \/ Bump(t)
          \/ ReleaseBack(t) \/ ReleaseRecycle(t) \/ Signal(t)
     \/ ReaperNow \/ ReaperExit \/ ReapIdle \/ ReaperDies \/ ReaperDone
     \/ StopBegins \/ Joined \/ StopClears \/ StopReturns \/ Tick
  /\ UNCHANGED sessVars

PooledNext ==
  \/ \E w \in Worker : \/ \E t \in Thread : Works(t, w) \/ CallEnds(t, w)
                       \/ ThreadReturns(w)
  \/ Elsewhere

PooledSpec == PooledInit /\ [][PooledNext]_pooledVars

-----------------------------------------------------------------------------
(* Properties                                                              *)

(* No kernel is forgotten: a session that is open belongs to _idle, to a   *)
(* call, to a failed start, or to somebody about to stop it, however the   *)
(* operations on sessions and stop() overlap (pool.py:98-127, 148-201).    *)
NoSessionForgotten ==
  live \subseteq Pooled \cup Held \cup Retiring \cup stopList \cup lost

(* Apart from kernels about to be stopped, at most pool_size are open at   *)
(* any time, also while operations on their sessions are under way.        *)
SessionBound == Cardinality(live \ (Retiring \cup stopList)) <= PoolSize
=============================================================================
