------------------------- MODULE WorkerLife_proofs -------------------------
(***************************************************************************)
(* KernelPool: the life of a worker, for every number of threads and       *)
(* workers, every pool size and every limit on requests.  First leases:    *)
(* KernelPool implements WorkerLease, for which the invariants of          *)
(* KernelPool_proofs need one more about request_count.  Then the lists:   *)
(* as long as stop() has not emptied them they agree, and no kernel is     *)
(* ever forgotten.  Last the sessions: PooledSessions, where operations on *)
(* a session take time, implements KernelPool, where each is one step, and *)
(* OpenSession for each worker, so nothing is lost by taking them for one. *)
(***************************************************************************)
EXTENDS KernelPool_proofs, PooledSessions

(* Small helpers are expanded everywhere. *)
USE DEF Available, Popped, GivenBack, Replaced, Closed, Excess,
        Ends, StartRaises, OldEnds, ReapedEnds, ListedEnds

-----------------------------------------------------------------------------
(* The operations on _idle, by their members.                              *)

LEMMA PopPooled ==
  ASSUME TypeInv, idle # <<>>, idle' = Popped
  PROVE  /\ idle[Len(idle)] \in Pooled
         /\ Pooled = Pooled' \cup {idle[Len(idle)]}
  <1>1. /\ idle \in Seq(Worker) /\ Len(idle) \in Nat /\ DOMAIN idle = 1..Len(idle)
        /\ idle' \in Seq(Worker) /\ DOMAIN idle' = 1..Len(idle')
        /\ Len(idle') \in Nat
        /\ Len(idle') = Len(idle) - 1 /\ Len(idle) \in 1..Len(idle)
        /\ \A i \in 1..Len(idle') : idle'[i] = idle[i]
    <2>1. idle \in Seq(Worker)
      BY DEF TypeInv, TypeOK
    <2>2. /\ idle' \in Seq(Worker)
          /\ Len(idle') = Len(idle) - 1 /\ Len(idle) \in 1..Len(idle)
          /\ \A i \in 1..Len(idle') : idle'[i] = idle[i]
      BY <2>1, FrontFacts
    <2> QED
      BY <2>1, <2>2
  <1>2. /\ \A i \in 1..Len(idle') : i \in 1..Len(idle)
        /\ \A i \in 1..Len(idle) : i \in 1..Len(idle') \/ i = Len(idle)
    BY <1>1, Positions
  <1> QED
    BY <1>1, <1>2 DEF Pooled

LEMMA AppendPooled ==
  ASSUME TypeInv, NEW w \in Worker, idle' = Append(idle, w)
  PROVE  Pooled' = Pooled \cup {w}
  <1>1. /\ idle \in Seq(Worker) /\ Len(idle) \in Nat /\ DOMAIN idle = 1..Len(idle)
        /\ DOMAIN idle' = 1..Len(idle') /\ Len(idle') \in Nat
        /\ Len(idle') = Len(idle) + 1
        /\ \A i \in 1..Len(idle) : idle'[i] = idle[i]
        /\ idle'[Len(idle) + 1] = w
    <2>1. idle \in Seq(Worker)
      BY DEF TypeInv, TypeOK
    <2>2. /\ idle' \in Seq(Worker)
          /\ Len(idle') = Len(idle) + 1
          /\ \A i \in 1..Len(idle) : idle'[i] = idle[i]
          /\ idle'[Len(idle) + 1] = w
      BY <2>1, AppendFacts
    <2> QED
      BY <2>1, <2>2
  <1>2. /\ \A i \in 1..Len(idle') : i \in 1..Len(idle) \/ i = Len(idle) + 1
        /\ \A i \in 1..Len(idle) : i \in 1..Len(idle')
        /\ Len(idle) + 1 \in 1..Len(idle')
    BY <1>1
  <1> QED
    BY <1>1, <1>2 DEF Pooled

LEMMA CutPooled ==
  ASSUME TypeInv, NEW n \in 0..Len(idle), idle' = SubSeq(idle, n + 1, Len(idle))
  PROVE  /\ Prefix(n) \subseteq Pooled
         /\ Pooled' \subseteq Pooled
         /\ Pooled \subseteq Pooled' \cup Prefix(n)
  <1>1. /\ idle \in Seq(Worker) /\ Len(idle) \in Nat /\ DOMAIN idle = 1..Len(idle)
        /\ DOMAIN idle' = 1..Len(idle') /\ Len(idle') \in Nat
        /\ Len(idle') = Len(idle) - n
        /\ \A i \in 1..Len(idle') : idle'[i] = idle[i + n]
    <2>1. idle \in Seq(Worker)
      BY DEF TypeInv, TypeOK
    <2>2. /\ idle' \in Seq(Worker)
          /\ Len(idle') = Len(idle) - n
          /\ \A i \in 1..Len(idle') : idle'[i] = idle[i + n]
      BY <2>1, SuffixFacts
    <2> QED
      BY <2>1, <2>2
  <1>n. Len(idle) \in Nat /\ Len(idle') \in Nat /\ Len(idle') = Len(idle) - n
    BY <1>1
  <1>2. \A i \in 1..n : i \in 1..Len(idle)
    BY <1>n
  <1>3. /\ \A i \in 1..Len(idle') : i + n \in 1..Len(idle)
        /\ \A i \in 1..Len(idle) : i \notin 1..n =>
             i - n \in 1..Len(idle') /\ (i - n) + n = i
    BY <1>n, Positions
  <1>4. \A i \in 1..Len(idle) : i \notin 1..n => idle[i] \in Pooled'
    BY <1>1, <1>3 DEF Pooled
  <1>5. Prefix(n) \subseteq Pooled
    BY <1>1, <1>2 DEF Pooled, Prefix
  <1>6. Pooled' \subseteq Pooled
    <2>1. \A i \in 1..Len(idle') : idle'[i] \in Pooled
      BY <1>1, <1>3 DEF Pooled
    <2> QED
      BY <1>1, <2>1 DEF Pooled
  <1>7. Pooled \subseteq Pooled' \cup Prefix(n)
    BY <1>1, <1>4 DEF Pooled, Prefix
  <1> QED
    BY <1>5, <1>6, <1>7

-----------------------------------------------------------------------------
(* Request counts.  A count that is not 0 is that of a worker in use or    *)
(* idle, so a worker that is created starts with 0.                        *)

ReqInv ==
  /\ \A w \in Worker : w \in Pooled \cup Held \/ reqs[w] = 0
  /\ RecycledInTime

(* No step makes the count of a worker grow except Bump, and then the      *)
(* worker has one owner, who decides next whether it is recycled.          *)
LEMMA NextReq == TypeInv /\ OwnInv /\ ReqInv /\ [Next]_vars => ReqInv'
  <1> SUFFICES ASSUME TypeInv, OwnInv, ReqInv, [Next]_vars PROVE ReqInv'
    OBVIOUS
  <1>0. /\ reqs \in [Worker -> Nat] /\ MaxRequests \in Nat
        /\ pc \in [Thread -> Phase] /\ cur \in [Thread -> Worker \cup {NoWorker}]
        /\ \A t \in Busy : t \in Thread /\ cur[t] \in Worker /\ cur[t] \in Held
    BY PoolAssumption DEF TypeInv, TypeOK, CurInv, Busy, Held
  <1>x. ExclusiveUse
    BY OwnGivesExclusive
  <1>r. \A w \in Worker : w \in Pooled \cup Held \/ reqs[w] = 0
    BY DEF ReqInv
  <1>l. MaxRequests > 0 =>
          /\ \A w \in Pooled : reqs[w] < MaxRequests
          /\ \A t \in Busy : pc[t] # "release" => reqs[cur[t]] < MaxRequests
    BY DEF ReqInv, RecycledInTime
  (* Threads move, but not into "release"; no worker does. *)
  <1>s. ASSUME UNCHANGED <<idle, reqs>>, Busy' = Busy,
               \A t \in Busy : /\ cur'[t] = cur[t]
                               /\ pc'[t] # "release" => pc[t] # "release"
        PROVE  ReqInv'
    BY <1>s, <1>r, <1>l DEF ReqInv, RecycledInTime, Pooled, Held
  (* Idle workers go away, with their counts. *)
  <1>d. ASSUME NEW S \in SUBSET Pooled, Pooled' \subseteq Pooled,
               Pooled \subseteq Pooled' \cup S,
               reqs' = Forget(reqs, S), UNCHANGED callVars
        PROVE  ReqInv'
    <2>1. Busy' = Busy /\ Held' = Held /\ UNCHANGED <<pc, cur>>
      BY <1>d DEF callVars, Busy, Held
    <2>2. \A w \in Worker : reqs'[w] = IF w \in S THEN 0 ELSE reqs[w]
      BY <1>d DEF Forget
    <2>3. \A w \in Worker : w \in Pooled' \cup Held' \/ reqs'[w] = 0
      BY <1>d, <1>r, <2>1, <2>2
    <2>4. Pooled \subseteq Worker
      BY DEF Pooled, TypeInv, TypeOK
    <2>5. MaxRequests > 0 =>
            /\ \A w \in Pooled' : reqs'[w] < MaxRequests
            /\ \A t \in Busy' : pc'[t] # "release" => reqs'[cur'[t]] < MaxRequests
      BY <1>d, <1>0, <1>l, <2>1, <2>2, <2>4
    <2> QED
      BY <2>3, <2>5 DEF ReqInv, RecycledInTime
  <1>1. ASSUME NEW t \in Thread,
               Call(t) \/ AcquirePermit(t) \/ Start(t) \/ Use(t) \/ Cleanup(t)
               \/ StopOld(t) \/ Signal(t)
        PROVE  ReqInv'
    <2>1. /\ Busy' = Busy
          /\ \A u \in Busy : /\ cur'[u] = cur[u]
                             /\ pc'[u] # "release" => pc[u] # "release"
      BY <1>1, <1>0 DEF Call, AcquirePermit, Start, Use, Cleanup, StopOld,
                        Signal, Goto, Busy, HoldsWorker
    <2>2. UNCHANGED <<idle, reqs>>
      BY <1>1 DEF Call, AcquirePermit, Start, Use, Cleanup, StopOld, Signal,
                  poolVars, workVars
    <2> QED
      BY <1>s, <2>1, <2>2
  <1>2. ASSUME NEW t \in Thread, TakeIdle(t) PROVE ReqInv'
    <2>1. /\ idle[Len(idle)] \in Pooled
          /\ Pooled = Pooled' \cup {idle[Len(idle)]}
      BY <1>2, PopPooled DEF TakeIdle
    <2>2. /\ Busy' = Busy \cup {t} /\ cur'[t] = idle[Len(idle)]
          /\ \A u \in Busy : u # t /\ cur'[u] = cur[u] /\ pc'[u] = pc[u]
      BY <1>2, <1>0 DEF TakeIdle, Goto, Busy, HoldsWorker
    <2>3. Held' = Held \cup {idle[Len(idle)]}
      BY <2>2 DEF Held
    <2>4. UNCHANGED reqs
      BY <1>2 DEF TakeIdle
    <2> QED
      BY <1>r, <1>l, <2>1, <2>2, <2>3, <2>4 DEF ReqInv, RecycledInTime
  <1>3. ASSUME NEW t \in Thread, TakeNew(t) PROVE ReqInv'
    <2>1. PICK w \in Fresh : cur' = [cur EXCEPT ![t] = w]
      BY <1>3 DEF TakeNew
    <2>2. w \in Worker /\ w \notin Pooled \cup Held /\ reqs[w] = 0
      BY <2>1, <1>r DEF Fresh
    <2>3. /\ Busy' = Busy \cup {t} /\ cur'[t] = w
          /\ \A u \in Busy : u # t /\ cur'[u] = cur[u] /\ pc'[u] = pc[u]
      BY <1>3, <2>1, <1>0 DEF TakeNew, Goto, Busy, HoldsWorker
    <2>4. Held' = Held \cup {w}
      BY <2>3 DEF Held
    <2>5. UNCHANGED reqs /\ Pooled' = Pooled
      BY <1>3 DEF TakeNew, workVars, Pooled
    <2> QED
      BY <1>0, <1>r, <1>l, <2>2, <2>3, <2>4, <2>5 DEF ReqInv, RecycledInTime
  <1>4. ASSUME NEW t \in Thread, StartFails(t) PROVE ReqInv'
    <2>1. /\ t \in Busy /\ Busy' = Busy \ {t}
          /\ \A u \in Busy' : cur'[u] = cur[u] /\ pc'[u] = pc[u]
      BY <1>4, <1>0 DEF StartFails, Goto, Busy, HoldsWorker
    <2>2. Held \subseteq Held' \cup {cur[t]}
      BY <2>1 DEF Held
    <2>3. \A w \in Worker : reqs'[w] = IF w = cur[t] THEN 0 ELSE reqs[w]
      BY <1>4 DEF StartFails, Forget
    <2>4. Pooled' = Pooled /\ Pooled \subseteq Worker
      BY <1>4 DEF StartFails, poolVars, Pooled, TypeInv, TypeOK
    <2>5. \A w \in Worker : w \in Pooled' \cup Held' \/ reqs'[w] = 0
      BY <1>r, <2>2, <2>3, <2>4
    <2>6. MaxRequests > 0 =>
            /\ \A w \in Pooled' : reqs'[w] < MaxRequests
            /\ \A u \in Busy' : pc'[u] # "release" => reqs'[cur'[u]] < MaxRequests
      BY <1>0, <1>l, <2>1, <2>3, <2>4
    <2> QED
      BY <2>5, <2>6 DEF ReqInv, RecycledInTime
  <1>5. ASSUME NEW t \in Thread, Bump(t) PROVE ReqInv'
    <2>1. /\ t \in Busy /\ Busy' = Busy /\ cur' = cur /\ pc'[t] = "release"
          /\ \A u \in Busy : u # t => pc'[u] = pc[u]
      BY <1>5, <1>0 DEF Bump, Goto, Busy, HoldsWorker
    <2>2. Held' = Held /\ Pooled' = Pooled /\ Pooled \subseteq Worker
      BY <1>5, <2>1 DEF Bump, poolVars, Held, Pooled, TypeInv, TypeOK
    <2>3. \A w \in Worker : w # cur[t] => reqs'[w] = reqs[w]
      BY <1>5, <1>0 DEF Bump
    <2>4. cur[t] \in Held /\ cur[t] \notin Pooled
          /\ \A u \in Busy : u # t => cur[u] # cur[t]
      BY <1>x, <1>0, <2>1 DEF ExclusiveUse
    <2>5. \A w \in Worker : w \in Pooled' \cup Held' \/ reqs'[w] = 0
      BY <1>r, <2>2, <2>3, <2>4
    <2>6. MaxRequests > 0 =>
            /\ \A w \in Pooled' : reqs'[w] < MaxRequests
            /\ \A u \in Busy' : pc'[u] # "release" => reqs'[cur'[u]] < MaxRequests
      BY <1>0, <1>l, <2>1, <2>2, <2>3, <2>4
    <2> QED
      BY <2>5, <2>6 DEF ReqInv, RecycledInTime
  <1>6. ASSUME NEW t \in Thread, ReleaseBack(t) PROVE ReqInv'
    <2>1. /\ t \in Busy /\ Busy' = Busy \ {t}
          /\ \A u \in Busy' : cur'[u] = cur[u] /\ pc'[u] = pc[u]
      BY <1>6, <1>0 DEF ReleaseBack, Goto, Busy, HoldsWorker
    <2>2. Held \subseteq Held' \cup {cur[t]}
      BY <2>1 DEF Held
    <2>3. Pooled' = Pooled \cup {cur[t]}
      BY <1>6, <1>0, <2>1, AppendPooled DEF ReleaseBack
    <2>4. UNCHANGED reqs /\ (MaxRequests > 0 => reqs[cur[t]] < MaxRequests)
      BY <1>6, <1>0, <2>1 DEF ReleaseBack, Recycle, workVars
    <2> QED
      BY <1>r, <1>l, <2>1, <2>2, <2>3, <2>4 DEF ReqInv, RecycledInTime
  <1>7. ASSUME NEW t \in Thread, ReleaseRecycle(t) PROVE ReqInv'
    <2>1. /\ t \in Busy /\ Busy' = Busy \ {t} /\ cur' = cur
          /\ \A u \in Busy' : pc'[u] = pc[u]
      BY <1>7, <1>0 DEF ReleaseRecycle, Goto, Busy, HoldsWorker
    <2>2. Held \subseteq Held' \cup {cur[t]}
      BY <2>1 DEF Held
    <2>3. PICK w \in Fresh : idle' = Append(idle, w)
      BY <1>7 DEF ReleaseRecycle
    <2>4. w \in Worker /\ reqs[w] = 0 /\ Pooled' = Pooled \cup {w}
      BY <2>3, <1>r, AppendPooled DEF Fresh
    <2>5. \A v \in Worker : reqs'[v] = IF v = cur[t] THEN 0 ELSE reqs[v]
      BY <1>7 DEF ReleaseRecycle, Forget
    <2>6. Pooled \subseteq Worker
      BY DEF Pooled, TypeInv, TypeOK
    <2>7. \A v \in Worker : v \in Pooled' \cup Held' \/ reqs'[v] = 0
      BY <1>r, <2>2, <2>4, <2>5
    <2>8. MaxRequests > 0 =>
            /\ \A v \in Pooled' : reqs'[v] < MaxRequests
            /\ \A u \in Busy' : pc'[u] # "release" => reqs'[cur'[u]] < MaxRequests
      BY <1>0, <1>l, <2>1, <2>4, <2>5, <2>6
    <2> QED
      BY <2>7, <2>8 DEF ReqInv, RecycledInTime
  <1>8. CASE ReapIdle
    <2>1. PICK n \in 0..Len(idle) : /\ idle' = SubSeq(idle, n + 1, Len(idle))
                                    /\ reqs' = Forget(reqs, Prefix(n))
      BY <1>8 DEF ReapIdle
    <2>2. UNCHANGED callVars
      BY <1>8 DEF ReapIdle
    <2> QED
      BY <1>d, <2>1, <2>2, CutPooled
  <1>9. CASE ReaperDies
    <2>1. PICK n \in 1..Len(idle) : /\ idle' = SubSeq(idle, n + 1, Len(idle))
                                    /\ reqs' = Forget(reqs, Prefix(n))
      BY <1>9 DEF ReaperDies
    <2>2. UNCHANGED callVars
      BY <1>9 DEF ReaperDies
    <2>3. n \in 0..Len(idle)
      BY DEF TypeInv, TypeOK
    <2> QED
      BY <1>d, <2>1, <2>2, <2>3, CutPooled
  <1>10. CASE StopClears
    <2>1. Pooled' = {} /\ reqs' = Forget(reqs, Pooled) /\ UNCHANGED callVars
      BY <1>10 DEF StopClears, Pooled
    <2> QED
      BY <1>d, <2>1
  <1>11. CASE UNCHANGED <<callVars, idle, reqs>>
    BY <1>11, <1>s DEF callVars, Busy
  <1>12. CASE ReaperNow \/ ReaperExit \/ ReaperStopOne \/ ReaperDone \/ StopBegins
              \/ Joined \/ StopOne \/ StopReturns \/ Tick
    BY <1>12, <1>11 DEF ReaperNow, ReaperExit, ReaperStopOne, ReaperDone,
         StopBegins, Joined, StopOne, StopReturns, Tick, poolVars, workVars
  <1>13. CASE UNCHANGED vars
    BY <1>13, <1>11 DEF vars, poolVars, workVars
  <1> QED
    BY <1>1, <1>2, <1>3, <1>4, <1>5, <1>6, <1>7, <1>8, <1>9, <1>10, <1>12, <1>13
    DEF Next, CallStep, Moves, Evaluates, ReaperStep, StopStep

PoolInv == TypeInv /\ OwnInv /\ CountInv /\ ReqInv

LEMMA Invariance == Spec => []PoolInv
  <1>1. Init => ReqInv
    <2> SUFFICES ASSUME Init PROVE ReqInv
      OBVIOUS
    <2>1. Busy = {} /\ reqs = [w \in Worker |-> 0] /\ Pooled \subseteq Worker
      <3>1. TypeInv
        BY InitType
      <3> QED
        BY <3>1 DEF Init, Busy, HoldsWorker, Pooled, TypeInv, TypeOK
    <2> QED
      BY <2>1, PoolAssumption DEF ReqInv, RecycledInTime
  <1>2. PoolInv /\ [Next]_vars => PoolInv'
    BY NextType, NextOwn, NextCount, NextReq DEF PoolInv
  <1>3. Init => PoolInv
    BY <1>1, InitType, InitOwn, InitCount DEF PoolInv
  <1> QED
    BY <1>2, <1>3, PTL DEF Spec

(* No worker is handed out once it has served max_requests_per_worker      *)
(* requests (pool.py:113-124), whatever the reaper, stop() and failed      *)
(* starts do to it and to the others.                                      *)
THEOREM Recycling == Spec => []RecycledInTime
  <1>1. PoolInv => RecycledInTime
    BY DEF PoolInv, ReqInv
  <1> QED
    BY <1>1, Invariance, PTL

-----------------------------------------------------------------------------
(* Refinement.  A lease begins when the kernel has been started and ends   *)
(* with the update of the counter; counts are reset by whoever lets go of  *)
(* a worker.  All other steps stutter.                                     *)

User == {t \in Thread : pc[t] \in {"use", "cleanup", "bump"}}

LEMMA LeaseFacts ==
  ASSUME TypeInv
  PROVE  /\ LeaseOf = [t \in Thread |-> IF t \in User THEN cur[t] ELSE NoWorker]
         /\ User \subseteq Busy /\ User \subseteq Owner /\ User \subseteq Thread
         /\ \A t \in User : cur[t] \in Worker
         /\ \A t \in Thread : LeaseOf[t] = IF t \in User THEN cur[t] ELSE NoWorker
         /\ Lease!Leased = User
  <1>1. LeaseOf = [t \in Thread |-> IF t \in User THEN cur[t] ELSE NoWorker]
    BY DEF LeaseOf, User
  <1>2. /\ User \subseteq Busy /\ User \subseteq Owner /\ User \subseteq Thread
        /\ \A t \in User : cur[t] \in Worker
    BY DEF User, Busy, Owner, HoldsWorker, TypeInv, CurInv
  <1> QED
    BY <1>1, <1>2, PoolAssumption DEF Lease!Leased

(* A worker that no user of the pool has is free. *)
LEMMA FreeFacts ==
  ASSUME TypeInv, NEW w \in Worker, \A t \in User : cur[t] # w
  PROVE  Lease!Free(w)
  BY LeaseFacts, PoolAssumption DEF Lease!Free

(* A step that leaves users and counts alone. *)
LEMMA Stutters ==
  ASSUME TypeInv, User' = User, \A t \in User : cur'[t] = cur[t], UNCHANGED reqs
  PROVE  UNCHANGED Lease!vars
  BY DEF LeaseOf, User, Lease!vars

(* A step that leaves users alone and resets the counts of workers that no *)
(* user has.                                                               *)
LEMMA Renews ==
  ASSUME TypeInv, User' = User, \A t \in User : cur'[t] = cur[t],
         NEW S \in SUBSET Worker, reqs' = Forget(reqs, S),
         \A t \in User : cur[t] \notin S
  PROVE  Lease!Next
  <1> DEFINE R == S \cap Lease!Renewable
  <1>1. \A w \in S : Lease!Free(w)
    BY FreeFacts
  <1>2. LeaseOf' = LeaseOf
    BY DEF LeaseOf, User
  <1>3. reqs' = [w \in Worker |-> IF w \in R THEN 0 ELSE reqs[w]]
    BY <1>1 DEF Forget, Lease!Renewable, TypeInv, TypeOK
  <1>4. Lease!Renew(R)
    BY <1>2, <1>3 DEF Lease!Renew
  <1> QED
    BY <1>4 DEF Lease!Next

LEMMA GrantRefines ==
  ASSUME PoolInv, NEW t \in Thread, Start(t)
  PROVE  Lease!Next
  <1>0. TypeInv /\ OwnInv /\ CountInv /\ ReqInv
    BY DEF PoolInv
  <1>1. /\ t \in Busy /\ t \in Owner /\ t \notin User /\ cur[t] \in Worker
        /\ pc[t] = "start" /\ pc' = [pc EXCEPT ![t] = "use"] /\ UNCHANGED <<cur, reqs>>
    BY <1>0 DEF Start, Goto, Busy, Owner, User, HoldsWorker, TypeInv, CurInv
  <1>2. Lease!Free(cur[t])
    <2>1. \A u \in User : cur[u] # cur[t]
      BY <1>0, <1>1, LeaseFacts DEF OwnInv
    <2> QED
      BY <1>0, <1>1, <2>1, FreeFacts
  <1>3. Cardinality(User) < PoolSize
    <2>1. TypeOK
      BY <1>0 DEF TypeInv
    <2>2. /\ IsFiniteSet(Busy) /\ Cardinality(Busy) \in Nat
          /\ Cardinality(lost) \in Nat /\ Len(idle) \in Nat
      BY <2>1, FiniteCounts
    <2>3. IsFiniteSet(Busy \ {t}) /\ Cardinality(Busy \ {t}) = Cardinality(Busy) - 1
      BY <1>1, <2>2, FS_RemoveElement
    <2>4. User \subseteq Busy \ {t}
      BY <1>0, <1>1, LeaseFacts
    <2>5. Cardinality(User) <= Cardinality(Busy \ {t}) /\ Cardinality(User) \in Nat
      BY <2>3, <2>4, FS_Subset, FS_CardinalityType
    <2> QED
      BY <1>0, <2>2, <2>3, <2>5, PoolAssumption DEF CountInv
  <1>4. MaxRequests > 0 => reqs[cur[t]] < MaxRequests
    BY <1>0, <1>1 DEF ReqInv, RecycledInTime
  <1>5. LeaseOf[t] = NoWorker /\ Lease!Leased = User
    BY <1>0, <1>1, LeaseFacts
  <1>6. LeaseOf' = [LeaseOf EXCEPT ![t] = cur[t]]
    <2>1. pc \in [Thread -> Phase]
      BY <1>0 DEF TypeInv, TypeOK
    <2> QED
      BY <1>1, <2>1 DEF LeaseOf
  <1>7. Lease!Cardinality(User) = Cardinality(User)
    BY Zenon DEF Lease!Cardinality, Cardinality
  <1>8. Lease!Grant(t, cur[t])
    BY <1>1, <1>2, <1>3, <1>4, <1>5, <1>6, <1>7 DEF Lease!Grant
  <1> QED
    BY <1>1, <1>8 DEF Lease!Next

LEMMA ReturnRefines ==
  ASSUME TypeInv, NEW t \in Thread, Bump(t)
  PROVE  Lease!Next
  <1>1. /\ t \in User /\ pc[t] = "bump" /\ pc' = [pc EXCEPT ![t] = "release"]
        /\ UNCHANGED cur /\ pc \in [Thread -> Phase]
        /\ reqs' = [reqs EXCEPT ![cur[t]] = IF @ < CountCap THEN @ + 1 ELSE @]
    BY DEF Bump, Goto, User, TypeInv, TypeOK
  <1>2. LeaseOf[t] = cur[t] /\ cur[t] # NoWorker
    BY <1>1, LeaseFacts, PoolAssumption
  <1>3. LeaseOf' = [LeaseOf EXCEPT ![t] = NoWorker]
    BY <1>1 DEF LeaseOf
  <1>4. Lease!Return(t)
    BY <1>1, <1>2, <1>3 DEF Lease!Return
  <1> QED
    BY <1>4 DEF Lease!Next

LEMMA StepRefines == PoolInv /\ [Next]_vars => [Lease!Next]_(Lease!vars)
  <1> SUFFICES ASSUME PoolInv, [Next]_vars PROVE [Lease!Next]_(Lease!vars)
    OBVIOUS
  <1>0. /\ TypeInv /\ OwnInv /\ pc \in [Thread -> Phase]
        /\ cur \in [Thread -> Worker \cup {NoWorker}] /\ Pooled \subseteq Worker
    BY DEF PoolInv, TypeInv, TypeOK, Pooled
  <1>p. \A t \in User : cur[t] \notin Pooled
    BY <1>0, OwnGivesExclusive, LeaseFacts DEF ExclusiveUse, Held
  <1>1. ASSUME NEW t \in Thread,
               Call(t) \/ AcquirePermit(t) \/ TakeIdle(t) \/ TakeNew(t) \/ Use(t)
               \/ Cleanup(t) \/ ReleaseBack(t) \/ StopOld(t) \/ Signal(t)
        PROVE  UNCHANGED Lease!vars
    <2>1. User' = User /\ \A u \in User : cur'[u] = cur[u]
      BY <1>0, <1>1 DEF Call, AcquirePermit, TakeIdle, TakeNew, Use, Cleanup,
                        ReleaseBack, StopOld, Signal, Goto, User
    <2>2. UNCHANGED reqs
      BY <1>1 DEF Call, AcquirePermit, TakeIdle, TakeNew, Use, Cleanup,
                  ReleaseBack, StopOld, Signal, workVars
    <2> QED
      BY <1>0, <2>1, <2>2, Stutters
  <1>2. ASSUME NEW t \in Thread, StartFails(t) \/ ReleaseRecycle(t) PROVE Lease!Next
    <2>1. /\ User' = User /\ \A u \in User : cur'[u] = cur[u]
          /\ t \in Owner /\ t \notin User /\ cur[t] \in Worker
      BY <1>0, <1>2 DEF StartFails, ReleaseRecycle, Goto, User, Owner, HoldsWorker,
                        TypeInv, CurInv
    <2>2. reqs' = Forget(reqs, {cur[t]})
      BY <1>2 DEF StartFails, ReleaseRecycle
    <2>3. \A u \in User : cur[u] \notin {cur[t]}
      BY <1>0, <2>1, LeaseFacts DEF OwnInv
    <2>4. {cur[t]} \in SUBSET Worker
      BY <2>1
    <2> QED
      BY <1>0, <2>1, <2>2, <2>3, <2>4, Renews
  (* Steps of the reaper and of stop(). *)
  <1>3. ASSUME NEW S \in SUBSET Pooled, reqs' = Forget(reqs, S), UNCHANGED callVars
        PROVE  Lease!Next
    <2>1. User' = User /\ \A u \in User : cur'[u] = cur[u]
      BY <1>3 DEF User, callVars
    <2>2. S \in SUBSET Worker /\ \A u \in User : cur[u] \notin S
      BY <1>0, <1>3, <1>p
    <2> QED
      BY <1>0, <1>3, <2>1, <2>2, Renews
  <1>4. ASSUME UNCHANGED callVars, UNCHANGED reqs PROVE UNCHANGED Lease!vars
    <2>1. User' = User /\ \A u \in User : cur'[u] = cur[u]
      BY <1>4 DEF User, callVars
    <2> QED
      BY <1>0, <1>4, <2>1, Stutters
  <1>5. CASE ReapIdle
    <2>1. PICK n \in 0..Len(idle) : /\ idle' = SubSeq(idle, n + 1, Len(idle))
                                    /\ reqs' = Forget(reqs, Prefix(n))
      BY <1>5 DEF ReapIdle
    <2>2. UNCHANGED callVars
      BY <1>5 DEF ReapIdle
    <2> QED
      BY <1>0, <1>3, <2>1, <2>2, CutPooled
  <1>6. CASE ReaperDies
    <2>1. PICK n \in 1..Len(idle) : /\ idle' = SubSeq(idle, n + 1, Len(idle))
                                    /\ reqs' = Forget(reqs, Prefix(n))
      BY <1>6 DEF ReaperDies
    <2>2. UNCHANGED callVars
      BY <1>6 DEF ReaperDies
    <2>3. n \in 0..Len(idle)
      BY <1>0 DEF TypeInv, TypeOK
    <2> QED
      BY <1>0, <1>3, <2>1, <2>2, <2>3, CutPooled
  <1>7. CASE StopClears
    BY <1>3, <1>7 DEF StopClears
  <1>8. CASE ReaperNow \/ ReaperExit \/ ReaperStopOne \/ ReaperDone \/ StopBegins
             \/ Joined \/ StopOne \/ StopReturns \/ Tick
    BY <1>4, <1>8 DEF ReaperNow, ReaperExit, ReaperStopOne, ReaperDone,
         StopBegins, Joined, StopOne, StopReturns, Tick, workVars
  <1>9. CASE UNCHANGED vars
    BY <1>4, <1>9 DEF vars, workVars
  <1>10. ASSUME NEW t \in Thread, Start(t) \/ Bump(t) PROVE Lease!Next
    BY <1>0, <1>10, GrantRefines, ReturnRefines
  <1> QED
    BY <1>1, <1>2, <1>5, <1>6, <1>7, <1>8, <1>9, <1>10
    DEF Next, CallStep, Moves, Evaluates, ReaperStep, StopStep

(* The pool keeps its promise to its callers: leases of workers that are   *)
(* exclusive, at most pool_size at a time, and never of a worker that is   *)
(* due for recycling.                                                      *)
THEOREM PoolImplementsLease == Spec => LeaseSpec
  <1>1. Init => Lease!Init
    BY DEF Init, Lease!Init, LeaseOf
  <1>2. PoolInv /\ [Next]_vars => [Lease!Next]_(Lease!vars)
    BY StepRefines
  <1>3. Spec => []PoolInv
    BY Invariance
  <1> QED
    BY <1>1, <1>2, <1>3, PTL DEF Spec, LeaseSpec, Lease!Spec
-----------------------------------------------------------------------------
(* The two lists.  They are changed in one lock block but kernels are      *)
(* stopped outside it, so the to_stop of the reaper, the workers of        *)
(* recycling calls and those of stop() count too.                          *)

(* What the reaper cuts off is not in the rest of _idle. *)
LEMMA CutApart ==
  ASSUME TypeInv, OwnInv, NEW n \in 0..Len(idle),
         idle' = SubSeq(idle, n + 1, Len(idle))
  PROVE  Pooled' \cap Prefix(n) = {}
  <1>1. /\ idle \in Seq(Worker) /\ Len(idle) \in Nat
        /\ DOMAIN idle' = 1..Len(idle') /\ Len(idle') \in Nat
        /\ Len(idle') = Len(idle) - n
        /\ \A i \in 1..Len(idle') : idle'[i] = idle[i + n]
    <2>1. idle \in Seq(Worker)
      BY DEF TypeInv, TypeOK
    <2>2. /\ idle' \in Seq(Worker)
          /\ Len(idle') = Len(idle) - n
          /\ \A i \in 1..Len(idle') : idle'[i] = idle[i + n]
      BY <2>1, SuffixFacts
    <2> QED
      BY <2>1, <2>2
  <1>n. Len(idle) \in Nat /\ Len(idle') \in Nat /\ Len(idle') = Len(idle) - n
    BY <1>1
  <1>2. /\ \A i \in 1..Len(idle') : i + n \in 1..Len(idle) /\ i + n \notin 1..n
        /\ \A i \in 1..n : i \in 1..Len(idle)
    BY <1>n
  <1>3. \A i \in 1..Len(idle'), j \in 1..n : idle[i + n] # idle[j]
    BY <1>2 DEF OwnInv
  <1>4. \A i \in 1..Len(idle') : idle'[i] \notin Prefix(n)
    BY <1>1, <1>3 DEF Prefix
  <1> QED
    BY <1>1, <1>4 DEF Pooled

-----------------------------------------------------------------------------
(* The invariant: a worker that is idle or in use is in _all_workers; a    *)
(* kernel that is open has an owner; to_stop is empty but while the reaper *)
(* works on it.                                                            *)

Listed == main \in {"serving", "join", "clear"} =>
            Pooled \cup Held \subseteq all /\ reaper # "dead"

ToStopInv == reaper \notin {"stopping", "dead"} => reapList = {}

ListInv == Listed /\ ToStopInv /\ NoForgottenKernel

(* After stop() has emptied the lists the reaper starts no other round, and*)
(* what it still takes for timed out has been closed, or will be by stop().*)
Emptied == main \in {"stopping", "stopped"}

StopInv ==
  /\ reaper = "none" \/ HasReaper
  /\ main # "serving" /\ HasReaper => reapStop
  /\ ~Emptied => stopList = {}
  /\ Emptied => expired \cap open \cap Aging \subseteq stopList

LEMMA InitLists == Init => ListInv /\ StopInv
  <1> SUFFICES ASSUME Init PROVE ListInv /\ StopInv
    OBVIOUS
  <1>1. Held = {}
    BY DEF Init, Held, Busy, HoldsWorker
  <1> QED
    BY <1>1 DEF Init, ListInv, Listed, ToStopInv, NoForgottenKernel, StopInv, Emptied

LEMMA NextLists == TypeInv /\ OwnInv /\ ListInv /\ StopInv /\ [Next]_vars => ListInv'
  <1> SUFFICES ASSUME TypeInv, OwnInv, ListInv, StopInv, [Next]_vars PROVE ListInv'
    OBVIOUS
  <1>0. /\ pc \in [Thread -> Phase] /\ cur \in [Thread -> Worker \cup {NoWorker}]
        /\ \A t \in Busy : t \in Thread /\ cur[t] \in Worker /\ cur[t] \in Held
        /\ idle \in Seq(Worker)
    BY DEF TypeInv, TypeOK, CurInv, Busy, Held
  <1>x. ExclusiveUse
    BY OwnGivesExclusive
  <1>i. Listed /\ ToStopInv /\ NoForgottenKernel
    BY DEF ListInv
  (* Steps of threads that move no worker. *)
  <1>s. ASSUME UNCHANGED <<all, idle, reaper, reapList, main, stopList, lost>>,
               Held' = Held, Recycled' = Recycled, open' \subseteq open \cup Held
        PROVE  ListInv'
    BY <1>s, <1>i DEF ListInv, Listed, ToStopInv, NoForgottenKernel, Pooled, Retiring
  <1>1. ASSUME NEW t \in Thread, Call(t) \/ AcquirePermit(t) \/ Signal(t)
        PROVE  ListInv'
    <2>1. Held' = Held /\ Recycled' = Recycled
      BY <1>0, <1>1 DEF Call, AcquirePermit, Signal, Goto, Held, Busy, HoldsWorker,
                        Recycled
    <2> QED
      BY <1>1, <1>s, <2>1 DEF Call, AcquirePermit, Signal, poolVars, workVars,
                              reapVars, stopVars
  <1>2. ASSUME NEW t \in Thread, Start(t) \/ Use(t) \/ Cleanup(t) \/ Bump(t)
        PROVE  ListInv'
    <2>1. Held' = Held /\ Recycled' = Recycled /\ cur[t] \in Held
      <3>1. /\ UNCHANGED cur /\ t \in Busy /\ Busy' = Busy
            /\ \A u \in Thread : pc'[u] = "stopOld" <=> pc[u] = "stopOld"
        BY <1>0, <1>2 DEF Start, Use, Cleanup, Bump, Goto, Busy, HoldsWorker
      <3> QED
        BY <3>1 DEF Held, Recycled
    <2> QED
      BY <1>2, <1>s, <2>1 DEF Start, Use, Cleanup, Opens, Raised, Bump, poolVars, reapVars, stopVars
  <1>3. ASSUME NEW t \in Thread, TakeIdle(t) PROVE ListInv'
    <2>1. Pooled = Pooled' \cup {idle[Len(idle)]}
      BY <1>3, PopPooled DEF TakeIdle
    <2>2. /\ Busy' = Busy \cup {t} /\ cur'[t] = idle[Len(idle)]
          /\ \A u \in Busy : cur'[u] = cur[u]
          /\ \A u \in Thread : pc'[u] = "stopOld" <=> pc[u] = "stopOld"
          /\ \A u \in Thread : pc[u] = "stopOld" => cur'[u] = cur[u]
      BY <1>0, <1>3 DEF TakeIdle, Goto, Busy, HoldsWorker
    <2>3. Held' = Held \cup {idle[Len(idle)]} /\ Recycled' = Recycled
      BY <2>2 DEF Held, Recycled
    <2>4. UNCHANGED <<all, open, reaper, reapList, main, stopList, lost>>
      BY <1>3 DEF TakeIdle, reapVars, stopVars
    <2> QED
      BY <1>i, <2>1, <2>3, <2>4 DEF ListInv, Listed, ToStopInv, NoForgottenKernel, Retiring
  <1>4. ASSUME NEW t \in Thread, TakeNew(t) PROVE ListInv'
    <2>1. PICK w : cur' = [cur EXCEPT ![t] = w] /\ all' = all \cup {w}
      BY <1>4 DEF TakeNew
    <2>2. /\ Busy' = Busy \cup {t} /\ cur'[t] = w
          /\ \A u \in Busy : cur'[u] = cur[u]
          /\ \A u \in Thread : pc'[u] = "stopOld" <=> pc[u] = "stopOld"
          /\ \A u \in Thread : pc[u] = "stopOld" => cur'[u] = cur[u]
      BY <1>0, <1>4, <2>1 DEF TakeNew, Goto, Busy, HoldsWorker
    <2>3. Held' = Held \cup {w} /\ Recycled' = Recycled
      BY <2>2 DEF Held, Recycled
    <2>4. UNCHANGED <<idle, open, reaper, reapList, main, stopList, lost>>
      BY <1>4 DEF TakeNew, workVars, reapVars, stopVars
    <2> QED
      BY <1>i, <2>1, <2>3, <2>4
      DEF ListInv, Listed, ToStopInv, NoForgottenKernel, Retiring, Pooled
  <1>5. ASSUME NEW t \in Thread, StartFails(t) PROVE ListInv'
    <2>1. /\ t \in Busy /\ Busy' = Busy \ {t}
          /\ \A u \in Busy' : cur'[u] = cur[u]
          /\ \A u \in Thread : pc'[u] = "stopOld" <=> pc[u] = "stopOld"
          /\ \A u \in Thread : pc[u] = "stopOld" => cur'[u] = cur[u]
      BY <1>0, <1>5 DEF StartFails, Goto, Busy, HoldsWorker
    <2>2. /\ Held' \subseteq Held /\ Held \subseteq Held' \cup {cur[t]}
          /\ Recycled' = Recycled
      BY <2>1 DEF Held, Recycled
    <2>3. /\ open' \subseteq open \cup {cur[t]} /\ lost' = lost \cup {cur[t]}
          /\ UNCHANGED <<idle, all, reaper, reapList, main, stopList>>
      BY <1>5 DEF StartFails, Opens, Raised, poolVars, reapVars, stopVars
    <2> QED
      BY <1>i, <2>2, <2>3
      DEF ListInv, Listed, ToStopInv, NoForgottenKernel, Retiring, Pooled
  <1>6. ASSUME NEW t \in Thread, ReleaseBack(t) PROVE ListInv'
    <2>1. /\ t \in Busy /\ Busy' = Busy \ {t}
          /\ \A u \in Busy' : cur'[u] = cur[u]
          /\ \A u \in Thread : pc'[u] = "stopOld" <=> pc[u] = "stopOld"
          /\ \A u \in Thread : pc[u] = "stopOld" => cur'[u] = cur[u]
      BY <1>0, <1>6 DEF ReleaseBack, Goto, Busy, HoldsWorker
    <2>2. /\ Held' \subseteq Held /\ Held \subseteq Held' \cup {cur[t]}
          /\ Recycled' = Recycled /\ cur[t] \in Held
      BY <1>0, <2>1 DEF Held, Recycled
    <2>3. Pooled' = Pooled \cup {cur[t]}
      BY <1>0, <1>6, <2>1, AppendPooled DEF ReleaseBack
    <2>4. UNCHANGED <<all, open, reaper, reapList, main, stopList, lost>>
      BY <1>6 DEF ReleaseBack, workVars, reapVars, stopVars
    <2> QED
      BY <1>i, <2>2, <2>3, <2>4 DEF ListInv, Listed, ToStopInv, NoForgottenKernel, Retiring
  <1>7. ASSUME NEW t \in Thread, ReleaseRecycle(t) PROVE ListInv'
    <2>1. PICK w \in Fresh : /\ idle' = Append(idle, w)
                             /\ all' = (all \ {cur[t]}) \cup {w}
      BY <1>7 DEF ReleaseRecycle
    <2>2. Pooled' = Pooled \cup {w}
      BY <2>1, AppendPooled DEF Fresh
    <2>3. /\ t \in Busy /\ Busy' = Busy \ {t} /\ cur' = cur
          /\ \A u \in Thread : pc'[u] = "stopOld" <=> pc[u] = "stopOld" \/ u = t
      BY <1>0, <1>7 DEF ReleaseRecycle, Goto, Busy, HoldsWorker
    <2>4. /\ Held \subseteq Held' \cup {cur[t]} /\ Recycled' = Recycled \cup {cur[t]}
          /\ Held' \subseteq Held /\ cur[t] \notin Held' /\ cur[t] \notin Pooled
      <3>1. \A u \in Busy' : cur[u] # cur[t]
        BY <1>x, <2>3 DEF ExclusiveUse
      <3>2. cur[t] \notin Pooled
        BY <1>x, <1>0, <2>3 DEF ExclusiveUse
      <3>3. Held \subseteq Held' \cup {cur[t]} /\ Held' \subseteq Held /\ cur[t] \notin Held'
        BY <2>3, <3>1 DEF Held
      <3>4. Recycled' = Recycled \cup {cur[t]}
        BY <1>0, <2>3 DEF Recycled
      <3> QED
        BY <3>2, <3>3, <3>4
    <2>5. UNCHANGED <<open, reaper, reapList, main, stopList, lost>>
      BY <1>7 DEF ReleaseRecycle, reapVars, stopVars
    <2>6. Listed' /\ ToStopInv'
      BY <1>i, <2>1, <2>2, <2>4, <2>5 DEF Listed, ToStopInv
    <2>7. NoForgottenKernel'
      BY <1>i, <2>2, <2>4, <2>5 DEF NoForgottenKernel, Retiring
    <2> QED
      BY <2>6, <2>7 DEF ListInv
  <1>8. ASSUME NEW t \in Thread, StopOld(t) PROVE ListInv'
    <2>1. /\ Busy' = Busy /\ \A u \in Busy : cur'[u] = cur[u]
          /\ \A u \in Thread : pc[u] = "stopOld" => pc'[u] = "stopOld" \/ u = t
          /\ \A u \in Thread : u # t => cur'[u] = cur[u]
      BY <1>0, <1>8 DEF StopOld, Goto, Busy, HoldsWorker
    <2>2. Held' = Held /\ Recycled \subseteq Recycled' \cup {cur[t]}
      BY <2>1 DEF Held, Recycled
    <2>3. /\ open' = open \ {cur[t]}
          /\ UNCHANGED <<all, idle, reaper, reapList, main, stopList, lost>>
      BY <1>8 DEF StopOld, poolVars, reapVars, stopVars
    <2> QED
      BY <1>i, <2>2, <2>3
      DEF ListInv, Listed, ToStopInv, NoForgottenKernel, Retiring, Pooled
  <1>c. UNCHANGED callVars => Held' = Held /\ Recycled' = Recycled
    BY DEF callVars, Held, Busy, Recycled
  <1>9. CASE ReapIdle
    <2>1. PICK n \in 0..Len(idle) : /\ idle' = SubSeq(idle, n + 1, Len(idle))
                                    /\ all' = all \ Prefix(n)
                                    /\ reapList' = Prefix(n)
      BY <1>9 DEF ReapIdle
    <2>2. /\ Pooled' \subseteq Pooled /\ Pooled \subseteq Pooled' \cup Prefix(n)
          /\ Prefix(n) \subseteq Pooled /\ Pooled' \cap Prefix(n) = {}
      BY <2>1, CutPooled, CutApart
    <2>3. Held \cap Prefix(n) = {}
      BY <1>x, <2>2 DEF ExclusiveUse
    <2>4. /\ UNCHANGED <<open, main, stopList, lost>> /\ UNCHANGED callVars
          /\ reaper = "reap" /\ reaper' = "stopping"
      BY <1>9 DEF ReapIdle, stopVars
    <2>5. Listed' /\ ToStopInv'
      BY <1>c, <1>i, <2>1, <2>2, <2>3, <2>4 DEF Listed, ToStopInv
    <2>6. reapList = {}
      BY <1>i, <2>4 DEF ToStopInv
    <2>7. NoForgottenKernel'
      BY <1>c, <1>i, <2>1, <2>2, <2>4, <2>6 DEF NoForgottenKernel, Retiring
    <2> QED
      BY <2>5, <2>7 DEF ListInv
  (* The reaper dies only when stop() has emptied the lists. *)
  <1>10. CASE ReaperDies
    <2>1. PICK n \in 1..Len(idle) : /\ Reapable(n) /\ idle[n] \notin all
                                    /\ idle' = SubSeq(idle, n + 1, Len(idle))
      BY <1>10 DEF ReaperDies
    <2>2. /\ Pooled \subseteq Pooled' \cup Prefix(n) /\ Prefix(n) \subseteq Pooled
          /\ idle[n] \in Pooled /\ Prefix(n) \subseteq expired
      <3>1. n \in 0..Len(idle) /\ idle[n] \in Pooled
        BY <1>0, <2>1 DEF Pooled
      <3>2. Prefix(n) \subseteq expired
        BY <2>1 DEF Reapable, Prefix
      <3> QED
        BY <2>1, <3>1, <3>2, CutPooled
    <2>3. /\ main \notin {"serving", "join", "clear"} /\ reaper' = "dead"
          /\ UNCHANGED <<open, main, stopList, lost, reapList>> /\ UNCHANGED callVars
      BY <1>10, <1>i, <2>1, <2>2 DEF ReaperDies, Listed, stopVars
    <2>4. open \cap Prefix(n) \subseteq stopList
      BY <2>2, <2>3 DEF StopInv, Emptied, Aging, TypeInv, TypeOK
    <2>5. NoForgottenKernel'
      BY <1>c, <1>i, <2>2, <2>3, <2>4 DEF NoForgottenKernel, Retiring
    <2> QED
      BY <2>3, <2>5 DEF ListInv, Listed, ToStopInv
  <1>11. CASE ReaperStopOne
    <2>1. PICK w \in reapList : open' = open \ {w} /\ reapList' = reapList \ {w}
      BY <1>11 DEF ReaperStopOne
    <2>2. UNCHANGED <<all, idle, reaper, main, stopList, lost>> /\ UNCHANGED callVars
      BY <1>11 DEF ReaperStopOne, poolVars, stopVars
    <2>3. Pooled' = Pooled
      BY <2>2 DEF Pooled
    <2>4. Listed' /\ ToStopInv'
      BY <1>c, <1>i, <2>1, <2>2, <2>3 DEF Listed, ToStopInv
    <2>5. NoForgottenKernel'
      BY <1>c, <1>i, <2>1, <2>2, <2>3 DEF NoForgottenKernel, Retiring
    <2> QED
      BY <2>4, <2>5 DEF ListInv
  <1>12. CASE ReaperNow \/ ReaperExit \/ ReaperDone
    <2>1. /\ UNCHANGED <<all, idle, open, main, stopList, lost, reapList>>
          /\ UNCHANGED callVars /\ reaper' # "dead" /\ reapList = {}
      BY <1>12, <1>i DEF ReaperNow, ReaperExit, ReaperDone, poolVars, workVars,
                         stopVars, ToStopInv
    <2>2. Pooled' = Pooled
      BY <2>1 DEF Pooled
    <2> QED
      BY <1>c, <1>i, <2>1, <2>2
      DEF ListInv, Listed, ToStopInv, NoForgottenKernel, Retiring
  <1>13. CASE StopBegins \/ Joined
    <2>1. /\ UNCHANGED <<all, idle, open, stopList, lost, reaper, reapList>>
          /\ UNCHANGED callVars /\ main \in {"serving", "join"}
      BY <1>13 DEF StopBegins, Joined, poolVars, workVars, reapVars
    <2>2. Pooled' = Pooled
      BY <2>1 DEF Pooled
    <2> QED
      BY <1>c, <1>i, <2>1, <2>2
      DEF ListInv, Listed, ToStopInv, NoForgottenKernel, Retiring
  <1>14. CASE StopClears \/ StopOne \/ StopReturns
    <2>1. /\ UNCHANGED <<lost, reaper, reapList>> /\ UNCHANGED callVars
          /\ main' \notin {"serving", "join", "clear"}
      BY <1>14 DEF StopClears, StopOne, StopReturns, reapVars, poolVars, workVars
    <2>2. CASE StopClears
      <3>1. Pooled \subseteq stopList' /\ UNCHANGED open /\ stopList = {}
        BY <1>i, <2>2 DEF StopClears, Listed, StopInv, Emptied
      <3> QED
        BY <1>c, <1>i, <2>1, <3>1 DEF ListInv, Listed, ToStopInv, NoForgottenKernel, Retiring
    <2>3. CASE StopOne \/ StopReturns
      <3>1. /\ UNCHANGED idle
            /\ \/ \E w \in stopList : open' = open \ {w} /\ stopList' = stopList \ {w}
               \/ UNCHANGED <<open, stopList>>
        BY <2>3 DEF StopOne, StopReturns, poolVars, workVars
      <3>2. Pooled' = Pooled
        BY <3>1 DEF Pooled
      <3> QED
        BY <1>c, <1>i, <2>1, <3>1, <3>2
        DEF ListInv, Listed, ToStopInv, NoForgottenKernel, Retiring
    <2> QED
      BY <1>14, <2>2, <2>3
  <1>15. CASE Tick
    BY <1>15, <1>c, <1>s DEF Tick, poolVars, reapVars, stopVars
  <1>16. CASE UNCHANGED vars
    BY <1>16, <1>c, <1>s DEF vars, poolVars, workVars, reapVars, stopVars
  <1> QED
    BY <1>1, <1>2, <1>3, <1>4, <1>5, <1>6, <1>7, <1>8, <1>9, <1>10, <1>11, <1>12,
       <1>13, <1>14, <1>15, <1>16
    DEF Next, CallStep, Moves, Evaluates, ReaperStep, StopStep

(* StopInv is kept: only Bump, ReleaseBack and recycling bring workers back*)
(* that the reaper may look at.  Bump takes them off `expired`, ReleaseBack*)
(* moves one that was looked at already, a replacement is not open yet.    *)
LEMMA NextStop == TypeInv /\ OwnInv /\ ListInv /\ StopInv /\ [Next]_vars => StopInv'
  <1> SUFFICES ASSUME TypeInv, OwnInv, ListInv, StopInv, [Next]_vars PROVE StopInv'
    OBVIOUS
  <1>0. /\ pc \in [Thread -> Phase] /\ cur \in [Thread -> Worker \cup {NoWorker}]
        /\ \A t \in Busy : t \in Thread /\ cur[t] \in Worker /\ cur[t] \in Held
        /\ idle \in Seq(Worker)
    BY DEF TypeInv, TypeOK, CurInv, Busy, Held
  <1>x. ExclusiveUse
    BY OwnGivesExclusive
  <1>k. HasReaper' = HasReaper
    BY DEF HasReaper
  (* Steps that do not concern the reaper's flags or the phase of stop(). *)
  <1>s. ASSUME UNCHANGED <<reaper, reapStop, main, stopList>>,
               expired' \cap open' \cap Aging' \subseteq expired \cap open \cap Aging
        PROVE  StopInv'
    BY <1>s, <1>k DEF StopInv, Emptied
  <1>f. ASSUME NEW t \in Busy, pc[t] # "release" PROVE cur[t] \notin Aging
    BY <1>0, <1>f, <1>x DEF Aging, ExclusiveUse, Busy, HoldsWorker
  <1>1. ASSUME NEW t \in Thread, Call(t) \/ AcquirePermit(t) \/ Signal(t) \/ StopOld(t)
        PROVE  StopInv'
    <2>1. /\ UNCHANGED <<expired, idle, reaper, reapStop, main, stopList>>
          /\ open' \subseteq open
      BY <1>1 DEF Call, AcquirePermit, Signal, StopOld, poolVars, workVars, reapVars, stopVars
    <2>2. \A u \in Thread : pc'[u] = "release" => pc[u] = "release" /\ cur'[u] = cur[u]
      BY <1>0, <1>1 DEF Call, AcquirePermit, Signal, StopOld, Goto
    <2>3. Aging' \subseteq Aging
      BY <2>1, <2>2 DEF Aging, Pooled
    <2> QED
      BY <1>s, <2>1, <2>3
  <1>2. ASSUME NEW t \in Thread, Start(t) \/ Use(t) \/ Cleanup(t) \/ StartFails(t)
        PROVE  StopInv'
    <2>1. /\ UNCHANGED <<expired, idle, reaper, reapStop, main, stopList>>
          /\ open' \subseteq open \cup {cur[t]} /\ t \in Busy /\ pc[t] # "release"
      BY <1>0, <1>2 DEF Start, Use, Cleanup, StartFails, Opens, Raised, Goto, Busy, HoldsWorker,
                        poolVars, reapVars, stopVars
    <2>2. \A u \in Thread : pc'[u] = "release" => pc[u] = "release" /\ cur'[u] = cur[u]
      BY <1>0, <1>2 DEF Start, Use, Cleanup, StartFails, Goto
    <2>3. Aging' \subseteq Aging
      BY <2>1, <2>2 DEF Aging, Pooled
    <2> QED
      BY <1>f, <1>s, <2>1, <2>3
  <1>3. ASSUME NEW t \in Thread, Bump(t) PROVE StopInv'
    <2>1. /\ UNCHANGED <<open, idle, reaper, reapStop, main, stopList, cur>>
          /\ expired' = expired \ {cur[t]}
      BY <1>3 DEF Bump, poolVars, stopVars
    <2>2. \A u \in Thread : pc'[u] = "release" => pc[u] = "release" \/ u = t
      BY <1>0, <1>3 DEF Bump, Goto
    <2>3. Aging' \subseteq Aging \cup {cur[t]}
      BY <2>1, <2>2 DEF Aging, Pooled
    <2> QED
      BY <1>s, <2>1, <2>3
  <1>4. ASSUME NEW t \in Thread, TakeIdle(t) \/ TakeNew(t) PROVE StopInv'
    <2>1. UNCHANGED <<open, expired, reaper, reapStop, main, stopList>>
      BY <1>4 DEF TakeIdle, TakeNew, workVars, reapVars, stopVars
    <2>2. \A u \in Thread : pc'[u] = "release" => pc[u] = "release" /\ cur'[u] = cur[u]
      BY <1>0, <1>4 DEF TakeIdle, TakeNew, Goto
    <2>3. Pooled' \subseteq Pooled
      <3>1. CASE TakeIdle(t)
        BY <3>1, PopPooled DEF TakeIdle
      <3>2. CASE TakeNew(t)
        BY <3>2 DEF TakeNew, Pooled
      <3> QED
        BY <1>4, <3>1, <3>2
    <2>4. Aging' \subseteq Aging
      BY <2>2, <2>3 DEF Aging
    <2> QED
      BY <1>s, <2>1, <2>4
  <1>5. ASSUME NEW t \in Thread, ReleaseBack(t) PROVE StopInv'
    <2>1. /\ UNCHANGED <<open, expired, reaper, reapStop, main, stopList>>
          /\ pc[t] = "release" /\ t \in Busy
      BY <1>0, <1>5 DEF ReleaseBack, Goto, Busy, HoldsWorker, workVars, reapVars, stopVars
    <2>2. \A u \in Thread : pc'[u] = "release" => pc[u] = "release" /\ cur'[u] = cur[u]
      BY <1>0, <1>5 DEF ReleaseBack, Goto
    <2>3. Pooled' = Pooled \cup {cur[t]}
      BY <1>0, <1>5, <2>1, AppendPooled DEF ReleaseBack
    <2>4. Aging' \subseteq Aging
      BY <2>1, <2>2, <2>3 DEF Aging
    <2> QED
      BY <1>s, <2>1, <2>4
  <1>6. ASSUME NEW t \in Thread, ReleaseRecycle(t) PROVE StopInv'
    <2>1. PICK w \in Fresh : idle' = Append(idle, w)
      BY <1>6 DEF ReleaseRecycle
    <2>2. Pooled' = Pooled \cup {w} /\ w \notin open
      BY <2>1, AppendPooled DEF Fresh
    <2>3. UNCHANGED <<cur, open, expired, reaper, reapStop, main, stopList>>
      BY <1>6 DEF ReleaseRecycle, reapVars, stopVars
    <2>4. \A u \in Thread : pc'[u] = "release" => pc[u] = "release"
      BY <1>0, <1>6 DEF ReleaseRecycle, Goto
    <2>5. Aging' \subseteq Aging \cup {w}
      BY <2>2, <2>3, <2>4 DEF Aging
    <2> QED
      BY <1>s, <2>2, <2>3, <2>5
  <1>c. UNCHANGED callVars /\ Pooled' = Pooled => Aging' = Aging
    BY DEF callVars, Aging
  <1>p. UNCHANGED idle => Pooled' = Pooled
    BY DEF Pooled
  (* The clock is read before stop() sets the event. *)
  <1>7. CASE ReaperNow
    BY <1>7, <1>k DEF ReaperNow, StopInv, Emptied, stopVars, TypeInv, TypeOK
  <1>8. CASE ReapIdle \/ ReaperDies
    BY <1>8, <1>k DEF ReapIdle, ReaperDies, StopInv, Emptied, stopVars
  <1>9. CASE ReaperExit \/ ReaperStopOne \/ ReaperDone
    <2>1. /\ UNCHANGED <<idle, expired, reapStop, main, stopList>> /\ UNCHANGED callVars
          /\ open' \subseteq open /\ (reaper = "none" => reaper' = "none")
      BY <1>9 DEF ReaperExit, ReaperStopOne, ReaperDone, poolVars, workVars, stopVars
    <2> QED
      BY <1>c, <1>k, <1>p, <2>1 DEF StopInv, Emptied
  <1>10. CASE StopBegins \/ Joined
    BY <1>10, <1>k DEF StopBegins, Joined, StopInv, Emptied, reapVars
  <1>11. CASE StopClears
    <2>1. /\ UNCHANGED <<callVars, reapVars>> /\ stopList' = all /\ idle' = << >>
          /\ main = "clear" /\ main' = "stopping"
      BY <1>11 DEF StopClears
    <2>2. Aging' \subseteq Held
      BY <1>0, <2>1 DEF Aging, Pooled, callVars, Held, Busy, HoldsWorker
    <2>3. Held \subseteq all
      BY <2>1 DEF ListInv, Listed
    <2> QED
      BY <1>k, <2>1, <2>2, <2>3 DEF StopInv, Emptied, reapVars
  <1>12. CASE StopOne
    <2>1. PICK w \in stopList : open' = open \ {w} /\ stopList' = stopList \ {w}
      BY <1>12 DEF StopOne
    <2>2. UNCHANGED <<callVars, idle, reapVars, main>> /\ main = "stopping"
      BY <1>12 DEF StopOne, poolVars
    <2> QED
      BY <1>c, <1>k, <1>p, <2>1, <2>2 DEF StopInv, Emptied, reapVars
  <1>13. CASE StopReturns
    BY <1>13, <1>c, <1>k, <1>p DEF StopReturns, StopInv, Emptied, poolVars, workVars, reapVars
  <1>14. CASE Tick
    BY <1>14, <1>c, <1>p, <1>s DEF Tick, poolVars, reapVars, stopVars
  <1>15. CASE UNCHANGED vars
    BY <1>15, <1>c, <1>p, <1>s DEF vars, poolVars, workVars, reapVars, stopVars
  <1> QED
    BY <1>1, <1>2, <1>3, <1>4, <1>5, <1>6, <1>7, <1>8, <1>9, <1>10, <1>11, <1>12,
       <1>13, <1>14, <1>15
    DEF Next, CallStep, Moves, Evaluates, ReaperStep, StopStep

LEMMA ListInvariance == Spec => [](TypeInv /\ OwnInv /\ ListInv /\ StopInv)
  <1>1. Init => TypeInv /\ OwnInv /\ ListInv /\ StopInv
    BY InitType, InitOwn, InitLists
  <1>2. TypeInv /\ OwnInv /\ ListInv /\ StopInv /\ [Next]_vars
          => TypeInv' /\ OwnInv' /\ ListInv' /\ StopInv'
    BY NextType, NextOwn, NextLists, NextStop
  <1> QED
    BY <1>1, <1>2, PTL DEF Spec

(* Until stop() goes through its list, nobody uses a session that somebody *)
(* else uses: one call starts it, evaluates on it and cleans up, or one    *)
(* call or the reaper stops it (pool.py:103-111, 159, 181-184, 221-226).   *)
UsesSession == {t \in Thread : pc[t] \in {"start", "use", "cleanup", "stopOld"}}

SessionsInTurn ==
  /\ \A t, u \in UsesSession : cur[t] = cur[u] => t = u
  /\ \A t \in UsesSession : cur[t] \notin reapList
  /\ main \in {"serving", "join", "clear"} => stopList = {}

THEOREM InTurn == Spec => []SessionsInTurn
  <1>1. UsesSession \subseteq Owner
    BY DEF UsesSession, Owner, HoldsWorker
  <1>2. TypeInv /\ OwnInv /\ ListInv /\ StopInv => SessionsInTurn
    BY <1>1 DEF OwnInv, StopInv, Emptied, SessionsInTurn
  <1> QED
    BY <1>2, ListInvariance, PTL

(* The reaper thread is not ended by _all_workers.remove (pool.py:217) as  *)
(* long as stop() has not emptied the lists.                               *)
THEOREM ReaperLives == Spec => []ReaperSurvives
  <1>1. ListInv => ReaperSurvives
    BY DEF ListInv, Listed, ReaperSurvives
  <1> QED
    BY <1>1, ListInvariance, PTL

(* No kernel is open that nobody will reuse or stop, not even after stop() *)
(* met calls in flight.                                                    *)
THEOREM NoneForgotten == Spec => []NoForgottenKernel
  <1>1. ListInv => NoForgottenKernel
    BY DEF ListInv
  <1> QED
    BY <1>1, ListInvariance, PTL

(* Apart from those about to be stopped, at most pool_size kernels are     *)
(* open: each is that of a worker which is idle, held or lost.             *)
THEOREM KernelsBounded == Spec => []LiveKernelBound
  <1>1. Init => TypeInv /\ OwnInv /\ CountInv /\ ListInv /\ StopInv
    BY InitType, InitOwn, InitCount, InitLists
  <1>2. TypeInv /\ OwnInv /\ CountInv /\ ListInv /\ StopInv /\ [Next]_vars
          => TypeInv' /\ OwnInv' /\ CountInv' /\ ListInv' /\ StopInv'
    BY NextType, NextOwn, NextCount, NextLists, NextStop
  <1>3. TypeInv /\ CountInv /\ ListInv => LiveKernelBound
    <2> SUFFICES ASSUME TypeInv, CountInv, ListInv PROVE LiveKernelBound
      OBVIOUS
    <2> DEFINE Live == open \ (Retiring \cup stopList)
    <2>1. /\ IsFiniteSet(Alive) /\ Cardinality(Alive) <= PoolSize
          /\ Live \subseteq Alive
      BY AliveBound DEF ListInv, NoForgottenKernel, Alive
    <2>2. /\ Cardinality(Live) <= Cardinality(Alive)
          /\ Cardinality(Live) \in Nat /\ Cardinality(Alive) \in Nat
      BY <2>1, FS_Subset, FS_CardinalityType
    <2> QED
      BY <2>1, <2>2, PoolAssumption DEF LiveKernelBound
  <1> QED
    BY <1>1, <1>2, <1>3, PTL DEF Spec

-----------------------------------------------------------------------------
(* The pool over its sessions.                                             *)

(* What stop() has taken is no longer in _all_workers, so a session it has *)
(* closed is one that KernelPool lets it close.                            *)
Apart == stopList \cap all = {}
SoundPool == TypeInv /\ OwnInv /\ CountInv /\ ListInv /\ StopInv /\ Apart

LEMMA InitSound == Init => SoundPool
  <1>1. Init => Apart
    BY DEF Init, Apart
  <1> QED
    BY <1>1, InitType, InitOwn, InitCount, InitLists DEF SoundPool

LEMMA NextSound == SoundPool /\ [Next]_vars => SoundPool'
  <1> SUFFICES ASSUME SoundPool, [Next]_vars PROVE Apart'
    BY NextType, NextOwn, NextCount, NextLists, NextStop DEF SoundPool
  <1>a. Apart
    BY DEF SoundPool
  <1>s. ASSUME all' \subseteq all, stopList' \subseteq stopList PROVE Apart'
    BY <1>a, <1>s DEF Apart
  <1>n. ASSUME NEW w \in Fresh, all' \subseteq all \cup {w}, UNCHANGED stopList
        PROVE  Apart'
    BY <1>a, <1>n DEF Apart, Fresh
  <1>1. ASSUME NEW t \in Thread, Call(t) PROVE Apart'
    BY <1>1, <1>s DEF Call, poolVars, stopVars
  <1>2. ASSUME NEW t \in Thread, CallStep(t) PROVE Apart'
    <2>1. CASE TakeNew(t) \/ ReleaseRecycle(t)
      BY <1>n, <2>1 DEF TakeNew, ReleaseRecycle, stopVars
    <2>2. CASE ~(TakeNew(t) \/ ReleaseRecycle(t))
      BY <1>2, <1>s, <2>2
      DEF CallStep, Moves, Evaluates, AcquirePermit, TakeIdle, Start, StartFails, Use, Cleanup, Bump,
          ReleaseBack, StopOld, Signal, poolVars, stopVars
    <2> QED
      BY <2>1, <2>2
  <1>3. CASE ReaperStep
    BY <1>3, <1>s DEF ReaperStep, ReaperNow, ReaperExit, ReapIdle, ReaperDies,
                      ReaperStopOne, ReaperDone, poolVars, stopVars
  <1>4. CASE StopClears
    BY <1>4 DEF StopClears, Apart
  <1>5. CASE StopBegins \/ Joined \/ StopOne \/ StopReturns
    BY <1>5, <1>s DEF StopBegins, Joined, StopOne, StopReturns, poolVars
  <1>6. CASE Tick \/ UNCHANGED vars
    BY <1>6, <1>s DEF Tick, vars, poolVars, stopVars
  <1> QED
    BY <1>1, <1>2, <1>3, <1>4, <1>5, <1>6 DEF Next, StopStep

(* What the invariants of the pool say of operations under way.            *)
LEMMA SoundExclusive ==
  ASSUME SoundPool
  PROVE  /\ pc \in [Thread -> Phase] /\ cur \in [Thread -> Worker \cup {NoWorker}]
         /\ open \subseteq Worker /\ stopList \subseteq Worker /\ reapList \subseteq Worker
         /\ Operating \subseteq Busy /\ Busy \subseteq Thread
         /\ \A t \in Busy : cur[t] \in Worker /\ cur[t] \in Held
         /\ \A t, u \in Busy : cur[t] = cur[u] => t = u
         /\ Held \cap Retiring = {} /\ Held \cap Fresh = {}
         /\ stopList \cap all = {}
  <1>1. ExclusiveUse
    BY OwnGivesExclusive DEF SoundPool
  <1>2. Operating \subseteq Busy
    BY DEF Operating, Busy, HoldsWorker
  <1> QED
    BY <1>1, <1>2
    DEF SoundPool, TypeInv, TypeOK, CurInv, Busy, Held, ExclusiveUse, Fresh, Apart

(* The parties of a session, and what each of them does with it.           *)
LEMMA PartyFacts ==
  /\ ReaperThread \in Party /\ Stopper \in Party /\ ReaperThread # Stopper
  /\ \A t \in Thread : Caller(t) \in Party \ {ReaperThread, Stopper}
  /\ \A t, u \in Thread : Caller(t) = Caller(u) => t = u
  /\ \A t \in Thread : Caller(t)[2] = t
  /\ \A p \in Party \ {ReaperThread, Stopper} : \E t \in Thread : p = Caller(t)
  BY SMT DEF Party, Caller, ReaperThread, Stopper

LEMMA OpFacts ==
  ASSUME NEW w
  PROVE  /\ OpOn(w)[ReaperThread] = IF w \in reapList THEN "stop" ELSE "none"
         /\ OpOn(w)'[ReaperThread] = IF w \in reapList' THEN "stop" ELSE "none"
         /\ OpOn(w)[Stopper] = IF w \in stopList THEN "stop" ELSE "none"
         /\ OpOn(w)'[Stopper] = IF w \in stopList' THEN "stop" ELSE "none"
         /\ \A t \in Thread : /\ OpOn(w)[Caller(t)] = CallOp(t, w)
                              /\ OpOn(w)'[Caller(t)] = CallOp(t, w)'
  BY PartyFacts DEF OpOn

LEMMA DoneFacts ==
  ASSUME NEW w, done \subseteq Thread, done' \subseteq Thread
  PROVE  /\ DoneOn(w)[ReaperThread] = FALSE /\ DoneOn(w)'[ReaperThread] = FALSE
         /\ DoneOn(w)[Stopper] = FALSE /\ DoneOn(w)'[Stopper] = FALSE
         /\ \A t \in Thread :
              /\ DoneOn(w)[Caller(t)] = (t \in done /\ cur[t] = w)
              /\ DoneOn(w)'[Caller(t)] = (t \in done' /\ cur'[t] = w)
  <1>1. \A p \in Party : DoneOn(w)[p] = (\E t \in done : p = Caller(t) /\ cur[t] = w)
    BY DEF DoneOn
  <1>2. \A p \in Party : DoneOn(w)'[p] = (\E t \in done' : p = Caller(t) /\ cur'[t] = w)
    BY DEF DoneOn
  <1>3. \A t \in done \cup done' :
          Caller(t) # ReaperThread /\ Caller(t) # Stopper
    BY PartyFacts
  <1>4. ASSUME NEW t \in Thread
        PROVE  /\ (\E u \in done : Caller(t) = Caller(u) /\ cur[u] = w)
                    <=> (t \in done /\ cur[t] = w)
               /\ (\E u \in done' : Caller(t) = Caller(u) /\ cur'[u] = w)
                    <=> (t \in done' /\ cur'[t] = w)
    BY PartyFacts, Zenon
  <1>5. /\ DoneOn(w)[ReaperThread] = FALSE /\ DoneOn(w)'[ReaperThread] = FALSE
        /\ DoneOn(w)[Stopper] = FALSE /\ DoneOn(w)'[Stopper] = FALSE
    BY <1>1, <1>2, <1>3, PartyFacts
  <1>6. ASSUME NEW t \in Thread
        PROVE  /\ DoneOn(w)[Caller(t)] = (t \in done /\ cur[t] = w)
               /\ DoneOn(w)'[Caller(t)] = (t \in done' /\ cur'[t] = w)
    BY <1>1, <1>2, <1>4, PartyFacts
  <1> QED
    BY <1>5, <1>6

-----------------------------------------------------------------------------
(* The steps of PooledSessions, spelled out: what the steps of OpenSession *)
(* are for live, done and raised.                                          *)

TakesEffect(t) ==
  /\ t \in Operating \ done
  /\ live' = live \cup {cur[t]} /\ done' = done \cup {t}
  /\ UNCHANGED <<vars, raised>>

StartsOver(t) ==
  /\ t \in Operating /\ pc[t] # "start"
  /\ live' \in {live, live \ {cur[t]}} /\ done' = done \ {t}
  /\ UNCHANGED <<vars, raised>>

OperationReturns(t) ==
  /\ Ends(t, "start", "use") \/ Ends(t, "use", "cleanup") \/ Ends(t, "cleanup", "bump")
  /\ live' = IF t \in done THEN live ELSE live \cup {cur[t]}
  /\ raised' = raised \ {<<t, cur[t]>>}

OperationRaises(t) ==
  /\ StartRaises(t) \/ Ends(t, "use", "cleanup") \/ Ends(t, "cleanup", "bump")
  /\ t \in done \/ StartMayFail
  /\ live' = live
  /\ raised' = raised \cup {<<t, cur[t]>>}

OperationEnds(t) ==
  /\ OperationReturns(t) \/ OperationRaises(t)
  /\ done' = done \ {t}
  /\ Seen(cur[t])

StopEnds(w) == live' = live \ {w} /\ UNCHANGED done /\ Seen(w)

Stops ==
  \/ \E t \in Thread : /\ OldEnds(t) /\ StopEnds(cur[t])
                       /\ raised' = raised \ {<<t, cur[t]>>}
  \/ \E w \in reapList : ReapedEnds(w) /\ StopEnds(w) /\ UNCHANGED raised
  \/ \E w \in stopList : ListedEnds(w) /\ StopEnds(w) /\ UNCHANGED raised

LEMMA WorksMeans ==
  ASSUME NEW w \in Worker, NEW t \in Thread, done \subseteq Operating, Works(t, w)
  PROVE  TakesEffect(t) \/ StartsOver(t)
  <1> DEFINE p == Caller(t)
  <1>1. /\ cur[t] = w /\ UNCHANGED vars /\ cur'[t] = w
        /\ done \subseteq Thread /\ done' \subseteq Thread
        /\ p \in Party
    BY PartyFacts DEF Works, Operating, vars, callVars
  <1>2. OpOn(w)[p] = CallOp(t, w)
    BY OpFacts
  <1>3. /\ DoneOn(w)[p] = (t \in done /\ cur[t] = w)
        /\ DoneOn(w)'[p] = (t \in done' /\ cur'[t] = w)
    BY <1>1, DoneFacts, Zenon
  <1>4. DoneOn(w)[p] <=> t \in done
    BY <1>1, <1>3
  <1>5. DoneOn(w)'[p] <=> t \in done'
    BY <1>1, <1>3
  <1>6. \A b : p \in DOMAIN [DoneOn(w) EXCEPT ![p] = b] /\ [DoneOn(w) EXCEPT ![p] = b][p] = b
    BY <1>1 DEF DoneOn
  <1>7. CASE SessionOf(w)!TakesEffect(p)
    <2>1. /\ CallOp(t, w) \in {"start", "evaluate"} /\ t \notin done
          /\ (w \in live)' = TRUE /\ DoneOn(w)'[p] = TRUE
      BY <1>2, <1>4, <1>6, <1>7 DEF SessionOf!TakesEffect, SessionOf!Opening
    <2>2. t \in Operating
      BY <2>1 DEF CallOp, Operating
    <2>3. live' = live \cup {w} /\ done' = done \cup {t}
      BY <1>5, <2>1 DEF Works, Changes
    <2> QED
      BY <1>1, <2>1, <2>2, <2>3 DEF TakesEffect, Works
  <1>8. CASE SessionOf(w)!StartsOver(p)
    <2>1. /\ CallOp(t, w) = "evaluate"
          /\ (w \in live)' \in {(w \in live), FALSE} /\ DoneOn(w)'[p] = FALSE
      BY <1>2, <1>4, <1>6, <1>8 DEF SessionOf!StartsOver
    <2>2. t \in Operating /\ pc[t] # "start"
      BY <2>1 DEF CallOp, Operating
    <2>3. w \in live' => w \in live
      BY <2>1
    <2>4. live' \in {live, live \ {w}} /\ done' = done \ {t}
      BY <1>5, <2>1, <2>3 DEF Works, Changes
    <2> QED
      BY <1>1, <2>1, <2>2, <2>4 DEF StartsOver, Works
  <1> QED
    BY <1>7, <1>8 DEF Works

LEMMA CallEndsMeans ==
  ASSUME NEW w \in Worker, NEW t \in Thread, done \subseteq Operating, CallEnds(t, w)
  PROVE  OperationEnds(t) \/ Stops
  <1> DEFINE p == Caller(t)
  <1>1. /\ cur[t] = w /\ done' = done \ {t} /\ Seen(w) /\ p \in Party
        /\ done \subseteq Thread /\ done' \subseteq Thread
    BY PartyFacts DEF CallEnds, Operating
  <1>2. OpOn(w)[p] = CallOp(t, w)
    BY OpFacts
  <1>3. DoneOn(w)[p] = (t \in done /\ cur[t] = w)
    BY <1>1, DoneFacts, Zenon
  <1>4. DoneOn(w)[p] <=> t \in done
    BY <1>1, <1>3
  <1>5. ASSUME CallReturns(t, w)
        PROVE  \/ CallOp(t, w) \in {"start", "evaluate"} /\ t \notin done /\ (w \in live)' = TRUE
               \/ CallOp(t, w) \in {"start", "evaluate"} /\ t \in done /\ (w \in live)' = (w \in live)
               \/ CallOp(t, w) = "stop" /\ (w \in live)' = FALSE
    BY <1>2, <1>4, <1>5 DEF CallReturns, SessionOf!Returns, SessionOf!Opening
  <1>6. CASE CallReturns(t, w) /\ OldEnds(t)
    <2>1. CallOp(t, w) = "stop" /\ t \notin done
      BY <1>1, <1>6 DEF Goto, CallOp, Operating
    <2>2. w \notin live'
      BY <1>5, <1>6, <2>1
    <2>3. live' = live \ {w} /\ done' = done
      BY <1>1, <2>1, <2>2 DEF CallEnds, Changes
    <2>4. raised' = raised \ {<<t, w>>}
      BY <1>6 DEF CallReturns
    <2> QED
      BY <1>1, <1>6, <2>3, <2>4 DEF Stops, StopEnds
  <1>7. CASE CallReturns(t, w) /\ ~OldEnds(t)
    <2>1. CallOp(t, w) \in {"start", "evaluate"}
      BY <1>1, <1>7 DEF CallReturns, Goto, CallOp
    <2>2. IF t \in done THEN w \in live' <=> w \in live ELSE w \in live'
      BY <1>5, <1>7, <2>1
    <2>3. live' = IF t \in done THEN live ELSE live \cup {w}
      BY <2>2 DEF CallEnds, Changes
    <2>4. OperationReturns(t)
      BY <1>1, <1>7, <2>3 DEF CallReturns, OperationReturns
    <2> QED
      BY <1>1, <2>4 DEF OperationEnds
  <1>8. CASE CallRaises(t, w)
    <2>1. t \in done \/ StartMayFail
      BY <1>4, <1>8 DEF CallRaises, SessionOf!Raises
    <2>2. (w \in live)' = (w \in live)
      BY <1>8 DEF CallRaises, SessionOf!Raises
    <2>3. live' = live
      BY <2>2 DEF CallEnds, Changes
    <2>4. OperationRaises(t)
      BY <1>1, <1>8, <2>1, <2>3 DEF CallRaises, OperationRaises
    <2> QED
      BY <1>1, <2>4 DEF OperationEnds
  <1> QED
    BY <1>6, <1>7, <1>8 DEF CallEnds

LEMMA ThreadReturnsMeans ==
  ASSUME NEW w \in Worker, ThreadReturns(w)
  PROVE  Stops
  <1>1. ASSUME NEW p \in {ReaperThread, Stopper}, SessionOf(w)!Returns(p)
        PROVE  OpOn(w)[p] = "stop" /\ live' = live \ {w}
    <2>1. OpOn(w)[p] \in {"none", "stop"}
      BY OpFacts
    <2>2. OpOn(w)[p] = "stop" /\ (w \in live)' = FALSE
      BY <1>1, <2>1 DEF SessionOf!Returns, SessionOf!Opening
    <2> QED
      BY <2>2 DEF ThreadReturns, Changes
  <1>2. CASE ReapedEnds(w) /\ SessionOf(w)!Returns(ReaperThread)
    <2>1. w \in reapList /\ live' = live \ {w}
      BY <1>1, <1>2, OpFacts
    <2> QED
      BY <1>2, <2>1 DEF ThreadReturns, Stops, StopEnds
  <1>3. CASE ListedEnds(w) /\ SessionOf(w)!Returns(Stopper)
    <2>1. w \in stopList /\ live' = live \ {w}
      BY <1>1, <1>3, OpFacts
    <2> QED
      BY <1>3, <2>1 DEF ThreadReturns, Stops, StopEnds
  <1> QED
    BY <1>2, <1>3 DEF ThreadReturns

LEMMA PooledNextMeans ==
  ASSUME done \subseteq Operating, PooledNext
  PROVE  \/ \E t \in Thread : TakesEffect(t) \/ StartsOver(t) \/ OperationEnds(t)
         \/ Stops \/ Elsewhere
  BY WorksMeans, CallEndsMeans, ThreadReturnsMeans DEF PooledNext

-----------------------------------------------------------------------------
(* An operation that has taken effect finds its session open as it ends,   *)
(* or stop() has closed it since.                                          *)
Effective ==
  \A t \in done : cur[t] \in live \/ cur[t] \in ThroughStop \ open

(* Between its operations a session is what KernelPool takes it for.       *)
AsSeen ==
  \A w \in Worker :
    (\A t \in Operating : cur[t] # w) => (w \in live <=> w \in open)

PooledInv == live \subseteq Worker /\ done \subseteq Operating /\ AsSeen /\ Effective

LEMMA InitPooled == PooledInit => Init /\ SoundPool /\ PooledInv
  <1> SUFFICES ASSUME PooledInit PROVE PooledInv
    BY InitSound DEF PooledInit
  <1> QED
    BY DEF PooledInit, Init, PooledInv, AsSeen, Effective

(* Steps inside an operation are not seen by the pool.                     *)
LEMMA InsideUnseen ==
  ASSUME SoundPool, PooledInv, NEW t \in Thread, TakesEffect(t) \/ StartsOver(t)
  PROVE  UNCHANGED vars /\ PooledInv'
  <1>1. /\ UNCHANGED vars /\ t \in Operating
        /\ UNCHANGED <<pc, cur, open, all, stopList>>
    BY DEF TakesEffect, StartsOver, vars, callVars, poolVars, workVars, stopVars
  <1>2. Operating' = Operating /\ ThroughStop' = ThroughStop
    BY <1>1 DEF Operating, ThroughStop
  <1>3. /\ live' \subseteq live \cup {cur[t]} /\ live \subseteq live' \cup {cur[t]}
        /\ done' \subseteq done \cup {t}
        /\ t \in done' => cur[t] \in live'
    BY DEF TakesEffect, StartsOver
  <1>4. live' \subseteq Worker /\ done' \subseteq Operating
    BY <1>1, <1>3, SoundExclusive DEF PooledInv
  <1>5. AsSeen'
    BY <1>1, <1>2, <1>3 DEF AsSeen, PooledInv
  <1>6. Effective'
    <2> SUFFICES ASSUME NEW u \in done', u # t
                 PROVE  cur[u] \in live' \/ cur[u] \in ThroughStop \ open
      BY <1>1, <1>2, <1>3 DEF Effective
    <2>1. u \in done /\ u \in Busy /\ t \in Busy
      BY <1>1, <1>3, SoundExclusive DEF PooledInv
    <2>2. cur[u] # cur[t]
      BY <2>1, SoundExclusive
    <2> QED
      BY <1>3, <2>1, <2>2 DEF PooledInv, Effective
  <1> QED
    BY <1>1, <1>2, <1>4, <1>5, <1>6 DEF PooledInv

(* As an operation returns, the session is open or stop() has closed it;   *)
(* as it raises, that is so if it has taken effect, and else a start failed*)
LEMMA EndOpens ==
  ASSUME SoundPool, PooledInv, NEW t \in Operating, Seen(cur[t]),
         \/ live' = IF t \in done THEN live ELSE live \cup {cur[t]}
         \/ t \in done /\ live' = live
  PROVE  Opens(cur[t])
  <1>1. CASE cur[t] \in live'
    BY <1>1 DEF Seen, Opens
  <1>2. CASE cur[t] \notin live'
    <2>1. t \in done /\ cur[t] \in ThroughStop \ open
      BY <1>2 DEF PooledInv, Effective
    <2> QED
      BY <1>2, <2>1 DEF Seen, Opens
  <1> QED
    BY <1>1, <1>2

LEMMA EndRaises ==
  ASSUME SoundPool, PooledInv, NEW t \in Operating, Seen(cur[t]), OperationRaises(t)
  PROVE  Opens(cur[t]) \/ Raised(cur[t])
  <1>1. CASE t \in done
    BY <1>1, EndOpens DEF OperationRaises
  <1>2. CASE StartMayFail /\ cur[t] \in live'
    BY <1>2 DEF Seen, Opens
  <1>3. CASE StartMayFail /\ cur[t] \notin live'
    BY <1>3 DEF Seen, Raised
  <1> QED
    BY <1>1, <1>2, <1>3 DEF OperationRaises

(* As it does in a step of KernelPool.                                     *)
LEMMA EndSeen ==
  ASSUME SoundPool, PooledInv, NEW t \in Thread, OperationEnds(t)
  PROVE  Next /\ PooledInv'
  <1>1. /\ t \in Operating
        /\ \A u \in Thread : u # t => pc'[u] = pc[u] /\ cur'[u] = cur[u]
        /\ UNCHANGED <<all, stopList>>
    BY SoundExclusive
    DEF OperationEnds, OperationReturns, OperationRaises, Goto, Operating, poolVars, stopVars
  <1>2. /\ live' = live \/ live' = live \cup {cur[t]}
        /\ done' = done \ {t} /\ Seen(cur[t])
    BY DEF OperationEnds, OperationReturns, OperationRaises
  <1>3. Next
    <2>1. CASE OperationReturns(t)
      <3>1. Opens(cur[t])
        BY <1>1, <1>2, <2>1, EndOpens DEF OperationReturns
      <3>2. Start(t) \/ Use(t) \/ Cleanup(t)
        BY <2>1, <3>1 DEF OperationReturns, Start, Use, Cleanup
      <3> QED
        BY <3>2 DEF Next, CallStep, Moves, Evaluates
    <2>2. CASE OperationRaises(t)
      <3>1. Opens(cur[t]) \/ Raised(cur[t])
        BY <1>1, <1>2, <2>2, EndRaises
      <3>2. StartFails(t) \/ Use(t) \/ Cleanup(t)
        BY <2>2, <3>1 DEF OperationRaises, StartFails, Use, Cleanup
      <3> QED
        BY <3>2 DEF Next, CallStep, Moves, Evaluates
    <2> QED
      BY <2>1, <2>2 DEF OperationEnds
  <1>4. live' \subseteq Worker /\ done' \subseteq Operating'
    <2>1. live' \subseteq Worker
      BY <1>1, <1>2, SoundExclusive DEF PooledInv
    <2>2. done' \subseteq Operating'
      BY <1>1, <1>2 DEF PooledInv, Operating
    <2> QED
      BY <2>1, <2>2
  <1>5. AsSeen'
    <2> SUFFICES ASSUME NEW w \in Worker, \A u \in Operating' : cur'[u] # w
                 PROVE  w \in live' <=> w \in open'
      BY DEF AsSeen
    <2>1. CASE w = cur[t]
      BY <1>2, <2>1 DEF Seen
    <2>2. CASE w # cur[t]
      <3>1. \A u \in Operating : cur[u] # w
        BY <1>1, <2>2 DEF Operating
      <3> QED
        BY <1>2, <2>2, <3>1 DEF PooledInv, AsSeen, Seen
    <2> QED
      BY <2>1, <2>2
  <1>6. Effective'
    <2> SUFFICES ASSUME NEW u \in done'
                 PROVE  cur'[u] \in live' \/ cur'[u] \in ThroughStop' \ open'
      BY DEF Effective
    <2>1. u \in done /\ u # t /\ u \in Busy /\ t \in Busy
      BY <1>1, <1>2, SoundExclusive DEF PooledInv
    <2>2. cur[u] # cur[t] /\ cur'[u] = cur[u] /\ ThroughStop' = ThroughStop
      BY <1>1, <2>1, SoundExclusive DEF ThroughStop
    <2> QED
      BY <1>2, <2>1, <2>2 DEF PooledInv, Effective, Seen
  <1> QED
    BY <1>3, <1>4, <1>5, <1>6 DEF PooledInv

(* A session is closed while no call uses it, or by stop().                *)
LEMMA StopKeeps ==
  ASSUME SoundPool, PooledInv, NEW w \in Worker, StopEnds(w),
         w \in Retiring \/ w \in stopList \ stopList', stopList' \subseteq stopList,
         UNCHANGED all,
         \A t \in Operating : pc'[t] = pc[t] /\ cur'[t] = cur[t]
  PROVE  Closed(w) /\ PooledInv'
  <1>1. /\ live' = live \ {w} /\ open' = open \ {w} /\ UNCHANGED done
    BY DEF StopEnds, Seen
  <1>2. Operating \subseteq Operating' /\ ThroughStop \subseteq ThroughStop'
    BY DEF Operating, ThroughStop
  <1>3. live' \subseteq Worker /\ done' \subseteq Operating'
    BY <1>1, <1>2 DEF PooledInv
  <1>4. AsSeen'
    BY <1>1, <1>2 DEF AsSeen, PooledInv
  <1>5. Effective'
    <2> SUFFICES ASSUME NEW t \in done
                 PROVE  cur'[t] \in live' \/ cur'[t] \in ThroughStop' \ open'
      BY <1>1 DEF Effective
    <2>1. t \in Operating /\ cur'[t] = cur[t] /\ cur[t] \in Held
      BY SoundExclusive DEF PooledInv
    <2>2. CASE cur[t] = w
      <3>1. w \notin stopList' /\ w \notin all
        BY <2>1, <2>2, SoundExclusive
      <3> QED
        BY <1>1, <2>1, <2>2, <3>1 DEF ThroughStop
    <2>3. CASE cur[t] # w
      BY <1>1, <1>2, <2>1, <2>3 DEF PooledInv, Effective
    <2> QED
      BY <2>2, <2>3
  <1> QED
    BY <1>1, <1>3, <1>4, <1>5 DEF PooledInv

(* Every stop() of a session is one in KernelPool.                         *)
LEMMA StopsSeen ==
  ASSUME SoundPool, PooledInv, Stops
  PROVE  Next /\ PooledInv'
  <1>1. ASSUME NEW t \in Thread, OldEnds(t), StopEnds(cur[t])
        PROVE  Next /\ PooledInv'
    <2>1. /\ cur[t] \in Worker /\ cur[t] \in Retiring
          /\ UNCHANGED <<all, stopList>>
      BY <1>1, SoundExclusive
      DEF Goto, SoundPool, TypeInv, CurInv, Retiring, Recycled, poolVars, stopVars
    <2>2. \A u \in Operating : pc'[u] = pc[u] /\ cur'[u] = cur[u]
      BY <1>1, SoundExclusive DEF Goto, Operating
    <2>3. Closed(cur[t]) /\ PooledInv'
      BY <1>1, <2>1, <2>2, StopKeeps
    <2> QED
      BY <1>1, <2>3 DEF Next, CallStep, Moves, StopOld
  <1>2. ASSUME NEW w \in reapList, ReapedEnds(w), StopEnds(w)
        PROVE  Next /\ PooledInv'
    <2>1. /\ w \in Worker /\ w \in Retiring
          /\ UNCHANGED <<pc, cur, all, stopList>>
      BY <1>2, SoundExclusive DEF Retiring, callVars, poolVars, stopVars
    <2>2. Closed(w) /\ PooledInv'
      BY <1>2, <2>1, StopKeeps
    <2> QED
      BY <1>2, <2>2 DEF Next, ReaperStep, ReaperStopOne
  <1>3. ASSUME NEW w \in stopList, ListedEnds(w), StopEnds(w)
        PROVE  Next /\ PooledInv'
    <2>1. /\ w \in Worker /\ stopList' = stopList \ {w}
          /\ UNCHANGED <<pc, cur, all>>
      BY <1>3, SoundExclusive DEF callVars, poolVars
    <2>2. Closed(w) /\ PooledInv'
      BY <1>3, <2>1, StopKeeps
    <2> QED
      BY <1>3, <2>2 DEF Next, StopStep, StopOne
  <1> QED
    BY <1>1, <1>2, <1>3 DEF Stops

(* Whatever else happens, an operation under way keeps its worker, and    *)
(* stop() keeps what it has taken.                                         *)
LEMMA ElsewhereSeen ==
  ASSUME SoundPool, PooledInv, Elsewhere
  PROVE  Next /\ PooledInv'
  <1>0. UNCHANGED <<live, done, open>>
    BY DEF Elsewhere, sessVars, Call, AcquirePermit, TakeIdle, TakeNew, Bump, ReleaseBack,
           ReleaseRecycle, Signal, ReaperNow, ReaperExit, ReapIdle, ReaperDies,
           ReaperDone, StopBegins, Joined, StopClears, StopReturns, Tick, workVars
  <1>1. Next
    BY DEF Elsewhere, Next, CallStep, Moves, Evaluates, ReaperStep, StopStep
  <1>2. \A t \in Operating : pc'[t] = pc[t] /\ cur'[t] = cur[t]
    <2>1. ASSUME NEW t \in Thread,
                 \/ Call(t) \/ AcquirePermit(t) \/ TakeIdle(t) \/ TakeNew(t) \/ Bump(t)
                 \/ ReleaseBack(t) \/ ReleaseRecycle(t) \/ Signal(t)
          PROVE  \A u \in Operating : pc'[u] = pc[u] /\ cur'[u] = cur[u]
      BY <2>1, SoundExclusive
      DEF Call, AcquirePermit, TakeIdle, TakeNew, Bump, ReleaseBack, ReleaseRecycle,
          Signal, Goto, Operating
    <2>2. ASSUME \/ ReaperNow \/ ReaperExit \/ ReapIdle \/ ReaperDies \/ ReaperDone
                 \/ StopBegins \/ Joined \/ StopClears \/ StopReturns \/ Tick
          PROVE  UNCHANGED callVars
      BY <2>2 DEF ReaperNow, ReaperExit, ReapIdle, ReaperDies, ReaperDone, StopBegins,
                  Joined, StopClears, StopReturns, Tick
    <2> QED
      BY <2>1, <2>2 DEF Elsewhere, callVars
  <1>3. ThroughStop \cap Held \subseteq ThroughStop'
    <2>1. \/ all' \subseteq all /\ stopList' = stopList
          \/ \E w \in Fresh : all' \subseteq all \cup {w} /\ stopList' = stopList
          \/ all' \subseteq all /\ stopList' = all
      <3>1. ASSUME NEW t \in Thread, TakeNew(t) \/ ReleaseRecycle(t)
            PROVE  \E w \in Fresh : all' \subseteq all \cup {w} /\ stopList' = stopList
        BY <3>1 DEF TakeNew, ReleaseRecycle, stopVars
      <3>2. ASSUME NEW t \in Thread,
                   \/ Call(t) \/ AcquirePermit(t) \/ TakeIdle(t) \/ Bump(t)
                   \/ ReleaseBack(t) \/ Signal(t)
            PROVE  all' \subseteq all /\ stopList' = stopList
        BY <3>2 DEF Call, AcquirePermit, TakeIdle, Bump, ReleaseBack, Signal, poolVars,
                    stopVars
      <3>3. ASSUME \/ ReaperNow \/ ReaperExit \/ ReapIdle \/ ReaperDies \/ ReaperDone
                   \/ StopBegins \/ Joined \/ StopReturns \/ Tick
            PROVE  all' \subseteq all /\ stopList' = stopList
        BY <3>3 DEF ReaperNow, ReaperExit, ReapIdle, ReaperDies, ReaperDone, StopBegins,
                    Joined, StopReturns, Tick, poolVars, stopVars
      <3>4. ASSUME StopClears PROVE all' \subseteq all /\ stopList' = all
        BY <3>4 DEF StopClears
      <3> QED
        BY <3>1, <3>2, <3>3, <3>4 DEF Elsewhere
    <2> QED
      BY <2>1, SoundExclusive DEF ThroughStop
  <1>4. Operating \subseteq Operating' /\ \A t \in done : cur'[t] = cur[t] /\ cur[t] \in Held
    BY <1>2, SoundExclusive DEF PooledInv, Operating
  <1>5. AsSeen'
    BY <1>0, <1>2, <1>4 DEF PooledInv, AsSeen
  <1>6. Effective'
    BY <1>0, <1>3, <1>4 DEF PooledInv, Effective
  <1> QED
    BY <1>0, <1>1, <1>4, <1>5, <1>6 DEF PooledInv

(* So every step is one of KernelPool, or is not seen there.               *)
LEMMA PooledStep ==
  SoundPool /\ PooledInv /\ [PooledNext]_pooledVars => [Next]_vars /\ SoundPool' /\ PooledInv'
  <1> SUFFICES ASSUME SoundPool, PooledInv, [PooledNext]_pooledVars
               PROVE  [Next]_vars /\ PooledInv'
    BY NextSound
  <1>1. ASSUME NEW t \in Thread, TakesEffect(t) \/ StartsOver(t) \/ OperationEnds(t)
        PROVE  [Next]_vars /\ PooledInv'
    BY <1>1, InsideUnseen, EndSeen
  <1>2. CASE Stops
    BY <1>2, StopsSeen
  <1>3. CASE Elsewhere
    BY <1>3, ElsewhereSeen
  <1>4. CASE UNCHANGED pooledVars
    <2>1. UNCHANGED <<vars, live, done, pc, cur, all, open, stopList>>
      BY <1>4 DEF pooledVars, sessVars, vars, callVars, poolVars, workVars, stopVars
    <2> QED
      BY <2>1 DEF PooledInv, AsSeen, Effective, Operating, ThroughStop
  <1> QED
    BY <1>1, <1>2, <1>3, <1>4, PooledNextMeans DEF PooledInv

(* The invariants of the pool hold with sessions under it, and so do those *)
(* of its view of them.                                                    *)
LEMMA PooledInvariance == PooledSpec => Spec /\ [](SoundPool /\ PooledInv)
  <1> QED
    BY InitPooled, PooledStep, PTL DEF PooledSpec, Spec

(* KernelPool takes every operation on a session for one step.  Nothing a  *)
(* session may do while operations of calls, of the reaper and of stop()   *)
(* overlap on it (kernel.py:107-153, pool.py:98-127, 148-201) is missed by *)
(* that: what the pool sees at the end of each is a step of KernelPool.    *)
THEOREM PooledImplementsPool == PooledSpec => Spec
  BY PooledInvariance, PTL

(* No session is open that nobody will use again or stop, at any moment of *)
(* the operations on it: not only when they end, as NoneForgotten says.    *)
THEOREM NoSessionLeaks == PooledSpec => []NoSessionForgotten
  <1>1. SoundPool /\ PooledInv => NoSessionForgotten
    <2> SUFFICES ASSUME SoundPool, PooledInv, NEW w \in live
                 PROVE  w \in Pooled \cup Held \cup Retiring \cup stopList \cup lost
      BY DEF NoSessionForgotten
    <2>1. CASE \E t \in Operating : cur[t] = w
      BY <2>1, SoundExclusive
    <2>2. CASE \A t \in Operating : cur[t] # w
      BY <2>2 DEF PooledInv, AsSeen, SoundPool, ListInv, NoForgottenKernel
    <2> QED
      BY <2>1, <2>2
  <1> QED
    BY <1>1, PooledInvariance, PTL

(* At most pool_size kernels run at any moment, apart from those that are  *)
(* about to be stopped.                                                    *)
THEOREM SessionsBounded == PooledSpec => []SessionBound
  <1>1. SoundPool /\ NoSessionForgotten => SessionBound
    <2> SUFFICES ASSUME SoundPool, NoSessionForgotten PROVE SessionBound
      OBVIOUS
    <2> DEFINE Live == live \ (Retiring \cup stopList)
    <2>1. /\ IsFiniteSet(Alive) /\ Cardinality(Alive) <= PoolSize
          /\ Live \subseteq Alive
      BY AliveBound DEF SoundPool, NoSessionForgotten, Alive
    <2>2. /\ Cardinality(Live) <= Cardinality(Alive)
          /\ Cardinality(Live) \in Nat /\ Cardinality(Alive) \in Nat
      BY <2>1, FS_Subset, FS_CardinalityType
    <2> QED
      BY <2>1, <2>2, PoolAssumption DEF SessionBound
  <1> QED
    BY <1>1, PooledInvariance, NoSessionLeaks, PTL

-----------------------------------------------------------------------------
(* One party moves: what all others do with the session stays the same.    *)
LEMMA OneParty ==
  ASSUME NEW w, NEW p \in Party,
         \A q \in Party \ {p} : /\ OpOn(w)'[q] = OpOn(w)[q]
                                /\ DoneOn(w)'[q] = DoneOn(w)[q]
  PROVE  /\ OpOn(w)' = [OpOn(w) EXCEPT ![p] = OpOn(w)'[p]]
         /\ DoneOn(w)' = [DoneOn(w) EXCEPT ![p] = DoneOn(w)'[p]]
  <1>1. /\ OpOn(w) = [q \in Party |-> OpOn(w)[q]]
        /\ OpOn(w)' = [q \in Party |-> OpOn(w)'[q]]
        /\ DoneOn(w) = [q \in Party |-> DoneOn(w)[q]]
        /\ DoneOn(w)' = [q \in Party |-> DoneOn(w)'[q]]
    BY DEF OpOn, DoneOn
  <1> HIDE DEF OpOn, DoneOn
  <1> QED
    BY <1>1

(* A call moves; which session it moves on is that of w or another.        *)
CallMoves(t) ==
  /\ \A u \in Thread \ {t} : /\ pc'[u] = pc[u] /\ cur'[u] = cur[u]
                             /\ u \in done' <=> u \in done
  /\ done \subseteq Thread /\ done' \subseteq Thread
  /\ UNCHANGED <<reapList, stopList>>

LEMMA CallParty ==
  ASSUME NEW w, NEW t \in Thread, CallMoves(t)
  PROVE  /\ OpOn(w)' = [OpOn(w) EXCEPT ![Caller(t)] = CallOp(t, w)']
         /\ DoneOn(w)' = [DoneOn(w) EXCEPT ![Caller(t)] = (t \in done' /\ cur'[t] = w)]
         /\ OpOn(w)[Caller(t)] = CallOp(t, w)
         /\ DoneOn(w)[Caller(t)] = (t \in done /\ cur[t] = w)
         /\ Caller(t) \in Party
  <1>0. \A u \in Thread : /\ DoneOn(w)[Caller(u)] = (u \in done /\ cur[u] = w)
                         /\ DoneOn(w)'[Caller(u)] = (u \in done' /\ cur'[u] = w)
    BY DoneFacts, Zenon DEF CallMoves
  <1>1. ASSUME NEW u \in Thread, u # t PROVE CallOp(u, w)' = CallOp(u, w)
    BY <1>1 DEF CallMoves, CallOp
  <1>2. ASSUME NEW q \in Party, q # Caller(t)
        PROVE  OpOn(w)'[q] = OpOn(w)[q] /\ DoneOn(w)'[q] = DoneOn(w)[q]
    <2>1. CASE q = ReaperThread \/ q = Stopper
      <3>1. OpOn(w)'[q] = OpOn(w)[q]
        BY <2>1, OpFacts DEF CallMoves
      <3>2. DoneOn(w)[q] = FALSE /\ DoneOn(w)'[q] = FALSE
        BY <2>1, DoneFacts DEF CallMoves
      <3> QED
        BY <3>1, <3>2
    <2>2. CASE q \notin {ReaperThread, Stopper}
      <3>1. PICK u \in Thread : q = Caller(u) /\ u # t
        BY <1>2, <2>2, PartyFacts
      <3>2. OpOn(w)'[q] = OpOn(w)[q]
        BY <1>1, <3>1, OpFacts
      <3>3. DoneOn(w)'[q] = DoneOn(w)[q]
        <4>1. /\ DoneOn(w)[q] = (u \in done /\ cur[u] = w)
              /\ DoneOn(w)'[q] = (u \in done' /\ cur'[u] = w)
          BY <3>1, <1>0, Zenon
        <4>2. (u \in done' /\ cur'[u] = w) <=> (u \in done /\ cur[u] = w)
          BY <3>1 DEF CallMoves
        <4> QED
          BY <4>1, <4>2
      <3> QED
        BY <3>2, <3>3
    <2> QED
      BY <2>1, <2>2
  <1>3. Caller(t) \in Party
    BY PartyFacts
  <1>4. OpOn(w)[Caller(t)] = CallOp(t, w) /\ OpOn(w)'[Caller(t)] = CallOp(t, w)'
    BY OpFacts
  <1> HIDE DEF CallOp
  <1> QED
    BY <1>0, <1>2, <1>3, <1>4, OneParty

(* A thread that is no call moves.                                         *)
LEMMA ThreadParty ==
  ASSUME NEW w, NEW p \in {ReaperThread, Stopper},
         UNCHANGED <<pc, cur, done>>, done \subseteq Thread,
         p # ReaperThread => UNCHANGED reapList, p # Stopper => UNCHANGED stopList
  PROVE  /\ OpOn(w)' = [OpOn(w) EXCEPT ![p] = OpOn(w)'[p]]
         /\ DoneOn(w)' = [DoneOn(w) EXCEPT ![p] = FALSE]
         /\ DoneOn(w)' = DoneOn(w)
         /\ p \in Party
  <1>1. ASSUME NEW q \in Party, q # p
        PROVE  OpOn(w)'[q] = OpOn(w)[q]
    <2>1. CASE q = ReaperThread \/ q = Stopper
      BY <1>1, <2>1, OpFacts
    <2>2. CASE q \notin {ReaperThread, Stopper}
      <3>1. PICK u \in Thread : q = Caller(u)
        BY <1>1, <2>2, PartyFacts
      <3>2. CallOp(u, w)' = CallOp(u, w)
        BY DEF CallOp
      <3> QED
        BY <3>1, <3>2, OpFacts
    <2> QED
      BY <2>1, <2>2
  <1>2. DoneOn(w)' = DoneOn(w)
    BY DEF DoneOn
  <1>3. p \in Party /\ DoneOn(w)'[p] = FALSE
    BY PartyFacts, DoneFacts
  <1> QED
    BY <1>1, <1>2, <1>3, OneParty

(* Whether what a call is doing with the session of w has taken effect.    *)
Effected(t, w) == t \in done /\ cur[t] = w

LEMMA FunctionsOn ==
  ASSUME NEW w, NEW p \in Party
  PROVE  /\ OpOn(w) = [OpOn(w) EXCEPT ![p] = OpOn(w)[p]]
         /\ DoneOn(w) = [DoneOn(w) EXCEPT ![p] = DoneOn(w)[p]]
  BY DEF OpOn, DoneOn

(* Who has raised, for one session after the other.                        *)
LEMMA RaisedFacts ==
  ASSUME NEW w, NEW t \in Thread, NEW v
  PROVE  /\ raised' = raised => RaisedOn(w)' = RaisedOn(w)
         /\ raised' = raised \ {<<t, v>>} =>
              RaisedOn(w)' = IF v = w THEN RaisedOn(w) \ {Caller(t)} ELSE RaisedOn(w)
         /\ raised' = raised \cup {<<t, v>>} =>
              RaisedOn(w)' = IF v = w THEN RaisedOn(w) \cup {Caller(t)} ELSE RaisedOn(w)
         /\ ReaperThread \notin RaisedOn(w) /\ Stopper \notin RaisedOn(w)
  <1>1. /\ RaisedOn(w) = {Caller(u) : u \in {x \in Thread : <<x, w>> \in raised}}
        /\ RaisedOn(w)' = {Caller(u) : u \in {x \in Thread : <<x, w>> \in raised'}}
    BY DEF RaisedOn
  <1>2. \A u \in Thread : <<u, w>> = <<t, v>> <=> (u = t /\ w = v)
    OBVIOUS
  <1>3. \A u \in Thread : Caller(u) = Caller(t) <=> u = t
    BY PartyFacts
  <1>4. ASSUME raised' = raised \ {<<t, v>>}
        PROVE  RaisedOn(w)' = IF v = w THEN RaisedOn(w) \ {Caller(t)} ELSE RaisedOn(w)
    BY <1>1, <1>2, <1>3, <1>4
  <1>5. ASSUME raised' = raised \cup {<<t, v>>}
        PROVE  RaisedOn(w)' = IF v = w THEN RaisedOn(w) \cup {Caller(t)} ELSE RaisedOn(w)
    BY <1>1, <1>2, <1>3, <1>5
  <1>6. ReaperThread \notin RaisedOn(w) /\ Stopper \notin RaisedOn(w)
    BY <1>1, PartyFacts
  <1> QED
    BY <1>1, <1>4, <1>5, <1>6

(* What a move of a call is, for the session of w.                         *)
LEMMA CallSession ==
  ASSUME NEW w, NEW t \in Thread, CallMoves(t),
         \/ /\ CallOp(t, w)' = CallOp(t, w) /\ (Effected(t, w)' <=> Effected(t, w))
            /\ (w \in live' <=> w \in live) /\ RaisedOn(w)' = RaisedOn(w)
         \/ /\ CallOp(t, w) = "none" /\ CallOp(t, w)' \in {"start", "evaluate", "stop"}
            /\ ~Effected(t, w) /\ ~Effected(t, w)' /\ (w \in live' <=> w \in live)
            /\ RaisedOn(w)' = RaisedOn(w)
         \/ /\ CallOp(t, w) \in {"start", "evaluate"} /\ CallOp(t, w)' = CallOp(t, w)
            /\ ~Effected(t, w) /\ Effected(t, w)' /\ w \in live'
            /\ RaisedOn(w)' = RaisedOn(w)
         \/ /\ CallOp(t, w) = "evaluate" /\ CallOp(t, w)' = CallOp(t, w)
            /\ ~Effected(t, w)' /\ (w \in live' => w \in live)
            /\ RaisedOn(w)' = RaisedOn(w)
         \/ /\ CallOp(t, w) \in {"start", "evaluate"}
            /\ IF Effected(t, w) THEN (w \in live' <=> w \in live) ELSE w \in live'
            /\ CallOp(t, w)' \in {"none", "start", "evaluate", "stop"} /\ ~Effected(t, w)'
            /\ RaisedOn(w)' = RaisedOn(w) \ {Caller(t)}
         \/ /\ CallOp(t, w) \in {"start", "evaluate"} /\ (Effected(t, w) \/ StartMayFail)
            /\ CallOp(t, w)' \in {"none", "start", "evaluate", "stop"} /\ ~Effected(t, w)'
            /\ (w \in live' <=> w \in live) /\ RaisedOn(w)' = RaisedOn(w) \cup {Caller(t)}
         \/ /\ CallOp(t, w) = "stop" /\ w \notin live'
            /\ CallOp(t, w)' \in {"none", "start", "evaluate", "stop"} /\ ~Effected(t, w)'
            /\ RaisedOn(w)' = RaisedOn(w) \ {Caller(t)}
  PROVE  [SessionOf(w)!Next]_(SessionOf(w)!vars)
  <1> DEFINE p == Caller(t)
  <1>1. /\ OpOn(w)' = [OpOn(w) EXCEPT ![p] = CallOp(t, w)']
        /\ DoneOn(w)' = [DoneOn(w) EXCEPT ![p] = Effected(t, w)']
        /\ OpOn(w)[p] = CallOp(t, w)
        /\ DoneOn(w)[p] = Effected(t, w)
        /\ p \in Party
    BY CallParty DEF Effected
  <1>2. /\ OpOn(w) = [OpOn(w) EXCEPT ![p] = CallOp(t, w)]
        /\ DoneOn(w) = [DoneOn(w) EXCEPT ![p] = Effected(t, w)]
    BY <1>1, FunctionsOn
  <1>b. /\ Effected(t, w) \in BOOLEAN /\ Effected(t, w)' \in BOOLEAN
        /\ (w \in live) \in BOOLEAN /\ (w \in live') \in BOOLEAN
    BY DEF Effected
  <1> HIDE DEF Effected, CallOp, p, RaisedOn
  <1>3. CASE /\ CallOp(t, w)' = CallOp(t, w) /\ (Effected(t, w)' <=> Effected(t, w))
             /\ (w \in live' <=> w \in live) /\ RaisedOn(w)' = RaisedOn(w)
    <2>1. OpOn(w)' = OpOn(w)
      BY <1>1, <1>2, <1>3
    <2>2. DoneOn(w)' = DoneOn(w)
      BY <1>1, <1>2, <1>3, <1>b
    <2>3. (w \in live)' = (w \in live)
      BY <1>3
    <2> QED
      BY <1>3, <2>1, <2>2, <2>3 DEF SessionOf!vars
  <1>4. CASE /\ CallOp(t, w) = "none" /\ CallOp(t, w)' \in {"start", "evaluate", "stop"}
             /\ ~Effected(t, w) /\ ~Effected(t, w)' /\ (w \in live' <=> w \in live)
             /\ RaisedOn(w)' = RaisedOn(w)
    <2>2. DoneOn(w)' = DoneOn(w)
      BY <1>1, <1>2, <1>4, <1>b
    <2>3. (w \in live)' = (w \in live)
      BY <1>4
    <2>4. SessionOf(w)!Begin(p)
      BY <1>1, <1>4, <2>2, <2>3
      DEF SessionOf!Begin, SessionOf!Operation, SessionOf!Opening
    <2> QED
      BY <1>1, <2>4 DEF SessionOf!Next
  <1>5. CASE /\ CallOp(t, w) \in {"start", "evaluate"} /\ CallOp(t, w)' = CallOp(t, w)
             /\ ~Effected(t, w) /\ Effected(t, w)' /\ w \in live'
             /\ RaisedOn(w)' = RaisedOn(w)
    <2>1. OpOn(w)' = OpOn(w)
      BY <1>1, <1>2, <1>5
    <2>2. /\ DoneOn(w)' = [DoneOn(w) EXCEPT ![p] = TRUE] /\ ~DoneOn(w)[p]
          /\ (w \in live)' = TRUE
      BY <1>1, <1>5, <1>b
    <2>4. SessionOf(w)!TakesEffect(p)
      BY <1>1, <1>5, <2>1, <2>2 DEF SessionOf!TakesEffect, SessionOf!Opening
    <2> QED
      BY <1>1, <2>4 DEF SessionOf!Next
  <1>6. CASE /\ CallOp(t, w) = "evaluate" /\ CallOp(t, w)' = CallOp(t, w)
             /\ ~Effected(t, w)' /\ (w \in live' => w \in live)
             /\ RaisedOn(w)' = RaisedOn(w)
    <2>1. OpOn(w)' = OpOn(w)
      BY <1>1, <1>2, <1>6
    <2>2. DoneOn(w)' = [DoneOn(w) EXCEPT ![p] = FALSE]
      BY <1>1, <1>6, <1>b
    <2>3. (w \in live)' \in {(w \in live), FALSE}
      <3>1. (w \in live)' = (w \in live) \/ (w \in live)' = FALSE
        BY <1>6
      <3> QED
        BY <3>1, Zenon
    <2>4. SessionOf(w)!StartsOver(p)
      BY <1>1, <1>6, <2>1, <2>2, <2>3 DEF SessionOf!StartsOver
    <2> QED
      BY <1>1, <2>4 DEF SessionOf!Next
  <1>e. ASSUME CallOp(t, w)' \in {"none", "start", "evaluate", "stop"}, ~Effected(t, w)'
        PROVE  SessionOf(w)!Ends(p)
    <2>1. \E next \in SessionOf(w)!Operation \cup {"none"} :
            OpOn(w)' = [OpOn(w) EXCEPT ![p] = next]
      BY <1>1, <1>e DEF SessionOf!Operation, SessionOf!Opening
    <2>2. DoneOn(w)' = [DoneOn(w) EXCEPT ![p] = FALSE]
      BY <1>1, <1>e, <1>b
    <2> QED
      BY <2>1, <2>2 DEF SessionOf!Ends
  <1>7. ASSUME /\ CallOp(t, w)' \in {"none", "start", "evaluate", "stop"}
               /\ ~Effected(t, w)' /\ RaisedOn(w)' = RaisedOn(w) \ {p},
               \/ /\ CallOp(t, w) \in {"start", "evaluate"}
                  /\ IF Effected(t, w) THEN (w \in live' <=> w \in live) ELSE w \in live'
               \/ CallOp(t, w) = "stop" /\ w \notin live'
        PROVE  SessionOf(w)!Next
    <2>1. SessionOf(w)!Ends(p)
      BY <1>e, <1>7
    <2>3. \/ OpOn(w)[p] \in SessionOf(w)!Opening /\ ~DoneOn(w)[p] /\ (w \in live)' = TRUE
          \/ OpOn(w)[p] \in SessionOf(w)!Opening /\ DoneOn(w)[p] /\ (w \in live)' = (w \in live)
          \/ OpOn(w)[p] = "stop" /\ (w \in live)' = FALSE
      BY <1>1, <1>7, <1>b DEF SessionOf!Opening
    <2>4. SessionOf(w)!Returns(p)
      BY <1>7, <2>1, <2>3 DEF SessionOf!Returns
    <2> QED
      BY <1>1, <2>4 DEF SessionOf!Next
  <1>8. CASE /\ CallOp(t, w) \in {"start", "evaluate"} /\ (Effected(t, w) \/ StartMayFail)
             /\ CallOp(t, w)' \in {"none", "start", "evaluate", "stop"} /\ ~Effected(t, w)'
             /\ (w \in live' <=> w \in live) /\ RaisedOn(w)' = RaisedOn(w) \cup {p}
    <2>1. SessionOf(w)!Ends(p)
      BY <1>e, <1>8
    <2>2. (w \in live)' = (w \in live)
      BY <1>8
    <2>3. OpOn(w)[p] \in SessionOf(w)!Opening /\ (DoneOn(w)[p] \/ StartMayFail)
      BY <1>1, <1>8, <1>b DEF SessionOf!Opening
    <2>4. SessionOf(w)!Raises(p)
      BY <1>8, <2>1, <2>2, <2>3 DEF SessionOf!Raises
    <2> QED
      BY <1>1, <2>4 DEF SessionOf!Next
  <1> QED
    BY <1>3, <1>4, <1>5, <1>6, <1>7, <1>8 DEF p

(* What a move of the reaper or of stop() is, for the session of w.        *)
LEMMA ThreadSession ==
  ASSUME NEW w, NEW p \in {ReaperThread, Stopper},
         UNCHANGED <<pc, cur, done, raised>>, done \subseteq Thread,
         p # ReaperThread => UNCHANGED reapList, p # Stopper => UNCHANGED stopList,
         \/ OpOn(w)'[p] = OpOn(w)[p] /\ (w \in live' <=> w \in live)
         \/ OpOn(w)[p] = "none" /\ OpOn(w)'[p] = "stop" /\ (w \in live' <=> w \in live)
         \/ OpOn(w)[p] = "stop" /\ OpOn(w)'[p] = "none" /\ w \notin live'
  PROVE  [SessionOf(w)!Next]_(SessionOf(w)!vars)
  <1>1. /\ OpOn(w)' = [OpOn(w) EXCEPT ![p] = OpOn(w)'[p]]
        /\ DoneOn(w)' = [DoneOn(w) EXCEPT ![p] = FALSE]
        /\ DoneOn(w)' = DoneOn(w)
        /\ p \in Party
    BY ThreadParty
  <1>2. OpOn(w) = [OpOn(w) EXCEPT ![p] = OpOn(w)[p]]
    BY <1>1, FunctionsOn
  <1>r. RaisedOn(w)' = RaisedOn(w) /\ RaisedOn(w)' = RaisedOn(w) \ {p}
    <2>1. RaisedOn(w)' = RaisedOn(w)
      BY DEF RaisedOn
    <2>2. p \notin RaisedOn(w)
      BY PartyFacts DEF RaisedOn
    <2> QED
      BY <2>1, <2>2
  <1> HIDE DEF OpOn, DoneOn, RaisedOn
  <1>3. CASE OpOn(w)'[p] = OpOn(w)[p] /\ (w \in live' <=> w \in live)
    <2>1. OpOn(w)' = OpOn(w)
      BY <1>1, <1>2, <1>3
    <2>2. (w \in live)' = (w \in live)
      BY <1>3
    <2> QED
      BY <1>1, <1>r, <2>1, <2>2 DEF SessionOf!vars
  <1>4. CASE OpOn(w)[p] = "none" /\ OpOn(w)'[p] = "stop" /\ (w \in live' <=> w \in live)
    <2>1. (w \in live)' = (w \in live)
      BY <1>4
    <2>2. SessionOf(w)!Begin(p)
      BY <1>1, <1>r, <1>4, <2>1 DEF SessionOf!Begin, SessionOf!Operation
    <2> QED
      BY <1>1, <2>2 DEF SessionOf!Next
  <1>5. CASE OpOn(w)[p] = "stop" /\ OpOn(w)'[p] = "none" /\ w \notin live'
    <2>1. (w \in live)' = FALSE
      BY <1>5
    <2>2. SessionOf(w)!Returns(p)
      BY <1>1, <1>r, <1>5, <2>1 DEF SessionOf!Returns, SessionOf!Ends
    <2> QED
      BY <1>1, <2>2 DEF SessionOf!Next
  <1> QED
    BY <1>3, <1>4, <1>5

(* Steps that concern no session.                                          *)
LEMMA OpenStutters ==
  ASSUME NEW w, UNCHANGED <<pc, cur, reapList, stopList, live, done, raised>>
  PROVE  UNCHANGED SessionOf(w)!vars
  <1>1. UNCHANGED <<OpOn(w), DoneOn(w), w \in live, RaisedOn(w)>>
    BY DEF OpOn, CallOp, DoneOn, RaisedOn
  <1> QED
    BY <1>1 DEF SessionOf!vars

(* An operation of a call on its own worker, or on another.                *)
LEMMA OperationStep ==
  ASSUME NEW w \in Worker, SoundPool, PooledInv, NEW t \in Thread,
         TakesEffect(t) \/ StartsOver(t) \/ OperationEnds(t)
  PROVE  [SessionOf(w)!Next]_(SessionOf(w)!vars)
  <1>0. done \subseteq Thread /\ done' \subseteq done \cup {t}
    BY SoundExclusive DEF PooledInv, TakesEffect, StartsOver, OperationEnds
  <1>1. CASE TakesEffect(t) \/ StartsOver(t)
    <2>0. RaisedOn(w)' = RaisedOn(w)
      BY <1>1, RaisedFacts DEF TakesEffect, StartsOver
    <2>1. UNCHANGED <<pc, cur, reapList, stopList>>
      BY <1>1 DEF TakesEffect, StartsOver, vars, callVars, reapVars, stopVars
    <2>2. CallMoves(t) /\ CallOp(t, w)' = CallOp(t, w)
      BY <1>0, <1>1, <2>1 DEF CallMoves, CallOp, TakesEffect, StartsOver
    <2>3. CASE cur[t] = w
      BY <1>1, <2>0, <2>1, <2>2, <2>3, CallSession
      DEF TakesEffect, StartsOver, Operating, CallOp, Effected
    <2>4. CASE cur[t] # w
      BY <1>1, <2>0, <2>1, <2>2, <2>4, CallSession DEF TakesEffect, StartsOver, Effected
    <2> QED
      BY <2>3, <2>4
  <1>2. CASE OperationEnds(t)
    <2>1. /\ CallMoves(t) /\ t \notin done' /\ pc[t] \in {"start", "use", "cleanup"}
          /\ \/ live' = IF t \in done THEN live ELSE live \cup {cur[t]}
             \/ live' = live
          /\ cur'[t] = cur[t] \/ cur'[t] = NoWorker
      BY <1>0, <1>2, SoundExclusive
      DEF CallMoves, OperationEnds, OperationReturns, OperationRaises, Goto, reapVars, stopVars
    <2>2. ~Effected(t, w)' /\ CallOp(t, w)' \in {"none", "start", "evaluate", "stop"}
      BY <2>1 DEF Effected, CallOp
    <2>3. CASE cur[t] = w
      <3>1. CallOp(t, w) \in {"start", "evaluate"}
        BY <2>1, <2>3 DEF CallOp
      <3>2. CASE OperationReturns(t)
        <4>1. IF Effected(t, w) THEN (w \in live' <=> w \in live) ELSE w \in live'
          BY <2>3, <3>2 DEF Effected, OperationReturns
        <4>2. RaisedOn(w)' = RaisedOn(w) \ {Caller(t)}
          BY <2>3, <3>2, RaisedFacts DEF OperationReturns
        <4> QED
          BY <2>1, <2>2, <3>1, <4>1, <4>2, CallSession
      <3>3. CASE OperationRaises(t)
        <4>1. Effected(t, w) \/ StartMayFail
          BY <2>3, <3>3 DEF Effected, OperationRaises
        <4>2. RaisedOn(w)' = RaisedOn(w) \cup {Caller(t)} /\ (w \in live' <=> w \in live)
          BY <2>3, <3>3, RaisedFacts DEF OperationRaises
        <4> QED
          BY <2>1, <2>2, <3>1, <4>1, <4>2, CallSession
      <3> QED
        BY <1>2, <3>2, <3>3 DEF OperationEnds
    <2>4. CASE cur[t] # w
      <3>1. CallOp(t, w) = "none" /\ CallOp(t, w)' = "none" /\ ~Effected(t, w)
        BY <2>1, <2>4, PoolAssumption DEF CallOp, Effected
      <3>2. w \in live' <=> w \in live
        BY <2>1, <2>4
      <3>3. RaisedOn(w)' = RaisedOn(w)
        BY <1>2, <2>4, RaisedFacts DEF OperationEnds, OperationReturns, OperationRaises
      <3> QED
        BY <2>1, <2>2, <3>1, <3>2, <3>3, CallSession
    <2> QED
      BY <2>3, <2>4
  <1> QED
    BY <1>1, <1>2

(* A stop() of its own worker's session, or of another.                    *)
LEMMA StopStepOf ==
  ASSUME NEW w \in Worker, SoundPool, PooledInv, Stops
  PROVE  [SessionOf(w)!Next]_(SessionOf(w)!vars)
  <1>0. done \subseteq Thread /\ \A t \in done : pc[t] # "stopOld"
    BY SoundExclusive DEF PooledInv, Operating
  <1>1. ASSUME NEW t \in Thread, OldEnds(t), StopEnds(cur[t]),
               raised' = raised \ {<<t, cur[t]>>}
        PROVE  [SessionOf(w)!Next]_(SessionOf(w)!vars)
    <2>1. /\ CallMoves(t) /\ t \notin done /\ t \notin done' /\ pc[t] = "stopOld"
          /\ pc'[t] = "signal" /\ live' = live \ {cur[t]}
      BY <1>0, <1>1, SoundExclusive
      DEF CallMoves, Goto, StopEnds, reapVars, stopVars
    <2>2. ~Effected(t, w) /\ ~Effected(t, w)' /\ CallOp(t, w)' = "none"
      BY <2>1 DEF Effected, CallOp
    <2>3. CallOp(t, w) = IF cur[t] = w THEN "stop" ELSE "none"
      BY <2>1 DEF CallOp
    <2>4. IF cur[t] = w THEN w \notin live' ELSE (w \in live' <=> w \in live)
      BY <2>1
    <2>5. RaisedOn(w)' = IF cur[t] = w THEN RaisedOn(w) \ {Caller(t)} ELSE RaisedOn(w)
      BY <1>1, RaisedFacts
    <2> QED
      BY <2>1, <2>2, <2>3, <2>4, <2>5, CallSession
  <1>2. ASSUME NEW v \in reapList, ReapedEnds(v), StopEnds(v), UNCHANGED raised
        PROVE  [SessionOf(w)!Next]_(SessionOf(w)!vars)
    <2>1. /\ UNCHANGED <<pc, cur, done, stopList>> /\ reapList' = reapList \ {v}
          /\ live' = live \ {v}
      BY <1>2 DEF callVars, stopVars, StopEnds
    <2>2. IF w = v THEN /\ OpOn(w)[ReaperThread] = "stop"
                        /\ OpOn(w)'[ReaperThread] = "none" /\ w \notin live'
                   ELSE /\ OpOn(w)'[ReaperThread] = OpOn(w)[ReaperThread]
                        /\ w \in live' <=> w \in live
      BY <2>1, OpFacts
    <2> QED
      BY <1>0, <1>2, <2>1, <2>2, ThreadSession
  <1>3. ASSUME NEW v \in stopList, ListedEnds(v), StopEnds(v), UNCHANGED raised
        PROVE  [SessionOf(w)!Next]_(SessionOf(w)!vars)
    <2>1. /\ UNCHANGED <<pc, cur, done, reapList>> /\ stopList' = stopList \ {v}
          /\ live' = live \ {v}
      BY <1>3 DEF callVars, reapVars, StopEnds
    <2>2. IF w = v THEN /\ OpOn(w)[Stopper] = "stop"
                        /\ OpOn(w)'[Stopper] = "none" /\ w \notin live'
                   ELSE /\ OpOn(w)'[Stopper] = OpOn(w)[Stopper]
                        /\ w \in live' <=> w \in live
      BY <2>1, OpFacts
    <2> QED
      BY <1>0, <1>3, <2>1, <2>2, ThreadSession
  <1> QED
    BY <1>1, <1>2, <1>3 DEF Stops

(* The steps of the pool that begin an operation, and those that do not.   *)
LEMMA ElsewhereStep ==
  ASSUME NEW w \in Worker, SoundPool, PooledInv, Elsewhere
  PROVE  [SessionOf(w)!Next]_(SessionOf(w)!vars)
  <1>0. /\ done \subseteq Thread /\ UNCHANGED <<live, done, raised>>
        /\ RaisedOn(w)' = RaisedOn(w)
        /\ \A t \in done : pc[t] \in {"start", "use", "cleanup"}
    BY SoundExclusive DEF PooledInv, Operating, Elsewhere, sessVars, RaisedOn
  <1>1. ASSUME NEW t \in Thread,
               \/ Call(t) \/ AcquirePermit(t) \/ TakeIdle(t) \/ TakeNew(t) \/ Bump(t)
               \/ ReleaseBack(t) \/ ReleaseRecycle(t) \/ Signal(t)
        PROVE  [SessionOf(w)!Next]_(SessionOf(w)!vars)
    <2>1. CallMoves(t)
      BY <1>0, <1>1, SoundExclusive
      DEF CallMoves, Call, AcquirePermit, TakeIdle, TakeNew, Bump, ReleaseBack,
          ReleaseRecycle, Signal, Goto, reapVars, stopVars
    <2>2. /\ pc[t] \in {"out", "wait", "take", "bump", "release", "signal"}
          /\ pc'[t] \in {"wait", "take", "start", "release", "signal", "stopOld", "out"}
      BY <1>1, SoundExclusive
      DEF Call, AcquirePermit, TakeIdle, TakeNew, Bump, ReleaseBack, ReleaseRecycle,
          Signal, Goto
    <2>3. /\ CallOp(t, w) = "none" /\ CallOp(t, w)' \in {"none", "start", "stop"}
          /\ ~Effected(t, w) /\ ~Effected(t, w)'
      BY <1>0, <2>2 DEF CallOp, Effected
    <2> QED
      BY <1>0, <2>1, <2>3, CallSession
  <1>2. CASE ReapIdle
    <2>1. /\ UNCHANGED <<pc, cur, stopList>> /\ reapList = {}
      BY <1>2 DEF ReapIdle, callVars, stopVars, SoundPool, ListInv, ToStopInv
    <2>2. OpOn(w)[ReaperThread] = "none" /\ OpOn(w)'[ReaperThread] \in {"none", "stop"}
      BY <2>1, OpFacts
    <2> QED
      BY <1>0, <2>1, <2>2, ThreadSession
  <1>3. CASE StopClears
    <2>1. /\ UNCHANGED <<pc, cur, reapList>> /\ stopList = {}
      BY <1>3 DEF StopClears, callVars, reapVars, SoundPool, StopInv, Emptied
    <2>2. OpOn(w)[Stopper] = "none" /\ OpOn(w)'[Stopper] \in {"none", "stop"}
      BY <2>1, OpFacts
    <2> QED
      BY <1>0, <2>1, <2>2, ThreadSession
  <1>4. CASE \/ ReaperNow \/ ReaperExit \/ ReaperDies \/ ReaperDone
             \/ StopBegins \/ Joined \/ StopReturns \/ Tick
    <2>1. UNCHANGED <<pc, cur, reapList, stopList>>
      BY <1>4 DEF ReaperNow, ReaperExit, ReaperDies, ReaperDone, StopBegins, Joined,
                  StopReturns, Tick, callVars, reapVars, stopVars
    <2> QED
      BY <1>0, <2>1, OpenStutters
  <1> QED
    BY <1>1, <1>2, <1>3, <1>4 DEF Elsewhere

(* The pool uses each session as OpenSession provides for: no party begins *)
(* an operation on it while one of its own is under way, and the session   *)
(* only changes by those operations (pool.py:98-127, 148-226).             *)
THEOREM SessionsImplemented ==
  ASSUME NEW w \in Worker
  PROVE  PooledSpec => SessionOf(w)!Spec
  <1>1. PooledInit => SessionOf(w)!Init
    <2> SUFFICES ASSUME PooledInit PROVE SessionOf(w)!Init
      OBVIOUS
    <2>1. /\ \A t \in Thread : CallOp(t, w) = "none"
          /\ done = {} /\ raised = {} /\ w \notin live /\ reapList = {} /\ stopList = {}
      BY DEF PooledInit, Init, CallOp
    <2>2. \A p \in Party : OpOn(w)[p] = "none"
      BY <2>1, OpFacts, PartyFacts
    <2>3. OpOn(w) = [p \in Party |-> "none"]
      BY <2>2 DEF OpOn
    <2>4. /\ DoneOn(w) = [p \in Party |-> FALSE] /\ (w \in live) = FALSE
          /\ RaisedOn(w) = {}
      BY <2>1 DEF DoneOn, RaisedOn
    <2> QED
      BY <2>3, <2>4 DEF SessionOf!Init
  <1>2. SoundPool /\ PooledInv /\ [PooledNext]_pooledVars
          => [SessionOf(w)!Next]_(SessionOf(w)!vars)
    <2> SUFFICES ASSUME SoundPool, PooledInv, [PooledNext]_pooledVars
                 PROVE  [SessionOf(w)!Next]_(SessionOf(w)!vars)
      OBVIOUS
    <2>1. CASE UNCHANGED pooledVars
      <3>1. UNCHANGED <<pc, cur, reapList, stopList, live, done, raised>>
        BY <2>1 DEF pooledVars, sessVars, vars, callVars, reapVars, stopVars
      <3> QED
        BY <3>1, OpenStutters
    <2>2. CASE PooledNext
      BY <2>2, PooledNextMeans, OperationStep, StopStepOf, ElsewhereStep DEF PooledInv
    <2> QED
      BY <2>1, <2>2
  <1> QED
    BY <1>1, <1>2, PooledInvariance, PTL DEF PooledSpec, SessionOf!Spec
=============================================================================
