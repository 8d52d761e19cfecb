------------------------- MODULE KernelPool_proofs -------------------------
(***************************************************************************)
(* Proofs about KernelPool, for every number of threads, pool size,        *)
(* recycle limit and timeout.                                              *)
(***************************************************************************)
EXTENDS KernelPool, FiniteSetTheorems, SequenceTheorems, TLAPS

(* Small helpers are expanded everywhere. *)
USE DEF Available, Popped, GivenBack, Replaced, Closed, Excess,
        Ends, StartRaises, OldEnds, ReapedEnds, ListedEnds

-----------------------------------------------------------------------------
(* The operations on _idle.                                                *)

(* Dropping the last element, as list.pop() does. *)
LEMMA FrontFacts ==
  ASSUME NEW S, NEW s \in Seq(S), s # <<>>
  PROVE  LET f == SubSeq(s, 1, Len(s) - 1)
         IN  /\ f \in Seq(S)
             /\ Len(f) = Len(s) - 1
             /\ \A i \in 1..Len(f) : f[i] = s[i]
             /\ Len(s) \in 1..Len(s)
             /\ s[Len(s)] \in S
  <1>1. Len(s) \in Nat \ {0}
    BY EmptySeq
  <1>2. \A i \in 1..(Len(s) - 1) : s[i] \in S
    BY <1>1, ElementOfSeq
  <1>3. PICK n \in Nat : Len(s) = n + 1
    BY <1>1
  <1>4. /\ SubSeq(s, 1, n) \in Seq(S)
        /\ Len(SubSeq(s, 1, n)) = IF 1 <= n THEN n - 1 + 1 ELSE 0
        /\ \A i \in 1..(n - 1 + 1) : SubSeq(s, 1, n)[i] = s[1 + i - 1]
    BY <1>2, <1>3, SubSeqProperties
  <1>5. Len(s) \in 1..Len(s) /\ s[Len(s)] \in S
    BY <1>1, ElementOfSeq
  <1>6. Len(s) - 1 = n
    BY <1>3
  <1>7. Len(SubSeq(s, 1, n)) = n
    BY <1>4
  <1>8. \A i \in 1..n : SubSeq(s, 1, n)[i] = s[i]
    BY <1>4
  <1> QED
    BY <1>4, <1>5, <1>6, <1>7, <1>8

(* Dropping a prefix of length n, as n times list.pop(0) does. *)
LEMMA SuffixFacts ==
  ASSUME NEW S, NEW s \in Seq(S), NEW n \in 0..Len(s)
  PROVE  LET f == SubSeq(s, n + 1, Len(s))
         IN  /\ f \in Seq(S)
             /\ Len(f) = Len(s) - n
             /\ \A i \in 1..Len(f) : f[i] = s[i + n]
  BY SMT

(* list.append *)
LEMMA AppendFacts ==
  ASSUME NEW S, NEW s \in Seq(S), NEW x \in S
  PROVE  /\ Append(s, x) \in Seq(S)
         /\ Len(Append(s, x)) = Len(s) + 1
         /\ \A i \in 1..Len(s) : Append(s, x)[i] = s[i]
         /\ Append(s, x)[Len(s) + 1] = x
  BY SMT

(* Positions of a list that is one shorter, one longer, or n shorter. *)
LEMMA Positions ==
  ASSUME NEW m \in Nat, NEW k \in Nat
  PROVE  /\ k = m - 1 => /\ \A i \in 1..k : i \in 1..m /\ i # m
                         /\ \A i \in 1..m : i \in 1..k \/ i = m
         /\ k = m + 1 => \A i \in 1..k : i \in 1..m \/ i = m + 1
         /\ \A n \in 0..m : k = m - n =>
              /\ \A i \in 1..k : i + n \in 1..m /\ i + n \notin 1..n
              /\ \A i, j \in 1..k : i + n = j + n => i = j
              /\ \A i \in 1..m : i \notin 1..n => i - n \in 1..k /\ (i - n) + n = i
  BY SMT

(* pool.py:58 clamps the minimum of idle workers to the pool. *)
LEMMA MinIdleRange == MinIdle \in 1..PoolSize
  BY PoolAssumption DEF MinIdle

-----------------------------------------------------------------------------
(* Type correctness.                                                       *)

(* A thread that deals with a worker has one. *)
CurInv ==
  \A t \in Thread : pc[t] \in HoldsWorker \cup {"stopOld"} => cur[t] \in Worker

TypeInv == TypeOK /\ CurInv

LEMMA InitType == Init => TypeInv
  <1> SUFFICES ASSUME Init PROVE TypeInv
    OBVIOUS
  <1>1. idle \in Seq(Worker)
    BY MinIdleRange, PoolAssumption, SMT DEF Init
  <1>2. Pooled \subseteq Worker
    BY <1>1 DEF Pooled
  <1> QED
    BY <1>1, <1>2, PoolAssumption
    DEF Init, TypeInv, TypeOK, CurInv, HoldsWorker, Phase

LEMMA NextType == TypeInv /\ [Next]_vars => TypeInv'
  <1> SUFFICES ASSUME TypeInv, [Next]_vars PROVE TypeInv'
    OBVIOUS
  <1> USE PoolAssumption DEF TypeInv, TypeOK, CurInv, HoldsWorker, Phase, Goto
  <1>1. ASSUME NEW t \in Thread, Call(t) PROVE TypeInv'
    BY <1>1 DEF Call, poolVars, workVars, reapVars, stopVars
  <1>2. ASSUME NEW t \in Thread, AcquirePermit(t) PROVE TypeInv'
    BY <1>2 DEF AcquirePermit, workVars, reapVars, stopVars
  <1>3. ASSUME NEW t \in Thread, TakeIdle(t) PROVE TypeInv'
    BY <1>3, FrontFacts DEF TakeIdle, Forget, reapVars, stopVars
  <1>4. ASSUME NEW t \in Thread, TakeNew(t) PROVE TypeInv'
    BY <1>4 DEF TakeNew, Fresh, workVars, reapVars, stopVars
  <1>5. ASSUME NEW t \in Thread, Start(t) PROVE TypeInv'
    BY <1>5 DEF Start, Opens, poolVars, reapVars, stopVars
  <1>6. ASSUME NEW t \in Thread, StartFails(t) PROVE TypeInv'
    BY <1>6 DEF StartFails, Opens, Raised, Forget, poolVars, reapVars, stopVars
  <1>7. ASSUME NEW t \in Thread, Use(t) PROVE TypeInv'
    BY <1>7 DEF Use, Opens, Raised, poolVars, reapVars, stopVars
  <1>8. ASSUME NEW t \in Thread, Cleanup(t) PROVE TypeInv'
    BY <1>8 DEF Cleanup, Opens, Raised, poolVars, reapVars, stopVars
  <1>9. ASSUME NEW t \in Thread, Bump(t) PROVE TypeInv'
    BY <1>9 DEF Bump, poolVars, stopVars
  <1>10. ASSUME NEW t \in Thread, ReleaseBack(t) PROVE TypeInv'
    BY <1>10, AppendFacts DEF ReleaseBack, workVars, reapVars, stopVars
  <1>11. ASSUME NEW t \in Thread, ReleaseRecycle(t) PROVE TypeInv'
    BY <1>11, AppendFacts DEF ReleaseRecycle, Fresh, Forget, reapVars, stopVars
  <1>12. ASSUME NEW t \in Thread, StopOld(t) PROVE TypeInv'
    BY <1>12 DEF StopOld, poolVars, reapVars, stopVars
  <1>13. ASSUME NEW t \in Thread, Signal(t) PROVE TypeInv'
    BY <1>13 DEF Signal, workVars, reapVars, stopVars
  <1>14. CASE ReaperNow
    BY <1>14 DEF ReaperNow, Aging, Pooled, callVars, poolVars, workVars, stopVars
  <1>15. CASE ReaperExit
    BY <1>15 DEF ReaperExit, callVars, poolVars, workVars, stopVars
  <1>16. CASE ReapIdle
    BY <1>16, SuffixFacts DEF ReapIdle, Prefix, Forget, callVars, stopVars
  <1>17. CASE ReaperDies
    BY <1>17, SuffixFacts DEF ReaperDies, Prefix, Forget, callVars, stopVars
  <1>18. CASE ReaperStopOne
    BY <1>18 DEF ReaperStopOne, callVars, poolVars, stopVars
  <1>19. CASE ReaperDone
    BY <1>19 DEF ReaperDone, callVars, poolVars, workVars, stopVars
  <1>20. CASE StopBegins
    BY <1>20 DEF StopBegins, HasReaper, callVars, poolVars, workVars
  <1>21. CASE Joined
    BY <1>21 DEF Joined, callVars, poolVars, workVars, reapVars
  <1>22. CASE StopClears
    BY <1>22 DEF StopClears, Forget, Pooled, callVars, reapVars
  <1>23. CASE StopOne
    BY <1>23 DEF StopOne, callVars, poolVars, reapVars
  <1>24. CASE StopReturns
    BY <1>24 DEF StopReturns, callVars, poolVars, workVars, reapVars
  <1>25. CASE Tick
    BY <1>25 DEF Tick, callVars, poolVars, reapVars, stopVars
  <1>26. CASE UNCHANGED vars
    BY <1>26 DEF vars, callVars, poolVars, workVars, reapVars, stopVars
  <1> QED
    BY <1>1, <1>2, <1>3, <1>4, <1>5, <1>6, <1>7, <1>8, <1>9, <1>10, <1>11,
       <1>12, <1>13, <1>14, <1>15, <1>16, <1>17, <1>18, <1>19, <1>20, <1>21,
       <1>22, <1>23, <1>24, <1>25, <1>26
    DEF Next, CallStep, Moves, Evaluates, ReaperStep, StopStep

(* Every variable of the pool keeps its type in every behaviour. *)
THEOREM TypeCorrect == Spec => []TypeOK
  <1>1. Init => TypeInv
    BY InitType
  <1>2. TypeInv /\ [Next]_vars => TypeInv'
    BY NextType
  <1>3. TypeInv => TypeOK
    BY DEF TypeInv
  <1> QED
    BY <1>1, <1>2, <1>3, PTL DEF Spec

-----------------------------------------------------------------------------
(* Exclusive use.  A worker has one owner at most: a position of _idle, a  *)
(* call, the reaper's to_stop, or nobody any more after a failed start.    *)

Owner == {t \in Thread : pc[t] \in HoldsWorker \cup {"stopOld"}}

OwnInv ==
  /\ \A i, j \in 1..Len(idle) : idle[i] = idle[j] => i = j
  /\ \A t, u \in Owner : cur[t] = cur[u] => t = u
  /\ \A t \in Owner : \A i \in 1..Len(idle) : idle[i] # cur[t]
  /\ \A t \in Owner : cur[t] \notin reapList \cup lost
  /\ \A i \in 1..Len(idle) : idle[i] \notin reapList \cup lost
  /\ reapList \cap lost = {}

LEMMA InitOwn == Init => OwnInv
  BY MinIdleRange, PoolAssumption DEF Init, OwnInv, Owner, HoldsWorker

LEMMA NextOwn == TypeInv /\ OwnInv /\ [Next]_vars => OwnInv'
  <1> SUFFICES ASSUME TypeInv, OwnInv, [Next]_vars PROVE OwnInv'
    OBVIOUS
  <1>0. /\ idle \in Seq(Worker) /\ Len(idle) \in Nat
        /\ DOMAIN idle = 1..Len(idle)
    BY DEF TypeInv, TypeOK
  <1>n. Len(idle') \in Nat
    BY NextType DEF TypeInv, TypeOK
  <1>i. \A i, j \in 1..Len(idle) : idle[i] = idle[j] => i = j
    BY DEF OwnInv
  <1>f. \A w \in Fresh :
          /\ w \in Worker
          /\ \A t \in Owner : cur[t] # w
          /\ \A i \in 1..Len(idle) : idle[i] # w
          /\ w \notin reapList \cup lost
    BY <1>0 DEF Fresh, Owner, Held, Busy, Pooled, Retiring, Recycled, HoldsWorker
  <1>t. /\ pc \in [Thread -> Phase]
        /\ cur \in [Thread -> Worker \cup {NoWorker}]
        /\ \A t \in Owner : cur[t] \in Worker
    BY DEF TypeInv, TypeOK, CurInv, Owner
  (* Steps that move no worker. *)
  <1>s. ASSUME UNCHANGED <<idle, cur, lost>>, Owner' = Owner, reapList' \subseteq reapList
        PROVE  OwnInv'
    BY <1>s DEF OwnInv
  <1>1. ASSUME NEW t \in Thread, Call(t) PROVE OwnInv'
    <2>1. Owner' = Owner
      BY <1>1, <1>t DEF Call, Goto, Owner, HoldsWorker
    <2> QED
      BY <1>1, <1>s, <2>1 DEF Call, poolVars, reapVars
  <1>2. ASSUME NEW t \in Thread, AcquirePermit(t) PROVE OwnInv'
    <2>1. Owner' = Owner
      BY <1>2, <1>t DEF AcquirePermit, Goto, Owner, HoldsWorker
    <2> QED
      BY <1>2, <1>s, <2>1 DEF AcquirePermit, reapVars
  <1>3. ASSUME NEW t \in Thread, TakeIdle(t) PROVE OwnInv'
    <2>1. /\ Len(idle') = Len(idle) - 1
          /\ \A i \in 1..Len(idle') : idle'[i] = idle[i]
          /\ Len(idle) \in 1..Len(idle)
      BY <1>3, <1>0, FrontFacts DEF TakeIdle
    <2>2. \A i \in 1..Len(idle') : i \in 1..Len(idle) /\ i # Len(idle)
      BY <1>0, <1>n, <2>1, Positions
    <2>3. /\ Owner' = Owner \cup {t}
          /\ \A u \in Owner : cur'[u] = cur[u]
          /\ cur'[t] = idle[Len(idle)]
      BY <1>3, <1>t DEF TakeIdle, Goto, Owner, HoldsWorker
    <2>4. UNCHANGED <<reapList, lost>>
      BY <1>3 DEF TakeIdle, reapVars
    <2>5. \A i \in 1..Len(idle') : idle'[i] # idle[Len(idle)]
      BY <2>1, <2>2 DEF OwnInv
    <2>6. \A u \in Owner : cur[u] # idle[Len(idle)]
      BY <2>1 DEF OwnInv
    <2>7. idle[Len(idle)] \notin reapList \cup lost
      BY <2>1 DEF OwnInv
    <2>8. \A i \in 1..Len(idle') : i \in 1..Len(idle) /\ idle'[i] = idle[i]
      BY <2>1, <2>2
    <2> QED
      BY <2>3, <2>4, <2>5, <2>6, <2>7, <2>8 DEF OwnInv
  <1>4. ASSUME NEW t \in Thread, TakeNew(t) PROVE OwnInv'
    <2>1. PICK w : w \in Fresh /\ cur' = [cur EXCEPT ![t] = w]
      BY <1>4 DEF TakeNew
    <2>w. w \in Fresh
      BY <2>1
    <2>f. /\ \A u \in Owner : cur[u] # w
          /\ \A i \in 1..Len(idle) : idle[i] # w
          /\ w \notin reapList \cup lost
      BY <1>f, <2>w
    <2>2. /\ Owner' = Owner \cup {t}
          /\ \A u \in Owner : cur'[u] = cur[u]
          /\ cur'[t] = w
      BY <1>4, <1>t, <2>1 DEF TakeNew, Goto, Owner, HoldsWorker
    <2>3. UNCHANGED <<idle, reapList, lost>>
      BY <1>4 DEF TakeNew, reapVars
    <2> QED
      BY <2>f, <2>2, <2>3 DEF OwnInv
  <1>5. ASSUME NEW t \in Thread, Start(t) PROVE OwnInv'
    <2>1. Owner' = Owner
      BY <1>5, <1>t DEF Start, Goto, Owner, HoldsWorker
    <2> QED
      BY <1>5, <1>s, <2>1 DEF Start, poolVars, reapVars
  <1>6. ASSUME NEW t \in Thread, StartFails(t) PROVE OwnInv'
    <2>1. /\ t \in Owner /\ Owner' = Owner \ {t}
          /\ \A u \in Owner' : cur'[u] = cur[u]
      BY <1>6, <1>t DEF StartFails, Goto, Owner, HoldsWorker
    <2>2. lost' = lost \cup {cur[t]} /\ UNCHANGED <<idle, reapList>>
      BY <1>6 DEF StartFails, poolVars, reapVars
    <2> QED
      BY <2>1, <2>2 DEF OwnInv
  <1>7. ASSUME NEW t \in Thread, Use(t) PROVE OwnInv'
    <2>1. Owner' = Owner
      BY <1>7, <1>t DEF Use, Goto, Owner, HoldsWorker
    <2> QED
      BY <1>7, <1>s, <2>1 DEF Use, poolVars, reapVars
  <1>8. ASSUME NEW t \in Thread, Cleanup(t) PROVE OwnInv'
    <2>1. Owner' = Owner
      BY <1>8, <1>t DEF Cleanup, Goto, Owner, HoldsWorker
    <2> QED
      BY <1>8, <1>s, <2>1 DEF Cleanup, poolVars, reapVars
  <1>9. ASSUME NEW t \in Thread, Bump(t) PROVE OwnInv'
    <2>1. Owner' = Owner
      BY <1>9, <1>t DEF Bump, Goto, Owner, HoldsWorker
    <2> QED
      BY <1>9, <1>s, <2>1 DEF Bump, poolVars
  <1>10. ASSUME NEW t \in Thread, ReleaseBack(t) PROVE OwnInv'
    <2>1. /\ t \in Owner /\ Owner' = Owner \ {t}
          /\ \A u \in Owner' : cur'[u] = cur[u]
      BY <1>10, <1>t DEF ReleaseBack, Goto, Owner, HoldsWorker
    <2>2. /\ Len(idle') = Len(idle) + 1
          /\ \A i \in 1..Len(idle) : idle'[i] = idle[i]
          /\ idle'[Len(idle) + 1] = cur[t]
      BY <1>10, <1>0, <1>t, <2>1, AppendFacts DEF ReleaseBack
    <2>3. \A i \in 1..Len(idle') :
            \/ i \in 1..Len(idle) /\ idle'[i] = idle[i]
            \/ i = Len(idle) + 1 /\ idle'[i] = cur[t]
      BY <1>0, <1>n, <2>2, Positions
    <2>4. UNCHANGED <<reapList, lost>>
      BY <1>10 DEF ReleaseBack, reapVars
    <2> QED
      BY <2>1, <2>3, <2>4 DEF OwnInv
  <1>11. ASSUME NEW t \in Thread, ReleaseRecycle(t) PROVE OwnInv'
    <2>0. PICK w : w \in Fresh /\ idle' = Append(idle, w)
      BY <1>11 DEF ReleaseRecycle
    <2>w. w \in Fresh
      BY <2>0
    <2>f. /\ \A u \in Owner : cur[u] # w
          /\ \A i \in 1..Len(idle) : idle[i] # w
          /\ w \notin reapList \cup lost
      BY <1>f, <2>w
    <2>1. Owner' = Owner /\ cur' = cur
      BY <1>11, <1>t DEF ReleaseRecycle, Goto, Owner, HoldsWorker
    <2>2. /\ Len(idle') = Len(idle) + 1
          /\ \A i \in 1..Len(idle) : idle'[i] = idle[i]
          /\ idle'[Len(idle) + 1] = w
      BY <2>0, <1>0, <1>f, AppendFacts
    <2>3. \A i \in 1..Len(idle') :
            \/ i \in 1..Len(idle) /\ idle'[i] = idle[i]
            \/ i = Len(idle) + 1 /\ idle'[i] = w
      BY <1>0, <1>n, <2>2, Positions
    <2>4. UNCHANGED <<reapList, lost>>
      BY <1>11 DEF ReleaseRecycle, reapVars
    <2> QED
      BY <2>f, <2>1, <2>3, <2>4 DEF OwnInv
  <1>12. ASSUME NEW t \in Thread, StopOld(t) PROVE OwnInv'
    <2>1. Owner' = Owner \ {t} /\ \A u \in Owner' : cur'[u] = cur[u]
      BY <1>12, <1>t DEF StopOld, Goto, Owner, HoldsWorker
    <2>2. UNCHANGED <<idle, reapList, lost>>
      BY <1>12 DEF StopOld, poolVars, reapVars
    <2> QED
      BY <2>1, <2>2 DEF OwnInv
  <1>13. ASSUME NEW t \in Thread, Signal(t) PROVE OwnInv'
    <2>1. Owner' = Owner
      BY <1>13, <1>t DEF Signal, Goto, Owner, HoldsWorker
    <2> QED
      BY <1>13, <1>s, <2>1 DEF Signal, reapVars
  <1>c. UNCHANGED pc => Owner' = Owner
    BY DEF Owner
  <1>14. CASE ReaperNow
    BY <1>14, <1>s, <1>c DEF ReaperNow, callVars, poolVars
  <1>15. CASE ReaperExit
    BY <1>15, <1>s, <1>c DEF ReaperExit, callVars, poolVars
  <1>16. CASE ReapIdle
    <2>0. PICK n \in 0..Len(idle) : /\ idle' = SubSeq(idle, n + 1, Len(idle))
                                  /\ reapList' = Prefix(n)
      BY <1>16 DEF ReapIdle
    <2>1. /\ Len(idle') = Len(idle) - n
          /\ \A i \in 1..Len(idle') : idle'[i] = idle[i + n]
      BY <2>0, <1>0, SuffixFacts
    <2>2. \A i \in 1..Len(idle') : /\ i + n \in 1..Len(idle)
                                  /\ i + n \notin 1..n
                                  /\ idle'[i] = idle[i + n]
      BY <1>0, <1>n, <2>1, Positions
    <2>3. \A i, j \in 1..Len(idle') : i + n = j + n => i = j
      BY <1>0, <1>n, <2>1, Positions
    <2>4. \A w \in reapList' : \E i \in 1..Len(idle) : i \in 1..n /\ w = idle[i]
      BY <2>0, <1>0 DEF Prefix
    <2>5. Owner' = Owner /\ cur' = cur /\ lost' = lost
      BY <1>16, <1>c DEF ReapIdle, callVars
    <2>6. \A i \in 1..Len(idle') : idle'[i] \notin reapList' \cup lost'
      <3>1. \A i \in 1..Len(idle') : idle'[i] \notin reapList'
        <4> SUFFICES ASSUME NEW i \in 1..Len(idle'),
                            NEW k \in 1..Len(idle), k \in 1..n
                     PROVE  idle'[i] # idle[k]
          BY <2>4
        <4>1. i + n \in 1..Len(idle) /\ i + n # k /\ idle'[i] = idle[i + n]
          BY <2>2
        <4> QED
          BY <1>i, <4>1
      <3>2. \A i \in 1..Len(idle') : idle'[i] \notin lost'
        BY <2>2, <2>5 DEF OwnInv
      <3> QED
        BY <3>1, <3>2
    <2>9. \A i, j \in 1..Len(idle') : idle'[i] = idle'[j] => i = j
      BY <1>i, <2>2, <2>3
    <2>10. /\ \A u \in Owner' : \A i \in 1..Len(idle') : idle'[i] # cur'[u]
           /\ \A u, v \in Owner' : cur'[u] = cur'[v] => u = v
      BY <2>2, <2>5 DEF OwnInv
    <2>7. \A u \in Owner' : cur'[u] \notin reapList' \cup lost'
      BY <2>4, <2>5 DEF OwnInv
    <2>8. reapList' \cap lost' = {}
      BY <2>4, <2>5 DEF OwnInv
    <2> QED
      BY <2>6, <2>7, <2>8, <2>9, <2>10 DEF OwnInv
  <1>17. CASE ReaperDies
    <2>0. PICK n \in 1..Len(idle) : idle' = SubSeq(idle, n + 1, Len(idle))
      BY <1>17 DEF ReaperDies
    <2>n. n \in 0..Len(idle)
      BY <1>0
    <2>1. /\ Len(idle') = Len(idle) - n
          /\ \A i \in 1..Len(idle') : idle'[i] = idle[i + n]
      BY <2>0, <2>n, <1>0, SuffixFacts
    <2>2. \A i \in 1..Len(idle') : i + n \in 1..Len(idle) /\ idle'[i] = idle[i + n]
      BY <1>0, <1>n, <2>n, <2>1, Positions
    <2>3. \A i, j \in 1..Len(idle') : i + n = j + n => i = j
      BY <1>0, <1>n, <2>n, <2>1, Positions
    <2>4. Owner' = Owner /\ UNCHANGED <<cur, lost, reapList>>
      BY <1>17, <1>c DEF ReaperDies, callVars
    <2> QED
      BY <2>2, <2>3, <2>4 DEF OwnInv
  <1>18. CASE ReaperStopOne
    BY <1>18, <1>s, <1>c DEF ReaperStopOne, callVars, poolVars
  <1>19. CASE ReaperDone
    BY <1>19, <1>s, <1>c DEF ReaperDone, callVars, poolVars
  <1>20. CASE StopBegins
    BY <1>20, <1>s, <1>c DEF StopBegins, callVars, poolVars
  <1>21. CASE Joined
    BY <1>21, <1>s, <1>c DEF Joined, callVars, poolVars, reapVars
  <1>22. CASE StopClears
    <2>1. /\ \A i \in 1..Len(idle') : FALSE
          /\ Owner' = Owner /\ UNCHANGED <<cur, lost, reapList>>
      BY <1>22, <1>c, EmptySeq DEF StopClears, callVars, reapVars
    <2> QED
      BY <2>1 DEF OwnInv
  <1>23. CASE StopOne
    BY <1>23, <1>s, <1>c DEF StopOne, callVars, poolVars, reapVars
  <1>24. CASE StopReturns
    BY <1>24, <1>s, <1>c DEF StopReturns, callVars, poolVars, reapVars
  <1>25. CASE Tick
    BY <1>25, <1>s, <1>c DEF Tick, callVars, poolVars, reapVars
  <1>26. CASE UNCHANGED vars
    BY <1>26, <1>s, <1>c DEF vars, callVars, poolVars, reapVars
  <1> QED
    BY <1>1, <1>2, <1>3, <1>4, <1>5, <1>6, <1>7, <1>8, <1>9, <1>10, <1>11,
       <1>12, <1>13, <1>14, <1>15, <1>16, <1>17, <1>18, <1>19, <1>20, <1>21,
       <1>22, <1>23, <1>24, <1>25, <1>26
    DEF Next, CallStep, Moves, Evaluates, ReaperStep, StopStep

LEMMA OwnGivesExclusive == TypeInv /\ OwnInv => ExclusiveUse
  <1> SUFFICES ASSUME TypeInv, OwnInv PROVE ExclusiveUse
    OBVIOUS
  <1>1. DOMAIN idle = 1..Len(idle)
    BY DEF TypeInv, TypeOK
  <1>2. /\ Busy \subseteq Owner
        /\ \A t \in Owner : t \in Busy \/ pc[t] = "stopOld"
        /\ \A t \in Thread : pc[t] = "stopOld" => t \in Owner /\ t \notin Busy
    BY DEF Busy, Owner, HoldsWorker
  <1>3. \A w \in Pooled : \E i \in 1..Len(idle) : w = idle[i]
    BY <1>1 DEF Pooled
  <1>4. \A w \in Held : \E t \in Busy : w = cur[t]
    BY DEF Held
  <1>5. \A w \in Recycled : \E t \in Owner : t \notin Busy /\ w = cur[t]
    BY <1>2 DEF Recycled
  <1>6. Held \cap Pooled = {}
    BY <1>2, <1>3, <1>4 DEF OwnInv
  <1>7. Held \cap Recycled = {} /\ Held \cap reapList = {}
    BY <1>2, <1>4, <1>5 DEF OwnInv
  <1>8. Pooled \cap Recycled = {} /\ Pooled \cap reapList = {}
    BY <1>3, <1>5 DEF OwnInv
  <1> QED
    BY <1>1, <1>2, <1>6, <1>7, <1>8 DEF ExclusiveUse, Retiring, OwnInv

(* No worker is ever shared: between calls, with _idle, or with whoever is *)
(* about to stop it.                                                       *)
THEOREM Exclusive == Spec => []ExclusiveUse
  <1>1. Init => TypeInv /\ OwnInv
    BY InitType, InitOwn
  <1>2. TypeInv /\ OwnInv /\ [Next]_vars => TypeInv' /\ OwnInv'
    BY NextType, NextOwn
  <1>3. TypeInv /\ OwnInv => ExclusiveUse
    BY OwnGivesExclusive
  <1> QED
    BY <1>1, <1>2, <1>3, PTL DEF Spec

-----------------------------------------------------------------------------
(* The size of the pool.  _acquire creates a worker whenever _idle is      *)
(* empty; that it then has a permit, and that every permit is paired with  *)
(* at most one worker, is what keeps _all_workers within pool_size.        *)

CountInv ==
  /\ PermitsAccounted
  /\ Len(idle) + Cardinality(Busy) + Cardinality(lost) <= PoolSize

LEMMA FiniteCounts ==
  ASSUME TypeOK
  PROVE  /\ IsFiniteSet(Permitted) /\ Cardinality(Permitted) \in Nat
         /\ IsFiniteSet(Busy) /\ Cardinality(Busy) \in Nat
         /\ IsFiniteSet(lost) /\ Cardinality(lost) \in Nat
         /\ Busy \subseteq Permitted /\ Cardinality(Busy) <= Cardinality(Permitted)
         /\ Len(idle) \in Nat
  <1>1. Permitted \subseteq Thread /\ Busy \subseteq Permitted /\ lost \subseteq Worker
    BY DEF TypeOK, Permitted, Busy, HoldsPermit, HoldsWorker
  <1>2. IsFiniteSet(Permitted) /\ IsFiniteSet(lost)
    BY <1>1, FS_Subset, PoolAssumption
  <1>3. IsFiniteSet(Busy) /\ Cardinality(Busy) <= Cardinality(Permitted)
    BY <1>1, <1>2, FS_Subset
  <1>4. Len(idle) \in Nat
    BY DEF TypeOK
  <1> QED
    BY <1>1, <1>2, <1>3, <1>4, FS_CardinalityType

LEMMA InitCount == Init => CountInv
  <1> SUFFICES ASSUME Init PROVE CountInv
    OBVIOUS
  <1>1. Permitted = {} /\ Busy = {} /\ lost = {}
    BY DEF Init, Permitted, Busy, HoldsPermit, HoldsWorker
  <1>2. Cardinality({}) = 0
    BY FS_EmptySet
  <1>3. Len(idle) = MinIdle
    BY MinIdleRange, PoolAssumption DEF Init
  <1>4. sem = PoolSize
    BY DEF Init
  <1> QED
    BY <1>1, <1>2, <1>3, <1>4, MinIdleRange, PoolAssumption
    DEF CountInv, PermitsAccounted

LEMMA NextCount == TypeInv /\ OwnInv /\ CountInv /\ [Next]_vars => CountInv'
  <1> SUFFICES ASSUME TypeInv, OwnInv, CountInv, [Next]_vars PROVE CountInv'
    OBVIOUS
  <1>0. TypeOK /\ pc \in [Thread -> Phase] /\ sem \in Nat /\ PoolSize \in Nat
    BY PoolAssumption DEF TypeInv, TypeOK
  <1>n. Len(idle') \in Nat
    BY NextType DEF TypeInv, TypeOK
  <1>p. \A t \in Thread : t \notin Permitted =>
          Cardinality(Permitted \cup {t}) = Cardinality(Permitted) + 1
    BY <1>0, FiniteCounts, FS_AddElement
  <1>q. \A t \in Permitted : Cardinality(Permitted \ {t}) = Cardinality(Permitted) - 1
    BY <1>0, FiniteCounts, FS_RemoveElement
  <1>b. \A t \in Thread : t \notin Busy =>
          Cardinality(Busy \cup {t}) = Cardinality(Busy) + 1
    BY <1>0, FiniteCounts, FS_AddElement
  <1>d. \A t \in Busy : Cardinality(Busy \ {t}) = Cardinality(Busy) - 1
    BY <1>0, FiniteCounts, FS_RemoveElement
  (* Steps that move no permit. *)
  <1>s. ASSUME Permitted' = Permitted, Busy' = Busy, UNCHANGED <<sem, lost>>,
               Len(idle') <= Len(idle)
        PROVE  CountInv'
    BY <1>s, <1>0, <1>n, FiniteCounts DEF CountInv, PermitsAccounted
  <1>l. Len(idle) <= Len(idle)
    BY <1>0, FiniteCounts
  <1>1. ASSUME NEW t \in Thread, Call(t) PROVE CountInv'
    <2>1. Permitted' = Permitted /\ Busy' = Busy
      BY <1>1, <1>0 DEF Call, Goto, Permitted, Busy, HoldsPermit, HoldsWorker
    <2> QED
      BY <1>1, <1>s, <1>l, <2>1 DEF Call, poolVars
  <1>2. ASSUME NEW t \in Thread, AcquirePermit(t) PROVE CountInv'
    <2>1. t \notin Permitted /\ Permitted' = Permitted \cup {t} /\ Busy' = Busy
      BY <1>2, <1>0 DEF AcquirePermit, Goto, Permitted, Busy, HoldsPermit, HoldsWorker
    <2>2. sem' = sem - 1 /\ UNCHANGED <<idle, lost>>
      BY <1>2 DEF AcquirePermit
    <2>3. Cardinality(Permitted') = Cardinality(Permitted) + 1
      BY <1>p, <2>1
    <2>4. Cardinality(Busy') = Cardinality(Busy)
      BY <2>1
    <2> QED
      BY <1>0, <2>2, <2>3, <2>4, FiniteCounts DEF CountInv, PermitsAccounted
  <1>3. ASSUME NEW t \in Thread, TakeIdle(t) PROVE CountInv'
    <2>1. t \notin Busy /\ Permitted' = Permitted /\ Busy' = Busy \cup {t}
      BY <1>3, <1>0 DEF TakeIdle, Goto, Permitted, Busy, HoldsPermit, HoldsWorker
    <2>2. Len(idle') = Len(idle) - 1 /\ UNCHANGED <<sem, lost>>
      BY <1>3, <1>0, FrontFacts DEF TakeIdle, TypeOK
    <2> QED
      BY <1>0, <1>b, <2>1, <2>2, FiniteCounts DEF CountInv, PermitsAccounted
  <1>4. ASSUME NEW t \in Thread, TakeNew(t) PROVE CountInv'
    <2>1. Permitted' = Permitted /\ Busy' = Busy \cup {t}
      BY <1>4, <1>0 DEF TakeNew, Goto, Permitted, Busy, HoldsPermit, HoldsWorker
    <2>2. Len(idle') = 0 /\ UNCHANGED <<sem, lost>>
      BY <1>4, EmptySeq DEF TakeNew
    (* The new worker takes the place of this thread's permit. *)
    <2>3. Cardinality(Busy') <= Cardinality(Permitted)
      <3>1. Busy' \subseteq Permitted
        BY <1>4, <2>1, <1>0, FiniteCounts DEF TakeNew, Goto, Permitted, HoldsPermit
      <3> QED
        BY <3>1, <1>0, FiniteCounts, FS_Subset
    <2>4. Cardinality(Busy') \in Nat
      BY <2>1, <1>0, FiniteCounts, FS_AddElement, FS_CardinalityType
    <2> QED
      BY <1>0, <2>1, <2>2, <2>3, <2>4, FiniteCounts DEF CountInv, PermitsAccounted
  <1>5. ASSUME NEW t \in Thread, Start(t) PROVE CountInv'
    <2>1. Permitted' = Permitted /\ Busy' = Busy
      BY <1>5, <1>0 DEF Start, Goto, Permitted, Busy, HoldsPermit, HoldsWorker
    <2> QED
      BY <1>5, <1>s, <1>l, <2>1 DEF Start, poolVars
  <1>6. ASSUME NEW t \in Thread, StartFails(t) PROVE CountInv'
    <2>1. /\ t \in Permitted /\ Permitted' = Permitted \ {t}
          /\ t \in Busy /\ Busy' = Busy \ {t}
      BY <1>6, <1>0 DEF StartFails, Goto, Permitted, Busy, HoldsPermit, HoldsWorker
    <2>2. UNCHANGED <<sem, idle>> /\ lost' = lost \cup {cur[t]} /\ cur[t] \notin lost
      BY <1>6, <2>1 DEF StartFails, poolVars, OwnInv, Owner, Busy
    <2>3. Cardinality(lost') = Cardinality(lost) + 1
      BY <1>0, <2>2, FiniteCounts, FS_AddElement
    <2>4. /\ Cardinality(Permitted') = Cardinality(Permitted) - 1
          /\ Cardinality(Busy') = Cardinality(Busy) - 1
      BY <1>q, <1>d, <2>1
    <2> QED
      BY <1>0, <2>2, <2>3, <2>4, FiniteCounts DEF CountInv, PermitsAccounted
  <1>7. ASSUME NEW t \in Thread, Use(t) PROVE CountInv'
    <2>1. Permitted' = Permitted /\ Busy' = Busy
      BY <1>7, <1>0 DEF Use, Goto, Permitted, Busy, HoldsPermit, HoldsWorker
    <2> QED
      BY <1>7, <1>s, <1>l, <2>1 DEF Use, poolVars
  <1>8. ASSUME NEW t \in Thread, Cleanup(t) PROVE CountInv'
    <2>1. Permitted' = Permitted /\ Busy' = Busy
      BY <1>8, <1>0 DEF Cleanup, Goto, Permitted, Busy, HoldsPermit, HoldsWorker
    <2> QED
      BY <1>8, <1>s, <1>l, <2>1 DEF Cleanup, poolVars
  <1>9. ASSUME NEW t \in Thread, Bump(t) PROVE CountInv'
    <2>1. Permitted' = Permitted /\ Busy' = Busy
      BY <1>9, <1>0 DEF Bump, Goto, Permitted, Busy, HoldsPermit, HoldsWorker
    <2> QED
      BY <1>9, <1>s, <1>l, <2>1 DEF Bump, poolVars
  <1>r. ASSUME NEW t \in Busy, Permitted' = Permitted, Busy' = Busy \ {t},
               UNCHANGED <<sem, lost>>, Len(idle') = Len(idle) + 1
        PROVE  CountInv'
    BY <1>r, <1>0, <1>d, FiniteCounts DEF CountInv, PermitsAccounted
  <1>10. ASSUME NEW t \in Thread, ReleaseBack(t) PROVE CountInv'
    <2>1. t \in Busy /\ Permitted' = Permitted /\ Busy' = Busy \ {t}
      BY <1>10, <1>0 DEF ReleaseBack, Goto, Permitted, Busy, HoldsPermit, HoldsWorker
    <2>2. Len(idle') = Len(idle) + 1 /\ UNCHANGED <<sem, lost>>
      BY <1>10, <1>0, <2>1, AppendFacts
      DEF ReleaseBack, TypeInv, TypeOK, CurInv, Busy
    <2> QED
      BY <1>r, <2>1, <2>2
  <1>11. ASSUME NEW t \in Thread, ReleaseRecycle(t) PROVE CountInv'
    <2>1. t \in Busy /\ Permitted' = Permitted /\ Busy' = Busy \ {t}
      BY <1>11, <1>0
      DEF ReleaseRecycle, Goto, Permitted, Busy, HoldsPermit, HoldsWorker
    <2>2. Len(idle') = Len(idle) + 1 /\ UNCHANGED <<sem, lost>>
      BY <1>11, <1>0, AppendFacts DEF ReleaseRecycle, TypeOK, Fresh
    <2> QED
      BY <1>r, <2>1, <2>2
  <1>12. ASSUME NEW t \in Thread, StopOld(t) PROVE CountInv'
    <2>1. Permitted' = Permitted /\ Busy' = Busy
      BY <1>12, <1>0 DEF StopOld, Goto, Permitted, Busy, HoldsPermit, HoldsWorker
    <2> QED
      BY <1>12, <1>s, <1>l, <2>1 DEF StopOld, poolVars
  <1>13. ASSUME NEW t \in Thread, Signal(t) PROVE CountInv'
    <2>1. t \in Permitted /\ Permitted' = Permitted \ {t} /\ Busy' = Busy
      BY <1>13, <1>0 DEF Signal, Goto, Permitted, Busy, HoldsPermit, HoldsWorker
    <2>2. sem' = sem + 1 /\ UNCHANGED <<idle, lost>>
      BY <1>13 DEF Signal
    <2>3. Cardinality(Permitted') = Cardinality(Permitted) - 1
      BY <1>q, <2>1
    <2>4. Cardinality(Busy') = Cardinality(Busy)
      BY <2>1
    <2> QED
      BY <1>0, <2>2, <2>3, <2>4, FiniteCounts DEF CountInv, PermitsAccounted
  <1>c. UNCHANGED pc => Permitted' = Permitted /\ Busy' = Busy
    BY DEF Permitted, Busy
  <1>14. CASE ReaperNow
    BY <1>14, <1>s, <1>l, <1>c DEF ReaperNow, callVars, poolVars
  <1>15. CASE ReaperExit
    BY <1>15, <1>s, <1>l, <1>c DEF ReaperExit, callVars, poolVars
  <1>16. CASE ReapIdle
    <2>1. PICK n \in 0..Len(idle) : idle' = SubSeq(idle, n + 1, Len(idle))
      BY <1>16 DEF ReapIdle
    <2>2. Len(idle') = Len(idle) - n
      BY <2>1, <1>0, SuffixFacts DEF TypeOK
    <2>3. Len(idle') <= Len(idle)
      BY <2>2, <1>0, FiniteCounts
    <2> QED
      BY <1>16, <1>s, <1>c, <2>3 DEF ReapIdle, callVars
  <1>17. CASE ReaperDies
    <2>1. PICK n \in 1..Len(idle) : idle' = SubSeq(idle, n + 1, Len(idle))
      BY <1>17 DEF ReaperDies
    <2>n. n \in 0..Len(idle)
      BY <1>0, FiniteCounts
    <2>2. Len(idle') = Len(idle) - n
      BY <2>1, <2>n, <1>0, SuffixFacts DEF TypeOK
    <2>3. Len(idle') <= Len(idle)
      BY <2>2, <1>0, FiniteCounts
    <2> QED
      BY <1>17, <1>s, <1>c, <2>3 DEF ReaperDies, callVars
  <1>18. CASE ReaperStopOne
    BY <1>18, <1>s, <1>l, <1>c DEF ReaperStopOne, callVars, poolVars
  <1>19. CASE ReaperDone
    BY <1>19, <1>s, <1>l, <1>c DEF ReaperDone, callVars, poolVars
  <1>20. CASE StopBegins
    BY <1>20, <1>s, <1>l, <1>c DEF StopBegins, callVars, poolVars
  <1>21. CASE Joined
    BY <1>21, <1>s, <1>l, <1>c DEF Joined, callVars, poolVars
  <1>22. CASE StopClears
    <2>1. Len(idle') <= Len(idle)
      BY <1>22, <1>0, FiniteCounts, EmptySeq DEF StopClears
    <2> QED
      BY <1>22, <1>s, <1>c, <2>1 DEF StopClears, callVars
  <1>23. CASE StopOne
    BY <1>23, <1>s, <1>l, <1>c DEF StopOne, callVars, poolVars
  <1>24. CASE StopReturns
    BY <1>24, <1>s, <1>l, <1>c DEF StopReturns, callVars, poolVars
  <1>25. CASE Tick
    BY <1>25, <1>s, <1>l, <1>c DEF Tick, callVars, poolVars
  <1>26. CASE UNCHANGED vars
    BY <1>26, <1>s, <1>l, <1>c DEF vars, callVars, poolVars
  <1> QED
    BY <1>1, <1>2, <1>3, <1>4, <1>5, <1>6, <1>7, <1>8, <1>9, <1>10, <1>11,
       <1>12, <1>13, <1>14, <1>15, <1>16, <1>17, <1>18, <1>19, <1>20, <1>21,
       <1>22, <1>23, <1>24, <1>25, <1>26
    DEF Next, CallStep, Moves, Evaluates, ReaperStep, StopStep

(* Every permit is available, held by a call, or leaked by a start() that  *)
(* raised: nothing else loses one, and none is given back twice.           *)
THEOREM Permits == Spec => []PermitsAccounted
  <1>1. Init => TypeInv /\ OwnInv /\ CountInv
    BY InitType, InitOwn, InitCount
  <1>2. TypeInv /\ OwnInv /\ CountInv /\ [Next]_vars
          => TypeInv' /\ OwnInv' /\ CountInv'
    BY NextType, NextOwn, NextCount
  <1>3. CountInv => PermitsAccounted
    BY DEF CountInv
  <1> QED
    BY <1>1, <1>2, <1>3, PTL DEF Spec

(* To the calls the pool is its permits: only acquire, release and a start *)
(* that raises move one.                                                   *)
Lost == Cardinality(lost)
Gate == INSTANCE PermitPool WITH Client <- Thread, Size <- PoolSize,
                                 holders <- Permitted, leaked <- Lost

LEMMA GateCardinality == \A S : Gate!Cardinality(S) = Cardinality(S)
  BY Zenon DEF Gate!Cardinality, Cardinality

LEMMA GateStep ==
  ASSUME TypeInv, OwnInv, CountInv, [Next]_vars
  PROVE  [Gate!Next]_(Gate!vars)
  <1>0. /\ TypeOK /\ pc \in [Thread -> Phase] /\ sem \in Nat /\ PoolSize \in Nat
        /\ sem + Cardinality(Permitted) + Lost = PoolSize
        /\ Cardinality(Permitted) \in Nat /\ Lost \in Nat /\ IsFiniteSet(lost)
    BY PoolAssumption, FiniteCounts DEF TypeInv, TypeOK, CountInv, PermitsAccounted, Lost
  <1>s. ASSUME Permitted' = Permitted, UNCHANGED lost PROVE UNCHANGED Gate!vars
    BY <1>s DEF Gate!vars, Lost
  <1>1. ASSUME NEW t \in Thread, AcquirePermit(t) PROVE Gate!Next
    <2>1. t \notin Permitted /\ Permitted' = Permitted \cup {t} /\ Lost' = Lost /\ sem > 0
      BY <1>1, <1>0 DEF AcquirePermit, Available, Goto, Permitted, HoldsPermit, Lost
    <2>2. Gate!Room
      BY <1>0, <2>1, GateCardinality DEF Gate!Room
    <2>3. Gate!Take(t)
      BY <2>1, <2>2 DEF Gate!Take
    <2> QED
      BY <2>3 DEF Gate!Next
  <1>2. ASSUME NEW t \in Thread, Signal(t) PROVE Gate!Next
    <2>1. t \in Permitted /\ Permitted' = Permitted \ {t} /\ Lost' = Lost
      BY <1>2, <1>0 DEF Signal, Goto, Permitted, HoldsPermit, Lost
    <2>2. Gate!Give(t)
      BY <2>1 DEF Gate!Give
    <2> QED
      BY <2>2 DEF Gate!Next
  <1>3. ASSUME NEW t \in Thread, StartFails(t) PROVE Gate!Next
    <2>1. t \in Permitted /\ t \in Owner /\ Permitted' = Permitted \ {t} /\ lost' = lost \cup {cur[t]}
      BY <1>3, <1>0 DEF StartFails, Goto, Permitted, HoldsPermit, Owner, HoldsWorker
    <2>2. cur[t] \notin lost
      BY <2>1 DEF OwnInv
    <2>3. Cardinality(lost \cup {cur[t]}) = Cardinality(lost) + 1
      BY <1>0, <2>2, FS_AddElement
    <2>4. Lost' = Lost + 1
      BY <2>1, <2>3 DEF Lost
    <2>5. Gate!Lose(t)
      BY <2>1, <2>4 DEF Gate!Lose
    <2> QED
      BY <2>5 DEF Gate!Next
  <1>4. ASSUME NEW t \in Thread,
               Call(t) \/ TakeIdle(t) \/ TakeNew(t) \/ Start(t) \/ Use(t) \/ Cleanup(t) \/ Bump(t)
               \/ ReleaseBack(t) \/ ReleaseRecycle(t) \/ StopOld(t)
        PROVE  UNCHANGED Gate!vars
    <2>1. UNCHANGED lost
      BY <1>4 DEF Call, TakeIdle, TakeNew, Start, Use, Cleanup, Bump, ReleaseBack, ReleaseRecycle,
                  StopOld
    <2>2. PICK from \in Phase, to \in Phase :
            /\ Goto(t, from, to)
            /\ from \in HoldsPermit <=> to \in HoldsPermit
      BY <1>4 DEF Call, TakeIdle, TakeNew, Start, Use, Cleanup, Bump, ReleaseBack, ReleaseRecycle,
                  StopOld, Phase, HoldsPermit
    <2>3. Permitted' = Permitted
      BY <1>0, <2>2 DEF Goto, Permitted
    <2> QED
      BY <1>s, <2>1, <2>3
  <1>5. CASE ReaperStep \/ StopBegins \/ StopStep \/ Tick \/ UNCHANGED vars
    <2>1. UNCHANGED <<pc, lost>>
      BY <1>5 DEF ReaperStep, ReaperNow, ReaperExit, ReapIdle, ReaperDies, ReaperStopOne, ReaperDone,
                  StopBegins, StopStep, Joined, StopClears, StopOne, StopReturns, Tick, vars, callVars
    <2> QED
      BY <1>s, <2>1 DEF Permitted
  <1> QED
    BY <1>1, <1>2, <1>3, <1>4, <1>5 DEF Next, CallStep, Moves, Evaluates

(* So for the calls the pool is a PermitPool (pool.py:150, 159, 185), as it*)
(* is for the jobs of ToolCalls.                                           *)
THEOREM PoolImplementsPermits == Spec => Gate!Spec
  <1>1. Init => TypeInv /\ OwnInv /\ CountInv
    BY InitType, InitOwn, InitCount
  <1>2. Init => Gate!Init
    BY FS_EmptySet DEF Init, Gate!Init, Permitted, HoldsPermit, Lost
  <1>3. TypeInv /\ OwnInv /\ CountInv /\ [Next]_vars
          => TypeInv' /\ OwnInv' /\ CountInv' /\ [Gate!Next]_(Gate!vars)
    BY NextType, NextOwn, NextCount, GateStep
  <1> QED
    BY <1>1, <1>2, <1>3, PTL DEF Spec, Gate!Spec

(* What _all_workers can hold. *)
Alive == Pooled \cup Held \cup lost
AllInv == all \subseteq Alive

(* The workers that are idle, held or lost are at most as many as permits. *)
LEMMA AliveBound ==
  ASSUME TypeInv, CountInv
  PROVE  IsFiniteSet(Alive) /\ Cardinality(Alive) <= PoolSize
  <1>0. TypeOK /\ Len(idle) \in Nat /\ PoolSize \in Nat
    BY FiniteCounts, PoolAssumption DEF TypeInv
  <1>1. IsFiniteSet(Pooled) /\ Cardinality(Pooled) <= Len(idle)
    <2>1. IsFiniteSet(1..Len(idle)) /\ Cardinality(1..Len(idle)) = Len(idle)
      <3>1. /\ IsFiniteSet(1..Len(idle))
            /\ Cardinality(1..Len(idle))
                 = IF 1 > Len(idle) THEN 0 ELSE Len(idle) - 1 + 1
        BY <1>0, FS_Interval
      <3> QED
        BY <1>0, <3>1
    <2>2. idle \in Surjection(1..Len(idle), Pooled)
      <3>1. idle \in [1..Len(idle) -> Pooled] /\ DOMAIN idle = 1..Len(idle)
        BY <1>0 DEF TypeOK, Pooled
      <3> QED
        BY <3>1 DEF Surjection, Pooled
    <2> QED
      BY <2>1, <2>2, FS_Surjection
  <1>2. IsFiniteSet(Held) /\ Cardinality(Held) <= Cardinality(Busy)
    <2> DEFINE f == [t \in Busy |-> cur[t]]
    <2>1. f \in Surjection(Busy, Held)
      BY DEF Surjection, Held
    <2> QED
      BY <2>1, <1>0, FiniteCounts, FS_Surjection
  <1>3. /\ Cardinality(Pooled) \in Nat /\ Cardinality(Held) \in Nat
        /\ IsFiniteSet(lost) /\ Cardinality(lost) \in Nat
        /\ Cardinality(Busy) \in Nat
    BY <1>0, <1>1, <1>2, FiniteCounts, FS_CardinalityType
  <1>4. /\ IsFiniteSet(Pooled \cup Held)
        /\ Cardinality(Pooled \cup Held) \in Nat
        /\ Cardinality(Pooled \cup Held) <= Cardinality(Pooled) + Cardinality(Held)
    <2>1. /\ IsFiniteSet(Pooled \cup Held)
          /\ Cardinality(Pooled \cup Held) = Cardinality(Pooled) + Cardinality(Held)
               - Cardinality(Pooled \cap Held)
      BY <1>1, <1>2, FS_Union
    <2>2. Cardinality(Pooled \cap Held) \in Nat
      BY <1>1, FS_Intersection, FS_CardinalityType
    <2> QED
      BY <1>3, <2>1, <2>2, FS_CardinalityType
  <1>5. /\ IsFiniteSet(Alive)
        /\ Cardinality(Alive) \in Nat
        /\ Cardinality(Alive) <= Cardinality(Pooled \cup Held) + Cardinality(lost)
    <2>1. /\ IsFiniteSet(Alive)
          /\ Cardinality(Alive) = Cardinality(Pooled \cup Held) + Cardinality(lost)
               - Cardinality((Pooled \cup Held) \cap lost)
      BY <1>3, <1>4, FS_Union DEF Alive
    <2>2. Cardinality((Pooled \cup Held) \cap lost) \in Nat
      BY <1>4, FS_Intersection, FS_CardinalityType
    <2> QED
      BY <1>3, <1>4, <2>1, <2>2, FS_CardinalityType
  <1> QED
    BY <1>0, <1>1, <1>2, <1>3, <1>4, <1>5 DEF CountInv

LEMMA NextAll == TypeInv /\ AllInv /\ [Next]_vars => AllInv'
  <1> SUFFICES ASSUME TypeInv, AllInv, [Next]_vars PROVE AllInv'
    OBVIOUS
  <1>0. /\ idle \in Seq(Worker) /\ Len(idle) \in Nat /\ DOMAIN idle = 1..Len(idle)
        /\ pc \in [Thread -> Phase] /\ cur \in [Thread -> Worker \cup {NoWorker}]
        /\ \A t \in Busy : cur[t] \in Worker
    BY DEF TypeInv, TypeOK, CurInv, Busy
  <1>d. idle' \in Seq(Worker) /\ DOMAIN idle' = 1..Len(idle')
    BY NextType DEF TypeInv, TypeOK
  (* A step of one thread among the phases that hold a worker, or outside. *)
  <1>s. ASSUME UNCHANGED <<idle, lost>>, all' \subseteq all, Held' = Held
        PROVE  AllInv'
    BY <1>s DEF AllInv, Alive, Pooled
  <1>h. ASSUME Busy' = Busy, \A t \in Busy : cur'[t] = cur[t] PROVE Held' = Held
    BY <1>h DEF Held
  <1>c. UNCHANGED callVars => Held' = Held
    BY DEF callVars, Held, Busy
  <1>1. ASSUME NEW t \in Thread,
               Call(t) \/ AcquirePermit(t) \/ Start(t) \/ Use(t) \/ Cleanup(t)
               \/ Bump(t) \/ StopOld(t) \/ Signal(t)
        PROVE  AllInv'
    <2>1. /\ Busy' = Busy /\ \A u \in Busy : cur'[u] = cur[u]
      BY <1>1, <1>0 DEF Call, AcquirePermit, Start, Use, Cleanup, Bump, StopOld,
                        Signal, Goto, Busy, HoldsWorker
    <2>2. UNCHANGED <<idle, lost, all>>
      BY <1>1 DEF Call, AcquirePermit, Start, Use, Cleanup, Bump, StopOld,
                  Signal, poolVars
    <2> QED
      BY <1>s, <1>h, <2>1, <2>2
  <1>3. ASSUME NEW t \in Thread, TakeIdle(t) PROVE AllInv'
    <2>1. /\ Len(idle') = Len(idle) - 1
          /\ \A i \in 1..Len(idle') : idle'[i] = idle[i]
      BY <1>3, <1>0, FrontFacts DEF TakeIdle
    <2>2. /\ t \notin Busy /\ Busy' = Busy \cup {t} /\ cur'[t] = idle[Len(idle)]
          /\ \A u \in Busy : cur'[u] = cur[u]
      BY <1>3, <1>0 DEF TakeIdle, Goto, Busy, HoldsWorker
    <2>n. Len(idle') \in Nat
      BY <1>d
    <2>3. \A i \in 1..Len(idle) : i \in 1..Len(idle') \/ i = Len(idle)
      BY <1>0, <2>n, <2>1, Positions
    <2>4. Pooled \subseteq Pooled' \cup {idle[Len(idle)]}
      BY <1>0, <1>d, <2>1, <2>3 DEF Pooled
    <2>5. Held \cup {idle[Len(idle)]} \subseteq Held'
      BY <2>2 DEF Held
    <2>6. UNCHANGED <<all, lost>>
      BY <1>3 DEF TakeIdle
    <2> QED
      BY <2>4, <2>5, <2>6 DEF AllInv, Alive
  <1>4. ASSUME NEW t \in Thread, TakeNew(t) PROVE AllInv'
    <2>1. PICK w : cur' = [cur EXCEPT ![t] = w] /\ all' = all \cup {w}
      BY <1>4 DEF TakeNew
    <2>2. /\ t \notin Busy /\ Busy' = Busy \cup {t} /\ cur'[t] = w
          /\ \A u \in Busy : cur'[u] = cur[u]
      BY <1>4, <2>1, <1>0 DEF TakeNew, Goto, Busy, HoldsWorker
    <2>3. Held \cup {w} \subseteq Held'
      BY <2>2 DEF Held
    <2>4. UNCHANGED <<idle, lost>>
      BY <1>4 DEF TakeNew
    <2> QED
      BY <2>1, <2>3, <2>4 DEF AllInv, Alive, Pooled
  <1>6. ASSUME NEW t \in Thread, StartFails(t) PROVE AllInv'
    <2>1. /\ t \in Busy /\ Busy' = Busy \ {t}
          /\ \A u \in Busy' : cur'[u] = cur[u]
      BY <1>6, <1>0 DEF StartFails, Goto, Busy, HoldsWorker
    <2>2. Held \subseteq Held' \cup {cur[t]}
      BY <2>1 DEF Held
    <2>3. UNCHANGED <<idle, all>> /\ lost' = lost \cup {cur[t]}
      BY <1>6 DEF StartFails, poolVars
    <2> QED
      BY <2>2, <2>3 DEF AllInv, Alive, Pooled
  <1>10. ASSUME NEW t \in Thread, ReleaseBack(t) PROVE AllInv'
    <2>1. /\ t \in Busy /\ Busy' = Busy \ {t}
          /\ \A u \in Busy' : cur'[u] = cur[u]
      BY <1>10, <1>0 DEF ReleaseBack, Goto, Busy, HoldsWorker
    <2>2. Held \subseteq Held' \cup {cur[t]}
      BY <2>1 DEF Held
    <2>3. /\ Len(idle') = Len(idle) + 1
          /\ \A i \in 1..Len(idle) : idle'[i] = idle[i]
          /\ idle'[Len(idle) + 1] = cur[t]
      BY <1>10, <1>0, <2>1, AppendFacts DEF ReleaseBack
    <2>4. Pooled \cup {cur[t]} \subseteq Pooled'
      BY <1>0, <1>d, <2>3 DEF Pooled
    <2>5. UNCHANGED <<all, lost>>
      BY <1>10 DEF ReleaseBack
    <2> QED
      BY <2>2, <2>4, <2>5 DEF AllInv, Alive
  <1>11. ASSUME NEW t \in Thread, ReleaseRecycle(t) PROVE AllInv'
    <2>0. PICK w : /\ w \in Fresh
                   /\ idle' = Append(idle, w)
                   /\ all' = (all \ {cur[t]}) \cup {w}
      BY <1>11 DEF ReleaseRecycle
    <2>1. t \in Busy /\ Busy' = Busy \ {t} /\ cur' = cur
      BY <1>11, <1>0 DEF ReleaseRecycle, Goto, Busy, HoldsWorker
    <2>2. Held \subseteq Held' \cup {cur[t]}
      BY <2>1 DEF Held
    <2>3. /\ Len(idle') = Len(idle) + 1
          /\ \A i \in 1..Len(idle) : idle'[i] = idle[i]
          /\ idle'[Len(idle) + 1] = w
      BY <1>0, <2>0, AppendFacts DEF Fresh
    <2>4. Pooled \cup {w} \subseteq Pooled'
      BY <1>0, <1>d, <2>3 DEF Pooled
    <2>5. UNCHANGED lost
      BY <1>11 DEF ReleaseRecycle
    <2> QED
      BY <2>0, <2>2, <2>4, <2>5 DEF AllInv, Alive
  (* What the reaper drops from _idle it has removed from _all_workers, but *)
  (* for the worker over which it dies, which was not there.               *)
  <1>16. ASSUME NEW n \in 0..Len(idle), idle' = SubSeq(idle, n + 1, Len(idle)),
                \A i \in 1..n : idle[i] \notin all', all' \subseteq all,
                UNCHANGED <<callVars, lost>>
         PROVE  AllInv'
    <2>1. /\ Len(idle') = Len(idle) - n
          /\ \A i \in 1..Len(idle') : idle'[i] = idle[i + n]
      BY <1>16, <1>0, SuffixFacts
    <2>2. \A i \in 1..Len(idle) : i \notin 1..n =>
            i - n \in 1..Len(idle') /\ (i - n) + n = i
      <3>1. Len(idle') \in Nat
        BY <1>d
      <3> QED
        BY <1>0, <2>1, <3>1, Positions
    <2>3. \A i \in 1..Len(idle) : i \notin 1..n => idle[i] \in Pooled'
      BY <1>d, <2>1, <2>2 DEF Pooled
    <2>4. \A w \in Pooled : w \in Pooled' \/ w \notin all'
      BY <1>0, <1>16, <2>3 DEF Pooled
    <2> QED
      BY <1>16, <1>c, <2>4 DEF AllInv, Alive
  <1>17. CASE ReapIdle
    <2>1. PICK n \in 0..Len(idle) : /\ idle' = SubSeq(idle, n + 1, Len(idle))
                                  /\ all' = all \ Prefix(n)
      BY <1>17 DEF ReapIdle
    <2>2. \A i \in 1..n : idle[i] \notin all'
      BY <2>1 DEF Prefix
    <2> QED
      BY <1>17, <1>16, <2>1, <2>2 DEF ReapIdle
  <1>18. CASE ReaperDies
    <2>1. PICK n \in 1..Len(idle) : /\ idle' = SubSeq(idle, n + 1, Len(idle))
                                  /\ all' = all \ Prefix(n - 1)
                                  /\ idle[n] \notin all
      BY <1>18 DEF ReaperDies
    <2>2. \A i \in 1..n : i \in 1..(n - 1) \/ i = n
      BY <1>0
    <2>3. \A i \in 1..n : idle[i] \notin all'
      BY <2>1, <2>2 DEF Prefix
    <2>4. n \in 0..Len(idle)
      BY <1>0
    <2> QED
      BY <1>18, <1>16, <2>1, <2>3, <2>4 DEF ReaperDies
  <1>22. CASE StopClears
    BY <1>22 DEF StopClears, AllInv
  <1>23. CASE ReaperNow \/ ReaperExit \/ ReaperStopOne \/ ReaperDone \/ StopBegins
              \/ Joined \/ StopOne \/ StopReturns \/ Tick
    BY <1>23, <1>s, <1>c DEF ReaperNow, ReaperExit, ReaperStopOne, ReaperDone,
         StopBegins, Joined, StopOne, StopReturns, Tick, poolVars
  <1>26. CASE UNCHANGED vars
    BY <1>26, <1>s, <1>c DEF vars, poolVars
  <1> QED
    BY <1>1, <1>3, <1>4, <1>6, <1>10, <1>11, <1>17, <1>18, <1>22, <1>23, <1>26
    DEF Next, CallStep, Moves, Evaluates, ReaperStep, StopStep

(* _all_workers never holds more than pool_size workers. *)
THEOREM Capacity == Spec => []WithinPoolSize
  <1>1. Init => TypeInv /\ OwnInv /\ CountInv /\ AllInv
    BY InitType, InitOwn, InitCount DEF Init, AllInv, Alive
  <1>2. TypeInv /\ OwnInv /\ CountInv /\ AllInv /\ [Next]_vars
          => TypeInv' /\ OwnInv' /\ CountInv' /\ AllInv'
    BY NextType, NextOwn, NextCount, NextAll
  <1>3. TypeInv /\ CountInv /\ AllInv => WithinPoolSize
    <2> SUFFICES ASSUME TypeInv, CountInv, AllInv PROVE WithinPoolSize
      OBVIOUS
    <2>1. IsFiniteSet(Alive) /\ Cardinality(Alive) <= PoolSize /\ all \subseteq Alive
      BY AliveBound DEF AllInv
    <2>2. /\ IsFiniteSet(all) /\ Cardinality(all) <= Cardinality(Alive)
          /\ Cardinality(all) \in Nat /\ Cardinality(Alive) \in Nat
      BY <2>1, FS_Subset, FS_CardinalityType
    <2> QED
      BY <2>1, <2>2, PoolAssumption DEF WithinPoolSize
  <1> QED
    BY <1>1, <1>2, <1>3, PTL DEF Spec
=============================================================================
