---------------------------- MODULE WorkerLease ----------------------------
(***************************************************************************)
(* What the kernel pool promises its callers, with no queue, lock, reaper  *)
(* or semaphore: at most Size workers are leased at a time, a worker is    *)
(* leased to one caller only, and a worker that has served MaxRequests     *)
(* leases is not leased again before it has been renewed.                  *)
(***************************************************************************)
EXTENDS Naturals, FiniteSets

CONSTANTS Thread, Worker, NoWorker, Size, MaxRequests, CountCap

VARIABLES
  lease,   \* the worker each caller has, or NoWorker
  served   \* leases each worker has completed since it was renewed

vars == <<lease, served>>

Leased == {t \in Thread : lease[t] # NoWorker}
Free(w) == \A t \in Thread : lease[t] # w

Init ==
  /\ lease = [t \in Thread |-> NoWorker]
  /\ served = [w \in Worker |-> 0]

Grant(t, w) ==
  /\ lease' = [lease EXCEPT ![t] = w]
  /\ lease[t] = NoWorker /\ Free(w)
  /\ Cardinality(Leased) < Size
  /\ MaxRequests > 0 => served[w] < MaxRequests
  /\ UNCHANGED served

Return(t) ==
  /\ lease[t] # NoWorker
  /\ lease' = [lease EXCEPT ![t] = NoWorker]
  /\ served' = [served EXCEPT ![lease[t]] = IF @ < CountCap THEN @ + 1 ELSE @]

(* Workers that are not leased and have served may be replaced by new ones.*)
Renewable == {w \in Worker : served[w] > 0 /\ Free(w)}

Renew(S) ==
  /\ served' = [w \in Worker |-> IF w \in S THEN 0 ELSE served[w]]
  /\ UNCHANGED lease

Next ==
  \/ \E t \in Thread : Return(t) \/ \E w \in Worker : Grant(t, w)
  \/ \E S \in SUBSET Renewable : Renew(S)

Spec == Init /\ [][Next]_vars
=============================================================================
