--------------------------- MODULE MCKernelPool ---------------------------
(* Instances of KernelPool for TLC.                                        *)
EXTENDS KernelPool, TLC

CONSTANTS t1, t2, t3, w1, w2, w3, w4, w5, w6

TwoThreads == {t1, t2}
ThreeThreads == {t1, t2, t3}
FiveWorkers == {w1, w2, w3, w4, w5}
SixWorkers == {w1, w2, w3, w4, w5, w6}

ThreadSymmetry == Permutations(Thread)

(* The identities of workers are never compared but for equality, so it is *)
(* enough to look at the behaviours in which a new worker gets the first   *)
(* free identity: every other behaviour is one of these, renamed.          *)
First(S) == CHOOSE w \in S : TRUE
FirstFit == \A w \in all' \ all : w = First(Fresh)
InitFirst ==
  Init /\ \A i \in DOMAIN idle :
            idle[i] = First({w \in Worker : \A j \in 1..(i - 1) : idle[j] # w})

PoolSpec == InitFirst /\ [][Next /\ FirstFit]_vars

(* The same while nobody calls stop(). *)
ServingSpec == InitFirst /\ [][Next /\ FirstFit /\ main' = "serving"]_vars
FairServingSpec == ServingSpec /\ Fairness
=============================================================================
