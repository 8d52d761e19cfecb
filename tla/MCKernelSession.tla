-------------------------- MODULE MCKernelSession --------------------------
(* Instances of KernelSession for TLC.                                     *)
EXTENDS KernelSession, TLC

CONSTANTS c1, c2, o1, h1, h2, s1, s2, s3, s4, s5

NoOne == {}
OneCaller == {c1}
TwoCallers == {c1, c2}
OneOwner == {o1}
OneHealth == {h1}
TwoHealth == {h1, h2}
ThreeSessions == {s1, s2, s3}
FourSessions == {s1, s2, s3, s4}
FiveSessions == {s1, s2, s3, s4, s5}

CallerSymmetry == Permutations(Caller)

(* New sessions and new threads take the first free identity: every other  *)
(* behaviour is one of these, renamed.                                     *)
First(S) == CHOOSE x \in S : TRUE
FirstFit ==
  /\ (session' \notin {session, NoSession} => session' = First(Fresh))
  /\ (healthRef' \in Health \ {healthRef} => healthRef' = First(FreeThreads))
SessionSpec == Init /\ [][Next /\ FirstFit]_vars
FairSessionSpec == SessionSpec /\ Fairness
=============================================================================
