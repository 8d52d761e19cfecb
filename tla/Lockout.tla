------------------------------ MODULE Lockout ------------------------------
(* The lockout after failed logins, which oauth.py and auth.py both keep   *)
(* per client: a failure count and the time until which nobody is let in.  *)
EXTENDS Naturals

CONSTANTS MaxFailures,  \* _MAX_LOGIN_FAILURES
          MaxLockout    \* _MAX_LOCKOUT_SECS

ASSUME LockoutAssumption ==
  MaxFailures \in Nat \ {0} /\ MaxLockout \in Nat \ {0}

(* No entry in _login_failures. *)
NoFailures == [count |-> 0, until |-> 0]

(* A mutant: `>` for `>=`. *)
LockedLate(entry, now) == entry.count > MaxFailures /\ now < entry.until
Locked(entry, now) == entry.count >= MaxFailures /\ now < entry.until

(* The delay doubles up to _MAX_LOCKOUT_SECS.                              *)
Power[n \in Nat] == IF n = 0 THEN 1 ELSE 2 * Power[n - 1]
Backoff(excess) == IF Power[excess] < MaxLockout THEN Power[excess] ELSE MaxLockout

AfterFailure(entry, now) ==
  LET count == entry.count + 1
  IN  [count |-> count,
       until |-> IF count >= MaxFailures
                 THEN now + Backoff(count - MaxFailures) ELSE 0]

(* The time that the lockouts before the failure number MaxFailures + k    *)
(* add up to.                                                              *)
Waited[k \in Nat] == IF k = 0 THEN 0 ELSE Waited[k - 1] + Backoff(k - 1)

(* A name that has failed MaxFailures + k times in a row has waited for    *)
(* the k lockouts in between.                                              *)
SlowedDown(entry, now) ==
  entry.count > MaxFailures => now >= Waited[entry.count - MaxFailures]
=============================================================================
