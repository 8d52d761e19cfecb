---------------------------- MODULE OneTimeCode ----------------------------
(* What the OAuth endpoints promise about authorization codes              *)
(* ("consume auth code (one-time use)", oauth.py:415): a code that a login *)
(* has issued is exchanged for at most one token, or dropped, and nothing  *)
(* brings it back.                                                         *)
CONSTANTS Code, Token, NoCode
VARIABLES state,   \* of each code
          minted   \* the code each token was exchanged for, NoCode if none

Init == /\ state = [k \in Code |-> "new"]
        /\ minted = [t \in Token |-> NoCode]

(* Expired codes, codes presented wrongly, codes lost in a restart. *)
Drop(K) == /\ \A k \in K : state[k] = "pending"
           /\ state' = [k \in Code |-> IF k \in K THEN "spent" ELSE state[k]]
           /\ UNCHANGED minted

(* A login drops the expired codes and issues its own. *)
Issue(K, k) ==
  /\ \A j \in K : state[j] = "pending"
  /\ state[k] = "new"
  /\ state' = [j \in Code |-> IF j = k THEN "pending"
                             ELSE IF j \in K THEN "spent" ELSE state[j]]
  /\ UNCHANGED minted

(* An exchange spends one code, and drops the expired ones. *)
Exchange(K, k, t) ==
  /\ k \in K /\ \A j \in K : state[j] = "pending"
  /\ minted[t] = NoCode
  /\ state' = [j \in Code |-> IF j \in K THEN "spent" ELSE state[j]]
  /\ minted' = [minted EXCEPT ![t] = k]

Next ==
  \E K \in SUBSET Code :
    \/ Drop(K)
    \/ \E k \in Code : Issue(K, k) \/ \E t \in Token : Exchange(K, k, t)

Spec == Init /\ [][Next]_<<state, minted>>
=============================================================================
