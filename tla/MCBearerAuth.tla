--------------------------- MODULE MCBearerAuth ---------------------------
(* Instances of BearerAuth for TLC.                                        *)
EXTENDS BearerAuth, TLC

CONSTANTS u1, u2, r1, r2, c1, c2, c3, a1, a2, v1, v2, k1, k2, k3, t1, t2, t3

OneUser == {u1}
TwoUsers == {u1, u2}
OneRole == {r1}
TwoRoles == {r1, r2}
OneClient == {c1}
TwoClients == {c1, c2}
ThreeClients == {c1, c2, c3}
OneUri == {a1}
TwoUris == {a1, a2}
OneVerifier == {v1}
TwoVerifiers == {v1, v2}
OneCode == {k1}
OneToken == {t1}
TwoCodes == {k1, k2}
ThreeCodes == {k1, k2, k3}
TwoTokens == {t1, t2}
ThreeTokens == {t1, t2, t3}

(* Codes and tokens are only compared for equality, so it is enough to     *)
(* look at the behaviours in which new ones get the first free identity:   *)
(* every other behaviour is one of these, renamed.                         *)
First(S) == CHOOSE x \in S : TRUE
FirstFit ==
  /\ \A k \in Issued' \ Issued : k = First(Code \ Issued)
  /\ \A t \in Token : minted[t] # minted'[t] =>
       t = First({s \in Token : minted[s] = None})
AuthSpec == BearerInit /\ [][BearerNext /\ FirstFit]_bearerVars

ClientSymmetry == Permutations(ClientId)
=============================================================================
