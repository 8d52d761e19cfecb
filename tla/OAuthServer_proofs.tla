------------------------- MODULE OAuthServer_proofs -------------------------
(***************************************************************************)
(* Proofs about OAuthServer: what a stored token stands for, how long it   *)
(* lives, that it is not lost, that codes are one-time, and that the       *)
(* capacity limits hold.  Then about BearerAuth: the middleware leaves the *)
(* server as it is, so that all this holds behind it too; the identities   *)
(* it serves are those of the config files; and neither lockout can be     *)
(* hurried.                                                                *)
(***************************************************************************)
EXTENDS BearerAuth, FiniteSetTheorems, NaturalsRecursion, TLAPS

(* The helpers of one line are expanded everywhere. *)
USE DEF Known, RoomForCode, Consumed

(* The types of the tables; those of the lockout are not needed. *)
TableType ==
  /\ now \in 0..MaxTime
  /\ conf \in [User -> Role \cup {None}]
  /\ clients \in [ClientId -> (SUBSET Uri) \cup {None}]
  /\ pending \subseteq Code /\ auth \in [Code -> AuthCode \cup {None}]
  /\ stored \subseteq Token /\ row \in [Token -> TokenRow \cup {None}]
  /\ minted \in [Token -> Code \cup {None}]

(* A pending code has been issued, and every code was issued for a         *)
(* registered client and one of its redirect URIs.                         *)
CodeInv ==
  /\ pending \subseteq Issued
  /\ \A k \in Issued : /\ clients[auth[k].client] # None
                       /\ auth[k].uri \in clients[auth[k].client]

(* A token that was ever issued, stored or not, was issued for a code that *)
(* is spent, and its row is what that code says.                           *)
MatchesCode(t) ==
  /\ minted[t] \in Issued \ pending
  /\ row[t].user = auth[minted[t]].user
  /\ row[t].role = auth[minted[t]].role
  /\ row[t].client = auth[minted[t]].client
  /\ row[t].expires <= auth[minted[t]].expires + TokenTTL

TokenInv ==
  /\ \A t \in stored : minted[t] # None
  /\ \A t \in Token : minted[t] # None => MatchesCode(t)

Inv == TableType /\ CodeInv /\ TokenInv

LEMMA Numbers ==
  /\ MaxTime \in Nat /\ CodeTTL \in Nat /\ TokenTTL \in Nat
  /\ \A n \in 0..MaxTime : /\ n + CodeTTL \in 0..(MaxTime + CodeTTL)
                           /\ n + TokenTTL \in 0..(MaxTime + TokenTTL)
  BY OAuthAssumption

-----------------------------------------------------------------------------
LEMMA InitInv == Init => Inv
  <1> SUFFICES ASSUME Init PROVE Inv
    OBVIOUS
  <1>1. TableType
    <2>1. now \in 0..MaxTime
      BY OAuthAssumption DEF Init
    <2>2. auth \in [Code -> AuthCode \cup {None}] /\ pending \subseteq Code
      BY DEF Init
    <2>3. /\ row \in [Token -> TokenRow \cup {None}] /\ stored \subseteq Token
          /\ minted \in [Token -> Code \cup {None}]
      BY DEF Init
    <2>4. /\ conf \in [User -> Role \cup {None}]
          /\ clients \in [ClientId -> (SUBSET Uri) \cup {None}]
      BY DEF Init
    <2> QED
      BY <2>1, <2>2, <2>3, <2>4 DEF TableType
  <1>2. CodeInv /\ TokenInv
    BY DEF Init, CodeInv, TokenInv, Issued
  <1> QED
    BY <1>1, <1>2 DEF Inv

(* Codes may be dropped and tokens may go without any harm. *)
LEMMA Shrinks ==
  ASSUME Inv, UNCHANGED <<clients, auth, row, minted>>,
         pending' \subseteq pending, stored' \subseteq stored
  PROVE  CodeInv' /\ TokenInv'
  <1>1. CodeInv'
    BY DEF Inv, CodeInv, Issued
  <1>2. \A t \in Token : MatchesCode(t) => MatchesCode(t)'
    BY DEF MatchesCode, Issued
  <1> QED
    BY <1>1, <1>2 DEF Inv, TokenInv, TableType

LEMMA RegisterInv ==
  ASSUME Inv, NEW c \in ClientId, NEW uris \in SUBSET Uri, Register(c, uris)
  PROVE  Inv'
  <1>1. TableType'
    BY DEF Inv, TableType, Register, codeVars, tokenVars
  <1>2. \A d \in ClientId : clients[d] # None => clients'[d] = clients[d]
    BY DEF Inv, TableType, Register
  <1>3. Issued' = Issued /\ \A k \in Issued : auth[k].client \in ClientId
    BY DEF Inv, TableType, Register, codeVars, Issued, AuthCode
  <1>4. CodeInv'
    BY <1>2, <1>3 DEF Inv, CodeInv, Register, codeVars
  <1>5. TokenInv'
    BY <1>3 DEF Inv, TokenInv, MatchesCode, Register, codeVars, tokenVars
  <1> QED
    BY <1>1, <1>4, <1>5 DEF Inv

LEMMA AuthorizeInv ==
  ASSUME Inv, NEW u \in User, NEW c \in ClientId, NEW uri \in Uri,
         NEW v \in Verifier, Authorize(u, c, uri, v)
  PROVE  Inv'
  <1> DEFINE new == [client |-> c, uri |-> uri, challenge |-> v,
                     expires |-> now + CodeTTL, user |-> u, role |-> conf[u]]
  <1>1. PICK k \in Code \ Issued : /\ pending' = LiveCodes \cup {k}
                                   /\ auth' = [auth EXCEPT ![k] = new]
    BY DEF Authorize
  <1>2. /\ LiveCodes \subseteq pending /\ LiveTokens \subseteq stored
        /\ stored' = LiveTokens
        /\ UNCHANGED <<now, conf, clients, row, minted>>
    BY DEF Authorize, LiveCodes, LiveTokens
  <1>3. new \in AuthCode
    <2>1. conf[u] \in Role
      BY DEF Inv, TableType, Authorize, LogsIn
    <2>2. now + CodeTTL \in 0..(MaxTime + CodeTTL)
      BY Numbers DEF Inv, TableType
    <2> QED
      BY <2>1, <2>2 DEF AuthCode
  <1>4. /\ auth'[k] = new /\ auth'[k] # None
        /\ \A j \in Code \ {k} : auth'[j] = auth[j]
    BY <1>1, <1>3, NoneIsNoCode DEF Inv, TableType
  <1>5. Issued' = Issued \cup {k}
    BY <1>1, <1>4 DEF Issued
  <1>6. TableType'
    <2>1. auth' \in [Code -> AuthCode \cup {None}]
      BY <1>1, <1>3 DEF Inv, TableType
    <2>2. pending' \subseteq Code /\ stored' \subseteq Token
      BY <1>1, <1>2 DEF Inv, TableType
    <2> QED
      BY <1>2, <2>1, <2>2 DEF Inv, TableType
  <1>7. CodeInv'
    <2>1. pending' \subseteq Issued'
      BY <1>1, <1>2, <1>5 DEF Inv, CodeInv
    <2>2. clients'[auth'[k].client] # None
            /\ auth'[k].uri \in clients'[auth'[k].client]
      BY <1>2, <1>4 DEF Authorize, ValidRequest
    <2>3. \A j \in Issued : /\ clients'[auth'[j].client] # None
                            /\ auth'[j].uri \in clients'[auth'[j].client]
      BY <1>1, <1>2, <1>4 DEF Inv, CodeInv, Issued
    <2> QED
      BY <1>5, <2>1, <2>2, <2>3 DEF CodeInv
  <1>8. TokenInv'
    <2>1. ASSUME NEW t \in Token, MatchesCode(t) PROVE MatchesCode(t)'
      <3>1. minted[t] \in Issued \ pending /\ minted[t] # k
        BY <1>1, <2>1 DEF MatchesCode
      <3>2. minted[t] \in Code /\ auth'[minted[t]] = auth[minted[t]]
        BY <1>4, <3>1 DEF Issued
      <3>3. minted'[t] \in Issued' \ pending'
        BY <1>1, <1>2, <1>5, <3>1
      <3> QED
        BY <1>2, <2>1, <3>2, <3>3 DEF MatchesCode
    <2> QED
      BY <1>2, <2>1 DEF Inv, TokenInv
  <1> QED
    BY <1>6, <1>7, <1>8 DEF Inv

LEMMA TokenIssuedInv ==
  ASSUME Inv, NEW k \in Code, NEW c \in ClientId, NEW uri \in Uri,
         NEW v \in Verifier, TokenIssued(k, c, uri, v)
  PROVE  Inv'
  <1> DEFINE new == [client |-> c, user |-> auth[k].user,
                     role |-> auth[k].role, expires |-> now + TokenTTL]
  <1>1. PICK t \in Token : /\ minted[t] = None
                           /\ stored' = LiveTokens \cup {t}
                           /\ minted' = [minted EXCEPT ![t] = k]
                           /\ row' = [row EXCEPT ![t] = new]
    BY DEF TokenIssued
  <1>2. /\ pending' = LiveCodes \ {k} /\ LiveCodes \subseteq pending
        /\ LiveTokens \subseteq stored /\ k \in pending /\ k \in Issued
        /\ UNCHANGED <<now, conf, clients, auth>>
    BY DEF TokenIssued, LiveCodes, LiveTokens, Inv, CodeInv
  <1>3. auth[k] \in AuthCode /\ auth[k].expires \in Nat /\ now \in Nat
    BY <1>2, Numbers DEF Inv, TableType, Issued, AuthCode
  <1>4. new \in TokenRow
    <2>1. now + TokenTTL \in 0..(MaxTime + TokenTTL)
      BY Numbers DEF Inv, TableType
    <2>2. auth[k].user \in User /\ auth[k].role \in Role
      BY <1>3 DEF AuthCode
    <2> QED
      BY <2>1, <2>2 DEF TokenRow
  <1>5. /\ minted'[t] = k /\ row'[t] = new /\ k # None
        /\ \A s \in Token \ {t} : minted'[s] = minted[s] /\ row'[s] = row[s]
    BY <1>1, OAuthAssumption DEF Inv, TableType
  <1>6. TableType'
    <2>1. /\ row' \in [Token -> TokenRow \cup {None}]
          /\ minted' \in [Token -> Code \cup {None}]
      BY <1>1, <1>4 DEF Inv, TableType
    <2>2. pending' \subseteq Code /\ stored' \subseteq Token
      BY <1>1, <1>2 DEF Inv, TableType
    <2> QED
      BY <1>2, <2>1, <2>2 DEF Inv, TableType
  <1>7. CodeInv'
    BY <1>2 DEF Inv, CodeInv, Issued
  <1>8. Issued' = Issued
    BY <1>2 DEF Issued
  <1>9. MatchesCode(t)'
    <2>1. auth[k].client = c /\ now <= auth[k].expires
      BY DEF TokenIssued, Grantable
    <2>2. now + TokenTTL <= auth[k].expires + TokenTTL
      BY <1>3, <2>1, Numbers
    <2> QED
      BY <1>2, <1>5, <1>8, <2>1, <2>2 DEF MatchesCode
  <1>10. TokenInv'
    <2>1. ASSUME NEW s \in Token \ {t}, MatchesCode(s) PROVE MatchesCode(s)'
      BY <1>2, <1>5, <1>8, <2>1 DEF MatchesCode
    <2>2. \A s \in stored' : minted'[s] # None
      BY <1>1, <1>2, <1>5 DEF Inv, TokenInv, TableType
    <2> QED
      BY <1>5, <1>9, <2>1, <2>2 DEF Inv, TokenInv
  <1> QED
    BY <1>6, <1>7, <1>10 DEF Inv

LEMMA NextInv == Inv /\ [Next]_vars => Inv'
  <1> SUFFICES ASSUME Inv, [Next]_vars PROVE Inv'
    OBVIOUS
  <1> DEFINE Drops ==
        /\ UNCHANGED <<clients, auth, row, minted>>
        /\ pending' \subseteq pending /\ stored' \subseteq stored
        /\ now' \in 0..MaxTime /\ conf' \in [User -> Role \cup {None}]
  <1>1. Drops => Inv'
    BY Shrinks DEF Inv, TableType
  <1> USE DEF codeVars, tokenVars, LiveCodes, LiveTokens
  <1>2. ASSUME NEW c \in ClientId, NEW uris \in SUBSET Uri, Register(c, uris)
        PROVE  Inv'
    BY <1>2, RegisterInv
  <1>3. ASSUME NEW u \in User, LoginFails(u) \/ AuthorizeInvalid(u) PROVE Inv'
    BY <1>1, <1>3 DEF LoginFails, AuthorizeInvalid, Inv, TableType
  <1>4. ASSUME NEW u \in User, NEW c \in ClientId, NEW uri \in Uri,
               AuthorizeFull(u, c, uri)
        PROVE  Inv'
    BY <1>1, <1>4 DEF AuthorizeFull, Inv, TableType
  <1>5. ASSUME NEW u \in User, NEW c \in ClientId, NEW uri \in Uri,
               NEW v \in Verifier, Authorize(u, c, uri, v)
        PROVE  Inv'
    BY <1>5, AuthorizeInv
  <1>6. ASSUME NEW k \in Code, NEW c \in ClientId, NEW uri \in Uri,
               NEW v \in Verifier,
               TokenRefused(k, c, uri, v) \/ TokenFull(k, c, uri, v)
        PROVE  Inv'
    BY <1>1, <1>6 DEF TokenRefused, TokenFull, Inv, TableType
  <1>7. ASSUME NEW k \in Code, NEW c \in ClientId, NEW uri \in Uri,
               NEW v \in Verifier, TokenIssued(k, c, uri, v)
        PROVE  Inv'
    BY <1>7, TokenIssuedInv
  <1>8. ASSUME NEW t \in Token, LookupExpired(t) PROVE Inv'
    BY <1>1, <1>8 DEF LookupExpired, Inv, TableType
  <1>9. CASE Restart
    BY <1>1, <1>9 DEF Restart, Inv, TableType
  <1>10. CASE Tick
    <2>1. now' \in 0..MaxTime
      BY <1>10, Numbers DEF Tick, Inv, TableType
    <2> QED
      BY <1>1, <1>10, <2>1 DEF Tick, Inv, TableType
  <1>11. CASE UNCHANGED vars
    BY <1>1, <1>11 DEF vars, Inv, TableType
  <1> QED
    BY <1>2, <1>3, <1>4, <1>5, <1>6, <1>7, <1>8, <1>9, <1>10, <1>11
       DEF Next, Request

LEMMA Invariance == Spec => []Inv
  BY InitInv, NextInv, PTL DEF Spec

(* A stored token has the user, the role and the client of the login whose *)
(* code it was exchanged for (oauth.py:448-454).                           *)
THEOREM Matches == Spec => []TokenMatchesLogin
  <1>1. Inv => TokenMatchesLogin
    <2> SUFFICES ASSUME Inv, NEW t \in stored
                 PROVE  /\ MatchesCode(t)
                        /\ auth[minted[t]].uri \in clients[row[t].client]
      BY DEF TokenMatchesLogin, MatchesCode
    <2>1. MatchesCode(t)
      BY DEF Inv, TokenInv, TableType
    <2> QED
      BY <2>1 DEF MatchesCode, Inv, CodeInv
  <1> QED
    BY <1>1, Invariance, PTL

(* A token expires at most one token lifetime after its code would have    *)
(* (oauth.py:421, oauth.py:453).                                           *)
THEOREM Lifetime == Spec => []LifetimeBound
  <1>1. Inv => LifetimeBound
    BY DEF Inv, TokenInv, TableType, MatchesCode, LifetimeBound
  <1> QED
    BY <1>1, Invariance, PTL

(* Nothing takes a token away before it expires: not the evictions of      *)
(* logins and exchanges, not lookups, not a restart (oauth.py:129-134).    *)
THEOREM NotLost == Spec => NoTokenLost
  <1>1. Inv /\ [Next]_vars
          => [\A t \in stored : now < row[t].expires
                => t \in stored' /\ row'[t] = row[t]]_vars
    <2> SUFFICES ASSUME Inv, Next, NEW t \in stored, now < row[t].expires
                 PROVE  t \in stored' /\ row'[t] = row[t]
      BY DEF vars, codeVars, tokenVars
    <2>1. t \in Token /\ t \in LiveTokens /\ minted[t] # None
      BY DEF Inv, TableType, TokenInv, LiveTokens
    <2>2. CASE stored' = LiveTokens /\ row' = row
      BY <2>1, <2>2
    <2>3. CASE stored' = stored /\ row' = row
      BY <2>3
    <2>4. ASSUME NEW k \in Code, NEW c \in ClientId, NEW uri \in Uri,
                 NEW v \in Verifier, TokenIssued(k, c, uri, v)
          PROVE  t \in stored' /\ row'[t] = row[t]
      BY <2>1, <2>4 DEF TokenIssued, Inv, TableType
    <2>5. ASSUME NEW s \in Token, LookupExpired(s)
          PROVE  t \in stored' /\ row'[t] = row[t]
      BY <2>5 DEF LookupExpired, Valid
    <2>6. ASSUME NEW k \in Code, NEW c \in ClientId, NEW uri \in Uri,
                 NEW v \in Verifier,
                 TokenRefused(k, c, uri, v) \/ TokenFull(k, c, uri, v)
          PROVE  t \in stored' /\ row'[t] = row[t]
      BY <2>2, <2>3, <2>6 DEF TokenRefused, TokenFull, tokenVars
    <2>7. ASSUME NEW u \in User, LoginFails(u) \/ AuthorizeInvalid(u)
          PROVE  t \in stored' /\ row'[t] = row[t]
      BY <2>3, <2>7 DEF LoginFails, AuthorizeInvalid, tokenVars
    <2>8. ASSUME NEW u \in User, NEW c \in ClientId, NEW uri \in Uri,
                 AuthorizeFull(u, c, uri)
                   \/ \E v \in Verifier : Authorize(u, c, uri, v)
          PROVE  t \in stored' /\ row'[t] = row[t]
      BY <2>2, <2>8 DEF AuthorizeFull, Authorize
    <2>9. ASSUME NEW c \in ClientId, NEW uris \in SUBSET Uri,
                 Register(c, uris)
          PROVE  t \in stored' /\ row'[t] = row[t]
      BY <2>3, <2>9 DEF Register, tokenVars
    <2>10. CASE Restart
      BY <2>2, <2>10 DEF Restart
    <2>11. CASE Tick
      BY <2>3, <2>11 DEF Tick, tokenVars
    <2> QED
      BY <2>4, <2>5, <2>6, <2>7, <2>8, <2>9, <2>10, <2>11 DEF Next, Request
  <1> QED
    BY <1>1, Invariance, PTL DEF Spec, NoTokenLost

-----------------------------------------------------------------------------
(* Under the mapping of OAuthServer, which calls a code new, pending or    *)
(* spent, every step is a step of OneTimeCode or a stutter.                *)
Expired == pending \ LiveCodes

LEMMA DropRefines ==
  ASSUME Inv, UNCHANGED <<auth, minted>>, pending' \subseteq pending
  PROVE  OneTime!Drop(pending \ pending')
  BY DEF Inv, CodeInv, TableType, Issued, CodeState, OneTime!Drop

LEMMA IssueRefines ==
  ASSUME Inv, Inv', NEW u \in User, NEW c \in ClientId, NEW uri \in Uri,
         NEW v \in Verifier, Authorize(u, c, uri, v)
  PROVE  \E k \in Code : OneTime!Issue(Expired, k)
  <1>1. PICK k \in Code \ Issued :
          /\ pending' = LiveCodes \cup {k}
          /\ auth' = [auth EXCEPT ![k] =
               [client |-> c, uri |-> uri, challenge |-> v,
                expires |-> now + CodeTTL, user |-> u, role |-> conf[u]]]
    BY DEF Authorize
  <1>2. /\ LiveCodes \subseteq pending /\ pending \subseteq Issued
        /\ pending' \subseteq Issued' /\ Issued \subseteq Code
        /\ \A j \in Code \ {k} : auth'[j] = auth[j]
    BY <1>1 DEF Inv, CodeInv, TableType, LiveCodes, Issued
  <1>3. CodeState[k] = "new" /\ \A j \in Expired : CodeState[j] = "pending"
    BY <1>1, <1>2 DEF CodeState, Issued, Expired
  <1>4. ASSUME NEW j \in Code
        PROVE  CodeState'[j] = IF j = k THEN "pending"
                               ELSE IF j \in Expired THEN "spent"
                               ELSE CodeState[j]
    <2>1. CASE j = k
      BY <1>1, <2>1 DEF CodeState
    <2>2. CASE j # k /\ j \in Expired
      BY <1>1, <1>2, <2>2 DEF CodeState, Expired, Issued
    <2>3. CASE j # k /\ j \notin Expired
      BY <1>1, <1>2, <2>3 DEF CodeState, Expired, Issued
    <2> QED
      BY <2>1, <2>2, <2>3
  <1>5. UNCHANGED minted
    BY DEF Authorize
  <1>6. OneTime!Issue(Expired, k)
    BY <1>3, <1>4, <1>5 DEF OneTime!Issue, CodeState
  <1> QED
    BY <1>1, <1>6

LEMMA ExchangeRefines ==
  ASSUME Inv, NEW k \in Code, NEW c \in ClientId, NEW uri \in Uri,
         NEW v \in Verifier, TokenIssued(k, c, uri, v)
  PROVE  \E t \in Token : OneTime!Exchange(Expired \cup {k}, k, t)
  <1>1. PICK t \in Token : /\ minted[t] = None
                           /\ minted' = [minted EXCEPT ![t] = k]
    BY DEF TokenIssued
  <1>2. /\ k \in pending /\ pending' = pending \ (Expired \cup {k})
        /\ UNCHANGED auth
    BY DEF TokenIssued, Expired, LiveCodes
  <1>3. CodeState' = [j \in Code |-> IF j \in Expired \cup {k} THEN "spent"
                                     ELSE CodeState[j]]
    BY <1>2 DEF Inv, CodeInv, Issued, CodeState, Expired
  <1>4. \A j \in Expired \cup {k} : CodeState[j] = "pending"
    BY <1>2 DEF CodeState, Expired, Inv, TableType
  <1> QED
    BY <1>1, <1>3, <1>4 DEF OneTime!Exchange

LEMMA StepRefines ==
  Inv /\ Inv' /\ [Next]_vars => [OneTime!Next]_<<CodeState, minted>>
  <1> SUFFICES ASSUME Inv, Inv', Next
               PROVE  OneTime!Next \/ UNCHANGED <<CodeState, minted>>
    BY DEF vars, codeVars, tokenVars, CodeState
  <1> USE DEF codeVars, tokenVars
  <1>0. Inv => pending \subseteq Code
    BY DEF Inv, TableType
  <1>1. ASSUME UNCHANGED <<auth, minted>>, pending' \subseteq pending
        PROVE  OneTime!Next
    BY <1>0, <1>1, DropRefines DEF OneTime!Next
  <1>2. ASSUME NEW c \in ClientId, NEW uris \in SUBSET Uri, Register(c, uris)
        PROVE  OneTime!Next
    BY <1>1, <1>2 DEF Register
  <1>3. ASSUME NEW u \in User, LoginFails(u) \/ AuthorizeInvalid(u)
        PROVE  OneTime!Next
    BY <1>1, <1>3 DEF LoginFails, AuthorizeInvalid
  <1>4. ASSUME NEW u \in User, NEW c \in ClientId, NEW uri \in Uri,
               AuthorizeFull(u, c, uri)
        PROVE  OneTime!Next
    BY <1>1, <1>4 DEF AuthorizeFull, LiveCodes
  <1>5. ASSUME NEW u \in User, NEW c \in ClientId, NEW uri \in Uri,
               NEW v \in Verifier, Authorize(u, c, uri, v)
        PROVE  OneTime!Next
    BY <1>0, <1>5, IssueRefines DEF OneTime!Next, Expired
  <1>6. ASSUME NEW k \in Code, NEW c \in ClientId, NEW uri \in Uri,
               NEW v \in Verifier,
               TokenRefused(k, c, uri, v) \/ TokenFull(k, c, uri, v)
        PROVE  OneTime!Next
    BY <1>1, <1>6 DEF TokenRefused, TokenFull, LiveCodes
  <1>7. ASSUME NEW k \in Code, NEW c \in ClientId, NEW uri \in Uri,
               NEW v \in Verifier, TokenIssued(k, c, uri, v)
        PROVE  OneTime!Next
    BY <1>0, <1>7, ExchangeRefines DEF OneTime!Next, Expired
  <1>8. ASSUME NEW t \in Token, LookupExpired(t) PROVE OneTime!Next
    BY <1>1, <1>8 DEF LookupExpired
  <1>9. CASE Restart
    BY <1>1, <1>9 DEF Restart
  <1>10. CASE Tick
    BY <1>1, <1>10 DEF Tick
  <1> QED
    BY <1>2, <1>3, <1>4, <1>5, <1>6, <1>7, <1>8, <1>9, <1>10 DEF Next, Request

(* Authorization codes are one-time: the server implements OneTimeCode     *)
(* (the pop of oauth.py:416, the evictions, the restarts).                 *)
THEOREM OneTimeUse == Spec => OneTimeSpec
  <1>1. Init => OneTime!Init
    BY DEF Init, OneTime!Init, CodeState
  <1> QED
    BY <1>1, StepRefines, Invariance, PTL DEF Spec, OneTimeSpec, OneTime!Spec

-----------------------------------------------------------------------------
(* The capacity limits.  Evictions only make room: what counts is that the *)
(* room is measured after them and before the one insertion.               *)

LEMMA TablesFinite ==
  ASSUME TableType
  PROVE  IsFiniteSet(pending) /\ IsFiniteSet(stored) /\ IsFiniteSet(Registered)
  <1>1. Registered \subseteq ClientId
    BY DEF Registered
  <1> QED
    BY <1>1, OAuthAssumption, FS_Subset DEF TableType

(* A subset, with one more member if there is room, keeps a limit. *)
LEMMA RoomForOne ==
  ASSUME NEW S, IsFiniteSet(S), NEW limit \in Nat, Cardinality(S) <= limit,
         NEW L \in SUBSET S, NEW x, NEW T,
         \/ T \subseteq L
         \/ Cardinality(L) < limit /\ T \subseteq L \cup {x}
  PROVE  Cardinality(T) <= limit
  <1>1. /\ IsFiniteSet(L) /\ Cardinality(L) <= Cardinality(S)
        /\ Cardinality(L) \in Nat /\ Cardinality(S) \in Nat
    BY FS_Subset, FS_CardinalityType
  <1>2. CASE T \subseteq L
    <2>1. Cardinality(T) <= Cardinality(L) /\ Cardinality(T) \in Nat
      BY <1>1, <1>2, FS_Subset, FS_CardinalityType
    <2> QED
      BY <1>1, <2>1
  <1>3. CASE Cardinality(L) < limit /\ T \subseteq L \cup {x}
    <2>1. /\ IsFiniteSet(L \cup {x})
          /\ Cardinality(L \cup {x}) <= Cardinality(L) + 1
          /\ Cardinality(L \cup {x}) \in Nat
      <3>1. /\ IsFiniteSet(L \cup {x})
            /\ Cardinality(L \cup {x})
                 = IF x \in L THEN Cardinality(L) ELSE Cardinality(L) + 1
        BY <1>1, FS_AddElement
      <3>2. Cardinality(L \cup {x}) \in Nat
        BY <3>1, FS_CardinalityType
      <3> QED
        BY <1>1, <3>1, <3>2
    <2>2. /\ Cardinality(T) <= Cardinality(L \cup {x})
          /\ Cardinality(T) \in Nat
      BY <1>3, <2>1, FS_Subset, FS_CardinalityType
    <2> QED
      BY <1>1, <1>3, <2>1, <2>2
  <1> QED
    BY <1>2, <1>3

LEMMA NextCapacity == TableType /\ WithinCapacity /\ [Next]_vars => WithinCapacity'
  <1> SUFFICES ASSUME TableType, WithinCapacity, [Next]_vars
               PROVE  WithinCapacity'
    OBVIOUS
  <1>0. MaxCodes \in Nat /\ MaxTokens \in Nat /\ MaxClients \in Nat
    BY OAuthAssumption
  <1>l. LiveCodes \subseteq pending /\ LiveTokens \subseteq stored
    BY DEF LiveCodes, LiveTokens
  (* What a step may do to the three tables. *)
  <1>1. ASSUME \/ pending' \subseteq pending
               \/ /\ Cardinality(LiveCodes) < MaxCodes
                  /\ \E k : pending' \subseteq LiveCodes \cup {k}
        PROVE  Cardinality(pending') <= MaxCodes
    <2>1. CASE pending' \subseteq pending
      BY <2>1, <1>0, TablesFinite, RoomForOne, Zenon DEF WithinCapacity
    <2>2. CASE /\ Cardinality(LiveCodes) < MaxCodes
               /\ \E k : pending' \subseteq LiveCodes \cup {k}
      BY <2>2, <1>0, <1>l, TablesFinite, RoomForOne DEF WithinCapacity
    <2> QED
      BY <1>1, <2>1, <2>2
  <1>2. ASSUME \/ stored' \subseteq stored
               \/ /\ Cardinality(LiveTokens) < MaxTokens
                  /\ \E t : stored' \subseteq LiveTokens \cup {t}
        PROVE  Cardinality(stored') <= MaxTokens
    <2>1. CASE stored' \subseteq stored
      BY <2>1, <1>0, TablesFinite, RoomForOne, Zenon DEF WithinCapacity
    <2>2. CASE /\ Cardinality(LiveTokens) < MaxTokens
               /\ \E t : stored' \subseteq LiveTokens \cup {t}
      BY <2>2, <1>0, <1>l, TablesFinite, RoomForOne DEF WithinCapacity
    <2> QED
      BY <1>2, <2>1, <2>2
  <1>3. ASSUME \/ Registered' \subseteq Registered
               \/ /\ Cardinality(Registered) < MaxClients
                  /\ \E c : Registered' \subseteq Registered \cup {c}
        PROVE  Cardinality(Registered') <= MaxClients
    <2>1. CASE Registered' \subseteq Registered
      BY <2>1, <1>0, TablesFinite, RoomForOne, Zenon DEF WithinCapacity
    <2>2. CASE /\ Cardinality(Registered) < MaxClients
               /\ \E c : Registered' \subseteq Registered \cup {c}
      BY <2>2, <1>0, TablesFinite, RoomForOne DEF WithinCapacity
    <2> QED
      BY <1>3, <2>1, <2>2
  <1>r. UNCHANGED clients => Registered' = Registered
    BY DEF Registered
  <1>4. ASSUME NEW c \in ClientId, NEW uris \in SUBSET Uri, Register(c, uris)
        PROVE  WithinCapacity'
    <2>1. Registered' \subseteq Registered \cup {c}
      BY <1>4 DEF Register, Registered, TableType
    <2>2. Cardinality(Registered) < MaxClients /\ UNCHANGED <<pending, stored>>
      BY <1>4 DEF Register, codeVars, tokenVars
    <2> QED
      BY <1>1, <1>2, <1>3, <2>1, <2>2 DEF WithinCapacity
  <1>5. ASSUME NEW u \in User, NEW c \in ClientId, NEW uri \in Uri,
               NEW v \in Verifier, Authorize(u, c, uri, v)
        PROVE  WithinCapacity'
    BY <1>5, <1>1, <1>2, <1>3, <1>r, <1>l DEF Authorize, WithinCapacity
  <1>6. ASSUME NEW k \in Code, NEW c \in ClientId, NEW uri \in Uri,
               NEW v \in Verifier, TokenIssued(k, c, uri, v)
        PROVE  WithinCapacity'
    BY <1>6, <1>1, <1>2, <1>3, <1>r, <1>l DEF TokenIssued, WithinCapacity
  <1>7. CASE UNCHANGED clients /\ pending' \subseteq pending
             /\ stored' \subseteq stored
    BY <1>7, <1>1, <1>2, <1>3, <1>r DEF WithinCapacity
  <1>8. ASSUME NEW k \in Code, NEW c \in ClientId, NEW uri \in Uri,
               NEW v \in Verifier,
               TokenRefused(k, c, uri, v) \/ TokenFull(k, c, uri, v)
        PROVE  WithinCapacity'
    BY <1>8, <1>7, <1>l DEF TokenRefused, TokenFull, tokenVars
  <1>9. ASSUME NEW u \in User, NEW c \in ClientId, NEW uri \in Uri,
               LoginFails(u) \/ AuthorizeInvalid(u) \/ AuthorizeFull(u, c, uri)
        PROVE  WithinCapacity'
    BY <1>9, <1>7, <1>l DEF LoginFails, AuthorizeInvalid, AuthorizeFull,
                            codeVars, tokenVars
  <1>10. ASSUME NEW u \in User, LoginFails(u) \/ AuthorizeInvalid(u)
         PROVE  WithinCapacity'
    BY <1>10, <1>7 DEF LoginFails, AuthorizeInvalid, codeVars, tokenVars
  <1>11. ASSUME NEW t \in Token, LookupExpired(t) PROVE WithinCapacity'
    BY <1>11, <1>7 DEF LookupExpired, codeVars
  <1>12. CASE Restart \/ Tick \/ UNCHANGED vars
    BY <1>12, <1>7, <1>l DEF Restart, Tick, vars, codeVars, tokenVars
  <1> QED
    BY <1>4, <1>5, <1>6, <1>8, <1>9, <1>10, <1>11, <1>12 DEF Next, Request

(* The tables never outgrow their limits (oauth.py:50-53), although        *)
(* expired entries are evicted only by the next login or exchange.         *)
THEOREM Limits == Spec => []WithinCapacity
  <1>1. Init => WithinCapacity
    <2>1. /\ Init => Registered = {} /\ pending = {} /\ stored = {}
          /\ Cardinality({}) = 0
      BY FS_EmptySet DEF Init, Registered
    <2> QED
      BY <2>1, OAuthAssumption DEF WithinCapacity
  <1>2. Inv => TableType
    BY DEF Inv
  <1> QED
    BY <1>1, <1>2, Invariance, NextCapacity, PTL DEF Spec
-----------------------------------------------------------------------------
(* Behind the middleware of auth.py.                                       *)

(* The middleware reads the tables of the OAuth server and writes none:    *)
(* with it in front the server goes through the steps it could go through  *)
(* without (auth.py:66-96).                                                *)
THEOREM MiddlewareRefinesServer == BearerSpec => Spec
  <1>1. BearerInit => Init
    BY DEF BearerInit
  <1>2. ASSUME [BearerNext]_bearerVars PROVE [Next]_vars
    <2>1. CASE (Request \/ Tick) /\ UNCHANGED <<bearerFailures, served, configured>>
      BY <2>1, Zenon DEF Next
    <2>2. ASSUME NEW t \in Token, ServeToken(t) PROVE UNCHANGED vars
      BY <2>2, Zenon DEF ServeToken
    <2>3. ASSUME NEW u \in User, BasicFails(u) \/ BasicServes(u) PROVE UNCHANGED vars
      BY <2>3, Zenon DEF BasicFails, BasicServes
    <2>4. CASE BearerRestart
      BY <2>4, Zenon DEF BearerRestart, Next
    <2>5. CASE UNCHANGED bearerVars
      BY <2>5, Zenon DEF bearerVars
    <2> QED
      BY <1>2, <2>1, <2>2, <2>3, <2>4, <2>5, Zenon DEF BearerNext
  <1> QED
    BY <1>1, <1>2, PTL DEF BearerSpec, Spec

(* What the proofs about the server establish, behind the middleware.      *)
COROLLARY BehindMiddleware ==
  BearerSpec => /\ []TokenMatchesLogin /\ []LifetimeBound /\ []WithinCapacity
                /\ NoTokenLost /\ OneTimeSpec
  BY MiddlewareRefinesServer, Matches, Lifetime, Limits, NotLost, OneTimeUse, PTL

-----------------------------------------------------------------------------
(* The config file, every code and everything served have an identity that *)
(* some config file gave; tokens have that of their code.                  *)
CodeConfigured == \A k \in Issued : Identity(auth[k].user, auth[k].role) \in configured

IdentityInv == InConfig \subseteq configured /\ CodeConfigured /\ served \subseteq configured

LEMMA InitIdentity == BearerInit => IdentityInv
  BY DEF BearerInit, Init, IdentityInv, CodeConfigured, Issued

(* A login takes the role that the config file has now.                    *)
LEMMA LoginIdentity ==
  ASSUME Inv, IdentityInv, UNCHANGED <<served, configured>>,
         NEW u \in User, NEW c \in ClientId, NEW uri \in Uri, NEW v \in Verifier,
         Authorize(u, c, uri, v)
  PROVE  IdentityInv'
  <1> DEFINE new == [client |-> c, uri |-> uri, challenge |-> v,
                     expires |-> now + CodeTTL, user |-> u, role |-> conf[u]]
  <1>1. PICK k \in Code \ Issued : auth' = [auth EXCEPT ![k] = new]
    BY DEF Authorize
  <1>2. conf' = conf /\ conf[u] # None
    BY DEF Authorize, LogsIn, Known
  <1>3. Identity(u, conf[u]) \in configured
    BY <1>2 DEF IdentityInv, InConfig
  <1>4. auth'[k] = new /\ \A j \in Code \ {k} : auth'[j] = auth[j]
    BY <1>1 DEF Inv, TableType
  <1>5. CodeConfigured'
    BY <1>3, <1>4 DEF IdentityInv, CodeConfigured, Issued, Identity
  <1>6. InConfig' = InConfig
    BY <1>2 DEF InConfig
  <1> QED
    BY <1>5, <1>6 DEF IdentityInv

LEMMA NextIdentity == Inv /\ IdentityInv /\ [BearerNext]_bearerVars => IdentityInv'
  <1> SUFFICES ASSUME Inv, IdentityInv, [BearerNext]_bearerVars PROVE IdentityInv'
    OBVIOUS
  <1> DEFINE Same == UNCHANGED <<conf, auth, configured>>
  <1>1. Same => InConfig' = InConfig /\ CodeConfigured'
    BY DEF IdentityInv, InConfig, CodeConfigured, Issued
  <1>2. Same /\ served' \subseteq configured => IdentityInv'
    BY <1>1 DEF IdentityInv
  <1>3. ASSUME NEW t \in Token, ServeToken(t) PROVE IdentityInv'
    <2>1. t \in Token /\ MatchesCode(t)
      BY <1>3 DEF ServeToken, Accepts, Valid, Inv, TokenInv, TableType
    <2>2. Identity(row[t].user, row[t].role) \in configured
      BY <2>1 DEF MatchesCode, IdentityInv, CodeConfigured
    <2>3. Same
      BY <1>3 DEF ServeToken, vars, codeVars
    <2> QED
      BY <1>2, <1>3, <2>2, <2>3 DEF ServeToken, IdentityInv
  <1>4. ASSUME NEW u \in User, BasicFails(u) PROVE IdentityInv'
    BY <1>2, <1>4 DEF BasicFails, vars, codeVars, IdentityInv
  <1>5. ASSUME NEW u \in User, BasicServes(u) PROVE IdentityInv'
    <2>1. Identity(u, conf[u]) \in configured
      BY <1>5 DEF BasicServes, Known, IdentityInv, InConfig
    <2>2. Same
      BY <1>5 DEF BasicServes, vars, codeVars
    <2> QED
      BY <1>2, <1>5, <2>1, <2>2 DEF BasicServes, IdentityInv
  <1>6. CASE BearerRestart
    <2>1. auth' = auth /\ served' = served /\ configured' = configured \cup InConfig'
      BY <1>6 DEF BearerRestart, Restart
    <2>2. CodeConfigured'
      BY <2>1 DEF IdentityInv, CodeConfigured, Issued
    <2> QED
      BY <2>1, <2>2 DEF IdentityInv
  <1>7. CASE Tick /\ UNCHANGED <<bearerFailures, served, configured>>
    BY <1>2, <1>7 DEF Tick, codeVars, IdentityInv
  <1>8. CASE Request /\ UNCHANGED <<bearerFailures, served, configured>>
    <2>1. ASSUME NEW u \in User, NEW c \in ClientId, NEW uri \in Uri, NEW v \in Verifier,
                 Authorize(u, c, uri, v)
          PROVE  IdentityInv'
      BY <1>8, <2>1, LoginIdentity
    <2>2. CASE UNCHANGED <<conf, auth>>
      BY <1>2, <1>8, <2>2 DEF IdentityInv
    <2>3. \/ UNCHANGED <<conf, auth>>
          \/ \E u \in User, c \in ClientId, uri \in Uri, v \in Verifier : Authorize(u, c, uri, v)
      BY <1>8 DEF Request, Register, LoginFails, AuthorizeInvalid, AuthorizeFull, TokenRefused,
                  TokenFull, TokenIssued, LookupExpired, codeVars
    <2> QED
      BY <2>1, <2>2, <2>3
  <1>9. CASE UNCHANGED bearerVars
    BY <1>2, <1>9 DEF bearerVars, vars, codeVars, IdentityInv
  <1> QED
    BY <1>3, <1>4, <1>5, <1>6, <1>7, <1>8, <1>9 DEF BearerNext

(* A request is served as a client in a role that some config file gave it,*)
(* however the file has changed since the login (auth.py:66-96,            *)
(* oauth.py:407-409, 448-454).                                             *)
THEOREM ServedIdentity == BearerSpec => []ServedWasConfigured
  <1>1. BearerSpec => []Inv
    BY MiddlewareRefinesServer, Invariance, PTL
  <1>2. IdentityInv => ServedWasConfigured
    BY DEF IdentityInv, ServedWasConfigured
  <1> QED
    BY <1>1, <1>2, InitIdentity, NextIdentity, PTL DEF BearerSpec
-----------------------------------------------------------------------------
(* The lockout.  Its two recursive functions are what they say they are,   *)
(* by NaturalsRecursion.                                                   *)

LEMMA PowerEquation == Power = [n \in Nat |-> IF n = 0 THEN 1 ELSE 2 * Power[n - 1]]
  <1> DEFINE g == [x \in Nat \X Nat |-> 2 * x[2]]
  <1>1. \A i, k \in Nat : g[<<i, k>>] = 2 * k
    OBVIOUS
  <1>2. g \in [Nat \X Nat -> Nat] /\ 1 \in Nat
    OBVIOUS
  <1> HIDE DEF g
  <1>3. PICK f \in [Nat -> Nat] : Recurses(f, 1, g)
    BY <1>2, PrimitiveRecursion
  <1>4. ASSUME NEW n \in Nat, n # 0 PROVE g[<<n - 1, f[n - 1]>>] = 2 * f[n - 1]
    BY <1>1, <1>4
  <1>5. f = [n \in Nat |-> IF n = 0 THEN 1 ELSE 2 * f[n - 1]]
    BY <1>3, <1>4 DEF Recurses
  <1> QED
    BY <1>5, Zenon DEF Power

LEMMA PowerType == Power \in [Nat -> Nat]
  <1> DEFINE T == {n \in Nat : Power[n] \in Nat}
  <1>1. 0 \in T
    BY PowerEquation
  <1>2. ASSUME NEW n \in T PROVE n + 1 \in T
    <2>1. n + 1 \in Nat /\ n + 1 # 0 /\ (n + 1) - 1 = n
      OBVIOUS
    <2>2. Power[n + 1] = 2 * Power[n]
      BY <2>1, PowerEquation
    <2> QED
      BY <2>1, <2>2
  <1>3. T = Nat
    <2>1. T \in SUBSET Nat
      OBVIOUS
    <2> HIDE DEF T
    <2> QED
      BY <1>1, <1>2, <2>1, Induction
  <1> QED
    BY <1>3, PowerEquation

LEMMA BackoffType == ASSUME NEW n \in Nat PROVE Backoff(n) \in Nat
  BY PowerType, LockoutAssumption DEF Backoff

LEMMA WaitedEquation ==
  Waited = [k \in Nat |-> IF k = 0 THEN 0 ELSE Waited[k - 1] + Backoff(k - 1)]
  <1> DEFINE g == [x \in Nat \X Nat |-> x[2] + Backoff(x[1])]
  <1>1. \A i, k \in Nat : g[<<i, k>>] = k + Backoff(i)
    OBVIOUS
  <1>2. g \in [Nat \X Nat -> Nat] /\ 0 \in Nat
    BY BackoffType
  <1> HIDE DEF g
  <1>3. PICK f \in [Nat -> Nat] : Recurses(f, 0, g)
    BY <1>2, PrimitiveRecursion
  <1>4. ASSUME NEW k \in Nat, k # 0 PROVE g[<<k - 1, f[k - 1]>>] = f[k - 1] + Backoff(k - 1)
    BY <1>1, <1>4
  <1>5. f = [k \in Nat |-> IF k = 0 THEN 0 ELSE f[k - 1] + Backoff(k - 1)]
    BY <1>3, <1>4 DEF Recurses
  <1> QED
    BY <1>5, Zenon DEF Waited

LEMMA WaitedFacts ==
  /\ Waited[0] = 0
  /\ \A k \in Nat : Waited[k] \in Nat /\ Waited[k + 1] = Waited[k] + Backoff(k)
  <1>1. Waited[0] = 0
    BY WaitedEquation
  <1>2. ASSUME NEW k \in Nat PROVE Waited[k + 1] = Waited[k] + Backoff(k)
    <2>1. k + 1 \in Nat /\ k + 1 # 0 /\ (k + 1) - 1 = k
      OBVIOUS
    <2> QED
      BY <2>1, WaitedEquation
  <1> DEFINE T == {k \in Nat : Waited[k] \in Nat}
  <1>3. 0 \in T
    BY <1>1
  <1>4. ASSUME NEW k \in T PROVE k + 1 \in T
    BY <1>2, <1>4, BackoffType
  <1>5. T = Nat
    <2>1. T \in SUBSET Nat
      OBVIOUS
    <2> HIDE DEF T
    <2> QED
      BY <1>3, <1>4, <2>1, Induction
  <1> QED
    BY <1>1, <1>2, <1>5

(* A name with MaxFailures failures or more is locked out for as long as   *)
(* the lockouts so far, and the one it is in, add up to.                   *)
Entry == [count : Nat, until : Nat]
Slowing(entry, t) ==
  /\ SlowedDown(entry, t)
  /\ entry.count >= MaxFailures =>
       LET k == entry.count - MaxFailures IN entry.until >= Waited[k] + Backoff(k)

LEMMA NoFailuresSlowing == ASSUME NEW t \in Nat PROVE NoFailures \in Entry /\ Slowing(NoFailures, t)
  BY LockoutAssumption DEF NoFailures, Entry, Slowing, SlowedDown

LEMMA TimeSlowing ==
  ASSUME NEW entry \in Entry, NEW t \in Nat, NEW u \in Nat, t <= u, Slowing(entry, t)
  PROVE  Slowing(entry, u)
  <1>1. entry.count \in Nat /\ MaxFailures \in Nat
    BY LockoutAssumption DEF Entry
  <1>2. entry.count > MaxFailures => entry.count - MaxFailures \in Nat
    BY <1>1
  <1> QED
    BY <1>1, <1>2, WaitedFacts DEF Slowing, SlowedDown

(* Nobody gets to fail again before the lockout is over.                   *)
LEMMA FailureSlowing ==
  ASSUME NEW entry \in Entry, NEW t \in Nat, Slowing(entry, t), ~Locked(entry, t)
  PROVE  AfterFailure(entry, t) \in Entry /\ Slowing(AfterFailure(entry, t), t)
  <1> DEFINE next == AfterFailure(entry, t)
             k == entry.count - MaxFailures
  <1>1. entry.count \in Nat /\ entry.until \in Nat /\ MaxFailures \in Nat \ {0}
    BY LockoutAssumption DEF Entry
  <1>2. CASE entry.count + 1 < MaxFailures
    <2>1. next = [count |-> entry.count + 1, until |-> 0]
      BY <1>1, <1>2 DEF AfterFailure
    <2> QED
      BY <1>1, <1>2, <2>1 DEF Entry, Slowing, SlowedDown
  <1>3. CASE entry.count + 1 = MaxFailures
    <2>1. next = [count |-> entry.count + 1, until |-> t + Backoff(0)]
      BY <1>1, <1>3 DEF AfterFailure
    <2>2. Backoff(0) \in Nat
      BY BackoffType
    <2>3. next.count = MaxFailures /\ next.until = t + Backoff(0) /\ MaxFailures - MaxFailures = 0
      BY <1>1, <1>3, <2>1
    <2>4. Slowing(next, t)
      BY <1>1, <2>2, <2>3, WaitedFacts DEF Slowing, SlowedDown
    <2> QED
      BY <1>1, <2>1, <2>2, <2>4 DEF Entry
  <1>4. CASE entry.count + 1 > MaxFailures
    <2>1. k \in Nat /\ k + 1 \in Nat /\ (entry.count + 1) - MaxFailures = k + 1
      BY <1>1, <1>4
    <2>2. next = [count |-> entry.count + 1, until |-> t + Backoff(k + 1)]
      BY <1>1, <1>4, <2>1 DEF AfterFailure
    <2>3. Backoff(k) \in Nat /\ Backoff(k + 1) \in Nat
      BY <2>1, BackoffType
    <2>4. t >= Waited[k] + Backoff(k)
      <3>1. entry.count >= MaxFailures
        BY <1>1, <1>4
      <3>2. entry.until >= Waited[k] + Backoff(k)
        BY <3>1 DEF Slowing
      <3>3. t >= entry.until
        BY <1>1, <3>1 DEF Locked
      <3>4. Waited[k] \in Nat
        BY <2>1, WaitedFacts
      <3> QED
        BY <1>1, <2>3, <3>2, <3>3, <3>4
    <2>5. Waited[k + 1] = Waited[k] + Backoff(k) /\ Waited[k] \in Nat
      BY <2>1, WaitedFacts
    <2>6. next.count - MaxFailures = k + 1 /\ next.count > MaxFailures /\ next.until = t + Backoff(k + 1)
      BY <1>1, <1>4, <2>1, <2>2
    <2>7. next \in Entry
      BY <1>1, <2>2, <2>3 DEF Entry
    <2> HIDE DEF next, k
    <2>8. next.until >= Waited[k + 1] + Backoff(k + 1) /\ t >= Waited[k + 1]
      BY <2>3, <2>4, <2>5, <2>6
    <2>9. Slowing(next, t)
      BY <2>6, <2>8 DEF Slowing, SlowedDown
    <2> QED
      BY <2>7, <2>9 DEF next
  <1> QED
    BY <1>1, <1>2, <1>3, <1>4

(* What both tables of failures keep to.                                   *)
SlowsDown(table, t) ==
  table \in [User -> Entry] /\ \A u \in User : Slowing(table[u], t)

LEMMA FailureSlowsDown ==
  ASSUME NEW table, NEW t \in Nat, NEW u \in User, SlowsDown(table, t), ~Locked(table[u], t)
  PROVE  SlowsDown([table EXCEPT ![u] = AfterFailure(@, t)], t)
  <1>1. table[u] \in Entry /\ Slowing(table[u], t)
    BY DEF SlowsDown
  <1>2. AfterFailure(table[u], t) \in Entry /\ Slowing(AfterFailure(table[u], t), t)
    BY <1>1, FailureSlowing
  <1> QED
    BY <1>2 DEF SlowsDown

LEMMA SuccessSlowsDown ==
  ASSUME NEW table, NEW t \in Nat, NEW u \in User, SlowsDown(table, t)
  PROVE  SlowsDown([table EXCEPT ![u] = NoFailures], t)
  BY NoFailuresSlowing DEF SlowsDown

LEMMA NobodyFailed ==
  ASSUME NEW t \in Nat PROVE SlowsDown([u \in User |-> NoFailures], t)
  BY NoFailuresSlowing DEF SlowsDown

LEMMA TickSlowsDown ==
  ASSUME NEW table, NEW t \in Nat, SlowsDown(table, t)
  PROVE  SlowsDown(table, t + 1)
  <1>1. t + 1 \in Nat /\ t <= t + 1
    OBVIOUS
  <1> QED
    BY <1>1, TimeSlowing DEF SlowsDown

LockoutInv == now \in Nat /\ SlowsDown(failures, now) /\ SlowsDown(bearerFailures, now)

LEMMA RequestLockout ==
  ASSUME LockoutInv, Request
  PROVE  now' = now /\ SlowsDown(failures', now)
  <1> SUFFICES ASSUME failures' # failures PROVE now' = now /\ SlowsDown(failures', now)
    BY DEF LockoutInv, Request, Register, LoginFails, AuthorizeInvalid, AuthorizeFull, Authorize,
           TokenRefused, TokenFull, TokenIssued, LookupExpired
  <1>1. \E u \in User : now' = now /\ (LoginFails(u) \/ LogsIn(u))
    BY DEF Request, Register, LoginFails, AuthorizeInvalid, AuthorizeFull, Authorize,
           TokenRefused, TokenFull, TokenIssued, LookupExpired
  <1>2. PICK u \in User : now' = now /\ (LoginFails(u) \/ LogsIn(u))
    BY <1>1
  <1>3. CASE LoginFails(u)
    BY <1>2, <1>3, FailureSlowsDown DEF LoginFails, LockoutInv
  <1>4. CASE LogsIn(u)
    BY <1>2, <1>4, SuccessSlowsDown DEF LogsIn, LockoutInv
  <1> QED
    BY <1>2, <1>3, <1>4

LEMMA NextLockout == LockoutInv /\ [BearerNext]_bearerVars => LockoutInv'
  <1> SUFFICES ASSUME LockoutInv, [BearerNext]_bearerVars PROVE LockoutInv'
    OBVIOUS
  <1>1. CASE Request /\ UNCHANGED <<bearerFailures, served, configured>>
    BY <1>1, RequestLockout DEF LockoutInv
  <1>2. CASE Tick /\ UNCHANGED <<bearerFailures, served, configured>>
    <2>1. now' = now + 1 /\ UNCHANGED <<failures, bearerFailures>>
      BY <1>2 DEF Tick
    <2> QED
      BY <2>1, TickSlowsDown DEF LockoutInv
  <1>3. ASSUME NEW t \in Token, ServeToken(t) PROVE LockoutInv'
    BY <1>3 DEF ServeToken, vars, LockoutInv
  <1>4. ASSUME NEW u \in User, BasicFails(u) PROVE LockoutInv'
    <2>1. UNCHANGED <<now, failures>> /\ ~Locked(bearerFailures[u], now)
      BY <1>4 DEF BasicFails, vars
    <2>2. SlowsDown(bearerFailures', now)
      BY <1>4, <2>1, FailureSlowsDown DEF BasicFails, LockoutInv
    <2> QED
      BY <2>1, <2>2 DEF LockoutInv
  <1>5. ASSUME NEW u \in User, BasicServes(u) PROVE LockoutInv'
    <2>1. UNCHANGED <<now, failures>>
      BY <1>5 DEF BasicServes, vars
    <2>2. SlowsDown(bearerFailures', now)
      BY <1>5, SuccessSlowsDown DEF BasicServes, LockoutInv
    <2> QED
      BY <2>1, <2>2 DEF LockoutInv
  <1>6. CASE BearerRestart
    BY <1>6, NobodyFailed DEF BearerRestart, Restart, LockoutInv
  <1>7. CASE UNCHANGED bearerVars
    BY <1>7 DEF bearerVars, vars, LockoutInv
  <1> QED
    BY <1>1, <1>2, <1>3, <1>4, <1>5, <1>6, <1>7 DEF BearerNext

LEMMA LockoutInvariance == BearerSpec => []LockoutInv
  <1>1. BearerInit => LockoutInv
    BY NobodyFailed DEF BearerInit, Init, LockoutInv
  <1> QED
    BY <1>1, NextLockout, PTL DEF BearerSpec

(* However the guesses are timed, and whatever succeeds, expires or is     *)
(* restarted in between, on the login form as on the Bearer path: who has  *)
(* failed MaxFailures + k times in a row has waited as long as the k       *)
(* lockouts in between last together (oauth.py:504-546, auth.py:148-190).  *)
THEOREM SlowGuesses == BearerSpec => []GuessesSlowDown
  <1>1. LockoutInv => GuessesSlowDown
    BY DEF LockoutInv, SlowsDown, Slowing, GuessesSlowDown
  <1> QED
    BY <1>1, LockoutInvariance, PTL

(* The middleware and the server behind it keep their types, the delays of *)
(* the lockout, which double, included.                                    *)
THEOREM BearerTypes == BearerSpec => []BearerTypeOK
  <1> DEFINE Ids == configured \subseteq [client : User, role : Role]
  <1>1. TableType => InConfig \subseteq [client : User, role : Role]
    BY DEF TableType, InConfig, Identity
  <1>2. BearerInit /\ TableType => Ids
    BY <1>1 DEF BearerInit
  <1>3. Ids /\ TableType' /\ [BearerNext]_bearerVars => Ids'
    <2> SUFFICES ASSUME Ids, TableType', [BearerNext]_bearerVars PROVE Ids'
      OBVIOUS
    <2>1. InConfig' \subseteq [client : User, role : Role]
      BY DEF TableType, InConfig, Identity
    <2>2. configured' = configured \/ configured' = configured \cup InConfig'
      BY DEF BearerNext, ServeToken, BasicFails, BasicServes, BearerRestart, bearerVars
    <2> QED
      BY <2>1, <2>2
  <1>4. Inv => TableType
    BY DEF Inv
  <1>5. BearerSpec => []Inv
    BY MiddlewareRefinesServer, Invariance, PTL
  <1>6. TableType /\ LockoutInv /\ Ids /\ ServedWasConfigured => BearerTypeOK
    BY DEF TableType, LockoutInv, SlowsDown, Entry, ServedWasConfigured, BearerTypeOK, TypeOK
  <1> HIDE DEF Ids
  <1> QED
    BY <1>2, <1>3, <1>4, <1>5, <1>6, LockoutInvariance, ServedIdentity, PTL DEF BearerSpec
=============================================================================
