---------------------------- MODULE OAuthServer ----------------------------
(***************************************************************************)
(* The OAuth 2.1 server of the HTTP transport (src/mma_mcp/oauth.py):      *)
(* client registration, the login form that issues authorization codes,    *)
(* the token endpoint, the lookup of tokens, and the process restarts that *)
(* the SQLite store survives and everything else does not.                 *)
(*                                                                         *)
(* The handlers are coroutines that await only the body of their request:  *)
(* from then on each runs to its end without another one in between, so    *)
(* each is one action, for every way it can go.  Requests that are refused *)
(* without touching the state are not actions.                             *)
(*                                                                         *)
(* In legacy mode there is one "user", the key __legacy__, whose password  *)
(* is the server's and whose codes carry no name: the same actions.  The   *)
(* tables may hold tokens from both modes, since a restart may change it.  *)
(***************************************************************************)
EXTENDS FiniteSets, Lockout

CONSTANTS
  User,       \* names typed into the login form, configured or not
  Legacy,     \* the user of legacy mode, whose tokens have no client name
  Role,
  ClientId,   \* identities that registration hands out
  Uri,        \* redirect URIs
  Verifier,   \* PKCE verifiers; a challenge is named by its verifier
  Code, Token,          \* identities of codes and of tokens, never reused
  None,
  CodeTTL, TokenTTL,    \* _CODE_TTL, _TOKEN_TTL, in ticks
  MaxCodes, MaxTokens, MaxClients,  \* the capacity limits
  MaxTime,              \* bound: the clock stops here
  MaxGuesses            \* bound: failed logins in a row

ASSUME OAuthAssumption ==
  /\ IsFiniteSet(Code) /\ IsFiniteSet(Token) /\ IsFiniteSet(ClientId)
  /\ None \notin User \cup Role \cup ClientId \cup Code \cup Token \cup Verifier
  /\ {CodeTTL, TokenTTL, MaxCodes, MaxTokens, MaxClients} \subseteq Nat \ {0}
  /\ MaxTime \in Nat /\ MaxGuesses \in Nat

VARIABLES
  now,       \* time.time()
  conf,      \* the role of each client in the config file, None if not in it
  failures,  \* _login_failures
  clients,   \* table oauth_clients: the redirect URIs of each, None if absent
  pending,   \* the keys of _auth_codes
  auth,      \* the _AuthCode made under each key, also after it was popped
  stored,    \* the keys of table oauth_tokens
  row,       \* the row inserted under each key, also after its deletion
  minted     \* history: the code for which each token was issued

codeVars  == <<pending, auth>>
tokenVars == <<stored, row, minted>>
vars == <<now, conf, failures, clients, codeVars, tokenVars>>

AuthCode == [client : ClientId, uri : Uri, challenge : Verifier,
             expires : 0..(MaxTime + CodeTTL), user : User, role : Role]
TokenRow == [client : ClientId, user : User, role : Role,
             expires : 0..(MaxTime + TokenTTL)]

ASSUME NoneIsNoCode == None \notin AuthCode

Init ==
  /\ now = 0
  /\ conf \in [User -> Role \cup {None}]
  /\ failures = [u \in User |-> NoFailures]
  /\ clients = [c \in ClientId |-> None]
  /\ pending = {} /\ auth = [k \in Code |-> None]
  /\ stored = {} /\ row = [t \in Token |-> None]
  /\ minted = [t \in Token |-> None]

Registered == {c \in ClientId : clients[c] # None}
Issued     == {k \in Code : auth[k] # None}

-----------------------------------------------------------------------------
(* Housekeeping: _evict_expired.                                           *)

(* A mutant: tokens go a tick early. *)
LiveTokensEarly == {t \in stored : row[t].expires > now + 1}

LiveCodes  == {k \in pending : now < auth[k].expires}
LiveTokens == {t \in stored : row[t].expires > now}

-----------------------------------------------------------------------------
(* _register                                                               *)
Register(c, uris) ==
  /\ Cardinality(Registered) < MaxClients
  /\ clients[c] = None
  /\ clients' = [clients EXCEPT ![c] = uris]
  /\ UNCHANGED <<now, conf, failures, codeVars, tokenVars>>

-----------------------------------------------------------------------------
(* _authorize_submit                                                       *)

(* A wrong password, or a name that is not in the config file. *)
LoginFails(u) ==
  /\ failures[u].count < MaxGuesses
  /\ ~Locked(failures[u], now)
  /\ failures' = [failures EXCEPT ![u] = AfterFailure(@, now)]
  /\ UNCHANGED <<now, conf, clients, codeVars, tokenVars>>

(* A mutant: a name that is not in the config file logs in. *)
KnownAnyway(u) == TRUE
Known(u) == conf[u] # None

(* The right password: _check_credentials clears the failures before the   *)
(* OAuth parameters are looked at.                                         *)
LogsIn(u) ==
  /\ Known(u)
  /\ ~Locked(failures[u], now)
  /\ failures' = [failures EXCEPT ![u] = NoFailures]

ValidRequest(c, uri) == clients[c] # None /\ uri \in clients[c]

(* Wrong parameters, or no challenge: no code, nothing is evicted. *)
AuthorizeInvalid(u) ==
  /\ LogsIn(u)
  /\ UNCHANGED <<now, conf, clients, codeVars, tokenVars>>

(* A mutant: the capacity is not looked at. *)
RoomAlways == TRUE
RoomForCode == Cardinality(LiveCodes) < MaxCodes

Authorize(u, c, uri, v) ==
  /\ LogsIn(u) /\ ValidRequest(c, uri)
  /\ stored' = LiveTokens
  /\ RoomForCode
  /\ \E k \in Code \ Issued :
       /\ pending' = LiveCodes \cup {k}
       /\ auth' = [auth EXCEPT ![k] =
            [client |-> c, uri |-> uri, challenge |-> v,
             expires |-> now + CodeTTL, user |-> u, role |-> conf[u]]]
  /\ UNCHANGED <<now, conf, clients, row, minted>>

AuthorizeFull(u, c, uri) ==
  /\ LogsIn(u) /\ ValidRequest(c, uri)
  /\ stored' = LiveTokens
  /\ ~RoomForCode
  /\ pending' = LiveCodes
  /\ UNCHANGED <<now, conf, clients, auth, row, minted>>

-----------------------------------------------------------------------------
(* _token                                                                  *)

(* Mutants: the client is not compared; the expiry is not looked at. *)
GrantableToAnybody(k, c, uri, v) ==
  /\ now <= auth[k].expires
  /\ auth[k].uri = uri /\ auth[k].challenge = v
GrantableForEver(k, c, uri, v) ==
  auth[k].client = c /\ auth[k].uri = uri /\ auth[k].challenge = v

(* The code has not expired, by this clock (evicted codes are gone a tick  *)
(* earlier), and was issued for this client, URI and challenge.            *)
Grantable(k, c, uri, v) ==
  /\ now <= auth[k].expires
  /\ auth[k].client = c /\ auth[k].uri = uri /\ auth[k].challenge = v

(* The code is consumed before anything is compared. *)
TokenRefused(k, c, uri, v) ==
  /\ k \in pending
  /\ ~Grantable(k, c, uri, v)
  /\ pending' = pending \ {k}
  /\ UNCHANGED <<now, conf, failures, clients, auth, tokenVars>>

(* Also when there is no room for another token. *)
TokenFull(k, c, uri, v) ==
  /\ k \in pending
  /\ Grantable(k, c, uri, v)
  /\ pending' = LiveCodes \ {k}
  /\ stored' = LiveTokens
  /\ Cardinality(LiveTokens) >= MaxTokens
  /\ UNCHANGED <<now, conf, failures, clients, auth, row, minted>>

(* A mutant: get instead of pop. *)
NotConsumed(k) == LiveCodes
Consumed(k) == LiveCodes \ {k}

TokenIssued(k, c, uri, v) ==
  /\ k \in pending
  /\ Grantable(k, c, uri, v)
  /\ pending' = Consumed(k)
  /\ Cardinality(LiveTokens) < MaxTokens
  /\ \E t \in {s \in Token : minted[s] = None} :
       /\ stored' = LiveTokens \cup {t}
       /\ minted' = [minted EXCEPT ![t] = k]
       /\ row' = [row EXCEPT ![t] =
            [client |-> c, user |-> auth[k].user, role |-> auth[k].role,
             expires |-> now + TokenTTL]]
  /\ UNCHANGED <<now, conf, failures, clients, auth>>

-----------------------------------------------------------------------------
(* get_token_client and validate_token: the client a token stands for, if  *)
(* it has a name, and the deletion of the token when it has expired.       *)
Valid(t)   == t \in stored /\ now < row[t].expires
Accepts(t) == Valid(t) /\ row[t].user # Legacy

LookupExpired(t) ==
  /\ t \in stored /\ ~Valid(t)
  /\ stored' = stored \ {t}
  /\ UNCHANGED <<now, conf, failures, clients, codeVars, row, minted>>

(* The process ends and starts again, with the config file as it is now:   *)
(* the tables are read again, expired tokens are evicted, codes and        *)
(* failures are gone.                                                      *)
Restart ==
  /\ conf' \in [User -> Role \cup {None}]
  /\ failures' = [u \in User |-> NoFailures]
  /\ pending' = {}
  /\ stored' = LiveTokens
  /\ UNCHANGED <<now, clients, auth, row, minted>>

Tick ==
  /\ now < MaxTime
  /\ now' = now + 1
  /\ UNCHANGED <<conf, failures, clients, codeVars, tokenVars>>

Request ==
  \/ \E c \in ClientId, uris \in SUBSET Uri : Register(c, uris)
  \/ \E u \in User :
       \/ LoginFails(u) \/ AuthorizeInvalid(u)
       \/ \E c \in ClientId, uri \in Uri :
            \/ AuthorizeFull(u, c, uri)
            \/ \E v \in Verifier : Authorize(u, c, uri, v)
  \/ \E k \in Code, c \in ClientId, uri \in Uri, v \in Verifier :
       \/ TokenRefused(k, c, uri, v) \/ TokenFull(k, c, uri, v)
       \/ TokenIssued(k, c, uri, v)
  \/ \E t \in Token : LookupExpired(t)

Next == Request \/ Restart \/ Tick

Spec == Init /\ [][Next]_vars
-----------------------------------------------------------------------------
(* Properties                                                              *)

(* Every variable keeps its type: the dictionaries of OAuthServer and the  *)
(* tables of _TokenStore.                                                  *)
TypeOK ==
  /\ now \in 0..MaxTime
  /\ conf \in [User -> Role \cup {None}]
  /\ failures \in [User -> [count : Nat, until : Nat]]
  /\ clients \in [ClientId -> (SUBSET Uri) \cup {None}]
  /\ pending \subseteq Code /\ auth \in [Code -> AuthCode \cup {None}]
  /\ stored \subseteq Token /\ row \in [Token -> TokenRow \cup {None}]
  /\ minted \in [Token -> Code \cup {None}]

(* "one-time use" (oauth.py:415): a code gives at most one token, whatever *)
(* is evicted, refused or lost in a restart in between.                    *)
CodeState == [k \in Code |-> IF k \in pending THEN "pending"
                             ELSE IF auth[k] # None THEN "spent" ELSE "new"]
OneTime == INSTANCE OneTimeCode WITH state <- CodeState, NoCode <- None
OneTimeSpec == OneTime!Spec

(* A token stands for the login that its code was issued for: the same     *)
(* user and role, the client that registered the redirect URI to which the *)
(* code went.                                                              *)
TokenMatchesLogin ==
  \A t \in stored :
    LET k == minted[t] IN
    /\ k \in Issued \ pending
    /\ row[t].user = auth[k].user /\ row[t].role = auth[k].role
    /\ row[t].client = auth[k].client
    /\ auth[k].uri \in clients[row[t].client]

(* Nobody is let in longer than the two lifetimes after the login.         *)
LifetimeBound ==
  \A t \in stored : row[t].expires <= auth[minted[t]].expires + TokenTTL

(* A token that has not expired is not lost: not by evictions or lookups   *)
(* of others, not in a restart ("All data survives process restarts",      *)
(* oauth.py:73).                                                           *)
NoTokenLost ==
  [][\A t \in stored : now < row[t].expires
       => t \in stored' /\ row'[t] = row[t]]_vars

(* The limits of oauth.py:50-53 hold for what is kept, expired entries     *)
(* included.                                                               *)
WithinCapacity ==
  /\ Cardinality(pending) <= MaxCodes
  /\ Cardinality(stored) <= MaxTokens
  /\ Cardinality(Registered) <= MaxClients

(* "To remove a client, delete its [auth.clients.<name>] section from the  *)
(* config file and restart" (DEPLOY.md:486): a client that is not in the   *)
(* config file is not let in.                                              *)
RemovedClientRefused ==
  \A t \in Token : Accepts(t) => conf[row[t].user] # None
=============================================================================
