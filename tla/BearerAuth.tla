---------------------------- MODULE BearerAuth ----------------------------
(***************************************************************************)
(* The authentication of requests in multi-client mode (src/mma_mcp/       *)
(* auth.py), in front of the OAuth server: a Bearer token is an OAuth      *)
(* token, or else base64(client_id:password), which is guarded by a        *)
(* lockout of its own.                                                     *)
(***************************************************************************)
EXTENDS OAuthServer

VARIABLES
  bearerFailures,  \* _login_failures of the middleware
  served,          \* history: the identities requests were served with
  configured       \* history: the clients and roles of the config files so far

bearerVars == <<vars, bearerFailures, served, configured>>

Identity(u, r) == [client |-> u, role |-> r]
InConfig == {Identity(u, conf[u]) : u \in {w \in User : conf[w] # None}}

BearerInit ==
  /\ Init
  /\ bearerFailures = [u \in User |-> NoFailures]
  /\ served = {}
  /\ configured = InConfig

(* get_token_client knows the token: current_client is what its row says.  *)
ServeToken(t) ==
  /\ Accepts(t)
  /\ served' = served \cup {Identity(row[t].user, row[t].role)}
  /\ UNCHANGED <<vars, bearerFailures, configured>>

(* _try_basic_token: a wrong password or a name that is not configured ... *)
BasicFails(u) ==
  /\ bearerFailures[u].count < MaxGuesses
  /\ ~Locked(bearerFailures[u], now)
  /\ bearerFailures' = [bearerFailures EXCEPT ![u] = AfterFailure(@, now)]
  /\ UNCHANGED <<vars, served, configured>>

(* ... or the right one: the role is that of the config file. *)
BasicServes(u) ==
  /\ Known(u)
  /\ ~Locked(bearerFailures[u], now)
  /\ bearerFailures' = [bearerFailures EXCEPT ![u] = NoFailures]
  /\ served' = served \cup {Identity(u, conf[u])}
  /\ UNCHANGED <<vars, configured>>

(* A restart loses the failures of the middleware as well. *)
BearerRestart ==
  /\ Restart
  /\ bearerFailures' = [u \in User |-> NoFailures]
  /\ configured' = configured \cup InConfig'
  /\ UNCHANGED served

BearerNext ==
  \/ (Request \/ Tick) /\ UNCHANGED <<bearerFailures, served, configured>>
  \/ \E t \in Token : ServeToken(t)
  \/ \E u \in User : BasicFails(u) \/ BasicServes(u)
  \/ BearerRestart

BearerSpec == BearerInit /\ [][BearerNext]_bearerVars
-----------------------------------------------------------------------------
(* Properties                                                              *)

(* Variables keep their types: the state of BearerAuthMiddleware on top of *)
(* that of the OAuth server.                                               *)
BearerTypeOK ==
  /\ TypeOK
  /\ bearerFailures \in [User -> [count : Nat, until : Nat]]
  /\ served \subseteq [client : User, role : Role]
  /\ configured \subseteq [client : User, role : Role]

(* "resolves the token to a ClientIdentity" (auth.py:66): whichever way a  *)
(* request is authenticated, and however the config file has changed since *)
(* the login, the identity it is served with is a client with the role     *)
(* that some config file gave it: roles and names are never mixed up on    *)
(* the way from the login over the code and the token to the request.      *)
ServedWasConfigured == served \subseteq configured

(* "locked out with exponential backoff" (oauth.py:476-478), at the login  *)
(* form and, with failures of its own, on the Bearer path: guesses get     *)
(* rarer however they are timed and whatever succeeds or expires meanwhile.*)
GuessesSlowDown ==
  \A u \in User : SlowedDown(failures[u], now) /\ SlowedDown(bearerFailures[u], now)
=============================================================================
