\* Codes and tokens of registered clients, a user whose role changes: expiry, capacity, restarts.
CONSTANTS
  u1 = u1  u2 = u2  r1 = r1  r2 = r2  c1 = c1  c2 = c2  c3 = c3  a1 = a1  a2 = a2  v1 = v1  v2 = v2
  k1 = k1  k2 = k2  k3 = k3  t1 = t1  t2 = t2  t3 = t3
  User <- OneUser
  Legacy = u2
  Role <- TwoRoles
  ClientId <- ThreeClients
  Uri <- OneUri
  Verifier <- OneVerifier
  Code <- ThreeCodes
  Token <- ThreeTokens
  None = None
  CodeTTL = 1  TokenTTL = 2
  MaxCodes = 2  MaxTokens = 2  MaxClients = 2
  MaxTime = 3
  MaxFailures = 2  MaxLockout = 3
  MaxGuesses = 0
SPECIFICATION AuthSpec
SYMMETRY ClientSymmetry
INVARIANTS BearerTypeOK TokenMatchesLogin LifetimeBound WithinCapacity ServedWasConfigured
PROPERTIES OneTimeSpec NoTokenLost
