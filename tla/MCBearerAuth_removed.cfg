\* A client whose section is deleted from the config file, and the user of legacy mode.
CONSTANTS
  u1 = u1  u2 = u2  r1 = r1  r2 = r2  c1 = c1  c2 = c2  c3 = c3  a1 = a1  a2 = a2  v1 = v1  v2 = v2
  k1 = k1  k2 = k2  k3 = k3  t1 = t1  t2 = t2  t3 = t3
  User <- TwoUsers
  Legacy = u2
  Role <- OneRole
  ClientId <- OneClient
  Uri <- OneUri
  Verifier <- OneVerifier
  Code <- TwoCodes
  Token <- TwoTokens
  None = None
  CodeTTL = 1  TokenTTL = 2
  MaxCodes = 1  MaxTokens = 1  MaxClients = 1
  MaxTime = 3
  MaxFailures = 2  MaxLockout = 3
  MaxGuesses = 0
SPECIFICATION AuthSpec
SYMMETRY ClientSymmetry
INVARIANT RemovedClientRefused
