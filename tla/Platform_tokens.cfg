\* A few machines and one application, two requests at a time, of the kinds
\* of each race.
SPECIFICATION Spec
CONSTANTS
  r1 = r1  r2 = r2  r3 = r3  u1 = u1  u2 = u2  sa = sa  d1 = d1  d2 = d2  e1 = e1  e2 = e2  c1 = c1
  Requests = {r1, r2, r3}
  Users = {u1, u2}
  ServiceAccounts = {sa}
  Devices = {d1, d2}
  Creds = {1, 2, 3, 4}
  Enrollments = {e1, e2}
  Codes = {c1}
  Tokens = {1, 2}
  Keys = {1, 2, 3}
  MaxTime = 3
  Ttl = 1
  Grace = 2
  Latency = 1
  MaxSecret = 3
  Mixes <- Races
  None = None
SYMMETRY Interchangeable
INVARIANTS TypeOK KeyOutlivesTokens OneActiveKey OldCredentialsFade OneLiveCredential
  MintedForApprover ReplacedSecretsArchived
PROPERTIES GoneStaysGone ImplementsOneTime ConsumedBeforeDeletion
CHECK_DEADLOCK FALSE
