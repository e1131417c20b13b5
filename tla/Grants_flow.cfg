\* Two requests at a time, two clients of one user, two codes.
SPECIFICATION Spec
CONSTANTS
  c1 = c1  c2 = c2  u1 = u1  offline = offline
  k1 = k1  k2 = k2  r1 = r1  r2 = r2
  Clients = {c1, c2}
  Users = {u1}
  Scopes = {offline}
  Offline = offline
  Codes = {k1, k2}
  Perishable = {k1}
  Requests = {r1, r2}
  NoCode = NoCode  NoJob = NoJob
SYMMETRY Interchangeable
INVARIANTS TypeOK WithinConsent WithdrawalEndsTokens
PROPERTIES SilentWithinConsent ImplementsOneTime
