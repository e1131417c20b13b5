\* What upsert_grant is called for.
SPECIFICATION Spec
CONSTANTS
  c1 = c1  u1 = u1  offline = offline
  k1 = k1  k2 = k2  r1 = r1
  Clients = {c1}
  Users = {u1}
  Scopes = {offline}
  Offline = offline
  Codes = {k1, k2}
  Perishable = {k1}
  Requests = {r1}
  NoCode = NoCode  NoJob = NoJob
INVARIANT GrantRemembered
