\* Every kind of request beside every other: two clients, one user
\* with two memberships that end and come back.
SPECIFICATION Spec
CONSTANTS
  t1 = t1  t2 = t2  t3 = t3  t4 = t4  t5 = t5
  r1 = r1  r2 = r2  r3 = r3
  c1 = c1  c2 = c2  m1 = m1  m2 = m2
  Tokens = {t1, t2, t3, t4}
  Roots = {t1}
  Perishable = {}
  Requests = {r1, r2, r3}
  Clients = {c1, c2}
  Members = {m1, m2}
  Accounts <- OneAccount
  Kinds = {"exchange", "refresh", "revoke", "suspend", "remove", "reset"}
  NoToken = NoToken  NoRequest = NoRequest
  NoBinding = NoBinding  NoJob = NoJob
SYMMETRY Interchangeable
INVARIANTS TypeOK AtMostOneLive RevocationTakesEffect SuspensionEndsTokens
PROPERTIES RevocationIsFinal ImplementsFamilies
