\* The documented effect of reuse detection.
SPECIFICATION Spec
CONSTANTS
  t1 = t1  t2 = t2  t3 = t3  t4 = t4  t5 = t5
  r1 = r1  r2 = r2  r3 = r3  r4 = r4
  c1 = c1  c2 = c2  m1 = m1  m2 = m2
  Tokens = {t1, t2, t3, t4}
  Roots = {t1}
  Perishable = {}
  Requests = {r1, r2, r3}
  Clients = {c1}
  Members = {m1}
  Accounts <- OneAccount
  Kinds = {"refresh"}
  NoToken = NoToken  NoRequest = NoRequest
  NoBinding = NoBinding  NoJob = NoJob
INVARIANT ReuseRevokesFamily
