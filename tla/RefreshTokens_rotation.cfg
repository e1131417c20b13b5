\* Four concurrent uses of the tokens of one family: two rotations can be
\* followed by two reuse detections, whose row locks can form a cycle; the first token expires.
SPECIFICATION FairSpec
CONSTANTS
  t1 = t1  t2 = t2  t3 = t3  t4 = t4  t5 = t5
  r1 = r1  r2 = r2  r3 = r3  r4 = r4
  c1 = c1  m1 = m1
  Tokens = {t1, t2, t3, t4, t5}
  Roots = {t1}
  Perishable = {t1}
  Requests = {r1, r2, r3, r4}
  Clients = {c1}
  Members = {m1}
  Accounts <- OneAccount
  Kinds = {"refresh"}
  NoToken = NoToken  NoRequest = NoRequest
  NoBinding = NoBinding  NoJob = NoJob
INVARIANTS RotationIsExact ReuseMarksPrefix ReuseIsJustified
PROPERTY EveryRequestEnds
