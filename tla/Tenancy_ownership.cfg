\* The owner and the members: two requests at a time, three users.
SPECIFICATION Spec
CONSTANTS
  u1 = u1  u2 = u2  u3 = u3  r1 = r1  r2 = r2
  Users = {u1, u2, u3}
  Founder = u1
  Customs = {}
  Invites = {}
  Perishable = {}
  Requests = {r1, r2}
  Arriving = {"transfer", "setrole", "suspend", "unsuspend", "remove", "leave", "erase"}
  NoRole = NoRole  NoInvite = NoInvite  NoUser = NoUser  NoJob = NoJob
SYMMETRY Interchangeable
INVARIANTS TypeOK OwnershipIntact
\* Once nobody may manage the organization and no account but the owner's is
\* left, every request is refused.
CHECK_DEADLOCK FALSE
