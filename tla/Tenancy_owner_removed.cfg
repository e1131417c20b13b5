\* The documented standing of the owner.
SPECIFICATION Spec
CONSTANTS
  u1 = u1  u2 = u2  u3 = u3  r1 = r1  r2 = r2
  Users = {u1, u2, u3}
  Founder = u1
  Customs = {}
  Invites = {}
  Perishable = {}
  Requests = {r1, r2}
  Arriving = {"transfer", "setrole", "suspend", "unsuspend", "remove", "leave", "erase"}
  NoRole = NoRole  NoInvite = NoInvite  NoUser = NoUser  NoJob = NoJob
SYMMETRY Interchangeable
INVARIANT OwnerIsActiveMember
