\* Roles, invitations and the memberships they lead to.
SPECIFICATION Spec
CONSTANTS
  u1 = u1  u2 = u2  x1 = x1  i1 = i1  r1 = r1  r2 = r2
  Users = {u1, u2}
  Founder = u1
  Customs = {x1}
  Invites = {i1}
  Perishable = {i1}
  Requests = {r1, r2}
  Arriving = {"setrole", "remove", "erase", "createrole", "updaterole",
              "deleterole", "invite", "revoke", "accept"}
  NoRole = NoRole  NoInvite = NoInvite  NoUser = NoUser  NoJob = NoJob
SYMMETRY Interchangeable
INVARIANT ReferencesHold
PROPERTIES OwnerRoleByTransfer JoinsByInvitation
