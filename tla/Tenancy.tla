------------------------------ MODULE Tenancy -------------------------------
(***************************************************************************)
(* One organization of the identity provider: its owner, members, roles    *)
(* and invitations (src/apps/api/src/orgs/mod.rs and rbac.rs).             *)
(*                                                                         *)
(* Every handler checks first and writes afterwards, in statements (or one *)
(* transaction) of its own, so what a check found may no longer hold when  *)
(* the write runs.  A request is a process with one step per statement; a  *)
(* transaction that takes its row locks with its first writes is one step. *)
(* The slots in Requests are reused: their number bounds how many requests *)
(* run at once.  The foreign keys and unique constraints of migrations     *)
(* 0002, 0003 and 0014 are conditions of the writes they guard.            *)
(*                                                                         *)
(* The organization permissions of a role are taken together: a role       *)
(* manages (all org.*.manage permissions, as the Administrator does) or    *)
(* not (as Member and Viewer).  Callers have reauthenticated recently.     *)
(***************************************************************************)
EXTENDS Naturals

CONSTANTS
  Users,
  Founder,     \* the user who created the organization
  Customs,     \* ids of custom roles
  Invites,     \* ids of invitations
  Perishable,  \* invitations whose expires_at passes within the behaviour
  Requests,    \* slots for concurrent requests
  Arriving,    \* the kinds of requests that arrive, all of them or some
  NoRole, NoInvite, NoUser, NoJob

ASSUME FounderAssumption == Founder \in Users
ASSUME RoleAssumption ==
  /\ NoRole \notin Customs \union {"Owner", "Administrator", "Member"}
  /\ Customs \intersect {"Owner", "Administrator", "Member"} = {}

VARIABLES
  users,      \* rows of users
  owner,      \* organizations.owner_id
  role,       \* org_memberships.role_id, NoRole for no row
  suspended,  \* memberships with status 'suspended'
  custom,     \* custom roles: "none" yet, "plain", "managing" or "deleted"
  invites,    \* rows of invitations
  accepted,   \* invitations with accepted_at set
  withdrawn,  \* invitations with revoked_at set
  lapsed,     \* invitations with expires_at in the past
  late,       \* invitations that closed while a request was accepting them
  pc, job,    \* next statement and input of a request
  raced       \* a change of owner or membership has overtaken a check

org     == <<users, owner, role, suspended>>
inbox   == <<invites, accepted, withdrawn, lapsed, late>>
session == <<pc, job>>
vars    == <<org, custom, inbox, session, raced>>

----------------------------------------------------------------------------

BuiltIn  == {"Owner", "Administrator", "Member"}
AllRoles == BuiltIn \union Customs

\* email (of a user), role_id and invited_by, NoUser for NULL
InviteRow == [user : Users, role : AllRoles, by : Users \union {NoUser}]

ASSUME InviteAssumption == NoInvite \notin InviteRow

Kinds == {"transfer", "setrole", "suspend", "unsuspend", "remove", "leave",
          "createrole", "updaterole", "deleterole",
          "invite", "revoke", "accept", "erase"}

Job == [kind : Kinds, actor : Users, target : Users, role : AllRoles,
        invite : Invites \union {NoInvite}]

Stages == {"idle", "active", "target", "role", "isowner", "already",
           "fallback", "load", "write"}

Issued     == {i \in Invites : invites[i] # NoInvite}
\* list_invitations decodes invited_by as a value that is not NULL
Listable(i) == invites[i].by # NoUser
IsMember(u) == role[u] # NoRole
Active(u)   == IsMember(u) /\ u \notin suspended
Existing    == BuiltIn \union {x \in Customs : custom[x] \in {"plain", "managing"}}
Managing    == {"Owner", "Administrator"} \union {x \in Customs : custom[x] = "managing"}
\* principal.is_owner || has_permission, for an active member
MayManage(u) == Active(u) /\ role[u] \in Managing

\* The next statement of a request; a request that is answered frees its slot.
Goto(r, to) ==
  /\ pc' = [pc EXCEPT ![r] = to]
  /\ job' = IF to = "idle" THEN [job EXCEPT ![r] = NoJob] ELSE job

\* A check: go on when it holds, or answer with an error.
Check(r, at, holds, to) ==
  /\ pc[r] = at
  /\ Goto(r, IF holds THEN to ELSE "idle")
  /\ UNCHANGED <<org, custom, inbox, raced>>

At(r, at, kinds) == pc[r] = at /\ job[r].kind \in kinds

\* A request q that has checked, and not yet used, that its subject is (or
\* is not) the owner, when r makes its target the owner.
OvertakenByTransfer(q, r) ==
  /\ q # r
  /\ \/ /\ At(q, "active", {"transfer"}) \/ At(q, "write", {"transfer"})
        /\ job[q].actor = job[r].actor
     \/ /\ \/ At(q, "write", {"setrole", "suspend", "remove", "leave"})
           \/ At(q, "role", {"setrole"})
        /\ job[q].target = job[r].target

\* A transfer q that has checked that its target is active, when r suspends
\* or removes that member.
OvertakenByRemoval(q, r) ==
  q # r /\ At(q, "write", {"transfer"}) /\ job[q].target = job[r].target

\* A request that has found an invitation open and is to accept it.
Accepting(q) == At(q, "fallback", {"accept"}) \/ At(q, "write", {"accept"})

Closed == accepted \union withdrawn \union lapsed
\* Invitation i closes, while some of the requests S may be accepting it.
Close(i, S) ==
  late' = IF \E q \in S : Accepting(q) /\ job[q].invite = i THEN late \union {i} ELSE late

----------------------------------------------------------------------------

\* create_org has committed; the other members have joined as the built-in
\* roles that invitations can name.
Init ==
  /\ users = Users
  /\ owner = Founder
  /\ role \in {f \in [Users -> {"Owner", "Administrator", "Member", NoRole}] :
                 \A u \in Users : f[u] = "Owner" <=> u = Founder}
  /\ suspended = {}
  /\ custom = [x \in Customs |-> "none"]
  /\ invites = [i \in Invites |-> NoInvite]
  /\ accepted = {} /\ withdrawn = {} /\ lapsed = {} /\ late = {}
  /\ pc = [r \in Requests |-> "idle"]
  /\ job = [r \in Requests |-> NoJob]
  /\ raced = FALSE

----------------------------------------------------------------------------
(* Arrival of a request, with the first statement of its handler: until    *)
(* then it has read nothing and changed nothing.  The job keeps the        *)
(* caller and the target where a later statement uses them.                *)

Arrive(r, first, input) ==
  /\ pc[r] = "idle"
  /\ input.kind \in Arriving
  /\ job' = [job EXCEPT ![r] = input]
  /\ pc' = [pc EXCEPT ![r] = first]
  /\ UNCHANGED <<org, custom, inbox, raced>>

\* transfer_ownership: the caller has the Owner role.
AcceptTransfer(r) ==
  \E a \in users : \E b \in users \ {a} :
    /\ role[a] = "Owner"
    /\ Arrive(r, "active", [kind |-> "transfer", actor |-> a, target |-> b,
                            role |-> "Member", invite |-> NoInvite])

\* set_member_role, suspend_member, unsuspend_member and remove_member on
\* somebody else, and remove_member by whoever leaves: rbac::authorize.
AcceptOnMember(r) ==
  \E a \in users : MayManage(a) /\
    \/ \E t \in users \ {a}, x \in AllRoles :
         Arrive(r, "target", [kind |-> "setrole", actor |-> t, target |-> t,
                              role |-> x, invite |-> NoInvite])
    \/ \E k \in {"suspend", "unsuspend", "remove"}, t \in users \ {a} :
         Arrive(r, "target", [kind |-> k, actor |-> t, target |-> t,
                              role |-> "Member", invite |-> NoInvite])
    \/ Arrive(r, "isowner", [kind |-> "leave", actor |-> a, target |-> a,
                             role |-> "Member", invite |-> NoInvite])

\* create_role, update_role and delete_role: rbac::authorize.  A role that
\* has been deleted can still be named.
AcceptOnRole(r) ==
  \E k \in {"createrole", "updaterole", "deleterole"}, a \in users, x \in Customs :
    /\ MayManage(a)
    /\ custom[x] = "none" <=> k = "createrole"
    /\ Arrive(r, IF k = "createrole" THEN "write" ELSE "load",
              [kind |-> k, actor |-> Founder, target |-> Founder, role |-> x,
               invite |-> NoInvite])

\* create_invitation and revoke_invitation: rbac::authorize.
AcceptOnInvite(r) ==
  \E a \in users : MayManage(a) /\
    \/ \E t \in users, x \in AllRoles :
         Arrive(r, "role", [kind |-> "invite", actor |-> a, target |-> t,
                            role |-> x, invite |-> NoInvite])
    \/ \E i \in Issued :
         Arrive(r, "write", [kind |-> "revoke", actor |-> Founder, target |-> Founder,
                             role |-> "Member", invite |-> i])

\* Mutant: revoked_at is not looked at.
AcceptInvitation_Revoked(r) ==
  \E i \in Issued \ (accepted \union lapsed) :
    LET a == invites[i].user IN
    /\ a \in users
    /\ Arrive(r, "fallback", [kind |-> "accept", actor |-> a, target |-> a,
                              role |-> "Member", invite |-> i])

\* accept_invitation: the invitation is open and sent to the caller.
AcceptInvitation(r) ==
  \E i \in Issued \ Closed :
    LET a == invites[i].user IN
    /\ a \in users
    /\ Arrive(r, "fallback", [kind |-> "accept", actor |-> a, target |-> a,
                              role |-> "Member", invite |-> i])

\* delete_account: the caller owns no organization.
AcceptErase(r) ==
  \E a \in users \ {owner} :
    Arrive(r, "write", [kind |-> "erase", actor |-> a, target |-> a,
                        role |-> "Member", invite |-> NoInvite])

----------------------------------------------------------------------------
(* Checks                                                                  *)

\* Mutant: the target is not compared with the owner.
CheckTarget_Any(r) ==
  Check(r, "target", TRUE,
        CASE job[r].kind = "setrole" -> "role"
          [] job[r].kind = "remove"  -> "isowner"
          [] OTHER -> "write")

\* validate_member_target: the target is not the owner.
CheckTarget(r) ==
  Check(r, "target", owner # job[r].target,
        CASE job[r].kind = "setrole" -> "role"
          [] job[r].kind = "remove"  -> "isowner"
          [] OTHER -> "write")

\* Mutant: the Owner role can be assigned like any other.
CheckRole_Any(r) ==
  Check(r, "role", job[r].role \in Existing,
        IF job[r].kind = "invite" THEN "already" ELSE "write")

\* The role assigned exists in the organization and is not the Owner role.
CheckRole(r) ==
  Check(r, "role", job[r].role \in Existing /\ job[r].role # "Owner",
        IF job[r].kind = "invite" THEN "already" ELSE "write")

\* remove_member looks at the owner once more, for those who leave as well.
CheckNotOwner(r) == Check(r, "isowner", owner # job[r].target, "write")

\* create_invitation: whoever is a member already is not invited.
CheckAlready(r) == Check(r, "already", ~IsMember(job[r].target), "write")

\* transfer_ownership: the new owner is an active member.
CheckActive(r) == Check(r, "active", Active(job[r].target), "write")

\* accept_invitation takes the role of the invitation, or Member when it no
\* longer exists.
CheckFallback(r) ==
  /\ pc[r] = "fallback"
  /\ LET x == invites[job[r].invite].role IN
     job' = [job EXCEPT ![r].role = IF x \in Existing /\ x # "Owner" THEN x ELSE "Member"]
  /\ pc' = [pc EXCEPT ![r] = "write"]
  /\ UNCHANGED <<org, custom, inbox, raced>>

\* update_role finds the role; delete_role also that no member has it.
LoadRole(r) ==
  Check(r, "load",
        /\ job[r].role \in Existing
        /\ job[r].kind = "deleterole" => \A u \in Users : role[u] # job[r].role,
        "write")

----------------------------------------------------------------------------
(* Writes                                                                  *)

\* The transaction of transfer_ownership: rows that do not exist are not
\* updated; owner_id must name a user.
Transfer(r) ==
  /\ At(r, "write", {"transfer"})
  /\ LET a == job[r].actor  b == job[r].target IN
     \/ /\ b \in users
        /\ role' = [u \in Users |->
             CASE u = b /\ IsMember(u) -> "Owner"
               [] u = a /\ IsMember(u) -> "Administrator"
               [] OTHER -> role[u]]
        /\ owner' = b
        /\ raced' = (raced \/ \E q \in Requests : OvertakenByTransfer(q, r))
     \/ b \notin users /\ UNCHANGED <<role, owner, raced>>
  /\ Goto(r, "idle")
  /\ UNCHANGED <<users, suspended, custom, inbox>>

\* set_member_role: UPDATE ... WHERE status = 'active'; the role must exist.
WriteRole(r) ==
  /\ At(r, "write", {"setrole"})
  /\ role' = IF Active(job[r].target) /\ job[r].role \in Existing
               THEN [role EXCEPT ![job[r].target] = job[r].role] ELSE role
  /\ Goto(r, "idle")
  /\ UNCHANGED <<users, owner, suspended, custom, inbox, raced>>

\* update_member_status
WriteStatus(r) ==
  /\ At(r, "write", {"suspend", "unsuspend"})
  /\ LET t == job[r].target IN
     IF job[r].kind = "suspend" /\ Active(t)
       THEN /\ suspended' = suspended \union {t}
            /\ raced' = (raced \/ \E q \in Requests : OvertakenByRemoval(q, r))
       ELSE /\ suspended' = IF job[r].kind = "unsuspend" THEN suspended \ {t} ELSE suspended
            /\ UNCHANGED raced
  /\ Goto(r, "idle")
  /\ UNCHANGED <<users, owner, role, custom, inbox>>

\* remove_member: DELETE FROM org_memberships
DeleteMember(r) ==
  /\ At(r, "write", {"remove", "leave"})
  /\ role' = [role EXCEPT ![job[r].target] = NoRole]
  /\ suspended' = suspended \ {job[r].target}
  /\ raced' = (raced \/ \E q \in Requests : OvertakenByRemoval(q, r))
  /\ Goto(r, "idle")
  /\ UNCHANGED <<users, owner, custom, inbox>>

\* Mutant: owner_id has no foreign key.
EraseUser_NoKey(r) ==
  /\ At(r, "write", {"erase"})
  /\ users' = users \ {job[r].actor}
  /\ role' = [role EXCEPT ![job[r].actor] = NoRole]
  /\ suspended' = suspended \ {job[r].actor}
  /\ Goto(r, "idle")
  /\ UNCHANGED <<owner, custom, inbox, raced>>

\* delete_account: the membership goes with the user (ON DELETE CASCADE), an
\* invitation loses its inviter (ON DELETE SET NULL); the DELETE fails for a
\* user that owner_id names.
EraseUser(r) ==
  /\ At(r, "write", {"erase"})
  /\ LET a == job[r].actor IN
     \/ /\ owner # a
        /\ users' = users \ {a}
        /\ role' = [role EXCEPT ![a] = NoRole]
        /\ suspended' = suspended \ {a}
        /\ invites' = [i \in Invites |->
             IF i \in Issued /\ invites[i].by = a
               THEN [invites[i] EXCEPT !.by = NoUser] ELSE invites[i]]
     \/ owner = a /\ UNCHANGED <<users, role, suspended, invites>>
  /\ Goto(r, "idle")
  /\ UNCHANGED <<owner, custom, accepted, withdrawn, lapsed, late, raced>>

\* create_invitation: INSERT; the role and the inviter must exist.
InsertInvitation(r) ==
  /\ At(r, "write", {"invite"})
  /\ \/ /\ job[r].role \in Existing /\ job[r].actor \in users
        /\ Invites \ Issued # {}
        /\ LET i == CHOOSE n \in Invites : n \notin Issued IN
           invites' = [invites EXCEPT ![i] = 
                       [user |-> job[r].target, role |-> job[r].role, by |-> job[r].actor]]
     \/ /\ ~(job[r].role \in Existing /\ job[r].actor \in users)
        /\ UNCHANGED invites
  /\ Goto(r, "idle")
  /\ UNCHANGED <<org, custom, accepted, withdrawn, lapsed, late, raced>>

\* revoke_invitation: only while it is neither accepted nor revoked
WithdrawInvitation(r) ==
  /\ At(r, "write", {"revoke"})
  /\ withdrawn' = IF job[r].invite \in accepted THEN withdrawn
                  ELSE withdrawn \union {job[r].invite}
  /\ Close(job[r].invite, Requests)
  /\ Goto(r, "idle")
  /\ UNCHANGED <<org, custom, invites, accepted, lapsed, raced>>

\* The transaction of accept_invitation: not a member yet, the role exists.
\* Whether the invitation is still open is not looked at again.
JoinOrganization(r) ==
  /\ At(r, "write", {"accept"})
  /\ LET u == job[r].actor IN
     \/ /\ u \in users /\ ~IsMember(u) /\ job[r].role \in Existing
        /\ role' = [role EXCEPT ![u] = job[r].role]
        /\ accepted' = accepted \union {job[r].invite}
        /\ Close(job[r].invite, Requests \ {r})
     \/ /\ ~(u \in users /\ ~IsMember(u) /\ job[r].role \in Existing)
        /\ UNCHANGED <<role, accepted, late>>
  /\ Goto(r, "idle")
  /\ UNCHANGED <<users, owner, suspended, custom, invites, withdrawn, lapsed, raced>>

\* create_role and update_role, with or without management permissions; the
\* name of a new role is free, the role that is updated still exists.
WriteCustom(r) ==
  /\ At(r, "write", {"createrole", "updaterole"})
  /\ LET x == job[r].role IN
     IF IF job[r].kind = "createrole" THEN custom[x] = "none" ELSE x \in Existing
       THEN \E as \in {"plain", "managing"} : custom' = [custom EXCEPT ![x] = as]
       ELSE UNCHANGED custom
  /\ Goto(r, "idle")
  /\ UNCHANGED <<org, inbox, raced>>

\* Mutant: invitations do not reference the role.
DeleteRole_NoKey(r) ==
  /\ At(r, "write", {"deleterole"})
  /\ LET x == job[r].role IN
     custom' = IF \E u \in Users : role[u] = x THEN custom ELSE [custom EXCEPT ![x] = "deleted"]
  /\ Goto(r, "idle")
  /\ UNCHANGED <<org, inbox, raced>>

\* delete_role: DELETE fails while a membership or an invitation of any age
\* references the role.
DeleteRole(r) ==
  /\ At(r, "write", {"deleterole"})
  /\ LET x == job[r].role
         referenced == \/ \E u \in Users : role[u] = x
                       \/ \E i \in Issued : invites[i].role = x IN
     custom' = IF referenced THEN custom ELSE [custom EXCEPT ![x] = "deleted"]
  /\ Goto(r, "idle")
  /\ UNCHANGED <<org, inbox, raced>>

----------------------------------------------------------------------------
(* Time and failures                                                       *)

Lapse(i) ==
  /\ i \in (Issued \intersect Perishable) \ lapsed
  /\ lapsed' = lapsed \union {i}
  /\ Close(i, Requests)
  /\ UNCHANGED <<org, custom, invites, accepted, withdrawn, session, raced>>

\* A request is dropped between two statements.
Fail(r) ==
  /\ pc[r] # "idle"
  /\ Goto(r, "idle")
  /\ UNCHANGED <<org, custom, inbox, raced>>

----------------------------------------------------------------------------

Accept(r) ==
  \/ AcceptTransfer(r) \/ AcceptOnMember(r) \/ AcceptOnRole(r)
  \/ AcceptOnInvite(r) \/ AcceptInvitation(r) \/ AcceptErase(r)

Checks(r) ==
  \/ CheckTarget(r) \/ CheckRole(r) \/ CheckNotOwner(r) \/ CheckAlready(r)
  \/ CheckActive(r) \/ CheckFallback(r) \/ LoadRole(r)

Writes(r) ==
  \/ Transfer(r) \/ WriteRole(r) \/ WriteStatus(r) \/ DeleteMember(r)
  \/ EraseUser(r) \/ InsertInvitation(r) \/ WithdrawInvitation(r)
  \/ JoinOrganization(r) \/ WriteCustom(r) \/ DeleteRole(r)

Next ==
  \/ \E r \in Requests : Accept(r) \/ Checks(r) \/ Writes(r) \/ Fail(r)
  \/ \E i \in Invites : Lapse(i)

Spec == Init /\ [][Next]_vars

----------------------------------------------------------------------------
(* Properties                                                              *)

\* Every variable has its type; whoever owns the organization is a user, also
\* when an account is erased while its owner changes.
TypeOK ==
  /\ users \subseteq Users
  /\ owner \in users
  /\ role \in [Users -> AllRoles \union {NoRole}]
  /\ suspended \subseteq Users
  /\ custom \in [Customs -> {"none", "plain", "managing", "deleted"}]
  /\ invites \in [Invites -> InviteRow \union {NoInvite}]
  /\ accepted \subseteq Issued /\ withdrawn \subseteq Issued
  /\ lapsed \subseteq Issued /\ late \subseteq Issued
  /\ pc \in [Requests -> Stages]
  /\ job \in [Requests -> Job \union {NoJob}]
  /\ raced \in BOOLEAN

\* The role of a member and of an invitation, the user of a membership and
\* the inviter (unless NULL) exist, whatever deletions ran between a check
\* and its write.
ReferencesHold ==
  /\ \A u \in Users : IsMember(u) => u \in users /\ role[u] \in Existing
  /\ \A i \in Issued :
       invites[i].role \in Existing /\ invites[i].by \in users \union {NoUser}
  /\ suspended \subseteq {u \in Users : IsMember(u)}

\* threat-model.md T2: the Owner role is only reached through a transfer,
\* which makes whoever gets the role the owner.
OwnerRoleByTransfer ==
  [][\A u \in Users : role[u] # "Owner" /\ role'[u] = "Owner" => owner' = u]_vars

\* Whoever joins does so by an invitation sent to them, as the role it names
\* or as Member; one that was accepted, revoked or has expired admits nobody,
\* unless it closed after the request had found it open.
JoinsByInvitation ==
  [][\A u \in Users : role[u] = NoRole /\ role'[u] # NoRole =>
       \E i \in Issued : /\ i \in accepted' /\ invites[i].user = u
                         /\ role'[u] \in {invites[i].role, "Member"}
                         /\ i \in Closed => i \in late]_vars

\* The owner is an active member and the only one with the Owner role,
\* unless a transfer overtook a check made for another request on the same
\* member: the handlers keep the ownership intact one at a time, and only
\* this overlap can break it.
OwnershipIntact ==
  raced \/ /\ Active(owner)
           /\ \A u \in Users : role[u] = "Owner" <=> u = owner

----------------------------------------------------------------------------
(* What the documentation says                                             *)

\* threat-model.md T2: "Owner cannot be suspended/removed".
OwnerIsActiveMember == Active(owner)

\* migration 0014: "Records that reference users for provenance only keep
\* working after the account is gone": list_invitations, which decodes the
\* invited_by of every row, still can.
InvitationsKeepWorking == \A i \in Issued : Listable(i)
=============================================================================
