--------------------------- MODULE Tenancy_proofs ---------------------------
(***************************************************************************)
(* Proofs about Tenancy, for any numbers of users, roles, invitations and  *)
(* concurrent requests.                                                    *)
(*                                                                         *)
(* A request carries what its checks have left it with (Fits), and, until  *)
(* a change of owner or membership overtakes one of these checks, what it  *)
(* found still holds when its write runs (Informed): whoever transfers is  *)
(* the owner, the new owner is an active member unless the account was     *)
(* erased, and the target of every other change is not the owner.          *)
(***************************************************************************)
EXTENDS Tenancy, TLAPS

\* What a request carries at each stage.
Fits(r) ==
  pc[r] # "idle" =>
    /\ job[r] \in Job
    /\ pc[r] = "active"   => job[r].kind = "transfer"
    /\ pc[r] = "target"   => job[r].kind \in {"setrole", "suspend", "unsuspend", "remove"}
    /\ pc[r] = "role"     => job[r].kind \in {"setrole", "invite"}
    /\ pc[r] = "isowner"  => job[r].kind \in {"remove", "leave"}
    /\ pc[r] = "already"  => job[r].kind = "invite"
    /\ pc[r] = "fallback" => job[r].kind = "accept"
    /\ pc[r] = "load"     => job[r].kind \in {"updaterole", "deleterole"}
    /\ job[r].kind \in {"revoke", "accept"} => job[r].invite \in Issued
    /\ At(r, "write", {"setrole", "accept"}) => job[r].role # "Owner"

\* What a request may rely on as long as no check has been overtaken.
Informed(q) ==
  /\ At(q, "active", {"transfer"}) \/ At(q, "write", {"transfer"})
       => job[q].actor = owner /\ job[q].target # owner
  /\ At(q, "write", {"transfer"})
       => Active(job[q].target) \/ job[q].target \notin users
  /\ At(q, "role", {"setrole"}) \/ At(q, "write", {"setrole", "suspend", "remove", "leave"})
       => job[q].target # owner

JobInv == \A r \in Requests : Fits(r)

InformedInv == raced \/ \A q \in Requests : Informed(q)

IInv ==
  /\ TypeOK
  /\ JobInv
  /\ ReferencesHold
  /\ InformedInv
  /\ OwnershipIntact

----------------------------------------------------------------------------

LEMMA InitIInv ==
  ASSUME Init
  PROVE  IInv
<1> USE DEF Init, Issued
<1>1. TypeOK
  BY FounderAssumption DEF FounderAssumption, TypeOK, Stages, AllRoles, BuiltIn
<1>2. JobInv /\ InformedInv
  BY DEF JobInv, InformedInv, Fits, Informed, At
<1>3. ReferencesHold
  BY DEF ReferencesHold, IsMember, Existing, BuiltIn
<1>4. OwnershipIntact
  BY FounderAssumption, RoleAssumption
  DEF FounderAssumption, RoleAssumption, OwnershipIntact, Active, IsMember
<1> QED BY <1>1, <1>2, <1>3, <1>4 DEF IInv

\* The request that ends frees its slot and leaves the others as they are.
LEMMA EndFrame ==
  ASSUME TypeOK, JobInv, NEW r \in Requests, Goto(r, "idle"), Issued \subseteq Issued'
  PROVE  /\ pc' \in [Requests -> Stages]
         /\ job' \in [Requests -> Job \union {NoJob}]
         /\ pc'[r] = "idle"
         /\ \A q \in Requests \ {r} : pc'[q] = pc[q] /\ job'[q] = job[q]
         /\ JobInv'
<1>1. /\ pc' \in [Requests -> Stages]
      /\ job' \in [Requests -> Job \union {NoJob}]
      /\ pc'[r] = "idle"
      /\ \A q \in Requests \ {r} : pc'[q] = pc[q] /\ job'[q] = job[q]
  BY DEF TypeOK, Goto, Stages
<1>2. ASSUME NEW q \in Requests PROVE Fits(q)'
  <2>1. CASE q = r
    BY <1>1, <2>1 DEF Fits
  <2>2. CASE q # r
    BY <1>1, <2>2 DEF JobInv, Fits, At
  <2> QED BY <2>1, <2>2
<1> QED BY <1>1, <1>2 DEF JobInv

\* A request that is refused, or dropped, changes nothing.
LEMMA EndIInv ==
  ASSUME IInv, NEW r \in Requests, Goto(r, "idle"),
         UNCHANGED <<org, custom, inbox, raced>>
  PROVE  IInv'
<1> USE DEF IInv, org, inbox
<1>1. Issued' = Issued
  BY DEF Issued
<1>2. TypeOK' /\ JobInv'
  BY <1>1, EndFrame DEF TypeOK
<1>3. ReferencesHold' /\ OwnershipIntact'
  BY <1>1 DEF ReferencesHold, OwnershipIntact, IsMember, Active, Existing
<1>4. InformedInv'
  BY <1>1, EndFrame DEF InformedInv, Informed, At, Active, IsMember
<1> QED BY <1>2, <1>3, <1>4

\* A request moves on without a write.
LEMMA MoveIInv ==
  ASSUME IInv, NEW r \in Requests,
         UNCHANGED <<org, custom, inbox, raced>>,
         pc' = [pc EXCEPT ![r] = pc'[r]],
         job' = [job EXCEPT ![r] = job'[r]],
         pc'[r] \in Stages, job'[r] \in Job,
         Fits(r)', raced \/ Informed(r)'
  PROVE  IInv'
<1> USE DEF IInv, org, inbox
<1>1. /\ Issued' = Issued
      /\ \A q \in Requests \ {r} : pc'[q] = pc[q] /\ job'[q] = job[q]
  BY DEF Issued, TypeOK
<1>2. TypeOK'
  BY <1>1 DEF TypeOK
<1>3. JobInv'
  BY <1>1 DEF JobInv, Fits, At
<1>4. ReferencesHold' /\ OwnershipIntact'
  BY <1>1 DEF ReferencesHold, OwnershipIntact, IsMember, Active, Existing
<1>5. InformedInv'
  <2> SUFFICES ASSUME ~raced, NEW q \in Requests PROVE Informed(q)'
    BY DEF InformedInv
  <2>1. CASE q = r
    BY <2>1
  <2>2. CASE q # r
    BY <1>1, <2>2 DEF InformedInv, Informed, At, Active, IsMember
  <2> QED BY <2>1, <2>2
<1> QED BY <1>2, <1>3, <1>4, <1>5

\* A request that arrives fits the first stage of its handler.
LEMMA ArriveIInv ==
  ASSUME IInv, NEW r \in Requests, NEW first \in Stages, NEW input \in Job,
         Arrive(r, first, input),
         \/ /\ first = "active" /\ input.kind = "transfer"
            /\ role[input.actor] = "Owner" /\ input.actor # input.target
         \/ first = "target" /\ input.kind \in {"setrole", "suspend", "unsuspend", "remove"}
         \/ first = "isowner" /\ input.kind = "leave"
         \/ first = "load" /\ input.kind \in {"updaterole", "deleterole"}
         \/ first = "role" /\ input.kind = "invite"
         \/ first = "fallback" /\ input.kind = "accept" /\ input.invite \in Issued
         \/ first = "write" /\ input.kind \in {"createrole", "erase"}
         \/ first = "write" /\ input.kind = "revoke" /\ input.invite \in Issued
  PROVE  IInv'
<1>1. /\ UNCHANGED <<org, custom, inbox, raced>>
      /\ pc'[r] = first /\ job'[r] = input
      /\ pc' = [pc EXCEPT ![r] = pc'[r]] /\ job' = [job EXCEPT ![r] = job'[r]]
      /\ Issued' = Issued
  BY DEF IInv, TypeOK, Arrive, Issued, inbox
<1>2. Fits(r)'
  BY <1>1 DEF Fits, At
<1>3. raced \/ Informed(r)'
  BY <1>1 DEF Informed, At, IInv, OwnershipIntact, Job, org
<1> QED BY <1>1, <1>2, <1>3, MoveIInv

LEMMA AcceptIInv ==
  ASSUME IInv, NEW r \in Requests, Accept(r)
  PROVE  IInv'
<1> USE DEF Stages, Job, Kinds, AllRoles, BuiltIn
<1>0. users \subseteq Users /\ Issued \subseteq Invites /\ Founder \in Users
  BY FounderAssumption DEF FounderAssumption, IInv, TypeOK, Issued
<1>1. CASE AcceptTransfer(r)
  <2>1. PICK a \in users, b \in users :
          /\ a # b /\ role[a] = "Owner"
          /\ Arrive(r, "active", [kind |-> "transfer", actor |-> a, target |-> b,
                                  role |-> "Member", invite |-> NoInvite])
    BY <1>1 DEF AcceptTransfer
  <2> QED BY <1>0, <2>1, ArriveIInv
<1>2. CASE AcceptOnMember(r)
  <2>1. PICK a \in users :
          \/ \E t \in users, x \in AllRoles :
               Arrive(r, "target", [kind |-> "setrole", actor |-> t, target |-> t,
                                    role |-> x, invite |-> NoInvite])
          \/ \E k \in {"suspend", "unsuspend", "remove"}, t \in users :
               Arrive(r, "target", [kind |-> k, actor |-> t, target |-> t,
                                    role |-> "Member", invite |-> NoInvite])
          \/ Arrive(r, "isowner", [kind |-> "leave", actor |-> a, target |-> a,
                                   role |-> "Member", invite |-> NoInvite])
    BY <1>2 DEF AcceptOnMember
  <2>2. ASSUME NEW t \in users, NEW x \in AllRoles,
               Arrive(r, "target", [kind |-> "setrole", actor |-> t, target |-> t,
                                    role |-> x, invite |-> NoInvite])
        PROVE  IInv'
    BY <1>0, <2>2, ArriveIInv
  <2>3. ASSUME NEW k \in {"suspend", "unsuspend", "remove"}, NEW t \in users,
               Arrive(r, "target", [kind |-> k, actor |-> t, target |-> t,
                                    role |-> "Member", invite |-> NoInvite])
        PROVE  IInv'
    BY <1>0, <2>3, ArriveIInv
  <2>4. ASSUME Arrive(r, "isowner", [kind |-> "leave", actor |-> a, target |-> a,
                                     role |-> "Member", invite |-> NoInvite])
        PROVE  IInv'
    BY <1>0, <2>4, ArriveIInv
  <2> QED BY <2>1, <2>2, <2>3, <2>4
<1>3. CASE AcceptOnRole(r)
  <2>1. PICK k \in {"createrole", "updaterole", "deleterole"}, x \in Customs :
          Arrive(r, IF k = "createrole" THEN "write" ELSE "load",
                 [kind |-> k, actor |-> Founder, target |-> Founder, role |-> x,
                  invite |-> NoInvite])
    BY <1>3 DEF AcceptOnRole
  <2> QED BY <1>0, <2>1, ArriveIInv
<1>4. CASE AcceptOnInvite(r)
  <2>1. PICK a \in users :
          \/ \E t \in users, x \in AllRoles :
               Arrive(r, "role", [kind |-> "invite", actor |-> a, target |-> t,
                                  role |-> x, invite |-> NoInvite])
          \/ \E i \in Issued :
               Arrive(r, "write", [kind |-> "revoke", actor |-> Founder, target |-> Founder,
                                   role |-> "Member", invite |-> i])
    BY <1>4 DEF AcceptOnInvite
  <2>2. ASSUME NEW t \in users, NEW x \in AllRoles,
               Arrive(r, "role", [kind |-> "invite", actor |-> a, target |-> t,
                                  role |-> x, invite |-> NoInvite])
        PROVE  IInv'
    BY <1>0, <2>2, ArriveIInv
  <2>3. ASSUME NEW i \in Issued,
               Arrive(r, "write", [kind |-> "revoke", actor |-> Founder, target |-> Founder,
                                   role |-> "Member", invite |-> i])
        PROVE  IInv'
    BY <1>0, <2>3, ArriveIInv
  <2> QED BY <2>1, <2>2, <2>3
<1>5. CASE AcceptInvitation(r)
  <2>1. PICK i \in Issued :
          /\ invites[i].user \in users
          /\ Arrive(r, "fallback", [kind |-> "accept", actor |-> invites[i].user,
                      target |-> invites[i].user, role |-> "Member", invite |-> i])
    BY <1>5 DEF AcceptInvitation
  <2> QED BY <1>0, <2>1, ArriveIInv
<1>6. CASE AcceptErase(r)
  <2>1. PICK a \in users :
          Arrive(r, "write", [kind |-> "erase", actor |-> a, target |-> a,
                              role |-> "Member", invite |-> NoInvite])
    BY <1>6 DEF AcceptErase
  <2> QED BY <1>0, <2>1, ArriveIInv
<1> QED BY <1>1, <1>2, <1>3, <1>4, <1>5, <1>6 DEF Accept

\* A check that fails ends the request; one that holds is what the request
\* relies on from then on.
LEMMA ChecksIInv ==
  ASSUME IInv, NEW r \in Requests, Checks(r)
  PROVE  IInv'
<1>1. CASE pc'[r] = "idle"
  <2>1. Goto(r, "idle") /\ UNCHANGED <<org, custom, inbox, raced>>
    BY <1>1 DEF Checks, CheckTarget, CheckRole, CheckNotOwner, CheckAlready,
         CheckActive, CheckFallback, LoadRole, Check, Goto, IInv, TypeOK
  <2> QED BY <2>1, EndIInv
<1>2. CASE pc'[r] # "idle" /\ CheckFallback(r)
  <2>1. pc[r] = "fallback" /\ job[r] \in Job /\ Fits(r)
    BY <1>2 DEF CheckFallback, IInv, JobInv, Fits
  <2>2. /\ UNCHANGED <<org, custom, inbox, raced>>
        /\ pc' = [pc EXCEPT ![r] = pc'[r]] /\ job' = [job EXCEPT ![r] = job'[r]]
        /\ pc'[r] = "write"
        /\ job'[r] \in Job /\ job'[r].role # "Owner"
        /\ job'[r].kind = "accept" /\ job'[r].invite = job[r].invite
        /\ Issued' = Issued
    BY <1>2, <2>1 DEF CheckFallback, IInv, TypeOK, Fits, Job, AllRoles, BuiltIn,
         Existing, Issued, inbox
  <2>3. Fits(r)' /\ Informed(r)'
    BY <2>1, <2>2 DEF Fits, Informed, At
  <2> QED BY <2>2, <2>3, MoveIInv DEF Stages
<1>3. CASE pc'[r] # "idle" /\ ~CheckFallback(r)
  <2>1. pc[r] # "idle" /\ job[r] \in Job /\ Fits(r)
    BY <1>3 DEF Checks, CheckTarget, CheckRole, CheckNotOwner, CheckAlready,
         CheckActive, LoadRole, Check, IInv, JobInv, Fits
  <2>2. /\ UNCHANGED <<org, custom, inbox, raced, job>>
        /\ pc' = [pc EXCEPT ![r] = pc'[r]] /\ job' = [job EXCEPT ![r] = job'[r]]
        /\ Issued' = Issued
        /\ \/ pc[r] = "target" /\ owner # job[r].target /\ pc'[r] =
                  CASE job[r].kind = "setrole" -> "role"
                    [] job[r].kind = "remove"  -> "isowner"
                    [] OTHER -> "write"
           \/ /\ pc[r] = "role" /\ job[r].role # "Owner"
              /\ pc'[r] = IF job[r].kind = "invite" THEN "already" ELSE "write"
           \/ pc[r] = "isowner" /\ owner # job[r].target /\ pc'[r] = "write"
           \/ pc[r] = "already" /\ pc'[r] = "write"
           \/ pc[r] = "active" /\ Active(job[r].target) /\ pc'[r] = "write"
           \/ pc[r] = "load" /\ pc'[r] = "write"
    BY <1>3 DEF Checks, CheckTarget, CheckRole, CheckNotOwner, CheckAlready,
         CheckActive, LoadRole, Check, Goto, IInv, TypeOK, Issued, inbox
  <2>3. pc'[r] \in Stages
    BY <2>2 DEF Stages
  <2>4. Fits(r)'
    BY <2>1, <2>2 DEF Fits, At
  <2>5. raced \/ Informed(r)'
    <3>1. raced \/ Informed(r)
      BY DEF IInv, InformedInv
    <3> QED BY <2>1, <2>2, <3>1 DEF Informed, At, Fits, Active, IsMember, org
  <2> QED BY <2>1, <2>2, <2>3, <2>4, <2>5, MoveIInv
<1> QED BY <1>1, <1>2, <1>3

----------------------------------------------------------------------------

\* The input of a request that is about to write.
LEMMA WriteJob ==
  ASSUME IInv, NEW r \in Requests, pc[r] = "write"
  PROVE  /\ job[r] \in Job /\ Fits(r)
         /\ raced \/ Informed(r)
BY DEF IInv, JobInv, Fits, InformedInv

\* Invitations and custom roles: no check of another request is about them.
LEMMA InviteAndRoleIInv ==
  ASSUME IInv, NEW r \in Requests,
         InsertInvitation(r) \/ WithdrawInvitation(r) \/ WriteCustom(r) \/ DeleteRole(r)
  PROVE  IInv'
<1> USE DEF IInv, org, inbox
<1>0. /\ job[r] \in Job /\ Fits(r) /\ pc[r] = "write"
      /\ Goto(r, "idle") /\ UNCHANGED <<org, lapsed, accepted, raced>>
  BY WriteJob DEF InsertInvitation, WithdrawInvitation, WriteCustom, DeleteRole, At
<1>1. /\ invites' \in [Invites -> InviteRow \union {NoInvite}]
      /\ \A i \in Issued : invites'[i] = invites[i]
      /\ \A i \in Invites : invites'[i] # invites[i] =>
           invites'[i].role \in Existing /\ invites'[i].by \in users /\ UNCHANGED custom
      /\ withdrawn' \subseteq withdrawn \union {i \in Issued : invites'[i] = invites[i]}
      /\ late' \subseteq Issued
  <2>1. CASE InsertInvitation(r)
    <3>1. /\ UNCHANGED <<custom, withdrawn, late>>
          /\ \/ UNCHANGED invites
             \/ /\ job[r].role \in Existing /\ job[r].actor \in users
                /\ \E i \in Invites \ Issued :
                     invites' = [invites EXCEPT ![i] =
                       [user |-> job[r].target, role |-> job[r].role, by |-> job[r].actor]]
      <4>1. Invites \ Issued # {} => (CHOOSE n \in Invites : n \notin Issued) \in Invites \ Issued
        OBVIOUS
      <4> QED BY <2>1, <4>1 DEF InsertInvitation
    <3>2. CASE UNCHANGED invites
      BY <3>1, <3>2 DEF TypeOK
    <3>3. CASE ~UNCHANGED invites
      <4>1. PICK i \in Invites \ Issued :
              invites' = [invites EXCEPT ![i] =
                [user |-> job[r].target, role |-> job[r].role, by |-> job[r].actor]]
        BY <3>1, <3>3
      <4>2. [user |-> job[r].target, role |-> job[r].role, by |-> job[r].actor] \in InviteRow
        BY <1>0, <3>1, <3>3 DEF Job, InviteRow
      <4>3. job[r].role \in Existing /\ job[r].actor \in users
        BY <3>1, <3>3
      <4> QED BY <3>1, <4>1, <4>2, <4>3 DEF TypeOK
    <3> QED BY <3>2, <3>3
  <2>2. CASE WithdrawInvitation(r)
    BY <1>0, <2>2 DEF WithdrawInvitation, Close, TypeOK, Fits, At
  <2>3. CASE WriteCustom(r) \/ DeleteRole(r)
    BY <2>3 DEF WriteCustom, DeleteRole, TypeOK
  <2> QED BY <2>1, <2>2, <2>3
<1>2. /\ custom' \in [Customs -> {"none", "plain", "managing", "deleted"}]
      /\ \A x \in Existing \ Existing' :
           /\ \A u \in Users : role[u] # x
           /\ \A i \in Issued : invites[i].role # x
           /\ UNCHANGED invites
  <2>1. CASE WriteCustom(r)
    BY <1>0, <2>1 DEF WriteCustom, Existing, TypeOK
  <2>2. CASE DeleteRole(r)
    BY <1>0, <2>2 DEF DeleteRole, Existing, TypeOK
  <2>3. CASE InsertInvitation(r) \/ WithdrawInvitation(r)
    BY <2>3 DEF InsertInvitation, WithdrawInvitation, Existing, TypeOK
  <2> QED BY <2>1, <2>2, <2>3
<1>3. Issued \subseteq Issued'
  BY <1>1 DEF Issued
<1>4. JobInv' /\ TypeOK'
  BY <1>0, <1>1, <1>2, <1>3, EndFrame DEF TypeOK
<1>5. ReferencesHold'
  <2>1. ASSUME NEW u \in Users PROVE (IsMember(u) => u \in users /\ role[u] \in Existing)'
    BY <1>0, <1>2 DEF ReferencesHold, IsMember
  <2>2. ASSUME NEW i \in Issued'
        PROVE  (invites[i].role \in Existing /\ invites[i].by \in users \union {NoUser})'
    <3>1. CASE invites'[i] = invites[i]
      BY <1>0, <1>2, <2>2, <3>1 DEF ReferencesHold, Issued
    <3>2. CASE invites'[i] # invites[i]
      BY <1>0, <1>1, <2>2, <3>2 DEF Issued, Existing
    <3> QED BY <3>1, <3>2
  <2>3. (suspended \subseteq {u \in Users : IsMember(u)})'
    BY <1>0 DEF ReferencesHold, IsMember
  <2> QED BY <2>1, <2>2, <2>3 DEF ReferencesHold
<1>6. InformedInv'
  BY <1>0, <1>3, EndFrame DEF InformedInv, Informed, At, Active, IsMember
<1>7. OwnershipIntact'
  BY <1>0 DEF OwnershipIntact, Active, IsMember
<1> QED BY <1>4, <1>5, <1>6, <1>7

\* A write that changes who is a member with which role, and no custom role
\* and no role of an invitation.
LEMMA OrgIInv ==
  ASSUME IInv, NEW r \in Requests, Goto(r, "idle"), UNCHANGED <<custom, withdrawn, lapsed>>,
         users' \subseteq users, owner' \in users',
         role' \in [Users -> AllRoles \union {NoRole}],
         \A u \in Users : role'[u] # role[u] /\ role'[u] # NoRole
                           => u \in users' /\ role'[u] \in Existing,
         \A u \in users \ users' : role'[u] = NoRole,
         suspended' \subseteq {u \in Users : role'[u] # NoRole},
         Issued' = Issued,
         invites' \in [Invites -> InviteRow \union {NoInvite}],
         \A i \in Issued : /\ invites'[i].role = invites[i].role
                            /\ invites'[i].by \in users' \union {NoUser},
         accepted' \subseteq Issued, late' \subseteq Issued,
         raced' \in BOOLEAN
  PROVE  TypeOK' /\ JobInv' /\ ReferencesHold'
<1>1. JobInv' /\ TypeOK'
  BY EndFrame DEF IInv, TypeOK
<1>2. Existing' = Existing
  BY DEF Existing
<1>3. ReferencesHold'
  BY <1>2 DEF IInv, ReferencesHold, IsMember, TypeOK
<1> QED BY <1>1, <1>3

LEMMA TransferIInv ==
  ASSUME IInv, NEW r \in Requests, Transfer(r)
  PROVE  IInv'
<1> DEFINE a == job[r].actor
           b == job[r].target
<1>0. /\ job[r] \in Job /\ Goto(r, "idle") /\ job[r].kind = "transfer" /\ pc[r] = "write"
      /\ UNCHANGED <<users, suspended, custom, inbox>>
      /\ raced \/ Informed(r)
      /\ Issued' = Issued
  BY WriteJob DEF Transfer, At, Issued, inbox
<1>1. CASE UNCHANGED <<role, owner, raced>>
  BY <1>0, <1>1, EndIInv DEF org
<1>2. CASE ~UNCHANGED <<role, owner, raced>>
  <2>1. /\ b \in users
        /\ role' = [u \in Users |->
             CASE u = b /\ IsMember(u) -> "Owner"
               [] u = a /\ IsMember(u) -> "Administrator"
               [] OTHER -> role[u]]
        /\ owner' = b
        /\ raced' = (raced \/ \E q \in Requests : OvertakenByTransfer(q, r))
    BY <1>2 DEF Transfer
  <2>2. /\ role' \in [Users -> AllRoles \union {NoRole}]
        /\ \A u \in Users : /\ role'[u] = NoRole <=> role[u] = NoRole
                            /\ role'[u] # role[u] => role'[u] \in Existing
    BY <2>1, RoleAssumption
    DEF RoleAssumption, IInv, TypeOK, AllRoles, BuiltIn, Existing, IsMember
  <2>3. TypeOK' /\ JobInv' /\ ReferencesHold'
    <3>1. suspended' \subseteq {u \in Users : role'[u] # NoRole}
      BY <1>0, <2>2 DEF IInv, ReferencesHold, IsMember
    <3>2. raced' \in BOOLEAN
      BY <2>1 DEF IInv, TypeOK
    <3>3. \A u \in Users : role'[u] # role[u] /\ role'[u] # NoRole
                            => u \in users' /\ role'[u] \in Existing
      BY <1>0, <2>2 DEF IInv, ReferencesHold, IsMember
    <3> QED BY <1>0, <2>1, <2>2, <3>1, <3>2, <3>3, OrgIInv
            DEF inbox, IInv, TypeOK, ReferencesHold
  <2>4. ASSUME ~raced'
        PROVE  /\ \A q \in Requests : Informed(q)'
               /\ OwnershipIntact'
    <3>1. /\ ~raced /\ a = owner /\ b # owner /\ Active(b)
          /\ \A q \in Requests : ~OvertakenByTransfer(q, r)
      BY <1>0, <2>1, <2>4 DEF Informed, At
    <3>2. Active(owner) /\ \A u \in Users : role[u] = "Owner" <=> u = owner
      BY <3>1 DEF IInv, OwnershipIntact
    <3>3. \A u \in Users : role'[u] = "Owner" <=> u = b
      BY <2>1, <3>1, <3>2 DEF Active, IInv, TypeOK
    <3>4. \A u \in Users : Active(u)' <=> Active(u)
      BY <1>0, <2>2 DEF Active, IsMember
    <3>5. OwnershipIntact'
      BY <2>1, <3>1, <3>3, <3>4 DEF OwnershipIntact, IInv, TypeOK
    <3>6. ASSUME NEW q \in Requests PROVE Informed(q)'
      <4>1. CASE q = r
        BY <1>0, <4>1, EndFrame DEF Informed, At, IInv
      <4>2. CASE q # r
        <5>1. Informed(q) /\ pc'[q] = pc[q] /\ job'[q] = job[q] /\ Fits(q)
          BY <1>0, <3>1, <4>2, EndFrame DEF IInv, InformedInv, JobInv
        <5>2. ~(At(q, "active", {"transfer"}) \/ At(q, "write", {"transfer"}))
          BY <3>1, <4>2, <5>1 DEF OvertakenByTransfer, Informed
        <5> QED BY <2>1, <3>1, <4>2, <5>1, <5>2 DEF OvertakenByTransfer, Informed, At
      <4> QED BY <4>1, <4>2
    <3> QED BY <3>5, <3>6
  <2> QED BY <2>1, <2>3, <2>4 DEF IInv, InformedInv, OwnershipIntact
<1> QED BY <1>1, <1>2

\* The membership of one user changes, not the owner's: whoever is informed
\* stays so unless a transfer to that user waits to write.
LEMMA MemberIInv ==
  ASSUME IInv, NEW r \in Requests, NEW t \in Users,
         Goto(r, "idle"), UNCHANGED <<owner, raced>>, ~raced, t # owner,
         users' \subseteq users,
         \A u \in Users \ {t} : /\ u \in users => u \in users'
                                /\ Active(u)' <=> Active(u)
                                /\ role'[u] = role[u],
         role'[t] # "Owner",
         \/ Active(t)'
         \/ t \notin users'
         \/ ~Active(t) /\ t \in users
         \/ t = job[r].target /\ \A q \in Requests : ~OvertakenByRemoval(q, r)
  PROVE  InformedInv' /\ OwnershipIntact'
<1>1. owner \in Users
  BY DEF IInv, TypeOK
<1>2. OwnershipIntact'
  BY <1>1 DEF IInv, OwnershipIntact
<1>3. ASSUME NEW q \in Requests PROVE Informed(q)'
  <2>1. CASE q = r
    BY <2>1, EndFrame DEF Informed, At, IInv, Goto, TypeOK
  <2>2. CASE q # r
    <3>1. Informed(q) /\ pc'[q] = pc[q] /\ job'[q] = job[q] /\ Fits(q)
      BY <2>2 DEF IInv, InformedInv, JobInv, Goto, TypeOK
    <3>2. ASSUME At(q, "write", {"transfer"})
          PROVE  (Active(job[q].target) \/ job[q].target \notin users)'
      <4>1. Active(job[q].target) \/ job[q].target \notin users
        BY <3>1, <3>2 DEF Informed
      <4>2. job[q].target \in Users
        BY <3>1, <3>2 DEF Fits, At, Job
      <4>3. CASE job[q].target # t
        BY <3>1, <4>1, <4>2, <4>3 DEF Active, IsMember
      <4>4. CASE job[q].target = t
        BY <2>2, <3>1, <3>2, <4>1, <4>4 DEF OvertakenByRemoval
      <4> QED BY <4>3, <4>4
    <3> QED BY <3>1, <3>2 DEF Informed, At
  <2> QED BY <2>1, <2>2
<1> QED BY <1>2, <1>3 DEF InformedInv

LEMMA WriteRoleIInv ==
  ASSUME IInv, NEW r \in Requests, WriteRole(r)
  PROVE  IInv'
<1> DEFINE t == job[r].target
<1>0. /\ job[r] \in Job /\ Fits(r)
      /\ raced \/ Informed(r)
      /\ At(r, "write", {"setrole"}) /\ Goto(r, "idle")
      /\ UNCHANGED <<users, owner, suspended, custom, inbox, raced>>
      /\ Issued' = Issued
  BY WriteJob DEF WriteRole, At, Issued, inbox
<1>1. CASE UNCHANGED role
  BY <1>0, <1>1, EndIInv DEF org
<1>2. CASE ~UNCHANGED role
  <2>1. /\ Active(t) /\ job[r].role \in Existing /\ job[r].role # "Owner"
        /\ role' = [role EXCEPT ![t] = job[r].role]
        /\ t \in Users /\ job[r].role \in AllRoles /\ job[r].role # NoRole
    BY <1>0, <1>2, RoleAssumption
    DEF WriteRole, Fits, At, Job, RoleAssumption, AllRoles, BuiltIn
  <2>2. TypeOK' /\ JobInv' /\ ReferencesHold'
    <3>1. /\ role' \in [Users -> AllRoles \union {NoRole}]
          /\ \A u \in Users : role'[u] = NoRole <=> role[u] = NoRole
          /\ \A u \in Users \ {t} : role'[u] = role[u]
          /\ role'[t] \in Existing /\ t \in users
      BY <2>1 DEF IInv, TypeOK, Active, IsMember, ReferencesHold
    <3>2. suspended' \subseteq {u \in Users : role'[u] # NoRole}
      BY <1>0, <3>1 DEF IInv, ReferencesHold, IsMember
    <3>3. \A u \in users \ users' : role'[u] = NoRole
      BY <1>0
    <3> QED BY <1>0, <3>1, <3>2, <3>3, OrgIInv DEF inbox, IInv, TypeOK, ReferencesHold
  <2>3. CASE raced
    BY <1>0, <2>2, <2>3 DEF IInv, InformedInv, OwnershipIntact
  <2>4. CASE ~raced
    <3>1. t # owner
      BY <1>0, <2>4 DEF Informed, At
    <3>2. role'[t] = job[r].role /\ \A u \in Users \ {t} : role'[u] = role[u]
      BY <2>1 DEF IInv, TypeOK
    <3>3. PICK v \in Users : v = t
      BY <2>1
    <3>4. Active(v)' /\ \A u \in Users \ {v} : Active(u)' <=> Active(u)
      BY <1>0, <2>1, <3>2, <3>3 DEF Active, IsMember
    <3>5. InformedInv' /\ OwnershipIntact'
      BY <1>0, <2>1, <2>4, <3>1, <3>2, <3>3, <3>4, MemberIInv
    <3> QED BY <2>2, <3>5 DEF IInv
  <2> QED BY <2>2, <2>3, <2>4 DEF IInv
<1> QED BY <1>1, <1>2

LEMMA WriteStatusIInv ==
  ASSUME IInv, NEW r \in Requests, WriteStatus(r)
  PROVE  IInv'
<1> DEFINE t == job[r].target
<1>0. /\ job[r] \in Job /\ t \in Users
      /\ raced \/ Informed(r)
      /\ At(r, "write", {"suspend", "unsuspend"}) /\ Goto(r, "idle")
      /\ UNCHANGED <<users, owner, role, custom, inbox>>
      /\ Issued' = Issued
  BY WriteJob DEF WriteStatus, At, Issued, inbox, Job
<1>1. \/ /\ job[r].kind = "suspend" /\ Active(t) /\ suspended' = suspended \union {t}
         /\ raced' = (raced \/ \E q \in Requests : OvertakenByRemoval(q, r))
      \/ suspended' \subseteq suspended /\ suspended \ {t} \subseteq suspended' /\ UNCHANGED raced
  BY DEF WriteStatus
<1>2. TypeOK' /\ JobInv' /\ ReferencesHold'
  <2>1. suspended' \subseteq {u \in Users : role'[u] # NoRole}
    BY <1>0, <1>1 DEF IInv, ReferencesHold, IsMember, Active
  <2>2. raced' \in BOOLEAN
    BY <1>1 DEF IInv, TypeOK
  <2> QED BY <1>0, <2>1, <2>2, OrgIInv DEF inbox, IInv, TypeOK, ReferencesHold
<1>3. CASE raced'
  BY <1>2, <1>3 DEF IInv, InformedInv, OwnershipIntact
<1>4. CASE ~raced'
  <2>0. ~raced /\ UNCHANGED raced
    BY <1>1, <1>4 DEF IInv, TypeOK
  <2>1. CASE job[r].kind = "suspend" /\ Active(t) /\ suspended' = suspended \union {t}
    <3>1. t # owner
      BY <1>0, <2>0, <2>1 DEF Informed, At
    <3>2. role[t] # "Owner"
      BY <1>0, <2>0, <3>1 DEF IInv, OwnershipIntact
    <3>3. \A u \in Users \ {t} : Active(u)' <=> Active(u)
      BY <1>0, <2>1 DEF Active, IsMember
    <3>4. \A q \in Requests : ~OvertakenByRemoval(q, r)
      <4>1. CASE raced' = (raced \/ \E q \in Requests : OvertakenByRemoval(q, r))
        BY <1>4, <4>1
      <4>2. CASE suspended' \subseteq suspended
        BY <2>1, <4>2 DEF Active
      <4> QED BY <1>1, <4>1, <4>2
    <3>5. InformedInv' /\ OwnershipIntact'
      BY <1>0, <2>0, <3>1, <3>2, <3>3, <3>4, MemberIInv
    <3> QED BY <1>2, <3>5 DEF IInv
  <2>2. CASE suspended' \subseteq suspended /\ suspended \ {t} \subseteq suspended'
    <3>1. \A u \in Users : Active(u) => Active(u)'
      BY <1>0, <2>2 DEF Active, IsMember
    <3>2. OwnershipIntact'
      BY <1>0, <2>0, <3>1 DEF IInv, OwnershipIntact, TypeOK
    <3>3. ASSUME NEW q \in Requests PROVE Informed(q)'
      <4>1. CASE q = r
        BY <1>0, <4>1, EndFrame DEF IInv, Informed, At
      <4>2. CASE q # r
        <5>1. /\ Informed(q) /\ pc'[q] = pc[q] /\ job'[q] = job[q]
              /\ pc[q] # "idle" => job[q].target \in Users
          BY <1>0, <2>0, <4>2, EndFrame DEF IInv, InformedInv, JobInv, Fits, Job
        <5> QED BY <1>0, <3>1, <5>1 DEF Informed, At
      <4> QED BY <4>1, <4>2
    <3> QED BY <1>2, <3>2, <3>3 DEF IInv, InformedInv
  <2> QED BY <1>1, <2>1, <2>2
<1> QED BY <1>3, <1>4

LEMMA DeleteMemberIInv ==
  ASSUME IInv, NEW r \in Requests, DeleteMember(r)
  PROVE  IInv'
<1> DEFINE t == job[r].target
<1>0. /\ job[r] \in Job /\ t \in Users
      /\ raced \/ Informed(r)
      /\ At(r, "write", {"remove", "leave"}) /\ Goto(r, "idle")
      /\ UNCHANGED <<users, owner, custom, inbox>>
      /\ role' = [role EXCEPT ![t] = NoRole] /\ suspended' = suspended \ {t}
      /\ raced' = (raced \/ \E q \in Requests : OvertakenByRemoval(q, r))
      /\ Issued' = Issued
  BY WriteJob DEF DeleteMember, At, Issued, inbox, Job
<1>1. /\ role' \in [Users -> AllRoles \union {NoRole}]
      /\ role'[t] = NoRole /\ \A u \in Users \ {t} : role'[u] = role[u]
  BY <1>0 DEF IInv, TypeOK
<1>2. TypeOK' /\ JobInv' /\ ReferencesHold'
  <2>1. suspended' \subseteq {u \in Users : role'[u] # NoRole}
    BY <1>0, <1>1 DEF IInv, ReferencesHold, IsMember
  <2>2. raced' \in BOOLEAN
    BY <1>0 DEF IInv, TypeOK
  <2>3. \A u \in Users : role'[u] # role[u] /\ role'[u] # NoRole
                          => u \in users' /\ role'[u] \in Existing
    BY <1>1
  <2> QED BY <1>0, <1>1, <2>1, <2>2, <2>3, OrgIInv DEF inbox, IInv, TypeOK, ReferencesHold
<1>3. CASE raced'
  BY <1>2, <1>3 DEF IInv, InformedInv, OwnershipIntact
<1>4. CASE ~raced'
  <2>1. ~raced /\ UNCHANGED raced /\ \A q \in Requests : ~OvertakenByRemoval(q, r)
    BY <1>0, <1>4 DEF IInv, TypeOK
  <2>2. t # owner
    BY <1>0, <2>1 DEF Informed, At
  <2>3. \A u \in Users \ {t} : Active(u)' <=> Active(u)
    BY <1>0, <1>1 DEF Active, IsMember
  <2>4. role'[t] # "Owner"
    BY <1>1, RoleAssumption DEF RoleAssumption
  <2>5. InformedInv' /\ OwnershipIntact'
    BY <1>0, <1>1, <2>1, <2>2, <2>3, <2>4, MemberIInv
  <2> QED BY <1>2, <2>5 DEF IInv
<1> QED BY <1>3, <1>4

LEMMA EraseUserIInv ==
  ASSUME IInv, NEW r \in Requests, EraseUser(r)
  PROVE  IInv'
<1> DEFINE a == job[r].actor
<1>0. /\ job[r] \in Job /\ a \in Users
      /\ At(r, "write", {"erase"}) /\ Goto(r, "idle")
      /\ UNCHANGED <<owner, custom, accepted, withdrawn, lapsed, late, raced>>
  BY WriteJob DEF EraseUser, At, Job
<1>1. CASE UNCHANGED <<users, role, suspended, invites>>
  BY <1>0, <1>1, EndIInv DEF org, inbox
<1>2. CASE ~UNCHANGED <<users, role, suspended, invites>>
  <2>1. /\ owner # a
        /\ users' = users \ {a}
        /\ role' = [role EXCEPT ![a] = NoRole]
        /\ suspended' = suspended \ {a}
        /\ invites' = [i \in Invites |->
             IF i \in Issued /\ invites[i].by = a
               THEN [invites[i] EXCEPT !.by = NoUser] ELSE invites[i]]
    BY <1>2 DEF EraseUser
  <2>2. /\ role' \in [Users -> AllRoles \union {NoRole}]
        /\ role'[a] = NoRole /\ \A u \in Users \ {a} : role'[u] = role[u]
    BY <1>0, <2>1 DEF IInv, TypeOK
  <2>3. /\ invites' \in [Invites -> InviteRow \union {NoInvite}]
        /\ \A i \in Issued : invites'[i].role = invites[i].role
        /\ \A i \in Issued : invites'[i].by \in users' \union {NoUser}
        /\ Issued' = Issued
    <3>1. ASSUME NEW i \in Issued
          PROVE  /\ invites'[i] \in InviteRow /\ invites'[i].role = invites[i].role
                 /\ invites'[i].by \in users' \union {NoUser}
      <4>1. invites[i] \in InviteRow /\ invites[i].by \in users \union {NoUser}
        BY DEF IInv, TypeOK, ReferencesHold, Issued
      <4>2. CASE invites[i].by = a
        <5>1. invites'[i] = [invites[i] EXCEPT !.by = NoUser]
          BY <2>1, <4>2 DEF Issued
        <5> QED BY <4>1, <5>1 DEF InviteRow
      <4>3. CASE invites[i].by # a
        BY <2>1, <4>1, <4>3 DEF Issued
      <4> QED BY <4>2, <4>3
    <3>2. \A i \in Invites \ Issued : invites'[i] = NoInvite
      BY <2>1 DEF Issued
    <3>3. Issued' = Issued
      BY <3>1, <3>2, InviteAssumption DEF InviteAssumption, Issued
    <3> QED BY <2>1, <3>1, <3>2, <3>3
  <2>4. TypeOK' /\ JobInv' /\ ReferencesHold'
    <3>1. suspended' \subseteq {u \in Users : role'[u] # NoRole}
      BY <2>1, <2>2 DEF IInv, ReferencesHold, IsMember
    <3>2. owner' \in users' /\ \A u \in users \ users' : role'[u] = NoRole
      BY <1>0, <2>1, <2>2 DEF IInv, TypeOK
    <3>3. \A u \in Users : role'[u] # role[u] /\ role'[u] # NoRole
                            => u \in users' /\ role'[u] \in Existing
      BY <2>2
    <3>4. raced' \in BOOLEAN /\ users' \subseteq users
            /\ accepted' \subseteq Issued /\ late' \subseteq Issued
      BY <1>0, <2>1 DEF IInv, TypeOK
    <3> QED BY <1>0, <2>2, <2>3, <3>1, <3>2, <3>3, <3>4, OrgIInv
  <2>5. CASE raced
    BY <1>0, <2>4, <2>5 DEF IInv, InformedInv, OwnershipIntact
  <2>6. CASE ~raced
    <3>1. \A u \in Users \ {a} : Active(u)' <=> Active(u)
      BY <2>1, <2>2 DEF Active, IsMember
    <3>2. role'[a] # "Owner"
      BY <2>2, RoleAssumption DEF RoleAssumption
    <3>3. InformedInv' /\ OwnershipIntact'
      BY <1>0, <2>1, <2>2, <2>6, <3>1, <3>2, MemberIInv
    <3> QED BY <2>4, <3>3 DEF IInv
  <2> QED BY <2>5, <2>6
<1> QED BY <1>1, <1>2

LEMMA JoinOrganizationIInv ==
  ASSUME IInv, NEW r \in Requests, JoinOrganization(r)
  PROVE  IInv'
<1> DEFINE u == job[r].actor
<1>0. /\ job[r] \in Job /\ Fits(r) /\ u \in Users
      /\ At(r, "write", {"accept"}) /\ Goto(r, "idle")
      /\ UNCHANGED <<users, owner, suspended, custom, invites, withdrawn, lapsed, raced>>
      /\ Issued' = Issued
  BY WriteJob DEF JoinOrganization, At, Job, Issued
<1>1. CASE UNCHANGED <<role, accepted, late>>
  BY <1>0, <1>1, EndIInv DEF org, inbox
<1>2. CASE ~UNCHANGED <<role, accepted, late>>
  <2>1. /\ u \in users /\ ~IsMember(u) /\ job[r].role \in Existing
        /\ role' = [role EXCEPT ![u] = job[r].role]
        /\ accepted' = accepted \union {job[r].invite}
        /\ late' \subseteq late \union {job[r].invite}
    BY <1>2 DEF JoinOrganization, Close
  <2>2. /\ job[r].role \in AllRoles /\ job[r].role # NoRole /\ job[r].role # "Owner"
        /\ job[r].invite \in Issued
    BY <1>0, RoleAssumption DEF RoleAssumption, Fits, At, Job, AllRoles, BuiltIn
  <2>3. /\ role' \in [Users -> AllRoles \union {NoRole}]
        /\ role'[u] = job[r].role /\ \A v \in Users \ {u} : role'[v] = role[v]
    BY <1>0, <2>1, <2>2 DEF IInv, TypeOK
  <2>4. TypeOK' /\ JobInv' /\ ReferencesHold'
    <3>1. suspended' \subseteq {v \in Users : role'[v] # NoRole}
      BY <1>0, <2>2, <2>3 DEF IInv, ReferencesHold, IsMember
    <3>2. \A v \in Users : role'[v] # role[v] /\ role'[v] # NoRole
                            => v \in users' /\ role'[v] \in Existing
      BY <1>0, <2>1, <2>3
    <3>3. accepted' \subseteq Issued /\ late' \subseteq Issued
      BY <2>1, <2>2 DEF IInv, TypeOK
    <3> QED BY <1>0, <2>3, <3>1, <3>2, <3>3, OrgIInv DEF IInv, TypeOK, ReferencesHold
  <2>5. CASE raced
    BY <1>0, <2>4, <2>5 DEF IInv, InformedInv, OwnershipIntact
  <2>6. CASE ~raced
    <3>1. u # owner /\ ~Active(u)
      BY <2>1, <2>6 DEF IInv, OwnershipIntact, Active
    <3>2. \A v \in Users \ {u} : Active(v)' <=> Active(v)
      BY <1>0, <2>3 DEF Active, IsMember
    <3>3. InformedInv' /\ OwnershipIntact'
      BY <1>0, <2>1, <2>2, <2>3, <2>6, <3>1, <3>2, MemberIInv
    <3> QED BY <2>4, <3>3 DEF IInv
  <2> QED BY <2>5, <2>6
<1> QED BY <1>1, <1>2

----------------------------------------------------------------------------

LEMMA NextIInv ==
  ASSUME IInv, [Next]_vars
  PROVE  IInv'
<1>1. ASSUME NEW r \in Requests, Accept(r) \/ Checks(r) \/ Writes(r) \/ Fail(r) PROVE IInv'
  <2>1. CASE Writes(r)
    BY <2>1, TransferIInv, WriteRoleIInv, WriteStatusIInv, DeleteMemberIInv,
       EraseUserIInv, JoinOrganizationIInv, InviteAndRoleIInv DEF Writes
  <2> QED BY <1>1, <2>1, AcceptIInv, ChecksIInv, EndIInv DEF Fail
<1>2. ASSUME UNCHANGED <<org, custom, invites, accepted, withdrawn, session, raced>>,
             lapsed' \subseteq Issued, late' \subseteq Issued
      PROVE  IInv'
  <2> USE <1>2 DEF IInv, org, session
  <2>1. Issued' = Issued
    BY DEF Issued
  <2>2. TypeOK' /\ JobInv'
    BY <2>1 DEF TypeOK, JobInv, Fits, At
  <2>3. ReferencesHold' /\ OwnershipIntact'
    BY <2>1 DEF ReferencesHold, OwnershipIntact, IsMember, Active, Existing
  <2>4. InformedInv'
    BY DEF InformedInv, Informed, At, Active, IsMember
  <2> QED BY <2>2, <2>3, <2>4
<1>3. ASSUME NEW i \in Invites, Lapse(i) PROVE IInv'
  BY <1>2, <1>3 DEF Lapse, Close, IInv, TypeOK
<1>4. CASE UNCHANGED vars
  BY <1>2, <1>4 DEF vars, inbox, session, IInv, TypeOK
<1> QED BY <1>1, <1>3, <1>4 DEF Next

LEMMA Inductive == Spec => []IInv
<1>1. Init => IInv
  BY InitIInv
<1>2. IInv /\ [Next]_vars => IInv'
  BY NextIInv
<1> QED BY <1>1, <1>2, PTL DEF Spec

----------------------------------------------------------------------------

\* Each state the requests reach is well typed, and the owner is a user.
THEOREM TenancyTypeCorrect == Spec => []TypeOK
BY Inductive, PTL DEF IInv

\* Memberships and invitations refer to users and roles that exist.
THEOREM NoDanglingRows == Spec => []ReferencesHold
BY Inductive, PTL DEF IInv

\* The owner is an active member, the only one with the Owner role, unless a
\* change of owner or membership overtook the check of another request.
THEOREM OwnershipIsKept == Spec => []OwnershipIntact
BY Inductive, PTL DEF IInv

\* Who changes the role of a member.
LEMMA RoleWriters ==
  ASSUME Next, ~UNCHANGED role
  PROVE  \E r \in Requests :
           \/ Transfer(r) \/ WriteRole(r) \/ DeleteMember(r) \/ EraseUser(r)
           \/ JoinOrganization(r)
<1>1. PICK r \in Requests : Accept(r) \/ Checks(r) \/ Writes(r) \/ Fail(r)
  BY DEF Next, Lapse, org
<1>2. ~Accept(r)
  BY DEF Accept, AcceptTransfer, AcceptOnMember, AcceptOnRole,
         AcceptOnInvite, AcceptInvitation, AcceptErase, Arrive, org
<1>3. ~Checks(r) /\ ~Fail(r)
  BY DEF Checks, CheckTarget, CheckRole, CheckNotOwner, CheckAlready,
         CheckActive, CheckFallback, LoadRole, Check, Fail, org
<1> QED
  BY <1>1, <1>2, <1>3 DEF Writes, WriteStatus, InsertInvitation,
       WithdrawInvitation, WriteCustom, DeleteRole, org

\* Nobody gets the Owner role except by becoming the owner.
THEOREM OwnerRoleIsNotAssigned == Spec => OwnerRoleByTransfer
<1> DEFINE ByTransfer ==
      \A u \in Users : role[u] # "Owner" /\ role'[u] = "Owner" => owner' = u
<1>1. IInv /\ [Next]_vars => [ByTransfer]_vars
  <2> SUFFICES ASSUME IInv, Next, NEW u \in Users, role[u] # "Owner", role'[u] = "Owner"
               PROVE  owner' = u
    OBVIOUS
  <2>1. PICK r \in Requests :
          \/ Transfer(r) \/ WriteRole(r) \/ DeleteMember(r) \/ EraseUser(r) \/ JoinOrganization(r)
    BY RoleWriters
  <2>2. /\ role \in [Users -> AllRoles \union {NoRole}] /\ NoRole # "Owner"
        /\ At(r, "write", {"setrole", "accept"}) => job[r].role # "Owner"
    BY RoleAssumption DEF RoleAssumption, IInv, TypeOK, JobInv, Fits, At
  <2>3. CASE Transfer(r)
    BY <2>2, <2>3 DEF Transfer
  <2>4. CASE WriteRole(r) \/ JoinOrganization(r)
    BY <2>2, <2>4 DEF WriteRole, JoinOrganization, At
  <2>5. CASE DeleteMember(r) \/ EraseUser(r)
    BY <2>2, <2>5 DEF DeleteMember, EraseUser
  <2> QED BY <2>1, <2>3, <2>4, <2>5
<1> QED BY <1>1, Inductive, PTL DEF Spec, OwnerRoleByTransfer

----------------------------------------------------------------------------
(* Invitations                                                             *)

\* What a request that is accepting an invitation has found.
Invited(r) ==
  Accepting(r) =>
    LET i == job[r].invite IN
    /\ i \in Issued /\ invites[i].user = job[r].actor
    /\ pc[r] = "write" => job[r].role \in {invites[i].role, "Member"}
    /\ i \in Closed => i \in late
InvitedInv == \A r \in Requests : Invited(r)

\* Invitations keep their addressee and their role, and one that closes is
\* late for those who are accepting it.
Closing(S) ==
  /\ \A i \in Issued : /\ i \in Issued'
                       /\ invites'[i].user = invites[i].user
                       /\ invites'[i].role = invites[i].role
  /\ \A i \in Closed' \ Closed : \A q \in S :
       Accepting(q) /\ job[q].invite = i => i \in late'
  /\ late \subseteq late'

LEMMA InvitedFrame ==
  ASSUME IInv, InvitedInv, NEW S \in SUBSET Requests, Closing(S),
         \A q \in S : pc'[q] = pc[q] /\ job'[q] = job[q],
         \A q \in Requests \ S : Invited(q)'
  PROVE  InvitedInv'
<1> SUFFICES ASSUME NEW q \in S PROVE Invited(q)'
  BY DEF InvitedInv
<1>1. Invited(q) /\ pc'[q] = pc[q] /\ job'[q] = job[q]
  BY DEF InvitedInv
<1>2. Accepting(q)' <=> Accepting(q)
  BY <1>1 DEF Accepting, At
<1> QED BY <1>1, <1>2 DEF Closing, Invited

\* A request that is not accepting an invitation relies on none.
LEMMA InvitedStep ==
  ASSUME IInv, InvitedInv, NEW r \in Requests, Accept(r) \/ Checks(r) \/ Writes(r) \/ Fail(r)
  PROVE  InvitedInv'
<1>0. TypeOK
  BY DEF IInv
<1>1. ASSUME UNCHANGED inbox PROVE Closing(Requests \ {r})
  BY <1>1 DEF inbox, Closing, Issued, Closed
<1>2. CASE AcceptInvitation(r)
  <2>1. PICK i \in Issued \ Closed :
          Arrive(r, "fallback", [kind |-> "accept", actor |-> invites[i].user,
                   target |-> invites[i].user, role |-> "Member", invite |-> i])
    BY <1>2 DEF AcceptInvitation
  <2>2. /\ pc'[r] = "fallback" /\ job'[r].invite = i /\ job'[r].actor = invites[i].user
        /\ UNCHANGED inbox
        /\ \A q \in Requests \ {r} : pc'[q] = pc[q] /\ job'[q] = job[q]
    BY <1>0, <2>1 DEF Arrive, TypeOK
  <2>3. Invited(r)'
    BY <2>2 DEF Invited, Issued, Closed, inbox
  <2> QED BY <1>1, <2>2, <2>3, InvitedFrame
<1>3. CASE Accept(r) /\ ~AcceptInvitation(r)
  <2>1. UNCHANGED inbox /\ (\A q \in Requests \ {r} : pc'[q] = pc[q] /\ job'[q] = job[q])
    BY <1>0, <1>3 DEF Accept, AcceptTransfer, AcceptOnMember, AcceptOnRole, AcceptOnInvite,
                      AcceptErase, Arrive, TypeOK
  <2>2. ~Accepting(r)'
    BY <1>0, <1>3 DEF Accept, AcceptTransfer, AcceptOnMember, AcceptOnRole, AcceptOnInvite,
                      AcceptErase, Arrive, TypeOK, Accepting, At
  <2> QED BY <1>1, <2>1, <2>2, InvitedFrame DEF Invited
<1>4. CASE CheckFallback(r)
  <2>1. /\ UNCHANGED inbox /\ pc[r] = "fallback" /\ job[r] \in Job /\ Accepting(r)
        /\ \A q \in Requests \ {r} : pc'[q] = pc[q] /\ job'[q] = job[q]
    BY <1>0, <1>4 DEF CheckFallback, TypeOK, Accepting, At, IInv, JobInv, Fits
  <2>2. job'[r].invite = job[r].invite /\ job'[r].actor = job[r].actor
    BY <1>0, <1>4, <2>1 DEF CheckFallback, TypeOK, Job
  <2>3. job'[r].role \in {invites[job[r].invite].role, "Member"}
    BY <1>0, <1>4, <2>1 DEF CheckFallback, TypeOK, Job
  <2>4. Invited(r)'
    BY <2>1, <2>2, <2>3 DEF InvitedInv, Invited, Issued, Closed, inbox
  <2> QED BY <1>1, <2>1, <2>4, InvitedFrame
<1>5. CASE (Checks(r) /\ ~CheckFallback(r)) \/ Fail(r)
  <2>1. /\ UNCHANGED inbox /\ pc[r] # "idle"
        /\ \E to : Goto(r, to)
        /\ pc[r] = "fallback" => pc'[r] = "idle"
    BY <1>0, <1>5 DEF Checks, CheckTarget, CheckRole, CheckNotOwner, CheckAlready,
         CheckActive, LoadRole, Check, Fail, Goto, TypeOK
  <2>2. \A q \in Requests \ {r} : pc'[q] = pc[q] /\ job'[q] = job[q]
    BY <1>0, <2>1 DEF Goto, TypeOK
  <2>3. ~Accepting(r)'
    <3>1. CASE pc'[r] = "idle"
      BY <3>1 DEF Accepting, At
    <3>2. CASE pc'[r] # "idle"
      <4>1. pc[r] \in {"target", "role", "isowner", "already", "active", "load"}
        BY <1>0, <1>5, <3>2 DEF Checks, CheckTarget, CheckRole, CheckNotOwner, CheckAlready,
             CheckActive, LoadRole, Check, Fail, Goto, TypeOK
      <4>2. job'[r] = job[r] /\ job[r].kind # "accept"
        BY <1>0, <2>1, <3>2, <4>1 DEF Goto, TypeOK, IInv, JobInv, Fits
      <4> QED BY <4>2 DEF Accepting, At
    <3> QED BY <3>1, <3>2
  <2> QED BY <1>1, <2>1, <2>2, <2>3, InvitedFrame DEF Invited
<1>6. CASE Writes(r)
  <2>1. Goto(r, "idle")
    BY <1>6 DEF Writes, Transfer, WriteRole, WriteStatus, DeleteMember, EraseUser,
         InsertInvitation, WithdrawInvitation, JoinOrganization, WriteCustom, DeleteRole
  <2>2. /\ \A q \in Requests \ {r} : pc'[q] = pc[q] /\ job'[q] = job[q]
        /\ Invited(r)'
    BY <1>0, <2>1 DEF Goto, TypeOK, Invited, Accepting, At
  <2>3. Closing(Requests \ {r})
    <3>1. CASE UNCHANGED inbox
      BY <1>1, <3>1
    <3>2. CASE InsertInvitation(r)
      <4>1. /\ UNCHANGED <<accepted, withdrawn, lapsed, late>>
            /\ \A i \in Issued : invites'[i] = invites[i]
        <5>1. Invites \ Issued # {} => (CHOOSE n \in Invites : n \notin Issued) \in Invites \ Issued
          OBVIOUS
        <5>2. /\ UNCHANGED <<accepted, withdrawn, lapsed, late>>
              /\ \/ UNCHANGED invites
                 \/ \E i \in Invites \ Issued : \E row : invites' = [invites EXCEPT ![i] = row]
          BY <3>2, <5>1 DEF InsertInvitation
        <5> QED BY <1>0, <5>2 DEF Issued, TypeOK
      <4> QED BY <4>1 DEF Closing, Issued, Closed
    <3>3. CASE EraseUser(r)
      <4>1. ASSUME NEW i \in Issued
            PROVE  /\ invites'[i].user = invites[i].user /\ invites'[i].role = invites[i].role
                   /\ invites'[i] # NoInvite
        <5>1. invites[i] \in InviteRow
          BY <1>0 DEF TypeOK, Issued
        <5>2. CASE invites'[i] = invites[i]
          BY <5>2 DEF Issued
        <5>3. CASE invites'[i] # invites[i]
          <6>1. invites'[i] = [invites[i] EXCEPT !.by = NoUser]
            BY <3>3, <5>3 DEF EraseUser, Issued
          <6>2. invites'[i] \in InviteRow
            BY <5>1, <6>1 DEF InviteRow
          <6> QED BY <5>1, <6>1, <6>2, InviteAssumption DEF InviteRow, InviteAssumption
        <5> QED BY <5>2, <5>3
      <4>2. UNCHANGED <<accepted, withdrawn, lapsed, late>>
        BY <3>3 DEF EraseUser
      <4> QED BY <4>1, <4>2 DEF Closing, Issued, Closed
    <3>4. CASE WithdrawInvitation(r) \/ JoinOrganization(r)
      BY <3>4 DEF WithdrawInvitation, JoinOrganization, Close, Closing, Issued, Closed
    <3> QED BY <1>6, <3>1, <3>2, <3>3, <3>4 DEF Writes, Transfer, WriteRole, WriteStatus,
                DeleteMember, WriteCustom, DeleteRole
  <2> QED BY <2>2, <2>3, InvitedFrame
<1> QED BY <1>2, <1>3, <1>4, <1>5, <1>6

LEMMA InvitedInductive == Spec => []InvitedInv
<1>1. Init => InvitedInv
  BY DEF Init, InvitedInv, Invited, Accepting, At
<1>2. ASSUME IInv, InvitedInv, [Next]_vars PROVE InvitedInv'
  <2>1. ASSUME NEW i \in Invites, Lapse(i) PROVE InvitedInv'
    <3>1. Closing(Requests)
      BY <2>1 DEF Lapse, Close, Closing, Issued, Closed
    <3> QED BY <1>2, <2>1, <3>1, InvitedFrame DEF Lapse, session
  <2>2. CASE UNCHANGED vars
    BY <1>2, <2>2 DEF vars, inbox, session, InvitedInv, Invited, Accepting, At, Issued, Closed
  <2> QED BY <1>2, <2>1, <2>2, InvitedStep DEF Next
<1> QED BY <1>1, <1>2, Inductive, PTL DEF Spec

\* accept_invitation: only an open invitation to oneself makes a member, or
\* one that closed after the request had found it open.
THEOREM InvitationsAreAccepted == Spec => JoinsByInvitation
<1>1. ASSUME IInv, InvitedInv, [Next]_vars, NEW u \in Users,
             role[u] = NoRole, role'[u] # NoRole
      PROVE  \E i \in Issued : /\ i \in accepted' /\ invites[i].user = u
                               /\ role'[u] \in {invites[i].role, "Member"}
                               /\ i \in Closed => i \in late
  <2>0. Next /\ ~UNCHANGED role
    BY <1>1 DEF vars, org
  <2>1. PICK r \in Requests :
          \/ Transfer(r) \/ WriteRole(r) \/ DeleteMember(r) \/ EraseUser(r) \/ JoinOrganization(r)
    BY <2>0, RoleWriters
  <2>2. role \in [Users -> AllRoles \union {NoRole}]
    BY <1>1 DEF IInv, TypeOK
  <2>3. ~Transfer(r) /\ ~WriteRole(r)
    BY <1>1, <2>2 DEF Transfer, WriteRole, Active, IsMember
  <2>4. ~DeleteMember(r) /\ ~EraseUser(r)
    BY <1>1, <2>2 DEF DeleteMember, EraseUser
  <2>5. JoinOrganization(r)
    BY <2>1, <2>3, <2>4
  <2>6. /\ u = job[r].actor /\ role'[u] = job[r].role
        /\ accepted' = accepted \union {job[r].invite}
        /\ Accepting(r) /\ pc[r] = "write"
    BY <1>1, <2>2, <2>5 DEF JoinOrganization, Accepting, At
  <2>7. Invited(r)
    BY <1>1 DEF InvitedInv
  <2> QED BY <2>6, <2>7 DEF Invited
<1>2. IInv /\ InvitedInv /\ [Next]_vars =>
        \A u \in Users : role[u] = NoRole /\ role'[u] # NoRole =>
          \E i \in Issued : /\ i \in accepted' /\ invites[i].user = u
                            /\ role'[u] \in {invites[i].role, "Member"}
                            /\ i \in Closed => i \in late
  BY <1>1
<1> QED BY <1>2, Inductive, InvitedInductive, PTL DEF Spec, JoinsByInvitation
=============================================================================
