--------------------------- MODULE RefreshTokens ---------------------------
(***************************************************************************)
(* Refresh tokens of the OIDC provider (src/apps/api/src/oidc/token.rs and *)
(* the grant handlers of oidc/mod.rs) under concurrent requests.           *)
(*                                                                         *)
(* The table refresh_tokens is the state; every request is a process whose *)
(* steps are its SQL statements.  PostgreSQL runs them READ COMMITTED:     *)
(*   - what a transaction wrote is seen by others only once it commits, so *)
(*     the statements between taking a row lock and COMMIT are one step;   *)
(*   - a row lock is held from the statement that takes it to the end of   *)
(*     the transaction, and another statement that needs the row waits;    *)
(*   - an UPDATE picks its rows from the snapshot taken when it starts     *)
(*     (Scan...), locks them one by one, re-evaluates its WHERE on the     *)
(*     newest version of a row it waited for (SweepRow), and never sees a  *)
(*     row inserted after its snapshot;                                    *)
(*   - transactions waiting for each other are detected and one aborted.   *)
(*                                                                         *)
(* A family_id is a fresh UUID: it is named here by the family's first     *)
(* token.  Memberships stand for pairs (user, org); an account is the set  *)
(* of the memberships of one user.                                         *)
(***************************************************************************)
EXTENDS Naturals

CONSTANTS
  Tokens,      \* ids of rows of refresh_tokens
  Roots,       \* rows that exist at the start, one family each
  Perishable,  \* tokens whose expires_at passes within the behaviour
  Requests,    \* HTTP requests, each handled once
  Clients,     \* OIDC clients
  Members,     \* organization memberships (user, org)
  Accounts,    \* users, each as the set of its memberships
  Kinds,       \* kinds of request that arrive
  NoToken, NoRequest, NoBinding, NoJob

AllKinds == {"exchange", "refresh", "revoke", "suspend", "remove", "reset"}

ASSUME TokenAssumption ==
  /\ Roots \subseteq Tokens
  /\ NoToken \notin Tokens
  /\ NoRequest \notin Requests
ASSUME MemberAssumption == Accounts \subseteq SUBSET Members
ASSUME KindAssumption == Kinds \subseteq AllKinds

VARIABLES
  issued,       \* committed rows of refresh_tokens
  family,       \* column family_id
  rotatedFrom,  \* column rotated_from_id
  binding,      \* columns client_id and (actor_id, org_id)
  revoked,      \* rows with revoked_at set
  reused,       \* rows with reuse_detected_at set
  expired,      \* rows with expires_at in the past
  members,      \* rows of org_memberships
  active,       \* those with status 'active'
  lock,         \* the transaction that holds the lock of a row
  known,        \* tokens returned to some client
  pc,           \* next statement of a request, or its outcome
  job,          \* input of a request
  todo,         \* rows a running UPDATE still has to lock
  minted,       \* refresh token inserted by a request
  access,       \* access token record of a request
  snapshot,     \* rows the last UPDATE of a request had to cover
  late,         \* requests past the membership check when it was suspended
  spared        \* tokens left by a suspension that stopped half-way

table   == <<issued, family, rotatedFrom, binding, revoked, reused>>
session == <<pc, job, todo, minted>>
membership == <<members, active>>
history == <<snapshot, late, spared>>   \* written, never read by a guard
vars    == <<table, expired, membership, lock, known, session, access, history>>

----------------------------------------------------------------------------

Binding == [client : Clients, member : Members]

Job == [kind : AllKinds, tok : Tokens \union {NoToken},
        client : Clients, target : SUBSET Members]

\* outcomes of a request: "reuse" is RotateRefreshOutcome::ReuseDetected,
\* "revoked" RotateRefreshOutcome::Revoked, "failed" a request that ended
\* in an error or with its process
Outcomes == {"ok", "denied", "revoked", "reuse", "failed"}

Stages == {"idle", "find", "check", "lock", "rotate", "successor", "family",
           "sweep", "revoke", "status", "scan", "access", "mint", "issue"}

Done(r)     == pc[r] \in Outcomes
InFlight(r) == ~Done(r) /\ pc[r] # "idle"

Held(r)     == {t \in Tokens : lock[t] = r}
Live(t)     == t \in issued /\ t \notin revoked
FamilyOf(t) == {s \in issued : family[s] = family[t]}
IsLeaf(t)   == \A c \in issued : rotatedFrom[c] # t

\* The tokens of the memberships in S that an UPDATE with
\* revoked_at IS NULL selects.
LiveOf(S) == {t \in issued \ revoked : binding[t].member \in S}

\* The membership a request mints tokens for.
Subject(r) ==
  IF job[r].kind = "refresh" THEN {binding[job[r].tok].member}
                             ELSE job[r].target

\* new_id(): an id no row has (which one makes no difference)
NewId == CHOOSE n \in Tokens : n \notin issued

Release(r) == [t \in Tokens |-> IF lock[t] = r THEN NoRequest ELSE lock[t]]

Goto(r, to) == pc' = [pc EXCEPT ![r] = to]

\* An UPDATE starts: S is what its WHERE clause selects from its snapshot.
Sweep(r, S) ==
  /\ todo' = [todo EXCEPT ![r] = S]
  /\ snapshot' = [snapshot EXCEPT ![r] = S]
  /\ Goto(r, "sweep")
  /\ UNCHANGED <<table, expired, membership, lock, known, job, minted, access,
                 late, spared>>

\* rows that the current statement of r still needs to lock
Wanted(r) ==
  IF pc[r] \in {"lock", "revoke"} THEN {job[r].tok}
  ELSE IF pc[r] = "sweep" THEN todo[r] ELSE {}

WaitsFor(r, q) == q # r /\ \E t \in Wanted(r) : lock[t] = q

Blocked(r) ==
  /\ Wanted(r) # {}
  /\ \A t \in Wanted(r) : \E q \in Requests : q # r /\ lock[t] = q

\* r waits, directly or not, in a circle of transactions
InDeadlock(r) ==
  \E S \in SUBSET Requests :
     /\ r \in S
     /\ \A q \in S : Blocked(q) /\ \E p \in S : WaitsFor(q, p)

----------------------------------------------------------------------------

Init ==
  /\ issued = Roots
  /\ family = [t \in Tokens |-> t]
  /\ rotatedFrom = [t \in Tokens |-> NoToken]
  /\ \E b \in [Roots -> Binding] :
       binding = [t \in Tokens |-> IF t \in Roots THEN b[t] ELSE NoBinding]
  /\ revoked = {} /\ reused = {} /\ expired = {}
  /\ members = Members /\ active = Members
  /\ lock = [t \in Tokens |-> NoRequest]
  /\ known = Roots
  /\ pc = [r \in Requests |-> "idle"]
  /\ job = [r \in Requests |-> NoJob]
  /\ todo = [r \in Requests |-> {}]
  /\ minted = [r \in Requests |-> NoToken]
  /\ access = [r \in Requests |-> "none"]
  /\ snapshot = [r \in Requests |-> {}]
  /\ late = {} /\ spared = {}

----------------------------------------------------------------------------
(* Arrival of a request: its kind and input are fixed.                     *)

\* A client redeems an authorization or device code for a membership.
AcceptExchange(r) ==
  /\ "exchange" \in Kinds
  /\ pc[r] = "idle"
  /\ \E c \in Clients, m \in Members :
       job' = [job EXCEPT ![r] = [kind |-> "exchange", tok |-> NoToken,
                                  client |-> c, target |-> {m}]]
  /\ Goto(r, "check")
  /\ UNCHANGED <<table, expired, membership, lock, known, todo, minted, access, history>>

\* A client presents a refresh token it was given, to the token endpoint or
\* to the revocation endpoint.
AcceptPresented(r) ==
  /\ pc[r] = "idle"
  /\ \E k \in Kinds \intersect {"refresh", "revoke"}, c \in Clients, t \in known :
       job' = [job EXCEPT ![r] = [kind |-> k, tok |-> t,
                                  client |-> c, target |-> {}]]
  /\ Goto(r, "find")
  /\ UNCHANGED <<table, expired, membership, lock, known, todo, minted, access, history>>

\* An administrator suspends or removes a member (revocation in one
\* organization, after the membership is written), or a user resets or
\* changes the password (revocation in every organization).
AcceptAdmin(r) ==
  /\ pc[r] = "idle"
  /\ \/ /\ \E k \in Kinds \intersect {"suspend", "remove"},
              c \in Clients, m \in Members :
             job' = [job EXCEPT ![r] = [kind |-> k, tok |-> NoToken,
                                        client |-> c, target |-> {m}]]
        /\ Goto(r, "status")
     \/ /\ "reset" \in Kinds
        /\ \E c \in Clients, a \in Accounts :
             job' = [job EXCEPT ![r] = [kind |-> "reset", tok |-> NoToken,
                                        client |-> c, target |-> a]]
        /\ Goto(r, "scan")
  /\ UNCHANGED <<table, expired, membership, lock, known, todo, minted, access, history>>

----------------------------------------------------------------------------
(* token_refresh, token_auth_code and token_device_code                    *)

\* find_refresh_token, then the client and expiry checks on the row read.
FindForRefresh(r) ==
  /\ pc[r] = "find" /\ job[r].kind = "refresh"
  /\ IF binding[job[r].tok].client = job[r].client /\ job[r].tok \notin expired
       THEN Goto(r, "check")
       ELSE Goto(r, "denied")
  /\ UNCHANGED <<table, expired, membership, lock, known, job, todo, minted, access, history>>

\* Mutant: a refresh does not look at the membership.
CheckMember_ExchangeOnly(r) ==
  /\ pc[r] = "check"
  /\ Goto(r, IF job[r].kind = "refresh" THEN "lock"
             ELSE IF Subject(r) \subseteq active THEN "mint" ELSE "denied")
  /\ UNCHANGED <<table, expired, membership, lock, known, job, todo, minted, access, history>>

\* is_active_member
CheckMember(r) ==
  /\ pc[r] = "check"
  /\ Goto(r, IF ~(Subject(r) \subseteq active) THEN "denied"
             ELSE IF job[r].kind = "refresh" THEN "lock" ELSE "mint")
  /\ UNCHANGED <<table, expired, membership, lock, known, job, todo, minted, access, history>>

\* Mutant: the row is read without FOR UPDATE.
LockPresented_NoLock(r) ==
  /\ pc[r] = "lock"
  /\ Goto(r, IF job[r].tok \in revoked THEN "successor" ELSE "rotate")
  /\ UNCHANGED <<table, expired, membership, lock, known, job, todo, minted, access, history>>

\* rotate_refresh_token: BEGIN; SELECT revoked_at ... FOR UPDATE
LockPresented(r) ==
  /\ pc[r] = "lock"
  /\ lock[job[r].tok] = NoRequest
  /\ lock' = [lock EXCEPT ![job[r].tok] = r]
  /\ Goto(r, IF job[r].tok \in revoked THEN "successor" ELSE "rotate")
  /\ UNCHANGED <<table, expired, membership, known, job, todo, minted, access, history>>

\* Mutants of Rotate, as the columns of the inserted row and the revoked set.
RotateInto(r, rows, fam, gone) ==
  /\ pc[r] = "rotate"
  /\ Tokens \ issued # {}
  /\ issued' = issued \union rows
  /\ family' = [family EXCEPT ![NewId] = fam]
  /\ rotatedFrom' = [rotatedFrom EXCEPT ![NewId] = job[r].tok]
  /\ binding' = [binding EXCEPT ![NewId] = binding[job[r].tok]]
  /\ minted' = [minted EXCEPT ![r] = NewId]
  /\ revoked' = revoked \union gone
  /\ lock' = Release(r)
  /\ Goto(r, "mint")
  /\ UNCHANGED <<reused, expired, membership, known, job, todo, access, history>>
\* the presented row stays live
Rotate_KeepsOld(r) == RotateInto(r, {NewId}, family[job[r].tok], {})
\* the successor is answered but never inserted
Rotate_NoInsert(r) == RotateInto(r, {}, family[job[r].tok], {job[r].tok})

\* The presented row is live: revoke it, insert its successor, COMMIT.
Rotate(r) ==
  /\ pc[r] = "rotate"
  /\ Tokens \ issued # {}
  /\ LET n == NewId IN
       /\ issued' = issued \union {n}
       /\ family' = [family EXCEPT ![n] = family[job[r].tok]]
       /\ rotatedFrom' = [rotatedFrom EXCEPT ![n] = job[r].tok]
       /\ binding' = [binding EXCEPT ![n] = binding[job[r].tok]]
       /\ minted' = [minted EXCEPT ![r] = n]
  /\ revoked' = revoked \union {job[r].tok}
  /\ lock' = Release(r)
  /\ Goto(r, "mint")
  /\ UNCHANGED <<reused, expired, membership, known, job, todo, access, history>>

\* Mutant: every use of a revoked token counts as reuse.
CheckSuccessor_Skipped(r) ==
  /\ pc[r] = "successor"
  /\ Goto(r, "family")
  /\ UNCHANGED <<table, expired, membership, lock, known, job, todo, minted, access, history>>

\* The presented row is revoked: SELECT EXISTS a successor; without one the
\* transaction commits and the answer is Revoked.
CheckSuccessor(r) ==
  /\ pc[r] = "successor"
  /\ \/ /\ ~IsLeaf(job[r].tok)
        /\ Goto(r, "family")
        /\ UNCHANGED lock
     \/ /\ IsLeaf(job[r].tok)
        /\ Goto(r, "revoked")
        /\ lock' = Release(r)
  /\ UNCHANGED <<table, expired, membership, known, job, todo, minted, access, history>>

\* Mutant: the family's UPDATE is limited to rows with revoked_at IS NULL.
ScanFamily_LiveOnly(r) ==
  /\ pc[r] = "family"
  /\ Sweep(r, FamilyOf(job[r].tok) \ revoked)

\* UPDATE refresh_tokens ... WHERE family_id = $1: the statement's snapshot
ScanFamily(r) ==
  /\ pc[r] = "family"
  /\ Sweep(r, FamilyOf(job[r].tok))

\* mint_access_token: INSERT INTO access_token_records
MintAccess(r) ==
  /\ pc[r] = "mint"
  /\ access' = [access EXCEPT ![r] = "live"]
  /\ IF job[r].kind = "refresh"
       THEN Goto(r, "ok") /\ known' = known \union {minted[r]}
       ELSE Goto(r, "issue") /\ UNCHANGED known
  /\ UNCHANGED <<table, expired, membership, lock, job, todo, minted, history>>

\* Mutant: a token for the same client and member joins an existing family.
IssueRefresh_JoinsFamily(r) ==
  /\ pc[r] = "issue"
  /\ Tokens \ issued # {}
  /\ \E m \in job[r].target :
       LET n    == NewId
           own  == [client |-> job[r].client, member |-> m]
           same == {t \in issued : binding[t] = own} IN
       /\ issued' = issued \union {n}
       /\ family' = [family EXCEPT ![n] =
            IF same = {} THEN n ELSE family[CHOOSE t \in same : TRUE]]
       /\ rotatedFrom' = [rotatedFrom EXCEPT ![n] = NoToken]
       /\ binding' = [binding EXCEPT ![n] = own]
       /\ minted' = [minted EXCEPT ![r] = n]
       /\ known' = known \union {n}
  /\ Goto(r, "ok")
  /\ UNCHANGED <<revoked, reused, expired, membership, lock, job, todo, access, history>>

\* issue_refresh_token: the first token of a new family
IssueRefresh(r) ==
  /\ pc[r] = "issue"
  /\ Tokens \ issued # {}
  /\ \E m \in job[r].target : LET n == NewId IN
       /\ issued' = issued \union {n}
       /\ family' = [family EXCEPT ![n] = n]
       /\ rotatedFrom' = [rotatedFrom EXCEPT ![n] = NoToken]
       /\ binding' = [binding EXCEPT ![n] = [client |-> job[r].client, member |-> m]]
       /\ minted' = [minted EXCEPT ![r] = n]
       /\ known' = known \union {n}
  /\ Goto(r, "ok")
  /\ UNCHANGED <<revoked, reused, expired, membership, lock, job, todo, access, history>>

----------------------------------------------------------------------------
(* revoke (RFC 7009)                                                       *)

\* The row is read; it is updated only for its own client and when the row
\* read was not revoked.  The answer is 200 in every case.
FindForRevoke(r) ==
  /\ pc[r] = "find" /\ job[r].kind = "revoke"
  /\ IF binding[job[r].tok].client = job[r].client /\ job[r].tok \notin revoked
       THEN Goto(r, "revoke")
       ELSE Goto(r, "ok")
  /\ UNCHANGED <<table, expired, membership, lock, known, job, todo, minted, access, history>>

\* UPDATE refresh_tokens SET revoked_at = now() WHERE id = $1
RevokePresented(r) ==
  /\ pc[r] = "revoke"
  /\ lock[job[r].tok] = NoRequest
  /\ revoked' = revoked \union {job[r].tok}
  /\ Goto(r, "ok")
  /\ UNCHANGED <<issued, family, rotatedFrom, binding, reused, expired, membership,
                 lock, known, job, todo, minted, access, history>>

\* The presented token is an access token: one guarded UPDATE by jti, by
\* any client that authenticates.
RevokeAccess(q) ==
  /\ "revoke" \in Kinds
  /\ pc[q] = "ok" /\ access[q] = "live"
  /\ access' = [access EXCEPT ![q] = "revoked"]
  /\ UNCHANGED <<table, expired, membership, lock, known, session, history>>

----------------------------------------------------------------------------
(* revoke_user_tokens and the handlers that call it                        *)

\* requests that mint for a membership in M and have passed is_active_member
Admitted(M) ==
  {q \in Requests : /\ pc[q] \in {"lock", "rotate", "mint", "issue"}
                    /\ Subject(q) \subseteq M}

\* update_member_status: UPDATE ... WHERE status <> 'suspended'.  A member who
\* is not active is not found, and nothing is revoked.
Suspend(r) ==
  /\ pc[r] = "status" /\ job[r].kind = "suspend"
  /\ IF job[r].target \subseteq active
       THEN /\ active' = active \ job[r].target
            /\ late' = late \union Admitted(job[r].target)
            /\ Goto(r, "scan")
       ELSE /\ Goto(r, "denied")
            /\ UNCHANGED <<active, late>>
  /\ UNCHANGED <<table, expired, members, lock, known, job, todo, minted, access,
                 snapshot, spared>>

\* remove_member: DELETE FROM org_memberships, of a suspended member too
Remove(r) ==
  /\ pc[r] = "status" /\ job[r].kind = "remove"
  /\ IF job[r].target \subseteq members
       THEN /\ members' = members \ job[r].target
            /\ active' = active \ job[r].target
            /\ late' = late \union Admitted(job[r].target)
            /\ Goto(r, "scan")
       ELSE /\ Goto(r, "denied")
            /\ UNCHANGED <<membership, late>>
  /\ UNCHANGED <<table, expired, lock, known, job, todo, minted, access,
                 snapshot, spared>>

\* UPDATE refresh_tokens ... WHERE actor_id = $1 AND (org) AND revoked_at IS
\* NULL: the statement's snapshot
ScanUser(r) ==
  /\ pc[r] = "scan"
  /\ Sweep(r, LiveOf(job[r].target))

\* Mutant: the UPDATE runs on another connection than the row lock.
SweepRow_OtherConnection(r) ==
  /\ pc[r] = "sweep"
  /\ \E t \in todo[r] :
       /\ lock[t] = NoRequest
       /\ todo' = [todo EXCEPT ![r] = @ \ {t}]
       /\ IF job[r].kind # "refresh" /\ t \in revoked
            THEN UNCHANGED lock
            ELSE lock' = [lock EXCEPT ![t] = r]
  /\ UNCHANGED <<table, expired, membership, known, pc, job, minted, access, history>>

\* Mutant: the UPDATE passes over rows that are locked (SKIP LOCKED).
SweepRow_SkipsLocked(r) ==
  /\ pc[r] = "sweep"
  /\ \E t \in todo[r] :
       /\ todo' = [todo EXCEPT ![r] = @ \ {t}]
       /\ IF lock[t] # NoRequest THEN UNCHANGED lock
                                ELSE lock' = [lock EXCEPT ![t] = r]
  /\ UNCHANGED <<table, expired, membership, known, pc, job, minted, access, history>>

\* Either UPDATE takes the lock of a row of its snapshot once nobody else
\* holds it; the user's UPDATE re-evaluates revoked_at IS NULL then and
\* leaves out a row that has been revoked meanwhile.
SweepRow(r) ==
  /\ pc[r] = "sweep"
  /\ \E t \in todo[r] :
       /\ lock[t] \in {NoRequest, r}
       /\ todo' = [todo EXCEPT ![r] = @ \ {t}]
       /\ IF job[r].kind # "refresh" /\ t \in revoked
            THEN UNCHANGED lock
            ELSE lock' = [lock EXCEPT ![t] = r]
  /\ UNCHANGED <<table, expired, membership, known, pc, job, minted, access, history>>

\* The whole snapshot is locked: the UPDATE takes effect at its COMMIT.
CommitSweep(r) ==
  /\ pc[r] = "sweep" /\ todo[r] = {}
  /\ revoked' = revoked \union Held(r)
  /\ reused' = IF job[r].kind = "refresh" THEN reused \union Held(r) ELSE reused
  /\ lock' = Release(r)
  /\ Goto(r, IF job[r].kind = "refresh" THEN "reuse" ELSE "access")
  /\ UNCHANGED <<issued, family, rotatedFrom, binding, expired, membership, known,
                 job, todo, minted, access, history>>

\* UPDATE access_token_records ... WHERE actor_id = $1 AND (org)
RevokeAccessOf(r) ==
  /\ pc[r] = "access"
  /\ access' = [q \in Requests |->
       IF access[q] = "live" /\ Subject(q) \subseteq job[r].target
         THEN "revoked" ELSE access[q]]
  /\ Goto(r, "ok")
  /\ UNCHANGED <<table, expired, membership, lock, known, job, todo, minted, history>>

\* Mutant: the member's access tokens come back with the membership.
Unsuspend_RestoresAccess(m) ==
  /\ "suspend" \in Kinds
  /\ m \in members \ active
  /\ active' = active \union {m}
  /\ access' = [q \in Requests |->
       IF access[q] = "revoked" /\ m \in Subject(q) THEN "live" ELSE access[q]]
  /\ UNCHANGED <<table, expired, members, lock, known, session, history>>

\* unsuspend_member: a single UPDATE of the status
Unsuspend(m) ==
  /\ "suspend" \in Kinds
  /\ m \in members \ active
  /\ active' = active \union {m}
  /\ UNCHANGED <<table, expired, members, lock, known, session, access, history>>

\* A removed member accepts a new invitation.
Rejoin(m) ==
  /\ "remove" \in Kinds
  /\ m \notin members
  /\ members' = members \union {m}
  /\ active' = active \union {m}
  /\ UNCHANGED <<table, expired, lock, known, session, access, history>>

----------------------------------------------------------------------------
(* Time, failures, deadlocks                                               *)

Expire(t) ==
  /\ t \in issued \intersect Perishable /\ t \notin expired
  /\ expired' = expired \union {t}
  /\ UNCHANGED <<table, membership, lock, known, session, access, history>>

\* r has made a membership inactive and has yet to revoke its tokens.
Ending(r) == /\ pc[r] \in {"scan", "sweep", "access"}
             /\ job[r].kind \in {"suspend", "remove"}

\* A request ends in an error: an open transaction rolls back, committed
\* statements stay.  A suspension leaves the tokens it has not come to.
Abort(r) ==
  /\ lock' = Release(r)
  /\ todo' = [todo EXCEPT ![r] = {}]
  /\ Goto(r, "failed")
  /\ IF Ending(r)
       THEN /\ spared' = spared \union LiveOf(job[r].target)
            /\ late' = late \union {q \in Requests :
                 access[q] = "live" /\ Subject(q) \subseteq job[r].target}
       ELSE UNCHANGED <<spared, late>>
  /\ UNCHANGED <<table, expired, membership, known, job, minted, access, snapshot>>

\* The handler is dropped (client gone, process stopped, connection lost).
Fail(r) == InFlight(r) /\ Abort(r)

\* PostgreSQL aborts a transaction of a waiting cycle; the handler answers
\* with an internal error.
DeadlockAbort(r) == InFlight(r) /\ InDeadlock(r) /\ Abort(r)

\* Every request has been answered.
Quiescent == (\A r \in Requests : Done(r)) /\ UNCHANGED vars

----------------------------------------------------------------------------

Accept(r) == AcceptExchange(r) \/ AcceptPresented(r) \/ AcceptAdmin(r)

\* The steps the server takes for a request once it has arrived.
Serve(r) ==
  \/ FindForRefresh(r) \/ CheckMember(r) \/ LockPresented(r) \/ Rotate(r)
  \/ CheckSuccessor(r) \/ ScanFamily(r) \/ MintAccess(r) \/ IssueRefresh(r)
  \/ FindForRevoke(r) \/ RevokePresented(r)
  \/ Suspend(r) \/ Remove(r) \/ ScanUser(r) \/ SweepRow(r) \/ CommitSweep(r)
  \/ RevokeAccessOf(r) \/ DeadlockAbort(r)

Environment ==
  \/ \E r \in Requests : Accept(r) \/ Fail(r) \/ RevokeAccess(r)
  \/ \E m \in Members : Unsuspend(m) \/ Rejoin(m)
  \/ \E t \in Tokens : Expire(t)

Next == (\E r \in Requests : Serve(r)) \/ Environment \/ Quiescent

Spec == Init /\ [][Next]_vars

\* The runtime polls every accepted request, and PostgreSQL answers every
\* statement: no step of a request is postponed forever.
Fairness == \A r \in Requests : WF_vars(Serve(r))

FairSpec == Spec /\ Fairness

----------------------------------------------------------------------------
(* Properties                                                              *)

\* Every variable has its type; a request that has arrived has its input.
TypeOK ==
  /\ issued \subseteq Tokens
  /\ family \in [Tokens -> Tokens]
  /\ rotatedFrom \in [Tokens -> Tokens \union {NoToken}]
  /\ binding \in [Tokens -> Binding \union {NoBinding}]
  /\ revoked \subseteq issued
  /\ reused \subseteq issued
  /\ expired \subseteq issued
  /\ known \subseteq issued
  /\ members \subseteq Members /\ active \subseteq members
  /\ lock \in [Tokens -> Requests \union {NoRequest}]
  /\ pc \in [Requests -> Stages \union Outcomes]
  /\ job \in [Requests -> Job \union {NoJob}]
  /\ todo \in [Requests -> SUBSET issued]
  /\ minted \in [Requests -> issued \union {NoToken}]
  /\ access \in [Requests -> {"none", "live", "revoked"}]
  /\ snapshot \in [Requests -> SUBSET issued]
  /\ late \subseteq Requests /\ spared \subseteq issued
  /\ \A t \in issued : binding[t] \in Binding
  /\ \A r \in Requests : pc[r] # "idle" => job[r] \in Job

\* A family has at most one live token at any time: the row lock of
\* rotate_refresh_token lets one of several concurrent uses of a token mint
\* a successor, and the others find the row revoked.
AtMostOneLive ==
  \A s, t \in issued : family[s] = family[t] /\ Live(s) /\ Live(t) => s = t

\* Two requests that present the same token never both rotate it.
OneRotationPerToken ==
  \A q, r \in Requests :
    /\ job[q] # NoJob /\ job[q].kind = "refresh" /\ minted[q] # NoToken
    /\ job[r] # NoJob /\ job[r].kind = "refresh" /\ minted[r] # NoToken
    /\ job[q].tok = job[r].tok
    => q = r

\* A token that has been rotated is revoked, and its successor stays in its
\* family and with its client and membership.
RotationInherits ==
  \A t \in issued : rotatedFrom[t] # NoToken =>
    /\ rotatedFrom[t] \in revoked
    /\ family[t] = family[rotatedFrom[t]]
    /\ binding[t] = binding[rotatedFrom[t]]

\* Rotation replaces one token by one: nobody is given a second successor of a
\* token, or one that is not its heir.
RotationIsExact == OneRotationPerToken /\ RotationInherits

\* Reuse detection marks a family from its first token on: with a token, all
\* its ancestors are marked, however rotations and sweeps interleave.
ReuseMarksPrefix ==
  \A t \in reused :
    /\ t \in revoked
    /\ rotatedFrom[t] # NoToken => rotatedFrom[t] \in reused

\* The verdict "reuse" needs two presentations: another request has rotated
\* the token.  An explicit revocation alone is never taken for reuse.
ReuseIsJustified ==
  \A r \in Requests : pc[r] = "reuse" =>
    \E q \in Requests \ {r} :
      minted[q] # NoToken /\ rotatedFrom[minted[q]] = job[r].tok

\* A revocation endpoint's 200 to the owning client means the token presented
\* is revoked, also when the row changed between its read and its update.
PresentedIsRevoked ==
  \A r \in Requests :
    /\ pc[r] = "ok" /\ job[r].kind = "revoke"
    /\ binding[job[r].tok].client = job[r].client
    => job[r].tok \in revoked

\* No step makes a revoked token live again, or an access token record, or
\* moves a token to another family, predecessor or owner.  A family none of
\* whose tokens is live never has a live token again, whatever requests were
\* under way when the last one was revoked.
RevocationIsFinal ==
  [][/\ revoked \subseteq revoked'
     /\ \A t \in issued :
          /\ t \in issued'
          /\ family'[t] = family[t]
          /\ rotatedFrom'[t] = rotatedFrom[t]
          /\ binding'[t] = binding[t]
          /\ FamilyOf(t) \subseteq revoked => FamilyOf(t)' \subseteq revoked'
     /\ \A r \in Requests : access[r] = "revoked" => access'[r] = "revoked"]_vars

\* What reuse detection, reset, removal and suspension do promise: once the
\* UPDATE has committed, every token its snapshot had selected is revoked,
\* whatever other transactions held its rows; reuse detection marks them too.
SweepIsComplete ==
  \A r \in Requests :
    /\ pc[r] \in {"access", "reuse"} => snapshot[r] \subseteq revoked
    /\ pc[r] = "reuse" => /\ job[r].tok \in snapshot[r]
                         /\ snapshot[r] \subseteq reused

\* A revocation takes effect on all it was about.
RevocationTakesEffect == PresentedIsRevoked /\ SweepIsComplete

\* threat-model.md T3: a member who was suspended or removed is left with no
\* live token, but those of requests that were past the membership check at
\* that time and those that a revocation which stopped half-way did not reach.
SuspensionEndsTokens ==
  /\ \A t \in issued \ revoked :
       \/ binding[t].member \in active
       \/ t \in spared \/ \E q \in late : minted[q] = t
       \/ \E r \in Requests : Ending(r) /\ binding[t].member \in job[r].target
  /\ \A q \in Requests : access[q] = "live" =>
       \/ Subject(q) \subseteq active
       \/ q \in late
       \/ \E r \in Requests : Ending(r) /\ Subject(q) \subseteq job[r].target

\* Somebody can always go on: when all requests that have arrived wait for
\* row locks, they wait in a circle, which the database breaks.  No lock is
\* left behind by a request that has ended.
SomebodyGoesOn ==
  (\E r \in Requests : InFlight(r)) =>
    \E r \in Requests : InFlight(r) /\ (~Blocked(r) \/ InDeadlock(r))

\* Every request that arrives is answered: lock waits end, and the database
\* breaks the cycles that two reuse detections of one family can form.
EveryRequestEnds ==
  \A r \in Requests : InFlight(r) ~> Done(r)

\* The requests implement the abstract specification of token families: a
\* token is usable when its row is not revoked.
Families == INSTANCE TokenFamilies
              WITH usable <- issued \ revoked, retired <- revoked

\* Refinement: each step opens a family, replaces or retires usable tokens,
\* or leaves the families alone.
ImplementsFamilies == Families!Spec

----------------------------------------------------------------------------
(* What the documentation says of revocation                               *)

\* threat-model.md O4: "reuse detection revokes the entire family".
ReuseRevokesFamily ==
  \A r \in Requests : pc[r] = "reuse" =>
    \A t \in issued : family[t] = family[job[r].tok] => t \in revoked

\* threat-model.md S1: "password change and reset revoke all sessions and
\* all OAuth access/refresh tokens".
ResetRevokesRefreshTokens ==
  \A r \in Requests : pc[r] = "ok" /\ job[r].kind = "reset" =>
    LiveOf(job[r].target) = {}
=============================================================================
