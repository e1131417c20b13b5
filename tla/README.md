# ArcticWorks Identity: TLA+ specifications

Specifications of the protocol logic of the identity provider in `src/apps/api`
(Rust, axum, sqlx on PostgreSQL): refresh token families, consent and
authorization codes, the standing of an organization's owner and members, the
ways to sign in to an account, and the machines, applications and signing keys
behind access tokens. TLC checks small instances; the theorems in the `_proofs`
modules are checked by TLAPS and hold for every value of the constants.

## The system

One stateless API process (or several) serves HTTP requests. A handler is an
async function that runs a sequence of SQL statements on a connection pool,
most of them outside a transaction, so handlers of different requests
interleave between any two statements, and a client that goes away, a process
that stops or a statement that fails leaves the statements before it committed.
All protocol state is in PostgreSQL; the pool uses the default isolation level,
READ COMMITTED. Nothing is kept in memory between requests but the fallback of
the rate limiter.

| Component | State | Operations | What makes it correct | Module |
|---|---|---|---|---|
| Refresh tokens (`oidc/token.rs`, `oidc/mod.rs`) | `refresh_tokens`, `access_token_records` | issue, refresh with rotation, RFC 7009 revocation, revocation of a user's tokens by suspension, removal, reset | one live token per family, one rotation per token, no revocation undone, no family back to life, reuse verdicts justified, tokens end with the membership, every request answered | `RefreshTokens`, `TokenFamilies` |
| Consent and codes (`oidc/mod.rs`) | `auth_codes`, `oauth_grants` | authorize, consent, code exchange, withdrawal | a code answers once; tokens, grants and silent approvals stay within what the user approved; tokens end with the grant | `Grants` |
| Organizations and roles (`orgs/mod.rs`, `rbac.rs`) | `organizations`, `org_memberships`, `roles`, `invitations` | transfer, role change, suspend, unsuspend, remove, leave, custom roles, invitations, erasure of an account | the owner is an active member with the only Owner role; the Owner role is only reached by transfer; no dangling rows; membership comes from an open invitation | `Tenancy` |
| Teams, organization settings (`orgs/mod.rs`) | `teams`, `team_members`, `sessions.current_org_id` | create, update, delete, add, remove, switch | members of teams are members of the organization | not modelled |
| Accounts (`accounts/mod.rs`) | `users`, `email_verifications`, `password_resets` | register, verify, login, forgot, reset, change password, delete | tokens have their effect once; an old password or its sessions do not survive a reset; an unverified or erased account is of no use | `Accounts`; what erasure does to an organization in `Tenancy` |
| Sessions (`authn.rs`) | `sessions` | create, look up, revoke, mark reauthentication | a session rests on the current password; sensitive changes need a recent one | `Accounts` |
| Second factors (`totp.rs`, `accounts/mod.rs`) | `totp_secrets`, `mfa_challenges`, `recovery_code_sets`, `recovery_codes` | set up, confirm, disable, log in with a code, generate and use recovery codes | challenges and codes are single-use, the enabled secret was confirmed and stays, one active recovery set | `Accounts` |
| Passkeys (`passkeys/`) | `passkeys`, `webauthn_challenges` | registration and sign-in ceremonies, removal | challenges are single-use, the stored counter follows the accepted one | `Accounts` |
| Device flow (`oidc/device.rs`) | `device_authorizations` | start, approve, deny, poll | tokens are minted at most once per approval, for the approver | `DeviceFlow` |
| Token validation and keys (`oidc/token.rs`, `oidc/keys.rs`) | `oidc_signing_keys`, `access_token_records` | mint, validate, rotate keys | a token verifies while it lives, whatever rotations happen; the actor is still active | `SigningKeys`; revocation of records in `RefreshTokens` |
| Applications (`oidc/mod.rs`) | `oidc_clients`, `oidc_client_secrets` | register, update, rotate secret, delete, authenticate a client | replaced secrets are archived; a deleted application obtains nothing more by device code | `DeviceFlow`; updates not modelled |
| Machine identities (`machine/mod.rs`) | `service_accounts`, credentials, `devices`, enrollment tokens | create, update, rotate, suspend, enroll, revoke, client credentials grant | enrollment is single-use; one live credential; replaced credentials fade | `Machines` |
| Rate limiter (`ratelimit.rs`) | counters in Valkey or memory | check | bounded rate per window | not modelled |
| Audit log (`audit.rs`) | `audit_events` | insert after the operation, failure swallowed | nothing reads it back | not modelled |
| Web UI, SDK, mail, configuration | none of the protocol state | clients of the API and I/O | | not modelled |

The components meet in the database: suspension, removal, password change,
reset and erasure call `revoke_user_tokens`; authorization, code exchange,
refresh and token validation read the membership status; erasing an account
cascades through foreign keys. `PROJECT.json` lists under `hazards` where this
is hard to test, each with its line and the properties that watch it.

## How a request is modelled

A request is a process. Its program counter `pc[r]` names the statement it runs
next and `job[r]` its input; a read-only check is one step, a write is one step,
and arbitrary steps of other requests fall in between. `Fail(r)` drops a request
before any statement (client gone, process stopped, connection lost): an open
transaction rolls back, committed statements stay. What is read in one statement
and used in a later one is kept in the request (`job`, `seen`, `todo`), never read
again.

A transaction that holds the locks of every row it touches from its first write
is one step at its COMMIT, since nobody can see a part of it. Where the locks
themselves matter, they are modelled, in full in `RefreshTokens`:

- `SELECT ... FOR UPDATE` takes the lock (`LockPresented`), which is held to
  COMMIT; a statement that needs a locked row waits;
- an `UPDATE` over many rows chooses them from a snapshot (`ScanFamily`,
  `ScanUser`), locks them one at a time in any order (`SweepRow`), re-evaluates
  its WHERE clause on a row it waited for, and does not see rows inserted after
  the snapshot; it takes effect with its COMMIT (`CommitSweep`);
- a cycle of waiting transactions is broken by aborting one (`DeadlockAbort`).

`Grants` has the same of the two transactions that meet on a grant's tokens: a
rotation (`LockPresented`, then `Rotate` as its COMMIT) and a withdrawal (`ScanGrant`,
then `RevokeGrant`). What the withdrawal has selected it holds as `scanned`; it cannot
commit while a selected row is locked, skips a row that a rotation revoked meanwhile,
and does not see the successor. `Accounts` has the rotation in two steps and the
UPDATE of `revoke_user_tokens` in one: a rotation that commits after it brings its
family back, which is where the successor is that it does not see.

## Modules

**`RefreshTokens`**: the table `refresh_tokens` as sets and functions over token
ids (`issued`, `family`, `rotatedFrom`, `binding`, `revoked`, `reused`,
`expired`), the memberships (`members`, `active`), the row locks, and requests of
six kinds. `FindForRefresh`,
`CheckMember`, `LockPresented`, `Rotate`, `CheckSuccessor`, `ScanFamily`,
`SweepRow`, `CommitSweep` and `MintAccess` are `token_refresh` with
`rotate_refresh_token`; `MintAccess` and `IssueRefresh` are the end of an
exchange (`mint_tokens`); `FindForRevoke`, `RevokePresented` and `RevokeAccess`
are `revoke`; `ScanUser`, `SweepRow`, `CommitSweep` and `RevokeAccessOf` are
`revoke_user_tokens`, which a password reset or change starts with and a
suspension (`Suspend`) or removal (`Remove`) comes to after it has written the
membership. `Suspend` of a member who is not active, and `Remove` of one who is
gone, answer 404 and revoke nothing. `Unsuspend` and `Rejoin` (an accepted
invitation) bring a member back. A fresh family id is named by the family's first
token. Three history variables, which no guard reads: `snapshot`, what the last
UPDATE of a request had to cover; `late`, the requests that were past
`is_active_member` when the membership ended; `spared`, the tokens that a
suspension or removal that stopped half-way did not come to.

**`TokenFamilies`**: the abstract promise, without requests or locks: open a
family, replace its usable token, retire usable tokens. `RefreshTokens`
implements it with `usable <- issued \ revoked, retired <- revoked`
(`ImplementsFamilies`).

**`Grants`**: `auth_codes`, `oauth_grants` and the live refresh tokens of a grant, a
family by the code it began with (`refresh`). `CheckMember`, `GrantCovers` and
`IssueCode` are `authorize` and `consent`; `FindCode`, `CheckMember`, `Consume`,
`ReadGrant`, `WriteGrant` and `Mint` are `token_auth_code` with `upsert_grant`;
`CheckMember`, `LockPresented` and `Rotate` are `token_refresh` with
`rotate_refresh_token`; `LoadGrant`, `ScanGrant` and `RevokeGrant` are
`revoke_account_grant`. `EndFamily` stands for every other end of a family, which
`RefreshTokens` models, and the membership check may give either answer at any time.
Request parsing, redirect URIs and PKCE are one Boolean, `proof`, of the exchange.
Three history variables: what the user ever approved (`consented`), what of it no
withdrawal has taken back (`standing`), and the codes whose tokens a withdrawal could
not reach (`outstanding`): those not yet answered when it committed, those answered
after its snapshot, and those of which a rotation that it found under way committed
before it.

**`Accounts`**: one account, from registration to erasure, and what signs in to
it. The steps of a request are its statements: the arrival (`Accept...`) stands
for the session lookup of the `Authed` extractor, the reauthentication window
and the first read; `VerifyPassword`, `AskFactor`, `IssueChallenge` and
`CreateSession` are `login`, and the end of it is shared with `mfa_login`,
`recovery_login` and the passkey's `auth_finish`; `RevokeTokens`,
`ConsumeToken`, `WritePassword` and `SweepSessions`, in this order, are
`reset_password`, and without the second `change_password`. Reset tokens, login
challenges, recovery codes, passkey challenges, authorization codes and verification
tokens are one table `token` with a `use`; `ConsumeToken` is the UPDATE (for a passkey
challenge the DELETE) whose WHERE clause makes it single-use. A password is the
number of the write that stored it, a TOTP code the number of the secret it was
computed from, an assertion the counter the authenticator signed. `session[s].pw`
is the password a session rests on, and `token[t].pw` that of the session an
authorization code was issued to (`AcceptAuthorize`, `IssueCode`). The exchange of a
code (`AcceptExchange`, `ConsumeToken`, `MintTokens`) and a refresh (`AcceptRefresh`,
`LockPresented`, `Rotate`, `MintTokens`) look at neither session nor password, as in
the code; `granted` are the codes with unrevoked tokens. `EraseAccount` is the DELETE
with the cascades the migrations declare: `webauthn_challenges.user_id` and the
`actor_id` of a token are no foreign keys, so passkey challenges stay and can still be
stored, and a refresh under way goes on. `overtaken`, `carried`, `overlap`, `crossed`,
`overrun`, `lost` and `confirmed` are history variables: they record that
requests overlapped in a way the code admits, so that the properties can demand
everything in all other states and the next request that runs alone puts right
what an overlap left.

**`OneTimeTokens`**: the abstract promise of a single-use secret: it is issued,
redeemed or discarded, and once redeemed it has its effect at most once.
`Grants` implements it for authorization codes, `Accounts` for those and for reset
tokens, login challenges, recovery codes and passkey challenges, `Platform` for enrollment tokens
(`EnrollsOnce`) and device codes (`CodesOnce`); the property is `ImplementsOneTime`
in each. The effect, not the UPDATE, is
what is counted: the password written, the session created, the passkey
inserted, the device enrolled, the token minted.

**`PlatformStore`**, **`SigningKeys`**, **`Machines`**, **`DeviceFlow`**,
**`Platform`**: the tables that machines, applications and access tokens share,
the handlers over them by source file, and their composition. `EnsureKey`,
`GenerateKey` and `RetireKeys` are `ensure_active_key`, `generate_and_store` and
`rotate_key`; `EnsureKey` and `RecordToken` are the end of every token request,
`EnsureKey`, `VerifyToken` and `CheckActor` are `validate_access_token`.
`CaptureCredentials` takes the snapshot of the UPDATE of a credential rotation
and `ReplaceCredential` is its commit, so that two rotations that wait for each
other are there. A clock runs in the mixes about keys and expiring credentials:
`Ttl` is the lifetime of an access token (15 minutes), `Grace` the time a retired
key verifies (24 hours), `Latency` the longest a request runs, and
`GraceAssumption` is what the configuration gives, `Latency + Ttl <= Grace`.

**`Tenancy`**: one organization. The first statement of a handler is the arrival
of the request (`Accept...`), the other reads are `Check...` and `LoadRole`, the
rest write. Foreign keys and unique constraints are conditions of the writes.
The organization permissions of a role are taken together (a role manages or
not); the built-in roles are Owner, Administrator and Member, Viewer being a
Member here since neither may write. `raced` is a history variable: it becomes
true when a transfer, suspension or removal commits while another request holds
a check that it contradicts. `late` is another: the invitations that were accepted
or revoked, or expired, while a request that had found them open was accepting them.

The `MC` modules add the symmetry sets and small definitions the configurations
use; in `MCAccounts` and `MCPlatform` these are the mixes (below). Operators named `X_Y` with the comment
"Mutant" are faulty variants of the definition `X` that follows them; no
specification uses them.

## Runs

| Run | Bounds | What it shows |
|---|---|---|
| `RefreshTokens_rotation` | 4 refresh requests, 5 tokens, 1 family, the first token of which may expire | two rotations and two reuse detections can overlap, which is the least for their row locks to form a cycle; `EveryRequestEnds` under fairness |
| `RefreshTokens_revocation` | 3 requests of any kind, 4 tokens, 2 clients, 2 memberships of one user, which end and come back any number of times | every pair of operations with a third in between: revocations take effect on all they selected and are final, a family ends for good, a suspension that stops half-way and its repetition; refinement of `TokenFamilies` |
| `RefreshTokens_reuse_family` | 3 refresh requests | violates `ReuseRevokesFamily`: rotation, its retry and a rotation of the successor suffice |
| `RefreshTokens_reset` | 1 refresh and 1 reset | violates `ResetRevokesRefreshTokens`; no exchange runs, so no token is new |
| `Grants_flow` | 2 request slots, 2 clients, 2 codes, 1 user, 1 scope beside openid | slots are reused, so any number of requests runs two at a time; both codes can be of one grant, or one of each client; a withdrawal meets an exchange, a rotation or another withdrawal at every statement; refinement of `OneTimeTokens` (2.6 million states) |
| `Grants_remember` | 1 slot | violates `GrantRemembered` with two exchanges in sequence |
| `Tenancy_ownership` | 2 slots, 3 users | transfers, role changes, suspension, removal, leaving and erasure two at a time; three users allow two transfers to different members |
| `Tenancy_roles` | 2 slots, 2 users, 1 custom role, 1 invitation | role and invitation management against membership changes and erasure; an invitation is revoked, expires or is accepted while another request is accepting it, and again after a removal |
| `Tenancy_owner_removed` | as ownership | violates `OwnerIsActiveMember` |
| `Tenancy_provenance` | as roles | violates `InvitationsKeepWorking` |
| `Accounts_signin` | 2 slots, 3 sessions, 3 tokens, 2 recovery sets, 3 passwords, 2 TOTP secrets, 2 assertions, 16 mixes | every pair of requests that share rows, their repetition and their loss at any statement, codes and refreshes against reset, change and erasure, passkey registration against erasure; refinement of `OneTimeTokens` (0.7 million states) |
| `Platform_tokens` | 3 slots (2 with the clock), 2 users, 1 service account, 2 devices, 4 credentials, 3 keys, 2 tokens, 1 code, time 0..3, 10 mixes | keys rotate beside minting and validation, credentials beside their rotation and deletion, decisions beside polls and the deletion of the application |

Bounds: `Tokens`, `Codes`, `Customs` and `Invites` bound the rows ever inserted
(an insert waits when none is left), `Requests` the requests (`RefreshTokens`) or
the requests at a time (`Grants`, `Tenancy`, `Accounts`, `Platform`), `Perishable` the rows that expire,
`MaxResponses` the answers counted per code (one more than is right), `Kinds` and
`Arriving` the kinds of request. The hazards are races of two requests, at most
with a third that commits in between; the theorems below
remove the bounds for every property of the passing runs but `EveryRequestEnds`.

A behaviour of `Accounts` and `Platform` picks a mix at its start and keeps it:
the kinds of request that may arrive, the rows it starts with and the ids it may
use. A mix joins the kinds that read or write the same rows (passwords with
sessions and reset tokens, the second factor with login, keys with minting, and
so on); kinds of different mixes meet in no row that a property of theirs
mentions. `MaxPassword`, `MaxSecret` and `MaxCount` bound what is written, and an
insert or write waits when none is left, hence CHECK_DEADLOCK FALSE in these two
runs: a behaviour really stops when its ids are used up. `MaxAnswers` counts one
effect more than is right. A passkey that was removed is not registered again.
In `Platform` ids are handed out in their order. `Ttl` and `Latency` are 1 and
`Grace` is 2, the least the assumption allows, so a token can expire at the very
moment its key stops to verify.

### Fairness

Only `EveryRequestEnds` needs fairness: weak fairness of the steps the server
takes for a request that has arrived (`Fairness`). The runtime polls every
accepted request and PostgreSQL answers every statement, a lock wait ending with
the transaction that holds the lock or with deadlock detection. Clients,
administrators, expiry and failures are never forced to act.

### Where the code and its documents disagree

- Reuse detection does not revoke the whole family (`threat-model.md` O4) when a
  rotation of the family is uncommitted at the snapshot of its UPDATE
  (`ReuseRevokesFamily`).
- A reset or password change does not revoke all refresh tokens (S1), for the
  same reason (`ResetRevokesRefreshTokens`). Nor does it stop a code that was issued
  before it: `revoke_user_tokens` leaves `auth_codes` alone, and the exchange gives
  tokens after the reset. `TokensEndWithPassword` names these exceptions (`carried`)
  and says that no other token of an earlier password is left.
- A suspension or removal does not revoke all tokens of the member (T3): an
  exchange or refresh past its membership check inserts its token after the
  snapshot. It is of no use while the member is suspended and works again after.
  No run has the violation: `SuspensionEndsTokens`
  names the exception (`late`) and says that nothing else is left, but where a
  suspension stopped between its two writes (`spared`), which no retry makes up for
  (it finds no active member, answers 404 and revokes nothing).
- Withdrawing a grant does not stop future tokens (`deployment.md`, User
  lifecycle): a code issued before is redeemed after it, since `token_auth_code`
  does not look at the grant. `WithdrawalEndsTokens` names the exception
  (`outstanding`), and with it the rotation in flight, whose successor the UPDATE of
  the withdrawal misses as that of a reset does; it says that no other code of the
  grant has a live refresh token.
- `upsert_grant` does not store a grant that widens the stored one, so the user
  is asked again each time ("Remember the grant for future silent approvals").
- The owner can be suspended or removed (T2) by a request whose owner check came
  before the ownership transfer.
- The update of a device always fails: `update_device` builds
  `UPDATE devices SET name = $1, WHERE ...`. `update_service_account` and
  `update_application` bind a role id, a list of URIs or a flag as text to columns
  of another type, which PostgreSQL refuses; only names and descriptions can be
  updated. Seen while reading, not modelled.
- Erasing the account of an inviter sets `invited_by` to NULL, which
  `list_invitations` cannot decode (migration 0014: records "keep working").

## Theorems

Assumptions are the named ASSUMEs on constants of each module (the ids are
distinct from the null values, roots are tokens, accounts consist of
memberships, built-in and custom roles differ); TLC evaluates them in every run.

**`RefreshTokens_proofs`**. The safety properties are not inductive. The invariant
`IInv` adds who holds which lock at which statement (a request between
`LockPresented` and its COMMIT holds the row it presented and found live or
revoked), that a
rotated row is revoked, that every family is one chain whose only possibly live
token is its leaf, and that the rows a family sweep still wants or holds contain
the ancestors of each. From it follow `RotationIsExclusive`,
`RotationIsFaithful`, `ReuseCoversPast`, `ReuseVerdictIsJustified`,
`RevocationIsForGood` (a new token is the only member of its family or replaces a
live one, so no family comes back to life) and `RefinesFamilies`.
`NobodyIsStuck` needs of it only that whoever holds a lock is in flight: if all
requests in flight are blocked, they are one set each of whose members waits for
another, which is what the database detects.

A second invariant, `HInv`, rests on the first and follows requests rather than
rows. `StageInv` says which kind of request can be at which statement;
`SnapshotInv` that a row an UPDATE has selected is still to be locked, is locked,
or was revoked by somebody else meanwhile, which at COMMIT becomes `SweepIsComplete`,
a part of `RevocationTakesEffect`; `AdmittedInv` that whoever is past the membership check mints
for an active member or is known to be `late`; `SparedInv` and `AccessInv` name,
for each live token of an inactive member, the suspension or removal still to
revoke it and, once that has its snapshot, that the token is in it. Without the
last part the invariant would not survive the COMMIT. From it follow
`RevocationIsEffective` and `SuspensionIsEffective`.

**`TokenFamilies_proofs`**: `FamiliesAreSafe`, on the abstract specification.

**`Grants_proofs`**. The invariant says that a request past `Consume` is the only
one for its code and has not answered, that what `upsert_grant` has read was
approved for the client, that a grant that is not withdrawn was approved
since, and that a code whose approval was withdrawn is noted in `outstanding` or
has answered and lost its refresh token (`OutstandingInv`; the property
alone says nothing of codes that are yet to be answered, and so does not survive
`Mint`). Between the two steps of a withdrawal, `ScanInv` says that the live families
of its grant are those it has selected or are noted already, and that it is the only
withdrawal there; without it the invariant would not survive the COMMIT. From it follow `CodesAreSingleUse`, `ConsentIsRespected`,
`SilenceNeedsConsent`, `WithdrawalIsEffective` and `RefinesOneTime`: `IssueCode`
issues the secret, the guarded UPDATE of `Consume` redeems it, `Mint` is its answer
and every other step a stutter.

**`OneTimeTokens_proofs`**, on the abstract specification: `SecretsAnsweredOnce` and
`SpentForGood`. The four refinements carry both over to authorization codes, device
codes, enrollment tokens and the secrets of an account.

**`Tenancy_proofs`**. The invariant says what a request carries at each stage
(`Fits`: a role about to be assigned is not Owner, an invitation about to be
accepted exists) and, as long as nothing has overtaken a check, that what the
check found still holds when the write runs (`Informed`: whoever transfers is the
owner, the new owner is an active member unless the account is gone, the target of
any other change is not the owner). `OwnershipIntact` needs the second part: the
writes do not look at the owner again. From it follow `TenancyTypeCorrect`,
`NoDanglingRows`, `OwnerRoleIsNotAssigned` and `OwnershipIsKept`. A second invariant
(`InvitedInv`: the invitation a request is accepting is addressed to its caller, and
is open or late) rests on the first and gives `InvitationsAreAccepted`.

**`Accounts_proofs`**. Each part of the invariant relates what requests have read to
what is stored by now: a request past the consumption of its token is alone with it
and the effect has not happened (`TokenInv`); there are only early requests and mail
or reset tokens before the address is verified, and nothing is left after erasure
but passkey challenges (`AccountInv`); as long as a live session rests on an older password and is not known
to be late, some request that replaced a password has yet to end the sessions, and
(`PasswordInv`, which `StaleSessionsEnd` needs because a sweep of one request also
covers what an earlier one left); codes still to be answered rest on the current
password or are carried, like those with live tokens, and once the tokens are revoked
for a new password all of both are (`OauthInv`: between `RevokeTokens` and
`WritePassword` the old password is still the current one, so the property alone does
not survive the write); a secret about to be enabled was confirmed and one
about to be replaced is off (`FactorInv`); a generation about to insert its set finds
none active (`SetInv`); a counter about to be written is above the stored one
(`KeyInv`), each unless the history variable of its property says that requests
overlapped. From it follow the eight state properties; `SecondFactorStays` is an
action property, and `ImplementsOneTime` a refinement of `OneTimeTokens`: whoever
inserts a token issues it, the guarded UPDATE redeems it, lapse and erasure discard
it, and the sign-in, password or passkey it was for is its answer.

**`Platform_proofs`**. The invariant says what a request under way can rely on: one
that is about to sign has a key that was active when the request arrived or later
(`SigningInv`), one that generates a key is the only one or `forked` records it
(`OneKey`), the credential behind a token was live when its request arrived
(`FadingInv`), a rotation past its UPDATE has seen every credential that works
(`RotationInv`), and a request past the consumption of an enrollment token or a
device code is alone with it (`EnrollInv`, `CodeInv`). `KeyOutlivesTokens` is where
`GraceAssumption` is needed: a retired key verifies for `Grace`, the request that
signs with it ends within `Latency` of its arrival, and the token `Ttl` later.
`GoneStaysGone` is an action property and needs, beside the types, that a membership
is never gone; `MachineSecretsAreSingleUse` joins the two refinements of
`OneTimeTokens`, `EnrollsOnce` and `CodesOnce`.

Only model-checked: `EveryRequestEnds`, since liveness under fairness is beyond the
prover; `NobodyIsStuck` is what is proved of it. Only proved, since a property of
the runs already rules out its violation on their instances: `NobodyIsStuck`
(`SomebodyGoesOn`; `EveryRequestEnds`) and `CodesAreSingleUse` (`CodeRedeemedOnce`;
`ImplementsOneTime`).

## Not modelled

- Teams, organization settings and `switch_org`: rows that no other component
  decides on but the listing and the current organization of a session.
- `update_application`, `update_service_account`, `update_device`,
  `update_profile`, `rename_passkey`: they write names, or fail (above).
- `webauthn.rs` and the JWT encodings: cryptography and parsing, abstracted to
  values that verify or not.
- The rate limiter: it refuses requests before their first statement, so the
  models admit more requests than it does.
- RP-initiated logout (`end_session`): one session revocation, as `logout`.
- The audit log, mail, configuration, HTTP plumbing, web interface and SDK: no
  protocol state.

## Plan

1. Teams and the current organization of a session, beside removal of a member.
2. `end_session`, and `update_application` with the flag that disables a client.
3. `Grants` and `RefreshTokens` composed: a family of `Grants` has one live token at
   most, and `EndFamily` stands for what `RefreshTokens` does to it. Likewise the
   approved device codes of `DeviceFlow` against a reset.
