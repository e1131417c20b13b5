------------------------------- MODULE Grants -------------------------------
(***************************************************************************)
(* User consent and the authorization code flow of the OIDC provider       *)
(* (src/apps/api/src/oidc/mod.rs): /oidc/authorize, /oidc/consent, the     *)
(* authorization_code and refresh_token grants of /oidc/token and the      *)
(* withdrawal of a grant from the account page.                            *)
(*                                                                         *)
(* A request is a process whose steps are its SQL statements, each of them *)
(* atomic; the slots in Requests are reused, so their number bounds how    *)
(* many requests run at once.  A client belongs to one organization, so a  *)
(* grant (client_id, user_id, org_id) is a pair of a client and a user.    *)
(* The two transactions that meet, a rotation and a withdrawal, have two   *)
(* steps: the statement that selects rows, and the COMMIT.  A family of    *)
(* refresh tokens is named by the code it began with; RefreshTokens models *)
(* its rows.                                                               *)
(***************************************************************************)
EXTENDS Naturals

CONSTANTS
  Clients,   \* OIDC clients, each with its organization
  Users,
  Scopes,    \* scopes beside openid, which every request carries
  Offline,   \* the scope offline_access
  Codes,     \* ids of rows of auth_codes
  Perishable, \* codes whose five minutes may pass within the behaviour
  Requests,  \* slots for concurrent requests
  NoCode, NoJob

ASSUME OfflineAssumption == Offline \in Scopes
ASSUME CodeAssumption == NoCode \notin Codes

Pairs == Clients \X Users

VARIABLES
  codes,      \* rows of auth_codes
  used,       \* codes with used_at set
  lapsed,     \* codes with expires_at in the past
  stored,     \* clients and users with a row of oauth_grants
  grants,     \* its column scopes ({} without a row)
  withdrawn,  \* grants with revoked_at set
  pc, job,    \* next statement and input of a request
  seen,       \* the scopes upsert_grant has read
  scanned,    \* families whose live row a withdrawal's UPDATE has selected
  responses,  \* token responses given for a code (at most MaxResponses)
  refresh,    \* codes whose family has a live refresh token
  consented,  \* scopes the user ever approved for the client
  standing,   \* scopes approved since the grant was last withdrawn
  outstanding \* codes to be answered, and families being rotated, when
              \* their approval was withdrawn

rows     == <<codes, used, stored, grants, withdrawn>>
session  == <<pc, job, seen, scanned>>
tokens   == <<responses, refresh>>
approved == <<consented, standing, outstanding>>  \* never read by a guard
vars     == <<rows, lapsed, session, tokens, approved>>

----------------------------------------------------------------------------

CodeRow == [client : Clients, user : Users, scopes : SUBSET Scopes]

\* NoCode stands for an id without a row.
ASSUME RowAssumption == NoCode \notin CodeRow

Job == [kind : {"authorize", "consent", "exchange", "refresh", "withdraw"},
        client : Clients, user : Users, scopes : SUBSET Scopes,
        code : Codes \union {NoCode}, proof : BOOLEAN]

Stages == {"idle", "member", "covers", "issue", "find", "consume", "read",
           "write", "mint", "lock", "rotate", "load", "scan", "revoke"}

\* responses counted per code; one more than the code may ever give
MaxResponses == 2

Issued     == {c \in Codes : codes[c] # NoCode}
CodeOf(r)  == codes[job[r].code]
\* the grant a request is about; an exchange takes the user from the code
PairOf(r)  ==
  <<job[r].client, IF job[r].kind = "exchange" THEN CodeOf(r).user ELSE job[r].user>>
\* requests whose transaction holds the row lock of a family's live token
Rotating(c) == {r \in Requests : pc[r] = "rotate" /\ job[r].code = c}
\* requests whose transaction is withdrawing a grant
Withdrawing(p) == {r \in Requests : pc[r] = "revoke" /\ PairOf(r) = p}
NewCode    == CHOOSE c \in Codes : c \notin Issued
\* the grant a code belongs to
GrantOf(c) == <<codes[c].client, codes[c].user>>

\* The next statement of a request, whose slot is free once it is answered.
Goto(r, to) ==
  /\ pc' = [pc EXCEPT ![r] = to]
  /\ job' = IF to = "idle" THEN [job EXCEPT ![r] = NoJob] ELSE job
Arrive(r, first, input) ==
  /\ pc[r] = "idle"
  /\ job' = [job EXCEPT ![r] = input]
  /\ pc' = [pc EXCEPT ![r] = first]
  /\ UNCHANGED <<rows, lapsed, seen, scanned, tokens>>

----------------------------------------------------------------------------

Init ==
  /\ codes = [c \in Codes |-> NoCode]
  /\ used = {} /\ lapsed = {}
  /\ stored = {}
  /\ grants = [p \in Pairs |-> {}]
  /\ withdrawn = {}
  /\ pc = [r \in Requests |-> "idle"]
  /\ job = [r \in Requests |-> NoJob]
  /\ seen = [r \in Requests |-> {}]
  /\ scanned = [r \in Requests |-> {}]
  /\ responses = [c \in Codes |-> 0]
  /\ refresh = {}
  /\ consented = [p \in Pairs |-> {}]
  /\ standing = [p \in Pairs |-> {}]
  /\ outstanding = {}

----------------------------------------------------------------------------
(* Arrival of a request.  The client exists, its application is enabled,   *)
(* the redirect URI is registered and the request is well formed.          *)

AcceptAuthorize(r) ==
  /\ \E c \in Clients, u \in Users, s \in SUBSET Scopes :
       Arrive(r, "member", [kind |-> "authorize", client |-> c, user |-> u,
                            scopes |-> s, code |-> NoCode, proof |-> FALSE])
  /\ UNCHANGED approved

\* The user approves on the consent screen; a denial changes nothing.
AcceptConsent(r) ==
  \E c \in Clients, u \in Users, s \in SUBSET Scopes :
    /\ Arrive(r, "member", [kind |-> "consent", client |-> c, user |-> u,
                            scopes |-> s, code |-> NoCode, proof |-> FALSE])
    /\ consented' = [consented EXCEPT ![<<c, u>>] = @ \union s]
    /\ standing' = [standing EXCEPT ![<<c, u>>] = @ \union s]
    /\ UNCHANGED outstanding

\* A client, authenticated, presents a code; proof says whether its verifier
\* and redirect URI are those of the authorization request.
AcceptExchange(r) ==
  /\ \E c \in Clients, k \in Issued, b \in BOOLEAN :
       Arrive(r, "find", [kind |-> "exchange", client |-> c,
                          user |-> codes[k].user, scopes |-> {},
                          code |-> k, proof |-> b])
  /\ UNCHANGED approved

\* A client, authenticated, presents the live refresh token of a family of
\* its own, which is found unexpired.
AcceptRefresh(r) ==
  /\ \E k \in refresh :
       Arrive(r, "member", [kind |-> "refresh", client |-> codes[k].client,
                            user |-> codes[k].user, scopes |-> {},
                            code |-> k, proof |-> FALSE])
  /\ UNCHANGED approved

\* The user, reauthenticated, withdraws a grant of the account page.
AcceptWithdraw(r) ==
  /\ \E c \in Clients, u \in Users :
       Arrive(r, "load", [kind |-> "withdraw", client |-> c, user |-> u,
                          scopes |-> {}, code |-> NoCode, proof |-> FALSE])
  /\ UNCHANGED approved

----------------------------------------------------------------------------
(* authorize and consent                                                   *)

\* is_active_member, in all four flows.  The organization may suspend a
\* member, and reinstate it, before any of them: either answer may come.
CheckMember(r) ==
  /\ pc[r] = "member"
  /\ \/ Goto(r, "idle")
     \/ Goto(r, CASE job[r].kind = "authorize" -> "covers"
                  [] job[r].kind = "consent"   -> "issue"
                  [] job[r].kind = "exchange"  -> "consume"
                  [] job[r].kind = "refresh"   -> "lock")
  /\ UNCHANGED <<rows, lapsed, seen, scanned, tokens, approved>>

\* Mutant: a grant that was withdrawn covers its scopes.
GrantCovers_Withdrawn(r) ==
  /\ pc[r] = "covers"
  /\ Goto(r, IF /\ PairOf(r) \in stored
                /\ job[r].scopes \subseteq grants[PairOf(r)]
             THEN "issue" ELSE "idle")
  /\ UNCHANGED <<rows, lapsed, seen, scanned, tokens, approved>>

\* grant_covers: consent is skipped, or the user is sent to the consent
\* screen (prompt=consent always does, which adds no behaviour).
GrantCovers(r) ==
  /\ pc[r] = "covers"
  /\ Goto(r, IF /\ PairOf(r) \in stored
                /\ PairOf(r) \notin withdrawn
                /\ job[r].scopes \subseteq grants[PairOf(r)]
             THEN "issue" ELSE "idle")
  /\ UNCHANGED <<rows, lapsed, seen, scanned, tokens, approved>>

\* issue_auth_code
IssueCode(r) ==
  /\ pc[r] = "issue"
  /\ Codes \ Issued # {}
  /\ codes' = [codes EXCEPT ![NewCode] =
       [client |-> job[r].client, user |-> job[r].user, scopes |-> job[r].scopes]]
  /\ outstanding' = IF job[r].scopes \subseteq standing[PairOf(r)]
                      THEN outstanding ELSE outstanding \union {NewCode}
  /\ Goto(r, "idle")
  /\ UNCHANGED <<used, stored, grants, withdrawn, lapsed, seen, scanned,
                 tokens, consented, standing>>

----------------------------------------------------------------------------
(* token_auth_code                                                         *)

\* Mutant: the code's client is not compared with the one that presents it.
FindCode_AnyClient(r) ==
  /\ pc[r] = "find"
  /\ Goto(r, IF /\ job[r].code \notin used \union lapsed
                /\ job[r].proof
             THEN "member" ELSE "idle")
  /\ UNCHANGED <<rows, lapsed, seen, scanned, tokens, approved>>

\* The row is read and checked: unused, unexpired, this client's, PKCE.
FindCode(r) ==
  /\ pc[r] = "find"
  /\ Goto(r, IF /\ job[r].code \notin used \union lapsed
                /\ CodeOf(r).client = job[r].client
                /\ job[r].proof
             THEN "member" ELSE "idle")
  /\ UNCHANGED <<rows, lapsed, seen, scanned, tokens, approved>>

\* Mutant: used_at is set without the condition that it is NULL.
Consume_Unguarded(r) ==
  /\ pc[r] = "consume"
  /\ used' = used \union {job[r].code}
  /\ Goto(r, "read")
  /\ UNCHANGED <<codes, stored, grants, withdrawn, lapsed, seen, scanned,
                 tokens, approved>>

\* UPDATE auth_codes SET used_at = now() WHERE id = $1 AND used_at IS NULL
Consume(r) ==
  /\ pc[r] = "consume"
  /\ used' = used \union {job[r].code}
  /\ Goto(r, IF job[r].code \in used THEN "idle" ELSE "read")
  /\ UNCHANGED <<codes, stored, grants, withdrawn, lapsed, seen, scanned,
                 tokens, approved>>

\* upsert_grant reads the stored scopes, of a withdrawn grant too
ReadGrant(r) ==
  /\ pc[r] = "read"
  /\ seen' = [seen EXCEPT ![r] = grants[PairOf(r)]]
  /\ Goto(r, "write")
  /\ UNCHANGED <<rows, lapsed, scanned, tokens, approved>>

\* upsert_grant writes the union; when the stored scopes add nothing to the
\* code's it inserts instead, and leaves an existing row as it is.  An
\* UPDATE waits for the row lock of a withdrawal; the INSERT, ON CONFLICT DO
\* NOTHING, does not.
WriteGrant(r) ==
  /\ pc[r] = "write"
  /\ LET p == PairOf(r)  asked == CodeOf(r).scopes IN
     \/ /\ seen[r] \subseteq asked
        /\ stored' = stored \union {p}
        /\ grants' = [grants EXCEPT ![p] = IF p \in stored THEN @ ELSE asked]
     \/ /\ ~(seen[r] \subseteq asked)
        /\ Withdrawing(p) = {}
        /\ grants' = [grants EXCEPT ![p] = asked \union seen[r]]
        /\ UNCHANGED stored
  /\ seen' = [seen EXCEPT ![r] = {}]
  /\ Goto(r, "mint")
  /\ UNCHANGED <<codes, used, withdrawn, lapsed, scanned, tokens, approved>>

\* mint_tokens; a refresh token only with offline_access.  The UPDATE of a
\* withdrawal that has begun does not see the new row.
Mint(r) ==
  /\ pc[r] = "mint"
  /\ responses[job[r].code] < MaxResponses
  /\ responses' = [responses EXCEPT ![job[r].code] = @ + 1]
  /\ refresh' = IF Offline \in CodeOf(r).scopes
                  THEN refresh \union {job[r].code} ELSE refresh
  /\ outstanding' = IF Withdrawing(PairOf(r)) = {}
                      THEN outstanding ELSE outstanding \union {job[r].code}
  /\ Goto(r, "idle")
  /\ UNCHANGED <<rows, lapsed, seen, scanned, consented, standing>>

----------------------------------------------------------------------------
(* token_refresh and rotate_refresh_token                                  *)

\* SELECT revoked_at ... FOR UPDATE waits for a rotation under way.  A
\* revoked token gives nothing; that it may end its family is EndFamily, and
\* which token of the family is presented is the matter of RefreshTokens.
LockPresented(r) ==
  /\ pc[r] = "lock"
  /\ Rotating(job[r].code) = {}
  /\ Goto(r, IF job[r].code \in refresh THEN "rotate" ELSE "idle")
  /\ UNCHANGED <<rows, lapsed, seen, scanned, tokens, approved>>

\* COMMIT: the token is revoked and its successor appears.  The UPDATE of a
\* withdrawal that had selected the token finds it revoked and skips it, and
\* the successor is not in its snapshot.
Rotate(r) ==
  /\ pc[r] = "rotate"
  /\ LET c == job[r].code  late == {q \in Requests : c \in scanned[q]} IN
     /\ scanned' = [q \in Requests |-> scanned[q] \ {c}]
     /\ outstanding' = IF late = {} THEN outstanding ELSE outstanding \union {c}
  /\ Goto(r, "idle")
  /\ UNCHANGED <<rows, lapsed, seen, tokens, consented, standing>>

\* A family ends otherwise (reuse of a rotated token, RFC 7009, a reset of
\* the password, the organization, expiry): RefreshTokens models how.
EndFamily(c) ==
  /\ c \in refresh
  /\ Rotating(c) = {}
  /\ refresh' = refresh \ {c}
  /\ scanned' = [q \in Requests |-> scanned[q] \ {c}]
  /\ UNCHANGED <<rows, lapsed, pc, job, seen, responses, approved>>

----------------------------------------------------------------------------
(* revoke_account_grant                                                    *)

\* Mutant: the grant need not exist.
LoadGrant_Any(r) ==
  /\ pc[r] = "load"
  /\ Goto(r, "scan")
  /\ UNCHANGED <<rows, lapsed, seen, scanned, tokens, approved>>

\* 404 when there is no such grant
LoadGrant(r) ==
  /\ pc[r] = "load"
  /\ Goto(r, IF PairOf(r) \in stored THEN "scan" ELSE "idle")
  /\ UNCHANGED <<rows, lapsed, seen, scanned, tokens, approved>>

\* The transaction: UPDATE oauth_grants, which waits for another withdrawal
\* of the row, and the snapshot of the UPDATE of refresh_tokens, the live
\* tokens of client and user.
ScanGrant(r) ==
  /\ pc[r] = "scan"
  /\ Withdrawing(PairOf(r)) = {}
  /\ scanned' = [scanned EXCEPT ![r] = {c \in refresh : GrantOf(c) = PairOf(r)}]
  /\ Goto(r, "revoke")
  /\ UNCHANGED <<rows, lapsed, seen, tokens, approved>>

\* COMMIT, once no selected row is locked: what a withdrawal does whatever
\* becomes of the refresh tokens.
Withdraw(r) ==
  /\ pc[r] = "revoke"
  /\ \A c \in scanned[r] : Rotating(c) = {}
  /\ withdrawn' = withdrawn \union {PairOf(r)}
  /\ standing' = [standing EXCEPT ![PairOf(r)] = {}]
  /\ outstanding' = outstanding \union
       {c \in Issued : GrantOf(c) = PairOf(r) /\ responses[c] = 0 /\ codes[c].scopes # {}}
  /\ scanned' = [scanned EXCEPT ![r] = {}]
  /\ Goto(r, "idle")
  /\ UNCHANGED <<codes, used, stored, grants, lapsed, seen, responses, consented>>

\* Mutant: the refresh tokens are left to expire.
RevokeGrant_KeepsTokens(r) == Withdraw(r) /\ UNCHANGED refresh

\* The selected refresh tokens are revoked with the grant.
RevokeGrant(r) == Withdraw(r) /\ refresh' = refresh \ scanned[r]

----------------------------------------------------------------------------
(* Time and failures                                                       *)

\* A code that is used is never compared with the time again.
Lapse(c) ==
  /\ c \in (Issued \intersect Perishable) \ (used \union lapsed)
  /\ lapsed' = lapsed \union {c}
  /\ UNCHANGED <<rows, session, tokens, approved>>

\* A request is dropped between two statements; its transaction, if it is
\* in one, is rolled back.
Fail(r) ==
  /\ pc[r] # "idle"
  /\ seen' = [seen EXCEPT ![r] = {}]
  /\ scanned' = [scanned EXCEPT ![r] = {}]
  /\ Goto(r, "idle")
  /\ UNCHANGED <<rows, lapsed, tokens, approved>>

----------------------------------------------------------------------------

Accept(r) ==
  \/ AcceptAuthorize(r) \/ AcceptConsent(r) \/ AcceptExchange(r)
  \/ AcceptRefresh(r) \/ AcceptWithdraw(r)

Serve(r) ==
  \/ CheckMember(r) \/ GrantCovers(r) \/ IssueCode(r)
  \/ FindCode(r) \/ Consume(r) \/ ReadGrant(r) \/ WriteGrant(r) \/ Mint(r)
  \/ LockPresented(r) \/ Rotate(r)
  \/ LoadGrant(r) \/ ScanGrant(r) \/ RevokeGrant(r)

Next ==
  \/ \E r \in Requests : Accept(r) \/ Serve(r) \/ Fail(r)
  \/ \E c \in Codes : Lapse(c) \/ EndFamily(c)

Spec == Init /\ [][Next]_vars

----------------------------------------------------------------------------
(* Properties                                                              *)

\* Every variable has its type.
TypeOK ==
  /\ codes \in [Codes -> CodeRow \union {NoCode}]
  /\ used \subseteq Issued /\ lapsed \subseteq Issued /\ refresh \subseteq Issued
  /\ stored \subseteq Pairs /\ withdrawn \subseteq stored
  /\ grants \in [Pairs -> SUBSET Scopes]
  /\ pc \in [Requests -> Stages]
  /\ job \in [Requests -> Job \union {NoJob}]
  /\ seen \in [Requests -> SUBSET Scopes]
  /\ scanned \in [Requests -> SUBSET refresh]
  /\ responses \in [Codes -> 0..MaxResponses]
  /\ consented \in [Pairs -> SUBSET Scopes]
  /\ standing \in [Pairs -> SUBSET Scopes]
  /\ outstanding \subseteq Issued

\* threat-model.md O2: a code gives tokens once, also when the same code is
\* redeemed by several requests that all found it unused.
CodeRedeemedOnce == \A c \in Codes : responses[c] <= 1

\* A code, the grant kept from it and the scopes read to merge it never
\* exceed what this user approved for this very client.
WithinConsent ==
  /\ \A c \in Issued : codes[c].scopes \subseteq consented[GrantOf(c)]
  /\ \A p \in Pairs : grants[p] \subseteq consented[p]

\* Consent is skipped only for scopes approved since the grant was last
\* withdrawn: a code still outstanding at the withdrawal, or an exchange
\* already running, does not bring the grant back.
SilentWithinConsent ==
  [][\A r \in Requests :
       pc[r] = "covers" /\ pc'[r] = "issue"
         => job[r].scopes \subseteq standing[PairOf(r)]]_vars

\* A withdrawal ends the refresh tokens of the grant, those of which the
\* UPDATE has a row it can revoke: a token that is live after it comes from
\* an approval given since, from a code that was under way when the grant
\* was withdrawn, or from a rotation that was in flight then.  The UPDATE is
\* at READ COMMITTED and misses the successor of such a rotation.
WithdrawalEndsTokens ==
  \A c \in refresh : codes[c].scopes \subseteq standing[GrantOf(c)] \/ c \in outstanding

\* An authorization code is a single-use secret: open until the guarded
\* UPDATE spends it, and answered with tokens once at most after that.
CodesOnce == INSTANCE OneTimeTokens
               WITH Ids <- Codes, open <- Issued \ used, spent <- used,
                    answers <- responses

\* Refinement: the requests implement the abstract single-use secret.
ImplementsOneTime == CodesOnce!Spec

----------------------------------------------------------------------------
(* What the code says of itself                                            *)

\* token_auth_code: "Remember the grant for future silent approvals."  Once
\* an exchange has stored its grant, the grant covers the code's scopes,
\* unless it was withdrawn.
GrantRemembered ==
  \A r \in Requests : pc[r] = "mint" /\ PairOf(r) \notin withdrawn
    => CodeOf(r).scopes \subseteq grants[PairOf(r)]
=============================================================================
