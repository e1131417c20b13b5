------------------------------ MODULE Accounts ------------------------------
(***************************************************************************)
(* One account of the identity provider and the ways to sign in to it:     *)
(* registration and email verification, password, reset, sessions and      *)
(* reauthentication (src/apps/api/src/accounts/mod.rs, authn.rs), the TOTP *)
(* second factor (totp.rs), recovery codes and a passkey (passkeys/), and  *)
(* the OAuth tokens that applications obtain through it (oidc/).           *)
(*                                                                         *)
(* A request is a process whose steps are its SQL statements, each of them *)
(* atomic; its arrival is the session lookup or first read and the checks  *)
(* made on it, a request that fails there changes nothing.  Every          *)
(* single-use secret (a row with token_hash and used_at, a recovery code,  *)
(* a passkey challenge, an authorization code) is a token with a use.      *)
(*                                                                         *)
(* What users know is honest: a password is the number of the write that   *)
(* stored it, so every new password is new.                                *)
(***************************************************************************)
EXTENDS Naturals, FiniteSets

CONSTANTS
  Requests,     \* slots for concurrent requests
  Sessions,     \* ids of rows of sessions
  Tokens,       \* ids of the tokens
  Sets,         \* ids of rows of recovery_code_sets
  CodesPerSet,  \* recovery codes of a set (8 in the code)
  MaxPassword,  \* passwords ever stored
  MaxSecret,    \* TOTP secrets ever generated
  MaxCount,     \* assertions the authenticator signs
  Mixes,        \* what a behaviour starts with and which requests arrive
  NoSession, NoToken, NoSet, NoJob

AllKinds ==
  {"register", "resend", "verify", "login", "logout", "end", "endothers",
   "forgot", "reset", "change", "reauth", "erase",
   "setup", "confirm", "disable", "mfa", "generate", "recover",
   "addkey", "newkey", "askkey", "usekey", "dropkey",
   "authorize", "exchange", "refresh"}

\* A behaviour starts with no account, or with a verified one that has the
\* sessions given; secure says whether its second factors are set up, and
\* counts whether its authenticator has a signature counter.  The sessions
\* and tokens it may use bound it.
Mix == {m \in [kinds : SUBSET AllKinds, exists : BOOLEAN, live : SUBSET Sessions,
                secure : BOOLEAN, counts : BOOLEAN,
                sessions : SUBSET Sessions, tokens : SUBSET Tokens] :
          ~m.exists => m.live = {} /\ ~m.secure}

ASSUME AccountAssumption ==
  /\ MaxPassword \in Nat \ {0} /\ MaxSecret \in Nat \ {0}
  /\ MaxCount \in Nat /\ CodesPerSet \in Nat
  /\ NoToken \notin Tokens /\ NoSession \notin Sessions
ASSUME MixAssumption == Mixes \subseteq Mix

VARIABLES
  mix,        \* the behaviour's mix, which never changes
  account,    \* the row of users: none, pending (unverified), verified, erased
  password,   \* users.password_hash
  token,      \* tokens: use, state, and what they were issued for
  answers,    \* how often a token had its effect (at most MaxAnswers)
  session,    \* sessions: state, and the password that was current or given
  fresh,      \* sessions with last_reauth_at in the window
  granted,    \* authorization codes whose OAuth tokens are live
  carried,    \* codes whose tokens a revocation could not reach
  overtaken,  \* sessions created or spared while a new password was set
  totp,       \* the row of totp_secrets
  generated,  \* TOTP secrets generated so far
  confirmed,  \* secrets a correct code was given for
  overlap,    \* setup and confirmation of a second factor overlapped
  set,        \* recovery_code_sets
  crossed,    \* two generations of recovery codes overlap
  passkey,    \* the row of passkeys: none, stored, deleted
  count,      \* passkeys.sign_count
  signed,     \* the authenticator's own counter
  accepted,   \* the highest counter that signed in
  overrun,    \* two passkey sign-ins overlapped
  lost,       \* verification tokens whose request stopped between its updates
  pc, job     \* next statement and input of a request

user    == <<account, password, lost>>
store   == <<token, answers>>
oauth   == <<granted, carried>>
signin  == <<session, fresh, oauth, overtaken>>
second  == <<totp, generated, confirmed, overlap>>
codes   == <<set, crossed>>
keys    == <<passkey, count, signed, accepted, overrun>>
data    == <<user, store, signin, second, codes, keys>>
vars    == <<mix, data, pc, job>>

----------------------------------------------------------------------------

Uses   == {"mail", "reset", "mfa", "code", "addkey", "usekey", "authcode"}
States == {"none", "open", "used", "lapsed"}

Blank   == [use |-> "none", state |-> "none", pw |-> 0, set |-> NoSet]
Row     == [use : Uses \union {"none"}, state : States,
            pw : 0..MaxPassword, set : Sets \union {NoSet}]
Session == [state : {"none", "live", "ended"}, pw : 0..MaxPassword]

Job == [kind : AllKinds, pw : 0..MaxPassword, self : Sessions \union {NoSession},
        target : Sessions \union {NoSession}, token : Tokens \union {NoToken},
        num : Nat \union Sets]

Stages == {"idle", "mail", "consumemail", "mark", "verify", "factor", "challenge",
           "session", "revoke", "sweep", "mailreset", "tokens", "consume", "write",
           "markreauth", "erase", "status", "upsert", "pending", "enable", "drop",
           "code", "invalidate", "newset", "newcode", "list", "start", "insert",
           "credential", "bump", "unkey", "issue", "mint", "rotate", "renew"}

MaxAnswers == 2

Exists     == account \in {"pending", "verified"}
Live(s)    == session[s].state = "live"
Is(t, u)   == token[t].use = u
Open(t)    == token[t].state = "open"
Challenge(t) == Is(t, "addkey") \/ Is(t, "usekey")
SetCodes(x) == {t \in Tokens : Is(t, "code") /\ token[t].set = x}
FreshTokens   == {t \in mix.tokens : token[t].state = "none"}
FreshSessions == {s \in mix.sessions : session[s].state = "none"}

NoTotp  == [secret |-> 0, on |-> FALSE]
Removed == IF passkey = "stored" THEN "deleted" ELSE passkey

Input(k) == [kind |-> k, pw |-> 0, self |-> NoSession, target |-> NoSession,
             token |-> NoToken, num |-> 0]

\* The next statement of a request, whose slot is free once it is answered.
Goto(r, to) ==
  /\ pc' = [pc EXCEPT ![r] = to]
  /\ job' = IF to = "idle" THEN [job EXCEPT ![r] = NoJob] ELSE job
  /\ UNCHANGED mix
Begin(r, first, input) ==
  /\ pc[r] = "idle"
  /\ input.kind \in mix.kinds
  /\ pc' = [pc EXCEPT ![r] = first]
  /\ job' = [job EXCEPT ![r] = input]
  /\ UNCHANGED mix
Arrive(r, first, input) == Begin(r, first, input) /\ UNCHANGED data

\* Other requests of a kind, before the given statement.
OthersAt(r, k, stage) ==
  \E q \in Requests : q # r /\ pc[q] = stage /\ job[q].kind = k

\* A password is being replaced: its tokens are revoked, its sessions not yet.
Replacing == \E r \in Requests :
  pc[r] \in {"consume", "write", "sweep"} /\ job[r].kind \in {"reset", "change"}

Insert(t, u, pw, x) ==
  token' = [token EXCEPT ![t] = [use |-> u, state |-> "open", pw |-> pw, set |-> x]]

----------------------------------------------------------------------------

Init ==
  /\ mix \in Mixes
  /\ account = IF mix.exists THEN "verified" ELSE "none"
  /\ password = 1 /\ lost = {}
  /\ token = [t \in Tokens |-> Blank]
  /\ answers = [t \in Tokens |-> 0]
  /\ session = [s \in Sessions |->
       [state |-> IF s \in mix.live THEN "live" ELSE "none", pw |-> 1]]
  /\ fresh = mix.live
  /\ granted = {} /\ carried = {} /\ overtaken = {}
  /\ totp = IF mix.secure THEN [secret |-> 1, on |-> TRUE] ELSE NoTotp
  /\ generated = IF mix.secure THEN 1 ELSE 0
  /\ confirmed = IF mix.secure THEN {1} ELSE {}
  /\ overlap = FALSE
  /\ set = [x \in Sets |-> "none"] /\ crossed = FALSE
  /\ passkey = IF mix.secure THEN "stored" ELSE "none"
  /\ count = 0 /\ signed = 0 /\ accepted = 0 /\ overrun = FALSE
  /\ pc = [r \in Requests |-> "idle"]
  /\ job = [r \in Requests |-> NoJob]

----------------------------------------------------------------------------
(* Registration and verification of the address                            *)

\* INSERT INTO users; a second registration is a conflict.
Register(r) ==
  /\ Begin(r, "mail", Input("register"))
  /\ account = "none"
  /\ account' = "pending"
  /\ UNCHANGED <<password, lost, store, signin, second, codes, keys>>

AcceptResend(r) ==
  /\ account = "pending"
  /\ Arrive(r, "mail", Input("resend"))

\* issue_verification; a failed insert is only logged (Fail)
IssueMail(r) ==
  /\ pc[r] = "mail"
  /\ \E t \in FreshTokens : Exists /\ Insert(t, "mail", 0, NoSet)
  /\ Goto(r, "idle")
  /\ UNCHANGED <<user, answers, signin, second, codes, keys>>

\* verify_email: the token is found and was not used
AcceptVerify(r) ==
  \E t \in Tokens :
    /\ Is(t, "mail") /\ token[t].state # "used"
    /\ Arrive(r, "consumemail", [Input("verify") EXCEPT !.token = t])

\* Mutant: the token is consumed and the user left unverified.
ConsumeMail_Only(r) ==
  /\ pc[r] = "consumemail"
  /\ token' = IF token[job[r].token].state # "lapsed" /\ account = "pending"
               THEN [token EXCEPT ![job[r].token].state = "used"] ELSE token
  /\ Goto(r, "idle")
  /\ UNCHANGED <<user, answers, signin, second, codes, keys>>

\* UPDATE email_verifications ... FROM users: unexpired, user unverified;
\* used_at itself is not a condition.
ConsumeMail(r) ==
  /\ pc[r] = "consumemail"
  /\ LET t == job[r].token IN
     IF token[t].state # "lapsed" /\ account = "pending"
       THEN token' = [token EXCEPT ![t].state = "used"] /\ Goto(r, "mark")
       ELSE UNCHANGED token /\ Goto(r, "idle")
  /\ UNCHANGED <<user, answers, signin, second, codes, keys>>

\* UPDATE users SET email_verified_at = now()
MarkVerified(r) ==
  /\ pc[r] = "mark"
  /\ account' = IF account = "pending" THEN "verified" ELSE account
  /\ Goto(r, "idle")
  /\ UNCHANGED <<password, lost, store, signin, second, codes, keys>>

----------------------------------------------------------------------------
(* Password sign-in, and what a password is asked for                      *)

\* Mutant: an unverified address may sign in.
AcceptLogin_Unverified(r) ==
  /\ Exists
  /\ \E p \in 1..password :
       Arrive(r, "verify", [Input("login") EXCEPT !.pw = p])

\* login: the user is found and verified (without, nothing is written)
AcceptLogin(r) ==
  /\ account = "verified"
  /\ \E p \in 1..password :
       Arrive(r, "verify", [Input("login") EXCEPT !.pw = p])

\* reauth, on the current session
AcceptReauth(r) ==
  \E s \in Sessions, p \in 1..password :
    /\ Live(s)
    /\ Arrive(r, "verify", [Input("reauth") EXCEPT !.self = s, !.pw = p])

\* change_password, on a reauthenticated session
AcceptChange(r) ==
  \E s \in fresh, p \in 1..password :
    /\ Live(s)
    /\ Arrive(r, "verify", [Input("change") EXCEPT !.self = s, !.pw = p])

\* The hash is read and the password given is verified against it.
VerifyPassword(r) ==
  /\ pc[r] = "verify"
  /\ Goto(r, IF ~Exists \/ job[r].pw # password THEN "idle"
             ELSE CASE job[r].kind = "login"  -> "factor"
                    [] job[r].kind = "reauth" -> "markreauth"
                    [] job[r].kind = "change" -> "tokens")
  /\ UNCHANGED data

\* totp::is_enabled
AskFactor(r) ==
  /\ pc[r] = "factor"
  /\ Goto(r, IF totp.on THEN "challenge" ELSE "session")
  /\ UNCHANGED data

\* create_login_challenge
IssueChallenge(r) ==
  /\ pc[r] = "challenge"
  /\ IF Exists THEN \E t \in FreshTokens : Insert(t, "mfa", job[r].pw, NoSet)
               ELSE UNCHANGED token
  /\ Goto(r, "idle")
  /\ UNCHANGED <<user, answers, signin, second, codes, keys>>

\* The password a sign-in rests on: the one given, now or for the login
\* challenge; other factors stand beside the current password.
Basis(r) ==
  CASE job[r].kind = "login" -> job[r].pw
    [] job[r].kind = "mfa"   -> token[job[r].token].pw
    [] OTHER                 -> password

\* create_session, the end of every sign-in
CreateSession(r) ==
  /\ pc[r] = "session"
  /\ \/ /\ Exists
        /\ \E s \in FreshSessions :
             /\ session' = [session EXCEPT ![s] = [state |-> "live", pw |-> Basis(r)]]
             /\ overtaken' = IF Basis(r) # password THEN overtaken \union {s} ELSE overtaken
        /\ answers' = IF job[r].token = NoToken THEN answers
                      ELSE [answers EXCEPT ![job[r].token] = @ + 1]
     \/ /\ ~Exists
        /\ UNCHANGED <<session, overtaken, answers>>
  /\ Goto(r, "idle")
  /\ UNCHANGED <<user, token, fresh, oauth, second, codes, keys>>

\* mark_reauth
MarkReauth(r) ==
  /\ pc[r] = "markreauth"
  /\ fresh' = IF Exists THEN fresh \union {job[r].self} ELSE fresh
  /\ Goto(r, "idle")
  /\ UNCHANGED <<user, store, session, oauth, overtaken, second, codes, keys>>

----------------------------------------------------------------------------
(* Sessions                                                                *)

AcceptLogout(r) ==
  \E s \in Sessions :
    /\ Live(s)
    /\ Arrive(r, "revoke", [Input("logout") EXCEPT !.self = s, !.target = s])

\* revoke_session of another session than the current one
AcceptEnd(r) ==
  \E s \in fresh, t \in Sessions :
    /\ Live(s) /\ Live(t) /\ t # s
    /\ Arrive(r, "revoke", [Input("end") EXCEPT !.self = s, !.target = t])

Revoke(r) ==
  /\ pc[r] = "revoke"
  /\ session' = [session EXCEPT ![job[r].target].state = "ended"]
  /\ Goto(r, "idle")
  /\ UNCHANGED <<user, store, fresh, oauth, overtaken, second, codes, keys>>

\* revoke_others
AcceptEndOthers(r) ==
  \E s \in fresh :
    /\ Live(s)
    /\ Arrive(r, "sweep", [Input("endothers") EXCEPT !.self = s])

Ended(S) == [s \in Sessions |->
  IF s \in S /\ Live(s) THEN [session[s] EXCEPT !.state = "ended"] ELSE session[s]]

\* Mutant: only the reauthenticated sessions are revoked.
SweepSessions_Fresh(r) ==
  /\ pc[r] = "sweep"
  /\ session' = Ended(fresh \ {job[r].self})
  /\ Goto(r, "idle")
  /\ UNCHANGED <<user, store, fresh, oauth, overtaken, second, codes, keys>>

\* revoke_all_user_sessions, but the current one after a password change
SweepSessions(r) ==
  /\ pc[r] = "sweep"
  /\ session' = Ended(Sessions \ {job[r].self})
  /\ Goto(r, "idle")
  /\ UNCHANGED <<user, store, fresh, oauth, overtaken, second, codes, keys>>

----------------------------------------------------------------------------
(* OAuth tokens: a code is issued to a session; its exchange and the       *)
(* refreshes after it look at neither session nor password.  Grants and    *)
(* RefreshTokens model the grants and the tokens themselves; an approved   *)
(* device code goes the way of an authorization code.                      *)

\* authorize or consent, on a session
AcceptAuthorize(r) ==
  \E s \in Sessions :
    /\ Live(s)
    /\ Arrive(r, "issue", [Input("authorize") EXCEPT !.self = s, !.pw = session[s].pw])

\* issue_auth_code.  The code is carried over a password that is being
\* replaced, or that was replaced while the session outlived it.
IssueCode(r) ==
  /\ pc[r] = "issue"
  /\ \/ \E t \in FreshTokens :
          /\ Exists
          /\ Insert(t, "authcode", job[r].pw, NoSet)
          /\ carried' = IF Replacing \/ job[r].pw # password
                          THEN carried \union {t} ELSE carried
     \/ ~Exists /\ UNCHANGED <<token, carried>>
  /\ Goto(r, "idle")
  /\ UNCHANGED <<user, answers, session, fresh, granted, overtaken, second, codes, keys>>

\* token_auth_code: the code is found unused and unexpired
AcceptExchange(r) ==
  \E t \in Tokens :
    /\ Is(t, "authcode") /\ Open(t)
    /\ Arrive(r, "consume", [Input("exchange") EXCEPT !.token = t])

\* token_refresh: a live refresh token of the code's family is presented, and
\* is_active_member finds the membership, which goes with the account.
AcceptRefresh(r) ==
  /\ Exists
  /\ \E t \in granted : Arrive(r, "rotate", [Input("refresh") EXCEPT !.token = t])

\* rotate_refresh_token, under the lock of the row presented
LockPresented(r) ==
  /\ pc[r] = "rotate"
  /\ Goto(r, IF job[r].token \in granted THEN "renew" ELSE "idle")
  /\ UNCHANGED data

\* What revoke_user_tokens missed in the meantime is carried.
Grant(r) ==
  /\ granted' = granted \union {job[r].token}
  /\ carried' = IF job[r].kind = "refresh" /\ job[r].token \notin granted
                  THEN carried \union {job[r].token} ELSE carried

\* COMMIT: the successor of the refresh token appears.
Rotate(r) ==
  /\ pc[r] = "renew"
  /\ Grant(r)
  /\ Goto(r, "mint")
  /\ UNCHANGED <<user, store, session, fresh, overtaken, second, codes, keys>>

\* mint_tokens; an exchange needs the user to load it, and the INSERTs that
\* follow do not.
MintTokens(r) ==
  /\ pc[r] = "mint"
  /\ \/ /\ Grant(r)
        /\ answers' = IF job[r].kind = "exchange"
                        THEN [answers EXCEPT ![job[r].token] = @ + 1] ELSE answers
     \/ /\ job[r].kind = "exchange" /\ ~Exists
        /\ UNCHANGED <<oauth, answers>>
  /\ Goto(r, "idle")
  /\ UNCHANGED <<user, token, session, fresh, overtaken, second, codes, keys>>

----------------------------------------------------------------------------
(* Reset and change of the password, erasure of the account                *)

\* forgot_password
AcceptForgot(r) ==
  /\ Exists
  /\ Arrive(r, "mailreset", Input("forgot"))

IssueReset(r) ==
  /\ pc[r] = "mailreset"
  /\ IF Exists THEN \E t \in FreshTokens : Insert(t, "reset", 0, NoSet)
               ELSE UNCHANGED token
  /\ Goto(r, "idle")
  /\ UNCHANGED <<user, answers, signin, second, codes, keys>>

\* reset_password: the token is found, unused and unexpired
AcceptReset(r) ==
  \E t \in Tokens :
    /\ Is(t, "reset") /\ Open(t)
    /\ Arrive(r, "tokens", [Input("reset") EXCEPT !.token = t])

\* delete_account; the owner of an organization is refused
AcceptErase(r) ==
  \E s \in fresh :
    /\ Live(s)
    /\ Arrive(r, "tokens", [Input("erase") EXCEPT !.self = s])

\* Mutant: the tokens of a reset or change are left alone.
RevokeTokens_Skipped(r) ==
  /\ pc[r] = "tokens"
  /\ Goto(r, CASE job[r].kind = "reset"  -> "consume"
               [] job[r].kind = "change" -> "write"
               [] job[r].kind = "erase"  -> "erase")
  /\ UNCHANGED data

\* revoke_user_tokens; codes that are still to be answered are not its matter
RevokeTokens(r) ==
  /\ pc[r] = "tokens"
  /\ granted' = {}
  /\ carried' = carried \union {t \in Tokens : Is(t, "authcode") /\ answers[t] = 0}
  /\ Goto(r, CASE job[r].kind = "reset"  -> "consume"
               [] job[r].kind = "change" -> "write"
               [] job[r].kind = "erase"  -> "erase")
  /\ UNCHANGED <<user, store, session, fresh, overtaken, second, codes, keys>>

\* The statement a consumed token leads to.
AfterConsume(r) ==
  CASE job[r].kind = "reset"  -> "write"
    [] job[r].kind \in {"mfa", "recover"} -> "session"
    [] job[r].kind = "newkey" -> "insert"
    [] job[r].kind = "usekey" -> "credential"
    [] job[r].kind = "exchange" -> "mint"

\* Mutant: the UPDATE has no condition on used_at.
ConsumeToken_Unguarded(r) ==
  /\ pc[r] = "consume"
  /\ LET t == job[r].token IN
       /\ token' = [token EXCEPT ![t].state = IF @ = "open" THEN "used" ELSE @]
       /\ Goto(r, IF token[t].state = "lapsed" THEN "idle" ELSE AfterConsume(r))
  /\ UNCHANGED <<user, answers, signin, second, codes, keys>>

\* The guarded UPDATE (DELETE for a passkey challenge): unused, unexpired
\* (but for an authorization code, which does not lapse once presented).
ConsumeToken(r) ==
  /\ pc[r] = "consume"
  /\ LET t == job[r].token IN
     IF Open(t) THEN token' = [token EXCEPT ![t].state = "used"] /\ Goto(r, AfterConsume(r))
                ELSE UNCHANGED token /\ Goto(r, "idle")
  /\ UNCHANGED <<user, answers, signin, second, codes, keys>>

\* UPDATE users SET password_hash; who changes it knows the new password
WritePassword(r) ==
  /\ pc[r] = "write"
  /\ IF ~Exists THEN UNCHANGED <<password, session, answers>>
     ELSE /\ password < MaxPassword
          /\ password' = password + 1
          /\ IF job[r].kind = "change"
               THEN /\ session' = [session EXCEPT ![job[r].self].pw = password + 1]
                    /\ UNCHANGED answers
               ELSE /\ answers' = [answers EXCEPT ![job[r].token] = @ + 1]
                    /\ UNCHANGED session
  /\ Goto(r, "sweep")
  /\ UNCHANGED <<account, lost, token, fresh, oauth, overtaken, second, codes, keys>>

\* DELETE FROM users and its cascades.  No foreign key leads from passkey
\* challenges and OAuth tokens to the user, and they stay.
EraseAccount(r) ==
  /\ pc[r] = "erase"
  /\ account' = "erased"
  /\ token' = [t \in Tokens |->
       IF Open(t) /\ ~Challenge(t) THEN [token[t] EXCEPT !.state = "lapsed"] ELSE token[t]]
  /\ session' = Ended(Sessions)
  /\ fresh' = {}
  /\ totp' = NoTotp
  /\ set' = [x \in Sets |-> IF set[x] = "active" THEN "invalid" ELSE set[x]]
  /\ passkey' = Removed
  /\ Goto(r, "idle")
  /\ UNCHANGED <<password, lost, answers, oauth, overtaken, generated, confirmed, overlap,
                 crossed, count, signed, accepted, overrun>>

----------------------------------------------------------------------------
(* TOTP second factor                                                      *)

\* setup_totp, on a reauthenticated session
AcceptSetup(r) ==
  \E s \in fresh :
    /\ Live(s)
    /\ Arrive(r, "status", [Input("setup") EXCEPT !.self = s])

\* Mutant: setup starts although the second factor is enabled.
CheckDisabled_Skipped(r) ==
  /\ pc[r] = "status"
  /\ Goto(r, "upsert")
  /\ UNCHANGED data

\* is_enabled: setup is refused while the second factor is on
CheckDisabled(r) ==
  /\ pc[r] = "status"
  /\ Goto(r, IF totp.on THEN "idle" ELSE "upsert")
  /\ UNCHANGED data

\* INSERT ... ON CONFLICT DO UPDATE: a fresh pending secret replaces
\* whatever is stored.
UpsertSecret(r) ==
  /\ pc[r] = "upsert"
  /\ IF ~Exists THEN UNCHANGED <<totp, generated>>
     ELSE /\ generated < MaxSecret
          /\ generated' = generated + 1
          /\ totp' = [secret |-> generated + 1, on |-> FALSE]
  /\ overlap' = (overlap \/ OthersAt(r, "confirm", "enable"))
  /\ Goto(r, "idle")
  /\ UNCHANGED <<user, store, signin, confirmed, codes, keys>>

\* verify_totp, on any live session, with a code of a secret shown before
AcceptConfirm(r) ==
  \E s \in Sessions, n \in 1..generated :
    /\ Live(s)
    /\ Arrive(r, "pending", [Input("confirm") EXCEPT !.self = s, !.num = n])

\* Mutant: the code is not checked.
ReadPending_AnyCode(r) ==
  /\ pc[r] = "pending"
  /\ Goto(r, IF totp.secret # 0 /\ ~totp.on THEN "enable" ELSE "idle")
  /\ UNCHANGED data

\* The pending secret is read and the code verified with it.
ReadPending(r) ==
  /\ pc[r] = "pending"
  /\ IF totp.secret = job[r].num /\ ~totp.on
       THEN Goto(r, "enable") /\ confirmed' = confirmed \union {job[r].num}
       ELSE Goto(r, "idle") /\ UNCHANGED confirmed
  /\ UNCHANGED <<user, store, signin, totp, generated, overlap, codes, keys>>

\* UPDATE ... WHERE user_id = $1 AND enabled_at IS NULL enables the secret
\* that is stored by now.
EnableTotp(r) ==
  /\ pc[r] = "enable"
  /\ totp' = [totp EXCEPT !.on = (totp.secret # 0)]
  /\ overlap' = (overlap \/ OthersAt(r, "setup", "upsert"))
  /\ Goto(r, "idle")
  /\ UNCHANGED <<user, store, signin, generated, confirmed, codes, keys>>

AcceptDisable(r) ==
  \E s \in fresh :
    /\ Live(s)
    /\ Arrive(r, "drop", [Input("disable") EXCEPT !.self = s])

DisableTotp(r) ==
  /\ pc[r] = "drop"
  /\ totp' = NoTotp /\ overlap' = FALSE
  /\ Goto(r, "idle")
  /\ UNCHANGED <<user, store, signin, generated, confirmed, codes, keys>>

\* mfa_login: the challenge is found live
AcceptMfa(r) ==
  \E t \in Tokens, n \in 1..generated :
    /\ Is(t, "mfa") /\ Open(t)
    /\ Arrive(r, "code", [Input("mfa") EXCEPT !.token = t, !.num = n])

\* verify_user_code: against the enabled secret; a wrong code leaves the
\* challenge as it is.
CheckCode(r) ==
  /\ pc[r] = "code"
  /\ Goto(r, IF totp.on /\ totp.secret = job[r].num THEN "consume" ELSE "idle")
  /\ UNCHANGED data

----------------------------------------------------------------------------
(* Recovery codes                                                          *)

AcceptGenerate(r) ==
  \E s \in fresh :
    /\ Live(s)
    /\ Arrive(r, "invalidate", [Input("generate") EXCEPT !.self = s])

\* Mutant: the older sets are not invalidated.
InvalidateSets_None(r) ==
  /\ pc[r] = "invalidate"
  /\ crossed' = (crossed /\ OthersAt(r, "generate", "newset"))
  /\ Goto(r, "newset")
  /\ UNCHANGED <<user, store, signin, second, set, keys>>

\* UPDATE recovery_code_sets SET invalidated_at = now()
InvalidateSets(r) ==
  /\ pc[r] = "invalidate"
  /\ set' = [x \in Sets |-> IF set[x] = "active" THEN "invalid" ELSE set[x]]
  /\ crossed' = (crossed /\ OthersAt(r, "generate", "newset"))
  /\ Goto(r, "newset")
  /\ UNCHANGED <<user, store, signin, second, keys>>

\* INSERT INTO recovery_code_sets; the request goes on with this set
InsertSet(r) ==
  /\ pc[r] = "newset"
  /\ \/ /\ ~Exists
        /\ Goto(r, "idle")
        /\ UNCHANGED set
     \/ \E x \in Sets :
          /\ Exists /\ set[x] = "none"
          /\ set' = [set EXCEPT ![x] = "active"]
          /\ pc' = [pc EXCEPT ![r] = "newcode"]
          /\ job' = [job EXCEPT ![r].num = x]
          /\ UNCHANGED mix
  /\ crossed' = (crossed \/ OthersAt(r, "generate", "newset"))
  /\ UNCHANGED <<user, store, signin, second, keys>>

\* INSERT INTO recovery_codes, once for each code of the set
InsertCode(r) ==
  /\ pc[r] = "newcode"
  /\ IF ~Exists \/ Cardinality(SetCodes(job[r].num)) = CodesPerSet
       THEN Goto(r, "idle") /\ UNCHANGED token
       ELSE /\ \E t \in FreshTokens : Insert(t, "code", 0, job[r].num)
            /\ UNCHANGED <<mix, pc, job>>
  /\ UNCHANGED <<user, answers, signin, second, codes, keys>>

\* recovery_login: the user is found and verified
AcceptRecover(r) ==
  \E t \in Tokens :
    /\ account = "verified" /\ Is(t, "code")
    /\ Arrive(r, "list", [Input("recover") EXCEPT !.token = t])

\* The code is among the unused ones of a set that is not invalidated; the
\* UPDATE that consumes it looks at the code alone.
ListCodes(r) ==
  /\ pc[r] = "list"
  /\ Goto(r, IF Open(job[r].token) /\ set[token[job[r].token].set] = "active"
             THEN "consume" ELSE "idle")
  /\ UNCHANGED data

----------------------------------------------------------------------------
(* The passkey                                                             *)

\* register_start on a session, auth_start by anyone
AcceptChallenge(r) ==
  \/ \E s \in Sessions :
       Live(s) /\ Arrive(r, "start", [Input("addkey") EXCEPT !.self = s])
  \/ Arrive(r, "start", Input("askkey"))

\* store_challenge, with the user for a registration, of which the column is
\* no foreign key: the user need not be there any more.
StoreChallenge(r) ==
  /\ pc[r] = "start"
  /\ \E t \in FreshTokens :
       Insert(t, IF job[r].kind = "askkey" THEN "usekey" ELSE "addkey", 0, NoSet)
  /\ Goto(r, "idle")
  /\ UNCHANGED <<user, answers, signin, second, codes, keys>>

\* register_finish, with the counter of the attestation
AcceptNewKey(r) ==
  \E s \in Sessions, t \in Tokens :
    /\ Live(s) /\ Is(t, "addkey")
    /\ Arrive(r, "consume", [Input("newkey") EXCEPT !.self = s, !.token = t,
                                                          !.num = signed])

\* INSERT INTO passkeys; credential_id is unique
InsertKey(r) ==
  /\ pc[r] = "insert"
  /\ IF Exists /\ passkey = "none"
       THEN /\ passkey' = "stored"
            /\ count' = job[r].num
            /\ answers' = [answers EXCEPT ![job[r].token] = @ + 1]
       ELSE UNCHANGED <<passkey, count, answers>>
  /\ Goto(r, "idle")
  /\ UNCHANGED <<user, token, signin, second, codes, signed, accepted, overrun>>

\* auth_finish: the authenticator has signed a challenge with its counter
AcceptUseKey(r) ==
  /\ \E t \in Tokens :
       /\ Is(t, "usekey") /\ Open(t)
       /\ signed < MaxCount
       /\ signed' = IF mix.counts THEN signed + 1 ELSE 0
       /\ Begin(r, "consume", [Input("usekey") EXCEPT !.token = t, !.num = signed'])
  /\ UNCHANGED <<user, store, signin, second, codes, passkey, count, accepted, overrun>>

\* Mutant: the counter is not compared with the stored one.
ReadCredential_AnyCounter(r) ==
  /\ pc[r] = "credential"
  /\ Goto(r, IF passkey = "stored" /\ account = "verified" THEN "bump" ELSE "idle")
  /\ UNCHANGED data

\* The credential is read: its owner verified, the signature and counter
\* checked; a counter of zero means that there is none.
ReadCredential(r) ==
  /\ pc[r] = "credential"
  /\ Goto(r, IF /\ passkey = "stored" /\ account = "verified"
                /\ job[r].num = 0 \/ job[r].num > count
             THEN "bump" ELSE "idle")
  /\ UNCHANGED data

\* Mutant: stores the counter it expects next.
WriteCounter_Next(r) ==
  /\ pc[r] = "bump"
  /\ IF passkey = "stored" THEN count' = job[r].num + 1 ELSE UNCHANGED count
  /\ accepted' = IF job[r].num > accepted THEN job[r].num ELSE accepted
  /\ Goto(r, "session")
  /\ UNCHANGED <<user, store, signin, second, codes, passkey, signed, overrun>>

\* UPDATE passkeys SET sign_count = $1 WHERE id = $2
WriteCounter(r) ==
  /\ pc[r] = "bump"
  /\ IF passkey = "stored" THEN count' = job[r].num ELSE UNCHANGED count
  /\ accepted' = IF job[r].num > accepted THEN job[r].num ELSE accepted
  /\ overrun' = (OthersAt(r, "usekey", "bump") \/ (overrun /\ job[r].num < accepted))
  /\ Goto(r, "session")
  /\ UNCHANGED <<user, store, signin, second, codes, passkey, signed>>

AcceptDropKey(r) ==
  \E s \in fresh :
    /\ Live(s)
    /\ Arrive(r, "unkey", [Input("dropkey") EXCEPT !.self = s])

DeleteKey(r) ==
  /\ pc[r] = "unkey"
  /\ passkey' = Removed
  /\ Goto(r, "idle")
  /\ UNCHANGED <<user, store, signin, second, codes, count, signed, accepted, overrun>>

----------------------------------------------------------------------------
(* Time and failures                                                       *)

\* expires_at of a token; recovery codes have none, and an authorization
\* code that is past it is one that is never presented.
LapseToken(t) ==
  /\ Open(t) /\ ~Is(t, "code") /\ ~Is(t, "authcode")
  /\ token' = [token EXCEPT ![t].state = "lapsed"]
  /\ UNCHANGED <<mix, user, answers, signin, second, codes, keys, pc, job>>

\* the reauthentication window of a session
LapseReauth(s) ==
  /\ s \in fresh
  /\ fresh' = fresh \ {s}
  /\ UNCHANGED <<mix, user, store, session, oauth, overtaken, second, codes, keys, pc, job>>

\* A request is dropped between two statements; a replacement of the
\* password that stops before the sessions are revoked leaves them.
Fail(r) ==
  /\ pc[r] # "idle"
  /\ lost' = IF pc[r] = "mark" THEN lost \union {job[r].token} ELSE lost
  /\ overtaken' = IF pc[r] = "sweep" /\ job[r].kind # "endothers" THEN 
                    overtaken \union {s \in Sessions : Live(s)} ELSE overtaken
  /\ Goto(r, "idle")
  /\ UNCHANGED <<account, password, store, session, fresh, oauth, second, codes, keys>>

----------------------------------------------------------------------------

Accept(r) ==
  \/ Register(r) \/ AcceptResend(r) \/ AcceptVerify(r)
  \/ AcceptLogin(r) \/ AcceptReauth(r) \/ AcceptChange(r)
  \/ AcceptLogout(r) \/ AcceptEnd(r) \/ AcceptEndOthers(r)
  \/ AcceptForgot(r) \/ AcceptReset(r) \/ AcceptErase(r)
  \/ AcceptAuthorize(r) \/ AcceptExchange(r) \/ AcceptRefresh(r)
  \/ AcceptSetup(r) \/ AcceptConfirm(r) \/ AcceptDisable(r) \/ AcceptMfa(r)
  \/ AcceptGenerate(r) \/ AcceptRecover(r)
  \/ AcceptChallenge(r) \/ AcceptNewKey(r) \/ AcceptUseKey(r) \/ AcceptDropKey(r)

Serve(r) ==
  \/ IssueMail(r) \/ ConsumeMail(r) \/ MarkVerified(r)
  \/ VerifyPassword(r) \/ AskFactor(r) \/ IssueChallenge(r)
  \/ CreateSession(r) \/ MarkReauth(r) \/ Revoke(r) \/ SweepSessions(r)
  \/ IssueReset(r) \/ RevokeTokens(r) \/ ConsumeToken(r) \/ WritePassword(r)
  \/ EraseAccount(r)
  \/ IssueCode(r) \/ LockPresented(r) \/ Rotate(r) \/ MintTokens(r)
  \/ CheckDisabled(r) \/ UpsertSecret(r) \/ ReadPending(r) \/ EnableTotp(r)
  \/ DisableTotp(r) \/ CheckCode(r)
  \/ InvalidateSets(r) \/ InsertSet(r) \/ InsertCode(r) \/ ListCodes(r)
  \/ StoreChallenge(r) \/ InsertKey(r) \/ ReadCredential(r) \/ WriteCounter(r)
  \/ DeleteKey(r)

Next ==
  \/ \E r \in Requests : Accept(r) \/ Serve(r) \/ Fail(r)
  \/ \E s \in Sessions : LapseReauth(s)
  \/ \E t \in Tokens : LapseToken(t)

Spec == Init /\ [][Next]_vars

----------------------------------------------------------------------------
(* Properties                                                              *)

\* Every variable has its type.
TypeOK ==
  /\ mix \in Mixes
  /\ account \in {"none", "pending", "verified", "erased"}
  /\ password \in 1..MaxPassword /\ lost \subseteq Tokens
  /\ token \in [Tokens -> Row]
  /\ answers \in [Tokens -> 0..MaxAnswers]
  /\ session \in [Sessions -> Session]
  /\ fresh \subseteq Sessions /\ overtaken \subseteq Sessions
  /\ granted \subseteq Tokens /\ carried \subseteq Tokens
  /\ totp \in [secret : 0..generated, on : BOOLEAN]
  /\ generated \in 0..MaxSecret /\ confirmed \subseteq 1..generated
  /\ overlap \in BOOLEAN /\ crossed \in BOOLEAN /\ overrun \in BOOLEAN
  /\ set \in [Sets -> {"none", "active", "invalid"}]
  /\ passkey \in {"none", "stored", "deleted"}
  /\ count \in 0..signed /\ accepted \in 0..signed /\ signed \in 0..MaxCount
  /\ pc \in [Requests -> Stages]
  /\ \A r \in Requests : IF pc[r] = "idle" THEN job[r] = NoJob ELSE job[r] \in Job

\* threat-model.md S1: once a reset or change of the password has revoked
\* the sessions, none is live that rests on an earlier password, but one
\* whose sign-in (or login challenge) was already past its password check,
\* or that was spared by a request that stopped in between.
StaleSessionsEnd ==
  \A s \in Sessions :
    Live(s) => \/ session[s].pw = password
               \/ s \in overtaken
               \/ \E r \in Requests : pc[r] = "sweep" /\ job[r].kind # "endothers"

\* The OAuth tokens that are live after a reset or change of the password
\* were obtained under the current one, but those that revoke_user_tokens
\* could not reach: of a code that was issued and not yet answered, of a
\* rotation or refresh then under way, and of a code issued while the
\* password was being replaced, or to a session that outlived it (which
\* StaleSessionsEnd bounds).
TokensEndWithPassword ==
  \A t \in granted : token[t].pw = password \/ t \in carried

\* Reset tokens, login challenges, recovery codes, passkey challenges and
\* authorization codes: however many requests present one, it has its effect
\* once.
OneTime == {t \in Tokens : token[t].use \notin {"none", "mail"}}
Secrets == INSTANCE OneTimeTokens
             WITH Ids <- Tokens, open <- {t \in OneTime : Open(t)},
                  spent <- {t \in OneTime : token[t].state = "used"}
ImplementsOneTime == Secrets!Spec

\* verify_email consumes its token and then marks the address: the token of
\* an unverified account is used only while, or because, a request is
\* between the two or was lost there.
UsedMailVerifies ==
  \A t \in Tokens :
    Is(t, "mail") /\ token[t].state = "used" /\ account = "pending"
      => t \in lost \/ \E r \in Requests : pc[r] = "mark" /\ job[r].token = t

\* Nobody is signed in to an account that is unverified or erased, and an
\* erased account leaves no factor behind and no secret that can be
\* presented, however the requests on it interleave with its erasure.  Its
\* passkey challenges stay; a session or a passkey is needed to use one.
RowsNeedTheAccount ==
  /\ (\E s \in Sessions : Live(s)) => account = "verified"
  /\ ~Exists => /\ totp = NoTotp /\ passkey # "stored"
                /\ \A x \in Sets : set[x] # "active"
                /\ \A t \in Tokens : Open(t) => Challenge(t)

\* An enabled second factor is one whose code the user has given, unless
\* setup replaced the secret while it was being confirmed.
EnabledWasConfirmed == totp.on => totp.secret \in confirmed \/ overlap

\* The second factor goes only by being disabled or with the account,
\* unless setup and confirmation overlapped.
SecondFactorStays ==
  [][totp.on /\ ~totp'.on
       => \/ \E r \in Requests : pc[r] \in {"drop", "erase"} /\ pc'[r] = "idle"
          \/ overlap]_vars

\* One set of recovery codes is active, unless two generations overlapped
\* (until the next one).
OneActiveSet == Cardinality({x \in Sets : set[x] = "active"}) <= 1 \/ crossed

\* The stored signature counter keeps up with the highest one accepted,
\* unless sign-ins with the passkey overlapped and the older came last.
CounterKeepsUp == passkey = "stored" => count >= accepted \/ overrun
=============================================================================
