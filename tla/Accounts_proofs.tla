--------------------------- MODULE Accounts_proofs ---------------------------
(***************************************************************************)
(* Proofs about Accounts, for any sessions, tokens, codes and concurrent   *)
(* requests, and any mix of what an account starts with.                   *)
(*                                                                         *)
(* Each part of the invariant relates what the requests under way have     *)
(* read to what is stored by now: a request past the consumption of a      *)
(* token is alone with it, one that has revoked the OAuth tokens finds     *)
(* only carried ones, of the requests that have written a password the     *)
(* last one is still to end the other sessions, and of an account that is  *)
(* not there nothing is left but its challenges.                           *)
(***************************************************************************)
EXTENDS Accounts, FiniteSetTheorems, TLAPS

\* The types, with answers that have no bound yet.
Types ==
  /\ mix \in Mixes
  /\ account \in {"none", "pending", "verified", "erased"}
  /\ password \in 1..MaxPassword /\ lost \subseteq Tokens
  /\ token \in [Tokens -> Row]
  /\ answers \in [Tokens -> Nat]
  /\ session \in [Sessions -> Session]
  /\ fresh \subseteq Sessions /\ overtaken \subseteq Sessions
  /\ granted \subseteq Tokens /\ carried \subseteq Tokens
  /\ totp \in [secret : 0..generated, on : BOOLEAN]
  /\ generated \in 0..MaxSecret /\ confirmed \subseteq 1..generated
  /\ overlap \in BOOLEAN /\ crossed \in BOOLEAN /\ overrun \in BOOLEAN
  /\ set \in [Sets -> {"none", "active", "invalid"}]
  /\ passkey \in {"none", "stored", "deleted"}
  /\ count \in 0..signed /\ accepted \in 0..signed /\ signed \in 0..MaxCount
  /\ pc \in [Requests -> Stages]
  /\ job \in [Requests -> Job \union {NoJob}]

\* The requests that present a token, and what it is for.
Presenting == {"verify", "reset", "mfa", "recover", "newkey", "usekey", "exchange", "refresh"}
UseOf(k) ==
  CASE k = "verify"  -> "mail"
    [] k = "reset"   -> "reset"
    [] k = "mfa"     -> "mfa"
    [] k = "recover" -> "code"
    [] k = "newkey"  -> "addkey"
    [] k = "usekey"  -> "usekey"
    [] k \in {"exchange", "refresh"} -> "authcode"

\* The kinds of request that have a stage.
Staged(stage, k) ==
  /\ stage = "mail" => k \in {"register", "resend"}
  /\ stage \in {"consumemail", "mark"} => k = "verify"
  /\ stage = "verify" => k \in {"login", "reauth", "change"}
  /\ stage \in {"factor", "challenge"} => k = "login"
  /\ stage = "session" => k \in {"login", "mfa", "recover", "usekey"}
  /\ stage = "revoke" => k \in {"logout", "end"}
  /\ stage = "sweep" => k \in {"endothers", "reset", "change"}
  /\ stage = "mailreset" => k = "forgot"
  /\ stage = "tokens" => k \in {"reset", "change", "erase"}
  /\ stage = "consume" => k \in {"reset", "mfa", "recover", "newkey", "usekey", "exchange"}
  /\ stage = "write" => k \in {"reset", "change"}
  /\ stage = "markreauth" => k = "reauth"
  /\ stage = "erase" => k = "erase"
  /\ stage \in {"status", "upsert"} => k = "setup"
  /\ stage \in {"pending", "enable"} => k = "confirm"
  /\ stage = "drop" => k = "disable"
  /\ stage = "code" => k = "mfa"
  /\ stage \in {"invalidate", "newset", "newcode"} => k = "generate"
  /\ stage = "list" => k = "recover"
  /\ stage = "start" => k \in {"addkey", "askkey"}
  /\ stage = "insert" => k = "newkey"
  /\ stage \in {"credential", "bump"} => k = "usekey"
  /\ stage = "unkey" => k = "dropkey"
  /\ stage = "issue" => k = "authorize"
  /\ stage = "mint" => k \in {"exchange", "refresh"}
  /\ stage \in {"rotate", "renew"} => k = "refresh"

\* What a request carries.
Fits(r) ==
  IF pc[r] = "idle" THEN job[r] = NoJob
  ELSE
    /\ job[r] \in Job /\ Staged(pc[r], job[r].kind)
    /\ job[r].kind \in Presenting =>
         job[r].token \in Tokens /\ Is(job[r].token, UseOf(job[r].kind))
    /\ job[r].kind \notin Presenting => job[r].token = NoToken
    /\ job[r].kind \in {"reauth", "change", "endothers"} => job[r].self \in Sessions
    /\ job[r].kind = "reset" => job[r].self = NoSession
    /\ job[r].kind \in {"logout", "end"} => job[r].target \in Sessions
    /\ job[r].kind \in {"confirm", "mfa"} => job[r].num \in 1..generated
    /\ job[r].kind \in {"newkey", "usekey"} => job[r].num \in 0..signed
    /\ job[r].kind = "usekey" /\ job[r].num = 0 => ~mix.counts
    /\ pc[r] = "newcode" => job[r].num \in Sets

Jobs == \A r \in Requests : Fits(r)

\* The request has consumed its token, whose effect is still to come.
Holds(r) ==
  /\ pc[r] \in {"write", "session", "insert", "credential", "bump", "mint"}
  /\ job[r].token # NoToken /\ job[r].kind # "refresh"

Blankness == \A t \in Tokens : Is(t, "none") <=> token[t].state = "none"
TokenInv ==
  /\ Blankness
  /\ \A t \in Tokens : answers[t] = 0 \/ (answers[t] = 1 /\ token[t].state = "used")
  /\ \A r \in Requests : Holds(r) =>
       /\ token[job[r].token].state = "used" /\ answers[job[r].token] = 0
       /\ \A q \in Requests : Holds(q) /\ job[q].token = job[r].token => q = r

\* What there may be before the address is verified.
Early(r) ==
  \/ pc[r] = "idle"
  \/ job[r].kind \in {"register", "resend", "verify", "forgot", "reset", "askkey"}
  \/ job[r].kind = "usekey" /\ pc[r] \in {"consume", "credential"}
Unsettled == account \in {"none", "pending"}
NoFactors == totp = NoTotp /\ passkey # "stored" /\ \A x \in Sets : set[x] # "active"

AccountInv ==
  /\ Unsettled =>
       /\ \A s \in Sessions : session[s].state = "none"
       /\ fresh = {} /\ NoFactors /\ passkey = "none"
       /\ \A t \in Tokens : Is(t, "none") \/ Is(t, "usekey")
                              \/ (account = "pending" /\ (Is(t, "mail") \/ Is(t, "reset")))
       /\ \A r \in Requests : Early(r)
  /\ account = "erased" =>
       /\ \A s \in Sessions : ~Live(s)
       /\ NoFactors
       /\ \A t \in Tokens : Open(t) => Challenge(t)

\* A session that rests on the current password or is known to be late.
Rests(s) == session[s].pw = password \/ s \in overtaken

\* The request is replacing the password and has revoked the OAuth tokens.
Late(r) == pc[r] = "write" \/ (pc[r] = "consume" /\ job[r].kind = "reset")

\* The last request to write a password has yet to end the other sessions.
Sweeps(w) ==
  /\ pc[w] = "sweep" /\ job[w].kind # "endothers"
  /\ job[w].self \in Sessions => Rests(job[w].self)
PasswordInv ==
  \/ \A s \in Sessions : Live(s) => Rests(s)
  \/ \E w \in Requests : Sweeps(w)

\* The codes still to be answered rest on the current password or are known
\* to be carried, like the codes whose tokens are live.
Unanswered == {t \in Tokens : Is(t, "authcode") /\ answers[t] = 0}
OauthInv ==
  /\ TokensEndWithPassword
  /\ \A t \in Unanswered : token[t].pw = password \/ t \in carried
  /\ \A t \in granted : Is(t, "authcode")
  /\ \A r \in Requests : Late(r) => granted \subseteq carried /\ Unanswered \subseteq carried

FactorInv ==
  /\ totp.on => totp.secret # 0 /\ (totp.secret \in confirmed \/ overlap)
  /\ \A r \in Requests : pc[r] = "enable" =>
       totp.secret = 0 \/ totp.secret \in confirmed \/ overlap
  /\ \A r \in Requests : pc[r] = "upsert" => ~totp.on \/ overlap

ActiveSets == {x \in Sets : set[x] = "active"}
SetInv ==
  crossed \/ /\ \A x, y \in ActiveSets : x = y
             /\ (\E r \in Requests : pc[r] = "newset") => ActiveSets = {}

KeyInv ==
  /\ ~mix.counts => signed = 0
  /\ CounterKeepsUp
  /\ passkey = "none" => accepted = 0 /\ \A r \in Requests : pc[r] # "bump"
  /\ \A r \in Requests : pc[r] = "bump" =>
       passkey = "deleted" \/ overrun \/ job[r].num = 0 \/ job[r].num > count

IInv ==
  /\ Types /\ Jobs /\ TokenInv /\ UsedMailVerifies /\ AccountInv
  /\ PasswordInv /\ OauthInv /\ FactorInv /\ SetInv /\ KeyInv

----------------------------------------------------------------------------

LEMMA InitIInv ==
  ASSUME Init
  PROVE  IInv
<1>0. /\ mix \in Mix /\ (~mix.exists => mix.live = {} /\ ~mix.secure)
      /\ mix.live \subseteq Sessions /\ mix.counts \in BOOLEAN /\ mix.secure \in BOOLEAN
      /\ mix.exists \in BOOLEAN
  BY MixAssumption DEF MixAssumption, Init, Mix
<1>1. Types
  <2>1. token \in [Tokens -> Row]
    BY AccountAssumption DEF AccountAssumption, Init, Row, Blank, States, Uses
  <2>2. session \in [Sessions -> Session]
    BY AccountAssumption DEF AccountAssumption, Init, Session
  <2>3. /\ totp \in [secret : 0..generated, on : BOOLEAN]
        /\ generated \in 0..MaxSecret /\ confirmed \subseteq 1..generated
    BY AccountAssumption, <1>0 DEF AccountAssumption, Init, NoTotp
  <2>4. /\ password \in 1..MaxPassword /\ lost \subseteq Tokens
        /\ answers \in [Tokens -> Nat] /\ account \in {"none", "pending", "verified", "erased"}
        /\ count \in 0..signed /\ accepted \in 0..signed /\ signed \in 0..MaxCount
    BY AccountAssumption DEF AccountAssumption, Init
  <2>5. /\ pc \in [Requests -> Stages] /\ job \in [Requests -> Job \union {NoJob}]
        /\ set \in [Sets -> {"none", "active", "invalid"}]
        /\ passkey \in {"none", "stored", "deleted"}
    BY DEF Init, Stages
  <2>6. mix \in Mixes /\ fresh \subseteq Sessions /\ overtaken \subseteq Sessions
        /\ granted \subseteq Tokens /\ carried \subseteq Tokens
        /\ overlap \in BOOLEAN /\ crossed \in BOOLEAN /\ overrun \in BOOLEAN
    BY <1>0 DEF Init
  <2> QED BY <2>1, <2>2, <2>3, <2>4, <2>5, <2>6 DEF Types
<1>2. Jobs /\ TokenInv /\ UsedMailVerifies
  BY DEF Init, Jobs, Fits, TokenInv, Blankness, Blank, Is, Holds, UsedMailVerifies
<1>3. AccountInv
  BY <1>0 DEF Init, AccountInv, Unsettled, NoFactors, Early, Live, Is, Open, Blank
<1>4. PasswordInv /\ OauthInv
  BY DEF Init, PasswordInv, Rests, Live, OauthInv, TokensEndWithPassword, Unanswered, Is,
         Blank, Late
<1>5. FactorInv
  BY DEF Init, FactorInv, NoTotp
<1>6. SetInv /\ KeyInv
  BY DEF Init, SetInv, ActiveSets, KeyInv, CounterKeepsUp
<1> QED BY <1>1, <1>2, <1>3, <1>4, <1>5, <1>6 DEF IInv

----------------------------------------------------------------------------
(* Steps of a request                                                      *)

\* The uses of tokens are for good; secrets and counters only grow.
Monotone ==
  /\ \A t \in Tokens : Is(t, "none") \/ token'[t].use = token[t].use
  /\ generated <= generated' /\ signed <= signed' /\ UNCHANGED mix
  /\ generated' \in Nat /\ signed' \in Nat

\* What a step of request r keeps of each part of the invariant, if it leaves
\* the data of that part alone.
LEMMA Frame ==
  ASSUME IInv, NEW r \in Requests, NEW to \in Stages, NEW j \in Job \union {NoJob},
         UNCHANGED mix,
         pc' = [pc EXCEPT ![r] = to], job' = [job EXCEPT ![r] = j]
  PROVE  /\ mix' \in Mixes
         /\ pc' \in [Requests -> Stages] /\ job' \in [Requests -> Job \union {NoJob}]
         /\ Monotone /\ Fits(r)' => Jobs'
         /\ UNCHANGED <<token, answers>>
              /\ (Holds(r)' => Holds(r) /\ j.token = job[r].token) => TokenInv'
         /\ UNCHANGED <<account, token, lost>> /\ pc[r] # "mark" => UsedMailVerifies'
         /\ UNCHANGED <<account, token, session, fresh, totp, passkey, set>>
              /\ (Unsettled => Early(r)') => AccountInv'
         /\ UNCHANGED <<password, session, overtaken>> /\ pc[r] # "sweep" => PasswordInv'
         /\ UNCHANGED <<password, token, answers, granted, carried>>
              /\ (Late(r)' => Late(r)) => OauthInv'
         /\ UNCHANGED <<totp, confirmed, overlap>> /\ to \notin {"enable", "upsert"}
              => FactorInv'
         /\ UNCHANGED <<set, crossed>> /\ to # "newset" => SetInv'
         /\ UNCHANGED <<passkey, count, signed, accepted, overrun>> /\ to # "bump"
              => KeyInv'
<1> USE DEF IInv
<1>1. /\ mix' \in Mixes
      /\ pc' \in [Requests -> Stages] /\ job' \in [Requests -> Job \union {NoJob}]
  BY DEF Types
<1>2. /\ pc'[r] = to /\ job'[r] = j
      /\ \A q \in Requests \ {r} : pc'[q] = pc[q] /\ job'[q] = job[q]
  BY DEF Types
<1>3. Monotone /\ Fits(r)' => Jobs'
  <2> SUFFICES ASSUME Monotone, NEW q \in Requests \ {r}
               PROVE  Fits(q)'
    BY DEF Jobs
  <2>1. Fits(q) /\ pc'[q] = pc[q] /\ job'[q] = job[q]
    BY <1>2 DEF Jobs
  <2>2. CASE pc[q] = "idle"
    BY <2>1, <2>2 DEF Fits
  <2>3. CASE pc[q] # "idle"
    <3>1. job[q].kind \in Presenting =>
            job[q].token \in Tokens /\ Is(job[q].token, UseOf(job[q].kind))'
      BY <2>1, <2>3 DEF Fits, Monotone, Is, UseOf, Presenting
    <3>2. /\ job[q].kind \in {"confirm", "mfa"} => job[q].num \in 1..generated'
          /\ job[q].kind \in {"newkey", "usekey"} => job[q].num \in 0..signed'
      BY <2>1, <2>3 DEF Fits, Monotone, Types
    <3>3. job[q].kind = "usekey" /\ job[q].num = 0 => ~mix'.counts
      BY <2>1, <2>3 DEF Fits, Monotone
    <3> QED BY <2>1, <2>3, <3>1, <3>2, <3>3 DEF Fits
  <2> QED BY <2>2, <2>3
<1>4. UNCHANGED <<token, answers>>
        /\ (Holds(r)' => Holds(r) /\ j.token = job[r].token) => TokenInv'
  BY <1>2 DEF TokenInv, Blankness, Is, Holds
<1>5. UNCHANGED <<account, token, lost>> /\ pc[r] # "mark" => UsedMailVerifies'
  BY <1>2 DEF UsedMailVerifies, Is
<1>6. UNCHANGED <<account, token, session, fresh, totp, passkey, set>>
        /\ (Unsettled => Early(r)') => AccountInv'
  BY <1>2 DEF AccountInv, Unsettled, NoFactors, Early, Live, Is, Open, Challenge
<1>7. UNCHANGED <<password, session, overtaken>> /\ pc[r] # "sweep" => PasswordInv'
  BY <1>2 DEF PasswordInv, Rests, Live, Sweeps
<1>11. UNCHANGED <<password, token, answers, granted, carried>>
         /\ (Late(r)' => Late(r)) => OauthInv'
  BY <1>2 DEF OauthInv, TokensEndWithPassword, Unanswered, Is, Late
<1>8. UNCHANGED <<totp, confirmed, overlap>> /\ to \notin {"enable", "upsert"} => FactorInv'
  BY <1>2 DEF FactorInv
<1>9. UNCHANGED <<set, crossed>> /\ to # "newset" => SetInv'
  BY <1>2 DEF SetInv, ActiveSets
<1>10. UNCHANGED <<passkey, count, signed, accepted, overrun>> /\ to # "bump" => KeyInv'
  BY <1>2 DEF KeyInv, CounterKeepsUp
<1> QED BY <1>1, <1>3, <1>4, <1>5, <1>6, <1>7, <1>8, <1>9, <1>10, <1>11

\* A step that writes tokens, but no code and no password.
LEMMA OauthFrame ==
  ASSUME IInv, UNCHANGED <<password, granted, carried>>,
         \A t \in Tokens : Is(t, "authcode")' <=> Is(t, "authcode"),
         \A t \in Tokens : Is(t, "authcode") => token'[t].pw = token[t].pw,
         \A t \in Tokens : answers'[t] = 0 => answers[t] = 0,
         \A r \in Requests : Late(r)' => Late(r)
  PROVE  OauthInv'
BY DEF IInv, Types, OauthInv, TokensEndWithPassword, Unanswered

\* A request moves on, or is answered, without a write.
LEMMA MoveIInv ==
  ASSUME IInv, NEW r \in Requests, NEW to \in Stages, NEW j \in Job \union {NoJob},
         UNCHANGED <<mix, data>>, pc[r] \notin {"mark", "sweep"},
         pc' = [pc EXCEPT ![r] = to], job' = [job EXCEPT ![r] = j],
         to \notin {"enable", "upsert", "newset", "bump"},
         Holds(r)' => Holds(r) /\ j.token = job[r].token,
         Late(r)' => Late(r),
         Unsettled => Early(r)',
         Fits(r)'
  PROVE  IInv'
<1>0. UNCHANGED <<account, password, lost, token, answers, session, fresh, granted, carried,
                  overtaken, totp, generated, confirmed, overlap, set, crossed,
                  passkey, count, signed, accepted, overrun>>
  BY DEF data, user, store, signin, oauth, second, codes, keys
<1>1. Types'
  BY <1>0, Frame DEF IInv, Types
<1>2. Jobs'
  <2>1. Monotone
    BY <1>0 DEF Monotone, IInv, Types
  <2> QED BY <2>1, Frame
<1>3. TokenInv' /\ UsedMailVerifies'
  BY <1>0, Frame
<1>4. AccountInv' /\ PasswordInv' /\ OauthInv'
  BY <1>0, Frame
<1>5. FactorInv' /\ SetInv' /\ KeyInv'
  BY <1>0, Frame
<1> QED BY <1>1, <1>2, <1>3, <1>4, <1>5 DEF IInv

\* What a step to another stage, or to the answer, does to the request itself.
LEMMA GotoStep ==
  ASSUME IInv, NEW r \in Requests, pc[r] # "idle", NEW to \in Stages, Goto(r, to)
  PROVE  LET j == IF to = "idle" THEN NoJob ELSE job[r] IN
         /\ j \in Job \union {NoJob} /\ UNCHANGED mix
         /\ pc' = [pc EXCEPT ![r] = to] /\ job' = [job EXCEPT ![r] = j]
         /\ pc'[r] = to /\ job'[r] = j
         /\ to = "idle" => Fits(r)' /\ ~Holds(r)' /\ ~Late(r)' /\ Early(r)'
<1>1. /\ pc \in [Requests -> Stages] /\ job \in [Requests -> Job \union {NoJob}]
      /\ job[r] \in Job
  BY DEF IInv, Types, Jobs, Fits
<1>2. CASE to = "idle"
  BY <1>1, <1>2 DEF Goto, Fits, Holds, Late, Early
<1>3. CASE to # "idle"
  BY <1>1, <1>3 DEF Goto
<1> QED BY <1>2, <1>3

\* A request that arrives with the fields of its kind.
LEMMA ArriveIInv ==
  ASSUME IInv, NEW r \in Requests, NEW first \in Stages \ {"idle"}, NEW j \in Job,
         Arrive(r, first, j),
         first \notin {"enable", "upsert", "newset", "bump", "write", "session", "insert",
                       "credential", "mint"},
         first = "consume" => j.kind # "reset",
         Staged(first, j.kind), first # "newcode",
         j.kind \in Presenting => j.token \in Tokens /\ Is(j.token, UseOf(j.kind)),
         j.kind \notin Presenting => j.token = NoToken,
         j.kind \in {"reauth", "change", "endothers"} => j.self \in Sessions,
         j.kind = "reset" => j.self = NoSession,
         j.kind \in {"logout", "end"} => j.target \in Sessions,
         j.kind \in {"confirm", "mfa"} => j.num \in 1..generated,
         j.kind = "newkey" => j.num \in 0..signed,
         j.kind # "usekey",
         Unsettled => j.kind \in {"register", "resend", "verify", "forgot", "reset", "askkey"}
  PROVE  IInv'
<1>1. /\ pc' = [pc EXCEPT ![r] = first] /\ job' = [job EXCEPT ![r] = j]
      /\ UNCHANGED <<mix, data>> /\ pc[r] = "idle"
  BY DEF Arrive, Begin
<1>2. pc'[r] = first /\ job'[r] = j /\ generated' = generated /\ signed' = signed /\ token' = token
  BY <1>1 DEF IInv, Types, data, second, keys, store
<1>3. Fits(r)'
  BY <1>2 DEF Fits, Is
<1>4. ~Holds(r)' /\ ~Late(r)' /\ (Unsettled => Early(r)')
  BY <1>2 DEF Holds, Late, Early
<1> QED BY <1>1, <1>3, <1>4, MoveIInv

\* Whoever has a live session has a verified account, or had one.
LEMMA LiveIsSettled ==
  ASSUME IInv, NEW s \in Sessions, Live(s) \/ s \in fresh
  PROVE  ~Unsettled
BY DEF IInv, AccountInv, Live

\* The inputs of requests, whose fields are given one after the other.
LEMMA PlainInput ==
  ASSUME NEW k \in AllKinds
  PROVE  /\ Input(k) \in Job /\ Input(k).kind = k
         /\ Input(k).token = NoToken /\ Input(k).self = NoSession
BY AccountAssumption DEF AccountAssumption, Input, Job

\* Arrivals at a session that carry nothing but the session.
LEMMA AcceptOnSession ==
  ASSUME IInv, NEW r \in Requests,
         NEW s \in fresh, Live(s), NEW first \in Stages,
         NEW k \in {"endothers", "erase", "setup", "disable", "generate", "dropkey"},
         Arrive(r, first, [Input(k) EXCEPT !.self = s]), Staged(first, k),
         first \in {"sweep", "tokens", "status", "drop", "invalidate", "unkey"}
  PROVE  IInv'
<1> DEFINE i == Input(k)
           j == [i EXCEPT !.self = s]
<1>1. s \in Sessions
  BY DEF IInv, Types
<1>2. Arrive(r, first, j)
  OBVIOUS
<1>3. /\ i \in Job /\ i.kind = k /\ i.token = NoToken /\ i.self = NoSession
  BY PlainInput DEF AllKinds
<1> HIDE DEF i
<1>4. j \in Job /\ j.kind = k /\ j.token = NoToken /\ j.self = s
  BY <1>1, <1>3 DEF Job
<1>5. ~Unsettled
  BY <1>1, LiveIsSettled
<1> HIDE DEF j
<1> QED BY <1>1, <1>2, <1>4, <1>5, ArriveIInv DEF Presenting

\* The other arrivals, but the one with an assertion of the passkey.
LEMMA AcceptIInv ==
  ASSUME IInv, NEW r \in Requests,
         \/ AcceptResend(r) \/ AcceptForgot(r) \/ AcceptChallenge(r)
         \/ AcceptLogin(r) \/ AcceptReauth(r) \/ AcceptChange(r)
         \/ AcceptLogout(r) \/ AcceptEnd(r)
         \/ AcceptVerify(r) \/ AcceptReset(r) \/ AcceptRecover(r)
         \/ AcceptConfirm(r) \/ AcceptMfa(r) \/ AcceptNewKey(r)
         \/ AcceptAuthorize(r) \/ AcceptExchange(r) \/ AcceptRefresh(r)
  PROVE  IInv'
<1>0. /\ fresh \subseteq Sessions /\ password \in 1..MaxPassword /\ MaxPassword \in Nat
      /\ generated \in Nat /\ signed \in Nat
      /\ \A p \in 1..password : p \in 0..MaxPassword
  BY AccountAssumption DEF AccountAssumption, IInv, Types
<1>1. CASE AcceptResend(r)
  BY <1>1, PlainInput, ArriveIInv DEF AcceptResend, Stages, Staged, Presenting, AllKinds
<1>2. CASE AcceptForgot(r)
  BY <1>2, PlainInput, ArriveIInv DEF AcceptForgot, Stages, Staged, Presenting, AllKinds
<1>3. CASE AcceptChallenge(r)
  <2>1. CASE Arrive(r, "start", Input("askkey"))
    BY <2>1, PlainInput, ArriveIInv DEF Stages, Staged, Presenting, AllKinds
  <2>2. ASSUME NEW s \in Sessions, Live(s),
               Arrive(r, "start", [Input("addkey") EXCEPT !.self = s])
        PROVE  IInv'
    <3> DEFINE i == Input("addkey")
               j == [i EXCEPT !.self = s]
    <3>1. Arrive(r, "start", j)
      BY <2>2
    <3>2. i \in Job /\ i.kind = "addkey" /\ i.token = NoToken
      BY PlainInput DEF AllKinds
    <3> HIDE DEF i
    <3>3. j \in Job /\ j.kind = "addkey" /\ j.token = NoToken
      BY <3>2 DEF Job
    <3>4. ~Unsettled
      BY <2>2, LiveIsSettled
    <3> HIDE DEF j
    <3> QED BY <3>1, <3>3, <3>4, ArriveIInv DEF Stages, Staged, Presenting
  <2> QED BY <1>3, <2>1, <2>2 DEF AcceptChallenge
<1>4. CASE AcceptLogin(r)
  <2>0. PICK p \in 1..password :
          account = "verified" /\ Arrive(r, "verify", [Input("login") EXCEPT !.pw = p])
    BY <1>4 DEF AcceptLogin
  <2> DEFINE i == Input("login")
             j == [i EXCEPT !.pw = p]
  <2>1. Arrive(r, "verify", j)
    BY <2>0
  <2>2. i \in Job /\ i.kind = "login" /\ i.token = NoToken
    BY PlainInput DEF AllKinds
  <2> HIDE DEF i
  <2>3. j \in Job /\ j.kind = "login" /\ j.token = NoToken
    BY <1>0, <2>2 DEF Job
  <2> HIDE DEF j
  <2> QED BY <2>0, <2>1, <2>3, ArriveIInv DEF Stages, Staged, Presenting, Unsettled
<1>5. CASE AcceptReauth(r) \/ AcceptChange(r)
  <2>0. PICK s \in Sessions, p \in 1..password, k \in {"reauth", "change"} :
          Live(s) /\ Arrive(r, "verify", [Input(k) EXCEPT !.self = s, !.pw = p])
    BY <1>0, <1>5 DEF AcceptReauth, AcceptChange
  <2> DEFINE h == Input(k)
             i == [h EXCEPT !.self = s]
             j == [i EXCEPT !.pw = p]
  <2>1. Arrive(r, "verify", j)
    BY <2>0
  <2>2. h \in Job /\ h.kind = k /\ h.token = NoToken
    BY PlainInput DEF AllKinds
  <2> HIDE DEF h
  <2>3. i \in Job /\ i.kind = k /\ i.token = NoToken /\ i.self = s
    BY <2>2 DEF Job
  <2> HIDE DEF i
  <2>4. j \in Job /\ j.kind = k /\ j.token = NoToken /\ j.self = s
    BY <1>0, <2>3 DEF Job
  <2>5. ~Unsettled
    BY <2>0, LiveIsSettled
  <2> HIDE DEF j
  <2> QED BY <2>1, <2>4, <2>5, ArriveIInv DEF Stages, Staged, Presenting
<1>6. CASE AcceptLogout(r) \/ AcceptEnd(r)
  <2>0. PICK s \in Sessions, t \in Sessions, k \in {"logout", "end"} :
          Live(s) /\ Arrive(r, "revoke", [Input(k) EXCEPT !.self = s, !.target = t])
    BY <1>0, <1>6 DEF AcceptLogout, AcceptEnd
  <2> DEFINE h == Input(k)
             i == [h EXCEPT !.self = s]
             j == [i EXCEPT !.target = t]
  <2>1. Arrive(r, "revoke", j)
    BY <2>0
  <2>2. h \in Job /\ h.kind = k /\ h.token = NoToken
    BY PlainInput DEF AllKinds
  <2> HIDE DEF h
  <2>3. i \in Job /\ i.kind = k /\ i.token = NoToken
    BY <2>2 DEF Job
  <2> HIDE DEF i
  <2>4. j \in Job /\ j.kind = k /\ j.token = NoToken /\ j.target = t
    BY <2>3 DEF Job
  <2>5. ~Unsettled
    BY <2>0, LiveIsSettled
  <2> HIDE DEF j
  <2> QED BY <2>1, <2>4, <2>5, ArriveIInv DEF Stages, Staged, Presenting
<1>7. CASE AcceptVerify(r) \/ AcceptReset(r) \/ AcceptRecover(r)
  <2>0. PICK t \in Tokens, k \in {"verify", "reset", "recover"},
             first \in {"consumemail", "tokens", "list"} :
          /\ Is(t, UseOf(k)) /\ Staged(first, k)
          /\ Arrive(r, first, [Input(k) EXCEPT !.token = t])
          /\ k = "recover" => account = "verified"
    BY <1>7 DEF AcceptVerify, AcceptReset, AcceptRecover, UseOf, Staged
  <2> DEFINE i == Input(k)
             j == [i EXCEPT !.token = t]
  <2>1. Arrive(r, first, j)
    BY <2>0
  <2>2. i \in Job /\ i.kind = k /\ i.self = NoSession
    BY PlainInput DEF AllKinds
  <2> HIDE DEF i
  <2>3. j \in Job /\ j.kind = k /\ j.token = t /\ j.self = NoSession
    BY <2>2 DEF Job
  <2> HIDE DEF j
  <2> QED BY <2>0, <2>1, <2>3, ArriveIInv DEF Stages, Presenting, Unsettled
<1>8. CASE AcceptConfirm(r)
  <2>0. PICK s \in Sessions, n \in 1..generated :
          Live(s) /\ Arrive(r, "pending", [Input("confirm") EXCEPT !.self = s, !.num = n])
    BY <1>8 DEF AcceptConfirm
  <2> DEFINE h == Input("confirm")
             i == [h EXCEPT !.self = s]
             j == [i EXCEPT !.num = n]
  <2>1. Arrive(r, "pending", j)
    BY <2>0
  <2>2. h \in Job /\ h.kind = "confirm" /\ h.token = NoToken
    BY PlainInput DEF AllKinds
  <2> HIDE DEF h
  <2>3. i \in Job /\ i.kind = "confirm" /\ i.token = NoToken
    BY <2>2 DEF Job
  <2> HIDE DEF i
  <2>4. j \in Job /\ j.kind = "confirm" /\ j.token = NoToken /\ j.num = n
    BY <1>0, <2>3 DEF Job
  <2>5. ~Unsettled
    BY <2>0, LiveIsSettled
  <2> HIDE DEF j
  <2> QED BY <2>1, <2>4, <2>5, ArriveIInv DEF Stages, Staged, Presenting
<1>9. CASE AcceptMfa(r)
  <2>0. PICK t \in Tokens, n \in 1..generated :
          Is(t, "mfa") /\ Arrive(r, "code", [Input("mfa") EXCEPT !.token = t, !.num = n])
    BY <1>9 DEF AcceptMfa
  <2> DEFINE h == Input("mfa")
             i == [h EXCEPT !.token = t]
             j == [i EXCEPT !.num = n]
  <2>1. Arrive(r, "code", j)
    BY <2>0
  <2>2. h \in Job /\ h.kind = "mfa"
    BY PlainInput DEF AllKinds
  <2> HIDE DEF h
  <2>3. i \in Job /\ i.kind = "mfa" /\ i.token = t
    BY <2>2 DEF Job
  <2> HIDE DEF i
  <2>4. j \in Job /\ j.kind = "mfa" /\ j.token = t /\ j.num = n
    BY <1>0, <2>3 DEF Job
  <2>5. ~Unsettled
    BY <2>0 DEF IInv, AccountInv, Is
  <2>6. Is(t, UseOf("mfa"))
    BY <2>0 DEF UseOf
  <2> HIDE DEF j
  <2> QED BY <2>1, <2>4, <2>5, <2>6, ArriveIInv DEF Stages, Staged, Presenting
<1>10. CASE AcceptNewKey(r)
  <2>0. PICK s \in Sessions, t \in Tokens :
          /\ Live(s) /\ Is(t, "addkey")
          /\ Arrive(r, "consume", [Input("newkey") EXCEPT !.self = s, !.token = t,
                                                               !.num = signed])
    BY <1>10 DEF AcceptNewKey
  <2> DEFINE g == Input("newkey")
             h == [g EXCEPT !.self = s]
             i == [h EXCEPT !.token = t]
  <2>1. [Input("newkey") EXCEPT !.self = s, !.token = t, !.num = signed]
           = [i EXCEPT !.num = signed]
    OBVIOUS
  <2>2. g \in Job /\ g.kind = "newkey"
    BY PlainInput DEF AllKinds
  <2> HIDE DEF g
  <2>3. h \in Job /\ h.kind = "newkey"
    BY <2>2 DEF Job
  <2> HIDE DEF h
  <2>4. i \in Job /\ i.kind = "newkey" /\ i.token = t
    BY <2>3 DEF Job
  <2> HIDE DEF i
  <2>5. PICK j : j = [i EXCEPT !.num = signed]
    OBVIOUS
  <2>6. j \in Job /\ j.kind = "newkey" /\ j.token = t /\ j.num = signed
    BY <1>0, <2>4, <2>5 DEF Job
  <2>7. ~Unsettled
    BY <2>0, LiveIsSettled
  <2>8. Is(t, UseOf("newkey"))
    BY <2>0 DEF UseOf
  <2>9. Arrive(r, "consume", j)
    BY <2>0, <2>1, <2>5
  <2> QED BY <1>0, <2>6, <2>7, <2>8, <2>9, ArriveIInv DEF Stages, Staged, Presenting
<1>11. CASE AcceptAuthorize(r)
  <2>0. PICK s \in Sessions, p \in 0..MaxPassword :
          Live(s) /\ Arrive(r, "issue", [Input("authorize") EXCEPT !.self = s, !.pw = p])
    BY <1>11 DEF AcceptAuthorize, IInv, Types, Session
  <2> DEFINE h == Input("authorize")
             i == [h EXCEPT !.self = s]
             j == [i EXCEPT !.pw = p]
  <2>1. Arrive(r, "issue", j)
    BY <2>0
  <2>2. h \in Job /\ h.kind = "authorize" /\ h.token = NoToken
    BY PlainInput DEF AllKinds
  <2> HIDE DEF h
  <2>3. i \in Job /\ i.kind = "authorize" /\ i.token = NoToken
    BY <2>2 DEF Job
  <2> HIDE DEF i
  <2>4. j \in Job /\ j.kind = "authorize" /\ j.token = NoToken
    BY <2>3 DEF Job
  <2>5. ~Unsettled
    BY <2>0, LiveIsSettled
  <2> HIDE DEF j
  <2> QED BY <2>1, <2>4, <2>5, ArriveIInv DEF Stages, Staged, Presenting
<1>12. CASE AcceptExchange(r) \/ AcceptRefresh(r)
  <2>0. PICK t \in Tokens, k \in {"exchange", "refresh"}, first \in {"consume", "rotate"} :
          /\ Is(t, "authcode") /\ Staged(first, k)
          /\ Arrive(r, first, [Input(k) EXCEPT !.token = t])
    <3>1. CASE AcceptExchange(r)
      BY <3>1 DEF AcceptExchange, Staged
    <3>2. CASE AcceptRefresh(r)
      BY <3>2 DEF AcceptRefresh, Staged, IInv, Types, OauthInv
    <3> QED BY <1>12, <3>1, <3>2
  <2> DEFINE i == Input(k)
             j == [i EXCEPT !.token = t]
  <2>1. Arrive(r, first, j)
    BY <2>0
  <2>2. i \in Job /\ i.kind = k
    BY PlainInput DEF AllKinds
  <2> HIDE DEF i
  <2>3. j \in Job /\ j.kind = k /\ j.token = t
    BY <2>2 DEF Job
  <2>4. ~Unsettled
    BY <2>0 DEF IInv, AccountInv, Is
  <2>5. Is(t, UseOf(k))
    BY <2>0 DEF UseOf
  <2> HIDE DEF j
  <2> QED BY <2>0, <2>1, <2>3, <2>4, <2>5, ArriveIInv DEF Stages, Presenting
<1> QED BY <1>1, <1>2, <1>3, <1>4, <1>5, <1>6, <1>7, <1>8, <1>9, <1>10, <1>11, <1>12

\* A request goes on to a statement that relies on nothing it has read.
LEMMA GotoIInv ==
  ASSUME IInv, NEW r \in Requests, NEW to \in Stages, Goto(r, to), UNCHANGED data,
         pc[r] \notin {"idle", "mark", "sweep"},
         to # "idle" => Staged(to, job[r].kind),
         to \notin {"enable", "upsert", "newset", "newcode", "bump", "write", "insert",
                    "credential", "mint"},
         to = "session" => job[r].kind = "login",
         to = "consume" => job[r].kind # "reset"
  PROVE  IInv'
<1> DEFINE j == IF to = "idle" THEN NoJob ELSE job[r]
<1>1. /\ j \in Job \union {NoJob} /\ UNCHANGED mix
      /\ pc' = [pc EXCEPT ![r] = to] /\ job' = [job EXCEPT ![r] = j]
      /\ pc'[r] = to /\ job'[r] = j
      /\ to = "idle" => Fits(r)' /\ ~Holds(r)' /\ ~Late(r)' /\ Early(r)'
  BY GotoStep
<1>2. to # "idle" => j = job[r]
  OBVIOUS
<1>3. /\ Fits(r) /\ UNCHANGED <<token, generated, signed>>
      /\ Unsettled => Early(r)
  BY DEF IInv, Jobs, AccountInv, data, store, second, keys
<1> HIDE DEF j
<1>4. Fits(r)'
  BY <1>1, <1>2, <1>3 DEF Fits, Is
<1>5. ~Holds(r)' /\ ~Late(r)'
  BY <1>1, <1>2, <1>3 DEF Holds, Late, Fits, Presenting
<1>6. Unsettled => Early(r)'
  BY <1>1, <1>2, <1>3 DEF Early, Staged, Stages
<1> QED BY <1>1, <1>4, <1>5, <1>6, MoveIInv

\* Statements that only read, and lead to statements that look again.
LEMMA ReadIInv ==
  ASSUME IInv, NEW r \in Requests,
         VerifyPassword(r) \/ AskFactor(r) \/ CheckCode(r) \/ ListCodes(r) \/ LockPresented(r)
  PROVE  IInv'
<1>0. Fits(r)
  BY DEF IInv, Jobs
<1>1. CASE VerifyPassword(r)
  <2>1. PICK to \in {"idle", "factor", "markreauth", "tokens"} :
          /\ Goto(r, to)
          /\ to = "factor" => job[r].kind = "login"
          /\ to = "markreauth" => job[r].kind = "reauth"
          /\ to = "tokens" => job[r].kind = "change"
    <3>1. job[r].kind \in {"login", "reauth", "change"}
      BY <1>0, <1>1 DEF VerifyPassword, Fits, Staged
    <3>2. CASE job[r].kind = "login"
      BY <1>1, <3>2 DEF VerifyPassword
    <3>3. CASE job[r].kind = "reauth"
      BY <1>1, <3>3 DEF VerifyPassword
    <3>4. CASE job[r].kind = "change"
      BY <1>1, <3>4 DEF VerifyPassword
    <3> QED BY <3>1, <3>2, <3>3, <3>4
  <2>2. pc[r] = "verify" /\ UNCHANGED data
    BY <1>1 DEF VerifyPassword
  <2> QED BY <2>1, <2>2, GotoIInv DEF Stages, Staged
<1>2. CASE AskFactor(r)
  <2>1. PICK to \in {"challenge", "session"} :
          Goto(r, to) /\ pc[r] = "factor" /\ UNCHANGED data
    BY <1>2 DEF AskFactor
  <2>2. job[r].kind = "login"
    BY <1>0, <2>1 DEF Fits, Staged
  <2> QED BY <2>1, <2>2, GotoIInv DEF Stages, Staged
<1>3. CASE CheckCode(r)
  <2>1. PICK to \in {"idle", "consume"} :
          Goto(r, to) /\ pc[r] = "code" /\ UNCHANGED data
    BY <1>3 DEF CheckCode
  <2>2. job[r].kind = "mfa"
    BY <1>0, <2>1 DEF Fits, Staged
  <2> QED BY <2>1, <2>2, GotoIInv DEF Stages, Staged
<1>4. CASE ListCodes(r)
  <2>1. PICK to \in {"idle", "consume"} :
          Goto(r, to) /\ pc[r] = "list" /\ UNCHANGED data
    BY <1>4 DEF ListCodes
  <2>2. job[r].kind = "recover"
    BY <1>0, <2>1 DEF Fits, Staged
  <2> QED BY <2>1, <2>2, GotoIInv DEF Stages, Staged
<1>5. CASE LockPresented(r)
  <2>1. PICK to \in {"idle", "renew"} :
          Goto(r, to) /\ pc[r] = "rotate" /\ UNCHANGED data
    BY <1>5 DEF LockPresented
  <2>2. job[r].kind = "refresh"
    BY <1>0, <2>1 DEF Fits, Staged
  <2> QED BY <2>1, <2>2, GotoIInv DEF Stages, Staged
<1> QED BY <1>1, <1>2, <1>3, <1>4, <1>5

----------------------------------------------------------------------------
(* Inserts of tokens, and sessions                                         *)

LEMMA InsertIInv ==
  ASSUME IInv, NEW r \in Requests, pc[r] \notin {"idle", "mark", "sweep"},
         NEW to \in {"idle", "newcode"}, NEW j \in Job \union {NoJob}, UNCHANGED mix,
         pc' = [pc EXCEPT ![r] = to], job' = [job EXCEPT ![r] = j],
         to # "idle" => to = pc[r] /\ j = job[r],
         to = "idle" => j = NoJob,
         NEW t \in FreshTokens, NEW u \in Uses, NEW p \in 0..MaxPassword,
         NEW y \in Sets \union {NoSet}, Insert(t, u, p, y),
         account = "none" => u = "usekey",
         account = "pending" => u \in {"mail", "reset", "usekey"},
         account = "erased" => u \in {"usekey", "addkey"},
         carried \subseteq carried', carried' \subseteq carried \union {t},
         u = "authcode" => p = password \/ t \in carried',
         u = "authcode" /\ (\E q \in Requests : Late(q)) => t \in carried',
         UNCHANGED <<user, answers, session, fresh, granted, overtaken, second, codes, keys>>
  PROVE  IInv'
<1>0. /\ UNCHANGED <<account, password, lost, answers, session, fresh, granted,
                  overtaken, totp, generated, confirmed, overlap, set, crossed,
                  passkey, count, signed, accepted, overrun>>
      /\ Types
  BY DEF user, second, codes, keys, IInv
<1>2. /\ t \in Tokens /\ token[t].state = "none" /\ Is(t, "none")
      /\ token' \in [Tokens -> Row]
      /\ token'[t] = [use |-> u, state |-> "open", pw |-> p, set |-> y]
      /\ \A x \in Tokens \ {t} : token'[x] = token[x]
  <2>1. t \in Tokens /\ token[t].state = "none"
    BY MixAssumption, <1>0 DEF MixAssumption, FreshTokens, Types, Mix
  <2>2. Is(t, "none")
    BY <2>1 DEF IInv, TokenInv, Blankness
  <2>3. [use |-> u, state |-> "open", pw |-> p, set |-> y] \in Row
    BY DEF Row, States
  <2> QED BY <1>0, <2>1, <2>2, <2>3 DEF Insert, Types
<1>1. /\ pc'[r] = to /\ job'[r] = j
      /\ \A q \in Requests \ {r} : pc'[q] = pc[q] /\ job'[q] = job[q]
      /\ to \in Stages
  BY <1>0 DEF Types, Stages
<1>3. Fits(r)'
  <2>1. CASE to = "idle"
    BY <1>1, <2>1 DEF Fits
  <2>2. CASE to # "idle"
    <3>1. Fits(r) /\ pc'[r] = "newcode" /\ pc[r] = "newcode" /\ job'[r] = job[r]
      BY <1>1, <2>2 DEF IInv, Jobs
    <3>2. job[r].kind = "generate"
      BY <3>1 DEF Fits, Staged
    <3> QED BY <3>1, <3>2 DEF Fits, Presenting
  <2> QED BY <2>1, <2>2
<1>4. ~Holds(r)' /\ ~Late(r)' /\ (Unsettled => Early(r)')
  BY <1>1 DEF Holds, Late, Early, IInv, AccountInv
<1>5. Types' /\ Jobs'
  <2>1. Monotone
    BY <1>0, <1>2 DEF Monotone, Types
  <2>2. carried' \subseteq Tokens
    BY <1>0, <1>2 DEF Types
  <2> QED BY <1>0, <1>1, <1>2, <1>3, <2>1, <2>2, Frame DEF Types
<1>6. TokenInv'
  <2>1. Blankness'
    BY <1>2 DEF IInv, TokenInv, Blankness, Is, Uses
  <2>2. \A x \in Tokens : answers'[x] = 0 \/ (answers'[x] = 1 /\ token'[x].state = "used")
    BY <1>0, <1>2 DEF IInv, TokenInv
  <2>3. \A q \in Requests \ {r} : Holds(q)' <=> Holds(q)
    BY <1>1 DEF Holds
  <2>4. \A q \in Requests : Holds(q) => job[q].token \in Tokens /\ job[q].token # t
    BY <1>2 DEF IInv, TokenInv, Jobs, Fits, Holds
  <2> QED BY <1>0, <1>1, <1>2, <1>4, <2>1, <2>2, <2>3, <2>4 DEF IInv, TokenInv
<1>7. UsedMailVerifies'
  BY <1>0, <1>1, <1>2 DEF IInv, UsedMailVerifies, Is
<1>8. AccountInv'
  <2>1. ASSUME Unsettled'
        PROVE  /\ \A s \in Sessions : session'[s].state = "none"
               /\ fresh' = {} /\ NoFactors' /\ passkey' = "none"
               /\ \A x \in Tokens : (Is(x, "none") \/ Is(x, "usekey")
                              \/ (account = "pending" /\ (Is(x, "mail") \/ Is(x, "reset"))))'
               /\ \A q \in Requests : Early(q)'
    <3>1. Unsettled
      BY <1>0, <2>1 DEF Unsettled
    <3>2. \A q \in Requests \ {r} : Early(q) => Early(q)'
      BY <1>1 DEF Early
    <3>3. \A x \in Tokens : (Is(x, "none") \/ Is(x, "usekey")
                              \/ (account = "pending" /\ (Is(x, "mail") \/ Is(x, "reset"))))'
      BY <1>0, <1>2, <3>1 DEF IInv, AccountInv, Is, Unsettled
    <3> QED BY <1>0, <1>4, <3>1, <3>2, <3>3 DEF IInv, AccountInv, NoFactors
  <2>2. account' = "erased" => \A x \in Tokens : Open(x)' => Challenge(x)'
    BY <1>0, <1>2 DEF IInv, AccountInv, Open, Is, Challenge
  <2> QED BY <1>0, <2>1, <2>2 DEF IInv, AccountInv, NoFactors, Live
<1>9. PasswordInv' /\ OauthInv'
  <2>1. PasswordInv'
    BY <1>0, <1>1, Frame
  <2>2. \A x \in Tokens \ {t} : x \in Unanswered' <=> x \in Unanswered
    BY <1>0, <1>2 DEF Unanswered, Is
  <2>3. t \in Unanswered' => u = "authcode" /\ token'[t].pw = p
    BY <1>2 DEF Unanswered, Is
  <2>4. t \notin granted
    BY <1>2 DEF IInv, OauthInv, Is
  <2>5. \A q \in Requests : Late(q)' => Late(q)
    BY <1>1, <1>4 DEF Late
  <2>6. \A x \in Unanswered' : x \in Tokens
    BY DEF Unanswered
  <2>7. \A x \in granted' : Is(x, "authcode")' /\ (token'[x].pw = password' \/ x \in carried')
    BY <1>0, <1>2, <2>4 DEF IInv, OauthInv, TokensEndWithPassword, Is, Types
  <2>8. \A x \in Unanswered' : token'[x].pw = password' \/ x \in carried'
    BY <1>0, <1>2, <2>2, <2>3, <2>6 DEF IInv, OauthInv
  <2>9. \A q \in Requests :
          Late(q)' => granted' \subseteq carried' /\ Unanswered' \subseteq carried'
    BY <1>0, <2>2, <2>3, <2>5, <2>6 DEF IInv, OauthInv
  <2> QED BY <2>1, <2>7, <2>8, <2>9 DEF OauthInv, TokensEndWithPassword
<1>10. FactorInv' /\ SetInv' /\ KeyInv'
  BY <1>0, <1>1, Frame
<1> QED BY <1>5, <1>6, <1>7, <1>8, <1>9, <1>10 DEF IInv

\* issue_verification, create_login_challenge, forgot_password and
\* store_challenge answer after their insert; generate_recovery_codes goes on.
LEMMA IssueIInv ==
  ASSUME IInv, NEW r \in Requests,
         \/ IssueMail(r) \/ IssueChallenge(r) \/ IssueReset(r) \/ StoreChallenge(r)
         \/ InsertCode(r)
  PROVE  IInv'
<1>0. /\ Fits(r) /\ (Unsettled => Early(r))
      /\ pc \in [Requests -> Stages] /\ job \in [Requests -> Job \union {NoJob}]
      /\ 0 \in 0..MaxPassword /\ account \in {"none", "pending", "verified", "erased"}
  BY AccountAssumption DEF AccountAssumption, IInv, Types, Jobs, AccountInv
<1>1. ASSUME pc[r] \in {"mail", "challenge", "mailreset", "start"}, Goto(r, "idle"),
             NEW t \in FreshTokens, NEW u \in Uses \ {"authcode"}, NEW p \in 0..MaxPassword,
             Insert(t, u, p, NoSet),
             account = "none" => u = "usekey",
             account = "pending" => u \in {"mail", "reset", "usekey"},
             account = "erased" => u \in {"usekey", "addkey"},
             UNCHANGED <<user, answers, signin, second, codes, keys>>
      PROVE  IInv'
  <2>1. /\ pc' = [pc EXCEPT ![r] = "idle"] /\ job' = [job EXCEPT ![r] = NoJob]
        /\ UNCHANGED mix
    BY <1>1 DEF Goto
  <2>2. UNCHANGED <<session, fresh, granted, carried, overtaken>>
    BY <1>1 DEF signin, oauth
  <2> QED BY <1>1, <2>1, <2>2, InsertIInv
<1>2. ASSUME pc[r] \in {"challenge", "mailreset", "start", "newcode"}, Goto(r, "idle"),
             UNCHANGED data
      PROVE  IInv'
  BY <1>2, GotoIInv DEF Stages
<1>3. CASE IssueMail(r)
  BY <1>0, <1>1, <1>3 DEF IssueMail, Uses, Exists
<1>4. CASE IssueReset(r)
  <2>1. CASE Exists
    BY <1>0, <1>1, <1>4, <2>1 DEF IssueReset, Uses, Exists
  <2>2. CASE ~Exists
    BY <1>2, <1>4, <2>2 DEF IssueReset, data, store
  <2> QED BY <2>1, <2>2
<1>5. CASE IssueChallenge(r)
  <2>1. CASE Exists
    <3>1. job[r].kind = "login" /\ job[r].pw \in 0..MaxPassword
      BY <1>0, <1>5 DEF IssueChallenge, Fits, Staged, Job
    <3>2. account # "pending"
      BY <1>0, <1>5, <3>1 DEF IssueChallenge, Unsettled, Early
    <3> QED BY <1>1, <1>5, <2>1, <3>1, <3>2 DEF IssueChallenge, Uses, Exists
  <2>2. CASE ~Exists
    BY <1>2, <1>5, <2>2 DEF IssueChallenge, data, store
  <2> QED BY <2>1, <2>2
<1>6. CASE StoreChallenge(r)
  <2>1. CASE job[r].kind = "askkey"
    BY <1>0, <1>1, <1>6, <2>1 DEF StoreChallenge, Uses
  <2>2. CASE job[r].kind # "askkey"
    <3>1. job[r].kind = "addkey"
      BY <1>0, <1>6, <2>2 DEF StoreChallenge, Fits, Staged
    <3>2. account \notin {"none", "pending"}
      BY <1>0, <1>6, <3>1 DEF StoreChallenge, Unsettled, Early
    <3> QED BY <1>0, <1>1, <1>6, <2>2, <3>2 DEF StoreChallenge, Uses
  <2> QED BY <2>1, <2>2
<1>7. CASE InsertCode(r)
  <2>0. pc[r] = "newcode" /\ job[r].kind = "generate" /\ job[r].num \in Sets
    BY <1>0, <1>7 DEF InsertCode, Fits, Staged
  <2>1. CASE Goto(r, "idle") /\ UNCHANGED token
    BY <1>2, <1>7, <2>0, <2>1 DEF InsertCode, data, store
  <2>2. ASSUME Exists, NEW t \in FreshTokens, Insert(t, "code", 0, job[r].num),
               UNCHANGED <<mix, pc, job>>
        PROVE  IInv'
    <3>1. account = "verified"
      BY <1>0, <2>0, <2>2 DEF Unsettled, Early, Exists
    <3>2. /\ pc' = [pc EXCEPT ![r] = "newcode"] /\ job' = [job EXCEPT ![r] = job[r]]
          /\ job[r] \in Job
      BY <1>0, <2>0, <2>2 DEF Fits
    <3>3. /\ "code" \in Uses /\ UNCHANGED <<user, answers, second, codes, keys>>
          /\ UNCHANGED <<session, fresh, granted, carried, overtaken>>
      BY <1>7 DEF InsertCode, Uses, signin, oauth
    <3> QED BY <1>0, <2>0, <2>2, <3>1, <3>2, <3>3, InsertIInv
  <2> QED BY <1>7, <2>1, <2>2 DEF InsertCode
<1> QED BY <1>3, <1>4, <1>5, <1>6, <1>7

\* issue_auth_code: what it knows of the password is the session's.
LEMMA IssueCodeIInv ==
  ASSUME IInv, NEW r \in Requests, IssueCode(r)
  PROVE  IInv'
<1>0. /\ Types /\ Fits(r) /\ (Unsettled => Early(r))
      /\ pc[r] = "issue" /\ job[r].kind = "authorize" /\ job[r] \in Job
      /\ account \in {"none", "pending", "verified", "erased"}
      /\ UNCHANGED <<user, answers, session, fresh, granted, overtaken, second, codes, keys>>
  BY DEF IssueCode, IInv, Types, Jobs, Fits, Staged, AccountInv
<1>1. CASE UNCHANGED <<token, carried>>
  <2>1. UNCHANGED data
    BY <1>0, <1>1 DEF data, store, signin, oauth
  <2> QED BY <1>0, <2>1, GotoIInv DEF IssueCode, Stages
<1>2. ASSUME Exists, NEW t \in FreshTokens, Insert(t, "authcode", job[r].pw, NoSet),
             carried' = IF Replacing \/ job[r].pw # password
                          THEN carried \union {t} ELSE carried
      PROVE  IInv'
  <2>1. /\ pc' = [pc EXCEPT ![r] = "idle"] /\ job' = [job EXCEPT ![r] = NoJob]
        /\ UNCHANGED mix
    BY DEF IssueCode, Goto
  <2>2. account = "verified"
    BY <1>0, <1>2 DEF Unsettled, Early, Exists
  <2>3. (\E q \in Requests : Late(q)) => Replacing
    BY DEF Late, Replacing, IInv, Jobs, Fits, Staged
  <2>4. job[r].pw \in 0..MaxPassword
    BY <1>0 DEF Job
  <2> QED BY <1>0, <1>2, <2>1, <2>2, <2>3, <2>4, InsertIInv DEF Uses
<1> QED BY <1>1, <1>2 DEF IssueCode

\* A token is used: all that the rows and the other requests have of it.
LEMMA UseToken ==
  ASSUME IInv, NEW t \in Tokens, ~Is(t, "none"),
         token' = [token EXCEPT ![t].state = "used"],
         UNCHANGED <<account, answers, session, fresh, totp, passkey, set>>
  PROVE  /\ token' \in [Tokens -> Row] /\ Blankness'
         /\ token'[t].state = "used" /\ token'[t].use = token[t].use
         /\ \A x \in Tokens : token'[x].use = token[x].use
         /\ \A x \in Tokens \ {t} : token'[x] = token[x]
         /\ \A x \in Tokens :
              answers'[x] = 0 \/ (answers'[x] = 1 /\ token'[x].state = "used")
         /\ (\A r \in Requests : Unsettled => Early(r)') => AccountInv'
         /\ UNCHANGED <<password, granted, carried>> /\ (\A r \in Requests : Late(r)' => Late(r))
              => OauthInv'
<1>0. Types /\ TokenInv /\ AccountInv
  BY DEF IInv
<1>1. /\ token' \in [Tokens -> Row]
      /\ token'[t].state = "used" /\ token'[t].use = token[t].use
      /\ token'[t].pw = token[t].pw
      /\ \A x \in Tokens \ {t} : token'[x] = token[x]
  BY <1>0 DEF Types, Row, States
<1>2. \A x \in Tokens : token'[x].use = token[x].use
  BY <1>1
<1>3. Blankness'
  BY <1>0, <1>1 DEF TokenInv, Blankness, Is
<1>4. \A x \in Tokens : answers'[x] = 0 \/ (answers'[x] = 1 /\ token'[x].state = "used")
  BY <1>0, <1>1 DEF TokenInv
<1>5. (\A r \in Requests : Unsettled => Early(r)') => AccountInv'
  <2>1. \A x \in Tokens : Open(x)' => Open(x)
    BY <1>1 DEF Open
  <2>2. \A x \in Tokens, u \in Uses \union {"none"} : Is(x, u)' <=> Is(x, u)
    BY <1>2 DEF Is
  <2> QED BY <1>0, <2>1, <2>2 DEF AccountInv, Unsettled, NoFactors, Live, Uses, Challenge
<1>6. UNCHANGED <<password, granted, carried>> /\ (\A r \in Requests : Late(r)' => Late(r))
        => OauthInv'
  BY <1>1, OauthFrame DEF Is
<1> QED BY <1>1, <1>2, <1>3, <1>4, <1>5, <1>6

LEMMA ConsumeMailIInv ==
  ASSUME IInv, NEW r \in Requests, ConsumeMail(r)
  PROVE  IInv'
<1>0. /\ Types /\ Fits(r) /\ pc[r] = "consumemail" /\ job[r].kind = "verify"
      /\ job[r].token \in Tokens /\ Is(job[r].token, "mail") /\ job[r] \in Job
  BY DEF ConsumeMail, IInv, Jobs, Fits, Staged, Presenting, UseOf
<1>1. PICK t \in Tokens : t = job[r].token
  BY <1>0
<1>2. CASE UNCHANGED token /\ Goto(r, "idle")
  BY <1>0, <1>2, GotoIInv DEF ConsumeMail, data, store, Stages
<1>3. CASE token' = [token EXCEPT ![t].state = "used"] /\ Goto(r, "mark")
  <2>0. /\ UNCHANGED <<account, password, lost, answers, session, fresh, granted, carried,
                  overtaken, totp, generated, confirmed, overlap, set, crossed,
                  passkey, count, signed, accepted, overrun>>
    BY DEF ConsumeMail, user, signin, oauth, second, codes, keys
  <2>1. /\ UNCHANGED mix /\ pc' = [pc EXCEPT ![r] = "mark"] /\ job' = [job EXCEPT ![r] = job[r]]
        /\ pc'[r] = "mark" /\ job'[r] = job[r]
        /\ \A q \in Requests \ {r} : pc'[q] = pc[q] /\ job'[q] = job[q]
    BY <1>0, <1>3 DEF Goto, Types
  <2>2. ~Is(t, "none")
    BY <1>0, <1>1 DEF Is
  <2>3. /\ token' \in [Tokens -> Row] /\ Blankness'
        /\ token'[t].state = "used"
        /\ \A x \in Tokens : token'[x].use = token[x].use
        /\ \A x \in Tokens \ {t} : token'[x] = token[x]
        /\ \A x \in Tokens :
             answers'[x] = 0 \/ (answers'[x] = 1 /\ token'[x].state = "used")
        /\ (\A q \in Requests : Unsettled => Early(q)') => AccountInv'
        /\ (\A q \in Requests : Late(q)' => Late(q)) => OauthInv'
    BY <1>3, <2>0, <2>2, UseToken
  <2>4. Monotone
    BY <1>0, <2>0, <2>1, <2>3 DEF Monotone, Types
  <2>5. Fits(r)'
    BY <1>0, <1>1, <2>1, <2>3 DEF Fits, Staged, Presenting, UseOf, Is
  <2>6. Types'
    BY <1>0, <2>0, <2>1, <2>3, Frame DEF Types, Stages
  <2>7. Jobs'
    BY <2>1, <2>4, <2>5, <1>0, Frame DEF Stages
  <2>8. TokenInv'
    <3>1. ~Holds(r)' /\ \A q \in Requests \ {r} : Holds(q)' <=> Holds(q)
      BY <2>1 DEF Holds
    <3>2. \A q \in Requests : Holds(q) => job[q].token \in Tokens
      BY DEF IInv, Jobs, Fits, Holds
    <3> QED BY <2>0, <2>1, <2>3, <3>1, <3>2 DEF IInv, TokenInv
  <2>9. UsedMailVerifies'
    BY <1>1, <2>0, <2>1, <2>3, <1>0 DEF IInv, UsedMailVerifies, Is
  <2>10. AccountInv'
    <3>1. \A q \in Requests : Early(q) => Early(q)'
      BY <1>0, <2>1 DEF Early
    <3> QED BY <2>3, <3>1 DEF IInv, AccountInv
  <2>11. \A q \in Requests : Late(q)' => Late(q)
    BY <2>1 DEF Late
  <2>12. PasswordInv' /\ OauthInv'
    BY <1>0, <2>0, <2>1, <2>3, <2>11, Frame DEF Stages
  <2>13. FactorInv' /\ SetInv' /\ KeyInv'
    BY <1>0, <2>0, <2>1, Frame DEF Stages
  <2> QED BY <2>6, <2>7, <2>8, <2>9, <2>10, <2>12, <2>13 DEF IInv
<1> QED BY <1>1, <1>2, <1>3 DEF ConsumeMail

LEMMA ConsumeTokenIInv ==
  ASSUME IInv, NEW r \in Requests, ConsumeToken(r)
  PROVE  IInv'
<1>0. /\ Types /\ Fits(r) /\ pc[r] = "consume" /\ job[r] \in Job
      /\ job[r].kind \in {"reset", "mfa", "recover", "newkey", "usekey", "exchange"}
  BY DEF ConsumeToken, IInv, Jobs, Fits, Staged
<1>1. PICK t \in Tokens :
        /\ t = job[r].token /\ Is(t, UseOf(job[r].kind))
        /\ ~Is(t, "none") /\ ~Is(t, "mail") /\ t # NoToken
  <2>1. UseOf(job[r].kind) \in {"reset", "mfa", "code", "addkey", "usekey", "authcode"}
    <3>1. CASE job[r].kind = "reset"
      BY <3>1 DEF UseOf
    <3>2. CASE job[r].kind = "mfa"
      BY <3>2 DEF UseOf
    <3>3. CASE job[r].kind = "recover"
      BY <3>3 DEF UseOf
    <3>4. CASE job[r].kind = "newkey"
      BY <3>4 DEF UseOf
    <3>5. CASE job[r].kind = "usekey"
      BY <3>5 DEF UseOf
    <3>6. CASE job[r].kind = "exchange"
      BY <3>6 DEF UseOf
    <3> QED BY <1>0, <3>1, <3>2, <3>3, <3>4, <3>5, <3>6
  <2> QED BY <1>0, <2>1, AccountAssumption DEF AccountAssumption, Fits, Presenting, Is
<1>2. CASE UNCHANGED token /\ Goto(r, "idle")
  BY <1>0, <1>2, GotoIInv DEF ConsumeToken, data, store, Stages
<1>3. CASE Open(t) /\ token' = [token EXCEPT ![t].state = "used"] /\ Goto(r, AfterConsume(r))
  <2>0. /\ UNCHANGED <<account, password, lost, answers, session, fresh, granted, carried,
                  overtaken, totp, generated, confirmed, overlap, set, crossed,
                  passkey, count, signed, accepted, overrun>>
    BY DEF ConsumeToken, user, signin, oauth, second, codes, keys
  <2>1. PICK to \in {"write", "session", "insert", "credential", "mint"} :
          /\ Goto(r, to)
          /\ to = "write" <=> job[r].kind = "reset"
          /\ to = "session" => job[r].kind \in {"mfa", "recover"}
          /\ to = "insert" => job[r].kind = "newkey"
          /\ to = "credential" <=> job[r].kind = "usekey"
          /\ to = "mint" => job[r].kind = "exchange"
    <3>1. CASE job[r].kind = "reset"
      BY <1>3, <3>1 DEF AfterConsume
    <3>2. CASE job[r].kind \in {"mfa", "recover"}
      BY <1>3, <3>2 DEF AfterConsume
    <3>4. CASE job[r].kind = "newkey"
      BY <1>3, <3>4 DEF AfterConsume
    <3>5. CASE job[r].kind = "usekey"
      BY <1>3, <3>5 DEF AfterConsume
    <3>6. CASE job[r].kind = "exchange"
      BY <1>3, <3>6 DEF AfterConsume
    <3> QED BY <1>0, <3>1, <3>2, <3>4, <3>5, <3>6
  <2>2. /\ UNCHANGED mix /\ pc' = [pc EXCEPT ![r] = to] /\ job' = [job EXCEPT ![r] = job[r]]
        /\ pc'[r] = to /\ job'[r] = job[r] /\ to \in Stages
        /\ \A q \in Requests \ {r} : pc'[q] = pc[q] /\ job'[q] = job[q]
    BY <1>0, <2>1 DEF Goto, Types, Stages
  <2>3. /\ token' \in [Tokens -> Row] /\ Blankness'
        /\ token'[t].state = "used"
        /\ \A x \in Tokens : token'[x].use = token[x].use
        /\ \A x \in Tokens \ {t} : token'[x] = token[x]
        /\ \A x \in Tokens :
             answers'[x] = 0 \/ (answers'[x] = 1 /\ token'[x].state = "used")
        /\ (\A q \in Requests : Unsettled => Early(q)') => AccountInv'
        /\ (\A q \in Requests : Late(q)' => Late(q)) => OauthInv'
    BY <1>1, <1>3, <2>0, UseToken
  <2>4. Monotone
    BY <1>0, <2>0, <2>2, <2>3 DEF Monotone, Types
  <2>5. Fits(r)'
    <3>1. Staged(to, job[r].kind)
      BY <1>0, <2>1 DEF Staged
    <3> QED BY <1>0, <1>1, <2>0, <2>2, <2>3, <3>1, <2>1 DEF Fits, Is
  <2>6. Types'
    BY <1>0, <2>0, <2>2, <2>3, Frame DEF Types
  <2>7. Jobs'
    BY <2>2, <2>4, <2>5, <1>0, Frame
  <2>8. TokenInv'
    <3>1. Holds(r)' /\ ~Holds(r) /\ \A q \in Requests \ {r} : Holds(q)' <=> Holds(q)
      BY <1>0, <1>1, <2>1, <2>2 DEF Holds
    <3>2. \A q \in Requests : Holds(q) => job[q].token \in Tokens
      BY DEF IInv, Jobs, Fits, Holds
    <3>3. \A q \in Requests : Holds(q) => job[q].token # t
      BY <1>3 DEF IInv, TokenInv, Open
    <3>4. answers'[t] = 0
      BY <1>3, <2>0 DEF IInv, TokenInv, Open
    <3> QED BY <1>1, <2>0, <2>2, <2>3, <3>1, <3>2, <3>3, <3>4 DEF IInv, TokenInv
  <2>9. UsedMailVerifies'
    BY <1>1, <2>0, <2>2, <2>3, <1>0 DEF IInv, UsedMailVerifies, Is
  <2>10. AccountInv'
    <3>1. \A q \in Requests : Unsettled => Early(q)'
      <4>1. \A q \in Requests : Unsettled => Early(q)
        BY DEF IInv, AccountInv
      <4> QED BY <1>0, <2>1, <2>2, <4>1 DEF Early
    <3> QED BY <2>3, <3>1
  <2>11. \A q \in Requests : Late(q)' => Late(q)
    BY <1>0, <2>1, <2>2 DEF Late
  <2>12. PasswordInv' /\ OauthInv'
    BY <1>0, <2>0, <2>2, <2>3, <2>11, Frame
  <2>13. FactorInv' /\ SetInv' /\ KeyInv'
    BY <1>0, <2>0, <2>1, <2>2, Frame
  <2> QED BY <2>6, <2>7, <2>8, <2>9, <2>10, <2>12, <2>13 DEF IInv
<1> QED BY <1>1, <1>2, <1>3 DEF ConsumeToken

\* An answer: the request is gone, and the others go on.
LEMMA AnswerStep ==
  ASSUME IInv, NEW r \in Requests, pc[r] # "idle", Goto(r, "idle")
  PROVE  /\ UNCHANGED mix /\ pc' = [pc EXCEPT ![r] = "idle"]
         /\ job' = [job EXCEPT ![r] = NoJob]
         /\ pc'[r] = "idle" /\ job'[r] = NoJob
         /\ \A q \in Requests \ {r} : pc'[q] = pc[q] /\ job'[q] = job[q]
         /\ Fits(r)' /\ ~Holds(r)' /\ ~Late(r)' /\ Early(r)'
         /\ "idle" \in Stages
BY DEF IInv, Types, Goto, Fits, Holds, Late, Early, Stages

LEMMA CreateSessionIInv ==
  ASSUME IInv, NEW r \in Requests, CreateSession(r)
  PROVE  IInv'
<1>0. /\ Types /\ Fits(r) /\ pc[r] = "session" /\ job[r] \in Job
      /\ job[r].kind \in {"login", "mfa", "recover", "usekey"}
      /\ UNCHANGED <<account, password, lost, token, fresh, granted, carried,
                  totp, generated, confirmed, overlap, set, crossed,
                  passkey, count, signed, accepted, overrun>>
  BY DEF CreateSession, IInv, Jobs, Fits, Staged, user, oauth, second, codes, keys
<1>1. /\ UNCHANGED mix /\ pc' = [pc EXCEPT ![r] = "idle"]
      /\ job' = [job EXCEPT ![r] = NoJob]
      /\ pc'[r] = "idle" /\ job'[r] = NoJob
      /\ \A q \in Requests \ {r} : pc'[q] = pc[q] /\ job'[q] = job[q]
      /\ Fits(r)' /\ ~Holds(r)' /\ ~Late(r)' /\ Early(r)'
      /\ "idle" \in Stages
  BY <1>0, AnswerStep DEF CreateSession
<1>2. CASE UNCHANGED <<session, overtaken, answers>>
  BY <1>0, <1>1, <1>2, GotoIInv DEF CreateSession, data, user, store, signin, oauth, second, codes,
                                keys
<1>3. ASSUME Exists, NEW s \in FreshSessions,
             session' = [session EXCEPT ![s] = [state |-> "live", pw |-> Basis(r)]],
             overtaken' = IF Basis(r) # password THEN overtaken \union {s} ELSE overtaken,
             answers' = IF job[r].token = NoToken THEN answers
                        ELSE [answers EXCEPT ![job[r].token] = @ + 1]
      PROVE  IInv'
  <2>0. PICK b : b = Basis(r)
    OBVIOUS
  <2>1. b \in 0..MaxPassword
    <3>1. CASE job[r].kind = "login"
      BY <1>0, <2>0, <3>1 DEF Basis, Job
    <3>2. CASE job[r].kind = "mfa"
      <4>1. job[r].token \in Tokens
        BY <1>0, <3>2 DEF Fits, Presenting
      <4>2. b = token[job[r].token].pw
        BY <2>0, <3>2 DEF Basis
      <4> QED BY <1>0, <4>1, <4>2 DEF Types, Row
    <3>3. CASE job[r].kind \notin {"login", "mfa"}
      <4>1. b = password
        BY <2>0, <3>3 DEF Basis
      <4> QED BY <1>0, <4>1, AccountAssumption DEF Types, AccountAssumption
    <3> QED BY <3>1, <3>2, <3>3
  <2>2. /\ s \in Sessions
        /\ session' \in [Sessions -> Session]
        /\ session'[s] = [state |-> "live", pw |-> b]
        /\ \A x \in Sessions \ {s} : session'[x] = session[x]
    BY <1>0, <1>3, <2>0, <2>1, MixAssumption
    DEF MixAssumption, FreshSessions, Types, Session, Mix
  <2>3. /\ overtaken \subseteq overtaken' /\ overtaken' \subseteq Sessions
        /\ b = password \/ s \in overtaken'
    BY <1>0, <1>3, <2>0, <2>2 DEF Types
  <2>4. /\ answers' \in [Tokens -> Nat]
        /\ \A x \in Tokens : x # job[r].token => answers'[x] = answers[x]
        /\ job[r].token # NoToken =>
             /\ job[r].token \in Tokens /\ answers'[job[r].token] = 1
             /\ token[job[r].token].state = "used" /\ Holds(r)
    <3>1. CASE job[r].token = NoToken
      BY <1>0, <1>3, <3>1 DEF Types
    <3>2. CASE job[r].token # NoToken
      <4>1. Holds(r) /\ job[r].token \in Tokens
        BY <1>0, <3>2 DEF Holds, Fits
      <4>2. answers[job[r].token] = 0 /\ token[job[r].token].state = "used"
        BY <4>1 DEF IInv, TokenInv
      <4> QED BY <1>0, <1>3, <3>2, <4>1, <4>2 DEF Types
    <3> QED BY <3>1, <3>2
  <2>5. Types' /\ Jobs'
    <3>1. Monotone
      BY <1>0, <1>1 DEF Monotone, Types
    <3> QED BY <1>0, <1>1, <2>2, <2>3, <2>4, <3>1, Frame DEF Types
  <2>6. TokenInv'
    <3>1. \A q \in Requests \ {r} : Holds(q)' <=> Holds(q)
      BY <1>1 DEF Holds
    <3>2. Blankness'
      BY <1>0 DEF IInv, TokenInv, Blankness, Is
    <3>3. \A x \in Tokens : answers'[x] = 0 \/ (answers'[x] = 1 /\ token'[x].state = "used")
      BY <1>0, <2>4, AccountAssumption DEF AccountAssumption, IInv, TokenInv
    <3>4. \A q \in Requests \ {r} : Holds(q) =>
            /\ job[q].token \in Tokens /\ job[q].token # job[r].token
            /\ token[job[q].token].state = "used" /\ answers[job[q].token] = 0
      BY <2>4 DEF IInv, TokenInv, Holds, Jobs, Fits
    <3>5. \A q \in Requests : Holds(q)' =>
             /\ token'[job'[q].token].state = "used" /\ answers'[job'[q].token] = 0
      BY <1>0, <1>1, <2>4, <3>1, <3>4
    <3>6. \A p, q \in Requests : Holds(p)' /\ Holds(q)' /\ job'[q].token = job'[p].token => q = p
      BY <1>1, <3>1 DEF IInv, TokenInv
    <3> QED BY <3>2, <3>3, <3>5, <3>6 DEF TokenInv
  <2>7. UsedMailVerifies'
    BY <1>0, <1>1, Frame
  <2>8. ~Unsettled
    BY <1>0 DEF IInv, AccountInv, Early
  <2>9. AccountInv'
    BY <1>0, <1>3, <2>8 DEF AccountInv, Unsettled, Exists
  <2>10. PasswordInv'
    <3>1. \A x \in Sessions : Rests(x) => Rests(x)'
      BY <1>0, <2>2, <2>3 DEF Rests
    <3>2. Rests(s)'
      BY <1>0, <2>2, <2>3 DEF Rests
    <3>3. \A w \in Requests : Sweeps(w) => Sweeps(w)'
      BY <1>0, <1>1, <3>1 DEF Sweeps
    <3>4. \/ \A x \in Sessions : Live(x)' => Rests(x)'
          \/ \E w \in Requests : Sweeps(w)'
      BY <2>2, <3>1, <3>2, <3>3 DEF IInv, PasswordInv, Live
    <3> QED BY <3>4 DEF PasswordInv
  <2>11. OauthInv'
    <3>1. \A q \in Requests : Late(q)' => Late(q)
      BY <1>1 DEF Late
    <3>2. \A x \in Tokens : answers'[x] = 0 => answers[x] = 0
      BY <2>4, AccountAssumption DEF AccountAssumption
    <3> QED BY <1>0, <3>1, <3>2, OauthFrame DEF Is
  <2>12. FactorInv' /\ SetInv' /\ KeyInv'
    BY <1>0, <1>1, Frame
  <2> QED BY <2>5, <2>6, <2>7, <2>9, <2>10, <2>11, <2>12 DEF IInv
<1> QED BY <1>2, <1>3 DEF CreateSession

LEMMA MarkReauthIInv ==
  ASSUME IInv, NEW r \in Requests, MarkReauth(r)
  PROVE  IInv'
<1>0. /\ Types /\ Fits(r) /\ pc[r] = "markreauth" /\ job[r].kind = "reauth"
      /\ job[r].self \in Sessions
      /\ UNCHANGED <<account, password, lost, token, answers, session, granted, carried,
                  overtaken, totp, generated, confirmed, overlap, set, crossed,
                  passkey, count, signed, accepted, overrun>>
  BY DEF MarkReauth, IInv, Jobs, Fits, Staged, user, store, oauth, second, codes, keys
<1>1. /\ UNCHANGED mix /\ pc' = [pc EXCEPT ![r] = "idle"]
      /\ job' = [job EXCEPT ![r] = NoJob]
      /\ pc'[r] = "idle" /\ job'[r] = NoJob
      /\ \A q \in Requests \ {r} : pc'[q] = pc[q] /\ job'[q] = job[q]
      /\ Fits(r)' /\ ~Holds(r)' /\ ~Late(r)' /\ Early(r)'
      /\ "idle" \in Stages
  BY <1>0, AnswerStep DEF MarkReauth
<1>2. fresh' \subseteq Sessions
  BY <1>0 DEF MarkReauth, Types
<1>3. Types' /\ Jobs'
  <2>1. Monotone
    BY <1>0, <1>1 DEF Monotone, Types
  <2> QED BY <1>0, <1>1, <1>2, <2>1, Frame DEF Types
<1>4. ~Unsettled
  BY <1>0 DEF IInv, AccountInv, Early
<1>5. AccountInv'
  BY <1>0, <1>4 DEF IInv, AccountInv, Unsettled, NoFactors, Live, Open, Is, Challenge
<1>6. TokenInv' /\ UsedMailVerifies' /\ PasswordInv' /\ OauthInv'
  BY <1>0, <1>1, Frame
<1>7. FactorInv' /\ SetInv' /\ KeyInv'
  BY <1>0, <1>1, Frame
<1> QED BY <1>3, <1>5, <1>6, <1>7 DEF IInv

\* Ending sessions leaves their passwords, and what other sessions rest on.
LEMMA EndSessions ==
  ASSUME IInv, NEW S \in SUBSET Sessions, session' = Ended(S)
  PROVE  /\ session' \in [Sessions -> Session]
         /\ \A s \in Sessions : session'[s].pw = session[s].pw
         /\ \A s \in Sessions : Live(s)' <=> Live(s) /\ s \notin S
         /\ \A s \in Sessions : session[s].state = "none" => session'[s].state = "none"
         /\ \A s \in Sessions : ~Live(s) => session'[s] = session[s]
<1>1. session \in [Sessions -> Session]
  BY DEF IInv, Types
<1>2. \A s \in Sessions : session'[s] = IF s \in S /\ Live(s)
         THEN [session[s] EXCEPT !.state = "ended"] ELSE session[s]
  BY DEF Ended
<1>3. ASSUME NEW s \in Sessions
      PROVE  LET e == [session[s] EXCEPT !.state = "ended"] IN
             e \in Session /\ e.pw = session[s].pw /\ e.state = "ended"
  BY <1>1 DEF Session
<1>4. \A s \in Sessions : session'[s] \in Session
  BY <1>1, <1>2, <1>3
<1>5. session' \in [Sessions -> Session]
  BY <1>4 DEF Ended
<1> QED BY <1>1, <1>2, <1>3, <1>5 DEF Live

LEMMA RevokeIInv ==
  ASSUME IInv, NEW r \in Requests, Revoke(r)
  PROVE  IInv'
<1>0. /\ Types /\ Fits(r) /\ pc[r] = "revoke" /\ job[r].kind \in {"logout", "end"}
      /\ job[r].target \in Sessions
      /\ UNCHANGED <<account, password, lost, token, answers, fresh, granted, carried,
                  overtaken, totp, generated, confirmed, overlap, set, crossed,
                  passkey, count, signed, accepted, overrun>>
  BY DEF Revoke, IInv, Jobs, Fits, Staged, user, store, oauth, second, codes, keys
<1>1. /\ UNCHANGED mix /\ pc' = [pc EXCEPT ![r] = "idle"]
      /\ job' = [job EXCEPT ![r] = NoJob]
      /\ pc'[r] = "idle" /\ job'[r] = NoJob
      /\ \A q \in Requests \ {r} : pc'[q] = pc[q] /\ job'[q] = job[q]
      /\ Fits(r)' /\ ~Holds(r)' /\ ~Late(r)' /\ Early(r)'
      /\ "idle" \in Stages
  BY <1>0, AnswerStep DEF Revoke
<1>2. PICK t \in Sessions : session' = [session EXCEPT ![t].state = "ended"]
  BY <1>0 DEF Revoke
<1>3. /\ session' \in [Sessions -> Session]
      /\ \A s \in Sessions : session'[s].pw = session[s].pw
      /\ \A s \in Sessions : Live(s)' => Live(s)
  BY <1>0, <1>2 DEF Types, Session, Live
<1>4. Types' /\ Jobs'
  <2>1. Monotone
    BY <1>0, <1>1 DEF Monotone, Types
  <2> QED BY <1>0, <1>1, <1>3, <2>1, Frame DEF Types
<1>5. ~Unsettled
  BY <1>0 DEF IInv, AccountInv, Early
<1>6. AccountInv'
  BY <1>0, <1>3, <1>5 DEF IInv, AccountInv, Unsettled, NoFactors, Open, Is, Challenge
<1>7. PasswordInv'
  <2>1. \A x \in Sessions : Rests(x)' <=> Rests(x)
    BY <1>0, <1>3 DEF Rests
  <2>2. \A w \in Requests : Sweeps(w) => Sweeps(w)'
    BY <1>0, <1>1, <2>1 DEF Sweeps
  <2> QED BY <1>3, <2>1, <2>2 DEF IInv, PasswordInv
<1>8. TokenInv' /\ UsedMailVerifies' /\ OauthInv'
  BY <1>0, <1>1, Frame
<1>9. FactorInv' /\ SetInv' /\ KeyInv'
  BY <1>0, <1>1, Frame
<1> QED BY <1>4, <1>6, <1>7, <1>8, <1>9 DEF IInv

LEMMA SweepSessionsIInv ==
  ASSUME IInv, NEW r \in Requests, SweepSessions(r)
  PROVE  IInv'
<1>0. /\ Types /\ Fits(r) /\ pc[r] = "sweep" /\ job[r].kind \in {"endothers", "reset", "change"}
      /\ UNCHANGED <<account, password, lost, token, answers, fresh, granted, carried,
                  overtaken, totp, generated, confirmed, overlap, set, crossed,
                  passkey, count, signed, accepted, overrun>>
  BY DEF SweepSessions, IInv, Jobs, Fits, Staged, user, store, oauth, second, codes, keys
<1>1. /\ UNCHANGED mix /\ pc' = [pc EXCEPT ![r] = "idle"]
      /\ job' = [job EXCEPT ![r] = NoJob]
      /\ pc'[r] = "idle" /\ job'[r] = NoJob
      /\ \A q \in Requests \ {r} : pc'[q] = pc[q] /\ job'[q] = job[q]
      /\ Fits(r)' /\ ~Holds(r)' /\ ~Late(r)' /\ Early(r)'
      /\ "idle" \in Stages
  BY <1>0, AnswerStep DEF SweepSessions
<1>2. PICK S \in SUBSET Sessions : S = Sessions \ {job[r].self}
  OBVIOUS
<1>3. /\ session' \in [Sessions -> Session]
      /\ \A s \in Sessions : session'[s].pw = session[s].pw
      /\ \A s \in Sessions : Live(s)' <=> Live(s) /\ s \notin S
      /\ \A s \in Sessions : session[s].state = "none" => session'[s].state = "none"
  <2>1. session' = Ended(S)
    BY <1>2 DEF SweepSessions
  <2> QED BY <2>1, EndSessions
<1>4. Types' /\ Jobs'
  <2>1. Monotone
    BY <1>0, <1>1 DEF Monotone, Types
  <2> QED BY <1>0, <1>1, <1>3, <2>1, Frame DEF Types
<1>5. \A q \in Requests : Early(q) => Early(q)'
  BY <1>1 DEF Early
<1>6. AccountInv'
  BY <1>0, <1>3, <1>5 DEF IInv, AccountInv, Unsettled, NoFactors, Open, Is, Challenge
<1>7. PasswordInv'
  <2>1. \A x \in Sessions : Rests(x)' <=> Rests(x)
    BY <1>0, <1>3 DEF Rests
  <2>2. \A w \in Requests \ {r} : Sweeps(w) => Sweeps(w)'
    BY <1>0, <1>1, <2>1 DEF Sweeps
  <2>3. Sweeps(r) => \A x \in Sessions : Live(x)' => Rests(x)
    BY <1>2, <1>3 DEF Sweeps
  <2> QED BY <1>3, <2>1, <2>2, <2>3 DEF IInv, PasswordInv
<1>8. TokenInv' /\ UsedMailVerifies' /\ OauthInv'
  BY <1>0, <1>1, Frame
<1>9. FactorInv' /\ SetInv' /\ KeyInv'
  BY <1>0, <1>1, Frame
<1> QED BY <1>4, <1>6, <1>7, <1>8, <1>9 DEF IInv

----------------------------------------------------------------------------
(* Replacing the password                                                  *)

LEMMA RevokeTokensIInv ==
  ASSUME IInv, NEW r \in Requests, RevokeTokens(r)
  PROVE  IInv'
<1>0. /\ Types /\ Fits(r) /\ pc[r] = "tokens" /\ job[r].kind \in {"reset", "change", "erase"}
      /\ job[r] \in Job /\ granted' = {} /\ carried' = carried \union Unanswered
      /\ UNCHANGED <<account, password, lost, token, answers, session, fresh, overtaken,
                  totp, generated, confirmed, overlap, set, crossed,
                  passkey, count, signed, accepted, overrun>>
  BY DEF RevokeTokens, IInv, Jobs, Fits, Staged, user, store, second, codes, keys, Unanswered
<1>1. PICK to \in {"consume", "write", "erase"} :
        /\ Goto(r, to)
        /\ to = "consume" <=> job[r].kind = "reset"
        /\ to = "write" <=> job[r].kind = "change"
        /\ to = "erase" <=> job[r].kind = "erase"
  <2>1. CASE job[r].kind = "reset"
    BY <2>1 DEF RevokeTokens
  <2>2. CASE job[r].kind = "change"
    BY <2>2 DEF RevokeTokens
  <2>3. CASE job[r].kind = "erase"
    BY <2>3 DEF RevokeTokens
  <2> QED BY <1>0, <2>1, <2>2, <2>3
<1>2. /\ UNCHANGED mix /\ pc' = [pc EXCEPT ![r] = to] /\ job' = [job EXCEPT ![r] = job[r]]
      /\ pc'[r] = to /\ job'[r] = job[r] /\ to \in Stages
      /\ \A q \in Requests \ {r} : pc'[q] = pc[q] /\ job'[q] = job[q]
  BY <1>0, <1>1 DEF Goto, Types, Stages
<1>3. Types' /\ Jobs'
  <2>1. Monotone
    BY <1>0, <1>2 DEF Monotone, Types
  <2>2. Staged(to, job[r].kind)
    BY <1>1 DEF Staged
  <2>3. Fits(r)'
    BY <1>0, <1>1, <1>2, <2>2 DEF Fits, Is
  <2>4. granted' \subseteq Tokens /\ carried' \subseteq Tokens
    BY <1>0 DEF Types, Unanswered
  <2> QED BY <1>0, <1>2, <2>1, <2>3, <2>4, Frame DEF Types
<1>4. ~Holds(r)' /\ (Unsettled => Early(r)')
  <2>1. Unsettled => Early(r)
    BY DEF IInv, AccountInv
  <2>2. job[r].kind # "reset" => job[r].token = NoToken
    BY <1>0 DEF Fits, Presenting
  <2> QED BY <1>0, <1>1, <1>2, <2>1, <2>2 DEF Holds, Early
<1>5. OauthInv'
  BY <1>0 DEF OauthInv, TokensEndWithPassword, Unanswered, Is
<1>6. TokenInv' /\ UsedMailVerifies' /\ AccountInv' /\ PasswordInv'
  BY <1>0, <1>2, <1>4, Frame
<1>7. FactorInv' /\ SetInv' /\ KeyInv'
  BY <1>0, <1>1, <1>2, Frame
<1> QED BY <1>3, <1>5, <1>6, <1>7 DEF IInv

LEMMA WritePasswordIInv ==
  ASSUME IInv, NEW r \in Requests, WritePassword(r)
  PROVE  IInv'
<1>0. /\ Types /\ Fits(r) /\ pc[r] = "write" /\ job[r].kind \in {"reset", "change"}
      /\ job[r] \in Job /\ Goto(r, "sweep")
      /\ UNCHANGED <<account, lost, token, fresh, granted, carried, overtaken,
                  totp, generated, confirmed, overlap, set, crossed,
                  passkey, count, signed, accepted, overrun>>
  BY DEF WritePassword, IInv, Jobs, Fits, Staged, oauth, second, codes, keys
<1>1. CASE UNCHANGED <<password, session, answers>>
  BY <1>0, <1>1, GotoIInv DEF data, user, store, signin, oauth, second, codes, keys, Stages, Staged
<1>2. ASSUME Exists, password < MaxPassword, password' = password + 1,
             \/ /\ job[r].kind = "change"
                /\ session' = [session EXCEPT ![job[r].self].pw = password + 1]
                /\ UNCHANGED answers
             \/ /\ job[r].kind # "change"
                /\ answers' = [answers EXCEPT ![job[r].token] = @ + 1]
                /\ UNCHANGED session
      PROVE  IInv'
  <2>1. /\ UNCHANGED mix /\ pc' = [pc EXCEPT ![r] = "sweep"]
        /\ job' = [job EXCEPT ![r] = job[r]]
        /\ pc'[r] = "sweep" /\ job'[r] = job[r] /\ "sweep" \in Stages
        /\ \A q \in Requests \ {r} : pc'[q] = pc[q] /\ job'[q] = job[q]
    BY <1>0 DEF Goto, Types, Stages
  <2>2. /\ session' \in [Sessions -> Session]
        /\ job[r].kind = "change" =>
             job[r].self \in Sessions /\ session'[job[r].self].pw = password'
        /\ \A x \in Sessions : Live(x)' <=> Live(x)
        /\ \A x \in Sessions : session'[x].state = session[x].state
    <3>1. CASE job[r].kind = "change"
      <4>1. job[r].self \in Sessions
        BY <1>0, <3>1 DEF Fits
      <4>2. password + 1 \in 0..MaxPassword
        BY <1>0, <1>2, AccountAssumption DEF AccountAssumption, Types
      <4>3. session' = [session EXCEPT ![job[r].self].pw = password + 1]
        BY <1>2, <3>1
      <4> QED BY <1>0, <1>2, <4>1, <4>2, <4>3 DEF Types, Session, Live
    <3>2. CASE job[r].kind # "change"
      BY <1>0, <1>2, <3>2 DEF Types, Live
    <3> QED BY <3>1, <3>2
  <2>3. /\ answers' \in [Tokens -> Nat]
        /\ \A x \in Tokens : x # job[r].token => answers'[x] = answers[x]
        /\ job[r].kind = "reset" =>
             /\ job[r].token \in Tokens /\ job[r].token # NoToken /\ answers'[job[r].token] = 1
             /\ token[job[r].token].state = "used" /\ Holds(r)
        /\ job[r].kind = "change" => UNCHANGED answers
    <3>1. CASE job[r].kind = "change"
      BY <1>0, <1>2, <3>1 DEF Types
    <3>2. CASE job[r].kind = "reset"
      <4>1. job[r].token \in Tokens /\ job[r].token # NoToken
        BY <1>0, <3>2, AccountAssumption DEF Fits, Presenting, AccountAssumption
      <4>2. Holds(r)
        BY <1>0, <4>1 DEF Holds
      <4>3. answers[job[r].token] = 0 /\ token[job[r].token].state = "used"
        BY <4>2 DEF IInv, TokenInv
      <4> QED BY <1>0, <1>2, <3>2, <4>1, <4>2, <4>3 DEF Types
    <3> QED BY <1>0, <3>1, <3>2
  <2>4. password' \in 1..MaxPassword
    BY <1>0, <1>2, AccountAssumption DEF AccountAssumption, Types
  <2>5. Types' /\ Jobs'
    <3>1. Monotone
      BY <1>0, <2>1 DEF Monotone, Types
    <3>2. Fits(r)'
      BY <1>0, <2>1 DEF Fits, Is, Staged
    <3> QED BY <1>0, <2>1, <2>2, <2>3, <2>4, <3>1, <3>2, Frame DEF Types
  <2>6. TokenInv'
    <3>1. ~Holds(r)' /\ \A q \in Requests \ {r} : Holds(q)' <=> Holds(q)
      BY <2>1 DEF Holds
    <3>2. Blankness'
      BY <1>0 DEF IInv, TokenInv, Blankness, Is
    <3>3. \A x \in Tokens : answers'[x] = 0 \/ (answers'[x] = 1 /\ token'[x].state = "used")
      BY <1>0, <2>3 DEF IInv, TokenInv
    <3>4. \A q \in Requests \ {r} : Holds(q) =>
            /\ job[q].token \in Tokens
            /\ job[r].kind = "reset" => job[q].token # job[r].token
            /\ token[job[q].token].state = "used" /\ answers[job[q].token] = 0
      BY <2>3 DEF IInv, TokenInv, Holds, Jobs, Fits
    <3>5. \A q \in Requests : Holds(q)' =>
             /\ token'[job'[q].token].state = "used" /\ answers'[job'[q].token] = 0
      BY <1>0, <2>1, <2>3, <3>1, <3>4
    <3>6. \A p, q \in Requests : Holds(p)' /\ Holds(q)' /\ job'[q].token = job'[p].token => q = p
      BY <2>1, <3>1 DEF IInv, TokenInv
    <3> QED BY <3>2, <3>3, <3>5, <3>6 DEF TokenInv
  <2>7. UsedMailVerifies'
    BY <1>0, <2>1, Frame
  <2>8. AccountInv'
    <3>1. \A q \in Requests : Early(q) => Early(q)'
      BY <1>0, <2>1 DEF Early
    <3> QED BY <1>0, <2>2, <3>1 DEF IInv, AccountInv, Unsettled, NoFactors, Open, Is, Challenge
  <2>9. PasswordInv' /\ OauthInv'
    <3>1. Sweeps(r)'
      BY <1>0, <2>1, <2>2, AccountAssumption DEF Sweeps, Rests, Fits, AccountAssumption
    <3>2. granted \subseteq carried /\ Unanswered \subseteq carried
      BY <1>0 DEF IInv, OauthInv, Late
    <3>3. Unanswered' \subseteq Unanswered
      <4>1. \A x \in Tokens : answers'[x] = 0 => answers[x] = 0
        BY <1>0, <2>3
      <4> QED BY <1>0, <4>1 DEF Unanswered, Is
    <3>4. \A x \in granted' : Is(x, "authcode")'
      BY <1>0 DEF IInv, OauthInv, Is
    <3> QED BY <1>0, <3>1, <3>2, <3>3, <3>4 DEF PasswordInv, OauthInv, TokensEndWithPassword
  <2>10. FactorInv' /\ SetInv' /\ KeyInv'
    BY <1>0, <2>1, Frame
  <2> QED BY <2>5, <2>6, <2>7, <2>8, <2>9, <2>10 DEF IInv
<1>3. CASE ~Exists
  BY <1>1, <1>3 DEF WritePassword
<1>4. CASE Exists
  BY <1>2, <1>4 DEF WritePassword
<1> QED BY <1>3, <1>4

----------------------------------------------------------------------------
(* OAuth tokens                                                            *)

\* What is granted was still to be answered, or is carried if a revocation
\* missed it.
LEMMA GrantKeepsOauth ==
  ASSUME IInv, NEW r \in Requests, Grant(r), UNCHANGED <<password, token>>,
         job[r].token \in Tokens, Is(job[r].token, "authcode"),
         job[r].kind = "refresh" \/ job[r].token \in Unanswered,
         \A t \in Tokens : answers'[t] = 0 => answers[t] = 0,
         \A q \in Requests : Late(q)' => Late(q)
  PROVE  OauthInv' /\ granted' \subseteq Tokens /\ carried' \subseteq Tokens
<1>1. PICK t \in Tokens :
        /\ t = job[r].token /\ Is(t, "authcode")
        /\ granted' = granted \union {t} /\ carried \subseteq carried'
        /\ carried' \subseteq carried \union {t}
        /\ t \in carried' \/ t \in granted \/ t \in Unanswered
  BY DEF Grant
<1>2. Unanswered' \subseteq Unanswered
  BY DEF Unanswered, Is
<1>3. t \in carried' \/ token[t].pw = password
  BY <1>1 DEF IInv, OauthInv, TokensEndWithPassword
<1>4. (\E q \in Requests : Late(q)) => t \in carried'
  BY <1>1 DEF IInv, OauthInv
<1>5. granted' \subseteq Tokens /\ carried' \subseteq Tokens
  BY <1>1 DEF IInv, Types
<1>6. TokensEndWithPassword' /\ \A x \in granted' : Is(x, "authcode")'
  BY <1>1, <1>3 DEF IInv, OauthInv, TokensEndWithPassword, Is
<1>7. \A x \in Unanswered' : token'[x].pw = password' \/ x \in carried'
  BY <1>1, <1>2 DEF IInv, OauthInv
<1>8. \A q \in Requests : Late(q)' => granted' \subseteq carried' /\ Unanswered' \subseteq carried'
  BY <1>1, <1>2, <1>4 DEF IInv, OauthInv
<1> QED BY <1>5, <1>6, <1>7, <1>8 DEF OauthInv

LEMMA RotateIInv ==
  ASSUME IInv, NEW r \in Requests, Rotate(r)
  PROVE  IInv'
<1>0. /\ Types /\ Fits(r) /\ pc[r] = "renew" /\ job[r].kind = "refresh" /\ job[r] \in Job
      /\ job[r].token \in Tokens /\ Is(job[r].token, "authcode")
      /\ Grant(r) /\ Goto(r, "mint") /\ ~Unsettled
      /\ UNCHANGED <<account, password, lost, token, answers, session, fresh, overtaken,
                  totp, generated, confirmed, overlap, set, crossed,
                  passkey, count, signed, accepted, overrun>>
  BY DEF Rotate, IInv, Jobs, Fits, Staged, Presenting, UseOf, AccountInv, Early,
         user, store, second, codes, keys
<1>1. /\ UNCHANGED mix /\ pc' = [pc EXCEPT ![r] = "mint"] /\ job' = [job EXCEPT ![r] = job[r]]
      /\ pc'[r] = "mint" /\ job'[r] = job[r] /\ "mint" \in Stages
      /\ \A q \in Requests \ {r} : pc'[q] = pc[q] /\ job'[q] = job[q]
  BY <1>0 DEF Goto, Types, Stages
<1>2. ~Holds(r)' /\ \A q \in Requests : Late(q)' => Late(q)
  BY <1>0, <1>1 DEF Holds, Late
<1>3. OauthInv' /\ granted' \subseteq Tokens /\ carried' \subseteq Tokens
  BY <1>0, <1>2, GrantKeepsOauth
<1>4. Types' /\ Jobs'
  <2>1. Monotone
    BY <1>0, <1>1 DEF Monotone, Types
  <2>2. Fits(r)'
    BY <1>0, <1>1 DEF Fits, Is, Staged
  <2> QED BY <1>0, <1>1, <1>3, <2>1, <2>2, Frame DEF Types
<1>5. TokenInv' /\ UsedMailVerifies' /\ AccountInv' /\ PasswordInv'
  BY <1>0, <1>1, <1>2, Frame
<1>6. FactorInv' /\ SetInv' /\ KeyInv'
  BY <1>0, <1>1, Frame
<1> QED BY <1>3, <1>4, <1>5, <1>6 DEF IInv

LEMMA MintTokensIInv ==
  ASSUME IInv, NEW r \in Requests, MintTokens(r)
  PROVE  IInv'
<1>0. /\ Types /\ Fits(r) /\ pc[r] = "mint" /\ job[r].kind \in {"exchange", "refresh"}
      /\ job[r] \in Job /\ job[r].token \in Tokens /\ Is(job[r].token, "authcode")
      /\ job[r].token # NoToken
      /\ Goto(r, "idle")
      /\ UNCHANGED <<account, password, lost, token, session, fresh, overtaken,
                  totp, generated, confirmed, overlap, set, crossed,
                  passkey, count, signed, accepted, overrun>>
  BY AccountAssumption
  DEF AccountAssumption, MintTokens, IInv, Jobs, Fits, Staged, Presenting, UseOf,
      user, second, codes, keys
<1>1. CASE UNCHANGED <<granted, carried, answers>>
  BY <1>0, <1>1, GotoIInv DEF data, user, store, signin, oauth, second, codes, keys, Stages
<1>2. CASE /\ Grant(r)
           /\ answers' = IF job[r].kind = "exchange"
                           THEN [answers EXCEPT ![job[r].token] = @ + 1] ELSE answers
  <2>1. /\ UNCHANGED mix /\ pc' = [pc EXCEPT ![r] = "idle"]
        /\ job' = [job EXCEPT ![r] = NoJob]
        /\ pc'[r] = "idle" /\ job'[r] = NoJob
        /\ \A q \in Requests \ {r} : pc'[q] = pc[q] /\ job'[q] = job[q]
        /\ Fits(r)' /\ ~Holds(r)' /\ ~Late(r)' /\ Early(r)'
        /\ "idle" \in Stages
    BY <1>0, AnswerStep
  <2>2. /\ answers' \in [Tokens -> Nat]
        /\ \A x \in Tokens : x # job[r].token => answers'[x] = answers[x]
        /\ job[r].kind = "exchange" =>
             /\ answers[job[r].token] = 0 /\ answers'[job[r].token] = 1
             /\ token[job[r].token].state = "used" /\ Holds(r)
        /\ job[r].kind = "refresh" => UNCHANGED answers
    <3>1. CASE job[r].kind = "exchange"
      <4>1. Holds(r)
        BY <1>0, <3>1 DEF Holds
      <4>2. answers[job[r].token] = 0 /\ token[job[r].token].state = "used"
        BY <4>1 DEF IInv, TokenInv
      <4> QED BY <1>0, <1>2, <3>1, <4>1, <4>2 DEF Types
    <3>2. CASE job[r].kind = "refresh"
      BY <1>0, <1>2, <3>2 DEF Types
    <3> QED BY <1>0, <3>1, <3>2
  <2>3. OauthInv' /\ granted' \subseteq Tokens /\ carried' \subseteq Tokens
    <3>1. \A q \in Requests : Late(q)' => Late(q)
      BY <2>1 DEF Late
    <3>2. job[r].kind = "refresh" \/ job[r].token \in Unanswered
      BY <1>0, <2>2 DEF Unanswered
    <3>3. \A x \in Tokens : answers'[x] = 0 => answers[x] = 0
      BY <1>0, <2>2
    <3> QED BY <1>0, <1>2, <3>1, <3>2, <3>3, GrantKeepsOauth
  <2>4. Types' /\ Jobs'
    <3>1. Monotone
      BY <1>0, <2>1 DEF Monotone, Types
    <3> QED BY <1>0, <2>1, <2>2, <2>3, <3>1, Frame DEF Types
  <2>5. TokenInv'
    <3>1. \A q \in Requests \ {r} : Holds(q)' <=> Holds(q)
      BY <2>1 DEF Holds
    <3>2. Blankness'
      BY <1>0 DEF IInv, TokenInv, Blankness, Is
    <3>3. \A x \in Tokens : answers'[x] = 0 \/ (answers'[x] = 1 /\ token'[x].state = "used")
      BY <1>0, <2>2 DEF IInv, TokenInv
    <3>4. \A q \in Requests \ {r} : Holds(q) =>
            /\ job[q].token \in Tokens
            /\ job[r].kind = "exchange" => job[q].token # job[r].token
            /\ token[job[q].token].state = "used" /\ answers[job[q].token] = 0
      BY <2>2 DEF IInv, TokenInv, Holds, Jobs, Fits
    <3>5. \A q \in Requests : Holds(q)' =>
             /\ token'[job'[q].token].state = "used" /\ answers'[job'[q].token] = 0
      BY <1>0, <2>1, <2>2, <3>1, <3>4
    <3>6. \A p, q \in Requests : Holds(p)' /\ Holds(q)' /\ job'[q].token = job'[p].token => q = p
      BY <2>1, <3>1 DEF IInv, TokenInv
    <3> QED BY <3>2, <3>3, <3>5, <3>6 DEF TokenInv
  <2>6. UsedMailVerifies' /\ PasswordInv' /\ AccountInv'
    BY <1>0, <2>1, Frame
  <2>7. FactorInv' /\ SetInv' /\ KeyInv'
    BY <1>0, <2>1, Frame
  <2> QED BY <2>3, <2>4, <2>5, <2>6, <2>7 DEF IInv
<1> QED BY <1>1, <1>2 DEF MintTokens, oauth

----------------------------------------------------------------------------
(* The account                                                             *)

LEMMA RegisterIInv ==
  ASSUME IInv, NEW r \in Requests, Register(r)
  PROVE  IInv'
<1>0. /\ Types /\ pc[r] = "idle" /\ account = "none" /\ account' = "pending"
      /\ UNCHANGED <<mix, password, lost, token, answers, session, fresh, granted, carried,
                  overtaken, totp, generated, confirmed, overlap, set, crossed,
                  passkey, count, signed, accepted, overrun>>
  BY DEF Register, Begin, IInv, store, signin, oauth, second, codes, keys
<1>1. PICK j \in Job : j = Input("register") /\ j.kind = "register" /\ j.token = NoToken
  BY PlainInput DEF AllKinds
<1>2. /\ pc' = [pc EXCEPT ![r] = "mail"] /\ job' = [job EXCEPT ![r] = j]
      /\ pc'[r] = "mail" /\ job'[r] = j /\ "mail" \in Stages
      /\ \A q \in Requests \ {r} : pc'[q] = pc[q] /\ job'[q] = job[q]
  BY <1>0, <1>1 DEF Register, Begin, Types, Stages
<1>3. Types' /\ Jobs'
  <2>1. Monotone
    BY <1>0, <1>2 DEF Monotone, Types
  <2>2. Fits(r)'
    BY <1>1, <1>2 DEF Fits, Staged, Presenting
  <2> QED BY <1>0, <1>2, <2>1, <2>2, Frame DEF Types
<1>4. ~Holds(r)' /\ ~Late(r)' /\ Early(r)'
  BY <1>1, <1>2 DEF Holds, Late, Early
<1>5. UsedMailVerifies' /\ AccountInv'
  <2>1. \A q \in Requests \ {r} : Early(q) => Early(q)'
    BY <1>2 DEF Early
  <2>2. \A t \in Tokens : Is(t, "none") \/ Is(t, "usekey")
    BY <1>0 DEF IInv, AccountInv, Unsettled
  <2>3. UsedMailVerifies'
    BY <1>0, <2>2 DEF UsedMailVerifies, Is
  <2>4. AccountInv'
    BY <1>0, <1>4, <2>1, <2>2 DEF IInv, AccountInv, Unsettled, NoFactors, Live, Is
  <2> QED BY <2>3, <2>4
<1>6. TokenInv' /\ PasswordInv' /\ OauthInv'
  BY <1>0, <1>2, <1>4, Frame
<1>7. FactorInv' /\ SetInv' /\ KeyInv'
  BY <1>0, <1>2, Frame
<1> QED BY <1>3, <1>5, <1>6, <1>7 DEF IInv

LEMMA MarkVerifiedIInv ==
  ASSUME IInv, NEW r \in Requests, MarkVerified(r)
  PROVE  IInv'
<1>0. /\ Types /\ pc[r] = "mark"
      /\ account' = IF account = "pending" THEN "verified" ELSE account
      /\ UNCHANGED <<password, lost, token, answers, session, fresh, granted, carried,
                  overtaken, totp, generated, confirmed, overlap, set, crossed,
                  passkey, count, signed, accepted, overrun>>
  BY DEF MarkVerified, IInv, store, signin, oauth, second, codes, keys
<1>1. /\ UNCHANGED mix /\ pc' = [pc EXCEPT ![r] = "idle"]
      /\ job' = [job EXCEPT ![r] = NoJob]
      /\ pc'[r] = "idle" /\ job'[r] = NoJob
      /\ \A q \in Requests \ {r} : pc'[q] = pc[q] /\ job'[q] = job[q]
      /\ Fits(r)' /\ ~Holds(r)' /\ ~Late(r)' /\ Early(r)'
      /\ "idle" \in Stages
  BY <1>0, AnswerStep DEF MarkVerified
<1>3. Types' /\ Jobs'
  <2>1. Monotone
    BY <1>0, <1>1 DEF Monotone, Types
  <2> QED BY <1>0, <1>1, <2>1, Frame DEF Types
<1>4. UsedMailVerifies'
  BY <1>0 DEF UsedMailVerifies
<1>5. AccountInv'
  <2>1. CASE account = "pending"
    BY <1>0, <2>1 DEF AccountInv, Unsettled
  <2>2. CASE account # "pending"
    BY <1>0, <1>1, <2>2, Frame
  <2> QED BY <2>1, <2>2
<1>6. TokenInv' /\ PasswordInv' /\ OauthInv'
  BY <1>0, <1>1, Frame
<1>7. FactorInv' /\ SetInv' /\ KeyInv'
  BY <1>0, <1>1, Frame
<1> QED BY <1>3, <1>4, <1>5, <1>6, <1>7 DEF IInv

\* A token lapses: what that leaves.
LEMMA LapseTokens ==
  ASSUME IInv, token' \in [Tokens -> Row], UNCHANGED answers,
         \A t \in Tokens : token'[t].use = token[t].use,
         \A t \in Tokens : \/ token'[t].state = token[t].state
                           \/ Open(t) /\ token'[t].state = "lapsed",
         \A q \in Requests : Holds(q)' => Holds(q) /\ job'[q] = job[q]
  PROVE  TokenInv'
<1>1. Blankness'
  BY DEF IInv, TokenInv, Blankness, Is, Open
<1>2. \A x \in Tokens : answers'[x] = 0 \/ (answers'[x] = 1 /\ token'[x].state = "used")
  BY DEF IInv, TokenInv, Open
<1>3. \A q \in Requests : Holds(q) => job[q].token \in Tokens
  BY DEF IInv, Jobs, Fits, Holds
<1>4. \A q \in Requests : Holds(q)' =>
        /\ token'[job'[q].token].state = "used" /\ answers'[job'[q].token] = 0
  BY <1>3 DEF IInv, TokenInv, Open
<1>5. \A p, q \in Requests : Holds(p)' /\ Holds(q)' /\ job'[q].token = job'[p].token => q = p
  BY DEF IInv, TokenInv
<1> QED BY <1>1, <1>2, <1>4, <1>5 DEF TokenInv

LEMMA EraseAccountIInv ==
  ASSUME IInv, NEW r \in Requests, EraseAccount(r)
  PROVE  IInv'
<1>0. /\ Types /\ pc[r] = "erase" /\ job[r].kind = "erase" /\ account' = "erased"
      /\ UNCHANGED <<password, lost, answers, granted, carried, overtaken, generated, confirmed,
                     overlap, crossed, count, signed, accepted, overrun>>
      /\ fresh' = {} /\ totp' = NoTotp
      /\ session' = Ended(Sessions) /\ passkey' = Removed
  BY DEF EraseAccount, IInv, Jobs, Fits, Staged, oauth
<1>1. /\ UNCHANGED mix /\ pc' = [pc EXCEPT ![r] = "idle"]
      /\ job' = [job EXCEPT ![r] = NoJob]
      /\ pc'[r] = "idle" /\ job'[r] = NoJob
      /\ \A q \in Requests \ {r} : pc'[q] = pc[q] /\ job'[q] = job[q]
      /\ Fits(r)' /\ ~Holds(r)' /\ ~Late(r)' /\ Early(r)'
      /\ "idle" \in Stages
  BY <1>0, AnswerStep DEF EraseAccount
<1>2. /\ token' \in [Tokens -> Row]
      /\ \A t \in Tokens : token'[t].use = token[t].use /\ token'[t].pw = token[t].pw
      /\ \A t \in Tokens : \/ token'[t].state = token[t].state /\ (~Open(t) \/ Challenge(t))
                           \/ Open(t) /\ token'[t].state = "lapsed"
  <2>1. \A t \in Tokens : token'[t] = IF Open(t) /\ ~Challenge(t)
           THEN [token[t] EXCEPT !.state = "lapsed"] ELSE token[t]
    BY DEF EraseAccount
  <2>2. ASSUME NEW t \in Tokens
        PROVE  LET e == [token[t] EXCEPT !.state = "lapsed"] IN
               e \in Row /\ e.use = token[t].use /\ e.pw = token[t].pw /\ e.state = "lapsed"
    BY <1>0 DEF Types, Row, States
  <2>3. \A t \in Tokens : token'[t] \in Row
    BY <1>0, <2>1, <2>2 DEF Types
  <2>4. token' \in [Tokens -> Row]
    BY <2>3 DEF EraseAccount
  <2> QED BY <2>1, <2>2, <2>4
<1>3. /\ session' \in [Sessions -> Session]
      /\ \A s \in Sessions : ~Live(s)'
  BY <1>0, EndSessions
<1>4. /\ set' \in [Sets -> {"none", "active", "invalid"}]
      /\ \A x \in Sets : set'[x] # "active"
  BY <1>0 DEF EraseAccount, Types
<1>5. /\ passkey' \in {"none", "deleted"} /\ (passkey' = "none" => passkey = "none")
  BY <1>0 DEF Types, Removed
<1>6. totp' \in [secret : 0..generated', on : BOOLEAN] /\ ~totp'.on /\ totp'.secret = 0
  BY <1>0 DEF Types, NoTotp
<1>7. Types' /\ Jobs'
  <2>1. Monotone
    BY <1>0, <1>1, <1>2 DEF Monotone, Types
  <2> QED BY <1>0, <1>1, <1>2, <1>3, <1>4, <1>5, <1>6, <2>1, Frame DEF Types
<1>8. TokenInv'
  <2>1. \A q \in Requests : Holds(q)' => Holds(q) /\ job'[q] = job[q]
    BY <1>1 DEF Holds
  <2> QED BY <1>0, <1>2, <2>1, LapseTokens
<1>9. UsedMailVerifies'
  BY <1>0 DEF UsedMailVerifies
<1>10. AccountInv'
  <2>1. NoFactors'
    BY <1>0, <1>4, <1>5 DEF NoFactors, NoTotp
  <2>2. \A t \in Tokens : Open(t)' => Challenge(t)'
    BY <1>2 DEF Open, Is, Challenge
  <2> QED BY <1>0, <1>3, <2>1, <2>2 DEF AccountInv, Unsettled
<1>11. PasswordInv' /\ OauthInv'
  <2>1. \A q \in Requests : Late(q)' => Late(q)
    BY <1>1 DEF Late
  <2>2. OauthInv'
    BY <1>0, <1>2, <2>1, OauthFrame DEF Is
  <2> QED BY <1>3, <2>2 DEF PasswordInv
<1>12. FactorInv'
  BY <1>6 DEF FactorInv
<1>13. SetInv'
  BY <1>4 DEF SetInv, ActiveSets
<1>14. KeyInv'
  BY <1>0, <1>1, <1>5 DEF IInv, KeyInv, CounterKeepsUp
<1> QED BY <1>7, <1>8, <1>9, <1>10, <1>11, <1>12, <1>13, <1>14 DEF IInv

\* A request is dropped.
LEMMA FailIInv ==
  ASSUME IInv, NEW r \in Requests, Fail(r)
  PROVE  IInv'
<1>0. /\ Types /\ Fits(r) /\ pc[r] # "idle"
      /\ lost' = IF pc[r] = "mark" THEN lost \union {job[r].token} ELSE lost
      /\ overtaken' = IF pc[r] = "sweep" /\ job[r].kind # "endothers"
                        THEN overtaken \union {s \in Sessions : Live(s)} ELSE overtaken
      /\ UNCHANGED <<account, password, token, answers, session, fresh, granted, carried,
                  totp, generated, confirmed, overlap, set, crossed,
                  passkey, count, signed, accepted, overrun>>
  BY DEF Fail, IInv, Jobs, store, oauth, second, codes, keys
<1>1. /\ UNCHANGED mix /\ pc' = [pc EXCEPT ![r] = "idle"]
      /\ job' = [job EXCEPT ![r] = NoJob]
      /\ pc'[r] = "idle" /\ job'[r] = NoJob
      /\ \A q \in Requests \ {r} : pc'[q] = pc[q] /\ job'[q] = job[q]
      /\ Fits(r)' /\ ~Holds(r)' /\ ~Late(r)' /\ Early(r)'
      /\ "idle" \in Stages
  BY <1>0, AnswerStep DEF Fail
<1>2. lost' \subseteq Tokens /\ overtaken' \subseteq Sessions /\ overtaken \subseteq overtaken'
  <2>1. pc[r] = "mark" => job[r].token \in Tokens
    BY <1>0 DEF Fits, Staged, Presenting
  <2> QED BY <1>0, <2>1 DEF Types
<1>3. Types' /\ Jobs'
  <2>1. Monotone
    BY <1>0, <1>1 DEF Monotone, Types
  <2> QED BY <1>0, <1>1, <1>2, <2>1, Frame DEF Types
<1>4. UsedMailVerifies'
  BY <1>0, <1>1 DEF IInv, UsedMailVerifies, Is
<1>5. PasswordInv'
  <2>1. \A x \in Sessions : (Rests(x) => Rests(x)') /\ (Live(x)' <=> Live(x))
    BY <1>0, <1>2 DEF Rests, Live
  <2>2. \A w \in Requests \ {r} : Sweeps(w) => Sweeps(w)'
    BY <1>0, <1>1, <2>1 DEF Sweeps
  <2>3. Sweeps(r) => \A x \in Sessions : Live(x)' => Rests(x)'
    BY <1>0, <2>1 DEF Sweeps, Rests
  <2> QED BY <2>1, <2>2, <2>3 DEF IInv, PasswordInv
<1>6. TokenInv' /\ AccountInv' /\ OauthInv'
  BY <1>0, <1>1, Frame
<1>7. FactorInv' /\ SetInv' /\ KeyInv'
  BY <1>0, <1>1, Frame
<1> QED BY <1>3, <1>4, <1>5, <1>6, <1>7 DEF IInv

----------------------------------------------------------------------------
(* The second factor                                                       *)

\* A step of a request that writes the second factor and nothing else.
LEMMA FactorIInv ==
  ASSUME IInv, NEW r \in Requests, NEW to \in Stages, Goto(r, to),
         pc[r] \notin {"idle", "mark", "sweep"},
         UNCHANGED <<user, store, signin, codes, keys>>,
         totp' \in [secret : 0..generated', on : BOOLEAN], generated' \in 0..MaxSecret,
         confirmed' \subseteq 1..generated', overlap' \in BOOLEAN, generated <= generated',
         to # "idle" => Staged(to, job[r].kind),
         to \in {"idle", "enable", "upsert"},
         account # "verified" => totp' = NoTotp,
         FactorInv'
  PROVE  IInv'
<1> DEFINE j == IF to = "idle" THEN NoJob ELSE job[r]
<1>1. /\ j \in Job \union {NoJob} /\ UNCHANGED mix
      /\ pc' = [pc EXCEPT ![r] = to] /\ job' = [job EXCEPT ![r] = j]
      /\ pc'[r] = to /\ job'[r] = j
      /\ to = "idle" => Fits(r)' /\ ~Holds(r)' /\ ~Late(r)' /\ Early(r)'
  BY GotoStep
<1>2. to # "idle" => j = job[r]
  OBVIOUS
<1>3. /\ Fits(r) /\ Types
      /\ UNCHANGED <<account, password, lost, token, answers, session, fresh, granted, carried,
                     overtaken, set, crossed, passkey, count, signed, accepted, overrun>>
      /\ Unsettled => Early(r)
  BY DEF IInv, Jobs, AccountInv, user, store, signin, oauth, codes, keys
<1> HIDE DEF j
<1>4. Types' /\ Jobs'
  <2>1. Monotone
    BY <1>1, <1>3, AccountAssumption DEF Monotone, Types, AccountAssumption
  <2>2. Fits(r)'
    <3>1. CASE to = "idle"
      BY <1>1, <3>1
    <3>2. CASE to # "idle"
      <4>1. job[r].kind \in {"setup", "confirm"}
        BY <3>2 DEF Staged
      <4> QED BY <1>1, <1>2, <1>3, <2>1, <3>2, <4>1 DEF Fits, Is, Presenting, Monotone, Types
    <3> QED BY <3>1, <3>2
  <2> QED BY <1>1, <1>3, <2>1, <2>2, Frame DEF Types
<1>5. ~Holds(r)' /\ ~Late(r)' /\ (Unsettled => Early(r)')
  <2>1. CASE to = "idle"
    BY <1>1, <2>1
  <2>2. CASE to # "idle"
    <3>1. job[r].kind \in {"setup", "confirm"} /\ pc[r] # "idle"
      BY <2>2 DEF Staged
    <3> QED BY <1>1, <1>2, <1>3, <2>2, <3>1 DEF Holds, Late, Early
  <2> QED BY <2>1, <2>2
<1>6. AccountInv'
  <2>1. \A q \in Requests : Unsettled => Early(q)'
    <3>1. \A q \in Requests \ {r} : pc'[q] = pc[q] /\ job'[q] = job[q]
      BY <1>1, <1>3 DEF Types
    <3>2. \A q \in Requests \ {r} : Unsettled => Early(q)'
      BY <3>1 DEF IInv, AccountInv, Early
    <3> QED BY <1>5, <3>2
  <2>2. account = "verified" => AccountInv'
    BY <1>3 DEF AccountInv, Unsettled
  <2>3. account # "verified" => AccountInv'
    BY <1>3, <2>1 DEF IInv, AccountInv, Unsettled, NoFactors, Live, Open, Is, Challenge
  <2> QED BY <2>2, <2>3
<1>7. TokenInv' /\ UsedMailVerifies' /\ PasswordInv' /\ OauthInv'
  BY <1>1, <1>3, <1>5, Frame
<1>8. SetInv' /\ KeyInv'
  BY <1>1, <1>3, Frame
<1> QED BY <1>4, <1>6, <1>7, <1>8 DEF IInv

\* Whom a request of the second factor belongs to.
LEMMA FactorNeedsAccount ==
  ASSUME IInv, NEW r \in Requests, pc[r] # "idle",
         job[r].kind \in {"setup", "confirm", "disable"}
  PROVE  account \in {"verified", "erased"} /\ (account = "erased" => totp = NoTotp)
BY DEF IInv, Types, AccountInv, Unsettled, Early, NoFactors

LEMMA SecondFactorIInv ==
  ASSUME IInv, NEW r \in Requests,
         \/ CheckDisabled(r) \/ UpsertSecret(r) \/ ReadPending(r) \/ EnableTotp(r)
         \/ DisableTotp(r)
  PROVE  IInv'
<1>0. /\ Types /\ Fits(r) /\ FactorInv /\ generated \in Nat /\ generated <= generated
      /\ totp.secret \in 0..generated /\ totp.on \in BOOLEAN
      /\ totp \in [secret : 0..generated, on : BOOLEAN]
      /\ "idle" \in Stages /\ "upsert" \in Stages /\ "enable" \in Stages
  BY DEF IInv, Types, Jobs, Stages
<1>1. ASSUME NEW to \in Stages, pc[r] # "idle", Goto(r, to)
      PROVE  pc'[r] = to /\ \A q \in Requests \ {r} : pc'[q] = pc[q] /\ job'[q] = job[q]
  BY <1>0, <1>1 DEF Goto, Types
<1>2. CASE CheckDisabled(r)
  <2>0. pc[r] = "status" /\ job[r].kind = "setup" /\ UNCHANGED data
    BY <1>0, <1>2 DEF CheckDisabled, Fits, Staged
  <2>1. CASE totp.on /\ Goto(r, "idle")
    BY <2>0, <2>1, GotoIInv DEF Stages
  <2>2. CASE ~totp.on /\ Goto(r, "upsert")
    <3>1. /\ UNCHANGED <<totp, generated, confirmed, overlap>>
          /\ UNCHANGED <<user, store, signin, codes, keys>>
      BY <2>0 DEF data, second
    <3>2. pc'[r] = "upsert" /\ \A q \in Requests \ {r} : pc'[q] = pc[q]
      BY <1>0, <1>1, <2>0, <2>2
    <3>3. FactorInv'
      BY <1>0, <2>2, <3>1, <3>2 DEF FactorInv
    <3>4. account # "verified" => totp' = NoTotp
      BY <2>0, <3>1, FactorNeedsAccount
    <3>5. Staged("upsert", job[r].kind)
      BY <2>0 DEF Staged
    <3> QED BY <1>0, <2>0, <2>2, <3>1, <3>3, <3>4, <3>5, FactorIInv DEF Types
  <2> QED BY <1>2, <2>1, <2>2 DEF CheckDisabled
<1>3. CASE UpsertSecret(r)
  <2>0. /\ pc[r] = "upsert" /\ job[r].kind = "setup" /\ Goto(r, "idle")
        /\ UNCHANGED <<user, store, signin, confirmed, codes, keys>>
        /\ overlap' = (overlap \/ OthersAt(r, "confirm", "enable"))
        /\ pc'[r] = "idle" /\ \A q \in Requests \ {r} : pc'[q] = pc[q]
    BY <1>0, <1>1, <1>3 DEF UpsertSecret, Fits, Staged
  <2>1. overlap' \in BOOLEAN
    BY <1>0, <2>0 DEF Types
  <2>2. \A q \in Requests \ {r} : pc[q] = "enable" => overlap'
    BY <2>0 DEF OthersAt, IInv, Jobs, Fits, Staged
  <2>3. CASE ~Exists /\ UNCHANGED <<totp, generated>>
    <3>1. FactorInv'
      BY <1>0, <2>0, <2>2, <2>3 DEF FactorInv
    <3>2. account # "verified" => totp' = NoTotp
      BY <2>0, <2>3, FactorNeedsAccount
    <3> QED BY <1>0, <2>0, <2>1, <2>3, <3>1, <3>2, FactorIInv DEF Types
  <2>4. CASE Exists /\ generated < MaxSecret /\ generated' = generated + 1
             /\ totp' = [secret |-> generated + 1, on |-> FALSE]
    <3>1. /\ generated' \in 0..MaxSecret /\ generated <= generated'
          /\ totp' \in [secret : 0..generated', on : BOOLEAN] /\ ~totp'.on
          /\ confirmed' \subseteq 1..generated'
      BY <1>0, <2>0, <2>4, AccountAssumption DEF Types, AccountAssumption
    <3>2. FactorInv'
      BY <1>0, <2>0, <2>2, <3>1 DEF FactorInv
    <3>3. account = "verified"
      BY <2>0, <2>4, FactorNeedsAccount DEF Exists
    <3> QED BY <1>0, <2>0, <2>1, <3>1, <3>2, <3>3, FactorIInv
  <2> QED BY <1>3, <2>3, <2>4 DEF UpsertSecret
<1>4. CASE ReadPending(r)
  <2>0. /\ pc[r] = "pending" /\ job[r].kind = "confirm" /\ job[r].num \in 1..generated
        /\ UNCHANGED <<totp, generated, overlap>>
        /\ UNCHANGED <<user, store, signin, codes, keys>>
    BY <1>0, <1>4 DEF ReadPending, Fits, Staged
  <2>1. account # "verified" => totp' = NoTotp
    BY <2>0, FactorNeedsAccount
  <2>2. CASE totp.secret = job[r].num /\ Goto(r, "enable")
             /\ confirmed' = confirmed \union {job[r].num}
    <3>1. pc'[r] = "enable" /\ \A q \in Requests \ {r} : pc'[q] = pc[q]
      BY <1>0, <1>1, <2>0, <2>2
    <3>2. FactorInv'
      BY <1>0, <2>0, <2>2, <3>1 DEF FactorInv
    <3>3. Staged("enable", job[r].kind)
      BY <2>0 DEF Staged
    <3>4. confirmed' \subseteq 1..generated'
      BY <1>0, <2>0, <2>2 DEF Types
    <3> QED BY <1>0, <2>0, <2>1, <2>2, <3>2, <3>3, <3>4, FactorIInv DEF Types
  <2>3. CASE Goto(r, "idle") /\ UNCHANGED confirmed
    <3>1. UNCHANGED data
      BY <2>0, <2>3 DEF data, second
    <3> QED BY <2>0, <2>3, <3>1, GotoIInv DEF Stages
  <2> QED BY <1>4, <2>2, <2>3 DEF ReadPending
<1>5. CASE EnableTotp(r)
  <2>0. /\ pc[r] = "enable" /\ job[r].kind = "confirm" /\ Goto(r, "idle")
        /\ UNCHANGED <<generated, confirmed>>
        /\ UNCHANGED <<user, store, signin, codes, keys>>
        /\ overlap' = (overlap \/ OthersAt(r, "setup", "upsert"))
        /\ pc'[r] = "idle" /\ \A q \in Requests \ {r} : pc'[q] = pc[q]
    BY <1>0, <1>1, <1>5 DEF EnableTotp, Fits, Staged
  <2>1. /\ totp' \in [secret : 0..generated', on : BOOLEAN]
        /\ totp'.on <=> totp.secret # 0
        /\ totp'.secret = totp.secret
    BY <1>0, <1>5, <2>0 DEF EnableTotp
  <2>2. overlap' \in BOOLEAN /\ (overlap => overlap')
    BY <1>0, <2>0 DEF Types
  <2>3. \A q \in Requests \ {r} : pc[q] = "upsert" => overlap'
    BY <2>0 DEF OthersAt, IInv, Jobs, Fits, Staged
  <2>4. FactorInv'
    BY <1>0, <2>0, <2>1, <2>2, <2>3 DEF FactorInv
  <2>5. account # "verified" => totp' = NoTotp
    <3>1. account # "verified" => totp = NoTotp
      BY <2>0, FactorNeedsAccount
    <3> QED BY <1>0, <2>1, <3>1 DEF NoTotp
  <2> QED BY <1>0, <2>0, <2>1, <2>2, <2>4, <2>5, FactorIInv DEF Types
<1>6. CASE DisableTotp(r)
  <2>0. /\ pc[r] = "drop" /\ Goto(r, "idle") /\ totp' = NoTotp /\ overlap' = FALSE
        /\ UNCHANGED <<generated, confirmed>>
        /\ UNCHANGED <<user, store, signin, codes, keys>>
    BY <1>6 DEF DisableTotp
  <2>1. totp' \in [secret : 0..generated', on : BOOLEAN] /\ ~totp'.on /\ totp'.secret = 0
    BY <1>0, <2>0 DEF NoTotp
  <2>2. FactorInv'
    BY <2>1 DEF FactorInv
  <2> QED BY <1>0, <2>0, <2>1, <2>2, FactorIInv DEF Types
<1> QED BY <1>2, <1>3, <1>4, <1>5, <1>6

----------------------------------------------------------------------------
(* Recovery codes                                                          *)

\* Generating recovery codes needs an account, which may be gone by now.
LEMMA SetsIInv ==
  ASSUME IInv, NEW r \in Requests, InvalidateSets(r) \/ InsertSet(r)
  PROVE  IInv'
<1>0. /\ Types /\ Fits(r) /\ pc[r] \in {"invalidate", "newset"} /\ job[r].kind = "generate"
      /\ job[r] \in Job /\ job[r].token = NoToken /\ ~Unsettled
      /\ UNCHANGED <<account, password, lost, token, answers, session, fresh, granted, carried,
                  overtaken, totp, generated, confirmed, overlap,
                  passkey, count, signed, accepted, overrun>>
  BY DEF InvalidateSets, InsertSet, IInv, Jobs, Fits, Staged, Presenting, AccountInv, Early,
         user, store, signin, oauth, second, keys
<1>1. PICK to \in {"idle", "newset", "newcode"}, j \in Job \union {NoJob} :
        /\ UNCHANGED mix /\ pc' = [pc EXCEPT ![r] = to] /\ job' = [job EXCEPT ![r] = j]
        /\ to = "idle" => j = NoJob
        /\ to = "newset" => j = job[r] /\ InvalidateSets(r)
        /\ to # "newset" => InsertSet(r)
        /\ to = "newcode" => \E x \in Sets : j = [job[r] EXCEPT !.num = x]
  <2>1. CASE InvalidateSets(r)
    <3>1. /\ UNCHANGED mix /\ pc' = [pc EXCEPT ![r] = "newset"]
          /\ job' = [job EXCEPT ![r] = job[r]]
      BY <1>0, <2>1 DEF InvalidateSets, Goto, Types
    <3> QED BY <1>0, <2>1, <3>1
  <2>2. CASE InsertSet(r)
    <3>1. CASE Goto(r, "idle")
      <4>1. /\ UNCHANGED mix /\ pc' = [pc EXCEPT ![r] = "idle"]
            /\ job' = [job EXCEPT ![r] = NoJob]
        BY <3>1 DEF Goto
      <4> QED BY <2>2, <4>1
    <3>2. ASSUME NEW x \in Sets, pc' = [pc EXCEPT ![r] = "newcode"],
                 job' = [job EXCEPT ![r].num = x], UNCHANGED mix
          PROVE  \E j \in Job \union {NoJob} :
                   /\ job' = [job EXCEPT ![r] = j] /\ j = [job[r] EXCEPT !.num = x]
      <4>1. PICK j : j = [job[r] EXCEPT !.num = x]
        OBVIOUS
      <4>2. j \in Job
        BY <1>0, <4>1 DEF Job
      <4>3. job' = [job EXCEPT ![r] = j]
        BY <3>2, <4>1
      <4> QED BY <4>1, <4>2, <4>3
    <3> QED BY <2>2, <3>1, <3>2 DEF InsertSet
  <2> QED BY <2>1, <2>2
<1>2. /\ pc'[r] = to /\ job'[r] = j /\ to \in Stages
      /\ \A q \in Requests \ {r} : pc'[q] = pc[q] /\ job'[q] = job[q]
  BY <1>0, <1>1 DEF Types, Stages
<1>3. Fits(r)'
  <2>1. CASE to = "idle"
    BY <1>1, <1>2, <2>1 DEF Fits
  <2>2. CASE to = "newset"
    BY <1>0, <1>1, <1>2, <2>2 DEF Fits, Staged, Presenting
  <2>3. CASE to = "newcode"
    <3>1. j \in Job /\ j.kind = "generate" /\ j.token = NoToken /\ j.num \in Sets
      BY <1>0, <1>1, <2>3 DEF Job
    <3> QED BY <1>2, <2>3, <3>1 DEF Fits, Staged, Presenting
  <2> QED BY <1>1, <2>1, <2>2, <2>3
<1>4. ~Holds(r)' /\ ~Late(r)'
  BY <1>1, <1>2 DEF Holds, Late
<1>5. /\ set' \in [Sets -> {"none", "active", "invalid"}] /\ crossed' \in BOOLEAN
      /\ account = "erased" => \A x \in Sets : set'[x] # "active"
  <2>1. CASE InvalidateSets(r)
    BY <1>0, <2>1 DEF InvalidateSets, Types
  <2>2. CASE InsertSet(r)
    BY <1>0, <2>2 DEF InsertSet, Types, IInv, AccountInv, NoFactors, Exists
  <2> QED BY <2>1, <2>2
<1>6. Types' /\ Jobs'
  <2>1. Monotone
    BY <1>0, <1>1 DEF Monotone, Types
  <2> QED BY <1>0, <1>1, <1>2, <1>3, <1>5, <2>1, Frame DEF Types
<1>7. AccountInv'
  BY <1>0, <1>5 DEF IInv, AccountInv, Unsettled, NoFactors, Live, Open, Is, Challenge
<1>8. TokenInv' /\ UsedMailVerifies' /\ PasswordInv' /\ OauthInv'
  BY <1>0, <1>1, <1>2, <1>4, Frame
<1>9. FactorInv' /\ KeyInv'
  BY <1>0, <1>1, <1>2, Frame
<1>10. \A q \in Requests : pc[q] = "newset" => job[q].kind = "generate"
  BY DEF IInv, Jobs, Fits, Staged
<1>11. SetInv'
  <2>1. CASE InvalidateSets(r)
    <3>1. ActiveSets' = {} /\ crossed' = (crossed /\ OthersAt(r, "generate", "newset"))
      BY <1>0, <2>1 DEF InvalidateSets, ActiveSets, Types
    <3> QED BY <3>1 DEF SetInv
  <2>2. CASE InsertSet(r)
    <3>0. crossed' = (crossed \/ OthersAt(r, "generate", "newset"))
      BY <2>2 DEF InsertSet
    <3>1. CASE crossed'
      BY <3>1 DEF SetInv
    <3>2. CASE ~crossed'
      <4>1. ~crossed /\ \A q \in Requests \ {r} : pc'[q] # "newset"
        BY <1>2, <1>10, <3>0, <3>2 DEF OthersAt
      <4>2. pc[r] = "newset" /\ to # "newset"
        BY <1>1, <1>2, <2>2 DEF InsertSet, InvalidateSets
      <4>3. ActiveSets = {}
        BY <4>1, <4>2 DEF IInv, SetInv
      <4>4. \A x, y \in ActiveSets' : x = y
        BY <1>0, <2>2, <4>3 DEF InsertSet, ActiveSets, Types
      <4> QED BY <1>2, <4>1, <4>2, <4>4 DEF SetInv
    <3> QED BY <3>1, <3>2
  <2> QED BY <2>1, <2>2
<1> QED BY <1>6, <1>7, <1>8, <1>9, <1>11 DEF IInv

----------------------------------------------------------------------------
(* The passkey                                                             *)

LEMMA InsertKeyIInv ==
  ASSUME IInv, NEW r \in Requests, InsertKey(r)
  PROVE  IInv'
<1>0. /\ Types /\ Fits(r) /\ pc[r] = "insert" /\ job[r].kind = "newkey"
      /\ job[r].num \in 0..signed /\ job[r].token \in Tokens /\ job[r].token # NoToken
      /\ Goto(r, "idle")
      /\ UNCHANGED <<account, password, lost, token, session, fresh, granted, carried,
                  overtaken, totp, generated, confirmed, overlap, set, crossed,
                  signed, accepted, overrun>>
  BY AccountAssumption DEF AccountAssumption, InsertKey, IInv, Jobs, Fits, Staged, Presenting,
     user, signin, oauth, second, codes
<1>1. CASE UNCHANGED <<passkey, count, answers>>
  BY <1>0, <1>1, GotoIInv DEF data, user, store, signin, oauth, second, codes, keys, Stages
<1>2. CASE Exists /\ passkey = "none" /\ passkey' = "stored" /\ count' = job[r].num
           /\ answers' = [answers EXCEPT ![job[r].token] = @ + 1]
  <2>1. /\ UNCHANGED mix /\ pc' = [pc EXCEPT ![r] = "idle"]
        /\ job' = [job EXCEPT ![r] = NoJob]
        /\ pc'[r] = "idle" /\ job'[r] = NoJob
        /\ \A q \in Requests \ {r} : pc'[q] = pc[q] /\ job'[q] = job[q]
        /\ Fits(r)' /\ ~Holds(r)' /\ ~Late(r)' /\ Early(r)'
        /\ "idle" \in Stages
    BY <1>0, AnswerStep
  <2>2. /\ answers' \in [Tokens -> Nat]
        /\ \A x \in Tokens : x # job[r].token => answers'[x] = answers[x]
        /\ answers'[job[r].token] = 1 /\ token[job[r].token].state = "used" /\ Holds(r)
    <3>1. Holds(r)
      BY <1>0 DEF Holds
    <3>2. answers[job[r].token] = 0 /\ token[job[r].token].state = "used"
      BY <3>1 DEF IInv, TokenInv
    <3> QED BY <1>0, <1>2, <3>1, <3>2 DEF Types
  <2>3. Types' /\ Jobs'
    <3>1. Monotone
      BY <1>0, <2>1 DEF Monotone, Types
    <3> QED BY <1>0, <1>2, <2>1, <2>2, <3>1, Frame DEF Types
  <2>4. TokenInv'
    <3>1. \A q \in Requests \ {r} : Holds(q)' <=> Holds(q)
      BY <2>1 DEF Holds
    <3>2. Blankness'
      BY <1>0 DEF IInv, TokenInv, Blankness, Is
    <3>3. \A x \in Tokens : answers'[x] = 0 \/ (answers'[x] = 1 /\ token'[x].state = "used")
      BY <1>0, <2>2 DEF IInv, TokenInv
    <3>4. \A q \in Requests \ {r} : Holds(q) =>
            /\ job[q].token \in Tokens /\ job[q].token # job[r].token
            /\ token[job[q].token].state = "used" /\ answers[job[q].token] = 0
      BY <2>2 DEF IInv, TokenInv, Holds, Jobs, Fits
    <3>5. \A q \in Requests : Holds(q)' =>
             /\ token'[job'[q].token].state = "used" /\ answers'[job'[q].token] = 0
      BY <1>0, <2>1, <2>2, <3>1, <3>4
    <3>6. \A p, q \in Requests : Holds(p)' /\ Holds(q)' /\ job'[q].token = job'[p].token => q = p
      BY <2>1, <3>1 DEF IInv, TokenInv
    <3> QED BY <3>2, <3>3, <3>5, <3>6 DEF TokenInv
  <2>5. UsedMailVerifies' /\ PasswordInv' /\ OauthInv'
    <3>1. \A q \in Requests : Late(q)' => Late(q)
      BY <2>1 DEF Late
    <3>2. \A x \in Tokens : answers'[x] = 0 => answers[x] = 0
      BY <2>2
    <3>3. OauthInv'
      BY <1>0, <3>1, <3>2, OauthFrame DEF Is
    <3> QED BY <1>0, <2>1, <3>3, Frame
  <2>6. account = "verified"
    BY <1>0, <1>2 DEF IInv, AccountInv, Early, Unsettled, Exists
  <2>7. AccountInv'
    BY <1>0, <2>6 DEF AccountInv, Unsettled
  <2>8. FactorInv' /\ SetInv'
    BY <1>0, <2>1, Frame
  <2>9. KeyInv'
    BY <1>0, <1>2, <2>1 DEF IInv, KeyInv, CounterKeepsUp, Types
  <2> QED BY <2>3, <2>4, <2>5, <2>7, <2>8, <2>9 DEF IInv
<1> QED BY <1>1, <1>2 DEF InsertKey

LEMMA ReadCredentialIInv ==
  ASSUME IInv, NEW r \in Requests, ReadCredential(r)
  PROVE  IInv'
<1>0. /\ Types /\ Fits(r) /\ pc[r] = "credential" /\ job[r].kind = "usekey"
      /\ job[r] \in Job /\ UNCHANGED data
      /\ UNCHANGED <<account, password, lost, token, answers, session, fresh, granted, carried,
                  overtaken, totp, generated, confirmed, overlap, set, crossed,
                  passkey, count, signed, accepted, overrun>>
  BY DEF ReadCredential, IInv, Jobs, Fits, Staged, data, user, store, signin, oauth, second, codes,
         keys
<1>1. CASE Goto(r, "idle")
  BY <1>0, <1>1, GotoIInv DEF Stages
<1>2. CASE /\ Goto(r, "bump") /\ passkey = "stored" /\ account = "verified"
           /\ job[r].num = 0 \/ job[r].num > count
  <2>1. /\ UNCHANGED mix /\ pc' = [pc EXCEPT ![r] = "bump"]
        /\ job' = [job EXCEPT ![r] = job[r]]
        /\ pc'[r] = "bump" /\ job'[r] = job[r] /\ "bump" \in Stages
        /\ \A q \in Requests \ {r} : pc'[q] = pc[q] /\ job'[q] = job[q]
    BY <1>0, <1>2 DEF Goto, Types, Stages
  <2>2. Types' /\ Jobs'
    <3>1. Monotone
      BY <1>0, <2>1 DEF Monotone, Types
    <3>2. Fits(r)'
      BY <1>0, <2>1 DEF Fits, Is, Staged
    <3> QED BY <1>0, <2>1, <3>1, <3>2, Frame DEF Types
  <2>3. (Holds(r)' => Holds(r)) /\ ~Late(r)'
    BY <1>0, <2>1 DEF Holds, Late
  <2>4. AccountInv'
    BY <1>0, <1>2 DEF AccountInv, Unsettled
  <2>5. TokenInv' /\ UsedMailVerifies' /\ PasswordInv' /\ OauthInv'
    BY <1>0, <2>1, <2>3, Frame
  <2>6. FactorInv' /\ SetInv'
    BY <1>0, <2>1, Frame
  <2>7. KeyInv'
    BY <1>0, <1>2, <2>1 DEF IInv, KeyInv, CounterKeepsUp
  <2> QED BY <2>2, <2>4, <2>5, <2>6, <2>7 DEF IInv
<1> QED BY <1>1, <1>2 DEF ReadCredential

LEMMA WriteCounterIInv ==
  ASSUME IInv, NEW r \in Requests, WriteCounter(r)
  PROVE  IInv'
<1>0. /\ Types /\ Fits(r) /\ pc[r] = "bump" /\ job[r].kind = "usekey"
      /\ job[r] \in Job /\ job[r].num \in 0..signed
      /\ count' = IF passkey = "stored" THEN job[r].num ELSE count
      /\ accepted' = IF job[r].num > accepted THEN job[r].num ELSE accepted
      /\ overrun' = (OthersAt(r, "usekey", "bump") \/ (overrun /\ job[r].num < accepted))
      /\ UNCHANGED <<account, password, lost, token, answers, session, fresh, granted, carried,
                  overtaken, totp, generated, confirmed, overlap, set, crossed, passkey, signed>>
  BY DEF WriteCounter, IInv, Jobs, Fits, Staged, user, store, signin, oauth, second, codes
<1>1. /\ UNCHANGED mix /\ pc' = [pc EXCEPT ![r] = "session"]
      /\ job' = [job EXCEPT ![r] = job[r]]
      /\ pc'[r] = "session" /\ job'[r] = job[r] /\ "session" \in Stages
      /\ \A q \in Requests \ {r} : pc'[q] = pc[q] /\ job'[q] = job[q]
  BY <1>0 DEF WriteCounter, Goto, Types, Stages
<1>2. /\ count' \in 0..signed /\ accepted' \in 0..signed /\ overrun' \in BOOLEAN
      /\ signed \in Nat /\ count \in Nat /\ accepted \in Nat
  BY <1>0, AccountAssumption DEF Types, AccountAssumption
<1>3. Types' /\ Jobs'
  <2>1. Monotone
    BY <1>0, <1>1 DEF Monotone, Types
  <2>2. Fits(r)'
    BY <1>0, <1>1 DEF Fits, Is, Staged
  <2> QED BY <1>0, <1>1, <1>2, <2>1, <2>2, Frame DEF Types
<1>4. (Holds(r)' => Holds(r)) /\ ~Late(r)'
  BY <1>0, <1>1 DEF Holds, Late
<1>5. ~Unsettled
  BY <1>0 DEF IInv, AccountInv, Early
<1>6. TokenInv' /\ UsedMailVerifies' /\ PasswordInv' /\ OauthInv'
  BY <1>0, <1>1, <1>4, Frame
<1>7. AccountInv' /\ FactorInv' /\ SetInv'
  BY <1>0, <1>1, <1>5, Frame
<1>8. KeyInv'
  <2>1. job[r].num = 0 => accepted = 0 /\ signed = 0
    BY <1>0 DEF IInv, KeyInv, Fits, Types
  <2>2. passkey # "none"
    BY <1>0 DEF IInv, KeyInv
  <2>3. \A q \in Requests \ {r} : pc'[q] = "bump" => overrun'
    <3>1. \A q \in Requests : pc[q] = "bump" => job[q].kind = "usekey"
      BY DEF IInv, Jobs, Fits, Staged
    <3> QED BY <1>0, <1>1, <3>1 DEF OthersAt
  <2>4. CounterKeepsUp'
    <3>1. ASSUME passkey = "stored", ~overrun'
          PROVE  count' >= accepted'
      <4>1. count' = job[r].num
        BY <1>0, <3>1
      <4>2. CASE job[r].num >= accepted
        BY <1>0, <1>2, <4>1, <4>2
      <4>3. CASE job[r].num < accepted
        <5>1. ~overrun
          BY <1>0, <3>1, <4>3
        <5>2. job[r].num > count /\ count >= accepted
          BY <1>0, <2>1, <3>1, <4>3, <5>1 DEF IInv, KeyInv, CounterKeepsUp
        <5> QED BY <1>0, <1>2, <4>3, <5>2
      <4> QED BY <1>0, <1>2, <4>2, <4>3
    <3> QED BY <1>0, <3>1 DEF CounterKeepsUp
  <2>5. ~mix'.counts => signed' = 0
    BY <1>0, <1>1 DEF IInv, KeyInv
  <2> QED BY <1>0, <1>1, <2>2, <2>3, <2>4, <2>5 DEF KeyInv
<1> QED BY <1>3, <1>6, <1>7, <1>8 DEF IInv

LEMMA DeleteKeyIInv ==
  ASSUME IInv, NEW r \in Requests, DeleteKey(r)
  PROVE  IInv'
<1>0. /\ Types /\ pc[r] = "unkey" /\ job[r].kind = "dropkey" /\ passkey' = Removed
      /\ UNCHANGED <<account, password, lost, token, answers, session, fresh, granted, carried,
                  overtaken, totp, generated, confirmed, overlap, set, crossed,
                  count, signed, accepted, overrun>>
  BY DEF DeleteKey, IInv, Jobs, Fits, Staged, user, store, signin, oauth, second, codes
<1>1. /\ UNCHANGED mix /\ pc' = [pc EXCEPT ![r] = "idle"]
      /\ job' = [job EXCEPT ![r] = NoJob]
      /\ pc'[r] = "idle" /\ job'[r] = NoJob
      /\ \A q \in Requests \ {r} : pc'[q] = pc[q] /\ job'[q] = job[q]
      /\ Fits(r)' /\ ~Holds(r)' /\ ~Late(r)' /\ Early(r)'
      /\ "idle" \in Stages
  BY <1>0, AnswerStep DEF DeleteKey
<1>2. passkey' \in {"none", "deleted"} /\ (passkey' = "none" => passkey = "none")
  BY <1>0 DEF Types, Removed
<1>3. Types' /\ Jobs'
  <2>1. Monotone
    BY <1>0, <1>1 DEF Monotone, Types
  <2> QED BY <1>0, <1>1, <1>2, <2>1, Frame DEF Types
<1>4. ~Unsettled
  BY <1>0, <1>1 DEF IInv, AccountInv, Early
<1>5. AccountInv'
  BY <1>0, <1>2, <1>4 DEF IInv, AccountInv, Unsettled, NoFactors, Live, Open, Is, Challenge
<1>6. TokenInv' /\ UsedMailVerifies' /\ PasswordInv' /\ OauthInv'
  BY <1>0, <1>1, Frame
<1>7. FactorInv' /\ SetInv'
  BY <1>0, <1>1, Frame
<1>8. KeyInv'
  BY <1>0, <1>1, <1>2 DEF IInv, KeyInv, CounterKeepsUp
<1> QED BY <1>3, <1>5, <1>6, <1>7, <1>8 DEF IInv

LEMMA AcceptUseKeyIInv ==
  ASSUME IInv, NEW r \in Requests, AcceptUseKey(r)
  PROVE  IInv'
<1>0. /\ Types /\ pc[r] = "idle" /\ signed < MaxCount
      /\ signed' = IF mix.counts THEN signed + 1 ELSE 0
      /\ UNCHANGED <<mix, account, password, lost, token, answers, session, fresh, granted, carried,
                  overtaken, totp, generated, confirmed, overlap, set, crossed,
                  passkey, count, accepted, overrun>>
      /\ signed \in Nat /\ MaxCount \in Nat /\ mix.counts \in BOOLEAN
  BY AccountAssumption, MixAssumption
  DEF AcceptUseKey, Begin, IInv, Types, user, store, signin, oauth, second, codes,
      AccountAssumption, MixAssumption, Mix
<1>1. signed' \in 0..MaxCount /\ signed <= signed' /\ (signed' = 0 => ~mix.counts)
  BY <1>0 DEF IInv, KeyInv
<1>2. PICK t \in Tokens, n \in 0..MaxCount :
        /\ n = signed' /\ Is(t, "usekey")
        /\ Begin(r, "consume", [Input("usekey") EXCEPT !.token = t, !.num = n])
  BY <1>1 DEF AcceptUseKey
<1> DEFINE h == Input("usekey")
           i == [h EXCEPT !.token = t]
           j == [i EXCEPT !.num = n]
<1>3. Begin(r, "consume", j)
  BY <1>2
<1>4. h \in Job /\ h.kind = "usekey"
  BY PlainInput DEF AllKinds
<1> HIDE DEF h
<1>5. i \in Job /\ i.kind = "usekey" /\ i.token = t
  BY <1>4 DEF Job
<1> HIDE DEF i
<1>6. j \in Job /\ j.kind = "usekey" /\ j.token = t /\ j.num = n
  BY <1>0, <1>5 DEF Job
<1> HIDE DEF j
<1>7. /\ pc' = [pc EXCEPT ![r] = "consume"] /\ job' = [job EXCEPT ![r] = j]
      /\ pc'[r] = "consume" /\ job'[r] = j /\ "consume" \in Stages
      /\ \A q \in Requests \ {r} : pc'[q] = pc[q] /\ job'[q] = job[q]
  BY <1>0, <1>3 DEF Begin, Types, Stages
<1>8. Types' /\ Jobs'
  <2>1. Monotone
    BY <1>0, <1>1, <1>7 DEF Monotone, Types
  <2>2. Fits(r)'
    <3>1. Is(t, UseOf("usekey"))'
      BY <1>0, <1>2 DEF Is, UseOf
    <3> QED BY <1>0, <1>1, <1>2, <1>6, <1>7, <3>1 DEF Fits, Staged, Presenting
  <2>3. count \in 0..signed' /\ accepted \in 0..signed'
    BY <1>0, <1>1 DEF Types
  <2> QED BY <1>0, <1>1, <1>6, <1>7, <2>1, <2>2, <2>3, Frame DEF Types
<1>9. ~Holds(r)' /\ ~Late(r)' /\ Early(r)'
  BY <1>6, <1>7 DEF Holds, Late, Early
<1>10. TokenInv' /\ UsedMailVerifies' /\ PasswordInv' /\ OauthInv'
  BY <1>0, <1>6, <1>7, <1>9, Frame
<1>11. AccountInv' /\ FactorInv' /\ SetInv'
  BY <1>0, <1>6, <1>7, <1>9, Frame
<1>12. KeyInv'
  BY <1>0, <1>1, <1>7 DEF IInv, KeyInv, CounterKeepsUp
<1> QED BY <1>8, <1>10, <1>11, <1>12 DEF IInv

\* The arrivals at a reauthenticated session that carry nothing else.
LEMMA AcceptOwnIInv ==
  ASSUME IInv, NEW r \in Requests,
         \/ AcceptEndOthers(r) \/ AcceptErase(r) \/ AcceptSetup(r)
         \/ AcceptDisable(r) \/ AcceptGenerate(r) \/ AcceptDropKey(r)
  PROVE  IInv'
<1>1. CASE AcceptEndOthers(r)
  <2>1. PICK s \in fresh :
          Live(s) /\ Arrive(r, "sweep", [Input("endothers") EXCEPT !.self = s])
    BY <1>1 DEF AcceptEndOthers
  <2> QED BY <2>1, AcceptOnSession DEF Stages, Staged
<1>2. CASE AcceptErase(r)
  <2>1. PICK s \in fresh :
          Live(s) /\ Arrive(r, "tokens", [Input("erase") EXCEPT !.self = s])
    BY <1>2 DEF AcceptErase
  <2> QED BY <2>1, AcceptOnSession DEF Stages, Staged
<1>3. CASE AcceptSetup(r)
  <2>1. PICK s \in fresh :
          Live(s) /\ Arrive(r, "status", [Input("setup") EXCEPT !.self = s])
    BY <1>3 DEF AcceptSetup
  <2> QED BY <2>1, AcceptOnSession DEF Stages, Staged
<1>4. CASE AcceptDisable(r)
  <2>1. PICK s \in fresh :
          Live(s) /\ Arrive(r, "drop", [Input("disable") EXCEPT !.self = s])
    BY <1>4 DEF AcceptDisable
  <2> QED BY <2>1, AcceptOnSession DEF Stages, Staged
<1>5. CASE AcceptGenerate(r)
  <2>1. PICK s \in fresh :
          Live(s) /\ Arrive(r, "invalidate", [Input("generate") EXCEPT !.self = s])
    BY <1>5 DEF AcceptGenerate
  <2> QED BY <2>1, AcceptOnSession DEF Stages, Staged
<1>6. CASE AcceptDropKey(r)
  <2>1. PICK s \in fresh :
          Live(s) /\ Arrive(r, "unkey", [Input("dropkey") EXCEPT !.self = s])
    BY <1>6 DEF AcceptDropKey
  <2> QED BY <2>1, AcceptOnSession DEF Stages, Staged
<1> QED BY <1>1, <1>2, <1>3, <1>4, <1>5, <1>6

----------------------------------------------------------------------------
(* Steps of no request, and the invariant                                  *)

LEMMA LapseReauthIInv ==
  ASSUME IInv, NEW s \in Sessions, LapseReauth(s)
  PROVE  IInv'
<1>0. /\ Types /\ fresh' = fresh \ {s}
      /\ UNCHANGED <<mix, account, password, lost, token, answers, session, granted, carried,
                  overtaken, totp, generated, confirmed, overlap, set, crossed,
                  passkey, count, signed, accepted, overrun, pc, job>>
  BY DEF LapseReauth, IInv, user, store, oauth, second, codes, keys
<1>1. Types' /\ Jobs'
  BY <1>0 DEF IInv, Types, Jobs, Fits, Is
<1>2. TokenInv' /\ UsedMailVerifies'
  BY <1>0 DEF IInv, TokenInv, Blankness, Holds, Is, UsedMailVerifies
<1>3. AccountInv' /\ FactorInv'
  BY <1>0 DEF IInv, AccountInv, Unsettled, NoFactors, Early, Live, Is, Open, Challenge, FactorInv
<1>4. SetInv' /\ KeyInv'
  BY <1>0 DEF IInv, SetInv, ActiveSets, KeyInv, CounterKeepsUp
<1>5. PasswordInv' /\ OauthInv'
  <2>1. \A q \in Requests : Late(q)' => Late(q)
    BY <1>0 DEF Late
  <2>2. OauthInv'
    BY <1>0, <2>1, OauthFrame DEF Is
  <2> QED BY <1>0, <2>2 DEF IInv, PasswordInv, Rests, Live, Sweeps
<1> QED BY <1>1, <1>2, <1>3, <1>4, <1>5 DEF IInv

LEMMA LapseTokenIInv ==
  ASSUME IInv, NEW t \in Tokens, LapseToken(t)
  PROVE  IInv'
<1>0. /\ Types /\ Open(t) /\ token' = [token EXCEPT ![t].state = "lapsed"]
      /\ UNCHANGED <<mix, account, password, lost, answers, session, fresh, granted, carried,
                  overtaken, totp, generated, confirmed, overlap, set, crossed,
                  passkey, count, signed, accepted, overrun, pc, job>>
  BY DEF LapseToken, IInv, user, signin, oauth, second, codes, keys
<1>1. /\ token' \in [Tokens -> Row]
      /\ \A x \in Tokens : token'[x].use = token[x].use /\ token'[x].pw = token[x].pw
      /\ \A x \in Tokens : \/ token'[x].state = token[x].state
                           \/ Open(x) /\ token'[x].state = "lapsed"
  BY <1>0 DEF Types, Row, States
<1>2. \A x \in Tokens : \A u : Is(x, u)' <=> Is(x, u)
  BY <1>1 DEF Is
<1>3. Types' /\ Jobs'
  BY <1>0, <1>1, <1>2 DEF IInv, Types, Jobs, Fits
<1>4. TokenInv'
  BY <1>0, <1>1, LapseTokens DEF Holds
<1>5. UsedMailVerifies'
  BY <1>0, <1>1, <1>2 DEF IInv, UsedMailVerifies
<1>6. AccountInv'
  <2>1. \A x \in Tokens : Open(x)' => Open(x)
    BY <1>1 DEF Open
  <2> QED BY <1>0, <1>2, <2>1 DEF IInv, AccountInv, Unsettled, NoFactors, Early, Live, Challenge
<1>7. PasswordInv' /\ FactorInv'
  BY <1>0 DEF IInv, PasswordInv, Rests, Live, Sweeps, FactorInv
<1>8. SetInv' /\ KeyInv'
  BY <1>0 DEF IInv, SetInv, ActiveSets, KeyInv, CounterKeepsUp
<1>9. OauthInv'
  <2>1. \A q \in Requests : Late(q)' => Late(q)
    BY <1>0 DEF Late
  <2> QED BY <1>0, <1>1, <1>2, <2>1, OauthFrame
<1> QED BY <1>3, <1>4, <1>5, <1>6, <1>7, <1>8, <1>9 DEF IInv

LEMMA NextIInv ==
  ASSUME IInv, [Next]_vars
  PROVE  IInv'
<1>1. ASSUME NEW r \in Requests, Accept(r)
      PROVE  IInv'
  BY <1>1, RegisterIInv, AcceptIInv, AcceptOwnIInv, AcceptUseKeyIInv DEF Accept
<1>2. ASSUME NEW r \in Requests, Serve(r)
      PROVE  IInv'
  BY <1>2, ReadIInv, IssueIInv, ConsumeMailIInv, ConsumeTokenIInv, CreateSessionIInv,
     MarkReauthIInv, RevokeIInv, SweepSessionsIInv, RevokeTokensIInv, WritePasswordIInv,
     MarkVerifiedIInv, EraseAccountIInv, SecondFactorIInv, SetsIInv, InsertKeyIInv,
     ReadCredentialIInv, WriteCounterIInv, DeleteKeyIInv, IssueCodeIInv, RotateIInv,
     MintTokensIInv
  DEF Serve
<1>3. CASE UNCHANGED vars
  <2>1. UNCHANGED <<mix, account, password, lost, token, answers, session, fresh, granted, carried,
                  overtaken, totp, generated, confirmed, overlap, set, crossed,
                  passkey, count, signed, accepted, overrun, pc, job>>
    BY <1>3 DEF vars, data, user, store, signin, oauth, second, codes, keys
  <2>2. Types' /\ Jobs' /\ TokenInv' /\ UsedMailVerifies'
    BY <2>1 DEF IInv, Types, Jobs, Fits, Is, TokenInv, Blankness, Holds, UsedMailVerifies
  <2>3. AccountInv' /\ PasswordInv'
    BY <2>1 DEF IInv, AccountInv, Unsettled, NoFactors, Early, Live, Is, Open, Challenge,
                PasswordInv, Rests, Sweeps
  <2>5. OauthInv'
    <3>1. \A q \in Requests : Late(q)' => Late(q)
      BY <2>1 DEF Late
    <3> QED BY <2>1, <3>1, OauthFrame DEF Is
  <2>4. FactorInv' /\ SetInv' /\ KeyInv'
    BY <2>1 DEF IInv, FactorInv, SetInv, ActiveSets, KeyInv, CounterKeepsUp
  <2> QED BY <2>2, <2>3, <2>4, <2>5 DEF IInv
<1> QED BY <1>1, <1>2, <1>3, FailIInv, LapseReauthIInv, LapseTokenIInv
        DEF Next

LEMMA Inductive == Spec => []IInv
BY InitIInv, NextIInv, PTL DEF Spec

----------------------------------------------------------------------------
(* What follows in every state                                             *)

\* Every variable has its type.
THEOREM TypesHold == Spec => []TypeOK
<1>1. IInv => TypeOK
  <2> SUFFICES ASSUME IInv PROVE TypeOK
    OBVIOUS
  <2>1. answers \in [Tokens -> 0..MaxAnswers]
    BY DEF IInv, Types, TokenInv, MaxAnswers
  <2>2. \A r \in Requests : IF pc[r] = "idle" THEN job[r] = NoJob ELSE job[r] \in Job
    BY DEF IInv, Jobs, Fits
  <2> QED BY <2>1, <2>2 DEF IInv, Types, TypeOK
<1> QED BY <1>1, Inductive, PTL

\* reset_password and change_password: when no such request is under way, a
\* live session rests on the current password or is known to be late.
THEOREM NoStaleSession == Spec => []StaleSessionsEnd
<1>1. IInv => StaleSessionsEnd
  BY DEF IInv, PasswordInv, StaleSessionsEnd, Rests, Sweeps
<1> QED BY <1>1, Inductive, PTL

\* reset_password and change_password: the OAuth tokens that are live then
\* were obtained under the current password, but those of a code that was
\* still to be answered when the others were revoked, those a revocation
\* missed, and those of a code issued meanwhile or to a session that
\* outlived its password.
THEOREM NoStaleToken == Spec => []TokensEndWithPassword
<1>1. IInv => TokensEndWithPassword
  BY DEF IInv, OauthInv
<1> QED BY <1>1, Inductive, PTL

\* verify_email: a used token of an unverified account has its request
\* between the two updates, or lost there.
THEOREM VerificationIsKept == Spec => []UsedMailVerifies
<1>1. IInv => UsedMailVerifies
  BY DEF IInv
<1> QED BY <1>1, Inductive, PTL

\* register and delete_account: nobody is signed in to an account that is
\* not verified, and an erased one leaves no factor behind and no secret but
\* its passkey challenges.
THEOREM NothingOutlivesTheAccount == Spec => []RowsNeedTheAccount
<1>1. IInv => RowsNeedTheAccount
  <2> SUFFICES ASSUME IInv PROVE RowsNeedTheAccount
    OBVIOUS
  <2>0. account \in {"none", "pending", "verified", "erased"}
    BY DEF IInv, Types
  <2>1. (\E s \in Sessions : Live(s)) => account = "verified"
    BY <2>0 DEF IInv, AccountInv, Unsettled, Live
  <2>2. ~Exists => NoFactors
    BY <2>0 DEF IInv, AccountInv, Unsettled, Exists
  <2>3. ~Exists => \A t \in Tokens : Open(t) => Challenge(t)
    BY <2>0 DEF IInv, AccountInv, Unsettled, Exists, TokenInv, Blankness, Is, Open, Challenge
  <2> QED BY <2>1, <2>2, <2>3 DEF RowsNeedTheAccount, NoFactors
<1> QED BY <1>1, Inductive, PTL

\* setup_totp and verify_totp: the enabled secret is one whose code was
\* given, but when setup overlapped the confirmation.
THEOREM EnabledSecretIsConfirmed == Spec => []EnabledWasConfirmed
<1>1. IInv => EnabledWasConfirmed
  BY DEF IInv, FactorInv, EnabledWasConfirmed
<1> QED BY <1>1, Inductive, PTL

\* generate_recovery_codes: one set is active, but when two generations
\* overlapped.
THEOREM OneSetIsActive == Spec => []OneActiveSet
<1>1. IInv => OneActiveSet
  <2> SUFFICES ASSUME IInv, ~crossed PROVE Cardinality(ActiveSets) <= 1
    BY DEF OneActiveSet, ActiveSets
  <2>1. \A x, y \in ActiveSets : x = y
    BY DEF IInv, SetInv
  <2>2. CASE ActiveSets = {}
    BY <2>2, FS_EmptySet
  <2>3. ASSUME NEW x \in ActiveSets PROVE Cardinality(ActiveSets) <= 1
    <3>1. ActiveSets = {x}
      BY <2>1
    <3>2. Cardinality({x}) = 1
      BY FS_Singleton
    <3> QED BY <3>1, <3>2
  <2> QED BY <2>2, <2>3
<1> QED BY <1>1, Inductive, PTL

\* auth_finish: the stored signature counter keeps up with the one accepted,
\* but when two sign-ins overlapped.
THEOREM CounterIsKept == Spec => []CounterKeepsUp
<1>1. IInv => CounterKeepsUp
  BY DEF IInv, KeyInv
<1> QED BY <1>1, Inductive, PTL

----------------------------------------------------------------------------
(* Properties of steps                                                     *)

\* Who writes the tokens and the second factor.
LEMMA Writers ==
  ASSUME NEW r \in Requests, Accept(r) \/ Serve(r) \/ Fail(r)
  PROVE  /\ \/ UNCHANGED store
            \/ IssueMail(r) \/ IssueChallenge(r) \/ IssueReset(r) \/ InsertCode(r)
            \/ StoreChallenge(r) \/ IssueCode(r)
            \/ ConsumeMail(r) \/ ConsumeToken(r)
            \/ CreateSession(r) \/ WritePassword(r) \/ InsertKey(r) \/ MintTokens(r)
            \/ EraseAccount(r)
         /\ \/ UNCHANGED totp
            \/ UpsertSecret(r) \/ EnableTotp(r) \/ DisableTotp(r) \/ EraseAccount(r)
<1>1. ASSUME Accept(r) PROVE UNCHANGED <<store, totp>>
  BY <1>1 DEF Accept, Register, AcceptResend, AcceptVerify, AcceptLogin, AcceptReauth,
     AcceptChange, AcceptLogout, AcceptEnd, AcceptEndOthers, AcceptForgot, AcceptReset,
     AcceptErase, AcceptSetup, AcceptConfirm, AcceptDisable, AcceptMfa, AcceptGenerate,
     AcceptRecover, AcceptChallenge, AcceptNewKey, AcceptUseKey, AcceptDropKey,
     AcceptAuthorize, AcceptExchange, AcceptRefresh, Arrive, data, second
<1>2. ASSUME \/ VerifyPassword(r) \/ AskFactor(r) \/ CheckDisabled(r) \/ CheckCode(r)
             \/ ListCodes(r) \/ ReadCredential(r) \/ LockPresented(r)
      PROVE  UNCHANGED <<store, totp>>
  BY <1>2 DEF VerifyPassword, AskFactor, CheckDisabled, CheckCode, ListCodes, ReadCredential,
     LockPresented, data, second
<1>3. ASSUME \/ MarkVerified(r) \/ MarkReauth(r) \/ Revoke(r) \/ SweepSessions(r)
             \/ RevokeTokens(r) \/ ReadPending(r) \/ InvalidateSets(r) \/ InsertSet(r)
             \/ WriteCounter(r) \/ DeleteKey(r) \/ Rotate(r) \/ Fail(r)
      PROVE  UNCHANGED <<store, totp>>
  BY <1>3 DEF MarkVerified, MarkReauth, Revoke, SweepSessions, RevokeTokens, ReadPending,
     InvalidateSets, InsertSet, WriteCounter, DeleteKey, Rotate, Fail, second
<1>4. ASSUME UpsertSecret(r) \/ EnableTotp(r) \/ DisableTotp(r)
      PROVE  UNCHANGED store
  BY <1>4 DEF UpsertSecret, EnableTotp, DisableTotp
<1>5. ASSUME \/ IssueMail(r) \/ IssueChallenge(r) \/ IssueReset(r) \/ InsertCode(r)
             \/ StoreChallenge(r) \/ ConsumeMail(r) \/ ConsumeToken(r)
             \/ CreateSession(r) \/ WritePassword(r) \/ InsertKey(r)
             \/ IssueCode(r) \/ MintTokens(r)
      PROVE  UNCHANGED totp
  BY <1>5 DEF IssueMail, IssueChallenge, IssueReset, InsertCode, StoreChallenge, ConsumeMail,
     ConsumeToken, CreateSession, WritePassword, InsertKey, IssueCode, MintTokens, second
<1> QED BY <1>1, <1>2, <1>3, <1>4, <1>5 DEF Serve

\* disable_totp and delete_account: nothing else turns the second factor
\* off, but a setup that overlaps its confirmation.
THEOREM SecondFactorIsKept == Spec => SecondFactorStays
<1>1. ASSUME IInv, [Next]_vars, totp.on, ~totp'.on, ~overlap
      PROVE  \E r \in Requests : pc[r] \in {"drop", "erase"} /\ pc'[r] = "idle"
  <2>0. Types /\ FactorInv
    BY <1>1 DEF IInv
  <2>1. ASSUME UNCHANGED totp PROVE FALSE
    BY <1>1, <2>1
  <2>2. ASSUME NEW r \in Requests, Accept(r) \/ Serve(r) \/ Fail(r)
        PROVE  pc[r] \in {"drop", "erase"} /\ pc'[r] = "idle"
    <3>1. CASE UpsertSecret(r)
      BY <1>1, <2>0, <3>1 DEF UpsertSecret, FactorInv
    <3>2. CASE EnableTotp(r)
      BY <1>1, <2>0, <3>2 DEF EnableTotp, FactorInv, Types
    <3>3. CASE DisableTotp(r)
      BY <2>0, <3>3 DEF DisableTotp, Goto, Types
    <3>4. CASE EraseAccount(r)
      BY <2>0, <3>4 DEF EraseAccount, Goto, Types
    <3> QED BY <2>1, <2>2, <3>1, <3>2, <3>3, <3>4, Writers
  <2>3. ASSUME \/ \E s \in Sessions : LapseReauth(s)
               \/ \E t \in Tokens : LapseToken(t)
               \/ UNCHANGED vars
        PROVE  UNCHANGED totp
    BY <2>3 DEF LapseReauth, LapseToken, vars, data, second
  <2> QED BY <1>1, <2>1, <2>2, <2>3 DEF Next
<1>2. IInv /\ [Next]_vars =>
        (totp.on /\ ~totp'.on =>
          \/ \E r \in Requests : pc[r] \in {"drop", "erase"} /\ pc'[r] = "idle"
          \/ overlap)
  BY <1>1
<1> QED BY <1>2, Inductive, PTL DEF Spec, SecondFactorStays

----------------------------------------------------------------------------
(* Refinement of OneTimeTokens                                             *)

OpenOnes  == {t \in OneTime : Open(t)}
SpentOnes == {t \in OneTime : token[t].state = "used"}

\* A token that is inserted is issued, but for the verification tokens, which
\* are not among the single-use ones.
LEMMA InsertStep ==
  ASSUME IInv, NEW t \in FreshTokens, NEW u \in Uses, NEW p, NEW y, Insert(t, u, p, y),
         UNCHANGED answers
  PROVE  [Secrets!Next]_(Secrets!vars)
<1>0. /\ Types /\ t \in Tokens /\ token[t].state = "none" /\ token[t].use = "none"
      /\ answers[t] = 0
  <2>1. t \in Tokens /\ token[t].state = "none"
    BY MixAssumption DEF MixAssumption, IInv, Types, FreshTokens, Mix
  <2> QED BY <2>1 DEF IInv, TokenInv, Blankness, Is
<1>1. /\ token'[t].use = u /\ token'[t].state = "open"
      /\ \A x \in Tokens \ {t} : token'[x] = token[x]
  BY <1>0 DEF Insert, Types
<1>2. CASE u = "mail"
  <2>1. UNCHANGED <<OpenOnes, SpentOnes, answers>>
    BY <1>0, <1>1, <1>2 DEF OpenOnes, SpentOnes, OneTime, Open
  <2> QED BY <2>1 DEF Secrets!vars, OpenOnes, SpentOnes
<1>3. CASE u # "mail"
  <2>1. /\ OpenOnes' = OpenOnes \union {t} /\ SpentOnes' = SpentOnes
        /\ t \notin OpenOnes \union SpentOnes
    BY <1>0, <1>1, <1>3 DEF OpenOnes, SpentOnes, OneTime, Open, Uses
  <2>2. Secrets!Issue(t)
    BY <1>0, <2>1 DEF Secrets!Issue, OpenOnes, SpentOnes
  <2> QED BY <1>0, <2>2 DEF Secrets!Next
<1> QED BY <1>2, <1>3

\* A request that has redeemed its token has its effect.
LEMMA AnswerToken ==
  ASSUME IInv, NEW r \in Requests, Holds(r), UNCHANGED token,
         job[r].kind # "verify",
         answers' = [answers EXCEPT ![job[r].token] = @ + 1]
  PROVE  Secrets!Next
<1>1. PICK t \in Tokens : t = job[r].token
  BY DEF IInv, Jobs, Fits, Holds
<1>2. /\ Types /\ token[t].state = "used" /\ answers[t] = 0
      /\ Is(t, UseOf(job[r].kind)) /\ job[r].kind \in Presenting
  BY <1>1 DEF IInv, TokenInv, Jobs, Fits, Holds
<1>3. t \in SpentOnes
  BY <1>2 DEF SpentOnes, OneTime, Is, UseOf, Presenting
<1>4. answers' = [answers EXCEPT ![t] = 1] /\ UNCHANGED <<OpenOnes, SpentOnes>>
  BY <1>1, <1>2 DEF OpenOnes, SpentOnes, OneTime, Open
<1>5. Secrets!Answer(t)
  BY <1>2, <1>3, <1>4 DEF Secrets!Answer, OpenOnes, SpentOnes
<1> QED BY <1>5 DEF Secrets!Next

\* Tokens lapse.
LEMMA DiscardStep ==
  ASSUME IInv, NEW S \in SUBSET Tokens, UNCHANGED answers,
         \A t \in S : Open(t),
         token' = [t \in Tokens |-> IF t \in S THEN [token[t] EXCEPT !.state = "lapsed"]
                                    ELSE token[t]]
  PROVE  Secrets!Next
<1>1. Types
  BY DEF IInv
<1>2. OpenOnes' = OpenOnes \ S /\ SpentOnes' = SpentOnes
  BY <1>1 DEF Types, Row, OpenOnes, SpentOnes, OneTime, Open
<1>3. Secrets!Discard(S)
  BY <1>2 DEF Secrets!Discard, OpenOnes, SpentOnes
<1> QED BY <1>3 DEF Secrets!Next

\* reset_password, mfa_login, recovery_login, register_finish, auth_finish
\* and token_auth_code: a token, challenge or code has its effect once,
\* however many requests present it.
THEOREM SecretsAreSingleUse == Spec => ImplementsOneTime
<1>1. Init => Secrets!Init
  BY DEF Init, Secrets!Init, OneTime, Blank
<1>2. ASSUME IInv, [Next]_vars
      PROVE  [Secrets!Next]_(Secrets!vars)
  <2>0. Types
    BY <1>2 DEF IInv
  <2>1. CASE UNCHANGED store
    <3>1. UNCHANGED <<OpenOnes, SpentOnes, answers>>
      BY <2>1 DEF store, OpenOnes, SpentOnes, OneTime, Open
    <3> QED BY <3>1 DEF Secrets!vars, OpenOnes, SpentOnes
  <2>2. ASSUME NEW r \in Requests,
               \/ IssueMail(r) \/ IssueChallenge(r) \/ IssueReset(r) \/ InsertCode(r)
               \/ StoreChallenge(r) \/ IssueCode(r)
        PROVE  [Secrets!Next]_(Secrets!vars)
    <3>1. UNCHANGED answers
      BY <2>2 DEF IssueMail, IssueChallenge, IssueReset, InsertCode, StoreChallenge, IssueCode
    <3>2. \/ UNCHANGED token
          \/ \E t \in FreshTokens, u \in Uses : \E p, y : Insert(t, u, p, y)
      BY <2>2 DEF IssueMail, IssueChallenge, IssueReset, InsertCode, StoreChallenge, IssueCode,
                  Uses
    <3>3. CASE UNCHANGED token
      BY <2>1, <3>1, <3>3 DEF store
    <3> QED BY <1>2, <3>1, <3>2, <3>3, InsertStep
  <2>3. ASSUME NEW r \in Requests, ConsumeMail(r) \/ ConsumeToken(r), ~UNCHANGED store
        PROVE  [Secrets!Next]_(Secrets!vars)
    <3>0. /\ Fits(r) /\ UNCHANGED answers /\ pc[r] \in {"consumemail", "consume"}
      BY <1>2, <2>3 DEF IInv, Jobs, ConsumeMail, ConsumeToken
    <3>1. PICK t \in Tokens : t = job[r].token /\ Is(t, UseOf(job[r].kind))
      BY <3>0 DEF Fits, Staged, Presenting
    <3>2. token' = [token EXCEPT ![t].state = "used"]
      BY <2>3, <3>0, <3>1 DEF ConsumeMail, ConsumeToken, store
    <3>3. /\ token'[t].use = token[t].use /\ token'[t].state = "used"
          /\ \A x \in Tokens \ {t} : token'[x] = token[x]
      BY <2>0, <3>2 DEF Types, Row
    <3>4. CASE ConsumeMail(r)
      <4>1. token[t].use = "mail"
        BY <3>0, <3>1, <3>4 DEF ConsumeMail, Fits, Staged, UseOf, Is
      <4>2. UNCHANGED <<OpenOnes, SpentOnes, answers>>
        BY <3>0, <3>3, <4>1 DEF OpenOnes, SpentOnes, OneTime, Open
      <4> QED BY <4>2 DEF Secrets!vars, OpenOnes, SpentOnes
    <3>5. CASE ConsumeToken(r)
      <4>1. token[t].use \notin {"none", "mail"}
        BY <3>0, <3>1, <3>5 DEF ConsumeToken, Fits, Staged, UseOf, Is
      <4>2. Open(t)
        BY <2>3, <3>0, <3>1, <3>5 DEF ConsumeToken, store
      <4>3. /\ OpenOnes' = OpenOnes \ {t} /\ SpentOnes' = SpentOnes \union {t}
            /\ t \in OpenOnes
        BY <3>3, <4>1, <4>2 DEF OpenOnes, SpentOnes, OneTime, Open
      <4>4. Secrets!Redeem(t)
        BY <3>0, <4>3 DEF Secrets!Redeem, OpenOnes, SpentOnes
      <4> QED BY <4>4 DEF Secrets!Next
    <3> QED BY <2>3, <3>4, <3>5
  <2>4. ASSUME NEW r \in Requests,
               CreateSession(r) \/ WritePassword(r) \/ InsertKey(r) \/ MintTokens(r),
               ~UNCHANGED store
        PROVE  Secrets!Next
    <3>0. Fits(r) /\ pc[r] \in {"session", "write", "insert", "mint"} /\ UNCHANGED token
      BY <1>2, <2>4 DEF IInv, Jobs, CreateSession, WritePassword, InsertKey, MintTokens
    <3>1. /\ answers' = [answers EXCEPT ![job[r].token] = @ + 1]
          /\ job[r].kind \notin {"change", "refresh"}
      <4>1. CASE CreateSession(r)
        <5>1. answers' = [answers EXCEPT ![job[r].token] = @ + 1]
          BY <2>4, <3>0, <4>1 DEF CreateSession, store
        <5> QED BY <3>0, <4>1, <5>1 DEF CreateSession, Fits, Staged
      <4>2. CASE WritePassword(r)
        <5>1. answers' = [answers EXCEPT ![job[r].token] = @ + 1] /\ job[r].kind # "change"
          BY <2>4, <3>0, <4>2 DEF WritePassword, store
        <5> QED BY <3>0, <4>2, <5>1 DEF WritePassword, Fits, Staged
      <4>3. CASE InsertKey(r)
        <5>1. answers' = [answers EXCEPT ![job[r].token] = @ + 1]
          BY <2>4, <3>0, <4>3 DEF InsertKey, store
        <5> QED BY <3>0, <4>3, <5>1 DEF InsertKey, Fits, Staged
      <4>4. CASE MintTokens(r)
        <5>1. /\ answers' = [answers EXCEPT ![job[r].token] = @ + 1]
              /\ job[r].kind = "exchange"
          BY <2>4, <3>0, <4>4 DEF MintTokens, store
        <5> QED BY <5>1
      <4> QED BY <2>4, <4>1, <4>2, <4>3, <4>4
    <3>2. job[r].token # NoToken
      <4>1. CASE CreateSession(r)
        BY <2>4, <3>0, <4>1 DEF CreateSession, store
      <4>2. CASE WritePassword(r) \/ InsertKey(r) \/ MintTokens(r)
        <5>1. job[r].kind \in {"reset", "newkey", "exchange"}
          BY <3>0, <3>1, <4>2 DEF WritePassword, InsertKey, MintTokens, Fits, Staged
        <5>2. job[r].token \in Tokens
          BY <3>0, <5>1 DEF Fits, Presenting
        <5> QED BY <5>2, AccountAssumption DEF AccountAssumption
      <4> QED BY <2>4, <4>1, <4>2
    <3>3. Holds(r) /\ job[r].kind # "verify"
      BY <3>0, <3>1, <3>2 DEF Holds, Fits, Staged
    <3> QED BY <1>2, <3>0, <3>1, <3>3, AnswerToken
  <2>5. ASSUME NEW r \in Requests, EraseAccount(r)
        PROVE  Secrets!Next
    <3>1. PICK S \in SUBSET Tokens : S = {t \in Tokens : Open(t) /\ ~Challenge(t)}
      OBVIOUS
    <3>2. /\ UNCHANGED answers /\ \A t \in S : Open(t)
          /\ token' = [t \in Tokens |-> IF t \in S THEN [token[t] EXCEPT !.state = "lapsed"]
                                        ELSE token[t]]
      BY <2>5, <3>1 DEF EraseAccount
    <3> QED BY <1>2, <3>2, DiscardStep
  <2>6. ASSUME NEW t \in Tokens, LapseToken(t)
        PROVE  Secrets!Next
    <3>0. PICK S \in SUBSET Tokens : S = {t}
      OBVIOUS
    <3>1. /\ UNCHANGED answers /\ \A x \in S : Open(x)
          /\ token' = [x \in Tokens |-> IF x \in S THEN [token[x] EXCEPT !.state = "lapsed"]
                                        ELSE token[x]]
      BY <2>0, <2>6, <3>0 DEF LapseToken, Types
    <3> QED BY <1>2, <3>1, DiscardStep
  <2>7. ASSUME \/ \E s \in Sessions : LapseReauth(s)
               \/ UNCHANGED vars
        PROVE  UNCHANGED store
    BY <2>7 DEF LapseReauth, vars, data
  <2> QED BY <1>2, <2>1, <2>2, <2>3, <2>4, <2>5, <2>6, <2>7, Writers DEF Next
<1> QED BY <1>1, <1>2, Inductive, PTL DEF Spec, ImplementsOneTime, Secrets!Spec
=============================================================================
