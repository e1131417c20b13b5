--------------------------- MODULE Platform_proofs ---------------------------
(***************************************************************************)
(* Proofs about Platform, for any numbers of machines, users, keys, codes  *)
(* and concurrent requests, and any lifetimes with GraceAssumption.        *)
(*                                                                         *)
(* Each part of the invariant says what the requests under way rely on     *)
(* beside what holds of the tables: a request about to sign has a key that *)
(* was active when it arrived or later, a request past the consumption of  *)
(* a code or enrollment token is alone with it, a rotation past its UPDATE *)
(* has seen whatever works.                                                *)
(***************************************************************************)
EXTENDS Platform, FiniteSetTheorems, TLAPS

\* The types, with counters that have no bound yet.
Types ==
  /\ mix \in Mixes
  /\ now \in 0..MaxTime /\ key \in [Keys -> Key] /\ forked \in BOOLEAN
  /\ token \in [Tokens -> Token] /\ served \subseteq Tokens
  /\ status \in [Actors -> {"none", "active", "suspended", "gone"}]
  /\ cred \in [Creds -> Cred] /\ crossed \subseteq ServiceAccounts
  /\ enrollment \in [Enrollments -> {"none", "open", "used", "lapsed"}]
  /\ enrolled \in [Enrollments -> Nat]
  /\ client \in Client /\ dropped \subseteq 1..MaxSecret
  /\ code \in [Codes -> Code] /\ minted \in [Codes -> Nat]
  /\ pc \in [Requests -> Stages]
  /\ job \in [Requests -> Job \union {None}]

\* What a request carries at each stage, and for how long.
Fits(r) ==
  IF pc[r] = "idle" THEN job[r] = None
  ELSE
    /\ job[r] \in Job
    /\ job[r].since <= now /\ now <= job[r].since + Latency
    /\ pc[r] \in {"ensure", "generate"}
         => job[r].kind \in {"boot", "rotatekey", "validate", "machine", "poll"}
    /\ pc[r] = "record" => job[r].kind \in {"machine", "poll"} /\ job[r].key \in Keys
    /\ pc[r] \in {"verify", "actor"} => job[r].kind = "validate"
    /\ pc[r] \in {"redeem", "device"} => job[r].kind = "enroll"
    /\ pc[r] \in {"capture", "replace"} => job[r].kind = "rotate"
    /\ pc[r] = "secret" => job[r].kind = "secret"
    /\ pc[r] = "decide" => job[r].kind = "decide"
    /\ pc[r] \in {"code", "consume", "member"} => job[r].kind = "poll"
    /\ job[r].kind = "machine" => job[r].actor \in Actors /\ job[r].cred \in Creds
    /\ job[r].kind # "machine" => job[r].cred = None
    /\ job[r].kind \in {"poll", "decide"} => job[r].code \in Codes
    /\ job[r].kind \notin {"poll", "decide"} => job[r].code = None
    /\ job[r].kind = "decide" => job[r].actor \in Users
    /\ job[r].kind = "validate" => job[r].token \in Tokens
    /\ job[r].kind = "enroll" => job[r].enrollment \in Enrollments
    /\ job[r].kind = "rotate" => job[r].actor \in ServiceAccounts
    /\ job[r].kind = "secret" => job[r].old \in 1..MaxSecret

Jobs == \A r \in Requests : Fits(r)

\* A key, active or retired, signs for a token that has the given last use.
Signs(k, last) ==
  key[k].state = "active" \/ (key[k].state = "retired" /\ last <= key[k].at)

SigningInv ==
  /\ \A r \in Requests : pc[r] = "record" => Signs(job[r].key, job[r].since)
  /\ \A t \in Tokens : Recorded(t) =>
       /\ token[t].key \in Keys
       /\ token[t].exp <= now + Ttl
       /\ Signs(token[t].key, token[t].exp - Latency - Ttl)

\* A request that generates a key has no active one beside it.
OneKey ==
  forked \/ /\ \A k, l \in Active : k = l
            /\ (\E r \in Requests : pc[r] = "generate") => Active = {}

\* A credential was live at the given time or later.
WasLive(c, last) ==
  cred[c].state = "live"
    \/ (cred[c].state \in {"expired", "revoked"} /\ last <= cred[c].ended)

FadingInv ==
  /\ \A r \in Requests : pc[r] # "idle" /\ job[r].kind = "machine" =>
       WasLive(job[r].cred, job[r].since)
  /\ \A t \in Tokens : Recorded(t) /\ token[t].cred # None =>
       WasLive(token[t].cred, token[t].exp - Latency - Ttl)

Exists(a) == status[a] # "none"
Bare(a)   == \A c \in Creds : cred[c].owner # a

\* What rotations see of the credentials of an account.
RotationInv ==
  /\ \A c \in Creds : cred[c].state = "none" <=> cred[c].owner = None
  /\ \A a \in ServiceAccounts \union Devices :
       status[a] = "none" => Bare(a)
  /\ \A u \in Users : status[u] \in {"active", "suspended"}
  /\ \A r \in Requests : pc[r] # "idle" /\ job[r].kind = "rotate" =>
       Exists(job[r].actor)
  /\ \A a \in ServiceAccounts : status[a] = "gone" => Unrevoked(a) = {}
  /\ \A a \in Devices \union (ServiceAccounts \ crossed) :
       \A c, d \in Unrevoked(a) : c = d
  /\ \A r \in Requests : pc[r] = "replace" /\ job[r].actor \notin crossed =>
       /\ Unrevoked(job[r].actor) \subseteq job[r].seen
       /\ \A q \in Requests :
            pc[q] = "replace" /\ job[q].actor = job[r].actor => q = r

\* The request that has redeemed an enrollment token is alone with it.
EnrollInv ==
  /\ \A e \in Enrollments : enrolled[e] = 0 \/ (enrolled[e] = 1 /\ enrollment[e] = "used")
  /\ \A r \in Requests : pc[r] = "device" =>
       /\ enrollment[job[r].enrollment] = "used" /\ enrolled[job[r].enrollment] = 0
       /\ \A q \in Requests :
            pc[q] = "device" /\ job[q].enrollment = job[r].enrollment => q = r

\* The request has consumed its device code.
Holds(r) == pc[r] \in {"member", "ensure", "generate", "record"} /\ job[r].kind = "poll"

CodeInv ==
  /\ \A c \in Codes : minted[c] = 0 \/ (minted[c] = 1 /\ code[c].state = "used")
  /\ \A c \in Codes : code[c].state = "approved" => code[c].user \in Users
  /\ \A r \in Requests : pc[r] = "consume" =>
       code[job[r].code].state \notin {"none", "pending"}
         /\ code[job[r].code].user = job[r].actor /\ job[r].actor \in Users
  /\ \A r \in Requests : Holds(r) =>
       /\ code[job[r].code].state = "used" /\ minted[job[r].code] = 0
       /\ code[job[r].code].user = job[r].actor /\ job[r].actor \in Users
       /\ \A q \in Requests : Holds(q) /\ job[q].code = job[r].code => q = r

ApplicationInv ==
  /\ client.state = "live" => client.secret \in 1..MaxSecret
  /\ client.state = "none" => \A c \in Codes : code[c].state = "none"
  /\ client.state = "deleted" =>
       \A c \in Codes : code[c].state \notin {"pending", "approved", "denied"}

IInv ==
  /\ Types /\ Jobs
  /\ SigningInv /\ OneKey /\ FadingInv /\ RotationInv
  /\ EnrollInv /\ CodeInv /\ MintedForApprover
  /\ ApplicationInv /\ ReplacedSecretsArchived

----------------------------------------------------------------------------

LEMMA InitIInv ==
  ASSUME Init
  PROVE  IInv
<1>1. mix \in Mixes /\ mix \in Mix
  BY StoreAssumption DEF StoreAssumption, Init
<1>2. Types
  <2>1. key \in [Keys -> Key] /\ now \in 0..MaxTime
    BY StoreAssumption DEF StoreAssumption, Init, Key
  <2>2. token \in [Tokens -> Token]
    BY StoreAssumption DEF StoreAssumption, Init, Token, NoToken
  <2>3. cred \in [Creds -> Cred]
    BY <1>1, StoreAssumption DEF StoreAssumption, Init, Cred, Mix
  <2>4. client \in Client /\ code \in [Codes -> Code]
    BY StoreAssumption DEF StoreAssumption, Init, Client, Code
  <2> QED
    BY <1>1, <2>1, <2>2, <2>3, <2>4 DEF Types, Init, Stages
<1>3. Jobs /\ FadingInv /\ SigningInv
  BY DEF Init, Jobs, Fits, FadingInv, SigningInv, Recorded, NoToken
<1>4. OneKey
  BY DEF Init, OneKey, Active
<1>5. RotationInv
  BY <1>1, StoreAssumption
  DEF StoreAssumption, Init, RotationInv, Unrevoked, Owned, Mix, Actors, Exists, Bare
<1>6. EnrollInv /\ CodeInv /\ MintedForApprover
  BY DEF Init, EnrollInv, CodeInv, Holds, MintedForApprover, Recorded, NoToken
<1>7. ApplicationInv /\ ReplacedSecretsArchived
  BY StoreAssumption DEF StoreAssumption, Init, ApplicationInv, ReplacedSecretsArchived
<1> QED BY <1>2, <1>3, <1>4, <1>5, <1>6, <1>7 DEF IInv

----------------------------------------------------------------------------
(* Steps of a request                                                      *)

\* What a step of request r keeps of each part of the invariant, if it leaves
\* the data of that part alone.
LEMMA Frame ==
  ASSUME IInv, NEW r \in Requests, NEW to \in Stages, NEW j \in Job \union {None},
         UNCHANGED mix,
         pc' = [pc EXCEPT ![r] = to], job' = [job EXCEPT ![r] = j]
  PROVE  /\ mix' \in Mixes
         /\ pc' \in [Requests -> Stages] /\ job' \in [Requests -> Job \union {None}]
         /\ UNCHANGED now /\ Fits(r)' => Jobs'
         /\ UNCHANGED <<now, key, token>> /\ (to = "record" => Signs(j.key, j.since))
              => SigningInv'
         /\ UNCHANGED <<key, forked>> /\ (to = "generate" => Active = {}) => OneKey'
         /\ UNCHANGED <<cred, token>> /\ (to # "idle" /\ j.kind = "machine"
                => WasLive(j.cred, j.since)) => FadingInv'
         /\ UNCHANGED <<status, cred, crossed>> /\ to # "replace"
              /\ (to # "idle" /\ j.kind = "rotate" => Exists(j.actor))
              => RotationInv'
         /\ UNCHANGED <<enrollment, enrolled>> /\ to # "device" => EnrollInv'
         /\ UNCHANGED <<code, minted>> /\ to # "consume"
              /\ (Holds(r)' => Holds(r) /\ j.code = job[r].code /\ j.actor = job[r].actor)
              => CodeInv'
         /\ UNCHANGED <<code, token>> => MintedForApprover'
         /\ UNCHANGED <<client, code>> => ApplicationInv'
         /\ UNCHANGED <<client, dropped>> => ReplacedSecretsArchived'
<1> USE DEF IInv
<1>1. /\ mix' \in Mixes
      /\ pc' \in [Requests -> Stages] /\ job' \in [Requests -> Job \union {None}]
  BY DEF Types
<1>2. /\ pc'[r] = to /\ job'[r] = j
      /\ \A q \in Requests \ {r} : pc'[q] = pc[q] /\ job'[q] = job[q]
  BY DEF Types
<1>3. UNCHANGED now /\ Fits(r)' => Jobs'
  BY <1>2 DEF Jobs, Fits
<1>4. UNCHANGED <<now, key, token>> /\ (to = "record" => Signs(j.key, j.since)) => SigningInv'
  BY <1>2 DEF SigningInv, Signs, Recorded
<1>5. UNCHANGED <<key, forked>> /\ (to = "generate" => Active = {}) => OneKey'
  BY <1>2 DEF OneKey, Active
<1>6. UNCHANGED <<cred, token>> /\ (to # "idle" /\ j.kind = "machine"
         => WasLive(j.cred, j.since)) => FadingInv'
  BY <1>2 DEF FadingInv, WasLive, Recorded
<1>7. UNCHANGED <<status, cred, crossed>> /\ to # "replace"
              /\ (to # "idle" /\ j.kind = "rotate" => Exists(j.actor))
              => RotationInv'
  BY <1>2 DEF RotationInv, Unrevoked, Owned, Exists, Bare
<1>8. UNCHANGED <<enrollment, enrolled>> /\ to # "device" => EnrollInv'
  BY <1>2 DEF EnrollInv
<1>9. UNCHANGED <<code, minted>> /\ to # "consume"
        /\ (Holds(r)' => Holds(r) /\ j.code = job[r].code /\ j.actor = job[r].actor)
        => CodeInv'
  BY <1>2 DEF CodeInv, Holds
<1>10. UNCHANGED <<code, token>> => MintedForApprover'
  BY DEF MintedForApprover, Recorded
<1>11. UNCHANGED <<client, code>> => ApplicationInv'
  BY DEF ApplicationInv
<1>12. UNCHANGED <<client, dropped>> => ReplacedSecretsArchived'
  BY DEF ReplacedSecretsArchived
<1> QED BY <1>1, <1>3, <1>4, <1>5, <1>6, <1>7, <1>8, <1>9, <1>10, <1>11, <1>12

\* A request moves on, or is answered, without a write.
LEMMA MoveIInv ==
  ASSUME IInv, NEW r \in Requests, NEW to \in Stages, NEW j \in Job \union {None},
         UNCHANGED <<mix, data>>,
         pc' = [pc EXCEPT ![r] = to], job' = [job EXCEPT ![r] = j],
         to \notin {"record", "replace", "device", "consume"},
         to = "generate" => Active = {},
         to # "idle" /\ j.kind = "machine" => WasLive(j.cred, j.since),
         to # "idle" /\ j.kind = "rotate" => Exists(j.actor),
         Holds(r)' => Holds(r) /\ j.code = job[r].code /\ j.actor = job[r].actor,
         Fits(r)'
  PROVE  IInv'
<1> USE DEF data, keys, tokens, machines, apps
<1>1. Types'
  BY Frame DEF IInv, Types
<1>2. RotationInv'
  BY Frame
<1>3. FadingInv' /\ CodeInv' /\ EnrollInv'
  BY Frame
<1> QED BY <1>1, <1>2, <1>3, Frame DEF IInv

LEMMA AnswerIInv ==
  ASSUME IInv, NEW r \in Requests, UNCHANGED data, Goto(r, "idle")
  PROVE  IInv'
<1>1. /\ pc' = [pc EXCEPT ![r] = "idle"] /\ job' = [job EXCEPT ![r] = None]
      /\ UNCHANGED mix
  BY DEF Goto, Continue
<1>2. Fits(r)' /\ ~Holds(r)'
  BY <1>1 DEF IInv, Types, Fits, Holds
<1> QED BY <1>1, <1>2, MoveIInv DEF Stages

\* A request that arrives with the fields of its kind.
LEMMA ArriveIInv ==
  ASSUME IInv, NEW r \in Requests, NEW first \in Stages \ {"idle"}, NEW j \in Job,
         Arrive(r, first, j), j.since = now,
         first \notin {"generate", "record", "replace", "device", "consume", "member"},
         first = "ensure" => j.kind \in {"boot", "validate", "machine"},
         j.kind = "machine" => WasLive(j.cred, j.since),
         j.kind = "rotate" => Exists(j.actor),
         Fits(r)'
  PROVE  IInv'
<1>1. /\ pc' = [pc EXCEPT ![r] = first] /\ job' = [job EXCEPT ![r] = j]
      /\ UNCHANGED <<mix, data>>
  BY DEF Arrive, Begin, Continue
<1>2. ~Holds(r)'
  BY <1>1 DEF IInv, Types, Holds
<1> QED BY <1>1, <1>2, MoveIInv

\* Arrivals, one for each request that does more than one statement.
LEMMA AcceptIInv ==
  ASSUME IInv, NEW r \in Requests,
         \/ AcceptBoot(r) \/ AcceptValidate(r) \/ AcceptRotate(r) \/ AcceptEnroll(r)
         \/ AcceptMachine(r) \/ AcceptSecret(r) \/ AcceptDecide(r) \/ AcceptPoll(r)
  PROVE  IInv'
<1>0. /\ pc \in [Requests -> Stages] /\ job \in [Requests -> Job \union {None}]
      /\ now \in 0..MaxTime /\ Latency \in Nat /\ MaxTime \in Nat /\ now <= now + Latency
      /\ client \in Client /\ None \notin Users /\ None \notin Creds /\ MaxSecret \in Nat
  BY StoreAssumption DEF StoreAssumption, IInv, Types, Actors
<1>1. CASE AcceptBoot(r)
  <2> DEFINE j == Input("boot")
  <2>1. j \in Job
    BY <1>0 DEF Input, Job, AllKinds
  <2>2. Arrive(r, "ensure", j)
    BY <1>1 DEF AcceptBoot
  <2>3. Fits(r)'
    BY <1>0, <2>1, <2>2 DEF Arrive, Begin, Continue, data, keys, Fits, Input
  <2> QED BY <2>1, <2>2, <2>3, ArriveIInv DEF Stages, Input
<1>2. CASE AcceptValidate(r)
  <2>0. PICK t \in Tokens : Arrive(r, "ensure", [Input("validate") EXCEPT !.token = t])
    BY <1>2 DEF AcceptValidate
  <2> DEFINE j == [Input("validate") EXCEPT !.token = t]
  <2>1. j \in Job
    BY <1>0 DEF Input, Job, AllKinds
  <2>3. Fits(r)'
    BY <1>0, <2>1, <2>0 DEF Arrive, Begin, Continue, data, keys, Fits, Input
  <2> QED BY <2>1, <2>0, <2>3, ArriveIInv DEF Stages, Input
<1>3. CASE AcceptRotate(r)
  <2>0. PICK a \in ServiceAccounts :
          /\ status[a] # "none"
          /\ Arrive(r, "capture", [Input("rotate") EXCEPT !.actor = a])
    BY <1>3 DEF AcceptRotate
  <2> DEFINE j == [Input("rotate") EXCEPT !.actor = a]
  <2>1. j \in Job
    BY <1>0 DEF Input, Job, AllKinds, Actors
  <2>3. Fits(r)'
    BY <1>0, <2>1, <2>0 DEF Arrive, Begin, Continue, data, keys, Fits, Input
  <2> QED BY <2>1, <2>0, <2>3, ArriveIInv DEF Stages, Input, Exists
<1>4. CASE AcceptEnroll(r)
  <2>0. PICK e \in Enrollments :
          Arrive(r, "redeem", [Input("enroll") EXCEPT !.enrollment = e])
    BY <1>4 DEF AcceptEnroll
  <2> DEFINE j == [Input("enroll") EXCEPT !.enrollment = e]
  <2>1. j \in Job
    BY <1>0 DEF Input, Job, AllKinds
  <2>3. Fits(r)'
    BY <1>0, <2>1, <2>0 DEF Arrive, Begin, Continue, data, keys, Fits, Input
  <2> QED BY <2>1, <2>0, <2>3, ArriveIInv DEF Stages, Input
<1>5. CASE AcceptMachine(r)
  <2> DEFINE j(c) == [Input("machine") EXCEPT !.actor = cred[c].owner, !.cred = c]
  <2>0. PICK c \in Creds : cred[c].state = "live" /\ Arrive(r, "ensure", j(c))
    BY <1>5 DEF AcceptMachine
  <2>1. cred[c].owner \in Actors
    BY <2>0 DEF IInv, Types, Cred, RotationInv
  <2> DEFINE i == [Input("machine") EXCEPT !.actor = cred[c].owner]
  <2>2. /\ i \in Job /\ i.kind = "machine" /\ i.since = now /\ i.code = None
        /\ i.actor = cred[c].owner
    BY <1>0, <2>1 DEF Input, Job, AllKinds
  <2>3. j(c) = [i EXCEPT !.cred = c]
    OBVIOUS
  <2> HIDE DEF i, j
  <2>4. /\ j(c) \in Job /\ j(c).kind = "machine" /\ j(c).since = now /\ j(c).code = None
        /\ j(c).actor \in Actors /\ j(c).cred = c
    BY <2>1, <2>2, <2>3 DEF Job
  <2>5. Fits(r)'
    BY <1>0, <2>4, <2>0 DEF Arrive, Begin, Continue, data, keys, Fits
  <2>6. WasLive(j(c).cred, j(c).since)
    BY <2>0, <2>4 DEF WasLive
  <2> QED BY <2>0, <2>4, <2>5, <2>6, ArriveIInv DEF Stages
<1>6. CASE AcceptSecret(r)
  <2> DEFINE j == [Input("secret") EXCEPT !.old = client.secret]
  <2>0. client.state = "live" /\ Arrive(r, "secret", j)
    BY <1>6 DEF AcceptSecret
  <2>1. client.secret \in 1..MaxSecret
    BY <2>0 DEF IInv, ApplicationInv
  <2>2. j \in Job /\ j.old = client.secret /\ j.kind = "secret" /\ j.since = now
        /\ j.code = None /\ j.cred = None
    BY <1>0, <2>1 DEF Input, Job, AllKinds
  <2> HIDE DEF j
  <2>3. Fits(r)'
    BY <1>0, <2>1, <2>2, <2>0 DEF Arrive, Begin, Continue, data, keys, Fits
  <2> QED BY <2>2, <2>0, <2>3, ArriveIInv DEF Stages
<1>7. CASE AcceptDecide(r)
  <2> DEFINE j(c, u) == [Input("decide") EXCEPT !.code = c, !.actor = u]
  <2>0. PICK c \in Codes, u \in Users : Arrive(r, "decide", j(c, u))
    BY <1>7 DEF AcceptDecide
  <2> DEFINE i == [Input("decide") EXCEPT !.code = c]
  <2>1. i \in Job /\ i.kind = "decide" /\ i.since = now /\ i.code = c /\ i.cred = None
    BY <1>0 DEF Input, Job, AllKinds
  <2>2. j(c, u) = [i EXCEPT !.actor = u]
    OBVIOUS
  <2> HIDE DEF i, j
  <2>3. /\ j(c, u) \in Job /\ j(c, u).kind = "decide" /\ j(c, u).since = now
        /\ j(c, u).code = c /\ j(c, u).cred = None /\ j(c, u).actor \in Users
    BY <2>1, <2>2 DEF Job, Actors
  <2>4. Fits(r)'
    BY <1>0, <2>3, <2>0 DEF Arrive, Begin, Continue, data, keys, Fits
  <2> QED BY <2>0, <2>3, <2>4, ArriveIInv DEF Stages
<1>8. CASE AcceptPoll(r)
  <2>0. PICK c \in Codes : Arrive(r, "code", [Input("poll") EXCEPT !.code = c])
    BY <1>8 DEF AcceptPoll
  <2> DEFINE j == [Input("poll") EXCEPT !.code = c]
  <2>1. j \in Job
    BY <1>0 DEF Input, Job, AllKinds
  <2>3. Fits(r)'
    BY <1>0, <2>1, <2>0 DEF Arrive, Begin, Continue, data, keys, Fits, Input
  <2> QED BY <2>1, <2>0, <2>3, ArriveIInv DEF Stages, Input
<1> QED BY <1>1, <1>2, <1>3, <1>4, <1>5, <1>6, <1>7, <1>8

\* What is read but not written on the way.
LEMMA ReadIInv ==
  ASSUME IInv, NEW r \in Requests,
         EnsureKey(r) \/ VerifyToken(r) \/ ReadCode(r) \/ CheckMember(r) \/ Fail(r)
  PROVE  IInv'
<1> USE DEF data, keys, tokens, machines, apps
<1>0. /\ Types /\ Fits(r)
      /\ pc \in [Requests -> Stages] /\ job \in [Requests -> Job \union {None}]
  BY DEF IInv, Types, Jobs
<1>1. CASE EnsureKey(r)
  <2>0. pc[r] = "ensure" /\ UNCHANGED <<mix, data>> /\ job[r] \in Job
    BY <1>0, <1>1 DEF EnsureKey, Continue, Goto, Fits
  <2>1. CASE Active = {} /\ Goto(r, "generate")
    <3>1. pc' = [pc EXCEPT ![r] = "generate"] /\ job' = [job EXCEPT ![r] = job[r]]
      BY <2>1 DEF Goto, Continue
    <3>2. Fits(r)' /\ (Holds(r)' => Holds(r))
      BY <1>0, <2>0, <3>1 DEF Fits, Holds
    <3>3. job[r].kind = "machine" => WasLive(job[r].cred, job[r].since)
      BY <2>0 DEF IInv, FadingInv
    <3>4. job[r].kind # "rotate"
      BY <1>0, <2>0 DEF Fits
    <3> QED BY <2>0, <2>1, <3>1, <3>2, <3>3, <3>4, MoveIInv DEF Stages
  <2>2. ASSUME NEW k \in Active, Continue(r, AfterKey(r), [job[r] EXCEPT !.key = k])
        PROVE  IInv'
    <3> DEFINE j == [job[r] EXCEPT !.key = k]
               to == AfterKey(r)
    <3>1. /\ to \in {"verify", "idle", "record"}
          /\ to = "verify" <=> job[r].kind = "validate"
          /\ to = "idle" <=> job[r].kind \in {"boot", "rotatekey"}
      BY DEF AfterKey
    <3>2. /\ j \in Job /\ j.key = k /\ j.since = job[r].since /\ j.kind = job[r].kind
          /\ j.cred = job[r].cred /\ j.code = job[r].code /\ j.actor = job[r].actor
          /\ j.token = job[r].token /\ k \in Keys
      BY <2>0 DEF Job, Active
    <3> HIDE DEF j, to
    <3>3. /\ pc' = [pc EXCEPT ![r] = to]
          /\ job' = [job EXCEPT ![r] = IF to = "idle" THEN None ELSE j]
      BY <2>2 DEF Continue, j, to
    <3>4. Fits(r)' /\ (Holds(r)' => Holds(r) /\ to # "idle")
      BY <1>0, <2>0, <3>1, <3>2, <3>3 DEF Fits, Holds
    <3>5. Signs(j.key, j.since)
      BY <2>2, <3>2 DEF Signs, Active
    <3>6. j.kind = "machine" => WasLive(j.cred, j.since)
      BY <2>0, <3>2 DEF IInv, FadingInv
    <3>7. j.kind # "rotate" /\ to \in Stages /\ to \notin {"generate", "replace", "device", "consume"}
      BY <1>0, <2>0, <3>1, <3>2 DEF Fits, Stages
    <3> DEFINE h == IF to = "idle" THEN None ELSE j
    <3>8. /\ h \in Job \union {None} /\ job' = [job EXCEPT ![r] = h]
          /\ to # "idle" => h = j
      BY <3>2, <3>3
    <3> HIDE DEF h
    <3>9. /\ mix' \in Mixes /\ pc' \in [Requests -> Stages]
          /\ job' \in [Requests -> Job \union {None}]
          /\ Jobs' /\ OneKey' /\ EnrollInv' /\ MintedForApprover' /\ ApplicationInv'
          /\ ReplacedSecretsArchived'
      BY <2>0, <3>3, <3>4, <3>7, <3>8, Frame
    <3>a. /\ to = "record" => Signs(h.key, h.since)
          /\ to # "idle" /\ h.kind = "machine" => WasLive(h.cred, h.since)
          /\ to # "idle" /\ h.kind = "rotate" => Exists(h.actor)
      BY <3>5, <3>6, <3>7, <3>8
    <3>10. SigningInv' /\ FadingInv' /\ RotationInv'
      BY <2>0, <3>3, <3>7, <3>8, <3>a, Frame
    <3>11. CodeInv'
      BY <2>0, <3>2, <3>3, <3>4, <3>7, <3>8, Frame
    <3>12. Types'
      BY <1>0, <2>0, <3>9 DEF Types
    <3> QED BY <3>9, <3>10, <3>11, <3>12 DEF IInv
  <2> QED BY <1>1, <2>1, <2>2 DEF EnsureKey
<1>2. CASE VerifyToken(r)
  <2>0. /\ pc[r] = "verify" /\ UNCHANGED <<mix, data>> /\ job[r] \in Job
        /\ job[r].kind = "validate"
    BY <1>0, <1>2 DEF VerifyToken, Goto, Continue, Fits
  <2>1. CASE Goto(r, "idle")
    BY <2>0, <2>1, AnswerIInv
  <2>2. CASE Goto(r, "actor")
    <3>1. pc' = [pc EXCEPT ![r] = "actor"] /\ job' = [job EXCEPT ![r] = job[r]]
      BY <2>2 DEF Goto, Continue
    <3>2. Fits(r)' /\ ~Holds(r)'
      BY <1>0, <2>0, <3>1 DEF Fits, Holds
    <3> QED BY <2>0, <3>1, <3>2, MoveIInv DEF Stages
  <2> QED BY <1>2, <2>1, <2>2 DEF VerifyToken
<1>3. CASE ReadCode(r)
  <2>0. /\ pc[r] = "code" /\ UNCHANGED <<mix, data>> /\ job[r] \in Job
        /\ job[r].kind = "poll" /\ job[r].code \in Codes
    BY <1>0, <1>3 DEF ReadCode, Goto, Continue, Fits
  <2>1. CASE Goto(r, "idle")
    BY <2>0, <2>1, AnswerIInv
  <2> DEFINE j == [job[r] EXCEPT !.actor = code[job[r].code].user]
  <2>2. CASE code[job[r].code].state = "approved" /\ Continue(r, "consume", j)
    <3>1. code[job[r].code].user \in Users
      BY <2>0, <2>2 DEF IInv, CodeInv
    <3>2. /\ j \in Job /\ j.since = job[r].since /\ j.kind = "poll" /\ j.cred = job[r].cred
          /\ j.code = job[r].code /\ j.actor = code[job[r].code].user
      BY <2>0, <3>1 DEF Job, Actors
    <3> HIDE DEF j
    <3>3. pc' = [pc EXCEPT ![r] = "consume"] /\ job' = [job EXCEPT ![r] = j]
      BY <2>2 DEF Continue
    <3>4. Fits(r)' /\ ~Holds(r)'
      BY <1>0, <2>0, <3>2, <3>3 DEF Fits, Holds
    <3>5. /\ mix' \in Mixes /\ pc' \in [Requests -> Stages]
          /\ job' \in [Requests -> Job \union {None}]
          /\ Jobs' /\ OneKey' /\ EnrollInv' /\ MintedForApprover' /\ ApplicationInv'
          /\ ReplacedSecretsArchived' /\ SigningInv' /\ FadingInv' /\ RotationInv'
      BY <2>0, <3>2, <3>3, <3>4, Frame DEF Stages
    <3>6. Types'
      BY <1>0, <2>0, <3>5 DEF Types
    <3>7. CodeInv'
      BY <1>0, <2>0, <2>2, <3>1, <3>2, <3>3, <3>4 DEF IInv, CodeInv, Holds
    <3> QED BY <3>5, <3>6, <3>7 DEF IInv
  <2> QED BY <1>3, <2>1, <2>2 DEF ReadCode
<1>4. CASE CheckMember(r)
  <2>0. /\ pc[r] = "member" /\ UNCHANGED <<mix, data>> /\ job[r] \in Job
        /\ job[r].kind = "poll"
    BY <1>0, <1>4 DEF CheckMember, Goto, Continue, Fits
  <2>1. CASE Goto(r, "idle")
    BY <2>0, <2>1, AnswerIInv
  <2>2. CASE Goto(r, "ensure")
    <3>1. pc' = [pc EXCEPT ![r] = "ensure"] /\ job' = [job EXCEPT ![r] = job[r]]
      BY <2>2 DEF Goto, Continue
    <3>2. Fits(r)' /\ Holds(r)
      BY <1>0, <2>0, <3>1 DEF Fits, Holds
    <3> QED BY <2>0, <3>1, <3>2, MoveIInv DEF Stages
  <2> QED BY <1>4, <2>1, <2>2 DEF CheckMember
<1>5. CASE Fail(r)
  BY <1>5, AnswerIInv DEF Fail
<1> QED BY <1>1, <1>2, <1>3, <1>4, <1>5

----------------------------------------------------------------------------
(* Writes                                                                  *)

\* A write answers its request, and leaves the parts of the invariant alone
\* whose data it does not write.
LEMMA Ends ==
  ASSUME IInv, NEW r \in Requests, UNCHANGED mix,
         pc' = [pc EXCEPT ![r] = "idle"], job' = [job EXCEPT ![r] = None]
  PROVE  /\ mix' \in Mixes
         /\ pc' \in [Requests -> Stages] /\ job' \in [Requests -> Job \union {None}]
         /\ \A q \in Requests :
              pc'[q] # "idle" => q # r /\ pc'[q] = pc[q] /\ job'[q] = job[q]
         /\ UNCHANGED now => Jobs'
         /\ UNCHANGED <<now, key, token>> => SigningInv'
         /\ UNCHANGED <<key, forked>> => OneKey'
         /\ UNCHANGED <<cred, token>> => FadingInv'
         /\ UNCHANGED <<status, cred, crossed>> => RotationInv'
         /\ UNCHANGED <<enrollment, enrolled>> => EnrollInv'
         /\ UNCHANGED <<code, minted>> => CodeInv'
         /\ UNCHANGED <<code, token>> => MintedForApprover'
         /\ UNCHANGED <<client, code>> => ApplicationInv'
         /\ UNCHANGED <<client, dropped>> => ReplacedSecretsArchived'
<1>1. pc \in [Requests -> Stages] /\ job \in [Requests -> Job \union {None}]
  BY DEF IInv, Types
<1>2. /\ pc'[r] = "idle" /\ job'[r] = None
      /\ \A q \in Requests \ {r} : pc'[q] = pc[q] /\ job'[q] = job[q]
  BY <1>1
<1>3. (UNCHANGED now => Fits(r)') /\ ~Holds(r)'
  BY <1>2 DEF Fits, Holds
<1> QED BY <1>2, <1>3, Frame DEF Stages

LEMMA GenerateKeyIInv ==
  ASSUME IInv, NEW r \in Requests, GenerateKey(r)
  PROVE  IInv'
<1> USE DEF tokens, machines, apps
<1>0. /\ Types /\ Fits(r) /\ pc[r] = "generate" /\ job[r] \in Job
      /\ pc \in [Requests -> Stages] /\ job \in [Requests -> Job \union {None}]
      /\ UNCHANGED <<mix, now, token, served, status, cred, crossed, enrollment, enrolled,
                      client, dropped, code, minted>>
      /\ forked' = (forked \/ \E q \in Requests \ {r} : pc[q] = "generate")
  BY DEF IInv, Types, Jobs, GenerateKey, Fits, Continue
<1> DEFINE to == AfterKey(r)
           j(k) == [job[r] EXCEPT !.key = k]
           h(k) == IF to = "idle" THEN None ELSE j(k)
<1>1. PICK k \in Keys :
        /\ key[k].state = "none"
        /\ key' = [key EXCEPT ![k] = [state |-> "active", at |-> 0]]
        /\ Continue(r, to, j(k))
  BY DEF GenerateKey
<1>2. pc' = [pc EXCEPT ![r] = to] /\ job' = [job EXCEPT ![r] = h(k)]
  BY <1>1 DEF Continue
<1>3. /\ to \in {"verify", "idle", "record"}
      /\ to = "verify" <=> job[r].kind = "validate"
      /\ to = "idle" <=> job[r].kind \in {"boot", "rotatekey"}
  BY DEF AfterKey
<1>4. /\ j(k) \in Job /\ j(k).key = k /\ j(k).since = job[r].since
      /\ j(k).kind = job[r].kind /\ j(k).cred = job[r].cred /\ j(k).code = job[r].code
      /\ j(k).actor = job[r].actor /\ j(k).token = job[r].token
  BY <1>0 DEF Job
<1> HIDE DEF j, to
<1>5. h(k) \in Job \union {None} /\ (to # "idle" => h(k) = j(k)) /\ (to = "idle" => h(k) = None)
  BY <1>4
<1> HIDE DEF h
<1>6. Fits(r)' /\ (Holds(r)' => Holds(r) /\ to # "idle")
  BY <1>0, <1>2, <1>3, <1>4, <1>5 DEF Fits, Holds
<1>7. /\ to # "idle" /\ h(k).kind = "machine" => WasLive(h(k).cred, h(k).since)
      /\ to # "idle" /\ h(k).kind = "rotate" => Exists(h(k).actor)
      /\ to \in Stages /\ to \notin {"replace", "device"}
  <2>1. to # "idle" /\ h(k).kind = "machine" => WasLive(h(k).cred, h(k).since)
    BY <1>0, <1>3, <1>4, <1>5 DEF IInv, FadingInv
  <2>2. to # "idle" => h(k).kind # "rotate"
    BY <1>0, <1>3, <1>4, <1>5 DEF Fits
  <2> QED BY <1>3, <2>1, <2>2 DEF Stages
<1>8. /\ mix' \in Mixes /\ pc' \in [Requests -> Stages]
      /\ job' \in [Requests -> Job \union {None}]
      /\ Jobs' /\ EnrollInv' /\ MintedForApprover' /\ ApplicationInv'
      /\ ReplacedSecretsArchived' /\ FadingInv' /\ RotationInv'
  BY <1>0, <1>2, <1>5, <1>6, <1>7, Frame
<1>9. CodeInv'
  BY <1>0, <1>2, <1>3, <1>4, <1>5, <1>6, Frame DEF Stages
<1>10. key' \in [Keys -> Key] /\ forked' \in BOOLEAN
  BY <1>0, <1>1, StoreAssumption DEF Types, Key, StoreAssumption
<1>11. Types'
  BY <1>0, <1>8, <1>10 DEF Types
<1>12. SigningInv'
  <2>1. \A l \in Keys \ {k} : key'[l] = key[l]
    BY <1>0, <1>1 DEF Types
  <2>2. key'[k].state = "active"
    BY <1>0, <1>1 DEF Types
  <2>3. \A l \in Keys : \A n : Signs(l, n) => Signs(l, n)'
    BY <1>0, <1>1, <2>1, <2>2 DEF Signs
  <2>4. ASSUME NEW q \in Requests, pc'[q] = "record"
        PROVE  Signs(job[q].key, job[q].since)'
    <3>1. CASE q = r
      BY <1>0, <1>2, <1>4, <1>5, <2>2, <2>4, <3>1 DEF Signs
    <3>2. CASE q # r
      <4>1. pc[q] = "record" /\ job'[q] = job[q] /\ job[q].key \in Keys
        BY <1>0, <1>2, <2>4, <3>2 DEF IInv, Jobs, Fits
      <4> QED BY <2>3, <4>1 DEF IInv, SigningInv
    <3> QED BY <3>1, <3>2
  <2>5. ASSUME NEW t \in Tokens, Recorded(t)'
        PROVE  /\ token'[t].key \in Keys /\ token'[t].exp <= now' + Ttl
               /\ Signs(token[t].key, token[t].exp - Latency - Ttl)'
    BY <1>0, <2>3, <2>5 DEF IInv, SigningInv, Recorded
  <2> QED BY <2>4, <2>5 DEF SigningInv
<1>13. OneKey'
  <2>1. CASE forked' = TRUE
    BY <2>1 DEF OneKey
  <2>2. CASE forked' = FALSE
    <3>1. /\ \A q \in Requests \ {r} : pc[q] # "generate"
          /\ forked = FALSE
      BY <1>0, <2>2 DEF Types
    <3>2. Active = {}
      BY <1>0, <3>1 DEF IInv, OneKey
    <3>3. Active' = {k}
      BY <1>0, <1>1, <3>2 DEF Active, Types
    <3>4. \A q \in Requests : pc'[q] # "generate"
      BY <1>0, <1>2, <1>3, <3>1
    <3> QED BY <3>3, <3>4 DEF OneKey
  <2> QED BY <2>1, <2>2, <1>10
<1> QED BY <1>8, <1>9, <1>11, <1>12, <1>13 DEF IInv

LEMMA RetireKeysIInv ==
  ASSUME IInv, NEW r \in Requests, RetireKeys(r)
  PROVE  IInv'
<1> USE DEF tokens, machines, apps
<1> DEFINE j == Input("rotatekey")
<1>0. /\ Types /\ pc[r] = "idle"
      /\ pc \in [Requests -> Stages] /\ job \in [Requests -> Job \union {None}]
      /\ now \in 0..MaxTime /\ MaxTime \in Nat /\ Latency \in Nat /\ Ttl \in Nat
      /\ MaxSecret \in Nat
      /\ UNCHANGED <<mix, now, token, served, status, cred, crossed, enrollment, enrolled,
                      client, dropped, code, minted>>
      /\ forked' = FALSE
      /\ key' = [k \in Keys |->
           IF k \in Active THEN [state |-> "retired", at |-> now] ELSE key[k]]
      /\ pc' = [pc EXCEPT ![r] = "generate"] /\ job' = [job EXCEPT ![r] = j]
  BY StoreAssumption DEF StoreAssumption, IInv, Types, RetireKeys, Begin, Continue
<1>1. j \in Job /\ j.kind = "rotatekey" /\ j.since = now /\ j.cred = None /\ j.code = None
  BY <1>0 DEF Input, Job, AllKinds
<1> HIDE DEF j
<1>2. Fits(r)' /\ ~Holds(r)'
  BY <1>0, <1>1 DEF Fits, Holds
<1>3. /\ mix' \in Mixes /\ pc' \in [Requests -> Stages]
      /\ job' \in [Requests -> Job \union {None}]
      /\ Jobs' /\ EnrollInv' /\ MintedForApprover' /\ ApplicationInv' /\ CodeInv'
      /\ ReplacedSecretsArchived' /\ FadingInv' /\ RotationInv'
  BY <1>0, <1>1, <1>2, Frame DEF Stages
<1>4. Types'
  BY <1>0, <1>3 DEF Types, Key
<1>5. OneKey'
  BY <1>0 DEF OneKey, Active
<1>6. SigningInv'
  <2>1. \A k \in Keys, n \in Int : Signs(k, n) /\ n <= now => Signs(k, n)'
    BY <1>0 DEF Signs, Active
  <2>2. ASSUME NEW q \in Requests, pc'[q] = "record"
        PROVE  Signs(job[q].key, job[q].since)'
    <3>1. /\ pc[q] = "record" /\ job'[q] = job[q] /\ job[q].key \in Keys
          /\ job[q].since \in Int /\ job[q].since <= now
      BY <1>0, <2>2 DEF IInv, Jobs, Fits, Job
    <3> QED BY <2>1, <3>1 DEF IInv, SigningInv
  <2>3. ASSUME NEW t \in Tokens, Recorded(t)'
        PROVE  /\ token'[t].key \in Keys /\ token'[t].exp <= now' + Ttl
               /\ Signs(token[t].key, token[t].exp - Latency - Ttl)'
    <3>1. token[t].exp \in Int /\ Recorded(t)
      BY <1>0, <2>3 DEF Types, Token, Recorded
    <3>2. /\ token[t].key \in Keys /\ token[t].exp <= now + Ttl
          /\ Signs(token[t].key, token[t].exp - Latency - Ttl)
      BY <3>1 DEF IInv, SigningInv
    <3>3. token[t].exp - Latency - Ttl \in Int /\ token[t].exp - Latency - Ttl <= now
      BY <1>0, <3>1, <3>2
    <3>4. Signs(token[t].key, token[t].exp - Latency - Ttl)'
      BY <1>0, <2>1, <3>2, <3>3
    <3> QED BY <1>0, <3>2, <3>4
  <2> QED BY <2>2, <2>3 DEF SigningInv
<1> QED BY <1>3, <1>4, <1>5, <1>6 DEF IInv

LEMMA RecordTokenIInv ==
  ASSUME IInv, NEW r \in Requests, RecordToken(r)
  PROVE  IInv'
<1> USE DEF keys, machines
<1>0. /\ Types /\ Fits(r) /\ pc[r] = "record" /\ job[r] \in Job
      /\ pc \in [Requests -> Stages] /\ job \in [Requests -> Job \union {None}]
      /\ now \in 0..MaxTime /\ MaxTime \in Nat /\ Latency \in Nat /\ Ttl \in Nat
      /\ UNCHANGED <<mix, now, key, forked, served, status, cred, crossed, enrollment,
                      enrolled, client, dropped, code>>
      /\ minted' = IF job[r].code = None THEN minted
                   ELSE [minted EXCEPT ![job[r].code] = @ + 1]
      /\ pc' = [pc EXCEPT ![r] = "idle"] /\ job' = [job EXCEPT ![r] = None]
  BY StoreAssumption
  DEF StoreAssumption, IInv, Types, Jobs, RecordToken, Fits, Continue, Goto
<1> DEFINE new == [actor |-> job[r].actor, cred |-> job[r].cred, code |-> job[r].code,
                   key |-> job[r].key, exp |-> now + Ttl]
<1>1. PICK t \in Tokens : token' = [token EXCEPT ![t] = new]
  <2>1. PICK t \in FreshTokens : token' = [token EXCEPT ![t] = new]
    BY DEF RecordToken
  <2>2. t \in Tokens
    BY <1>0, <2>1, StoreAssumption DEF FreshTokens, StoreAssumption, Mix, Types
  <2> QED BY <2>1, <2>2
<1>2. /\ new \in Token /\ new.actor = job[r].actor /\ new.cred = job[r].cred
      /\ new.code = job[r].code /\ new.key = job[r].key /\ new.exp = now + Ttl
  BY <1>0 DEF Token, Job
<1> HIDE DEF new
<1>3. /\ token' \in [Tokens -> Token] /\ token'[t] = new
      /\ \A s \in Tokens \ {t} : token'[s] = token[s]
  BY <1>0, <1>1, <1>2 DEF Types
<1>4. /\ mix' \in Mixes
      /\ pc' \in [Requests -> Stages] /\ job' \in [Requests -> Job \union {None}]
      /\ \A q \in Requests :
           pc'[q] # "idle" => q # r /\ pc'[q] = pc[q] /\ job'[q] = job[q]
      /\ Jobs' /\ OneKey' /\ RotationInv' /\ EnrollInv' /\ ApplicationInv'
      /\ ReplacedSecretsArchived'
  BY <1>0, Ends
<1>5. minted' \in [Codes -> Nat]
  <2>1. CASE job[r].code = None
    BY <1>0, <2>1 DEF Types
  <2>2. CASE job[r].code # None
    <3>1. job[r].code \in Codes /\ minted[job[r].code] + 1 \in Nat
      BY <1>0, <2>2 DEF Types, Job
    <3> QED BY <1>0, <2>2, <3>1 DEF Types
  <2> QED BY <2>1, <2>2
<1>6. Types'
  BY <1>0, <1>3, <1>4, <1>5 DEF Types
<1>7. SigningInv'
  <2>1. job[r].key \in Keys /\ Signs(job[r].key, job[r].since)
    BY <1>0 DEF IInv, SigningInv, Fits
  <2>2. Signs(new.key, new.exp - Latency - Ttl)
    BY <1>0, <1>2, <2>1 DEF Signs, Fits, Job, Types, Key
  <2>3. \A k, n : Signs(k, n) <=> Signs(k, n)'
    BY <1>0 DEF Signs
  <2>4. ASSUME NEW s \in Tokens, Recorded(s)'
        PROVE  /\ token'[s].key \in Keys /\ token'[s].exp <= now' + Ttl
               /\ Signs(token[s].key, token[s].exp - Latency - Ttl)'
    <3>1. CASE s = t
      BY <1>0, <1>2, <1>3, <2>1, <2>2, <2>3, <3>1 DEF Signs
    <3>2. CASE s # t
      BY <1>0, <1>3, <2>3, <2>4, <3>2 DEF IInv, SigningInv, Recorded
    <3> QED BY <3>1, <3>2
  <2>5. \A q \in Requests : pc'[q] = "record" => Signs(job[q].key, job[q].since)'
    BY <1>0, <1>4 DEF IInv, SigningInv, Signs
  <2> QED BY <2>4, <2>5 DEF SigningInv
<1>8. FadingInv'
  <2>1. new.cred # None => WasLive(new.cred, new.exp - Latency - Ttl)
    <3>1. CASE job[r].kind = "machine"
      <4>1. WasLive(job[r].cred, job[r].since) /\ job[r].cred \in Creds
        BY <1>0, <3>1 DEF IInv, FadingInv, Fits
      <4> QED BY <1>0, <1>2, <4>1 DEF WasLive, Fits, Job, Types, Cred
    <3>2. CASE job[r].kind # "machine"
      BY <1>0, <1>2, <3>2 DEF Fits
    <3> QED BY <3>1, <3>2
  <2>2. \A c, n : WasLive(c, n) <=> WasLive(c, n)'
    BY <1>0 DEF WasLive
  <2>3. ASSUME NEW s \in Tokens, Recorded(s)', token'[s].cred # None
        PROVE  WasLive(token[s].cred, token[s].exp - Latency - Ttl)'
    <3>1. CASE s = t
      BY <1>0, <1>2, <1>3, <2>1, <2>3, <3>1 DEF WasLive
    <3>2. CASE s # t
      BY <1>0, <1>3, <2>2, <2>3, <3>2 DEF IInv, FadingInv, Recorded
    <3> QED BY <3>1, <3>2
  <2>4. \A q \in Requests : pc'[q] # "idle" /\ job'[q].kind = "machine" =>
          WasLive(job[q].cred, job[q].since)'
    BY <1>0, <1>4 DEF IInv, FadingInv, WasLive
  <2> QED BY <2>3, <2>4 DEF FadingInv
<1>9. CodeInv' /\ MintedForApprover'
  <2>1. CASE job[r].kind = "poll"
    <3>1. /\ job[r].code \in Codes /\ Holds(r) /\ job[r].code # None
          /\ code[job[r].code].state = "used" /\ minted[job[r].code] = 0
          /\ code[job[r].code].user = job[r].actor /\ job[r].actor \in Users
      BY <1>0, <2>1, StoreAssumption DEF IInv, CodeInv, Fits, Holds, StoreAssumption
    <3>2. /\ minted'[job[r].code] = 1
          /\ \A c \in Codes \ {job[r].code} : minted'[c] = minted[c]
      BY <1>0, <3>1 DEF Types
    <3>3. \A q \in Requests : Holds(q)' => Holds(q) /\ job'[q] = job[q]
                                  /\ job[q].code # job[r].code
      BY <1>0, <1>4, <3>1 DEF Holds, IInv, CodeInv
    <3>4. \A q \in Requests : pc'[q] = "consume" => pc[q] = "consume" /\ job'[q] = job[q]
      BY <1>4
    <3>5. \A q \in Requests : Holds(q)' => job[q].code \in Codes
      BY <1>4, <3>3 DEF Holds, IInv, Jobs, Fits
    <3>6. CodeInv'
      BY <1>0, <3>1, <3>2, <3>3, <3>4, <3>5 DEF IInv, CodeInv
    <3>7. MintedForApprover'
      BY <1>0, <1>2, <1>3, <3>1 DEF IInv, MintedForApprover, Recorded
    <3> QED BY <3>6, <3>7
  <2>2. CASE job[r].kind # "poll"
    <3>1. job[r].code = None /\ UNCHANGED <<code, minted>>
      BY <1>0, <2>2 DEF Fits
    <3>2. CodeInv'
      BY <1>0, <3>1, Ends
    <3>3. MintedForApprover'
      BY <1>0, <1>2, <1>3, <3>1 DEF IInv, MintedForApprover, Recorded
    <3> QED BY <3>2, <3>3
  <2> QED BY <2>1, <2>2
<1> QED BY <1>4, <1>6, <1>7, <1>8, <1>9 DEF IInv

LEMMA CheckActorIInv ==
  ASSUME IInv, NEW r \in Requests, CheckActor(r)
  PROVE  IInv'
<1> USE DEF keys, machines, apps
<1>0. /\ Types /\ job[r].token \in Tokens
      /\ UNCHANGED <<mix, now, key, forked, token, status, cred, crossed, enrollment,
                      enrolled, client, dropped, code, minted>>
      /\ served' = IF IsActive(token[job[r].token].actor)
                     THEN served \union {job[r].token} ELSE served
      /\ pc' = [pc EXCEPT ![r] = "idle"] /\ job' = [job EXCEPT ![r] = None]
  BY DEF IInv, Jobs, CheckActor, Fits, Continue, Goto
<1>1. Types'
  BY <1>0, Ends DEF Types
<1> QED BY <1>0, <1>1, Ends DEF IInv

\* A write to the credentials: C are revoked and N are new ones of a.
Written(C, N, a) == [c \in Creds |->
  IF c \in N THEN [owner |-> a, state |-> "live", ended |-> 0] ELSE Revoked(C)[c]]

LEMMA CredWrite ==
  ASSUME IInv, NEW C \in SUBSET Creds, NEW N \in SUBSET Creds,
         NEW a \in ServiceAccounts \union Devices,
         \A c \in N : cred[c].state = "none",
         cred' = Written(C, N, a)
  PROVE  /\ cred' \in [Creds -> Cred]
         /\ \A c \in Creds : cred'[c].state = "none" <=> cred'[c].owner = None
         /\ \A b \in ServiceAccounts \union Devices :
              Unrevoked(b)' = (Unrevoked(b) \ C) \union (IF b = a THEN N ELSE {})
         /\ \A b \in (ServiceAccounts \union Devices) \ {a} :
              Bare(b) => Bare(b)'
         /\ UNCHANGED <<now, token>>
              /\ (\A q \in Requests :
                    pc'[q] # "idle" => q \in Requests /\ pc'[q] = pc[q] /\ job'[q] = job[q])
              => FadingInv'
<1>0. /\ cred \in [Creds -> Cred] /\ now \in 0..MaxTime /\ MaxTime \in Nat
      /\ a \in Actors /\ a # None /\ Ttl \in Nat /\ Latency \in Nat
      /\ token \in [Tokens -> Token]
  BY StoreAssumption DEF StoreAssumption, IInv, Types, Actors
<1>1. \A c \in N : cred'[c] = [owner |-> a, state |-> "live", ended |-> 0]
  BY DEF Written
<1>2. \A c \in Creds \ N :
        /\ c \in C /\ cred[c].state \in {"live", "expired"} =>
             /\ cred'[c].state = "revoked" /\ cred'[c].owner = cred[c].owner
             /\ cred'[c].ended = IF cred[c].state = "live" THEN now ELSE cred[c].ended
             /\ cred'[c] \in Cred
        /\ ~(c \in C /\ cred[c].state \in {"live", "expired"}) => cred'[c] = cred[c]
  BY <1>0 DEF Written, Revoked, Cred
<1>3. cred' \in [Creds -> Cred]
  <2>1. \A c \in N : cred'[c] \in Cred
    BY <1>0, <1>1 DEF Cred
  <2>2. \A c \in Creds \ N : cred'[c] \in Cred
    BY <1>0, <1>2
  <2> QED BY <2>1, <2>2 DEF Written
<1>4. \A c \in Creds : cred[c].state = "none" <=> cred[c].owner = None
  BY DEF IInv, RotationInv
<1>5. \A c \in Creds : cred'[c].state = "none" <=> cred'[c].owner = None
  BY <1>0, <1>1, <1>2, <1>4
<1>6. ASSUME NEW b \in ServiceAccounts \union Devices
      PROVE  Unrevoked(b)' = (Unrevoked(b) \ C) \union (IF b = a THEN N ELSE {})
  <2>1. \A c \in N : c \notin Unrevoked(b) /\ (c \in Unrevoked(b)' <=> b = a)
    BY <1>1 DEF Unrevoked, Owned
  <2>2. \A c \in Creds \ N : c \in Unrevoked(b)' <=> c \in Unrevoked(b) \ C
    BY <1>0, <1>2 DEF Unrevoked, Owned
  <2>3. Unrevoked(b)' \subseteq Creds /\ Unrevoked(b) \subseteq Creds
    BY DEF Unrevoked, Owned
  <2> QED BY <2>1, <2>2, <2>3
<1>7. ASSUME NEW b \in (ServiceAccounts \union Devices) \ {a},
             Bare(b)
      PROVE  Bare(b)'
  BY <1>0, <1>1, <1>2, <1>7 DEF Bare
<1>8. ASSUME NEW c \in Creds, NEW n \in Int, n <= now, WasLive(c, n)
      PROVE  WasLive(c, n)'
  BY <1>0, <1>2, <1>8 DEF WasLive
<1>9. ASSUME UNCHANGED <<now, token>>,
             \A q \in Requests :
               pc'[q] # "idle" => q \in Requests /\ pc'[q] = pc[q] /\ job'[q] = job[q]
      PROVE  FadingInv'
  <2>1. ASSUME NEW q \in Requests, pc'[q] # "idle", job'[q].kind = "machine"
        PROVE  WasLive(job[q].cred, job[q].since)'
    <3>1. /\ pc[q] # "idle" /\ job'[q] = job[q] /\ job[q].kind = "machine"
          /\ job[q].since \in Int /\ job[q].since <= now /\ job[q].cred \in Creds
      BY <1>9, <2>1 DEF IInv, Jobs, Fits, Job
    <3>2. WasLive(job[q].cred, job[q].since)
      BY <3>1 DEF IInv, FadingInv
    <3> QED BY <1>8, <3>1, <3>2
  <2>2. ASSUME NEW t \in Tokens, Recorded(t)', token'[t].cred # None
        PROVE  WasLive(token[t].cred, token[t].exp - Latency - Ttl)'
    <3>1. /\ Recorded(t) /\ token[t].cred \in Creds /\ token[t].exp \in Int
          /\ token' = token
      BY <1>0, <1>9, <2>2 DEF Recorded, Token
    <3>2. token[t].exp <= now + Ttl
      BY <3>1 DEF IInv, SigningInv
    <3>3. token[t].exp - Latency - Ttl \in Int /\ token[t].exp - Latency - Ttl <= now
      BY <1>0, <3>1, <3>2
    <3>4. WasLive(token[t].cred, token[t].exp - Latency - Ttl)
      BY <2>2, <3>1 DEF IInv, FadingInv
    <3> QED BY <1>8, <3>1, <3>3, <3>4
  <2> QED BY <2>1, <2>2 DEF FadingInv
<1> QED BY <1>3, <1>5, <1>6, <1>7, <1>9

LEMMA CreateServiceAccountIInv ==
  ASSUME IInv, NEW r \in Requests, CreateServiceAccount(r)
  PROVE  IInv'
<1> USE DEF keys, tokens, apps
<1>0. /\ Types /\ UNCHANGED <<mix, now, key, forked, token, served, crossed, enrollment, enrolled, client, dropped, code,
                              minted>>
      /\ pc' = [pc EXCEPT ![r] = "idle"] /\ job' = [job EXCEPT ![r] = None]
  BY DEF IInv, CreateServiceAccount, Single, Begin, Continue, Goto
<1>1. /\ mix' \in Mixes
      /\ pc' \in [Requests -> Stages] /\ job' \in [Requests -> Job \union {None}]
      /\ \A q \in Requests :
           pc'[q] # "idle" => q \in Requests /\ q # r /\ pc'[q] = pc[q] /\ job'[q] = job[q]
      /\ Jobs' /\ SigningInv' /\ OneKey' /\ CodeInv' /\ MintedForApprover'
      /\ ApplicationInv' /\ ReplacedSecretsArchived'
  BY <1>0, Ends
<1>2. /\ Users \intersect (ServiceAccounts \union Devices) = {}
      /\ ServiceAccounts \intersect Devices = {} /\ Mixes \subseteq Mix
  BY StoreAssumption DEF StoreAssumption
<1>3. \A q \in Requests : pc[q] # "idle" /\ job[q].kind = "rotate" =>
        job[q].actor \in ServiceAccounts
  BY DEF IInv, Jobs, Fits
<1>4. \A q \in Requests : pc[q] = "replace" => job[q].kind = "rotate"
  BY DEF IInv, Jobs, Fits
<1>5. PICK a \in ServiceAccounts, c \in FreshCreds :
        /\ status[a] = "none" /\ status' = [status EXCEPT ![a] = "active"]
        /\ cred' = WithNew(cred, c, a)
  BY DEF CreateServiceAccount
<1>6. c \in Creds /\ cred[c].state = "none"
  BY <1>0, <1>2, <1>5 DEF FreshCreds, Types, Mix
<1> DEFINE C == {}
           N == {c}
<1>7. /\ cred' = Written(C, N, a)
      /\ C \in SUBSET Creds /\ N \in SUBSET Creds /\ a \in ServiceAccounts \union Devices
      /\ \A d \in N : cred[d].state = "none"
  BY <1>0, <1>5, <1>6 DEF WithNew, Revoked, Types, Written
<1> HIDE DEF C, N
<1>8. /\ cred' \in [Creds -> Cred]
      /\ \A d \in Creds : cred'[d].state = "none" <=> cred'[d].owner = None
      /\ \A b \in ServiceAccounts \union Devices :
           Unrevoked(b)' = (Unrevoked(b) \ C) \union (IF b = a THEN N ELSE {})
      /\ \A b \in (ServiceAccounts \union Devices) \ {a} :
           Bare(b) => Bare(b)'
      /\ FadingInv'
  <2>1. cred' \in [Creds -> Cred]
    BY <1>7, CredWrite
  <2>2. \A d \in Creds : cred'[d].state = "none" <=> cred'[d].owner = None
    BY <1>7, CredWrite
  <2>3. \A b \in ServiceAccounts \union Devices :
           Unrevoked(b)' = (Unrevoked(b) \ C) \union (IF b = a THEN N ELSE {})
    BY <1>7, CredWrite
  <2>4. \A b \in (ServiceAccounts \union Devices) \ {a} : Bare(b) => Bare(b)'
    BY <1>7, CredWrite
  <2>5. FadingInv'
    BY <1>0, <1>1, <1>7, CredWrite
  <2> QED BY <2>1, <2>2, <2>3, <2>4, <2>5
<1> USE DEF C, N
<1>9. /\ status' \in [Actors -> {"none", "active", "suspended", "gone"}]
      /\ status'[a] = "active" /\ \A b \in Actors \ {a} : status'[b] = status[b]
  BY <1>0, <1>5 DEF Types, Actors
<1>10. Types' /\ EnrollInv'
  BY <1>0, <1>1, <1>8, <1>9, Ends DEF Types
<1>11. Unrevoked(a)' = {c} /\ \A q \in Requests : pc[q] = "replace" => job[q].actor # a
  BY <1>3, <1>4, <1>5, <1>8 DEF IInv, RotationInv, Bare, Unrevoked, Owned, Exists
<1>12. RotationInv'
  BY <1>0, <1>1, <1>2, <1>3, <1>4, <1>8, <1>9, <1>11 DEF IInv, RotationInv, Exists, Bare, Actors
<1> QED BY <1>1, <1>8, <1>10, <1>12 DEF IInv

LEMMA SetStatusIInv ==
  ASSUME IInv, NEW r \in Requests, SetStatus(r)
  PROVE  IInv'
<1> USE DEF keys, tokens, apps
<1>0. /\ Types /\ UNCHANGED <<mix, now, key, forked, token, served, cred, crossed, enrollment, enrolled, client, dropped, code,
                              minted>>
      /\ pc' = [pc EXCEPT ![r] = "idle"] /\ job' = [job EXCEPT ![r] = None]
  BY DEF IInv, SetStatus, Single, Begin, Continue, Goto
<1>1. /\ mix' \in Mixes
      /\ pc' \in [Requests -> Stages] /\ job' \in [Requests -> Job \union {None}]
      /\ \A q \in Requests :
           pc'[q] # "idle" => q \in Requests /\ q # r /\ pc'[q] = pc[q] /\ job'[q] = job[q]
      /\ Jobs' /\ SigningInv' /\ OneKey' /\ CodeInv' /\ MintedForApprover'
      /\ ApplicationInv' /\ ReplacedSecretsArchived'
  BY <1>0, Ends
<1>2. /\ Users \intersect (ServiceAccounts \union Devices) = {}
      /\ ServiceAccounts \intersect Devices = {} /\ Mixes \subseteq Mix
  BY StoreAssumption DEF StoreAssumption
<1>3. \A q \in Requests : pc[q] # "idle" /\ job[q].kind = "rotate" =>
        job[q].actor \in ServiceAccounts
  BY DEF IInv, Jobs, Fits
<1>4. \A q \in Requests : pc[q] = "replace" => job[q].kind = "rotate"
  BY DEF IInv, Jobs, Fits
<1>5. PICK a \in ServiceAccounts :
        /\ status[a] \in {"active", "suspended"}
        /\ status' = [status EXCEPT ![a] = IF @ = "active" THEN "suspended" ELSE "active"]
  BY DEF SetStatus
<1>6. /\ status' \in [Actors -> {"none", "active", "suspended", "gone"}]
      /\ status'[a] \in {"active", "suspended"}
      /\ \A b \in Actors \ {a} : status'[b] = status[b]
  BY <1>0, <1>5 DEF Types, Actors
<1>7. Types' /\ EnrollInv' /\ FadingInv'
  BY <1>0, <1>1, <1>6, Ends DEF Types
<1>8. \A b : Unrevoked(b)' = Unrevoked(b)
  BY <1>0 DEF Unrevoked, Owned
<1>9. RotationInv'
  BY <1>0, <1>1, <1>2, <1>3, <1>4, <1>5, <1>6, <1>8 DEF IInv, RotationInv, Exists, Bare, Actors
<1> QED BY <1>1, <1>7, <1>9 DEF IInv

LEMMA DeleteServiceAccountIInv ==
  ASSUME IInv, NEW r \in Requests, DeleteServiceAccount(r)
  PROVE  IInv'
<1> USE DEF keys, tokens, apps
<1>0. /\ Types /\ UNCHANGED <<mix, now, key, forked, token, served, crossed, enrollment, enrolled, client, dropped, code,
                              minted>>
      /\ pc' = [pc EXCEPT ![r] = "idle"] /\ job' = [job EXCEPT ![r] = None]
  BY DEF IInv, DeleteServiceAccount, Single, Begin, Continue, Goto
<1>1. /\ mix' \in Mixes
      /\ pc' \in [Requests -> Stages] /\ job' \in [Requests -> Job \union {None}]
      /\ \A q \in Requests :
           pc'[q] # "idle" => q \in Requests /\ q # r /\ pc'[q] = pc[q] /\ job'[q] = job[q]
      /\ Jobs' /\ SigningInv' /\ OneKey' /\ CodeInv' /\ MintedForApprover'
      /\ ApplicationInv' /\ ReplacedSecretsArchived'
  BY <1>0, Ends
<1>2. /\ Users \intersect (ServiceAccounts \union Devices) = {}
      /\ ServiceAccounts \intersect Devices = {} /\ Mixes \subseteq Mix
  BY StoreAssumption DEF StoreAssumption
<1>3. \A q \in Requests : pc[q] # "idle" /\ job[q].kind = "rotate" =>
        job[q].actor \in ServiceAccounts
  BY DEF IInv, Jobs, Fits
<1>4. \A q \in Requests : pc[q] = "replace" => job[q].kind = "rotate"
  BY DEF IInv, Jobs, Fits
<1>5. PICK a \in ServiceAccounts :
        /\ status[a] \in {"active", "suspended"} /\ status' = [status EXCEPT ![a] = "gone"]
        /\ cred' = Revoked(Owned(a))
  BY DEF DeleteServiceAccount
<1> DEFINE C == Owned(a)
           N == {}
<1>7. /\ cred' = Written(C, N, a)
      /\ C \in SUBSET Creds /\ N \in SUBSET Creds /\ a \in ServiceAccounts \union Devices
      /\ \A d \in N : cred[d].state = "none"
  BY <1>5 DEF Revoked, Written, Owned
<1> HIDE DEF C, N
<1>8. /\ cred' \in [Creds -> Cred]
      /\ \A d \in Creds : cred'[d].state = "none" <=> cred'[d].owner = None
      /\ \A b \in ServiceAccounts \union Devices :
           Unrevoked(b)' = (Unrevoked(b) \ C) \union (IF b = a THEN N ELSE {})
      /\ \A b \in (ServiceAccounts \union Devices) \ {a} :
           Bare(b) => Bare(b)'
      /\ FadingInv'
  <2>1. cred' \in [Creds -> Cred]
    BY <1>7, CredWrite
  <2>2. \A d \in Creds : cred'[d].state = "none" <=> cred'[d].owner = None
    BY <1>7, CredWrite
  <2>3. \A b \in ServiceAccounts \union Devices :
           Unrevoked(b)' = (Unrevoked(b) \ C) \union (IF b = a THEN N ELSE {})
    BY <1>7, CredWrite
  <2>4. \A b \in (ServiceAccounts \union Devices) \ {a} : Bare(b) => Bare(b)'
    BY <1>7, CredWrite
  <2>5. FadingInv'
    BY <1>0, <1>1, <1>7, CredWrite
  <2> QED BY <2>1, <2>2, <2>3, <2>4, <2>5
<1> USE DEF C, N
<1>9. /\ status' \in [Actors -> {"none", "active", "suspended", "gone"}]
      /\ status'[a] = "gone" /\ \A b \in Actors \ {a} : status'[b] = status[b]
  BY <1>0, <1>5 DEF Types, Actors
<1>10. Types' /\ EnrollInv'
  BY <1>0, <1>1, <1>8, <1>9, Ends DEF Types
<1>11. /\ Unrevoked(a)' = {}
       /\ \A b \in ServiceAccounts \union Devices : Unrevoked(b)' \subseteq Unrevoked(b)
  BY <1>8 DEF Unrevoked, Owned
<1>12. RotationInv'
  BY <1>0, <1>1, <1>2, <1>3, <1>4, <1>5, <1>8, <1>9, <1>11 DEF IInv, RotationInv, Exists, Bare, Actors
<1> QED BY <1>1, <1>8, <1>10, <1>12 DEF IInv

LEMMA RotateDeviceIInv ==
  ASSUME IInv, NEW r \in Requests, RotateDevice(r)
  PROVE  IInv'
<1> USE DEF keys, tokens, apps
<1>0. /\ Types /\ UNCHANGED <<mix, now, key, forked, token, served, status, crossed, enrollment, enrolled, client, dropped, code,
                              minted>>
      /\ pc' = [pc EXCEPT ![r] = "idle"] /\ job' = [job EXCEPT ![r] = None]
  BY DEF IInv, RotateDevice, Single, Begin, Continue, Goto
<1>1. /\ mix' \in Mixes
      /\ pc' \in [Requests -> Stages] /\ job' \in [Requests -> Job \union {None}]
      /\ \A q \in Requests :
           pc'[q] # "idle" => q \in Requests /\ q # r /\ pc'[q] = pc[q] /\ job'[q] = job[q]
      /\ Jobs' /\ SigningInv' /\ OneKey' /\ CodeInv' /\ MintedForApprover'
      /\ ApplicationInv' /\ ReplacedSecretsArchived'
  BY <1>0, Ends
<1>2. /\ Users \intersect (ServiceAccounts \union Devices) = {}
      /\ ServiceAccounts \intersect Devices = {} /\ Mixes \subseteq Mix
  BY StoreAssumption DEF StoreAssumption
<1>3. \A q \in Requests : pc[q] # "idle" /\ job[q].kind = "rotate" =>
        job[q].actor \in ServiceAccounts
  BY DEF IInv, Jobs, Fits
<1>4. \A q \in Requests : pc[q] = "replace" => job[q].kind = "rotate"
  BY DEF IInv, Jobs, Fits
<1>5. PICK a \in Devices, c \in FreshCreds :
        status[a] # "none" /\ cred' = WithNew(Revoked(Owned(a)), c, a)
  BY DEF RotateDevice
<1>6. c \in Creds /\ cred[c].state = "none"
  BY <1>0, <1>2, <1>5 DEF FreshCreds, Types, Mix
<1> DEFINE C == Owned(a)
           N == {c}
<1>7. /\ cred' = Written(C, N, a)
      /\ C \in SUBSET Creds /\ N \in SUBSET Creds /\ a \in ServiceAccounts \union Devices
      /\ \A d \in N : cred[d].state = "none"
  BY <1>5, <1>6 DEF WithNew, Revoked, Written, Owned
<1> HIDE DEF C, N
<1>8. /\ cred' \in [Creds -> Cred]
      /\ \A d \in Creds : cred'[d].state = "none" <=> cred'[d].owner = None
      /\ \A b \in ServiceAccounts \union Devices :
           Unrevoked(b)' = (Unrevoked(b) \ C) \union (IF b = a THEN N ELSE {})
      /\ \A b \in (ServiceAccounts \union Devices) \ {a} :
           Bare(b) => Bare(b)'
      /\ FadingInv'
  <2>1. cred' \in [Creds -> Cred]
    BY <1>7, CredWrite
  <2>2. \A d \in Creds : cred'[d].state = "none" <=> cred'[d].owner = None
    BY <1>7, CredWrite
  <2>3. \A b \in ServiceAccounts \union Devices :
           Unrevoked(b)' = (Unrevoked(b) \ C) \union (IF b = a THEN N ELSE {})
    BY <1>7, CredWrite
  <2>4. \A b \in (ServiceAccounts \union Devices) \ {a} : Bare(b) => Bare(b)'
    BY <1>7, CredWrite
  <2>5. FadingInv'
    BY <1>0, <1>1, <1>7, CredWrite
  <2> QED BY <2>1, <2>2, <2>3, <2>4, <2>5
<1> USE DEF C, N
<1>10. Types' /\ EnrollInv'
  BY <1>0, <1>1, <1>8, Ends DEF Types
<1>11. /\ Unrevoked(a)' = {c}
       /\ \A b \in (ServiceAccounts \union Devices) \ {a} :
            Unrevoked(b)' \subseteq Unrevoked(b)
  BY <1>8 DEF Unrevoked, Owned
<1>12. RotationInv'
  BY <1>0, <1>1, <1>2, <1>3, <1>4, <1>5, <1>8, <1>11 DEF IInv, RotationInv, Exists, Bare, Actors
<1> QED BY <1>1, <1>8, <1>10, <1>12 DEF IInv

LEMMA RevokeDeviceIInv ==
  ASSUME IInv, NEW r \in Requests, RevokeDevice(r)
  PROVE  IInv'
<1> USE DEF keys, tokens, apps
<1>0. /\ Types /\ UNCHANGED <<mix, now, key, forked, token, served, cred, crossed, enrollment, enrolled, client, dropped, code,
                              minted>>
      /\ pc' = [pc EXCEPT ![r] = "idle"] /\ job' = [job EXCEPT ![r] = None]
  BY DEF IInv, RevokeDevice, Single, Begin, Continue, Goto
<1>1. /\ mix' \in Mixes
      /\ pc' \in [Requests -> Stages] /\ job' \in [Requests -> Job \union {None}]
      /\ \A q \in Requests :
           pc'[q] # "idle" => q \in Requests /\ q # r /\ pc'[q] = pc[q] /\ job'[q] = job[q]
      /\ Jobs' /\ SigningInv' /\ OneKey' /\ CodeInv' /\ MintedForApprover'
      /\ ApplicationInv' /\ ReplacedSecretsArchived'
  BY <1>0, Ends
<1>2. /\ Users \intersect (ServiceAccounts \union Devices) = {}
      /\ ServiceAccounts \intersect Devices = {} /\ Mixes \subseteq Mix
  BY StoreAssumption DEF StoreAssumption
<1>3. \A q \in Requests : pc[q] # "idle" /\ job[q].kind = "rotate" =>
        job[q].actor \in ServiceAccounts
  BY DEF IInv, Jobs, Fits
<1>4. \A q \in Requests : pc[q] = "replace" => job[q].kind = "rotate"
  BY DEF IInv, Jobs, Fits
<1>5. PICK a \in Devices :
        status[a] = "active" /\ status' = [status EXCEPT ![a] = "gone"]
  BY DEF RevokeDevice, IsActive
<1>6. /\ status' \in [Actors -> {"none", "active", "suspended", "gone"}]
      /\ status'[a] = "gone" /\ \A b \in Actors \ {a} : status'[b] = status[b]
  BY <1>0, <1>5 DEF Types, Actors
<1>7. Types' /\ EnrollInv' /\ FadingInv'
  BY <1>0, <1>1, <1>6, Ends DEF Types
<1>8. \A b : Unrevoked(b)' = Unrevoked(b)
  BY <1>0 DEF Unrevoked, Owned
<1>9. RotationInv'
  BY <1>0, <1>1, <1>2, <1>3, <1>4, <1>5, <1>6, <1>8 DEF IInv, RotationInv, Exists, Bare, Actors
<1> QED BY <1>1, <1>7, <1>9 DEF IInv

LEMMA InsertDeviceIInv ==
  ASSUME IInv, NEW r \in Requests, InsertDevice(r)
  PROVE  IInv'
<1> USE DEF keys, tokens, apps
<1>0. /\ Types /\ UNCHANGED <<mix, now, key, forked, token, served, crossed, enrollment, client, dropped, code,
                              minted>>
      /\ pc' = [pc EXCEPT ![r] = "idle"] /\ job' = [job EXCEPT ![r] = None]
      /\ pc[r] = "device" /\ enrolled' = [enrolled EXCEPT ![job[r].enrollment] = @ + 1]
  BY DEF IInv, InsertDevice, Single, Begin, Continue, Goto
<1>1. /\ mix' \in Mixes
      /\ pc' \in [Requests -> Stages] /\ job' \in [Requests -> Job \union {None}]
      /\ \A q \in Requests :
           pc'[q] # "idle" => q \in Requests /\ q # r /\ pc'[q] = pc[q] /\ job'[q] = job[q]
      /\ Jobs' /\ SigningInv' /\ OneKey' /\ CodeInv' /\ MintedForApprover'
      /\ ApplicationInv' /\ ReplacedSecretsArchived'
  BY <1>0, Ends
<1>2. /\ Users \intersect (ServiceAccounts \union Devices) = {}
      /\ ServiceAccounts \intersect Devices = {} /\ Mixes \subseteq Mix
  BY StoreAssumption DEF StoreAssumption
<1>3. \A q \in Requests : pc[q] # "idle" /\ job[q].kind = "rotate" =>
        job[q].actor \in ServiceAccounts
  BY DEF IInv, Jobs, Fits
<1>4. \A q \in Requests : pc[q] = "replace" => job[q].kind = "rotate"
  BY DEF IInv, Jobs, Fits
<1>5. PICK a \in Devices, c \in FreshCreds :
        /\ status[a] = "none" /\ status' = [status EXCEPT ![a] = "active"]
        /\ cred' = WithNew(cred, c, a)
  BY DEF InsertDevice
<1>6. c \in Creds /\ cred[c].state = "none"
  BY <1>0, <1>2, <1>5 DEF FreshCreds, Types, Mix
<1> DEFINE C == {}
           N == {c}
<1>7. /\ cred' = Written(C, N, a)
      /\ C \in SUBSET Creds /\ N \in SUBSET Creds /\ a \in ServiceAccounts \union Devices
      /\ \A d \in N : cred[d].state = "none"
  BY <1>0, <1>5, <1>6 DEF WithNew, Revoked, Types, Written
<1> HIDE DEF C, N
<1>8. /\ cred' \in [Creds -> Cred]
      /\ \A d \in Creds : cred'[d].state = "none" <=> cred'[d].owner = None
      /\ \A b \in ServiceAccounts \union Devices :
           Unrevoked(b)' = (Unrevoked(b) \ C) \union (IF b = a THEN N ELSE {})
      /\ \A b \in (ServiceAccounts \union Devices) \ {a} :
           Bare(b) => Bare(b)'
      /\ FadingInv'
  <2>1. cred' \in [Creds -> Cred]
    BY <1>7, CredWrite
  <2>2. \A d \in Creds : cred'[d].state = "none" <=> cred'[d].owner = None
    BY <1>7, CredWrite
  <2>3. \A b \in ServiceAccounts \union Devices :
           Unrevoked(b)' = (Unrevoked(b) \ C) \union (IF b = a THEN N ELSE {})
    BY <1>7, CredWrite
  <2>4. \A b \in (ServiceAccounts \union Devices) \ {a} : Bare(b) => Bare(b)'
    BY <1>7, CredWrite
  <2>5. FadingInv'
    BY <1>0, <1>1, <1>7, CredWrite
  <2> QED BY <2>1, <2>2, <2>3, <2>4, <2>5
<1> USE DEF C, N
<1>9. /\ status' \in [Actors -> {"none", "active", "suspended", "gone"}]
      /\ status'[a] = "active" /\ \A b \in Actors \ {a} : status'[b] = status[b]
  BY <1>0, <1>5 DEF Types, Actors
<1>10. job[r].enrollment \in Enrollments /\ enrolled[job[r].enrollment] = 0
  BY <1>0 DEF IInv, Jobs, Fits, EnrollInv
<1>11. /\ enrolled' \in [Enrollments -> Nat]
       /\ enrolled'[job[r].enrollment] = 1
       /\ \A e \in Enrollments \ {job[r].enrollment} : enrolled'[e] = enrolled[e]
  BY <1>0, <1>10 DEF Types
<1>12. Types'
  BY <1>0, <1>1, <1>8, <1>9, <1>11 DEF Types
<1>13. EnrollInv'
  BY <1>0, <1>1, <1>10, <1>11 DEF IInv, EnrollInv, Jobs, Fits
<1>14. Unrevoked(a)' = {c}
  BY <1>5, <1>8 DEF IInv, RotationInv, Bare, Unrevoked, Owned
<1>15. RotationInv'
  BY <1>0, <1>1, <1>2, <1>3, <1>4, <1>5, <1>8, <1>9, <1>14 DEF IInv, RotationInv, Exists, Bare, Actors
<1> QED BY <1>1, <1>8, <1>12, <1>13, <1>15 DEF IInv

LEMMA CaptureCredentialsIInv ==
  ASSUME IInv, NEW r \in Requests, CaptureCredentials(r)
  PROVE  IInv'
<1> USE DEF keys, tokens, apps
<1> DEFINE j == [job[r] EXCEPT !.seen = Unrevoked(job[r].actor)]
<1>0. /\ Types /\ Fits(r) /\ pc[r] = "capture" /\ job[r] \in Job
      /\ job[r].kind = "rotate" /\ job[r].actor \in ServiceAccounts
      /\ pc \in [Requests -> Stages] /\ job \in [Requests -> Job \union {None}]
      /\ UNCHANGED <<mix, now, key, forked, token, served, status, cred, enrollment, enrolled,
                      client, dropped, code, minted>>
      /\ crossed' = IF Overlapping(r) THEN crossed \union {job[r].actor} ELSE crossed
      /\ pc' = [pc EXCEPT ![r] = "replace"] /\ job' = [job EXCEPT ![r] = j]
  BY DEF IInv, Types, Jobs, Fits, CaptureCredentials, Continue
<1>1. /\ j \in Job /\ j.kind = "rotate" /\ j.since = job[r].since /\ j.cred = job[r].cred
      /\ j.code = job[r].code /\ j.actor = job[r].actor
      /\ j.seen = Unrevoked(job[r].actor)
  BY <1>0 DEF Job, Unrevoked, Owned
<1> HIDE DEF j
<1>2. Fits(r)' /\ ~Holds(r)'
  BY <1>0, <1>1 DEF Fits, Holds
<1>3. Exists(j.actor)
  BY <1>0, <1>1 DEF IInv, RotationInv
<1>4. /\ mix' \in Mixes
      /\ pc' \in [Requests -> Stages] /\ job' \in [Requests -> Job \union {None}]
      /\ Jobs' /\ SigningInv' /\ OneKey' /\ FadingInv' /\ EnrollInv' /\ CodeInv'
      /\ MintedForApprover' /\ ApplicationInv' /\ ReplacedSecretsArchived'
  BY <1>0, <1>1, <1>2, Frame DEF Stages
<1>5. Types'
  BY <1>0, <1>4 DEF Types
<1>6. \A b : Unrevoked(b)' = Unrevoked(b)
  BY <1>0 DEF Unrevoked, Owned
<1>7. /\ pc'[r] = "replace" /\ job'[r] = j
      /\ \A q \in Requests \ {r} : pc'[q] = pc[q] /\ job'[q] = job[q]
  BY <1>0
<1>8. /\ crossed \subseteq crossed' /\ (Overlapping(r) => job[r].actor \in crossed')
      /\ \A q \in Requests \ {r} :
           pc[q] = "replace" /\ job[q].actor = job[r].actor => Overlapping(r)
  BY <1>0 DEF Overlapping
<1>9. ASSUME NEW q \in Requests, pc'[q] = "replace", job'[q].actor \notin crossed'
      PROVE  /\ Unrevoked(job[q].actor)' \subseteq job'[q].seen
             /\ \A p \in Requests :
                  pc'[p] = "replace" /\ job'[p].actor = job'[q].actor => p = q
  <2>1. CASE q = r
    BY <1>1, <1>6, <1>7, <1>8, <1>9, <2>1
  <2>2. CASE q # r
    <3>1. job[q].actor # job[r].actor
      BY <1>7, <1>8, <1>9, <2>2
    <3>2. /\ Unrevoked(job[q].actor) \subseteq job[q].seen
          /\ \A p \in Requests :
               pc[p] = "replace" /\ job[p].actor = job[q].actor => p = q
      BY <1>7, <1>8, <1>9, <2>2 DEF IInv, RotationInv
    <3> QED BY <1>1, <1>6, <1>7, <2>2, <3>1, <3>2
  <2> QED BY <2>1, <2>2
<1>10. RotationInv'
  BY <1>0, <1>1, <1>3, <1>6, <1>7, <1>8, <1>9 DEF IInv, RotationInv, Exists, Bare
<1> QED BY <1>4, <1>5, <1>10 DEF IInv

LEMMA ReplaceCredentialIInv ==
  ASSUME IInv, NEW r \in Requests, ReplaceCredential(r)
  PROVE  IInv'
<1> USE DEF keys, tokens, apps
<1>0. /\ Types /\ pc[r] = "replace" /\ job[r] \in Job /\ job[r].actor \in ServiceAccounts
      /\ UNCHANGED <<mix, now, key, forked, token, served, status, enrollment, enrolled,
                      client, dropped, code, minted>>
      /\ crossed' = IF Overlapping(r) \/ ~(Unrevoked(job[r].actor) \subseteq job[r].seen)
                    THEN crossed ELSE crossed \ {job[r].actor}
      /\ pc' = [pc EXCEPT ![r] = "idle"] /\ job' = [job EXCEPT ![r] = None]
  BY DEF IInv, Jobs, Fits, ReplaceCredential, Continue, Goto
<1>a. PICK a \in ServiceAccounts : a = job[r].actor
  BY <1>0
<1> DEFINE C == job[r].seen
<1>1. /\ mix' \in Mixes
      /\ pc' \in [Requests -> Stages] /\ job' \in [Requests -> Job \union {None}]
      /\ \A q \in Requests :
           pc'[q] # "idle" => q \in Requests /\ q # r /\ pc'[q] = pc[q] /\ job'[q] = job[q]
      /\ Jobs' /\ SigningInv' /\ OneKey' /\ EnrollInv' /\ CodeInv' /\ MintedForApprover'
      /\ ApplicationInv' /\ ReplacedSecretsArchived'
  BY <1>0, Ends
<1>2. /\ crossed' \subseteq crossed
      /\ \A b \in ServiceAccounts \ {a} : b \in crossed' <=> b \in crossed
      /\ Overlapping(r) => crossed' = crossed
      /\ a \notin crossed' => a \notin crossed \/ Unrevoked(a) \subseteq C
      /\ \A q \in Requests \ {r} :
           pc[q] = "replace" /\ job[q].actor = a => Overlapping(r)
  BY <1>a, <1>0 DEF Overlapping
<1>3. a \notin crossed' => Unrevoked(a) \subseteq C
  BY <1>a, <1>0, <1>2 DEF IInv, RotationInv
<1>4. ServiceAccounts \intersect Devices = {} /\ Mixes \subseteq Mix
  BY StoreAssumption DEF StoreAssumption
<1>5. \A q \in Requests : pc[q] = "replace" =>
        job[q].actor \in ServiceAccounts /\ job[q].kind = "rotate"
  BY DEF IInv, Jobs, Fits
<1>6. \A q \in Requests \ {r} :
        pc[q] = "replace" /\ job[q].actor \notin crossed' => job[q].actor # a
  BY <1>a, <1>0, <1>2 DEF IInv, RotationInv
<1>7. CASE status[a] = "gone" /\ UNCHANGED cred
  <2>1. Unrevoked(a) = {} /\ \A b : Unrevoked(b)' = Unrevoked(b)
    BY <1>a, <1>0, <1>7 DEF IInv, RotationInv, Unrevoked, Owned
  <2>2. FadingInv'
    BY <1>a, <1>0, <1>7, Ends
  <2>3. Types'
    BY <1>a, <1>0, <1>1, <1>2, <1>7 DEF Types
  <2>4. RotationInv'
    BY <1>a, <1>0, <1>1, <1>2, <1>4, <1>5, <1>6, <1>7, <2>1 DEF IInv, RotationInv, Exists, Bare
  <2> QED BY <1>1, <2>2, <2>3, <2>4 DEF IInv
<1>8. ASSUME NEW c \in FreshCreds, status[a] \in {"active", "suspended"},
             cred' = WithNew(Revoked(C), c, a)
      PROVE  IInv'
  <2> DEFINE N == {c}
  <2>1. c \in Creds /\ cred[c].state = "none"
    BY <1>a, <1>0, <1>4, <1>8 DEF FreshCreds, Types, Mix
  <2>2. /\ cred' = Written(C, N, a)
        /\ C \in SUBSET Creds /\ N \in SUBSET Creds /\ a \in ServiceAccounts \union Devices
        /\ \A d \in N : cred[d].state = "none"
    BY <1>a, <1>0, <1>8, <2>1 DEF WithNew, Written, Revoked, Job
  <2> HIDE DEF C, N
  <2>3. cred' \in [Creds -> Cred]
    BY <2>2, CredWrite
  <2>4. \A d \in Creds : cred'[d].state = "none" <=> cred'[d].owner = None
    BY <2>2, CredWrite
  <2>5. \A b \in ServiceAccounts \union Devices :
           Unrevoked(b)' = (Unrevoked(b) \ C) \union (IF b = a THEN N ELSE {})
    BY <2>2, CredWrite
  <2>6. \A b \in (ServiceAccounts \union Devices) \ {a} : Bare(b) => Bare(b)'
    BY <2>2, CredWrite
  <2>7. FadingInv'
    BY <1>a, <1>0, <1>1, <2>2, CredWrite
  <2>8. Types'
    BY <1>a, <1>0, <1>1, <1>2, <2>3 DEF Types
  <2>9. /\ a \notin crossed' => Unrevoked(a)' = {c}
        /\ \A b \in (ServiceAccounts \union Devices) \ {a} :
             Unrevoked(b)' \subseteq Unrevoked(b)
    BY <1>3, <2>2, <2>5 DEF N
  <2>10. ASSUME NEW q \in Requests, pc'[q] = "replace", job'[q].actor \notin crossed'
         PROVE  /\ Unrevoked(job[q].actor)' \subseteq job'[q].seen
                /\ \A p \in Requests :
                     pc'[p] = "replace" /\ job'[p].actor = job'[q].actor => p = q
    <3>1. q # r /\ pc[q] = "replace" /\ job'[q] = job[q]
      BY <1>1, <2>10
    <3>2. job[q].actor \in ServiceAccounts \ {a} /\ job[q].actor \notin crossed
      BY <1>2, <1>5, <1>6, <2>10, <3>1
    <3>3. /\ Unrevoked(job[q].actor) \subseteq job[q].seen
          /\ \A p \in Requests :
               pc[p] = "replace" /\ job[p].actor = job[q].actor => p = q
      BY <3>1, <3>2 DEF IInv, RotationInv
    <3> QED BY <1>1, <2>9, <3>1, <3>2, <3>3
  <2>11. RotationInv'
    BY <1>a, <1>0, <1>1, <1>2, <1>4, <1>5, <1>8, <2>2, <2>4, <2>6, <2>9, <2>10
    DEF IInv, RotationInv, Exists
  <2> QED BY <1>1, <2>7, <2>8, <2>11 DEF IInv
<1> QED BY <1>a, <1>7, <1>8 DEF ReplaceCredential

LEMMA IssueEnrollmentIInv ==
  ASSUME IInv, NEW r \in Requests, IssueEnrollment(r)
  PROVE  IInv'
<1> USE DEF keys, tokens, apps
<1>0. /\ Types
      /\ UNCHANGED <<mix, now, key, forked, token, served, status, cred, crossed, enrolled,
                      client, dropped, code, minted>>
      /\ pc' = [pc EXCEPT ![r] = "idle"] /\ job' = [job EXCEPT ![r] = None]
  BY DEF IInv, IssueEnrollment, Single, Begin, Continue
<1>1. PICK e \in Enrollments :
        enrollment[e] = "none" /\ enrollment' = [enrollment EXCEPT ![e] = "open"]
  BY DEF IssueEnrollment
<1>2. \A q \in Requests :
        pc'[q] # "idle" => q # r /\ pc'[q] = pc[q] /\ job'[q] = job[q]
  BY <1>0, Ends
<1>3. Types'
  BY <1>0, <1>1, Ends DEF Types
<1>4. EnrollInv'
  BY <1>0, <1>1, <1>2 DEF IInv, EnrollInv, Types, Jobs, Fits
<1> QED BY <1>0, <1>3, <1>4, Ends DEF IInv

LEMMA RedeemEnrollmentIInv ==
  ASSUME IInv, NEW r \in Requests, RedeemEnrollment(r)
  PROVE  IInv'
<1> USE DEF keys, tokens, apps
<1>0. /\ Types /\ Fits(r) /\ pc[r] = "redeem" /\ job[r] \in Job
      /\ job[r].kind = "enroll" /\ job[r].enrollment \in Enrollments
      /\ pc \in [Requests -> Stages] /\ job \in [Requests -> Job \union {None}]
      /\ UNCHANGED <<mix, now, key, forked, token, served, status, cred, crossed, enrolled,
                      client, dropped, code, minted>>
  BY DEF IInv, Jobs, Types, Fits, RedeemEnrollment, Continue, Goto
<1>1. CASE UNCHANGED enrollment /\ Goto(r, "idle")
  BY <1>0, <1>1, AnswerIInv DEF data, machines
<1>2. ASSUME enrollment[job[r].enrollment] = "open", Goto(r, "device"),
             enrollment' = [enrollment EXCEPT ![job[r].enrollment] = "used"]
      PROVE  IInv'
  <2>1. pc' = [pc EXCEPT ![r] = "device"] /\ job' = [job EXCEPT ![r] = job[r]]
    BY <1>2 DEF Goto, Continue
  <2>2. Fits(r)' /\ ~Holds(r)'
    BY <1>0, <2>1 DEF Fits, Holds
  <2>3. /\ mix' \in Mixes
        /\ pc' \in [Requests -> Stages] /\ job' \in [Requests -> Job \union {None}]
        /\ Jobs' /\ SigningInv' /\ OneKey' /\ FadingInv' /\ RotationInv' /\ CodeInv'
        /\ MintedForApprover' /\ ApplicationInv' /\ ReplacedSecretsArchived'
    BY <1>0, <2>1, <2>2, Frame DEF Stages
  <2>4. Types'
    BY <1>0, <1>2, <2>3 DEF Types
  <2>5. /\ enrolled[job[r].enrollment] = 0
        /\ \A q \in Requests : pc[q] = "device" => job[q].enrollment # job[r].enrollment
    BY <1>0, <1>2 DEF IInv, EnrollInv
  <2>6. /\ pc'[r] = "device" /\ job'[r] = job[r]
        /\ \A q \in Requests \ {r} : pc'[q] = pc[q] /\ job'[q] = job[q]
        /\ enrollment'[job[r].enrollment] = "used"
        /\ \A e \in Enrollments \ {job[r].enrollment} : enrollment'[e] = enrollment[e]
    BY <1>0, <1>2, <2>1 DEF Types
  <2>7. \A q \in Requests : pc[q] = "device" => job[q].enrollment \in Enrollments
    BY DEF IInv, Jobs, Fits
  <2>8. EnrollInv'
    BY <1>0, <2>5, <2>6, <2>7 DEF IInv, EnrollInv
  <2> QED BY <2>3, <2>4, <2>8 DEF IInv
<1> QED BY <1>1, <1>2 DEF RedeemEnrollment

LEMMA CreateApplicationIInv ==
  ASSUME IInv, NEW r \in Requests, CreateApplication(r)
  PROVE  IInv'
<1> USE DEF keys, tokens, machines
<1>0. /\ Types /\ Fits(r) /\ MaxSecret \in Nat \ {0}
      /\ UNCHANGED <<mix, now, key, forked, token, served, status, cred, crossed, enrollment,
                      enrolled, dropped, code, minted>>
      /\ pc' = [pc EXCEPT ![r] = "idle"] /\ job' = [job EXCEPT ![r] = None]
  BY StoreAssumption
  DEF StoreAssumption, IInv, Jobs, Fits, CreateApplication, Single, Begin, Continue, Goto
<1>1. /\ mix' \in Mixes
      /\ pc' \in [Requests -> Stages] /\ job' \in [Requests -> Job \union {None}]
      /\ \A q \in Requests :
           pc'[q] # "idle" => q \in Requests /\ q # r /\ pc'[q] = pc[q] /\ job'[q] = job[q]
      /\ Jobs' /\ SigningInv' /\ OneKey' /\ FadingInv' /\ RotationInv' /\ EnrollInv'
  BY <1>0, Ends
<1>2. /\ client.state = "none"
      /\ client' = [client EXCEPT !.state = "live", !.secret = 1]
  BY DEF CreateApplication
<1> DEFINE row == [client EXCEPT !.state = "live"]
<1>a. client' = [row EXCEPT !.secret = 1]
  BY <1>2
<1>b. row \in Client /\ row.state = "live"
  BY <1>0 DEF Types, Client
<1> HIDE DEF row
<1>3. client' \in Client /\ client'.state = "live" /\ client'.secret = 1
  BY <1>0, <1>a, <1>b DEF Client
<1>4. Types'
  BY <1>0, <1>1, <1>3 DEF Types
<1>5. ApplicationInv' /\ ReplacedSecretsArchived'
  BY <1>0, <1>3 DEF ApplicationInv, ReplacedSecretsArchived
<1>6. CodeInv' /\ MintedForApprover'
  BY <1>0, Ends
<1> QED BY <1>1, <1>4, <1>5, <1>6 DEF IInv

LEMMA ReplaceSecretIInv ==
  ASSUME IInv, NEW r \in Requests, ReplaceSecret(r)
  PROVE  IInv'
<1> USE DEF keys, tokens, machines
<1>0. /\ Types /\ Fits(r) /\ MaxSecret \in Nat \ {0}
      /\ UNCHANGED <<mix, now, key, forked, token, served, status, cred, crossed, enrollment,
                      enrolled, code, minted>>
      /\ pc' = [pc EXCEPT ![r] = "idle"] /\ job' = [job EXCEPT ![r] = None]
      /\ pc[r] = "secret" /\ job[r].old \in 1..MaxSecret
  BY StoreAssumption
  DEF StoreAssumption, IInv, Jobs, Fits, ReplaceSecret, Single, Begin, Continue, Goto
<1>1. /\ mix' \in Mixes
      /\ pc' \in [Requests -> Stages] /\ job' \in [Requests -> Job \union {None}]
      /\ \A q \in Requests :
           pc'[q] # "idle" => q \in Requests /\ q # r /\ pc'[q] = pc[q] /\ job'[q] = job[q]
      /\ Jobs' /\ SigningInv' /\ OneKey' /\ FadingInv' /\ RotationInv' /\ EnrollInv'
  BY <1>0, Ends
<1>2. CodeInv' /\ MintedForApprover'
  BY <1>0, Ends
<1>3. CASE UNCHANGED <<client, dropped>>
  BY <1>0, <1>1, <1>2, <1>3, Ends DEF IInv, Types
<1>4. ASSUME client.state = "live", client.secret < MaxSecret,
             client' = [client EXCEPT !.secret = @ + 1,
                                      !.archived = @ \union {job[r].old}],
             dropped' = IF job[r].old = client.secret THEN dropped
                        ELSE dropped \union {client.secret}
      PROVE  IInv'
  <2>1. client.secret \in 1..MaxSecret
    BY <1>4 DEF IInv, ApplicationInv
  <2> DEFINE row == [client EXCEPT !.secret = client.secret + 1]
  <2>a. client' = [row EXCEPT !.archived = client.archived \union {job[r].old}]
    BY <1>4
  <2>b. row \in Client /\ row.state = "live" /\ row.secret = client.secret + 1
    BY <1>0, <1>4, <2>1 DEF Types, Client
  <2>c. client.archived \union {job[r].old} \in SUBSET (1..MaxSecret)
    BY <1>0 DEF Types, Client
  <2> HIDE DEF row
  <2>2. /\ client' \in Client /\ client'.state = "live"
        /\ client'.secret = client.secret + 1
        /\ client'.archived = client.archived \union {job[r].old}
    BY <2>a, <2>b, <2>c DEF Client
  <2>3. dropped' \subseteq 1..MaxSecret
    BY <1>0, <1>4, <2>1 DEF Types
  <2>4. Types'
    BY <1>0, <1>1, <2>2, <2>3 DEF Types
  <2>5. ApplicationInv'
    BY <1>0, <1>4, <2>1, <2>2 DEF ApplicationInv
  <2>6. ReplacedSecretsArchived'
    <3>1. ASSUME NEW n \in 1..(client'.secret - 1)
          PROVE  n \in client'.archived \union dropped'
      <4>1. CASE n = client.secret
        BY <1>4, <2>2, <4>1
      <4>2. CASE n # client.secret
        <5>1. n \in 1..(client.secret - 1)
          BY <2>1, <2>2, <3>1, <4>2
        <5>2. n \in client.archived \union dropped
          BY <1>4, <5>1 DEF IInv, ReplacedSecretsArchived
        <5> QED BY <1>4, <2>2, <5>2
      <4> QED BY <4>1, <4>2
    <3> QED BY <3>1 DEF ReplacedSecretsArchived
  <2> QED BY <1>1, <1>2, <2>4, <2>5, <2>6 DEF IInv
<1> QED BY <1>3, <1>4 DEF ReplaceSecret

LEMMA DeleteApplicationIInv ==
  ASSUME IInv, NEW r \in Requests, DeleteApplication(r)
  PROVE  IInv'
<1> USE DEF keys, tokens, machines
<1>0. /\ Types /\ Fits(r) /\ MaxSecret \in Nat \ {0}
      /\ UNCHANGED <<mix, now, key, forked, token, served, status, cred, crossed, enrollment,
                      enrolled, dropped, minted>>
      /\ pc' = [pc EXCEPT ![r] = "idle"] /\ job' = [job EXCEPT ![r] = None]
  BY StoreAssumption
  DEF StoreAssumption, IInv, Jobs, Fits, DeleteApplication, Single, Begin, Continue, Goto
<1>1. /\ mix' \in Mixes
      /\ pc' \in [Requests -> Stages] /\ job' \in [Requests -> Job \union {None}]
      /\ \A q \in Requests :
           pc'[q] # "idle" => q \in Requests /\ q # r /\ pc'[q] = pc[q] /\ job'[q] = job[q]
      /\ Jobs' /\ SigningInv' /\ OneKey' /\ FadingInv' /\ RotationInv' /\ EnrollInv'
  BY <1>0, Ends
<1>2. /\ client.state = "live"
      /\ client' = [client EXCEPT !.state = "deleted", !.archived = {}]
      /\ code' = [c \in Codes |->
           IF code[c].state \in {"pending", "approved", "denied"}
             THEN [code[c] EXCEPT !.state = "deleted"] ELSE code[c]]
  BY DEF DeleteApplication
<1>3. client' \in Client /\ client'.state = "deleted"
  BY <1>0, <1>2 DEF Types, Client
<1>4. \A c \in Codes :
        /\ code'[c] \in Code /\ code'[c].user = code[c].user
        /\ code'[c].state = IF code[c].state \in {"pending", "approved", "denied"}
                              THEN "deleted" ELSE code[c].state
  BY <1>0, <1>2 DEF Types, Code
<1>5. Types'
  BY <1>0, <1>1, <1>2, <1>3, <1>4 DEF Types
<1>6. ApplicationInv' /\ ReplacedSecretsArchived'
  BY <1>3, <1>4 DEF ApplicationInv, ReplacedSecretsArchived
<1>7. CodeInv'
  BY <1>0, <1>1, <1>4 DEF IInv, CodeInv, Jobs, Fits, Holds
<1>8. MintedForApprover'
  BY <1>0, <1>4 DEF IInv, MintedForApprover, Recorded, Types, Token
<1> QED BY <1>1, <1>5, <1>6, <1>7, <1>8 DEF IInv

LEMMA StartFlowIInv ==
  ASSUME IInv, NEW r \in Requests, StartFlow(r)
  PROVE  IInv'
<1> USE DEF keys, tokens, machines
<1>0. /\ Types /\ Fits(r) /\ MaxSecret \in Nat \ {0}
      /\ UNCHANGED <<mix, now, key, forked, token, served, status, cred, crossed, enrollment,
                      enrolled, client, dropped, minted>>
      /\ pc' = [pc EXCEPT ![r] = "idle"] /\ job' = [job EXCEPT ![r] = None]
  BY StoreAssumption
  DEF StoreAssumption, IInv, Jobs, Fits, StartFlow, Single, Begin, Continue, Goto
<1>1. /\ mix' \in Mixes
      /\ pc' \in [Requests -> Stages] /\ job' \in [Requests -> Job \union {None}]
      /\ \A q \in Requests :
           pc'[q] # "idle" => q \in Requests /\ q # r /\ pc'[q] = pc[q] /\ job'[q] = job[q]
      /\ Jobs' /\ SigningInv' /\ OneKey' /\ FadingInv' /\ RotationInv' /\ EnrollInv'
  BY <1>0, Ends
<1>2. PICK c \in Codes :
        /\ client.state = "live" /\ code[c].state = "none"
        /\ code' = [code EXCEPT ![c].state = "pending"]
  BY DEF StartFlow
<1>3. /\ code'[c].state = "pending" /\ code'[c] \in Code
      /\ \A d \in Codes \ {c} : code'[d] = code[d]
  BY <1>0, <1>2 DEF Types, Code
<1>4. Types'
  BY <1>0, <1>1, <1>2, <1>3 DEF Types
<1>5. ApplicationInv' /\ ReplacedSecretsArchived'
  BY <1>0, <1>2 DEF IInv, ApplicationInv, ReplacedSecretsArchived
<1>6. CodeInv'
  BY <1>0, <1>1, <1>2, <1>3 DEF IInv, CodeInv, Jobs, Fits, Holds
<1>7. MintedForApprover'
  BY <1>0, <1>2, <1>3 DEF IInv, MintedForApprover, Recorded, Types, Token
<1> QED BY <1>1, <1>4, <1>5, <1>6, <1>7 DEF IInv

LEMMA RecordDecisionIInv ==
  ASSUME IInv, NEW r \in Requests, RecordDecision(r)
  PROVE  IInv'
<1> USE DEF keys, tokens, machines
<1>0. /\ Types /\ Fits(r) /\ MaxSecret \in Nat \ {0}
      /\ UNCHANGED <<mix, now, key, forked, token, served, status, cred, crossed, enrollment,
                      enrolled, client, dropped, minted>>
      /\ pc' = [pc EXCEPT ![r] = "idle"] /\ job' = [job EXCEPT ![r] = None]
      /\ pc[r] = "decide" /\ job[r].code \in Codes /\ job[r].actor \in Users
  BY StoreAssumption
  DEF StoreAssumption, IInv, Jobs, Fits, RecordDecision, Single, Begin, Continue, Goto
<1>1. /\ mix' \in Mixes
      /\ pc' \in [Requests -> Stages] /\ job' \in [Requests -> Job \union {None}]
      /\ \A q \in Requests :
           pc'[q] # "idle" => q \in Requests /\ q # r /\ pc'[q] = pc[q] /\ job'[q] = job[q]
      /\ Jobs' /\ SigningInv' /\ OneKey' /\ FadingInv' /\ RotationInv' /\ EnrollInv'
  BY <1>0, Ends
<1> DEFINE Decided(c, d, u) == [code EXCEPT ![c].state = d, ![c].user = u]
<1>2. CASE UNCHANGED code
  BY <1>0, <1>1, <1>2, Ends DEF IInv, Types
<1>3. ASSUME NEW c \in Codes, NEW d \in {"approved", "denied"}, NEW u \in Users \union {None},
             d = "approved" => u \in Users, code[c].state = "pending",
             code' = Decided(c, d, u)
      PROVE  IInv'
  <2>1. /\ code'[c].state = d /\ code'[c].user = u /\ code'[c] \in Code
        /\ \A e \in Codes \ {c} : code'[e] = code[e]
    BY <1>0, <1>3 DEF Types, Code
  <2>2. Types'
    BY <1>0, <1>1, <1>3, <2>1 DEF Types
  <2>3. ApplicationInv' /\ ReplacedSecretsArchived'
    BY <1>0, <1>3, <2>1 DEF IInv, ApplicationInv, ReplacedSecretsArchived
  <2>a. /\ minted[c] = 0
        /\ \A q \in Requests : Holds(q) \/ pc[q] = "consume" =>
             job[q].code \in Codes \ {c}
    BY <1>3 DEF IInv, CodeInv, Jobs, Fits, Holds
  <2>b. \A q \in Requests : Holds(q)' => Holds(q) /\ job'[q] = job[q]
    BY <1>1 DEF Holds
  <2>4. CodeInv'
    <3>1. \A e \in Codes : minted'[e] = 0 \/ (minted'[e] = 1 /\ code'[e].state = "used")
      BY <1>0, <2>1, <2>a DEF IInv, CodeInv
    <3>2. \A e \in Codes : code'[e].state = "approved" => code'[e].user \in Users
      BY <1>3, <2>1 DEF IInv, CodeInv
    <3>3. ASSUME NEW q \in Requests, pc'[q] = "consume"
          PROVE  /\ code'[job'[q].code].state \notin {"none", "pending"}
                 /\ code'[job'[q].code].user = job'[q].actor /\ job'[q].actor \in Users
      BY <1>1, <2>1, <2>a, <3>3 DEF IInv, CodeInv
    <3>4. ASSUME NEW q \in Requests, Holds(q)'
          PROVE  /\ code'[job'[q].code].state = "used" /\ minted'[job'[q].code] = 0
                 /\ code'[job'[q].code].user = job'[q].actor /\ job'[q].actor \in Users
                 /\ \A p \in Requests : Holds(p)' /\ job'[p].code = job'[q].code => p = q
      BY <1>0, <2>1, <2>a, <2>b, <3>4 DEF IInv, CodeInv
    <3> QED BY <3>1, <3>2, <3>3, <3>4 DEF CodeInv
  <2>5. MintedForApprover'
    BY <1>0, <1>3, <2>1 DEF IInv, MintedForApprover, Recorded, Types, Token
  <2> QED BY <1>1, <2>2, <2>3, <2>4, <2>5 DEF IInv
<1>4. \/ UNCHANGED code
      \/ \E c \in Codes : /\ code[c].state = "pending"
                           /\ \/ \E u \in Users : code' = Decided(c, "approved", u)
                              \/ code' = Decided(c, "denied", None)
  BY <1>0 DEF RecordDecision
<1> HIDE DEF Decided
<1> QED BY <1>2, <1>3, <1>4

LEMMA ConsumeCodeIInv ==
  ASSUME IInv, NEW r \in Requests, ConsumeCode(r)
  PROVE  IInv'
<1> USE DEF keys, tokens, machines
<1>0. /\ Types /\ Fits(r) /\ pc[r] = "consume" /\ job[r] \in Job
      /\ job[r].kind = "poll" /\ job[r].code \in Codes
      /\ pc \in [Requests -> Stages] /\ job \in [Requests -> Job \union {None}]
      /\ UNCHANGED <<mix, now, key, forked, token, served, status, cred, crossed, enrollment,
                      enrolled, client, dropped, minted>>
  BY DEF IInv, Jobs, Types, Fits, ConsumeCode, Continue, Goto
<1>1. CASE UNCHANGED code /\ Goto(r, "idle")
  BY <1>0, <1>1, AnswerIInv DEF data, apps
<1>2. ASSUME code[job[r].code].state = "approved", Goto(r, "member"),
             code' = [code EXCEPT ![job[r].code].state = "used"]
      PROVE  IInv'
  <2>0. PICK c \in Codes : c = job[r].code
    BY <1>0
  <2>1. pc' = [pc EXCEPT ![r] = "member"] /\ job' = [job EXCEPT ![r] = job[r]]
    BY <1>2 DEF Goto, Continue
  <2>2. Fits(r)'
    BY <1>0, <2>1 DEF Fits
  <2>3. /\ mix' \in Mixes
        /\ pc' \in [Requests -> Stages] /\ job' \in [Requests -> Job \union {None}]
        /\ Jobs' /\ SigningInv' /\ OneKey' /\ FadingInv' /\ RotationInv' /\ EnrollInv'
        /\ ReplacedSecretsArchived'
    BY <1>0, <2>1, <2>2, Frame DEF Stages
  <2>4. /\ code'[c].state = "used" /\ code'[c].user = code[c].user /\ code'[c] \in Code
        /\ \A d \in Codes \ {c} : code'[d] = code[d]
    BY <1>0, <1>2, <2>0 DEF Types, Code
  <2>5. Types'
    BY <1>0, <1>2, <2>0, <2>3, <2>4 DEF Types
  <2>6. ApplicationInv'
    BY <1>0, <1>2, <2>0, <2>4 DEF IInv, ApplicationInv
  <2>7. MintedForApprover'
    BY <1>0, <2>4 DEF IInv, MintedForApprover, Recorded, Types, Token
  <2>8. /\ pc'[r] = "member" /\ job'[r] = job[r]
        /\ \A q \in Requests \ {r} : pc'[q] = pc[q] /\ job'[q] = job[q]
    BY <1>0, <2>1
  <2>9. /\ minted[c] = 0 /\ code[c].user = job[r].actor /\ job[r].actor \in Users
        /\ \A q \in Requests : Holds(q) => job[q].code # c
    BY <1>0, <1>2, <2>0 DEF IInv, CodeInv
  <2>10. \A q \in Requests \ {r} : Holds(q)' <=> Holds(q)
    BY <2>8 DEF Holds
  <2>11. \A q \in Requests : Holds(q) \/ pc[q] = "consume" => job[q].code \in Codes
    BY DEF Holds, IInv, Jobs, Fits
  <2>12. CodeInv'
    BY <1>0, <2>0, <2>4, <2>8, <2>9, <2>10, <2>11 DEF IInv, CodeInv
  <2> QED BY <2>3, <2>5, <2>6, <2>7, <2>12 DEF IInv
<1> QED BY <1>1, <1>2 DEF ConsumeCode

----------------------------------------------------------------------------
(* The clock, expiry and membership                                        *)

LEMMA TickIInv ==
  ASSUME IInv, Tick
  PROVE  IInv'
<1> USE DEF tokens, machines, apps
<1>0. /\ Types /\ MaxTime \in Nat /\ Ttl \in Nat /\ now \in Nat
      /\ now' = now + 1 /\ now' \in 0..MaxTime
      /\ UNCHANGED <<mix, key, forked, token, served, status, cred, crossed, enrollment,
                      enrolled, client, dropped, code, minted, pc, job>>
  BY StoreAssumption DEF StoreAssumption, IInv, Types, Tick
<1>1. Types'
  BY <1>0 DEF Types, Token
<1>2. Jobs'
  <2>1. ASSUME NEW r \in Requests
        PROVE  Fits(r)'
    <3>1. Fits(r) /\ (pc[r] # "idle" => job[r] \in Job /\ now < job[r].since + Latency)
      BY DEF IInv, Jobs, Fits, Tick
    <3> QED BY <1>0, <3>1, StoreAssumption DEF Fits, Job, StoreAssumption
  <2> QED BY <2>1 DEF Jobs
<1>3. SigningInv'
  BY <1>0 DEF IInv, SigningInv, Signs, Recorded, Types, Token
<1>4. FadingInv' /\ OneKey'
  BY <1>0 DEF IInv, FadingInv, WasLive, Recorded, OneKey, Active
<1>5. RotationInv'
  BY <1>0 DEF IInv, RotationInv, Unrevoked, Owned, Exists, Bare
<1>6. EnrollInv' /\ CodeInv' /\ MintedForApprover'
  BY <1>0 DEF IInv, EnrollInv, CodeInv, Holds, MintedForApprover, Recorded
<1>7. ApplicationInv' /\ ReplacedSecretsArchived'
  BY <1>0 DEF IInv, ApplicationInv, ReplacedSecretsArchived
<1> QED BY <1>1, <1>2, <1>3, <1>4, <1>5, <1>6, <1>7 DEF IInv

\* What steps that are no request's keep, if they leave the data alone.
LEMMA StillFrame ==
  ASSUME IInv, UNCHANGED <<mix, now, key, forked, token, served, crossed, enrolled, client,
                           dropped, minted, pc, job>>
  PROVE  /\ Jobs' /\ SigningInv' /\ OneKey' /\ ReplacedSecretsArchived'
         /\ UNCHANGED cred => FadingInv'
         /\ UNCHANGED <<status, cred>> => RotationInv'
         /\ UNCHANGED enrollment => EnrollInv'
         /\ UNCHANGED code => CodeInv' /\ MintedForApprover' /\ ApplicationInv'
<1>1. Jobs' /\ SigningInv' /\ OneKey'
  BY DEF IInv, Jobs, Fits, SigningInv, Signs, Recorded, OneKey, Active
<1>2. ReplacedSecretsArchived'
  BY DEF IInv, ReplacedSecretsArchived
<1>3. UNCHANGED cred => FadingInv'
  BY DEF IInv, FadingInv, WasLive, Recorded
<1>4. UNCHANGED <<status, cred>> => RotationInv'
  BY DEF IInv, RotationInv, Unrevoked, Owned, Exists, Bare
<1>5. UNCHANGED enrollment => EnrollInv'
  BY DEF IInv, EnrollInv
<1>6. UNCHANGED code => CodeInv' /\ MintedForApprover' /\ ApplicationInv'
  BY DEF IInv, CodeInv, Holds, MintedForApprover, Recorded, ApplicationInv
<1> QED BY <1>1, <1>2, <1>3, <1>4, <1>5, <1>6

LEMMA EnvironmentIInv ==
  ASSUME IInv,
         \/ \E c \in Creds : LapseCredential(c)
         \/ \E e \in Enrollments : LapseEnrollment(e)
         \/ \E c \in Codes : LapseCode(c)
         \/ \E u \in Users : SetMembership(u)
         \/ UNCHANGED vars
  PROVE  IInv'
<1> USE DEF keys, tokens, machines, apps
<1>0. Types
  BY DEF IInv
<1>1. ASSUME NEW c \in Creds, LapseCredential(c)
      PROVE  IInv'
  <2>0. /\ cred[c].state = "live"
        /\ UNCHANGED <<mix, now, key, forked, token, served, status, crossed, enrollment,
                        enrolled, client, dropped, code, minted, pc, job>>
        /\ cred' = [cred EXCEPT ![c] = cred'[c]]
        /\ cred'[c].state = "expired" /\ cred'[c].owner = cred[c].owner
        /\ cred'[c].ended = now /\ cred'[c] \in Cred
    <3> DEFINE i == [cred EXCEPT ![c].state = "expired"]
    <3>1. cred' = [i EXCEPT ![c].ended = now]
      BY <1>1 DEF LapseCredential
    <3>2. /\ i \in [Creds -> Cred] /\ i[c].state = "expired" /\ i[c].owner = cred[c].owner
          /\ \A d \in Creds \ {c} : i[d] = cred[d]
      BY <1>0 DEF Types, Cred
    <3>3. now \in 0..MaxTime
      BY <1>0 DEF Types
    <3> HIDE DEF i
    <3>4. /\ cred' \in [Creds -> Cred] /\ cred'[c].state = "expired"
          /\ cred'[c].owner = cred[c].owner /\ cred'[c].ended = now
          /\ \A d \in Creds \ {c} : cred'[d] = cred[d]
      BY <3>1, <3>2, <3>3 DEF Cred
    <3>5. cred' = [cred EXCEPT ![c] = cred'[c]]
      BY <1>0, <3>4 DEF Types
    <3> QED BY <1>1, <3>4, <3>5 DEF LapseCredential
  <2>1. Types'
    BY <1>0, <2>0 DEF Types
  <2>2. \A d \in Creds \ {c} : cred'[d] = cred[d]
    BY <1>0, <2>0 DEF Types
  <2>3. ASSUME NEW d \in Creds, NEW n \in Int, n <= now, WasLive(d, n)
        PROVE  WasLive(d, n)'
    BY <2>0, <2>2, <2>3 DEF WasLive
  <2>4. FadingInv'
    <3>1. ASSUME NEW q \in Requests, pc[q] # "idle", job[q].kind = "machine"
          PROVE  WasLive(job[q].cred, job[q].since)'
      <4>1. /\ job[q].cred \in Creds /\ job[q].since \in Int /\ job[q].since <= now
            /\ WasLive(job[q].cred, job[q].since)
        BY <3>1 DEF IInv, FadingInv, Jobs, Fits, Job
      <4>2. job'[q] = job[q]
        BY <2>0
      <4> QED BY <2>3, <4>1, <4>2
    <3>2. ASSUME NEW t \in Tokens, Recorded(t), token[t].cred # None
          PROVE  WasLive(token[t].cred, token[t].exp - Latency - Ttl)'
      <4>1. token[t].cred \in Creds /\ token[t].exp \in Int /\ token' = token
        BY <1>0, <2>0, <3>2 DEF Types, Token
      <4>2. token[t].exp <= now + Ttl /\ WasLive(token[t].cred, token[t].exp - Latency - Ttl)
        BY <3>2 DEF IInv, SigningInv, FadingInv
      <4>3. token[t].exp - Latency - Ttl \in Int /\ token[t].exp - Latency - Ttl <= now
        BY <1>0, <4>1, <4>2, StoreAssumption DEF Types, StoreAssumption
      <4> QED BY <2>3, <4>1, <4>2, <4>3
    <3> QED BY <2>0, <3>1, <3>2 DEF FadingInv, Recorded
  <2>5. /\ \A b : Unrevoked(b)' = Unrevoked(b)
        /\ \A b : Bare(b)' <=> Bare(b)
    BY <2>0, <2>2 DEF Unrevoked, Owned, Bare
  <2>6. cred[c].owner # None
    BY <2>0 DEF IInv, RotationInv
  <2>7. RotationInv'
    BY <2>0, <2>2, <2>5, <2>6 DEF IInv, RotationInv, Exists
  <2> QED BY <2>0, <2>1, <2>4, <2>7, StillFrame DEF IInv
<1>2. ASSUME NEW e \in Enrollments, LapseEnrollment(e)
      PROVE  IInv'
  <2>1. Types' /\ EnrollInv'
    BY <1>0, <1>2 DEF LapseEnrollment, IInv, EnrollInv, Types, Jobs, Fits
  <2> QED BY <1>2, <2>1, StillFrame DEF LapseEnrollment, IInv
<1>3. ASSUME NEW c \in Codes, LapseCode(c)
      PROVE  IInv'
  <2>0. UNCHANGED <<mix, now, key, forked, token, served, status, cred, crossed, enrollment,
                    enrolled, client, dropped, minted, pc, job>>
    BY <1>3 DEF LapseCode
  <2>1. /\ code' \in [Codes -> Code]
        /\ \A d \in Codes : code'[d].state = code[d].state /\ code'[d].user = code[d].user
    BY <1>0, <1>3 DEF LapseCode, Types, Code
  <2>2. Types'
    BY <1>0, <2>0, <2>1 DEF Types
  <2>3. CodeInv'
    BY <2>0, <2>1 DEF IInv, CodeInv, Holds, Jobs, Fits
  <2>4. MintedForApprover' /\ ApplicationInv'
    BY <1>0, <2>0, <2>1 DEF IInv, MintedForApprover, ApplicationInv, Recorded, Types, Token
  <2> QED BY <2>0, <2>2, <2>3, <2>4, StillFrame DEF IInv
<1>4. ASSUME NEW u \in Users, SetMembership(u)
      PROVE  IInv'
  <2>0. /\ UNCHANGED <<mix, now, key, forked, token, served, cred, crossed, enrollment,
                        enrolled, client, dropped, code, minted, pc, job>>
        /\ Users \intersect (ServiceAccounts \union Devices) = {}
    BY <1>4, StoreAssumption DEF SetMembership, StoreAssumption
  <2>1. /\ status' \in [Actors -> {"none", "active", "suspended", "gone"}]
        /\ status'[u] \in {"active", "suspended"}
        /\ \A b \in Actors \ {u} : status'[b] = status[b]
    BY <1>0, <1>4 DEF SetMembership, Types, Actors
  <2>2. Types'
    BY <1>0, <2>0, <2>1 DEF Types
  <2>3. \A r \in Requests : pc[r] # "idle" /\ job[r].kind = "rotate" =>
          job[r].actor \in ServiceAccounts
    BY DEF IInv, Jobs, Fits
  <2>4. RotationInv'
    BY <2>0, <2>1, <2>3 DEF IInv, RotationInv, Unrevoked, Owned, Exists, Bare, Actors
  <2> QED BY <2>0, <2>2, <2>4, StillFrame DEF IInv
<1>5. CASE UNCHANGED vars
  <2>1. Types'
    BY <1>0, <1>5 DEF vars, data, Types
  <2> QED BY <1>5, <2>1, StillFrame DEF vars, data, IInv
<1> QED BY <1>1, <1>2, <1>3, <1>4, <1>5

LEMMA NextIInv ==
  ASSUME IInv, [Next]_vars
  PROVE  IInv'
<1>1. ASSUME NEW r \in Requests, Accept(r)
      PROVE  IInv'
  BY <1>1, AcceptIInv, RetireKeysIInv, CreateServiceAccountIInv, SetStatusIInv,
     DeleteServiceAccountIInv, IssueEnrollmentIInv, RotateDeviceIInv, RevokeDeviceIInv,
     CreateApplicationIInv, DeleteApplicationIInv, StartFlowIInv DEF Accept
<1>2. ASSUME NEW r \in Requests, Serve(r) \/ Fail(r)
      PROVE  IInv'
  BY <1>2, ReadIInv, GenerateKeyIInv, RecordTokenIInv, CheckActorIInv,
     CaptureCredentialsIInv, ReplaceCredentialIInv, RedeemEnrollmentIInv, InsertDeviceIInv,
     ReplaceSecretIInv, RecordDecisionIInv, ConsumeCodeIInv DEF Serve
<1> QED BY <1>1, <1>2, TickIInv, EnvironmentIInv DEF Next

LEMMA Inductive == Spec => []IInv
<1>1. Init => IInv
  BY InitIInv
<1>2. IInv /\ [Next]_vars => IInv'
  BY NextIInv
<1> QED BY <1>1, <1>2, PTL DEF Spec

----------------------------------------------------------------------------
(* What follows from the invariant                                         *)

\* Every variable has its type: no token enrolls two devices, no code is
\* answered twice, and a request in a slot has a well-formed input.
THEOREM PlatformTypeCorrect == Spec => []TypeOK
<1>1. IInv => TypeOK
  <2> SUFFICES ASSUME IInv PROVE TypeOK
    OBVIOUS
  <2>1. enrolled \in [Enrollments -> 0..MaxAnswers]
    BY DEF IInv, Types, EnrollInv, MaxAnswers
  <2>2. minted \in [Codes -> 0..MaxAnswers]
    BY DEF IInv, Types, CodeInv, MaxAnswers
  <2>3. \A r \in Requests : IF pc[r] = "idle" THEN job[r] = None ELSE job[r] \in Job
    BY DEF IInv, Jobs, Fits
  <2> QED BY <2>1, <2>2, <2>3 DEF IInv, Types, TypeOK
<1> QED BY <1>1, Inductive, PTL

\* ensure_active_key, rotate_key and verification_keys: whatever rotations
\* happen, a token verifies until it expires, if the grace period is as long
\* as a request and a token together.
THEOREM KeysOutliveTokens == Spec => []KeyOutlivesTokens
<1>1. IInv => KeyOutlivesTokens
  <2> SUFFICES ASSUME IInv, NEW t \in Tokens, Recorded(t), now < token[t].exp
               PROVE  token[t].key \in Verification
    BY DEF KeyOutlivesTokens
  <2>1. token[t].key \in Keys /\ Signs(token[t].key, token[t].exp - Latency - Ttl)
    BY DEF IInv, SigningInv
  <2>2. /\ key[token[t].key].at \in Nat /\ token[t].exp \in Nat /\ now \in Nat
        /\ Latency \in Nat /\ Ttl \in Nat /\ Grace \in Nat /\ Latency + Ttl <= Grace
    <3>1. /\ token[t] \in Token /\ key[token[t].key] \in Key /\ now \in 0..MaxTime
          /\ MaxTime \in Nat
      BY <2>1, StoreAssumption DEF IInv, Types, StoreAssumption
    <3> QED BY <3>1, StoreAssumption, GraceAssumption
            DEF Key, Token, StoreAssumption, GraceAssumption
  <2> QED BY <2>1, <2>2 DEF Signs, Verification, Active
<1> QED BY <1>1, Inductive, PTL

\* One key signs, unless two requests have generated a key at the same time.
THEOREM OneKeySigns == Spec => []OneActiveKey
<1>1. IInv => OneActiveKey
  <2> SUFFICES ASSUME IInv, ~forked PROVE Cardinality(Active) <= 1
    BY DEF OneActiveKey
  <2>1. \A k, l \in Active : k = l
    BY DEF IInv, OneKey
  <2>2. CASE Active = {}
    BY <2>2, FS_EmptySet
  <2>3. ASSUME NEW k \in Active PROVE Cardinality(Active) <= 1
    <3>1. Active = {k}
      BY <2>1
    <3>2. Cardinality({k}) = 1
      BY FS_Singleton
    <3> QED BY <3>1, <3>2
  <2> QED BY <2>2, <2>3
<1> QED BY <1>1, Inductive, PTL

\* authenticate_machine and mint_access_token: every token obtained with a
\* credential expires within the time of a request and a token after the
\* credential was rotated, expired or went with its account.
THEOREM OldCredentialsAreSoonUseless == Spec => []OldCredentialsFade
<1>1. IInv => OldCredentialsFade
  <2> SUFFICES ASSUME IInv, NEW t \in Tokens, Recorded(t), token[t].cred # None,
                      cred[token[t].cred].state # "live"
               PROVE  token[t].exp <= cred[token[t].cred].ended + Latency + Ttl
    BY DEF OldCredentialsFade
  <2>1. /\ token[t].cred \in Creds /\ token[t].exp \in Nat
        /\ cred[token[t].cred].ended \in Nat /\ Latency \in Nat /\ Ttl \in Nat
    <3>1. token[t] \in Token
      BY DEF IInv, Types
    <3>2. token[t].cred \in Creds /\ cred[token[t].cred] \in Cred
      BY <3>1 DEF IInv, Types, Token
    <3> QED BY <3>1, <3>2, StoreAssumption DEF Token, Cred, StoreAssumption
  <2>2. token[t].exp - Latency - Ttl <= cred[token[t].cred].ended
    BY DEF IInv, FadingInv, WasLive
  <2> QED BY <2>1, <2>2
<1> QED BY <1>1, Inductive, PTL

\* rotate_service_account_credential and rotate_device_credential: the old
\* credential does not work beside the new one, unless rotations overlapped.
THEOREM RotationReplaces == Spec => []OneLiveCredential
<1>1. IInv => OneLiveCredential
  <2> SUFFICES ASSUME IInv, NEW a \in Devices \union (ServiceAccounts \ crossed)
               PROVE  Cardinality({c \in Owned(a) : cred[c].state = "live"}) <= 1
    BY DEF OneLiveCredential
  <2> DEFINE L == {c \in Owned(a) : cred[c].state = "live"}
  <2>1. \A c, d \in L : c = d
    BY DEF IInv, RotationInv, Unrevoked
  <2> HIDE DEF L
  <2>2. CASE L = {}
    BY <2>2, FS_EmptySet DEF L
  <2>3. ASSUME NEW c \in L PROVE Cardinality(L) <= 1
    <3>1. L = {c}
      BY <2>1
    <3>2. Cardinality({c}) = 1
      BY FS_Singleton
    <3> QED BY <3>1, <3>2
  <2> QED BY <2>2, <2>3 DEF L
<1> QED BY <1>1, Inductive, PTL

\* device_approve and token_device_code: a token minted for a device code is
\* for the user whose approval its row records.
THEOREM DeviceTokensFollowApproval == Spec => []MintedForApprover
<1>1. IInv => MintedForApprover
  BY DEF IInv
<1> QED BY <1>1, Inductive, PTL

\* rotate_client_secret: no replaced secret is lost but by overlapping
\* rotations.
THEOREM SecretsAreArchived == Spec => []ReplacedSecretsArchived
<1>1. IInv => ReplacedSecretsArchived
  BY DEF IInv
<1> QED BY <1>1, Inductive, PTL

----------------------------------------------------------------------------
(* Properties of steps                                                     *)

\* Who writes what.
LEMMA Writers ==
  ASSUME NEW r \in Requests, Accept(r) \/ Serve(r) \/ Fail(r)
  PROVE  /\ \/ UNCHANGED status
            \/ CreateServiceAccount(r) \/ SetStatus(r) \/ DeleteServiceAccount(r)
            \/ InsertDevice(r) \/ RevokeDevice(r)
         /\ UNCHANGED <<token, served>> \/ RecordToken(r) \/ CheckActor(r)
         /\ \/ UNCHANGED <<enrollment, enrolled>>
            \/ IssueEnrollment(r) \/ RedeemEnrollment(r) \/ InsertDevice(r)
         /\ \/ UNCHANGED <<code, minted>>
            \/ StartFlow(r) \/ RecordDecision(r) \/ ConsumeCode(r) \/ DeleteApplication(r)
            \/ RecordToken(r)
<1> USE DEF data, tokens, machines, apps
<1>1. ASSUME \/ AcceptBoot(r) \/ AcceptValidate(r) \/ AcceptRotate(r) \/ AcceptEnroll(r)
             \/ AcceptMachine(r) \/ AcceptSecret(r) \/ AcceptDecide(r) \/ AcceptPoll(r)
      PROVE  UNCHANGED data
  BY <1>1 DEF AcceptBoot, AcceptValidate, AcceptRotate, AcceptEnroll, AcceptMachine,
              AcceptSecret, AcceptDecide, AcceptPoll, Arrive
<1>2. ASSUME EnsureKey(r) \/ VerifyToken(r) \/ ReadCode(r) \/ CheckMember(r) \/ Fail(r)
      PROVE  UNCHANGED data
  BY <1>2 DEF EnsureKey, VerifyToken, ReadCode, CheckMember, Fail
<1>3. ASSUME RetireKeys(r) \/ GenerateKey(r)
      PROVE  UNCHANGED <<tokens, machines, apps>>
  BY <1>3 DEF RetireKeys, GenerateKey
<1>4. RecordToken(r) => UNCHANGED machines
  BY DEF RecordToken
<1>5. CheckActor(r) => UNCHANGED <<machines, apps>>
  BY DEF CheckActor
<1>6. ASSUME \/ CreateServiceAccount(r) \/ SetStatus(r) \/ DeleteServiceAccount(r)
             \/ RevokeDevice(r)
      PROVE  UNCHANGED <<tokens, enrollment, enrolled, apps>>
  BY <1>6 DEF CreateServiceAccount, SetStatus, DeleteServiceAccount, RevokeDevice
<1>7. ASSUME CaptureCredentials(r) \/ ReplaceCredential(r) \/ RotateDevice(r)
      PROVE  UNCHANGED <<tokens, status, enrollment, enrolled, apps>>
  BY <1>7 DEF CaptureCredentials, ReplaceCredential, RotateDevice
<1>8. ASSUME IssueEnrollment(r) \/ RedeemEnrollment(r)
      PROVE  UNCHANGED <<tokens, status, apps>>
  BY <1>8 DEF IssueEnrollment, RedeemEnrollment
<1>9. InsertDevice(r) => UNCHANGED <<tokens, apps>>
  BY DEF InsertDevice
<1>10. ASSUME CreateApplication(r) \/ ReplaceSecret(r)
       PROVE  UNCHANGED <<tokens, machines, code, minted>>
  BY <1>10 DEF CreateApplication, ReplaceSecret
<1>11. ASSUME StartFlow(r) \/ RecordDecision(r) \/ ConsumeCode(r) \/ DeleteApplication(r)
       PROVE  UNCHANGED <<tokens, machines>>
  BY <1>11 DEF StartFlow, RecordDecision, ConsumeCode, DeleteApplication
<1> QED BY <1>1, <1>2, <1>3, <1>4, <1>5, <1>6, <1>7, <1>8, <1>9, <1>10, <1>11
        DEF Accept, Serve

LEMMA StillWriters ==
  ASSUME \/ Tick \/ \E c \in Creds : LapseCredential(c)
         \/ \E e \in Enrollments : LapseEnrollment(e)
         \/ \E c \in Codes : LapseCode(c)
         \/ \E u \in Users : SetMembership(u)
         \/ UNCHANGED vars
  PROVE  /\ UNCHANGED <<token, served, enrolled, minted, client>>
         /\ UNCHANGED status \/ \E u \in Users : SetMembership(u)
         /\ UNCHANGED enrollment \/ \E e \in Enrollments : LapseEnrollment(e)
         /\ UNCHANGED code \/ \E c \in Codes : LapseCode(c)
BY DEF Tick, LapseCredential, LapseEnrollment, LapseCode, SetMembership, vars, data, keys,
       tokens, machines, apps

\* What a step of the application or of a request does to the codes.
LEMMA CodeSteps ==
  ASSUME IInv, [Next]_vars, UNCHANGED <<code, minted>> => FALSE
  PROVE  \/ UNCHANGED minted /\ \E c \in Codes : LapseCode(c)
         \/ \E r \in Requests :
              \/ StartFlow(r) \/ RecordDecision(r) \/ ConsumeCode(r) \/ DeleteApplication(r)
              \/ RecordToken(r)
BY Writers, StillWriters DEF Next

\* delete_application and token_device_code: no code is consumed once the
\* application is deleted.
THEOREM DeletionEndsCodes == Spec => ConsumedBeforeDeletion
<1>1. ASSUME IInv, [Next]_vars, client.state = "deleted", NEW c \in Codes,
             code'[c].state = "used"
      PROVE  code[c].state = "used"
  <2>0. Types /\ code[c].state \notin {"pending", "approved", "denied"}
    BY <1>1 DEF IInv, ApplicationInv
  <2>1. CASE UNCHANGED <<code, minted>>
    BY <1>1, <2>1
  <2>2. ASSUME NEW d \in Codes, LapseCode(d)
        PROVE  code[c].state = "used"
    BY <1>1, <2>0, <2>2 DEF LapseCode, Types, Code
  <2>3. ASSUME NEW r \in Requests, StartFlow(r) \/ DeleteApplication(r)
        PROVE  FALSE
    BY <1>1, <2>3 DEF StartFlow, DeleteApplication
  <2>4. ASSUME NEW r \in Requests, RecordDecision(r)
        PROVE  code[c].state = "used"
    <3>1. code[job[r].code].state \notin {"pending", "approved", "denied"}
      BY <1>1, <2>4 DEF IInv, ApplicationInv, Jobs, Fits, RecordDecision
    <3> QED BY <1>1, <2>4, <3>1 DEF RecordDecision
  <2>5. ASSUME NEW r \in Requests, ConsumeCode(r)
        PROVE  code[c].state = "used"
    <3>1. code[job[r].code].state \notin {"pending", "approved", "denied"}
      BY <1>1, <2>5 DEF IInv, ApplicationInv, Jobs, Fits, ConsumeCode
    <3> QED BY <1>1, <2>5, <3>1 DEF ConsumeCode
  <2>6. ASSUME NEW r \in Requests, RecordToken(r)
        PROVE  code[c].state = "used"
    BY <1>1, <2>6 DEF RecordToken
  <2> QED BY <1>1, <2>1, <2>2, <2>3, <2>4, <2>5, <2>6, CodeSteps
<1>2. IInv /\ [Next]_vars =>
        (client.state = "deleted" =>
          \A c \in Codes : code'[c].state = "used" => code[c].state = "used")
  BY <1>1
<1> QED BY <1>2, Inductive, PTL DEF Spec, ConsumedBeforeDeletion

\* revoke_device, delete_service_account and validate_access_token: what is
\* gone stays gone, and no validation then accepts a token of it.
THEOREM RevokedMachinesStayOut == Spec => GoneStaysGone
<1>1. ASSUME IInv, [Next]_vars, NEW a \in Actors, status[a] = "gone"
      PROVE  status'[a] = "gone"
  <2>0. Types /\ a \notin Users
    BY <1>1 DEF IInv, RotationInv
  <2>1. ASSUME NEW r \in Requests, Accept(r) \/ Serve(r) \/ Fail(r)
        PROVE  status'[a] = "gone"
    <3>1. CASE CreateServiceAccount(r)
      BY <1>1, <2>0, <3>1 DEF CreateServiceAccount, Types
    <3>2. CASE SetStatus(r)
      BY <1>1, <2>0, <3>2 DEF SetStatus, Types
    <3>3. CASE DeleteServiceAccount(r)
      BY <1>1, <2>0, <3>3 DEF DeleteServiceAccount, Types
    <3>4. CASE InsertDevice(r)
      BY <1>1, <2>0, <3>4 DEF InsertDevice, Types
    <3>5. CASE RevokeDevice(r)
      BY <1>1, <2>0, <3>5 DEF RevokeDevice, Types, IsActive
    <3> QED BY <1>1, <2>1, <3>1, <3>2, <3>3, <3>4, <3>5, Writers
  <2>2. ASSUME NEW u \in Users, SetMembership(u)
        PROVE  status'[a] = "gone"
    BY <1>1, <2>0, <2>2 DEF SetMembership, Types
  <2> QED BY <1>1, <2>1, <2>2, StillWriters DEF Next
<1>2. ASSUME IInv, [Next]_vars, NEW a \in Actors, status[a] = "gone",
             NEW t \in served' \ served
      PROVE  token[t].actor # a
  <2>1. ASSUME NEW r \in Requests, CheckActor(r)
        PROVE  token[t].actor # a
    BY <1>2, <2>1 DEF CheckActor, IsActive
  <2>2. ASSUME NEW r \in Requests, RecordToken(r)
        PROVE  FALSE
    BY <1>2, <2>2 DEF RecordToken
  <2> QED BY <1>2, <2>1, <2>2, Writers, StillWriters DEF Next
<1>3. IInv /\ [Next]_vars =>
        \A a \in Actors : status[a] = "gone" =>
          /\ status'[a] = "gone"
          /\ \A t \in served' \ served : token[t].actor # a
  BY <1>1, <1>2
<1> QED BY <1>3, Inductive, PTL DEF Spec, GoneStaysGone

----------------------------------------------------------------------------
(* Refinement of OneTimeTokens                                             *)

\* enroll_device: however many requests present an enrollment token, it
\* enrolls one device.
THEOREM EnrollmentIsSingleUse == Spec => EnrollsOnce
<1> DEFINE open  == {e \in Enrollments : enrollment[e] = "open"}
           spent == {e \in Enrollments : enrollment[e] = "used"}
<1>1. Init => Enrolling!Init
  BY DEF Init, Enrolling!Init
<1>2. ASSUME IInv, [Next]_vars
      PROVE  [Enrolling!Next]_(Enrolling!vars)
  <2>0. /\ enrollment \in [Enrollments -> {"none", "open", "used", "lapsed"}]
        /\ enrolled \in [Enrollments -> Nat]
    BY <1>2 DEF IInv, Types
  <2>1. CASE UNCHANGED <<enrollment, enrolled>>
    BY <2>1 DEF Enrolling!vars
  <2>2. ASSUME NEW r \in Requests, IssueEnrollment(r)
        PROVE  Enrolling!Next
    <3>1. PICK e \in Enrollments :
            enrollment[e] = "none" /\ enrollment' = [enrollment EXCEPT ![e] = "open"]
      BY <2>2 DEF IssueEnrollment
    <3>2. UNCHANGED enrolled /\ enrolled[e] = 0
      BY <1>2, <2>2, <3>1 DEF IssueEnrollment, IInv, EnrollInv
    <3>3. open' = open \union {e} /\ spent' = spent /\ e \notin open \union spent
      BY <2>0, <3>1
    <3>4. Enrolling!Issue(e)
      BY <3>2, <3>3 DEF Enrolling!Issue
    <3> QED BY <3>4 DEF Enrolling!Next
  <2>3. ASSUME NEW r \in Requests, RedeemEnrollment(r), ~UNCHANGED <<enrollment, enrolled>>
        PROVE  Enrolling!Next
    <3>1. PICK e \in Enrollments :
            enrollment[e] = "open" /\ enrollment' = [enrollment EXCEPT ![e] = "used"]
      BY <1>2, <2>3 DEF RedeemEnrollment, IInv, Jobs, Fits
    <3>2. UNCHANGED enrolled
      BY <2>3 DEF RedeemEnrollment
    <3>3. open' = open \ {e} /\ spent' = spent \union {e} /\ e \in open
      BY <2>0, <3>1
    <3>4. Enrolling!Redeem(e)
      BY <3>2, <3>3 DEF Enrolling!Redeem
    <3> QED BY <3>4 DEF Enrolling!Next
  <2>4. ASSUME NEW r \in Requests, InsertDevice(r)
        PROVE  Enrolling!Next
    <3>1. PICK e \in Enrollments : e = job[r].enrollment
      BY <1>2, <2>4 DEF InsertDevice, IInv, Jobs, Fits
    <3>2. e \in spent /\ enrolled[e] = 0
      BY <1>2, <2>4, <3>1 DEF InsertDevice, IInv, EnrollInv
    <3>3. enrolled' = [enrolled EXCEPT ![e] = 1] /\ UNCHANGED enrollment
      BY <2>4, <3>1, <3>2 DEF InsertDevice
    <3>4. Enrolling!Answer(e)
      BY <3>2, <3>3 DEF Enrolling!Answer
    <3> QED BY <3>4 DEF Enrolling!Next
  <2>5. ASSUME NEW e \in Enrollments, LapseEnrollment(e), UNCHANGED enrolled
        PROVE  Enrolling!Next
    <3>1. open' = open \ {e} /\ spent' = spent
      BY <2>0, <2>5 DEF LapseEnrollment
    <3>2. Enrolling!Discard({e})
      BY <2>5, <3>1 DEF Enrolling!Discard
    <3> QED BY <3>2 DEF Enrolling!Next
  <2> QED BY <1>2, <2>1, <2>2, <2>3, <2>4, <2>5, Writers, StillWriters DEF Next
<1> QED BY <1>1, <1>2, Inductive, PTL DEF Spec, EnrollsOnce, Enrolling!Spec

\* token_device_code: tokens are minted once for a device code, however many
\* polls find it approved, and never once it was denied or deleted.
THEOREM DeviceCodesAreSingleUse == Spec => CodesOnce
<1> DEFINE open  == {c \in Codes : code[c].state \in {"pending", "approved"}}
           spent == {c \in Codes : code[c].state = "used"}
<1>1. Init => Codeword!Init
  BY DEF Init, Codeword!Init
<1>2. ASSUME IInv, [Next]_vars
      PROVE  [Codeword!Next]_(Codeword!vars)
  <2>0. code \in [Codes -> Code] /\ minted \in [Codes -> Nat]
    BY <1>2 DEF IInv, Types
  <2>1. CASE UNCHANGED <<code, minted>>
    BY <2>1 DEF Codeword!vars
  <2>2. ASSUME NEW r \in Requests, StartFlow(r)
        PROVE  Codeword!Next
    <3>1. PICK c \in Codes :
            code[c].state = "none" /\ code' = [code EXCEPT ![c].state = "pending"]
      BY <2>2 DEF StartFlow
    <3>2. UNCHANGED minted /\ minted[c] = 0
      BY <1>2, <2>2, <3>1 DEF StartFlow, IInv, CodeInv
    <3>3. /\ code'[c].state = "pending"
          /\ \A d \in Codes \ {c} : code'[d] = code[d]
      BY <2>0, <3>1 DEF Code
    <3>4. open' = open \union {c} /\ spent' = spent /\ c \notin open \union spent
      BY <3>1, <3>3
    <3>5. Codeword!Issue(c)
      BY <3>2, <3>4 DEF Codeword!Issue
    <3> QED BY <3>5 DEF Codeword!Next
  <2>3. ASSUME NEW r \in Requests, RecordDecision(r), ~UNCHANGED <<code, minted>>
        PROVE  [Codeword!Next]_(Codeword!vars)
    <3>1. PICK c \in Codes :
            /\ code[c].state = "pending"
            /\ \/ \E u \in Users : code' = [code EXCEPT ![c].state = "approved", ![c].user = u]
               \/ code' = [code EXCEPT ![c].state = "denied", ![c].user = None]
      BY <1>2, <2>3 DEF RecordDecision, IInv, Jobs, Fits
    <3>2. UNCHANGED minted
      BY <2>3 DEF RecordDecision
    <3>3. \A d \in Codes \ {c} : code'[d] = code[d]
      BY <2>0, <3>1
    <3>4. CASE code'[c].state = "approved"
      <4>1. open' = open /\ spent' = spent
        BY <3>1, <3>3, <3>4
      <4> QED BY <3>2, <4>1 DEF Codeword!vars
    <3>5. CASE code'[c].state = "denied"
      <4>1. open' = open \ {c} /\ spent' = spent
        BY <3>1, <3>3, <3>5
      <4>2. Codeword!Discard({c})
        BY <3>2, <4>1 DEF Codeword!Discard
      <4> QED BY <4>2 DEF Codeword!Next
    <3>6. code'[c].state \in {"approved", "denied"}
      BY <2>0, <3>1 DEF Code
    <3> QED BY <3>4, <3>5, <3>6
  <2>4. ASSUME NEW r \in Requests, ConsumeCode(r), ~UNCHANGED <<code, minted>>
        PROVE  Codeword!Next
    <3>1. PICK c \in Codes :
            code[c].state = "approved" /\ code' = [code EXCEPT ![c].state = "used"]
      BY <1>2, <2>4 DEF ConsumeCode, IInv, Jobs, Fits
    <3>2. UNCHANGED minted
      BY <2>4 DEF ConsumeCode
    <3>3. /\ code'[c].state = "used"
          /\ \A d \in Codes \ {c} : code'[d] = code[d]
      BY <2>0, <3>1 DEF Code
    <3>4. open' = open \ {c} /\ spent' = spent \union {c} /\ c \in open
      BY <3>1, <3>3
    <3>5. Codeword!Redeem(c)
      BY <3>2, <3>4 DEF Codeword!Redeem
    <3> QED BY <3>5 DEF Codeword!Next
  <2>5. ASSUME NEW r \in Requests, DeleteApplication(r)
        PROVE  Codeword!Next
    <3>1. /\ UNCHANGED minted
          /\ code' = [c \in Codes |->
               IF code[c].state \in {"pending", "approved", "denied"}
                 THEN [code[c] EXCEPT !.state = "deleted"] ELSE code[c]]
      BY <2>5 DEF DeleteApplication
    <3>2. \A c \in Codes : code'[c].state =
            IF code[c].state \in {"pending", "approved", "denied"}
              THEN "deleted" ELSE code[c].state
      BY <2>0, <3>1 DEF Code
    <3>3. \E S \in SUBSET Codes : S = open
      OBVIOUS
    <3>4. PICK S \in SUBSET Codes : S = open
      BY <3>3
    <3>5. open' = open \ S /\ spent' = spent
      BY <3>2, <3>4
    <3>6. Codeword!Discard(S)
      BY <3>1, <3>5 DEF Codeword!Discard
    <3> QED BY <3>4, <3>6 DEF Codeword!Next
  <2>6. ASSUME NEW r \in Requests, RecordToken(r), ~UNCHANGED <<code, minted>>
        PROVE  Codeword!Next
    <3>1. UNCHANGED code /\ job[r].code # None /\ pc[r] = "record"
      BY <2>6 DEF RecordToken
    <3>2. PICK c \in Codes : c = job[r].code /\ Holds(r)
      BY <1>2, <3>1 DEF IInv, Jobs, Fits, Holds
    <3>3. c \in spent /\ minted[c] = 0
      BY <1>2, <3>2 DEF IInv, CodeInv
    <3>4. minted' = [minted EXCEPT ![c] = 1]
      BY <2>6, <3>1, <3>2, <3>3 DEF RecordToken
    <3>5. Codeword!Answer(c)
      BY <3>1, <3>3, <3>4 DEF Codeword!Answer
    <3> QED BY <3>5 DEF Codeword!Next
  <2>7. ASSUME NEW c \in Codes, LapseCode(c), UNCHANGED minted
        PROVE  UNCHANGED Codeword!vars
    <3>1. \A d \in Codes : code'[d].state = code[d].state
      BY <2>0, <2>7 DEF LapseCode, Code
    <3>2. open' = open /\ spent' = spent
      BY <3>1
    <3> QED BY <2>7, <3>2 DEF Codeword!vars
  <2> QED BY <1>2, <2>1, <2>2, <2>3, <2>4, <2>5, <2>6, <2>7, CodeSteps
<1> QED BY <1>1, <1>2, Inductive, PTL DEF Spec, CodesOnce, Codeword!Spec

\* enroll_device and token_device_code implement the abstract single-use
\* secret, each for its own tokens.
THEOREM MachineSecretsAreSingleUse == Spec => ImplementsOneTime
BY EnrollmentIsSingleUse, DeviceCodesAreSingleUse DEF ImplementsOneTime
=============================================================================
