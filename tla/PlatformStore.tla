---------------------------- MODULE PlatformStore ----------------------------
(***************************************************************************)
(* The tables that the handlers for machines, applications and access      *)
(* tokens share, and the slots in which requests run.  The handlers are in *)
(* SigningKeys, Machines and DeviceFlow; Platform composes them.           *)
(*                                                                         *)
(* As in Accounts a step is an SQL statement or a transaction.  A handler  *)
(* that only authorizes its caller (see Tenancy) and then runs a single    *)
(* statement is one step.                                                  *)
(***************************************************************************)
EXTENDS Naturals, FiniteSets

CONSTANTS
  Requests,         \* slots for concurrent requests
  Users, ServiceAccounts, Devices,
  Creds,            \* ids of client credentials of machines
  Enrollments,      \* ids of device_enrollment_tokens
  Codes,            \* ids of device_authorizations
  Tokens,           \* ids of access_token_records
  Keys,             \* ids of oidc_signing_keys, in the order of created_at
  MaxTime,          \* the clock stops here
  Ttl,              \* config.access_token_ttl
  Grace,            \* KEY_GRACE_HOURS
  Latency,          \* longest time a request runs
  MaxSecret,        \* secrets of the application
  Mixes,            \* what a behaviour starts with and which requests arrive
  None

Actors == Users \union ServiceAccounts \union Devices

AllKinds ==
  {"rotatekey", "boot", "validate", "tick", "create", "rotate", "suspend", "delete",
   "issue", "enroll", "overwrite", "revoke", "machine", "expire",
   "app", "secret", "drop", "start", "decide", "poll", "member"}

\* What a behaviour starts with: a signing key (booted), an application,
\* machines (holder, of a credential each); the ids it may use, and
\* how many requests run at a time.
Mix == {m \in [kinds : SUBSET AllKinds, booted : BOOLEAN, app : BOOLEAN,
                holder : [Creds -> Actors \union {None}], tokens : SUBSET Tokens,
                creds : SUBSET Creds, slots : 1..Cardinality(Requests)] :
          \A c, d \in Creds : m.holder[c] = m.holder[d] => c = d \/ m.holder[c] = None}

ASSUME StoreAssumption ==
  /\ MaxTime \in Nat /\ Ttl \in Nat \ {0} /\ Latency \in Nat /\ MaxSecret \in Nat \ {0}
  /\ Keys \subseteq Nat \ {0} /\ Creds \subseteq Nat /\ Tokens \subseteq Nat
  /\ Mixes \subseteq Mix
  /\ None \notin Actors \union Creds \union Enrollments \union Codes \union Tokens
  /\ Users \intersect (ServiceAccounts \union Devices) = {}
  /\ ServiceAccounts \intersect Devices = {}
\* A key verifies for as long as a token lives that was signed with it by a
\* request that had read the key before it was retired: 15 minutes and the
\* duration of a request against 24 hours.
ASSUME GraceAssumption == Grace \in Nat /\ Latency + Ttl <= Grace

VARIABLES
  mix,         \* the behaviour's mix, which never changes
  now,         \* the clock
  key,         \* oidc_signing_keys: state, and when retired
  forked,      \* two requests have generated a key at the same time
  token,       \* access_token_records, with the key that signed the token
  served,      \* tokens a validation accepted
  status,      \* of members, service accounts and devices
  cred,        \* service_account_credentials and the credential of a device
  crossed,     \* service accounts whose credential rotations overlapped
  enrollment,  \* device_enrollment_tokens
  enrolled,    \* devices enrolled with a token
  client,      \* the row of oidc_clients and its archived secrets
  dropped,     \* secrets that a rotation replaced without having read them
  code,        \* device_authorizations
  minted,      \* access tokens minted for a device code
  pc, job      \* next statement and input of a request

keys     == <<now, key, forked>>
tokens   == <<token, served>>
machines == <<status, cred, crossed, enrollment, enrolled>>
apps     == <<client, dropped, code, minted>>
data     == <<keys, tokens, machines, apps>>
vars     == <<mix, data, pc, job>>

----------------------------------------------------------------------------

MaxAnswers == 2

Key    == [state : {"none", "active", "retired"}, at : 0..MaxTime]
Token  == [actor : Actors \union {None}, cred : Creds \union {None},
           code : Codes \union {None}, key : Keys \union {0}, exp : 0..(MaxTime + Ttl)]
Cred   == [owner : Actors \union {None}, state : {"none", "live", "expired", "revoked"},
           ended : 0..MaxTime]
Client == [state : {"none", "live", "deleted"}, secret : 0..MaxSecret,
           archived : SUBSET (1..MaxSecret)]
Code   == [state : {"none", "pending", "approved", "denied", "used", "deleted"},
           user : Users \union {None}, lapsed : BOOLEAN]
Job    == [kind : AllKinds, actor : Actors \union {None}, cred : Creds \union {None},
           code : Codes \union {None}, token : Tokens \union {None},
           enrollment : Enrollments \union {None}, key : Keys \union {0},
           seen : SUBSET Creds, old : 0..MaxSecret, since : 0..MaxTime]
Stages == {"idle", "ensure", "generate", "record", "verify", "actor", "redeem", "device",
           "capture", "replace", "secret", "decide", "code", "consume", "member"}

NoToken == [actor |-> None, cred |-> None, code |-> None, key |-> 0, exp |-> 0]

Recorded(t) == token[t].actor # None
\* Ids are handed out in their order.
FreshTokens == {t \in mix.tokens : ~Recorded(t) /\ \A s \in mix.tokens : s < t => Recorded(s)}
FreshCreds  == {c \in mix.creds : /\ cred[c].state = "none"
                                  /\ \A b \in Creds : b < c => cred[b].state # "none"}
IsActive(a) == status[a] = "active"
Owned(a)    == {c \in Creds : cred[c].owner = a}

Input(k) == [kind |-> k, actor |-> None, cred |-> None, code |-> None, token |-> None,
             enrollment |-> None, key |-> 0, seen |-> {}, old |-> 0, since |-> now]

\* The next statement of a request and what it now holds; its slot is free
\* once it is answered.
Continue(r, to, holds) ==
  /\ pc' = [pc EXCEPT ![r] = to]
  /\ job' = [job EXCEPT ![r] = IF to = "idle" THEN None ELSE holds]
  /\ UNCHANGED mix
Goto(r, to) == Continue(r, to, job[r])

\* A request of a kind the mix has finds a free slot.
Begin(r, first, input) ==
  /\ pc[r] = "idle"
  /\ Cardinality({q \in Requests : pc[q] # "idle"}) < mix.slots
  /\ input.kind \in mix.kinds
  /\ Continue(r, first, input)
Arrive(r, first, input) == Begin(r, first, input) /\ UNCHANGED data

\* A handler of one statement.
Single(r, k) == Begin(r, "idle", Input(k))

\* The credentials C end, with their rows or by revoked_at.
Revoked(C) == [c \in Creds |->
  IF c \in C /\ cred[c].state \in {"live", "expired"}
    THEN [cred[c] EXCEPT !.state = "revoked",
                         !.ended = IF cred[c].state = "live" THEN now ELSE @]
    ELSE cred[c]]

\* A new credential of an actor, in the table given.
WithNew(table, c, a) == [table EXCEPT ![c] = [owner |-> a, state |-> "live", ended |-> 0]]

Init ==
  /\ mix \in Mixes
  /\ now = 0 /\ forked = FALSE
  /\ key = [k \in Keys |->
       [state |-> IF mix.booted /\ k = 1 THEN "active" ELSE "none", at |-> 0]]
  /\ token = [t \in Tokens |-> NoToken] /\ served = {}
  /\ cred = [c \in Creds |->
       [owner |-> mix.holder[c], ended |-> 0,
        state |-> IF mix.holder[c] = None THEN "none" ELSE "live"]]
  /\ status = [a \in Actors |->
       IF a \in Users \/ \E c \in Creds : mix.holder[c] = a THEN "active" ELSE "none"]
  /\ crossed = {}
  /\ enrollment = [e \in Enrollments |-> "none"]
  /\ enrolled = [e \in Enrollments |-> 0]
  /\ client = [state |-> IF mix.app THEN "live" ELSE "none",
               secret |-> IF mix.app THEN 1 ELSE 0, archived |-> {}]
  /\ dropped = {}
  /\ code = [c \in Codes |-> [state |-> "none", user |-> None, lapsed |-> FALSE]]
  /\ minted = [c \in Codes |-> 0]
  /\ pc = [r \in Requests |-> "idle"]
  /\ job = [r \in Requests |-> None]
=============================================================================
