------------------------------ MODULE Platform ------------------------------
(***************************************************************************)
(* Machines and device codes obtain access tokens, which are signed with   *)
(* rotating keys and validated: the composition of the three handler       *)
(* modules over the tables of PlatformStore.                               *)
(***************************************************************************)
EXTENDS Machines, DeviceFlow

\* A request is dropped between two statements.
Fail(r) ==
  /\ pc[r] # "idle"
  /\ Goto(r, "idle")
  /\ UNCHANGED data

Accept(r) ==
  \/ AcceptBoot(r) \/ RetireKeys(r) \/ AcceptValidate(r)
  \/ CreateServiceAccount(r) \/ AcceptRotate(r) \/ SetStatus(r) \/ DeleteServiceAccount(r)
  \/ IssueEnrollment(r) \/ AcceptEnroll(r) \/ RotateDevice(r) \/ RevokeDevice(r)
  \/ AcceptMachine(r)
  \/ CreateApplication(r) \/ AcceptSecret(r) \/ DeleteApplication(r)
  \/ StartFlow(r) \/ AcceptDecide(r) \/ AcceptPoll(r)

Serve(r) ==
  \/ EnsureKey(r) \/ GenerateKey(r) \/ RecordToken(r) \/ VerifyToken(r) \/ CheckActor(r)
  \/ CaptureCredentials(r) \/ ReplaceCredential(r) \/ RedeemEnrollment(r) \/ InsertDevice(r)
  \/ ReplaceSecret(r) \/ RecordDecision(r) \/ ReadCode(r) \/ ConsumeCode(r) \/ CheckMember(r)

Next ==
  \/ \E r \in Requests : Accept(r) \/ Serve(r) \/ Fail(r)
  \/ Tick
  \/ \E c \in Creds : LapseCredential(c)
  \/ \E e \in Enrollments : LapseEnrollment(e)
  \/ \E c \in Codes : LapseCode(c)
  \/ \E u \in Users : SetMembership(u)

Spec == Init /\ [][Next]_vars

----------------------------------------------------------------------------
(* Properties                                                              *)

\* Every variable has its type.
TypeOK ==
  /\ mix \in Mixes
  /\ now \in 0..MaxTime /\ key \in [Keys -> Key] /\ forked \in BOOLEAN
  /\ token \in [Tokens -> Token] /\ served \subseteq Tokens
  /\ status \in [Actors -> {"none", "active", "suspended", "gone"}]
  /\ cred \in [Creds -> Cred] /\ crossed \subseteq ServiceAccounts
  /\ enrollment \in [Enrollments -> {"none", "open", "used", "lapsed"}]
  /\ enrolled \in [Enrollments -> 0..MaxAnswers]
  /\ client \in Client /\ dropped \subseteq 1..MaxSecret
  /\ code \in [Codes -> Code] /\ minted \in [Codes -> 0..MaxAnswers]
  /\ pc \in [Requests -> Stages]
  /\ \A r \in Requests : IF pc[r] = "idle" THEN job[r] = None ELSE job[r] \in Job

\* A key rotation makes no token unverifiable before its time, also when the
\* request that signed it had read the key before the rotation.
KeyOutlivesTokens ==
  \A t \in Tokens : Recorded(t) /\ now < token[t].exp => token[t].key \in Verification

\* One key signs, unless requests that found none (at first boot, or in the
\* gap of a rotation) generated keys at the same time; the next rotation
\* retires them all.
OneActiveKey == Cardinality(Active) <= 1 \/ forked

\* A credential that was rotated, has expired or went with its account is
\* soon of no use: every token obtained with it expires within the time of a
\* token and of a request that had authenticated before.
OldCredentialsFade ==
  \A t \in Tokens : Recorded(t) /\ token[t].cred # None =>
    LET c == cred[token[t].cred] IN
    c.state # "live" => token[t].exp <= c.ended + Latency + Ttl

\* "The old credential is revoked immediately": a service account has one
\* credential that works, unless two rotations overlapped, until the next one
\* that is alone; a device always.
OneLiveCredential ==
  \A a \in Devices \union (ServiceAccounts \ crossed) :
    Cardinality({c \in Owned(a) : cred[c].state = "live"}) <= 1

\* A revoked device and a deleted service account never come back, and no
\* validation that looks at one then accepts a token of it.
GoneStaysGone ==
  [][\A a \in Actors : status[a] = "gone" =>
       /\ status'[a] = "gone"
       /\ \A t \in served' \ served : token[t].actor # a]_vars

\* An enrollment token enrolls one device, however many requests present it.
Enrolling == INSTANCE OneTimeTokens
               WITH Ids <- Enrollments, answers <- enrolled,
                    open <- {e \in Enrollments : enrollment[e] = "open"},
                    spent <- {e \in Enrollments : enrollment[e] = "used"}
EnrollsOnce == Enrolling!Spec

\* Tokens are minted once for a device code, however many polls find it
\* approved; never once it was denied or deleted.
Codeword == INSTANCE OneTimeTokens
              WITH Ids <- Codes, answers <- minted,
                   open <- {c \in Codes : code[c].state \in {"pending", "approved"}},
                   spent <- {c \in Codes : code[c].state = "used"}
CodesOnce == Codeword!Spec

\* Refinement: enrollment tokens and device codes are single-use secrets.
ImplementsOneTime == EnrollsOnce /\ CodesOnce

\* What is minted for a device code is for the user whose approval the row
\* records, however decisions and polls interleave.
MintedForApprover ==
  \A t \in Tokens : Recorded(t) /\ token[t].code # None =>
    code[token[t].code].state = "used" /\ code[token[t].code].user = token[t].actor

\* No device code is consumed once its application is deleted, not even by a
\* poll that was authenticated and had read it before.
ConsumedBeforeDeletion ==
  [][client.state = "deleted" =>
       \A c \in Codes : code'[c].state = "used" => code[c].state = "used"]_vars

\* Every secret that an application has had is archived once replaced,
\* unless the rotation that replaced it had read an earlier one.
ReplacedSecretsArchived ==
  client.state = "live" =>
    \A s \in 1..(client.secret - 1) : s \in client.archived \union dropped
=============================================================================
