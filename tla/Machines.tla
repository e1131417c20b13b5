------------------------------ MODULE Machines ------------------------------
(***************************************************************************)
(* Machine identities, machine/mod.rs: service accounts and devices, their *)
(* credentials, device enrollment, and the client credentials grant.       *)
(***************************************************************************)
EXTENDS SigningKeys

\* create_service_account: the account and its credential, one transaction
CreateServiceAccount(r) ==
  /\ Single(r, "create")
  /\ \E a \in ServiceAccounts, c \in FreshCreds :
       /\ status[a] = "none"
       /\ status' = [status EXCEPT ![a] = "active"]
       /\ cred' = WithNew(cred, c, a)
  /\ UNCHANGED <<keys, tokens, crossed, enrollment, enrolled, apps>>

\* Another rotation of the account is between its UPDATE and its commit.
Overlapping(r) ==
  \E q \in Requests \ {r} : pc[q] = "replace" /\ job[q].actor = job[r].actor

Unrevoked(a) == {c \in Owned(a) : cred[c].state \in {"live", "expired"}}

\* rotate_service_account_credential: the account exists
AcceptRotate(r) ==
  \E a \in ServiceAccounts :
    /\ status[a] \in {"active", "suspended"}
    /\ Arrive(r, "capture", [Input("rotate") EXCEPT !.actor = a])

\* Mutant: the credential in use is not revoked.
CaptureCredentials_None(r) ==
  /\ pc[r] = "capture"
  /\ Goto(r, "replace")
  /\ crossed' = IF Overlapping(r) THEN crossed \union {job[r].actor} ELSE crossed
  /\ UNCHANGED <<keys, tokens, status, cred, enrollment, enrolled, apps>>

\* The rows its UPDATE sees: when it waits for the row locks of another
\* rotation, it still does not see the credential which that one inserts.
CaptureCredentials(r) ==
  /\ pc[r] = "capture"
  /\ Continue(r, "replace", [job[r] EXCEPT !.seen = Unrevoked(job[r].actor)])
  /\ crossed' = IF Overlapping(r) THEN crossed \union {job[r].actor} ELSE crossed
  /\ UNCHANGED <<keys, tokens, status, cred, enrollment, enrolled, apps>>

\* Commit of the revocation and the new credential; without the account the
\* insert violates its foreign key and the transaction is rolled back.
ReplaceCredential(r) ==
  /\ pc[r] = "replace"
  /\ \/ /\ status[job[r].actor] \in {"active", "suspended"}
        /\ \E c \in FreshCreds : cred' = WithNew(Revoked(job[r].seen), c, job[r].actor)
     \/ /\ status[job[r].actor] = "gone"
        /\ UNCHANGED cred
  /\ crossed' = IF Overlapping(r) \/ ~(Unrevoked(job[r].actor) \subseteq job[r].seen)
                  THEN crossed ELSE crossed \ {job[r].actor}
  /\ Goto(r, "idle")
  /\ UNCHANGED <<keys, tokens, status, enrollment, enrolled, apps>>

\* set_sa_status of suspend_service_account and unsuspend_service_account
SetStatus(r) ==
  /\ Single(r, "suspend")
  /\ \E a \in ServiceAccounts :
       /\ status[a] \in {"active", "suspended"}
       /\ status' = [status EXCEPT ![a] = IF @ = "active" THEN "suspended" ELSE "active"]
  /\ UNCHANGED <<keys, tokens, cred, crossed, enrollment, enrolled, apps>>

\* delete_service_account; the credentials go with the row
DeleteServiceAccount(r) ==
  /\ Single(r, "delete")
  /\ \E a \in ServiceAccounts :
       /\ status[a] \in {"active", "suspended"}
       /\ status' = [status EXCEPT ![a] = "gone"]
       /\ cred' = Revoked(Owned(a))
  /\ UNCHANGED <<keys, tokens, crossed, enrollment, enrolled, apps>>

\* create_enrollment_token
IssueEnrollment(r) ==
  /\ Single(r, "issue")
  /\ \E e \in Enrollments :
       /\ enrollment[e] = "none"
       /\ enrollment' = [enrollment EXCEPT ![e] = "open"]
  /\ UNCHANGED <<keys, tokens, status, cred, crossed, enrolled, apps>>

\* enroll_device: the token is found and was not used, ...
AcceptEnroll(r) ==
  \E e \in Enrollments :
    /\ enrollment[e] \in {"open", "lapsed"}
    /\ Arrive(r, "redeem", [Input("enroll") EXCEPT !.enrollment = e])

\* Mutant: the statement relies on what was read before.
RedeemEnrollment_Unguarded(r) ==
  /\ pc[r] = "redeem"
  /\ enrollment' = [enrollment EXCEPT ![job[r].enrollment] = "used"]
  /\ Goto(r, "device")
  /\ UNCHANGED <<keys, tokens, status, cred, crossed, enrolled, apps>>

\* ... is consumed if it is still unused and in time ...
RedeemEnrollment(r) ==
  /\ pc[r] = "redeem"
  /\ \/ /\ enrollment[job[r].enrollment] = "open"
        /\ enrollment' = [enrollment EXCEPT ![job[r].enrollment] = "used"]
        /\ Goto(r, "device")
     \/ /\ enrollment[job[r].enrollment] # "open"
        /\ UNCHANGED enrollment
        /\ Goto(r, "idle")
  /\ UNCHANGED <<keys, tokens, status, cred, crossed, enrolled, apps>>

\* ... and the device is inserted with its credential.
InsertDevice(r) ==
  /\ pc[r] = "device"
  /\ \E d \in Devices, c \in FreshCreds :
       /\ status[d] = "none"
       /\ status' = [status EXCEPT ![d] = "active"]
       /\ cred' = WithNew(cred, c, d)
  /\ enrolled' = [enrolled EXCEPT ![job[r].enrollment] = @ + 1]
  /\ Goto(r, "idle")
  /\ UNCHANGED <<keys, tokens, crossed, enrollment, apps>>

\* Mutant: a new credential brings a revoked device back.
RotateDevice_Revives(r) ==
  /\ Single(r, "overwrite")
  /\ \E d \in Devices, c \in FreshCreds :
       /\ status[d] # "none"
       /\ status' = [status EXCEPT ![d] = "active"]
       /\ cred' = WithNew(Revoked(Owned(d)), c, d)
  /\ UNCHANGED <<keys, tokens, crossed, enrollment, enrolled, apps>>

\* rotate_device_credential: the columns are overwritten, also those of a
\* revoked device, whose status stays.  Rows of devices are never deleted.
RotateDevice(r) ==
  /\ Single(r, "overwrite")
  /\ \E d \in Devices, c \in FreshCreds :
       /\ status[d] # "none"
       /\ cred' = WithNew(Revoked(Owned(d)), c, d)
  /\ UNCHANGED <<keys, tokens, status, crossed, enrollment, enrolled, apps>>

\* revoke_device
RevokeDevice(r) ==
  /\ Single(r, "revoke")
  /\ \E d \in Devices :
       /\ IsActive(d)
       /\ status' = [status EXCEPT ![d] = "gone"]
  /\ UNCHANGED <<keys, tokens, cred, crossed, enrollment, enrolled, apps>>

\* Mutant: revoked_at and the expiry are not looked at.
AcceptMachine_AnyCredential(r) ==
  \E c \in Creds :
    /\ cred[c].owner # None /\ IsActive(cred[c].owner)
    /\ Arrive(r, "ensure", [Input("machine") EXCEPT !.actor = cred[c].owner, !.cred = c])

\* token_client_credentials: authenticate_machine reads the credential with
\* its owner in one statement; a token is minted next.
AcceptMachine(r) ==
  \E c \in Creds :
    /\ cred[c].state = "live" /\ IsActive(cred[c].owner)
    /\ Arrive(r, "ensure", [Input("machine") EXCEPT !.actor = cred[c].owner, !.cred = c])

\* expires_at of credentials and of enrollment tokens
LapseCredential(c) ==
  /\ "expire" \in mix.kinds
  /\ cred[c].state = "live"
  /\ cred' = [cred EXCEPT ![c].state = "expired", ![c].ended = now]
  /\ UNCHANGED <<mix, keys, tokens, status, crossed, enrollment, enrolled, apps, pc, job>>

LapseEnrollment(e) ==
  /\ enrollment[e] = "open"
  /\ enrollment' = [enrollment EXCEPT ![e] = "lapsed"]
  /\ UNCHANGED <<mix, keys, tokens, status, cred, crossed, enrolled, apps, pc, job>>
=============================================================================
