----------------------------- MODULE DeviceFlow -----------------------------
(***************************************************************************)
(* An application (oidc/mod.rs): its secret and its deletion; and the      *)
(* device authorization grant through it (oidc/device.rs).                 *)
(***************************************************************************)
EXTENDS SigningKeys

\* create_application, of a confidential client
CreateApplication(r) ==
  /\ Single(r, "app")
  /\ client.state = "none"
  /\ client' = [client EXCEPT !.state = "live", !.secret = 1]
  /\ UNCHANGED <<keys, tokens, machines, dropped, code, minted>>

\* rotate_client_secret: the row is read before the transaction
AcceptSecret(r) ==
  /\ client.state = "live"
  /\ Arrive(r, "secret", [Input("secret") EXCEPT !.old = client.secret])

\* Mutant: the old secret is not archived.
ReplaceSecret_Forgotten(r) ==
  /\ pc[r] = "secret"
  /\ client.secret < MaxSecret
  /\ client' = IF client.state = "live" THEN [client EXCEPT !.secret = @ + 1] ELSE client
  /\ dropped' = IF client.state = "live" /\ job[r].old # client.secret
                  THEN dropped \union {client.secret} ELSE dropped
  /\ Goto(r, "idle")
  /\ UNCHANGED <<keys, tokens, machines, code, minted>>

\* The secret that was read is archived and the stored one replaced; without
\* the client the first insert fails.
ReplaceSecret(r) ==
  /\ pc[r] = "secret"
  /\ \/ /\ client.state = "live" /\ client.secret < MaxSecret
        /\ client' = [client EXCEPT !.secret = @ + 1,
                                    !.archived = @ \union {job[r].old}]
        /\ dropped' = IF job[r].old = client.secret THEN dropped
                      ELSE dropped \union {client.secret}
     \/ client.state = "deleted" /\ UNCHANGED <<client, dropped>>
  /\ Goto(r, "idle")
  /\ UNCHANGED <<keys, tokens, machines, code, minted>>

\* Mutant: the device codes stay.
DeleteApplication_Alone(r) ==
  /\ Single(r, "drop")
  /\ client.state = "live"
  /\ client' = [client EXCEPT !.state = "deleted", !.archived = {}]
  /\ UNCHANGED <<keys, tokens, machines, dropped, code, minted>>

\* delete_application: archived secrets and device codes go with the row,
\* access_token_records stay.  A used code is as good as deleted.
DeleteApplication(r) ==
  /\ Single(r, "drop")
  /\ client.state = "live"
  /\ client' = [client EXCEPT !.state = "deleted", !.archived = {}]
  /\ code' = [c \in Codes |->
       IF code[c].state \in {"pending", "approved", "denied"}
         THEN [code[c] EXCEPT !.state = "deleted"] ELSE code[c]]
  /\ UNCHANGED <<keys, tokens, machines, dropped, minted>>

----------------------------------------------------------------------------

\* device_authorization, by the authenticated client
StartFlow(r) ==
  /\ Single(r, "start")
  /\ client.state = "live"
  /\ \E c \in Codes :
       /\ code[c].state = "none"
       /\ code' = [code EXCEPT ![c].state = "pending"]
  /\ UNCHANGED <<keys, tokens, machines, client, dropped, minted>>

\* device_approve: load_pending, by an active member of the organization
AcceptDecide(r) ==
  \E c \in Codes, u \in Users :
    /\ code[c].state = "pending" /\ ~code[c].lapsed
    /\ IsActive(u)
    /\ Arrive(r, "decide", [Input("decide") EXCEPT !.code = c, !.actor = u])

\* Mutant: the decision is stored whatever has happened since it was loaded.
RecordDecision_Unguarded(r) ==
  /\ pc[r] = "decide"
  /\ LET c == job[r].code IN
     code' = [code EXCEPT ![c].state = "approved", ![c].user = job[r].actor]
  /\ Goto(r, "idle")
  /\ UNCHANGED <<keys, tokens, machines, client, dropped, minted>>

\* The UPDATE finds it pending and in time, and approves or denies.
RecordDecision(r) ==
  /\ pc[r] = "decide"
  /\ LET c == job[r].code IN
     \/ /\ code[c].state = "pending" /\ ~code[c].lapsed
        /\ \/ code' = [code EXCEPT ![c].state = "approved", ![c].user = job[r].actor]
           \/ code' = [code EXCEPT ![c].state = "denied", ![c].user = None]
     \/ /\ code[c].state # "pending" \/ code[c].lapsed
        /\ UNCHANGED code
  /\ Goto(r, "idle")
  /\ UNCHANGED <<keys, tokens, machines, client, dropped, minted>>

\* token_device_code: the client authenticates, ...
AcceptPoll(r) ==
  \E c \in Codes :
    /\ client.state = "live"
    /\ code[c].state # "none"
    /\ Arrive(r, "code", [Input("poll") EXCEPT !.code = c])

\* ... the row is read: only an approved one in time leads on (every other
\* answer is an error; last_polled_at only tells two of them apart), ...
ReadCode(r) ==
  /\ pc[r] = "code"
  /\ LET c == code[job[r].code] IN
     IF c.state = "approved" /\ ~c.lapsed
       THEN Continue(r, "consume", [job[r] EXCEPT !.actor = c.user])
       ELSE Goto(r, "idle")
  /\ UNCHANGED data

\* Mutant: the statement relies on what was read before.
ConsumeCode_Unguarded(r) ==
  /\ pc[r] = "consume"
  /\ code' = [code EXCEPT ![job[r].code].state = "used"]
  /\ Goto(r, "member")
  /\ UNCHANGED <<keys, tokens, machines, client, dropped, minted>>

\* ... consumed if it is still approved, ...
ConsumeCode(r) ==
  /\ pc[r] = "consume"
  /\ \/ /\ code[job[r].code].state = "approved"
        /\ code' = [code EXCEPT ![job[r].code].state = "used"]
        /\ Goto(r, "member")
     \/ /\ code[job[r].code].state # "approved"
        /\ UNCHANGED code
        /\ Goto(r, "idle")
  /\ UNCHANGED <<keys, tokens, machines, client, dropped, minted>>

\* ... and minted for if the user who was read is still an active member.
CheckMember(r) ==
  /\ pc[r] = "member"
  /\ Goto(r, IF IsActive(job[r].actor) THEN "ensure" ELSE "idle")
  /\ UNCHANGED data

\* expires_at of a device code
LapseCode(c) ==
  /\ code[c].state \in {"pending", "approved"} /\ ~code[c].lapsed
  /\ code' = [code EXCEPT ![c].lapsed = TRUE]
  /\ UNCHANGED <<mix, keys, tokens, machines, client, dropped, minted, pc, job>>

\* Members of the organization are suspended and restored (Tenancy).
SetMembership(u) ==
  /\ "member" \in mix.kinds
  /\ status' = [status EXCEPT ![u] = IF @ = "active" THEN "suspended" ELSE "active"]
  /\ UNCHANGED <<mix, keys, tokens, cred, crossed, enrollment, enrolled, apps, pc, job>>
=============================================================================
