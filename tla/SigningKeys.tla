----------------------------- MODULE SigningKeys -----------------------------
(***************************************************************************)
(* Signing keys and the access tokens signed with them: oidc/keys.rs,      *)
(* bin/keys.rs and the minting and validation of oidc/token.rs.            *)
(*                                                                         *)
(* Minting ends the token requests of Machines and DeviceFlow.  A          *)
(* signature is the id of the key that made it; the ID token is signed in  *)
(* the same way and the refresh token is RefreshTokens' matter.            *)
(***************************************************************************)
EXTENDS PlatformStore

Active == {k \in Keys : key[k].state = "active"}

\* Mutant: keys verify only as long as they sign.
Verification_ActiveOnly == Active

\* verification_keys, also the published JWKS
Verification ==
  Active \union {k \in Keys : key[k].state = "retired" /\ now < key[k].at + Grace}

\* What a request wants a key for.
AfterKey(r) ==
  CASE job[r].kind = "validate"               -> "verify"
    [] job[r].kind \in {"boot", "rotatekey"}  -> "idle"
    [] OTHER                                  -> "record"

\* The keys command that only makes sure of a key.
AcceptBoot(r) == Arrive(r, "ensure", Input("boot"))

\* ensure_active_key: active_key is the newest one that is not retired
EnsureKey(r) ==
  /\ pc[r] = "ensure"
  /\ \/ \E k \in Active :
          /\ \A other \in Active : other <= k
          /\ Continue(r, AfterKey(r), [job[r] EXCEPT !.key = k])
     \/ Active = {} /\ Goto(r, "generate")
  /\ UNCHANGED data

\* generate_and_store; requests that have all found no key all generate one
GenerateKey(r) ==
  /\ pc[r] = "generate"
  /\ \E k \in Keys :
       /\ key[k].state = "none"
       /\ \A earlier \in Keys : earlier < k => key[earlier].state # "none"
       /\ key' = [key EXCEPT ![k] = [state |-> "active", at |-> 0]]
       /\ Continue(r, AfterKey(r), [job[r] EXCEPT !.key = k])
  /\ forked' = (forked \/ \E q \in Requests \ {r} : pc[q] = "generate")
  /\ UNCHANGED <<now, tokens, machines, apps>>

\* Mutant: a rotation adds a key and retires none.
RetireKeys_None(r) ==
  /\ Begin(r, "generate", Input("rotatekey"))
  /\ UNCHANGED data

\* rotate_key: retires every active key, and then generates one
RetireKeys(r) ==
  /\ Begin(r, "generate", Input("rotatekey"))
  /\ key' = [k \in Keys |->
       IF k \in Active THEN [state |-> "retired", at |-> now] ELSE key[k]]
  /\ forked' = FALSE
  /\ UNCHANGED <<now, tokens, machines, apps>>

\* Mutant: the lifetime is counted in other units.
RecordToken_Minutes(r) ==
  /\ pc[r] = "record"
  /\ \E t \in FreshTokens :
       token' = [token EXCEPT ![t] =
         [actor |-> job[r].actor, cred |-> job[r].cred, code |-> job[r].code,
          key |-> job[r].key, exp |-> now + 60 * Ttl]]
  /\ Goto(r, "idle")
  /\ UNCHANGED <<keys, served, machines, apps>>

\* mint_access_token: signs and inserts the record; the lifetime counts from
\* the time of signing.
RecordToken(r) ==
  /\ pc[r] = "record"
  /\ \E t \in FreshTokens :
       token' = [token EXCEPT ![t] =
         [actor |-> job[r].actor, cred |-> job[r].cred, code |-> job[r].code,
          key |-> job[r].key, exp |-> now + Ttl]]
  /\ minted' = IF job[r].code = None THEN minted
               ELSE [minted EXCEPT ![job[r].code] = @ + 1]
  /\ Goto(r, "idle")
  /\ UNCHANGED <<keys, served, machines, client, dropped, code>>

\* validate_access_token, as userinfo does: the key is made sure of, ...
AcceptValidate(r) ==
  \E t \in Tokens :
    /\ Recorded(t)
    /\ Arrive(r, "ensure", [Input("validate") EXCEPT !.token = t])

\* ... the signature, lifetime and record are checked, ...
VerifyToken(r) ==
  /\ pc[r] = "verify"
  /\ LET t == token[job[r].token] IN
     Goto(r, IF t.key \in Verification /\ now < t.exp THEN "actor" ELSE "idle")
  /\ UNCHANGED data

\* ... and then that the member, service account or device is active.
CheckActor(r) ==
  /\ pc[r] = "actor"
  /\ served' = IF IsActive(token[job[r].token].actor)
                 THEN served \union {job[r].token} ELSE served
  /\ Goto(r, "idle")
  /\ UNCHANGED <<keys, token, machines, apps>>

\* Time passes, but no request runs for longer than Latency.
Tick ==
  /\ "tick" \in mix.kinds /\ now < MaxTime
  /\ \A r \in Requests : pc[r] # "idle" => now < job[r].since + Latency
  /\ now' = now + 1
  /\ UNCHANGED <<mix, key, forked, tokens, machines, apps, pc, job>>
=============================================================================
