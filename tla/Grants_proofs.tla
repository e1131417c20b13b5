--------------------------- MODULE Grants_proofs ----------------------------
(***************************************************************************)
(* Proofs about Grants, for any numbers of clients, users, scopes, codes   *)
(* and concurrent requests.                                                *)
(*                                                                         *)
(* A code gives tokens once because the guarded UPDATE lets one request    *)
(* through: of the requests past Consume at most one holds a given code,   *)
(* and it has given no response yet (RedeemInv).  Scopes stay within the   *)
(* user's consent because every request past FindCode is its code's        *)
(* client's (BoundInv), and a grant that is not withdrawn has never been   *)
(* withdrawn (StandingInv).  A withdrawal reaches the refresh tokens of    *)
(* the codes that were answered, and a code is not answered again          *)
(* (OutstandingInv): between the snapshot of its UPDATE and its COMMIT it  *)
(* has selected each live family of its grant that is not noted as         *)
(* outstanding, and no other family (ScanInv).                             *)
(***************************************************************************)
EXTENDS Grants, TLAPS

Redeeming == {"read", "write", "mint"}

\* What a request carries at each stage.
JobInv ==
  \A r \in Requests : pc[r] # "idle" =>
    /\ job[r] \in Job
    /\ pc[r] \in {"find", "consume"} \union Redeeming => job[r].kind = "exchange"
    /\ pc[r] \in {"lock", "rotate"} => job[r].kind = "refresh"
    /\ pc[r] \in {"load", "scan", "revoke"} => job[r].kind = "withdraw"
    /\ pc[r] = "covers" => job[r].kind = "authorize"
    /\ pc[r] = "issue" => job[r].kind \in {"authorize", "consent"}
    /\ pc[r] = "member" => job[r].kind \in {"authorize", "consent", "exchange", "refresh"}
    /\ job[r].kind \in {"exchange", "refresh"} => job[r].code \in Issued
    /\ pc[r] \in {"scan", "revoke"} => PairOf(r) \in stored

\* One request at most is between Consume and Mint with a code.
RedeemInv ==
  /\ \A c \in Codes : c \notin used => responses[c] = 0
  /\ \A r \in Requests : pc[r] \in Redeeming =>
       /\ job[r].code \in used
       /\ responses[job[r].code] = 0
       /\ \A q \in Requests \ {r} :
            pc[q] \in Redeeming => job[q].code # job[r].code

\* What the scopes in a request's hands are bounded by.
BoundInv ==
  \A r \in Requests :
    /\ (pc[r] = "issue" \/ (pc[r] = "member" /\ job[r].kind = "consent"))
         => job[r].scopes \subseteq consented[PairOf(r)]
    /\ pc[r] # "idle" /\ pc[r] # "find" /\ job[r].kind = "exchange"
         => CodeOf(r).client = job[r].client
    /\ pc[r] = "write" => seen[r] \subseteq consented[PairOf(r)]

\* What was approved stands as long as the grant was never withdrawn.
StandingInv == \A p \in Pairs : p \notin withdrawn => standing[p] = consented[p]

\* The approval of a code stands, or its withdrawal took the refresh token
\* with it or noted that the code was still to be redeemed.
OutstandingInv ==
  \A c \in Issued :
    \/ codes[c].scopes \subseteq standing[GrantOf(c)]
    \/ c \in outstanding
    \/ responses[c] > 0 /\ c \notin refresh

\* What the UPDATE of a withdrawal has selected; one withdrawal of a grant
\* is between its snapshot and its COMMIT.
ScanInv ==
  \A r \in Requests :
    /\ pc[r] # "revoke" => scanned[r] = {}
    /\ pc[r] = "revoke" =>
         /\ \A c \in scanned[r] : GrantOf(c) = PairOf(r)
         /\ \A c \in refresh : GrantOf(c) = PairOf(r) => c \in scanned[r] \union outstanding
         /\ \A q \in Requests \ {r} : pc[q] = "revoke" => PairOf(q) # PairOf(r)

IInv ==
  /\ TypeOK
  /\ JobInv
  /\ RedeemInv
  /\ BoundInv
  /\ StandingInv
  /\ OutstandingInv
  /\ ScanInv
  /\ WithinConsent
  /\ CodeRedeemedOnce

----------------------------------------------------------------------------

LEMMA InitIInv ==
  ASSUME Init
  PROVE  IInv
<1> USE DEF Init, Issued
<1>1. TypeOK
  BY DEF TypeOK, Stages, MaxResponses, Pairs
<1>2. JobInv /\ RedeemInv /\ BoundInv /\ ScanInv
  BY DEF JobInv, RedeemInv, BoundInv, ScanInv, Redeeming
<1>3. StandingInv /\ OutstandingInv /\ WithinConsent /\ CodeRedeemedOnce
  BY DEF StandingInv, OutstandingInv, GrantOf, WithinConsent, CodeRedeemedOnce
<1> QED BY <1>1, <1>2, <1>3 DEF IInv

\* A request that ends, or is dropped, frees its slot.
LEMMA EndIInv ==
  ASSUME IInv, NEW r \in Requests,
         UNCHANGED <<rows, lapsed, tokens, approved>>,
         Goto(r, "idle"),
         \/ UNCHANGED <<seen, scanned>> /\ pc[r] # "revoke"
         \/ /\ seen' = [seen EXCEPT ![r] = {}]
            /\ scanned' = [scanned EXCEPT ![r] = {}]
  PROVE  IInv'
<1> USE DEF IInv, Goto, rows, tokens, approved
<1>0. /\ pc'[r] = "idle"
      /\ scanned'[r] = {}
      /\ \A q \in Requests \ {r} : /\ pc'[q] = pc[q] /\ job'[q] = job[q]
                                   /\ seen'[q] = seen[q] /\ scanned'[q] = scanned[q]
      /\ \A q \in Requests \ {r} : PairOf(q)' = PairOf(q) /\ CodeOf(q)' = CodeOf(q)
      /\ Issued' = Issued
  BY DEF TypeOK, PairOf, CodeOf, Issued, ScanInv
<1>1. TypeOK'
  BY <1>0 DEF TypeOK, Stages
<1>6. ScanInv'
  BY <1>0 DEF ScanInv, GrantOf
<1>2. JobInv'
  BY <1>0 DEF JobInv
<1>3. RedeemInv'
  BY <1>0 DEF RedeemInv, Redeeming
<1>4. BoundInv'
  BY <1>0 DEF BoundInv
<1>5. StandingInv' /\ OutstandingInv' /\ WithinConsent' /\ CodeRedeemedOnce'
  BY <1>0 DEF StandingInv, OutstandingInv, GrantOf, WithinConsent, CodeRedeemedOnce
<1> QED BY <1>1, <1>2, <1>3, <1>4, <1>5, <1>6

\* A statement that only reads, or locks what it reads, moves the request on.
LEMMA ReadIInv ==
  ASSUME IInv, NEW r \in Requests,
         \/ CheckMember(r) \/ GrantCovers(r) \/ FindCode(r)
         \/ LockPresented(r) \/ LoadGrant(r)
  PROVE  IInv'
<1> USE DEF IInv
<1>1. CASE pc'[r] = "idle"
  <2>1. /\ Goto(r, "idle") /\ pc[r] # "revoke"
        /\ UNCHANGED <<rows, lapsed, seen, scanned, tokens, approved>>
    BY <1>1 DEF CheckMember, GrantCovers, FindCode, LockPresented, LoadGrant, Goto, TypeOK
  <2> QED BY <2>1, EndIInv
<1>2. CASE pc'[r] # "idle"
  <2>0. /\ UNCHANGED <<rows, lapsed, job, seen, scanned, tokens, approved>>
        /\ pc' = [pc EXCEPT ![r] = pc'[r]]
        /\ pc[r] \in {"member", "covers", "find", "lock", "load"}
        /\ pc'[r] \in {"member", "covers", "issue", "consume", "lock", "rotate", "scan"}
        /\ pc'[r] \in {"lock", "rotate"} => job[r].kind = "refresh"
        /\ pc'[r] = "member" => /\ job[r].kind = "exchange"
                                /\ CodeOf(r).client = job[r].client
        /\ pc'[r] = "covers" => job[r].kind = "authorize"
        /\ pc'[r] = "consume" => pc[r] = "member" /\ job[r].kind = "exchange"
        /\ pc'[r] = "scan" => PairOf(r) \in stored /\ job[r].kind = "withdraw"
        /\ pc'[r] = "issue" =>
             \/ pc[r] = "member" /\ job[r].kind = "consent"
             \/ job[r].kind = "authorize" /\ job[r].scopes \subseteq grants[PairOf(r)]
    BY <1>2 DEF CheckMember, GrantCovers, FindCode, LockPresented, LoadGrant, Goto,
                TypeOK, JobInv
  <2> USE DEF rows, tokens, approved
  <2>1. /\ \A q \in Requests \ {r} : pc'[q] = pc[q]
        /\ \A q \in Requests : PairOf(q)' = PairOf(q) /\ CodeOf(q)' = CodeOf(q)
        /\ Issued' = Issued
    BY <2>0 DEF TypeOK, PairOf, CodeOf, Issued
  <2>2. TypeOK'
    BY <2>0, <2>1 DEF TypeOK, Stages
  <2>3. JobInv'
    BY <2>0, <2>1 DEF JobInv, Redeeming
  <2>4. RedeemInv'
    BY <2>0, <2>1 DEF RedeemInv, Redeeming
  <2>5. BoundInv'
    <3>1. job[r].kind = "authorize" => PairOf(r) \in Pairs
      BY <2>0 DEF PairOf, Pairs, JobInv, Job
    <3>2. pc'[r] = "issue" => job[r].scopes \subseteq consented[PairOf(r)]
      BY <2>0, <3>1 DEF BoundInv, WithinConsent
    <3> QED BY <2>0, <2>1, <3>2 DEF BoundInv
  <2>6. StandingInv' /\ OutstandingInv' /\ WithinConsent' /\ CodeRedeemedOnce'
    BY <2>0, <2>1 DEF StandingInv, OutstandingInv, GrantOf, WithinConsent, CodeRedeemedOnce
  <2>7. ScanInv'
    BY <2>0, <2>1 DEF ScanInv, GrantOf
  <2> QED BY <2>2, <2>3, <2>4, <2>5, <2>6, <2>7
<1> QED BY <1>1, <1>2

\* A request arrives; a consent adds to what its user approved.
LEMMA AcceptIInv ==
  ASSUME IInv, NEW r \in Requests, Accept(r)
  PROVE  IInv'
<1> USE DEF IInv, rows, tokens
<1>0. /\ UNCHANGED <<rows, lapsed, seen, scanned, tokens>>
      /\ pc' = [pc EXCEPT ![r] = pc'[r]]
      /\ job' = [job EXCEPT ![r] = job'[r]]
      /\ job'[r] \in Job
      /\ \/ pc'[r] = "member" /\ job'[r].kind \in {"authorize", "consent"}
         \/ pc'[r] = "member" /\ job'[r].kind = "refresh" /\ job'[r].code \in Issued
         \/ pc'[r] = "find" /\ job'[r].kind = "exchange" /\ job'[r].code \in Issued
         \/ pc'[r] = "load" /\ job'[r].kind = "withdraw"
  <2> USE DEF Arrive, TypeOK, Job, Issued
  <2>1. CASE AcceptAuthorize(r)
    BY <2>1 DEF AcceptAuthorize
  <2>2. CASE AcceptConsent(r)
    BY <2>2 DEF AcceptConsent
  <2>3. CASE AcceptExchange(r)
    BY <2>3, CodeAssumption DEF AcceptExchange, CodeAssumption, CodeRow
  <2>4. CASE AcceptWithdraw(r)
    BY <2>4 DEF AcceptWithdraw
  <2>5. CASE AcceptRefresh(r)
    BY <2>5, CodeAssumption DEF AcceptRefresh, CodeAssumption, CodeRow
  <2> QED BY <2>1, <2>2, <2>3, <2>4, <2>5 DEF Accept
<1>1. /\ consented' \in [Pairs -> SUBSET Scopes]
      /\ standing' \in [Pairs -> SUBSET Scopes]
      /\ \A p \in Pairs : /\ consented[p] \subseteq consented'[p]
                          /\ standing[p] = consented[p] => standing'[p] = consented'[p]
      /\ \A p \in Pairs : standing[p] \subseteq standing'[p]
      /\ outstanding' = outstanding
      /\ job'[r].kind = "consent" => job'[r].scopes \subseteq consented'[PairOf(r)']
  <2>1. CASE AcceptConsent(r)
    <3>1. PICK c \in Clients, u \in Users, s \in SUBSET Scopes :
            /\ Arrive(r, "member", [kind |-> "consent", client |-> c, user |-> u,
                                    scopes |-> s, code |-> NoCode, proof |-> FALSE])
            /\ consented' = [consented EXCEPT ![<<c, u>>] = @ \union s]
            /\ standing' = [standing EXCEPT ![<<c, u>>] = @ \union s]
            /\ outstanding' = outstanding
      BY <2>1 DEF AcceptConsent
    <3>2. job'[r] = [kind |-> "consent", client |-> c, user |-> u,
                     scopes |-> s, code |-> NoCode, proof |-> FALSE]
      BY <3>1 DEF Arrive, TypeOK
    <3>3. PairOf(r)' = <<c, u>>
      BY <3>2 DEF PairOf
    <3>4. <<c, u>> \in Pairs /\ job'[r].scopes = s
      BY <3>2 DEF Pairs
    <3> QED BY <3>1, <3>3, <3>4 DEF TypeOK
  <2>2. CASE ~AcceptConsent(r)
    BY <2>2 DEF Accept, AcceptAuthorize, AcceptExchange, AcceptRefresh, AcceptWithdraw,
                Arrive, approved, TypeOK
  <2> QED BY <2>1, <2>2
<1>2. /\ pc[r] = "idle"
      /\ \A q \in Requests \ {r} : pc'[q] = pc[q] /\ job'[q] = job[q]
      /\ \A q \in Requests \ {r} : PairOf(q)' = PairOf(q) /\ CodeOf(q)' = CodeOf(q)
      /\ Issued' = Issued
  BY <1>0 DEF TypeOK, PairOf, CodeOf, Issued, Accept, AcceptAuthorize,
              AcceptConsent, AcceptExchange, AcceptRefresh, AcceptWithdraw, Arrive
<1>3. TypeOK'
  BY <1>0, <1>1, <1>2 DEF TypeOK, Stages
<1>4. JobInv'
  BY <1>0, <1>2 DEF JobInv, Redeeming
<1>5. RedeemInv'
  BY <1>0, <1>2 DEF RedeemInv, Redeeming
<1>6. BoundInv'
  <2>1. \A q \in Requests \ {r} : pc[q] # "idle" => PairOf(q) \in Pairs
    BY DEF JobInv, PairOf, Pairs, Job, CodeOf, TypeOK, Issued, CodeRow
  <2> QED BY <1>0, <1>1, <1>2, <2>1 DEF BoundInv
<1>7. StandingInv'
  BY <1>0, <1>1 DEF StandingInv
<1>8. WithinConsent' /\ OutstandingInv' /\ CodeRedeemedOnce'
  <2>1. \A c \in Issued : GrantOf(c) \in Pairs /\ GrantOf(c)' = GrantOf(c)
    BY <1>0 DEF GrantOf, Issued, TypeOK, CodeRow, Pairs
  <2> QED BY <1>0, <1>1, <1>2, <2>1 DEF WithinConsent, OutstandingInv, CodeRedeemedOnce
<1>9. ScanInv'
  BY <1>0, <1>1, <1>2 DEF ScanInv, GrantOf
<1> QED BY <1>3, <1>4, <1>5, <1>6, <1>7, <1>8, <1>9

\* A new code carries the scopes the request was bounded by.
LEMMA IssueCodeIInv ==
  ASSUME IInv, NEW r \in Requests, IssueCode(r)
  PROVE  IInv'
<1> USE DEF IInv, tokens, approved
<1> DEFINE n == NewCode
<1>0. n \in Codes /\ n \notin Issued
  BY DEF IssueCode, NewCode, Issued
<1>1. /\ job[r] \in Job /\ job[r].kind \in {"authorize", "consent"}
      /\ codes' = [codes EXCEPT ![n] = [client |-> job[r].client,
                     user |-> job[r].user, scopes |-> job[r].scopes]]
      /\ UNCHANGED <<used, stored, grants, withdrawn, lapsed, seen, scanned, tokens,
                     consented, standing>>
      /\ outstanding' = IF job[r].scopes \subseteq standing[PairOf(r)]
                          THEN outstanding ELSE outstanding \union {n}
      /\ pc[r] = "issue" /\ pc'[r] = "idle"
      /\ pc' = [pc EXCEPT ![r] = "idle"]
      /\ job' = [job EXCEPT ![r] = NoJob]
  BY DEF IssueCode, Goto, JobInv, TypeOK
<1>2. codes'[n] \in CodeRow /\ codes' \in [Codes -> CodeRow \union {NoCode}]
  BY <1>0, <1>1 DEF TypeOK, Job, CodeRow
<1>3. /\ Issued \subseteq Issued' /\ Issued' \subseteq Issued \union {n}
      /\ \A c \in Issued : codes'[c] = codes[c]
  <2>1. Issued' \subseteq Issued \union {n}
    BY <1>0, <1>1 DEF TypeOK, Issued
  <2>2. \A c \in Issued : codes'[c] = codes[c]
    BY <1>0, <1>1 DEF TypeOK, Issued
  <2> QED BY <2>1, <2>2 DEF Issued
<1>12. n \in Issued'
  BY <1>0, <1>2, RowAssumption DEF RowAssumption, Issued
<1>4. \A q \in Requests \ {r} :
        /\ pc'[q] = pc[q] /\ job'[q] = job[q]
        /\ job[q].kind = "exchange" /\ pc[q] # "idle" => CodeOf(q)' = CodeOf(q)
        /\ pc[q] # "idle" => PairOf(q)' = PairOf(q)
  <2> SUFFICES ASSUME NEW q \in Requests \ {r}
               PROVE  /\ pc'[q] = pc[q] /\ job'[q] = job[q]
                      /\ job[q].kind = "exchange" /\ pc[q] # "idle" => CodeOf(q)' = CodeOf(q)
                      /\ pc[q] # "idle" => PairOf(q)' = PairOf(q)
    OBVIOUS
  <2>1. pc'[q] = pc[q] /\ job'[q] = job[q]
    BY <1>1 DEF TypeOK
  <2>2. job[q].kind = "exchange" /\ pc[q] # "idle" => CodeOf(q)' = CodeOf(q)
    BY <1>3, <2>1 DEF CodeOf, JobInv
  <2>3. pc[q] # "idle" => PairOf(q)' = PairOf(q)
    BY <2>1, <2>2 DEF PairOf
  <2> QED BY <2>1, <2>2, <2>3
<1>5. TypeOK'
  BY <1>1, <1>2, <1>3, <1>12 DEF TypeOK, Stages
<1>6. JobInv'
  BY <1>1, <1>3, <1>4 DEF JobInv, Redeeming
<1>7. RedeemInv'
  BY <1>1, <1>4 DEF RedeemInv, Redeeming
<1>8. BoundInv'
  BY <1>1, <1>4 DEF BoundInv
<1>9. StandingInv' /\ CodeRedeemedOnce'
  BY <1>1 DEF StandingInv, CodeRedeemedOnce
<1>10. WithinConsent'
  <2>0. PairOf(r) = <<job[r].client, job[r].user>>
    BY <1>1 DEF PairOf
  <2>1. job[r].scopes \subseteq consented[<<job[r].client, job[r].user>>]
    <3>1. job[r].scopes \subseteq consented[PairOf(r)]
      BY <1>1 DEF BoundInv
    <3> QED BY <2>0, <3>1
  <2>2. codes'[n] = [client |-> job[r].client, user |-> job[r].user, scopes |-> job[r].scopes]
    BY <1>0, <1>1 DEF TypeOK
  <2> QED BY <1>1, <1>3, <2>1, <2>2 DEF WithinConsent, GrantOf
<1>11. OutstandingInv'
  <2>1. \A c \in Issued : GrantOf(c)' = GrantOf(c)
    BY <1>3 DEF GrantOf
  <2>2. codes'[n] = [client |-> job[r].client, user |-> job[r].user, scopes |-> job[r].scopes]
    BY <1>0, <1>1 DEF TypeOK
  <2>3. PairOf(r) = <<codes'[n].client, codes'[n].user>>
    BY <1>1, <2>2 DEF PairOf
  <2>4. n \in outstanding' \/ job[r].scopes \subseteq standing[PairOf(r)]
    BY <1>1
  <2>5. ASSUME NEW c \in Issued
        PROVE  \/ codes'[c].scopes \subseteq standing'[GrantOf(c)']
               \/ c \in outstanding'
               \/ responses'[c] > 0 /\ c \notin refresh'
    BY <1>1, <1>3, <2>1, <2>5 DEF OutstandingInv
  <2> QED BY <1>1, <1>3, <2>2, <2>3, <2>4, <2>5 DEF OutstandingInv, GrantOf
<1>13. ScanInv'
  <2>1. \A c \in refresh : GrantOf(c)' = GrantOf(c)
    BY <1>3 DEF GrantOf, TypeOK
  <2>2. \A q \in Requests : scanned[q] \subseteq refresh
    BY DEF TypeOK
  <2> QED BY <1>1, <1>4, <2>1, <2>2 DEF ScanInv
<1> QED BY <1>5, <1>6, <1>7, <1>8, <1>9, <1>10, <1>11, <1>13

\* The guarded UPDATE lets one request through for a code.
LEMMA ConsumeIInv ==
  ASSUME IInv, NEW r \in Requests, Consume(r)
  PROVE  IInv'
<1> USE DEF IInv, tokens, approved
<1>1. /\ job[r] \in Job /\ job[r].kind = "exchange" /\ job[r].code \in Issued
      /\ job[r].code \in Codes
      /\ UNCHANGED <<codes, stored, grants, withdrawn, lapsed, seen, scanned, tokens, approved>>
      /\ used' = used \union {job[r].code}
      /\ pc[r] = "consume"
      /\ pc' = [pc EXCEPT ![r] = pc'[r]]
      /\ \/ /\ pc'[r] = "idle" /\ job' = [job EXCEPT ![r] = NoJob]
         \/ /\ pc'[r] = "read" /\ job' = job /\ job[r].code \notin used
  BY DEF Consume, Goto, JobInv, TypeOK, Redeeming, Issued
<1>2. /\ \A q \in Requests \ {r} : pc'[q] = pc[q] /\ job'[q] = job[q]
      /\ \A q \in Requests \ {r} : PairOf(q)' = PairOf(q) /\ CodeOf(q)' = CodeOf(q)
      /\ pc'[r] # "idle" => PairOf(r)' = PairOf(r) /\ CodeOf(r)' = CodeOf(r)
      /\ Issued' = Issued
  BY <1>1 DEF TypeOK, PairOf, CodeOf, Issued
<1>3. TypeOK'
  BY <1>1, <1>2 DEF TypeOK, Stages
<1>4. JobInv'
  BY <1>1, <1>2 DEF JobInv, Redeeming
<1>5. RedeemInv'
  <2>1. pc'[r] = "read" => /\ responses[job[r].code] = 0
                           /\ \A q \in Requests : pc[q] \in Redeeming => job[q].code # job[r].code
    BY <1>1 DEF RedeemInv
  <2> QED BY <1>1, <1>2, <2>1 DEF RedeemInv, Redeeming
<1>6. BoundInv'
  BY <1>1, <1>2 DEF BoundInv
<1>7. StandingInv' /\ OutstandingInv' /\ WithinConsent' /\ CodeRedeemedOnce'
  BY <1>1, <1>2 DEF StandingInv, OutstandingInv, GrantOf, WithinConsent, CodeRedeemedOnce
<1>8. ScanInv'
  BY <1>1, <1>2 DEF ScanInv, GrantOf
<1> QED BY <1>3, <1>4, <1>5, <1>6, <1>7, <1>8

\* upsert_grant: what it reads and writes stays within the user's consent.
LEMMA UpsertIInv ==
  ASSUME IInv, NEW r \in Requests, ReadGrant(r) \/ WriteGrant(r)
  PROVE  IInv'
<1> USE DEF IInv, tokens, approved
<1> DEFINE p == PairOf(r)
<1>1. /\ job[r] \in Job /\ job[r].kind = "exchange" /\ job[r].code \in Issued
      /\ UNCHANGED <<codes, used, withdrawn, lapsed, job, scanned, tokens, approved>>
      /\ pc[r] \in {"read", "write"}
      /\ pc' = [pc EXCEPT ![r] = pc'[r]]
      /\ pc'[r] \in {"write", "mint"}
  BY DEF ReadGrant, WriteGrant, Goto, JobInv, TypeOK, Redeeming, rows
<1>2. /\ \A q \in Requests \ {r} : pc'[q] = pc[q]
      /\ \A q \in Requests : PairOf(q)' = PairOf(q) /\ CodeOf(q)' = CodeOf(q)
      /\ Issued' = Issued
  BY <1>1 DEF TypeOK, PairOf, CodeOf, Issued
<1>3. /\ CodeOf(r) \in CodeRow
      /\ p = <<CodeOf(r).client, CodeOf(r).user>>
      /\ p \in Pairs
      /\ CodeOf(r).scopes \subseteq consented[p]
  <2>1. CodeOf(r) \in CodeRow
    BY <1>1 DEF CodeOf, Issued, TypeOK
  <2>2. p = <<CodeOf(r).client, CodeOf(r).user>>
    BY <1>1 DEF PairOf, BoundInv
  <2>3. p \in Pairs
    BY <2>1, <2>2 DEF Pairs, CodeRow
  <2>4. CodeOf(r).scopes \subseteq consented[<<CodeOf(r).client, CodeOf(r).user>>]
    BY <1>1 DEF CodeOf, WithinConsent, GrantOf
  <2> QED BY <2>1, <2>2, <2>3, <2>4
<1>4. /\ stored \subseteq stored' /\ stored' \subseteq Pairs
      /\ grants' \in [Pairs -> SUBSET Scopes]
      /\ seen' \in [Requests -> SUBSET Scopes]
      /\ \A q \in Requests \ {r} : seen'[q] = seen[q]
      /\ pc'[r] = "write" => seen'[r] = grants[p]
      /\ \A x \in Pairs : grants'[x] \subseteq consented[x]
  <2>1. CASE ReadGrant(r)
    BY <2>1, <1>3 DEF ReadGrant, Goto, rows, TypeOK, WithinConsent
  <2>2. CASE WriteGrant(r)
    <3>1. seen[r] \subseteq consented[p] /\ seen[r] \subseteq Scopes
      BY <2>2 DEF WriteGrant, BoundInv, TypeOK
    <3>2. CodeOf(r).scopes \subseteq Scopes
      BY <1>3 DEF CodeRow
    <3>3. \/ /\ stored' = stored \union {p}
             /\ grants' = [grants EXCEPT ![p] = IF p \in stored THEN @ ELSE CodeOf(r).scopes]
          \/ /\ grants' = [grants EXCEPT ![p] = CodeOf(r).scopes \union seen[r]]
             /\ stored' = stored
      BY <2>2 DEF WriteGrant
    <3>4. /\ seen' = [seen EXCEPT ![r] = {}]
          /\ pc'[r] = "mint"
      BY <2>2 DEF WriteGrant, Goto, TypeOK
    <3> QED BY <1>3, <3>1, <3>2, <3>3, <3>4 DEF TypeOK, WithinConsent
  <2> QED BY <2>1, <2>2
<1>5. TypeOK'
  BY <1>1, <1>2, <1>4 DEF TypeOK, Stages
<1>6. JobInv'
  BY <1>1, <1>2, <1>4 DEF JobInv, Redeeming
<1>7. RedeemInv'
  BY <1>1, <1>2 DEF RedeemInv, Redeeming
<1>8. BoundInv'
  BY <1>1, <1>2, <1>3, <1>4 DEF BoundInv, WithinConsent
<1>9. StandingInv' /\ OutstandingInv' /\ WithinConsent' /\ CodeRedeemedOnce'
  BY <1>1, <1>2, <1>4 DEF StandingInv, OutstandingInv, GrantOf, WithinConsent, CodeRedeemedOnce
<1>10. ScanInv'
  BY <1>1, <1>2 DEF ScanInv, GrantOf
<1> QED BY <1>5, <1>6, <1>7, <1>8, <1>9, <1>10

\* The response of a code that has given none.
LEMMA MintIInv ==
  ASSUME IInv, NEW r \in Requests, Mint(r)
  PROVE  IInv'
<1> USE DEF IInv, rows
<1> DEFINE c == job[r].code
<1>1. /\ job[r].kind = "exchange" /\ c \in Issued /\ c \in Codes
      /\ UNCHANGED <<rows, lapsed, seen, scanned, consented, standing>>
      /\ outstanding' = IF Withdrawing(PairOf(r)) = {}
                          THEN outstanding ELSE outstanding \union {c}
      /\ responses' = [responses EXCEPT ![c] = responses[c] + 1]
      /\ refresh \subseteq refresh' /\ refresh' \subseteq refresh \union {c}
      /\ pc[r] = "mint" /\ pc'[r] = "idle"
      /\ pc' = [pc EXCEPT ![r] = "idle"]
      /\ job' = [job EXCEPT ![r] = NoJob]
  BY DEF Mint, Goto, JobInv, TypeOK, Redeeming, Issued
<1>2. /\ \A q \in Requests \ {r} : pc'[q] = pc[q] /\ job'[q] = job[q]
      /\ \A q \in Requests \ {r} : PairOf(q)' = PairOf(q) /\ CodeOf(q)' = CodeOf(q)
      /\ Issued' = Issued
  BY <1>1 DEF TypeOK, PairOf, CodeOf, Issued
<1>3. /\ c \in used /\ responses[c] = 0
      /\ \A q \in Requests \ {r} : pc[q] \in Redeeming => job[q].code # c
  BY <1>1 DEF RedeemInv, Redeeming
<1>4. /\ responses'[c] = 1
      /\ \A k \in Codes \ {c} : responses'[k] = responses[k]
      /\ responses' \in [Codes -> 0..MaxResponses]
  BY <1>1, <1>3 DEF TypeOK, MaxResponses
<1>5. TypeOK'
  BY <1>1, <1>2, <1>4 DEF TypeOK, Stages
<1>6. JobInv'
  BY <1>1, <1>2 DEF JobInv, Redeeming
<1>7. RedeemInv'
  <2>1. \A q \in Requests : pc'[q] \in Redeeming => q # r /\ job[q].code # c
    BY <1>1, <1>2, <1>3 DEF Redeeming
  <2>2. \A q \in Requests : pc'[q] \in Redeeming => job[q].code \in Codes
    BY <1>1, <1>2, <2>1 DEF JobInv, Redeeming, Issued
  <2> QED BY <1>1, <1>2, <1>3, <1>4, <2>1, <2>2 DEF RedeemInv
<1>8. BoundInv'
  BY <1>1, <1>2 DEF BoundInv
<1>9. StandingInv' /\ WithinConsent' /\ CodeRedeemedOnce'
  BY <1>1, <1>2, <1>4 DEF StandingInv, GrantOf, WithinConsent, CodeRedeemedOnce
<1>10. OutstandingInv'
  <2>1. /\ codes' = codes /\ standing' = standing /\ outstanding \subseteq outstanding'
        /\ \A k \in Issued : GrantOf(k)' = GrantOf(k)
    BY <1>1 DEF GrantOf
  <2>2. \A k \in Issued \ {c} : responses'[k] = responses[k] /\ (k \in refresh' => k \in refresh)
    BY <1>1, <1>4 DEF Issued
  <2>3. codes[c].scopes \subseteq standing[GrantOf(c)] \/ c \in outstanding
    BY <1>1, <1>3 DEF OutstandingInv
  <2> QED BY <1>2, <2>1, <2>2, <2>3 DEF OutstandingInv
<1>11. ScanInv'
  <2>1. PairOf(r) = GrantOf(c)
    BY <1>1 DEF BoundInv, PairOf, GrantOf, CodeOf
  <2>2. ASSUME NEW q \in Requests, pc'[q] = "revoke", PairOf(q) = GrantOf(c)
        PROVE  c \in outstanding'
    <3>1. q \in Withdrawing(PairOf(r))
      BY <1>1, <1>2, <2>1, <2>2 DEF Withdrawing
    <3> QED BY <1>1, <3>1
  <2>3. \A k \in Issued : GrantOf(k)' = GrantOf(k)
    BY <1>1 DEF GrantOf
  <2>4. outstanding \subseteq outstanding' /\ refresh \subseteq Issued /\ refresh' \subseteq Issued
    BY <1>1 DEF TypeOK
  <2>5. \A q \in Requests : scanned'[q] = scanned[q] /\ scanned[q] \subseteq Issued
    BY <1>1 DEF TypeOK
  <2> QED BY <1>1, <1>2, <2>2, <2>3, <2>4, <2>5 DEF ScanInv
<1> QED BY <1>5, <1>6, <1>7, <1>8, <1>9, <1>10, <1>11

\* A rotation takes its family out of the reach of the withdrawals under
\* way, which is noted.
LEMMA RotateIInv ==
  ASSUME IInv, NEW r \in Requests, Rotate(r)
  PROVE  IInv'
<1> USE DEF IInv, rows, tokens
<1> DEFINE c == job[r].code
<1>1. /\ c \in Issued
      /\ UNCHANGED <<rows, lapsed, seen, tokens, consented, standing>>
      /\ scanned' = [q \in Requests |-> scanned[q] \ {c}]
      /\ outstanding \subseteq outstanding' /\ outstanding' \subseteq outstanding \union {c}
      /\ \A q \in Requests : c \in scanned[q] => c \in outstanding'
      /\ pc[r] = "rotate" /\ pc'[r] = "idle"
      /\ pc' = [pc EXCEPT ![r] = "idle"]
      /\ job' = [job EXCEPT ![r] = NoJob]
  BY DEF Rotate, Goto, JobInv, TypeOK
<1>2. /\ \A q \in Requests \ {r} : pc'[q] = pc[q] /\ job'[q] = job[q]
      /\ \A q \in Requests \ {r} : PairOf(q)' = PairOf(q) /\ CodeOf(q)' = CodeOf(q)
      /\ Issued' = Issued
      /\ \A k \in Codes : GrantOf(k)' = GrantOf(k)
  BY <1>1 DEF TypeOK, PairOf, CodeOf, Issued, GrantOf
<1>3. TypeOK'
  BY <1>1, <1>2 DEF TypeOK, Stages
<1>4. JobInv'
  BY <1>1, <1>2 DEF JobInv
<1>5. RedeemInv'
  BY <1>1, <1>2 DEF RedeemInv, Redeeming
<1>6. BoundInv'
  BY <1>1, <1>2 DEF BoundInv
<1>7. StandingInv' /\ OutstandingInv' /\ WithinConsent' /\ CodeRedeemedOnce'
  BY <1>1, <1>2 DEF StandingInv, OutstandingInv, GrantOf, WithinConsent, CodeRedeemedOnce
<1>8. ScanInv'
  <2>1. refresh \subseteq Codes /\ \A q \in Requests : scanned[q] \subseteq Codes
    BY DEF TypeOK, Issued
  <2> QED BY <1>1, <1>2, <2>1 DEF ScanInv
<1> QED BY <1>3, <1>4, <1>5, <1>6, <1>7, <1>8

\* A withdrawal selects the live families of its grant.
LEMMA ScanGrantIInv ==
  ASSUME IInv, NEW r \in Requests, ScanGrant(r)
  PROVE  IInv'
<1> USE DEF IInv, rows, tokens, approved
<1>1. /\ UNCHANGED <<rows, lapsed, seen, tokens, approved, job>>
      /\ scanned' = [scanned EXCEPT ![r] = {c \in refresh : GrantOf(c) = PairOf(r)}]
      /\ pc[r] = "scan" /\ pc'[r] = "revoke"
      /\ pc' = [pc EXCEPT ![r] = "revoke"]
      /\ \A q \in Requests : pc[q] = "revoke" => PairOf(q) # PairOf(r)
  BY DEF ScanGrant, Goto, Withdrawing, TypeOK
<1>2. /\ \A q \in Requests \ {r} : pc'[q] = pc[q] /\ scanned'[q] = scanned[q]
      /\ \A q \in Requests : PairOf(q)' = PairOf(q) /\ CodeOf(q)' = CodeOf(q)
      /\ Issued' = Issued
      /\ \A k \in Codes : GrantOf(k)' = GrantOf(k)
      /\ scanned'[r] = {c \in refresh : GrantOf(c) = PairOf(r)}
  BY <1>1 DEF TypeOK, PairOf, CodeOf, Issued, GrantOf
<1>3. TypeOK'
  BY <1>1, <1>2 DEF TypeOK, Stages
<1>4. JobInv'
  BY <1>1, <1>2 DEF JobInv, Redeeming
<1>5. RedeemInv'
  BY <1>1, <1>2 DEF RedeemInv, Redeeming
<1>6. BoundInv'
  BY <1>1, <1>2 DEF BoundInv
<1>7. StandingInv' /\ OutstandingInv' /\ WithinConsent' /\ CodeRedeemedOnce'
  BY <1>1, <1>2 DEF StandingInv, OutstandingInv, GrantOf, WithinConsent, CodeRedeemedOnce
<1>8. ScanInv'
  <2>1. refresh \subseteq Codes /\ \A q \in Requests : scanned[q] \subseteq Codes
    BY DEF TypeOK, Issued
  <2> QED BY <1>1, <1>2, <2>1 DEF ScanInv
<1> QED BY <1>3, <1>4, <1>5, <1>6, <1>7, <1>8

\* A withdrawal takes the standing approval with the grant.
LEMMA RevokeGrantIInv ==
  ASSUME IInv, NEW r \in Requests, RevokeGrant(r)
  PROVE  IInv'
<1> USE DEF IInv
<1> DEFINE p == PairOf(r)
<1>1. /\ UNCHANGED <<codes, used, stored, grants, lapsed, seen, responses, consented>>
      /\ withdrawn' = withdrawn \union {p}
      /\ refresh' = refresh \ scanned[r]
      /\ scanned' = [scanned EXCEPT ![r] = {}]
      /\ standing' = [standing EXCEPT ![p] = {}]
      /\ outstanding' = outstanding \union
           {c \in Issued : GrantOf(c) = p /\ responses[c] = 0 /\ codes[c].scopes # {}}
      /\ p \in stored
      /\ pc' = [pc EXCEPT ![r] = "idle"]
      /\ job' = [job EXCEPT ![r] = NoJob]
      /\ pc[r] = "revoke" /\ pc'[r] = "idle"
  BY DEF RevokeGrant, Withdraw, Goto, JobInv, TypeOK
<1>2. /\ \A q \in Requests \ {r} : /\ pc'[q] = pc[q] /\ job'[q] = job[q]
                                   /\ scanned'[q] = scanned[q]
      /\ \A q \in Requests \ {r} : PairOf(q)' = PairOf(q) /\ CodeOf(q)' = CodeOf(q)
      /\ Issued' = Issued
  BY <1>1 DEF TypeOK, PairOf, CodeOf, Issued
<1>3. p \in Pairs
  BY <1>1 DEF TypeOK
<1>11. \A q \in Requests \ {r} : scanned[q] \intersect scanned[r] = {}
  BY <1>1 DEF ScanInv
<1>4. TypeOK'
  <2>1. scanned' \in [Requests -> SUBSET refresh']
    BY <1>1, <1>2, <1>11 DEF TypeOK
  <2> QED BY <1>1, <1>2, <1>3, <2>1 DEF TypeOK, Stages
<1>5. JobInv'
  BY <1>1, <1>2 DEF JobInv, Redeeming
<1>6. RedeemInv'
  BY <1>1, <1>2 DEF RedeemInv, Redeeming
<1>7. BoundInv'
  BY <1>1, <1>2 DEF BoundInv
<1>8. StandingInv'
  BY <1>1, <1>3 DEF StandingInv, TypeOK
<1>9. WithinConsent' /\ CodeRedeemedOnce'
  BY <1>1, <1>2 DEF WithinConsent, CodeRedeemedOnce, GrantOf
<1>10. OutstandingInv'
  <2>1. \A c \in Issued : GrantOf(c) \in Pairs /\ GrantOf(c)' = GrantOf(c)
    BY <1>1 DEF GrantOf, Issued, TypeOK, CodeRow, Pairs
  <2>2. ASSUME NEW c \in Issued, GrantOf(c) = p
        PROVE  \/ codes[c].scopes = {} \/ c \in outstanding'
               \/ responses[c] > 0 /\ c \notin refresh'
    BY <1>1, <2>2 DEF Issued, TypeOK, MaxResponses, ScanInv
  <2>3. \A c \in Issued : GrantOf(c) # p => standing'[GrantOf(c)] = standing[GrantOf(c)]
    BY <1>1, <2>1 DEF TypeOK
  <2> QED BY <1>1, <1>2, <2>1, <2>2, <2>3 DEF OutstandingInv
<1>12. ScanInv'
  <2>1. refresh \subseteq Codes /\ \A q \in Requests : scanned[q] \subseteq Codes
    BY DEF TypeOK, Issued
  <2>2. \A k \in Codes : GrantOf(k)' = GrantOf(k)
    BY <1>1 DEF GrantOf
  <2>3. outstanding \subseteq outstanding' /\ refresh' \subseteq refresh /\ scanned'[r] = {}
    BY <1>1 DEF TypeOK
  <2> QED BY <1>1, <1>2, <2>1, <2>2, <2>3 DEF ScanInv
<1> QED BY <1>4, <1>5, <1>6, <1>7, <1>8, <1>9, <1>10, <1>12

\* A family ends, time passes, or nothing happens.
LEMMA OtherIInv ==
  ASSUME IInv, UNCHANGED <<rows, pc, job, seen, responses, approved>>,
         lapsed' \subseteq Issued,
         NEW ended \in SUBSET Codes,
         refresh' = refresh \ ended,
         scanned' = [q \in Requests |-> scanned[q] \ ended]
  PROVE  IInv'
<1> USE DEF IInv, rows, approved
<1>1. /\ \A q \in Requests : PairOf(q)' = PairOf(q) /\ CodeOf(q)' = CodeOf(q)
      /\ Issued' = Issued
      /\ \A k \in Codes : GrantOf(k)' = GrantOf(k)
  BY DEF PairOf, CodeOf, Issued, GrantOf
<1>2. TypeOK'
  BY <1>1 DEF TypeOK
<1>6. ScanInv'
  <2>1. refresh \subseteq Codes /\ \A q \in Requests : scanned[q] \subseteq Codes
    BY DEF TypeOK, Issued
  <2> QED BY <1>1, <2>1 DEF ScanInv
<1>3. JobInv' /\ RedeemInv'
  BY <1>1 DEF JobInv, RedeemInv
<1>4. BoundInv'
  BY <1>1 DEF BoundInv
<1>5. StandingInv' /\ OutstandingInv' /\ WithinConsent' /\ CodeRedeemedOnce'
  BY <1>1 DEF StandingInv, OutstandingInv, GrantOf, WithinConsent, CodeRedeemedOnce
<1> QED BY <1>2, <1>3, <1>4, <1>5, <1>6

LEMMA NextIInv ==
  ASSUME IInv, [Next]_vars
  PROVE  IInv'
<1>1. ASSUME NEW r \in Requests, Accept(r) \/ Serve(r) \/ Fail(r) PROVE IInv'
  <2>1. CASE Accept(r)
    BY <2>1, AcceptIInv
  <2>2. CASE \/ CheckMember(r) \/ GrantCovers(r) \/ FindCode(r)
             \/ LockPresented(r) \/ LoadGrant(r)
    BY <2>2, ReadIInv
  <2>3. CASE IssueCode(r)
    BY <2>3, IssueCodeIInv
  <2>4. CASE Consume(r)
    BY <2>4, ConsumeIInv
  <2>5. CASE ReadGrant(r) \/ WriteGrant(r)
    BY <2>5, UpsertIInv
  <2>6. CASE Mint(r)
    BY <2>6, MintIInv
  <2>7. CASE RevokeGrant(r)
    BY <2>7, RevokeGrantIInv
  <2>8. CASE Fail(r)
    BY <2>8, EndIInv DEF Fail
  <2>9. CASE Rotate(r)
    BY <2>9, RotateIInv
  <2>10. CASE ScanGrant(r)
    BY <2>10, ScanGrantIInv
  <2> QED BY <1>1, <2>1, <2>2, <2>3, <2>4, <2>5, <2>6, <2>7, <2>8, <2>9, <2>10 DEF Serve
<1> DEFINE none == {}
<1>0. /\ scanned = [q \in Requests |-> scanned[q] \ none] /\ refresh = refresh \ none
      /\ none \in SUBSET Codes /\ lapsed \subseteq Issued
  BY DEF IInv, TypeOK
<1> HIDE DEF none
<1>2. ASSUME NEW c \in Codes, Lapse(c) PROVE IInv'
  <2>1. /\ refresh' = refresh \ none /\ scanned' = [q \in Requests |-> scanned[q] \ none]
        /\ lapsed' \subseteq Issued
        /\ UNCHANGED <<rows, pc, job, seen, responses, approved>>
    BY <1>0, <1>2 DEF Lapse, session, tokens
  <2> QED BY <1>0, <2>1, OtherIInv
<1>3. ASSUME NEW c \in Codes, EndFamily(c) PROVE IInv'
  <2>1. {c} \in SUBSET Codes /\ lapsed' \subseteq Issued
    BY <1>3 DEF EndFamily, IInv, TypeOK
  <2> QED BY <1>3, <2>1, OtherIInv DEF EndFamily
<1>4. CASE UNCHANGED vars
  <2>1. /\ refresh' = refresh \ none /\ scanned' = [q \in Requests |-> scanned[q] \ none]
        /\ lapsed' \subseteq Issued
        /\ UNCHANGED <<rows, pc, job, seen, responses, approved>>
    BY <1>0, <1>4 DEF vars, session, tokens, rows, Issued
  <2> QED BY <1>0, <2>1, OtherIInv
<1> QED BY <1>1, <1>2, <1>3, <1>4 DEF Next

LEMMA Inductive == Spec => []IInv
<1>1. Init => IInv
  BY InitIInv
<1>2. IInv /\ [Next]_vars => IInv'
  BY NextIInv
<1> QED BY <1>1, <1>2, PTL DEF Spec

----------------------------------------------------------------------------

\* Each state the requests reach is well typed.
THEOREM GrantsTypeCorrect == Spec => []TypeOK
BY Inductive, PTL DEF IInv

\* However many requests present a code at once, tokens are given once.
THEOREM CodesAreSingleUse == Spec => []CodeRedeemedOnce
BY Inductive, PTL DEF IInv

\* Codes and stored grants stay within what the user approved.
THEOREM ConsentIsRespected == Spec => []WithinConsent
BY Inductive, PTL DEF IInv

\* Authorization without the consent screen rests on an approval that has
\* not been withdrawn since.
THEOREM SilenceNeedsConsent == Spec => SilentWithinConsent
<1> DEFINE Covered ==
      \A r \in Requests : pc[r] = "covers" /\ pc'[r] = "issue"
        => job[r].scopes \subseteq standing[PairOf(r)]
<1>1. IInv /\ [Next]_vars => [Covered]_vars
  <2> SUFFICES ASSUME IInv, Next, NEW r \in Requests,
                      pc[r] = "covers", pc'[r] = "issue"
               PROVE  job[r].scopes \subseteq standing[PairOf(r)]
    OBVIOUS
  <2>1. GrantCovers(r)
    <3>1. pc \in [Requests -> Stages]
      BY DEF IInv, TypeOK
    <3>2. ASSUME NEW q \in Requests, Accept(q) \/ Serve(q) \/ Fail(q) PROVE q = r
      <4>1. pc' = [pc EXCEPT ![q] = pc'[q]]
        BY <3>1, <3>2 DEF Accept, AcceptAuthorize, AcceptConsent, AcceptExchange,
             AcceptRefresh, AcceptWithdraw, Arrive, Serve, CheckMember, GrantCovers,
             IssueCode, FindCode, Consume, ReadGrant, WriteGrant, Mint, LockPresented,
             Rotate, LoadGrant, ScanGrant, RevokeGrant, Withdraw, Fail, Goto
      <4> QED BY <3>1, <4>1
    <3>3. ~Accept(r) /\ ~Fail(r)
      BY <3>1 DEF Accept, AcceptAuthorize, AcceptConsent, AcceptExchange,
             AcceptRefresh, AcceptWithdraw, Arrive, Fail, Goto
    <3>4. Serve(r)
      BY <3>1, <3>2, <3>3 DEF Next, Lapse, EndFamily, session
    <3> QED
      BY <3>1, <3>4 DEF Serve, CheckMember, Goto, IssueCode, FindCode, Consume,
           ReadGrant, WriteGrant, Mint, LockPresented, Rotate, LoadGrant, ScanGrant,
           RevokeGrant, Withdraw, IInv, JobInv
  <2>2. /\ PairOf(r) \notin withdrawn
        /\ job[r].scopes \subseteq grants[PairOf(r)]
        /\ PairOf(r) \in Pairs
    BY <2>1 DEF GrantCovers, Goto, IInv, TypeOK
  <2>3. /\ standing[PairOf(r)] = consented[PairOf(r)]
        /\ grants[PairOf(r)] \subseteq consented[PairOf(r)]
    BY <2>2 DEF IInv, StandingInv, WithinConsent
  <2> QED BY <2>2, <2>3
<1> QED BY <1>1, Inductive, PTL DEF Spec, SilentWithinConsent

\* The refresh tokens that are live after a withdrawal have an approval given
\* since, or come from a code that was under way at the withdrawal, or from a
\* rotation that was in flight between its snapshot and its COMMIT.
THEOREM WithdrawalIsEffective == Spec => []WithdrawalEndsTokens
<1>1. IInv => WithdrawalEndsTokens
  BY DEF IInv, TypeOK, OutstandingInv, WithdrawalEndsTokens
<1> QED BY Inductive, <1>1, PTL

----------------------------------------------------------------------------
(* Authorization codes implement the abstract single-use secret.           *)

LEMMA InitRefines == Init => CodesOnce!Init
BY DEF Init, Issued, CodesOnce!Init

\* A code is new when it is issued: it has not been answered.
LEMMA IssueRefines ==
  ASSUME IInv, NEW r \in Requests, IssueCode(r)
  PROVE  \E c \in Codes : CodesOnce!Issue(c)
<1>1. PICK n \in Codes :
        /\ n \notin Issued
        /\ codes' = [codes EXCEPT ![n] = [client |-> job[r].client,
                       user |-> job[r].user, scopes |-> job[r].scopes]]
        /\ used' = used /\ responses' = responses
  <2>1. NewCode \in Codes /\ NewCode \notin Issued
    BY DEF IssueCode, NewCode, Issued
  <2> QED BY <2>1 DEF IssueCode, tokens
<1>2. used \subseteq Issued /\ codes \in [Codes -> CodeRow \union {NoCode}]
  BY DEF IInv, TypeOK
<1>3. codes'[n] \in CodeRow
  BY <1>1, <1>2 DEF IssueCode, IInv, JobInv, Job, CodeRow
<1>4. Issued' = Issued \union {n}
  BY <1>1, <1>2, <1>3, RowAssumption DEF RowAssumption, Issued
<1>5. n \notin used /\ responses[n] = 0
  BY <1>1, <1>2 DEF IInv, RedeemInv
<1> QED BY <1>1, <1>2, <1>4, <1>5 DEF CodesOnce!Issue

\* The guarded UPDATE redeems an open code, or finds it spent.
LEMMA ConsumeRefines ==
  ASSUME IInv, NEW r \in Requests, Consume(r)
  PROVE  (\E c \in Codes : CodesOnce!Redeem(c)) \/ UNCHANGED CodesOnce!vars
<1> DEFINE c == job[r].code
<1>1. /\ c \in Codes /\ c \in Issued
      /\ used' = used \union {c} /\ codes' = codes /\ responses' = responses
  BY DEF Consume, tokens, IInv, JobInv, Issued
<1>2. Issued' = Issued
  BY <1>1 DEF Issued
<1>3. CASE c \in used
  BY <1>1, <1>2, <1>3 DEF CodesOnce!vars
<1>4. CASE c \notin used
  BY <1>1, <1>2, <1>4 DEF CodesOnce!Redeem
<1> QED BY <1>3, <1>4

\* Tokens are given for a code that is spent and has given none.
LEMMA MintRefines ==
  ASSUME IInv, NEW r \in Requests, Mint(r)
  PROVE  \E c \in Codes : CodesOnce!Answer(c)
<1> DEFINE c == job[r].code
<1>0. /\ c \in used /\ responses[c] = 0
      /\ responses' = [responses EXCEPT ![c] = responses[c] + 1]
      /\ codes' = codes /\ used' = used
  BY DEF Mint, rows, IInv, RedeemInv, Redeeming
<1>1. /\ c \in used /\ c \in Codes /\ responses[c] = 0
      /\ responses' = [responses EXCEPT ![c] = 1]
      /\ codes' = codes /\ used' = used
  BY <1>0 DEF IInv, TypeOK, Issued
<1>2. Issued' = Issued
  BY <1>1 DEF Issued
<1> QED BY <1>1, <1>2 DEF CodesOnce!Answer

LEMMA NextRefines ==
  ASSUME IInv, [Next]_vars
  PROVE  CodesOnce!Next \/ UNCHANGED CodesOnce!vars
<1>1. ASSUME UNCHANGED <<codes, used, responses>>
      PROVE  UNCHANGED CodesOnce!vars
  BY <1>1 DEF CodesOnce!vars, Issued
<1>2. ASSUME NEW r \in Requests, Accept(r) \/ Serve(r) \/ Fail(r)
      PROVE  CodesOnce!Next \/ UNCHANGED CodesOnce!vars
  <2>1. CASE IssueCode(r) \/ Consume(r) \/ Mint(r)
    BY <2>1, IssueRefines, ConsumeRefines, MintRefines DEF CodesOnce!Next
  <2>2. CASE ~(IssueCode(r) \/ Consume(r) \/ Mint(r))
    BY <1>1, <1>2, <2>2 DEF Accept, AcceptAuthorize, AcceptConsent, AcceptExchange,
       AcceptRefresh, AcceptWithdraw, Arrive, Serve, CheckMember, GrantCovers, FindCode,
       ReadGrant, WriteGrant, LockPresented, Rotate, LoadGrant, ScanGrant, RevokeGrant,
       Withdraw, Fail, rows, tokens
  <2> QED BY <2>1, <2>2
<1>3. CASE UNCHANGED vars \/ (\E c \in Codes : Lapse(c) \/ EndFamily(c))
  BY <1>1, <1>3 DEF vars, Lapse, EndFamily, rows, tokens
<1> QED BY <1>2, <1>3 DEF Next

\* Refinement: a code is issued, redeemed once and answered once at most,
\* whatever requests present it and wherever they are lost.
THEOREM RefinesOneTime == Spec => ImplementsOneTime
<1>1. IInv /\ [Next]_vars => [CodesOnce!Next]_(CodesOnce!vars)
  BY NextRefines
<1> QED BY InitRefines, Inductive, <1>1, PTL DEF Spec, ImplementsOneTime, CodesOnce!Spec
=============================================================================
