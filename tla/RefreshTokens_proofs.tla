------------------------ MODULE RefreshTokens_proofs ------------------------
(***************************************************************************)
(* Proofs about RefreshTokens, for any numbers of tokens, requests,        *)
(* clients, members and accounts.                                          *)
(*                                                                         *)
(* The safety properties are not inductive alone.  They rest on what the   *)
(* row locks guarantee: between SELECT ... FOR UPDATE and COMMIT nobody    *)
(* else can revoke or rotate the presented row (LockInv), every successor  *)
(* was inserted by exactly one request (MintInv), and a sweep holds or     *)
(* still has to lock a set of rows closed under predecessors (SweepInv).   *)
(* That is IInv.  What the sweeps and the membership check promise rests   *)
(* on a second invariant, HInv, whose preservation uses the first.         *)
(***************************************************************************)
EXTENDS RefreshTokens, TLAPS

RotationStages == {"rotate", "successor", "family"}
AdminStages    == {"status", "scan"}

\* What a request carries at each stage.
JobInv ==
  \A r \in Requests :
    /\ pc[r] # "idle" /\ job[r].kind \in {"refresh", "revoke"}
         => job[r].tok \in issued
    /\ pc[r] \in RotationStages \union {"lock"} => job[r].kind = "refresh"
    /\ pc[r] = "revoke" => job[r].kind = "revoke"
    /\ pc[r] \in AdminStages => job[r].kind \in {"suspend", "remove", "reset"}
    /\ pc[r] \in RotationStages \union AdminStages \union
                {"idle", "find", "check", "lock", "sweep"} => minted[r] = NoToken
    /\ pc[r] = "mint" => (job[r].kind = "refresh" <=> minted[r] # NoToken)
    /\ pc[r] = "issue" => job[r].kind # "refresh" /\ minted[r] = NoToken
    /\ access[r] # "none" => pc[r] \in {"issue", "ok", "failed"}

\* Who holds which row locks, and what the holder may rely on.
LockInv ==
  /\ \A t \in Tokens : lock[t] # NoRequest => t \in issued
  /\ \A r \in Requests : pc[r] \in RotationStages =>
       \A t \in Tokens : lock[t] = r <=> t = job[r].tok
  /\ \A r \in Requests : pc[r] \notin RotationStages \union {"sweep"} =>
       \A t \in Tokens : lock[t] # r
  /\ \A r \in Requests : pc[r] = "rotate" => job[r].tok \notin revoked

\* A family is named by a row of it.
FamilyInv == \A t \in issued : family[t] \in issued

\* Every successor has one request that inserted it.
MintInv ==
  /\ \A r \in Requests : minted[r] # NoToken /\ job[r].kind = "refresh" =>
       /\ pc[r] # "idle"
       /\ job[r].tok \in revoked
       /\ rotatedFrom[minted[r]] = job[r].tok
  /\ \A c \in issued : rotatedFrom[c] # NoToken =>
       \E q \in Requests : minted[q] = c

\* A family sweep covers the predecessors of every row it covers.
SweepInv ==
  \A r \in Requests : pc[r] = "sweep" /\ job[r].kind = "refresh" =>
    \A t \in Tokens : (t \in todo[r] \/ lock[t] = r) /\ rotatedFrom[t] # NoToken
       => rotatedFrom[t] \in todo[r] \/ lock[rotatedFrom[t]] = r

\* A reuse verdict, and the sweep before it, follow a successor seen.
VerdictInv ==
  \A r \in Requests :
    \/ pc[r] \in {"family", "reuse"}
    \/ pc[r] = "sweep" /\ job[r].kind = "refresh"
    => \E q \in Requests \ {r} :
         minted[q] # NoToken /\ rotatedFrom[minted[q]] = job[r].tok

IInv ==
  /\ TypeOK
  /\ JobInv
  /\ LockInv
  /\ FamilyInv
  /\ MintInv
  /\ SweepInv
  /\ VerdictInv
  /\ AtMostOneLive
  /\ OneRotationPerToken
  /\ RotationInherits
  /\ ReuseMarksPrefix

----------------------------------------------------------------------------

LEMMA FreshId ==
  ASSUME Tokens \ issued # {}
  PROVE  NewId \in Tokens /\ NewId \notin issued
BY DEF NewId

\* The properties of the table alone survive a step that leaves it alone.
LEMMA TableUnchanged ==
  ASSUME IInv, UNCHANGED table
  PROVE  (FamilyInv /\ AtMostOneLive /\ RotationInherits /\ ReuseMarksPrefix)'
BY DEF IInv, table, FamilyInv, AtMostOneLive, RotationInherits, ReuseMarksPrefix, Live

LEMMA InitIInv == Init => IInv
<1> SUFFICES ASSUME Init PROVE IInv
  OBVIOUS
<1> USE TokenAssumption DEF TokenAssumption, Init
<1>1. TypeOK
  BY DEF TypeOK, Stages, Binding
<1>2. JobInv /\ LockInv
  BY DEF JobInv, LockInv, RotationStages, AdminStages
<1>3. MintInv /\ SweepInv /\ VerdictInv
  BY DEF MintInv, SweepInv, VerdictInv
<1>4. FamilyInv /\ AtMostOneLive /\ OneRotationPerToken
  BY DEF FamilyInv, AtMostOneLive, OneRotationPerToken
<1>5. RotationInherits /\ ReuseMarksPrefix
  BY DEF RotationInherits, ReuseMarksPrefix
<1> QED BY <1>1, <1>2, <1>3, <1>4, <1>5 DEF IInv

\* The arrival of a request fixes its input; it has minted nothing yet.
LEMMA AcceptIInv ==
  ASSUME IInv, NEW r \in Requests, Accept(r)
  PROVE  IInv'
<1> USE DEF IInv
<1>0. /\ UNCHANGED <<table, expired, membership, lock, known, todo, minted, access, history>>
      /\ pc[r] = "idle"
      /\ pc' = [pc EXCEPT ![r] = pc'[r]]
      /\ pc'[r] \in {"check", "find", "status", "scan"}
      /\ job' = [job EXCEPT ![r] = job'[r]]
      /\ job'[r] \in Job
      /\ pc'[r] \in {"status", "scan"} => job'[r].kind \in {"suspend", "remove", "reset"}
      /\ job'[r].kind \in {"refresh", "revoke"} => job'[r].tok \in issued
  <2> USE DEF TypeOK, Goto, Job, AllKinds
  <2>1. CASE AcceptExchange(r)
    BY <2>1 DEF AcceptExchange
  <2>2. CASE AcceptPresented(r)
    BY <2>2 DEF AcceptPresented
  <2>3. CASE AcceptAdmin(r)
    BY <2>3, MemberAssumption DEF AcceptAdmin, MemberAssumption
  <2> QED BY <2>1, <2>2, <2>3 DEF Accept
<1>1. TypeOK'
  BY <1>0 DEF TypeOK, table, Stages, membership, history
<1>2. JobInv' /\ LockInv'
  BY <1>0 DEF JobInv, LockInv, TypeOK, table, RotationStages, AdminStages
<1>3. MintInv' /\ SweepInv' /\ VerdictInv'
  BY <1>0 DEF JobInv, MintInv, SweepInv, VerdictInv, TypeOK, table
<1>4. OneRotationPerToken'
  BY <1>0 DEF JobInv, OneRotationPerToken, TypeOK, table
<1> QED BY <1>0, <1>1, <1>2, <1>3, <1>4, TableUnchanged

\* Statements that read, or write only memberships and access records.
LEMMA ReadIInv ==
  ASSUME IInv, NEW r \in Requests,
         \/ FindForRefresh(r) \/ CheckMember(r) \/ FindForRevoke(r)
         \/ Suspend(r) \/ Remove(r) \/ RevokeAccessOf(r)
  PROVE  IInv'
<1> USE DEF IInv
<1>0. /\ UNCHANGED <<table, expired, lock, known, job, todo, minted>>
      /\ members' \subseteq members /\ active' \subseteq active
      /\ active' \subseteq members'
      /\ late' \subseteq Requests /\ UNCHANGED <<snapshot, spared>>
      /\ access' \in [Requests -> {"none", "live", "revoked"}]
      /\ \A q \in Requests : access'[q] # "none" <=> access[q] # "none"
      /\ pc[r] \in {"find", "check", "status", "access"}
      /\ pc' = [pc EXCEPT ![r] = pc'[r]]
      /\ pc'[r] \in {"check", "denied", "lock", "mint", "revoke", "ok", "scan"}
      /\ pc'[r] = "lock" => job[r].kind = "refresh"
      /\ pc'[r] = "revoke" => job[r].kind = "revoke"
      /\ pc'[r] = "check" => pc[r] = "find"
      /\ pc'[r] = "lock" => pc[r] = "check"
      /\ pc'[r] = "scan" => pc[r] = "status"
      /\ pc'[r] = "mint" => pc[r] = "check" /\ job[r].kind # "refresh"
  BY DEF TypeOK, Goto, FindForRefresh, CheckMember, FindForRevoke, Suspend,
         Remove, RevokeAccessOf, Admitted, membership, history
<1>1. TypeOK'
  BY <1>0 DEF TypeOK, table, Stages, Outcomes, membership, history
<1>2. JobInv'
  <2>1. \A q \in Requests \ {r} : pc'[q] = pc[q]
    BY <1>0 DEF TypeOK
  <2>2. issued' = issued /\ job' = job /\ minted' = minted
    BY <1>0 DEF table
  <2>3. pc[r] \notin RotationStages /\ pc'[r] \notin RotationStages /\ pc[r] # "idle"
    BY <1>0 DEF RotationStages
  <2>4. pc'[r] \in {"check", "lock"} => minted[r] = NoToken
    BY <1>0 DEF JobInv
  <2>5. pc'[r] \notin {"idle", "find", "sweep", "status"}
    BY <1>0
  <2>6. pc'[r] = "scan" => minted[r] = NoToken /\ job[r].kind \in {"suspend", "remove", "reset"}
    BY <1>0 DEF JobInv, AdminStages
  <2>7. pc'[r] = "mint" => job[r].kind # "refresh" /\ minted[r] = NoToken
    BY <1>0 DEF JobInv
  <2>8. pc'[r] # "issue" /\ access'[r] = "none"
    BY <1>0 DEF JobInv, TypeOK
  <2> QED BY <1>0, <2>1, <2>2, <2>3, <2>4, <2>5, <2>6, <2>7, <2>8 DEF JobInv, AdminStages
<1>5. LockInv'
  BY <1>0 DEF LockInv, TypeOK, table, RotationStages
<1>3. MintInv' /\ SweepInv' /\ VerdictInv'
  BY <1>0 DEF MintInv, SweepInv, VerdictInv, TypeOK, table
<1>4. OneRotationPerToken'
  BY <1>0 DEF OneRotationPerToken, TypeOK, table
<1> QED BY <1>0, <1>1, <1>2, <1>3, <1>4, <1>5, TableUnchanged

\* SELECT ... FOR UPDATE takes a free lock and nothing else.
LEMMA LockPresentedIInv ==
  ASSUME IInv, NEW r \in Requests, LockPresented(r)
  PROVE  IInv'
<1> USE DEF IInv, LockPresented, Goto
<1>1. TypeOK'
  BY DEF TypeOK, table, Stages, Job, membership, history
<1>2. JobInv'
  BY DEF JobInv, TypeOK, table, RotationStages, AdminStages
<1>3. LockInv'
  <2>1. job[r].tok \in issued /\ job[r].tok \in Tokens
    BY DEF JobInv, TypeOK
  <2>2. \A t \in Tokens : lock'[t] = IF t = job[r].tok THEN r ELSE lock[t]
    BY <2>1 DEF TypeOK
  <2>3. \A q \in Requests : pc[q] \in RotationStages => job[q].tok # job[r].tok
    BY <2>1, TokenAssumption DEF TokenAssumption, LockInv
  <2>4. \A q \in Requests \ {r} : pc'[q] = pc[q]
    BY DEF TypeOK
  <2>5. pc'[r] \in {"successor", "rotate"}
    BY DEF TypeOK
  <2>6. \A t \in Tokens : lock[t] # r
    BY DEF LockInv, RotationStages
  <2>7. pc'[r] = "rotate" => job[r].tok \notin revoked
    BY DEF TypeOK
  <2> HIDE DEF LockPresented
  <2>8. UNCHANGED <<issued, revoked, job>>
    BY DEF LockPresented, table
  <2>9. \A q \in Requests \ {r} : \A t \in Tokens : lock'[t] = q <=> lock[t] = q
    BY <2>2, <2>5, TokenAssumption DEF TokenAssumption, LockInv, LockPresented
  <2>10. \A t \in Tokens : lock'[t] = r <=> t = job[r].tok
    BY <2>2, <2>6
  <2>11. \A t \in Tokens : lock'[t] # NoRequest => t \in issued
    BY <2>1, <2>2 DEF LockInv
  <2>12. \A q \in Requests : pc'[q] \in RotationStages =>
           \A t \in Tokens : lock'[t] = q <=> t = job'[q].tok
    BY <2>4, <2>8, <2>9, <2>10 DEF LockInv
  <2>13. \A q \in Requests : pc'[q] \notin RotationStages \union {"sweep"} =>
           \A t \in Tokens : lock'[t] # q
    BY <2>4, <2>5, <2>9 DEF LockInv, RotationStages
  <2>14. \A q \in Requests : pc'[q] = "rotate" => job'[q].tok \notin revoked'
    BY <2>4, <2>7, <2>8 DEF LockInv
  <2> QED BY <2>8, <2>11, <2>12, <2>13, <2>14 DEF LockInv, RotationStages
<1>4. MintInv' /\ VerdictInv'
  BY DEF MintInv, VerdictInv, TypeOK, table
<1>5. SweepInv'
  BY TokenAssumption DEF TokenAssumption, SweepInv, TypeOK, table
<1>6. OneRotationPerToken'
  BY DEF OneRotationPerToken, TypeOK, table
<1> QED BY <1>1, <1>2, <1>3, <1>4, <1>5, <1>6, TableUnchanged

\* A rotation revokes the row it holds and inserts one successor.
LEMMA RotateIInv ==
  ASSUME IInv, NEW r \in Requests, Rotate(r)
  PROVE  IInv'
<1> DEFINE n == NewId
           t == job[r].tok
<1> USE DEF IInv
<1>0. /\ n \in Tokens /\ n \notin issued
      /\ t \in Tokens /\ t \in issued /\ t \notin revoked /\ t # n
      /\ job[r].kind = "refresh" /\ pc[r] = "rotate"
      /\ minted[r] = NoToken
      /\ issued' = issued \union {n}
      /\ family' = [family EXCEPT ![n] = family[t]]
      /\ rotatedFrom' = [rotatedFrom EXCEPT ![n] = t]
      /\ binding' = [binding EXCEPT ![n] = binding[t]]
      /\ minted' = [minted EXCEPT ![r] = n]
      /\ revoked' = revoked \union {t}
      /\ lock' = [s \in Tokens |-> IF lock[s] = r THEN NoRequest ELSE lock[s]]
      /\ pc' = [pc EXCEPT ![r] = "mint"]
      /\ UNCHANGED <<reused, expired, membership, known, job, todo, access, history>>
  BY FreshId DEF Rotate, Goto, Release, JobInv, LockInv, TypeOK, RotationStages
<1> HIDE DEF n, t
<1>1. TypeOK'
  BY <1>0 DEF TypeOK, Stages, membership, history
<1>2. JobInv'
  BY <1>0, TokenAssumption DEF TokenAssumption, JobInv, TypeOK, RotationStages, AdminStages
<1>3. LockInv'
  BY <1>0, TokenAssumption DEF TokenAssumption, LockInv, TypeOK, RotationStages, t
<1>4. MintInv'
  BY <1>0, TokenAssumption DEF TokenAssumption, MintInv, TypeOK, t
<1>5. SweepInv'
  BY <1>0, TokenAssumption DEF TokenAssumption, SweepInv, LockInv, TypeOK
<1>6. VerdictInv'
  BY <1>0, TokenAssumption DEF TokenAssumption, VerdictInv, TypeOK
<1>7. AtMostOneLive' /\ FamilyInv'
  BY <1>0 DEF AtMostOneLive, FamilyInv, Live, TypeOK
<1>8. OneRotationPerToken'
  BY <1>0, TokenAssumption DEF TokenAssumption, OneRotationPerToken, MintInv, TypeOK, t
<1>9. RotationInherits' /\ ReuseMarksPrefix'
  BY <1>0, TokenAssumption DEF TokenAssumption, RotationInherits, ReuseMarksPrefix, TypeOK
<1> QED BY <1>1, <1>2, <1>3, <1>4, <1>5, <1>6, <1>7, <1>8, <1>9

\* The successor check decides between a family sweep and the end of the
\* transaction; the sweep starts from the rows committed so far.
LEMMA CheckSuccessorIInv ==
  ASSUME IInv, NEW r \in Requests, CheckSuccessor(r)
  PROVE  IInv'
<1> USE TokenAssumption DEF TokenAssumption, IInv
<1>0. /\ UNCHANGED <<table, expired, membership, known, job, todo, minted, access, history>>
      /\ pc[r] = "successor" /\ job[r].kind = "refresh" /\ minted[r] = NoToken
      /\ \/ /\ lock' = lock
            /\ pc' = [pc EXCEPT ![r] = "family"]
            /\ \E c \in issued : rotatedFrom[c] = job[r].tok
         \/ /\ lock' = [s \in Tokens |-> IF lock[s] = r THEN NoRequest ELSE lock[s]]
            /\ pc' = [pc EXCEPT ![r] = "revoked"]
  BY DEF CheckSuccessor, IsLeaf, Goto, Release, JobInv, RotationStages
<1>1. TypeOK'
  BY <1>0 DEF TypeOK, table, Stages, Outcomes, membership, history
<1>2. JobInv'
  BY <1>0 DEF JobInv, TypeOK, table, RotationStages, AdminStages
<1>3. LockInv'
  BY <1>0 DEF LockInv, TypeOK, table, RotationStages
<1>4. MintInv' /\ OneRotationPerToken'
  BY <1>0 DEF MintInv, OneRotationPerToken, TypeOK, table
<1>5. SweepInv'
  BY <1>0 DEF SweepInv, LockInv, TypeOK, table
<1>6. VerdictInv'
  <2>1. ASSUME NEW c \in issued, rotatedFrom[c] = job[r].tok
        PROVE  \E q \in Requests \ {r} :
                 minted[q] # NoToken /\ rotatedFrom[minted[q]] = job[r].tok
    <3>1. job[r].tok # NoToken
      BY <1>0 DEF JobInv, TypeOK
    <3> QED BY <1>0, <2>1, <3>1 DEF MintInv, TypeOK
  <2>2. \A q \in Requests \ {r} : pc'[q] = pc[q]
    BY <1>0 DEF TypeOK
  <2> QED BY <1>0, <2>1, <2>2 DEF VerdictInv, TypeOK, table
<1> QED BY <1>0, <1>1, <1>2, <1>3, <1>4, <1>5, <1>6, TableUnchanged

LEMMA ScanFamilyIInv ==
  ASSUME IInv, NEW r \in Requests, ScanFamily(r)
  PROVE  IInv'
<1> USE TokenAssumption DEF TokenAssumption, IInv, ScanFamily, Sweep, Goto
<1>1. TypeOK'
  BY DEF TypeOK, table, Stages, FamilyOf, membership, history
<1>2. JobInv' /\ LockInv'
  BY DEF JobInv, LockInv, TypeOK, table, RotationStages, AdminStages
<1>3. MintInv' /\ OneRotationPerToken'
  BY DEF MintInv, OneRotationPerToken, TypeOK, table
<1>4. SweepInv'
  <2>1. job[r].tok \in issued
    BY DEF JobInv, RotationStages
  <2>2. \A t \in Tokens : lock[t] = r <=> t = job[r].tok
    BY DEF LockInv, RotationStages
  <2>3. \A t \in FamilyOf(job[r].tok) : rotatedFrom[t] # NoToken =>
          rotatedFrom[t] \in FamilyOf(job[r].tok)
    BY DEF FamilyOf, RotationInherits, TypeOK
  <2>4. job[r].tok \in FamilyOf(job[r].tok)
    BY <2>1 DEF FamilyOf
  <2> QED BY <2>2, <2>3, <2>4 DEF SweepInv, TypeOK, table
<1>5. VerdictInv'
  BY DEF VerdictInv, TypeOK, table
<1> QED BY <1>1, <1>2, <1>3, <1>4, <1>5, TableUnchanged

LEMMA ScanUserIInv ==
  ASSUME IInv, NEW r \in Requests, ScanUser(r)
  PROVE  IInv'
<1> USE TokenAssumption DEF TokenAssumption, IInv, ScanUser, Sweep, Goto
<1>1. TypeOK'
  BY DEF TypeOK, table, Stages, LiveOf, membership, history
<1>2. JobInv' /\ LockInv'
  BY DEF JobInv, LockInv, TypeOK, table, RotationStages, AdminStages
<1>3. MintInv' /\ OneRotationPerToken'
  BY DEF MintInv, OneRotationPerToken, TypeOK, table
<1>4. SweepInv' /\ VerdictInv'
  BY DEF SweepInv, VerdictInv, JobInv, AdminStages, TypeOK, table
<1> QED BY <1>1, <1>2, <1>3, <1>4, TableUnchanged

\* A sweep takes free locks only, and leaves out rows only for a user's
\* revocation.
LEMMA SweepRowIInv ==
  ASSUME IInv, NEW r \in Requests, SweepRow(r)
  PROVE  IInv'
<1> USE TokenAssumption DEF TokenAssumption, IInv
<1>0. PICK t \in todo[r] :
        /\ pc[r] = "sweep" /\ t \in issued /\ t \in Tokens
        /\ lock[t] \in {NoRequest, r}
        /\ todo' = [todo EXCEPT ![r] = todo[r] \ {t}]
        /\ \/ lock' = lock /\ job[r].kind # "refresh"
           \/ lock' = [lock EXCEPT ![t] = r]
        /\ UNCHANGED <<table, expired, membership, known, pc, job, minted, access, history>>
  BY DEF SweepRow, TypeOK
<1>1. TypeOK'
  BY <1>0 DEF TypeOK, table, membership, history
<1>2. JobInv'
  BY <1>0 DEF JobInv, TypeOK, table, RotationStages, AdminStages
<1>3. LockInv'
  <2>1. \A q \in Requests \ {r} : \A s \in Tokens : lock'[s] = q <=> lock[s] = q
    BY <1>0 DEF TypeOK
  <2>2. \A s \in Tokens : lock'[s] # NoRequest => s \in issued
    BY <1>0 DEF LockInv, TypeOK
  <2> QED BY <1>0, <2>1, <2>2 DEF LockInv, RotationStages, table
<1>4. MintInv' /\ OneRotationPerToken' /\ VerdictInv'
  BY <1>0 DEF MintInv, OneRotationPerToken, VerdictInv, TypeOK, table
<1>5. SweepInv'
  <2>1. \A q \in Requests \ {r} : \A s \in Tokens : lock'[s] = q <=> lock[s] = q
    BY <1>0 DEF TypeOK
  <2>2. \A q \in Requests \ {r} : todo'[q] = todo[q]
    BY <1>0 DEF TypeOK
  <2>3. \A s \in Tokens : rotatedFrom[s] # NoToken => rotatedFrom[s] \in Tokens
    BY DEF TypeOK
  <2>4. job[r].kind = "refresh" => \A s \in Tokens :
          s \in todo'[r] \/ lock'[s] = r <=> s \in todo[r] \/ lock[s] = r
    BY <1>0 DEF TypeOK
  <2> QED BY <1>0, <2>1, <2>2, <2>3, <2>4 DEF SweepInv, table
<1> QED BY <1>0, <1>1, <1>2, <1>3, <1>4, <1>5, TableUnchanged

\* The commit of a sweep revokes what it holds, never the row of a rotation.
LEMMA CommitSweepIInv ==
  ASSUME IInv, NEW r \in Requests, CommitSweep(r)
  PROVE  IInv'
<1> USE TokenAssumption DEF TokenAssumption, IInv
<1>0. /\ pc[r] = "sweep" /\ todo[r] = {}
      /\ revoked' = revoked \union Held(r)
      /\ reused' \subseteq reused \union Held(r)
      /\ reused' = IF job[r].kind = "refresh" THEN reused \union Held(r) ELSE reused
      /\ lock' = [s \in Tokens |-> IF lock[s] = r THEN NoRequest ELSE lock[s]]
      /\ pc' = [pc EXCEPT ![r] = pc'[r]]
      /\ pc'[r] \in {"reuse", "access"}
      /\ pc'[r] = "reuse" => job[r].kind = "refresh"
      /\ UNCHANGED <<issued, family, rotatedFrom, binding, expired, membership,
                     known, job, todo, minted, access, history>>
  BY DEF CommitSweep, Release, Goto, TypeOK
<1>00. Held(r) \subseteq issued /\ \A s \in Tokens : s \in Held(r) <=> lock[s] = r
  BY DEF Held, LockInv
<1>1. TypeOK'
  BY <1>0, <1>00 DEF TypeOK, Stages, Outcomes, membership, history
<1>2. JobInv'
  BY <1>0 DEF JobInv, TypeOK, RotationStages, AdminStages
<1>3. LockInv'
  BY <1>0, <1>00 DEF LockInv, JobInv, TypeOK, RotationStages
<1>4. MintInv' /\ OneRotationPerToken'
  BY <1>0 DEF MintInv, OneRotationPerToken, TypeOK
<1>5. VerdictInv'
  BY <1>0 DEF VerdictInv, TypeOK
<1>6. SweepInv'
  BY <1>0 DEF SweepInv, TypeOK
<1>7. AtMostOneLive' /\ FamilyInv'
  BY <1>0 DEF AtMostOneLive, FamilyInv, Live, TypeOK
<1>8. RotationInherits'
  BY <1>0 DEF RotationInherits, TypeOK
<1>9. ReuseMarksPrefix'
  BY <1>0, <1>00 DEF ReuseMarksPrefix, SweepInv, TypeOK
<1> QED BY <1>1, <1>2, <1>3, <1>4, <1>5, <1>6, <1>7, <1>8, <1>9

LEMMA MintAccessIInv ==
  ASSUME IInv, NEW r \in Requests, MintAccess(r)
  PROVE  IInv'
<1> USE TokenAssumption DEF TokenAssumption, IInv
<1>0. /\ UNCHANGED <<table, expired, membership, lock, job, todo, minted, history>>
      /\ access' = [access EXCEPT ![r] = "live"]
      /\ known' \subseteq issued
      /\ pc[r] = "mint"
      /\ pc' = [pc EXCEPT ![r] = pc'[r]]
      /\ pc'[r] \in {"ok", "issue"}
      /\ pc'[r] = "issue" => job[r].kind # "refresh" /\ minted[r] = NoToken
  BY DEF MintAccess, Goto, JobInv, TypeOK
<1>1. TypeOK'
  BY <1>0 DEF TypeOK, table, Stages, Outcomes, membership, history
<1>2. JobInv' /\ LockInv'
  BY <1>0 DEF JobInv, LockInv, TypeOK, table, RotationStages, AdminStages
<1>3. MintInv' /\ OneRotationPerToken'
  BY <1>0 DEF MintInv, OneRotationPerToken, TypeOK, table
<1>4. SweepInv' /\ VerdictInv'
  BY <1>0 DEF SweepInv, VerdictInv, TypeOK, table
<1> QED BY <1>0, <1>1, <1>2, <1>3, <1>4, TableUnchanged

\* The first token of a family is in no other family and has no predecessor.
LEMMA IssueRefreshIInv ==
  ASSUME IInv, NEW r \in Requests, IssueRefresh(r)
  PROVE  IInv'
<1> DEFINE n == NewId
<1> USE TokenAssumption DEF TokenAssumption, IInv
<1>0. PICK b \in Binding :
      /\ n \in Tokens /\ n \notin issued
      /\ pc[r] = "issue"
      /\ issued' = issued \union {n}
      /\ family' = [family EXCEPT ![n] = n]
      /\ rotatedFrom' = [rotatedFrom EXCEPT ![n] = NoToken]
      /\ binding' = [binding EXCEPT ![n] = b]
      /\ minted' = [minted EXCEPT ![r] = n]
      /\ known' = known \union {n}
      /\ pc' = [pc EXCEPT ![r] = "ok"]
      /\ UNCHANGED <<revoked, reused, expired, membership, lock, job, todo, access, history>>
  <2>1. PICK m \in job[r].target :
          binding' = [binding EXCEPT ![n] = [client |-> job[r].client, member |-> m]]
    BY DEF IssueRefresh
  <2>2. job[r] \in Job
    BY DEF IssueRefresh, TypeOK
  <2>3. [client |-> job[r].client, member |-> m] \in Binding
    BY <2>1, <2>2 DEF Job, Binding
  <2> QED BY <2>1, <2>3, FreshId DEF IssueRefresh, Goto
<1>1. TypeOK'
  BY <1>0 DEF TypeOK, Outcomes, membership, history
<1>2. JobInv'
  BY <1>0 DEF JobInv, TypeOK, RotationStages, AdminStages
<1>3. LockInv'
  BY <1>0 DEF LockInv, TypeOK, RotationStages
<1>4. minted[r] = NoToken /\ job[r].kind # "refresh"
  BY <1>0 DEF JobInv
<1>5. MintInv' /\ OneRotationPerToken'
  BY <1>0, <1>4 DEF MintInv, OneRotationPerToken, TypeOK
<1>6. SweepInv'
  BY <1>0 DEF SweepInv, LockInv, TypeOK
<1>7. VerdictInv'
  BY <1>0, <1>4 DEF VerdictInv, TypeOK
<1>8. FamilyInv' /\ AtMostOneLive'
  BY <1>0 DEF FamilyInv, AtMostOneLive, Live, TypeOK
<1>9. RotationInherits' /\ ReuseMarksPrefix'
  BY <1>0 DEF RotationInherits, ReuseMarksPrefix, TypeOK
<1> QED BY <1>1, <1>2, <1>3, <1>5, <1>6, <1>7, <1>8, <1>9

LEMMA RevokePresentedIInv ==
  ASSUME IInv, NEW r \in Requests, RevokePresented(r)
  PROVE  IInv'
<1> USE TokenAssumption DEF TokenAssumption, IInv
<1>0. /\ pc[r] = "revoke" /\ job[r].kind = "revoke"
      /\ job[r].tok \in issued
      /\ lock[job[r].tok] = NoRequest
      /\ revoked' = revoked \union {job[r].tok}
      /\ pc' = [pc EXCEPT ![r] = "ok"]
      /\ UNCHANGED <<issued, family, rotatedFrom, binding, reused, expired,
                     membership, lock, known, job, todo, minted, access, history>>
  BY DEF RevokePresented, Goto, JobInv
<1>1. TypeOK'
  BY <1>0 DEF TypeOK, Outcomes, membership, history
<1>2. JobInv'
  BY <1>0 DEF JobInv, TypeOK, RotationStages, AdminStages
<1>3. LockInv'
  BY <1>0 DEF LockInv, TypeOK, RotationStages
<1>4. MintInv' /\ OneRotationPerToken'
  BY <1>0 DEF MintInv, OneRotationPerToken, TypeOK
<1>5. SweepInv' /\ VerdictInv'
  BY <1>0 DEF SweepInv, VerdictInv, TypeOK
<1>6. FamilyInv' /\ AtMostOneLive' /\ RotationInherits' /\ ReuseMarksPrefix'
  BY <1>0 DEF FamilyInv, AtMostOneLive, RotationInherits, ReuseMarksPrefix, Live, TypeOK
<1> QED BY <1>1, <1>2, <1>3, <1>4, <1>5, <1>6

\* A rollback releases locks; committed statements stay.
LEMMA AbortIInv ==
  ASSUME IInv, NEW r \in Requests, Fail(r) \/ DeadlockAbort(r)
  PROVE  IInv'
<1> USE TokenAssumption DEF TokenAssumption, IInv
<1>0. /\ pc[r] # "idle"
      /\ lock' = [s \in Tokens |-> IF lock[s] = r THEN NoRequest ELSE lock[s]]
      /\ todo' = [todo EXCEPT ![r] = {}]
      /\ pc' = [pc EXCEPT ![r] = "failed"]
      /\ late' \subseteq Requests /\ spared' \subseteq issued
      /\ UNCHANGED <<table, expired, membership, known, job, minted, access, snapshot>>
  BY DEF Fail, DeadlockAbort, Abort, InFlight, Release, Goto, LiveOf, TypeOK
<1>1. TypeOK'
  BY <1>0 DEF TypeOK, table, Outcomes, membership, history
<1>2. JobInv'
  BY <1>0 DEF JobInv, TypeOK, table, RotationStages, AdminStages
<1>3. LockInv'
  BY <1>0 DEF LockInv, TypeOK, table, RotationStages
<1>4. MintInv' /\ OneRotationPerToken'
  BY <1>0 DEF MintInv, OneRotationPerToken, TypeOK, table
<1>5. SweepInv' /\ VerdictInv'
  BY <1>0 DEF SweepInv, VerdictInv, TypeOK, table
<1> QED BY <1>0, <1>1, <1>2, <1>3, <1>4, <1>5, TableUnchanged

\* Time, memberships and access records do not touch refresh tokens.
LEMMA ElsewhereIInv ==
  ASSUME IInv,
         UNCHANGED <<table, lock, known, session>>,
         expired' \subseteq issued,
         members' \subseteq Members, active' \subseteq members',
         UNCHANGED history,
         access' \in [Requests -> {"none", "live", "revoked"}],
         \A r \in Requests : access'[r] # "none" <=> access[r] # "none"
  PROVE  IInv'
<1> USE DEF IInv, session
<1>1. TypeOK'
  BY DEF TypeOK, table, membership, history
<1>2. JobInv' /\ LockInv' /\ MintInv'
  BY DEF JobInv, LockInv, MintInv, RotationStages, AdminStages, table
<1>3. SweepInv' /\ VerdictInv' /\ OneRotationPerToken'
  BY DEF SweepInv, VerdictInv, OneRotationPerToken, table
<1> QED BY <1>1, <1>2, <1>3, TableUnchanged

LEMMA NextIInv == IInv /\ [Next]_vars => IInv'
<1> SUFFICES ASSUME IInv, [Next]_vars PROVE IInv'
  OBVIOUS
<1>1. ASSUME NEW r \in Requests, Serve(r) PROVE IInv'
  BY <1>1, ReadIInv, LockPresentedIInv, RotateIInv, CheckSuccessorIInv,
     ScanFamilyIInv, MintAccessIInv, IssueRefreshIInv, RevokePresentedIInv,
     ScanUserIInv, SweepRowIInv, CommitSweepIInv, AbortIInv DEF Serve
<1>2. ASSUME NEW r \in Requests, Accept(r) \/ Fail(r) PROVE IInv'
  BY <1>2, AcceptIInv, AbortIInv
<1>3. ASSUME NEW r \in Requests, RevokeAccess(r) PROVE IInv'
  <2>1. /\ access' \in [Requests -> {"none", "live", "revoked"}]
        /\ \A q \in Requests : access'[q] # "none" <=> access[q] # "none"
    BY <1>3 DEF RevokeAccess, IInv, TypeOK
  <2> QED BY <1>3, <2>1, ElsewhereIInv DEF RevokeAccess, membership, IInv, TypeOK
<1>4. ASSUME NEW m \in Members, Unsuspend(m) \/ Rejoin(m) PROVE IInv'
  BY <1>4, ElsewhereIInv DEF Unsuspend, Rejoin, membership, history, IInv, TypeOK
<1>5. ASSUME NEW t \in Tokens, Expire(t) PROVE IInv'
  BY <1>5, ElsewhereIInv DEF Expire, membership, IInv, TypeOK
<1>6. CASE UNCHANGED vars
  BY <1>6, ElsewhereIInv DEF vars, membership, IInv, TypeOK
<1> QED BY <1>1, <1>2, <1>3, <1>4, <1>5, <1>6 DEF Next, Environment, Quiescent

LEMMA SpecIInv == Spec => []IInv
BY InitIInv, NextIInv, PTL DEF Spec

----------------------------------------------------------------------------

\* Every reachable state has its types.
THEOREM TypeCorrect == Spec => []TypeOK
BY SpecIInv, PTL DEF IInv

\* rotate_refresh_token: whatever requests interleave, a family has at most
\* one live token.
THEOREM RotationIsExclusive == Spec => []AtMostOneLive
BY SpecIInv, PTL DEF IInv

\* rotate_refresh_token: of several requests that present one token, one mints
\* a successor, which belongs to the family, client and membership of the
\* revoked token it replaces.
THEOREM RotationIsFaithful == Spec => []RotationIsExact
<1>1. IInv => RotationIsExact
  BY DEF IInv, RotationIsExact
<1> QED BY SpecIInv, <1>1, PTL

\* Reuse detection marks whole prefixes of a family.
THEOREM ReuseCoversPast == Spec => []ReuseMarksPrefix
BY SpecIInv, PTL DEF IInv

\* A reuse verdict is given only for a token that another request rotated.
THEOREM ReuseVerdictIsJustified == Spec => []ReuseIsJustified
<1>1. IInv => ReuseIsJustified
  BY DEF IInv, VerdictInv, ReuseIsJustified
<1> QED BY SpecIInv, <1>1, PTL

----------------------------------------------------------------------------
(* What every step keeps.                                                  *)

\* A revoked row stays revoked and no column that identifies a row changes.
RowsKept ==
  /\ revoked \subseteq revoked'
  /\ \A t \in issued :
       /\ t \in issued'
       /\ family'[t] = family[t]
       /\ rotatedFrom'[t] = rotatedFrom[t]
       /\ binding'[t] = binding[t]
  /\ \A r \in Requests : access[r] = "revoked" => access'[r] = "revoked"

LEMMA StepKeepsRows == IInv /\ [Next]_vars => RowsKept
<1>1. ASSUME IInv, NEW r \in Requests, Serve(r) PROVE RowsKept
  <2>1. CASE Rotate(r) \/ IssueRefresh(r)
    BY <1>1, <2>1, FreshId DEF Rotate, IssueRefresh, RowsKept, IInv, TypeOK
  <2>2. CASE RevokePresented(r) \/ CommitSweep(r)
    BY <2>2 DEF RevokePresented, CommitSweep, RowsKept
  <2>3. CASE MintAccess(r)
    <3>1. access[r] = "none"
      BY <2>3, <1>1 DEF MintAccess, IInv, JobInv, TypeOK
    <3> QED BY <2>3, <3>1, <1>1 DEF MintAccess, table, RowsKept, IInv, TypeOK
  <2>4. CASE RevokeAccessOf(r)
    BY <2>4, <1>1 DEF RevokeAccessOf, table, RowsKept, IInv, TypeOK
  <2>5. CASE UNCHANGED <<table, access>>
    BY <2>5 DEF table, RowsKept
  <2> QED BY <1>1, <2>1, <2>2, <2>3, <2>4, <2>5 DEF Serve, FindForRefresh,
       CheckMember, LockPresented, CheckSuccessor, ScanFamily, FindForRevoke,
       Suspend, Remove, Sweep, ScanUser, SweepRow, DeadlockAbort, Abort
<1>2. ASSUME IInv, Environment PROVE RowsKept
  <2>1. CASE \E r \in Requests : RevokeAccess(r)
    BY <2>1, <1>2 DEF RevokeAccess, table, RowsKept, IInv, TypeOK
  <2>2. CASE UNCHANGED <<table, access>>
    BY <2>2 DEF table, RowsKept
  <2> QED BY <1>2, <2>1, <2>2 DEF Environment, Accept, AcceptExchange,
       AcceptPresented, AcceptAdmin, Fail, Abort, Unsuspend, Rejoin, Expire
<1>3. CASE UNCHANGED vars
  BY <1>3 DEF vars, table, RowsKept
<1> QED BY <1>1, <1>2, <1>3 DEF Next, Quiescent

\* A step of one request leaves the other requests where they are.
LEMMA OthersKept ==
  ASSUME IInv, NEW r \in Requests, Accept(r) \/ Serve(r) \/ Fail(r),
         NEW q \in Requests, q # r
  PROVE  /\ pc'[q] = pc[q] /\ job'[q] = job[q]
         /\ todo'[q] = todo[q] /\ snapshot'[q] = snapshot[q]
         /\ minted'[q] = minted[q]
<1> USE DEF IInv, TypeOK, Goto, history, session
<1>1. CASE Accept(r)
  BY <1>1 DEF Accept, AcceptExchange, AcceptPresented, AcceptAdmin
<1>2. CASE FindForRefresh(r) \/ CheckMember(r) \/ LockPresented(r) \/ Rotate(r)
  BY <1>2 DEF FindForRefresh, CheckMember, LockPresented, Rotate
<1>3. CASE CheckSuccessor(r) \/ ScanFamily(r) \/ MintAccess(r) \/ IssueRefresh(r)
  BY <1>3 DEF CheckSuccessor, ScanFamily, Sweep, MintAccess, IssueRefresh
<1>4. CASE FindForRevoke(r) \/ RevokePresented(r) \/ Suspend(r) \/ Remove(r) \/ ScanUser(r)
  BY <1>4 DEF FindForRevoke, RevokePresented, Suspend, Remove, ScanUser, Sweep
<1>5. CASE SweepRow(r) \/ CommitSweep(r) \/ RevokeAccessOf(r)
  BY <1>5 DEF SweepRow, CommitSweep, RevokeAccessOf
<1>6. CASE DeadlockAbort(r) \/ Fail(r)
  BY <1>6 DEF DeadlockAbort, Fail, Abort
<1> QED BY <1>1, <1>2, <1>3, <1>4, <1>5, <1>6 DEF Serve

\* A family without a live token never gets one: a rotation finds its token
\* live, and a token of a new grant opens a family that no row belonged to.
LEMMA StepKeepsEnds ==
  ASSUME IInv, [Next]_vars, NEW t \in issued, FamilyOf(t) \subseteq revoked
  PROVE  FamilyOf(t)' \subseteq revoked'
<1>1. RowsKept
  BY StepKeepsRows
<1>2. ASSUME NEW r \in Requests, Rotate(r)
      PROVE  FamilyOf(t)' \subseteq revoked'
  <2>1. /\ issued' = issued \union {NewId} /\ NewId \notin issued
        /\ family' = [family EXCEPT ![NewId] = family[job[r].tok]]
        /\ job[r].tok \in issued /\ job[r].tok \notin revoked
        /\ NewId \in Tokens
    BY <1>2, FreshId DEF Rotate, IInv, JobInv, LockInv, RotationStages
  <2>2. family'[NewId] # family[t]
    BY <2>1 DEF FamilyOf, IInv, TypeOK
  <2> QED BY <1>1, <2>1, <2>2 DEF FamilyOf, RowsKept
<1>3. ASSUME NEW r \in Requests, IssueRefresh(r)
      PROVE  FamilyOf(t)' \subseteq revoked'
  <2>1. /\ issued' = issued \union {NewId} /\ NewId \notin issued
        /\ family'[NewId] = NewId
    BY <1>3, FreshId DEF IssueRefresh, IInv, TypeOK
  <2>2. family[t] \in issued
    BY DEF IInv, FamilyInv
  <2> QED BY <1>1, <2>1, <2>2 DEF FamilyOf, RowsKept
<1>4. ASSUME issued' = issued
      PROVE  FamilyOf(t)' \subseteq revoked'
  BY <1>1, <1>4 DEF FamilyOf, RowsKept
<1>5. \/ issued' = issued
      \/ \E r \in Requests : Rotate(r) \/ IssueRefresh(r)
  <2>1. ASSUME NEW r \in Requests, Serve(r), ~Rotate(r), ~IssueRefresh(r)
        PROVE  issued' = issued
    BY <2>1 DEF Serve, FindForRefresh, CheckMember, LockPresented,
       CheckSuccessor, ScanFamily, MintAccess, FindForRevoke, RevokePresented,
       Suspend, Remove, Sweep, ScanUser, SweepRow, CommitSweep, RevokeAccessOf,
       DeadlockAbort, Abort, table
  <2>2. ASSUME Environment \/ Quiescent PROVE issued' = issued
    BY <2>2 DEF Environment, Accept, AcceptExchange, AcceptPresented, AcceptAdmin,
       Fail, Abort, RevokeAccess, Unsuspend, Rejoin, Expire, Quiescent, vars, table
  <2> QED BY <2>1, <2>2 DEF Next, vars, table
<1> QED BY <1>2, <1>3, <1>4, <1>5

\* A revoked token stays revoked, no step rewrites a row's identity, and a family
\* that has ended never has a live token again.
THEOREM RevocationIsForGood == Spec => RevocationIsFinal
<1> DEFINE Ends == \A t \in issued :
               FamilyOf(t) \subseteq revoked => FamilyOf(t)' \subseteq revoked'
<1>1. IInv /\ [Next]_vars => [RowsKept /\ Ends]_vars
  BY StepKeepsRows, StepKeepsEnds
<1>2. (RowsKept /\ Ends) =>
        /\ revoked \subseteq revoked'
        /\ \A t \in issued :
             /\ t \in issued'
             /\ family'[t] = family[t]
             /\ rotatedFrom'[t] = rotatedFrom[t]
             /\ binding'[t] = binding[t]
             /\ FamilyOf(t) \subseteq revoked => FamilyOf(t)' \subseteq revoked'
        /\ \A r \in Requests : access[r] = "revoked" => access'[r] = "revoked"
  BY DEF RowsKept
<1> QED BY SpecIInv, <1>1, <1>2, PTL DEF Spec, RevocationIsFinal

----------------------------------------------------------------------------
(* Waiting for row locks.                                                  *)

\* The rows a request waits for exist, and whoever holds one is at work.
LEMMA HolderAtWork ==
  ASSUME IInv, NEW r \in Requests, NEW t \in Wanted(r)
  PROVE  /\ t \in Tokens
         /\ \A q \in Requests : lock[t] = q => InFlight(q)
<1>1. t \in Tokens
  BY DEF Wanted, IInv, JobInv, TypeOK, RotationStages
<1>2. ASSUME NEW q \in Requests, lock[t] = q PROVE InFlight(q)
  BY <1>1, <1>2 DEF IInv, LockInv, RotationStages, InFlight, Done, Outcomes
<1> QED BY <1>1, <1>2

\* When every request under way is blocked they wait in a circle, and the
\* database aborts one of them: no lock outlives its request.  This is the
\* part of EveryRequestEnds that does not depend on fairness.
THEOREM NobodyIsStuck == Spec => []SomebodyGoesOn
<1>1. IInv => SomebodyGoesOn
  <2> SUFFICES ASSUME IInv, NEW r \in Requests, InFlight(r),
                      \A q \in Requests : InFlight(q) => Blocked(q)
               PROVE  InDeadlock(r)
    BY DEF SomebodyGoesOn
  <2> DEFINE S == {q \in Requests : InFlight(q)}
  <2>1. ASSUME NEW q \in S PROVE Blocked(q) /\ \E p \in S : WaitsFor(q, p)
    <3>1. Blocked(q)
      BY <2>1
    <3>2. PICK t \in Wanted(q) : \E p \in Requests : p # q /\ lock[t] = p
      BY <3>1 DEF Blocked
    <3>3. PICK p \in Requests : p # q /\ lock[t] = p
      BY <3>2
    <3>4. InFlight(p)
      BY <3>2, <3>3, HolderAtWork
    <3> QED BY <3>1, <3>2, <3>3, <3>4 DEF WaitsFor
  <2>2. S \in SUBSET Requests /\ r \in S
    OBVIOUS
  <2> QED BY <2>1, <2>2 DEF InDeadlock
<1> QED BY SpecIInv, <1>1, PTL

----------------------------------------------------------------------------
(* What the sweeps and the membership check promise.  A second invariant,  *)
(* on top of the first, follows each kind of request through its           *)
(* statements and the rows of a sweep until they are revoked.              *)

AdminKinds == {"suspend", "remove", "reset"}

\* The kinds of request that reach a statement, and what they carry.
StageAt(r) ==
  /\ pc[r] \in {"check", "mint"} => job[r].kind \in {"exchange", "refresh"}
  /\ pc[r] = "issue" => job[r].kind = "exchange"
  /\ pc[r] = "find" => job[r].kind \in {"refresh", "revoke"}
  /\ pc[r] = "status" => job[r].kind \in {"suspend", "remove"}
  /\ pc[r] \in {"scan", "access"} => job[r].kind \in AdminKinds
  /\ pc[r] = "sweep" => job[r].kind \in AdminKinds \union {"refresh"}
  /\ pc[r] = "reuse" => job[r].kind = "refresh"
  /\ pc[r] # "idle" /\ job[r].kind \in {"exchange", "suspend", "remove"} =>
       \E m \in Members : job[r].target = {m}
  /\ access[r] # "none" => pc[r] # "idle" /\ job[r].kind \in {"exchange", "refresh"}

StageInv == \A r \in Requests : StageAt(r)

\* A row that an UPDATE has selected is still to be locked, or locked, or
\* was revoked by somebody else while the UPDATE waited for it.
SnapshotInv ==
  \A r \in Requests : pc[r] = "sweep" =>
    /\ \A t \in snapshot[r] :
         \/ t \in todo[r] \/ lock[t] = r
         \/ job[r].kind # "refresh" /\ t \in revoked
    /\ job[r].kind = "refresh" => job[r].tok \in snapshot[r]

\* A request past the membership check mints for an active member, or the
\* suspension that came after the check knows of it.
AdmittedInv ==
  \A q \in Requests :
    pc[q] \in {"lock", "rotate", "mint", "issue"} /\ q \notin late
      => Subject(q) \subseteq active

\* The tokens of a member who is not active, with the sweep that covers them.
SparedInv ==
  \A t \in issued \ revoked :
    \/ binding[t].member \in active
    \/ t \in spared \/ \E q \in late : minted[q] = t
    \/ \E r \in Requests : /\ Ending(r) /\ binding[t].member \in job[r].target
                           /\ pc[r] = "scan" \/ t \in snapshot[r]

\* The second half of SuspensionEndsTokens.
AccessInv ==
  \A q \in Requests : access[q] = "live" =>
    \/ Subject(q) \subseteq active
    \/ q \in late
    \/ \E r \in Requests : Ending(r) /\ Subject(q) \subseteq job[r].target

HInv ==
  /\ StageInv
  /\ PresentedIsRevoked
  /\ SnapshotInv
  /\ SweepIsComplete
  /\ AdmittedInv
  /\ SparedInv
  /\ AccessInv

LEMMA InitHInv == Init => HInv
<1> SUFFICES ASSUME Init PROVE HInv
  OBVIOUS
<1> USE TokenAssumption DEF TokenAssumption, Init
<1>1. StageInv /\ SnapshotInv /\ SweepIsComplete /\ PresentedIsRevoked
  BY DEF StageInv, StageAt, SnapshotInv, SweepIsComplete, PresentedIsRevoked
<1>2. AdmittedInv /\ AccessInv
  BY DEF AdmittedInv, AccessInv
<1>3. SparedInv
  BY DEF SparedInv, Binding
<1> QED BY <1>1, <1>2, <1>3 DEF HInv

\* A request's access record is written by its own mint and by revocations.
LEMMA RecordsKept ==
  ASSUME IInv, NEW r \in Requests, Accept(r) \/ Serve(r) \/ Fail(r),
         NEW q \in Requests, q # r
  PROVE  \/ access'[q] = access[q]
         \/ access[q] = "live" /\ access'[q] = "revoked"
<1> USE DEF IInv, TypeOK
<1>1. CASE Accept(r)
  BY <1>1 DEF Accept, AcceptExchange, AcceptPresented, AcceptAdmin
<1>2. CASE MintAccess(r) \/ RevokeAccessOf(r)
  BY <1>2 DEF MintAccess, RevokeAccessOf
<1>3. CASE DeadlockAbort(r) \/ Fail(r)
  BY <1>3 DEF DeadlockAbort, Fail, Abort
<1>4. CASE Serve(r) /\ ~MintAccess(r) /\ ~RevokeAccessOf(r) /\ ~DeadlockAbort(r)
  BY <1>4 DEF Serve, FindForRefresh, CheckMember, LockPresented, Rotate,
     CheckSuccessor, ScanFamily, IssueRefresh, FindForRevoke, RevokePresented,
     Suspend, Remove, ScanUser, Sweep, SweepRow, CommitSweep
<1> QED BY <1>1, <1>2, <1>3, <1>4

LEMMA StepStage ==
  ASSUME IInv, StageInv, [Next]_vars
  PROVE  StageInv'
<1> USE DEF IInv, TypeOK, Goto
<1>1. ASSUME NEW r \in Requests, Accept(r) \/ Serve(r) \/ Fail(r)
      PROVE  StageInv'
  <2>1. ASSUME NEW q \in Requests, q # r PROVE StageAt(q)'
    BY <1>1, <2>1, OthersKept, RecordsKept DEF StageInv, StageAt
  <2>2. StageAt(r)'
    <3> USE DEF StageInv, StageAt, AdminKinds
    <3>1. CASE AcceptExchange(r)
      BY <3>1 DEF AcceptExchange
    <3>2. CASE AcceptPresented(r)
      BY <3>2 DEF AcceptPresented
    <3>3. CASE AcceptAdmin(r)
      BY <3>3 DEF AcceptAdmin
    <3>4. CASE FindForRefresh(r) \/ CheckMember(r)
      BY <3>4 DEF FindForRefresh, CheckMember
    <3>5. CASE LockPresented(r) \/ Rotate(r) \/ CheckSuccessor(r) \/ ScanFamily(r)
      BY <3>5 DEF LockPresented, Rotate, CheckSuccessor, ScanFamily, Sweep,
         JobInv, RotationStages
    <3>6. CASE MintAccess(r) \/ IssueRefresh(r)
      BY <3>6 DEF MintAccess, IssueRefresh
    <3>7. CASE FindForRevoke(r) \/ RevokePresented(r)
      BY <3>7 DEF FindForRevoke, RevokePresented, JobInv
    <3>8. CASE Suspend(r) \/ Remove(r) \/ ScanUser(r)
      BY <3>8 DEF Suspend, Remove, ScanUser, Sweep
    <3>9. CASE SweepRow(r) \/ CommitSweep(r) \/ RevokeAccessOf(r)
      BY <3>9 DEF SweepRow, CommitSweep, RevokeAccessOf
    <3>10. CASE DeadlockAbort(r) \/ Fail(r)
      BY <3>10 DEF DeadlockAbort, Fail, Abort, InFlight
    <3> QED BY <1>1, <3>1, <3>2, <3>3, <3>4, <3>5, <3>6, <3>7, <3>8, <3>9, <3>10
            DEF Accept, Serve
  <2> QED BY <2>1, <2>2 DEF StageInv
<1>2. ASSUME UNCHANGED session,
             \A r \in Requests : access'[r] # "none" <=> access[r] # "none"
      PROVE  StageInv'
  BY <1>2 DEF session, StageInv, StageAt
<1>3. ASSUME NEW r \in Requests, RevokeAccess(r) PROVE StageInv'
  BY <1>2, <1>3 DEF RevokeAccess
<1>4. ASSUME NEW m \in Members, Unsuspend(m) \/ Rejoin(m) PROVE StageInv'
  BY <1>2, <1>4 DEF Unsuspend, Rejoin
<1>5. ASSUME NEW t \in Tokens, Expire(t) PROVE StageInv'
  BY <1>2, <1>5 DEF Expire
<1>6. CASE UNCHANGED vars
  BY <1>2, <1>6 DEF vars
<1> QED BY <1>1, <1>3, <1>4, <1>5, <1>6 DEF Next, Environment, Quiescent

\* A request takes only free row locks and gives up only its own; marks stay.
LEMMA LocksKept ==
  ASSUME IInv, NEW r \in Requests, Accept(r) \/ Serve(r) \/ Fail(r),
         NEW q \in Requests, q # r
  PROVE  /\ \A t \in Tokens : lock[t] = q => lock'[t] = q
         /\ reused \subseteq reused'
<1> USE TokenAssumption DEF TokenAssumption, IInv, TypeOK
<1>1. CASE LockPresented(r)
  BY <1>1 DEF LockPresented, JobInv, table
<1>2. CASE SweepRow(r)
  BY <1>2 DEF SweepRow, table
<1>3. CASE Rotate(r) \/ CheckSuccessor(r) \/ CommitSweep(r)
  BY <1>3 DEF Rotate, CheckSuccessor, CommitSweep, Release, table
<1>4. CASE DeadlockAbort(r) \/ Fail(r)
  BY <1>4 DEF DeadlockAbort, Fail, Abort, Release, table
<1>5. CASE UNCHANGED <<lock, reused>>
  BY <1>5
<1> QED BY <1>1, <1>2, <1>3, <1>4, <1>5 DEF Accept, AcceptExchange,
     AcceptPresented, AcceptAdmin, Serve, FindForRefresh, CheckMember,
     ScanFamily, MintAccess, IssueRefresh, FindForRevoke, RevokePresented,
     Suspend, Remove, ScanUser, Sweep, RevokeAccessOf, table

\* Steps that are no request's own: the rows, locks and requests stay.
LEMMA NextCases ==
  ASSUME [Next]_vars
  PROVE  \/ \E r \in Requests : Accept(r) \/ Serve(r) \/ Fail(r)
         \/ /\ UNCHANGED <<table, lock, session, history>>
            /\ \/ active \subseteq active' /\ UNCHANGED access
               \/ \E r \in Requests : RevokeAccess(r)
BY DEF Next, Environment, Quiescent, vars, membership, RevokeAccess, Unsuspend, Rejoin, Expire

\* The only way to answer a revocation of one's own token leaves it revoked.
LEMMA StepRevoked ==
  ASSUME IInv, StageInv, PresentedIsRevoked, [Next]_vars
  PROVE  PresentedIsRevoked'
<1> DEFINE At(q) == /\ pc[q] = "ok" /\ job[q].kind = "revoke"
                    /\ binding[job[q].tok].client = job[q].client
                    => job[q].tok \in revoked
<1> USE DEF IInv
<1>1. RowsKept
  BY StepKeepsRows
<1>2. ASSUME NEW q \in Requests, pc'[q] = pc[q], job'[q] = job[q]
      PROVE  At(q)'
  BY <1>1, <1>2 DEF RowsKept, PresentedIsRevoked, JobInv
<1>3. ASSUME NEW r \in Requests, Accept(r) \/ Serve(r) \/ Fail(r)
      PROVE  At(r)'
  <2> USE DEF TypeOK, Goto
  <2>1. CASE FindForRevoke(r) \/ RevokePresented(r)
    BY <2>1 DEF FindForRevoke, RevokePresented, table
  <2>2. CASE MintAccess(r) \/ IssueRefresh(r) \/ RevokeAccessOf(r)
    BY <2>2 DEF MintAccess, IssueRefresh, RevokeAccessOf, StageInv, StageAt, AdminKinds
  <2>3. CASE SweepRow(r)
    BY <1>2, <2>3 DEF SweepRow
  <2>4. CASE Accept(r)
    BY <2>4 DEF Accept, AcceptExchange, AcceptPresented, AcceptAdmin
  <2>5. CASE DeadlockAbort(r) \/ Fail(r)
    BY <2>5 DEF DeadlockAbort, Fail, Abort
  <2>6. CASE FindForRefresh(r) \/ CheckMember(r) \/ LockPresented(r) \/ Rotate(r)
    BY <2>6 DEF FindForRefresh, CheckMember, LockPresented, Rotate
  <2>7. CASE CheckSuccessor(r) \/ ScanFamily(r) \/ Suspend(r) \/ Remove(r)
             \/ ScanUser(r) \/ CommitSweep(r)
    BY <2>7 DEF CheckSuccessor, ScanFamily, Suspend, Remove, ScanUser, Sweep, CommitSweep
  <2> QED BY <1>3, <2>1, <2>2, <2>3, <2>4, <2>5, <2>6, <2>7 DEF Serve
<1>4. \A q \in Requests : At(q)'
  BY <1>2, <1>3, NextCases, OthersKept DEF session
<1> QED BY <1>4 DEF PresentedIsRevoked

\* A sweep ends with its whole snapshot revoked.
LEMMA StepSweep ==
  ASSUME IInv, StageInv, SnapshotInv, SweepIsComplete, [Next]_vars
  PROVE  SnapshotInv' /\ SweepIsComplete'
<1> DEFINE Sweeps(q) == pc[q] = "sweep" =>
             /\ \A t \in snapshot[q] :
                  \/ t \in todo[q] \/ lock[t] = q
                  \/ job[q].kind # "refresh" /\ t \in revoked
             /\ job[q].kind = "refresh" => job[q].tok \in snapshot[q]
           Swept(q) ==
             /\ pc[q] \in {"access", "reuse"} => snapshot[q] \subseteq revoked
             /\ pc[q] = "reuse" => /\ job[q].tok \in snapshot[q]
                                  /\ snapshot[q] \subseteq reused
<1> USE DEF IInv
<1>0. \A q \in Requests : Sweeps(q) /\ Swept(q)
  BY DEF SnapshotInv, SweepIsComplete
<1>1. RowsKept
  BY StepKeepsRows
<1>2. ASSUME NEW r \in Requests, Accept(r) \/ Serve(r) \/ Fail(r)
      PROVE  \A q \in Requests : Sweeps(q)' /\ Swept(q)'
  <2>1. ASSUME NEW q \in Requests, q # r PROVE Sweeps(q)' /\ Swept(q)'
    <3>1. /\ pc'[q] = pc[q] /\ job'[q] = job[q]
          /\ todo'[q] = todo[q] /\ snapshot'[q] = snapshot[q]
      BY <1>2, <2>1, OthersKept
    <3>2. /\ \A t \in Tokens : lock[t] = q => lock'[t] = q
          /\ reused \subseteq reused'
      BY <1>2, <2>1, LocksKept
    <3>3. snapshot[q] \subseteq Tokens
      BY DEF TypeOK
    <3> QED BY <1>0, <1>1, <3>1, <3>2, <3>3 DEF RowsKept
  <2>2. Sweeps(r)' /\ Swept(r)'
    <3> USE DEF TypeOK, Goto
    <3>1. CASE ScanFamily(r)
      BY <3>1 DEF ScanFamily, Sweep, FamilyOf, JobInv, RotationStages
    <3>2. CASE ScanUser(r)
      BY <3>2 DEF ScanUser, Sweep, StageInv, StageAt, AdminKinds
    <3>3. CASE SweepRow(r)
      <4>1. PICK t \in todo[r] :
              /\ todo' = [todo EXCEPT ![r] = todo[r] \ {t}]
              /\ IF job[r].kind # "refresh" /\ t \in revoked
                   THEN UNCHANGED lock
                   ELSE lock' = [lock EXCEPT ![t] = r]
        BY <3>3 DEF SweepRow
      <4>2. /\ pc[r] = "sweep" /\ pc' = pc /\ job' = job
            /\ revoked' = revoked /\ snapshot' = snapshot
        BY <3>3 DEF SweepRow, table, history
      <4>3. t \in Tokens /\ snapshot[r] \subseteq Tokens
        OBVIOUS
      <4>4. \A s \in snapshot[r] : \/ s \in todo'[r] \/ lock'[s] = r
                                   \/ job[r].kind # "refresh" /\ s \in revoked
        BY <1>0, <4>1, <4>2, <4>3
      <4> QED BY <1>0, <4>2, <4>4
    <3>4. CASE CommitSweep(r)
      <4>1. /\ pc[r] = "sweep" /\ todo[r] = {}
            /\ revoked' = revoked \union Held(r)
            /\ job[r].kind = "refresh" => reused' = reused \union Held(r)
            /\ pc'[r] = (IF job[r].kind = "refresh" THEN "reuse" ELSE "access")
            /\ job' = job /\ snapshot' = snapshot
        BY <3>4 DEF CommitSweep, history
      <4>2. \A t \in snapshot[r] : \/ t \in Held(r)
                                   \/ job[r].kind # "refresh" /\ t \in revoked
        BY <1>0, <4>1 DEF Held
      <4> QED BY <1>0, <4>1, <4>2
    <3>5. CASE Accept(r)
      BY <3>5 DEF Accept, AcceptExchange, AcceptPresented, AcceptAdmin
    <3>6. CASE DeadlockAbort(r) \/ Fail(r)
      BY <3>6 DEF DeadlockAbort, Fail, Abort
    <3>7. CASE FindForRefresh(r) \/ CheckMember(r) \/ LockPresented(r) \/ Rotate(r)
      BY <3>7 DEF FindForRefresh, CheckMember, LockPresented, Rotate
    <3>8. CASE CheckSuccessor(r) \/ MintAccess(r) \/ IssueRefresh(r)
      BY <3>8 DEF CheckSuccessor, MintAccess, IssueRefresh
    <3>9. CASE FindForRevoke(r) \/ RevokePresented(r) \/ Suspend(r) \/ Remove(r)
               \/ RevokeAccessOf(r)
      BY <3>9 DEF FindForRevoke, RevokePresented, Suspend, Remove, RevokeAccessOf
    <3> QED BY <1>2, <3>1, <3>2, <3>3, <3>4, <3>5, <3>6, <3>7, <3>8, <3>9 DEF Serve
  <2> QED BY <2>1, <2>2
<1>3. ASSUME UNCHANGED <<table, lock, session, history>>
      PROVE  \A q \in Requests : Sweeps(q)' /\ Swept(q)'
  <2>1. UNCHANGED <<revoked, reused, lock, pc, job, todo, snapshot>>
    BY <1>3 DEF table, session, history
  <2> QED BY <1>0, <2>1
<1> HIDE DEF IInv, Sweeps, Swept
<1>4. \A q \in Requests : Sweeps(q)' /\ Swept(q)'
  BY <1>2, <1>3, NextCases
<1> QED BY <1>4 DEF SnapshotInv, SweepIsComplete, Sweeps, Swept

\* A request that mints tokens does so for one membership, always the same.
LEMMA SubjectKept ==
  ASSUME IInv, StageInv, [Next]_vars, NEW q \in Requests,
         pc[q] # "idle", job[q].kind \in {"exchange", "refresh"}
  PROVE  /\ \E m \in Members : Subject(q) = {m}
         /\ job'[q] = job[q] => Subject(q)' = Subject(q)
<1>1. ASSUME job[q].kind = "refresh"
      PROVE  job[q].tok \in issued /\ binding[job[q].tok].member \in Members
  BY <1>1 DEF IInv, JobInv, TypeOK, Binding
<1>2. RowsKept
  BY StepKeepsRows
<1>3. \E m \in Members : Subject(q) = {m}
  BY <1>1 DEF Subject, StageInv, StageAt
<1>4. job'[q] = job[q] => Subject(q)' = Subject(q)
  BY <1>1, <1>2 DEF Subject, RowsKept
<1> QED BY <1>3, <1>4

\* Memberships end in two statements only, which note who was past the check.
LEMMA MembershipStep ==
  ASSUME IInv, StageInv, [Next]_vars
  PROVE  /\ late \subseteq late'
         /\ \/ active \subseteq active'
            \/ \E r \in Requests :
                 /\ Suspend(r) \/ Remove(r)
                 /\ pc[r] = "status" /\ pc'[r] = "scan"
                 /\ job' = job /\ job[r].kind \in {"suspend", "remove"}
                 /\ active' = active \ job[r].target
                 /\ late' = late \union Admitted(job[r].target)
<1>1. ASSUME NEW r \in Requests, Suspend(r) \/ Remove(r)
      PROVE  /\ late \subseteq late'
             /\ \/ active \subseteq active'
                \/ /\ pc[r] = "status" /\ pc'[r] = "scan"
                   /\ job' = job /\ job[r].kind \in {"suspend", "remove"}
                   /\ active' = active \ job[r].target
                   /\ late' = late \union Admitted(job[r].target)
  BY <1>1 DEF Suspend, Remove, Goto, membership, IInv, TypeOK
<1>2. ASSUME NEW r \in Requests, Fail(r) \/ DeadlockAbort(r)
      PROVE  late \subseteq late' /\ active' = active
  BY <1>2 DEF Fail, DeadlockAbort, Abort, membership
<1>3. ASSUME NEW r \in Requests, Accept(r) \/ Serve(r),
             ~(Suspend(r) \/ Remove(r)), ~DeadlockAbort(r)
      PROVE  late' = late /\ active' = active
  BY <1>3 DEF Accept, AcceptExchange, AcceptPresented, AcceptAdmin, Serve,
     FindForRefresh, CheckMember, LockPresented, Rotate, CheckSuccessor,
     ScanFamily, MintAccess, IssueRefresh, FindForRevoke, RevokePresented,
     ScanUser, Sweep, SweepRow, CommitSweep, RevokeAccessOf, membership, history
<1>4. ASSUME UNCHANGED <<table, lock, session, history>>
      PROVE  late' = late
  BY <1>4 DEF history
<1>5. ASSUME NEW r \in Requests, RevokeAccess(r) PROVE active' = active
  BY <1>5 DEF RevokeAccess, membership
<1> QED BY <1>1, <1>2, <1>3, <1>4, <1>5, NextCases

LEMMA StepAdmitted ==
  ASSUME IInv, StageInv, AdmittedInv, [Next]_vars
  PROVE  AdmittedInv'
<1> DEFINE Past(q) == pc[q] \in {"lock", "rotate", "mint", "issue"}
<1>0. StageInv'
  BY StepStage
<1>1. ASSUME NEW q \in Requests, Past(q), job'[q] = job[q]
      PROVE  q \notin late' => Subject(q)' \subseteq active'
  <2>1. pc[q] # "idle" /\ job[q].kind \in {"exchange", "refresh"}
    BY <1>1 DEF IInv, JobInv, RotationStages, StageInv, StageAt
  <2>2. Subject(q)' = Subject(q)
    BY <1>1, <2>1, SubjectKept
  <2>3. PICK m \in Members : Subject(q) = {m}
    BY <2>1, SubjectKept
  <2>4. q \notin late => m \in active
    BY <1>1, <2>3 DEF AdmittedInv
  <2>5. CASE active \subseteq active'
    BY <2>2, <2>3, <2>4, <2>5, MembershipStep
  <2>6. ASSUME NEW r \in Requests,
               active' = active \ job[r].target,
               late' = late \union Admitted(job[r].target)
        PROVE  q \notin late' => Subject(q)' \subseteq active'
    BY <1>1, <2>2, <2>3, <2>4, <2>6 DEF Admitted
  <2> QED BY <2>5, <2>6, MembershipStep
<1>2. ASSUME NEW r \in Requests, Accept(r) \/ Serve(r) \/ Fail(r),
             Past(r)', ~Past(r)
      PROVE  Subject(r)' \subseteq active'
  <2>1. CheckMember(r)
    <3> USE DEF IInv, TypeOK, Goto
    <3>1. CASE Accept(r)
      BY <1>2, <3>1 DEF Accept, AcceptExchange, AcceptPresented, AcceptAdmin
    <3>2. CASE FindForRefresh(r) \/ LockPresented(r) \/ Rotate(r) \/ CheckSuccessor(r)
               \/ ScanFamily(r)
      BY <1>2, <3>2 DEF FindForRefresh, LockPresented, Rotate, CheckSuccessor,
         ScanFamily, Sweep
    <3>3. CASE MintAccess(r) \/ IssueRefresh(r) \/ FindForRevoke(r) \/ RevokePresented(r)
      BY <1>2, <3>3 DEF MintAccess, IssueRefresh, FindForRevoke, RevokePresented
    <3>4. CASE Suspend(r) \/ Remove(r) \/ ScanUser(r) \/ SweepRow(r)
      BY <1>2, <3>4 DEF Suspend, Remove, ScanUser, Sweep, SweepRow
    <3>5. CASE CommitSweep(r) \/ RevokeAccessOf(r) \/ DeadlockAbort(r) \/ Fail(r)
      BY <1>2, <3>5 DEF CommitSweep, RevokeAccessOf, DeadlockAbort, Fail, Abort
    <3> QED BY <1>2, <3>1, <3>2, <3>3, <3>4, <3>5 DEF Serve
  <2>2. /\ Subject(r) \subseteq active
        /\ UNCHANGED <<table, membership, job>>
    BY <1>2, <2>1 DEF CheckMember, Goto, IInv, TypeOK
  <2> QED BY <2>2 DEF Subject, table, membership
<1>3. ASSUME NEW r \in Requests, Accept(r) \/ Serve(r) \/ Fail(r), Past(r)
      PROVE  job'[r] = job[r]
  BY <1>3 DEF Accept, AcceptExchange, AcceptPresented, AcceptAdmin, Serve,
     FindForRefresh, CheckMember, LockPresented, Rotate, CheckSuccessor,
     ScanFamily, MintAccess, IssueRefresh, FindForRevoke, RevokePresented,
     Suspend, Remove, ScanUser, Sweep, SweepRow, CommitSweep, RevokeAccessOf,
     DeadlockAbort, Fail, Abort
<1>4. ASSUME NEW q \in Requests, Past(q)', q \notin late'
      PROVE  Subject(q)' \subseteq active'
  <2>1. ASSUME NEW r \in Requests, Accept(r) \/ Serve(r) \/ Fail(r)
        PROVE  Subject(q)' \subseteq active'
    BY <1>1, <1>2, <1>3, <1>4, <2>1, OthersKept
  <2>2. CASE UNCHANGED session
    BY <1>1, <1>4, <2>2 DEF session
  <2> QED BY <2>1, <2>2, NextCases
<1> QED BY <1>4 DEF AdmittedInv

\* A suspension under way goes on to revoke what it has to, unless it stops
\* and leaves a note of what it spared.
LEMMA EndingGoesOn ==
  ASSUME IInv, StageInv, [Next]_vars, NEW r \in Requests, Ending(r)
  PROVE  \/ /\ Ending(r)' /\ job'[r] = job[r]
            /\ pc[r] # "scan" => pc'[r] # "scan" /\ snapshot'[r] = snapshot[r]
            /\ pc[r] = "scan" /\ pc'[r] # "scan" => snapshot'[r] = LiveOf(job[r].target)
         \/ RevokeAccessOf(r)
         \/ (Fail(r) \/ DeadlockAbort(r)) /\ Abort(r)
<1> USE DEF IInv, TypeOK, Goto, Ending
<1>1. ASSUME NEW q \in Requests, Accept(q) \/ Serve(q) \/ Fail(q), q # r
      PROVE  Ending(r)' /\ pc'[r] = pc[r] /\ job'[r] = job[r] /\ snapshot'[r] = snapshot[r]
  BY <1>1, OthersKept
<1>2. CASE UNCHANGED <<table, lock, session, history>>
  BY <1>2 DEF session, history
<1>3. CASE ScanUser(r)
  BY <1>3 DEF ScanUser, Sweep
<1>4. CASE SweepRow(r) \/ CommitSweep(r)
  BY <1>4 DEF SweepRow, CommitSweep, history
<1>5. CASE (Accept(r) \/ Serve(r) \/ Fail(r)) /\ ~ScanUser(r) /\ ~SweepRow(r)
            /\ ~CommitSweep(r)
  <2>1. CASE DeadlockAbort(r) \/ Fail(r)
    BY <2>1 DEF DeadlockAbort, Fail
  <2> QED BY <1>5, <2>1 DEF Accept, AcceptExchange, AcceptPresented, AcceptAdmin,
       Serve, FindForRefresh, CheckMember, LockPresented, Rotate, CheckSuccessor,
       ScanFamily, MintAccess, IssueRefresh, FindForRevoke, RevokePresented,
       Suspend, Remove
<1> QED BY <1>1, <1>2, <1>3, <1>4, <1>5, NextCases

\* Notes are never erased, and a request mints one refresh token at most.
LEMMA NotesKept ==
  ASSUME IInv, [Next]_vars
  PROVE  /\ spared \subseteq spared'
         /\ \A q \in Requests : minted[q] # NoToken => minted'[q] = minted[q]
<1> USE DEF IInv, TypeOK
<1>1. ASSUME NEW r \in Requests, Accept(r) \/ Serve(r) \/ Fail(r)
      PROVE  spared \subseteq spared'
  BY <1>1 DEF Accept, AcceptExchange, AcceptPresented, AcceptAdmin, Serve,
     FindForRefresh, CheckMember, LockPresented, Rotate, CheckSuccessor,
     ScanFamily, MintAccess, IssueRefresh, FindForRevoke, RevokePresented,
     Suspend, Remove, ScanUser, Sweep, SweepRow, CommitSweep, RevokeAccessOf,
     DeadlockAbort, Fail, Abort, history
<1>2. ASSUME NEW r \in Requests, Accept(r) \/ Serve(r) \/ Fail(r), minted[r] # NoToken
      PROVE  minted'[r] = minted[r]
  <2>1. ~Rotate(r) /\ ~IssueRefresh(r)
    BY <1>2 DEF Rotate, IssueRefresh, JobInv, RotationStages
  <2> QED BY <1>2, <2>1 DEF Accept, AcceptExchange, AcceptPresented, AcceptAdmin,
       Serve, FindForRefresh, CheckMember, LockPresented, CheckSuccessor,
       ScanFamily, MintAccess, FindForRevoke, RevokePresented,
       Suspend, Remove, ScanUser, Sweep, SweepRow, CommitSweep, RevokeAccessOf,
       DeadlockAbort, Fail, Abort
<1>3. CASE UNCHANGED <<table, lock, session, history>>
  BY <1>3 DEF session, history
<1>4. \A q \in Requests : minted[q] # NoToken => minted'[q] = minted[q]
  BY <1>2, <1>3, NextCases, OthersKept
<1> QED BY <1>1, <1>3, <1>4, NextCases DEF history

\* A member made inactive is covered by the request that did it.
LEMMA CoveredAgain ==
  ASSUME IInv, StageInv, [Next]_vars, NEW m \in Members, m \in active, m \notin active'
  PROVE  \E r \in Requests : /\ Ending(r)' /\ m \in job'[r].target /\ pc'[r] = "scan"
                             /\ Suspend(r) \/ Remove(r)
<1>1. PICK r \in Requests :
        /\ Suspend(r) \/ Remove(r)
        /\ pc'[r] = "scan" /\ job' = job /\ job[r].kind \in {"suspend", "remove"}
        /\ active' = active \ job[r].target
  BY MembershipStep
<1> QED BY <1>1 DEF Ending

LEMMA StepSpared ==
  ASSUME IInv, StageInv, SweepIsComplete, AdmittedInv, SparedInv, [Next]_vars
  PROVE  SparedInv'
<1> DEFINE Covered(t) ==
      \/ binding[t].member \in active
      \/ t \in spared \/ \E q \in late : minted[q] = t
      \/ \E r \in Requests : /\ Ending(r) /\ binding[t].member \in job[r].target
                             /\ pc[r] = "scan" \/ t \in snapshot[r]
<1> USE DEF IInv
<1>0. RowsKept
  BY StepKeepsRows
<1>1. ASSUME NEW t \in issued', t \notin issued PROVE Covered(t)'
  <2>1. PICK r \in Requests : Rotate(r) \/ IssueRefresh(r)
    <3>1. ASSUME NEW r \in Requests, Serve(r), ~Rotate(r), ~IssueRefresh(r)
          PROVE  issued' = issued
      BY <3>1 DEF Serve, FindForRefresh, CheckMember, LockPresented,
         CheckSuccessor, ScanFamily, MintAccess, FindForRevoke, RevokePresented,
         Suspend, Remove, Sweep, ScanUser, SweepRow, CommitSweep, RevokeAccessOf,
         DeadlockAbort, Abort, table
    <3>2. ASSUME NEW r \in Requests, Accept(r) \/ Fail(r) PROVE issued' = issued
      BY <3>2 DEF Accept, AcceptExchange, AcceptPresented, AcceptAdmin, Fail, Abort, table
    <3> QED BY <1>1, <3>1, <3>2, NextCases DEF table
  <2>2. /\ issued' = issued \union {NewId} /\ NewId \in Tokens
        /\ minted'[r] = NewId /\ active' = active /\ late' = late
        /\ pc[r] \in {"rotate", "issue"}
        /\ binding'[NewId].member \in Subject(r)
    BY <2>1, FreshId DEF Rotate, IssueRefresh, Subject, JobInv, RotationStages,
       TypeOK, membership, history
  <2>3. r \notin late => Subject(r) \subseteq active
    BY <2>2 DEF AdmittedInv
  <2> QED BY <1>1, <2>2, <2>3
<1>2. ASSUME NEW t \in issued, t \notin revoked, t \notin revoked' PROVE Covered(t)'
  <2>1. binding'[t] = binding[t] /\ binding[t].member \in Members
    BY <1>0 DEF RowsKept, TypeOK, Binding
  <2>2. CASE binding[t].member \in active
    BY <2>1, <2>2, CoveredAgain
  <2>3. CASE t \in spared \/ \E q \in late : minted[q] = t
    <3>1. t # NoToken /\ late \subseteq Requests
      BY TokenAssumption DEF TokenAssumption, TypeOK
    <3> QED BY <2>3, <3>1, NotesKept, MembershipStep
  <2>4. ASSUME NEW r \in Requests, Ending(r), binding[t].member \in job[r].target,
               pc[r] = "scan" \/ t \in snapshot[r]
        PROVE  Covered(t)'
    <3>1. t \in LiveOf(job[r].target)
      BY <1>2, <2>4 DEF LiveOf
    <3>2. ~RevokeAccessOf(r)
      BY <1>2, <2>4 DEF RevokeAccessOf, SweepIsComplete
    <3>3. CASE Abort(r)
      BY <2>4, <3>1, <3>3 DEF Abort
    <3>4. ASSUME Ending(r)', job'[r] = job[r],
                 pc[r] # "scan" => snapshot'[r] = snapshot[r],
                 pc[r] = "scan" /\ pc'[r] # "scan" => snapshot'[r] = LiveOf(job[r].target)
          PROVE  Covered(t)'
      <4>1. binding'[t].member \in job'[r].target
        BY <2>1, <2>4, <3>4
      <4>2. pc'[r] = "scan" \/ t \in snapshot'[r]
        BY <2>4, <3>1, <3>4
      <4> QED BY <3>4, <4>1, <4>2
    <3> QED BY <2>4, <3>2, <3>3, <3>4, EndingGoesOn
  <2>5. Covered(t)
    BY <1>2 DEF SparedInv
  <2> QED BY <2>2, <2>3, <2>4, <2>5
<1>3. \A t \in issued' \ revoked' : Covered(t)'
  BY <1>0, <1>1, <1>2 DEF RowsKept
<1> QED BY <1>3 DEF SparedInv

LEMMA StepAccess ==
  ASSUME IInv, StageInv, AdmittedInv, AccessInv, [Next]_vars
  PROVE  AccessInv'
<1> DEFINE Covered(q) ==
      \/ Subject(q) \subseteq active
      \/ q \in late
      \/ \E r \in Requests : Ending(r) /\ Subject(q) \subseteq job[r].target
<1> USE DEF IInv
<1>1. ASSUME NEW q \in Requests, MintAccess(q) PROVE Covered(q)'
  <2>1. /\ pc[q] = "mint" /\ job[q].kind \in {"exchange", "refresh"}
        /\ job' = job /\ active' = active /\ late' = late
    BY <1>1 DEF MintAccess, StageInv, StageAt, membership, history
  <2>2. Subject(q)' = Subject(q)
    BY <2>1, SubjectKept
  <2> QED BY <2>1, <2>2 DEF AdmittedInv
<1>2. ASSUME NEW q \in Requests, access[q] = "live", access'[q] = "live", job'[q] = job[q]
      PROVE  Covered(q)'
  <2>1. pc[q] # "idle" /\ job[q].kind \in {"exchange", "refresh"}
    BY <1>2 DEF StageInv, StageAt
  <2>2. Subject(q)' = Subject(q)
    BY <1>2, <2>1, SubjectKept
  <2>3. PICK m \in Members : Subject(q) = {m}
    BY <2>1, SubjectKept
  <2>4. CASE Subject(q) \subseteq active
    <3>1. CASE m \in active'
      BY <2>2, <2>3, <3>1
    <3>2. CASE m \notin active'
      BY <2>2, <2>3, <2>4, <3>2, CoveredAgain
    <3> QED BY <3>1, <3>2
  <2>5. CASE q \in late
    BY <2>5, MembershipStep
  <2>6. ASSUME NEW r \in Requests, Ending(r), Subject(q) \subseteq job[r].target
        PROVE  Covered(q)'
    <3>1. ~RevokeAccessOf(r)
      BY <1>2, <2>6 DEF RevokeAccessOf
    <3>2. CASE Abort(r)
      BY <1>2, <2>6, <3>2 DEF Abort
    <3>3. CASE Ending(r)' /\ job'[r] = job[r]
      BY <2>2, <2>6, <3>3
    <3> QED BY <2>6, <3>1, <3>2, <3>3, EndingGoesOn
  <2> QED BY <1>2, <2>4, <2>5, <2>6 DEF AccessInv
<1>3. ASSUME NEW q \in Requests, access'[q] = "live", ~MintAccess(q)
      PROVE  access[q] = "live" /\ job'[q] = job[q]
  <2>1. CASE /\ UNCHANGED session
             /\ UNCHANGED access \/ \E r \in Requests : RevokeAccess(r)
    BY <1>3, <2>1 DEF session, RevokeAccess, TypeOK
  <2>2. ASSUME NEW r \in Requests, Accept(r) \/ Serve(r) \/ Fail(r), r # q
        PROVE  access[q] = "live" /\ job'[q] = job[q]
    BY <1>3, <2>2, OthersKept, RecordsKept
  <2>3. CASE Accept(q) \/ Serve(q) \/ Fail(q)
    <3>1. access[q] = "live"
      BY <1>3, <2>3 DEF Accept, AcceptExchange, AcceptPresented, AcceptAdmin,
         Serve, FindForRefresh, CheckMember, LockPresented, Rotate,
         CheckSuccessor, ScanFamily, IssueRefresh, FindForRevoke,
         RevokePresented, Suspend, Remove, ScanUser, Sweep, SweepRow,
         CommitSweep, RevokeAccessOf, DeadlockAbort, Fail, Abort, TypeOK
    <3>2. ~Accept(q)
      BY <3>1 DEF Accept, AcceptExchange, AcceptPresented, AcceptAdmin, JobInv
    <3>3. job' = job
      BY <2>3, <3>2 DEF Serve, FindForRefresh, CheckMember, LockPresented, Rotate,
         CheckSuccessor, ScanFamily, MintAccess, IssueRefresh, FindForRevoke,
         RevokePresented, Suspend, Remove, ScanUser, Sweep, SweepRow,
         CommitSweep, RevokeAccessOf, DeadlockAbort, Fail, Abort
    <3> QED BY <3>1, <3>3
  <2> QED BY <2>1, <2>2, <2>3, NextCases
<1>4. \A q \in Requests : access'[q] = "live" => Covered(q)'
  BY <1>1, <1>2, <1>3
<1> QED BY <1>4 DEF AccessInv

LEMMA SpecHInv == Spec => []HInv
<1>1. IInv /\ HInv /\ [Next]_vars => HInv'
  BY StepStage, StepRevoked, StepSweep, StepAdmitted, StepSpared, StepAccess DEF HInv
<1> QED BY InitHInv, SpecIInv, <1>1, PTL DEF Spec

\* A revocation takes effect: the revocation endpoint's 200 to the owning client
\* means that the token is revoked, also when it was rotated between the
\* handler's read and its update; and once the UPDATE of a sweep has committed,
\* every row its snapshot selected is revoked, whatever transactions held the
\* rows meanwhile.
THEOREM RevocationIsEffective == Spec => []RevocationTakesEffect
<1>1. HInv => RevocationTakesEffect
  BY DEF HInv, RevocationTakesEffect
<1> QED BY SpecHInv, <1>1, PTL

\* Suspension and removal leave no live token or access record of the member,
\* but for requests past the membership check and revocations that stopped.
THEOREM SuspensionIsEffective == Spec => []SuspensionEndsTokens
<1>1. HInv => SuspensionEndsTokens
  BY DEF HInv, SparedInv, AccessInv, SuspensionEndsTokens
<1> QED BY SpecHInv, <1>1, PTL

----------------------------------------------------------------------------
(* The requests implement the abstract specification of token families.    *)

LEMMA InitRefines == Init => Families!Init
BY TokenAssumption DEF TokenAssumption, Init, Families!Init

\* A rotation replaces the usable token it holds.
LEMMA RotateRefines ==
  ASSUME IInv, NEW r \in Requests, Rotate(r)
  PROVE  \E t, n \in Tokens : Families!Replace(t, n)
<1> DEFINE t == job[r].tok
<1>1. /\ t \in Tokens /\ t \in issued /\ t \notin revoked
      /\ NewId \in Tokens /\ NewId \notin issued
  BY FreshId DEF Rotate, IInv, JobInv, LockInv, TypeOK, RotationStages
<1>2. Families!Replace(t, NewId)
  BY <1>1 DEF Rotate, Families!Replace, Families!Used, IInv, TypeOK
<1> QED BY <1>1, <1>2

\* The first token of a grant opens a family.
LEMMA IssueRefines ==
  ASSUME IInv, NEW r \in Requests, IssueRefresh(r)
  PROVE  \E n \in Tokens : Families!Open(n)
<1>1. /\ NewId \in Tokens /\ NewId \notin issued /\ revoked \subseteq issued
      /\ issued' = issued \union {NewId}
      /\ family' = [family EXCEPT ![NewId] = NewId]
      /\ revoked' = revoked
  BY FreshId DEF IssueRefresh, IInv, TypeOK
<1>2. Families!Open(NewId)
  BY <1>1 DEF Families!Open, Families!Used
<1> QED BY <1>1, <1>2

\* The two statements that revoke retire usable tokens.
LEMMA RevokeRefines ==
  ASSUME IInv, NEW r \in Requests, RevokePresented(r) \/ CommitSweep(r)
  PROVE  \E S \in SUBSET Tokens : Families!Retire(S)
<1> DEFINE S == revoked' \ revoked
<1>1. /\ revoked \subseteq revoked' /\ revoked' \subseteq issued
      /\ issued' = issued /\ family' = family
  <2>1. CASE RevokePresented(r)
    BY <2>1 DEF RevokePresented, IInv, JobInv, TypeOK
  <2>2. CASE CommitSweep(r)
    BY <2>2, TokenAssumption DEF TokenAssumption, CommitSweep, Held, IInv, LockInv, TypeOK
  <2> QED BY <2>1, <2>2
<1>2. S \in SUBSET Tokens /\ Families!Retire(S)
  BY <1>1 DEF Families!Retire, IInv, TypeOK
<1> QED BY <1>2

LEMMA NextRefines == IInv /\ [Next]_vars => [Families!Next]_(Families!vars)
<1> SUFFICES ASSUME IInv, [Next]_vars
             PROVE  Families!Next \/ UNCHANGED Families!vars
  OBVIOUS
<1> USE DEF Families!vars
<1>1. ASSUME NEW r \in Requests, Serve(r)
      PROVE  Families!Next \/ UNCHANGED Families!vars
  <2>1. CASE Rotate(r) \/ IssueRefresh(r) \/ RevokePresented(r) \/ CommitSweep(r)
    BY <2>1, RotateRefines, IssueRefines, RevokeRefines DEF Families!Next
  <2>2. CASE ~(Rotate(r) \/ IssueRefresh(r) \/ RevokePresented(r) \/ CommitSweep(r))
    <3>1. UNCHANGED table
      BY <1>1, <2>2 DEF Serve, FindForRefresh, CheckMember, LockPresented,
         CheckSuccessor, ScanFamily, MintAccess, FindForRevoke, Suspend,
         Remove, Sweep, ScanUser, SweepRow, RevokeAccessOf, DeadlockAbort, Abort
    <3> QED BY <3>1 DEF table
  <2> QED BY <2>1, <2>2
<1>2. ASSUME Environment \/ Quiescent PROVE UNCHANGED Families!vars
  BY <1>2 DEF Environment, Accept, AcceptExchange, AcceptPresented, AcceptAdmin,
     Fail, Abort, RevokeAccess, Unsuspend, Rejoin, Expire, Quiescent, vars, table
<1>3. CASE UNCHANGED vars
  BY <1>3 DEF vars, table
<1> QED BY <1>1, <1>2, <1>3 DEF Next

\* Refinement: every behaviour of the concurrent requests is a behaviour of
\* the abstract token families.
THEOREM RefinesFamilies == Spec => ImplementsFamilies
BY InitRefines, NextRefines, SpecIInv, PTL DEF Spec, ImplementsFamilies, Families!Spec
=============================================================================
