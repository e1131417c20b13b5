------------------------- MODULE OneTimeTokens_proofs -------------------------
(***************************************************************************)
(* Proofs about the abstract single-use secret, for any set of tokens.     *)
(* The refinements of it, by accounts, devices, enrollment and             *)
(* authorization codes, inherit both.                                      *)
(***************************************************************************)
EXTENDS OneTimeTokens, TLAPS

LEMMA InitSingleUse == Init => SingleUse
BY DEF Init, SingleUse

\* The invariant is inductive as it stands.
LEMMA NextSingleUse ==
  ASSUME SingleUse, [Next]_vars
  PROVE  /\ SingleUse'
         /\ spent \subseteq spent'
         /\ open' \intersect spent = {}
         /\ \A t \in Ids : answers[t] = 1 => answers'[t] = 1
<1> USE DEF SingleUse
<1>1. ASSUME NEW t \in Ids, Issue(t)
      PROVE  /\ SingleUse' /\ UNCHANGED <<spent, answers>>
             /\ open' \intersect spent = {}
  BY <1>1 DEF Issue
<1>2. ASSUME NEW t \in Ids, Redeem(t)
      PROVE  /\ SingleUse' /\ UNCHANGED answers
             /\ spent \subseteq spent' /\ open' \intersect spent = {}
  BY <1>2 DEF Redeem
<1>3. ASSUME NEW t \in Ids, Answer(t)
      PROVE  /\ SingleUse' /\ UNCHANGED <<open, spent>>
             /\ \A s \in Ids : answers[s] = 1 => answers'[s] = 1
  BY <1>3 DEF Answer
<1>4. ASSUME NEW S \in SUBSET Ids, Discard(S)
      PROVE  /\ SingleUse' /\ UNCHANGED <<spent, answers>>
             /\ open' \intersect spent = {}
  BY <1>4 DEF Discard
<1>5. CASE UNCHANGED vars
  BY <1>5 DEF vars
<1> QED BY <1>1, <1>2, <1>3, <1>4, <1>5 DEF Next

\* A secret is open or spent, never both, and answered once at most, after it
\* was spent: redeem-once, as every caller of a guarded UPDATE relies on it.
THEOREM SecretsAnsweredOnce == Spec => []SingleUse
BY InitSingleUse, NextSingleUse, PTL DEF Spec

\* A spent secret is never open again.
THEOREM SpentForGood == Spec => SpentIsFinal
BY SecretsAnsweredOnce, NextSingleUse, PTL DEF Spec, SpentIsFinal
=============================================================================
