------------------------ MODULE TokenFamilies_proofs ------------------------
(* Proofs about the abstract specification of token families. *)
EXTENDS TokenFamilies, TLAPS

\* The invariant is inductive as it stands: a fresh token is in no family
\* yet (TypeOK), and a replacement removes the token it replaces.
IInv == TypeOK /\ OneUsable /\ RetiredIsFinal

LEMMA InitIInv == Init => IInv
<1> SUFFICES ASSUME Init PROVE IInv
  OBVIOUS
<1>1. TypeOK
  BY DEF Init, TypeOK, Used
<1>2. OneUsable
  BY DEF Init, OneUsable
<1>3. RetiredIsFinal
  BY DEF Init, RetiredIsFinal
<1> QED BY <1>1, <1>2, <1>3 DEF IInv

\* Opening a family adds one usable token in a family of its own.
LEMMA OpenIInv ==
  ASSUME IInv, NEW n \in Tokens, Open(n)
  PROVE  IInv'
<1> USE DEF IInv, Open, Used
<1>1. TypeOK'
  BY DEF TypeOK
<1>2. OneUsable'
  BY DEF TypeOK, OneUsable
<1>3. RetiredIsFinal'
  BY DEF RetiredIsFinal
<1> QED BY <1>1, <1>2, <1>3

\* A replacement keeps the number of usable tokens of the family.
LEMMA ReplaceIInv ==
  ASSUME IInv, NEW t \in Tokens, NEW n \in Tokens, Replace(t, n)
  PROVE  IInv'
<1> USE DEF IInv, Replace, Used
<1>1. TypeOK'
  BY DEF TypeOK
<1>2. OneUsable'
  BY DEF TypeOK, OneUsable
<1>3. RetiredIsFinal'
  BY DEF RetiredIsFinal
<1> QED BY <1>1, <1>2, <1>3

LEMMA RetireIInv ==
  ASSUME IInv, NEW S \in SUBSET Tokens, Retire(S)
  PROVE  IInv'
BY DEF IInv, Retire, Used, TypeOK, OneUsable, RetiredIsFinal

\* A family of the abstract specification never has two usable tokens, and
\* no token is both usable and retired (rotate_refresh_token's promise).
THEOREM FamiliesAreSafe == Spec => [](TypeOK /\ OneUsable /\ RetiredIsFinal)
<1>1. IInv /\ [Next]_vars => IInv'
  <2> SUFFICES ASSUME IInv, [Next]_vars PROVE IInv'
    OBVIOUS
  <2>1. CASE Next
    BY <2>1, OpenIInv, ReplaceIInv, RetireIInv DEF Next
  <2>2. CASE UNCHANGED vars
    BY <2>2 DEF IInv, vars, TypeOK, OneUsable, RetiredIsFinal, Used
  <2> QED BY <2>1, <2>2
<1> QED BY InitIInv, <1>1, PTL DEF Spec, IInv
=============================================================================
