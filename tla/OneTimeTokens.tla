---------------------------- MODULE OneTimeTokens ----------------------------
(***************************************************************************)
(* What the single-use secrets of the identity provider promise: password  *)
(* reset tokens, login challenges, recovery codes, passkey challenges,     *)
(* enrollment tokens and device codes.  A token is handed out, redeemed at *)
(* most once, and what it was redeemed for happens at most once.           *)
(***************************************************************************)
EXTENDS Naturals

CONSTANT Ids

VARIABLES
  open,     \* tokens that can be redeemed
  spent,    \* tokens that were redeemed
  answers   \* how often a token had its effect

vars == <<open, spent, answers>>

Init ==
  /\ open \subseteq Ids
  /\ spent = {}
  /\ answers = [t \in Ids |-> 0]

Issue(t) ==
  /\ t \notin open \union spent
  /\ answers[t] = 0
  /\ open' = open \union {t}
  /\ UNCHANGED <<spent, answers>>

Redeem(t) ==
  /\ t \in open
  /\ open' = open \ {t}
  /\ spent' = spent \union {t}
  /\ UNCHANGED answers

\* tokens lapse, or go with the row they belong to
Discard(S) ==
  /\ open' = open \ S
  /\ UNCHANGED <<spent, answers>>

\* A redeemed token has its effect; it may also never have it, when the
\* request that redeemed it is lost.
Answer(t) ==
  /\ t \in spent
  /\ answers[t] = 0
  /\ answers' = [answers EXCEPT ![t] = 1]
  /\ UNCHANGED <<open, spent>>

Next ==
  \/ \E t \in Ids : Issue(t) \/ Redeem(t) \/ Answer(t)
  \/ \E S \in SUBSET Ids : Discard(S)

Spec == Init /\ [][Next]_vars

----------------------------------------------------------------------------

\* Tokens are open or spent, never both, and only a spent one was answered,
\* once at most.
SingleUse ==
  /\ open \subseteq Ids /\ spent \subseteq Ids
  /\ answers \in [Ids -> {0, 1}]
  /\ open \intersect spent = {}
  /\ \A t \in Ids : answers[t] = 1 => t \in spent

\* A spent token stays spent, whatever is issued or discarded, and what it was
\* redeemed for is not taken back.
SpentIsFinal ==
  [][/\ spent \subseteq spent'
     /\ open' \intersect spent = {}
     /\ \A t \in Ids : answers[t] = 1 => answers'[t] = 1]_vars
=============================================================================
