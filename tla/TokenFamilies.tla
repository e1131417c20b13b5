--------------------------- MODULE TokenFamilies ----------------------------
(***************************************************************************)
(* What the provider promises of refresh tokens, without requests, rows or *)
(* locks: a family is opened with one usable token, a use of the usable    *)
(* token replaces it by a fresh one of the same family, and usable tokens  *)
(* may be retired at any time.  A retired token never becomes usable       *)
(* again.  RefreshTokens implements this specification.                    *)
(***************************************************************************)
CONSTANT Tokens

VARIABLES usable, retired, family

vars == <<usable, retired, family>>

Used == usable \union retired

Init ==
  /\ usable \in SUBSET Tokens
  /\ retired = {}
  /\ family = [t \in Tokens |-> t]

\* A grant opens a new family.
Open(n) ==
  /\ n \in Tokens \ Used
  /\ usable' = usable \union {n}
  /\ family' = [family EXCEPT ![n] = n]
  /\ UNCHANGED retired

\* A use of t answers with n and retires t.
Replace(t, n) ==
  /\ t \in usable
  /\ n \in Tokens \ Used
  /\ usable' = (usable \ {t}) \union {n}
  /\ retired' = retired \union {t}
  /\ family' = [family EXCEPT ![n] = family[t]]

\* Revocation: by the client, with the user's other tokens, or with a family
\* in which a retired token was used.
Retire(S) ==
  /\ S \subseteq usable
  /\ usable' = usable \ S
  /\ retired' = retired \union S
  /\ UNCHANGED family

Next ==
  \/ \E n \in Tokens : Open(n)
  \/ \E t, n \in Tokens : Replace(t, n)
  \/ \E S \in SUBSET Tokens : Retire(S)

Spec == Init /\ [][Next]_vars

----------------------------------------------------------------------------

\* Sets and columns have their types, and a family is named by a token that
\* has been issued.
TypeOK ==
  /\ usable \subseteq Tokens
  /\ retired \subseteq Tokens
  /\ family \in [Tokens -> Tokens]
  /\ \A t \in Used : family[t] \in Used

\* A family never has two usable tokens (rotate_refresh_token's promise).
OneUsable ==
  \A s, t \in usable : family[s] = family[t] => s = t

\* A token is usable or retired, never both: a use cannot bring one back.
RetiredIsFinal == usable \intersect retired = {}
=============================================================================
