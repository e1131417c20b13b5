----------------------------- MODULE MCPlatform -----------------------------
(* Small instances of Platform for TLC. *)
EXTENDS Platform, TLC

CONSTANTS sa, d1

Nobody   == [c \in Creds |-> None]
Machinery == [Nobody EXCEPT ![1] = sa, ![2] = d1]

\* With or without the application, with the given machines and ids.
With(kinds, app, holder, credIds, tokenIds) ==
  [kinds |-> kinds, booted |-> TRUE, app |-> app, holder |-> holder,
   creds |-> credIds, tokens |-> tokenIds, slots |-> 3]
Unbooted(m) == [m EXCEPT !.booted = FALSE]
InTime(m)   == [m EXCEPT !.slots = 2]

\* What can race, by the rows it shares.
Races == {
  \* keys: first boot, rotations, tokens that are minted and validated
  Unbooted(With({"boot", "rotatekey", "machine", "validate"}, FALSE, Machinery, {}, {1})),
  InTime(With({"rotatekey", "machine", "tick"}, FALSE, Machinery, {}, {1})),
  \* machines
  With({"create", "rotate", "suspend", "delete"}, FALSE, Nobody, 1..4, {}),
  With({"rotate", "suspend", "delete", "machine", "validate"}, FALSE, Machinery, {3}, {1}),
  InTime(With({"rotate", "overwrite", "machine", "expire", "tick"}, FALSE, Machinery, {3}, {1})),
  With({"issue", "enroll", "overwrite", "revoke"}, FALSE, Nobody, 1..3, {}),
  With({"revoke", "overwrite", "machine", "validate"}, FALSE, Machinery, {3}, {1}),
  \* the application and its device codes
  With({"app", "secret", "drop"}, FALSE, Nobody, {}, {}),
  With({"start", "decide", "poll", "drop"}, TRUE, Nobody, {}, {1, 2}),
  With({"start", "decide", "poll", "member", "validate"}, TRUE, Nobody, {}, {1})}

Interchangeable == Permutations(Requests)
=============================================================================
