----------------------------- MODULE MCAccounts -----------------------------
(* Small instances of Accounts for TLC. *)
EXTENDS Accounts, TLC

\* A behaviour that starts with a verified account and the given sessions.
With(kinds, live, secure, sessions, tokens) ==
  [kinds |-> kinds, exists |-> TRUE, live |-> live, secure |-> secure, counts |-> TRUE,
   sessions |-> sessions, tokens |-> tokens]

\* What can race, by the rows it shares.
Races == {
  \* from registration to the first sign-in
  [kinds |-> {"register", "resend", "verify", "login", "erase"},
   exists |-> FALSE, live |-> {}, secure |-> FALSE, counts |-> FALSE,
   sessions |-> {1, 2}, tokens |-> {1, 2}],
  \* a reset before the address is verified
  [kinds |-> {"register", "verify", "login", "forgot", "reset"},
   exists |-> FALSE, live |-> {}, secure |-> FALSE, counts |-> FALSE,
   sessions |-> {1}, tokens |-> {1, 2}],
  \* passwords and sessions
  With({"login", "forgot", "reset"}, {1}, FALSE, {1, 2}, {1, 2}),
  With({"login", "forgot", "reset", "authorize", "exchange", "refresh"},
       {1}, FALSE, {1, 2}, {1, 2}),
  With({"forgot", "reset", "authorize", "exchange", "refresh"},
       {1}, FALSE, {1}, {1, 2, 3}),
  With({"change", "authorize", "exchange", "refresh"}, {1, 2}, FALSE, {1, 2}, {1}),
  With({"erase", "authorize", "exchange", "refresh"}, {1}, FALSE, {1}, {1, 2}),
  With({"login", "change", "endothers"}, {1}, FALSE, {1, 2, 3}, {}),
  With({"reauth", "change", "logout", "end", "erase"}, {1, 2}, FALSE, {1, 2}, {}),
  \* the second factor
  With({"setup", "confirm", "disable", "erase"}, {1}, FALSE, {1}, {}),
  With({"setup", "confirm", "login", "mfa"}, {1}, FALSE, {1, 2}, {1}),
  With({"login", "mfa", "forgot", "reset"}, {1}, TRUE, {1, 2}, {1, 2}),
  \* recovery codes
  With({"generate", "recover", "erase"}, {1}, FALSE, {1, 2}, {1, 2}),
  \* the passkey
  With({"addkey", "newkey", "askkey", "usekey", "dropkey"}, {1}, FALSE, {1, 2}, {1, 2}),
  With({"addkey", "newkey", "dropkey", "erase"}, {1}, FALSE, {1}, {1, 2}),
  With({"askkey", "usekey", "erase"}, {1}, TRUE, {1, 2, 3}, {1, 2})}

Interchangeable == Permutations(Requests)
=============================================================================
