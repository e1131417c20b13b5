------------------------------ MODULE MCGrants ------------------------------
(* Small instances of Grants for TLC. *)
EXTENDS Grants, TLC

\* Request slots and clients are interchangeable.
Interchangeable ==
  Permutations(Requests) \union Permutations(Clients)
=============================================================================
