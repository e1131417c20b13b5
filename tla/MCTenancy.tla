------------------------------ MODULE MCTenancy -----------------------------
(* Small instances of Tenancy for TLC. *)
EXTENDS Tenancy, TLC

\* Request slots, and the users other than the founder, are interchangeable.
Interchangeable == Permutations(Requests) \union Permutations(Users \ {Founder})
=============================================================================
