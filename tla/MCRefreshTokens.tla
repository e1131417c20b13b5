--------------------------- MODULE MCRefreshTokens --------------------------
(* Small instances of RefreshTokens for TLC. *)
EXTENDS RefreshTokens, TLC

\* one user with one membership each
OneAccountEach == {{m} : m \in Members}
\* one user who is a member everywhere
OneAccount == {Members}

\* Requests, clients and members are interchangeable.
Interchangeable ==
  Permutations(Requests) \union Permutations(Clients) \union Permutations(Members)
=============================================================================
