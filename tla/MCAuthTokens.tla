----------------------------- MODULE MCAuthTokens -----------------------------
(***************************************************************************)
(* AuthTokens on small instances.  Requests, tokens and passwords are only *)
(* compared for equality, so their model values are interchangeable.       *)
(***************************************************************************)
EXTENDS AuthTokens, TLC

Symmetry == Permutations(Req) \cup Permutations(Jti) \cup Permutations(Password)
==============================================================================
