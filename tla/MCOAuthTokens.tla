--------------------------- MODULE MCOAuthTokens ----------------------------
EXTENDS OAuthTokens, TLC

CONSTANTS a1, s1, t1, t2, k1, k2, r1

(* Tokens and codes are random, and so alike. *)
Random == Permutations({t1, t2}) \cup Permutations({k1, k2})
=============================================================================
