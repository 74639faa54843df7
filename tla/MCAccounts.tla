----------------------------- MODULE MCAccounts -----------------------------
EXTENDS Accounts

CONSTANTS p, q, b1, b2, k1, k2, r1, r2

Interchangeable ==
    Permutations({b1, b2}) \cup Permutations({k1, k2}) \cup Permutations({r1, r2})
=============================================================================
