------------------------------ MODULE MCGrants ------------------------------
EXTENDS Grants, TLC

CONSTANTS p1, p2, a1, a2, s1, k1, k2

(* Two daemons alike, and two calls alike. *)
Alike == Permutations({p1, p2}) \cup Permutations({k1, k2})

(* Service accounts alone: no agent asks for approval, so no prompt opens.       *)
ServiceNext == Next /\ UNCHANGED dialogs
ServiceSpec == Init /\ [][ServiceNext]_vars
=============================================================================
