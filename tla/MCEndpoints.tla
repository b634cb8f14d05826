----------------------------- MODULE MCEndpoints -----------------------------
(***************************************************************************)
(* Instance of Endpoints: two secured tenants and one without secrets, one *)
(* contact; a burst of two messages and one more every three seconds.      *)
(***************************************************************************)
EXTENDS Endpoints, TLC

CONSTANTS r1, r2, r3, t1, t2, t3, ana, us, anaLid, usLid

MCLidOf == ana :> anaLid @@ us :> usLid

Symmetry == Permutations({r1, r2, r3}) \cup Permutations({t1, t2})

=============================================================================
