------------------------------ MODULE MCSetup ------------------------------
(***************************************************************************)
(* Instances of Setup: two tenants, two instances, three executions.       *)
(***************************************************************************)
EXTENDS Setup, TLC

CONSTANTS shop, store, phone1, phone2, r1, r2, r3

MCLegacyOn == (shop :> phone1) @@ (store :> phone2)

Symmetry == Permutations(Runs)

=============================================================================
