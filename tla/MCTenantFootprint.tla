------------------------- MODULE MCTenantFootprint -------------------------
(* Small instances of TenantFootprint for TLC. *)
EXTENDS TenantFootprint, TLC

CONSTANTS p1, n1, n2

\* Every PO may list every name: nothing in the webhook forbids it.
SharedClaims == [p \in PO |-> NS]

\* Specs whose labels leave the managed ones alone.
PlainKinds == AllKinds \ {"override"}

NamesSymmetry == Permutations(NS)
=============================================================================
