------------------------- MODULE MCTenantLifecycle -------------------------
(* Small instances of TenantLifecycle for TLC. *)
EXTENDS TenantLifecycle, TLC

CONSTANTS p1, p2, n1, n2

\* Every PO may list every name: nothing in the webhook forbids it.
SharedClaims == [p \in PO |-> NS]

\* Specs whose labels leave the managed ones alone.
PlainKinds == AllKinds \ {"override"}

CoreKinds == {"none", "active", "offboard"}

\* A bound: every PO lists every name; entries that are dropped are the other runs'.
ListedByAll == \A p \in PO : po[p].state # "absent" => \A n \in NS : po[p].spec[n] # "none"

NamesSymmetry == Permutations(NS)

ObjectsSymmetry == Permutations(PO)
=============================================================================
