------------------------ MODULE MCTShirtCatalogue ------------------------
(* Small instances of TShirtCatalogue for TLC. *)
EXTENDS TShirtCatalogue, TLC

CONSTANTS p1, p2, s1, s2

CatalogueSymmetry == Permutations(PO) \cup Permutations(Size)
=============================================================================
