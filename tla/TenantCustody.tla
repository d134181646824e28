--------------------------- MODULE TenantCustody ---------------------------
(***************************************************************************)
(* What the operator promises about running tenant namespaces, and nothing *)
(* of how it keeps it: a ProjectOnboarding (PO) gets custody of namespaces *)
(* only while its books are open, a namespace has one custodian at a time, *)
(* what was noticed stays so as long as the custody lasts, and the books   *)
(* do not close on a namespace that was noticed.                           *)
(***************************************************************************)
CONSTANTS PO, NS, None

VARIABLES
    open,       \* POs whose deletion the operator still has a say in
    custodian,  \* the PO a running namespace belongs to, or None
    noticed     \* <<p, n>>: known to stand in the way of the deletion of p

Init ==
    /\ open = [p \in PO |-> FALSE]
    /\ custodian = [n \in NS |-> None]
    /\ noticed = {}

\* Custodies there will be, under open books.
Kept == {w \in PO \X NS : custodian'[w[2]] = w[1] /\ open'[w[1]]}

\* Any step may notice more of them, none forgets one.
Notice == noticed \cap Kept \subseteq noticed' /\ noticed' \subseteq Kept

Open(p) ==
    /\ ~open[p]
    /\ open' = [open EXCEPT ![p] = TRUE]
    /\ UNCHANGED custodian

Take(p, n) ==
    /\ open[p]
    /\ custodian' = [custodian EXCEPT ![n] = p]
    /\ UNCHANGED open

Release(n) ==
    /\ custodian' = [custodian EXCEPT ![n] = None]
    /\ UNCHANGED open

Close(p) ==
    /\ open[p]
    /\ \A n \in NS : <<p, n>> \notin noticed
    /\ open' = [open EXCEPT ![p] = FALSE]
    /\ UNCHANGED custodian

Next ==
    /\ \/ \E p \in PO : Open(p) \/ Close(p)
       \/ \E p \in PO, n \in NS : Take(p, n)
       \/ \E n \in NS : Release(n)
       \/ UNCHANGED <<open, custodian>>
    /\ Notice

Spec == Init /\ [][Next]_<<open, custodian, noticed>>
=============================================================================
