----------------------- MODULE TShirtCatalogueProofs -----------------------
(***************************************************************************)
(* Theorems of TShirtCatalogue for any number of POs, sizes, edits and     *)
(* faults, requests that overlap and informers that lag: types, and that   *)
(* a size stays for every reference to it the webhooks know of.            *)
(***************************************************************************)
EXTENDS TShirtCatalogue, FiniteSetTheorems, TLAPS

\* The count of references is a natural number, and none of it means none.
LEMMA CountOK ==
    ASSUME NEW s \in Size
    PROVE  /\ Count(s) \in Nat
           /\ Count(s) = 0 => Referring(s) = {}
  <1>1. IsFiniteSet(PO)
    BY CatalogueAssumption
  <1>2. Referring(s) \in SUBSET PO
    BY DEF Referring
  <1>3. IsFiniteSet(Referring(s))
    BY <1>1, <1>2, FS_Subset
  <1>4. QED BY <1>3, FS_CardinalityType, FS_EmptySet DEF Count

\* A request under review leaves room for as many as are allowed.
LEMMA AdmitOK ==
    ASSUME ReviewsOK, NEW r \in Review, Admit(r)
    PROVE  ReviewsOK'
  <1>1. Cardinality(reviews) < MaxReviews /\ reviews' = reviews \cup {r}
    BY DEF Admit
  <1>2. IsFiniteSet(reviews) /\ Cardinality(reviews) \in Nat
    BY FS_CardinalityType DEF ReviewsOK
  <1>3. /\ IsFiniteSet(reviews \cup {r})
        /\ Cardinality(reviews \cup {r}) =
             IF r \in reviews THEN Cardinality(reviews) ELSE Cardinality(reviews) + 1
    BY <1>2, FS_AddElement
  <1>4. Cardinality(reviews \cup {r}) <= MaxReviews
    BY <1>1, <1>2, <1>3, CatalogueAssumption
  <1>5. QED BY <1>1, <1>3, <1>4 DEF ReviewsOK

\* A stored request is no longer under review.
LEMMA StoreOK ==
    ASSUME ReviewsOK, NEW r \in reviews, reviews' = reviews \ {r}
    PROVE  ReviewsOK'
  <1>1. IsFiniteSet(reviews) /\ Cardinality(reviews) \in Nat
    BY FS_CardinalityType DEF ReviewsOK
  <1>2. /\ IsFiniteSet(reviews \ {r})
        /\ Cardinality(reviews \ {r}) =
             IF r \in reviews THEN Cardinality(reviews) - 1 ELSE Cardinality(reviews)
    BY <1>1, FS_RemoveElement
  <1>3. Cardinality(reviews \ {r}) <= MaxReviews
    BY <1>1, <1>2, CatalogueAssumption DEF ReviewsOK
  <1>4. QED BY <1>2, <1>3 DEF ReviewsOK

\* The records that stand for nothing have the types of what they replace.
LEMMA NothingOK ==
    NoOnboarding \in Onboarding /\ NoTShirt \in TShirt /\ Unsized \in Sizing
  BY CatalogueAssumption
  DEF NoOnboarding, Onboarding, NoTShirt, TShirt, Unsized, Sizing, References

\* A PO that gets its finalizer, or loses it for good, is still a PO.
LEMMA WithFinalizerOK ==
    ASSUME NEW o \in Onboarding
    PROVE  /\ [o EXCEPT !.fin = TRUE] \in Onboarding
           /\ [o EXCEPT !.fin = FALSE, !.state = "gone"] \in Onboarding
  BY DEF Onboarding

\* The initial state, sizes without references and no pass running, is typed.
LEMMA InitTypeOK == Init => TypeOK
  <1> SUFFICES ASSUME Init PROVE TypeOK
    OBVIOUS
  <1>1. [present |-> TRUE, version |-> 0, referencedBy |-> 0] \in TShirt
    BY CatalogueAssumption DEF TShirt
  <1>2. ServerOK /\ CachesOK
    BY <1>1, NothingOK DEF Init, ServerOK, CachesOK
  <1>3. ReviewsOK
    <2>1. reviews = {}
      BY DEF Init
    <2>2. IsFiniteSet({}) /\ Cardinality({}) = 0
      BY FS_EmptySet
    <2>3. QED BY <2>1, <2>2, CatalogueAssumption DEF ReviewsOK
  <1>4. LocalsOK /\ CountsOK
    BY NothingOK DEF Init, LocalsOK, CountsOK
  <1>5. \A p \in PO : PassOK(p)
    BY DEF Init, PassOK
  <1>6. QED BY <1>2, <1>3, <1>4, <1>5, CatalogueAssumption DEF Init, TypeOK

\* A pass that ends holds nothing.
LEMMA IdleOK ==
    ASSUME NEW p \in PO, LocalsOK, \A q \in PO : PassOK(q), Idle(p)
    PROVE  LocalsOK' /\ \A q \in PO : PassOK(q)'
  <1>1. LocalsOK'
    BY NothingOK DEF LocalsOK, Idle
  <1>2. ASSUME NEW q \in PO PROVE PassOK(q)'
    <2>1. CASE q = p
      BY <2>1 DEF LocalsOK, Idle, PassOK
    <2>2. CASE q # p
      BY <2>2 DEF LocalsOK, Idle, PassOK
    <2>3. QED BY <2>1, <2>2
  <1>3. QED BY <1>1, <1>2

\* An informer that catches up keeps the types.
LEMMA SyncTypeOK ==
    ASSUME TypeOK, (\E p \in PO : SyncObject(p)) \/ (\E s \in Size : SyncSize(s))
    PROVE  TypeOK'
  <1>1. ASSUME NEW p \in PO, SyncObject(p) PROVE TypeOK'
    <2>1. CachesOK'
      BY <1>1 DEF SyncObject, TypeOK, CachesOK, ServerOK
    <2>2. SizesOf(poCache[p], po[p]) \subseteq Size
      BY DEF SizesOf, TypeOK, CachesOK, ServerOK, Onboarding, References
    <2>3. poQueue' \subseteq PO /\ sizeQueue' \subseteq Size
      BY <1>1, <2>2 DEF SyncObject, TypeOK
    <2>4. ServerOK' /\ ReviewsOK' /\ LocalsOK' /\ CountsOK'
      BY <1>1 DEF SyncObject, server, poPass, sizePass, TypeOK, ServerOK, ReviewsOK,
                  LocalsOK, CountsOK
    <2>5. edits' = edits /\ faults' = faults /\ \A q \in PO : PassOK(q)'
      BY <1>1 DEF SyncObject, bounds, poPass, TypeOK, PassOK
    <2>6. QED BY <2>1, <2>3, <2>4, <2>5 DEF TypeOK
  <1>2. ASSUME NEW s \in Size, SyncSize(s) PROVE TypeOK'
    <2>1. CachesOK'
      BY <1>2 DEF SyncSize, TypeOK, CachesOK, ServerOK
    <2>2. poQueue' \subseteq PO /\ sizeQueue' \subseteq Size
      BY <1>2 DEF SyncSize, Referring, TypeOK
    <2>3. ServerOK' /\ ReviewsOK' /\ LocalsOK' /\ CountsOK'
      BY <1>2 DEF SyncSize, server, poPass, sizePass, TypeOK, ServerOK, ReviewsOK,
                  LocalsOK, CountsOK
    <2>4. edits' = edits /\ faults' = faults /\ \A q \in PO : PassOK(q)'
      BY <1>2 DEF SyncSize, bounds, poPass, TypeOK, PassOK
    <2>5. QED BY <2>1, <2>2, <2>3, <2>4 DEF TypeOK
  <1>3. QED BY <1>1, <1>2

\* A request that is admitted is of the type of a request, and its admission
\* changes nothing but the reviews and the edits used up.
LEMMA UsersAdmit ==
    ASSUME TypeOK, Users
    PROVE  /\ \E r \in Review : Admit(r)
           /\ UNCHANGED <<server, caches, queues, poPass, sizePass, faults>>
           /\ edits' \in 0 .. MaxEdits
  <1> USE CatalogueAssumption DEF Unreviewed, bounds
  <1>1. ASSUME NEW p \in PO, CreateObject(p)
        PROVE  (\E r \in Review : Admit(r)) /\ edits' \in 0 .. MaxEdits
    <2>1. PICK ref \in References :
             Admit([on |-> "po", key |-> p, old |-> po[p],
                    new |-> [state |-> "live", fin |-> FALSE, ref |-> ref]])
      BY <1>1 DEF CreateObject
    <2>2. [on |-> "po", key |-> p, old |-> po[p],
           new |-> [state |-> "live", fin |-> FALSE, ref |-> ref]] \in Review
      BY DEF TypeOK, ServerOK, Review, Onboarding
    <2>3. QED BY <1>1, <2>1, <2>2 DEF CreateObject, TypeOK
  <1>2. ASSUME NEW p \in PO, EditReference(p)
        PROVE  (\E r \in Review : Admit(r)) /\ edits' \in 0 .. MaxEdits
    <2>1. PICK ref \in References :
             Admit([on |-> "po", key |-> p, old |-> po[p], new |-> [po[p] EXCEPT !.ref = ref]])
      BY <1>2 DEF EditReference
    <2>2. [on |-> "po", key |-> p, old |-> po[p], new |-> [po[p] EXCEPT !.ref = ref]] \in Review
      BY DEF TypeOK, ServerOK, Review, Onboarding
    <2>3. QED BY <1>2, <2>1, <2>2 DEF EditReference, Edit, TypeOK
  <1>3. ASSUME NEW p \in PO, DeleteObject(p)
        PROVE  (\E r \in Review : Admit(r)) /\ edits' \in 0 .. MaxEdits
    <2> DEFINE new == [po[p] EXCEPT !.state = IF po[p].fin THEN "deleting" ELSE "gone"]
    <2>1. [on |-> "po", key |-> p, old |-> po[p], new |-> new] \in Review
      BY DEF TypeOK, ServerOK, Review, Onboarding
    <2>2. QED BY <1>3, <2>1 DEF DeleteObject, TypeOK
  <1>4. ASSUME NEW s \in Size, WriteSize(s)
        PROVE  (\E r \in Review : Admit(r)) /\ edits' \in 0 .. MaxEdits
    <2> DEFINE new == [present |-> TRUE, version |-> edits + 1,
                       referencedBy |-> IF size[s].present THEN size[s].referencedBy ELSE 0]
    <2>1. edits + 1 \in 0 .. MaxEdits /\ edits' = edits + 1
      BY <1>4 DEF WriteSize, Edit, TypeOK
    <2>2. new \in TShirt
      BY <2>1 DEF TypeOK, ServerOK, TShirt
    <2>3. [on |-> "size", key |-> s, old |-> size[s], new |-> new] \in Review
      BY <2>2 DEF TypeOK, ServerOK, Review
    <2>4. QED BY <1>4, <2>1, <2>3 DEF WriteSize
  <1>5. ASSUME NEW s \in Size, DeleteSize(s)
        PROVE  (\E r \in Review : Admit(r)) /\ edits' \in 0 .. MaxEdits
    <2> DEFINE new == [size[s] EXCEPT !.present = FALSE]
    <2>1. [on |-> "size", key |-> s, old |-> size[s], new |-> new] \in Review
      BY DEF TypeOK, ServerOK, Review, TShirt
    <2>2. QED BY <1>5, <2>1 DEF DeleteSize, Edit, TypeOK
  <1>6. UNCHANGED <<server, caches, queues, poPass, sizePass, faults>>
    BY DEF Users, CreateObject, EditReference, DeleteObject, WriteSize, DeleteSize, Edit
  <1>7. QED BY <1>1, <1>2, <1>3, <1>4, <1>5, <1>6 DEF Users

\* Requests keep the types, whether they are admitted or stored.
LEMMA RequestTypeOK ==
    ASSUME TypeOK, Users \/ \E r \in reviews : Store(r)
    PROVE  TypeOK'
  <1>1. CASE Users
    <2>1. /\ UNCHANGED <<server, caches, queues, poPass, sizePass, faults>>
          /\ edits' \in 0 .. MaxEdits
      BY <1>1, UsersAdmit
    <2>2. ReviewsOK'
      BY <1>1, UsersAdmit, AdmitOK DEF TypeOK
    <2>3. ServerOK' /\ CachesOK' /\ LocalsOK' /\ CountsOK'
      BY <2>1 DEF server, caches, poPass, sizePass, TypeOK, ServerOK, CachesOK, LocalsOK, CountsOK
    <2>4. \A p \in PO : PassOK(p)'
      BY <2>1 DEF poPass, TypeOK, PassOK
    <2>5. QED BY <2>1, <2>2, <2>3, <2>4 DEF queues, TypeOK
  <1>2. ASSUME NEW r \in reviews, Store(r) PROVE TypeOK'
    <2>1. ReviewsOK'
      BY <1>2, StoreOK DEF Store, TypeOK
    <2>2. r \in Review
      BY DEF TypeOK, ReviewsOK
    <2>3. ServerOK'
      <3>1. CASE r.on = "po"
        <4>1. r.key \in PO /\ r.new \in Onboarding
          BY <2>2, <3>1 DEF Review
        <4>2. QED BY <1>2, <3>1, <4>1 DEF Store, TypeOK, ServerOK
      <3>2. CASE r.on # "po"
        <4>1. r.key \in Size /\ r.new \in TShirt
          BY <2>2, <3>2 DEF Review
        <4>2. QED BY <1>2, <3>2, <4>1 DEF Store, TypeOK, ServerOK
      <3>3. QED BY <3>1, <3>2
    <2>4. CachesOK' /\ LocalsOK' /\ CountsOK'
      BY <1>2 DEF Store, caches, poPass, sizePass, TypeOK, CachesOK, LocalsOK, CountsOK
    <2>5. \A p \in PO : PassOK(p)'
      BY <1>2 DEF Store, poPass, TypeOK, PassOK
    <2>6. QED BY <1>2, <2>1, <2>3, <2>4, <2>5 DEF Store, queues, bounds, TypeOK
  <1>3. QED BY <1>1, <1>2

\* So do the steps of the pass of a PO.
LEMMA PassTypeOK ==
    ASSUME TypeOK, NEW p \in PO, Start(p) \/ Step(p) \/ CallFails(p)
    PROVE  TypeOK'
  <1>0. /\ UNCHANGED <<size, caches, reviews, sizeQueue, sizePass, edits>>
        /\ poQueue' \subseteq PO
        /\ faults' \in 0 .. MaxFaults
    BY CatalogueAssumption
    DEF Start, Step, AddFinalizer, Resolve, Apply, RemoveFinalizer, CallFails, Retry, Done,
        TypeOK, server, bounds
  <1>1. CachesOK' /\ ReviewsOK' /\ CountsOK'
    BY <1>0 DEF caches, sizePass, TypeOK, CachesOK, ReviewsOK, CountsOK
  <1>2. SUFFICES ServerOK' /\ LocalsOK' /\ \A q \in PO : PassOK(q)'
    BY <1>0, <1>1 DEF TypeOK
  <1>3. CASE Idle(p)
    <2>1. po' \in [PO -> Onboarding] /\ applied' \in [PO -> Sizing]
      <3>1. CASE AddFinalizer(p) \/ RemoveFinalizer(p)
        <4>1. /\ [po[p] EXCEPT !.fin = TRUE] \in Onboarding
              /\ [po[p] EXCEPT !.fin = FALSE, !.state = "gone"] \in Onboarding
          BY WithFinalizerOK DEF TypeOK, ServerOK
        <4>2. /\ applied' = applied
              /\ \/ po' = po
                 \/ po' = [po EXCEPT ![p] = [@ EXCEPT !.fin = TRUE]]
                 \/ po' = [po EXCEPT ![p] = [@ EXCEPT !.fin = FALSE, !.state = "gone"]]
          BY <3>1 DEF AddFinalizer, RemoveFinalizer
        <4>3. QED BY <4>1, <4>2 DEF TypeOK, ServerOK
      <3>2. CASE Apply(p)
        BY <3>2 DEF Apply, TypeOK, ServerOK, LocalsOK
      <3>3. CASE Start(p) \/ Resolve(p) \/ CallFails(p)
        BY <3>3 DEF Start, Resolve, CallFails, server, TypeOK, ServerOK
      <3>4. QED BY <3>1, <3>2, <3>3 DEF Step
    <2>2. QED BY <1>0, <1>3, <2>1, IdleOK DEF TypeOK, ServerOK
  <1>4. CASE Start(p) /\ ~Idle(p)
    <2>1. CASE Exists(poCache[p])
      <3>1. snap' = [snap EXCEPT ![p] = poCache[p]] /\ sizing' = sizing
        BY <1>4, <2>1 DEF Start
      <3>2. pc' = [pc EXCEPT ![p] = IF poCache[p].state = "deleting" THEN "finalize"
                                    ELSE IF poCache[p].fin THEN "resolve" ELSE "ensure"]
        BY <1>4, <2>1 DEF Start
      <3>3. LocalsOK' /\ ServerOK'
        BY <1>4, <3>1, <3>2 DEF Start, server, TypeOK, CachesOK, LocalsOK, ServerOK
      <3>4. ASSUME NEW q \in PO PROVE PassOK(q)'
        <4>1. CASE q = p
          BY <4>1, <2>1, <3>1, <3>2 DEF TypeOK, LocalsOK, PassOK, Exists
        <4>2. CASE q # p
          BY <4>2, <3>1, <3>2 DEF TypeOK, LocalsOK, PassOK
        <4>3. QED BY <4>1, <4>2
      <3>5. QED BY <3>3, <3>4
    <2>2. CASE ~Exists(poCache[p])
      BY <1>4, <2>2 DEF Start, server, TypeOK, LocalsOK, ServerOK, PassOK
    <2>3. QED BY <2>1, <2>2
  <1>5. CASE AddFinalizer(p) /\ ~Idle(p)
    <2>1. /\ pc[p] = "ensure" /\ pc' = [pc EXCEPT ![p] = "resolve"]
          /\ po' = [po EXCEPT ![p].fin = TRUE]
          /\ snap' = [snap EXCEPT ![p].fin = TRUE]
          /\ sizing' = sizing /\ applied' = applied
      BY <1>5 DEF AddFinalizer, Retry
    <2>2. ServerOK' /\ LocalsOK'
      <3>1. /\ [po[p] EXCEPT !.fin = TRUE] \in Onboarding
            /\ [snap[p] EXCEPT !.fin = TRUE] \in Onboarding
        BY WithFinalizerOK DEF TypeOK, ServerOK, LocalsOK
      <3>2. ServerOK'
        BY <1>0, <2>1, <3>1 DEF TypeOK, ServerOK
      <3>3. LocalsOK'
        BY <2>1, <3>1 DEF TypeOK, LocalsOK
      <3>4. QED BY <3>2, <3>3
    <2>3. ASSUME NEW q \in PO PROVE PassOK(q)'
      <3>1. CASE q = p
        BY <3>1, <2>1 DEF TypeOK, LocalsOK, PassOK, Onboarding
      <3>2. CASE q # p
        BY <3>2, <2>1 DEF TypeOK, LocalsOK, PassOK
      <3>3. QED BY <3>1, <3>2
    <2>4. QED BY <2>2, <2>3
  <1>6. CASE Resolve(p) /\ ~Idle(p)
    <2> DEFINE read == IF snap[p].ref = None THEN Unsized
                       ELSE [of |-> snap[p].ref, version |-> sizeCache[snap[p].ref].version]
    <2>1. /\ pc[p] = "resolve" /\ pc' = [pc EXCEPT ![p] = "apply"]
          /\ sizing' = [sizing EXCEPT ![p] = read]
          /\ snap' = snap /\ UNCHANGED server
      BY <1>6 DEF Resolve, Retry
    <2>2. read \in Sizing /\ read.of = snap[p].ref
      BY NothingOK DEF TypeOK, LocalsOK, CachesOK, Sizing, TShirt, Onboarding, References, Unsized
    <2>3. ServerOK' /\ LocalsOK'
      BY <2>1, <2>2 DEF server, TypeOK, ServerOK, LocalsOK
    <2>4. ASSUME NEW q \in PO PROVE PassOK(q)'
      <3>1. CASE q = p
        BY <3>1, <2>1, <2>2 DEF TypeOK, LocalsOK, PassOK
      <3>2. CASE q # p
        BY <3>2, <2>1 DEF TypeOK, LocalsOK, PassOK
      <3>3. QED BY <3>1, <3>2
    <2>5. QED BY <2>3, <2>4
  <1>7. QED
    BY <1>3, <1>4, <1>5, <1>6 DEF Step, Apply, RemoveFinalizer, CallFails, Done, Retry

\* So do the steps of the pass of a size, and a restart.
LEMMA SizePassTypeOK ==
    ASSUME TypeOK, Restart \/ \E s \in Size : StartSize(s) \/ UpdateCount(s)
    PROVE  TypeOK'
  <1>1. ASSUME NEW s \in Size, StartSize(s) PROVE TypeOK'
    <2>1. CountsOK'
      BY <1>1, CountOK DEF StartSize, sizePass, TypeOK, CachesOK, CountsOK
    <2>2. ServerOK' /\ CachesOK' /\ ReviewsOK' /\ LocalsOK' /\ \A q \in PO : PassOK(q)'
      BY <1>1 DEF StartSize, server, caches, poPass, TypeOK, ServerOK, CachesOK, ReviewsOK,
                  LocalsOK, PassOK
    <2>3. QED BY <1>1, <2>1, <2>2 DEF StartSize, bounds, TypeOK
  <1>2. ASSUME NEW s \in Size, UpdateCount(s) PROVE TypeOK'
    <2>1. CountsOK'
      BY <1>2, NothingOK DEF UpdateCount, TypeOK, CountsOK
    <2>2. ServerOK'
      <3>1. [size[s] EXCEPT !.referencedBy = counted[s]] \in TShirt
        BY DEF TypeOK, ServerOK, CountsOK, TShirt
      <3>2. size' = size \/ size' = [size EXCEPT ![s] = [@ EXCEPT !.referencedBy = counted[s]]]
        BY <1>2 DEF UpdateCount
      <3>3. QED BY <1>2, <3>1, <3>2 DEF UpdateCount, TypeOK, ServerOK
    <2>3. CachesOK' /\ ReviewsOK' /\ LocalsOK' /\ \A q \in PO : PassOK(q)'
      BY <1>2 DEF UpdateCount, caches, poPass, TypeOK, CachesOK, ReviewsOK, LocalsOK, PassOK
    <2>4. QED BY <1>2, <2>1, <2>2, <2>3 DEF UpdateCount, bounds, TypeOK
  <1>3. CASE Restart
    <2>1. ServerOK' /\ CachesOK' /\ ReviewsOK'
      BY <1>3 DEF Restart, server, TypeOK, ServerOK, CachesOK, ReviewsOK
    <2>2. LocalsOK' /\ CountsOK' /\ \A q \in PO : PassOK(q)'
      BY <1>3, NothingOK DEF Restart, LocalsOK, CountsOK, PassOK
    <2>3. faults' \in 0 .. MaxFaults
      BY <1>3, CatalogueAssumption DEF Restart, TypeOK
    <2>4. QED BY <1>3, <2>1, <2>2, <2>3 DEF Restart, TypeOK
  <1>4. QED BY <1>1, <1>2, <1>3

\* Types, and what a pass holds in each of its stages, for any number of POs,
\* sizes, reviews and faults and informers that lag or not.
THEOREM TypeCorrect == Spec => []TypeOK
  <1>1. ASSUME TypeOK, [Next]_vars PROVE TypeOK'
    <2>1. CASE Next
      BY <1>1, <2>1, SyncTypeOK, RequestTypeOK, PassTypeOK, SizePassTypeOK DEF Next, Operator
    <2>2. CASE UNCHANGED vars
      BY <1>1, <2>2 DEF vars, server, caches, queues, poPass, sizePass, bounds, TypeOK,
                        ServerOK, CachesOK, ReviewsOK, LocalsOK, CountsOK, PassOK
    <2>3. QED BY <1>1, <2>1, <2>2
  <1>2. QED BY <1>1, InitTypeOK, PTL DEF Spec

-----------------------------------------------------------------------------
(***************************************************************************)
(* References the webhooks know of.                                        *)
(***************************************************************************)

\* What the informer knows of a PO is what it knew before or what the PO is.
LEMMA CacheSteps ==
    ASSUME TypeOK, [Next]_vars, NEW p \in PO
    PROVE  poCache'[p] = poCache[p] \/ (poCache'[p] = po[p] /\ po' = po)
  <1> USE DEF server, caches
  <1>1. CASE UNCHANGED poCache
    BY <1>1
  <1>2. ASSUME NEW q \in PO, SyncObject(q)
        PROVE  poCache'[p] = poCache[p] \/ (poCache'[p] = po[p] /\ po' = po)
    BY <1>2 DEF SyncObject, TypeOK, CachesOK
  <1>3. CASE Restart
    BY <1>3 DEF Restart
  <1>4. CASE Users \/ \E r \in reviews : Store(r)
    BY <1>1, <1>4, UsersAdmit DEF Store
  <1>5. CASE Operator \/ (\E s \in Size : SyncSize(s))
    BY <1>1, <1>5
    DEF Operator, Step, Start, AddFinalizer, Resolve, Apply, RemoveFinalizer, CallFails, StartSize,
        UpdateCount, SyncSize
  <1>6. QED BY <1>1, <1>2, <1>3, <1>4, <1>5 DEF Next, vars

\* A size goes only by a request of a user that has been admitted.
LEMMA SizeSteps ==
    ASSUME TypeOK, [Next]_vars, NEW s \in Size, size[s].present, ~size'[s].present
    PROVE  \E r \in reviews : r.on = "size" /\ r.key = s /\ ~r.new.present
  <1> USE DEF server, caches
  <1>0. size \in [Size -> TShirt]
    BY DEF TypeOK, ServerOK
  <1>1. size' # size
    OBVIOUS
  <1>2. ASSUME NEW r \in reviews, Store(r)
        PROVE  r.on = "size" /\ r.key = s /\ ~r.new.present
    <2>1. r.on # "po" /\ size' = [size EXCEPT ![r.key] = r.new]
      BY <1>1, <1>2 DEF Store
    <2>2. r.on = "size" /\ r.key \in Size
      BY <2>1 DEF TypeOK, ReviewsOK, Review
    <2>3. QED BY <1>0, <2>1, <2>2
  <1>3. ASSUME NEW t \in Size, UpdateCount(t) PROVE FALSE
    BY <1>0, <1>1, <1>3 DEF UpdateCount, TShirt
  <1>4. CASE Users
    BY <1>1, <1>4, UsersAdmit
  <1>5. CASE UNCHANGED vars \/ Restart \/ (\E p \in PO : SyncObject(p)) \/ (\E t \in Size : SyncSize(t))
    BY <1>1, <1>5 DEF vars, Restart, SyncObject, SyncSize
  <1>6. CASE Operator
    BY <1>1, <1>3, <1>6
    DEF Operator, Step, Start, AddFinalizer, Resolve, Apply, RemoveFinalizer, CallFails, StartSize
  <1>7. QED BY <1>2, <1>4, <1>5, <1>6 DEF Next

\* Only a size that no PO is known to refer to is given up for deletion.
LEMMA ReviewSteps ==
    ASSUME TypeOK, [Next]_vars, NEW r \in reviews' \ reviews, r.on = "size", ~r.new.present
    PROVE  r.key \in Size /\ Referring(r.key) = {}
  <1>1. CASE Users
    <2>1. ASSUME NEW s \in Size, DeleteSize(s) PROVE r.key = s /\ Referring(s) = {}
      BY <2>1, CountOK DEF DeleteSize, Admit
    <2>2. ASSUME NEW s \in Size, WriteSize(s) PROVE FALSE
      BY <2>2 DEF WriteSize, Admit
    <2>3. ASSUME NEW p \in PO, CreateObject(p) \/ EditReference(p) \/ DeleteObject(p) PROVE FALSE
      <3>1. CASE CreateObject(p)
        BY <3>1 DEF CreateObject, Admit
      <3>2. CASE EditReference(p)
        BY <3>2 DEF EditReference, Admit
      <3>3. CASE DeleteObject(p)
        BY <3>3 DEF DeleteObject, Admit
      <3>4. QED BY <2>3, <3>1, <3>2, <3>3
    <2>4. QED BY <1>1, <2>1, <2>2, <2>3 DEF Users
  <1>2. CASE \E q \in reviews : Store(q)
    BY <1>2 DEF Store
  <1>3. CASE ~Users /\ ~\E q \in reviews : Store(q)
    <2>1. CASE Operator
      BY <2>1 DEF Operator, Step, Start, AddFinalizer, Resolve, Apply, RemoveFinalizer, CallFails,
                  StartSize, UpdateCount
    <2>2. CASE UNCHANGED vars \/ Restart \/ (\E p \in PO : SyncObject(p)) \/ (\E t \in Size : SyncSize(t))
      BY <2>2 DEF vars, Restart, SyncObject, SyncSize
    <2>3. QED BY <1>3, <2>1, <2>2 DEF Next
  <1>4. QED BY <1>1, <1>2, <1>3

\* A size that is there stays there for every reference the webhooks know of, as
\* soon as no deletion admitted before is on its way: for any number of requests
\* that overlap, informers that lag, failed calls and restarts.
THEOREM KnownReferencesHold == Spec => KnownReferenceHolds
  <1>1. ASSUME TypeOK, [Next]_vars, NEW p \in PO, NEW s \in Size,
               Held(p, s), Exists(po'[p]), po'[p].ref = s
        PROVE  Held(p, s)'
    <2>1. (p \in Referring(s))'
      BY <1>1, CacheSteps DEF Held, Referring
    <2>2. size'[s].present
      BY <1>1, SizeSteps DEF Held
    <2>3. ASSUME NEW r \in reviews', r.on = "size", r.key = s PROVE r.new.present
      <3>1. CASE r \in reviews
        BY <1>1, <2>3, <3>1 DEF Held
      <3>2. CASE r \notin reviews
        BY <1>1, <2>3, <3>2, ReviewSteps DEF Held
      <3>3. QED BY <3>1, <3>2
    <2>4. QED BY <1>1, <2>1, <2>2, <2>3 DEF Held
  <1>2. TypeOK /\ [Next]_vars =>
          [\A p \in PO, s \in Size :
             Held(p, s) /\ Exists(po'[p]) /\ po'[p].ref = s => Held(p, s)']_vars
    BY <1>1
  <1>3. QED BY <1>2, TypeCorrect, PTL DEF Spec, KnownReferenceHolds

=============================================================================
