----------------------- MODULE TShirtCatalogueWakeUps -----------------------
(***************************************************************************)
(* Theorems of TShirtCatalogue about what is true when a controller has    *)
(* nothing left to do: no wake-up is lost, however far the informers lag,  *)
(* however many requests overlap, and whatever fails or restarts.          *)
(***************************************************************************)
EXTENDS TShirtCatalogueProofs

-----------------------------------------------------------------------------
(* The count of references.                                                *)

\* A version is given to a size once: a stored size is never again what an
\* informer or another request already knows under that version.
StoresSize(r) == r.on = "size" /\ r.new.present

VersionsInv ==
    /\ \A s \in Size : size[s].version <= edits /\ sizeCache[s].version <= edits
    /\ \A r \in reviews : StoresSize(r) =>
          /\ r.new.version <= edits
          /\ r.new.version # size[r.key].version
          /\ r.new.version # sizeCache[r.key].version
    /\ \A r \in reviews : r.on = "size" /\ ~r.new.present => r.new.version = r.old.version
    /\ \A q, r \in reviews : /\ StoresSize(q) /\ StoresSize(r)
                             /\ q.new.version = r.new.version
                             => q = r

\* As long as its key is not queued again, a pass has counted what the informer
\* of the POs shows, and a size that no pass works on says so in its status.
Counted(s) ==
    s \notin sizeQueue =>
        /\ sizePc[s] = "count" => counted[s] = Count(s)
        /\ sizePc[s] = "idle" /\ sizeCache[s] = size[s] /\ size[s].present
             => size[s].referencedBy = Count(s)

CountedInv == VersionsInv /\ \A s \in Size : Counted(s)

\* Nothing is under review at first, and nothing refers to a size.
LEMMA CountedInit == Init => CountedInv
  <1> SUFFICES ASSUME Init PROVE CountedInv
    OBVIOUS
  <1>1. VersionsInv
    BY DEF Init, VersionsInv
  <1>2. ASSUME NEW s \in Size PROVE Counted(s)
    <2>1. Referring(s) = {}
      BY DEF Init, Referring, Exists, NoOnboarding
    <2>2. Count(s) = 0
      BY <2>1, FS_EmptySet DEF Count
    <2>3. QED BY <2>2 DEF Init, Counted
  <1>3. QED BY <1>1, <1>2 DEF CountedInv

\* Versions stay apart while requests, sizes and what is cached of them stay.
LEMMA VersionsStable ==
    ASSUME VersionsInv, edits' = edits, reviews' \subseteq reviews, sizeCache' = sizeCache,
           TypeOK, \A s \in Size : size'[s].version = size[s].version
    PROVE  VersionsInv'
  <1>1. \A r \in reviews : StoresSize(r) => r.key \in Size
    BY DEF TypeOK, ReviewsOK, Review, StoresSize
  <1>2. QED BY <1>1 DEF VersionsInv, StoresSize

\* An edit takes the next version.
LEMMA VersionsUsers ==
    ASSUME TypeOK, VersionsInv, Users
    PROVE  VersionsInv'
  <1>0. UNCHANGED <<size, sizeCache>> /\ edits \in Nat /\ edits' \in Nat
    BY UsersAdmit, CatalogueAssumption DEF server, caches, TypeOK
  <1>1. \A s \in Size : size[s].version \in Nat /\ sizeCache[s].version \in Nat
    BY CatalogueAssumption DEF TypeOK, ServerOK, CachesOK, TShirt
  <1>2. \A r \in reviews : StoresSize(r) => r.key \in Size /\ r.new.version \in Nat
    BY CatalogueAssumption DEF TypeOK, ReviewsOK, Review, TShirt, StoresSize
  <1>3. ASSUME NEW r, reviews' = reviews \cup {r}, ~StoresSize(r),
               r.on = "size" => r.new.version = r.old.version,
               edits' = edits \/ edits' = edits + 1
        PROVE  VersionsInv'
    BY <1>0, <1>1, <1>2, <1>3 DEF VersionsInv, StoresSize
  <1>4. ASSUME NEW p \in PO, CreateObject(p) \/ EditReference(p) \/ DeleteObject(p)
        PROVE  VersionsInv'
    <2>1. edits' = edits \/ edits' = edits + 1
      BY <1>4 DEF CreateObject, EditReference, DeleteObject, Edit, bounds
    <2>2. \E r : Admit(r) /\ r.on = "po"
      <3>1. CASE CreateObject(p)
        BY <3>1 DEF CreateObject
      <3>2. CASE EditReference(p)
        BY <3>2 DEF EditReference
      <3>3. CASE DeleteObject(p)
        BY <3>3 DEF DeleteObject
      <3>4. QED BY <1>4, <3>1, <3>2, <3>3
    <2>3. QED BY <1>3, <2>1, <2>2 DEF Admit, StoresSize
  <1>5. ASSUME NEW s \in Size, DeleteSize(s) PROVE VersionsInv'
    <2> DEFINE r == [on |-> "size", key |-> s, old |-> size[s],
                     new |-> [size[s] EXCEPT !.present = FALSE]]
    <2>1. ~r.new.present /\ r.new.version = r.old.version
      BY DEF TypeOK, ServerOK, TShirt
    <2>2. reviews' = reviews \cup {r} /\ edits' = edits + 1
      BY <1>5 DEF DeleteSize, Admit, Edit
    <2>3. r.on = "size"
      OBVIOUS
    <2> HIDE DEF r
    <2>4. QED BY <1>3, <2>1, <2>2, <2>3 DEF StoresSize
  <1>6. ASSUME NEW s \in Size, WriteSize(s) PROVE VersionsInv'
    <2> DEFINE r == [on |-> "size", key |-> s, old |-> size[s],
                     new |-> [present |-> TRUE, version |-> edits + 1,
                              referencedBy |-> IF size[s].present THEN size[s].referencedBy
                                               ELSE 0]]
    <2>1. reviews' = reviews \cup {r} /\ edits' = edits + 1
      BY <1>6 DEF WriteSize, Admit, Edit
    <2>2. r.new.version = edits + 1 /\ r.key = s /\ r.new.present
      OBVIOUS
    <2> HIDE DEF r
    <2>3. \A q \in reviews : StoresSize(q) => q.new.version <= edits
      BY DEF VersionsInv
    <2>4. QED BY <1>0, <1>1, <1>2, <2>1, <2>2, <2>3 DEF VersionsInv, StoresSize
  <1>7. QED BY <1>4, <1>5, <1>6 DEF Users

\* A size that is stored is not the one in the cache.
LEMMA CountedStore ==
    ASSUME TypeOK, CountedInv, NEW r \in reviews, Store(r)
    PROVE  CountedInv'
  <1>1. r \in Review /\ UNCHANGED <<sizeCache, poCache, sizeQueue, sizePc, counted, edits>>
    BY DEF TypeOK, ReviewsOK, Store, caches, queues, sizePass, bounds
  <1>2. \A s \in Size : Count(s)' = Count(s)
    BY <1>1 DEF Count, Referring
  <1>3. CASE size' = size
    <2>1. VersionsInv'
      BY <1>1, <1>3, VersionsStable DEF Store, CountedInv
    <2>2. QED BY <1>1, <1>2, <1>3, <2>1 DEF CountedInv, Counted
  <1>4. CASE size' # size
    <2>1. /\ r.on = "size" /\ r.key \in Size /\ size[r.key] = r.old
          /\ size' = [size EXCEPT ![r.key] = r.new]
      BY <1>1, <1>4 DEF Store, Review
    <2>2. size'[r.key] = r.new /\ \A s \in Size \ {r.key} : size'[s] = size[s]
      BY <2>1 DEF TypeOK, ServerOK
    <2>3. reviews' = reviews \ {r}
      BY DEF Store
    <2>4. CASE r.new.present
      <3>1. VersionsInv'
        BY <1>1, <2>1, <2>2, <2>3, <2>4 DEF CountedInv, VersionsInv, StoresSize
      <3>2. r.new.version # sizeCache[r.key].version
        BY <2>1, <2>4 DEF CountedInv, VersionsInv, StoresSize
      <3>3. QED BY <1>1, <1>2, <2>2, <3>1, <3>2 DEF CountedInv, Counted
    <2>5. CASE ~r.new.present
      <3>1. size'[r.key].version = size[r.key].version
        BY <2>1, <2>2, <2>5 DEF CountedInv, VersionsInv
      <3>2. VersionsInv'
        BY <1>1, <2>2, <2>3, <3>1, VersionsStable DEF CountedInv
      <3>3. QED BY <1>1, <1>2, <2>2, <2>5, <3>2 DEF CountedInv, Counted
    <2>6. QED BY <2>4, <2>5
  <1>5. QED BY <1>3, <1>4

\* An informer that catches up with a PO wakes the sizes it referred to and
\* refers to; with a size, that size.
LEMMA CountedSync ==
    ASSUME TypeOK, CountedInv, (\E p \in PO : SyncObject(p)) \/ (\E s \in Size : SyncSize(s))
    PROVE  CountedInv'
  <1>1. ASSUME NEW p \in PO, SyncObject(p) PROVE CountedInv'
    <2>1. UNCHANGED <<size, sizeCache, reviews, sizePc, counted, edits>>
      BY <1>1 DEF SyncObject, server, sizePass, bounds
    <2>2. \A q \in PO \ {p} : poCache'[q] = poCache[q]
      BY <1>1 DEF SyncObject, TypeOK, CachesOK
    <2>3. poCache'[p] = po[p]
      BY <1>1 DEF SyncObject, TypeOK, CachesOK
    <2>4. ASSUME NEW s \in Size, s \notin sizeQueue' PROVE Counted(s)'
      <3>1. s \notin sizeQueue /\ s \notin SizesOf(poCache[p], po[p])
        BY <1>1, <2>4 DEF SyncObject
      <3>2. poCache[p].ref # s /\ po[p].ref # s
        BY <3>1, CatalogueAssumption DEF SizesOf
      <3>3. Referring(s)' = Referring(s)
        BY <2>2, <2>3, <3>2 DEF Referring
      <3>4. QED BY <2>1, <3>1, <3>3 DEF CountedInv, Counted, Count
    <2>5. \A s \in Size : Counted(s)'
      BY <2>4 DEF Counted
    <2>6. VersionsInv'
      BY <2>1, VersionsStable DEF CountedInv
    <2>7. QED BY <2>5, <2>6 DEF CountedInv
  <1>2. ASSUME NEW s \in Size, SyncSize(s) PROVE CountedInv'
    <2>1. UNCHANGED <<size, poCache, reviews, sizePc, counted, edits>>
      BY <1>2 DEF SyncSize, server, sizePass, bounds
    <2>2. sizeCache'[s] = size[s] /\ \A t \in Size \ {s} : sizeCache'[t] = sizeCache[t]
      BY <1>2 DEF SyncSize, TypeOK, CachesOK
    <2>3. VersionsInv'
      <3>1. \A r \in reviews : StoresSize(r) => r.key \in Size
        BY DEF TypeOK, ReviewsOK, Review, StoresSize
      <3>2. QED BY <2>1, <2>2, <3>1 DEF CountedInv, VersionsInv, StoresSize
    <2>4. sizeQueue' = sizeQueue \cup {s} /\ \A t \in Size : Count(t)' = Count(t)
      BY <1>2, <2>1 DEF SyncSize, Count, Referring
    <2>5. QED BY <2>1, <2>2, <2>3, <2>4 DEF CountedInv, Counted
  <1>3. QED BY <1>1, <1>2

\* The pass of a size counts what the cache shows, and reports what it counted.
LEMMA CountedPass ==
    ASSUME TypeOK, CountedInv, NEW s \in Size, StartSize(s) \/ UpdateCount(s)
    PROVE  CountedInv'
  <1>1. UNCHANGED <<sizeCache, poCache, reviews, edits>> /\ \A t \in Size : Count(t)' = Count(t)
    BY DEF StartSize, UpdateCount, caches, bounds, Count, Referring
  <1>2. CASE StartSize(s)
    <2>1. size' = size /\ sizeQueue' = sizeQueue \ {s} /\ sizePc[s] = "idle"
      BY <1>2 DEF StartSize, server
    <2>2. VersionsInv'
      BY <1>1, <2>1, VersionsStable DEF CountedInv
    <2>3. CASE sizeCache[s].present
      <3>1. /\ sizePc' = [sizePc EXCEPT ![s] = "count"]
            /\ counted' = [counted EXCEPT ![s] = Count(s)]
        BY <1>2, <2>3 DEF StartSize
      <3>2. QED BY <1>1, <2>1, <2>2, <3>1 DEF CountedInv, Counted, TypeOK, CountsOK
    <2>4. CASE ~sizeCache[s].present
      <3>1. UNCHANGED <<sizePc, counted>>
        BY <1>2, <2>4 DEF StartSize, sizePass
      <3>2. QED BY <1>1, <2>1, <2>2, <2>4, <3>1 DEF CountedInv, Counted
    <2>5. QED BY <2>3, <2>4
  <1>3. CASE UpdateCount(s)
    <2>1. sizePc[s] = "count" /\ sizePc' = [sizePc EXCEPT ![s] = "idle"]
          /\ counted' = [counted EXCEPT ![s] = 0]
      BY <1>3 DEF UpdateCount
    <2>2. CASE sizeSnap[s] = size[s]
      <3>1. size' = [size EXCEPT ![s].referencedBy = counted[s]] /\ sizeQueue' = sizeQueue
        BY <1>3, <2>2 DEF UpdateCount
      <3>2. /\ size'[s].referencedBy = counted[s]
            /\ \A t \in Size : size'[t].version = size[t].version
            /\ \A t \in Size \ {s} : size'[t] = size[t]
        BY <3>1 DEF TypeOK, ServerOK, TShirt
      <3>3. VersionsInv'
        BY <1>1, <3>2, VersionsStable DEF CountedInv
      <3>4. QED BY <1>1, <2>1, <3>1, <3>2, <3>3 DEF CountedInv, Counted, TypeOK, CountsOK
    <2>3. CASE sizeSnap[s] # size[s]
      <3>1. size' = size /\ sizeQueue' = sizeQueue \cup {s}
        BY <1>3, <2>3 DEF UpdateCount
      <3>2. VersionsInv'
        BY <1>1, <3>1, VersionsStable DEF CountedInv
      <3>3. QED BY <1>1, <2>1, <3>1, <3>2 DEF CountedInv, Counted, TypeOK, CountsOK
    <2>4. QED BY <2>2, <2>3
  <1>4. QED BY <1>2, <1>3

\* The passes of POs do not meddle with it, and a restart counts anew.
LEMMA CountedOthers ==
    ASSUME TypeOK, CountedInv,
           \/ Restart \/ UNCHANGED vars
           \/ \E p \in PO : Start(p) \/ Step(p) \/ CallFails(p)
    PROVE  CountedInv'
  <1>1. CASE UNCHANGED vars \/ \E p \in PO : Start(p) \/ Step(p) \/ CallFails(p)
    <2>1. UNCHANGED <<size, sizeCache, poCache, reviews, sizeQueue, sizePc, counted, edits>>
      BY <1>1 DEF vars, Start, Step, AddFinalizer, Resolve, Apply, RemoveFinalizer, CallFails, server,
                  caches, queues, sizePass, bounds
    <2>2. VersionsInv'
      BY <2>1, VersionsStable DEF CountedInv
    <2>3. QED BY <2>1, <2>2 DEF CountedInv, Counted, Count, Referring
  <1>2. CASE Restart
    <2>1. /\ UNCHANGED <<size, reviews, edits>> /\ sizeCache' = size
          /\ sizeQueue' = {s \in Size : size[s].present}
          /\ sizePc' = [s \in Size |-> "idle"]
      BY <1>2 DEF Restart, server
    <2>2. VersionsInv'
      BY <2>1 DEF CountedInv, VersionsInv, StoresSize
    <2>3. QED BY <2>1, <2>2 DEF CountedInv, Counted
  <1>3. QED BY <1>1, <1>2

\* The count of references in the status of a size is right when nothing is left
\* to do for it, whatever came or went under a running pass.
THEOREM CountsFollow == Spec => []QuietMeansCounted
  <1>1. ASSUME TypeOK, CountedInv, [Next]_vars PROVE CountedInv'
    <2>1. CASE Users
      <3>1. UNCHANGED <<size, sizeCache, poCache, sizeQueue, sizePc, counted>>
        BY <1>1, <2>1, UsersAdmit DEF server, caches, queues, sizePass
      <3>2. VersionsInv'
        BY <1>1, <2>1, VersionsUsers DEF CountedInv
      <3>3. QED BY <1>1, <3>1, <3>2 DEF CountedInv, Counted, Count, Referring
    <2>2. QED
      BY <1>1, <2>1, CountedStore, CountedSync, CountedPass, CountedOthers DEF Next, Operator
  <1>2. CountedInv => QuietMeansCounted
    <2> SUFFICES ASSUME CountedInv, NEW s \in Size, s \notin sizeQueue, sizePc[s] = "idle",
                        poCache = po, sizeCache[s] = size[s], size[s].present
                 PROVE  size[s].referencedBy = Cardinality(ReferredBy(s))
      BY DEF QuietMeansCounted
    <2>1. ReferredBy(s) = Referring(s)
      BY DEF ReferredBy, Referring
    <2>2. QED BY <2>1 DEF CountedInv, Counted, Count
  <1>3. QED BY <1>1, <1>2, CountedInit, TypeCorrect, PTL DEF Spec

-----------------------------------------------------------------------------
(* The sizing of a PO.                                                     *)

\* What a pass reads for a reference.
SizingOf(ref) ==
    IF ref = None THEN Unsized ELSE [of |-> ref, version |-> sizeCache[ref].version]

\* As long as its key is not queued again, a PO is what its pass took it for, and
\* the sizing the pass has read, or has left behind, is what the informer shows.
Sized(p) ==
    p \notin poQueue =>
        /\ pc[p] # "idle" => /\ snap[p].state = poCache[p].state
                             /\ snap[p].ref = poCache[p].ref
        /\ pc[p] = "apply" => sizing[p] = SizingOf(poCache[p].ref)
        /\ pc[p] = "idle" /\ poCache[p].state = "live" => applied[p] = SizingOf(poCache[p].ref)

SizedInv == \A p \in PO : Sized(p)

\* No PO exists at first.
LEMMA SizedInit == Init => SizedInv
  BY DEF Init, SizedInv, Sized, NoOnboarding

\* What nobody looks at again is as it was.
LEMMA SizedStable ==
    ASSUME NEW p \in PO, Sized(p), p \notin poQueue' => p \notin poQueue,
           poCache'[p] = poCache[p], pc'[p] = pc[p], snap'[p] = snap[p], sizing'[p] = sizing[p],
           applied'[p] = applied[p],
           p \in poQueue' \/ SizingOf(poCache[p].ref)' = SizingOf(poCache[p].ref)
    PROVE  Sized(p)'
  BY DEF Sized, SizingOf

\* An informer that catches up with a PO wakes it, with a size the POs that refer to it.
LEMMA SizedSync ==
    ASSUME TypeOK, SizedInv, (\E p \in PO : SyncObject(p)) \/ (\E s \in Size : SyncSize(s))
    PROVE  SizedInv'
  <1>1. ASSUME NEW p \in PO, SyncObject(p), NEW q \in PO PROVE Sized(q)'
    <2>1. UNCHANGED <<sizeCache, pc, snap, sizing, applied>> /\ poQueue' = poQueue \cup {p}
      BY <1>1 DEF SyncObject, server, poPass
    <2>2. CASE q = p
      BY <2>1, <2>2 DEF Sized
    <2>3. CASE q # p
      <3>1. poCache'[q] = poCache[q]
        BY <1>1, <2>3 DEF SyncObject, TypeOK, CachesOK
      <3>2. QED BY <2>1, <3>1, SizedStable DEF SizedInv, SizingOf
    <2>4. QED BY <2>2, <2>3
  <1>2. ASSUME NEW s \in Size, SyncSize(s), NEW q \in PO PROVE Sized(q)'
    <2>1. UNCHANGED <<poCache, pc, snap, sizing, applied>> /\ poQueue' = poQueue \cup Referring(s)
      BY <1>2 DEF SyncSize, server, poPass
    <2>2. \A t \in Size \ {s} : sizeCache'[t] = sizeCache[t]
      BY <1>2 DEF SyncSize, TypeOK, CachesOK
    <2>3. poCache[q].ref \in References
      BY DEF TypeOK, CachesOK, Onboarding
    <2>4. CASE poCache[q].ref # s
      <3>1. SizingOf(poCache[q].ref)' = SizingOf(poCache[q].ref)
        BY <2>1, <2>2, <2>3, <2>4 DEF SizingOf, References
      <3>2. QED BY <2>1, <3>1, SizedStable DEF SizedInv
    <2>5. CASE poCache[q].ref = s /\ q \notin poQueue'
      <3>1. ~Exists(poCache[q])
        BY <2>1, <2>5 DEF Referring
      <3>2. pc[q] \notin {"ensure", "resolve", "apply", "finalize"}
        BY <2>1, <2>5, <3>1 DEF SizedInv, Sized, TypeOK, PassOK, Exists
      <3>3. QED BY <2>1, <2>5, <3>1, <3>2 DEF Sized, Exists, TypeOK, LocalsOK
    <2>6. QED BY <2>4, <2>5 DEF Sized
  <1>3. QED BY <1>1, <1>2 DEF SizedInv

\* A pass begins with what the cache shows, and reads and applies what it refers to.
LEMMA SizedPass ==
    ASSUME TypeOK, SizedInv, NEW p \in PO, Start(p) \/ Step(p) \/ CallFails(p)
    PROVE  SizedInv'
  <1>1. UNCHANGED <<poCache, sizeCache>> /\ \A q \in PO \ {p} : q \in poQueue <=> q \in poQueue'
    BY DEF Start, Step, AddFinalizer, Resolve, Apply, RemoveFinalizer, CallFails, Retry, Done, caches
  <1>2. ASSUME NEW q \in PO \ {p} PROVE Sized(q)'
    <2>1. /\ UNCHANGED <<pc[q], snap[q], sizing[q], applied[q]>>
      BY DEF Start, Step, AddFinalizer, Resolve, Apply, RemoveFinalizer, CallFails, Retry, Done, Idle,
             server, TypeOK, ServerOK, LocalsOK
    <2>2. QED BY <1>1, <2>1, SizedStable DEF SizedInv, SizingOf
  <1>3. Sized(p)'
    <2>1. CASE Retry(p)
      BY <2>1 DEF Retry, Sized
    <2>2. CASE Start(p)
      <3>1. pc[p] = "idle" /\ UNCHANGED <<sizing, applied>>
        BY <2>2 DEF Start, server
      <3>2. CASE Exists(poCache[p])
        <4>1. snap'[p] = poCache[p] /\ pc'[p] \in {"ensure", "resolve", "finalize"}
          BY <2>2, <3>2 DEF Start, TypeOK, LocalsOK
        <4>2. QED BY <1>1, <4>1 DEF Sized
      <3>3. CASE ~Exists(poCache[p])
        <4>1. pc' = pc
          BY <2>2, <3>3 DEF Start
        <4>2. QED BY <1>1, <3>1, <3>3, <4>1 DEF Sized, Exists
      <3>4. QED BY <3>2, <3>3
    <2>3. CASE AddFinalizer(p) /\ ~Retry(p)
      <3>1. /\ pc[p] = "ensure" /\ pc' = [pc EXCEPT ![p] = "resolve"]
            /\ snap' = [snap EXCEPT ![p].fin = TRUE] /\ poQueue' = poQueue
        BY <2>3 DEF AddFinalizer
      <3>2. snap'[p].state = snap[p].state /\ snap'[p].ref = snap[p].ref /\ pc'[p] = "resolve"
        BY <3>1 DEF TypeOK, LocalsOK, Onboarding
      <3>3. QED BY <1>1, <3>1, <3>2 DEF SizedInv, Sized
    <2>4. CASE Resolve(p) /\ ~Retry(p)
      <3>1. /\ pc[p] = "resolve" /\ pc' = [pc EXCEPT ![p] = "apply"] /\ UNCHANGED <<snap, poQueue>>
            /\ sizing' = [sizing EXCEPT ![p] = SizingOf(snap[p].ref)]
        BY <2>4 DEF Resolve, SizingOf
      <3>2. pc'[p] = "apply" /\ sizing'[p] = SizingOf(snap[p].ref)
        BY <3>1 DEF TypeOK, LocalsOK
      <3>3. QED BY <1>1, <3>1, <3>2 DEF SizedInv, Sized, SizingOf
    <2>5. CASE Apply(p)
      <3>1. pc[p] = "apply" /\ applied'[p] = sizing[p] /\ pc'[p] = "idle" /\ poQueue' = poQueue
        BY <2>5 DEF Apply, Done, Idle, TypeOK, ServerOK, LocalsOK
      <3>2. QED BY <1>1, <3>1 DEF SizedInv, Sized, SizingOf
    <2>6. CASE RemoveFinalizer(p) /\ ~Retry(p)
      <3>1. pc[p] = "finalize" /\ pc'[p] = "idle" /\ poQueue' = poQueue
        BY <2>6 DEF RemoveFinalizer, Done, Idle, TypeOK, LocalsOK
      <3>2. p \notin poQueue => poCache[p].state = "deleting"
        BY <3>1 DEF SizedInv, Sized, TypeOK, PassOK
      <3>3. QED BY <1>1, <3>1, <3>2 DEF Sized
    <2>7. QED BY <2>1, <2>2, <2>3, <2>4, <2>5, <2>6 DEF Step, CallFails
  <1>4. QED BY <1>2, <1>3 DEF SizedInv

\* Nobody else meddles with it, and a restart wakes every PO there is.
LEMMA SizedOthers ==
    ASSUME TypeOK, SizedInv,
           \/ Restart \/ Users \/ UNCHANGED vars
           \/ \E r \in reviews : Store(r)
           \/ \E s \in Size : StartSize(s) \/ UpdateCount(s)
    PROVE  SizedInv'
  <1>1. CASE ~Restart
    <2>1. UNCHANGED <<poCache, sizeCache, poQueue, pc, snap, sizing, applied>>
      BY <1>1, UsersAdmit
      DEF vars, Store, StartSize, UpdateCount, server, caches, queues, poPass
    <2>2. QED BY <2>1 DEF SizedInv, Sized, SizingOf
  <1>2. CASE Restart
    <2>1. /\ poQueue' = {p \in PO : Exists(po[p])} /\ poCache' = po
          /\ pc' = [p \in PO |-> "idle"]
      BY <1>2 DEF Restart
    <2>2. QED BY <2>1 DEF SizedInv, Sized, Exists
  <1>3. QED BY <1>1, <1>2

\* The quota of a PO is of the size it refers to, in the version that size has now,
\* when nothing is left to do for the PO.
THEOREM SizingsFollow == Spec => []QuietMeansApplied
  <1>1. TypeOK /\ SizedInv /\ [Next]_vars => SizedInv'
    BY SizedSync, SizedPass, SizedOthers DEF Next, Operator
  <1>2. SizedInv => QuietMeansApplied
    BY DEF SizedInv, Sized, SizingOf, QuietMeansApplied
  <1>3. QED BY <1>1, <1>2, SizedInit, TypeCorrect, PTL DEF Spec
=============================================================================
