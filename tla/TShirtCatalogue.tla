-------------------------- MODULE TShirtCatalogue --------------------------
(***************************************************************************)
(* The catalogue of TShirtSizes and the ProjectOnboardings (POs) that refer *)
(* to it by name: the two validating webhooks, which look things up in the *)
(* informer caches before the API server stores a change, the TShirtSize   *)
(* reconciler that counts references, and the part of the PO's pass that   *)
(* reads a size and applies it.                                            *)
(*                                                                         *)
(* A PO has one entry, hence at most one reference, and its tenants do not *)
(* block its deletion (TenantLifecycle is about that).  Backoff is left    *)
(* out: a key that is retried is waiting again at once.                    *)
(***************************************************************************)
EXTENDS Naturals, FiniteSets

CONSTANTS
    PO,             \* ProjectOnboarding objects
    Size,           \* TShirtSize names
    None,           \* no reference
    CacheLags,      \* may the informers lag behind the API server?
    MaxReviews,     \* admitted requests the API server has not yet stored
    MaxEdits,       \* bound: edits by users and administrators
    MaxFaults       \* bound: failed calls and restarts

ASSUME CatalogueAssumption ==
    /\ None \notin Size
    /\ IsFiniteSet(PO)
    /\ CacheLags \in BOOLEAN
    /\ MaxReviews \in Nat \ {0}
    /\ MaxEdits \in Nat
    /\ MaxFaults \in Nat

VARIABLES
    po,         \* API server: each PO
    size,       \* API server: each TShirtSize
    applied,    \* the sizing in the quota of each PO's tenant
    poCache,    \* informer cache of POs
    sizeCache,  \* informer cache of TShirtSizes
    reviews,    \* requests the webhook has admitted, before they are stored
    poQueue,    \* keys waiting at the ProjectOnboarding controller
    sizeQueue,  \* keys waiting at the TShirtSize controller
    pc, snap,   \* the pass of each PO and the copy it works on
    sizing,     \* what the pass read of the size
    sizePc, sizeSnap, counted,  \* the same for the pass of each TShirtSize
    edits, faults

server    == <<po, size, applied>>
caches    == <<poCache, sizeCache>>
queues    == <<poQueue, sizeQueue>>
poPass    == <<pc, snap, sizing>>
sizePass  == <<sizePc, sizeSnap, counted>>
bounds    == <<edits, faults>>
vars      == <<server, caches, reviews, queues, poPass, sizePass, bounds>>

References == Size \cup {None}

Onboarding ==
    [state : {"absent", "live", "deleting", "gone"}, fin : BOOLEAN, ref : References]

\* version: of the spec, different for every one that was ever stored.
TShirt == [present : BOOLEAN, version : 0 .. MaxEdits, referencedBy : Nat]

\* What a quota holds: values of a version of a size.
Sizing == [of : References, version : 0 .. MaxEdits]
Unsized == [of |-> None, version |-> 0]

NoTShirt == [present |-> FALSE, version |-> 0, referencedBy |-> 0]
NoOnboarding == [state |-> "absent", fin |-> FALSE, ref |-> None]

Exists(o) == o.state \in {"live", "deleting"}

\* A request under review: of a user, with the object it was admitted against.
Review ==
    [on : {"po"}, key : PO, old : Onboarding, new : Onboarding]
    \cup [on : {"size"}, key : Size, old : TShirt, new : TShirt]

Init ==
    /\ po = [p \in PO |-> NoOnboarding]
    /\ size = [s \in Size |-> [present |-> TRUE, version |-> 0, referencedBy |-> 0]]
    /\ applied = [p \in PO |-> Unsized]
    /\ poCache = po
    /\ sizeCache = size
    /\ reviews = {}
    /\ poQueue = {}
    /\ sizeQueue = {}
    /\ pc = [p \in PO |-> "idle"]
    /\ snap = po
    /\ sizing = applied
    /\ sizePc = [s \in Size |-> "idle"]
    /\ sizeSnap = [s \in Size |-> NoTShirt]
    /\ counted = [s \in Size |-> 0]
    /\ edits = 0
    /\ faults = 0

-----------------------------------------------------------------------------
(***************************************************************************)
(* The informers and the event mappers.                                    *)
(***************************************************************************)

\* findProjectOnboardingsForTShirtSize: the POs in the cache that refer to s.
Referring(s) == {p \in PO : Exists(poCache[p]) /\ poCache[p].ref = s}

\* Mutant: only the new object of an update is mapped.
SizesOfNew(old, new) == {new.ref} \ {None}

\* projectOnboardingToTShirtSizeMapper: the sizes a PO refers to; an update
\* maps the old object and the new one.
SizesOf(old, new) == {old.ref, new.ref} \ {None}

SyncObject(p) ==
    /\ poCache[p] # po[p]
    /\ poCache' = [poCache EXCEPT ![p] = po[p]]
    /\ poQueue' = poQueue \cup {p}
    /\ sizeQueue' = sizeQueue \cup SizesOf(poCache[p], po[p])
    /\ UNCHANGED <<server, sizeCache, reviews, poPass, sizePass, bounds>>

\* Mutant: the ProjectOnboarding controller does not watch sizes.
SyncSizeUnwatched(s) ==
    /\ sizeCache[s] # size[s]
    /\ sizeCache' = [sizeCache EXCEPT ![s] = size[s]]
    /\ sizeQueue' = sizeQueue \cup {s}
    /\ UNCHANGED <<server, poCache, reviews, poQueue, poPass, sizePass, bounds>>

SyncSize(s) ==
    /\ sizeCache[s] # size[s]
    /\ sizeCache' = [sizeCache EXCEPT ![s] = size[s]]
    /\ poQueue' = poQueue \cup Referring(s)
    /\ sizeQueue' = sizeQueue \cup {s}
    /\ UNCHANGED <<server, poCache, reviews, poPass, sizePass, bounds>>

\* Without lag the informers have seen every write before anybody acts again.
InSync == CacheLags \/ (poCache = po /\ sizeCache = size)

-----------------------------------------------------------------------------
(***************************************************************************)
(* Admission.  A request is checked by its webhook and stored later; in    *)
(* between only its own object is guarded, by its resourceVersion.         *)
(***************************************************************************)

\* validateNamespaceSpec: the size a PO refers to must be in the cache.
Found(ref) == ref # None => sizeCache[ref].present

\* Mutant: only POs that are not being deleted count.
CountLive(s) == Cardinality({p \in Referring(s) : poCache[p].state = "live"})

\* CountProjectOnboardingReferences, over the cache.
Count(s) == Cardinality(Referring(s))

Admit(r) ==
    /\ Cardinality(reviews) < MaxReviews
    /\ reviews' = reviews \cup {r}

Edit == edits < MaxEdits /\ edits' = edits + 1 /\ UNCHANGED faults

Unreviewed == UNCHANGED <<server, caches, queues, poPass, sizePass>>

\* ValidateProjectOnboarding on create.
CreateObject(p) ==
    /\ po[p].state = "absent"
    /\ \E ref \in References :
          /\ Found(ref)
          /\ Admit([on |-> "po", key |-> p, old |-> po[p],
                    new |-> [state |-> "live", fin |-> FALSE, ref |-> ref]])
    /\ Unreviewed /\ UNCHANGED bounds

\* ValidateProjectOnboarding on update.
EditReference(p) ==
    /\ Exists(po[p])
    /\ \E ref \in References \ {po[p].ref} :
          /\ Found(ref)
          /\ Admit([on |-> "po", key |-> p, old |-> po[p],
                    new |-> [po[p] EXCEPT !.ref = ref]])
    /\ Edit
    /\ Unreviewed

\* ValidateDelete of a PO asks nothing.
DeleteObject(p) ==
    /\ po[p].state = "live"
    /\ Admit([on |-> "po", key |-> p, old |-> po[p],
              new |-> [po[p] EXCEPT !.state = IF po[p].fin THEN "deleting" ELSE "gone"]])
    /\ Unreviewed /\ UNCHANGED bounds

\* ValidateTShirtSize looks at the size alone.
WriteSize(s) ==
    /\ Edit
    /\ Admit([on |-> "size", key |-> s, old |-> size[s],
              new |-> [present |-> TRUE, version |-> edits + 1,
                       referencedBy |-> IF size[s].present THEN size[s].referencedBy ELSE 0]])
    /\ Unreviewed

\* ValidateTShirtSizeDelete: no PO in the cache may refer to it.
DeleteSize(s) ==
    /\ size[s].present
    /\ Count(s) = 0
    /\ Edit
    /\ Admit([on |-> "size", key |-> s, old |-> size[s],
              new |-> [size[s] EXCEPT !.present = FALSE]])
    /\ Unreviewed

Store(r) ==
    /\ reviews' = reviews \ {r}
    /\ IF r.on = "po"
       THEN /\ po' = IF po[r.key] = r.old THEN [po EXCEPT ![r.key] = r.new] ELSE po
            /\ UNCHANGED size
       ELSE /\ size' = IF size[r.key] = r.old THEN [size EXCEPT ![r.key] = r.new] ELSE size
            /\ UNCHANGED po
    /\ UNCHANGED <<applied, caches, queues, poPass, sizePass, bounds>>

-----------------------------------------------------------------------------
(***************************************************************************)
(* The ProjectOnboarding controller.                                       *)
(***************************************************************************)

\* Mutant: the copy of the PO outlives the pass.
IdleWithCopy(p) == /\ pc' = [pc EXCEPT ![p] = "idle"]
                   /\ sizing' = [sizing EXCEPT ![p] = Unsized]
                   /\ UNCHANGED snap

Idle(p) == /\ pc' = [pc EXCEPT ![p] = "idle"]
           /\ snap' = [snap EXCEPT ![p] = NoOnboarding]
           /\ sizing' = [sizing EXCEPT ![p] = Unsized]

Done(p) == Idle(p) /\ UNCHANGED poQueue
Retry(p) == Idle(p) /\ poQueue' = poQueue \cup {p}

Start(p) ==
    /\ p \in poQueue
    /\ pc[p] = "idle"
    /\ poQueue' = poQueue \ {p}
    /\ IF Exists(poCache[p])
       THEN /\ snap' = [snap EXCEPT ![p] = poCache[p]]
            /\ pc' = [pc EXCEPT ![p] = IF poCache[p].state = "deleting" THEN "finalize"
                                       ELSE IF poCache[p].fin THEN "resolve" ELSE "ensure"]
       ELSE UNCHANGED <<pc, snap>>
    /\ UNCHANGED <<server, caches, reviews, sizeQueue, sizing, sizePass, bounds>>

\* The operator's own updates of a PO pass the webhook, too: they succeed when
\* the copy is current and the size it refers to is found.
Accepted(p) == snap[p] = po[p] /\ Found(snap[p].ref)

AddFinalizer(p) ==
    /\ pc[p] = "ensure"
    /\ IF Accepted(p)
       THEN /\ po' = [po EXCEPT ![p].fin = TRUE]
            /\ pc' = [pc EXCEPT ![p] = "resolve"]
            /\ snap' = [snap EXCEPT ![p].fin = TRUE]
            /\ UNCHANGED <<poQueue, sizing>>
       ELSE Retry(p) /\ UNCHANGED po
    /\ UNCHANGED <<size, applied, caches, reviews, sizeQueue, sizePass, bounds>>

\* ResolveNamespaceSpec: a reference to a size that is not found is an error.
Resolve(p) ==
    /\ pc[p] = "resolve"
    /\ IF Found(snap[p].ref)
       THEN /\ pc' = [pc EXCEPT ![p] = "apply"]
            /\ sizing' = [sizing EXCEPT ![p] =
                             IF snap[p].ref = None THEN Unsized
                             ELSE [of |-> snap[p].ref, version |-> sizeCache[snap[p].ref].version]]
            /\ UNCHANGED <<poQueue, snap>>
       ELSE Retry(p)
    /\ UNCHANGED <<server, caches, reviews, sizeQueue, sizePass, bounds>>

\* The quota gets the values the pass has read.
Apply(p) ==
    /\ pc[p] = "apply"
    /\ applied' = [applied EXCEPT ![p] = sizing[p]]
    /\ Done(p)
    /\ UNCHANGED <<po, size, caches, reviews, sizeQueue, sizePass, bounds>>

RemoveFinalizer(p) ==
    /\ pc[p] = "finalize"
    /\ IF Accepted(p)
       THEN /\ po' = [po EXCEPT ![p].fin = FALSE, ![p].state = "gone"]
            /\ Done(p)
       ELSE Retry(p) /\ UNCHANGED po
    /\ UNCHANGED <<size, applied, caches, reviews, sizeQueue, sizePass, bounds>>

\* Mutant: the error of a failed call is swallowed.
CallFailsQuietly(p) ==
    /\ pc[p] # "idle"
    /\ faults < MaxFaults
    /\ faults' = faults + 1
    /\ Done(p)
    /\ UNCHANGED <<server, caches, reviews, sizeQueue, sizePass, edits>>

\* Any call of the pass fails, and its key comes back.
CallFails(p) ==
    /\ pc[p] # "idle"
    /\ faults < MaxFaults
    /\ faults' = faults + 1
    /\ Retry(p)
    /\ UNCHANGED <<server, caches, reviews, sizeQueue, sizePass, edits>>

-----------------------------------------------------------------------------
(***************************************************************************)
(* The TShirtSize controller.                                              *)
(***************************************************************************)

\* Get of the size and List of the POs, both from the cache.
StartSize(s) ==
    /\ s \in sizeQueue
    /\ sizePc[s] = "idle"
    /\ sizeQueue' = sizeQueue \ {s}
    /\ IF sizeCache[s].present
       THEN /\ sizePc' = [sizePc EXCEPT ![s] = "count"]
            /\ sizeSnap' = [sizeSnap EXCEPT ![s] = sizeCache[s]]
            /\ counted' = [counted EXCEPT ![s] = Count(s)]
       ELSE UNCHANGED sizePass
    /\ UNCHANGED <<server, caches, reviews, poQueue, poPass, bounds>>

\* Status().Update; a conflict (or NotFound) brings the key back.
UpdateCount(s) ==
    /\ sizePc[s] = "count"
    /\ sizePc' = [sizePc EXCEPT ![s] = "idle"]
    /\ sizeSnap' = [sizeSnap EXCEPT ![s] = NoTShirt]
    /\ counted' = [counted EXCEPT ![s] = 0]
    /\ IF sizeSnap[s] = size[s]
       THEN /\ size' = [size EXCEPT ![s].referencedBy = counted[s]]
            /\ UNCHANGED sizeQueue
       ELSE sizeQueue' = sizeQueue \cup {s} /\ UNCHANGED size
    /\ UNCHANGED <<po, applied, caches, reviews, poQueue, poPass, bounds>>

\* The operator restarts: its caches are filled and every key is queued anew.
\* Requests the API server has admitted are not affected.
Restart ==
    /\ faults < MaxFaults
    /\ faults' = faults + 1
    /\ poCache' = po
    /\ sizeCache' = size
    /\ poQueue' = {p \in PO : Exists(po[p])}
    /\ sizeQueue' = {s \in Size : size[s].present}
    /\ pc' = [p \in PO |-> "idle"]
    /\ snap' = [p \in PO |-> NoOnboarding]
    /\ sizing' = [p \in PO |-> Unsized]
    /\ sizePc' = [s \in Size |-> "idle"]
    /\ sizeSnap' = [s \in Size |-> NoTShirt]
    /\ counted' = [s \in Size |-> 0]
    /\ UNCHANGED <<server, reviews, edits>>

-----------------------------------------------------------------------------
Users ==
    \/ \E p \in PO : CreateObject(p) \/ EditReference(p) \/ DeleteObject(p)
    \/ \E s \in Size : WriteSize(s) \/ DeleteSize(s)

Step(p) == AddFinalizer(p) \/ Resolve(p) \/ Apply(p) \/ RemoveFinalizer(p)

Operator ==
    \/ \E p \in PO : Start(p) \/ Step(p) \/ CallFails(p)
    \/ \E s \in Size : StartSize(s) \/ UpdateCount(s)

Next ==
    \/ InSync /\ (Users \/ Operator \/ \E r \in reviews : Store(r))
    \/ \E p \in PO : SyncObject(p)
    \/ \E s \in Size : SyncSize(s)
    \/ Restart

Spec == Init /\ [][Next]_vars

\* Watches deliver, admitted requests are stored, queued keys are taken and
\* started passes go on. Users are owed nothing.
Fairness ==
    /\ \A p \in PO : WF_vars(SyncObject(p)) /\ WF_vars(InSync /\ Start(p))
    /\ \A p \in PO : WF_vars(InSync /\ Step(p))
    /\ \A s \in Size : WF_vars(SyncSize(s)) /\ WF_vars(InSync /\ StartSize(s))
    /\ \A s \in Size : WF_vars(InSync /\ UpdateCount(s))
    /\ WF_vars(InSync /\ \E r \in reviews : Store(r))

FairSpec == Spec /\ Fairness
-----------------------------------------------------------------------------
\* Type correctness, and what a pass holds: nothing when idle, a copy that is
\* deleted exactly when it finalizes, sizing for the reference it has read.
PassOK(p) ==
    /\ pc[p] = "idle" => snap[p] = NoOnboarding /\ sizing[p] = Unsized
    /\ pc[p] \in {"ensure", "resolve", "apply"} => snap[p].state = "live"
    /\ pc[p] = "finalize" => snap[p].state = "deleting"
    /\ pc[p] = "apply" => sizing[p].of = snap[p].ref

ServerOK ==
    /\ po \in [PO -> Onboarding]
    /\ size \in [Size -> TShirt]
    /\ applied \in [PO -> Sizing]

CachesOK ==
    /\ poCache \in [PO -> Onboarding]
    /\ sizeCache \in [Size -> TShirt]

ReviewsOK ==
    /\ reviews \subseteq Review
    /\ IsFiniteSet(reviews) /\ Cardinality(reviews) <= MaxReviews

LocalsOK ==
    /\ pc \in [PO -> {"idle", "ensure", "resolve", "apply", "finalize"}]
    /\ snap \in [PO -> Onboarding]
    /\ sizing \in [PO -> Sizing]

CountsOK ==
    /\ sizePc \in [Size -> {"idle", "count"}]
    /\ sizeSnap \in [Size -> TShirt]
    /\ counted \in [Size -> Nat]

TypeOK ==
    /\ ServerOK /\ CachesOK /\ ReviewsOK /\ LocalsOK /\ CountsOK
    /\ poQueue \subseteq PO /\ sizeQueue \subseteq Size
    /\ edits \in 0 .. MaxEdits /\ faults \in 0 .. MaxFaults
    /\ \A p \in PO : PassOK(p)

\* A size that a PO refers to is there: its deletion is refused while it is
\* referenced, and a reference to a size that is not there is refused. Two requests
\* that are admitted side by side get past both checks.
NoDanglingReference ==
    \A p \in PO : Exists(po[p]) /\ po[p].ref # None => size[po[p].ref].present

\* What the two checks do give, however requests overlap and caches lag: a size is
\* held by a reference the webhooks know of, also that of a PO under deletion, from
\* when no deletion of the size is on its way, for as long as the reference stands.
Held(p, s) ==
    /\ Exists(po[p]) /\ po[p].ref = s
    /\ p \in Referring(s)
    /\ size[s].present
    /\ \A r \in reviews : r.on = "size" /\ r.key = s => r.new.present

KnownReferenceHolds ==
    [][\A p \in PO, s \in Size :
          Held(p, s) /\ Exists(po'[p]) /\ po'[p].ref = s => Held(p, s)']_vars

\* A PO that is deleted goes in the end (here no tenant holds it back).
DeletionGoesThrough == \A p \in PO : []<>(po[p].state # "deleting")

\* The one thing that can stand in its way is the webhook, which refuses the removal
\* of the finalizer of a PO whose size is missing: with the size there again, or the
\* reference dropped, the PO goes, whatever overlapped, lagged, failed or restarted.
OnlyMissingSizeBlocks ==
    \A p \in PO :
        []<>(\/ po[p].state # "deleting"
             \/ po[p].ref # None /\ ~size[po[p].ref].present)

\* When nothing is left to do for a size, its status counts the POs that refer
\* to it: no reference that came or went under a running pass is forgotten.
ReferredBy(s) == {p \in PO : Exists(po[p]) /\ po[p].ref = s}

QuietMeansCounted ==
    \A s \in Size :
        /\ s \notin sizeQueue /\ sizePc[s] = "idle"
        /\ poCache = po /\ sizeCache[s] = size[s] /\ size[s].present
        => size[s].referencedBy = Cardinality(ReferredBy(s))

\* When nothing is left to do for a PO, its quota is of the size it refers to,
\* in the version that size has now: no change of a size passes a PO by, though
\* the mapper finds the PO in a cache that may not know the reference yet.
QuietMeansApplied ==
    \A p \in PO :
        /\ p \notin poQueue /\ pc[p] = "idle" /\ po[p].state = "live"
        /\ poCache = po /\ sizeCache = size
        => /\ po[p].ref = None => applied[p] = Unsized
           /\ po[p].ref # None =>
                applied[p] = [of |-> po[p].ref, version |-> size[po[p].ref].version]
=============================================================================
