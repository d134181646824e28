-------------------------- MODULE TenantLifecycle --------------------------
(***************************************************************************)
(* The life of tenant namespaces under the ProjectOnboarding controller:   *)
(* one pass of Reconcile per ProjectOnboarding (PO) at a time, at most     *)
(* MaxConcurrent passes side by side, users and the Kubernetes garbage     *)
(* collector acting between any two API calls, informer caches that lag,   *)
(* failed calls, lost answers and restarts of the operator.                *)
(*                                                                         *)
(* The children of a namespace (quota, policies, groups, Argo CD projects) *)
(* are left out here: the calls that write them are only present as calls  *)
(* that may fail.  resourceVersion is abstracted to the one thing that is  *)
(* asked of it, whether a copy of a PO is still the server's version.      *)
(***************************************************************************)
EXTENDS Naturals, FiniteSets

CONSTANTS
    PO,             \* ProjectOnboarding objects (cluster-scoped)
    NS,             \* tenant namespace names, after SanitizeName
    None,           \* neither of the two
    Claims,         \* [PO -> SUBSET NS]: the names each PO may list
    Kinds,          \* the kinds of spec.namespaces[] entries users write
    CacheLags,      \* may the Namespace informer lag behind the API server?
    MaxConcurrent,  \* MaxConcurrentReconciles
    MaxEdits,       \* bound: edits by users and administrators
    MaxFaults       \* bound: failed calls, lost answers and restarts

(***************************************************************************)
(* A spec entry as the lifecycle sees it.  "none": not listed.             *)
(* "override": active, with spec labels that overwrite a managed label.    *)
(* "frozen": enabled=false.  offboard=true wins over enabled.              *)
(***************************************************************************)
AllKinds == {"none", "active", "override", "frozen", "offboard"}

ASSUME ConstantsAssumption ==
    /\ None \notin PO
    /\ None \notin NS
    /\ Claims \in [PO -> SUBSET NS]
    /\ Kinds \subseteq AllKinds
    /\ "none" \in Kinds
    /\ CacheLags \in BOOLEAN
    /\ MaxConcurrent \in Nat \ {0}
    /\ MaxEdits \in Nat
    /\ MaxFaults \in Nat

VARIABLES
    po,         \* API server: each PO's metadata and spec
    status,     \* API server: each PO's status subresource
    ns,         \* API server: each namespace
    poCache,    \* informer cache of POs
    poFresh,    \* is the cached PO the server's current version?
    nsCache,    \* informer cache of namespaces
    owed,       \* POs the namespace events still on their way will wake
    queue,      \* keys waiting in the workqueue
    delayed,    \* keys with a requeue timer running
    pc,         \* where the pass of each key is
    snap,       \* the copy of the PO the pass works on
    current,    \* is that copy still the server's version?
    todo,       \* entries the current stage has still to visit
    at,         \* the entry between its read and its write
    seen,       \* what the read returned
    pending,    \* FinalizeProjectOnboardingDeletion's pending list
    failed,     \* did an entry of this pass fail (firstError)?
    edits, faults

server  == <<po, status, ns>>
caches  == <<poCache, poFresh, nsCache, owed>>
wakeups == <<queue, delayed>>
pass    == <<pc, snap, current, todo, at, seen, pending, failed>>
bounds  == <<edits, faults>>
vars    == <<server, caches, wakeups, pass, bounds>>

Namespace ==
    [phase : {"absent", "active", "terminating"},
     label : PO \cup {None},     \* whom the two managed labels name, if both are there
     owner : PO \cup {None}]     \* the controller owner reference

NoNamespace == [phase |-> "absent", label |-> None, owner |-> None]

Object ==
    [state : {"absent", "live", "deleting", "gone"}, fin : BOOLEAN,
     paused : BOOLEAN, spec : [NS -> AllKinds]]

NoObject == [state |-> "absent", fin |-> FALSE, paused |-> FALSE,
             spec |-> [n \in NS |-> "none"]]

Status ==
    [phase : {"none", "ready", "failed", "blocked"},
     pending : SUBSET NS,        \* the names in the DeletionBlocked message
     observed : BOOLEAN]         \* observedGeneration = generation?

Stages == {"idle", "ensure", "list", "prune", "entries", "finalize", "settle"}

Init ==
    /\ po = [p \in PO |-> NoObject]
    /\ status = [p \in PO |-> [phase |-> "none", pending |-> {}, observed |-> FALSE]]
    /\ ns = [n \in NS |-> NoNamespace]
    /\ poCache = po
    /\ poFresh = [p \in PO |-> TRUE]
    /\ nsCache = ns
    /\ owed = [n \in NS |-> {}]
    /\ queue = {}
    /\ delayed = {}
    /\ pc = [p \in PO |-> "idle"]
    /\ snap = po
    /\ current = [p \in PO |-> FALSE]
    /\ todo = [p \in PO |-> {}]
    /\ at = [p \in PO |-> None]
    /\ seen = [p \in PO |-> NoNamespace]
    /\ pending = [p \in PO |-> {}]
    /\ failed = [p \in PO |-> FALSE]
    /\ edits = 0
    /\ faults = 0

-----------------------------------------------------------------------------
(***************************************************************************)
(* The API server and the informers.                                       *)
(***************************************************************************)

\* Mutant: an update wakes only the POs that its new labels name.
WatchersOfNew(old, new) ==
    IF old = new THEN {}
    ELSE IF new.phase = "absent" THEN {old.label} \ {None}
    ELSE {new.label} \ {None}

\* The POs an event wakes (managedResourceEnqueueMapper): those its labels
\* name, the old and the new ones of an update; the IsManagedResource predicate
\* drops an event whose object, the new one of an update, is not labelled.
Watchers(old, new) ==
    IF old = new THEN {}
    ELSE IF new.phase = "absent" THEN {old.label} \ {None}
    ELSE IF new.label = None THEN {}
    ELSE {old.label, new.label} \ {None}

\* Namespace n becomes rec. Without lag the informer has seen it at once;
\* with lag its event is on its way, and the cache shows an older version.
WriteNamespace(n, rec) ==
    /\ ns' = [ns EXCEPT ![n] = rec]
    /\ IF CacheLags
       THEN /\ owed' = [owed EXCEPT ![n] = @ \cup Watchers(ns[n], rec)]
            /\ UNCHANGED <<nsCache, queue>>
       ELSE /\ nsCache' = [nsCache EXCEPT ![n] = rec]
            /\ queue' = queue \cup Watchers(ns[n], rec)
            /\ UNCHANGED owed

NamespaceUntouched == UNCHANGED <<ns, nsCache, owed, queue>>

\* A delete of n as the API server performs it: a running namespace starts
\* terminating, a terminating one stays so, an absent one is NotFound.
DeleteNamespaceCall(n) ==
    IF ns[n].phase = "active"
    THEN WriteNamespace(n, [ns[n] EXCEPT !.phase = "terminating"])
    ELSE NamespaceUntouched

\* PO p becomes rec through a user: every copy of the old version is stale.
WriteObject(p, rec) ==
    /\ po' = [po EXCEPT ![p] = rec]
    /\ poFresh' = [poFresh EXCEPT ![p] = FALSE]
    /\ current' = [current EXCEPT ![p] = FALSE]

SyncObject(p) ==
    /\ ~poFresh[p]
    /\ poCache' = [poCache EXCEPT ![p] = po[p]]
    /\ poFresh' = [poFresh EXCEPT ![p] = TRUE]
    /\ queue' = queue \cup {p}
    /\ UNCHANGED <<server, nsCache, owed, delayed, pass, bounds>>

SyncNamespace(n) ==
    /\ nsCache[n] # ns[n] \/ owed[n] # {}
    /\ nsCache' = [nsCache EXCEPT ![n] = ns[n]]
    /\ owed' = [owed EXCEPT ![n] = {}]
    /\ queue' = queue \cup owed[n]
    /\ UNCHANGED <<server, poCache, poFresh, delayed, pass, bounds>>

NamespaceTerminated(n) ==
    /\ ns[n].phase = "terminating"
    /\ WriteNamespace(n, NoNamespace)
    /\ UNCHANGED <<po, status, poCache, poFresh, delayed, pass, bounds>>

\* The garbage collector deletes what a PO that no longer exists controls.
GarbageCollect(n) ==
    /\ ns[n].phase = "active"
    /\ ns[n].owner # None
    /\ po[ns[n].owner].state = "gone"
    /\ DeleteNamespaceCall(n)
    /\ UNCHANGED <<po, status, poCache, poFresh, delayed, pass, bounds>>

TimerFires(p) ==
    /\ p \in delayed
    /\ delayed' = delayed \ {p}
    /\ queue' = queue \cup {p}
    /\ UNCHANGED <<server, caches, pass, bounds>>

\* The informers replay every object each SyncPeriod (5 minutes).
Resync(p) ==
    /\ poCache[p].state \in {"live", "deleting"}
    /\ p \notin queue
    /\ queue' = queue \cup {p}
    /\ UNCHANGED <<server, caches, delayed, pass, bounds>>

-----------------------------------------------------------------------------
(***************************************************************************)
(* Users and administrators.                                               *)
(***************************************************************************)

Edit == edits < MaxEdits /\ edits' = edits + 1 /\ UNCHANGED faults

CreateObject(p) ==
    /\ po[p].state = "absent"
    /\ \E spec \in [NS -> Kinds] :
          /\ \A n \in NS \ Claims[p] : spec[n] = "none"
          /\ WriteObject(p, [NoObject EXCEPT !.state = "live", !.spec = spec])
    /\ UNCHANGED <<status, ns, poCache, nsCache, owed, wakeups, pc, snap, todo, at,
                   seen, pending, failed, bounds>>

\* Spec edits are accepted while the PO is being deleted, too.
EditSpec(p) ==
    /\ po[p].state \in {"live", "deleting"}
    /\ \E n \in Claims[p] : \E k \in Kinds \ {po[p].spec[n]} :
          WriteObject(p, [po[p] EXCEPT !.spec[n] = k])
    /\ status' = [status EXCEPT ![p].observed = FALSE]
    /\ Edit
    /\ UNCHANGED <<ns, poCache, nsCache, owed, wakeups, pc, snap, todo, at,
                   seen, pending, failed>>

TogglePause(p) ==
    /\ po[p].state = "live"
    /\ WriteObject(p, [po[p] EXCEPT !.paused = ~po[p].paused])
    /\ Edit
    /\ UNCHANGED <<status, ns, poCache, nsCache, owed, wakeups, pc, snap, todo, at,
                   seen, pending, failed>>

\* oc delete: with the finalizer the PO stays, Terminating; without it it goes.
DeleteObject(p) ==
    /\ po[p].state = "live"
    /\ WriteObject(p, [po[p] EXCEPT !.state = IF po[p].fin THEN "deleting" ELSE "gone"])
    /\ Edit
    /\ UNCHANGED <<status, ns, poCache, nsCache, owed, wakeups, pc, snap, todo, at,
                   seen, pending, failed>>

UserCreatesNamespace(n) ==
    /\ ns[n].phase = "absent"
    /\ WriteNamespace(n, [NoNamespace EXCEPT !.phase = "active"])
    /\ Edit
    /\ UNCHANGED <<po, status, poCache, poFresh, delayed, pass>>

UserDeletesNamespace(n) ==
    /\ ns[n].phase = "active"
    /\ DeleteNamespaceCall(n)
    /\ Edit
    /\ UNCHANGED <<po, status, poCache, poFresh, delayed, pass>>

-----------------------------------------------------------------------------
(***************************************************************************)
(* The pass of PO p.                                                       *)
(***************************************************************************)

Finish(p) ==
    /\ pc' = [pc EXCEPT ![p] = "idle"]
    /\ snap' = [snap EXCEPT ![p] = NoObject]
    /\ current' = [current EXCEPT ![p] = FALSE]
    /\ todo' = [todo EXCEPT ![p] = {}]
    /\ at' = [at EXCEPT ![p] = None]
    /\ seen' = [seen EXCEPT ![p] = NoNamespace]
    /\ pending' = [pending EXCEPT ![p] = {}]
    /\ failed' = [failed EXCEPT ![p] = FALSE]

\* The pass ends and asks for nothing more.
Done(p) == Finish(p) /\ UNCHANGED delayed

\* The pass ends and its key comes back: after 30 s (transient error,
\* deletion blocked), at once (conflict on status) or with backoff (error).
Retry(p) == Finish(p) /\ delayed' = delayed \cup {p}

\* The answer to a call that took effect reaches the pass (ok) or is lost.
Answer(ok) ==
    /\ ok \/ faults < MaxFaults
    /\ faults' = IF ok THEN faults ELSE faults + 1
    /\ UNCHANGED edits

Goto(p, stage) == pc' = [pc EXCEPT ![p] = stage]

Busy == {p \in PO : pc[p] # "idle"}

\* Mutant: any managed namespace counts, whoever manages it.
ManagedByAnyone(p, n) == nsCache[n].label # None

\* The labels a listing or a read of the informer cache finds on namespace n
\* (isManagedByProjectOnboarding, listManagedNamespaces).
ManagedBy(p, n) == nsCache[n].label = p

\* managedNamespaceExists: a terminating namespace does not count.
ManagedNamespaceExists(p, n) == ManagedBy(p, n) /\ nsCache[n].phase = "active"

\* A worker takes the key and reads the PO from the cache.
Start(p) ==
    /\ p \in queue
    /\ pc[p] = "idle"
    /\ Cardinality(Busy) < MaxConcurrent
    /\ queue' = queue \ {p}
    /\ \/ /\ poCache[p].state \in {"absent", "gone"}
          /\ UNCHANGED <<pc, snap, current, todo>>
       \/ /\ poCache[p].state = "live"
          /\ Goto(p, "ensure")
          /\ snap' = [snap EXCEPT ![p] = poCache[p]]
          /\ current' = [current EXCEPT ![p] = poFresh[p]]
          /\ UNCHANGED todo
       \/ /\ poCache[p].state = "deleting"
          /\ Goto(p, "finalize")
          /\ snap' = [snap EXCEPT ![p] = poCache[p]]
          /\ current' = [current EXCEPT ![p] = poFresh[p]]
          /\ todo' = [todo EXCEPT ![p] = {n \in NS : poCache[p].spec[n] # "none"}]
    /\ UNCHANGED <<server, caches, delayed, at, seen, pending, failed, bounds>>

\* After EnsureFinalizer: a paused PO is left alone.
AfterEnsure(p) == IF snap[p].paused THEN Done(p)
                  ELSE /\ Goto(p, "list")
                       /\ UNCHANGED <<delayed, snap, current, todo, at, seen, pending, failed>>

\* Mutant: the finalizer is taken for granted.
FinalizerAssumed(p) ==
    /\ pc[p] = "ensure"
    /\ AfterEnsure(p)
    /\ UNCHANGED <<server, caches, queue, bounds>>

FinalizerPresent(p) ==
    /\ pc[p] = "ensure"
    /\ snap[p].fin
    /\ AfterEnsure(p)
    /\ UNCHANGED <<server, caches, queue, bounds>>

AddFinalizer(p) ==
    /\ pc[p] = "ensure"
    /\ ~snap[p].fin
    /\ current[p]
    /\ po' = [po EXCEPT ![p].fin = TRUE]
    /\ poFresh' = [poFresh EXCEPT ![p] = FALSE]
    /\ \E ok \in BOOLEAN :
          /\ Answer(ok)
          /\ IF ok /\ ~snap[p].paused
             THEN /\ Goto(p, "list")
                  /\ snap' = [snap EXCEPT ![p].fin = TRUE]
                  /\ UNCHANGED <<delayed, current, todo, at, seen, pending, failed>>
             ELSE IF ok THEN Done(p) ELSE Retry(p)
    /\ UNCHANGED <<status, ns, poCache, nsCache, owed, queue>>

\* Mutant: a conflict on the finalizer is taken for success.
ConflictIgnored(p) ==
    /\ ~current[p]
    /\ pc[p] = "ensure" /\ ~snap[p].fin
    /\ AfterEnsure(p)
    /\ UNCHANGED <<server, caches, queue, bounds>>

\* An Update of a PO with an outdated resourceVersion is a Conflict (NotFound
\* when the PO is gone); both end the pass with a retry.
UpdateConflict(p) ==
    /\ ~current[p]
    /\ \/ pc[p] = "ensure" /\ ~snap[p].fin
       \/ pc[p] = "settle" /\ pending[p] = {}
       \/ pc[p] = "entries" /\ todo[p] = {}
    /\ Retry(p)
    /\ UNCHANGED <<server, caches, queue, bounds>>

\* PruneRemovedNamespaces: offboarded entries whose namespace is listed as ours.
ListOffboarded(p) ==
    /\ pc[p] = "list"
    /\ Goto(p, "prune")
    /\ todo' = [todo EXCEPT ![p] =
                  {n \in NS : ManagedBy(p, n) /\ snap[p].spec[n] = "offboard"}]
    /\ UNCHANGED <<server, caches, wakeups, snap, current, at, seen, pending, failed, bounds>>

\* The loop over spec.namespaces[]; it skips entries with enabled=false.
BeginEntries(p) ==
    /\ pc[p] = "prune"
    /\ todo[p] = {}
    /\ Goto(p, "entries")
    /\ todo' = [todo EXCEPT ![p] =
                  {n \in NS : snap[p].spec[n] \notin {"none", "frozen"}}]
    /\ UNCHANGED <<server, caches, wakeups, snap, current, at, seen, pending, failed, bounds>>

\* Mutant: the entry in work is not reset.
LeavesDangling(p, n) ==
    /\ todo' = [todo EXCEPT ![p] = @ \ {n}]
    /\ UNCHANGED <<at, seen>>

Leaves(p, n) ==
    /\ todo' = [todo EXCEPT ![p] = @ \ {n}]
    /\ at' = [at EXCEPT ![p] = None]
    /\ seen' = [seen EXCEPT ![p] = NoNamespace]

EntryDone(p, n) ==
    /\ Leaves(p, n)
    /\ UNCHANGED <<pc, snap, current, pending, failed, delayed>>

\* A failing entry is noted and the loop goes on; while pruning or finalizing
\* it ends the pass.
EntryFails(p, n) ==
    IF pc[p] = "entries"
    THEN /\ Leaves(p, n)
         /\ failed' = [failed EXCEPT ![p] = TRUE]
         /\ UNCHANGED <<pc, snap, current, pending, delayed>>
    ELSE Retry(p)

Visits(p, n) == at[p] = None /\ n \in todo[p]

Reads(p, n) ==
    /\ at' = [at EXCEPT ![p] = n]
    /\ seen' = [seen EXCEPT ![p] = nsCache[n]]
    /\ UNCHANGED <<pc, snap, current, todo, pending, failed, delayed>>

\* CleanupNamespace, up to the read of deleteManagedNamespace: only a
\* namespace that carries both managed labels of this PO is deleted.
ReadOffboarded(p, n) ==
    /\ pc[p] \in {"prune", "entries", "finalize"}
    /\ Visits(p, n)
    /\ snap[p].spec[n] = "offboard"
    /\ IF ManagedBy(p, n) THEN Reads(p, n) ELSE EntryDone(p, n)
    /\ UNCHANGED <<server, caches, queue, bounds>>

\* ... and its Delete, which names the namespace and no UID.
DeleteOffboarded(p, n) ==
    /\ at[p] = n
    /\ snap[p].spec[n] = "offboard"
    /\ DeleteNamespaceCall(n)
    /\ \E ok \in BOOLEAN :
          /\ Answer(ok)
          /\ IF ok THEN EntryDone(p, n) ELSE EntryFails(p, n)
    /\ UNCHANGED <<po, status, poCache, poFresh>>

\* Mutant: whoever controls the namespace now is replaced.
ReadForeignTenant(p, n) ==
    /\ pc[p] = "entries"
    /\ Visits(p, n)
    /\ snap[p].spec[n] \in {"active", "override"}
    /\ Reads(p, n)
    /\ UNCHANGED <<server, caches, queue, bounds>>

\* reconcileNamespaceObject: the read. A namespace another PO controls is
\* refused by SetControllerReference (AlreadyOwnedError).
ReadTenant(p, n) ==
    /\ pc[p] = "entries"
    /\ Visits(p, n)
    /\ snap[p].spec[n] \in {"active", "override"}
    /\ IF nsCache[n].owner \in PO \ {p} THEN EntryFails(p, n) ELSE Reads(p, n)
    /\ UNCHANGED <<server, caches, queue, bounds>>

\* spec labels are copied over the managed ones.
DesiredLabel(p, n) == IF snap[p].spec[n] = "override" THEN None ELSE p

\* Mutant: the owner reference is set on creation only.
PatchedLabels(p, n) ==
    [ns[n] EXCEPT !.label = IF seen[p].label = DesiredLabel(p, n) THEN @ ELSE DesiredLabel(p, n)]

\* A merge patch carries the fields that differ from the copy that was read.
Patched(p, n) ==
    [ns[n] EXCEPT
        !.label = IF seen[p].label = DesiredLabel(p, n) THEN @ ELSE DesiredLabel(p, n),
        !.owner = IF seen[p].owner = p THEN @ ELSE p]

\* The write: Create when the read found nothing, else Patch.
WriteTenant(p, n) ==
    /\ at[p] = n
    /\ snap[p].spec[n] \in {"active", "override"}
    /\ (seen[p].phase = "absent") = (ns[n].phase = "absent")
    /\ WriteNamespace(n, IF ns[n].phase = "absent"
                         THEN [phase |-> "active", label |-> DesiredLabel(p, n), owner |-> p]
                         ELSE Patched(p, n))
    /\ \E ok \in BOOLEAN :
          /\ Answer(ok)
          /\ IF ok THEN EntryDone(p, n) ELSE EntryFails(p, n)
    /\ UNCHANGED <<po, status, poCache, poFresh>>

\* Mutant: AlreadyExists is taken for success.
WriteTenantSkipped(p, n) ==
    /\ at[p] = n
    /\ snap[p].spec[n] \in {"active", "override"}
    /\ (seen[p].phase = "absent") # (ns[n].phase = "absent")
    /\ EntryDone(p, n)
    /\ UNCHANGED <<server, caches, queue, bounds>>

\* AlreadyExists or NotFound: the read was out of date.
WriteTenantRefused(p, n) ==
    /\ at[p] = n
    /\ snap[p].spec[n] \in {"active", "override"}
    /\ (seen[p].phase = "absent") # (ns[n].phase = "absent")
    /\ EntryFails(p, n)
    /\ UNCHANGED <<server, caches, queue, bounds>>

\* Status().Update with the version the pass holds; without a change the
\* server keeps its version.
WriteStatus(p, new) ==
    /\ status' = [status EXCEPT ![p] = new]
    /\ poFresh' = [poFresh EXCEPT ![p] = @ /\ status[p] = new]

\* Mutant: firstError is reported in the status and then dropped.
UpdateStatusOnly(p) ==
    /\ pc[p] = "entries"
    /\ todo[p] = {}
    /\ current[p]
    /\ WriteStatus(p, [status[p] EXCEPT !.phase = IF failed[p] THEN "failed" ELSE "ready",
                                        !.observed = TRUE])
    /\ \E ok \in BOOLEAN :
          /\ Answer(ok)
          /\ IF ok THEN Done(p) ELSE Retry(p)
    /\ UNCHANGED <<po, ns, poCache, nsCache, owed, queue>>

UpdateStatus(p) ==
    /\ pc[p] = "entries"
    /\ todo[p] = {}
    /\ current[p]
    /\ WriteStatus(p, [status[p] EXCEPT !.phase = IF failed[p] THEN "failed" ELSE "ready",
                                        !.observed = TRUE])
    /\ \E ok \in BOOLEAN :
          /\ Answer(ok)
          /\ IF ok /\ ~failed[p] THEN Done(p) ELSE Retry(p)
    /\ UNCHANGED <<po, ns, poCache, nsCache, owed, queue>>

-----------------------------------------------------------------------------
\* Mutant: only enabled entries are asked whether they block.
JudgeEnabledEntry(p, n) ==
    /\ pc[p] = "finalize"
    /\ Visits(p, n)
    /\ snap[p].spec[n] # "offboard"
    /\ IF ManagedNamespaceExists(p, n) /\ snap[p].spec[n] # "frozen"
       THEN pending' = [pending EXCEPT ![p] = @ \cup {n}]
       ELSE UNCHANGED pending
    /\ Leaves(p, n)
    /\ UNCHANGED <<server, caches, wakeups, pc, snap, current, failed, bounds>>

\* finalizeNamespaceEntry for an entry that is not offboarded: it blocks the
\* deletion while a managed namespace runs under its name.
JudgeEntry(p, n) ==
    /\ pc[p] = "finalize"
    /\ Visits(p, n)
    /\ snap[p].spec[n] # "offboard"
    /\ IF ManagedNamespaceExists(p, n)
       THEN pending' = [pending EXCEPT ![p] = @ \cup {n}]
       ELSE UNCHANGED pending
    /\ Leaves(p, n)
    /\ UNCHANGED <<server, caches, wakeups, pc, snap, current, failed, bounds>>

\* Mutant: only listed entries block.
OrphansForgotten(p) == {}

\* Managed namespaces whose entry was removed from the spec block it, too.
Orphans(p) == {n \in NS : ManagedNamespaceExists(p, n) /\ snap[p].spec[n] = "none"}

ListOrphans(p) ==
    /\ pc[p] = "finalize"
    /\ todo[p] = {}
    /\ Goto(p, "settle")
    /\ pending' = [pending EXCEPT ![p] = @ \cup Orphans(p)]
    /\ UNCHANGED <<server, caches, wakeups, snap, current, todo, at, seen, failed, bounds>>

\* The DeletionBlocked condition; a conflict on it is ignored.
ReportBlocked(p) ==
    /\ pc[p] = "settle"
    /\ pending[p] # {}
    /\ IF current[p]
       THEN WriteStatus(p, [status[p] EXCEPT !.phase = "blocked", !.pending = pending[p]])
       ELSE UNCHANGED <<status, poFresh>>
    /\ Retry(p)
    /\ UNCHANGED <<po, ns, poCache, nsCache, owed, queue, bounds>>

\* The last finalizer goes, and the PO with it.
RemoveFinalizer(p) ==
    /\ pc[p] = "settle"
    /\ pending[p] = {}
    /\ current[p]
    /\ po' = [po EXCEPT ![p].fin = FALSE, ![p].state = "gone"]
    /\ poFresh' = [poFresh EXCEPT ![p] = FALSE]
    /\ \E ok \in BOOLEAN :
          /\ Answer(ok)
          /\ IF ok THEN Done(p) ELSE Retry(p)
    /\ UNCHANGED <<status, ns, poCache, nsCache, owed, queue>>

\* Mutant: the error of a failed call is swallowed.
CallFailsQuietly(p) ==
    /\ pc[p] # "idle"
    /\ faults < MaxFaults
    /\ faults' = faults + 1
    /\ Done(p)
    /\ UNCHANGED <<server, caches, queue, edits>>

\* A call of the pass fails without effect: the ConfigMap does not parse, a
\* T-shirt size is missing, the API server refuses or times out.
CallFails(p) ==
    /\ pc[p] # "idle"
    /\ faults < MaxFaults
    /\ faults' = faults + 1
    /\ IF pc[p] = "entries" /\ todo[p] # {}
       THEN \E n \in todo[p] : at[p] \in {None, n} /\ EntryFails(p, n)
       ELSE Retry(p)
    /\ UNCHANGED <<server, caches, queue, edits>>

\* The operator stops and a new one starts: passes, queue and timers are lost,
\* the informers list everything anew and enqueue every PO there is.
Restart ==
    /\ faults < MaxFaults
    /\ faults' = faults + 1
    /\ poCache' = po
    /\ poFresh' = [p \in PO |-> TRUE]
    /\ nsCache' = ns
    /\ owed' = [n \in NS |-> {}]
    /\ queue' = {p \in PO : po[p].state \in {"live", "deleting"}}
    /\ delayed' = {}
    /\ pc' = [p \in PO |-> "idle"]
    /\ snap' = [p \in PO |-> NoObject]
    /\ current' = [p \in PO |-> FALSE]
    /\ todo' = [p \in PO |-> {}]
    /\ at' = [p \in PO |-> None]
    /\ seen' = [p \in PO |-> NoNamespace]
    /\ pending' = [p \in PO |-> {}]
    /\ failed' = [p \in PO |-> FALSE]
    /\ UNCHANGED <<server, edits>>

-----------------------------------------------------------------------------
\* The steps a started pass takes when it is given a processor.
Step(p) ==
    \/ FinalizerPresent(p)
    \/ AddFinalizer(p)
    \/ UpdateConflict(p)
    \/ ListOffboarded(p)
    \/ BeginEntries(p)
    \/ \E n \in NS : ReadOffboarded(p, n)
    \/ \E n \in NS : DeleteOffboarded(p, n)
    \/ \E n \in NS : ReadTenant(p, n)
    \/ \E n \in NS : WriteTenant(p, n)
    \/ \E n \in NS : WriteTenantRefused(p, n)
    \/ UpdateStatus(p)
    \/ \E n \in NS : JudgeEntry(p, n)
    \/ ListOrphans(p)
    \/ ReportBlocked(p)
    \/ RemoveFinalizer(p)

Users ==
    \/ \E p \in PO : CreateObject(p) \/ EditSpec(p) \/ TogglePause(p) \/ DeleteObject(p)
    \/ \E n \in NS : UserCreatesNamespace(n) \/ UserDeletesNamespace(n)

Cluster ==
    \/ \E p \in PO : SyncObject(p) \/ TimerFires(p) \/ Resync(p)
    \/ \E n \in NS : SyncNamespace(n) \/ NamespaceTerminated(n) \/ GarbageCollect(n)

Next ==
    \/ Users
    \/ Cluster
    \/ \E p \in PO : Start(p) \/ Step(p) \/ CallFails(p)
    \/ Restart

Spec == Init /\ [][Next]_vars

\* Watches deliver, timers fire, terminating namespaces end and orphans are
\* collected; a started pass goes on, and the workqueue, a FIFO, hands every
\* key to a worker in the end. Users and the resync are owed nothing.
Fairness ==
    /\ \A p \in PO : WF_vars(SyncObject(p)) /\ WF_vars(TimerFires(p))
    /\ \A p \in PO : SF_vars(Start(p)) /\ WF_vars(Step(p))
    /\ \A n \in NS : WF_vars(SyncNamespace(n)) /\ WF_vars(NamespaceTerminated(n))
    /\ \A n \in NS : WF_vars(GarbageCollect(n))

FairSpec == Spec /\ Fairness
-----------------------------------------------------------------------------
\* Type correctness, and what a pass holds in each of its stages: nothing when
\* idle, an entry in work only inside a loop that still has it to do, a live
\* copy of the PO while provisioning and a deleted one while finalizing.
Loops == {"prune", "entries", "finalize"}
Provisioning == {"list", "prune", "entries"}
Finalizing == {"finalize", "settle"}

PassOK(p) ==
    /\ pc[p] = "idle" => at[p] = None /\ todo[p] = {}
    /\ at[p] # None =>
         /\ pc[p] \in Loops /\ at[p] \in todo[p]
         /\ pc[p] = "entries" \/ snap[p].spec[at[p]] = "offboard"
    /\ pc[p] \in Provisioning \cup {"ensure"} => snap[p].state = "live"
    /\ pc[p] \in Finalizing => snap[p].state = "deleting"

ServerOK ==
    /\ po \in [PO -> Object]
    /\ status \in [PO -> Status]
    /\ ns \in [NS -> Namespace]

CachesOK ==
    /\ poCache \in [PO -> Object]
    /\ poFresh \in [PO -> BOOLEAN]
    /\ nsCache \in [NS -> Namespace]
    /\ owed \in [NS -> SUBSET PO]
    /\ queue \subseteq PO
    /\ delayed \subseteq PO

LocalsOK ==
    /\ pc \in [PO -> Stages]
    /\ snap \in [PO -> Object]
    /\ current \in [PO -> BOOLEAN]
    /\ todo \in [PO -> SUBSET NS]
    /\ at \in [PO -> NS \cup {None}]
    /\ seen \in [PO -> Namespace]
    /\ pending \in [PO -> SUBSET NS]
    /\ failed \in [PO -> BOOLEAN]

TypeOK ==
    /\ ServerOK
    /\ CachesOK
    /\ LocalsOK
    /\ edits \in 0 .. MaxEdits
    /\ faults \in 0 .. MaxFaults
    /\ \A p \in PO : PassOK(p)

\* Provisioning happens under the finalizer: whenever a namespace comes under
\* the control of a PO, that PO exists and holds the finalizer, so that its
\* deletion still has to pass through FinalizeProjectOnboardingDeletion. True
\* however far the informers lag (reconcile.go, EnsureFinalizer before the loop).
TakenUnderFinalizer ==
    [][\A n \in NS, p \in PO :
          ns[n].owner # p /\ ns'[n].owner = p => po[p].fin]_vars

\* Why that holds: no copy of a PO, in the cache or in a pass, shows a finalizer
\* on a live PO that has lost it, because only a pass that read the PO as deleted
\* removes it, and caches do not go back. Checked as an invariant of its own.
FinalizerKnown(p) ==
    /\ po[p].fin => po[p].state \in {"live", "deleting"}
    /\ po[p].state = "deleting" => po[p].fin
    /\ poFresh[p] => poCache[p] = po[p]
    /\ pc[p] # "idle" /\ current[p] => snap[p] = po[p]
    /\ poCache[p].state = "live" /\ poCache[p].fin => po[p].fin
    /\ poCache[p].state \in {"deleting", "gone"} => po[p].state \in {"deleting", "gone"}
    /\ pc[p] = "ensure" /\ snap[p].fin => po[p].fin
    /\ pc[p] \in Provisioning => po[p].fin
    /\ pc[p] \in Finalizing => poCache[p].state \in {"deleting", "gone"}

FinalizerNotForgotten == \A p \in PO : FinalizerKnown(p)

\* A running namespace under the control of PO p.
Tenant(p, n) == ns[n].owner = p /\ ns[n].phase = "active"

\* The promise of the offboard field: a running tenant namespace goes down only
\* at a user's hands or after its controlling PO listed it with offboard=true
\* (in a version the server, the cache or the running pass holds); in particular
\* the garbage collector never takes one that was not offboarded.
Offboarded(p, n) ==
    "offboard" \in {po[p].spec[n], poCache[p].spec[n], snap[p].spec[n]}

GoesDown(p, n) == Tenant(p, n) /\ ns'[n].phase = "terminating"

TornDownOnlyWithConsent ==
    [][\A n \in NS, p \in PO :
          GoesDown(p, n) => Offboarded(p, n) \/ UserDeletesNamespace(n)]_vars

\* What is left of it however many POs list a name, workers run and reads are out
\* of date: the order may be that of a PO that had read the namespace as its own,
\* before it changed hands; and once its PO is gone the garbage collector has it.
TornDownOnlyOnOrder ==
    [][\A n \in NS, p \in PO : GoesDown(p, n) =>
          \/ Offboarded(p, n) \/ UserDeletesNamespace(n)
          \/ po[p].state = "gone"
          \/ \E q \in PO : Offboarded(q, n) /\ at[q] = n /\ seen[q].label = q]_vars

\* A namespace changes hands only in a race: the PO that takes it had read it when
\* nobody controlled it, and another one has adopted it since (AlreadyOwnedError).
\* Who reads it with an owner, however old the copy, does not take it.
TakenOverOnlyUnseen ==
    [][\A n \in NS : \A p, q \in PO :
          p # q /\ ns[n].owner = p /\ ns'[n].owner = q =>
              at[q] = n /\ seen[q].phase # "absent" /\ seen[q].owner = None]_vars

\* A PO that is gone controls no running namespace: the finalizer outlives every
\* tenant, so that the garbage collector finds nothing to take.
GoneMeansReleased ==
    \A p \in PO, n \in NS :
        po[p].state = "gone" /\ ns[n].owner = p => ns[n].phase # "active"

\* Why a PO that is gone controls nothing there: labels and owner agree, stay
\* within the claims, and a pass that finalizes still has every running tenant
\* of its PO before it (todo), on its pending list, or among the orphans.
WithinClaims(p, spec) ==
    \A n \in NS : spec[n] # "none" => n \in Claims[p] /\ spec[n] # "override"

CustodyKept(p) ==
    /\ WithinClaims(p, po[p].spec)
    /\ WithinClaims(p, poCache[p].spec)
    /\ WithinClaims(p, snap[p].spec)
    /\ \A n \in NS : ns[n].label = p <=> ns[n].owner = p
    /\ \A n \in NS : ns[n].owner = p => n \in Claims[p]
    /\ \A n \in NS : ns[n].owner = p => po[p].fin \/ po[p].state = "gone"
    /\ at[p] # None =>
         /\ seen[p].owner \in {p, None} /\ seen[p].label = seen[p].owner
         /\ ns[at[p]].owner \in {p, None} /\ at[p] \in Claims[p]
    /\ pc[p] = "finalize" =>
         \A n \in NS : Tenant(p, n) =>
             n \in todo[p] \cup pending[p] \/ snap[p].spec[n] = "none"
    /\ pc[p] = "settle" => \A n \in NS : Tenant(p, n) => n \in pending[p]
    /\ po[p].state = "gone" => \A n \in NS : ~Tenant(p, n)

CustodyInv == nsCache = ns /\ \A p \in PO : CustodyKept(p)

\* The labels by which a pass recognises its namespaces agree with the owner
\* reference, whoever patches from which copy: two POs that adopt a namespace
\* side by side never leave it with the labels of one and the owner of the other.
LabelsFollowOwners == \A n \in NS : ns[n].label = ns[n].owner

\* Of a tenant that the informer shows as it is before the finalizing passes
\* begin, no such pass loses sight: the PO does not go while it runs. However
\* much other reads lag, whatever the entry has become and whoever lists the
\* name, only a namespace that was not shown yet can be left behind.
Known(p, n) ==
    /\ pc[p] = "idle" /\ po[p].fin
    /\ poCache[p].state = "deleting" /\ nsCache[n] = ns[n]

KnownMeansReleased ==
    \A p \in PO, n \in NS :
        [](Known(p, n) => [](po[p].state = "gone" => ~Tenant(p, n)))

\* The lifecycle implements TenantCustody: books are open while the finalizer
\* is there, a running namespace is in the custody of its controller, and it is
\* noticed when the informer shows it to a PO known to be deleted, which has it
\* before it, on its pending list, or to find among the orphans.
OpenBooks == [p \in PO |-> po[p].fin]
Custodian == [n \in NS |-> IF ns[n].phase = "active" THEN ns[n].owner ELSE None]

Noticed(p, n) ==
    /\ Tenant(p, n) /\ nsCache[n] = ns[n]
    /\ po[p].fin /\ poCache[p].state = "deleting"
    /\ pc[p] = "finalize" => n \in todo[p] \cup pending[p] \/ snap[p].spec[n] = "none"
    /\ pc[p] = "settle" => n \in pending[p]

AllNoticed == {w \in PO \X NS : Noticed(w[1], w[2])}

Custody == INSTANCE TenantCustody
               WITH open <- OpenBooks, custodian <- Custodian, noticed <- AllNoticed

ImplementsCustody == Custody!Spec

\* No wake-up is lost: with no pass, timer or event left for a PO, its listed
\* namespaces are what the spec asks for, and it is not waiting to be deleted.
Quiescent(p) ==
    /\ p \notin queue \cup delayed
    /\ pc[p] = "idle"
    /\ poFresh[p]
    /\ \A n \in NS : p \notin owed[n]

AsSpecified(p, n) ==
    CASE po[p].spec[n] = "active"   -> ns[n].label = p /\ ns[n].owner = p
      [] po[p].spec[n] = "offboard" -> ns[n].label = p => ns[n].phase # "active"
      [] OTHER -> TRUE

QuietMeansSettled ==
    \A p \in PO : Quiescent(p) =>
        /\ po[p].state # "deleting"
        /\ po[p].state = "live" /\ ~po[p].paused => \A n \in NS : AsSpecified(p, n)

\* A deletion that nothing blocks completes: a PO does not stay Terminating
\* for ever while every running namespace that is its own is offboarded.
Blocked(p) ==
    \E n \in NS : /\ ns[n].phase = "active" /\ ns[n].label = p
                  /\ po[p].spec[n] # "offboard"

DeletionCompletes ==
    \A p \in PO : []<>(po[p].state = "deleting" => Blocked(p))

\* The spec is carried out in the end: an active entry gets its namespace and
\* an offboarded one loses it, unless the PO is paused or deleted, or another
\* PO controls the namespace.
SpecCarriedOut ==
    \A p \in PO, n \in NS :
        []<>(\/ po[p].state # "live" \/ po[p].paused
             \/ ns[n].owner \in PO \ {p}
             \/ AsSpecified(p, n))

=============================================================================
