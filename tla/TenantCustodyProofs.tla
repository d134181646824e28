------------------------ MODULE TenantCustodyProofs ------------------------
(***************************************************************************)
(* Theorems of TenantLifecycle about running tenants: who controls them,   *)
(* who may take them over or down, what a deletion may not lose sight of,  *)
(* and that the lifecycle implements TenantCustody.  They hold for any     *)
(* POs, names, workers and edits, with names listed by many POs, informers *)
(* that lag, failed calls, lost answers and restarts; those about labels   *)
(* take it that no spec label overwrites a managed one.                    *)
(***************************************************************************)
EXTENDS TenantWakeUps

\* What the proofs know of a state.
Grounds == TypeOK /\ FinalizerNotForgotten /\ HandsInv

\* It is known of every state.
LEMMA GroundsHold == PlainLabels => (Spec => []Grounds)
  <1>1. TypeOK /\ FinalizerNotForgotten /\ WakeInv => Grounds
    BY DEF Grounds, WakeInv
  <1>2. ASSUME PlainLabels PROVE Spec => []Grounds
    BY <1>1, <1>2, WakeHolds, TypeCorrect, FinalizerRemembered, PTL
  <1>3. QED BY <1>2

\* The labels by which a pass recognises its namespaces name the PO that controls
\* them, whichever POs adopt a namespace side by side and from whatever copies.
THEOREM LabelsAgree == PlainLabels => (Spec => []LabelsFollowOwners)
  <1>1. WakeInv => LabelsFollowOwners
    BY DEF WakeInv, HandsInv, RecordsInHand, InOneHand, LabelsFollowOwners
  <1>2. ASSUME PlainLabels PROVE Spec => []LabelsFollowOwners
    BY <1>1, <1>2, WakeHolds, PTL
  <1>3. QED BY <1>2

-----------------------------------------------------------------------------
(***************************************************************************)
(* What a step writes.                                                     *)
(***************************************************************************)

\* The only steps that write a namespace.
LEMMA NamespaceWriters ==
    ASSUME [Next]_vars
    PROVE  \/ UNCHANGED ns
           \/ \E n \in NS : \/ UserCreatesNamespace(n) \/ UserDeletesNamespace(n)
                           \/ NamespaceTerminated(n) \/ GarbageCollect(n)
           \/ \E p \in PO, n \in NS : DeleteOffboarded(p, n) \/ WriteTenant(p, n)
  <1> USE DEF server, caches
  <1>1. CASE UNCHANGED vars
    BY <1>1 DEF vars
  <1>2. CASE Users
    BY <1>2 DEF Users, CreateObject, EditSpec, TogglePause, DeleteObject
  <1>3. CASE Cluster
    BY <1>3 DEF Cluster, SyncObject, TimerFires, Resync, SyncNamespace
  <1>4. CASE \E p \in PO : Start(p) \/ CallFails(p)
    BY <1>4 DEF Start, CallFails
  <1>5. CASE Restart
    BY <1>5 DEF Restart
  <1>6. ASSUME NEW p \in PO, Step(p)
        PROVE  UNCHANGED ns \/ \E n \in NS : DeleteOffboarded(p, n) \/ WriteTenant(p, n)
    BY <1>6 DEF Step, FinalizerPresent, AddFinalizer, UpdateConflict, ListOffboarded,
       BeginEntries, ReadOffboarded, ReadTenant, WriteTenantRefused, UpdateStatus, JudgeEntry,
       ListOrphans, ReportBlocked, RemoveFinalizer
  <1>7. QED BY <1>1, <1>2, <1>3, <1>4, <1>5, <1>6 DEF Next

\* The only steps that write a finalizer.
LEMMA FinalizerWriters ==
    ASSUME TypeOK, FinalizerNotForgotten, [Next]_vars
    PROVE  \/ \A q \in PO : po'[q].fin = po[q].fin
           \/ \E p \in PO : AddFinalizer(p) \/ RemoveFinalizer(p)
  <1> USE DEF server, caches
  <1>0. po \in [PO -> Object]
    BY DEF TypeOK, ServerOK
  <1>1. CASE UNCHANGED vars
    BY <1>1 DEF vars
  <1>2. CASE Users
    <2>1. ASSUME NEW p \in PO, NEW rec, WriteObject(p, rec), rec.fin = po[p].fin
          PROVE  \A q \in PO : po'[q].fin = po[q].fin
      BY <1>0, <2>1 DEF WriteObject
    <2>2. ASSUME NEW p \in PO, CreateObject(p) PROVE \A q \in PO : po'[q].fin = po[q].fin
      <3>1. PICK spec \in [NS -> Kinds] :
              WriteObject(p, [NoObject EXCEPT !.state = "live", !.spec = spec])
        BY <2>2 DEF CreateObject
      <3>2. ~po[p].fin /\ po[p].fin \in BOOLEAN
        BY <1>0, <2>2 DEF CreateObject, FinalizerNotForgotten, FinalizerKnown, Object
      <3>3. po[p].fin = FALSE
        BY <3>2
      <3>4. [NoObject EXCEPT !.state = "live", !.spec = spec].fin = FALSE
        BY DEF NoObject
      <3>5. QED BY <2>1, <3>1, <3>3, <3>4
    <2>3. ASSUME NEW p \in PO, EditSpec(p) PROVE \A q \in PO : po'[q].fin = po[q].fin
      <3>1. PICK n \in Claims[p], k \in Kinds : WriteObject(p, [po[p] EXCEPT !.spec[n] = k])
        BY <2>3 DEF EditSpec
      <3>2. [po[p] EXCEPT !.spec[n] = k].fin = po[p].fin
        BY <1>0 DEF Object
      <3>3. QED BY <2>1, <3>1, <3>2
    <2>4. ASSUME NEW p \in PO, TogglePause(p) PROVE \A q \in PO : po'[q].fin = po[q].fin
      <3>1. [po[p] EXCEPT !.paused = ~po[p].paused].fin = po[p].fin
        BY <1>0 DEF Object
      <3>2. QED BY <2>1, <2>4, <3>1 DEF TogglePause
    <2>5. ASSUME NEW p \in PO, DeleteObject(p) PROVE \A q \in PO : po'[q].fin = po[q].fin
      <3>1. [po[p] EXCEPT !.state = IF po[p].fin THEN "deleting" ELSE "gone"].fin = po[p].fin
        BY <1>0 DEF Object
      <3>2. QED BY <2>1, <2>5, <3>1 DEF DeleteObject
    <2>6. ASSUME NEW n \in NS, UserCreatesNamespace(n) \/ UserDeletesNamespace(n)
          PROVE  UNCHANGED po
      BY <2>6 DEF UserCreatesNamespace, UserDeletesNamespace
    <2>7. QED BY <1>2, <2>2, <2>3, <2>4, <2>5, <2>6 DEF Users
  <1>3. CASE Cluster
    BY <1>3 DEF Cluster, SyncObject, TimerFires, Resync, SyncNamespace, NamespaceTerminated,
       GarbageCollect
  <1>4. CASE \E p \in PO : Start(p) \/ CallFails(p)
    BY <1>4 DEF Start, CallFails
  <1>5. CASE Restart
    BY <1>5 DEF Restart
  <1>6. ASSUME NEW p \in PO, Step(p) PROVE UNCHANGED po \/ AddFinalizer(p) \/ RemoveFinalizer(p)
    BY <1>6 DEF Step, FinalizerPresent, UpdateConflict, ListOffboarded,
       BeginEntries, ReadOffboarded, DeleteOffboarded, ReadTenant, WriteTenant,
       WriteTenantRefused, UpdateStatus, JudgeEntry, ListOrphans, ReportBlocked
  <1>7. QED BY <1>1, <1>2, <1>3, <1>4, <1>5, <1>6 DEF Next

\* A write of a namespace leaves the others alone.
LEMMA WriteOne ==
    ASSUME TypeOK, NEW n \in NS, NEW rec, WriteNamespace(n, rec)
    PROVE  ns' = [ns EXCEPT ![n] = rec] /\ ns'[n] = rec
  BY DEF WriteNamespace, TypeOK, ServerOK

\* A delete call does no more than to mark a running namespace.
LEMMA DeleteMarks ==
    ASSUME TypeOK, NEW n \in NS, DeleteNamespaceCall(n)
    PROVE  /\ \A m \in NS \ {n} : ns'[m] = ns[m]
           /\ ns'[n].phase # "active"
           /\ ns'[n].owner = ns[n].owner
           /\ ns'[n] # ns[n] => ns[n].phase = "active"
  <1>1. ns[n] \in Namespace /\ ns \in [NS -> Namespace]
    BY DEF TypeOK, ServerOK
  <1>2. CASE ns[n].phase = "active"
    <2>1. ns' = [ns EXCEPT ![n] = [ns[n] EXCEPT !.phase = "terminating"]]
      BY <1>2, WriteOne DEF DeleteNamespaceCall
    <2>2. QED BY <1>1, <1>2, <2>1 DEF Namespace
  <1>3. CASE ns[n].phase # "active"
    BY <1>3 DEF DeleteNamespaceCall, NamespaceUntouched
  <1>4. QED BY <1>2, <1>3

\* The write of a tenant creates it, or patches what runs or terminates.
LEMMA TenantWritten ==
    ASSUME TypeOK, NEW p \in PO, NEW n \in NS, WriteTenant(p, n)
    PROVE  /\ \A m \in NS \ {n} : ns'[m] = ns[m]
           /\ ns'[n].owner \in {p, ns[n].owner}
           /\ ns[n].phase = "absent" => ns'[n].phase = "active"
           /\ ns[n].phase # "absent" => ns'[n].phase = ns[n].phase
           /\ pc[p] = "entries"
  <1>0. pc[p] = "entries"
    BY ConstantsAssumption DEF WriteTenant, TypeOK, PassOK
  <1>1. ns[n] \in Namespace /\ ns \in [NS -> Namespace]
    BY DEF TypeOK, ServerOK
  <1>2. CASE ns[n].phase = "absent"
    <2> DEFINE rec == [phase |-> "active", label |-> DesiredLabel(p, n), owner |-> p]
    <2>1. rec.phase = "active" /\ rec.owner = p
      OBVIOUS
    <2>2. WriteNamespace(n, rec)
      BY <1>2 DEF WriteTenant
    <2> HIDE DEF rec
    <2>3. ns' = [ns EXCEPT ![n] = rec] /\ ns'[n] = rec
      BY <2>2, WriteOne
    <2>4. QED BY <1>0, <1>1, <1>2, <2>1, <2>3
  <1>3. CASE ns[n].phase # "absent"
    <2>1. Patched(p, n).phase = ns[n].phase /\ Patched(p, n).owner \in {p, ns[n].owner}
      BY <1>1 DEF Patched, Namespace
    <2>2. WriteNamespace(n, Patched(p, n))
      BY <1>3 DEF WriteTenant
    <2>3. ns' = [ns EXCEPT ![n] = Patched(p, n)] /\ ns'[n] = Patched(p, n)
      BY <2>2, WriteOne
    <2>4. QED BY <1>0, <1>1, <1>3, <2>1, <2>3
  <1>4. QED BY <1>2, <1>3

\* A step writes one namespace at most.
LEMMA OneNamespace ==
    ASSUME TypeOK, [Next]_vars
    PROVE  \/ UNCHANGED ns
           \/ \E n \in NS : \A m \in NS \ {n} : ns'[m] = ns[m]
  <1>1. ASSUME NEW n \in NS, NEW rec, WriteNamespace(n, rec)
        PROVE  \A m \in NS \ {n} : ns'[m] = ns[m]
    BY <1>1 DEF WriteNamespace, TypeOK, ServerOK
  <1>2. ASSUME NEW n \in NS, \/ UserCreatesNamespace(n) \/ NamespaceTerminated(n)
        PROVE  \A m \in NS \ {n} : ns'[m] = ns[m]
    BY <1>1, <1>2 DEF UserCreatesNamespace, NamespaceTerminated
  <1>3. ASSUME NEW n \in NS, UserDeletesNamespace(n) \/ GarbageCollect(n)
        PROVE  \A m \in NS \ {n} : ns'[m] = ns[m]
    BY <1>3, DeleteMarks DEF UserDeletesNamespace, GarbageCollect
  <1>4. ASSUME NEW p \in PO, NEW n \in NS, DeleteOffboarded(p, n) \/ WriteTenant(p, n)
        PROVE  \A m \in NS \ {n} : ns'[m] = ns[m]
    BY <1>4, DeleteMarks, TenantWritten DEF DeleteOffboarded
  <1>5. QED BY <1>2, <1>3, <1>4, NamespaceWriters

\* A tenant comes into being only by the hand of a pass in the loop over the entries
\* of the PO that gets it.
LEMMA TenantMade ==
    ASSUME TypeOK, HandsInv, [Next]_vars, NEW p \in PO, NEW n \in NS,
           ~Tenant(p, n), Tenant(p, n)'
    PROVE  pc[p] = "entries"
  <1> USE ConstantsAssumption
  <1>1. ns'[n] # ns[n] /\ ns'[n].owner = p /\ ns'[n].phase = "active"
    BY DEF Tenant
  <1>2. ASSUME NEW m \in NS, UserCreatesNamespace(m) \/ NamespaceTerminated(m)
        PROVE  FALSE
    <2>1. PICK rec : WriteNamespace(m, rec) /\ rec.owner = None
      BY <1>2 DEF UserCreatesNamespace, NamespaceTerminated, NoNamespace
    <2>2. QED BY <1>1, <2>1, WriteOne DEF TypeOK, ServerOK
  <1>3. ASSUME NEW m \in NS, DeleteNamespaceCall(m) PROVE FALSE
    BY <1>1, <1>3, DeleteMarks
  <1>4. ASSUME NEW q \in PO, NEW m \in NS, WriteTenant(q, m) PROVE q = p /\ pc[q] = "entries"
    <2>1. m = n /\ ns'[n].owner \in {q, ns[n].owner} /\ pc[q] = "entries"
      BY <1>1, <1>4, TenantWritten
    <2>2. ns[n].owner # p
      <3>1. ns[n].phase = "absent" => ns[n].owner = None
        BY DEF HandsInv, RecordsInHand, InOneHand
      <3>2. ns[n].phase # "absent" => ns[n].phase = "active"
        BY <1>1, <1>4, <2>1, TenantWritten
      <3>3. QED BY <3>1, <3>2 DEF Tenant
    <2>3. QED BY <1>1, <2>1, <2>2
  <1>5. QED
    BY <1>1, <1>2, <1>3, <1>4, NamespaceWriters
       DEF UserDeletesNamespace, GarbageCollect, DeleteOffboarded

\* The informers show a namespace as it was shown or as it is, ...
LEMMA CacheFollows ==
    ASSUME TypeOK, [Next]_vars, NEW n \in NS
    PROVE  nsCache'[n] \in {nsCache[n], ns'[n]}
  <1> USE DEF caches, server
  <1>1. ASSUME NEW m \in NS, NEW rec, WriteNamespace(m, rec)
        PROVE  nsCache'[n] \in {nsCache[n], ns'[n]}
    BY <1>1 DEF WriteNamespace, TypeOK, ServerOK, CachesOK
  <1>2. ASSUME NEW m \in NS, DeleteNamespaceCall(m)
        PROVE  nsCache'[n] \in {nsCache[n], ns'[n]}
    BY <1>1, <1>2 DEF DeleteNamespaceCall, NamespaceUntouched
  <1>3. CASE Users
    <2>1. ASSUME NEW m \in NS, UserCreatesNamespace(m) \/ UserDeletesNamespace(m)
          PROVE  nsCache'[n] \in {nsCache[n], ns'[n]}
      BY <1>1, <1>2, <2>1 DEF UserCreatesNamespace, UserDeletesNamespace
    <2>2. QED
      BY <1>3, <2>1 DEF Users, CreateObject, EditSpec, TogglePause, DeleteObject
  <1>4. CASE Cluster
    <2>1. ASSUME NEW m \in NS, NamespaceTerminated(m) \/ GarbageCollect(m)
          PROVE  nsCache'[n] \in {nsCache[n], ns'[n]}
      BY <1>1, <1>2, <2>1 DEF NamespaceTerminated, GarbageCollect
    <2>2. ASSUME NEW m \in NS, SyncNamespace(m)
          PROVE  nsCache'[n] \in {nsCache[n], ns'[n]}
      BY <2>2 DEF SyncNamespace, TypeOK, CachesOK
    <2>3. QED
      BY <1>4, <2>1, <2>2 DEF Cluster, SyncObject, TimerFires, Resync
  <1>5. ASSUME NEW p \in PO, Step(p) PROVE nsCache'[n] \in {nsCache[n], ns'[n]}
    <2>1. ASSUME NEW m \in NS, DeleteOffboarded(p, m) \/ WriteTenant(p, m)
          PROVE  nsCache'[n] \in {nsCache[n], ns'[n]}
      BY <1>1, <1>2, <2>1 DEF DeleteOffboarded, WriteTenant
    <2>2. QED
      BY <1>5, <2>1 DEF Step, FinalizerPresent, AddFinalizer, UpdateConflict, ListOffboarded,
         BeginEntries, ReadOffboarded, ReadTenant, WriteTenantRefused, UpdateStatus, JudgeEntry,
         ListOrphans, ReportBlocked, RemoveFinalizer
  <1>6. CASE Restart \/ UNCHANGED vars \/ \E p \in PO : Start(p) \/ CallFails(p)
    BY <1>6 DEF Restart, vars, Start, CallFails
  <1>7. QED BY <1>3, <1>4, <1>5, <1>6 DEF Next

\* ... and so they do with a PO.
LEMMA CopyFollows ==
    ASSUME TypeOK, [Next]_vars, NEW q \in PO
    PROVE  poCache'[q] \in {poCache[q], po[q]}
  <1> USE DEF caches, server
  <1>1. CASE Users
    BY <1>1 DEF Users, CreateObject, EditSpec, TogglePause, DeleteObject,
       UserCreatesNamespace, UserDeletesNamespace
  <1>2. CASE Cluster
    <2>1. ASSUME NEW p \in PO, SyncObject(p) PROVE poCache'[q] \in {poCache[q], po[q]}
      BY <2>1 DEF SyncObject, TypeOK, CachesOK
    <2>2. QED
      BY <1>2, <2>1 DEF Cluster, TimerFires, Resync, SyncNamespace, NamespaceTerminated,
         GarbageCollect
  <1>3. ASSUME NEW p \in PO, Step(p) PROVE UNCHANGED poCache
    BY <1>3 DEF Step, FinalizerPresent, AddFinalizer, UpdateConflict, ListOffboarded,
       BeginEntries, ReadOffboarded, DeleteOffboarded, ReadTenant, WriteTenant,
       WriteTenantRefused, UpdateStatus, JudgeEntry, ListOrphans, ReportBlocked, RemoveFinalizer
  <1>4. CASE Restart \/ UNCHANGED vars \/ \E p \in PO : Start(p) \/ CallFails(p)
    BY <1>4 DEF Restart, vars, Start, CallFails
  <1>5. QED BY <1>1, <1>2, <1>3, <1>4 DEF Next

-----------------------------------------------------------------------------
(***************************************************************************)
(* Who orders a running tenant down.                                       *)
(***************************************************************************)

\* What the pass of q holds of the entry in work.
OwnRead(q) == at'[q] = at[q] /\ seen'[q] = seen[q] /\ snap'[q].spec = snap[q].spec

\* A step of the pass of p has an entry in work that it had, or that it reads:
\* to delete it, only if it carries the labels of p.
LEMMA StepReads ==
    ASSUME TypeOK, NEW p \in PO, Step(p), at'[p] # None
    PROVE  \/ OwnRead(p)
           \/ (snap'[p].spec[at'[p]] = "offboard" => seen'[p].label = p)
  <1>1. ASSUME Finish(p) PROVE FALSE
    BY <1>1 DEF Finish, TypeOK, LocalsOK
  <1>2. ~Done(p) /\ ~Retry(p)
    BY <1>1 DEF Done, Retry
  <1>3. ASSUME NEW n \in NS, Leaves(p, n) PROVE FALSE
    BY <1>3 DEF Leaves, TypeOK, LocalsOK
  <1>4. ASSUME NEW n \in NS, EntryDone(p, n) \/ EntryFails(p, n) PROVE FALSE
    BY <1>2, <1>3, <1>4 DEF EntryDone, EntryFails
  <1>5. CASE FinalizerPresent(p)
    BY <1>2, <1>5 DEF FinalizerPresent, AfterEnsure, OwnRead
  <1>6. CASE AddFinalizer(p)
    <2>1. PICK ok \in BOOLEAN :
            IF ok /\ ~snap[p].paused
            THEN /\ Goto(p, "list")
                 /\ snap' = [snap EXCEPT ![p].fin = TRUE]
                 /\ UNCHANGED <<delayed, current, todo, at, seen, pending, failed>>
            ELSE IF ok THEN Done(p) ELSE Retry(p)
      BY <1>6 DEF AddFinalizer
    <2>2. snap' = [snap EXCEPT ![p].fin = TRUE] /\ UNCHANGED <<at, seen>>
      BY <1>2, <2>1
    <2>3. QED BY <2>2 DEF OwnRead, TypeOK, LocalsOK, Object
  <1>7. CASE UpdateConflict(p) \/ UpdateStatus(p) \/ ReportBlocked(p) \/ RemoveFinalizer(p)
    BY <1>2, <1>7 DEF UpdateConflict, UpdateStatus, ReportBlocked, RemoveFinalizer
  <1>8. CASE ListOffboarded(p) \/ BeginEntries(p) \/ ListOrphans(p)
    BY <1>8 DEF ListOffboarded, BeginEntries, ListOrphans, OwnRead
  <1>9. ASSUME NEW n \in NS, ReadOffboarded(p, n)
        PROVE  snap'[p].spec[at'[p]] = "offboard" => seen'[p].label = p
    <2>1. ManagedBy(p, n) /\ Reads(p, n)
      BY <1>4, <1>9 DEF ReadOffboarded
    <2>2. seen'[p] = nsCache[n]
      BY <2>1 DEF Reads, TypeOK, LocalsOK
    <2>3. QED BY <2>1, <2>2 DEF ManagedBy
  <1>10. ASSUME NEW n \in NS, ReadTenant(p, n)
         PROVE  snap'[p].spec[at'[p]] # "offboard"
    <2>1. Reads(p, n) /\ snap[p].spec[n] \in {"active", "override"}
      BY <1>4, <1>10 DEF ReadTenant
    <2>2. QED BY <2>1 DEF Reads, TypeOK, LocalsOK
  <1>11. ASSUME NEW n \in NS, \/ DeleteOffboarded(p, n) \/ WriteTenant(p, n)
                              \/ WriteTenantRefused(p, n) \/ JudgeEntry(p, n)
         PROVE  FALSE
    BY <1>3, <1>4, <1>11 DEF DeleteOffboarded, WriteTenant, WriteTenantRefused, JudgeEntry
  <1>12. QED
    BY <1>5, <1>6, <1>7, <1>8, <1>9, <1>10, <1>11 DEF Step

\* What its own pass holds, a step of another leaves alone.
OthersPass(q) ==
    /\ pc'[q] = pc[q] /\ snap'[q] = snap[q] /\ todo'[q] = todo[q]
    /\ at'[q] = at[q] /\ seen'[q] = seen[q] /\ pending'[q] = pending[q]

LEMMA PassesApart ==
    ASSUME TypeOK, NEW p \in PO, NEW q \in PO, p # q, Start(p) \/ Step(p) \/ CallFails(p)
    PROVE  OthersPass(q)
  <1>1. ASSUME Finish(p) PROVE OthersPass(q)
    BY <1>1 DEF Finish, OthersPass, TypeOK, LocalsOK
  <1>2. ASSUME Done(p) \/ Retry(p) PROVE OthersPass(q)
    BY <1>1, <1>2 DEF Done, Retry
  <1>3. ASSUME NEW n \in NS, EntryDone(p, n) PROVE OthersPass(q)
    BY <1>3 DEF EntryDone, Leaves, OthersPass, TypeOK, LocalsOK
  <1>4. ASSUME NEW n \in NS, EntryFails(p, n) PROVE OthersPass(q)
    BY <1>2, <1>4 DEF EntryFails, Leaves, OthersPass, TypeOK, LocalsOK
  <1>5. ASSUME NEW n \in NS, Reads(p, n) PROVE OthersPass(q)
    BY <1>5 DEF Reads, OthersPass, TypeOK, LocalsOK
  <1>6. CASE Start(p)
    BY <1>6 DEF Start, Goto, OthersPass, TypeOK, LocalsOK
  <1>7. CASE CallFails(p)
    BY <1>2, <1>4, <1>7 DEF CallFails, TypeOK, LocalsOK
  <1>8. CASE FinalizerPresent(p)
    BY <1>2, <1>8 DEF FinalizerPresent, AfterEnsure, Goto, OthersPass, TypeOK, LocalsOK
  <1>9. CASE AddFinalizer(p)
    <2>1. PICK ok \in BOOLEAN :
            IF ok /\ ~snap[p].paused
            THEN /\ Goto(p, "list")
                 /\ snap' = [snap EXCEPT ![p].fin = TRUE]
                 /\ UNCHANGED <<delayed, current, todo, at, seen, pending, failed>>
            ELSE IF ok THEN Done(p) ELSE Retry(p)
      BY <1>9 DEF AddFinalizer
    <2>2. QED BY <1>2, <2>1 DEF Goto, OthersPass, TypeOK, LocalsOK
  <1>10. CASE UpdateConflict(p) \/ UpdateStatus(p) \/ ReportBlocked(p) \/ RemoveFinalizer(p)
    BY <1>2, <1>10 DEF UpdateConflict, UpdateStatus, ReportBlocked, RemoveFinalizer
  <1>11. CASE ListOffboarded(p) \/ BeginEntries(p) \/ ListOrphans(p)
    BY <1>11 DEF ListOffboarded, BeginEntries, ListOrphans, Goto, OthersPass, TypeOK, LocalsOK
  <1>12. ASSUME NEW n \in NS, ReadOffboarded(p, n) \/ ReadTenant(p, n)
         PROVE  OthersPass(q)
    BY <1>3, <1>4, <1>5, <1>12 DEF ReadOffboarded, ReadTenant
  <1>13. ASSUME NEW n \in NS, DeleteOffboarded(p, n) \/ WriteTenant(p, n)
         PROVE  OthersPass(q)
    BY <1>3, <1>4, <1>13 DEF DeleteOffboarded, WriteTenant
  <1>14. ASSUME NEW n \in NS, WriteTenantRefused(p, n) PROVE OthersPass(q)
    BY <1>4, <1>14 DEF WriteTenantRefused
  <1>15. ASSUME NEW n \in NS, JudgeEntry(p, n) PROVE OthersPass(q)
    BY <1>15 DEF JudgeEntry, Leaves, OthersPass, TypeOK, LocalsOK
  <1>16. QED
    BY <1>6, <1>7, <1>8, <1>9, <1>10, <1>11, <1>12, <1>13, <1>14, <1>15 DEF Step

\* Whose pass moves.
LEMMA PassMoves ==
    ASSUME TypeOK, [Next]_vars, NEW q \in PO
    PROVE  OthersPass(q) \/ Start(q) \/ Step(q) \/ CallFails(q) \/ Restart
  <1>1. CASE Users
    BY <1>1 DEF Users, CreateObject, EditSpec, TogglePause, DeleteObject,
       UserCreatesNamespace, UserDeletesNamespace, OthersPass, pass
  <1>2. CASE Cluster
    BY <1>2 DEF Cluster, SyncObject, TimerFires, Resync, SyncNamespace, NamespaceTerminated,
       GarbageCollect, OthersPass, pass
  <1>3. CASE UNCHANGED vars
    BY <1>3 DEF vars, pass, OthersPass
  <1>4. QED BY <1>1, <1>2, <1>3, PassesApart DEF Next

\* A pass that is about to delete a namespace has read it as its own PO's.
ReadAsOwn(q) ==
    at[q] # None /\ snap[q].spec[at[q]] = "offboard" => seen[q].label = q

LEMMA OrdersHold == Spec => [](\A q \in PO : ReadAsOwn(q))
  <1>1. Init => \A q \in PO : ReadAsOwn(q)
    BY DEF Init, ReadAsOwn
  <1>2. ASSUME TypeOK, \A q \in PO : ReadAsOwn(q), [Next]_vars, NEW q \in PO
        PROVE  ReadAsOwn(q)'
    <2>1. ASSUME OwnRead(q) PROVE ReadAsOwn(q)'
      BY <1>2, <2>1 DEF OwnRead, ReadAsOwn
    <2>2. CASE OthersPass(q)
      BY <2>1, <2>2 DEF OthersPass, OwnRead
    <2>3. CASE Start(q)
      BY <1>2, <2>3 DEF Start, ReadAsOwn, TypeOK, PassOK
    <2>4. CASE Step(q)
      BY <1>2, <2>1, <2>4, StepReads DEF ReadAsOwn
    <2>5. CASE CallFails(q)
      <3>1. Retry(q) \/ \E n \in NS : EntryFails(q, n)
        BY <1>2, <2>5 DEF CallFails, TypeOK, LocalsOK
      <3>2. at'[q] = None
        BY <1>2, <3>1 DEF Retry, Finish, EntryFails, Leaves, TypeOK, LocalsOK
      <3>3. QED BY <3>2 DEF ReadAsOwn
    <2>6. CASE Restart
      BY <2>6 DEF Restart, ReadAsOwn
    <2>7. QED BY <1>2, <2>2, <2>3, <2>4, <2>5, <2>6, PassMoves
  <1>3. TypeOK /\ (\A q \in PO : ReadAsOwn(q)) /\ [Next]_vars => (\A q \in PO : ReadAsOwn(q))'
    BY <1>2
  <1>4. QED BY <1>1, <1>3, TypeCorrect, PTL DEF Spec

\* A running tenant goes down at a user's hands, because it was offboarded, because
\* its PO is gone, or on the order of a PO that had read it as its own.
THEOREM TornDownOnOrder == Spec => TornDownOnlyOnOrder
  <1>1. ASSUME TypeOK, \A q \in PO : ReadAsOwn(q), [Next]_vars,
               NEW n \in NS, NEW p \in PO, GoesDown(p, n)
        PROVE  \/ Offboarded(p, n) \/ UserDeletesNamespace(n)
               \/ po[p].state = "gone"
               \/ \E q \in PO : Offboarded(q, n) /\ at[q] = n /\ seen[q].label = q
    <2>0. ns[n].phase = "active" /\ ns'[n].phase = "terminating" /\ ns[n].owner = p
      BY <1>1 DEF GoesDown, Tenant
    <2>1. ASSUME NEW m \in NS, UserCreatesNamespace(m) \/ NamespaceTerminated(m) PROVE FALSE
      <3>1. PICK rec : WriteNamespace(m, rec) /\ rec.phase # "terminating"
        BY <2>1 DEF UserCreatesNamespace, NamespaceTerminated, NoNamespace
      <3>2. QED BY <1>1, <2>0, <3>1, WriteOne DEF TypeOK, ServerOK
    <2>2. ASSUME NEW m \in NS, DeleteNamespaceCall(m) PROVE m = n
      BY <1>1, <2>0, <2>2, DeleteMarks
    <2>3. ASSUME NEW m \in NS, GarbageCollect(m) PROVE po[p].state = "gone"
      BY <2>0, <2>2, <2>3 DEF GarbageCollect
    <2>4. ASSUME NEW m \in NS, UserDeletesNamespace(m) PROVE UserDeletesNamespace(n)
      BY <2>2, <2>4 DEF UserDeletesNamespace
    <2>5. ASSUME NEW q \in PO, NEW m \in NS, DeleteOffboarded(q, m)
          PROVE  Offboarded(q, n) /\ at[q] = n /\ seen[q].label = q
      BY <1>1, <2>2, <2>5, ConstantsAssumption DEF DeleteOffboarded, Offboarded, ReadAsOwn
    <2>6. ASSUME NEW q \in PO, NEW m \in NS, WriteTenant(q, m) PROVE FALSE
      BY <1>1, <2>0, <2>6, TenantWritten
    <2>7. QED BY <1>1, <2>0, <2>1, <2>3, <2>4, <2>5, <2>6, NamespaceWriters
  <1>2. TypeOK /\ (\A q \in PO : ReadAsOwn(q)) /\ [Next]_vars =>
          [\A n \in NS, p \in PO : GoesDown(p, n) =>
             \/ Offboarded(p, n) \/ UserDeletesNamespace(n)
             \/ po[p].state = "gone"
             \/ \E q \in PO : Offboarded(q, n) /\ at[q] = n /\ seen[q].label = q]_vars
    BY <1>1
  <1>3. QED
    BY <1>2, OrdersHold, TypeCorrect, PTL DEF Spec, TornDownOnlyOnOrder

-----------------------------------------------------------------------------
(***************************************************************************)
(* Who takes a namespace from another PO.                                  *)
(***************************************************************************)

\* The read of an entry to provision refuses a namespace that another PO controls.
LEMMA StepReadsFree ==
    ASSUME TypeOK, NEW p \in PO, Step(p), at'[p] # None
    PROVE  \/ OwnRead(p)
           \/ (snap'[p].spec[at'[p]] # "offboard" => seen'[p].owner \in {p, None})
  <1>1. ASSUME NEW n \in NS, Leaves(p, n) PROVE FALSE
    BY <1>1 DEF Leaves, TypeOK, LocalsOK
  <1>2. ~Finish(p) /\ ~Done(p) /\ ~Retry(p)
    BY DEF Done, Retry, Finish, TypeOK, LocalsOK
  <1>3. ASSUME NEW n \in NS, EntryDone(p, n) \/ EntryFails(p, n) PROVE FALSE
    BY <1>1, <1>2, <1>3 DEF EntryDone, EntryFails
  <1>4. CASE FinalizerPresent(p)
    BY <1>2, <1>4 DEF FinalizerPresent, AfterEnsure, OwnRead
  <1>5. CASE AddFinalizer(p)
    <2>1. PICK ok \in BOOLEAN :
            IF ok /\ ~snap[p].paused
            THEN /\ Goto(p, "list")
                 /\ snap' = [snap EXCEPT ![p].fin = TRUE]
                 /\ UNCHANGED <<delayed, current, todo, at, seen, pending, failed>>
            ELSE IF ok THEN Done(p) ELSE Retry(p)
      BY <1>5 DEF AddFinalizer
    <2>2. snap' = [snap EXCEPT ![p].fin = TRUE] /\ UNCHANGED <<at, seen>>
      BY <1>2, <2>1
    <2>3. QED BY <2>2 DEF OwnRead, TypeOK, LocalsOK, Object
  <1>6. CASE UpdateConflict(p) \/ UpdateStatus(p) \/ ReportBlocked(p) \/ RemoveFinalizer(p)
    BY <1>2, <1>6 DEF UpdateConflict, UpdateStatus, ReportBlocked, RemoveFinalizer
  <1>7. CASE ListOffboarded(p) \/ BeginEntries(p) \/ ListOrphans(p)
    BY <1>7 DEF ListOffboarded, BeginEntries, ListOrphans, OwnRead
  <1>8. ASSUME NEW n \in NS, ReadOffboarded(p, n) PROVE snap'[p].spec[at'[p]] = "offboard"
    <2>1. Reads(p, n) /\ snap[p].spec[n] = "offboard"
      BY <1>3, <1>8 DEF ReadOffboarded
    <2>2. QED BY <2>1 DEF Reads, TypeOK, LocalsOK
  <1>9. ASSUME NEW n \in NS, ReadTenant(p, n) PROVE seen'[p].owner \in {p, None}
    <2>1. Reads(p, n) /\ nsCache[n].owner \notin PO \ {p}
      BY <1>3, <1>9 DEF ReadTenant
    <2>2. seen'[p] = nsCache[n]
      BY <2>1 DEF Reads, TypeOK, LocalsOK
    <2>3. QED BY <2>1, <2>2 DEF TypeOK, CachesOK, Namespace
  <1>10. ASSUME NEW n \in NS, \/ DeleteOffboarded(p, n) \/ WriteTenant(p, n)
                              \/ WriteTenantRefused(p, n) \/ JudgeEntry(p, n)
         PROVE  FALSE
    BY <1>1, <1>3, <1>10 DEF DeleteOffboarded, WriteTenant, WriteTenantRefused, JudgeEntry
  <1>11. QED
    BY <1>4, <1>5, <1>6, <1>7, <1>8, <1>9, <1>10 DEF Step

\* A pass that is about to provision a namespace has read it with no owner or its own,
\* and what does not exist has none.
ReadAsFree(q) ==
    at[q] # None /\ snap[q].spec[at[q]] # "offboard" => seen[q].owner \in {q, None}

AbsentIsFree == \A n \in NS : ns[n].phase = "absent" => ns[n].owner = None

FreeInv == AbsentIsFree /\ \A q \in PO : ReadAsFree(q)

LEMMA AbsentStaysFree ==
    ASSUME TypeOK, AbsentIsFree, [Next]_vars, NEW n \in NS, ns'[n].phase = "absent"
    PROVE  ns'[n].owner = None
  <1>1. ASSUME ns'[n] = ns[n] PROVE ns'[n].owner = None
    BY <1>1 DEF AbsentIsFree
  <1>2. ASSUME NEW m \in NS, UserCreatesNamespace(m) \/ NamespaceTerminated(m)
        PROVE  ns'[n].owner = None
    <2>1. PICK rec : WriteNamespace(m, rec) /\ rec.owner = None
      BY <1>2 DEF UserCreatesNamespace, NamespaceTerminated, NoNamespace
    <2>2. QED BY <1>1, <2>1, WriteOne DEF TypeOK, ServerOK
  <1>3. ASSUME NEW m \in NS, DeleteNamespaceCall(m) PROVE ns'[n].owner = None
    <2>1. CASE ns[m].phase = "active"
      <3>1. WriteNamespace(m, [ns[m] EXCEPT !.phase = "terminating"])
        BY <1>3, <2>1 DEF DeleteNamespaceCall
      <3>2. [ns[m] EXCEPT !.phase = "terminating"].phase = "terminating"
        BY DEF TypeOK, ServerOK, Namespace
      <3>3. QED BY <1>1, <3>1, <3>2, WriteOne DEF TypeOK, ServerOK
    <2>2. CASE ns[m].phase # "active"
      BY <1>1, <1>3, <2>2 DEF DeleteNamespaceCall, NamespaceUntouched
    <2>3. QED BY <2>1, <2>2
  <1>4. ASSUME NEW q \in PO, NEW m \in NS, WriteTenant(q, m) PROVE ns'[n].owner = None
    BY <1>1, <1>4, TenantWritten
  <1>5. QED
    BY <1>1, <1>2, <1>3, <1>4, NamespaceWriters
       DEF UserDeletesNamespace, GarbageCollect, DeleteOffboarded

LEMMA FreeHolds == Spec => []FreeInv
  <1>1. Init => FreeInv
    BY DEF Init, FreeInv, AbsentIsFree, ReadAsFree, NoNamespace
  <1>2. ASSUME TypeOK, FreeInv, [Next]_vars, NEW q \in PO PROVE ReadAsFree(q)'
    <2>1. ASSUME OwnRead(q) PROVE ReadAsFree(q)'
      BY <1>2, <2>1 DEF OwnRead, FreeInv, ReadAsFree
    <2>2. CASE OthersPass(q)
      BY <2>1, <2>2 DEF OthersPass, OwnRead
    <2>3. CASE Start(q)
      BY <1>2, <2>3 DEF Start, ReadAsFree, TypeOK, PassOK
    <2>4. CASE Step(q)
      BY <1>2, <2>1, <2>4, StepReadsFree DEF ReadAsFree
    <2>5. CASE CallFails(q)
      <3>1. Retry(q) \/ \E n \in NS : EntryFails(q, n)
        BY <1>2, <2>5 DEF CallFails, TypeOK, LocalsOK
      <3>2. at'[q] = None
        BY <1>2, <3>1 DEF Retry, Finish, EntryFails, Leaves, TypeOK, LocalsOK
      <3>3. QED BY <3>2 DEF ReadAsFree
    <2>6. CASE Restart
      BY <2>6 DEF Restart, ReadAsFree
    <2>7. QED BY <1>2, <2>2, <2>3, <2>4, <2>5, <2>6, PassMoves
  <1>3. TypeOK /\ FreeInv /\ [Next]_vars => FreeInv'
    BY <1>2, AbsentStaysFree DEF FreeInv, AbsentIsFree
  <1>4. QED BY <1>1, <1>3, TypeCorrect, PTL DEF Spec

\* A namespace changes hands only in a race: who takes it from another PO had read it
\* when nobody controlled it.
THEOREM TakenOverInARace == Spec => TakenOverOnlyUnseen
  <1>1. ASSUME TypeOK, FreeInv, [Next]_vars, NEW n \in NS, NEW p \in PO, NEW q \in PO,
               p # q, ns[n].owner = p, ns'[n].owner = q
        PROVE  at[q] = n /\ seen[q].phase # "absent" /\ seen[q].owner = None
    <2>1. ns[n].phase # "absent"
      BY <1>1, ConstantsAssumption DEF FreeInv, AbsentIsFree
    <2>2. ASSUME NEW m \in NS, UserCreatesNamespace(m) \/ NamespaceTerminated(m) PROVE FALSE
      <3>1. PICK rec : WriteNamespace(m, rec) /\ rec.owner = None
        BY <2>2 DEF UserCreatesNamespace, NamespaceTerminated, NoNamespace
      <3>2. QED BY <1>1, <3>1, WriteOne, ConstantsAssumption DEF TypeOK, ServerOK
    <2>3. ASSUME NEW m \in NS, DeleteNamespaceCall(m) PROVE FALSE
      BY <1>1, <2>3, DeleteMarks
    <2>4. ASSUME NEW r \in PO, NEW m \in NS, WriteTenant(r, m)
          PROVE  at[q] = n /\ seen[q].phase # "absent" /\ seen[q].owner = None
      <3>1. m = n /\ r = q
        BY <1>1, <2>4, TenantWritten
      <3>2. /\ at[q] = n /\ seen[q].phase # "absent"
            /\ snap[q].spec[n] # "offboard"
            /\ WriteNamespace(n, Patched(q, n))
        BY <2>1, <2>4, <3>1 DEF WriteTenant
      <3>3. seen[q].owner \in {q, None}
        BY <1>1, <3>2, ConstantsAssumption DEF FreeInv, ReadAsFree
      <3>4. seen[q].owner # q
        <4>1. ns'[n] = Patched(q, n)
          BY <1>1, <3>2, WriteOne
        <4>2. seen[q].owner = q => Patched(q, n).owner = ns[n].owner
          BY <1>1 DEF Patched, TypeOK, ServerOK, Namespace
        <4>3. QED BY <1>1, <4>1, <4>2
      <3>5. QED BY <3>2, <3>3, <3>4
    <2>5. QED
      BY <1>1, <2>2, <2>3, <2>4, NamespaceWriters
         DEF UserDeletesNamespace, GarbageCollect, DeleteOffboarded
  <1>2. TypeOK /\ FreeInv /\ [Next]_vars =>
          [\A n \in NS : \A p, q \in PO :
             p # q /\ ns[n].owner = p /\ ns'[n].owner = q =>
                 at[q] = n /\ seen[q].phase # "absent" /\ seen[q].owner = None]_vars
    BY <1>1
  <1>3. QED
    BY <1>2, FreeHolds, TypeCorrect, PTL DEF Spec, TakenOverOnlyUnseen

-----------------------------------------------------------------------------
(***************************************************************************)
(* What a deletion has noticed it does not lose.                           *)
(***************************************************************************)

\* A running tenant is what its PO made it, nothing less and nothing more.
LEMMA TenantIs ==
    ASSUME TypeOK, HandsInv, NEW p \in PO, NEW n \in NS, Tenant(p, n)
    PROVE  ns[n] = [phase |-> "active", label |-> p, owner |-> p]
  BY DEF TypeOK, ServerOK, Namespace, HandsInv, RecordsInHand, InOneHand, Tenant

\* A noticed tenant is before the finalizing pass, on its pending list, or to be
\* found among the orphans.
InView(p, n) ==
    /\ pc[p] = "finalize" => n \in todo[p] \cup pending[p] \/ snap[p].spec[n] = "none"
    /\ pc[p] = "settle" => n \in pending[p]

\* The steps of a pass keep it in view as long as it runs.
LEMMA StepKeepsView ==
    ASSUME TypeOK, NEW p \in PO, NEW n \in NS, ManagedNamespaceExists(p, n),
           InView(p, n), ns'[n].phase = "active", Step(p)
    PROVE  InView(p, n)'
  <1>0. ManagedBy(p, n)
    BY DEF ManagedNamespaceExists
  <1>1. ASSUME Done(p) \/ Retry(p) PROVE InView(p, n)'
    BY <1>1 DEF Done, Retry, Finish, TypeOK, LocalsOK, InView
  <1>2. ASSUME pc'[p] \in Provisioning \cup {"ensure"} PROVE InView(p, n)'
    BY <1>2 DEF Provisioning, InView
  <1>3. ASSUME pc[p] = "entries", UNCHANGED pc PROVE InView(p, n)'
    BY <1>2, <1>3 DEF Provisioning
  <1>4. CASE FinalizerPresent(p)
    BY <1>1, <1>2, <1>4 DEF FinalizerPresent, AfterEnsure, Goto, Provisioning, TypeOK, LocalsOK
  <1>5. CASE AddFinalizer(p)
    <2>1. PICK ok \in BOOLEAN :
            IF ok /\ ~snap[p].paused
            THEN /\ Goto(p, "list")
                 /\ snap' = [snap EXCEPT ![p].fin = TRUE]
                 /\ UNCHANGED <<delayed, current, todo, at, seen, pending, failed>>
            ELSE IF ok THEN Done(p) ELSE Retry(p)
      BY <1>5 DEF AddFinalizer
    <2>2. QED BY <1>1, <1>2, <2>1 DEF Goto, Provisioning, TypeOK, LocalsOK
  <1>6. CASE UpdateConflict(p) \/ UpdateStatus(p) \/ ReportBlocked(p) \/ RemoveFinalizer(p)
    BY <1>1, <1>6 DEF UpdateConflict, UpdateStatus, ReportBlocked, RemoveFinalizer
  <1>7. CASE ListOffboarded(p) \/ BeginEntries(p)
    BY <1>2, <1>7 DEF ListOffboarded, BeginEntries, Goto, Provisioning, TypeOK, LocalsOK
  <1>8. ASSUME NEW m \in NS, EntryDone(p, m), m # n PROVE InView(p, n)'
    BY <1>8 DEF EntryDone, Leaves, InView, TypeOK, LocalsOK
  <1>9. ASSUME NEW m \in NS, EntryFails(p, m) PROVE InView(p, n)'
    BY <1>1, <1>3, <1>9 DEF EntryFails
  <1>10. ASSUME NEW m \in NS, ReadOffboarded(p, m) PROVE InView(p, n)'
    <2>1. CASE Reads(p, m)
      BY <2>1 DEF Reads, InView, TypeOK, LocalsOK
    <2>2. CASE EntryDone(p, m) /\ m # n
      BY <1>8, <2>2
    <2>3. QED BY <1>0, <1>10, <2>1, <2>2 DEF ReadOffboarded
  <1>11. ASSUME NEW m \in NS, DeleteOffboarded(p, m) PROVE InView(p, n)'
    <2>1. m # n
      BY <1>11, DeleteMarks DEF DeleteOffboarded
    <2>2. QED BY <1>8, <1>9, <1>11, <2>1 DEF DeleteOffboarded
  <1>12. ASSUME NEW m \in NS, ReadTenant(p, m) PROVE InView(p, n)'
    BY <1>3, <1>9, <1>12 DEF ReadTenant, Reads
  <1>13. ASSUME NEW m \in NS, WriteTenant(p, m) \/ WriteTenantRefused(p, m)
         PROVE  InView(p, n)'
    <2>1. pc[p] = "entries"
      BY <1>13, ConstantsAssumption DEF WriteTenant, WriteTenantRefused, TypeOK, PassOK
    <2>2. EntryDone(p, m) \/ EntryFails(p, m)
      BY <1>13 DEF WriteTenant, WriteTenantRefused
    <2>3. QED BY <1>3, <1>9, <2>1, <2>2 DEF EntryDone
  <1>14. ASSUME NEW m \in NS, JudgeEntry(p, m) PROVE InView(p, n)'
    <2>1. /\ pc[p] = "finalize" /\ UNCHANGED <<pc, snap>>
          /\ todo'[p] = todo[p] \ {m}
          /\ pending[p] \subseteq pending'[p]
          /\ m = n => n \in pending'[p]
      BY <1>0, <1>14 DEF JudgeEntry, Leaves, TypeOK, LocalsOK
    <2>2. QED BY <2>1 DEF InView
  <1>15. CASE ListOrphans(p)
    <2>1. /\ pc[p] = "finalize" /\ pc'[p] = "settle" /\ todo[p] = {}
          /\ pending'[p] = pending[p] \cup Orphans(p)
      BY <1>15 DEF ListOrphans, Goto, TypeOK, LocalsOK
    <2>2. snap[p].spec[n] = "none" => n \in Orphans(p)
      BY DEF Orphans
    <2>3. QED BY <2>1, <2>2 DEF InView
  <1>16. QED
    BY <1>4, <1>5, <1>6, <1>7, <1>10, <1>11, <1>12, <1>13, <1>14, <1>15 DEF Step

\* So does every step.
LEMMA NextKeepsView ==
    ASSUME TypeOK, NEW p \in PO, NEW n \in NS, ManagedNamespaceExists(p, n),
           InView(p, n), ns'[n].phase = "active", [Next]_vars
    PROVE  InView(p, n)'
  <1>1. CASE OthersPass(p)
    BY <1>1 DEF OthersPass, InView
  <1>2. CASE Start(p)
    <2>1. pc[p] = "idle" /\ UNCHANGED pending
      BY <1>2 DEF Start
    <2>2. CASE pc'[p] = "finalize"
      <3>1. todo'[p] = {m \in NS : poCache[p].spec[m] # "none"} /\ snap'[p] = poCache[p]
        BY <1>2, <2>1, <2>2 DEF Start, Goto, TypeOK, LocalsOK
      <3>2. QED BY <2>2, <3>1 DEF InView
    <2>3. CASE pc'[p] \in {"idle", "ensure"}
      BY <2>3 DEF InView
    <2>4. QED BY <1>2, <2>1, <2>2, <2>3 DEF Start, Goto, TypeOK, LocalsOK
  <1>3. CASE CallFails(p)
    <2>1. Retry(p) \/ \E m \in NS : pc[p] = "entries" /\ EntryFails(p, m)
      BY <1>3 DEF CallFails, TypeOK, LocalsOK
    <2>2. QED
      BY <2>1 DEF Retry, Finish, EntryFails, InView, TypeOK, LocalsOK
  <1>4. CASE Restart
    BY <1>4 DEF Restart, InView
  <1>5. QED BY <1>1, <1>2, <1>3, <1>4, PassMoves, StepKeepsView

\* A noticed tenant stays noticed, as long as it runs and the finalizer is there.
LEMMA NoticedStays ==
    ASSUME Grounds, Grounds', [Next]_vars, NEW p \in PO, NEW n \in NS,
           Noticed(p, n), Tenant(p, n)', po'[p].fin
    PROVE  Noticed(p, n)'
  <1>1. ns[n] = [phase |-> "active", label |-> p, owner |-> p]
    BY TenantIs DEF Grounds, Noticed
  <1>2. ns'[n] = ns[n]
    <2>1. ns'[n] = [phase |-> "active", label |-> p, owner |-> p]
      BY DEF Grounds, TypeOK, ServerOK, Namespace, HandsInv, RecordsInHand, InOneHand, Tenant
    <2>2. QED BY <1>1, <2>1
  <1>3. nsCache[n] = ns[n]
    BY DEF Noticed
  <1>4. nsCache'[n] = ns'[n]
    BY <1>2, <1>3, CacheFollows DEF Grounds
  <1>5. poCache'[p].state = "deleting"
    <2>1. po[p].fin /\ poCache[p].state = "deleting"
      BY DEF Noticed
    <2>2. po[p].state = "deleting"
      BY <2>1 DEF Grounds, FinalizerNotForgotten, FinalizerKnown
    <2>3. QED BY <2>1, <2>2, CopyFollows DEF Grounds
  <1>6. ManagedNamespaceExists(p, n)
    BY <1>1, <1>3 DEF ManagedNamespaceExists, ManagedBy
  <1>7. InView(p, n)
    BY DEF Noticed, InView
  <1>8. InView(p, n)'
    BY <1>1, <1>2, <1>6, <1>7, NextKeepsView DEF Grounds
  <1>9. QED BY <1>4, <1>5, <1>8 DEF Noticed, InView

\* Only a pass with nothing pending gives up the finalizer.
LEMMA FinalizerGoes ==
    ASSUME Grounds, [Next]_vars, NEW p \in PO, po[p].fin, ~po'[p].fin
    PROVE  /\ RemoveFinalizer(p) /\ UNCHANGED ns
           /\ \A n \in NS : ~Noticed(p, n)
  <1>1. PICK q \in PO : AddFinalizer(q) \/ RemoveFinalizer(q)
    BY FinalizerWriters DEF Grounds
  <1>2. po \in [PO -> Object]
    BY DEF Grounds, TypeOK, ServerOK
  <1>3. ~AddFinalizer(q)
    BY <1>2 DEF AddFinalizer, Object
  <1>4. q = p
    BY <1>1, <1>2, <1>3 DEF RemoveFinalizer, Object
  <1>5. QED BY <1>1, <1>3, <1>4 DEF RemoveFinalizer, Noticed

\* Before a PO is known to be deleted its tenants may be noticed; from then on
\* every tenant it still has is.
Settled(p, n) ==
    /\ poCache[p].state \in {"deleting", "gone"}
    /\ pc[p] \in {"idle", "finalize", "settle"}
    /\ Tenant(p, n) => Noticed(p, n)

\* A PO that is known to be deleted is not provisioned any more.
LEMMA NoWayBack ==
    ASSUME TypeOK, NEW p \in PO, poCache[p].state \in {"deleting", "gone"},
           pc[p] \in {"idle", "finalize", "settle"}, [Next]_vars
    PROVE  pc'[p] \in {"idle", "finalize", "settle"}
  <1>1. ASSUME Done(p) \/ Retry(p) PROVE pc'[p] = "idle"
    BY <1>1 DEF Done, Retry, Finish, TypeOK, LocalsOK
  <1>2. ASSUME NEW n \in NS, EntryDone(p, n) \/ EntryFails(p, n) \/ Reads(p, n)
        PROVE  pc'[p] \in {pc[p], "idle"}
    BY <1>1, <1>2 DEF EntryDone, EntryFails, Reads
  <1>3. CASE OthersPass(p)
    BY <1>3 DEF OthersPass
  <1>4. CASE Start(p)
    BY <1>4 DEF Start, Goto, TypeOK, LocalsOK
  <1>5. CASE CallFails(p)
    BY <1>1, <1>2, <1>5 DEF CallFails, TypeOK, LocalsOK
  <1>6. CASE Restart
    BY <1>6 DEF Restart
  <1>7. CASE Step(p)
    <2>1. ASSUME NEW n \in NS, WriteTenant(p, n) \/ WriteTenantRefused(p, n) PROVE FALSE
      BY <2>1, ConstantsAssumption DEF WriteTenant, WriteTenantRefused, TypeOK, PassOK
    <2>2. ASSUME NEW n \in NS, ReadOffboarded(p, n) \/ DeleteOffboarded(p, n) \/ ReadTenant(p, n)
          PROVE  pc'[p] \in {pc[p], "idle"}
      BY <1>2, <2>2 DEF ReadOffboarded, DeleteOffboarded, ReadTenant
    <2>3. QED
      BY <1>1, <1>7, <2>1, <2>2 DEF Step, FinalizerPresent, AddFinalizer, UpdateConflict,
         ListOffboarded, BeginEntries, UpdateStatus, JudgeEntry, ListOrphans, ReportBlocked,
         RemoveFinalizer, Goto, TypeOK, LocalsOK
  <1>8. QED BY <1>3, <1>4, <1>5, <1>6, <1>7, PassMoves

LEMMA SettledStays ==
    ASSUME Grounds, Grounds', [Next]_vars, NEW p \in PO, NEW n \in NS, Settled(p, n)
    PROVE  Settled(p, n)'
  <1>1. poCache'[p].state \in {"deleting", "gone"}
    BY CopyFollows DEF Grounds, FinalizerNotForgotten, FinalizerKnown, Settled
  <1>2. pc'[p] \in {"idle", "finalize", "settle"}
    BY NoWayBack DEF Grounds, Settled
  <1>3. ASSUME Tenant(p, n)' PROVE Noticed(p, n)'
    <2>1. Tenant(p, n)
      BY <1>3, TenantMade DEF Grounds, Settled
    <2>2. Noticed(p, n) /\ po[p].fin
      BY <2>1 DEF Settled, Noticed
    <2>3. po'[p].fin
      BY <2>2, FinalizerGoes
    <2>4. QED BY <1>3, <2>2, <2>3, NoticedStays
  <1>4. QED BY <1>1, <1>2, <1>3 DEF Settled

\* Of a tenant that the informer shows as it is before the finalizing passes of its
\* PO begin, no such pass loses sight: the PO does not go while it runs.
THEOREM KnownTenantsAreReleased == PlainLabels => (Spec => KnownMeansReleased)
  <1> SUFFICES ASSUME PlainLabels, NEW p \in PO, NEW n \in NS
               PROVE  Spec => [](Known(p, n) => [](po[p].state = "gone" => ~Tenant(p, n)))
    BY DEF KnownMeansReleased
  <1>1. Known(p, n) => Settled(p, n)
    BY DEF Known, Settled, Noticed
  <1>2. Grounds /\ Grounds' /\ [Next]_vars /\ Settled(p, n) => Settled(p, n)'
    BY SettledStays
  <1>3. Grounds /\ Settled(p, n) => (po[p].state = "gone" => ~Tenant(p, n))
    BY DEF Settled, Noticed, Grounds, FinalizerNotForgotten, FinalizerKnown
  <1>4. QED BY <1>1, <1>2, <1>3, GroundsHold, PTL DEF Spec

-----------------------------------------------------------------------------
(***************************************************************************)
(* The lifecycle implements TenantCustody.                                 *)
(***************************************************************************)

\* Whose custody a namespace is in.
LEMMA CustodyOf ==
    ASSUME TypeOK, NEW n \in NS
    PROVE  /\ Custodian[n] \in PO \cup {None}
           /\ \A p \in PO : Custodian[n] = p <=> Tenant(p, n)
  BY ConstantsAssumption DEF Custodian, Tenant, TypeOK, ServerOK, Namespace

\* What is noticed is in custody under open books, and stays noticed while it is.
LEMMA NoticeMaps ==
    ASSUME Grounds, Grounds', [Next]_vars
    PROVE  Custody!Notice
  <1>1. ASSUME NEW w \in PO \X NS
        PROVE  /\ w \in Custody!Kept <=> Tenant(w[1], w[2])' /\ po'[w[1]].fin
               /\ w \in AllNoticed <=> Noticed(w[1], w[2])
               /\ w \in AllNoticed' <=> Noticed(w[1], w[2])'
    <2>1. w[1] \in PO /\ w[2] \in NS
      OBVIOUS
    <2>2. Custodian'[w[2]] = w[1] <=> Tenant(w[1], w[2])'
      BY <2>1, ConstantsAssumption DEF Grounds, Custodian, Tenant, TypeOK, ServerOK, Namespace
    <2>3. OpenBooks'[w[1]] <=> po'[w[1]].fin
      BY <2>1 DEF OpenBooks
    <2>4. QED BY <2>2, <2>3 DEF Custody!Kept, AllNoticed
  <1>2. AllNoticed' \subseteq Custody!Kept
    BY <1>1 DEF AllNoticed, Noticed
  <1>3. AllNoticed \cap Custody!Kept \subseteq AllNoticed'
    <2> SUFFICES ASSUME NEW w \in PO \X NS, Noticed(w[1], w[2]), Tenant(w[1], w[2])', po'[w[1]].fin
                 PROVE  Noticed(w[1], w[2])'
      BY <1>1 DEF AllNoticed
    <2>1. w[1] \in PO /\ w[2] \in NS
      OBVIOUS
    <2>2. QED BY <2>1, NoticedStays
  <1>4. QED BY <1>2, <1>3 DEF Custody!Notice

\* The writes of finalizers open and close the books.
LEMMA FinalizerMaps ==
    ASSUME Grounds, Grounds', [Next]_vars, NEW p \in PO, AddFinalizer(p) \/ RemoveFinalizer(p)
    PROVE  Custody!Next
  <1>0. po \in [PO -> Object] /\ UNCHANGED ns
    BY DEF Grounds, TypeOK, ServerOK, AddFinalizer, RemoveFinalizer
  <1>1. Custodian' = Custodian
    BY <1>0 DEF Custodian
  <1>2. CASE AddFinalizer(p)
    <2>1. po' = [po EXCEPT ![p].fin = TRUE]
      BY <1>2 DEF AddFinalizer
    <2>2. OpenBooks' = [OpenBooks EXCEPT ![p] = TRUE]
      BY <1>0, <2>1 DEF OpenBooks, Object
    <2>3. CASE OpenBooks[p]
      <3>1. OpenBooks[p] = TRUE
        BY <1>0, <2>3 DEF OpenBooks, Object
      <3>2. OpenBooks' = OpenBooks
        BY <2>2, <3>1 DEF OpenBooks
      <3>3. QED BY <1>1, <3>2, NoticeMaps DEF Custody!Next
    <2>4. CASE ~OpenBooks[p]
      BY <1>1, <2>2, <2>4, NoticeMaps DEF Custody!Next, Custody!Open
    <2>5. QED BY <2>3, <2>4
  <1>3. CASE RemoveFinalizer(p)
    <2>1. po' = [po EXCEPT ![p].fin = FALSE, ![p].state = "gone"] /\ current[p]
          /\ pc[p] = "settle" /\ pending[p] = {}
      BY <1>3 DEF RemoveFinalizer
    <2>2. OpenBooks' = [OpenBooks EXCEPT ![p] = FALSE]
      BY <1>0, <2>1 DEF OpenBooks, Object
    <2>3. \A n \in NS : ~Noticed(p, n)
      BY <2>1 DEF Noticed
    <2>4. \A n \in NS : <<p, n>> \notin AllNoticed
      BY <2>3 DEF AllNoticed
    <2>5. po[p].fin
      <3>1. snap[p] = po[p] /\ snap[p].state = "deleting"
        BY <2>1 DEF Grounds, FinalizerNotForgotten, FinalizerKnown, TypeOK, PassOK, Finalizing
      <3>2. QED BY <3>1 DEF Grounds, FinalizerNotForgotten, FinalizerKnown
    <2>6. OpenBooks[p]
      BY <2>5 DEF OpenBooks
    <2>7. QED BY <1>1, <2>2, <2>4, <2>6, NoticeMaps DEF Custody!Next, Custody!Close
  <1>4. QED BY <1>2, <1>3

\* A step that leaves the finalizers alone takes a namespace, releases one, or does
\* neither.
LEMMA NamespaceMaps ==
    ASSUME Grounds, Grounds', [Next]_vars, \A q \in PO : po'[q].fin = po[q].fin
    PROVE  Custody!Next
  <1>1. OpenBooks' = OpenBooks
    BY DEF OpenBooks
  <1>2. CASE Custodian' = Custodian
    BY <1>1, <1>2, NoticeMaps DEF Custody!Next
  <1>3. CASE Custodian' # Custodian
    <2>1. ~UNCHANGED ns
      BY <1>3 DEF Custodian
    <2>2. PICK n \in NS : \A m \in NS \ {n} : ns'[m] = ns[m]
      BY <2>1, OneNamespace DEF Grounds
    <2>3. Custodian' = [Custodian EXCEPT ![n] = Custodian'[n]]
      BY <2>2 DEF Custodian
    <2>4. CASE Custodian'[n] = None
      BY <1>1, <2>3, <2>4, NoticeMaps DEF Custody!Next, Custody!Release
    <2>5. CASE Custodian'[n] # None
      <3>1. PICK p \in PO : Custodian'[n] = p
        BY <2>5 DEF Grounds, TypeOK, ServerOK, Namespace, Custodian
      <3>2. Tenant(p, n)' /\ ~Tenant(p, n)
        <4>1. Custodian[n] # p
          BY <1>3, <2>3, <3>1 DEF Custodian
        <4>2. Tenant(p, n)'
          BY <3>1, ConstantsAssumption DEF Custodian, Tenant
        <4>3. QED BY <4>1, <4>2, CustodyOf DEF Grounds
      <3>3. pc[p] = "entries"
        BY <3>2, TenantMade DEF Grounds
      <3>4. OpenBooks[p]
        BY <3>3 DEF Grounds, FinalizerNotForgotten, FinalizerKnown, Provisioning, OpenBooks
      <3>5. Custody!Take(p, n)
        BY <1>1, <2>3, <3>1, <3>4 DEF Custody!Take
      <3>6. QED BY <3>5, NoticeMaps DEF Custody!Next
    <2>6. QED BY <2>4, <2>5
  <1>4. QED BY <1>2, <1>3

\* The lifecycle implements TenantCustody: a PO takes namespaces only under open
\* books, and its books do not close on one that its deletion had noticed.
THEOREM LifecycleImplementsCustody == PlainLabels => (Spec => ImplementsCustody)
  <1> SUFFICES ASSUME PlainLabels PROVE Spec => ImplementsCustody
    OBVIOUS
  <1>1. Init => Custody!Init
    <2> SUFFICES ASSUME Init PROVE Custody!Init
      OBVIOUS
    <2>1. OpenBooks = [p \in PO |-> FALSE] /\ Custodian = [n \in NS |-> None]
      BY DEF Init, OpenBooks, Custodian, NoObject, NoNamespace
    <2>2. AllNoticed = {}
      <3>1. ASSUME NEW p \in PO, NEW n \in NS PROVE ~Noticed(p, n)
        BY DEF Init, Noticed, NoObject
      <3>2. QED BY <3>1 DEF AllNoticed
    <2>3. QED BY <2>1, <2>2 DEF Custody!Init
  <1>2. Grounds /\ Grounds' /\ [Next]_vars => [Custody!Next]_<<OpenBooks, Custodian, AllNoticed>>
    BY FinalizerMaps, NamespaceMaps, FinalizerWriters DEF Grounds
  <1>3. QED
    BY <1>1, <1>2, GroundsHold, PTL DEF Spec, ImplementsCustody, Custody!Spec
=============================================================================
